------------------------ MODULE SleepingBarberProofs ------------------------
(***************************************************************************)
(* Proofs about pthreads/sleepbarber.c, for any number of customers and    *)
(* seats: they touch the seats one at a time, no seat or haircut is lost,  *)
(* and everybody leaves after so many steps.                               *)
(***************************************************************************)
EXTENDS SleepingBarber, Numbers

Labels == {"unborn", "arrive", "look", "sit", "ring", "unlock",
           "wait", "leave", "served", "left"}

\* What a thread has read of freeseats is still its value when the thread uses
\* it, and threads not yet created have not moved.
Fresh ==
  /\ barber = "write" => seen = freeseats
  /\ \A c \in Customers : pc[c] = "sit" => look[c] = freeseats /\ freeseats > 0
  /\ \A c \in Customers : created <= c => pc[c] = "unborn"
  /\ created = 0 => barber = "unborn"

Inv == TypeOK /\ SeatsExclusive /\ Fresh /\ SeatsAccounted /\ HaircutsOwed

\* Customers are finitely many.
LEMMA SeatedFinite ==
  ASSUME NEW S \in SUBSET Customers
  PROVE  IsFiniteSet(S) /\ Cardinality(S) \in Nat
<1>1. IsFiniteSet(Customers)
  BY BarberAssumption, FS_Interval DEF Customers
<1> QED BY <1>1, FS_Subset, FS_CardinalityType

\* How one customer's step from one label to another changes a count.
LEMMA Moved ==
  ASSUME pc \in [Customers -> Labels], NEW c \in Customers, NEW label \in Labels,
         pc' = [pc EXCEPT ![c] = label], NEW L
  PROVE  /\ Cardinality(Seated(L)) \in Nat /\ Cardinality(Seated(L)') \in Nat
         /\ (pc[c] \in L <=> label \in L) => Cardinality(Seated(L)') = Cardinality(Seated(L))
         /\ pc[c] \notin L /\ label \in L => Cardinality(Seated(L)') = Cardinality(Seated(L)) + 1
         /\ pc[c] \in L /\ label \notin L => Cardinality(Seated(L)') = Cardinality(Seated(L)) - 1
<1>1. IsFiniteSet(Seated(L)) /\ Cardinality(Seated(L)) \in Nat /\ Cardinality(Seated(L)') \in Nat
  BY SeatedFinite DEF Seated
<1>2. ASSUME pc[c] \in L <=> label \in L PROVE Seated(L)' = Seated(L)
  BY <1>2 DEF Seated
<1>3. ASSUME pc[c] \notin L, label \in L
      PROVE  Seated(L)' = Seated(L) \cup {c} /\ c \notin Seated(L)
  BY <1>3 DEF Seated
<1>4. ASSUME pc[c] \in L, label \notin L
      PROVE  Seated(L)' = Seated(L) \ {c} /\ c \in Seated(L)
  BY <1>4 DEF Seated
<1> QED BY <1>1, <1>2, <1>3, <1>4, FS_AddElement, FS_RemoveElement

LEMMA InitInv == Init => Inv
<1> SUFFICES ASSUME Init PROVE Inv
  OBVIOUS
<1>1. TypeOK
  BY BarberAssumption DEF Init, TypeOK
<1>2. SeatsExclusive /\ Fresh
  BY DEF Init, SeatsExclusive, Inside, BarberInside, Fresh
<1>3. Seated({"ring"}) = {} /\ Seated({"unlock", "wait"}) = {}
  BY DEF Init, Seated
<1>4. Cardinality({}) = 0
  BY FS_EmptySet
<1>5. SeatsAccounted
  <2>1. freeseats = MaxFreeSeats /\ cussem = 0 /\ barber = "unborn" /\ MaxFreeSeats \in Nat
    BY BarberAssumption DEF Init
  <2> QED BY <1>3, <1>4, <2>1 DEF SeatsAccounted
<1>6. HaircutsOwed
  <2>1. barsem = 0 /\ cussem = 0 /\ barber = "unborn"
    BY DEF Init
  <2> QED BY <1>3, <1>4, <2>1 DEF HaircutsOwed
<1> QED BY <1>1, <1>2, <1>5, <1>6 DEF Inv

\* Steps of the barber: no customer moves.
LEMMA BarberStep == ASSUME Inv, Barber \/ CreateBarber \/ UNCHANGED vars PROVE Inv'
<1>1. UNCHANGED <<pc, look>> /\ (created' = created \/ CreateBarber)
  BY DEF Barber, CreateBarber, BarberWakes, BarberLocks, BarberReads, BarberFreesSeat,
         BarberCalls, BarberUnlocks, vars
<1>2. Inside' = Inside /\ \A L : Seated(L)' = Seated(L)
  BY <1>1 DEF Inside, Seated
<1>3. Cardinality(Seated({"ring"})) \in Nat /\ Cardinality(Seated({"unlock", "wait"})) \in Nat
  BY SeatedFinite DEF Seated
<1> DEFINE n == Cardinality(Seated({"ring"}))  m == Cardinality(Seated({"unlock", "wait"}))
<1>4. n' = n /\ m' = m
  BY <1>2
<1>5. /\ n \in Nat /\ m \in Nat
      /\ freeseats + cussem + n + (IF barber \in {"lock", "read", "write"} THEN 1 ELSE 0)
           = MaxFreeSeats
      /\ m = barsem + cussem
               + (IF barber \in {"lock", "read", "write", "call"} THEN 1 ELSE 0)
  BY <1>3 DEF Inv, SeatsAccounted, HaircutsOwed
<1>6. SUFFICES /\ TypeOK' /\ SeatsExclusive' /\ Fresh'
               /\ freeseats' + cussem' + n
                    + (IF barber' \in {"lock", "read", "write"} THEN 1 ELSE 0) = MaxFreeSeats
               /\ m = barsem' + cussem'
                        + (IF barber' \in {"lock", "read", "write", "call"} THEN 1 ELSE 0)
  BY <1>4 DEF Inv, SeatsAccounted, HaircutsOwed
<1> HIDE DEF n, m
<1> USE BarberAssumption
<1>7. CASE CreateBarber
  <2>1. /\ created = 0 /\ created' = 1 /\ barber = "unborn" /\ barber' = "sleep"
        /\ UNCHANGED <<barsem, cussem, seasem, freeseats, seen, pc, look>>
    BY <1>7 DEF CreateBarber, sems, Inv, Fresh
  <2>2. TypeOK'
    BY <2>1 DEF Inv, TypeOK
  <2>3. SeatsExclusive'
    BY <1>2, <2>1 DEF Inv, SeatsExclusive, BarberInside
  <2>4. Fresh'
    BY <2>1 DEF Inv, Fresh, Customers
  <2> QED BY <1>5, <2>1, <2>2, <2>3, <2>4
<1>8. CASE BarberWakes
  BY <1>2, <1>5, <1>8 DEF BarberWakes, Inv, TypeOK, SeatsExclusive, BarberInside, Fresh
<1>9. CASE BarberLocks
  BY <1>2, <1>5, <1>9 DEF BarberLocks, Inv, TypeOK, SeatsExclusive, BarberInside, Fresh
<1>10. CASE BarberReads
  BY <1>2, <1>5, <1>10 DEF BarberReads, sems, Inv, TypeOK, SeatsExclusive, BarberInside, Fresh
<1>11. CASE BarberFreesSeat
  <2>1. \A c \in Customers : pc[c] # "sit"
    BY <1>11 DEF BarberFreesSeat, Inv, SeatsExclusive, BarberInside, Inside
  <2> QED BY <1>2, <1>5, <1>11, <2>1
          DEF BarberFreesSeat, sems, Inv, TypeOK, SeatsExclusive, BarberInside, Fresh
<1>12. CASE BarberCalls
  BY <1>2, <1>5, <1>12 DEF BarberCalls, Inv, TypeOK, SeatsExclusive, BarberInside, Fresh
<1>13. CASE BarberUnlocks
  BY <1>2, <1>5, <1>13 DEF BarberUnlocks, Inv, TypeOK, SeatsExclusive, BarberInside, Fresh
<1>14. CASE UNCHANGED vars
  BY <1>2, <1>5, <1>14 DEF vars, Inv, TypeOK, SeatsExclusive, BarberInside, Fresh
<1> QED BY <1>7, <1>8, <1>9, <1>10, <1>11, <1>12, <1>13, <1>14 DEF Barber

\* main creates the next customer (sleepbarber.c:39-42).
LEMMA CreateStep == ASSUME Inv, CreateCustomer PROVE Inv'
<1> USE BarberAssumption
<1>1. /\ created \in Customers /\ created' = created + 1
      /\ pc' = [pc EXCEPT ![created] = "arrive"]
      /\ UNCHANGED <<barsem, cussem, seasem, freeseats, barber, seen, look>>
  BY DEF CreateCustomer, sems
<1>2. pc[created] = "unborn" /\ pc \in [Customers -> Labels]
  BY <1>1 DEF Inv, Fresh, TypeOK, Labels, Customers
<1>3. \A L : pc[created] \notin L /\ "arrive" \notin L => Seated(L)' = Seated(L)
  BY <1>1, <1>2 DEF Seated
<1>4. Seated({"ring"})' = Seated({"ring"})
      /\ Seated({"unlock", "wait"})' = Seated({"unlock", "wait"})
  BY <1>2, <1>3
<1>5. Inside' = Inside
  BY <1>1, <1>2 DEF Inside
<1>6. TypeOK'
  BY <1>1 DEF Inv, TypeOK, Customers
<1>7. SeatsExclusive'
  BY <1>1, <1>5 DEF Inv, SeatsExclusive, BarberInside
<1>8. Fresh'
  BY <1>1, <1>2 DEF Inv, Fresh, Customers
<1>9. SeatsAccounted' /\ HaircutsOwed'
  BY <1>1, <1>4 DEF Inv, SeatsAccounted, HaircutsOwed
<1> QED BY <1>6, <1>7, <1>8, <1>9 DEF Inv

\* A customer's step: what it does to the two counts, and to who is inside.
LEMMA CustomerStep == ASSUME Inv, NEW c \in Customers, Customer(c) PROVE Inv'
<1> USE BarberAssumption
<1> DEFINE n == Cardinality(Seated({"ring"}))  m == Cardinality(Seated({"unlock", "wait"}))
           N == Cardinality(Seated({"ring"})')  M == Cardinality(Seated({"unlock", "wait"})')
<1>1. /\ freeseats + cussem + n + (IF barber \in {"lock", "read", "write"} THEN 1 ELSE 0)
           = MaxFreeSeats
      /\ m = barsem + cussem
               + (IF barber \in {"lock", "read", "write", "call"} THEN 1 ELSE 0)
  BY DEF Inv, SeatsAccounted, HaircutsOwed
<1>2. PICK label \in Labels :
        /\ pc' = [pc EXCEPT ![c] = label]
        /\ <<pc[c], label>> \in {<<"arrive", "look">>, <<"look", "sit">>, <<"look", "leave">>,
             <<"sit", "ring">>, <<"ring", "unlock">>, <<"unlock", "wait">>,
             <<"wait", "served">>, <<"leave", "left">>}
  BY DEF Customer, Arrive, Look, Sit, Ring, Unlock, GetHaircut, Leave, Goto, Labels
<1>3. pc \in [Customers -> Labels]
  BY DEF Inv, TypeOK, Labels
<1>4. /\ n \in Nat /\ m \in Nat /\ N \in Nat /\ M \in Nat
      /\ label = "ring" => N = n + 1
      /\ pc[c] = "ring" => N = n - 1
      /\ label # "ring" /\ pc[c] # "ring" => N = n
      /\ pc[c] = "ring" => M = m + 1
      /\ pc[c] = "unlock" => M = m
      /\ pc[c] = "wait" => M = m - 1
      /\ pc[c] \notin {"ring", "unlock", "wait"} => M = m
  <2>1. /\ n \in Nat /\ N \in Nat
        /\ (pc[c] \in {"ring"} <=> label \in {"ring"}) => N = n
        /\ pc[c] \notin {"ring"} /\ label \in {"ring"} => N = n + 1
        /\ pc[c] \in {"ring"} /\ label \notin {"ring"} => N = n - 1
    BY <1>2, <1>3, Moved
  <2>2. /\ m \in Nat /\ M \in Nat
        /\ (pc[c] \in {"unlock", "wait"} <=> label \in {"unlock", "wait"}) => M = m
        /\ pc[c] \notin {"unlock", "wait"} /\ label \in {"unlock", "wait"} => M = m + 1
        /\ pc[c] \in {"unlock", "wait"} /\ label \notin {"unlock", "wait"} => M = m - 1
    BY <1>2, <1>3, Moved
  <2> HIDE DEF n, m, N, M
  <2> QED BY <1>2, <2>1, <2>2
<1>5. SUFFICES /\ TypeOK' /\ SeatsExclusive' /\ Fresh'
               /\ freeseats' + cussem' + N
                    + (IF barber' \in {"lock", "read", "write"} THEN 1 ELSE 0) = MaxFreeSeats
               /\ M = barsem' + cussem'
                        + (IF barber' \in {"lock", "read", "write", "call"} THEN 1 ELSE 0)
  BY DEF Inv, SeatsAccounted, HaircutsOwed
<1> HIDE DEF n, m, N, M
<1>6. /\ \A d \in Customers : pc'[d] = IF d = c THEN label ELSE pc[d]
      /\ pc' \in [Customers -> Labels]
  BY <1>2, <1>3
<1>7. barber' = barber /\ seen' = seen /\ created' = created
  BY DEF Customer, Arrive, Look, Sit, Ring, Unlock, GetHaircut, Leave
<1>8. \A d \in Customers : d \in Inside /\ c \in Inside => d = c
  BY DEF Inv, SeatsExclusive
<1>9. CASE Arrive(c)
  <2>1. /\ pc[c] = "arrive" /\ label = "look" /\ seasem = 1 /\ seasem' = 0
        /\ UNCHANGED <<barsem, cussem, freeseats, look>>
    BY <1>2, <1>9, <1>6 DEF Arrive, Goto, Inv, TypeOK
  <2>2. Inside' = {c} /\ Inside = {} /\ ~BarberInside
    BY <2>1, <1>6 DEF Inside, Inv, SeatsExclusive
  <2>3. TypeOK' /\ SeatsExclusive'
    BY <1>6, <1>7, <2>1, <2>2 DEF Inv, TypeOK, Labels, SeatsExclusive, BarberInside
  <2>4. Fresh'
    BY <1>6, <1>7, <2>1 DEF Inv, Fresh
  <2> QED BY <1>1, <1>4, <1>7, <2>1, <2>3, <2>4
<1>10. ASSUME pc[c] \in {"look", "sit", "ring"},
              label \in {"sit", "leave", "ring", "unlock"}, UNCHANGED seasem
       PROVE  SeatsExclusive' /\ Inside = {c}
  <2>1. c \in Inside /\ Inside' = Inside
    BY <1>6, <1>10 DEF Inside
  <2> QED BY <1>7, <1>8, <1>10, <2>1 DEF Inv, SeatsExclusive, BarberInside, Inside
<1>11. ASSUME pc[c] \in {"unlock", "leave"}, label \in {"wait", "left"}, seasem' = seasem + 1
       PROVE  SeatsExclusive' /\ seasem' = 1
  <2>1. c \in Inside /\ Inside' = Inside \ {c} /\ Inside = {c}
    BY <1>6, <1>8, <1>11 DEF Inside
  <2>2. seasem = 0 /\ ~BarberInside
    BY <2>1 DEF Inv, SeatsExclusive, TypeOK
  <2> QED BY <1>7, <1>11, <2>1, <2>2 DEF Inv, SeatsExclusive, BarberInside
<1>12. CASE Look(c)
  <2>1. /\ pc[c] = "look" /\ label \in {"sit", "leave"} /\ (label = "sit" => freeseats > 0)
        /\ look' = [look EXCEPT ![c] = freeseats]
        /\ UNCHANGED <<barsem, cussem, seasem, freeseats>>
    BY <1>2, <1>12, <1>6 DEF Look, Goto, sems
  <2>2. SeatsExclusive' /\ Inside = {c}
    BY <1>10, <2>1
  <2>3. TypeOK'
    BY <1>6, <1>7, <2>1 DEF Inv, TypeOK, Labels
  <2>4. Fresh'
    <3>1. \A d \in Customers : pc[d] = "sit" => d = c
      BY <2>2 DEF Inside
    <3> QED BY <1>6, <1>7, <2>1, <3>1 DEF Inv, Fresh, TypeOK
  <2> QED BY <1>1, <1>4, <1>7, <2>1, <2>2, <2>3, <2>4
<1>13. CASE Sit(c)
  <2>1. /\ pc[c] = "sit" /\ label = "ring" /\ freeseats' = look[c] - 1
        /\ UNCHANGED <<barsem, cussem, seasem, look>>
    BY <1>2, <1>13, <1>6 DEF Sit, Goto, sems
  <2>2. SeatsExclusive' /\ Inside = {c}
    BY <1>10, <2>1
  <2>3. freeseats' = freeseats - 1 /\ freeseats > 0
    BY <2>1 DEF Inv, Fresh
  <2>4. TypeOK'
    BY <1>6, <1>7, <2>1, <2>3 DEF Inv, TypeOK, Labels
  <2>5. Fresh'
    <3>1. \A d \in Customers : pc[d] = "sit" => d = c
      BY <2>2 DEF Inside
    <3>2. barber # "write"
      BY <2>2 DEF Inv, SeatsExclusive, BarberInside
    <3> QED BY <1>6, <1>7, <2>1, <3>1, <3>2 DEF Inv, Fresh
  <2> QED BY <1>1, <1>4, <1>7, <2>1, <2>2, <2>3, <2>4, <2>5 DEF Inv, TypeOK
<1>14. CASE Ring(c)
  <2>1. /\ pc[c] = "ring" /\ label = "unlock" /\ cussem' = cussem + 1
        /\ UNCHANGED <<barsem, seasem, freeseats, look>>
    BY <1>2, <1>14, <1>6 DEF Ring, Goto
  <2>2. SeatsExclusive'
    BY <1>10, <2>1
  <2>3. TypeOK'
    BY <1>6, <1>7, <2>1 DEF Inv, TypeOK, Labels
  <2>4. Fresh'
    BY <1>6, <1>7, <2>1 DEF Inv, Fresh
  <2> QED BY <1>1, <1>4, <1>7, <2>1, <2>2, <2>3, <2>4 DEF Inv, TypeOK
<1>15. CASE Unlock(c) \/ Leave(c)
  <2>1. /\ (pc[c] = "unlock" /\ label = "wait") \/ (pc[c] = "leave" /\ label = "left")
        /\ seasem' = seasem + 1
        /\ UNCHANGED <<barsem, cussem, freeseats, look>>
    BY <1>2, <1>15, <1>6 DEF Unlock, Leave, Goto
  <2>2. SeatsExclusive' /\ seasem' = 1
    BY <1>11, <2>1
  <2>3. TypeOK'
    BY <1>6, <1>7, <2>1, <2>2 DEF Inv, TypeOK, Labels
  <2>4. Fresh'
    BY <1>6, <1>7, <2>1 DEF Inv, Fresh
  <2> QED BY <1>1, <1>4, <1>7, <2>1, <2>2, <2>3, <2>4
<1>16. CASE GetHaircut(c)
  <2>1. /\ pc[c] = "wait" /\ label = "served" /\ barsem > 0 /\ barsem' = barsem - 1
        /\ UNCHANGED <<cussem, seasem, freeseats, look>>
    BY <1>2, <1>16, <1>6 DEF GetHaircut, Goto
  <2>2. Inside' = Inside
    BY <1>6, <2>1 DEF Inside
  <2>3. SeatsExclusive'
    BY <1>7, <2>1, <2>2 DEF Inv, SeatsExclusive, BarberInside
  <2>4. TypeOK'
    BY <1>6, <1>7, <2>1 DEF Inv, TypeOK, Labels
  <2>5. Fresh'
    BY <1>6, <1>7, <2>1 DEF Inv, Fresh
  <2> QED BY <1>1, <1>4, <1>7, <2>1, <2>3, <2>4, <2>5 DEF Inv, TypeOK
<1> QED BY <1>9, <1>12, <1>13, <1>14, <1>15, <1>16 DEF Customer

LEMMA Invariant == Spec => []Inv
<1>1. Inv /\ [Next]_vars => Inv'
  BY BarberStep, CreateStep, CustomerStep DEF Next, Create
<1> QED BY <1>1, InitInv, PTL DEF Spec

\* freeseats is touched by one thread at a time (sleepbarber.c:15), for any
\* number of customers.
THEOREM Exclusion == Spec => []SeatsExclusive
<1>1. Inv => SeatsExclusive
  BY DEF Inv
<1> QED BY <1>1, Invariant, PTL

\* No seat and no haircut is lost or given twice (sleepbarber.c:54-57, 69-73),
\* for any number of customers and seats.
THEOREM Accounting == Spec => []Accounted
<1>1. Inv => Accounted
  BY DEF Inv, Accounted
<1> QED BY <1>1, Invariant, PTL

-----------------------------------------------------------------------------
(* Everybody gets done: some thread can go on until all customers are through, *)
(* and no thread can go on for ever.                                        *)

\* The threads main has created are no longer unborn.
Born ==
  /\ \A c \in Customers : c < created => pc[c] # "unborn"
  /\ created > 0 => barber # "unborn"

\* Where the guard of a next step of main, the barber or customer c holds.
MainCanGo == created \in 0..NumCustomers

BarberCanGo ==
  \/ barber = "sleep" /\ cussem > 0
  \/ barber = "lock" /\ seasem > 0
  \/ barber \in {"read", "write", "call", "unlock"}

CustomerCanGo(c) ==
  \/ pc[c] = "arrive" /\ seasem > 0
  \/ pc[c] = "wait" /\ barsem > 0
  \/ pc[c] \in {"look", "sit", "ring", "unlock", "leave"}

SomeoneCanGo == MainCanGo \/ BarberCanGo \/ \E c \in Customers : CustomerCanGo(c)

AllGone == \A c \in Customers : pc[c] \in {"served", "left"}

\* How much a customer may still do, from where it is: a ring of cussem hands six
\* steps on, to the barber who will answer it.
Ahead(label) ==
  CASE label = "unborn" -> 13 [] label = "arrive" -> 12 [] label = "look" -> 11
    [] label = "sit" -> 10 [] label = "ring" -> 9 [] label = "unlock" -> 2
    [] label \in {"wait", "leave"} -> 1 [] OTHER -> 0

BarberAhead ==
  CASE barber = "lock" -> 5 [] barber = "read" -> 4 [] barber = "write" -> 3
    [] barber = "call" -> 2 [] barber \in {"unlock", "unborn"} -> 1 [] OTHER -> 0

CustomersAhead == SumOver(Customers, [c \in Customers |-> Ahead(pc[c])])

RingsAhead == 6 * cussem

\* A bound of the number of steps that all the threads can still take.
StepsLeft == CustomersAhead + RingsAhead + BarberAhead

LEMMA NextBorn == Inv /\ Born /\ [Next]_vars => Born'
<1> SUFFICES ASSUME Inv, Born, [Next]_vars PROVE Born'
  OBVIOUS
<1> USE BarberAssumption
<1>1. /\ created \in 0..(NumCustomers + 1)
      /\ pc \in [Customers -> Labels]
  BY DEF Inv, TypeOK, Labels
<1>2. CASE CreateBarber
  BY <1>1, <1>2 DEF CreateBarber, Born, Customers
<1>3. CASE CreateCustomer
  <2>1. created > 0
    BY <1>3 DEF CreateCustomer, Customers
  <2> QED BY <1>1, <1>3, <2>1 DEF CreateCustomer, Born, Customers
<1>4. CASE Barber \/ UNCHANGED vars
  <2>1. pc' = pc /\ created' = created /\ (barber # "unborn" => barber' # "unborn")
    BY <1>4 DEF Barber, BarberWakes, BarberLocks, BarberReads, BarberFreesSeat, BarberCalls,
                BarberUnlocks, vars
  <2> QED BY <2>1 DEF Born
<1>5. CASE \E c \in Customers : Customer(c)
  <2>1. PICK c \in Customers : Customer(c)
    BY <1>5
  <2>2. PICK label \in Labels \ {"unborn"} : pc' = [pc EXCEPT ![c] = label]
    BY <2>1 DEF Customer, Arrive, Look, Sit, Ring, Unlock, GetHaircut, Leave, Goto, Labels
  <2>3. barber' = barber /\ created' = created
    BY <2>1 DEF Customer, Arrive, Look, Sit, Ring, Unlock, GetHaircut, Leave
  <2> QED BY <1>1, <2>2, <2>3 DEF Born
<1> QED BY <1>2, <1>3, <1>4, <1>5 DEF Next, Create

\* The semaphores are never all taken: whoever keeps the others waiting can go on
\* (sleepbarber.c:52-58, 64-78).
LEMMA NoDeadlock == Inv /\ Born => SomeoneCanGo \/ AllGone
<1> SUFFICES ASSUME Inv, Born, ~SomeoneCanGo, NEW c \in Customers, pc[c] \notin {"served", "left"}
             PROVE  FALSE
  BY DEF AllGone
<1> USE BarberAssumption
<1>1. created = NumCustomers + 1
  BY DEF SomeoneCanGo, MainCanGo, Inv, TypeOK
<1>2. barber # "unborn" /\ \A d \in Customers : pc[d] # "unborn"
  BY <1>1 DEF Born, Customers
<1>3. Inside = {} /\ ~BarberInside
  BY DEF SomeoneCanGo, CustomerCanGo, BarberCanGo, Inside, BarberInside
<1>4. seasem = 1
  BY <1>3 DEF Inv, SeatsExclusive
<1>5. barber = "sleep" /\ cussem = 0
  BY <1>2, <1>3, <1>4 DEF SomeoneCanGo, BarberCanGo, BarberInside, Inv, TypeOK
<1>6. pc[c] = "wait" /\ barsem = 0
  BY <1>2, <1>3, <1>4 DEF SomeoneCanGo, CustomerCanGo, Inside, Inv, TypeOK
<1>7. Cardinality(Seated({"unlock", "wait"})) = 0
  BY <1>5, <1>6 DEF Inv, HaircutsOwed
<1>8. Seated({"unlock", "wait"}) = {}
  <2>1. Seated({"unlock", "wait"}) \in SUBSET Customers
    BY DEF Seated
  <2> QED BY <1>7, <2>1, SeatedFinite, FS_EmptySet
<1> QED BY <1>6, <1>8 DEF Seated

\* The sum is a number.
LEMMA CustomersSum == CustomersAhead \in Nat
<1> DEFINE w == [d \in Customers |-> Ahead(pc[d])]
<1>1. IsFiniteSet(Customers)
  BY BarberAssumption, FS_Interval DEF Customers
<1>2. w \in [Customers -> Nat]
  BY DEF Ahead
<1>3. CustomersAhead = SumOver(Customers, w)
  BY DEF CustomersAhead
<1> HIDE DEF w
<1> QED BY <1>1, <1>2, <1>3, SumType

\* A move of customer c to another label, in the sum.
LEMMA CustomerAhead ==
  ASSUME pc \in [Customers -> Labels], NEW c \in Customers, NEW label \in Labels,
         pc' = [pc EXCEPT ![c] = label]
  PROVE  /\ CustomersAhead \in Nat /\ CustomersAhead' \in Nat
         /\ CustomersAhead' + Ahead(pc[c]) = CustomersAhead + Ahead(label)
<1> DEFINE w == [d \in Customers |-> Ahead(pc[d])]
           v == [d \in Customers |-> Ahead(pc'[d])]
<1>1. IsFiniteSet(Customers)
  BY BarberAssumption, FS_Interval DEF Customers
<1>2. w \in [Customers -> Nat] /\ v \in [Customers -> Nat]
  BY DEF Ahead
<1>3. \A d \in Customers \ {c} : v[d] = w[d]
  OBVIOUS
<1>4. v[c] = Ahead(label) /\ w[c] = Ahead(pc[c])
  OBVIOUS
<1>5. CustomersAhead = SumOver(Customers, w) /\ CustomersAhead' = SumOver(Customers, v)
  BY DEF CustomersAhead
<1> HIDE DEF w, v
<1>6. /\ SumOver(Customers, v) \in Nat /\ SumOver(Customers, w) \in Nat
      /\ SumOver(Customers, v) + w[c] = SumOver(Customers, w) + v[c]
  BY ONLY <1>1, <1>2, <1>3, c \in Customers, SumOneChanged
<1> QED BY <1>4, <1>5, <1>6

\* The bound at the start, and ever after a number.
LEMMA AheadType ==
  Inv => CustomersAhead \in Nat /\ RingsAhead \in Nat /\ BarberAhead \in Nat /\ StepsLeft \in Nat
<1> SUFFICES ASSUME Inv
             PROVE  /\ CustomersAhead \in Nat /\ RingsAhead \in Nat /\ BarberAhead \in Nat
                    /\ StepsLeft \in Nat
  OBVIOUS
<1>1. RingsAhead \in Nat
  BY DEF Inv, TypeOK, RingsAhead
<1>2. BarberAhead \in Nat
  BY DEF BarberAhead
<1> QED BY <1>1, <1>2, CustomersSum DEF StepsLeft

LEMMA AheadTypeNext ==
  Inv' => (CustomersAhead \in Nat /\ RingsAhead \in Nat /\ BarberAhead \in Nat
             /\ StepsLeft \in Nat)'
BY AheadType, PTL

LEMMA AheadInit == Init => StepsLeft = NumCustomers * 13 + 1
<1> SUFFICES ASSUME Init PROVE StepsLeft = NumCustomers * 13 + 1
  OBVIOUS
<1> DEFINE w == [d \in Customers |-> Ahead(pc[d])]
<1>1. IsFiniteSet(Customers) /\ Cardinality(Customers) = NumCustomers
  BY BarberAssumption, FS_Interval DEF Customers
<1>2. \A d \in Customers : w[d] = 13
  BY DEF Init, Ahead
<1>3. CustomersAhead = SumOver(Customers, w)
  BY DEF CustomersAhead
<1> HIDE DEF w
<1>4. SumOver(Customers, w) = Cardinality(Customers) * 13
  BY <1>1, <1>2, SumConstant
<1>5. RingsAhead = 0 /\ BarberAhead = 1
  BY DEF Init, BarberAhead, RingsAhead
<1> QED BY <1>1, <1>3, <1>4, <1>5, BarberAssumption DEF StepsLeft

\* What a step does to the rings on their way.
LEMMA RingsMove ==
  ASSUME cussem \in Nat
  PROVE  /\ cussem' = cussem => RingsAhead' = RingsAhead
         /\ cussem' = cussem + 1 => RingsAhead' = RingsAhead + 6
         /\ cussem' = cussem - 1 => RingsAhead' = RingsAhead - 6
<1>1. CASE cussem' = cussem
  BY <1>1 DEF RingsAhead
<1>2. CASE cussem' = cussem + 1
  BY <1>2 DEF RingsAhead
<1>3. CASE cussem' = cussem - 1
  BY <1>3 DEF RingsAhead
<1> QED BY <1>1, <1>2, <1>3

\* What a customer does next is less than what it had ahead, even with the steps
\* it hands on.
LEMMA LessAhead ==
  ASSUME NEW d \in Nat, NEW e \in Nat, NEW r \in Nat, NEW s \in Nat, NEW b \in Nat, NEW m \in Nat,
         NEW n \in Nat, NEW k \in Nat, NEW c, c = b, e + m = d + n, s = r + k, n + k < m
  PROVE  e + s + c < d + r + b
OBVIOUS

LEMMA StepsRunOut == ASSUME Inv, Next PROVE StepsLeft' < StepsLeft
<1>1. pc \in [Customers -> Labels] /\ cussem \in Nat
  BY DEF Inv, TypeOK, Labels
<1>2. CustomersAhead \in Nat /\ RingsAhead \in Nat /\ BarberAhead \in Nat
  BY AheadType
<1>3. Inv'
  BY BarberStep, CreateStep, CustomerStep DEF Next, Create
<1>4. CustomersAhead' \in Nat /\ RingsAhead' \in Nat /\ BarberAhead' \in Nat
  BY <1>3, AheadTypeNext
<1>5. SUFFICES CustomersAhead' + RingsAhead' + BarberAhead' < CustomersAhead + RingsAhead + BarberAhead
  BY DEF StepsLeft
<1>6. CASE Barber \/ CreateBarber
  <2>1. pc' = pc
    BY <1>6 DEF Barber, CreateBarber, BarberWakes, BarberLocks, BarberReads, BarberFreesSeat,
                BarberCalls, BarberUnlocks
  <2>2. CustomersAhead' = CustomersAhead
    BY <2>1 DEF CustomersAhead
  <2>3. CASE CreateBarber
    <3>1. cussem' = cussem /\ BarberAhead = 1 /\ BarberAhead' = 0
      BY <2>3 DEF CreateBarber, sems, BarberAhead, Inv, Fresh
    <3>2. RingsAhead' = RingsAhead
      BY <1>1, <3>1, RingsMove
    <3> QED BY <1>2, <2>2, <3>1, <3>2
  <2>4. CASE BarberWakes
    <3>1. cussem' = cussem - 1 /\ BarberAhead = 0 /\ BarberAhead' = 5
      BY <2>4 DEF BarberWakes, BarberAhead
    <3>2. RingsAhead' = RingsAhead - 6
      BY <1>1, <3>1, RingsMove
    <3> QED BY <1>2, <2>2, <3>1, <3>2
  <2>5. CASE BarberLocks \/ BarberReads \/ BarberFreesSeat \/ BarberCalls \/ BarberUnlocks
    <3>1. cussem' = cussem /\ BarberAhead' = BarberAhead - 1
      BY <2>5 DEF BarberLocks, BarberReads, BarberFreesSeat, BarberCalls, BarberUnlocks,
                  sems, BarberAhead
    <3>2. RingsAhead' = RingsAhead
      BY <1>1, <3>1, RingsMove
    <3> QED BY <1>2, <2>2, <3>1, <3>2
  <2> QED BY <1>6, <2>3, <2>4, <2>5 DEF Barber
<1>7. CASE CreateCustomer
  <2>1. /\ created \in Customers /\ "arrive" \in Labels
        /\ pc' = [pc EXCEPT ![created] = "arrive"]
        /\ cussem' = cussem /\ BarberAhead' = BarberAhead
    BY <1>7 DEF CreateCustomer, sems, BarberAhead, Labels
  <2>2. pc[created] = "unborn"
    BY <2>1 DEF Inv, Fresh, Customers, BarberAssumption
  <2>3. CustomersAhead' + Ahead(pc[created]) = CustomersAhead + Ahead("arrive")
    BY <1>1, <2>1, CustomerAhead
  <2>4. /\ Ahead("arrive") + 0 < Ahead(pc[created])
        /\ Ahead("arrive") \in Nat /\ Ahead(pc[created]) \in Nat
    BY <2>2 DEF Ahead
  <2>5. RingsAhead' = RingsAhead + 0
    BY <1>1, <1>2, <2>1, RingsMove
  <2>6. BarberAhead' = BarberAhead
    BY <2>1
  <2> QED BY <1>2, <1>4, <2>3, <2>4, <2>5, <2>6, LessAhead
<1>8. ASSUME NEW c \in Customers, Customer(c) PROVE CustomersAhead' + RingsAhead' + BarberAhead' < CustomersAhead + RingsAhead + BarberAhead
  <2>1. BarberAhead' = BarberAhead
    BY <1>8 DEF BarberAhead, Customer, Arrive, Look, Sit, Ring, Unlock, GetHaircut, Leave
  <2>2. CASE Ring(c)
    <3>1. "unlock" \in Labels /\ pc[c] = "ring" /\ cussem' = cussem + 1
          /\ pc' = [pc EXCEPT ![c] = "unlock"]
      BY <2>2 DEF Ring, Goto, Labels
    <3>2. CustomersAhead' + Ahead(pc[c]) = CustomersAhead + Ahead("unlock")
      BY <1>1, <3>1, CustomerAhead
    <3>3. /\ Ahead("unlock") + 6 < Ahead(pc[c])
          /\ Ahead("unlock") \in Nat /\ Ahead(pc[c]) \in Nat
      BY <3>1 DEF Ahead
    <3>4. RingsAhead' = RingsAhead + 6
      BY <1>1, <3>1, RingsMove
    <3>5. PICK k \in Nat : RingsAhead' = RingsAhead + k /\ Ahead("unlock") + k < Ahead(pc[c])
      BY <3>3, <3>4
    <3> QED BY <1>2, <1>4, <2>1, <3>2, <3>3, <3>5, LessAhead
  <2>3. CASE Arrive(c) \/ Look(c) \/ Sit(c) \/ Unlock(c) \/ GetHaircut(c) \/ Leave(c)
    <3>1. cussem' = cussem
      BY <2>3 DEF Arrive, Look, Sit, Unlock, GetHaircut, Leave, sems
    <3>2. PICK label \in Labels :
            /\ pc' = [pc EXCEPT ![c] = label]
            /\ <<pc[c], label>> \in {<<"arrive", "look">>, <<"look", "sit">>, <<"look", "leave">>,
                 <<"sit", "ring">>, <<"unlock", "wait">>, <<"wait", "served">>, <<"leave", "left">>}
      BY <2>3 DEF Arrive, Look, Sit, Unlock, GetHaircut, Leave, Goto, Labels
    <3>3. Ahead(label) < Ahead(pc[c]) /\ Ahead(label) \in Nat /\ Ahead(pc[c]) \in Nat
      BY <3>2 DEF Ahead
    <3>4. CustomersAhead' + Ahead(pc[c]) = CustomersAhead + Ahead(label)
      BY <1>1, <3>2, CustomerAhead
    <3>5. RingsAhead' = RingsAhead + 0
      BY <1>1, <1>2, <3>1, RingsMove
    <3>6. Ahead(label) + 0 < Ahead(pc[c])
      BY <3>3
    <3> QED BY <1>2, <1>4, <2>1, <3>3, <3>4, <3>5, <3>6, LessAhead
  <2> QED BY <1>8, <2>2, <2>3 DEF Customer
<1> QED BY <1>6, <1>7, <1>8 DEF Next, Create

\* The safety part of AllLeave, for any number of customers and seats: there are at
\* most NumCustomers * 13 + 1 steps, each of which leaves fewer to come, and
\* until every customer is served or turned away one of the threads can take one
\* (sleepbarber.c:80).
THEOREM EverybodyGetsDone ==
  Spec => /\ StepsLeft = NumCustomers * 13 + 1
          /\ [](StepsLeft \in Nat)
          /\ [][StepsLeft' < StepsLeft]_vars
          /\ [](SomeoneCanGo \/ AllGone)
<1>1. Init => Born
  BY DEF Init, Born, Customers
<1>2. Inv /\ [Next]_vars => [StepsLeft' < StepsLeft]_vars
  BY StepsRunOut
<1> QED BY <1>1, <1>2, NextBorn, NoDeadlock, AheadType, AheadInit, Invariant, PTL DEF Spec
=============================================================================
