--------------------------- MODULE SleepingBarber ---------------------------
(***************************************************************************)
(* pthreads/sleepbarber.c: a barber, customers who each visit once, the    *)
(* waiting room's seats and the three semaphores.  main creates the barber *)
(* and then the customers, in order; if a creation fails the process exits,*)
(* which stops every thread.                                               *)
(***************************************************************************)
EXTENDS Integers, FiniteSets

CONSTANTS
  NumCustomers,   \* NUM_CUSTOMERS
  MaxFreeSeats    \* MAX_FREESEATS

ASSUME BarberAssumption == NumCustomers \in Nat /\ MaxFreeSeats \in Nat

Customers == 1..NumCustomers

VARIABLES
  barsem, cussem, seasem,   \* the values of the semaphores
  freeseats,
  barber,                   \* where the barber is
  seen,                     \* freeseats as the barber's freeseats++ has read it
  pc,                       \* where each customer is
  look,                     \* freeseats as each customer has read it
  created                   \* how many threads main has created

vars == <<barsem, cussem, seasem, freeseats, barber, seen, pc, look, created>>
sems == <<barsem, cussem, seasem>>

Init ==
  /\ barsem = 0
  /\ cussem = 0
  /\ seasem = 1
  /\ freeseats = MaxFreeSeats
  /\ barber = "unborn"
  /\ seen = 0
  /\ pc = [c \in Customers |-> "unborn"]
  /\ look = [c \in Customers |-> 0]
  /\ created = 0

-----------------------------------------------------------------------------
(* main *)

CreateBarber ==
  /\ created = 0
  /\ created' = 1
  /\ barber' = "sleep"
  /\ UNCHANGED <<sems, freeseats, seen, pc, look>>

CreateCustomer ==
  /\ created \in Customers
  /\ created' = created + 1
  /\ pc' = [pc EXCEPT ![created] = "arrive"]
  /\ UNCHANGED <<sems, freeseats, barber, seen, look>>

-----------------------------------------------------------------------------
(* barthread *)

BarberWakes ==
  /\ barber = "sleep"
  /\ cussem > 0
  /\ cussem' = cussem - 1
  /\ barber' = "lock"
  /\ UNCHANGED <<barsem, seasem, freeseats, seen, pc, look, created>>

\* Mutation: the barber does not wait for seasem.
BarberLocksNothing ==
  /\ barber = "lock"
  /\ barber' = "read"
  /\ UNCHANGED <<sems, freeseats, seen, pc, look, created>>

BarberLocks ==
  /\ barber = "lock"
  /\ seasem > 0
  /\ seasem' = seasem - 1
  /\ barber' = "read"
  /\ UNCHANGED <<barsem, cussem, freeseats, seen, pc, look, created>>

\* freeseats++ is a read and a write.
BarberReads ==
  /\ barber = "read"
  /\ seen' = freeseats
  /\ barber' = "write"
  /\ UNCHANGED <<sems, freeseats, pc, look, created>>

BarberFreesSeat ==
  /\ barber = "write"
  /\ freeseats' = seen + 1
  /\ barber' = "call"
  /\ UNCHANGED <<sems, seen, pc, look, created>>

BarberCalls ==
  /\ barber = "call"
  /\ barsem' = barsem + 1
  /\ barber' = "unlock"
  /\ UNCHANGED <<cussem, seasem, freeseats, seen, pc, look, created>>

\* Mutation: the barber keeps seasem.
BarberUnlocksNothing ==
  /\ barber = "unlock"
  /\ barber' = "sleep"
  /\ UNCHANGED <<sems, freeseats, seen, pc, look, created>>

\* sem_post(&seasem), the haircut, and back to sleep.
BarberUnlocks ==
  /\ barber = "unlock"
  /\ seasem' = seasem + 1
  /\ barber' = "sleep"
  /\ UNCHANGED <<barsem, cussem, freeseats, seen, pc, look, created>>

-----------------------------------------------------------------------------
(* custhread *)

Goto(c, label) == pc' = [pc EXCEPT ![c] = label]

\* Mutation: the customer does not wait for seasem.
ArriveBarging(c) ==
  /\ pc[c] = "arrive"
  /\ Goto(c, "look")
  /\ UNCHANGED <<sems, freeseats, barber, seen, look, created>>

Arrive(c) ==
  /\ pc[c] = "arrive"
  /\ seasem > 0
  /\ seasem' = seasem - 1
  /\ Goto(c, "look")
  /\ UNCHANGED <<barsem, cussem, freeseats, barber, seen, look, created>>

Look(c) ==
  /\ pc[c] = "look"
  /\ look' = [look EXCEPT ![c] = freeseats]
  /\ Goto(c, IF freeseats > 0 THEN "sit" ELSE "leave")
  /\ UNCHANGED <<sems, freeseats, barber, seen, created>>

Sit(c) ==
  /\ pc[c] = "sit"
  /\ freeseats' = look[c] - 1
  /\ Goto(c, "ring")
  /\ UNCHANGED <<sems, barber, seen, look, created>>

Ring(c) ==
  /\ pc[c] = "ring"
  /\ cussem' = cussem + 1
  /\ Goto(c, "unlock")
  /\ UNCHANGED <<barsem, seasem, freeseats, barber, seen, look, created>>

Unlock(c) ==
  /\ pc[c] = "unlock"
  /\ seasem' = seasem + 1
  /\ Goto(c, "wait")
  /\ UNCHANGED <<barsem, cussem, freeseats, barber, seen, look, created>>

GetHaircut(c) ==
  /\ pc[c] = "wait"
  /\ barsem > 0
  /\ barsem' = barsem - 1
  /\ Goto(c, "served")
  /\ UNCHANGED <<cussem, seasem, freeseats, barber, seen, look, created>>

Leave(c) ==
  /\ pc[c] = "leave"
  /\ seasem' = seasem + 1
  /\ Goto(c, "left")
  /\ UNCHANGED <<barsem, cussem, freeseats, barber, seen, look, created>>

-----------------------------------------------------------------------------

Create == CreateBarber \/ CreateCustomer

Barber ==
  \/ BarberWakes \/ BarberLocks \/ BarberReads
  \/ BarberFreesSeat \/ BarberCalls \/ BarberUnlocks

Customer(c) ==
  \/ Arrive(c) \/ Look(c) \/ Sit(c) \/ Ring(c)
  \/ Unlock(c) \/ GetHaircut(c) \/ Leave(c)

Next == Create \/ Barber \/ \E c \in Customers : Customer(c)

Spec == Init /\ [][Next]_vars

\* Threads that can run do run.  No stronger fairness of the semaphores is
\* needed, since each customer waits on each of them once.
FairSpec ==
  /\ Spec
  /\ WF_vars(Create) /\ WF_vars(Barber)
  /\ \A c \in Customers : WF_vars(Customer(c))

-----------------------------------------------------------------------------

BarberInside == barber \in {"read", "write", "call", "unlock"}
Inside == {c \in Customers : pc[c] \in {"look", "sit", "ring", "unlock", "leave"}}

\* Types of the state: freeseats stays within the room.
TypeOK ==
  /\ barsem \in Nat /\ cussem \in Nat /\ seasem \in 0..1
  /\ freeseats \in 0..MaxFreeSeats
  /\ barber \in {"unborn", "sleep", "lock", "read", "write", "call", "unlock"}
  /\ seen \in 0..MaxFreeSeats
  /\ pc \in [Customers -> {"unborn", "arrive", "look", "sit", "ring", "unlock",
                           "wait", "leave", "served", "left"}]
  /\ look \in [Customers -> 0..MaxFreeSeats]
  /\ created \in 0..(NumCustomers + 1)

\* "mutual exclusion for 'freeseats'" (sleepbarber.c:15): the barber and the
\* customers touch freeseats one at a time.
SeatsExclusive ==
  /\ \A c, d \in Inside : c = d
  /\ BarberInside => Inside = {}
  /\ seasem = 1 <=> Inside = {} /\ ~BarberInside

Seated(labels) == {c \in Customers : pc[c] \in labels}

\* Every taken seat has its ring of cussem, or the barber who answered it and
\* has not freed the seat yet (sleepbarber.c:54-56, 70-71).
SeatsAccounted ==
  freeseats + cussem + Cardinality(Seated({"ring"}))
    + (IF barber \in {"lock", "read", "write"} THEN 1 ELSE 0) = MaxFreeSeats

\* Each customer who took a seat is owed exactly one post of barsem
\* (sleepbarber.c:57, 73).
HaircutsOwed ==
  Cardinality(Seated({"unlock", "wait"})) =
    barsem + cussem + (IF barber \in {"lock", "read", "write", "call"} THEN 1 ELSE 0)

\* No seat and no haircut is lost or given twice, whatever the interleaving of the
\* reads and writes of freeseats++ and freeseats-- (sleepbarber.c:54-57, 69-73).
Accounted == TypeOK /\ SeatsAccounted /\ HaircutsOwed

\* Every customer ends up served or turned away (sleepbarber.c:80).
AllLeave == \A c \in Customers : <>(pc[c] \in {"served", "left"})
=============================================================================
