--------------------------- MODULE ProgramsProofs ---------------------------
(***************************************************************************)
(* Proofs about the programs that stand alone, for every value of their    *)
(* constants: the shared counter, the pseudo-device, the terminal's echo,  *)
(* the directory watcher, the timer, the simulation of lifetimes, kqueue's *)
(* client and the matrix product; and that the counter and the timer come  *)
(* to their end after so many steps.                                       *)
(***************************************************************************)
EXTENDS MCPrograms, Numbers, Sequences, FiniteSetTheorems, SequenceTheorems, TLAPS

-----------------------------------------------------------------------------
(* pthreads/pthread_mutex.c *)

CounterTypes ==
  /\ myglobal \in Nat /\ free \in BOOLEAN
  /\ pc \in [Threads -> {"unborn", "loop", "lock", "read", "write", "unlock", "done"}]
  /\ i \in [Threads -> 0..Rounds] /\ j \in [Threads -> Nat]
  /\ phase \in {"create", "join", "print", "exit"}
  /\ which \in 1..(NumThreads + 1)

\* The lock is what its name says.
Exclusive ==
  /\ \A x \in Threads : Inside(x) => ~free
  /\ \A x, y \in Threads : Inside(x) /\ Inside(y) => x = y

\* Where a thread is in its loop, and what it carries.
Local ==
  \A x \in Threads :
    /\ pc[x] = "write" => j[x] = myglobal + 1
    /\ pc[x] \in {"lock", "read", "write", "unlock"} => i[x] < Rounds
    /\ pc[x] = "done" => i[x] = Rounds

\* How far main is.
MainProgress ==
  /\ phase = "create" => \A x \in Threads : which <= x => pc[x] = "unborn"
  /\ phase = "join" => \A x \in Threads : x < which => pc[x] = "done"
  /\ phase \in {"print", "exit"} => \A x \in Threads : pc[x] = "done"
  /\ phase = "exit" => printed = myglobal

CounterInv == CounterTypes /\ Exclusive /\ Local /\ MainProgress /\ NoLostUpdate

\* An increment is known by its thread and round.
LEMMA IncrementsFinite == IsFiniteSet(Increments) /\ Cardinality(Increments) \in Nat
<1>1. IsFiniteSet(Threads \X (0..Rounds))
  <2>1. IsFiniteSet(Threads) /\ IsFiniteSet(0..Rounds)
    BY CounterAssumption, FS_Interval DEF Threads
  <2> QED BY <2>1, FS_Product
<1>2. Increments \in SUBSET (Threads \X (0..Rounds))
  BY DEF Increments
<1> QED BY <1>1, <1>2, FS_Subset, FS_CardinalityType

\* At the beginning nobody has incremented anything.
LEMMA CounterInitInv == Init => CounterInv
<1> SUFFICES ASSUME Init PROVE CounterInv
  OBVIOUS
<1>1. CounterTypes
  BY CounterAssumption DEF Init, CounterTypes
<1>2. Exclusive /\ Local /\ MainProgress
  BY DEF Init, Exclusive, Inside, Local, MainProgress
<1>3. Increments = {}
  <2>1. \A x \in Threads, n \in 0..Rounds : ~Done(x, n)
    BY DEF Init, Done
  <2> QED BY <2>1 DEF Increments
<1>4. NoLostUpdate
  BY <1>3, FS_EmptySet DEF Init, NoLostUpdate
<1> QED BY <1>1, <1>2, <1>4 DEF CounterInv

\* A thread's step.
LEMMA ThreadStep == ASSUME CounterInv, NEW x \in Threads, Thread(x) PROVE CounterInv'
<1> USE CounterAssumption
<1>1. /\ UNCHANGED <<phase, which, printed>>
      /\ \A y \in Threads \ {x} : pc'[y] = pc[y] /\ i'[y] = i[y] /\ j'[y] = j[y]
      /\ pc[x] \notin {"unborn", "done"}
  BY DEF CounterInv, CounterTypes, Thread, Loop, Lock, Read, Write, Unlock
<1>2. MainProgress'
  <2>1. phase \in {"create", "join"}
    BY <1>1 DEF CounterInv, MainProgress, CounterTypes
  <2> QED BY <1>1, <2>1 DEF CounterInv, MainProgress
<1>3. CASE Loop(x)
  <2>1. CounterTypes' /\ Exclusive' /\ Local'
    BY <1>3 DEF Loop, CounterInv, CounterTypes, Exclusive, Inside, Local
  <2>2. Increments' = Increments
    BY <1>3 DEF Loop, CounterInv, CounterTypes, Increments, Done
  <2> QED BY <1>2, <1>3, <2>1, <2>2 DEF Loop, CounterInv, NoLostUpdate
<1>4. CASE Lock(x)
  <2>1. CounterTypes' /\ Exclusive' /\ Local'
    BY <1>4 DEF Lock, CounterInv, CounterTypes, Exclusive, Inside, Local
  <2>2. Increments' = Increments
    BY <1>4 DEF Lock, CounterInv, CounterTypes, Increments, Done
  <2> QED BY <1>2, <1>4, <2>1, <2>2 DEF Lock, CounterInv, NoLostUpdate
<1>5. CASE Read(x)
  <2>1. CounterTypes' /\ Exclusive' /\ Local'
    BY <1>5 DEF Read, CounterInv, CounterTypes, Exclusive, Inside, Local
  <2>2. Increments' = Increments
    BY <1>5 DEF Read, CounterInv, CounterTypes, Increments, Done
  <2> QED BY <1>2, <1>5, <2>1, <2>2 DEF Read, CounterInv, NoLostUpdate
<1>6. CASE Write(x)
  <2>1. /\ pc[x] = "write" /\ pc' = [pc EXCEPT ![x] = "unlock"] /\ UNCHANGED <<free, i, j>>
        /\ myglobal' = myglobal + 1
    BY <1>6 DEF Write, CounterInv, Local
  <2>2. CounterTypes' /\ Exclusive'
    BY <2>1, <1>1 DEF CounterInv, CounterTypes, Exclusive, Inside
  <2>3. Local'
    BY <2>1 DEF CounterInv, CounterTypes, Local, Exclusive, Inside
  <2>4. Increments' = Increments \cup {<<x, i[x]>>} /\ <<x, i[x]>> \notin Increments
    BY <2>1 DEF CounterInv, CounterTypes, Increments, Done
  <2>5. Cardinality(Increments') = Cardinality(Increments) + 1
    BY <2>4, IncrementsFinite, FS_AddElement
  <2> QED BY <1>2, <2>1, <2>2, <2>3, <2>5 DEF CounterInv, NoLostUpdate
<1>7. CASE Unlock(x)
  <2>1. /\ pc[x] = "unlock" /\ pc' = [pc EXCEPT ![x] = "loop"] /\ free' = TRUE
        /\ i' = [i EXCEPT ![x] = @ + 1] /\ UNCHANGED <<myglobal, j>> /\ i[x] < Rounds
    BY <1>7 DEF Unlock, CounterInv, Local
  <2>2. \A y \in Threads : /\ y # x => pc'[y] = pc[y] /\ i'[y] = i[y] /\ j'[y] = j[y]
                          /\ y = x => pc'[y] = "loop"
    BY <1>1, <2>1 DEF CounterInv, CounterTypes
  <2>3. CounterTypes'
    <3>1. i[x] + 1 \in 0..Rounds
      BY <2>1 DEF CounterInv, CounterTypes
    <3> QED BY <1>1, <2>1, <3>1 DEF CounterInv, CounterTypes
  <2>4. Exclusive'
    BY <2>1, <2>2 DEF CounterInv, Exclusive, Inside
  <2>5. Local'
    BY <2>1, <2>2 DEF CounterInv, Local
  <2>6. Increments' = Increments
    BY <2>1 DEF CounterInv, CounterTypes, Increments, Done
  <2> QED BY <1>2, <2>1, <2>3, <2>4, <2>5, <2>6 DEF CounterInv, NoLostUpdate
<1> QED BY <1>3, <1>4, <1>5, <1>6, <1>7 DEF Thread

\* A step of main.
LEMMA MainStep == ASSUME CounterInv, Main PROVE CounterInv'
<1> USE CounterAssumption
<1>1. UNCHANGED <<myglobal, free, i, j>>
  BY DEF Main, Create, Join, PrintGlobal
<1>2. CASE Create /\ which \in Threads
  <2>1. /\ phase = "create" /\ phase' = "create" /\ which' = which + 1
        /\ pc[which] = "unborn" /\ pc' = [pc EXCEPT ![which] = "loop"]
    BY <1>2 DEF Create, CounterInv, MainProgress, Threads
  <2>2. CounterTypes' /\ MainProgress'
    BY <1>1, <1>2, <2>1 DEF CounterInv, CounterTypes, MainProgress, Threads
  <2>3. Exclusive' /\ Local'
    BY <1>1, <1>2, <2>1 DEF CounterInv, CounterTypes, Exclusive, Inside, Local
  <2>4. Increments' = Increments
    BY <1>1, <2>1 DEF CounterInv, CounterTypes, Increments, Done
  <2> QED BY <1>1, <2>2, <2>3, <2>4 DEF CounterInv, NoLostUpdate
<1>3. CASE UNCHANGED pc
  <2>1. CounterTypes' /\ Exclusive' /\ Local'
    BY <1>1, <1>3 DEF Main, Create, Join, PrintGlobal, CounterInv, CounterTypes, Exclusive, Inside, Local, Threads
  <2>2. MainProgress'
    BY <1>1, <1>3 DEF Main, Create, Join, PrintGlobal, CounterInv, CounterTypes, MainProgress, Threads
  <2>3. Increments' = Increments
    BY <1>1, <1>3 DEF Increments, Done
  <2> QED BY <1>1, <2>1, <2>2, <2>3 DEF CounterInv, NoLostUpdate
<1> QED BY <1>2, <1>3 DEF Main, Create, Join, PrintGlobal

\* The invariant of the counter.
LEMMA CounterInvariant == Spec => []CounterInv
<1>1. ASSUME CounterInv, UNCHANGED vars PROVE CounterInv'
  <2>1. Increments' = Increments
    BY <1>1 DEF vars, Increments, Done
  <2> QED BY <1>1, <2>1 DEF vars, CounterInv, CounterTypes, Exclusive, Inside, Local, MainProgress, NoLostUpdate
<1>2. CounterInv /\ [Next]_vars => CounterInv'
  BY <1>1, ThreadStep, MainStep DEF Next
<1> QED BY <1>2, CounterInitInv, PTL DEF Spec

\* No increment is lost although each sleeps between its read and its write
\* (pthread_mutex.c:48-51), for any number of threads and rounds.
THEOREM NoneLost == Spec => []NoLostUpdate
<1>1. CounterInv => NoLostUpdate
  BY DEF CounterInv
<1> QED BY <1>1, CounterInvariant, PTL

\* main prints threads times rounds (pthread_mutex.c:31-38): the joins come
\* before the read.
THEOREM PrintsTotal == Spec => []PrintsAll
<1>1. ASSUME CounterInv, phase = "exit" PROVE printed = NumThreads * Rounds
  <2>1. \A x \in Threads : pc[x] = "done" /\ i[x] = Rounds
    BY <1>1 DEF CounterInv, MainProgress, Local
  <2>2. Increments = Threads \X (0..(Rounds - 1))
    BY <2>1, CounterAssumption DEF Increments, Done
  <2>3. /\ IsFiniteSet(Threads) /\ IsFiniteSet(0..(Rounds - 1))
        /\ Cardinality(Threads) = NumThreads /\ Cardinality(0..(Rounds - 1)) = Rounds
    BY CounterAssumption, FS_Interval DEF Threads
  <2>4. Cardinality(Increments) = NumThreads * Rounds
    BY <2>2, <2>3, FS_Product
  <2> QED BY <1>1, <2>4 DEF CounterInv, MainProgress, NoLostUpdate
<1>2. CounterInv => PrintsAll
  BY <1>1 DEF PrintsAll
<1> QED BY <1>2, CounterInvariant, PTL

\* The lock is held by a thread inside, and main has created the threads it says.
Attended ==
  /\ ~free => \E x \in Threads : Inside(x)
  /\ phase = "create" => \A x \in Threads : x < which => pc[x] # "unborn"
  /\ phase # "create" => \A x \in Threads : pc[x] # "unborn"

\* Where the guard of a next step of main or thread x holds.
MainCanGo ==
  /\ phase # "exit"
  /\ phase = "join" /\ which \in Threads => pc[which] = "done"

ThreadCanGo(x) == pc[x] \in {"loop", "read", "write", "unlock"} \/ (pc[x] = "lock" /\ free)

\* The whole rounds that thread x has ahead, and what it has left of the present one.
RoundsAhead(x) == Rounds - i[x] - (IF pc[x] \in {"lock", "read", "write", "unlock"} THEN 1 ELSE 0)

RoundLeft(x) ==
  CASE pc[x] = "lock" -> 5 [] pc[x] = "read" -> 4 [] pc[x] = "write" -> 3 [] pc[x] = "unlock" -> 2
    [] pc[x] = "done" -> 0 [] OTHER -> 1

ThreadAhead(x) == 5 * RoundsAhead(x) + RoundLeft(x)

ThreadsAhead == SumOver(Threads, [x \in Threads |-> ThreadAhead(x)])

MainAhead ==
  CASE phase = "create" -> NumThreads + 1 - which + NumThreads + 3
    [] phase = "join" -> NumThreads + 1 - which + 2
    [] phase = "print" -> 1
    [] OTHER -> 0

\* The steps the program has ahead of it.
StepsAhead == ThreadsAhead + MainAhead

LEMMA CounterAttended == Spec => []Attended
<1> USE CounterAssumption
<1>1. Init => Attended
  BY DEF Init, Attended, Threads
<1>2. ASSUME CounterInv, Attended, NEW x \in Threads, Thread(x) PROVE Attended'
  <2>1. /\ UNCHANGED <<phase, which>>
        /\ \A y \in Threads \ {x} : pc'[y] = pc[y]
        /\ pc[x] # "unborn" /\ pc'[x] # "unborn"
    BY <1>2 DEF CounterInv, CounterTypes, Thread, Loop, Lock, Read, Write, Unlock
  <2>2. ASSUME ~free' PROVE \E y \in Threads : Inside(y)'
    <3>1. CASE Loop(x)
      <4>1. PICK y \in Threads : Inside(y)
        BY <1>2, <2>2, <3>1 DEF Attended, Loop
      <4>2. y # x
        BY <3>1, <4>1 DEF Inside, Loop
      <4> QED BY <2>1, <4>1, <4>2 DEF Inside
    <3>2. CASE Lock(x) \/ Read(x) \/ Write(x)
      <4>1. pc'[x] \in {"read", "write", "unlock"}
        BY <1>2, <3>2 DEF Lock, Read, Write, CounterInv, CounterTypes
      <4> QED BY <4>1 DEF Inside
    <3>3. ~Unlock(x)
      BY <2>2 DEF Unlock
    <3> QED BY <1>2, <3>1, <3>2, <3>3 DEF Thread
  <2> QED BY <1>2, <2>1, <2>2 DEF Attended
<1>3. ASSUME CounterInv, Attended, Main PROVE Attended'
  <2>1. CASE Create /\ which \in Threads
    <3>1. /\ phase = "create" /\ phase' = "create" /\ which' = which + 1 /\ free' = free
          /\ pc' = [pc EXCEPT ![which] = "loop"]
      BY <2>1 DEF Create
    <3>2. pc \in [Threads -> {"unborn", "loop", "lock", "read", "write", "unlock", "done"}]
      BY <1>3 DEF CounterInv, CounterTypes
    <3>3. pc[which] = "unborn"
      BY <1>3, <2>1, <3>1 DEF CounterInv, MainProgress, Threads
    <3>4. \A y \in Threads : Inside(y) => Inside(y)'
      BY <3>1, <3>2, <3>3 DEF Inside
    <3>5. \A y \in Threads : y < which' => pc'[y] # "unborn"
      BY <1>3, <2>1, <3>1, <3>2 DEF Attended, Threads
    <3> QED BY <1>3, <3>1, <3>4, <3>5 DEF Attended
  <2>2. CASE Create /\ which \notin Threads
    <3>1. phase = "create" /\ phase' = "join" /\ free' = free /\ pc' = pc
      BY <2>2 DEF Create
    <3>2. \A y \in Threads : pc[y] # "unborn"
      BY <1>3, <2>2, <3>1 DEF CounterInv, CounterTypes, Attended, Threads
    <3> QED BY <1>3, <3>1, <3>2 DEF Attended, Inside
  <2>3. CASE Join \/ PrintGlobal
    <3>1. phase # "create" /\ phase' # "create" /\ free' = free /\ pc' = pc
      BY <2>3 DEF Join, PrintGlobal
    <3> QED BY <1>3, <3>1 DEF Attended, Inside
  <2> QED BY <1>3, <2>1, <2>2, <2>3 DEF Main
<1>4. ASSUME Attended, UNCHANGED vars PROVE Attended'
  BY <1>4 DEF vars, Attended, Inside
<1>5. CounterInv /\ Attended /\ [Next]_vars => Attended'
  BY <1>2, <1>3, <1>4 DEF Next
<1> QED BY <1>1, <1>5, CounterInvariant, PTL DEF Spec

\* Whoever main waits for can go on, or waits for a thread that can.
LEMMA CounterGoesOn ==
  CounterInv /\ Attended => phase = "exit" \/ MainCanGo \/ \E x \in Threads : ThreadCanGo(x)
<1> SUFFICES ASSUME CounterInv, Attended, phase # "exit", ~MainCanGo, \A x \in Threads : ~ThreadCanGo(x)
             PROVE  FALSE
  OBVIOUS
<1>1. phase = "join" /\ which \in Threads /\ pc[which] # "done"
  BY DEF MainCanGo
<1>2. pc[which] = "lock" /\ ~free
  BY <1>1 DEF ThreadCanGo, Attended, CounterInv, CounterTypes
<1>3. PICK x \in Threads : Inside(x)
  BY <1>2 DEF Attended
<1> QED BY <1>3 DEF Inside, ThreadCanGo

LEMMA ThreadAheadType ==
  ASSUME CounterInv, NEW x \in Threads
  PROVE  RoundsAhead(x) \in Nat /\ RoundLeft(x) \in Nat /\ ThreadAhead(x) \in Nat
<1>1. RoundsAhead(x) \in Nat
  <2>1. i[x] \in 0..Rounds /\ Rounds \in Nat
    BY CounterAssumption DEF CounterInv, CounterTypes
  <2>2. pc[x] \in {"lock", "read", "write", "unlock"} => i[x] < Rounds
    BY DEF CounterInv, Local
  <2> QED BY <2>1, <2>2 DEF RoundsAhead
<1>2. RoundLeft(x) \in Nat
  BY DEF RoundLeft
<1> QED BY <1>1, <1>2 DEF ThreadAhead

LEMMA ThreadAheadNext == CounterInv' => \A x \in Threads : (ThreadAhead(x) \in Nat)'
<1>1. CounterInv => \A x \in Threads : ThreadAhead(x) \in Nat
  BY ThreadAheadType
<1>2. CounterInv' => (\A x \in Threads : ThreadAhead(x) \in Nat)'
  BY <1>1, PTL
<1> QED BY <1>2

LEMMA MainAheadType == CounterInv => MainAhead \in Nat
BY CounterAssumption DEF CounterInv, CounterTypes, MainAhead

LEMMA ThreadsAheadType == CounterInv => ThreadsAhead \in Nat /\ IsFiniteSet(Threads)
<1> SUFFICES ASSUME CounterInv PROVE ThreadsAhead \in Nat /\ IsFiniteSet(Threads)
  OBVIOUS
<1> DEFINE w == [x \in Threads |-> ThreadAhead(x)]
<1>1. IsFiniteSet(Threads)
  BY CounterAssumption, FS_Interval DEF Threads
<1>2. w \in [Threads -> Nat]
  BY ThreadAheadType
<1>3. ThreadsAhead = SumOver(Threads, w)
  BY DEF ThreadsAhead
<1> HIDE DEF w
<1> QED BY <1>1, <1>2, <1>3, SumType

\* Five rounds' steps less one, and the four that follow the first.
LEMMA FiveLess ==
  ASSUME NEW r \in Nat, NEW s \in Nat, NEW b \in Int, NEW c \in Int
  PROVE  /\ s = r /\ c = b - 1 => 5 * s + c = (5 * r + b) - 1
         /\ s = r - 1 /\ c = b + 4 => 5 * s + c = (5 * r + b) - 1
<1>1. CASE s = r
  BY <1>1
<1>2. CASE s = r - 1
  <2>1. 5 * s = 5 * r - 5
    BY <1>2
  <2> QED BY <1>2, <2>1
<1> QED BY <1>1, <1>2

\* A step of a thread is one step of those it has ahead.
LEMMA ThreadGoesOn ==
  ASSUME CounterInv, CounterInv', NEW x \in Threads, Thread(x)
  PROVE  /\ ThreadAhead(x)' = ThreadAhead(x) - 1
         /\ \A y \in Threads \ {x} : ThreadAhead(y)' = ThreadAhead(y)
<1> USE CounterAssumption
<1>1. \A y \in Threads \ {x} : pc'[y] = pc[y] /\ i'[y] = i[y]
  BY DEF CounterInv, CounterTypes, Thread, Loop, Lock, Read, Write, Unlock
<1>2. \A y \in Threads \ {x} : ThreadAhead(y)' = ThreadAhead(y)
  BY <1>1 DEF ThreadAhead, RoundsAhead, RoundLeft
<1>3. RoundsAhead(x) \in Nat /\ RoundLeft(x) \in Nat
  BY ThreadAheadType
<1>4. i[x] \in 0..Rounds
  BY DEF CounterInv, CounterTypes
<1>5. \/ RoundsAhead(x)' = RoundsAhead(x) /\ RoundLeft(x)' = RoundLeft(x) - 1
      \/ RoundsAhead(x)' = RoundsAhead(x) - 1 /\ RoundLeft(x)' = RoundLeft(x) + 4
  <2>1. CASE Loop(x) /\ i[x] < Rounds
    <3>1. pc[x] = "loop" /\ pc'[x] = "lock" /\ i'[x] = i[x]
      BY <2>1 DEF Loop, CounterInv, CounterTypes
    <3> QED BY <1>4, <3>1 DEF RoundsAhead, RoundLeft
  <2>2. CASE Loop(x) /\ ~(i[x] < Rounds)
    <3>1. pc[x] = "loop" /\ pc'[x] = "done" /\ i'[x] = i[x]
      BY <2>2 DEF Loop, CounterInv, CounterTypes
    <3> QED BY <1>4, <3>1 DEF RoundsAhead, RoundLeft
  <2>3. CASE Lock(x)
    <3>1. pc[x] = "lock" /\ pc'[x] = "read" /\ i'[x] = i[x]
      BY <2>3 DEF Lock, CounterInv, CounterTypes
    <3> QED BY <1>4, <3>1 DEF RoundsAhead, RoundLeft
  <2>4. CASE Read(x)
    <3>1. pc[x] = "read" /\ pc'[x] = "write" /\ i'[x] = i[x]
      BY <2>4 DEF Read, CounterInv, CounterTypes
    <3> QED BY <1>4, <3>1 DEF RoundsAhead, RoundLeft
  <2>5. CASE Write(x)
    <3>1. pc[x] = "write" /\ pc'[x] = "unlock" /\ i'[x] = i[x]
      BY <2>5 DEF Write, CounterInv, CounterTypes
    <3> QED BY <1>4, <3>1 DEF RoundsAhead, RoundLeft
  <2>6. CASE Unlock(x)
    <3>1. pc[x] = "unlock" /\ pc'[x] = "loop" /\ i'[x] = i[x] + 1
      BY <2>6 DEF Unlock, CounterInv, CounterTypes
    <3> QED BY <1>4, <3>1 DEF RoundsAhead, RoundLeft
  <2> QED BY <2>1, <2>2, <2>3, <2>4, <2>5, <2>6 DEF Thread
<1>6. ThreadAhead(x)' = ThreadAhead(x) - 1
  <2>1. PICK s \in Nat, c \in Nat : s = RoundsAhead(x)' /\ c = RoundLeft(x)'
    <3>1. RoundsAhead(x)' \in Nat /\ RoundLeft(x)' \in Nat
      <4>1. i'[x] \in 0..Rounds /\ (pc'[x] \in {"lock", "read", "write", "unlock"} => i'[x] < Rounds)
        BY DEF CounterInv, CounterTypes, Local
      <4> QED BY <4>1 DEF RoundsAhead, RoundLeft
    <3> QED BY <3>1
  <2>2. 5 * s + c = (5 * RoundsAhead(x) + RoundLeft(x)) - 1
    BY <1>3, <1>5, <2>1, FiveLess
  <2>3. ThreadAhead(x)' = 5 * RoundsAhead(x)' + RoundLeft(x)'
    BY DEF ThreadAhead
  <2>4. ThreadAhead(x) = 5 * RoundsAhead(x) + RoundLeft(x)
    BY DEF ThreadAhead
  <2>5. ThreadAhead(x)' = 5 * s + c
    BY <2>1, <2>3, Zenon
  <2> QED BY <2>2, <2>4, <2>5, Zenon
<1> QED BY <1>2, <1>6

\* What main does to the sum: nothing, since a thread has as much ahead when it is
\* created as before.
LEMMA MainGoesOn ==
  ASSUME CounterInv, Main
  PROVE  ThreadsAhead' = ThreadsAhead /\ MainAhead' = MainAhead - 1
<1> USE CounterAssumption
<1>1. \A x \in Threads : ThreadAhead(x)' = ThreadAhead(x)
  <2>1. i' = i
    BY DEF Main, Create, Join, PrintGlobal
  <2>2. CASE Create /\ which \in Threads
    <3>1. pc[which] = "unborn" /\ pc' = [pc EXCEPT ![which] = "loop"]
          /\ pc \in [Threads -> {"unborn", "loop", "lock", "read", "write", "unlock", "done"}]
      BY <2>2 DEF Create, CounterInv, CounterTypes, MainProgress, Threads
    <3>2. \A x \in Threads : RoundsAhead(x)' = RoundsAhead(x) /\ RoundLeft(x)' = RoundLeft(x)
      BY <2>1, <3>1 DEF RoundsAhead, RoundLeft
    <3> QED BY <3>2 DEF ThreadAhead
  <2>3. CASE UNCHANGED pc
    BY <2>1, <2>3 DEF ThreadAhead, RoundsAhead, RoundLeft
  <2> QED BY <2>2, <2>3 DEF Main, Create, Join, PrintGlobal
<1>2. ThreadsAhead' = ThreadsAhead
  BY <1>1 DEF ThreadsAhead
<1>3. MainAhead' = MainAhead - 1
  <2>1. which \in 1..(NumThreads + 1)
    BY DEF CounterInv, CounterTypes
  <2>2. CASE Create /\ which \in Threads
    BY <2>1, <2>2 DEF Create, MainAhead
  <2>3. CASE Create /\ which \notin Threads
    BY <2>1, <2>3 DEF Create, MainAhead, Threads
  <2>4. CASE Join /\ which \in Threads
    BY <2>1, <2>4 DEF Join, MainAhead
  <2>5. CASE Join /\ which \notin Threads
    BY <2>1, <2>5 DEF Join, MainAhead, Threads
  <2>6. CASE PrintGlobal
    BY <2>6 DEF PrintGlobal, MainAhead
  <2> QED BY <2>2, <2>3, <2>4, <2>5, <2>6 DEF Main
<1> QED BY <1>2, <1>3

LEMMA OneStepLess ==
  ASSUME NEW a \in Nat, NEW b \in Nat, NEW c \in Nat, NEW d \in Nat, NEW m, NEW n \in Nat,
         m = n, a + d = b + c, c = d - 1
  PROVE  a + m = (b + n) - 1
OBVIOUS

LEMMA CounterStepsDown == ASSUME CounterInv, CounterInv', Next PROVE StepsAhead' = StepsAhead - 1
<1>1. ThreadsAhead \in Nat /\ MainAhead \in Nat /\ IsFiniteSet(Threads)
  BY MainAheadType, ThreadsAheadType
<1>2. CASE Main
  BY <1>1, <1>2, MainGoesOn DEF StepsAhead
<1>3. ASSUME NEW x \in Threads, Thread(x) PROVE StepsAhead' = StepsAhead - 1
  <2> DEFINE w == [y \in Threads |-> ThreadAhead(y)]
             v == [y \in Threads |-> ThreadAhead(y)']
  <2>1. w \in [Threads -> Nat]
    BY ThreadAheadType
  <2>2. /\ v[x] = w[x] - 1
        /\ \A y \in Threads \ {x} : v[y] = w[y]
    BY <1>3, ThreadGoesOn
  <2>3. v \in [Threads -> Nat]
    <3>1. \A y \in Threads : (ThreadAhead(y) \in Nat)'
      BY ThreadAheadNext
    <3> QED BY <3>1
  <2>4. ThreadsAhead = SumOver(Threads, w) /\ ThreadsAhead' = SumOver(Threads, v)
    BY DEF ThreadsAhead
  <2>5. MainAhead' = MainAhead
    BY <1>3 DEF MainAhead, Thread, Loop, Lock, Read, Write, Unlock
  <2> HIDE DEF w, v
  <2>6. /\ SumOver(Threads, v) \in Nat /\ SumOver(Threads, w) \in Nat
        /\ SumOver(Threads, v) + w[x] = SumOver(Threads, w) + v[x]
    BY ONLY <1>1, <2>1, <2>2, <2>3, x \in Threads, SumOneChanged
  <2>7. w[x] \in Nat /\ v[x] \in Nat
    BY <2>1, <2>3
  <2>8. SumOver(Threads, v) + MainAhead' = (SumOver(Threads, w) + MainAhead) - 1
    BY <1>1, <2>2, <2>5, <2>6, <2>7, OneStepLess
  <2>9. StepsAhead' = SumOver(Threads, v) + MainAhead' /\ StepsAhead = SumOver(Threads, w) + MainAhead
    BY <2>4 DEF StepsAhead
  <2> QED BY <2>8, <2>9, Zenon
<1> QED BY <1>2, <1>3 DEF Next

\* How many steps the program takes.
LEMMA CounterSteps ==
  Init => StepsAhead = NumThreads * (5 * Rounds + 1) + (NumThreads + NumThreads + 3)
<1> SUFFICES ASSUME Init
             PROVE  StepsAhead = NumThreads * (5 * Rounds + 1) + (NumThreads + NumThreads + 3)
  OBVIOUS
<1> DEFINE w == [y \in Threads |-> ThreadAhead(y)]
           n == 5 * Rounds + 1
<1>1. IsFiniteSet(Threads) /\ Cardinality(Threads) = NumThreads
  BY CounterAssumption, FS_Interval DEF Threads
<1>2. \A x \in Threads : w[x] = n
  <2>1. \A x \in Threads : RoundsAhead(x) = Rounds /\ RoundLeft(x) = 1
    BY CounterAssumption DEF Init, RoundsAhead, RoundLeft
  <2> QED BY <2>1 DEF ThreadAhead
<1>3. n \in Nat
  BY CounterAssumption
<1>4. ThreadsAhead = SumOver(Threads, w)
  BY DEF ThreadsAhead
<1>5. MainAhead = NumThreads + NumThreads + 3
  BY CounterAssumption DEF Init, MainAhead
<1> HIDE DEF w, n
<1>6. SumOver(Threads, w) = Cardinality(Threads) * n
  BY <1>1, <1>2, <1>3, SumConstant
<1>7. StepsAhead = NumThreads * n + (NumThreads + NumThreads + 3)
  BY <1>1, <1>4, <1>5, <1>6 DEF StepsAhead
<1> QED BY <1>7 DEF n

\* The safety part of Terminates: whatever the schedule, the program takes the same
\* number of steps, and one of its threads can take the next until main has
\* printed (pthread_mutex.c:22-53).
THEOREM CounterRunsOut ==
  Spec => /\ StepsAhead = NumThreads * (5 * Rounds + 1) + (NumThreads + NumThreads + 3)
          /\ [](StepsAhead \in Nat)
          /\ [][StepsAhead' = StepsAhead - 1]_vars
          /\ [](phase = "exit" \/ MainCanGo \/ \E x \in Threads : ThreadCanGo(x))
<1>1. CounterInv /\ CounterInv' /\ [Next]_vars => [StepsAhead' = StepsAhead - 1]_vars
  BY CounterStepsDown
<1>2. CounterInv => StepsAhead \in Nat
  BY MainAheadType, ThreadsAheadType DEF StepsAhead
<1> QED BY <1>1, <1>2, CounterSteps, CounterGoesOn, CounterAttended, CounterInvariant, PTL DEF Spec

-----------------------------------------------------------------------------
(* cdev/mydev.c *)

DevTypes ==
  /\ where \in [Procs -> {"open", "ioctl", "list", "send", "read", "close", "exit", "done"}]
  /\ buffer \in [Procs -> Seq(Nat)]

\* sc_usage and the process that has the device open, if one has.
OneOpener ==
  /\ \/ usage = 0 /\ isopen = {}
     \/ usage = 1 /\ \E p \in Procs : isopen = {p}
  /\ \A p \in Procs : where[p] \notin {"open", "done"} <=> p \in isopen

\* What a read has got so far: mybuffer from its start, again and again.
Repeats(bytes) ==
  /\ Len(bytes) <= Want
  /\ \A n \in 1..Len(bytes) : bytes[n] = (n - 1) % BufLen

\* A round of the read starts where mybuffer does, for all rounds but the last
\* deliver the whole of it.
Aligned(bytes) == \E m \in Nat : Len(bytes) = m * BufLen

Reads ==
  \A p \in Procs :
    /\ Repeats(buffer[p])
    /\ where[p] \in {"open", "ioctl", "list", "send"} => buffer[p] = <<>>
    /\ where[p] = "read" => Aligned(buffer[p])

DevInv == DevTypes /\ OneOpener /\ Reads

\* The constants of MyDev are numbers.
LEMMA DevConstants == BufLen \in Nat \ {0} /\ Want \in Nat \ {0}
BY ProgramsAssumption DEF Dev!DevAssumption

\* At the beginning nobody has the device open.
LEMMA DevInitInv == Dev!Init => DevInv
<1> SUFFICES ASSUME Dev!Init PROVE DevInv
  OBVIOUS
<1>1. DevTypes
  BY DEF Dev!Init, DevTypes
<1>2. OneOpener
  BY DEF Dev!Init, OneOpener
<1>3. Reads
  BY DevConstants DEF Dev!Init, Reads, Repeats
<1> QED BY <1>1, <1>2, <1>3 DEF DevInv

\* What a round of mydevread appends to bytes that end where mybuffer does.
LEMMA RoundRepeats ==
  ASSUME NEW bytes \in Seq(Nat), Repeats(bytes), Aligned(bytes),
         NEW n \in Nat, n <= BufLen, n <= Want - Len(bytes),
         NEW more, more = bytes \o [k \in 1..n |-> k - 1]
  PROVE  /\ more \in Seq(Nat) /\ Len(more) = Len(bytes) + n
         /\ Repeats(more)
         /\ n = BufLen => Aligned(more)
<1>1. [k \in 1..n |-> k - 1] \in Seq(Nat) /\ Len([k \in 1..n |-> k - 1]) = n
  OBVIOUS
<1>2. more \in Seq(Nat) /\ Len(more) = Len(bytes) + n
  BY <1>1
<1>3. \A k \in 1..Len(more) : more[k] = IF k <= Len(bytes) THEN bytes[k] ELSE k - Len(bytes) - 1
  BY <1>1
<1>4. PICK m \in Nat : Len(bytes) = m * BufLen
  BY DEF Aligned
<1>5. ASSUME NEW k \in 1..Len(more) PROVE more[k] = (k - 1) % BufLen
  <2>1. CASE k <= Len(bytes)
    BY <1>3, <2>1 DEF Repeats
  <2>2. CASE k > Len(bytes)
    <3>1. k - Len(bytes) - 1 \in 0..(BufLen - 1)
      BY <1>2, <2>2, DevConstants
    <3>2. (m * BufLen + (k - Len(bytes) - 1)) % BufLen = k - Len(bytes) - 1
      BY <3>1, Remainder, DevConstants
    <3>3. m * BufLen + (k - Len(bytes) - 1) = k - 1
      BY <1>4, <1>2, DevConstants
    <3>4. more[k] = k - Len(bytes) - 1
      BY <1>3, <2>2
    <3> QED BY <3>2, <3>3, <3>4
  <2> QED BY <2>1, <2>2, <1>2
<1>6. Repeats(more)
  <2>1. Len(more) <= Want
    BY <1>2, DevConstants
  <2> QED BY <1>5, <2>1 DEF Repeats
<1>7. ASSUME n = BufLen PROVE Aligned(more)
  <2>1. Len(more) = (m + 1) * BufLen
    BY <1>2, <1>4, <1>7, DevConstants
  <2> QED BY <2>1 DEF Aligned
<1> QED BY <1>2, <1>6, <1>7

\* An open, the first that is refused included.
LEMMA OpenKeeps ==
  ASSUME DevInv, NEW p \in Procs, Dev!Open(p) PROVE DevInv'
<1> USE DEF Dev!Open, Dev!Goto
<1>1. DevTypes'
  BY DEF DevInv, DevTypes
<1>2. OneOpener'
  <2>1. CASE usage > 0
    BY <2>1 DEF DevInv, DevTypes, OneOpener
  <2>2. CASE ~ usage > 0
    <3>1. usage = 0 /\ isopen = {}
      BY <2>2 DEF DevInv, OneOpener
    <3>2. usage' = 1 /\ isopen' = {p} /\ where' = [where EXCEPT ![p] = "ioctl"]
      BY <2>2, <3>1
    <3>3. \A q \in Procs : (where[q] \notin {"open", "done"} <=> q \in isopen)'
      BY <3>1, <3>2 DEF DevInv, DevTypes, OneOpener
    <3> QED BY <3>2, <3>3 DEF OneOpener
  <2> QED BY <2>1, <2>2
<1>3. Reads'
  BY DEF DevInv, DevTypes, Reads
<1> QED BY <1>1, <1>2, <1>3 DEF DevInv

\* The ioctl and the list it passes, or their failure.
LEMMA IoctlKeeps ==
  ASSUME DevInv, NEW p \in Procs, Dev!Ioctl(p) PROVE DevInv'
<1> USE DEF Dev!Ioctl, Dev!Goto
<1>1. DevTypes'
  BY DEF DevInv, DevTypes
<1>2. OneOpener'
  BY DEF DevInv, DevTypes, OneOpener
<1>3. Reads'
  <2>1. ASSUME NEW q \in Procs, q # p PROVE where'[q] = where[q] /\ buffer' = buffer
    BY <2>1 DEF DevInv, DevTypes
  <2>2. buffer[p] = <<>> /\ where'[p] \in {"list", "send", "close", "read"} /\ buffer' = buffer
    BY DEF DevInv, DevTypes, Reads
  <2>3. Aligned(<<>>)
    <3>1. Len(<<>>) = 0 * BufLen
      BY DevConstants
    <3> QED BY <3>1 DEF Aligned
  <2> QED BY <2>1, <2>2, <2>3 DEF DevInv, Reads
<1> QED BY <1>1, <1>2, <1>3 DEF DevInv

\* A round of the read appends what is left of mybuffer or of the request.
LEMMA ReadKeeps ==
  ASSUME DevInv, NEW p \in Procs, Dev!Read(p) PROVE DevInv'
<1> DEFINE nbytes == Dev!Least(Dev!Resid(p), BufLen)
<1>1. PICK n \in 0..nbytes :
        /\ buffer' = [buffer EXCEPT ![p] = @ \o [k \in 1..n |-> k - 1]]
        /\ IF n < nbytes THEN Dev!Goto(p, "exit")
           ELSE IF n = Dev!Resid(p) THEN Dev!Goto(p, "close")
           ELSE UNCHANGED where
  BY DEF Dev!Read
<1>2. where[p] = "read" /\ usage' = usage /\ isopen' = isopen
  BY DEF Dev!Read
<1>3. buffer[p] \in Seq(Nat) /\ Repeats(buffer[p]) /\ Aligned(buffer[p])
  BY <1>2 DEF DevInv, DevTypes, Reads
<1>4. Dev!Resid(p) = Want - Len(buffer[p]) /\ Dev!Resid(p) \in Nat
  BY <1>3, DevConstants DEF Dev!Resid, Repeats
<1>5. n \in Nat /\ n <= BufLen /\ n <= Want - Len(buffer[p])
  BY <1>4, DevConstants DEF Dev!Least
<1> DEFINE more == buffer[p] \o [k \in 1..n |-> k - 1]
<1>6. /\ more \in Seq(Nat) /\ Len(more) = Len(buffer[p]) + n
      /\ Repeats(more)
      /\ n = BufLen => Aligned(more)
  <2> HIDE DEF nbytes
  <2> QED BY <1>3, <1>5, RoundRepeats
<1>7. buffer' = [buffer EXCEPT ![p] = more]
  BY <1>1
<1>8. /\ where'[p] \in {"exit", "close", "read"}
      /\ where' = [where EXCEPT ![p] = where'[p]]
      /\ where'[p] = "read" => n = BufLen
  <2>1. CASE n < nbytes
    BY <1>1, <2>1 DEF DevInv, DevTypes, Dev!Goto
  <2>2. CASE n = nbytes /\ n = Dev!Resid(p)
    BY <1>1, <2>2, <1>4 DEF DevInv, DevTypes, Dev!Goto
  <2>3. CASE n = nbytes /\ n # Dev!Resid(p)
    <3>1. where' = where
      BY <1>1, <2>3, <1>4
    <3>2. n = BufLen
      BY <2>3, <1>4, DevConstants DEF Dev!Least
    <3> QED BY <3>1, <3>2, <1>2 DEF DevInv, DevTypes
  <2> QED BY <2>1, <2>2, <2>3, <1>4, DevConstants DEF Dev!Least
<1> HIDE DEF more, nbytes
<1>9. DevTypes'
  BY <1>6, <1>7, <1>8 DEF DevInv, DevTypes
<1>10. OneOpener'
  BY <1>2, <1>8 DEF DevInv, DevTypes, OneOpener
<1>11. Reads'
  <2>1. ASSUME NEW q \in Procs, q # p PROVE where'[q] = where[q] /\ buffer'[q] = buffer[q]
    BY <1>7, <1>8, <2>1 DEF DevInv, DevTypes
  <2>2. buffer'[p] = more
    BY <1>7 DEF DevInv, DevTypes
  <2> QED BY <2>1, <2>2, <1>6, <1>8 DEF DevInv, Reads
<1> QED BY <1>9, <1>10, <1>11 DEF DevInv

\* close, or the exit without it, gives the device back.
LEMMA CloseKeeps ==
  ASSUME DevInv, NEW p \in Procs, Dev!Close(p) PROVE DevInv'
<1>1. p \in isopen /\ where[p] \in {"close", "exit"}
  BY DEF Dev!Close, DevInv, OneOpener
<1>2. usage = 1 /\ isopen = {p}
  BY <1>1 DEF DevInv, OneOpener
<1>3. usage' = 0 /\ isopen' = {} /\ where' = [where EXCEPT ![p] = "done"] /\ buffer' = buffer
  BY <1>2 DEF Dev!Close, Dev!Goto
<1>4. DevTypes'
  BY <1>3 DEF DevInv, DevTypes
<1>5. OneOpener'
  BY <1>2, <1>3 DEF DevInv, DevTypes, OneOpener
<1>6. Reads'
  BY <1>3 DEF DevInv, DevTypes, Reads
<1> QED BY <1>4, <1>5, <1>6 DEF DevInv

\* The program is started again with nothing read.
LEMMA AgainKeeps ==
  ASSUME DevInv, NEW p \in Procs, Dev!Again(p) PROVE DevInv'
<1> USE DEF Dev!Again, Dev!Goto
<1>1. DevTypes'
  BY DEF DevInv, DevTypes
<1>2. OneOpener'
  BY DEF DevInv, DevTypes, OneOpener
<1>3. Reads'
  <2>1. ASSUME NEW q \in Procs, q # p PROVE where'[q] = where[q] /\ buffer'[q] = buffer[q]
    BY <2>1 DEF DevInv, DevTypes
  <2>2. buffer'[p] = <<>> /\ where'[p] = "open"
    BY DEF DevInv, DevTypes
  <2>3. Repeats(<<>>)
    BY DevConstants DEF Repeats
  <2> QED BY <2>1, <2>2, <2>3 DEF DevInv, Reads
<1> QED BY <1>1, <1>2, <1>3 DEF DevInv

\* However many processes run testdev, as often as they like: one of them has the
\* device open at a time, sc_usage says so, and reads of any length repeat mybuffer
\* (mydev.c:84-124).
THEOREM DeviceStaysSound == Dev!Spec => []DeviceSound
<1>1. Dev!Init => DevInv
  BY DevInitInv
<1>2. DevInv /\ [Dev!Next]_(Dev!vars) => DevInv'
  <2>1. ASSUME DevInv, Dev!Next PROVE DevInv'
    <3>1. PICK p \in Procs :
            Dev!Open(p) \/ Dev!Ioctl(p) \/ Dev!Read(p) \/ Dev!Close(p) \/ Dev!Again(p)
      BY <2>1 DEF Dev!Next
    <3> QED BY <2>1, <3>1, OpenKeeps, IoctlKeeps, ReadKeeps, CloseKeeps, AgainKeeps
  <2>2. ASSUME DevInv, UNCHANGED Dev!vars PROVE DevInv'
    BY <2>2 DEF Dev!vars, DevInv, DevTypes, OneOpener, Reads
  <2> QED BY <2>1, <2>2
<1>3. DevInv => DeviceSound
  <2> SUFFICES ASSUME DevInv PROVE DeviceSound
    OBVIOUS
  <2>1. usage = Dev!Cardinality(isopen) /\ usage <= 1
    <3>1. usage = Cardinality(isopen) /\ usage <= 1
      BY FS_EmptySet, FS_Singleton DEF DevInv, OneOpener
    <3>2. Dev!Cardinality(isopen) = Cardinality(isopen)
      BY DEF Dev!Cardinality, Cardinality
    <3> QED BY <3>1, <3>2
  <2>2. \A p \in Procs : where[p] \notin {"open", "done"} <=> p \in isopen
    BY DEF DevInv, OneOpener
  <2>3. \A p \in Procs :
          /\ Len(buffer[p]) <= Want
          /\ \A n \in 1..Len(buffer[p]) : buffer[p][n] = (n - 1) % BufLen
    BY DEF DevInv, Reads, Repeats
  <2> QED BY <2>1, <2>2, <2>3, Zenon DEF DeviceSound, Dev!DeviceSound
<1> QED BY <1>1, <1>2, <1>3, PTL DEF Dev!Spec

-----------------------------------------------------------------------------
(* termios/echo_off.c *)

\* What the program knows at each of its calls: fd is standard input once it is
\* open, oldt is what the terminal's echo was, and at the read it is off.
EchoInv ==
  /\ named \in Ttys /\ fd \in Ttys /\ echo \in [Ttys -> BOOLEAN] /\ saved \in BOOLEAN
  /\ step \in {"open", "get", "set", "read", "restore", "end"}
  /\ step \in {"get", "set", "read", "restore"} => fd = Stdin
  /\ step = "set" => saved = echo[fd]
  /\ step = "read" => ~echo[fd]
  /\ cut => step = "end"

\* At the beginning no mode was set or saved.
LEMMA EchoInitInv == Echo!Init => EchoInv
BY ProgramsAssumption DEF Echo!Init, EchoInv, Echo!EchoAssumption

\* fd is standard input once it is opened, and its mode is the one that was set.
LEMMA EchoNextInv == EchoInv /\ [Echo!Next]_(Echo!vars) => EchoInv'
<1> SUFFICES ASSUME EchoInv, [Echo!Next]_(Echo!vars) PROVE EchoInv'
  OBVIOUS
<1> USE DEF EchoInv
<1>0. Stdin \in Ttys
  BY ProgramsAssumption DEF Echo!EchoAssumption
<1>1. CASE Echo!Open
  BY <1>0, <1>1 DEF Echo!Open
<1>2. CASE Echo!GetAttr
  BY <1>2 DEF Echo!GetAttr
<1>3. CASE Echo!SetAttr
  BY <1>3 DEF Echo!SetAttr
<1>4. CASE Echo!Fgets
  BY <1>4 DEF Echo!Fgets
<1>5. CASE Echo!Restore
  BY <1>5 DEF Echo!Restore
<1>6. CASE Echo!Interrupt
  BY <1>6 DEF Echo!Interrupt
<1>7. CASE UNCHANGED Echo!vars
  BY <1>7 DEF Echo!vars
<1> QED BY <1>1, <1>2, <1>3, <1>4, <1>5, <1>6, <1>7 DEF Echo!Next

\* What EchoKept says of a step.
EchoStep ==
  /\ step' = "read" => ~echo'[Stdin]
  /\ named # Stdin => echo'[named] = echo[named]
  /\ step \in {"set", "restore"} /\ step' = "end" /\ ~cut' => echo'[fd] = saved
  /\ step = "read" => step' = "restore" \/ cut'

\* Every step is one that EchoKept allows.
LEMMA EchoSteps == EchoInv /\ Echo!Next => EchoStep \/ UNCHANGED Echo!vars
<1> SUFFICES ASSUME EchoInv, Echo!Next PROVE EchoStep
  OBVIOUS
<1> USE DEF EchoInv, EchoStep
<1>0. Stdin \in Ttys
  BY ProgramsAssumption DEF Echo!EchoAssumption
<1>1. CASE Echo!Open
  BY <1>0, <1>1 DEF Echo!Open
<1>2. CASE Echo!GetAttr
  BY <1>2 DEF Echo!GetAttr
<1>3. CASE Echo!SetAttr
  BY <1>3 DEF Echo!SetAttr
<1>4. CASE Echo!Fgets
  BY <1>4 DEF Echo!Fgets
<1>5. CASE Echo!Restore
  BY <1>5 DEF Echo!Restore
<1>6. CASE Echo!Interrupt
  BY <1>6 DEF Echo!Interrupt
<1> QED BY <1>1, <1>2, <1>3, <1>4, <1>5, <1>6 DEF Echo!Next

\* For any terminals: the password is read with the echo off, no terminal but
\* that of standard input is touched, and every way out but an interruption or a
\* tcsetattr that fails leaves it as it was (echo_off.c:34-55).
THEOREM EchoIsKept == Echo!Spec => EchoKept
<1>1. Echo!Init => EchoInv
  BY EchoInitInv
<1>2. EchoInv /\ [Echo!Next]_(Echo!vars) => EchoInv'
  BY EchoNextInv
<1>3. EchoInv /\ [Echo!Next]_(Echo!vars) => [EchoStep]_(Echo!vars)
  BY EchoSteps
<1>4. Echo!Spec => [][EchoStep]_(Echo!vars)
  BY <1>1, <1>2, <1>3, PTL DEF Echo!Spec
<1> QED BY <1>4 DEF EchoKept, Echo!EchoKept, EchoStep

-----------------------------------------------------------------------------
(* kqueue/kqdir.c: what the events carry *)

Events == Seq(Dir!Entries \X SUBSET Changes)

\* The changes that the events s report of f.
Reported(s, f) == UNION {event[2] : event \in {x \in Dir!ToSet(s) : x[1] = f}}

\* No two events are about the same entry.
OnceEach(s) == \A n, m \in DOMAIN s : n # m => s[n][1] # s[m][1]

\* A change is reported of a file if one of the events says so.
LEMMA ReportedIs ==
  ASSUME NEW s, NEW f, NEW c
  PROVE  c \in Reported(s, f) <=> \E n \in DOMAIN s : s[n][1] = f /\ c \in s[n][2]
BY DEF Reported, Dir!ToSet

\* No events, no reports.
LEMMA NothingReported == \A f : Reported(<<>>, f) = {}
BY DEF Reported, Dir!ToSet

\* The event that is handled is all there is about its entry.
LEMMA HandleReports ==
  ASSUME NEW s \in Events, s # <<>>, OnceEach(s)
  PROVE  /\ Tail(s) \in Events /\ OnceEach(Tail(s))
         /\ Head(s)[1] \in Dir!Entries /\ Head(s)[2] \subseteq Changes
         /\ Reported(s, Head(s)[1]) = Head(s)[2]
         /\ Reported(Tail(s), Head(s)[1]) = {}
         /\ \A f : f # Head(s)[1] => Reported(Tail(s), f) = Reported(s, f)
         /\ \A n \in DOMAIN Tail(s) : n + 1 \in DOMAIN s /\ Tail(s)[n] = s[n + 1]
<1>1. /\ Len(s) \in Nat \ {0} /\ DOMAIN s = 1..Len(s) /\ 1 \in 1..Len(s) /\ Head(s) = s[1]
      /\ s[1] \in Dir!Entries \X SUBSET Changes
  BY DEF Events
<1>2. /\ Tail(s) \in Events /\ DOMAIN Tail(s) = 1..(Len(s) - 1)
      /\ \A n \in 1..(Len(s) - 1) : Tail(s)[n] = s[n + 1]
  BY DEF Events
<1>3. \A n \in 1..(Len(s) - 1) : n + 1 \in 1..Len(s) /\ n + 1 # 1
  BY <1>1
<1>4. OnceEach(Tail(s))
  <2> SUFFICES ASSUME NEW n \in 1..(Len(s) - 1), NEW m \in 1..(Len(s) - 1), n # m
               PROVE  s[n + 1][1] # s[m + 1][1]
    BY <1>2 DEF OnceEach
  <2>1. n + 1 # m + 1
    BY <1>1
  <2> QED BY <1>1, <1>3, <2>1 DEF OnceEach
<1>5. ASSUME NEW f, NEW c
      PROVE  /\ c \in Reported(s, f) <=> \E n \in 1..Len(s) : s[n][1] = f /\ c \in s[n][2]
             /\ c \in Reported(Tail(s), f) <=>
                  \E n \in 1..(Len(s) - 1) : s[n + 1][1] = f /\ c \in s[n + 1][2]
  <2>1. c \in Reported(s, f) <=> \E n \in DOMAIN s : s[n][1] = f /\ c \in s[n][2]
    BY ReportedIs
  <2>2. c \in Reported(Tail(s), f) <=>
          \E n \in DOMAIN Tail(s) : Tail(s)[n][1] = f /\ c \in Tail(s)[n][2]
    <3> DEFINE w == Tail(s)
    <3> HIDE DEF w
    <3>1. c \in Reported(w, f) <=> \E n \in DOMAIN w : w[n][1] = f /\ c \in w[n][2]
      BY ReportedIs
    <3> QED BY <3>1 DEF w
  <2> QED BY <1>1, <1>2, <2>1, <2>2, Zenon
<1>6. \A n \in 1..Len(s) : s[n][1] = s[1][1] => n = 1
  BY <1>1 DEF OnceEach
<1>7. Reported(s, s[1][1]) = s[1][2]
  <2>1. \A c : c \in Reported(s, s[1][1]) <=> c \in s[1][2]
    BY <1>1, <1>5, <1>6, Zenon
  <2> QED BY <2>1
<1>8. Reported(Tail(s), s[1][1]) = {}
  <2>1. \A c : c \notin Reported(Tail(s), s[1][1])
    BY <1>3, <1>5, <1>6, Zenon
  <2> QED BY <2>1
<1>9. ASSUME NEW f, f # s[1][1] PROVE Reported(Tail(s), f) = Reported(s, f)
  <2>1. ASSUME NEW c, c \in Reported(Tail(s), f) PROVE c \in Reported(s, f)
    BY <1>3, <1>5, <2>1, Zenon
  <2>2. ASSUME NEW c, c \in Reported(s, f) PROVE c \in Reported(Tail(s), f)
    <3>1. PICK n \in 1..Len(s) : s[n][1] = f /\ c \in s[n][2]
      BY <1>5, <2>2
    <3>2. n # 1
      BY <1>9, <3>1
    <3>3. n - 1 \in 1..(Len(s) - 1) /\ (n - 1) + 1 = n
      BY <1>1, <3>2
    <3> QED BY <1>5, <3>1, <3>3, Zenon
  <2> QED BY <2>1, <2>2
<1> QED BY <1>1, <1>2, <1>3, <1>4, <1>7, <1>8, <1>9, Zenon

\* What KqDir assumes of its constants.
LEMMA DirConstants ==
  /\ IsFiniteSet(Files) /\ IsFiniteSet(Dots)
  /\ Dir!Entries = Files \cup Dots /\ IsFiniteSet(Dir!Entries)
<1>1. Dir!IsFiniteSet(Files) /\ Dir!IsFiniteSet(Dots)
  BY ProgramsAssumption DEF Dir!DirAssumption
<1>2. IsFiniteSet(Files) /\ IsFiniteSet(Dots)
  BY <1>1 DEF Dir!IsFiniteSet, IsFiniteSet
<1>3. IsFiniteSet(Files \cup Dots)
  BY <1>2, FS_Union
<1> QED BY <1>2, <1>3 DEF Dir!Entries

\* A sequence of a finite set's elements has each of them once.
LEMMA Orders ==
  ASSUME NEW S, IsFiniteSet(S), NEW order \in Dir!SetToSeqs(S)
  PROVE  /\ order \in Seq(S)
         /\ \A n, m \in DOMAIN order : n # m => order[n] # order[m]
         /\ \A x \in S : \E n \in DOMAIN order : order[n] = x
<1> DEFINE D == 1..Cardinality(S)
<1>1. Cardinality(S) \in Nat
  BY FS_CardinalityType
<1>2. order \in [D -> S] /\ \A n, m \in D : n # m => order[n] # order[m]
  <2>1. Dir!Cardinality(S) = Cardinality(S)
    BY DEF Dir!Cardinality, Cardinality
  <2> QED BY <2>1 DEF Dir!SetToSeqs
<1>3. order \in Injection(D, S)
  BY <1>2 DEF Injection, IsInjective
<1>4. IsFiniteSet(D) /\ Cardinality(D) = Cardinality(S)
  BY <1>1, FS_Interval
<1>5. order \in Surjection(D, S)
  BY <1>3, <1>4, FS_Injection
<1>6. \A x \in S : \E n \in D : order[n] = x
  BY <1>5 DEF Surjection
<1> QED BY <1>1, <1>2, <1>6

-----------------------------------------------------------------------------
(* kqueue/kqdir.c: the invariant *)

DirTypes ==
  /\ at \in {"start", "skip", "scan", "call", "wait", "handle", "cleanup", "closed"}
  /\ stream \in Seq(Dir!Entries) /\ fdlist \in Seq(Dir!Entries)
  /\ watched \subseteq Dir!Entries
  /\ pending \in [Dir!Entries -> SUBSET Changes]
  /\ unsaid \in [Dir!Entries -> SUBSET Changes]
  /\ gap \in [Dir!Entries -> SUBSET Changes]
  /\ masked \in [Dir!Entries -> SUBSET Changes]
  /\ returned \in Events

\* Notes are there for what is open only, for all of it while kevent waits.
Notes ==
  /\ at \in {"start", "skip", "scan"} => watched = {}
  /\ at \in {"call", "handle"} => watched \subseteq Dir!ToSet(fdlist)
  /\ at = "wait" => watched = Dir!ToSet(fdlist)

\* What has a note waits for it; what kevent has returned has lost its note.
OneShot ==
  /\ \A f \in Dir!Entries : pending[f] # {} => f \in watched
  /\ OnceEach(returned)
  /\ at \notin {"handle", "cleanup"} => returned = <<>>
  /\ at = "handle" => \A n \in DOMAIN returned : returned[n][1] \notin watched

\* Changes that were not said went unnoticed, were hidden by one that was, or are
\* on their way.
OnTheWay ==
  at \notin {"cleanup", "closed"} =>
    \A f \in Files : unsaid[f] = gap[f] \cup masked[f] \cup pending[f] \cup Reported(returned, f)

\* A deletion is of a file that is deleted, and only that hides a write.
Hidden ==
  \A f \in Files : /\ "delete" \in unsaid[f] => f \in deleted
                   /\ "delete" \notin masked[f]
                   /\ "write" \in masked[f] => f \in deleted

DirInv == DirTypes /\ Notes /\ OneShot /\ OnTheWay /\ Hidden

\* Before the scan nothing is watched and nothing said.
LEMMA DirInitInv == Dir!Init => DirInv
<1> SUFFICES ASSUME Dir!Init PROVE DirInv
  OBVIOUS
<1> USE DEF Dir!Init
<1>1. DirTypes
  BY DEF DirTypes, Events
<1>2. Notes /\ OneShot
  BY DEF Notes, OneShot, OnceEach
<1>3. OnTheWay
  <2>1. ASSUME NEW f \in Files PROVE unsaid[f] = gap[f] \cup masked[f] \cup pending[f] \cup Reported(<<>>, f)
    <3>1. f \in Dir!Entries
      BY <2>1, DirConstants
    <3> QED BY <3>1, NothingReported
  <2> QED BY <2>1 DEF OnTheWay
<1>4. Hidden
  BY DirConstants DEF Hidden
<1> QED BY <1>1, <1>2, <1>3, <1>4 DEF DirInv

\* Another process changes a file.
LEMMA ChangeKeeps ==
  ASSUME DirInv, NEW f \in Files, NEW c \in Changes, Dir!Change(f, c) PROVE DirInv'
<1>0. /\ f \in Dir!Entries
      /\ unsaid' = [unsaid EXCEPT ![f] = unsaid[f] \cup {c}]
      /\ masked' = [masked EXCEPT ![f] = masked[f] \ {c}]
      /\ deleted' = IF c = "delete" THEN deleted \cup {f} ELSE deleted
      /\ UNCHANGED <<at, stream, fdlist, watched, returned>>
  BY DirConstants DEF Dir!Change
<1>3. Hidden'
  <2>1. \A g \in Files : g \in Dir!Entries
    BY DirConstants
  <2>2. \A g \in Files : /\ unsaid'[g] = IF g = f THEN unsaid[g] \cup {c} ELSE unsaid[g]
                         /\ masked'[g] \subseteq masked[g]
    BY <1>0, <2>1 DEF DirInv, DirTypes
  <2> QED BY <1>0, <2>2 DEF DirInv, Hidden
<1>1. CASE f \in watched
  <2>1. pending' = [pending EXCEPT ![f] = pending[f] \cup {c}] /\ gap' = gap
    BY <1>1 DEF Dir!Change
  <2>2. DirTypes'
    BY <1>0, <2>1 DEF DirInv, DirTypes
  <2>3. Notes'
    BY <1>0 DEF DirInv, Notes
  <2>4. OneShot'
    <3>1. \A g \in Dir!Entries : g # f => pending'[g] = pending[g]
      BY <2>1 DEF DirInv, DirTypes
    <3> QED BY <1>0, <1>1, <3>1 DEF DirInv, OneShot
  <2>5. OnTheWay'
    <3>1. \A g \in Files : g \in Dir!Entries
      BY DirConstants
    <3> QED BY <1>0, <2>1, <3>1 DEF DirInv, DirTypes, OnTheWay
  <2> QED BY <1>3, <2>2, <2>3, <2>4, <2>5 DEF DirInv
<1>2. CASE f \notin watched
  <2>1. gap' = [gap EXCEPT ![f] = gap[f] \cup {c}] /\ pending' = pending
    BY <1>2 DEF Dir!Change
  <2>2. DirTypes'
    BY <1>0, <2>1 DEF DirInv, DirTypes
  <2>3. Notes' /\ OneShot'
    BY <1>0, <2>1 DEF DirInv, Notes, OneShot
  <2>4. OnTheWay'
    <3>1. \A g \in Files : g \in Dir!Entries
      BY DirConstants
    <3> QED BY <1>0, <2>1, <3>1 DEF DirInv, DirTypes, OnTheWay
  <2> QED BY <1>3, <2>2, <2>3, <2>4 DEF DirInv
<1> QED BY <1>1, <1>2

\* The steps before the first note, and those that touch no note or change.
LEMMA QuietDirKeeps ==
  ASSUME DirInv,
         \/ Dir!Opendir \/ Dir!Skip \/ Dir!Open \/ Dir!Scanned
         \/ Dir!NoEvents \/ Dir!Handled \/ Dir!Error
  PROVE  DirInv'
<1>1. /\ UNCHANGED <<watched, pending, returned, deleted, unsaid, gap, masked>>
      /\ \/ at = "start" /\ at' = "skip" /\ fdlist' = fdlist
         \/ at = "skip" /\ at' \in {"skip", "scan"} /\ fdlist' = fdlist
         \/ at = "scan" /\ at' \in {"scan", "cleanup", "call"}
         \/ at = "wait" /\ at' = "call" /\ fdlist' = fdlist
         \/ at = "handle" /\ returned = <<>> /\ at' = "call" /\ fdlist' = fdlist
         \/ at' = "cleanup" /\ fdlist' = fdlist
  <2> USE DEF Dir!files
  <2>1. CASE Dir!Opendir
    BY <2>1 DEF Dir!Opendir
  <2>2. CASE Dir!Skip
    BY <2>2 DEF Dir!Skip
  <2>3. CASE Dir!Open
    BY <2>3 DEF Dir!Open
  <2>4. CASE Dir!Scanned
    BY <2>4 DEF Dir!Scanned
  <2>5. CASE Dir!NoEvents
    BY <2>5 DEF Dir!NoEvents
  <2>6. CASE Dir!Handled
    BY <2>6 DEF Dir!Handled
  <2>7. CASE Dir!Error
    BY <2>7 DEF Dir!Error
  <2> QED BY <2>1, <2>2, <2>3, <2>4, <2>5, <2>6, <2>7
<1>2. stream' \in Seq(Dir!Entries) /\ fdlist' \in Seq(Dir!Entries)
  <2> USE DEF DirInv, DirTypes
  <2>1. CASE Dir!Opendir
    <3>1. PICK dots \in Dir!SetToSeqs(Dots), rest \in Dir!SetToSeqs(Files) : stream' = dots \o rest
      BY <2>1 DEF Dir!Opendir
    <3>2. dots \in Seq(Dots) /\ rest \in Seq(Files)
      BY DirConstants, Orders
    <3>3. dots \in Seq(Dir!Entries) /\ rest \in Seq(Dir!Entries)
      BY <3>2, DirConstants
    <3> QED BY <2>1, <3>1, <3>3 DEF Dir!Opendir
  <2>2. CASE Dir!Skip
    BY <2>2 DEF Dir!Skip
  <2>3. CASE Dir!Open
    <3>1. stream # <<>> /\ stream \in Seq(Dir!Entries) /\ fdlist \in Seq(Dir!Entries)
      BY <2>3 DEF Dir!Open
    <3>2. Tail(stream) \in Seq(Dir!Entries) /\ Append(fdlist, Head(stream)) \in Seq(Dir!Entries)
      BY <3>1
    <3> QED BY <2>3, <3>1, <3>2 DEF Dir!Open
  <2>4. CASE Dir!Scanned \/ Dir!NoEvents \/ Dir!Handled \/ Dir!Error
    BY <2>4 DEF Dir!Scanned, Dir!NoEvents, Dir!Handled, Dir!Error
  <2> QED BY <2>1, <2>2, <2>3, <2>4
<1>3. DirTypes'
  BY <1>1, <1>2 DEF DirInv, DirTypes
<1>4. Notes'
  BY <1>1 DEF DirInv, Notes
<1>5. OneShot'
  BY <1>1 DEF DirInv, OneShot
<1>6. OnTheWay' /\ Hidden'
  BY <1>1 DEF DirInv, OnTheWay, Hidden
<1> QED BY <1>3, <1>4, <1>5, <1>6 DEF DirInv

\* kevent puts a note on everything that is open.
LEMMA KeventKeeps ==
  ASSUME DirInv, Dir!Kevent PROVE DirInv'
<1>1. /\ at = "call" /\ at' = "wait" /\ watched' = Dir!ToSet(fdlist) /\ returned = <<>>
      /\ UNCHANGED <<stream, fdlist, pending, returned, deleted, unsaid, gap, masked>>
      /\ watched \subseteq watched'
  BY DEF Dir!Kevent, Dir!files, DirInv, Notes, OneShot
<1>2. Dir!ToSet(fdlist) \subseteq Dir!Entries
  BY DEF DirInv, DirTypes, Dir!ToSet
<1>3. DirTypes'
  BY <1>1, <1>2 DEF DirInv, DirTypes
<1>4. Notes'
  BY <1>1 DEF Notes
<1>5. OneShot'
  BY <1>1 DEF DirInv, OneShot
<1>6. OnTheWay' /\ Hidden'
  BY <1>1 DEF DirInv, OnTheWay, Hidden
<1> QED BY <1>3, <1>4, <1>5, <1>6 DEF DirInv

\* The sequence order has each element of S once.
Ordering(order, S) ==
  /\ order \in Seq(S)
  /\ \A n, m \in DOMAIN order : n # m => order[n] # order[m]
  /\ \A x \in S : \E n \in DOMAIN order : order[n] = x

Carries(s, order, pend) == s = [n \in 1..Len(order) |-> <<order[n], pend[order[n]]>>]

\* The events that kevent returns carry what was pending.
LEMMA EventsReport ==
  ASSUME NEW who, NEW order, NEW pend, Ordering(order, who), NEW s, Carries(s, order, pend)
  PROVE  /\ OnceEach(s)
         /\ \A n \in DOMAIN s : s[n][1] \in who
         /\ \A f : Reported(s, f) = IF f \in who THEN pend[f] ELSE {}
<1>1. /\ DOMAIN order = 1..Len(order) /\ DOMAIN s = 1..Len(order)
      /\ \A n \in 1..Len(order) : order[n] \in who /\ s[n][1] = order[n] /\ s[n][2] = pend[order[n]]
      /\ \A n, m \in 1..Len(order) : n # m => order[n] # order[m]
      /\ \A x \in who : \E n \in 1..Len(order) : order[n] = x
  BY DEF Ordering, Carries
<1>2. OnceEach(s)
  <2> SUFFICES ASSUME NEW n \in 1..Len(order), NEW m \in 1..Len(order), n # m
               PROVE  s[n][1] # s[m][1]
    BY <1>1 DEF OnceEach
  <2> QED BY <1>1
<1>3. ASSUME NEW f, NEW c
      PROVE  c \in Reported(s, f) <=> \E n \in 1..Len(order) : order[n] = f /\ c \in pend[order[n]]
  <2>1. c \in Reported(s, f) <=> \E n \in DOMAIN s : s[n][1] = f /\ c \in s[n][2]
    BY ReportedIs
  <2>2. ASSUME c \in Reported(s, f)
        PROVE  \E n \in 1..Len(order) : order[n] = f /\ c \in pend[order[n]]
    <3>1. PICK n \in 1..Len(order) : s[n][1] = f /\ c \in s[n][2]
      BY <1>1, <2>1, <2>2
    <3> QED BY <1>1, <3>1
  <2>3. ASSUME NEW n \in 1..Len(order), order[n] = f, c \in pend[order[n]]
        PROVE  c \in Reported(s, f)
    <3>1. s[n][1] = f /\ c \in s[n][2] /\ n \in DOMAIN s
      BY <1>1, <2>3
    <3> QED BY <2>1, <3>1
  <2> QED BY <2>2, <2>3
<1>4. ASSUME NEW f PROVE Reported(s, f) = IF f \in who THEN pend[f] ELSE {}
  <2>1. CASE f \in who
    <3>1. PICK n \in 1..Len(order) : order[n] = f
      BY <1>1, <2>1
    <3>2. \A c : c \in Reported(s, f) <=> c \in pend[f]
      BY <1>3, <3>1, Zenon
    <3> QED BY <2>1, <3>2
  <2>2. CASE f \notin who
    <3>1. ASSUME NEW c, c \in Reported(s, f) PROVE FALSE
      <4>1. PICK n \in 1..Len(order) : order[n] = f
        BY <1>3, <3>1
      <4> QED BY <1>1, <2>2, <4>1
    <3> QED BY <2>2, <3>1
  <2> QED BY <2>1, <2>2
<1> QED BY <1>1, <1>2, <1>4, Zenon

\* kevent returns the files with pending changes, whose notes are gone by that.
LEMMA ReturnKeeps ==
  ASSUME DirInv, Dir!Return PROVE DirInv'
<1> DEFINE who == {f \in watched : pending[f] # {}}
<1>1. /\ at = "wait" /\ at' = "handle" /\ watched' = watched \ who
      /\ pending' = [f \in Dir!Entries |-> IF f \in who THEN {} ELSE pending[f]]
      /\ UNCHANGED <<stream, fdlist, deleted, unsaid, gap, masked>>
  BY DEF Dir!Return, Dir!files
<1>2. PICK order \in Dir!SetToSeqs(who) :
        returned' = [n \in 1..Len(order) |-> <<order[n], pending[order[n]]>>]
  BY DEF Dir!Return
<1>3. who \subseteq Dir!Entries /\ IsFiniteSet(who)
  <2>1. who \subseteq Dir!Entries
    BY DEF DirInv, DirTypes
  <2> QED BY <2>1, DirConstants, FS_Subset
<1>4. returned = <<>> /\ watched = Dir!ToSet(fdlist)
  BY <1>1 DEF DirInv, OneShot, Notes
<1>5. \A f \in Dir!Entries : f \in who <=> pending[f] # {}
  BY DEF DirInv, OneShot
<1>6. Ordering(order, who)
  <2> HIDE DEF who
  <2> QED BY <1>3, Orders DEF Ordering
<1>7. /\ OnceEach(returned')
      /\ \A n \in DOMAIN returned' : returned'[n][1] \in who
      /\ \A f : Reported(returned', f) = IF f \in who THEN pending[f] ELSE {}
  <2> HIDE DEF who
  <2>1. Carries(returned', order, pending)
    BY <1>2 DEF Carries
  <2> QED BY <1>6, <2>1, EventsReport, Zenon
<1> HIDE DEF who
<1>8. DirTypes'
  <2>1. \A f \in Dir!Entries : pending[f] \in SUBSET Changes
    BY DEF DirInv, DirTypes
  <2>2. order \in Seq(Dir!Entries) /\ Len(order) \in Nat
    BY <1>3, <1>6 DEF Ordering
  <2>3. \A n \in 1..Len(order) : <<order[n], pending[order[n]]>> \in Dir!Entries \X SUBSET Changes
    BY <2>1, <2>2
  <2>4. returned' \in Events
    BY <1>2, <2>2, <2>3 DEF Events
  <2>5. pending' \in [Dir!Entries -> SUBSET Changes]
    BY <1>1, <2>1
  <2> QED BY <1>1, <2>4, <2>5 DEF DirInv, DirTypes
<1>9. Notes'
  BY <1>1, <1>4 DEF Notes
<1>10. OneShot'
  <2>1. \A f \in Dir!Entries : pending'[f] # {} => f \in watched'
    BY <1>1, <1>5 DEF DirInv, OneShot
  <2>2. \A n \in DOMAIN returned' : returned'[n][1] \notin watched'
    BY <1>1, <1>7
  <2> QED BY <1>1, <1>7, <2>1, <2>2 DEF OneShot
<1>11. OnTheWay'
  <2>1. ASSUME NEW f \in Files PROVE unsaid'[f] = gap'[f] \cup masked'[f] \cup pending'[f]
                                           \cup Reported(returned', f)
    <3>1. f \in Dir!Entries
      BY DirConstants
    <3>2. unsaid[f] = gap[f] \cup masked[f] \cup pending[f]
      BY <1>1, <1>4, NothingReported DEF DirInv, OnTheWay
    <3>3. CASE f \in who
      BY <1>1, <1>7, <3>1, <3>2, <3>3
    <3>4. CASE f \notin who
      BY <1>1, <1>7, <3>1, <3>2, <3>4
    <3> QED BY <3>3, <3>4
  <2> QED BY <2>1 DEF OnTheWay
<1>12. Hidden'
  BY <1>1 DEF DirInv, Hidden
<1> QED BY <1>8, <1>9, <1>10, <1>11, <1>12 DEF DirInv

\* One change of the first event is said, the most important one.
LEMMA HandleKeeps ==
  ASSUME DirInv, Dir!Handle PROVE DirInv'
<1> DEFINE f == Head(returned)[1]
           changes == Head(returned)[2]
           message == Dir!Message(changes)
<1>1. /\ at = "handle" /\ returned # <<>> /\ returned' = Tail(returned)
      /\ unsaid' = [unsaid EXCEPT ![f] = @ \ {message}]
      /\ gap' = [gap EXCEPT ![f] = @ \ {message}]
      /\ masked' = [masked EXCEPT ![f] = (@ \cup changes) \ {message}]
      /\ UNCHANGED <<at, stream, fdlist, watched, pending, deleted>>
  BY DEF Dir!Handle, Dir!Say
<1>2. /\ Tail(returned) \in Events /\ OnceEach(Tail(returned))
      /\ f \in Dir!Entries /\ changes \subseteq Changes
      /\ Reported(returned, f) = changes
      /\ Reported(Tail(returned), f) = {}
      /\ \A g : g # f => Reported(Tail(returned), g) = Reported(returned, g)
      /\ \A n \in DOMAIN Tail(returned) :
           n + 1 \in DOMAIN returned /\ Tail(returned)[n] = returned[n + 1]
  <2>1. returned \in Events /\ OnceEach(returned)
    BY DEF DirInv, DirTypes, OneShot
  <2> QED BY <1>1, <2>1, HandleReports, Zenon
<1>3. pending[f] = {}
  <2>1. 1 \in DOMAIN returned /\ f = returned[1][1]
    BY <1>1 DEF DirInv, DirTypes, Events
  <2> QED BY <1>1, <1>2, <2>1 DEF DirInv, OneShot
<1>4. /\ "delete" \in changes => message = "delete"
      /\ "write" \in changes => message = "write" \/ "delete" \in changes
  BY DEF Dir!Message
<1> HIDE DEF f, changes, message
<1>5. \A g \in Dir!Entries :
        IF g = f
        THEN /\ unsaid'[g] = unsaid[g] \ {message} /\ gap'[g] = gap[g] \ {message}
             /\ masked'[g] = (masked[g] \cup changes) \ {message}
        ELSE unsaid'[g] = unsaid[g] /\ gap'[g] = gap[g] /\ masked'[g] = masked[g]
  BY <1>1, <1>2 DEF DirInv, DirTypes
<1>6. DirTypes'
  BY <1>1, <1>2 DEF DirInv, DirTypes
<1>7. Notes' /\ OneShot'
  BY <1>1, <1>2 DEF DirInv, Notes, OneShot
<1>8. ASSUME NEW g \in Files
      PROVE  g \in Dir!Entries /\ unsaid[g] = gap[g] \cup masked[g] \cup pending[g] \cup Reported(returned, g)
  BY <1>1, DirConstants DEF DirInv, OnTheWay
<1>9. OnTheWay'
  <2>1. ASSUME NEW g \in Files PROVE unsaid'[g] = gap'[g] \cup masked'[g] \cup pending'[g]
                                                 \cup Reported(returned', g)
    <3>1. CASE g = f
      BY <1>1, <1>2, <1>3, <1>5, <1>8, <3>1
    <3>2. CASE g # f
      BY <1>1, <1>2, <1>5, <1>8, <3>2
    <3> QED BY <3>1, <3>2
  <2> QED BY <2>1 DEF OnTheWay
<1>10. Hidden'
  <2>1. ASSUME NEW g \in Files
        PROVE  /\ "delete" \in unsaid'[g] => g \in deleted
               /\ "delete" \notin masked'[g]
               /\ "write" \in masked'[g] => g \in deleted
    <3>1. /\ "delete" \in unsaid[g] => g \in deleted
          /\ "delete" \notin masked[g]
          /\ "write" \in masked[g] => g \in deleted
      BY DEF DirInv, Hidden
    <3>2. CASE g = f
      <4>1. changes \subseteq unsaid[g]
        BY <1>2, <1>8, <3>2
      <4> QED BY <1>4, <1>5, <1>8, <3>1, <3>2, <4>1
    <3>3. CASE g # f
      BY <1>5, <1>8, <3>1, <3>3
    <3> QED BY <3>2, <3>3
  <2> QED BY <1>1, <2>1 DEF Hidden
<1> QED BY <1>6, <1>7, <1>9, <1>10 DEF DirInv

\* After the loop nothing is watched any more.
LEMMA CleanupKeeps ==
  ASSUME DirInv, Dir!Cleanup PROVE DirInv'
<1> USE DEF Dir!Cleanup, Dir!files
<1>1. DirTypes'
  BY DEF DirInv, DirTypes, Events
<1>2. Notes' /\ OneShot' /\ OnTheWay'
  BY DEF Notes, OneShot, OnTheWay, OnceEach
<1>3. Hidden'
  BY DEF DirInv, Hidden
<1> QED BY <1>1, <1>2, <1>3 DEF DirInv

\* For any files, descriptors and changes, of which any number happen at any time:
\* what kqdir has not said happened while there was no note for the file, is in an
\* event that is still to come, or was in one with something more important, a
\* write only in that of its file's deletion; and while kevent waits, every entry
\* that was opened has its note (kqdir.c:88-118).
THEOREM OnlyGapsAreForgotten == Dir!Spec => []OnlyGapsForgotten
<1>1. Dir!Init => DirInv
  BY DirInitInv
<1>2. DirInv /\ [Dir!Next]_(Dir!vars) => DirInv'
  <2> SUFFICES ASSUME DirInv, [Dir!Next]_(Dir!vars) PROVE DirInv'
    OBVIOUS
  <2>1. CASE Dir!Next
    <3>1. ASSUME NEW f \in Files, NEW c \in Changes, Dir!Change(f, c) PROVE DirInv'
      BY <3>1, ChangeKeeps
    <3>2. CASE \/ Dir!Opendir \/ Dir!Skip \/ Dir!Open \/ Dir!Scanned
               \/ Dir!NoEvents \/ Dir!Handled \/ Dir!Error
      BY <3>2, QuietDirKeeps
    <3>3. CASE Dir!Kevent
      BY <3>3, KeventKeeps
    <3>4. CASE Dir!Return
      BY <3>4, ReturnKeeps
    <3>5. CASE Dir!Handle
      BY <3>5, HandleKeeps
    <3>6. CASE Dir!Cleanup
      BY <3>6, CleanupKeeps
    <3> QED BY <2>1, <3>1, <3>2, <3>3, <3>4, <3>5, <3>6 DEF Dir!Next, Dir!Main
  <2>2. CASE UNCHANGED Dir!vars
    BY <2>2 DEF Dir!vars, DirInv, DirTypes, Notes, OneShot, OnTheWay, Hidden
  <2> QED BY <2>1, <2>2
<1>3. DirInv => OnlyGapsForgotten
  BY DEF DirInv, OnTheWay, Hidden, Notes, OnlyGapsForgotten, Dir!OnlyGapsForgotten, Dir!Running, Reported
<1> QED BY <1>1, <1>2, <1>3, PTL DEF Dir!Spec

-----------------------------------------------------------------------------
(* kqueue/kqtimer.c *)

TimerInv ==
  /\ timer \in {"wait", "fork", "exited"}
  /\ expired \in 0..MaxExpired /\ children \in Nat /\ zombies \in Nat
  /\ children + zombies <= MaxProcs

\* The steps to come at most: a round of the loop forks a child for good, and takes
\* an event, a fork, the child's end and no more expirations than are counted.
RoundsToCome == (MaxProcs - (children + zombies)) * (MaxExpired + 3)
TimerAhead ==
  CASE timer = "wait" -> RoundsToCome + (MaxExpired + 2) + (MaxExpired - expired) + children
    [] timer = "fork" -> RoundsToCome + 1 + (MaxExpired - expired) + children
    [] OTHER -> children

\* Someone is scheduled next: main, or a child that has not ended.
TimerCanGo == timer \in {"wait", "fork"} \/ children > 0

LEMMA TimerConstants == MaxProcs \in Nat /\ MaxExpired \in Nat
BY ProgramsAssumption DEF Timer!TimerAssumption

LEMMA TimerNextInv == TimerInv /\ [Timer!Next]_timervars => TimerInv'
<1> SUFFICES ASSUME TimerInv, [Timer!Next]_timervars PROVE TimerInv'
  OBVIOUS
<1> USE TimerConstants DEF TimerInv
<1>1. CASE Timer!Expire
  BY <1>1 DEF Timer!Expire
<1>2. CASE Timer!Kevent
  BY <1>2 DEF Timer!Kevent
<1>3. CASE Timer!Fork
  BY <1>3 DEF Timer!Fork
<1>4. CASE Timer!Child
  BY <1>4 DEF Timer!Child
<1>5. CASE UNCHANGED timervars
  BY <1>5 DEF timervars
<1> QED BY <1>1, <1>2, <1>3, <1>4, <1>5 DEF Timer!Next

\* What the rounds ahead come to, and what one fork takes of them.
LEMMA RoundLess ==
  ASSUME TimerInv
  PROVE  /\ RoundsToCome \in Nat
         /\ children + zombies < MaxProcs =>
              (MaxProcs - ((children + 1) + zombies)) * (MaxExpired + 3) = RoundsToCome - (MaxExpired + 3)
<1> DEFINE p == MaxProcs - (children + zombies)
           q == MaxExpired + 3
<1>1. p \in Nat /\ q \in Nat /\ MaxProcs - ((children + 1) + zombies) = p - 1
  BY TimerConstants DEF TimerInv
<1>2. RoundsToCome = p * q
  BY DEF RoundsToCome
<1> HIDE DEF p, q
<1>3. p * q \in Nat /\ (p - 1) * q = p * q - q
  BY <1>1
<1> QED BY <1>1, <1>2, <1>3 DEF q

LEMMA TimerStepsDown == TimerInv /\ [Timer!Next]_timervars => [TimerAhead' < TimerAhead]_timervars
<1> SUFFICES ASSUME TimerInv, Timer!Next PROVE TimerAhead' < TimerAhead
  OBVIOUS
<1>1. RoundsToCome \in Nat /\ MaxExpired \in Nat /\ expired \in 0..MaxExpired /\ children \in Nat
  BY RoundLess, TimerConstants DEF TimerInv
<1>2. timer \in {"wait", "fork", "exited"}
  BY DEF TimerInv
<1>3. CASE Timer!Expire
  <2>1. RoundsToCome' = RoundsToCome
    BY <1>3 DEF RoundsToCome, Timer!Expire
  <2> QED BY <1>1, <1>2, <1>3, <2>1 DEF Timer!Expire, TimerAhead
<1>4. CASE Timer!Kevent
  <2>1. RoundsToCome' = RoundsToCome
    BY <1>4 DEF RoundsToCome, Timer!Kevent
  <2> QED BY <1>1, <1>4, <2>1 DEF Timer!Kevent, TimerAhead
<1>5. CASE Timer!Fork
  <2>1. CASE children + zombies < MaxProcs
    <3>1. RoundsToCome' = RoundsToCome - (MaxExpired + 3)
      BY <1>5, <2>1, RoundLess DEF RoundsToCome, Timer!Fork
    <3> QED BY <1>1, <1>5, <2>1, <3>1 DEF Timer!Fork, TimerAhead
  <2>2. CASE ~(children + zombies < MaxProcs)
    BY <1>1, <1>5, <2>2 DEF Timer!Fork, TimerAhead
  <2> QED BY <2>1, <2>2
<1>6. CASE Timer!Child
  <2>1. RoundsToCome' = RoundsToCome
    <3>1. (children - 1) + (zombies + 1) = children + zombies
      BY DEF TimerInv
    <3> QED BY <1>6, <3>1 DEF RoundsToCome, Timer!Child
  <2> QED BY <1>1, <1>2, <1>6, <2>1 DEF Timer!Child, TimerAhead
<1> QED BY <1>3, <1>4, <1>5, <1>6 DEF Timer!Next

\* The safety part of EndsAtLimit: the children that nobody waits for use up the
\* processes of the user, so that "Loop forever" has a last step; until then main is
\* scheduled, or a child that outlives it (kqtimer.c:34-54).
THEOREM TimerRunsOut ==
  Timer!Spec => /\ TimerAhead = MaxProcs * (MaxExpired + 3) + (MaxExpired + 2) + MaxExpired
                /\ [](TimerAhead \in Nat)
                /\ [][TimerAhead' < TimerAhead]_timervars
                /\ [](TimerCanGo \/ (timer = "exited" /\ TimerAhead = 0))
<1>1. Timer!Init => TimerInv
  BY TimerConstants DEF Timer!Init, TimerInv
<1>2. Timer!Init => TimerAhead = MaxProcs * (MaxExpired + 3) + (MaxExpired + 2) + MaxExpired
  <2> SUFFICES ASSUME Timer!Init
               PROVE  TimerAhead = MaxProcs * (MaxExpired + 3) + (MaxExpired + 2) + MaxExpired
    OBVIOUS
  <2>1. MaxProcs - (children + zombies) = MaxProcs /\ MaxExpired - expired = MaxExpired
        /\ children = 0 /\ timer = "wait"
    BY TimerConstants DEF Timer!Init
  <2>2. RoundsToCome = MaxProcs * (MaxExpired + 3) /\ RoundsToCome \in Nat
    BY <1>1, <2>1, RoundLess DEF RoundsToCome
  <2> QED BY <2>1, <2>2, TimerConstants DEF TimerAhead
<1>3. TimerInv => TimerAhead \in Nat
  BY RoundLess, TimerConstants DEF TimerInv, TimerAhead
<1>4. TimerInv => TimerCanGo \/ (timer = "exited" /\ TimerAhead = 0)
  BY DEF TimerInv, TimerCanGo, TimerAhead
<1> QED BY <1>1, <1>2, <1>3, <1>4, TimerNextInv, TimerStepsDown, PTL DEF Timer!Spec, Timer!vars, timervars

-----------------------------------------------------------------------------
(* buddy/test4.c *)

\* The epoch in which the life of block b ends, where life[1] is that of block 0.
Ending(life, b) == life[b + 1]

SimTypes ==
  /\ t \in Nat /\ simstep \in {"free", "alloc", "exit"}
  /\ lifetime \in Seq(Nat) /\ Len(lifetime) = t
  /\ simlist \in Seq(0..(t - 1))
  /\ freed \in Seq(Nat \X (0..(t - 1)))

\* The list is sorted by ends of life, has no block twice and none that is overdue.
Queue ==
  /\ \A n, m \in 1..Len(simlist) : n < m => Ending(lifetime, simlist[n]) <= Ending(lifetime, simlist[m])
  /\ \A n, m \in 1..Len(simlist) : n # m => simlist[n] # simlist[m]
  /\ \A n \in 1..Len(simlist) :
       /\ t <= Ending(lifetime, simlist[n])
       /\ simstep # "free" => t < Ending(lifetime, simlist[n])

\* Blocks were freed once and in time.
InTime ==
  /\ \A n \in 1..Len(freed) : Ending(lifetime, freed[n][2]) = freed[n][1] /\ freed[n][1] <= t
  /\ \A n, m \in 1..Len(freed) : n # m => freed[n][2] # freed[m][2]

Listed(b) == \E n \in 1..Len(simlist) : simlist[n] = b
WasFreed(b) == \E n \in 1..Len(freed) : freed[n][2] = b

\* A block is in the list until it is freed.
Kept == \A b \in 0..(t - 1) : Listed(b) <=> ~WasFreed(b)

SimInv == SimTypes /\ Queue /\ InTime /\ Kept

\* At the beginning there are no blocks.
LEMMA SimInitInv == Sim!Init => SimInv
<1> SUFFICES ASSUME Sim!Init PROVE SimInv
  OBVIOUS
<1>1. t = 0 /\ simstep = "free" /\ simlist = <<>> /\ lifetime = <<>> /\ freed = <<>>
  BY DEF Sim!Init
<1>2. SimTypes
  BY <1>1 DEF SimTypes
<1>3. Queue /\ InTime /\ Kept
  BY <1>1 DEF Queue, InTime, Kept
<1> QED BY <1>2, <1>3 DEF SimInv

\* A round of sim_free_from_list.
LEMMA FreeKeeps ==
  ASSUME SimInv, Sim!Free PROVE SimInv'
<1> DEFINE b == simlist[1]
           len == Len(simlist)
           count == Len(freed)
<1>1. /\ simlist # <<>> /\ len \in Nat \ {0} /\ simlist \in Seq(0..(t - 1)) /\ b \in 0..(t - 1)
      /\ Head(simlist) = b /\ 1 \in 1..len /\ \A n \in 1..len : simlist[n] \in 0..(t - 1)
      /\ Ending(lifetime, b) = t
  <2>1. simlist # <<>> /\ simlist \in Seq(0..(t - 1))
    BY DEF Sim!Free, Sim!Due, SimInv, SimTypes
  <2>2. len \in Nat \ {0} /\ 1 \in 1..len /\ Head(simlist) = b
    BY <2>1
  <2>4. \A n \in 1..len : simlist[n] \in 0..(t - 1)
    BY DEF SimInv, SimTypes
  <2>3. lifetime[Head(simlist) + 1] = t
    BY DEF Sim!Free, Sim!Due
  <2> QED BY <2>1, <2>2, <2>3, <2>4 DEF Ending
<1>2. /\ simlist' = Tail(simlist) /\ freed' = Append(freed, <<t, b>>)
      /\ simstep = "free" /\ UNCHANGED <<t, simstep, lifetime>>
  BY <1>1 DEF Sim!Free
<1>3. /\ Len(simlist') = len - 1 /\ \A n \in 1..(len - 1) : simlist'[n] = simlist[n + 1]
      /\ simlist' \in Seq(0..(t - 1))
  BY <1>1, <1>2
<1>4. /\ count \in Nat /\ Len(freed') = count + 1 /\ freed' \in Seq(Nat \X (0..(t - 1)))
      /\ \A n \in 1..count : freed'[n] = freed[n] /\ freed[n] \in Nat \X (0..(t - 1))
      /\ freed'[count + 1] = <<t, b>>
  BY <1>1, <1>2 DEF SimInv, SimTypes
<1>5. lifetime' = lifetime /\ t' = t
  BY <1>2
<1>6. \A n \in 1..(len - 1) : n + 1 \in 1..len /\ n + 1 # 1
  BY <1>1
<1> HIDE DEF len, count
<1>7. SimTypes'
  BY <1>2, <1>3, <1>4 DEF SimInv, SimTypes
<1>8. Queue'
  <2>1. ASSUME NEW n \in 1..(len - 1), NEW m \in 1..(len - 1), n < m
        PROVE  Ending(lifetime, simlist[n + 1]) <= Ending(lifetime, simlist[m + 1])
    <3>1. n + 1 < m + 1
      BY <2>1, <1>1
    <3> QED BY <1>6, <3>1 DEF SimInv, Queue, len
  <2>2. ASSUME NEW n \in 1..(len - 1), NEW m \in 1..(len - 1), n # m
        PROVE  simlist[n + 1] # simlist[m + 1]
    <3>1. n + 1 # m + 1
      BY <2>2, <1>1
    <3> QED BY <1>6, <3>1 DEF SimInv, Queue, len
  <2>3. \A n \in 1..(len - 1) : t <= Ending(lifetime, simlist[n + 1])
    BY <1>6 DEF SimInv, Queue, len
  <2>4. len - 1 = Len(simlist') /\ simstep' = "free"
    BY <1>2, <1>3
  <2>5. \A n, m \in 1..(len - 1) :
          n < m => Ending(lifetime, simlist'[n]) <= Ending(lifetime, simlist'[m])
    BY <1>3, <2>1
  <2>6. \A n, m \in 1..(len - 1) : n # m => simlist'[n] # simlist'[m]
    BY <1>3, <2>2
  <2>7. \A n \in 1..(len - 1) : t <= Ending(lifetime, simlist'[n])
    BY <1>3, <2>3
  <2> QED BY <1>5, <2>4, <2>5, <2>6, <2>7 DEF Queue
<1>9. Listed(b) /\ ~WasFreed(b)
  BY <1>1 DEF SimInv, Kept, Listed, len
<1>10. InTime'
  <2>1. \A n \in 1..(count + 1) : n \in 1..count \/ n = count + 1
    BY <1>4
  <2>2. ASSUME NEW n \in 1..(count + 1)
        PROVE  Ending(lifetime, freed'[n][2]) = freed'[n][1] /\ freed'[n][1] <= t
    <3>1. CASE n \in 1..count
      BY <1>4, <3>1 DEF SimInv, InTime, count
    <3>2. CASE n = count + 1
      BY <1>1, <1>4, <3>2 DEF SimInv, SimTypes
    <3> QED BY <2>1, <3>1, <3>2
  <2>3. \A n \in 1..count : freed[n][2] # b
    BY <1>9 DEF WasFreed, count
  <2>4. ASSUME NEW n \in 1..(count + 1), NEW m \in 1..(count + 1), n # m
        PROVE  freed'[n][2] # freed'[m][2]
    <3>1. CASE n \in 1..count /\ m \in 1..count
      BY <1>4, <2>4, <3>1 DEF SimInv, InTime, count
    <3>2. CASE n = count + 1 /\ m \in 1..count
      <4>1. freed'[n][2] = b /\ freed'[m] = freed[m]
        BY <1>4, <3>2
      <4> QED BY <2>3, <3>2, <4>1
    <3>3. CASE n \in 1..count /\ m = count + 1
      <4>1. freed'[m][2] = b /\ freed'[n] = freed[n]
        BY <1>4, <3>3
      <4> QED BY <2>3, <3>3, <4>1
    <3> QED BY <2>1, <2>4, <3>1, <3>2, <3>3
  <2> QED BY <1>2, <1>4, <1>5, <2>2, <2>4 DEF InTime
<1>11. Kept'
  <2> SUFFICES ASSUME NEW x \in 0..(t - 1) PROVE Listed(x)' <=> ~WasFreed(x)'
    BY <1>2 DEF Kept
  <2>1. Listed(x)' <=> Listed(x) /\ x # b
    <3>1. ASSUME Listed(x)' PROVE Listed(x) /\ x # b
      <4>1. PICK n \in 1..(len - 1) : simlist[n + 1] = x
        BY <1>3, <3>1 DEF Listed
      <4>2. simlist[n + 1] # simlist[1]
        BY <1>1, <1>6 DEF SimInv, Queue, len
      <4> QED BY <1>6, <4>1, <4>2 DEF Listed, len
    <3>2. ASSUME Listed(x), x # b PROVE Listed(x)'
      <4>1. PICK n \in 1..len : simlist[n] = x
        BY <3>2 DEF Listed, len
      <4>2. n - 1 \in 1..(len - 1) /\ (n - 1) + 1 = n
        BY <1>1, <3>2, <4>1
      <4>3. simlist'[n - 1] = x
        BY <1>3, <4>1, <4>2
      <4> QED BY <1>3, <4>2, <4>3 DEF Listed
    <3> QED BY <3>1, <3>2
  <2>2. WasFreed(x)' <=> WasFreed(x) \/ x = b
    <3>1. ASSUME WasFreed(x)' PROVE WasFreed(x) \/ x = b
      <4>1. PICK n \in 1..(count + 1) : freed'[n][2] = x
        BY <1>4, <3>1 DEF WasFreed
      <4>2. CASE n \in 1..count
        BY <1>4, <4>1, <4>2 DEF WasFreed, count
      <4>3. CASE n = count + 1
        BY <1>4, <4>1, <4>3
      <4> QED BY <1>4, <4>2, <4>3
    <3>2. ASSUME WasFreed(x) PROVE WasFreed(x)'
      <4>1. PICK n \in 1..count : freed[n][2] = x
        BY <3>2 DEF WasFreed, count
      <4>2. n \in 1..Len(freed') /\ freed'[n] = freed[n]
        BY <1>4, <4>1
      <4>3. freed'[n][2] = x
        BY <4>1, <4>2
      <4> QED BY <4>2, <4>3 DEF WasFreed
    <3>3. ASSUME x = b PROVE WasFreed(x)'
      <4>1. count + 1 \in 1..Len(freed') /\ freed'[count + 1][2] = x
        BY <1>4, <3>3
      <4> QED BY <4>1 DEF WasFreed
    <3> QED BY <3>1, <3>2, <3>3
  <2> QED BY <2>1, <2>2, <1>9 DEF SimInv, Kept
<1> QED BY <1>7, <1>8, <1>10, <1>11 DEF SimInv

\* Where an element that is inserted at p, and those after it, end up.
Shifted(p, n) == IF n < p THEN n ELSE n - 1

\* u is s with e put in at place p.
Inserted(S, s, p, e, u) ==
  /\ u \in Seq(S) /\ Len(u) = Len(s) + 1 /\ u[p] = e
  /\ \A n \in 1..(Len(s) + 1) : n # p => Shifted(p, n) \in 1..Len(s) /\ u[n] = s[Shifted(p, n)]

\* What InsertAt does to a sequence, place by place.
LEMMA InsertIs ==
  ASSUME NEW S, NEW s \in Seq(S), NEW p \in 1..(Len(s) + 1), NEW e \in S,
         NEW u, u = Sim!InsertAt(s, p, e)
  PROVE  Inserted(S, s, p, e, u)
<1> DEFINE before == SubSeq(s, 1, p - 1)
           after == SubSeq(s, p, Len(s))
<1>1. /\ before \in Seq(S) /\ Len(before) = p - 1 /\ \A n \in 1..(p - 1) : before[n] = s[n]
      /\ after \in Seq(S) /\ Len(after) = Len(s) - p + 1
      /\ \A n \in 1..(Len(s) - p + 1) : after[n] = s[p + n - 1]
  <2>1. before \in Seq(S) /\ Len(before) = p - 1 /\ \A n \in 1..(p - 1) : before[n] = s[n]
    OBVIOUS
  <2>2. after \in Seq(S) /\ Len(after) = Len(s) - p + 1
    OBVIOUS
  <2>3. \A n \in 1..(Len(s) - p + 1) : after[n] = s[p + n - 1]
    OBVIOUS
  <2> QED BY <2>1, <2>2, <2>3
<1>2. u = before \o <<e>> \o after
  BY DEF Sim!InsertAt
<1> HIDE DEF before, after
<1>3. Len(s) \in Nat /\ p \in 1..(Len(s) + 1)
  OBVIOUS
<1> DEFINE start == before \o <<e>>
<1>4. /\ start \in Seq(S) /\ Len(start) = p /\ start[p] = e
      /\ \A n \in 1..(p - 1) : start[n] = s[n]
  BY <1>1, <1>3
<1>5. u = start \o after
  BY <1>2
<1> HIDE DEF start
<1>6. start \in Seq(S) /\ Len(start) = p /\ after \in Seq(S) /\ Len(after) = Len(s) - p + 1
  BY <1>1, <1>4
<1>7. /\ u \in Seq(S) /\ Len(u) = Len(s) + 1
      /\ \A n \in 1..p : u[n] = start[n]
      /\ \A n \in (p + 1)..(Len(s) + 1) : u[n] = after[n - p]
  <2>1. u \in Seq(S)
    BY <1>5, <1>6
  <2>2. Len(u) = Len(s) + 1
    BY <1>3, <1>5, <1>6
  <2>3. \A n \in 1..p : u[n] = start[n]
    BY <1>3, <1>5, <1>6
  <2>4. \A n \in (p + 1)..(Len(s) + 1) : u[n] = after[n - p]
    BY <1>3, <1>5, <1>6
  <2> QED BY <2>1, <2>2, <2>3, <2>4
<1>9. ASSUME NEW n \in 1..(Len(s) + 1), n # p
      PROVE  Shifted(p, n) \in 1..Len(s) /\ u[n] = s[Shifted(p, n)]
  <2>1. CASE n < p
    BY <1>3, <1>4, <1>7, <2>1 DEF Shifted
  <2>2. CASE ~ n < p
    <3>1. n \in (p + 1)..(Len(s) + 1) /\ n - p \in 1..(Len(s) - p + 1) /\ p + (n - p) - 1 = n - 1
      BY <1>3, <1>9, <2>2
    <3>2. u[n] = s[n - 1]
      BY <1>1, <1>7, <3>1
    <3> QED BY <1>3, <2>2, <3>1, <3>2 DEF Shifted
  <2> QED BY <2>1, <2>2
<1>10. u \in Seq(S) /\ Len(u) = Len(s) + 1 /\ u[p] = e
  BY <1>3, <1>4, <1>7
<1> QED BY <1>9, <1>10 DEF Inserted

\* sim_add_to_list puts a block between those that end no later and those that do.
LEMMA PlaceIs ==
  ASSUME SimInv, NEW ends \in Nat, NEW p, p = Sim!Place(ends)
  PROVE  /\ p \in 1..(Len(simlist) + 1)
         /\ \A m \in 1..(p - 1) : Ending(lifetime, simlist[m]) <= ends
         /\ \A m \in p..Len(simlist) : ends < Ending(lifetime, simlist[m])
<1> DEFINE len == Len(simlist)
           L == {n \in 1..(len + 1) : n <= len => ends < Ending(lifetime, simlist[n])}
           Fits(n) == /\ \A m \in 1..(n - 1) : ends >= Ending(lifetime, simlist[m])
                      /\ n <= len => ends < Ending(lifetime, simlist[n])
<1>1. len \in Nat /\ \A n \in 1..len : Ending(lifetime, simlist[n]) \in Nat
  <2>1. \A n \in 1..len : simlist[n] \in 0..(t - 1)
    BY DEF SimInv, SimTypes
  <2>2. \A b \in 0..(t - 1) : lifetime[b + 1] \in Nat
    BY DEF SimInv, SimTypes
  <2>3. \A n \in 1..len : Ending(lifetime, simlist[n]) \in Nat
    BY <2>1, <2>2 DEF Ending
  <2>4. len \in Nat
    BY DEF SimInv, SimTypes
  <2> QED BY <2>3, <2>4
<1>2. len + 1 \in L /\ L \subseteq Nat
  BY <1>1
<1>3. PICK n \in L : \A m \in L : n <= m
  <2> HIDE DEF L
  <2> QED BY <1>2, Least
<1>4. n \in 1..(len + 1) /\ Fits(n)
  <2>1. ASSUME NEW m \in 1..(n - 1) PROVE ends >= Ending(lifetime, simlist[m])
    <3>1. m \in 1..len /\ ~ n <= m
      BY <1>1
    <3>2. m \notin L
      BY <1>3, <3>1
    <3> QED BY <1>1, <3>1, <3>2
  <2> QED BY <2>1
<1>5. p = CHOOSE m \in 1..(len + 1) : Fits(m)
  BY DEF Sim!Place, Ending
<1>6. p \in 1..(len + 1) /\ Fits(p)
  <2> HIDE DEF Fits, len
  <2> QED BY <1>4, <1>5
<1>7. ASSUME NEW m \in p..len PROVE ends < Ending(lifetime, simlist[m])
  <2>1. p \in 1..len /\ m \in 1..len
    BY <1>1, <1>6
  <2>2. ends < Ending(lifetime, simlist[p])
    BY <1>1, <1>6, <2>1
  <2>3. p = m \/ Ending(lifetime, simlist[p]) <= Ending(lifetime, simlist[m])
    BY <2>1 DEF SimInv, Queue
  <2> QED BY <1>1, <2>1, <2>2, <2>3
<1>8. \A m \in 1..(p - 1) : Ending(lifetime, simlist[m]) <= ends
  BY <1>1, <1>6
<1> QED BY <1>6, <1>7, <1>8

\* mpool_alloc and sim_add_to_list.
LEMMA AllocKeeps ==
  ASSUME SimInv, Sim!Alloc PROVE SimInv'
<1>1. PICK lt \in Sim!Lifetimes :
        /\ lifetime' = Append(lifetime, t + lt)
        /\ simlist' = Sim!InsertAt(simlist, Sim!Place(t + lt), t)
  BY DEF Sim!Alloc
<1> DEFINE ends == t + lt
           p == Sim!Place(ends)
           len == Len(simlist)
<1>2. /\ t \in Nat /\ lt \in Nat \ {0} /\ ends \in Nat /\ t < ends
      /\ simstep = "alloc" /\ t' = t + 1 /\ simstep' = "free" /\ freed' = freed
  BY DEF Sim!Alloc, Sim!Lifetimes, SimInv, SimTypes
<1>3. /\ lifetime' \in Seq(Nat) /\ Len(lifetime') = t + 1 /\ Ending(lifetime', t) = ends
      /\ \A b \in 0..(t - 1) : Ending(lifetime', b) = Ending(lifetime, b)
                               /\ Ending(lifetime, b) \in Nat
  BY <1>1, <1>2 DEF SimInv, SimTypes, Ending
<1>4. /\ len \in Nat /\ simlist \in Seq(0..(t - 1)) /\ simlist \in Seq(0..t)
      /\ \A n \in 1..len : simlist[n] \in 0..(t - 1) /\ simlist[n] # t
  BY <1>2 DEF SimInv, SimTypes
<1>5. /\ p \in 1..(len + 1)
      /\ \A m \in 1..(p - 1) : Ending(lifetime, simlist[m]) <= ends
      /\ \A m \in p..len : ends < Ending(lifetime, simlist[m])
  <2> HIDE DEF ends
  <2> QED BY <1>2, PlaceIs
<1>6. /\ simlist' \in Seq(0..t) /\ Len(simlist') = len + 1 /\ simlist'[p] = t
      /\ \A n \in 1..(len + 1) : n # p =>
           Shifted(p, n) \in 1..len /\ simlist'[n] = simlist[Shifted(p, n)]
  <2> DEFINE S == 0..t
             u == simlist'
  <2>1. t \in S /\ u = Sim!InsertAt(simlist, p, t) /\ simlist \in Seq(S)
    BY <1>1, <1>2, <1>4
  <2>2. p \in 1..(Len(simlist) + 1)
    BY <1>5
  <2> HIDE DEF p, S, u
  <2>3. Inserted(S, simlist, p, t, u)
    BY <2>1, <2>2, InsertIs
  <2> QED BY <2>3 DEF Inserted, S, u
<1> HIDE DEF p, len, ends
<1>7. \A n, m \in 1..(len + 1) :
        n # p /\ m # p /\ n < m => Shifted(p, n) < Shifted(p, m)
  BY <1>4, <1>5 DEF Shifted
<1>8. \A n \in 1..len : simlist[n] \in 0..(t - 1) /\ Ending(lifetime', simlist[n]) = Ending(lifetime, simlist[n])
                        /\ t < Ending(lifetime, simlist[n]) /\ Ending(lifetime, simlist[n]) \in Nat
  BY <1>2, <1>3, <1>4 DEF SimInv, Queue, len
<1>9. SimTypes'
  <2>1. (t + 1) - 1 = t
    BY <1>2
  <2>2. freed \in Seq(Nat \X (0..t))
    <3>1. 0..(t - 1) \subseteq 0..t
      BY <1>2
    <3> QED BY <3>1 DEF SimInv, SimTypes
  <2> QED BY <1>2, <1>3, <1>6, <2>1, <2>2 DEF SimInv, SimTypes
<1>10. \A n \in 1..(len + 1) :
         IF n = p THEN Ending(lifetime', simlist'[n]) = ends
         ELSE Ending(lifetime', simlist'[n]) = Ending(lifetime, simlist[Shifted(p, n)])
  BY <1>3, <1>6, <1>8
<1>11. Queue'
  <2>1. ASSUME NEW n \in 1..(len + 1), NEW m \in 1..(len + 1), n < m
        PROVE  Ending(lifetime', simlist'[n]) <= Ending(lifetime', simlist'[m])
    <3>1. CASE n # p /\ m # p
      <4>1. /\ Shifted(p, n) \in 1..len /\ Shifted(p, m) \in 1..len
            /\ Shifted(p, n) < Shifted(p, m)
        BY <1>6, <1>7, <2>1, <3>1
      <4>2. Ending(lifetime, simlist[Shifted(p, n)]) <= Ending(lifetime, simlist[Shifted(p, m)])
        BY <4>1 DEF SimInv, Queue, len
      <4> QED BY <1>10, <3>1, <4>2
    <3>2. CASE n = p
      <4>1. m # p /\ Shifted(p, m) \in p..len /\ Shifted(p, m) \in 1..len
        BY <1>4, <1>5, <2>1, <3>2 DEF Shifted
      <4>2. ends < Ending(lifetime, simlist[Shifted(p, m)])
        BY <1>5, <4>1
      <4> QED BY <1>2, <1>8, <1>10, <3>2, <4>1, <4>2
    <3>3. CASE m = p
      <4>1. n # p /\ Shifted(p, n) \in 1..(p - 1)
        BY <1>4, <1>5, <2>1, <3>3 DEF Shifted
      <4>2. Ending(lifetime, simlist[Shifted(p, n)]) <= ends
        BY <1>5, <4>1
      <4> QED BY <1>10, <3>3, <4>1, <4>2
    <3> QED BY <3>1, <3>2, <3>3
  <2>2. ASSUME NEW n \in 1..(len + 1), NEW m \in 1..(len + 1), n < m
        PROVE  simlist'[n] # simlist'[m]
    <3>1. CASE n # p /\ m # p
      <4>1. /\ Shifted(p, n) \in 1..len /\ Shifted(p, m) \in 1..len
            /\ Shifted(p, n) # Shifted(p, m)
        BY <1>6, <1>7, <2>2, <3>1
      <4>2. simlist[Shifted(p, n)] # simlist[Shifted(p, m)]
        BY <4>1 DEF SimInv, Queue, len
      <4> QED BY <1>6, <3>1, <4>2
    <3>2. CASE n = p
      <4>1. m # p /\ Shifted(p, m) \in 1..len
        BY <1>6, <2>2, <3>2
      <4> QED BY <1>4, <1>6, <3>2, <4>1
    <3>3. CASE m = p
      <4>1. n # p /\ Shifted(p, n) \in 1..len
        BY <1>6, <2>2, <3>3
      <4> QED BY <1>4, <1>6, <3>3, <4>1
    <3> QED BY <3>1, <3>2, <3>3
  <2>3. ASSUME NEW n \in 1..(len + 1) PROVE t + 1 <= Ending(lifetime', simlist'[n])
    <3>1. CASE n = p
      BY <1>2, <1>10, <3>1
    <3>2. CASE n # p
      <4>1. Shifted(p, n) \in 1..len
        BY <1>6, <3>2
      <4>2. t < Ending(lifetime, simlist[Shifted(p, n)])
            /\ Ending(lifetime, simlist[Shifted(p, n)]) \in Nat
        BY <1>8, <4>1
      <4> QED BY <1>2, <1>10, <3>2, <4>2
    <3> QED BY <3>1, <3>2
  <2>4. \A n, m \in 1..(len + 1) : n # m => n < m \/ m < n
    BY <1>4
  <2>5. \A n, m \in 1..(len + 1) : n # m => simlist'[n] # simlist'[m]
    BY <2>2, <2>4
  <2> QED BY <1>2, <1>6, <2>1, <2>3, <2>5 DEF Queue
<1>12. InTime'
  <2>1. \A n \in 1..Len(freed) : freed[n] \in Nat \X (0..(t - 1))
    BY DEF SimInv, SimTypes
  <2>2. ASSUME NEW n \in 1..Len(freed)
        PROVE  Ending(lifetime', freed[n][2]) = freed[n][1] /\ freed[n][1] <= t + 1
    <3>1. Ending(lifetime, freed[n][2]) = freed[n][1] /\ freed[n][1] <= t
      BY DEF SimInv, InTime
    <3>2. freed[n][1] \in Nat /\ freed[n][2] \in 0..(t - 1)
      BY <2>1
    <3>3. Ending(lifetime', freed[n][2]) = Ending(lifetime, freed[n][2])
      BY <1>3, <3>2
    <3>4. freed[n][1] <= t + 1
      BY <1>2, <3>1, <3>2
    <3> QED BY <3>1, <3>3, <3>4
  <2>3. \A n, m \in 1..Len(freed) : n # m => freed[n][2] # freed[m][2]
    BY DEF SimInv, InTime
  <2> QED BY <1>2, <2>2, <2>3 DEF InTime
<1>13. Kept'
  <2> SUFFICES ASSUME NEW b \in 0..t PROVE Listed(b)' <=> ~WasFreed(b)'
    <3>1. (t + 1) - 1 = t
      BY <1>2
    <3> QED BY <1>2, <3>1 DEF Kept
  <2>1. WasFreed(b)' <=> WasFreed(b)
    BY <1>2 DEF WasFreed
  <2>2. CASE b = t
    <3>1. Listed(b)'
      BY <1>5, <1>6, <2>2 DEF Listed
    <3>2. ~WasFreed(b)
      BY <1>2, <2>2 DEF SimInv, SimTypes, WasFreed
    <3> QED BY <2>1, <3>1, <3>2
  <2>3. CASE b # t
    <3>1. b \in 0..(t - 1)
      BY <1>2, <2>3
    <3>2. ASSUME Listed(b)' PROVE Listed(b)
      <4>1. PICK n \in 1..(len + 1) : simlist'[n] = b
        BY <1>6, <3>2 DEF Listed
      <4>2. n # p
        BY <1>6, <2>3, <4>1
      <4>3. Shifted(p, n) \in 1..len /\ simlist[Shifted(p, n)] = b
        BY <1>6, <4>1, <4>2
      <4> QED BY <4>3 DEF Listed, len
    <3>3. ASSUME Listed(b) PROVE Listed(b)'
      <4>1. PICK n \in 1..len : simlist[n] = b
        BY <3>3 DEF Listed, len
      <4> DEFINE m == IF n < p THEN n ELSE n + 1
      <4>2. m \in 1..(len + 1) /\ m # p /\ Shifted(p, m) = n
        BY <1>4, <1>5 DEF Shifted
      <4>3. simlist'[m] = b
        BY <1>6, <4>1, <4>2
      <4> HIDE DEF m
      <4> QED BY <1>6, <4>2, <4>3 DEF Listed
    <3> QED BY <2>1, <3>1, <3>2, <3>3 DEF SimInv, Kept
  <2> QED BY <2>2, <2>3
<1> QED BY <1>9, <1>11, <1>12, <1>13 DEF SimInv

\* The end of sim_free_from_list, and a failing mpool_alloc.
LEMMA FreedKeeps ==
  ASSUME SimInv, Sim!Freed \/ Sim!AllocFails PROVE SimInv'
<1>1. UNCHANGED <<t, simlist, lifetime, freed>> /\ simstep' \in {"alloc", "exit"}
  BY DEF Sim!Freed, Sim!AllocFails
<1>2. ASSUME NEW n \in 1..Len(simlist) PROVE t < Ending(lifetime, simlist[n])
  <2>1. CASE Sim!AllocFails
    BY <2>1 DEF Sim!AllocFails, SimInv, Queue
  <2>2. CASE Sim!Freed
    <3>1. 1 \in 1..Len(simlist) /\ simlist # <<>> /\ Head(simlist) = simlist[1]
          /\ simlist[1] \in 0..(t - 1) /\ simlist[n] \in 0..(t - 1)
      <4>1. \A m \in 1..Len(simlist) : simlist[m] \in 0..(t - 1)
        BY DEF SimInv, SimTypes
      <4>2. 1 \in 1..Len(simlist) /\ simlist # <<>> /\ Head(simlist) = simlist[1]
        BY DEF SimInv, SimTypes
      <4> QED BY <4>1, <4>2
    <3>2. Ending(lifetime, simlist[1]) # t
      BY <2>2, <3>1 DEF Sim!Freed, Sim!Due, Ending
    <3>3. /\ t <= Ending(lifetime, simlist[1])
          /\ n = 1 \/ Ending(lifetime, simlist[1]) <= Ending(lifetime, simlist[n])
      BY <3>1 DEF SimInv, Queue
    <3>4. t \in Nat /\ \A b \in 0..(t - 1) : lifetime[b + 1] \in Nat
      BY DEF SimInv, SimTypes
    <3>5. Ending(lifetime, simlist[1]) \in Nat /\ Ending(lifetime, simlist[n]) \in Nat
      BY <3>1, <3>4 DEF Ending
    <3> QED BY <3>2, <3>3, <3>4, <3>5
  <2> QED BY <2>1, <2>2
<1>3. SimTypes'
  BY <1>1 DEF SimInv, SimTypes
<1>4. Queue'
  BY <1>1, <1>2 DEF SimInv, Queue
<1>5. InTime' /\ Kept'
  BY <1>1 DEF SimInv, InTime, Kept, Listed, WasFreed
<1> QED BY <1>3, <1>4, <1>5 DEF SimInv

\* For any number of epochs and any lifetimes: looking at the head of the sorted
\* list frees every block in the epoch its life ends, once, and loses none
\* (test4.c:96, 142).
THEOREM BlocksFreedOnTime == Sim!Spec => []FreedOnTime
<1>1. Sim!Init => SimInv
  BY SimInitInv
<1>2. SimInv /\ [Sim!Next]_(Sim!vars) => SimInv'
  <2>1. ASSUME SimInv, Sim!Next PROVE SimInv'
    BY <2>1, FreeKeeps, FreedKeeps, AllocKeeps DEF Sim!Next
  <2>2. ASSUME SimInv, UNCHANGED Sim!vars PROVE SimInv'
    <3>1. UNCHANGED <<t, simstep, simlist, lifetime, freed>>
      BY <2>2 DEF Sim!vars
    <3>2. SimTypes' /\ Queue'
      BY <2>2, <3>1 DEF SimInv, SimTypes, Queue
    <3>3. InTime' /\ Kept'
      BY <2>2, <3>1 DEF SimInv, InTime, Kept, Listed, WasFreed
    <3> QED BY <3>2, <3>3 DEF SimInv
  <2> QED BY <2>1, <2>2
<1>3. SimInv => FreedOnTime
  <2> SUFFICES ASSUME SimInv PROVE FreedOnTime
    OBVIOUS
  <2> DEFINE blocks == {freed[n][2] : n \in 1..Len(freed)}
  <2>1. \A b : b \in blocks <=> WasFreed(b)
    BY DEF WasFreed
  <2>2. \A n \in 1..Len(freed) : freed[n][2] \in 0..(t - 1)
    BY DEF SimInv, SimTypes
  <2>3. \A b : WasFreed(b) => b \in 0..(t - 1)
    BY <2>2 DEF WasFreed
  <2>4. \A n \in 1..Len(freed) : lifetime[freed[n][2] + 1] = freed[n][1]
    BY DEF SimInv, InTime, Ending
  <2>5. Sim!IsInjective([n \in 1..Len(freed) |-> freed[n][2]])
    BY DEF SimInv, InTime, Sim!IsInjective
  <2>6. ASSUME simstep # "free"
        PROVE  blocks = {b \in 0..(t - 1) : lifetime[b + 1] <= t}
    <3>1. ASSUME NEW b \in 0..(t - 1), WasFreed(b) PROVE lifetime[b + 1] <= t
      <4>1. PICK n \in 1..Len(freed) : freed[n][2] = b
        BY <3>1 DEF WasFreed
      <4> QED BY <4>1 DEF SimInv, InTime, Ending
    <3>2. ASSUME NEW b \in 0..(t - 1), ~WasFreed(b) PROVE ~ lifetime[b + 1] <= t
      <4>1. PICK n \in 1..Len(simlist) : simlist[n] = b
        BY <3>2 DEF SimInv, Kept, Listed
      <4>2. t < lifetime[b + 1]
        BY <2>6, <4>1 DEF SimInv, Queue, Ending
      <4>3. t \in Nat /\ lifetime[b + 1] \in Nat
        BY DEF SimInv, SimTypes
      <4> QED BY <4>2, <4>3
    <3> QED BY <2>1, <2>3, <3>1, <3>2
  <2>7. Sim!ToSet(simlist) = (0..(t - 1)) \ blocks
    <3>1. \A b : b \in Sim!ToSet(simlist) <=> Listed(b)
      BY DEF Sim!ToSet, Listed, SimInv, SimTypes
    <3>2. \A b : Listed(b) => b \in 0..(t - 1)
      BY DEF Listed, SimInv, SimTypes
    <3> QED BY <2>1, <3>1, <3>2 DEF SimInv, Kept
  <2> QED BY <2>4, <2>5, <2>6, <2>7 DEF FreedOnTime, Sim!FreedOnTime
<1> QED BY <1>1, <1>2, <1>3, PTL DEF Sim!Spec

-----------------------------------------------------------------------------
(* kqueue/kqclient.c *)

\* The sequences of lines, of units and of pieces that the client handles.
Lines == 1..MaxLines
LineUnits == Lines \X (1..LineLen)
Pieces == 1..MaxPieces

\* The first n lines or pieces.
Count(n) == [k \in 1..n |-> k]

ClientTypes ==
  /\ typed \in 0..MaxLines /\ told \in 0..MaxPieces
  /\ stdin \in Seq(Lines) /\ stdio \in Seq(Lines) /\ Len(stdio) < StdioLines
  /\ sock \in Seq(Pieces) /\ screen \in Seq(Pieces)
  /\ stdinEof \in BOOLEAN /\ sockEof \in BOOLEAN /\ begun \in {"no", "unread", "taken"}
  /\ begun # "no" => typed < MaxLines
  /\ zeros \subseteq Pieces /\ hidden \subseteq Pieces /\ garbled \subseteq Pieces
  /\ sent \in Seq(LineUnits) /\ unread \in 0..SendRoom
  /\ main \in {"wait", "event", "send", "exited"}
  /\ evlist \in Seq({"sock", "stdin"}) /\ Len(evlist) <= 2
  /\ buf \in 0..MaxLines /\ pos \in 0..LineLen

\* Between the calls of sendbuftosck nothing is to be sent.
Sending ==
  /\ main \in {"wait", "event"} => buf = Client!Nothing
  /\ pos <= Client!Length(buf)

\* What is in buf, stdio or the descriptor, in this order.
Unheard == sent \o Client!Units(buf, pos, Client!Length(buf)) \o Client!AllUnits(stdio \o stdin)

\* What fputs leaves out or adds.
Printing ==
  /\ \A p \in hidden : \E z \in zeros : z <= p /\ p < z + ReadPieces
  /\ \A p \in garbled :
       /\ p >= ReadPieces /\ p <= Len(screen)
       /\ \A q \in garbled : q < p => q <= p - ReadPieces

ClientInv ==
  /\ ClientTypes /\ Sending /\ Printing
  /\ Unheard = Client!AllUnits(Count(typed))
  /\ screen \o sock = Count(told)

\* The constants of KqClient are numbers.
LEMMA ClientConstants ==
  /\ LineLen \in Nat \ {0} /\ StdioLines \in Nat \ {0} /\ ReadPieces \in Nat \ {0}
  /\ SendRoom \in Nat \ {0}
  /\ MaxLines \in Nat /\ MaxPieces \in Nat
BY ProgramsAssumption DEF Client!ClientAssumption

-----------------------------------------------------------------------------
(* The units of several lines.  The k-th one is unit Place(k) of line Row(k). *)

Row(k) == ((k - 1) \div LineLen) + 1
Place(k) == ((k - 1) % LineLen) + 1

\* A unit's number determines its line and its place there, and they it.
LEMMA RowAndPlace ==
  /\ \A m \in Nat, pl \in 1..LineLen : Row(m * LineLen + pl) = m + 1 /\ Place(m * LineLen + pl) = pl
  /\ \A n \in Nat : \A k \in 1..(n * LineLen) :
       \E m \in 0..(n - 1), pl \in 1..LineLen : k = m * LineLen + pl
<1> DEFINE b == LineLen
<1>0. b \in Nat \ {0}
  BY ClientConstants
<1>1. ASSUME NEW a \in Nat
      PROVE  /\ a % b \in 0..(b - 1) /\ a \div b \in Nat
             /\ a = (a \div b) * b + (a % b)
  <2> HIDE DEF b
  <2> QED BY <1>0, DivMod
<1>2. ASSUME NEW m \in Nat, NEW pl \in 1..b PROVE Row(m * b + pl) = m + 1 /\ Place(m * b + pl) = pl
  <2> DEFINE a == m * b + (pl - 1)
             c == a \div b
  <2>1. a \in Nat /\ pl - 1 \in 0..(b - 1) /\ (m * b + pl) - 1 = a
    BY <1>0
  <2>2. a % b = pl - 1
    <3> HIDE DEF b
    <3> QED BY <1>0, <2>1, Remainder
  <2>3. c = m
    <3> HIDE DEF b
    <3> QED BY <1>0, <2>1, Quotient
  <2> QED BY <2>1, <2>2, <2>3 DEF Row, Place
<1>3. ASSUME NEW n \in Nat, NEW k \in 1..(n * b)
      PROVE  \E m \in 0..(n - 1), pl \in 1..b : k = m * b + pl
  <2> DEFINE m == (k - 1) \div b
             r == (k - 1) % b
             pl == r + 1
  <2>1. k - 1 \in Nat /\ n * b \in Nat /\ k <= n * b
    BY <1>0
  <2>2. pl \in 1..b /\ m \in Nat /\ k = m * b + pl
    <3>1. r \in 0..(b - 1) /\ m \in Nat /\ k - 1 = m * b + r
      <4> DEFINE a == k - 1
      <4>1. a \in Nat
        BY <2>1
      <4> HIDE DEF a, b
      <4>2. a % b \in 0..(b - 1) /\ a \div b \in Nat /\ a = (a \div b) * b + (a % b)
        BY <1>1, <4>1
      <4>3. m \in Nat
        BY <4>2, Zenon DEF a
      <4>4. r \in 0..(b - 1)
        BY <4>2, Zenon DEF a
      <4>5. k - 1 = m * b + r
        BY <4>2, Zenon DEF a
      <4> QED BY <4>3, <4>4, <4>5
    <3>2. m * b \in Nat
      BY <1>0, <3>1
    <3> HIDE DEF m, r, b
    <3> QED BY <1>0, <2>1, <3>1, <3>2
  <2>3. m < n
    <3> HIDE DEF m, pl, b
    <3> SUFFICES ASSUME n <= m PROVE FALSE
      BY <2>2
    <3>1. PICK d \in Nat : m = n + d
      <4>1. m - n \in Nat /\ m = n + (m - n)
        BY <2>2
      <4> QED BY <4>1
    <3>2. m * b = n * b + d * b /\ d * b >= 0 /\ m * b \in Nat
      BY <1>0, <3>1
    <3>3. pl \in Nat \ {0} /\ k = m * b + pl
      BY <2>2, <1>0
    <3> DEFINE x == m * b
               y == n * b
               z == d * b
    <3>4. k \in Nat /\ x \in Nat /\ y \in Nat /\ z \in Int /\ x = y + z /\ z >= 0 /\ k = x + pl /\ k <= y
      BY <1>0, <2>1, <3>2, <3>3
    <3> HIDE DEF x, y, z
    <3> QED BY <3>3, <3>4
  <2> HIDE DEF m, pl
  <2> QED BY <2>2, <2>3
<1> QED BY <1>2, <1>3

\* The units of the lines of s, by their numbers.
Spelt(s) == [k \in 1..(Len(s) * LineLen) |-> <<s[Row(k)], Place(k)>>]

\* Spelt is defined on the right lines.
LEMMA SpeltIs ==
  ASSUME NEW s \in Seq(Lines)
  PROVE  /\ Spelt(s) \in Seq(LineUnits) /\ Len(Spelt(s)) = Len(s) * LineLen
         /\ \A m \in 0..(Len(s) - 1), pl \in 1..LineLen :
              /\ m * LineLen + pl \in 1..(Len(s) * LineLen)
              /\ Spelt(s)[m * LineLen + pl] = <<s[m + 1], pl>>
<1> DEFINE n == Len(s)
<1>1. n \in Nat /\ LineLen \in Nat \ {0} /\ n * LineLen \in Nat
  BY ClientConstants
<1>2. ASSUME NEW m \in 0..(n - 1), NEW pl \in 1..LineLen
      PROVE  /\ m * LineLen + pl \in 1..(n * LineLen)
             /\ Spelt(s)[m * LineLen + pl] = <<s[m + 1], pl>>
  <2>1. m * LineLen + pl \in 1..(n * LineLen)
    <3> HIDE DEF n
    <3>1. PICK d \in Nat : n = m + 1 + d
      BY <1>1
    <3>2. n * LineLen = m * LineLen + LineLen + d * LineLen /\ d * LineLen >= 0 /\ m * LineLen >= 0
      BY <1>1, <3>1
    <3> QED BY <1>1, <3>2
  <2>2. Row(m * LineLen + pl) = m + 1 /\ Place(m * LineLen + pl) = pl
    BY <1>1, RowAndPlace
  <2> QED BY <2>1, <2>2 DEF Spelt
<1>3. ASSUME NEW k \in 1..(n * LineLen) PROVE Spelt(s)[k] \in LineUnits
  <2>1. PICK m \in 0..(n - 1), pl \in 1..LineLen : k = m * LineLen + pl
    BY <1>1, RowAndPlace
  <2>2. s[m + 1] \in Lines
    <3>1. m + 1 \in 1..n
      BY <1>1
    <3> QED BY <3>1
  <2>3. Spelt(s)[k] = <<s[m + 1], pl>>
    BY <1>2, <2>1
  <2> QED BY <2>2, <2>3 DEF LineUnits
<1> DEFINE len == n * LineLen
<1>4. Spelt(s) \in Seq(LineUnits) /\ Len(Spelt(s)) = len
  <2>1. len \in Nat /\ Spelt(s) = [k \in 1..len |-> <<s[Row(k)], Place(k)>>]
    BY <1>1 DEF Spelt
  <2>2. \A k \in 1..len : Spelt(s)[k] \in LineUnits
    BY <1>3
  <2> HIDE DEF len
  <2>3. Spelt(s) \in [1..len -> LineUnits]
    BY <2>1, <2>2
  <2> QED BY <2>1, <2>3
<1> QED BY <1>2, <1>4

\* The units of two sequences of lines are those of the one and of the other.
LEMMA SpeltConcat ==
  ASSUME NEW s \in Seq(Lines), NEW u \in Seq(Lines)
  PROVE  Spelt(s \o u) = Spelt(s) \o Spelt(u)
<1> DEFINE a == Len(s)
           c == Len(u)
           whole == Spelt(s \o u)
           halves == Spelt(s) \o Spelt(u)
<1>1. /\ a \in Nat /\ c \in Nat /\ LineLen \in Nat \ {0} /\ s \o u \in Seq(Lines) /\ Len(s \o u) = a + c
      /\ \A m \in 1..a : (s \o u)[m] = s[m]
      /\ \A m \in 1..c : (s \o u)[a + m] = u[m]
  BY ClientConstants
<1>2. /\ whole \in Seq(LineUnits) /\ Len(whole) = (a + c) * LineLen
      /\ \A m \in 0..(a + c - 1), pl \in 1..LineLen : whole[m * LineLen + pl] = <<(s \o u)[m + 1], pl>>
  <2> DEFINE v == s \o u
  <2>1. v \in Seq(Lines) /\ Len(v) = a + c
    BY <1>1
  <2> HIDE DEF v
  <2>2. /\ Spelt(v) \in Seq(LineUnits) /\ Len(Spelt(v)) = Len(v) * LineLen
        /\ \A m \in 0..(Len(v) - 1), pl \in 1..LineLen : Spelt(v)[m * LineLen + pl] = <<v[m + 1], pl>>
    BY <2>1, SpeltIs
  <2> QED BY <2>1, <2>2 DEF v
<1>3. /\ Spelt(s) \in Seq(LineUnits) /\ Len(Spelt(s)) = a * LineLen
      /\ \A m \in 0..(a - 1), pl \in 1..LineLen :
           m * LineLen + pl \in 1..(a * LineLen) /\ Spelt(s)[m * LineLen + pl] = <<s[m + 1], pl>>
  BY SpeltIs
<1>4. /\ Spelt(u) \in Seq(LineUnits) /\ Len(Spelt(u)) = c * LineLen
      /\ \A m \in 0..(c - 1), pl \in 1..LineLen :
           m * LineLen + pl \in 1..(c * LineLen) /\ Spelt(u)[m * LineLen + pl] = <<u[m + 1], pl>>
  BY SpeltIs
<1>5. /\ a * LineLen \in Nat /\ c * LineLen \in Nat /\ (a + c) * LineLen = a * LineLen + c * LineLen
  BY <1>1
<1>6. /\ halves \in Seq(LineUnits) /\ Len(halves) = a * LineLen + c * LineLen
      /\ \A k \in 1..(a * LineLen) : halves[k] = Spelt(s)[k]
      /\ \A k \in 1..(c * LineLen) : halves[a * LineLen + k] = Spelt(u)[k]
  <2> DEFINE f == Spelt(s)
             g == Spelt(u)
             al == a * LineLen
             cl == c * LineLen
  <2>1. f \in Seq(LineUnits) /\ g \in Seq(LineUnits) /\ Len(f) = al /\ Len(g) = cl /\ al \in Nat /\ cl \in Nat
    BY <1>3, <1>4, <1>5
  <2> HIDE DEF f, g, al, cl
  <2>2. f \o g \in Seq(LineUnits) /\ Len(f \o g) = al + cl
    <3>1. f \in Seq(LineUnits) /\ g \in Seq(LineUnits)
      BY <2>1
    <3>2. f \o g \in Seq(LineUnits) /\ Len(f \o g) = Len(f) + Len(g)
      BY <3>1, ConcatProperties
    <3> QED BY <2>1, <3>2
  <2>3. \A k \in 1..al : (f \o g)[k] = f[k]
    BY <2>1
  <2>4. \A k \in 1..cl : (f \o g)[al + k] = g[k]
    BY <2>1
  <2> QED BY <2>2, <2>3, <2>4 DEF f, g, al, cl
<1>7. ASSUME NEW k \in 1..((a + c) * LineLen) PROVE whole[k] = halves[k]
  <2>1. PICK m \in 0..(a + c - 1), pl \in 1..LineLen : k = m * LineLen + pl
    <3> DEFINE n == a + c
    <3>1. n \in Nat /\ k \in 1..(n * LineLen)
      BY <1>1
    <3> HIDE DEF n
    <3>2. \E m \in 0..(n - 1), pl \in 1..LineLen : k = m * LineLen + pl
      BY <3>1, RowAndPlace
    <3> QED BY <3>2 DEF n
  <2>2. whole[k] = <<(s \o u)[m + 1], pl>>
    BY <1>2, <2>1
  <2>3. CASE m < a
    <3>1. m \in 0..(a - 1) /\ m + 1 \in 1..a
      BY <1>1, <2>3
    <3>2. k \in 1..(a * LineLen) /\ Spelt(s)[k] = <<s[m + 1], pl>>
      BY <1>3, <2>1, <3>1
    <3>3. (s \o u)[m + 1] = s[m + 1]
      BY <1>1, <3>1
    <3>4. halves[k] = Spelt(s)[k]
      BY <1>6, <3>2
    <3> QED BY <2>2, <3>2, <3>3, <3>4
  <2>4. CASE ~ m < a
    <3> DEFINE d == m - a
    <3>1. d \in 0..(c - 1) /\ d + 1 \in 1..c /\ m + 1 = a + (d + 1) /\ d \in Nat
      BY <1>1, <2>4
    <3>2. m * LineLen = a * LineLen + d * LineLen /\ d * LineLen \in Nat
      <4>1. m = a + d
        BY <1>1
      <4> HIDE DEF d
      <4> QED BY <1>1, <3>1, <4>1
    <3>3. k = a * LineLen + (d * LineLen + pl)
      <4> HIDE DEF d
      <4> QED BY <1>5, <2>1, <3>2
    <3> HIDE DEF d
    <3>4. d * LineLen + pl \in 1..(c * LineLen) /\ Spelt(u)[d * LineLen + pl] = <<u[d + 1], pl>>
      BY <1>4, <3>1
    <3>5. (s \o u)[m + 1] = u[d + 1]
      BY <1>1, <3>1
    <3>6. halves[k] = Spelt(u)[d * LineLen + pl]
      BY <1>6, <3>3, <3>4
    <3> QED BY <2>2, <3>4, <3>5, <3>6
  <2> QED BY <2>3, <2>4
<1> HIDE DEF whole, halves, a, c
<1>8. Len(whole) = Len(halves) /\ Len(whole) = (a + c) * LineLen
  BY <1>2, <1>5, <1>6
<1>9. whole = halves
  BY <1>2, <1>6, <1>7, <1>8, SeqEqual
<1> QED BY <1>9 DEF whole, halves

\* The units of one line.
LEMMA UnitsOfLine ==
  ASSUME NEW x \in Lines
  PROVE  /\ \A a \in 0..LineLen, c \in 0..LineLen : a <= c => Client!Units(x, a, c) \in Seq(LineUnits)
         /\ \A a \in 0..LineLen, c \in 0..LineLen :
              a <= c => Client!Units(x, a, LineLen) = Client!Units(x, a, c) \o Client!Units(x, c, LineLen)
         /\ Spelt(<<x>>) = Client!Units(x, 0, LineLen)
<1>0. LineLen \in Nat \ {0}
  BY ClientConstants
<1>1. ASSUME NEW a \in 0..LineLen, NEW c \in 0..LineLen, a <= c
      PROVE  /\ Client!Units(x, a, c) \in Seq(LineUnits) /\ Len(Client!Units(x, a, c)) = c - a
             /\ \A k \in 1..(c - a) : Client!Units(x, a, c)[k] = <<x, a + k>>
  <2> DEFINE n == c - a
  <2>1. n \in Nat /\ Client!Units(x, a, c) = [k \in 1..n |-> <<x, a + k>>]
    BY <1>0, <1>1 DEF Client!Units
  <2>2. \A k \in 1..n : <<x, a + k>> \in LineUnits
    BY <1>0, <1>1 DEF LineUnits
  <2> HIDE DEF n
  <2> DEFINE u == [k \in 1..n |-> <<x, a + k>>]
  <2>3. u \in [1..n -> LineUnits] /\ \A k \in 1..n : u[k] = <<x, a + k>>
    BY <2>2
  <2>4. Client!Units(x, a, c) = u /\ n \in Nat
    BY <2>1
  <2> HIDE DEF u
  <2>5. u \in Seq(LineUnits) /\ Len(u) = n
    BY <2>3, <2>4
  <2> QED BY <2>3, <2>4, <2>5, Zenon DEF n
<1>2. ASSUME NEW a \in 0..LineLen, NEW c \in 0..LineLen, a <= c
      PROVE  Client!Units(x, a, LineLen) = Client!Units(x, a, c) \o Client!Units(x, c, LineLen)
  <2> DEFINE f == Client!Units(x, a, c)
             g == Client!Units(x, c, LineLen)
             h == Client!Units(x, a, LineLen)
  <2>1. /\ LineLen \in 0..LineLen /\ a <= LineLen /\ c <= LineLen
        /\ c - a \in Nat /\ LineLen - c \in Nat /\ LineLen - a = (c - a) + (LineLen - c)
    BY <1>0, <1>2
  <2>2. /\ f \in Seq(LineUnits) /\ Len(f) = c - a /\ \A k \in 1..(c - a) : f[k] = <<x, a + k>>
    BY <1>1, <1>2
  <2>3. /\ g \in Seq(LineUnits) /\ Len(g) = LineLen - c /\ \A k \in 1..(LineLen - c) : g[k] = <<x, c + k>>
    BY <1>1, <2>1
  <2>4. /\ h \in Seq(LineUnits) /\ Len(h) = LineLen - a /\ \A k \in 1..(LineLen - a) : h[k] = <<x, a + k>>
    BY <1>1, <2>1
  <2> DEFINE d == c - a
             e == LineLen - c
  <2>5. /\ f \in Seq(LineUnits) /\ Len(f) = d /\ g \in Seq(LineUnits) /\ Len(g) = e
        /\ d \in Nat /\ e \in Nat /\ LineLen - a = d + e
    BY <2>1, <2>2, <2>3
  <2>6. \A k \in 1..(LineLen - a) : h[k] = (f \o g)[k]
    <3>1. /\ \A k \in 1..d : f[k] = <<x, a + k>> /\ h[k] = <<x, a + k>>
          /\ \A k \in 1..e : g[k] = <<x, c + k>> /\ h[d + k] = <<x, a + (d + k)>> /\ a + (d + k) = c + k
      <4>1. \A k \in 1..d : f[k] = <<x, a + k>>
        BY <2>2
      <4>2. \A k \in 1..e : g[k] = <<x, c + k>>
        BY <2>3
      <4>3. \A k \in 1..d : k \in 1..(LineLen - a)
        BY <2>1
      <4>4. \A k \in 1..e : d + k \in 1..(LineLen - a) /\ a + (d + k) = c + k
        BY <1>0, <1>2, <2>1
      <4> HIDE DEF d, e, f, g, h
      <4>5. \A k \in 1..d : h[k] = <<x, a + k>>
        BY <2>4, <4>3
      <4>6. \A k \in 1..e : h[d + k] = <<x, a + (d + k)>>
        BY <2>4, <4>4
      <4> QED BY <4>1, <4>2, <4>4, <4>5, <4>6
    <3> HIDE DEF d, e, f, g, h
    <3>2. \A k \in 1..d : (f \o g)[k] = f[k]
      BY <2>5
    <3>3. \A k \in 1..e : (f \o g)[d + k] = g[k]
      BY <2>5
    <3>4. \A k \in 1..(LineLen - a) : k \in 1..d \/ (k - d \in 1..e /\ k = d + (k - d))
      BY <2>5
    <3>5. \A k \in 1..d : h[k] = (f \o g)[k]
      BY <3>1, <3>2
    <3>6. \A k \in 1..e : h[d + k] = (f \o g)[d + k]
      BY <3>1, <3>3
    <3>7. ASSUME NEW k \in 1..(LineLen - a) PROVE h[k] = (f \o g)[k]
      <4>1. CASE k \in 1..d
        BY <3>5, <4>1
      <4>2. CASE k - d \in 1..e /\ k = d + (k - d)
        <5>1. h[d + (k - d)] = (f \o g)[d + (k - d)]
          BY <3>6, <4>2
        <5> QED BY <4>2, <5>1, Zenon
      <4> QED BY <3>4, <4>1, <4>2
    <3> QED BY <3>7
  <2>8. f \o g \in Seq(LineUnits) /\ Len(f \o g) = LineLen - a
    <3> HIDE DEF d, e, f, g
    <3> QED BY <2>5
  <2> HIDE DEF d, e, f, g, h
  <2>7. h = f \o g
    BY <2>4, <2>6, <2>8, SeqEqual
  <2> QED BY <2>7 DEF f, g, h
<1>3. Spelt(<<x>>) = Client!Units(x, 0, LineLen)
  <2> DEFINE s == <<x>>
             h == Client!Units(x, 0, LineLen)
  <2>1. s \in Seq(Lines) /\ Len(s) = 1 /\ s[1] = x /\ 1 * LineLen = LineLen
    BY <1>0
  <2>2. /\ h \in Seq(LineUnits) /\ Len(h) = LineLen
        /\ \A k \in 1..LineLen : h[k] = <<x, k>>
    <3>1. 0 \in 0..LineLen /\ LineLen \in 0..LineLen /\ LineLen - 0 = LineLen /\ 0 <= LineLen
      BY <1>0
    <3>2. /\ h \in Seq(LineUnits) /\ Len(h) = LineLen - 0
          /\ \A k \in 1..(LineLen - 0) : h[k] = <<x, 0 + k>>
      BY <1>1, <3>1
    <3> HIDE DEF h
    <3> QED BY <1>0, <3>1, <3>2
  <2> HIDE DEF s, h
  <2>3. /\ Spelt(s) \in Seq(LineUnits) /\ Len(Spelt(s)) = Len(s) * LineLen
        /\ \A m \in 0..(Len(s) - 1), pl \in 1..LineLen : Spelt(s)[m * LineLen + pl] = <<s[m + 1], pl>>
    BY <2>1, SpeltIs
  <2>4. Len(Spelt(s)) = LineLen
    BY <2>1, <2>3
  <2>5. ASSUME NEW k \in 1..LineLen PROVE Spelt(s)[k] = <<x, k>>
    <3>1. 0 \in 0..(Len(s) - 1) /\ 0 * LineLen + k = k /\ 0 + 1 = 1
      BY <1>0, <2>1
    <3>2. Spelt(s)[0 * LineLen + k] = <<s[0 + 1], k>>
      BY <2>3, <3>1
    <3> QED BY <2>1, <3>1, <3>2
  <2>6. \A k \in 1..Len(Spelt(s)) : Spelt(s)[k] = h[k]
    BY <2>2, <2>4, <2>5
  <2>7. Spelt(s) = h
    BY <2>2, <2>3, <2>4, <2>6, SeqEqual
  <2> QED BY <2>7 DEF s, h
<1> QED BY <1>1, <1>2, <1>3

\* The units of lines are what spelling them one after the other gives.
LEMMA AllUnitsIs ==
  ASSUME NEW s \in Seq(Lines)
  PROVE  Client!AllUnits(s) = Spelt(s)
<1> DEFINE n == Len(s)
           seqs == [m \in 1..n |-> Client!Units(s[m], 0, LineLen)]
           F(g) == [m \in 1..n |-> IF m = 1 THEN seqs[m] ELSE g[m - 1] \o seqs[m]]
           w == [m \in 1..n |-> Spelt(SubSeq(s, 1, m))]
<1>1. n \in Nat /\ \A m \in 1..n : s[m] \in Lines
  OBVIOUS
<1>2. \A m \in 1..n : seqs[m] = Spelt(<<s[m]>>)
  BY <1>1, UnitsOfLine
<1>3. Len(seqs) = n /\ (n = 0 => seqs = <<>>)
  OBVIOUS
<1>4. Client!AllUnits(s) = Client!FlattenSeq(seqs)
  BY DEF Client!AllUnits
<1> HIDE DEF seqs
<1>5. CASE n = 0
  <2>1. Spelt(s) = <<>>
    <3>1. n * LineLen = 0
      BY <1>5, ClientConstants
    <3> QED BY <3>1 DEF Spelt
  <2> QED BY <1>3, <1>4, <1>5, <2>1 DEF Client!FlattenSeq
<1>6. CASE n # 0
  <2>1. w = F(w)
    <3>1. ASSUME NEW m \in 1..n PROVE w[m] = IF m = 1 THEN seqs[m] ELSE w[m - 1] \o seqs[m]
      <4>1. w[m] = Spelt(SubSeq(s, 1, m))
        OBVIOUS
      <4>2. CASE m = 1
        <5>1. SubSeq(s, 1, m) = <<s[m]>>
          <6>1. 1 \in 1..Len(s) /\ SubSeq(s, 2, 1) = <<>>
            BY <1>1, <4>2, SubSeqEmpty
          <6>2. SubSeq(s, 1, 1) = <<s[1]>> \o SubSeq(s, 1 + 1, 1)
            BY <6>1, SubSeqRecursiveFirst
          <6>3. <<s[1]>> \in Seq(Lines)
            BY <1>1, <6>1
          <6>4. <<s[1]>> \o <<>> = <<s[1]>> /\ 1 + 1 = 2
            BY <6>3, ConcatEmptySeq
          <6> QED BY <4>2, <6>1, <6>2, <6>4
        <5> QED BY <1>2, <4>1, <4>2, <5>1
      <4>3. CASE m # 1
        <5>1. m - 1 \in 1..n /\ w[m - 1] = Spelt(SubSeq(s, 1, m - 1))
          BY <1>1, <4>3
        <5>2. SubSeq(s, 1, m - 1) \in Seq(Lines) /\ <<s[m]>> \in Seq(Lines)
          BY <1>1, <5>1
        <5>3. SubSeq(s, 1, m) = SubSeq(s, 1, m - 1) \o <<s[m]>>
          <6>1. 1 \in 1..Len(s) /\ m \in 1..Len(s)
            BY <1>1
          <6> QED BY <6>1, SubSeqRecursiveSecond
        <5>4. Spelt(SubSeq(s, 1, m - 1) \o <<s[m]>>) = Spelt(SubSeq(s, 1, m - 1)) \o Spelt(<<s[m]>>)
          BY <5>2, SpeltConcat
        <5> HIDE DEF w
        <5> QED BY <1>2, <4>1, <4>3, <5>1, <5>3, <5>4
      <4> QED BY <4>2, <4>3
    <3> QED BY <3>1
  <2>2. ASSUME NEW g, g = F(g) PROVE g = w
    <3> DEFINE Bad == {m \in 1..n : g[m] # w[m]}
    <3>1. ASSUME NEW m \in 1..n PROVE g[m] = IF m = 1 THEN seqs[m] ELSE g[m - 1] \o seqs[m]
      BY <2>2
    <3>2. ASSUME NEW m \in 1..n PROVE w[m] = IF m = 1 THEN seqs[m] ELSE w[m - 1] \o seqs[m]
      BY <2>1
    <3> HIDE DEF w
    <3>3. Bad = {}
      <4> SUFFICES ASSUME Bad # {} PROVE FALSE
        OBVIOUS
      <4>1. Bad \subseteq Nat
        OBVIOUS
      <4>2. PICK m \in Bad : \A k \in Bad : m <= k
        <5> HIDE DEF Bad
        <5> QED BY <4>1, Least
      <4>3. m \in 1..n /\ g[m] # w[m]
        OBVIOUS
      <4>4. m # 1
        BY <3>1, <3>2, <4>3
      <4>5. m - 1 \in 1..n /\ ~(m <= m - 1)
        BY <4>3, <4>4
      <4>6. g[m - 1] = w[m - 1]
        BY <4>2, <4>5
      <4> QED BY <3>1, <3>2, <4>3, <4>4, <4>6
    <3>4. \A m \in 1..n : g[m] = w[m]
      BY <3>3
    <3> QED BY <2>2, <3>4 DEF w
  <2>3. Client!FlattenSeq(seqs) = (CHOOSE g : g = F(g))[n]
    BY <1>3, <1>6 DEF Client!FlattenSeq
  <2>4. (CHOOSE g : g = F(g)) = F(CHOOSE g : g = F(g))
    <3> HIDE DEF F, w
    <3> QED BY <2>1
  <2>5. (CHOOSE g : g = F(g)) = w
    <3> HIDE DEF F, w
    <3> QED BY <2>2, <2>4
  <2>6. Client!FlattenSeq(seqs) = w[n]
    <3> HIDE DEF F, w
    <3> QED BY <2>3, <2>5
  <2>7. w[n] = Spelt(SubSeq(s, 1, n))
    BY <1>1, <1>6
  <2>8. SubSeq(s, 1, n) = s
    BY SubSeqFull
  <2> QED BY <1>4, <2>6, <2>7, <2>8
<1> QED BY <1>5, <1>6

\* What of AllUnits the client's steps need.
LEMMA AllUnitsLaws ==
  /\ Client!AllUnits(<<>>) = <<>>
  /\ \A x \in Lines : Client!AllUnits(<<x>>) = Client!Units(x, 0, LineLen)
  /\ \A s, u \in Seq(Lines) :
       /\ s \o u \in Seq(Lines)
       /\ Client!AllUnits(s) \in Seq(LineUnits)
       /\ Client!AllUnits(s \o u) = Client!AllUnits(s) \o Client!AllUnits(u)
<1>1. Client!AllUnits(<<>>) = <<>>
  <2>1. <<>> \in Seq(Lines) /\ Len(<<>>) * LineLen = 0
    BY ClientConstants
  <2>2. Spelt(<<>>) = <<>>
    BY <2>1 DEF Spelt
  <2> QED BY <2>1, <2>2, AllUnitsIs
<1>2. ASSUME NEW x \in Lines PROVE Client!AllUnits(<<x>>) = Client!Units(x, 0, LineLen)
  <2>1. <<x>> \in Seq(Lines)
    OBVIOUS
  <2> QED BY <2>1, AllUnitsIs, UnitsOfLine
<1>3. ASSUME NEW s \in Seq(Lines), NEW u \in Seq(Lines)
      PROVE  /\ s \o u \in Seq(Lines)
             /\ Client!AllUnits(s) \in Seq(LineUnits)
             /\ Client!AllUnits(s \o u) = Client!AllUnits(s) \o Client!AllUnits(u)
  <2>1. s \o u \in Seq(Lines)
    BY ConcatProperties
  <2>2. Client!AllUnits(s) = Spelt(s) /\ Client!AllUnits(u) = Spelt(u)
        /\ Client!AllUnits(s \o u) = Spelt(s \o u)
    BY <2>1, AllUnitsIs
  <2>3. Spelt(s) \in Seq(LineUnits) /\ Spelt(s \o u) = Spelt(s) \o Spelt(u)
    BY SpeltIs, SpeltConcat
  <2> QED BY <2>1, <2>2, <2>3
<1> QED BY <1>1, <1>2, <1>3

\* One line or piece more.
LEMMA CountOneMore ==
  ASSUME NEW n \in Nat
  PROVE  /\ Count(n + 1) = Count(n) \o <<n + 1>>
         /\ \A m \in Nat : n <= m => Count(n) \in Seq(1..m)
<1>1. Count(n) \in Seq(Nat) /\ Len(Count(n)) = n /\ \A k \in 1..n : Count(n)[k] = k
  BY DEF Count
<1>2. /\ Count(n + 1) \in Seq(Nat) /\ Len(Count(n + 1)) = n + 1
      /\ \A k \in 1..(n + 1) : Count(n + 1)[k] = k
  BY DEF Count
<1>3. /\ Count(n) \o <<n + 1>> \in Seq(Nat) /\ Len(Count(n) \o <<n + 1>>) = n + 1
      /\ \A k \in 1..(n + 1) : (Count(n) \o <<n + 1>>)[k] = k
  BY <1>1
<1>4. Count(n + 1) = Count(n) \o <<n + 1>>
  BY <1>2, <1>3, SeqEqual
<1>5. ASSUME NEW m \in Nat, n <= m PROVE Count(n) \in Seq(1..m)
  <2>1. Count(n) \in [1..n -> 1..m]
    BY <1>5 DEF Count
  <2> QED BY <2>1
<1> QED BY <1>4, <1>5

\* What is still to be sent of the line in buf.
Unsent == Client!Units(buf, pos, Client!Length(buf))

\* What is unsent is units, and nothing once pos is at the end.
LEMMA UnsentIs ==
  ASSUME ClientTypes, Sending
  PROVE  Unsent \in Seq(LineUnits) /\ (pos = Client!Length(buf) => Unsent = <<>>)
<1>0. LineLen \in Nat \ {0} /\ MaxLines \in Nat /\ buf \in 0..MaxLines /\ pos \in 0..LineLen
      /\ pos <= Client!Length(buf)
  BY ClientConstants DEF ClientTypes, Sending
<1>1. ASSUME pos = Client!Length(buf) PROVE Unsent = <<>>
  <2>1. Client!Length(buf) - pos = 0
    BY <1>0, <1>1
  <2> QED BY <2>1 DEF Unsent, Client!Units
<1>2. Unsent \in Seq(LineUnits)
  <2>1. CASE buf = 0
    <3>1. pos = Client!Length(buf)
      BY <1>0, <2>1 DEF Client!Length, Client!Nothing
    <3> QED BY <1>1, <3>1
  <2>2. CASE buf # 0
    <3>1. buf \in Lines /\ Client!Length(buf) = LineLen
      BY <1>0, <2>2 DEF Lines, Client!Length, Client!Nothing
    <3>2. LineLen \in 0..LineLen /\ pos <= LineLen
      BY <1>0
    <3> QED BY <1>0, <3>1, <3>2, UnitsOfLine DEF Unsent
  <2> QED BY <2>1, <2>2
<1> QED BY <1>1, <1>2

\* At the beginning nothing was typed or told.
LEMMA ClientInitInv == Client!Init => ClientInv
<1> SUFFICES ASSUME Client!Init PROVE ClientInv
  OBVIOUS
<1>1. /\ typed = 0 /\ stdin = <<>> /\ stdinEof = FALSE /\ stdio = <<>> /\ told = 0 /\ sock = <<>>
      /\ begun = "no" /\ zeros = {} /\ hidden = {} /\ garbled = {} /\ unread = 0
      /\ sockEof = FALSE /\ screen = <<>> /\ sent = <<>> /\ main = "wait" /\ evlist = <<>>
      /\ buf = 0 /\ pos = 0
  BY DEF Client!Init, Client!Nothing
<1>2. ClientTypes
  <2>1. <<>> \in Seq(Lines) /\ <<>> \in Seq(Pieces) /\ <<>> \in Seq(LineUnits)
        /\ <<>> \in Seq({"sock", "stdin"}) /\ Len(<<>>) = 0
    OBVIOUS
  <2>2. 0 < StdioLines /\ 0 \in 0..MaxLines /\ 0 \in 0..MaxPieces /\ 0 \in 0..LineLen
        /\ 0 \in 0..SendRoom
    BY ClientConstants
  <2>3. /\ typed \in 0..MaxLines /\ told \in 0..MaxPieces /\ stdinEof \in BOOLEAN /\ sockEof \in BOOLEAN
        /\ buf \in 0..MaxLines /\ pos \in 0..LineLen
        /\ main \in {"wait", "event", "send", "exited"}
        /\ begun \in {"no", "unread", "taken"} /\ (begun # "no" => typed < MaxLines)
        /\ zeros \subseteq Pieces /\ hidden \subseteq Pieces /\ garbled \subseteq Pieces
        /\ unread \in 0..SendRoom
    BY <1>1, <2>2
  <2>4. /\ stdin \in Seq(Lines) /\ stdio \in Seq(Lines) /\ Len(stdio) < StdioLines
        /\ sock \in Seq(Pieces) /\ screen \in Seq(Pieces) /\ sent \in Seq(LineUnits)
    BY <1>1, <2>1, <2>2
  <2>5. evlist \in Seq({"sock", "stdin"}) /\ Len(evlist) <= 2
    BY <1>1, <2>1
  <2> QED BY <2>3, <2>4, <2>5 DEF ClientTypes
<1>3. Sending /\ pos = Client!Length(buf)
  BY <1>1 DEF Sending, Client!Length, Client!Nothing
<1>4. Count(0) = <<>>
  BY DEF Count
<1>5. <<>> \o <<>> = <<>>
  <2>1. <<>> \in Seq(Lines)
    OBVIOUS
  <2> QED BY <2>1, ConcatEmptySeq
<1>6. Unsent = <<>>
  BY <1>2, <1>3, UnsentIs
<1>7. Unheard = Client!AllUnits(Count(typed))
  BY <1>1, <1>4, <1>5, <1>6, AllUnitsLaws DEF Unheard, Unsent
<1>8. Printing
  BY <1>1 DEF Printing
<1> QED BY <1>1, <1>2, <1>3, <1>4, <1>5, <1>7, <1>8 DEF ClientInv

\* A line that ends, by its newline or by the end of the input.
LEMMA LineKeeps ==
  ASSUME ClientInv, Client!EndLine, typed < MaxLines, stdinEof' \in BOOLEAN,
         UNCHANGED <<Client!host, Client!client>>
  PROVE  ClientInv'
<1>0. /\ ClientTypes /\ Sending /\ Printing /\ Unheard = Client!AllUnits(Count(typed)) /\ screen \o sock = Count(told)
      /\ typed \in Nat /\ told \in Nat /\ stdin \in Seq(Lines) /\ stdio \in Seq(Lines)
      /\ sock \in Seq(Pieces) /\ screen \in Seq(Pieces) /\ sent \in Seq(LineUnits)
  BY DEF ClientInv, ClientTypes
<1> DEFINE line == typed + 1
<1>1. /\ typed' = line /\ stdin' = Append(stdin, line) /\ begun' = "no"
      /\ UNCHANGED <<told, sock, sockEof, zeros, stdio, screen, hidden, garbled, sent, unread, main,
                     evlist, buf, pos>>
  BY DEF Client!EndLine, Client!host, Client!client, Client!output
<1>2. line \in Lines /\ line \in 0..MaxLines
  BY <1>0, <1>1, ClientConstants DEF Lines
<1>3. stdin' = stdin \o <<line>> /\ stdin' \in Seq(Lines) /\ <<line>> \in Seq(Lines)
  <2> HIDE DEF line
  <2> QED BY <1>0, <1>1, <1>2
<1> HIDE DEF line
<1>4. ClientTypes'
  BY <1>0, <1>1, <1>2, <1>3 DEF ClientTypes
<1>5. Sending'
  BY <1>0, <1>1 DEF Sending
<1>6. Unheard' = Unheard \o Client!AllUnits(<<line>>)
  <2> DEFINE a == sent \o Unsent
             b == Client!AllUnits(stdio \o stdin)
             c == Client!AllUnits(<<line>>)
  <2>1. a \in Seq(LineUnits)
    BY <1>0, UnsentIs, ConcatProperties
  <2>2. stdio \o (stdin \o <<line>>) = (stdio \o stdin) \o <<line>>
    BY <1>0, <1>3, ConcatAssociative
  <2>3. stdio \o stdin \in Seq(Lines)
    BY <1>0, AllUnitsLaws
  <2>4. b \in Seq(LineUnits) /\ c \in Seq(LineUnits) /\ Client!AllUnits((stdio \o stdin) \o <<line>>) = b \o c
    BY <1>3, <2>3, AllUnitsLaws
  <2>5. Unheard = a \o b
    BY DEF Unheard, Unsent
  <2>6. Unheard' = a \o Client!AllUnits(stdio \o (stdin \o <<line>>))
    BY <1>1, <1>3 DEF Unheard, Unsent
  <2> HIDE DEF a, b, c
  <2>7. (a \o b) \o c = a \o (b \o c)
    <3>1. a \in Seq(LineUnits) /\ b \in Seq(LineUnits) /\ c \in Seq(LineUnits)
      BY <2>1, <2>4
    <3> QED BY <3>1, ConcatAssociative
  <2>8. Unheard' = Unheard \o c
    BY <2>2, <2>4, <2>5, <2>6, <2>7
  <2> QED BY <2>8 DEF c
<1>7. Client!AllUnits(Count(typed')) = Client!AllUnits(Count(typed)) \o Client!AllUnits(<<line>>)
  <2>1. Count(typed') = Count(typed) \o <<line>>
    <3>1. Count(typed + 1) = Count(typed) \o <<typed + 1>>
      BY <1>0, CountOneMore
    <3> QED BY <1>1, <3>1 DEF line
  <2>2. Count(typed) \in Seq(Lines)
    <3>1. MaxLines \in Nat /\ typed <= MaxLines
      BY <1>0, <1>1, ClientConstants
    <3>2. Count(typed) \in Seq(1..MaxLines)
      BY <1>0, <3>1, CountOneMore
    <3> QED BY <3>2 DEF Lines
  <2>3. Client!AllUnits(Count(typed) \o <<line>>)
          = Client!AllUnits(Count(typed)) \o Client!AllUnits(<<line>>)
    BY <1>3, <2>2, AllUnitsLaws
  <2> QED BY <2>1, <2>3
<1>8. (screen \o sock)' = Count(told')
  BY <1>0, <1>1
<1>9. Unheard' = Client!AllUnits(Count(typed'))
  BY <1>0, <1>6, <1>7
<1>10. Printing'
  BY <1>0, <1>1 DEF Printing
<1> QED BY <1>4, <1>5, <1>8, <1>9, <1>10 DEF ClientInv

\* A piece more, with or without a zero byte.
LEMMA TellKeeps ==
  ASSUME ClientInv, Client!Tell PROVE ClientInv'
<1>0. /\ ClientTypes /\ Sending /\ Printing /\ Unheard = Client!AllUnits(Count(typed)) /\ screen \o sock = Count(told)
      /\ typed \in Nat /\ told \in Nat /\ stdin \in Seq(Lines) /\ stdio \in Seq(Lines)
      /\ sock \in Seq(Pieces) /\ screen \in Seq(Pieces) /\ sent \in Seq(LineUnits)
  BY DEF ClientInv, ClientTypes
<1> DEFINE piece == told + 1
<1>1. /\ told < MaxPieces /\ told' = piece /\ sock' = Append(sock, piece)
      /\ zeros' = zeros \/ zeros' = zeros \cup {piece}
      /\ UNCHANGED <<typed, stdin, stdinEof, begun, sockEof, stdio, screen, hidden, garbled, sent, unread,
                     main, evlist, buf, pos>>
  BY DEF Client!Tell, Client!user, Client!client, Client!output
<1>2. piece \in Pieces /\ piece \in 0..MaxPieces
  BY <1>0, <1>1, ClientConstants DEF Pieces
<1>3. sock' = sock \o <<piece>> /\ sock' \in Seq(Pieces) /\ <<piece>> \in Seq(Pieces)
  <2> HIDE DEF piece
  <2> QED BY <1>0, <1>1, <1>2
<1> HIDE DEF piece
<1>4. ClientTypes'
  BY <1>0, <1>1, <1>2, <1>3 DEF ClientTypes
<1>5. Sending'
  BY <1>0, <1>1 DEF Sending
<1>6. Unheard' = Unheard
  BY <1>1 DEF Unheard
<1>7. screen \o (sock \o <<piece>>) = (screen \o sock) \o <<piece>>
  <2>1. screen \in Seq(Pieces) /\ sock \in Seq(Pieces) /\ <<piece>> \in Seq(Pieces)
    BY <1>0, <1>3
  <2> QED BY <2>1, ConcatAssociative
<1>8. Count(told') = Count(told) \o <<piece>>
  <2>1. Count(told + 1) = Count(told) \o <<told + 1>>
    BY <1>0, CountOneMore
  <2> QED BY <1>1, <2>1 DEF piece
<1>9. screen' \o sock' = Count(told')
  BY <1>0, <1>1, <1>3, <1>7, <1>8
<1>10. Unheard' = Client!AllUnits(Count(typed'))
  BY <1>0, <1>1, <1>6
<1>11. Printing'
  BY <1>0, <1>1 DEF Printing
<1> QED BY <1>4, <1>5, <1>9, <1>10, <1>11 DEF ClientInv

\* The part of a line, the end of the input, and lines: the user's steps.
LEMMA UserKeeps ==
  ASSUME ClientInv, Client!Type \/ Client!Begin \/ Client!CloseInput PROVE ClientInv'
<1>1. CASE Client!Type
  <2>1. Client!EndLine /\ typed < MaxLines /\ stdinEof' = stdinEof /\ UNCHANGED <<Client!host, Client!client>>
    BY <1>1 DEF Client!Type
  <2>2. stdinEof' \in BOOLEAN
    BY <2>1 DEF ClientInv, ClientTypes
  <2> QED BY <2>1, <2>2, LineKeeps
<1>2. CASE Client!CloseInput /\ begun # "no"
  <2>1. Client!EndLine /\ stdinEof' \in BOOLEAN /\ UNCHANGED <<Client!host, Client!client>>
    BY <1>2 DEF Client!CloseInput
  <2>2. typed < MaxLines
    BY <1>2 DEF ClientInv, ClientTypes
  <2> QED BY <2>1, <2>2, LineKeeps
<1>3. CASE Client!Begin \/ (Client!CloseInput /\ begun = "no")
  <2>1. /\ UNCHANGED <<typed, stdin, told, sock, sockEof, zeros, stdio, screen, hidden, garbled, sent,
                       unread, main, evlist, buf, pos>>
        /\ stdinEof' \in BOOLEAN /\ begun' \in {"no", "unread", "taken"}
        /\ begun' # "no" => typed < MaxLines
    BY <1>3 DEF Client!Begin, Client!CloseInput, Client!host, Client!client, Client!output, ClientInv,
                ClientTypes
  <2>2. ClientTypes' /\ Sending' /\ Printing'
    BY <2>1 DEF ClientInv, ClientTypes, Sending, Printing
  <2>3. Unheard' = Client!AllUnits(Count(typed')) /\ screen' \o sock' = Count(told')
    BY <2>1 DEF ClientInv, Unheard
  <2> QED BY <2>2, <2>3 DEF ClientInv
<1> QED BY <1>1, <1>2, <1>3

\* What the host reads or its end, the end of the loop over the events, a failing call.
LEMMA IdleKeeps ==
  ASSUME ClientInv,
         Client!CloseSocket \/ Client!Hear \/ Client!Handled \/ (main # "exited" /\ Client!Fail)
  PROVE  ClientInv'
<1>1. UNCHANGED <<typed, stdin, stdinEof, begun, stdio, told, sock, zeros, screen, hidden, garbled, sent,
                  evlist, buf, pos>>
  BY DEF Client!CloseSocket, Client!Hear, Client!Handled, Client!Fail,
         Client!user, Client!host, Client!client, Client!output
<1>2. /\ sockEof' \in BOOLEAN /\ unread' \in 0..SendRoom
      /\ main' = main \/ main' = "exited" \/ (main = "event" /\ main' = "wait")
  <2>1. unread \in 0..SendRoom /\ SendRoom \in Nat /\ sockEof \in BOOLEAN
    BY ClientConstants DEF ClientInv, ClientTypes
  <2>2. CASE Client!CloseSocket
    BY <2>1, <2>2 DEF Client!CloseSocket, Client!client
  <2>3. CASE Client!Hear
    BY <2>1, <2>3 DEF Client!Hear, Client!host
  <2>4. CASE Client!Handled
    BY <2>1, <2>4 DEF Client!Handled, Client!host
  <2>5. CASE Client!Fail
    BY <2>1, <2>5 DEF Client!Fail, Client!host
  <2> QED BY <2>2, <2>3, <2>4, <2>5
<1>3. ClientTypes' /\ Sending' /\ Printing'
  BY <1>1, <1>2 DEF ClientInv, ClientTypes, Sending, Printing
<1>4. Unheard' = Client!AllUnits(Count(typed')) /\ screen' \o sock' = Count(told')
  BY <1>1 DEF ClientInv, Unheard
<1> QED BY <1>3, <1>4 DEF ClientInv

\* kevent returns the ready descriptors in some order.
LEMMA WaitKeeps ==
  ASSUME ClientInv, Client!Wait PROVE ClientInv'
<1> DEFINE P == {"sock", "stdin"}
           R == Client!Ready
           size == Cardinality(R)
<1>1. /\ main = "wait" /\ main' \in {"event", "exited"}
      /\ UNCHANGED <<typed, stdin, stdinEof, begun, told, sock, sockEof, zeros, stdio, screen, hidden,
                     garbled, sent, unread, buf, pos>>
  BY DEF Client!Wait, Client!user, Client!host, Client!output
<1>2. R \in SUBSET P
  BY DEF Client!Ready
<1>3. IsFiniteSet(R) /\ size \in Nat
  <2>1. IsFiniteSet({"sock"}) /\ {"sock"} \cup {"stdin"} = P
    BY FS_Singleton
  <2>2. IsFiniteSet(P)
    BY <2>1, FS_AddElement
  <2> HIDE DEF P, R
  <2>3. IsFiniteSet(R)
    BY <1>2, <2>2, FS_Subset
  <2> QED BY <2>3, FS_CardinalityType
<1>4. evlist' \in [1..size -> R] /\ \A n, m \in 1..size : n # m => evlist'[n] # evlist'[m]
  <2>1. Client!Cardinality(R) = size
    BY DEF Client!Cardinality, Cardinality
  <2>2. evlist' \in Client!SetToSeqs(R)
    BY DEF Client!Wait
  <2> HIDE DEF R, size
  <2> QED BY <2>1, <2>2 DEF Client!SetToSeqs
<1> HIDE DEF R, size
<1>5. size <= 2
  <2> SUFFICES ASSUME ~(size <= 2) PROVE FALSE
    OBVIOUS
  <2>1. 1 \in 1..size /\ 2 \in 1..size /\ 3 \in 1..size
    BY <1>3
  <2>2. evlist'[1] \in P /\ evlist'[2] \in P /\ evlist'[3] \in P
    BY <1>2, <1>4, <2>1
  <2>3. evlist'[1] # evlist'[2] /\ evlist'[1] # evlist'[3] /\ evlist'[2] # evlist'[3]
    BY <1>4, <2>1
  <2> QED BY <2>2, <2>3
<1>6. evlist' \in Seq(P) /\ Len(evlist') <= 2
  <2> HIDE DEF P
  <2>1. evlist' \in [1..size -> P]
    BY <1>2, <1>4
  <2> QED BY <1>3, <1>5, <2>1
<1>7. ClientTypes' /\ Sending' /\ Printing'
  BY <1>1, <1>6 DEF ClientInv, ClientTypes, Sending, Printing
<1>8. Unheard' = Client!AllUnits(Count(typed')) /\ screen' \o sock' = Count(told')
  BY <1>1 DEF ClientInv, Unheard
<1> QED BY <1>7, <1>8 DEF ClientInv

\* The rest of the events.
LEMMA EventsLeft ==
  ASSUME ClientInv, evlist # <<>>
  PROVE  Tail(evlist) \in Seq({"sock", "stdin"}) /\ Len(Tail(evlist)) <= 2
<1> DEFINE P == {"sock", "stdin"}
<1>1. evlist \in Seq(P) /\ Len(evlist) <= 2
  BY DEF ClientInv, ClientTypes
<1> HIDE DEF P
<1>2. Tail(evlist) \in Seq(P)
  BY <1>1
<1>3. Len(Tail(evlist)) = Len(evlist) - 1
  BY <1>1
<1> QED BY <1>1, <1>2, <1>3 DEF P

\* Cutting a sequence in two loses nothing.
LEMMA CutInTwo ==
  ASSUME NEW S, NEW s \in Seq(S), NEW n \in 0..Len(s)
  PROVE  /\ SubSeq(s, 1, n) \in Seq(S) /\ Len(SubSeq(s, 1, n)) = n
         /\ SubSeq(s, n + 1, Len(s)) \in Seq(S) /\ Len(SubSeq(s, n + 1, Len(s))) = Len(s) - n
         /\ SubSeq(s, 1, n) \o SubSeq(s, n + 1, Len(s)) = s
<1>1. /\ SubSeq(s, 1, n) \in Seq(S) /\ Len(SubSeq(s, 1, n)) = n
      /\ SubSeq(s, n + 1, Len(s)) \in Seq(S)
  OBVIOUS
<1>5. Len(SubSeq(s, n + 1, Len(s))) = Len(s) - n
  OBVIOUS
<1>2. 1 \in 1..(Len(s) + 1) /\ n \in (1 - 1)..Len(s) /\ Len(s) \in n..Len(s)
  OBVIOUS
<1>3. SubSeq(s, 1, n) \o SubSeq(s, n + 1, Len(s)) = SubSeq(s, 1, Len(s))
  BY <1>2, ConcatAdjacentSubSeq
<1>4. SubSeq(s, 1, Len(s)) = s
  BY SubSeqFull
<1> QED BY <1>1, <1>3, <1>4, <1>5

\* A read returns the pieces whose numbers follow those of the ones read before.
LEMMA ReadIs ==
  ASSUME ClientInv, NEW n \in 0..Len(sock)
  PROVE  /\ Len(screen) \in Nat
         /\ \A k \in 1..n : SubSeq(sock, 1, n)[k] = Len(screen) + k
<1>1. /\ screen \in Seq(Pieces) /\ sock \in Seq(Pieces) /\ told \in Nat /\ screen \o sock = Count(told)
      /\ Len(screen) \in Nat /\ Len(sock) \in Nat
  BY ClientConstants DEF ClientInv, ClientTypes
<1>2. Len(screen \o sock) = Len(screen) + Len(sock)
  BY <1>1, ConcatProperties
<1>3. Len(Count(told)) = told
  BY <1>1 DEF Count
<1>4. told = Len(screen) + Len(sock)
  BY <1>1, <1>2, <1>3
<1>5. ASSUME NEW k \in 1..n PROVE SubSeq(sock, 1, n)[k] = Len(screen) + k
  <2>1. k \in 1..Len(sock) /\ SubSeq(sock, 1, n)[k] = sock[k]
    BY <1>1
  <2>2. (screen \o sock)[Len(screen) + k] = sock[k]
    BY <1>1, <2>1
  <2>3. Len(screen) + k \in 1..told
    BY <1>1, <1>4, <2>1
  <2>4. Count(told)[Len(screen) + k] = Len(screen) + k
    BY <2>3 DEF Count
  <2> QED BY <1>1, <2>1, <2>2, <2>4
<1> QED BY <1>1, <1>5

\* What fputs leaves out follows a zero byte of the same read, and what it adds
\* follows a read that filled buf.
LEMMA PutPrints ==
  ASSUME ClientInv, NEW n \in 0..Len(sock), n <= ReadPieces, Client!Put(SubSeq(sock, 1, n)), zeros' = zeros
  PROVE  Printing' /\ hidden' \subseteq Pieces /\ garbled' \subseteq Pieces
<1> DEFINE read == SubSeq(sock, 1, n)
           l == Len(screen)
<1>1. /\ read \in Seq(Pieces) /\ Len(read) = n /\ l \in Nat /\ n \in Nat /\ ReadPieces \in Nat \ {0}
      /\ \A k \in 1..n : read[k] = l + k
  BY ReadIs, CutInTwo, ClientConstants DEF ClientInv, ClientTypes
<1>2. /\ screen \in Seq(Pieces) /\ zeros \subseteq Pieces /\ hidden \subseteq Pieces /\ garbled \subseteq Pieces
      /\ Pieces \subseteq Nat /\ Printing
  BY DEF ClientInv, ClientTypes, Pieces
<1>3. /\ screen' = screen \o read
      /\ hidden' = hidden \cup {p \in Client!ToSet(read) : \E z \in zeros \cap Client!ToSet(read) : z <= p}
      /\ garbled' = garbled \/ (Len(read) = ReadPieces /\ garbled' = garbled \cup {read[ReadPieces]})
  BY DEF Client!Put
<1>4. \A p \in Client!ToSet(read) : p \in Pieces /\ \E k \in 1..n : p = l + k
  <2>1. Client!ToSet(read) = {read[k] : k \in 1..n}
    <3> HIDE DEF read
    <3> QED BY <1>1 DEF Client!ToSet
  <2> HIDE DEF read, l
  <2>2. \A k \in 1..n : read[k] \in Pieces /\ read[k] = l + k
    BY <1>1
  <2> QED BY <2>1, <2>2
<1> HIDE DEF read, l
<1>5. Len(screen') = l + n
  BY <1>1, <1>2, <1>3, ConcatProperties DEF l
<1>6. hidden' \subseteq Pieces
  BY <1>2, <1>3, <1>4
<1>7. ASSUME NEW p \in hidden' PROVE \E z \in zeros' : z <= p /\ p < z + ReadPieces
  <2>1. CASE p \in hidden
    BY <1>2, <2>1 DEF Printing
  <2>2. CASE p \notin hidden
    <3>1. PICK z \in zeros \cap Client!ToSet(read) : z <= p
      BY <1>3, <2>2
    <3>2. PICK k \in 1..n : p = l + k
      BY <1>3, <1>4, <2>2
    <3>3. PICK m \in 1..n : z = l + m
      BY <1>4
    <3>4. p < z + ReadPieces
      BY <1>1, <3>2, <3>3
    <3> QED BY <3>1, <3>4
  <2> QED BY <2>1, <2>2
<1>8. CASE garbled' = garbled
  <2>1. \A p \in garbled : p <= Len(screen')
    <3>1. \A p \in garbled : p <= l /\ p \in Nat
      BY <1>2 DEF Printing, l
    <3> QED BY <1>1, <1>5, <3>1
  <2> QED BY <1>2, <1>6, <1>7, <1>8, <2>1 DEF Printing
<1>9. CASE Len(read) = ReadPieces /\ garbled' = garbled \cup {read[ReadPieces]}
  <2> DEFINE new == read[ReadPieces]
  <2>1. n = ReadPieces /\ new = l + n /\ new \in Pieces
    <3>1. n = ReadPieces /\ n \in 1..n
      BY <1>1, <1>9
    <3> QED BY <1>1, <3>1
  <2> HIDE DEF new
  <2>2. \A p \in garbled : p <= l /\ p \in Nat
    BY <1>2 DEF Printing, l
  <2>3. garbled' = garbled \cup {new} /\ garbled' \subseteq Pieces
    BY <1>2, <1>9, <2>1 DEF new
  <2>4. ASSUME NEW p \in garbled'
        PROVE  /\ p >= ReadPieces /\ p <= Len(screen')
               /\ \A q \in garbled' : q < p => q <= p - ReadPieces
    <3>1. CASE p = new
      <4>1. \A q \in garbled' : q < p => q \in garbled
        BY <1>1, <2>1, <2>3, <3>1
      <4>2. p >= ReadPieces /\ p <= Len(screen')
        BY <1>1, <1>5, <2>1, <3>1
      <4>3. p - ReadPieces = l
        BY <1>1, <2>1, <3>1
      <4> QED BY <2>2, <4>1, <4>2, <4>3
    <3>2. CASE p \in garbled
      <4>1. p <= l /\ p \in Nat /\ l < new /\ l + n \in Nat
        BY <1>1, <2>1, <2>2, <3>2
      <4>2. \A q \in garbled' : q < p => q \in garbled
        BY <1>1, <2>1, <2>3, <4>1
      <4>3. p >= ReadPieces /\ \A q \in garbled : q < p => q <= p - ReadPieces
        BY <1>2, <3>2 DEF Printing
      <4>4. p <= Len(screen')
        BY <1>1, <1>5, <4>1
      <4> QED BY <4>2, <4>3, <4>4
    <3> QED BY <2>3, <3>1, <3>2
  <2> QED BY <1>6, <1>7, <2>3, <2>4 DEF Printing
<1> QED BY <1>3, <1>8, <1>9

\* What the host says goes from the socket to the screen.
LEMMA SocketKeeps ==
  ASSUME ClientInv, Client!Socket PROVE ClientInv'
<1>1. /\ evlist # <<>> /\ evlist' = Tail(evlist)
      /\ UNCHANGED <<typed, stdin, stdinEof, begun, told, sockEof, zeros, stdio, sent, unread, main, buf,
                     pos>>
  BY DEF Client!Socket, Client!user
<1>2. PICK n \in 0..Client!Least(ReadPieces, Len(sock)) :
        /\ Client!Put(SubSeq(sock, 1, n))
        /\ sock' = SubSeq(sock, n + 1, Len(sock))
  BY DEF Client!Socket
<1>3. /\ screen \in Seq(Pieces) /\ sock \in Seq(Pieces) /\ Len(sock) \in Nat
      /\ n \in 0..Len(sock) /\ n <= ReadPieces
  BY ClientConstants DEF ClientInv, ClientTypes, Client!Least
<1> DEFINE read == SubSeq(sock, 1, n)
           rest == SubSeq(sock, n + 1, Len(sock))
<1>4. read \in Seq(Pieces) /\ rest \in Seq(Pieces) /\ read \o rest = sock
  BY <1>3, CutInTwo
<1> HIDE DEF read, rest
<1>5. screen' = screen \o read /\ sock' = rest
  BY <1>2 DEF read, rest, Client!Put
<1>6. screen' \in Seq(Pieces) /\ sock' \in Seq(Pieces)
  BY <1>3, <1>4, <1>5, ConcatProperties
<1>7. (screen \o read) \o rest = screen \o (read \o rest)
  <2>1. screen \in Seq(Pieces) /\ read \in Seq(Pieces) /\ rest \in Seq(Pieces)
    BY <1>3, <1>4
  <2> QED BY <2>1, ConcatAssociative
<1>8. screen' \o sock' = Count(told')
  BY <1>1, <1>4, <1>5, <1>7 DEF ClientInv
<1>9. Printing' /\ hidden' \subseteq Pieces /\ garbled' \subseteq Pieces
  BY <1>1, <1>2, <1>3, PutPrints
<1>10. ClientTypes' /\ Sending'
  BY <1>1, <1>6, <1>9, EventsLeft DEF ClientInv, ClientTypes, Sending
<1>11. Unheard' = Client!AllUnits(Count(typed'))
  BY <1>1 DEF ClientInv, Unheard
<1> QED BY <1>8, <1>9, <1>10, <1>11 DEF ClientInv

\* Whether fgets reads ahead or not, the line it returns is the first of those not
\* yet passed on, and the others stay in order.
LEMMA FgetsLines ==
  ASSUME ClientInv, Client!Fgets
  PROVE  /\ stdio' \in Seq(Lines) /\ stdin' \in Seq(Lines) /\ Len(stdio') < StdioLines
         /\ \/ buf' = 0 /\ stdio \o stdin = stdio' \o stdin'
            \/ buf' \in Lines /\ stdio \o stdin = <<buf'>> \o (stdio' \o stdin')
<1> DEFINE ahead == Client!Least(StdioLines, Len(stdin))
           read == SubSeq(stdin, 1, ahead)
           rest == SubSeq(stdin, ahead + 1, Len(stdin))
           lines == IF stdio # <<>> THEN stdio ELSE read
<1>1. /\ buf' = IF lines = <<>> THEN 0 ELSE Head(lines)
      /\ stdio' = SubSeq(lines, 2, Len(lines))
      /\ stdin' = IF stdio # <<>> THEN stdin ELSE rest
  BY DEF Client!Fgets, Client!Nothing
<1>2. /\ stdio \in Seq(Lines) /\ stdin \in Seq(Lines) /\ Len(stdio) < StdioLines /\ Len(stdio) \in Nat
      /\ StdioLines \in Nat \ {0} /\ Len(stdin) \in Nat
  BY ClientConstants DEF ClientInv, ClientTypes
<1>3. ahead \in 0..Len(stdin) /\ ahead <= StdioLines
  BY <1>2 DEF Client!Least
<1>4. /\ read \in Seq(Lines) /\ rest \in Seq(Lines) /\ Len(read) = ahead /\ read \o rest = stdin
  <2> HIDE DEF ahead
  <2> QED BY <1>2, <1>3, CutInTwo
<1> HIDE DEF read, rest, ahead
<1>5. /\ lines \in Seq(Lines) /\ Len(lines) <= StdioLines /\ stdin' \in Seq(Lines)
      /\ stdio \o stdin = lines \o stdin'
  <2>1. CASE stdio # <<>>
    BY <1>1, <1>2, <2>1
  <2>2. CASE stdio = <<>>
    <3>1. <<>> \o stdin = stdin
      BY <1>2, ConcatEmptySeq
    <3> QED BY <1>1, <1>3, <1>4, <2>2, <3>1
  <2> QED BY <2>1, <2>2
<1> HIDE DEF lines
<1>6. CASE lines = <<>>
  <2>1. stdio' = <<>> /\ Len(stdio') = 0 /\ stdio' \in Seq(Lines)
    BY <1>1, <1>5, <1>6
  <2> QED BY <1>1, <1>2, <1>5, <1>6, <2>1
<1>7. CASE lines # <<>>
  <2>1. 1 \in 0..Len(lines) /\ SubSeq(lines, 1, 1) = <<Head(lines)>> /\ Head(lines) \in Lines
    <3>1. 1 \in 1..Len(lines) /\ Head(lines) = lines[1] /\ lines[1] \in Lines
      BY <1>5, <1>7
    <3>2. SubSeq(lines, 1, 1) = <<lines[1]>>
      <4>1. SubSeq(lines, 2, 1) = <<>> /\ 1 + 1 = 2
        BY SubSeqEmpty
      <4>2. SubSeq(lines, 1, 1) = <<lines[1]>> \o SubSeq(lines, 1 + 1, 1)
        BY <1>5, <3>1, SubSeqRecursiveFirst
      <4>3. <<lines[1]>> \in Seq(Lines)
        BY <3>1
      <4>4. <<lines[1]>> \o <<>> = <<lines[1]>>
        BY <4>3, ConcatEmptySeq
      <4> QED BY <4>1, <4>2, <4>4
    <3> QED BY <3>1, <3>2
  <2>2. /\ SubSeq(lines, 1 + 1, Len(lines)) \in Seq(Lines)
        /\ SubSeq(lines, 1, 1) \o SubSeq(lines, 1 + 1, Len(lines)) = lines
    BY <1>5, <2>1, CutInTwo
  <2>3. stdio' \in Seq(Lines) /\ <<Head(lines)>> \o stdio' = lines
    BY <1>1, <2>1, <2>2
  <2>4. Len(stdio') = Len(lines) - 1 /\ Len(lines) \in Nat
    <3>1. lines \in Seq(Lines) /\ Len(lines) \in Nat /\ Len(lines) # 0
      BY <1>5, <1>7
    <3>2. 1 \in 0..Len(lines) /\ 1 + 1 = 2
      BY <3>1
    <3>3. Len(SubSeq(lines, 1 + 1, Len(lines))) = Len(lines) - 1
      BY <3>1, <3>2, CutInTwo
    <3> QED BY <1>1, <3>1, <3>2, <3>3
  <2>5. <<Head(lines)>> \in Seq(Lines) /\ buf' = Head(lines)
    BY <1>1, <1>7, <2>1
  <2>6. (<<Head(lines)>> \o stdio') \o stdin' = <<Head(lines)>> \o (stdio' \o stdin')
    BY <1>5, <2>3, <2>5, ConcatAssociative
  <2>7. Len(stdio') < StdioLines
    BY <1>2, <1>5, <2>4
  <2> QED BY <1>5, <2>1, <2>3, <2>5, <2>6, <2>7
<1> QED BY <1>6, <1>7

\* The line that fgets returns is now what is to be sent.
LEMMA FgetsKeeps ==
  ASSUME ClientInv, Client!Fgets PROVE ClientInv'
<1>1. /\ main = "event" /\ main' = "send" /\ pos' = 0 /\ evlist # <<>> /\ evlist' = Tail(evlist)
      /\ UNCHANGED <<typed, stdinEof, told, sock, sockEof, zeros, screen, hidden, garbled, sent, unread>>
  BY DEF Client!Fgets, Client!host, Client!output
<1>2. /\ ClientTypes /\ Sending /\ buf = 0 /\ pos \in Nat /\ pos <= Client!Length(buf)
      /\ stdio \in Seq(Lines) /\ stdin \in Seq(Lines) /\ sent \in Seq(LineUnits)
  BY <1>1 DEF ClientInv, ClientTypes, Sending, Client!Nothing
<1>3. /\ stdio' \in Seq(Lines) /\ stdin' \in Seq(Lines) /\ Len(stdio') < StdioLines
      /\ \/ buf' = 0 /\ stdio \o stdin = stdio' \o stdin'
         \/ buf' \in Lines /\ stdio \o stdin = <<buf'>> \o (stdio' \o stdin')
  BY FgetsLines
<1>4. buf' \in 0..MaxLines /\ LineLen \in Nat \ {0}
  BY <1>3, ClientConstants DEF Lines
<1>5. begun' = begun \/ (begun = "unread" /\ begun' = "taken")
  BY DEF Client!Fgets
<1>6. begun' \in {"no", "unread", "taken"} /\ (begun' # "no" => typed < MaxLines)
  BY <1>2, <1>5 DEF ClientTypes
<1>7. ClientTypes'
  <2>1. evlist' \in Seq({"sock", "stdin"}) /\ Len(evlist') <= 2
    BY <1>1, EventsLeft
  <2>2. /\ typed' \in 0..MaxLines /\ told' \in 0..MaxPieces /\ sock' \in Seq(Pieces) /\ screen' \in Seq(Pieces)
        /\ stdinEof' \in BOOLEAN /\ sockEof' \in BOOLEAN /\ sent' \in Seq(LineUnits)
        /\ unread' \in 0..SendRoom /\ zeros' \subseteq Pieces /\ hidden' \subseteq Pieces
        /\ garbled' \subseteq Pieces
    BY <1>1, <1>2 DEF ClientTypes
  <2>3. main' \in {"wait", "event", "send", "exited"} /\ pos' \in 0..LineLen /\ typed' = typed
    BY <1>1, <1>4
  <2> QED BY <1>3, <1>4, <1>6, <2>1, <2>2, <2>3 DEF ClientTypes
<1>8. Sending' /\ Printing'
  BY <1>1, <1>4 DEF ClientInv, Sending, Printing, Client!Length
<1> DEFINE b == Client!AllUnits(stdio' \o stdin')
           whole == Client!AllUnits(stdio \o stdin)
<1>9. stdio' \o stdin' \in Seq(Lines) /\ b \in Seq(LineUnits)
  BY <1>3, AllUnitsLaws
<1>10. Unsent' \in Seq(LineUnits) /\ Unsent' \o b = whole
  <2>1. CASE buf' = 0 /\ stdio \o stdin = stdio' \o stdin'
    <3>1. Client!Length(buf') - 0 = 0
      BY <2>1 DEF Client!Length, Client!Nothing
    <3>2. Unsent' = <<>>
      BY <1>1, <3>1 DEF Unsent, Client!Units
    <3> QED BY <1>9, <2>1, <3>2, ConcatEmptySeq
  <2>2. CASE buf' \in Lines /\ stdio \o stdin = <<buf'>> \o (stdio' \o stdin')
    <3>1. Client!Length(buf') = LineLen
      BY <2>2, ClientConstants DEF Lines, Client!Length, Client!Nothing
    <3>2. Unsent' = Client!AllUnits(<<buf'>>)
      BY <1>1, <2>2, <3>1, AllUnitsLaws DEF Unsent
    <3>3. <<buf'>> \in Seq(Lines)
      BY <2>2
    <3>4. Client!AllUnits(<<buf'>>) \in Seq(LineUnits)
          /\ Client!AllUnits(<<buf'>> \o (stdio' \o stdin')) = Client!AllUnits(<<buf'>>) \o b
      BY <1>9, <3>3, AllUnitsLaws
    <3> QED BY <2>2, <3>2, <3>4
  <2> QED BY <1>3, <2>1, <2>2
<1>11. Unheard = sent \o whole
  <2>1. pos = Client!Length(buf)
    BY <1>2 DEF Client!Length, Client!Nothing
  <2>2. Unsent = <<>>
    BY <1>2, <2>1, UnsentIs
  <2>3. sent \o <<>> = sent
    BY <1>2, ConcatEmptySeq
  <2> QED BY <2>2, <2>3 DEF Unheard, Unsent
<1>12. Unheard' = (sent \o Unsent') \o b
  BY <1>1 DEF Unheard, Unsent
<1> HIDE DEF b, whole
<1>13. (sent \o Unsent') \o b = sent \o (Unsent' \o b)
  <2> DEFINE u == Unsent'
  <2>1. u \in Seq(LineUnits) /\ b \in Seq(LineUnits) /\ sent \in Seq(LineUnits)
    BY <1>2, <1>9, <1>10
  <2> HIDE DEF u
  <2>2. (sent \o u) \o b = sent \o (u \o b)
    BY <2>1, ConcatAssociative
  <2> QED BY <2>2 DEF u
<1>14. Unheard' = Client!AllUnits(Count(typed')) /\ screen' \o sock' = Count(told')
  BY <1>1, <1>10, <1>11, <1>12, <1>13 DEF ClientInv
<1> QED BY <1>7, <1>8, <1>14 DEF ClientInv

\* A part of the line, or the end of sendbuftosck.
LEMMA SendKeeps ==
  ASSUME ClientInv, Client!Send PROVE ClientInv'
<1>1. /\ main = "send"
      /\ UNCHANGED <<typed, stdin, stdinEof, begun, told, sock, sockEof, zeros, stdio, screen, hidden,
                     garbled, evlist>>
  BY DEF Client!Send, Client!user, Client!host, Client!output
<1>2. PICK n \in 0..(Client!Length(buf) - pos) :
        /\ n = 0 => pos = Client!Length(buf)
        /\ n <= SendRoom - unread /\ unread' = unread + n
        /\ sent' = sent \o Client!Units(buf, pos, pos + n)
        /\ IF n > 0
           THEN pos' = pos + n /\ UNCHANGED <<buf, main>>
           ELSE pos' = 0 /\ buf' = 0 /\ main' = "event"
  BY DEF Client!Send, Client!Taken, Client!Nothing
<1>3. /\ ClientTypes /\ Sending /\ buf \in 0..MaxLines /\ pos \in 0..LineLen /\ pos <= Client!Length(buf)
      /\ stdio \in Seq(Lines) /\ stdin \in Seq(Lines) /\ sent \in Seq(LineUnits)
      /\ LineLen \in Nat \ {0} /\ MaxLines \in Nat
  BY ClientConstants DEF ClientInv, ClientTypes, Sending
<1>4. unread' \in 0..SendRoom /\ Printing'
  <2>1. unread \in 0..SendRoom /\ SendRoom \in Nat /\ n \in Nat
    BY <1>2, <1>3, ClientConstants DEF ClientTypes, Client!Length
  <2>2. Printing'
    BY <1>1 DEF ClientInv, Printing
  <2> QED BY <1>2, <2>1, <2>2
<1> DEFINE b == Client!AllUnits(stdio \o stdin)
<1>5. Unheard = (sent \o Unsent) \o b /\ Unheard' = (sent' \o Unsent') \o b
  BY <1>1 DEF Unheard, Unsent
<1> HIDE DEF b
<1>6. CASE n = 0
  <2>1. pos' = 0 /\ buf' = 0 /\ main' = "event" /\ pos = Client!Length(buf)
    BY <1>2, <1>6
  <2>2. Client!Units(buf, pos, pos + n) = <<>>
    <3>1. (pos + n) - pos = 0
      BY <1>3, <1>6
    <3> QED BY <3>1 DEF Client!Units
  <2>3. sent' = sent
    BY <1>2, <1>3, <2>2, ConcatEmptySeq
  <2>4. Unsent = <<>>
    BY <1>3, <2>1, UnsentIs
  <2>5. Unsent' = <<>>
    <3>1. Client!Length(buf') - pos' = 0
      BY <2>1 DEF Client!Length, Client!Nothing
    <3> QED BY <3>1 DEF Unsent, Client!Units
  <2>6. Unheard' = Unheard
    BY <1>5, <2>3, <2>4, <2>5
  <2>7. ClientTypes'
    BY <1>1, <1>3, <1>4, <2>1, <2>3 DEF ClientTypes
  <2>8. Sending'
    BY <2>1 DEF Sending, Client!Length, Client!Nothing
  <2> QED BY <1>1, <1>4, <2>6, <2>7, <2>8 DEF ClientInv
<1>7. CASE n # 0
  <2>1. /\ n \in Nat /\ n > 0 /\ buf \in Lines /\ Client!Length(buf) = LineLen
        /\ pos + n \in 0..LineLen /\ pos <= pos + n
    <3>1. n \in Nat /\ n > 0 /\ Client!Length(buf) # 0
      BY <1>2, <1>3, <1>7 DEF Client!Length
    <3>2. buf # 0
      BY <3>1 DEF Client!Length, Client!Nothing
    <3>3. buf \in Lines /\ Client!Length(buf) = LineLen
      BY <1>3, <3>2 DEF Lines, Client!Length, Client!Nothing
    <3> QED BY <1>2, <1>3, <3>1, <3>3
  <2>2. pos' = pos + n /\ buf' = buf /\ main' = main
    BY <1>2, <2>1
  <2> DEFINE part == Client!Units(buf, pos, pos + n)
             rest == Client!Units(buf, pos + n, LineLen)
  <2>3. part \in Seq(LineUnits) /\ rest \in Seq(LineUnits) /\ Unsent = part \o rest
    <3>1. Unsent = Client!Units(buf, pos, LineLen)
      BY <2>1 DEF Unsent
    <3>2. LineLen \in 0..LineLen /\ pos + n <= LineLen
      BY <1>3, <2>1
    <3>3. part \in Seq(LineUnits)
      BY <1>3, <2>1, UnitsOfLine
    <3>4. rest \in Seq(LineUnits)
      BY <2>1, <3>2, UnitsOfLine
    <3>5. Client!Units(buf, pos, LineLen) = part \o rest
      BY <1>3, <2>1, UnitsOfLine
    <3> QED BY <3>1, <3>3, <3>4, <3>5
  <2>4. Unsent' = rest
    BY <2>1, <2>2 DEF Unsent
  <2>5. sent' = sent \o part
    BY <1>2
  <2> HIDE DEF part, rest
  <2>6. sent' \in Seq(LineUnits)
    BY <1>3, <2>3, <2>5, ConcatProperties
  <2>7. (sent \o part) \o rest = sent \o (part \o rest)
    <3>1. sent \in Seq(LineUnits) /\ part \in Seq(LineUnits) /\ rest \in Seq(LineUnits)
      BY <1>3, <2>3
    <3> QED BY <3>1, ConcatAssociative
  <2>8. Unheard' = Unheard
    BY <1>5, <2>3, <2>4, <2>5, <2>7
  <2>9. ClientTypes'
    BY <1>1, <1>3, <1>4, <2>1, <2>2, <2>6 DEF ClientTypes
  <2>10. Sending'
    BY <1>1, <1>3, <2>1, <2>2 DEF Sending
  <2> QED BY <1>1, <1>4, <2>8, <2>9, <2>10 DEF ClientInv
<1> QED BY <1>6, <1>7

\* For any length of lines, however much stdio reads ahead, a read returns and a
\* send takes: nothing is lost, passed twice or reordered between the user and the
\* host (kqclient.c:76-88), but that fputs leaves out what follows a zero byte in a
\* read, and that after a read that filled buf it goes on with what follows buf.
THEOREM KeepsOrder == Client!Spec => []InOrder
<1>1. Client!Init => ClientInv
  BY ClientInitInv
<1>2. ClientInv /\ [Client!Next]_(Client!vars) => ClientInv'
  <2>1. ASSUME ClientInv, Client!Next PROVE ClientInv'
    BY <2>1, IdleKeeps, UserKeeps, TellKeeps, WaitKeeps, SocketKeeps, FgetsKeeps, SendKeeps
       DEF Client!Next, Client!Client
  <2>2. ASSUME ClientInv, UNCHANGED Client!vars PROVE ClientInv'
    <3>1. UNCHANGED <<typed, stdin, stdinEof, begun, stdio, told, sock, sockEof, zeros, screen, hidden,
                      garbled, sent, unread, main, evlist, buf, pos>>
      BY <2>2 DEF Client!vars
    <3> QED BY <2>2, <3>1 DEF ClientInv, ClientTypes, Sending, Printing, Unheard
  <2> QED BY <2>1, <2>2
<1>3. ClientInv => InOrder
  <2> SUFFICES ASSUME ClientInv PROVE InOrder
    OBVIOUS
  <2>1. Client!TypeOK
    BY DEF ClientInv, ClientTypes, Client!TypeOK, Lines, Pieces, LineUnits
  <2>2. Client!PiecesInOrder
    BY DEF ClientInv, Printing, Client!PiecesInOrder, Count
  <2>3. Client!LinesInOrder
    <3> DEFINE a == sent \o Unsent
               f == Client!AllUnits(stdio)
               g == Client!AllUnits(stdin)
    <3>1. /\ stdio \in Seq(Lines) /\ stdin \in Seq(Lines) /\ a \in Seq(LineUnits)
      BY UnsentIs, ConcatProperties DEF ClientInv, ClientTypes
    <3>2. f \in Seq(LineUnits) /\ g \in Seq(LineUnits) /\ Client!AllUnits(stdio \o stdin) = f \o g
      BY <3>1, AllUnitsLaws
    <3>3. Unheard = a \o (f \o g)
      BY <3>2 DEF Unheard, Unsent
    <3>4. (a \o f) \o g = Client!AllUnits(Count(typed)) => Client!LinesInOrder
      BY DEF Client!LinesInOrder, Unsent, Count
    <3> HIDE DEF a, f, g
    <3>5. (a \o f) \o g = a \o (f \o g)
      BY <3>1, <3>2, ConcatAssociative
    <3> QED BY <3>3, <3>4, <3>5 DEF ClientInv
  <2> QED BY <2>1, <2>2, <2>3 DEF InOrder, Client!InOrder
<1> QED BY <1>1, <1>2, <1>3, PTL DEF Client!Spec

-----------------------------------------------------------------------------
(* pthreads/matrixmul/matrixmul.c, as MatrixMulProofs proves it. *)

MulProofs == INSTANCE MatrixMulProofs WITH
  main <- multiplier, blocks <- allocated, v <- pairs, printed <- product, pc <- cellstep, local <- mulvect

\* The two instances are the same program.
LEMMA SameMatrix ==
  /\ MulProofs!InputsAssumption
  /\ Matrix!Spec => MulProofs!Spec
<1>1. MulProofs!InputsAssumption
  BY ProgramsAssumption DEF Matrix!Below, MulProofs!Below, Matrix!IsMatrix,
         MulProofs!IsMatrix, Matrix!InputsAssumption,
         MulProofs!InputsAssumption
<1>2. Matrix!Init => MulProofs!Init
  BY Zenon DEF Matrix!Below, MulProofs!Below, Matrix!Mats, MulProofs!Mats, Matrix!Objects,
         MulProofs!Objects, Matrix!Rows, MulProofs!Rows, Matrix!Cols, MulProofs!Cols,
         Matrix!Threads, MulProofs!Threads, Matrix!NoThread, MulProofs!NoThread,
         Matrix!Empty, MulProofs!Empty, Matrix!FreshLocal, MulProofs!FreshLocal,
         Matrix!Init, MulProofs!Init
<1>3. [Matrix!Next]_(Matrix!vars) => [MulProofs!Next]_(MulProofs!vars)
  BY Zenon DEF Matrix!Below, MulProofs!Below, Matrix!vars, MulProofs!vars, Matrix!Mats,
         MulProofs!Mats, Matrix!Objects, MulProofs!Objects, Matrix!Rows, MulProofs!Rows,
         Matrix!Cols, MulProofs!Cols, Matrix!Inner, MulProofs!Inner, Matrix!Threads,
         MulProofs!Threads, Matrix!RowsOf, MulProofs!RowsOf, Matrix!Size, MulProofs!Size,
         Matrix!threads, MulProofs!threads, Matrix!Then, MulProofs!Then, Matrix!Alloc,
         MulProofs!Alloc, Matrix!LocalDepth, MulProofs!LocalDepth, Matrix!FreedAt,
         MulProofs!FreedAt, Matrix!AllocFails, MulProofs!AllocFails, Matrix!OpenFails,
         MulProofs!OpenFails, Matrix!Check, MulProofs!Check, Matrix!Slot, MulProofs!Slot,
         Matrix!CreateThread, MulProofs!CreateThread, Matrix!Join, MulProofs!Join,
         Matrix!MatrixPrint, MulProofs!MatrixPrint, Matrix!FreedByMain,
         MulProofs!FreedByMain, Matrix!Cleanup, MulProofs!Cleanup, Matrix!Return,
         MulProofs!Return, Matrix!Main, MulProofs!Main, Matrix!Step, MulProofs!Step,
         Matrix!SlotOf, MulProofs!SlotOf, Matrix!Word, MulProofs!Word, Matrix!FetchRow, MulProofs!FetchRow,
         Matrix!FetchCol, MulProofs!FetchCol, Matrix!Zero, MulProofs!Zero, Matrix!Load,
         MulProofs!Load, Matrix!Store, MulProofs!Store, Matrix!Exit, MulProofs!Exit,
         Matrix!Thread, MulProofs!Thread, Matrix!Next, MulProofs!Next
<1> QED BY <1>1, <1>2, <1>3, PTL DEF Matrix!Spec, MulProofs!Spec

\* Nothing leaks, nothing is freed twice, and nothing is freed under a thread but
\* when pthread_create has failed (matrixmul.c:102-129), where each cell of the
\* product has a slot of its own.
THEOREM MatrixStaysSafe ==
  ASSUME MulProofs!OwnSlots
  PROVE  Matrix!Spec => []MemorySafe
<1>1. MulProofs!Spec => []MulProofs!MemorySafe
  BY SameMatrix, MulProofs!StaysSafe
<1>2. MulProofs!MemorySafe => MemorySafe
  BY DEF MemorySafe, Matrix!Below, MulProofs!Below, Matrix!Mats, MulProofs!Mats,
         Matrix!Objects, MulProofs!Objects, Matrix!Rows, MulProofs!Rows,
         Matrix!Cols, MulProofs!Cols, Matrix!Threads, MulProofs!Threads,
         Matrix!RowsOf, MulProofs!RowsOf, Matrix!Size, MulProofs!Size,
         Matrix!NoThread, MulProofs!NoThread, Matrix!FreedByMain,
         MulProofs!FreedByMain, Matrix!Running, MulProofs!Running,
         Matrix!TypeOK, MulProofs!TypeOK, Matrix!FreesExactly,
         MulProofs!FreesExactly, Matrix!OutlivesThreads,
         MulProofs!OutlivesThreads, Matrix!MemorySafe, MulProofs!MemorySafe
<1> QED BY <1>1, <1>2, SameMatrix, PTL

\* The product is printed, whatever the order of the threads' reads and writes and
\* whatever fresh memory holds (matrixmul.c:117, 233-239), under the same condition
\* and where size_t is as wide as int, which PrintsProduct requires.
THEOREM MatrixPrinted ==
  ASSUME MulProofs!OwnSlots
  PROVE  Matrix!Spec => []PrintsProduct
<1>1. MulProofs!Spec => []MulProofs!PrintsProduct
  BY SameMatrix, MulProofs!ProductPrinted
<1>2. MulProofs!PrintsProduct => PrintsProduct
  BY DEF PrintsProduct, Matrix!Below, MulProofs!Below, Matrix!Rows, MulProofs!Rows,
         Matrix!Cols, MulProofs!Cols, Matrix!Inner, MulProofs!Inner,
         Matrix!Empty, MulProofs!Empty, Matrix!Sums, MulProofs!Sums,
         Matrix!Product, MulProofs!Product, Matrix!PrintsProduct,
         MulProofs!PrintsProduct
<1> QED BY <1>1, <1>2, SameMatrix, PTL
=============================================================================
