--------------------------- MODULE PthreadCounter ---------------------------
(***************************************************************************)
(* pthreads/pthread_mutex.c: threads that increment a global under a lock, *)
(* and main, which creates them, joins them and prints the global.         *)
(* pthreads/pthread_semaphore.c is the same program with a semaphore whose *)
(* value, 1 or 0, is `free' here.                                          *)
(***************************************************************************)
EXTENDS Integers, FiniteSets

CONSTANTS
  NumThreads,   \* NUM_THREADS
  Rounds        \* the bound of threadfun's loop, 5 in the code

ASSUME CounterAssumption == NumThreads \in Nat /\ Rounds \in Nat

Threads == 1..NumThreads

VARIABLES
  myglobal,
  free,      \* mymutex is unlocked
  pc,        \* where each thread is
  i, j,      \* threadfun's locals
  phase,     \* main: "create", "join", "print" or "exit"
  which,     \* main's i
  printed    \* what main printed, or -1

vars == <<myglobal, free, pc, i, j, phase, which, printed>>

Init ==
  /\ myglobal = 0
  /\ free = TRUE
  /\ pc = [t \in Threads |-> "unborn"]
  /\ i = [t \in Threads |-> 0]
  /\ j = [t \in Threads |-> 0]
  /\ phase = "create"
  /\ which = 1
  /\ printed = -1

-----------------------------------------------------------------------------
(* main *)

Create ==
  /\ phase = "create"
  /\ IF which \in Threads
     THEN /\ pc' = [pc EXCEPT ![which] = "loop"]
          /\ which' = which + 1
          /\ UNCHANGED phase
     ELSE /\ phase' = "join"
          /\ which' = 1
          /\ UNCHANGED pc
  /\ UNCHANGED <<myglobal, free, i, j, printed>>

\* Mutation: main does not wait for the threads.
JoinNothing ==
  /\ phase = "join"
  /\ phase' = "print"
  /\ UNCHANGED <<myglobal, free, pc, i, j, which, printed>>

Join ==
  /\ phase = "join"
  /\ IF which \in Threads
     THEN pc[which] = "done" /\ which' = which + 1 /\ UNCHANGED phase
     ELSE phase' = "print" /\ UNCHANGED which
  /\ UNCHANGED <<myglobal, free, pc, i, j, printed>>

PrintGlobal ==
  /\ phase = "print"
  /\ printed' = myglobal
  /\ phase' = "exit"
  /\ UNCHANGED <<myglobal, free, pc, i, j, which>>

-----------------------------------------------------------------------------
(* threadfun *)

Loop(t) ==
  /\ pc[t] = "loop"
  /\ pc' = [pc EXCEPT ![t] = IF i[t] < Rounds THEN "lock" ELSE "done"]
  /\ UNCHANGED <<myglobal, free, i, j, phase, which, printed>>

\* Mutation: the thread enters without the lock.
LockNothing(t) ==
  /\ pc[t] = "lock"
  /\ pc' = [pc EXCEPT ![t] = "read"]
  /\ UNCHANGED <<myglobal, free, i, j, phase, which, printed>>

Lock(t) ==
  /\ pc[t] = "lock"
  /\ free
  /\ free' = FALSE
  /\ pc' = [pc EXCEPT ![t] = "read"]
  /\ UNCHANGED <<myglobal, i, j, phase, which, printed>>

\* j = myglobal; j++; sleep(1)
Read(t) ==
  /\ pc[t] = "read"
  /\ j' = [j EXCEPT ![t] = myglobal + 1]
  /\ pc' = [pc EXCEPT ![t] = "write"]
  /\ UNCHANGED <<myglobal, free, i, phase, which, printed>>

Write(t) ==
  /\ pc[t] = "write"
  /\ myglobal' = j[t]
  /\ pc' = [pc EXCEPT ![t] = "unlock"]
  /\ UNCHANGED <<free, i, j, phase, which, printed>>

\* Mutation: the thread forgets to let go.
UnlockNothing(t) ==
  /\ pc[t] = "unlock"
  /\ i' = [i EXCEPT ![t] = @ + 1]
  /\ pc' = [pc EXCEPT ![t] = "loop"]
  /\ UNCHANGED <<myglobal, free, j, phase, which, printed>>

Unlock(t) ==
  /\ pc[t] = "unlock"
  /\ free' = TRUE
  /\ i' = [i EXCEPT ![t] = @ + 1]
  /\ pc' = [pc EXCEPT ![t] = "loop"]
  /\ UNCHANGED <<myglobal, j, phase, which, printed>>

-----------------------------------------------------------------------------

Main == Create \/ Join \/ PrintGlobal
Thread(t) == Loop(t) \/ Lock(t) \/ Read(t) \/ Write(t) \/ Unlock(t)

Next == Main \/ \E t \in Threads : Thread(t)

Spec == Init /\ [][Next]_vars

\* Threads that can run do run; each takes the lock finitely often, so nothing
\* stronger is needed of the mutex.
FairSpec == Spec /\ WF_vars(Main) /\ \A t \in Threads : WF_vars(Thread(t))

-----------------------------------------------------------------------------

Inside(t) == pc[t] \in {"read", "write", "unlock"}

\* Thread t has written myglobal in its round r.
Done(t, r) == r < i[t] \/ (r = i[t] /\ pc[t] = "unlock")

\* The increments done: one pair for each round of each thread.
Increments == {inc \in Threads \X (0..Rounds) : Done(inc[1], inc[2])}

\* No increment is lost to another thread's read before it: myglobal is their
\* number at all times (pthread_mutex.c:46-53).
NoLostUpdate == myglobal = Cardinality(Increments)

\* main prints the sum of all the increments, since it joins every thread first
\* ("Make sure all threads are done", pthread_mutex.c:31).
PrintsAll == phase = "exit" => printed = NumThreads * Rounds

\* main gets to print: no thread is locked out for good.
Terminates == <>(phase = "exit")
=============================================================================
