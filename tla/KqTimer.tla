------------------------------ MODULE KqTimer ------------------------------
(***************************************************************************)
(* kqueue/kqtimer.c: a process that forks a child whenever its timer       *)
(* expires; the child runs date(1).  Nobody waits for the children, so     *)
(* each stays a zombie until its parent ends.                              *)
(***************************************************************************)
EXTENDS Naturals

CONSTANTS
  MaxProcs,     \* processes the user may have, children and zombies
  MaxExpired    \* bound on the expirations kevent counts

TimerAssumption == MaxProcs \in Nat /\ MaxExpired \in Nat \ {0}

VARIABLES
  timer,        \* where main is: "wait", "fork" or "exited"
  expired,      \* expirations since the last event (event.data)
  children,     \* children that run date, or are about to
  zombies       \* those that have ended

vars == <<timer, expired, children, zombies>>

Init == timer = "wait" /\ expired = 0 /\ children = 0 /\ zombies = 0

\* The timer (external) counts what main does not wait for.
Expire ==
  /\ timer # "exited"
  /\ expired < MaxExpired
  /\ expired' = expired + 1
  /\ UNCHANGED <<timer, children, zombies>>

\* kevent returns one event for all expirations, or an error.
Kevent ==
  /\ timer = "wait"
  /\ \/ expired > 0 /\ timer' = "fork"
     \/ timer' = "exited"
  /\ expired' = 0
  /\ UNCHANGED <<children, zombies>>

\* fork, which fails at the limit on processes; then diep ends the program, and
\* init takes the children over.
Fork ==
  /\ timer = "fork"
  /\ IF children + zombies < MaxProcs
     THEN timer' = "wait" /\ children' = children + 1 /\ UNCHANGED zombies
     ELSE timer' = "exited" /\ children' = 0 /\ zombies' = 0
  /\ UNCHANGED expired

\* A child ends: date is done, or could not be run and diep is called.
Child ==
  /\ children > 0
  /\ children' = children - 1
  /\ zombies' = zombies + 1
  /\ UNCHANGED <<timer, expired>>

Next == Expire \/ Kevent \/ Fork \/ Child

Spec == Init /\ [][Next]_vars

\* Time passes, and every process is scheduled.
FairSpec == Spec /\ WF_vars(Expire) /\ WF_vars(Kevent \/ Fork) /\ WF_vars(Child)

\* "Loop forever" (kqtimer.c:34) is as long as the process table lasts: children
\* that are never waited for add up until fork fails (kqtimer.c:47-52).
EndsAtLimit == <>(timer = "exited")
=============================================================================
