---------------------------- MODULE EventQueues ----------------------------
(***************************************************************************)
(* What the event queues of fsm/ promise: events of one priority are       *)
(* served in the order they were queued, an event is served when no queue  *)
(* of a higher priority has one waiting, and the event that leaves the     *)
(* queue is the one that was served, exactly once.                         *)
(***************************************************************************)
EXTENDS Integers, Sequences

CONSTANTS
  NQueues,   \* number of priorities
  Servers,   \* who serves events
  Events     \* identities of the events

Nothing == <<>>
Priorities == 0..(NQueues - 1)

VARIABLES
  queues,    \* queues[p]: the events of priority p that wait or are served
  serving    \* serving[s]: <<p, e>> when s serves e of queue p, or Nothing

queueVars == <<queues, serving>>

QueuesInit ==
  /\ queues = [p \in Priorities |-> <<>>]
  /\ serving = [s \in Servers |-> Nothing]

Waits(e) == \E p \in Priorities : \E i \in DOMAIN queues[p] : queues[p][i] = e

Put(p, e) ==
  /\ ~Waits(e)
  /\ queues' = [queues EXCEPT ![p] = Append(@, e)]
  /\ UNCHANGED serving

Serve(s, p) ==
  /\ serving[s] = Nothing
  /\ queues[p] # <<>>
  /\ \A q \in Priorities : q > p => queues[q] = <<>>
  /\ serving' = [serving EXCEPT ![s] = <<p, Head(queues[p])>>]
  /\ UNCHANGED queues

Leave(s, p) ==
  /\ queues[p] # <<>>
  /\ serving[s] = <<p, Head(queues[p])>>
  /\ queues' = [queues EXCEPT ![p] = Tail(@)]
  /\ serving' = [serving EXCEPT ![s] = Nothing]

QueuesNext ==
  \/ \E p \in Priorities, e \in Events : Put(p, e)
  \/ \E s \in Servers, p \in Priorities : Serve(s, p) \/ Leave(s, p)

QueuesSpec == QueuesInit /\ [][QueuesNext]_queueVars
=============================================================================
