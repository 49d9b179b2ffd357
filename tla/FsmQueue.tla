------------------------------ MODULE FsmQueue ------------------------------
(***************************************************************************)
(* The pending events of a state machine: fsm_queue_event,                 *)
(* fsm_dequeue_event and fsm_get_queued_events of fsm/fsm.c, down to the   *)
(* assignments of the STAILQ macros, with the mutex that some of them      *)
(* take.  A chunk is the memory of a pqnode_t; malloc may return any chunk *)
(* that is not in use, freed ones included, or fail.  Calls that return at *)
(* once without a change (FSM_EPRIO, FSM_ENOMEM) are stuttering steps.     *)
(***************************************************************************)
EXTENDS Integers, Sequences, FiniteSets

CONSTANTS
  NQueues,    \* pfsm->nqueues
  Threads,
  Queuers,    \* threads that call fsm_queue_event
  Servers,    \* threads that call fsm_dequeue_event
  Counters,   \* threads that call fsm_get_queued_events
  Chunks,     \* memory for pqnode_t's
  Null        \* the null pointer

ASSUME QueueAssumption ==
  /\ NQueues \in Nat \ {0}
  /\ Queuers \subseteq Threads /\ Servers \subseteq Threads /\ Counters \subseteq Threads
  /\ Null \notin Chunks \cup Threads
  /\ IsFiniteSet(Chunks)

Prios == 0..(NQueues - 1)

VARIABLES
  next,    \* pq_next of every chunk
  first,   \* stqh_first of every queue
  last,    \* stqh_last: the chunk whose pq_next it points to, Null: &stqh_first
  used,    \* the chunks malloc gave and free has not taken back
  owner,   \* who holds the mutex, or Null
  pc,      \* where each thread is
  new,     \* fsm_queue_event's pnode
  prio,    \* fsm_queue_event's prio
  back,    \* where fsm_queue_event returns to: "idle", or the callback "action"
  queue,   \* fsm_dequeue_event's and fsm_get_queued_events' i
  item,    \* their pnode
  total    \* fsm_get_queued_events' total

lists  == <<next, first, last>>
insert == <<new, prio, back>>
scan   == <<queue, item, total>>
vars   == <<next, first, last, used, owner, pc, new, prio, back, queue, item, total>>

Init ==
  /\ next = [c \in Chunks |-> Null]
  /\ first = [q \in Prios |-> Null]
  /\ last = [q \in Prios |-> Null]
  /\ used = {}
  /\ owner = Null
  /\ pc = [t \in Threads |-> "idle"]
  /\ new = [t \in Threads |-> Null]
  /\ prio = [t \in Threads |-> 0]
  /\ back = [t \in Threads |-> "idle"]
  /\ queue = [t \in Threads |-> 0]
  /\ item = [t \in Threads |-> Null]
  /\ total = [t \in Threads |-> 0]

Goto(t, label) == pc' = [pc EXCEPT ![t] = label]

-----------------------------------------------------------------------------
(* fsm_queue_event; a callback may call it too (pc is then "action"). *)

QueueCall(t) ==
  /\ t \in Queuers
  /\ pc[t] \in {"idle", "action"}
  /\ \E c \in Chunks \ used, p \in Prios :
       /\ used' = used \cup {c}
       /\ new' = [new EXCEPT ![t] = c]
       /\ prio' = [prio EXCEPT ![t] = p]
  /\ back' = [back EXCEPT ![t] = pc[t]]
  /\ Goto(t, "lock")
  /\ UNCHANGED <<lists, owner, scan>>

\* Mutation: the mutex is taken without waiting for it.
QueueLockBarging(t) ==
  /\ pc[t] = "lock"
  /\ owner' = t
  /\ Goto(t, "end")
  /\ UNCHANGED <<lists, used, insert, scan>>

QueueLock(t) ==
  /\ pc[t] = "lock"
  /\ owner = Null
  /\ owner' = t
  /\ Goto(t, "end")
  /\ UNCHANGED <<lists, used, insert, scan>>

\* STAILQ_INSERT_TAIL, one assignment at a time: elm->next = NULL;
InsertEnd(t) ==
  /\ pc[t] = "end"
  /\ next' = [next EXCEPT ![new[t]] = Null]
  /\ Goto(t, "link")
  /\ UNCHANGED <<first, last, used, owner, insert, scan>>

\* *head->stqh_last = elm;
InsertLink(t) ==
  /\ pc[t] = "link"
  /\ IF last[prio[t]] = Null
     THEN first' = [first EXCEPT ![prio[t]] = new[t]] /\ UNCHANGED next
     ELSE next' = [next EXCEPT ![last[prio[t]]] = new[t]] /\ UNCHANGED first
  /\ Goto(t, "tail")
  /\ UNCHANGED <<last, used, owner, insert, scan>>

\* head->stqh_last = &elm->next;
InsertTail(t) ==
  /\ pc[t] = "tail"
  /\ last' = [last EXCEPT ![prio[t]] = new[t]]
  /\ Goto(t, "unlock")
  /\ UNCHANGED <<next, first, used, owner, insert, scan>>

QueueUnlock(t) ==
  /\ pc[t] = "unlock"
  /\ owner' = Null
  /\ Goto(t, back[t])
  /\ UNCHANGED <<lists, used, insert, scan>>

-----------------------------------------------------------------------------
(* fsm_dequeue_event, which takes no lock. *)

\* Mutation: the scan starts at the lowest priority.
DequeueCallLowest(t) ==
  /\ t \in Servers
  /\ pc[t] = "idle"
  /\ queue' = [queue EXCEPT ![t] = 0]
  /\ Goto(t, "scan")
  /\ UNCHANGED <<lists, used, owner, insert, item, total>>

DequeueCall(t) ==
  /\ t \in Servers
  /\ pc[t] = "idle"
  /\ queue' = [queue EXCEPT ![t] = NQueues - 1]
  /\ Goto(t, "scan")
  /\ UNCHANGED <<lists, used, owner, insert, item, total>>

\* Mutation: an empty queue is scanned again.
ScanStuck(t) ==
  /\ pc[t] = "scan"
  /\ first[queue[t]] # Null
  /\ item' = [item EXCEPT ![t] = first[queue[t]]]
  /\ Goto(t, "process")
  /\ UNCHANGED <<lists, used, owner, insert, queue, total>>

\* From the highest priority down; FSM_EMPTY after queue 0.
Scan(t) ==
  /\ pc[t] = "scan"
  /\ IF first[queue[t]] # Null
     THEN /\ item' = [item EXCEPT ![t] = first[queue[t]]]
          /\ Goto(t, "process")
          /\ UNCHANGED queue
     ELSE /\ UNCHANGED item
          /\ IF queue[t] # 0
             THEN queue' = [queue EXCEPT ![t] = @ - 1] /\ UNCHANGED pc
             ELSE Goto(t, "idle") /\ UNCHANGED queue
  /\ UNCHANGED <<lists, used, owner, insert, total>>

\* fsm_process_event: the current state knows the event, or it does not.
\* Either way the event is deleted afterwards.
Process(t) ==
  /\ pc[t] = "process"
  /\ \E known \in BOOLEAN : Goto(t, IF known THEN "action" ELSE "delete")
  /\ UNCHANGED <<lists, used, owner, insert, scan>>

ActionReturn(t) ==
  /\ pc[t] = "action"
  /\ Goto(t, "delete")
  /\ UNCHANGED <<lists, used, owner, insert, scan>>

\* pnode = STAILQ_FIRST(phead), read again after the callback.
Delete(t) ==
  /\ pc[t] = "delete"
  /\ item' = [item EXCEPT ![t] = first[queue[t]]]
  /\ Goto(t, "unlink")
  /\ UNCHANGED <<lists, used, owner, insert, queue, total>>

\* Mutation: stqh_last is not reset when the queue becomes empty.
UnlinkOnly(t) ==
  /\ pc[t] = "unlink"
  /\ LET head == first[queue[t]]
     IN  IF head = Null
         THEN Goto(t, "crashed") /\ UNCHANGED first
         ELSE first' = [first EXCEPT ![queue[t]] = next[head]] /\ Goto(t, "free")
  /\ UNCHANGED <<next, last, used, owner, insert, scan>>

\* STAILQ_REMOVE_HEAD: if ((first = first->next) == NULL) ...
Unlink(t) ==
  /\ pc[t] = "unlink"
  /\ LET head == first[queue[t]]
     IN  IF head = Null
         THEN Goto(t, "crashed") /\ UNCHANGED first
         ELSE /\ first' = [first EXCEPT ![queue[t]] = next[head]]
              /\ Goto(t, IF next[head] = Null THEN "retail" ELSE "free")
  /\ UNCHANGED <<next, last, used, owner, insert, scan>>

\* ... stqh_last = &stqh_first;
Retail(t) ==
  /\ pc[t] = "retail"
  /\ last' = [last EXCEPT ![queue[t]] = Null]
  /\ Goto(t, "free")
  /\ UNCHANGED <<next, first, used, owner, insert, scan>>

\* Mutation: the node of the event is not freed.
DeleteLeak(t) ==
  /\ pc[t] = "free"
  /\ item' = [item EXCEPT ![t] = Null]
  /\ Goto(t, "idle")
  /\ UNCHANGED <<lists, used, owner, insert, queue, total>>

DeleteFree(t) ==
  /\ pc[t] = "free"
  /\ used' = used \ {item[t]}
  /\ item' = [item EXCEPT ![t] = Null]
  /\ Goto(t, "idle")
  /\ UNCHANGED <<lists, owner, insert, queue, total>>

-----------------------------------------------------------------------------
(* fsm_get_queued_events, which holds the mutex while it walks the lists. *)

\* Mutation: the lists are walked without the mutex.
CountCallUnlocked(t) ==
  /\ t \in Counters
  /\ pc[t] = "idle"
  /\ total' = [total EXCEPT ![t] = 0]
  /\ queue' = [queue EXCEPT ![t] = 0]
  /\ item' = [item EXCEPT ![t] = first[0]]
  /\ Goto(t, "count")
  /\ UNCHANGED <<lists, used, owner, insert>>

CountCall(t) ==
  /\ t \in Counters
  /\ pc[t] = "idle"
  /\ owner = Null
  /\ owner' = t
  /\ total' = [total EXCEPT ![t] = 0]
  /\ queue' = [queue EXCEPT ![t] = 0]
  /\ item' = [item EXCEPT ![t] = first[0]]
  /\ Goto(t, "count")
  /\ UNCHANGED <<lists, used, insert>>

CountNext(t) ==
  /\ pc[t] = "count"
  /\ item[t] # Null
  /\ total' = [total EXCEPT ![t] = @ + 1]
  /\ item' = [item EXCEPT ![t] = next[item[t]]]
  /\ UNCHANGED <<lists, used, owner, pc, insert, queue>>

CountQueue(t) ==
  /\ pc[t] = "count"
  /\ item[t] = Null
  /\ IF queue[t] < NQueues - 1
     THEN /\ queue' = [queue EXCEPT ![t] = @ + 1]
          /\ item' = [item EXCEPT ![t] = first[queue[t] + 1]]
          /\ UNCHANGED pc
     ELSE Goto(t, "counted") /\ UNCHANGED <<queue, item>>
  /\ UNCHANGED <<lists, used, owner, insert, total>>

CountReturn(t) ==
  /\ pc[t] = "counted"
  /\ owner' = Null
  /\ Goto(t, "idle")
  /\ UNCHANGED <<lists, used, insert, scan>>

-----------------------------------------------------------------------------

QueueStep(t) ==
  QueueLock(t) \/ InsertEnd(t) \/ InsertLink(t) \/ InsertTail(t) \/ QueueUnlock(t)

DequeueStep(t) ==
  \/ Scan(t) \/ Process(t) \/ ActionReturn(t)
  \/ Delete(t) \/ Unlink(t) \/ Retail(t) \/ DeleteFree(t)

CountStep(t) == CountNext(t) \/ CountQueue(t) \/ CountReturn(t)

Step(t) == QueueStep(t) \/ DequeueStep(t) \/ CountStep(t)

Next ==
  \E t \in Threads : QueueCall(t) \/ DequeueCall(t) \/ CountCall(t) \/ Step(t)

Spec == Init /\ [][Next]_vars

\* A thread that has entered a function keeps running: the scheduler is fair.
FairSpec == Spec /\ \A t \in Threads : WF_vars(Step(t))
-----------------------------------------------------------------------------

\* Where n steps along the links nx lead from c, a chunk or Null.
Steps(nx, c) ==
  LET at[n \in 0..Cardinality(Chunks)] ==
        IF n = 0 THEN c ELSE IF at[n - 1] = Null THEN Null ELSE nx[at[n - 1]]
  IN  at

\* The chunks of the list that starts at c, in order.
Walk(c) ==
  LET at == Steps(next, c)
      length == CHOOSE n \in 0..Cardinality(Chunks) : at[n] = Null /\ \A m \in 0..(n - 1) : at[m] # Null
  IN  [n \in 1..length |-> at[n - 1]]

\* The chunks a walk from first[q] meets, even of a list that does not end.
Linked(q) ==
  LET at == Steps(next, first[q])
  IN  {at[n] : n \in 0..Cardinality(Chunks)} \ {Null}

\* Types of the state.
TypeOK ==
  /\ next \in [Chunks -> Chunks \cup {Null}]
  /\ first \in [Prios -> Chunks \cup {Null}]
  /\ last \in [Prios -> Chunks \cup {Null}]
  /\ used \subseteq Chunks
  /\ owner \in Threads \cup {Null}
  /\ pc \in [Threads -> {"idle", "lock", "end", "link", "tail", "unlock", "scan", "process",
                         "action", "delete", "unlink", "retail", "free", "crashed",
                         "count", "counted"}]
  /\ new \in [Threads -> Chunks \cup {Null}]
  /\ prio \in [Threads -> Prios]
  /\ back \in [Threads -> {"idle", "action"}]
  /\ queue \in [Threads -> Prios]
  /\ item \in [Threads -> Chunks \cup {Null}]
  /\ total \in [Threads -> 0..Cardinality(Chunks)]

\* An event queued in the tail stays reachable from the head, where events are
\* served ("Insert new event in tail (we serve from head)", fsm.c:182), until
\* the thread that served it frees it.  (Looked at when no thread is between two
\* assignments of a list macro.)
NoLostEvent ==
  (\A t \in Threads : pc[t] \notin {"tail", "retail"}) =>
  \A c \in used :
    \/ \E q \in Prios : c \in Linked(q)
    \/ \E t \in Threads : new[t] = c /\ pc[t] \in {"lock", "end", "link"}
    \/ \E t \in Threads : item[t] = c /\ pc[t] = "free"

\* Nothing the lists or a thread still follow has been freed, and no thread
\* follows the null pointer (fsm.c:199-212).
NoDangling ==
  /\ TypeOK
  /\ \A q \in Prios : Linked(q) \cup ({last[q]} \ {Null}) \subseteq used
  /\ \A t \in Threads :
       /\ pc[t] \in {"process", "action", "unlink"} => item[t] \in used
       /\ pc[t] \in {"lock", "end", "link", "tail"} => new[t] \in used
       /\ pc[t] # "crashed"

\* fsm_get_queued_events returns the number of events all the queues hold at
\* the moment it returns (fsm.c:226-233), a whole list of them or none.
CountExact ==
  \A t \in Threads :
    pc[t] = "counted" => total[t] = Cardinality(UNION {Linked(q) : q \in Prios})

\* A thread serves event item[t] from the scan that found it to the unlinking.
InService(t) ==
  \/ pc[t] \in {"process", "action", "delete", "unlink"}
  \/ pc[t] \in {"lock", "end", "link", "tail", "unlock"} /\ back[t] = "action"

\* The events each queue holds, and the one each thread serves.
Held == [q \in Prios |-> Walk(first[q])]
Serving == [t \in Servers |-> IF InService(t) THEN <<queue[t], item[t]>> ELSE <<>>]

\* The linked lists implement queues served in order and by priority: an event
\* enters with the assignment that links it and leaves when it is unlinked.
Queues == INSTANCE EventQueues WITH Events <- Chunks, queues <- Held, serving <- Serving

ImplementsQueues == Queues!QueuesSpec

\* Every call returns, and leaves the mutex to the next (fsm.c:187, 213, 217, 235).
CallsReturn == \A t \in Threads : pc[t] # "idle" ~> pc[t] = "idle"
=============================================================================
