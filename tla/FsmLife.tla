------------------------------ MODULE FsmLife ------------------------------
(***************************************************************************)
(* Memory of a state machine: what fsm_init, state_init, state_add_evt,    *)
(* fsm_add_state and fsm_queue_event allocate, what their error paths and  *)
(* state_free, state_rem_evt and fsm_free give back, and what is read in   *)
(* between (fsm.c, states.c and the freeing functions of htable.c).        *)
(*                                                                         *)
(* A block is <<owner, part>>.  Its owner is the machine, <<>>, a state    *)
(* <<s>>, the event <<s, e>> of a state, one that is added again,          *)
(* <<s, e, "again">>, or a queued event <<q>>.  Any malloc may fail.       *)
(* Tables do not grow here; the state table is a list of states for each   *)
(* bucket, as in HTable.  Every event has a new state.                     *)
(*                                                                         *)
(* The client does what the tests do and checks what it is told: it inits  *)
(* and adds each state once, stops after an error, and calls state_free    *)
(* only for states it did not hand over.                                   *)
(***************************************************************************)
EXTENDS Integers, Sequences, SequencesExt

CONSTANTS
  States,      \* state_t objects
  Events,      \* keys of events
  Queued,      \* queued events
  StKeys,      \* keys the client gives to states
  NBuckets,    \* buckets of the state table
  Null

LifeAssumption ==
  /\ NBuckets \in Nat \ {0} /\ StKeys \subseteq Nat
  /\ Null \notin States \cup Queued \cup (States \X Events)

VARIABLES
  live,        \* the blocks malloc returned and nobody freed
  failed,      \* the blocks malloc did not return
  fault,       \* blocks that were read or freed although not live
  phase,       \* "start", "up", "quit": after an error, "gone": after fsm_free,
               \* "undefined": after a fault
  hold,        \* hold[s]: "none", "mine", "given" to the machine, "freed" by the client
  stkey,       \* *st_key
  chain,       \* chain[b]: the states in bucket b of the state table
  newstate,    \* evt_newstate of <<s, e>>
  current,     \* cstate, or Null
  running,     \* the event whose callback runs, or Null
  serving      \* the queued event that is served, or Null

vars == <<live, failed, fault, phase, hold, stkey, chain, newstate, current, running, serving>>

Buckets == 0..(NBuckets - 1)

Init ==
  /\ live = {} /\ failed = {} /\ fault = {}
  /\ phase = "start"
  /\ hold = [s \in States |-> "none"]
  /\ stkey = [s \in States |-> Null]
  /\ chain = [b \in Buckets |-> <<>>]
  /\ newstate = [o \in States \X Events |-> Null]
  /\ current = Null /\ running = Null /\ serving = Null

-----------------------------------------------------------------------------
(* Allocation: a function mallocs the parts of an order; if the n-th malloc *)
(* fails it frees the parts that undo[n] names, and the last undo if none   *)
(* does.                                                                    *)

FsmOrder   == <<"fsm", "sttable", "pqtable", "mobj", "array">>
FsmUndo    == <<{}, {"fsm"}, {"fsm", "sttable"}, {"fsm", "sttable", "mobj"},
                {"fsm", "sttable", "pqtable"}, {}>>
StateOrder == <<"state", "evttable", "array", "key">>
StateUndo  == <<{}, {"state"}, {"evttable", "state"}, {"evttable", "state"}, {}>>
EvtOrder   == <<"key", "event", "node">>
EvtUndo    == <<{}, {"key"}, {}, {}>>
AgainOrder == <<"key", "event">>
AgainUndo  == <<{}, {"key"}, {"key", "event"}>>
QueuedOrder == <<"pnode", "data">>
QueuedUndo  == <<{}, {"pnode"}, {}>>

\* malloc returns the first n - 1 parts of order and fails at the n-th, if there is one.
Malloc(owner, order, undo, n) ==
  /\ live' = live \cup ({owner} \X ({order[i] : i \in 1..(n - 1)} \ undo[n]))
  /\ failed' = IF n > Len(order) THEN failed ELSE failed \cup {<<owner, order[n]>>}

\* free of the blocks in first and then of those in second.
FreeInTurn(first, second) ==
  /\ live' = live \ (first \cup second)
  /\ fault' = fault \cup (first \ live) \cup (second \ (live \ first))

InTable == UNION {ToSet(chain[b]) : b \in Buckets}
Found(k) == \E s \in InTable : stkey[s] = k
Known(s) == {e \in Events : <<<<s, e>>, "node">> \in live}   \* events in s's table

EvtBlocks(s, e) == {<<s, e>>} \X ToSet(EvtOrder)
Idle == phase = "up" /\ running = Null

\* fsm_init
FsmInit ==
  /\ phase = "start"
  /\ \E n \in 1..(Len(FsmOrder) + 1) :
       /\ Malloc(<<>>, FsmOrder, FsmUndo, n)
       /\ phase' = IF n > Len(FsmOrder) THEN "up" ELSE "gone"
  /\ UNCHANGED <<fault, hold, stkey, chain, newstate, current, running, serving>>

\* state_init
StateInit(s) ==
  /\ Idle
  /\ hold[s] = "none"
  /\ \E n \in 1..(Len(StateOrder) + 1) :
       /\ Malloc(<<s>>, StateOrder, StateUndo, n)
       /\ IF n > Len(StateOrder)
          THEN hold' = [hold EXCEPT ![s] = "mine"] /\ UNCHANGED phase
          ELSE phase' = "quit" /\ UNCHANGED hold
  /\ UNCHANGED <<fault, stkey, chain, newstate, current, running, serving>>

\* state_add_evt of a new key.  HT_NOMEM from htable_insert counts as success,
\* so the client will not add the event again.
AddEvt(s, e, t) ==
  /\ Idle
  /\ hold[s] \in {"mine", "given"} /\ hold[t] \in {"mine", "given"}
  /\ EvtBlocks(s, e) \cap live = {}
  /\ \E n \in 1..(Len(EvtOrder) + 1) :
       /\ Malloc(<<s, e>>, EvtOrder, EvtUndo, n)
       /\ newstate' = [newstate EXCEPT ![<<s, e>>] = IF n > Len(EvtOrder) THEN t ELSE @]
       /\ phase' = IF n < Len(EvtOrder) THEN "quit" ELSE phase
  /\ UNCHANGED <<fault, hold, stkey, chain, current, running, serving>>

\* state_add_evt of a key that s has: htable_insert says HT_EXISTS, and the new
\* key and the new event are freed.
AddEvtAgain(s, e) ==
  /\ Idle
  /\ e \in Known(s)
  /\ \E n \in 1..(Len(AgainOrder) + 1) :
       /\ Malloc(<<s, e, "again">>, AgainOrder, AgainUndo, n)
       /\ phase' = IF n > Len(AgainOrder) THEN phase ELSE "quit"
  /\ UNCHANGED <<fault, hold, stkey, chain, newstate, current, running, serving>>

\* state_rem_evt, by the client or by a callback; htable_free_obj frees the key,
\* the event and the node.
RemEvt(s, e) ==
  /\ phase = "up"
  /\ e \in Known(s)
  /\ FreeInTurn(EvtBlocks(s, e), {})
  /\ newstate' = [newstate EXCEPT ![<<s, e>>] = Null]
  /\ UNCHANGED <<failed, phase, hold, stkey, chain, current, running, serving>>

\* fsm_add_state: HT_NOMEM counts as success.
AddState(s, k) ==
  /\ Idle
  /\ hold[s] = "mine"
  /\ stkey' = [stkey EXCEPT ![s] = k]
  /\ IF Found(k)
     THEN UNCHANGED <<live, failed, hold, chain>>
     ELSE \E n \in 1..2 :
            /\ Malloc(<<s>>, <<"node">>, <<{}, {}>>, n)
            /\ hold' = [hold EXCEPT ![s] = "given"]
            /\ chain' = IF n = 1 THEN chain ELSE [chain EXCEPT ![k % NBuckets] = Append(@, s)]
  /\ UNCHANGED <<fault, phase, newstate, current, running, serving>>

\* fsm_set_state: fsm_mark_reachable_states writes to the new states of events.
SetState(s) ==
  /\ phase = "up"
  /\ s \in InTable
  /\ current' = s
  /\ fault' = fault \cup
       ({<<<<newstate[o]>>, "state">> : o \in {x \in InTable \X Events : x[2] \in Known(x[1])}} \ live)
  /\ UNCHANGED <<live, failed, phase, hold, stkey, chain, newstate, running, serving>>

\* fsm_queue_event
QueueEvent(q) ==
  /\ phase = "up"
  /\ <<<<q>>, "pnode">> \notin live
  /\ \E n \in 1..(Len(QueuedOrder) + 1) : Malloc(<<q>>, QueuedOrder, QueuedUndo, n)
  /\ UNCHANGED <<fault, phase, hold, stkey, chain, newstate, current, running, serving>>

QueuedBlocks(q) == {<<q>>} \X ToSet(QueuedOrder)

\* fsm_process_event, called by the client (q = Null) or by fsm_dequeue_event,
\* up to the callback.
Process(q, e) ==
  /\ Idle /\ current # Null
  /\ q # Null => <<<<q>>, "pnode">> \in live
  /\ e \in Known(current)
  /\ running' = <<current, e>> /\ serving' = q
  /\ UNCHANGED <<live, failed, fault, phase, hold, stkey, chain, newstate, current>>

\* fsm_dequeue_event of an event the current state does not know.
Discard(q) ==
  /\ Idle /\ current # Null
  /\ <<<<q>>, "pnode">> \in live
  /\ FreeInTurn({<<<<q>>, "data">>}, {<<<<q>>, "pnode">>})
  /\ UNCHANGED <<failed, phase, hold, stkey, chain, newstate, current, running, serving>>

\* After the callback: pevt is read again, and the key of its new state; then
\* fsm_dequeue_event frees the queued event.
Transition ==
  /\ running # Null
  /\ LET t == newstate[running]
         read == {<<running, "event">>} \cup {<<<<t>>, "state">>, <<<<t>>, "key">>}
     IN  IF <<running, "event">> \in live
         THEN /\ current' = IF Found(stkey[t]) THEN t ELSE current
              /\ LET blocks == IF serving = Null THEN {} ELSE QueuedBlocks(serving)
                 IN  /\ live' = live \ blocks
                     /\ fault' = fault \cup ((read \cup blocks) \ live)
              /\ running' = Null /\ serving' = Null
              /\ UNCHANGED phase
         ELSE /\ fault' = fault \cup {<<running, "event">>}
              /\ phase' = "undefined"
              /\ UNCHANGED <<live, current, running, serving>>
  /\ UNCHANGED <<failed, hold, stkey, chain, newstate>>

-----------------------------------------------------------------------------
(* Teardown *)

\* Mutation: state_free frees the key, which is its own.
StateFreedKey(s) ==
  ({<<s>>} \X {"evttable", "array", "state", "key"}) \cup UNION {EvtBlocks(s, e) : e \in Known(s)}

\* What state_free frees: htable_free_all_obj the keys and events,
\* htable_free the nodes and the array, then the table and the state.
StateFreed(s) ==
  ({<<s>>} \X {"evttable", "array", "state"}) \cup UNION {EvtBlocks(s, e) : e \in Known(s)}

\* state_free by the client, which is about to end.
StateFree(s) ==
  /\ phase \in {"up", "quit", "gone"} /\ running = Null
  /\ hold[s] = "mine"
  /\ FreeInTurn(StateFreed(s), {})
  /\ hold' = [hold EXCEPT ![s] = "freed"]
  /\ phase' = IF phase = "up" THEN "quit" ELSE phase
  /\ UNCHANGED <<failed, stkey, chain, newstate, current, running, serving>>

\* The states the iterator yields: in the last bucket only the first.
Yielded ==
  {s \in InTable : s \in ToSet(chain[NBuckets - 1]) => s = Head(chain[NBuckets - 1])}

\* Mutation: the keys of the states are left to state_free.
FsmFreeKeys ==
  /\ phase \in {"up", "quit"} /\ running = Null
  /\ FreeInTurn(UNION {StateFreed(s) : s \in Yielded},
                ({<<s>> : s \in InTable} \X {"node"})
                \cup (UNION {QueuedBlocks(q) : q \in {r \in Queued : <<<<r>>, "pnode">> \in live}})
                \cup ({<<>>} \X ToSet(FsmOrder)))
  /\ phase' = "gone"
  /\ UNCHANGED <<failed, hold, stkey, chain, newstate, current, running, serving>>

\* fsm_free: state_free for what the iterator yields; then the keys, the nodes
\* and the array of the state table, the queued events and the machine.
FsmFree ==
  /\ phase \in {"up", "quit"} /\ running = Null
  /\ FreeInTurn(UNION {StateFreed(s) : s \in Yielded},
                ({<<s>> : s \in InTable} \X {"key", "node"})
                \cup (UNION {QueuedBlocks(q) : q \in {r \in Queued : <<<<r>>, "pnode">> \in live}})
                \cup ({<<>>} \X ToSet(FsmOrder)))
  /\ phase' = "gone"
  /\ UNCHANGED <<failed, hold, stkey, chain, newstate, current, running, serving>>

-----------------------------------------------------------------------------

Next ==
  \/ FsmInit
  \/ \E s \in States : StateInit(s) \/ SetState(s) \/ StateFree(s)
  \/ \E s, t \in States, e \in Events : AddEvt(s, e, t)
  \/ \E s \in States, e \in Events : AddEvtAgain(s, e) \/ RemEvt(s, e)
  \/ \E s \in States, k \in StKeys : AddState(s, k)
  \/ \E q \in Queued : QueueEvent(q) \/ Discard(q)
  \/ \E q \in Queued \cup {Null}, e \in Events : Process(q, e)
  \/ Transition
  \/ FsmFree

Spec == Init /\ [][Next]_vars

-----------------------------------------------------------------------------

\* Nothing is read or freed that is not allocated, by the teardown or by a call
\* that a callback interrupts, except the event whose own callback removes it
\* (fsm.c:247-256, states.c:91-98, htable.c:85-100).
NoUseAfterFree ==
  /\ fault # {} => phase = "undefined" /\ fault = {<<running, "event">>}
  /\ phase = "up" /\ current # Null => {<<current>>} \X {"state", "evttable", "key"} \subseteq live

\* What belongs to a state that is still in use.
Owned(s) == ({<<s>>} \X ToSet(StateOrder)) \cup UNION {EvtBlocks(s, e) : e \in Known(s)}

\* What a client that holds the machine and the states it kept can still free.
Reachable ==
  (UNION {Owned(s) : s \in {t \in States : hold[t] = "mine"}}) \cup
  IF phase \in {"start", "gone"} THEN {}
  ELSE ({<<>>} \X ToSet(FsmOrder))
       \cup (UNION {Owned(s) \cup {<<<<s>>, "node">>} : s \in InTable})
       \cup ({<<q>> : q \in Queued} \X ToSet(QueuedOrder))

\* What fsm_init, state_init, state_add_evt and fsm_add_state leave behind when
\* that malloc fails.  At every other one they leave nothing.
LeftBy(block) ==
  CASE block = <<<<>>, "mobj">>  -> {<<<<>>, "pqtable">>}
    [] block = <<<<>>, "array">> -> {<<<<>>, "mobj">>}
    [] block[2] = "key"  /\ Len(block[1]) = 1 -> {<<block[1], "array">>}
    [] block[2] = "node" /\ Len(block[1]) = 2 -> {block[1]} \X {"key", "event"}
    [] block[2] = "node" /\ Len(block[1]) = 1 -> Owned(block[1][1])
    [] OTHER -> {}

\* Every block is freed or can be, on all paths, except: what the five failing
\* mallocs of LeftBy strand; the key of a state the client frees itself; the states that
\* fsm_free's iterator does not yield (fsm.c:41-46, 60-66, 92-100,
\* states.c:31-36, 69-73, 91-98).
OnlyKnownLeaks ==
  phase # "undefined" =>
    live \ Reachable \subseteq
      (UNION {LeftBy(block) : block \in failed})
      \cup {<<<<s>>, "key">> : s \in {t \in States : hold[t] = "freed"}}
      \cup (UNION {Owned(s) : s \in InTable \ Yielded})
=============================================================================
