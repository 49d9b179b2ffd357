----------------------------- MODULE FsmMachine -----------------------------
(***************************************************************************)
(* The state machines of fsm/: the table of states, the events each state  *)
(* knows, the reachable flags and the transitions (fsm.c, states.c).       *)
(*                                                                         *)
(* A hash table is taken as the map it implements (module HTable) and the  *)
(* order in which its iterator meets the entries: bucket by bucket, in a   *)
(* bucket as they were inserted; of the last bucket it yields the first.   *)
(* The tables are made large enough not to grow.                           *)
(*                                                                         *)
(* The client, which the callbacks belong to, adds a state at most once    *)
(* with success, sets a state before it processes events, and processes    *)
(* none in a callback, as the tests do.  It may ignore what fsm_add_state  *)
(* returns, as they do too, and gives an event no new state, a null        *)
(* pointer, if it likes.  FsmLife has the callback that removes the event  *)
(* it belongs to.                                                          *)
(***************************************************************************)
EXTENDS Integers, Sequences, FiniteSets, SequencesExt

CONSTANTS
  States,      \* state_t objects the client has made with state_init
  StKeys,      \* state keys
  Events,      \* event keys
  NBuckets,    \* buckets of the table of states
  EvtBuckets,  \* buckets of each table of events
  MaxEvts,     \* bound: how many events the states have together
  Null

ASSUME MachineAssumption ==
  /\ StKeys \subseteq Nat /\ Events \subseteq Nat
  /\ NBuckets \in Nat \ {0} /\ EvtBuckets \in Nat \ {0} /\ MaxEvts \in Nat
  /\ Null \notin States /\ Null \notin States \X (Events \X (States \cup {Null}))
  /\ IsFiniteSet(States)

VARIABLES
  key,        \* *st_key of every state
  table,      \* sttable: the states in it, as the iterator meets them
  evttable,   \* evttable[s]: s's events <<e, evt_newstate>>, as they were added
  reachable,  \* the states marked reachable
  cstate,     \* pfsm->cstate, Null before the first fsm_set_state
  handling,   \* the state and the event whose callback runs, or Null
  keyLost,    \* history: the key of cstate was overwritten, and then malloc failed
  crashed     \* a null pointer was written through

vars == <<key, table, evttable, reachable, cstate, handling, keyLost, crashed>>

Event == Events \X (States \cup {Null})

\* state_init leaves the memory of st_key as malloc returned it.
Init ==
  /\ key \in [States -> StKeys]
  /\ table = <<>>
  /\ evttable = [s \in States |-> <<>>]
  /\ reachable = {}
  /\ cstate = Null /\ handling = Null
  /\ keyLost = FALSE /\ crashed = FALSE

InTable  == ToSet(table)
Found(k) == \E s \in InTable : key[s] = k
Knows(s, e) == \E x \in ToSet(evttable[s]) : x[1] = e

-----------------------------------------------------------------------------

\* Where the iterator will meet a state that is added under key k.
Place(k) ==
  1 + Cardinality({i \in DOMAIN table : key[table[i]] % NBuckets <= k % NBuckets})

\* fsm_add_state: the key is stored before the table is asked, and stays when
\* the answer is FSM_EEXISTS, or when htable_insert has no memory for the entry,
\* which counts as success.
AddState(s, k) ==
  /\ ~crashed
  /\ s \notin InTable
  /\ key' = [key EXCEPT ![s] = k]
  /\ \/ Found(k) /\ UNCHANGED table /\ keyLost' = (keyLost /\ s # cstate)
     \/ ~Found(k) /\ table' = InsertAt(table, Place(k), s) /\ keyLost' = (keyLost /\ s # cstate)
     \/ ~Found(k) /\ UNCHANGED table /\ keyLost' = (keyLost \/ s = cstate)
  /\ UNCHANGED <<evttable, reachable, cstate, handling, crashed>>

\* state_add_evt; ST_EXISTS and ST_NOMEM change nothing.
AddEvt(s, e, newstate) ==
  /\ ~crashed
  /\ ~Knows(s, e)
  /\ Cardinality(UNION {{t} \X DOMAIN evttable[t] : t \in States}) < MaxEvts
  /\ evttable' = [evttable EXCEPT ![s] = Append(@, <<e, newstate>>)]
  /\ UNCHANGED <<key, table, reachable, cstate, handling, keyLost, crashed>>

\* state_rem_evt of an event whose callback does not run.
RemEvt(s, i) ==
  /\ ~crashed
  /\ i \in DOMAIN evttable[s]
  /\ handling # <<s, evttable[s][i]>>
  /\ evttable' = [evttable EXCEPT ![s] = RemoveAt(@, i)]
  /\ UNCHANGED <<key, table, reachable, cstate, handling, keyLost, crashed>>

\* The iterator yields an entry unless it follows another one of the last bucket.
StYielded == {i \in DOMAIN table : i > 1 => key[table[i - 1]] % NBuckets # NBuckets - 1}
EvtYielded(s) ==
  {i \in DOMAIN evttable[s] :
     evttable[s][i][1] % EvtBuckets = EvtBuckets - 1 =>
       \A j \in 1..(i - 1) : evttable[s][j][1] % EvtBuckets # EvtBuckets - 1}

\* Where the events of s lead to, and where those do that the iterator yields.
Successors(s) == {x[2] : x \in ToSet(evttable[s])}
Followed(s)   == {evttable[s][i][2] : i \in EvtYielded(s)}

\* Mutation: the transitions of unreachable states count too.
MarkedFromAll(flags) == flags \cup UNION {Followed(s) : s \in InTable}

\* fsm_mark_reachable_states: one pass over the states with what has been marked
\* so far.  Null is among them if evt_newstate of some event was null.
Marked(flags) ==
  LET pass[n \in 0..Len(table)] ==
        IF n = 0 THEN flags
        ELSE IF n \in StYielded /\ table[n] \in pass[n - 1]
             THEN pass[n - 1] \cup Followed(table[n])
             ELSE pass[n - 1]
  IN  pass[Len(table)]

\* fsm_set_state, by the client or by a callback, with the key of a state that
\* the table has.  A flag that is written through a null pointer ends the program.
SetState(s) ==
  /\ ~crashed
  /\ s \in InTable
  /\ LET marked == Marked(reachable \cup {s})
     IN  IF Null \in marked
         THEN crashed' = TRUE /\ UNCHANGED <<reachable, cstate, keyLost>>
         ELSE /\ reachable' = marked /\ cstate' = s /\ keyLost' = FALSE
              /\ UNCHANGED crashed
  /\ UNCHANGED <<key, table, evttable, handling>>

\* fsm_process_event up to the callback; an unknown event changes nothing.
ProcessEvent(x) ==
  /\ ~crashed
  /\ handling = Null
  /\ cstate # Null
  /\ x \in ToSet(evttable[cstate])
  /\ handling' = <<cstate, x>>
  /\ UNCHANGED <<key, table, evttable, reachable, cstate, keyLost, crashed>>

\* Mutation: the new state is not looked up.
TransitionUnchecked ==
  /\ ~crashed
  /\ handling # Null
  /\ cstate' = IF handling[2][2] = Null THEN cstate ELSE handling[2][2]
  /\ handling' = Null
  /\ keyLost' = (keyLost /\ handling[2][2] = Null)
  /\ UNCHANGED <<key, table, evttable, reachable, crashed>>

\* ... and after it.  The new state, if there is one, is looked up by its key.
Transition ==
  /\ ~crashed
  /\ handling # Null
  /\ LET newstate == handling[2][2]
     IN  IF newstate # Null /\ Found(key[newstate])
         THEN cstate' = newstate /\ keyLost' = FALSE
         ELSE UNCHANGED <<cstate, keyLost>>
  /\ handling' = Null
  /\ UNCHANGED <<key, table, evttable, reachable, crashed>>

-----------------------------------------------------------------------------

Next ==
  \/ \E s \in States, k \in StKeys : AddState(s, k)
  \/ \E s \in States, e \in Events, newstate \in States \cup {Null} : AddEvt(s, e, newstate)
  \/ \E s \in States, i \in 1..MaxEvts : RemEvt(s, i)
  \/ \E s \in States : SetState(s)
  \/ \E x \in Event : ProcessEvent(x)
  \/ Transition

Spec == Init /\ [][Next]_vars

-----------------------------------------------------------------------------

\* Types of the state.
TypeOK ==
  /\ key \in [States -> StKeys]
  /\ table \in Seq(States)
  /\ evttable \in [States -> Seq(Event)]
  /\ reachable \subseteq States
  /\ cstate \in States \cup {Null}
  /\ handling \in (States \X Event) \cup {Null}

\* A search by key has at most one answer, although fsm_add_state writes keys
\* of states it then does not add (fsm.c:76-80).
UniqueKeys == \A s, t \in InTable : key[s] = key[t] => s = t

\* The key fsm_get_current_state returns is one the table knows, through refused
\* additions, key clashes and callbacks that set the state, except after one
\* history: the current state, which a key clash made current without its being
\* in the table, is added under a new key and malloc fails (fsm.c:76, 250-256).
CurrentKeyKnown ==
  cstate # Null => Found(key[cstate]) \/ (keyLost /\ cstate \notin InTable)

\* What fsm.c takes a key for: the name of one state, also when a state is set
\* or looked up by it (fsm.c:124, 250-256).
KeysSound == TypeOK /\ UniqueKeys /\ CurrentKeyKnown

\* The states some path of transitions leads to from S, through states of the
\* table, S included; Null, if an event on the way has no new state.
Reach(S) ==
  LET layer[n \in 0..(Cardinality(States) + 1)] ==
        IF n = 0 THEN S
        ELSE layer[n - 1] \cup UNION {Successors(s) : s \in InTable \cap layer[n - 1]}
  IN  layer[Cardinality(States) + 1]

\* fsm_set_state marks no state that the marked ones do not lead to.  Of those
\* that were marked, and of the new current state, it follows every transition
\* that the iterators yield, and a null one among them, or a null one that they
\* lead to, is the only thing that ends the program (fsm.c:322-337, htable.c:284).
MarksOneStep ==
  [][ \A s \in States :
        SetState(s) =>
          IF crashed'
          THEN Null \in Reach(reachable \cup {s})
          ELSE /\ reachable' \subseteq Reach(reachable \cup {s}) \ {Null}
               /\ \A i \in StYielded :
                    table[i] \in reachable \cup {s} => Followed(table[i]) \subseteq reachable' ]_vars

\* "we guarantee that states' flags are always in accordance with reality"
\* (fsm.c:131-132): after fsm_set_state a state is marked if and only if marked
\* states lead to it.
FlagsExact ==
  [][ \A s \in States :
        SetState(s) /\ ~crashed' => reachable' = Reach(reachable \cup {s}) ]_vars
=============================================================================
