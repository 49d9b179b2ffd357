----------------------------- MODULE Dictionary -----------------------------
(***************************************************************************)
(* What genstructs/htable promises: a finite map from keys to data, with   *)
(* the result of each call.  Only an insertion may fail for lack of memory,*)
(* and then it changes nothing.                                            *)
(***************************************************************************)
EXTENDS Integers

CONSTANTS Keys, Data, Absent

VARIABLES
  map,      \* map[k]: the data stored under k, or Absent
  answer    \* what the last call returned

dictVars == <<map, answer>>

DictInit == map = [k \in Keys |-> Absent] /\ answer = "OK"

DictInsert(k, d) ==
  \/ /\ map[k] = Absent
     /\ map' = [map EXCEPT ![k] = d]
     /\ answer' = "OK"
  \/ /\ map[k] = Absent
     /\ answer' = "NOMEM"
     /\ UNCHANGED map
  \/ /\ map[k] # Absent
     /\ answer' = "EXISTS"
     /\ UNCHANGED map

DictRemove(k) ==
  \/ /\ map[k] # Absent
     /\ map' = [map EXCEPT ![k] = Absent]
     /\ answer' = "OK"
  \/ /\ map[k] = Absent
     /\ answer' = "NOTFOUND"
     /\ UNCHANGED map

DictNext ==
  \E k \in Keys : DictRemove(k) \/ \E d \in Data : DictInsert(k, d)

DictSpec == DictInit /\ [][DictNext]_dictVars
=============================================================================
