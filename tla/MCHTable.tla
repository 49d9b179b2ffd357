------------------------------ MODULE MCHTable ------------------------------
(* Constants for model-checking HTable. *)
EXTENDS HTable

\* Keys are numbers that hash to themselves, as fsm_hashf and state_hashf do.
MCKeys == {0, 1, 3, 4}
MCHash == [k \in Keys |-> k]
=============================================================================
