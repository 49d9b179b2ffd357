----------------------------- MODULE MCFsmQueue -----------------------------
(* Constants for model-checking FsmQueue. *)
EXTENDS FsmQueue

CONSTANTS p1, p2, c1, m     \* threads

MCNone == {}
MCProducers == {p1, p2}
MCCounter == {c1}
MCLocked == {p1, p2, c1}
MCMain == {m}
MCRace == {p1, c1}
=============================================================================
