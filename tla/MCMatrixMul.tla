---------------------------- MODULE MCMatrixMul ----------------------------
(* Matrices whose product has more columns than rows. *)
EXTENDS MatrixMul

Entries(r, c) == [i \in Below(r) |-> [j \in Below(c) |-> i + j + 1]]
Mat(r, c) == [rows |-> r, cols |-> c, data |-> Entries(r, c)]

MCInputs == {[a |-> Mat(2, 1), b |-> Mat(1, 3)]}
=============================================================================
