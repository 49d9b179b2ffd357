----------------------------- MODULE MatrixMul -----------------------------
(***************************************************************************)
(* pthreads/matrixmul/matrixmul.c: main reads two matrices, starts a       *)
(* thread per cell of their product, joins them and prints it.             *)
(*                                                                         *)
(* Any malloc, fopen or pthread_create may fail.  A matrix is allocated    *)
(* block by block: its struct, the array of rows, then each row.  Cells    *)
(* are numbered by rows.  mulvect takes two size_t apart as ints, in the   *)
(* order of a little-endian machine.  Where size_t is wider than int,      *)
(* fscanf's "%u" leaves the upper halves of the dimensions as the stack    *)
(* has them: zero here, as no allocation succeeds with others.             *)
(***************************************************************************)
EXTENDS Integers

CONSTANTS
  Inputs,       \* the pairs of matrices the two files may hold
  Garbage,      \* what fresh memory may hold
  IntsPerSize   \* sizeof(size_t) / sizeof(int)

\* The indices of n elements.
Below(n) == 0..(n - 1)

IsMatrix(m) ==
  /\ m.rows \in Nat \ {0} /\ m.cols \in Nat \ {0}
  /\ m.data \in [Below(m.rows) -> [Below(m.cols) -> Int]]

InputsAssumption ==
  /\ \A in \in Inputs : IsMatrix(in.a) /\ IsMatrix(in.b)
  /\ Garbage \subseteq Int
  /\ IntsPerSize \in {1, 2}

VARIABLES
  input,    \* the contents of the files: mat1 and mat2 once read
  main,     \* where main is
  mdepth,   \* main's "allocation depth"
  blocks,   \* blocks[o]: how many blocks of o are allocated
  made,     \* i and j: the number of threads created
  joined,   \* i of the joining loop
  failed,   \* pthread_create has failed
  v,        \* v[k]: a row and a column
  tid,      \* tid[k]: the thread, named by its cell
  mat3,     \* mat3->data
  printed,  \* what matrix_print has printed
  pc,       \* where each thread is
  local     \* each thread's row, col, i and the cell value it has loaded

vars == <<input, main, mdepth, blocks, made, joined, failed, v, tid, mat3, printed, pc, local>>

Mats    == {"mat1", "mat2", "mat3"}
Objects == Mats \cup {"v", "tid"}
Rows    == input.a.rows
Cols    == input.b.cols
Inner   == input.a.cols
Threads == Below(Rows * Cols)
RowsOf(m) == IF m = "mat2" THEN input.b.rows ELSE input.a.rows
Size(o)   == IF o \in Mats THEN RowsOf(o) + 2 ELSE 1

NoThread == -1
Empty == <<>>
FreshLocal == [row |-> 0, col |-> 0, i |-> 0, value |-> 0]

\* Cells and slots before they are written hold garbage.
Init ==
  /\ input \in Inputs
  /\ main = "mat1"
  /\ mdepth = 0
  /\ blocks = [o \in Objects |-> 0]
  /\ made = 0 /\ joined = 0 /\ failed = FALSE
  /\ v = [k \in Threads |-> <<0, 0>>]
  /\ tid = [k \in Threads |-> NoThread]
  /\ \E g \in Garbage : mat3 = [r \in Below(Rows) |-> [c \in Below(Cols) |-> g]]
  /\ printed = Empty
  /\ pc = [t \in Threads |-> "none"]
  /\ local = [t \in Threads |-> FreshLocal]

threads == <<v, tid, mat3, printed, pc, local, made, joined, failed>>

-----------------------------------------------------------------------------
(* main: files and memory *)

Then == [mat1 |-> "mat2", mat2 |-> "check", mat3 |-> "v", v |-> "tid", tid |-> "create"]

\* The depth counts objects; a matrix is there when its last row is.
Alloc(o) ==
  /\ main = o
  /\ blocks' = [blocks EXCEPT ![o] = @ + 1]
  /\ IF blocks'[o] = Size(o)
     THEN mdepth' = mdepth + 1 /\ main' = Then[o]
     ELSE UNCHANGED <<mdepth, main>>
  /\ UNCHANGED <<input, threads>>

\* matrix_alloc's own depth when its next malloc fails: 3 stands for any rows.
LocalDepth(n) == IF n <= 2 THEN n ELSE 3

\* What its switch frees at depth d, of n blocks.
FreedAt(d, n) == IF d = 3 THEN n ELSE d

AllocFails(o) ==
  /\ main = o
  /\ blocks' = [blocks EXCEPT ![o] = @ - FreedAt(LocalDepth(@), @)]
  /\ main' = "cleanup"
  /\ UNCHANGED <<input, mdepth, threads>>

OpenFails ==
  /\ main \in {"mat1", "mat2"} /\ blocks[main] = 0
  /\ main' = "cleanup"
  /\ UNCHANGED <<input, mdepth, blocks, threads>>

Check ==
  /\ main = "check"
  /\ main' = IF input.a.cols = input.b.rows THEN "mat3" ELSE "cleanup"
  /\ UNCHANGED <<input, mdepth, blocks, threads>>

-----------------------------------------------------------------------------
(* main: threads *)

\* k: the slot of cell (i, j) in v and tid.
Slot(i, j) == i * Rows + j

CreateThread ==
  /\ main = "create" /\ made < Rows * Cols
  /\ LET k == Slot(made \div Cols, made % Cols)
     IN  /\ v' = [v EXCEPT ![k] = <<made \div Cols, made % Cols>>]
         /\ \/ /\ tid' = [tid EXCEPT ![k] = made]
               /\ pc' = [pc EXCEPT ![made] = "row"]
               /\ made' = made + 1
               /\ UNCHANGED <<main, failed>>
            \/ /\ failed' = TRUE
               /\ main' = "cleanup"
               /\ UNCHANGED <<tid, pc, made>>
  /\ UNCHANGED <<input, mdepth, blocks, joined, mat3, printed, local>>

\* Mutation: main does not wait for the thread it joins.
JoinNothing ==
  /\ main = "create" /\ made = Rows * Cols
  /\ joined < Rows * Cols
  /\ joined' = joined + 1
  /\ UNCHANGED <<input, main, mdepth, blocks, made, failed, v, tid, mat3, printed, pc, local>>

Join ==
  /\ main = "create" /\ made = Rows * Cols
  /\ joined < Rows * Cols
  /\ pc[tid[joined]] = "done"
  /\ joined' = joined + 1
  /\ UNCHANGED <<input, main, mdepth, blocks, made, failed, v, tid, mat3, printed, pc, local>>

MatrixPrint ==
  /\ main = "create" /\ joined = Rows * Cols
  /\ printed' = mat3
  /\ main' = "cleanup"
  /\ UNCHANGED <<input, mdepth, blocks, made, joined, failed, v, tid, mat3, pc, local>>

\* The objects that the fall-through switch frees at depth d.
FreedByMain(d) == {<<"mat1", "mat2", "mat3", "v", "tid">>[n] : n \in 1..d}

Cleanup ==
  /\ main = "cleanup"
  /\ blocks' = [o \in Objects |-> IF o \in FreedByMain(mdepth) THEN 0 ELSE blocks[o]]
  /\ main' = "return"
  /\ UNCHANGED <<input, mdepth, threads>>

\* The process ends, with any thread still running.  (Until then such a thread
\* finds in freed memory what was there.)
Return ==
  /\ main = "return"
  /\ main' = "exit"
  /\ UNCHANGED <<input, mdepth, blocks, threads>>

Main ==
  \/ \E o \in Objects : Alloc(o) \/ AllocFails(o)
  \/ OpenFails \/ Check \/ CreateThread \/ Join \/ MatrixPrint \/ Cleanup \/ Return

-----------------------------------------------------------------------------
(* mulvect *)

Step(t, from, to) ==
  /\ pc[t] = from /\ main # "exit"
  /\ pc' = [pc EXCEPT ![t] = to]
  /\ UNCHANGED <<input, main, mdepth, blocks, made, joined, failed, v, tid, printed>>

SlotOf(t) == Slot(t \div Cols, t % Cols)

\* The n-th int of a row and a column, two numbers of size_t below 2^31.
Word(pair, n) == IF IntsPerSize = 1 THEN pair[n] ELSE <<pair[1], 0, pair[2], 0>>[n]

FetchRow(t) ==
  /\ Step(t, "row", "col")
  /\ local' = [local EXCEPT ![t].row = Word(v[SlotOf(t)], 1)]
  /\ UNCHANGED mat3

FetchCol(t) ==
  /\ Step(t, "col", "zero")
  /\ local' = [local EXCEPT ![t].col = Word(v[SlotOf(t)], 2)]
  /\ UNCHANGED mat3

\* Mutation: the cell is not cleared first.
ZeroNothing(t) ==
  /\ Step(t, "zero", "load")
  /\ UNCHANGED <<local, mat3>>

Zero(t) ==
  /\ Step(t, "zero", "load")
  /\ mat3' = [mat3 EXCEPT ![local[t].row][local[t].col] = 0]
  /\ UNCHANGED local

Load(t) ==
  /\ local[t].i < Inner
  /\ Step(t, "load", "store")
  /\ local' = [local EXCEPT ![t].value = mat3[local[t].row][local[t].col]]
  /\ UNCHANGED mat3

Store(t) ==
  /\ Step(t, "store", "load")
  /\ LET l == local[t]
     IN  mat3' = [mat3 EXCEPT ![l.row][l.col] =
                    l.value + input.a.data[l.row][l.i] * input.b.data[l.i][l.col]]
  /\ local' = [local EXCEPT ![t].i = @ + 1]

Exit(t) ==
  /\ local[t].i = Inner
  /\ Step(t, "load", "done")
  /\ UNCHANGED <<local, mat3>>

Thread(t) ==
  \/ FetchRow(t) \/ FetchCol(t) \/ Zero(t) \/ Load(t) \/ Store(t) \/ Exit(t)

Next == Main \/ \E t \in Threads : Thread(t)

Spec == Init /\ [][Next]_vars

-----------------------------------------------------------------------------

Running(t) == pc[t] \notin {"none", "done"}

\* Types of the state.
TypeOK ==
  /\ main \in Objects \cup {"check", "create", "cleanup", "return", "exit"}
  /\ mdepth \in 0..5
  /\ blocks \in [Objects -> Nat]
  /\ made \in 0..(Rows * Cols) /\ joined \in 0..made
  /\ v \in [Threads -> Below(Rows) \X Below(Cols)]
  /\ tid \in [Threads -> Threads \cup {NoThread}]
  /\ mat3 \in [Below(Rows) -> [Below(Cols) -> Int]]
  /\ pc \in [Threads -> {"none", "row", "col", "zero", "load", "store", "done"}]

\* "That way we can keep track of the allocation depth and easily free the
\* memory whenever needed" (matrixmul.c:52-54): wherever main gives up, what its
\* switch frees is what is allocated, every block of it and nothing else.
FreesExactly ==
  main = "cleanup" =>
    \A o \in Objects : blocks[o] = IF o \in FreedByMain(mdepth) THEN Size(o) ELSE 0

\* "v[k] holds the (i, j) pair in the k-th computation" (matrixmul.c:82), for as
\* long as its thread may read it: no later cell takes its slot.
PairsKept == \A t \in Threads : Running(t) => v[SlotOf(t)] = <<t \div Cols, t % Cols>>

\* The sums of the first n terms of the product's cell (r, c).
Sums(r, c) ==
  LET sum[n \in 0..Inner] ==
        IF n = 0 THEN 0 ELSE sum[n - 1] + input.a.data[r][n - 1] * input.b.data[n - 1][c]
  IN  sum

Product == [r \in Below(Rows) |-> [c \in Below(Cols) |-> Sums(r, c)[Inner]]]

\* Where size_t is as wide as int, what is printed is the product, whatever the
\* threads' interleaving and the fresh memory's contents (matrixmul.c:117, 233-238).
\* Elsewhere the second int is the upper half of the row, so that every thread works
\* on the first column.
PrintsProduct == IntsPerSize = 1 /\ printed # Empty => printed = Product

\* The matrices and v outlive the threads that use them, unless pthread_create
\* failed: then main frees them without joining the threads it has started
\* (matrixmul.c:102-105).
OutlivesThreads ==
  main \in {"return", "exit"} /\ (\E t \in Threads : Running(t)) => failed

\* main's memory on every way out: nothing leaks, nothing is freed twice, and
\* nothing is freed under a thread except when pthread_create has failed
\* (matrixmul.c:119-129).
MemorySafe == TypeOK /\ FreesExactly /\ OutlivesThreads
=============================================================================
