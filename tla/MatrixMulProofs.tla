-------------------------- MODULE MatrixMulProofs --------------------------
(***************************************************************************)
(* Proofs about matrixmul.c: what main frees on every way out, for         *)
(* matrices of any size; and, where each cell has a slot of its own, that  *)
(* no pair is overwritten while its thread may read it, that the memory    *)
(* outlives the threads, that the product is printed, and that main joins  *)
(* what it started and exits.                                              *)
(***************************************************************************)
EXTENDS MatrixMul, Numbers

-----------------------------------------------------------------------------
(* main's memory *)

\* The order of main's allocations.
Rank == [mat1 |-> 1, mat2 |-> 2, mat3 |-> 3, v |-> 4, tid |-> 5]

\* How many objects are there for good, while main is at p.
Done(p) ==
  IF p \in Objects THEN Rank[p] - 1 ELSE IF p = "check" THEN 2 ELSE 5

\* The objects up to mdepth are complete, the next one may be in parts and there
\* is nothing else.
Allocated ==
  /\ mdepth \in 0..5 /\ blocks \in [Objects -> Nat]
  /\ \A o \in Objects : Size(o) \in Nat \ {0}
  /\ main \in Objects \cup {"check", "create"} => mdepth = Done(main)
  /\ main \in Objects \cup {"check", "create", "cleanup"} =>
       \A o \in Objects :
         /\ Rank[o] <= mdepth => blocks[o] = Size(o)
         /\ Rank[o] > mdepth /\ o # main => blocks[o] = 0
         /\ o = main => blocks[o] < Size(o)

Frees ==
  /\ input \in Inputs
  /\ main \in Objects \cup {"check", "create", "cleanup", "return", "exit"}
  /\ Allocated

\* The sizes of the matrices.
LEMMA Shapes ==
  ASSUME InputsAssumption, input \in Inputs
  PROVE  /\ Rows \in Nat \ {0} /\ Cols \in Nat \ {0} /\ Inner \in Nat \ {0}
         /\ input.b.rows \in Nat \ {0}
         /\ Rows * Cols \in Nat \ {0}
         /\ \A r \in Below(Rows), x \in Below(Inner) : input.a.data[r][x] \in Int
         /\ \A x \in Below(input.b.rows), c \in Below(Cols) : input.b.data[x][c] \in Int
<1>1. IsMatrix(input.a) /\ IsMatrix(input.b)
  BY DEF InputsAssumption
<1>2. Rows \in Nat \ {0} /\ Cols \in Nat \ {0} /\ Inner \in Nat \ {0} /\ input.b.rows \in Nat \ {0}
  BY <1>1 DEF IsMatrix, Rows, Cols, Inner
<1>3. \A r \in Below(Rows), x \in Below(Inner) : input.a.data[r][x] \in Int
  BY <1>1 DEF IsMatrix, Rows, Inner
<1>4. \A x \in Below(input.b.rows), c \in Below(Cols) : input.b.data[x][c] \in Int
  BY <1>1 DEF IsMatrix, Cols
<1>5. \A a, b \in Nat \ {0} : a * b \in Nat \ {0}
  OBVIOUS
<1> QED BY <1>2, <1>3, <1>4, <1>5

\* Each object has a rank of its own.
LEMMA Ranks ==
  /\ \A o \in Objects : Rank[o] \in 1..5 /\ o \in {"mat1", "mat2", "mat3", "v", "tid"}
  /\ \A o, p \in Objects : Rank[o] = Rank[p] => o = p
  /\ \A d \in 0..5, o \in Objects : o \in FreedByMain(d) <=> Rank[o] <= d
<1>1. Objects = {"mat1", "mat2", "mat3", "v", "tid"}
  BY DEF Objects, Mats
<1>2. /\ Rank["mat1"] = 1 /\ Rank["mat2"] = 2 /\ Rank["mat3"] = 3 /\ Rank["v"] = 4 /\ Rank["tid"] = 5
  BY DEF Rank
<1>3. \A o \in Objects : Rank[o] \in 1..5 /\ o \in {"mat1", "mat2", "mat3", "v", "tid"}
  BY <1>1, <1>2
<1>4. \A o, p \in Objects : Rank[o] = Rank[p] => o = p
  BY <1>1, <1>2
<1>5. ASSUME NEW d \in 0..5, NEW o \in Objects PROVE o \in FreedByMain(d) <=> Rank[o] <= d
  <2> DEFINE objs == <<"mat1", "mat2", "mat3", "v", "tid">>
  <2>1. /\ objs[1] = "mat1" /\ objs[2] = "mat2" /\ objs[3] = "mat3" /\ objs[4] = "v" /\ objs[5] = "tid"
    OBVIOUS
  <2>2. FreedByMain(d) = {objs[n] : n \in 1..d}
    BY DEF FreedByMain
  <2> HIDE DEF objs
  <2>3. objs[Rank[o]] = o
    BY <1>1, <1>2, <2>1
  <2>4. \A n \in 1..5 : objs[n] \in Objects /\ Rank[objs[n]] = n
    <3>1. \A n \in 1..5 : n = 1 \/ n = 2 \/ n = 3 \/ n = 4 \/ n = 5
      OBVIOUS
    <3> QED BY <1>1, <1>2, <2>1, <3>1
  <2>5. ASSUME Rank[o] <= d PROVE o \in FreedByMain(d)
    <3>1. Rank[o] \in 1..d
      BY <1>3, <2>5
    <3> QED BY <2>2, <2>3, <3>1
  <2>6. ASSUME o \in FreedByMain(d) PROVE Rank[o] <= d
    <3>1. PICK n \in 1..d : o = objs[n]
      BY <2>2, <2>6
    <3>2. n \in 1..5
      OBVIOUS
    <3> QED BY <2>4, <3>1, <3>2
  <2> QED BY <2>5, <2>6
<1> QED BY <1>3, <1>4, <1>5

\* matrix_alloc frees all its blocks, at whichever of its depths it gives up.
LEMMA FreesItsOwn == ASSUME NEW n \in Nat PROVE FreedAt(LocalDepth(n), n) = n
BY DEF FreedAt, LocalDepth

\* At the beginning nothing is allocated.
LEMMA FreesInit == ASSUME InputsAssumption, Init PROVE Frees
<1>1. input \in Inputs /\ main = "mat1" /\ mdepth = 0 /\ blocks = [o \in Objects |-> 0]
  BY DEF Init
<1>2. "mat1" \in Objects /\ Rank["mat1"] = 1
  BY DEF Objects, Mats, Rank
<1>3. \A o \in Objects : Size(o) \in Nat \ {0}
  BY <1>1, Shapes DEF Size, RowsOf, Rows
<1>4. \A o \in Objects : blocks[o] = 0 /\ Rank[o] > 0
  BY <1>1, Ranks
<1>5. blocks \in [Objects -> Nat] /\ Done("mat1") = 0
  BY <1>1, <1>2 DEF Done
<1>6. \A o \in Objects : Rank[o] \in 1..5
  BY Ranks
<1>7. \A o \in Objects : Rank[o] > mdepth /\ (o = main => blocks[o] < Size(o))
  <2>1. \A o \in Objects : Rank[o] > mdepth /\ 0 < Size(o)
    BY <1>1, <1>3, <1>6
  <2> QED BY <1>4, <2>1
<1>8. mdepth \in 0..5 /\ mdepth = Done(main)
  BY <1>1, <1>5
<1>9. \A o \in Objects : ~(Rank[o] <= mdepth)
  BY <1>1, <1>6
<1>10. Allocated
  BY <1>3, <1>4, <1>5, <1>7, <1>8, <1>9 DEF Allocated
<1> QED BY <1>1, <1>2, <1>10 DEF Frees

\* A malloc that succeeds.
LEMMA AllocFrees ==
  ASSUME Frees, NEW o \in Objects, Alloc(o) PROVE Frees'
<1>1. /\ main = o /\ blocks' = [blocks EXCEPT ![o] = @ + 1] /\ input' = input
      /\ IF blocks'[o] = Size(o) THEN mdepth' = mdepth + 1 /\ main' = Then[o] ELSE UNCHANGED <<mdepth, main>>
  BY DEF Alloc
<1>2. /\ mdepth \in 0..5 /\ blocks \in [Objects -> Nat] /\ \A p \in Objects : Size(p) \in Nat \ {0}
      /\ mdepth = Rank[o] - 1
      /\ \A p \in Objects : /\ Rank[p] <= mdepth => blocks[p] = Size(p)
                            /\ Rank[p] > mdepth /\ p # o => blocks[p] = 0
                            /\ p = o => blocks[p] < Size(p)
  BY <1>1 DEF Frees, Allocated, Done
<1>3. \A p \in Objects : Size(p)' = Size(p)
  BY <1>1 DEF Size, RowsOf
<1>4. /\ blocks' \in [Objects -> Nat] /\ blocks'[o] = blocks[o] + 1
      /\ \A p \in Objects : p # o => blocks'[p] = blocks[p]
  BY <1>1, <1>2
<1>5. Rank[o] \in 1..5 /\ \A p \in Objects : Rank[p] \in 1..5 /\ (Rank[p] = Rank[o] => p = o)
  BY Ranks
<1>6. CASE blocks'[o] = Size(o)
  <2>1. mdepth' = Rank[o] /\ main' = Then[o]
    BY <1>1, <1>2, <1>5, <1>6
  <2>2. /\ Then[o] \in Objects \cup {"check", "create"} /\ Done(Then[o]) = Rank[o]
        /\ Then[o] \in Objects => Rank[Then[o]] = Rank[o] + 1
    <3>1. /\ Then["mat1"] = "mat2" /\ Then["mat2"] = "check" /\ Then["mat3"] = "v"
          /\ Then["v"] = "tid" /\ Then["tid"] = "create"
      BY DEF Then
    <3>2. Objects = {"mat1", "mat2", "mat3", "v", "tid"}
      BY DEF Objects, Mats
    <3>3. /\ Rank["mat1"] = 1 /\ Rank["mat2"] = 2 /\ Rank["mat3"] = 3 /\ Rank["v"] = 4 /\ Rank["tid"] = 5
      BY DEF Rank
    <3>4. CASE o = "mat1"
      BY <3>1, <3>2, <3>3, <3>4 DEF Done
    <3>5. CASE o = "mat2"
      BY <3>1, <3>2, <3>3, <3>5 DEF Done
    <3>6. CASE o = "mat3"
      BY <3>1, <3>2, <3>3, <3>6 DEF Done
    <3>7. CASE o = "v"
      BY <3>1, <3>2, <3>3, <3>7 DEF Done
    <3>8. CASE o = "tid"
      BY <3>1, <3>2, <3>3, <3>8 DEF Done
    <3> QED BY <3>2, <3>4, <3>5, <3>6, <3>7, <3>8
  <2>3. ASSUME NEW p \in Objects
        PROVE  /\ Rank[p] <= mdepth' => blocks'[p] = Size(p)'
               /\ Rank[p] > mdepth' /\ p # main' => blocks'[p] = 0
               /\ p = main' => blocks'[p] < Size(p)'
    <3>1. CASE p = o
      <4>1. p # main'
        BY <1>5, <2>1, <2>2, <3>1
      <4> QED BY <1>3, <1>5, <1>6, <2>1, <3>1, <4>1
    <3>2. CASE p # o
      <4>1. Rank[p] \in Int /\ Rank[p] # Rank[o] /\ blocks'[p] = blocks[p] /\ Rank[o] \in Int
        BY <1>4, <1>5, <3>2
      <4>2. Rank[p] <= mdepth' => blocks'[p] = Size(p)'
        BY <1>2, <1>3, <2>1, <4>1
      <4>3. Rank[p] > mdepth' => blocks'[p] = 0 /\ blocks'[p] < Size(p)'
        BY <1>2, <1>3, <2>1, <3>2, <4>1
      <4>4. p = main' => Rank[p] > mdepth'
        BY <1>5, <2>1, <2>2
      <4> QED BY <4>2, <4>3, <4>4
    <3> QED BY <3>1, <3>2
  <2>4. Allocated'
    BY <1>2, <1>3, <1>4, <1>5, <2>1, <2>2, <2>3 DEF Allocated
  <2> QED BY <1>1, <2>1, <2>2, <2>4 DEF Frees
<1>7. CASE blocks'[o] # Size(o)
  <2>1. mdepth' = mdepth /\ main' = o
    BY <1>1, <1>7
  <2>2. blocks'[o] < Size(o)
    BY <1>2, <1>4, <1>7
  <2>3. ASSUME NEW p \in Objects
        PROVE  /\ Rank[p] <= mdepth' => blocks'[p] = Size(p)'
               /\ Rank[p] > mdepth' /\ p # main' => blocks'[p] = 0
               /\ p = main' => blocks'[p] < Size(p)'
    <3>1. Rank[o] > mdepth
      BY <1>2, <1>5
    <3>2. CASE p = o
      <4>1. ~(Rank[p] <= mdepth)
        BY <1>2, <1>5, <3>1, <3>2
      <4>2. p = main' /\ mdepth' = mdepth /\ blocks'[p] < Size(p)'
        BY <1>3, <2>1, <2>2, <3>2
      <4> QED BY <4>1, <4>2
    <3>3. CASE p # o
      BY <1>2, <1>3, <1>4, <2>1, <3>3
    <3> QED BY <3>2, <3>3
  <2>4. mdepth' = Done(main')
    BY <1>2, <2>1 DEF Done
  <2>5. Allocated'
    BY <1>2, <1>3, <1>4, <2>1, <2>3, <2>4 DEF Allocated
  <2> QED BY <1>1, <2>1, <2>5 DEF Frees
<1> QED BY <1>6, <1>7

\* A malloc or fopen that fails, with what matrix_alloc frees by itself.
LEMMA AllocFailsFrees ==
  ASSUME Frees, \/ \E o \in Objects : AllocFails(o)
                \/ OpenFails
  PROVE  Frees'
<1>1. /\ main \in Objects /\ main' = "cleanup" /\ mdepth' = mdepth /\ input' = input
      /\ blocks' \in [Objects -> Nat] /\ blocks'[main] = 0
      /\ \A p \in Objects : p # main => blocks'[p] = blocks[p]
  <2>1. CASE OpenFails
    BY <2>1 DEF OpenFails, Frees, Allocated, Objects, Mats
  <2>2. CASE \E o \in Objects : AllocFails(o)
    <3>1. PICK o \in Objects : AllocFails(o)
      BY <2>2
    <3>2. blocks[o] \in Nat /\ blocks \in [Objects -> Nat]
      BY DEF Frees, Allocated
    <3>3. blocks[o] - FreedAt(LocalDepth(blocks[o]), blocks[o]) = 0
      BY <3>2, FreesItsOwn
    <3>4. /\ blocks' = [blocks EXCEPT ![o] = 0] /\ main = o
          /\ main' = "cleanup" /\ mdepth' = mdepth /\ input' = input
      BY <3>1, <3>3 DEF AllocFails
    <3> QED BY <3>2, <3>4
  <2> QED BY <2>1, <2>2
<1>2. /\ mdepth \in 0..5 /\ \A p \in Objects : Size(p) \in Nat \ {0}
      /\ mdepth = Rank[main] - 1
      /\ \A p \in Objects : /\ Rank[p] <= mdepth => blocks[p] = Size(p)
                            /\ Rank[p] > mdepth /\ p # main => blocks[p] = 0
  BY <1>1 DEF Frees, Allocated, Done
<1>3. \A p \in Objects : Size(p)' = Size(p)
  BY <1>1 DEF Size, RowsOf
<1>4. \A p \in Objects : Rank[p] \in 1..5
  BY Ranks
<1>5. "cleanup" \notin Objects \cup {"check", "create"}
  BY DEF Objects, Mats
<1>6. ASSUME NEW p \in Objects
      PROVE  /\ Rank[p] <= mdepth' => blocks'[p] = Size(p)'
             /\ Rank[p] > mdepth' => blocks'[p] = 0
  <2>1. CASE p = main
    BY <1>1, <1>2, <1>4, <2>1
  <2>2. CASE p # main
    BY <1>1, <1>2, <1>3, <2>2
  <2> QED BY <2>1, <2>2
<1>7. Allocated'
  BY <1>1, <1>2, <1>3, <1>5, <1>6 DEF Allocated
<1> QED BY <1>1, <1>7 DEF Frees

\* All other steps of main, and those of the threads.
LEMMA OthersFree ==
  ASSUME Frees,
         \/ Check \/ CreateThread \/ Join \/ MatrixPrint \/ Cleanup \/ Return
         \/ \E t \in Threads : Thread(t)
         \/ UNCHANGED vars
  PROVE  Frees'
<1>1. input' = input /\ input \in Inputs
  BY DEF Check, CreateThread, Join, MatrixPrint, Cleanup, Return, Thread, FetchRow, FetchCol, Zero,
         Load, Store, Exit, Step, vars, Frees
<1>2. \A p \in Objects : Size(p)' = Size(p)
  BY <1>1 DEF Size, RowsOf
<1>3. Objects = {"mat1", "mat2", "mat3", "v", "tid"}
  BY DEF Objects, Mats
<1>4. Rank["mat3"] = 3 /\ \A p \in Objects : Rank[p] \in 1..5 /\ (Rank[p] = 3 => p = "mat3")
  <2>1. "mat3" \in Objects /\ Rank["mat3"] = 3
    BY <1>3 DEF Rank
  <2> QED BY <2>1, Ranks
<1>5. CASE Cleanup \/ Return
  <2>1. main' \in {"return", "exit"} /\ mdepth' = mdepth
    BY <1>5 DEF Cleanup, Return
  <2>2. blocks' \in [Objects -> Nat]
    BY <1>5 DEF Cleanup, Return, Frees, Allocated
  <2>3. main' \notin Objects \cup {"check", "create", "cleanup"}
    BY <1>3, <2>1
  <2>4. Allocated'
    BY <1>2, <2>1, <2>2, <2>3 DEF Frees, Allocated
  <2> QED BY <1>1, <2>1, <2>4 DEF Frees
<1>6. CASE Check
  <2>1. /\ main = "check" /\ main' \in {"mat3", "cleanup"} /\ mdepth' = mdepth /\ blocks' = blocks
    BY <1>6 DEF Check
  <2>2. /\ mdepth = 2 /\ blocks \in [Objects -> Nat] /\ \A p \in Objects : Size(p) \in Nat \ {0}
        /\ \A p \in Objects : /\ Rank[p] <= mdepth => blocks[p] = Size(p)
                              /\ Rank[p] > mdepth => blocks[p] = 0
    BY <1>3, <2>1 DEF Frees, Allocated, Done
  <2>3. main' = "mat3" => Done(main') = 2
    BY <1>3, <1>4 DEF Done
  <2>4. ASSUME NEW p \in Objects
        PROVE  /\ Rank[p] <= mdepth' => blocks'[p] = Size(p)'
               /\ Rank[p] > mdepth' => blocks'[p] = 0
               /\ p = main' => blocks'[p] < Size(p)'
    BY <1>2, <1>3, <1>4, <2>1, <2>2
  <2>5. main' \in Objects \cup {"cleanup"} /\ "cleanup" \notin Objects
        /\ (main' = "cleanup" => main' \notin Objects \cup {"check", "create"})
    BY <1>3, <2>1
  <2>6. main' \in Objects \cup {"check", "create"} => mdepth' = Done(main')
    BY <2>1, <2>2, <2>3, <2>5
  <2>7. Allocated'
    BY <1>2, <2>1, <2>2, <2>4, <2>6 DEF Allocated
  <2> QED BY <1>1, <2>1, <2>5, <2>7 DEF Frees
<1>7. CASE CreateThread \/ Join \/ MatrixPrint \/ (\E t \in Threads : Thread(t)) \/ UNCHANGED vars
  <2>1. /\ mdepth' = mdepth /\ blocks' = blocks
        /\ main' = main \/ (main = "create" /\ main' = "cleanup")
    BY <1>7 DEF CreateThread, Join, MatrixPrint, Thread, FetchRow, FetchCol, Zero, Load, Store, Exit,
                Step, vars
  <2>2. CASE main' = main
    <3>1. Allocated'
      BY <1>2, <2>1, <2>2 DEF Frees, Allocated
    <3> QED BY <1>1, <2>2, <3>1 DEF Frees
  <2>3. CASE main = "create" /\ main' = "cleanup"
    <3>1. main \notin Objects /\ main' \notin Objects \cup {"check", "create"}
      BY <1>3, <2>3
    <3>2. Allocated'
      BY <1>2, <2>1, <2>3, <3>1 DEF Frees, Allocated
    <3> QED BY <1>1, <2>3, <3>2 DEF Frees
  <2> QED BY <2>1, <2>2, <2>3, Zenon
<1> QED BY <1>5, <1>6, <1>7, Zenon

\* No step breaks it.
LEMMA FreesNext == ASSUME Frees, [Next]_vars PROVE Frees'
BY AllocFrees, AllocFailsFrees, OthersFree DEF Next, Main

\* What main frees is what there is.
LEMMA FreesIsExact == ASSUME Frees PROVE FreesExactly
<1> SUFFICES ASSUME main = "cleanup", NEW o \in Objects
             PROVE  blocks[o] = IF o \in FreedByMain(mdepth) THEN Size(o) ELSE 0
  BY DEF FreesExactly
<1>1. main \notin Objects /\ mdepth \in 0..5
  BY DEF Frees, Allocated, Objects, Mats
<1>2. (Rank[o] <= mdepth => blocks[o] = Size(o)) /\ (Rank[o] > mdepth => blocks[o] = 0)
  BY <1>1 DEF Frees, Allocated
<1>3. Rank[o] \in 1..5 /\ (o \in FreedByMain(mdepth) <=> Rank[o] <= mdepth)
  BY <1>1, Ranks
<1> QED BY <1>1, <1>2, <1>3

\* For matrices of any shapes and every failure: what main's switch frees at its
\* depth is what is allocated, every block of it and nothing else
\* (matrixmul.c:52-129).
THEOREM FreesAll ==
  ASSUME InputsAssumption
  PROVE  Spec => []FreesExactly
<1>1. Init => Frees
  BY FreesInit
<1>2. Frees /\ [Next]_vars => Frees'
  BY FreesNext
<1>3. Frees => FreesExactly
  BY FreesIsExact
<1> QED BY <1>1, <1>2, <1>3, PTL DEF Spec

-----------------------------------------------------------------------------
(* The threads. *)

\* Each cell has a slot of its own: there is one row, or as many as columns.
OwnSlots ==
  \A in \in Inputs : in.a.cols = in.b.rows => in.a.rows = 1 \/ in.a.rows = in.b.cols

\* The cell of thread t.
Row(t)  == t \div Cols
Col(t)  == t % Cols
Cell(t) == mat3[Row(t)][Col(t)]

\* The column that mulvect works on.
TakenCol(t) == Word(<<Row(t), Col(t)>>, 2)

Matched == input.a.cols = input.b.rows

\* How far main is, and why it gives up.
Begun ==
  /\ made \in 0..(Rows * Cols) /\ joined \in 0..made
  /\ main \notin {"create", "cleanup", "return", "exit"} => made = 0
  /\ main \in {"mat3", "v", "tid", "create"} \/ made # 0 => Matched
  /\ joined # 0 => made = Rows * Cols
  /\ main \in {"cleanup", "return", "exit"} => failed \/ made = 0 \/ joined = Rows * Cols

\* Threads that were created have a pair and an id, those that were joined are done.
Created ==
  /\ v \in [Threads -> Below(Rows) \X Below(Cols)]
  /\ tid \in [Threads -> Threads \cup {NoThread}]
  /\ \A t \in Threads :
       /\ t < made => v[t] = <<Row(t), Col(t)>> /\ tid[t] = t
       /\ t < joined => pc[t] = "done"

Places == {"none", "row", "col", "zero", "load", "store", "done"}

\* Where the threads are.
Placed ==
  /\ pc \in [Threads -> Places]
  /\ \A t \in Threads : pc[t] = "none" <=> made <= t

\* What they have read.
Working ==
  /\ local \in [Threads -> [row : Int, col : Int, i : 0..Inner, value : Int]]
  /\ \A t \in Threads :
       /\ pc[t] \in {"col", "zero", "load", "store"} => local[t].row = Row(t)
       /\ pc[t] \in {"zero", "load", "store"} => local[t].col = TakenCol(t)
       /\ pc[t] \in {"none", "row", "col", "zero"} => local[t].i = 0
       /\ pc[t] = "store" => local[t].i < Inner

\* A cell holds the sum of the terms its thread has added, if each thread works on
\* the cell it was created for.
Computed ==
  /\ mat3 \in [Below(Rows) -> [Below(Cols) -> Int]]
  /\ IntsPerSize = 1 =>
       \A t \in Threads :
         /\ pc[t] \in {"load", "store"} => Cell(t) = Sums(Row(t), Col(t))[local[t].i]
         /\ pc[t] = "store" => local[t].value = Cell(t)
         /\ pc[t] = "done" => Cell(t) = Sums(Row(t), Col(t))[Inner]

Works == input \in Inputs /\ Begun /\ Created /\ Placed /\ Working /\ Computed /\ PrintsProduct

\* Division by the number of columns gives each number a cell and each cell a number.
LEMMA CellsOf ==
  ASSUME NEW r \in Nat \ {0}, NEW c \in Nat \ {0}
  PROVE  /\ \A t \in Below(r * c) : /\ t \div c \in Below(r) /\ t % c \in Below(c)
                                    /\ t = (t \div c) * c + (t % c)
         /\ \A x \in Below(r), y \in Below(c) :
              x * c + y \in Below(r * c) /\ (x * c + y) \div c = x /\ (x * c + y) % c = y
<1>1. r * c \in Nat
  OBVIOUS
<1>2. ASSUME NEW t \in Below(r * c)
      PROVE  t \div c \in Below(r) /\ t % c \in Below(c) /\ t = (t \div c) * c + (t % c)
  <2>1. t \in Nat /\ t < r * c
    BY <1>1 DEF Below
  <2>2. t % c \in 0..(c - 1) /\ t \div c \in Nat /\ t = (t \div c) * c + (t % c)
    BY <2>1, DivMod
  <2>3. t \div c < r
    <3> DEFINE q == t \div c
               m == t % c
    <3>1. m \in 0..(c - 1) /\ q \in Nat
      BY <2>2
    <3>2. t = q * c + m
      BY <2>2, Zenon
    <3> HIDE DEF q, m
    <3>3. ~(r <= q)
      <4> SUFFICES ASSUME r <= q PROVE FALSE
        OBVIOUS
      <4>1. PICK d \in Nat : q = r + d
        <5>1. q - r \in Nat /\ q = r + (q - r)
          BY <3>1
        <5> QED BY <5>1
      <4>2. q * c = r * c + d * c /\ d * c >= 0
        BY <4>1
      <4> QED BY <1>1, <2>1, <3>1, <3>2, <4>2
    <3>4. q < r
      BY <3>1, <3>3
    <3> QED BY <3>4 DEF q
  <2>4. t \div c \in Below(r) /\ t % c \in Below(c)
    BY <2>2, <2>3 DEF Below
  <2> QED BY <2>2, <2>4
<1>3. ASSUME NEW x \in Below(r), NEW y \in Below(c)
      PROVE  x * c + y \in Below(r * c) /\ (x * c + y) \div c = x /\ (x * c + y) % c = y
  <2>1. x \in Nat /\ y \in 0..(c - 1) /\ x < r
    BY DEF Below
  <2>2. PICK d \in Nat : r = x + 1 + d
    <3>1. r - x - 1 \in Nat /\ r = x + 1 + (r - x - 1)
      BY <2>1
    <3> QED BY <3>1
  <2>3. r * c = x * c + c + d * c /\ d * c >= 0 /\ x * c \in Nat
    BY <2>1, <2>2
  <2>4. x * c + y \in 0..(r * c - 1)
    BY <1>1, <2>1, <2>3
  <2>5. (x * c + y) \div c = x
    BY <2>1, Quotient
  <2>6. (x * c + y) % c = y
    BY <2>1, Remainder
  <2> QED BY <2>4, <2>5, <2>6 DEF Below
<1> QED BY <1>2, <1>3

\* The same of the threads.
LEMMA Cells ==
  ASSUME InputsAssumption, input \in Inputs
  PROVE  /\ \A t \in Threads : /\ t \in Nat /\ t < Rows * Cols
                               /\ Row(t) \in Below(Rows) /\ Col(t) \in Below(Cols)
                               /\ t = Row(t) * Cols + Col(t)
         /\ \A r \in Below(Rows), c \in Below(Cols) :
              \E t \in Threads : Row(t) = r /\ Col(t) = c
         /\ \A t, u \in Threads : Row(t) = Row(u) /\ Col(t) = Col(u) => t = u
<1>1. Rows \in Nat \ {0} /\ Cols \in Nat \ {0} /\ Rows * Cols \in Nat
  BY Shapes
<1> HIDE DEF Rows, Cols
<1>2. /\ \A t \in Threads : /\ Row(t) \in Below(Rows) /\ Col(t) \in Below(Cols)
                            /\ t = Row(t) * Cols + Col(t)
  BY <1>1, CellsOf DEF Threads, Row, Col
<1>3. \A t \in Threads : t \in Nat /\ t < Rows * Cols
  BY <1>1 DEF Threads, Below
<1>4. ASSUME NEW r \in Below(Rows), NEW c \in Below(Cols)
      PROVE  \E t \in Threads : Row(t) = r /\ Col(t) = c
  <2>1. r * Cols + c \in Threads /\ Row(r * Cols + c) = r /\ Col(r * Cols + c) = c
    BY <1>1, CellsOf DEF Threads, Row, Col
  <2> QED BY <2>1
<1>5. ASSUME NEW t \in Threads, NEW u \in Threads, Row(t) = Row(u), Col(t) = Col(u)
      PROVE  t = u
  <2>1. t = Row(t) * Cols + Col(t) /\ u = Row(u) * Cols + Col(u)
    BY <1>2
  <2> QED BY <1>5, <2>1
<1> QED BY <1>2, <1>3, <1>4, <1>5

\* The first int of a pair is its row, and the second one is a column, but the right
\* one only where size_t is as wide as int.
LEMMA Words ==
  ASSUME InputsAssumption, input \in Inputs, NEW t \in Threads
  PROVE  /\ Word(<<Row(t), Col(t)>>, 1) = Row(t)
         /\ TakenCol(t) \in Below(Cols) /\ TakenCol(t) \in Int
         /\ IntsPerSize = 1 => TakenCol(t) = Col(t)
<1>1. Col(t) \in Below(Cols) /\ 0 \in Below(Cols) /\ \A c \in Below(Cols) : c \in Int
  BY Cells, Shapes DEF Below
<1>2. IntsPerSize = 1 => TakenCol(t) = Col(t)
  BY DEF TakenCol, Word
<1>3. IntsPerSize # 1 => TakenCol(t) = 0
  BY DEF TakenCol, Word
<1>4. Word(<<Row(t), Col(t)>>, 1) = Row(t)
  BY DEF Word
<1> QED BY <1>1, <1>2, <1>3, <1>4

\* The slot of a cell is the number of its thread.
LEMMA SlotIs ==
  ASSUME InputsAssumption, OwnSlots, input \in Inputs, Matched, NEW t \in Threads
  PROVE  Slot(Row(t), Col(t)) = t
<1>1. Rows = 1 \/ Rows = Cols
  BY DEF OwnSlots, Matched, Rows, Cols
<1>2. /\ t = Row(t) * Cols + Col(t)
      /\ Row(t) \in Below(Rows) /\ Rows \in Nat /\ Cols \in Nat /\ Col(t) \in Below(Cols)
  BY Cells, Shapes
<1> DEFINE r == Row(t)
           c == Col(t)
<1>3. t = r * Cols + c /\ r \in 0..(Rows - 1) /\ c \in Int
  BY <1>2 DEF Below
<1> HIDE DEF r, c
<1>4. CASE Rows = Cols
  <2>1. r * Rows + c = t
    BY <1>3, <1>4
  <2> QED BY <2>1 DEF Slot, r, c
<1>5. CASE Rows = 1
  <2>1. r = 0
    BY <1>3, <1>5
  <2>2. r * Rows + c = t
    BY <1>2, <1>3, <1>5, <2>1
  <2> QED BY <2>2 DEF Slot, r, c
<1> QED BY <1>1, <1>4, <1>5

\* The sums are what their recursive definition says.
LEMMA SumsAre ==
  ASSUME InputsAssumption, input \in Inputs, Matched, NEW r \in Below(Rows), NEW c \in Below(Cols)
  PROVE  /\ Sums(r, c) \in [0..Inner -> Int]
         /\ Sums(r, c)[0] = 0
         /\ \A n \in Below(Inner) :
              /\ input.a.data[r][n] * input.b.data[n][c] \in Int
              /\ Sums(r, c)[n + 1] = Sums(r, c)[n] + input.a.data[r][n] * input.b.data[n][c]
<1>1. Inner \in Nat
  BY Shapes
<1> DEFINE term(n) == input.a.data[r][n] * input.b.data[n][c]
           step == [n \in 1..Inner |-> [z \in Int |-> z + term(n - 1)]]
           f(g) == [n \in 0..Inner |-> IF n = 0 THEN 0 ELSE g[n - 1] + term(n - 1)]
<1>2. \A n \in Below(Inner) : term(n) \in Int
  <2>1. Inner = input.b.rows
    BY DEF Matched, Inner
  <2>2. ASSUME NEW n \in Below(Inner)
        PROVE  input.a.data[r][n] \in Int /\ input.b.data[n][c] \in Int
    BY <2>1, Shapes
  <2>3. \A a, b \in Int : a * b \in Int
    OBVIOUS
  <2> QED BY <2>2, <2>3
<1> HIDE DEF term
<1>3. \A n \in 1..Inner : n - 1 \in Below(Inner) /\ term(n - 1) \in Int
  <2>1. \A n \in 1..Inner : n - 1 \in Below(Inner)
    BY <1>1 DEF Below
  <2> QED BY <1>2, <2>1
<1>4. step \in [1..Inner -> [Int -> Int]]
  BY <1>3
<1>5. Recursive(Inner, Int, 0, step) # {}
  <2> HIDE DEF step
  <2>1. 0 \in Int
    OBVIOUS
  <2> QED BY <1>1, <1>4, <2>1, Recursion
<1>6. PICK g \in [0..Inner -> Int] : g[0] = 0 /\ \A n \in 1..Inner : g[n] = step[n][g[n - 1]]
  BY <1>5 DEF Recursive
<1>7. g = f(g)
  <2>1. \A n \in 1..Inner : g[n] = g[n - 1] + term(n - 1)
    <3>1. ASSUME NEW n \in 1..Inner PROVE g[n] = g[n - 1] + term(n - 1)
      <4>1. g[n - 1] \in Int
        BY <1>1
      <4> QED BY <1>6, <4>1
    <3> QED BY <3>1
  <2>2. \A n \in 0..Inner : g[n] = IF n = 0 THEN 0 ELSE g[n - 1] + term(n - 1)
    BY <1>1, <1>6, <2>1
  <2> QED BY <2>2
<1>8. ASSUME NEW h, h = f(h) PROVE h = g
  <2> DEFINE S == {n \in 0..Inner : h[n] = g[n]}
  <2>1. \A n \in 0..Inner : h[n] = IF n = 0 THEN 0 ELSE h[n - 1] + term(n - 1)
    BY <1>8
  <2>2. 0 \in S
    BY <1>1, <1>6, <2>1
  <2>3. ASSUME NEW n \in 0..(Inner - 1), n \in S PROVE n + 1 \in S
    <3>1. n + 1 \in 1..Inner /\ n + 1 \in 0..Inner /\ (n + 1) - 1 = n /\ n + 1 # 0
      BY <1>1
    <3>2. h[n + 1] = h[n] + term(n) /\ h[n] = g[n]
      BY <2>1, <2>3, <3>1
    <3>3. g[n + 1] = g[n] + term(n)
      <4>1. \A m \in 0..Inner : g[m] = IF m = 0 THEN 0 ELSE g[m - 1] + term(m - 1)
        BY <1>7
      <4> QED BY <3>1, <4>1
    <3> QED BY <3>1, <3>2, <3>3
  <2>4. \A n \in 0..Inner : n \in S
    <3> HIDE DEF S
    <3> QED BY <1>1, <2>2, <2>3, Induction
  <2>5. h = [n \in 0..Inner |-> h[n]] /\ g = [n \in 0..Inner |-> g[n]]
    BY <1>8
  <2> QED BY <2>4, <2>5
<1>9. Sums(r, c) = g
  <2>1. Sums(r, c) = CHOOSE h : h = f(h)
    BY DEF Sums, term
  <2>2. \E h : h = f(h)
    BY <1>7
  <2>3. (CHOOSE h : h = f(h)) = f(CHOOSE h : h = f(h))
    BY <2>2
  <2> QED BY <1>8, <2>1, <2>3
<1>10. ASSUME NEW n \in Below(Inner) PROVE g[n + 1] = g[n] + term(n)
  <2>1. n + 1 \in 1..Inner /\ n + 1 \in 0..Inner /\ (n + 1) - 1 = n /\ n + 1 # 0
    BY <1>1 DEF Below
  <2>2. \A m \in 0..Inner : g[m] = IF m = 0 THEN 0 ELSE g[m - 1] + term(m - 1)
    BY <1>7
  <2> QED BY <2>1, <2>2
<1> QED BY <1>2, <1>6, <1>9, <1>10 DEF term

\* What the input determines does not change with anything else.
LEMMA SameInput ==
  ASSUME input' = input
  PROVE  /\ Rows' = Rows /\ Cols' = Cols /\ Inner' = Inner /\ Threads' = Threads
         /\ (OwnSlots' <=> OwnSlots) /\ (Matched' <=> Matched)
         /\ \A t : Row(t)' = Row(t) /\ Col(t)' = Col(t) /\ TakenCol(t)' = TakenCol(t)
         /\ \A r, c : Sums(r, c)' = Sums(r, c)
         /\ Product' = Product
<1>1. Rows' = Rows /\ Cols' = Cols /\ Inner' = Inner
  BY DEF Rows, Cols, Inner
<1>2. Threads' = Threads
  BY <1>1 DEF Threads
<1>3. (OwnSlots' <=> OwnSlots) /\ (Matched' <=> Matched)
  BY DEF OwnSlots, Matched
<1>4. \A t : Row(t)' = Row(t) /\ Col(t)' = Col(t) /\ TakenCol(t)' = TakenCol(t)
  BY <1>1 DEF Row, Col, TakenCol
<1>5. \A r, c : Sums(r, c)' = Sums(r, c)
  BY <1>1 DEF Sums
<1>6. Product' = Product
  BY <1>1, <1>5 DEF Product
<1> QED BY <1>1, <1>2, <1>3, <1>4, <1>5, <1>6

\* At the beginning there are no threads.
LEMMA WorksInit == ASSUME InputsAssumption, Init PROVE Works
<1>1. /\ input \in Inputs /\ main = "mat1" /\ made = 0 /\ joined = 0 /\ printed = Empty
      /\ v = [k \in Threads |-> <<0, 0>>] /\ tid = [k \in Threads |-> NoThread]
      /\ pc = [t \in Threads |-> "none"] /\ local = [t \in Threads |-> FreshLocal]
  BY DEF Init
<1>2. Rows \in Nat \ {0} /\ Cols \in Nat \ {0} /\ Inner \in Nat \ {0} /\ Rows * Cols \in Nat \ {0}
  BY <1>1, Shapes
<1>3. \A t \in Threads : t \in Nat
  BY <1>1, Cells
<1>4. Begun
  BY <1>1, <1>2 DEF Begun
<1>5. Created
  <2>1. 0 \in Below(Rows) /\ 0 \in Below(Cols)
    BY <1>2 DEF Below
  <2>2. v \in [Threads -> Below(Rows) \X Below(Cols)]
    BY <1>1, <2>1
  <2>3. tid \in [Threads -> Threads \cup {NoThread}]
    BY <1>1
  <2>4. \A t \in Threads : ~(t < made) /\ ~(t < joined)
    BY <1>1, <1>3
  <2> QED BY <2>2, <2>3, <2>4 DEF Created
<1>6. Placed
  <2>1. pc \in [Threads -> Places]
    BY <1>1 DEF Places
  <2>2. \A t \in Threads : pc[t] = "none" /\ made <= t
    BY <1>1, <1>3
  <2> QED BY <2>1, <2>2 DEF Placed
<1>7. Working
  <2>1. FreshLocal \in [row : Int, col : Int, i : 0..Inner, value : Int] /\ FreshLocal.i = 0
    BY <1>2 DEF FreshLocal
  <2>2. local \in [Threads -> [row : Int, col : Int, i : 0..Inner, value : Int]]
    BY <1>1, <2>1
  <2>3. \A t \in Threads : pc[t] = "none" /\ local[t].i = 0
    BY <1>1, <2>1
  <2> QED BY <2>2, <2>3 DEF Working
<1>8. Computed
  <2>1. PICK g \in Garbage : mat3 = [r \in Below(Rows) |-> [c \in Below(Cols) |-> g]]
    BY DEF Init
  <2>2. g \in Int
    BY <2>1 DEF InputsAssumption
  <2>3. mat3 \in [Below(Rows) -> [Below(Cols) -> Int]]
    BY <2>1, <2>2
  <2>4. \A t \in Threads : pc[t] = "none"
    BY <1>1
  <2> QED BY <2>3, <2>4 DEF Computed
<1>9. PrintsProduct
  BY <1>1 DEF PrintsProduct
<1> QED BY <1>1, <1>4, <1>5, <1>6, <1>7, <1>8, <1>9 DEF Works

\* All steps of main but those that create or join a thread or print.
LEMMA MemoryWorks ==
  ASSUME InputsAssumption, Frees, Works,
         \/ \E o \in Objects : Alloc(o) \/ AllocFails(o)
         \/ OpenFails \/ Check \/ Cleanup \/ Return
  PROVE  Works'
<1>1. UNCHANGED <<input, threads>>
  BY DEF Alloc, AllocFails, OpenFails, Check, Cleanup, Return
<1>2. input' = input /\ made' = made /\ joined' = joined /\ failed' = failed /\ v' = v /\ tid' = tid
      /\ pc' = pc /\ local' = local /\ mat3' = mat3 /\ printed' = printed
  BY <1>1 DEF threads
<1>3. Created' /\ Placed' /\ Working' /\ Computed' /\ PrintsProduct'
  <2>1. Created'
    BY <1>2, SameInput DEF Works, Created
  <2>2. Placed'
    BY <1>2, SameInput DEF Works, Placed
  <2>3. Working'
    BY <1>2, SameInput DEF Works, Working
  <2>4. Computed'
    BY <1>2, SameInput DEF Works, Computed, Cell
  <2>5. PrintsProduct'
    BY <1>2, SameInput DEF Works, PrintsProduct
  <2> QED BY <2>1, <2>2, <2>3, <2>4, <2>5
<1>4. Objects = {"mat1", "mat2", "mat3", "v", "tid"}
  BY DEF Objects, Mats
<1>5. Begun'
  <2>1. CASE \E o \in Objects : Alloc(o)
    <3>1. PICK o \in Objects : Alloc(o)
      BY <2>1
    <3>2. main = o /\ (main' = main \/ main' = Then[o])
      BY <3>1 DEF Alloc
    <3>3. /\ Then["mat1"] = "mat2" /\ Then["mat2"] = "check" /\ Then["mat3"] = "v"
          /\ Then["v"] = "tid" /\ Then["tid"] = "create"
      BY DEF Then
    <3>4. /\ main \in {"mat1", "mat2", "mat3", "v", "tid"}
          /\ main' \notin {"cleanup", "return", "exit"}
          /\ main' \in {"mat3", "v", "tid", "create"} => main \in {"mat3", "v", "tid"}
      BY <1>4, <3>1, <3>2, <3>3
    <3> QED BY <1>2, <3>4, SameInput DEF Works, Begun
  <2>2. CASE (\E o \in Objects : AllocFails(o)) \/ OpenFails
    <3>1. main \in {"mat1", "mat2", "mat3", "v", "tid"} /\ main' = "cleanup"
      BY <1>4, <2>2 DEF AllocFails, OpenFails
    <3> QED BY <1>2, <3>1, SameInput DEF Works, Begun
  <2>3. CASE Check
    <3>1. main = "check" /\ main' \in {"mat3", "cleanup"} /\ (main' = "mat3" => Matched)
      BY <2>3 DEF Check, Matched
    <3> QED BY <1>2, <3>1, SameInput DEF Works, Begun
  <2>4. CASE Cleanup \/ Return
    <3>1. main \in {"cleanup", "return"} /\ main' \in {"return", "exit"}
      BY <2>4 DEF Cleanup, Return
    <3> QED BY <1>2, <3>1, SameInput DEF Works, Begun
  <2> QED BY <2>1, <2>2, <2>3, <2>4
<1> QED BY <1>2, <1>3, <1>5 DEF Works

\* A thread is created, or fails to be: its pair is written to a slot no other uses.
LEMMA CreateWorks ==
  ASSUME InputsAssumption, OwnSlots, Works, CreateThread PROVE Works'
<1> DEFINE k == Slot(made \div Cols, made % Cols)
<1>1. /\ main = "create" /\ made < Rows * Cols /\ made \in Nat /\ joined \in Nat
      /\ joined = 0 /\ Matched /\ input \in Inputs
  <2>1. Rows * Cols \in Nat
    BY Shapes DEF Works
  <2> QED BY <2>1 DEF CreateThread, Works, Begun
<1>2. made \in Threads
  BY <1>1, Shapes DEF Threads, Below
<1>3. k = made
  BY <1>1, <1>2, SlotIs DEF Row, Col
<1>4. /\ v' = [v EXCEPT ![made] = <<Row(made), Col(made)>>]
      /\ \/ /\ tid' = [tid EXCEPT ![made] = made] /\ pc' = [pc EXCEPT ![made] = "row"]
            /\ made' = made + 1 /\ main' = main /\ failed' = failed
         \/ /\ failed' = TRUE /\ main' = "cleanup" /\ tid' = tid /\ pc' = pc /\ made' = made
      /\ input' = input /\ joined' = joined /\ mat3' = mat3 /\ printed' = printed /\ local' = local
  BY <1>3 DEF CreateThread, Row, Col
<1> HIDE DEF k
<1>5. /\ \A t \in Threads : t \in Nat
      /\ Row(made) \in Below(Rows) /\ Col(made) \in Below(Cols)
  BY <1>1, <1>2, Cells
<1>6. Begun'
  <2>1. Rows * Cols \in Nat
    BY <1>1, Shapes
  <2>2. made' \in 0..(Rows * Cols) /\ joined' \in 0..made' /\ joined' = 0
    BY <1>1, <1>4, <2>1
  <2>3. main' \in {"create", "cleanup"} /\ (main' = "cleanup" => failed')
    BY <1>1, <1>4
  <2>4. Matched' /\ (Rows * Cols)' = Rows * Cols
    BY <1>1, <1>4, SameInput
  <2> QED BY <2>2, <2>3, <2>4 DEF Begun
<1>7. Created'
  <2>1. v' \in [Threads -> Below(Rows) \X Below(Cols)]
    BY <1>4, <1>5 DEF Works, Created
  <2>2. tid' \in [Threads -> Threads \cup {NoThread}]
    BY <1>2, <1>4 DEF Works, Created
  <2>3. ASSUME NEW t \in Threads, t < made' PROVE v'[t] = <<Row(t), Col(t)>> /\ tid'[t] = t
    <3>1. CASE t = made
      <4>1. made' # made
        BY <1>1, <2>3, <3>1
      <4> QED BY <1>4, <2>3, <3>1, <4>1 DEF Works, Created
    <3>2. CASE t # made
      <4>1. t < made
        BY <1>1, <1>4, <1>5, <2>3, <3>2
      <4> QED BY <1>4, <3>2, <4>1 DEF Works, Created
    <3> QED BY <3>1, <3>2
  <2>4. \A t \in Threads : ~(t < joined')
    BY <1>1, <1>4, <1>5
  <2> QED BY <1>4, <2>1, <2>2, <2>3, <2>4, SameInput DEF Created
<1>8. Placed'
  <2>1. pc' \in [Threads -> Places]
    BY <1>4 DEF Works, Placed, Places
  <2>2. ASSUME NEW t \in Threads PROVE pc'[t] = "none" <=> made' <= t
    <3>1. CASE t = made
      BY <1>1, <1>4, <3>1 DEF Works, Placed
    <3>2. CASE t # made
      <4>1. made' <= t <=> made <= t
        BY <1>1, <1>4, <1>5, <3>2
      <4>2. pc'[t] = pc[t]
        BY <1>4, <3>2 DEF Works, Placed
      <4> QED BY <4>1, <4>2 DEF Works, Placed
    <3> QED BY <3>1, <3>2
  <2> QED BY <1>4, <2>1, <2>2, SameInput DEF Placed
<1>9. pc[made] = "none" /\ \A t \in Threads : pc'[t] = pc[t] \/ (t = made /\ pc'[t] = "row")
  <2>1. pc[made] = "none"
    BY <1>1, <1>2 DEF Works, Placed
  <2> QED BY <1>4, <2>1 DEF Works, Placed
<1>10. Working'
  <2>1. local[made].i = 0
    BY <1>2, <1>9 DEF Works, Working
  <2> QED BY <1>4, <1>9, <2>1, SameInput DEF Works, Working
<1>11. Computed'
  BY <1>4, <1>9, SameInput DEF Works, Computed, Cell
<1>12. PrintsProduct'
  BY <1>4, SameInput DEF Works, PrintsProduct
<1> QED BY <1>1, <1>4, <1>6, <1>7, <1>8, <1>10, <1>11, <1>12 DEF Works

\* main joins the next thread, whose id is in its slot.
LEMMA JoinWorks ==
  ASSUME InputsAssumption, Works, Join PROVE Works'
<1>1. /\ main = "create" /\ made = Rows * Cols /\ joined < Rows * Cols /\ joined \in Nat
      /\ pc[tid[joined]] = "done" /\ joined' = joined + 1 /\ input \in Inputs
      /\ input' = input /\ main' = main /\ made' = made /\ failed' = failed /\ v' = v /\ tid' = tid
      /\ mat3' = mat3 /\ printed' = printed /\ pc' = pc /\ local' = local
  BY DEF Join, Works, Begun
<1>2. joined \in Threads /\ Rows * Cols \in Nat /\ \A t \in Threads : t \in Nat
  BY <1>1, Shapes, Cells DEF Threads, Below
<1>3. pc[joined] = "done"
  <2>1. tid[joined] = joined
    BY <1>1, <1>2 DEF Works, Created
  <2> QED BY <1>1, <2>1
<1>4. Begun'
  BY <1>1, <1>2, SameInput DEF Works, Begun
<1>5. Created'
  <2>1. ASSUME NEW t \in Threads, t < joined' PROVE pc'[t] = "done"
    <3>1. t = joined \/ t < joined
      BY <1>1, <1>2, <2>1
    <3> QED BY <1>1, <1>3, <3>1 DEF Works, Created
  <2> QED BY <1>1, <2>1, SameInput DEF Works, Created
<1>6. Placed' /\ Working' /\ Computed' /\ PrintsProduct'
  <2>1. Placed'
    BY <1>1, SameInput DEF Works, Placed
  <2>2. Working'
    BY <1>1, SameInput DEF Works, Working
  <2>3. Computed'
    BY <1>1, SameInput DEF Works, Computed, Cell
  <2>4. PrintsProduct'
    BY <1>1, SameInput DEF Works, PrintsProduct
  <2> QED BY <2>1, <2>2, <2>3, <2>4
<1> QED BY <1>1, <1>4, <1>5, <1>6 DEF Works

\* What main prints when all threads are done.
LEMMA PrintWorks ==
  ASSUME InputsAssumption, Works, MatrixPrint PROVE Works'
<1>1. /\ main = "create" /\ joined = Rows * Cols /\ printed' = mat3 /\ main' = "cleanup"
      /\ input' = input /\ made' = made /\ joined' = joined /\ failed' = failed /\ v' = v /\ tid' = tid
      /\ mat3' = mat3 /\ pc' = pc /\ local' = local /\ input \in Inputs
  BY DEF MatrixPrint, Works
<1>2. Begun'
  BY <1>1, SameInput DEF Works, Begun
<1>3. Created' /\ Placed' /\ Working' /\ Computed'
  <2>1. Created'
    BY <1>1, SameInput DEF Works, Created
  <2>2. Placed'
    BY <1>1, SameInput DEF Works, Placed
  <2>3. Working'
    BY <1>1, SameInput DEF Works, Working
  <2>4. Computed'
    BY <1>1, SameInput DEF Works, Computed, Cell
  <2> QED BY <2>1, <2>2, <2>3, <2>4
<1>4. IntsPerSize = 1 => \A r \in Below(Rows), c \in Below(Cols) : mat3[r][c] = Sums(r, c)[Inner]
  <2>1. ASSUME IntsPerSize = 1, NEW r \in Below(Rows), NEW c \in Below(Cols) PROVE mat3[r][c] = Sums(r, c)[Inner]
    <3>1. PICK t \in Threads : Row(t) = r /\ Col(t) = c
      BY <1>1, Cells
    <3>2. pc[t] = "done"
      BY <1>1, Cells DEF Works, Created
    <3> QED BY <2>1, <3>1, <3>2 DEF Works, Computed, Cell
  <2> QED BY <2>1
<1>5. IntsPerSize = 1 => mat3 = Product
  <2>1. mat3 \in [Below(Rows) -> [Below(Cols) -> Int]]
    BY DEF Works, Computed
  <2> QED BY <1>4, <2>1 DEF Product
<1>6. PrintsProduct'
  BY <1>1, <1>5, SameInput DEF PrintsProduct
<1> QED BY <1>1, <1>2, <1>3, <1>6 DEF Works

\* What a step of a thread leaves as it is.
LEMMA StepKeeps ==
  ASSUME InputsAssumption, Works, NEW t \in Threads, NEW from \in Places, NEW to \in Places,
         from \notin {"none", "done"}, to # "none", Step(t, from, to)
  PROVE  /\ Begun' /\ Created' /\ Placed' /\ PrintsProduct'
         /\ input' = input /\ input \in Inputs /\ Matched
         /\ pc[t] = from /\ pc'[t] = to /\ \A u \in Threads \ {t} : pc'[u] = pc[u]
<1>1. /\ pc[t] = from /\ pc' = [pc EXCEPT ![t] = to]
      /\ input' = input /\ main' = main /\ made' = made /\ joined' = joined /\ failed' = failed
      /\ v' = v /\ tid' = tid /\ printed' = printed
  BY DEF Step
<1>2. input \in Inputs /\ pc \in [Threads -> Places] /\ t \in Nat /\ made \in Nat /\ joined \in 0..made
  BY Cells, Shapes DEF Works, Placed, Begun
<1>3. pc'[t] = to /\ \A u \in Threads \ {t} : pc'[u] = pc[u]
  BY <1>1, <1>2
<1>4. Matched
  <2>1. ~(made <= t)
    BY <1>1 DEF Works, Placed
  <2>2. made # 0
    BY <1>2, <2>1
  <2> QED BY <2>2 DEF Works, Begun
<1>5. Begun'
  BY <1>1, SameInput DEF Works, Begun
<1>6. Created'
  <2>1. ~(t < joined)
    BY <1>1 DEF Works, Created
  <2> QED BY <1>1, <1>3, <2>1, SameInput DEF Works, Created
<1>7. Placed'
  <2>1. pc' \in [Threads -> Places]
    BY <1>1, <1>2
  <2>2. \A u \in Threads : pc'[u] = "none" <=> pc[u] = "none"
    BY <1>1, <1>3
  <2> QED BY <1>1, <2>1, <2>2, SameInput DEF Works, Placed
<1>8. PrintsProduct'
  BY <1>1, SameInput DEF Works, PrintsProduct
<1> QED BY <1>1, <1>2, <1>3, <1>4, <1>5, <1>6, <1>7, <1>8

\* A thread reads its row.
LEMMA FetchRowWorks ==
  ASSUME InputsAssumption, OwnSlots, Works, NEW t \in Threads, FetchRow(t)
  PROVE  Works'
<1>1. Step(t, "row", "col") /\ mat3' = mat3 /\ local' = [local EXCEPT ![t].row = Word(v[SlotOf(t)], 1)]
  BY DEF FetchRow
<1>2. /\ Begun' /\ Created' /\ Placed' /\ PrintsProduct'
      /\ input' = input /\ input \in Inputs /\ Matched
      /\ pc[t] = "row" /\ pc'[t] = "col" /\ \A u \in Threads \ {t} : pc'[u] = pc[u]
  BY <1>1, StepKeeps DEF Places
<1>3. v[SlotOf(t)] = <<Row(t), Col(t)>> /\ Row(t) \in Int
  <2>1. SlotOf(t) = t
    BY <1>2, SlotIs DEF SlotOf, Row, Col
  <2>2. t \in Nat /\ made \in Nat /\ Row(t) \in Int
    BY <1>2, Cells, Shapes DEF Works, Begun, Below
  <2>3. t < made
    BY <1>2, <2>2 DEF Works, Placed
  <2> QED BY <2>1, <2>2, <2>3 DEF Works, Created
<1>4. /\ local' = [local EXCEPT ![t].row = Row(t)]
      /\ local \in [Threads -> [row : Int, col : Int, i : 0..Inner, value : Int]]
  BY <1>1, <1>2, <1>3, Words DEF Works, Working
<1>5. /\ local' \in [Threads -> [row : Int, col : Int, i : 0..Inner, value : Int]]
      /\ local'[t].row = Row(t) /\ local'[t].i = local[t].i
      /\ \A u \in Threads \ {t} : local'[u] = local[u]
  BY <1>3, <1>4
<1>6. Working'
  BY <1>2, <1>5, SameInput DEF Works, Working
<1>7. Computed'
  BY <1>1, <1>2, <1>5, SameInput DEF Works, Computed, Cell
<1> QED BY <1>2, <1>6, <1>7 DEF Works

\* A thread reads its column.
LEMMA FetchColWorks ==
  ASSUME InputsAssumption, OwnSlots, Works, NEW t \in Threads, FetchCol(t)
  PROVE  Works'
<1>1. Step(t, "col", "zero") /\ mat3' = mat3 /\ local' = [local EXCEPT ![t].col = Word(v[SlotOf(t)], 2)]
  BY DEF FetchCol
<1>2. /\ Begun' /\ Created' /\ Placed' /\ PrintsProduct'
      /\ input' = input /\ input \in Inputs /\ Matched
      /\ pc[t] = "col" /\ pc'[t] = "zero" /\ \A u \in Threads \ {t} : pc'[u] = pc[u]
  BY <1>1, StepKeeps DEF Places
<1>3. v[SlotOf(t)] = <<Row(t), Col(t)>> /\ TakenCol(t) \in Int
  <2>1. SlotOf(t) = t
    BY <1>2, SlotIs DEF SlotOf, Row, Col
  <2>2. t \in Nat /\ made \in Nat
    BY <1>2, Cells, Shapes DEF Works, Begun, Below
  <2>3. t < made
    BY <1>2, <2>2 DEF Works, Placed
  <2>4. TakenCol(t) \in Int
    BY <1>2, Words
  <2> QED BY <2>1, <2>2, <2>3, <2>4 DEF Works, Created
<1>4. /\ local' = [local EXCEPT ![t].col = TakenCol(t)]
      /\ local \in [Threads -> [row : Int, col : Int, i : 0..Inner, value : Int]]
  <2>1. Word(v[SlotOf(t)], 2) = TakenCol(t)
    BY <1>3 DEF TakenCol
  <2> QED BY <1>1, <2>1 DEF Works, Working
<1>5. /\ local' \in [Threads -> [row : Int, col : Int, i : 0..Inner, value : Int]]
      /\ local'[t].col = TakenCol(t) /\ local'[t].row = local[t].row /\ local'[t].i = local[t].i
      /\ \A u \in Threads \ {t} : local'[u] = local[u]
  BY <1>3, <1>4
<1>6. Working'
  BY <1>2, <1>5, SameInput DEF Works, Working
<1>7. Computed'
  BY <1>1, <1>2, <1>5, SameInput DEF Works, Computed, Cell
<1> QED BY <1>2, <1>6, <1>7 DEF Works

\* A write to one cell of mat3.
LEMMA WriteCell ==
  ASSUME InputsAssumption, Works, NEW t \in Threads, NEW x \in Int, input' = input,
         mat3' = [mat3 EXCEPT ![Row(t)][TakenCol(t)] = x]
  PROVE  /\ mat3' \in [Below(Rows) -> [Below(Cols) -> Int]]
         /\ IntsPerSize = 1 =>
              /\ mat3'[Row(t)][Col(t)] = x
              /\ \A u \in Threads \ {t} : mat3'[Row(u)][Col(u)] = mat3[Row(u)][Col(u)]
<1>1. mat3 \in [Below(Rows) -> [Below(Cols) -> Int]]
  BY DEF Works, Computed
<1>2. \A u \in Threads : /\ Row(u) \in Below(Rows) /\ Col(u) \in Below(Cols)
                         /\ Row(u) = Row(t) /\ Col(u) = Col(t) => u = t
  BY Cells DEF Works
<1>3. TakenCol(t) \in Below(Cols) /\ (IntsPerSize = 1 => TakenCol(t) = Col(t))
  BY Words DEF Works
<1>4. mat3' \in [Below(Rows) -> [Below(Cols) -> Int]]
  BY <1>1, <1>2, <1>3
<1>5. IntsPerSize = 1 => mat3'[Row(t)][Col(t)] = x
  BY <1>1, <1>2, <1>3
<1>6. ASSUME IntsPerSize = 1, NEW u \in Threads \ {t}
      PROVE  mat3'[Row(u)][Col(u)] = mat3[Row(u)][Col(u)]
  <2>1. Row(u) # Row(t) \/ Col(u) # Col(t)
    BY <1>2
  <2> QED BY <1>1, <1>2, <1>3, <1>6, <2>1
<1> QED BY <1>4, <1>5, <1>6

\* A thread clears its cell.
LEMMA ZeroWorks ==
  ASSUME InputsAssumption, Works, NEW t \in Threads, Zero(t)
  PROVE  Works'
<1>1. /\ Step(t, "zero", "load") /\ local' = local
      /\ mat3' = [mat3 EXCEPT ![local[t].row][local[t].col] = 0]
  BY DEF Zero
<1>2. /\ Begun' /\ Created' /\ Placed' /\ PrintsProduct'
      /\ input' = input /\ input \in Inputs /\ Matched
      /\ pc[t] = "zero" /\ pc'[t] = "load" /\ \A u \in Threads \ {t} : pc'[u] = pc[u]
  BY <1>1, StepKeeps DEF Places
<1>3. local[t].row = Row(t) /\ local[t].col = TakenCol(t) /\ local[t].i = 0
  BY <1>2 DEF Works, Working
<1>4. /\ mat3' \in [Below(Rows) -> [Below(Cols) -> Int]]
      /\ IntsPerSize = 1 =>
           /\ mat3'[Row(t)][Col(t)] = 0
           /\ \A u \in Threads \ {t} : mat3'[Row(u)][Col(u)] = mat3[Row(u)][Col(u)]
  <2>1. mat3' = [mat3 EXCEPT ![Row(t)][TakenCol(t)] = 0]
    BY <1>1, <1>3
  <2>2. 0 \in Int
    OBVIOUS
  <2> QED BY <1>2, <2>1, <2>2, WriteCell
<1>5. Working'
  BY <1>1, <1>2, SameInput DEF Works, Working
<1>6. Computed'
  <2>1. Row(t) \in Below(Rows) /\ Col(t) \in Below(Cols)
    BY <1>2, Cells
  <2>2. Sums(Row(t), Col(t))[0] = 0
    BY <1>2, <2>1, SumsAre
  <2>3. ASSUME IntsPerSize = 1, NEW u \in Threads
        PROVE  /\ pc'[u] \in {"load", "store"} => mat3'[Row(u)][Col(u)] = Sums(Row(u), Col(u))[local'[u].i]
               /\ pc'[u] = "store" => local'[u].value = mat3'[Row(u)][Col(u)]
               /\ pc'[u] = "done" => mat3'[Row(u)][Col(u)] = Sums(Row(u), Col(u))[Inner]
    <3>1. CASE u = t
      BY <1>1, <1>2, <1>3, <1>4, <2>2, <2>3, <3>1
    <3>2. CASE u # t
      BY <1>1, <1>2, <1>4, <2>3, <3>2 DEF Works, Computed, Cell
    <3> QED BY <3>1, <3>2
  <2> QED BY <1>2, <1>4, <2>3, SameInput DEF Computed, Cell
<1> QED BY <1>2, <1>5, <1>6 DEF Works

\* A thread reads its cell.
LEMMA LoadWorks ==
  ASSUME InputsAssumption, Works, NEW t \in Threads, Load(t)
  PROVE  Works'
<1>1. /\ Step(t, "load", "store") /\ mat3' = mat3 /\ local[t].i < Inner
      /\ local' = [local EXCEPT ![t].value = mat3[local[t].row][local[t].col]]
  BY DEF Load
<1>2. /\ Begun' /\ Created' /\ Placed' /\ PrintsProduct'
      /\ input' = input /\ input \in Inputs /\ Matched
      /\ pc[t] = "load" /\ pc'[t] = "store" /\ \A u \in Threads \ {t} : pc'[u] = pc[u]
  BY <1>1, StepKeeps DEF Places
<1>3. local[t].row = Row(t) /\ local[t].col = TakenCol(t)
  BY <1>2 DEF Works, Working
<1>4. mat3[Row(t)][TakenCol(t)] \in Int
  <2>1. Row(t) \in Below(Rows) /\ TakenCol(t) \in Below(Cols)
    BY <1>2, Cells, Words
  <2> QED BY <2>1 DEF Works, Computed
<1>5. /\ local' = [local EXCEPT ![t].value = mat3[Row(t)][TakenCol(t)]]
      /\ local \in [Threads -> [row : Int, col : Int, i : 0..Inner, value : Int]]
  BY <1>1, <1>3 DEF Works, Working
<1>6. /\ local' \in [Threads -> [row : Int, col : Int, i : 0..Inner, value : Int]]
      /\ local'[t].value = mat3[Row(t)][TakenCol(t)]
      /\ local'[t].row = local[t].row /\ local'[t].col = local[t].col /\ local'[t].i = local[t].i
      /\ \A u \in Threads \ {t} : local'[u] = local[u]
  BY <1>4, <1>5
<1>7. Working'
  BY <1>1, <1>2, <1>3, <1>6, SameInput DEF Works, Working
<1>8. Computed'
  <2>1. IntsPerSize = 1 => TakenCol(t) = Col(t)
    BY <1>2, Words
  <2> QED BY <1>1, <1>2, <1>6, <2>1, SameInput DEF Works, Computed, Cell
<1> QED BY <1>2, <1>7, <1>8 DEF Works

\* A thread adds a term to what it has read, and its cell is nobody else's.
LEMMA StoreWorks ==
  ASSUME InputsAssumption, Works, NEW t \in Threads, Store(t)
  PROVE  Works'
<1> DEFINE n == local[t].i
           term == input.a.data[Row(t)][n] * input.b.data[n][TakenCol(t)]
           x == local[t].value + term
<1>1. /\ Step(t, "store", "load") /\ local' = [local EXCEPT ![t].i = @ + 1]
      /\ mat3' = [mat3 EXCEPT ![local[t].row][local[t].col] =
                    local[t].value + input.a.data[local[t].row][local[t].i]
                                     * input.b.data[local[t].i][local[t].col]]
  BY DEF Store
<1>2. /\ Begun' /\ Created' /\ Placed' /\ PrintsProduct'
      /\ input' = input /\ input \in Inputs /\ Matched
      /\ pc[t] = "store" /\ pc'[t] = "load" /\ \A u \in Threads \ {t} : pc'[u] = pc[u]
  BY <1>1, StepKeeps DEF Places
<1>3. local[t].row = Row(t) /\ local[t].col = TakenCol(t) /\ n < Inner /\ n \in 0..Inner
      /\ local[t].value \in Int
  BY <1>2 DEF Works, Working
<1>4. Row(t) \in Below(Rows) /\ Col(t) \in Below(Cols) /\ Inner \in Nat
  BY <1>2, Cells, Shapes
<1>5. n \in Below(Inner)
  BY <1>3, <1>4 DEF Below
<1>6. x \in Int /\ (IntsPerSize = 1 => x = Sums(Row(t), Col(t))[n + 1])
  <2>1. TakenCol(t) \in Below(Cols) /\ (IntsPerSize = 1 => TakenCol(t) = Col(t))
    BY <1>2, Words
  <2>2. term \in Int
    BY <1>2, <1>4, <1>5, <2>1, SumsAre
  <2>3. ASSUME IntsPerSize = 1 PROVE x = Sums(Row(t), Col(t))[n + 1]
    <3>1. Sums(Row(t), Col(t))[n + 1] =
            Sums(Row(t), Col(t))[n] + input.a.data[Row(t)][n] * input.b.data[n][Col(t)]
      BY <1>2, <1>4, <1>5, SumsAre
    <3>2. local[t].value = Sums(Row(t), Col(t))[n]
      BY <1>2, <2>3 DEF Works, Computed
    <3> QED BY <2>1, <2>3, <3>1, <3>2
  <2> HIDE DEF term
  <2> QED BY <1>3, <2>2, <2>3
<1>7. /\ mat3' \in [Below(Rows) -> [Below(Cols) -> Int]]
      /\ IntsPerSize = 1 =>
           /\ mat3'[Row(t)][Col(t)] = x
           /\ \A u \in Threads \ {t} : mat3'[Row(u)][Col(u)] = mat3[Row(u)][Col(u)]
  <2>1. mat3' = [mat3 EXCEPT ![Row(t)][TakenCol(t)] = x]
    BY <1>1, <1>3
  <2> HIDE DEF x
  <2> QED BY <1>2, <1>6, <2>1, WriteCell
<1> HIDE DEF x
<1>8. /\ local' \in [Threads -> [row : Int, col : Int, i : 0..Inner, value : Int]]
      /\ local'[t].row = local[t].row /\ local'[t].col = local[t].col /\ local'[t].i = n + 1
      /\ \A u \in Threads \ {t} : local'[u] = local[u]
  <2>1. local \in [Threads -> [row : Int, col : Int, i : 0..Inner, value : Int]]
    BY DEF Works, Working
  <2>2. n + 1 \in 0..Inner
    BY <1>3, <1>4
  <2> QED BY <1>1, <2>1, <2>2
<1>9. Working'
  BY <1>2, <1>3, <1>8, SameInput DEF Works, Working
<1>10. Computed'
  <2>1. ASSUME IntsPerSize = 1, NEW u \in Threads
        PROVE  /\ pc'[u] \in {"load", "store"} => mat3'[Row(u)][Col(u)] = Sums(Row(u), Col(u))[local'[u].i]
               /\ pc'[u] = "store" => local'[u].value = mat3'[Row(u)][Col(u)]
               /\ pc'[u] = "done" => mat3'[Row(u)][Col(u)] = Sums(Row(u), Col(u))[Inner]
    <3>1. CASE u = t
      BY <1>2, <1>6, <1>7, <1>8, <2>1, <3>1
    <3>2. CASE u # t
      BY <1>2, <1>7, <1>8, <2>1, <3>2 DEF Works, Computed, Cell
    <3> QED BY <3>1, <3>2
  <2> QED BY <1>2, <1>7, <2>1, SameInput DEF Computed, Cell
<1> QED BY <1>2, <1>9, <1>10 DEF Works

\* A thread has added all terms.
LEMMA ExitWorks ==
  ASSUME InputsAssumption, Works, NEW t \in Threads, Exit(t)
  PROVE  Works'
<1>1. Step(t, "load", "done") /\ local[t].i = Inner /\ local' = local /\ mat3' = mat3
  BY DEF Exit
<1>2. /\ Begun' /\ Created' /\ Placed' /\ PrintsProduct'
      /\ input' = input /\ input \in Inputs /\ Matched
      /\ pc[t] = "load" /\ pc'[t] = "done" /\ \A u \in Threads \ {t} : pc'[u] = pc[u]
  BY <1>1, StepKeeps DEF Places
<1>3. Working'
  BY <1>1, <1>2, SameInput DEF Works, Working
<1>4. Computed'
  BY <1>1, <1>2, SameInput DEF Works, Computed, Cell
<1> QED BY <1>2, <1>3, <1>4 DEF Works

\* A step that changes nothing.
LEMMA StutterWorks == ASSUME Works, UNCHANGED vars PROVE Works'
<1>1. UNCHANGED <<input, main, made, joined, failed, v, tid, mat3, printed, pc, local>>
  BY DEF vars
<1>2. Begun' /\ Created' /\ Placed' /\ Working'
  BY <1>1, SameInput DEF Works, Begun, Created, Placed, Working
<1>3. Computed' /\ PrintsProduct'
  BY <1>1, SameInput DEF Works, Computed, Cell, PrintsProduct
<1> QED BY <1>1, <1>2, <1>3 DEF Works

\* No step breaks it.
LEMMA WorksNext ==
  ASSUME InputsAssumption, OwnSlots, Frees, Works, [Next]_vars PROVE Works'
<1>1. CASE Main
  BY <1>1, MemoryWorks, CreateWorks, JoinWorks, PrintWorks DEF Main
<1>2. CASE \E t \in Threads : Thread(t)
  <2>1. PICK t \in Threads : Thread(t)
    BY <1>2
  <2> QED BY <2>1, FetchRowWorks, FetchColWorks, ZeroWorks, LoadWorks, StoreWorks, ExitWorks DEF Thread
<1> QED BY <1>1, <1>2, StutterWorks DEF Next

\* What the invariants say of the state.
LEMMA WorksSafe ==
  ASSUME InputsAssumption, OwnSlots, Frees, Works
  PROVE  MemorySafe /\ PairsKept /\ PrintsProduct
<1>1. \A t \in Threads : Running(t) => ~(made <= t) /\ ~(t < joined)
  BY DEF Running, Works, Placed, Created
<1>2. \A t \in Threads : t \in Nat /\ t < Rows * Cols
  BY Cells DEF Works
<1>3. made \in Nat /\ joined \in Nat /\ Rows * Cols \in Nat
  BY Shapes DEF Works, Begun
<1>4. OutlivesThreads
  <2> SUFFICES ASSUME main \in {"return", "exit"}, NEW t \in Threads, Running(t) PROVE failed
    BY DEF OutlivesThreads
  <2>1. made # 0 /\ joined # Rows * Cols
    BY <1>1, <1>2, <1>3
  <2> QED BY <2>1 DEF Works, Begun
<1>5. PairsKept
  <2> SUFFICES ASSUME NEW t \in Threads, Running(t)
               PROVE  v[SlotOf(t)] = <<t \div Cols, t % Cols>>
    BY DEF PairsKept
  <2>1. t < made
    BY <1>1, <1>2, <1>3
  <2>2. Matched
    <3>1. made # 0
      BY <1>2, <1>3, <2>1
    <3> QED BY <3>1 DEF Works, Begun
  <2>3. SlotOf(t) = t
    BY <2>2, SlotIs DEF SlotOf, Row, Col, Works
  <2>4. v[t] = <<Row(t), Col(t)>>
    BY <2>1 DEF Works, Created
  <2> QED BY <2>3, <2>4 DEF Row, Col
<1>6. TypeOK
  BY DEF TypeOK, Frees, Allocated, Works, Begun, Created, Placed, Places, Computed
<1>7. FreesExactly
  BY FreesIsExact
<1> QED BY <1>4, <1>5, <1>6, <1>7 DEF MemorySafe, Works

\* The two invariants, where each cell has a slot of its own.
LEMMA WorksAlways ==
  ASSUME InputsAssumption, OwnSlots
  PROVE  Spec => [](Frees /\ Works)
<1>1. Init => Frees /\ Works
  BY FreesInit, WorksInit
<1>2. Frees /\ Works /\ [Next]_vars => Frees' /\ Works'
  BY FreesNext, WorksNext
<1> QED BY <1>1, <1>2, PTL DEF Spec

\* Nothing leaks, nothing is freed twice, and nothing is freed under a thread but
\* when pthread_create has failed (matrixmul.c:102-129), for matrices of any size
\* where each cell has a slot of its own.
THEOREM StaysSafe ==
  ASSUME InputsAssumption, OwnSlots
  PROVE  Spec => []MemorySafe
<1>1. Frees /\ Works => MemorySafe
  BY WorksSafe
<1> QED BY <1>1, WorksAlways, PTL

\* "v[k] holds the (i, j) pair in the k-th computation" (matrixmul.c:82) where rows
\* are one or as many as columns, and the run matrix_slots shows that it does not
\* elsewhere.
THEOREM PairsStay ==
  ASSUME InputsAssumption, OwnSlots
  PROVE  Spec => []PairsKept
<1>1. Frees /\ Works => PairsKept
  BY WorksSafe
<1> QED BY <1>1, WorksAlways, PTL

\* The product is printed, whatever the order of the threads' reads and writes and
\* whatever fresh memory holds (matrixmul.c:117, 233-239): where each cell has a slot
\* of its own and, as PrintsProduct says, size_t is as wide as int, for mulvect reads
\* two size_t as ints.
THEOREM ProductPrinted ==
  ASSUME InputsAssumption, OwnSlots
  PROVE  Spec => []PrintsProduct
<1>1. Frees /\ Works => PrintsProduct
  BY WorksSafe
<1> QED BY <1>1, WorksAlways, PTL

\* main goes on where it is, or waits in pthread_join.
Waits == main = "create" /\ made = Rows * Cols /\ joined < Rows * Cols /\ pc[tid[joined]] # "done"

\* Whom main waits for runs, and what it reads for it is there.
JoinsStarted ==
  Waits => /\ tid[joined] = joined /\ joined \in Threads
           /\ Running(joined) /\ local[joined].i \in 0..Inner

LEMMA WorksJoins ==
  ASSUME InputsAssumption, Frees, Works
  PROVE  JoinsStarted
<1> SUFFICES ASSUME Waits PROVE /\ tid[joined] = joined /\ joined \in Threads
                                /\ Running(joined) /\ local[joined].i \in 0..Inner
  BY DEF JoinsStarted
<1>1. PICK n \in Nat : n = Rows * Cols
  BY Shapes DEF Works
<1>2. joined \in 0..n /\ joined < n /\ made = n
  BY <1>1 DEF Waits, Works, Begun
<1>3. joined \in Threads /\ joined < made
  BY <1>1, <1>2 DEF Threads, Below
<1>4. tid[joined] = joined
  BY <1>3 DEF Works, Created
<1>5. pc[joined] \in Places /\ pc[joined] # "none" /\ pc[joined] # "done"
  <2>1. ~(made <= joined)
    BY <1>2
  <2> QED BY <1>3, <1>4, <2>1 DEF Works, Placed, Waits
<1>6. local[joined].i \in 0..Inner
  BY <1>3 DEF Works, Working
<1> QED BY <1>3, <1>4, <1>5, <1>6 DEF Running

\* main joins each of the threads it has started and no other, and never waits for
\* one that was not started (matrixmul.c:108-114): a thread that is waited for is in
\* mulvect, and has a step to take wherever it is there.
THEOREM JoinsReturn ==
  ASSUME InputsAssumption, OwnSlots
  PROVE  Spec => []JoinsStarted
<1>1. Frees /\ Works => JoinsStarted
  BY WorksJoins
<1> QED BY <1>1, WorksAlways, PTL

-----------------------------------------------------------------------------
(* The program comes to its end. *)

\* What is left to main: the blocks to allocate and the check, the joins, the
\* printing, the cleanup and the return.
MainAhead ==
  LET joins == (Rows * Cols - joined) + 3
      rest  == Size("mat3") + 3
  IN  CASE main = "mat1"    -> (Size("mat1") - blocks["mat1"]) + Size("mat2") + rest + joins
        [] main = "mat2"    -> (Size("mat2") - blocks["mat2"]) + rest + joins
        [] main = "check"   -> rest + joins
        [] main = "mat3"    -> (Size("mat3") - blocks["mat3"]) + 2 + joins
        [] main = "v"       -> 2 + joins
        [] main = "tid"     -> 1 + joins
        [] main = "create"  -> joins
        [] main = "cleanup" -> 2
        [] main = "return"  -> 1
        [] OTHER            -> 0

\* What is left to a thread at p which is at term i: to be created, its fetches,
\* and a load and a store for each term.
AheadAt(p, i) ==
  CASE p = "none"  -> 2 * Inner + 5
    [] p = "row"   -> 2 * Inner + 4
    [] p = "col"   -> 2 * Inner + 3
    [] p = "zero"  -> 2 * Inner + 2
    [] p = "load"  -> 2 * (Inner - i) + 1
    [] p = "store" -> 2 * (Inner - i)
    [] OTHER       -> 0

Ahead == [t \in Threads |-> AheadAt(pc[t], local[t].i)]
ThreadsAhead == SumOver(Threads, Ahead)
StepsLeft == MainAhead + ThreadsAhead

\* A step of main can be taken, or one of a thread.
MainCanGo == main # "exit" /\ ~Waits
ThreadCanGo(t) == main # "exit" /\ Running(t)

\* The numbers the proofs are about.
LEMMA Numerals ==
  ASSUME InputsAssumption, Frees, Works
  PROVE  /\ Rows * Cols \in Nat /\ Inner \in Nat /\ joined \in 0..(Rows * Cols)
         /\ \A o \in Objects : Size(o) \in Nat \ {0} /\ blocks[o] \in Nat
         /\ main \in Objects => blocks[main] < Size(main)
         /\ {"mat1", "mat2", "mat3", "v", "tid"} = Objects
         /\ Size("v") = 1 /\ Size("tid") = 1
         /\ Threads = 0..(Rows * Cols - 1)
<1>1. Rows * Cols \in Nat /\ Inner \in Nat
  BY Shapes DEF Works
<1>2. joined \in 0..(Rows * Cols)
  BY <1>1 DEF Works, Begun
<1>3. {"mat1", "mat2", "mat3", "v", "tid"} = Objects
  BY DEF Objects, Mats
<1>4. /\ \A o \in Objects : Size(o) \in Nat \ {0} /\ blocks[o] \in Nat
      /\ main \in Objects => blocks[main] < Size(main)
  BY DEF Frees, Allocated
<1>5. Size("v") = 1 /\ Size("tid") = 1
  BY DEF Size, Mats
<1>6. Threads = 0..(Rows * Cols - 1)
  BY DEF Threads, Below
<1> QED BY <1>1, <1>2, <1>3, <1>4, <1>5, <1>6

\* A thread's part is a number.
LEMMA AheadType ==
  ASSUME InputsAssumption, Frees, Works
  PROVE  Ahead \in [Threads -> Nat] /\ IsFiniteSet(Threads) /\ ThreadsAhead \in Nat
<1>1. Inner \in Nat
  BY Numerals
<1>2. ASSUME NEW t \in Threads PROVE AheadAt(pc[t], local[t].i) \in Nat
  <2>1. PICK i \in 0..Inner : i = local[t].i
    BY DEF Works, Working
  <2> QED BY <1>1, <2>1 DEF AheadAt
<1>3. Ahead \in [Threads -> Nat]
  BY <1>2 DEF Ahead
<1>4. IsFiniteSet(Threads)
  BY Numerals, FS_Interval
<1>5. ThreadsAhead \in Nat
  BY <1>3, <1>4, SumType DEF ThreadsAhead
<1> QED BY <1>3, <1>4, <1>5

\* main's part is one.
LEMMA MainType ==
  ASSUME InputsAssumption, Frees, Works
  PROVE  /\ MainAhead \in Nat
         /\ main \notin {"cleanup", "return", "exit"} => MainAhead > 2
<1>1. PICK n \in Nat : n = Rows * Cols
  BY Numerals
<1>2. PICK j \in 0..n : j = joined
  BY <1>1, Numerals
<1>3. PICK a \in Nat \ {0}, b \in Nat \ {0}, c \in Nat \ {0} :
        a = Size("mat1") /\ b = Size("mat2") /\ c = Size("mat3")
  BY Numerals
<1>4. PICK x \in Nat, y \in Nat, z \in Nat :
        x = blocks["mat1"] /\ y = blocks["mat2"] /\ z = blocks["mat3"]
  BY Numerals
<1>5. /\ main = "mat1" => x < a
      /\ main = "mat2" => y < b
      /\ main = "mat3" => z < c
  BY <1>3, <1>4, Numerals
<1>6. main \in {"mat1", "mat2", "mat3", "v", "tid", "check", "create", "cleanup", "return", "exit"}
  BY Numerals DEF Frees
<1> QED BY <1>1, <1>2, <1>3, <1>4, <1>5, <1>6 DEF MainAhead

\* So they are after a step.
LEMMA LaterTypes ==
  ASSUME InputsAssumption
  PROVE  Frees' /\ Works' => (MainAhead \in Nat /\ Ahead \in [Threads -> Nat] /\ ThreadsAhead \in Nat)'
<1>1. Frees /\ Works => MainAhead \in Nat /\ Ahead \in [Threads -> Nat] /\ ThreadsAhead \in Nat
  BY AheadType, MainType
<1> QED BY <1>1, PTL

\* The sizes are those of the input.
LEMMA SameSizes ==
  ASSUME input' = input
  PROVE  /\ Threads' = Threads /\ Rows' = Rows /\ Cols' = Cols /\ Inner' = Inner
         /\ \A o : Size(o)' = Size(o)
BY DEF Threads, Rows, Cols, Inner, Below, Size, RowsOf

\* No thread does anything.
LEMMA ThreadsRest ==
  ASSUME input' = input, pc' = pc, local' = local
  PROVE  ThreadsAhead' = ThreadsAhead
BY DEF ThreadsAhead, Ahead, AheadAt, Threads, Rows, Cols, Inner, Below

\* One thread is a step further.
LEMMA ThreadFalls ==
  ASSUME InputsAssumption, Frees, Works, Frees', Works', input' = input, NEW t \in Threads,
         \A u \in Threads \ {t} : pc'[u] = pc[u] /\ local'[u] = local[u],
         AheadAt(pc[t], local[t].i)' < AheadAt(pc[t], local[t].i)
  PROVE  ThreadsAhead' < ThreadsAhead
<1> DEFINE w == Ahead
           v1 == Ahead'
<1>1. w \in [Threads -> Nat] /\ IsFiniteSet(Threads)
  BY AheadType
<1>2. v1 \in [Threads -> Nat]
  <2>1. Ahead' \in [Threads' -> Nat]
    BY LaterTypes
  <2> QED BY <2>1, SameSizes
<1>3. \A u \in Threads \ {t} : v1[u] = w[u]
  BY SameSizes DEF Ahead, AheadAt
<1>4. v1[t] = AheadAt(pc[t], local[t].i)' /\ w[t] = AheadAt(pc[t], local[t].i)
  BY SameSizes DEF Ahead
<1>5. ThreadsAhead = SumOver(Threads, w) /\ ThreadsAhead' = SumOver(Threads, v1)
  BY SameSizes DEF ThreadsAhead
<1> HIDE DEF w, v1
<1>6. /\ SumOver(Threads, v1) \in Nat /\ SumOver(Threads, w) \in Nat
      /\ SumOver(Threads, v1) + w[t] = SumOver(Threads, w) + v1[t]
  BY ONLY <1>1, <1>2, <1>3, t \in Threads, SumOneChanged
<1>7. w[t] \in Nat /\ v1[t] \in Nat /\ v1[t] < w[t]
  BY <1>1, <1>2, <1>4
<1> QED BY <1>5, <1>6, <1>7

\* The whole is less when one part is and the other is not more.
LEMMA LessInAll ==
  ASSUME InputsAssumption, Frees, Works, Frees', Works',
         \/ MainAhead' < MainAhead /\ ThreadsAhead' = ThreadsAhead
         \/ MainAhead' = MainAhead /\ ThreadsAhead' < ThreadsAhead
  PROVE  StepsLeft' < StepsLeft
<1>1. PICK a \in Nat : a = MainAhead
  BY MainType
<1>2. PICK b \in Nat : b = ThreadsAhead
  BY AheadType
<1>3. MainAhead' \in Nat /\ ThreadsAhead' \in Nat
  BY LaterTypes
<1>4. PICK a1 \in Nat : a1 = MainAhead'
  BY <1>3
<1>5. PICK b1 \in Nat : b1 = ThreadsAhead'
  BY <1>3
<1>6. StepsLeft = a + b /\ StepsLeft' = a1 + b1
  BY <1>1, <1>2, <1>4, <1>5 DEF StepsLeft
<1>7. (a1 < a /\ b1 = b) \/ (a1 = a /\ b1 < b)
  BY <1>1, <1>2, <1>4, <1>5, Zenon
<1>8. a1 + b1 < a + b
  BY ONLY <1>7, a \in Nat, b \in Nat, a1 \in Nat, b1 \in Nat
<1> QED BY <1>6, <1>8, Zenon

\* A malloc that succeeds leaves main one block less.
LEMMA AllocFalls ==
  ASSUME InputsAssumption, Frees, Works, Frees', Works', NEW o \in Objects, Alloc(o)
  PROVE  MainAhead' < MainAhead /\ ThreadsAhead' = ThreadsAhead
<1>1. /\ main = o /\ blocks' = [blocks EXCEPT ![o] = @ + 1] /\ input' = input /\ joined' = joined
      /\ pc' = pc /\ local' = local
      /\ blocks'[o] = Size(o) => main' = Then[o]
      /\ blocks'[o] # Size(o) => main' = main
  BY DEF Alloc, threads
<1>2. ThreadsAhead' = ThreadsAhead
  BY <1>1, ThreadsRest
<1>3. PICK n \in Nat : n = Rows * Cols
  BY Numerals
<1>4. PICK j \in 0..n : j = joined
  BY <1>3, Numerals
<1>5. PICK a \in Nat \ {0}, b \in Nat \ {0}, c \in Nat \ {0} :
        a = Size("mat1") /\ b = Size("mat2") /\ c = Size("mat3")
  BY Numerals
<1>6. PICK x \in Nat : x = blocks[o]
  BY Numerals
<1>7. /\ blocks'[o] = x + 1
      /\ \A p \in Objects : p # o => blocks'[p] = blocks[p]
      /\ x < Size(o)
  <2>1. blocks \in [Objects -> Nat]
    BY DEF Frees, Allocated
  <2>2. blocks[main] < Size(main)
    BY <1>1, Numerals
  <2> QED BY <1>1, <1>6, <2>1, <2>2
<1>8. /\ Rows' * Cols' = n /\ joined' = j
      /\ Size("mat1")' = a /\ Size("mat2")' = b /\ Size("mat3")' = c
  BY <1>1, <1>3, <1>4, <1>5, SameSizes
<1>9. /\ o = "mat1" => blocks["mat2"] = 0
      /\ Then["mat1"] = "mat2" /\ Then["mat2"] = "check" /\ Then["mat3"] = "v"
      /\ Then["v"] = "tid" /\ Then["tid"] = "create"
  <2>1. ASSUME o = "mat1" PROVE blocks["mat2"] = 0
    <3>1. Rank["mat1"] = 1 /\ Rank["mat2"] = 2 /\ "mat2" \in Objects /\ "mat2" # main
      BY <1>1, <2>1 DEF Rank, Objects, Mats
    <3>2. mdepth = 0
      BY <1>1, <2>1, <3>1 DEF Frees, Allocated, Done
    <3> QED BY <1>1, <3>1, <3>2 DEF Frees, Allocated
  <2> QED BY <2>1 DEF Then
<1>10. CASE o = "mat1"
  <2>1. MainAhead = (a - x) + b + c + 3 + (n - j) + 3 /\ x < a
    BY <1>1, <1>3, <1>4, <1>5, <1>6, <1>7, <1>10 DEF MainAhead
  <2>2. CASE blocks'[o] = Size(o)
    <3>1. MainAhead' = (b - 0) + c + 3 + (n - j) + 3 /\ x + 1 = a
      <4>1. main' = "mat2" /\ blocks'["mat2"] = 0 /\ x + 1 = a
        BY <1>1, <1>5, <1>7, <1>9, <1>10, <2>2, Numerals
      <4> QED BY <1>5, <1>8, <4>1 DEF MainAhead
    <3> QED BY <1>2, <1>4, <2>1, <3>1
  <2>3. CASE blocks'[o] # Size(o)
    <3>1. MainAhead' = (a - (x + 1)) + b + c + 3 + (n - j) + 3
      BY <1>1, <1>7, <1>8, <1>10, <2>3 DEF MainAhead
    <3> QED BY <1>2, <1>4, <2>1, <3>1
  <2> QED BY <2>2, <2>3
<1>11. CASE o = "mat2"
  <2>1. MainAhead = (b - x) + c + 3 + (n - j) + 3 /\ x < b
    BY <1>1, <1>3, <1>4, <1>5, <1>6, <1>7, <1>11 DEF MainAhead
  <2>2. CASE blocks'[o] = Size(o)
    <3>1. MainAhead' = c + 3 + (n - j) + 3
      BY <1>1, <1>8, <1>9, <1>11, <2>2 DEF MainAhead
    <3> QED BY <1>2, <1>4, <2>1, <3>1
  <2>3. CASE blocks'[o] # Size(o)
    <3>1. MainAhead' = (b - (x + 1)) + c + 3 + (n - j) + 3
      BY <1>1, <1>7, <1>8, <1>11, <2>3 DEF MainAhead
    <3> QED BY <1>2, <1>4, <2>1, <3>1
  <2> QED BY <2>2, <2>3
<1>12. CASE o = "mat3"
  <2>1. MainAhead = (c - x) + 2 + (n - j) + 3 /\ x < c
    BY <1>1, <1>3, <1>4, <1>5, <1>6, <1>7, <1>12 DEF MainAhead
  <2>2. CASE blocks'[o] = Size(o)
    <3>1. MainAhead' = 2 + (n - j) + 3
      BY <1>1, <1>8, <1>9, <1>12, <2>2 DEF MainAhead
    <3> QED BY <1>2, <1>4, <2>1, <3>1
  <2>3. CASE blocks'[o] # Size(o)
    <3>1. MainAhead' = (c - (x + 1)) + 2 + (n - j) + 3
      BY <1>1, <1>7, <1>8, <1>12, <2>3 DEF MainAhead
    <3> QED BY <1>2, <1>4, <2>1, <3>1
  <2> QED BY <2>2, <2>3
<1>13. CASE o \in {"v", "tid"}
  <2>1. main' = Then[o]
    <3>1. Size(o) = 1 /\ x = 0
      BY <1>6, <1>7, <1>13, Numerals
    <3> QED BY <1>1, <1>7, <3>1
  <2>2. CASE o = "v"
    <3>1. MainAhead = 2 + (n - j) + 3 /\ MainAhead' = 1 + (n - j) + 3
      BY <1>1, <1>3, <1>4, <1>8, <1>9, <2>1, <2>2 DEF MainAhead
    <3> QED BY <1>2, <1>4, <3>1
  <2>3. CASE o = "tid"
    <3>1. MainAhead = 1 + (n - j) + 3 /\ MainAhead' = (n - j) + 3
      BY <1>1, <1>3, <1>4, <1>8, <1>9, <2>1, <2>3 DEF MainAhead
    <3> QED BY <1>2, <1>4, <3>1
  <2> QED BY <1>13, <2>2, <2>3
<1> QED BY <1>10, <1>11, <1>12, <1>13, Numerals

\* main's other steps.
LEMMA MainFalls ==
  ASSUME InputsAssumption, Frees, Works, Frees', Works',
         \/ \E o \in Objects : AllocFails(o)
         \/ OpenFails \/ Check \/ Join \/ MatrixPrint \/ Cleanup \/ Return
  PROVE  MainAhead' < MainAhead /\ ThreadsAhead' = ThreadsAhead
<1>1. input' = input /\ pc' = pc /\ local' = local
  BY DEF AllocFails, OpenFails, Check, Join, MatrixPrint, Cleanup, Return, threads
<1>2. ThreadsAhead' = ThreadsAhead
  BY <1>1, ThreadsRest
<1>3. PICK n \in Nat : n = Rows * Cols
  BY Numerals
<1>4. PICK j \in 0..n : j = joined
  BY <1>3, Numerals
<1>5. PICK c \in Nat \ {0} : c = Size("mat3")
  BY Numerals
<1>6. Rows' * Cols' = n /\ Size("mat3")' = c
  BY <1>1, <1>3, <1>5, SameSizes
<1>7. CASE (\E o \in Objects : AllocFails(o)) \/ OpenFails \/ MatrixPrint
  <2>1. main \notin {"cleanup", "return", "exit"} /\ main' = "cleanup"
    BY <1>7, Numerals DEF AllocFails, OpenFails, MatrixPrint
  <2>2. MainAhead > 2 /\ MainAhead' = 2
    BY <2>1, MainType DEF MainAhead
  <2>3. PICK m \in Nat : m = MainAhead
    BY MainType
  <2> QED BY <1>2, <2>2, <2>3
<1>8. CASE Check
  <2>1. main = "check" /\ main' \in {"mat3", "cleanup"} /\ blocks' = blocks /\ joined' = joined
    BY <1>8 DEF Check, threads
  <2>2. MainAhead = c + 3 + (n - j) + 3
    BY <1>3, <1>4, <1>5, <2>1 DEF MainAhead
  <2>3. CASE main' = "mat3"
    <3>1. blocks["mat3"] = 0
      <4>1. "mat3" \in Objects /\ "check" \notin Objects /\ Rank["mat3"] = 3
        BY DEF Objects, Mats, Rank
      <4>2. mdepth = 2
        BY <2>1, <4>1 DEF Frees, Allocated, Done
      <4> QED BY <2>1, <4>1, <4>2 DEF Frees, Allocated
    <3>2. MainAhead' = c + 2 + (n - j) + 3
      BY <1>4, <1>6, <2>1, <2>3, <3>1 DEF MainAhead
    <3> QED BY <1>2, <1>4, <2>2, <3>2
  <2>4. CASE main' = "cleanup"
    <3>1. MainAhead' = 2
      BY <2>4 DEF MainAhead
    <3> QED BY <1>2, <1>4, <2>2, <3>1
  <2> QED BY <2>1, <2>3, <2>4
<1>9. CASE Join
  <2>1. /\ main = "create" /\ main' = "create" /\ joined' = j + 1 /\ j < n
    BY <1>3, <1>4, <1>9 DEF Join
  <2>2. MainAhead = (n - j) + 3 /\ MainAhead' = (n - (j + 1)) + 3
    BY <1>3, <1>4, <1>6, <2>1 DEF MainAhead
  <2> QED BY <1>2, <1>4, <2>1, <2>2
<1>10. CASE Cleanup \/ Return
  BY <1>2, <1>10 DEF Cleanup, Return, MainAhead
<1> QED BY <1>7, <1>8, <1>9, <1>10

\* main creates a thread, or gives up.
LEMMA CreateFalls ==
  ASSUME InputsAssumption, Frees, Works, Frees', Works', CreateThread
  PROVE  \/ MainAhead' < MainAhead /\ ThreadsAhead' = ThreadsAhead
         \/ MainAhead' = MainAhead /\ ThreadsAhead' < ThreadsAhead
<1>1. /\ input' = input /\ local' = local /\ main = "create" /\ made < Rows * Cols
      /\ joined' = joined /\ blocks' = blocks
      /\ \/ pc' = [pc EXCEPT ![made] = "row"] /\ main' = main
         \/ main' = "cleanup" /\ pc' = pc
  BY DEF CreateThread
<1>2. CASE main' = "cleanup" /\ pc' = pc
  <2>1. MainAhead > 2 /\ MainAhead' = 2
    BY <1>1, <1>2, MainType DEF MainAhead
  <2>2. PICK m \in Nat : m = MainAhead
    BY MainType
  <2>3. ThreadsAhead' = ThreadsAhead
    BY <1>1, <1>2, ThreadsRest
  <2> QED BY <2>1, <2>2, <2>3
<1>3. CASE pc' = [pc EXCEPT ![made] = "row"] /\ main' = main
  <2>1. made \in Threads /\ made \in Nat
    <3>1. PICK n \in Nat : n = Rows * Cols
      BY Numerals
    <3>2. made \in 0..n /\ made < n
      BY <1>1, <3>1 DEF Works, Begun
    <3> QED BY <3>1, <3>2, Numerals
  <2>2. PICK t \in Threads : t = made
    BY <2>1
  <2>3. pc[t] = "none" /\ pc'[t] = "row" /\ \A u \in Threads \ {t} : pc'[u] = pc[u]
    <3>1. made <= t
      BY <2>1, <2>2
    <3> QED BY <1>3, <2>2, <3>1 DEF Works, Placed
  <2>4. PICK i \in Nat : i = Inner
    BY Numerals
  <2>5. AheadAt(pc[t], local[t].i) = 2 * i + 5
    BY <2>3, <2>4 DEF AheadAt
  <2>6. AheadAt(pc[t], local[t].i)' = 2 * i + 4
    BY <1>1, <2>3, <2>4, SameSizes DEF AheadAt
  <2>7. ThreadsAhead' < ThreadsAhead
    <3>1. AheadAt(pc[t], local[t].i)' < AheadAt(pc[t], local[t].i)
      BY <2>5, <2>6
    <3>2. \A u \in Threads \ {t} : pc'[u] = pc[u] /\ local'[u] = local[u]
      BY <1>1, <2>3
    <3> QED BY <1>1, <3>1, <3>2, ThreadFalls
  <2>8. MainAhead' = MainAhead
    BY <1>1, <1>3, SameSizes DEF MainAhead
  <2> QED BY <2>7, <2>8
<1> QED BY <1>1, <1>2, <1>3

\* A thread goes on.
LEMMA MulvectFalls ==
  ASSUME InputsAssumption, Frees, Works, Frees', Works', NEW t \in Threads, Thread(t)
  PROVE  MainAhead' = MainAhead /\ ThreadsAhead' < ThreadsAhead
<1>1. /\ input' = input /\ main' = main /\ blocks' = blocks /\ joined' = joined
      /\ \E from, to \in Places : Step(t, from, to)
  BY DEF Thread, FetchRow, FetchCol, Zero, Load, Store, Exit, Step, Places
<1>2. MainAhead' = MainAhead
  BY <1>1, SameSizes DEF MainAhead
<1>3. /\ pc \in [Threads -> Places]
      /\ local \in [Threads -> [row : Int, col : Int, i : 0..Inner, value : Int]]
      /\ pc[t] \in {"none", "row", "col", "zero"} => local[t].i = 0
      /\ pc[t] = "store" => local[t].i < Inner
  BY DEF Works, Placed, Working
<1>4. PICK n \in Nat : n = Inner
  BY Numerals
<1>5. PICK i \in 0..n : i = local[t].i
  BY <1>3, <1>4
<1>6. \A u \in Threads \ {t} : pc'[u] = pc[u] /\ local'[u] = local[u]
  <2>1. \A u \in Threads \ {t} : pc'[u] = pc[u]
    BY <1>1, <1>3 DEF Step
  <2>2. \A u \in Threads \ {t} : local'[u] = local[u]
    BY <1>3 DEF Thread, FetchRow, FetchCol, Zero, Load, Store, Exit
  <2> QED BY <2>1, <2>2
<1>7. Inner' = n
  BY <1>1, <1>4, SameSizes
<1>8. AheadAt(pc[t], local[t].i)' < AheadAt(pc[t], local[t].i)
  <2>1. CASE FetchRow(t)
    <3>1. pc[t] = "row" /\ pc'[t] = "col"
      BY <1>3, <2>1 DEF FetchRow, Step
    <3> QED BY <1>4, <1>7, <3>1 DEF AheadAt
  <2>2. CASE FetchCol(t)
    <3>1. pc[t] = "col" /\ pc'[t] = "zero"
      BY <1>3, <2>2 DEF FetchCol, Step
    <3> QED BY <1>4, <1>7, <3>1 DEF AheadAt
  <2>3. CASE Zero(t)
    <3>1. pc[t] = "zero" /\ pc'[t] = "load" /\ local'[t].i = 0
      BY <1>3, <2>3 DEF Zero, Step
    <3> QED BY <1>4, <1>7, <3>1 DEF AheadAt
  <2>4. CASE Load(t)
    <3>1. pc[t] = "load" /\ pc'[t] = "store" /\ local'[t].i = i /\ i < n
      BY <1>3, <1>4, <1>5, <2>4 DEF Load, Step
    <3> QED BY <1>4, <1>5, <1>7, <3>1 DEF AheadAt
  <2>5. CASE Store(t)
    <3>1. pc[t] = "store" /\ pc'[t] = "load" /\ local'[t].i = i + 1 /\ i < n
      BY <1>3, <1>4, <1>5, <2>5 DEF Store, Step
    <3> QED BY <1>4, <1>5, <1>7, <3>1 DEF AheadAt
  <2>6. CASE Exit(t)
    <3>1. pc[t] = "load" /\ pc'[t] = "done" /\ i = n
      BY <1>3, <1>4, <1>5, <2>6 DEF Exit, Step
    <3> QED BY <1>4, <1>5, <1>7, <3>1 DEF AheadAt
  <2> QED BY <2>1, <2>2, <2>3, <2>4, <2>5, <2>6 DEF Thread
<1>9. ThreadsAhead' < ThreadsAhead
  BY <1>1, <1>6, <1>8, ThreadFalls
<1> QED BY <1>2, <1>9

\* Every step of the program leaves it fewer.
LEMMA NextFalls ==
  ASSUME InputsAssumption, Frees, Works, Frees', Works', Next
  PROVE  StepsLeft' < StepsLeft
<1>1. ASSUME NEW o \in Objects, Alloc(o) PROVE StepsLeft' < StepsLeft
  BY <1>1, AllocFalls, LessInAll
<1>2. CASE \/ \E o \in Objects : AllocFails(o)
           \/ OpenFails \/ Check \/ Join \/ MatrixPrint \/ Cleanup \/ Return
  <2>1. MainAhead' < MainAhead /\ ThreadsAhead' = ThreadsAhead
    BY <1>2, MainFalls
  <2> QED BY <2>1, LessInAll
<1>3. CASE CreateThread
  BY <1>3, CreateFalls, LessInAll
<1>4. ASSUME NEW t \in Threads, Thread(t) PROVE StepsLeft' < StepsLeft
  BY <1>4, MulvectFalls, LessInAll
<1> QED BY <1>1, <1>2, <1>3, <1>4 DEF Next, Main

\* main goes on, or waits for a thread that does.
LEMMA SomeoneGoes ==
  ASSUME InputsAssumption, Frees, Works
  PROVE  main = "exit" \/ MainCanGo \/ \E t \in Threads : ThreadCanGo(t)
<1> SUFFICES ASSUME main # "exit", Waits PROVE \E t \in Threads : ThreadCanGo(t)
  BY DEF MainCanGo
<1>1. joined \in Threads /\ Running(joined)
  BY WorksJoins DEF JoinsStarted
<1>2. ThreadCanGo(joined)
  BY <1>1 DEF ThreadCanGo
<1> QED BY <1>1, <1>2

\* What the program begins with: two matrices to read and one to make, the rows of
\* each, v and tid, and every thread and its join.
LEMMA InitLeft ==
  ASSUME InputsAssumption, Init
  PROVE  StepsLeft = (2 * Rows + input.b.rows + 12) + Rows * Cols + Rows * Cols * (2 * Inner + 5)
<1>1. Frees /\ Works
  BY FreesInit, WorksInit
<1>2. PICK r \in Nat, b \in Nat, n \in Nat, k \in Nat :
        r = Rows /\ b = input.b.rows /\ n = Rows * Cols /\ k = Inner
  BY <1>1, Shapes DEF Works
<1>3. Size("mat1") = r + 2 /\ Size("mat2") = b + 2 /\ Size("mat3") = r + 2
  BY <1>2 DEF Size, RowsOf, Mats, Rows
<1>4. main = "mat1" /\ blocks["mat1"] = 0 /\ joined = 0
  BY Numerals, <1>1 DEF Init
<1>5. MainAhead = (2 * r + b + 12) + n
  BY <1>2, <1>3, <1>4 DEF MainAhead
<1>6. Cardinality(Threads) = n
  BY <1>1, <1>2, Numerals, FS_Interval
<1>7. \A t \in Threads : Ahead[t] = 2 * k + 5
  BY <1>2 DEF Ahead, AheadAt, Init
<1>8. ThreadsAhead = n * (2 * k + 5)
  <2>1. PICK m \in Nat : m = 2 * k + 5
    OBVIOUS
  <2>2. IsFiniteSet(Threads) /\ \A t \in Threads : Ahead[t] = m
    BY <1>1, <1>7, <2>1, AheadType
  <2>3. SumOver(Threads, Ahead) = Cardinality(Threads) * m
    BY <2>2, SumConstant
  <2> QED BY <1>6, <2>1, <2>3 DEF ThreadsAhead
<1> QED BY <1>2, <1>5, <1>8, Zenon DEF StepsLeft

\* matrixmul ends, as far as safety goes, whatever fails and however the threads are
\* scheduled (matrixmul.c:34-130): it has so many steps, each of which leaves it
\* fewer, and until main exits main can go on, or a thread it waits for can.  Where
\* two cells share a slot main may join a thread twice, or an id nobody wrote.
THEOREM ProgramRunsOut ==
  ASSUME InputsAssumption, OwnSlots
  PROVE  Spec => /\ StepsLeft = (2 * Rows + input.b.rows + 12) + Rows * Cols
                                + Rows * Cols * (2 * Inner + 5)
                 /\ [](StepsLeft \in Nat)
                 /\ [][StepsLeft' < StepsLeft]_vars
                 /\ [](main = "exit" \/ MainCanGo \/ \E t \in Threads : ThreadCanGo(t))
<1>1. Frees /\ Works => StepsLeft \in Nat
  BY AheadType, MainType DEF StepsLeft
<1>2. Frees /\ Works /\ Frees' /\ Works' /\ [Next]_vars => [StepsLeft' < StepsLeft]_vars
  BY NextFalls
<1>3. Frees /\ Works => main = "exit" \/ MainCanGo \/ \E t \in Threads : ThreadCanGo(t)
  BY SomeoneGoes
<1> QED BY <1>1, <1>2, <1>3, InitLeft, WorksAlways, PTL DEF Spec
=============================================================================
