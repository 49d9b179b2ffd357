-------------------------- MODULE FsmMachineProofs --------------------------
(***************************************************************************)
(* What MCMachine checks of FsmMachine, FsmLife and CommentRemover, for    *)
(* any number of states, keys, events, queued events and buckets, any      *)
(* length of the file and any size of buf.                                 *)
(*                                                                         *)
(* KeysSound is inductive as it stands: fsm_add_state may overwrite a key  *)
(* only of a state outside the table, and what makes the current key known *)
(* is always the key of a state inside, also when the current state is     *)
(* outside.  The marks need that Reach is closed, which takes one layer    *)
(* more than there are states.                                             *)
(*                                                                         *)
(* The memory of a machine needs to know, of each block, whose state of    *)
(* holding allows it to be there (LifeInv).                                *)
(*                                                                         *)
(* What the comment remover has printed, followed by what is outside       *)
(* comments from where it stands on, is always the same (Scanned).         *)
(***************************************************************************)
EXTENDS MCMachine, Numbers, Sequences, FiniteSetTheorems, SequenceTheorems, TLAPS

-----------------------------------------------------------------------------
(* The marks. *)

\* Sets that grow from each number to the next.
LEMMA Growing ==
  ASSUME NEW N \in Nat, NEW f, \A n \in 0..(N - 1) : f[n] \subseteq f[n + 1], NEW a \in 0..N
  PROVE  \A b \in 0..N : a <= b => f[a] \subseteq f[b]
<1> DEFINE S == {b \in 0..N : a <= b => f[a] \subseteq f[b]}
<1>1. 0 \in S
  OBVIOUS
<1>2. ASSUME NEW b \in 0..(N - 1), b \in S PROVE b + 1 \in S
  <2>1. b + 1 \in 0..N /\ f[b] \subseteq f[b + 1] /\ (a <= b + 1 => a <= b \/ a = b + 1)
    OBVIOUS
  <2>2. a <= b + 1 => f[a] \subseteq f[b + 1]
    BY <1>2, <2>1
  <2> QED BY <2>1, <2>2
<1>3. \A b \in 0..N : b \in S
  <2> HIDE DEF S
  <2> QED BY <1>1, <1>2, Induction
<1> QED BY <1>3

\* A set that grows within a finite one stops growing after as many steps as that
\* has elements.
LEMMA Stops ==
  ASSUME NEW X, IsFiniteSet(X),
         NEW step \in [SUBSET X -> SUBSET X], \A A \in SUBSET X : A \subseteq step[A],
         NEW f \in [0..Cardinality(X) -> SUBSET X],
         \A n \in 0..(Cardinality(X) - 1) : f[n + 1] = step[f[n]]
  PROVE  step[f[Cardinality(X)]] = f[Cardinality(X)]
<1> DEFINE N == Cardinality(X)
           S == {n \in 0..N : n <= Cardinality(f[n]) \/ step[f[n]] = f[n]}
<1>1. N \in Nat
  BY FS_CardinalityType
<1>2. \A A \in SUBSET X : IsFiniteSet(A) /\ Cardinality(A) \in Nat
  BY FS_Subset, FS_CardinalityType
<1> HIDE DEF N
<1>3. /\ \A n \in 0..N : f[n] \in SUBSET X
      /\ \A n \in 0..(N - 1) : f[n + 1] = step[f[n]]
  BY DEF N
<1>4. 0 \in S
  BY <1>1, <1>2, <1>3
<1>5. ASSUME NEW n \in 0..(N - 1), n \in S PROVE n + 1 \in S
  <2>1. n \in 0..N /\ n + 1 \in 0..N /\ f[n] \in SUBSET X /\ f[n + 1] \in SUBSET X /\ f[n + 1] = step[f[n]]
    <3>1. n \in 0..N /\ n + 1 \in 0..N
      BY <1>1
    <3> QED BY <1>3, <3>1
  <2>2. CASE step[f[n]] = f[n]
    BY <2>1, <2>2
  <2>3. CASE step[f[n]] # f[n]
    <3>1. n <= Cardinality(f[n])
      BY <1>5, <2>3
    <3>2. f[n] \in SUBSET f[n + 1] /\ IsFiniteSet(f[n + 1])
      BY <1>2, <2>1
    <3>3. Cardinality(f[n]) <= Cardinality(f[n + 1])
          /\ (Cardinality(f[n + 1]) = Cardinality(f[n]) => f[n + 1] = f[n])
      BY <3>2, FS_Subset
    <3>4. Cardinality(f[n]) \in Nat /\ Cardinality(f[n + 1]) \in Nat
      BY <1>2, <2>1
    <3>5. Cardinality(f[n]) # Cardinality(f[n + 1])
      BY <2>1, <2>3, <3>3
    <3>6. n + 1 <= Cardinality(f[n + 1])
      BY <3>1, <3>3, <3>4, <3>5
    <3> QED BY <2>1, <3>6
  <2> QED BY <2>2, <2>3
<1>6. N \in S
  <2> HIDE DEF S
  <2>1. \A n \in 0..N : n \in S
    BY <1>1, <1>4, <1>5, Induction
  <2> QED BY <1>1, <2>1
<1>7. f[N] \in SUBSET X
  <2>1. N \in 0..N
    BY <1>1
  <2> QED BY <1>3, <2>1
<1>8. ASSUME N <= Cardinality(f[N]) PROVE step[f[N]] = f[N]
  <2>1. Cardinality(f[N]) <= N /\ (N = Cardinality(f[N]) => X = f[N])
    BY <1>7, FS_Subset DEF N
  <2>2. X = f[N]
    BY <1>1, <1>2, <1>7, <1>8, <2>1
  <2> QED BY <1>7, <2>2
<1>9. step[f[N]] = f[N]
  BY <1>6, <1>8
<1> QED BY <1>9 DEF N

\* Where an event may lead: to a state or nowhere.
Targets == States \cup {Null}

\* The number of layers of Reach.
Depth == Cardinality(States) + 1

LEMMA MachineConstants ==
  /\ StKeys \subseteq Nat /\ Null \notin States
  /\ Null \notin States \X Event
  /\ IsFiniteSet(Targets) /\ Cardinality(Targets) = Depth
  /\ Depth \in Nat
<1>1. IsFiniteSet(States) /\ Null \notin States
  BY MachineAssumption
<1>2. IsFiniteSet(Targets) /\ Cardinality(Targets) = Depth
  BY <1>1, FS_AddElement DEF Targets, Depth
<1>3. Depth \in Nat
  BY <1>1, FS_CardinalityType DEF Depth
<1> QED BY <1>1, <1>2, <1>3, MachineAssumption DEF Event

\* The states that transitions of those in A lead to.
Led(A) == UNION {Successors(s) : s \in A}

\* They are ends, and so are those of the transitions the iterator yields, which
\* are among them.
LEMMA LedTo ==
  ASSUME TypeOK, NEW A, A \subseteq States
  PROVE  /\ Led(A) \subseteq Targets
         /\ \A s \in A : Successors(s) \subseteq Led(A)
         /\ \A x \in Led(A) : \E s \in A : x \in Successors(s)
         /\ \A s \in States : Followed(s) \subseteq Successors(s)
<1>1. \A s \in States : Successors(s) \subseteq Targets /\ Followed(s) \subseteq Successors(s)
  <2>1. ASSUME NEW s \in States PROVE Successors(s) \subseteq Targets /\ Followed(s) \subseteq Successors(s)
    <3>1. evttable[s] \in Seq(Event)
      BY DEF TypeOK
    <3>2. \A x \in ToSet(evttable[s]) : x[2] \in Targets
      BY <3>1 DEF ToSet, Event, Targets
    <3>3. \A i \in EvtYielded(s) : evttable[s][i] \in ToSet(evttable[s])
      BY DEF EvtYielded, ToSet
    <3> QED BY <3>2, <3>3 DEF Successors, Followed
  <2> QED BY <2>1
<1>2. \A x : x \in Led(A) <=> \E s \in A : x \in Successors(s)
  BY DEF Led
<1> QED BY <1>1, <1>2

LEMMA InTableStates == ASSUME TypeOK PROVE InTable \subseteq States
BY DEF TypeOK, InTable, ToSet

\* The layers of Reach.
LEMMA LayersAre ==
  ASSUME TypeOK, NEW S \in SUBSET Targets
  PROVE  \E c \in [0..Depth -> SUBSET Targets] :
           /\ c[0] = S /\ Reach(S) = c[Depth]
           /\ \A n \in 0..(Depth - 1) : c[n + 1] = c[n] \cup Led(InTable \cap c[n])
<1> DEFINE N == Depth
           G(n, A) == A \cup Led(InTable \cap A)
           f(g) == [n \in 0..N |-> IF n = 0 THEN S ELSE G(n, g[n - 1])]
           step == [n \in 1..N |-> [A \in SUBSET Targets |-> G(n, A)]]
           c == CHOOSE h : h = f(h)
<1>1. N \in Nat
  BY MachineConstants
<1>2. Reach(S) = c[N]
  BY DEF Reach, Led, Depth
<1> HIDE DEF N
<1>3. \A n \in 1..N, A \in SUBSET Targets : G(n, A) \in SUBSET Targets
  <2>1. ASSUME NEW n \in 1..N, NEW A \in SUBSET Targets
        PROVE  Led(InTable \cap A) \subseteq Targets
    <3>1. InTable \cap A \subseteq States
      BY InTableStates
    <3> QED BY <3>1, LedTo
  <2> QED BY <2>1
<1> HIDE DEF G
<1>4. PICK g \in [0..N -> SUBSET Targets] : g[0] = S /\ \A n \in 1..N : g[n] = step[n][g[n - 1]]
  <2>1. step \in [1..N -> [SUBSET Targets -> SUBSET Targets]]
    BY <1>3
  <2> HIDE DEF step
  <2>2. Recursive(N, SUBSET Targets, S, step) # {}
    BY <1>1, <2>1, Recursion
  <2> QED BY <2>2 DEF Recursive
<1>5. g = f(g)
  <2>1. ASSUME NEW n \in 1..N PROVE g[n] = G(n, g[n - 1])
    <3>1. n - 1 \in 0..N
      BY <1>1
    <3>2. g[n - 1] \in SUBSET Targets
      BY <3>1
    <3> QED BY <1>4, <3>2
  <2>2. \A n \in 0..N : g[n] = IF n = 0 THEN S ELSE G(n, g[n - 1])
    BY <1>1, <1>4, <2>1
  <2> QED BY <2>2
<1>6. c = f(c)
  BY <1>5
<1> HIDE DEF c
<1>7. c[0] = S
  BY <1>1, <1>6
<1>8. ASSUME NEW n \in 0..(N - 1) PROVE c[n + 1] = G(n + 1, c[n])
  <2>1. n + 1 \in 0..N /\ n + 1 # 0 /\ (n + 1) - 1 = n /\ n + 1 \in 1..N
    BY <1>1
  <2> QED BY <1>6, <2>1
<1>9. \A n \in 0..N : c[n] \in SUBSET Targets
  <2> DEFINE T == {n \in 0..N : c[n] \in SUBSET Targets}
  <2>1. 0 \in T
    BY <1>1, <1>7
  <2>2. ASSUME NEW n \in 0..(N - 1), n \in T PROVE n + 1 \in T
    <3>1. n + 1 \in 1..N /\ n + 1 \in 0..N
      BY <1>1
    <3> QED BY <1>3, <1>8, <2>2, <3>1
  <2>3. \A n \in 0..N : n \in T
    <3> HIDE DEF T
    <3> QED BY <1>1, <2>1, <2>2, Induction
  <2> QED BY <2>3
<1>10. c = [n \in 0..N |-> c[n]]
  BY <1>6
<1>11. c \in [0..N -> SUBSET Targets]
  BY <1>9, <1>10
<1>12. ASSUME NEW n \in 0..(N - 1) PROVE c[n + 1] = c[n] \cup Led(InTable \cap c[n])
  <2>1. (n + 1) - 1 = n
    BY <1>1
  <2> QED BY <1>8, <2>1 DEF G
<1> QED BY <1>2, <1>7, <1>11, <1>12 DEF N

\* The passes of fsm_mark_reachable_states, one for each entry of the table.
LEMMA PassesAre ==
  ASSUME TypeOK, NEW flags \in SUBSET Targets
  PROVE  \E c \in [0..Len(table) -> SUBSET Targets] :
           /\ c[0] = flags /\ Marked(flags) = c[Len(table)]
           /\ \A n \in 0..(Len(table) - 1) :
                c[n + 1] = IF n + 1 \in StYielded /\ table[n + 1] \in c[n]
                           THEN c[n] \cup Followed(table[n + 1]) ELSE c[n]
<1> DEFINE N == Len(table)
           G(n, A) == IF n \in StYielded /\ table[n] \in A THEN A \cup Followed(table[n]) ELSE A
           f(g) == [n \in 0..N |-> IF n = 0 THEN flags ELSE G(n, g[n - 1])]
           step == [n \in 1..N |-> [A \in SUBSET Targets |-> G(n, A)]]
           c == CHOOSE h : h = f(h)
<1>1. N \in Nat /\ table \in Seq(States)
  BY DEF TypeOK
<1>2. Marked(flags) = c[N]
  BY DEF Marked
<1>3. \A n \in 1..N, A \in SUBSET Targets : G(n, A) \in SUBSET Targets
  <2>1. \A n \in 1..N : Followed(table[n]) \subseteq Targets
    <3>1. ASSUME NEW n \in 1..N PROVE Followed(table[n]) \subseteq Targets
      <4>1. table[n] \in States /\ {table[n]} \subseteq States
        BY <1>1
      <4>2. /\ Led({table[n]}) \subseteq Targets
            /\ Successors(table[n]) \subseteq Led({table[n]})
            /\ Followed(table[n]) \subseteq Successors(table[n])
        BY <4>1, LedTo
      <4> QED BY <4>2
    <3> QED BY <3>1
  <2> QED BY <2>1
<1> HIDE DEF N
<1> HIDE DEF G
<1>4. PICK g \in [0..N -> SUBSET Targets] : g[0] = flags /\ \A n \in 1..N : g[n] = step[n][g[n - 1]]
  <2>1. step \in [1..N -> [SUBSET Targets -> SUBSET Targets]]
    BY <1>3
  <2> HIDE DEF step
  <2>2. Recursive(N, SUBSET Targets, flags, step) # {}
    BY <1>1, <2>1, Recursion
  <2> QED BY <2>2 DEF Recursive
<1>5. g = f(g)
  <2>1. ASSUME NEW n \in 1..N PROVE g[n] = G(n, g[n - 1])
    <3>1. n - 1 \in 0..N
      BY <1>1
    <3>2. g[n - 1] \in SUBSET Targets
      BY <3>1
    <3> QED BY <1>4, <3>2
  <2>2. \A n \in 0..N : g[n] = IF n = 0 THEN flags ELSE G(n, g[n - 1])
    BY <1>1, <1>4, <2>1
  <2> QED BY <2>2
<1>6. c = f(c)
  BY <1>5
<1> HIDE DEF c
<1>7. c[0] = flags
  BY <1>1, <1>6
<1>8. ASSUME NEW n \in 0..(N - 1) PROVE c[n + 1] = G(n + 1, c[n])
  <2>1. n + 1 \in 0..N /\ n + 1 # 0 /\ (n + 1) - 1 = n /\ n + 1 \in 1..N
    BY <1>1
  <2> QED BY <1>6, <2>1
<1>9. \A n \in 0..N : c[n] \in SUBSET Targets
  <2> DEFINE S == {n \in 0..N : c[n] \in SUBSET Targets}
  <2>1. 0 \in S
    BY <1>1, <1>7
  <2>2. ASSUME NEW n \in 0..(N - 1), n \in S PROVE n + 1 \in S
    <3>1. n + 1 \in 1..N /\ n + 1 \in 0..N
      BY <1>1
    <3> QED BY <1>3, <1>8, <2>2, <3>1
  <2>3. \A n \in 0..N : n \in S
    <3> HIDE DEF S
    <3> QED BY <1>1, <2>1, <2>2, Induction
  <2> QED BY <2>3
<1>10. c = [n \in 0..N |-> c[n]]
  BY <1>6
<1>11. c \in [0..N -> SUBSET Targets]
  BY <1>9, <1>10
<1> QED BY <1>2, <1>7, <1>8, <1>11 DEF N, G

\* No transition of a state of the table leads out of Reach: a path needs no more
\* steps than there are states.
LEMMA ReachClosed ==
  ASSUME TypeOK, NEW S \in SUBSET Targets
  PROVE  /\ S \subseteq Reach(S) /\ Reach(S) \subseteq Targets
         /\ Led(InTable \cap Reach(S)) \subseteq Reach(S)
<1> DEFINE step == [A \in SUBSET Targets |-> A \cup Led(InTable \cap A)]
<1>1. Depth \in Nat /\ IsFiniteSet(Targets) /\ Cardinality(Targets) = Depth
  BY MachineConstants
<1>2. PICK c \in [0..Depth -> SUBSET Targets] :
        /\ c[0] = S /\ Reach(S) = c[Depth]
        /\ \A n \in 0..(Depth - 1) : c[n + 1] = c[n] \cup Led(InTable \cap c[n])
  BY LayersAre
<1>3. /\ step \in [SUBSET Targets -> SUBSET Targets]
      /\ \A A \in SUBSET Targets : A \subseteq step[A]
  <2>1. ASSUME NEW A \in SUBSET Targets PROVE Led(InTable \cap A) \subseteq Targets
    <3>1. InTable \cap A \subseteq States
      BY InTableStates
    <3> QED BY <3>1, LedTo
  <2> QED BY <2>1
<1>4. \A A \in SUBSET Targets : step[A] = A \cup Led(InTable \cap A)
  OBVIOUS
<1> HIDE DEF step
<1>5. step[c[Depth]] = c[Depth]
  <2>1. \A n \in 0..(Depth - 1) : c[n] \in SUBSET Targets
    BY <1>1, <1>2
  <2>2. \A n \in 0..(Depth - 1) : c[n + 1] = step[c[n]]
    BY <1>2, <1>4, <2>1
  <2>3. /\ c \in [0..Cardinality(Targets) -> SUBSET Targets]
        /\ \A n \in 0..(Cardinality(Targets) - 1) : c[n + 1] = step[c[n]]
    BY <1>1, <1>2, <2>2
  <2>4. IsFiniteSet(Targets) /\ c \in [0..Cardinality(Targets) -> SUBSET Targets]
    BY <1>1, <2>3
  <2>5. \A n \in 0..(Cardinality(Targets) - 1) : c[n + 1] = step[c[n]]
    BY <2>3
  <2>6. step[c[Cardinality(Targets)]] = c[Cardinality(Targets)]
    BY <1>3, <2>4, <2>5, Stops
  <2> QED BY <1>1, <2>6
<1>6. 0 \in 0..Depth /\ Depth \in 0..Depth /\ 0 <= Depth
  BY <1>1
<1>7. c[Depth] \in SUBSET Targets
  BY <1>6
<1>8. Led(InTable \cap c[Depth]) \subseteq c[Depth]
  BY <1>4, <1>5, <1>7
<1>9. c[0] \subseteq c[Depth]
  <2>1. \A n \in 0..(Depth - 1) : c[n] \subseteq c[n + 1]
    BY <1>2
  <2>2. \A b \in 0..Depth : 0 <= b => c[0] \subseteq c[b]
    BY <1>1, <1>6, <2>1, Growing
  <2> QED BY <1>6, <2>2
<1> QED BY <1>2, <1>7, <1>8, <1>9

\* The pass marks nothing that the marked states do not lead to, and what each of
\* them leads to, as far as the iterators yield it.
LEMMA MarkedIs ==
  ASSUME TypeOK, NEW flags \in SUBSET States
  PROVE  /\ Marked(flags) \subseteq Reach(flags) /\ Marked(flags) \subseteq Targets
         /\ \A i \in StYielded : table[i] \in flags => Followed(table[i]) \subseteq Marked(flags)
<1> DEFINE N == Len(table)
<1>1. N \in Nat /\ table \in Seq(States) /\ flags \in SUBSET Targets
  BY DEF TypeOK, Targets
<1>2. PICK c \in [0..N -> SUBSET Targets] :
        /\ c[0] = flags /\ Marked(flags) = c[N]
        /\ \A n \in 0..(N - 1) :
             c[n + 1] = IF n + 1 \in StYielded /\ table[n + 1] \in c[n]
                        THEN c[n] \cup Followed(table[n + 1]) ELSE c[n]
  BY <1>1, PassesAre
<1>3. 0 \in 0..N /\ N \in 0..N
  BY <1>1
<1>4. flags \subseteq Reach(flags) /\ Reach(flags) \subseteq Targets
      /\ Led(InTable \cap Reach(flags)) \subseteq Reach(flags)
  BY <1>1, ReachClosed
<1>5. c[N] \subseteq Reach(flags)
  <2> DEFINE T == {n \in 0..N : c[n] \subseteq Reach(flags)}
  <2>1. 0 \in T
    BY <1>2, <1>3, <1>4
  <2>2. ASSUME NEW n \in 0..(N - 1), n \in T PROVE n + 1 \in T
    <3>1. n + 1 \in 0..N /\ c[n] \subseteq Reach(flags) /\ n + 1 \in 1..N
      BY <1>1, <2>2
    <3>2. ASSUME table[n + 1] \in c[n] PROVE Followed(table[n + 1]) \subseteq Reach(flags)
      <4> DEFINE s == table[n + 1]
      <4>1. s \in InTable \cap Reach(flags) /\ s \in States
        BY <1>1, <3>1, <3>2 DEF InTable, ToSet
      <4> HIDE DEF s
      <4>2. InTable \cap Reach(flags) \subseteq States
        BY InTableStates
      <4>3. Followed(s) \subseteq Successors(s) /\ Successors(s) \subseteq Led(InTable \cap Reach(flags))
        BY <4>1, <4>2, LedTo
      <4> QED BY <1>4, <4>3 DEF s
    <3>3. c[n + 1] \subseteq Reach(flags)
      BY <1>2, <3>1, <3>2
    <3> QED BY <3>1, <3>3
  <2>3. \A n \in 0..N : n \in T
    <3> HIDE DEF T, N
    <3> QED BY <1>1, <2>1, <2>2, Induction
  <2> QED BY <1>3, <2>3
<1>6. ASSUME NEW a \in 0..N, NEW b \in 0..N, a <= b PROVE c[a] \subseteq c[b]
  <2>1. \A n \in 0..(N - 1) : c[n] \subseteq c[n + 1]
    BY <1>2
  <2>2. \A m \in 0..N : a <= m => c[a] \subseteq c[m]
    <3> HIDE DEF N
    <3> QED BY <1>1, <2>1, Growing
  <2> QED BY <1>6, <2>2
<1>7. ASSUME NEW i \in StYielded, table[i] \in flags PROVE Followed(table[i]) \subseteq c[N]
  <2>1. i \in 1..N /\ i - 1 \in 0..(N - 1) /\ i - 1 \in 0..N /\ i \in 0..N /\ (i - 1) + 1 = i
        /\ 0 <= i - 1 /\ i <= N
    BY <1>1 DEF StYielded
  <2>2. table[i] \in c[i - 1]
    BY <1>2, <1>3, <1>6, <1>7, <2>1
  <2>3. c[i] = c[i - 1] \cup Followed(table[i])
    BY <1>2, <1>7, <2>1, <2>2
  <2>4. c[i] \subseteq c[N]
    BY <1>3, <1>6, <2>1
  <2> QED BY <2>3, <2>4
<1> QED BY <1>2, <1>3, <1>5, <1>7

-----------------------------------------------------------------------------
(* The keys. *)

LEMMA InitSound == Init => KeysSound
<1> SUFFICES ASSUME Init PROVE KeysSound
  OBVIOUS
<1> USE DEF Init
<1>1. TypeOK
  <2>1. <<>> \in Seq(States) /\ <<>> \in Seq(Event)
    OBVIOUS
  <2> QED BY <2>1 DEF TypeOK
<1>2. InTable = {}
  BY DEF InTable, ToSet
<1> QED BY <1>1, <1>2 DEF KeysSound, UniqueKeys, CurrentKeyKnown

\* An insertion adds one state to the table.
LEMMA Inserting ==
  ASSUME TypeOK, NEW s \in States, NEW k \in StKeys, table' = InsertAt(table, Place(k), s)
  PROVE  table' \in Seq(States) /\ InTable' = InTable \cup {s}
<1> DEFINE N == Len(table)
           p == Place(k)
           earlier == {i \in DOMAIN table : key[table[i]] % NBuckets <= k % NBuckets}
<1>1. N \in Nat /\ table \in Seq(States) /\ DOMAIN table = 1..N
  BY DEF TypeOK
<1>2. p \in 1..(N + 1)
  <2>1. IsFiniteSet(1..N) /\ Cardinality(1..N) = N
    BY <1>1, FS_Interval
  <2>2. earlier \subseteq 1..N
    BY <1>1
  <2> HIDE DEF earlier
  <2>3. Cardinality(earlier) \in Nat /\ Cardinality(earlier) <= N
    BY <2>1, <2>2, FS_Subset, FS_CardinalityType
  <2>4. p = 1 + Cardinality(earlier)
    BY DEF Place, earlier
  <2> QED BY <1>1, <2>3, <2>4
<1> HIDE DEF p
<1> DEFINE before == SubSeq(table, 1, p - 1)
           after == SubSeq(table, p, Len(table))
<1>3. /\ before \in Seq(States) /\ Len(before) = p - 1
      /\ \A n \in 1..(p - 1) : before[n] = table[n]
  BY <1>1, <1>2
<1>4. /\ after \in Seq(States) /\ Len(after) = N - p + 1
      /\ \A n \in 1..(N - p + 1) : after[n] = table[p + n - 1]
  BY <1>1, <1>2
<1>5. table' = before \o <<s>> \o after
  BY DEF InsertAt, p
<1> HIDE DEF before, after
<1> DEFINE start == before \o <<s>>
<1>6. /\ start \in Seq(States) /\ Len(start) = p /\ start[p] = s
      /\ \A n \in 1..(p - 1) : start[n] = table[n]
  BY <1>2, <1>3
<1>7. table' = start \o after
  BY <1>5
<1> HIDE DEF start
<1>8. /\ table' \in Seq(States) /\ Len(table') = N + 1
      /\ \A n \in 1..p : table'[n] = start[n]
      /\ \A n \in (p + 1)..(N + 1) : table'[n] = after[n - p]
  BY <1>1, <1>2, <1>4, <1>6, <1>7
<1>13. \A x : x \in InTable <=> \E n \in 1..N : x = table[n]
  BY <1>1 DEF InTable, ToSet
<1>9. ASSUME NEW n \in 1..(N + 1) PROVE table'[n] \in InTable \cup {s}
  <2>1. CASE n < p
    <3>1. n \in 1..(p - 1) /\ n \in 1..p /\ n \in 1..N
      BY <1>1, <1>2, <2>1
    <3>2. table'[n] = table[n]
      BY <1>6, <1>8, <3>1
    <3> QED BY <1>13, <3>1, <3>2
  <2>2. CASE n > p
    <3>1. n - p \in 1..(N - p + 1) /\ p + (n - p) - 1 = n - 1 /\ n - 1 \in 1..N
          /\ n \in (p + 1)..(N + 1)
      BY <1>1, <1>2, <2>2
    <3>2. table'[n] = table[n - 1]
      BY <1>4, <1>8, <3>1
    <3> QED BY <1>13, <3>1, <3>2
  <2>3. CASE n = p
    BY <1>2, <1>6, <1>8, <2>3
  <2> QED BY <1>1, <1>2, <2>1, <2>2, <2>3
<1>10. ASSUME NEW n \in 1..N PROVE \E m \in 1..(N + 1) : table'[m] = table[n]
  <2>1. CASE n < p
    BY <1>1, <1>2, <1>6, <1>8, <2>1
  <2>2. CASE n >= p
    <3>1. (n + 1) - p \in 1..(N - p + 1) /\ p + ((n + 1) - p) - 1 = n /\ n + 1 \in (p + 1)..(N + 1)
          /\ n + 1 \in 1..(N + 1)
      BY <1>1, <1>2, <2>2
    <3>2. table'[n + 1] = table[n]
      BY <1>4, <1>8, <3>1
    <3> QED BY <3>1, <3>2
  <2> QED BY <1>1, <1>2, <2>1, <2>2
<1>11. \E m \in 1..(N + 1) : table'[m] = s
  BY <1>1, <1>2, <1>6, <1>8
<1>12. \A x : x \in InTable' <=> \E n \in 1..(N + 1) : x = table'[n]
  BY <1>1, <1>8 DEF InTable, ToSet
<1>14. InTable' = InTable \cup {s}
  BY <1>9, <1>10, <1>11, <1>12, <1>13
<1> QED BY <1>8, <1>14

\* fsm_add_state (fsm.c:70-83).
LEMMA AddStateSound ==
  ASSUME KeysSound, NEW s \in States, NEW k \in StKeys, AddState(s, k)
  PROVE  KeysSound'
<1>1. /\ TypeOK /\ UniqueKeys /\ CurrentKeyKnown
      /\ s \notin InTable /\ key' = [key EXCEPT ![s] = k]
      /\ UNCHANGED <<evttable, reachable, cstate, handling, crashed>>
  BY DEF KeysSound, AddState
<1>2. key \in [States -> StKeys] /\ InTable \subseteq States
  BY <1>1, InTableStates DEF TypeOK
<1>3. key' \in [States -> StKeys] /\ key'[s] = k /\ \A t \in States : t # s => key'[t] = key[t]
  BY <1>1, <1>2
<1>4. \A t \in InTable : key'[t] = key[t]
  BY <1>1, <1>2, <1>3
<1>5. \/ Found(k) /\ UNCHANGED table /\ keyLost' = (keyLost /\ s # cstate)
      \/ ~Found(k) /\ table' = InsertAt(table, Place(k), s) /\ keyLost' = (keyLost /\ s # cstate)
      \/ ~Found(k) /\ UNCHANGED table /\ keyLost' = (keyLost \/ s = cstate)
  BY DEF AddState
<1>6. table' \in Seq(States) /\ (InTable' = InTable \/ (~Found(k) /\ InTable' = InTable \cup {s}))
  <2>1. CASE UNCHANGED table
    BY <1>1, <2>1 DEF TypeOK, InTable
  <2>2. CASE ~Found(k) /\ table' = InsertAt(table, Place(k), s)
    BY <1>1, <2>2, Inserting
  <2> QED BY <1>5, <2>1, <2>2
<1>7. TypeOK'
  BY <1>1, <1>3, <1>6 DEF TypeOK
<1>8. UniqueKeys'
  BY <1>1, <1>2, <1>3, <1>4, <1>6 DEF UniqueKeys, Found
<1>9. \A j \in StKeys : Found(j) => Found(j)'
  BY <1>4, <1>6 DEF Found
<1>10. CurrentKeyKnown'
  <2> SUFFICES ASSUME cstate' # Null
               PROVE  Found(key[cstate])' \/ (keyLost' /\ cstate' \notin InTable')
    BY DEF CurrentKeyKnown
  <2>1. cstate' = cstate /\ cstate \in States
    BY <1>1 DEF TypeOK
  <2>2. CASE cstate # s
    <3>1. key'[cstate] = key[cstate] /\ key[cstate] \in StKeys
      BY <1>2, <1>3, <2>1, <2>2
    <3>2. CASE Found(key[cstate])
      BY <1>9, <2>1, <3>1, <3>2 DEF Found
    <3>3. CASE keyLost /\ cstate \notin InTable
      BY <1>5, <1>6, <2>1, <2>2, <3>3
    <3> QED BY <1>1, <2>1, <3>2, <3>3 DEF CurrentKeyKnown
  <2>3. CASE cstate = s
    <3>1. CASE Found(k)
      BY <1>3, <1>9, <2>1, <2>3, <3>1 DEF Found
    <3>2. CASE ~Found(k) /\ table' = InsertAt(table, Place(k), s)
      <4>1. s \in InTable'
        BY <1>1, <3>2, Inserting
      <4> QED BY <2>1, <2>3, <4>1 DEF Found
    <3>3. CASE UNCHANGED table /\ keyLost' = (keyLost \/ s = cstate)
      <4>1. keyLost' /\ cstate' \notin InTable'
        BY <1>1, <2>3, <3>3 DEF InTable
      <4> QED BY <4>1
    <3> QED BY <1>5, <3>1, <3>2, <3>3
  <2> QED BY <2>2, <2>3
<1> QED BY <1>7, <1>8, <1>10 DEF KeysSound

\* What changes neither keys nor the table nor the current state.
LEMMA OthersSound ==
  ASSUME KeysSound, TypeOK', UNCHANGED <<key, table, cstate, keyLost>>
  PROVE  KeysSound'
BY DEF KeysSound, UniqueKeys, CurrentKeyKnown, Found, InTable

\* state_add_evt (states.c:45-76).
LEMMA AddEvtSound ==
  ASSUME KeysSound, NEW s \in States, NEW e \in Events, NEW t \in Targets, AddEvt(s, e, t)
  PROVE  KeysSound'
<1>1. evttable \in [States -> Seq(Event)] /\ <<e, t>> \in Event
  BY DEF KeysSound, TypeOK, Event, Targets
<1>2. Append(evttable[s], <<e, t>>) \in Seq(Event)
  BY <1>1
<1>3. TypeOK'
  BY <1>1, <1>2 DEF KeysSound, TypeOK, AddEvt
<1> QED BY <1>3, OthersSound DEF AddEvt

\* state_rem_evt (states.c:78-84).
LEMMA RemEvtSound ==
  ASSUME KeysSound, NEW s \in States, NEW i \in 1..MaxEvts, RemEvt(s, i)
  PROVE  KeysSound'
<1>1. evttable \in [States -> Seq(Event)] /\ i \in 1..Len(evttable[s])
  BY DEF KeysSound, TypeOK, RemEvt
<1> DEFINE before == SubSeq(evttable[s], 1, i - 1)
           after == SubSeq(evttable[s], i + 1, Len(evttable[s]))
<1>2. evttable[s] \in Seq(Event)
  BY <1>1
<1>3. before \in Seq(Event) /\ after \in Seq(Event)
  BY <1>1, <1>2
<1>4. RemoveAt(evttable[s], i) = before \o after
  BY DEF RemoveAt
<1> HIDE DEF before, after
<1>5. RemoveAt(evttable[s], i) \in Seq(Event)
  BY <1>3, <1>4
<1>6. TypeOK'
  BY <1>1, <1>5 DEF KeysSound, TypeOK, RemEvt
<1> QED BY <1>6, OthersSound DEF RemEvt

\* fsm_set_state, by the client or in the middle of a callback (fsm.c:120-143).
LEMMA SetStateSound ==
  ASSUME KeysSound, NEW s \in States, SetState(s)
  PROVE  KeysSound'
<1>1. TypeOK /\ s \in InTable /\ UNCHANGED <<key, table, evttable, handling>> /\ InTable' = InTable
  BY DEF KeysSound, SetState, InTable
<1>2. CASE UNCHANGED <<reachable, cstate, keyLost>>
  BY <1>1, <1>2, OthersSound DEF TypeOK
<1>3. CASE /\ Null \notin Marked(reachable \cup {s})
           /\ reachable' = Marked(reachable \cup {s}) /\ cstate' = s
  <2>1. reachable \cup {s} \in SUBSET States
    BY <1>1 DEF TypeOK
  <2>2. Marked(reachable \cup {s}) \subseteq Targets
    BY <1>1, <2>1, MarkedIs
  <2>3. TypeOK'
    BY <1>1, <1>3, <2>2 DEF TypeOK, Targets
  <2>4. Found(key[cstate])' /\ UniqueKeys'
    BY <1>1, <1>3 DEF Found, KeysSound, UniqueKeys
  <2> QED BY <2>3, <2>4 DEF KeysSound, CurrentKeyKnown
<1> QED BY <1>2, <1>3 DEF SetState

\* fsm_process_event up to the callback (fsm.c:241-248).
LEMMA ProcessEventSound ==
  ASSUME KeysSound, NEW x \in Event, ProcessEvent(x)
  PROVE  KeysSound'
<1>1. TypeOK'
  BY DEF KeysSound, TypeOK, ProcessEvent
<1> QED BY <1>1, OthersSound DEF ProcessEvent

\* fsm_process_event after the callback: the state it moves to need not be the
\* one the table has under that key, but the table has the key (fsm.c:250-256).
LEMMA TransitionSound ==
  ASSUME KeysSound, Transition
  PROVE  KeysSound'
<1>1. /\ TypeOK /\ handling # Null /\ handling' = Null /\ InTable' = InTable
      /\ UNCHANGED <<key, table, evttable, reachable>>
  BY DEF KeysSound, Transition, InTable
<1>2. handling[2][2] \in Targets
  BY <1>1 DEF TypeOK, Event, Targets
<1>3. CASE UNCHANGED <<cstate, keyLost>>
  BY <1>1, <1>3, OthersSound DEF TypeOK
<1>4. CASE /\ handling[2][2] # Null /\ Found(key[handling[2][2]])
           /\ cstate' = handling[2][2] /\ keyLost' = FALSE
  <2>1. TypeOK'
    BY <1>1, <1>2, <1>4 DEF TypeOK, Targets
  <2>2. Found(key[cstate])' /\ UniqueKeys'
    BY <1>1, <1>4 DEF Found, KeysSound, UniqueKeys
  <2> QED BY <2>1, <2>2 DEF KeysSound, CurrentKeyKnown
<1> QED BY <1>3, <1>4 DEF Transition

\* One step of the machine, whichever it is.
LEMMA NextSound ==
  ASSUME KeysSound, [Next]_vars
  PROVE  KeysSound'
<1>1. CASE \E s \in States, k \in StKeys : AddState(s, k)
  BY <1>1, AddStateSound
<1>2. CASE \E s \in States, e \in Events, t \in States \cup {Null} : AddEvt(s, e, t)
  BY <1>2, AddEvtSound DEF Targets
<1>3. CASE \E s \in States, i \in 1..MaxEvts : RemEvt(s, i)
  BY <1>3, RemEvtSound
<1>4. CASE \E s \in States : SetState(s)
  BY <1>4, SetStateSound
<1>5. CASE \E x \in Event : ProcessEvent(x)
  BY <1>5, ProcessEventSound
<1>6. CASE Transition
  BY <1>6, TransitionSound
<1>7. CASE UNCHANGED vars
  BY <1>7, OthersSound DEF vars, KeysSound, TypeOK
<1> QED BY <1>1, <1>2, <1>3, <1>4, <1>5, <1>6, <1>7 DEF Next

\* The table knows one state for each of its keys.  It knows the key of the current
\* state too, after any sequence of refused and failed additions, key clashes,
\* transitions and callbacks that set a state; unless the current state itself, which
\* the table does not have, was added under another key and malloc failed
\* (fsm.c:76, 124, 250-256).
THEOREM KeysStaySound == Spec => []KeysSound
BY InitSound, NextSound, PTL DEF Spec

\* fsm_set_state marks only what the marked states lead to, and all that one
\* transition of each of them leads to that the iterators yield; only a null
\* transition on the way can stop it (fsm.c:322-337, htable.c:284).
THEOREM MarksFollow == Spec => MarksOneStep
<1> DEFINE Sets(s) ==
             SetState(s) =>
               IF crashed'
               THEN Null \in Reach(reachable \cup {s})
               ELSE /\ reachable' \subseteq Reach(reachable \cup {s}) \ {Null}
                    /\ \A i \in StYielded :
                         table[i] \in reachable \cup {s} => Followed(table[i]) \subseteq reachable'
<1>1. ASSUME KeysSound, NEW s \in States PROVE Sets(s)
  <2> SUFFICES ASSUME SetState(s) PROVE Sets(s)
    OBVIOUS
  <2>1. TypeOK /\ reachable \cup {s} \in SUBSET States /\ ~crashed
    BY <1>1 DEF KeysSound, TypeOK, SetState
  <2>2. /\ Marked(reachable \cup {s}) \subseteq Reach(reachable \cup {s})
        /\ \A i \in StYielded :
             table[i] \in reachable \cup {s} => Followed(table[i]) \subseteq Marked(reachable \cup {s})
    BY <2>1, MarkedIs
  <2>3. CASE Null \in Marked(reachable \cup {s})
    <3>1. crashed'
      BY <2>3 DEF SetState
    <3> QED BY <2>2, <2>3, <3>1
  <2>4. CASE Null \notin Marked(reachable \cup {s})
    <3>1. ~crashed' /\ reachable' = Marked(reachable \cup {s})
      BY <2>1, <2>4 DEF SetState
    <3> QED BY <2>2, <2>4, <3>1
  <2> QED BY <2>3, <2>4
<1>2. KeysSound => \A s \in States : Sets(s)
  BY <1>1
<1>3. [Next]_vars /\ KeysSound => [\A s \in States : Sets(s)]_vars
  BY <1>2
<1> QED BY <1>3, KeysStaySound, PTL DEF Spec, MarksOneStep

-----------------------------------------------------------------------------
(* The memory of a machine. *)

MParts == {"fsm", "sttable", "pqtable", "mobj", "array"}
SParts == {"state", "evttable", "array", "key"}
EParts == {"key", "event", "node"}
QParts == {"pnode", "data"}

\* What a block belongs to.
OfMachine(p)     == <<<<>>, p>> \in live
OfState(s, p)    == <<<<s>>, p>> \in live
OfEvent(s, e, p) == <<<<s, e>>, p>> \in live
OfQueued(q, p)   == <<<<q>>, p>> \in live

AllBlocks ==
  ({<<>>} \X MParts)
  \cup ({<<s>> : s \in LifeStates} \X (SParts \cup {"node"}))
  \cup ({<<s, e>> : s \in LifeStates, e \in LifeEvents} \X EParts)
  \cup ({<<q>> : q \in LifeQueued} \X QParts)

LifeTypes ==
  /\ phase \in {"start", "up", "quit", "gone", "undefined"}
  /\ hold \in [LifeStates -> {"none", "mine", "given", "freed"}]
  /\ chain \in [Life!Buckets -> Seq(LifeStates)]
  /\ newstate \in [LifeStates \X LifeEvents -> LifeStates \cup {Null}]
  /\ current \in LifeStates \cup {Null} /\ serving \in LifeQueued \cup {Null}
  /\ running \in (LifeStates \X LifeEvents) \cup {Null}
  /\ live \subseteq AllBlocks

Usable(s) == hold[s] \in {"mine", "given"}
There == phase \in {"up", "quit", "undefined"}

\* The machine's blocks are there as long as it is; fsm_init strands two of them.
MachineBlocks ==
  /\ There => \A p \in MParts : OfMachine(p)
  /\ \A p \in MParts : OfMachine(p) =>
       \/ There
       \/ phase = "gone" /\ p = "pqtable" /\ <<<<>>, "mobj">> \in failed
       \/ phase = "gone" /\ p = "mobj" /\ <<<<>>, "array">> \in failed

\* A state's blocks, by who holds it.
StateOK(s) ==
  /\ s \in Life!InTable => hold[s] = "given"
  /\ phase = "start" => hold[s] = "none"
  /\ hold[s] = "none" => \A p \in SParts \cup {"node"} :
       OfState(s, p) => p = "array" /\ <<<<s>>, "key">> \in failed
  /\ hold[s] = "mine" => (\A p \in SParts : OfState(s, p)) /\ ~OfState(s, "node")
  /\ hold[s] = "given" =>
       /\ s \notin Life!InTable => <<<<s>>, "node">> \in failed /\ ~OfState(s, "node")
       /\ There =>
            /\ \A p \in SParts : OfState(s, p)
            /\ s \in Life!InTable => OfState(s, "node")
       /\ ~There /\ s \in Life!InTable =>
            /\ ~OfState(s, "key") /\ ~OfState(s, "node")
            /\ s \in Life!Yielded => \A p \in SParts : ~OfState(s, p)
  /\ hold[s] = "freed" => \A p \in SParts \cup {"node"} : OfState(s, p) => p = "key"

StateBlocks == \A s \in LifeStates : StateOK(s)

\* An event's blocks: all three if its table has it, and the state it leads to is one
\* of the client's; state_add_evt strands two of them.
EventOK(s, e) ==
  /\ OfEvent(s, e, "node") =>
       /\ OfEvent(s, e, "key") /\ OfEvent(s, e, "event")
       /\ Usable(s)
       /\ phase = "up" => newstate[<<s, e>>] \in LifeStates /\ Usable(newstate[<<s, e>>])
       /\ s \in Life!Yielded => There
  /\ OfEvent(s, e, "key") \/ OfEvent(s, e, "event") =>
       OfEvent(s, e, "node") \/ <<<<s, e>>, "node">> \in failed

EventBlocks == \A s \in LifeStates, e \in LifeEvents : EventOK(s, e)

QueuedBlocks ==
  \A q \in LifeQueued :
    /\ OfQueued(q, "pnode") <=> OfQueued(q, "data")
    /\ OfQueued(q, "pnode") => There

\* What the call in progress has at hand.
Calls ==
  /\ running # Null =>
       /\ phase \in {"up", "undefined"}
       /\ OfEvent(running[1], running[2], "event") => OfEvent(running[1], running[2], "node")
  /\ serving # Null => running # Null /\ OfQueued(serving, "pnode")
  /\ phase = "up" /\ current # Null => Usable(current)
  /\ phase = "start" => current = Null
  /\ phase # "undefined" => fault = {}
  /\ phase = "undefined" => /\ running # Null /\ fault = {<<running, "event">>}
                            /\ ~OfEvent(running[1], running[2], "event")

LifeInv == LifeTypes /\ MachineBlocks /\ StateBlocks /\ EventBlocks /\ QueuedBlocks /\ Calls

-----------------------------------------------------------------------------
(* What malloc and free do to the blocks. *)

LEMMA LifeConstants ==
  /\ NBuckets \in Nat \ {0} /\ StKeys \subseteq Nat
  /\ Null \notin LifeStates /\ Null \notin LifeQueued /\ Null \notin LifeStates \X LifeEvents
BY LifeRemoverAssumption DEF Life!LifeAssumption

LEMMA Orders ==
  /\ Life!ToSet(Life!FsmOrder) = MParts /\ Life!ToSet(Life!StateOrder) = SParts
  /\ Life!ToSet(Life!EvtOrder) = EParts /\ Life!ToSet(Life!QueuedOrder) = QParts
<1>1. Life!ToSet(Life!FsmOrder) = MParts
  BY DEF Life!ToSet, Life!FsmOrder, MParts
<1>2. Life!ToSet(Life!StateOrder) = SParts
  BY DEF Life!ToSet, Life!StateOrder, SParts
<1>3. Life!ToSet(Life!EvtOrder) = EParts
  BY DEF Life!ToSet, Life!EvtOrder, EParts
<1>4. Life!ToSet(Life!QueuedOrder) = QParts
  BY DEF Life!ToSet, Life!QueuedOrder, QParts
<1> QED BY <1>1, <1>2, <1>3, <1>4

\* Owners of different kinds are different.
LEMMA Owners ==
  /\ \A s : <<>> # <<s>>
  /\ \A s, e : <<>> # <<s, e>>
  /\ \A s, t, e : <<s>> # <<t, e>>
  /\ \A s, t : <<s>> = <<t>> <=> s = t
  /\ \A s, t, e, g : <<s, e>> = <<t, g>> <=> s = t /\ e = g
OBVIOUS

\* Blocks of one owner are added.
Adds(o, parts) == live' = live \cup ({o} \X parts)

LEMMA Added ==
  ASSUME NEW o, NEW parts, Adds(o, parts)
  PROVE  \A x, p : <<x, p>> \in live' <=> <<x, p>> \in live \/ (x = o /\ p \in parts)
BY DEF Adds

LEMMA FsmMalloc ==
  ASSUME NEW n \in 1..(Len(Life!FsmOrder) + 1), Life!Malloc(<<>>, Life!FsmOrder, Life!FsmUndo, n)
  PROVE  \/ n > Len(Life!FsmOrder) /\ Adds(<<>>, MParts) /\ failed' = failed
         \/ /\ ~(n > Len(Life!FsmOrder))
            /\ \E p \in MParts : 
                 /\ failed' = failed \cup {<<<<>>, p>>}
                 /\ Adds(<<>>, IF p = "mobj" THEN {"pqtable"} ELSE IF p = "array" THEN {"mobj"} ELSE {})
<1>1. Len(Life!FsmOrder) = 5
  BY DEF Life!FsmOrder
<1>2. CASE n = 1
  BY <1>1, <1>2 DEF Life!Malloc, Life!FsmOrder, Life!FsmUndo, Adds, MParts
<1>3. CASE n = 2
  BY <1>1, <1>3 DEF Life!Malloc, Life!FsmOrder, Life!FsmUndo, Adds, MParts
<1>4. CASE n = 3
  BY <1>1, <1>4 DEF Life!Malloc, Life!FsmOrder, Life!FsmUndo, Adds, MParts
<1>5. CASE n = 4
  BY <1>1, <1>5 DEF Life!Malloc, Life!FsmOrder, Life!FsmUndo, Adds, MParts
<1>6. CASE n = 5
  BY <1>1, <1>6 DEF Life!Malloc, Life!FsmOrder, Life!FsmUndo, Adds, MParts
<1>7. CASE n = 6
  BY <1>1, <1>7 DEF Life!Malloc, Life!FsmOrder, Life!FsmUndo, Adds, MParts
<1> QED BY <1>1, <1>2, <1>3, <1>4, <1>5, <1>6, <1>7

LEMMA StateMalloc ==
  ASSUME NEW s, NEW n \in 1..(Len(Life!StateOrder) + 1),
         Life!Malloc(<<s>>, Life!StateOrder, Life!StateUndo, n)
  PROVE  \/ n > Len(Life!StateOrder) /\ Adds(<<s>>, SParts) /\ failed' = failed
         \/ /\ ~(n > Len(Life!StateOrder))
            /\ \E p \in SParts :
                 /\ failed' = failed \cup {<<<<s>>, p>>}
                 /\ Adds(<<s>>, IF p = "key" THEN {"array"} ELSE {})
<1>1. Len(Life!StateOrder) = 4
  BY DEF Life!StateOrder
<1>2. CASE n = 1
  BY <1>1, <1>2 DEF Life!Malloc, Life!StateOrder, Life!StateUndo, Adds, SParts
<1>3. CASE n = 2
  BY <1>1, <1>3 DEF Life!Malloc, Life!StateOrder, Life!StateUndo, Adds, SParts
<1>4. CASE n = 3
  BY <1>1, <1>4 DEF Life!Malloc, Life!StateOrder, Life!StateUndo, Adds, SParts
<1>5. CASE n = 4
  BY <1>1, <1>5 DEF Life!Malloc, Life!StateOrder, Life!StateUndo, Adds, SParts
<1>6. CASE n = 5
  BY <1>1, <1>6 DEF Life!Malloc, Life!StateOrder, Life!StateUndo, Adds, SParts
<1> QED BY <1>1, <1>2, <1>3, <1>4, <1>5, <1>6

LEMMA EvtMalloc ==
  ASSUME NEW o, NEW n \in 1..(Len(Life!EvtOrder) + 1),
         Life!Malloc(o, Life!EvtOrder, Life!EvtUndo, n)
  PROVE  \/ n = 4 /\ Adds(o, EParts) /\ failed' = failed
         \/ n = 3 /\ Adds(o, {"key", "event"}) /\ failed' = failed \cup {<<o, "node">>}
         \/ n < 3 /\ Adds(o, {}) /\ failed \subseteq failed'
<1>1. Len(Life!EvtOrder) = 3
  BY DEF Life!EvtOrder
<1>2. CASE n = 1
  BY <1>1, <1>2 DEF Life!Malloc, Life!EvtOrder, Life!EvtUndo, Adds, EParts
<1>3. CASE n = 2
  BY <1>1, <1>3 DEF Life!Malloc, Life!EvtOrder, Life!EvtUndo, Adds, EParts
<1>4. CASE n = 3
  BY <1>1, <1>4 DEF Life!Malloc, Life!EvtOrder, Life!EvtUndo, Adds, EParts
<1>5. CASE n = 4
  BY <1>1, <1>5 DEF Life!Malloc, Life!EvtOrder, Life!EvtUndo, Adds, EParts
<1> QED BY <1>1, <1>2, <1>3, <1>4, <1>5

LEMMA AgainMalloc ==
  ASSUME NEW o, NEW n \in 1..(Len(Life!AgainOrder) + 1),
         Life!Malloc(o, Life!AgainOrder, Life!AgainUndo, n)
  PROVE  live' = live /\ failed \subseteq failed'
<1>1. Len(Life!AgainOrder) = 2
  BY DEF Life!AgainOrder
<1>2. CASE n = 1
  BY <1>1, <1>2 DEF Life!Malloc, Life!AgainOrder, Life!AgainUndo
<1>3. CASE n = 2
  BY <1>1, <1>3 DEF Life!Malloc, Life!AgainOrder, Life!AgainUndo
<1>4. CASE n = 3
  BY <1>1, <1>4 DEF Life!Malloc, Life!AgainOrder, Life!AgainUndo
<1> QED BY <1>1, <1>2, <1>3, <1>4

LEMMA QueuedMalloc ==
  ASSUME NEW q, NEW n \in 1..(Len(Life!QueuedOrder) + 1),
         Life!Malloc(<<q>>, Life!QueuedOrder, Life!QueuedUndo, n)
  PROVE  (Adds(<<q>>, QParts) \/ Adds(<<q>>, {})) /\ failed \subseteq failed'
<1>1. Len(Life!QueuedOrder) = 2
  BY DEF Life!QueuedOrder
<1>2. CASE n = 1
  BY <1>1, <1>2 DEF Life!Malloc, Life!QueuedOrder, Life!QueuedUndo, Adds, QParts
<1>3. CASE n = 2
  BY <1>1, <1>3 DEF Life!Malloc, Life!QueuedOrder, Life!QueuedUndo, Adds, QParts
<1>4. CASE n = 3
  BY <1>1, <1>4 DEF Life!Malloc, Life!QueuedOrder, Life!QueuedUndo, Adds, QParts
<1> QED BY <1>1, <1>2, <1>3, <1>4

LEMMA NodeMalloc ==
  ASSUME NEW s, NEW n \in 1..2, Life!Malloc(<<s>>, <<"node">>, <<{}, {}>>, n)
  PROVE  \/ n = 1 /\ Adds(<<s>>, {}) /\ failed' = failed \cup {<<<<s>>, "node">>}
         \/ n = 2 /\ Adds(<<s>>, {"node"}) /\ failed' = failed
<1>1. CASE n = 1
  BY <1>1 DEF Life!Malloc, Adds
<1>2. CASE n = 2
  BY <1>2 DEF Life!Malloc, Adds
<1> QED BY <1>1, <1>2

\* What is added to one owner is not added to others.
LEMMA AddedState ==
  ASSUME NEW t, NEW parts \in SUBSET (SParts \cup {"node"}), Adds(<<t>>, parts)
  PROVE  /\ \A p : OfMachine(p)' <=> OfMachine(p)
         /\ \A s, p : OfState(s, p)' <=> OfState(s, p) \/ (s = t /\ p \in parts)
         /\ \A s, e, p : OfEvent(s, e, p)' <=> OfEvent(s, e, p)
         /\ \A q, p : p \in QParts => (OfQueued(q, p)' <=> OfQueued(q, p))
BY Added, Owners DEF OfMachine, OfState, OfEvent, OfQueued, SParts, QParts

LEMMA AddedEvent ==
  ASSUME NEW t, NEW g, NEW parts, Adds(<<t, g>>, parts)
  PROVE  /\ \A p : OfMachine(p)' <=> OfMachine(p)
         /\ \A s, p : OfState(s, p)' <=> OfState(s, p)
         /\ \A s, e, p : OfEvent(s, e, p)' <=> OfEvent(s, e, p) \/ (s = t /\ e = g /\ p \in parts)
         /\ \A q, p : OfQueued(q, p)' <=> OfQueued(q, p)
BY Added, Owners DEF OfMachine, OfState, OfEvent, OfQueued

LEMMA AddedMachine ==
  ASSUME NEW parts, Adds(<<>>, parts)
  PROVE  /\ \A p : OfMachine(p)' <=> OfMachine(p) \/ p \in parts
         /\ \A s, p : OfState(s, p)' <=> OfState(s, p)
         /\ \A s, e, p : OfEvent(s, e, p)' <=> OfEvent(s, e, p)
         /\ \A q, p : OfQueued(q, p)' <=> OfQueued(q, p)
BY Added, Owners DEF OfMachine, OfState, OfEvent, OfQueued

LEMMA AddedQueued ==
  ASSUME NEW r, NEW parts \in SUBSET QParts, Adds(<<r>>, parts)
  PROVE  /\ \A p : OfMachine(p)' <=> OfMachine(p)
         /\ \A s, p : p \in SParts \cup {"node"} => (OfState(s, p)' <=> OfState(s, p))
         /\ \A s, e, p : OfEvent(s, e, p)' <=> OfEvent(s, e, p)
         /\ \A q, p : OfQueued(q, p)' <=> OfQueued(q, p) \/ (q = r /\ p \in parts)
BY Added, Owners DEF OfMachine, OfState, OfEvent, OfQueued, SParts, QParts

LEMMA SameTable ==
  ASSUME UNCHANGED chain
  PROVE  Life!InTable' = Life!InTable /\ Life!Yielded' = Life!Yielded
BY DEF Life!InTable, Life!Yielded, Life!Buckets, Life!ToSet

-----------------------------------------------------------------------------
(* The invariant. *)

LEMMA LifeInitInv == Life!Init => LifeInv
<1> SUFFICES ASSUME Life!Init PROVE LifeInv
  OBVIOUS
<1> USE DEF Life!Init
<1>1. \A s : s \notin Life!InTable
  BY LifeConstants DEF Life!InTable, Life!Buckets, Life!ToSet
<1>2. LifeTypes
  <2>1. <<>> \in Seq(LifeStates)
    OBVIOUS
  <2> QED BY <2>1 DEF LifeTypes
<1>3. MachineBlocks /\ StateBlocks /\ EventBlocks /\ QueuedBlocks
  BY <1>1 DEF MachineBlocks, There, StateBlocks, StateOK, EventBlocks, EventOK, QueuedBlocks, OfMachine, OfState, OfEvent, OfQueued
<1>4. Calls
  BY DEF Calls
<1> QED BY <1>2, <1>3, <1>4 DEF LifeInv

\* fsm_init (fsm.c:16-71).
LEMMA FsmInitLife == ASSUME LifeInv, Life!FsmInit PROVE LifeInv'
<1>1. PICK n \in 1..(Len(Life!FsmOrder) + 1) :
        /\ Life!Malloc(<<>>, Life!FsmOrder, Life!FsmUndo, n)
        /\ phase' = IF n > Len(Life!FsmOrder) THEN "up" ELSE "gone"
  BY DEF Life!FsmInit
<1>2. /\ phase = "start"
      /\ UNCHANGED <<fault, hold, stkey, chain, newstate, current, running, serving>>
  BY DEF Life!FsmInit
<1>3. \/ phase' = "up" /\ Adds(<<>>, MParts) /\ failed' = failed
      \/ /\ phase' = "gone"
         /\ \E p \in MParts :
              /\ failed' = failed \cup {<<<<>>, p>>}
              /\ Adds(<<>>, IF p = "mobj" THEN {"pqtable"} ELSE IF p = "array" THEN {"mobj"} ELSE {})
  BY <1>1, FsmMalloc
<1>4. PICK parts \in SUBSET MParts :
        /\ Adds(<<>>, parts) /\ failed \subseteq failed'
        /\ \/ phase' = "up" /\ parts = MParts
           \/ phase' = "gone" /\ \A p \in parts : \/ p = "pqtable" /\ <<<<>>, "mobj">> \in failed'
                                                  \/ p = "mobj" /\ <<<<>>, "array">> \in failed'
  <2>1. CASE phase' = "up" /\ Adds(<<>>, MParts) /\ failed' = failed
    BY <2>1
  <2>2. CASE phase' = "gone" /\ \E p \in MParts :
              /\ failed' = failed \cup {<<<<>>, p>>}
              /\ Adds(<<>>, IF p = "mobj" THEN {"pqtable"} ELSE IF p = "array" THEN {"mobj"} ELSE {})
    <3>1. PICK p \in MParts :
              /\ failed' = failed \cup {<<<<>>, p>>}
              /\ Adds(<<>>, IF p = "mobj" THEN {"pqtable"} ELSE IF p = "array" THEN {"mobj"} ELSE {})
      BY <2>2
    <3> DEFINE parts == IF p = "mobj" THEN {"pqtable"} ELSE IF p = "array" THEN {"mobj"} ELSE {}
    <3>2. parts \in SUBSET MParts
      BY DEF MParts
    <3>3. \A y \in parts : \/ y = "pqtable" /\ <<<<>>, "mobj">> \in failed'
                           \/ y = "mobj" /\ <<<<>>, "array">> \in failed'
      BY <3>1
    <3>4. Adds(<<>>, parts) /\ failed \subseteq failed' /\ phase' = "gone"
      BY <2>2, <3>1
    <3> HIDE DEF parts
    <3> QED BY <3>2, <3>3, <3>4
  <2> QED BY <1>3, <2>1, <2>2
<1>5. /\ \A p : OfMachine(p)' <=> OfMachine(p) \/ p \in parts
      /\ \A s, p : OfState(s, p)' <=> OfState(s, p)
      /\ \A s, e, p : OfEvent(s, e, p)' <=> OfEvent(s, e, p)
      /\ \A q, p : OfQueued(q, p)' <=> OfQueued(q, p)
  BY <1>4, AddedMachine
<1>6. \A s \in LifeStates : hold[s] = "none" /\ s \notin Life!InTable /\ s \notin Life!InTable'
  BY <1>2, SameTable DEF LifeInv, StateBlocks, StateOK
<1>7. LifeTypes'
  BY <1>2, <1>4 DEF LifeInv, LifeTypes, Adds, AllBlocks, Life!Buckets
<1>8. MachineBlocks'
  <2>1. \A p \in MParts : ~OfMachine(p)
    BY <1>2 DEF LifeInv, MachineBlocks, There
  <2> QED BY <1>4, <1>5, <2>1 DEF MachineBlocks, There
<1>9. StateBlocks'
  BY <1>2, <1>4, <1>5, <1>6 DEF LifeInv, StateBlocks, StateOK
<1>10. EventBlocks'
  <2>1. \A s \in LifeStates, e \in LifeEvents : ~OfEvent(s, e, "node")
    BY <1>6 DEF LifeInv, EventBlocks, EventOK, Usable
  <2> QED BY <1>4, <1>5, <2>1 DEF LifeInv, EventBlocks, EventOK
<1>11. QueuedBlocks'
  BY <1>2, <1>4, <1>5 DEF LifeInv, QueuedBlocks, There
<1>12. Calls'
  BY <1>2, <1>4 DEF LifeInv, Calls
<1> QED BY <1>7, <1>8, <1>9, <1>10, <1>11, <1>12 DEF LifeInv

\* state_init (states.c:11-46).
LEMMA StateInitLife == ASSUME LifeInv, NEW t \in LifeStates, Life!StateInit(t) PROVE LifeInv'
<1>1. /\ phase = "up" /\ running = Null /\ hold[t] = "none"
      /\ UNCHANGED <<fault, stkey, chain, newstate, current, running, serving>>
  BY DEF Life!StateInit, Life!Idle
<1>2. PICK n \in 1..(Len(Life!StateOrder) + 1) :
        /\ Life!Malloc(<<t>>, Life!StateOrder, Life!StateUndo, n)
        /\ IF n > Len(Life!StateOrder)
           THEN hold' = [hold EXCEPT ![t] = "mine"] /\ UNCHANGED phase
           ELSE phase' = "quit" /\ UNCHANGED hold
  BY DEF Life!StateInit
<1>3. \/ /\ hold' = [hold EXCEPT ![t] = "mine"] /\ phase' = "up"
         /\ Adds(<<t>>, SParts) /\ failed' = failed
      \/ /\ phase' = "quit" /\ hold' = hold
         /\ \E p \in SParts : /\ failed' = failed \cup {<<<<t>>, p>>}
                              /\ Adds(<<t>>, IF p = "key" THEN {"array"} ELSE {})
  BY <1>1, <1>2, StateMalloc
<1>4. PICK parts \in SUBSET SParts :
        /\ Adds(<<t>>, parts) /\ failed \subseteq failed'
        /\ \/ hold' = [hold EXCEPT ![t] = "mine"] /\ phase' = "up" /\ parts = SParts
           \/ phase' = "quit" /\ hold' = hold
              /\ \A p \in parts : p = "array" /\ <<<<t>>, "key">> \in failed'
  <2>1. CASE /\ hold' = [hold EXCEPT ![t] = "mine"] /\ phase' = "up"
             /\ Adds(<<t>>, SParts) /\ failed' = failed
    BY <2>1
  <2>2. ASSUME phase' = "quit", hold' = hold, NEW p \in SParts, failed' = failed \cup {<<<<t>>, p>>},
               Adds(<<t>>, IF p = "key" THEN {"array"} ELSE {})
        PROVE  \E parts \in SUBSET SParts :
                 /\ Adds(<<t>>, parts) /\ failed \subseteq failed'
                 /\ phase' = "quit" /\ hold' = hold
                 /\ \A x \in parts : x = "array" /\ <<<<t>>, "key">> \in failed'
    <3> DEFINE parts == IF p = "key" THEN {"array"} ELSE {}
    <3>1. parts \in SUBSET SParts /\ \A x \in parts : x = "array" /\ <<<<t>>, "key">> \in failed'
      BY <2>2 DEF SParts
    <3>2. Adds(<<t>>, parts) /\ failed \subseteq failed' /\ phase' = "quit" /\ hold' = hold
      BY <2>2
    <3> HIDE DEF parts
    <3> QED BY <3>1, <3>2
  <2> QED BY <1>3, <2>1, <2>2
<1>5. /\ \A p : OfMachine(p)' <=> OfMachine(p)
      /\ \A s, p : OfState(s, p)' <=> OfState(s, p) \/ (s = t /\ p \in parts)
      /\ \A s, e, p : OfEvent(s, e, p)' <=> OfEvent(s, e, p)
      /\ \A q, p : p \in QParts => (OfQueued(q, p)' <=> OfQueued(q, p))
  BY <1>4, AddedState
<1>6. Life!InTable' = Life!InTable /\ Life!Yielded' = Life!Yielded
  BY <1>1, SameTable
<1>7. LifeTypes'
  <2>1. live' \subseteq AllBlocks
    BY <1>4 DEF LifeInv, LifeTypes, Adds, AllBlocks
  <2>2. hold' \in [LifeStates -> {"none", "mine", "given", "freed"}]
    BY <1>4 DEF LifeInv, LifeTypes
  <2> QED BY <1>1, <1>4, <2>1, <2>2 DEF LifeInv, LifeTypes, Life!Buckets
<1>8. MachineBlocks'
  BY <1>1, <1>4, <1>5 DEF LifeInv, MachineBlocks, There
<1>9. StateBlocks'
  <2>1. ASSUME NEW s \in LifeStates, s # t
        PROVE  /\ hold'[s] = hold[s] /\ phase' \in {"up", "quit"}
               /\ \A p : OfState(s, p)' <=> OfState(s, p)
    BY <1>1, <1>4, <1>5, <2>1 DEF LifeInv, LifeTypes
  <2>2. /\ t \notin Life!InTable
        /\ \A p \in SParts \cup {"node"} : OfState(t, p) => p = "array" /\ <<<<t>>, "key">> \in failed
    BY <1>1 DEF LifeInv, StateBlocks, StateOK
  <2>3. \/ hold'[t] = "mine" /\ parts = SParts
        \/ hold'[t] = "none" /\ \A p \in parts : p = "array" /\ <<<<t>>, "key">> \in failed'
    BY <1>1, <1>4 DEF LifeInv, LifeTypes
  <2>4. "node" \notin parts /\ ~OfState(t, "node")
    BY <2>2 DEF SParts
  <2>5. ASSUME NEW s \in LifeStates, s # t PROVE StateOK(s)'
    BY <1>1, <1>4, <1>6, <2>1, <2>5 DEF LifeInv, StateBlocks, StateOK, There
  <2>6. StateOK(t)'
    BY <1>4, <1>5, <1>6, <2>2, <2>3, <2>4 DEF StateBlocks, StateOK
  <2> QED BY <2>5, <2>6 DEF StateBlocks, StateOK
<1>10. EventBlocks'
  BY <1>1, <1>4, <1>5, <1>6 DEF LifeInv, LifeTypes, EventBlocks, EventOK, Usable, There
<1>11. QueuedBlocks'
  BY <1>1, <1>4, <1>5 DEF LifeInv, QueuedBlocks, QParts, There
<1>12. Calls'
  BY <1>1, <1>4, <1>5 DEF LifeInv, LifeTypes, Calls, Usable
<1> QED BY <1>7, <1>8, <1>9, <1>10, <1>11, <1>12 DEF LifeInv

\* state_add_evt (states.c:48-80).
LEMMA AddEvtLife ==
  ASSUME LifeInv, NEW s \in LifeStates, NEW e \in LifeEvents, NEW t \in LifeStates, Life!AddEvt(s, e, t)
  PROVE  LifeInv'
<1>1. /\ phase = "up" /\ running = Null /\ Usable(s) /\ Usable(t)
      /\ UNCHANGED <<fault, hold, stkey, chain, current, running, serving>>
  BY DEF Life!AddEvt, Life!Idle, Usable
<1>2. \A p \in EParts : ~OfEvent(s, e, p)
  BY Orders DEF Life!AddEvt, Life!EvtBlocks, OfEvent
<1>3. PICK n \in 1..(Len(Life!EvtOrder) + 1) :
        /\ Life!Malloc(<<s, e>>, Life!EvtOrder, Life!EvtUndo, n)
        /\ newstate' = [newstate EXCEPT ![<<s, e>>] = IF n > Len(Life!EvtOrder) THEN t ELSE @]
        /\ phase' = IF n < Len(Life!EvtOrder) THEN "quit" ELSE phase
  BY DEF Life!AddEvt
<1>4. Len(Life!EvtOrder) = 3 /\ phase' \in {"up", "quit"}
  BY <1>1, <1>3 DEF Life!EvtOrder
<1>5. PICK parts \in SUBSET EParts :
        /\ Adds(<<s, e>>, parts) /\ failed \subseteq failed'
        /\ \/ n = 4 /\ parts = EParts
           \/ n = 3 /\ parts = {"key", "event"} /\ <<<<s, e>>, "node">> \in failed'
           \/ n < 3 /\ parts = {}
  <2>1. \/ n = 4 /\ Adds(<<s, e>>, EParts) /\ failed' = failed
        \/ n = 3 /\ Adds(<<s, e>>, {"key", "event"}) /\ failed' = failed \cup {<<<<s, e>>, "node">>}
        \/ n < 3 /\ Adds(<<s, e>>, {}) /\ failed \subseteq failed'
    BY <1>3, EvtMalloc
  <2>2. EParts \in SUBSET EParts /\ {"key", "event"} \in SUBSET EParts /\ {} \in SUBSET EParts
    BY DEF EParts
  <2> QED BY <2>1, <2>2
<1>6. /\ \A p : OfMachine(p)' <=> OfMachine(p)
      /\ \A u, p : OfState(u, p)' <=> OfState(u, p)
      /\ \A u, g, p : OfEvent(u, g, p)' <=> OfEvent(u, g, p) \/ (u = s /\ g = e /\ p \in parts)
      /\ \A q, p : OfQueued(q, p)' <=> OfQueued(q, p)
  BY <1>5, AddedEvent
<1>7. Life!InTable' = Life!InTable /\ Life!Yielded' = Life!Yielded
  BY <1>1, SameTable
<1>8. newstate \in [LifeStates \X LifeEvents -> LifeStates \cup {Null}]
  BY DEF LifeInv, LifeTypes
<1>9. \A u \in LifeStates, g \in LifeEvents : ~(u = s /\ g = e) => newstate'[<<u, g>>] = newstate[<<u, g>>]
  <2>1. \A u \in LifeStates, g \in LifeEvents : ~(u = s /\ g = e) => <<u, g>> # <<s, e>> /\ <<u, g>> \in LifeStates \X LifeEvents
    OBVIOUS
  <2> QED BY <1>3, <1>8, <2>1
<1>10. n = 4 => newstate'[<<s, e>>] = t
  <2>1. <<s, e>> \in LifeStates \X LifeEvents
    OBVIOUS
  <2> QED BY <1>3, <1>4, <1>8, <2>1
<1>11. LifeTypes'
  <2>1. live' \subseteq AllBlocks
    BY <1>5 DEF LifeInv, LifeTypes, Adds, AllBlocks
  <2>2. newstate' \in [LifeStates \X LifeEvents -> LifeStates \cup {Null}]
    BY <1>3, <1>8
  <2> QED BY <1>1, <1>4, <2>1, <2>2 DEF LifeInv, LifeTypes, Life!Buckets
<1>12. MachineBlocks'
  BY <1>1, <1>4, <1>6 DEF LifeInv, MachineBlocks, There
<1>13. StateBlocks'
  BY <1>1, <1>4, <1>5, <1>6, <1>7 DEF LifeInv, StateBlocks, StateOK, There
<1>14. EventBlocks'
  <2>1. ASSUME NEW u \in LifeStates, NEW g \in LifeEvents, ~(u = s /\ g = e) PROVE EventOK(u, g)'
    BY <1>1, <1>4, <1>5, <1>6, <1>7, <1>9, <2>1 DEF LifeInv, EventBlocks, EventOK, Usable, There
  <2>2. EventOK(s, e)'
    <3>1. \A p \in EParts : OfEvent(s, e, p)' <=> p \in parts
      BY <1>2, <1>6
    <3>2. OfEvent(s, e, "node")' => n = 4 /\ parts = EParts
      BY <1>5, <3>1 DEF EParts
    <3>3. OfEvent(s, e, "key")' \/ OfEvent(s, e, "event")' =>
            OfEvent(s, e, "node")' \/ <<<<s, e>>, "node">> \in failed'
      BY <1>5, <3>1 DEF EParts
    <3>4. n = 4 /\ parts = EParts => OfEvent(s, e, "key")' /\ OfEvent(s, e, "event")'
      BY <3>1 DEF EParts
    <3> QED BY <1>1, <1>4, <1>10, <3>2, <3>3, <3>4 DEF EventOK, Usable, There
  <2> QED BY <2>1, <2>2 DEF EventBlocks
<1>15. QueuedBlocks'
  BY <1>1, <1>4, <1>6 DEF LifeInv, QueuedBlocks, There
<1>16. Calls'
  BY <1>1, <1>4, <1>6 DEF LifeInv, Calls, Usable
<1> QED BY <1>11, <1>12, <1>13, <1>14, <1>15, <1>16 DEF LifeInv

\* state_add_evt of a known key, which leaves no block behind (states.c:48-73).
LEMMA AddEvtAgainLife ==
  ASSUME LifeInv, NEW s \in LifeStates, NEW e \in LifeEvents, Life!AddEvtAgain(s, e)
  PROVE  LifeInv'
<1>1. /\ phase = "up" /\ running = Null
      /\ UNCHANGED <<fault, hold, stkey, chain, newstate, current, running, serving>>
  BY DEF Life!AddEvtAgain, Life!Idle
<1>2. live' = live /\ failed \subseteq failed' /\ phase' \in {"up", "quit"}
  <2>1. PICK n \in 1..(Len(Life!AgainOrder) + 1) :
          /\ Life!Malloc(<<s, e, "again">>, Life!AgainOrder, Life!AgainUndo, n)
          /\ phase' = IF n > Len(Life!AgainOrder) THEN phase ELSE "quit"
    BY DEF Life!AddEvtAgain
  <2> QED BY <1>1, <2>1, AgainMalloc
<1>3. Life!InTable' = Life!InTable /\ Life!Yielded' = Life!Yielded
  BY <1>1, SameTable
<1>4. /\ \A p : OfMachine(p)' <=> OfMachine(p)
      /\ \A u, p : OfState(u, p)' <=> OfState(u, p)
      /\ \A u, g, p : OfEvent(u, g, p)' <=> OfEvent(u, g, p)
      /\ \A q, p : OfQueued(q, p)' <=> OfQueued(q, p)
  BY <1>2 DEF OfMachine, OfState, OfEvent, OfQueued
<1>5. LifeTypes' /\ Calls' /\ QueuedBlocks' /\ MachineBlocks'
  BY <1>1, <1>2, <1>4
     DEF LifeInv, LifeTypes, Calls, Usable, QueuedBlocks, MachineBlocks, There, Life!Buckets
<1>6. StateBlocks'
  BY <1>1, <1>2, <1>3, <1>4 DEF LifeInv, StateBlocks, StateOK, There
<1>7. EventBlocks'
  BY <1>1, <1>2, <1>3, <1>4 DEF LifeInv, EventBlocks, EventOK, Usable, There
<1> QED BY <1>5, <1>6, <1>7 DEF LifeInv

\* A state is appended to a chain.
LEMMA Appended ==
  ASSUME NEW b \in Life!Buckets, NEW s \in LifeStates,
         chain \in [Life!Buckets -> Seq(LifeStates)],
         chain' = [chain EXCEPT ![b] = Append(@, s)]
  PROVE  /\ chain' \in [Life!Buckets -> Seq(LifeStates)]
         /\ Life!InTable' = Life!InTable \cup {s}
<1>1. chain' \in [Life!Buckets -> Seq(LifeStates)]
  <2>1. Append(chain[b], s) \in Seq(LifeStates)
    OBVIOUS
  <2> QED BY <2>1
<1>2. ASSUME NEW c \in Seq(LifeStates)
      PROVE  Life!ToSet(Append(c, s)) = Life!ToSet(c) \cup {s}
  <2>1. Len(Append(c, s)) = Len(c) + 1 /\ \A k \in 1..Len(c) : Append(c, s)[k] = c[k]
    OBVIOUS
  <2>2. Append(c, s)[Len(c) + 1] = s /\ Len(c) \in Nat
    OBVIOUS
  <2>3. DOMAIN Append(c, s) = 1..(Len(c) + 1) /\ DOMAIN c = 1..Len(c)
    OBVIOUS
  <2>4. \A x \in Life!ToSet(Append(c, s)) : x \in Life!ToSet(c) \cup {s}
    BY <2>1, <2>2, <2>3 DEF Life!ToSet
  <2>5. \A x \in Life!ToSet(c) \cup {s} : x \in Life!ToSet(Append(c, s))
    <3>1. \A x \in Life!ToSet(c) : x \in Life!ToSet(Append(c, s))
      BY <2>1, <2>2, <2>3 DEF Life!ToSet
    <3>2. s \in Life!ToSet(Append(c, s))
      BY <2>1, <2>2, <2>3 DEF Life!ToSet
    <3> QED BY <3>1, <3>2
  <2> QED BY <2>4, <2>5
<1>3. Life!ToSet(chain'[b]) = Life!ToSet(chain[b]) \cup {s}
  BY <1>2
<1>4. \A c \in Life!Buckets : c # b => chain'[c] = chain[c]
  OBVIOUS
<1>5. \A x : x \in Life!InTable <=> \E c \in Life!Buckets : x \in Life!ToSet(chain[c])
  BY DEF Life!InTable
<1>6. \A x : x \in Life!InTable' <=> \E c \in Life!Buckets : x \in Life!ToSet(chain'[c])
  <2>1. Life!InTable' = UNION {Life!ToSet(chain'[c]) : c \in Life!Buckets}
    BY DEF Life!InTable, Life!Buckets, Life!ToSet
  <2> QED BY <2>1
<1>7. \A x : x \in Life!InTable' <=> x \in Life!InTable \/ x = s
  <2>1. \A x : x \in Life!InTable' => x \in Life!InTable \/ x = s
    BY <1>3, <1>4, <1>5, <1>6
  <2>2. \A x : x \in Life!InTable \/ x = s => x \in Life!InTable'
    BY <1>3, <1>4, <1>5, <1>6
  <2> QED BY <2>1, <2>2
<1> QED BY <1>1, <1>7

\* fsm_add_state (fsm.c:73-103).
LEMMA AddStateLife ==
  ASSUME LifeInv, NEW t \in LifeStates, NEW k \in StKeys, Life!AddState(t, k)
  PROVE  LifeInv'
<1>1. /\ phase = "up" /\ running = Null /\ hold[t] = "mine"
      /\ UNCHANGED <<fault, phase, newstate, current, running, serving>>
  BY DEF Life!AddState, Life!Idle
<1>2. chain \in [Life!Buckets -> Seq(LifeStates)] /\ hold \in [LifeStates -> {"none", "mine", "given", "freed"}]
  BY DEF LifeInv, LifeTypes
<1>3. \/ UNCHANGED <<live, failed, hold, chain>>
      \/ \E n \in 1..2 :
           /\ Life!Malloc(<<t>>, <<"node">>, <<{}, {}>>, n)
           /\ hold' = [hold EXCEPT ![t] = "given"]
           /\ chain' = IF n = 1 THEN chain ELSE [chain EXCEPT ![k % NBuckets] = Append(@, t)]
  BY DEF Life!AddState
<1>4. CASE UNCHANGED <<live, failed, hold, chain>>
  <2>1. Life!InTable' = Life!InTable /\ Life!Yielded' = Life!Yielded
    BY <1>4, SameTable
  <2> QED BY <1>1, <1>4, <2>1
          DEF LifeInv, LifeTypes, Life!Buckets, MachineBlocks, There, StateBlocks, StateOK, EventBlocks, EventOK,
              QueuedBlocks, Calls, Usable, OfMachine, OfState, OfEvent, OfQueued
<1>5. ASSUME NEW n \in 1..2, Life!Malloc(<<t>>, <<"node">>, <<{}, {}>>, n),
             hold' = [hold EXCEPT ![t] = "given"],
             chain' = IF n = 1 THEN chain ELSE [chain EXCEPT ![k % NBuckets] = Append(@, t)]
      PROVE  LifeInv'
  <2>1. PICK parts \in SUBSET {"node"} :
          /\ Adds(<<t>>, parts) /\ failed \subseteq failed'
          /\ \/ n = 1 /\ parts = {} /\ <<<<t>>, "node">> \in failed'
             \/ n = 2 /\ parts = {"node"}
    <3>1. \/ n = 1 /\ Adds(<<t>>, {}) /\ failed' = failed \cup {<<<<t>>, "node">>}
          \/ n = 2 /\ Adds(<<t>>, {"node"}) /\ failed' = failed
      BY <1>5, NodeMalloc
    <3>2. {} \in SUBSET {"node"} /\ {"node"} \in SUBSET {"node"}
      OBVIOUS
    <3> QED BY <3>1, <3>2
  <2>2. /\ \A p : OfMachine(p)' <=> OfMachine(p)
        /\ \A s, p : OfState(s, p)' <=> OfState(s, p) \/ (s = t /\ p \in parts)
        /\ \A s, e, p : OfEvent(s, e, p)' <=> OfEvent(s, e, p)
        /\ \A q, p : p \in QParts => (OfQueued(q, p)' <=> OfQueued(q, p))
    BY <2>1, AddedState
  <2>3. t \notin Life!InTable /\ (\A p \in SParts : OfState(t, p)) /\ ~OfState(t, "node")
    BY <1>1 DEF LifeInv, StateBlocks, StateOK
  <2>4. /\ chain' \in [Life!Buckets -> Seq(LifeStates)]
        /\ Life!InTable' = Life!InTable \cup (IF n = 2 THEN {t} ELSE {})
    <3>1. CASE n = 1
      BY <1>2, <1>5, <3>1, SameTable
    <3>2. CASE n = 2
      <4>1. k % NBuckets \in Life!Buckets
        BY LifeConstants DEF Life!Buckets
      <4>2. chain' = [chain EXCEPT ![k % NBuckets] = Append(@, t)]
        BY <1>5, <3>2
      <4>3. chain' \in [Life!Buckets -> Seq(LifeStates)] /\ Life!InTable' = Life!InTable \cup {t}
        BY <1>2, <4>1, <4>2, Appended
      <4> QED BY <3>2, <4>3
    <3> QED BY <3>1, <3>2
  <2>5. hold'[t] = "given" /\ \A s \in LifeStates : s # t => hold'[s] = hold[s]
    BY <1>2, <1>5
  <2>6. \A s \in LifeStates : Usable(s)' <=> Usable(s)
    BY <1>1, <2>5 DEF Usable
  <2>7. LifeTypes'
    <3>1. live' \subseteq AllBlocks
      BY <2>1 DEF LifeInv, LifeTypes, Adds, AllBlocks
    <3>2. hold' \in [LifeStates -> {"none", "mine", "given", "freed"}]
      BY <1>2, <1>5
    <3>3. chain' \in [Life!Buckets' -> Seq(LifeStates)]
      BY <2>4 DEF Life!Buckets
    <3> QED BY <1>1, <3>1, <3>2, <3>3 DEF LifeInv, LifeTypes
  <2>8. MachineBlocks'
    BY <1>1, <2>1, <2>2 DEF LifeInv, MachineBlocks, There
  <2>9. StateBlocks'
    <3>1. ASSUME NEW s \in LifeStates, s # t PROVE StateOK(s)'
      <4>1. s \in Life!InTable' <=> s \in Life!InTable
        BY <2>4, <3>1
      <4> QED BY <1>1, <2>1, <2>2, <2>5, <3>1, <4>1 DEF LifeInv, StateBlocks, StateOK, There
    <3>2. StateOK(t)'
      <4>1. t \in Life!InTable' <=> n = 2
        BY <2>3, <2>4
      <4>2. n = 2 => OfState(t, "node")'
        BY <2>1, <2>2
      <4>3. n # 2 => <<<<t>>, "node">> \in failed' /\ ~OfState(t, "node")'
        BY <2>1, <2>2, <2>3
      <4>4. \A p \in SParts : OfState(t, p)'
        BY <2>2, <2>3
      <4>5. There' /\ phase' # "start"
        BY <1>1 DEF There
      <4> QED BY <2>5, <4>1, <4>2, <4>3, <4>4, <4>5 DEF StateOK
    <3> QED BY <3>1, <3>2 DEF StateBlocks
  <2>10. EventBlocks'
    <3>1. There'
      BY <1>1 DEF There
    <3> QED BY <1>1, <2>1, <2>2, <2>6, <3>1 DEF LifeInv, EventBlocks, EventOK
  <2>11. QueuedBlocks'
    BY <1>1, <2>2 DEF LifeInv, QueuedBlocks, QParts, There
  <2>12. Calls'
    <3>1. phase' = "up" /\ current' # Null => Usable(current)'
      <4>1. current' = current /\ current \in LifeStates \cup {Null}
        BY <1>1 DEF LifeInv, LifeTypes
      <4>2. current # Null => Usable(current)
        BY <1>1 DEF LifeInv, Calls
      <4> QED BY <1>1, <2>5, <4>1, <4>2 DEF Usable
    <3>2. serving = Null
      BY <1>1 DEF LifeInv, Calls
    <3>3. fault' = {} /\ running' = Null /\ serving' = Null /\ phase' = "up"
      BY <1>1, <3>2 DEF LifeInv, Calls
    <3> QED BY <3>1, <3>3 DEF Calls
  <2> QED BY <2>7, <2>8, <2>9, <2>10, <2>11, <2>12 DEF LifeInv
<1> QED BY <1>3, <1>4, <1>5

\* Steps that allocate and free nothing of the machine's, keep the table and hold,
\* and go on with the calls.
LEMMA KeepsLife ==
  ASSUME LifeInv, UNCHANGED <<live, failed, phase, hold, chain, newstate>>,
         current' \in LifeStates \cup {Null}, serving' \in LifeQueued \cup {Null},
         running' \in (LifeStates \X LifeEvents) \cup {Null}, Calls'
  PROVE  LifeInv'
<1>1. Life!InTable' = Life!InTable /\ Life!Yielded' = Life!Yielded
  BY SameTable
<1> QED BY <1>1
    DEF LifeInv, LifeTypes, Life!Buckets, MachineBlocks, There, StateBlocks, StateOK, EventBlocks, EventOK,
        QueuedBlocks, Usable, OfMachine, OfState, OfEvent, OfQueued

\* What a client's state has.
LEMMA UsableBlocks ==
  ASSUME LifeInv, There, NEW s \in LifeStates, Usable(s)
  PROVE  \A p \in SParts : OfState(s, p)
BY DEF LifeInv, StateBlocks, StateOK, Usable

\* The states of the table.
LEMMA TableStates ==
  ASSUME LifeInv
  PROVE  /\ Life!InTable \subseteq LifeStates
         /\ \A s \in Life!InTable : hold[s] = "given" /\ Usable(s)
<1>1. chain \in [Life!Buckets -> Seq(LifeStates)]
  BY DEF LifeInv, LifeTypes
<1>2. \A c \in Seq(LifeStates) : Life!ToSet(c) \subseteq LifeStates
  BY DEF Life!ToSet
<1>3. Life!InTable \subseteq LifeStates
  BY <1>1, <1>2 DEF Life!InTable
<1> QED BY <1>3 DEF LifeInv, StateBlocks, StateOK, Usable

\* fsm_set_state (fsm.c:120-143).
LEMMA SetStateLife == ASSUME LifeInv, NEW s \in LifeStates, Life!SetState(s) PROVE LifeInv'
<1>1. /\ phase = "up" /\ s \in Life!InTable /\ current' = s
      /\ UNCHANGED <<live, failed, phase, hold, stkey, chain, newstate, running, serving>>
  BY DEF Life!SetState
<1> DEFINE known == {x \in Life!InTable \X LifeEvents : x[2] \in Life!Known(x[1])}
           written == {<<<<newstate[o]>>, "state">> : o \in known}
<1>2. fault' = fault \cup (written \ live)
  BY DEF Life!SetState
<1>3. ASSUME NEW o \in known PROVE <<<<newstate[o]>>, "state">> \in live
  <2>1. PICK t \in Life!InTable, e \in LifeEvents : o = <<t, e>>
    OBVIOUS
  <2>2. OfEvent(t, e, "node")
    BY <2>1 DEF Life!Known, OfEvent
  <2>3. t \in LifeStates
    BY TableStates
  <2>4. newstate[o] \in LifeStates /\ Usable(newstate[o])
    BY <1>1, <2>1, <2>2, <2>3 DEF LifeInv, EventBlocks, EventOK
  <2>5. "state" \in SParts /\ There
    BY <1>1 DEF SParts, There
  <2> QED BY <2>4, <2>5, UsableBlocks DEF OfState
<1>4. fault' = fault
  BY <1>2, <1>3
<1>5. Usable(s) /\ s \in LifeStates
  BY <1>1, TableStates
<1>6. Calls'
  BY <1>1, <1>4, <1>5 DEF LifeInv, Calls, Usable, OfEvent, OfQueued
<1> QED BY <1>1, <1>6, KeepsLife DEF LifeInv, LifeTypes

\* fsm_process_event up to the callback (fsm.c:225-246).
LEMMA ProcessLife ==
  ASSUME LifeInv, NEW q \in LifeQueued \cup {Null}, NEW e \in LifeEvents, Life!Process(q, e)
  PROVE  LifeInv'
<1>1. /\ phase = "up" /\ running = Null /\ current # Null
      /\ q # Null => <<<<q>>, "pnode">> \in live
      /\ e \in Life!Known(current)
      /\ running' = <<current, e>> /\ serving' = q
      /\ UNCHANGED <<live, failed, fault, phase, hold, stkey, chain, newstate, current>>
  BY DEF Life!Process, Life!Idle
<1>2. current \in LifeStates
  BY <1>1 DEF LifeInv, LifeTypes
<1>3. running' \in LifeStates \X LifeEvents /\ running'[1] = current /\ running'[2] = e
  BY <1>1, <1>2
<1>4. OfEvent(current, e, "node")
  BY <1>1 DEF Life!Known, OfEvent
<1>5. running' # Null
  BY <1>3, LifeConstants
<1>6. Calls'
  BY <1>1, <1>3, <1>4, <1>5 DEF LifeInv, Calls, Usable, OfEvent, OfQueued
<1> QED BY <1>1, <1>2, <1>3, <1>6, KeepsLife DEF LifeInv, LifeTypes

\* fsm_queue_event (fsm.c:150-187).
LEMMA QueueEventLife == ASSUME LifeInv, NEW q \in LifeQueued, Life!QueueEvent(q) PROVE LifeInv'
<1>1. /\ phase = "up" /\ ~OfQueued(q, "pnode")
      /\ UNCHANGED <<fault, phase, hold, stkey, chain, newstate, current, running, serving>>
  BY DEF Life!QueueEvent, OfQueued
<1>2. PICK parts \in {QParts, {}} : Adds(<<q>>, parts) /\ failed \subseteq failed'
  <2>1. PICK n \in 1..(Len(Life!QueuedOrder) + 1) :
          Life!Malloc(<<q>>, Life!QueuedOrder, Life!QueuedUndo, n)
    BY DEF Life!QueueEvent
  <2> QED BY <2>1, QueuedMalloc
<1>3. /\ \A p : OfMachine(p)' <=> OfMachine(p)
      /\ \A s, p : p \in SParts \cup {"node"} => (OfState(s, p)' <=> OfState(s, p))
      /\ \A s, e, p : OfEvent(s, e, p)' <=> OfEvent(s, e, p)
      /\ \A r, p : OfQueued(r, p)' <=> OfQueued(r, p) \/ (r = q /\ p \in parts)
  <2>1. parts \in SUBSET QParts
    OBVIOUS
  <2> QED BY <1>2, <2>1, AddedQueued
<1>4. Life!InTable' = Life!InTable /\ Life!Yielded' = Life!Yielded
  BY <1>1, SameTable
<1>5. There' /\ There
  BY <1>1 DEF There
<1>6. LifeTypes'
  <2>1. live' \subseteq AllBlocks
    BY <1>2 DEF LifeInv, LifeTypes, Adds, AllBlocks
  <2> QED BY <1>1, <2>1 DEF LifeInv, LifeTypes, Life!Buckets
<1>7. MachineBlocks'
  BY <1>1, <1>2, <1>3, <1>5 DEF LifeInv, MachineBlocks
<1>8. StateBlocks'
  <2>1. ASSUME NEW s \in LifeStates PROVE StateOK(s)'
    <3>1. \A p \in SParts \cup {"node"} : OfState(s, p)' <=> OfState(s, p)
      BY <1>3
    <3> QED BY <1>1, <1>2, <1>4, <1>5, <3>1 DEF LifeInv, StateBlocks, StateOK, SParts
  <2> QED BY <2>1 DEF StateBlocks
<1>9. EventBlocks'
  BY <1>1, <1>2, <1>3, <1>4, <1>5 DEF LifeInv, EventBlocks, EventOK, Usable
<1>10. QueuedBlocks'
  BY <1>1, <1>2, <1>3, <1>5 DEF LifeInv, QueuedBlocks, QParts
<1>11. Calls'
  BY <1>1, <1>3 DEF LifeInv, Calls, Usable
<1> QED BY <1>6, <1>7, <1>8, <1>9, <1>10, <1>11 DEF LifeInv

-----------------------------------------------------------------------------
(* Freeing. *)

LEMMA FreesAllOnce ==
  ASSUME NEW first, NEW second, Life!FreeInTurn(first, second),
         first \subseteq live, second \subseteq live \ first
  PROVE  /\ fault' = fault /\ live' \subseteq live
         /\ \A b : b \in live' <=> b \in live /\ b \notin first /\ b \notin second
BY DEF Life!FreeInTurn

\* state_rem_evt (states.c:82-108).
LEMMA RemEvtLife == ASSUME LifeInv, NEW s \in LifeStates, NEW e \in LifeEvents, Life!RemEvt(s, e) PROVE LifeInv'
<1>1. /\ phase = "up" /\ e \in Life!Known(s)
      /\ newstate' = [newstate EXCEPT ![<<s, e>>] = Null]
      /\ UNCHANGED <<failed, phase, hold, stkey, chain, current, running, serving>>
  BY DEF Life!RemEvt
<1> DEFINE blocks == {<<s, e>>} \X EParts
<1>2. OfEvent(s, e, "node")
  BY <1>1 DEF Life!Known, OfEvent
<1>3. \A p \in EParts : OfEvent(s, e, p)
  BY <1>2 DEF LifeInv, EventBlocks, EventOK, EParts
<1>4. blocks \subseteq live
  BY <1>3 DEF OfEvent
<1>5. Life!FreeInTurn(blocks, {})
  BY Orders DEF Life!RemEvt, Life!EvtBlocks
<1>6. fault' = fault /\ live' \subseteq live /\ \A b : b \in live' <=> b \in live /\ b \notin blocks
  <2>1. {} \subseteq live \ blocks
    OBVIOUS
  <2> HIDE DEF blocks
  <2> QED BY <1>4, <1>5, <2>1, FreesAllOnce
<1>7. /\ \A p : OfMachine(p)' <=> OfMachine(p)
      /\ \A u, p : OfState(u, p)' <=> OfState(u, p)
      /\ \A u, g, p : OfEvent(u, g, p)' <=> OfEvent(u, g, p) /\ ~(u = s /\ g = e /\ p \in EParts)
      /\ \A q, p : OfQueued(q, p)' <=> OfQueued(q, p)
  BY <1>6, Owners DEF OfMachine, OfState, OfEvent, OfQueued
<1>8. Life!InTable' = Life!InTable /\ Life!Yielded' = Life!Yielded
  BY <1>1, SameTable
<1>9. There' /\ There
  BY <1>1 DEF There
<1>10. newstate \in [LifeStates \X LifeEvents -> LifeStates \cup {Null}]
  BY DEF LifeInv, LifeTypes
<1>11. LifeTypes'
  <2>1. newstate' \in [LifeStates \X LifeEvents -> LifeStates \cup {Null}]
    BY <1>1, <1>10
  <2> QED BY <1>1, <1>6, <2>1 DEF LifeInv, LifeTypes, Life!Buckets, AllBlocks
<1>12. MachineBlocks'
  BY <1>1, <1>7, <1>9 DEF LifeInv, MachineBlocks
<1>13. StateBlocks'
  BY <1>1, <1>7, <1>8, <1>9 DEF LifeInv, StateBlocks, StateOK
<1>14. EventBlocks'
  <2>1. ASSUME NEW u \in LifeStates, NEW g \in LifeEvents, ~(u = s /\ g = e) PROVE EventOK(u, g)'
    <3>1. <<u, g>> # <<s, e>> /\ <<u, g>> \in LifeStates \X LifeEvents
      BY <2>1
    <3>2. newstate'[<<u, g>>] = newstate[<<u, g>>]
      BY <1>1, <1>10, <3>1
    <3>3. \A p : OfEvent(u, g, p)' <=> OfEvent(u, g, p)
      BY <1>7, <2>1
    <3> QED BY <1>1, <1>8, <1>9, <3>2, <3>3 DEF LifeInv, EventBlocks, EventOK, Usable
  <2>2. EventOK(s, e)'
    <3>1. \A p \in EParts : ~OfEvent(s, e, p)'
      BY <1>7
    <3> QED BY <3>1 DEF EventOK, EParts
  <2> QED BY <2>1, <2>2 DEF EventBlocks
<1>15. QueuedBlocks'
  BY <1>1, <1>7, <1>9 DEF LifeInv, QueuedBlocks
<1>16. Calls'
  <2>1. ASSUME NEW u, NEW g PROVE OfEvent(u, g, "event")' /\ (OfEvent(u, g, "event") => OfEvent(u, g, "node"))
                                    => OfEvent(u, g, "node")'
    BY <1>7 DEF EParts
  <2> QED BY <1>1, <1>6, <1>7, <2>1 DEF LifeInv, Calls, Usable
<1> QED BY <1>11, <1>12, <1>13, <1>14, <1>15, <1>16 DEF LifeInv

\* A queued event is freed, its data before its node or with it.
LEMMA QueuedFreed ==
  ASSUME LifeInv, There, NEW q \in LifeQueued, OfQueued(q, "pnode"),
         \A b : b \in live' <=> b \in live /\ b \notin {<<q>>} \X QParts,
         UNCHANGED <<failed, phase, hold, chain, newstate>>,
         current' \in LifeStates \cup {Null}, running' = Null, serving' = Null,
         fault' = fault, phase = "up", current' # Null => Usable(current')
  PROVE  LifeInv'
<1>1. /\ \A p : OfMachine(p)' <=> OfMachine(p)
      /\ \A s, p : p \in SParts \cup {"node"} => (OfState(s, p)' <=> OfState(s, p))
      /\ \A s, e, p : OfEvent(s, e, p)' <=> OfEvent(s, e, p)
      /\ \A r, p : OfQueued(r, p)' <=> OfQueued(r, p) /\ ~(r = q /\ p \in QParts)
  <2>1. \A s, p : p \in SParts \cup {"node"} => (OfState(s, p)' <=> OfState(s, p))
    BY DEF OfState, SParts, QParts
  <2>2. /\ \A p : OfMachine(p)' <=> OfMachine(p)
        /\ \A s, e, p : OfEvent(s, e, p)' <=> OfEvent(s, e, p)
        /\ \A r, p : OfQueued(r, p)' <=> OfQueued(r, p) /\ ~(r = q /\ p \in QParts)
    BY Owners DEF OfMachine, OfEvent, OfQueued
  <2> QED BY <2>1, <2>2
<1>2. Life!InTable' = Life!InTable /\ Life!Yielded' = Life!Yielded
  BY SameTable
<1>3. There'
  BY DEF There
<1>4. LifeTypes'
  BY DEF LifeInv, LifeTypes, Life!Buckets, AllBlocks
<1>5. MachineBlocks'
  BY <1>1, <1>3 DEF LifeInv, MachineBlocks
<1>6. StateBlocks'
  <2>1. ASSUME NEW s \in LifeStates PROVE StateOK(s)'
    <3>1. \A p \in SParts \cup {"node"} : OfState(s, p)' <=> OfState(s, p)
      BY <1>1
    <3> QED BY <1>2, <1>3, <3>1 DEF LifeInv, StateBlocks, StateOK, SParts
  <2> QED BY <2>1 DEF StateBlocks
<1>7. EventBlocks'
  BY <1>1, <1>2, <1>3 DEF LifeInv, EventBlocks, EventOK, Usable
<1>8. QueuedBlocks'
  BY <1>1, <1>3 DEF LifeInv, QueuedBlocks, QParts
<1>9. Calls'
  BY DEF LifeInv, Calls, Usable
<1> QED BY <1>4, <1>5, <1>6, <1>7, <1>8, <1>9 DEF LifeInv

\* fsm_dequeue_event of an event nobody knows (fsm.c:200-211).
LEMMA DiscardLife == ASSUME LifeInv, NEW q \in LifeQueued, Life!Discard(q) PROVE LifeInv'
<1>1. /\ phase = "up" /\ running = Null /\ current # Null /\ OfQueued(q, "pnode")
      /\ Life!FreeInTurn({<<<<q>>, "data">>}, {<<<<q>>, "pnode">>})
      /\ UNCHANGED <<failed, phase, hold, stkey, chain, newstate, current, running, serving>>
  BY DEF Life!Discard, Life!Idle, OfQueued
<1>2. OfQueued(q, "data")
  BY <1>1 DEF LifeInv, QueuedBlocks
<1>3. {<<<<q>>, "data">>} \subseteq live /\ {<<<<q>>, "pnode">>} \subseteq live \ {<<<<q>>, "data">>}
  BY <1>1, <1>2 DEF OfQueued
<1>4. /\ fault' = fault
      /\ \A b : b \in live' <=> b \in live /\ b \notin {<<<<q>>, "data">>} /\ b \notin {<<<<q>>, "pnode">>}
  BY <1>1, <1>3, FreesAllOnce
<1>5. \A b : b \in live' <=> b \in live /\ b \notin {<<q>>} \X QParts
  <2>1. \A b : b \in {<<q>>} \X QParts <=> b \in {<<<<q>>, "data">>} \/ b \in {<<<<q>>, "pnode">>}
    BY DEF QParts
  <2> QED BY <1>4, <2>1
<1>6. There /\ Usable(current) /\ serving = Null
  BY <1>1 DEF There, LifeInv, Calls
<1>7. current' \in LifeStates \cup {Null} /\ running' = Null /\ serving' = Null /\ Usable(current')
  BY <1>1, <1>6 DEF LifeInv, LifeTypes
<1> QED BY <1>1, <1>4, <1>5, <1>6, <1>7, QueuedFreed

\* fsm_process_event after the callback, and what fsm_dequeue_event frees
\* (fsm.c:206-211, 247-256).
LEMMA TransitionLife == ASSUME LifeInv, Life!Transition PROVE LifeInv'
<1> DEFINE t == newstate[running]
           blocks == IF serving = Null THEN {} ELSE Life!QueuedBlocks(serving)
           read == {<<running, "event">>} \cup {<<<<t>>, "state">>, <<<<t>>, "key">>}
<1>1. running # Null /\ UNCHANGED <<failed, hold, stkey, chain, newstate>>
  BY DEF Life!Transition
<1>2. PICK s \in LifeStates, e \in LifeEvents : running = <<s, e>>
  BY <1>1 DEF LifeInv, LifeTypes
<1>3. running[1] = s /\ running[2] = e /\ phase \in {"up", "undefined"}
  BY <1>1, <1>2 DEF LifeInv, Calls
<1>4. CASE <<running, "event">> \in live
  <2>1. OfEvent(s, e, "event")
    BY <1>2, <1>4 DEF OfEvent
  <2>2. phase = "up" /\ There
    BY <1>3, <2>1 DEF LifeInv, Calls, There
  <2>3. OfEvent(s, e, "node")
    BY <1>1, <1>3, <2>1 DEF LifeInv, Calls
  <2>4. t \in LifeStates /\ Usable(t)
    BY <1>2, <2>2, <2>3 DEF LifeInv, EventBlocks, EventOK
  <2>5. OfState(t, "state") /\ OfState(t, "key")
    BY <2>2, <2>4, UsableBlocks DEF SParts
  <2>6. read \subseteq live
    BY <1>4, <2>5 DEF OfState
  <2>7. /\ current' = IF Life!Found(stkey[t]) THEN t ELSE current
        /\ live' = live \ blocks /\ fault' = fault \cup ((read \cup blocks) \ live)
        /\ running' = Null /\ serving' = Null /\ phase' = phase
    BY <1>4 DEF Life!Transition
  <2>8. current' \in LifeStates \cup {Null} /\ (current' # Null => Usable(current'))
    <3>1. current \in LifeStates \cup {Null} /\ (current # Null => Usable(current))
      BY <2>2 DEF LifeInv, LifeTypes, Calls
    <3>2. CASE current' = t
      BY <2>4, <3>2
    <3>3. CASE current' = current
      BY <3>1, <3>3
    <3>4. current' = t \/ current' = current
      BY <2>7
    <3> QED BY <3>2, <3>3, <3>4
  <2>9. CASE serving = Null
    <3>1. live' = live /\ fault' = fault
      BY <2>6, <2>7, <2>9
    <3>2. Calls'
      <4>1. fault = {}
        BY <2>2 DEF LifeInv, Calls
      <4> QED BY <1>1, <2>2, <2>7, <2>8, <3>1, <4>1 DEF Calls, Usable
    <3> QED BY <1>1, <2>7, <2>8, <3>1, <3>2, KeepsLife
  <2>10. CASE serving # Null
    <3>1. serving \in LifeQueued /\ OfQueued(serving, "pnode")
      BY <2>10 DEF LifeInv, LifeTypes, Calls
    <3>2. OfQueued(serving, "data")
      BY <3>1 DEF LifeInv, QueuedBlocks
    <3>3. blocks = {<<serving>>} \X QParts
      BY <2>10, Orders DEF Life!QueuedBlocks
    <3>4. blocks \subseteq live
      BY <3>1, <3>2, <3>3 DEF OfQueued, QParts
    <3>5. fault' = fault
      BY <2>6, <2>7, <3>4
    <3>6. \A b : b \in live' <=> b \in live /\ b \notin {<<serving>>} \X QParts
      BY <2>7, <3>3
    <3>7. UNCHANGED <<failed, phase, hold, chain, newstate>> /\ running' = Null /\ serving' = Null
      BY <1>1, <2>7
    <3> DEFINE q == serving
    <3>8. q \in LifeQueued /\ OfQueued(q, "pnode") /\ \A b : b \in live' <=> b \in live /\ b \notin {<<q>>} \X QParts
      BY <3>1, <3>6
    <3> HIDE DEF q
    <3> QED BY <2>2, <2>8, <3>5, <3>7, <3>8, QueuedFreed
  <2> QED BY <2>9, <2>10
<1>5. CASE <<running, "event">> \notin live
  <2>1. /\ fault' = fault \cup {<<running, "event">>} /\ phase' = "undefined"
        /\ UNCHANGED <<live, current, running, serving>>
    BY <1>5 DEF Life!Transition
  <2>2. ~OfEvent(s, e, "event")
    BY <1>2, <1>5 DEF OfEvent
  <2>3. There /\ There'
    BY <1>3, <2>1 DEF There
  <2>4. fault' = {<<running, "event">>}
    <3>1. fault = {} \/ fault = {<<running, "event">>}
      BY DEF LifeInv, Calls
    <3> QED BY <2>1, <3>1
  <2>5. Life!InTable' = Life!InTable /\ Life!Yielded' = Life!Yielded
    BY <1>1, SameTable
  <2>6. LifeTypes'
    BY <1>1, <2>1 DEF LifeInv, LifeTypes, Life!Buckets, AllBlocks
  <2>7. MachineBlocks' /\ StateBlocks' /\ QueuedBlocks'
    BY <1>1, <2>1, <2>3, <2>5
       DEF LifeInv, MachineBlocks, StateBlocks, StateOK, QueuedBlocks, OfMachine, OfState, OfQueued
  <2>8. EventBlocks'
    BY <1>1, <2>1, <2>3, <2>5 DEF LifeInv, EventBlocks, EventOK, OfEvent, Usable
  <2>9. Calls'
    BY <1>1, <1>3, <2>1, <2>2, <2>4 DEF LifeInv, Calls, OfEvent, OfQueued
  <2> QED BY <2>6, <2>7, <2>8, <2>9 DEF LifeInv
<1> QED BY <1>4, <1>5

FParts == {"evttable", "array", "state"}

\* The blocks state_free frees, and that all of them are there (states.c:91-98).
LEMMA FreedBlocks ==
  ASSUME LifeInv, NEW s \in LifeStates, \A p \in SParts : OfState(s, p)
  PROVE  /\ \A b \in Life!StateFreed(s) :
              \/ \E p \in FParts : b = <<<<s>>, p>>
              \/ \E e \in LifeEvents, p \in EParts : OfEvent(s, e, "node") /\ b = <<<<s, e>>, p>>
         /\ \A p \in FParts : <<<<s>>, p>> \in Life!StateFreed(s)
         /\ \A e \in LifeEvents, p \in EParts : OfEvent(s, e, "node") => <<<<s, e>>, p>> \in Life!StateFreed(s)
         /\ Life!StateFreed(s) \subseteq live
<1>1. \A e : e \in Life!Known(s) <=> e \in LifeEvents /\ OfEvent(s, e, "node")
  BY DEF Life!Known, OfEvent
<1>2. \A e : Life!EvtBlocks(s, e) = {<<s, e>>} \X EParts
  BY Orders DEF Life!EvtBlocks
<1>3. ASSUME NEW b \in Life!StateFreed(s)
      PROVE  \/ \E p \in FParts : b = <<<<s>>, p>>
             \/ \E e \in LifeEvents, p \in EParts : OfEvent(s, e, "node") /\ b = <<<<s, e>>, p>>
  <2>1. CASE b \in {<<s>>} \X FParts
    BY <2>1
  <2>2. CASE b \in UNION {Life!EvtBlocks(s, e) : e \in Life!Known(s)}
    <3>1. PICK e \in Life!Known(s) : b \in {<<s, e>>} \X EParts
      BY <1>2, <2>2
    <3>2. \E p \in EParts : b = <<<<s, e>>, p>>
      BY <3>1
    <3> QED BY <1>1, <3>2
  <2> QED BY <2>1, <2>2 DEF Life!StateFreed, FParts
<1>4. \A p \in FParts : <<<<s>>, p>> \in Life!StateFreed(s)
  BY DEF Life!StateFreed, FParts
<1>5. ASSUME NEW e \in LifeEvents, NEW p \in EParts, OfEvent(s, e, "node")
      PROVE  <<<<s, e>>, p>> \in Life!StateFreed(s)
  BY <1>1, <1>2, <1>5 DEF Life!StateFreed
<1>6. ASSUME NEW b \in Life!StateFreed(s) PROVE b \in live
  <2>1. CASE \E p \in FParts : b = <<<<s>>, p>>
    BY <2>1 DEF FParts, SParts, OfState
  <2>2. CASE \E e \in LifeEvents, p \in EParts : OfEvent(s, e, "node") /\ b = <<<<s, e>>, p>>
    BY <2>2 DEF LifeInv, EventBlocks, EventOK, EParts, OfEvent
  <2> QED BY <1>3, <2>1, <2>2
<1> QED BY <1>3, <1>4, <1>5, <1>6

\* state_free by the client (states.c:91-98).
LEMMA StateFreeLife == ASSUME LifeInv, NEW s \in LifeStates, Life!StateFree(s) PROVE LifeInv'
<1>1. /\ phase \in {"up", "quit", "gone"} /\ running = Null /\ hold[s] = "mine"
      /\ Life!FreeInTurn(Life!StateFreed(s), {})
      /\ hold' = [hold EXCEPT ![s] = "freed"]
      /\ phase' = IF phase = "up" THEN "quit" ELSE phase
      /\ UNCHANGED <<failed, stkey, chain, newstate, current, running, serving>>
  BY DEF Life!StateFree
<1>2. hold \in [LifeStates -> {"none", "mine", "given", "freed"}]
  BY DEF LifeInv, LifeTypes
<1>3. (\A p \in SParts : OfState(s, p)) /\ ~OfState(s, "node") /\ s \notin Life!InTable
  BY <1>1 DEF LifeInv, StateBlocks, StateOK
<1> DEFINE blocks == Life!StateFreed(s)
<1>4. /\ \A b \in blocks :
           \/ \E p \in FParts : b = <<<<s>>, p>>
           \/ \E e \in LifeEvents, p \in EParts : OfEvent(s, e, "node") /\ b = <<<<s, e>>, p>>
      /\ \A p \in FParts : <<<<s>>, p>> \in blocks
      /\ \A e \in LifeEvents, p \in EParts : OfEvent(s, e, "node") => <<<<s, e>>, p>> \in blocks
      /\ blocks \subseteq live
  BY <1>3, FreedBlocks
<1>5. fault' = fault /\ live' \subseteq live /\ \A b : b \in live' <=> b \in live /\ b \notin blocks
  <2>1. {} \subseteq live \ blocks /\ Life!FreeInTurn(blocks, {})
    BY <1>1
  <2> HIDE DEF blocks
  <2> QED BY <1>4, <2>1, FreesAllOnce
<1> HIDE DEF blocks
<1>6. /\ \A p : OfMachine(p)' <=> OfMachine(p)
      /\ \A u, p : u # s => (OfState(u, p)' <=> OfState(u, p))
      /\ \A p : OfState(s, p)' <=> OfState(s, p) /\ p \notin FParts
      /\ \A u, e, p : u # s => (OfEvent(u, e, p)' <=> OfEvent(u, e, p))
      /\ \A e \in LifeEvents, p \in EParts :
           OfEvent(s, e, p)' <=> OfEvent(s, e, p) /\ ~OfEvent(s, e, "node")
      /\ \A q : \A p \in QParts : OfQueued(q, p)' <=> OfQueued(q, p)
  <2>1. \A p : <<<<>>, p>> \notin blocks
    BY <1>4
  <2>2. \A u, p : u # s => <<<<u>>, p>> \notin blocks
    BY <1>4
  <2>3. \A p : <<<<s>>, p>> \in blocks <=> p \in FParts
    BY <1>4
  <2>4. \A u, e, p : u # s => <<<<u, e>>, p>> \notin blocks
    BY <1>4
  <2>5. \A e \in LifeEvents, p \in EParts : <<<<s, e>>, p>> \in blocks <=> OfEvent(s, e, "node")
    BY <1>4
  <2>6. \A q : \A p \in QParts : <<<<q>>, p>> \notin blocks
    BY <1>4 DEF QParts, FParts
  <2> QED BY <1>5, <2>1, <2>2, <2>3, <2>4, <2>5, <2>6 DEF OfMachine, OfState, OfEvent, OfQueued
<1>7. Life!InTable' = Life!InTable /\ Life!Yielded' = Life!Yielded
  BY <1>1, SameTable
<1>8. (There' <=> There) /\ phase' \in {"quit", "gone"} /\ (phase = "gone" => phase' = "gone")
  BY <1>1 DEF There
<1>9. \A u \in LifeStates : u # s => hold'[u] = hold[u] /\ (Usable(u)' <=> Usable(u))
  BY <1>1, <1>2 DEF Usable
<1>10. hold'[s] = "freed"
  BY <1>1, <1>2
<1>11. LifeTypes'
  <2>1. hold' \in [LifeStates -> {"none", "mine", "given", "freed"}]
    BY <1>1, <1>2
  <2> QED BY <1>1, <1>5, <1>8, <2>1 DEF LifeInv, LifeTypes, Life!Buckets, AllBlocks
<1>12. MachineBlocks'
  BY <1>1, <1>6, <1>8 DEF LifeInv, MachineBlocks
<1>13. StateBlocks'
  <2>1. ASSUME NEW u \in LifeStates, u # s PROVE StateOK(u)'
    BY <1>1, <1>6, <1>7, <1>8, <1>9, <2>1 DEF LifeInv, StateBlocks, StateOK
  <2>2. StateOK(s)'
    BY <1>3, <1>6, <1>7, <1>8, <1>10 DEF StateOK, FParts, SParts
  <2> QED BY <2>1, <2>2 DEF StateBlocks
<1>14. EventBlocks'
  <2>1. ASSUME NEW u \in LifeStates, NEW e \in LifeEvents, u # s PROVE EventOK(u, e)'
    BY <1>1, <1>6, <1>7, <1>8, <1>9, <2>1 DEF LifeInv, EventBlocks, EventOK
  <2>2. ASSUME NEW e \in LifeEvents PROVE EventOK(s, e)'
    <3>1. ~OfEvent(s, e, "node")'
      BY <1>6 DEF EParts
    <3>2. \A p \in {"key", "event"} : OfEvent(s, e, p)' => OfEvent(s, e, p) /\ ~OfEvent(s, e, "node")
      BY <1>6 DEF EParts
    <3> QED BY <1>1, <3>1, <3>2 DEF LifeInv, EventBlocks, EventOK
  <2> QED BY <2>1, <2>2 DEF EventBlocks
<1>15. QueuedBlocks'
  BY <1>6, <1>8 DEF LifeInv, QueuedBlocks, QParts
<1>16. Calls'
  BY <1>1, <1>5, <1>8 DEF LifeInv, Calls
<1> QED BY <1>11, <1>12, <1>13, <1>14, <1>15, <1>16 DEF LifeInv

\* fsm_free (fsm.c:60-100): what it frees is allocated, and freed once.
LEMMA FsmFreed ==
  ASSUME LifeInv, Life!FsmFree
  PROVE  /\ fault' = fault /\ live' \subseteq live
         /\ \A p \in MParts : ~OfMachine(p)'
         /\ \A s \in LifeStates, p \in SParts \cup {"node"} :
              OfState(s, p)' <=> /\ OfState(s, p)
                                 /\ ~(s \in Life!Yielded /\ p \in FParts)
                                 /\ ~(s \in Life!InTable /\ p \in {"key", "node"})
         /\ \A s \in LifeStates, e \in LifeEvents, p \in EParts :
              OfEvent(s, e, p)' <=> OfEvent(s, e, p) /\ ~(s \in Life!Yielded /\ OfEvent(s, e, "node"))
         /\ \A q \in LifeQueued, p \in QParts : ~OfQueued(q, p)'
<1> DEFINE first  == UNION {Life!StateFreed(s) : s \in Life!Yielded}
           keys   == {<<s>> : s \in Life!InTable} \X {"key", "node"}
           queue  == UNION {Life!QueuedBlocks(q) : q \in {r \in LifeQueued : <<<<r>>, "pnode">> \in live}}
           rest   == {<<>>} \X MParts
           second == keys \cup queue \cup rest
<1>1. phase \in {"up", "quit"} /\ Life!FreeInTurn(first, second)
  <2>1. Life!ToSet(Life!FsmOrder) = MParts
    BY Orders
  <2>2. /\ phase \in {"up", "quit"}
        /\ Life!FreeInTurn(first, keys \cup queue \cup ({<<>>} \X Life!ToSet(Life!FsmOrder)))
    BY Zenon DEF Life!FsmFree
  <2> QED BY <2>1, <2>2, Zenon
<1>2. Life!InTable \subseteq LifeStates /\ Life!Yielded \subseteq Life!InTable
  BY TableStates DEF Life!Yielded
<1>3. There
  BY <1>1 DEF There
<1>4. \A s \in Life!InTable : (\A p \in SParts : OfState(s, p)) /\ OfState(s, "node")
  <2>1. \A s \in Life!InTable : hold[s] = "given"
    BY TableStates
  <2> QED BY <1>2, <1>3, <2>1 DEF LifeInv, StateBlocks, StateOK
<1>5. ASSUME NEW b \in first
      PROVE  /\ b \in live
             /\ \/ \E s \in Life!Yielded, p \in FParts : b = <<<<s>>, p>>
                \/ \E s \in Life!Yielded, e \in LifeEvents, p \in EParts :
                     OfEvent(s, e, "node") /\ b = <<<<s, e>>, p>>
  <2>1. PICK s \in Life!Yielded : b \in Life!StateFreed(s)
    OBVIOUS
  <2>2. s \in LifeStates /\ \A p \in SParts : OfState(s, p)
    BY <1>2, <1>4
  <2>3. /\ b \in live
        /\ \/ \E p \in FParts : b = <<<<s>>, p>>
           \/ \E e \in LifeEvents, p \in EParts : OfEvent(s, e, "node") /\ b = <<<<s, e>>, p>>
    BY <2>1, <2>2, FreedBlocks
  <2>4. CASE \E p \in FParts : b = <<<<s>>, p>>
    BY <2>3, <2>4
  <2>5. CASE \E e \in LifeEvents, p \in EParts : OfEvent(s, e, "node") /\ b = <<<<s, e>>, p>>
    BY <2>3, <2>5
  <2> QED BY <2>3, <2>4, <2>5
<1>6. /\ \A s \in Life!Yielded, p \in FParts : <<<<s>>, p>> \in first
      /\ \A s \in Life!Yielded, e \in LifeEvents, p \in EParts : OfEvent(s, e, "node") => <<<<s, e>>, p>> \in first
  <2>1. ASSUME NEW s \in Life!Yielded
        PROVE  /\ \A p \in FParts : <<<<s>>, p>> \in Life!StateFreed(s)
               /\ \A e \in LifeEvents, p \in EParts :
                    OfEvent(s, e, "node") => <<<<s, e>>, p>> \in Life!StateFreed(s)
    <3>1. s \in LifeStates /\ \A p \in SParts : OfState(s, p)
      BY <1>2, <1>4
    <3> QED BY <3>1, FreedBlocks
  <2> QED BY <2>1
<1>7. \A b : b \in keys <=> \E s \in Life!InTable, p \in {"key", "node"} : b = <<<<s>>, p>>
  OBVIOUS
<1>8. \A b : b \in queue <=> \E q \in LifeQueued, p \in QParts : OfQueued(q, "pnode") /\ b = <<<<q>>, p>>
  <2>1. \A q : Life!QueuedBlocks(q) = {<<q>>} \X QParts
    BY Orders DEF Life!QueuedBlocks
  <2>2. \A q, b : b \in Life!QueuedBlocks(q) <=> \E p \in QParts : b = <<<<q>>, p>>
    BY <2>1
  <2>3. ASSUME NEW b \in queue PROVE \E q \in LifeQueued, p \in QParts : OfQueued(q, "pnode") /\ b = <<<<q>>, p>>
    <3>1. PICK q \in LifeQueued : OfQueued(q, "pnode") /\ b \in Life!QueuedBlocks(q)
      BY DEF OfQueued
    <3> QED BY <2>2, <3>1
  <2>4. ASSUME NEW q \in LifeQueued, NEW p \in QParts, OfQueued(q, "pnode") PROVE <<<<q>>, p>> \in queue
    <3>1. <<<<q>>, p>> \in Life!QueuedBlocks(q)
      BY <2>2
    <3> QED BY <2>4, <3>1 DEF OfQueued
  <2> HIDE DEF queue
  <2> QED BY <2>3, <2>4
<1>9. \A b : b \in rest <=> \E p \in MParts : b = <<<<>>, p>>
  OBVIOUS
<1>10. \A b : b \in second <=> b \in keys \/ b \in queue \/ b \in rest
  OBVIOUS
<1> HIDE DEF first, keys, queue, rest, second
<1>11. ASSUME NEW b \in keys PROVE b \in live /\ b \notin first
  <2>1. PICK s \in Life!InTable, p \in {"key", "node"} : b = <<<<s>>, p>>
    BY <1>7
  <2>2. b \in live
    BY <1>4, <2>1 DEF OfState, SParts
  <2>3. p \notin FParts
    BY DEF FParts
  <2>4. b \notin first
    BY <1>5, <2>1, <2>3
  <2> QED BY <2>2, <2>4
<1>12. ASSUME NEW b \in queue PROVE b \in live /\ b \notin first
  <2>1. PICK q \in LifeQueued, p \in QParts : OfQueued(q, "pnode") /\ b = <<<<q>>, p>>
    BY <1>8
  <2>2. b \in live
    BY <2>1 DEF LifeInv, QueuedBlocks, OfQueued, QParts
  <2>3. p \notin FParts /\ p \notin EParts
    BY DEF FParts, EParts, QParts
  <2>4. b \notin first
    BY <1>5, <2>1, <2>3
  <2> QED BY <2>2, <2>4
<1>13. ASSUME NEW b \in rest PROVE b \in live /\ b \notin first
  <2>1. PICK p \in MParts : b = <<<<>>, p>>
    BY <1>9
  <2>2. b \in live
    BY <1>3, <2>1 DEF LifeInv, MachineBlocks, OfMachine
  <2>3. b \notin first
    BY <1>5, <2>1
  <2> QED BY <2>2, <2>3
<1>14. first \subseteq live /\ second \subseteq live \ first
  BY <1>5, <1>10, <1>11, <1>12, <1>13
<1>15. /\ fault' = fault /\ live' \subseteq live
       /\ \A b : b \in live' <=> b \in live /\ b \notin first /\ b \notin second
  BY <1>1, <1>14, FreesAllOnce
<1>16. \A p \in MParts : ~OfMachine(p)'
  BY <1>9, <1>10, <1>15 DEF OfMachine
<1>17. ASSUME NEW s \in LifeStates, NEW p \in SParts \cup {"node"}
       PROVE  OfState(s, p)' <=> /\ OfState(s, p)
                                 /\ ~(s \in Life!Yielded /\ p \in FParts)
                                 /\ ~(s \in Life!InTable /\ p \in {"key", "node"})
  <2>1. <<<<s>>, p>> \in first <=> s \in Life!Yielded /\ p \in FParts
    BY <1>5, <1>6
  <2>2. <<<<s>>, p>> \in keys <=> s \in Life!InTable /\ p \in {"key", "node"}
    BY <1>7
  <2>3. <<<<s>>, p>> \notin queue
    BY <1>8 DEF SParts, QParts
  <2>4. <<<<s>>, p>> \notin rest
    BY <1>9
  <2> QED BY <1>10, <1>15, <2>1, <2>2, <2>3, <2>4 DEF OfState
<1>18. ASSUME NEW s \in LifeStates, NEW e \in LifeEvents, NEW p \in EParts
       PROVE  OfEvent(s, e, p)' <=> OfEvent(s, e, p) /\ ~(s \in Life!Yielded /\ OfEvent(s, e, "node"))
  <2>1. <<<<s, e>>, p>> \in first <=> s \in Life!Yielded /\ OfEvent(s, e, "node")
    BY <1>5, <1>6
  <2>2. <<<<s, e>>, p>> \notin keys /\ <<<<s, e>>, p>> \notin queue /\ <<<<s, e>>, p>> \notin rest
    BY <1>7, <1>8, <1>9
  <2> QED BY <1>10, <1>15, <2>1, <2>2 DEF OfEvent
<1>19. ASSUME NEW q \in LifeQueued, NEW p \in QParts PROVE ~OfQueued(q, p)'
  <2>1. OfQueued(q, p) => OfQueued(q, "pnode")
    BY DEF LifeInv, QueuedBlocks, QParts
  <2>2. OfQueued(q, "pnode") => <<<<q>>, p>> \in queue
    BY <1>8
  <2> QED BY <1>10, <1>15, <2>1, <2>2 DEF OfQueued
<1> QED BY <1>15, <1>16, <1>17, <1>18, <1>19

LEMMA FsmFreeLife == ASSUME LifeInv, Life!FsmFree PROVE LifeInv'
<1>1. /\ running = Null /\ phase' = "gone" /\ phase \in {"up", "quit"}
      /\ UNCHANGED <<failed, hold, stkey, chain, newstate, current, running, serving>>
  BY DEF Life!FsmFree
<1>2. /\ fault' = fault /\ live' \subseteq live
      /\ \A p \in MParts : ~OfMachine(p)'
      /\ \A s \in LifeStates, p \in SParts \cup {"node"} :
           OfState(s, p)' <=> /\ OfState(s, p)
                              /\ ~(s \in Life!Yielded /\ p \in FParts)
                              /\ ~(s \in Life!InTable /\ p \in {"key", "node"})
      /\ \A s \in LifeStates, e \in LifeEvents, p \in EParts :
           OfEvent(s, e, p)' <=> OfEvent(s, e, p) /\ ~(s \in Life!Yielded /\ OfEvent(s, e, "node"))
      /\ \A q \in LifeQueued, p \in QParts : ~OfQueued(q, p)'
  BY FsmFreed
<1>3. Life!InTable' = Life!InTable /\ Life!Yielded' = Life!Yielded
  BY <1>1, SameTable
<1>4. Life!Yielded \subseteq Life!InTable /\ \A s \in Life!InTable : hold[s] = "given"
  BY TableStates DEF Life!Yielded
<1>5. There /\ ~There'
  BY <1>1 DEF There
<1>6. LifeTypes'
  BY <1>1, <1>2 DEF LifeInv, LifeTypes, Life!Buckets, AllBlocks
<1>7. MachineBlocks'
  BY <1>2, <1>5 DEF MachineBlocks
<1>8. StateBlocks'
  <2>1. ASSUME NEW s \in LifeStates, s \notin Life!InTable PROVE StateOK(s)'
    <3>1. \A p \in SParts \cup {"node"} : OfState(s, p)' <=> OfState(s, p)
      BY <1>2, <1>4, <2>1
    <3> QED BY <1>1, <1>3, <1>5, <2>1, <3>1 DEF LifeInv, StateBlocks, StateOK
  <2>2. ASSUME NEW s \in LifeStates, s \in Life!InTable PROVE StateOK(s)'
    <3>1. hold'[s] = "given" /\ s \in Life!InTable'
      BY <1>1, <1>3, <1>4, <2>2
    <3>2. ~OfState(s, "key")' /\ ~OfState(s, "node")'
      BY <1>2, <2>2 DEF SParts
    <3>3. s \in Life!Yielded' => \A p \in SParts : ~OfState(s, p)'
      BY <1>2, <1>3, <3>2 DEF SParts, FParts
    <3> QED BY <1>1, <1>5, <3>1, <3>2, <3>3 DEF StateOK
  <2> QED BY <2>1, <2>2 DEF StateBlocks
<1>9. EventBlocks'
  <2>1. ASSUME NEW s \in LifeStates, NEW e \in LifeEvents PROVE EventOK(s, e)'
    <3>1. \A p \in EParts : OfEvent(s, e, p)' <=>
                              OfEvent(s, e, p) /\ ~(s \in Life!Yielded /\ OfEvent(s, e, "node"))
      BY <1>2
    <3>2. EventOK(s, e)
      BY DEF LifeInv, EventBlocks
    <3> QED BY <1>1, <1>3, <1>5, <3>1, <3>2 DEF EventOK, EParts, Usable
  <2> QED BY <2>1 DEF EventBlocks
<1>10. QueuedBlocks'
  BY <1>2 DEF QueuedBlocks, QParts
<1>11. Calls'
  BY <1>1, <1>2 DEF LifeInv, Calls
<1> QED BY <1>6, <1>7, <1>8, <1>9, <1>10, <1>11 DEF LifeInv

LEMMA LifeNextInv == ASSUME LifeInv, [Life!Next]_(Life!vars) PROVE LifeInv'
<1>1. CASE Life!Next
  <2>1. CASE Life!FsmInit
    BY <2>1, FsmInitLife
  <2>2. CASE \E s \in LifeStates : Life!StateInit(s) \/ Life!SetState(s) \/ Life!StateFree(s)
    BY <2>2, StateInitLife, SetStateLife, StateFreeLife
  <2>3. CASE \E s, t \in LifeStates, e \in LifeEvents : Life!AddEvt(s, e, t)
    BY <2>3, AddEvtLife
  <2>4. CASE \E s \in LifeStates, e \in LifeEvents : Life!AddEvtAgain(s, e) \/ Life!RemEvt(s, e)
    BY <2>4, AddEvtAgainLife, RemEvtLife
  <2>5. CASE \E s \in LifeStates, k \in StKeys : Life!AddState(s, k)
    BY <2>5, AddStateLife
  <2>6. CASE \E q \in LifeQueued : Life!QueueEvent(q) \/ Life!Discard(q)
    BY <2>6, QueueEventLife, DiscardLife
  <2>7. CASE \E q \in LifeQueued \cup {Null}, e \in LifeEvents : Life!Process(q, e)
    BY <2>7, ProcessLife
  <2>8. CASE Life!Transition
    BY <2>8, TransitionLife
  <2>9. CASE Life!FsmFree
    BY <2>9, FsmFreeLife
  <2> QED BY <1>1, <2>1, <2>2, <2>3, <2>4, <2>5, <2>6, <2>7, <2>8, <2>9, Zenon DEF Life!Next
<1>2. CASE UNCHANGED Life!vars
  <2>1. UNCHANGED <<live, failed, fault, phase, hold, chain, newstate, current, running, serving>>
    BY <1>2 DEF Life!vars
  <2>2. Calls'
    BY <2>1 DEF LifeInv, Calls, Usable, OfEvent, OfQueued
  <2> QED BY <2>1, <2>2, KeepsLife DEF LifeInv, LifeTypes
<1> QED BY <1>1, <1>2

LEMMA LifeStays == Life!Spec => []LifeInv
BY LifeInitInv, LifeNextInv, PTL DEF Life!Spec

\* No function of the library reads or frees what is not allocated, whatever mallocs
\* fail and in whatever order a client that checks its results makes its calls; but
\* for the event whose own callback removes it (fsm.c:41-100, 150-256,
\* states.c:13-99, htable.c:85-100).
THEOREM OnlyLiveBlocks == Life!Spec => []NoUseAfterFree
<1>1. LifeInv => NoUseAfterFree
  <2> SUFFICES ASSUME LifeInv PROVE NoUseAfterFree
    OBVIOUS
  <2>1. fault # {} => phase = "undefined" /\ fault = {<<running, "event">>}
    BY DEF LifeInv, Calls
  <2>2. ASSUME phase = "up", current # Null
        PROVE  {<<current>>} \X {"state", "evttable", "key"} \subseteq live
    <3>1. current \in LifeStates /\ Usable(current) /\ There
      BY <2>2 DEF LifeInv, LifeTypes, Calls, There
    <3>2. \A p \in {"state", "evttable", "key"} : <<<<current>>, p>> \in live
      BY <3>1, UsableBlocks DEF OfState, SParts
    <3> QED BY <3>2
  <2> QED BY <2>1, <2>2 DEF NoUseAfterFree, Life!NoUseAfterFree
<1> QED BY <1>1, LifeStays, PTL

-----------------------------------------------------------------------------
(* What is left behind. *)

LEMMA OwnedBlocks ==
  ASSUME NEW s
  PROVE  /\ \A p \in SParts : <<<<s>>, p>> \in Life!Owned(s)
         /\ \A e \in LifeEvents, p \in EParts : OfEvent(s, e, "node") => <<<<s, e>>, p>> \in Life!Owned(s)
<1>1. \A e : Life!EvtBlocks(s, e) = {<<s, e>>} \X EParts
  BY Orders DEF Life!EvtBlocks
<1>2. Life!ToSet(Life!StateOrder) = SParts
  BY Orders
<1>3. ASSUME NEW e \in LifeEvents, NEW p \in EParts, OfEvent(s, e, "node") PROVE <<<<s, e>>, p>> \in Life!Owned(s)
  <2>1. e \in Life!Known(s) /\ <<<<s, e>>, p>> \in Life!EvtBlocks(s, e)
    BY <1>1, <1>3 DEF Life!Known, OfEvent
  <2> QED BY <2>1 DEF Life!Owned
<1>4. ASSUME NEW p \in SParts PROVE <<<<s>>, p>> \in Life!Owned(s)
  BY <1>2 DEF Life!Owned
<1> QED BY <1>3, <1>4

LEMMA Stranded ==
  /\ Life!LeftBy(<<<<>>, "mobj">>) = {<<<<>>, "pqtable">>}
  /\ Life!LeftBy(<<<<>>, "array">>) = {<<<<>>, "mobj">>}
  /\ \A s : Life!LeftBy(<<<<s>>, "key">>) = {<<<<s>>, "array">>}
  /\ \A s, e : Life!LeftBy(<<<<s, e>>, "node">>) = {<<s, e>>} \X {"key", "event"}
  /\ \A s : Life!LeftBy(<<<<s>>, "node">>) = Life!Owned(s)
BY DEF Life!LeftBy

\* What the property allows to be left behind.
Leaked ==
  (UNION {Life!LeftBy(block) : block \in failed})
  \cup {<<<<s>>, "key">> : s \in {t \in LifeStates : hold[t] = "freed"}}
  \cup (UNION {Life!Owned(s) : s \in Life!InTable \ Life!Yielded})

LEMMA Kept ==
  ASSUME NEW s \in LifeStates, NEW b \in Life!Owned(s), LifeInv, phase # "undefined", Usable(s),
         s \in Life!Yielded => There
  PROVE  b \in Life!Reachable \cup Leaked
<1>1. CASE hold[s] = "mine"
  BY <1>1 DEF Life!Reachable
<1>2. CASE hold[s] = "given" /\ s \notin Life!InTable
  <2>1. <<<<s>>, "node">> \in failed
    BY <1>2 DEF LifeInv, StateBlocks, StateOK
  <2>2. b \in Life!LeftBy(<<<<s>>, "node">>)
    BY Stranded
  <2> QED BY <2>1, <2>2 DEF Leaked
<1>3. CASE s \in Life!InTable /\ There
  BY <1>3 DEF Life!Reachable, There
<1>4. CASE s \in Life!InTable \ Life!Yielded
  BY <1>4 DEF Leaked
<1> QED BY <1>1, <1>2, <1>3, <1>4 DEF Usable, Life!Yielded

LEMMA MachineLeaks ==
  ASSUME LifeInv, phase # "undefined", NEW p \in MParts, OfMachine(p)
  PROVE  <<<<>>, p>> \in Life!Reachable \cup Leaked
<1>1. CASE There
  <2>1. <<<<>>, p>> \in {<<>>} \X Life!ToSet(Life!FsmOrder)
    BY Orders
  <2> QED BY <1>1, <2>1 DEF Life!Reachable, There
<1>2. CASE p = "pqtable" /\ <<<<>>, "mobj">> \in failed
  <2>1. <<<<>>, p>> \in Life!LeftBy(<<<<>>, "mobj">>)
    BY <1>2, Stranded
  <2> QED BY <1>2, <2>1 DEF Leaked
<1>3. CASE p = "mobj" /\ <<<<>>, "array">> \in failed
  <2>1. <<<<>>, p>> \in Life!LeftBy(<<<<>>, "array">>)
    BY <1>3, Stranded
  <2> QED BY <1>3, <2>1 DEF Leaked
<1> QED BY <1>1, <1>2, <1>3 DEF LifeInv, MachineBlocks

LEMMA StateLeaks ==
  ASSUME LifeInv, phase # "undefined", NEW s \in LifeStates, NEW p \in SParts \cup {"node"}, OfState(s, p)
  PROVE  <<<<s>>, p>> \in Life!Reachable \cup Leaked
<1>1. StateOK(s) /\ hold[s] \in {"none", "mine", "given", "freed"}
  BY DEF LifeInv, LifeTypes, StateBlocks
<1>2. CASE hold[s] = "none"
  <2>1. p = "array" /\ <<<<s>>, "key">> \in failed
    BY <1>1, <1>2 DEF StateOK
  <2>2. <<<<s>>, p>> \in Life!LeftBy(<<<<s>>, "key">>)
    BY <2>1, Stranded
  <2> QED BY <2>1, <2>2 DEF Leaked
<1>3. CASE hold[s] = "freed"
  <2>1. p = "key"
    BY <1>1, <1>3 DEF StateOK
  <2> QED BY <1>3, <2>1 DEF Leaked
<1>4. CASE Usable(s) /\ p = "node"
  <2>1. s \in Life!InTable /\ There
    BY <1>1, <1>4 DEF StateOK, Usable, There
  <2> QED BY <1>4, <2>1 DEF Life!Reachable, There
<1>5. CASE Usable(s) /\ p \in SParts
  <2>1. s \in Life!Yielded => There
    BY <1>1, <1>5 DEF StateOK, There, Life!Yielded
  <2>2. <<<<s>>, p>> \in Life!Owned(s)
    BY <1>5, OwnedBlocks
  <2> QED BY <1>5, <2>1, <2>2, Kept
<1> QED BY <1>1, <1>2, <1>3, <1>4, <1>5 DEF Usable

LEMMA EventLeaks ==
  ASSUME LifeInv, phase # "undefined", NEW s \in LifeStates, NEW e \in LifeEvents, NEW p \in EParts,
         OfEvent(s, e, p)
  PROVE  <<<<s, e>>, p>> \in Life!Reachable \cup Leaked
<1>1. EventOK(s, e)
  BY DEF LifeInv, EventBlocks
<1>2. CASE OfEvent(s, e, "node")
  <2>1. Usable(s) /\ (s \in Life!Yielded => There)
    BY <1>1, <1>2 DEF EventOK
  <2>2. <<<<s, e>>, p>> \in Life!Owned(s)
    BY <1>2, OwnedBlocks
  <2> QED BY <2>1, <2>2, Kept
<1>3. CASE ~OfEvent(s, e, "node")
  <2>1. p \in {"key", "event"} /\ <<<<s, e>>, "node">> \in failed
    BY <1>1, <1>3 DEF EventOK, EParts
  <2>2. <<<<s, e>>, p>> \in Life!LeftBy(<<<<s, e>>, "node">>)
    BY <2>1, Stranded
  <2> QED BY <2>1, <2>2 DEF Leaked
<1> QED BY <1>2, <1>3

\* Every block is freed or can still be, on all paths, but for what the five failing
\* mallocs of LeftBy strand, the key of a state the client frees itself and the states that fsm_free's
\* iterator passes over (fsm.c:41-46, 60-66, 92-100, states.c:31-36, 69-73, 91-98).
THEOREM NothingElseLeaks == Life!Spec => []OnlyKnownLeaks
<1>1. LifeInv => OnlyKnownLeaks
  <2> SUFFICES ASSUME LifeInv, phase # "undefined", NEW b \in live
               PROVE  b \in Life!Reachable \cup Leaked
    BY DEF OnlyKnownLeaks, Life!OnlyKnownLeaks, Leaked
  <2>1. b \in AllBlocks
    BY DEF LifeInv, LifeTypes
  <2>2. CASE \E p \in MParts : b = <<<<>>, p>>
    BY <2>2, MachineLeaks DEF OfMachine
  <2>3. CASE \E s \in LifeStates, p \in SParts \cup {"node"} : b = <<<<s>>, p>>
    BY <2>3, StateLeaks DEF OfState
  <2>4. CASE \E s \in LifeStates, e \in LifeEvents, p \in EParts : b = <<<<s, e>>, p>>
    BY <2>4, EventLeaks DEF OfEvent
  <2>5. CASE \E q \in LifeQueued, p \in QParts : b = <<<<q>>, p>>
    <3>1. PICK q \in LifeQueued, p \in QParts : b = <<<<q>>, p>>
      BY <2>5
    <3>2. OfQueued(q, p)
      BY <3>1 DEF OfQueued
    <3>3. There
      BY <3>2 DEF LifeInv, QueuedBlocks, QParts
    <3>4. b \in {<<r>> : r \in LifeQueued} \X Life!ToSet(Life!QueuedOrder)
      BY <3>1, Orders
    <3> QED BY <3>3, <3>4 DEF Life!Reachable, There
  <2> QED BY <2>1, <2>2, <2>3, <2>4, <2>5 DEF AllBlocks
<1> QED BY <1>1, LifeStays, PTL

-----------------------------------------------------------------------------
(* The comment remover. *)

\* What OutsideFrom says of a position, given what it says of the later ones.
Scan(g) ==
  [p \in 1..(Len(text) + 2) |-> [place \in Remover!Places |->
     IF p > Len(text) THEN <<>>
     ELSE IF Remover!Turns(p, place) THEN g[p + 2][Remover!Other(place)]
     ELSE (IF place = "comment" THEN <<>> ELSE <<p>>) \o g[p + 1][place]]]

\* Scanning once more for every position of the text reaches a fixed point.
LEMMA ScanThere ==
  ASSUME Len(text) \in Nat
  PROVE  \E g : g = Scan(g)
<1> DEFINE L == Len(text)
           D == [1..(L + 2) -> [Remover!Places -> Seq(Nat)]]
           z == [p \in 1..(L + 2) |-> [place \in Remover!Places |-> <<>>]]
           step == [n \in 1..L |-> [g \in D |-> Scan(g)]]
<1>1. ASSUME NEW g \in D PROVE Scan(g) \in D
  <2>1. ASSUME NEW p \in 1..(L + 2), NEW b \in Remover!Places
        PROVE  Scan(g)[p][b] \in Seq(Nat)
    <3>1. CASE p > L
      BY <3>1 DEF Scan
    <3>2. CASE ~(p > L)
      <4>1. p + 1 \in 1..(L + 2) /\ p + 2 \in 1..(L + 2) /\ p \in Nat
        BY <3>2
      <4>5. Remover!Other(b) \in Remover!Places
        BY DEF Remover!Other, Remover!Places
      <4>2. g[p + 2][Remover!Other(b)] \in Seq(Nat) /\ g[p + 1][b] \in Seq(Nat)
        BY <4>1, <4>5
      <4>3. <<p>> \o g[p + 1][b] \in Seq(Nat) /\ <<>> \o g[p + 1][b] \in Seq(Nat)
        BY <4>1, <4>2
      <4>4. Scan(g)[p][b] \in {g[p + 2][Remover!Other(b)], <<p>> \o g[p + 1][b], <<>> \o g[p + 1][b]}
        BY <3>2 DEF Scan
      <4> QED BY <4>2, <4>3, <4>4
    <3> QED BY <3>1, <3>2
  <2> QED BY <2>1 DEF Scan
<1>2. z \in D /\ step \in [1..L -> [D -> D]]
  BY <1>1
<1>3. PICK f \in [0..L -> D] : f[0] = z /\ \A n \in 1..L : f[n] = Scan(f[n - 1])
  <2>1. Recursive(L, D, z, step) # {}
    <3> HIDE DEF D, z, step
    <3> QED BY <1>2, Recursion
  <2>2. PICK f \in [0..L -> D] : f[0] = z /\ \A n \in 1..L : f[n] = step[n][f[n - 1]]
    BY <2>1 DEF Recursive
  <2>3. \A n \in 1..L : n - 1 \in 0..L
    OBVIOUS
  <2>4. \A n \in 1..L : f[n] = Scan(f[n - 1])
    BY <2>2, <2>3
  <2> QED BY <2>2, <2>4
<1> DEFINE S == {n \in 0..L : \A p \in 1..(L + 2), b \in Remover!Places : p + n > L => f[n][p][b] = Scan(f[n])[p][b]}
<1>4. 0 \in S
  <2>1. ASSUME NEW p \in 1..(L + 2), NEW b \in Remover!Places, p + 0 > L
        PROVE  f[0][p][b] = Scan(f[0])[p][b]
    <3>1. f[0][p][b] = <<>>
      BY <1>3
    <3>2. p > L
      BY <2>1
    <3>3. Scan(f[0])[p][b] = <<>>
      BY <3>2 DEF Scan
    <3> QED BY <3>1, <3>3
  <2> QED BY <2>1
<1>5. ASSUME NEW n \in 0..(L - 1), n \in S PROVE n + 1 \in S
  <2>1. f[n + 1] = Scan(f[n]) /\ n + 1 \in 0..L
    <3>1. n + 1 \in 1..L /\ (n + 1) - 1 = n
      OBVIOUS
    <3> QED BY <1>3, <3>1
  <2>2. ASSUME NEW p \in 1..(L + 2), NEW b \in Remover!Places, p + (n + 1) > L
        PROVE  f[n + 1][p][b] = Scan(f[n + 1])[p][b]
    <3>1. CASE p > L
      BY <2>1, <3>1 DEF Scan
    <3>2. CASE ~(p > L)
      <4>1. /\ p + 1 \in 1..(L + 2) /\ p + 2 \in 1..(L + 2)
            /\ (p + 1) + n > L /\ (p + 2) + n > L
        BY <2>2, <3>2
      <4>5. Remover!Other(b) \in Remover!Places
        BY DEF Remover!Other, Remover!Places
      <4>2. f[n + 1][p + 2][Remover!Other(b)] = f[n][p + 2][Remover!Other(b)] /\ f[n + 1][p + 1][b] = f[n][p + 1][b]
        BY <1>5, <2>1, <4>1, <4>5
      <4>3. Scan(f[n + 1])[p][b] = Scan(f[n])[p][b]
        BY <3>2, <4>2 DEF Scan
      <4> QED BY <2>1, <4>3
    <3> QED BY <3>1, <3>2
  <2> QED BY <2>1, <2>2
<1>6. L \in S
  <2>1. \A n \in 0..L : n \in S
    <3> HIDE DEF S
    <3> QED BY <1>4, <1>5, Induction
  <2> QED BY <2>1
<1>7. f[L] = Scan(f[L])
  <2>1. f[L] \in D /\ Scan(f[L]) \in D
    BY <1>1
  <2>2. ASSUME NEW p \in 1..(L + 2), NEW b \in Remover!Places PROVE f[L][p][b] = Scan(f[L])[p][b]
    <3>1. p + L > L
      OBVIOUS
    <3> QED BY <1>6, <3>1
  <2>3. \A p \in 1..(L + 2) : f[L][p] = Scan(f[L])[p]
    BY <2>1, <2>2
  <2> QED BY <2>1, <2>3
<1> QED BY <1>7

\* OutsideFrom is what its recursive definition says.
LEMMA OutsideIs ==
  ASSUME Len(text) \in Nat
  PROVE  Remover!OutsideFrom = Scan(Remover!OutsideFrom)
<1>1. Remover!OutsideFrom = CHOOSE g : g = Scan(g)
  BY DEF Remover!OutsideFrom, Scan
<1> QED BY <1>1, ScanThere

\* The three cases of it, and what it contains.
LEMMA OutsideSteps ==
  ASSUME Len(text) \in Nat
  PROVE  \A p \in 1..(Len(text) + 2), b \in Remover!Places :
           /\ p > Len(text) => Remover!OutsideFrom[p][b] = <<>>
           /\ p <= Len(text) /\ Remover!Turns(p, b) =>
                Remover!OutsideFrom[p][b] = Remover!OutsideFrom[p + 2][Remover!Other(b)]
           /\ p <= Len(text) /\ ~Remover!Turns(p, b) =>
                Remover!OutsideFrom[p][b] = (IF b = "comment" THEN <<>> ELSE <<p>>) \o Remover!OutsideFrom[p + 1][b]
<1> DEFINE F == Remover!OutsideFrom
<1>1. F = Scan(F)
  BY OutsideIs
<1> HIDE DEF F
<1>2. ASSUME NEW p \in 1..(Len(text) + 2), NEW b \in Remover!Places
      PROVE  F[p][b] = IF p > Len(text) THEN <<>>
                       ELSE IF Remover!Turns(p, b) THEN F[p + 2][Remover!Other(b)]
                       ELSE (IF b = "comment" THEN <<>> ELSE <<p>>) \o F[p + 1][b]
  <2>1. Scan(F)[p][b] = IF p > Len(text) THEN <<>>
                        ELSE IF Remover!Turns(p, b) THEN F[p + 2][Remover!Other(b)]
                        ELSE (IF b = "comment" THEN <<>> ELSE <<p>>) \o F[p + 1][b]
    BY DEF Scan
  <2> QED BY <1>1, <2>1
<1>3. \A p \in 1..(Len(text) + 2) : p <= Len(text) <=> ~(p > Len(text))
  OBVIOUS
<1> QED BY <1>2, <1>3 DEF F

\* Numbers from p on.
From(s, p) == s \in Seq(Nat) /\ \A i \in 1..Len(s) : s[i] >= p

\* What is outside comments from p on is at p or later.
LEMMA OutsideLater ==
  ASSUME Len(text) \in Nat
  PROVE  \A p \in 1..(Len(text) + 2), b \in Remover!Places : From(Remover!OutsideFrom[p][b], p)
<1> DEFINE L == Len(text)
           F == Remover!OutsideFrom
           S == {n \in 0..L : \A p \in 1..(L + 2), b \in Remover!Places : p + n > L => From(F[p][b], p)}
<1>1. \A p \in 1..(L + 2), b \in Remover!Places :
        /\ p > L => F[p][b] = <<>>
        /\ p <= L /\ Remover!Turns(p, b) => F[p][b] = F[p + 2][Remover!Other(b)]
        /\ p <= L /\ ~Remover!Turns(p, b) => F[p][b] = (IF b = "comment" THEN <<>> ELSE <<p>>) \o F[p + 1][b]
  BY OutsideSteps
<1> HIDE DEF F
<1>2. ASSUME NEW p \in 1..(L + 2), NEW b \in Remover!Places, p > L PROVE From(F[p][b], p)
  <2>1. F[p][b] = <<>>
    BY <1>1, <1>2
  <2> QED BY <2>1 DEF From
<1>3. 0 \in S
  BY <1>2
<1>4. ASSUME NEW n \in 0..(L - 1), n \in S PROVE n + 1 \in S
  <2>1. ASSUME NEW p \in 1..(L + 2), NEW b \in Remover!Places, p + (n + 1) > L PROVE From(F[p][b], p)
    <3>1. CASE p > L
      BY <1>2, <3>1
    <3>2. CASE p <= L
      <4>1. /\ p + 1 \in 1..(L + 2) /\ p + 2 \in 1..(L + 2) /\ p \in Nat
            /\ (p + 1) + n > L /\ (p + 2) + n > L
        BY <2>1, <3>2
      <4>9. Remover!Other(b) \in Remover!Places
        BY DEF Remover!Other, Remover!Places
      <4>2. From(F[p + 2][Remover!Other(b)], p + 2) /\ From(F[p + 1][b], p + 1)
        BY <1>4, <4>1, <4>9
      <4>3. From(F[p + 2][Remover!Other(b)], p) /\ From(F[p + 1][b], p)
        <5>1. ASSUME NEW s, NEW q \in {p + 1, p + 2}, From(s, q) PROVE From(s, p)
          <6>1. s \in Seq(Nat) /\ \A i \in 1..Len(s) : s[i] >= q /\ s[i] \in Nat
            BY <5>1 DEF From
          <6>2. \A i \in 1..Len(s) : s[i] >= p
            BY <4>1, <6>1
          <6> QED BY <6>1, <6>2 DEF From
        <5> QED BY <4>2, <5>1
      <4> DEFINE t == F[p + 1][b]
      <4>4. From(t, p)
        BY <4>3
      <4> HIDE DEF t
      <4>5. From(<<>> \o t, p)
        BY <4>4 DEF From
      <4>6. From(<<p>> \o t, p)
        <5> DEFINE u == <<p>> \o t
        <5>1. u \in Seq(Nat) /\ Len(u) = Len(t) + 1 /\ u[1] = p
              /\ \A i \in 1..Len(t) : u[i + 1] = t[i]
          BY <4>1, <4>4 DEF From
        <5>2. ASSUME NEW i \in 1..Len(u) PROVE u[i] >= p
          <6> HIDE DEF u
          <6>1. CASE i = 1
            BY <4>1, <5>1, <6>1
          <6>2. CASE i # 1
            <7>1. Len(t) \in Nat
              BY <4>4 DEF From
            <7>2. i - 1 \in 1..Len(t) /\ (i - 1) + 1 = i
              BY <5>1, <6>2, <7>1
            <7>3. t[i - 1] >= p
              BY <4>4, <7>2 DEF From
            <7> QED BY <5>1, <7>2, <7>3
          <6> QED BY <6>1, <6>2
        <5> QED BY <5>1, <5>2 DEF From
      <4>7. CASE Remover!Turns(p, b)
        BY <1>1, <3>2, <4>3, <4>7
      <4>8. CASE ~Remover!Turns(p, b)
        <5>1. F[p][b] = (IF b = "comment" THEN <<>> ELSE <<p>>) \o t
          BY <1>1, <3>2, <4>8 DEF t
        <5> QED BY <5>1, <4>5, <4>6
      <4> QED BY <4>7, <4>8
    <3> QED BY <3>1, <3>2
  <2>2. n + 1 \in 0..L
    OBVIOUS
  <2> QED BY <2>1, <2>2
<1>5. \A n \in 0..L : n \in S
  <2> HIDE DEF S
  <2> QED BY <1>3, <1>4, Induction
<1>6. L \in S /\ \A p \in 1..(L + 2) : p + L > L
  BY <1>5
<1> QED BY <1>6 DEF F

\* fgets returns a piece.
LEMMA PieceIs ==
  ASSUME text \in Seq(Remover!Chars), NEW from \in 0..Len(text)
  PROVE  /\ Remover!Piece(from) \in 0..(BufSize - 1) /\ from + Remover!Piece(from) <= Len(text)
         /\ \A m \in 1..(Remover!Piece(from) - 1) : text[from + m] # "newline"
         /\ \/ Remover!Piece(from) = BufSize - 1
            \/ from + Remover!Piece(from) = Len(text)
            \/ Remover!Piece(from) > 0 /\ text[from + Remover!Piece(from)] = "newline"
<1> DEFINE Ends(n) == \/ n = BufSize - 1 \/ from + n = Len(text)
                      \/ n > 0 /\ text[from + n] = "newline"
           P(n) == /\ from + n <= Len(text)
                   /\ \A m \in 1..(n - 1) : text[from + m] # "newline"
                   /\ Ends(n)
           S == {n \in 0..(BufSize - 1) : from + n <= Len(text) /\ Ends(n)}
<1>1. BufSize \in Nat \ {0, 1} /\ Len(text) \in Nat
  BY LifeRemoverAssumption DEF Remover!RemoverAssumption
<1>2. S # {}
  <2>1. CASE from + (BufSize - 1) <= Len(text)
    <3>1. BufSize - 1 \in S
      BY <1>1, <2>1
    <3> QED BY <3>1
  <2>2. CASE ~(from + (BufSize - 1) <= Len(text))
    <3>1. Len(text) - from \in 0..(BufSize - 1) /\ from + (Len(text) - from) = Len(text)
      BY <1>1, <2>2
    <3>2. Len(text) - from \in S
      BY <1>1, <3>1
    <3> QED BY <3>2
  <2> QED BY <2>1, <2>2
<1>3. PICK n \in S : \A i \in S : n <= i
  <2>1. S \subseteq Nat
    BY <1>1
  <2> HIDE DEF S
  <2> QED BY <1>2, <2>1, Least
<1>4. n \in 0..(BufSize - 1) /\ P(n)
  <2>1. ASSUME NEW m \in 1..(n - 1), text[from + m] = "newline" PROVE FALSE
    <3>1. n \in 0..(BufSize - 1) /\ from + n <= Len(text)
      BY <1>3
    <3>2. m \in 0..(BufSize - 1) /\ m > 0 /\ m < n
      BY <1>1, <3>1
    <3>3. from + m <= Len(text)
      BY <1>1, <3>1, <3>2
    <3>4. m \in S
      BY <2>1, <3>2, <3>3
    <3>5. n <= m
      BY <1>3, <3>4
    <3> QED BY <3>1, <3>2, <3>5
  <2> QED BY <1>3, <2>1
<1>5. Remover!Piece(from) = CHOOSE k \in 0..(BufSize - 1) : P(k)
  BY DEF Remover!Piece
<1> HIDE DEF P
<1>6. Remover!Piece(from) \in 0..(BufSize - 1) /\ P(Remover!Piece(from))
  BY <1>4, <1>5
<1> QED BY <1>6 DEF P

\* The end of a piece does not cut a mark.
CutsNoMark == offset \in {0, Len(text)} \/ text[offset] = "newline" \/ text[offset + 1] = "newline"

\* What is printed, and what is still to be scanned.
Scanned ==
  /\ out \o Remover!OutsideFrom[offset - left + 1][state] = Remover!Outside
  /\ \A i \in 1..Len(out) : out[i] <= offset - left

RemoverInv ==
  /\ text \in Seq(Remover!Chars) /\ pfirst \in BOOLEAN
  /\ offset \in 0..Len(text) /\ left \in 0..offset
  /\ state \in Remover!Places /\ out \in Seq(Nat)
  /\ Remover!LinesFit => CutsNoMark /\ (pfirst => Scanned)

\* Nothing is printed, everything is to be scanned.
LEMMA RemoverInit == Remover!Init => RemoverInv
<1> SUFFICES ASSUME Remover!Init PROVE RemoverInv
  OBVIOUS
<1>1. text \in Seq(Remover!Chars)
  <2>1. \A m \in Nat : [1..m -> Remover!Chars] \subseteq Seq(Remover!Chars)
    OBVIOUS
  <2>2. text \in UNION {[1..m -> Remover!Chars] : m \in 0..MaxText} /\ MaxText \in Nat
    BY LifeRemoverAssumption DEF Remover!Init, Remover!RemoverAssumption, Remover!BoundedSeq, Remover!SeqOf
  <2>3. PICK m \in 0..MaxText : text \in [1..m -> Remover!Chars]
    BY <2>2
  <2> QED BY <2>1, <2>2, <2>3
<1>2. Len(text) \in Nat
  BY <1>1
<1>3. offset = 0 /\ left = 0 /\ state = "no_comment" /\ state \in Remover!Places /\ out = <<>> /\ pfirst \in BOOLEAN
  BY DEF Remover!Init, Remover!Places
<1> DEFINE r == Remover!OutsideFrom[1]["no_comment"]
<1>4. r \in Seq(Nat)
  <2>1. 1 \in 1..(Len(text) + 2) /\ "no_comment" \in Remover!Places
    BY <1>2 DEF Remover!Places
  <2> QED BY <1>2, <2>1, OutsideLater DEF From
<1>5. Scanned
  <2>1. offset - left + 1 = 1
    BY <1>3
  <2>2. Remover!Outside = r /\ (Scanned <=> out \o Remover!OutsideFrom[offset - left + 1][state] = Remover!Outside
                                        /\ \A i \in 1..Len(out) : out[i] <= offset - left)
    BY DEF Scanned, Remover!Outside
  <2>3. Remover!OutsideFrom[offset - left + 1][state] = r
    BY <1>3, <2>1
  <2> HIDE DEF r
  <2>4. <<>> \o r = r
    BY <1>4
  <2>5. out \o r = r /\ Len(out) = 0
    BY <1>3, <2>4
  <2> QED BY <2>2, <2>3, <2>5
<1>6. offset \in 0..Len(text) /\ left \in 0..offset /\ CutsNoMark
  BY <1>2, <1>3 DEF CutsNoMark
<1>7. out \in Seq(Nat)
  BY <1>3
<1> QED BY <1>1, <1>3, <1>5, <1>6, <1>7 DEF RemoverInv

\* fgets: the piece ends with the file, after a newline or, the line being no longer
\* than buf, before one (test_rmcom.c:121).
LEMMA FgetsKeeps ==
  ASSUME RemoverInv, Remover!Fgets
  PROVE  RemoverInv'
<1>1. /\ text \in Seq(Remover!Chars) /\ Len(text) \in Nat /\ offset \in 0..Len(text) /\ left = 0
      /\ left' = Remover!Piece(offset) /\ offset' = offset + left'
      /\ text' = text /\ pfirst' = pfirst /\ state' = state /\ out' = out
  <2>1. text \in Seq(Remover!Chars)
    BY DEF RemoverInv
  <2>2. Len(text) \in Nat
    BY <2>1
  <2> QED BY <2>2 DEF RemoverInv, Remover!Fgets
<1> DEFINE n == Remover!Piece(offset)
<1>2. /\ n \in 0..(BufSize - 1) /\ offset + n <= Len(text)
      /\ \A m \in 1..(n - 1) : text[offset + m] # "newline"
      /\ n = BufSize - 1 \/ offset + n = Len(text) \/ (n > 0 /\ text[offset + n] = "newline")
  BY <1>1, PieceIs
<1> HIDE DEF n
<1>3. BufSize \in Nat \ {0, 1}
  BY LifeRemoverAssumption DEF Remover!RemoverAssumption
<1>4. left' = n /\ offset' = offset + n /\ offset' \in 0..Len(text) /\ left' \in 0..offset'
  BY <1>1, <1>2, <1>3 DEF n
<1>5. ASSUME Remover!LinesFit PROVE CutsNoMark'
  <2>1. CASE offset + n = Len(text)
    BY <1>1, <1>4, <2>1 DEF CutsNoMark
  <2>2. CASE text[offset + n] = "newline"
    BY <1>1, <1>4, <2>2 DEF CutsNoMark
  <2>3. CASE n = BufSize - 1 /\ offset + n # Len(text)
    <3>1. offset + 1 \in 1..Len(text) /\ (offset + 1) + BufSize - 1 <= Len(text)
      BY <1>1, <1>2, <1>3, <2>3
    <3>2. PICK q \in (offset + 1)..((offset + 1) + BufSize - 1) : text[q] = "newline"
      BY <1>5, <3>1 DEF Remover!LinesFit
    <3>3. q - offset \in 1..(n + 1) /\ offset + (q - offset) = q
      BY <1>1, <1>3, <2>3
    <3>4. ~(q - offset \in 1..(n - 1))
      BY <1>2, <3>2, <3>3
    <3>5. q = offset + n \/ q = offset + n + 1
      BY <1>1, <1>2, <1>3, <3>3, <3>4
    <3> QED BY <1>1, <1>4, <3>2, <3>5 DEF CutsNoMark
  <2> QED BY <1>2, <2>1, <2>2, <2>3
<1>6. Scanned => Scanned'
  <2>1. offset' - left' = offset - left /\ offset' - left' + 1 = offset - left + 1
    BY <1>1, <1>2, <1>3, <1>4
  <2>2. Remover!OutsideFrom' = Remover!OutsideFrom /\ Remover!Outside' = Remover!Outside
    BY <1>1 DEF Remover!OutsideFrom, Remover!Outside, Remover!Turns
  <2> QED BY <1>1, <2>1, <2>2 DEF Scanned
<1>7. Remover!LinesFit' = Remover!LinesFit
  BY <1>1 DEF Remover!LinesFit
<1> QED BY <1>1, <1>4, <1>5, <1>6, <1>7 DEF RemoverInv

\* One character, or a mark (test_rmcom.c:122-129).
LEMMA ProcessKeeps ==
  ASSUME RemoverInv, Remover!Process
  PROVE  RemoverInv'
<1> DEFINE p == offset - left + 1
           b == state
           F == Remover!OutsideFrom
<1>1. /\ text \in Seq(Remover!Chars) /\ Len(text) \in Nat /\ offset \in 0..Len(text) /\ left \in 1..offset
      /\ state \in Remover!Places /\ out \in Seq(Nat) /\ pfirst \in BOOLEAN
      /\ text' = text /\ pfirst' = pfirst /\ offset' = offset
  <2>1. text \in Seq(Remover!Chars)
    BY DEF RemoverInv
  <2>2. Len(text) \in Nat
    BY <2>1
  <2>3. left > 0 /\ left \in 0..offset /\ offset \in 0..Len(text)
    BY DEF RemoverInv, Remover!Process
  <2>4. left \in 1..offset
    BY <2>2, <2>3
  <2> QED BY <2>2, <2>3, <2>4 DEF RemoverInv, Remover!Process
<1>2. p \in 1..Len(text) /\ p + left = offset + 1 /\ p <= Len(text) /\ p \in 1..(Len(text) + 2)
  BY <1>1
<1>3. /\ F' = F /\ Remover!Outside' = Remover!Outside
      /\ Remover!LinesFit' = Remover!LinesFit /\ CutsNoMark' = CutsNoMark
  BY <1>1 DEF Remover!OutsideFrom, Remover!Outside, Remover!Turns, Remover!LinesFit, CutsNoMark
<1>4. CASE Remover!MarkHere(p)
  <2>1. left > 1 /\ <<text[p], text[p + 1]>> = IF b = "comment" THEN <<"*", "/">> ELSE <<"/", "*">>
    BY <1>4 DEF Remover!MarkHere, Remover!Mark
  <2>2. p < Len(text) /\ Remover!Turns(p, b)
    BY <1>1, <1>2, <2>1 DEF Remover!Turns
  <2>3. /\ left' = left - 2 /\ state' = (IF state = "comment" THEN "no_comment" ELSE "comment")
        /\ out' = out
    BY <1>4 DEF Remover!Process
  <2>4. b' = Remover!Other(b) /\ b \in Remover!Places /\ state' \in Remover!Places
    BY <1>1, <2>3 DEF Remover!Other, Remover!Places
  <2>5. offset' - left' + 1 = p + 2 /\ offset' - left' = (offset - left) + 2 /\ left' \in 0..offset'
    BY <1>1, <2>1, <2>3
  <2>6. F[p][b] = F[p + 2][Remover!Other(b)]
    BY <1>1, <1>2, <2>2, <2>4, OutsideSteps
  <2>7. Scanned => Scanned'
    <3> SUFFICES ASSUME Scanned PROVE Scanned'
      OBVIOUS
    <3>1. out \o F[p][b] = Remover!Outside /\ \A i \in 1..Len(out) : out[i] <= offset - left
      BY DEF Scanned
    <3>2. out' \o F'[p + 2][b'] = Remover!Outside'
      BY <1>3, <2>3, <2>4, <2>6, <3>1
    <3>3. \A i \in 1..Len(out) : out[i] \in Nat
      BY <1>1
    <3>4. \A i \in 1..Len(out) : out[i] <= (offset - left) + 2
      BY <1>1, <3>1, <3>3
    <3> QED BY <2>3, <2>5, <3>2, <3>4 DEF Scanned
  <2> QED BY <1>1, <1>3, <2>3, <2>4, <2>5, <2>7 DEF RemoverInv
<1>5. CASE ~Remover!MarkHere(p)
  <2>1. /\ left' = left - 1 /\ state' = state
        /\ out' = IF state = "comment" THEN out ELSE Append(out, IF pfirst THEN p ELSE p + 1)
    BY <1>5 DEF Remover!Process
  <2>2. b' = b /\ b \in Remover!Places /\ out' \in Seq(Nat)
    BY <1>1, <1>2, <2>1
  <2>3. offset' - left' + 1 = p + 1 /\ offset' - left' = (offset - left) + 1 /\ left' \in 0..offset'
    BY <1>1, <2>1
  <2>4. CutsNoMark => ~Remover!Turns(p, b)
    <3> SUFFICES ASSUME CutsNoMark, Remover!Turns(p, b) PROVE FALSE
      OBVIOUS
    <3>1. p < Len(text) /\ <<text[p], text[p + 1]>> = IF b = "comment" THEN <<"*", "/">> ELSE <<"/", "*">>
      BY DEF Remover!Turns
    <3>2. ~(left > 1)
      BY <1>5, <3>1 DEF Remover!MarkHere, Remover!Mark
    <3>3. p = offset /\ offset # 0 /\ offset # Len(text)
      BY <1>1, <1>2, <3>1, <3>2
    <3>4. text[p] = "newline" \/ text[p + 1] = "newline"
      BY <3>3 DEF CutsNoMark
    <3>5. text[p] \in {"*", "/"} /\ text[p + 1] \in {"*", "/"}
      BY <3>1
    <3> QED BY <3>4, <3>5
  <2>5. CutsNoMark /\ pfirst /\ Scanned => Scanned'
    <3> SUFFICES ASSUME CutsNoMark, pfirst, Scanned PROVE Scanned'
      OBVIOUS
    <3>1. out \o F[p][b] = Remover!Outside /\ \A i \in 1..Len(out) : out[i] <= offset - left
      BY DEF Scanned
    <3>2. F[p][b] = (IF b = "comment" THEN <<>> ELSE <<p>>) \o F[p + 1][b]
      BY <1>1, <1>2, <2>2, <2>4, OutsideSteps
    <3>3. F[p + 1][b] \in Seq(Nat)
      <4>1. p + 1 \in 1..(Len(text) + 2)
        BY <1>1, <1>2
      <4> QED BY <1>1, <2>2, <4>1, OutsideLater DEF From
    <3>4. \A i \in 1..Len(out) : out[i] \in Nat
      BY <1>1
    <3>5. p = (offset - left) + 1 /\ p \in Nat /\ offset - left \in Nat
      BY <1>1
    <3> DEFINE t == F[p + 1][b]  r == F[p][b]
    <3>6. out' \o t = Remover!Outside
      <4>1. t \in Seq(Nat) /\ out \o r = Remover!Outside /\ r = (IF b = "comment" THEN <<>> ELSE <<p>>) \o t
        BY <3>1, <3>2, <3>3
      <4> HIDE DEF t, r
      <4>2. CASE b = "comment"
        <5>1. r = t /\ out' = out
          BY <2>1, <4>1, <4>2
        <5> QED BY <4>1, <5>1
      <4>3. CASE b # "comment"
        <5>1. r = <<p>> \o t /\ out' = Append(out, p)
          BY <2>1, <4>1, <4>3
        <5>2. Append(out, p) \o t = out \o (<<p>> \o t)
          <6>1. out \in Seq(Nat) /\ p \in Nat /\ t \in Seq(Nat)
            BY <1>1, <3>5, <4>1
          <6> HIDE DEF p
          <6>2. Append(out, p) = out \o <<p>> /\ <<p>> \in Seq(Nat)
            BY <6>1
          <6>3. (out \o <<p>>) \o t = out \o (<<p>> \o t)
            BY <6>1, <6>2, ConcatAssociative
          <6> QED BY <6>2, <6>3
        <5> QED BY <4>1, <5>1, <5>2
      <4> QED BY <4>2, <4>3
    <3>7. \A i \in 1..Len(out') : out'[i] <= (offset - left) + 1
      <4>1. CASE b = "comment"
        <5>1. out' = out
          BY <2>1, <4>1
        <5> QED BY <3>1, <3>4, <3>5, <5>1
      <4>2. CASE b # "comment"
        <5>1. out' = Append(out, p)
          BY <2>1, <4>2
        <5> DEFINE k == offset - left
        <5>2. k \in Nat /\ p = k + 1 /\ p \in Nat /\ \A i \in 1..Len(out) : out[i] <= k /\ out[i] \in Nat
          BY <3>1, <3>4, <3>5
        <5> HIDE DEF k, p
        <5>3. \A i \in 1..Len(Append(out, p)) : Append(out, p)[i] <= k + 1
          BY <1>1, <5>2
        <5> QED BY <5>1, <5>3 DEF k
      <4> QED BY <4>1, <4>2
    <3>8. out' \o F'[p + 1][b'] = Remover!Outside'
      BY <1>3, <2>2, <3>6
    <3> QED BY <2>3, <3>7, <3>8 DEF Scanned
  <2> QED BY <1>1, <1>3, <2>1, <2>2, <2>3, <2>5 DEF RemoverInv
<1> QED BY <1>4, <1>5

\* A failing fgets and the end of the file leave everything as it is.
LEMMA RemoverStays == Remover!Spec => []RemoverInv
<1>1. ASSUME RemoverInv, [Remover!Next]_(Remover!vars) PROVE RemoverInv'
  <2>1. CASE Remover!Fgets
    BY <1>1, <2>1, FgetsKeeps
  <2>2. CASE Remover!Process
    BY <1>1, <2>2, ProcessKeeps
  <2>3. CASE UNCHANGED <<text, pfirst, offset, left, state, out>>
    <3>1. /\ Remover!Chars' = Remover!Chars /\ Remover!Places' = Remover!Places
          /\ Remover!LinesFit' = Remover!LinesFit /\ CutsNoMark' = CutsNoMark
          /\ Remover!OutsideFrom' = Remover!OutsideFrom /\ Remover!Outside' = Remover!Outside
      BY <2>3 DEF Remover!Chars, Remover!Places, Remover!LinesFit, CutsNoMark, Remover!OutsideFrom,
                  Remover!Outside, Remover!Turns
    <3>2. Scanned' = Scanned
      BY <2>3, <3>1 DEF Scanned
    <3> QED BY <1>1, <2>3, <3>1, <3>2 DEF RemoverInv
  <2>4. Remover!Fgets \/ Remover!Process \/ UNCHANGED <<text, pfirst, offset, left, state, out>>
    BY <1>1 DEF Remover!Next, Remover!FgetsFails, Remover!vars
  <2> QED BY <2>1, <2>2, <2>3, <2>4
<1> QED BY <1>1, RemoverInit, PTL DEF Remover!Spec

\* A sequence of numbers up to k, then one of numbers beyond k: the first is a prefix,
\* and exactly what is up to k.
LEMMA Cut ==
  ASSUME NEW s \in Seq(Nat), NEW t \in Seq(Nat), NEW k \in Nat,
         \A i \in 1..Len(s) : s[i] <= k
  PROVE  /\ Len(s) <= Len(s \o t) /\ SubSeq(s, 1, Len(s)) = SubSeq(s \o t, 1, Len(s))
         /\ From(t, k + 1) => \A i \in 1..Len(s \o t) : i <= Len(s) <=> (s \o t)[i] <= k
<1> DEFINE u == s \o t  m == Len(s)
<1>1. /\ u \in Seq(Nat) /\ m \in Nat /\ Len(t) \in Nat /\ Len(u) = m + Len(t)
      /\ \A i \in 1..m : u[i] = s[i]
      /\ \A i \in 1..Len(t) : u[m + i] = t[i]
  OBVIOUS
<1>2. m <= Len(u)
  BY <1>1
<1>3. SubSeq(s, 1, m) = SubSeq(u, 1, m)
  <2>1. SubSeq(s, 1, m) = [i \in 1..m |-> s[i]] /\ SubSeq(u, 1, m) = [i \in 1..m |-> u[i]]
    <3> HIDE DEF u
    <3> QED BY <1>1, <1>2
  <2> HIDE DEF u, m
  <2> QED BY <1>1, <2>1
<1>4. ASSUME From(t, k + 1), NEW i \in 1..Len(u) PROVE i <= m <=> u[i] <= k
  <2> HIDE DEF u
  <2>1. CASE i <= m
    <3>1. i \in 1..m /\ s[i] <= k
      BY <1>1, <2>1
    <3> QED BY <1>1, <2>1, <3>1
  <2>2. CASE ~(i <= m)
    <3>1. i - m \in 1..Len(t) /\ m + (i - m) = i
      BY <1>1, <2>2
    <3>2. u[i] = t[i - m] /\ t[i - m] >= k + 1 /\ t[i - m] \in Nat
      BY <1>1, <1>4, <3>1 DEF From
    <3> QED BY <2>2, <3>2
  <2> QED BY <2>1, <2>2
<1> QED BY <1>2, <1>3, <1>4

\* What fgets cuts into pieces and the machine reads one character or mark at a time is
\* the file without its comments, for every size of buf and every file whose lines fit
\* into it (test_rmcom.c:20-73, 121-130).
THEOREM RemovesComments == Remover!Spec => []CommentsRemoved
<1>1. RemoverInv => CommentsRemoved
  <2> SUFFICES ASSUME RemoverInv, pfirst, Remover!LinesFit
               PROVE  /\ Remover!IsPrefix(out, Remover!Outside)
                      /\ left = 0 => \A i \in 1..Len(Remover!Outside) : i <= Len(out) <=> Remover!Outside[i] <= offset
    BY DEF CommentsRemoved, Remover!CommentsRemoved
  <2> DEFINE k == offset - left  r == Remover!OutsideFrom[k + 1][state]
  <2>1. text \in Seq(Remover!Chars) /\ state \in Remover!Places
    BY DEF RemoverInv
  <2>2. Len(text) \in Nat
    BY <2>1
  <2>3. offset \in 0..Len(text) /\ left \in 0..offset
    BY DEF RemoverInv
  <2>4. k \in Nat /\ k + 1 \in 1..(Len(text) + 2) /\ (left = 0 => offset = k)
    BY <2>2, <2>3
  <2>5. From(r, k + 1)
    <3> HIDE DEF k
    <3> QED BY <2>1, <2>2, <2>4, OutsideLater
  <2>6. out \in Seq(Nat) /\ out \o r = Remover!Outside /\ \A i \in 1..Len(out) : out[i] <= k
    BY DEF RemoverInv, Scanned
  <2>7. r \in Seq(Nat)
    BY <2>5 DEF From
  <2> HIDE DEF r, k
  <2>8. /\ Len(out) <= Len(out \o r) /\ SubSeq(out, 1, Len(out)) = SubSeq(out \o r, 1, Len(out))
        /\ \A i \in 1..Len(out \o r) : i <= Len(out) <=> (out \o r)[i] <= k
    BY <2>4, <2>5, <2>6, <2>7, Cut
  <2> QED BY <2>4, <2>6, <2>8 DEF Remover!IsPrefix
<1> QED BY <1>1, RemoverStays, PTL
=============================================================================
