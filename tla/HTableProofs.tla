---------------------------- MODULE HTableProofs ----------------------------
(***************************************************************************)
(* The hash table of genstructs/htable/htable.c, for any keys, data, hash  *)
(* function, initial size and load factor: the entries stay where searches *)
(* look for them, the table implements a dictionary, and the iterator      *)
(* yields what it yields in table order and comes to its end.              *)
(*                                                                         *)
(* Flat and OfBucket are recursive functions.  Facts about them rest on    *)
(* two lemmas of Numbers, Induction and Recursion.                         *)
(***************************************************************************)
EXTENDS HTable, Numbers, FunctionTheorems, FiniteSetTheorems, TLAPS

Entry == [key : Keys, data : Data]

-----------------------------------------------------------------------------
(* The chains of a table, one after the other. *)

\* The empty sequence adds nothing.
LEMMA EmptyConcat ==
  ASSUME NEW s \in Seq(Entry)
  PROVE  <<>> \o s = s
OBVIOUS

FlatOf(t, n) == FlattenSeq([b \in 1..n |-> t[b - 1]])

\* FlattenSeq of the first m chains is what appending them one by one gives.
LEMMA FlatIs ==
  ASSUME NEW N \in Nat, NEW t \in [0..(N - 1) -> Seq(Entry)], NEW f \in [0..N -> Seq(Entry)],
         f[0] = <<>>, \A i \in 1..N : f[i] = f[i - 1] \o t[i - 1],
         NEW m \in 0..N
  PROVE  FlatOf(t, m) = f[m]
<1> DEFINE seqs == [b \in 1..m |-> t[b - 1]]
           F(g) == [i \in 1..m |-> IF i = 1 THEN seqs[i] ELSE g[i - 1] \o seqs[i]]
           w == [i \in 1..m |-> f[i]]
<1>1. Len(seqs) = m /\ \A i \in 1..m : seqs[i] = t[i - 1] /\ t[i - 1] \in Seq(Entry)
  <2>1. ASSUME NEW i \in 1..m PROVE seqs[i] = t[i - 1] /\ t[i - 1] \in Seq(Entry)
    <3>1. i - 1 \in 0..(N - 1)
      OBVIOUS
    <3> QED BY <3>1
  <2>2. seqs \in Seq(Seq(Entry))
    BY <2>1
  <2> QED BY <2>1, <2>2
<1>2. CASE m = 0
  <2>1. seqs = <<>>
    BY <1>2
  <2> QED BY <1>1, <1>2, <2>1 DEF FlatOf, FlattenSeq
<1>3. CASE m # 0
  <2> HIDE DEF seqs
  <2>1. w = F(w)
    <3>1. ASSUME NEW i \in 1..m PROVE w[i] = IF i = 1 THEN seqs[i] ELSE w[i - 1] \o seqs[i]
      <4>0. i \in 1..N
        OBVIOUS
      <4>1. f[i] = f[i - 1] \o t[i - 1]
        BY <4>0
      <4>4. w[i] = f[i]
        OBVIOUS
      <4> HIDE DEF w
      <4>2. CASE i = 1
        <5>1. t[i - 1] \in Seq(Entry)
          BY <1>1
        <5>2. <<>> \o t[i - 1] = t[i - 1]
          BY <5>1, EmptyConcat
        <5>3. f[i - 1] = <<>>
          BY <4>2
        <5> QED BY <1>1, <4>1, <4>2, <4>4, <5>2, <5>3
      <4>3. CASE i # 1
        <5>1. i - 1 \in 1..m
          BY <4>3
        <5>2. w[i - 1] = f[i - 1]
          BY <5>1 DEF w
        <5> QED BY <1>1, <4>1, <4>3, <4>4, <5>2
      <4> QED BY <4>2, <4>3
    <3> QED BY <3>1
  <2>2. ASSUME NEW g, g = F(g) PROVE g = w
    <3> DEFINE S == {i \in 0..m : i = 0 \/ g[i] = w[i]}
    <3>1. ASSUME NEW i \in 1..m PROVE g[i] = IF i = 1 THEN seqs[i] ELSE g[i - 1] \o seqs[i]
      BY <2>2
    <3>2. ASSUME NEW i \in 1..m PROVE w[i] = IF i = 1 THEN seqs[i] ELSE w[i - 1] \o seqs[i]
      BY <2>1
    <3> HIDE DEF w
    <3>3. ASSUME NEW i \in 0..(m - 1), i \in S PROVE i + 1 \in S
      <4>1. i + 1 \in 1..m /\ (i + 1) - 1 = i /\ (i + 1 = 1 <=> i = 0)
        OBVIOUS
      <4>2. g[i + 1] = IF i = 0 THEN seqs[i + 1] ELSE g[i] \o seqs[i + 1]
        BY <3>1, <4>1
      <4>3. w[i + 1] = IF i = 0 THEN seqs[i + 1] ELSE w[i] \o seqs[i + 1]
        BY <3>2, <4>1
      <4>4. g[i + 1] = w[i + 1]
        <5>1. CASE i = 0
          BY <4>2, <4>3, <5>1
        <5>2. CASE i # 0
          <6>1. g[i] = w[i]
            BY <3>3, <5>2
          <6> QED BY <4>2, <4>3, <5>2, <6>1
        <5> QED BY <5>1, <5>2
      <4> QED BY <4>1, <4>4
    <3>4. \A i \in 0..m : i \in S
      <4>1. 0 \in S /\ m \in Nat
        OBVIOUS
      <4> HIDE DEF S
      <4> QED BY <3>3, <4>1, Induction
    <3>5. \A i \in 1..m : g[i] = w[i]
      BY <3>4
    <3> QED BY <2>2, <3>5 DEF w
  <2>3. FlattenSeq(seqs) = (CHOOSE g : g = F(g))[m]
    BY <1>1, <1>3 DEF FlattenSeq
  <2>4. (CHOOSE g : g = F(g)) = F(CHOOSE g : g = F(g))
    <3> HIDE DEF F, w
    <3> QED BY <2>1
  <2>5. (CHOOSE g : g = F(g)) = w
    <3> HIDE DEF F, w
    <3> QED BY <2>2, <2>4
  <2>6. FlattenSeq(seqs) = w[m]
    <3> HIDE DEF F, w
    <3> QED BY <2>3, <2>5
  <2>7. w[m] = f[m]
    BY <1>3
  <2> QED BY <2>6, <2>7 DEF FlatOf, seqs
<1> QED BY <1>2, <1>3

\* Flat goes from bucket to bucket.
LEMMA FlatStep ==
  ASSUME NEW N \in Nat, NEW t \in [0..(N - 1) -> Seq(Entry)]
  PROVE  /\ FlatOf(t, 0) = <<>>
         /\ \A m \in 0..N : FlatOf(t, m) \in Seq(Entry)
         /\ \A m \in 0..(N - 1) : FlatOf(t, m + 1) = FlatOf(t, m) \o t[m]
<1> DEFINE step == [i \in 1..N |-> [x \in Seq(Entry) |-> x \o t[i - 1]]]
<1>1. step \in [1..N -> [Seq(Entry) -> Seq(Entry)]]
  OBVIOUS
<1>2. <<>> \in Seq(Entry) /\ N \in Nat
  OBVIOUS
<1>3. ASSUME NEW i \in 1..N, NEW x \in Seq(Entry) PROVE step[i][x] = x \o t[i - 1]
  BY Zenon
<1> HIDE DEF step
<1>4. Recursive(N, Seq(Entry), <<>>, step) # {}
  BY <1>1, <1>2, Recursion
<1>5. PICK f \in [0..N -> Seq(Entry)] : f[0] = <<>> /\ \A i \in 1..N : f[i] = step[i][f[i - 1]]
  BY <1>4 DEF Recursive
<1>6. ASSUME NEW i \in 1..N PROVE f[i] = f[i - 1] \o t[i - 1]
  <2>1. i - 1 \in 0..N
    OBVIOUS
  <2>2. f[i - 1] \in Seq(Entry)
    BY <2>1
  <2> QED BY <1>5, <1>3, <2>2
<1>7. ASSUME NEW m \in 0..N PROVE FlatOf(t, m) = f[m]
  BY <1>5, <1>6, FlatIs
<1>8. ASSUME NEW m \in 0..(N - 1) PROVE FlatOf(t, m + 1) = FlatOf(t, m) \o t[m]
  <2>1. m + 1 \in 1..N /\ m \in 0..N /\ m + 1 \in 0..N /\ (m + 1) - 1 = m
    OBVIOUS
  <2>2. f[m + 1] = f[m] \o t[m]
    BY <1>6, <2>1
  <2>3. FlatOf(t, m + 1) = f[m + 1] /\ FlatOf(t, m) = f[m]
    BY <1>7, <2>1
  <2> QED BY <2>2, <2>3
<1>9. 0 \in 0..N
  OBVIOUS
<1>10. FlatOf(t, 0) = <<>>
  BY <1>5, <1>7, <1>9
<1>11. ASSUME NEW m \in 0..N PROVE FlatOf(t, m) \in Seq(Entry)
  BY <1>7
<1> QED BY <1>8, <1>10, <1>11

-----------------------------------------------------------------------------
(* What is in a chain, and whether its keys are apart. *)

\* The entries of a chain.
Ents(s) == {s[i] : i \in DOMAIN s}

\* No key is in a chain twice.
Distinct(s) == \A i, j \in DOMAIN s : s[i].key = s[j].key => i = j

\* A bucket number is one of the table's.
LEMMA BucketType ==
  ASSUME NEW k \in Keys, NEW n \in Nat \ {0}
  PROVE  Bucket(k, n) \in 0..(n - 1)
<1>1. Hash[k] \in Nat
  BY TableAssumption
<1> QED BY <1>1 DEF Bucket

\* Keys and data of entries.
LEMMA EntryIs ==
  /\ \A e \in Entry : e.key \in Keys /\ e.data \in Data /\ e = [key |-> e.key, data |-> e.data]
  /\ \A k \in Keys, d \in Data : [key |-> k, data |-> d] \in Entry
BY DEF Entry

\* The keys of a chain are those of its entries.
LEMMA KeysOfIs ==
  ASSUME NEW s \in Seq(Entry), NEW k
  PROVE  k \in KeysOf(s) <=> \E e \in Ents(s) : e.key = k
BY DEF KeysOf, Ents

\* Entries of a chain are entries.
LEMMA EntsType ==
  ASSUME NEW s \in Seq(Entry)
  PROVE  Ents(s) \subseteq Entry
BY DEF Ents

\* The empty chain.
LEMMA EntsEmpty == Ents(<<>>) = {} /\ Distinct(<<>>) /\ <<>> \in Seq(Entry)
BY DEF Ents, Distinct

\* One chain after another.
LEMMA EntsConcat ==
  ASSUME NEW s \in Seq(Entry), NEW u \in Seq(Entry)
  PROVE  /\ s \o u \in Seq(Entry)
         /\ Ents(s \o u) = Ents(s) \cup Ents(u)
         /\ (Distinct(s) /\ Distinct(u) /\ \A e \in Ents(s), f \in Ents(u) : e.key # f.key)
              => Distinct(s \o u)
<1> DEFINE w == s \o u
<1>1. /\ w \in Seq(Entry) /\ Len(w) = Len(s) + Len(u) /\ DOMAIN w = 1..Len(w)
      /\ DOMAIN s = 1..Len(s) /\ DOMAIN u = 1..Len(u) /\ Len(s) \in Nat /\ Len(u) \in Nat
  OBVIOUS
<1>2. \A i \in 1..Len(s) : w[i] = s[i] /\ i \in DOMAIN w
  OBVIOUS
<1>3. \A i \in 1..Len(u) : w[Len(s) + i] = u[i] /\ Len(s) + i \in DOMAIN w
  OBVIOUS
<1>4. ASSUME NEW i \in DOMAIN w, ~(i <= Len(s))
      PROVE  i - Len(s) \in DOMAIN u /\ w[i] = u[i - Len(s)]
  BY <1>1, <1>4
<1> HIDE DEF w
<1>5. ASSUME NEW e PROVE e \in Ents(w) <=> e \in Ents(s) \/ e \in Ents(u)
  <2>1. ASSUME e \in Ents(w) PROVE e \in Ents(s) \/ e \in Ents(u)
    <3>1. PICK i \in DOMAIN w : e = w[i]
      BY <2>1 DEF Ents
    <3>2. CASE i <= Len(s)
      BY <1>1, <1>2, <3>1, <3>2 DEF Ents
    <3>3. CASE ~(i <= Len(s))
      BY <1>4, <3>1, <3>3 DEF Ents
    <3> QED BY <3>2, <3>3
  <2>2. ASSUME e \in Ents(s) PROVE e \in Ents(w)
    BY <1>1, <1>2, <2>2 DEF Ents
  <2>3. ASSUME e \in Ents(u) PROVE e \in Ents(w)
    <3>1. PICK i \in 1..Len(u) : e = u[i]
      BY <1>1, <2>3 DEF Ents
    <3> QED BY <1>3, <3>1 DEF Ents
  <2> QED BY <2>1, <2>2, <2>3
<1>6. ASSUME Distinct(s), Distinct(u), \A e \in Ents(s), f \in Ents(u) : e.key # f.key
      PROVE  Distinct(w)
  <2>0. (\A i \in DOMAIN s : s[i] \in Ents(s)) /\ \A i \in DOMAIN u : u[i] \in Ents(u)
    BY DEF Ents
  <2>1. ASSUME NEW i \in DOMAIN w, NEW j \in DOMAIN w, w[i].key = w[j].key PROVE i = j
    <3>1. CASE i <= Len(s) /\ j <= Len(s)
      <4>1. i \in DOMAIN s /\ j \in DOMAIN s /\ w[i] = s[i] /\ w[j] = s[j]
        BY <1>1, <1>2, <3>1
      <4> QED BY <1>6, <2>1, <4>1 DEF Distinct
    <3>2. CASE ~(i <= Len(s)) /\ ~(j <= Len(s))
      <4>1. i - Len(s) = j - Len(s)
        BY <1>4, <1>6, <2>1, <3>2 DEF Distinct
      <4> QED BY <1>1, <4>1
    <3>3. CASE i <= Len(s) /\ ~(j <= Len(s))
      <4>1. i \in DOMAIN s /\ w[i] = s[i]
        BY <1>1, <1>2, <3>3
      <4> QED BY <1>4, <1>6, <2>0, <2>1, <3>3, <4>1
    <3>4. CASE ~(i <= Len(s)) /\ j <= Len(s)
      <4>1. j \in DOMAIN s /\ w[j] = s[j]
        BY <1>1, <1>2, <3>4
      <4> QED BY <1>4, <1>6, <2>0, <2>1, <3>4, <4>1
    <3> QED BY <3>1, <3>2, <3>3, <3>4
  <2> QED BY <2>1 DEF Distinct
<1> QED BY <1>1, <1>5, <1>6 DEF w

\* One more entry at the end of a chain.
LEMMA EntsAppend ==
  ASSUME NEW s \in Seq(Entry), NEW e \in Entry
  PROVE  /\ Append(s, e) \in Seq(Entry)
         /\ Ents(Append(s, e)) = Ents(s) \cup {e}
         /\ Distinct(s) /\ (\A x \in Ents(s) : x.key # e.key) => Distinct(Append(s, e))
<1>1. <<e>> \in Seq(Entry) /\ Append(s, e) = s \o <<e>>
  OBVIOUS
<1>2. Ents(<<e>>) = {e} /\ Distinct(<<e>>)
  BY DEF Ents, Distinct
<1>3. \A x \in Ents(<<e>>) : x = e
  BY <1>2
<1>4. /\ s \o <<e>> \in Seq(Entry)
      /\ Ents(s \o <<e>>) = Ents(s) \cup Ents(<<e>>)
      /\ (Distinct(s) /\ Distinct(<<e>>) /\ \A x \in Ents(s), y \in Ents(<<e>>) : x.key # y.key)
           => Distinct(s \o <<e>>)
  BY <1>1, EntsConcat
<1> QED BY <1>1, <1>2, <1>3, <1>4, Zenon

\* A chain without one of its entries.
LEMMA EntsRemove ==
  ASSUME NEW s \in Seq(Entry), NEW p \in DOMAIN s, Distinct(s)
  PROVE  /\ RemoveAt(s, p) \in Seq(Entry)
         /\ Ents(RemoveAt(s, p)) = {x \in Ents(s) : x.key # s[p].key}
         /\ Distinct(RemoveAt(s, p))
<1> DEFINE a == SubSeq(s, 1, p - 1)
           z == SubSeq(s, p + 1, Len(s))
<1>1. /\ Len(s) \in Nat /\ DOMAIN s = 1..Len(s) /\ p \in 1..Len(s)
      /\ \A i \in 1..Len(s) : s[i] \in Entry
  OBVIOUS
<1>2. /\ a \in Seq(Entry) /\ DOMAIN a = 1..(p - 1) /\ \A i \in 1..(p - 1) : a[i] = s[i]
  BY <1>1
<1>3. /\ z \in Seq(Entry) /\ DOMAIN z = 1..(Len(s) - p)
      /\ \A i \in 1..(Len(s) - p) : z[i] = s[p + i]
  BY <1>1
<1>4. RemoveAt(s, p) = a \o z
  BY DEF RemoveAt
<1> HIDE DEF a, z
<1>5. Ents(a) = {s[i] : i \in 1..(p - 1)}
  BY <1>2 DEF Ents
<1>6. Ents(z) = {s[i] : i \in (p + 1)..Len(s)}
  <2>1. ASSUME NEW i \in (p + 1)..Len(s) PROVE s[i] \in Ents(z)
    <3>1. i - p \in DOMAIN z /\ p + (i - p) = i
      BY <1>1, <1>3
    <3>2. z[i - p] = s[i]
      BY <1>3, <3>1
    <3> QED BY <3>1, <3>2 DEF Ents
  <2>2. ASSUME NEW i \in DOMAIN z PROVE z[i] \in {s[j] : j \in (p + 1)..Len(s)}
    <3>1. p + i \in (p + 1)..Len(s)
      BY <1>1, <1>3
    <3> QED BY <1>3, <3>1
  <2> QED BY <2>1, <2>2 DEF Ents
<1>7. Distinct(a)
  BY <1>1, <1>2 DEF Distinct
<1>8. Distinct(z)
  <2>1. ASSUME NEW i \in DOMAIN z, NEW j \in DOMAIN z, z[i].key = z[j].key PROVE i = j
    <3>1. p + i \in DOMAIN s /\ p + j \in DOMAIN s
      BY <1>1, <1>3
    <3>3. z[i] = s[p + i] /\ z[j] = s[p + j]
      BY <1>3
    <3>2. p + i = p + j
      BY <2>1, <3>1, <3>3 DEF Distinct
    <3> QED BY <1>1, <1>3, <3>2
  <2> QED BY <2>1 DEF Distinct
<1>9. ASSUME NEW e \in Ents(a), NEW f \in Ents(z) PROVE e.key # f.key
  <2>1. PICK i \in 1..(p - 1) : e = s[i]
    BY <1>5
  <2>2. PICK j \in (p + 1)..Len(s) : f = s[j]
    BY <1>6
  <2>3. i \in DOMAIN s /\ j \in DOMAIN s /\ i # j
    BY <1>1
  <2> QED BY <2>1, <2>2, <2>3 DEF Distinct
<1>10. Ents(s) = {s[i] : i \in 1..Len(s)}
  BY <1>1 DEF Ents
<1>11. ASSUME NEW x PROVE x \in Ents(a) \cup Ents(z) <=> x \in Ents(s) /\ x.key # s[p].key
  <2>1. ASSUME x \in Ents(a) PROVE x \in Ents(s) /\ x.key # s[p].key
    <3>1. PICK i \in 1..(p - 1) : x = s[i]
      BY <1>5, <2>1
    <3>2. i \in 1..Len(s) /\ i # p
      BY <1>1
    <3> QED BY <1>1, <1>10, <3>1, <3>2 DEF Distinct
  <2>2. ASSUME x \in Ents(z) PROVE x \in Ents(s) /\ x.key # s[p].key
    <3>1. PICK i \in (p + 1)..Len(s) : x = s[i]
      BY <1>6, <2>2
    <3>2. i \in 1..Len(s) /\ i # p
      BY <1>1
    <3> QED BY <1>1, <1>10, <3>1, <3>2 DEF Distinct
  <2>3. ASSUME x \in Ents(s), x.key # s[p].key PROVE x \in Ents(a) \/ x \in Ents(z)
    <3>1. PICK i \in 1..Len(s) : x = s[i]
      BY <1>10, <2>3
    <3>2. i # p
      BY <2>3, <3>1
    <3>3. i \in 1..(p - 1) \/ i \in (p + 1)..Len(s)
      BY <1>1, <3>2
    <3> QED BY <1>5, <1>6, <3>1, <3>3
  <2> QED BY <2>1, <2>2, <2>3
<1> QED BY <1>2, <1>3, <1>4, <1>7, <1>8, <1>9, <1>11, EntsConcat

-----------------------------------------------------------------------------
(* What a table holds. *)

\* Every entry is in the bucket of its key, and no key is there twice.
Placed(t, n) ==
  \A b \in 0..(n - 1) : Distinct(t[b]) /\ \A e \in Ents(t[b]) : Bucket(e.key, n) = b

\* The entries in the first m buckets of a table where Placed holds.
Below(t, n, m) == {e \in Entry : Bucket(e.key, n) < m /\ e \in Ents(t[Bucket(e.key, n)])}

Entries(t, n) == Below(t, n, n)

\* The chains one after the other hold what the chains hold, and no key twice.
LEMMA FlatEnts ==
  ASSUME NEW n \in Nat \ {0}, NEW t \in [0..(n - 1) -> Seq(Entry)], Placed(t, n),
         NEW m \in 0..n
  PROVE  Ents(FlatOf(t, m)) = Below(t, n, m) /\ Distinct(FlatOf(t, m))
<1> DEFINE S == {i \in 0..n : Ents(FlatOf(t, i)) = Below(t, n, i) /\ Distinct(FlatOf(t, i))}
<1>0. n \in Nat /\ 0 \in 0..n
  OBVIOUS
<1>1. 0 \in S
  <2>1. FlatOf(t, 0) = <<>>
    BY <1>0, FlatStep
  <2>2. \A e \in Entry : ~(Bucket(e.key, n) < 0)
    BY BucketType, EntryIs
  <2>3. Below(t, n, 0) = {}
    BY <2>2 DEF Below
  <2> QED BY <1>0, <2>1, <2>3, EntsEmpty
<1>2. ASSUME NEW i \in 0..(n - 1), i \in S PROVE i + 1 \in S
  <2>0. i + 1 \in 0..n /\ i \in 0..n
    BY <1>0
  <2>1. /\ FlatOf(t, i + 1) = FlatOf(t, i) \o t[i]
        /\ FlatOf(t, i) \in Seq(Entry) /\ t[i] \in Seq(Entry)
    BY <1>0, <2>0, FlatStep
  <2>2. Ents(FlatOf(t, i)) = Below(t, n, i) /\ Distinct(FlatOf(t, i))
    BY <1>2
  <2>3. Distinct(t[i]) /\ (\A e \in Ents(t[i]) : Bucket(e.key, n) = i) /\ Ents(t[i]) \subseteq Entry
    BY <2>1, EntsType DEF Placed
  <2>4. \A e \in Below(t, n, i), f \in Ents(t[i]) : e.key # f.key
    <3>1. ASSUME NEW e \in Below(t, n, i), NEW f \in Ents(t[i]), e.key = f.key PROVE FALSE
      <4>1. Bucket(e.key, n) < i /\ Bucket(f.key, n) = i
        BY <2>3 DEF Below
      <4> QED BY <3>1, <4>1
    <3> QED BY <3>1
  <2>5. /\ Ents(FlatOf(t, i + 1)) = Below(t, n, i) \cup Ents(t[i])
        /\ Distinct(FlatOf(t, i + 1))
    <3>1. /\ Ents(FlatOf(t, i) \o t[i]) = Ents(FlatOf(t, i)) \cup Ents(t[i])
          /\ (/\ Distinct(FlatOf(t, i)) /\ Distinct(t[i])
              /\ \A e \in Ents(FlatOf(t, i)), f \in Ents(t[i]) : e.key # f.key)
             => Distinct(FlatOf(t, i) \o t[i])
      BY <2>1, EntsConcat
    <3> QED BY <2>1, <2>2, <2>3, <2>4, <3>1, Zenon
  <2>6. ASSUME NEW e PROVE e \in Below(t, n, i) \cup Ents(t[i]) <=> e \in Below(t, n, i + 1)
    <3>1. CASE e \in Entry
      <4>1. Bucket(e.key, n) \in 0..(n - 1)
        BY <3>1, BucketType, EntryIs
      <4>2. Bucket(e.key, n) < i + 1 <=> (Bucket(e.key, n) < i \/ Bucket(e.key, n) = i)
        BY <4>1
      <4> QED BY <2>3, <3>1, <4>2 DEF Below
    <3>2. CASE e \notin Entry
      BY <2>3, <3>2 DEF Below
    <3> QED BY <3>1, <3>2
  <2>7. Below(t, n, i) \cup Ents(t[i]) = Below(t, n, i + 1)
    BY <2>6
  <2> QED BY <2>0, <2>5, <2>7
<1>3. \A i \in 0..n : i \in S
  <2> HIDE DEF S
  <2> QED BY <1>0, <1>1, <1>2, Induction
<1> QED BY <1>3

\* OfBucket keeps the entries of a bucket, and they stay apart.
LEMMA OfBucketIs ==
  ASSUME NEW s \in Seq(Entry), NEW n \in Nat \ {0}, NEW b \in 0..(n - 1), Distinct(s)
  PROVE  /\ OfBucket(s, n, b) \in Seq(Entry)
         /\ Ents(OfBucket(s, n, b)) = {e \in Ents(s) : Bucket(e.key, n) = b}
         /\ Distinct(OfBucket(s, n, b))
<1> DEFINE N == Len(s)
           take(f, i) == IF i = 0 THEN <<>>
                         ELSE IF Bucket(s[i].key, n) = b THEN Append(f[i - 1], s[i]) ELSE f[i - 1]
           F(f) == [i \in 0..N |-> take(f, i)]
           kept == CHOOSE f : f = F(f)
           step == [i \in 1..N |-> [x \in Seq(Entry) |->
                      IF Bucket(s[i].key, n) = b THEN Append(x, s[i]) ELSE x]]
<1>1. N \in Nat /\ (\A i \in 1..N : s[i] \in Entry) /\ Ents(s) = {s[i] : i \in 1..N}
  BY DEF Ents
<1>2. step \in [1..N -> [Seq(Entry) -> Seq(Entry)]]
  <2>1. ASSUME NEW i \in 1..N, NEW x \in Seq(Entry)
        PROVE  (IF Bucket(s[i].key, n) = b THEN Append(x, s[i]) ELSE x) \in Seq(Entry)
    BY <1>1
  <2> QED BY <2>1
<1>3. \E g : g = F(g)
  <2>1. <<>> \in Seq(Entry)
    OBVIOUS
  <2>2. Recursive(N, Seq(Entry), <<>>, step) # {}
    <3> HIDE DEF step, N
    <3> QED BY <1>1, <1>2, <2>1, Recursion
  <2>3. PICK g \in [0..N -> Seq(Entry)] : g[0] = <<>> /\ \A i \in 1..N : g[i] = step[i][g[i - 1]]
    <3> HIDE DEF step, N
    <3> QED BY <2>2 DEF Recursive
  <2>4. ASSUME NEW i \in 0..N PROVE g[i] = take(g, i)
    <3>1. CASE i = 0
      BY <2>3, <3>1
    <3>2. CASE i # 0
      <4>1. i \in 1..N /\ i - 1 \in 0..N
        BY <1>1, <3>2
      <4>2. g[i - 1] \in Seq(Entry)
        BY <4>1
      <4>3. step[i][g[i - 1]] = IF Bucket(s[i].key, n) = b THEN Append(g[i - 1], s[i]) ELSE g[i - 1]
        BY <4>1, <4>2
      <4> QED BY <2>3, <3>2, <4>1, <4>3
    <3> QED BY <3>1, <3>2
  <2>5. g = F(g)
    BY <2>4
  <2> QED BY <2>5
<1>4. kept = F(kept)
  <2> HIDE DEF F
  <2> QED BY <1>3
<1>5. OfBucket(s, n, b) = kept[N]
  BY DEF OfBucket
<1>6. kept[0] = <<>> /\ \A i \in 1..N : kept[i] = IF Bucket(s[i].key, n) = b
                                                 THEN Append(kept[i - 1], s[i]) ELSE kept[i - 1]
  <2>1. \A i \in 0..N : kept[i] = take(kept, i)
    <3> HIDE DEF kept
    <3> QED BY <1>4
  <2>2. 0 \in 0..N /\ \A i \in 1..N : i \in 0..N /\ i # 0
    BY <1>1
  <2> HIDE DEF kept
  <2> QED BY <2>1, <2>2
<1> HIDE DEF kept, N, F, step
<1> DEFINE Part(i) == {s[j] : j \in {j \in 1..i : Bucket(s[j].key, n) = b}}
           S == {i \in 0..N : kept[i] \in Seq(Entry) /\ Ents(kept[i]) = Part(i) /\ Distinct(kept[i])}
<1>7. 0 \in S
  <2>1. Part(0) = {}
    OBVIOUS
  <2> HIDE DEF Part
  <2>2. 0 \in 0..N
    BY <1>1
  <2>3. kept[0] = <<>>
    BY <1>6
  <2>4. kept[0] \in Seq(Entry) /\ Ents(kept[0]) = Part(0) /\ Distinct(kept[0])
    BY <2>1, <2>3, EntsEmpty, Zenon
  <2> QED BY <2>2, <2>4
<1>8. ASSUME NEW m \in 0..(N - 1), m \in S PROVE m + 1 \in S
  <2>1. m + 1 \in 1..N /\ (m + 1) - 1 = m /\ m \in Nat /\ m + 1 \in 0..N
    BY <1>1
  <2>2. kept[m] \in Seq(Entry) /\ Ents(kept[m]) = Part(m) /\ Distinct(kept[m])
    BY <1>8
  <2>3. \A j \in 1..(m + 1) : j = m + 1 \/ j \in 1..m
    BY <2>1
  <2>4. \A j \in 1..m : j \in 1..(m + 1) /\ j \in 1..N /\ j # m + 1
    BY <1>1, <2>1
  <2>5. m + 1 \in 1..(m + 1)
    BY <2>1
  <2>6. CASE Bucket(s[m + 1].key, n) = b
    <3>1. kept[m + 1] = Append(kept[m], s[m + 1])
      BY <1>6, <2>1, <2>6
    <3>2. Part(m + 1) = Part(m) \cup {s[m + 1]}
      BY <2>3, <2>4, <2>5, <2>6
    <3>3. \A x \in Part(m) : x.key # s[m + 1].key
      <4>1. ASSUME NEW j \in 1..m PROVE s[j].key # s[m + 1].key
        <5>1. j \in DOMAIN s /\ m + 1 \in DOMAIN s /\ j # m + 1
          BY <2>1, <2>4 DEF N
        <5> QED BY <5>1 DEF Distinct
      <4> QED BY <4>1
    <3> HIDE DEF Part
    <3>4. s[m + 1] \in Entry
      BY <1>1, <2>1
    <3>5. kept[m + 1] \in Seq(Entry) /\ Ents(kept[m + 1]) = Part(m + 1) /\ Distinct(kept[m + 1])
      <4>1. /\ Append(kept[m], s[m + 1]) \in Seq(Entry)
            /\ Ents(Append(kept[m], s[m + 1])) = Ents(kept[m]) \cup {s[m + 1]}
            /\ Distinct(kept[m]) /\ (\A x \in Ents(kept[m]) : x.key # s[m + 1].key)
                 => Distinct(Append(kept[m], s[m + 1]))
        BY <2>2, <3>4, EntsAppend
      <4> QED BY <2>2, <3>1, <3>2, <3>3, <4>1, Zenon
    <3> QED BY <2>1, <3>5
  <2>7. CASE Bucket(s[m + 1].key, n) # b
    <3>1. kept[m + 1] = kept[m]
      BY <1>6, <2>1, <2>7
    <3>2. Part(m + 1) = Part(m)
      BY <2>3, <2>4, <2>7
    <3> HIDE DEF Part
    <3> QED BY <2>1, <2>2, <3>1, <3>2
  <2> QED BY <2>6, <2>7
<1>9. N \in S
  <2> HIDE DEF S
  <2>1. \A m \in 0..N : m \in S
    BY <1>1, <1>7, <1>8, Induction
  <2> QED BY <1>1, <2>1
<1>10. Part(N) = {e \in Ents(s) : Bucket(e.key, n) = b}
  BY <1>1
<1> QED BY <1>5, <1>9, <1>10

\* A table, and where its chains may be asked for.
LEMMA ChainOf ==
  ASSUME NEW n \in Nat \ {0}, NEW t \in [0..(n - 1) -> Seq(Entry)], Placed(t, n), NEW k \in Keys
  PROVE  /\ Bucket(k, n) \in 0..(n - 1)
         /\ t[Bucket(k, n)] \in Seq(Entry)
         /\ Distinct(t[Bucket(k, n)])
         /\ \A e \in Ents(t[Bucket(k, n)]) : e \in Entry /\ Bucket(e.key, n) = Bucket(k, n)
         /\ \A e \in Entry : e.key = k => (e \in Entries(t, n) <=> e \in Ents(t[Bucket(k, n)]))
<1>1. Bucket(k, n) \in 0..(n - 1)
  BY BucketType
<1>2. t[Bucket(k, n)] \in Seq(Entry)
  BY <1>1
<1>3. ASSUME NEW e \in Entry, e.key = k
      PROVE  e \in Entries(t, n) <=> e \in Ents(t[Bucket(k, n)])
  <2>1. Bucket(k, n) < n
    BY <1>1
  <2> QED BY <1>3, <2>1 DEF Entries, Below
<1>4. Distinct(t[Bucket(k, n)]) /\ \A e \in Ents(t[Bucket(k, n)]) : Bucket(e.key, n) = Bucket(k, n)
  BY <1>1 DEF Placed
<1>5. Ents(t[Bucket(k, n)]) \subseteq Entry
  BY <1>2, EntsType
<1> QED BY <1>1, <1>2, <1>3, <1>4, <1>5

\* A key is stored once.
LEMMA KeyOnce ==
  ASSUME NEW n \in Nat \ {0}, NEW t \in [0..(n - 1) -> Seq(Entry)], Placed(t, n),
         NEW e \in Entries(t, n), NEW f \in Entries(t, n), e.key = f.key
  PROVE  e = f
<1>1. e \in Entry /\ f \in Entry /\ e.key \in Keys
  BY EntryIs DEF Entries, Below
<1> DEFINE c == t[Bucket(e.key, n)]
<1>2. Distinct(c) /\ e \in Ents(c) /\ f \in Ents(c)
  BY <1>1, ChainOf
<1> HIDE DEF c
<1> QED BY <1>2 DEF Distinct, Ents

\* There are as many entries as the chains are long.
LEMMA FlatLen ==
  ASSUME NEW n \in Nat \ {0}, NEW t \in [0..(n - 1) -> Seq(Entry)], Placed(t, n),
         IsFiniteSet(Entries(t, n))
  PROVE  Len(FlatOf(t, n)) = Cardinality(Entries(t, n))
<1> DEFINE fl == FlatOf(t, n)
<1>1. n \in Nat /\ n \in 0..n
  OBVIOUS
<1>2. fl \in Seq(Entry)
  BY <1>1, FlatStep
<1>3. Ents(fl) = Entries(t, n) /\ Distinct(fl)
  BY <1>1, FlatEnts DEF Entries
<1> HIDE DEF fl
<1>4. Len(fl) \in Nat /\ DOMAIN fl = 1..Len(fl)
  BY <1>2
<1>5. fl \in Bijection(1..Len(fl), Ents(fl))
  <2>1. fl \in [1..Len(fl) -> Ents(fl)]
    BY <1>2, <1>4 DEF Ents
  <2>2. \A i, j \in 1..Len(fl) : fl[i] = fl[j] => i = j
    BY <1>3, <1>4 DEF Distinct
  <2>3. \A e \in Ents(fl) : \E i \in 1..Len(fl) : fl[i] = e
    BY <1>4 DEF Ents
  <2> QED BY <2>1, <2>2, <2>3, Fun_IsBij
<1>6. ExistsBijection(1..Len(fl), Ents(fl))
  BY <1>5 DEF ExistsBijection
<1>7. IsFiniteSet(1..Len(fl)) /\ Cardinality(1..Len(fl)) = Len(fl)
  <2>1. 1 \in Int /\ Len(fl) \in Int
    BY <1>4
  <2>2. /\ IsFiniteSet(1..Len(fl))
        /\ Cardinality(1..Len(fl)) = IF 1 > Len(fl) THEN 0 ELSE Len(fl) - 1 + 1
    BY <2>1, FS_Interval, Zenon
  <2> QED BY <1>4, <2>2
<1> QED BY <1>3, <1>6, <1>7, FS_Bijection DEF fl

\* A table with htable_insert's entry at the end of its chain.
With(t, n, k, d) == [t EXCEPT ![Bucket(k, n)] = Append(@, [key |-> k, data |-> d])]

\* It is whole again, with the entry.
LEMMA PutIn ==
  ASSUME NEW n \in Nat \ {0}, NEW t \in [0..(n - 1) -> Seq(Entry)], Placed(t, n),
         NEW k \in Keys, NEW d \in Data, k \notin KeysOf(t[Bucket(k, n)]),
         NEW e, e = [key |-> k, data |-> d]
  PROVE  /\ With(t, n, k, d) \in [0..(n - 1) -> Seq(Entry)]
         /\ Placed(With(t, n, k, d), n)
         /\ Entries(With(t, n, k, d), n) = Entries(t, n) \cup {e}
         /\ e \notin Entries(t, n)
<1> DEFINE h == Bucket(k, n)
           u == With(t, n, k, d)
<1>0. u = [t EXCEPT ![h] = Append(@, e)]
  BY DEF With
<1> HIDE DEF u
<1>1. /\ h \in 0..(n - 1) /\ t[h] \in Seq(Entry) /\ Distinct(t[h])
      /\ \A x \in Ents(t[h]) : x \in Entry /\ Bucket(x.key, n) = h
  BY ChainOf
<1>2. e \in Entry /\ e.key = k
  BY EntryIs
<1>3. \A x \in Ents(t[h]) : x.key # e.key
  BY <1>1, <1>2, KeysOfIs
<1>4. /\ Append(t[h], e) \in Seq(Entry)
      /\ Ents(Append(t[h], e)) = Ents(t[h]) \cup {e}
      /\ Distinct(Append(t[h], e))
  BY <1>1, <1>2, <1>3, EntsAppend
<1>5. u[h] = Append(t[h], e) /\ \A b \in 0..(n - 1) : b # h => u[b] = t[b]
  BY <1>0, <1>1
<1>6. u \in [0..(n - 1) -> Seq(Entry)]
  BY <1>0, <1>1, <1>4
<1>7. \A x \in Entry : Bucket(x.key, n) \in 0..(n - 1)
  BY EntryIs, BucketType
<1>8. Bucket(e.key, n) = h
  BY <1>2
<1> HIDE DEF h
<1>9. Placed(u, n)
  <2>1. ASSUME NEW b \in 0..(n - 1)
        PROVE  Distinct(u[b]) /\ \A x \in Ents(u[b]) : Bucket(x.key, n) = b
    <3>1. CASE b = h
      BY <1>1, <1>4, <1>5, <1>8, <3>1
    <3>2. CASE b # h
      BY <1>5, <3>2 DEF Placed
    <3> QED BY <3>1, <3>2
  <2> QED BY <2>1 DEF Placed
<1>10. ASSUME NEW x \in Entry
       PROVE  x \in Entries(u, n) <=> x \in Entries(t, n) \/ x = e
  <2>1. Bucket(x.key, n) \in 0..(n - 1) /\ Bucket(x.key, n) < n
    BY <1>7
  <2>2. /\ x \in Entries(u, n) <=> x \in Ents(u[Bucket(x.key, n)])
        /\ x \in Entries(t, n) <=> x \in Ents(t[Bucket(x.key, n)])
    BY <2>1 DEF Entries, Below
  <2>3. CASE Bucket(x.key, n) = h
    BY <1>4, <1>5, <2>2, <2>3
  <2>4. CASE Bucket(x.key, n) # h
    BY <1>5, <1>8, <2>1, <2>2, <2>4
  <2> QED BY <2>3, <2>4
<1>11. Entries(u, n) \subseteq Entry /\ Entries(t, n) \subseteq Entry
  BY DEF Entries, Below
<1>12. e \notin Entries(t, n)
  <2>1. e \notin Ents(t[h])
    BY <1>3
  <2> QED BY <1>2, <2>1 DEF Entries, Below, h
<1>13. Entries(u, n) = Entries(t, n) \cup {e}
  BY <1>2, <1>10, <1>11
<1> QED BY <1>6, <1>9, <1>12, <1>13 DEF u

\* Position finds the entry of a key that is there.
LEMMA PositionIs ==
  ASSUME NEW s \in Seq(Entry), Distinct(s), NEW k, k \in KeysOf(s)
  PROVE  Position(s, k) \in DOMAIN s /\ s[Position(s, k)].key = k
<1>1. PICK i \in DOMAIN s : s[i].key = k
  BY DEF KeysOf
<1>2. ASSUME NEW j \in 1..(i - 1) PROVE s[j].key # k
  <2>1. j \in DOMAIN s /\ j # i
    OBVIOUS
  <2> QED BY <1>1, <2>1 DEF Distinct
<1>3. \E p \in DOMAIN s : s[p].key = k /\ \A j \in 1..(p - 1) : s[j].key # k
  BY <1>1, <1>2
<1> QED BY <1>3 DEF Position

\* A table without the entry htable_remove takes from its chain.
Without(t, n, k) == [t EXCEPT ![Bucket(k, n)] = RemoveAt(@, Position(@, k))]

\* It is whole again, without the entry.
LEMMA TakeOut ==
  ASSUME NEW n \in Nat \ {0}, NEW t \in [0..(n - 1) -> Seq(Entry)], Placed(t, n),
         NEW k \in Keys, k \in KeysOf(t[Bucket(k, n)])
  PROVE  /\ Without(t, n, k) \in [0..(n - 1) -> Seq(Entry)]
         /\ Placed(Without(t, n, k), n)
         /\ Entries(Without(t, n, k), n) = {x \in Entries(t, n) : x.key # k}
         /\ \E e \in Entries(t, n) : e.key = k
<1> DEFINE h == Bucket(k, n)
           p == Position(t[h], k)
           u == Without(t, n, k)
<1>0. u = [t EXCEPT ![h] = RemoveAt(@, Position(@, k))]
  BY DEF Without
<1> HIDE DEF u
<1>1. /\ h \in 0..(n - 1) /\ t[h] \in Seq(Entry) /\ Distinct(t[h])
      /\ \A x \in Ents(t[h]) : x \in Entry /\ Bucket(x.key, n) = h
  BY ChainOf
<1>2. p \in DOMAIN t[h] /\ t[h][p].key = k
  BY <1>1, PositionIs
<1>3. u[h] = RemoveAt(t[h], p) /\ \A b \in 0..(n - 1) : b # h => u[b] = t[b]
  BY <1>0, <1>1
<1> HIDE DEF p
<1>4. /\ RemoveAt(t[h], p) \in Seq(Entry)
      /\ Ents(RemoveAt(t[h], p)) = {x \in Ents(t[h]) : x.key # k}
      /\ Distinct(RemoveAt(t[h], p))
  BY <1>1, <1>2, EntsRemove
<1>5. u \in [0..(n - 1) -> Seq(Entry)]
  BY <1>0, <1>1, <1>3, <1>4 DEF p
<1>6. \A x \in Entry : Bucket(x.key, n) \in 0..(n - 1)
  BY EntryIs, BucketType
<1>7. \A x : x.key = k => Bucket(x.key, n) = h
  OBVIOUS
<1> HIDE DEF h
<1>8. Placed(u, n)
  <2>1. ASSUME NEW b \in 0..(n - 1)
        PROVE  Distinct(u[b]) /\ \A x \in Ents(u[b]) : Bucket(x.key, n) = b
    <3>1. CASE b = h
      BY <1>1, <1>3, <1>4, <3>1
    <3>2. CASE b # h
      BY <1>3, <3>2 DEF Placed
    <3> QED BY <3>1, <3>2
  <2> QED BY <2>1 DEF Placed
<1>9. ASSUME NEW x \in Entry
      PROVE  x \in Entries(u, n) <=> x \in Entries(t, n) /\ x.key # k
  <2>1. Bucket(x.key, n) \in 0..(n - 1) /\ Bucket(x.key, n) < n
    BY <1>6
  <2>2. /\ x \in Entries(u, n) <=> x \in Ents(u[Bucket(x.key, n)])
        /\ x \in Entries(t, n) <=> x \in Ents(t[Bucket(x.key, n)])
    BY <2>1 DEF Entries, Below
  <2>3. CASE Bucket(x.key, n) = h
    BY <1>3, <1>4, <2>2, <2>3
  <2>4. CASE Bucket(x.key, n) # h
    BY <1>3, <1>7, <2>1, <2>2, <2>4
  <2> QED BY <2>3, <2>4
<1>10. Entries(u, n) \subseteq Entry /\ Entries(t, n) \subseteq Entry
  BY DEF Entries, Below
<1>11. t[h][p] \in Ents(t[h])
  BY <1>2 DEF Ents
<1>12. t[h][p] \in Entries(t, n)
  <2>1. Bucket(t[h][p].key, n) = h /\ t[h][p] \in Entry /\ h < n
    BY <1>1, <1>11
  <2> QED BY <1>11, <2>1 DEF Entries, Below
<1> QED BY <1>2, <1>5, <1>8, <1>9, <1>10, <1>12 DEF u

\* htable_grow's table holds what the smaller one held, where searches look.
LEMMA RehashedIs ==
  ASSUME NEW n \in Nat \ {0}, NEW t \in [0..(n - 1) -> Seq(Entry)], Placed(t, n)
  PROVE  /\ Rehashed(t, n) \in [0..(2 * n - 1) -> Seq(Entry)]
         /\ Placed(Rehashed(t, n), 2 * n)
         /\ Entries(Rehashed(t, n), 2 * n) = Entries(t, n)
<1> DEFINE fl == FlatOf(t, n)
           w == 2 * n
           u == Rehashed(t, n)
<1>1. n \in Nat /\ n \in 0..n /\ w \in Nat \ {0}
  OBVIOUS
<1>2. fl \in Seq(Entry) /\ Ents(fl) = Entries(t, n) /\ Distinct(fl)
  BY <1>1, FlatStep, FlatEnts DEF Entries
<1>3. u = [b \in 0..(w - 1) |-> OfBucket(fl, w, b)]
  BY DEF Rehashed, FlatOf
<1> HIDE DEF fl, w, u
<1>4. \A b \in 0..(w - 1) : u[b] = OfBucket(fl, w, b)
  BY <1>3
<1>5. ASSUME NEW b \in 0..(w - 1)
      PROVE  /\ u[b] \in Seq(Entry) /\ Distinct(u[b])
             /\ Ents(u[b]) = {e \in Entries(t, n) : Bucket(e.key, w) = b}
  <2>1. /\ OfBucket(fl, w, b) \in Seq(Entry) /\ Distinct(OfBucket(fl, w, b))
        /\ Ents(OfBucket(fl, w, b)) = {e \in Ents(fl) : Bucket(e.key, w) = b}
    BY <1>1, <1>2, OfBucketIs
  <2>2. u[b] = OfBucket(fl, w, b)
    BY <1>4
  <2> QED BY <1>2, <2>1, <2>2, Zenon
<1>6. u \in [0..(w - 1) -> Seq(Entry)]
  BY <1>3, <1>4, <1>5
<1>7. Placed(u, w)
  BY <1>5 DEF Placed
<1>8. ASSUME NEW e \in Entry PROVE e \in Entries(u, w) <=> e \in Entries(t, n)
  <2>1. Bucket(e.key, w) \in 0..(w - 1)
    BY <1>1, EntryIs, BucketType
  <2>2. Bucket(e.key, w) < w
    BY <1>1, <2>1
  <2>3. e \in Entries(u, w) <=> e \in Ents(u[Bucket(e.key, w)])
    BY <2>2 DEF Entries, Below
  <2> QED BY <1>5, <2>1, <2>3
<1>9. Entries(u, w) \subseteq Entry /\ Entries(t, n) \subseteq Entry
  BY DEF Entries, Below
<1>10. Entries(u, w) = Entries(t, n)
  BY <1>8, <1>9
<1> QED BY <1>6, <1>7, <1>10 DEF u, w

-----------------------------------------------------------------------------
(* What a search finds. *)

Found(t, n, k) ==
  LET chain == t[Bucket(k, n)]
  IN  IF k \in KeysOf(chain) THEN chain[Position(chain, k)].data ELSE Absent

\* A search finds the data of the entry with its key, or Absent.
LEMMA FoundIs ==
  ASSUME NEW n \in Nat \ {0}, NEW t \in [0..(n - 1) -> Seq(Entry)], Placed(t, n), NEW k \in Keys
  PROVE  /\ \A d \in Data : [key |-> k, data |-> d] \in Entries(t, n) => Found(t, n, k) = d
         /\ Found(t, n, k) # Absent => /\ Found(t, n, k) \in Data
                                       /\ [key |-> k, data |-> Found(t, n, k)] \in Entries(t, n)
         /\ Found(t, n, k) # Absent <=> k \in KeysOf(t[Bucket(k, n)])
<1> DEFINE c == t[Bucket(k, n)]
           p == Position(c, k)
<1>1. /\ c \in Seq(Entry) /\ Distinct(c)
      /\ \A e \in Entry : e.key = k => (e \in Entries(t, n) <=> e \in Ents(c))
  BY ChainOf
<1>2. Found(t, n, k) = IF k \in KeysOf(c) THEN c[p].data ELSE Absent
  BY DEF Found
<1> HIDE DEF c, p
<1>3. ASSUME NEW d \in Data, [key |-> k, data |-> d] \in Entries(t, n)
      PROVE  k \in KeysOf(c)
  BY <1>1, <1>3, KeysOfIs, EntryIs
<1>4. ASSUME k \in KeysOf(c)
      PROVE  /\ c[p].data \in Data /\ c[p].data # Absent
             /\ [key |-> k, data |-> c[p].data] = c[p] /\ c[p] \in Entries(t, n)
  <2>1. p \in DOMAIN c /\ c[p].key = k
    BY <1>1, <1>4, PositionIs DEF p
  <2>2. c[p] \in Entry /\ c[p] \in Ents(c)
    BY <1>1, <2>1 DEF Ents
  <2>3. c[p].data \in Data /\ [key |-> k, data |-> c[p].data] = c[p]
    BY <2>1, <2>2, EntryIs
  <2>4. c[p] \in Entries(t, n)
    BY <1>1, <2>1, <2>2
  <2> QED BY <2>3, <2>4, TableAssumption
<1>5. ASSUME NEW d \in Data, [key |-> k, data |-> d] \in Entries(t, n)
      PROVE  Found(t, n, k) = d
  <2>1. k \in KeysOf(c)
    BY <1>3, <1>5
  <2> DEFINE e == [key |-> k, data |-> d]
             f == c[p]
  <2>2. e \in Entries(t, n) /\ f \in Entries(t, n) /\ e.key = k /\ f.key = k
    BY <1>4, <1>5, <2>1
  <2>3. e.data = d
    OBVIOUS
  <2> HIDE DEF e, f
  <2>4. e = f
    BY <2>2, KeyOnce
  <2>5. f.data = d
    BY <2>3, <2>4
  <2> QED BY <1>2, <2>1, <2>5 DEF f
<1> QED BY <1>2, <1>4, <1>5 DEF c

-----------------------------------------------------------------------------
(* The sizes a table grows to. *)

\* Sizes starts with InitSize and doubles.
LEMMA SizesIs ==
  /\ Sizes[0] = InitSize
  /\ \A n \in 0..MaxGrows : Sizes[n] \in Nat
  /\ \A n \in 1..MaxGrows : Sizes[n] = 2 * Sizes[n - 1]
<1> DEFINE N == MaxGrows
           F(f) == [n \in 0..N |-> IF n = 0 THEN InitSize ELSE 2 * f[n - 1]]
           step == [n \in 1..N |-> [x \in Nat |-> 2 * x]]
<1>1. N \in Nat /\ InitSize \in Nat
  BY TableAssumption
<1>2. step \in [1..N -> [Nat -> Nat]]
  OBVIOUS
<1>3. \A n \in 1..N, x \in Nat : step[n][x] = 2 * x
  OBVIOUS
<1>4. Sizes = CHOOSE f : f = F(f)
  BY DEF Sizes
<1> HIDE DEF N, step
<1>5. Recursive(N, Nat, InitSize, step) # {}
  BY <1>1, <1>2, Recursion
<1>6. PICK g \in [0..N -> Nat] : g[0] = InitSize /\ \A n \in 1..N : g[n] = step[n][g[n - 1]]
  BY <1>5 DEF Recursive
<1>7. ASSUME NEW n \in 1..N PROVE g[n] = 2 * g[n - 1]
  <2>1. n - 1 \in 0..N
    BY <1>1
  <2>2. g[n - 1] \in Nat
    BY <2>1
  <2> QED BY <1>3, <1>6, <2>2
<1>8. \A n \in 0..N : g[n] = IF n = 0 THEN InitSize ELSE 2 * g[n - 1]
  BY <1>1, <1>6, <1>7
<1>9. g = F(g)
  BY <1>8
<1>10. Sizes = F(Sizes)
  <2> HIDE DEF F
  <2> QED BY <1>4, <1>9
<1>11. \A n \in 0..N : Sizes[n] = IF n = 0 THEN InitSize ELSE 2 * Sizes[n - 1]
  BY <1>10
<1> DEFINE S == {n \in 0..N : Sizes[n] \in Nat}
<1>12. 0 \in S
  BY <1>1, <1>11
<1>13. ASSUME NEW m \in 0..(N - 1), m \in S PROVE m + 1 \in S
  <2>1. m + 1 \in 0..N /\ m + 1 # 0 /\ (m + 1) - 1 = m
    BY <1>1
  <2>2. Sizes[m + 1] = 2 * Sizes[m]
    BY <1>11, <2>1
  <2> QED BY <1>13, <2>1, <2>2
<1>14. \A n \in 0..N : n \in S
  <2> HIDE DEF S
  <2> QED BY <1>1, <1>12, <1>13, Induction
<1>15. \A n \in 1..N : n \in 0..N /\ n # 0
  BY <1>1
<1> QED BY <1>1, <1>11, <1>12, <1>14, <1>15 DEF N

\* Twice a limit leaves room for one more entry.
LEMMA TwiceLimit ==
  ASSUME NEW s \in Nat \ {0}
  PROVE  /\ Factor * s \in Nat \ {0}
         /\ Factor * (2 * s) = 2 * (Factor * s)
<1>1. Factor \in Nat \ {0}
  BY TableAssumption
<1> QED BY <1>1

-----------------------------------------------------------------------------
(* The inductive invariant. *)

\* The entries: where searches look, once each, as many as ht_used says.
Stored ==
  /\ size \in Nat \ {0}
  /\ table \in [0..(size - 1) -> Seq(Entry)]
  /\ Placed(table, size)
  /\ IsFiniteSet(Entries(table, size))
  /\ used = Cardinality(Entries(table, size))

\* The iterator: it has yielded nothing, or the keys up to the one it is at, in
\* the chain before pos; when pos is past the last bucket, the first of it.
Yielded ==
  \/ walk = NotWalking
  \/ walk = <<>> /\ pos = 0 /\ node = Absent
  \/ /\ pos \in 1..size
     /\ \E i \in DOMAIN table[pos - 1] :
          /\ node = table[pos - 1][i].key
          /\ Len(walk) = Len(FlatOf(table, pos - 1)) + i
          /\ pos = size => i = 1
     /\ walk \in Seq(Keys)
     /\ \A j \in 1..Len(walk) : walk[j] = FlatOf(table, size)[j].key

Others ==
  /\ grows \in 0..MaxGrows
  /\ result \in {"OK", "EXISTS", "NOMEM", "NOTFOUND"}
  /\ pos \in 0..size
  /\ node \in Keys \cup {Absent}

Inv == Stored /\ LoadBounded /\ Others /\ Yielded

\* The empty table.
LEMMA InitInv == Init => Inv
<1> SUFFICES ASSUME Init PROVE Inv
  OBVIOUS
<1> USE DEF Init
<1>1. size \in Nat \ {0} /\ size = InitSize
  BY TableAssumption
<1>2. table \in [0..(size - 1) -> Seq(Entry)] /\ \A b \in 0..(size - 1) : table[b] = <<>>
  <2>1. <<>> \in Seq(Entry)
    OBVIOUS
  <2> QED BY <1>1, <2>1
<1>3. Placed(table, size)
  BY <1>2, EntsEmpty DEF Placed
<1>4. Entries(table, size) = {}
  <2>1. ASSUME NEW e \in Entry PROVE e \notin Entries(table, size)
    <3>1. Bucket(e.key, size) \in 0..(size - 1)
      BY <1>1, EntryIs, BucketType
    <3> QED BY <1>2, <3>1, EntsEmpty DEF Entries, Below
  <2> QED BY <2>1 DEF Entries, Below
<1>5. Stored
  BY <1>1, <1>2, <1>3, <1>4, FS_EmptySet DEF Stored
<1>6. LoadBounded
  <2>1. limit = Factor * size /\ limit \in Nat /\ used = 0
    BY <1>1, TwiceLimit
  <2>2. 0 \in 0..grows /\ size = Sizes[0] /\ (used > limit => 0 < grows)
    BY <1>1, <2>1, SizesIs
  <2> QED BY <2>1, <2>2 DEF LoadBounded
<1>7. Others
  BY <1>1, TableAssumption DEF Others
<1> QED BY <1>5, <1>6, <1>7 DEF Inv, Yielded

\* What a table's Stored says of an insertion's table, before it grows.
LEMMA InsertStored ==
  ASSUME Stored, NEW k \in Keys, NEW d \in Data, k \notin KeysOf(Chain(k)),
         NEW u, u = With(table, size, k, d)
  PROVE  /\ u \in [0..(size - 1) -> Seq(Entry)]
         /\ Placed(u, size)
         /\ IsFiniteSet(Entries(u, size))
         /\ Cardinality(Entries(u, size)) = used + 1
         /\ Entries(u, size) = Entries(table, size) \cup {[key |-> k, data |-> d]}
<1> DEFINE e == [key |-> k, data |-> d]
<1>1. /\ size \in Nat \ {0} /\ table \in [0..(size - 1) -> Seq(Entry)] /\ Placed(table, size)
      /\ IsFiniteSet(Entries(table, size)) /\ used = Cardinality(Entries(table, size))
      /\ k \notin KeysOf(table[Bucket(k, size)])
  BY DEF Stored, Chain
<1>2. e = [key |-> k, data |-> d]
  OBVIOUS
<1> HIDE DEF e
<1>3. /\ u \in [0..(size - 1) -> Seq(Entry)] /\ Placed(u, size)
      /\ Entries(u, size) = Entries(table, size) \cup {e} /\ e \notin Entries(table, size)
  BY <1>1, <1>2, PutIn
<1>4. /\ IsFiniteSet(Entries(table, size) \cup {e})
      /\ Cardinality(Entries(table, size) \cup {e}) = Cardinality(Entries(table, size)) + 1
  BY <1>1, <1>3, FS_AddElement
<1> QED BY <1>1, <1>3, <1>4 DEF e

-----------------------------------------------------------------------------
(* The steps that change the table. *)

\* What changes neither the table nor the iterator.
LEMMA SameInv ==
  ASSUME Inv, UNCHANGED <<core, iter>>, result' \in {"OK", "EXISTS", "NOMEM", "NOTFOUND"}
  PROVE  Inv'
<1> USE DEF core, iter
<1>1. Stored'
  BY DEF Inv, Stored
<1>2. LoadBounded'
  BY DEF Inv, LoadBounded
<1>3. Others'
  BY DEF Inv, Others
<1>4. Yielded'
  BY DEF Inv, Yielded
<1> QED BY <1>1, <1>2, <1>3, <1>4 DEF Inv

\* The load as an insertion leaves it; grown says whether the table has doubled.
LEMMA InsertLoad ==
  ASSUME LoadBounded, size \in Nat \ {0}, used \in Nat, grows \in 0..MaxGrows,
         used' = used + 1,
         \/ used + 1 <= limit /\ UNCHANGED <<size, limit, grows>>
         \/ /\ grows < MaxGrows /\ grows' = grows + 1
            /\ \/ UNCHANGED <<size, limit>>
               \/ size' = 2 * size /\ limit' = Factor * (2 * size)
  PROVE  LoadBounded'
<1>1. PICK n \in 0..grows : size = Sizes[n] /\ (used > limit => n < grows)
  BY DEF LoadBounded
<1>2. limit = Factor * size /\ limit \in Nat \ {0} /\ Factor * (2 * size) = 2 * limit
  BY TwiceLimit DEF LoadBounded
<1>3. MaxGrows \in Nat
  BY TableAssumption
<1>4. CASE used + 1 <= limit /\ UNCHANGED <<size, limit, grows>>
  <2>1. limit' = Factor * size' /\ n \in 0..grows' /\ size' = Sizes[n]
    BY <1>1, <1>2, <1>4
  <2>2. ~(used' > limit')
    BY <1>2, <1>4
  <2> QED BY <2>1, <2>2 DEF LoadBounded
<1>5. CASE grows' = grows + 1 /\ UNCHANGED <<size, limit>>
  <2>1. limit' = Factor * size' /\ n \in 0..grows' /\ size' = Sizes[n] /\ n < grows'
    BY <1>1, <1>2, <1>3, <1>5
  <2> QED BY <2>1 DEF LoadBounded
<1>6. CASE /\ grows < MaxGrows /\ grows' = grows + 1
           /\ size' = 2 * size /\ limit' = Factor * (2 * size)
  <2>1. n + 1 \in 1..MaxGrows /\ (n + 1) - 1 = n /\ n + 1 \in 0..grows'
    BY <1>1, <1>3, <1>6
  <2>2. size' = Sizes[n + 1]
    BY <1>1, <1>6, <2>1, SizesIs
  <2>3. limit' = Factor * size'
    BY <1>6
  <2>4. ASSUME used' > limit' PROVE n + 1 < grows'
    <3>1. used > limit
      BY <1>2, <1>6, <2>4
    <3> QED BY <1>1, <1>3, <1>6, <3>1
  <2> QED BY <2>1, <2>2, <2>3, <2>4 DEF LoadBounded
<1> QED BY <1>4, <1>5, <1>6

\* htable_insert, whether it finds the key, fails, grows the table or not.
LEMMA InsertInv ==
  ASSUME Inv, NEW k \in Keys, NEW d \in Data, Insert(k, d)
  PROVE  Inv'
<1>1. CASE UNCHANGED core
  <2>1. result' \in {"OK", "EXISTS", "NOMEM", "NOTFOUND"} /\ UNCHANGED iter
    BY DEF Insert
  <2> QED BY <1>1, <2>1, SameInv
<1>2. CASE ~UNCHANGED core
  <2> DEFINE t == With(table, size, k, d)
  <2>1. k \notin KeysOf(Chain(k)) /\ used' = used + 1 /\ result' = "OK"
    BY <1>2 DEF Insert
  <2>2. UNCHANGED iter /\ walk = NotWalking
    BY DEF Insert
  <2>3. \/ used + 1 <= limit /\ table' = t /\ UNCHANGED <<size, limit, grows>>
        \/ /\ grows < MaxGrows /\ grows' = grows + 1
           /\ \/ table' = t /\ UNCHANGED <<size, limit>>
              \/ table' = Rehashed(t, size) /\ size' = 2 * size /\ limit' = Factor * (2 * size)
    BY <1>2 DEF Insert, With
  <2>4. Stored /\ size \in Nat \ {0} /\ LoadBounded /\ Others
    BY DEF Inv, Stored
  <2> HIDE DEF t
  <2>5. /\ t \in [0..(size - 1) -> Seq(Entry)] /\ Placed(t, size)
        /\ IsFiniteSet(Entries(t, size)) /\ Cardinality(Entries(t, size)) = used + 1
    BY <2>1, <2>4, InsertStored DEF t
  <2>6. used \in Nat
    BY <2>4, FS_CardinalityType DEF Stored
  <2>7. Stored' /\ size' \in Nat /\ size <= size'
    <3>1. CASE table' = t /\ size' = size
      BY <2>1, <2>4, <2>5, <3>1 DEF Stored
    <3>2. CASE table' = Rehashed(t, size) /\ size' = 2 * size
      <4>1. /\ Rehashed(t, size) \in [0..(2 * size - 1) -> Seq(Entry)]
            /\ Placed(Rehashed(t, size), 2 * size)
            /\ Entries(Rehashed(t, size), 2 * size) = Entries(t, size)
        BY <2>4, <2>5, RehashedIs
      <4>2. size' \in Nat \ {0} /\ size <= size'
        BY <2>4, <3>2
      <4> QED BY <2>1, <2>5, <3>2, <4>1, <4>2 DEF Stored
    <3> QED BY <2>3, <3>1, <3>2
  <2>8. LoadBounded'
    BY <2>1, <2>3, <2>4, <2>6, InsertLoad DEF Others
  <2>9. Others'
    <3>1. grows' \in 0..MaxGrows
      BY <2>3, <2>4, TableAssumption DEF Others
    <3>2. pos' \in 0..size' /\ node' \in Keys \cup {Absent}
      BY <2>2, <2>4, <2>7 DEF Others, iter
    <3> QED BY <2>1, <3>1, <3>2 DEF Others
  <2>10. Yielded'
    BY <2>2 DEF Yielded, iter, NotWalking
  <2> QED BY <2>7, <2>8, <2>9, <2>10 DEF Inv
<1> QED BY <1>1, <1>2

\* What a table's Stored says of the table a removal leaves.
LEMMA RemoveStored ==
  ASSUME Stored, NEW k \in Keys, k \in KeysOf(Chain(k)),
         NEW u, u = Without(table, size, k)
  PROVE  /\ u \in [0..(size - 1) -> Seq(Entry)]
         /\ Placed(u, size)
         /\ IsFiniteSet(Entries(u, size))
         /\ Cardinality(Entries(u, size)) = used - 1
         /\ Entries(u, size) = {x \in Entries(table, size) : x.key # k}
         /\ used \in Nat \ {0}
<1>1. /\ size \in Nat \ {0} /\ table \in [0..(size - 1) -> Seq(Entry)] /\ Placed(table, size)
      /\ IsFiniteSet(Entries(table, size)) /\ used = Cardinality(Entries(table, size))
      /\ k \in KeysOf(table[Bucket(k, size)])
  BY DEF Stored, Chain
<1>2. /\ u \in [0..(size - 1) -> Seq(Entry)] /\ Placed(u, size)
      /\ Entries(u, size) = {x \in Entries(table, size) : x.key # k}
      /\ \E e \in Entries(table, size) : e.key = k
  BY <1>1, TakeOut
<1>3. PICK e \in Entries(table, size) : e.key = k
  BY <1>2
<1>4. ASSUME NEW x \in Entries(table, size) PROVE x.key = k <=> x = e
  BY <1>1, <1>3, KeyOnce
<1>5. Entries(u, size) = Entries(table, size) \ {e}
  BY <1>2, <1>4
<1>6. /\ IsFiniteSet(Entries(table, size) \ {e})
      /\ Cardinality(Entries(table, size) \ {e}) = Cardinality(Entries(table, size)) - 1
  BY <1>1, <1>3, FS_RemoveElement
<1>7. used \in Nat /\ Cardinality(Entries(table, size) \ {e}) \in Nat
  BY <1>1, <1>6, FS_CardinalityType
<1>8. used # 0
  BY <1>1, <1>6, <1>7
<1> QED BY <1>1, <1>2, <1>5, <1>6, <1>7, <1>8

\* htable_remove.
LEMMA RemoveInv ==
  ASSUME Inv, NEW k \in Keys, RemoveEntry(k)
  PROVE  Inv'
<1>1. CASE k \notin KeysOf(Chain(k))
  BY <1>1, SameInv DEF RemoveEntry, core
<1>2. CASE k \in KeysOf(Chain(k))
  <2> DEFINE u == Without(table, size, k)
  <2>1. table' = u /\ used' = used - 1 /\ result' = "OK"
    BY <1>2 DEF RemoveEntry, Without
  <2>2. UNCHANGED <<size, limit, grows, iter>> /\ walk = NotWalking
    BY DEF RemoveEntry
  <2>3. Stored /\ size \in Nat \ {0} /\ LoadBounded /\ Others
    BY DEF Inv, Stored
  <2> HIDE DEF u
  <2>4. /\ u \in [0..(size - 1) -> Seq(Entry)] /\ Placed(u, size)
        /\ IsFiniteSet(Entries(u, size)) /\ Cardinality(Entries(u, size)) = used - 1
        /\ used \in Nat \ {0}
    BY <1>2, <2>3, RemoveStored DEF u
  <2>5. Stored'
    BY <2>1, <2>2, <2>3, <2>4 DEF Stored
  <2>6. LoadBounded'
    <3>1. PICK n \in 0..grows : size = Sizes[n] /\ (used > limit => n < grows)
      BY <2>3 DEF LoadBounded
    <3>2. limit = Factor * size /\ limit \in Nat
      BY <2>3, TwiceLimit DEF LoadBounded
    <3>3. used' > limit' => used > limit
      BY <2>1, <2>2, <2>4, <3>2
    <3> QED BY <2>2, <3>1, <3>2, <3>3 DEF LoadBounded
  <2>7. Others'
    BY <2>1, <2>2, <2>3 DEF Others, iter
  <2>8. Yielded'
    BY <2>2 DEF Yielded, iter, NotWalking
  <2> QED BY <2>5, <2>6, <2>7, <2>8 DEF Inv
<1> QED BY <1>1, <1>2

-----------------------------------------------------------------------------
(* The iterator. *)

\* The first chains, one after the other, are what all of them begin with.
LEMMA FlatPrefix ==
  ASSUME NEW n \in Nat \ {0}, NEW t \in [0..(n - 1) -> Seq(Entry)],
         NEW a \in 0..n, NEW m \in a..n
  PROVE  /\ Len(FlatOf(t, a)) <= Len(FlatOf(t, m))
         /\ \A j \in 1..Len(FlatOf(t, a)) : FlatOf(t, m)[j] = FlatOf(t, a)[j]
<1> DEFINE P(i) == /\ Len(FlatOf(t, a)) <= Len(FlatOf(t, i))
                   /\ \A j \in 1..Len(FlatOf(t, a)) : FlatOf(t, i)[j] = FlatOf(t, a)[j]
           S == {i \in 0..n : i >= a => P(i)}
<1>1. n \in Nat /\ \A i \in 0..n : FlatOf(t, i) \in Seq(Entry) /\ Len(FlatOf(t, i)) \in Nat
  BY FlatStep
<1>2. P(a)
  BY <1>1
<1>3. 0 \in S
  <2>1. CASE a = 0
    BY <1>1, <1>2, <2>1
  <2>2. CASE a # 0
    BY <1>1, <2>2
  <2> QED BY <2>1, <2>2
<1>4. ASSUME NEW i \in 0..(n - 1), i \in S PROVE i + 1 \in S
  <2>1. i \in 0..n /\ i + 1 \in 0..n
    BY <1>1
  <2>2. CASE i + 1 = a
    <3> HIDE DEF P
    <3> QED BY <1>2, <2>1, <2>2
  <2>3. CASE i + 1 < a
    <3> HIDE DEF P
    <3> QED BY <2>1, <2>3
  <2>4. CASE i >= a
    <3> DEFINE f == FlatOf(t, i)
               g == FlatOf(t, i + 1)
    <3>1. P(i)
      BY <1>4, <2>4
    <3>2. g = f \o t[i] /\ f \in Seq(Entry) /\ t[i] \in Seq(Entry)
      BY <1>1, <2>1, FlatStep
    <3>3. Len(f) <= Len(g) /\ \A j \in 1..Len(f) : g[j] = f[j]
      <4> HIDE DEF f, g
      <4> QED BY <3>2
    <3>4. Len(f) \in Nat /\ Len(g) \in Nat /\ Len(FlatOf(t, a)) \in Nat
      BY <1>1, <2>1
    <3> HIDE DEF f, g
    <3>5. Len(FlatOf(t, a)) <= Len(f) /\ \A j \in 1..Len(FlatOf(t, a)) : f[j] = FlatOf(t, a)[j]
      BY <3>1 DEF f
    <3>6. Len(FlatOf(t, a)) <= Len(g) /\ \A j \in 1..Len(FlatOf(t, a)) : g[j] = FlatOf(t, a)[j]
      BY <3>3, <3>4, <3>5
    <3>7. P(i + 1)
      BY <3>6 DEF g
    <3> HIDE DEF P
    <3> QED BY <2>1, <3>7
  <2> QED BY <2>1, <2>2, <2>3, <2>4
<1>5. \A i \in 0..n : i \in S
  <2> HIDE DEF S
  <2> QED BY <1>1, <1>3, <1>4, Induction
<1> QED BY <1>5

\* Where the i-th entry of bucket b is among all.
LEMMA FlatAt ==
  ASSUME NEW n \in Nat \ {0}, NEW t \in [0..(n - 1) -> Seq(Entry)],
         NEW b \in 0..(n - 1), NEW i \in DOMAIN t[b]
  PROVE  /\ i \in 1..Len(t[b]) /\ t[b][i] \in Entry
         /\ Len(FlatOf(t, b)) \in Nat /\ Len(t[b]) \in Nat
         /\ Len(FlatOf(t, b + 1)) = Len(FlatOf(t, b)) + Len(t[b])
         /\ Len(FlatOf(t, b)) + i <= Len(FlatOf(t, n))
         /\ FlatOf(t, n)[Len(FlatOf(t, b)) + i] = t[b][i]
<1> DEFINE f == FlatOf(t, b)
           g == FlatOf(t, b + 1)
<1>1. n \in Nat /\ b \in 0..n /\ b + 1 \in 0..n /\ n \in (b + 1)..n
  OBVIOUS
<1>2. g = f \o t[b] /\ f \in Seq(Entry) /\ t[b] \in Seq(Entry)
  BY <1>1, FlatStep
<1>3. FlatOf(t, n) \in Seq(Entry) /\ Len(FlatOf(t, n)) \in Nat
  BY <1>1, FlatStep
<1>4. Len(g) <= Len(FlatOf(t, n)) /\ \A j \in 1..Len(g) : FlatOf(t, n)[j] = g[j]
  BY <1>1, FlatPrefix
<1> HIDE DEF f, g
<1>5. /\ Len(g) = Len(f) + Len(t[b]) /\ Len(f) \in Nat /\ Len(t[b]) \in Nat
      /\ i \in 1..Len(t[b]) /\ t[b][i] \in Entry /\ g[Len(f) + i] = t[b][i]
  BY <1>2
<1>6. Len(f) + i \in 1..Len(g)
  BY <1>5
<1>7. FlatOf(t, n)[Len(f) + i] = t[b][i]
  BY <1>4, <1>5, <1>6
<1>8. Len(f) + i <= Len(FlatOf(t, n))
  BY <1>3, <1>4, <1>5
<1> QED BY <1>3, <1>5, <1>7, <1>8 DEF f, g

\* Empty chains add nothing.
LEMMA FlatEmpty ==
  ASSUME NEW n \in Nat \ {0}, NEW t \in [0..(n - 1) -> Seq(Entry)],
         NEW a \in 0..n, NEW b \in a..n, \A c \in a..(b - 1) : t[c] = <<>>
  PROVE  Len(FlatOf(t, b)) = Len(FlatOf(t, a))
<1> DEFINE S == {i \in 0..n : i >= a /\ i <= b => Len(FlatOf(t, i)) = Len(FlatOf(t, a))}
<1>1. n \in Nat /\ a \in Nat /\ b \in Nat /\ b \in 0..n /\ b >= a
  OBVIOUS
<1>2. 0 \in S
  BY <1>1
<1>3. ASSUME NEW i \in 0..(n - 1), i \in S PROVE i + 1 \in S
  <2>1. i \in 0..n /\ i + 1 \in 0..n
    BY <1>1
  <2>2. CASE i + 1 <= a \/ ~(i + 1 <= b)
    BY <1>1, <2>1, <2>2
  <2>3. CASE i >= a /\ i + 1 <= b
    <3>1. i \in a..(b - 1)
      BY <1>1, <2>3
    <3>2. t[i] = <<>>
      BY <3>1
    <3>3. FlatOf(t, i + 1) = FlatOf(t, i) \o t[i] /\ FlatOf(t, i) \in Seq(Entry)
      BY <1>1, <2>1, FlatStep
    <3>4. Len(FlatOf(t, i + 1)) = Len(FlatOf(t, i))
      BY <3>2, <3>3
    <3>5. Len(FlatOf(t, i)) = Len(FlatOf(t, a))
      BY <1>1, <1>3, <2>3
    <3> QED BY <2>1, <3>4, <3>5
  <2> QED BY <1>1, <2>1, <2>2, <2>3
<1>4. \A i \in 0..n : i \in S
  <2> HIDE DEF S
  <2> QED BY <1>1, <1>2, <1>3, Induction
<1> QED BY <1>1, <1>4

\* There is a bucket with entries at or after any, or the end.
LEMMA NextBucketIs ==
  ASSUME Stored, NEW a \in 0..size
  PROVE  /\ NextBucket(a) \in a..size
         /\ \A c \in a..(NextBucket(a) - 1) : table[c] = <<>>
         /\ NextBucket(a) < size => table[NextBucket(a)] # <<>>
<1> DEFINE L == {b \in a..size : b < size => table[b] # <<>>}
<1>1. size \in Nat /\ size \in L /\ L \subseteq Nat
  BY DEF Stored
<1>2. PICK b \in L : \A i \in L : b <= i
  <2> HIDE DEF L
  <2> QED BY <1>1, Least
<1>3. ASSUME NEW c \in a..(b - 1) PROVE table[c] = <<>>
  <2>1. c \in a..size /\ ~(b <= c) /\ c < size
    BY <1>1
  <2> QED BY <1>2, <2>1
<1>4. \E x \in a..size : /\ \A c \in a..(x - 1) : table[c] = <<>>
                         /\ x < size => table[x] # <<>>
  BY <1>3
<1> QED BY <1>4 DEF NextBucket

\* What the iterator has yielded when it yields the i-th entry of bucket b.
LEMMA YieldOne ==
  ASSUME Stored, NEW b \in 0..(size - 1), NEW i \in DOMAIN table[b],
         walk \in Seq(Keys), Len(walk) + 1 = Len(FlatOf(table, b)) + i,
         \A j \in 1..Len(walk) : walk[j] = FlatOf(table, size)[j].key,
         NEW w, w = Append(walk, table[b][i].key)
  PROVE  /\ w \in Seq(Keys) /\ Len(w) = Len(FlatOf(table, b)) + i
         /\ \A j \in 1..Len(w) : w[j] = FlatOf(table, size)[j].key
<1>1. size \in Nat \ {0} /\ table \in [0..(size - 1) -> Seq(Entry)]
  BY DEF Stored
<1>2. /\ table[b][i] \in Entry
      /\ FlatOf(table, size)[Len(FlatOf(table, b)) + i] = table[b][i]
  BY <1>1, FlatAt, ZenonT(30)
<1>3. table[b][i].key \in Keys
  BY <1>2, EntryIs
<1>4. /\ w \in Seq(Keys) /\ Len(w) = Len(walk) + 1 /\ Len(walk) \in Nat
      /\ w[Len(walk) + 1] = table[b][i].key
      /\ \A j \in 1..Len(walk) : w[j] = walk[j]
  BY <1>3
<1>5. ASSUME NEW j \in 1..Len(w) PROVE w[j] = FlatOf(table, size)[j].key
  <2>1. CASE j = Len(walk) + 1
    BY <1>2, <1>4, <2>1
  <2>2. CASE j # Len(walk) + 1
    <3>1. j \in 1..Len(walk)
      BY <1>4, <2>2
    <3> QED BY <1>4, <3>1
  <2> QED BY <2>1, <2>2
<1> QED BY <1>4, <1>5

\* NextInChain from the i-th entry of a chain.
LEMMA NextInChainIs ==
  ASSUME Stored, NEW b \in 0..(size - 1), NEW i \in DOMAIN table[b]
  PROVE  LET k == table[b][i].key
         IN  /\ k \in Keys /\ k # Absent
             /\ i < Len(table[b]) => /\ NextInChain(k) = table[b][i + 1].key
                                     /\ i + 1 \in DOMAIN table[b]
                                     /\ NextInChain(k) # Absent
             /\ ~(i < Len(table[b])) => NextInChain(k) = Absent /\ i = Len(table[b])
<1> DEFINE k == table[b][i].key
           c == table[b]
<1>1. /\ size \in Nat \ {0} /\ table \in [0..(size - 1) -> Seq(Entry)]
      /\ Distinct(c) /\ \A e \in Ents(c) : Bucket(e.key, size) = b
  BY DEF Stored, Placed
<1>2. c \in Seq(Entry) /\ DOMAIN c = 1..Len(c) /\ Len(c) \in Nat /\ i \in 1..Len(c)
  BY <1>1
<1>3. \A j \in DOMAIN c : c[j] \in Entry /\ c[j].key \in Keys /\ c[j].key # Absent
  BY <1>2, EntryIs, TableAssumption
<1>4. c[i] \in Ents(c) /\ k \in KeysOf(c)
  BY DEF Ents, KeysOf
<1>5. Chain(k) = c
  BY <1>1, <1>4 DEF Chain
<1>6. Position(c, k) = i
  <2>1. Position(c, k) \in DOMAIN c /\ c[Position(c, k)].key = k
    BY <1>1, <1>2, <1>4, PositionIs
  <2> QED BY <1>1, <2>1 DEF Distinct
<1>7. NextInChain(k) = IF i < Len(c) THEN c[i + 1].key ELSE Absent
  BY <1>5, <1>6 DEF NextInChain
<1>8. i < Len(c) => i + 1 \in DOMAIN c
  BY <1>2
<1> HIDE DEF c
<1> QED BY <1>2, <1>3, <1>7, <1>8 DEF c

\* htable_get_next_elm: from an entry to the next of its chain, to the first of the
\* next bucket that has one, or to the end.
LEMMA IterNextInv ==
  ASSUME Inv, IterNext
  PROVE  Inv'
<1>1. /\ table' = table /\ size' = size /\ used' = used /\ limit' = limit /\ grows' = grows
      /\ result' = result /\ walk # NotWalking
  BY DEF IterNext, core
<1>2. Stored /\ LoadBounded /\ Others /\ Yielded
  BY DEF Inv
<1>3. size \in Nat \ {0} /\ table \in [0..(size - 1) -> Seq(Entry)]
  BY <1>2 DEF Stored
<1>4. Stored' /\ LoadBounded'
  BY <1>1, <1>2 DEF Stored, LoadBounded
<1>5. SUFFICES Others' /\ Yielded'
  BY <1>4 DEF Inv
<1>6. ASSUME node' = Absent, pos' \in 0..size PROVE Others' /\ Yielded'
  <2>1. walk' = NotWalking
    BY <1>6 DEF IterNext
  <2> QED BY <1>1, <1>2, <1>6, <2>1 DEF Others, Yielded
<1>7. ASSUME NEW b \in 0..(size - 1), NEW i \in DOMAIN table[b],
             node' = table[b][i].key, pos' = b + 1, b + 1 = size => i = 1,
             walk \in Seq(Keys), Len(walk) + 1 = Len(FlatOf(table, b)) + i,
             \A j \in 1..Len(walk) : walk[j] = FlatOf(table, size)[j].key
      PROVE  Others' /\ Yielded'
  <2>1. node' \in Keys /\ node' # Absent
    BY <1>2, <1>7, NextInChainIs
  <2>2. walk' = Append(walk, table[b][i].key)
    BY <1>7, <2>1 DEF IterNext
  <2>3. /\ walk' \in Seq(Keys) /\ Len(walk') = Len(FlatOf(table, b)) + i
        /\ \A j \in 1..Len(walk') : walk'[j] = FlatOf(table, size)[j].key
    BY <1>2, <1>7, <2>2, YieldOne
  <2>4. pos' \in 1..size /\ pos' - 1 = b /\ pos' \in 0..size
    BY <1>3, <1>7
  <2>5. Others'
    BY <1>1, <1>2, <2>1, <2>4 DEF Others
  <2>6. \E x \in DOMAIN table'[pos' - 1] :
          /\ node' = table'[pos' - 1][x].key
          /\ Len(walk') = Len(FlatOf(table', pos' - 1)) + x
          /\ pos' = size' => x = 1
    BY <1>1, <1>7, <2>3, <2>4
  <2> QED BY <1>1, <2>3, <2>4, <2>5, <2>6 DEF Yielded
<1>8. ASSUME pos \in 0..(size - 1), walk \in Seq(Keys), Len(walk) = Len(FlatOf(table, pos)),
             \A j \in 1..Len(walk) : walk[j] = FlatOf(table, size)[j].key,
             pos = 0 \/ node = Absent \/ NextInChain(node) = Absent
      PROVE  Others' /\ Yielded'
  <2> DEFINE b == NextBucket(pos)
  <2>1. ~(pos > size - 1) /\ pos \in 0..size
    BY <1>3, <1>8
  <2>2. IF b < size THEN node' = table[b][1].key /\ pos' = b + 1
                    ELSE node' = Absent /\ pos' = size
    BY <1>8, <2>1 DEF IterNext
  <2>3. b \in pos..size /\ (\A c \in pos..(b - 1) : table[c] = <<>>) /\ (b < size => table[b] # <<>>)
    BY <1>2, <2>1, NextBucketIs
  <2> HIDE DEF b
  <2>4. CASE b < size
    <3>1. b \in 0..(size - 1)
      BY <1>3, <1>8, <2>3, <2>4
    <3>2. table[b] \in Seq(Entry) /\ table[b] # <<>>
      BY <1>3, <2>3, <2>4, <3>1
    <3>3. 1 \in DOMAIN table[b]
      BY <3>2
    <3>4. Len(FlatOf(table, b)) = Len(FlatOf(table, pos))
      BY <1>3, <2>1, <2>3, FlatEmpty, ZenonT(30)
    <3>5. Len(walk) + 1 = Len(FlatOf(table, b)) + 1
      BY <1>8, <3>4
    <3> QED BY <1>7, <1>8, <2>2, <2>4, <3>1, <3>3, <3>5
  <2>5. CASE ~(b < size)
    BY <1>3, <1>6, <2>2, <2>5
  <2> QED BY <2>4, <2>5
<1>9. CASE pos > size - 1
  <2>1. node' = Absent /\ pos' = pos
    BY <1>9 DEF IterNext
  <2> QED BY <1>2, <1>6, <2>1 DEF Others
<1>10. CASE ~(pos > size - 1) /\ walk = <<>> /\ pos = 0
  <2>1. walk \in Seq(Keys) /\ Len(walk) = 0 /\ \A j \in 1..Len(walk) : FALSE
    BY <1>10
  <2>2. Len(FlatOf(table, 0)) = 0 /\ pos \in 0..(size - 1)
    BY <1>3, <1>10, FlatStep
  <2> QED BY <1>8, <1>10, <2>1, <2>2
<1>11. CASE ~(pos > size - 1) /\ ~(walk = <<>> /\ pos = 0)
  <2>1. /\ pos \in 1..size /\ walk \in Seq(Keys)
        /\ \A j \in 1..Len(walk) : walk[j] = FlatOf(table, size)[j].key
    BY <1>1, <1>2, <1>11 DEF Yielded
  <2>2. PICK i \in DOMAIN table[pos - 1] :
               node = table[pos - 1][i].key /\ Len(walk) = Len(FlatOf(table, pos - 1)) + i
    BY <1>1, <1>2, <1>11 DEF Yielded
  <2>3. pos - 1 \in 0..(size - 1) /\ pos \in 0..(size - 1) /\ (pos - 1) + 1 = pos /\ pos # size
    BY <1>3, <1>11, <2>1
  <2>4. /\ node \in Keys /\ node # Absent
        /\ i < Len(table[pos - 1]) => /\ NextInChain(node) = table[pos - 1][i + 1].key
                                      /\ i + 1 \in DOMAIN table[pos - 1]
                                      /\ NextInChain(node) # Absent
        /\ ~(i < Len(table[pos - 1])) => NextInChain(node) = Absent /\ i = Len(table[pos - 1])
    BY <1>2, <2>2, <2>3, NextInChainIs
  <2>5. /\ Len(FlatOf(table, pos)) = Len(FlatOf(table, pos - 1)) + Len(table[pos - 1])
        /\ Len(FlatOf(table, pos - 1)) \in Nat /\ i \in Nat
    <3> DEFINE b == pos - 1
    <3>1. b \in 0..(size - 1) /\ i \in DOMAIN table[b] /\ b + 1 = pos
      BY <2>3
    <3> HIDE DEF b
    <3>2. /\ i \in 1..Len(table[b]) /\ Len(table[b]) \in Nat
          /\ Len(FlatOf(table, b)) \in Nat
          /\ Len(FlatOf(table, b + 1)) = Len(FlatOf(table, b)) + Len(table[b])
      BY <1>3, <3>1, FlatAt
    <3>3. i \in Nat /\ Len(FlatOf(table, pos)) = Len(FlatOf(table, b)) + Len(table[b])
      BY <3>1, <3>2
    <3> QED BY <3>2, <3>3, Zenon DEF b
  <2>6. CASE i < Len(table[pos - 1])
    <3>1. node' = NextInChain(node) /\ pos' = pos
      BY <1>11, <2>1, <2>4, <2>6 DEF IterNext
    <3>2. Len(walk) + 1 = Len(FlatOf(table, pos - 1)) + (i + 1)
      BY <2>2, <2>5
    <3> DEFINE b == pos - 1
               x == i + 1
    <3>3. /\ b \in 0..(size - 1) /\ x \in DOMAIN table[b] /\ node' = table[b][x].key
          /\ pos' = b + 1 /\ (b + 1 = size => x = 1) /\ Len(walk) + 1 = Len(FlatOf(table, b)) + x
      BY <2>3, <2>4, <2>6, <3>1, <3>2
    <3> HIDE DEF b, x
    <3> QED BY <1>7, <2>1, <3>3
  <2>7. CASE ~(i < Len(table[pos - 1]))
    BY <1>8, <2>1, <2>2, <2>3, <2>4, <2>5, <2>7
  <2> QED BY <2>6, <2>7
<1> QED BY <1>9, <1>10, <1>11

\* htable_iterator_init.
LEMMA IterInitInv ==
  ASSUME Inv, IterInit
  PROVE  Inv'
<1>1. /\ table' = table /\ size' = size /\ used' = used /\ limit' = limit /\ grows' = grows
      /\ result' = result /\ walk' = <<>> /\ pos' = 0 /\ node' = Absent
  BY DEF IterInit, core
<1>2. Stored /\ LoadBounded /\ Others /\ size \in Nat
  BY DEF Inv, Stored
<1> QED BY <1>1, <1>2 DEF Inv, Stored, LoadBounded, Others, Yielded

\* Every step keeps the invariant.
LEMMA NextInv == Inv /\ [Next]_vars => Inv'
<1> SUFFICES ASSUME Inv, [Next]_vars PROVE Inv'
  OBVIOUS
<1>1. ASSUME NEW k \in Keys, NEW d \in Data, Insert(k, d) PROVE Inv'
  BY <1>1, InsertInv
<1>2. ASSUME NEW k \in Keys, RemoveEntry(k) PROVE Inv'
  BY <1>2, RemoveInv
<1>3. CASE UNCHANGED vars
  <2>1. UNCHANGED <<core, iter>> /\ result' = result
    BY <1>3 DEF vars, core, iter
  <2>2. result' \in {"OK", "EXISTS", "NOMEM", "NOTFOUND"}
    BY <2>1 DEF Inv, Others
  <2> QED BY <2>1, <2>2, SameInv
<1> QED BY <1>1, <1>2, <1>3, IterInitInv, IterNextInv DEF Next

\* The entries are where searches look for them, once each and counted, the load
\* passes the limit only where memory gave out, and the iterator has yielded what
\* comes before its position (htable.c:117-180, 258-300).
THEOREM TableInv == Spec => []Inv
<1>1. Init => Inv
  BY InitInv
<1>2. Inv /\ [Next]_vars => Inv'
  BY NextInv
<1> QED BY <1>1, <1>2, PTL DEF Spec

\* The invariant says the table is whole.
LEMMA InvTableOK == Inv => TableOK
<1> SUFFICES ASSUME Inv PROVE TableOK
  OBVIOUS
<1>1. /\ size \in Nat \ {0} /\ table \in [0..(size - 1) -> Seq(Entry)] /\ Placed(table, size)
      /\ IsFiniteSet(Entries(table, size)) /\ used = Cardinality(Entries(table, size))
  BY DEF Inv, Stored
<1>2. DOMAIN table = 0..(size - 1)
  BY <1>1
<1>3. TypeOK
  <2>1. used \in Nat
    BY <1>1, FS_CardinalityType
  <2>2. limit \in Nat
    BY <1>1, TwiceLimit DEF Inv, LoadBounded
  <2>3. \A b \in 0..(size - 1) : \A i \in DOMAIN table[b] : table[b][i] \in Entry
    BY <1>1
  <2>4. \A b \in DOMAIN table : \A i \in DOMAIN table[b] : table[b][i] \in [key : Keys, data : Data]
    BY <1>2, <2>3 DEF Entry
  <2> QED BY <1>1, <1>2, <2>1, <2>2, <2>4 DEF Inv, Others, TypeOK
<1>4. used = Len(Flat(size))
  BY <1>1, FlatLen DEF FlatOf, Flat
<1>5. ASSUME NEW b \in DOMAIN table
      PROVE  /\ \A i \in DOMAIN table[b] : Bucket(table[b][i].key, size) = b
             /\ IsInjective([i \in DOMAIN table[b] |-> table[b][i].key])
  <2>1. Distinct(table[b]) /\ \A e \in Ents(table[b]) : Bucket(e.key, size) = b
    BY <1>1, <1>2 DEF Placed
  <2>2. \A i \in DOMAIN table[b] : Bucket(table[b][i].key, size) = b
    BY <2>1 DEF Ents
  <2>3. IsInjective([i \in DOMAIN table[b] |-> table[b][i].key])
    BY <2>1 DEF Distinct, IsInjective
  <2> QED BY <2>2, <2>3
<1> QED BY <1>3, <1>4, <1>5 DEF Inv, TableOK, WellPlaced

\* What has been yielded is in table order, and not past the first entry of the
\* last bucket's chain.
WalkInOrder ==
  walk # NotWalking =>
    /\ IsPrefix(walk, [i \in 1..Len(Flat(size)) |-> Flat(size)[i].key])
    /\ Len(walk) <= Len(Flat(size - 1)) + 1

\* The invariant says the iteration is in order.
LEMMA InvIteration == Inv => WalkInOrder
<1> SUFFICES ASSUME Inv, walk # NotWalking PROVE WalkInOrder
  BY DEF WalkInOrder
<1> DEFINE all == FlatOf(table, size)
           ks == [i \in 1..Len(all) |-> all[i].key]
<1>1. /\ size \in Nat \ {0} /\ table \in [0..(size - 1) -> Seq(Entry)]
      /\ size - 1 \in 0..size /\ size \in 0..size /\ size - 1 \in 0..(size - 1)
  BY DEF Inv, Stored
<1>2. all \in Seq(Entry) /\ Len(all) \in Nat /\ Len(FlatOf(table, size - 1)) \in Nat
  BY <1>1, FlatStep
<1>3. all = Flat(size) /\ FlatOf(table, size - 1) = Flat(size - 1)
  BY DEF FlatOf, Flat
<1> HIDE DEF all
<1>4. ks \in Seq(Keys) /\ Len(ks) = Len(all) /\ \A i \in 1..Len(all) : ks[i] = all[i].key
  <2>1. \A i \in 1..Len(all) : all[i].key \in Keys
    BY <1>2, EntryIs
  <2>2. ks \in [1..Len(all) -> Keys]
    BY <2>1
  <2> QED BY <1>2, <2>2
<1>5. /\ walk \in Seq(Keys) /\ Len(walk) <= Len(all) /\ Len(walk) <= Len(FlatOf(table, size - 1)) + 1
      /\ \A j \in 1..Len(walk) : walk[j] = all[j].key
  <2>1. CASE walk = <<>>
    BY <1>2, <2>1
  <2>2. CASE walk # <<>>
    <3>1. /\ pos \in 1..size /\ walk \in Seq(Keys)
          /\ \A j \in 1..Len(walk) : walk[j] = all[j].key
      BY <2>2 DEF Inv, Yielded, all
    <3>2. PICK i \in DOMAIN table[pos - 1] :
                 /\ Len(walk) = Len(FlatOf(table, pos - 1)) + i
                 /\ pos = size => i = 1
      BY <2>2 DEF Inv, Yielded
    <3>3. pos - 1 \in 0..(size - 1) /\ (pos - 1) + 1 = pos
      BY <1>1, <3>1
    <3>4. /\ Len(FlatOf(table, pos - 1)) + i <= Len(all) /\ i \in 1..Len(table[pos - 1])
          /\ Len(FlatOf(table, pos)) = Len(FlatOf(table, pos - 1)) + Len(table[pos - 1])
          /\ Len(FlatOf(table, pos - 1)) \in Nat /\ Len(table[pos - 1]) \in Nat
      BY <1>1, <3>3, FlatAt, ZenonT(30) DEF all
    <3>5. CASE pos = size
      BY <1>2, <3>1, <3>2, <3>4, <3>5
    <3>6. CASE pos # size
      <4>1. pos \in 0..size /\ size - 1 \in pos..size
        BY <1>1, <3>1, <3>6
      <4>2. Len(FlatOf(table, pos)) <= Len(FlatOf(table, size - 1))
        BY <1>1, <4>1, FlatPrefix
      <4>3. i \in Nat /\ i <= Len(table[pos - 1])
        BY <3>4
      <4>4. Len(walk) <= Len(FlatOf(table, size - 1))
        <5> DEFINE a == Len(FlatOf(table, pos - 1))
                   c == Len(table[pos - 1])
                   p == Len(FlatOf(table, pos))
        <5>1. Len(walk) = a + i /\ p = a + c /\ a \in Nat /\ c \in Nat /\ i \in Nat /\ i <= c
          BY <3>2, <3>4, <4>3, Zenon
        <5>2. p <= Len(FlatOf(table, size - 1))
          BY <4>2
        <5> HIDE DEF a, c, p
        <5> QED BY <1>2, <5>1, <5>2
      <4>5. Len(walk) \in Nat
        BY <3>1
      <4>6. Len(walk) <= Len(FlatOf(table, size - 1)) + 1
        BY <1>2, <4>4, <4>5
      <4>7. Len(walk) <= Len(all)
        BY <3>2, <3>4
      <4> QED BY <3>1, <4>6, <4>7
    <3> QED BY <3>5, <3>6
  <2> QED BY <2>1, <2>2
<1> HIDE DEF ks
<1>6. IsPrefix(walk, ks)
  <2>1. \A j \in 1..Len(walk) : walk[j] = ks[j]
    BY <1>2, <1>4, <1>5
  <2>2. Len(walk) <= Len(ks) /\ Len(walk) \in Nat
    BY <1>4, <1>5
  <2>3. SubSeq(walk, 1, Len(walk)) = SubSeq(ks, 1, Len(walk))
    BY <1>4, <1>5, <2>1, <2>2
  <2> QED BY <2>2, <2>3 DEF IsPrefix
<1>7. ks = [i \in 1..Len(Flat(size)) |-> Flat(size)[i].key]
  BY <1>3 DEF ks
<1> QED BY <1>3, <1>5, <1>6, <1>7 DEF WalkInOrder

\* Between any two calls the table is whole: every entry in the bucket of its
\* key, no key twice, ht_used and ht_limit exact (htable.c:117-180).
THEOREM TableWhole == Spec => []TableOK
BY TableInv, InvTableOK, PTL

\* Yields by its length and elements.
LEMMA YieldsIs ==
  ASSUME Inv
  PROVE  /\ Len(Flat(size - 1)) \in Nat /\ Len(Flat(size)) \in Nat
         /\ Flat(size) \in Seq(Entry)
         /\ table[size - 1] = <<>> => /\ Len(Flat(size)) = Len(Flat(size - 1))
                                      /\ Len(Yields) = Len(Flat(size - 1))
         /\ table[size - 1] # <<>> => /\ Len(Flat(size)) > Len(Flat(size - 1))
                                      /\ Len(Yields) = Len(Flat(size - 1)) + 1
         /\ Yields \in Seq(Keys)
         /\ \A i \in 1..Len(Yields) : Yields[i] = Flat(size)[i].key
<1> DEFINE all == Flat(size)
           front == Flat(size - 1)
           last == table[size - 1]
           seen == Len(front) + IF last = <<>> THEN 0 ELSE 1
<1>1. /\ size \in Nat \ {0} /\ table \in [0..(size - 1) -> Seq(Entry)]
      /\ size - 1 \in 0..(size - 1) /\ size - 1 \in 0..size /\ size \in 0..size
      /\ (size - 1) + 1 = size
  BY DEF Inv, Stored
<1>2. /\ all \in Seq(Entry) /\ front \in Seq(Entry) /\ last \in Seq(Entry)
      /\ all = front \o last
  <2>1. size \in Nat
    BY <1>1
  <2>2. /\ \A m \in 0..size : FlatOf(table, m) \in Seq(Entry)
        /\ \A m \in 0..(size - 1) : FlatOf(table, m + 1) = FlatOf(table, m) \o table[m]
    BY <1>1, <2>1, FlatStep
  <2>3. FlatOf(table, (size - 1) + 1) = FlatOf(table, size - 1) \o table[size - 1]
    BY <1>1, <2>2
  <2> QED BY <1>1, <2>2, <2>3 DEF FlatOf, Flat
<1>3. Yields = [i \in 1..seen |-> all[i].key]
  BY DEF Yields
<1> HIDE DEF all, front, last
<1>4. /\ Len(all) = Len(front) + Len(last) /\ Len(front) \in Nat /\ Len(last) \in Nat
      /\ last = <<>> => Len(last) = 0
      /\ last # <<>> => Len(last) > 0
  BY <1>2
<1>5. seen \in Nat /\ seen <= Len(all)
  BY <1>4
<1>6. \A i \in 1..seen : all[i].key \in Keys
  BY <1>2, <1>5, EntryIs
<1> HIDE DEF seen
<1>7. /\ Yields \in Seq(Keys) /\ Len(Yields) = seen
      /\ \A i \in 1..Len(Yields) : Yields[i] = all[i].key
  <2>1. Yields \in [1..seen -> Keys]
    BY <1>3, <1>6
  <2>2. Yields \in Seq(Keys) /\ Len(Yields) = seen
    BY <1>5, <2>1
  <2> QED BY <1>3, <2>2
<1>8. /\ last = <<>> => Len(all) = Len(front) /\ seen = Len(front)
      /\ last # <<>> => Len(all) > Len(front) /\ seen = Len(front) + 1
  BY <1>4 DEF seen
<1>9. /\ last = <<>> => Len(all) = Len(front) /\ Len(Yields) = Len(front)
      /\ last # <<>> => Len(all) > Len(front) /\ Len(Yields) = Len(front) + 1
  BY <1>7, <1>8
<1>10. Len(all) \in Nat /\ Len(front) \in Nat
  BY <1>4
<1> QED BY <1>2, <1>7, <1>9, <1>10, Zenon DEF all, front, last

\* When the iterator returns NULL, the position is past the last bucket and the
\* first entry of that one was the last yielded, or no bucket after the last entry
\* yielded has any.
LEMMA YieldedAll ==
  ASSUME Inv, IterNext, walk' = NotWalking
  PROVE  Len(walk) = Len(Yields)
<1>1. /\ walk # NotWalking /\ Stored /\ Others /\ Yielded
      /\ size \in Nat \ {0} /\ table \in [0..(size - 1) -> Seq(Entry)]
      /\ pos \in 0..size /\ size - 1 \in 0..(size - 1) /\ (size - 1) + 1 = size
  BY DEF IterNext, Inv, Stored, Others
<1>2. node' = Absent
  <2>1. CASE walk = <<>>
    <3>1. Append(walk, node') # NotWalking \/ node' = Absent
      BY <2>1 DEF NotWalking
    <3> QED BY <3>1 DEF IterNext
  <2>2. CASE walk # <<>>
    <3>1. walk \in Seq(Keys)
      BY <1>1, <2>2 DEF Yielded
    <3>2. Len(Append(walk, node')) = Len(walk) + 1 /\ Len(walk) \in Nat \ {0}
      BY <2>2, <3>1
    <3>3. Len(NotWalking) = 1
      BY DEF NotWalking
    <3>4. Append(walk, node') # NotWalking
      BY <3>2, <3>3
    <3> QED BY <3>4 DEF IterNext
  <2> QED BY <2>1, <2>2
<1>3. \A k \in Keys : k # Absent
  BY TableAssumption
<1>4. ASSUME pos \in 0..(size - 1), Len(walk) = Len(FlatOf(table, pos)),
             pos = 0 \/ node = Absent \/ NextInChain(node) = Absent
      PROVE  Len(walk) = Len(Yields)
  <2> DEFINE b == NextBucket(pos)
  <2>1. ~(pos > size - 1)
    BY <1>1, <1>4
  <2>2. IF b < size THEN node' = table[b][1].key ELSE node' = Absent
    BY <1>4, <2>1 DEF IterNext
  <2>3. b \in pos..size /\ (\A c \in pos..(b - 1) : table[c] = <<>>) /\ (b < size => table[b] # <<>>)
    BY <1>1, NextBucketIs
  <2> HIDE DEF b
  <2>4. ~(b < size)
    <3> SUFFICES ASSUME b < size PROVE FALSE
      OBVIOUS
    <3>1. b \in 0..(size - 1) /\ table[b] \in Seq(Entry) /\ table[b] # <<>>
      BY <1>1, <1>4, <2>3
    <3>2. table[b][1] \in Entry
      BY <3>1
    <3>3. table[b][1].key \in Keys
      BY <3>2, EntryIs
    <3> QED BY <1>2, <1>3, <2>2, <3>3
  <2>5. b = size
    BY <1>1, <2>3, <2>4
  <2>6. table[size - 1] = <<>>
    <3>1. size - 1 \in pos..(b - 1)
      BY <1>1, <1>4, <2>5
    <3> QED BY <2>3, <3>1
  <2>7. Len(FlatOf(table, size)) = Len(FlatOf(table, pos))
    <3>1. pos \in 0..size /\ size \in pos..size
      BY <1>1
    <3> QED BY <1>1, <2>3, <2>5, <3>1, FlatEmpty, ZenonT(30)
  <2>8. Len(Flat(size)) = Len(Yields)
    BY <2>6, YieldsIs
  <2> QED BY <1>4, <2>7, <2>8 DEF FlatOf, Flat
<1>5. CASE walk = <<>>
  <2>1. pos = 0
    <3>1. walk = <<>> /\ pos \in 1..size =>
            ~ \E i \in DOMAIN table[pos - 1] : Len(walk) = Len(FlatOf(table, pos - 1)) + i
      <4> SUFFICES ASSUME walk = <<>>, pos \in 1..size, NEW i \in DOMAIN table[pos - 1],
                          Len(walk) = Len(FlatOf(table, pos - 1)) + i
                   PROVE  FALSE
        OBVIOUS
      <4>1. pos - 1 \in 0..(size - 1)
        BY <1>1
      <4>2. i \in 1..Len(table[pos - 1]) /\ Len(FlatOf(table, pos - 1)) \in Nat
        BY <1>1, <4>1, FlatAt
      <4>3. Len(walk) = 0
        BY <1>5
      <4> QED BY <1>1, <4>1, <4>2, <4>3
    <3> QED BY <1>1, <1>5, <3>1 DEF Yielded
  <2>2. Len(walk) = Len(FlatOf(table, pos)) /\ pos \in 0..(size - 1)
    <3>1. FlatOf(table, 0) = <<>>
      BY <1>1, FlatStep
    <3> QED BY <1>1, <1>5, <2>1, <3>1
  <2> QED BY <1>4, <2>1, <2>2
<1>6. CASE walk # <<>>
  <2>1. pos \in 1..size
    BY <1>1, <1>6 DEF Yielded
  <2>2. PICK i \in DOMAIN table[pos - 1] :
               /\ node = table[pos - 1][i].key
               /\ Len(walk) = Len(FlatOf(table, pos - 1)) + i
               /\ pos = size => i = 1
    BY <1>1, <1>6 DEF Yielded
  <2> DEFINE b == pos - 1
  <2>3. b \in 0..(size - 1) /\ b + 1 = pos
    BY <1>1, <2>1
  <2>4. i \in DOMAIN table[b] /\ node = table[b][i].key /\ Len(walk) = Len(FlatOf(table, b)) + i
    BY <2>2
  <2> HIDE DEF b
  <2>5. /\ i \in 1..Len(table[b]) /\ Len(FlatOf(table, b)) \in Nat /\ Len(table[b]) \in Nat
        /\ Len(FlatOf(table, b + 1)) = Len(FlatOf(table, b)) + Len(table[b])
    BY <1>1, <2>3, <2>4, FlatAt
  <2>6. /\ node \in Keys /\ node # Absent
        /\ i < Len(table[b]) => NextInChain(node) # Absent
        /\ ~(i < Len(table[b])) => NextInChain(node) = Absent /\ i = Len(table[b])
    BY <1>1, <2>3, <2>4, NextInChainIs
  <2>7. CASE pos = size
    <3>1. b = size - 1 /\ i = 1
      BY <1>1, <2>2, <2>3, <2>7
    <3>2. table[size - 1] # <<>>
      BY <2>5, <3>1
    <3>3. Len(Yields) = Len(Flat(size - 1)) + 1
      BY <3>2, YieldsIs
    <3> QED BY <2>4, <3>1, <3>3 DEF FlatOf, Flat
  <2>8. CASE pos # size
    <3>1. pos \in 0..(size - 1) /\ ~(pos > size - 1) /\ pos # 0
      BY <1>1, <2>1, <2>8
    <3>2. ~(i < Len(table[b]))
      <4> SUFFICES ASSUME i < Len(table[b]) PROVE FALSE
        OBVIOUS
      <4>1. node' = NextInChain(node)
        BY <2>6, <3>1 DEF IterNext
      <4> QED BY <1>2, <2>6, <4>1
    <3>3. NextInChain(node) = Absent /\ i = Len(table[b])
      BY <2>6, <3>2
    <3>4. Len(walk) = Len(FlatOf(table, pos))
      BY <2>3, <2>4, <2>5, <3>3
    <3> QED BY <1>4, <3>1, <3>3, <3>4
  <2> QED BY <2>7, <2>8
<1> QED BY <1>5, <1>6

\* What is yielded, one more each call, is the first of Yields.
PrefixYielded ==
  walk # NotWalking =>
    /\ walk \in Seq(Keys) /\ Len(walk) <= Len(Yields)
    /\ \A j \in 1..Len(walk) : walk[j] = Yields[j]

LEMMA YieldedPrefix == Inv => PrefixYielded
<1> SUFFICES ASSUME Inv, walk # NotWalking
             PROVE  /\ walk \in Seq(Keys) /\ Len(walk) <= Len(Yields)
                    /\ \A j \in 1..Len(walk) : walk[j] = Yields[j]
  BY DEF PrefixYielded
<1> DEFINE all == Flat(size)
           ks == [i \in 1..Len(all) |-> all[i].key]
<1>1. WalkInOrder /\ walk \in Seq(Keys) /\ Len(walk) \in Nat
  <2>1. CASE walk = <<>>
    BY <2>1, InvIteration
  <2>2. CASE walk # <<>>
    <3>1. Yielded
      BY DEF Inv
    <3>2. walk \in Seq(Keys)
      BY <2>2, <3>1 DEF Yielded
    <3> QED BY <3>2, InvIteration
  <2> QED BY <2>1, <2>2
<1>2. IsPrefix(walk, ks) /\ Len(walk) <= Len(Flat(size - 1)) + 1
  BY <1>1 DEF WalkInOrder
<1>3. /\ Len(Flat(size - 1)) \in Nat /\ Len(all) \in Nat /\ all \in Seq(Entry)
      /\ table[size - 1] = <<>> => Len(all) = Len(Flat(size - 1)) /\ Len(Yields) = Len(Flat(size - 1))
      /\ table[size - 1] # <<>> => Len(Yields) = Len(Flat(size - 1)) + 1
      /\ \A i \in 1..Len(Yields) : Yields[i] = all[i].key
  BY YieldsIs
<1> HIDE DEF all
<1>4. ks \in Seq(Keys) /\ Len(ks) = Len(all) /\ \A i \in 1..Len(all) : ks[i] = all[i].key
  <2>1. \A i \in 1..Len(all) : all[i].key \in Keys
    BY <1>3, EntryIs
  <2>2. ks \in [1..Len(all) -> Keys]
    BY <2>1
  <2> QED BY <1>3, <2>2
<1> HIDE DEF ks
<1>5. Len(walk) <= Len(ks) /\ SubSeq(walk, 1, Len(walk)) = SubSeq(ks, 1, Len(walk))
  BY <1>2 DEF IsPrefix
<1>6. \A j \in 1..Len(walk) : walk[j] = ks[j]
  <2> SUFFICES ASSUME NEW j \in 1..Len(walk) PROVE walk[j] = ks[j]
    OBVIOUS
  <2>1. SubSeq(walk, 1, Len(walk))[j] = walk[j]
    BY <1>1
  <2>2. SubSeq(ks, 1, Len(walk))[j] = ks[j]
    BY <1>1, <1>4, <1>5
  <2> QED BY <1>5, <2>1, <2>2
<1>7. Len(walk) <= Len(Yields)
  BY <1>1, <1>2, <1>3, <1>4, <1>5
<1>8. \A j \in 1..Len(walk) : walk[j] = Yields[j]
  <2> SUFFICES ASSUME NEW j \in 1..Len(walk) PROVE walk[j] = Yields[j]
    OBVIOUS
  <2>1. Len(Yields) \in Nat
    BY <1>3
  <2>2. j \in 1..Len(Yields) /\ j \in 1..Len(all)
    BY <1>1, <1>4, <1>5, <1>7, <2>1
  <2> QED BY <1>3, <1>4, <1>6, <2>2
<1> QED BY <1>1, <1>7, <1>8

\* The first entries of a sequence are a prefix of it.
LEMMA PrefixIs ==
  ASSUME NEW w \in Seq(Keys), NEW t \in Seq(Keys), Len(w) <= Len(t),
         \A j \in 1..Len(w) : w[j] = t[j]
  PROVE  IsPrefix(w, t) /\ (Len(w) = Len(t) => w = t)
<1>1. SubSeq(w, 1, Len(w)) = SubSeq(t, 1, Len(w))
  OBVIOUS
<1>2. Len(w) = Len(t) => w = t
  OBVIOUS
<1> QED BY <1>1, <1>2 DEF IsPrefix

\* A call yields the next of Yields, or it has all been yielded.
LEMMA YieldStep ==
  ASSUME Inv, Inv', Next, walk # NotWalking
  PROVE  IF walk' = NotWalking THEN walk = Yields ELSE IsPrefix(walk', Yields)
<1>1. IterNext
  BY DEF Next, RemoveEntry, Insert, IterInit
<1>2. table' = table /\ size' = size
  BY <1>1 DEF IterNext, core
<1>3. Yields' = Yields /\ Yields \in Seq(Keys)
  BY <1>2, YieldsIs DEF Yields, Flat
<1>4. CASE walk' = NotWalking
  <2>1. Len(walk) = Len(Yields)
    BY <1>1, <1>4, YieldedAll
  <2>2. /\ walk \in Seq(Keys) /\ Len(walk) <= Len(Yields)
        /\ \A j \in 1..Len(walk) : walk[j] = Yields[j]
    BY <1>1, YieldedPrefix DEF IterNext, PrefixYielded
  <2>3. walk = Yields
    BY <1>3, <2>1, <2>2, PrefixIs
  <2> QED BY <1>4, <2>3
<1>5. CASE walk' # NotWalking
  <2>1. PrefixYielded'
    BY YieldedPrefix, PTL
  <2>2. /\ walk' \in Seq(Keys) /\ Len(walk') <= Len(Yields)
        /\ \A j \in 1..Len(walk') : walk'[j] = Yields[j]
    BY <1>3, <1>5, <2>1 DEF PrefixYielded, NotWalking
  <2>3. IsPrefix(walk', Yields)
    BY <1>3, <2>2, PrefixIs
  <2> QED BY <1>5, <2>3
<1> QED BY <1>4, <1>5

\* The iterator yields every entry, once each and in table order, but those that
\* follow the first entry of the last bucket's chain, before it returns NULL
\* (htable.c:258-300).
THEOREM IteratesInOrder == Spec => IterationInOrder
<1>1. Inv /\ Inv' /\ [Next]_vars =>
        [walk # NotWalking =>
           IF walk' = NotWalking THEN walk = Yields ELSE IsPrefix(walk', Yields)]_vars
  BY YieldStep
<1> QED BY <1>1, TableInv, PTL DEF Spec, IterationInOrder

\* What the iterator may still yield before it returns NULL.
ToYield == Len(Flat(size - 1)) + 1 - Len(walk)

\* The keys yielded are keys, and their number is one.
LEMMA WalkType ==
  ASSUME Inv, walk # NotWalking
  PROVE  walk \in Seq(Keys) /\ Len(walk) \in Nat /\ Len(Flat(size - 1)) \in Nat
<1>1. /\ size \in Nat \ {0} /\ table \in [0..(size - 1) -> Seq(Entry)]
      /\ size - 1 \in 0..(size - 1) /\ size - 1 \in 0..size
  BY DEF Inv, Stored
<1>2. Len(FlatOf(table, size - 1)) \in Nat
  <2>1. size \in Nat
    BY <1>1
  <2>2. \A m \in 0..size : FlatOf(table, m) \in Seq(Entry)
    BY <1>1, <2>1, FlatStep
  <2> QED BY <1>1, <2>2
<1>3. walk \in Seq(Keys)
  <2>1. CASE walk = <<>>
    BY <2>1
  <2>2. CASE walk # <<>>
    <3>1. Yielded
      BY DEF Inv
    <3> QED BY <2>2, <3>1, Zenon DEF Yielded
  <2> QED BY <2>1, <2>2
<1> QED BY <1>2, <1>3 DEF FlatOf, Flat

LEMMA ToYieldType == Inv => (walk # NotWalking => ToYield \in Nat)
<1> SUFFICES ASSUME Inv, walk # NotWalking PROVE ToYield \in Nat
  OBVIOUS
<1>1. PICK n \in Nat : n = Len(walk)
  BY WalkType
<1>2. PICK m \in Nat : m = Len(Flat(size - 1))
  BY WalkType
<1>3. Len(walk) <= Len(Flat(size - 1)) + 1
  BY InvIteration DEF WalkInOrder
<1> QED BY <1>1, <1>2, <1>3 DEF ToYield

\* The iterator yields one more, or has come to the end.
LEMMA YieldsOne ==
  ASSUME Inv, Next, walk # NotWalking
  PROVE  IterNext /\ (walk' = NotWalking \/ ToYield' = ToYield - 1)
<1>1. IterNext
  BY DEF Next, RemoveEntry, Insert, IterInit
<1> SUFFICES ASSUME walk' # NotWalking PROVE ToYield' = ToYield - 1
  BY <1>1
<1>2. walk' = Append(walk, node') /\ table' = table /\ size' = size
  BY <1>1 DEF IterNext, core
<1>3. PICK n \in Nat : n = Len(walk)
  BY WalkType
<1>4. PICK m \in Nat : m = Len(Flat(size - 1))
  BY WalkType
<1>5. Len(walk') = n + 1
  <2>1. walk \in Seq(Keys)
    BY WalkType
  <2> QED BY <1>2, <1>3, <2>1
<1>6. Len(Flat(size - 1))' = m
  BY <1>2, <1>4 DEF Flat
<1> QED BY <1>3, <1>4, <1>5, <1>6 DEF ToYield

\* A loop over the iterator ends, as far as safety goes (htable.c:258-300): every
\* call yields one entry more of those that are left, which no call adds to, or
\* returns NULL.  That the caller asks again is what IterationEnds adds.
THEOREM IterationRunsOut ==
  Spec => /\ [](walk # NotWalking => ToYield \in Nat)
          /\ [][walk # NotWalking => IterNext /\ (walk' = NotWalking \/ ToYield' = ToYield - 1)]_vars
<1>1. Inv /\ [Next]_vars =>
        [walk # NotWalking => IterNext /\ (walk' = NotWalking \/ ToYield' = ToYield - 1)]_vars
  BY YieldsOne
<1> QED BY <1>1, TableInv, ToYieldType, PTL DEF Spec

-----------------------------------------------------------------------------
(* The table implements the dictionary. *)

\* What searches find, key by key: the dictionary's map.
Finds(t, n) == [k \in Keys |-> Found(t, n, k)]

\* What an insertion and a removal do to the entries, and to the map.
Gains(before, after, k, d) == after = before \cup {[key |-> k, data |-> d]}
Loses(before, after, k)    == after = {x \in before : x.key # k}
Sets(f, g, k, d)           == g = [f EXCEPT ![k] = d]

\* Two tables with the same entries under a key find the same.
LEMMA FoundSame ==
  ASSUME NEW n \in Nat \ {0}, NEW t \in [0..(n - 1) -> Seq(Entry)], Placed(t, n),
         NEW m \in Nat \ {0}, NEW u \in [0..(m - 1) -> Seq(Entry)], Placed(u, m),
         NEW k \in Keys,
         \A e \in Entry : e.key = k => (e \in Entries(u, m) <=> e \in Entries(t, n))
  PROVE  Found(u, m, k) = Found(t, n, k)
<1>1. \A d \in Data : LET e == [key |-> k, data |-> d] IN e \in Entry /\ e.key = k
  BY EntryIs
<1>2. \A d \in Data : [key |-> k, data |-> d] \in Entries(u, m) <=> [key |-> k, data |-> d] \in Entries(t, n)
  BY <1>1
<1> DEFINE a == Found(t, n, k)
           b == Found(u, m, k)
<1>3. /\ \A d \in Data : [key |-> k, data |-> d] \in Entries(t, n) => a = d
      /\ a # Absent => a \in Data /\ [key |-> k, data |-> a] \in Entries(t, n)
  BY FoundIs
<1>4. /\ \A d \in Data : [key |-> k, data |-> d] \in Entries(u, m) => b = d
      /\ b # Absent => b \in Data /\ [key |-> k, data |-> b] \in Entries(u, m)
  BY FoundIs
<1> HIDE DEF a, b
<1>5. a = b
  <2>1. CASE a # Absent
    BY <1>2, <1>3, <1>4, <2>1
  <2>2. CASE b # Absent
    BY <1>2, <1>3, <1>4, <2>2
  <2> QED BY <2>1, <2>2
<1> QED BY <1>5 DEF a, b

\* An inserted entry is found, and nothing else changes.
LEMMA FoundWith ==
  ASSUME NEW n \in Nat \ {0}, NEW t \in [0..(n - 1) -> Seq(Entry)], Placed(t, n),
         NEW m \in Nat \ {0}, NEW u \in [0..(m - 1) -> Seq(Entry)], Placed(u, m),
         NEW k \in Keys, NEW d \in Data, Gains(Entries(t, n), Entries(u, m), k, d)
  PROVE  Sets(Finds(t, n), Finds(u, m), k, d)
<1> USE DEF Gains, Sets
<1> DEFINE e == [key |-> k, data |-> d]
<1>1. e \in Entries(u, m)
  OBVIOUS
<1>2. Found(u, m, k) = d
  BY <1>1, FoundIs
<1>3. e.key = k
  OBVIOUS
<1>4. ASSUME NEW q \in Keys, q # k PROVE Found(u, m, q) = Found(t, n, q)
  <2> HIDE DEF e
  <2>1. \A x \in Entry : x.key = q => (x \in Entries(u, m) <=> x \in Entries(t, n))
    <3>1. Entries(u, m) = Entries(t, n) \cup {e}
      BY DEF e
    <3> QED BY <1>3, <1>4, <3>1
  <2> HIDE DEF Gains, Sets
  <2> QED BY <2>1, FoundSame
<1> QED BY <1>2, <1>4 DEF Finds

\* A removed key is not found, and nothing else changes.
LEMMA FoundWithout ==
  ASSUME NEW n \in Nat \ {0}, NEW t \in [0..(n - 1) -> Seq(Entry)], Placed(t, n),
         NEW m \in Nat \ {0}, NEW u \in [0..(m - 1) -> Seq(Entry)], Placed(u, m),
         NEW k \in Keys, Loses(Entries(t, n), Entries(u, m), k)
  PROVE  Sets(Finds(t, n), Finds(u, m), k, Absent)
<1> USE DEF Loses, Sets
<1>1. Found(u, m, k) = Absent
  <2>1. \A d \in Data : [key |-> k, data |-> d] \notin Entries(u, m)
    <3>1. \A d \in Data : [key |-> k, data |-> d].key = k
      OBVIOUS
    <3> QED BY <3>1
  <2> QED BY <2>1, FoundIs
<1>2. ASSUME NEW q \in Keys, q # k PROVE Found(u, m, q) = Found(t, n, q)
  <2>1. \A x \in Entry : x.key = q => (x \in Entries(u, m) <=> x \in Entries(t, n))
    BY <1>2
  <2> HIDE DEF Loses, Sets
  <2> QED BY <1>2, <2>1, FoundSame, Zenon
<1> QED BY <1>1, <1>2 DEF Finds

\* The dictionary's variables, as the table has them.
LEMMA MapIs == Dict!dictVars = <<Finds(table, size), result>>
BY DEF Dict!dictVars, Finds, Found, Search, Chain

\* An empty table is an empty dictionary.
LEMMA MapInit ==
  ASSUME Init
  PROVE  Dict!DictInit
<1>1. Stored /\ size \in Nat \ {0} /\ table \in [0..(size - 1) -> Seq(Entry)] /\ Placed(table, size)
  BY InitInv DEF Inv, Stored
<1>2. ASSUME NEW k \in Keys PROVE Search(k) = Absent
  <2>1. Bucket(k, size) \in 0..(size - 1) /\ size = InitSize
    BY <1>1, BucketType DEF Init
  <2>2. Chain(k) = <<>>
    BY <2>1 DEF Init, Chain
  <2> QED BY <2>2 DEF Search, KeysOf
<1> QED BY <1>2 DEF Dict!DictInit, Init

\* The dictionary's step for an insertion.
LEMMA MapInsert ==
  ASSUME Inv, NEW k \in Keys, NEW d \in Data, Insert(k, d),
         NEW f, f = Finds(table, size), NEW g, g = Finds(table', size')
  PROVE  \/ f[k] = Absent /\ g = [f EXCEPT ![k] = d] /\ result' = "OK"
         \/ f[k] = Absent /\ result' = "NOMEM" /\ g = f
         \/ f[k] # Absent /\ result' = "EXISTS" /\ g = f
<1>1. /\ Stored /\ size \in Nat \ {0} /\ table \in [0..(size - 1) -> Seq(Entry)]
      /\ Placed(table, size)
  BY DEF Inv, Stored
<1>2. f[k] # Absent <=> k \in KeysOf(Chain(k))
  <2>1. f[k] = Found(table, size, k)
    BY DEF Finds
  <2>2. Found(table, size, k) # Absent <=> k \in KeysOf(table[Bucket(k, size)])
    BY <1>1, FoundIs
  <2> QED BY <2>1, <2>2 DEF Chain
<1>3. CASE k \in KeysOf(Chain(k)) /\ result' = "EXISTS" /\ UNCHANGED core
  BY <1>2, <1>3 DEF core
<1>4. CASE k \notin KeysOf(Chain(k)) /\ result' = "NOMEM" /\ UNCHANGED core
  BY <1>2, <1>4 DEF core
<1>5. CASE ~UNCHANGED core
  <2> DEFINE t == With(table, size, k, d)
  <2>1. k \notin KeysOf(Chain(k)) /\ result' = "OK"
    BY <1>5 DEF Insert
  <2>2. \/ table' = t /\ size' = size
        \/ table' = Rehashed(t, size) /\ size' = 2 * size
    BY <1>5 DEF Insert, With
  <2> HIDE DEF t
  <2>3. /\ t \in [0..(size - 1) -> Seq(Entry)] /\ Placed(t, size)
        /\ Entries(t, size) = Entries(table, size) \cup {[key |-> k, data |-> d]}
    BY <1>1, <2>1, InsertStored DEF t
  <2>4. CASE table' = t /\ size' = size
    <3>1. Finds(t, size) = [Finds(table, size) EXCEPT ![k] = d]
      <4>1. Gains(Entries(table, size), Entries(t, size), k, d)
        BY <2>3 DEF Gains
      <4>2. Sets(Finds(table, size), Finds(t, size), k, d)
        BY <1>1, <2>3, <4>1, FoundWith
      <4> QED BY <4>2 DEF Sets
    <3> QED BY <1>2, <2>1, <2>4, <3>1
  <2>5. CASE table' = Rehashed(t, size) /\ size' = 2 * size
    <3> DEFINE u == Rehashed(t, size)
               w == 2 * size
    <3>1. u \in [0..(w - 1) -> Seq(Entry)] /\ Placed(u, w) /\ Entries(u, w) = Entries(t, size)
      BY <1>1, <2>3, RehashedIs
    <3>2. w \in Nat \ {0}
      BY <1>1
    <3> HIDE DEF u, w
    <3>3. Finds(u, w) = [Finds(table, size) EXCEPT ![k] = d]
      <4>1. Gains(Entries(table, size), Entries(u, w), k, d)
        BY <2>3, <3>1 DEF Gains
      <4>2. Sets(Finds(table, size), Finds(u, w), k, d)
        BY <1>1, <3>1, <3>2, <4>1, FoundWith
      <4> QED BY <4>2 DEF Sets
    <3> QED BY <1>2, <2>1, <2>5, <3>3 DEF u, w
  <2> QED BY <2>2, <2>4, <2>5
<1>6. (k \in KeysOf(Chain(k)) /\ result' = "EXISTS") \/ (k \notin KeysOf(Chain(k)) /\ result' = "NOMEM")
        \/ ~UNCHANGED core
  <2>1. used \in Nat
    BY <1>1, FS_CardinalityType DEF Stored
  <2>2. used' = used + 1 => ~UNCHANGED core
    BY <2>1 DEF core
  <2> QED BY <2>2 DEF Insert
<1> QED BY <1>3, <1>4, <1>5, <1>6

\* The dictionary's step for a removal.
LEMMA MapRemove ==
  ASSUME Inv, NEW k \in Keys, RemoveEntry(k),
         NEW f, f = Finds(table, size), NEW g, g = Finds(table', size')
  PROVE  \/ f[k] # Absent /\ g = [f EXCEPT ![k] = Absent] /\ result' = "OK"
         \/ f[k] = Absent /\ result' = "NOTFOUND" /\ g = f
<1>1. /\ Stored /\ size \in Nat \ {0} /\ table \in [0..(size - 1) -> Seq(Entry)]
      /\ Placed(table, size)
  BY DEF Inv, Stored
<1>2. f[k] # Absent <=> k \in KeysOf(Chain(k))
  <2>1. f[k] = Found(table, size, k)
    BY DEF Finds
  <2>2. Found(table, size, k) # Absent <=> k \in KeysOf(table[Bucket(k, size)])
    BY <1>1, FoundIs
  <2> QED BY <2>1, <2>2 DEF Chain
<1>3. CASE k \notin KeysOf(Chain(k))
  BY <1>2, <1>3 DEF RemoveEntry
<1>4. CASE k \in KeysOf(Chain(k))
  <2> DEFINE u == Without(table, size, k)
  <2>1. table' = u /\ size' = size /\ result' = "OK"
    BY <1>4 DEF RemoveEntry, Without
  <2> HIDE DEF u
  <2>2. /\ u \in [0..(size - 1) -> Seq(Entry)] /\ Placed(u, size)
        /\ Entries(u, size) = {x \in Entries(table, size) : x.key # k}
    BY <1>1, <1>4, RemoveStored DEF u
  <2>3. Finds(u, size) = [Finds(table, size) EXCEPT ![k] = Absent]
    <3>1. Loses(Entries(table, size), Entries(u, size), k)
      BY <2>2 DEF Loses
    <3>2. Sets(Finds(table, size), Finds(u, size), k, Absent)
      BY <1>1, <2>2, <3>1, FoundWithout
    <3> QED BY <3>2 DEF Sets
  <2> QED BY <1>2, <1>4, <2>1, <2>3
<1> QED BY <1>3, <1>4

\* Every step of the table is one of the dictionary, or none.
LEMMA MapStep ==
  ASSUME Inv, [Next]_vars
  PROVE  [Dict!DictNext]_(Dict!dictVars)
<1> DEFINE f == Finds(table, size)
           g == Finds(table', size')
<1>1. Dict!dictVars = <<f, result>> /\ Dict!dictVars' = <<g, result'>>
  <2>1. (Dict!dictVars = <<Finds(table, size), result>>)'
    BY MapIs, PTL
  <2> QED BY <2>1, MapIs
<1>2. f = [k \in Keys |-> Search(k)] /\ g = [k \in Keys |-> Search(k)]'
  BY DEF Finds, Found, Search, Chain
<1> HIDE DEF f, g
<1>3. ASSUME NEW k \in Keys, NEW d \in Data, Insert(k, d)
      PROVE  Dict!DictInsert(k, d)
  <2>1. \/ f[k] = Absent /\ g = [f EXCEPT ![k] = d] /\ result' = "OK"
        \/ f[k] = Absent /\ result' = "NOMEM" /\ g = f
        \/ f[k] # Absent /\ result' = "EXISTS" /\ g = f
    BY <1>3, MapInsert DEF f, g
  <2> QED BY <1>2, <2>1, Zenon DEF Dict!DictInsert
<1>4. ASSUME NEW k \in Keys, RemoveEntry(k)
      PROVE  Dict!DictRemove(k)
  <2>1. \/ f[k] # Absent /\ g = [f EXCEPT ![k] = Absent] /\ result' = "OK"
        \/ f[k] = Absent /\ result' = "NOTFOUND" /\ g = f
    BY <1>4, MapRemove DEF f, g
  <2> QED BY <1>2, <2>1, Zenon DEF Dict!DictRemove
<1>5. ASSUME UNCHANGED <<table, size, result>> PROVE UNCHANGED Dict!dictVars
  BY <1>1, <1>5 DEF f, g
<1>6. CASE UNCHANGED vars
  BY <1>5, <1>6 DEF vars
<1>7. CASE IterInit \/ IterNext
  BY <1>5, <1>7 DEF IterInit, IterNext, core
<1> QED BY <1>3, <1>4, <1>6, <1>7 DEF Next, Dict!DictNext

\* What any search finds is what the insertions and removals before it put there,
\* and each of those returns what the dictionary's does (htable.c:117-250).
THEOREM DictionaryImplemented == Spec => ImplementsDictionary
<1>1. Init => Dict!DictInit
  BY MapInit
<1>2. Inv /\ [Next]_vars => [Dict!DictNext]_(Dict!dictVars)
  BY MapStep
<1> QED BY <1>1, <1>2, TableInv, PTL DEF Spec, ImplementsDictionary, Dict!DictSpec
=============================================================================
