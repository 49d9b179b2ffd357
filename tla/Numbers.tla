------------------------------ MODULE Numbers ------------------------------
(***************************************************************************)
(* Facts about natural numbers and finite sums that the proofs of several  *)
(* modules need.  In Induction and Recursion the property and the step are *)
(* a set and a function, so that they can be cited for any of them.        *)
(***************************************************************************)
EXTENDS Integers, FiniteSetTheorems, WellFoundedInduction, TLAPS

\* Some number of a set is the least.
LEMMA Least ==
  ASSUME NEW L, L \subseteq Nat, L # {}
  PROVE  \E n \in L : \A i \in L : n <= i
<1>1. PICK n \in L : \A i \in L : ~(<<i, n>> \in OpToRel(<, Nat))
  BY NatLessThanWellFounded, WFMin
<1>2. \A i \in L : i \in Nat /\ n \in Nat
  OBVIOUS
<1>3. \A i \in L : ~(i < n)
  BY <1>1, <1>2, Zenon DEF OpToRel
<1> QED BY <1>2, <1>3

\* What holds of 0 and goes from each number to the next holds of all.
LEMMA Induction ==
  ASSUME NEW N \in Nat, NEW S, 0 \in S, \A m \in 0..(N - 1) : m \in S => m + 1 \in S
  PROVE  \A m \in 0..N : m \in S
<1> DEFINE L == {m \in 0..N : m \notin S}
<1>1. SUFFICES ASSUME L # {} PROVE FALSE
  OBVIOUS
<1>2. PICK n \in L : \A i \in L : n <= i
  <2>1. L \subseteq Nat
    OBVIOUS
  <2> HIDE DEF L
  <2> QED BY <1>1, <2>1, Least
<1>3. n \in 0..N /\ n \notin S /\ n # 0
  OBVIOUS
<1>4. n - 1 \in 0..(N - 1) /\ n - 1 \in 0..N /\ (n - 1) + 1 = n /\ ~(n <= n - 1)
  BY <1>3
<1>5. n - 1 \in S
  BY <1>2, <1>4
<1> QED BY <1>3, <1>4, <1>5

\* The functions that start with z and go on with step.
Recursive(N, D, z, step) ==
  {f \in [0..N -> D] : f[0] = z /\ \A i \in 1..N : f[i] = step[i][f[i - 1]]}

\* There is one.
LEMMA Recursion ==
  ASSUME NEW N \in Nat, NEW D, NEW z \in D, NEW step \in [1..N -> [D -> D]]
  PROVE  Recursive(N, D, z, step) # {}
<1> DEFINE S == {n \in 0..N : \E f \in [0..n -> D] :
                   f[0] = z /\ \A i \in 1..n : f[i] = step[i][f[i - 1]]}
<1>1. 0 \in S
  <2> DEFINE g == [i \in 0..0 |-> z]
  <2>1. g \in [0..0 -> D] /\ g[0] = z /\ \A i \in 1..0 : g[i] = step[i][g[i - 1]]
    OBVIOUS
  <2> HIDE DEF g
  <2>2. \E f \in [0..0 -> D] : f[0] = z /\ \A i \in 1..0 : f[i] = step[i][f[i - 1]]
    BY <2>1
  <2> QED BY <2>2
<1>2. ASSUME NEW n \in 0..(N - 1), n \in S PROVE n + 1 \in S
  <2>1. PICK f \in [0..n -> D] : f[0] = z /\ \A i \in 1..n : f[i] = step[i][f[i - 1]]
    BY <1>2
  <2> DEFINE g == [i \in 0..(n + 1) |-> IF i = n + 1 THEN step[i][f[n]] ELSE f[i]]
  <2>2. step[n + 1][f[n]] \in D
    OBVIOUS
  <2>3. g \in [0..(n + 1) -> D]
    BY <2>2
  <2>4. g[0] = z
    BY <2>1
  <2>5. ASSUME NEW i \in 1..(n + 1) PROVE g[i] = step[i][g[i - 1]]
    <3>1. CASE i = n + 1
      BY <3>1
    <3>2. CASE i # n + 1
      <4>1. i \in 1..n /\ i - 1 \in 0..n /\ i - 1 # n + 1
        BY <3>2
      <4> QED BY <2>1, <4>1
    <3> QED BY <3>1, <3>2
  <2> HIDE DEF g
  <2> QED BY <2>3, <2>4, <2>5
<1>3. N \in S
  <2> HIDE DEF S
  <2>1. \A m \in 0..N : m \in S
    BY <1>1, <1>2, Induction
  <2> QED BY <2>1
<1>4. \E f \in [0..N -> D] : f[0] = z /\ \A i \in 1..N : f[i] = step[i][f[i - 1]]
  BY <1>3
<1> QED BY <1>4 DEF Recursive

-----------------------------------------------------------------------------
(* Division. *)

\* What the rounds and the rest of a number are.
LEMMA DivMod ==
  ASSUME NEW b \in Nat \ {0}, NEW a \in Nat
  PROVE  a % b \in 0..(b - 1) /\ a \div b \in Nat /\ a = (a \div b) * b + (a % b)
<1> DEFINE c == a \div b
           r == a % b
<1>1. r \in 0..(b - 1) /\ c \in Int /\ a = b * c + r
  OBVIOUS
<1> HIDE DEF c, r
<1>2. c >= 0
  <2> SUFFICES ASSUME c < 0 PROVE FALSE
    BY <1>1
  <2>1. PICK d \in Nat : c = -1 - d
    <3>1. -1 - c \in Nat /\ c = -1 - (-1 - c)
      BY <1>1
    <3> QED BY <3>1
  <2>2. b * c = -b - b * d /\ b * d >= 0
    BY <2>1
  <2> QED BY <1>1, <2>2
<1>3. b * c = c * b
  BY <1>1
<1>4. r \in 0..(b - 1) /\ c \in Nat /\ a = c * b + r
  <2> DEFINE p == b * c
  <2>1. p = c * b /\ a = p + r
    BY <1>1, <1>3
  <2> HIDE DEF p
  <2> QED BY <1>1, <1>2, <2>1
<1>5. a % b \in 0..(b - 1)
  BY <1>4 DEF r
<1>6. a \div b \in Nat
  BY <1>4 DEF c
<1>7. a = (a \div b) * b + (a % b)
  BY <1>4, Zenon DEF c, r
<1> QED BY <1>5, <1>6, <1>7

\* What is left of a number after m whole rounds of b.
LEMMA Remainder ==
  ASSUME NEW b \in Nat \ {0}, NEW m \in Nat, NEW k \in 0..(b - 1)
  PROVE  (m * b + k) % b = k
<1> DEFINE a == m * b + k
           c == a \div b
           r == a % b
<1>1. a \in Nat /\ r \in 0..(b - 1) /\ c \in Int /\ a = b * c + r
  OBVIOUS
<1> HIDE DEF c, r
<1>2. CASE c < m
  <2>1. b * c + b <= b * m
    <3>1. PICK d \in Nat : m = c + 1 + d
      BY <1>1, <1>2
    <3>2. b * m = b * c + b + b * d /\ b * d >= 0
      BY <1>1, <3>1
    <3> QED BY <1>1, <3>1, <3>2
  <2> QED BY <1>1, <2>1
<1>3. CASE c > m
  <2>1. b * m + b <= b * c
    <3>1. PICK d \in Nat : c = m + 1 + d
      BY <1>1, <1>3
    <3>2. b * c = b * m + b + b * d /\ b * d >= 0
      BY <1>1, <3>1
    <3> QED BY <1>1, <3>1, <3>2
  <2> QED BY <1>1, <2>1
<1>4. CASE c = m
  BY <1>1, <1>4 DEF r
<1> QED BY <1>1, <1>2, <1>3, <1>4

\* How many rounds of b they are.
LEMMA Quotient ==
  ASSUME NEW b \in Nat \ {0}, NEW m \in Nat, NEW k \in 0..(b - 1)
  PROVE  (m * b + k) \div b = m
<1> DEFINE a == m * b + k
           c == a \div b
<1>1. a \in Nat
  OBVIOUS
<1>2. c \in Nat /\ a = c * b + k
  <2> HIDE DEF a
  <2>1. a \div b \in Nat /\ a = (a \div b) * b + (a % b)
    BY <1>1, DivMod
  <2>2. a % b = k
    BY Remainder DEF a
  <2>3. c \in Nat
    BY <2>1
  <2>4. a = (a \div b) * b + k
    BY <2>1, <2>2, Zenon
  <2> QED BY <2>3, <2>4, Zenon
<1>3. c * b = m * b
  <2>1. m * b \in Nat /\ c * b \in Nat
    BY <1>2
  <2> HIDE DEF c
  <2> QED BY <1>2, <2>1 DEF a
<1> HIDE DEF a, c
<1>4. ~(c < m)
  <2> SUFFICES ASSUME c < m PROVE FALSE
    OBVIOUS
  <2>1. PICK d \in Nat : m = c + 1 + d
    <3>1. m - c - 1 \in Nat /\ m = c + 1 + (m - c - 1)
      BY <1>2
    <3> QED BY <3>1
  <2>2. m * b = c * b + b + d * b /\ d * b >= 0
    BY <1>2, <2>1
  <2> QED BY <1>2, <1>3, <2>2
<1>5. ~(m < c)
  <2> SUFFICES ASSUME m < c PROVE FALSE
    OBVIOUS
  <2>1. PICK d \in Nat : c = m + 1 + d
    <3>1. c - m - 1 \in Nat /\ c = m + 1 + (c - m - 1)
      BY <1>2
    <3> QED BY <3>1
  <2>2. c * b = m * b + b + d * b /\ d * b >= 0
    BY <1>2, <2>1
  <2> QED BY <1>2, <1>3, <2>2
<1>6. c = m
  BY <1>2, <1>4, <1>5
<1> QED BY <1>6 DEF a, c

\* Rounds of b do not change a remainder.
LEMMA RoundsOff ==
  ASSUME NEW b \in Nat \ {0}, NEW a \in Int, NEW m \in Int
  PROVE  (a + m * b) % b = a % b
<1> DEFINE r == a % b      c == a \div b
           s == (a + m * b) % b  d == (a + m * b) \div b
<1>1. r \in 0..(b - 1) /\ c \in Int /\ a = b * c + r
  OBVIOUS
<1>2. s \in 0..(b - 1) /\ d \in Int /\ a + m * b = b * d + s
  <2> DEFINE e == a + m * b
  <2>1. e \in Int
    OBVIOUS
  <2> HIDE DEF e
  <2>2. e % b \in 0..(b - 1) /\ e \div b \in Int /\ e = b * (e \div b) + (e % b)
    BY <2>1
  <2> QED BY <2>2 DEF e
<1> HIDE DEF r, c, s, d
<1> DEFINE n == d - c - m
<1>3. n \in Int /\ b * n = r - s
  <2>1. b * n = b * d - b * c - b * m
    BY <1>1, <1>2
  <2>2. m * b = b * m /\ b * d \in Int /\ b * c \in Int /\ b * m \in Int
    BY <1>1, <1>2
  <2> QED BY <1>1, <1>2, <2>1, <2>2
<1> HIDE DEF n
<1>4. CASE n >= 1
  <2>1. b * n >= b
    <3>1. PICK e \in Nat : n = 1 + e
      BY <1>3, <1>4
    <3>2. b * n = b + b * e /\ b * e >= 0
      BY <3>1
    <3> QED BY <3>2
  <2> QED BY <1>1, <1>2, <1>3, <2>1
<1>5. CASE n <= -1
  <2>1. b * n <= -b
    <3>1. PICK e \in Nat : n = -1 - e
      <4>1. -1 - n \in Nat /\ n = -1 - (-1 - n)
        BY <1>3, <1>5
      <4> QED BY <4>1
    <3>2. b * n = -b - b * e /\ b * e >= 0
      BY <3>1
    <3> QED BY <3>2
  <2> QED BY <1>1, <1>2, <1>3, <2>1
<1>6. CASE n = 0
  BY <1>1, <1>2, <1>3, <1>6 DEF r, s
<1> QED BY <1>3, <1>4, <1>5, <1>6

-----------------------------------------------------------------------------
(* Finite sums. *)

\* total gives the sum of w over every subset of S, in whatever order it is taken.
SumTable(S, w, total) ==
  /\ total \in [SUBSET S -> Nat]
  /\ total[{}] = 0
  /\ \A A \in SUBSET S : \A x \in A : total[A] = w[x] + total[A \ {x}]

SumOver(S, w) == (CHOOSE total \in [SUBSET S -> Nat] : SumTable(S, w, total))[S]

\* A finite set is empty or one element more than a smaller one.
LEMMA OneLess ==
  ASSUME NEW A, IsFiniteSet(A), NEW x \in A
  PROVE  /\ Cardinality(A) \in Nat \ {0} /\ IsFiniteSet(A \ {x})
         /\ Cardinality(A \ {x}) = Cardinality(A) - 1
BY FS_RemoveElement, FS_CardinalityType, FS_EmptySet

\* Every finite set of terms has its sums.
LEMMA SumsExist ==
  ASSUME NEW X, NEW w \in [X -> Nat], NEW S \in SUBSET X, IsFiniteSet(S)
  PROVE  \E total : SumTable(S, w, total)
<1> DEFINE N == Cardinality(S)
           L == {n \in 0..N : \A A \in SUBSET S : Cardinality(A) = n => \E total : SumTable(A, w, total)}
<1>1. N \in Nat /\ \A A \in SUBSET S : IsFiniteSet(A) /\ Cardinality(A) \in Nat
  BY FS_CardinalityType, FS_Subset
<1>2. 0 \in L
  <2>1. ASSUME NEW A \in SUBSET S, Cardinality(A) = 0 PROVE \E total : SumTable(A, w, total)
    <3>1. A = {}
      BY <1>1, <2>1, FS_EmptySet
    <3> DEFINE t == [B \in {{}} |-> 0]
    <3>2. SumTable({}, w, t)
      BY DEF SumTable
    <3> QED BY <3>1, <3>2
  <2> QED BY <1>1, <2>1
<1>3. ASSUME NEW n \in 0..(N - 1), n \in L PROVE n + 1 \in L
  <2>1. ASSUME NEW A \in SUBSET S, Cardinality(A) = n + 1 PROVE \E total : SumTable(A, w, total)
    <3>1. A # {}
      BY <1>1, <2>1, FS_EmptySet
    <3>2. PICK x : x \in A
      BY <3>1
    <3> DEFINE B == A \ {x}
    <3>3. B \in SUBSET S /\ Cardinality(B) = n
      BY <1>1, <2>1, <3>2, OneLess
    <3>4. PICK t : SumTable(B, w, t)
      BY <1>3, <3>3
    <3> DEFINE u == [C \in SUBSET A |-> IF x \in C THEN w[x] + t[C \ {x}] ELSE t[C]]
    <3>5. /\ t \in [SUBSET B -> Nat] /\ t[{}] = 0
          /\ \A C \in SUBSET B : \A y \in C : t[C] = w[y] + t[C \ {y}]
      BY <3>4 DEF SumTable
    <3>6. \A y \in A : w[y] \in Nat
      BY <2>1
    <3>7. \A C \in SUBSET A : C \ {x} \in SUBSET B /\ (x \notin C => C \in SUBSET B)
      OBVIOUS
    <3>8. u \in [SUBSET A -> Nat] /\ u[{}] = 0
      <4>1. ASSUME NEW C \in SUBSET A PROVE (IF x \in C THEN w[x] + t[C \ {x}] ELSE t[C]) \in Nat
        BY <3>2, <3>5, <3>6, <3>7
      <4> QED BY <3>5, <4>1
    <3>9. ASSUME NEW C \in SUBSET A, NEW y \in C PROVE u[C] = w[y] + u[C \ {y}]
      <4>1. C \ {y} \in SUBSET A
        OBVIOUS
      <4>2. CASE x \notin C
        <5>1. C \in SUBSET B /\ x \notin C \ {y}
          BY <3>7, <4>2
        <5> QED BY <3>5, <4>1, <4>2, <5>1
      <4>3. CASE x \in C /\ y = x
        <5>1. u[C] = w[x] + t[C \ {x}] /\ u[C \ {y}] = t[C \ {x}]
          BY <4>1, <4>3
        <5> QED BY <4>3, <5>1
      <4>4. CASE x \in C /\ y # x
        <5>1. C \ {x} \in SUBSET B /\ y \in C \ {x} /\ x \in C \ {y}
          BY <3>7, <4>4
        <5>2. (C \ {x}) \ {y} = (C \ {y}) \ {x}
          OBVIOUS
        <5>3. t[C \ {x}] = w[y] + t[(C \ {y}) \ {x}]
          <6>1. t[C \ {x}] = w[y] + t[(C \ {x}) \ {y}]
            BY <3>5, <5>1, Zenon
          <6> QED BY <5>2, <6>1, Zenon
        <5>4. u[C] = w[x] + t[C \ {x}] /\ u[C \ {y}] = w[x] + t[(C \ {y}) \ {x}]
          BY <4>1, <4>4, <5>1
        <5>5. w[x] \in Nat /\ w[y] \in Nat /\ t[(C \ {y}) \ {x}] \in Nat
          BY <3>2, <3>5, <3>6, <3>7, <4>1
        <5> QED BY <5>3, <5>4, <5>5
      <4> QED BY <4>2, <4>3, <4>4
    <3> HIDE DEF u
    <3>10. SumTable(A, w, u)
      BY <3>8, <3>9 DEF SumTable
    <3> QED BY <3>10
  <2> QED BY <1>1, <1>3, <2>1
<1>4. \A n \in 0..N : n \in L
  <2> HIDE DEF L
  <2> QED BY <1>1, <1>2, <1>3, Induction
<1> QED BY <1>1, <1>4

\* f adds one picked element after the other.
ByPicks(S, w, pick, f) ==
  /\ f[{}] = 0
  /\ \A A \in SUBSET S : A # {} => pick[A] \in A /\ f[A] = w[pick[A]] + f[A \ {pick[A]}]

\* That gives the sums, whatever is picked.
LEMMA SumsOf ==
  ASSUME NEW S, IsFiniteSet(S), NEW w, NEW total, SumTable(S, w, total), NEW pick, NEW f,
         ByPicks(S, w, pick, f)
  PROVE  \A A \in SUBSET S : f[A] = total[A]
<1> DEFINE N == Cardinality(S)
           L == {n \in 0..N : \A A \in SUBSET S : Cardinality(A) = n => f[A] = total[A]}
<1>1. N \in Nat /\ \A A \in SUBSET S : IsFiniteSet(A) /\ Cardinality(A) \in 0..N
  BY FS_CardinalityType, FS_Subset
<1>2. 0 \in L
  <2>1. ASSUME NEW A \in SUBSET S, Cardinality(A) = 0 PROVE f[A] = total[A]
    BY <1>1, <2>1, FS_EmptySet DEF SumTable, ByPicks
  <2> QED BY <1>1, <2>1
<1>3. ASSUME NEW n \in 0..(N - 1), n \in L PROVE n + 1 \in L
  <2>1. ASSUME NEW A \in SUBSET S, Cardinality(A) = n + 1 PROVE f[A] = total[A]
    <3>1. A # {}
      BY <1>1, <2>1, FS_EmptySet
    <3> DEFINE x == pick[A]
    <3>2. x \in A /\ f[A] = w[x] + f[A \ {x}]
      BY <3>1 DEF ByPicks
    <3>3. A \ {x} \in SUBSET S /\ Cardinality(A \ {x}) = n
      BY <1>1, <2>1, <3>2, OneLess
    <3>4. f[A \ {x}] = total[A \ {x}]
      BY <1>3, <3>3
    <3>5. total[A] = w[x] + total[A \ {x}]
      BY <3>2 DEF SumTable
    <3> QED BY <3>2, <3>4, <3>5
  <2> QED BY <1>1, <2>1
<1>4. \A n \in 0..N : n \in L
  <2> HIDE DEF L
  <2> QED BY <1>1, <1>2, <1>3, Induction
<1> QED BY <1>1, <1>4

\* They are unique, so SumOver is the total.
LEMMA SumIs ==
  ASSUME NEW S, IsFiniteSet(S), NEW w, NEW total, SumTable(S, w, total)
  PROVE  SumOver(S, w) = total[S]
<1> DEFINE c == CHOOSE t \in [SUBSET S -> Nat] : SumTable(S, w, t)
<1>1. total \in [SUBSET S -> Nat]
  BY DEF SumTable
<1>2. SumTable(S, w, c)
  BY <1>1, Zenon
<1> HIDE DEF c
<1> DEFINE pick == [A \in SUBSET S |-> CHOOSE x \in A : TRUE]
<1>3. \A A \in SUBSET S : A # {} => pick[A] \in A /\ c[A] = w[pick[A]] + c[A \ {pick[A]}]
  <2>1. ASSUME NEW A \in SUBSET S, A # {} PROVE pick[A] \in A
    BY <2>1
  <2> HIDE DEF pick
  <2> QED BY <1>2, <2>1 DEF SumTable
<1>4. c[{}] = 0
  BY <1>2 DEF SumTable
<1> HIDE DEF pick
<1>5. ByPicks(S, w, pick, c)
  BY <1>3, <1>4 DEF ByPicks
<1>6. \A A \in SUBSET S : c[A] = total[A]
  BY <1>5, SumsOf
<1> QED BY <1>6 DEF SumOver, c

\* One element more.
LEMMA SumAdd ==
  ASSUME NEW X, NEW w \in [X -> Nat], NEW S \in SUBSET X, IsFiniteSet(S), NEW x \in X \ S
  PROVE  /\ SumOver(S \cup {x}, w) = SumOver(S, w) + w[x]
         /\ SumOver(S, w) \in Nat
<1> DEFINE T == S \cup {x}
<1>1. T \in SUBSET X /\ IsFiniteSet(T)
  BY FS_AddElement
<1>2. PICK total : SumTable(T, w, total)
  <2> HIDE DEF T
  <2> QED BY <1>1, SumsExist
<1>3. SumOver(T, w) = total[T]
  BY <1>1, <1>2, SumIs
<1> DEFINE part == [A \in SUBSET S |-> total[A]]
<1>4. SumTable(S, w, part)
  <2>1. /\ total \in [SUBSET T -> Nat] /\ total[{}] = 0
        /\ \A A \in SUBSET T : \A y \in A : total[A] = w[y] + total[A \ {y}]
    BY <1>2 DEF SumTable
  <2>2. \A A \in SUBSET S : A \in SUBSET T /\ \A y : A \ {y} \in SUBSET S
    OBVIOUS
  <2>3. part \in [SUBSET S -> Nat] /\ part[{}] = 0
    BY <2>1, <2>2
  <2>4. ASSUME NEW A \in SUBSET S, NEW y \in A PROVE part[A] = w[y] + part[A \ {y}]
    <3>1. part[A] = total[A] /\ part[A \ {y}] = total[A \ {y}]
      BY <2>2
    <3> QED BY <2>1, <2>2, <3>1
  <2> HIDE DEF part
  <2> QED BY <2>3, <2>4 DEF SumTable
<1>5. SumOver(S, w) = part[S]
  <2> HIDE DEF part
  <2> QED BY <1>4, SumIs
<1>6. T \ {x} = S
  OBVIOUS
<1>7. total[T] = w[x] + total[S] /\ total[S] \in Nat /\ w[x] \in Nat
  <2>1. total[T] = w[x] + total[T \ {x}]
    BY <1>2 DEF SumTable
  <2>2. total[S] \in Nat
    BY <1>2 DEF SumTable
  <2> QED BY <1>6, <2>1, <2>2
<1>8. part[S] = total[S]
  OBVIOUS
<1> QED BY <1>3, <1>5, <1>7, <1>8

\* Taking a term away.
LEMMA SumLess ==
  ASSUME NEW X, NEW w \in [X -> Nat], NEW S \in SUBSET X, IsFiniteSet(S), NEW x \in S
  PROVE  /\ SumOver(S, w) = SumOver(S \ {x}, w) + w[x]
         /\ SumOver(S \ {x}, w) \in Nat
<1> DEFINE T == S \ {x}
<1>1. T \in SUBSET X /\ IsFiniteSet(T) /\ x \in X \ T /\ T \cup {x} = S
  BY FS_Subset
<1> HIDE DEF T
<1>2. SumOver(T \cup {x}, w) = SumOver(T, w) + w[x] /\ SumOver(T, w) \in Nat
  BY <1>1, SumAdd
<1> QED BY <1>1, <1>2 DEF T

\* No terms.
LEMMA SumEmpty ==
  ASSUME NEW w PROVE SumOver({}, w) = 0
<1> DEFINE t == [A \in {{}} |-> 0]
<1>1. SumTable({}, w, t) /\ t[{}] = 0
  BY DEF SumTable
<1> HIDE DEF t
<1> QED BY <1>1, SumIs, FS_EmptySet

\* Equal terms have equal sums.
LEMMA SumSame ==
  ASSUME NEW X, NEW w \in [X -> Nat], NEW v, NEW S \in SUBSET X, IsFiniteSet(S),
         \A x \in S : v[x] = w[x]
  PROVE  SumOver(S, v) = SumOver(S, w)
<1>1. PICK total : SumTable(S, w, total)
  BY SumsExist
<1>2. SumTable(S, v, total)
  BY <1>1 DEF SumTable
<1>3. SumOver(S, w) = total[S] /\ SumOver(S, v) = total[S]
  BY <1>1, <1>2, SumIs
<1> QED BY <1>3

\* The sum of sums.
LEMMA SumBoth ==
  ASSUME NEW X, NEW w \in [X -> Nat], NEW v \in [X -> Nat], NEW u, NEW S \in SUBSET X,
         IsFiniteSet(S), \A x \in S : u[x] = w[x] + v[x]
  PROVE  SumOver(S, u) = SumOver(S, w) + SumOver(S, v)
<1>1. PICK a : SumTable(S, w, a)
  BY SumsExist
<1>2. PICK b : SumTable(S, v, b)
  BY SumsExist
<1> DEFINE c == [A \in SUBSET S |-> a[A] + b[A]]
<1>3. SumTable(S, u, c)
  <2>1. /\ a \in [SUBSET S -> Nat] /\ a[{}] = 0
        /\ \A A \in SUBSET S : \A x \in A : a[A] = w[x] + a[A \ {x}]
    BY <1>1 DEF SumTable
  <2>2. /\ b \in [SUBSET S -> Nat] /\ b[{}] = 0
        /\ \A A \in SUBSET S : \A x \in A : b[A] = v[x] + b[A \ {x}]
    BY <1>2 DEF SumTable
  <2>3. c \in [SUBSET S -> Nat] /\ c[{}] = 0
    BY <2>1, <2>2
  <2>4. ASSUME NEW A \in SUBSET S, NEW x \in A PROVE c[A] = u[x] + c[A \ {x}]
    <3>1. A \ {x} \in SUBSET S
      OBVIOUS
    <3>2. a[A] = w[x] + a[A \ {x}] /\ b[A] = v[x] + b[A \ {x}]
      BY <2>1, <2>2
    <3>3. c[A] = a[A] + b[A] /\ c[A \ {x}] = a[A \ {x}] + b[A \ {x}]
      BY <3>1
    <3>4. /\ a[A \ {x}] \in Nat /\ b[A \ {x}] \in Nat /\ w[x] \in Nat /\ v[x] \in Nat
          /\ u[x] = w[x] + v[x]
      BY <2>1, <2>2, <3>1
    <3> QED BY <3>2, <3>3, <3>4
  <2> HIDE DEF c
  <2> QED BY <2>3, <2>4 DEF SumTable
<1>4. SumOver(S, u) = c[S]
  <2> HIDE DEF c
  <2> QED BY <1>3, SumIs
<1>5. SumOver(S, w) = a[S] /\ SumOver(S, v) = b[S]
  BY <1>1, <1>2, SumIs
<1> QED BY <1>4, <1>5

\* The same term for every element.
LEMMA SumConstant ==
  ASSUME NEW S, IsFiniteSet(S), NEW n \in Nat, NEW w, \A x \in S : w[x] = n
  PROVE  SumOver(S, w) = Cardinality(S) * n
<1> DEFINE c == [A \in SUBSET S |-> Cardinality(A) * n]
<1>1. \A A \in SUBSET S : IsFiniteSet(A) /\ Cardinality(A) \in Nat
  BY FS_Subset, FS_CardinalityType
<1>2. \A k \in Nat : k * n \in Nat
  OBVIOUS
<1>3. c \in [SUBSET S -> Nat] /\ c[{}] = 0
  BY <1>1, <1>2, FS_EmptySet
<1>4. ASSUME NEW A \in SUBSET S, NEW x \in A PROVE c[A] = w[x] + c[A \ {x}]
  <2>1. Cardinality(A) \in Nat \ {0} /\ Cardinality(A \ {x}) = Cardinality(A) - 1
    BY <1>1, OneLess
  <2>2. \A k \in Nat \ {0} : k * n = n + (k - 1) * n
    OBVIOUS
  <2> QED BY <2>1, <2>2
<1>5. SumTable(S, w, c)
  <2> HIDE DEF c
  <2> QED BY <1>3, <1>4 DEF SumTable
<1> HIDE DEF c
<1>6. SumOver(S, w) = c[S]
  BY <1>5, SumIs
<1> QED BY <1>6 DEF c

\* The elements of two disjoint sets.
LEMMA TogetherCard ==
  ASSUME NEW A, IsFiniteSet(A), NEW B, IsFiniteSet(B), A \cap B = {}
  PROVE  Cardinality(A \cup B) = Cardinality(A) + Cardinality(B)
<1>1. Cardinality(A \cap B) = 0
  BY FS_EmptySet
<1>2. Cardinality(A \cup B) = Cardinality(A) + Cardinality(B) - Cardinality(A \cap B)
  BY FS_Union
<1>3. Cardinality(A) \in Nat /\ Cardinality(B) \in Nat
  BY FS_CardinalityType
<1> QED BY <1>1, <1>2, <1>3

\* The elements of disjoint sets.
LEMMA SumDisjoint ==
  ASSUME NEW P, IsFiniteSet(P), NEW X, IsFiniteSet(X), NEW T \in [P -> SUBSET X],
         \A p, q \in P : p # q => T[p] \cap T[q] = {},
         NEW w, \A p \in P : w[p] = Cardinality(T[p])
  PROVE  SumOver(P, w) = Cardinality(UNION {T[p] : p \in P})
<1> DEFINE U(A) == UNION {T[p] : p \in A}
           c == [A \in SUBSET P |-> Cardinality(U(A))]
<1>1. \A A \in SUBSET P : U(A) \subseteq X
  OBVIOUS
<1>2. \A B \in SUBSET X : IsFiniteSet(B) /\ Cardinality(B) \in Nat
  BY FS_Subset, FS_CardinalityType
<1>3. c \in [SUBSET P -> Nat] /\ c[{}] = 0
  <2>1. U({}) = {}
    OBVIOUS
  <2>2. \A A \in SUBSET P : Cardinality(U(A)) \in Nat
    BY <1>1, <1>2
  <2>3. Cardinality(U({})) = 0
    BY <2>1, FS_EmptySet
  <2> HIDE DEF U
  <2> QED BY <2>2, <2>3
<1>4. ASSUME NEW A \in SUBSET P, NEW p \in A PROVE c[A] = w[p] + c[A \ {p}]
  <2>1. U(A) = T[p] \cup U(A \ {p}) /\ T[p] \cap U(A \ {p}) = {}
    OBVIOUS
  <2>2. IsFiniteSet(T[p]) /\ Cardinality(T[p]) \in Nat
    BY <1>2
  <2>3. IsFiniteSet(U(A \ {p})) /\ Cardinality(U(A \ {p})) \in Nat
    <3>1. U(A \ {p}) \in SUBSET X
      OBVIOUS
    <3> HIDE DEF U
    <3> QED BY <1>2, <3>1
  <2> HIDE DEF U
  <2>4. Cardinality(T[p] \cup U(A \ {p})) = Cardinality(T[p]) + Cardinality(U(A \ {p}))
    BY <2>1, <2>2, <2>3, TogetherCard
  <2>5. c[A] = Cardinality(U(A)) /\ c[A \ {p}] = Cardinality(U(A \ {p}))
    OBVIOUS
  <2> QED BY <2>1, <2>4, <2>5
<1>5. SumTable(P, w, c)
  <2> HIDE DEF c
  <2> QED BY <1>3, <1>4 DEF SumTable
<1>6. SumOver(P, w) = c[P]
  <2> HIDE DEF c
  <2> QED BY <1>5, SumIs
<1>7. c[P] = Cardinality(U(P))
  <2> HIDE DEF U
  <2> QED OBVIOUS
<1> QED BY <1>6, <1>7

\* The sum of numbers is one.
LEMMA SumType ==
  ASSUME NEW S, IsFiniteSet(S), NEW w \in [S -> Nat]
  PROVE  SumOver(S, w) \in Nat
<1>1. PICK total : SumTable(S, w, total)
  BY SumsExist
<1>2. SumOver(S, w) = total[S]
  BY <1>1, SumIs, Zenon
<1>3. total \in [SUBSET S -> Nat]
  BY <1>1 DEF SumTable
<1>4. total[S] \in Nat
  BY <1>3
<1> QED BY <1>2, <1>4

\* One term changes.
LEMMA SumOneChanged ==
  ASSUME NEW P, IsFiniteSet(P), NEW w \in [P -> Nat], NEW v \in [P -> Nat],
         NEW p \in P, \A x \in P \ {p} : v[x] = w[x]
  PROVE  /\ SumOver(P, v) \in Nat /\ SumOver(P, w) \in Nat
         /\ SumOver(P, v) + w[p] = SumOver(P, w) + v[p]
<1> DEFINE S == P \ {p}
<1>1. S \in SUBSET P /\ IsFiniteSet(S) /\ \A x \in S : x \in P \ {p}
  BY FS_Subset
<1>2. SumOver(P, w) = SumOver(P \ {p}, w) + w[p] /\ SumOver(P \ {p}, w) \in Nat
  BY SumLess
<1>3. SumOver(P, v) = SumOver(P \ {p}, v) + v[p] /\ SumOver(P \ {p}, v) \in Nat
  BY SumLess
<1>4. SumOver(S, v) = SumOver(S, w)
  BY <1>1, SumSame
<1>5. w[p] \in Nat /\ v[p] \in Nat
  OBVIOUS
<1> QED BY <1>2, <1>3, <1>4, <1>5

\* Two terms change.
LEMMA SumChanged ==
  ASSUME NEW P, IsFiniteSet(P), NEW w \in [P -> Nat], NEW v \in [P -> Nat],
         NEW p \in P, NEW q \in P, p # q, \A x \in P \ {p, q} : v[x] = w[x]
  PROVE  /\ SumOver(P, v) \in Nat /\ SumOver(P, w) \in Nat
         /\ SumOver(P, v) + w[p] + w[q] = SumOver(P, w) + v[p] + v[q]
<1> DEFINE Q == P \ {q}
           S == Q \ {p}
<1>1. /\ Q \in SUBSET P /\ IsFiniteSet(Q) /\ p \in Q
      /\ S \in SUBSET P /\ IsFiniteSet(S) /\ \A x \in S : x \in P \ {p, q}
  BY FS_Subset
<1>2. /\ SumOver(Q, w) = SumOver(Q \ {p}, w) + w[p] /\ SumOver(Q \ {p}, w) \in Nat
      /\ SumOver(P, w) = SumOver(P \ {q}, w) + w[q]
  BY <1>1, SumLess
<1>3. /\ SumOver(Q, v) = SumOver(Q \ {p}, v) + v[p] /\ SumOver(Q \ {p}, v) \in Nat
      /\ SumOver(P, v) = SumOver(P \ {q}, v) + v[q]
  BY <1>1, SumLess
<1>4. SumOver(S, v) = SumOver(S, w)
  BY <1>1, SumSame
<1>5. w[p] \in Nat /\ w[q] \in Nat /\ v[p] \in Nat /\ v[q] \in Nat
  OBVIOUS
<1> QED BY <1>2, <1>3, <1>4, <1>5

\* What the folds of the community modules compute: an iteration that picks by CHOOSE.
Iterates(S, w, f) ==
  f = [A \in SUBSET S |-> IF A = {} THEN 0 ELSE w[CHOOSE x \in A : TRUE] + f[A \ {CHOOSE x \in A : TRUE}]]

\* The sums are such an iteration ...
LEMMA FoldThere ==
  ASSUME NEW S, NEW w, NEW total, SumTable(S, w, total)
  PROVE  Iterates(S, w, total)
<1>1. /\ total \in [SUBSET S -> Nat] /\ total[{}] = 0
      /\ \A A \in SUBSET S : \A x \in A : total[A] = w[x] + total[A \ {x}]
  BY DEF SumTable
<1>2. ASSUME NEW A \in SUBSET S, A # {}
      PROVE  total[A] = w[CHOOSE x \in A : TRUE] + total[A \ {CHOOSE x \in A : TRUE}]
  <2>1. (CHOOSE x \in A : TRUE) \in A
    BY <1>2
  <2> QED BY <1>1, <2>1
<1>3. total = [A \in SUBSET S |-> total[A]]
  BY <1>1
<1> QED BY <1>1, <1>2, <1>3 DEF Iterates

\* ... and every such iteration gives the sum.
LEMMA FoldIs ==
  ASSUME NEW S, IsFiniteSet(S), NEW w, NEW total, SumTable(S, w, total), NEW f, Iterates(S, w, f)
  PROVE  f[S] = SumOver(S, w)
<1> DEFINE pick == [A \in SUBSET S |-> CHOOSE x \in A : TRUE]
<1>1. f[{}] = 0
  BY DEF Iterates
<1>2. ASSUME NEW A \in SUBSET S, A # {} PROVE pick[A] \in A /\ f[A] = w[pick[A]] + f[A \ {pick[A]}]
  <2>1. pick[A] = CHOOSE x \in A : TRUE
    OBVIOUS
  <2>2. pick[A] \in A
    BY <1>2, <2>1
  <2>3. f[A] = w[CHOOSE x \in A : TRUE] + f[A \ {CHOOSE x \in A : TRUE}]
    BY <1>2 DEF Iterates
  <2> QED BY <2>1, <2>2, <2>3
<1> HIDE DEF pick
<1>3. ByPicks(S, w, pick, f)
  BY <1>1, <1>2 DEF ByPicks
<1>4. \A A \in SUBSET S : f[A] = total[A]
  BY <1>3, SumsOf
<1>5. SumOver(S, w) = total[S]
  BY SumIs
<1> QED BY <1>4, <1>5
=============================================================================
