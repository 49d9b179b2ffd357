---------------------------- MODULE BuddyProofs ----------------------------
(***************************************************************************)
(* Proofs about the buddy allocator of buddy/mpool.c, for every pool size, *)
(* minimum size and set of requests: the chunks partition the pool and the *)
(* flags are right; the allocator merges completely and splits only the    *)
(* smallest chunk it can; every step of it is one that Heap allows, so a   *)
(* request is refused only when no place for it exists; and the statistics *)
(* of buddy/mstat.c agree with each other, the counters and the client.    *)
(* A call never leaves a chunk behind and has only so many steps.          *)
(***************************************************************************)
EXTENDS MStat, Numbers, FiniteSetTheorems, TLAPS

Orders == 0..MaxLog+1

-----------------------------------------------------------------------------
(* Powers of two and alignment. *)

\* Multiplying by a natural number keeps the order: the only fact of nonlinear
\* arithmetic the proofs use beyond the ring laws.
LEMMA TimesMonotone ==
  ASSUME NEW m \in Int, NEW n \in Int, NEW p \in Nat, m <= n
  PROVE  m * p <= n * p
<1>1. (n - m) * p >= 0
  <2>1. n - m \in Nat
    OBVIOUS
  <2> QED BY <2>1
<1>2. (n - m) * p = n * p - m * p
  OBVIOUS
<1> QED BY <1>1, <1>2

\* A shift by a legal width is a positive number (mpool.c:41).
LEMMA PowType ==
  ASSUME NEW k \in Orders
  PROVE  Pow2[k] \in Nat /\ Pow2[k] >= 1
<1>1. Pow2 \in [Orders -> Nat \ {0}]
  BY PowAssumption DEF Orders
<1>2. Pow2[k] \in Nat \ {0}
  BY <1>1
<1> QED BY <1>2

\* Halving a chunk: 1 << (k + 1) is twice 1 << k (mpool.c:172).
LEMMA PowDouble ==
  ASSUME NEW k \in 0..MaxLog
  PROVE  Pow2[k + 1] = Pow2[k] + Pow2[k]
<1>1. Pow2[k + 1] = Pow2[k] * Pow2[1]
  BY PowAssumption
<1>2. Pow2[k] * 2 = Pow2[k] + Pow2[k]
  <2>1. k \in Orders
    BY PowAssumption DEF Orders
  <2> QED BY <2>1, PowType
<1> QED BY <1>1, <1>2, PowAssumption

\* A multiple of 1 << k is aligned to it; the bound of the quantifier of Aligned
\* is only there to make it finite.
LEMMA AlignedIntro ==
  ASSUME NEW k \in Orders, NEW n \in Nat
  PROVE  n * Pow2[k] \in Nat /\ Aligned(n * Pow2[k], k)
<1>1. n * Pow2[k] \in Nat /\ n <= n * Pow2[k]
  <2>1. n * 1 <= n * Pow2[k]
    <3>1. 1 * n <= Pow2[k] * n
      BY PowType, TimesMonotone
    <3> QED BY <3>1, PowType
  <2> QED BY <2>1, PowType
<1> QED BY <1>1 DEF Aligned

LEMMA AlignedElim ==
  ASSUME NEW k \in Orders, NEW a \in Nat, Aligned(a, k)
  PROVE  \E n \in Nat : a = n * Pow2[k]
BY DEF Aligned

\* Alignment to a chunk size implies alignment to the smaller ones.
LEMMA AlignedDown ==
  ASSUME NEW j \in Orders, NEW k \in Orders, j <= k, NEW a \in Nat, Aligned(a, k)
  PROVE  Aligned(a, j)
<1>1. PICK n \in Nat : a = n * Pow2[k]
  BY AlignedElim
<1>2. k - j \in Orders /\ j + (k - j) = k
  BY PowAssumption DEF Orders
<1>3. Pow2[k] = Pow2[j] * Pow2[k - j]
  <2>1. j + (k - j) <= MaxLog + 1
    BY <1>2, PowAssumption DEF Orders
  <2> QED BY <1>2, <2>1, PowAssumption DEF Orders
<1>4. a = (n * Pow2[k - j]) * Pow2[j]
  <2> DEFINE p == Pow2[j]  q == Pow2[k - j]
  <2>1. p \in Nat /\ q \in Nat
    BY <1>2, PowType
  <2>2. a = n * (p * q)
    BY <1>1, <1>3
  <2>3. n * (p * q) = (n * q) * p
    <3> HIDE DEF p, q
    <3> QED BY <2>1
  <2> QED BY <2>2, <2>3
<1>5. n * Pow2[k - j] \in Nat
  BY <1>2, PowType
<1> QED BY <1>4, <1>5, AlignedIntro

\* The halves of an aligned chunk are aligned to their own size.
LEMMA AlignedUp ==
  ASSUME NEW k \in Orders, NEW a \in Nat, Aligned(a, k)
  PROVE  a + Pow2[k] \in Nat /\ Aligned(a + Pow2[k], k)
<1>1. PICK n \in Nat : a = n * Pow2[k]
  BY AlignedElim
<1>2. a + Pow2[k] = (n + 1) * Pow2[k]
  BY <1>1, PowType
<1> QED BY <1>2, AlignedIntro

\* Chunks nest: a place aligned to a small chunk, below one aligned to a larger
\* one, leaves room for the small chunk.
LEMMA Nesting ==
  ASSUME NEW j \in Orders, NEW k \in Orders, j <= k, NEW c \in Nat, NEW x \in Nat,
         Aligned(c, j), Aligned(x, k), c < x
  PROVE  c + Pow2[j] <= x
<1>1. PICK m \in Nat : c = m * Pow2[j]
  BY AlignedElim
<1>2. PICK n \in Nat : x = n * Pow2[j]
  BY AlignedElim, AlignedDown
<1>3. m + 1 <= n
  <2>1. SUFFICES ASSUME n <= m PROVE FALSE
    OBVIOUS
  <2>2. n * Pow2[j] <= m * Pow2[j]
    BY <2>1, PowType, TimesMonotone
  <2> QED BY <2>2, <1>1, <1>2
<1>4. (m + 1) * Pow2[j] <= n * Pow2[j]
  BY <1>3, PowType, TimesMonotone
<1>5. (m + 1) * Pow2[j] = m * Pow2[j] + Pow2[j]
  BY PowType
<1> QED BY <1>1, <1>2, <1>4, <1>5, PowType

\* The right half of a chunk is not aligned to the size of the chunk.
LEMMA RightHalfOdd ==
  ASSUME NEW k \in 0..MaxLog, NEW a \in Nat, Aligned(a, k + 1)
  PROVE  ~Aligned(a + Pow2[k], k + 1)
<1> k \in Orders /\ k + 1 \in Orders
  BY PowAssumption DEF Orders
<1>1. SUFFICES ASSUME Aligned(a + Pow2[k], k + 1) PROVE FALSE
  OBVIOUS
<1>2. a + Pow2[k] \in Nat /\ a < a + Pow2[k]
  BY PowType
<1>3. a + Pow2[k + 1] <= a + Pow2[k]
  BY <1>1, <1>2, Nesting
<1> QED BY <1>3, PowDouble, PowType

\* A place aligned to a size and not to the next is in the right half.
LEMMA OddIsRightHalf ==
  ASSUME NEW k \in 0..MaxLog, NEW a \in Nat, Aligned(a, k), ~Aligned(a, k + 1)
  PROVE  a - Pow2[k] \in Nat /\ Aligned(a - Pow2[k], k + 1)
<1> k \in Orders /\ k + 1 \in Orders
  BY PowAssumption DEF Orders
<1>1. PICK n \in Nat : a = n * Pow2[k]
  BY AlignedElim
<1>2. PICK m \in Nat : n = 2 * m \/ n = 2 * m + 1
  <2>1. n \div 2 \in Nat /\ (n = 2 * (n \div 2) \/ n = 2 * (n \div 2) + 1)
    OBVIOUS
  <2> QED BY <2>1
<1>3. m * Pow2[k + 1] = (2 * m) * Pow2[k]
  BY PowDouble, PowType
<1>4. n # 2 * m
  BY <1>1, <1>3, AlignedIntro
<1>5. a - Pow2[k] = m * Pow2[k + 1]
  <2>1. (2 * m + 1) * Pow2[k] = (2 * m) * Pow2[k] + Pow2[k]
    BY PowType
  <2> QED BY <2>1, <1>1, <1>2, <1>3, <1>4, PowType
<1> QED BY <1>5, AlignedIntro

\* The pool starts and ends at multiples of its size.
LEMMA PoolAligned ==
  /\ PoolSize \in Nat
  /\ \A k \in Orders : Aligned(0, k)
  /\ \A k \in 0..MaxLog : Aligned(PoolSize, k)
<1>1. MaxLog \in Orders
  BY PowAssumption DEF Orders
<1>2. \A k \in Orders : Aligned(0, k)
  <2> TAKE k \in Orders
  <2>1. 0 * Pow2[k] = 0
    BY PowType
  <2> QED BY <2>1, AlignedIntro
<1>3. PoolSize \in Nat /\ Aligned(PoolSize, MaxLog)
  <2>1. 1 * Pow2[MaxLog] = Pow2[MaxLog]
    BY <1>1, PowType
  <2> QED BY <1>1, <2>1, PowType, AlignedIntro DEF PoolSize
<1>4. \A k \in 0..MaxLog : k \in Orders /\ k <= MaxLog
  BY PowAssumption DEF Orders
<1> QED BY <1>1, <1>2, <1>3, <1>4, AlignedDown

-----------------------------------------------------------------------------
(* A set N of chunks with the headers h, as values: what the two loops do to  *)
(* them is shown here once, apart from the state machine.                     *)

\* The chunks are an aligned partition of the pool.
Tiling(N, h) ==
  /\ N \subseteq Slots
  /\ h \in [Slots -> Header]
  /\ \A a \in N : h[a].logsize \in MinLog..MaxLog /\ Aligned(a, h[a].logsize)
  /\ \A a, b \in N : a < b => a + Pow2[h[a].logsize] <= b
  /\ \A x \in Slots : \E a \in N : a <= x /\ x < a + Pow2[h[a].logsize]

\* LR is right.
Sides(N, h) == \A a \in N : h[a].right <=> ~Aligned(a, h[a].logsize + 1)

\* PARENT of a chunk is right for an edge at e.
Edge(h, a, e) ==
  \A j \in h[a].logsize..(MaxLog - 1) :
    Aligned(e, j) /\ ~Aligned(e, j + 1)
      => (h[a].parent <=> ~Aligned(e - Pow2[j], j + 2))

Parents(N, h) == \A a \in N : Edge(h, a, a + Pow2[h[a].logsize])

Sound(N, h) == Tiling(N, h) /\ Sides(N, h) /\ Parents(N, h)

\* The sizes of chunks are legal shift widths.
LEMMA OrderRange ==
  /\ MaxLog \in Nat /\ MinLog \in Nat
  /\ \A k \in MinLog..MaxLog : k \in Orders /\ k \in 0..MaxLog /\ k + 1 \in Orders
BY PowAssumption, SizeAssumption DEF Orders

\* A place in the pool where a chunk may start is a header slot.
LEMMA SlotIntro ==
  ASSUME NEW a \in Nat, NEW k \in Orders, MinLog <= k, Aligned(a, k), a < PoolSize
  PROVE  a \in Slots
<1>1. Aligned(a, MinLog)
  <2>1. MinLog \in Orders
    BY PowAssumption, SizeAssumption DEF Orders
  <2> QED BY <2>1, AlignedDown
<1> QED BY <1>1, PoolAligned DEF Slots

\* A chunk ends inside the pool.
LEMMA EndsInPool ==
  ASSUME NEW a \in Slots, NEW k \in 0..MaxLog, Aligned(a, k)
  PROVE  a \in Nat /\ a < PoolSize /\ a + Pow2[k] <= PoolSize
<1>1. a \in Nat /\ a < PoolSize
  BY PoolAligned DEF Slots
<1>2. k \in Orders
  BY PowAssumption DEF Orders
<1> QED BY <1>1, <1>2, PoolAligned, Nesting

\* Only the whole pool has a chunk of its size.
LEMMA TopAtZero ==
  ASSUME NEW a \in Slots, Aligned(a, MaxLog)
  PROVE  a = 0
<1>1. a \in Nat /\ a < PoolSize
  BY PoolAligned DEF Slots
<1>2. MaxLog \in Orders
  BY PowAssumption DEF Orders
<1>3. SUFFICES ASSUME 0 < a PROVE FALSE
  BY <1>1
<1>4. 0 + Pow2[MaxLog] <= a
  <2>1. 0 \in Nat /\ Aligned(0, MaxLog) /\ MaxLog <= MaxLog
    BY <1>2, PoolAligned, PowAssumption
  <2> QED BY <1>1, <1>2, <1>3, <2>1, Nesting
<1> QED BY <1>1, <1>2, <1>4, PowType DEF PoolSize

\* Changing avail, or memory that is not a header of a chunk, keeps the chunks
\* sound (mpool.c:157, 251, 284; test3.c:52).
LEMMA FrameKeeps ==
  ASSUME NEW N, NEW h, NEW g, Sound(N, h), g \in [Slots -> Header],
         \A a \in N : /\ g[a].logsize = h[a].logsize
                      /\ g[a].right = h[a].right
                      /\ g[a].parent = h[a].parent
  PROVE  Sound(N, g)
<1>1. Tiling(N, g)
  BY DEF Sound, Tiling
<1>2. Sides(N, g)
  BY DEF Sound, Sides
<1>3. Parents(N, g)
  BY DEF Sound, Parents, Edge
<1> QED BY <1>1, <1>2, <1>3 DEF Sound

\* The place of a chunk's buddy, from the LR flag (mpool.c:259-269).
Buddy2(h, a) == IF h[a].right THEN a - Pow2[h[a].logsize] ELSE a + Pow2[h[a].logsize]

\* There is a chunk at the buddy's place: a smaller or larger one that covers it
\* would have to cross a boundary of the chunk itself.
LEMMA BuddyThere ==
  ASSUME NEW N, NEW h, Sound(N, h), NEW a \in N, h[a].logsize < MaxLog
  PROVE  Buddy2(h, a) \in N
<1> DEFINE k == h[a].logsize  b == Buddy2(h, a)
<1>0. a \in Slots /\ a \in Nat /\ k \in MinLog..MaxLog /\ Aligned(a, k)
  BY DEF Sound, Tiling, Slots
<1>1. k \in Orders /\ k + 1 \in Orders /\ k \in 0..MaxLog /\ k + 1 \in 0..MaxLog
  BY <1>0, OrderRange
<1>2. b \in Slots /\ b \in Nat /\ Aligned(b, k) /\ (h[a].right => Aligned(b, k + 1))
  <2>1. CASE h[a].right
    <3>1. ~Aligned(a, k + 1)
      BY <2>1 DEF Sound, Sides
    <3>2. b = a - Pow2[k] /\ b \in Nat /\ Aligned(b, k + 1)
      BY <1>0, <1>1, <2>1, <3>1, OddIsRightHalf DEF Buddy2
    <3>3. Aligned(b, k)
      BY <1>1, <3>2, AlignedDown
    <3>4. b < PoolSize
      BY <1>0, <1>1, <3>2, PowType, EndsInPool, PoolAligned
    <3> QED BY <1>0, <1>1, <3>2, <3>3, <3>4, SlotIntro
  <2>2. CASE ~h[a].right
    <3>1. Aligned(a, k + 1)
      BY <2>2 DEF Sound, Sides
    <3>2. b = a + Pow2[k] /\ b \in Nat /\ Aligned(b, k)
      BY <1>0, <1>1, <2>2, AlignedUp DEF Buddy2
    <3>3. b < PoolSize
      BY <1>0, <1>1, <3>1, <3>2, EndsInPool, PowDouble, PowType, PoolAligned
    <3> QED BY <1>0, <1>1, <2>2, <3>2, <3>3, SlotIntro
  <2> QED BY <2>1, <2>2
<1>3. PICK c \in N : c <= b /\ b < c + Pow2[h[c].logsize]
  BY <1>2 DEF Sound, Tiling
<1> DEFINE j == h[c].logsize
<1>4. c \in Slots /\ c \in Nat /\ j \in MinLog..MaxLog /\ Aligned(c, j)
  BY DEF Sound, Tiling, Slots
<1>5. j \in Orders /\ j \in Nat /\ Pow2[j] \in Nat /\ Pow2[k] \in Nat /\ Pow2[k] >= 1
  BY <1>1, <1>4, OrderRange, PowType
<1>6. SUFFICES ASSUME c < b PROVE FALSE
  BY <1>2, <1>3, <1>4
<1>7. CASE ~h[a].right
  <2>1. b = a + Pow2[k]
    BY <1>7 DEF Buddy2
  <2>2. a < c => b <= c
    BY <2>1 DEF Sound, Tiling
  <2>3. c < a => c + Pow2[j] <= a
    BY DEF Sound, Tiling
  <2> QED BY <1>0, <1>2, <1>3, <1>4, <1>5, <1>6, <2>1, <2>2, <2>3
<1>8. CASE h[a].right
  <2>1. b = a - Pow2[k]
    BY <1>8 DEF Buddy2
  <2>2. c + Pow2[j] <= a
    <3>1. c < a
      BY <1>0, <1>2, <1>4, <1>5, <1>6, <2>1
    <3> QED BY <3>1 DEF Sound, Tiling
  <2>3. CASE j <= k
    BY <1>1, <1>2, <1>3, <1>4, <1>5, <1>6, <2>3, Nesting
  <2>4. CASE k + 1 <= j
    <3>1. c + Pow2[j] \in Nat /\ Aligned(c + Pow2[j], j)
      BY <1>4, <1>5, AlignedUp
    <3>2. b + Pow2[k + 1] <= c + Pow2[j]
      BY <1>1, <1>2, <1>3, <1>5, <1>8, <2>4, <3>1, Nesting
    <3> QED BY <1>0, <1>1, <1>2, <1>4, <1>5, <2>1, <2>2, <3>2, PowDouble
  <2> QED BY <1>1, <1>5, <2>3, <2>4 DEF Orders
<1> QED BY <1>7, <1>8

\* The headers that a split and a merge write (mpool.c:172-200, 308-347).
LEMMA HalfTypes ==
  ASSUME NEW x \in Header, x.logsize - 1 \in Nat
  PROVE  /\ LeftHalf(x) \in Header /\ LeftHalf(x).logsize = x.logsize - 1
         /\ LeftHalf(x).right = FALSE /\ LeftHalf(x).parent = x.right
         /\ LeftHalf(x).avail = x.avail
         /\ RightHalf(x) \in Header /\ RightHalf(x).logsize = x.logsize - 1
         /\ RightHalf(x).right = TRUE /\ RightHalf(x).parent = x.parent
         /\ RightHalf(x).avail = TRUE
<1>1. x.avail \in BOOLEAN /\ x.right \in BOOLEAN /\ x.parent \in BOOLEAN
  BY DEF Header
<1>2. LeftHalf(x) \in Header /\ RightHalf(x) \in Header
  BY <1>1 DEF Header, LeftHalf, RightHalf
<1> QED BY <1>2 DEF LeftHalf, RightHalf

LEMMA MergedType ==
  ASSUME NEW x \in Header, NEW y \in Header
  PROVE  /\ Merged(x, y) \in Header /\ Merged(x, y).logsize = x.logsize + 1
         /\ Merged(x, y).right = x.parent /\ Merged(x, y).parent = y.parent
         /\ Merged(x, y).avail = TRUE
<1>1. x.parent \in BOOLEAN /\ y.parent \in BOOLEAN /\ x.logsize + 1 \in Nat
  BY DEF Header
<1>2. Merged(x, y) \in Header
  BY <1>1 DEF Header, Merged
<1> QED BY <1>2 DEF Merged

\* Splitting a chunk keeps the chunks sound (mpool.c:164-206).
LEMMA SplitKeeps ==
  ASSUME NEW N, NEW h, Sound(N, h), NEW c \in N,
         NEW k, k = h[c].logsize - 1, MinLog <= k,
         NEW r, r = c + Pow2[k],
         NEW g, g = [h EXCEPT ![c] = LeftHalf(h[c]), ![r] = RightHalf(h[c])]
  PROVE  r \in Slots /\ r \notin N /\ r # c /\ Sound(N \cup {r}, g)
<1>0. c \in Slots /\ c \in Nat /\ k + 1 = h[c].logsize /\ k + 1 \in MinLog..MaxLog
      /\ Aligned(c, k + 1) /\ h \in [Slots -> Header] /\ N \subseteq Slots
  <2>1. c \in Slots /\ h[c].logsize \in MinLog..MaxLog /\ Aligned(c, h[c].logsize)
        /\ h \in [Slots -> Header] /\ N \subseteq Slots
    BY DEF Sound, Tiling
  <2>2. h[c].logsize \in Nat
    BY <2>1, OrderRange
  <2> QED BY <2>1, <2>2 DEF Slots
<1>1. k \in MinLog..MaxLog /\ k \in 0..MaxLog /\ k \in Orders /\ k + 1 \in Orders
      /\ k + 1 \in 0..MaxLog /\ k < MaxLog
  BY <1>0, OrderRange DEF Orders
<1>2. Pow2[k] \in Nat /\ Pow2[k] >= 1 /\ Pow2[k + 1] = Pow2[k] + Pow2[k]
  BY <1>1, PowType, PowDouble
<1>3. Aligned(c, k) /\ r \in Nat /\ Aligned(r, k) /\ ~Aligned(r, k + 1)
  <2>1. Aligned(c, k)
    BY <1>0, <1>1, AlignedDown
  <2> QED BY <1>0, <1>1, <2>1, AlignedUp, RightHalfOdd
<1>4. r \in Slots /\ r # c
  <2>1. r < PoolSize
    BY <1>0, <1>1, <1>2, EndsInPool, PoolAligned
  <2> QED BY <1>0, <1>1, <1>2, <1>3, <2>1, SlotIntro
<1>5. r \notin N
  <2>1. c < r /\ r < c + Pow2[h[c].logsize]
    BY <1>0, <1>2
  <2> QED BY <1>0, <1>2, <2>1 DEF Sound, Tiling
<1>6. /\ g \in [Slots -> Header]
      /\ g[c].logsize = k /\ g[c].right = FALSE /\ g[c].parent = h[c].right
      /\ g[r].logsize = k /\ g[r].right = TRUE /\ g[r].parent = h[c].parent
      /\ \A a \in N \ {c} : g[a] = h[a]
  <2>1. h[c] \in Header /\ h[c].logsize - 1 = k /\ k \in Nat
    BY <1>0, <1>1
  <2>2. /\ LeftHalf(h[c]) \in Header /\ LeftHalf(h[c]).logsize = k
        /\ LeftHalf(h[c]).right = FALSE /\ LeftHalf(h[c]).parent = h[c].right
    <3>1. LeftHalf(h[c]) \in Header
      BY <2>1, HalfTypes, ZenonT(30)
    <3> QED BY <2>1, <3>1 DEF LeftHalf
  <2>3. /\ RightHalf(h[c]) \in Header /\ RightHalf(h[c]).logsize = k
        /\ RightHalf(h[c]).right = TRUE /\ RightHalf(h[c]).parent = h[c].parent
    BY <2>1, HalfTypes
  <2>4. g \in [Slots -> Header] /\ g[c] = LeftHalf(h[c]) /\ g[r] = RightHalf(h[c])
        /\ \A a \in N \ {c} : g[a] = h[a]
    BY <1>0, <1>4, <1>5, <2>2, <2>3
  <2> QED BY <2>2, <2>3, <2>4
<1>7. Tiling(N \cup {r}, g)
  <2>1. \A a \in N \cup {r} : g[a].logsize \in MinLog..MaxLog /\ Aligned(a, g[a].logsize)
    BY <1>1, <1>3, <1>6 DEF Sound, Tiling
  <2>2. ASSUME NEW a \in N \cup {r}, NEW b \in N \cup {r}, a < b
        PROVE  a + Pow2[g[a].logsize] <= b
    <3>1. CASE a \in N \ {c} /\ b \in N
      BY <2>2, <3>1, <1>6 DEF Sound, Tiling
    <3>2. CASE a \in N \ {c} /\ b = r
      <4>1. a \in Nat /\ a # c
        BY <3>2, <1>0 DEF Slots
      <4>2. CASE a < c
        <5>1. a + Pow2[h[a].logsize] <= c
          BY <3>2, <4>2 DEF Sound, Tiling
        <5>2. Pow2[h[a].logsize] \in Nat
          BY <3>2, OrderRange, PowType DEF Sound, Tiling
        <5> QED BY <1>0, <1>2, <1>6, <3>2, <4>1, <5>1, <5>2
      <4>3. CASE c < a
        <5>1. c + Pow2[h[c].logsize] <= a
          BY <3>2, <4>3 DEF Sound, Tiling
        <5> QED BY <1>0, <1>2, <2>2, <3>2, <4>1, <5>1
      <4> QED BY <1>0, <4>1, <4>2, <4>3
    <3>3. CASE a = c /\ b = r
      BY <3>3, <1>6, <1>2, <1>0
    <3>4. CASE a = c /\ b \in N
      <4>1. c + Pow2[h[c].logsize] <= b /\ b \in Nat
        BY <2>2, <3>4, <1>0 DEF Sound, Tiling, Slots
      <4> QED BY <1>0, <1>2, <1>6, <3>4, <4>1
    <3>5. CASE a = r /\ b \in N
      <4>1. c < b /\ b \in Nat
        BY <2>2, <3>5, <1>0, <1>2, <1>3 DEF Slots
      <4>2. c + Pow2[h[c].logsize] <= b
        BY <3>5, <4>1 DEF Sound, Tiling
      <4> QED BY <1>0, <1>2, <1>6, <3>5, <4>1, <4>2
    <3>6. a # r \/ b # r
      BY <2>2, <1>3
    <3> QED BY <3>1, <3>2, <3>3, <3>4, <3>5, <3>6
  <2>3. ASSUME NEW x \in Slots
        PROVE  \E a \in N \cup {r} : a <= x /\ x < a + Pow2[g[a].logsize]
    <3>1. PICK a \in N : a <= x /\ x < a + Pow2[h[a].logsize]
      BY DEF Sound, Tiling
    <3>2. CASE a # c
      BY <3>1, <3>2, <1>6
    <3>3. CASE a = c
      <4>1. x \in Nat /\ x < c + (Pow2[k] + Pow2[k])
        BY <3>1, <3>3, <1>0, <1>2 DEF Slots
      <4>2. CASE x < r
        BY <3>1, <3>3, <4>2, <1>6
      <4>3. CASE r <= x
        <5>1. x < r + Pow2[k]
          BY <4>1, <1>0, <1>2
        <5> QED BY <4>3, <5>1, <1>6
      <4>4. x < r \/ r <= x
        BY <4>1, <1>3
      <4> QED BY <4>2, <4>3, <4>4
    <3> QED BY <3>2, <3>3
  <2> QED BY <2>1, <2>2, <2>3, <1>0, <1>4, <1>6 DEF Tiling
<1>8. Sides(N \cup {r}, g)
  <2>1. ASSUME NEW a \in N \ {c} PROVE g[a].right <=> ~Aligned(a, g[a].logsize + 1)
    BY <1>6 DEF Sound, Sides
  <2>2. g[c].right <=> ~Aligned(c, g[c].logsize + 1)
    BY <1>0, <1>6
  <2>3. g[r].right <=> ~Aligned(r, g[r].logsize + 1)
    BY <1>3, <1>6
  <2> QED BY <2>1, <2>2, <2>3 DEF Sides
<1>9. Parents(N \cup {r}, g)
  <2>1. ASSUME NEW a \in N \ {c} PROVE Edge(g, a, a + Pow2[g[a].logsize])
    BY <1>6 DEF Sound, Parents, Edge
  <2>2. Edge(g, c, r)
    <3> SUFFICES ASSUME NEW j \in k..(MaxLog - 1), Aligned(r, j), ~Aligned(r, j + 1)
                 PROVE  h[c].right <=> ~Aligned(r - Pow2[j], j + 2)
      BY <1>6 DEF Edge
    <3>1. j = k
      <4>1. SUFFICES ASSUME k + 1 <= j PROVE FALSE
        BY <1>1
      <4>2. j \in Orders
        BY <1>1, OrderRange DEF Orders
      <4> QED BY <4>1, <4>2, <1>1, <1>3, AlignedDown
    <3>2. r - Pow2[j] = c
      BY <3>1, <1>0, <1>2
    <3>3. h[c].right <=> ~Aligned(c, (k + 1) + 1)
      BY <1>0 DEF Sound, Sides
    <3>4. (k + 1) + 1 = j + 2
      BY <3>1, <1>1
    <3> QED BY <3>2, <3>3, <3>4
  <2>3. Edge(g, r, r + Pow2[k])
    <3> DEFINE e == r + Pow2[k]
    <3>1. e = c + Pow2[h[c].logsize]
      BY <1>0, <1>2
    <3>2. Aligned(e, k + 1)
      <4>1. Aligned(c + Pow2[k + 1], k + 1)
        BY <1>0, <1>1, AlignedUp
      <4> QED BY <4>1, <3>1, <1>0
    <3>5. Edge(h, c, e)
      BY <3>1 DEF Sound, Parents
    <3> HIDE DEF e
    <3> SUFFICES Edge(g, r, e)
      BY DEF e
    <3> SUFFICES ASSUME NEW j \in k..(MaxLog - 1), Aligned(e, j), ~Aligned(e, j + 1)
                 PROVE  h[c].parent <=> ~Aligned(e - Pow2[j], j + 2)
      BY <1>6 DEF Edge
    <3>3. j # k
      BY <3>2
    <3>4. j \in h[c].logsize..(MaxLog - 1)
      BY <3>3, <1>0, <1>1, OrderRange
    <3> QED BY <3>4, <3>5 DEF Edge
  <2>4. \A a \in N \cup {r} : Edge(g, a, a + Pow2[g[a].logsize])
    BY <1>6, <2>1, <2>2, <2>3
  <2> QED BY <2>4 DEF Parents
<1> QED BY <1>4, <1>5, <1>7, <1>8, <1>9 DEF Sound

\* Merging two buddies keeps the chunks sound (mpool.c:292-347).
LEMMA MergeKeeps ==
  ASSUME NEW N, NEW h, Sound(N, h), NEW l \in N, NEW r \in N,
         NEW k, k = h[l].logsize, h[r].logsize = k, k < MaxLog,
         r = l + Pow2[k], ~h[l].right,
         NEW g, g = [h EXCEPT ![l] = Merged(h[l], h[r])]
  PROVE  Sound(N \ {r}, g)
<1>0. /\ l \in Slots /\ l \in Nat /\ r \in Slots /\ r \in Nat
      /\ k \in MinLog..MaxLog /\ Aligned(l, k) /\ Aligned(r, k) /\ Aligned(l, k + 1)
      /\ h \in [Slots -> Header] /\ N \subseteq Slots
  BY DEF Sound, Tiling, Sides, Slots
<1>1. k \in 0..MaxLog /\ k \in Orders /\ k + 1 \in Orders /\ k + 1 \in MinLog..MaxLog
  BY <1>0, OrderRange DEF Orders
<1>2. Pow2[k] \in Nat /\ Pow2[k] >= 1 /\ Pow2[k + 1] = Pow2[k] + Pow2[k]
  BY <1>1, PowType, PowDouble
<1>3. ~Aligned(r, k + 1) /\ l < r /\ r - Pow2[k] = l /\ r + Pow2[k] = l + Pow2[k + 1]
  BY <1>0, <1>1, <1>2, RightHalfOdd
<1>4. /\ g \in [Slots -> Header]
      /\ g[l].logsize = k + 1 /\ g[l].right = h[l].parent /\ g[l].parent = h[r].parent
      /\ \A a \in N \ {l} : g[a] = h[a]
  <2>1. h[l] \in Header /\ h[r] \in Header
    BY <1>0
  <2>2. Merged(h[l], h[r]) \in Header
    BY <2>1, MergedType
  <2>3. g \in [Slots -> Header] /\ g[l] = Merged(h[l], h[r]) /\ \A a \in N \ {l} : g[a] = h[a]
    BY <1>0, <2>2
  <2> QED BY <2>3 DEF Merged
<1>5. Tiling(N \ {r}, g)
  <2>1. \A a \in N \ {r} : g[a].logsize \in MinLog..MaxLog /\ Aligned(a, g[a].logsize)
    BY <1>0, <1>1, <1>4 DEF Sound, Tiling
  <2>2. ASSUME NEW a \in N \ {r}, NEW b \in N \ {r}, a < b
        PROVE  a + Pow2[g[a].logsize] <= b
    <3>1. CASE a # l
      BY <2>2, <3>1, <1>4 DEF Sound, Tiling
    <3>2. CASE a = l
      <4>1. b \in Nat /\ r <= b
        BY <2>2, <3>2, <1>0 DEF Sound, Tiling, Slots
      <4>2. r + Pow2[k] <= b
        BY <4>1, <1>0 DEF Sound, Tiling
      <4> QED BY <4>2, <3>2, <1>3, <1>4
    <3> QED BY <3>1, <3>2
  <2>3. ASSUME NEW x \in Slots
        PROVE  \E a \in N \ {r} : a <= x /\ x < a + Pow2[g[a].logsize]
    <3>1. PICK a \in N : a <= x /\ x < a + Pow2[h[a].logsize]
      BY DEF Sound, Tiling
    <3>2. CASE a # l /\ a # r
      BY <3>1, <3>2, <1>4
    <3>3. CASE a = l \/ a = r
      <4>1. x \in Nat
        BY DEF Slots
      <4>2. l <= x /\ x < l + Pow2[k + 1]
        BY <3>1, <3>3, <4>1, <1>0, <1>2, <1>3
      <4> QED BY <4>2, <1>3, <1>4, <1>0
    <3> QED BY <3>2, <3>3
  <2> QED BY <2>1, <2>2, <2>3, <1>0, <1>4 DEF Tiling
<1>6. Sides(N \ {r}, g)
  <2>1. ASSUME NEW a \in N \ {l} PROVE g[a].right <=> ~Aligned(a, g[a].logsize + 1)
    BY <1>4 DEF Sound, Sides
  <2>2. g[l].right <=> ~Aligned(l, g[l].logsize + 1)
    <3>1. Edge(h, l, r)
      BY DEF Sound, Parents
    <3>2. k \in h[l].logsize..(MaxLog - 1)
      BY <1>1, OrderRange
    <3>3. h[l].parent <=> ~Aligned(r - Pow2[k], k + 2)
      BY <1>0, <1>3, <3>1, <3>2 DEF Edge
    <3>4. k + 2 = (k + 1) + 1
      BY <1>1
    <3> QED BY <3>3, <3>4, <1>3, <1>4
  <2> QED BY <2>1, <2>2 DEF Sides
<1>7. Parents(N \ {r}, g)
  <2>1. ASSUME NEW a \in N \ {l} PROVE Edge(g, a, a + Pow2[g[a].logsize])
    BY <1>4 DEF Sound, Parents, Edge
  <2>2. Edge(g, l, l + Pow2[k + 1])
    <3> DEFINE e == l + Pow2[k + 1]
    <3>1. Edge(h, r, e)
      BY <1>3 DEF Sound, Parents
    <3> HIDE DEF e
    <3> SUFFICES Edge(g, l, e)
      BY DEF e
    <3> SUFFICES ASSUME NEW j \in (k + 1)..(MaxLog - 1), Aligned(e, j), ~Aligned(e, j + 1)
                 PROVE  h[r].parent <=> ~Aligned(e - Pow2[j], j + 2)
      BY <1>4 DEF Edge
    <3>2. j \in h[r].logsize..(MaxLog - 1)
      BY <1>1, OrderRange
    <3> QED BY <3>1, <3>2 DEF Edge
  <2>3. \A a \in N \ {r} : Edge(g, a, a + Pow2[g[a].logsize])
    BY <1>4, <2>1, <2>2
  <2> QED BY <2>3 DEF Parents
<1> QED BY <1>5, <1>6, <1>7 DEF Sound

\* Two buddies of one size are a left half and the right half next to it
\* (mpool.c:308-336): the return at line 334 is never taken.
LEMMA BuddyHalves ==
  ASSUME NEW N, NEW h, Sound(N, h), NEW a \in N, NEW k, k = h[a].logsize, k < MaxLog,
         NEW b, b = Buddy2(h, a), h[b].logsize = k,
         NEW l, l = IF h[a].right THEN b ELSE a,
         NEW r, r = IF h[a].right THEN a ELSE b
  PROVE  /\ b \in N /\ l \in N /\ r \in N /\ {l, r} = {a, b}
         /\ r = l + Pow2[k] /\ ~h[l].right /\ h[l].logsize = k /\ h[r].logsize = k
<1>1. b \in N
  BY BuddyThere
<1>2. a \in Nat /\ b \in Nat /\ k \in MinLog..MaxLog /\ Aligned(a, k)
  BY <1>1 DEF Sound, Tiling, Slots
<1>3. k \in 0..MaxLog /\ k \in Orders /\ Pow2[k] \in Nat
  BY <1>2, OrderRange, PowType
<1>4. CASE h[a].right
  <2>1. ~Aligned(a, k + 1)
    BY <1>4 DEF Sound, Sides
  <2>2. Aligned(b, k + 1)
    BY <1>2, <1>3, <1>4, <2>1, OddIsRightHalf DEF Buddy2
  <2>3. ~h[b].right
    BY <1>1, <2>2 DEF Sound, Sides
  <2> QED BY <1>1, <1>2, <1>3, <1>4, <2>3 DEF Buddy2
<1>5. CASE ~h[a].right
  BY <1>1, <1>2, <1>3, <1>5 DEF Buddy2
<1> QED BY <1>4, <1>5

-----------------------------------------------------------------------------
(* The state machine. *)

\* The sums at mpool.c:101 do not wrap.
NoSizeOverflow == \A n \in Requests : n + HdrSize < SizeMod

\* Where a call in progress stands: the chunk mpool_alloc splits is available
\* and large enough, the one mpool_free merges is nobody's.
Calls ==
  /\ pc \in {"split", "free"} => cur \in Nodes
  /\ pc = "split" => hdr[cur].avail /\ TotalSize(req) <= BlockSize(cur)
  /\ pc = "free" => held[cur] = NoRequest

\* The inductive invariant.  HeldFits is part of it because the client's writes
\* must stay off the headers of other chunks.
Inv ==
  TypeOK /\ ListsBySize /\ Sound(Nodes, hdr) /\ UsedIsHeld /\ HeldFits /\ Calls

LEMMA NodeType == Nodes \subseteq Slots /\ Slots \subseteq Nat
BY DEF Nodes, Slots

\* The pool starts with a header.
LEMMA ZeroSlot == 0 \in Slots /\ PoolSize \in Nat /\ PoolSize >= 1
<1>1. MaxLog \in Orders /\ MaxLog \in MinLog..MaxLog
  BY PowAssumption, SizeAssumption DEF Orders
<1>2. PoolSize \in Nat /\ PoolSize >= 1
  BY <1>1, PowType DEF PoolSize
<1>3. Aligned(0, MaxLog) /\ 0 < PoolSize /\ MinLog <= MaxLog
  BY <1>1, <1>2, PoolAligned, SizeAssumption
<1> QED BY <1>1, <1>2, <1>3, SlotIntro

LEMMA InitInv == Init => Inv
<1> SUFFICES ASSUME Init PROVE Inv
  OBVIOUS
<1>1. MaxLog \in Orders /\ MaxLog + 1 \in Orders /\ MaxLog \in MinLog..MaxLog
      /\ 0 \in Positions
  BY PowAssumption, SizeAssumption DEF Orders, Positions
<1>2. 0 \in Slots /\ PoolSize \in Nat /\ PoolSize >= 1
  BY ZeroSlot
<1>3. FirstHeader \in Header
  BY PowAssumption DEF FirstHeader, Header
<1>4. hdr \in [Slots -> Header] /\ hdr[0] = FirstHeader
  <2>1. PICK memory \in [Slots -> Junk] : hdr = [memory EXCEPT ![0] = FirstHeader]
    BY DEF Init
  <2> QED BY <1>2, <1>3, <2>1, JunkAssumption
<1>5. Nodes = {0}
  BY <1>1, <1>2 DEF Init, Nodes
<1>6. TypeOK
  <2>1. blktable \in [Positions -> SUBSET Slots]
    BY <1>2 DEF Init
  <2> QED BY <1>2, <1>4, <2>1, SizeAssumption DEF Init, TypeOK, NoRequest
<1>7. ListsBySize
  BY <1>1, <1>4, PowAssumption DEF Init, ListsBySize, FirstHeader, Positions
<1>8. Sound({0}, hdr)
  <2>1. hdr[0].logsize = MaxLog /\ ~hdr[0].right
    BY <1>4 DEF FirstHeader
  <2>2. Tiling({0}, hdr)
    <3>1. \A x \in Slots : 0 <= x /\ x < 0 + Pow2[hdr[0].logsize]
      BY <1>2, <2>1 DEF Slots, PoolSize
    <3> QED BY <1>1, <1>2, <1>4, <2>1, <3>1, PoolAligned DEF Tiling
  <2>3. Sides({0}, hdr)
    BY <1>1, <2>1, PoolAligned DEF Sides
  <2>4. Parents({0}, hdr)
    <3>1. hdr[0].logsize..(MaxLog - 1) = {}
      BY <2>1, PowAssumption
    <3>2. Edge(hdr, 0, 0 + Pow2[hdr[0].logsize])
      BY <3>1 DEF Edge
    <3> QED BY <3>2 DEF Parents
  <2> QED BY <2>2, <2>3, <2>4 DEF Sound
<1>9. UsedIsHeld /\ HeldFits /\ Calls
  <2>1. \A a \in Slots : held[a] = NoRequest
    BY DEF Init
  <2>2. hdr[0].avail
    BY <1>4 DEF FirstHeader
  <2>3. pc = "idle"
    BY DEF Init
  <2> QED BY <1>5, <2>1, <2>2, <2>3 DEF UsedIsHeld, HeldFits, Calls
<1> QED BY <1>5, <1>6, <1>7, <1>8, <1>9 DEF Inv

\* The steps that leave headers and lists alone (mpool.c:86-134, 210-248).
LEMMA QuietSteps ==
  ASSUME Inv,
         \/ \E n \in Requests : AllocCall(n)
         \/ AllocFind
         \/ AllocFail
         \/ \E a \in Slots : FreeCall(a)
         \/ UNCHANGED vars
  PROVE  Inv'
<1>1. UNCHANGED <<hdr, blktable, nsplits, nmerges>>
  BY DEF AllocCall, AllocFind, AllocFail, FreeCall, vars, pool
<1>2. Nodes' = Nodes
  BY <1>1 DEF Nodes
<1>3. ListsBySize' /\ Sound(Nodes', hdr')
  BY <1>1, <1>2 DEF Inv, ListsBySize
<1>4. ASSUME NEW n \in Requests, AllocCall(n) PROVE TypeOK' /\ UsedIsHeld' /\ HeldFits' /\ Calls'
  <2>1. n # NoRequest
    BY SizeAssumption DEF NoRequest
  <2>2. TypeOK'
    BY <1>1, <1>4, <2>1 DEF Inv, TypeOK, AllocCall
  <2> QED BY <1>1, <1>2, <1>4, <2>2 DEF Inv, AllocCall, UsedIsHeld, HeldFits, BlockSize, Calls
<1>5. ASSUME AllocFind PROVE TypeOK' /\ UsedIsHeld' /\ HeldFits' /\ Calls'
  <2>1. PICK p \in Positions : Suits(p, TotalSize(req)) /\ \E a \in blktable[p] : hdr[a].avail /\ cur' = a
    BY <1>5 DEF AllocFind
  <2>2. cur' \in blktable[p] /\ hdr[cur'].avail /\ cur' \in Slots /\ cur' \in Nodes
    BY <2>1 DEF Inv, TypeOK, Nodes
  <2>3. TotalSize(req) <= BlockSize(cur')
    BY <2>1, <2>2 DEF Inv, ListsBySize, Suits, BlockSize
  <2>4. pc' = "split" /\ pc = "search" /\ held' = held /\ req' = req
    BY <1>5 DEF AllocFind
  <2>5. TypeOK'
    BY <1>1, <2>2, <2>4 DEF Inv, TypeOK
  <2>6. Calls'
    BY <1>1, <1>2, <2>2, <2>3, <2>4 DEF Calls, BlockSize, TotalSize
  <2> QED BY <1>1, <1>2, <2>4, <2>5, <2>6 DEF Inv, UsedIsHeld, HeldFits, BlockSize
<1>6. ASSUME AllocFail PROVE TypeOK' /\ UsedIsHeld' /\ HeldFits' /\ Calls'
  BY <1>1, <1>2, <1>6 DEF Inv, TypeOK, AllocFail, UsedIsHeld, HeldFits, BlockSize, Calls
<1>7. ASSUME NEW a \in Slots, FreeCall(a) PROVE TypeOK' /\ UsedIsHeld' /\ HeldFits' /\ Calls'
  <2>1. /\ pc = "idle" /\ pc' = "free" /\ cur' = a /\ req' = req
        /\ held[a] # NoRequest /\ held' = [held EXCEPT ![a] = NoRequest]
    BY <1>7 DEF FreeCall
  <2>2. a \in Nodes
    BY <2>1 DEF Inv, UsedIsHeld
  <2>3. \A b \in Slots : held'[b] = IF b = a THEN NoRequest ELSE held[b]
    BY <2>1 DEF Inv, TypeOK
  <2>4. TypeOK'
    BY <1>1, <2>1 DEF Inv, TypeOK
  <2>5. UsedIsHeld'
    BY <1>1, <1>2, <2>1, <2>3, NodeType DEF Inv, UsedIsHeld
  <2>6. HeldFits'
    BY <1>1, <2>3 DEF Inv, HeldFits, BlockSize
  <2>7. Calls'
    BY <1>2, <2>1, <2>2, <2>3 DEF Calls
  <2> QED BY <2>4, <2>5, <2>6, <2>7
<1>8. ASSUME UNCHANGED vars PROVE TypeOK' /\ UsedIsHeld' /\ HeldFits' /\ Calls'
  BY <1>2, <1>8 DEF Inv, TypeOK, UsedIsHeld, HeldFits, BlockSize, Calls, vars
<1>9. TypeOK' /\ UsedIsHeld' /\ HeldFits' /\ Calls'
  BY <1>4, <1>5, <1>6, <1>7, <1>8
<1> QED BY <1>3, <1>9 DEF Inv

\* Marking a chunk changes its avail flag only (mpool.h:29, 34).
LEMMA AvailStep ==
  ASSUME NEW v \in BOOLEAN, hdr \in [Slots -> Header], cur \in Slots,
         hdr' = [hdr EXCEPT ![cur].avail = v]
  PROVE  /\ hdr' \in [Slots -> Header]
         /\ hdr'[cur].avail = v
         /\ \A a \in Slots \ {cur} : hdr'[a] = hdr[a]
         /\ \A a \in Slots : /\ hdr'[a].logsize = hdr[a].logsize
                              /\ hdr'[a].right = hdr[a].right
                              /\ hdr'[a].parent = hdr[a].parent
BY DEF Header

\* mpool_alloc marks the chunk used and returns it (mpool.c:157-159).
LEMMA ReturnStep == ASSUME NoSizeOverflow, Inv, AllocReturn PROVE Inv'
<1>1. /\ pc = "split" /\ pc' = "idle" /\ req' = NoRequest /\ cur' = 0
      /\ UNCHANGED <<blktable, nsplits, nmerges>>
      /\ hdr' = [hdr EXCEPT ![cur].avail = FALSE]
      /\ held' = [held EXCEPT ![cur] = req]
  BY DEF AllocReturn
<1>2. Nodes' = Nodes
  BY <1>1 DEF Nodes
<1>3. cur \in Nodes /\ cur \in Slots /\ req \in Requests
  BY <1>1 DEF Inv, Calls, TypeOK
<1>4. /\ hdr' \in [Slots -> Header]
      /\ ~hdr'[cur].avail
      /\ \A a \in Slots \ {cur} : hdr'[a] = hdr[a]
      /\ \A a \in Nodes : /\ hdr'[a].logsize = hdr[a].logsize
                          /\ hdr'[a].right = hdr[a].right
                          /\ hdr'[a].parent = hdr[a].parent
  BY <1>1, <1>3, AvailStep, NodeType DEF Inv, TypeOK
<1>5. \A a \in Slots : held'[a] = IF a = cur THEN req ELSE held[a]
  BY <1>1, <1>3 DEF Inv, TypeOK
<1>6. TypeOK'
  BY <1>1, <1>3, <1>4, ZeroSlot DEF Inv, TypeOK
<1>7. ListsBySize'
  BY <1>1, <1>4 DEF Inv, ListsBySize, TypeOK, Nodes
<1>8. Sound(Nodes', hdr')
  BY <1>2, <1>4, FrameKeeps DEF Inv
<1>9. UsedIsHeld'
  <2>1. req # NoRequest
    BY <1>3, SizeAssumption DEF NoRequest
  <2> QED BY <1>1, <1>2, <1>3, <1>4, <1>5, <2>1, NodeType DEF Inv, UsedIsHeld
<1>10. HeldFits'
  <2>1. req + HdrSize <= BlockSize(cur)
    <3>1. req + HdrSize \in Nat /\ req + HdrSize < SizeMod
      BY <1>3, SizeAssumption DEF NoSizeOverflow
    <3>2. TotalSize(req) = req + HdrSize
      BY <3>1, SizeAssumption DEF TotalSize
    <3> QED BY <1>1, <3>2 DEF Inv, Calls
  <2>2. \A a \in Nodes : BlockSize(a)' = BlockSize(a)
    BY <1>4 DEF BlockSize
  <2>3. \A a \in Slots : held[a] # NoRequest => a \in Nodes
    BY DEF Inv, UsedIsHeld
  <2> QED BY <1>3, <1>5, <2>1, <2>2, <2>3 DEF Inv, HeldFits, BlockSize
<1>11. Calls'
  BY <1>1 DEF Calls
<1> QED BY <1>6, <1>7, <1>8, <1>9, <1>10, <1>11 DEF Inv

\* mpool_free marks the chunk available and returns (mpool.c:249-290).
LEMMA StopStep == ASSUME Inv, FreeStop PROVE Inv'
<1>1. /\ pc = "free" /\ pc' = "idle" /\ cur' = 0
      /\ UNCHANGED <<blktable, nsplits, nmerges, held, req>>
      /\ hdr' = [hdr EXCEPT ![cur].avail = TRUE]
  <2>1. cur \in Nodes
    BY DEF Inv, Calls, FreeStop
  <2>2. TopLevel(cur) \/ InPool(BuddyOf(cur))
    <3>1. SUFFICES ASSUME ~TopLevel(cur) PROVE InPool(BuddyOf(cur))
      OBVIOUS
    <3>2. hdr[cur].logsize < MaxLog
      <4>1. hdr[cur].logsize \in MinLog..MaxLog /\ hdr[cur].logsize # MaxLog
        BY <2>1, <3>1 DEF Inv, Sound, Tiling, TopLevel
      <4> QED BY <4>1, OrderRange
    <3>3. Buddy2(hdr, cur) \in Slots
      BY <2>1, <3>2, BuddyThere, NodeType DEF Inv
    <3> QED BY <3>3 DEF BuddyOf, Buddy2, BlockSize, Slots, InPool
  <2> QED BY <2>2 DEF FreeStop
<1>2. Nodes' = Nodes
  BY <1>1 DEF Nodes
<1>3. cur \in Nodes /\ cur \in Slots
  BY <1>1 DEF Inv, Calls, TypeOK
<1>4. /\ hdr' \in [Slots -> Header]
      /\ hdr'[cur].avail
      /\ \A a \in Slots \ {cur} : hdr'[a] = hdr[a]
      /\ \A a \in Nodes : /\ hdr'[a].logsize = hdr[a].logsize
                          /\ hdr'[a].right = hdr[a].right
                          /\ hdr'[a].parent = hdr[a].parent
  BY <1>1, <1>3, AvailStep, NodeType DEF Inv, TypeOK
<1>5. TypeOK'
  BY <1>1, <1>4, ZeroSlot DEF Inv, TypeOK
<1>6. ListsBySize'
  BY <1>1, <1>4 DEF Inv, ListsBySize, TypeOK, Nodes
<1>7. Sound(Nodes', hdr')
  BY <1>2, <1>4, FrameKeeps DEF Inv
<1>8. UsedIsHeld'
  BY <1>1, <1>2, <1>3, <1>4, NodeType DEF Inv, UsedIsHeld, Calls
<1>9. HeldFits'
  <2>1. \A a \in Nodes : BlockSize(a)' = BlockSize(a)
    BY <1>4 DEF BlockSize
  <2> QED BY <1>1, <2>1 DEF Inv, HeldFits, UsedIsHeld
<1>10. Calls'
  BY <1>1 DEF Calls
<1> QED BY <1>5, <1>6, <1>7, <1>8, <1>9, <1>10 DEF Inv

\* The client writes to its own bytes (test3.c:52): no header of a chunk is
\* among them.
LEMMA WriteSpares ==
  ASSUME Inv, NEW a \in Slots, NEW x \in Slots, UserWrite(a, x)
  PROVE  hdr' \in [Slots -> Header] /\ \A b \in Nodes : hdr'[b] = hdr[b]
<1>1. PICK j \in Junk : /\ held[a] # NoRequest /\ a < x /\ x < a + HdrSize + held[a]
                        /\ hdr' = [hdr EXCEPT ![x] = j]
                        /\ UNCHANGED <<blktable, nsplits, nmerges, held, pc, cur, req>>
  BY DEF UserWrite
<1>3. a \in Nodes /\ held[a] + HdrSize <= BlockSize(a)
  BY <1>1 DEF Inv, UsedIsHeld, HeldFits
<1>4. x \notin Nodes
  <2>1. a \in Nat /\ x \in Nat /\ held[a] \in Int /\ HdrSize \in Int
    <3>1. held[a] \in Requests \cup {NoRequest}
      BY DEF Inv, TypeOK
    <3>2. held[a] \in Int
      <4>1. NoRequest \in Int
        BY DEF NoRequest
      <4>2. \A n \in Requests : n \in Int
        BY SizeAssumption
      <4> QED BY <3>1, <4>1, <4>2
    <3>3. HdrSize \in Int
      BY SizeAssumption
    <3>4. a \in Nat /\ x \in Nat
      BY NodeType
    <3> QED BY <3>2, <3>3, <3>4
  <2>2. BlockSize(a) \in Nat
    BY <1>3, OrderRange, PowType DEF Inv, Sound, Tiling, BlockSize
  <2>3. x \in Nodes => a + BlockSize(a) <= x
    BY <1>1, <1>3 DEF Inv, Sound, Tiling, BlockSize
  <2> QED BY <1>1, <1>3, <2>1, <2>2, <2>3
<1>5. hdr' \in [Slots -> Header] /\ \A b \in Nodes : hdr'[b] = hdr[b]
  BY <1>1, <1>4, JunkAssumption, NodeType DEF Inv, TypeOK
<1> QED BY <1>5

\* So its writes keep the invariant.
LEMMA WriteStep ==
  ASSUME Inv, NEW a \in Slots, NEW x \in Slots, UserWrite(a, x) PROVE Inv'
<1>1. UNCHANGED <<blktable, nsplits, nmerges, held, pc, cur, req>>
  BY DEF UserWrite
<1>2. Nodes' = Nodes
  BY <1>1 DEF Nodes
<1>5. hdr' \in [Slots -> Header] /\ \A b \in Nodes : hdr'[b] = hdr[b]
  BY WriteSpares
<1>6. TypeOK'
  BY <1>1, <1>5 DEF Inv, TypeOK
<1>7. ListsBySize'
  BY <1>1, <1>5 DEF Inv, ListsBySize, TypeOK, Nodes
<1>8. Sound(Nodes', hdr')
  BY <1>2, <1>5, FrameKeeps DEF Inv
<1>9. UsedIsHeld' /\ HeldFits' /\ Calls'
  BY <1>1, <1>2, <1>5 DEF Inv, UsedIsHeld, HeldFits, BlockSize, Calls
<1> QED BY <1>6, <1>7, <1>8, <1>9 DEF Inv

\* Where mpool_alloc puts the right half of the chunk it splits (mpool.c:172-174).
RightHalfAt == cur + Pow2[hdr[cur].logsize - 1]

\* What a split changes: one chunk more, half as large as the one it is cut from
\* (mpool.c:162-208).
LEMMA SplitEffect ==
  ASSUME Inv, AllocSplit
  PROVE  /\ pc = "split" /\ pc' = "split" /\ cur' = cur /\ held' = held /\ req' = req
         /\ nmerges' = nmerges /\ nsplits' = (nsplits + 1) % CounterMod
         /\ TotalSize(req) <= Pow2[hdr[cur].logsize - 1]
         /\ cur \in Nodes /\ cur \in Slots
         /\ hdr[cur].logsize - 1 \in 0..MaxLog /\ MinLog <= hdr[cur].logsize - 1
         /\ RightHalfAt \in Slots /\ RightHalfAt \notin Nodes /\ RightHalfAt # cur
         /\ hdr' \in [Slots -> Header]
         /\ hdr'[cur] = LeftHalf(hdr[cur]) /\ hdr'[RightHalfAt] = RightHalf(hdr[cur])
         /\ \A a \in Slots \ {cur, RightHalfAt} : hdr'[a] = hdr[a]
         /\ blktable' \in [Positions -> SUBSET Slots]
         /\ \A p \in Positions :
              blktable'[p] = IF p = MaxLog - (hdr[cur].logsize - 1)
                             THEN (blktable[p] \ {cur}) \cup {cur, RightHalfAt}
                             ELSE blktable[p] \ {cur}
         /\ Nodes' = Nodes \cup {RightHalfAt}
         /\ Sound(Nodes', hdr')
<1> DEFINE k == hdr[cur].logsize - 1  r == cur + Pow2[k]
<1>1. /\ pc = "split" /\ pc' = "split" /\ cur' = cur
      /\ nsplits' = (nsplits + 1) % CounterMod
      /\ UNCHANGED <<nmerges, held, req>>
      /\ hdr' = [hdr EXCEPT ![cur] = LeftHalf(hdr[cur]), ![r] = RightHalf(hdr[cur])]
      /\ blktable' = Linked(Unlinked(blktable, {cur}), {cur, r}, k)
      /\ ~NoSplitNeeded(cur, TotalSize(req))
  BY DEF AllocSplit
<1>2. /\ cur \in Nodes /\ cur \in Slots /\ hdr[cur] \in Header
      /\ hdr[cur].logsize \in MinLog..MaxLog
  BY <1>1, NodeType DEF Inv, Calls, Sound, Tiling
<1>3. MinLog <= k /\ k \in 0..MaxLog /\ k \in Nat /\ k + 1 = hdr[cur].logsize /\ MaxLog - k \in Positions
      /\ MaxLog - (k + 1) \in Positions
  BY <1>1, <1>2, OrderRange DEF NoSplitNeeded, Positions
<1>4. r \in Slots /\ r \notin Nodes /\ r # cur /\ Sound(Nodes \cup {r}, hdr')
  <2>1. Sound(Nodes, hdr) /\ k = hdr[cur].logsize - 1 /\ r = cur + Pow2[k]
    BY DEF Inv
  <2> HIDE DEF k, r
  <2> QED BY <1>1, <1>2, <1>3, <2>1, SplitKeeps
<1>5. /\ hdr' \in [Slots -> Header]
      /\ hdr'[cur] = LeftHalf(hdr[cur]) /\ hdr'[r] = RightHalf(hdr[cur])
      /\ \A a \in Slots \ {cur, r} : hdr'[a] = hdr[a]
  <2>1. LeftHalf(hdr[cur]) \in Header /\ RightHalf(hdr[cur]) \in Header
    BY <1>2, <1>3, HalfTypes
  <2> QED BY <1>1, <1>2, <1>4, <2>1 DEF Inv, TypeOK
<1>6. /\ hdr'[cur].logsize = k /\ hdr'[cur].avail = hdr[cur].avail
      /\ hdr'[r].logsize = k /\ hdr'[r].avail = TRUE
  BY <1>5 DEF LeftHalf, RightHalf
<1>7. \A p \in Positions :
        blktable'[p] = IF p = MaxLog - k THEN (blktable[p] \ {cur}) \cup {cur, r}
                                         ELSE blktable[p] \ {cur}
  <2>1. blktable' = [[p \in Positions |-> blktable[p] \ {cur}]
                       EXCEPT ![MaxLog - k] = @ \cup {cur, r}]
    BY <1>1 DEF Linked, Unlinked
  <2> QED BY <1>3, <2>1
<1>8. blktable' \in [Positions -> SUBSET Slots]
  <2>1. blktable' = [[p \in Positions |-> blktable[p] \ {cur}]
                       EXCEPT ![MaxLog - k] = @ \cup {cur, r}]
    BY <1>1 DEF Linked, Unlinked
  <2> QED BY <1>2, <1>4, <2>1 DEF Inv, TypeOK
<1>9. Nodes' = Nodes \cup {r}
  <2>1. \A a \in Slots : a \in Nodes' <=> a \in Nodes \/ a = r
    <3> TAKE a \in Slots
    <3>1. a \in Nodes' <=> \E p \in Positions : a \in blktable'[p]
      BY DEF Nodes
    <3>2. a \in Nodes <=> \E p \in Positions : a \in blktable[p]
      BY DEF Nodes
    <3>3. CASE a = cur \/ a = r
      BY <1>2, <1>3, <1>7, <3>1, <3>2, <3>3
    <3>4. CASE a # cur /\ a # r
      BY <1>7, <3>1, <3>2, <3>4
    <3> QED BY <3>3, <3>4
  <2>2. Nodes' \subseteq Slots /\ Nodes \subseteq Slots
    BY DEF Nodes
  <2> QED BY <1>4, <2>1, <2>2
<1>10. TotalSize(req) <= Pow2[k]
  <2>1. TotalSize(req) \in Int
    <3>1. req \in Nat /\ HdrSize \in Nat /\ SizeMod \in Nat \ {0}
      BY <1>1, SizeAssumption DEF Inv, TypeOK, NoRequest
    <3> QED BY <3>1 DEF TotalSize
  <2>2. ~(TotalSize(req) > Pow2[k]) /\ Pow2[k] \in Nat
    BY <1>1, <1>3, OrderRange, PowType DEF NoSplitNeeded
  <2> QED BY <2>1, <2>2
<1>11. RightHalfAt = r
  BY DEF RightHalfAt
<1> QED BY <1>1, <1>2, <1>3, <1>4, <1>5, <1>7, <1>8, <1>9, <1>10, <1>11

\* mpool_alloc splits the chunk in two (mpool.c:162-208).
LEMMA SplitStep == ASSUME Inv, AllocSplit PROVE Inv'
<1> DEFINE k == hdr[cur].logsize - 1  r == RightHalfAt
<1>1. /\ pc = "split" /\ pc' = "split" /\ cur' = cur /\ held' = held /\ req' = req
      /\ nmerges' = nmerges /\ nsplits' = (nsplits + 1) % CounterMod
      /\ TotalSize(req) <= Pow2[k]
  BY SplitEffect
<1>2. cur \in Nodes /\ cur \in Slots
  BY SplitEffect
<1>3. k \in 0..MaxLog /\ k \in Nat /\ MaxLog - k \in Positions
  BY SplitEffect, OrderRange DEF Positions
<1>4. r \in Slots /\ r \notin Nodes /\ r # cur
  BY SplitEffect
<1>5. /\ hdr' \in [Slots -> Header]
      /\ hdr'[cur] = LeftHalf(hdr[cur]) /\ hdr'[r] = RightHalf(hdr[cur])
      /\ \A a \in Slots \ {cur, r} : hdr'[a] = hdr[a]
  BY SplitEffect
<1>6. /\ hdr'[cur].logsize = k /\ hdr'[cur].avail = hdr[cur].avail
      /\ hdr'[r].logsize = k /\ hdr'[r].avail = TRUE
  BY <1>5 DEF LeftHalf, RightHalf
<1>7. \A p \in Positions :
        blktable'[p] = IF p = MaxLog - k THEN (blktable[p] \ {cur}) \cup {cur, r}
                                         ELSE blktable[p] \ {cur}
  BY SplitEffect
<1>8. blktable' \in [Positions -> SUBSET Slots]
  BY SplitEffect
<1>9. Nodes' = Nodes \cup {r} /\ Sound(Nodes', hdr')
  BY SplitEffect
<1> HIDE DEF k, r
<1>10. TypeOK'
  <2>1. (nsplits + 1) % CounterMod \in 0..(CounterMod - 1)
    BY SizeAssumption DEF Inv, TypeOK
  <2> QED BY <1>1, <1>5, <1>8, <2>1 DEF Inv, TypeOK
<1>11. ListsBySize'
  <2> SUFFICES ASSUME NEW p \in Positions, NEW a \in blktable'[p]
               PROVE  hdr'[a].logsize = MaxLog - p
    BY DEF ListsBySize
  <2>1. a \in Slots
    BY <1>8
  <2>2. CASE a = cur \/ a = r
    <3>1. p = MaxLog - k
      <4>1. r \notin blktable[p]
        BY <1>4 DEF Nodes
      <4> QED BY <1>4, <1>7, <2>2, <4>1
    <3> QED BY <1>3, <1>6, <2>2, <3>1, OrderRange DEF Positions
  <2>3. CASE a # cur /\ a # r
    <3>1. a \in blktable[p]
      BY <1>7, <2>3
    <3> QED BY <1>5, <2>1, <2>3, <3>1 DEF Inv, ListsBySize
  <2> QED BY <2>2, <2>3
<1>12. held[cur] = NoRequest /\ held[r] = NoRequest
  BY <1>1, <1>2, <1>4 DEF Inv, Calls, UsedIsHeld
<1>13. UsedIsHeld'
  <2>1. hdr[cur].avail
    BY <1>1 DEF Inv, Calls
  <2> QED BY <1>1, <1>4, <1>5, <1>6, <1>9, <1>12, <2>1, NodeType DEF Inv, UsedIsHeld
<1>14. HeldFits'
  <2>1. \A a \in Slots : held[a] # NoRequest => BlockSize(a)' = BlockSize(a)
    BY <1>5, <1>12 DEF BlockSize
  <2> QED BY <1>1, <2>1 DEF Inv, HeldFits
<1>15. Calls'
  <2>2. hdr'[cur].avail
    BY <1>1, <1>6 DEF Inv, Calls
  <2> QED BY <1>1, <1>2, <1>6, <1>9, <2>2 DEF Calls, BlockSize, TotalSize
<1> QED BY <1>9, <1>10, <1>11, <1>13, <1>14, <1>15 DEF Inv

\* The halves that mpool_free merges (mpool.c:308-336).
LeftAt  == IF hdr[cur].right THEN BuddyOf(cur) ELSE cur
RightAt == IF hdr[cur].right THEN cur ELSE BuddyOf(cur)

\* What a merge changes: the left half grows and the right half is gone
\* (mpool.c:292-358).
LEMMA MergeEffect ==
  ASSUME Inv, FreeMerge
  PROVE  /\ pc = "free" /\ pc' = "free" /\ cur' = LeftAt /\ held' = held /\ req' = req
         /\ nsplits' = nsplits /\ nmerges' = (nmerges + 1) % CounterMod
         /\ LeftAt \in Nodes /\ RightAt \in Nodes /\ LeftAt # RightAt
         /\ LeftAt \in Slots /\ RightAt \in Slots /\ cur \in {LeftAt, RightAt}
         /\ held[LeftAt] = NoRequest /\ held[RightAt] = NoRequest
         /\ hdr[cur].logsize \in MinLog..MaxLog /\ hdr[cur].logsize < MaxLog
         /\ hdr' \in [Slots -> Header]
         /\ hdr'[LeftAt].logsize = hdr[cur].logsize + 1 /\ hdr'[LeftAt].avail = TRUE
         /\ \A a \in Slots \ {LeftAt} : hdr'[a] = hdr[a]
         /\ blktable' \in [Positions -> SUBSET Slots]
         /\ \A p \in Positions :
              blktable'[p] = IF p = MaxLog - (hdr[cur].logsize + 1)
                             THEN (blktable[p] \ {LeftAt, RightAt}) \cup {LeftAt}
                             ELSE blktable[p] \ {LeftAt, RightAt}
         /\ Nodes' = Nodes \ {RightAt}
         /\ Sound(Nodes', hdr')
<1> DEFINE k == hdr[cur].logsize
           b == BuddyOf(cur)
           l == IF hdr[cur].right THEN b ELSE cur
           r == IF hdr[cur].right THEN cur ELSE b
<1>1. pc = "free" /\ ~TopLevel(cur) /\ CanMerge(cur) /\ UNCHANGED <<nsplits, held, req>>
      /\ nmerges' = (nmerges + 1) % CounterMod
  BY DEF FreeMerge
<1>2. /\ cur \in Nodes /\ k \in MinLog..MaxLog /\ k \in 0..MaxLog /\ k \in Nat /\ k < MaxLog
      /\ k + 1 \in MinLog..MaxLog /\ MaxLog \in Nat
  <2>1. cur \in Nodes
    BY <1>1 DEF Inv, Calls
  <2>2. k \in MinLog..MaxLog /\ k # MaxLog
    BY <1>1, <2>1 DEF Inv, Sound, Tiling, TopLevel
  <2> QED BY <2>1, <2>2, OrderRange
<1>3. b = Buddy2(hdr, cur) /\ hdr[b].logsize = k /\ hdr[b].avail
  BY <1>1 DEF CanMerge, BuddyOf, BlockSize, Buddy2
<1>4. /\ b \in Nodes /\ l \in Nodes /\ r \in Nodes /\ {l, r} = {cur, b}
      /\ r = l + Pow2[k] /\ ~hdr[l].right /\ hdr[l].logsize = k /\ hdr[r].logsize = k
  <2>1. Sound(Nodes, hdr) /\ k = hdr[cur].logsize
        /\ l = (IF hdr[cur].right THEN b ELSE cur)
        /\ r = (IF hdr[cur].right THEN cur ELSE b)
    BY DEF Inv
  <2> HIDE DEF k, b, l, r
  <2> QED BY <1>2, <1>3, <2>1, BuddyHalves
<1>5. /\ hdr' = [hdr EXCEPT ![l] = Merged(hdr[l], hdr[r])]
      /\ blktable' = Linked(Unlinked(blktable, {cur, b}), {l}, k + 1)
      /\ cur' = l
      /\ pc' = pc
  BY <1>4 DEF FreeMerge
<1> HIDE DEF k, b, l, r
<1>6. l \in Slots /\ r \in Slots /\ l # r
  <2>1. l \in Slots /\ r \in Slots /\ l \in Nat
    BY <1>4, NodeType
  <2>2. Pow2[k] \in Nat /\ Pow2[k] >= 1
    BY <1>2, PowType, OrderRange
  <2> QED BY <1>4, <2>1, <2>2
<1>7. Sound(Nodes \ {r}, hdr')
  BY <1>2, <1>4, <1>5, MergeKeeps DEF Inv
<1>8. /\ hdr' \in [Slots -> Header]
      /\ hdr'[l].logsize = k + 1 /\ hdr'[l].avail = TRUE
      /\ \A a \in Slots \ {l} : hdr'[a] = hdr[a]
  <2>1. hdr[l] \in Header /\ hdr[r] \in Header
    BY <1>6 DEF Inv, TypeOK
  <2>2. Merged(hdr[l], hdr[r]) \in Header
    BY <2>1, MergedType
  <2>3. /\ hdr' \in [Slots -> Header] /\ hdr'[l] = Merged(hdr[l], hdr[r])
        /\ \A a \in Slots \ {l} : hdr'[a] = hdr[a]
    BY <1>5, <1>6, <2>2 DEF Inv, TypeOK
  <2> QED BY <1>4, <2>3 DEF Merged
<1>9. MaxLog - k \in Positions /\ MaxLog - (k + 1) \in Positions
  BY <1>2, OrderRange DEF Positions
<1>10. blktable' = [[p \in Positions |-> blktable[p] \ {cur, b}]
                      EXCEPT ![MaxLog - (k + 1)] = @ \cup {l}]
  BY <1>5 DEF Linked, Unlinked
<1>11. \A p \in Positions :
         blktable'[p] = IF p = MaxLog - (k + 1) THEN (blktable[p] \ {l, r}) \cup {l}
                                                ELSE blktable[p] \ {l, r}
  BY <1>4, <1>9, <1>10
<1>12. blktable' \in [Positions -> SUBSET Slots]
  BY <1>6, <1>10 DEF Inv, TypeOK
<1>13. Nodes' = Nodes \ {r}
  <2>1. \A a \in Slots : a \in Nodes' <=> a \in Nodes /\ a # r
    <3> TAKE a \in Slots
    <3>1. a \in Nodes' <=> \E p \in Positions : a \in blktable'[p]
      BY DEF Nodes
    <3>2. a \in Nodes <=> \E p \in Positions : a \in blktable[p]
      BY DEF Nodes
    <3>3. CASE a = l \/ a = r
      BY <1>4, <1>6, <1>9, <1>11, <3>1, <3>2, <3>3
    <3>4. CASE a # l /\ a # r
      BY <1>11, <3>1, <3>2, <3>4
    <3> QED BY <3>3, <3>4
  <2>2. Nodes' \subseteq Slots /\ Nodes \subseteq Slots
    BY DEF Nodes
  <2> QED BY <2>1, <2>2
<1>14. held[l] = NoRequest /\ held[r] = NoRequest
  <2>1. held[cur] = NoRequest
    BY <1>1 DEF Inv, Calls
  <2>2. held[b] = NoRequest
    BY <1>3, <1>4, NodeType DEF Inv, UsedIsHeld
  <2> QED BY <1>4, <2>1, <2>2
<1>15. LeftAt = l /\ RightAt = r /\ hdr[cur].logsize = k
  BY DEF LeftAt, RightAt, k, b, l, r
<1>16. cur \in {LeftAt, RightAt}
  BY DEF LeftAt, RightAt
<1> QED BY <1>1, <1>2, <1>4, <1>5, <1>6, <1>7, <1>8, <1>11, <1>12, <1>13, <1>14, <1>15, <1>16

\* mpool_free merges the chunk with its buddy (mpool.c:292-358).
LEMMA MergeStep == ASSUME Inv, FreeMerge PROVE Inv'
<1> DEFINE k == hdr[cur].logsize  l == LeftAt  r == RightAt
<1>1. /\ pc = "free" /\ pc' = "free" /\ cur' = l /\ held' = held /\ req' = req
      /\ nsplits' = nsplits /\ nmerges' = (nmerges + 1) % CounterMod
  BY MergeEffect
<1>2. k \in MinLog..MaxLog /\ k < MaxLog /\ k \in Nat /\ MaxLog \in Nat
  BY MergeEffect, OrderRange
<1>4. l \in Nodes /\ r \in Nodes /\ cur \in {l, r}
  BY MergeEffect
<1>6. l \in Slots /\ r \in Slots /\ l # r
  BY MergeEffect
<1>8. /\ hdr' \in [Slots -> Header]
      /\ hdr'[l].logsize = k + 1 /\ hdr'[l].avail = TRUE
      /\ \A a \in Slots \ {l} : hdr'[a] = hdr[a]
  BY MergeEffect
<1>11. \A p \in Positions :
         blktable'[p] = IF p = MaxLog - (k + 1) THEN (blktable[p] \ {l, r}) \cup {l}
                                                ELSE blktable[p] \ {l, r}
  BY MergeEffect
<1>12. blktable' \in [Positions -> SUBSET Slots]
  BY MergeEffect
<1>13. Nodes' = Nodes \ {r} /\ Sound(Nodes', hdr')
  BY MergeEffect
<1>16. held[l] = NoRequest /\ held[r] = NoRequest
  BY MergeEffect
<1> HIDE DEF k, l, r
<1>14. TypeOK'
  <2>1. (nmerges + 1) % CounterMod \in 0..(CounterMod - 1)
    BY SizeAssumption DEF Inv, TypeOK
  <2> QED BY <1>1, <1>6, <1>8, <1>12, <2>1 DEF Inv, TypeOK
<1>15. ListsBySize'
  <2> SUFFICES ASSUME NEW p \in Positions, NEW a \in blktable'[p]
               PROVE  hdr'[a].logsize = MaxLog - p
    BY DEF ListsBySize
  <2>1. a \in Slots /\ a # r
    BY <1>6, <1>11, <1>12
  <2>2. CASE a = l
    <3>1. p = MaxLog - (k + 1)
      BY <1>11, <2>2
    <3> QED BY <1>2, <1>8, <2>2, <3>1
  <2>3. CASE a # l
    <3>1. a \in blktable[p]
      BY <1>11, <2>3
    <3> QED BY <1>8, <2>1, <2>3, <3>1 DEF Inv, ListsBySize
  <2> QED BY <2>2, <2>3
<1>17. UsedIsHeld'
  <2>1. \A a \in Slots : held'[a] # NoRequest => a \in Nodes' /\ ~hdr'[a].avail
    BY <1>1, <1>8, <1>13, <1>16 DEF Inv, UsedIsHeld
  <2>2. ASSUME NEW a \in Nodes', ~hdr'[a].avail PROVE held'[a] # NoRequest
    <3>1. a # l /\ a # r /\ a \in Nodes /\ a \in Slots
      BY <1>8, <1>13, <2>2, NodeType
    <3>2. a # cur /\ ~hdr[a].avail
      BY <1>4, <1>8, <2>2, <3>1
    <3> QED BY <1>1, <3>1, <3>2 DEF Inv, UsedIsHeld
  <2> QED BY <2>1, <2>2 DEF UsedIsHeld
<1>18. HeldFits'
  <2>1. \A a \in Slots : held[a] # NoRequest => BlockSize(a)' = BlockSize(a)
    BY <1>8, <1>16 DEF BlockSize
  <2> QED BY <1>1, <2>1 DEF Inv, HeldFits
<1>19. Calls'
  BY <1>1, <1>4, <1>6, <1>13, <1>16 DEF Calls
<1> QED BY <1>13, <1>14, <1>15, <1>17, <1>18, <1>19 DEF Inv

LEMMA NextInv == NoSizeOverflow /\ Inv /\ [Next]_vars => Inv'
BY QuietSteps, ReturnStep, StopStep, WriteStep, SplitStep, MergeStep DEF Next, Alloc, Free

\* The parts of the inductive invariant, as Buddy states them.
LEMMA InvParts ==
  ASSUME Inv
  PROVE  Partition /\ SideFlags /\ ParentFlags /\ BuddyIsHeader
<1>1. Tiling(Nodes, hdr) /\ Sides(Nodes, hdr) /\ Parents(Nodes, hdr)
  BY DEF Inv, Sound
<1>2. Partition
  BY <1>1 DEF Inv, Partition, BlocksAligned, BlocksDisjoint, PoolCovered, Tiling, BlockSize
<1>3. SideFlags
  BY <1>1 DEF SideFlags, Sides
<1>4. ParentFlags
  BY <1>1 DEF ParentFlags, Parents, Edge, BlockSize
<1>5. BuddyIsHeader
  <2> SUFFICES ASSUME NEW a \in Nodes, hdr[a].logsize < MaxLog PROVE BuddyOf(a) \in Nodes
    BY DEF BuddyIsHeader
  <2>1. Buddy2(hdr, a) \in Nodes
    BY BuddyThere DEF Inv
  <2> QED BY <2>1 DEF BuddyOf, BlockSize, Buddy2
<1> QED BY <1>2, <1>3, <1>4, <1>5

-----------------------------------------------------------------------------

LEMMA Invariant == ASSUME NoSizeOverflow PROVE Spec => []Inv
<1>1. Init => Inv
  BY InitInv
<1>2. Inv /\ [Next]_vars => Inv'
  BY NextInv
<1> QED BY <1>1, <1>2, PTL DEF Spec

\* The state stays well-typed for every pool and every sequence of calls: no
\* counter passes its width and the call in progress is at a chunk of the pool.
THEOREM Typed == ASSUME NoSizeOverflow PROVE Spec => []TypeOK
<1>1. Inv => TypeOK
  BY DEF Inv
<1> QED BY <1>1, Invariant, PTL

\* mpool_alloc and mpool_free keep the chunks an aligned partition of the pool
\* (mpool.c:164-206, 295-357), for every pool size.
THEOREM Partitioned == ASSUME NoSizeOverflow PROVE Spec => []Partition
<1>1. Inv => Partition
  BY InvParts
<1> QED BY <1>1, Invariant, PTL

\* The LR and PARENT flags are right at all times (mpool.c:176-200, 308-336):
\* the flag that a merge takes the side of the merged chunk from is never stale.
THEOREM FlagsSound == ASSUME NoSizeOverflow PROVE Spec => []BuddyFlags
<1>1. Inv => BuddyFlags
  BY InvParts DEF BuddyFlags
<1> QED BY <1>1, Invariant, PTL

\* mpool_free finds a live header at its buddy's address (mpool.c:277-279).
THEOREM BuddyFound == ASSUME NoSizeOverflow PROVE Spec => []BuddyIsHeader
<1>1. Inv => BuddyIsHeader
  BY InvParts
<1> QED BY <1>1, Invariant, PTL

\* A chunk is in use exactly while the client owns it, and what the client asked
\* for fits in it (mpool.c:143-159, 249-290).
THEOREM Ownership == ASSUME NoSizeOverflow PROVE Spec => []HeldBlocks
<1>1. Inv => HeldBlocks
  BY DEF Inv, HeldBlocks
<1> QED BY <1>1, Invariant, PTL

-----------------------------------------------------------------------------
(* Complete merging and best fit. *)

\* Two chunks that could be merged into one.
Apart(a, b) ==
  /\ hdr[a].avail /\ hdr[b].avail
  /\ hdr[a].logsize = hdr[b].logsize
  /\ ~hdr[a].right /\ b = a + BlockSize(a)

\* The chunk being split is the smallest one the request fits in.
CurSmallest ==
  pc = "split" =>
    \A a \in Nodes :
      hdr[a].avail /\ BlockSize(a) >= TotalSize(req) => BlockSize(cur) <= BlockSize(a)

\* A larger shift gives a larger size.
LEMMA PowMonotone ==
  ASSUME NEW i \in Orders, NEW j \in Orders, i <= j
  PROVE  Pow2[i] <= Pow2[j]
<1>1. j - i \in Orders /\ i + (j - i) = j /\ i + (j - i) <= MaxLog + 1
  BY PowAssumption DEF Orders
<1>2. Pow2[j] = Pow2[i] * Pow2[j - i]
  BY <1>1, PowAssumption DEF Orders
<1>3. 1 * Pow2[i] <= Pow2[j - i] * Pow2[i]
  BY <1>1, PowType, TimesMonotone
<1> QED BY <1>1, <1>2, <1>3, PowType

\* The sizes of the chunks are legal widths and positive numbers.
LEMMA SizeType ==
  ASSUME Inv, NEW a \in Nodes
  PROVE  /\ hdr[a].logsize \in MinLog..MaxLog /\ hdr[a].logsize \in Orders
         /\ hdr[a].logsize \in 0..MaxLog
         /\ BlockSize(a) = Pow2[hdr[a].logsize] /\ BlockSize(a) \in Nat /\ BlockSize(a) >= 1
         /\ Aligned(a, hdr[a].logsize) /\ a \in Nat /\ a \in Slots
<1>1. hdr[a].logsize \in MinLog..MaxLog /\ Aligned(a, hdr[a].logsize)
  BY DEF Inv, Sound, Tiling
<1> QED BY <1>1, OrderRange, PowType, NodeType DEF BlockSize

-----------------------------------------------------------------------------
(* Merging is complete. *)

\* mpool_free stops only where the buddy of the chunk is not free (mpool.c:239-292).
LEMMA StopCoalesced ==
  ASSUME Inv, FullyCoalesced, FreeStop, Inv'
  PROVE  FullyCoalesced'
<1>1. /\ pc = "free" /\ cur \in Nodes /\ Nodes' = Nodes
      /\ TopLevel(cur) \/ ~CanMerge(cur)
      /\ \A a \in Nodes \ {cur} : hdr'[a] = hdr[a]
      /\ \A a \in Nodes : hdr'[a].logsize = hdr[a].logsize /\ hdr'[a].right = hdr[a].right
  <2>1. pc = "free" /\ cur \in Nodes /\ (TopLevel(cur) \/ ~CanMerge(cur)) /\ blktable' = blktable
        /\ (hdr' = [hdr EXCEPT ![cur].avail = TRUE] \/ hdr' = hdr)
    BY DEF FreeStop, Inv, Calls
  <2>2. Nodes' = Nodes
    BY <2>1 DEF Nodes
  <2>3. hdr \in [Slots -> Header] /\ cur \in Slots
    BY DEF Inv, TypeOK
  <2> QED BY <2>1, <2>2, <2>3, AvailStep, NodeType
<1> SUFFICES ASSUME NEW a \in Nodes, NEW b \in Nodes, Apart(a, b)' PROVE FALSE
  BY <1>1 DEF FullyCoalesced, Apart
<1> DEFINE k == hdr[a].logsize
<1>2. /\ k = hdr[b].logsize /\ ~hdr[a].right /\ b = a + Pow2[k]
      /\ k \in 0..MaxLog /\ k \in Orders /\ Pow2[k] \in Nat /\ Pow2[k] >= 1
      /\ Aligned(a, k) /\ a \in Nat /\ a \in Slots /\ b \in Slots
      /\ hdr'[a].avail /\ hdr'[b].avail
  BY <1>1, SizeType DEF Apart, BlockSize
<1>3. Aligned(a, k + 1)
  BY <1>2 DEF Inv, Sound, Sides
<1>4. hdr[b].right
  BY <1>2, <1>3, RightHalfOdd DEF Inv, Sound, Sides
<1>5. k < MaxLog
  <2>1. b # 0
    <3>1. a \in Nat /\ Pow2[k] \in Nat /\ Pow2[k] >= 1 /\ b = a + Pow2[k]
      BY <1>2
    <3> HIDE DEF k
    <3> QED BY <3>1
  <2>2. k = MaxLog => b = 0
    BY <1>2, SizeType, TopAtZero
  <2> QED BY <1>2, <2>1, <2>2, OrderRange
<1>6. CASE cur # a /\ cur # b
  BY <1>1, <1>2, <1>6 DEF FullyCoalesced, BlockSize
<1>7. a # b /\ InPool(a) /\ InPool(b)
  BY <1>2, PoolAligned DEF InPool, Slots
<1>8. CASE cur = a
  <2>1. BuddyOf(cur) = b /\ hdr[b].avail
    <3>1. BuddyOf(a) = a + BlockSize(a)
      BY <1>2 DEF BuddyOf
    <3>2. b = a + Pow2[k] /\ BlockSize(a) = Pow2[k]
      BY <1>2 DEF BlockSize
    <3>3. hdr[b].avail
      BY <1>1, <1>2, <1>7, <1>8
    <3> HIDE DEF k
    <3> QED BY <1>8, <3>1, <3>2, <3>3
  <2>2. ~TopLevel(cur)
    BY <1>2, <1>5, <1>8 DEF TopLevel
  <2>3. CanMerge(cur)
    BY <1>2, <1>7, <1>8, <2>1 DEF CanMerge
  <2> QED BY <1>1, <2>2, <2>3
<1>9. CASE cur = b
  <2>1. BuddyOf(cur) = a /\ hdr[a].avail
    <3>1. BuddyOf(b) = b - BlockSize(b)
      BY <1>4 DEF BuddyOf
    <3>2. a \in Nat /\ Pow2[k] \in Nat /\ b = a + Pow2[k] /\ BlockSize(b) = Pow2[k]
      BY <1>2 DEF BlockSize
    <3>3. hdr[a].avail
      BY <1>1, <1>2, <1>7, <1>9
    <3> HIDE DEF k
    <3> QED BY <1>9, <3>1, <3>2, <3>3
  <2>2. ~TopLevel(cur)
    BY <1>2, <1>5, <1>9 DEF TopLevel
  <2>3. CanMerge(cur)
    BY <1>2, <1>7, <1>9, <2>1 DEF CanMerge
  <2> QED BY <1>1, <2>2, <2>3
<1> QED BY <1>6, <1>8, <1>9

\* A split leaves only its own two halves apart (mpool.c:162-208).
LEMMA SplitCoalesced ==
  ASSUME Inv, FullyCoalesced, AllocSplit
  PROVE  FullyCoalesced'
<1> DEFINE r == RightHalfAt
<1>1. /\ pc = "split" /\ pc' = "split" /\ cur' = cur /\ cur \in Nodes /\ cur \in Slots
      /\ r \in Slots /\ r \notin Nodes /\ r # cur /\ Nodes' = Nodes \cup {r}
      /\ hdr'[r] = RightHalf(hdr[cur])
      /\ \A a \in Slots \ {cur, r} : hdr'[a] = hdr[a]
  BY SplitEffect
<1>2. hdr'[r].right /\ hdr'[r].logsize = hdr[cur].logsize - 1
  BY <1>1 DEF RightHalf
<1>3. r = cur + Pow2[hdr[cur].logsize - 1]
  BY DEF RightHalfAt
<1> HIDE DEF r
<1> SUFFICES ASSUME NEW a \in Nodes', NEW b \in Nodes', Apart(a, b)', a # cur, b # cur
             PROVE  FALSE
  BY <1>1 DEF FullyCoalesced, Apart
<1>4. a \in Nodes /\ a # r /\ a \in Slots /\ hdr'[a] = hdr[a]
  BY <1>1, <1>2, NodeType DEF Apart
<1>5. CASE b = r
  <2>1. a + Pow2[hdr[cur].logsize - 1] = cur + Pow2[hdr[cur].logsize - 1]
    BY <1>2, <1>3, <1>4, <1>5 DEF Apart, BlockSize
  <2>2. Pow2[hdr[cur].logsize - 1] \in Nat
    <3>1. hdr[cur].logsize - 1 \in 0..MaxLog
      BY SplitEffect
    <3>2. \A i \in 0..MaxLog : i \in Orders
      BY PowAssumption DEF Orders
    <3> QED BY <3>1, <3>2, PowType
  <2>3. a \in Nat /\ cur \in Nat
    BY <1>1, <1>4, NodeType
  <2> QED BY <2>1, <2>2, <2>3
<1>6. CASE b # r
  <2>1. b \in Nodes /\ hdr'[b] = hdr[b]
    BY <1>1, <1>6, NodeType
  <2>2. Apart(a, b)
    BY <1>4, <2>1 DEF Apart, BlockSize
  <2> QED BY <1>1, <1>4, <2>1, <2>2 DEF FullyCoalesced, Apart
<1> QED BY <1>5, <1>6

\* A merge leaves only the merged chunk, which is merged further (mpool.c:292-358).
LEMMA MergeCoalesced ==
  ASSUME Inv, FullyCoalesced, FreeMerge
  PROVE  FullyCoalesced'
<1>1. /\ pc = "free" /\ pc' = "free" /\ cur' = LeftAt
      /\ cur \in {LeftAt, RightAt} /\ Nodes' = Nodes \ {RightAt}
      /\ \A a \in Slots \ {LeftAt} : hdr'[a] = hdr[a]
  BY MergeEffect
<1> SUFFICES ASSUME NEW a \in Nodes', NEW b \in Nodes', Apart(a, b)', a # LeftAt, b # LeftAt
             PROVE  FALSE
  BY <1>1 DEF FullyCoalesced, Apart
<1>2. a \in Nodes /\ b \in Nodes /\ a # RightAt /\ b # RightAt
      /\ hdr'[a] = hdr[a] /\ hdr'[b] = hdr[b]
  BY <1>1, NodeType
<1>3. Apart(a, b)
  BY <1>2 DEF Apart, BlockSize
<1> QED BY <1>1, <1>2, <1>3 DEF FullyCoalesced, Apart

\* The other steps make no chunk available.
LEMMA QuietCoalesced ==
  ASSUME Inv, FullyCoalesced,
         \/ \E n \in Requests : AllocCall(n)
         \/ AllocFind
         \/ AllocFail
         \/ AllocReturn
         \/ \E a \in Slots : FreeCall(a)
         \/ \E a, x \in Slots : UserWrite(a, x)
         \/ UNCHANGED vars
  PROVE  FullyCoalesced'
<1>1. /\ blktable' = blktable
      /\ \/ pc \in {"idle", "search"}
         \/ pc = "split" /\ cur \in Nodes /\ AllocReturn
         \/ UNCHANGED vars
  BY DEF AllocCall, AllocFind, AllocFail, AllocReturn, FreeCall, UserWrite, vars, pool, Inv, Calls
<1>2. Nodes' = Nodes
  BY <1>1 DEF Nodes
<1>3. CASE UNCHANGED vars
  BY <1>2, <1>3 DEF vars, FullyCoalesced, BlockSize
<1>4. CASE \E a, x \in Slots : UserWrite(a, x)
  <2>1. pc = "idle" /\ \A a \in Nodes : hdr'[a] = hdr[a]
    BY <1>4, WriteSpares DEF UserWrite
  <2> QED BY <1>2, <2>1 DEF FullyCoalesced, BlockSize
<1>5. CASE hdr' = hdr /\ pc \in {"idle", "search"}
  BY <1>2, <1>5 DEF FullyCoalesced, BlockSize
<1>6. CASE AllocReturn
  <2>1. /\ pc = "split" /\ cur \in Nodes /\ hdr' = [hdr EXCEPT ![cur].avail = FALSE]
        /\ hdr \in [Slots -> Header] /\ cur \in Slots
    BY <1>6 DEF AllocReturn, Inv, Calls, TypeOK
  <2>2. /\ ~hdr'[cur].avail
        /\ \A a \in Nodes \ {cur} : hdr'[a] = hdr[a]
    BY <2>1, AvailStep, NodeType
  <2> SUFFICES ASSUME NEW a \in Nodes, NEW b \in Nodes, Apart(a, b)' PROVE FALSE
    BY <1>2 DEF FullyCoalesced, Apart
  <2>3. a # cur /\ b # cur /\ hdr'[a] = hdr[a] /\ hdr'[b] = hdr[b]
    BY <2>2 DEF Apart
  <2>4. Apart(a, b)
    BY <2>3 DEF Apart, BlockSize
  <2> QED BY <2>3, <2>4 DEF FullyCoalesced, Apart
<1>7. \/ UNCHANGED vars
      \/ \E a, x \in Slots : UserWrite(a, x)
      \/ hdr' = hdr /\ pc \in {"idle", "search"}
      \/ AllocReturn
  BY DEF AllocCall, AllocFind, AllocFail, FreeCall, pool
<1> QED BY <1>3, <1>4, <1>5, <1>6, <1>7

LEMMA NextCoalesced ==
  NoSizeOverflow /\ Inv /\ FullyCoalesced /\ [Next]_vars => FullyCoalesced'
BY NextInv, StopCoalesced, SplitCoalesced, MergeCoalesced, QuietCoalesced
   DEF Next, Alloc, Free

\* Buddies are never both left free when a call has returned (mpool.c:356): merging
\* is complete however long the history of splits.
THEOREM Coalesced == ASSUME NoSizeOverflow PROVE Spec => []FullyCoalesced
<1>1. Init => FullyCoalesced
  <2> SUFFICES ASSUME Init PROVE FullyCoalesced
    OBVIOUS
  <2>1. \A a \in Nodes : a = 0
    BY DEF Init, Nodes, Positions
  <2>2. 0 + BlockSize(0) # 0 \/ Nodes = {}
    <3>1. ASSUME NEW a \in Nodes PROVE 0 + BlockSize(0) # 0
      BY <2>1, <3>1, InitInv, SizeType
    <3> QED BY <3>1
  <2> QED BY <2>1, <2>2 DEF FullyCoalesced
<1>2. Inv /\ FullyCoalesced /\ [Next]_vars => FullyCoalesced'
  BY NextCoalesced
<1> QED BY <1>1, <1>2, Invariant, PTL DEF Spec

-----------------------------------------------------------------------------
(* The smallest chunk is split. *)

\* The last list the search accepts has the smallest chunks that suit
\* (mpool.c:110-147).
LEMMA FindSmallest ==
  ASSUME Inv, AllocFind
  PROVE  CurSmallest'
<1>1. PICK p \in Positions :
        /\ \A q \in Positions : q > p => ~Suits(q, TotalSize(req))
        /\ cur' \in blktable[p]
  BY DEF AllocFind
<1>2. Nodes' = Nodes /\ hdr' = hdr /\ req' = req
  BY DEF AllocFind, pool, Nodes
<1>3. cur' \in Nodes /\ hdr[cur'].logsize = MaxLog - p
  BY <1>1 DEF Inv, TypeOK, ListsBySize, Nodes
<1> SUFFICES ASSUME NEW a \in Nodes, hdr[a].avail, BlockSize(a) >= TotalSize(req)
             PROVE  Pow2[hdr[cur'].logsize] <= Pow2[hdr[a].logsize]
  BY <1>2 DEF CurSmallest, BlockSize, TotalSize
<1>4. PICK q \in Positions : a \in blktable[q]
  BY DEF Nodes
<1>5. Suits(q, TotalSize(req)) /\ hdr[a].logsize = MaxLog - q
  BY <1>4 DEF Inv, ListsBySize, Suits
<1>6. q <= p
  BY <1>1, <1>5 DEF Positions
<1>7. hdr[cur'].logsize \in Orders /\ hdr[a].logsize \in Orders
  BY <1>3, SizeType
<1>8. hdr[cur'].logsize <= hdr[a].logsize
  BY <1>3, <1>5, <1>6, OrderRange DEF Positions
<1> QED BY <1>7, <1>8, PowMonotone

\* A split makes the chunk smaller, and its right half as small (mpool.c:162-208).
LEMMA SplitSmallest ==
  ASSUME Inv, CurSmallest, AllocSplit
  PROVE  CurSmallest'
<1> DEFINE r == RightHalfAt  k == hdr[cur].logsize - 1
<1>1. /\ pc = "split" /\ cur' = cur /\ req' = req /\ cur \in Nodes
      /\ r \in Slots /\ r \notin Nodes /\ Nodes' = Nodes \cup {r} /\ k \in 0..MaxLog
      /\ hdr'[cur] = LeftHalf(hdr[cur]) /\ hdr'[r] = RightHalf(hdr[cur])
      /\ \A a \in Slots \ {cur, r} : hdr'[a] = hdr[a]
  BY SplitEffect
<1>2. hdr'[cur].logsize = k /\ hdr'[r].logsize = k
  BY <1>1 DEF LeftHalf, RightHalf
<1>3. hdr[cur].logsize = k + 1 /\ k \in Nat
  BY <1>1, SizeType, OrderRange
<1>4. Pow2[k] \in Nat /\ BlockSize(cur) = Pow2[k] + Pow2[k]
  <2>1. \A i \in 0..MaxLog : i \in Orders
    BY PowAssumption DEF Orders
  <2> QED BY <1>1, <1>3, <2>1, PowType, PowDouble DEF BlockSize
<1> HIDE DEF r, k
<1> SUFFICES ASSUME NEW a \in Nodes', hdr'[a].avail, BlockSize(a)' >= TotalSize(req)
             PROVE  Pow2[k] <= BlockSize(a)'
  BY <1>1, <1>2 DEF CurSmallest, BlockSize, TotalSize
<1>5. CASE a = cur \/ a = r
  BY <1>2, <1>4, <1>5 DEF BlockSize
<1>6. CASE a # cur /\ a # r
  <2>1. a \in Nodes /\ hdr'[a] = hdr[a] /\ BlockSize(a)' = BlockSize(a)
    BY <1>1, <1>6, NodeType DEF BlockSize
  <2>2. BlockSize(cur) <= BlockSize(a)
    BY <1>1, <2>1 DEF CurSmallest
  <2>3. BlockSize(a) \in Nat
    BY <2>1, SizeType
  <2> QED BY <1>4, <2>1, <2>2, <2>3
<1> QED BY <1>5, <1>6

LEMMA NextSmallest == Inv /\ CurSmallest /\ [Next]_vars => CurSmallest'
<1> SUFFICES ASSUME Inv, CurSmallest, [Next]_vars PROVE CurSmallest'
  OBVIOUS
<1>1. CASE UNCHANGED vars
  BY <1>1 DEF vars, CurSmallest, Nodes, BlockSize, TotalSize
<1>2. CASE AllocFind
  BY <1>2, FindSmallest
<1>3. CASE AllocSplit
  BY <1>3, SplitSmallest
<1>4. CASE \/ \E n \in Requests : AllocCall(n)
           \/ AllocFail \/ AllocReturn \/ FreeStop \/ FreeMerge
           \/ \E a \in Slots : FreeCall(a)
           \/ \E a, x \in Slots : UserWrite(a, x)
  <2>1. pc' # "split"
    BY <1>4, MergeEffect DEF AllocCall, AllocFail, AllocReturn, FreeStop, FreeCall, UserWrite
  <2> QED BY <2>1 DEF CurSmallest
<1> QED BY <1>1, <1>2, <1>3, <1>4 DEF Next, Alloc, Free

\* "The smallest possible value of j" (mpool.c:107-109): no available chunk that
\* could hold the request is smaller than the one that is split.
THEOREM SmallestSplit == ASSUME NoSizeOverflow PROVE Spec => SplitsSmallest
<1>1. Init => CurSmallest
  BY DEF Init, CurSmallest
<1>2. Inv /\ CurSmallest /\ [Next]_vars => CurSmallest'
  BY NextSmallest
<1>3. CurSmallest =>
        [ pc = "split" /\ blktable' # blktable =>
            \A a \in Nodes : hdr[a].avail /\ BlockSize(a) >= TotalSize(req)
                              => BlockSize(cur) <= BlockSize(a) ]_vars
  BY DEF CurSmallest
<1> QED BY <1>1, <1>2, <1>3, Invariant, PTL DEF Spec, SplitsSmallest

-----------------------------------------------------------------------------
(* Every step is one of Heap. *)

\* A free place of 2^k bytes, at a multiple of them, has a free chunk that large:
\* the smallest chunk in it would otherwise be apart from its buddy.
LEMMA RoomFound ==
  ASSUME Inv, FullyCoalesced, pc = "search",
         NEW k \in MinLog..MaxLog, NEW a \in Slots, Aligned(a, k),
         \A x \in Slots : held[x] # NoRequest => x + BlockSize(x) <= a \/ a + Pow2[k] <= x
  PROVE  \E c \in Nodes : hdr[c].avail /\ hdr[c].logsize >= k
<1>0. k \in Orders /\ k \in Nat /\ a \in Nat /\ Pow2[k] \in Nat /\ Pow2[k] >= 1
  BY OrderRange, PowType, NodeType
<1> DEFINE Inside == {x \in Nodes : a <= x /\ x < a + Pow2[k]}
<1>1. ASSUME NEW x \in Nodes, ~hdr[x].avail
      PROVE  x + BlockSize(x) <= a \/ a + Pow2[k] <= x
  <2>1. held[x] # NoRequest /\ x \in Slots
    BY <1>1, NodeType DEF Inv, UsedIsHeld
  <2> QED BY <2>1
<1>2. \A x \in Inside : hdr[x].avail
  <2> TAKE x \in Inside
  <2>1. BlockSize(x) \in Nat /\ BlockSize(x) >= 1 /\ x \in Nat
    BY SizeType
  <2> QED BY <1>0, <1>1, <2>1
<1>3. PICK c \in Nodes : c <= a /\ a < c + BlockSize(c)
  BY DEF Inv, Sound, Tiling, BlockSize
<1>4. hdr[c].logsize \in Orders /\ hdr[c].logsize \in Nat /\ c \in Nat /\ Aligned(c, hdr[c].logsize)
      /\ BlockSize(c) = Pow2[hdr[c].logsize] /\ BlockSize(c) \in Nat
  BY SizeType, OrderRange
<1>5. hdr[c].avail
  BY <1>0, <1>1, <1>3, <1>4
<1>6. CASE hdr[c].logsize >= k
  BY <1>5, <1>6
<1>7. CASE hdr[c].logsize < k
  <2>1. c = a
    <3>1. c < a => c + Pow2[hdr[c].logsize] <= a
      BY <1>0, <1>4, <1>7, Nesting
    <3> QED BY <1>0, <1>3, <1>4, <3>1
  <2>2. c \in Inside
    BY <1>0, <2>1
  <2>3. PICK m \in Inside : \A x \in Inside : hdr[m].logsize <= hdr[x].logsize
    <3> DEFINE L == {hdr[x].logsize : x \in Inside}
    <3>1. L \subseteq Nat /\ L # {}
      BY <2>2, SizeType, OrderRange
    <3>2. \E n \in L : \A i \in L : n <= i
      <4> HIDE DEF L
      <4> QED BY <3>1, Least
    <3> QED BY <3>2
  <2> DEFINE j == hdr[m].logsize  b == Buddy2(hdr, m)  p == Pow2[j]
  <2>4. /\ m \in Nodes /\ m \in Nat /\ m \in Slots /\ a <= m /\ m < a + Pow2[k]
        /\ j \in 0..MaxLog /\ j \in Orders /\ j \in Nat /\ Aligned(m, j)
        /\ p \in Nat /\ p >= 1 /\ BlockSize(m) = p
    BY SizeType, PowType, OrderRange
  <2>5. j < k /\ j < MaxLog /\ j + 1 <= k /\ j + 1 \in Orders /\ Pow2[j + 1] = p + p
    <3>1. j < k
      BY <1>0, <1>4, <1>7, <2>2, <2>3, <2>4
    <3>2. j < MaxLog /\ j + 1 <= k
      BY <1>0, <2>4, <3>1, OrderRange
    <3>3. j + 1 \in Orders
      <4>1. \A i \in 0..MaxLog : i + 1 \in Orders
        BY PowAssumption DEF Orders
      <4> QED BY <2>4, <4>1
    <3> QED BY <2>4, <3>1, <3>2, <3>3, PowDouble
  <2>6. b \in Nodes /\ b \in Nat
    BY <2>4, <2>5, BuddyThere, NodeType DEF Inv
  <2>7. Aligned(a, j + 1) /\ a + Pow2[k] \in Nat /\ Aligned(a + Pow2[k], k)
    BY <1>0, <2>5, AlignedDown, AlignedUp
  <2> DEFINE l == IF hdr[m].right THEN b ELSE m  r == IF hdr[m].right THEN m ELSE b
  <2>8. Aligned(l, j + 1) /\ l \in Nodes /\ l \in Nat /\ r = l + p
    <3>1. CASE hdr[m].right
      <4>1. ~Aligned(m, j + 1)
        BY <2>4, <3>1 DEF Inv, Sound, Sides
      <4>2. b = m - p /\ Aligned(b, j + 1)
        BY <2>4, <3>1, <4>1, OddIsRightHalf DEF Buddy2
      <4> QED BY <2>4, <2>6, <3>1, <4>2
    <3>2. CASE ~hdr[m].right
      <4>1. Aligned(m, j + 1)
        BY <2>4, <3>2 DEF Inv, Sound, Sides
      <4> QED BY <2>4, <3>2, <4>1 DEF Buddy2
    <3> QED BY <3>1, <3>2
  <2>9. r \in Nodes /\ r \in Nat /\ {l, r} = {m, b}
    BY <2>4, <2>6
  <2> HIDE DEF j, p, l, r, b
  <2>10. l + (p + p) <= a + Pow2[k]
    <3>1. l < a + Pow2[k]
      BY <2>4, <2>7, <2>8, <2>9
    <3> QED BY <1>0, <2>5, <2>7, <2>8, <3>1, Nesting
  <2>11. a <= l
    <3>1. l < a => l + (p + p) <= a
      BY <1>0, <2>5, <2>7, <2>8, Nesting
    <3> QED BY <1>0, <2>4, <2>8, <2>9, <3>1
  <2>12. l \in Inside /\ r \in Inside
    BY <1>0, <2>4, <2>8, <2>9, <2>10, <2>11
  <2>13. hdr[l].logsize >= j /\ hdr[r].logsize >= j
         /\ (hdr[l].logsize = j \/ hdr[r].logsize = j)
    BY <2>3, <2>9, <2>12 DEF j
  <2>14. ~Aligned(r, j + 1)
    BY <2>4, <2>8, RightHalfOdd DEF p
  <2>15. hdr[r].logsize = j
    <3> SUFFICES ASSUME hdr[r].logsize > j PROVE FALSE
      BY <2>4, <2>9, <2>13, SizeType, OrderRange
    <3>1. hdr[r].logsize \in Orders /\ hdr[r].logsize \in Nat /\ Aligned(r, hdr[r].logsize)
      BY <2>9, SizeType, OrderRange
    <3>2. j + 1 <= hdr[r].logsize
      BY <2>4, <3>1
    <3> QED BY <2>5, <2>9, <2>14, <3>1, <3>2, AlignedDown
  <2>16. hdr[l].logsize = j
    <3> SUFFICES ASSUME hdr[l].logsize > j PROVE FALSE
      BY <2>4, <2>8, <2>13, SizeType, OrderRange
    <3>1. hdr[l].logsize \in Orders /\ hdr[l].logsize \in Nat
      BY <2>8, SizeType, OrderRange
    <3>2. j + 1 <= hdr[l].logsize
      BY <2>4, <3>1
    <3>3. p + p <= Pow2[hdr[l].logsize] /\ Pow2[hdr[l].logsize] \in Nat
      BY <2>5, <3>1, <3>2, PowMonotone, PowType
    <3>4. l < r
      BY <2>4, <2>8
    <3>5. l + Pow2[hdr[l].logsize] <= r
      BY <2>8, <2>9, <3>4 DEF Inv, Sound, Tiling
    <3> QED BY <2>4, <2>8, <3>3, <3>5
  <2>17. ~hdr[l].right
    BY <2>8, <2>16 DEF Inv, Sound, Sides
  <2>18. Apart(l, r)
    BY <1>2, <2>8, <2>12, <2>15, <2>16, <2>17 DEF Apart, BlockSize, p
  <2> QED BY <2>8, <2>9, <2>18 DEF FullyCoalesced, Apart
<1> QED BY <1>4, <1>6, <1>7, <1>0

\* The variable `order' of Heap, as Buddy maps it.
OrderOf == [a \in Slots |-> IF held[a] # NoRequest THEN hdr[a].logsize ELSE 0]

LEMMA HeapNames ==
  /\ H!Places = Slots
  /\ H!Orders = MinLog..MaxLog
  /\ H!heapVars = <<OrderOf, req>>
  /\ H!NoRequest = NoRequest
  /\ \A a, k : H!AtMultiple(a, k) <=> Aligned(a, k)
BY DEF H!Places, H!Orders, H!heapVars, H!NoRequest, H!AtMultiple, NoRequest, Aligned, Slots,
       PoolSize, OrderOf

\* Where the client owns a chunk, Heap has an allocation of its size.
LEMMA OrderValue ==
  ASSUME Inv, NEW a \in Slots
  PROVE  /\ held[a] # NoRequest => OrderOf[a] = hdr[a].logsize /\ OrderOf[a] # 0
         /\ held[a] = NoRequest => OrderOf[a] = 0
<1>1. held[a] # NoRequest => hdr[a].logsize # 0
  <2> SUFFICES ASSUME held[a] # NoRequest PROVE hdr[a].logsize # 0
    OBVIOUS
  <2>1. hdr[a].logsize \in MinLog..MaxLog
    BY SizeType DEF Inv, UsedIsHeld
  <2>2. MinLog >= 1 /\ MinLog \in Nat /\ MaxLog \in Nat
    BY SizeAssumption, OrderRange
  <2> QED BY <2>1, <2>2
<1> QED BY <1>1 DEF OrderOf

\* Room in the sense of Heap is room between the client's chunks.
LEMMA VacantPlace ==
  ASSUME Inv, NEW a \in Slots, NEW k
  PROVE  H!Vacant(a, k) <=>
           /\ Aligned(a, k)
           /\ \A b \in Slots : held[b] # NoRequest => b + BlockSize(b) <= a \/ a + Pow2[k] <= b
<1>1. \A b \in Slots : OrderOf[b] # H!Unallocated <=> held[b] # NoRequest
  BY OrderValue DEF H!Unallocated
<1>2. \A b \in Slots : held[b] # NoRequest => Pow2[OrderOf[b]] = BlockSize(b)
  BY OrderValue DEF BlockSize
<1>3. H!Vacant(a, k) <=>
        /\ H!AtMultiple(a, k)
        /\ \A b \in H!Places : OrderOf[b] # H!Unallocated =>
              b + Pow2[OrderOf[b]] <= a \/ a + Pow2[k] <= b
  BY DEF H!Vacant, OrderOf
<1> QED BY <1>1, <1>2, <1>3, HeapNames

\* A step that leaves the client's chunks and the request alone is invisible.
LEMMA Invisible ==
  ASSUME held' = held, req' = req,
         \A a \in Slots : held[a] # NoRequest => hdr'[a].logsize = hdr[a].logsize
  PROVE  UNCHANGED H!heapVars
<1>1. OrderOf' = OrderOf
  BY DEF OrderOf
<1> QED BY <1>1 DEF H!heapVars, OrderOf

\* The searches, the splits, the merges and the client's writes are invisible.
LEMMA InvisibleSteps ==
  ASSUME Inv, AllocFind \/ AllocSplit \/ FreeStop \/ FreeMerge
              \/ (\E a, x \in Slots : UserWrite(a, x)) \/ UNCHANGED vars
  PROVE  UNCHANGED H!heapVars
<1>0. \A a \in Slots : held[a] # NoRequest => a \in Nodes /\ ~hdr[a].avail
  BY DEF Inv, UsedIsHeld
<1>1. CASE AllocFind
  BY <1>1, Invisible DEF AllocFind, pool
<1>2. CASE AllocSplit
  <2>1. held' = held /\ req' = req /\ hdr[cur].avail /\ RightHalfAt \notin Nodes
        /\ \A a \in Slots \ {cur, RightHalfAt} : hdr'[a] = hdr[a]
    BY <1>2, SplitEffect DEF Inv, Calls
  <2>2. \A a \in Slots : held[a] # NoRequest => hdr'[a] = hdr[a]
    BY <1>0, <2>1
  <2> QED BY <2>1, <2>2, Invisible
<1>3. CASE FreeStop
  <2>1. held' = held /\ req' = req /\ hdr \in [Slots -> Header] /\ cur \in Slots
        /\ (hdr' = [hdr EXCEPT ![cur].avail = TRUE] \/ hdr' = hdr)
    BY <1>3 DEF FreeStop, Inv, TypeOK
  <2>2. \A a \in Slots : hdr'[a].logsize = hdr[a].logsize
    BY <2>1, AvailStep
  <2> QED BY <2>1, <2>2, Invisible
<1>4. CASE FreeMerge
  <2>1. held' = held /\ req' = req /\ held[LeftAt] = NoRequest
        /\ \A a \in Slots \ {LeftAt} : hdr'[a] = hdr[a]
    BY <1>4, MergeEffect
  <2> QED BY <2>1, Invisible
<1>5. CASE \E a, x \in Slots : UserWrite(a, x)
  <2>1. held' = held /\ req' = req /\ \A a \in Nodes : hdr'[a] = hdr[a]
    BY <1>5, WriteSpares DEF UserWrite
  <2> QED BY <1>0, <2>1, Invisible
<1>6. CASE UNCHANGED vars
  BY <1>6, Invisible DEF vars
<1> QED BY <1>1, <1>2, <1>3, <1>4, <1>5, <1>6

\* A call of mpool_alloc is a request (mpool.c:86-101).
LEMMA RequestStep ==
  ASSUME Inv, NEW n \in Requests, AllocCall(n)
  PROVE  H!Request(n)
<1>1. pc = "idle" /\ req' = n /\ held' = held /\ hdr' = hdr
  BY DEF AllocCall, pool
<1>2. req = NoRequest /\ OrderOf' = OrderOf
  BY <1>1 DEF Inv, TypeOK, OrderOf
<1> QED BY <1>1, <1>2 DEF H!Request, H!NoRequest, NoRequest, OrderOf

\* mpool_alloc returns NULL only where no place would do (mpool.c:143-147).
LEMMA RefuseStep ==
  ASSUME NoSizeOverflow, Inv, FullyCoalesced, AllocFail
  PROVE  H!Refuse
<1>1. /\ pc = "search" /\ req' = NoRequest /\ held' = held /\ hdr' = hdr
      /\ \A p \in Positions : ~Suits(p, TotalSize(req))
  BY DEF AllocFail, pool
<1>2. req \in Requests /\ req # NoRequest /\ OrderOf' = OrderOf
  BY <1>1 DEF Inv, TypeOK, OrderOf
<1>3. TotalSize(req) = req + HdrSize /\ req + HdrSize \in Nat
  <2>1. req + HdrSize \in Nat /\ req + HdrSize < SizeMod
    BY <1>2, SizeAssumption DEF NoSizeOverflow
  <2> QED BY <2>1, SizeAssumption DEF TotalSize
<1>4. ASSUME NEW k \in MinLog..MaxLog, NEW a \in Slots, H!CanHold(a, k) PROVE FALSE
  <2>1. Pow2[k] >= req + HdrSize /\ H!Vacant(a, k)
    BY <1>4 DEF H!CanHold, H!Suffices
  <2>2. PICK c \in Nodes : hdr[c].avail /\ hdr[c].logsize >= k
    BY <1>1, <2>1, VacantPlace, RoomFound
  <2>3. PICK p \in Positions : c \in blktable[p]
    BY DEF Nodes
  <2>4. Pow2[k] \in Nat /\ Pow2[k] <= BlockSize(c) /\ BlockSize(c) \in Nat
    <3>1. hdr[c].logsize \in Orders /\ k \in Orders /\ BlockSize(c) = Pow2[hdr[c].logsize]
      BY SizeType, OrderRange
    <3>2. k <= hdr[c].logsize
      BY <2>2, SizeType, OrderRange
    <3> QED BY <3>1, <3>2, PowMonotone, PowType
  <2>5. BlockSize(c) >= TotalSize(req)
    BY <1>3, <2>1, <2>4
  <2> QED BY <1>1, <2>2, <2>3, <2>5 DEF Suits
<1> QED BY <1>1, <1>2, <1>4, HeapNames DEF H!Refuse, OrderOf

\* A request is granted the smallest power of two that holds it (mpool.c:153-159).
LEMMA GrantStep ==
  ASSUME NoSizeOverflow, Inv, AllocReturn
  PROVE  H!Grant
<1> DEFINE k == hdr[cur].logsize
<1>1. /\ pc = "split" /\ req' = NoRequest
      /\ NoSplitNeeded(cur, TotalSize(req))
      /\ hdr' = [hdr EXCEPT ![cur].avail = FALSE] /\ held' = [held EXCEPT ![cur] = req]
  BY DEF AllocReturn
<1>2. /\ cur \in Nodes /\ cur \in Slots /\ req \in Requests /\ req # NoRequest
      /\ hdr[cur].avail /\ TotalSize(req) <= Pow2[k]
  BY <1>1 DEF Inv, Calls, TypeOK, BlockSize
<1>3. TotalSize(req) = req + HdrSize /\ req + HdrSize \in Nat
  <2>1. req + HdrSize \in Nat /\ req + HdrSize < SizeMod
    BY <1>2, SizeAssumption DEF NoSizeOverflow
  <2> QED BY <2>1, SizeAssumption DEF TotalSize
<1>4. k \in MinLog..MaxLog /\ Aligned(cur, k) /\ k \in Nat /\ k \in Orders /\ Pow2[k] \in Nat
  BY <1>2, SizeType, OrderRange, PowType
<1>5. H!Suffices(k, req + HdrSize)
  <2>1. CASE k = MinLog
    BY <1>2, <1>3, <1>4, <2>1 DEF H!Suffices
  <2>2. CASE k # MinLog
    <3>1. MinLog <= k - 1 /\ k - 1 \in 0..MaxLog /\ k - 1 \in Orders
      <4>1. \A i \in MinLog..MaxLog :
              i # MinLog => MinLog <= i - 1 /\ i - 1 \in 0..MaxLog /\ i - 1 \in Orders
        BY OrderRange DEF Orders
      <4> HIDE DEF k
      <4> QED BY <1>4, <2>2, <4>1
    <3>2. Pow2[k - 1] \in Nat /\ Pow2[k - 1] >= 1 /\ Pow2[k] = Pow2[k - 1] + Pow2[k - 1]
      <4>1. (k - 1) + 1 = k
        BY <1>4
      <4> QED BY <3>1, <4>1, PowType, PowDouble
    <3>3. req + HdrSize = Pow2[k] \/ req + HdrSize > Pow2[k - 1]
      BY <1>1, <1>3, <3>1, OrderRange DEF NoSplitNeeded, BlockSize
    <3> QED BY <1>2, <1>3, <1>4, <3>2, <3>3 DEF H!Suffices
  <2> QED BY <2>1, <2>2
<1>6. H!Vacant(cur, k)
  <2> SUFFICES ASSUME NEW b \in Slots, held[b] # NoRequest
               PROVE  b + BlockSize(b) <= cur \/ cur + Pow2[k] <= b
    BY <1>2, <1>4, VacantPlace
  <2>1. b \in Nodes /\ b # cur
    BY <1>2 DEF Inv, UsedIsHeld
  <2>2. b < cur \/ cur < b
    BY <1>2, <2>1, NodeType
  <2>3. b < cur => b + BlockSize(b) <= cur
    BY <1>2, <2>1 DEF Inv, Sound, Tiling, BlockSize
  <2>4. cur < b => cur + Pow2[k] <= b
    BY <1>2, <2>1 DEF Inv, Sound, Tiling
  <2> QED BY <2>2, <2>3, <2>4
<1>7. OrderOf' = [OrderOf EXCEPT ![cur] = k]
  <2>1. \A a \in Slots : hdr'[a].logsize = hdr[a].logsize
    BY <1>1, <1>2, AvailStep DEF Inv, TypeOK
  <2>2. \A a \in Slots : held'[a] = IF a = cur THEN req ELSE held[a]
    BY <1>1, <1>2 DEF Inv, TypeOK
  <2> QED BY <1>2, <2>1, <2>2 DEF OrderOf
<1> HIDE DEF k
<1>8. req # H!NoRequest /\ req' = H!NoRequest /\ k \in H!Orders /\ cur \in H!Places
      /\ H!CanHold(cur, k)
  BY <1>1, <1>2, <1>4, <1>5, <1>6, HeapNames DEF H!CanHold
<1> QED BY <1>7, <1>8 DEF H!Grant, OrderOf

\* A call of mpool_free releases the chunk (mpool.c:210-248).
LEMMA ReleaseStep ==
  ASSUME Inv, NEW a \in Slots, FreeCall(a)
  PROVE  H!Release(a)
<1>1. /\ pc = "idle" /\ held[a] # NoRequest /\ held' = [held EXCEPT ![a] = NoRequest]
      /\ req' = req /\ hdr' = hdr
  BY DEF FreeCall, pool
<1>2. req = NoRequest /\ OrderOf[a] # 0
  BY <1>1, OrderValue DEF Inv, TypeOK
<1>3. OrderOf' = [OrderOf EXCEPT ![a] = 0]
  <2>1. \A b \in Slots : held'[b] = IF b = a THEN NoRequest ELSE held[b]
    BY <1>1 DEF Inv, TypeOK
  <2> QED BY <1>1, <2>1 DEF OrderOf
<1> QED BY <1>1, <1>2, <1>3 DEF H!Release, H!NoRequest, H!Unallocated, NoRequest, OrderOf

LEMMA NextHeap ==
  NoSizeOverflow /\ Inv /\ FullyCoalesced /\ [Next]_vars => [H!HeapNext]_(H!heapVars)
<1> SUFFICES ASSUME NoSizeOverflow, Inv, FullyCoalesced, [Next]_vars
             PROVE  H!HeapNext \/ UNCHANGED H!heapVars
  OBVIOUS
<1>1. ASSUME NEW n \in Requests, AllocCall(n) PROVE H!HeapNext
  BY <1>1, RequestStep DEF H!HeapNext
<1>2. CASE AllocFail
  BY <1>2, RefuseStep DEF H!HeapNext
<1>3. CASE AllocReturn
  BY <1>3, GrantStep DEF H!HeapNext
<1>4. ASSUME NEW a \in Slots, FreeCall(a) PROVE H!HeapNext
  BY <1>4, ReleaseStep, HeapNames DEF H!HeapNext
<1>5. CASE AllocFind \/ AllocSplit \/ FreeStop \/ FreeMerge
           \/ (\E a, x \in Slots : UserWrite(a, x)) \/ UNCHANGED vars
  BY <1>5, InvisibleSteps
<1> QED BY <1>1, <1>2, <1>3, <1>4, <1>5 DEF Next, Alloc, Free

\* mpool_alloc and mpool_free do what Heap promises, whatever the sizes: a request
\* gets the smallest power of two that holds it, clear of everything else, and is
\* refused only when there is no room at any multiple of that size.
THEOREM Implements ==
  ASSUME NoSizeOverflow
  PROVE  Spec => H!HeapInit /\ [][H!HeapNext]_(H!heapVars)
<1>1. Init => H!HeapInit
  <2> SUFFICES ASSUME Init PROVE H!HeapInit
    OBVIOUS
  <2>1. req = NoRequest /\ OrderOf = [a \in Slots |-> 0]
    BY DEF Init, OrderOf
  <2> QED BY <2>1, HeapNames DEF H!HeapInit, H!Unallocated, OrderOf
<1>2. Inv /\ FullyCoalesced /\ [Next]_vars => [H!HeapNext]_(H!heapVars)
  BY NextHeap
<1> QED BY <1>1, <1>2, Invariant, Coalesced, PTL DEF Spec

-----------------------------------------------------------------------------
(* The folds of the statistics are finite sums. *)

\* MapThenSumSet of the four operators of mstat.c is SumOver.
LEMMA NodesSum ==
  ASSUME NEW avail, NEW S, IsFiniteSet(S), NEW w \in [S -> Nat],
         \A p \in S : w[p] = Cardinality(InList(p, avail))
  PROVE  MapThenSumSet(LAMBDA p : Cardinality(InList(p, avail)), S) = SumOver(S, w)
<1>1. PICK total : SumTable(S, w, total)
  BY SumsExist
<1> DEFINE x(A) == CHOOSE p \in A : TRUE
           G(g) == [A \in SUBSET S |-> IF A = {} THEN 0 ELSE Cardinality(InList(x(A), avail)) + g[A \ {x(A)}]]
           f == CHOOSE iter : iter = G(iter)
<1>2. MapThenSumSet(LAMBDA p : Cardinality(InList(p, avail)), S) = f[S]
  BY DEF MapThenSumSet, MapThenFoldSet
<1>3. ASSUME NEW g PROVE Iterates(S, w, g) <=> g = G(g)
  <2>1. \A A \in SUBSET S : A # {} => w[x(A)] = Cardinality(InList(x(A), avail))
    OBVIOUS
  <2>2. [A \in SUBSET S |-> IF A = {} THEN 0 ELSE w[x(A)] + g[A \ {x(A)}]] = G(g)
    <3> HIDE DEF x
    <3> QED BY <2>1
  <2> QED BY <2>2 DEF Iterates
<1>4. total = G(total)
  BY <1>1, <1>3, FoldThere
<1>5. f = G(f)
  <2> HIDE DEF G
  <2> QED BY <1>4
<1> HIDE DEF f, G
<1>6. Iterates(S, w, f)
  BY <1>3, <1>5
<1> QED BY <1>1, <1>2, <1>6, FoldIs

\* mpool_stat_get_bytes sums over a list ...
LEMMA BytesOfList ==
  ASSUME NEW S, IsFiniteSet(S), NEW w \in [S -> Nat], \A a \in S : w[a] = BlockSize(a)
  PROVE  MapThenSumSet(BlockSize, S) = SumOver(S, w)
<1>1. PICK total : SumTable(S, w, total)
  BY SumsExist
<1> DEFINE x(A) == CHOOSE p \in A : TRUE
           G(g) == [A \in SUBSET S |-> IF A = {} THEN 0 ELSE BlockSize(x(A)) + g[A \ {x(A)}]]
           f == CHOOSE iter : iter = G(iter)
<1>2. MapThenSumSet(BlockSize, S) = f[S]
  BY DEF MapThenSumSet, MapThenFoldSet
<1>3. ASSUME NEW g PROVE Iterates(S, w, g) <=> g = G(g)
  <2>1. \A A \in SUBSET S : A # {} => w[x(A)] = BlockSize(x(A))
    OBVIOUS
  <2>2. [A \in SUBSET S |-> IF A = {} THEN 0 ELSE w[x(A)] + g[A \ {x(A)}]] = G(g)
    <3> HIDE DEF x
    <3> QED BY <2>1
  <2> QED BY <2>2 DEF Iterates
<1>4. total = G(total)
  BY <1>1, <1>3, FoldThere
<1>5. f = G(f)
  <2> HIDE DEF G
  <2> QED BY <1>4
<1> HIDE DEF f, G
<1>6. Iterates(S, w, f)
  BY <1>3, <1>5
<1> QED BY <1>1, <1>2, <1>6, FoldIs

\* ... and over the lists.
LEMMA BytesSum ==
  ASSUME NEW avail, NEW S, IsFiniteSet(S), NEW w \in [S -> Nat],
         \A p \in S : w[p] = MapThenSumSet(BlockSize, InList(p, avail))
  PROVE  MapThenSumSet(LAMBDA p : MapThenSumSet(BlockSize, InList(p, avail)), S) = SumOver(S, w)
<1>1. PICK total : SumTable(S, w, total)
  BY SumsExist
<1> DEFINE x(A) == CHOOSE p \in A : TRUE
           G(g) == [A \in SUBSET S |-> IF A = {} THEN 0 ELSE MapThenSumSet(BlockSize, InList(x(A), avail)) + g[A \ {x(A)}]]
           f == CHOOSE iter : iter = G(iter)
<1>2. MapThenSumSet(LAMBDA p : MapThenSumSet(BlockSize, InList(p, avail)), S) = f[S]
  BY DEF MapThenSumSet, MapThenFoldSet
<1>3. ASSUME NEW g PROVE Iterates(S, w, g) <=> g = G(g)
  <2>1. \A A \in SUBSET S : A # {} => w[x(A)] = MapThenSumSet(BlockSize, InList(x(A), avail))
    OBVIOUS
  <2>2. [A \in SUBSET S |-> IF A = {} THEN 0 ELSE w[x(A)] + g[A \ {x(A)}]] = G(g)
    <3> HIDE DEF x
    <3> QED BY <2>1
  <2> QED BY <2>2 DEF Iterates
<1>4. total = G(total)
  BY <1>1, <1>3, FoldThere
<1>5. f = G(f)
  <2> HIDE DEF G
  <2> QED BY <1>4
<1> HIDE DEF f, G
<1>6. Iterates(S, w, f)
  BY <1>3, <1>5
<1> QED BY <1>1, <1>2, <1>6, FoldIs

\* mpool_stat_get_block_length, over the lists.
LEMMA LengthsSum ==
  ASSUME NEW S, IsFiniteSet(S), NEW w \in [S -> Nat], \A p \in S : w[p] = StatBlockLength(p)
  PROVE  MapThenSumSet(StatBlockLength, S) = SumOver(S, w)
<1>1. PICK total : SumTable(S, w, total)
  BY SumsExist
<1> DEFINE x(A) == CHOOSE p \in A : TRUE
           G(g) == [A \in SUBSET S |-> IF A = {} THEN 0 ELSE StatBlockLength(x(A)) + g[A \ {x(A)}]]
           f == CHOOSE iter : iter = G(iter)
<1>2. MapThenSumSet(StatBlockLength, S) = f[S]
  BY DEF MapThenSumSet, MapThenFoldSet
<1>3. ASSUME NEW g PROVE Iterates(S, w, g) <=> g = G(g)
  <2>1. \A A \in SUBSET S : A # {} => w[x(A)] = StatBlockLength(x(A))
    OBVIOUS
  <2>2. [A \in SUBSET S |-> IF A = {} THEN 0 ELSE w[x(A)] + g[A \ {x(A)}]] = G(g)
    <3> HIDE DEF x
    <3> QED BY <2>1
  <2> QED BY <2>2 DEF Iterates
<1>4. total = G(total)
  BY <1>1, <1>3, FoldThere
<1>5. f = G(f)
  <2> HIDE DEF G
  <2> QED BY <1>4
<1> HIDE DEF f, G
<1>6. Iterates(S, w, f)
  BY <1>3, <1>5
<1> QED BY <1>1, <1>2, <1>6, FoldIs

-----------------------------------------------------------------------------
(* The statistics: what the lists of a table add up to. *)

LengthsOf(table) == [p \in Positions |-> Cardinality(table[p])]
BytesOf(table)   == [p \in Positions |-> Cardinality(table[p]) * Pow2[MaxLog - p]]

\* A pool has finitely many addresses and lists.
LEMMA FinitePool == IsFiniteSet(Slots) /\ IsFiniteSet(Positions)
<1>1. PoolSize \in Nat /\ MaxLog \in Nat /\ MinLog \in 1..MaxLog
  BY ZeroSlot, PowAssumption, SizeAssumption
<1>2. IsFiniteSet(0..(PoolSize - 1)) /\ IsFiniteSet(Positions)
  BY <1>1, FS_Interval DEF Positions
<1>3. Slots \subseteq 0..(PoolSize - 1)
  BY DEF Slots
<1> QED BY <1>2, <1>3, FS_Subset

\* Lengths and bytes are natural numbers.
LEMMA SumTypes ==
  ASSUME NEW table \in [Positions -> SUBSET Slots]
  PROVE  /\ \A p \in Positions : /\ IsFiniteSet(table[p]) /\ Cardinality(table[p]) \in Nat
                                 /\ Pow2[MaxLog - p] \in Nat
         /\ LengthsOf(table) \in [Positions -> Nat] /\ BytesOf(table) \in [Positions -> Nat]
<1>1. ASSUME NEW p \in Positions
      PROVE  /\ IsFiniteSet(table[p]) /\ Cardinality(table[p]) \in Nat /\ Pow2[MaxLog - p] \in Nat
             /\ Cardinality(table[p]) * Pow2[MaxLog - p] \in Nat
  <2>1. IsFiniteSet(table[p]) /\ Cardinality(table[p]) \in Nat
    BY FinitePool, FS_Subset, FS_CardinalityType
  <2>2. MaxLog - p \in Orders
    BY PowAssumption, SizeAssumption DEF Positions, Orders
  <2>3. Pow2[MaxLog - p] \in Nat
    BY <2>2, PowType
  <2>4. \A m, n \in Nat : m * n \in Nat
    OBVIOUS
  <2> QED BY <2>1, <2>3, <2>4
<1> QED BY <1>1 DEF LengthsOf, BytesOf

\* One chunk of a list gives two of the next list, which has chunks half as large.
LEMMA SumsHalved ==
  ASSUME NEW t \in [Positions -> SUBSET Slots], NEW u \in [Positions -> SUBSET Slots],
         NEW p \in Positions, p + 1 \in Positions, NEW a \in t[p], NEW b, a # b,
         a \notin t[p + 1], b \notin t[p + 1],
         u[p] = t[p] \ {a}, u[p + 1] = t[p + 1] \cup {a, b},
         \A x \in Positions \ {p, p + 1} : u[x] = t[x]
  PROVE  /\ SumOver(Positions, LengthsOf(t)) \in Nat
         /\ SumOver(Positions, LengthsOf(u)) = SumOver(Positions, LengthsOf(t)) + 1
         /\ SumOver(Positions, BytesOf(u)) = SumOver(Positions, BytesOf(t))
<1> DEFINE q == p + 1
           half == Pow2[MaxLog - q]
           lt == LengthsOf(t)  lu == LengthsOf(u)  bt == BytesOf(t)  bu == BytesOf(u)
<1>1. p \in Nat /\ p # q /\ q \in Positions /\ MaxLog - q \in 0..MaxLog /\ (MaxLog - q) + 1 = MaxLog - p
  BY PowAssumption, SizeAssumption DEF Positions
<1>2. half \in Nat /\ Pow2[MaxLog - p] = half + half
  <2>1. Pow2[(MaxLog - q) + 1] = half + half
    BY <1>1, PowDouble
  <2> QED BY <1>1, <2>1, SumTypes
<1>3. Cardinality(u[p]) = Cardinality(t[p]) - 1
  BY SumTypes, OneLess
<1>4. Cardinality(u[q]) = Cardinality(t[q]) + 2
  <2>1. IsFiniteSet(t[q])
    BY <1>1, SumTypes
  <2>2. IsFiniteSet(t[q] \cup {a}) /\ Cardinality(t[q] \cup {a}) = Cardinality(t[q]) + 1
    BY <2>1, FS_AddElement
  <2>3. b \notin t[q] \cup {a}
    OBVIOUS
  <2>4. Cardinality((t[q] \cup {a}) \cup {b}) = Cardinality(t[q] \cup {a}) + 1
    BY <2>2, <2>3, FS_AddElement
  <2>5. u[q] = (t[q] \cup {a}) \cup {b}
    OBVIOUS
  <2>6. Cardinality(t[q]) \in Nat
    BY <1>1, SumTypes
  <2> QED BY <2>2, <2>4, <2>5, <2>6
<1>5. Cardinality(t[p]) \in Nat /\ Cardinality(t[q]) \in Nat
  BY <1>1, SumTypes
<1>6. /\ lt[p] = Cardinality(t[p]) /\ lt[q] = Cardinality(t[q])
      /\ lu[p] = Cardinality(t[p]) - 1 /\ lu[q] = Cardinality(t[q]) + 2
  BY <1>1, <1>3, <1>4 DEF LengthsOf
<1>7. /\ bt[p] = Cardinality(t[p]) * (half + half) /\ bt[q] = Cardinality(t[q]) * half
      /\ bu[p] = (Cardinality(t[p]) - 1) * (half + half) /\ bu[q] = (Cardinality(t[q]) + 2) * half
  BY <1>1, <1>2, <1>3, <1>4 DEF BytesOf
<1>8. \A x \in Positions \ {p, q} : lu[x] = lt[x] /\ bu[x] = bt[x]
  BY DEF LengthsOf, BytesOf
<1>9. /\ lt \in [Positions -> Nat] /\ lu \in [Positions -> Nat]
      /\ bt \in [Positions -> Nat] /\ bu \in [Positions -> Nat]
  BY SumTypes
<1>10. bu[p] + bu[q] = bt[p] + bt[q]
  <2> DEFINE c == Cardinality(t[p])  d == Cardinality(t[q])
  <2>1. c \in Nat /\ d \in Nat /\ half \in Nat
    BY <1>2, <1>5
  <2> HIDE DEF c, d, half
  <2>2. (c - 1) * (half + half) + (d + 2) * half = c * (half + half) + d * half
    BY <2>1
  <2> QED BY <1>7, <2>2 DEF c, d
<1> HIDE DEF q, half, lt, lu, bt, bu
<1>11. /\ SumOver(Positions, lu) \in Nat /\ SumOver(Positions, lt) \in Nat
       /\ SumOver(Positions, lu) + lt[p] + lt[q] = SumOver(Positions, lt) + lu[p] + lu[q]
  <2>1. IsFiniteSet(Positions) /\ p # q /\ q \in Positions
    BY <1>1, FinitePool
  <2>2. lt \in [Positions -> Nat] /\ lu \in [Positions -> Nat]
    BY <1>9
  <2>3. \A x \in Positions \ {p, q} : lu[x] = lt[x]
    BY <1>8
  <2> QED BY <2>1, <2>2, <2>3, SumChanged
<1>12. /\ SumOver(Positions, bu) \in Nat /\ SumOver(Positions, bt) \in Nat
       /\ SumOver(Positions, bu) + bt[p] + bt[q] = SumOver(Positions, bt) + bu[p] + bu[q]
  <2>1. IsFiniteSet(Positions) /\ p # q /\ q \in Positions
    BY <1>1, FinitePool
  <2>2. bt \in [Positions -> Nat] /\ bu \in [Positions -> Nat]
    BY <1>9
  <2>3. \A x \in Positions \ {p, q} : bu[x] = bt[x]
    BY <1>8
  <2> QED BY <2>1, <2>2, <2>3, SumChanged
<1>13. SumOver(Positions, lu) = SumOver(Positions, lt) + 1
  BY <1>5, <1>6, <1>11
<1>14. SumOver(Positions, bu) = SumOver(Positions, bt)
  <2>1. bt[p] \in Nat /\ bt[q] \in Nat /\ bu[p] \in Nat /\ bu[q] \in Nat
    BY <1>1, <1>9
  <2> QED BY <1>10, <1>12, <2>1
<1> QED BY <1>11, <1>13, <1>14 DEF lt, lu, bt, bu

\* The lists' bytes are the pool's, and there is one chunk more than splits exceed
\* merges, but for the rounds the counters have made.
Balanced ==
  /\ SumOver(Positions, BytesOf(blktable)) = PoolSize
  /\ \E q \in Int : SumOver(Positions, LengthsOf(blktable)) - 1 = nsplits - nmerges + q * CounterMod

\* One chunk as large as the pool (mpool.c:65-80).
LEMMA InitBalanced == ASSUME Init PROVE Balanced
<1>1. blktable = [p \in Positions |-> IF p = 0 THEN {0} ELSE {}] /\ nsplits = 0 /\ nmerges = 0
  BY DEF Init
<1>2. 0 \in Slots /\ 0 \in Positions /\ MaxLog \in Nat
  BY ZeroSlot, PowAssumption, SizeAssumption DEF Positions
<1>3. blktable \in [Positions -> SUBSET Slots]
  BY <1>1, <1>2
<1> DEFINE l == LengthsOf(blktable)  b == BytesOf(blktable)
<1>4. /\ l \in [Positions -> Nat] /\ b \in [Positions -> Nat]
      /\ \A p \in Positions : Pow2[MaxLog - p] \in Nat
  BY <1>3, SumTypes
<1>5. l[0] = 1 /\ b[0] = PoolSize
  <2>1. Cardinality(blktable[0]) = 1
    BY <1>1, <1>2, FS_Singleton
  <2>2. MaxLog - 0 = MaxLog /\ 1 * Pow2[MaxLog] = Pow2[MaxLog]
    BY <1>2, <1>4
  <2> QED BY <1>2, <2>1, <2>2 DEF LengthsOf, BytesOf, PoolSize
<1>6. \A p \in Positions \ {0} : l[p] = 0 /\ b[p] = 0
  <2>1. \A p \in Positions \ {0} : Cardinality(blktable[p]) = 0
    BY <1>1, FS_EmptySet
  <2>2. \A p \in Positions : 0 * Pow2[MaxLog - p] = 0
    BY <1>4
  <2> QED BY <2>1, <2>2 DEF LengthsOf, BytesOf
<1> HIDE DEF l, b
<1>7. SumOver(Positions \ {0}, l) = 0 /\ SumOver(Positions \ {0}, b) = 0
  <2>1. IsFiniteSet(Positions \ {0}) /\ Cardinality(Positions \ {0}) \in Nat
    BY FinitePool, FS_Subset, FS_CardinalityType
  <2>2. /\ SumOver(Positions \ {0}, l) = Cardinality(Positions \ {0}) * 0
        /\ SumOver(Positions \ {0}, b) = Cardinality(Positions \ {0}) * 0
    BY <1>6, <2>1, SumConstant
  <2> QED BY <2>1, <2>2
<1>8. /\ SumOver(Positions, l) = SumOver(Positions \ {0}, l) + l[0]
      /\ SumOver(Positions, b) = SumOver(Positions \ {0}, b) + b[0]
  BY <1>2, <1>4, FinitePool, SumLess
<1>9. SumOver(Positions, l) = 1 /\ SumOver(Positions, b) = PoolSize
  BY <1>5, <1>7, <1>8, ZeroSlot
<1>10. SumOver(Positions, l) - 1 = nsplits - nmerges + 0 * CounterMod /\ 0 \in Int
  BY <1>1, <1>9, SizeAssumption
<1> QED BY <1>9, <1>10 DEF Balanced, l, b

\* A counter that wraps.
LEMMA NextCount ==
  ASSUME NEW n \in 0..(CounterMod - 1)
  PROVE  \E q \in {0, 1} : (n + 1) % CounterMod = n + 1 - q * CounterMod
<1>1. CounterMod \in Nat \ {0}
  BY SizeAssumption
<1>2. CASE n + 1 = CounterMod
  <2>1. (1 * CounterMod + 0) % CounterMod = 0
    BY <1>1, Remainder
  <2>2. 1 * CounterMod + 0 = n + 1 /\ n + 1 - 1 * CounterMod = 0
    BY <1>1, <1>2
  <2> QED BY <2>1, <2>2
<1>3. CASE n + 1 # CounterMod
  <2>1. n + 1 \in 0..(CounterMod - 1)
    BY <1>1, <1>3
  <2>2. (0 * CounterMod + (n + 1)) % CounterMod = n + 1
    BY <1>1, <2>1, Remainder
  <2>3. 0 * CounterMod + (n + 1) = n + 1 /\ n + 1 - 0 * CounterMod = n + 1
    BY <1>1
  <2> QED BY <2>2, <2>3
<1> QED BY <1>2, <1>3

\* Where the chunks are.
LEMMA InOneList ==
  ASSUME Inv
  PROVE  /\ blktable \in [Positions -> SUBSET Slots] /\ hdr \in [Slots -> Header]
         /\ \A p \in Positions : \A a \in blktable[p] : p = MaxLog - hdr[a].logsize
         /\ \A a \in Nodes : MaxLog - hdr[a].logsize \in Positions /\ a \in blktable[MaxLog - hdr[a].logsize]
<1>1. blktable \in [Positions -> SUBSET Slots] /\ hdr \in [Slots -> Header]
  BY DEF Inv, TypeOK
<1>2. ASSUME NEW p \in Positions, NEW a \in blktable[p] PROVE p = MaxLog - hdr[a].logsize
  <2>1. hdr[a].logsize = MaxLog - p
    BY <1>2 DEF Inv, ListsBySize
  <2>2. p \in Int /\ MaxLog \in Int
    BY PowAssumption, SizeAssumption DEF Positions
  <2> QED BY <2>1, <2>2
<1>3. ASSUME NEW a \in Nodes
      PROVE MaxLog - hdr[a].logsize \in Positions /\ a \in blktable[MaxLog - hdr[a].logsize]
  BY <1>2 DEF Nodes
<1> QED BY <1>1, <1>2, <1>3

\* mpool_alloc splits a chunk (mpool.c:164-206).
LEMMA SplitBalanced == ASSUME Inv, Balanced, AllocSplit PROVE Balanced'
<1> DEFINE k == hdr[cur].logsize - 1
           p == MaxLog - hdr[cur].logsize
           r == RightHalfAt
<1>1. /\ nmerges' = nmerges /\ nsplits' = (nsplits + 1) % CounterMod
      /\ cur \in Nodes /\ r \notin Nodes /\ r # cur
      /\ k \in 0..MaxLog /\ MinLog <= k
      /\ blktable' \in [Positions -> SUBSET Slots]
      /\ \A x \in Positions : blktable'[x] = IF x = MaxLog - k THEN (blktable[x] \ {cur}) \cup {cur, r}
                                             ELSE blktable[x] \ {cur}
  BY SplitEffect
<1>2. /\ blktable \in [Positions -> SUBSET Slots]
      /\ p \in Positions /\ cur \in blktable[p]
      /\ \A x \in Positions : cur \in blktable[x] => x = p
  BY <1>1, InOneList
<1>3. p + 1 = MaxLog - k /\ p + 1 \in Positions /\ p # p + 1
  <2> DEFINE h == hdr[cur].logsize
  <2>1. h \in Nat
    BY <1>1, InOneList, NodeType DEF Header
  <2>2. MaxLog - h \in 0..(MaxLog - MinLog) /\ MinLog <= h - 1 /\ MaxLog \in Nat /\ MinLog \in Nat
    BY <1>1, <1>2, PowAssumption, SizeAssumption DEF Positions
  <2> HIDE DEF h
  <2>3. (MaxLog - h) + 1 = MaxLog - (h - 1) /\ (MaxLog - h) + 1 \in 0..(MaxLog - MinLog)
        /\ MaxLog - h # (MaxLog - h) + 1
    BY <2>1, <2>2
  <2> QED BY <2>3 DEF h, Positions
<1>4. r \notin blktable[p + 1] /\ cur \notin blktable[p + 1]
  <2>1. r \notin blktable[p + 1]
    BY <1>1, <1>2, <1>3 DEF Nodes
  <2> QED BY <1>2, <1>3, <2>1
<1> HIDE DEF k, p, r
<1>5. /\ blktable'[p] = blktable[p] \ {cur} /\ blktable'[p + 1] = blktable[p + 1] \cup {cur, r}
      /\ \A x \in Positions \ {p, p + 1} : blktable'[x] = blktable[x]
  <2>1. \A x \in Positions : x # p => cur \notin blktable[x]
    BY <1>2
  <2>2. \A x \in Positions : blktable'[x] = IF x = p + 1 THEN (blktable[x] \ {cur}) \cup {cur, r}
                                            ELSE blktable[x] \ {cur}
    BY <1>1, <1>3
  <2>3. blktable'[p] = blktable[p] \ {cur}
    BY <1>2, <1>3, <2>2
  <2>4. blktable'[p + 1] = blktable[p + 1] \cup {cur, r}
    BY <1>3, <2>2
  <2>5. ASSUME NEW x \in Positions \ {p, p + 1} PROVE blktable'[x] = blktable[x]
    BY <2>1, <2>2
  <2> QED BY <2>3, <2>4, <2>5
<1>6. /\ SumOver(Positions, LengthsOf(blktable)) \in Nat
      /\ SumOver(Positions, LengthsOf(blktable')) = SumOver(Positions, LengthsOf(blktable)) + 1
      /\ SumOver(Positions, BytesOf(blktable')) = SumOver(Positions, BytesOf(blktable))
  BY <1>1, <1>2, <1>3, <1>4, <1>5, SumsHalved
<1>7. PICK q \in Int : SumOver(Positions, LengthsOf(blktable)) - 1 = nsplits - nmerges + q * CounterMod
  BY DEF Balanced
<1>8. nsplits \in 0..(CounterMod - 1) /\ nmerges \in 0..(CounterMod - 1) /\ CounterMod \in Nat
  BY SizeAssumption DEF Inv, TypeOK
<1>9. PICK s \in {0, 1} : (nsplits + 1) % CounterMod = nsplits + 1 - s * CounterMod
  BY <1>8, NextCount
<1>10. SumOver(Positions, LengthsOf(blktable')) - 1 = nsplits' - nmerges' + (q + s) * CounterMod
  <2> DEFINE n == SumOver(Positions, LengthsOf(blktable))
  <2>1. (q + s) * CounterMod = q * CounterMod + s * CounterMod /\ q * CounterMod \in Int /\ s * CounterMod \in Int
    BY <1>8
  <2>2. n \in Nat /\ n - 1 = nsplits - nmerges + q * CounterMod
    BY <1>6, <1>7
  <2> HIDE DEF n
  <2>3. n = nsplits' - nmerges' + (q + s) * CounterMod
    <3>1. nsplits' = nsplits + 1 - s * CounterMod /\ nmerges' = nmerges
      BY <1>1, <1>9
    <3>2. nsplits \in Int /\ nmerges \in Int
      BY <1>8
    <3> QED BY <2>1, <2>2, <3>1, <3>2
  <2>4. SumOver(Positions, LengthsOf(blktable')) - 1 = n
    BY <1>6, <2>2 DEF n
  <2> QED BY <2>3, <2>4
<1>11. q + s \in Int
  OBVIOUS
<1> QED BY <1>6, <1>10, <1>11 DEF Balanced, PoolSize

\* mpool_free merges two (mpool.c:295-357): a split read backwards.
LEMMA MergeBalanced == ASSUME Inv, Balanced, FreeMerge PROVE Balanced'
<1> DEFINE k == hdr[cur].logsize
           p == MaxLog - (k + 1)
           l == LeftAt
           r == RightAt
<1>1. /\ nsplits' = nsplits /\ nmerges' = (nmerges + 1) % CounterMod
      /\ l \in Nodes /\ r \in Nodes /\ l # r
      /\ k \in MinLog..MaxLog /\ k < MaxLog
      /\ blktable' \in [Positions -> SUBSET Slots]
      /\ \A x \in Positions : blktable'[x] = IF x = MaxLog - (k + 1) THEN (blktable[x] \ {l, r}) \cup {l}
                                             ELSE blktable[x] \ {l, r}
  BY MergeEffect
<1>2. hdr[l].logsize = k /\ hdr[r].logsize = k
  BY DEF FreeMerge, CanMerge, LeftAt, RightAt
<1>3. p \in Positions /\ p + 1 \in Positions /\ p + 1 = MaxLog - k /\ p # p + 1
  <2>1. k \in MinLog..MaxLog /\ k < MaxLog
    BY <1>1
  <2> HIDE DEF k
  <2>2. MaxLog \in Nat /\ MinLog \in 1..MaxLog
    BY PowAssumption, SizeAssumption
  <2> QED BY <2>1, <2>2 DEF Positions
<1>4. /\ blktable \in [Positions -> SUBSET Slots]
      /\ l \in blktable[p + 1] /\ r \in blktable[p + 1]
      /\ \A x \in Positions \ {p + 1} : l \notin blktable[x] /\ r \notin blktable[x]
  <2>1. \A x \in Positions : \A a \in blktable[x] : x = MaxLog - hdr[a].logsize
    BY InOneList
  <2>2. l \in blktable[MaxLog - hdr[l].logsize] /\ r \in blktable[MaxLog - hdr[r].logsize]
    BY <1>1, InOneList
  <2>3. blktable \in [Positions -> SUBSET Slots]
    BY InOneList
  <2> HIDE DEF k, l, r, p
  <2> QED BY <1>2, <1>3, <2>1, <2>2, <2>3
<1> HIDE DEF k, p, l, r
<1>5. /\ l \in blktable'[p] /\ l \notin blktable'[p + 1] /\ r \notin blktable'[p + 1]
      /\ blktable[p] = blktable'[p] \ {l} /\ blktable[p + 1] = blktable'[p + 1] \cup {l, r}
      /\ \A x \in Positions \ {p, p + 1} : blktable[x] = blktable'[x]
  <2>1. \A x \in Positions : blktable'[x] = IF x = p THEN (blktable[x] \ {l, r}) \cup {l}
                                            ELSE blktable[x] \ {l, r}
    BY <1>1 DEF p
  <2>2. l \notin blktable[p] /\ r \notin blktable[p]
    BY <1>3, <1>4
  <2>3. blktable'[p] = (blktable[p] \ {l, r}) \cup {l} /\ blktable'[p + 1] = blktable[p + 1] \ {l, r}
    BY <1>3, <2>1
  <2>4. ASSUME NEW x \in Positions \ {p, p + 1} PROVE blktable[x] = blktable'[x]
    <3>1. l \notin blktable[x] /\ r \notin blktable[x]
      BY <1>4
    <3>2. blktable'[x] = blktable[x] \ {l, r}
      BY <2>1
    <3> QED BY <3>1, <3>2
  <2>5. blktable[p] = blktable'[p] \ {l} /\ l \in blktable'[p]
    BY <2>2, <2>3
  <2>6. /\ blktable[p + 1] = blktable'[p + 1] \cup {l, r}
        /\ l \notin blktable'[p + 1] /\ r \notin blktable'[p + 1]
    BY <1>4, <2>3
  <2> QED BY <2>4, <2>5, <2>6
<1>6. /\ SumOver(Positions, LengthsOf(blktable')) \in Nat
      /\ SumOver(Positions, LengthsOf(blktable)) = SumOver(Positions, LengthsOf(blktable')) + 1
      /\ SumOver(Positions, BytesOf(blktable)) = SumOver(Positions, BytesOf(blktable'))
  BY <1>1, <1>3, <1>4, <1>5, SumsHalved
<1>7. PICK q \in Int : SumOver(Positions, LengthsOf(blktable)) - 1 = nsplits - nmerges + q * CounterMod
  BY DEF Balanced
<1>8. nsplits \in 0..(CounterMod - 1) /\ nmerges \in 0..(CounterMod - 1) /\ CounterMod \in Nat
  BY SizeAssumption DEF Inv, TypeOK
<1>9. PICK s \in {0, 1} : (nmerges + 1) % CounterMod = nmerges + 1 - s * CounterMod
  BY <1>8, NextCount
<1>10. SumOver(Positions, LengthsOf(blktable')) - 1 = nsplits' - nmerges' + (q - s) * CounterMod
  <2> DEFINE n == SumOver(Positions, LengthsOf(blktable'))
  <2>1. (q - s) * CounterMod = q * CounterMod - s * CounterMod /\ q * CounterMod \in Int /\ s * CounterMod \in Int
    BY <1>8
  <2>2. n \in Nat /\ n = nsplits - nmerges + q * CounterMod
    <3>1. SumOver(Positions, LengthsOf(blktable)) = n + 1 /\ n \in Nat
      BY <1>6
    <3>2. (n + 1) - 1 = nsplits - nmerges + q * CounterMod
      BY <1>7, <3>1
    <3> HIDE DEF n
    <3> QED BY <3>1, <3>2
  <2> HIDE DEF n
  <2>3. n - 1 = nsplits' - nmerges' + (q - s) * CounterMod
    <3>1. nmerges' = nmerges + 1 - s * CounterMod /\ nsplits' = nsplits
      BY <1>1, <1>9
    <3>2. nsplits \in Int /\ nmerges \in Int
      BY <1>8
    <3> QED BY <2>1, <2>2, <3>1, <3>2
  <2> QED BY <2>3 DEF n
<1>11. q - s \in Int
  OBVIOUS
<1> QED BY <1>6, <1>10, <1>11 DEF Balanced, PoolSize

\* Only splits and merges change what the statistics add up to.
LEMMA NextBalanced == Inv /\ Balanced /\ [Next]_vars => Balanced'
<1> SUFFICES ASSUME Inv, Balanced, [Next]_vars PROVE Balanced'
  OBVIOUS
<1>1. CASE AllocSplit
  BY <1>1, SplitBalanced
<1>2. CASE FreeMerge
  BY <1>2, MergeBalanced
<1>3. CASE UNCHANGED <<blktable, nsplits, nmerges>>
  BY <1>3 DEF Balanced, BytesOf, LengthsOf
<1>4. AllocSplit \/ FreeMerge \/ UNCHANGED <<blktable, nsplits, nmerges>>
  BY DEF Next, Alloc, Free, AllocCall, AllocFind, AllocFail, AllocReturn, FreeCall, FreeStop, UserWrite, vars, pool
<1> QED BY <1>1, <1>2, <1>3, <1>4

-----------------------------------------------------------------------------
(* What the functions of mstat.c return. *)

AvailOf(avail) == [p \in Positions |-> Cardinality(InList(p, avail))]
AvailBytes(avail) == [p \in Positions |-> Cardinality(InList(p, avail)) * Pow2[MaxLog - p]]

\* Their terms are natural numbers.
LEMMA InLists ==
  ASSUME Inv, NEW avail
  PROVE  /\ \A p \in Positions : /\ InList(p, avail) \in SUBSET Slots
                                 /\ IsFiniteSet(InList(p, avail)) /\ Cardinality(InList(p, avail)) \in Nat
                                 /\ Pow2[MaxLog - p] \in Nat
         /\ AvailOf(avail) \in [Positions -> Nat] /\ AvailBytes(avail) \in [Positions -> Nat]
<1> DEFINE table == [p \in Positions |-> InList(p, avail)]
<1>1. table \in [Positions -> SUBSET Slots] /\ \A p \in Positions : table[p] = InList(p, avail)
  BY InOneList DEF InList
<1> HIDE DEF table
<1>2. /\ \A p \in Positions : /\ IsFiniteSet(table[p]) /\ Cardinality(table[p]) \in Nat
                              /\ Pow2[MaxLog - p] \in Nat
      /\ LengthsOf(table) \in [Positions -> Nat] /\ BytesOf(table) \in [Positions -> Nat]
  BY <1>1, SumTypes
<1>3. AvailOf(avail) = LengthsOf(table) /\ AvailBytes(avail) = BytesOf(table)
  BY <1>1 DEF AvailOf, AvailBytes, LengthsOf, BytesOf
<1> QED BY <1>1, <1>2, <1>3

\* They are the sums of these terms.
LEMMA StatsAre ==
  ASSUME Inv, NEW avail
  PROVE  StatNodes(avail) = SumOver(Positions, AvailOf(avail)) /\ StatBytes(avail) = SumOver(Positions, AvailBytes(avail))
<1>1. AvailOf(avail) \in [Positions -> Nat] /\ AvailBytes(avail) \in [Positions -> Nat]
  BY InLists
<1>2. StatNodes(avail) = SumOver(Positions, AvailOf(avail))
  <2>1. \A p \in Positions : AvailOf(avail)[p] = Cardinality(InList(p, avail))
    BY DEF AvailOf
  <2>2. MapThenSumSet(LAMBDA p : Cardinality(InList(p, avail)), Positions) = SumOver(Positions, AvailOf(avail))
    BY <1>1, <2>1, FinitePool, NodesSum
  <2> QED BY <2>2 DEF StatNodes
<1>3. ASSUME NEW p \in Positions PROVE AvailBytes(avail)[p] = MapThenSumSet(BlockSize, InList(p, avail))
  <2> DEFINE S == InList(p, avail)
             n == Pow2[MaxLog - p]
             w == [a \in S |-> n]
  <2>1. IsFiniteSet(S) /\ n \in Nat
    BY InLists
  <2>2. \A a \in S : BlockSize(a) = n
    BY DEF Inv, ListsBySize, BlockSize, InList
  <2>3. AvailBytes(avail)[p] = Cardinality(S) * n
    BY DEF AvailBytes
  <2> HIDE DEF S, n
  <2>4. w \in [S -> Nat] /\ (\A a \in S : w[a] = n) /\ (\A a \in S : w[a] = BlockSize(a))
    BY <2>1, <2>2
  <2> HIDE DEF w
  <2>5. MapThenSumSet(BlockSize, S) = SumOver(S, w)
    BY <2>1, <2>4, BytesOfList
  <2>6. SumOver(S, w) = Cardinality(S) * n
    BY <2>1, <2>4, SumConstant
  <2> QED BY <2>3, <2>5, <2>6 DEF S
<1>4. StatBytes(avail) = SumOver(Positions, AvailBytes(avail))
  <2>1. MapThenSumSet(LAMBDA p : MapThenSumSet(BlockSize, InList(p, avail)), Positions)
          = SumOver(Positions, AvailBytes(avail))
    BY <1>1, <1>3, FinitePool, BytesSum
  <2> QED BY <2>1 DEF StatBytes
<1> QED BY <1>2, <1>4

\* Available and used together are all.
LEMMA StatsTogether ==
  ASSUME Inv
  PROVE  /\ StatNodes(TRUE) + StatNodes(FALSE) = SumOver(Positions, LengthsOf(blktable))
         /\ StatBytes(TRUE) + StatBytes(FALSE) = SumOver(Positions, BytesOf(blktable))
<1>1. ASSUME NEW p \in Positions
      PROVE  /\ LengthsOf(blktable)[p] = AvailOf(TRUE)[p] + AvailOf(FALSE)[p]
             /\ BytesOf(blktable)[p] = AvailBytes(TRUE)[p] + AvailBytes(FALSE)[p]
  <2> DEFINE A == InList(p, TRUE)  B == InList(p, FALSE)  n == Pow2[MaxLog - p]
  <2>1. A \cup B = blktable[p] /\ A \cap B = {}
    <3>1. \A a \in blktable[p] : hdr[a].avail \in BOOLEAN
      BY InOneList DEF Header
    <3> QED BY <3>1 DEF InList
  <2>2. /\ IsFiniteSet(A) /\ IsFiniteSet(B)
        /\ Cardinality(A) \in Nat /\ Cardinality(B) \in Nat /\ n \in Nat
    BY InLists
  <2>3. /\ LengthsOf(blktable)[p] = Cardinality(blktable[p]) /\ BytesOf(blktable)[p] = Cardinality(blktable[p]) * n
        /\ AvailOf(TRUE)[p] = Cardinality(A) /\ AvailOf(FALSE)[p] = Cardinality(B)
        /\ AvailBytes(TRUE)[p] = Cardinality(A) * n /\ AvailBytes(FALSE)[p] = Cardinality(B) * n
    BY DEF LengthsOf, BytesOf, AvailOf, AvailBytes
  <2> HIDE DEF A, B, n
  <2>4. Cardinality(blktable[p]) = Cardinality(A) + Cardinality(B)
    <3>1. Cardinality(A \cup B) = Cardinality(A) + Cardinality(B)
      BY <2>1, <2>2, TogetherCard
    <3> QED BY <2>1, <3>1
  <2>5. (Cardinality(A) + Cardinality(B)) * n = Cardinality(A) * n + Cardinality(B) * n
    BY <2>2
  <2> QED BY <2>3, <2>4, <2>5
<1>2. /\ AvailOf(TRUE) \in [Positions -> Nat] /\ AvailOf(FALSE) \in [Positions -> Nat]
      /\ AvailBytes(TRUE) \in [Positions -> Nat] /\ AvailBytes(FALSE) \in [Positions -> Nat]
      /\ IsFiniteSet(Positions) /\ Positions \in SUBSET Positions
  BY InLists, FinitePool
<1>3. /\ SumOver(Positions, LengthsOf(blktable))
           = SumOver(Positions, AvailOf(TRUE)) + SumOver(Positions, AvailOf(FALSE))
      /\ SumOver(Positions, BytesOf(blktable))
           = SumOver(Positions, AvailBytes(TRUE)) + SumOver(Positions, AvailBytes(FALSE))
  <2> DEFINE l == LengthsOf(blktable)  b == BytesOf(blktable)
             lt == AvailOf(TRUE)  lf == AvailOf(FALSE)  bt == AvailBytes(TRUE)  bf == AvailBytes(FALSE)
  <2>1. (\A p \in Positions : l[p] = lt[p] + lf[p]) /\ (\A p \in Positions : b[p] = bt[p] + bf[p])
    BY <1>1
  <2>2. /\ lt \in [Positions -> Nat] /\ lf \in [Positions -> Nat]
        /\ bt \in [Positions -> Nat] /\ bf \in [Positions -> Nat]
    BY <1>2
  <2> HIDE DEF l, b, lt, lf, bt, bf
  <2>3. SumOver(Positions, l) = SumOver(Positions, lt) + SumOver(Positions, lf)
    BY <1>2, <2>1, <2>2, SumBoth
  <2>4. SumOver(Positions, b) = SumOver(Positions, bt) + SumOver(Positions, bf)
    BY <1>2, <2>1, <2>2, SumBoth
  <2> QED BY <2>3, <2>4 DEF l, b, lt, lf, bt, bf
<1> QED BY <1>3, StatsAre

\* The balance gives the agreement of the statistics.
LEMMA StatsHold == ASSUME Inv, Balanced PROVE StatsAgree
<1>1. StatBytes(TRUE) + StatBytes(FALSE) = PoolSize
  BY StatsTogether DEF Balanced
<1>2. MapThenSumSet(StatBlockLength, 0..StatBlocks) = StatNodes(TRUE) + StatNodes(FALSE)
  <2> DEFINE S == 0..StatBlocks
             w == [p \in S |-> StatBlockLength(p)]
             l == LengthsOf(blktable)
  <2>1. /\ StatBlocks \in Nat /\ Positions = S \ {StatBlocks} /\ StatBlocks \in S /\ Positions \in SUBSET S
        /\ \A p \in Positions : ~(p >= StatBlocks)
    <3>1. MaxLog \in Nat /\ MinLog \in 1..MaxLog
      BY PowAssumption, SizeAssumption
    <3>2. MaxLog - MinLog \in Nat /\ StatBlocks = (MaxLog - MinLog) + 1
      BY <3>1 DEF StatBlocks
    <3>3. Positions = 0..(MaxLog - MinLog)
      BY DEF Positions
    <3> DEFINE d == MaxLog - MinLog
    <3> HIDE DEF d
    <3>4. d \in Nat /\ StatBlocks = d + 1 /\ Positions = 0..d
      BY <3>2, <3>3 DEF d
    <3>5. S = 0..(d + 1)
      BY <3>4
    <3> HIDE DEF S
    <3> QED BY <3>4, <3>5
  <2>2. /\ \A p \in Positions : Cardinality(blktable[p]) \in Nat /\ l[p] = Cardinality(blktable[p])
        /\ l \in [Positions -> Nat]
    BY InOneList, SumTypes DEF LengthsOf
  <2>3. (\A p \in Positions : StatBlockLength(p) = l[p]) /\ StatBlockLength(StatBlocks) = 0
    BY <2>1, <2>2 DEF StatBlockLength
  <2> HIDE DEF l
  <2>4. \A p \in S : StatBlockLength(p) \in Nat
    BY <2>1, <2>2, <2>3
  <2>5. w \in [S -> Nat] /\ (\A p \in S : w[p] = StatBlockLength(p))
    BY <2>4
  <2>6. IsFiniteSet(S) /\ IsFiniteSet(Positions)
    BY <2>1, FS_Interval, FinitePool
  <2> HIDE DEF w, S
  <2>7. MapThenSumSet(StatBlockLength, S) = SumOver(S, w)
    BY <2>5, <2>6, LengthsSum
  <2>8. SumOver(S, w) = SumOver(S \ {StatBlocks}, w) + w[StatBlocks] /\ SumOver(S \ {StatBlocks}, w) \in Nat
    <3>1. S \in SUBSET S /\ StatBlocks \in S
      BY <2>1
    <3> QED BY <3>1, <2>5, <2>6, SumLess
  <2>9. SumOver(Positions, l) = SumOver(Positions, w)
    <3>1. \A p \in Positions : l[p] = w[p]
      BY <2>1, <2>3, <2>5
    <3>2. Positions \in SUBSET S
      BY <2>1
    <3> QED BY <3>1, <3>2, <2>5, <2>6, SumSame
  <2>10. w[StatBlocks] = 0
    BY <2>1, <2>3, <2>5
  <2>11. SumOver(S, w) = SumOver(Positions, l)
    BY <2>1, <2>8, <2>9, <2>10
  <2> QED BY <2>7, <2>11, StatsTogether DEF S, l
<1>3. (StatNodes(TRUE) + StatNodes(FALSE) - 1) % CounterMod = (nsplits - nmerges) % CounterMod
  <2>1. PICK q \in Int : SumOver(Positions, LengthsOf(blktable)) - 1 = nsplits - nmerges + q * CounterMod
    BY DEF Balanced
  <2>2. nsplits \in 0..(CounterMod - 1) /\ nmerges \in 0..(CounterMod - 1) /\ CounterMod \in Nat \ {0}
    BY SizeAssumption DEF Inv, TypeOK
  <2> DEFINE d == nsplits - nmerges
  <2>3. d \in Int
    BY <2>2
  <2>4. StatNodes(TRUE) + StatNodes(FALSE) - 1 = d + q * CounterMod
    <3>1. SumOver(Positions, LengthsOf(blktable)) - 1 = d + q * CounterMod
      BY <2>1
    <3>2. SumOver(Positions, LengthsOf(blktable)) = StatNodes(TRUE) + StatNodes(FALSE)
      BY StatsTogether
    <3>3. StatNodes(TRUE) \in Nat /\ StatNodes(FALSE) \in Nat
      <4>1. ASSUME NEW avail PROVE StatNodes(avail) \in Nat
        <5>1. AvailOf(avail) \in [Positions -> Nat] /\ IsFiniteSet(Positions) /\ Positions \in SUBSET Positions
          BY InLists, FinitePool
        <5>2. PICK total : SumTable(Positions, AvailOf(avail), total)
          BY <5>1, SumsExist
        <5>3. total[Positions] \in Nat
          BY <5>1, <5>2 DEF SumTable
        <5> QED BY <5>1, <5>2, <5>3, SumIs, StatsAre
      <4> QED BY <4>1
    <3> DEFINE t == StatNodes(TRUE)  f == StatNodes(FALSE)  e == d + q * CounterMod
    <3>4. t \in Nat /\ f \in Nat /\ (t + f) - 1 = e
      BY <3>1, <3>2, <3>3
    <3> HIDE DEF t, f, e
    <3>5. t + f - 1 = e
      BY <3>4
    <3> QED BY <3>5 DEF t, f, e
  <2> HIDE DEF d
  <2>5. (d + q * CounterMod) % CounterMod = d % CounterMod
    BY <2>2, <2>3, RoundsOff
  <2>6. (StatNodes(TRUE) + StatNodes(FALSE) - 1) % CounterMod = d % CounterMod
    BY <2>4, <2>5
  <2> QED BY <2>6 DEF d
<1>4. ASSUME pc = "idle" PROVE StatNodes(FALSE) = Cardinality({a \in Slots : held[a] # NoRequest})
  <2> DEFINE T == [p \in Positions |-> InList(p, FALSE)]
  <2>1. T \in [Positions -> SUBSET Slots] /\ \A p \in Positions : T[p] = InList(p, FALSE)
    BY InLists
  <2>2. \A p, q \in Positions : p # q => T[p] \cap T[q] = {}
    <3>1. ASSUME NEW p \in Positions, NEW q \in Positions, NEW a \in T[p], a \in T[q] PROVE p = q
      BY <2>1, <3>1, InOneList DEF InList
    <3> QED BY <3>1
  <2>3. UNION {T[p] : p \in Positions} = {a \in Slots : held[a] # NoRequest}
    <3>1. \A a \in Slots : held[a] # NoRequest => a \in Nodes /\ ~hdr[a].avail
      BY DEF Inv, UsedIsHeld
    <3>2. \A a \in Nodes : ~hdr[a].avail => held[a] # NoRequest
      BY <1>4 DEF Inv, UsedIsHeld
    <3>3. ASSUME NEW a \in Slots, held[a] # NoRequest PROVE \E p \in Positions : a \in T[p]
      <4>1. a \in Nodes /\ ~hdr[a].avail /\ hdr[a].avail \in BOOLEAN
        BY <3>1, <3>3, InOneList DEF Header
      <4>2. PICK p \in Positions : a \in blktable[p]
        BY <4>1 DEF Nodes
      <4>3. a \in T[p]
        BY <2>1, <4>1, <4>2 DEF InList
      <4> QED BY <4>3
    <3>4. ASSUME NEW p \in Positions, NEW a \in T[p] PROVE a \in Slots /\ held[a] # NoRequest
      <4>1. a \in blktable[p] /\ hdr[a].avail = FALSE /\ a \in Slots
        BY <2>1 DEF InList
      <4>2. a \in Nodes
        BY <4>1 DEF Nodes
      <4> QED BY <3>2, <4>1, <4>2
    <3> HIDE DEF T
    <3> QED BY <3>3, <3>4
  <2>4. \A p \in Positions : AvailOf(FALSE)[p] = Cardinality(T[p])
    BY <2>1 DEF AvailOf
  <2> HIDE DEF T
  <2>5. SumOver(Positions, AvailOf(FALSE)) = Cardinality(UNION {T[p] : p \in Positions})
    <3>1. IsFiniteSet(Positions) /\ IsFiniteSet(Slots)
      BY FinitePool
    <3>2. T \in [Positions -> SUBSET Slots]
      BY <2>1
    <3> DEFINE w == AvailOf(FALSE)
    <3>3. \A p \in Positions : w[p] = Cardinality(T[p])
      BY <2>4
    <3> HIDE DEF w
    <3>4. SumOver(Positions, w) = Cardinality(UNION {T[p] : p \in Positions})
      BY <2>2, <3>1, <3>2, <3>3, SumDisjoint
    <3> QED BY <3>4 DEF w
  <2> QED BY <2>3, <2>5, StatsAre
<1> QED BY <1>1, <1>2, <1>3, <1>4 DEF StatsAgree

\* mpool_stat_get_nodes, mpool_stat_get_bytes and mpool_stat_get_block_length agree
\* with each other, with the pool's size, with the counts of splits and merges even
\* after they have wrapped, and with what the client owns (mstat.c:7-73).
THEOREM StatsAlwaysAgree == ASSUME NoSizeOverflow PROVE Spec => []StatsAgree
<1>1. Init => Balanced
  BY InitBalanced
<1>2. Inv /\ Balanced /\ [Next]_vars => Balanced'
  BY NextBalanced
<1>3. Inv /\ Balanced => StatsAgree
  BY StatsHold
<1> QED BY <1>1, <1>2, <1>3, Invariant, PTL DEF Spec

-----------------------------------------------------------------------------
(* Calls return: a call can always go on, and has less to do after each step. *)

\* The early returns of mpool_free that would leave a chunk behind, used for ever or
\* in no list (mpool.c:264, 273, 340).
Forsakes ==
  /\ pc = "free"
  /\ ~TopLevel(cur)
  /\ \/ ~InPool(BuddyOf(cur))
     \/ CanMerge(cur) /\ hdr[cur].right /\ hdr[BuddyOf(cur)].right

LEMMA NoneForsaken == Inv => ~Forsakes
<1> SUFFICES ASSUME Inv, Forsakes PROVE FALSE
  OBVIOUS
<1> DEFINE k == hdr[cur].logsize
           b == BuddyOf(cur)
           l == IF hdr[cur].right THEN b ELSE cur
           r == IF hdr[cur].right THEN cur ELSE b
<1>1. cur \in Nodes /\ k \in MinLog..MaxLog /\ k < MaxLog
  <2>1. cur \in Nodes
    BY DEF Forsakes, Inv, Calls
  <2>2. k \in MinLog..MaxLog /\ k # MaxLog
    BY <2>1, SizeType DEF Forsakes, TopLevel
  <2> QED BY <2>1, <2>2, OrderRange
<1>2. b = Buddy2(hdr, cur)
  BY DEF BuddyOf, BlockSize, Buddy2
<1>3. b \in Nodes
  BY <1>1, InvParts DEF BuddyIsHeader
<1>4. InPool(b)
  <2>1. b \in 0..(PoolSize - 1)
    BY <1>3, NodeType DEF Slots
  <2> QED BY <2>1, ZeroSlot DEF InPool
<1>5. CanMerge(cur) /\ hdr[cur].right /\ hdr[b].right
  BY <1>4 DEF Forsakes
<1>6. hdr[b].logsize = k
  BY <1>5 DEF CanMerge
<1>7. ~hdr[l].right
  <2>1. Sound(Nodes, hdr) /\ k = hdr[cur].logsize
        /\ l = (IF hdr[cur].right THEN b ELSE cur)
        /\ r = (IF hdr[cur].right THEN cur ELSE b)
    BY DEF Inv
  <2> HIDE DEF k, b, l, r
  <2> QED BY <1>1, <1>2, <1>6, <2>1, BuddyHalves
<1> QED BY <1>5, <1>7

\* mpool_free never returns without having freed the chunk: its buddy's address is
\* in the pool, and of two buddies one is left (mpool.c:262-274, 337-341).
THEOREM NothingForsaken == ASSUME NoSizeOverflow PROVE Spec => []~Forsakes
BY NoneForsaken, Invariant, PTL

\* The last list of chunks that suits, where there is one.
LEMMA LastSuits ==
  ASSUME NEW size, NEW p \in Positions, Suits(p, size)
  PROVE  \E q \in Positions : Suits(q, size) /\ \A x \in Positions : x > q => ~Suits(x, size)
<1> DEFINE top == MaxLog - MinLog
           L == {n \in 0..top : \E q \in Positions : Suits(q, size) /\ n = top - q}
<1>1. top \in Nat /\ \A q \in Positions : q \in 0..top /\ top - q \in 0..top
  BY OrderRange, SizeAssumption DEF Positions
<1>2. L \subseteq Nat /\ L # {}
  BY <1>1
<1> HIDE DEF L
<1>3. PICK n \in L : \A x \in L : n <= x
  BY <1>2, Least
<1>4. PICK q \in Positions : Suits(q, size) /\ n = top - q
  BY <1>3 DEF L
<1>5. ASSUME NEW x \in Positions, x > q, Suits(x, size) PROVE FALSE
  <2>1. top - x \in L
    BY <1>1, <1>5 DEF L
  <2>2. n <= top - x
    BY <1>3, <2>1
  <2>3. x \in Int /\ q \in Int /\ top \in Int
    BY <1>1
  <2> HIDE DEF top
  <2> QED BY <1>4, <1>5, <2>2, <2>3
<1> QED BY <1>4, <1>5

\* Where the guard of a step of the call in progress holds.
FindGuard ==
  /\ pc = "search"
  /\ \E p \in Positions :
       /\ Suits(p, TotalSize(req))
       /\ \A q \in Positions : q > p => ~Suits(q, TotalSize(req))
       /\ \E a \in blktable[p] : hdr[a].avail

FailGuard   == pc = "search" /\ \A p \in Positions : ~Suits(p, TotalSize(req))
SplitGuard  == pc = "split" /\ ~NoSplitNeeded(cur, TotalSize(req))
ReturnGuard == pc = "split" /\ NoSplitNeeded(cur, TotalSize(req))
StopGuard   == pc = "free" /\ (TopLevel(cur) \/ ~CanMerge(cur))
MergeGuard  == pc = "free" /\ ~TopLevel(cur) /\ CanMerge(cur)

CallCanGo ==
  FindGuard \/ FailGuard \/ SplitGuard \/ ReturnGuard \/ StopGuard \/ MergeGuard

\* The most steps that the call in progress can still take: a chunk is split down
\* to the least size, or merged up to the pool's.
CallAhead ==
  CASE pc = "search" -> MaxLog - MinLog + 2
    [] pc = "split"  -> hdr[cur].logsize - MinLog + 1
    [] pc = "free"   -> MaxLog - hdr[cur].logsize + 1
    [] OTHER         -> 0

LEMMA CallGoesOn == Inv => pc = "idle" \/ CallCanGo
<1> SUFFICES ASSUME Inv, pc # "idle" PROVE CallCanGo
  OBVIOUS
<1>1. pc \in {"search", "split", "free"}
  BY DEF Inv, TypeOK
<1>2. CASE pc = "search"
  <2>1. CASE \A p \in Positions : ~Suits(p, TotalSize(req))
    BY <1>2, <2>1 DEF CallCanGo, FailGuard
  <2>2. CASE \E p \in Positions : Suits(p, TotalSize(req))
    <3>1. PICK q \in Positions :
            /\ Suits(q, TotalSize(req))
            /\ \A x \in Positions : x > q => ~Suits(x, TotalSize(req))
      BY <2>2, LastSuits
    <3>2. \E a \in blktable[q] : hdr[a].avail
      BY <3>1 DEF Suits
    <3>3. FindGuard
      BY <1>2, <3>1, <3>2 DEF FindGuard
    <3> QED BY <3>3 DEF CallCanGo
  <2> QED BY <2>1, <2>2
<1>3. CASE pc = "split"
  BY <1>3 DEF CallCanGo, SplitGuard, ReturnGuard
<1>4. CASE pc = "free"
  BY <1>4 DEF CallCanGo, StopGuard, MergeGuard
<1> QED BY <1>1, <1>2, <1>3, <1>4

LEMMA CallAheadType ==
  Inv => /\ CallAhead \in 0..(MaxLog - MinLog + 2)
         /\ pc # "idle" => CallAhead >= 1
<1> SUFFICES ASSUME Inv
             PROVE  CallAhead \in 0..(MaxLog - MinLog + 2) /\ (pc # "idle" => CallAhead >= 1)
  OBVIOUS
<1>1. pc \in {"idle", "search", "split", "free"}
  BY DEF Inv, TypeOK
<1>2. MaxLog \in Nat /\ MinLog \in 1..MaxLog
  BY PowAssumption, SizeAssumption
<1>3. CASE pc \in {"split", "free"}
  <2>1. PICK k \in MinLog..MaxLog : k = hdr[cur].logsize
    BY <1>3, SizeType DEF Inv, Calls
  <2>2. CallAhead = IF pc = "split" THEN k - MinLog + 1 ELSE MaxLog - k + 1
    BY <1>3, <2>1 DEF CallAhead
  <2> QED BY <1>2, <2>2
<1>4. CASE pc \in {"idle", "search"}
  <2>1. CallAhead = IF pc = "search" THEN MaxLog - MinLog + 2 ELSE 0
    BY <1>4 DEF CallAhead
  <2> QED BY <1>2, <1>4, <2>1
<1> QED BY <1>1, <1>3, <1>4

LEMMA SizeRangeNext == Inv' => (\A a \in Nodes : hdr[a].logsize \in MinLog..MaxLog)'
<1>1. Inv => \A a \in Nodes : hdr[a].logsize \in MinLog..MaxLog
  BY SizeType
<1> QED BY <1>1, PTL

LEMMA CallStepsDown == ASSUME Inv, Inv', Next, pc # "idle" PROVE CallAhead' < CallAhead
<1>1. MaxLog \in Nat /\ MinLog \in 1..MaxLog
  BY PowAssumption, SizeAssumption
<1>2. CallAhead >= 1 /\ CallAhead \in Nat
  BY <1>1, CallAheadType
<1>3. CASE AllocFail \/ AllocReturn \/ FreeStop
  <2>1. pc' = "idle"
    BY <1>3 DEF AllocFail, AllocReturn, FreeStop
  <2>2. CallAhead' = 0
    BY <2>1 DEF CallAhead
  <2> QED BY <1>2, <2>2
<1>4. CASE AllocFind
  <2>1. pc = "search" /\ pc' = "split"
    BY <1>4 DEF AllocFind
  <2>2. PICK k \in MinLog..MaxLog : k = hdr'[cur'].logsize
    <3>1. cur' \in Nodes'
      BY <2>1 DEF Inv, Calls
    <3> QED BY <3>1, SizeRangeNext
  <2>3. CallAhead = MaxLog - MinLog + 2 /\ CallAhead' = k - MinLog + 1
    BY <2>1, <2>2 DEF CallAhead
  <2> QED BY <1>1, <2>2, <2>3
<1>5. CASE AllocSplit
  <2>1. /\ pc = "split" /\ pc' = "split" /\ cur' = cur /\ hdr[cur].logsize - 1 \in 0..MaxLog
        /\ hdr'[cur].logsize = hdr[cur].logsize - 1 /\ cur \in Nodes
    BY <1>5, SplitEffect DEF LeftHalf
  <2>2. PICK k \in MinLog..MaxLog : k = hdr[cur].logsize
    BY <2>1, SizeType
  <2>3. CallAhead = k - MinLog + 1 /\ CallAhead' = k - 1 - MinLog + 1
    BY <2>1, <2>2 DEF CallAhead
  <2> QED BY <1>1, <2>2, <2>3
<1>6. CASE FreeMerge
  <2>1. pc = "free" /\ pc' = "free" /\ hdr'[cur'].logsize = hdr[cur].logsize + 1
        /\ hdr[cur].logsize \in MinLog..MaxLog
    BY <1>6, MergeEffect
  <2>2. PICK k \in MinLog..MaxLog : k = hdr[cur].logsize
    BY <2>1
  <2>3. CallAhead = MaxLog - k + 1 /\ CallAhead' = MaxLog - (k + 1) + 1
    BY <2>1, <2>2 DEF CallAhead
  <2> QED BY <1>1, <2>2, <2>3
<1>7. ~(\E n \in Requests : AllocCall(n)) /\ ~(\E a \in Slots : FreeCall(a))
      /\ ~(\E a, x \in Slots : UserWrite(a, x))
  BY DEF AllocCall, FreeCall, UserWrite
<1> QED BY <1>3, <1>4, <1>5, <1>6, <1>7 DEF Next, Alloc, Free

\* The safety part of CallsReturn, for any pool: a call that is under way can take a
\* step, and takes at most one for each size of chunk and one more; meanwhile nobody
\* else moves (mpool.c:110-207, 248-357).
THEOREM CallsRunOut ==
  ASSUME NoSizeOverflow
  PROVE  Spec => /\ [](CallAhead \in 0..(MaxLog - MinLog + 2))
                 /\ [][pc # "idle" => CallAhead' < CallAhead]_vars
                 /\ [](pc = "idle" \/ CallCanGo)
<1>1. Inv /\ Inv' /\ [Next]_vars => [pc # "idle" => CallAhead' < CallAhead]_vars
  BY CallStepsDown
<1>2. Inv => CallAhead \in 0..(MaxLog - MinLog + 2)
  BY CallAheadType
<1> QED BY <1>1, <1>2, CallGoesOn, Invariant, PTL DEF Spec
=============================================================================
