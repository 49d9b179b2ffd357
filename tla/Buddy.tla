------------------------------- MODULE Buddy -------------------------------
(***************************************************************************)
(* The buddy allocator of buddy/mpool.c, driven by one client.             *)
(*                                                                         *)
(* Memory is a set of byte offsets from mpool->mem.  A block is known by   *)
(* the offset of its header (a blknode_t); the pointer the client gets is  *)
(* that offset plus sizeof(blknode_t), so the header's offset identifies   *)
(* the pointer too.  The header slots that are not the header of a block   *)
(* keep whatever was last stored there (an old header, or the client's     *)
(* data), as the memory itself does.                                       *)
(*                                                                         *)
(* The chunks of one blktable list are a set: which of several available   *)
(* chunks of one size LIST_FOREACH meets first is left open.               *)
(***************************************************************************)
EXTENDS Integers, FiniteSets

CONSTANTS
  MaxLog,      \* mpool->maxlogsize
  MinLog,      \* mpool->minlogsize
  HdrSize,     \* sizeof(blknode_t)
  Pow2,        \* Pow2[k] is 1 << k
  Requests,    \* the values of blksize the client passes to mpool_alloc
  Junk,        \* what memory outside the headers may read as, taken as a header
  SizeMod,     \* number of values of the size_t that holds `size'
  CounterMod   \* number of values of the size_t counters nsplits and nmerges

\* 1 << k for the shifts the allocator makes: the exponent law of powers of two.
ASSUME PowAssumption ==
  /\ MaxLog \in Nat
  /\ Pow2 \in [0..MaxLog+1 -> Nat \ {0}]
  /\ Pow2[1] = 2
  /\ \A i, j \in 0..MaxLog+1 :
        i + j <= MaxLog + 1 => Pow2[i + j] = Pow2[i] * Pow2[j]

\* What mpool_init accepts (mpool.c:25), and sane sizes for the rest.
ASSUME SizeAssumption ==
  /\ MinLog \in 1..MaxLog
  /\ HdrSize \in 1..(Pow2[MinLog] - 1)
  /\ Requests \subseteq Nat
  /\ SizeMod \in Nat \ {0}
  /\ CounterMod \in Nat \ {0}

Aligned(a, k) == \E i \in 0..a : a = i * Pow2[k]

PoolSize  == Pow2[MaxLog]
Slots     == {a \in 0..(PoolSize - 1) : Aligned(a, MinLog)}
Positions == 0..(MaxLog - MinLog)

\* flags and logsize of a blknode_t: LR is `right', PARENT is `parent'.
Header == [avail : BOOLEAN, right : BOOLEAN, parent : BOOLEAN, logsize : Nat]

ASSUME JunkAssumption == Junk \subseteq Header /\ Junk # {}

\* The header mpool_init gives the only chunk.
FirstHeader == [avail |-> TRUE, right |-> FALSE, parent |-> TRUE, logsize |-> MaxLog]

NoRequest == -1      \* held[a] when the client owns no chunk at a

VARIABLES
  hdr,       \* the memory of the pool, read as headers
  blktable,  \* the block lists: blktable[p] holds chunks of 2^(MaxLog-p) bytes
  nsplits,   \* mpool->nsplits
  nmerges,   \* mpool->nmerges
  held,      \* the chunks the client owns, with the blksize it asked for
  pc,        \* where the call in progress is
  cur,       \* pavailnode in mpool_alloc, pnode in mpool_free; 0 between calls
  req        \* blksize of the mpool_alloc in progress

pool == <<hdr, blktable, nsplits, nmerges>>
vars == <<hdr, blktable, nsplits, nmerges, held, pc, cur, req>>

Nodes == {a \in Slots : \E p \in Positions : a \in blktable[p]}
BlockSize(a) == Pow2[hdr[a].logsize]

Init ==
  /\ \E memory \in [Slots -> Junk] : hdr = [memory EXCEPT ![0] = FirstHeader]
  /\ blktable = [p \in Positions |-> IF p = 0 THEN {0} ELSE {}]
  /\ nsplits = 0
  /\ nmerges = 0
  /\ held = [a \in Slots |-> NoRequest]
  /\ pc = "idle"
  /\ cur = 0
  /\ req = NoRequest

\* `size' at mpool.c:101, a size_t sum.
TotalSize(n) == (n + HdrSize) % SizeMod

\* LIST_REMOVE unlinks a chunk from whatever list holds it.
Unlinked(table, S) == [p \in Positions |-> table[p] \ S]

\* LIST_INSERT_HEAD into the list for logsize k.
Linked(table, S, k) == [table EXCEPT ![MaxLog - k] = @ \cup S]

-----------------------------------------------------------------------------
(* mpool_alloc *)

AllocCall(n) ==
  /\ pc = "idle"
  /\ pc' = "search"
  /\ req' = n
  /\ UNCHANGED <<pool, held, cur>>

\* Mutation: a chunk of exactly the size wanted is passed over.
SuitsStrictly(p, size) ==
  /\ \E first \in blktable[p] : BlockSize(first) > size
  /\ \E a \in blktable[p] : hdr[a].avail

\* List p has an available chunk, and its first chunk is large enough.
Suits(p, size) ==
  /\ \E first \in blktable[p] : BlockSize(first) >= size
  /\ \E a \in blktable[p] : hdr[a].avail

\* Mutation: the first list the search accepts is used, not the last.
AllocFindFirst ==
  /\ pc = "search"
  /\ \E p \in Positions :
       /\ Suits(p, TotalSize(req))
       /\ \A q \in Positions : q < p => ~Suits(q, TotalSize(req))
       /\ \E a \in blktable[p] : hdr[a].avail /\ cur' = a
  /\ pc' = "split"
  /\ UNCHANGED <<pool, held, req>>

\* The last list the search accepts is the one it allocates from.
AllocFind ==
  /\ pc = "search"
  /\ \E p \in Positions :
       /\ Suits(p, TotalSize(req))
       /\ \A q \in Positions : q > p => ~Suits(q, TotalSize(req))
       /\ \E a \in blktable[p] : hdr[a].avail /\ cur' = a
  /\ pc' = "split"
  /\ UNCHANGED <<pool, held, req>>

AllocFail ==
  /\ pc = "search"
  /\ \A p \in Positions : ~Suits(p, TotalSize(req))
  /\ pc' = "idle"
  /\ req' = NoRequest
  /\ UNCHANGED <<pool, held, cur>>

\* Mutation: a chunk is split although its halves are too small.
SplitToMinimum(a, size) ==
  \/ size = BlockSize(a)
  \/ MinLog > hdr[a].logsize - 1

NoSplitNeeded(a, size) ==
  \/ size = BlockSize(a)
  \/ size > Pow2[hdr[a].logsize - 1]
  \/ MinLog > hdr[a].logsize - 1

AllocReturn ==
  /\ pc = "split"
  /\ NoSplitNeeded(cur, TotalSize(req))
  /\ hdr' = [hdr EXCEPT ![cur].avail = FALSE]
  /\ held' = [held EXCEPT ![cur] = req]
  /\ pc' = "idle"
  /\ cur' = 0
  /\ req' = NoRequest
  /\ UNCHANGED <<blktable, nsplits, nmerges>>

\* Mutations: the left half keeps the LR flag of its parent, or its logsize.
LeftHalfKeepsSide(h) == [h EXCEPT !.logsize = @ - 1, !.parent = h.right]
LeftHalfKeepsSize(h) == [h EXCEPT !.right = FALSE, !.parent = h.right]

\* The old header becomes the left half's, which keeps the side of its parent.
LeftHalf(h) ==
  [avail |-> h.avail, right |-> FALSE, parent |-> h.right, logsize |-> h.logsize - 1]

\* Mutations: the right half takes LR of its parent for PARENT, or starts used.
RightHalfParentSide(h) ==
  [avail |-> TRUE, right |-> TRUE, parent |-> h.right, logsize |-> h.logsize - 1]
RightHalfUsed(h) ==
  [avail |-> FALSE, right |-> TRUE, parent |-> h.parent, logsize |-> h.logsize - 1]

\* The right half keeps the PARENT flag of its parent.
RightHalf(h) ==
  [avail |-> TRUE, right |-> TRUE, parent |-> h.parent, logsize |-> h.logsize - 1]

AllocSplit ==
  /\ pc = "split"
  /\ ~NoSplitNeeded(cur, TotalSize(req))
  /\ nsplits' = (nsplits + 1) % CounterMod
  /\ LET k     == hdr[cur].logsize - 1
         right == cur + Pow2[k]
     IN  /\ hdr' = [hdr EXCEPT ![cur] = LeftHalf(@), ![right] = RightHalf(hdr[cur])]
         /\ blktable' = Linked(Unlinked(blktable, {cur}), {cur, right}, k)
  /\ UNCHANGED <<nmerges, held, pc, cur, req>>

-----------------------------------------------------------------------------
(* mpool_free, compiled without MPOOL_OPT_FOR_SECURITY *)

FreeCall(a) ==
  /\ pc = "idle"
  /\ held[a] # NoRequest
  /\ pc' = "free"
  /\ cur' = a
  /\ held' = [held EXCEPT ![a] = NoRequest]
  /\ UNCHANGED <<pool, req>>

TopLevel(a) == hdr[a].logsize = MaxLog

BuddyOf(a) == IF hdr[a].right THEN a - BlockSize(a) ELSE a + BlockSize(a)

InPool(b) == b >= 0 /\ b <= PoolSize - 1

\* Mutation: a right half is never merged.
CanMergeLeftOnly(a) ==
  /\ ~hdr[a].right
  /\ InPool(BuddyOf(a))
  /\ hdr[BuddyOf(a)].logsize = hdr[a].logsize
  /\ hdr[BuddyOf(a)].avail

CanMerge(a) ==
  /\ InPool(BuddyOf(a))
  /\ hdr[BuddyOf(a)].logsize = hdr[a].logsize
  /\ hdr[BuddyOf(a)].avail

\* The chunk is not merged (further).  A buddy outside the pool ends the call
\* before the chunk is marked available.
FreeStop ==
  /\ pc = "free"
  /\ TopLevel(cur) \/ ~CanMerge(cur)
  /\ IF TopLevel(cur) \/ InPool(BuddyOf(cur))
     THEN hdr' = [hdr EXCEPT ![cur].avail = TRUE]
     ELSE UNCHANGED hdr
  /\ pc' = "idle"
  /\ cur' = 0
  /\ UNCHANGED <<blktable, nsplits, nmerges, held, req>>

\* Mutation: the merged chunk keeps its size.
MergedSmall(left, right) ==
  [avail |-> TRUE, right |-> left.parent, parent |-> right.parent,
   logsize |-> left.logsize]

\* The header of the merged chunk, from those of its halves.
Merged(left, right) ==
  [avail |-> TRUE, right |-> left.parent, parent |-> right.parent,
   logsize |-> left.logsize + 1]

\* Two right halves cannot be buddies: the code returns having unlinked both.
FreeMerge ==
  /\ pc = "free"
  /\ ~TopLevel(cur)
  /\ CanMerge(cur)
  /\ nmerges' = (nmerges + 1) % CounterMod
  /\ LET buddy == BuddyOf(cur)
         left  == IF hdr[cur].right THEN buddy ELSE cur
         right == IF hdr[cur].right THEN cur ELSE buddy
         rest  == Unlinked(blktable, {cur, buddy})
     IN  IF hdr[left].right
         THEN /\ blktable' = rest
              /\ pc' = "idle"
              /\ cur' = 0
              /\ UNCHANGED hdr
         ELSE /\ hdr' = [hdr EXCEPT ![left] = Merged(@, hdr[right])]
              /\ blktable' = Linked(rest, {left}, hdr[left].logsize + 1)
              /\ cur' = left
              /\ UNCHANGED pc
  /\ UNCHANGED <<nsplits, held, req>>

-----------------------------------------------------------------------------
(* The client writes to the bytes it asked for, over a header slot in there. *)

UserWrite(a, x) ==
  /\ pc = "idle"
  /\ held[a] # NoRequest
  /\ a < x
  /\ x < a + HdrSize + held[a]
  /\ \E h \in Junk : hdr' = [hdr EXCEPT ![x] = h]
  /\ UNCHANGED <<blktable, nsplits, nmerges, held, pc, cur, req>>

-----------------------------------------------------------------------------

Alloc == AllocFind \/ AllocFail \/ AllocReturn \/ AllocSplit
Free  == FreeStop \/ FreeMerge

Next ==
  \/ \E n \in Requests : AllocCall(n)
  \/ Alloc
  \/ \E a \in Slots : FreeCall(a)
  \/ Free
  \/ \E a, x \in Slots : UserWrite(a, x)

Spec == Init /\ [][Next]_vars

\* A call runs to its return; the client may stop calling.
FairSpec == Spec /\ WF_vars(Alloc \/ Free)
-----------------------------------------------------------------------------
(* What holds between the list operations of every call. *)

\* Types of the state; the chunks of list p have 2^(MaxLog-p) bytes, which the
\* search relies on when it looks at the first chunk only (mpool.c:116-117).
TypeOK ==
  /\ hdr \in [Slots -> Header]
  /\ blktable \in [Positions -> SUBSET Slots]
  /\ nsplits \in 0..(CounterMod - 1)
  /\ nmerges \in 0..(CounterMod - 1)
  /\ held \in [Slots -> Requests \cup {NoRequest}]
  /\ pc \in {"idle", "search", "split", "free"}
  /\ cur \in Slots
  /\ req \in Requests \cup {NoRequest}
  /\ pc \in {"search", "split"} <=> req # NoRequest

ListsBySize == \A p \in Positions : \A a \in blktable[p] : hdr[a].logsize = MaxLog - p

\* A chunk of 2^k bytes starts at a multiple of 2^k: this is why the address of
\* its buddy is one addition or subtraction away (mpool.h:42-45).
BlocksAligned == \A a \in Nodes : Aligned(a, hdr[a].logsize)

\* Splits and merges keep the chunks a partition of the pool: no two overlap
\* and no byte is lost (mpool.c:164-206, 295-357).
BlocksDisjoint == \A a, b \in Nodes : a < b => a + BlockSize(a) <= b

PoolCovered == \A x \in Slots : \E a \in Nodes : a <= x /\ x < a + BlockSize(a)

Partition == ListsBySize /\ BlocksAligned /\ BlocksDisjoint /\ PoolCovered

\* LR tells the half of its parent a chunk is, across any number of merges,
\* each of which rebuilds it from a PARENT flag (mpool.c:309-336).
SideFlags ==
  \A a \in Nodes : hdr[a].right <=> ~Aligned(a, hdr[a].logsize + 1)

\* PARENT of a chunk ending at an odd multiple of 2^j is LR of the chunk of
\* 2^(j+1) bytes that ends its left half there: what the last merge on this
\* right edge will need (mpool.c:176-182, 200).
ParentFlags ==
  \A a \in Nodes : \A j \in hdr[a].logsize..(MaxLog - 1) :
    LET end == a + BlockSize(a)
    IN  Aligned(end, j) /\ ~Aligned(end, j + 1)
          => (hdr[a].parent <=> ~Aligned(end - Pow2[j], j + 2))

\* What mpool_free finds its buddy with, at present and after every merge to come.
BuddyFlags == SideFlags /\ ParentFlags

\* mpool_free reads a header at the buddy's address before it knows there is
\* one (mpool.c:278): there always is, never stale or client data.
BuddyIsHeader ==
  \A a \in Nodes : hdr[a].logsize < MaxLog => BuddyOf(a) \in Nodes

\* A chunk is marked used exactly while the client owns it, or until the
\* mpool_free of it in progress has marked it or merged it.
UsedIsHeld ==
  /\ \A a \in Slots : held[a] # NoRequest => a \in Nodes /\ ~hdr[a].avail
  /\ \A a \in Nodes :
        ~hdr[a].avail => held[a] # NoRequest \/ (pc = "free" /\ cur = a)

\* What the client asked for fits in the chunk it got, after the header.
HeldFits ==
  \A a \in Slots : held[a] # NoRequest => held[a] + HdrSize <= BlockSize(a)

\* What the client owns is in use, and large enough.
HeldBlocks == UsedIsHeld /\ HeldFits

\* Two buddies are both available only where a call is about to use one or to
\* merge them: merging is complete, so fragmentation is only what the chunks in
\* use impose (mpool.c:356).
FullyCoalesced ==
  \A a, b \in Nodes :
    /\ hdr[a].avail /\ hdr[b].avail
    /\ hdr[a].logsize = hdr[b].logsize
    /\ ~hdr[a].right /\ b = a + BlockSize(a)
    => pc \in {"split", "free"} /\ cur \in {a, b}

\* mpool_alloc splits only the smallest available chunk that can hold the
\* request: "the smallest possible value of j" (mpool.c:107-109).
SplitsSmallest ==
  [][ pc = "split" /\ blktable' # blktable =>
        \A a \in Nodes : hdr[a].avail /\ BlockSize(a) >= TotalSize(req)
                          => BlockSize(cur) <= BlockSize(a) ]_vars

\* Every call returns.
CallsReturn == pc # "idle" ~> pc = "idle"

\* The allocator implements Heap: the splits and merges of a call are invisible,
\* a request is granted when its chunk is marked used, a chunk is released when
\* mpool_free is entered.
H == INSTANCE Heap WITH
       order   <- [a \in Slots |-> IF held[a] # NoRequest THEN hdr[a].logsize ELSE 0],
       pending <- req

ImplementsHeap == H!HeapSpec
=============================================================================
