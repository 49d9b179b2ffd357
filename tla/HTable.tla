------------------------------- MODULE HTable -------------------------------
(***************************************************************************)
(* The hash table of genstructs/htable/htable.c: chains in an array whose  *)
(* size is a power of two and doubles when the load passes a limit, and    *)
(* the iterator the state machines walk their tables with.  The table has  *)
(* one user at a time, so a call is one step; an iteration is one step per *)
(* htable_get_next_elm, and nobody changes the table during one.           *)
(***************************************************************************)
EXTENDS Integers, Sequences, SequencesExt

CONSTANTS
  Keys, Data,
  Hash,        \* Hash[k]: what ht_hashf returns
  InitSize,    \* htable_init's size, a power of two
  Factor,      \* htable_init's factor
  Absent,      \* NULL, for keys and data
  MaxGrows     \* bound: growing is attempted at most this often

ASSUME TableAssumption ==
  /\ Hash \in [Keys -> Nat]
  /\ InitSize \in Nat \ {0} /\ \E n \in 0..InitSize : InitSize = 2^n
  /\ Factor \in Nat \ {0}
  /\ Absent \notin Keys \cup Data
  /\ MaxGrows \in Nat

VARIABLES
  table,    \* table[b]: the chain of bucket b, a sequence of entries
  size, used, limit, grows,     \* ht_size, ht_used, ht_limit, ht_grows
  result,   \* what the last call returned
  pos,      \* it->pos
  node,     \* the key of it->pnode, or Absent
  walk      \* the keys the iteration has yielded; not in the code

core == <<table, size, used, limit, grows>>
iter == <<pos, node, walk>>
vars == <<table, size, used, limit, grows, result, pos, node, walk>>

NotWalking == <<Absent>>    \* walk while no iteration is on

Init ==
  /\ table = [b \in 0..(InitSize - 1) |-> <<>>]
  /\ size = InitSize
  /\ used = 0
  /\ limit = Factor * InitSize
  /\ grows = 0
  /\ result = "OK"
  /\ pos = 0
  /\ node = Absent
  /\ walk = NotWalking

\* hash & (size - 1), for a size that is a power of two.
Bucket(k, n) == Hash[k] % n

KeysOf(chain) == {chain[i].key : i \in DOMAIN chain}

Chain(k) == table[Bucket(k, size)]

\* The chains of buckets 0 to n-1, one after the other.
Flat(n) == FlattenSeq([b \in 1..n |-> table[b - 1]])

-----------------------------------------------------------------------------

\* The first entry of a chain with key k, where there is one.
Position(chain, k) ==
  CHOOSE i \in DOMAIN chain : chain[i].key = k /\ \A j \in 1..(i - 1) : chain[j].key # k

\* htable_search
Search(k) ==
  IF k \in KeysOf(Chain(k)) THEN Chain(k)[Position(Chain(k), k)].data ELSE Absent

\* Mutation: entries stay in the buckets they had in the smaller table.
RehashedStale(t, n) == [b \in 0..(2 * n - 1) |-> IF b < n THEN t[b] ELSE <<>>]

\* The entries that go to bucket b of n, in order.
OfBucket(entries, n, b) ==
  LET kept[i \in 0..Len(entries)] ==
        IF i = 0 THEN <<>>
        ELSE IF Bucket(entries[i].key, n) = b THEN Append(kept[i - 1], entries[i]) ELSE kept[i - 1]
  IN  kept[Len(entries)]

\* htable_grow's loop: the entries, in the order of the old table, appended to
\* the chains of one twice as big.
Rehashed(t, n) ==
  LET all == FlattenSeq([b \in 1..n |-> t[b - 1]])
  IN  [b \in 0..(2 * n - 1) |-> OfBucket(all, 2 * n, b)]

\* Mutation: the limit is not raised when the table grows.
InsertLimitKept(k, d) ==
  /\ walk = NotWalking
  /\ UNCHANGED <<iter, limit>>
  /\ LET t == [table EXCEPT ![Bucket(k, size)] = Append(@, [key |-> k, data |-> d])]
     IN  IF k \in KeysOf(Chain(k))
         THEN result' = "EXISTS" /\ UNCHANGED <<table, size, used, grows>>
         ELSE /\ result' = "OK"
              /\ used' = used + 1
              /\ IF used + 1 > limit
                 THEN /\ grows < MaxGrows /\ grows' = grows + 1
                      /\ table' = Rehashed(t, size) /\ size' = 2 * size
                 ELSE table' = t /\ UNCHANGED <<size, grows>>

\* htable_insert.  The allocation of the entry may fail; so may that of the
\* larger table, which is not reported and counts as a resize all the same.
Insert(k, d) ==
  /\ walk = NotWalking
  /\ UNCHANGED iter
  /\ \/ k \in KeysOf(Chain(k)) /\ result' = "EXISTS" /\ UNCHANGED core
     \/ k \notin KeysOf(Chain(k)) /\ result' = "NOMEM" /\ UNCHANGED core
     \/ /\ k \notin KeysOf(Chain(k))
        /\ result' = "OK"
        /\ used' = used + 1
        /\ LET t == [table EXCEPT ![Bucket(k, size)] = Append(@, [key |-> k, data |-> d])]
           IN  \/ /\ used + 1 <= limit
                  /\ table' = t
                  /\ UNCHANGED <<size, limit, grows>>
               \/ /\ used + 1 > limit
                  /\ grows < MaxGrows
                  /\ grows' = grows + 1
                  /\ \/ table' = t /\ UNCHANGED <<size, limit>>
                     \/ /\ table' = Rehashed(t, size)
                        /\ size' = 2 * size
                        /\ limit' = Factor * (2 * size)

\* htable_remove; htable_free_obj does the same and frees the key or the data.
RemoveEntry(k) ==
  /\ walk = NotWalking
  /\ IF k \in KeysOf(Chain(k))
     THEN /\ table' = [table EXCEPT ![Bucket(k, size)] = RemoveAt(@, Position(@, k))]
          /\ used' = used - 1
          /\ result' = "OK"
     ELSE result' = "NOTFOUND" /\ UNCHANGED <<table, used>>
  /\ UNCHANGED <<size, limit, grows, iter>>

\* htable_iterator_init
IterInit ==
  /\ walk = NotWalking
  /\ walk' = <<>>
  /\ pos' = 0
  /\ node' = Absent
  /\ UNCHANGED <<core, result>>

\* The key after k in its chain, or Absent.
NextInChain(k) ==
  LET chain == Chain(k)
      i     == Position(chain, k)
  IN  IF i < Len(chain) THEN chain[i + 1].key ELSE Absent

\* Mutation: an empty bucket ends the iteration.
NextBucketOnly(from) == IF from < size /\ table[from] # <<>> THEN from ELSE size

\* The first bucket at or after `from' that is not empty, or size.
NextBucket(from) ==
  CHOOSE b \in from..size :
    /\ \A c \in from..(b - 1) : table[c] = <<>>
    /\ b < size => table[b] # <<>>

\* Mutation: the position is not advanced past the bucket that was found.  (walk
\* keeps the last key only, to stay finite.)
IterNextStays ==
  /\ walk # NotWalking
  /\ pos <= size - 1
  /\ LET b == NextBucket(pos)
     IN  /\ pos' = b
         /\ IF b < size
            THEN node' = table[b][1].key /\ walk' = <<node'>>
            ELSE node' = Absent /\ walk' = NotWalking
  /\ UNCHANGED <<core, result>>

\* htable_get_next_elm, and the end of its caller's loop when it returns NULL.
IterNext ==
  /\ walk # NotWalking
  /\ IF pos > size - 1
     THEN node' = Absent /\ UNCHANGED pos
     ELSE IF pos = 0 \/ node = Absent \/ NextInChain(node) = Absent
          THEN LET b == NextBucket(pos)
               IN  IF b < size
                   THEN node' = table[b][1].key /\ pos' = b + 1
                   ELSE node' = Absent /\ pos' = size
          ELSE node' = NextInChain(node) /\ UNCHANGED pos
  /\ walk' = IF node' = Absent THEN NotWalking ELSE Append(walk, node')
  /\ UNCHANGED <<core, result>>

-----------------------------------------------------------------------------

Next ==
  \/ \E k \in Keys : RemoveEntry(k) \/ \E d \in Data : Insert(k, d)
  \/ IterInit
  \/ IterNext

Spec == Init /\ [][Next]_vars

\* A caller that iterates does so to the end.
FairSpec == Spec /\ WF_vars(IterNext)

-----------------------------------------------------------------------------

\* Types of the state.
TypeOK ==
  /\ size \in Nat /\ used \in Nat /\ limit \in Nat /\ grows \in 0..MaxGrows
  /\ DOMAIN table = 0..(size - 1)
  /\ \A b \in DOMAIN table : \A i \in DOMAIN table[b] : table[b][i] \in [key : Keys, data : Data]
  /\ result \in {"OK", "EXISTS", "NOMEM", "NOTFOUND"}
  /\ pos \in 0..size
  /\ node \in Keys \cup {Absent}

\* Every entry is in the chain a search for its key looks at, at any size the
\* table has grown to; no key is there twice; used counts the entries
\* (htable.c:127-142, 171).
WellPlaced ==
  /\ \A b \in DOMAIN table :
       /\ \A i \in DOMAIN table[b] : Bucket(table[b][i].key, size) = b
       /\ IsInjective([i \in DOMAIN table[b] |-> table[b][i].key])
  /\ used = Len(Flat(size))

\* Sizes[n]: the size of a table that has doubled n times.
Sizes[n \in 0..MaxGrows] == IF n = 0 THEN InitSize ELSE 2 * Sizes[n - 1]

\* The load passes the limit only when a resize that was due could not be done,
\* and the size has doubled once for each one that was (htable.c:171-174).
LoadBounded ==
  /\ limit = Factor * size
  /\ \E n \in 0..grows : /\ size = Sizes[n]
                         /\ used > limit => n < grows

\* What holds between any two calls: the entries are where searches look, and the
\* table has grown as often as memory allowed (htable.c:127-142, 171-174).
TableOK == TypeOK /\ WellPlaced /\ LoadBounded

\* The keys an iteration yields: all but those of what follows the first entry of
\* the last bucket's chain (htable.c:284).
Yields ==
  LET seen == Len(Flat(size - 1)) + IF table[size - 1] = <<>> THEN 0 ELSE 1
  IN  [i \in 1..seen |-> Flat(size)[i].key]

\* When the iterator returns NULL it has yielded in table order, and once each, all
\* the entries but those after the first of the last bucket's chain, and until
\* then it yields them in that order (htable.c:278-317).
IterationInOrder ==
  [][walk # NotWalking =>
       IF walk' = NotWalking THEN walk = Yields ELSE IsPrefix(walk', Yields)]_vars

\* The caller's loop ends.
IterationEnds == walk # NotWalking ~> walk = NotWalking

\* Every search gives what the calls before it put in.
Dict == INSTANCE Dictionary WITH
  map    <- [k \in Keys |-> Search(k)],
  answer <- result

ImplementsDictionary == Dict!DictSpec

\* "For all states" (fsm.c:320, over this iterator): when htable_get_next_elm
\* returns NULL, every entry has been yielded.
IteratesOverAll ==
  [][walk # NotWalking /\ walk' = NotWalking => Len(walk) = Len(Flat(size))]_vars
=============================================================================
