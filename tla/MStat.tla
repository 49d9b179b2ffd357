------------------------------- MODULE MStat -------------------------------
(***************************************************************************)
(* The statistics of buddy/mstat.c: sums over the block lists of a pool.   *)
(* They are functions of the state of Buddy, which reads them at any time. *)
(***************************************************************************)
EXTENDS Buddy, FiniteSetsExt

\* The chunks of list p that are available, or used.
InList(p, avail) == {a \in blktable[p] : hdr[a].avail = avail}

\* mpool_stat_get_nodes: *avail is StatNodes(TRUE), *used is StatNodes(FALSE).
StatNodes(avail) == MapThenSumSet(LAMBDA p : Cardinality(InList(p, avail)), Positions)

\* mpool_stat_get_bytes.
StatBytes(avail) ==
  MapThenSumSet(LAMBDA p : MapThenSumSet(BlockSize, InList(p, avail)), Positions)

\* mpool_stat_get_blocks and mpool_stat_get_block_length.
StatBlocks == MaxLog - MinLog + 1
StatBlockLength(pos) == IF pos >= StatBlocks THEN 0 ELSE Cardinality(blktable[pos])

-----------------------------------------------------------------------------

\* The statistics of one moment agree with each other and with the client's view
\* (mstat.c:7-73): the bytes add up to the pool, the lists' lengths to the
\* chunks, between calls the used chunks are those the client owns, and each
\* split added a chunk and each merge removed one, even after the counters have
\* wrapped.
StatsAgree ==
  /\ StatBytes(TRUE) + StatBytes(FALSE) = PoolSize
  /\ MapThenSumSet(StatBlockLength, 0..StatBlocks) = StatNodes(TRUE) + StatNodes(FALSE)
  /\ (StatNodes(TRUE) + StatNodes(FALSE) - 1) % CounterMod = (nsplits - nmerges) % CounterMod
  /\ pc = "idle" => StatNodes(FALSE) = Cardinality({a \in Slots : held[a] # NoRequest})
=============================================================================
