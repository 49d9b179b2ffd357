-------------------------------- MODULE Heap --------------------------------
(***************************************************************************)
(* What mpool_alloc and mpool_free promise their client, without lists,    *)
(* headers or flags: a request gets the smallest power of two that holds   *)
(* it and its header, at a multiple of that size that overlaps no other    *)
(* allocation, and it is refused only when the pool has no such place.     *)
(***************************************************************************)
EXTENDS Integers

CONSTANTS MaxLog, MinLog, HdrSize, Pow2, Requests

Unallocated == 0
NoRequest == -1

VARIABLES
  order,     \* order[a]: log2 of the size of the allocation at a, or Unallocated
  pending    \* the request being served, or NoRequest

heapVars == <<order, pending>>

AtMultiple(a, k) == \E i \in 0..a : a = i * Pow2[k]
Places == {a \in 0..(Pow2[MaxLog] - 1) : AtMultiple(a, MinLog)}
Orders == MinLog..MaxLog

HeapInit ==
  /\ order = [a \in Places |-> Unallocated]
  /\ pending = NoRequest

\* k is the smallest order that has room for size bytes.
Suffices(k, size) == Pow2[k] >= size /\ (k = MinLog \/ Pow2[k - 1] < size)

\* The 2^k bytes at a overlap no allocation.
Vacant(a, k) ==
  /\ AtMultiple(a, k)
  /\ \A b \in Places : order[b] # Unallocated =>
        b + Pow2[order[b]] <= a \/ a + Pow2[k] <= b

CanHold(a, k) == Suffices(k, pending + HdrSize) /\ Vacant(a, k)

Request(n) ==
  /\ pending = NoRequest
  /\ pending' = n
  /\ UNCHANGED order

Grant ==
  /\ pending # NoRequest
  /\ \E k \in Orders, a \in Places :
        CanHold(a, k) /\ order' = [order EXCEPT ![a] = k]
  /\ pending' = NoRequest

Refuse ==
  /\ pending # NoRequest
  /\ \A k \in Orders, a \in Places : ~CanHold(a, k)
  /\ pending' = NoRequest
  /\ UNCHANGED order

Release(a) ==
  /\ pending = NoRequest
  /\ order[a] # Unallocated
  /\ order' = [order EXCEPT ![a] = Unallocated]
  /\ UNCHANGED pending

HeapNext ==
  \/ \E n \in Requests : Request(n)
  \/ Grant
  \/ Refuse
  \/ \E a \in Places : Release(a)

HeapSpec == HeapInit /\ [][HeapNext]_heapVars /\ WF_heapVars(Grant \/ Refuse)
=============================================================================
