------------------------------ MODULE BlockSim ------------------------------
(***************************************************************************)
(* buddy/test4.c: a simulation that allocates one block per epoch, each to *)
(* be freed after a random lifetime, and keeps them in a list sorted by    *)
(* the epoch they end in.  Only the head of the list is looked at when     *)
(* blocks are freed.  A block is named by the epoch it was allocated in.   *)
(***************************************************************************)
EXTENDS Integers, Sequences, SequencesExt

CONSTANTS MaxEpochs, MaxLifetime     \* MAX_EPOCHS, MAX_LIFETIME

SimAssumption == MaxEpochs \in Nat /\ MaxLifetime \in 1..MaxEpochs

VARIABLES
  t,
  simstep,      \* "free", "alloc" or "exit"
  simlist,      \* the list
  lifetime,     \* lifetime[b], once block b is allocated
  freed         \* the calls of mpool_free so far, as <<epoch, block>>

vars == <<t, simstep, simlist, lifetime, freed>>

Init ==
  /\ t = 0 /\ simstep = "free"
  /\ simlist = <<>> /\ lifetime = <<>> /\ freed = <<>>

\* The first block's life is over.
Due == simlist # <<>> /\ lifetime[Head(simlist) + 1] = t

\* A round of sim_free_from_list, whose list is walked while nodes are removed.
Free ==
  /\ simstep = "free"
  /\ Due
  /\ freed' = Append(freed, <<t, Head(simlist)>>)
  /\ simlist' = Tail(simlist)
  /\ UNCHANGED <<t, simstep, lifetime>>

\* Its end, at the end of the list or the first block that lives on.
Freed ==
  /\ simstep = "free"
  /\ ~Due
  /\ simstep' = IF t < MaxEpochs THEN "alloc" ELSE "exit"
  /\ UNCHANGED <<t, simlist, lifetime, freed>>

\* What `lt' may be: no block outlives the simulation.
Lifetimes == 1..(IF t < MaxEpochs - MaxLifetime THEN MaxLifetime ELSE MaxEpochs - t)

\* Mutation: every block goes to the head of the list.
PlaceFirst(ends) == 1

\* sim_add_to_list: before the first block that ends later, or last.
Place(ends) ==
  CHOOSE n \in 1..(Len(simlist) + 1) :
    /\ \A m \in 1..(n - 1) : ends >= lifetime[simlist[m] + 1]
    /\ n <= Len(simlist) => ends < lifetime[simlist[n] + 1]

Alloc ==
  /\ simstep = "alloc"
  /\ \E lt \in Lifetimes :
       /\ lifetime' = Append(lifetime, t + lt)
       /\ simlist' = InsertAt(simlist, Place(t + lt), t)
  /\ t' = t + 1
  /\ simstep' = "free"
  /\ UNCHANGED freed

\* mpool_alloc fails and the program ends.
AllocFails ==
  /\ simstep = "alloc"
  /\ simstep' = "exit"
  /\ UNCHANGED <<t, simlist, lifetime, freed>>

Next == Free \/ Freed \/ Alloc \/ AllocFails

Spec == Init /\ [][Next]_vars

-----------------------------------------------------------------------------

\* Looking at the head is enough ("Blocks with the same lifetime are placed
\* together", test4.c:142): every block is freed in the epoch its life ends, in no
\* other and once, and none is left after "the last of Mohicans" (test4.c:96).
FreedOnTime ==
  /\ \A n \in 1..Len(freed) : lifetime[freed[n][2] + 1] = freed[n][1]
  /\ IsInjective([n \in 1..Len(freed) |-> freed[n][2]])
  /\ simstep = "alloc" \/ (simstep = "exit" /\ t = MaxEpochs) =>
       {freed[n][2] : n \in 1..Len(freed)} = {b \in 0..(t - 1) : lifetime[b + 1] <= t}
  /\ ToSet(simlist) = (0..(t - 1)) \ {freed[n][2] : n \in 1..Len(freed)}
=============================================================================
