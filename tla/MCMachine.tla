----------------------------- MODULE MCMachine -----------------------------
(***************************************************************************)
(* State machines, the memory they own and a program that is one, checked  *)
(* in one run: a behaviour is one of FsmMachine, FsmLife or                *)
(* CommentRemover, while the state of the other two stays as it began.     *)
(***************************************************************************)
EXTENDS FsmMachine

CONSTANTS
  LifeStates, LifeQueued, LifeEvents,             \* of FsmLife
  BufSize, MaxText                                \* of CommentRemover

VARIABLES subject,   \* the module whose behaviour this is
  live, failed, fault, phase, hold, stkey, chain, newstate, current, running, serving,
  text, pfirst, offset, left, state, out, reading

life  == <<live, failed, fault, phase, hold, stkey, chain, newstate, current, running, serving>>
rmcom == <<text, pfirst, offset, left, state, out, reading>>

Life == INSTANCE FsmLife WITH
  States <- LifeStates, Queued <- LifeQueued, Events <- LifeEvents

Remover == INSTANCE CommentRemover

ASSUME LifeRemoverAssumption == Life!LifeAssumption /\ Remover!RemoverAssumption

MCInit ==
  /\ subject \in {"FsmMachine", "FsmLife", "CommentRemover"}
  /\ Init /\ Life!Init /\ Remover!Init
  /\ subject # "FsmMachine" => \A s \in States : key[s] = 0
  /\ subject # "CommentRemover" => text = <<>> /\ pfirst

MCNext ==
  \/ subject = "FsmMachine" /\ Next /\ UNCHANGED <<life, rmcom, subject>>
  \/ subject = "FsmLife" /\ Life!Next /\ UNCHANGED <<vars, rmcom, subject>>
  \/ subject = "CommentRemover" /\ Remover!Next /\ UNCHANGED <<vars, life, subject>>

\* The states of FsmMachine are alike, and so are those of FsmLife, which are others.
StatesAlike == Permutations(States) \cup Permutations(LifeStates)

MCSpec == MCInit /\ [][MCNext]_<<vars, life, rmcom, subject>>

\* See FsmLife.
NoUseAfterFree == Life!NoUseAfterFree
OnlyKnownLeaks == Life!OnlyKnownLeaks

\* See CommentRemover.
CommentsRemoved == Remover!CommentsRemoved
=============================================================================
