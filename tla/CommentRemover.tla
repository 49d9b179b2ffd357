--------------------------- MODULE CommentRemover ---------------------------
(***************************************************************************)
(* fsm/test_rmcom.c: a state machine that prints a C file without its      *)
(* comments.  fgets cuts the file into lines, and long lines into pieces;  *)
(* get_evt_key looks one character ahead, within the piece.                *)
(*                                                                         *)
(* The compiler may evaluate the arguments of fsm_process_event in either  *)
(* order: print_char gets the character that get_evt_key has dealt with,   *)
(* or the one after it.                                                    *)
(***************************************************************************)
EXTENDS Integers, Sequences, SequencesExt

CONSTANTS
  BufSize,     \* sizeof buf
  MaxText      \* bound on the length of the file

RemoverAssumption == BufSize \in Nat \ {0, 1} /\ MaxText \in Nat

Chars == {"/", "*", "a", "newline"}

VARIABLES
  text,       \* the file
  pfirst,     \* p is evaluated before get_evt_key(fsm, &p)
  offset,     \* how much of the file is in buf or before it
  left,       \* p: the characters of buf from p to the NUL
  state,      \* the state of the machine: "no_comment" or "comment"
  out,        \* what is printed, as positions in the file
  reading     \* the program is in its loop

vars == <<text, pfirst, offset, left, state, out, reading>>

Init ==
  /\ text \in BoundedSeq(Chars, MaxText)
  /\ pfirst \in BOOLEAN
  /\ offset = 0 /\ left = 0
  /\ state = "no_comment"
  /\ out = <<>>
  /\ reading = TRUE

\* The length of the piece fgets returns: up to a newline, BufSize - 1 characters
\* or the end of the file.
Piece(from) ==
  CHOOSE n \in 0..(BufSize - 1) :
    /\ from + n <= Len(text)
    /\ \A m \in 1..(n - 1) : text[from + m] # "newline"
    /\ n = BufSize - 1 \/ from + n = Len(text) \/ (n > 0 /\ text[from + n] = "newline")

\* The loop's head: fgets, at the end of a piece; or the end of the file.
Fgets ==
  /\ reading /\ left = 0
  /\ left' = Piece(offset)
  /\ offset' = offset + left'
  /\ reading' = (offset < Len(text))
  /\ UNCHANGED <<text, pfirst, state, out>>

\* fgets fails.
FgetsFails ==
  /\ reading /\ left = 0
  /\ reading' = FALSE
  /\ UNCHANGED <<text, pfirst, offset, left, state, out>>

\* The mark that the current state waits for.
Mark == IF state = "comment" THEN <<"*", "/">> ELSE <<"/", "*">>

\* Mutation: only the first character of the mark is looked at.
MarkStarts(p) == left > 1 /\ text[p] = Mark[1]

\* The mark is at p and not cut by the end of buf.
MarkHere(p) == left > 1 /\ <<text[p], text[p + 1]>> = Mark

\* get_evt_key, fsm_process_event, print_char and the transition.
Process ==
  /\ left > 0
  /\ LET p == offset - left + 1
     IN  IF MarkHere(p)
         THEN /\ left' = left - 2
              /\ state' = IF state = "comment" THEN "no_comment" ELSE "comment"
              /\ UNCHANGED out
         ELSE /\ left' = left - 1
              /\ out' = IF state = "comment" THEN out
                        ELSE Append(out, IF pfirst THEN p ELSE p + 1)
              /\ UNCHANGED state
  /\ UNCHANGED <<text, pfirst, offset, reading>>

Next == Fgets \/ FgetsFails \/ Process

Spec == Init /\ [][Next]_vars

-----------------------------------------------------------------------------

\* Where a position of the file is, and what a mark there turns it into.
Places == {"no_comment", "comment"}
Other(place) == IF place = "comment" THEN "no_comment" ELSE "comment"

Turns(p, place) ==
  p < Len(text) /\ <<text[p], text[p + 1]>> = IF place = "comment" THEN <<"*", "/">> ELSE <<"/", "*">>

\* The positions outside comments from p on, p being at place.
OutsideFrom[p \in 1..(Len(text) + 2)] ==
  [place \in Places |->
     IF p > Len(text) THEN <<>>
     ELSE IF Turns(p, place) THEN OutsideFrom[p + 2][Other(place)]
     ELSE (IF place = "comment" THEN <<>> ELSE <<p>>) \o OutsideFrom[p + 1][place]]

Outside == OutsideFrom[1]["no_comment"]

\* "must be big enough, or else beginning of comment might split" (test_rmcom.c:71).
LinesFit ==
  \A p \in 1..Len(text) : p + BufSize - 1 <= Len(text) =>
    \E q \in p..(p + BufSize - 1) : text[q] = "newline"

\* What is printed is the file up to here without its comments, those that span
\* lines included, if no line is longer than buf and p is evaluated first
\* (test_rmcom.c:121-130): the pieces' ends lose and invent nothing.
CommentsRemoved ==
  pfirst /\ LinesFit =>
    /\ IsPrefix(out, Outside)
    /\ left = 0 => \A i \in 1..Len(Outside) : i <= Len(out) <=> Outside[i] <= offset
=============================================================================
