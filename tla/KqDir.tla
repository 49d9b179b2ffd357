------------------------------- MODULE KqDir -------------------------------
(***************************************************************************)
(* kqueue/kqdir.c: a program that opens the entries of a directory and     *)
(* reports their changes, which kevent (external) returns as one-shot      *)
(* events.  Other processes change the files at any time.                  *)
(*                                                                         *)
(* chlist has one EV_ADD | EV_ONESHOT change per open entry and is given   *)
(* to every call of kevent: a call adds the notes that an earlier one      *)
(* returned and thereby removed.                                           *)
(***************************************************************************)
EXTENDS Integers, Sequences, FiniteSets, SequencesExt

CONSTANTS
  Files,         \* entries of the directory other than . and ..
  Dots,          \* . and ..
  MaxEntries,    \* MAX_ENTRIES
  Changes,       \* kinds of changes that happen: "delete", "write", "attrib"
  Nobody         \* not an entry

DirAssumption ==
  /\ MaxEntries \in Nat \ {0}
  /\ IsFiniteSet(Files) /\ IsFiniteSet(Dots) /\ Files \cap Dots = {}
  /\ Changes \subseteq {"delete", "write", "attrib"}     \* NOTE_EXTEND is a write

Entries == Files \cup Dots

VARIABLES
  at,         \* where main is
  stream,     \* what readdir has still to return
  cnt,        \* cnt of the loop that skips
  fdlist,     \* the entries opened, in order
  watched,    \* entries with a note in the kqueue
  pending,    \* pending[f]: changes noted and not yet returned
  evlist,     \* events returned and not yet handled, as <<entry, changes>>
  deleted,    \* the files deleted
  unsaid,     \* unsaid[f]: kinds of changes of f since main last said that kind
  gap,        \* gap[f]: those of them that found no note
  masked,     \* masked[f]: those whose event said something more important
  said        \* the entry and message of the last line printed, or Nobody

vars == <<at, stream, cnt, fdlist, watched, pending, evlist, deleted, unsaid, gap, masked, said>>
files == <<deleted, unsaid, gap, masked, said>>

Init ==
  /\ at = "start" /\ stream = <<>> /\ cnt = 0 /\ fdlist = <<>>
  /\ watched = {} /\ evlist = <<>> /\ deleted = {}
  /\ pending = [f \in Entries |-> {}]
  /\ unsaid = [f \in Entries |-> {}] /\ gap = [f \in Entries |-> {}]
  /\ masked = [f \in Entries |-> {}]
  /\ said = Nobody

-----------------------------------------------------------------------------

\* Somebody changes a file, which the kqueue sees if it has a note for it.
Change(f, c) ==
  /\ f \notin deleted
  /\ deleted' = IF c = "delete" THEN deleted \cup {f} ELSE deleted
  /\ unsaid' = [unsaid EXCEPT ![f] = @ \cup {c}]
  /\ masked' = [masked EXCEPT ![f] = @ \ {c}]
  /\ IF f \in watched
     THEN pending' = [pending EXCEPT ![f] = @ \cup {c}] /\ UNCHANGED gap
     ELSE gap' = [gap EXCEPT ![f] = @ \cup {c}] /\ UNCHANGED pending
  /\ UNCHANGED <<at, stream, cnt, fdlist, watched, evlist, said>>

\* opendir, where . and .. come first.
Opendir ==
  /\ at = "start"
  /\ \E dots \in SetToSeqs(Dots), rest \in SetToSeqs(Files) : stream' = dots \o rest
  /\ at' = "skip"
  /\ UNCHANGED <<cnt, fdlist, watched, pending, evlist, files>>

\* A round of "Skip . and .. entries": readdir comes before the test of cnt,
\* and the entry that ends the loop is gone.
Skip ==
  /\ at = "skip"
  /\ stream' = IF stream = <<>> THEN stream ELSE Tail(stream)
  /\ IF stream # <<>> /\ cnt < 2
     THEN cnt' = cnt + 1 /\ UNCHANGED at
     ELSE cnt' = 0 /\ at' = "scan"
  /\ UNCHANGED <<fdlist, watched, pending, evlist, files>>

\* A round of the loop that opens.  Whether the path is found too long is up to
\* the memory behind argv[1], whose strlen is taken at an offset.
Open ==
  /\ at = "scan" /\ stream # <<>>
  /\ stream' = Tail(stream)
  /\ \/ /\ Len(fdlist) < MaxEntries
        /\ Head(stream) \notin deleted
        /\ fdlist' = Append(fdlist, Head(stream))
        /\ UNCHANGED at
     \/ at' = "cleanup" /\ UNCHANGED fdlist
  /\ UNCHANGED <<cnt, watched, pending, evlist, files>>

Scanned ==
  /\ at = "scan" /\ stream = <<>>
  /\ at' = "call"
  /\ UNCHANGED <<stream, cnt, fdlist, watched, pending, evlist, files>>

\* Mutation: the changes are passed in the first call only.
KeventOnce ==
  /\ at = "call"
  /\ watched' = IF said = Nobody THEN watched \cup ToSet(fdlist) ELSE watched
  /\ at' = "wait"
  /\ UNCHANGED <<stream, cnt, fdlist, pending, evlist, files>>

\* kevent takes chlist ...
Kevent ==
  /\ at = "call"
  /\ watched' = watched \cup ToSet(fdlist)
  /\ at' = "wait"
  /\ UNCHANGED <<stream, cnt, fdlist, pending, evlist, files>>

\* ... and returns the events there are ...
Return ==
  /\ at = "wait"
  /\ LET who == {f \in watched : pending[f] # {}}
     IN  /\ who # {}
         /\ \E order \in SetToSeqs(who) :
              evlist' = [i \in 1..Len(order) |-> <<order[i], pending[order[i]]>>]
         /\ watched' = watched \ who
         /\ pending' = [f \in Entries |-> IF f \in who THEN {} ELSE pending[f]]
  /\ at' = "handle"
  /\ UNCHANGED <<stream, cnt, fdlist, files>>

\* ... or fails, or has no room for events since there are no entries.
NoEvents ==
  /\ at = "wait"
  /\ at' = "call"
  /\ UNCHANGED <<stream, cnt, fdlist, watched, pending, evlist, files>>

\* What the chain of else-ifs finds first; nothing else of the event is printed.
Message(changes) ==
  IF "delete" \in changes THEN "delete" ELSE IF "write" \in changes THEN "write" ELSE "attrib"

\* The changes that hide c if they are in its event.
Above(c) ==
  CASE c = "delete" -> {} [] c = "write" -> {"delete"} [] c = "attrib" -> {"delete", "write"}

\* f has an event with these changes, of which one is said.
Say(f, changes) ==
  LET message == Message(changes)
  IN  /\ said' = <<f, message>>
      /\ unsaid' = [unsaid EXCEPT ![f] = @ \ {message}]
      /\ gap' = [gap EXCEPT ![f] = @ \ {message}]
      /\ masked' = [masked EXCEPT ![f] = (@ \cup changes) \ {message}]

\* Mutation: the event after one that is handled is passed over.
HandleSkipping ==
  /\ at = "handle" /\ evlist # <<>>
  /\ Say(Head(evlist)[1], Head(evlist)[2])
  /\ evlist' = SubSeq(evlist, 3, Len(evlist))
  /\ UNCHANGED <<at, stream, cnt, fdlist, watched, pending, deleted>>

\* A round of the loop over the events.
Handle ==
  /\ at = "handle" /\ evlist # <<>>
  /\ Say(Head(evlist)[1], Head(evlist)[2])
  /\ evlist' = Tail(evlist)
  /\ UNCHANGED <<at, stream, cnt, fdlist, watched, pending, deleted>>

Handled ==
  /\ at = "handle" /\ evlist = <<>>
  /\ at' = "call"
  /\ UNCHANGED <<stream, cnt, fdlist, watched, pending, evlist, files>>

\* EV_ERROR: a change that kevent could not make.
Error ==
  /\ at \in {"wait", "handle"}
  /\ at' = "cleanup"
  /\ UNCHANGED <<stream, cnt, fdlist, watched, pending, evlist, files>>

\* close of fdlist[0] to fdlist[cnt - 1], the stream and the kqueue.
Cleanup ==
  /\ at = "cleanup"
  /\ at' = "closed"
  /\ fdlist' = <<>> /\ watched' = {} /\ evlist' = <<>> /\ stream' = <<>>
  /\ pending' = [f \in Entries |-> {}]
  /\ UNCHANGED <<cnt, files>>

Main == Opendir \/ Skip \/ Open \/ Scanned \/ Kevent \/ Return \/ Handle \/ Handled \/ Cleanup

Next == Main \/ NoEvents \/ Error \/ \E f \in Files, c \in Changes : Change(f, c)

Spec == Init /\ [][Next]_vars

\* The program is scheduled and kevent does not fail every time.
FairSpec == Spec /\ WF_vars(Main) /\ SF_vars(Return)

-----------------------------------------------------------------------------

Running == at \in {"call", "wait", "handle"}

\* A change is forgotten only if no note was there to see it, or if it is a write
\* whose event also has the file's deletion, or an attribute change whose event
\* has more: the else-ifs print one message for an event (kqdir.c:109-118).
\* While kevent waits there is a note for every entry that was opened, so the
\* window without one is from the return of an event to the next call
\* (kqdir.c:98-118).
OnlyGapsForgotten ==
  Running =>
    /\ \A f \in Files :
         /\ unsaid[f] = gap[f] \cup masked[f] \cup pending[f]
                        \cup UNION {event[2] : event \in {x \in ToSet(evlist) : x[1] = f}}
         /\ "delete" \notin masked[f]
         /\ "write" \in masked[f] => f \in deleted
    /\ at = "wait" => watched = ToSet(fdlist)

\* A change that was noted is said, or what hides it in its event is, whatever
\* happens to other files in the meantime; nothing hides a deletion.  Or the
\* program ends (kqdir.c:102-118).
NotedIsSaid ==
  \A f \in Files, c \in Changes :
    c \in pending[f] ~> \/ c \notin unsaid[f]
                        \/ c \in masked[f] /\ \E d \in Above(c) : said = <<f, d>>
                        \/ at = "closed"

\* "Skip . and .. entries" (kqdir.c:49): once the entries are opened, those that
\* are not watched are . and .. only.
SkipsOnlyDots == at = "wait" => Files \subseteq ToSet(fdlist)
=============================================================================
