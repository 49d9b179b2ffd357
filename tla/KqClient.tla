------------------------------ MODULE KqClient ------------------------------
(***************************************************************************)
(* kqueue/kqclient.c: one loop that waits with kevent for data from a host *)
(* and for lines from standard input, prints the first and sends the       *)
(* second.  The user and the host act at any time.                         *)
(*                                                                         *)
(* A line is LineLen units that send may accept a few at a time; what the  *)
(* host says comes in pieces, ReadPieces to a BUFSIZE.  kevent (external)  *)
(* reports in any order the descriptors that are ready, each with EV_EOF   *)
(* once its other end is closed, with or without data left.  stdio         *)
(* (external) reads up to StdioLines lines ahead: one from a terminal,     *)
(* where no line is there before its end, more from a pipe, where a line   *)
(* may be there in part.  The socket (external) holds SendRoom units that  *)
(* the host has not read.                                                  *)
(***************************************************************************)
EXTENDS Integers, Sequences, SequencesExt

CONSTANTS
  LineLen,       \* units of a line
  StdioLines,    \* lines one read of standard input may return
  ReadPieces,    \* pieces that fill buf (BUFSIZE), the most a read returns
  SendRoom,      \* units that the socket holds for the host
  MaxLines,      \* bound on the lines typed
  MaxPieces      \* bound on the pieces the host sends

ClientAssumption ==
  {LineLen, StdioLines, ReadPieces, SendRoom} \subseteq Nat \ {0} /\ {MaxLines, MaxPieces} \subseteq Nat

VARIABLES
  typed, stdin, stdinEof,     \* lines typed; those not yet read; input closed
  begun,                      \* the line after them: not begun ("no"), or in part
                              \* "unread" or "taken" by stdio
  stdio,                      \* the lines in stdio's buffer
  told, sock, sockEof,        \* pieces the host sent; those not yet read; closed
  zeros,                      \* the pieces with a zero byte
  screen,                     \* the pieces read, in the order fputs got them
  hidden,                     \* those not printed, or not to their end
  garbled,                    \* those after which what follows buf is printed
  sent, unread,               \* the units send took, as <<line, unit>>; how many
                              \* of them, the last, the host has not read
  pc, evlist,                 \* where main is; the events it has still to handle
  buf, pos                    \* the line being sent, or Nothing; sendbuftosck's pos

user   == <<typed, stdin, stdinEof, begun>>
host   == <<told, sock, sockEof, zeros>>
output == <<screen, hidden, garbled>>
client == <<stdio, output, sent, unread, pc, evlist, buf, pos>>
vars   == <<typed, stdin, stdinEof, begun, stdio, told, sock, sockEof, zeros, screen, hidden,
            garbled, sent, unread, pc, evlist, buf, pos>>

Nothing == 0

Init ==
  /\ typed = 0 /\ stdin = <<>> /\ stdinEof = FALSE /\ begun = "no"
  /\ stdio = <<>>
  /\ told = 0 /\ sock = <<>> /\ sockEof = FALSE /\ zeros = {}
  /\ screen = <<>> /\ hidden = {} /\ garbled = {}
  /\ sent = <<>> /\ unread = 0
  /\ pc = "wait" /\ evlist = <<>>
  /\ buf = Nothing /\ pos = 0

-----------------------------------------------------------------------------
(* The user and the host. *)

EndLine ==
  /\ typed' = typed + 1
  /\ stdin' = Append(stdin, typed + 1)
  /\ begun' = "no"

Type ==
  /\ ~stdinEof /\ typed < MaxLines
  /\ EndLine
  /\ UNCHANGED <<stdinEof, host, client>>

\* A part of a line, as a pipe may have it.
Begin ==
  /\ ~stdinEof /\ typed < MaxLines /\ begun = "no"
  /\ begun' = "unread"
  /\ UNCHANGED <<typed, stdin, stdinEof, host, client>>

\* The end of the input ends a line that has begun.
CloseInput ==
  /\ stdinEof' = TRUE
  /\ IF begun = "no" THEN UNCHANGED <<typed, stdin, begun>> ELSE EndLine
  /\ UNCHANGED <<host, client>>

Tell ==
  /\ ~sockEof /\ told < MaxPieces
  /\ told' = told + 1
  /\ sock' = Append(sock, told + 1)
  /\ zeros' \in {zeros, zeros \cup {told + 1}}
  /\ UNCHANGED <<sockEof, user, client>>

CloseSocket ==
  /\ sockEof' = TRUE
  /\ UNCHANGED <<told, sock, zeros, user, client>>

\* The host reads, which nothing makes it do.
Hear ==
  /\ unread > 0
  /\ unread' = unread - 1
  /\ UNCHANGED <<user, host, stdio, output, sent, pc, evlist, buf, pos>>

-----------------------------------------------------------------------------
(* main *)

\* Whether fgets returns without waiting for the rest of a line.
Available == stdio # <<>> \/ stdin # <<>> \/ stdinEof

Ready ==
  {id \in {"sock", "stdin"} :
     IF id = "sock" THEN sock # <<>> \/ sockEof
                    ELSE stdin # <<>> \/ begun = "unread" \/ stdinEof}

Eof(id) == IF id = "sock" THEN sockEof ELSE stdinEof

\* Mutation: the flags of the first event are looked at only if there are two.
WaitLooksTwice ==
  /\ pc = "wait"
  /\ \E events \in SetToSeqs(Ready) \ {<<>>} :
       /\ evlist' = events
       /\ pc' = IF Len(events) > 1 /\ Eof(events[1]) THEN "exited" ELSE "event"
  /\ UNCHANGED <<user, host, stdio, output, sent, unread, buf, pos>>

\* kevent; EV_EOF of the first event, whichever it is, ends the program.
Wait ==
  /\ pc = "wait"
  /\ \E events \in SetToSeqs(Ready) \ {<<>>} :
       /\ evlist' = events
       /\ pc' = IF Eof(events[1]) THEN "exited" ELSE "event"
  /\ UNCHANGED <<user, host, stdio, output, sent, unread, buf, pos>>

\* kevent, read or send fails, an event has EV_ERROR, or fputs runs out of memory
\* to read past buf.
Fail ==
  /\ pc' = "exited"
  /\ UNCHANGED <<user, host, stdio, output, sent, unread, evlist, buf, pos>>

\* The loop over the events is over.
Handled ==
  /\ pc = "event" /\ evlist = <<>>
  /\ pc' = "wait"
  /\ UNCHANGED <<user, host, stdio, output, sent, unread, evlist, buf, pos>>

Least(a, b) == IF a < b THEN a ELSE b

\* fputs of the n bytes read into a cleared buf: it stops at a zero byte, and finds
\* none in buf if the read filled it.
Put(read) ==
  LET zero == zeros \cap ToSet(read)
  IN  /\ screen' = screen \o read
      /\ hidden' = hidden \cup {p \in ToSet(read) : \E z \in zero : z <= p}
      /\ garbled' \in IF Len(read) = ReadPieces /\ zero = {}
                      THEN {garbled, garbled \cup {read[ReadPieces]}}
                      ELSE {garbled}

\* read and fputs; at the end of the data, nothing.
Socket ==
  /\ pc = "event" /\ evlist # <<>> /\ Head(evlist) = "sock"
  /\ evlist' = Tail(evlist)
  /\ \E n \in 0..Least(ReadPieces, Len(sock)) :
       /\ n = 0 => sock = <<>>
       /\ Put(SubSeq(sock, 1, n))
       /\ sock' = SubSeq(sock, n + 1, Len(sock))
  /\ UNCHANGED <<user, told, sockEof, zeros, stdio, sent, unread, pc, buf, pos>>

\* fgets: from stdio's buffer if it can, else by a read that fills it, which takes
\* the part of a line that has begun if there is room.  It waits for the end of a
\* line; at the end of the input buf stays empty.
Fgets ==
  /\ pc = "event" /\ evlist # <<>> /\ Head(evlist) = "stdin"
  /\ Available
  /\ evlist' = Tail(evlist)
  /\ LET ahead == Least(StdioLines, Len(stdin))
         lines == IF stdio # <<>> THEN stdio ELSE SubSeq(stdin, 1, ahead)
     IN  /\ buf' = IF lines = <<>> THEN Nothing ELSE Head(lines)
         /\ stdio' = SubSeq(lines, 2, Len(lines))
         /\ stdin' = IF stdio # <<>> THEN stdin ELSE SubSeq(stdin, ahead + 1, Len(stdin))
         /\ begun' = IF stdio = <<>> /\ begun = "unread" /\ ahead < StdioLines THEN "taken" ELSE begun
  /\ pos' = 0 /\ pc' = "send"
  /\ UNCHANGED <<typed, stdinEof, host, output, sent, unread>>

Length(line) == IF line = Nothing THEN 0 ELSE LineLen
Units(line, from, to) == [i \in 1..(to - from) |-> <<line, from + i>>]

\* send takes n units of the rest of buf, for which there is room.
Taken(n) ==
  /\ n <= SendRoom - unread
  /\ sent' = sent \o Units(buf, pos, pos + n)
  /\ unread' = unread + n

\* Mutation: what a send left over is not sent.
SendOnce ==
  /\ pc = "send"
  /\ \E n \in 0..(Length(buf) - pos) :
       /\ n = 0 => pos = Length(buf)
       /\ Taken(n)
  /\ pos' = 0 /\ buf' = Nothing /\ pc' = "event"
  /\ UNCHANGED <<user, host, stdio, output, evlist>>

\* A round of sendbuftosck: send waits for room and takes some of the rest, or all
\* is sent and it takes nothing, which ends the loop.
Send ==
  /\ pc = "send"
  /\ \E n \in 0..(Length(buf) - pos) :
       /\ n = 0 => pos = Length(buf)
       /\ Taken(n)
       /\ IF n > 0
          THEN pos' = pos + n /\ UNCHANGED <<buf, pc>>
          ELSE pos' = 0 /\ buf' = Nothing /\ pc' = "event"
  /\ UNCHANGED <<user, host, stdio, output, evlist>>

Client == Wait \/ Handled \/ Socket \/ Fgets \/ Send

Next ==
  \/ Type \/ Begin \/ CloseInput \/ Tell \/ CloseSocket \/ Hear
  \/ Client
  \/ pc # "exited" /\ Fail

Spec == Init /\ [][Next]_vars

\* The program is scheduled; nobody has to type, talk, read or close.
FairSpec == Spec /\ WF_vars(Client)

-----------------------------------------------------------------------------

\* Types of the state.
TypeOK ==
  /\ typed \in 0..MaxLines /\ told \in 0..MaxPieces
  /\ stdin \in Seq(1..MaxLines) /\ stdio \in Seq(1..MaxLines) /\ Len(stdio) < StdioLines
  /\ sock \in Seq(1..MaxPieces) /\ screen \in Seq(1..MaxPieces)
  /\ stdinEof \in BOOLEAN /\ sockEof \in BOOLEAN /\ begun \in {"no", "unread", "taken"}
  /\ zeros \subseteq 1..MaxPieces /\ hidden \subseteq 1..MaxPieces /\ garbled \subseteq 1..MaxPieces
  /\ sent \in Seq((1..MaxLines) \X (1..LineLen)) /\ unread \in 0..SendRoom
  /\ pc \in {"wait", "event", "send", "exited"}
  /\ evlist \in Seq({"sock", "stdin"}) /\ Len(evlist) <= 2
  /\ buf \in 0..MaxLines /\ pos \in 0..LineLen

AllUnits(lines) == FlattenSeq([i \in 1..Len(lines) |-> Units(lines[i], 0, LineLen)])

\* Every unit of every line typed is at one place, in the order of typing: taken
\* by send, in buf, in stdio or to be read (kqclient.c:84-88, 130-140).
LinesInOrder ==
  sent \o Units(buf, pos, Length(buf)) \o AllUnits(stdio) \o AllUnits(stdin)
    = AllUnits([i \in 1..typed |-> i])

\* What the host says is printed once and in order, but for what follows a zero
\* byte in the same read.  Something else comes between only after a read that
\* filled buf, which has then no room for the zero that fputs looks for
\* (kqclient.c:76-81).
PiecesInOrder ==
  /\ screen \o sock = [i \in 1..told |-> i]
  /\ \A p \in hidden : \E z \in zeros : z <= p /\ p < z + ReadPieces
  /\ \A p \in garbled :
       /\ p >= ReadPieces
       /\ \A q \in garbled : q < p => q <= p - ReadPieces

\* Nothing is lost, passed twice or reordered on the way from the user to the host
\* or back, but what fputs leaves out or adds (kqclient.c:76-88).
InOrder == TypeOK /\ LinesInOrder /\ PiecesInOrder

\* main waits in send for the host to read, or in fgets for the end of a line
\* (kqclient.c:87, 136).
Blocked ==
  \/ pc = "send" /\ pos < Length(buf) /\ unread = SendRoom
  \/ pc = "event" /\ evlist # <<>> /\ Head(evlist) = "stdin" /\ ~Available

\* What comes from the host or the user does not stay unread while the program
\* runs (kqclient.c:69-91).
DataTaken ==
  /\ sock # <<>> ~> sock = <<>> \/ pc = "exited"
  /\ stdin # <<>> ~> stdin = <<>> \/ pc = "exited"

\* "Read direction of socket has shutdown" (kqclient.c:65-67): the program ends
\* when the host closes, though the flag is only looked at in the first event.
EndsWithHost == sockEof ~> pc = "exited"

\* No data stays unread and the end of the connection is noticed, unless main waits
\* for ever, in send for a host that does not read or in fgets for the rest of a
\* line: those are the only two places where one side can keep the other from
\* being served (kqclient.c:57-92).
Responsive == <>[]Blocked \/ (DataTaken /\ EndsWithHost)
=============================================================================
