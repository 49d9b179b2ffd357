----------------------------- MODULE MCPrograms -----------------------------
(***************************************************************************)
(* The programs that stand alone, checked in one run: a behaviour is one   *)
(* of PthreadCounter, MatrixMul, KqClient, KqDir, KqTimer, EchoOff, MyDev,  *)
(* PropRefs or BlockSim, while the state of the others stays as it began.  *)
(***************************************************************************)
EXTENDS PthreadCounter

CONSTANTS
  Inputs, Garbage, IntsPerSize,                 \* of MatrixMul
  LineLen, StdioLines, ReadPieces, SendRoom, MaxLines, MaxPieces,     \* of KqClient
  Files, Dots, MaxEntries, Changes, Nobody,     \* of KqDir
  MaxProcs, MaxExpired,                         \* of KqTimer
  Ttys, Stdin,                                  \* of EchoOff
  Procs, BufLen, Want,                          \* of MyDev
  MaxEpochs, MaxLifetime                        \* of BlockSim

VARIABLES program,     \* the module whose behaviour this is
  typed, stdin, stdinEof, begun, stdio, told, sock, sockEof, zeros, screen, hidden, garbled,
  sent, unread, main, evlist, buf, pos,
  at, stream, cnt, fdlist, watched, pending, returned, deleted, unsaid, gap, masked, said,
  timer, expired, children, zombies,
  named, step, fd, echo, saved, cut,
  usage, where, isopen, buffer,
  name, left, refs, inside, erred, wrong,
  t, simstep, simlist, lifetime, freed,
  input, multiplier, mdepth, allocated, made, joined, failed, pairs, tid, mat3, product, cellstep, mulvect

clientvars ==
  <<typed, stdin, stdinEof, begun, stdio, told, sock, sockEof, zeros, screen, hidden, garbled,
    sent, unread, main, evlist, buf, pos>>
dirvars   == <<at, stream, cnt, fdlist, watched, pending, returned, deleted, unsaid, gap, masked, said>>
timervars == <<timer, expired, children, zombies>>
echovars  == <<named, step, fd, echo, saved, cut>>
devvars   == <<usage, where, isopen, buffer>>
propvars  == <<name, left, refs, inside, erred, wrong>>
simvars   == <<t, simstep, simlist, lifetime, freed>>
mulvars   ==
  <<input, multiplier, mdepth, allocated, made, joined, failed, pairs, tid, mat3, product, cellstep, mulvect>>

Client == INSTANCE KqClient WITH pc <- main
Dir   == INSTANCE KqDir WITH evlist <- returned
Timer == INSTANCE KqTimer
Echo  == INSTANCE EchoOff
Dev   == INSTANCE MyDev
Prop  == INSTANCE PropRefs
Sim   == INSTANCE BlockSim
Matrix == INSTANCE MatrixMul WITH
  main <- multiplier, blocks <- allocated, v <- pairs, printed <- product, pc <- cellstep, local <- mulvect

Below(n)  == 0..(n - 1)
Mat(r, c) == [rows |-> r, cols |-> c, data |-> [x \in Below(r) |-> [y \in Below(c) |-> 2 * x + y + 1]]]

\* A square product, a product of one row, and two matrices that do not match.
Matrices ==
  { [a |-> Mat(2, 2), b |-> Mat(2, 2)],
    [a |-> Mat(1, 2), b |-> Mat(2, 3)],
    [a |-> Mat(1, 2), b |-> Mat(1, 2)] }

\* What the programs assume of their constants.
ASSUME ProgramsAssumption ==
  /\ Client!ClientAssumption /\ Dir!DirAssumption /\ Timer!TimerAssumption
  /\ Echo!EchoAssumption /\ Dev!DevAssumption /\ Sim!SimAssumption
  /\ Matrix!InputsAssumption

MCInit ==
  /\ program \in {"counter", "kqclient", "kqdir", "kqtimer", "echo_off", "testdev", "proplib", "test4", "matrixmul"}
  /\ Init /\ Client!Init /\ Dir!Init /\ Timer!Init /\ Echo!Init /\ Dev!Init /\ Prop!Init /\ Sim!Init
  /\ Matrix!Init
  /\ program # "echo_off" => named = Stdin /\ \A tty \in Ttys : echo[tty]
  /\ program # "proplib" => name = "testdev"
  /\ program # "matrixmul" => input.a.cols # input.b.rows /\ mat3[0][0] = 0

MCNext ==
  /\ \/ program = "counter" /\ Next
     \/ program = "kqclient" /\ Client!Next
     \/ program = "kqdir" /\ Dir!Next
     \/ program = "kqtimer" /\ Timer!Next
     \/ program = "echo_off" /\ Echo!Next
     \/ program = "testdev" /\ Dev!Next
     \/ program = "proplib" /\ Prop!Next
     \/ program = "test4" /\ Sim!Next
     \/ program = "matrixmul" /\ Matrix!Next
  /\ program # "counter"  => UNCHANGED vars
  /\ program # "kqclient" => UNCHANGED clientvars
  /\ program # "kqdir"    => UNCHANGED dirvars
  /\ program # "kqtimer"  => UNCHANGED timervars
  /\ program # "echo_off" => UNCHANGED echovars
  /\ program # "testdev"  => UNCHANGED devvars
  /\ program # "proplib"  => UNCHANGED propvars
  /\ program # "test4"    => UNCHANGED simvars
  /\ program # "matrixmul" => UNCHANGED mulvars
  /\ UNCHANGED program

all == <<vars, clientvars, dirvars, timervars, echovars, devvars, propvars, simvars, mulvars, program>>

\* The fairness of PthreadCounter, KqClient, KqDir and KqTimer, when they run.
MCFairSpec ==
  /\ MCInit /\ [][MCNext]_all
  /\ WF_vars(program = "counter" /\ Main)
  /\ \A thread \in Threads : WF_vars(program = "counter" /\ Thread(thread))
  /\ WF_clientvars(program = "kqclient" /\ Client!Client)
  /\ WF_dirvars(program = "kqdir" /\ Dir!Main) /\ SF_dirvars(Dir!Return)
  /\ WF_timervars(program = "kqtimer" /\ Timer!Expire)
  /\ WF_timervars(program = "kqtimer" /\ (Timer!Kevent \/ Timer!Fork))
  /\ WF_timervars(Timer!Child)

\* See KqClient.
InOrder    == Client!InOrder
Responsive == Client!Responsive

\* See KqDir.
OnlyGapsForgotten == Dir!OnlyGapsForgotten
NotedIsSaid       == Dir!NotedIsSaid

\* The counting threads end by themselves, the timer by running out of processes:
\* see PthreadCounter and KqTimer.
ProgramsEnd ==
  /\ program = "counter" => Terminates
  /\ program = "kqtimer" => Timer!EndsAtLimit

\* See EchoOff, MyDev, PropRefs and BlockSim.
EchoKept     == Echo!EchoKept
DeviceSound  == Dev!DeviceSound
RefsBalanced == Prop!RefsBalanced
FreedOnTime  == Sim!FreedOnTime

\* See MatrixMul.
MemorySafe    == Matrix!MemorySafe
PrintsProduct == Matrix!PrintsProduct
=============================================================================
