------------------------------ MODULE EchoOff ------------------------------
(***************************************************************************)
(* termios/echo_off.c: a program that reads a password from standard input *)
(* while echoing is off, and restores the terminal.                        *)
(*                                                                         *)
(* There may be two terminals, that of standard input and the one named on *)
(* the command line.  `fd = open(...) == -1' makes fd 0, standard input,   *)
(* whenever open succeeds.                                                 *)
(***************************************************************************)

CONSTANTS
  Ttys,     \* the terminals
  Stdin     \* that of standard input

EchoAssumption == Stdin \in Ttys

VARIABLES
  named,     \* the terminal named on the command line, which may be Stdin
  step,      \* the next call of main: "open", "get", "set", "read", "restore", "end"
  fd,        \* the terminal that fd means, Stdin once opened
  echo,      \* echo[t]: terminal t echoes what is typed
  saved,     \* oldt's ECHO
  cut        \* the program was killed, or could not restore the terminal

vars == <<named, step, fd, echo, saved, cut>>

\* Echoing may be off before the program starts.
Init ==
  /\ named \in Ttys
  /\ step = "open" /\ fd = named
  /\ echo \in [Ttys -> BOOLEAN]
  /\ saved = FALSE /\ cut = FALSE

\* open, or diep.
Open ==
  /\ step = "open"
  /\ \/ fd' = Stdin /\ step' = "get"
     \/ fd' = fd /\ step' = "end"
  /\ UNCHANGED <<named, echo, saved, cut>>

\* tcgetattr, or diep.
GetAttr ==
  /\ step = "get"
  /\ \/ saved' = echo[fd] /\ step' = "set"
     \/ saved' = saved /\ step' = "end"
  /\ UNCHANGED <<named, fd, echo, cut>>

\* tcsetattr with ECHO cleared, or diep.
SetAttr ==
  /\ step = "set"
  /\ \/ echo' = [echo EXCEPT ![fd] = FALSE] /\ step' = "read"
     \/ echo' = echo /\ step' = "end"
  /\ UNCHANGED <<named, fd, saved, cut>>

\* Mutation: a failure of fgets ends the program.
FgetsOrDie ==
  /\ step = "read"
  /\ step' \in {"restore", "end"}
  /\ UNCHANGED <<named, fd, echo, saved, cut>>

\* fgets, whose failure is not looked at.
Fgets ==
  /\ step = "read"
  /\ step' = "restore"
  /\ UNCHANGED <<named, fd, echo, saved, cut>>

\* tcsetattr with the old attributes, or diep.
Restore ==
  /\ step = "restore"
  /\ \/ echo' = [echo EXCEPT ![fd] = saved] /\ UNCHANGED cut
     \/ echo' = echo /\ cut' = TRUE
  /\ step' = "end"
  /\ UNCHANGED <<named, fd, saved>>

\* The user interrupts the program, at the prompt above all.
Interrupt ==
  /\ step # "end"
  /\ step' = "end" /\ cut' = TRUE
  /\ UNCHANGED <<named, fd, echo, saved>>

Next == Open \/ GetAttr \/ SetAttr \/ Fgets \/ Restore \/ Interrupt

Spec == Init /\ [][Next]_vars

\* The password is read from the terminal whose echo is off, whichever was named;
\* a terminal that is not the one of standard input is left alone; and the
\* program's end leaves every terminal as it was, unless it was interrupted or
\* could not restore it (echo_off.c:34-55).
EchoKept ==
  [][ /\ step' = "read" => ~echo'[Stdin]
      /\ named # Stdin => echo'[named] = echo[named]
      /\ step \in {"set", "restore"} /\ step' = "end" /\ ~cut' => echo'[fd] = saved
      /\ step = "read" => step' = "restore" \/ cut' ]_vars
=============================================================================
