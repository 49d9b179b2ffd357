------------------------------- MODULE MyDev -------------------------------
(***************************************************************************)
(* cdev/mydev.c, a pseudo-device that one process at a time may open, and  *)
(* processes that run cdev/testdev.c on it.  The handlers run under the    *)
(* kernel's lock (D_OTHER), except that uiomove may sleep between rounds   *)
(* of a read.  What the ioctl does with property lists is in PropRefs.     *)
(***************************************************************************)
EXTENDS Integers, Sequences, FiniteSets

CONSTANTS
  Procs,      \* processes that run testdev
  BufLen,     \* sizeof mybuffer
  Want        \* sizeof buffer in testdev

DevAssumption == {BufLen, Want} \subseteq Nat \ {0}

VARIABLES
  usage,      \* sc_usage
  where,      \* where[p]: "open", "ioctl", "list", "send", "read", "close", "exit", "done"
  isopen,     \* the processes with a descriptor of the device
  buffer      \* buffer[p]: the offsets in mybuffer of the bytes p has read

vars == <<usage, where, isopen, buffer>>

Init ==
  /\ usage = 0                       \* mydevattach
  /\ where = [p \in Procs |-> "open"]
  /\ isopen = {}
  /\ buffer = [p \in Procs |-> <<>>]

Goto(p, l) == where' = [where EXCEPT ![p] = l]

\* Mutation: the open that fails is counted.
OpenCounted(p) ==
  /\ where[p] = "open"
  /\ usage' = usage + 1
  /\ IF usage > 0
     THEN Goto(p, "done") /\ UNCHANGED isopen
     ELSE isopen' = isopen \cup {p} /\ Goto(p, "ioctl")
  /\ UNCHANGED buffer

\* mydevopen: EBUSY ends testdev.
Open(p) ==
  /\ where[p] = "open"
  /\ IF usage > 0
     THEN Goto(p, "done") /\ UNCHANGED <<usage, isopen>>
     ELSE usage' = usage + 1 /\ isopen' = isopen \cup {p} /\ Goto(p, "ioctl")
  /\ UNCHANGED buffer

\* MYDEVOLDIOCTL, the creation of the list and MYDEVSETPROPS, whose error
\* testdev does not look at.
Ioctl(p) ==
  /\ \/ where[p] = "ioctl" /\ (Goto(p, "list") \/ Goto(p, "close"))
     \/ where[p] = "list" /\ (Goto(p, "send") \/ Goto(p, "close"))
     \/ where[p] = "send" /\ Goto(p, "read")
  /\ UNCHANGED <<usage, isopen, buffer>>

Least(a, b) == IF a < b THEN a ELSE b
Resid(p) == Want - Len(buffer[p])

\* A round of mydevread: MIN(uio_resid, sizeof mybuffer) bytes from the start of
\* mybuffer.  uiomove may fail after a part of them; testdev then exits.
Read(p) ==
  /\ where[p] = "read"
  /\ LET nbytes == Least(Resid(p), BufLen)
     IN  \E n \in 0..nbytes :
           /\ buffer' = [buffer EXCEPT ![p] = @ \o [i \in 1..n |-> i - 1]]
           /\ IF n < nbytes THEN Goto(p, "exit")
              ELSE IF n = Resid(p) THEN Goto(p, "close")
              ELSE UNCHANGED where
  /\ UNCHANGED <<usage, isopen>>

\* close by testdev, or by the kernel as the process exits: mydevclose.
Close(p) ==
  /\ where[p] \in {"close", "exit"}
  /\ usage' = IF usage > 0 THEN usage - 1 ELSE usage
  /\ isopen' = isopen \ {p}
  /\ Goto(p, "done")
  /\ UNCHANGED buffer

\* testdev is run again.
Again(p) ==
  /\ where[p] = "done"
  /\ Goto(p, "open")
  /\ buffer' = [buffer EXCEPT ![p] = <<>>]
  /\ UNCHANGED <<usage, isopen>>

Next == \E p \in Procs : Open(p) \/ Ioctl(p) \/ Read(p) \/ Close(p) \/ Again(p)

Spec == Init /\ [][Next]_vars

-----------------------------------------------------------------------------

\* sc_usage counts the processes that have the device open, of which there is at
\* most one, through refused opens, failed ioctls and exits without close
\* (mydev.c:84-106, testdev.c:25-77); and a read of any length delivers mybuffer
\* over and over, never more than was asked for (mydev.c:120-124).
DeviceSound ==
  /\ usage = Cardinality(isopen) /\ usage <= 1
  /\ \A p \in Procs :
       /\ where[p] \notin {"open", "done"} <=> p \in isopen
       /\ Len(buffer[p]) <= Want
       /\ \A i \in 1..Len(buffer[p]) : buffer[p][i] = (i - 1) % BufLen
=============================================================================
