------------------------------ MODULE MCBuddy ------------------------------
(* Constants for model-checking Buddy. *)
EXTENDS MStat

MCPow2 == [k \in 0..MaxLog+1 |-> 2^k]

\* Client memory as a header: zeroes (test3.c clears each chunk it gets), the
\* content of fresh memory too.
MCZeroes == [avail |-> FALSE, right |-> FALSE, parent |-> FALSE, logsize |-> 0]

MCJunkZero == {MCZeroes}
=============================================================================
