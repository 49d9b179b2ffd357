------------------------------ MODULE PropRefs ------------------------------
(***************************************************************************)
(* Reference counts of property lists, in the programs of proplib/, in     *)
(* cdev/testdev.c and in the ioctl of cdev/mydev.c.  Each program is given *)
(* as the calls it makes, with what it releases if a call fails, after     *)
(* which it ends.  Loops are written out for two rounds.                   *)
(*                                                                         *)
(* proplib is external: a creation returns one reference; a container      *)
(* takes one more of what is put into it, and drops it when it is freed;   *)
(* what is got from a container stays the container's.                     *)
(***************************************************************************)
EXTENDS Integers, Sequences, SequencesExt

\* Calls: create an object; put it into a container; use it; release it.
\* undo lists what is released, in order, if the call fails; Sure calls do not.
Sure == <<"cannot fail">>
New(o, undo)    == [call |-> "create", obj |-> o, into |-> o, undo |-> undo]
Put(c, o, undo) == [call |-> "put", obj |-> o, into |-> c, undo |-> undo]
Use(o, undo)    == [call |-> "use", obj |-> o, into |-> o, undo |-> undo]
Drop(o)         == [call |-> "release", obj |-> o, into |-> o, undo |-> Sure]

\* A round of the loop of prop_dict and prop_write_array.
Added(c, s, undo) == <<New(s, <<c>>), Put(c, s, undo), Drop(s)>>

prop_dict ==
  <<New("pd", <<>>)>> \o Added("pd", "s1", <<"s1", "pd">>) \o Added("pd", "s2", <<"s2", "pd">>)
  \o <<Use("pd", <<"pd">>), Drop("pd")>>

\* Mutation: the string is released before it is added.
prop_write_array_early ==
  <<New("pa", <<>>), New("s1", <<"pa">>), Drop("s1"), Put("pa", "s1", <<"pa", "s1">>),
    Use("pa", <<"pa">>), Drop("pa")>>

prop_write_array ==
  <<New("pa", <<>>)>> \o Added("pa", "s1", <<"pa", "s1">>) \o Added("pa", "s2", <<"pa", "s2">>)
  \o <<Use("pa", <<"pa">>), Drop("pa")>>

\* The array comes with its strings; the iterator holds the array.
prop_read_array ==
  <<New("pa", <<>>), New("s1", Sure), Put("pa", "s1", Sure), Drop("s1"),
    Use("s1", <<"pa">>), New("pit", <<"pa">>), Put("pit", "pa", Sure), Use("s1", Sure),
    Drop("pa"), Drop("pit")>>

\* A line of du's output.  Errors end the program without any release.
Line(pcd, pn, ps, pb) ==
  <<New(pcd, <<>>), New(pn, <<>>), New(ps, <<>>), New(pb, <<>>),
    Put(pcd, ps, <<>>), Put(pcd, pn, <<>>), Put(pcd, pb, <<>>), Put("prd", pcd, <<>>),
    Drop(pn), Drop(ps), Drop(pb), Drop(pcd)>>

prop_parse_du ==
  <<New("prd", <<>>)>> \o Line("d1", "n1", "p1", "b1") \o Line("d2", "n2", "p2", "b2")
  \o <<Use("prd", <<>>), Use("d1", <<>>), Use("p1", Sure), Use("n1", Sure), Use("b1", Sure), Drop("prd")>>

testdev ==
  <<New("pd", <<>>), New("ps", <<"pd">>), Put("pd", "ps", <<"ps", "pd">>), Drop("ps"),
    Use("pd", Sure), Drop("pd")>>

\* MYDEVSETPROPS: the dictionary copied in holds a string, which is got and
\* released like one of the driver's own.
mydevioctl ==
  <<New("dict", <<>>), New("po", Sure), Put("dict", "po", Sure), Drop("po"),
    Use("po", <<"dict">>), Use("po", <<"po", "dict">>), Drop("po"), Drop("dict")>>

Programs ==
  [prop_dict |-> prop_dict, prop_write_array |-> prop_write_array,
   prop_read_array |-> prop_read_array, prop_parse_du |-> prop_parse_du,
   testdev |-> testdev, mydevioctl |-> mydevioctl]

Objects == {"pd", "pa", "pit", "s1", "s2", "prd", "d1", "n1", "p1", "b1", "d2", "n2", "p2", "b2",
            "ps", "dict", "po"}

VARIABLES
  name,      \* the program
  left,      \* the calls it has still to make; after an error, releases only
  refs,      \* refs[o]: references to object o
  inside,    \* inside[c]: what container c holds
  erred,     \* a call failed
  wrong      \* objects released or used when there was no reference left

vars == <<name, left, refs, inside, erred, wrong>>

Init ==
  /\ name \in DOMAIN Programs
  /\ left = Programs[name]
  /\ refs = [o \in Objects |-> 0]
  /\ inside = [o \in Objects |-> {}]
  /\ erred = FALSE /\ wrong = {}

-----------------------------------------------------------------------------

\* References after one to o is dropped; what o holds goes with the last one.
\* Containers are at most three deep.
Dropped(r, o) ==
  LET gone(q) == IF q[o] = 0 THEN {o} ELSE {}
      less(q, S) == [x \in Objects |-> IF x \in S THEN q[x] - 1 ELSE q[x]]
      r1 == less(r, {o})
      in1 == IF r1[o] = 0 THEN inside[o] ELSE {}
      r2 == less(r1, in1)
      in2 == UNION {inside[x] : x \in {y \in in1 : r2[y] = 0}}
      r3 == less(r2, in2)
      in3 == UNION {inside[x] : x \in {y \in in2 : r3[y] = 0}}
  IN  less(r3, in3)

Succeed ==
  /\ left # <<>>
  /\ LET c == Head(left)
     IN  /\ CASE c.call = "create" -> refs' = [refs EXCEPT ![c.obj] = 1]
              [] c.call = "put" -> refs' = [refs EXCEPT ![c.obj] = @ + 1]
              [] c.call = "release" -> refs' = Dropped(refs, c.obj)
              [] OTHER -> UNCHANGED refs
         /\ inside' = IF c.call = "put" THEN [inside EXCEPT ![c.into] = @ \cup {c.obj}] ELSE inside
         /\ wrong' = wrong \cup {o \in Objects : refs'[o] < 0}
                     \cup IF c.call # "create" /\ (refs[c.obj] < 1 \/ refs[c.into] < 1)
                          THEN {c.obj} ELSE {}
  /\ left' = Tail(left)
  /\ UNCHANGED <<name, erred>>

Fail ==
  /\ left # <<>> /\ Head(left).undo # Sure
  /\ left' = [i \in 1..Len(Head(left).undo) |-> Drop(Head(left).undo[i])]
  /\ erred' = TRUE
  /\ UNCHANGED <<name, refs, inside, wrong>>

Next == Succeed \/ Fail

Spec == Init /\ [][Next]_vars

-----------------------------------------------------------------------------

\* No program uses or releases what it has no reference for, but the ioctl, which
\* releases the string it got from the dictionary; and each program ends with
\* nothing left, also after an error, but prop_parse_du, which exits on errors
\* (mydev.c:164-184, testdev.c:40-65, prop_parse_du.c:78-148).
RefsBalanced ==
  /\ wrong # {} => name = "mydevioctl" /\ wrong = {"po"}
  /\ left = <<>> /\ wrong = {} =>
       (name = "prop_parse_du" /\ erred) \/ \A o \in Objects : refs[o] = 0
=============================================================================
