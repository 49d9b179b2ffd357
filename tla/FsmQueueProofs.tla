--------------------------- MODULE FsmQueueProofs ---------------------------
(***************************************************************************)
(* The event queues of fsm/fsm.c, for any number of threads, priorities    *)
(* and events: where a thread that dequeues has the queues for itself, as  *)
(* in every test but test_thread.c, or no thread dequeues and the mutex is *)
(* all there is, the linked lists are never broken, no event is lost, a    *)
(* count is exact, every call has only so many steps, and the lists        *)
(* implement EventQueues.  The mutex excludes in any case.                 *)
(*                                                                         *)
(* The invariant speaks of sequences qs, one for each priority, which the  *)
(* lists represent; a step changes them where it links or unlinks.         *)
(***************************************************************************)
EXTENDS FsmQueue, Numbers, FunctionTheorems, FiniteSetTheorems, TLAPS

\* Who dequeues, which takes no mutex, is alone; otherwise events can be lost (the
\* run queue_race).  Any number of threads may queue and count where none dequeues.
Unshared == \A s \in Servers : Queuers \cup Servers \cup Counters \subseteq {s}

\* The i-th event of a sequence, or the null pointer.
At(s, i) == IF i \in 1..Len(s) THEN s[i] ELSE Null

Elements(s) == {s[i] : i \in 1..Len(s)}

\* The list that starts at c and is linked by nx has the events of s, each once.
Chain(nx, c, s) ==
  /\ \A i, j \in 1..Len(s) : s[i] = s[j] => i = j
  /\ c = At(s, 1)
  /\ \A i \in 1..Len(s) : nx[s[i]] = At(s, i + 1)

Lists(qs) ==
  /\ \A q \in Prios : Chain(next, first[q], qs[q])
  /\ \A p, q \in Prios : p # q => Elements(qs[p]) \cap Elements(qs[q]) = {}
  /\ \A t \in Threads : pc[t] = "link" => next[new[t]] = Null

\* stqh_last is that of the last event but between the assignments of a macro.
Ends(qs) ==
  /\ \A q \in Prios :
       \/ last[q] = At(qs[q], Len(qs[q]))
       \/ \E t \in Threads : pc[t] = "tail" /\ prio[t] = q
       \/ \E t \in Threads : pc[t] = "retail" /\ queue[t] = q
  /\ \A t \in Threads :
       /\ pc[t] = "tail" => /\ qs[prio[t]] # <<>>
                            /\ new[t] = At(qs[prio[t]], Len(qs[prio[t]]))
                            /\ last[prio[t]] = At(qs[prio[t]], Len(qs[prio[t]]) - 1)
       /\ pc[t] = "retail" => qs[queue[t]] = <<>> /\ last[queue[t]] = item[t]

\* An event that is not linked yet, or not any longer.
Entering(t, c) == pc[t] \in {"lock", "end", "link"} /\ new[t] = c
Leaving(t, c)  == pc[t] \in {"retail", "free"} /\ item[t] = c

\* The memory in use is that of the events in the queues and of those that are
\* on their way in or out, and no two threads have the same one in their hands.
Memory(qs) ==
  /\ \A c \in used :
       \/ \E q \in Prios : c \in Elements(qs[q])
       \/ \E t \in Threads : Entering(t, c) \/ Leaving(t, c)
  /\ \A q \in Prios : Elements(qs[q]) \subseteq used
  /\ \A t \in Threads, c \in Chunks \cup {Null} :
       Entering(t, c) \/ Leaving(t, c) =>
         /\ c \in used
         /\ \A q \in Prios : c \notin Elements(qs[q])
         /\ \A u \in Threads \ {t} : ~Entering(u, c) /\ ~Leaving(u, c)

Holders ==
  \A t \in Threads :
    pc[t] \in {"end", "link", "tail", "unlock", "count", "counted"} => owner = t

\* Which threads are where.
Roles ==
  \A t \in Threads :
    /\ pc[t] \in {"lock", "end", "link", "tail", "unlock"} => t \in Queuers
    /\ pc[t] \in {"count", "counted"} => t \in Counters
    /\ \/ pc[t] \in {"scan", "process", "action", "delete", "unlink", "retail", "free"}
       \/ InService(t)
       => t \in Servers
    /\ pc[t] # "crashed"

\* What a thread that dequeues has seen is still so.
Service(qs) ==
  \A t \in Threads :
    /\ InService(t) => qs[queue[t]] # <<>> /\ item[t] = qs[queue[t]][1]
    /\ pc[t] = "scan" => \A q \in Prios : q > queue[t] => qs[q] = <<>>

\* The events in queues below p and the first k of queue p, and all events.
Seen(qs, p, k) ==
  {c \in Chunks : \/ \E q \in Prios : q < p /\ c \in Elements(qs[q])
                  \/ \E i \in 1..k : c = qs[p][i]}

Queued(qs) == {c \in Chunks : \E q \in Prios : c \in Elements(qs[q])}

Counting(qs) ==
  \A t \in Threads :
    /\ pc[t] = "count" =>
         \E k \in 0..Len(qs[queue[t]]) :
           /\ item[t] = At(qs[queue[t]], k + 1)
           /\ total[t] = Cardinality(Seen(qs, queue[t], k))
    /\ pc[t] = "counted" => total[t] = Cardinality(Queued(qs))

Good(qs) ==
  /\ qs \in [Prios -> Seq(Chunks)]
  /\ Lists(qs) /\ Ends(qs) /\ Memory(qs) /\ Holders /\ Roles /\ Service(qs) /\ Counting(qs)

Inv == TypeOK /\ \E qs \in [Prios -> Seq(Chunks)] : Good(qs)

-----------------------------------------------------------------------------
(* Walking a list. *)

\* No list has more events than there is memory for.
LEMMA ChainShort ==
  ASSUME NEW nx, NEW c, NEW s \in Seq(Chunks), Chain(nx, c, s)
  PROVE  Len(s) <= Cardinality(Chunks) /\ Cardinality(Chunks) \in Nat
<1>1. s \in [1..Len(s) -> Chunks]
  OBVIOUS
<1>2. s \in Injection(1..Len(s), Chunks)
  BY <1>1, Fun_IsInj DEF Chain
<1>3. Cardinality(1..Len(s)) <= Cardinality(Chunks)
  <2>1. IsFiniteSet(Chunks)
    BY QueueAssumption
  <2> QED BY <1>2, <2>1, FS_Injection, Zenon
<1> QED BY <1>3, FS_Interval, FS_CardinalityType, QueueAssumption

\* Following the links of a list leads through its events to the null pointer.
LEMMA ChainSteps ==
  ASSUME NEW nx, NEW c, NEW s \in Seq(Chunks), Chain(nx, c, s)
  PROVE  Steps(nx, c) = [n \in 0..Cardinality(Chunks) |-> At(s, n + 1)]
<1> DEFINE N == 0..Cardinality(Chunks)
           f(g) == [n \in N |-> IF n = 0 THEN c
                                ELSE IF g[n - 1] = Null THEN Null ELSE nx[g[n - 1]]]
           w == [n \in N |-> At(s, n + 1)]
<1>1. Cardinality(Chunks) \in Nat
  BY ChainShort
<1>2. ASSUME NEW n \in N, n # 0
      PROVE  n - 1 \in N /\ w[n] = IF w[n - 1] = Null THEN Null ELSE nx[w[n - 1]]
  <2>1. n - 1 \in N /\ w[n - 1] = At(s, n) /\ w[n] = At(s, n + 1)
    BY <1>1, <1>2
  <2>2. CASE n <= Len(s)
    <3>1. n \in 1..Len(s) /\ At(s, n) = s[n] /\ s[n] \in Chunks
      BY <1>1, <1>2, <2>2 DEF At
    <3> QED BY <2>1, <3>1, QueueAssumption DEF Chain
  <2>3. CASE n > Len(s)
    BY <1>1, <1>2, <2>1, <2>3 DEF At
  <2> QED BY <1>1, <1>2, <2>2, <2>3
<1>3. w = f(w)
  <2>1. w[0] = c
    BY <1>1 DEF Chain
  <2> QED BY <1>2, <2>1
<1>4. ASSUME NEW g, g = f(g) PROVE g = w
  <2> DEFINE L == {n \in N : g[n] # w[n]}
  <2>1. SUFFICES ASSUME L # {} PROVE FALSE
    BY <1>4
  <2>2. PICK n \in L : \A i \in L : n <= i
    <3>1. L \subseteq Nat
      BY <1>1
    <3> HIDE DEF L
    <3> QED BY <2>1, <3>1, Least
  <2>3. n \in N /\ n # 0
    BY <1>1, <1>4, <1>3
  <2>4. n - 1 \in N /\ g[n - 1] = w[n - 1]
    BY <1>1, <2>2, <2>3
  <2>5. g[n] = IF g[n - 1] = Null THEN Null ELSE nx[g[n - 1]]
    BY <1>4, <2>3
  <2> QED BY <1>2, <2>2, <2>3, <2>4, <2>5
<1>5. Steps(nx, c) = CHOOSE g : g = f(g)
  BY DEF Steps
<1>6. (CHOOSE g : g = f(g)) = f(CHOOSE g : g = f(g))
  <2> HIDE DEF f, w
  <2> QED BY <1>3
<1> QED BY <1>4, <1>5, <1>6

\* Walk and Linked give the events of a list.
LEMMA WalkIs ==
  ASSUME NEW q \in Prios, NEW s \in Seq(Chunks), Chain(next, first[q], s)
  PROVE  Walk(first[q]) = s /\ Linked(q) = Elements(s)
<1> DEFINE N == 0..Cardinality(Chunks)
           at == Steps(next, first[q])
           length == CHOOSE n \in N : at[n] = Null /\ \A m \in 0..(n - 1) : at[m] # Null
<1>1. Cardinality(Chunks) \in Nat /\ Len(s) \in N
  <2>1. Len(s) <= Cardinality(Chunks) /\ Cardinality(Chunks) \in Nat
    BY ChainShort
  <2>2. Len(s) \in Nat
    OBVIOUS
  <2> HIDE DEF Chain
  <2> QED BY <2>1, <2>2
<1>2. \A n \in N : at[n] = At(s, n + 1)
  <2>1. Steps(next, first[q]) = [n \in 0..Cardinality(Chunks) |-> At(s, n + 1)]
    BY ChainSteps, Zenon
  <2> QED BY <2>1, Zenon
<1>3. \A n \in N : at[n] = Null <=> n >= Len(s)
  BY <1>1, <1>2, QueueAssumption DEF At
<1>4. length = Len(s)
  <2>1. at[Len(s)] = Null /\ \A m \in 0..(Len(s) - 1) : at[m] # Null
    BY <1>1, <1>3
  <2>2. ASSUME NEW n \in N, at[n] = Null, \A m \in 0..(n - 1) : at[m] # Null
        PROVE  n = Len(s)
    BY <1>1, <1>3, <2>2
  <2> HIDE DEF at, N
  <2> QED BY <1>1, <2>1, <2>2
<1>5. Walk(first[q]) = [n \in 1..Len(s) |-> at[n - 1]]
  BY <1>4 DEF Walk
<1>6. [n \in 1..Len(s) |-> at[n - 1]] = s
  BY <1>1, <1>2 DEF At
<1>7. Linked(q) = {at[n] : n \in N} \ {Null}
  BY DEF Linked
<1>8. {at[n] : n \in N} \ {Null} = Elements(s)
  <2> HIDE DEF at
  <2>1. \A n \in N : at[n] # Null => at[n] \in Elements(s)
    BY <1>1, <1>2, <1>3 DEF At, Elements
  <2>2. \A i \in 1..Len(s) : i - 1 \in N /\ s[i] = at[i - 1] /\ s[i] # Null
    BY <1>1, <1>2, <1>3 DEF At
  <2> QED BY <2>1, <2>2 DEF Elements
<1> QED BY <1>5, <1>6, <1>7, <1>8

-----------------------------------------------------------------------------
(* Steps that leave the queues as they are. *)

\* A thread stays where it is, with its locals.
Stays(t) ==
  /\ pc'[t] = pc[t] /\ new'[t] = new[t] /\ prio'[t] = prio[t] /\ back'[t] = back[t]
  /\ queue'[t] = queue[t] /\ item'[t] = item[t] /\ total'[t] = total[t]

StepOf(t) == QueueCall(t) \/ DequeueCall(t) \/ CountCall(t) \/ Step(t)

\* What a step that changes nothing of Ends but a thread's place leaves so.
LEMMA EndsKeep ==
  ASSUME NEW qs, Ends(qs), last' = last,
         \A u \in Threads :
           /\ pc'[u] = "tail" <=> pc[u] = "tail"
           /\ pc'[u] = "retail" <=> pc[u] = "retail"
           /\ pc[u] \in {"tail", "retail"} => Stays(u)
  PROVE  Ends(qs)'
<1> USE DEF Stays
<1>1. ASSUME NEW q \in Prios
      PROVE  \/ last'[q] = At(qs[q], Len(qs[q]))
             \/ \E u \in Threads : pc'[u] = "tail" /\ prio'[u] = q
             \/ \E u \in Threads : pc'[u] = "retail" /\ queue'[u] = q
  <2>1. \/ last[q] = At(qs[q], Len(qs[q]))
        \/ \E u \in Threads : pc[u] = "tail" /\ prio[u] = q
        \/ \E u \in Threads : pc[u] = "retail" /\ queue[u] = q
    BY DEF Ends
  <2>2. ASSUME NEW u \in Threads, pc[u] = "tail", prio[u] = q
        PROVE  \E v \in Threads : pc'[v] = "tail" /\ prio'[v] = q
    BY <2>2
  <2>3. ASSUME NEW u \in Threads, pc[u] = "retail", queue[u] = q
        PROVE  \E v \in Threads : pc'[v] = "retail" /\ queue'[v] = q
    BY <2>3
  <2> QED BY <2>1, <2>2, <2>3
<1>2. ASSUME NEW u \in Threads, pc'[u] = "tail"
      PROVE  /\ qs[prio'[u]] # <<>>
             /\ new'[u] = At(qs[prio'[u]], Len(qs[prio'[u]]))
             /\ last'[prio'[u]] = At(qs[prio'[u]], Len(qs[prio'[u]]) - 1)
  BY <1>2 DEF Ends
<1>3. ASSUME NEW u \in Threads, pc'[u] = "retail"
      PROVE  qs[queue'[u]] = <<>> /\ last'[queue'[u]] = item'[u]
  BY <1>3 DEF Ends
<1> QED BY <1>1, <1>2, <1>3 DEF Ends

\* The memory stays in the same hands.
LEMMA MemoryKeeps ==
  ASSUME TypeOK, NEW qs, Memory(qs), used' = used,
         \A u \in Threads, c \in Chunks \cup {Null} :
           /\ Entering(u, c)' <=> Entering(u, c)
           /\ Leaving(u, c)' <=> Leaving(u, c)
  PROVE  Memory(qs)'
<1>1. ASSUME NEW c \in used
      PROVE  \/ \E q \in Prios : c \in Elements(qs[q])
             \/ \E u \in Threads : Entering(u, c)' \/ Leaving(u, c)'
  BY DEF Memory, TypeOK
<1>2. ASSUME NEW u \in Threads, NEW c \in Chunks \cup {Null}, Entering(u, c)' \/ Leaving(u, c)'
      PROVE  /\ c \in used
             /\ \A q \in Prios : c \notin Elements(qs[q])
             /\ \A v \in Threads \ {u} : ~Entering(v, c)' /\ ~Leaving(v, c)'
  BY <1>2 DEF Memory
<1> QED BY <1>1, <1>2 DEF Memory

\* Beside a thread that dequeues or holds the mutex all others wait.
LEMMA OthersWait ==
  ASSUME TypeOK, Unshared, Holders, Roles, NEW t \in Threads,
         \/ t \in Servers
         \/ pc[t] \in {"end", "link", "tail", "unlock", "count", "counted"},
         NEW u \in Threads \ {t}
  PROVE  pc[u] \in {"idle", "lock"} /\ ~InService(u)
<1>1. t \in Servers \/ owner = t
  BY DEF Holders
<1>2. t \in Queuers \cup Servers \cup Counters
  BY DEF Roles
<1>3. u \notin Servers
  BY <1>2 DEF Unshared
<1>4. ~InService(u)
  BY <1>3 DEF Roles
<1>5. pc[u] \notin {"scan", "process", "action", "delete", "unlink", "retail", "free", "crashed"}
  BY <1>3 DEF Roles
<1>6. pc[u] \notin {"end", "link", "tail", "unlock", "count", "counted"}
  <2>1. CASE t \in Servers
    BY <2>1 DEF Unshared, Roles
  <2>2. CASE t \notin Servers
    BY <1>1, <2>2 DEF Holders
  <2> QED BY <2>1, <2>2
<1> QED BY <1>4, <1>5, <1>6 DEF TypeOK

\* fsm_queue_event up to the mutex.
LEMMA QueueCallGood ==
  ASSUME TypeOK, NEW qs \in [Prios -> Seq(Chunks)], Good(qs), Unshared,
         NEW t \in Threads, QueueCall(t)
  PROVE  TypeOK' /\ Good(qs)'
<1>0. /\ pc[t] \in {"idle", "action"} /\ pc'[t] = "lock" /\ new'[t] \in Chunks \ used
      /\ prio'[t] \in Prios /\ back'[t] = pc[t] /\ UNCHANGED <<queue, item, total>>
      /\ used' = used \cup {new'[t]} /\ UNCHANGED lists /\ UNCHANGED owner
      /\ t \in Queuers
      /\ \A u \in Threads \ {t} : Stays(u)
  BY DEF QueueCall, Goto, lists, scan, TypeOK, Stays
<1>1. TypeOK'
  BY DEF QueueCall, Goto, lists, scan, TypeOK
<1> USE <1>0 DEF Good, lists, Stays
<1>2. Lists(qs)'
  BY DEF Lists
<1>3. Ends(qs)'
  BY EndsKeep
<1>4. Memory(qs)'
  <2>1. \A u \in Threads, c \in Chunks \cup {Null} :
          /\ Entering(u, c)' <=> Entering(u, c) \/ (u = t /\ c = new'[t])
          /\ Leaving(u, c)' <=> Leaving(u, c)
    BY DEF Entering, Leaving
  <2>2. /\ \A q \in Prios : new'[t] \notin Elements(qs[q])
        /\ \A u \in Threads : ~Entering(u, new'[t]) /\ ~Leaving(u, new'[t])
        /\ \A c \in Chunks : ~Entering(t, c) /\ ~Leaving(t, c)
    BY DEF Memory, Entering, Leaving
  <2>3. ASSUME NEW c \in used'
        PROVE  \/ \E q \in Prios : c \in Elements(qs[q])
               \/ \E u \in Threads : Entering(u, c)' \/ Leaving(u, c)'
    <3>1. CASE c = new'[t]
      BY <2>1, <3>1
    <3>2. CASE c \in used
      BY <2>1, <3>2 DEF Memory, TypeOK
    <3> QED BY <3>1, <3>2
  <2>4. ASSUME NEW u \in Threads, NEW c \in Chunks \cup {Null}, Entering(u, c)' \/ Leaving(u, c)'
        PROVE  /\ c \in used'
               /\ \A q \in Prios : c \notin Elements(qs[q])
               /\ \A v \in Threads \ {u} : ~Entering(v, c)' /\ ~Leaving(v, c)'
    BY <2>1, <2>2, <2>4 DEF Memory
  <2> QED BY <2>3, <2>4 DEF Memory
<1>5. Holders' /\ Roles'
  BY DEF Holders, Roles, InService
<1>6. Service(qs)'
  BY DEF Service, InService
<1>7. Counting(qs)'
  BY DEF Counting
<1> QED BY <1>1, <1>2, <1>3, <1>4, <1>5, <1>6, <1>7

\* The mutex is free, so no other thread is between its lock and its unlock.
LEMMA QueueLockGood ==
  ASSUME TypeOK, NEW qs \in [Prios -> Seq(Chunks)], Good(qs), Unshared,
         NEW t \in Threads, QueueLock(t)
  PROVE  TypeOK' /\ Good(qs)'
<1>0. /\ pc[t] = "lock" /\ pc'[t] = "end" /\ owner = Null /\ owner' = t
      /\ UNCHANGED <<lists, used, insert, scan>>
      /\ \A u \in Threads \ {t} : Stays(u)
  BY DEF QueueLock, Goto, insert, scan, TypeOK, Stays
<1>1. TypeOK'
  BY DEF QueueLock, Goto, lists, insert, scan, TypeOK
<1> USE <1>0 DEF Good, lists, insert, scan, Stays
<1>2. Lists(qs)'
  BY DEF Lists
<1>3. Ends(qs)'
  BY EndsKeep
<1>4. Memory(qs)'
  <2>1. \A u \in Threads, c \in Chunks \cup {Null} :
          (Entering(u, c)' <=> Entering(u, c)) /\ (Leaving(u, c)' <=> Leaving(u, c))
    BY DEF Entering, Leaving
  <2> QED BY <2>1, MemoryKeeps
<1>5. Holders'
  BY QueueAssumption DEF Holders
<1>6. Roles'
  BY DEF Roles, InService
<1>7. Service(qs)'
  BY DEF Service, InService
<1>8. Counting(qs)'
  BY DEF Counting
<1> QED BY <1>1, <1>2, <1>3, <1>4, <1>5, <1>6, <1>7, <1>8

\* The thread that held the mutex is done with the list (fsm.c:187).
LEMMA QueueUnlockGood ==
  ASSUME TypeOK, NEW qs \in [Prios -> Seq(Chunks)], Good(qs), Unshared,
         NEW t \in Threads, QueueUnlock(t)
  PROVE  TypeOK' /\ Good(qs)'
<1>0. /\ pc[t] = "unlock" /\ pc'[t] = back[t] /\ back[t] \in {"idle", "action"} /\ owner' = Null
      /\ UNCHANGED <<lists, used, insert, scan>>
      /\ \A u \in Threads \ {t} : Stays(u)
  BY DEF QueueUnlock, Goto, insert, scan, TypeOK, Stays
<1>1. TypeOK'
  BY DEF QueueUnlock, Goto, lists, insert, scan, TypeOK
<1> USE <1>0 DEF Good, lists, insert, scan, Stays
<1>2. Lists(qs)'
  BY DEF Lists
<1>3. Ends(qs)'
  BY EndsKeep
<1>4. Memory(qs)'
  <2>1. \A u \in Threads, c \in Chunks \cup {Null} :
          (Entering(u, c)' <=> Entering(u, c)) /\ (Leaving(u, c)' <=> Leaving(u, c))
    BY DEF Entering, Leaving
  <2> QED BY <2>1, MemoryKeeps
<1>5. Holders'
  <2>1. \A u \in Threads \ {t} : pc[u] \in {"idle", "lock"}
    BY OthersWait
  <2> QED BY <2>1 DEF Holders
<1>6. Roles'
  BY DEF Roles, InService
<1>7. Service(qs)'
  BY DEF Service, InService
<1>8. Counting(qs)'
  BY DEF Counting
<1> QED BY <1>1, <1>2, <1>3, <1>4, <1>5, <1>6, <1>7, <1>8

\* Of the links, only that of an event in no queue changes.
LEMMA InsertEndGood ==
  ASSUME TypeOK, NEW qs \in [Prios -> Seq(Chunks)], Good(qs), Unshared,
         NEW t \in Threads, InsertEnd(t)
  PROVE  TypeOK' /\ Good(qs)'
<1>0. /\ pc[t] = "end" /\ pc'[t] = "link" /\ next' = [next EXCEPT ![new[t]] = Null]
      /\ UNCHANGED <<first, last, used, owner, insert, scan>>
      /\ \A u \in Threads \ {t} : Stays(u)
  BY DEF InsertEnd, Goto, insert, scan, TypeOK, Stays
<1>1. TypeOK'
  BY DEF InsertEnd, Goto, insert, scan, TypeOK
<1> USE <1>0 DEF Good, insert, scan, Stays
<1>9. new[t] \in Chunks /\ \A q \in Prios : new[t] \notin Elements(qs[q])
  BY DEF Memory, Entering, TypeOK
<1>2. Lists(qs)'
  <2>1. ASSUME NEW q \in Prios PROVE Chain(next', first'[q], qs[q])
    <3>1. \A i \in 1..Len(qs[q]) : qs[q][i] # new[t] /\ qs[q][i] \in Chunks
      BY <1>9 DEF Elements
    <3> QED BY <3>1 DEF Chain, Lists, TypeOK
  <2>2. ASSUME NEW u \in Threads, pc'[u] = "link" PROVE next'[new'[u]] = Null
    <3>1. u = t
      BY <2>2, OthersWait
    <3> QED BY <3>1, <1>9 DEF TypeOK
  <2> QED BY <2>1, <2>2 DEF Lists
<1>3. Ends(qs)'
  BY EndsKeep
<1>4. Memory(qs)'
  <2>1. \A u \in Threads, c \in Chunks \cup {Null} :
          (Entering(u, c)' <=> Entering(u, c)) /\ (Leaving(u, c)' <=> Leaving(u, c))
    BY DEF Entering, Leaving
  <2> QED BY <2>1, MemoryKeeps
<1>5. Holders'
  BY DEF Holders
<1>6. Roles'
  BY DEF Roles, InService
<1>7. Service(qs)'
  BY DEF Service, InService
<1>8. Counting(qs)'
  BY DEF Counting
<1> QED BY <1>1, <1>2, <1>3, <1>4, <1>5, <1>6, <1>7, <1>8

\* fsm_dequeue_event: the scan has all queues before it.
LEMMA DequeueCallGood ==
  ASSUME TypeOK, NEW qs \in [Prios -> Seq(Chunks)], Good(qs), Unshared,
         NEW t \in Threads, DequeueCall(t)
  PROVE  TypeOK' /\ Good(qs)'
<1>0. /\ t \in Servers /\ pc[t] = "idle" /\ pc'[t] = "scan" /\ queue'[t] = NQueues - 1
      /\ item'[t] = item[t]
      /\ UNCHANGED <<lists, used, owner, insert, total>>
      /\ \A u \in Threads \ {t} : Stays(u)
  <2>1. DOMAIN pc = Threads /\ DOMAIN queue = Threads
    BY DEF TypeOK
  <2>2. queue' = [queue EXCEPT ![t] = NQueues - 1] /\ pc' = [pc EXCEPT ![t] = "scan"]
    BY DEF DequeueCall, Goto
  <2>3. pc'[t] = "scan" /\ queue'[t] = NQueues - 1
    BY <2>1, <2>2
  <2>4. \A u \in Threads \ {t} : pc'[u] = pc[u] /\ queue'[u] = queue[u]
    BY <2>1, <2>2
  <2> QED BY <2>3, <2>4 DEF DequeueCall, lists, insert, Stays
<1>1. TypeOK'
  <2>1. NQueues - 1 \in Prios
    BY QueueAssumption DEF Prios
  <2>2. queue' \in [Threads -> Prios]
    BY <2>1 DEF DequeueCall, TypeOK
  <2> QED BY <2>2 DEF DequeueCall, Goto, lists, insert, TypeOK
<1> USE <1>0 DEF Good, lists, insert, Stays
<1>2. Lists(qs)'
  BY DEF Lists
<1>3. Ends(qs)'
  BY EndsKeep
<1>4. Memory(qs)'
  <2>1. \A u \in Threads, c \in Chunks \cup {Null} :
          (Entering(u, c)' <=> Entering(u, c)) /\ (Leaving(u, c)' <=> Leaving(u, c))
    BY DEF Entering, Leaving
  <2> QED BY <2>1, MemoryKeeps
<1>5. Holders'
  BY DEF Holders
<1>6. Roles'
  BY DEF Roles, InService
<1>7. Service(qs)'
  <2>1. \A q \in Prios : ~(q > queue'[t])
    BY QueueAssumption DEF Prios
  <2> QED BY <2>1 DEF Service, InService
<1>8. Counting(qs)'
  BY DEF Counting
<1> QED BY <1>1, <1>2, <1>3, <1>4, <1>5, <1>6, <1>7, <1>8

\* The event found is the first of the highest queue that has one.
LEMMA ScanGood ==
  ASSUME TypeOK, NEW qs \in [Prios -> Seq(Chunks)], Good(qs), Unshared,
         NEW t \in Threads, Scan(t)
  PROVE  TypeOK' /\ Good(qs)'
<1>0. /\ pc[t] = "scan" /\ t \in Servers /\ queue[t] \in Prios
      /\ \/ /\ first[queue[t]] # Null /\ item'[t] = first[queue[t]]
            /\ pc'[t] = "process" /\ queue'[t] = queue[t]
         \/ /\ first[queue[t]] = Null /\ item'[t] = item[t] /\ queue[t] # 0
            /\ pc'[t] = "scan" /\ queue'[t] = queue[t] - 1
         \/ /\ first[queue[t]] = Null /\ item'[t] = item[t] /\ queue[t] = 0
            /\ pc'[t] = "idle" /\ queue'[t] = queue[t]
      /\ UNCHANGED <<lists, used, owner, insert, total>>
      /\ \A u \in Threads \ {t} : Stays(u)
  <2>1. pc[t] = "scan" /\ t \in Servers
    BY DEF Scan, Good, Roles
  <2>2. DOMAIN pc = Threads /\ DOMAIN queue = Threads /\ DOMAIN item = Threads /\ queue[t] \in Prios
    BY DEF TypeOK
  <2>3. UNCHANGED <<lists, used, owner, insert, total>>
    BY DEF Scan
  <2>4. CASE first[queue[t]] # Null
    BY <2>1, <2>2, <2>3, <2>4 DEF Scan, Goto, lists, insert, Stays
  <2>5. CASE first[queue[t]] = Null /\ queue[t] # 0
    <3>1. queue' = [queue EXCEPT ![t] = queue[t] - 1] /\ UNCHANGED <<pc, item>>
      BY <2>5 DEF Scan
    <3>2. queue'[t] = queue[t] - 1
      BY <2>2, <3>1
    <3>3. \A u \in Threads \ {t} : queue'[u] = queue[u]
      BY <2>2, <3>1
    <3> QED BY <2>1, <2>2, <2>3, <2>5, <3>1, <3>2, <3>3 DEF lists, insert, Stays
  <2>6. CASE first[queue[t]] = Null /\ queue[t] = 0
    BY <2>1, <2>2, <2>3, <2>6 DEF Scan, Goto, lists, insert, Stays
  <2> QED BY <2>4, <2>5, <2>6
<1>1. TypeOK'
  <2>1. queue[t] # 0 => queue[t] - 1 \in Prios
    BY <1>0, QueueAssumption DEF Prios
  <2>2. queue' \in [Threads -> Prios]
    BY <2>1 DEF Scan, TypeOK
  <2>3. item' \in [Threads -> Chunks \cup {Null}]
    BY <1>0 DEF Scan, lists, TypeOK
  <2> QED BY <2>2, <2>3 DEF Scan, Goto, lists, insert, TypeOK
<1> USE <1>0 DEF Good, lists, insert, Stays
<1>9. /\ first[queue[t]] = At(qs[queue[t]], 1)
      /\ first[queue[t]] = Null => qs[queue[t]] = <<>>
      /\ first[queue[t]] # Null => qs[queue[t]] # <<>> /\ first[queue[t]] = qs[queue[t]][1]
  <2>1. first[queue[t]] = At(qs[queue[t]], 1)
    BY DEF Lists, Chain
  <2>2. qs[queue[t]] \in Seq(Chunks)
    OBVIOUS
  <2> QED BY <2>1, <2>2, QueueAssumption DEF At
<1>2. Lists(qs)'
  BY DEF Lists
<1>3. Ends(qs)'
  BY EndsKeep
<1>4. Memory(qs)'
  <2>1. \A u \in Threads, c \in Chunks \cup {Null} :
          (Entering(u, c)' <=> Entering(u, c)) /\ (Leaving(u, c)' <=> Leaving(u, c))
    BY DEF Entering, Leaving
  <2> QED BY <2>1, MemoryKeeps
<1>5. Holders'
  BY DEF Holders
<1>6. Roles'
  BY DEF Roles, InService
<1>7. Service(qs)'
  <2>1. ASSUME NEW u \in Threads \ {t}
        PROVE  ~InService(u)' /\ pc'[u] # "scan"
    BY OthersWait DEF InService
  <2>2. InService(t)' => qs[queue'[t]] # <<>> /\ item'[t] = qs[queue'[t]][1]
    BY <1>9 DEF InService
  <2>3. ASSUME pc'[t] = "scan", NEW q \in Prios, q > queue'[t] PROVE qs[q] = <<>>
    <3>1. q = queue[t] \/ q > queue[t]
      BY <2>3 DEF Prios
    <3> QED BY <1>9, <2>3, <3>1 DEF Service
  <2> QED BY <2>1, <2>2, <2>3 DEF Service
<1>8. Counting(qs)'
  BY DEF Counting
<1> QED BY <1>1, <1>2, <1>3, <1>4, <1>5, <1>6, <1>7, <1>8

\* fsm_process_event, and the return of its callback.
LEMMA ProcessGood ==
  ASSUME TypeOK, NEW qs \in [Prios -> Seq(Chunks)], Good(qs), Unshared,
         NEW t \in Threads, Process(t)
  PROVE  TypeOK' /\ Good(qs)'
<1>0. /\ pc[t] = "process" /\ pc'[t] \in {"action", "delete"}
      /\ UNCHANGED <<lists, used, owner, insert, scan>>
      /\ \A u \in Threads \ {t} : Stays(u)
  BY DEF Process, Goto, lists, insert, scan, TypeOK, Stays
<1>1. TypeOK'
  BY DEF Process, Goto, lists, insert, scan, TypeOK
<1> USE <1>0 DEF Good, lists, insert, scan, Stays
<1>2. Lists(qs)'
  BY DEF Lists
<1>3. Ends(qs)'
  BY EndsKeep
<1>4. Memory(qs)'
  <2>1. \A u \in Threads, c \in Chunks \cup {Null} :
          (Entering(u, c)' <=> Entering(u, c)) /\ (Leaving(u, c)' <=> Leaving(u, c))
    BY DEF Entering, Leaving
  <2> QED BY <2>1, MemoryKeeps
<1>5. Holders'
  BY DEF Holders
<1>6. Roles'
  BY DEF Roles, InService
<1>7. Service(qs)'
  BY DEF Service, InService
<1>8. Counting(qs)'
  BY DEF Counting
<1> QED BY <1>1, <1>2, <1>3, <1>4, <1>5, <1>6, <1>7, <1>8

\* The callback returns to fsm_dequeue_event, whatever it queued.
LEMMA ActionReturnGood ==
  ASSUME TypeOK, NEW qs \in [Prios -> Seq(Chunks)], Good(qs), Unshared,
         NEW t \in Threads, ActionReturn(t)
  PROVE  TypeOK' /\ Good(qs)'
<1>0. /\ pc[t] = "action" /\ pc'[t] = "delete"
      /\ UNCHANGED <<lists, used, owner, insert, scan>>
      /\ \A u \in Threads \ {t} : Stays(u)
  BY DEF ActionReturn, Goto, lists, insert, scan, TypeOK, Stays
<1>1. TypeOK'
  BY DEF ActionReturn, Goto, lists, insert, scan, TypeOK
<1> USE <1>0 DEF Good, lists, insert, scan, Stays
<1>2. Lists(qs)'
  BY DEF Lists
<1>3. Ends(qs)'
  BY EndsKeep
<1>4. Memory(qs)'
  <2>1. \A u \in Threads, c \in Chunks \cup {Null} :
          (Entering(u, c)' <=> Entering(u, c)) /\ (Leaving(u, c)' <=> Leaving(u, c))
    BY DEF Entering, Leaving
  <2> QED BY <2>1, MemoryKeeps
<1>5. Holders'
  BY DEF Holders
<1>6. Roles'
  BY DEF Roles, InService
<1>7. Service(qs)'
  BY DEF Service, InService
<1>8. Counting(qs)'
  BY DEF Counting
<1> QED BY <1>1, <1>2, <1>3, <1>4, <1>5, <1>6, <1>7, <1>8

\* The event deleted is the one that was served.
LEMMA DeleteGood ==
  ASSUME TypeOK, NEW qs \in [Prios -> Seq(Chunks)], Good(qs), Unshared,
         NEW t \in Threads, Delete(t)
  PROVE  TypeOK' /\ Good(qs)'
<1>0. /\ pc[t] = "delete" /\ pc'[t] = "unlink" /\ item'[t] = first[queue[t]] /\ queue[t] \in Prios
      /\ UNCHANGED <<lists, used, owner, insert, queue, total>>
      /\ \A u \in Threads \ {t} : Stays(u)
  BY DEF Delete, Goto, lists, insert, TypeOK, Stays
<1>1. TypeOK'
  BY DEF Delete, Goto, lists, insert, TypeOK
<1> USE <1>0 DEF Good, lists, insert, Stays
<1>2. Lists(qs)'
  BY DEF Lists
<1>3. Ends(qs)'
  BY EndsKeep
<1>4. Memory(qs)'
  <2>1. \A u \in Threads, c \in Chunks \cup {Null} :
          (Entering(u, c)' <=> Entering(u, c)) /\ (Leaving(u, c)' <=> Leaving(u, c))
    BY DEF Entering, Leaving
  <2> QED BY <2>1, MemoryKeeps
<1>5. Holders'
  BY DEF Holders
<1>6. Roles'
  BY DEF Roles, InService
<1>7. Service(qs)'
  <2>1. qs[queue[t]] # <<>> /\ qs[queue[t]] \in Seq(Chunks)
    BY DEF Service, InService
  <2>2. first[queue[t]] = qs[queue[t]][1]
    BY <2>1 DEF Lists, Chain, At
  <2> QED BY <2>1, <2>2 DEF Service, InService
<1>8. Counting(qs)'
  BY DEF Counting
<1> QED BY <1>1, <1>2, <1>3, <1>4, <1>5, <1>6, <1>7, <1>8

\* stqh_last of a queue that became empty points at the head again.
LEMMA RetailGood ==
  ASSUME TypeOK, NEW qs \in [Prios -> Seq(Chunks)], Good(qs), Unshared,
         NEW t \in Threads, Retail(t)
  PROVE  TypeOK' /\ Good(qs)'
<1>0. /\ pc[t] = "retail" /\ pc'[t] = "free" /\ last' = [last EXCEPT ![queue[t]] = Null] /\ t \in Servers
      /\ UNCHANGED <<next, first, used, owner, insert, scan>>
      /\ \A u \in Threads \ {t} : Stays(u)
  BY DEF Retail, Goto, insert, scan, TypeOK, Stays, Good, Roles
<1>1. TypeOK'
  BY DEF Retail, Goto, insert, scan, TypeOK
<1> USE <1>0 DEF Good, insert, scan, Stays
<1>2. Lists(qs)'
  BY DEF Lists
<1>3. Ends(qs)'
  <2>1. ASSUME NEW u \in Threads PROVE pc'[u] # "tail" /\ pc'[u] # "retail"
    BY OthersWait
  <2>2. ASSUME NEW q \in Prios PROVE last'[q] = At(qs[q], Len(qs[q]))
    <3>1. CASE q = queue[t]
      <4>1. qs[q] = <<>>
        BY <3>1 DEF Ends
      <4> QED BY <3>1, <4>1 DEF At, TypeOK
    <3>2. CASE q # queue[t]
      <4>1. ASSUME NEW u \in Threads PROVE pc[u] # "tail" /\ ~(pc[u] = "retail" /\ queue[u] = q)
        BY <3>2, OthersWait
      <4>2. last[q] = At(qs[q], Len(qs[q]))
        BY <4>1 DEF Ends
      <4>3. last'[q] = last[q]
        BY <3>2 DEF TypeOK
      <4> QED BY <4>2, <4>3
    <3> QED BY <3>1, <3>2
  <2> QED BY <2>1, <2>2 DEF Ends
<1>4. Memory(qs)'
  <2>1. \A u \in Threads, c \in Chunks \cup {Null} :
          (Entering(u, c)' <=> Entering(u, c)) /\ (Leaving(u, c)' <=> Leaving(u, c))
    BY DEF Entering, Leaving
  <2> QED BY <2>1, MemoryKeeps
<1>5. Holders'
  BY DEF Holders
<1>6. Roles'
  BY DEF Roles, InService
<1>7. Service(qs)'
  BY DEF Service, InService
<1>8. Counting(qs)'
  BY DEF Counting
<1> QED BY <1>1, <1>2, <1>3, <1>4, <1>5, <1>6, <1>7, <1>8

\* Nothing but the event that was served is freed.
LEMMA DeleteFreeGood ==
  ASSUME TypeOK, NEW qs \in [Prios -> Seq(Chunks)], Good(qs), Unshared,
         NEW t \in Threads, DeleteFree(t)
  PROVE  TypeOK' /\ Good(qs)'
<1>0. /\ pc[t] = "free" /\ pc'[t] = "idle" /\ used' = used \ {item[t]}
      /\ item'[t] = Null /\ t \in Servers
      /\ UNCHANGED <<lists, owner, insert, queue, total>>
      /\ \A u \in Threads \ {t} : Stays(u)
  BY DEF DeleteFree, Goto, lists, insert, TypeOK, Stays, Good, Roles
<1>1. TypeOK'
  BY DEF DeleteFree, Goto, lists, insert, TypeOK
<1> USE <1>0 DEF Good, lists, insert, Stays
<1>2. Lists(qs)'
  BY DEF Lists
<1>3. Ends(qs)'
  BY EndsKeep
<1>4. Memory(qs)'
  <2>1. \A u \in Threads, c \in Chunks \cup {Null} :
          /\ Entering(u, c)' <=> Entering(u, c)
          /\ Leaving(u, c)' <=> Leaving(u, c) /\ u # t
    BY DEF Entering, Leaving
  <2>2. /\ item[t] \in Chunks /\ \A q \in Prios : item[t] \notin Elements(qs[q])
        /\ \A u \in Threads \ {t} : ~Entering(u, item[t]) /\ ~Leaving(u, item[t])
        /\ \A c \in Chunks \cup {Null} : ~Entering(t, c) /\ (Leaving(t, c) => c = item[t])
    BY DEF Memory, Entering, Leaving, TypeOK
  <2>3. ASSUME NEW c \in used'
        PROVE  \/ \E q \in Prios : c \in Elements(qs[q])
               \/ \E u \in Threads : Entering(u, c)' \/ Leaving(u, c)'
    <3>1. c \in used /\ c \in Chunks /\ c # item[t]
      BY <2>3 DEF TypeOK
    <3>2. ASSUME NEW u \in Threads, Entering(u, c) \/ Leaving(u, c)
          PROVE  \E v \in Threads : Entering(v, c)' \/ Leaving(v, c)'
      BY <2>1, <2>2, <3>1, <3>2
    <3> QED BY <3>1, <3>2 DEF Memory
  <2>4. ASSUME NEW u \in Threads, NEW c \in Chunks \cup {Null}, Entering(u, c)' \/ Leaving(u, c)'
        PROVE  /\ c \in used'
               /\ \A q \in Prios : c \notin Elements(qs[q])
               /\ \A v \in Threads \ {u} : ~Entering(v, c)' /\ ~Leaving(v, c)'
    BY <2>1, <2>2, <2>4 DEF Memory
  <2>5. \A q \in Prios : Elements(qs[q]) \subseteq used'
    BY <2>2 DEF Memory
  <2> QED BY <2>3, <2>4, <2>5 DEF Memory
<1>5. Holders'
  BY DEF Holders
<1>6. Roles'
  BY DEF Roles, InService
<1>7. Service(qs)'
  BY DEF Service, InService
<1>8. Counting(qs)'
  BY DEF Counting
<1> QED BY <1>1, <1>2, <1>3, <1>4, <1>5, <1>6, <1>7, <1>8

\* stqh_last catches up with the event that was linked.
LEMMA InsertTailGood ==
  ASSUME TypeOK, NEW qs \in [Prios -> Seq(Chunks)], Good(qs), Unshared,
         NEW t \in Threads, InsertTail(t)
  PROVE  TypeOK' /\ Good(qs)'
<1>0. /\ pc[t] = "tail" /\ pc'[t] = "unlock" /\ last' = [last EXCEPT ![prio[t]] = new[t]]
      /\ UNCHANGED <<next, first, used, owner, insert, scan>>
      /\ \A u \in Threads \ {t} : Stays(u)
  BY DEF InsertTail, Goto, insert, scan, TypeOK, Stays
<1>1. TypeOK'
  BY DEF InsertTail, Goto, insert, scan, TypeOK
<1> USE <1>0 DEF Good, insert, scan, Stays
<1>2. Lists(qs)'
  BY DEF Lists
<1>3. Ends(qs)'
  <2>1. ASSUME NEW u \in Threads PROVE pc'[u] # "tail" /\ pc'[u] # "retail"
    BY OthersWait
  <2>2. ASSUME NEW q \in Prios PROVE last'[q] = At(qs[q], Len(qs[q]))
    <3>1. CASE q = prio[t]
      BY <3>1 DEF Ends, TypeOK
    <3>2. CASE q # prio[t]
      <4>1. ASSUME NEW u \in Threads PROVE pc[u] # "retail" /\ ~(pc[u] = "tail" /\ prio[u] = q)
        BY <3>2, OthersWait
      <4>2. last[q] = At(qs[q], Len(qs[q]))
        BY <4>1 DEF Ends
      <4>3. last'[q] = last[q]
        BY <3>2 DEF TypeOK
      <4> QED BY <4>2, <4>3
    <3> QED BY <3>1, <3>2
  <2> QED BY <2>1, <2>2 DEF Ends
<1>4. Memory(qs)'
  <2>1. \A u \in Threads, c \in Chunks \cup {Null} :
          (Entering(u, c)' <=> Entering(u, c)) /\ (Leaving(u, c)' <=> Leaving(u, c))
    BY DEF Entering, Leaving
  <2> QED BY <2>1, MemoryKeeps
<1>5. Holders'
  BY DEF Holders
<1>6. Roles'
  BY DEF Roles, InService
<1>7. Service(qs)'
  BY DEF Service, InService
<1>8. Counting(qs)'
  BY DEF Counting
<1> QED BY <1>1, <1>2, <1>3, <1>4, <1>5, <1>6, <1>7, <1>8

\* fsm_get_queued_events gives the mutex back (fsm.c:235).
LEMMA CountReturnGood ==
  ASSUME TypeOK, NEW qs \in [Prios -> Seq(Chunks)], Good(qs), Unshared,
         NEW t \in Threads, CountReturn(t)
  PROVE  TypeOK' /\ Good(qs)'
<1>0. /\ pc[t] = "counted" /\ pc'[t] = "idle" /\ owner' = Null
      /\ UNCHANGED <<lists, used, insert, scan>>
      /\ \A u \in Threads \ {t} : Stays(u)
  BY DEF CountReturn, Goto, lists, insert, scan, TypeOK, Stays
<1>1. TypeOK'
  BY DEF CountReturn, Goto, lists, insert, scan, TypeOK
<1> USE <1>0 DEF Good, lists, insert, scan, Stays
<1>2. Lists(qs)'
  BY DEF Lists
<1>3. Ends(qs)'
  BY EndsKeep
<1>4. Memory(qs)'
  <2>1. \A u \in Threads, c \in Chunks \cup {Null} :
          (Entering(u, c)' <=> Entering(u, c)) /\ (Leaving(u, c)' <=> Leaving(u, c))
    BY DEF Entering, Leaving
  <2> QED BY <2>1, MemoryKeeps
<1>5. Holders'
  <2>1. \A u \in Threads \ {t} : pc[u] \in {"idle", "lock"}
    BY OthersWait
  <2> QED BY <2>1 DEF Holders
<1>6. Roles'
  BY DEF Roles, InService
<1>7. Service(qs)'
  BY DEF Service, InService
<1>8. Counting(qs)'
  BY DEF Counting
<1> QED BY <1>1, <1>2, <1>3, <1>4, <1>5, <1>6, <1>7, <1>8

-----------------------------------------------------------------------------
(* Counting. *)

\* One event more has been seen, and none twice.
LEMMA SeenNext ==
  ASSUME NEW qs \in [Prios -> Seq(Chunks)], Lists(qs),
         NEW p \in Prios, NEW k \in 0..Len(qs[p]), k < Len(qs[p])
  PROVE  /\ Cardinality(Seen(qs, p, k + 1)) = Cardinality(Seen(qs, p, k)) + 1
         /\ Cardinality(Seen(qs, p, k + 1)) \in 0..Cardinality(Chunks)
<1> DEFINE S == Seen(qs, p, k)
           c == qs[p][k + 1]
<1>1. /\ k \in Nat /\ k + 1 \in 1..Len(qs[p]) /\ c \in Chunks
      /\ \A i : i \in 1..(k + 1) <=> i \in 1..k \/ i = k + 1
  OBVIOUS
<1>2. Seen(qs, p, k + 1) = S \cup {c}
  BY <1>1 DEF Seen
<1>3. c \notin S
  <2>1. ASSUME NEW q \in Prios, q < p PROVE c \notin Elements(qs[q])
    <3>1. q # p
      BY <2>1 DEF Prios
    <3>2. Elements(qs[p]) \cap Elements(qs[q]) = {}
      BY <3>1 DEF Lists
    <3>3. c \in Elements(qs[p])
      BY <1>1 DEF Elements
    <3> QED BY <3>2, <3>3
  <2>2. ASSUME NEW i \in 1..k PROVE qs[p][i] # c
    <3>1. i \in 1..Len(qs[p]) /\ i # k + 1
      BY <1>1
    <3>2. \A j, m \in 1..Len(qs[p]) : qs[p][j] = qs[p][m] => j = m
      BY DEF Lists, Chain
    <3> QED BY <1>1, <3>1, <3>2
  <2> QED BY <2>1, <2>2 DEF Seen
<1>4. S \subseteq Chunks /\ S \cup {c} \subseteq Chunks
  BY <1>1 DEF Seen
<1> HIDE DEF S, c
<1>5. IsFiniteSet(S) /\ IsFiniteSet(Chunks)
  BY <1>4, FS_Subset, QueueAssumption
<1>6. Cardinality(S \cup {c}) = Cardinality(S) + 1
  BY <1>3, <1>5, FS_AddElement
<1>7. Cardinality(S \cup {c}) <= Cardinality(Chunks) /\ IsFiniteSet(S \cup {c})
  BY <1>4, <1>5, FS_Subset
<1>8. Cardinality(S \cup {c}) \in Nat /\ Cardinality(Chunks) \in Nat
  BY <1>5, <1>7, FS_CardinalityType
<1>9. Cardinality(Seen(qs, p, k)) + 1 = Cardinality(S \cup {c})
  BY <1>6 DEF S
<1>10. Cardinality(Seen(qs, p, k + 1)) = Cardinality(S \cup {c})
  BY <1>2
<1>11. Cardinality(S \cup {c}) \in 0..Cardinality(Chunks)
  BY <1>7, <1>8
<1> QED BY <1>9, <1>10, <1>11, Zenon

\* Before the first event of queue 0 nothing has been seen.
LEMMA SeenNone ==
  ASSUME NEW qs, 0 \in Prios
  PROVE  Cardinality(Seen(qs, 0, 0)) = 0
<1>1. Seen(qs, 0, 0) = {}
  BY DEF Seen, Prios
<1> QED BY <1>1, FS_EmptySet

\* At the end of a queue the count goes on with the next, or is complete.
LEMMA SeenQueue ==
  ASSUME NEW qs \in [Prios -> Seq(Chunks)], NEW p \in Prios
  PROVE  /\ Seen(qs, p + 1, 0) = Seen(qs, p, Len(qs[p]))
         /\ p = NQueues - 1 => Seen(qs, p, Len(qs[p])) = Queued(qs)
<1>1. \A q \in Prios : q < p + 1 <=> q < p \/ q = p
  BY QueueAssumption DEF Prios
<1>2. ASSUME NEW c
      PROVE  c \in Elements(qs[p]) <=> \E i \in 1..Len(qs[p]) : c = qs[p][i]
  BY DEF Elements
<1>3. Seen(qs, p + 1, 0) = Seen(qs, p, Len(qs[p]))
  BY <1>1, <1>2 DEF Seen
<1>4. ASSUME p = NQueues - 1, NEW q \in Prios PROVE q < p \/ q = p
  BY <1>4, QueueAssumption DEF Prios
<1>5. p = NQueues - 1 => Seen(qs, p, Len(qs[p])) = Queued(qs)
  BY <1>2, <1>4 DEF Seen, Queued
<1> QED BY <1>3, <1>5

\* fsm_get_queued_events: nothing is counted yet.
LEMMA CountCallGood ==
  ASSUME TypeOK, NEW qs \in [Prios -> Seq(Chunks)], Good(qs), Unshared,
         NEW t \in Threads, CountCall(t)
  PROVE  TypeOK' /\ Good(qs)'
<1>0. /\ t \in Counters /\ pc[t] = "idle" /\ pc'[t] = "count" /\ owner = Null /\ owner' = t
      /\ total'[t] = 0 /\ queue'[t] = 0 /\ item'[t] = first[0] /\ 0 \in Prios
      /\ UNCHANGED <<lists, used, insert>>
      /\ \A u \in Threads \ {t} : Stays(u)
  <2>1. 0 \in Prios
    BY QueueAssumption DEF Prios
  <2>2. DOMAIN pc = Threads /\ DOMAIN queue = Threads /\ DOMAIN item = Threads /\ DOMAIN total = Threads
    BY DEF TypeOK
  <2> QED BY <2>1, <2>2 DEF CountCall, Goto, lists, insert, Stays
<1>1. TypeOK'
  <2>1. queue' \in [Threads -> Prios] /\ item' \in [Threads -> Chunks \cup {Null}]
    BY <1>0 DEF CountCall, TypeOK
  <2>2. total' \in [Threads -> 0..Cardinality(Chunks)]
    <3>1. 0 \in 0..Cardinality(Chunks)
      BY FS_CardinalityType, QueueAssumption
    <3> QED BY <3>1 DEF CountCall, TypeOK
  <2> QED BY <2>1, <2>2 DEF CountCall, Goto, lists, insert, TypeOK
<1> USE <1>0 DEF Good, lists, insert, Stays
<1>2. Lists(qs)'
  BY DEF Lists
<1>3. Ends(qs)'
  BY EndsKeep
<1>4. Memory(qs)'
  <2>1. \A u \in Threads, c \in Chunks \cup {Null} :
          (Entering(u, c)' <=> Entering(u, c)) /\ (Leaving(u, c)' <=> Leaving(u, c))
    BY DEF Entering, Leaving
  <2> QED BY <2>1, MemoryKeeps
<1>5. Holders'
  BY QueueAssumption DEF Holders
<1>6. Roles'
  BY DEF Roles, InService
<1>7. Service(qs)'
  BY DEF Service, InService
<1>8. Counting(qs)'
  <2>1. ASSUME NEW u \in Threads \ {t} PROVE pc'[u] # "count" /\ pc'[u] # "counted"
    BY QueueAssumption DEF Holders
  <2>2. /\ 0 \in 0..Len(qs[0]) /\ item'[t] = At(qs[0], 0 + 1)
        /\ total'[t] = Cardinality(Seen(qs, 0, 0))
    BY SeenNone DEF Lists, Chain
  <2>3. \E k \in 0..Len(qs[queue'[t]]) :
          /\ item'[t] = At(qs[queue'[t]], k + 1)
          /\ total'[t] = Cardinality(Seen(qs, queue'[t], k))
    BY <2>2
  <2> QED BY <2>1, <2>3 DEF Counting
<1> QED BY <1>1, <1>2, <1>3, <1>4, <1>5, <1>6, <1>7, <1>8

\* One event more is counted (fsm.c:229-230).
LEMMA CountNextGood ==
  ASSUME TypeOK, NEW qs \in [Prios -> Seq(Chunks)], Good(qs), Unshared,
         NEW t \in Threads, CountNext(t)
  PROVE  TypeOK' /\ Good(qs)'
<1>0. /\ pc[t] = "count" /\ pc'[t] = "count" /\ item[t] # Null /\ item'[t] = next[item[t]]
      /\ total'[t] = total[t] + 1 /\ queue'[t] = queue[t]
      /\ UNCHANGED <<lists, used, owner, pc, insert, queue>>
      /\ \A u \in Threads \ {t} : Stays(u)
  BY DEF CountNext, Goto, lists, insert, TypeOK, Stays
<1>9. /\ total[t] + 1 \in 0..Cardinality(Chunks)
      /\ \E k \in 0..Len(qs[queue[t]]) :
           /\ next[item[t]] = At(qs[queue[t]], k + 1)
           /\ total[t] + 1 = Cardinality(Seen(qs, queue[t], k))
  <2> DEFINE p == queue[t]
  <2>1. p \in Prios /\ qs[p] \in Seq(Chunks)
    BY DEF TypeOK
  <2>2. PICK k \in 0..Len(qs[p]) :
          item[t] = At(qs[p], k + 1) /\ total[t] = Cardinality(Seen(qs, p, k))
    BY <1>0 DEF Counting, Good
  <2>3. k < Len(qs[p]) /\ item[t] = qs[p][k + 1] /\ k + 1 \in 1..Len(qs[p])
    BY <1>0, <2>1, <2>2 DEF At
  <2>4. next[item[t]] = At(qs[p], (k + 1) + 1)
    BY <2>1, <2>3 DEF Good, Lists, Chain
  <2>5. /\ Cardinality(Seen(qs, p, k + 1)) = Cardinality(Seen(qs, p, k)) + 1
        /\ Cardinality(Seen(qs, p, k + 1)) \in 0..Cardinality(Chunks)
    BY <2>1, <2>3, SeenNext DEF Good
  <2>6. k + 1 \in 0..Len(qs[p])
    BY <2>1, <2>3
  <2> HIDE DEF p
  <2> QED BY <2>2, <2>4, <2>5, <2>6 DEF p
<1>1. TypeOK'
  <2>1. item' \in [Threads -> Chunks \cup {Null}]
    BY <1>0 DEF CountNext, TypeOK
  <2>2. total[t] + 1 \in 0..Cardinality(Chunks)
    BY <1>9
  <2>3. total' \in [Threads -> 0..Cardinality(Chunks)]
    BY <2>2 DEF CountNext, TypeOK
  <2> QED BY <2>1, <2>3 DEF CountNext, lists, insert, TypeOK
<1> USE <1>0 DEF Good, lists, insert, Stays
<1>2. Lists(qs)'
  BY DEF Lists
<1>3. Ends(qs)'
  BY EndsKeep
<1>4. Memory(qs)'
  <2>1. \A u \in Threads, c \in Chunks \cup {Null} :
          (Entering(u, c)' <=> Entering(u, c)) /\ (Leaving(u, c)' <=> Leaving(u, c))
    BY DEF Entering, Leaving
  <2> QED BY <2>1, MemoryKeeps
<1>5. Holders'
  BY DEF Holders
<1>6. Roles'
  BY DEF Roles, InService
<1>7. Service(qs)'
  BY DEF Service, InService
<1>8. Counting(qs)'
  <2>1. ASSUME NEW u \in Threads \ {t} PROVE pc'[u] # "count" /\ pc'[u] # "counted"
    BY OthersWait
  <2>2. PICK k \in 0..Len(qs[queue[t]]) :
          /\ item'[t] = At(qs[queue[t]], k + 1)
          /\ total[t] + 1 = Cardinality(Seen(qs, queue[t], k))
    BY <1>9
  <2>3. \E m \in 0..Len(qs[queue'[t]]) :
          /\ item'[t] = At(qs[queue'[t]], m + 1)
          /\ total'[t] = Cardinality(Seen(qs, queue'[t], m))
    BY <2>2
  <2> QED BY <2>1, <2>3 DEF Counting
<1> QED BY <1>1, <1>2, <1>3, <1>4, <1>5, <1>6, <1>7, <1>8

\* The count goes on with the next queue, or all have been counted.
LEMMA CountQueueGood ==
  ASSUME TypeOK, NEW qs \in [Prios -> Seq(Chunks)], Good(qs), Unshared,
         NEW t \in Threads, CountQueue(t)
  PROVE  TypeOK' /\ Good(qs)'
<1>0. /\ pc[t] = "count" /\ item[t] = Null
      /\ \/ /\ queue[t] < NQueues - 1 /\ pc'[t] = "count" /\ queue'[t] = queue[t] + 1
            /\ item'[t] = first[queue[t] + 1]
         \/ /\ queue[t] = NQueues - 1 /\ pc'[t] = "counted" /\ queue'[t] = queue[t] /\ item'[t] = item[t]
      /\ UNCHANGED <<lists, used, owner, insert, total>>
      /\ \A u \in Threads \ {t} : Stays(u)
  <2>1. pc[t] = "count" /\ item[t] = Null /\ UNCHANGED <<lists, used, owner, insert, total>>
    BY DEF CountQueue
  <2>2. DOMAIN pc = Threads /\ DOMAIN queue = Threads /\ DOMAIN item = Threads /\ queue[t] \in Prios
    BY DEF TypeOK
  <2>3. CASE queue[t] < NQueues - 1
    <3>1. /\ queue' = [queue EXCEPT ![t] = queue[t] + 1] /\ pc' = pc
          /\ item' = [item EXCEPT ![t] = first[queue[t] + 1]]
      BY <2>3 DEF CountQueue
    <3>2. queue'[t] = queue[t] + 1 /\ item'[t] = first[queue[t] + 1]
      BY <2>2, <3>1
    <3>3. \A u \in Threads \ {t} : queue'[u] = queue[u] /\ item'[u] = item[u]
      BY <2>2, <3>1
    <3> QED BY <2>1, <2>3, <3>1, <3>2, <3>3 DEF lists, insert, Stays
  <2>4. CASE ~(queue[t] < NQueues - 1)
    <3>1. queue[t] = NQueues - 1
      BY <2>2, <2>4, QueueAssumption DEF Prios
    <3>2. pc' = [pc EXCEPT ![t] = "counted"] /\ UNCHANGED <<queue, item>>
      BY <2>4 DEF CountQueue, Goto
    <3>3. pc'[t] = "counted" /\ \A u \in Threads \ {t} : pc'[u] = pc[u]
      BY <2>2, <3>2
    <3> QED BY <2>1, <3>1, <3>2, <3>3 DEF lists, insert, Stays
  <2> QED BY <2>3, <2>4
<1>1. TypeOK'
  <2>1. queue' \in [Threads -> Prios] /\ item' \in [Threads -> Chunks \cup {Null}]
    <3>1. queue[t] < NQueues - 1 => queue[t] + 1 \in Prios
      <4>1. queue[t] \in Prios
        BY DEF TypeOK
      <4> QED BY <4>1, QueueAssumption DEF Prios
    <3>2. CASE queue[t] < NQueues - 1
      <4>1. first[queue[t] + 1] \in Chunks \cup {Null}
        BY <3>1, <3>2 DEF TypeOK
      <4>2. /\ queue' = [queue EXCEPT ![t] = queue[t] + 1]
            /\ item' = [item EXCEPT ![t] = first[queue[t] + 1]]
        BY <3>2 DEF CountQueue
      <4> QED BY <3>1, <3>2, <4>1, <4>2 DEF TypeOK
    <3>3. CASE ~(queue[t] < NQueues - 1)
      <4>1. queue' = queue /\ item' = item
        BY <3>3 DEF CountQueue
      <4> QED BY <4>1 DEF TypeOK
    <3> QED BY <3>2, <3>3
  <2>2. /\ next' = next /\ first' = first /\ last' = last /\ used' = used /\ owner' = owner
        /\ new' = new /\ prio' = prio /\ back' = back /\ total' = total
    BY DEF CountQueue, lists, insert
  <2>3. pc' \in [Threads -> {"idle", "lock", "end", "link", "tail", "unlock", "scan", "process",
                            "action", "delete", "unlink", "retail", "free", "crashed",
                            "count", "counted"}]
    BY DEF CountQueue, Goto, TypeOK
  <2> QED BY <2>1, <2>2, <2>3 DEF TypeOK
<1> USE <1>0 DEF Good, lists, insert, Stays
<1>2. Lists(qs)'
  BY DEF Lists
<1>3. Ends(qs)'
  BY EndsKeep
<1>4. Memory(qs)'
  <2>1. \A u \in Threads, c \in Chunks \cup {Null} :
          (Entering(u, c)' <=> Entering(u, c)) /\ (Leaving(u, c)' <=> Leaving(u, c))
    BY DEF Entering, Leaving
  <2> QED BY <2>1, MemoryKeeps
<1>5. Holders'
  BY DEF Holders
<1>6. Roles'
  BY DEF Roles, InService
<1>7. Service(qs)'
  BY DEF Service, InService
<1>8. Counting(qs)'
  <2>1. ASSUME NEW u \in Threads \ {t} PROVE pc'[u] # "count" /\ pc'[u] # "counted"
    BY OthersWait
  <2>2. queue[t] \in Prios /\ qs[queue[t]] \in Seq(Chunks)
    BY DEF TypeOK
  <2>3. total[t] = Cardinality(Seen(qs, queue[t], Len(qs[queue[t]])))
    <3>1. PICK k \in 0..Len(qs[queue[t]]) :
            item[t] = At(qs[queue[t]], k + 1) /\ total[t] = Cardinality(Seen(qs, queue[t], k))
      BY DEF Counting
    <3>2. k = Len(qs[queue[t]])
      BY <2>2, <3>1, QueueAssumption DEF At
    <3> QED BY <3>1, <3>2
  <2>4. ASSUME pc'[t] = "count"
        PROVE  \E k \in 0..Len(qs[queue'[t]]) :
                 /\ item'[t] = At(qs[queue'[t]], k + 1)
                 /\ total'[t] = Cardinality(Seen(qs, queue'[t], k))
    <3>1. queue[t] + 1 \in Prios /\ queue'[t] = queue[t] + 1 /\ item'[t] = first[queue[t] + 1]
      BY <2>2, <2>4, QueueAssumption DEF Prios
    <3>2. item'[t] = At(qs[queue'[t]], 0 + 1) /\ 0 \in 0..Len(qs[queue'[t]])
      BY <3>1 DEF Lists, Chain
    <3>3. Seen(qs, queue'[t], 0) = Seen(qs, queue[t], Len(qs[queue[t]]))
      BY <2>2, <3>1, SeenQueue
    <3> QED BY <2>3, <3>2, <3>3
  <2>5. ASSUME pc'[t] = "counted" PROVE total'[t] = Cardinality(Queued(qs))
    <3>1. queue[t] = NQueues - 1
      BY <2>5
    <3> QED BY <2>2, <2>3, <3>1, SeenQueue
  <2> QED BY <2>1, <2>4, <2>5 DEF Counting
<1> QED BY <1>1, <1>2, <1>3, <1>4, <1>5, <1>6, <1>7, <1>8

-----------------------------------------------------------------------------
(* The steps that change a queue. *)

\* The queues once the thread's new event is linked.
Linking(qs, t) == [qs EXCEPT ![prio[t]] = Append(@, new[t])]

\* What appending does to a sequence.
LEMMA AppendIs ==
  ASSUME NEW s \in Seq(Chunks), NEW n \in Chunks
  PROVE  /\ Append(s, n) \in Seq(Chunks) /\ Append(s, n) # <<>>
         /\ Len(Append(s, n)) = Len(s) + 1 /\ Len(s) \in Nat
         /\ \A i \in 1..Len(s) : i \in 1..(Len(s) + 1) /\ Append(s, n)[i] = s[i] /\ s[i] \in Chunks
         /\ Len(s) + 1 \in 1..(Len(s) + 1) /\ Append(s, n)[Len(s) + 1] = n
         /\ Elements(Append(s, n)) = Elements(s) \cup {n}
         /\ \A i \in 1..(Len(s) + 1) : i \in 1..Len(s) \/ i = Len(s) + 1
<1>1. /\ Append(s, n) \in Seq(Chunks) /\ Append(s, n) # <<>>
      /\ Len(Append(s, n)) = Len(s) + 1 /\ Len(s) \in Nat
      /\ \A i \in 1..Len(s) : i \in 1..(Len(s) + 1) /\ Append(s, n)[i] = s[i] /\ s[i] \in Chunks
      /\ Len(s) + 1 \in 1..(Len(s) + 1) /\ Append(s, n)[Len(s) + 1] = n
      /\ \A i \in 1..(Len(s) + 1) : i \in 1..Len(s) \/ i = Len(s) + 1
  <2>1. Append(s, n) \in Seq(Chunks) /\ Len(Append(s, n)) = Len(s) + 1 /\ Len(s) \in Nat
    OBVIOUS
  <2>2. Append(s, n) # <<>>
    BY <2>1
  <2>3. \A i \in 1..Len(s) : Append(s, n)[i] = s[i] /\ s[i] \in Chunks
    OBVIOUS
  <2>4. Append(s, n)[Len(s) + 1] = n
    OBVIOUS
  <2>5. /\ \A i \in 1..Len(s) : i \in 1..(Len(s) + 1)
        /\ Len(s) + 1 \in 1..(Len(s) + 1)
        /\ \A i \in 1..(Len(s) + 1) : i \in 1..Len(s) \/ i = Len(s) + 1
    BY <2>1
  <2> QED BY <2>1, <2>2, <2>3, <2>4, <2>5, Zenon
<1>2. Elements(Append(s, n)) = Elements(s) \cup {n}
  <2> DEFINE a == Append(s, n)
             m == Len(s) + 1
  <2>1. /\ Len(a) = m /\ m \in 1..m /\ a[m] = n
        /\ \A i \in 1..Len(s) : i \in 1..m /\ a[i] = s[i]
        /\ \A i \in 1..m : i \in 1..Len(s) \/ i = m
    BY <1>1
  <2> HIDE DEF a, m
  <2>2. Elements(a) = Elements(s) \cup {n}
    BY <2>1 DEF Elements
  <2> QED BY <2>2 DEF a
<1> QED BY <1>1, <1>2

\* *stqh_last = elm makes an unlinked event, whose link is null, the last.
LEMMA ChainAppend ==
  ASSUME NEW nx \in [Chunks -> Chunks \cup {Null}], NEW ny \in [Chunks -> Chunks \cup {Null}],
         NEW c, NEW d, NEW s \in Seq(Chunks), NEW n \in Chunks,
         Chain(nx, c, s), n \notin Elements(s), nx[n] = Null,
         IF s = <<>> THEN d = n /\ ny = nx ELSE d = c /\ ny = [nx EXCEPT ![s[Len(s)]] = n]
  PROVE  Chain(ny, d, Append(s, n))
<1> DEFINE a == Append(s, n)
           m == Len(s) + 1
<1>1. /\ Len(a) = m /\ Len(s) \in Nat /\ a[m] = n /\ m \in 1..m
      /\ \A i \in 1..Len(s) : i \in 1..m /\ a[i] = s[i] /\ s[i] \in Chunks
      /\ \A i \in 1..m : i \in 1..Len(s) \/ i = m
  BY AppendIs
<1> HIDE DEF a
<1>2. \A i \in 1..Len(s) : s[i] # n
  BY DEF Elements
<1>3. \A i, j \in 1..m : a[i] = a[j] => i = j
  BY <1>1, <1>2 DEF Chain
<1>4. d = At(a, 1)
  <2>1. CASE s = <<>>
    BY <1>1, <2>1 DEF At
  <2>2. CASE s # <<>>
    <3>1. 1 \in 1..Len(s) /\ 1 \in 1..m
      BY <2>2
    <3> QED BY <1>1, <2>2, <3>1 DEF At, Chain
  <2> QED BY <2>1, <2>2
<1>5. ASSUME NEW i \in 1..m PROVE ny[a[i]] = At(a, i + 1)
  <2>1. CASE i = m
    <3>1. At(a, i + 1) = Null
      BY <1>1, <2>1 DEF At
    <3>2. ny[n] = nx[n]
      <4>1. CASE s = <<>>
        BY <4>1
      <4>2. CASE s # <<>>
        <5>1. Len(s) \in 1..Len(s)
          BY <4>2
        <5> QED BY <1>2, <4>2, <5>1
      <4> QED BY <4>1, <4>2
    <3> QED BY <1>1, <2>1, <3>1, <3>2
  <2>2. CASE i = Len(s) /\ i \in 1..Len(s)
    <3>1. s # <<>> /\ i + 1 = m /\ a[i] = s[i] /\ s[i] \in Chunks
      BY <1>1, <2>2
    <3>2. ny[s[i]] = n
      BY <2>2, <3>1
    <3> QED BY <1>1, <3>1, <3>2 DEF At
  <2>3. CASE i # Len(s) /\ i \in 1..Len(s)
    <3>1. /\ s # <<>> /\ Len(s) \in 1..Len(s) /\ i + 1 \in 1..Len(s) /\ i + 1 \in 1..m
          /\ a[i] = s[i] /\ s[i] \in Chunks /\ a[i + 1] = s[i + 1]
      BY <1>1, <2>3
    <3>2. s[i] # s[Len(s)]
      BY <2>3, <3>1 DEF Chain
    <3>3. ny[s[i]] = nx[s[i]]
      BY <3>1, <3>2
    <3>4. nx[s[i]] = s[i + 1]
      BY <2>3, <3>1 DEF Chain, At
    <3> QED BY <1>1, <3>1, <3>3, <3>4 DEF At
  <2> QED BY <1>1, <2>1, <2>2, <2>3
<1>6. Chain(ny, d, a)
  BY <1>1, <1>3, <1>4, <1>5 DEF Chain
<1> QED BY <1>6 DEF a

\* The event is the last of its queue from the assignment that links it on.
LEMMA InsertLinkGood ==
  ASSUME TypeOK, NEW qs \in [Prios -> Seq(Chunks)], Good(qs), Unshared,
         NEW t \in Threads, InsertLink(t), NEW rs, rs = Linking(qs, t)
  PROVE  TypeOK' /\ rs \in [Prios -> Seq(Chunks)] /\ Good(rs)'
<1> DEFINE q == prio[t]
           n == new[t]
           s == qs[q]
<1>0. /\ pc[t] = "link" /\ pc'[t] = "tail"
      /\ UNCHANGED <<last, used, owner, insert, scan>>
      /\ \A u \in Threads \ {t} : Stays(u)
      /\ q \in Prios /\ n \in Chunks /\ next[n] = Null
      /\ s \in Seq(Chunks) /\ rs \in [Prios -> Seq(Chunks)] /\ rs[q] = Append(s, n)
      /\ \A p \in Prios : p # q => rs[p] = qs[p]
  <2>1. n \in Chunks /\ pc[t] = "link"
    BY DEF InsertLink, Good, Memory, Entering, TypeOK
  <2>2. q \in Prios /\ s \in Seq(Chunks)
    BY DEF TypeOK
  <2>3. Append(s, n) \in Seq(Chunks)
    BY <2>1, <2>2, AppendIs
  <2>4. rs \in [Prios -> Seq(Chunks)] /\ rs[q] = Append(s, n) /\ \A p \in Prios : p # q => rs[p] = qs[p]
    BY <2>2, <2>3 DEF Linking
  <2> QED BY <2>1, <2>2, <2>4 DEF InsertLink, Goto, insert, scan, TypeOK, Stays, Good, Lists
<1>1. TypeOK'
  BY <1>0 DEF InsertLink, Goto, insert, scan, TypeOK
<1> USE <1>0 DEF Good, insert, scan, Stays
<1>2. /\ \A p \in Prios : n \notin Elements(qs[p])
      /\ \A u \in Threads \ {t} : ~Entering(u, n) /\ ~Leaving(u, n)
  BY DEF Memory, Entering
<1>3. \A u \in Threads \ {t} : pc[u] \in {"idle", "lock"} /\ ~InService(u)
  BY OthersWait
<1>4. last[q] = At(s, Len(s))
  BY <1>3 DEF Ends
<1>5. /\ last[q] = Null <=> s = <<>>
      /\ s # <<>> => last[q] = s[Len(s)] /\ Len(s) \in 1..Len(s) /\ s[Len(s)] \in Chunks
  BY <1>4, QueueAssumption DEF At
<1>6. /\ Elements(rs[q]) = Elements(s) \cup {n}
      /\ \A p \in Prios : p # q => Elements(rs[p]) = Elements(qs[p])
  BY AppendIs
<1>7. Lists(rs)'
  <2>1. Chain(next', first'[q], rs[q])
    <3>1. IF s = <<>> THEN first'[q] = n /\ next' = next
                      ELSE first'[q] = first[q] /\ next' = [next EXCEPT ![s[Len(s)]] = n]
      BY <1>5 DEF InsertLink, TypeOK
    <3>2. next \in [Chunks -> Chunks \cup {Null}] /\ next' \in [Chunks -> Chunks \cup {Null}]
      BY <1>1 DEF TypeOK
    <3>3. Chain(next, first[q], s)
      BY DEF Lists
    <3>4. n \notin Elements(s)
      BY <1>2
    <3> HIDE DEF s, n, q
    <3>5. Chain(next', first'[q], Append(s, n))
      BY <3>1, <3>2, <3>3, <3>4, ChainAppend
    <3> QED BY <3>5
  <2>2. ASSUME NEW p \in Prios, p # q PROVE Chain(next', first'[p], rs[p])
    <3>1. first'[p] = first[p] /\ rs[p] = qs[p]
      BY <2>2 DEF InsertLink, TypeOK
    <3>2. \A i \in 1..Len(qs[p]) : next'[qs[p][i]] = next[qs[p][i]]
      <4>1. CASE s = <<>>
        BY <1>5, <4>1 DEF InsertLink
      <4>2. CASE s # <<>>
        <5>1. Elements(s) \cap Elements(qs[p]) = {}
          BY <2>2 DEF Lists
        <5>2. ASSUME NEW i \in 1..Len(qs[p]) PROVE qs[p][i] # s[Len(s)] /\ qs[p][i] \in Chunks
          <6>1. s[Len(s)] \in Elements(s) /\ qs[p][i] \in Elements(qs[p])
            BY <1>5, <4>2 DEF Elements
          <6>2. qs[p] \in Seq(Chunks)
            OBVIOUS
          <6> QED BY <5>1, <6>1, <6>2
        <5>3. next' = [next EXCEPT ![s[Len(s)]] = n]
          BY <1>5, <4>2 DEF InsertLink
        <5> QED BY <5>2, <5>3 DEF TypeOK
      <4> QED BY <4>1, <4>2
    <3> QED BY <3>1, <3>2 DEF Lists, Chain
  <2>3. ASSUME NEW o \in Prios, NEW p \in Prios, o # p
        PROVE  Elements(rs[o]) \cap Elements(rs[p]) = {}
    <3>1. Elements(qs[o]) \cap Elements(qs[p]) = {}
      BY <2>3 DEF Lists
    <3>2. n \notin Elements(qs[o]) /\ n \notin Elements(qs[p])
      BY <1>2
    <3>3. CASE o = q
      <4>1. Elements(rs[o]) = Elements(qs[o]) \cup {n} /\ Elements(rs[p]) = Elements(qs[p])
        BY <1>6, <2>3, <3>3
      <4> QED BY <3>1, <3>2, <4>1
    <3>4. CASE p = q
      <4>1. Elements(rs[p]) = Elements(qs[p]) \cup {n} /\ Elements(rs[o]) = Elements(qs[o])
        BY <1>6, <2>3, <3>4
      <4> QED BY <3>1, <3>2, <4>1
    <3>5. CASE o # q /\ p # q
      BY <1>6, <3>1, <3>5
    <3> QED BY <3>3, <3>4, <3>5
  <2>4. \A u \in Threads : pc'[u] # "link"
    BY <1>3
  <2> QED BY <2>1, <2>2, <2>3, <2>4 DEF Lists
<1>8. Ends(rs)'
  <2>1. \A u \in Threads \ {t} : pc'[u] # "tail" /\ pc'[u] # "retail"
    BY <1>3
  <2>2. \A p \in Prios : p # q => last'[p] = At(rs[p], Len(rs[p]))
    BY <1>3 DEF Ends
  <2>3. /\ rs[q] # <<>> /\ n = At(rs[q], Len(rs[q]))
        /\ last'[q] = At(rs[q], Len(rs[q]) - 1)
    <3> DEFINE a == Append(s, n)
               m == Len(s) + 1
    <3>1. /\ rs[q] = a /\ a # <<>> /\ Len(a) = m /\ Len(s) \in Nat /\ a[m] = n /\ m \in 1..m
          /\ m - 1 = Len(s)
          /\ \A i \in 1..Len(s) : i \in 1..m /\ a[i] = s[i]
      BY AppendIs
    <3> HIDE DEF a
    <3>2. At(a, Len(a) - 1) = At(s, Len(s))
      BY <3>1 DEF At
    <3> QED BY <1>4, <3>1, <3>2 DEF At
  <2>4. \E u \in Threads : pc'[u] = "tail" /\ prio'[u] = q
    BY <1>0
  <2> QED BY <2>1, <2>2, <2>3, <2>4 DEF Ends
<1>9. Memory(rs)'
  <2>1. \A u \in Threads, c \in Chunks \cup {Null} :
          /\ Entering(u, c)' <=> Entering(u, c) /\ u # t
          /\ Leaving(u, c)' <=> Leaving(u, c)
    BY DEF Entering, Leaving
  <2>2. \A c \in Chunks \cup {Null} : (Entering(t, c) => c = n) /\ ~Leaving(t, c)
    BY DEF Entering, Leaving
  <2>3. ASSUME NEW c \in used
        PROVE  \/ \E p \in Prios : c \in Elements(rs[p])
               \/ \E u \in Threads : Entering(u, c)' \/ Leaving(u, c)'
    <3>1. CASE c = n
      BY <1>6, <3>1
    <3>2. ASSUME NEW p \in Prios, c \in Elements(qs[p]) PROVE \E o \in Prios : c \in Elements(rs[o])
      BY <1>6, <3>2
    <3>3. ASSUME NEW u \in Threads, c # n, Entering(u, c) \/ Leaving(u, c)
          PROVE  \E v \in Threads : Entering(v, c)' \/ Leaving(v, c)'
      BY <2>1, <2>2, <3>3 DEF TypeOK
    <3> QED BY <3>1, <3>2, <3>3 DEF Memory
  <2>4. n \in used
    BY DEF Memory, Entering
  <2>5. ASSUME NEW p \in Prios PROVE Elements(rs[p]) \subseteq used'
    <3>1. Elements(qs[p]) \subseteq used
      BY DEF Memory
    <3>2. Elements(rs[p]) \subseteq Elements(qs[p]) \cup {n}
      BY <1>6
    <3> QED BY <2>4, <3>1, <3>2
  <2>6. ASSUME NEW u \in Threads, NEW c \in Chunks \cup {Null}, Entering(u, c)' \/ Leaving(u, c)'
        PROVE  /\ c \in used'
               /\ \A p \in Prios : c \notin Elements(rs[p])
               /\ \A v \in Threads \ {u} : ~Entering(v, c)' /\ ~Leaving(v, c)'
    <3>1. u # t /\ c # n /\ (Entering(u, c) \/ Leaving(u, c))
      BY <1>2, <2>1, <2>2, <2>6
    <3>2. /\ c \in used /\ \A p \in Prios : c \notin Elements(qs[p])
          /\ \A v \in Threads \ {u} : ~Entering(v, c) /\ ~Leaving(v, c)
      BY <3>1 DEF Memory
    <3> QED BY <1>6, <2>1, <3>1, <3>2
  <2> QED BY <2>3, <2>5, <2>6 DEF Memory
<1>10. Holders' /\ Roles'
  BY DEF Holders, Roles, InService
<1>11. Service(rs)'
  <2>1. \A u \in Threads : pc'[u] # "scan" /\ (InService(u)' => u = t /\ InService(t))
    BY <1>3 DEF InService
  <2>2. ASSUME InService(t)
        PROVE  rs[queue'[t]] # <<>> /\ item'[t] = rs[queue'[t]][1]
    <3>1. qs[queue[t]] # <<>> /\ item[t] = qs[queue[t]][1] /\ queue[t] \in Prios
      BY <2>2 DEF Service, TypeOK
    <3>2. CASE queue[t] = q
      <4>1. 1 \in 1..Len(s)
        BY <3>1, <3>2
      <4>2. Append(s, n) # <<>> /\ Append(s, n)[1] = s[1]
        BY <4>1, AppendIs
      <4>3. rs[queue[t]] = Append(s, n) /\ item[t] = s[1]
        BY <3>1, <3>2
      <4> QED BY <4>2, <4>3
    <3>3. CASE queue[t] # q
      BY <3>1, <3>3
    <3> QED BY <3>2, <3>3
  <2> QED BY <2>1, <2>2 DEF Service
<1>12. Counting(rs)'
  BY <1>3 DEF Counting
<1> QED BY <1>1, <1>7, <1>8, <1>9, <1>10, <1>11, <1>12

\* The queues once the event that was served is unlinked.
Unlinking(qs, t) == [qs EXCEPT ![queue[t]] = Tail(@)]

\* The empty sequence is the one of length zero.
LEMMA EmptyIs ==
  ASSUME NEW s \in Seq(Chunks), Len(s) = 0
  PROVE  s = <<>>
OBVIOUS

\* More than one is two at least.
LEMMA TwoIs ==
  ASSUME NEW n \in Nat, 1 \in 1..n, n # 1
  PROVE  2 \in 1..n /\ n \in 1..n /\ n - 1 \in 1..(n - 1) /\ (n - 1) + 1 = n
OBVIOUS

\* What taking the first off does to a sequence.
LEMMA TailIs ==
  ASSUME NEW s \in Seq(Chunks), s # <<>>, \A i, j \in 1..Len(s) : s[i] = s[j] => i = j
  PROVE  /\ Tail(s) \in Seq(Chunks) /\ Len(s) \in Nat /\ Len(Tail(s)) = Len(s) - 1
         /\ 1 \in 1..Len(s) /\ Len(s) \in 1..Len(s)
         /\ \A i \in 1..(Len(s) - 1) : i + 1 \in 1..Len(s) /\ i + 1 # 1 /\ Tail(s)[i] = s[i + 1]
         /\ \A i \in 1..Len(s) : i = 1 \/ (i - 1 \in 1..(Len(s) - 1) /\ (i - 1) + 1 = i)
         /\ Elements(Tail(s)) = Elements(s) \ {s[1]}
<1>1. /\ Tail(s) \in Seq(Chunks) /\ Len(s) \in Nat /\ Len(Tail(s)) = Len(s) - 1
      /\ 1 \in 1..Len(s) /\ Len(s) \in 1..Len(s)
      /\ \A i \in 1..(Len(s) - 1) : i + 1 \in 1..Len(s) /\ i + 1 # 1 /\ Tail(s)[i] = s[i + 1]
      /\ \A i \in 1..Len(s) : i = 1 \/ (i - 1 \in 1..(Len(s) - 1) /\ (i - 1) + 1 = i)
  OBVIOUS
<1>2. Elements(Tail(s)) = Elements(s) \ {s[1]}
  <2> DEFINE a == Tail(s)
             m == Len(s) - 1
  <2>1. /\ Len(a) = m
        /\ \A i \in 1..m : i + 1 \in 1..Len(s) /\ i + 1 # 1 /\ a[i] = s[i + 1]
        /\ \A i \in 1..Len(s) : i = 1 \/ (i - 1 \in 1..m /\ (i - 1) + 1 = i)
        /\ 1 \in 1..Len(s)
    BY <1>1
  <2> HIDE DEF a, m
  <2>2. ASSUME NEW c \in Elements(a) PROVE c \in Elements(s) \ {s[1]}
    <3>1. PICK i \in 1..m : c = a[i]
      BY <2>1 DEF Elements
    <3>2. c = s[i + 1] /\ i + 1 \in 1..Len(s) /\ i + 1 # 1
      BY <2>1, <3>1
    <3> QED BY <2>1, <3>2 DEF Elements
  <2>3. ASSUME NEW c \in Elements(s) \ {s[1]} PROVE c \in Elements(a)
    <3>1. PICK i \in 1..Len(s) : c = s[i]
      BY DEF Elements
    <3>2. i - 1 \in 1..m /\ (i - 1) + 1 = i
      BY <2>1, <3>1
    <3>3. c = a[i - 1]
      BY <2>1, <3>1, <3>2
    <3> QED BY <2>1, <3>2, <3>3 DEF Elements
  <2>4. Elements(a) = Elements(s) \ {s[1]}
    BY <2>2, <2>3
  <2> QED BY <2>4 DEF a
<1> QED BY <1>1, <1>2

\* first = first->next leaves the rest of the list.
LEMMA ChainTail ==
  ASSUME NEW nx, NEW c, NEW s \in Seq(Chunks), Chain(nx, c, s), s # <<>>
  PROVE  /\ c = s[1] /\ nx[c] = At(s, 2)
         /\ Chain(nx, nx[c], Tail(s))
<1> DEFINE a == Tail(s)
           m == Len(s) - 1
<1>0. \A i, j \in 1..Len(s) : s[i] = s[j] => i = j
  BY DEF Chain
<1>1. /\ Len(a) = m /\ Len(s) \in Nat /\ 1 \in 1..Len(s)
      /\ \A i \in 1..m : i + 1 \in 1..Len(s) /\ a[i] = s[i + 1]
  BY <1>0, TailIs
<1> HIDE DEF a
<1>2. c = s[1] /\ nx[c] = At(s, 2)
  BY <1>1 DEF Chain, At
<1>3. \A i \in Nat : i > 0 => At(a, i) = At(s, i + 1)
  <2>1. ASSUME NEW i \in Nat, i > 0 PROVE At(a, i) = At(s, i + 1)
    <3>1. CASE i \in 1..m
      BY <1>1, <3>1 DEF At
    <3>2. CASE i \notin 1..m
      <4>1. i + 1 \notin 1..Len(s)
        BY <1>1, <2>1, <3>2
      <4> QED BY <1>1, <3>2, <4>1 DEF At
    <3> QED BY <3>1, <3>2
  <2> QED BY <2>1
<1>4. nx[c] = At(a, 1)
  BY <1>2, <1>3
<1>5. \A i, j \in 1..m : a[i] = a[j] => i = j
  BY <1>0, <1>1
<1>6. ASSUME NEW i \in 1..m PROVE nx[a[i]] = At(a, i + 1)
  <2>1. nx[s[i + 1]] = At(s, (i + 1) + 1)
    BY <1>1 DEF Chain
  <2>2. At(a, i + 1) = At(s, (i + 1) + 1)
    <3>1. i + 1 \in Nat /\ i + 1 > 0
      BY <1>1
    <3> QED BY <1>3, <3>1
  <2>3. a[i] = s[i + 1]
    BY <1>1
  <2> QED BY <2>1, <2>2, <2>3
<1>7. Chain(nx, nx[c], a)
  BY <1>1, <1>4, <1>5, <1>6 DEF Chain
<1> QED BY <1>2, <1>7 DEF a

\* STAILQ_REMOVE_HEAD takes the event that was served off its queue.
LEMMA UnlinkGood ==
  ASSUME TypeOK, NEW qs \in [Prios -> Seq(Chunks)], Good(qs), Unshared,
         NEW t \in Threads, Unlink(t), NEW rs, rs = Unlinking(qs, t)
  PROVE  TypeOK' /\ rs \in [Prios -> Seq(Chunks)] /\ Good(rs)'
<1> DEFINE q == queue[t]
           s == qs[q]
<1>0. /\ pc[t] = "unlink" /\ t \in Servers /\ InService(t)
      /\ q \in Prios /\ s \in Seq(Chunks) /\ s # <<>> /\ item[t] = s[1] /\ s[1] \in Chunks
      /\ \A i, j \in 1..Len(s) : s[i] = s[j] => i = j
  <2>1. pc[t] = "unlink" /\ InService(t) /\ t \in Servers
    BY DEF Unlink, InService, Good, Roles
  <2>2. q \in Prios /\ s \in Seq(Chunks)
    BY DEF TypeOK
  <2>3. s # <<>> /\ item[t] = s[1]
    BY <2>1 DEF Good, Service
  <2> QED BY <2>1, <2>2, <2>3 DEF Good, Lists, Chain
<1>1. first[q] = s[1] /\ next[s[1]] = At(s, 2) /\ Chain(next, next[s[1]], Tail(s))
  <2>1. Chain(next, first[q], s)
    BY <1>0 DEF Good, Lists
  <2> QED BY <1>0, <2>1, ChainTail
<1>2. /\ first' = [first EXCEPT ![q] = next[s[1]]]
      /\ pc' = [pc EXCEPT ![t] = IF next[s[1]] = Null THEN "retail" ELSE "free"]
      /\ UNCHANGED <<next, last, used, owner, insert, scan>>
  BY <1>0, <1>1, QueueAssumption DEF Unlink, Goto
<1>3. \A u \in Threads \ {t} : Stays(u)
  BY <1>2 DEF insert, scan, TypeOK, Stays
<1>4. /\ rs \in [Prios -> Seq(Chunks)] /\ rs[q] = Tail(s)
      /\ \A p \in Prios : p # q => rs[p] = qs[p]
  <2>1. Tail(s) \in Seq(Chunks)
    BY <1>0
  <2> QED BY <1>0, <2>1 DEF Unlinking
<1>5. TypeOK'
  <2>1. next[s[1]] \in Chunks \cup {Null}
    BY <1>0 DEF TypeOK
  <2> QED BY <1>2, <2>1 DEF insert, scan, TypeOK
<1>6. pc'[t] = IF Len(s) = 1 THEN "retail" ELSE "free"
  <2>1. next[s[1]] = Null <=> Len(s) = 1
    <3>1. CASE Len(s) = 1
      BY <1>1, <3>1 DEF At
    <3>2. CASE Len(s) # 1
      <4>1. Len(s) \in Nat /\ 1 \in 1..Len(s)
        BY <1>0, TailIs
      <4>2. 2 \in 1..Len(s)
        BY <3>2, <4>1, TwoIs
      <4>3. s[2] \in Chunks
        BY <1>0, <4>2
      <4> QED BY <1>1, <3>2, <4>2, <4>3, QueueAssumption DEF At
    <3> QED BY <3>1, <3>2
  <2> QED BY <1>2, <2>1 DEF TypeOK
<1> USE <1>0, <1>2, <1>3, <1>4 DEF Good, insert, scan, Stays
<1>7. \A u \in Threads \ {t} : pc[u] \in {"idle", "lock"} /\ ~InService(u)
  BY OthersWait
<1>8. /\ Elements(rs[q]) = Elements(s) \ {s[1]} /\ s[1] \in Elements(s)
      /\ \A p \in Prios : p # q => Elements(rs[p]) = Elements(qs[p]) /\ s[1] \notin Elements(qs[p])
  <2>1. Elements(rs[q]) = Elements(s) \ {s[1]} /\ 1 \in 1..Len(s)
    BY TailIs
  <2>2. s[1] \in Elements(s)
    BY <2>1 DEF Elements
  <2>3. ASSUME NEW p \in Prios, p # q PROVE s[1] \notin Elements(qs[p])
    <3>1. Elements(s) \cap Elements(qs[p]) = {}
      BY <2>3 DEF Lists
    <3> QED BY <2>2, <3>1
  <2> QED BY <2>1, <2>2, <2>3
<1>9. Lists(rs)'
  <2>1. Chain(next', first'[q], rs[q])
    BY <1>1 DEF TypeOK
  <2>2. ASSUME NEW p \in Prios, p # q PROVE Chain(next', first'[p], rs[p])
    BY <2>2 DEF Lists, TypeOK
  <2>3. ASSUME NEW o \in Prios, NEW p \in Prios, o # p
        PROVE  Elements(rs[o]) \cap Elements(rs[p]) = {}
    <3>1. Elements(qs[o]) \cap Elements(qs[p]) = {}
      BY <2>3 DEF Lists
    <3>2. Elements(rs[o]) \subseteq Elements(qs[o]) /\ Elements(rs[p]) \subseteq Elements(qs[p])
      BY <1>8
    <3> QED BY <3>1, <3>2
  <2>4. \A u \in Threads : pc'[u] # "link"
    BY <1>6, <1>7
  <2> QED BY <2>1, <2>2, <2>3, <2>4 DEF Lists
<1>10. Ends(rs)'
  <2>1. \A u \in Threads \ {t} : pc'[u] # "tail" /\ pc'[u] # "retail"
    BY <1>7
  <2>2. \A p \in Prios : last[p] = At(qs[p], Len(qs[p]))
    BY <1>7 DEF Ends
  <2>3. CASE Len(s) = 1
    <3>1. rs[q] = <<>>
      <4>1. Tail(s) \in Seq(Chunks) /\ Len(Tail(s)) = 0
        BY <2>3, TailIs
      <4> QED BY <4>1, EmptyIs
    <3>2. last'[q] = item'[t]
      BY <2>2, <2>3 DEF At
    <3>3. \E u \in Threads : pc'[u] = "retail" /\ queue'[u] = q
      BY <1>6, <2>3
    <3> QED BY <1>6, <2>1, <2>2, <2>3, <3>1, <3>2, <3>3 DEF Ends
  <2>4. CASE Len(s) # 1
    <3>1. /\ Len(rs[q]) = Len(s) - 1 /\ Len(s) - 1 \in 1..(Len(s) - 1) /\ Len(s) \in 1..Len(s)
          /\ rs[q][Len(s) - 1] = s[Len(s)]
      <4>1. /\ Len(Tail(s)) = Len(s) - 1 /\ Len(s) \in 1..Len(s) /\ Len(s) - 1 \in 1..(Len(s) - 1)
            /\ (Len(s) - 1) + 1 = Len(s)
        <5>1. Len(s) \in Nat /\ 1 \in 1..Len(s) /\ Len(Tail(s)) = Len(s) - 1
          BY TailIs
        <5> QED BY <2>4, <5>1, TwoIs
      <4>2. Tail(s)[Len(s) - 1] = s[(Len(s) - 1) + 1]
        BY <4>1, TailIs
      <4> QED BY <4>1, <4>2
    <3>2. At(rs[q], Len(rs[q])) = At(s, Len(s))
      BY <3>1 DEF At
    <3>3. \A p \in Prios : last'[p] = At(rs[p], Len(rs[p]))
      BY <2>2, <3>2
    <3>4. \A u \in Threads : pc'[u] # "tail" /\ pc'[u] # "retail"
      BY <1>6, <2>1, <2>4
    <3> QED BY <3>3, <3>4 DEF Ends
  <2> QED BY <2>3, <2>4
<1>11. Memory(rs)'
  <2>1. \A u \in Threads, c \in Chunks \cup {Null} :
          /\ Entering(u, c)' <=> Entering(u, c)
          /\ Leaving(u, c)' <=> Leaving(u, c) \/ (u = t /\ c = s[1])
    BY <1>6 DEF Entering, Leaving
  <2>2. \A u \in Threads : ~Entering(u, s[1]) /\ ~Leaving(u, s[1])
    BY <1>8 DEF Memory
  <2>3. ASSUME NEW c \in used
        PROVE  \/ \E p \in Prios : c \in Elements(rs[p])
               \/ \E u \in Threads : Entering(u, c)' \/ Leaving(u, c)'
    <3>1. CASE c = s[1]
      BY <2>1, <3>1
    <3>2. ASSUME NEW p \in Prios, c # s[1], c \in Elements(qs[p])
          PROVE  \E o \in Prios : c \in Elements(rs[o])
      BY <1>8, <3>2
    <3>3. ASSUME NEW u \in Threads, Entering(u, c) \/ Leaving(u, c)
          PROVE  \E v \in Threads : Entering(v, c)' \/ Leaving(v, c)'
      BY <2>1, <3>3 DEF TypeOK
    <3> QED BY <3>1, <3>2, <3>3 DEF Memory
  <2>4. ASSUME NEW p \in Prios PROVE Elements(rs[p]) \subseteq used'
    BY <1>8 DEF Memory
  <2>5. ASSUME NEW u \in Threads, NEW c \in Chunks \cup {Null}, Entering(u, c)' \/ Leaving(u, c)'
        PROVE  /\ c \in used'
               /\ \A p \in Prios : c \notin Elements(rs[p])
               /\ \A v \in Threads \ {u} : ~Entering(v, c)' /\ ~Leaving(v, c)'
    <3>1. CASE u = t /\ c = s[1]
      <4>1. c \in used'
        BY <1>8, <3>1 DEF Memory
      <4>2. \A p \in Prios : c \notin Elements(rs[p])
        BY <1>8, <3>1
      <4> QED BY <2>1, <2>2, <3>1, <4>1, <4>2
    <3>2. CASE ~(u = t /\ c = s[1])
      <4>1. Entering(u, c) \/ Leaving(u, c)
        BY <2>1, <2>5, <3>2
      <4>2. c # s[1]
        BY <2>2, <4>1
      <4>3. /\ c \in used /\ \A p \in Prios : c \notin Elements(qs[p])
            /\ \A v \in Threads \ {u} : ~Entering(v, c) /\ ~Leaving(v, c)
        BY <4>1 DEF Memory
      <4> QED BY <1>8, <2>1, <4>2, <4>3
    <3> QED BY <3>1, <3>2
  <2> QED BY <2>3, <2>4, <2>5 DEF Memory
<1>12. Holders' /\ Roles'
  BY <1>6 DEF Holders, Roles, InService
<1>13. Service(rs)' /\ Counting(rs)'
  <2>1. \A u \in Threads : pc'[u] \in {"idle", "lock", "retail", "free"} /\ ~InService(u)'
    BY <1>6, <1>7 DEF InService
  <2> QED BY <2>1 DEF Service, Counting
<1> QED BY <1>5, <1>9, <1>10, <1>11, <1>12, <1>13

-----------------------------------------------------------------------------
(* The invariant. *)

\* The steps that leave the queues as they are.
Quiet(t) ==
  \/ QueueCall(t) \/ QueueLock(t) \/ InsertEnd(t) \/ InsertTail(t) \/ QueueUnlock(t)
  \/ DequeueCall(t) \/ Scan(t) \/ Process(t) \/ ActionReturn(t)
  \/ Delete(t) \/ Retail(t) \/ DeleteFree(t)
  \/ CountCall(t) \/ CountNext(t) \/ CountQueue(t) \/ CountReturn(t)

\* None of them breaks the lists.
LEMMA QuietGood ==
  ASSUME TypeOK, NEW qs \in [Prios -> Seq(Chunks)], Good(qs), Unshared,
         NEW t \in Threads, Quiet(t)
  PROVE  TypeOK' /\ Good(qs)'
<1>1. CASE QueueCall(t) \/ QueueLock(t) \/ InsertEnd(t) \/ InsertTail(t) \/ QueueUnlock(t)
  BY <1>1, QueueCallGood, QueueLockGood, InsertEndGood, InsertTailGood, QueueUnlockGood
<1>2. CASE DequeueCall(t) \/ Scan(t) \/ Process(t) \/ ActionReturn(t)
  BY <1>2, DequeueCallGood, ScanGood, ProcessGood, ActionReturnGood
<1>3. CASE Delete(t) \/ Retail(t) \/ DeleteFree(t)
  BY <1>3, DeleteGood, RetailGood, DeleteFreeGood
<1>4. CASE CountCall(t) \/ CountNext(t) \/ CountQueue(t) \/ CountReturn(t)
  BY <1>4, CountCallGood, CountNextGood, CountQueueGood, CountReturnGood
<1> QED BY <1>1, <1>2, <1>3, <1>4 DEF Quiet

\* Every step of a thread is one of these, or links or unlinks an event.
LEMMA NextIs ==
  Next <=> \E t \in Threads : Quiet(t) \/ InsertLink(t) \/ Unlink(t)
BY DEF Next, Quiet, Step, QueueStep, DequeueStep, CountStep

\* Empty queues represent the state fsm_init leaves.
LEMMA InitGood ==
  ASSUME Init
  PROVE  Inv
<1> DEFINE qs == [q \in Prios |-> <<>>]
<1>1. /\ qs \in [Prios -> Seq(Chunks)] /\ 0 \in Prios /\ 0 \in 0..Cardinality(Chunks)
      /\ \A q \in Prios : qs[q] = <<>> /\ At(qs[q], 1) = Null /\ At(qs[q], Len(qs[q])) = Null
                          /\ Elements(qs[q]) = {} /\ Len(qs[q]) = 0
  <2>1. 0 \in Prios
    BY QueueAssumption DEF Prios
  <2>2. 0 \in 0..Cardinality(Chunks)
    BY FS_CardinalityType, QueueAssumption
  <2> QED BY <2>1, <2>2 DEF At, Elements
<1>2. TypeOK
  BY <1>1 DEF Init, TypeOK
<1> HIDE DEF qs
<1> USE <1>1 DEF Init
<1>3. Lists(qs)
  BY DEF Lists, Chain
<1>4. Ends(qs)
  BY DEF Ends
<1>5. Memory(qs)
  BY DEF Memory, Entering, Leaving
<1>6. Holders /\ Roles
  BY DEF Holders, Roles, InService
<1>7. Service(qs) /\ Counting(qs)
  BY DEF Service, Counting, InService
<1> QED BY <1>2, <1>3, <1>4, <1>5, <1>6, <1>7 DEF Inv, Good

\* The lists stay whole, whatever thread takes whatever step.
LEMMA NextGood ==
  ASSUME Unshared, Inv, [Next]_vars
  PROVE  Inv'
<1>0. TypeOK
  BY DEF Inv
<1>1. PICK qs \in [Prios -> Seq(Chunks)] : Good(qs)
  BY DEF Inv
<1>2. ASSUME NEW t \in Threads, Quiet(t) PROVE Inv'
  BY <1>0, <1>1, <1>2, QuietGood DEF Inv
<1>3. ASSUME NEW t \in Threads, InsertLink(t) PROVE Inv'
  BY <1>0, <1>1, <1>3, InsertLinkGood DEF Inv
<1>4. ASSUME NEW t \in Threads, Unlink(t) PROVE Inv'
  BY <1>0, <1>1, <1>4, UnlinkGood DEF Inv
<1>5. CASE UNCHANGED vars
  <2>1. TypeOK' /\ Good(qs)'
    BY <1>0, <1>1, <1>5 DEF vars, TypeOK, Good, Lists, Ends, Memory, Entering, Leaving,
                            Holders, Roles, Service, Counting, InService
  <2> QED BY <2>1 DEF Inv
<1> QED BY <1>2, <1>3, <1>4, <1>5, NextIs

\* The lists are whole in every reachable state.
THEOREM QueuesWhole ==
  ASSUME Unshared
  PROVE  Spec => []Inv
BY InitGood, NextGood, PTL DEF Spec

-----------------------------------------------------------------------------
(* What the invariant says of the lists. *)

\* The sequences that stand for the lists are what a walk along the links finds.
LEMMA Represent ==
  \A qs \in [Prios -> Seq(Chunks)] : Good(qs) =>
    /\ Held = qs
    /\ \A q \in Prios : Linked(q) = Elements(qs[q])
<1> SUFFICES ASSUME NEW qs \in [Prios -> Seq(Chunks)], Good(qs)
             PROVE  Held = qs /\ \A q \in Prios : Linked(q) = Elements(qs[q])
  OBVIOUS
<1>1. \A q \in Prios : Walk(first[q]) = qs[q] /\ Linked(q) = Elements(qs[q])
  <2>1. ASSUME NEW q \in Prios PROVE Walk(first[q]) = qs[q] /\ Linked(q) = Elements(qs[q])
    BY WalkIs DEF Good, Lists
  <2> QED BY <2>1
<1> QED BY <1>1 DEF Held

\* No event is lost between the tail of its queue and the free of the thread
\* that served it.
THEOREM NoEventLost ==
  ASSUME Unshared
  PROVE  Spec => []NoLostEvent
<1>1. Inv => NoLostEvent
  <2> SUFFICES ASSUME Inv, \A t \in Threads : pc[t] \notin {"tail", "retail"}, NEW c \in used
               PROVE  \/ \E q \in Prios : c \in Linked(q)
                      \/ \E t \in Threads : new[t] = c /\ pc[t] \in {"lock", "end", "link"}
                      \/ \E t \in Threads : item[t] = c /\ pc[t] = "free"
    BY DEF NoLostEvent
  <2>1. PICK qs \in [Prios -> Seq(Chunks)] : Good(qs)
    BY DEF Inv
  <2>2. \/ \E q \in Prios : c \in Elements(qs[q])
        \/ \E t \in Threads : Entering(t, c) \/ Leaving(t, c)
    BY <2>1 DEF Good, Memory
  <2>3. ASSUME NEW q \in Prios, c \in Elements(qs[q]) PROVE \E p \in Prios : c \in Linked(p)
    BY <2>1, <2>3, Represent
  <2> QED BY <2>2, <2>3 DEF Entering, Leaving
<1> QED BY <1>1, QueuesWhole, PTL

\* Nothing that is still linked or looked at has been freed.
THEOREM NothingDangles ==
  ASSUME Unshared
  PROVE  Spec => []NoDangling
<1>1. Inv => NoDangling
  <2> SUFFICES ASSUME Inv PROVE NoDangling
    OBVIOUS
  <2>0. TypeOK
    BY DEF Inv
  <2>1. PICK qs \in [Prios -> Seq(Chunks)] : Good(qs)
    BY DEF Inv
  <2> USE <2>0, <2>1 DEF Good
  <2>2. ASSUME NEW q \in Prios, NEW i \in 1..Len(qs[q])
        PROVE  qs[q][i] \in used
    BY DEF Memory, Elements
  <2>3. ASSUME NEW q \in Prios, NEW i, At(qs[q], i) # Null
        PROVE  At(qs[q], i) \in used
    BY <2>2, <2>3 DEF At
  <2>4. ASSUME NEW q \in Prios PROVE Linked(q) \subseteq used
    BY Represent DEF Memory
  <2>5. ASSUME NEW q \in Prios, last[q] # Null PROVE last[q] \in used
    <3>1. CASE last[q] = At(qs[q], Len(qs[q]))
      BY <2>3, <2>5, <3>1
    <3>2. ASSUME NEW t \in Threads, pc[t] = "tail", prio[t] = q PROVE last[q] \in used
      <4>1. last[q] = At(qs[q], Len(qs[q]) - 1)
        BY <3>2 DEF Ends
      <4> QED BY <2>3, <2>5, <4>1
    <3>3. ASSUME NEW t \in Threads, pc[t] = "retail", queue[t] = q PROVE last[q] \in used
      <4>1. last[q] = item[t]
        BY <3>3 DEF Ends
      <4> QED BY <3>3, <4>1 DEF Memory, Leaving, TypeOK
    <3> QED BY <3>1, <3>2, <3>3 DEF Ends
  <2>6. ASSUME NEW t \in Threads, pc[t] \in {"process", "action", "unlink"} PROVE item[t] \in used
    <3>1. queue[t] \in Prios /\ qs[queue[t]] # <<>> /\ item[t] = qs[queue[t]][1]
      BY <2>6 DEF Service, InService, TypeOK
    <3>2. 1 \in 1..Len(qs[queue[t]])
      BY <3>1
    <3> QED BY <2>2, <3>1, <3>2
  <2>7. ASSUME NEW t \in Threads, pc[t] \in {"lock", "end", "link", "tail"} PROVE new[t] \in used
    <3>1. CASE pc[t] = "tail"
      <4>1. prio[t] \in Prios /\ qs[prio[t]] # <<>> /\ new[t] = At(qs[prio[t]], Len(qs[prio[t]]))
        BY <3>1 DEF Ends, TypeOK
      <4>2. Len(qs[prio[t]]) \in 1..Len(qs[prio[t]])
        BY <4>1
      <4> QED BY <2>2, <4>1, <4>2 DEF At
    <3>2. CASE pc[t] # "tail"
      BY <2>7, <3>2 DEF Memory, Entering, TypeOK
    <3> QED BY <3>1, <3>2
  <2> QED BY <2>4, <2>5, <2>6, <2>7 DEF NoDangling, Roles
<1> QED BY <1>1, QueuesWhole, PTL

\* A count is that of all events queued at the moment it is returned.
THEOREM CountsExact ==
  ASSUME Unshared
  PROVE  Spec => []CountExact
<1>1. Inv => CountExact
  <2> SUFFICES ASSUME Inv, NEW t \in Threads, pc[t] = "counted"
               PROVE  total[t] = Cardinality(UNION {Linked(q) : q \in Prios})
    BY DEF CountExact
  <2>1. PICK qs \in [Prios -> Seq(Chunks)] : Good(qs)
    BY DEF Inv
  <2>2. total[t] = Cardinality(Queued(qs))
    BY <2>1 DEF Good, Counting
  <2>3. \A q \in Prios : Linked(q) = Elements(qs[q]) /\ Elements(qs[q]) \subseteq Chunks
    BY <2>1, Represent DEF Elements
  <2>4. UNION {Linked(q) : q \in Prios} = Queued(qs)
    BY <2>3 DEF Queued
  <2> QED BY <2>2, <2>4
<1> QED BY <1>1, QueuesWhole, PTL

-----------------------------------------------------------------------------
(* The lists implement queues served in order and by priority. *)

\* The same, of the abstract queues alone.
LEMMA HeldIs == \A rs \in [Prios -> Seq(Chunks)] : Good(rs) => Held = rs
BY Represent

\* The abstract queues after a step are those that represent the lists then.
LEMMA RepresentNext ==
  ASSUME NEW qs \in [Prios -> Seq(Chunks)], Good(qs)'
  PROVE  Held' = qs
<1>1. (\A rs \in [Prios -> Seq(Chunks)] : Good(rs) => Held = rs)'
  BY HeldIs, PTL
<1> QED BY <1>1

\* A step that leaves the queues as they are serves an event or changes nothing.
LEMMA QuietServes ==
  ASSUME TypeOK, NEW qs \in [Prios -> Seq(Chunks)], Good(qs), Unshared,
         NEW t \in Threads, Quiet(t)
  PROVE  \/ UNCHANGED Serving
         \/ /\ t \in Servers /\ ~InService(t) /\ queue[t] \in Prios /\ qs[queue[t]] # <<>>
            /\ \A q \in Prios : q > queue[t] => qs[q] = <<>>
            /\ Serving' = [Serving EXCEPT ![t] = <<queue[t], qs[queue[t]][1]>>]
<1> USE DEF Good
<1>1. ASSUME \A u \in Servers : /\ InService(u)' <=> InService(u)
                                /\ InService(u) => queue'[u] = queue[u] /\ item'[u] = item[u]
      PROVE  UNCHANGED Serving
  BY <1>1 DEF Serving
<1>2. CASE Scan(t) /\ first[queue[t]] # Null
  <2>1. t \in Servers /\ pc[t] = "scan" /\ ~InService(t) /\ queue[t] \in Prios
    BY <1>2 DEF Scan, Roles, InService, TypeOK
  <2>2. first[queue[t]] = At(qs[queue[t]], 1)
    BY <2>1 DEF Lists, Chain
  <2>3. qs[queue[t]] # <<>> /\ first[queue[t]] = qs[queue[t]][1]
    <3>1. qs[queue[t]] \in Seq(Chunks)
      BY <2>1
    <3> QED BY <1>2, <2>2, <3>1 DEF At
  <2>4. \A q \in Prios : q > queue[t] => qs[q] = <<>>
    BY <2>1 DEF Service
  <2>5. /\ pc' = [pc EXCEPT ![t] = "process"] /\ item' = [item EXCEPT ![t] = first[queue[t]]]
        /\ queue' = queue /\ back' = back
    BY <1>2 DEF Scan, Goto, insert
  <2>6. Serving' = [Serving EXCEPT ![t] = <<queue[t], qs[queue[t]][1]>>]
    <3>1. InService(t)' /\ queue'[t] = queue[t] /\ item'[t] = qs[queue[t]][1]
      BY <2>1, <2>3, <2>5 DEF TypeOK, InService
    <3>2. \A u \in Servers \ {t} : (InService(u)' <=> InService(u)) /\ queue'[u] = queue[u] /\ item'[u] = item[u]
      BY <2>1, <2>5, QueueAssumption DEF TypeOK, InService
    <3> QED BY <2>1, <3>1, <3>2 DEF Serving
  <2> QED BY <2>1, <2>3, <2>4, <2>6
<1>3. CASE Delete(t)
  <2>1. pc[t] = "delete" /\ InService(t) /\ queue[t] \in Prios
    BY <1>3 DEF Delete, InService, TypeOK
  <2>2. qs[queue[t]] # <<>> /\ item[t] = qs[queue[t]][1]
    BY <2>1 DEF Service
  <2>3. first[queue[t]] = item[t]
    <3>1. first[queue[t]] = At(qs[queue[t]], 1) /\ qs[queue[t]] \in Seq(Chunks)
      BY <2>1 DEF Lists, Chain
    <3> QED BY <2>2, <3>1 DEF At
  <2>4. item' = item /\ queue' = queue /\ back' = back /\ pc' = [pc EXCEPT ![t] = "unlink"]
    BY <1>3, <2>3 DEF Delete, Goto, insert, TypeOK
  <2> QED BY <1>1, <2>1, <2>4 DEF InService, TypeOK
<1>4. CASE Scan(t) /\ first[queue[t]] = Null
  <2>1. ~InService(t) /\ pc[t] = "scan"
    BY <1>4 DEF Scan, InService
  <2>2. /\ item' = item /\ back' = back /\ \A u \in Threads \ {t} : queue'[u] = queue[u] /\ pc'[u] = pc[u]
        /\ pc'[t] \in {"scan", "idle"}
    BY <1>4 DEF Scan, Goto, insert, TypeOK
  <2>3. ~InService(t)'
    BY <2>2 DEF InService
  <2> QED BY <1>1, <2>1, <2>2, <2>3, QueueAssumption DEF InService
<1>5. CASE QueueCall(t) \/ QueueLock(t) \/ InsertEnd(t) \/ InsertTail(t) \/ QueueUnlock(t)
  <2>1. queue' = queue /\ item' = item
    BY <1>5 DEF QueueCall, QueueLock, InsertEnd, InsertTail, QueueUnlock, scan
  <2>2. \A u \in Threads \ {t} : pc'[u] = pc[u] /\ back'[u] = back[u]
    BY <1>5 DEF QueueCall, QueueLock, InsertEnd, InsertTail, QueueUnlock, insert, Goto, TypeOK
  <2>3. InService(t)' <=> InService(t)
    <3>1. CASE QueueCall(t)
      BY <3>1 DEF QueueCall, Goto, InService, TypeOK
    <3>2. CASE QueueLock(t) \/ InsertEnd(t) \/ InsertTail(t)
      BY <3>2 DEF QueueLock, InsertEnd, InsertTail, insert, Goto, InService, TypeOK
    <3>3. CASE QueueUnlock(t)
      BY <3>3 DEF QueueUnlock, insert, Goto, InService, TypeOK
    <3> QED BY <1>5, <3>1, <3>2, <3>3
  <2> QED BY <1>1, <2>1, <2>2, <2>3, QueueAssumption DEF InService
<1>6. CASE \/ DequeueCall(t) \/ Process(t) \/ ActionReturn(t) \/ Retail(t) \/ DeleteFree(t)
           \/ CountCall(t) \/ CountNext(t) \/ CountQueue(t) \/ CountReturn(t)
  <2>1. \A u \in Threads \ {t} : /\ pc'[u] = pc[u] /\ back'[u] = back[u]
                                 /\ queue'[u] = queue[u] /\ item'[u] = item[u]
    <3>1. CASE DequeueCall(t) \/ Process(t) \/ ActionReturn(t) \/ Retail(t) \/ DeleteFree(t)
      BY <3>1 DEF DequeueCall, Process, ActionReturn, Retail, DeleteFree, insert, scan, Goto, TypeOK
    <3>2. CASE CountCall(t) \/ CountNext(t) \/ CountQueue(t) \/ CountReturn(t)
      BY <3>2 DEF CountCall, CountNext, CountQueue, CountReturn, insert, scan, Goto, TypeOK
    <3> QED BY <1>6, <3>1, <3>2
  <2>2. CASE Process(t) \/ ActionReturn(t)
    <3>1. InService(t) /\ InService(t)' /\ queue' = queue /\ item' = item
      BY <2>2 DEF Process, ActionReturn, scan, Goto, InService, TypeOK
    <3> QED BY <1>1, <2>1, <3>1, QueueAssumption DEF InService
  <2>3. CASE ~(Process(t) \/ ActionReturn(t))
    <3>1. /\ pc[t] \in {"idle", "retail", "free", "count", "counted"}
          /\ pc'[t] \in {"idle", "scan", "free", "count", "counted"}
      <4>1. CASE DequeueCall(t) \/ Retail(t) \/ DeleteFree(t)
        BY <4>1 DEF DequeueCall, Retail, DeleteFree, Goto, TypeOK
      <4>2. CASE CountCall(t) \/ CountNext(t) \/ CountQueue(t) \/ CountReturn(t)
        BY <4>2 DEF CountCall, CountNext, CountQueue, CountReturn, Goto, TypeOK
      <4> QED BY <1>6, <2>3, <4>1, <4>2
    <3>2. ~InService(t) /\ ~InService(t)'
      BY <3>1 DEF InService
    <3> QED BY <1>1, <2>1, <3>2, QueueAssumption DEF InService
  <2> QED BY <2>2, <2>3
<1> QED BY <1>2, <1>3, <1>4, <1>5, <1>6 DEF Quiet

\* The assignment that links an event puts it into its queue, which has it not.
LEMMA InsertLinkPuts ==
  ASSUME TypeOK, NEW qs \in [Prios -> Seq(Chunks)], Good(qs), Unshared,
         NEW t \in Threads, InsertLink(t)
  PROVE  Queues!QueuesNext
<1>1. Held = qs /\ Held' = Linking(qs, t)
  <2>1. ASSUME NEW rs, rs = Linking(qs, t) PROVE Held' = rs
    BY <2>1, InsertLinkGood, RepresentNext
  <2> QED BY <2>1, Represent
<1>2. prio[t] \in Prios /\ new[t] \in Chunks /\ \A q \in Prios : new[t] \notin Elements(qs[q])
  BY DEF InsertLink, Good, Memory, Entering, TypeOK
<1>3. UNCHANGED Serving
  <2>1. queue' = queue /\ item' = item /\ back' = back /\ \A u \in Threads \ {t} : pc'[u] = pc[u]
    BY DEF InsertLink, insert, scan, Goto, TypeOK
  <2>2. pc[t] = "link" /\ pc'[t] = "tail"
    BY DEF InsertLink, Goto, TypeOK
  <2>3. \A u \in Servers : InService(u)' <=> InService(u)
    BY <2>1, <2>2, QueueAssumption DEF InService
  <2> QED BY <2>1, <2>3 DEF Serving
<1>4. ~ \E p \in Prios : \E i \in DOMAIN qs[p] : qs[p][i] = new[t]
  <2>1. ASSUME NEW p \in Prios, NEW i \in DOMAIN qs[p] PROVE qs[p][i] # new[t]
    <3>1. new[t] \notin Elements(qs[p]) /\ i \in 1..Len(qs[p])
      BY <1>2
    <3> QED BY <3>1 DEF Elements
  <2> QED BY <2>1
<1>5. Queues!Put(prio[t], new[t])
  BY <1>1, <1>2, <1>3, <1>4 DEF Queues!Put, Queues!Waits, Queues!Priorities, Prios, Linking
<1> QED BY <1>2, <1>5 DEF Queues!QueuesNext, Queues!Priorities, Prios

\* The event that is unlinked is the one that was served.
LEMMA UnlinkLeaves ==
  ASSUME TypeOK, NEW qs \in [Prios -> Seq(Chunks)], Good(qs), Unshared,
         NEW t \in Threads, Unlink(t)
  PROVE  Queues!QueuesNext
<1>1. Held = qs /\ Held' = Unlinking(qs, t)
  <2>1. ASSUME NEW rs, rs = Unlinking(qs, t) PROVE Held' = rs
    BY <2>1, UnlinkGood, RepresentNext
  <2> QED BY <2>1, Represent
<1>2. pc[t] = "unlink" /\ InService(t) /\ t \in Servers /\ queue[t] \in Prios
  BY DEF Unlink, InService, Good, Roles, TypeOK
<1>3. qs[queue[t]] # <<>> /\ item[t] = Head(qs[queue[t]])
  BY <1>2 DEF Good, Service
<1>4. /\ queue' = queue /\ item' = item /\ back' = back
      /\ pc'[t] \in {"crashed", "retail", "free"} /\ \A u \in Threads \ {t} : pc'[u] = pc[u]
  BY DEF Unlink, Goto, insert, scan, TypeOK
<1>5. Serving' = [Serving EXCEPT ![t] = <<>>]
  <2>1. ~InService(t)' /\ \A u \in Servers \ {t} : InService(u)' <=> InService(u)
    BY <1>4, QueueAssumption DEF InService
  <2> QED BY <1>2, <1>4, <2>1 DEF Serving
<1>6. Serving[t] = <<queue[t], Head(qs[queue[t]])>>
  BY <1>2, <1>3 DEF Serving
<1>7. Queues!Leave(t, queue[t])
  BY <1>1, <1>3, <1>5, <1>6 DEF Queues!Leave, Queues!Nothing, Unlinking
<1> QED BY <1>2, <1>7 DEF Queues!QueuesNext, Queues!Priorities, Prios

\* The queues are empty after fsm_init.
LEMMA InitQueues ==
  ASSUME Init
  PROVE  Queues!QueuesInit
<1> DEFINE qs == [q \in Prios |-> <<>>]
<1>1. /\ qs \in [Prios -> Seq(Chunks)] /\ \A q \in Prios : Chain(next, first[q], qs[q])
  BY DEF Init, Chain, At
<1>2. \A q \in Prios : Walk(first[q]) = qs[q]
  <2>1. ASSUME NEW q \in Prios PROVE Walk(first[q]) = qs[q]
    BY <1>1, WalkIs
  <2> QED BY <2>1
<1>3. Held = qs
  BY <1>2 DEF Held
<1>4. Serving = [t \in Servers |-> <<>>]
  BY QueueAssumption DEF Init, Serving, InService
<1> QED BY <1>3, <1>4 DEF Queues!QueuesInit, Queues!Priorities, Queues!Nothing, Prios

\* Every step of a thread is one of the abstract queues, or none.
LEMMA NextQueues ==
  ASSUME Unshared, Inv, [Next]_vars
  PROVE  [Queues!QueuesNext]_Queues!queueVars
<1>0. TypeOK
  BY DEF Inv
<1>1. PICK qs \in [Prios -> Seq(Chunks)] : Good(qs)
  BY DEF Inv
<1>2. ASSUME NEW t \in Threads, Quiet(t) PROVE [Queues!QueuesNext]_Queues!queueVars
  <2>1. Held = qs /\ Held' = qs
    BY <1>0, <1>1, <1>2, QuietGood, Represent, RepresentNext
  <2>2. CASE UNCHANGED Serving
    BY <2>1, <2>2 DEF Queues!queueVars
  <2>3. CASE /\ t \in Servers /\ ~InService(t) /\ queue[t] \in Prios /\ qs[queue[t]] # <<>>
             /\ \A q \in Prios : q > queue[t] => qs[q] = <<>>
             /\ Serving' = [Serving EXCEPT ![t] = <<queue[t], qs[queue[t]][1]>>]
    <3>1. Serving[t] = <<>> /\ Head(qs[queue[t]]) = qs[queue[t]][1]
      BY <2>3 DEF Serving
    <3>2. Queues!Serve(t, queue[t])
      BY <2>1, <2>3, <3>1 DEF Queues!Serve, Queues!Nothing, Queues!Priorities, Prios
    <3> QED BY <2>3, <3>2 DEF Queues!QueuesNext, Queues!Priorities, Prios
  <2> QED BY <1>0, <1>1, <1>2, <2>2, <2>3, QuietServes
<1>3. ASSUME NEW t \in Threads, InsertLink(t) PROVE Queues!QueuesNext
  BY <1>0, <1>1, <1>3, InsertLinkPuts
<1>4. ASSUME NEW t \in Threads, Unlink(t) PROVE Queues!QueuesNext
  BY <1>0, <1>1, <1>4, UnlinkLeaves
<1>5. CASE UNCHANGED vars
  <2>1. UNCHANGED <<Held, Serving>>
    BY <1>5 DEF vars, Held, Walk, Serving, InService
  <2> QED BY <2>1 DEF Queues!queueVars
<1> QED BY <1>2, <1>3, <1>4, <1>5, NextIs

\* fsm_queue_event and fsm_dequeue_event are queues in which events of one
\* priority are served in order, the highest first, each exactly once.
THEOREM QueuesImplemented ==
  ASSUME Unshared
  PROVE  Spec => ImplementsQueues
BY InitQueues, InitGood, NextGood, NextQueues, PTL DEF Spec, ImplementsQueues, Queues!QueuesSpec

-----------------------------------------------------------------------------
(* Every call comes to its end. *)

\* The labels of fsm_queue_event, and those of fsm_dequeue_event.
QueueLabels == {"lock", "end", "link", "tail", "unlock"}
ServeLabels == {"scan", "process", "action", "delete", "unlink", "retail", "free"}

\* The mutex is in the hands of a thread that is on its way to give it back.
MutexHeld ==
  owner \in Threads => pc[owner] \in {"end", "link", "tail", "unlock", "count", "counted"}

\* A thread that has entered a function can go on where it is, unless it waits for
\* the mutex.
CanStep(t) == pc[t] \notin {"idle", "crashed"} /\ (pc[t] = "lock" => owner = Null)

\* The assignments between a thread's place and the end of its function.  A count
\* has a priority or an event less to go with each step.
Rank(t) ==
  CASE pc[t] = "lock"    -> 5
    [] pc[t] = "end"     -> 4
    [] pc[t] = "link"    -> 3
    [] pc[t] = "tail"    -> 2
    [] pc[t] = "unlock"  -> 1
    [] pc[t] = "scan"    -> 7 + queue[t]
    [] pc[t] = "process" -> 6
    [] pc[t] = "action"  -> 5
    [] pc[t] = "delete"  -> 4
    [] pc[t] = "unlink"  -> 3
    [] pc[t] = "retail"  -> 2
    [] pc[t] = "free"    -> 1
    [] pc[t] = "count"   -> (NQueues - queue[t]) + (Cardinality(Chunks) - total[t]) + 1
    [] pc[t] = "counted" -> 1
    [] OTHER             -> 0

\* The thread serves an event, if only from a callback that queues another one.
InCallback(t) == pc[t] \in QueueLabels /\ back[t] = "action"
Serves(t)     == pc[t] \in ServeLabels \/ InCallback(t)

\* The rest of fsm_dequeue_event after the callback, and what the callback can
\* still queue: each event takes memory that nobody gives back meanwhile.
Spare == Cardinality(Chunks \ used)
StepsLeft(t) ==
  Rank(t) + (IF InCallback(t) THEN 5 ELSE 0) + (IF Serves(t) THEN 6 * Spare ELSE 0)

\* The numbers of the bounds.
LEMMA Bounds ==
  ASSUME TypeOK
  PROVE  /\ Cardinality(Chunks) \in Nat /\ Spare \in Nat /\ Spare <= Cardinality(Chunks)
         /\ NQueues \in Nat /\ Prios = 0..(NQueues - 1)
<1>1. IsFiniteSet(Chunks)
  BY QueueAssumption
<1>2. Chunks \ used \in SUBSET Chunks
  OBVIOUS
<1>3. IsFiniteSet(Chunks \ used) /\ Cardinality(Chunks \ used) <= Cardinality(Chunks)
  BY <1>1, <1>2, FS_Subset
<1>4. Cardinality(Chunks) \in Nat /\ Cardinality(Chunks \ used) \in Nat
  BY <1>1, <1>3, FS_CardinalityType
<1> QED BY <1>3, <1>4, QueueAssumption DEF Spare, Prios

LEMMA SpareType == TypeOK => Spare \in Nat
BY Bounds

LEMMA LaterSpare == TypeOK' => (Spare \in Nat)'
BY SpareType, PTL

\* The places of a thread, as a number of steps.
LEMMA RankBounded ==
  ASSUME TypeOK, NEW t \in Threads
  PROVE  Rank(t) \in 0..(NQueues + Cardinality(Chunks) + 6)
<1>1. PICK C \in Nat : C = Cardinality(Chunks)
  BY Bounds
<1>2. queue[t] \in 0..(NQueues - 1) /\ NQueues \in Nat \ {0} /\ total[t] \in 0..C
  BY <1>1, QueueAssumption DEF TypeOK, Prios
<1>3. CASE pc[t] = "scan"
  BY <1>1, <1>2, <1>3 DEF Rank
<1>4. CASE pc[t] = "count"
  BY <1>1, <1>2, <1>4 DEF Rank
<1>5. CASE pc[t] \notin {"scan", "count"}
  <2>1. Rank(t) \in 0..6
    BY <1>5 DEF Rank
  <2> QED BY <1>1, <1>2, <2>1
<1> QED BY <1>3, <1>4, <1>5

\* No call is longer than this, whatever its thread finds and its callback does.
Longest == NQueues + 7 * Cardinality(Chunks) + 11

LEMMA LeftBounded ==
  ASSUME TypeOK, NEW t \in Threads
  PROVE  StepsLeft(t) \in 0..Longest
<1>1. PICK C \in Nat : C = Cardinality(Chunks)
  BY Bounds
<1>2. PICK s \in 0..C : s = Spare
  BY <1>1, Bounds
<1>3. PICK r \in 0..(NQueues + C + 6) : r = Rank(t)
  BY <1>1, RankBounded
<1>4. NQueues \in Nat
  BY Bounds
<1>5. StepsLeft(t) = r + (IF InCallback(t) THEN 5 ELSE 0) + (IF Serves(t) THEN 6 * s ELSE 0)
  BY <1>2, <1>3 DEF StepsLeft
<1> QED BY <1>1, <1>4, <1>5 DEF Longest

-----------------------------------------------------------------------------

\* One step of a thread, wherever it is: at least one less to go.
Falls(t) == pc[t] # "idle" => StepsLeft(t)' < StepsLeft(t)

\* fsm_queue_event takes a step at a time, and returns.
LEMMA QueueStepFalls ==
  ASSUME TypeOK, TypeOK', NEW t \in Threads, QueueStep(t)
  PROVE  StepsLeft(t)' < StepsLeft(t)
<1>1. PICK s \in Nat : s = Spare /\ s = Spare'
  BY Bounds DEF QueueStep, QueueLock, InsertEnd, InsertLink, InsertTail, QueueUnlock, Spare
<1>2. back'[t] = back[t] /\ back[t] \in {"idle", "action"}
  BY DEF QueueStep, QueueLock, InsertEnd, InsertLink, InsertTail, QueueUnlock, insert, TypeOK
<1>3. \/ pc[t] = "lock" /\ pc'[t] = "end"
      \/ pc[t] = "end" /\ pc'[t] = "link"
      \/ pc[t] = "link" /\ pc'[t] = "tail"
      \/ pc[t] = "tail" /\ pc'[t] = "unlock"
      \/ pc[t] = "unlock" /\ pc'[t] = back[t]
  BY DEF QueueStep, QueueLock, InsertEnd, InsertLink, InsertTail, QueueUnlock, Goto, TypeOK
<1>4. StepsLeft(t) = Rank(t) + (IF back[t] = "action" THEN 5 + 6 * s ELSE 0)
  BY <1>1, <1>2, <1>3 DEF StepsLeft, InCallback, Serves, QueueLabels, ServeLabels, Rank
<1>5. CASE pc[t] # "unlock"
  <2>1. Rank(t)' = Rank(t) - 1 /\ Rank(t) \in 2..5
    BY <1>3, <1>5 DEF Rank
  <2>2. StepsLeft(t)' = Rank(t)' + (IF back[t] = "action" THEN 5 + 6 * s ELSE 0)
    BY <1>1, <1>2, <1>3, <1>5, <2>1 DEF StepsLeft, InCallback, Serves, QueueLabels, ServeLabels
  <2> QED BY <1>4, <2>1, <2>2
<1>6. CASE pc[t] = "unlock"
  <2>1. Rank(t) = 1 /\ Rank(t)' = IF back[t] = "action" THEN 5 ELSE 0
    BY <1>2, <1>3, <1>6 DEF Rank
  <2>2. StepsLeft(t)' = IF back[t] = "action" THEN 5 + 6 * s ELSE 0
    <3>1. Spare' = s /\ pc'[t] = back[t] /\ ~InCallback(t)'
      BY <1>1, <1>2, <1>3, <1>6 DEF InCallback, QueueLabels
    <3>2. Serves(t)' <=> back[t] = "action"
      BY <1>2, <3>1 DEF Serves, ServeLabels
    <3>3. StepsLeft(t)' = Rank(t)' + (IF Serves(t)' THEN 6 * s ELSE 0)
      <4>1. Rank(t)' \in {0, 5}
        BY <2>1
      <4> QED BY <3>1, <4>1 DEF StepsLeft
    <3> QED BY <2>1, <3>2, <3>3
  <2> QED BY <1>4, <2>1, <2>2
<1> QED BY <1>5, <1>6

\* fsm_dequeue_event does, too.
LEMMA DequeueStepFalls ==
  ASSUME TypeOK, TypeOK', NEW t \in Threads, DequeueStep(t), pc'[t] # "crashed"
  PROVE  StepsLeft(t)' < StepsLeft(t)
<1>1. PICK s \in Nat : s = Spare
  BY Bounds
<1>2. /\ pc[t] \in ServeLabels /\ pc'[t] \in ServeLabels \cup {"idle"}
      /\ queue[t] \in Nat /\ queue'[t] \in Nat
      /\ Rank(t)' < Rank(t) /\ Rank(t) \in Nat /\ Rank(t)' \in Nat
  <2>1. queue[t] \in Nat /\ queue'[t] \in Nat
    BY QueueAssumption DEF TypeOK, Prios
  <2>2. CASE Scan(t)
    <3>1. CASE first[queue[t]] # Null
      BY <2>1, <2>2, <3>1 DEF Scan, Goto, TypeOK, Rank, ServeLabels
    <3>2. CASE first[queue[t]] = Null /\ queue[t] # 0
      BY <2>1, <2>2, <3>2 DEF Scan, Goto, TypeOK, Rank, ServeLabels
    <3>3. CASE first[queue[t]] = Null /\ queue[t] = 0
      <4>1. pc[t] = "scan" /\ pc'[t] = "idle"
        BY <2>2, <3>3 DEF Scan, Goto, TypeOK
      <4>2. Rank(t) = 7 + queue[t] /\ Rank(t)' = 0
        BY <4>1 DEF Rank
      <4> QED BY <2>1, <4>1, <4>2 DEF ServeLabels
    <3> QED BY <3>1, <3>2, <3>3
  <2>3. CASE Process(t)
    BY <2>1, <2>3 DEF Process, Goto, TypeOK, Rank, ServeLabels
  <2>4. CASE ActionReturn(t) \/ Delete(t)
    BY <2>1, <2>4 DEF ActionReturn, Delete, Goto, TypeOK, Rank, ServeLabels
  <2>5. CASE Unlink(t)
    <3>1. pc[t] = "unlink" /\ pc'[t] \in {"retail", "free"}
      <4>1. first[queue[t]] # Null
        BY <2>5 DEF Unlink, Goto, TypeOK
      <4> QED BY <2>5, <4>1 DEF Unlink, Goto, TypeOK
    <3> QED BY <2>1, <3>1 DEF Rank, ServeLabels
  <2>6. CASE Retail(t) \/ DeleteFree(t)
    BY <2>1, <2>6 DEF Retail, DeleteFree, Goto, TypeOK, Rank, ServeLabels
  <2> QED BY <2>2, <2>3, <2>4, <2>5, <2>6 DEF DequeueStep
<1>3. StepsLeft(t) = Rank(t) + 6 * s
  BY <1>1, <1>2 DEF StepsLeft, InCallback, Serves, QueueLabels, ServeLabels
<1>4. CASE pc'[t] = "idle"
  <2>1. StepsLeft(t)' = 0 /\ Rank(t)' = 0
    BY <1>4 DEF StepsLeft, InCallback, Serves, QueueLabels, ServeLabels, Rank
  <2> QED BY <1>2, <1>3, <2>1
<1>5. CASE pc'[t] # "idle"
  <2>1. Spare' = s
    BY <1>1, <1>5 DEF DequeueStep, Scan, Process, ActionReturn, Delete, Unlink, Retail,
                      DeleteFree, Goto, TypeOK, Spare
  <2>2. StepsLeft(t)' = Rank(t)' + 6 * s
    BY <1>2, <1>5, <2>1 DEF StepsLeft, InCallback, Serves, QueueLabels, ServeLabels
  <2> QED BY <1>2, <1>3, <2>2
<1> QED BY <1>4, <1>5

\* fsm_get_queued_events comes to the end of every list, and to the last list.
LEMMA CountStepFalls ==
  ASSUME TypeOK, TypeOK', NEW t \in Threads, CountStep(t)
  PROVE  StepsLeft(t)' < StepsLeft(t)
<1>1. PICK C \in Nat : C = Cardinality(Chunks)
  BY Bounds
<1>2. /\ queue[t] \in 0..(NQueues - 1) /\ queue'[t] \in 0..(NQueues - 1) /\ NQueues \in Nat
      /\ total[t] \in 0..C /\ total'[t] \in 0..C
  BY <1>1, QueueAssumption DEF TypeOK, Prios
<1>3. pc[t] \in {"count", "counted"} /\ pc'[t] \in {"count", "counted", "idle"}
  BY DEF CountStep, CountNext, CountQueue, CountReturn, Goto, TypeOK
<1>4. StepsLeft(t) = Rank(t) /\ StepsLeft(t)' = Rank(t)'
  <2>1. Rank(t) \in Int
    BY <1>1, <1>2, <1>3 DEF Rank
  <2>2. Rank(t)' \in Int
    BY <1>1, <1>2, <1>3 DEF Rank
  <2> QED BY <1>3, <2>1, <2>2 DEF StepsLeft, InCallback, Serves, QueueLabels, ServeLabels
<1>5. CASE CountNext(t)
  <2>1. pc[t] = "count" /\ pc'[t] = "count" /\ total'[t] = total[t] + 1 /\ queue'[t] = queue[t]
    BY <1>5 DEF CountNext, TypeOK
  <2> QED BY <1>1, <1>2, <1>4, <2>1 DEF Rank
<1>6. CASE CountQueue(t)
  <2>1. pc[t] = "count" /\ total'[t] = total[t]
    BY <1>6 DEF CountQueue, TypeOK
  <2>2. \/ pc'[t] = "count" /\ queue'[t] = queue[t] + 1
        \/ pc'[t] = "counted"
    BY <1>6 DEF CountQueue, Goto, TypeOK
  <2> QED BY <1>1, <1>2, <1>4, <2>1, <2>2 DEF Rank
<1>7. CASE CountReturn(t)
  BY <1>4, <1>7 DEF CountReturn, Goto, TypeOK, Rank
<1> QED BY <1>5, <1>6, <1>7 DEF CountStep

\* A callback that queues an event leaves less memory for the next.
LEMMA QueueCallFalls ==
  ASSUME TypeOK, TypeOK', NEW t \in Threads, QueueCall(t)
  PROVE  Falls(t)
<1> SUFFICES ASSUME pc[t] = "action" PROVE StepsLeft(t)' < StepsLeft(t)
  BY DEF Falls, QueueCall
<1>1. pc'[t] = "lock" /\ back'[t] = "action"
  BY DEF QueueCall, Goto, TypeOK
<1>2. PICK c \in Chunks \ used : used' = used \cup {c}
  BY DEF QueueCall
<1>3. IsFiniteSet(Chunks \ used)
  BY QueueAssumption, FS_Subset
<1>4. Cardinality((Chunks \ used) \ {c}) = Cardinality(Chunks \ used) - 1
  BY <1>2, <1>3, FS_RemoveElement
<1>5. Chunks \ used' = (Chunks \ used) \ {c}
  BY <1>2
<1>6. PICK s \in Nat : s = Spare
  BY Bounds
<1>7. PICK s1 \in Nat : s1 = Spare'
  <2>1. Spare' \in Nat
    BY LaterSpare
  <2> QED BY <2>1
<1>8. s1 = s - 1
  BY <1>4, <1>5, <1>6, <1>7 DEF Spare
<1>9. StepsLeft(t) = 5 + 6 * s
  BY <1>6 DEF StepsLeft, Rank, InCallback, Serves, QueueLabels, ServeLabels
<1>10. StepsLeft(t)' = 10 + 6 * s1
  BY <1>1, <1>7 DEF StepsLeft, Rank, InCallback, Serves, QueueLabels, ServeLabels
<1> QED BY <1>8, <1>9, <1>10

\* What a thread does is not undone, nor made longer, by the others.
LEMMA OthersAsFar ==
  ASSUME TypeOK, TypeOK', Unshared, Roles, NEW t \in Threads, StepOf(t), NEW u \in Threads \ {t}
  PROVE  StepsLeft(u)' = StepsLeft(u)
<1>1. Stays(u)
  <2>1. CASE QueueCall(t) \/ DequeueCall(t) \/ CountCall(t)
    BY <2>1 DEF QueueCall, DequeueCall, CountCall, Goto, TypeOK, Stays, insert, scan
  <2>2. CASE QueueStep(t)
    BY <2>2 DEF QueueStep, QueueLock, InsertEnd, InsertLink, InsertTail, QueueUnlock, Goto,
                TypeOK, Stays, insert, scan
  <2>3. CASE DequeueStep(t)
    BY <2>3 DEF DequeueStep, Scan, Process, ActionReturn, Delete, Unlink, Retail, DeleteFree,
                Goto, TypeOK, Stays, insert, scan
  <2>4. CASE CountStep(t)
    BY <2>4 DEF CountStep, CountNext, CountQueue, CountReturn, Goto, TypeOK, Stays, insert, scan
  <2> QED BY <2>1, <2>2, <2>3, <2>4 DEF StepOf, Step
<1>2. t \in Queuers \cup Servers \cup Counters
  <2>1. CASE QueueCall(t) \/ DequeueCall(t) \/ CountCall(t)
    BY <2>1 DEF QueueCall, DequeueCall, CountCall
  <2>2. CASE QueueStep(t)
    BY <2>2 DEF QueueStep, QueueLock, InsertEnd, InsertLink, InsertTail, QueueUnlock, Roles
  <2>3. CASE DequeueStep(t)
    BY <2>3 DEF DequeueStep, Scan, Process, ActionReturn, Delete, Unlink, Retail, DeleteFree,
                Roles
  <2>4. CASE CountStep(t)
    BY <2>4 DEF CountStep, CountNext, CountQueue, CountReturn, Roles
  <2> QED BY <2>1, <2>2, <2>3, <2>4 DEF StepOf, Step
<1>3. ~Serves(u)
  <2>1. u \notin Servers
    BY <1>2 DEF Unshared
  <2> QED BY <2>1 DEF Serves, InCallback, ServeLabels, QueueLabels, Roles, InService
<1>4. ~Serves(u)' /\ ~InCallback(u) /\ ~InCallback(u)'
  BY <1>1, <1>3 DEF Serves, InCallback, Stays
<1>5. Rank(u)' = Rank(u)
  BY <1>1 DEF Rank, Stays
<1> QED BY <1>3, <1>4, <1>5 DEF StepsLeft

\* The mutex changes hands in its own functions only.
LEMMA MutexHeldNext ==
  ASSUME TypeOK, MutexHeld, NEW t \in Threads, StepOf(t)
  PROVE  MutexHeld'
<1>1. CASE QueueCall(t) \/ DequeueCall(t) \/ CountCall(t)
  BY <1>1 DEF QueueCall, DequeueCall, CountCall, Goto, TypeOK, MutexHeld
<1>2. CASE QueueStep(t)
  BY <1>2, QueueAssumption DEF QueueStep, QueueLock, InsertEnd, InsertLink, InsertTail,
                               QueueUnlock, Goto, TypeOK, MutexHeld
<1>3. CASE DequeueStep(t)
  BY <1>3 DEF DequeueStep, Scan, Process, ActionReturn, Delete, Unlink, Retail, DeleteFree,
              Goto, TypeOK, MutexHeld
<1>4. CASE CountStep(t)
  BY <1>4, QueueAssumption DEF CountStep, CountNext, CountQueue, CountReturn, Goto, TypeOK,
                               MutexHeld
<1> QED BY <1>1, <1>2, <1>3, <1>4 DEF StepOf, Step

\* A step of a thread is one less of its own, and none of the others'.
ShorterByOne ==
  \E t \in Threads : Falls(t) /\ \A u \in Threads \ {t} : StepsLeft(u)' = StepsLeft(u)

LEMMA NextFalls ==
  ASSUME Unshared, Inv, Inv', [Next]_vars
  PROVE  [ShorterByOne]_vars
<1>1. TypeOK /\ TypeOK' /\ Roles /\ Roles'
  BY DEF Inv, Good
<1>2. ASSUME NEW t \in Threads, StepOf(t) PROVE ShorterByOne
  <2>1. pc'[t] # "crashed"
    BY <1>1 DEF Roles
  <2>2. Falls(t)
    <3>1. CASE QueueCall(t)
      BY <1>1, <3>1, QueueCallFalls
    <3>2. CASE DequeueCall(t) \/ CountCall(t)
      BY <3>2 DEF DequeueCall, CountCall, Falls
    <3>3. CASE Step(t)
      BY <1>1, <2>1, <3>3, QueueStepFalls, DequeueStepFalls, CountStepFalls DEF Step, Falls
    <3> QED BY <1>2, <3>1, <3>2, <3>3 DEF StepOf
  <2>3. \A u \in Threads \ {t} : StepsLeft(u)' = StepsLeft(u)
    BY <1>1, <1>2, OthersAsFar
  <2> QED BY <2>2, <2>3 DEF ShorterByOne
<1> QED BY <1>2 DEF Next, StepOf

\* A thread in a call can go on, or waits for one that can.
NobodyStuck ==
  \A t \in Threads : pc[t] = "idle" \/ CanStep(t) \/ (owner \in Threads /\ CanStep(owner))

LEMMA Unstuck ==
  ASSUME Inv, MutexHeld
  PROVE  NobodyStuck /\ \A t \in Threads : StepsLeft(t) \in 0..Longest
<1>1. TypeOK /\ Roles
  BY DEF Inv, Good
<1>2. owner \in Threads => CanStep(owner)
  BY DEF MutexHeld, CanStep
<1>3. \A t \in Threads : pc[t] = "idle" \/ CanStep(t) \/ owner \in Threads
  BY <1>1 DEF Roles, CanStep, TypeOK
<1>4. \A t \in Threads : StepsLeft(t) \in 0..Longest
  BY <1>1, LeftBounded
<1> QED BY <1>2, <1>3, <1>4 DEF NobodyStuck

LEMMA MutexHeldKept ==
  ASSUME Inv, MutexHeld, [Next]_vars
  PROVE  MutexHeld'
<1>1. TypeOK
  BY DEF Inv
<1>2. ASSUME NEW t \in Threads, StepOf(t) PROVE MutexHeld'
  BY <1>1, <1>2, MutexHeldNext
<1>3. CASE UNCHANGED vars
  BY <1>3 DEF vars, MutexHeld
<1> QED BY <1>2, <1>3 DEF Next, StepOf

\* Every call returns, as far as safety goes (fsm.c:165-236): a thread in a call can
\* go on or waits for the mutex of one that can, each of its steps leaves it fewer,
\* counting the events its callback may still find memory for, and no other thread
\* gives it more.  That threads are scheduled is what CallsReturn adds.
THEOREM CallsRunOut ==
  ASSUME Unshared
  PROVE  Spec => /\ [](\A t \in Threads : StepsLeft(t) \in 0..Longest)
                 /\ [][ShorterByOne]_vars
                 /\ []NobodyStuck
<1>1. Init => Inv /\ MutexHeld
  BY InitGood, QueueAssumption DEF Init, MutexHeld
<1>2. Inv /\ MutexHeld /\ [Next]_vars => Inv' /\ MutexHeld'
  BY NextGood, MutexHeldKept
<1>3. Inv /\ Inv' /\ [Next]_vars => [ShorterByOne]_vars
  BY NextFalls
<1>4. Inv /\ MutexHeld => NobodyStuck /\ \A t \in Threads : StepsLeft(t) \in 0..Longest
  BY Unstuck
<1> QED BY <1>1, <1>2, <1>3, <1>4, PTL DEF Spec

-----------------------------------------------------------------------------
(* The mutex, where the queues are shared as well. *)

\* Where a thread can be, and where fsm_queue_event can return to.
Placed ==
  /\ pc \in [Threads -> QueueLabels \cup ServeLabels \cup {"idle", "crashed", "count", "counted"}]
  /\ back \in [Threads -> {"idle", "action"}]
  /\ owner \in Threads \cup {Null}

LEMMA MutexNext ==
  ASSUME Placed, MutexHeld, Holders, [Next]_vars
  PROVE  Placed' /\ MutexHeld' /\ Holders'
<1> USE QueueAssumption DEF Placed, MutexHeld, Holders, QueueLabels, ServeLabels
<1>1. ASSUME NEW t \in Threads, QueueCall(t) PROVE Placed' /\ MutexHeld' /\ Holders'
  BY <1>1 DEF QueueCall, Goto
<1>2. ASSUME NEW t \in Threads, DequeueCall(t) \/ CountCall(t)
      PROVE  Placed' /\ MutexHeld' /\ Holders'
  BY <1>2 DEF DequeueCall, CountCall, Goto, insert
<1>3. ASSUME NEW t \in Threads, QueueLock(t) \/ QueueUnlock(t)
      PROVE  Placed' /\ MutexHeld' /\ Holders'
  BY <1>3 DEF QueueLock, QueueUnlock, Goto, insert
<1>4. ASSUME NEW t \in Threads, InsertEnd(t) \/ InsertLink(t) \/ InsertTail(t)
      PROVE  Placed' /\ MutexHeld' /\ Holders'
  BY <1>4 DEF InsertEnd, InsertLink, InsertTail, Goto, insert
<1>5. ASSUME NEW t \in Threads, Scan(t) \/ Process(t) \/ ActionReturn(t) \/ Delete(t)
      PROVE  Placed' /\ MutexHeld' /\ Holders'
  BY <1>5 DEF Scan, Process, ActionReturn, Delete, Goto, insert
<1>6. ASSUME NEW t \in Threads, Unlink(t) \/ Retail(t) \/ DeleteFree(t)
      PROVE  Placed' /\ MutexHeld' /\ Holders'
  BY <1>6 DEF Unlink, Retail, DeleteFree, Goto, insert
<1>7. ASSUME NEW t \in Threads, CountStep(t)
      PROVE  Placed' /\ MutexHeld' /\ Holders'
  BY <1>7 DEF CountStep, CountNext, CountQueue, CountReturn, Goto, insert
<1>8. CASE UNCHANGED vars
  BY <1>8 DEF vars
<1> QED BY <1>1, <1>2, <1>3, <1>4, <1>5, <1>6, <1>7, <1>8
        DEF Next, Step, QueueStep, DequeueStep

\* However many threads queue, dequeue and count: a thread is between fsm_pq_lock and
\* fsm_pq_unlock just when it holds the mutex (fsm.c:183-185, 227-235), so that no
\* other gives it back, even where races of fsm_dequeue_event, which takes no mutex,
\* break the lists.
THEOREM MutexExclusive == Spec => [](MutexHeld /\ Holders)
<1>1. Init => Placed /\ MutexHeld /\ Holders
  BY QueueAssumption DEF Init, Placed, MutexHeld, Holders
<1>2. Placed /\ MutexHeld /\ Holders /\ [Next]_vars => Placed' /\ MutexHeld' /\ Holders'
  BY MutexNext
<1> QED BY <1>1, <1>2, PTL DEF Spec
=============================================================================
