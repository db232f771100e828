-------------------------- MODULE SchedulerProofs --------------------------
(* Proofs about Scheduler for any number of cores, processes and threads,  *)
(* any joins, and any interleaving of the sim threads and the feeders.     *)
EXTENDS Scheduler, FiniteSetTheorems, SequenceTheorems,
        WellFoundedInduction, TLAPS

(* The threads of a queue, a list or a message, and that none is there     *)
(* twice.                                                                  *)
Elems(s) == {s[i] : i \in DOMAIN s}
NoDup(s) == \A i, j \in DOMAIN s : s[i] = s[j] => i = j

-----------------------------------------------------------------------------
(* The inductive invariant.                                                *)

(* A sim thread has a list of threads exactly while it schedules one, a    *)
(* core once it has chosen one, and a thread while it acts on one.         *)
SchedulingAt == {"check", "affinity", "tcb", "enqueue"}
ActingAt == {"front", "map", "giveup", "forget", "erase", "unblock", "wake",
             "activate"}
GoodOp(o) ==
    /\ o.todo # <<>> <=> o.at \in SchedulingAt
    /\ o.at \in {"tcb", "enqueue", "activate"} => o.core \in Cores
    /\ o.at \in ActingAt => o.tid \in Threads
    /\ o.at # "abort"
OpShape == \A c \in Cores : GoodOp(op[c])

(* Messages name threads, and pinned ones fit on the cores.                *)
MsgShape ==
    \A k \in DOMAIN msgs :
        /\ msgs[k].tids # <<>>
        /\ msgs[k].pinned => Offset(msgs[k].asid) + Len(msgs[k].tids) <= NumCores

(* A thread is in at most one place of one run queue, of the list of one   *)
(* sim thread or of one message.                                           *)
Distinct ==
    /\ \A c \in Cores : NoDup(q[c]) /\ NoDup(op[c].todo)
    /\ \A k \in DOMAIN msgs : NoDup(msgs[k].tids)
Disjoint ==
    /\ \A c, d \in Cores :
          /\ c # d => Elems(q[c]) \cap Elems(q[d]) = {}
          /\ c # d => Elems(op[c].todo) \cap Elems(op[d].todo) = {}
          /\ Elems(q[c]) \cap Elems(op[d].todo) = {}
    /\ \A k \in DOMAIN msgs : \A c \in Cores :
          /\ Elems(msgs[k].tids) \cap Elems(q[c]) = {}
          /\ Elems(msgs[k].tids) \cap Elems(op[c].todo) = {}
    /\ \A k, l \in DOMAIN msgs :
          k # l => Elems(msgs[k].tids) \cap Elems(msgs[l].tids) = {}

(* The feeder of such a thread waits for a core or believes it has one.    *)
Wanted(t) == fstate[t] \in {"waiting", "on"}
Claimed ==
    /\ \A c \in Cores : \A t \in Elems(q[c]) \cup Elems(op[c].todo) : Wanted(t)
    /\ \A k \in DOMAIN msgs : \A t \in Elems(msgs[k].tids) : Wanted(t)

(* Queued threads have control blocks, but for exited ones that are        *)
(* scheduled again while the sim thread that erases the block is not done. *)
HasTCB(t) == tcb[t].exists \/ (LateErase /\ t \in exited)
Exist ==
    \A c \in Cores :
        /\ \A t \in Elems(q[c]) : HasTCB(t)
        /\ op[c].at = "enqueue" => HasTCB(Head(op[c].todo))
Dying ==
    LateErase \/ \A c \in Cores : op[c].at = "erase" => ~Wanted(op[c].tid)

(* A blocked thread has a control block and has issued the join; a thread  *)
(* a sim thread works for is not blocked, nor is an exited one; one about  *)
(* to be recorded or woken is blocked, has no entry in the map and no      *)
(* second sim thread; and what wakes it is an exit.                        *)
Blocking ==
    /\ \A t \in Threads : IsThreadBlocked(t) =>
          tcb[t].exists /\ <<t, tcb[t].blocked_on>> \in joined
    /\ \A t \in exited : ~IsThreadBlocked(t)
    /\ \A c \in Cores :
          /\ op[c].at = "front" => ~IsThreadBlocked(op[c].tid)
          /\ op[c].at \in {"map", "wake"} =>
                /\ IsThreadBlocked(op[c].tid)
                /\ \A u \in Threads : blocked_thread_map[u] # op[c].tid
                /\ \A d \in Cores \ {c} :
                      op[d].at \in {"map", "wake"} => op[d].tid # op[c].tid
          /\ op[c].at = "wake" => tcb[op[c].tid].blocked_on \in exited
          /\ op[c].at \in {"erase", "unblock"} => op[c].tid \in exited
          /\ op[c].at \in {"giveup", "activate"} => joined # {}

(* While a dead thread has been popped and the next one not yet scheduled, *)
(* the core still runs and nobody in its queue does.                       *)
Popped(c) ==
    active[c] /\ \A t \in Elems(q[c]) : threadCores[t] = INVALID_CORE
PoppedCores ==
    joined = {} => \A c \in Cores : op[c].at = "erase" => Popped(c)

IInv ==
    /\ TypeOK /\ OpShape /\ MsgShape
    /\ Distinct /\ Disjoint /\ Claimed
    /\ Exist /\ Dying /\ ActsOnHead
    /\ Blocking /\ SleepersAccounted
    /\ ViewsAgree /\ PoppedCores

-----------------------------------------------------------------------------
(* Sequences of threads.                                                   *)

(* The threads of the sequences the scheduler builds.                      *)
LEMMA ElemsFacts ==
    /\ Elems(<< >>) = {} /\ NoDup(<< >>)
    /\ \A t \in Threads : Elems(<<t>>) = {t} /\ NoDup(<<t>>)
    /\ \A s \in Seq(Threads) : Elems(s) \subseteq Threads
<1>1. Elems(<< >>) = {} /\ NoDup(<< >>)
    BY DEF Elems, NoDup
<1>2. ASSUME NEW t \in Threads PROVE Elems(<<t>>) = {t} /\ NoDup(<<t>>)
    BY DEF Elems, NoDup
<1>3. ASSUME NEW s \in Seq(Threads) PROVE Elems(s) \subseteq Threads
    BY DEF Elems
<1> QED
    BY <1>1, <1>2, <1>3

(* q.pop() takes the head and only the head.                               *)
LEMMA TailFacts ==
    ASSUME NEW s \in Seq(Threads), s # << >>, NoDup(s)
    PROVE  /\ Head(s) \in Threads /\ Head(s) \in Elems(s)
           /\ Tail(s) \in Seq(Threads) /\ NoDup(Tail(s))
           /\ Elems(Tail(s)) = Elems(s) \ {Head(s)}
           /\ Len(s) = 1 => Tail(s) = << >>
           /\ Len(s) # 1 => Tail(s) # << >>
<1>1. /\ Head(s) = s[1] /\ Len(s) \in Nat \ {0} /\ DOMAIN s = 1 .. Len(s)
      /\ Tail(s) \in Seq(Threads) /\ Len(Tail(s)) = Len(s) - 1
      /\ DOMAIN Tail(s) = 1 .. Len(s) - 1
      /\ \A i \in 1 .. Len(s) - 1 : Tail(s)[i] = s[i + 1]
    OBVIOUS
<1>2. NoDup(Tail(s))
    BY <1>1 DEF NoDup
<1>3. \A x : x \in Elems(Tail(s)) => x \in Elems(s) \ {Head(s)}
    BY <1>1 DEF Elems, NoDup
<1>4. ASSUME NEW x \in Elems(s) \ {Head(s)} PROVE x \in Elems(Tail(s))
    <2>1. PICK i \in 1 .. Len(s) : x = s[i]
        BY <1>1 DEF Elems
    <2>2. i # 1 /\ i - 1 \in 1 .. Len(s) - 1 /\ Tail(s)[i - 1] = s[i]
        BY <1>1, <2>1
    <2> QED
        BY <1>1, <2>1, <2>2 DEF Elems
<1>5. Head(s) \in Elems(s)
    BY <1>1 DEF Elems
<1>6. Head(s) \in Threads
    BY <1>1
<1>7. (Len(s) = 1 => Tail(s) = << >>) /\ (Len(s) # 1 => Tail(s) # << >>)
    <2>1. Tail(s) = << >> <=> Len(Tail(s)) = 0
        BY <1>1, EmptySeq, Zenon
    <2> QED
        BY <1>1, <2>1
<1>8. Elems(Tail(s)) = Elems(s) \ {Head(s)}
    BY <1>3, <1>4
<1> QED
    BY <1>1, <1>2, <1>5, <1>6, <1>7, <1>8

(* q.push() of a thread that is not there.                                 *)
LEMMA AppendFacts ==
    ASSUME NEW s \in Seq(Threads), NEW t \in Threads, NoDup(s), t \notin Elems(s)
    PROVE  /\ Append(s, t) \in Seq(Threads) /\ NoDup(Append(s, t))
           /\ Elems(Append(s, t)) = Elems(s) \cup {t}
           /\ Append(s, t) # << >>
           /\ s # << >> => Head(Append(s, t)) = Head(s)
           /\ s = << >> => Head(Append(s, t)) = t
           /\ s \o <<t>> = Append(s, t)
<1>1. /\ Len(s) \in Nat /\ DOMAIN s = 1 .. Len(s)
      /\ Append(s, t) \in Seq(Threads) /\ Len(Append(s, t)) = Len(s) + 1
      /\ DOMAIN Append(s, t) = 1 .. Len(s) + 1
      /\ \A i \in 1 .. Len(s) : Append(s, t)[i] = s[i]
      /\ Append(s, t)[Len(s) + 1] = t
    OBVIOUS
<1>2. NoDup(Append(s, t))
    BY <1>1 DEF NoDup, Elems
<1>3. \A x : x \in Elems(Append(s, t)) => x \in Elems(s) \cup {t}
    BY <1>1 DEF Elems
<1>4. ASSUME NEW x \in Elems(s) \cup {t} PROVE x \in Elems(Append(s, t))
    <2>1. CASE x = t
        BY <1>1, <2>1 DEF Elems
    <2>2. CASE x # t
        <3>1. PICK i \in 1 .. Len(s) : x = s[i]
            BY <1>1, <2>2 DEF Elems
        <3> QED
            BY <1>1, <3>1 DEF Elems
    <2> QED
        BY <2>1, <2>2
<1>5. /\ Append(s, t) # << >>
      /\ s # << >> => Head(Append(s, t)) = Head(s)
      /\ s = << >> => Head(Append(s, t)) = t
    BY <1>1
<1>6. s \o <<t>> = Append(s, t)
    OBVIOUS
<1> QED
    BY <1>1, <1>2, <1>3, <1>4, <1>5, <1>6

(* A non-empty set of positions has a first one.                           *)
LEMMA LeastIndex ==
    ASSUME NEW n \in Nat, NEW S \in SUBSET (1 .. n), S # {}
    PROVE  \E i \in S : \A j \in S : i <= j
<1> DEFINE Less == OpToRel(<, Nat)
<1>1. IsWellFoundedOn(Less, Nat)
    BY NatLessThanWellFounded
<1>2. \A i, j \in Nat : ~(<<j, i>> \in Less) => i <= j
    BY DEF OpToRel
<1> HIDE DEF Less
<1>3. S \subseteq Nat
    OBVIOUS
<1>4. \E i \in S : \A j \in S : ~(<<j, i>> \in Less)
    BY <1>1, <1>3, WFMin, Zenon
<1> QED
    BY <1>2, <1>3, <1>4, Zenon

(* RequeueSleepers only reorders a queue, and does not touch it when       *)
(* nobody in it sleeps; what it finds is its head.                         *)
LEMMA RequeueFacts ==
    ASSUME NEW s \in Seq(Threads), NoDup(s)
    PROVE  /\ RequeueSleepers(s) \in Seq(Threads) /\ NoDup(RequeueSleepers(s))
           /\ Elems(RequeueSleepers(s)) = Elems(s)
           /\ RequeueSleepers(s) = << >> <=> s = << >>
           /\ GetRealRunQHead(s) \in Elems(s) \cup {INVALID_THREADID}
           /\ (\A t \in Threads : ~IsThreadBlocked(t)) =>
                 /\ RequeueSleepers(s) = s
                 /\ GetRealRunQHead(s) =
                       IF s = << >> THEN INVALID_THREADID ELSE Head(s)
                 /\ Runnable(s) = {} <=> s = << >>
<1> DEFINE N == Len(s)
<1>0. N \in Nat /\ DOMAIN s = 1 .. N /\ \A i \in 1 .. N : s[i] \in Threads
    OBVIOUS
<1>1. CASE Runnable(s) = {}
    <2>1. RequeueSleepers(s) = s /\ GetRealRunQHead(s) = INVALID_THREADID
        BY <1>1 DEF RequeueSleepers, GetRealRunQHead
    <2>2. (\A t \in Threads : ~IsThreadBlocked(t)) => N = 0
        BY <1>0, <1>1 DEF Runnable
    <2>3. N = 0 => s = << >>
        OBVIOUS
    <2> QED
        BY <1>1, <2>1, <2>2, <2>3
<1>2. CASE Runnable(s) # {}
    <2> DEFINE k == CHOOSE i \in Runnable(s) : \A j \in Runnable(s) : i <= j
               r == SubSeq(s, k, N) \o SubSeq(s, 1, k - 1)
    <2>1. Runnable(s) \subseteq 1 .. N
        BY <1>0 DEF Runnable
    <2>2. k \in Runnable(s) /\ \A j \in Runnable(s) : k <= j
        <3>1. \E i \in Runnable(s) : \A j \in Runnable(s) : i <= j
            BY <1>2, <2>1, <1>0, LeastIndex
        <3> QED
            BY <3>1
    <2>3. k \in 1 .. N /\ s # << >>
        BY <2>1, <2>2
    <2>4. RequeueSleepers(s) = r
        BY <1>2 DEF RequeueSleepers
    <2> HIDE DEF k
    <2>5. /\ SubSeq(s, k, N) \in Seq(Threads) /\ SubSeq(s, 1, k - 1) \in Seq(Threads)
          /\ Len(SubSeq(s, k, N)) = N - k + 1 /\ Len(SubSeq(s, 1, k - 1)) = k - 1
          /\ \A i \in 1 .. N - k + 1 : SubSeq(s, k, N)[i] = s[i + k - 1]
          /\ \A i \in 1 .. k - 1 : SubSeq(s, 1, k - 1)[i] = s[i]
        BY <1>0, <2>3
    <2>6. /\ r \in Seq(Threads) /\ Len(r) = N /\ DOMAIN r = 1 .. N
          /\ \A i \in 1 .. N - k + 1 : r[i] = s[i + k - 1]
          /\ \A i \in N - k + 2 .. N : r[i] = s[i - (N - k + 1)]
        BY <1>0, <2>3, <2>5
    <2> HIDE DEF r
    <2> DEFINE src(i) == IF i <= N - k + 1 THEN i + k - 1 ELSE i - (N - k + 1)
    <2>a. \A i \in 1 .. N : src(i) \in 1 .. N /\ r[i] = s[src(i)]
        BY <1>0, <2>3, <2>6
    <2>b. \A i, j \in 1 .. N : src(i) = src(j) => i = j
        BY <1>0, <2>3
    <2> HIDE DEF src
    <2>7. NoDup(r)
        BY <1>0, <2>6, <2>a, <2>b DEF NoDup
    <2>8. \A x : x \in Elems(r) => x \in Elems(s)
        BY <1>0, <2>6, <2>a DEF Elems
    <2>9. ASSUME NEW x \in Elems(s) PROVE x \in Elems(r)
        <3>1. PICK i \in 1 .. N : x = s[i]
            BY <1>0 DEF Elems
        <3>2. \E j \in 1 .. N : src(j) = i
            <4>1. CASE k <= i
                <5>1. i - k + 1 \in 1 .. N /\ src(i - k + 1) = i
                    BY <1>0, <2>3, <4>1 DEF src
                <5> QED
                    BY <5>1
            <4>2. CASE i < k
                <5>1. i + N - k + 1 \in 1 .. N /\ src(i + N - k + 1) = i
                    BY <1>0, <2>3, <4>2 DEF src
                <5> QED
                    BY <5>1
            <4> QED
                BY <1>0, <2>3, <4>1, <4>2
        <3> QED
            BY <2>6, <2>a, <3>1, <3>2 DEF Elems
    <2>10. Head(r) = s[k] /\ r # << >>
        BY <1>0, <2>3, <2>6
    <2>11. GetRealRunQHead(s) = s[k] /\ s[k] \in Elems(s)
        BY <1>0, <1>2, <2>3, <2>4, <2>10 DEF GetRealRunQHead, Elems
    <2>12. ASSUME \A t \in Threads : ~IsThreadBlocked(t)
           PROVE  r = s /\ k = 1
        <3>1. 1 \in Runnable(s)
            BY <1>0, <2>3, <2>12 DEF Runnable
        <3>2. k = 1
            BY <2>2, <2>3, <3>1
        <3>3. \A i \in 1 .. N : r[i] = s[i]
            BY <1>0, <2>6, <3>2
        <3> QED
            BY <1>0, <2>6, <3>2, <3>3
    <2>13. s[1] = Head(s)
        BY <2>3
    <2> QED
        BY <1>2, <2>3, <2>4, <2>6, <2>7, <2>8, <2>9, <2>10, <2>11, <2>12, <2>13
<1> QED
    BY <1>1, <1>2
-----------------------------------------------------------------------------
(* The records that describe what a sim thread does.                       *)

LEMMA IdleFacts ==
    /\ Idle \in Op /\ GoodOp(Idle)
    /\ Idle.at = "loop" /\ Idle.todo = << >>
BY EmptySeq DEF Idle, Op, Labels, ThreadOrNone, CoreOrNone, INVALID_CORE, GoodOp,
        SchedulingAt, ActingAt

LEMMA SchedulingFacts ==
    ASSUME NEW l \in {"check", "affinity"}, NEW s \in Seq(Threads), s # << >>
    PROVE  /\ Scheduling(l, s) \in Op /\ GoodOp(Scheduling(l, s))
           /\ Scheduling(l, s).at = l /\ Scheduling(l, s).todo = s
BY DEF Scheduling, Idle, Op, Labels, ThreadOrNone, CoreOrNone, INVALID_CORE, GoodOp,
        SchedulingAt, ActingAt

LEMMA ActingFacts ==
    ASSUME NEW l \in ActingAt \ {"activate"}, NEW t \in Threads
    PROVE  /\ ActingOn(l, t) \in Op /\ GoodOp(ActingOn(l, t))
           /\ ActingOn(l, t).at = l /\ ActingOn(l, t).todo = << >>
           /\ ActingOn(l, t).tid = t
BY EmptySeq DEF ActingOn, Idle, Op, Labels, ThreadOrNone, CoreOrNone, INVALID_CORE,
        GoodOp, SchedulingAt, ActingAt

LEMMA ActivateFacts ==
    ASSUME NEW t \in Threads, NEW r \in Cores
    PROVE  LET o == [ActingOn("activate", t) EXCEPT !.core = r]
           IN  /\ o \in Op /\ GoodOp(o)
               /\ o.at = "activate" /\ o.todo = << >> /\ o.tid = t
BY EmptySeq DEF ActingOn, Idle, Op, Labels, ThreadOrNone, CoreOrNone, INVALID_CORE,
        GoodOp, SchedulingAt, ActingAt

(* After a thread of the list is dealt with, the others are left.          *)
LEMMA NextTodoFacts ==
    ASSUME NEW s \in Seq(Threads), s # << >>, NoDup(s)
    PROVE  /\ NextTodo(s) \in Op /\ GoodOp(NextTodo(s))
           /\ NextTodo(s).at \in {"loop", "check"}
           /\ NextTodo(s).todo = Tail(s)
<1>1. CASE Len(s) = 1
    BY <1>1, TailFacts, IdleFacts DEF NextTodo
<1>2. CASE Len(s) # 1
    <2>1. Tail(s) \in Seq(Threads) /\ Tail(s) # << >>
        BY <1>2, TailFacts
    <2> QED
        BY <1>2, <2>1, SchedulingFacts DEF NextTodo
<1> QED
    BY <1>1, <1>2

(* A step of the sim thread of core c changes no other sim thread.         *)
LEMMA GotoFacts ==
    ASSUME TypeOK, NEW c \in Cores, NEW o, Goto(c, o)
    PROVE  /\ op'[c] = o
           /\ \A d \in Cores \ {c} : op'[d] = op[d]
           /\ o \in Op => op' \in [Cores -> Op]
           /\ OpShape /\ GoodOp(o) => OpShape'
<1>1. op'[c] = o /\ \A d \in Cores \ {c} : op'[d] = op[d]
    BY DEF Goto, TypeOK
<1>2. o \in Op => op' \in [Cores -> Op]
    BY DEF Goto, TypeOK
<1>3. OpShape /\ GoodOp(o) => OpShape'
    BY <1>1, Zenon DEF OpShape
<1> QED
    BY <1>1, <1>2, <1>3

-----------------------------------------------------------------------------
(* The two ways a core changes hands.                                      *)

ThreadCoresType == [Threads -> CoreOrNone \cup {NoEntry}]

CoreTypes ==
    /\ q \in [Cores -> Seq(Threads)]
    /\ active \in [Cores -> BOOLEAN]
    /\ coreThreads \in [Cores -> ThreadOrNone]
    /\ threadCores \in ThreadCoresType

(* ScheduleNextUnblockedThread leaves the rest of the queue, reordered.    *)
LEMMA ScheduleNextFacts ==
    ASSUME TypeOK, NEW c \in Cores, NEW s \in Seq(Threads), NoDup(s),
           ScheduleNextUnblockedThread(c, s)
    PROVE  /\ CoreTypes'
           /\ \A d \in Cores \ {c} : q'[d] = q[d]
           /\ NoDup(q'[c]) /\ Elems(q'[c]) = Elems(s)
<1>1. /\ RequeueSleepers(s) \in Seq(Threads) /\ NoDup(RequeueSleepers(s))
      /\ Elems(RequeueSleepers(s)) = Elems(s)
      /\ GetRealRunQHead(s) \in ThreadOrNone
    BY RequeueFacts, ElemsFacts DEF ThreadOrNone
<1>2. q' = [q EXCEPT ![c] = RequeueSleepers(s)]
    BY DEF ScheduleNextUnblockedThread
<1>3. q'[c] = RequeueSleepers(s) /\ \A d \in Cores \ {c} : q'[d] = q[d]
    BY <1>2 DEF TypeOK
<1>4. q' \in [Cores -> Seq(Threads)]
    BY <1>1, <1>2 DEF TypeOK
<1>5. active' \in [Cores -> BOOLEAN] /\ coreThreads' \in [Cores -> ThreadOrNone]
    BY <1>1 DEF ScheduleNextUnblockedThread, TypeOK
<1>6. threadCores' \in ThreadCoresType
    BY DEF ScheduleNextUnblockedThread, ThreadCoresType, CoreOrNone, TypeOK
<1> QED
    BY <1>1, <1>3, <1>4, <1>5, <1>6 DEF CoreTypes

(* GiveUpCore keeps the threads of the queue but for the one that leaves.  *)
LEMMA GiveUpFacts ==
    ASSUME TypeOK, NEW c \in Cores, NEW resched \in BOOLEAN,
           q[c] # << >>, NoDup(q[c]), GiveUpCore(c, resched)
    PROVE  /\ CoreTypes'
           /\ \A d \in Cores \ {c} : q'[d] = q[d]
           /\ NoDup(q'[c])
           /\ Elems(q'[c]) = IF resched THEN Elems(q[c])
                             ELSE Elems(q[c]) \ {Head(q[c])}
<1> DEFINE t == Head(q[c])
           s == PopHead(q[c])
           n == Successor(t, s, resched)
<1>1. /\ t \in Threads /\ t \in Elems(q[c]) /\ s \in Seq(Threads)
      /\ NoDup(s) /\ Elems(s) = Elems(q[c]) \ {t}
    BY TailFacts DEF TypeOK, PopHead
<1>2. /\ RequeueSleepers(s) \in Seq(Threads) /\ NoDup(RequeueSleepers(s))
      /\ Elems(RequeueSleepers(s)) = Elems(s)
      /\ GetRealRunQHead(s) \in ThreadOrNone
    BY <1>1, RequeueFacts, ElemsFacts DEF ThreadOrNone
<1>3. n \in ThreadOrNone
    BY <1>1, <1>2 DEF Successor, ThreadOrNone
<1> DEFINE r == RequeueSleepers(s) \o (IF resched THEN <<t>> ELSE << >>)
<1>4. /\ r \in Seq(Threads) /\ NoDup(r)
      /\ Elems(r) = IF resched THEN Elems(q[c]) ELSE Elems(q[c]) \ {t}
    <2>1. CASE resched
        <3>1. r = Append(RequeueSleepers(s), t)
            BY <1>1, <1>2, <2>1, AppendFacts
        <3> HIDE DEF r, s, t
        <3>2. /\ r \in Seq(Threads) /\ NoDup(r)
              /\ Elems(r) = Elems(RequeueSleepers(s)) \cup {t}
            BY <1>1, <1>2, <3>1, AppendFacts
        <3> QED
            BY <1>1, <1>2, <2>1, <3>2
    <2>2. CASE ~resched
        <3>1. r = RequeueSleepers(s)
            <4>1. r = RequeueSleepers(s) \o << >>
                BY <2>2
            <4> HIDE DEF r, s
            <4> QED
                BY <1>2, <4>1, ConcatEmptySeq, Zenon
        <3> QED
            BY <1>1, <1>2, <2>2, <3>1
    <2> QED
        BY <2>1, <2>2
<1>5. q' = [q EXCEPT ![c] = r]
    BY DEF GiveUpCore
<1>6. /\ active' = [active EXCEPT ![c] = @ /\ n # INVALID_THREADID]
      /\ coreThreads' = [coreThreads EXCEPT ![c] = n]
    BY DEF GiveUpCore
<1>7. threadCores' \in ThreadCoresType
    <2>1. \A u \in Threads : threadCores[u] \in CoreOrNone \cup {NoEntry}
        BY DEF TypeOK
    <2> QED
        BY <2>1 DEF GiveUpCore, ThreadCoresType, CoreOrNone
<1> HIDE DEF r, n, t, s
<1>8. q'[c] = r /\ (\A d \in Cores \ {c} : q'[d] = q[d]) /\ q' \in [Cores -> Seq(Threads)]
    BY <1>4, <1>5 DEF TypeOK
<1>9. active' \in [Cores -> BOOLEAN] /\ coreThreads' \in [Cores -> ThreadOrNone]
    BY <1>3, <1>6 DEF TypeOK
<1> QED
    BY <1>4, <1>7, <1>8, <1>9 DEF CoreTypes, t

-----------------------------------------------------------------------------
(* Types and shapes are kept.                                              *)

(* What the invariant says of the sim thread of core c.                    *)
LEMMA Context ==
    ASSUME IInv, NEW c \in Cores
    PROVE  /\ op[c] \in Op /\ GoodOp(op[c])
           /\ op[c].todo \in Seq(Threads) /\ NoDup(op[c].todo)
           /\ q[c] \in Seq(Threads) /\ NoDup(q[c])
           /\ op[c].at \in SchedulingAt =>
                 /\ op[c].todo # << >>
                 /\ Head(op[c].todo) \in Threads
                 /\ Head(op[c].todo) \in Elems(op[c].todo)
           /\ op[c].at \in ActingAt => op[c].tid \in Threads
           /\ op[c].at \in {"front", "map", "giveup"} =>
                 /\ q[c] # << >> /\ Head(q[c]) = op[c].tid
                 /\ op[c].tid \in Threads /\ op[c].tid \in Elems(q[c])
                 /\ Tail(q[c]) \in Seq(Threads) /\ NoDup(Tail(q[c]))
                 /\ Elems(Tail(q[c])) = Elems(q[c]) \ {op[c].tid}
<1>1. op[c] \in Op /\ q[c] \in Seq(Threads)
    BY DEF IInv, TypeOK
<1>2. op[c].todo \in Seq(Threads) /\ GoodOp(op[c])
    BY <1>1 DEF IInv, Op, OpShape
<1>3. NoDup(op[c].todo) /\ NoDup(q[c])
    BY DEF IInv, Distinct
<1>4. op[c].at \in SchedulingAt => op[c].todo # << >>
    BY <1>2 DEF GoodOp
<1>5. op[c].at \in ActingAt => op[c].tid \in Threads
    BY <1>2 DEF GoodOp
<1>6. op[c].at \in {"front", "map", "giveup"} =>
         q[c] # << >> /\ Head(q[c]) = op[c].tid
    BY DEF IInv, ActsOnHead
<1> QED
    BY <1>1, <1>2, <1>3, <1>4, <1>5, <1>6, TailFacts

LEMMA TypesInit == Init => TypeOK /\ OpShape /\ MsgShape
<1> SUFFICES ASSUME Init PROVE TypeOK /\ OpShape /\ MsgShape
    OBVIOUS
<1>1. \A c \in Cores : op[c] = Idle
    BY DEF Init
<1>2. OpShape
    BY <1>1, IdleFacts DEF OpShape
<1>3. MsgShape
    BY DEF Init, MsgShape
<1>4. op \in [Cores -> Op] /\ q \in [Cores -> Seq(Threads)] /\ msgs \in Seq(Message)
    BY IdleFacts DEF Init
<1>5. last_coreID \in Cores
    BY CoresAssumption DEF Init, Cores
<1>6. tcb \in [Threads -> TCB]
    BY DEF Init, NoTCB, TCB, ThreadOrNone, CoreOrNone
<1> QED
    BY <1>2, <1>3, <1>4, <1>5, <1>6 DEF Init, TypeOK, ThreadOrNone, CoreOrNone

(* Changes to a message queue.                                             *)
LEMMA MsgFacts ==
    ASSUME TypeOK, msgs # << >>
    PROVE  /\ Head(msgs) \in Message /\ Head(msgs) = msgs[1] /\ 1 \in DOMAIN msgs
           /\ Tail(msgs) \in Seq(Message)
           /\ \A k \in DOMAIN Tail(msgs) :
                 k + 1 \in DOMAIN msgs /\ k + 1 # 1 /\ Tail(msgs)[k] = msgs[k + 1]
           /\ \A k, l \in DOMAIN Tail(msgs) : k # l => k + 1 # l + 1
<1> msgs \in Seq(Message) /\ Len(msgs) \in Nat \ {0}
    BY EmptySeq DEF TypeOK
<1> QED
    OBVIOUS

(* Offsets count cores.                                                    *)
LEMMA OffsetNat == \A a \in Asids : Offset(a) \in Nat
<1> SUFFICES ASSUME NEW a \in Asids PROVE Offset(a) \in Nat
    OBVIOUS
<1>1. a \in Nat
    BY ProcessAssumption DEF Asids
<1> DEFINE w == NumCores \div NumProcesses
<1>2. w \in Nat
    BY CoresAssumption, ProcessAssumption
<1> HIDE DEF w
<1>3. a * w \in Nat
    BY <1>1, <1>2
<1> QED
    BY <1>3 DEF Offset, w

(* The pinned threads of a process and where they go.                      *)
LEMMA PinnedFacts ==
    ASSUME IInv, msgs # << >>, Head(msgs).pinned
    PROVE  /\ \A i \in DOMAIN Head(msgs).tids :
                 Offset(Head(msgs).asid) + i - 1 \in Cores
           /\ Head(msgs).asid \in Asids
           /\ Head(msgs).tids \in Seq(Threads) /\ Head(msgs).tids # << >>
<1> DEFINE m == Head(msgs)
<1>1. m \in Message /\ m = msgs[1] /\ 1 \in DOMAIN msgs
    BY MsgFacts DEF IInv
<1>2. m.asid \in Asids /\ m.tids \in Seq(Threads)
    BY <1>1 DEF Message
<1>3. m.tids # << >> /\ Offset(m.asid) + Len(m.tids) <= NumCores
    BY <1>1 DEF IInv, MsgShape
<1>4. Offset(m.asid) \in Nat /\ Len(m.tids) \in Nat
    BY <1>2, OffsetNat
<1>5. DOMAIN m.tids = 1 .. Len(m.tids)
    BY <1>2
<1> HIDE DEF m
<1>6. \A i \in DOMAIN m.tids : Offset(m.asid) + i - 1 \in Cores
    BY <1>3, <1>4, <1>5, CoresAssumption DEF Cores
<1> QED
    BY <1>2, <1>3, <1>6 DEF m

(* GetAffineThreads lists every thread of a process once.                  *)
LEMMA OrdersFacts ==
    ASSUME NEW S \in SUBSET Threads, S # {}, NEW s \in Orders(S)
    PROVE  /\ s \in Seq(Threads) /\ NoDup(s) /\ Elems(s) \subseteq S
           /\ Len(s) = Cardinality(S) /\ s # << >>
<1>1. IsFiniteSet(S)
    BY ThreadsAssumption, FS_Subset
<1>2. Cardinality(S) \in Nat /\ Cardinality(S) # 0
    BY <1>1, FS_CardinalityType, FS_EmptySet
<1>3. /\ s \in [1 .. Cardinality(S) -> S]
      /\ \A i, j \in DOMAIN s : i # j => s[i] # s[j]
    BY DEF Orders
<1>4. s \in Seq(Threads) /\ Len(s) = Cardinality(S)
    BY <1>2, <1>3
<1>5. NoDup(s)
    BY <1>3 DEF NoDup
<1>6. Elems(s) \subseteq S
    BY <1>3 DEF Elems
<1> QED
    BY <1>2, <1>4, <1>5, <1>6

(* A new message is the last one.                                          *)
LEMMA SendFacts ==
    ASSUME TypeOK, NEW m \in Message, msgs' = Append(msgs, m)
    PROVE  /\ msgs' \in Seq(Message)
           /\ \A k \in DOMAIN msgs : k \in DOMAIN msgs' /\ msgs'[k] = msgs[k]
           /\ \A k \in DOMAIN msgs' :
                 k \in DOMAIN msgs \/ (k = Len(msgs) + 1 /\ msgs'[k] = m)
           /\ Len(msgs) + 1 \notin DOMAIN msgs
<1>1. msgs \in Seq(Message) /\ Len(msgs) \in Nat /\ DOMAIN msgs = 1 .. Len(msgs)
    BY DEF TypeOK
<1>2. /\ msgs' \in Seq(Message) /\ DOMAIN msgs' = 1 .. Len(msgs) + 1
      /\ \A k \in 1 .. Len(msgs) : msgs'[k] = msgs[k]
      /\ msgs'[Len(msgs) + 1] = m
    BY <1>1
<1> QED
    BY <1>1, <1>2

(* BlockThread finds no entry for the thread it blocks on: a thread is     *)
(* joined once.                                                            *)
LEMMA Vacant ==
    ASSUME IInv, NEW c \in Cores, op[c].at = "map"
    PROVE  /\ op[c].tid \in Threads /\ tcb[op[c].tid].blocked_on \in Threads
           /\ blocked_thread_map[tcb[op[c].tid].blocked_on] = INVALID_THREADID
<1> DEFINE t == op[c].tid
           u == tcb[t].blocked_on
           v == blocked_thread_map[u]
<1>1. t \in Threads /\ u # INVALID_THREADID /\ <<t, u>> \in joined
    BY Context DEF ActingAt, IInv, Blocking, IsThreadBlocked
<1>2. u \in Threads
    BY <1>1 DEF IInv, TypeOK, TCB, ThreadOrNone
<1>3. v \in ThreadOrNone
    BY <1>2 DEF IInv, TypeOK
<1>4. ASSUME v # INVALID_THREADID PROVE FALSE
    <2>1. v \in Threads /\ tcb[v].blocked_on = u
        BY <1>2, <1>3, <1>4 DEF ThreadOrNone, IInv, SleepersAccounted
    <2>2. <<v, u>> \in joined
        BY <1>2, <2>1, ThreadsAssumption DEF IInv, Blocking, IsThreadBlocked
    <2>3. <<t, u>> \in Joins /\ <<v, u>> \in Joins
        BY <1>1, <2>2 DEF IInv, TypeOK
    <2>4. <<v, u>> = <<t, u>>
        BY <2>3, JoinsAssumption
    <2>5. v # t
        BY <1>2 DEF IInv, Blocking
    <2> QED
        BY <2>4, <2>5
<1> QED
    BY <1>1, <1>2, <1>4

LEMMA FeederTypes ==
    ASSUME IInv, Feeder PROVE TypeOK' /\ OpShape' /\ MsgShape'
<1> USE DEF placeVars, blockVars, coreVars
<1>0. TypeOK /\ OpShape /\ MsgShape
    BY DEF IInv
<1>1. ASSUME NEW t \in Threads, ScheduleThread(t)
      PROVE  TypeOK' /\ OpShape' /\ MsgShape'
    <2> DEFINE m == [pinned |-> FALSE, asid |-> Process[t], tids |-> <<t>>]
    <2>1. m \in Message /\ m.tids # << >> /\ ~m.pinned
        BY ProcessAssumption DEF Message
    <2>2. msgs' = Append(msgs, m)
        BY <1>1 DEF ScheduleThread
    <2> HIDE DEF m
    <2>3. MsgShape'
        BY <1>0, <2>1, <2>2, SendFacts DEF MsgShape
    <2>4. msgs' \in Seq(Message)
        BY <1>0, <2>1, <2>2, SendFacts
    <2> QED
        BY <1>0, <1>1, <2>3, <2>4 DEF ScheduleThread, TypeOK, OpShape
<1>2. ASSUME NEW t \in Threads, SeesScheduled(t)
      PROVE  TypeOK' /\ OpShape' /\ MsgShape'
    BY <1>0, <1>2 DEF SeesScheduled, TypeOK, OpShape, MsgShape
<1>3. ASSUME NEW t \in Threads, SeesDescheduled(t)
      PROVE  TypeOK' /\ OpShape' /\ MsgShape'
    BY <1>0, <1>3 DEF SeesDescheduled, TypeOK, OpShape, MsgShape
<1>4. ASSUME NEW a \in Resumes, ResumeSimulation(a)
      PROVE  TypeOK' /\ OpShape' /\ MsgShape'
    <2> DEFINE S == {t \in Threads : Process[t] = a}
    <2>1. S \in SUBSET Threads /\ S # {}
        BY <1>4 DEF ResumeSimulation
    <2>2. PICK s \in Orders(S) :
              msgs' = Append(msgs, [pinned |-> TRUE, asid |-> a, tids |-> s])
        BY <1>4 DEF ResumeSimulation
    <2> DEFINE m == [pinned |-> TRUE, asid |-> a, tids |-> s]
    <2>3. m \in Message /\ m.tids # << >> /\ Offset(m.asid) + Len(m.tids) <= NumCores
        BY <2>1, OrdersFacts, PinnedAssumption, WorkloadAssumption DEF Message
    <2> HIDE DEF m
    <2>4. MsgShape'
        BY <1>0, <2>2, <2>3, SendFacts DEF MsgShape, m
    <2>5. msgs' \in Seq(Message)
        BY <1>0, <2>2, <2>3, SendFacts DEF m
    <2>6. fstate' \in [Threads -> {"off", "waiting", "on", "leaving"}]
        BY <1>0, <1>4 DEF ResumeSimulation, TypeOK
    <2> QED
        BY <1>0, <1>4, <2>4, <2>5, <2>6 DEF ResumeSimulation, TypeOK, OpShape
<1> QED
    BY <1>1, <1>2, <1>3, <1>4 DEF Feeder

LEMMA SimThreadTypes ==
    ASSUME IInv, NEW c \in Cores, SimThread(c)
    PROVE  TypeOK' /\ OpShape' /\ MsgShape'
<1> USE DEF placeVars, blockVars, coreVars, feederVars
<1>0. TypeOK /\ OpShape /\ MsgShape
    BY DEF IInv
<1> DEFINE t == Head(op[c].todo)
           u == op[c].tid
<1>t. op[c].at \in SchedulingAt =>
         /\ op[c].todo # << >> /\ op[c].todo \in Seq(Threads) /\ NoDup(op[c].todo)
         /\ t \in Threads
    BY Context
<1>u. op[c].at \in ActingAt => u \in Threads
    BY Context
<1>k. op[c] \in Op /\ op[c].core \in CoreOrNone
    BY Context DEF Op
<1>1. CASE ReceiveNewThread(c)
    <2>1. Head(msgs) \in Message /\ Head(msgs).tids # << >> /\ Tail(msgs) \in Seq(Message)
        BY <1>0, <1>1, MsgFacts DEF ReceiveNewThread, MsgShape
    <2>2. Head(msgs).tids \in Seq(Threads)
        BY <2>1 DEF Message
    <2>3. OpShape' /\ op' \in [Cores -> Op]
        BY <1>0, <1>1, <2>1, <2>2, SchedulingFacts, GotoFacts DEF ReceiveNewThread
    <2>4. MsgShape'
        BY <1>0, <1>1, MsgFacts DEF ReceiveNewThread, MsgShape
    <2> QED
        BY <1>0, <1>1, <2>1, <2>3, <2>4 DEF ReceiveNewThread, TypeOK
<1>2. CASE ReceiveProcessThreads(c)
    <2> DEFINE m == Head(msgs)
               core(i) == Offset(m.asid) + i - 1
    <2>1. msgs # << >> /\ m.pinned /\ msgs' = Tail(msgs)
        BY <1>2 DEF ReceiveProcessThreads
    <2>2. /\ \A i \in DOMAIN m.tids : core(i) \in Cores
          /\ m.asid \in Asids /\ m.tids \in Seq(Threads) /\ m.tids # << >>
        BY <2>1, PinnedFacts
    <2>3. \A i \in DOMAIN m.tids : core(i) < NumCores
        BY <2>2, CoresAssumption DEF Cores
    <2>4. /\ affinity' = [x \in Threads |->
                IF \E i \in DOMAIN m.tids : m.tids[i] = x
                THEN core(CHOOSE i \in DOMAIN m.tids : m.tids[i] = x)
                ELSE affinity[x]]
          /\ processCoreSet' = [processCoreSet EXCEPT
                ![m.asid] = {core(i) : i \in DOMAIN m.tids}]
          /\ Goto(c, Scheduling("check", m.tids))
        BY <1>2, <2>3 DEF ReceiveProcessThreads
    <2>5. OpShape' /\ op' \in [Cores -> Op]
        BY <1>0, <2>2, <2>4, SchedulingFacts, GotoFacts
    <2>6. MsgShape' /\ msgs' \in Seq(Message)
        BY <1>0, <2>1, MsgFacts DEF MsgShape
    <2> HIDE DEF m, core
    <2>7. affinity' \in [Threads -> CoreOrNone]
        BY <1>0, <2>2, <2>4 DEF TypeOK, CoreOrNone
    <2>8. processCoreSet' \in [Asids -> SUBSET Cores]
        BY <1>0, <2>2, <2>4 DEF TypeOK
    <2> QED
        BY <1>0, <1>2, <2>5, <2>6, <2>7, <2>8 DEF ReceiveProcessThreads, TypeOK
<1>3. CASE QueueEmpty(c)
    <2> DEFINE o == [Idle EXCEPT !.at = "drained"]
    <2>1. o \in Op /\ GoodOp(o)
        BY IdleFacts DEF Idle, Op, Labels, GoodOp, SchedulingAt, ActingAt
    <2> HIDE DEF o
    <2>2. OpShape' /\ op' \in [Cores -> Op]
        BY <1>0, <1>3, <2>1, GotoFacts DEF QueueEmpty, o
    <2> QED
        BY <1>0, <1>3, <2>2 DEF QueueEmpty, TypeOK, MsgShape
<1>4. CASE CheckScheduled(c)
    <2>1. OpShape' /\ op' \in [Cores -> Op]
        BY <1>0, <1>4, <1>t, NextTodoFacts, SchedulingFacts, GotoFacts
        DEF CheckScheduled, SchedulingAt
    <2> QED
        BY <1>0, <1>4, <2>1 DEF CheckScheduled, TypeOK, MsgShape
<1>5. CASE ChooseCore(c)
    <2> DEFINE k == IF affinity[t] # INVALID_CORE THEN affinity[t] ELSE last_coreID
               o == [op[c] EXCEPT !.at = "tcb", !.core = k]
    <2>1. op[c].at = "affinity" /\ t \in Threads /\ op[c].todo # << >>
        BY <1>5, <1>t DEF ChooseCore, SchedulingAt
    <2>2. k \in Cores
        BY <1>0, <2>1 DEF TypeOK, CoreOrNone
    <2>3. Goto(c, o)
        BY <1>5 DEF ChooseCore
    <2> HIDE DEF k
    <2>4. o \in Op /\ GoodOp(o)
        BY <1>k, <2>1, <2>2 DEF Op, Labels, CoreOrNone, GoodOp, SchedulingAt, ActingAt
    <2> HIDE DEF o
    <2>5. OpShape' /\ op' \in [Cores -> Op]
        BY <1>0, <2>3, <2>4, GotoFacts
    <2>6. NextCore \in Cores
        BY <1>0, CoresAssumption DEF NextCore, Cores, TypeOK
    <2>7. last_coreID' \in Cores
        BY <1>0, <1>5, <2>6 DEF ChooseCore, TypeOK
    <2> QED
        BY <1>0, <1>5, <2>5, <2>7 DEF ChooseCore, TypeOK, MsgShape
<1>6. CASE SetRunQueue(c)
    <2> DEFINE o == [op[c] EXCEPT !.at = "enqueue"]
    <2>1. op[c].at = "tcb" /\ op[c].core \in Cores /\ op[c].todo # << >> /\ t \in Threads
        BY <1>6, <1>t, Context DEF SetRunQueue, SchedulingAt, GoodOp
    <2>2. o \in Op /\ GoodOp(o)
        BY <1>k, <2>1 DEF Op, Labels, GoodOp, SchedulingAt, ActingAt
    <2>3. Goto(c, o)
        BY <1>6 DEF SetRunQueue
    <2> HIDE DEF o
    <2>4. OpShape' /\ op' \in [Cores -> Op]
        BY <1>0, <2>2, <2>3, GotoFacts
    <2>5. tcb' \in [Threads -> TCB]
        BY <1>0, <1>6, <2>1 DEF SetRunQueue, TypeOK, TCB, CoreOrNone
    <2> QED
        BY <1>0, <1>6, <2>4, <2>5 DEF SetRunQueue, TypeOK, MsgShape
<1>7. CASE Enqueue(c)
    <2>1. /\ op[c].core \in Cores /\ t \in Threads
          /\ op[c].todo \in Seq(Threads) /\ op[c].todo # << >> /\ NoDup(op[c].todo)
        BY <1>7, <1>t, Context DEF Enqueue, SchedulingAt, GoodOp
    <2>2. OpShape' /\ op' \in [Cores -> Op]
        BY <1>0, <1>7, <2>1, NextTodoFacts, GotoFacts DEF Enqueue
    <2>3. q' \in [Cores -> Seq(Threads)]
        BY <1>0, <1>7, <2>1 DEF Enqueue, TypeOK
    <2>4. /\ active' \in [Cores -> BOOLEAN]
          /\ coreThreads' \in [Cores -> ThreadOrNone]
          /\ threadCores' \in [Threads -> CoreOrNone \cup {NoEntry}]
        BY <1>0, <1>7, <2>1 DEF Enqueue, TypeOK, ThreadOrNone, CoreOrNone, IsIdle
    <2> QED
        BY <1>0, <1>7, <2>2, <2>3, <2>4 DEF Enqueue, TypeOK, MsgShape
<1>8. CASE GetCoreThread(c)
    <2>1. q[c] # << >> => Head(q[c]) \in Threads
        BY Context, TailFacts
    <2>2. OpShape' /\ op' \in [Cores -> Op]
        BY <1>0, <1>8, <2>1, ActingFacts, IdleFacts, GotoFacts
        DEF GetCoreThread, ActingAt
    <2> QED
        BY <1>0, <1>8, <2>2 DEF GetCoreThread, TypeOK, MsgShape
<1>9. CASE ForgetRunQueue(c)
    <2>1. OpShape' /\ op' \in [Cores -> Op]
        BY <1>0, <1>9, IdleFacts, GotoFacts DEF ForgetRunQueue
    <2>2. tcb' \in [Threads -> TCB]
        BY <1>0, <1>9, <1>u DEF ForgetRunQueue, TypeOK, TCB, CoreOrNone, ActingAt
    <2> QED
        BY <1>0, <1>9, <2>1, <2>2 DEF ForgetRunQueue, TypeOK, MsgShape
<1>15. CASE EraseThread(c)
    <2>1. op[c].at = "erase" /\ u \in Threads /\ Goto(c, ActingOn("unblock", u))
        BY <1>15, <1>u DEF EraseThread, ActingAt
    <2>2. OpShape' /\ op' \in [Cores -> Op]
        BY <1>0, <2>1, ActingFacts, GotoFacts DEF ActingAt
    <2>3. CoreTypes'
        BY <1>0, <1>15, Context, ScheduleNextFacts DEF EraseThread
    <2>4. tcb' \in [Threads -> TCB]
        BY <1>0, <1>15 DEF EraseThread, TypeOK, NoTCB, TCB, ThreadOrNone, CoreOrNone
    <2> QED
        BY <1>0, <1>15, <2>2, <2>3, <2>4
        DEF EraseThread, TypeOK, MsgShape, CoreTypes, ThreadCoresType
<1>10. CASE RecordSleeper(c)
    <2>1. u \in Threads /\ blocked_thread_map[tcb[u].blocked_on] = INVALID_THREADID
        BY <1>10, Vacant DEF RecordSleeper
    <2>2. Goto(c, ActingOn("giveup", u))
        BY <1>10, <2>1 DEF RecordSleeper
    <2>3. OpShape' /\ op' \in [Cores -> Op]
        BY <1>0, <2>1, <2>2, ActingFacts, GotoFacts DEF ActingAt
    <2>4. blocked_thread_map' \in [Threads -> ThreadOrNone]
        BY <1>0, <1>10, <2>1 DEF RecordSleeper, TypeOK, ThreadOrNone
    <2> QED
        BY <1>0, <1>10, <2>3, <2>4 DEF RecordSleeper, TypeOK, MsgShape
<1>11. CASE GiveUpBlocked(c)
    <2>1. q[c] # << >> /\ NoDup(q[c]) /\ GiveUpCore(c, TRUE)
        BY <1>11, Context DEF GiveUpBlocked
    <2>2. CoreTypes'
        BY <1>0, <2>1, GiveUpFacts
    <2>3. Goto(c, Idle)
        BY <2>1 DEF GiveUpCore
    <2>4. OpShape' /\ op' \in [Cores -> Op]
        BY <1>0, <2>3, IdleFacts, GotoFacts
    <2> QED
        BY <1>0, <1>11, <2>2, <2>4
        DEF GiveUpBlocked, GiveUpCore, TypeOK, MsgShape, CoreTypes, ThreadCoresType
<1>12. CASE TakeSleeper(c)
    <2>1. blocked_thread_map[u] \in Threads \cup {INVALID_THREADID}
        BY <1>0, <1>12, <1>u DEF TakeSleeper, TypeOK, ThreadOrNone, ActingAt
    <2>2. OpShape' /\ op' \in [Cores -> Op]
        BY <1>0, <1>12, <2>1, ActingFacts, IdleFacts, GotoFacts
        DEF TakeSleeper, ActingAt
    <2>3. blocked_thread_map' \in [Threads -> ThreadOrNone]
        BY <1>0, <1>12 DEF TakeSleeper, TypeOK, ThreadOrNone
    <2> QED
        BY <1>0, <1>12, <2>2, <2>3 DEF TakeSleeper, TypeOK, MsgShape
<1>13. CASE WakeSleeper(c)
    <2>1. u \in Threads /\ tcb[u].exists
        BY <1>13, <1>u DEF WakeSleeper, IInv, Blocking, ActingAt
    <2>2. tcb[u].run_queue_ID # INVALID_CORE => tcb[u].run_queue_ID \in Cores
        BY <1>0, <2>1 DEF TypeOK, TCB, CoreOrNone
    <2>3. OpShape' /\ op' \in [Cores -> Op]
        <3>1. CASE tcb[u].run_queue_ID = INVALID_CORE
            BY <1>0, <1>13, <2>1, <3>1, IdleFacts, GotoFacts DEF WakeSleeper
        <3>2. CASE tcb[u].run_queue_ID # INVALID_CORE
            <4> DEFINE o == [ActingOn("activate", u) EXCEPT !.core = tcb[u].run_queue_ID]
            <4>1. Goto(c, o)
                BY <1>13, <2>1, <3>2 DEF WakeSleeper
            <4>2. o \in Op /\ GoodOp(o)
                BY <2>1, <2>2, <3>2, ActivateFacts
            <4> QED
                BY <1>0, <4>1, <4>2, GotoFacts
        <3> QED
            BY <3>1, <3>2
    <2>4. tcb' \in [Threads -> TCB]
        <3>1. [tcb[u] EXCEPT !.blocked_on = INVALID_THREADID] \in TCB
            BY <1>0, <2>1 DEF TypeOK, TCB, ThreadOrNone
        <3>2. tcb' = [tcb EXCEPT ![u] = [tcb[u] EXCEPT !.blocked_on = INVALID_THREADID]]
            BY <1>13 DEF WakeSleeper
        <3> QED
            BY <1>0, <3>1, <3>2 DEF TypeOK
    <2> QED
        BY <1>0, <1>13, <2>3, <2>4 DEF WakeSleeper, TypeOK, MsgShape
<1>14. CASE ActivateSleeper(c)
    <2>1. op[c].core \in Cores /\ u \in Threads
        BY <1>14, Context DEF ActivateSleeper, GoodOp, ActingAt
    <2>2. OpShape' /\ op' \in [Cores -> Op]
        BY <1>0, <1>14, IdleFacts, GotoFacts DEF ActivateSleeper
    <2>3. PICK wake \in FrontMayBe(q[op[c].core], u) :
             /\ active' = [active EXCEPT ![op[c].core] = @ \/ wake]
             /\ threadCores' = [threadCores EXCEPT ![u] = IF wake THEN op[c].core ELSE @]
             /\ coreThreads' = [coreThreads EXCEPT ![op[c].core] = IF wake THEN u ELSE @]
        BY <1>14 DEF ActivateSleeper
    <2>4. /\ active' \in [Cores -> BOOLEAN]
          /\ coreThreads' \in [Cores -> ThreadOrNone]
          /\ threadCores' \in [Threads -> CoreOrNone \cup {NoEntry}]
        BY <1>0, <2>1, <2>3 DEF TypeOK, ThreadOrNone, CoreOrNone
    <2> QED
        BY <1>0, <1>14, <2>2, <2>4 DEF ActivateSleeper, TypeOK, MsgShape
<1> QED
    BY <1>1, <1>2, <1>3, <1>4, <1>5, <1>6, <1>7, <1>8, <1>9, <1>10, <1>11, <1>12,
       <1>13, <1>14, <1>15 DEF SimThread

LEMMA HandshakeTypes ==
    ASSUME IInv, NEW c \in Cores, Handshake(c)
    PROVE  TypeOK' /\ OpShape' /\ MsgShape'
<1> USE DEF placeVars, blockVars, coreVars, feederVars
<1>0. TypeOK /\ OpShape /\ MsgShape
    BY DEF IInv
<1> DEFINE t == op[c].tid
<1>t. op[c].at = "front" =>
         /\ q[c] # << >> /\ Head(q[c]) = t /\ t \in Threads
         /\ NoDup(q[c]) /\ PopHead(q[c]) \in Seq(Threads) /\ NoDup(PopHead(q[c]))
    BY Context DEF PopHead
<1>1. CASE SimulateInsn(c)
    <2>1. OpShape' /\ op' \in [Cores -> Op]
        BY <1>0, <1>1, IdleFacts, GotoFacts DEF SimulateInsn
    <2> QED
        BY <1>0, <1>1, <2>1 DEF SimulateInsn, TypeOK, MsgShape
<1>2. CASE Yield(c)
    <2>1. q[c] # << >> /\ NoDup(q[c]) /\ GiveUpCore(c, TRUE) /\ UNCHANGED fstate
        BY <1>2, <1>t DEF Yield, HasHandshake
    <2>2. CoreTypes'
        BY <1>0, <2>1, GiveUpFacts
    <2>3. Goto(c, Idle)
        BY <2>1 DEF GiveUpCore
    <2>4. OpShape' /\ op' \in [Cores -> Op]
        BY <1>0, <2>3, IdleFacts, GotoFacts
    <2> QED
        BY <1>0, <2>1, <2>2, <2>4
        DEF GiveUpCore, TypeOK, MsgShape, CoreTypes, ThreadCoresType
<1>3. CASE Leave(c)
    <2>1. op[c].at = "front" /\ GiveUpCore(c, FALSE)
        BY <1>3 DEF Leave, HasControl, HasHandshake
    <2>2. CoreTypes'
        BY <1>0, <1>t, <2>1, GiveUpFacts
    <2>3. Goto(c, ActingOn("forget", t))
        BY <1>t, <2>1 DEF GiveUpCore
    <2>4. OpShape' /\ op' \in [Cores -> Op]
        BY <1>0, <1>t, <2>1, <2>3, ActingFacts, GotoFacts DEF ActingAt
    <2>5. fstate' \in [Threads -> {"off", "waiting", "on", "leaving"}]
        BY <1>0, <1>3 DEF Leave, TypeOK
    <2> QED
        BY <1>0, <2>1, <2>2, <2>4, <2>5
        DEF GiveUpCore, TypeOK, MsgShape, CoreTypes, ThreadCoresType
<1>4. CASE DescheduleActiveThread(c)
    <2>1. op[c].at = "front"
        BY <1>4 DEF DescheduleActiveThread, HasControl, HasHandshake
    <2>2. q' \in [Cores -> Seq(Threads)]
        BY <1>0, <1>t, <1>4, <2>1 DEF DescheduleActiveThread, TypeOK
    <2>3. threadCores' \in [Threads -> CoreOrNone \cup {NoEntry}]
        BY <1>0, <1>4 DEF DescheduleActiveThread, TypeOK
    <2>4. OpShape' /\ op' \in [Cores -> Op]
        BY <1>0, <1>t, <1>4, <2>1, ActingFacts, GotoFacts
        DEF DescheduleActiveThread, ActingAt
    <2>5. /\ fstate' \in [Threads -> {"off", "waiting", "on", "leaving"}]
          /\ exited' \subseteq Threads
        BY <1>0, <1>t, <1>4, <2>1 DEF DescheduleActiveThread, TypeOK
    <2> QED
        BY <1>0, <1>4, <2>2, <2>3, <2>4, <2>5
        DEF DescheduleActiveThread, TypeOK, MsgShape
<1>5. ASSUME NEW u \in Threads, BlockThread(c, u)
      PROVE  TypeOK' /\ OpShape' /\ MsgShape'
    <2>1. op[c].at = "front"
        BY <1>5 DEF BlockThread, HasHandshake
    <2>2. OpShape' /\ op' \in [Cores -> Op]
        BY <1>0, <1>t, <1>5, <2>1, ActingFacts, GotoFacts DEF BlockThread, ActingAt
    <2>3. joined' \subseteq Joins
        BY <1>0, <1>5 DEF BlockThread, TypeOK
    <2>4. tcb' \in [Threads -> TCB]
        BY <1>0, <1>t, <1>5, <2>1 DEF BlockThread, TypeOK, TCB, ThreadOrNone
    <2> QED
        BY <1>0, <1>5, <2>2, <2>3, <2>4 DEF BlockThread, TypeOK, MsgShape
<1>6. ASSUME NEW k \in Cores, MigrateThread(c, k)
      PROVE  TypeOK' /\ OpShape' /\ MsgShape'
    <2>1. op[c].at = "front"
        BY <1>6 DEF MigrateThread, HasControl, HasHandshake
    <2>2. /\ ScheduleNextUnblockedThread(c, PopHead(q[c]))
          /\ Goto(c, Scheduling("affinity", <<t>>))
        BY <1>t, <1>6, <2>1 DEF MigrateThread
    <2>3. CoreTypes'
        BY <1>0, <1>t, <2>1, <2>2, ScheduleNextFacts
    <2>4. <<t>> \in Seq(Threads) /\ <<t>> # << >>
        BY <1>t, <2>1
    <2>5. OpShape' /\ op' \in [Cores -> Op]
        BY <1>0, <2>2, <2>4, SchedulingFacts, GotoFacts
    <2>6. affinity' \in [Threads -> CoreOrNone]
        BY <1>0, <1>6 DEF MigrateThread, TypeOK, CoreOrNone
    <2> QED
        BY <1>0, <1>6, <2>3, <2>5, <2>6
        DEF MigrateThread, TypeOK, MsgShape, CoreTypes, ThreadCoresType
<1> QED
    BY <1>1, <1>2, <1>3, <1>4, <1>5, <1>6 DEF Handshake

(* Types and shapes after any step.                                        *)
LEMMA TypesKept ==
    ASSUME IInv, [Next]_vars PROVE TypeOK' /\ OpShape' /\ MsgShape'
<1>1. CASE Next
    BY <1>1, FeederTypes, SimThreadTypes, HandshakeTypes DEF Next
<1>2. CASE UNCHANGED vars
    BY <1>2 DEF vars, placeVars, blockVars, coreVars, feederVars, IInv, TypeOK,
        OpShape, MsgShape
<1> QED
    BY <1>1, <1>2

-----------------------------------------------------------------------------
(* Every thread is in one place.                                           *)

Places == Distinct /\ Disjoint /\ Claimed

Unplaced(t) ==
    /\ \A d \in Cores : t \notin Elems(q[d]) /\ t \notin Elems(op[d].todo)
    /\ \A k \in DOMAIN msgs : t \notin Elems(msgs[k].tids)

(* Queues and lists that only lose threads stay disjoint.                  *)
LEMMA PlacesShrink ==
    ASSUME IInv, UNCHANGED msgs,
           \A d \in Cores : NoDup(q'[d]) /\ Elems(q'[d]) \subseteq Elems(q[d]),
           \A d \in Cores : /\ NoDup(op'[d].todo)
                            /\ Elems(op'[d].todo) \subseteq Elems(op[d].todo),
           \A t \in Threads : Wanted(t) => Wanted(t)' \/ Unplaced(t)'
    PROVE  Places'
<1>0. Distinct /\ Disjoint /\ Claimed /\ TypeOK
    BY DEF IInv
<1>1. Distinct'
    BY <1>0 DEF Distinct
<1>2. Disjoint'
    <2>1. ASSUME NEW c \in Cores, NEW d \in Cores
          PROVE  /\ c # d => Elems(q'[c]) \cap Elems(q'[d]) = {}
                 /\ c # d => Elems(op'[c].todo) \cap Elems(op'[d].todo) = {}
                 /\ Elems(q'[c]) \cap Elems(op'[d].todo) = {}
        BY <1>0 DEF Disjoint
    <2>2. ASSUME NEW k \in DOMAIN msgs, NEW c \in Cores
          PROVE  /\ Elems(msgs[k].tids) \cap Elems(q'[c]) = {}
                 /\ Elems(msgs[k].tids) \cap Elems(op'[c].todo) = {}
        BY <1>0 DEF Disjoint
    <2>3. \A k, l \in DOMAIN msgs :
             k # l => Elems(msgs[k].tids) \cap Elems(msgs[l].tids) = {}
        BY <1>0 DEF Disjoint
    <2> QED
        BY <2>1, <2>2, <2>3 DEF Disjoint
<1>3. Claimed'
    <2>1. ASSUME NEW c \in Cores, NEW t \in Elems(q'[c]) \cup Elems(op'[c].todo)
          PROVE  Wanted(t)'
        <3>1. t \in Threads
            BY <1>0, ElemsFacts, Context
        <3>2. Wanted(t)
            BY <1>0 DEF Claimed
        <3>3. ~Unplaced(t)'
            BY DEF Unplaced
        <3> QED
            BY <3>1, <3>2, <3>3
    <2>2. ASSUME NEW k \in DOMAIN msgs, NEW t \in Elems(msgs[k].tids)
          PROVE  Wanted(t)'
        <3>1. msgs[k] \in Message
            BY <1>0 DEF TypeOK
        <3>2. t \in Threads
            BY <3>1, ElemsFacts DEF Message
        <3>3. Wanted(t)
            BY <1>0 DEF Claimed
        <3>4. ~Unplaced(t)'
            BY DEF Unplaced
        <3> QED
            BY <3>2, <3>3, <3>4
    <2> QED
        BY <2>1, <2>2 DEF Claimed
<1> QED
    BY <1>1, <1>2, <1>3 DEF Places

(* A sim thread drops the first thread of its list, or its whole list.     *)
LEMMA PlacesGoto ==
    ASSUME IInv, NEW c \in Cores, NEW o, Goto(c, o), UNCHANGED <<q, msgs, fstate>>,
           NoDup(o.todo), Elems(o.todo) \subseteq Elems(op[c].todo)
    PROVE  Places'
<1>1. op'[c] = o /\ \A d \in Cores \ {c} : op'[d] = op[d]
    BY GotoFacts DEF IInv
<1>2. \A d \in Cores : /\ NoDup(op'[d].todo)
                       /\ Elems(op'[d].todo) \subseteq Elems(op[d].todo)
    BY <1>1 DEF IInv, Distinct
<1>3. \A d \in Cores : NoDup(q'[d]) /\ Elems(q'[d]) \subseteq Elems(q[d])
    BY DEF IInv, Distinct
<1>4. \A t \in Threads : Wanted(t) => Wanted(t)'
    BY DEF Wanted
<1> QED
    BY <1>2, <1>3, <1>4, PlacesShrink

(* A thread whose place is q[c] has no other.                              *)
LEMMA OnlyThere ==
    ASSUME IInv, NEW c \in Cores, NEW t \in Elems(q[c])
    PROVE  /\ \A d \in Cores \ {c} : t \notin Elems(q[d])
           /\ \A d \in Cores : t \notin Elems(op[d].todo)
           /\ \A k \in DOMAIN msgs : t \notin Elems(msgs[k].tids)
BY DEF IInv, Disjoint

(* A thread whose place is the list of c has no other.                     *)
LEMMA OnlyListed ==
    ASSUME IInv, NEW c \in Cores, NEW t \in Elems(op[c].todo)
    PROVE  /\ \A d \in Cores \ {c} : t \notin Elems(op[d].todo)
           /\ \A d \in Cores : t \notin Elems(q[d])
           /\ \A k \in DOMAIN msgs : t \notin Elems(msgs[k].tids)
BY DEF IInv, Disjoint

(* An unwanted thread has no place at all.                                 *)
LEMMA Nowhere ==
    ASSUME IInv, NEW t \in Threads, ~Wanted(t)
    PROVE  Unplaced(t)
BY DEF IInv, Claimed, Unplaced

(* A message is sent about threads that have no place.                     *)
LEMMA PlacesSend ==
    ASSUME IInv, NEW m \in Message, msgs' = Append(msgs, m), UNCHANGED <<q, op>>,
           NoDup(m.tids), \A t \in Elems(m.tids) : Unplaced(t) /\ Wanted(t)',
           \A t \in Threads : Wanted(t) => Wanted(t)'
    PROVE  Places'
<1>0. Distinct /\ Disjoint /\ Claimed /\ TypeOK
    BY DEF IInv
<1>1. /\ \A k \in DOMAIN msgs : k \in DOMAIN msgs' /\ msgs'[k] = msgs[k]
      /\ \A k \in DOMAIN msgs' :
            k \in DOMAIN msgs \/ (k = Len(msgs) + 1 /\ msgs'[k] = m)
    BY <1>0, SendFacts
<1>2. Distinct'
    BY <1>0, <1>1 DEF Distinct
<1>3. Disjoint'
    <2>1. ASSUME NEW k \in DOMAIN msgs', NEW c \in Cores
          PROVE  /\ Elems(msgs'[k].tids) \cap Elems(q[c]) = {}
                 /\ Elems(msgs'[k].tids) \cap Elems(op[c].todo) = {}
        BY <1>0, <1>1 DEF Disjoint, Unplaced
    <2>2. ASSUME NEW k \in DOMAIN msgs', NEW l \in DOMAIN msgs', k # l
          PROVE  Elems(msgs'[k].tids) \cap Elems(msgs'[l].tids) = {}
        <3>1. ASSUME NEW j \in DOMAIN msgs
              PROVE  Elems(msgs[j].tids) \cap Elems(m.tids) = {}
            BY <3>1, Zenon DEF Unplaced
        <3>2. CASE k \in DOMAIN msgs /\ l \in DOMAIN msgs
            BY <1>0, <1>1, <2>2, <3>2, Zenon DEF Disjoint
        <3>3. CASE k \in DOMAIN msgs /\ msgs'[l] = m
            BY <1>1, <3>1, <3>3, Zenon
        <3>4. CASE l \in DOMAIN msgs /\ msgs'[k] = m
            <4>1. Elems(msgs[l].tids) \cap Elems(m.tids) = {} /\ msgs'[l] = msgs[l]
                BY <1>1, <3>1, <3>4, Zenon
            <4> QED
                BY <3>4, <4>1, Zenon
        <3> QED
            BY <1>1, <2>2, <3>2, <3>3, <3>4, Zenon
    <2> QED
        BY <1>0, <2>1, <2>2 DEF Disjoint
<1>4. Claimed'
    <2>1. ASSUME NEW c \in Cores, NEW t \in Elems(q[c]) \cup Elems(op[c].todo)
          PROVE  Wanted(t)'
        BY <1>0, Context, ElemsFacts DEF Claimed
    <2>2. ASSUME NEW k \in DOMAIN msgs', NEW t \in Elems(msgs'[k].tids)
          PROVE  Wanted(t)'
        <3>1. CASE k \in DOMAIN msgs
            <4>1. msgs[k] \in Message
                BY <1>0, <3>1 DEF TypeOK
            <4>2. t \in Threads
                BY <1>1, <3>1, <4>1, ElemsFacts DEF Message
            <4> QED
                BY <1>0, <1>1, <3>1, <4>2 DEF Claimed
        <3>2. CASE k \notin DOMAIN msgs
            BY <1>1, <3>2
        <3> QED
            BY <3>1, <3>2
    <2> QED
        BY <2>1, <2>2 DEF Claimed
<1> QED
    BY <1>2, <1>3, <1>4 DEF Places

(* A message becomes the list of the sim thread that takes it.             *)
LEMMA PlacesReceive ==
    ASSUME IInv, NEW c \in Cores, NEW o, Goto(c, o), op[c].at = "loop",
           msgs # << >>, o.todo = Head(msgs).tids, msgs' = Tail(msgs),
           UNCHANGED <<q, fstate>>
    PROVE  Places'
<1>0. Distinct /\ Disjoint /\ Claimed /\ TypeOK
    BY DEF IInv
<1>1. op'[c] = o /\ \A d \in Cores \ {c} : op'[d] = op[d]
    BY GotoFacts DEF IInv
<1>2. /\ Head(msgs) = msgs[1] /\ 1 \in DOMAIN msgs
      /\ \A k \in DOMAIN msgs' :
            k + 1 \in DOMAIN msgs /\ k + 1 # 1 /\ msgs'[k] = msgs[k + 1]
      /\ \A k, l \in DOMAIN msgs' : k # l => k + 1 # l + 1
    BY <1>0, MsgFacts
<1>3. o.todo = msgs[1].tids
    BY <1>2
<1>4. Distinct'
    BY <1>0, <1>1, <1>2, <1>3 DEF Distinct
<1>5. Disjoint'
    <2>1. ASSUME NEW b \in Cores, NEW d \in Cores
          PROVE  /\ b # d => Elems(q[b]) \cap Elems(q[d]) = {}
                 /\ b # d => Elems(op'[b].todo) \cap Elems(op'[d].todo) = {}
                 /\ Elems(q[b]) \cap Elems(op'[d].todo) = {}
        <3>1. \A e \in Cores : /\ Elems(o.todo) \cap Elems(q[e]) = {}
                               /\ Elems(o.todo) \cap Elems(op[e].todo) = {}
            BY <1>0, <1>2, <1>3, Zenon DEF Disjoint
        <3>2. /\ b # d => Elems(q[b]) \cap Elems(q[d]) = {}
              /\ b # d => Elems(op[b].todo) \cap Elems(op[d].todo) = {}
              /\ Elems(q[b]) \cap Elems(op[d].todo) = {}
            BY <1>0, Zenon DEF Disjoint
        <3>3. CASE b # c /\ d # c
            BY <1>1, <3>2, <3>3
        <3>4. CASE b = c
            BY <1>1, <3>1, <3>2, <3>4
        <3>5. CASE d = c
            BY <1>1, <3>1, <3>2, <3>5
        <3> QED
            BY <3>3, <3>4, <3>5
    <2>2. ASSUME NEW k \in DOMAIN msgs', NEW d \in Cores
          PROVE  /\ Elems(msgs'[k].tids) \cap Elems(q[d]) = {}
                 /\ Elems(msgs'[k].tids) \cap Elems(op'[d].todo) = {}
        BY <1>0, <1>1, <1>2, <1>3 DEF Disjoint
    <2>3. ASSUME NEW k \in DOMAIN msgs', NEW l \in DOMAIN msgs', k # l
          PROVE  Elems(msgs'[k].tids) \cap Elems(msgs'[l].tids) = {}
        <3>1. k + 1 \in DOMAIN msgs /\ l + 1 \in DOMAIN msgs /\ k + 1 # l + 1
            BY <1>2, <2>3, Zenon
        <3>2. Elems(msgs[k + 1].tids) \cap Elems(msgs[l + 1].tids) = {}
            BY <1>0, <3>1, Zenon DEF Disjoint
        <3> QED
            BY <1>2, <3>2, Zenon
    <2> QED
        BY <2>1, <2>2, <2>3 DEF Disjoint
<1>6. Claimed'
    <2>1. \A t : Wanted(t)' <=> Wanted(t)
        BY DEF Wanted
    <2> QED
        BY <1>0, <1>1, <1>2, <1>3, <2>1 DEF Claimed
<1> QED
    BY <1>4, <1>5, <1>6 DEF Places

(* The first thread of a list moves to the end of a run queue.             *)
LEMMA PlacesEnqueue ==
    ASSUME IInv, NEW c \in Cores, Enqueue(c)
    PROVE  Places'
<1> DEFINE s == op[c].todo
           t == Head(s)
           r == op[c].core
<1>0. Distinct /\ Disjoint /\ Claimed /\ TypeOK
    BY DEF IInv
<1>1. /\ r \in Cores /\ t \in Threads /\ t \in Elems(s)
      /\ s \in Seq(Threads) /\ s # << >> /\ NoDup(s)
    BY Context DEF Enqueue, SchedulingAt, GoodOp
<1>2. /\ t \notin Elems(q[r])
      /\ \A d \in Cores \ {c} : t \notin Elems(op[d].todo)
      /\ \A d \in Cores : t \notin Elems(q[d])
      /\ \A k \in DOMAIN msgs : t \notin Elems(msgs[k].tids)
    BY <1>1, OnlyListed
<1>3. /\ op'[c].todo = Tail(s) /\ \A d \in Cores \ {c} : op'[d] = op[d]
    BY <1>0, <1>1, GotoFacts, NextTodoFacts DEF Enqueue
<1>4. NoDup(Tail(s)) /\ Elems(Tail(s)) = Elems(s) \ {t}
    BY <1>1, TailFacts
<1>5. q'[r] = Append(q[r], t) /\ \A d \in Cores \ {r} : q'[d] = q[d]
    BY <1>0, <1>1 DEF Enqueue, TypeOK
<1>6. q[r] \in Seq(Threads) /\ NoDup(q[r])
    BY <1>0, <1>1 DEF TypeOK, Distinct
<1>7. NoDup(Append(q[r], t)) /\ Elems(Append(q[r], t)) = Elems(q[r]) \cup {t}
    BY <1>1, <1>2, <1>6, AppendFacts
<1>8. msgs' = msgs /\ fstate' = fstate
    BY DEF Enqueue, feederVars
<1> HIDE DEF s, t, r
<1>9. NoDup(q'[r]) /\ Elems(q'[r]) = Elems(q[r]) \cup {t}
    BY <1>5, <1>7
<1>10. NoDup(op'[c].todo) /\ Elems(op'[c].todo) = Elems(op[c].todo) \ {t}
    BY <1>3, <1>4 DEF s
<1>11. Distinct'
    BY <1>0, <1>3, <1>5, <1>8, <1>9, <1>10 DEF Distinct
<1>12. Disjoint'
    <2>1. ASSUME NEW b \in Cores, NEW d \in Cores
          PROVE  /\ b # d => Elems(q'[b]) \cap Elems(q'[d]) = {}
                 /\ b # d => Elems(op'[b].todo) \cap Elems(op'[d].todo) = {}
                 /\ Elems(q'[b]) \cap Elems(op'[d].todo) = {}
        <3>1. /\ b # d => Elems(q[b]) \cap Elems(q[d]) = {}
              /\ b # d => Elems(op[b].todo) \cap Elems(op[d].todo) = {}
              /\ Elems(q[b]) \cap Elems(op[d].todo) = {}
            BY <1>0 DEF Disjoint
        <3>2. Elems(q'[b]) = Elems(q[b]) \/ (b = r /\ Elems(q'[b]) = Elems(q[b]) \cup {t})
            BY <1>5, <1>9
        <3>3. Elems(q'[d]) = Elems(q[d]) \/ (d = r /\ Elems(q'[d]) = Elems(q[d]) \cup {t})
            BY <1>5, <1>9
        <3>4. /\ Elems(op'[b].todo) = Elems(op[b].todo) \ {t}
              /\ Elems(op'[d].todo) = Elems(op[d].todo) \ {t}
            BY <1>2, <1>3, <1>10
        <3> QED
            BY <1>2, <3>1, <3>2, <3>3, <3>4
    <2>2. ASSUME NEW k \in DOMAIN msgs, NEW d \in Cores
          PROVE  /\ Elems(msgs[k].tids) \cap Elems(q'[d]) = {}
                 /\ Elems(msgs[k].tids) \cap Elems(op'[d].todo) = {}
        <3>1. /\ Elems(msgs[k].tids) \cap Elems(q[d]) = {}
              /\ Elems(msgs[k].tids) \cap Elems(op[d].todo) = {}
            BY <1>0 DEF Disjoint
        <3>2. Elems(q'[d]) = Elems(q[d]) \/ Elems(q'[d]) = Elems(q[d]) \cup {t}
            BY <1>5, <1>9
        <3>3. Elems(op'[d].todo) = Elems(op[d].todo) \ {t}
            BY <1>2, <1>3, <1>10
        <3> QED
            BY <1>2, <3>1, <3>2, <3>3
    <2> QED
        BY <1>0, <1>8, <2>1, <2>2 DEF Disjoint
<1>13. Claimed'
    <2>1. Wanted(t)
        BY <1>0, <1>1 DEF Claimed, s
    <2>2. \A x : Wanted(x)' <=> Wanted(x)
        BY <1>8 DEF Wanted
    <2>3. ASSUME NEW d \in Cores, NEW x \in Elems(q'[d]) \cup Elems(op'[d].todo)
          PROVE  Wanted(x)
        BY <1>0, <1>3, <1>5, <1>9, <1>10, <2>1 DEF Claimed
    <2> QED
        BY <1>0, <1>8, <2>2, <2>3 DEF Claimed
<1> QED
    BY <1>11, <1>12, <1>13 DEF Places

(* MigrateThread moves the head of the queue to the list of the sim thread. *)
LEMMA PlacesMigrate ==
    ASSUME IInv, NEW c \in Cores, NEW k \in Cores, MigrateThread(c, k)
    PROVE  Places'
<1> DEFINE t == op[c].tid
<1>0. Distinct /\ Disjoint /\ Claimed /\ TypeOK
    BY DEF IInv
<1>1. /\ op[c].at = "front" /\ Head(q[c]) = t /\ t \in Threads /\ t \in Elems(q[c])
      /\ Tail(q[c]) \in Seq(Threads) /\ NoDup(Tail(q[c]))
      /\ Elems(Tail(q[c])) = Elems(q[c]) \ {t}
    BY Context DEF MigrateThread, HasControl, HasHandshake
<1>2. /\ \A d \in Cores \ {c} : t \notin Elems(q[d])
      /\ \A d \in Cores : t \notin Elems(op[d].todo)
      /\ \A l \in DOMAIN msgs : t \notin Elems(msgs[l].tids)
    BY <1>1, OnlyThere
<1>3. /\ ScheduleNextUnblockedThread(c, Tail(q[c]))
      /\ Goto(c, Scheduling("affinity", <<t>>))
    BY <1>1 DEF MigrateThread, PopHead
<1>4. /\ \A d \in Cores \ {c} : q'[d] = q[d]
      /\ NoDup(q'[c]) /\ Elems(q'[c]) = Elems(q[c]) \ {t}
    BY <1>0, <1>1, <1>3, ScheduleNextFacts
<1>5. /\ \A d \in Cores \ {c} : op'[d] = op[d]
      /\ op'[c].todo = <<t>>
    <2>1. <<t>> \in Seq(Threads) /\ <<t>> # << >>
        BY <1>1
    <2> DEFINE s == <<t>>
    <2> HIDE DEF s
    <2>2. Scheduling("affinity", s).todo = s
        BY <2>1, SchedulingFacts DEF s
    <2>3. /\ op'[c] = Scheduling("affinity", s)
          /\ \A d \in Cores \ {c} : op'[d] = op[d]
        BY <1>0, <1>3, GotoFacts DEF s
    <2> QED
        BY <2>2, <2>3 DEF s
<1>6. NoDup(op'[c].todo) /\ Elems(op'[c].todo) = {t}
    BY <1>1, <1>5, ElemsFacts
<1>7. msgs' = msgs /\ fstate' = fstate
    BY DEF MigrateThread, feederVars
<1> HIDE DEF t
<1>8. Distinct'
    BY <1>0, <1>4, <1>5, <1>6, <1>7 DEF Distinct
<1>9. Disjoint'
    <2>0. \A d \in Cores : Elems(q'[d]) = Elems(q[d]) \ {t}
        BY <1>2, <1>4
    <2>1. ASSUME NEW b \in Cores, NEW d \in Cores
          PROVE  /\ b # d => Elems(q'[b]) \cap Elems(q'[d]) = {}
                 /\ b # d => Elems(op'[b].todo) \cap Elems(op'[d].todo) = {}
                 /\ Elems(q'[b]) \cap Elems(op'[d].todo) = {}
        <3>1. /\ b # d => Elems(q[b]) \cap Elems(q[d]) = {}
              /\ b # d => Elems(op[b].todo) \cap Elems(op[d].todo) = {}
              /\ Elems(q[b]) \cap Elems(op[d].todo) = {}
            BY <1>0 DEF Disjoint
        <3> QED
            BY <1>2, <1>5, <1>6, <2>0, <3>1
    <2>2. ASSUME NEW l \in DOMAIN msgs, NEW d \in Cores
          PROVE  /\ Elems(msgs[l].tids) \cap Elems(q'[d]) = {}
                 /\ Elems(msgs[l].tids) \cap Elems(op'[d].todo) = {}
        <3>1. /\ Elems(msgs[l].tids) \cap Elems(q[d]) = {}
              /\ Elems(msgs[l].tids) \cap Elems(op[d].todo) = {}
            BY <1>0 DEF Disjoint
        <3> QED
            BY <1>2, <1>5, <1>6, <2>0, <3>1
    <2> QED
        BY <1>0, <1>7, <2>1, <2>2 DEF Disjoint
<1>10. Claimed'
    <2>1. Wanted(t)
        BY <1>0, <1>1 DEF Claimed
    <2>2. \A x : Wanted(x)' <=> Wanted(x)
        BY <1>7 DEF Wanted
    <2>3. ASSUME NEW d \in Cores, NEW x \in Elems(q'[d]) \cup Elems(op'[d].todo)
          PROVE  Wanted(x)
        BY <1>0, <1>4, <1>5, <1>6, <2>1 DEF Claimed
    <2> QED
        BY <1>0, <1>7, <2>2, <2>3 DEF Claimed
<1> QED
    BY <1>8, <1>9, <1>10 DEF Places

(* A thread that is popped and not put back has no place left.             *)
LEMMA PlacesPop ==
    ASSUME IInv, NEW c \in Cores, NEW t \in Elems(q[c]), NEW o, Goto(c, o),
           o.todo = << >>, UNCHANGED msgs,
           \A d \in Cores \ {c} : q'[d] = q[d],
           NoDup(q'[c]), Elems(q'[c]) = Elems(q[c]) \ {t},
           \A u \in Threads \ {t} : fstate'[u] = fstate[u]
    PROVE  Places'
<1>1. op'[c] = o /\ \A d \in Cores \ {c} : op'[d] = op[d]
    BY GotoFacts DEF IInv
<1>2. \A d \in Cores : NoDup(q'[d]) /\ Elems(q'[d]) \subseteq Elems(q[d])
    BY DEF IInv, Distinct
<1>3. \A d \in Cores : /\ NoDup(op'[d].todo)
                       /\ Elems(op'[d].todo) \subseteq Elems(op[d].todo)
    BY <1>1, ElemsFacts DEF IInv, Distinct
<1>4. Unplaced(t)'
    BY <1>1, <1>3, OnlyThere DEF Unplaced
<1>5. \A u \in Threads : Wanted(u) => Wanted(u)' \/ Unplaced(u)'
    BY <1>4 DEF Wanted
<1> QED
    BY <1>2, <1>3, <1>5, PlacesShrink

(* A thread that is popped and put back keeps its place.                   *)
LEMMA PlacesRequeue ==
    ASSUME IInv, NEW c \in Cores, op[c].at \in {"front", "giveup"},
           GiveUpCore(c, TRUE), UNCHANGED fstate
    PROVE  Places'
<1>1. q[c] # << >> /\ NoDup(q[c]) /\ TypeOK
    BY Context DEF IInv
<1>2. /\ \A d \in Cores \ {c} : q'[d] = q[d]
      /\ NoDup(q'[c]) /\ Elems(q'[c]) = Elems(q[c])
    BY <1>1, GiveUpFacts
<1>3. Goto(c, Idle) /\ UNCHANGED msgs
    BY DEF GiveUpCore
<1>4. op'[c].todo = << >> /\ \A d \in Cores \ {c} : op'[d] = op[d]
    BY <1>1, <1>3, IdleFacts, GotoFacts
<1>5. \A d \in Cores : NoDup(q'[d]) /\ Elems(q'[d]) \subseteq Elems(q[d])
    BY <1>2 DEF IInv, Distinct
<1>6. \A d \in Cores : /\ NoDup(op'[d].todo)
                       /\ Elems(op'[d].todo) \subseteq Elems(op[d].todo)
    BY <1>4, ElemsFacts DEF IInv, Distinct
<1>7. \A t \in Threads : Wanted(t) => Wanted(t)'
    BY DEF Wanted
<1> QED
    BY <1>3, <1>5, <1>6, <1>7, PlacesShrink

LEMMA PlacesInit == Init => Places
<1> SUFFICES ASSUME Init PROVE Places
    OBVIOUS
<1>1. \A c \in Cores : q[c] = << >> /\ op[c].todo = << >>
    BY IdleFacts DEF Init
<1>2. DOMAIN msgs = {}
    BY DEF Init
<1> QED
    BY <1>1, <1>2, ElemsFacts DEF Places, Distinct, Disjoint, Claimed

LEMMA PlacesKept ==
    ASSUME IInv, [Next]_vars PROVE Places'
<1> USE DEF placeVars, blockVars, coreVars, feederVars
<1>0. TypeOK /\ Distinct /\ Claimed
    BY DEF IInv
<1>1. ASSUME NEW t \in Threads, ScheduleThread(t) PROVE Places'
    <2> DEFINE m == [pinned |-> FALSE, asid |-> Process[t], tids |-> <<t>>]
    <2>1. m \in Message /\ NoDup(m.tids) /\ Elems(m.tids) = {t}
        BY ElemsFacts, ProcessAssumption DEF Message
    <2>2. msgs' = Append(msgs, m) /\ UNCHANGED <<q, op>>
        BY <1>1 DEF ScheduleThread
    <2> HIDE DEF m
    <2>3. Unplaced(t)
        BY <1>1, Nowhere DEF ScheduleThread, Wanted
    <2>4. Wanted(t)' /\ \A u \in Threads : Wanted(u) => Wanted(u)'
        BY <1>0, <1>1 DEF ScheduleThread, TypeOK, Wanted
    <2> QED
        BY <2>1, <2>2, <2>3, <2>4, PlacesSend
<1>2. ASSUME NEW t \in Threads, SeesScheduled(t) PROVE Places'
    <2>1. \A u \in Threads : Wanted(u) => Wanted(u)'
        BY <1>0, <1>2 DEF SeesScheduled, TypeOK, Wanted
    <2> QED
        BY <1>0, <1>2, <2>1, PlacesShrink DEF SeesScheduled, Distinct
<1>3. ASSUME NEW t \in Threads, SeesDescheduled(t) PROVE Places'
    <2>1. \A u \in Threads : Wanted(u) => Wanted(u)'
        BY <1>0, <1>3 DEF SeesDescheduled, TypeOK, Wanted
    <2> QED
        BY <1>0, <1>3, <2>1, PlacesShrink DEF SeesDescheduled, Distinct
<1>4. ASSUME NEW a \in Resumes, ResumeSimulation(a) PROVE Places'
    <2> DEFINE S == {t \in Threads : Process[t] = a}
    <2>1. S \in SUBSET Threads /\ S # {} /\ \A t \in S : fstate[t] = "off"
        BY <1>4 DEF ResumeSimulation
    <2>2. PICK s \in Orders(S) :
              msgs' = Append(msgs, [pinned |-> TRUE, asid |-> a, tids |-> s])
        BY <1>4 DEF ResumeSimulation
    <2> DEFINE m == [pinned |-> TRUE, asid |-> a, tids |-> s]
    <2>3. m \in Message /\ NoDup(m.tids) /\ Elems(m.tids) \subseteq S
        BY <2>1, OrdersFacts, WorkloadAssumption DEF Message
    <2>4. \A t \in S : Unplaced(t)
        BY <2>1, Nowhere DEF Wanted
    <2>5. fstate' = [t \in Threads |-> IF t \in S THEN "waiting" ELSE fstate[t]]
        BY <1>4 DEF ResumeSimulation
    <2> HIDE DEF S
    <2>6. /\ \A t \in S : Wanted(t)'
          /\ \A u \in Threads : Wanted(u) => Wanted(u)'
        BY <2>1, <2>5 DEF Wanted
    <2>7. msgs' = Append(msgs, m) /\ UNCHANGED <<q, op>>
        BY <1>4, <2>2 DEF ResumeSimulation
    <2> HIDE DEF m
    <2> QED
        BY <2>3, <2>4, <2>6, <2>7, PlacesSend
<1>5. ASSUME NEW c \in Cores, SimThread(c) PROVE Places'
    <2> DEFINE s == op[c].todo
    <2>e. NoDup(Idle.todo) /\ Elems(Idle.todo) \subseteq Elems(s)
        BY IdleFacts, ElemsFacts
    <2>s. op[c].at \in SchedulingAt =>
             /\ s \in Seq(Threads) /\ s # << >> /\ NoDup(s)
             /\ NoDup(Tail(s)) /\ Elems(Tail(s)) \subseteq Elems(s)
        BY Context, TailFacts
    <2>a. ASSUME NEW l \in ActingAt \ {"activate"}, NEW t \in Threads
          PROVE  /\ NoDup(ActingOn(l, t).todo)
                 /\ Elems(ActingOn(l, t).todo) \subseteq Elems(s)
        BY ActingFacts, ElemsFacts
    <2>1. CASE ReceiveNewThread(c)
        <3>1. /\ msgs # << >> /\ Head(msgs).tids \in Seq(Threads)
              /\ Head(msgs).tids # << >>
            BY <1>0, <2>1, MsgFacts DEF ReceiveNewThread, IInv, MsgShape, Message
        <3>2. Scheduling("check", Head(msgs).tids).todo = Head(msgs).tids
            BY <3>1, SchedulingFacts
        <3> QED
            BY <2>1, <3>1, <3>2, PlacesReceive DEF ReceiveNewThread
    <2>2. CASE ReceiveProcessThreads(c)
        <3>1. msgs # << >> /\ Head(msgs).pinned
            BY <2>2 DEF ReceiveProcessThreads
        <3>2. /\ \A i \in DOMAIN Head(msgs).tids :
                    Offset(Head(msgs).asid) + i - 1 \in Cores
              /\ Head(msgs).tids \in Seq(Threads) /\ Head(msgs).tids # << >>
            BY <3>1, PinnedFacts
        <3>3. Scheduling("check", Head(msgs).tids).todo = Head(msgs).tids
            BY <3>2, SchedulingFacts
        <3>4. \A i \in DOMAIN Head(msgs).tids :
                 Offset(Head(msgs).asid) + i - 1 < NumCores
            BY <3>2, CoresAssumption DEF Cores
        <3>5. Goto(c, Scheduling("check", Head(msgs).tids))
            BY <2>2, <3>4 DEF ReceiveProcessThreads
        <3> QED
            BY <2>2, <3>1, <3>3, <3>5, PlacesReceive DEF ReceiveProcessThreads
    <2>3. CASE QueueEmpty(c)
        <3>1. [Idle EXCEPT !.at = "drained"].todo = Idle.todo
            BY DEF Idle
        <3> QED
            BY <2>e, <2>3, <3>1, PlacesGoto DEF QueueEmpty
    <2>4. CASE CheckScheduled(c)
        <3>1. op[c].at = "check" /\ op[c].at \in SchedulingAt
            BY <2>4 DEF CheckScheduled, SchedulingAt
        <3>2. NextTodo(s).todo = Tail(s) /\ Scheduling("affinity", s).todo = s
            BY <2>s, <3>1, NextTodoFacts, SchedulingFacts
        <3> QED
            BY <2>s, <2>4, <3>1, <3>2, PlacesGoto DEF CheckScheduled
    <2>5. CASE ChooseCore(c)
        <3> DEFINE o == [op[c] EXCEPT !.at = "tcb",
                            !.core = IF affinity[Head(s)] # INVALID_CORE
                                     THEN affinity[Head(s)] ELSE last_coreID]
        <3>1. o.todo = s
            BY Context DEF Op
        <3>2. Goto(c, o)
            BY <2>5 DEF ChooseCore
        <3> HIDE DEF o
        <3> QED
            BY <2>5, <3>1, <3>2, Context, PlacesGoto DEF ChooseCore
    <2>6. CASE SetRunQueue(c)
        <3> DEFINE o == [op[c] EXCEPT !.at = "enqueue"]
        <3>1. o.todo = s
            BY Context DEF Op
        <3>2. Goto(c, o)
            BY <2>6 DEF SetRunQueue
        <3> HIDE DEF o
        <3> QED
            BY <2>6, <3>1, <3>2, Context, PlacesGoto DEF SetRunQueue
    <2>7. CASE Enqueue(c)
        BY <2>7, PlacesEnqueue
    <2>8. CASE GetCoreThread(c)
        <3>1. q[c] # << >> => Head(q[c]) \in Threads
            BY Context, TailFacts
        <3> QED
            BY <2>a, <2>e, <2>8, <3>1, PlacesGoto DEF GetCoreThread, ActingAt
    <2>9. CASE ForgetRunQueue(c)
        BY <2>e, <2>9, PlacesGoto DEF ForgetRunQueue
    <2>15. CASE EraseThread(c)
        <3> DEFINE o == ActingOn("unblock", op[c].tid)
        <3>1. /\ op[c].at = "erase" /\ Goto(c, o) /\ UNCHANGED <<msgs, fstate>>
              /\ op[c].tid \in Threads
            BY <2>15, Context DEF EraseThread, ActingAt
        <3>2. /\ \A d \in Cores \ {c} : q'[d] = q[d]
              /\ NoDup(q'[c]) /\ Elems(q'[c]) = Elems(q[c])
            BY <1>0, <2>15, Context, ScheduleNextFacts DEF EraseThread
        <3>3. o.todo = << >>
            BY <3>1, ActingFacts DEF ActingAt
        <3>4. op'[c] = o /\ \A d \in Cores \ {c} : op'[d] = op[d]
            BY <1>0, <3>1, GotoFacts
        <3> HIDE DEF o
        <3>5. \A d \in Cores : NoDup(q'[d]) /\ Elems(q'[d]) \subseteq Elems(q[d])
            BY <1>0, <3>2 DEF Distinct
        <3>6. \A d \in Cores : /\ NoDup(op'[d].todo)
                               /\ Elems(op'[d].todo) \subseteq Elems(op[d].todo)
            BY <1>0, <3>3, <3>4, ElemsFacts DEF Distinct
        <3>7. \A x \in Threads : Wanted(x) => Wanted(x)'
            BY <3>1 DEF Wanted
        <3> QED
            BY <3>1, <3>5, <3>6, <3>7, PlacesShrink
    <2>10. CASE RecordSleeper(c)
        <3>1. op[c].tid \in Threads /\ Goto(c, ActingOn("giveup", op[c].tid))
            BY <2>10, Vacant DEF RecordSleeper
        <3> QED
            BY <2>a, <2>10, <3>1, PlacesGoto DEF RecordSleeper, ActingAt
    <2>11. CASE GiveUpBlocked(c)
        BY <2>11, PlacesRequeue DEF GiveUpBlocked
    <2>12. CASE TakeSleeper(c)
        <3>1. blocked_thread_map[op[c].tid] \in Threads \cup {INVALID_THREADID}
            BY <1>0, <2>12, Context DEF TakeSleeper, TypeOK, ThreadOrNone, ActingAt
        <3> QED
            BY <2>a, <2>e, <2>12, <3>1, PlacesGoto DEF TakeSleeper, ActingAt
    <2>13. CASE WakeSleeper(c)
        <3> DEFINE b == op[c].tid
                   r == tcb[b].run_queue_ID
                   o == [ActingOn("activate", b) EXCEPT !.core = r]
        <3>1. b \in Threads /\ tcb[b].exists
            BY <2>13, Context DEF WakeSleeper, IInv, Blocking, ActingAt
        <3>2. r # INVALID_CORE => r \in Cores
            BY <1>0, <3>1 DEF TypeOK, TCB, CoreOrNone
        <3>3. r # INVALID_CORE => o.todo = << >>
            BY <3>1, <3>2, ActivateFacts
        <3>4. Goto(c, IF r = INVALID_CORE THEN Idle ELSE o)
            BY <2>13, <3>1 DEF WakeSleeper
        <3> HIDE DEF o, r
        <3>5. NoDup((IF r = INVALID_CORE THEN Idle ELSE o).todo) /\
              Elems((IF r = INVALID_CORE THEN Idle ELSE o).todo) \subseteq Elems(s)
            BY <2>e, <3>3, ElemsFacts
        <3> QED
            BY <2>13, <3>4, <3>5, PlacesGoto DEF WakeSleeper
    <2>14. CASE ActivateSleeper(c)
        BY <2>e, <2>14, PlacesGoto DEF ActivateSleeper
    <2> QED
        BY <1>5, <2>1, <2>2, <2>3, <2>4, <2>5, <2>6, <2>7, <2>8, <2>9, <2>10, <2>11,
           <2>12, <2>13, <2>14, <2>15 DEF SimThread
<1>6. ASSUME NEW c \in Cores, Handshake(c) PROVE Places'
    <2> DEFINE t == op[c].tid
    <2>t. op[c].at = "front" =>
             /\ q[c] # << >> /\ Head(q[c]) = t /\ t \in Threads /\ t \in Elems(q[c])
             /\ NoDup(q[c]) /\ PopHead(q[c]) \in Seq(Threads) /\ NoDup(PopHead(q[c]))
             /\ Elems(PopHead(q[c])) = Elems(q[c]) \ {t}
        BY Context DEF PopHead
    <2>1. CASE SimulateInsn(c)
        BY <2>1, IdleFacts, ElemsFacts, PlacesGoto DEF SimulateInsn
    <2>2. CASE Yield(c)
        BY <2>2, PlacesRequeue DEF Yield, HasHandshake
    <2>3. CASE Leave(c)
        <3>1. op[c].at = "front" /\ GiveUpCore(c, FALSE)
            BY <2>3 DEF Leave, HasControl, HasHandshake
        <3>2. /\ \A d \in Cores \ {c} : q'[d] = q[d]
              /\ NoDup(q'[c]) /\ Elems(q'[c]) = Elems(q[c]) \ {t}
            BY <1>0, <2>t, <3>1, GiveUpFacts
        <3>3. Goto(c, ActingOn("forget", t)) /\ ActingOn("forget", t).todo = << >>
            BY <2>t, <3>1, ActingFacts DEF GiveUpCore, ActingAt
        <3>4. \A u \in Threads \ {t} : fstate'[u] = fstate[u]
            BY <1>0, <2>3 DEF Leave, TypeOK
        <3>5. UNCHANGED msgs
            BY <3>1 DEF GiveUpCore
        <3> QED
            BY <2>t, <3>1, <3>2, <3>3, <3>4, <3>5, PlacesPop
    <2>4. CASE DescheduleActiveThread(c)
        <3>1. op[c].at = "front" /\ UNCHANGED msgs /\ q' = [q EXCEPT ![c] = PopHead(@)]
            BY <2>4 DEF DescheduleActiveThread, HasControl, HasHandshake
        <3>2. /\ \A d \in Cores \ {c} : q'[d] = q[d]
              /\ NoDup(q'[c]) /\ Elems(q'[c]) = Elems(q[c]) \ {t}
            BY <1>0, <2>t, <3>1 DEF TypeOK
        <3>3. Goto(c, ActingOn("erase", t)) /\ ActingOn("erase", t).todo = << >>
            BY <2>t, <2>4, <3>1, ActingFacts DEF DescheduleActiveThread, ActingAt
        <3>4. \A u \in Threads \ {t} : fstate'[u] = fstate[u]
            BY <1>0, <2>4 DEF DescheduleActiveThread, TypeOK
        <3> QED
            BY <2>t, <3>1, <3>2, <3>3, <3>4, PlacesPop
    <2>5. ASSUME NEW u \in Threads, BlockThread(c, u) PROVE Places'
        <3>1. op[c].at = "front"
            BY <2>5 DEF BlockThread, HasHandshake
        <3>2. ActingOn("map", t).todo = << >>
            BY <2>t, <3>1, ActingFacts DEF ActingAt
        <3> QED
            BY <2>5, <3>2, ElemsFacts, PlacesGoto DEF BlockThread
    <2>6. ASSUME NEW k \in Cores, MigrateThread(c, k) PROVE Places'
        BY <2>6, PlacesMigrate
    <2> QED
        BY <1>6, <2>1, <2>2, <2>3, <2>4, <2>5, <2>6 DEF Handshake
<1>7. CASE UNCHANGED vars
    BY <1>7, <1>0 DEF vars, IInv, Places, Distinct, Disjoint, Claimed, Wanted
<1> QED
    BY <1>1, <1>2, <1>3, <1>4, <1>5, <1>6, <1>7 DEF Next, Feeder

-----------------------------------------------------------------------------
(* Sleepers, heads and views.                                              *)

(* A step that blocks and wakes nobody.                                    *)
LEMMA SleepersGoto ==
    ASSUME IInv, TypeOK', NEW c \in Cores, NEW o, Goto(c, o),
           \A x \in Threads : /\ tcb'[x].blocked_on = tcb[x].blocked_on
                              /\ IsThreadBlocked(x) => tcb'[x].exists,
           UNCHANGED <<blocked_thread_map, joined>>, exited \subseteq exited',
           op[c].at \notin {"map", "wake"},
           o.at \notin {"map", "wake", "giveup", "activate"},
           \A x \in exited' \ exited : ~IsThreadBlocked(x),
           o.at = "front" => o.tid \in Threads /\ ~IsThreadBlocked(o.tid),
           o.at \in {"erase", "unblock"} => o.tid \in exited'
    PROVE  Blocking' /\ SleepersAccounted'
<1>0. Blocking /\ SleepersAccounted /\ OpShape /\ TypeOK
    BY DEF IInv
<1>1. op'[c] = o /\ \A d \in Cores \ {c} : op'[d] = op[d]
    BY <1>0, GotoFacts
<1>2. \A x \in Threads : IsThreadBlocked(x)' <=> IsThreadBlocked(x)
    BY DEF IsThreadBlocked
<1>3. \A d \in Cores : op[d].at \in ActingAt => op[d].tid \in Threads
    BY <1>0 DEF OpShape, GoodOp
<1>4. \A x \in Threads : IsThreadBlocked(x)' =>
         tcb'[x].exists /\ <<x, tcb'[x].blocked_on>> \in joined'
    BY <1>0, <1>2 DEF Blocking
<1>5. ASSUME NEW d \in Cores
      PROVE  /\ op'[d].at = "front" => ~IsThreadBlocked(op[d].tid)'
             /\ op'[d].at \in {"map", "wake"} =>
                   /\ IsThreadBlocked(op[d].tid)'
                   /\ \A u \in Threads : blocked_thread_map'[u] # op'[d].tid
                   /\ \A e \in Cores \ {d} :
                         op'[e].at \in {"map", "wake"} => op'[e].tid # op'[d].tid
             /\ op'[d].at = "wake" => tcb'[op'[d].tid].blocked_on \in exited'
             /\ op'[d].at \in {"erase", "unblock"} => op'[d].tid \in exited'
             /\ op'[d].at \in {"giveup", "activate"} => joined' # {}
    <2>1. CASE d = c
        BY <1>1, <1>2, <2>1
    <2>2. CASE d # c
        <3>1. op'[d] = op[d]
            BY <1>1, <2>2
        <3>2. op[d].at \in {"front", "map", "wake"} => op[d].tid \in Threads
            BY <1>3 DEF ActingAt
        <3> QED
            BY <1>0, <1>1, <1>2, <3>1, <3>2 DEF Blocking
    <2> QED
        BY <2>1, <2>2
<1>e. \A x \in exited' : ~IsThreadBlocked(x)'
    BY <1>0, <1>2 DEF Blocking, TypeOK
<1>6. Blocking'
    BY <1>4, <1>5, <1>e DEF Blocking
<1>7. SleepersAccounted'
    <2>1. ASSUME NEW d \in Cores, op[d].at \in {"map", "wake"} PROVE op'[d] = op[d]
        BY <1>1, <2>1
    <2> QED
        BY <1>0, <2>1 DEF SleepersAccounted
<1> QED
    BY <1>6, <1>7

(* A step that puts no thread on a queue.                                  *)
LEMMA ExistGoto ==
    ASSUME IInv, NEW c \in Cores, NEW o, Goto(c, o), o.at # "enqueue",
           \A d \in Cores : Elems(q'[d]) \subseteq Elems(q[d]),
           exited \subseteq exited',
           \A x \in Threads : tcb[x].exists => HasTCB(x)' \/ Unplaced(x)'
    PROVE  Exist'
<1>0. Exist /\ TypeOK
    BY DEF IInv
<1>1. op'[c] = o /\ \A d \in Cores \ {c} : op'[d] = op[d]
    BY <1>0, GotoFacts
<1>h. \A x \in Threads : HasTCB(x) => HasTCB(x)' \/ Unplaced(x)'
    BY DEF HasTCB
<1>2. ASSUME NEW d \in Cores, NEW x \in Elems(q'[d]) PROVE HasTCB(x)'
    <2>1. x \in Elems(q[d]) /\ x \in Threads /\ ~Unplaced(x)'
        BY Context, ElemsFacts DEF Unplaced
    <2> QED
        BY <1>0, <1>h, <2>1 DEF Exist
<1>3. ASSUME NEW d \in Cores, op'[d].at = "enqueue"
      PROVE  HasTCB(Head(op[d].todo))'
    <2>1. op'[d] = op[d] /\ op[d].at = "enqueue"
        BY <1>1, <1>3
    <2>2. Head(op[d].todo) \in Threads /\ Head(op[d].todo) \in Elems(op[d].todo)
        BY <2>1, Context DEF SchedulingAt
    <2>3. ~Unplaced(Head(op[d].todo))'
        BY <2>1, <2>2 DEF Unplaced
    <2> QED
        BY <1>0, <1>h, <2>1, <2>2, <2>3 DEF Exist
<1> QED
    BY <1>2, <1>3 DEF Exist

(* A step that changes at most the queue of its own core.                  *)
LEMMA HeadGoto ==
    ASSUME IInv, NEW c \in Cores, NEW o, Goto(c, o),
           \A d \in Cores \ {c} : q'[d] = q[d],
           o.at \in {"front", "map", "giveup"} =>
               q'[c] # << >> /\ Head(q'[c]) = o.tid
    PROVE  ActsOnHead'
<1>1. op'[c] = o /\ \A d \in Cores \ {c} : op'[d] = op[d]
    BY GotoFacts DEF IInv
<1> QED
    BY <1>1 DEF IInv, ActsOnHead

(* ViewsAgree by thread instead of by position, and what holds of a core   *)
(* whose thread is being erased.                                           *)
Agrees(c) ==
    /\ active[c] <=> q[c] # <<>>
    /\ coreThreads[c] = IF q[c] = <<>> THEN INVALID_THREADID ELSE Head(q[c])
    /\ \A t \in Elems(q[c]) :
          threadCores[t] = IF t = Head(q[c]) THEN c ELSE INVALID_CORE
View(c) == IF op[c].at = "erase" THEN Popped(c) ELSE Agrees(c)
Views == joined = {} => \A c \in Cores : View(c)

LEMMA ViewsEquiv ==
    q \in [Cores -> Seq(Threads)] /\ Distinct =>
        (ViewsAgree /\ PoppedCores <=> Views)
<1> SUFFICES ASSUME q \in [Cores -> Seq(Threads)], Distinct, NEW c \in Cores
             PROVE  (\A i \in DOMAIN q[c] :
                        threadCores[q[c][i]] = IF i = 1 THEN c ELSE INVALID_CORE)
                    <=> \A t \in Elems(q[c]) :
                        threadCores[t] = IF t = Head(q[c]) THEN c ELSE INVALID_CORE
    BY DEF ViewsAgree, PoppedCores, Views, View, Agrees
<1> DEFINE s == q[c]
<1>1. s \in Seq(Threads) /\ NoDup(s)
    BY DEF Distinct
<1> HIDE DEF s
<1>2. DOMAIN s # {} => Head(s) = s[1] /\ 1 \in DOMAIN s
    BY <1>1
<1>3. \A i \in DOMAIN s : s[i] = Head(s) <=> i = 1
    BY <1>1, <1>2 DEF NoDup
<1>4. (\A i \in DOMAIN s : threadCores[s[i]] = IF i = 1 THEN c ELSE INVALID_CORE)
      <=> \A t \in Elems(s) : threadCores[t] = IF t = Head(s) THEN c ELSE INVALID_CORE
    BY <1>3 DEF Elems
<1> QED
    BY <1>4 DEF s

(* Before the first join nobody is blocked.                                *)
LEMMA NobodyBlocked ==
    ASSUME IInv, joined = {} PROVE \A t \in Threads : ~IsThreadBlocked(t)
BY DEF IInv, Blocking

LEMMA ViewNow ==
    ASSUME IInv, joined = {}, NEW c \in Cores PROVE View(c)
BY ViewsEquiv DEF IInv, TypeOK, Views

(* The view of another core than the one that changes hands.               *)
LEMMA ViewElsewhere ==
    ASSUME IInv, joined = {}, NEW c \in Cores, NEW d \in Cores, d # c,
           op'[d] = op[d], q'[d] = q[d], active'[d] = active[d], coreThreads'[d] = coreThreads[d],
           \A t \in Threads \ Elems(q[c]) : threadCores'[t] = threadCores[t]
    PROVE  View(d)'
<1>1. View(d)
    BY ViewNow
<1>2. \A t \in Elems(q[d]) : t \in Threads \ Elems(q[c])
    BY Context, ElemsFacts DEF IInv, Disjoint
<1> QED
    BY <1>1, <1>2 DEF View, Agrees, Popped

(* Steps that change neither queues nor maps, and enter or leave no erase. *)
LEMMA ViewsStay ==
    ASSUME IInv, UNCHANGED <<q, coreVars>>, joined \subseteq joined',
           \A d \in Cores : op'[d].at = "erase" <=> op[d].at = "erase"
    PROVE  Views'
<1> SUFFICES ASSUME joined' = {}, NEW c \in Cores PROVE View(c)'
    BY DEF Views
<1>1. View(c)
    BY ViewNow
<1> QED
    BY <1>1 DEF View, Agrees, Popped, coreVars

LEMMA ViewsGoto ==
    ASSUME IInv, UNCHANGED <<q, coreVars>>, joined \subseteq joined',
           NEW c \in Cores, NEW o, Goto(c, o), op[c].at # "erase", o.at # "erase"
    PROVE  Views'
<1>1. op'[c] = o /\ \A d \in Cores \ {c} : op'[d] = op[d]
    BY GotoFacts DEF IInv
<1> QED
    BY <1>1, ViewsStay

(* A core passes to the next thread; s is what is left of its queue.       *)
LEMMA ViewsScheduleNext ==
    ASSUME IInv, NEW c \in Cores, NEW s \in Seq(Threads), NoDup(s),
           Elems(s) \subseteq Elems(q[c]),
           joined = {} =>
               active[c] /\ \A x \in Elems(s) : threadCores[x] = INVALID_CORE,
           ScheduleNextUnblockedThread(c, s), UNCHANGED joined,
           NEW o, Goto(c, o), o.at # "erase"
    PROVE  Views'
<1> SUFFICES ASSUME joined = {}, NEW d \in Cores PROVE View(d)'
    BY DEF Views
<1> DEFINE n == GetRealRunQHead(s)
<1>0. TypeOK
    BY DEF IInv
<1>1. op'[c] = o /\ \A e \in Cores \ {c} : op'[e] = op[e]
    BY <1>0, GotoFacts
<1>2. /\ RequeueSleepers(s) = s
      /\ n = IF s = << >> THEN INVALID_THREADID ELSE Head(s)
    BY NobodyBlocked, RequeueFacts
<1>3. /\ q' = [q EXCEPT ![c] = s]
      /\ coreThreads' = [coreThreads EXCEPT ![c] = n]
      /\ active' = [active EXCEPT ![c] = @ /\ n # INVALID_THREADID]
      /\ threadCores' = [x \in Threads |-> IF x = n THEN c ELSE threadCores[x]]
    BY <1>2 DEF ScheduleNextUnblockedThread
<1>4. s # << >> => Head(s) \in Elems(s) /\ Head(s) \in Threads
    BY TailFacts
<1>5. s = << >> => Elems(s) = {}
    BY ElemsFacts
<1> HIDE DEF n
<1>6. /\ q'[c] = s /\ coreThreads'[c] = n /\ active'[c] = (active[c] /\ n # INVALID_THREADID)
      /\ d # c => q'[d] = q[d] /\ coreThreads'[d] = coreThreads[d] /\ active'[d] = active[d]
    BY <1>0, <1>3 DEF TypeOK
<1>7. CASE d = c
    <2>1. active'[c] <=> s # << >>
        BY <1>2, <1>4, <1>6, ThreadsAssumption
    <2>2. ASSUME NEW x \in Elems(s)
          PROVE  threadCores'[x] = IF x = Head(s) THEN c ELSE INVALID_CORE
        <3>1. x \in Threads /\ threadCores[x] = INVALID_CORE /\ s # << >>
            BY <1>5, ElemsFacts
        <3> QED
            BY <1>2, <1>3, <3>1
    <2> QED
        BY <1>1, <1>2, <1>6, <1>7, <2>1, <2>2 DEF View, Agrees
<1>8. CASE d # c
    <2>1. \A x \in Threads \ Elems(q[c]) : threadCores'[x] = threadCores[x]
        BY <1>2, <1>3, <1>4, ThreadsAssumption
    <2> QED
        BY <1>1, <1>6, <1>8, <2>1, ViewElsewhere
<1> QED
    BY <1>7, <1>8

(* The same in GiveUpCore, where the head may be put back at the end.      *)
LEMMA ViewsGiveUp ==
    ASSUME IInv, NEW c \in Cores, NEW resched \in BOOLEAN, q[c] # << >>,
           op[c].at # "erase", GiveUpCore(c, resched)
    PROVE  Views'
<1> SUFFICES ASSUME joined = {}, NEW d \in Cores PROVE View(d)'
    BY DEF Views, GiveUpCore
<1> DEFINE t == Head(q[c])
           s == Tail(q[c])
           n == Successor(t, s, resched)
           switch == n \notin {t, INVALID_THREADID}
           r == s \o (IF resched THEN <<t>> ELSE << >>)
<1>0. TypeOK /\ q[c] \in Seq(Threads) /\ NoDup(q[c]) /\ Agrees(c)
    BY Context, ViewNow DEF IInv, View
<1>1. /\ t \in Threads /\ t \in Elems(q[c]) /\ s \in Seq(Threads) /\ NoDup(s)
      /\ Elems(s) = Elems(q[c]) \ {t}
    BY <1>0, TailFacts
<1>2. /\ RequeueSleepers(s) = s
      /\ GetRealRunQHead(s) = IF s = << >> THEN INVALID_THREADID ELSE Head(s)
      /\ Runnable(s) = {} <=> s = << >>
    BY <1>1, NobodyBlocked, RequeueFacts
<1>3. n = IF s # << >> THEN Head(s) ELSE IF resched THEN t ELSE INVALID_THREADID
    BY <1>1, <1>2, NobodyBlocked DEF Successor
<1>4. /\ q' = [q EXCEPT ![c] = r]
      /\ coreThreads' = [coreThreads EXCEPT ![c] = n]
      /\ active' = [active EXCEPT ![c] = @ /\ n # INVALID_THREADID]
    BY <1>2 DEF GiveUpCore, PopHead
<1>5. threadCores' = [u \in Threads |->
              CASE u = t /\ ~resched -> NoEntry
                [] u = t /\ resched /\ switch -> INVALID_CORE
                [] u = n /\ switch -> c
                [] OTHER -> threadCores[u]]
    BY DEF GiveUpCore, PopHead
<1>6. s # << >> => Head(s) \in Elems(s) /\ Head(s) \in Threads
    BY <1>1, TailFacts
<1>7. /\ Elems(r) = IF resched THEN Elems(s) \cup {t} ELSE Elems(s)
      /\ r # << >> <=> s # << >> \/ resched
      /\ r # << >> => Head(r) = n
    <2>1. CASE resched
        <3>1. r = Append(s, t)
            BY <1>1, <2>1, AppendFacts
        <3> HIDE DEF r, s, t, n
        <3> QED
            BY <1>1, <1>3, <2>1, <3>1, AppendFacts
    <2>2. CASE ~resched
        <3>1. r = s \o << >>
            BY <2>2
        <3> HIDE DEF r, s, t, n
        <3>2. r = s
            BY <1>1, <3>1, ConcatEmptySeq, Zenon
        <3> QED
            BY <1>3, <2>2, <3>2
    <2> QED
        BY <2>1, <2>2
<1>8. s = << >> => Elems(s) = {}
    BY ElemsFacts
<1>o. op'[c].at # "erase" /\ \A e \in Cores \ {c} : op'[e] = op[e]
    <2>1. Idle.at # "erase" /\ ActingOn("forget", t).at # "erase"
        BY <1>1, IdleFacts, ActingFacts DEF ActingAt
    <2>2. Goto(c, IF resched THEN Idle ELSE ActingOn("forget", t))
        BY DEF GiveUpCore
    <2> HIDE DEF t
    <2> QED
        BY <1>0, <2>1, <2>2, GotoFacts
<1> HIDE DEF s, n, t, r
<1>9. /\ q'[c] = r /\ coreThreads'[c] = n /\ active'[c] = (active[c] /\ n # INVALID_THREADID)
      /\ d # c => q'[d] = q[d] /\ coreThreads'[d] = coreThreads[d] /\ active'[d] = active[d]
    BY <1>0, <1>4 DEF TypeOK
<1>10. CASE d = c
    <2>1. active'[c] <=> r # << >>
        BY <1>0, <1>1, <1>3, <1>6, <1>7, <1>9, ThreadsAssumption DEF Agrees
    <2>2. coreThreads'[c] = IF r = << >> THEN INVALID_THREADID ELSE Head(r)
        BY <1>3, <1>7, <1>9
    <2>3. ASSUME NEW x \in Elems(r)
          PROVE  threadCores'[x] = IF x = Head(r) THEN c ELSE INVALID_CORE
        <3>0. r # << >> /\ Head(r) = n
            BY <1>7, <1>8
        <3>1. CASE x = t
            <4>1. resched
                BY <1>1, <1>7, <3>1
            <4>2. threadCores[t] = c
                BY <1>0, <1>1 DEF Agrees, t
            <4>3. n = t <=> s = << >>
                BY <1>1, <1>3, <1>6, <4>1
            <4>4. n # INVALID_THREADID
                BY <1>1, <1>3, <1>6, <4>1, ThreadsAssumption
            <4> QED
                BY <1>1, <1>5, <3>0, <3>1, <4>1, <4>2, <4>3, <4>4
        <3>2. CASE x # t
            <4>1. x \in Elems(s) /\ x \in Elems(q[c]) /\ x \in Threads /\ s # << >>
                BY <1>1, <1>7, <1>8, <3>2, ElemsFacts
            <4>2. threadCores[x] = INVALID_CORE
                BY <1>0, <3>2, <4>1 DEF Agrees, t
            <4>3. switch /\ n = Head(s)
                BY <1>1, <1>3, <1>6, <4>1, ThreadsAssumption
            <4> QED
                BY <1>5, <3>0, <3>2, <4>1, <4>2, <4>3
        <3> QED
            BY <3>1, <3>2
    <2> QED
        BY <1>9, <1>10, <1>o, <2>1, <2>2, <2>3 DEF View, Agrees
<1>11. CASE d # c
    <2>1. n \notin {INVALID_THREADID} => n \in Elems(q[c])
        BY <1>1, <1>3, <1>6
    <2>2. \A x \in Threads \ Elems(q[c]) : threadCores'[x] = threadCores[x]
        BY <1>1, <1>5, <2>1
    <2> QED
        BY <1>9, <1>11, <1>o, <2>2, ViewElsewhere
<1> QED
    BY <1>10, <1>11

(* A thread joins the end of a queue and, if it is alone there, the core.  *)
LEMMA ViewsEnqueue ==
    ASSUME IInv, NEW c \in Cores, Enqueue(c) PROVE Views'
<1> SUFFICES ASSUME joined = {}, NEW d \in Cores PROVE View(d)'
    BY DEF Views, Enqueue, feederVars
<1> DEFINE t == Head(op[c].todo)
           r == op[c].core
           idle == q[r] = << >>
<1>0. /\ r \in Cores /\ t \in Threads /\ t \in Elems(op[c].todo)
      /\ TypeOK /\ op[c].at = "enqueue"
    BY Context DEF IInv, Enqueue, SchedulingAt, GoodOp
<1>1. \A e \in Cores : t \notin Elems(q[e])
    BY <1>0, OnlyListed
<1>2. Agrees(r) /\ View(d) /\ q[r] \in Seq(Threads) /\ NoDup(q[r])
    BY <1>0, Context, ViewNow DEF Enqueue, Unlocked, View
<1>o. op'[c].at # "erase" /\ \A e \in Cores \ {c} : op'[e] = op[e]
    <2>1. NextTodo(op[c].todo).at \in {"loop", "check"}
        BY <1>0, Context, NextTodoFacts DEF SchedulingAt
    <2> QED
        BY <1>0, <2>1, GotoFacts DEF Enqueue
<1>e. op'[d].at = "erase" <=> op[d].at = "erase"
    BY <1>0, <1>o
<1>u. op'[r].at # "erase"
    BY <1>0, <1>o DEF Enqueue, Unlocked
<1>3. IsIdle(r) <=> idle
    BY <1>2 DEF IsIdle, Agrees
<1>4. /\ active' = [active EXCEPT ![r] = @ \/ idle]
      /\ threadCores' = [threadCores EXCEPT ![t] = IF idle THEN r ELSE INVALID_CORE]
      /\ coreThreads' = [coreThreads EXCEPT ![r] = IF idle THEN t ELSE @]
      /\ q' = [q EXCEPT ![r] = Append(@, t)]
    BY <1>3 DEF Enqueue
<1> HIDE DEF t, r
<1>5. /\ Elems(Append(q[r], t)) = Elems(q[r]) \cup {t} /\ Append(q[r], t) # << >>
      /\ Head(Append(q[r], t)) = IF idle THEN t ELSE Head(q[r])
    BY <1>0, <1>1, <1>2, AppendFacts
<1>6. CASE d = r
    <2>1. /\ active'[r] /\ coreThreads'[r] = IF idle THEN t ELSE coreThreads[r]
          /\ q'[r] = Append(q[r], t)
        BY <1>0, <1>2, <1>4 DEF TypeOK, Agrees
    <2>2. coreThreads'[r] = Head(q'[r])
        BY <1>2, <1>5, <2>1 DEF Agrees
    <2>3. ASSUME NEW x \in Elems(q'[r])
          PROVE  threadCores'[x] = IF x = Head(q'[r]) THEN r ELSE INVALID_CORE
        <3>1. CASE x = t
            <4>1. ~idle => Head(q[r]) # t
                BY <1>0, <1>1, <1>2, TailFacts
            <4> QED
                BY <1>0, <1>4, <1>5, <2>1, <3>1, <4>1 DEF TypeOK
        <3>2. CASE x # t
            <4>1. x \in Elems(q[r]) /\ ~idle /\ x \in Threads
                BY <1>2, <1>5, <2>1, <3>2, ElemsFacts
            <4>2. threadCores'[x] = threadCores[x]
                BY <1>0, <1>4, <3>2, <4>1 DEF TypeOK
            <4> QED
                BY <1>2, <1>5, <2>1, <4>1, <4>2 DEF Agrees
        <3> QED
            BY <3>1, <3>2
    <2> QED
        BY <1>5, <1>6, <1>u, <2>1, <2>2, <2>3 DEF View, Agrees
<1>7. CASE d # r
    <2>1. /\ q'[d] = q[d] /\ active'[d] = active[d] /\ coreThreads'[d] = coreThreads[d]
        BY <1>0, <1>4, <1>7 DEF TypeOK
    <2>2. \A x \in Elems(q[d]) : x \in Threads /\ threadCores'[x] = threadCores[x]
        BY <1>0, <1>1, <1>4, Context, ElemsFacts DEF TypeOK
    <2> QED
        BY <1>2, <1>e, <2>1, <2>2 DEF View, Agrees, Popped
<1> QED
    BY <1>6, <1>7

-----------------------------------------------------------------------------
(* The four actions that block, record, take and wake a sleeper.           *)

LEMMA SleepersBlock ==
    ASSUME IInv, NEW c \in Cores, NEW u \in Threads, BlockThread(c, u)
    PROVE  Blocking' /\ SleepersAccounted'
<1> DEFINE t == op[c].tid
<1>0. Blocking /\ SleepersAccounted /\ TypeOK /\ Exist
    BY DEF IInv
<1>1. /\ op[c].at = "front" /\ t \in Threads /\ t \in Elems(q[c])
      /\ ~IsThreadBlocked(t) /\ t \notin exited /\ tcb[t].exists
    BY <1>0, Context DEF BlockThread, HasHandshake, Blocking, Exist, HasTCB
<1>2. /\ joined' = joined \cup {<<t, u>>} /\ blocked_thread_map' = blocked_thread_map
      /\ exited' = exited
      /\ tcb' = [tcb EXCEPT ![t].blocked_on = u]
    BY DEF BlockThread
<1>3. /\ op'[c].at = "map" /\ op'[c].tid = t
      /\ \A d \in Cores \ {c} : op'[d] = op[d]
    BY <1>0, <1>1, GotoFacts, ActingFacts DEF BlockThread, ActingAt
<1>4. /\ tcb'[t].blocked_on = u /\ tcb'[t].exists
      /\ \A x \in Threads \ {t} : tcb'[x] = tcb[x]
    BY <1>0, <1>1, <1>2 DEF TypeOK, TCB
<1>5. /\ \A x \in Threads : blocked_thread_map[x] # t
      /\ \A d \in Cores : op[d].at \in {"map", "wake"} => op[d].tid # t
    BY <1>0, <1>1, ThreadsAssumption DEF SleepersAccounted, Blocking, IsThreadBlocked
<1>6. \A d \in Cores \ {c} : op[d].at = "front" => op[d].tid # t
    <2> SUFFICES ASSUME NEW d \in Cores \ {c}, op[d].at = "front" PROVE op[d].tid # t
        OBVIOUS
    <2>1. op[d].tid \in Elems(q[d])
        BY Context
    <2>2. t \notin Elems(q[d])
        BY <1>1, OnlyThere
    <2> QED
        BY <2>1, <2>2
<1>7. u # INVALID_THREADID
    BY ThreadsAssumption
<1>a. \A d \in Cores : op[d].at \in ActingAt => op[d].tid \in Threads
    BY Context
<1> HIDE DEF t
<1>8. \A x \in Threads : IsThreadBlocked(x)' =>
         tcb'[x].exists /\ <<x, tcb'[x].blocked_on>> \in joined'
    BY <1>0, <1>2, <1>4 DEF Blocking, IsThreadBlocked
<1>9. ASSUME NEW d \in Cores
      PROVE  /\ op'[d].at = "front" => ~IsThreadBlocked(op[d].tid)'
             /\ op'[d].at \in {"map", "wake"} =>
                   /\ IsThreadBlocked(op[d].tid)'
                   /\ \A x \in Threads : blocked_thread_map'[x] # op'[d].tid
                   /\ \A e \in Cores \ {d} :
                         op'[e].at \in {"map", "wake"} => op'[e].tid # op'[d].tid
             /\ op'[d].at = "wake" => tcb'[op'[d].tid].blocked_on \in exited'
             /\ op'[d].at \in {"erase", "unblock"} => op'[d].tid \in exited'
             /\ op'[d].at \in {"giveup", "activate"} => joined' # {}
    <2>1. CASE d = c
        BY <1>2, <1>3, <1>4, <1>5, <1>7, <2>1 DEF IsThreadBlocked
    <2>2. CASE d # c
        <3>1. op'[d] = op[d]
            BY <1>3, <2>2
        <3>2. op[d].at \in {"front", "map", "wake"} =>
                 op[d].tid \in Threads /\ op[d].tid # t
            BY <1>a, <1>5, <1>6, <2>2 DEF ActingAt
        <3> QED
            BY <1>0, <1>2, <1>3, <1>4, <1>5, <3>1, <3>2 DEF Blocking, IsThreadBlocked
    <2> QED
        BY <2>1, <2>2
<1>e. \A x \in exited' : ~IsThreadBlocked(x)'
    BY <1>0, <1>1, <1>2, <1>4 DEF Blocking, IsThreadBlocked, TypeOK
<1>10. Blocking'
    BY <1>8, <1>9, <1>e DEF Blocking
<1>11. SleepersAccounted'
    <2>1. ASSUME NEW x \in Threads, NEW y \in Threads
          PROVE  /\ blocked_thread_map'[y] = x => tcb'[x].blocked_on = y
                 /\ tcb'[x].blocked_on = y =>
                       \/ blocked_thread_map'[y] = x
                       \/ \E d \in Cores : op'[d].at \in {"map", "wake"} /\ op'[d].tid = x
        <3>1. CASE x = t
            BY <1>2, <1>3, <1>5, <3>1
        <3>2. CASE x # t
            <4>1. tcb'[x] = tcb[x]
                BY <1>4, <3>2
            <4>2. \A d \in Cores : op[d].at \in {"map", "wake"} => op'[d] = op[d]
                BY <1>1, <1>3
            <4>3. /\ blocked_thread_map[y] = x => tcb[x].blocked_on = y
                  /\ tcb[x].blocked_on = y =>
                        \/ blocked_thread_map[y] = x
                        \/ \E d \in Cores : op[d].at \in {"map", "wake"} /\ op[d].tid = x
                BY <1>0, Zenon DEF SleepersAccounted
            <4> QED
                BY <1>2, <4>1, <4>2, <4>3
        <3> QED
            BY <3>1, <3>2
    <2> QED
        BY <2>1 DEF SleepersAccounted
<1> QED
    BY <1>10, <1>11

LEMMA SleepersRecord ==
    ASSUME IInv, NEW c \in Cores, RecordSleeper(c)
    PROVE  Blocking' /\ SleepersAccounted'
<1> DEFINE t == op[c].tid
           u == tcb[t].blocked_on
<1>0. Blocking /\ SleepersAccounted /\ TypeOK
    BY DEF IInv
<1>1. /\ op[c].at = "map" /\ t \in Threads /\ u \in Threads
      /\ blocked_thread_map[u] = INVALID_THREADID
    BY Vacant DEF RecordSleeper
<1>2. /\ blocked_thread_map' = [blocked_thread_map EXCEPT ![u] = t]
      /\ Goto(c, ActingOn("giveup", t))
      /\ tcb' = tcb /\ exited' = exited /\ joined' = joined
    BY <1>1 DEF RecordSleeper, feederVars
<1>3. /\ op'[c].at = "giveup" /\ op'[c].tid = t
      /\ \A d \in Cores \ {c} : op'[d] = op[d]
    BY <1>0, <1>1, <1>2, GotoFacts, ActingFacts DEF ActingAt
<1>4. /\ \A d \in Cores \ {c} : op[d].at \in {"map", "wake"} => op[d].tid # t
      /\ IsThreadBlocked(t) /\ <<t, u>> \in joined
    BY <1>0, <1>1 DEF Blocking
<1>5. /\ blocked_thread_map'[u] = t
      /\ \A x \in Threads \ {u} : blocked_thread_map'[x] = blocked_thread_map[x]
    BY <1>0, <1>1, <1>2 DEF TypeOK
<1>6. \A x : IsThreadBlocked(x)' <=> IsThreadBlocked(x)
    BY <1>2 DEF IsThreadBlocked
<1>u. tcb[t].blocked_on = u
    OBVIOUS
<1> HIDE DEF t, u
<1>7. ASSUME NEW d \in Cores
      PROVE  /\ op'[d].at = "front" => ~IsThreadBlocked(op[d].tid)'
             /\ op'[d].at \in {"map", "wake"} =>
                   /\ IsThreadBlocked(op[d].tid)'
                   /\ \A x \in Threads : blocked_thread_map'[x] # op'[d].tid
                   /\ \A e \in Cores \ {d} :
                         op'[e].at \in {"map", "wake"} => op'[e].tid # op'[d].tid
             /\ op'[d].at = "wake" => tcb'[op'[d].tid].blocked_on \in exited'
             /\ op'[d].at \in {"erase", "unblock"} => op'[d].tid \in exited'
             /\ op'[d].at \in {"giveup", "activate"} => joined' # {}
    <2>1. CASE d = c
        BY <1>2, <1>3, <1>4, <2>1
    <2>2. CASE d # c
        <3>1. op'[d] = op[d]
            BY <1>3, <2>2
        <3>2. op[d].at \in {"map", "wake"} =>
                 \A x \in Threads : blocked_thread_map'[x] # op[d].tid
            BY <1>0, <1>4, <1>5, <2>2 DEF Blocking
        <3>3. \A e \in Cores : op'[e].at \in {"map", "wake"} => op'[e] = op[e]
            BY <1>3
        <3> QED
            BY <1>0, <1>2, <1>6, <3>1, <3>2, <3>3 DEF Blocking, IsThreadBlocked
    <2> QED
        BY <2>1, <2>2
<1>8. Blocking'
    BY <1>0, <1>2, <1>6, <1>7 DEF Blocking
<1>9. SleepersAccounted'
    <2>1. ASSUME NEW x \in Threads, NEW y \in Threads
          PROVE  /\ blocked_thread_map'[y] = x => tcb[x].blocked_on = y
                 /\ tcb[x].blocked_on = y =>
                       \/ blocked_thread_map'[y] = x
                       \/ \E d \in Cores : op'[d].at \in {"map", "wake"} /\ op'[d].tid = x
        <3>1. CASE x = t
            BY <1>0, <1>1, <1>4, <1>5, <1>u, <3>1 DEF Blocking, t
        <3>2. CASE x # t
            <4>1. \A d \in Cores : op[d].at \in {"map", "wake"} /\ op[d].tid = x =>
                     op'[d] = op[d]
                BY <1>1, <1>3, <3>2 DEF t
            <4>2. blocked_thread_map'[y] = x <=> blocked_thread_map[y] = x
                BY <1>1, <1>5, <3>2, ThreadsAssumption
            <4> QED
                BY <1>0, <4>1, <4>2 DEF SleepersAccounted
        <3> QED
            BY <3>1, <3>2
    <2> QED
        BY <1>2, <2>1 DEF SleepersAccounted
<1> QED
    BY <1>8, <1>9

LEMMA SleepersTake ==
    ASSUME IInv, NEW c \in Cores, TakeSleeper(c)
    PROVE  Blocking' /\ SleepersAccounted'
<1> DEFINE t == op[c].tid
           b == blocked_thread_map[t]
<1>0. Blocking /\ SleepersAccounted /\ TypeOK
    BY DEF IInv
<1>1. op[c].at = "unblock" /\ t \in Threads /\ t \in exited
    BY <1>0, Context DEF TakeSleeper, ActingAt, Blocking
<1>2. /\ blocked_thread_map' = [blocked_thread_map EXCEPT ![t] = INVALID_THREADID]
      /\ Goto(c, IF b = INVALID_THREADID THEN Idle ELSE ActingOn("wake", b))
      /\ tcb' = tcb /\ exited' = exited /\ joined' = joined
    BY DEF TakeSleeper, feederVars
<1>3. /\ blocked_thread_map'[t] = INVALID_THREADID
      /\ \A x \in Threads \ {t} : blocked_thread_map'[x] = blocked_thread_map[x]
    BY <1>0, <1>1, <1>2 DEF TypeOK
<1>4. b \in Threads \/ b = INVALID_THREADID
    BY <1>0, <1>1 DEF TypeOK, ThreadOrNone
<1>5. /\ \A d \in Cores \ {c} : op'[d] = op[d]
      /\ b = INVALID_THREADID => op'[c].at = "loop"
      /\ b # INVALID_THREADID => op'[c].at = "wake" /\ op'[c].tid = b
    BY <1>0, <1>2, <1>4, GotoFacts, IdleFacts, ActingFacts DEF ActingAt
<1>6. b # INVALID_THREADID =>
         /\ tcb[b].blocked_on = t
         /\ \A d \in Cores : op[d].at \in {"map", "wake"} => op[d].tid # b
         /\ \A x \in Threads \ {t} : blocked_thread_map[x] # b
    BY <1>0, <1>1, <1>4 DEF SleepersAccounted, Blocking
<1>7. \A x : IsThreadBlocked(x)' <=> IsThreadBlocked(x)
    BY <1>2 DEF IsThreadBlocked
<1>8. t # INVALID_THREADID
    BY <1>1, ThreadsAssumption
<1>b. b = blocked_thread_map[t]
    OBVIOUS
<1>m. \A d \in Cores : op[d].at \in {"map", "wake"} => op[d].tid \in Threads
    BY Context DEF ActingAt
<1> HIDE DEF t, b
<1>9. ASSUME NEW d \in Cores
      PROVE  /\ op'[d].at = "front" => ~IsThreadBlocked(op[d].tid)'
             /\ op'[d].at \in {"map", "wake"} =>
                   /\ IsThreadBlocked(op[d].tid)'
                   /\ \A x \in Threads : blocked_thread_map'[x] # op'[d].tid
                   /\ \A e \in Cores \ {d} :
                         op'[e].at \in {"map", "wake"} => op'[e].tid # op'[d].tid
             /\ op'[d].at = "wake" => tcb'[op'[d].tid].blocked_on \in exited'
             /\ op'[d].at \in {"erase", "unblock"} => op'[d].tid \in exited'
             /\ op'[d].at \in {"giveup", "activate"} => joined' # {}
    <2>1. CASE d = c
        <3>1. CASE b = INVALID_THREADID
            BY <1>5, <2>1, <3>1
        <3>2. CASE b # INVALID_THREADID
            BY <1>1, <1>2, <1>3, <1>5, <1>6, <1>8, <2>1, <3>2 DEF IsThreadBlocked
        <3> QED
            BY <3>1, <3>2
    <2>2. CASE d # c
        <3>1. op'[d] = op[d]
            BY <1>5, <2>2
        <3>2. op[d].at \in {"map", "wake"} =>
                 \A x \in Threads : blocked_thread_map'[x] # op[d].tid
            BY <1>0, <1>3, <1>m, ThreadsAssumption DEF Blocking
        <3>3. op[d].at \in {"map", "wake"} => \A e \in Cores \ {d} :
                 op'[e].at \in {"map", "wake"} => op'[e].tid # op[d].tid
            BY <1>0, <1>5, <1>6, <2>2 DEF Blocking
        <3> QED
            BY <1>0, <1>2, <1>7, <3>1, <3>2, <3>3 DEF Blocking, IsThreadBlocked
    <2> QED
        BY <2>1, <2>2
<1>10. Blocking'
    BY <1>0, <1>2, <1>7, <1>9 DEF Blocking
<1>11. SleepersAccounted'
    <2>1. ASSUME NEW x \in Threads, NEW y \in Threads
          PROVE  /\ blocked_thread_map'[y] = x => tcb[x].blocked_on = y
                 /\ tcb[x].blocked_on = y =>
                       \/ blocked_thread_map'[y] = x
                       \/ \E d \in Cores : op'[d].at \in {"map", "wake"} /\ op'[d].tid = x
        <3>1. /\ blocked_thread_map[y] = x => tcb[x].blocked_on = y
              /\ tcb[x].blocked_on = y =>
                    \/ blocked_thread_map[y] = x
                    \/ \E d \in Cores : op[d].at \in {"map", "wake"} /\ op[d].tid = x
            BY <1>0, Zenon DEF SleepersAccounted
        <3>2. \A d \in Cores : op[d].at \in {"map", "wake"} => op'[d] = op[d]
            BY <1>1, <1>5
        <3>3. x # INVALID_THREADID
            BY ThreadsAssumption
        <3>4. CASE y = t
            BY <1>3, <1>5, <1>b, <3>1, <3>2, <3>3, <3>4
        <3>5. CASE y # t
            BY <1>3, <3>1, <3>2, <3>5
        <3> QED
            BY <3>4, <3>5
    <2> QED
        BY <1>2, <2>1 DEF SleepersAccounted
<1> QED
    BY <1>10, <1>11

LEMMA SleepersWake ==
    ASSUME IInv, NEW c \in Cores, WakeSleeper(c)
    PROVE  Blocking' /\ SleepersAccounted'
<1> DEFINE b == op[c].tid
           r == tcb[b].run_queue_ID
           o == IF r = INVALID_CORE THEN Idle
                ELSE [ActingOn("activate", b) EXCEPT !.core = r]
<1>0. Blocking /\ SleepersAccounted /\ TypeOK
    BY DEF IInv
<1>1. /\ op[c].at = "wake" /\ b \in Threads /\ IsThreadBlocked(b) /\ tcb[b].exists
      /\ \A u \in Threads : blocked_thread_map[u] # b
      /\ \A d \in Cores \ {c} : op[d].at \in {"map", "wake"} => op[d].tid # b
      /\ joined # {}
    BY <1>0, Context DEF WakeSleeper, ActingAt, Blocking
<1>2. /\ tcb' = [tcb EXCEPT ![b].blocked_on = INVALID_THREADID]
      /\ Goto(c, o)
      /\ blocked_thread_map' = blocked_thread_map /\ exited' = exited /\ joined' = joined
    BY <1>1 DEF WakeSleeper, feederVars
<1>3. o.at \in {"loop", "activate"}
    BY IdleFacts DEF ActingOn, Idle
<1>4. op'[c].at \in {"loop", "activate"} /\ \A d \in Cores \ {c} : op'[d] = op[d]
    BY <1>0, <1>2, <1>3, GotoFacts
<1>5. /\ tcb'[b].blocked_on = INVALID_THREADID
      /\ \A x \in Threads \ {b} : tcb'[x] = tcb[x]
    BY <1>0, <1>1, <1>2 DEF TypeOK, TCB
<1>m. \A d \in Cores : op[d].at \in {"front", "map", "wake"} => op[d].tid \in Threads
    BY Context DEF ActingAt
<1>i. \A x \in Threads : IsThreadBlocked(x)' <=> IsThreadBlocked(x) /\ x # b
    BY <1>5 DEF IsThreadBlocked
<1>c. \A d \in Cores : op'[d].at \in {"map", "wake"} =>
         op'[d] = op[d] /\ op[d].tid \in Threads \ {b}
    BY <1>1, <1>4, <1>m
<1> HIDE DEF b, r, o
<1>6. \A x \in Threads : IsThreadBlocked(x)' =>
         tcb'[x].exists /\ <<x, tcb'[x].blocked_on>> \in joined'
    BY <1>0, <1>2, <1>5, <1>i DEF Blocking
<1>7. ASSUME NEW d \in Cores
      PROVE  /\ op'[d].at = "front" => ~IsThreadBlocked(op[d].tid)'
             /\ op'[d].at \in {"map", "wake"} =>
                   /\ IsThreadBlocked(op[d].tid)'
                   /\ \A x \in Threads : blocked_thread_map'[x] # op'[d].tid
                   /\ \A e \in Cores \ {d} :
                         op'[e].at \in {"map", "wake"} => op'[e].tid # op'[d].tid
             /\ op'[d].at = "wake" => tcb'[op'[d].tid].blocked_on \in exited'
             /\ op'[d].at \in {"erase", "unblock"} => op'[d].tid \in exited'
             /\ op'[d].at \in {"giveup", "activate"} => joined' # {}
    <2>1. CASE d = c
        BY <1>1, <1>2, <1>4, <2>1
    <2>2. CASE d # c
        <3>1. op'[d] = op[d]
            BY <1>4, <2>2
        <3>2. op'[d].at = "front" => ~IsThreadBlocked(op[d].tid)'
            <4>1. op[d].at = "front" => op[d].tid \in Threads /\ ~IsThreadBlocked(op[d].tid)
                BY <1>0, <1>m DEF Blocking
            <4>2. \A x \in Threads : ~IsThreadBlocked(x) => ~IsThreadBlocked(x)'
                BY <1>i
            <4> QED
                BY <3>1, <4>1, <4>2 DEF IsThreadBlocked
        <3>3. op'[d].at \in {"map", "wake"} => IsThreadBlocked(op[d].tid)'
            BY <1>0, <1>c, <1>5, <3>1 DEF Blocking, IsThreadBlocked
        <3>4. op'[d].at \in {"map", "wake"} =>
                   /\ \A x \in Threads : blocked_thread_map'[x] # op'[d].tid
                   /\ \A e \in Cores \ {d} :
                         op'[e].at \in {"map", "wake"} => op'[e].tid # op'[d].tid
            BY <1>0, <1>2, <1>c, <3>1 DEF Blocking
        <3>5. op'[d].at = "wake" => tcb'[op'[d].tid].blocked_on \in exited'
            BY <1>0, <1>2, <1>c, <1>5, <3>1 DEF Blocking
        <3>6. /\ op'[d].at \in {"erase", "unblock"} => op'[d].tid \in exited'
              /\ op'[d].at \in {"giveup", "activate"} => joined' # {}
            BY <1>0, <1>2, <3>1 DEF Blocking
        <3> QED
            BY <3>2, <3>3, <3>4, <3>5, <3>6
    <2> QED
        BY <2>1, <2>2
<1>e. \A x \in exited' : ~IsThreadBlocked(x)'
    BY <1>0, <1>2, <1>i DEF Blocking, TypeOK
<1>8. Blocking'
    BY <1>6, <1>7, <1>e DEF Blocking
<1>9. SleepersAccounted'
    <2>1. ASSUME NEW x \in Threads, NEW y \in Threads
          PROVE  /\ blocked_thread_map'[y] = x => tcb'[x].blocked_on = y
                 /\ tcb'[x].blocked_on = y =>
                       \/ blocked_thread_map'[y] = x
                       \/ \E d \in Cores : op'[d].at \in {"map", "wake"} /\ op'[d].tid = x
        <3>1. /\ blocked_thread_map[y] = x => tcb[x].blocked_on = y
              /\ tcb[x].blocked_on = y =>
                    \/ blocked_thread_map[y] = x
                    \/ \E d \in Cores : op[d].at \in {"map", "wake"} /\ op[d].tid = x
            BY <1>0, Zenon DEF SleepersAccounted
        <3>2. y # INVALID_THREADID
            BY ThreadsAssumption
        <3>3. CASE x = b
            BY <1>1, <1>2, <1>5, <3>2, <3>3
        <3>4. CASE x # b
            <4>1. \A d \in Cores : op[d].at \in {"map", "wake"} /\ op[d].tid = x =>
                     op'[d] = op[d]
                BY <1>4, <3>4 DEF b
            <4> QED
                BY <1>2, <1>5, <3>1, <3>4, <4>1
        <3> QED
            BY <3>3, <3>4
    <2> QED
        BY <2>1 DEF SleepersAccounted
<1> QED
    BY <1>8, <1>9

-----------------------------------------------------------------------------
(* Every action keeps the rest of the invariant.                           *)

Rest == Exist /\ ActsOnHead /\ Blocking /\ SleepersAccounted /\ Views

LEMMA RestInit == Init => Rest
<1> SUFFICES ASSUME Init PROVE Rest
    OBVIOUS
<1>1. /\ \A c \in Cores : op[c] = Idle /\ q[c] = << >> /\ ~active[c]
      /\ \A c \in Cores : coreThreads[c] = INVALID_THREADID
      /\ \A t \in Threads : /\ tcb[t].blocked_on = INVALID_THREADID
                            /\ blocked_thread_map[t] = INVALID_THREADID
    BY DEF Init, NoTCB
<1>2. \A c \in Cores : op[c].at = "loop" /\ Elems(q[c]) = {}
    BY <1>1, IdleFacts, ElemsFacts
<1>3. Exist /\ ActsOnHead
    BY <1>2 DEF Exist, ActsOnHead
<1>4. Blocking
    BY <1>1, <1>2 DEF Blocking, IsThreadBlocked, Init
<1>5. SleepersAccounted
    BY <1>1, ThreadsAssumption DEF SleepersAccounted
<1>6. Views
    BY <1>1, <1>2 DEF Views, View, Agrees
<1> QED
    BY <1>3, <1>4, <1>5, <1>6 DEF Rest

(* Steps of a sim thread that touch no queue, sleeper or core.             *)
LEMMA RestCalm ==
    ASSUME IInv, TypeOK', NEW c \in Cores, NEW o, Goto(c, o),
           UNCHANGED <<q, blockVars, coreVars, exited, joined>>,
           op[c].at \notin {"map", "wake", "erase"},
           o.at \in {"loop", "drained", "check", "affinity", "tcb"}
    PROVE  Rest'
<1> USE DEF blockVars
<1>1. Exist'
    BY ExistGoto DEF HasTCB
<1>2. ActsOnHead'
    BY HeadGoto
<1>3. Blocking' /\ SleepersAccounted'
    <2>1. \A x \in Threads : IsThreadBlocked(x) => tcb[x].exists
        BY DEF IInv, Blocking
    <2> QED
        BY <2>1, SleepersGoto
<1>4. Views'
    BY ViewsGoto
<1> QED
    BY <1>1, <1>2, <1>3, <1>4 DEF Rest

(* GiveUpCore, whoever calls it.                                           *)
LEMMA RestGiveUp ==
    ASSUME IInv, TypeOK', NEW c \in Cores, NEW resched \in BOOLEAN,
           op[c].at \in {"front", "giveup"}, GiveUpCore(c, resched)
    PROVE  Rest'
<1> DEFINE o == IF resched THEN Idle ELSE ActingOn("forget", Head(q[c]))
<1>0. TypeOK /\ \A x \in Threads : IsThreadBlocked(x) => tcb[x].exists
    BY DEF IInv, Blocking
<1>1. q[c] # << >> /\ NoDup(q[c]) /\ Head(q[c]) \in Threads
    BY Context
<1>2. /\ \A d \in Cores \ {c} : q'[d] = q[d]
      /\ Elems(q'[c]) \subseteq Elems(q[c])
    BY <1>0, <1>1, GiveUpFacts
<1>3. Goto(c, o) /\ UNCHANGED <<blockVars, exited, joined>>
    BY DEF GiveUpCore
<1>4. o.at \in {"loop", "forget"}
    BY <1>1, IdleFacts, ActingFacts DEF ActingAt
<1> HIDE DEF o
<1>5. Exist'
    BY <1>2, <1>3, <1>4, ExistGoto DEF blockVars, HasTCB
<1>6. ActsOnHead'
    BY <1>2, <1>3, <1>4, HeadGoto
<1>7. Blocking' /\ SleepersAccounted'
    BY <1>0, <1>3, <1>4, SleepersGoto DEF blockVars
<1>8. Views'
    BY <1>1, ViewsGiveUp
<1> QED
    BY <1>5, <1>6, <1>7, <1>8 DEF Rest

LEMMA RestSimThread ==
    ASSUME IInv, TypeOK', NEW c \in Cores, SimThread(c) PROVE Rest'
<1> USE DEF placeVars, blockVars, coreVars, feederVars
<1>0. TypeOK /\ \A x \in Threads : IsThreadBlocked(x) => tcb[x].exists
    BY DEF IInv, Blocking
<1> DEFINE t == Head(op[c].todo)
<1>t. op[c].at \in SchedulingAt =>
         /\ op[c].todo # << >> /\ op[c].todo \in Seq(Threads) /\ NoDup(op[c].todo)
         /\ t \in Threads /\ t \in Elems(op[c].todo)
    BY Context
<1>1. CASE ReceiveNewThread(c)
    <2>1. /\ msgs # << >> /\ Head(msgs).tids \in Seq(Threads)
          /\ Head(msgs).tids # << >>
        BY <1>0, <1>1, MsgFacts DEF ReceiveNewThread, IInv, MsgShape, Message
    <2>2. Scheduling("check", Head(msgs).tids).at = "check"
        BY <2>1, SchedulingFacts
    <2> QED
        BY <1>1, <2>2, RestCalm DEF ReceiveNewThread
<1>2. CASE ReceiveProcessThreads(c)
    <2>1. op[c].at = "loop" /\ msgs # << >> /\ Head(msgs).pinned
        BY <1>2 DEF ReceiveProcessThreads
    <2>2. /\ \A i \in DOMAIN Head(msgs).tids : Offset(Head(msgs).asid) + i - 1 \in Cores
          /\ Head(msgs).tids \in Seq(Threads) /\ Head(msgs).tids # << >>
        BY <2>1, PinnedFacts
    <2>3. \A i \in DOMAIN Head(msgs).tids : Offset(Head(msgs).asid) + i - 1 < NumCores
        BY <2>2, CoresAssumption DEF Cores
    <2>4. Goto(c, Scheduling("check", Head(msgs).tids))
        BY <1>2, <2>3 DEF ReceiveProcessThreads
    <2>5. Scheduling("check", Head(msgs).tids).at = "check"
        BY <2>2, SchedulingFacts
    <2>6. UNCHANGED <<q, blockVars, coreVars, exited, joined>>
        BY <1>2 DEF ReceiveProcessThreads
    <2> QED
        BY <2>1, <2>4, <2>5, <2>6, RestCalm
<1>3. CASE QueueEmpty(c)
    <2>1. [Idle EXCEPT !.at = "drained"].at = "drained"
        BY DEF Idle
    <2> QED
        BY <1>3, <2>1, RestCalm DEF QueueEmpty
<1>4. CASE CheckScheduled(c)
    <2>1. op[c].at = "check" /\ op[c].at \in SchedulingAt
        BY <1>4 DEF CheckScheduled, SchedulingAt
    <2>2. /\ NextTodo(op[c].todo).at \in {"loop", "check"}
          /\ Scheduling("affinity", op[c].todo).at = "affinity"
        BY <1>t, <2>1, NextTodoFacts, SchedulingFacts
    <2> QED
        BY <1>4, <2>1, <2>2, RestCalm DEF CheckScheduled
<1>5. CASE ChooseCore(c)
    <2> DEFINE o == [op[c] EXCEPT !.at = "tcb",
                        !.core = IF affinity[t] # INVALID_CORE
                                 THEN affinity[t] ELSE last_coreID]
    <2>1. o.at = "tcb"
        BY Context DEF Op
    <2>2. Goto(c, o)
        BY <1>5 DEF ChooseCore
    <2> HIDE DEF o
    <2> QED
        BY <1>5, <2>1, <2>2, RestCalm DEF ChooseCore
<1>6. CASE SetRunQueue(c)
    <2> DEFINE o == [op[c] EXCEPT !.at = "enqueue"]
    <2>1. /\ op[c].at = "tcb" /\ t \in Threads /\ t \in Elems(op[c].todo)
          /\ o.at = "enqueue" /\ o.todo = op[c].todo
        BY <1>6, <1>t, Context DEF SetRunQueue, SchedulingAt, Op
    <2>2. Goto(c, o) /\ UNCHANGED <<q, blocked_thread_map, coreVars, exited, joined>>
        BY <1>6 DEF SetRunQueue
    <2>3. /\ tcb'[t].exists /\ tcb'[t].blocked_on = tcb[t].blocked_on
          /\ \A x \in Threads \ {t} : tcb'[x] = tcb[x]
        BY <1>0, <1>6, <2>1 DEF SetRunQueue, TypeOK, TCB
    <2> HIDE DEF o
    <2>4. op'[c] = o /\ \A d \in Cores \ {c} : op'[d] = op[d]
        BY <1>0, <2>2, GotoFacts
    <2>5. Exist'
        <3>1. \A x \in Threads : HasTCB(x) => HasTCB(x)'
            BY <2>2, <2>3 DEF HasTCB
        <3>2. ASSUME NEW d \in Cores, NEW x \in Elems(q[d]) PROVE HasTCB(x)'
            BY <3>1, Context, ElemsFacts DEF IInv, Exist
        <3>3. ASSUME NEW d \in Cores, op'[d].at = "enqueue"
              PROVE  HasTCB(Head(op[d].todo))'
            <4>1. CASE d = c
                BY <2>1, <2>3, <2>4, <4>1 DEF HasTCB
            <4>2. CASE d # c
                <5>1. op'[d] = op[d] /\ op[d].at = "enqueue"
                    BY <2>4, <3>3, <4>2
                <5>2. Head(op[d].todo) \in Threads
                    BY <5>1, Context DEF SchedulingAt
                <5> QED
                    BY <3>1, <5>1, <5>2 DEF IInv, Exist
            <4> QED
                BY <4>1, <4>2
        <3> QED
            BY <2>2, <3>2, <3>3 DEF Exist
    <2>6. ActsOnHead'
        BY <2>1, <2>2, HeadGoto
    <2>7. Blocking' /\ SleepersAccounted'
        BY <1>0, <2>1, <2>2, <2>3, SleepersGoto
    <2>8. Views'
        BY <2>1, <2>2, ViewsGoto
    <2> QED
        BY <2>5, <2>6, <2>7, <2>8 DEF Rest
<1>7. CASE Enqueue(c)
    <2> DEFINE r == op[c].core
    <2>1. /\ op[c].at = "enqueue" /\ t \in Threads /\ t \in Elems(op[c].todo)
          /\ r \in Cores /\ q[r] \in Seq(Threads) /\ NoDup(q[r])
          /\ NextTodo(op[c].todo).at \in {"loop", "check"}
        BY <1>7, <1>t, Context, NextTodoFacts DEF Enqueue, SchedulingAt, GoodOp
    <2>2. /\ Goto(c, NextTodo(op[c].todo)) /\ q' = [q EXCEPT ![r] = Append(@, t)]
          /\ UNCHANGED <<blockVars, exited, joined>>
        BY <1>7 DEF Enqueue
    <2>3. /\ op'[c].at \in {"loop", "check"} /\ \A d \in Cores \ {c} : op'[d] = op[d]
        BY <1>0, <2>1, <2>2, GotoFacts
    <2>4. q'[r] = Append(q[r], t) /\ \A d \in Cores \ {r} : q'[d] = q[d]
        BY <1>0, <2>1, <2>2 DEF TypeOK
    <2>5. t \notin Elems(q[r])
        BY <2>1, OnlyListed
    <2>6. /\ Elems(Append(q[r], t)) = Elems(q[r]) \cup {t} /\ Append(q[r], t) # << >>
          /\ q[r] # << >> => Head(Append(q[r], t)) = Head(q[r])
        BY <2>1, <2>5, AppendFacts
    <2>7. HasTCB(t)
        BY <2>1 DEF IInv, Exist
    <2> HIDE DEF r, t
    <2>8. Exist'
        <3>1. ASSUME NEW d \in Cores, NEW x \in Elems(q'[d]) PROVE HasTCB(x)
            BY <2>4, <2>6, <2>7 DEF IInv, Exist
        <3>2. ASSUME NEW d \in Cores, op'[d].at = "enqueue"
              PROVE  HasTCB(Head(op'[d].todo))
            BY <2>3, <3>2 DEF IInv, Exist
        <3>3. \A x : HasTCB(x)' <=> HasTCB(x)
            BY <2>2 DEF HasTCB
        <3> QED
            BY <3>1, <3>2, <3>3 DEF Exist
    <2>9. ActsOnHead'
        <3>1. \A d \in Cores : q[d] # << >> => q'[d] # << >> /\ Head(q'[d]) = Head(q[d])
            BY <2>4, <2>6
        <3> QED
            BY <2>3, <3>1 DEF IInv, ActsOnHead
    <2>10. Blocking' /\ SleepersAccounted'
        BY <1>0, <2>1, <2>2, SleepersGoto
    <2>11. Views'
        BY <1>7, ViewsEnqueue
    <2> QED
        BY <2>8, <2>9, <2>10, <2>11 DEF Rest
<1>8. CASE GetCoreThread(c)
    <2>1. op[c].at = "drained" /\ UNCHANGED <<q, blockVars, coreVars, exited, joined>>
        BY <1>8 DEF GetCoreThread
    <2>2. CASE q[c] # << >> /\ ~IsThreadBlocked(Head(q[c]))
        <3> DEFINE o == ActingOn("front", Head(q[c]))
        <3>1. Head(q[c]) \in Threads
            BY <2>2, Context, TailFacts
        <3>2. Goto(c, o) /\ o.at = "front" /\ o.tid = Head(q[c])
            BY <1>8, <2>2, <3>1, ActingFacts DEF GetCoreThread, ActingAt
        <3> HIDE DEF o
        <3>3. Exist'
            BY <2>1, <3>2, ExistGoto DEF HasTCB
        <3>4. ActsOnHead'
            BY <2>1, <2>2, <3>2, HeadGoto
        <3>5. Blocking' /\ SleepersAccounted'
            BY <1>0, <2>1, <2>2, <3>1, <3>2, SleepersGoto
        <3>6. Views'
            BY <2>1, <3>2, ViewsGoto
        <3> QED
            BY <3>3, <3>4, <3>5, <3>6 DEF Rest
    <2>3. CASE ~(q[c] # << >> /\ ~IsThreadBlocked(Head(q[c])))
        BY <1>8, <2>1, <2>3, IdleFacts, RestCalm DEF GetCoreThread
    <2> QED
        BY <2>2, <2>3
<1>9. CASE ForgetRunQueue(c)
    <2>1. /\ op[c].at = "forget" /\ op[c].tid \in Threads
          /\ UNCHANGED <<q, blocked_thread_map, coreVars, exited, joined>>
          /\ Goto(c, Idle)
        BY <1>9, Context DEF ForgetRunQueue, ActingAt
    <2>2. \A x \in Threads : /\ tcb'[x].blocked_on = tcb[x].blocked_on
                             /\ tcb'[x].exists = tcb[x].exists
        BY <1>0, <1>9, <2>1 DEF ForgetRunQueue, TypeOK, TCB
    <2>3. Exist'
        BY <2>1, <2>2, IdleFacts, ExistGoto DEF HasTCB
    <2>4. ActsOnHead'
        BY <2>1, IdleFacts, HeadGoto
    <2>5. Blocking' /\ SleepersAccounted'
        BY <1>0, <2>1, <2>2, IdleFacts, SleepersGoto
    <2>6. Views'
        BY <2>1, IdleFacts, ViewsGoto
    <2> QED
        BY <2>3, <2>4, <2>5, <2>6 DEF Rest
<1>15. CASE EraseThread(c)
    <2>0. PICK u \in Threads : op[c].tid = u
        BY <1>15, Context DEF EraseThread, ActingAt
    <2> DEFINE o == ActingOn("unblock", u)
    <2>1. /\ op[c].at = "erase" /\ u \in Threads /\ u \in exited /\ ~IsThreadBlocked(u)
          /\ q[c] \in Seq(Threads) /\ NoDup(q[c])
        BY <1>15, <2>0, Context DEF EraseThread, ActingAt, IInv, Blocking
    <2>2. /\ ScheduleNextUnblockedThread(c, q[c]) /\ Goto(c, o)
          /\ tcb' = [tcb EXCEPT ![u] = NoTCB]
          /\ UNCHANGED <<blocked_thread_map, msgs, exited, joined, fstate>>
        BY <1>15, <2>0 DEF EraseThread
    <2>3. o.at = "unblock" /\ o.tid = u /\ o.todo = << >>
        BY <2>1, ActingFacts DEF ActingAt
    <2> HIDE DEF o
    <2>4. /\ \A d \in Cores \ {c} : q'[d] = q[d]
          /\ Elems(q'[c]) = Elems(q[c])
        BY <1>0, <2>1, <2>2, ScheduleNextFacts
    <2>5. op'[c] = o /\ \A d \in Cores \ {c} : op'[d] = op[d]
        BY <1>0, <2>2, GotoFacts
    <2>6. /\ tcb'[u].blocked_on = INVALID_THREADID
          /\ \A x \in Threads \ {u} : tcb'[x] = tcb[x]
        BY <1>0, <2>1, <2>2 DEF TypeOK, NoTCB
    <2>7. ASSUME ~LateErase PROVE Unplaced(u)'
        <3>1. Unplaced(u)
            BY <2>0, <2>1, <2>7, Nowhere DEF IInv, Dying
        <3>2. \A d \in Cores : u \notin Elems(q'[d]) /\ u \notin Elems(op'[d].todo)
            BY <2>3, <2>4, <2>5, <3>1, ElemsFacts DEF Unplaced
        <3> QED
            BY <2>2, <3>1, <3>2 DEF Unplaced
    <2>8. \A x \in Threads : tcb[x].exists => HasTCB(x)' \/ Unplaced(x)'
        BY <2>1, <2>2, <2>6, <2>7, WorkloadAssumption DEF HasTCB
    <2>9. Exist'
        BY <2>2, <2>3, <2>4, <2>8, ExistGoto
    <2>10. ActsOnHead'
        BY <2>2, <2>3, <2>4, HeadGoto
    <2>11. Blocking' /\ SleepersAccounted'
        <3>1. \A x \in Threads : /\ tcb'[x].blocked_on = tcb[x].blocked_on
                                 /\ IsThreadBlocked(x) => tcb'[x].exists
            BY <1>0, <2>1, <2>6 DEF IsThreadBlocked
        <3> QED
            BY <2>1, <2>2, <2>3, <3>1, SleepersGoto
    <2>12. Views'
        <3>1. joined = {} =>
                 active[c] /\ \A x \in Elems(q[c]) : threadCores[x] = INVALID_CORE
            BY <2>1 DEF IInv, PoppedCores, Popped
        <3> QED
            BY <2>1, <2>2, <2>3, <3>1, ViewsScheduleNext
    <2> QED
        BY <2>9, <2>10, <2>11, <2>12 DEF Rest
<1>10. CASE RecordSleeper(c)
    <2>1. /\ op[c].at = "map" /\ op[c].tid \in Threads
          /\ Goto(c, ActingOn("giveup", op[c].tid))
          /\ UNCHANGED <<q, tcb, coreVars, joined>>
        BY <1>10, Vacant DEF RecordSleeper
    <2> DEFINE o == ActingOn("giveup", op[c].tid)
    <2>2. o.at = "giveup" /\ o.tid = op[c].tid
        BY <2>1, ActingFacts DEF ActingAt
    <2> HIDE DEF o
    <2>3. Exist'
        BY <1>10, <2>1, <2>2, ExistGoto DEF o, HasTCB, RecordSleeper
    <2>4. ActsOnHead'
        BY <2>1, <2>2, Context, HeadGoto DEF o
    <2>5. Blocking' /\ SleepersAccounted'
        BY <1>10, SleepersRecord
    <2>6. Views'
        BY <2>1, <2>2, ViewsGoto DEF o
    <2> QED
        BY <2>3, <2>4, <2>5, <2>6 DEF Rest
<1>11. CASE GiveUpBlocked(c)
    <2>1. op[c].at = "giveup" /\ GiveUpCore(c, TRUE)
        BY <1>11 DEF GiveUpBlocked
    <2> QED
        BY <2>1, RestGiveUp
<1>12. CASE TakeSleeper(c)
    <2> DEFINE b == blocked_thread_map[op[c].tid]
               o == IF b = INVALID_THREADID THEN Idle ELSE ActingOn("wake", b)
    <2>1. b \in Threads \cup {INVALID_THREADID}
        BY <1>0, <1>12, Context DEF TakeSleeper, TypeOK, ThreadOrNone, ActingAt
    <2>2. /\ op[c].at = "unblock" /\ Goto(c, o)
          /\ UNCHANGED <<q, tcb, coreVars, exited, joined>>
        BY <1>12 DEF TakeSleeper
    <2>3. o.at \in {"loop", "wake"}
        BY <2>1, IdleFacts, ActingFacts DEF ActingAt
    <2> HIDE DEF o
    <2>4. Exist'
        BY <2>2, <2>3, ExistGoto DEF HasTCB
    <2>5. ActsOnHead'
        BY <2>2, <2>3, HeadGoto
    <2>6. Blocking' /\ SleepersAccounted'
        BY <1>12, SleepersTake
    <2>7. Views'
        BY <2>2, <2>3, ViewsGoto
    <2> QED
        BY <2>4, <2>5, <2>6, <2>7 DEF Rest
<1>13. CASE WakeSleeper(c)
    <2> DEFINE b == op[c].tid
               r == tcb[b].run_queue_ID
               o == IF r = INVALID_CORE THEN Idle
                    ELSE [ActingOn("activate", b) EXCEPT !.core = r]
    <2>1. b \in Threads /\ tcb[b].exists
        BY <1>13, Context DEF WakeSleeper, IInv, Blocking, ActingAt
    <2>2. /\ op[c].at = "wake" /\ Goto(c, o)
          /\ UNCHANGED <<q, coreVars, exited, joined>>
        BY <1>13, <2>1 DEF WakeSleeper
    <2>3. o.at \in {"loop", "activate"}
        BY IdleFacts DEF ActingOn, Idle
    <2>4. \A x \in Threads : tcb'[x].exists = tcb[x].exists
        BY <1>0, <1>13, <2>1 DEF WakeSleeper, TypeOK, TCB
    <2> HIDE DEF o
    <2>5. Exist'
        BY <2>2, <2>3, <2>4, ExistGoto DEF HasTCB
    <2>6. ActsOnHead'
        BY <2>2, <2>3, HeadGoto
    <2>7. Blocking' /\ SleepersAccounted'
        BY <1>13, SleepersWake
    <2>8. Views'
        BY <2>2, <2>3, ViewsGoto
    <2> QED
        BY <2>5, <2>6, <2>7, <2>8 DEF Rest
<1>14. CASE ActivateSleeper(c)
    <2>1. /\ op[c].at = "activate" /\ Goto(c, Idle)
          /\ UNCHANGED <<q, blockVars, exited, joined>>
        BY <1>14 DEF ActivateSleeper
    <2>2. Exist'
        BY <2>1, IdleFacts, ExistGoto DEF HasTCB
    <2>3. ActsOnHead'
        BY <2>1, IdleFacts, HeadGoto
    <2>4. Blocking' /\ SleepersAccounted'
        BY <1>0, <2>1, IdleFacts, SleepersGoto
    <2>5. Views'
        BY <2>1 DEF Views, IInv, Blocking
    <2> QED
        BY <2>2, <2>3, <2>4, <2>5 DEF Rest
<1> QED
    BY <1>1, <1>2, <1>3, <1>4, <1>5, <1>6, <1>7, <1>8, <1>9, <1>10, <1>11, <1>12,
       <1>13, <1>14, <1>15 DEF SimThread

LEMMA RestHandshake ==
    ASSUME IInv, TypeOK', NEW c \in Cores, Handshake(c) PROVE Rest'
<1> USE DEF placeVars, blockVars, coreVars, feederVars
<1>0. TypeOK /\ \A x \in Threads : IsThreadBlocked(x) => tcb[x].exists
    BY DEF IInv, Blocking
<1> DEFINE t == op[c].tid
<1>t. op[c].at = "front" =>
         /\ q[c] # << >> /\ Head(q[c]) = t /\ t \in Threads /\ t \in Elems(q[c])
         /\ Tail(q[c]) \in Seq(Threads) /\ NoDup(Tail(q[c]))
         /\ Elems(Tail(q[c])) = Elems(q[c]) \ {t}
    BY Context
<1>1. CASE SimulateInsn(c)
    BY <1>1, IdleFacts, RestCalm DEF SimulateInsn, HasHandshake
<1>2. CASE Yield(c)
    <2>1. op[c].at = "front" /\ GiveUpCore(c, TRUE)
        BY <1>2 DEF Yield, HasHandshake
    <2> QED
        BY <2>1, RestGiveUp
<1>3. CASE Leave(c)
    <2>1. op[c].at = "front" /\ GiveUpCore(c, FALSE)
        BY <1>3 DEF Leave, HasControl, HasHandshake
    <2> QED
        BY <2>1, RestGiveUp
<1>4. CASE DescheduleActiveThread(c)
    <2> DEFINE o == ActingOn("erase", t)
    <2>1. op[c].at = "front"
        BY <1>4 DEF DescheduleActiveThread, HasControl, HasHandshake
    <2>2. /\ q' = [q EXCEPT ![c] = Tail(@)] /\ Goto(c, o)
          /\ threadCores' = [threadCores EXCEPT ![t] = NoEntry]
          /\ exited' = exited \cup {t}
          /\ UNCHANGED <<blockVars, active, coreThreads, joined>>
        BY <1>t, <1>4, <2>1 DEF DescheduleActiveThread, PopHead
    <2>3. /\ q'[c] = Tail(q[c]) /\ Elems(q'[c]) = Elems(q[c]) \ {t}
          /\ \A d \in Cores \ {c} : q'[d] = q[d]
        BY <1>0, <1>t, <2>1, <2>2 DEF TypeOK
    <2>4. o.at = "erase" /\ o.tid = t
        BY <1>t, <2>1, ActingFacts DEF ActingAt
    <2> HIDE DEF o
    <2>5. ~IsThreadBlocked(t)
        BY <2>1 DEF IInv, Blocking
    <2>6. op'[c] = o /\ \A d \in Cores \ {c} : op'[d] = op[d]
        BY <1>0, <2>2, GotoFacts
    <2>7. \A x \in Threads \ {t} : threadCores'[x] = threadCores[x]
        BY <1>0, <2>2 DEF TypeOK
    <2>e. exited' \subseteq Threads
        BY DEF TypeOK
    <2> HIDE DEF t
    <2>8. Exist'
        BY <2>2, <2>3, <2>4, ExistGoto DEF HasTCB
    <2>9. ActsOnHead'
        BY <2>2, <2>3, <2>4, HeadGoto
    <2>10. Blocking' /\ SleepersAccounted'
        BY <1>0, <2>1, <2>2, <2>4, <2>5, SleepersGoto
    <2>11. Views'
        <3> SUFFICES ASSUME joined = {}, NEW d \in Cores PROVE View(d)'
            BY <2>2 DEF Views
        <3>1. Agrees(c)
            BY <2>1, ViewNow DEF View
        <3>2. CASE d = c
            <4>1. active'[c]
                BY <1>t, <2>1, <2>2, <3>1 DEF Agrees
            <4>2. ASSUME NEW x \in Elems(q'[c]) PROVE threadCores'[x] = INVALID_CORE
                <5>1. x \in Elems(q[c]) /\ x \in Threads \ {t} /\ t = Head(q[c])
                    BY <1>t, <2>1, <2>3, Context, ElemsFacts
                <5> QED
                    BY <2>7, <3>1, <5>1 DEF Agrees
            <4> QED
                BY <2>4, <2>6, <3>2, <4>1, <4>2 DEF View, Popped
        <3>3. CASE d # c
            <4>1. \A x \in Threads \ Elems(q[c]) : threadCores'[x] = threadCores[x]
                BY <1>t, <2>1, <2>7
            <4> QED
                BY <2>2, <2>3, <2>6, <3>3, <4>1, ViewElsewhere
        <3> QED
            BY <3>2, <3>3
    <2> QED
        BY <2>8, <2>9, <2>10, <2>11 DEF Rest
<1>5. ASSUME NEW u \in Threads, BlockThread(c, u) PROVE Rest'
    <2> DEFINE o == ActingOn("map", t)
    <2>1. /\ op[c].at = "front" /\ Goto(c, o) /\ joined \subseteq joined'
          /\ UNCHANGED <<q, coreVars, exited>>
        BY <1>5 DEF BlockThread, HasHandshake
    <2>2. o.at = "map" /\ o.tid = t
        BY <1>t, <2>1, ActingFacts DEF ActingAt
    <2>3. \A x \in Threads : tcb'[x].exists = tcb[x].exists
        BY <1>0, <1>t, <1>5, <2>1 DEF BlockThread, TypeOK, TCB
    <2> HIDE DEF o
    <2>4. Exist'
        BY <2>1, <2>2, <2>3, ExistGoto DEF HasTCB
    <2>5. ActsOnHead'
        BY <1>t, <2>1, <2>2, HeadGoto
    <2>6. Blocking' /\ SleepersAccounted'
        BY <1>5, SleepersBlock
    <2>7. Views'
        BY <2>1, <2>2, ViewsGoto
    <2> QED
        BY <2>4, <2>5, <2>6, <2>7 DEF Rest
<1>6. ASSUME NEW k \in Cores, MigrateThread(c, k) PROVE Rest'
    <2> DEFINE s == <<t>>
               o == Scheduling("affinity", s)
    <2>1. op[c].at = "front"
        BY <1>6 DEF MigrateThread, HasControl, HasHandshake
    <2>2. s \in Seq(Threads) /\ s # << >>
        BY <1>t, <2>1
    <2>3. /\ ScheduleNextUnblockedThread(c, Tail(q[c])) /\ Goto(c, o)
          /\ UNCHANGED <<blockVars, joined, exited>>
        BY <1>t, <1>6, <2>1 DEF MigrateThread, PopHead
    <2> HIDE DEF s
    <2>4. o.at = "affinity"
        BY <2>2, SchedulingFacts
    <2> HIDE DEF o
    <2>6. /\ \A d \in Cores \ {c} : q'[d] = q[d]
          /\ Elems(q'[c]) = Elems(q[c]) \ {t}
        BY <1>0, <1>t, <2>1, <2>3, ScheduleNextFacts
    <2>7. Exist'
        BY <2>3, <2>4, <2>6, ExistGoto DEF HasTCB
    <2>8. ActsOnHead'
        BY <2>3, <2>4, <2>6, HeadGoto
    <2>9. Blocking' /\ SleepersAccounted'
        BY <1>0, <2>1, <2>3, <2>4, SleepersGoto
    <2>10. Views'
        <3>1. joined = {} => active[c] /\ \A x \in Elems(Tail(q[c])) :
                                  threadCores[x] = INVALID_CORE
            <4> SUFFICES ASSUME joined = {} PROVE active[c] /\
                    \A x \in Elems(Tail(q[c])) : threadCores[x] = INVALID_CORE
                OBVIOUS
            <4>1. Agrees(c)
                BY <2>1, ViewNow DEF View
            <4> QED
                BY <1>t, <2>1, <4>1 DEF Agrees
        <3>2. Elems(Tail(q[c])) \subseteq Elems(q[c])
            BY <1>t, <2>1
        <3> QED
            BY <1>t, <2>1, <2>3, <2>4, <3>1, <3>2, ViewsScheduleNext
    <2> QED
        BY <2>7, <2>8, <2>9, <2>10 DEF Rest
<1> QED
    BY <1>1, <1>2, <1>3, <1>4, <1>5, <1>6 DEF Handshake

(* What the feeders do changes neither queues nor sleepers.                *)
LEMMA RestSame ==
    ASSUME IInv, UNCHANGED <<q, blockVars, coreVars, op, exited, joined>> PROVE Rest'
<1>1. Views'
    BY ViewsStay
<1>2. Exist' /\ ActsOnHead'
    BY DEF IInv, Exist, HasTCB, ActsOnHead, blockVars
<1>3. Blocking' /\ SleepersAccounted'
    BY DEF IInv, Blocking, IsThreadBlocked, SleepersAccounted, blockVars
<1> QED
    BY <1>1, <1>2, <1>3 DEF Rest

LEMMA RestKept == ASSUME IInv, [Next]_vars, TypeOK' PROVE Rest'
<1>1. CASE Feeder
    <2>1. UNCHANGED <<q, blockVars, coreVars, op, exited, joined>>
        BY <1>1 DEF Feeder, ScheduleThread, SeesScheduled, SeesDescheduled,
            ResumeSimulation
    <2> QED
        BY <2>1, RestSame
<1>2. CASE UNCHANGED vars
    BY <1>2, RestSame DEF vars, feederVars
<1> QED
    BY <1>1, <1>2, RestSimThread, RestHandshake DEF Next

-----------------------------------------------------------------------------
(* A thread whose control block is being erased has no place, unless its   *)
(* process may resume meanwhile.                                           *)

(* Only DescheduleActiveThread begins to erase.                            *)
LEMMA StartsErase ==
    ASSUME IInv, NEW c \in Cores, SimThread(c) \/ Handshake(c),
           ~DescheduleActiveThread(c)
    PROVE  /\ op'[c].at # "erase" /\ \A d \in Cores \ {c} : op'[d] = op[d]
           /\ \A t \in Threads : Wanted(t)' => Wanted(t)
<1> USE DEF feederVars
<1>0. TypeOK
    BY DEF IInv
<1>1. \E o : Goto(c, o) /\ o.at # "erase"
    <2>1. op[c] \in Op
        BY Context
    <2>2. /\ Idle.at = "loop" /\ \A s : NextTodo(s).at \in {"loop", "check"}
          /\ \A l, s : Scheduling(l, s).at = l
          /\ \A l, t : ActingOn(l, t).at = l
          /\ \A t, r : [ActingOn("activate", t) EXCEPT !.core = r].at = "activate"
          /\ [Idle EXCEPT !.at = "drained"].at = "drained"
          /\ \A r : [op[c] EXCEPT !.at = "tcb", !.core = r].at = "tcb"
          /\ [op[c] EXCEPT !.at = "enqueue"].at = "enqueue"
        BY <2>1 DEF NextTodo, Scheduling, ActingOn, Idle, Op
    <2>3. CASE ReceiveNewThread(c) \/ ReceiveProcessThreads(c) \/ QueueEmpty(c)
        <3>1. CASE ReceiveNewThread(c)
            BY <2>2, <3>1 DEF ReceiveNewThread
        <3>2. CASE ReceiveProcessThreads(c)
            <4>1. \/ Goto(c, Scheduling("check", Head(msgs).tids))
                  \/ Goto(c, Scheduling("abort", Head(msgs).tids))
                BY <3>2, Zenon DEF ReceiveProcessThreads
            <4> QED
                BY <2>2, <4>1
        <3>3. CASE QueueEmpty(c)
            BY <2>2, <3>3 DEF QueueEmpty
        <3> QED
            BY <2>3, <3>1, <3>2, <3>3
    <2>4. CASE CheckScheduled(c)
        BY <2>2, <2>4 DEF CheckScheduled
    <2>5. CASE ChooseCore(c)
        BY <2>2, <2>5 DEF ChooseCore
    <2>6. CASE SetRunQueue(c)
        BY <2>2, <2>6 DEF SetRunQueue
    <2>7. CASE Enqueue(c)
        BY <2>2, <2>7 DEF Enqueue
    <2>8. CASE GetCoreThread(c)
        BY <2>2, <2>8 DEF GetCoreThread
    <2>9. CASE ForgetRunQueue(c) \/ EraseThread(c)
        BY <2>2, <2>9 DEF ForgetRunQueue, EraseThread
    <2>10. CASE RecordSleeper(c)
        BY <2>2, <2>10 DEF RecordSleeper
    <2>11. ASSUME NEW r \in BOOLEAN, GiveUpCore(c, r)
           PROVE  \E o : Goto(c, o) /\ o.at # "erase"
        BY <2>2, <2>11 DEF GiveUpCore
    <2>12. CASE TakeSleeper(c)
        BY <2>2, <2>12 DEF TakeSleeper
    <2>13. CASE WakeSleeper(c)
        <3> DEFINE b == op[c].tid
                   awake == [ActingOn("activate", b) EXCEPT
                                !.core = tcb[b].run_queue_ID]
        <3>1. \/ Goto(c, ActingOn("abort", b)) \/ Goto(c, Idle) \/ Goto(c, awake)
            BY <2>13, Zenon DEF WakeSleeper
        <3>2. awake.at = "activate"
            BY <2>2
        <3> HIDE DEF awake
        <3> QED
            BY <2>2, <3>1, <3>2
    <2>14. CASE ActivateSleeper(c) \/ SimulateInsn(c)
        BY <2>2, <2>14 DEF ActivateSleeper, SimulateInsn
    <2>15. ASSUME NEW u \in Threads, BlockThread(c, u)
           PROVE  \E o : Goto(c, o) /\ o.at # "erase"
        BY <2>2, <2>15 DEF BlockThread
    <2>16. ASSUME NEW k \in Cores, MigrateThread(c, k)
           PROVE  \E o : Goto(c, o) /\ o.at # "erase"
        BY <2>2, <2>16 DEF MigrateThread
    <2>17. CASE GiveUpBlocked(c) \/ Yield(c) \/ Leave(c)
        BY <2>11, <2>17 DEF GiveUpBlocked, Yield, Leave
    <2> QED
        BY <2>3, <2>4, <2>5, <2>6, <2>7, <2>8, <2>9, <2>10, <2>12, <2>13, <2>14,
           <2>15, <2>16, <2>17 DEF SimThread, Handshake
<1>2. op'[c].at # "erase" /\ \A d \in Cores \ {c} : op'[d] = op[d]
    BY <1>0, <1>1, GotoFacts
<1>3. \A t \in Threads : Wanted(t)' => Wanted(t)
    <2>1. fstate' = fstate \/ Leave(c)
        BY DEF SimThread, ReceiveNewThread, ReceiveProcessThreads, QueueEmpty,
            CheckScheduled, ChooseCore, SetRunQueue, Enqueue, GetCoreThread,
            ForgetRunQueue, EraseThread, RecordSleeper, GiveUpBlocked,
            TakeSleeper, WakeSleeper, ActivateSleeper, Handshake, SimulateInsn, Yield,
            BlockThread, MigrateThread
    <2>2. CASE fstate' = fstate
        BY <2>2 DEF Wanted
    <2>3. CASE Leave(c)
        BY <1>0, <2>3 DEF Leave, Wanted, TypeOK
    <2> QED
        BY <2>1, <2>2, <2>3
<1> QED
    BY <1>2, <1>3

LEMMA DyingKept == ASSUME IInv, [Next]_vars PROVE Dying'
<1>0. TypeOK /\ Blocking
    BY DEF IInv
<1> SUFFICES ASSUME ~LateErase, NEW d \in Cores, op'[d].at = "erase"
             PROVE  ~Wanted(op[d].tid)'
    BY DEF Dying
<1>d. op[d].at = "erase" =>
         /\ ~Wanted(op[d].tid) /\ op[d].tid \in Threads /\ op[d].tid \in exited
    BY <1>0, Context DEF IInv, Dying, Blocking, ActingAt
<1>1. CASE op'[d] = op[d] /\ \A t \in Threads : Wanted(t)' => Wanted(t)
    BY <1>1, <1>d DEF Wanted
<1>2. ASSUME NEW t \in Threads, ScheduleThread(t) PROVE ~Wanted(op[d].tid)'
    <2>1. op' = op /\ t \notin exited /\ fstate' = [fstate EXCEPT ![t] = "waiting"]
        BY <1>2 DEF ScheduleThread
    <2>2. op[d].tid # t /\ fstate'[op[d].tid] = fstate[op[d].tid]
        BY <1>0, <1>d, <2>1 DEF TypeOK
    <2> QED
        BY <1>d, <2>1, <2>2 DEF Wanted
<1>3. ASSUME NEW t \in Threads, SeesScheduled(t) \/ SeesDescheduled(t)
      PROVE  ~Wanted(op[d].tid)'
    <2>1. op' = op /\ \A x \in Threads : Wanted(x)' => Wanted(x)
        BY <1>0, <1>3 DEF SeesScheduled, SeesDescheduled, Wanted, TypeOK
    <2> QED
        BY <1>1, <2>1
<1>4. ASSUME NEW a \in Resumes, ResumeSimulation(a) PROVE ~Wanted(op[d].tid)'
    <2>1. op' = op /\ op[d].tid \notin {t \in Threads : Process[t] = a}
        BY <1>4 DEF ResumeSimulation
    <2>2. fstate'[op[d].tid] = fstate[op[d].tid]
        BY <1>d, <1>4, <2>1 DEF ResumeSimulation
    <2> QED
        BY <1>d, <2>1, <2>2 DEF Wanted
<1>5. ASSUME NEW c \in Cores, DescheduleActiveThread(c) PROVE ~Wanted(op[d].tid)'
    <2> DEFINE t == op[c].tid
    <2>1. op[c].at = "front" /\ Head(q[c]) = t /\ t \in Threads
        BY <1>5, Context DEF DescheduleActiveThread, HasControl, HasHandshake
    <2>2. /\ fstate' = [fstate EXCEPT ![t] = "off"]
          /\ Goto(c, ActingOn("erase", t))
        BY <1>5, <2>1 DEF DescheduleActiveThread
    <2>3. op'[c].tid = t /\ \A e \in Cores \ {c} : op'[e] = op[e]
        BY <1>0, <2>1, <2>2, ActingFacts, GotoFacts DEF ActingAt
    <2>4. /\ \A x \in Threads : Wanted(x)' => Wanted(x)
          /\ fstate'[t] = "off"
        BY <1>0, <2>1, <2>2 DEF Wanted, TypeOK
    <2>5. CASE d = c
        BY <2>3, <2>4, <2>5 DEF Wanted
    <2>6. CASE d # c
        BY <1>1, <2>3, <2>4, <2>6
    <2> QED
        BY <2>5, <2>6
<1>6. ASSUME NEW c \in Cores, SimThread(c) \/ Handshake(c) PROVE ~Wanted(op[d].tid)'
    <2>1. CASE DescheduleActiveThread(c)
        BY <1>5, <2>1
    <2>2. CASE ~DescheduleActiveThread(c)
        <3>1. d # c /\ op'[d] = op[d] /\ \A t \in Threads : Wanted(t)' => Wanted(t)
            BY <1>6, <2>2, StartsErase
        <3> QED
            BY <1>1, <3>1
    <2> QED
        BY <2>1, <2>2
<1>7. CASE UNCHANGED vars
    BY <1>1, <1>7 DEF vars, feederVars, Wanted
<1> QED
    BY <1>2, <1>3, <1>4, <1>6, <1>7 DEF Next, Feeder

-----------------------------------------------------------------------------
(* The theorems.                                                           *)

LEMMA Parts ==
    ASSUME TypeOK, OpShape, MsgShape, Places, Rest, Dying PROVE IInv
BY ViewsEquiv DEF IInv, Places, Rest, TypeOK

(* IInv holds in every reachable state: at any moment, between any two     *)
(* critical sections, each thread is in one queue, list or message, each   *)
(* sim thread is where its thread is, each sleeper is on record, and only  *)
(* an exited thread can lack its control block while it is queued.         *)
THEOREM Invariance == Spec => []IInv
<1>1. Init => IInv
    <2>1. Init => Dying
        BY IdleFacts DEF Init, Dying
    <2> QED
        BY <2>1, TypesInit, PlacesInit, RestInit, Parts
<1>2. IInv /\ [Next]_vars => IInv'
    <2> SUFFICES ASSUME IInv, [Next]_vars PROVE IInv'
        OBVIOUS
    <2>1. TypeOK' /\ OpShape' /\ MsgShape'
        BY TypesKept
    <2>2. Places' /\ Rest' /\ Dying'
        BY <2>1, PlacesKept, RestKept, DyingKept
    <2>3. (q \in [Cores -> Seq(Threads)] /\ Distinct)' =>
             (ViewsAgree' /\ PoppedCores' <=> Views')
        BY ViewsEquiv, PTL
    <2> QED
        BY <2>1, <2>2, <2>3 DEF IInv, Places, Rest, TypeOK
<1> QED
    BY <1>1, <1>2, PTL DEF Spec

(* RunQueuesSound always holds if no process resumes while a control block *)
(* of it is being erased: a thread is queued at one and only one run       *)
(* queue, no assert of the scheduler fails, every queued thread has its    *)
(* control block, DescheduleActiveThread and GiveUpCore pop the thread     *)
(* they mean, and until a thread blocks the views of a core agree.         *)
THEOREM RunQueues == ASSUME ~LateErase PROVE Spec => []RunQueuesSound
<1>1. IInv => RunQueuesSound
    <2> SUFFICES ASSUME IInv PROVE RunQueuesSound
        OBVIOUS
    <2>1. OneRunQueue
        <3> SUFFICES ASSUME NEW c \in Cores, NEW d \in Cores,
                            NEW i \in DOMAIN q[c], NEW j \in DOMAIN q[d],
                            q[c][i] = q[d][j]
                     PROVE  c = d /\ i = j
            BY DEF OneRunQueue
        <3>1. q[c][i] \in Elems(q[c]) /\ q[d][j] \in Elems(q[d])
            BY DEF Elems
        <3>2. c = d
            BY <3>1 DEF IInv, Disjoint
        <3>3. NoDup(q[c])
            BY DEF IInv, Distinct
        <3> QED
            BY <3>2, <3>3 DEF NoDup
    <2>2. NoAbort
        <3>1. ~Aborted
            BY DEF IInv, OpShape, GoodOp, Aborted
        <3>2. \A c \in Cores : \A i \in DOMAIN q[c] : tcb[q[c][i]].exists
            BY DEF IInv, Exist, HasTCB, Elems
        <3> QED
            BY <3>1, <3>2 DEF NoAbort
    <2> QED
        BY <2>1, <2>2 DEF RunQueuesSound, IInv
<1> QED
    BY <1>1, Invariance, PTL

(* SleepersAccounted always holds: no blocked thread is forgotten between  *)
(* the critical sections of BlockThread and UnblockSleepers.               *)
THEOREM Sleepers == Spec => []SleepersAccounted
<1>1. IInv => SleepersAccounted
    BY DEF IInv
<1> QED
    BY <1>1, Invariance, PTL

(* JoinReturnsAfterExit: whatever step ends the wait of a joiner, the      *)
(* thread it waits for has exited before.                                  *)
THEOREM JoinReturns == Spec => JoinReturnsAfterExit
<1> DEFINE Returns == \A t, u \in Threads :
                         tcb[t].blocked_on = u /\ tcb'[t].blocked_on # u => u \in exited
<1>1. IInv /\ [Next]_vars => [Returns]_vars
    <2> SUFFICES ASSUME IInv, [Next]_vars, NEW t \in Threads, NEW u \in Threads,
                        tcb[t].blocked_on = u, tcb'[t].blocked_on # u
                 PROVE  u \in exited
        OBVIOUS
    <2>0. TypeOK /\ Blocking /\ IsThreadBlocked(t)
        BY ThreadsAssumption DEF IInv, IsThreadBlocked
    <2>1. CASE UNCHANGED vars
        BY <2>1 DEF vars, blockVars
    <2>2. CASE Feeder
        BY <2>2 DEF Feeder, ScheduleThread, SeesScheduled, SeesDescheduled,
            ResumeSimulation, blockVars
    <2>3. ASSUME NEW c \in Cores, SimThread(c) PROVE u \in exited
        <3>1. CASE SetRunQueue(c)
            BY <2>0, <3>1 DEF SetRunQueue, TypeOK, TCB
        <3>2. CASE ForgetRunQueue(c)
            BY <2>0, <3>2 DEF ForgetRunQueue, TypeOK, TCB
        <3>3. CASE WakeSleeper(c)
            <4>1. t = op[c].tid
                BY <2>0, <3>3 DEF WakeSleeper, TypeOK
            <4> QED
                BY <2>0, <3>3, <4>1 DEF WakeSleeper, Blocking
        <3>4. CASE UNCHANGED tcb
            BY <3>4
        <3>6. CASE EraseThread(c)
            <4>1. t # op[c].tid
                BY <2>0, <3>6 DEF EraseThread, Blocking
            <4> QED
                BY <2>0, <3>6, <4>1 DEF EraseThread, TypeOK
        <3>5. \/ SetRunQueue(c) \/ ForgetRunQueue(c) \/ WakeSleeper(c)
              \/ EraseThread(c) \/ UNCHANGED tcb
            BY <2>3 DEF SimThread, ReceiveNewThread, ReceiveProcessThreads, QueueEmpty,
                CheckScheduled, ChooseCore, Enqueue, GetCoreThread, RecordSleeper,
                GiveUpBlocked, GiveUpCore, TakeSleeper, ActivateSleeper, blockVars
        <3> QED
            BY <3>1, <3>2, <3>3, <3>4, <3>5, <3>6
    <2>4. ASSUME NEW c \in Cores, Handshake(c) PROVE u \in exited
        <3>2. ASSUME NEW v \in Threads, BlockThread(c, v) PROVE u \in exited
            <4>1. t # op[c].tid
                BY <2>0, <3>2 DEF BlockThread, HasHandshake, Blocking
            <4> QED
                BY <2>0, <3>2, <4>1 DEF BlockThread, TypeOK
        <3>3. CASE UNCHANGED tcb
            BY <3>3
        <3>4. UNCHANGED tcb \/ \E v \in Threads : BlockThread(c, v)
            BY <2>4 DEF Handshake, SimulateInsn, Yield, Leave, GiveUpCore,
                DescheduleActiveThread, MigrateThread, blockVars
        <3> QED
            BY <3>2, <3>3, <3>4
    <2> QED
        BY <2>1, <2>2, <2>3, <2>4 DEF Next
<1> QED
    BY <1>1, Invariance, PTL DEF Spec, JoinReturnsAfterExit

=============================================================================
