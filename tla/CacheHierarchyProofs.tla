------------------------ MODULE CacheHierarchyProofs ------------------------
(***************************************************************************)
(* Proofs about CacheHierarchy: the arrays and MSHRs keep their form, no   *)
(* work is forgotten, and every request is answered once, for any number   *)
(* of caches, banks, slots and requests.                                   *)
(***************************************************************************)
EXTENDS CacheHierarchy, CacheArrayProofs, FiniteSetTheorems

-----------------------------------------------------------------------------
(* Types.                                                                  *)

On(f, S) == f = [x \in S |-> f[x]]
Act == [cmd : Commands, addr : Blocks, core : Caches, prev : Caches \cup {NoCache},
        bank : Nat, index : Nat, op : Nat]
Access == [act : Act, exit : Nat]
Fill == [cmd : Commands, addr : Blocks, exit : Nat]
Slot == [slot : Nat, type : {"MISS", "WRITEBACK"}, act : Act, started : BOOLEAN,
         returned : 0 .. Never]
Counters == [miss : Nat, wb : Nat, fill : Nat, unprocessed : Nat, pf : Nat]
MemRequest == [act : Act, started : BOOLEAN, finished : 0 .. Never, returned : BOOLEAN]
Operation == [core : L1s, live : BOOLEAN, translated : BOOLEAN, answers : Nat]
Turn == [cache : Caches \cup {NoCache}, pass : 1 .. 6, turn : Nat, up : BOOLEAN, found : BOOLEAN]

(* The blocks of set s of cache c.                                         *)
Tags(c, s) == {a \in Blocks : SetOf(c, a) = s}

(* What an access or a miss of cache c says of where it came from: from a  *)
(* core or the cache's own prefetcher, or from a slot of a private cache.  *)
Routed(c, act) ==
    /\ c \in L1s => act.prev = NoCache
    /\ c = LLC => /\ act.prev \in L1s \cup {NoCache}
                  /\ act.prev = NoCache => act.op = NoOp
    /\ act.prev \in L1s => /\ act.bank \in Banks(act.prev)
                           /\ act.index \in 0 .. MSHR_size[act.prev] - 1
    /\ act.cmd = "PREFETCH" => /\ act.bank = BankOf(c, act.addr)
                               /\ act.bank = BankOf(LLC, act.addr)

(* The tag arrays, the pipes, the fills and the prefetch queues.           *)
BlocksOK(T) ==
    /\ On(T, Caches) /\ \A c \in Caches : On(T[c], 0 .. Sets[c] - 1)
    /\ \A c \in Caches : \A s \in 0 .. Sets[c] - 1 : SetOK(T[c][s], Assoc[c], Tags(c, s))
Short(P) == \A c \in Caches : Len(P[c]) <= latency[c]
FillsOK(F) == On(F, Caches) /\ \A c \in Caches : F[c] \in Seq(Fill) /\ Len(F[c]) <= latency[c]
AddrsOK(Q, size) == On(Q, Caches) /\ \A c \in Caches : Q[c] \in Seq(Blocks) /\ Len(Q[c]) <= size[c]

ArrayInv ==
    /\ BlocksOK(blocks) /\ Short(pipe) /\ FillsOK(fill)
    /\ AddrsOK(PFF, PFF_size) /\ AddrsOK(PF_buffer, PF_buffer_size)
    /\ Len(RQ) <= RQ_size
    /\ pc \in Turn

-----------------------------------------------------------------------------
(* The MSHRs.                                                              *)

Misses(m) == {i \in 1 .. Len(m) : m[i].type = "MISS"}
Writebacks(m) == {i \in 1 .. Len(m) : m[i].type = "WRITEBACK"}
Unsents(m) == {i \in 1 .. Len(m) : m[i].type = "MISS" /\ ~m[i].started}
Prefetches(m) == {i \in 1 .. Len(m) : m[i].act.cmd = "PREFETCH"}

(* The counters n count the entries m of a bank.                           *)
Counted(m, n) ==
    /\ n.miss = Cardinality(Misses(m)) /\ n.fill = n.miss
    /\ n.wb = Cardinality(Writebacks(m))
    /\ n.unprocessed = Cardinality(Unsents(m))
    /\ n.pf = Cardinality(Prefetches(m))

(* An entry of bank b of cache c.                                          *)
EntryOK(c, b, e) ==
    /\ BankOf(c, e.act.addr) = b
    /\ e.slot \in 0 .. MSHR_size[c] - 1
    /\ e.returned # Never => e.started
    /\ e.type = "MISS" => Routed(c, e.act)
    /\ e.type = "WRITEBACK" => e.act.cmd = "WRITEBACK" /\ e.act.op = NoOp

BankOK(c, b, m, n) ==
    /\ m \in Seq(Slot) /\ n \in Counters
    /\ \A i \in 1 .. Len(m) : EntryOK(c, b, m[i])
    /\ \A i, j \in 1 .. Len(m) : m[i].slot = m[j].slot => i = j
    /\ Counted(m, n)
    /\ n.miss <= MSHR_size[c] - MSHR_WB_size[c] /\ n.wb <= MSHR_WB_size[c]

Banked(M) == On(M, Caches) /\ \A c \in Caches : On(M[c], Banks(c))

-----------------------------------------------------------------------------
(* Who waits for whom.                                                     *)

(* An access wants an answer: of a slot of the level below, or of a core's *)
(* operation; a prefetch of the cache's own wants none.                    *)
Asks(act) == act.prev # NoCache \/ act.op # NoOp
Key(act) == IF act.prev = NoCache THEN <<NoCache, 0, act.op>> ELSE <<act.prev, act.bank, act.index>>
For(act, k) == Asks(act) /\ Key(act) = k

(* Accesses p and misses M of a cache with banks B that want k.            *)
InPipe(p, k, i) == i \in 1 .. Len(p) /\ For(p[i].act, k)
InMSHR(M, B, k, b, i) == b \in B /\ i \in 1 .. Len(M[b]) /\ M[b][i].type = "MISS" /\ For(M[b][i].act, k)
Asked(p, M, B, k) == \/ \E i \in 1 .. Len(p) : InPipe(p, k, i)
                     \/ \E b \in B : \E i \in 1 .. Len(M[b]) : InMSHR(M, B, k, b, i)

(* No answer is wanted twice.                                              *)
Single(p, M, B) ==
    /\ \A i, j \in 1 .. Len(p) : InPipe(p, Key(p[i].act), i) /\ InPipe(p, Key(p[i].act), j) => i = j
    /\ \A i \in 1 .. Len(p) : \A b \in B : \A j \in 1 .. Len(M[b]) :
         ~(InPipe(p, Key(p[i].act), i) /\ InMSHR(M, B, Key(p[i].act), b, j))
    /\ \A b, d \in B : \A i \in 1 .. Len(M[b]) : \A j \in 1 .. Len(M[d]) :
         InMSHR(M, B, Key(M[b][i].act), b, i) /\ InMSHR(M, B, Key(M[b][i].act), d, j) => b = d /\ i = j

(* The slot of the bank m waits for the next level.                        *)
Waits(m, slot) == \E i \in 1 .. Len(m) : m[i].slot = slot /\ m[i].started /\ m[i].returned = Never

InRQ(q, k, i) == i \in 1 .. Len(q) /\ ~q[i].returned /\ For(q[i].act, k)
AskedRQ(q, k) == \E i \in 1 .. Len(q) : InRQ(q, k, i)
SingleRQ(q) == \A i, j \in 1 .. Len(q) : InRQ(q, Key(q[i].act), i) /\ InRQ(q, Key(q[i].act), j) => i = j

(* The keys: a slot of a cache, or an operation of a core.                 *)
SlotKeys == UNION {{c} \X Banks(c) \X (0 .. MSHR_size[c] - 1) : c \in Caches}
OpKeys(o) == {NoCache} \X {0} \X (1 .. Len(o))
Keys(o) == SlotKeys \cup OpKeys(o)
KeySet(act) == IF Asks(act) THEN {Key(act)} ELSE {}

(* Where a request for k is kept while it waits: P are the pipes, M the    *)
(* MSHRs, q the memory controller's queue, o the operations.               *)
Place(o, k) == IF k[1] = NoCache THEN o[k[3]].core ELSE LLC
Wanted(P, M, q, o, k) ==
    IF k[1] = LLC THEN AskedRQ(q, k)
    ELSE Asked(P[Place(o, k)], M[Place(o, k)], Banks(Place(o, k)), k)

(* The slot or the operation is still without an answer.                   *)
Outstanding(M, o, k) == IF k[1] = NoCache THEN o[k[3]].answers = 0 ELSE Waits(M[k[1]][k[2]], k[3])

(* An operation that was squashed need not be answered.                    *)
Binding(o, k) == k[1] = NoCache => o[k[3]].live

(* Whoever waits is waited for in one place; of X, in none for the moment. *)
Linked(P, M, q, o, X) ==
    /\ \A c \in Caches : Single(P[c], M[c], Banks(c))
    /\ SingleRQ(q)
    /\ \A k \in Keys(o) :
         /\ k \in X => ~Wanted(P, M, q, o, k)
         /\ Binding(o, k) => IF k \in X THEN Outstanding(M, o, k)
                             ELSE Wanted(P, M, q, o, k) <=> Outstanding(M, o, k)

(* An access or an entry of a private cache belongs to one of its core's   *)
(* operations, if to any.                                                  *)
ActOwned(o, c, act) == c \in L1s /\ act.op # NoOp => act.op \in 1 .. Len(o) /\ o[act.op].core = c

(* The accesses p and the MSHRs M of cache c, with their counters N.       *)
PipeOK(o, c, p) ==
    p \in Seq(Access) /\ \A i \in 1 .. Len(p) : Routed(c, p[i].act) /\ ActOwned(o, c, p[i].act)
OwnedBank(o, c, m) == \A i \in 1 .. Len(m) : ActOwned(o, c, m[i].act)
MSHROK(o, c, M, N) ==
    \A b \in Banks(c) : BankOK(c, b, M[b], N[b]) /\ OwnedBank(o, c, M[b])
QueueOK(q) ==
    /\ q \in Seq(MemRequest)
    /\ \A i \in 1 .. Len(q) : /\ q[i].act.prev = LLC /\ q[i].act.bank \in Banks(LLC)
                              /\ q[i].act.index \in 0 .. MSHR_size[LLC] - 1
OpsOK(o) == o \in Seq(Operation) /\ \A i \in 1 .. Len(o) : o[i].live => o[i].answers \in {0, 1}

Sound(P, M, N, q, o) ==
    /\ On(P, Caches) /\ Banked(M) /\ Banked(N)
    /\ \A c \in Caches : PipeOK(o, c, P[c]) /\ MSHROK(o, c, M[c], N[c])
    /\ QueueOK(q)
    /\ OpsOK(o)

Good(P, M, N, q, o, X) == Sound(P, M, N, q, o) /\ Linked(P, M, q, o, X)

-----------------------------------------------------------------------------
(* Which flags are up, also in the middle of a cycle.                      *)

(* The flags an entry needs, and a cache with accesses p, fills f and      *)
(* MSHRs M.                                                                *)
EntryNeeds(e, x) ==
    \/ x = "MSHR_fill" /\ e.type = "MISS" /\ e.returned # Never
    \/ x = "MSHR" /\ e.type = "MISS" /\ ~e.started
    \/ x = "MSHR_WB" /\ e.type = "WRITEBACK" /\ (~e.started \/ e.returned # Never)
BankNeeds(m, x) == \E i \in 1 .. Len(m) : EntryNeeds(m[i], x)
Flagged(p, f, M, B, w) ==
    /\ p # <<>> => "pipe" \in w
    /\ f # <<>> => "fill" \in w
    /\ \A b \in B : \A x \in Flags : BankNeeds(M[b], x) => x \in w

(* No entry of the bank waits to be sent up as a writeback.                *)
NoneToSend(m) == \A i \in 1 .. Len(m) : m[i].type = "WRITEBACK" => m[i].started

(* What a pass that has found nothing so far has established.              *)
PassOK(t, M, N) ==
    t.cache # NoCache =>
      /\ t.turn \in 1 .. Turns(t.cache, Passes[t.pass])
      /\ t.pass = 1 /\ ~t.found =>
           \A b \in Banks(t.cache) : b < t.turn - 1 => NoneToSend(M[t.cache][b])
      /\ t.pass = 2 /\ ~t.found => \A b \in Banks(t.cache) : NoneToSend(M[t.cache][b])
      /\ t.pass = 3 /\ ~t.found =>
           \A b \in Banks(t.cache) : b < t.turn - 1 => N[t.cache][b].fill = 0

FlagsOK(P, F, M, W) ==
    /\ On(W, Caches) /\ \A c \in Caches : W[c] \in SUBSET Flags
    /\ \A c \in Caches : Flagged(P[c], F[c], M[c], Banks(c), W[c])

FlagInv == FlagsOK(pipe, fill, MSHR, work) /\ PassOK(pc, MSHR, num)

IInv == ArrayInv /\ Good(pipe, MSHR, num, RQ, op, {}) /\ FlagInv

-----------------------------------------------------------------------------
(* Functions with one value changed.                                       *)

LEMMA Levels == /\ LLC \in Caches /\ NoCache \notin Caches /\ MC \notin Caches
                /\ LLC \notin L1s /\ NoCache \notin L1s
                /\ \A c \in L1s : c \in Caches /\ c # LLC /\ next_level[c] = LLC
                /\ \A c \in Caches : c = LLC \/ c \in L1s
                /\ next_level[LLC] = MC /\ LLC # MC
<1>1. LLC # NoCache /\ LLC # MC /\ MC # NoCache
    BY DEF LLC, MC, NoCache
<1>2. LLC \notin L1s /\ MC \notin L1s /\ NoCache \notin L1s
    BY LevelsAssumption
<1> HIDE DEF LLC, MC, NoCache
<1> QED
    BY <1>1, <1>2 DEF Caches, next_level

LEMMA BankTypes ==
    ASSUME NEW c \in Caches
    PROVE  /\ MSHR_banks[c] \in Nat \ {0} /\ Sets[c] \in Nat \ {0} /\ Assoc[c] \in Nat \ {0}
           /\ MSHR_size[c] \in Nat /\ MSHR_WB_size[c] \in Nat /\ MSHR_WB_size[c] < MSHR_size[c]
           /\ latency[c] \in Nat \ {0} /\ PFF_size[c] \in Nat /\ PF_buffer_size[c] \in Nat
           /\ \A a \in Blocks : BankOf(c, a) \in Banks(c) /\ SetOf(c, a) \in 0 .. Sets[c] - 1
<1>1. /\ MSHR_banks[c] \in Nat \ {0} /\ Sets[c] \in Nat \ {0} /\ Assoc[c] \in Nat \ {0}
      /\ MSHR_size[c] \in Nat /\ MSHR_WB_size[c] \in Nat /\ MSHR_WB_size[c] < MSHR_size[c]
      /\ latency[c] \in Nat \ {0} /\ PFF_size[c] \in Nat /\ PF_buffer_size[c] \in Nat
    BY SizesAssumption DEF Pos
<1>2. \A a, n \in Nat : n # 0 => a % n \in 0 .. n - 1
    OBVIOUS
<1>3. ASSUME NEW a \in Blocks PROVE BankOf(c, a) \in Banks(c) /\ SetOf(c, a) \in 0 .. Sets[c] - 1
    <2>1. a \in Nat
        BY RequestsAssumption
    <2> QED
        BY <1>1, <1>2, <2>1 DEF BankOf, SetOf, Banks
<1> QED
    BY <1>1, <1>3

(* g is f with v at c.                                                     *)
Changed(f, g, S, c, v) == On(g, S) /\ g[c] = v /\ \A x \in S : x # c => g[x] = f[x]

LEMMA ChangedIs ==
    ASSUME NEW S, NEW f, On(f, S), NEW c \in S, NEW v, NEW g, g = [f EXCEPT ![c] = v]
    PROVE  Changed(f, g, S, c, v)
    BY DEF On, Changed

(* N is M with v in bank b of cache c.                                     *)
BankChanged(M, N, c, b, v) ==
    /\ Banked(N) /\ N[c][b] = v
    /\ \A y \in Banks(c) : y # b => N[c][y] = M[c][y]
    /\ \A x \in Caches : x # c => N[x] = M[x]

LEMMA BankChangedIs ==
    ASSUME NEW M, Banked(M), NEW c \in Caches, NEW b \in Banks(c), NEW v,
           NEW N, N = [M EXCEPT ![c][b] = v]
    PROVE  BankChanged(M, N, c, b, v)
<1> DEFINE f == [M[c] EXCEPT ![b] = v]
<1>1. N = [M EXCEPT ![c] = f]
    OBVIOUS
<1>2. Changed(M[c], f, Banks(c), b, v)
    BY ChangedIs, Zenon DEF Banked
<1> HIDE DEF f
<1>3. Changed(M, N, Caches, c, f)
    BY <1>1, ChangedIs, Zenon DEF Banked
<1> QED
    BY <1>2, <1>3 DEF Changed, BankChanged, Banked

-----------------------------------------------------------------------------
(* Counting the places of a sequence.                                      *)

LEMMA PlacesFinite ==
    ASSUME NEW L \in Nat, NEW I \in SUBSET (1 .. L)
    PROVE  IsFiniteSet(I) /\ Cardinality(I) \in Nat
<1>1. IsFiniteSet(1 .. L)
    BY FS_Interval
<1>2. IsFiniteSet(I)
    BY <1>1, FS_Subset, Zenon
<1> QED
    BY <1>2, FS_CardinalityType

LEMMA PlaceAdded ==
    ASSUME NEW L \in Nat, NEW I \in SUBSET (1 .. L)
    PROVE  Cardinality(I \cup {L + 1}) = Cardinality(I) + 1
<1>1. IsFiniteSet(I) /\ L + 1 \notin I
    BY PlacesFinite
<1> QED
    BY <1>1, FS_AddElement

LEMMA PlaceTaken ==
    ASSUME NEW L \in Nat, NEW I \in SUBSET (1 .. L), NEW i \in I
    PROVE  Cardinality(I \ {i}) = Cardinality(I) - 1
<1>1. IsFiniteSet(I)
    BY PlacesFinite
<1> QED
    BY <1>1, FS_RemoveElement

(* The places I of a sequence of length L are J after its k-th element     *)
(* has left.                                                               *)
Closed(L, I, J, k) == \A j \in 1 .. L - 1 : j \in J <=> Skip(k, j) \in I

LEMMA PlaceLeft ==
    ASSUME NEW L \in Nat, NEW I \in SUBSET (1 .. L), NEW k \in 1 .. L,
           NEW J \in SUBSET (1 .. L - 1), Closed(L, I, J, k)
    PROVE  /\ k \notin I => Cardinality(J) = Cardinality(I)
           /\ k \in I => Cardinality(J) = Cardinality(I) - 1
<1> DEFINE K == I \ {k}
           f == [j \in J |-> Skip(k, j)]
<1>1. IsFiniteSet(I) /\ IsFiniteSet(K) /\ IsFiniteSet(J)
    <2>1. L - 1 \in Nat /\ K \in SUBSET (1 .. L)
        OBVIOUS
    <2> QED
        BY <2>1, PlacesFinite
<1>2. \A j \in 1 .. L - 1 : Skip(k, j) # k /\ \A l \in 1 .. L - 1 : Skip(k, j) = Skip(k, l) => j = l
    BY DEF Skip
<1>3. f \in [J -> K]
    BY <1>2 DEF Closed
<1>4. \A j, l \in J : f[j] = f[l] => j = l
    BY <1>2
<1>5. \A i \in K : \E j \in J : f[j] = i
    <2>1. ASSUME NEW i \in K PROVE \E j \in J : f[j] = i
        <3>1. CASE i < k
            <4>1. i \in 1 .. L - 1 /\ Skip(k, i) = i
                BY <3>1 DEF Skip
            <4> QED
                BY <4>1 DEF Closed
        <3>2. CASE ~(i < k)
            <4>1. i - 1 \in 1 .. L - 1 /\ Skip(k, i - 1) = i
                BY <3>2 DEF Skip
            <4> QED
                BY <4>1 DEF Closed
        <3> QED
            BY <3>1, <3>2
    <2> QED
        BY <2>1
<1> HIDE DEF f
<1>6. f \in Bijection(J, K)
    BY <1>3, <1>4, <1>5 DEF Bijection, Injection, Surjection, IsInjective
<1>7. Cardinality(J) = Cardinality(K)
    <2>1. ExistsBijection(J, K)
        BY <1>6 DEF ExistsBijection
    <2> QED
        BY <1>1, <2>1, FS_Bijection
<1>8. Cardinality(K) = IF k \in I THEN Cardinality(I) - 1 ELSE Cardinality(I)
    BY <1>1, FS_RemoveElement
<1> QED
    BY <1>7, <1>8

-----------------------------------------------------------------------------
(* What a step may do to one bank of MSHRs.                                *)

(* Entries move on but keep slot, type and action.                         *)
Kept(m, r) ==
    /\ r \in Seq(Slot) /\ Len(r) = Len(m)
    /\ \A i \in 1 .. Len(m) : r[i].slot = m[i].slot /\ r[i].type = m[i].type /\ r[i].act = m[i].act

LEMMA SlotFields ==
    ASSUME NEW e \in Slot
    PROVE  /\ e.slot \in Nat /\ e.type \in {"MISS", "WRITEBACK"} /\ e.act \in Act
           /\ e.started \in BOOLEAN /\ e.returned \in 0 .. Never
    BY DEF Slot

LEMMA StartedEntry ==
    ASSUME NEW e \in Slot
    PROVE  LET f == [e EXCEPT !.started = TRUE]
           IN  /\ f \in Slot /\ f.slot = e.slot /\ f.type = e.type /\ f.act = e.act
               /\ f.started = TRUE /\ f.returned = e.returned
    BY DEF Slot

LEMMA ReturnedEntry ==
    ASSUME NEW e \in Slot, NEW d \in 0 .. Never
    PROVE  LET f == [e EXCEPT !.returned = d]
           IN  /\ f \in Slot /\ f.slot = e.slot /\ f.type = e.type /\ f.act = e.act
               /\ f.started = e.started /\ f.returned = d
    BY DEF Slot

LEMMA LessIs ==
    ASSUME NEW t \in 0 .. Never
    PROVE  Less(t) \in 0 .. Never /\ (Less(t) = Never <=> t = Never)
    BY DEF Less, Never

LEMMA SlotsTyped ==
    ASSUME NEW m \in Seq(Slot), NEW i \in 1 .. Len(m)
    PROVE  m[i] \in Slot
    OBVIOUS

(* Entry i of m is sent up.                                                *)
SentUp(m, r, i) ==
    /\ Kept(m, r) /\ r[i].started = TRUE /\ r[i].returned = m[i].returned
    /\ \A j \in 1 .. Len(m) : j # i => r[j] = m[j]

LEMMA SentUpIs ==
    ASSUME NEW m \in Seq(Slot), NEW i \in 1 .. Len(m), NEW r, r = [m EXCEPT ![i].started = TRUE]
    PROVE  SentUp(m, r, i)
<1> DEFINE e == [m[i] EXCEPT !.started = TRUE]
<1>1. r = [m EXCEPT ![i] = e]
    OBVIOUS
<1>2. /\ e \in Slot /\ e.slot = m[i].slot /\ e.type = m[i].type /\ e.act = m[i].act
      /\ e.started = TRUE /\ e.returned = m[i].returned
    BY SlotsTyped, StartedEntry
<1> HIDE DEF e
<1>3. r \in Seq(Slot) /\ Put(m, r, i, e)
    BY <1>1, <1>2, PutIs, Zenon
<1> QED
    BY <1>2, <1>3 DEF SentUp, Kept, Put

(* The entry of the slot gets its answer.                                  *)
AnswerIn(m, r, slot) ==
    /\ Kept(m, r)
    /\ \A i \in 1 .. Len(m) :
         /\ r[i].started = m[i].started
         /\ m[i].slot # slot => r[i] = m[i]
         /\ m[i].slot = slot => r[i].returned # Never

LEMMA AnswerInIs ==
    ASSUME NEW m \in Seq(Slot), NEW slot, NEW d \in 0 .. Never - 1
    PROVE  AnswerIn(m, Arrived(m, slot, d), slot)
<1> DEFINE r == Arrived(m, slot, d)
           e(i) == [m[i] EXCEPT !.returned = d]
<1>1. d \in 0 .. Never /\ d # Never
    BY DEF Never
<1>2. ASSUME NEW i \in 1 .. Len(m)
      PROVE  /\ e(i) \in Slot /\ e(i).slot = m[i].slot /\ e(i).type = m[i].type /\ e(i).act = m[i].act
             /\ e(i).started = m[i].started /\ e(i).returned = d
    BY <1>1, SlotsTyped, ReturnedEntry
<1>3. r = [i \in 1 .. Len(m) |-> IF m[i].slot = slot THEN e(i) ELSE m[i]]
    BY DEF Arrived
<1> HIDE DEF e, r
<1>4. \A i \in 1 .. Len(m) : r[i] \in Slot /\ r[i] = IF m[i].slot = slot THEN e(i) ELSE m[i]
    BY <1>2, <1>3, SlotsTyped
<1>5. r \in Seq(Slot) /\ Len(r) = Len(m)
    <2>1. r \in [1 .. Len(m) -> Slot] /\ Len(m) \in Nat
        BY <1>3, <1>4
    <2> QED
        BY <2>1
<1>6. AnswerIn(m, r, slot)
    BY <1>1, <1>2, <1>4, <1>5 DEF AnswerIn, Kept
<1> QED
    BY <1>6 DEF r

(* Time passes in the bank.                                                *)
Older(m, r) ==
    /\ Kept(m, r)
    /\ \A i \in 1 .. Len(m) : /\ r[i].started = m[i].started
                              /\ r[i].returned = Never <=> m[i].returned = Never

LEMMA OlderIs ==
    ASSUME NEW m \in Seq(Slot),
           NEW r, r = [i \in 1 .. Len(m) |-> [m[i] EXCEPT !.returned = Less(@)]]
    PROVE  Older(m, r)
<1> DEFINE e(i) == [m[i] EXCEPT !.returned = Less(m[i].returned)]
<1>1. ASSUME NEW i \in 1 .. Len(m)
      PROVE  /\ e(i) \in Slot /\ e(i).slot = m[i].slot /\ e(i).type = m[i].type /\ e(i).act = m[i].act
             /\ e(i).started = m[i].started /\ (e(i).returned = Never <=> m[i].returned = Never)
    <2>1. m[i] \in Slot /\ m[i].returned \in 0 .. Never
        BY SlotsTyped, SlotFields
    <2>2. Less(m[i].returned) \in 0 .. Never /\ (Less(m[i].returned) = Never <=> m[i].returned = Never)
        BY <2>1, LessIs
    <2> QED
        BY <2>1, <2>2, ReturnedEntry
<1>2. r = [i \in 1 .. Len(m) |-> e(i)]
    OBVIOUS
<1> HIDE DEF e
<1>3. \A i \in 1 .. Len(m) : r[i] = e(i)
    BY <1>2
<1>4. r \in Seq(Slot) /\ Len(r) = Len(m)
    <2>1. r \in [1 .. Len(m) -> Slot] /\ Len(m) \in Nat
        BY <1>1, <1>2
    <2> QED
        BY <2>1
<1> QED
    BY <1>1, <1>3, <1>4 DEF Older, Kept

(* Entries move on, and the counters with them.                            *)
LEMMA KeptOK ==
    ASSUME NEW c, NEW b, NEW m, NEW n, NEW r, BankOK(c, b, m, n), Kept(m, r),
           \A i \in 1 .. Len(m) : r[i].returned # Never => r[i].started,
           NEW k \in Counters, k.miss = n.miss, k.fill = n.fill, k.wb = n.wb, k.pf = n.pf,
           k.unprocessed = Cardinality(Unsents(r))
    PROVE  BankOK(c, b, r, k)
<1>1. Len(r) = Len(m) /\ Len(m) \in Nat
    BY DEF BankOK, Kept
<1>2. Misses(r) = Misses(m) /\ Writebacks(r) = Writebacks(m) /\ Prefetches(r) = Prefetches(m)
    BY <1>1 DEF Kept, Misses, Writebacks, Prefetches
<1>3. \A i \in 1 .. Len(r) : EntryOK(c, b, r[i])
    BY <1>1 DEF Kept, BankOK, EntryOK
<1>4. \A i, j \in 1 .. Len(r) : r[i].slot = r[j].slot => i = j
    BY <1>1 DEF Kept, BankOK
<1>5. Counted(r, k)
    BY <1>2 DEF Counted, BankOK
<1> QED
    BY <1>3, <1>4, <1>5 DEF BankOK, Kept

LEMMA OlderOK ==
    ASSUME NEW c, NEW b, NEW m, NEW n, NEW r, BankOK(c, b, m, n), Older(m, r)
    PROVE  BankOK(c, b, r, n)
<1>1. Kept(m, r) /\ Len(r) = Len(m)
    BY DEF Older, Kept
<1>2. Unsents(r) = Unsents(m)
    BY <1>1 DEF Older, Kept, Unsents
<1>3. \A i \in 1 .. Len(m) : r[i].returned # Never => r[i].started
    BY DEF Older, BankOK, EntryOK
<1>4. n \in Counters /\ n.unprocessed = Cardinality(Unsents(r))
    BY <1>2 DEF BankOK, Counted
<1> QED
    BY <1>1, <1>3, <1>4, KeptOK, Zenon

LEMMA AnswerInOK ==
    ASSUME NEW c, NEW b, NEW m, NEW n, NEW r, NEW s, BankOK(c, b, m, n), AnswerIn(m, r, s),
           Waits(m, s)
    PROVE  BankOK(c, b, r, n)
<1>1. Kept(m, r) /\ Len(r) = Len(m)
    BY DEF AnswerIn, Kept
<1>2. Unsents(r) = Unsents(m)
    BY <1>1 DEF AnswerIn, Kept, Unsents
<1>3. \A i \in 1 .. Len(m) : r[i].returned # Never => r[i].started
    <2>1. PICK w \in 1 .. Len(m) : m[w].slot = s /\ m[w].started
        BY DEF Waits
    <2>2. ASSUME NEW i \in 1 .. Len(m), r[i].returned # Never PROVE r[i].started
        <3>1. CASE m[i].slot = s
            <4>1. i = w
                BY <2>1, <3>1 DEF BankOK
            <4> QED
                BY <2>1, <4>1 DEF AnswerIn
        <3>2. CASE m[i].slot # s
            BY <2>2, <3>2 DEF AnswerIn, BankOK, EntryOK
        <3> QED
            BY <3>1, <3>2
    <2> QED
        BY <2>2
<1>4. n \in Counters /\ n.unprocessed = Cardinality(Unsents(r))
    BY <1>2 DEF BankOK, Counted
<1> QED
    BY <1>1, <1>3, <1>4, KeptOK, Zenon

(* The counters of the bank when a miss is sent up.                        *)
MissSent(n) == [n EXCEPT !.unprocessed = @ - 1]

LEMMA SentUpOK ==
    ASSUME NEW c, NEW b, NEW m, NEW n, NEW r, NEW i \in 1 .. Len(m), BankOK(c, b, m, n),
           SentUp(m, r, i), ~m[i].started,
           NEW k, k = IF m[i].type = "MISS" THEN MissSent(n) ELSE n
    PROVE  BankOK(c, b, r, k)
<1>1. Kept(m, r) /\ Len(r) = Len(m) /\ Len(m) \in Nat /\ m \in Seq(Slot)
    BY DEF SentUp, Kept, BankOK
<1>2. \A j \in 1 .. Len(m) : r[j].returned # Never => r[j].started
    BY DEF SentUp, BankOK, EntryOK
<1>3. n \in Counters /\ n.unprocessed = Cardinality(Unsents(m))
    BY DEF BankOK, Counted
<1>4. CASE m[i].type = "MISS"
    <2>1. Unsents(r) = Unsents(m) \ {i} /\ i \in Unsents(m)
        BY <1>1, <1>4 DEF SentUp, Kept, Unsents
    <2>2. Unsents(m) \in SUBSET (1 .. Len(m))
        BY DEF Unsents
    <2>3. Cardinality(Unsents(r)) = Cardinality(Unsents(m)) - 1
        BY <1>1, <2>1, <2>2, PlaceTaken, Zenon
    <2>4. Cardinality(Unsents(r)) \in Nat
        <3>1. Unsents(r) \in SUBSET (1 .. Len(m))
            BY <2>1, <2>2
        <3> QED
            BY <1>1, <3>1, PlacesFinite, Zenon
    <2>5. k = MissSent(n)
        BY <1>4
    <2>6. k \in Counters /\ k.miss = n.miss /\ k.fill = n.fill /\ k.wb = n.wb /\ k.pf = n.pf
          /\ k.unprocessed = Cardinality(Unsents(r))
        <3>1. n.unprocessed - 1 \in Nat /\ n.unprocessed - 1 = Cardinality(Unsents(r))
            BY <1>3, <2>3, <2>4
        <3> QED
            BY <1>3, <2>5, <3>1 DEF MissSent, Counters
    <2> QED
        BY <1>1, <1>2, <2>6, KeptOK, Zenon
<1>5. CASE m[i].type # "MISS"
    <2>1. Unsents(r) = Unsents(m)
        BY <1>1, <1>5 DEF SentUp, Kept, Unsents
    <2> QED
        BY <1>1, <1>2, <1>3, <1>5, <2>1, KeptOK, Zenon
<1> QED
    BY <1>4, <1>5

(* An entry is taken out, and MSHR_deallocate counts it off.               *)
LEMMA TakenOutOK ==
    ASSUME NEW c \in Caches, NEW b, NEW m, NEW n, NEW i \in 1 .. Len(m), BankOK(c, b, m, n), m[i].started,
           NEW r, r = RemoveAt(m, i), NEW k, k = MSHR_deallocate(n, m[i])
    PROVE  BankOK(c, b, r, k)
<1>1. m \in Seq(Slot) /\ Len(m) \in Nat /\ n \in Counters /\ m[i] \in Slot
    BY DEF BankOK
<1>2. r \in Seq(Slot) /\ Removed(m, r, i)
    BY <1>1, RemoveAtIs, Zenon
<1>3. Len(r) = Len(m) - 1
    BY <1>2 DEF Removed
<1>4. \A j \in 1 .. Len(r) : Skip(i, j) \in 1 .. Len(m) /\ r[j] = m[Skip(i, j)]
    BY <1>2, <1>3 DEF Removed
<1>5. \A j \in 1 .. Len(r) : EntryOK(c, b, r[j])
    BY <1>4 DEF BankOK
<1>6. \A j, l \in 1 .. Len(r) : r[j].slot = r[l].slot => j = l
    <2>1. ASSUME NEW j \in 1 .. Len(r), NEW l \in 1 .. Len(r), r[j].slot = r[l].slot PROVE j = l
        <3>1. Skip(i, j) = Skip(i, l)
            <4>1. /\ Skip(i, j) \in 1 .. Len(m) /\ Skip(i, l) \in 1 .. Len(m)
                  /\ m[Skip(i, j)].slot = m[Skip(i, l)].slot
                BY <1>4, <2>1
            <4>2. \A x, y \in 1 .. Len(m) : m[x].slot = m[y].slot => x = y
                BY DEF BankOK
            <4> QED
                BY <4>1, <4>2, Zenon
        <3> QED
            BY <1>2, <1>3, <3>1 DEF Removed
    <2> QED
        BY <2>1
<1>7. /\ Misses(m) \in SUBSET (1 .. Len(m)) /\ Misses(r) \in SUBSET (1 .. Len(m) - 1)
      /\ Writebacks(m) \in SUBSET (1 .. Len(m)) /\ Writebacks(r) \in SUBSET (1 .. Len(m) - 1)
      /\ Unsents(m) \in SUBSET (1 .. Len(m)) /\ Unsents(r) \in SUBSET (1 .. Len(m) - 1)
      /\ Prefetches(m) \in SUBSET (1 .. Len(m)) /\ Prefetches(r) \in SUBSET (1 .. Len(m) - 1)
    BY <1>3 DEF Misses, Writebacks, Unsents, Prefetches
<1>8. Closed(Len(m), Misses(m), Misses(r), i)
    BY <1>3, <1>4 DEF Misses, Closed
<1>9. Closed(Len(m), Writebacks(m), Writebacks(r), i)
    BY <1>3, <1>4 DEF Writebacks, Closed
<1>10. Closed(Len(m), Unsents(m), Unsents(r), i)
    BY <1>3, <1>4 DEF Unsents, Closed
<1>11. Closed(Len(m), Prefetches(m), Prefetches(r), i)
    BY <1>3, <1>4 DEF Prefetches, Closed
<1>12. Cardinality(Misses(r)) = IF m[i].type = "MISS" THEN Cardinality(Misses(m)) - 1 ELSE Cardinality(Misses(m))
    <2>1. i \in Misses(m) <=> m[i].type = "MISS"
        BY DEF Misses
    <2>2. Len(m) \in Nat /\ Misses(m) \in SUBSET (1 .. Len(m)) /\ Misses(r) \in SUBSET (1 .. Len(m) - 1)
        BY <1>1, <1>7
    <2> QED
        BY <1>8, <2>1, <2>2, PlaceLeft, Zenon
<1>13. Cardinality(Writebacks(r)) = IF m[i].type = "WRITEBACK" THEN Cardinality(Writebacks(m)) - 1
                                   ELSE Cardinality(Writebacks(m))
    <2>1. i \in Writebacks(m) <=> m[i].type = "WRITEBACK"
        BY DEF Writebacks
    <2>2. Len(m) \in Nat /\ Writebacks(m) \in SUBSET (1 .. Len(m)) /\ Writebacks(r) \in SUBSET (1 .. Len(m) - 1)
        BY <1>1, <1>7
    <2> QED
        BY <1>9, <2>1, <2>2, PlaceLeft, Zenon
<1>14. Cardinality(Unsents(r)) = Cardinality(Unsents(m))
    <2>1. i \notin Unsents(m)
        BY DEF Unsents
    <2>2. Len(m) \in Nat /\ Unsents(m) \in SUBSET (1 .. Len(m)) /\ Unsents(r) \in SUBSET (1 .. Len(m) - 1)
        BY <1>1, <1>7
    <2> QED
        BY <1>10, <2>1, <2>2, PlaceLeft, Zenon
<1>15. Cardinality(Prefetches(r)) = IF m[i].act.cmd = "PREFETCH" THEN Cardinality(Prefetches(m)) - 1
                                   ELSE Cardinality(Prefetches(m))
    <2>1. i \in Prefetches(m) <=> m[i].act.cmd = "PREFETCH"
        BY DEF Prefetches
    <2>2. Len(m) \in Nat /\ Prefetches(m) \in SUBSET (1 .. Len(m)) /\ Prefetches(r) \in SUBSET (1 .. Len(m) - 1)
        BY <1>1, <1>7
    <2> QED
        BY <1>11, <2>1, <2>2, PlaceLeft, Zenon
<1>16. /\ Cardinality(Misses(r)) \in Nat /\ Cardinality(Writebacks(r)) \in Nat
       /\ Cardinality(Unsents(r)) \in Nat /\ Cardinality(Prefetches(r)) \in Nat
    <2>1. Len(m) - 1 \in Nat
        BY <1>1
    <2> QED
        BY <1>7, <2>1, PlacesFinite, Zenon
<1>17. /\ k.miss = Cardinality(Misses(r)) /\ k.fill = Cardinality(Misses(r))
       /\ k.wb = Cardinality(Writebacks(r)) /\ k.unprocessed = Cardinality(Unsents(r))
       /\ k.pf = Cardinality(Prefetches(r))
    <2>1. Counted(m, n)
        BY DEF BankOK
    <2>2. k.miss = IF m[i].type = "MISS" THEN n.miss - 1 ELSE n.miss
        BY <1>1 DEF MSHR_deallocate, Counters
    <2>3. k.fill = IF m[i].type = "MISS" THEN n.fill - 1 ELSE n.fill
        BY <1>1 DEF MSHR_deallocate, Counters
    <2>4. k.wb = IF m[i].type = "WRITEBACK" THEN n.wb - 1 ELSE n.wb
        BY <1>1 DEF MSHR_deallocate, Counters
    <2>5. k.pf = IF m[i].act.cmd = "PREFETCH" THEN n.pf - 1 ELSE n.pf
        BY <1>1 DEF MSHR_deallocate, Counters
    <2>6. k.unprocessed = n.unprocessed
        BY <1>1 DEF MSHR_deallocate, Counters
    <2> QED
        BY <1>12, <1>13, <1>14, <1>15, <2>1, <2>2, <2>3, <2>4, <2>5, <2>6 DEF Counted
<1>18. k \in Counters
    <2>1. DOMAIN k = DOMAIN n
        BY DEF MSHR_deallocate
    <2>2. k = [x \in {"miss", "wb", "fill", "unprocessed", "pf"} |-> k[x]]
        BY <1>1 DEF MSHR_deallocate, Counters
    <2> QED
        BY <1>16, <1>17, <2>2 DEF Counters
<1>19. k.miss <= MSHR_size[c] - MSHR_WB_size[c] /\ k.wb <= MSHR_WB_size[c]
    <2>1. k.miss <= n.miss /\ k.wb <= n.wb
        BY <1>1, <1>12, <1>13, <1>16, <1>17 DEF BankOK, Counted, Counters
    <2>2. /\ k.miss \in Nat /\ k.wb \in Nat /\ n.miss \in Nat /\ n.wb \in Nat
          /\ MSHR_WB_size[c] \in Nat /\ MSHR_size[c] - MSHR_WB_size[c] \in Int
        BY <1>1, <1>18, BankTypes DEF Counters
    <2>3. \A x, y, z \in Int : x <= y /\ y <= z => x <= z
        OBVIOUS
    <2> QED
        BY <2>1, <2>2, <2>3 DEF BankOK
<1> QED
    BY <1>2, <1>5, <1>6, <1>17, <1>18, <1>19 DEF BankOK, Counted

(* The slots of a bank that are free.                                      *)
SlotsOf(m) == {m[i].slot : i \in 1 .. Len(m)}

LEMMA BankLength ==
    ASSUME NEW c, NEW b, NEW m, NEW n, BankOK(c, b, m, n)
    PROVE  Len(m) = n.miss + n.wb
<1>1. m \in Seq(Slot) /\ Len(m) \in Nat
    BY DEF BankOK
<1>2. Misses(m) \in SUBSET (1 .. Len(m)) /\ Writebacks(m) \in SUBSET (1 .. Len(m))
    BY DEF Misses, Writebacks
<1>3. \A i \in 1 .. Len(m) : m[i].type \in {"MISS", "WRITEBACK"}
    BY <1>1, SlotsTyped, SlotFields
<1>4. Misses(m) \cup Writebacks(m) = 1 .. Len(m) /\ Misses(m) \cap Writebacks(m) = {}
    BY <1>3 DEF Misses, Writebacks
<1>5. IsFiniteSet(Misses(m)) /\ IsFiniteSet(Writebacks(m))
      /\ Cardinality(Misses(m)) \in Nat /\ Cardinality(Writebacks(m)) \in Nat
    BY <1>1, <1>2, PlacesFinite, Zenon
<1>6. Cardinality(1 .. Len(m)) = Len(m)
    BY <1>1, FS_Interval
<1>7. Cardinality({}) = 0
    BY FS_EmptySet
<1>8. Cardinality(Misses(m) \cup Writebacks(m))
      = Cardinality(Misses(m)) + Cardinality(Writebacks(m)) - Cardinality(Misses(m) \cap Writebacks(m))
    BY <1>5, FS_Union, Zenon
<1>9. Len(m) = Cardinality(Misses(m)) + Cardinality(Writebacks(m)) - 0
    BY <1>4, <1>6, <1>7, <1>8
<1>10. n.miss = Cardinality(Misses(m)) /\ n.wb = Cardinality(Writebacks(m))
    BY DEF BankOK, Counted
<1> QED
    BY <1>5, <1>9, <1>10

(* No two entries share a slot, so there are as many slots as entries.     *)
LEMMA SlotsCounted ==
    ASSUME NEW c, NEW b, NEW m, NEW n, BankOK(c, b, m, n)
    PROVE  IsFiniteSet(SlotsOf(m)) /\ Cardinality(SlotsOf(m)) = Len(m)
<1> DEFINE f == [i \in 1 .. Len(m) |-> m[i].slot]
<1>1. Len(m) \in Nat
    BY DEF BankOK
<1>2. IsFiniteSet(1 .. Len(m)) /\ Cardinality(1 .. Len(m)) = Len(m)
    <2> DEFINE L == Len(m)
    <2>1. L \in Nat
        BY <1>1
    <2> HIDE DEF L
    <2>2. IsFiniteSet(1 .. L) /\ Cardinality(1 .. L) = L
        BY <2>1, FS_Interval
    <2> QED
        BY <2>2 DEF L
<1>3. f \in Surjection(1 .. Len(m), SlotsOf(m))
    BY DEF Surjection, SlotsOf
<1>4. f \in Injection(1 .. Len(m), SlotsOf(m))
    <2>1. \A i, j \in 1 .. Len(m) : m[i].slot = m[j].slot => i = j
        BY DEF BankOK
    <2>2. f \in [1 .. Len(m) -> SlotsOf(m)]
        BY DEF SlotsOf
    <2>3. IsInjective(f)
        BY <2>1 DEF IsInjective
    <2> QED
        BY <2>2, <2>3 DEF Injection
<1> HIDE DEF f
<1> QED
    BY <1>2, <1>3, <1>4, FS_Surjection, Zenon

LEMMA FreeSlotExists ==
    ASSUME NEW c \in Caches, NEW b, NEW m, NEW n, BankOK(c, b, m, n), n.miss + n.wb < MSHR_size[c],
           NEW F, F = (0 .. MSHR_size[c] - 1) \ SlotsOf(m)
    PROVE  Min(F) \in 0 .. MSHR_size[c] - 1 /\ Min(F) \notin SlotsOf(m)
<1> DEFINE A == 0 .. MSHR_size[c] - 1
<1>1. MSHR_size[c] \in Nat
    BY BankTypes
<1>2. Cardinality(SlotsOf(m)) < MSHR_size[c] /\ IsFiniteSet(SlotsOf(m))
    BY BankLength, SlotsCounted
<1>3. Cardinality(A) = MSHR_size[c] /\ IsFiniteSet(A)
    BY <1>1, FS_Interval
<1>4. F # {}
    <2>1. SUFFICES ASSUME A \subseteq SlotsOf(m) PROVE FALSE
        OBVIOUS
    <2>2. Cardinality(A) <= Cardinality(SlotsOf(m))
        BY <1>2, <2>1, FS_Subset, Zenon
    <2>3. Cardinality(SlotsOf(m)) \in Nat
        BY <1>2, FS_CardinalityType
    <2> QED
        BY <1>1, <1>2, <1>3, <2>2, <2>3
<1>5. F \subseteq Nat /\ F \subseteq A /\ \A x \in F : x \notin SlotsOf(m)
    BY <1>1
<1> HIDE DEF A
<1>6. Min(F) \in F
    BY <1>4, <1>5, MinIsLeast, Zenon
<1> QED
    BY <1>5, <1>6 DEF A

(* The counters of a bank that takes a miss, or a writeback.               *)
MissCounted(n) == [n EXCEPT !.miss = @ + 1, !.fill = @ + 1, !.unprocessed = @ + 1]
MissAdded(n, pf) == IF pf THEN [MissCounted(n) EXCEPT !.pf = @ + 1] ELSE MissCounted(n)
WBAdded(n) == [n EXCEPT !.wb = @ + 1]

LEMMA MissAddedIs ==
    ASSUME NEW n \in Counters, NEW pf \in BOOLEAN
    PROVE  LET k == MissAdded(n, pf)
           IN  /\ k \in Counters
               /\ k.miss = n.miss + 1 /\ k.fill = n.fill + 1 /\ k.wb = n.wb
               /\ k.unprocessed = n.unprocessed + 1 /\ k.pf = IF pf THEN n.pf + 1 ELSE n.pf
<1> DEFINE k == MissCounted(n)
<1>3. /\ k \in Counters
      /\ k.miss = n.miss + 1 /\ k.fill = n.fill + 1 /\ k.wb = n.wb
      /\ k.unprocessed = n.unprocessed + 1 /\ k.pf = n.pf
    <2>1. /\ n.miss + 1 \in Nat /\ n.fill + 1 \in Nat /\ n.wb \in Nat /\ n.unprocessed + 1 \in Nat
          /\ n.pf \in Nat
        BY DEF Counters
    <2>2. k.miss = n.miss + 1
        BY DEF MissCounted, Counters
    <2>3. k.fill = n.fill + 1
        BY DEF MissCounted, Counters
    <2>4. k.unprocessed = n.unprocessed + 1
        BY DEF MissCounted, Counters
    <2>5. k.wb = n.wb /\ k.pf = n.pf
        BY DEF MissCounted, Counters
    <2>6. k = [x \in {"miss", "wb", "fill", "unprocessed", "pf"} |-> k[x]]
        BY DEF MissCounted, Counters
    <2> HIDE DEF k
    <2>7. k \in Counters
        BY <2>1, <2>2, <2>3, <2>4, <2>5, <2>6 DEF Counters
    <2> QED
        BY <2>2, <2>3, <2>4, <2>5, <2>7
<1> HIDE DEF k
<1>1. CASE pf
    <2>1. MissAdded(n, pf) = [k EXCEPT !.pf = @ + 1]
        BY <1>1 DEF MissAdded, k
    <2> DEFINE q == [k EXCEPT !.pf = @ + 1]
    <2>2. q.pf = n.pf + 1 /\ n.pf + 1 \in Nat
        BY <1>3 DEF Counters
    <2>3. q.miss = k.miss /\ q.fill = k.fill /\ q.wb = k.wb /\ q.unprocessed = k.unprocessed
        BY <1>3 DEF Counters
    <2>4. q \in Counters
        BY <1>3, <2>2 DEF Counters
    <2> HIDE DEF q
    <2>5. MissAdded(n, pf) = q
        BY <2>1 DEF q
    <2> QED
        BY <1>1, <1>3, <2>2, <2>3, <2>4, <2>5
<1>2. CASE ~pf
    <2>1. MissAdded(n, pf) = k
        BY <1>2 DEF MissAdded, k
    <2> QED
        BY <1>2, <1>3, <2>1
<1> QED
    BY <1>1, <1>2

(* e is the last entry of r, which it has joined in a free slot.           *)
Joined(c, b, m, r, e) ==
    /\ e \in Slot /\ EntryOK(c, b, e) /\ e.slot \notin SlotsOf(m)
    /\ e.started = FALSE /\ e.returned = Never
    /\ r = Append(m, e)

LEMMA JoinedOK ==
    ASSUME NEW c \in Caches, NEW b, NEW m, NEW n, BankOK(c, b, m, n), NEW e, NEW r, Joined(c, b, m, r, e),
           NEW k,
           \/ /\ e.type = "MISS" /\ n.miss < MSHR_size[c] - MSHR_WB_size[c]
              /\ k = MissAdded(n, e.act.cmd = "PREFETCH")
           \/ e.type = "WRITEBACK" /\ n.wb < MSHR_WB_size[c] /\ k = WBAdded(n)
    PROVE  BankOK(c, b, r, k)
<1> DEFINE L == Len(m)
<1>1. m \in Seq(Slot) /\ L \in Nat /\ n \in Counters /\ Counted(m, n)
    BY DEF BankOK
<1>2. r \in Seq(Slot) /\ Len(r) = L + 1 /\ r[L + 1] = e /\ \A i \in 1 .. L : r[i] = m[i]
    BY <1>1 DEF Joined
<1>3. 1 .. L + 1 = (1 .. L) \cup {L + 1} /\ L + 1 \notin 1 .. L
    BY <1>1
<1> HIDE DEF L
<1>4. \A i \in 1 .. L + 1 : EntryOK(c, b, r[i])
    BY <1>2, <1>3 DEF BankOK, Joined, L
<1>5. \A i, j \in 1 .. L + 1 : r[i].slot = r[j].slot => i = j
    <2>1. \A i, j \in 1 .. L : r[i].slot = r[j].slot => i = j
        BY <1>2 DEF BankOK, L
    <2>2. \A i \in 1 .. L : r[i].slot # e.slot
        BY <1>2 DEF Joined, SlotsOf, L
    <2> QED
        BY <1>2, <1>3, <2>1, <2>2
<1>6. /\ Misses(m) \in SUBSET (1 .. L) /\ Writebacks(m) \in SUBSET (1 .. L)
      /\ Unsents(m) \in SUBSET (1 .. L) /\ Prefetches(m) \in SUBSET (1 .. L)
    BY DEF Misses, Writebacks, Unsents, Prefetches, L
<1>7. Misses(r) = IF e.type = "MISS" THEN Misses(m) \cup {L + 1} ELSE Misses(m)
    BY <1>2, <1>3 DEF Misses, L
<1>8. Writebacks(r) = IF e.type = "WRITEBACK" THEN Writebacks(m) \cup {L + 1} ELSE Writebacks(m)
    BY <1>2, <1>3 DEF Writebacks, L
<1>9. Unsents(r) = IF e.type = "MISS" THEN Unsents(m) \cup {L + 1} ELSE Unsents(m)
    BY <1>2, <1>3 DEF Unsents, Joined, L
<1>10. Prefetches(r) = IF e.act.cmd = "PREFETCH" THEN Prefetches(m) \cup {L + 1} ELSE Prefetches(m)
    BY <1>2, <1>3 DEF Prefetches, L
<1>11. \A I \in SUBSET (1 .. L) : Cardinality(I \cup {L + 1}) = Cardinality(I) + 1 /\ Cardinality(I) \in Nat
    BY <1>1, PlaceAdded, PlacesFinite, Zenon
<1>12. /\ n.miss = Cardinality(Misses(m)) /\ n.fill = n.miss /\ n.wb = Cardinality(Writebacks(m))
       /\ n.unprocessed = Cardinality(Unsents(m)) /\ n.pf = Cardinality(Prefetches(m))
       /\ n.miss \in Nat /\ n.fill \in Nat /\ n.wb \in Nat /\ n.unprocessed \in Nat /\ n.pf \in Nat
    BY <1>1 DEF Counted, Counters
<1>13. MSHR_size[c] \in Nat /\ MSHR_WB_size[c] \in Nat
    BY BankTypes
<1>14. n.miss <= MSHR_size[c] - MSHR_WB_size[c] /\ n.wb <= MSHR_WB_size[c]
    BY DEF BankOK
<1>15. CASE e.type = "MISS"
    <2>1. k = MissAdded(n, e.act.cmd = "PREFETCH") /\ n.miss < MSHR_size[c] - MSHR_WB_size[c]
        BY <1>15
    <2>2. /\ k.miss = n.miss + 1 /\ k.fill = n.miss + 1 /\ k.wb = n.wb /\ k.unprocessed = n.unprocessed + 1
          /\ k.pf = IF e.act.cmd = "PREFETCH" THEN n.pf + 1 ELSE n.pf
        BY <1>1, <1>12, <2>1, MissAddedIs
    <2>3. k \in Counters
        BY <1>1, <2>1, MissAddedIs
    <2>4. Writebacks(r) = Writebacks(m)
        BY <1>8, <1>15
    <2>5. Counted(r, k)
        BY <1>6, <1>7, <1>9, <1>10, <1>11, <1>12, <1>15, <2>2, <2>4 DEF Counted
    <2>6. k.miss <= MSHR_size[c] - MSHR_WB_size[c] /\ k.wb <= MSHR_WB_size[c]
        BY <1>12, <1>13, <1>14, <2>1, <2>2
    <2> QED
        BY <1>2, <1>4, <1>5, <2>3, <2>5, <2>6 DEF BankOK
<1>16. CASE e.type = "WRITEBACK"
    <2>1. k = WBAdded(n) /\ n.wb < MSHR_WB_size[c]
        BY <1>16
    <2>2. /\ k.miss = n.miss /\ k.fill = n.miss /\ k.wb = n.wb + 1 /\ k.unprocessed = n.unprocessed
          /\ k.pf = n.pf
        BY <1>1, <1>12, <2>1 DEF WBAdded, Counters
    <2>3. k \in Counters
        BY <1>1, <1>12, <2>1 DEF WBAdded, Counters
    <2>4. /\ Misses(r) = Misses(m) /\ Unsents(r) = Unsents(m)
          /\ Writebacks(r) = Writebacks(m) \cup {L + 1}
        BY <1>7, <1>8, <1>9, <1>16
    <2>5. Prefetches(r) = Prefetches(m)
        BY <1>10, <1>16 DEF Joined, EntryOK
    <2>6. Counted(r, k)
        BY <1>6, <1>11, <1>12, <2>2, <2>4, <2>5 DEF Counted
    <2>7. k.miss <= MSHR_size[c] - MSHR_WB_size[c] /\ k.wb <= MSHR_WB_size[c]
        BY <1>12, <1>13, <1>14, <2>1, <2>2
    <2> QED
        BY <1>2, <1>4, <1>5, <2>3, <2>6, <2>7 DEF BankOK
<1> QED
    BY <1>15, <1>16

-----------------------------------------------------------------------------
(* What a step does to the requests of one cache, for one key k.           *)

SingleAt(p, M, B, k) ==
    /\ \A i, j \in 1 .. Len(p) : InPipe(p, k, i) /\ InPipe(p, k, j) => i = j
    /\ \A i \in 1 .. Len(p) : \A b \in B : \A j \in 1 .. Len(M[b]) :
         ~(InPipe(p, k, i) /\ InMSHR(M, B, k, b, j))
    /\ \A b, d \in B : \A i \in 1 .. Len(M[b]) : \A j \in 1 .. Len(M[d]) :
         InMSHR(M, B, k, b, i) /\ InMSHR(M, B, k, d, j) => b = d /\ i = j

LEMMA SingleEach ==
    ASSUME NEW p, NEW M, NEW B, Single(p, M, B), NEW k
    PROVE  SingleAt(p, M, B, k)
<1>1. \A i : InPipe(p, k, i) => k = Key(p[i].act)
    BY DEF InPipe, For
<1>2. \A b, i : InMSHR(M, B, k, b, i) => k = Key(M[b][i].act)
    BY DEF InMSHR, For
<1>3. \A i, j \in 1 .. Len(p) : InPipe(p, k, i) /\ InPipe(p, k, j) => i = j
    BY <1>1, Zenon DEF Single
<1>4. \A i \in 1 .. Len(p) : \A b \in B : \A j \in 1 .. Len(M[b]) :
         ~(InPipe(p, k, i) /\ InMSHR(M, B, k, b, j))
    BY <1>1 DEF Single
<1>5. \A b, d \in B : \A i \in 1 .. Len(M[b]) : \A j \in 1 .. Len(M[d]) :
         InMSHR(M, B, k, b, i) /\ InMSHR(M, B, k, d, j) => b = d /\ i = j
    BY <1>2 DEF Single
<1> QED
    BY <1>3, <1>4, <1>5 DEF SingleAt

LEMMA SingleAll ==
    ASSUME NEW p, NEW M, NEW B, \A k : SingleAt(p, M, B, k)
    PROVE  Single(p, M, B)
    BY Zenon DEF Single, SingleAt

(* Accesses and entries grow older, are sent or answered.                  *)
SameActs(p, q) == Len(q) = Len(p) /\ \A i \in 1 .. Len(p) : q[i].act = p[i].act

LEMMA SameAsked ==
    ASSUME NEW p, NEW q, NEW M, NEW N, NEW B, NEW k, SingleAt(p, M, B, k),
           SameActs(p, q), \A b \in B : Kept(M[b], N[b])
    PROVE  SingleAt(q, N, B, k) /\ (Asked(q, N, B, k) <=> Asked(p, M, B, k))
<1>1. Len(q) = Len(p) /\ \A b \in B : Len(N[b]) = Len(M[b])
    BY DEF SameActs, Kept
<1>2. \A i : InPipe(q, k, i) <=> InPipe(p, k, i)
    BY <1>1 DEF InPipe, SameActs
<1>3. \A b, i : InMSHR(N, B, k, b, i) <=> InMSHR(M, B, k, b, i)
    BY <1>1 DEF InMSHR, Kept
<1>4. SingleAt(q, N, B, k)
    BY <1>1, <1>2, <1>3 DEF SingleAt
<1>5. Asked(q, N, B, k) <=> Asked(p, M, B, k)
    BY <1>1, <1>2, <1>3 DEF Asked
<1> QED
    BY <1>4, <1>5

(* An access enters the pipe.                                              *)
LEMMA EnterAsked ==
    ASSUME NEW p \in Seq(Access), NEW x \in Access, NEW q, q = Append(p, x), NEW M, NEW B, NEW k,
           SingleAt(p, M, B, k), For(x.act, k) => ~Asked(p, M, B, k)
    PROVE  SingleAt(q, M, B, k) /\ (Asked(q, M, B, k) <=> Asked(p, M, B, k) \/ For(x.act, k))
<1> DEFINE L == Len(p)
<1>1. L \in Nat /\ Len(q) = L + 1 /\ q[L + 1] = x /\ \A i \in 1 .. L : q[i] = p[i]
    OBVIOUS
<1>2. 1 .. L + 1 = (1 .. L) \cup {L + 1} /\ L + 1 \notin 1 .. L
    BY <1>1
<1>3. \A i \in 1 .. L : InPipe(q, k, i) <=> InPipe(p, k, i)
    BY <1>1, <1>2 DEF InPipe
<1>4. InPipe(q, k, L + 1) <=> For(x.act, k)
    BY <1>1, <1>2 DEF InPipe
<1>5. Asked(q, M, B, k) <=> Asked(p, M, B, k) \/ For(x.act, k)
    BY <1>1, <1>2, <1>3, <1>4 DEF Asked
<1>6. SingleAt(q, M, B, k)
    <2>1. \A i, j \in 1 .. Len(q) : InPipe(q, k, i) /\ InPipe(q, k, j) => i = j
        BY <1>1, <1>2, <1>3, <1>4 DEF SingleAt, Asked
    <2>2. \A i \in 1 .. Len(q) : \A b \in B : \A j \in 1 .. Len(M[b]) :
            ~(InPipe(q, k, i) /\ InMSHR(M, B, k, b, j))
        BY <1>1, <1>2, <1>3, <1>4 DEF SingleAt, Asked
    <2> QED
        BY <2>1, <2>2 DEF SingleAt
<1> QED
    BY <1>5, <1>6

(* An access leaves it.                                                    *)
LEMMA LeaveAsked ==
    ASSUME NEW p \in Seq(Access), NEW l \in 1 .. Len(p), NEW q, q = RemoveAt(p, l), NEW M, NEW B, NEW k,
           SingleAt(p, M, B, k)
    PROVE  SingleAt(q, M, B, k) /\ (Asked(q, M, B, k) <=> Asked(p, M, B, k) /\ ~For(p[l].act, k))
<1>1. Removed(p, q, l)
    BY RemoveAtIs, Zenon
<1>2. Len(q) = Len(p) - 1
    BY <1>1 DEF Removed
<1>3. \A i \in 1 .. Len(q) : Skip(l, i) \in 1 .. Len(p) /\ Skip(l, i) # l /\ q[i] = p[Skip(l, i)]
    BY <1>1, <1>2 DEF Removed
<1>4. \A j \in 1 .. Len(p) : j # l => \E i \in 1 .. Len(q) : Skip(l, i) = j
    BY <1>1, <1>2 DEF Removed
<1>5. \A i, j \in 1 .. Len(q) : Skip(l, i) = Skip(l, j) => i = j
    BY <1>1, <1>2 DEF Removed
<1>6. \A i \in 1 .. Len(q) : InPipe(q, k, i) <=> InPipe(p, k, Skip(l, i))
    BY <1>3 DEF InPipe
<1>7. InPipe(p, k, l) <=> For(p[l].act, k)
    BY DEF InPipe
<1>8. SingleAt(q, M, B, k)
    <2>1. \A i, j \in 1 .. Len(q) : InPipe(q, k, i) /\ InPipe(q, k, j) => i = j
        BY <1>3, <1>5, <1>6 DEF SingleAt
    <2>2. \A i \in 1 .. Len(q) : \A b \in B : \A j \in 1 .. Len(M[b]) :
            ~(InPipe(q, k, i) /\ InMSHR(M, B, k, b, j))
        BY <1>3, <1>6 DEF SingleAt
    <2> QED
        BY <2>1, <2>2 DEF SingleAt
<1>9. Asked(q, M, B, k) => Asked(p, M, B, k)
    BY <1>3, <1>6 DEF Asked
<1>10. Asked(q, M, B, k) => ~For(p[l].act, k)
    <2>1. SUFFICES ASSUME InPipe(p, k, l), Asked(q, M, B, k) PROVE FALSE
        BY <1>7
    <2>2. CASE \E i \in 1 .. Len(q) : InPipe(q, k, i)
        BY <1>3, <1>6, <2>1, <2>2 DEF SingleAt
    <2>3. CASE \E b \in B : \E i \in 1 .. Len(M[b]) : InMSHR(M, B, k, b, i)
        BY <2>1, <2>3 DEF SingleAt
    <2> QED
        BY <2>1, <2>2, <2>3 DEF Asked
<1>11. ASSUME Asked(p, M, B, k), ~For(p[l].act, k) PROVE Asked(q, M, B, k)
    <2>1. CASE \E j \in 1 .. Len(p) : InPipe(p, k, j)
        <3>1. PICK j \in 1 .. Len(p) : InPipe(p, k, j)
            BY <2>1
        <3>2. j # l
            BY <1>7, <1>11, <3>1
        <3> QED
            BY <1>4, <1>6, <3>1, <3>2 DEF Asked
    <2>2. CASE \E b \in B : \E i \in 1 .. Len(M[b]) : InMSHR(M, B, k, b, i)
        BY <2>2 DEF Asked
    <2> QED
        BY <1>11, <2>1, <2>2 DEF Asked
<1> QED
    BY <1>8, <1>9, <1>10, <1>11

(* Only bank b changes.                                                    *)
OnlyBank(M, N, B, b) == \A y \in B : y # b => N[y] = M[y]

(* An entry joins bank b.                                                  *)
LEMMA JoinAsked ==
    ASSUME NEW p, NEW M, NEW N, NEW B, NEW b \in B, NEW e \in Slot, M[b] \in Seq(Slot), NEW k,
           N[b] = Append(M[b], e), OnlyBank(M, N, B, b), SingleAt(p, M, B, k),
           e.type = "MISS" /\ For(e.act, k) => ~Asked(p, M, B, k)
    PROVE  /\ SingleAt(p, N, B, k)
           /\ Asked(p, N, B, k) <=> Asked(p, M, B, k) \/ (e.type = "MISS" /\ For(e.act, k))
<1> DEFINE L == Len(M[b])
           new == e.type = "MISS" /\ For(e.act, k)
<1>1. L \in Nat /\ Len(N[b]) = L + 1 /\ N[b][L + 1] = e /\ \A i \in 1 .. L : N[b][i] = M[b][i]
    OBVIOUS
<1>2. 1 .. L + 1 = (1 .. L) \cup {L + 1} /\ L + 1 \notin 1 .. L
    BY <1>1
<1>3. \A y, i : InMSHR(N, B, k, y, i) <=> InMSHR(M, B, k, y, i) \/ (y = b /\ i = L + 1 /\ new)
    <2>1. ASSUME NEW y, NEW i
          PROVE  InMSHR(N, B, k, y, i) <=> InMSHR(M, B, k, y, i) \/ (y = b /\ i = L + 1 /\ new)
        <3>1. CASE y = b
            BY <1>1, <1>2, <3>1 DEF InMSHR
        <3>2. CASE y # b
            BY <3>2 DEF InMSHR, OnlyBank
        <3> QED
            BY <3>1, <3>2
    <2> QED
        BY <2>1
<1>4. /\ \A y, i : InMSHR(N, B, k, y, i) => y \in B /\ i \in 1 .. Len(N[y])
      /\ \A y, i : InMSHR(M, B, k, y, i) => y \in B /\ i \in 1 .. Len(M[y])
    BY DEF InMSHR
<1>5. new => ~Asked(p, M, B, k)
    OBVIOUS
<1> HIDE DEF new, L
<1>6. Asked(p, N, B, k) <=> Asked(p, M, B, k) \/ new
    <2>1. ASSUME Asked(p, N, B, k) PROVE Asked(p, M, B, k) \/ new
        BY <1>3, <1>4, <2>1 DEF Asked
    <2>2. ASSUME Asked(p, M, B, k) PROVE Asked(p, N, B, k)
        BY <1>3, <1>4, <2>2 DEF Asked
    <2>3. ASSUME new PROVE Asked(p, N, B, k)
        BY <1>3, <1>4, <2>3 DEF Asked
    <2> QED
        BY <2>1, <2>2, <2>3
<1>7. SingleAt(p, N, B, k)
    <2>1. \A i \in 1 .. Len(p) : \A y \in B : \A j \in 1 .. Len(N[y]) :
            ~(InPipe(p, k, i) /\ InMSHR(N, B, k, y, j))
        BY <1>3, <1>4, <1>5 DEF SingleAt, Asked
    <2>2. ASSUME NEW y, NEW d, NEW i, NEW j, InMSHR(N, B, k, y, i), InMSHR(N, B, k, d, j)
          PROVE  y = d /\ i = j
        <3>1. CASE new
            <4>1. \A x, z : ~InMSHR(M, B, k, x, z)
                BY <1>4, <1>5, <3>1 DEF Asked
            <4> QED
                BY <1>3, <2>2, <4>1
        <3>2. CASE ~new
            <4>1. InMSHR(M, B, k, y, i) /\ InMSHR(M, B, k, d, j)
                BY <1>3, <2>2, <3>2
            <4> QED
                BY <1>4, <4>1 DEF SingleAt
        <3> QED
            BY <3>1, <3>2
    <2> QED
        BY <2>1, <2>2 DEF SingleAt
<1> QED
    BY <1>6, <1>7 DEF new

(* An entry leaves bank b.                                                 *)
LEMMA FreeAsked ==
    ASSUME NEW p, NEW M, NEW N, NEW B, NEW b \in B, M[b] \in Seq(Slot), NEW l \in 1 .. Len(M[b]), NEW k,
           N[b] = RemoveAt(M[b], l), OnlyBank(M, N, B, b), SingleAt(p, M, B, k)
    PROVE  /\ SingleAt(p, N, B, k)
           /\ Asked(p, N, B, k) <=> Asked(p, M, B, k) /\ ~(M[b][l].type = "MISS" /\ For(M[b][l].act, k))
<1> DEFINE q == N[b]
           o == M[b]
           at(y, i) == IF y = b THEN Skip(l, i) ELSE i
<1>1. Removed(o, q, l)
    BY RemoveAtIs, Zenon
<1>2. Len(q) = Len(o) - 1
    BY <1>1 DEF Removed
<1>3. \A i \in 1 .. Len(q) : Skip(l, i) \in 1 .. Len(o) /\ Skip(l, i) # l /\ q[i] = o[Skip(l, i)]
    BY <1>1, <1>2 DEF Removed
<1>4. \A j \in 1 .. Len(o) : j # l => \E i \in 1 .. Len(q) : Skip(l, i) = j
    BY <1>1, <1>2 DEF Removed
<1>5. \A i, j \in 1 .. Len(q) : Skip(l, i) = Skip(l, j) => i = j
    BY <1>1, <1>2 DEF Removed
<1>6. \A y \in B : \A i \in 1 .. Len(N[y]) : /\ InMSHR(N, B, k, y, i) <=> InMSHR(M, B, k, y, at(y, i))
                                             /\ at(y, i) \in 1 .. Len(M[y]) /\ ~(y = b /\ at(y, i) = l)
                                             /\ \A j \in 1 .. Len(N[y]) : at(y, i) = at(y, j) => i = j
    <2>1. ASSUME NEW y \in B, NEW i \in 1 .. Len(N[y])
          PROVE /\ InMSHR(N, B, k, y, i) <=> InMSHR(M, B, k, y, at(y, i))
                /\ at(y, i) \in 1 .. Len(M[y]) /\ ~(y = b /\ at(y, i) = l)
                /\ \A j \in 1 .. Len(N[y]) : at(y, i) = at(y, j) => i = j
        <3>1. CASE y = b
            BY <1>3, <1>5, <3>1 DEF InMSHR
        <3>2. CASE y # b
            BY <3>2 DEF InMSHR, OnlyBank
        <3> QED
            BY <3>1, <3>2
    <2> QED
        BY <2>1
<1>7. \A y \in B : \A j \in 1 .. Len(M[y]) : ~(y = b /\ j = l) => \E i \in 1 .. Len(N[y]) : at(y, i) = j
    <2>1. ASSUME NEW y \in B, NEW j \in 1 .. Len(M[y]), ~(y = b /\ j = l)
          PROVE  \E i \in 1 .. Len(N[y]) : at(y, i) = j
        <3>1. CASE y = b
            BY <1>4, <2>1, <3>1
        <3>2. CASE y # b
            BY <3>2 DEF OnlyBank
        <3> QED
            BY <3>1, <3>2
    <2> QED
        BY <2>1
<1>8. InMSHR(M, B, k, b, l) <=> M[b][l].type = "MISS" /\ For(M[b][l].act, k)
    BY DEF InMSHR
<1> HIDE DEF at, q, o
<1>9. SingleAt(p, N, B, k)
    <2>1. \A i \in 1 .. Len(p) : \A y \in B : \A j \in 1 .. Len(N[y]) :
            ~(InPipe(p, k, i) /\ InMSHR(N, B, k, y, j))
        BY <1>6 DEF SingleAt
    <2>2. ASSUME NEW y \in B, NEW d \in B, NEW i \in 1 .. Len(N[y]), NEW j \in 1 .. Len(N[d]),
                 InMSHR(N, B, k, y, i), InMSHR(N, B, k, d, j)
          PROVE  y = d /\ i = j
        <3>1. InMSHR(M, B, k, y, at(y, i)) /\ InMSHR(M, B, k, d, at(d, j))
              /\ at(y, i) \in 1 .. Len(M[y]) /\ at(d, j) \in 1 .. Len(M[d])
            BY <1>6, <2>2
        <3>2. y = d /\ at(y, i) = at(d, j)
            BY <3>1 DEF SingleAt
        <3> QED
            BY <1>6, <3>2
    <2> QED
        BY <2>1, <2>2 DEF SingleAt
<1>10. Asked(p, N, B, k) => Asked(p, M, B, k)
    BY <1>6 DEF Asked
<1>11. ASSUME Asked(p, N, B, k), InMSHR(M, B, k, b, l) PROVE FALSE
    <2>2. CASE \E i \in 1 .. Len(p) : InPipe(p, k, i)
        BY <1>11, <2>2 DEF SingleAt
    <2>3. CASE \E y \in B : \E i \in 1 .. Len(N[y]) : InMSHR(N, B, k, y, i)
        <3>1. PICK y \in B : \E i \in 1 .. Len(N[y]) : InMSHR(N, B, k, y, i)
            BY <2>3
        <3>2. PICK i \in 1 .. Len(N[y]) : InMSHR(N, B, k, y, i)
            BY <3>1
        <3>3. InMSHR(M, B, k, y, at(y, i)) /\ at(y, i) \in 1 .. Len(M[y]) /\ ~(y = b /\ at(y, i) = l)
            BY <1>6, <3>2
        <3> QED
            BY <1>11, <3>3 DEF SingleAt
    <2> QED
        BY <1>11, <2>2, <2>3 DEF Asked
<1>12. ASSUME Asked(p, M, B, k), ~InMSHR(M, B, k, b, l) PROVE Asked(p, N, B, k)
    <2>2. CASE \E i \in 1 .. Len(p) : InPipe(p, k, i)
        BY <2>2 DEF Asked
    <2>3. CASE \E y \in B : \E j \in 1 .. Len(M[y]) : InMSHR(M, B, k, y, j)
        <3>1. PICK y \in B : \E j \in 1 .. Len(M[y]) : InMSHR(M, B, k, y, j)
            BY <2>3
        <3>2. PICK j \in 1 .. Len(M[y]) : InMSHR(M, B, k, y, j)
            BY <3>1
        <3>3. PICK i \in 1 .. Len(N[y]) : at(y, i) = j
            BY <1>7, <1>12, <3>2
        <3>4. InMSHR(N, B, k, y, i)
            BY <1>6, <3>2, <3>3
        <3> QED
            BY <3>4 DEF Asked
    <2> QED
        BY <1>12, <2>2, <2>3 DEF Asked
<1> QED
    BY <1>8, <1>9, <1>10, <1>11, <1>12

-----------------------------------------------------------------------------
(* What a step does to the slots that wait.                                *)

LEMMA SentUpWaits ==
    ASSUME NEW c, NEW b, NEW m, NEW n, NEW r, NEW i \in 1 .. Len(m), BankOK(c, b, m, n),
           SentUp(m, r, i), ~m[i].started, NEW s
    PROVE  ~Waits(m, m[i].slot) /\ (Waits(r, s) <=> Waits(m, s) \/ s = m[i].slot)
<1>1. ~Waits(m, m[i].slot)
    BY DEF Waits, BankOK
<1>2. r[i].slot = m[i].slot /\ r[i].started /\ r[i].returned = Never
    BY DEF SentUp, Kept, BankOK, EntryOK
<1>3. Len(r) = Len(m) /\ \A j \in 1 .. Len(m) : j # i => r[j] = m[j]
    BY DEF SentUp, Kept
<1>4. Waits(r, s) <=> Waits(m, s) \/ s = m[i].slot
    BY <1>2, <1>3 DEF Waits
<1> QED
    BY <1>1, <1>4

LEMMA AnswerInWaits ==
    ASSUME NEW m, NEW r, NEW t, AnswerIn(m, r, t), NEW s
    PROVE  Waits(r, s) <=> Waits(m, s) /\ s # t
<1>1. Len(r) = Len(m) /\ \A i \in 1 .. Len(m) : r[i].slot = m[i].slot
    BY DEF AnswerIn, Kept
<1> QED
    BY <1>1 DEF Waits, AnswerIn

LEMMA OlderWaits ==
    ASSUME NEW m, NEW r, Older(m, r), NEW s
    PROVE  Waits(r, s) <=> Waits(m, s)
<1>1. Len(r) = Len(m) /\ \A i \in 1 .. Len(m) : r[i].slot = m[i].slot
    BY DEF Older, Kept
<1> QED
    BY <1>1 DEF Waits, Older

LEMMA JoinedWaits ==
    ASSUME NEW c, NEW b, NEW m \in Seq(Slot), NEW e, NEW r, Joined(c, b, m, r, e), NEW s
    PROVE  Waits(r, s) <=> Waits(m, s)
<1> DEFINE L == Len(m)
<1>1. L \in Nat /\ Len(r) = L + 1 /\ r[L + 1] = e /\ \A i \in 1 .. L : r[i] = m[i]
    BY DEF Joined
<1>2. 1 .. L + 1 = (1 .. L) \cup {L + 1} /\ L + 1 \notin 1 .. L
    BY <1>1
<1> QED
    BY <1>1, <1>2 DEF Waits, Joined

LEMMA TakenOutWaits ==
    ASSUME NEW m \in Seq(Slot), NEW i \in 1 .. Len(m), m[i].returned # Never, NEW r, r = RemoveAt(m, i), NEW s
    PROVE  Waits(r, s) <=> Waits(m, s)
<1>1. Removed(m, r, i)
    BY RemoveAtIs, Zenon
<1>2. Len(r) = Len(m) - 1
    BY <1>1 DEF Removed
<1>3. \A j \in 1 .. Len(r) : Skip(i, j) \in 1 .. Len(m) /\ r[j] = m[Skip(i, j)]
    BY <1>1, <1>2 DEF Removed
<1>4. \A j \in 1 .. Len(m) : j # i => \E l \in 1 .. Len(r) : Skip(i, l) = j
    BY <1>1, <1>2 DEF Removed
<1>5. Waits(r, s) => Waits(m, s)
    BY <1>3 DEF Waits
<1>6. ASSUME Waits(m, s) PROVE Waits(r, s)
    <2>1. PICK j \in 1 .. Len(m) : m[j].slot = s /\ m[j].started /\ m[j].returned = Never
        BY <1>6 DEF Waits
    <2>2. PICK l \in 1 .. Len(r) : Skip(i, l) = j
        BY <1>4, <2>1
    <2> QED
        BY <1>3, <2>1, <2>2 DEF Waits
<1> QED
    BY <1>5, <1>6

-----------------------------------------------------------------------------
(* What a step does to the queue of the memory controller.                 *)

SingleRQAt(q, k) == \A i, j \in 1 .. Len(q) : InRQ(q, k, i) /\ InRQ(q, k, j) => i = j

LEMMA SingleRQEach ==
    ASSUME NEW q, SingleRQ(q), NEW k
    PROVE  SingleRQAt(q, k)
<1>1. \A i : InRQ(q, k, i) => k = Key(q[i].act)
    BY DEF InRQ, For
<1> QED
    BY <1>1 DEF SingleRQ, SingleRQAt

LEMMA SingleRQAll ==
    ASSUME NEW q, \A k : SingleRQAt(q, k)
    PROVE  SingleRQ(q)
    BY Zenon DEF SingleRQ, SingleRQAt

(* Time passes and accesses to DRAM start.                                 *)
SameRQ(q, r) ==
    Len(r) = Len(q) /\ \A i \in 1 .. Len(q) : r[i].act = q[i].act /\ r[i].returned = q[i].returned

LEMMA SameRQAsked ==
    ASSUME NEW q, NEW r, SameRQ(q, r), NEW k, SingleRQAt(q, k)
    PROVE  SingleRQAt(r, k) /\ (AskedRQ(r, k) <=> AskedRQ(q, k))
<1>1. Len(r) = Len(q) /\ \A i : InRQ(r, k, i) <=> InRQ(q, k, i)
    BY DEF SameRQ, InRQ
<1> QED
    BY <1>1 DEF SingleRQAt, AskedRQ

LEMMA EnterRQAsked ==
    ASSUME NEW q \in Seq(MemRequest), NEW x \in MemRequest, x.returned = FALSE, NEW r, r = Append(q, x),
           NEW k, SingleRQAt(q, k), For(x.act, k) => ~AskedRQ(q, k)
    PROVE  SingleRQAt(r, k) /\ (AskedRQ(r, k) <=> AskedRQ(q, k) \/ For(x.act, k))
<1> DEFINE L == Len(q)
<1>1. L \in Nat /\ Len(r) = L + 1 /\ r[L + 1] = x /\ \A i \in 1 .. L : r[i] = q[i]
    OBVIOUS
<1>2. 1 .. L + 1 = (1 .. L) \cup {L + 1} /\ L + 1 \notin 1 .. L
    BY <1>1
<1>3. \A i \in 1 .. L : InRQ(r, k, i) <=> InRQ(q, k, i)
    BY <1>1, <1>2 DEF InRQ
<1>4. InRQ(r, k, L + 1) <=> For(x.act, k)
    BY <1>1, <1>2 DEF InRQ
<1>5. AskedRQ(r, k) <=> AskedRQ(q, k) \/ For(x.act, k)
    BY <1>1, <1>2, <1>3, <1>4 DEF AskedRQ
<1>6. SingleRQAt(r, k)
    BY <1>1, <1>2, <1>3, <1>4 DEF SingleRQAt, AskedRQ
<1> QED
    BY <1>5, <1>6

(* The controller answers request l.                                       *)
AnsweredRQ(q, r, l) ==
    /\ Len(r) = Len(q) /\ r[l].returned = TRUE
    /\ \A i \in 1 .. Len(q) : i # l => r[i] = q[i]

LEMMA AnsweredRQAsked ==
    ASSUME NEW q, NEW r, NEW l \in 1 .. Len(q), AnsweredRQ(q, r, l), q[l].returned = FALSE,
           NEW k, SingleRQAt(q, k)
    PROVE  SingleRQAt(r, k) /\ (AskedRQ(r, k) <=> AskedRQ(q, k) /\ ~For(q[l].act, k))
<1>1. Len(r) = Len(q)
    BY DEF AnsweredRQ
<1>2. \A i \in 1 .. Len(q) : InRQ(r, k, i) <=> InRQ(q, k, i) /\ i # l
    BY <1>1 DEF InRQ, AnsweredRQ
<1>3. InRQ(q, k, l) <=> For(q[l].act, k)
    BY DEF InRQ
<1> QED
    BY <1>1, <1>2, <1>3 DEF SingleRQAt, AskedRQ

(* The head has been answered and leaves.                                  *)
LEMMA PopRQAsked ==
    ASSUME NEW q \in Seq(MemRequest), q # <<>>, Head(q).returned, NEW r, r = Tail(q),
           NEW k, SingleRQAt(q, k)
    PROVE  SingleRQAt(r, k) /\ (AskedRQ(r, k) <=> AskedRQ(q, k))
<1>1. Len(q) \in Nat \ {0} /\ Len(r) = Len(q) - 1 /\ q[1].returned
    OBVIOUS
<1>2. \A i \in 1 .. Len(r) : i + 1 \in 1 .. Len(q) /\ r[i] = q[i + 1]
    BY <1>1
<1>3. \A j \in 1 .. Len(q) : j = 1 \/ (j - 1 \in 1 .. Len(r) /\ (j - 1) + 1 = j)
    BY <1>1
<1>4. \A i \in 1 .. Len(r) : InRQ(r, k, i) <=> InRQ(q, k, i + 1)
    BY <1>2 DEF InRQ
<1>5. ~InRQ(q, k, 1)
    BY <1>1 DEF InRQ
<1>6. SingleRQAt(r, k)
    <2>1. ASSUME NEW i \in 1 .. Len(r), NEW j \in 1 .. Len(r), InRQ(r, k, i), InRQ(r, k, j) PROVE i = j
        <3>1. i + 1 = j + 1
            BY <1>2, <1>4, <2>1 DEF SingleRQAt
        <3> QED
            BY <3>1
    <2> QED
        BY <2>1 DEF SingleRQAt
<1>7. AskedRQ(r, k) => AskedRQ(q, k)
    BY <1>2, <1>4 DEF AskedRQ
<1>8. ASSUME AskedRQ(q, k) PROVE AskedRQ(r, k)
    <2>1. PICK j \in 1 .. Len(q) : InRQ(q, k, j)
        BY <1>8 DEF AskedRQ
    <2>2. j - 1 \in 1 .. Len(r) /\ (j - 1) + 1 = j
        BY <1>3, <1>5, <2>1
    <2> QED
        BY <1>4, <2>1, <2>2 DEF AskedRQ
<1> QED
    BY <1>6, <1>7, <1>8

-----------------------------------------------------------------------------
(* What a step does to who waits for whom.                                 *)

LEMMA KeyParts ==
    ASSUME NEW o \in Seq(Operation), NEW k \in Keys(o)
    PROVE  /\ k[1] \in Caches \cup {NoCache}
           /\ k[1] # NoCache => /\ k[2] \in Banks(k[1]) /\ k[3] \in 0 .. MSHR_size[k[1]] - 1
                                /\ Place(o, k) = LLC
           /\ k[1] = NoCache => k[2] = 0 /\ k[3] \in 1 .. Len(o) /\ Place(o, k) \in L1s
           /\ k = <<k[1], k[2], k[3]>>
           /\ Place(o, k) \in Caches
<1>1. CASE k \in OpKeys(o)
    <2>1. k[1] = NoCache /\ k[2] = 0 /\ k[3] \in 1 .. Len(o) /\ k = <<k[1], k[2], k[3]>>
        BY <1>1 DEF OpKeys
    <2>2. o[k[3]] \in Operation
        BY <2>1
    <2>3. o[k[3]].core \in L1s
        BY <2>2 DEF Operation
    <2> QED
        BY <2>1, <2>3, Levels DEF Place
<1>2. CASE \E c \in Caches : k \in {c} \X Banks(c) \X (0 .. MSHR_size[c] - 1)
    <2>1. PICK c \in Caches : k \in {c} \X Banks(c) \X (0 .. MSHR_size[c] - 1)
        BY <1>2
    <2>2. k[1] = c /\ k[2] \in Banks(c) /\ k[3] \in 0 .. MSHR_size[c] - 1 /\ k = <<k[1], k[2], k[3]>>
        BY <2>1
    <2> QED
        BY <2>2, Levels DEF Place
<1>3. k \in SlotKeys
      => \E c \in Caches : k \in {c} \X Banks(c) \X (0 .. MSHR_size[c] - 1)
    BY Zenon DEF SlotKeys
<1> QED
    BY <1>1, <1>2, <1>3, Zenon DEF Keys

LEMMA SlotKey ==
    ASSUME NEW o, NEW c \in Caches, NEW b \in Banks(c), NEW s \in 0 .. MSHR_size[c] - 1
    PROVE  <<c, b, s>> \in Keys(o)
<1>1. <<c, b, s>> \in {c} \X Banks(c) \X (0 .. MSHR_size[c] - 1)
    OBVIOUS
<1> QED
    BY <1>1, Zenon DEF Keys, SlotKeys

LEMMA OpKey ==
    ASSUME NEW o, NEW i \in 1 .. Len(o)
    PROVE  <<NoCache, 0, i>> \in Keys(o)
<1>1. <<NoCache, 0, i>> \in OpKeys(o)
    BY DEF OpKeys
<1> QED
    BY <1>1, Zenon DEF Keys

(* A request of cache c is for a key that is kept there.                   *)
LEMMA KeyPlace ==
    ASSUME NEW o \in Seq(Operation), NEW c \in Caches, NEW act \in Act, Routed(c, act), ActOwned(o, c, act),
           NEW k, For(act, k)
    PROVE  k \in Keys(o) /\ k[1] # LLC /\ Place(o, k) = c
<1>1. Asks(act) /\ Key(act) = k
    BY DEF For
<1>2. CASE c \in L1s
    <2>1. act.prev = NoCache /\ act.op # NoOp
        BY <1>1, <1>2 DEF Routed, Asks
    <2>2. act.op \in 1 .. Len(o) /\ o[act.op].core = c
        BY <1>2, <2>1 DEF ActOwned
    <2>3. k = <<NoCache, 0, act.op>>
        BY <1>1, <2>1 DEF Key
    <2> QED
        BY <2>2, <2>3, OpKey, Levels DEF Place
<1>3. CASE c = LLC
    <2>1. act.prev \in L1s
        BY <1>1, <1>3 DEF Routed, Asks
    <2>2. act.bank \in Banks(act.prev) /\ act.index \in 0 .. MSHR_size[act.prev] - 1
        BY <2>1 DEF Routed
    <2>3. k = <<act.prev, act.bank, act.index>>
        BY <1>1, <2>1, Levels DEF Key
    <2> QED
        BY <1>3, <2>1, <2>2, <2>3, SlotKey, Levels DEF Place
<1> QED
    BY <1>2, <1>3, Levels

(* A request of the memory controller.                                     *)
LEMMA KeyQueue ==
    ASSUME NEW o, NEW act \in Act, act.prev = LLC, act.bank \in Banks(LLC),
           act.index \in 0 .. MSHR_size[LLC] - 1, NEW k, For(act, k)
    PROVE  k \in Keys(o) /\ k[1] = LLC
<1>1. k = <<act.prev, act.bank, act.index>>
    BY Levels DEF For, Key
<1> QED
    BY <1>1, SlotKey, Levels

(* Requests are taken out, put back, ...                                   *)
LEMMA LinkTake ==
    ASSUME NEW P, NEW M, NEW q, NEW o, NEW U, NEW N, NEW r, NEW Y, Linked(P, M, q, o, {}),
           \A c \in Caches : Single(U[c], N[c], Banks(c)), SingleRQ(r),
           \A k \in Keys(o) : /\ Wanted(U, N, r, o, k) <=> Wanted(P, M, q, o, k) /\ k \notin Y
                              /\ k \in Y => Wanted(P, M, q, o, k)
                              /\ Outstanding(N, o, k) <=> Outstanding(M, o, k)
    PROVE  Linked(U, N, r, o, Y)
    BY Zenon DEF Linked

LEMMA LinkPut ==
    ASSUME NEW P, NEW M, NEW q, NEW o, NEW U, NEW N, NEW r, NEW X, Linked(P, M, q, o, X),
           \A c \in Caches : Single(U[c], N[c], Banks(c)), SingleRQ(r),
           \A k \in Keys(o) : /\ Wanted(U, N, r, o, k) <=> Wanted(P, M, q, o, k) \/ k \in X
                              /\ Outstanding(N, o, k) <=> Outstanding(M, o, k)
    PROVE  Linked(U, N, r, o, {})
<1>1. ASSUME NEW k \in Keys(o), Binding(o, k)
      PROVE  Wanted(U, N, r, o, k) <=> Outstanding(N, o, k)
    <2>1. CASE k \in X
        BY <1>1, <2>1, Zenon DEF Linked
    <2>2. CASE k \notin X
        BY <1>1, <2>2, Zenon DEF Linked
    <2> QED
        BY <2>1, <2>2
<1> QED
    BY <1>1, Zenon DEF Linked

(* ... a slot starts to wait, or a slot or an operation gets its answer.   *)
LEMMA LinkSend ==
    ASSUME NEW P, NEW M, NEW q, NEW o, NEW U, NEW N, NEW y, Linked(P, M, q, o, {}),
           \A c \in Caches : Single(U[c], N[c], Banks(c)), y[1] # NoCache, ~Outstanding(M, o, y),
           \A k \in Keys(o) : /\ Wanted(U, N, q, o, k) <=> Wanted(P, M, q, o, k)
                              /\ Outstanding(N, o, k) <=> Outstanding(M, o, k) \/ k = y
    PROVE  Linked(U, N, q, o, {y})
<1>1. ASSUME NEW k \in Keys(o), k = y PROVE ~Wanted(U, N, q, o, k) /\ Outstanding(N, o, k)
    <2>1. Binding(o, k)
        BY <1>1 DEF Binding
    <2> QED
        BY <1>1, <2>1, Zenon DEF Linked
<1>2. ASSUME NEW k \in Keys(o), Binding(o, k), k # y
      PROVE  Wanted(U, N, q, o, k) <=> Outstanding(N, o, k)
    BY <1>2, Zenon DEF Linked
<1> QED
    BY <1>1, <1>2, Zenon DEF Linked

LEMMA LinkAnswer ==
    ASSUME NEW P, NEW M, NEW q, NEW o, NEW N, NEW x, Linked(P, M, q, o, {x}),
           \A c \in Caches : Single(P[c], N[c], Banks(c)), NEW u, Keys(u) = Keys(o),
           \A k \in Keys(o) : /\ Wanted(P, N, q, u, k) <=> Wanted(P, M, q, o, k)
                              /\ Outstanding(N, u, k) <=> Outstanding(M, o, k) /\ k # x
                              /\ Binding(u, k) => Binding(o, k)
    PROVE  Linked(P, N, q, u, {})
<1>1. ASSUME NEW k \in Keys(o), Binding(u, k)
      PROVE  Wanted(P, N, q, u, k) <=> Outstanding(N, u, k)
    <2>1. CASE k = x
        BY <1>1, <2>1, Zenon DEF Linked
    <2>2. CASE k # x
        BY <1>1, <2>2, Zenon DEF Linked
    <2> QED
        BY <2>1, <2>2
<1> QED
    BY <1>1, Zenon DEF Linked

(* Only cache c changes, and in it no slot starts or ends to wait.         *)
Elsewhere(P, U, M, N, c) == \A x \in Caches : x # c => U[x] = P[x] /\ N[x] = M[x]
SameWaits(M, N, c) == \A b \in Banks(c) : \A s : Waits(N[c][b], s) <=> Waits(M[c][b], s)

LEMMA SameOutstanding ==
    ASSUME NEW o \in Seq(Operation), NEW c \in Caches, NEW P, NEW U, NEW M, NEW N,
           Elsewhere(P, U, M, N, c), SameWaits(M, N, c), NEW k \in Keys(o)
    PROVE  Outstanding(N, o, k) <=> Outstanding(M, o, k)
<1>1. CASE k[1] = NoCache
    BY <1>1 DEF Outstanding
<1>2. CASE k[1] # NoCache
    <2>1. k[1] \in Caches /\ k[2] \in Banks(k[1])
        BY <1>2, KeyParts
    <2>2. CASE k[1] = c
        BY <1>2, <2>1, <2>2 DEF Outstanding, SameWaits
    <2>3. CASE k[1] # c
        <3>1. N[k[1]] = M[k[1]]
            BY <2>1, <2>3 DEF Elsewhere
        <3> QED
            BY <1>2, <3>1 DEF Outstanding
    <2> QED
        BY <2>2, <2>3
<1> QED
    BY <1>1, <1>2

(* What is wanted of the other caches.                                     *)
LEMMA WantedElsewhere ==
    ASSUME NEW o \in Seq(Operation), NEW c, NEW P, NEW U, NEW M, NEW N, NEW q,
           Elsewhere(P, U, M, N, c), NEW k \in Keys(o), k[1] = LLC \/ Place(o, k) # c
    PROVE  Wanted(U, N, q, o, k) <=> Wanted(P, M, q, o, k)
<1>1. CASE k[1] = LLC
    BY <1>1 DEF Wanted
<1>2. CASE k[1] # LLC
    <2>1. Place(o, k) \in Caches /\ Place(o, k) # c
        BY <1>2, KeyParts
    <2>2. U[Place(o, k)] = P[Place(o, k)] /\ N[Place(o, k)] = M[Place(o, k)]
        BY <2>1 DEF Elsewhere
    <2> QED
        BY <1>2, <2>2 DEF Wanted
<1> QED
    BY <1>1, <1>2

LEMMA SingleElsewhere ==
    ASSUME NEW c \in Caches, NEW P, NEW U, NEW M, NEW N, NEW q, NEW o, NEW X, Elsewhere(P, U, M, N, c),
           Linked(P, M, q, o, X), \A k : SingleAt(U[c], N[c], Banks(c), k)
    PROVE  \A x \in Caches : Single(U[x], N[x], Banks(x))
<1>1. Single(U[c], N[c], Banks(c))
    BY SingleAll, Zenon
<1>2. ASSUME NEW x \in Caches, x # c PROVE Single(U[x], N[x], Banks(x))
    <2>1. U[x] = P[x] /\ N[x] = M[x] /\ Single(P[x], M[x], Banks(x))
        BY <1>2 DEF Elsewhere, Linked
    <2> QED
        BY <2>1
<1> QED
    BY <1>1, <1>2

(* Y is taken out of cache c ...                                           *)
LEMMA CacheTake ==
    ASSUME NEW o \in Seq(Operation), NEW c \in Caches, NEW P, NEW U, NEW M, NEW N, NEW q, NEW Y,
           Linked(P, M, q, o, {}), Elsewhere(P, U, M, N, c), SameWaits(M, N, c),
           \A k : SingleAt(U[c], N[c], Banks(c), k),
           \A k \in Y : k[1] # LLC /\ Place(o, k) = c /\ Asked(P[c], M[c], Banks(c), k),
           \A k : Asked(U[c], N[c], Banks(c), k) <=> Asked(P[c], M[c], Banks(c), k) /\ k \notin Y
    PROVE  Linked(U, N, q, o, Y)
<1>1. \A x \in Caches : Single(U[x], N[x], Banks(x))
    BY SingleElsewhere, Zenon
<1>2. SingleRQ(q)
    BY DEF Linked
<1>3. ASSUME NEW k \in Keys(o)
      PROVE  /\ Wanted(U, N, q, o, k) <=> Wanted(P, M, q, o, k) /\ k \notin Y
             /\ k \in Y => Wanted(P, M, q, o, k)
             /\ Outstanding(N, o, k) <=> Outstanding(M, o, k)
    <2>1. Outstanding(N, o, k) <=> Outstanding(M, o, k)
        BY SameOutstanding, Zenon
    <2>2. CASE k[1] # LLC /\ Place(o, k) = c
        BY <2>1, <2>2 DEF Wanted
    <2>3. CASE k[1] = LLC \/ Place(o, k) # c
        BY <2>1, <2>3, WantedElsewhere, Zenon
    <2> QED
        BY <2>2, <2>3
<1> QED
    BY <1>1, <1>2, <1>3, LinkTake, Zenon

(* ... or put into it.                                                     *)
LEMMA CachePut ==
    ASSUME NEW o \in Seq(Operation), NEW c \in Caches, NEW P, NEW U, NEW M, NEW N, NEW q, NEW X,
           Linked(P, M, q, o, X), Elsewhere(P, U, M, N, c), SameWaits(M, N, c),
           \A k : SingleAt(U[c], N[c], Banks(c), k),
           \A k \in X : k[1] # LLC /\ Place(o, k) = c,
           \A k : Asked(U[c], N[c], Banks(c), k) <=> Asked(P[c], M[c], Banks(c), k) \/ k \in X
    PROVE  Linked(U, N, q, o, {})
<1>1. \A x \in Caches : Single(U[x], N[x], Banks(x))
    BY SingleElsewhere, Zenon
<1>2. SingleRQ(q)
    BY DEF Linked
<1>3. ASSUME NEW k \in Keys(o)
      PROVE  /\ Wanted(U, N, q, o, k) <=> Wanted(P, M, q, o, k) \/ k \in X
             /\ Outstanding(N, o, k) <=> Outstanding(M, o, k)
    <2>1. Outstanding(N, o, k) <=> Outstanding(M, o, k)
        BY SameOutstanding, Zenon
    <2>2. CASE k[1] # LLC /\ Place(o, k) = c
        BY <2>1, <2>2 DEF Wanted
    <2>3. CASE k[1] = LLC \/ Place(o, k) # c
        BY <2>1, <2>3, WantedElsewhere, Zenon
    <2> QED
        BY <2>2, <2>3
<1> QED
    BY <1>1, <1>2, <1>3, LinkPut, Zenon

(* The form of the state after a step in one pipe, or one bank.            *)
LEMMA SoundPipe ==
    ASSUME NEW P, NEW M, NEW N, NEW q, NEW o, Sound(P, M, N, q, o), NEW c \in Caches, NEW U, NEW v,
           Changed(P, U, Caches, c, v), PipeOK(o, c, v)
    PROVE  Sound(U, M, N, q, o) /\ Elsewhere(P, U, M, M, c) /\ U[c] = v
<1>1. ASSUME NEW x \in Caches PROVE PipeOK(o, x, U[x]) /\ MSHROK(o, x, M[x], N[x])
    BY DEF Sound, Changed
<1>2. On(U, Caches) /\ U[c] = v
    BY DEF Changed
<1>3. Elsewhere(P, U, M, M, c)
    BY DEF Changed, Elsewhere
<1>4. Sound(U, M, N, q, o)
    BY <1>1, <1>2, Zenon DEF Sound
<1> QED
    BY <1>2, <1>3, <1>4

LEMMA SoundBank ==
    ASSUME NEW P, NEW M, NEW N, NEW q, NEW o, Sound(P, M, N, q, o), NEW c \in Caches, NEW b \in Banks(c),
           NEW S, NEW v, BankChanged(M, S, c, b, v), NEW T, NEW n, BankChanged(N, T, c, b, n),
           BankOK(c, b, v, n), OwnedBank(o, c, v)
    PROVE  Sound(P, S, T, q, o) /\ Elsewhere(P, P, M, S, c) /\ OnlyBank(M[c], S[c], Banks(c), b) /\ S[c][b] = v
<1>1. ASSUME NEW x \in Caches PROVE PipeOK(o, x, P[x]) /\ MSHROK(o, x, S[x], T[x])
    <2>1. PipeOK(o, x, P[x]) /\ MSHROK(o, x, M[x], N[x])
        BY DEF Sound
    <2>2. CASE x = c
        BY <2>1, <2>2 DEF MSHROK, BankChanged
    <2>3. CASE x # c
        <3>1. S[x] = M[x] /\ T[x] = N[x]
            BY <2>3 DEF BankChanged
        <3> QED
            BY <2>1, <3>1
    <2> QED
        BY <2>1, <2>2, <2>3
<1>2. Banked(S) /\ Banked(T) /\ S[c][b] = v
    BY DEF BankChanged
<1>3. Elsewhere(P, P, M, S, c) /\ OnlyBank(M[c], S[c], Banks(c), b)
    BY DEF BankChanged, Elsewhere, OnlyBank
<1>4. Sound(P, S, T, q, o)
    BY <1>1, <1>2, Zenon DEF Sound
<1> QED
    BY <1>2, <1>3, <1>4

LEMMA SameWaitsIn ==
    ASSUME NEW M, NEW N, NEW c, NEW b \in Banks(c), OnlyBank(M[c], N[c], Banks(c), b),
           \A s : Waits(N[c][b], s) <=> Waits(M[c][b], s)
    PROVE  SameWaits(M, N, c)
    BY DEF SameWaits, OnlyBank

LEMMA CacheSame ==
    ASSUME NEW o \in Seq(Operation), NEW c \in Caches, NEW P, NEW U, NEW M, NEW N, NEW q,
           Linked(P, M, q, o, {}), Elsewhere(P, U, M, N, c), SameWaits(M, N, c),
           \A k : SingleAt(U[c], N[c], Banks(c), k),
           \A k : Asked(U[c], N[c], Banks(c), k) <=> Asked(P[c], M[c], Banks(c), k)
    PROVE  Linked(U, N, q, o, {})
<1> DEFINE Y == {}
<1>1. \A k : k \notin Y
    OBVIOUS
<1> HIDE DEF Y
<1>2. Linked(U, N, q, o, Y)
    <2>1. \A k \in Y : k[1] # LLC /\ Place(o, k) = c /\ Asked(P[c], M[c], Banks(c), k)
        BY <1>1
    <2>2. \A k : Asked(U[c], N[c], Banks(c), k) <=> Asked(P[c], M[c], Banks(c), k) /\ k \notin Y
        BY <1>1
    <2> QED
        BY <2>1, <2>2, CacheTake, Zenon
<1> QED
    BY <1>2 DEF Y

-----------------------------------------------------------------------------
(* The steps of accesses and misses through the caches.                    *)

LEMMA GoodParts ==
    ASSUME NEW P, NEW M, NEW N, NEW q, NEW o, NEW X, Good(P, M, N, q, o, X)
    PROVE  /\ Sound(P, M, N, q, o) /\ Linked(P, M, q, o, X)
           /\ o \in Seq(Operation) /\ On(P, Caches) /\ Banked(M) /\ Banked(N)
           /\ \A c \in Caches : PipeOK(o, c, P[c]) /\ MSHROK(o, c, M[c], N[c])
           /\ \A c \in Caches : \A k : SingleAt(P[c], M[c], Banks(c), k)
<1>1. Sound(P, M, N, q, o) /\ Linked(P, M, q, o, X)
    BY DEF Good
<1>2. /\ o \in Seq(Operation) /\ On(P, Caches) /\ Banked(M) /\ Banked(N)
      /\ \A c \in Caches : PipeOK(o, c, P[c]) /\ MSHROK(o, c, M[c], N[c])
    BY <1>1 DEF Sound, OpsOK
<1>3. \A c \in Caches : \A k : SingleAt(P[c], M[c], Banks(c), k)
    BY <1>1, SingleEach, Zenon DEF Linked
<1> QED
    BY <1>1, <1>2, <1>3

LEMMA AccessAct ==
    ASSUME NEW o, NEW c, NEW p, PipeOK(o, c, p), NEW i \in 1 .. Len(p)
    PROVE  p[i] \in Access /\ p[i].act \in Act /\ Routed(c, p[i].act) /\ ActOwned(o, c, p[i].act)
<1>1. p[i] \in Access
    BY DEF PipeOK
<1> QED
    BY <1>1 DEF PipeOK, Access

LEMMA KeySetIs ==
    ASSUME NEW act, NEW k
    PROVE  k \in KeySet(act) <=> For(act, k)
    BY DEF KeySet, For

(* An access leaves the pipe.                                              *)
LEMMA GoodLeave ==
    ASSUME NEW P, NEW M, NEW N, NEW q, NEW o, Good(P, M, N, q, o, {}), NEW c \in Caches,
           NEW i \in 1 .. Len(P[c]), NEW v, v = RemoveAt(P[c], i), NEW U, Changed(P, U, Caches, c, v)
    PROVE  Good(U, M, N, q, o, KeySet(P[c][i].act))
<1> DEFINE act == P[c][i].act
<1>1. /\ Sound(P, M, N, q, o) /\ Linked(P, M, q, o, {}) /\ o \in Seq(Operation) /\ On(P, Caches)
      /\ PipeOK(o, c, P[c]) /\ \A k : SingleAt(P[c], M[c], Banks(c), k)
    BY GoodParts, Zenon
<1>2. P[c] \in Seq(Access) /\ act \in Act /\ Routed(c, act) /\ ActOwned(o, c, act)
    BY <1>1, AccessAct DEF PipeOK
<1> HIDE DEF act
<1>3. PipeOK(o, c, v)
    <2>1. v \in Seq(Access) /\ Removed(P[c], v, i)
        BY <1>2, RemoveAtIs, Zenon
    <2>2. ASSUME NEW j \in 1 .. Len(v) PROVE Routed(c, v[j].act) /\ ActOwned(o, c, v[j].act)
        <3>1. Skip(i, j) \in 1 .. Len(P[c]) /\ v[j] = P[c][Skip(i, j)]
            BY <2>1 DEF Removed, Skip
        <3> QED
            BY <1>1, <3>1, AccessAct
    <2> QED
        BY <2>1, <2>2 DEF PipeOK
<1>5. Sound(U, M, N, q, o) /\ Elsewhere(P, U, M, M, c) /\ U[c] = v
    BY <1>1, <1>3, SoundPipe, Zenon
<1>6. \A k : /\ SingleAt(U[c], M[c], Banks(c), k)
             /\ Asked(U[c], M[c], Banks(c), k) <=> Asked(P[c], M[c], Banks(c), k) /\ ~For(act, k)
    BY <1>1, <1>2, <1>5, LeaveAsked, Zenon DEF act
<1>7. \A k \in KeySet(act) : k[1] # LLC /\ Place(o, k) = c /\ Asked(P[c], M[c], Banks(c), k)
    <2>1. ASSUME NEW k, For(act, k) PROVE k[1] # LLC /\ Place(o, k) = c /\ Asked(P[c], M[c], Banks(c), k)
        <3>1. k[1] # LLC /\ Place(o, k) = c
            BY <1>1, <1>2, <2>1, KeyPlace, Zenon
        <3> QED
            BY <2>1, <3>1 DEF act, Asked, InPipe
    <2> QED
        BY <2>1, KeySetIs, Zenon
<1>8. SameWaits(M, M, c)
    BY DEF SameWaits
<1>9. Linked(U, M, q, o, KeySet(act))
    <2>1. \A k : SingleAt(U[c], M[c], Banks(c), k)
        BY <1>6
    <2>2. \A k : Asked(U[c], M[c], Banks(c), k) <=> Asked(P[c], M[c], Banks(c), k) /\ k \notin KeySet(act)
        BY <1>6, KeySetIs, Zenon
    <2> QED
        BY <1>1, <1>5, <2>1, <2>2, <1>7, <1>8, CacheTake, Zenon
<1> QED
    BY <1>5, <1>9 DEF act, Good

(* An access enters it.                                                    *)
LEMMA GoodEnter ==
    ASSUME NEW P, NEW M, NEW N, NEW q, NEW o, NEW c \in Caches, NEW x \in Access,
           Good(P, M, N, q, o, KeySet(x.act)), Routed(c, x.act), ActOwned(o, c, x.act),
           NEW v, v = Append(P[c], x), NEW U, Changed(P, U, Caches, c, v)
    PROVE  Good(U, M, N, q, o, {})
<1> DEFINE act == x.act
<1>1. /\ Sound(P, M, N, q, o) /\ Linked(P, M, q, o, KeySet(act)) /\ o \in Seq(Operation) /\ On(P, Caches)
      /\ PipeOK(o, c, P[c]) /\ \A k : SingleAt(P[c], M[c], Banks(c), k)
    BY GoodParts, Zenon
<1>2. P[c] \in Seq(Access) /\ act \in Act
    BY <1>1 DEF PipeOK, Access
<1> HIDE DEF act
<1>3. PipeOK(o, c, v)
    <2>1. v \in Seq(Access) /\ Len(v) = Len(P[c]) + 1 /\ v[Len(P[c]) + 1] = x
          /\ \A j \in 1 .. Len(P[c]) : v[j] = P[c][j]
        BY <1>2
    <2>2. ASSUME NEW j \in 1 .. Len(v) PROVE Routed(c, v[j].act) /\ ActOwned(o, c, v[j].act)
        <3>1. CASE j = Len(P[c]) + 1
            BY <2>1, <3>1 DEF act
        <3>2. CASE j # Len(P[c]) + 1
            <4>1. j \in 1 .. Len(P[c])
                BY <1>2, <2>1, <3>2
            <4> QED
                BY <1>1, <2>1, <4>1, AccessAct
        <3> QED
            BY <3>1, <3>2
    <2> QED
        BY <2>1, <2>2 DEF PipeOK
<1>5. Sound(U, M, N, q, o) /\ Elsewhere(P, U, M, M, c) /\ U[c] = v
    BY <1>1, <1>3, SoundPipe, Zenon
<1>6. \A k : For(act, k) => k[1] # LLC /\ Place(o, k) = c /\ ~Asked(P[c], M[c], Banks(c), k)
    <2>1. ASSUME NEW k, For(act, k) PROVE k[1] # LLC /\ Place(o, k) = c /\ ~Asked(P[c], M[c], Banks(c), k)
        <3>1. k \in Keys(o) /\ k[1] # LLC /\ Place(o, k) = c
            BY <1>1, <1>2, <2>1, KeyPlace, Zenon DEF act
        <3>2. ~Wanted(P, M, q, o, k)
            BY <1>1, <2>1, <3>1, KeySetIs, Zenon DEF Linked
        <3> QED
            BY <3>1, <3>2 DEF Wanted
    <2> QED
        BY <2>1
<1>7. \A k : /\ SingleAt(U[c], M[c], Banks(c), k)
             /\ Asked(U[c], M[c], Banks(c), k) <=> Asked(P[c], M[c], Banks(c), k) \/ For(act, k)
    BY <1>1, <1>2, <1>5, <1>6, EnterAsked, Zenon DEF act
<1>8. SameWaits(M, M, c)
    BY DEF SameWaits
<1>9. Linked(U, M, q, o, {})
    <2>1. \A k : SingleAt(U[c], M[c], Banks(c), k)
        BY <1>7
    <2>2. \A k : Asked(U[c], M[c], Banks(c), k) <=> Asked(P[c], M[c], Banks(c), k) \/ k \in KeySet(act)
        BY <1>7, KeySetIs, Zenon
    <2>3. \A k \in KeySet(act) : k[1] # LLC /\ Place(o, k) = c
        BY <1>6, KeySetIs, Zenon
    <2> QED
        BY <1>1, <1>5, <2>1, <2>2, <2>3, <1>8, CachePut, Zenon
<1> QED
    BY <1>5, <1>9 DEF act, Good

LEMMA BankAt ==
    ASSUME NEW P, NEW M, NEW N, NEW q, NEW o, NEW X, Good(P, M, N, q, o, X), NEW c \in Caches,
           NEW b \in Banks(c)
    PROVE  /\ BankOK(c, b, M[c][b], N[c][b]) /\ OwnedBank(o, c, M[c][b])
           /\ M[c][b] \in Seq(Slot) /\ N[c][b] \in Counters
<1>1. MSHROK(o, c, M[c], N[c])
    BY GoodParts, Zenon
<1>2. BankOK(c, b, M[c][b], N[c][b]) /\ OwnedBank(o, c, M[c][b])
    BY <1>1 DEF MSHROK
<1> QED
    BY <1>2 DEF BankOK

LEMMA EntryAt ==
    ASSUME NEW c, NEW b, NEW m, NEW n, BankOK(c, b, m, n), NEW i \in 1 .. Len(m)
    PROVE  /\ m \in Seq(Slot) /\ m[i] \in Slot /\ EntryOK(c, b, m[i])
           /\ m[i].slot \in 0 .. MSHR_size[c] - 1 /\ m[i].act \in Act /\ m[i].act.addr \in Blocks
<1>1. m \in Seq(Slot) /\ EntryOK(c, b, m[i])
    BY DEF BankOK
<1>2. m[i] \in Slot
    BY <1>1
<1>3. m[i].act \in Act
    BY <1>2, SlotFields
<1>4. m[i].act.addr \in Blocks
    BY <1>3 DEF Act
<1> QED
    BY <1>1, <1>2, <1>3, <1>4 DEF EntryOK

(* A miss takes a slot.                                                    *)
LEMMA GoodMiss ==
    ASSUME NEW P, NEW M, NEW N, NEW q, NEW o, NEW c \in Caches, NEW b \in Banks(c), NEW e, NEW v,
           Good(P, M, N, q, o, KeySet(e.act)), Joined(c, b, M[c][b], v, e), e.type = "MISS",
           ActOwned(o, c, e.act), NEW S, BankChanged(M, S, c, b, v),
           NEW n, n = MissAdded(N[c][b], e.act.cmd = "PREFETCH"),
           N[c][b].miss < MSHR_size[c] - MSHR_WB_size[c], NEW T, BankChanged(N, T, c, b, n)
    PROVE  Good(P, S, T, q, o, {})
<1> DEFINE act == e.act
<1>1. /\ Sound(P, M, N, q, o) /\ Linked(P, M, q, o, KeySet(act)) /\ o \in Seq(Operation)
      /\ \A k : SingleAt(P[c], M[c], Banks(c), k)
    BY GoodParts, Zenon
<1>2. /\ BankOK(c, b, M[c][b], N[c][b]) /\ OwnedBank(o, c, M[c][b]) /\ M[c][b] \in Seq(Slot)
    BY BankAt, Zenon
<1>3. /\ e \in Slot /\ v = Append(M[c][b], e) /\ act \in Act /\ Routed(c, act)
    BY DEF Joined, EntryOK, Slot
<1>4. BankOK(c, b, v, n)
    BY <1>2, JoinedOK, Zenon
<1>5. OwnedBank(o, c, v)
    BY <1>2, <1>3 DEF OwnedBank
<1>6. /\ Sound(P, S, T, q, o) /\ Elsewhere(P, P, M, S, c) /\ OnlyBank(M[c], S[c], Banks(c), b) /\ S[c][b] = v
    BY <1>1, <1>4, <1>5, SoundBank
<1>7. \A k : For(act, k) => k[1] # LLC /\ Place(o, k) = c /\ ~Asked(P[c], M[c], Banks(c), k)
    <2>1. ASSUME NEW k, For(act, k) PROVE k[1] # LLC /\ Place(o, k) = c /\ ~Asked(P[c], M[c], Banks(c), k)
        <3>1. k \in Keys(o) /\ k[1] # LLC /\ Place(o, k) = c
            BY <1>1, <1>3, <2>1, KeyPlace, Zenon
        <3>2. ~Wanted(P, M, q, o, k)
            BY <1>1, <2>1, <3>1, KeySetIs, Zenon DEF Linked
        <3> QED
            BY <3>1, <3>2 DEF Wanted
    <2> QED
        BY <2>1
<1>8. \A k : /\ SingleAt(P[c], S[c], Banks(c), k)
             /\ Asked(P[c], S[c], Banks(c), k) <=> Asked(P[c], M[c], Banks(c), k) \/ For(act, k)
    <2>1. ASSUME NEW k
          PROVE  /\ SingleAt(P[c], S[c], Banks(c), k)
                 /\ Asked(P[c], S[c], Banks(c), k) <=> Asked(P[c], M[c], Banks(c), k) \/ For(act, k)
        <3>1. SingleAt(P[c], M[c], Banks(c), k) /\ S[c][b] = Append(M[c][b], e)
            BY <1>1, <1>3, <1>6
        <3>2. e.type = "MISS" /\ For(e.act, k) => ~Asked(P[c], M[c], Banks(c), k)
            BY <1>7
        <3>3. /\ SingleAt(P[c], S[c], Banks(c), k)
              /\ Asked(P[c], S[c], Banks(c), k) <=>
                   Asked(P[c], M[c], Banks(c), k) \/ (e.type = "MISS" /\ For(e.act, k))
            BY <1>2, <1>3, <1>6, <3>1, <3>2, JoinAsked
        <3> QED
            BY <3>3
    <2> QED
        BY <2>1
<1>9. SameWaits(M, S, c)
    <2>1. \A s : Waits(v, s) <=> Waits(M[c][b], s)
        BY <1>2, JoinedWaits, Zenon
    <2> QED
        BY <1>6, <2>1, SameWaitsIn, Zenon
<1>10. Linked(P, S, q, o, {})
    <2>1. \A k : SingleAt(P[c], S[c], Banks(c), k)
        BY <1>8
    <2>2. \A k : Asked(P[c], S[c], Banks(c), k) <=> Asked(P[c], M[c], Banks(c), k) \/ k \in KeySet(act)
        BY <1>8, KeySetIs, Zenon
    <2>3. \A k \in KeySet(act) : k[1] # LLC /\ Place(o, k) = c
        BY <1>7, KeySetIs, Zenon
    <2> HIDE DEF act
    <2> QED
        BY <1>1, <1>6, <2>1, <2>2, <2>3, <1>9, CachePut, Zenon
<1> QED
    BY <1>6, <1>10 DEF Good

(* A writeback takes one.                                                  *)
LEMMA GoodWriteback ==
    ASSUME NEW P, NEW M, NEW N, NEW q, NEW o, NEW c \in Caches, NEW b \in Banks(c), NEW e, NEW v,
           Good(P, M, N, q, o, {}), Joined(c, b, M[c][b], v, e), e.type = "WRITEBACK",
           NEW S, BankChanged(M, S, c, b, v), NEW n, n = WBAdded(N[c][b]),
           N[c][b].wb < MSHR_WB_size[c], NEW T, BankChanged(N, T, c, b, n)
    PROVE  Good(P, S, T, q, o, {})
<1>1. /\ Sound(P, M, N, q, o) /\ Linked(P, M, q, o, {}) /\ o \in Seq(Operation)
      /\ \A k : SingleAt(P[c], M[c], Banks(c), k)
    BY GoodParts, Zenon
<1>2. /\ BankOK(c, b, M[c][b], N[c][b]) /\ OwnedBank(o, c, M[c][b]) /\ M[c][b] \in Seq(Slot)
    BY BankAt, Zenon
<1>3. /\ e \in Slot /\ v = Append(M[c][b], e) /\ e.act.op = NoOp /\ e.type # "MISS"
    BY DEF Joined, EntryOK
<1>4. BankOK(c, b, v, n)
    BY <1>2, JoinedOK, Zenon
<1>5. OwnedBank(o, c, v)
    BY <1>2, <1>3 DEF OwnedBank, ActOwned
<1>6. /\ Sound(P, S, T, q, o) /\ Elsewhere(P, P, M, S, c) /\ OnlyBank(M[c], S[c], Banks(c), b) /\ S[c][b] = v
    BY <1>1, <1>4, <1>5, SoundBank, Zenon
<1>7. \A k : /\ SingleAt(P[c], S[c], Banks(c), k)
             /\ Asked(P[c], S[c], Banks(c), k) <=> Asked(P[c], M[c], Banks(c), k)
    BY <1>1, <1>2, <1>3, <1>6, JoinAsked, Zenon
<1>8. SameWaits(M, S, c)
    <2>1. \A s : Waits(v, s) <=> Waits(M[c][b], s)
        BY <1>2, JoinedWaits, Zenon
    <2> QED
        BY <1>6, <2>1, SameWaitsIn, Zenon
<1>9. Linked(P, S, q, o, {})
    <2>1. \A k : SingleAt(P[c], S[c], Banks(c), k)
        BY <1>7
    <2>2. \A k : Asked(P[c], S[c], Banks(c), k) <=> Asked(P[c], M[c], Banks(c), k)
        BY <1>7
    <2> QED
        BY <1>1, <1>6, <2>1, <2>2, <1>8, CacheSame, Zenon
<1> QED
    BY <1>6, <1>9 DEF Good

(* An entry that has its answer gives its slot back.                       *)
Gone(e) == IF e.type = "MISS" THEN KeySet(e.act) ELSE {}

LEMMA GoodFree ==
    ASSUME NEW P, NEW M, NEW N, NEW q, NEW o, NEW c \in Caches, NEW b \in Banks(c),
           NEW i \in 1 .. Len(M[c][b]), M[c][b][i].returned # Never, Good(P, M, N, q, o, {}),
           NEW v, v = RemoveAt(M[c][b], i), NEW S, BankChanged(M, S, c, b, v),
           NEW n, n = MSHR_deallocate(N[c][b], M[c][b][i]), NEW T, BankChanged(N, T, c, b, n)
    PROVE  Good(P, S, T, q, o, Gone(M[c][b][i]))
<1> DEFINE m == M[c][b]
           e == m[i]
<1>1. /\ Sound(P, M, N, q, o) /\ Linked(P, M, q, o, {}) /\ o \in Seq(Operation)
      /\ \A k : SingleAt(P[c], M[c], Banks(c), k)
    BY GoodParts, Zenon
<1>2. BankOK(c, b, m, N[c][b]) /\ OwnedBank(o, c, m) /\ m \in Seq(Slot)
    BY BankAt, Zenon
<1>3. EntryOK(c, b, e) /\ e.act \in Act /\ ActOwned(o, c, e.act) /\ e.started
    <2>1. EntryOK(c, b, e) /\ e.act \in Act
        BY <1>2, EntryAt
    <2>2. ActOwned(o, c, e.act)
        BY <1>2 DEF OwnedBank
    <2> QED
        BY <2>1, <2>2 DEF EntryOK
<1>4. v \in Seq(Slot) /\ Removed(m, v, i)
    BY <1>2, RemoveAtIs, Zenon
<1>5. BankOK(c, b, v, n)
    BY <1>2, <1>3, TakenOutOK
<1>6. OwnedBank(o, c, v)
    <2>1. ASSUME NEW j \in 1 .. Len(v) PROVE ActOwned(o, c, v[j].act)
        <3>1. Skip(i, j) \in 1 .. Len(m) /\ v[j] = m[Skip(i, j)]
            BY <1>4 DEF Removed, Skip
        <3> QED
            BY <1>2, <3>1 DEF OwnedBank
    <2> QED
        BY <2>1 DEF OwnedBank
<1>7. /\ Sound(P, S, T, q, o) /\ Elsewhere(P, P, M, S, c) /\ OnlyBank(M[c], S[c], Banks(c), b) /\ S[c][b] = v
    BY <1>1, <1>5, <1>6, SoundBank
<1>8. SameWaits(M, S, c)
    <2>1. \A s : Waits(v, s) <=> Waits(m, s)
        BY <1>2, TakenOutWaits
    <2> QED
        BY <1>7, <2>1, SameWaitsIn, Zenon
<1>9. ASSUME NEW k
      PROVE  /\ SingleAt(P[c], S[c], Banks(c), k)
             /\ Asked(P[c], S[c], Banks(c), k) <=>
                  Asked(P[c], M[c], Banks(c), k) /\ ~(e.type = "MISS" /\ For(e.act, k))
    <2>1. SingleAt(P[c], M[c], Banks(c), k) /\ S[c][b] = RemoveAt(M[c][b], i)
        BY <1>1, <1>7
    <2> QED
        BY <1>2, <1>7, <2>1, FreeAsked
<1>10. \A k : k \in Gone(e) <=> e.type = "MISS" /\ For(e.act, k)
    BY KeySetIs, Zenon DEF Gone
<1>11. \A k : e.type = "MISS" /\ For(e.act, k) => k[1] # LLC /\ Place(o, k) = c /\ Asked(P[c], M[c], Banks(c), k)
    <2>1. ASSUME NEW k, e.type = "MISS", For(e.act, k)
          PROVE  k[1] # LLC /\ Place(o, k) = c /\ Asked(P[c], M[c], Banks(c), k)
        <3>1. Routed(c, e.act)
            BY <1>3, <2>1 DEF EntryOK
        <3>2. k[1] # LLC /\ Place(o, k) = c
            BY <1>1, <1>3, <2>1, <3>1, KeyPlace
        <3> QED
            BY <2>1, <3>2 DEF Asked, InMSHR
    <2> QED
        BY <2>1
<1> DEFINE Y == Gone(e)
<1>12. Linked(P, S, q, o, Y)
    <2>1. \A k : SingleAt(P[c], S[c], Banks(c), k)
        BY <1>9
    <2>2. \A k : Asked(P[c], S[c], Banks(c), k) <=> Asked(P[c], M[c], Banks(c), k) /\ k \notin Y
        BY <1>9, <1>10
    <2>3. \A k \in Y : k[1] # LLC /\ Place(o, k) = c /\ Asked(P[c], M[c], Banks(c), k)
        BY <1>10, <1>11
    <2> HIDE DEF Y, e
    <2> QED
        BY <1>1, <1>7, <2>1, <2>2, <2>3, <1>8, CacheTake
<1> QED
    BY <1>7, <1>12 DEF Good

(* An entry is sent to the next level.                                     *)
LEMMA GoodSend ==
    ASSUME NEW P, NEW M, NEW N, NEW q, NEW o, NEW c \in Caches, NEW b \in Banks(c),
           NEW i \in 1 .. Len(M[c][b]), ~M[c][b][i].started, Good(P, M, N, q, o, {}),
           NEW v, SentUp(M[c][b], v, i), NEW S, BankChanged(M, S, c, b, v),
           NEW n, n = IF M[c][b][i].type = "MISS" THEN MissSent(N[c][b]) ELSE N[c][b],
           NEW T, BankChanged(N, T, c, b, n)
    PROVE  Good(P, S, T, q, o, {<<c, b, M[c][b][i].slot>>})
<1> DEFINE m == M[c][b]
           s == m[i].slot
           y == <<c, b, s>>
<1>1. /\ Sound(P, M, N, q, o) /\ Linked(P, M, q, o, {}) /\ o \in Seq(Operation)
      /\ \A k : SingleAt(P[c], M[c], Banks(c), k)
    BY GoodParts, Zenon
<1>2. BankOK(c, b, m, N[c][b]) /\ OwnedBank(o, c, m) /\ m \in Seq(Slot)
    BY BankAt, Zenon
<1>3. BankOK(c, b, v, n)
    BY <1>2, SentUpOK
<1>4. Kept(m, v) /\ OwnedBank(o, c, v)
    BY <1>2 DEF OwnedBank, SentUp, Kept
<1>5. /\ Sound(P, S, T, q, o) /\ Elsewhere(P, P, M, S, c) /\ OnlyBank(M[c], S[c], Banks(c), b) /\ S[c][b] = v
    BY <1>1, <1>3, <1>4, SoundBank
<1>6. ~Waits(m, s) /\ \A x : Waits(v, x) <=> Waits(m, x) \/ x = s
    BY <1>2, SentUpWaits
<1>7. ASSUME NEW k
      PROVE  SingleAt(P[c], S[c], Banks(c), k) /\ (Asked(P[c], S[c], Banks(c), k) <=> Asked(P[c], M[c], Banks(c), k))
    <2>1. \A y_1 \in Banks(c) : Kept(M[c][y_1], S[c][y_1])
        <3>1. ASSUME NEW d \in Banks(c) PROVE Kept(M[c][d], S[c][d])
            <4>1. CASE d = b
                BY <1>4, <1>5, <4>1
            <4>2. CASE d # b
                <5>1. S[c][d] = M[c][d] /\ M[c][d] \in Seq(Slot)
                    BY <1>5, <4>2, BankAt DEF OnlyBank
                <5> QED
                    BY <5>1 DEF Kept
            <4> QED
                BY <4>1, <4>2
        <3> QED
            BY <3>1
    <2>2. SameActs(P[c], P[c])
        BY DEF SameActs
    <2> QED
        BY <1>1, <2>1, <2>2, SameAsked, Zenon
<1>8. \A x \in Caches : Single(P[x], S[x], Banks(x))
    BY <1>1, <1>5, <1>7, SingleElsewhere, Zenon
<1>9. ASSUME NEW k \in Keys(o)
      PROVE  /\ Wanted(P, S, q, o, k) <=> Wanted(P, M, q, o, k)
             /\ Outstanding(S, o, k) <=> Outstanding(M, o, k) \/ k = y
    <2>1. Wanted(P, S, q, o, k) <=> Wanted(P, M, q, o, k)
        <3>1. CASE k[1] # LLC /\ Place(o, k) = c
            BY <1>7, <3>1 DEF Wanted
        <3>2. CASE k[1] = LLC \/ Place(o, k) # c
            BY <1>1, <1>5, <3>2, WantedElsewhere, Zenon
        <3> QED
            BY <3>1, <3>2
    <2>2. CASE k[1] = NoCache
        BY <2>1, <2>2, Levels DEF Outstanding
    <2>3. CASE k[1] # NoCache
        <3>1. k[1] \in Caches /\ k[2] \in Banks(k[1]) /\ k = <<k[1], k[2], k[3]>>
            BY <1>1, <2>3, KeyParts
        <3>2. CASE k[1] = c /\ k[2] = b
            <4>1. k = y <=> k[3] = s
                BY <3>1, <3>2
            <4> QED
                BY <1>5, <1>6, <2>1, <2>3, <3>2, <4>1 DEF Outstanding
        <3>3. CASE ~(k[1] = c /\ k[2] = b)
            <4>1. S[k[1]][k[2]] = M[k[1]][k[2]]
                BY <1>5, <3>1, <3>3 DEF Elsewhere, OnlyBank
            <4> QED
                BY <2>1, <2>3, <3>3, <4>1 DEF Outstanding
        <3> QED
            BY <3>2, <3>3
    <2> QED
        BY <2>2, <2>3
<1>10. y[1] # NoCache /\ ~Outstanding(M, o, y)
    BY <1>6, Levels DEF Outstanding
<1> HIDE DEF y
<1>11. Linked(P, S, q, o, {y})
    BY <1>1, <1>8, <1>9, <1>10, LinkSend, Zenon
<1> QED
    BY <1>5, <1>11 DEF Good, y

LEMMA NoChange ==
    ASSUME NEW M, Banked(M), NEW c, NEW b
    PROVE  BankChanged(M, M, c, b, M[c][b])
    BY DEF BankChanged

LEMMA KeptAll ==
    ASSUME NEW P, NEW M, NEW N, NEW q, NEW o, NEW X, Good(P, M, N, q, o, X), NEW c \in Caches,
           NEW b \in Banks(c), NEW S, OnlyBank(M[c], S[c], Banks(c), b), Kept(M[c][b], S[c][b])
    PROVE  \A d \in Banks(c) : Kept(M[c][d], S[c][d])
<1>1. ASSUME NEW d \in Banks(c) PROVE Kept(M[c][d], S[c][d])
    <2>1. CASE d = b
        BY <2>1
    <2>2. CASE d # b
        <3>1. S[c][d] = M[c][d] /\ M[c][d] \in Seq(Slot)
            BY <2>2, BankAt DEF OnlyBank
        <3> QED
            BY <3>1 DEF Kept
    <2> QED
        BY <2>1, <2>2
<1> QED
    BY <1>1

(* The answer reaches the slot that waits for it.                          *)
LEMMA GoodAnswer ==
    ASSUME NEW P, NEW M, NEW N, NEW q, NEW o, NEW c \in Caches, NEW b \in Banks(c),
           NEW s \in 0 .. MSHR_size[c] - 1, Good(P, M, N, q, o, {<<c, b, s>>}),
           NEW v, AnswerIn(M[c][b], v, s), NEW S, BankChanged(M, S, c, b, v)
    PROVE  Good(P, S, N, q, o, {})
<1> DEFINE m == M[c][b]
           x == <<c, b, s>>
<1>1. /\ Sound(P, M, N, q, o) /\ Linked(P, M, q, o, {x}) /\ o \in Seq(Operation) /\ Banked(N)
      /\ \A k : SingleAt(P[c], M[c], Banks(c), k)
    BY GoodParts, Zenon
<1>2. BankOK(c, b, m, N[c][b]) /\ OwnedBank(o, c, m) /\ m \in Seq(Slot)
    BY BankAt, Zenon
<1>3. Waits(m, s)
    <2>1. x \in Keys(o) /\ x[1] # NoCache
        BY SlotKey, Levels
    <2>2. Outstanding(M, o, x)
        BY <1>1, <2>1 DEF Linked, Binding
    <2> QED
        BY <2>1, <2>2 DEF Outstanding
<1>4. BankOK(c, b, v, N[c][b])
    BY <1>2, <1>3, AnswerInOK
<1>5. Kept(m, v) /\ OwnedBank(o, c, v)
    BY <1>2 DEF OwnedBank, AnswerIn, Kept
<1>6. /\ Sound(P, S, N, q, o) /\ Elsewhere(P, P, M, S, c) /\ OnlyBank(M[c], S[c], Banks(c), b) /\ S[c][b] = v
    <2>1. BankChanged(N, N, c, b, N[c][b])
        BY <1>1, NoChange, Zenon
    <2> QED
        BY <1>1, <1>4, <1>5, <2>1, SoundBank
<1>7. \A z : Waits(v, z) <=> Waits(m, z) /\ z # s
    BY AnswerInWaits, Zenon
<1>8. ASSUME NEW k
      PROVE  SingleAt(P[c], S[c], Banks(c), k) /\ (Asked(P[c], S[c], Banks(c), k) <=> Asked(P[c], M[c], Banks(c), k))
    <2>1. \A d \in Banks(c) : Kept(M[c][d], S[c][d])
        BY <1>5, <1>6, KeptAll
    <2>2. SameActs(P[c], P[c])
        BY DEF SameActs
    <2> QED
        BY <1>1, <2>1, <2>2, SameAsked, Zenon
<1>9. \A z \in Caches : Single(P[z], S[z], Banks(z))
    <2> HIDE DEF x
    <2> QED
        BY <1>1, <1>6, <1>8, SingleElsewhere, Zenon
<1>10. ASSUME NEW k \in Keys(o)
      PROVE  /\ Wanted(P, S, q, o, k) <=> Wanted(P, M, q, o, k)
             /\ Outstanding(S, o, k) <=> Outstanding(M, o, k) /\ k # x
    <2>1. Wanted(P, S, q, o, k) <=> Wanted(P, M, q, o, k)
        <3>1. CASE k[1] # LLC /\ Place(o, k) = c
            BY <1>8, <3>1 DEF Wanted
        <3>2. CASE k[1] = LLC \/ Place(o, k) # c
            BY <1>1, <1>6, <3>2, WantedElsewhere, Zenon
        <3> QED
            BY <3>1, <3>2
    <2>2. CASE k[1] = NoCache
        BY <2>1, <2>2, Levels DEF Outstanding
    <2>3. CASE k[1] # NoCache
        <3>1. k[1] \in Caches /\ k[2] \in Banks(k[1]) /\ k = <<k[1], k[2], k[3]>>
            BY <1>1, <2>3, KeyParts
        <3>2. CASE k[1] = c /\ k[2] = b
            <4>1. k = x <=> k[3] = s
                BY <3>1, <3>2
            <4> QED
                BY <1>6, <1>7, <2>1, <2>3, <3>2, <4>1 DEF Outstanding
        <3>3. CASE ~(k[1] = c /\ k[2] = b)
            <4>1. S[k[1]][k[2]] = M[k[1]][k[2]]
                BY <1>6, <3>1, <3>3 DEF Elsewhere, OnlyBank
            <4> QED
                BY <2>1, <2>3, <3>3, <4>1 DEF Outstanding
        <3> QED
            BY <3>2, <3>3
    <2> QED
        BY <2>2, <2>3
<1> HIDE DEF x
<1>11. Linked(P, S, q, o, {})
    BY <1>1, <1>9, <1>10, LinkAnswer, Zenon
<1> QED
    BY <1>6, <1>11 DEF Good

(* Operations change, but not whose they are.                              *)
SameCores(o, u) == Len(u) = Len(o) /\ \A i \in 1 .. Len(o) : u[i].core = o[i].core

LEMMA SoundOps ==
    ASSUME NEW P, NEW M, NEW N, NEW q, NEW o, Sound(P, M, N, q, o), NEW u, SameCores(o, u), OpsOK(u)
    PROVE  Sound(P, M, N, q, u)
<1>1. \A c, act : ActOwned(o, c, act) => ActOwned(u, c, act)
    BY DEF ActOwned, SameCores
<1>2. ASSUME NEW c \in Caches PROVE PipeOK(u, c, P[c]) /\ MSHROK(u, c, M[c], N[c])
    <2>1. PipeOK(o, c, P[c]) /\ MSHROK(o, c, M[c], N[c])
        BY DEF Sound
    <2>2. PipeOK(u, c, P[c])
        BY <1>1, <2>1, Zenon DEF PipeOK
    <2>3. MSHROK(u, c, M[c], N[c])
        BY <1>1, <2>1, Zenon DEF MSHROK, OwnedBank
    <2> QED
        BY <2>2, <2>3
<1> QED
    BY <1>2, Zenon DEF Sound

LEMMA SameCoresKeys ==
    ASSUME NEW o \in Seq(Operation), NEW u, SameCores(o, u), NEW P, NEW M, NEW q
    PROVE  /\ Keys(u) = Keys(o)
           /\ \A k \in Keys(o) : Wanted(P, M, q, u, k) <=> Wanted(P, M, q, o, k)
<1>1. Keys(u) = Keys(o)
    BY DEF Keys, OpKeys, SameCores
<1>2. ASSUME NEW k \in Keys(o) PROVE Place(u, k) = Place(o, k)
    <2>1. k[1] = NoCache => k[3] \in 1 .. Len(o)
        BY KeyParts
    <2> QED
        BY <2>1 DEF Place, SameCores
<1> QED
    BY <1>1, <1>2 DEF Wanted

(* A core's operation gets its answer, if it still wants it.               *)
OpAnswered(o, u, i) == u = IF o[i].live THEN [o EXCEPT ![i].answers = @ + 1] ELSE o

LEMMA GoodOpAnswer ==
    ASSUME NEW P, NEW M, NEW N, NEW q, NEW o, NEW i \in 1 .. Len(o), Good(P, M, N, q, o, {<<NoCache, 0, i>>}),
           NEW u, OpAnswered(o, u, i)
    PROVE  Good(P, M, N, q, u, {})
<1> DEFINE x == <<NoCache, 0, i>>
<1>1. /\ Sound(P, M, N, q, o) /\ Linked(P, M, q, o, {x}) /\ o \in Seq(Operation)
      /\ OpsOK(o) /\ \A c \in Caches : Single(P[c], M[c], Banks(c))
    BY GoodParts, Zenon DEF Sound, Linked
<1>2. o[i] \in Operation
    BY <1>1
<1>3. o[i].core \in L1s /\ o[i].live \in BOOLEAN /\ o[i].translated \in BOOLEAN /\ o[i].answers \in Nat
    BY <1>2 DEF Operation
<1>4. o[i].live => o[i].answers = 0
    <2>1. x \in Keys(o)
        BY OpKey
    <2>2. Binding(o, x) <=> o[i].live
        BY DEF Binding
    <2>3. o[i].live => Outstanding(M, o, x)
        BY <1>1, <2>1, <2>2 DEF Linked
    <2> QED
        BY <2>3 DEF Outstanding
<1>5. /\ u \in Seq(Operation) /\ SameCores(o, u)
      /\ \A j \in 1 .. Len(o) : /\ u[j].live = o[j].live
                                /\ j # i => u[j] = o[j]
      /\ o[i].live => u[i].answers = 1
    <2>1. CASE ~o[i].live
        BY <1>1, <2>1 DEF SameCores, OpAnswered
    <2>2. CASE o[i].live
        <3> DEFINE r == [o[i] EXCEPT !.answers = @ + 1]
        <3>1. u = [o EXCEPT ![i] = r]
            BY <2>2 DEF OpAnswered
        <3>2. r.core = o[i].core /\ r.live = o[i].live /\ r.answers = 1 /\ r \in Operation
            <4> DEFINE a == o[i].answers + 1
            <4>1. a \in Nat /\ a = 1
                BY <1>3, <1>4, <2>2
            <4>2. r = [o[i] EXCEPT !.answers = a]
                OBVIOUS
            <4> HIDE DEF a, r
            <4> QED
                BY <1>2, <4>1, <4>2 DEF Operation
        <3> HIDE DEF r
        <3>3. u \in Seq(Operation) /\ Put(o, u, i, r)
            BY <1>1, <3>1, <3>2, PutIs, Zenon
        <3> QED
            BY <3>2, <3>3 DEF Put, SameCores
    <2> QED
        BY <2>1, <2>2
<1>6. OpsOK(u)
    BY <1>1, <1>5 DEF OpsOK, SameCores
<1>7. Sound(P, M, N, q, u)
    BY <1>1, <1>5, <1>6, SoundOps
<1>8. Keys(u) = Keys(o) /\ \A k \in Keys(o) : Wanted(P, M, q, u, k) <=> Wanted(P, M, q, o, k)
    BY <1>1, <1>5, SameCoresKeys, Zenon
<1>9. ASSUME NEW k \in Keys(o)
      PROVE  /\ Binding(u, k) => Binding(o, k)
             /\ Binding(u, k) => (Outstanding(M, u, k) <=> Outstanding(M, o, k) /\ k # x)
    <2>1. k[1] = NoCache => k[2] = 0 /\ k[3] \in 1 .. Len(o)
        BY <1>1, KeyParts
    <2>2. k = <<k[1], k[2], k[3]>>
        BY <1>1, KeyParts
    <2>3. CASE k[1] # NoCache
        BY <2>3 DEF Binding, Outstanding
    <2>4. CASE k[1] = NoCache
        <3>1. k = x <=> k[3] = i
            BY <2>1, <2>2, <2>4
        <3>2. CASE k[3] = i
            BY <1>5, <2>1, <2>4, <3>1, <3>2 DEF Binding, Outstanding
        <3>3. CASE k[3] # i
            BY <1>5, <2>1, <2>4, <3>1, <3>3 DEF Binding, Outstanding
        <3> QED
            BY <3>2, <3>3
    <2> QED
        BY <2>3, <2>4
<1>10. ASSUME NEW k \in Keys(o), Binding(u, k)
       PROVE  Wanted(P, M, q, u, k) <=> Outstanding(M, u, k)
    <2> HIDE DEF x
    <2>1. CASE k = x
        BY <1>1, <1>8, <1>9, <1>10, <2>1, Zenon DEF Linked
    <2>2. CASE k # x
        BY <1>1, <1>8, <1>9, <1>10, <2>2, Zenon DEF Linked
    <2> QED
        BY <2>1, <2>2
<1>11. SingleRQ(q)
    BY <1>1 DEF Linked
<1>12. Linked(P, M, q, u, {})
    BY <1>1, <1>8, <1>10, <1>11, Zenon DEF Linked
<1> QED
    BY <1>7, <1>12 DEF Good

(* Time passes in cache c.                                                 *)
LEMMA GoodTime ==
    ASSUME NEW P, NEW M, NEW N, NEW q, NEW o, NEW c \in Caches, Good(P, M, N, q, o, {}),
           NEW v \in Seq(Access), SameActs(P[c], v), NEW U, Changed(P, U, Caches, c, v),
           NEW w, On(w, Banks(c)), \A b \in Banks(c) : Older(M[c][b], w[b]),
           NEW S, Changed(M, S, Caches, c, w)
    PROVE  Good(U, S, N, q, o, {})
<1>1. /\ Sound(P, M, N, q, o) /\ Linked(P, M, q, o, {}) /\ o \in Seq(Operation) /\ Banked(M)
      /\ PipeOK(o, c, P[c]) /\ MSHROK(o, c, M[c], N[c])
      /\ \A k : SingleAt(P[c], M[c], Banks(c), k)
    BY GoodParts, Zenon
<1>2. PipeOK(o, c, v)
    BY <1>1 DEF PipeOK, SameActs
<1>3. MSHROK(o, c, w, N[c])
    <2>1. ASSUME NEW b \in Banks(c) PROVE BankOK(c, b, w[b], N[c][b]) /\ OwnedBank(o, c, w[b])
        <3>1. BankOK(c, b, M[c][b], N[c][b]) /\ OwnedBank(o, c, M[c][b]) /\ Older(M[c][b], w[b])
            BY <1>1 DEF MSHROK
        <3>2. BankOK(c, b, w[b], N[c][b])
            BY <3>1, OlderOK
        <3>3. OwnedBank(o, c, w[b])
            BY <3>1 DEF OwnedBank, Older, Kept
        <3> QED
            BY <3>2, <3>3
    <2> QED
        BY <2>1 DEF MSHROK
<1>4. U[c] = v /\ S[c] = w /\ Elsewhere(P, U, M, S, c) /\ On(U, Caches)
    BY DEF Changed, Elsewhere
<1>5. Banked(S)
    BY <1>1 DEF Banked, Changed
<1>6. Sound(U, S, N, q, o)
    <2>1. ASSUME NEW x \in Caches PROVE PipeOK(o, x, U[x]) /\ MSHROK(o, x, S[x], N[x])
        <3>1. CASE x = c
            BY <1>2, <1>3, <1>4, <3>1
        <3>2. CASE x # c
            BY <1>1, <1>4, <3>2 DEF Sound, Elsewhere
        <3> QED
            BY <3>1, <3>2
    <2> QED
        BY <1>1, <1>4, <1>5, <2>1, Zenon DEF Sound
<1>7. \A b \in Banks(c) : Kept(M[c][b], S[c][b])
    BY <1>4 DEF Older
<1>8. SameWaits(M, S, c)
    BY <1>4, OlderWaits DEF SameWaits
<1>9. ASSUME NEW k
      PROVE  SingleAt(U[c], S[c], Banks(c), k) /\ (Asked(U[c], S[c], Banks(c), k) <=> Asked(P[c], M[c], Banks(c), k))
    BY <1>1, <1>4, <1>7, SameAsked, Zenon
<1>10. Linked(U, S, q, o, {})
    BY <1>1, <1>4, <1>8, <1>9, CacheSame, Zenon
<1> QED
    BY <1>6, <1>10 DEF Good

-----------------------------------------------------------------------------
(* The steps of the memory controller.                                     *)

LEMMA SoundQueue ==
    ASSUME NEW P, NEW M, NEW N, NEW q, NEW o, Sound(P, M, N, q, o), NEW r, QueueOK(r)
    PROVE  Sound(P, M, N, r, o)
    BY DEF Sound

LEMMA QueueParts ==
    ASSUME NEW P, NEW M, NEW N, NEW q, NEW o, NEW X, Good(P, M, N, q, o, X)
    PROVE  /\ Sound(P, M, N, q, o) /\ Linked(P, M, q, o, X) /\ QueueOK(q) /\ q \in Seq(MemRequest)
           /\ \A k : SingleRQAt(q, k)
           /\ \A c \in Caches : Single(P[c], M[c], Banks(c))
<1>1. Sound(P, M, N, q, o) /\ Linked(P, M, q, o, X)
    BY DEF Good
<1>2. QueueOK(q) /\ q \in Seq(MemRequest)
    BY <1>1 DEF Sound, QueueOK
<1>3. \A k : SingleRQAt(q, k)
    BY <1>1, SingleRQEach, Zenon DEF Linked
<1>4. \A c \in Caches : Single(P[c], M[c], Banks(c))
    BY <1>1 DEF Linked
<1> QED
    BY <1>1, <1>2, <1>3, <1>4

LEMMA RequestAct ==
    ASSUME NEW q, QueueOK(q), NEW i \in 1 .. Len(q)
    PROVE  /\ q[i] \in MemRequest /\ q[i].act \in Act /\ q[i].act.prev = LLC /\ q[i].act.bank \in Banks(LLC)
           /\ q[i].act.index \in 0 .. MSHR_size[LLC] - 1 /\ q[i].returned \in BOOLEAN
<1>1. q[i] \in MemRequest
    BY DEF QueueOK
<1> QED
    BY <1>1 DEF QueueOK, MemRequest

(* A queue that keeps what it asks for.                                    *)
LEMMA GoodQueueSame ==
    ASSUME NEW P, NEW M, NEW N, NEW q, NEW o, Good(P, M, N, q, o, {}), NEW r, QueueOK(r),
           \A k : SingleRQAt(r, k) /\ (AskedRQ(r, k) <=> AskedRQ(q, k))
    PROVE  Good(P, M, N, r, o, {})
<1>1. /\ Sound(P, M, N, q, o) /\ Linked(P, M, q, o, {})
      /\ \A c \in Caches : Single(P[c], M[c], Banks(c))
    BY QueueParts, Zenon
<1>2. Sound(P, M, N, r, o)
    BY <1>1, SoundQueue, Zenon
<1>3. SingleRQ(r)
    BY SingleRQAll, Zenon
<1>4. \A k \in Keys(o) : Wanted(P, M, r, o, k) <=> Wanted(P, M, q, o, k)
    BY DEF Wanted
<1>5. Linked(P, M, r, o, {})
    BY <1>1, <1>3, <1>4, Zenon DEF Linked
<1> QED
    BY <1>2, <1>5 DEF Good

LEMMA GoodQueueAge ==
    ASSUME NEW P, NEW M, NEW N, NEW q, NEW o, Good(P, M, N, q, o, {}), NEW r \in Seq(MemRequest), SameRQ(q, r)
    PROVE  Good(P, M, N, r, o, {})
<1>1. QueueOK(q) /\ \A k : SingleRQAt(q, k)
    BY QueueParts, Zenon
<1>2. QueueOK(r)
    BY <1>1 DEF QueueOK, SameRQ
<1>3. \A k : SingleRQAt(r, k) /\ (AskedRQ(r, k) <=> AskedRQ(q, k))
    BY <1>1, SameRQAsked, Zenon
<1> QED
    BY <1>2, <1>3, GoodQueueSame, Zenon

LEMMA GoodQueuePop ==
    ASSUME NEW P, NEW M, NEW N, NEW q, NEW o, Good(P, M, N, q, o, {}), q # <<>>, Head(q).returned,
           NEW r, r = Tail(q)
    PROVE  Good(P, M, N, r, o, {})
<1>1. QueueOK(q) /\ q \in Seq(MemRequest) /\ \A k : SingleRQAt(q, k)
    BY QueueParts, Zenon
<1>2. QueueOK(r)
    <2>1. r \in Seq(MemRequest) /\ \A i \in 1 .. Len(r) : i + 1 \in 1 .. Len(q) /\ r[i] = q[i + 1]
        BY <1>1
    <2> HIDE DEF QueueOK
    <2>2. ASSUME NEW i \in 1 .. Len(r)
          PROVE  /\ r[i].act.prev = LLC /\ r[i].act.bank \in Banks(LLC)
                 /\ r[i].act.index \in 0 .. MSHR_size[LLC] - 1
        BY <1>1, <2>1, RequestAct
    <2> QED
        BY <2>1, <2>2 DEF QueueOK
<1>3. \A k : SingleRQAt(r, k) /\ (AskedRQ(r, k) <=> AskedRQ(q, k))
    BY <1>1, PopRQAsked
<1> QED
    BY <1>2, <1>3, GoodQueueSame

(* The controller answers request l.                                       *)
LEMMA GoodQueueAnswer ==
    ASSUME NEW P, NEW M, NEW N, NEW q, NEW o, Good(P, M, N, q, o, {}), NEW l \in 1 .. Len(q),
           ~q[l].returned, NEW r, r = [q EXCEPT ![l].returned = TRUE]
    PROVE  Good(P, M, N, r, o, KeySet(q[l].act))
<1> DEFINE act == q[l].act
<1>1. /\ Sound(P, M, N, q, o) /\ Linked(P, M, q, o, {}) /\ QueueOK(q) /\ q \in Seq(MemRequest)
      /\ \A k : SingleRQAt(q, k) /\ \A c \in Caches : Single(P[c], M[c], Banks(c))
    BY QueueParts, Zenon
<1>2. /\ act \in Act /\ act.prev = LLC /\ act.bank \in Banks(LLC) /\ act.index \in 0 .. MSHR_size[LLC] - 1
      /\ q[l] \in MemRequest /\ q[l].returned = FALSE
    BY <1>1, RequestAct
<1>3. QueueOK(r) /\ AnsweredRQ(q, r, l)
    <2> DEFINE x == [q[l] EXCEPT !.returned = TRUE]
    <2>1. r = [q EXCEPT ![l] = x]
        OBVIOUS
    <2>2. x \in MemRequest /\ x.act = act /\ x.returned = TRUE
        BY <1>2 DEF MemRequest
    <2> HIDE DEF x
    <2>3. r \in Seq(MemRequest) /\ Put(q, r, l, x)
        BY <1>1, <2>1, <2>2, PutIs, Zenon
    <2>4. AnsweredRQ(q, r, l)
        BY <2>2, <2>3 DEF AnsweredRQ, Put
    <2> QED
        BY <1>1, <1>2, <2>2, <2>3, <2>4 DEF QueueOK, Put
<1>4. \A k : SingleRQAt(r, k) /\ (AskedRQ(r, k) <=> AskedRQ(q, k) /\ ~For(act, k))
    BY <1>1, <1>2, <1>3, AnsweredRQAsked, Zenon
<1>5. Sound(P, M, N, r, o)
    BY <1>1, <1>3, SoundQueue
<1>6. \A k : k \in KeySet(act) => k[1] = LLC /\ AskedRQ(q, k)
    <2>1. ASSUME NEW k, For(act, k) PROVE k[1] = LLC /\ AskedRQ(q, k)
        <3>1. k[1] = LLC
            BY <1>2, <2>1, KeyQueue
        <3> QED
            BY <1>2, <2>1, <3>1 DEF AskedRQ, InRQ
    <2> QED
        BY <2>1, KeySetIs, Zenon
<1>7. ASSUME NEW k \in Keys(o)
      PROVE  /\ Wanted(P, M, r, o, k) <=> Wanted(P, M, q, o, k) /\ k \notin KeySet(act)
             /\ k \in KeySet(act) => Wanted(P, M, q, o, k)
    <2>1. k \in KeySet(act) <=> For(act, k)
        BY KeySetIs, Zenon
    <2>2. CASE k[1] = LLC
        BY <1>4, <1>6, <2>1, <2>2 DEF Wanted
    <2>3. CASE k[1] # LLC
        BY <1>6, <2>3 DEF Wanted
    <2> QED
        BY <2>2, <2>3
<1>8. SingleRQ(r)
    BY <1>4, SingleRQAll, Zenon
<1> DEFINE Y == KeySet(act)
<1> HIDE DEF Y, act
<1>9. Linked(P, M, r, o, Y)
    <2>1. \A k \in Keys(o) : /\ Wanted(P, M, r, o, k) <=> Wanted(P, M, q, o, k) /\ k \notin Y
                             /\ k \in Y => Wanted(P, M, q, o, k)
                             /\ Outstanding(M, o, k) <=> Outstanding(M, o, k)
        BY <1>7 DEF Y
    <2> QED
        BY <1>1, <1>8, <2>1, LinkTake
<1> QED
    BY <1>5, <1>9 DEF Good, Y, act

(* A request enters the queue.                                             *)
LEMMA GoodQueueEnter ==
    ASSUME NEW P, NEW M, NEW N, NEW q, NEW o, NEW x \in MemRequest, Good(P, M, N, q, o, KeySet(x.act)),
           x.returned = FALSE, x.act.prev = LLC, x.act.bank \in Banks(LLC),
           x.act.index \in 0 .. MSHR_size[LLC] - 1, NEW r, r = Append(q, x)
    PROVE  Good(P, M, N, r, o, {})
<1> DEFINE act == x.act
           X == KeySet(act)
<1>1. /\ Sound(P, M, N, q, o) /\ Linked(P, M, q, o, X) /\ QueueOK(q) /\ q \in Seq(MemRequest)
      /\ \A k : SingleRQAt(q, k) /\ \A c \in Caches : Single(P[c], M[c], Banks(c))
    BY QueueParts, Zenon
<1>2. act \in Act
    BY DEF MemRequest
<1>3. QueueOK(r)
    BY <1>1 DEF QueueOK
<1>4. Sound(P, M, N, r, o)
    BY <1>1, <1>3, SoundQueue
<1>5. \A k : k \in X <=> For(act, k)
    BY KeySetIs, Zenon
<1>6. \A k : For(act, k) => k[1] = LLC /\ ~AskedRQ(q, k)
    <2>1. ASSUME NEW k, For(act, k) PROVE k[1] = LLC /\ ~AskedRQ(q, k)
        <3>1. k \in Keys(o) /\ k[1] = LLC
            BY <1>2, <2>1, KeyQueue
        <3>2. ~Wanted(P, M, q, o, k)
            BY <1>1, <1>5, <2>1, <3>1, Zenon DEF Linked
        <3> QED
            BY <3>1, <3>2 DEF Wanted
    <2> QED
        BY <2>1
<1>7. \A k : SingleRQAt(r, k) /\ (AskedRQ(r, k) <=> AskedRQ(q, k) \/ For(act, k))
    <2>1. ASSUME NEW k PROVE SingleRQAt(r, k) /\ (AskedRQ(r, k) <=> AskedRQ(q, k) \/ For(act, k))
        <3>1. SingleRQAt(q, k) /\ (For(x.act, k) => ~AskedRQ(q, k))
            BY <1>1, <1>6
        <3> QED
            BY <1>1, <3>1, EnterRQAsked
    <2> QED
        BY <2>1
<1>8. SingleRQ(r)
    BY <1>7, SingleRQAll, Zenon
<1>9. ASSUME NEW k \in Keys(o)
      PROVE  /\ Wanted(P, M, r, o, k) <=> Wanted(P, M, q, o, k) \/ k \in X
             /\ Outstanding(M, o, k) <=> Outstanding(M, o, k)
    <2>1. CASE k[1] = LLC
        BY <1>5, <1>7, <2>1 DEF Wanted
    <2>2. CASE k[1] # LLC
        BY <1>5, <1>6, <2>2 DEF Wanted
    <2> QED
        BY <2>1, <2>2
<1> HIDE DEF X, act
<1>10. Linked(P, M, r, o, {})
    BY <1>1, <1>8, <1>9, LinkPut
<1> QED
    BY <1>4, <1>10 DEF Good

-----------------------------------------------------------------------------
(* The steps of the cores' operations.                                     *)

(* Operations are squashed or translated.                                  *)
LEMMA GoodOps ==
    ASSUME NEW P, NEW M, NEW N, NEW q, NEW o, Good(P, M, N, q, o, {}), NEW u \in Seq(Operation),
           SameCores(o, u), \A i \in 1 .. Len(o) : u[i].answers = o[i].answers /\ (u[i].live => o[i].live)
    PROVE  Good(P, M, N, q, u, {})
<1>1. /\ Sound(P, M, N, q, o) /\ Linked(P, M, q, o, {}) /\ o \in Seq(Operation) /\ OpsOK(o)
    BY GoodParts, Zenon DEF Sound
<1>2. OpsOK(u)
    BY <1>1 DEF OpsOK, SameCores
<1>3. Sound(P, M, N, q, u)
    BY <1>1, <1>2, SoundOps
<1>4. Keys(u) = Keys(o) /\ \A k \in Keys(o) : Wanted(P, M, q, u, k) <=> Wanted(P, M, q, o, k)
    BY <1>1, SameCoresKeys, Zenon
<1>5. ASSUME NEW k \in Keys(o)
      PROVE  (Binding(u, k) => Binding(o, k)) /\ (Outstanding(M, u, k) <=> Outstanding(M, o, k))
    <2>1. k[1] = NoCache => k[3] \in 1 .. Len(o)
        BY <1>1, KeyParts
    <2> QED
        BY <2>1 DEF Binding, Outstanding
<1>6. Linked(P, M, q, u, {})
    BY <1>1, <1>4, <1>5, Zenon DEF Linked
<1> QED
    BY <1>3, <1>6 DEF Good

(* An operation begins.                                                    *)
LEMMA GoodNewOp ==
    ASSUME NEW P, NEW M, NEW N, NEW q, NEW o, Good(P, M, N, q, o, {}), NEW x \in Operation,
           x.live = TRUE, x.answers = 0, NEW u, u = Append(o, x)
    PROVE  Good(P, M, N, q, u, {<<NoCache, 0, Len(o) + 1>>})
<1> DEFINE L == Len(o)
           y == <<NoCache, 0, L + 1>>
<1>1. /\ Sound(P, M, N, q, o) /\ Linked(P, M, q, o, {}) /\ o \in Seq(Operation) /\ OpsOK(o)
      /\ \A c \in Caches : PipeOK(o, c, P[c]) /\ MSHROK(o, c, M[c], N[c])
    BY GoodParts, Zenon DEF Sound
<1>2. /\ L \in Nat /\ u \in Seq(Operation) /\ Len(u) = L + 1 /\ u[L + 1] = x /\ x.core \in L1s
      /\ \A i \in 1 .. L : i \in 1 .. L + 1 /\ u[i] = o[i]
    BY <1>1 DEF Operation
<1>3. OpsOK(u)
    <2>1. ASSUME NEW i \in 1 .. Len(u), u[i].live PROVE u[i].answers \in {0, 1}
        <3>1. CASE i = L + 1
            BY <1>2, <3>1
        <3>2. CASE i # L + 1
            <4>1. i \in 1 .. L
                BY <1>2, <3>2
            <4> QED
                BY <1>1, <1>2, <2>1, <4>1 DEF OpsOK
        <3> QED
            BY <3>1, <3>2
    <2> QED
        BY <1>2, <2>1 DEF OpsOK
<1>4. \A c, act : ActOwned(o, c, act) => ActOwned(u, c, act)
    BY <1>2 DEF ActOwned
<1>5. ASSUME NEW c \in Caches PROVE PipeOK(u, c, P[c]) /\ MSHROK(u, c, M[c], N[c])
    <2>1. PipeOK(o, c, P[c]) /\ MSHROK(o, c, M[c], N[c])
        BY <1>1
    <2>2. PipeOK(u, c, P[c])
        BY <1>4, <2>1, Zenon DEF PipeOK
    <2>3. MSHROK(u, c, M[c], N[c])
        BY <1>4, <2>1, Zenon DEF MSHROK, OwnedBank
    <2> QED
        BY <2>2, <2>3
<1>6. Sound(P, M, N, q, u)
    BY <1>1, <1>3, <1>5, Zenon DEF Sound
<1>7. y \notin Keys(o)
    <2>1. y \in Keys(o) => y[3] \in 1 .. L
        BY <1>1, KeyParts
    <2> QED
        BY <1>2, <2>1
<1>8. \A k \in Keys(u) : k = y \/ k \in Keys(o)
    <2>1. ASSUME NEW k \in Keys(u), k # y PROVE k \in Keys(o)
        <3>1. k[1] \in Caches \cup {NoCache} /\ k = <<k[1], k[2], k[3]>>
            BY <1>2, KeyParts
        <3>2. CASE k[1] = NoCache
            <4>1. k[2] = 0 /\ k[3] \in 1 .. L + 1
                BY <1>2, <3>2, KeyParts
            <4>2. k[3] \in 1 .. L /\ k = <<NoCache, 0, k[3]>>
                BY <1>2, <2>1, <3>1, <3>2, <4>1
            <4> QED
                BY <4>2, OpKey
        <3>3. CASE k[1] # NoCache
            <4>1. k[2] \in Banks(k[1]) /\ k[3] \in 0 .. MSHR_size[k[1]] - 1
                BY <1>2, <3>3, KeyParts
            <4> QED
                BY <3>1, <3>3, <4>1, SlotKey
        <3> QED
            BY <3>2, <3>3
    <2> QED
        BY <2>1
<1>9. ASSUME NEW c \in Caches PROVE ~Asked(P[c], M[c], Banks(c), y)
    <2>1. PipeOK(o, c, P[c]) /\ MSHROK(o, c, M[c], N[c])
        BY <1>1
    <2> HIDE DEF y
    <2>2. ASSUME NEW i \in 1 .. Len(P[c]) PROVE ~InPipe(P[c], y, i)
        <3>1. P[c][i].act \in Act /\ Routed(c, P[c][i].act) /\ ActOwned(o, c, P[c][i].act)
            BY <2>1, AccessAct
        <3> QED
            BY <1>1, <1>7, <3>1, KeyPlace DEF InPipe
    <2>3. ASSUME NEW b \in Banks(c), NEW i \in 1 .. Len(M[c][b]) PROVE ~InMSHR(M[c], Banks(c), y, b, i)
        <3>1. BankOK(c, b, M[c][b], N[c][b]) /\ ActOwned(o, c, M[c][b][i].act)
            BY <2>1 DEF MSHROK, OwnedBank
        <3>2. EntryOK(c, b, M[c][b][i]) /\ M[c][b][i].act \in Act
            BY <3>1, EntryAt
        <3>3. M[c][b][i].type = "MISS" => Routed(c, M[c][b][i].act)
            BY <3>2 DEF EntryOK
        <3> QED
            BY <1>1, <1>7, <3>1, <3>2, <3>3, KeyPlace DEF InMSHR
    <2> QED
        BY <2>2, <2>3 DEF Asked
<1>10. ASSUME NEW k \in Keys(o)
       PROVE  /\ Binding(u, k) <=> Binding(o, k)
              /\ Outstanding(M, u, k) <=> Outstanding(M, o, k)
              /\ Wanted(P, M, q, u, k) <=> Wanted(P, M, q, o, k)
    <2>1. k[1] = NoCache => k[3] \in 1 .. L
        BY <1>1, KeyParts
    <2>2. Place(u, k) = Place(o, k)
        BY <1>2, <2>1 DEF Place
    <2> QED
        BY <1>2, <2>1, <2>2 DEF Binding, Outstanding, Wanted
<1>11. ~Wanted(P, M, q, u, y) /\ Outstanding(M, u, y)
    <2>1. y[1] = NoCache /\ y[3] = L + 1
        OBVIOUS
    <2>2. Place(u, y) = x.core /\ x.core \in Caches /\ NoCache # LLC
        BY <1>2, <2>1, Levels DEF Place
    <2>3. ~Asked(P[x.core], M[x.core], Banks(x.core), y)
        BY <1>9, <2>2
    <2> HIDE DEF y
    <2> QED
        BY <1>2, <2>1, <2>2, <2>3 DEF Wanted, Outstanding
<1> HIDE DEF y
<1>12. Linked(P, M, q, u, {y})
    <2>1. \A k \in Keys(u) : /\ k \in {y} => ~Wanted(P, M, q, u, k)
                             /\ Binding(u, k) => IF k \in {y} THEN Outstanding(M, u, k)
                                 ELSE Wanted(P, M, q, u, k) <=> Outstanding(M, u, k)
        <3>1. ASSUME NEW k \in Keys(u)
              PROVE  /\ k = y => ~Wanted(P, M, q, u, k) /\ Outstanding(M, u, k)
                     /\ k # y => (Binding(u, k) => (Wanted(P, M, q, u, k) <=> Outstanding(M, u, k)))
            <4>1. CASE k = y
                BY <1>11, <4>1
            <4>2. CASE k # y
                <5>1. k \in Keys(o)
                    BY <1>8, <4>2
                <5>2. Binding(o, k) => (Wanted(P, M, q, o, k) <=> Outstanding(M, o, k))
                    BY <1>1, <5>1 DEF Linked
                <5> QED
                    BY <1>10, <4>2, <5>1, <5>2
            <4> QED
                BY <4>1, <4>2
        <3> QED
            BY <3>1
    <2> QED
        BY <1>1, <2>1 DEF Linked
<1> QED
    BY <1>6, <1>12 DEF Good, y

-----------------------------------------------------------------------------
(* What the passes have in common.                                         *)

(* The answer to a request, d cycles late.                                 *)
Answerable(o, act) ==
    /\ act.prev # NoCache => /\ act.prev \in Caches /\ act.bank \in Banks(act.prev)
                             /\ act.index \in 0 .. MSHR_size[act.prev] - 1
    /\ act.prev = NoCache /\ act.op # NoOp => act.op \in 1 .. Len(o)

Replied(act, M, S, o, u, d) ==
    IF act.prev = NoCache
    THEN S = M /\ u = IF act.op # NoOp /\ o[act.op].live THEN [o EXCEPT ![act.op].answers = @ + 1] ELSE o
    ELSE u = o /\ S = [M EXCEPT ![act.prev][act.bank] = Arrived(@, act.index, d)]

LEMMA RoutedAnswerable ==
    ASSUME NEW o, NEW c \in Caches, NEW act, Routed(c, act), ActOwned(o, c, act)
    PROVE  Answerable(o, act)
<1>1. CASE c \in L1s
    BY <1>1, Levels DEF Answerable, Routed, ActOwned
<1>2. CASE c = LLC
    BY <1>2, Levels DEF Answerable, Routed
<1> QED
    BY <1>1, <1>2, Levels

LEMMA GoodReply ==
    ASSUME NEW P, NEW M, NEW N, NEW q, NEW o, NEW act, Good(P, M, N, q, o, KeySet(act)), Answerable(o, act),
           NEW S, NEW u, NEW d \in 0 .. Never - 1, Replied(act, M, S, o, u, d)
    PROVE  Good(P, S, N, q, u, {})
<1>1. CASE act.prev = NoCache /\ act.op = NoOp
    <2>1. KeySet(act) = {}
        BY <1>1 DEF KeySet, Asks
    <2>2. S = M /\ u = o
        BY <1>1 DEF Replied
    <2> QED
        BY <2>1, <2>2
<1>2. CASE act.prev = NoCache /\ act.op # NoOp
    <2>1. KeySet(act) = {<<NoCache, 0, act.op>>}
        BY <1>2 DEF KeySet, Asks, Key
    <2>2. S = M /\ OpAnswered(o, u, act.op)
        BY <1>2 DEF Replied, OpAnswered
    <2>3. act.op \in 1 .. Len(o)
        BY <1>2 DEF Answerable
    <2> QED
        BY <2>1, <2>2, <2>3, GoodOpAnswer
<1>3. CASE act.prev # NoCache
    <2> DEFINE c == act.prev
               b == act.bank
               v == Arrived(M[c][b], act.index, d)
    <2>1. KeySet(act) = {<<c, b, act.index>>}
        BY <1>3 DEF KeySet, Asks, Key
    <2>2. c \in Caches /\ b \in Banks(c) /\ act.index \in 0 .. MSHR_size[c] - 1
        BY <1>3 DEF Answerable
    <2>3. u = o /\ S = [M EXCEPT ![c][b] = v]
        BY <1>3 DEF Replied
    <2>4. Banked(M) /\ M[c][b] \in Seq(Slot)
        BY <2>2, GoodParts, BankAt
    <2>5. AnswerIn(M[c][b], v, act.index)
        BY <2>4, AnswerInIs
    <2> HIDE DEF v
    <2>6. BankChanged(M, S, c, b, v)
        BY <2>2, <2>3, <2>4, BankChangedIs
    <2> QED
        BY <2>1, <2>2, <2>3, <2>5, <2>6, GoodAnswer
<1> QED
    BY <1>1, <1>2, <1>3

(* An entry is sent up: U and r are the pipes and the queue above.         *)
Forwarded(act, e, c, b) == act = Action(e.act.cmd, e.act.addr, e.act.core, c, b, e.slot, e.act.op)
Memory(act) == [act |-> act, started |-> FALSE, finished |-> Never, returned |-> FALSE]
AskedAbove(c, act, P, U, q, r) ==
    IF c = LLC THEN U = P /\ r = Append(q, Memory(act))
               ELSE U = [P EXCEPT ![LLC] = Enqueued(@, LLC, act)] /\ r = q
Cycles(act, n) == [act |-> act, exit |-> n]

LEMMA MemoryIs ==
    ASSUME NEW act \in Act
    PROVE  Memory(act) \in MemRequest /\ Memory(act).act = act /\ Memory(act).returned = FALSE
    BY DEF MemRequest, Memory, Never

LEMMA CyclesIs ==
    ASSUME NEW act \in Act, NEW n \in Nat
    PROVE  Cycles(act, n) \in Access /\ Cycles(act, n).act = act /\ Cycles(act, n).exit = n
    BY DEF Access, Cycles

LEMMA GoodSendUp ==
    ASSUME NEW P, NEW M, NEW N, NEW q, NEW o, NEW c \in Caches, NEW b \in Banks(c),
           NEW i \in 1 .. Len(M[c][b]), ~M[c][b][i].started, Good(P, M, N, q, o, {}),
           NEW v, SentUp(M[c][b], v, i), NEW S, BankChanged(M, S, c, b, v),
           NEW n, n = IF M[c][b][i].type = "MISS" THEN MissSent(N[c][b]) ELSE N[c][b],
           NEW T, BankChanged(N, T, c, b, n),
           NEW act, Forwarded(act, M[c][b][i], c, b), NEW U, NEW r, AskedAbove(c, act, P, U, q, r)
    PROVE  Good(U, S, T, r, o, {})
<1> DEFINE m == M[c][b]
           e == m[i]
<1>1. /\ BankOK(c, b, m, N[c][b]) /\ OwnedBank(o, c, m) /\ m \in Seq(Slot) /\ N[c][b] \in Counters
      /\ Banked(M) /\ Banked(N) /\ On(P, Caches)
    BY BankAt, GoodParts
<1>2. /\ EntryOK(c, b, e) /\ e \in Slot /\ e.act \in Act /\ e.slot \in 0 .. MSHR_size[c] - 1
    BY <1>1, EntryAt, Zenon
<1>3. /\ act \in Act /\ act.cmd = e.act.cmd /\ act.addr = e.act.addr /\ act.op = e.act.op
      /\ act.prev = c /\ act.bank = b /\ act.index = e.slot
    <2>1. b \in Nat
        BY BankTypes DEF Banks
    <2> QED
        BY <1>2, <2>1 DEF Act, Action, Forwarded
<1>7. Good(P, S, T, q, o, {<<c, b, e.slot>>})
    BY GoodSend
<1>8. KeySet(act) = {<<c, b, e.slot>>}
    BY <1>3, Levels DEF KeySet, Asks, Key
<1>9. CASE c = LLC
    <2> DEFINE x == Memory(act)
    <2>1. x \in MemRequest /\ x.act = act /\ x.returned = FALSE
        BY <1>3, MemoryIs
    <2>2. U = P /\ r = Append(q, x)
        BY <1>9 DEF AskedAbove
    <2> HIDE DEF x
    <2>3. /\ Good(P, S, T, q, o, KeySet(x.act)) /\ x.act.prev = LLC /\ x.act.bank \in Banks(LLC)
          /\ x.act.index \in 0 .. MSHR_size[LLC] - 1
        BY <1>2, <1>3, <1>7, <1>8, <1>9, <2>1
    <2>4. Good(P, S, T, r, o, {})
        BY <2>1, <2>2, <2>3, GoodQueueEnter
    <2> QED
        BY <2>2, <2>4
<1>10. CASE c # LLC
    <2> DEFINE x == Cycles(act, latency[LLC])
               w == Append(P[LLC], x)
    <2>1. LLC \in Caches /\ c \in L1s /\ latency[LLC] \in Nat
        BY <1>10, Levels, BankTypes
    <2>2. x \in Access /\ x.act = act
        BY <1>3, <2>1, CyclesIs
    <2>3. U = [P EXCEPT ![LLC] = w] /\ r = q
        BY <1>10 DEF Cycles, Enqueued, AskedAbove
    <2> HIDE DEF x
    <2>4. Changed(P, U, Caches, LLC, w)
        <3> HIDE DEF w
        <3> QED
            BY <1>1, <2>1, <2>3, ChangedIs
    <2>5. act.cmd = "PREFETCH" => act.bank = BankOf(LLC, act.addr)
        BY <1>2, <1>3, SlotFields DEF EntryOK, Routed
    <2>6. Routed(LLC, act) /\ ActOwned(o, LLC, act)
        BY <1>2, <1>3, <2>1, <2>5, Levels DEF Routed, ActOwned
    <2>7. Good(P, S, T, q, o, KeySet(x.act)) /\ Routed(LLC, x.act) /\ ActOwned(o, LLC, x.act)
        BY <1>7, <1>8, <2>2, <2>6
    <2>8. Good(U, S, T, q, o, {})
        BY <2>1, <2>2, <2>4, <2>7, GoodEnter
    <2> QED
        BY <2>3, <2>8
<1> QED
    BY <1>9, <1>10

(* The slot that MSHR_allocate takes.                                      *)
FirstFree(c, m, slot) == slot = Min((0 .. MSHR_size[c] - 1) \ SlotsOf(m))

(* A dirty block is cast out.                                              *)
CastOut(e, c, b, slot, addr) ==
    e = Entry(slot, "WRITEBACK", Action("WRITEBACK", addr, c, c, b, slot, NoOp))

WBSlot(e, slot, addr) ==
    /\ e \in Slot /\ e.slot = slot /\ e.type = "WRITEBACK" /\ e.started = FALSE /\ e.returned = Never
    /\ e.act.cmd = "WRITEBACK" /\ e.act.addr = addr /\ e.act.op = NoOp

LEMMA CastOutIs ==
    ASSUME NEW c \in Caches, NEW b \in Nat, NEW slot \in Nat, NEW addr \in Blocks,
           NEW e, CastOut(e, c, b, slot, addr)
    PROVE  WBSlot(e, slot, addr)
<1> DEFINE act == Action("WRITEBACK", addr, c, c, b, slot, NoOp)
<1>1. act \in Act /\ act.cmd = "WRITEBACK" /\ act.addr = addr /\ act.op = NoOp
    BY DEF Act, Action, Commands, NoOp
<1>2. e = Entry(slot, "WRITEBACK", act)
    BY DEF CastOut
<1> HIDE DEF act
<1> QED
    BY <1>1, <1>2 DEF Entry, Slot, Never, WBSlot

LEMMA GoodCastOut ==
    ASSUME NEW P, NEW M, NEW N, NEW q, NEW o, Good(P, M, N, q, o, {}), NEW c \in Caches, NEW addr \in Blocks,
           NEW b \in Banks(c), BankOf(c, addr) = b, N[c][b].wb < MSHR_WB_size[c],
           NEW slot, FirstFree(c, M[c][b], slot),
           NEW e, CastOut(e, c, b, slot, addr),
           NEW v, v = Append(M[c][b], e), NEW S, BankChanged(M, S, c, b, v),
           NEW n, n = WBAdded(N[c][b]), NEW T, BankChanged(N, T, c, b, n)
    PROVE  Good(P, S, T, q, o, {})
<1> DEFINE m == M[c][b]
<1>1. b \in Banks(c) /\ MSHR_size[c] \in Nat /\ MSHR_WB_size[c] \in Nat /\ b \in Nat
    BY BankTypes DEF Banks
<1>2. BankOK(c, b, m, N[c][b]) /\ Banked(M) /\ Banked(N) /\ N[c][b] \in Counters
    BY <1>1, BankAt, GoodParts
<1>3. slot \in 0 .. MSHR_size[c] - 1 /\ slot \notin SlotsOf(m)
    <2>1. N[c][b].miss \in Nat /\ N[c][b].wb \in Nat
        BY <1>2 DEF Counters
    <2>2. N[c][b].miss <= MSHR_size[c] - MSHR_WB_size[c]
        BY <1>2 DEF BankOK
    <2>3. N[c][b].miss + N[c][b].wb < MSHR_size[c]
        BY <1>1, <2>1, <2>2
    <2> QED
        BY <1>2, <2>3, FreeSlotExists DEF FirstFree
<1>4. slot \in Nat
    BY <1>1, <1>3
<1>5. WBSlot(e, slot, addr)
    BY <1>1, <1>4, CastOutIs, Zenon
<1>7. Joined(c, b, m, v, e)
    BY <1>1, <1>3, <1>5 DEF Joined, EntryOK, WBSlot
<1> QED
    BY <1>1, <1>5, <1>7, GoodWriteback DEF WBSlot

-----------------------------------------------------------------------------
(* Every action keeps the requests in order.                               *)

GoodNow == Good(pipe, MSHR, num, RQ, op, {})

LEMMA GoodWB ==
    ASSUME GoodNow, NEW c \in Caches, NEW addr \in Blocks, MSHR_WB_available(c, addr),
           NEW S, S = [MSHR EXCEPT ![c][BankOf(c, addr)] = Append(@, WBEntry(c, addr))],
           NEW T, T = [num EXCEPT ![c][BankOf(c, addr)].wb = @ + 1]
    PROVE  Good(pipe, S, T, RQ, op, {})
<1> DEFINE b == BankOf(c, addr)
           slot == MSHR_allocate(c, b)
           e == WBEntry(c, addr)
           v == Append(MSHR[c][b], e)
           n == WBAdded(num[c][b])
<1>1. b \in Banks(c) /\ num[c][b].wb < MSHR_WB_size[c]
    BY BankTypes DEF MSHR_WB_available
<1>2. FirstFree(c, MSHR[c][b], slot)
    BY DEF FirstFree, MSHR_allocate, FreeSlots, SlotsOf
<1>3. CastOut(e, c, b, slot, addr)
    BY DEF CastOut, WBEntry
<1>4. S = [MSHR EXCEPT ![c][b] = v] /\ T = [num EXCEPT ![c][b] = n] /\ BankOf(c, addr) = b
    BY DEF WBAdded
<1>5. Banked(MSHR) /\ Banked(num)
    BY GoodParts DEF GoodNow
<1>6. v = Append(MSHR[c][b], e) /\ n = WBAdded(num[c][b])
    OBVIOUS
<1> HIDE DEF b, slot, e, v, n
<1>7. BankChanged(MSHR, S, c, b, v) /\ BankChanged(num, T, c, b, n)
    BY <1>1, <1>4, <1>5, BankChangedIs
<1> QED
    BY <1>1, <1>2, <1>3, <1>4, <1>6, <1>7, GoodCastOut DEF GoodNow

LEMMA GoodStart ==
    ASSUME GoodNow, NEW c \in Caches, Start(c)
    PROVE  GoodNow'
<1> DEFINE v == Aged(pipe[c])
           w == [b \in Banks(c) |-> AgedSlots(MSHR[c][b])]
<1>1. /\ pipe' = [pipe EXCEPT ![c] = v] /\ MSHR' = [MSHR EXCEPT ![c] = w]
      /\ num' = num /\ RQ' = RQ /\ op' = op
    <2>1. pipe' = [pipe EXCEPT ![c] = v] /\ num' = num /\ RQ' = RQ /\ op' = op
        BY DEF Start, Tick, memory
    <2>2. MSHR' = [MSHR EXCEPT ![c] = w]
        BY DEF Start, Tick
    <2> QED
        BY <2>1, <2>2
<1>2. On(pipe, Caches) /\ Banked(MSHR) /\ PipeOK(op, c, pipe[c])
    BY GoodParts DEF GoodNow
<1>3. v \in Seq(Access) /\ SameActs(pipe[c], v)
    <2>1. pipe[c] \in Seq(Access)
        BY <1>2 DEF PipeOK
    <2>2. ASSUME NEW i \in 1 .. Len(pipe[c])
          PROVE  [pipe[c][i] EXCEPT !.exit = Less(@)] \in Access
                 /\ [pipe[c][i] EXCEPT !.exit = Less(@)].act = pipe[c][i].act
        <3>1. pipe[c][i] \in Access
            BY <2>1
        <3>2. \A t \in Nat : Less(t) \in Nat
            BY DEF Less, Never
        <3>3. Less(pipe[c][i].exit) \in Nat
            BY <3>1, <3>2 DEF Access
        <3> QED
            BY <3>1, <3>3 DEF Access
    <2> QED
        BY <2>1, <2>2 DEF Aged, SameActs
<1>4. On(w, Banks(c)) /\ \A b \in Banks(c) : Older(MSHR[c][b], w[b])
    <2>1. ASSUME NEW b \in Banks(c) PROVE Older(MSHR[c][b], w[b])
        <3>1. MSHR[c][b] \in Seq(Slot)
            BY BankAt DEF GoodNow
        <3> QED
            BY <3>1, OlderIs DEF AgedSlots
    <2> QED
        BY <2>1 DEF On
<1> HIDE DEF v, w
<1>5. Changed(pipe, pipe', Caches, c, v) /\ Changed(MSHR, MSHR', Caches, c, w)
    BY <1>1, <1>2, ChangedIs DEF Banked
<1>6. Good(pipe', MSHR', num, RQ, op, {})
    BY <1>3, <1>4, <1>5, GoodTime DEF GoodNow
<1> QED
    BY <1>1, <1>6 DEF GoodNow

(* send_request_upstream of entry i of bank b.                             *)
LEMMA GoodUpstream ==
    ASSUME GoodNow, NEW c \in Caches, NEW b \in Banks(c), NEW i \in 1 .. Len(MSHR[c][b]),
           ~MSHR[c][b][i].started, MSHR' = [MSHR EXCEPT ![c][b][i].started = TRUE],
           \/ MSHR[c][b][i].type = "WRITEBACK" /\ num' = num
           \/ MSHR[c][b][i].type = "MISS" /\ num' = [num EXCEPT ![c][b].unprocessed = @ - 1],
           NEW w, send_request_upstream(c, b, MSHR[c][b][i], pipe, w), op' = op
    PROVE  GoodNow'
<1> DEFINE e == MSHR[c][b][i]
           act == Action(e.act.cmd, e.act.addr, e.act.core, c, b, e.slot, e.act.op)
<1>1. Forwarded(act, e, c, b)
    BY Zenon DEF Forwarded
<1>2. AskedAbove(c, act, pipe, pipe', RQ, RQ')
    <2>1. c = LLC <=> next_level[c] = MC
        BY Levels
    <2>2. c # LLC => next_level[c] = LLC
        BY Levels
    <2> QED
        BY <2>1, <2>2 DEF send_request_upstream, Memory, AskedAbove
<1> DEFINE v == [MSHR[c][b] EXCEPT ![i].started = TRUE]
           n == IF e.type = "MISS" THEN MissSent(num[c][b]) ELSE num[c][b]
<1>4. /\ Banked(MSHR) /\ Banked(num) /\ MSHR[c][b] \in Seq(Slot) /\ e \in Slot
    BY GoodParts, BankAt DEF GoodNow
<1>5. SentUp(MSHR[c][b], v, i)
    BY <1>4, SentUpIs
<1>6. MSHR' = [MSHR EXCEPT ![c][b] = v]
    OBVIOUS
<1>7. BankChanged(num, num', c, b, n)
    <2>1. CASE e.type = "WRITEBACK"
        BY <1>4, <2>1, NoChange
    <2>2. CASE e.type = "MISS"
        <3>1. num' = [num EXCEPT ![c][b] = MissSent(num[c][b])]
            BY <2>2 DEF MissSent
        <3> QED
            BY <1>4, <2>2, <3>1, BankChangedIs
    <2> QED
        BY <1>4, <2>1, <2>2, SlotFields
<1>8. n = IF e.type = "MISS" THEN MissSent(num[c][b]) ELSE num[c][b]
    OBVIOUS
<1> HIDE DEF act, v, n
<1>9. BankChanged(MSHR, MSHR', c, b, v)
    BY <1>4, <1>6, BankChangedIs
<1>3. Good(pipe', MSHR', num', RQ', op, {})
    BY <1>1, <1>2, <1>5, <1>7, <1>8, <1>9, GoodSendUp DEF GoodNow
<1> QED
    BY <1>3 DEF GoodNow

LEMMA IInvParts ==
    ASSUME IInv
    PROVE  /\ GoodNow /\ ArrayInv /\ FlagInv /\ pc \in Turn
           /\ Banked(MSHR) /\ Banked(num) /\ On(pipe, Caches) /\ op \in Seq(Operation)
           /\ \A c \in Caches : PipeOK(op, c, pipe[c]) /\ MSHROK(op, c, MSHR[c], num[c])
           /\ \A c \in Caches : \A b \in Banks(c) : BankOK(c, b, MSHR[c][b], num[c][b]) /\ MSHR[c][b] \in Seq(Slot)
<1>1. GoodNow /\ ArrayInv /\ FlagInv
    BY DEF IInv, GoodNow
<1>2. pc \in Turn
    BY <1>1 DEF ArrayInv
<1>3. /\ Banked(MSHR) /\ Banked(num) /\ On(pipe, Caches) /\ op \in Seq(Operation)
      /\ \A c \in Caches : PipeOK(op, c, pipe[c]) /\ MSHROK(op, c, MSHR[c], num[c])
    BY <1>1, GoodParts DEF GoodNow
<1>4. \A c \in Caches : \A b \in Banks(c) : BankOK(c, b, MSHR[c][b], num[c][b]) /\ MSHR[c][b] \in Seq(Slot)
    BY <1>3 DEF MSHROK, BankOK
<1> QED
    BY <1>1, <1>2, <1>3, <1>4

LEMMA TurnBankIn ==
    ASSUME pc \in Turn, NEW c \in Caches
    PROVE  TurnBank(c) \in Banks(c)
<1>1. pc.turn \in Nat /\ MSHR_banks[c] \in Nat \ {0}
    BY BankTypes DEF Turn
<1>2. \A t \in Int : \A n \in Nat \ {0} : t % n \in 0 .. n - 1
    OBVIOUS
<1>3. pc.turn - 1 \in Int
    BY <1>1
<1>4. (pc.turn - 1) % MSHR_banks[c] \in 0 .. MSHR_banks[c] - 1
    BY <1>1, <1>2, <1>3
<1> QED
    BY <1>4 DEF TurnBank, Banks

LEMMA MinPlace ==
    ASSUME NEW S, NEW m \in Seq(S), NEW I, I \subseteq 1 .. Len(m), I # {}
    PROVE  Min(I) \in I
<1>1. I \subseteq Nat
    OBVIOUS
<1> QED
    BY <1>1, MinIsLeast, Zenon

LEMMA GoodProcessMSHR_WB ==
    ASSUME IInv, NEW c \in Caches, ProcessMSHR_WB(c)
    PROVE  GoodNow'
<1> DEFINE b == TurnBank(c)
           m == MSHR[c][b]
           waiting == {i \in 1 .. Len(m) : m[i].type = "WRITEBACK" /\ ~m[i].started}
           i == Min(waiting)
<1>1. num' = num /\ op' = op
    BY Zenon DEF ProcessMSHR_WB
<1>2. b \in Banks(c) /\ m \in Seq(Slot) /\ GoodNow
    BY TurnBankIn, IInvParts
<1>3. CASE pc.up /\ waiting # {} /\ UpstreamTakes(c)
    <2>1. MSHR' = [MSHR EXCEPT ![c][b][i].started = TRUE] /\ send_request_upstream(c, b, m[i], pipe, work)
        BY <1>3 DEF ProcessMSHR_WB
    <2>2. i \in waiting
        <3>1. waiting \subseteq 1 .. Len(m)
            BY Zenon
        <3> HIDE DEF waiting, m
        <3> QED
            BY <1>2, <1>3, <3>1, MinPlace, Zenon
    <2>3. i \in 1 .. Len(m) /\ m[i].type = "WRITEBACK" /\ ~m[i].started
        BY <2>2
    <2> HIDE DEF b, i, waiting
    <2> QED
        BY <1>1, <1>2, <2>1, <2>3, GoodUpstream
<1>4. CASE ~(pc.up /\ waiting # {} /\ UpstreamTakes(c))
    <2>1. MSHR' = MSHR /\ pipe' = pipe /\ RQ' = RQ
        BY <1>4 DEF ProcessMSHR_WB
    <2> QED
        BY <1>1, <1>2, <2>1, Zenon DEF GoodNow
<1> QED
    BY <1>3, <1>4

LEMMA UnsentIs ==
    ASSUME NEW c, NEW b, NEW cmds, Unsent(c, b, cmds) # {}, MSHR[c][b] \in Seq(Slot)
    PROVE  LET i == Min(Unsent(c, b, cmds))
           IN  i \in 1 .. Len(MSHR[c][b]) /\ MSHR[c][b][i].type = "MISS" /\ ~MSHR[c][b][i].started
<1> DEFINE I == Unsent(c, b, cmds)
<1>1. I \in SUBSET (1 .. Len(MSHR[c][b])) /\ \A i \in I : MSHR[c][b][i].type = "MISS" /\ ~MSHR[c][b][i].started
    BY DEF Unsent
<1> HIDE DEF I
<1>2. Min(I) \in I
    <2>1. I \subseteq 1 .. Len(MSHR[c][b]) /\ I # {}
        BY <1>1 DEF I
    <2> QED
        BY <2>1, MinPlace, Zenon
<1> QED
    BY <1>1, <1>2 DEF I

LEMMA GoodProcessMSHR ==
    ASSUME IInv, NEW c \in Caches, ProcessMSHR(c)
    PROVE  GoodNow'
<1> DEFINE Senders(k) == {b \in Banks(c) : /\ pc.up /\ UpstreamTakes(c)
                                            /\ num[c][b].unprocessed > 0
                                            /\ Unsent(c, b, cmd_order[k]) # {}}
           ranks == {k \in 1 .. Len(cmd_order) : Senders(k) # {}}
           k == Min(ranks)
           b == Min(Senders(k))
           i == Min(Unsent(c, b, cmd_order[k]))
<1>1. op' = op /\ GoodNow
    BY IInvParts, Zenon DEF ProcessMSHR
<1>2. CASE ranks # {}
    <2>1. /\ MSHR' = [MSHR EXCEPT ![c][b][i].started = TRUE]
          /\ num' = [num EXCEPT ![c][b].unprocessed = @ - 1]
          /\ send_request_upstream(c, b, MSHR[c][b][i], pipe, EndFlag(work, c, TRUE))
        BY <1>2, Zenon DEF ProcessMSHR
    <2>2. Senders(k) # {}
        <3>1. Len(cmd_order) \in Nat
            BY RequestsAssumption
        <3>2. k \in ranks
            <4>1. ranks \subseteq Nat
                BY <3>1
            <4> HIDE DEF ranks
            <4> QED
                BY <1>2, <4>1, MinIsLeast, Zenon
        <3> QED
            BY <3>2
    <2>3. b \in Banks(c) /\ Unsent(c, b, cmd_order[k]) # {}
        <3>1. Banks(c) \subseteq Nat
            BY BankTypes DEF Banks
        <3>2. Senders(k) \subseteq Nat
            BY <3>1
        <3>3. b \in Senders(k)
            BY <2>2, <3>2, MinIsLeast, Zenon
        <3> QED
            BY <3>3
    <2> HIDE DEF b, k
    <2>4. i \in 1 .. Len(MSHR[c][b]) /\ MSHR[c][b][i].type = "MISS" /\ ~MSHR[c][b][i].started
        BY <2>3, IInvParts, UnsentIs
    <2> HIDE DEF i
    <2> QED
        BY <1>1, <2>1, <2>3, <2>4, GoodUpstream, Zenon
<1>3. CASE ranks = {}
    <2>1. MSHR' = MSHR /\ num' = num /\ pipe' = pipe /\ RQ' = RQ
        BY <1>3, Zenon DEF ProcessMSHR
    <2> QED
        BY <1>1, <2>1 DEF GoodNow
<1> QED
    BY <1>2, <1>3

LEMMA GoodDrop ==
    ASSUME IInv, NEW c \in Caches, DropMSHR_WB(c)
    PROVE  GoodNow'
<1> DEFINE Over(b) == {i \in {j \in 1 .. Len(MSHR[c][b]) : MSHR[c][b][j].type = "WRITEBACK" /\ MSHR[c][b][j].started} :
                         MSHR[c][b][i].returned = 0}
<1>1. pipe' = pipe /\ op' = op /\ RQ' = RQ /\ GoodNow /\ Banked(MSHR) /\ Banked(num)
    BY IInvParts DEF DropMSHR_WB, memory
<1>2. ASSUME NEW b \in Banks(c), Over(b) # {},
             num' = [num EXCEPT ![c][b] = MSHR_deallocate(@, MSHR[c][b][Min(Over(b))])],
             MSHR' = [MSHR EXCEPT ![c][b] = RemoveAt(@, Min(Over(b)))]
      PROVE  GoodNow'
    <2> DEFINE i == Min(Over(b))
               v == RemoveAt(MSHR[c][b], i)
               n == MSHR_deallocate(num[c][b], MSHR[c][b][i])
    <2>1. MSHR[c][b] \in Seq(Slot)
        BY IInvParts
    <2>2. i \in Over(b)
        <3> DEFINE I == Over(b)
        <3>1. I \subseteq 1 .. Len(MSHR[c][b]) /\ I # {}
            BY <1>2
        <3> HIDE DEF I
        <3>2. Min(I) \in I
            BY <2>1, <3>1, MinPlace, Zenon
        <3> QED
            BY <3>2, Zenon DEF I
    <2>3. /\ i \in 1 .. Len(MSHR[c][b]) /\ MSHR[c][b][i].type = "WRITEBACK" /\ MSHR[c][b][i].returned = 0
        BY <2>2, Zenon
    <2>4. MSHR[c][b][i].returned # Never
        BY <2>3 DEF Never
    <2>5. MSHR' = [MSHR EXCEPT ![c][b] = v] /\ num' = [num EXCEPT ![c][b] = n]
        BY <1>2
    <2>6. v = RemoveAt(MSHR[c][b], i) /\ n = MSHR_deallocate(num[c][b], MSHR[c][b][i])
        OBVIOUS
    <2> HIDE DEF v, n, i
    <2>7. BankChanged(MSHR, MSHR', c, b, v) /\ BankChanged(num, num', c, b, n)
        BY <1>1, <2>5, BankChangedIs
    <2>8. Gone(MSHR[c][b][i]) = {}
        BY <2>3 DEF Gone
    <2>9. Good(pipe, MSHR', num', RQ, op, Gone(MSHR[c][b][i]))
        BY <1>1, <2>3, <2>4, <2>6, <2>7, GoodFree DEF GoodNow
    <2> QED
        BY <1>1, <2>8, <2>9 DEF GoodNow
<1>3. ASSUME MSHR' = MSHR, num' = num PROVE GoodNow'
    BY <1>1, <1>3 DEF GoodNow
<1> QED
    BY <1>2, <1>3, Zenon DEF DropMSHR_WB

LEMMA AnswerReplies ==
    ASSUME NEW act, NEW m, NEW w, Answer(act, m, w)
    PROVE  SharingDelay(act) \in 0 .. Never - 1 /\ Replied(act, m, MSHR', op, op', SharingDelay(act))
<1>1. SharingDelay(act) \in 0 .. Never - 1
    BY TimesAssumption DEF SharingDelay, Never
<1>2. Replied(act, m, MSHR', op, op', SharingDelay(act))
    BY DEF Answer, Replied, Live
<1> QED
    BY <1>1, <1>2

(* The request act, which is nowhere for the moment, is answered.          *)
LEMMA GoodAnswered ==
    ASSUME NEW P, NEW m, NEW n, NEW act, NEW w, Answer(act, m, w), Good(P, m, n, RQ, op, KeySet(act)),
           Answerable(op, act), pipe' = P, num' = n, RQ' = RQ
    PROVE  GoodNow'
<1>1. SharingDelay(act) \in 0 .. Never - 1 /\ Replied(act, m, MSHR', op, op', SharingDelay(act))
    BY AnswerReplies
<1>2. Good(P, MSHR', n, RQ, op', {})
    BY <1>1, GoodReply
<1> QED
    BY <1>2 DEF GoodNow

LEMMA GoodProcessMSHR_fill ==
    ASSUME IInv, NEW c \in Caches, ProcessMSHR_fill(c)
    PROVE  GoodNow'
<1> DEFINE b == TurnBank(c)
           i == Min(Returned(c, b))
           e == MSHR[c][b][i]
           found == num[c][b].fill > 0
           ready == /\ found /\ Returned(c, b) # {} /\ cache_fillable(c)
                    /\ can_schedule_downstream(e.act.prev)
           v == RemoveAt(MSHR[c][b], i)
           n == MSHR_deallocate(num[c][b], e)
<1>1. pipe' = pipe /\ RQ' = RQ
    BY DEF ProcessMSHR_fill, memory
<1>2. /\ b \in Banks(c) /\ MSHR[c][b] \in Seq(Slot) /\ GoodNow /\ Banked(MSHR) /\ Banked(num)
      /\ BankOK(c, b, MSHR[c][b], num[c][b]) /\ MSHROK(op, c, MSHR[c], num[c])
    BY TurnBankIn, IInvParts
<1>3. CASE ready
    <2> DEFINE S == [MSHR EXCEPT ![c][b] = RemoveAt(@, i)]
    <2>1. PICK w : num' = [num EXCEPT ![c][b] = MSHR_deallocate(@, e)] /\ Answer(e.act, S, w)
        BY <1>3 DEF ProcessMSHR_fill
    <2>2. i \in Returned(c, b)
        <3> DEFINE I == Returned(c, b)
        <3>1. I \subseteq 1 .. Len(MSHR[c][b]) /\ I # {}
            BY <1>3 DEF Returned
        <3> HIDE DEF I
        <3>2. Min(I) \in I
            BY <1>2, <3>1, MinPlace, Zenon
        <3> QED
            BY <3>2 DEF I
    <2>3. i \in 1 .. Len(MSHR[c][b]) /\ e.type = "MISS" /\ e.returned # Never
        BY <2>2 DEF Returned, Never
    <2>4. Routed(c, e.act) /\ ActOwned(op, c, e.act)
        <3>1. EntryOK(c, b, e)
            BY <1>2, <2>3, EntryAt
        <3>2. ActOwned(op, c, e.act)
            BY <1>2, <2>3 DEF MSHROK, OwnedBank
        <3> QED
            BY <2>3, <3>1, <3>2 DEF EntryOK
    <2>5. Answerable(op, e.act)
        BY <2>4, RoutedAnswerable
    <2>6. S = [MSHR EXCEPT ![c][b] = v] /\ num' = [num EXCEPT ![c][b] = n]
        BY <2>1
    <2>7. v = RemoveAt(MSHR[c][b], i) /\ n = MSHR_deallocate(num[c][b], MSHR[c][b][i])
        OBVIOUS
    <2>8. Gone(MSHR[c][b][i]) = KeySet(e.act)
        BY <2>3 DEF Gone
    <2>9. MSHR[c][b][i].returned # Never /\ i \in 1 .. Len(MSHR[c][b])
        BY <2>3
    <2> DEFINE act == e.act
    <2> HIDE DEF S, v, n, i, e, b
    <2>10. BankChanged(MSHR, S, c, b, v) /\ BankChanged(num, num', c, b, n)
        BY <1>2, <2>6, BankChangedIs
    <2>11. Good(pipe, S, num', RQ, op, Gone(MSHR[c][b][i]))
        BY <1>2, <2>7, <2>9, <2>10, GoodFree DEF GoodNow
    <2>12. Good(pipe, S, num', RQ, op, KeySet(act)) /\ Answerable(op, act) /\ Answer(act, S, w)
        BY <2>1, <2>5, <2>8, <2>11
    <2> HIDE DEF act
    <2> QED
        BY <1>1, <2>12, GoodAnswered, Zenon
<1>4. CASE ~ready
    <2>1. MSHR' = MSHR /\ num' = num /\ op' = op
        BY <1>4 DEF ProcessMSHR_fill
    <2> QED
        BY <1>1, <1>2, <2>1 DEF GoodNow
<1> QED
    BY <1>3, <1>4

LEMMA GoodPipeWaits ==
    ASSUME IInv, NEW c \in Caches, PipeWaits(c)
    PROVE  GoodNow'
    BY IInvParts DEF PipeWaits, GoodNow, memory

LEMMA GoodPipeMiss ==
    ASSUME IInv, NEW c \in Caches, PipeMiss(c)
    PROVE  GoodNow'
<1>1. RQ' = RQ /\ op' = op
    BY DEF PipeMiss, memory
<1>2. PICK i \in 1 .. Len(pipe[c]) :
        LET act == pipe[c][i].act
        IN  IF MSHR_available(c, act.addr)
            THEN MSHR_insert(c, act) /\ pipe' = [pipe EXCEPT ![c] = RemoveAt(@, i)]
            ELSE UNCHANGED <<MSHR, num, pipe>>
    BY DEF PipeMiss
<1> DEFINE act == pipe[c][i].act
           b == BankOf(c, act.addr)
           slot == MSHR_allocate(c, b)
           e == Entry(slot, "MISS", act)
           p == RemoveAt(pipe[c], i)
           v == Append(MSHR[c][b], e)
           n == MissAdded(num[c][b], e.act.cmd = "PREFETCH")
<1>3. /\ GoodNow /\ Banked(MSHR) /\ Banked(num) /\ On(pipe, Caches) /\ PipeOK(op, c, pipe[c])
    BY IInvParts
<1>4. act \in Act /\ Routed(c, act) /\ ActOwned(op, c, act) /\ act.addr \in Blocks
    BY <1>3, AccessAct DEF Act
<1>5. b \in Banks(c) /\ b \in Nat
    BY <1>4, BankTypes, SMTT(20) DEF Banks
<1>6. BankOK(c, b, MSHR[c][b], num[c][b]) /\ num[c][b] \in Counters
    BY <1>5, IInvParts DEF BankOK
<1>7. CASE MSHR_available(c, act.addr)
    <2>1. pipe' = [pipe EXCEPT ![c] = p]
        BY <1>2, <1>7
    <2>2. num[c][b].miss < MSHR_size[c] - MSHR_WB_size[c]
        BY <1>7 DEF MSHR_available
    <2>3. slot \in 0 .. MSHR_size[c] - 1 /\ slot \notin SlotsOf(MSHR[c][b])
        <3>1. num[c][b].miss \in Nat /\ num[c][b].wb \in Nat
            BY <1>6, Zenon DEF Counters
        <3>2. num[c][b].wb <= MSHR_WB_size[c] /\ MSHR_size[c] \in Nat /\ MSHR_WB_size[c] \in Nat
            BY <1>6, BankTypes, Zenon DEF BankOK
        <3>3. num[c][b].miss + num[c][b].wb < MSHR_size[c]
            BY <2>2, <3>1, <3>2
        <3>4. FreeSlots(c, b) = (0 .. MSHR_size[c] - 1) \ SlotsOf(MSHR[c][b])
            BY DEF FreeSlots, SlotsOf
        <3> QED
            BY <1>6, <3>3, <3>4, FreeSlotExists, Zenon DEF MSHR_allocate
    <2>4. /\ e \in Slot /\ e.slot = slot /\ e.type = "MISS" /\ e.act = act
          /\ e.started = FALSE /\ e.returned = Never
        <3> HIDE DEF act, slot
        <3>1. slot \in Nat
            BY <2>3, BankTypes
        <3> QED
            BY <1>4, <3>1 DEF Entry, Slot, Never
    <2>5. MSHR' = [MSHR EXCEPT ![c][b] = v]
        BY <1>2, <1>7, Zenon DEF MSHR_insert
    <2>6. num' = [num EXCEPT ![c][b] = n]
        <3> DEFINE counted == [num[c] EXCEPT ![b].miss = @ + 1, ![b].fill = @ + 1, ![b].unprocessed = @ + 1]
                   k == num[c][b]
        <3>1. num' = [num EXCEPT ![c] = IF act.cmd = "PREFETCH" THEN [counted EXCEPT ![act.bank].pf = @ + 1]
                                        ELSE counted]
            BY <1>2, <1>7, Zenon DEF MSHR_insert
        <3>2. act.cmd = "PREFETCH" => act.bank = b
            BY <1>4 DEF Routed
        <3>3. On(num[c], Banks(c))
            BY <1>3 DEF Banked
        <3>4. counted = [num[c] EXCEPT ![b] = MissCounted(k)]
            BY <1>5, <3>3, Zenon DEF MissCounted, On
        <3> HIDE DEF counted
        <3>5. counted[b] = MissCounted(k) /\ On(counted, Banks(c))
            BY <1>5, <3>3, <3>4, Zenon DEF On
        <3>6. (IF act.cmd = "PREFETCH" THEN [counted EXCEPT ![act.bank].pf = @ + 1] ELSE counted)
                = [num[c] EXCEPT ![b] = n]
            <4>1. CASE act.cmd = "PREFETCH"
                <5>1. n = [MissCounted(k) EXCEPT !.pf = @ + 1]
                    BY <2>4, <4>1 DEF MissAdded
                <5>2. [counted EXCEPT ![b].pf = @ + 1] = [counted EXCEPT ![b] = n]
                    BY <3>5, <5>1, Zenon
                <5>3. [counted EXCEPT ![b] = n] = [num[c] EXCEPT ![b] = n]
                    <6> HIDE DEF n
                    <6> QED
                        BY <1>5, <3>3, <3>4 DEF On
                <5> QED
                    BY <3>2, <4>1, <5>2, <5>3, Zenon
            <4>2. CASE act.cmd # "PREFETCH"
                <5>1. n = MissCounted(k)
                    BY <2>4, <4>2 DEF MissAdded
                <5> QED
                    BY <3>4, <4>2, <5>1
            <4> QED
                BY <4>1, <4>2, Zenon
        <3> HIDE DEF n
        <3> QED
            BY <3>1, <3>6, Zenon
    <2>7. Joined(c, b, MSHR[c][b], v, e)
        BY <1>4, <2>3, <2>4 DEF Joined, EntryOK
    <2>8. n = MissAdded(num[c][b], e.act.cmd = "PREFETCH") /\ p = RemoveAt(pipe[c], i)
        OBVIOUS
    <2>9. ActOwned(op, c, e.act) /\ e.type = "MISS"
        BY <1>4, <2>4
    <2>10. Changed(pipe, pipe', Caches, c, p)
        <3> HIDE DEF p
        <3> QED
            BY <1>3, <2>1, ChangedIs
    <2>11. Good(pipe', MSHR, num, RQ, op, KeySet(pipe[c][i].act))
        <3> HIDE DEF p, act
        <3> QED
            BY <1>3, <2>8, <2>10, GoodLeave DEF GoodNow
    <2>12. Good(pipe', MSHR, num, RQ, op, KeySet(e.act))
        BY <2>4, <2>11
    <2> HIDE DEF act, b, slot, e, v, n
    <2>13. BankChanged(MSHR, MSHR', c, b, v) /\ BankChanged(num, num', c, b, n)
        BY <1>3, <1>5, <2>5, <2>6, BankChangedIs
    <2>14. Good(pipe', MSHR', num', RQ, op, {})
        BY <1>5, <2>2, <2>7, <2>8, <2>9, <2>12, <2>13, GoodMiss
    <2> QED
        BY <1>1, <2>14 DEF GoodNow
<1>8. CASE ~MSHR_available(c, act.addr)
    BY <1>1, <1>2, <1>3, <1>8 DEF GoodNow
<1> QED
    BY <1>7, <1>8

(* Access i leaves the pipe and is answered.                               *)
LEMMA GoodPipeAnswer ==
    ASSUME NEW c \in Caches, NEW S, NEW T, Good(pipe, S, T, RQ, op, {}), NEW i \in 1 .. Len(pipe[c]),
           pipe' = [pipe EXCEPT ![c] = RemoveAt(@, i)], num' = T, RQ' = RQ,
           NEW w, Answer(pipe[c][i].act, S, w)
    PROVE  GoodNow'
<1> DEFINE p == RemoveAt(pipe[c], i)
           act == pipe[c][i].act
<1>1. On(pipe, Caches) /\ PipeOK(op, c, pipe[c])
    BY GoodParts, Zenon
<1>2. Answerable(op, act)
    BY <1>1, AccessAct, RoutedAnswerable
<1>3. pipe' = [pipe EXCEPT ![c] = p] /\ p = RemoveAt(pipe[c], i)
    OBVIOUS
<1> HIDE DEF p, act
<1>4. Changed(pipe, pipe', Caches, c, p)
    BY <1>1, <1>3, ChangedIs
<1>5. Good(pipe', S, T, RQ, op, KeySet(pipe[c][i].act))
    BY <1>3, <1>4, GoodLeave
<1>6. Good(pipe', S, T, RQ, op, KeySet(act)) /\ Answer(act, S, w)
    BY <1>5 DEF act
<1> QED
    BY <1>2, <1>6, GoodAnswered

LEMMA PipeAddr ==
    ASSUME IInv, NEW c \in Caches, NEW i \in 1 .. Len(pipe[c])
    PROVE  pipe[c][i].act.addr \in Blocks
<1>1. pipe[c][i].act \in Act
    BY IInvParts, AccessAct
<1> QED
    BY <1>1 DEF Act

LEMMA GoodPipeHit ==
    ASSUME IInv, NEW c \in Caches, PipeHit(c)
    PROVE  GoodNow'
<1>1. RQ' = RQ /\ GoodNow
    BY IInvParts, Zenon DEF PipeHit, memory
<1>2. PICK i \in 1 .. Len(pipe[c]) :
        LET act == pipe[c][i].act
            through == IF WritesThrough(c, act)
                       THEN [MSHR EXCEPT ![c][BankOf(c, act.addr)] = Append(@, WBEntry(c, act.addr))]
                       ELSE MSHR
        IN  \/ UNCHANGED <<pipe, MSHR, num, op>>
            \/ /\ WritesThrough(c, act) => MSHR_WB_available(c, act.addr)
               /\ pipe' = [pipe EXCEPT ![c] = RemoveAt(@, i)]
               /\ num' = IF WritesThrough(c, act)
                         THEN [num EXCEPT ![c][BankOf(c, act.addr)].wb = @ + 1] ELSE num
               /\ \E w : Answer(act, through, w)
    <2>1. PICK i \in 1 .. Len(pipe[c]) :
            LET act == pipe[c][i].act
                stalls == \/ WritesThrough(c, act) /\ ~MSHR_WB_available(c, act.addr)
                          \/ ~can_schedule_downstream(act.prev)
                through == IF WritesThrough(c, act)
                           THEN [MSHR EXCEPT ![c][BankOf(c, act.addr)] = Append(@, WBEntry(c, act.addr))]
                           ELSE MSHR
            IN  \/ UNCHANGED <<pipe, MSHR, num, PFF, op>>
                \/ /\ ~stalls
                   /\ pipe' = [pipe EXCEPT ![c] = RemoveAt(@, i)]
                   /\ num' = IF WritesThrough(c, act)
                             THEN [num EXCEPT ![c][BankOf(c, act.addr)].wb = @ + 1] ELSE num
                   /\ Answer(act, through, EndFlag(IF WritesThrough(c, act) THEN AllocFlags(work, c)
                                                   ELSE work, c, TRUE))
        BY Zenon DEF PipeHit
    <2> QED
        BY <2>1, Zenon
<1> DEFINE act == pipe[c][i].act
           through == IF WritesThrough(c, act)
                      THEN [MSHR EXCEPT ![c][BankOf(c, act.addr)] = Append(@, WBEntry(c, act.addr))]
                      ELSE MSHR
<1>3. CASE UNCHANGED <<pipe, MSHR, num, op>>
    BY <1>1, <1>3 DEF GoodNow
<1>4. CASE ~UNCHANGED <<pipe, MSHR, num, op>>
    <2>1. /\ WritesThrough(c, act) => MSHR_WB_available(c, act.addr)
          /\ pipe' = [pipe EXCEPT ![c] = RemoveAt(@, i)]
          /\ num' = IF WritesThrough(c, act) THEN [num EXCEPT ![c][BankOf(c, act.addr)].wb = @ + 1] ELSE num
          /\ \E w : Answer(act, through, w)
        BY <1>2, <1>4, Zenon
    <2>2. PICK w : Answer(act, through, w)
        BY <2>1, Zenon
    <2>3. Good(pipe, through, num', RQ, op, {})
        <3>1. CASE WritesThrough(c, act)
            <4>1. act.addr \in Blocks
                BY PipeAddr
            <4>2. /\ through = [MSHR EXCEPT ![c][BankOf(c, act.addr)] = Append(@, WBEntry(c, act.addr))]
                  /\ num' = [num EXCEPT ![c][BankOf(c, act.addr)].wb = @ + 1] /\ MSHR_WB_available(c, act.addr)
                BY <2>1, <3>1, Zenon
            <4> HIDE DEF through, act
            <4> QED
                BY <1>1, <4>1, <4>2, GoodWB, Zenon
        <3>2. CASE ~WritesThrough(c, act)
            BY <1>1, <2>1, <3>2 DEF GoodNow
        <3> QED
            BY <3>1, <3>2
    <2> HIDE DEF through
    <2> QED
        BY <1>1, <2>1, <2>2, <2>3, GoodPipeAnswer, Zenon
<1> QED
    BY <1>3, <1>4

LEMMA VictimOK ==
    ASSUME IInv, Configured, NEW c \in Caches, NEW s \in 0 .. Sets[c] - 1,
           NEW v \in cache_get_evictee(Policy[c], blocks[c][s])
    PROVE  /\ v.at \in 1 .. Assoc[c] /\ SameBlocks(blocks[c][s], v.set, Assoc[c], Tags(c, s))
           /\ SetOK(v.set, Assoc[c], Tags(c, s))
           /\ \A tag : Absent(blocks[c][s], Assoc[c], tag) => Absent(v.set, Assoc[c], tag)
           /\ v.set[v.at].valid => v.set[v.at].tag \in Blocks /\ SetOf(c, v.set[v.at].tag) = s
<1>1. SetOK(blocks[c][s], Assoc[c], Tags(c, s))
    BY IInvParts DEF ArrayInv, BlocksOK
<1>2. /\ Assoc[c] \in Nat /\ Assoc[c] > 0 /\ Policy[c] \in Policies \ {"PLRU"}
      /\ Policy[c] = "CLOCK" => Assoc[c] > 1
    BY SizesAssumption DEF Configured, Pos
<1>3. v.at \in 1 .. Assoc[c] /\ SameBlocks(blocks[c][s], v.set, Assoc[c], Tags(c, s))
    BY <1>1, <1>2, EvicteeOK
<1>4. /\ SetOK(v.set, Assoc[c], Tags(c, s))
      /\ \A tag : Absent(blocks[c][s], Assoc[c], tag) <=> Absent(v.set, Assoc[c], tag)
    BY <1>1, <1>2, <1>3, SameBlocksOK DEF SameBlocks
<1>5. v.set[v.at].valid => v.set[v.at].tag \in Tags(c, s)
    BY <1>3, <1>4 DEF SetOK
<1> QED
    BY <1>3, <1>4, <1>5 DEF Tags

LEMMA GoodPipeBufferHit ==
    ASSUME IInv, Configured, NEW c \in Caches, PipeBufferHit(c)
    PROVE  GoodNow'
<1>1. RQ' = RQ /\ GoodNow /\ ArrayInv
    BY IInvParts DEF PipeBufferHit, memory
<1>2. PICK i \in 1 .. Len(pipe[c]) :
        /\ InBuffer(c, pipe[c][i].act)
        /\ \E v \in cache_get_evictee(Policy[c], blocks[c][SetOf(c, pipe[c][i].act.addr)]) :
             BufferHit(c, pipe[c][i].act, v)
        /\ pipe' = [pipe EXCEPT ![c] = RemoveAt(@, i)]
    BY Zenon DEF PipeBufferHit, TagSet
<1> DEFINE act == pipe[c][i].act
           s == SetOf(c, act.addr)
<1>3. PICK v \in cache_get_evictee(Policy[c], blocks[c][s]) : BufferHit(c, act, v)
    BY <1>2
<1> DEFINE victim == v.set[v.at]
           tag == victim.tag
           wb == (victim.valid /\ victim.dirty /\ write_back[c]) /\ MSHR_WB_available(c, act.addr)
           S == IF wb THEN [MSHR EXCEPT ![c][BankOf(c, tag)] = Append(@, WBEntry(c, tag))] ELSE MSHR
<1>13. num' = IF wb THEN [num EXCEPT ![c][BankOf(c, tag)].wb = @ + 1] ELSE num
    BY <1>3, Zenon DEF BufferHit
<1>4. PICK w : Answer(act, S, w)
    BY <1>3, Zenon DEF BufferHit
<1>5. act.addr \in Blocks /\ s \in 0 .. Sets[c] - 1
    BY PipeAddr, BankTypes
<1>6. victim.valid => tag \in Blocks /\ SetOf(c, tag) = s
    BY <1>5, VictimOK
<1>7. PF_buffer_size[c] > 0
    <2>1. PF_buffer[c] \in Seq(Blocks) /\ Len(PF_buffer[c]) <= PF_buffer_size[c] /\ PF_buffer_size[c] \in Nat
        BY <1>1, BankTypes DEF ArrayInv, AddrsOK
    <2>2. \E k \in 1 .. Len(PF_buffer[c]) : TRUE
        BY <1>2 DEF InBuffer
    <2> QED
        BY <2>1, <2>2
<1>8. wb => tag \in Blocks /\ MSHR_WB_available(c, tag)
    <2>1. ASSUME wb PROVE tag \in Blocks /\ MSHR_WB_available(c, tag)
        <3>1. tag \in Blocks /\ BankOf(c, tag) = BankOf(c, act.addr)
            BY <1>5, <1>6, <1>7, <2>1, Zenon DEF Configured
        <3> QED
            BY <2>1, <3>1 DEF MSHR_WB_available
    <2> QED
        BY <2>1
<1>9. Good(pipe, S, num', RQ, op, {})
    <2>1. CASE wb
        <3>1. /\ S = [MSHR EXCEPT ![c][BankOf(c, tag)] = Append(@, WBEntry(c, tag))]
              /\ num' = [num EXCEPT ![c][BankOf(c, tag)].wb = @ + 1]
            BY <1>13, <2>1, Zenon
        <3>2. tag \in Blocks /\ MSHR_WB_available(c, tag)
            BY <1>8, <2>1
        <3> HIDE DEF S, tag
        <3> QED
            BY <1>1, <3>1, <3>2, GoodWB
    <2>2. CASE ~wb
        BY <1>1, <1>13, <2>2, Zenon DEF GoodNow
    <2> QED
        BY <2>1, <2>2
<1>10. pipe' = [pipe EXCEPT ![c] = RemoveAt(@, i)] /\ Answer(pipe[c][i].act, S, w)
    BY <1>2, <1>4, Zenon
<1> HIDE DEF S
<1> QED
    BY <1>1, <1>9, <1>10, GoodPipeAnswer

LEMMA FillAddr ==
    ASSUME IInv, NEW c \in Caches, NEW i \in 1 .. Len(fill[c])
    PROVE  fill[c][i].addr \in Blocks /\ fill[c][i] \in Fill
<1>1. fill[c] \in Seq(Fill)
    BY IInvParts DEF ArrayInv, FillsOK
<1>2. fill[c][i] \in Fill
    BY <1>1
<1> QED
    BY <1>2 DEF Fill

LEMMA GoodProcessFills ==
    ASSUME IInv, Configured, NEW c \in Caches, ProcessFills(c)
    PROVE  GoodNow'
<1>1. pipe' = pipe /\ RQ' = RQ /\ op' = op /\ GoodNow
    BY IInvParts DEF ProcessFills, memory
<1>2. CASE UNCHANGED <<MSHR, num>>
    BY <1>1, <1>2 DEF GoodNow
<1>3. CASE ~UNCHANGED <<MSHR, num>>
    <2>0. PICK i \in Roots(fill[c]) :
            \E v \in cache_get_evictee(Policy[c], blocks[c][SetOf(c, fill[c][i].addr)]) :
              WriteFill(c, i, SetOf(c, fill[c][i].addr), v)
        BY <1>3 DEF ProcessFills
    <2>1. PICK v \in cache_get_evictee(Policy[c], blocks[c][SetOf(c, fill[c][i].addr)]) :
            WriteFill(c, i, SetOf(c, fill[c][i].addr), v)
        BY <2>0
    <2> DEFINE victim == v.set[v.at]
               tag == victim.tag
               s == SetOf(c, fill[c][i].addr)
    <2>2. /\ victim.valid /\ MSHR_WB_available(c, tag) /\ MSHR_WB_insert(c, tag)
        BY <1>3, <2>1 DEF WriteFill
    <2>3. s \in 0 .. Sets[c] - 1
        BY FillAddr, BankTypes DEF Roots
    <2>4. tag \in Blocks
        BY <2>1, <2>2, <2>3, VictimOK, Zenon
    <2>5. /\ MSHR' = [MSHR EXCEPT ![c][BankOf(c, tag)] = Append(@, WBEntry(c, tag))]
          /\ num' = [num EXCEPT ![c][BankOf(c, tag)].wb = @ + 1]
        BY <2>2 DEF MSHR_WB_insert
    <2> HIDE DEF tag
    <2>6. Good(pipe, MSHR', num', RQ, op, {})
        BY <1>1, <2>2, <2>4, <2>5, GoodWB
    <2> QED
        BY <1>1, <2>6 DEF GoodNow
<1> QED
    BY <1>2, <1>3

LEMMA ActionIs ==
    ASSUME NEW cmd \in Commands, NEW addr \in Blocks, NEW core \in Caches, NEW prev \in Caches \cup {NoCache},
           NEW b \in Nat, NEW i \in Nat, NEW o \in Nat, NEW act, act = Action(cmd, addr, core, prev, b, i, o)
    PROVE  /\ act \in Act /\ act.cmd = cmd /\ act.addr = addr /\ act.core = core /\ act.prev = prev
           /\ act.bank = b /\ act.index = i /\ act.op = o
    BY DEF Action, Act

LEMMA GoodRequest ==
    ASSUME IInv, NEW c \in L1s, NEW cmd \in {"READ", "WRITE"}, NEW addr \in Blocks, Request(c, cmd, addr)
    PROVE  GoodNow'
<1> DEFINE o == Len(op) + 1
           act == Action(cmd, addr, c, NoCache, 0, 0, o)
           x == Cycles(act, latency[c])
           y == [core |-> c, live |-> TRUE, translated |-> o \notin Late, answers |-> 0]
           v == Append(pipe[c], x)
<1>1. /\ GoodNow /\ On(pipe, Caches) /\ op \in Seq(Operation) /\ c \in Caches
      /\ MSHR' = MSHR /\ num' = num /\ RQ' = RQ /\ op' = Append(op, y)
      /\ pipe' = [pipe EXCEPT ![c] = v]
    <2>1. MSHR' = MSHR /\ num' = num /\ RQ' = RQ /\ op' = Append(op, y)
        BY DEF Request, memory
    <2>2. pipe' = [pipe EXCEPT ![c] = v]
        BY DEF Request, Enqueued, Cycles
    <2> QED
        BY <2>1, <2>2, IInvParts, Levels
<1>2. o \in Nat \ {0} /\ o = Len(op) + 1
    BY <1>1
<1>3. y \in Operation /\ y.live = TRUE /\ y.answers = 0 /\ y.core = c
    BY DEF Operation
<1>4. /\ act \in Act /\ act.cmd = cmd /\ act.prev = NoCache /\ act.op = o
    <2>1. cmd \in Commands /\ 0 \in Nat /\ NoCache \in Caches \cup {NoCache} /\ o \in Nat
        BY <1>2 DEF Commands
    <2>2. c \in Caches
        BY Levels
    <2> HIDE DEF o
    <2> QED
        BY <2>1, <2>2 DEF Action, Act
<1> HIDE DEF act
<1>5. x \in Access /\ x.act = act
    <2>1. latency[c] \in Nat
        BY <1>1, BankTypes
    <2> QED
        BY <1>4, <2>1, CyclesIs
<1>6. Len(op') = o /\ op'[o] = y
    BY <1>1, <1>2
<1> HIDE DEF y, x
<1>7. Good(pipe, MSHR, num, RQ, op', {<<NoCache, 0, o>>})
    BY <1>1, <1>2, <1>3, GoodNewOp DEF GoodNow
<1> HIDE DEF o
<1>8. Routed(c, x.act)
    <2>1. cmd # "PREFETCH" /\ c # LLC /\ NoCache \notin L1s
        BY Levels
    <2> QED
        BY <1>4, <1>5, <2>1 DEF Routed
<1>9. ActOwned(op', c, x.act)
    BY <1>2, <1>3, <1>4, <1>5, <1>6 DEF ActOwned
<1>10. KeySet(x.act) = {<<NoCache, 0, o>>}
    BY <1>2, <1>4, <1>5 DEF KeySet, Asks, Key, NoOp
<1>11. v = Append(pipe[c], x)
    OBVIOUS
<1> HIDE DEF v
<1>12. Changed(pipe, pipe', Caches, c, v)
    BY <1>1, ChangedIs, Zenon
<1>13. Good(pipe', MSHR, num, RQ, op', {})
    BY <1>1, <1>5, <1>7, <1>8, <1>9, <1>10, <1>11, <1>12, GoodEnter
<1> QED
    BY <1>1, <1>13 DEF GoodNow

LEMMA GoodPrefetch ==
    ASSUME IInv, Configured, NEW c \in Caches, Prefetch(c)
    PROVE  GoodNow'
<1> DEFINE a == Head(PFF[c])
           b == BankOf(c, a)
           act == Action("PREFETCH", a, c, NoCache, b, 0, NoOp)
           x == Cycles(act, latency[c])
           v == Append(pipe[c], x)
<1>1. GoodNow /\ On(pipe, Caches) /\ MSHR' = MSHR /\ num' = num /\ RQ' = RQ /\ op' = op
      /\ PFF[c] # <<>> /\ PFF[c] \in Seq(Blocks) /\ Len(PFF[c]) <= PFF_size[c]
    BY IInvParts DEF Prefetch, memory, ArrayInv, AddrsOK
<1>2. pipe' = [pipe EXCEPT ![c] = v]
    BY DEF Prefetch, Enqueued, Cycles
<1>3. a \in Blocks /\ PFF_size[c] > 0
    <2>1. Len(PFF[c]) \in Nat /\ Len(PFF[c]) > 0 /\ a \in Blocks
        BY <1>1
    <2>2. PFF_size[c] \in Nat
        BY BankTypes
    <2> QED
        BY <1>1, <2>1, <2>2
<1> HIDE DEF a
<1>4. b \in Nat /\ b = BankOf(c, a) /\ b = BankOf(LLC, a)
    <2>1. b \in Banks(c) /\ MSHR_banks[c] \in Nat
        BY <1>3, BankTypes
    <2>2. MSHR_banks[c] = MSHR_banks[LLC]
        BY <1>3 DEF Configured
    <2> QED
        BY <2>1, <2>2 DEF Banks, BankOf
<1> HIDE DEF b
<1>5. act \in Act /\ act.cmd = "PREFETCH" /\ act.addr = a /\ act.prev = NoCache /\ act.bank = b /\ act.op = NoOp
    <2>1. "PREFETCH" \in Commands /\ 0 \in Nat /\ NoCache \in Caches \cup {NoCache} /\ NoOp \in Nat
        BY DEF Commands, NoOp
    <2> QED
        BY <1>3, <1>4, <2>1, ActionIs
<1> HIDE DEF act
<1>6. x \in Access /\ x.act = act
    <2>1. latency[c] \in Nat
        BY BankTypes
    <2> QED
        BY <1>5, <2>1, CyclesIs
<1> HIDE DEF x
<1>7. Routed(c, x.act)
    <2>1. NoCache \notin L1s /\ (c \in L1s \/ c = LLC)
        BY Levels
    <2> QED
        BY <1>4, <1>5, <1>6, <2>1 DEF Routed
<1>8. ActOwned(op, c, x.act)
    BY <1>5, <1>6 DEF ActOwned
<1>9. KeySet(x.act) = {}
    BY <1>5, <1>6 DEF KeySet, Asks
<1>10. v = Append(pipe[c], x)
    OBVIOUS
<1> HIDE DEF v
<1>11. Changed(pipe, pipe', Caches, c, v)
    BY <1>1, <1>2, ChangedIs, Zenon
<1>12. Good(pipe, MSHR, num, RQ, op, KeySet(x.act))
    BY <1>1, <1>9 DEF GoodNow
<1>13. Good(pipe', MSHR, num, RQ, op, {})
    BY <1>6, <1>7, <1>8, <1>10, <1>11, <1>12, GoodEnter
<1> QED
    BY <1>1, <1>13 DEF GoodNow

LEMMA GoodSquash ==
    ASSUME IInv, NEW o \in 1 .. Len(op), Squash(o) \/ Translate(o)
    PROVE  GoodNow'
<1>1. GoodNow /\ op \in Seq(Operation) /\ pipe' = pipe /\ MSHR' = MSHR /\ num' = num /\ RQ' = RQ
    BY IInvParts DEF Squash, Translate, caches, memory
<1>2. op[o] \in Operation
    BY <1>1
<1>3. PICK y \in Operation : /\ op' = [op EXCEPT ![o] = y] /\ y.core = op[o].core
                             /\ y.answers = op[o].answers /\ (y.live => op[o].live)
    <2>1. CASE Squash(o)
        <3> DEFINE y == [op[o] EXCEPT !.live = FALSE]
        <3>1. op' = [op EXCEPT ![o] = y]
            BY <2>1 DEF Squash
        <3>2. y \in Operation /\ y.core = op[o].core /\ y.answers = op[o].answers /\ ~y.live
            BY <1>2 DEF Operation
        <3> QED
            BY <3>1, <3>2
    <2>2. CASE Translate(o)
        <3> DEFINE y == [op[o] EXCEPT !.translated = TRUE]
        <3>1. op' = [op EXCEPT ![o] = y]
            BY <2>2 DEF Translate
        <3>2. y \in Operation /\ y.core = op[o].core /\ y.answers = op[o].answers /\ y.live = op[o].live
            BY <1>2 DEF Operation
        <3> QED
            BY <3>1, <3>2
    <2> QED
        BY <2>1, <2>2
<1>4. op' \in Seq(Operation) /\ SameCores(op, op')
    BY <1>1, <1>3 DEF SameCores
<1>5. \A i \in 1 .. Len(op) : op'[i].answers = op[i].answers /\ (op'[i].live => op[i].live)
    BY <1>1, <1>3
<1>6. Good(pipe, MSHR, num, RQ, op', {})
    BY <1>1, <1>4, <1>5, GoodOps DEF GoodNow
<1> QED
    BY <1>1, <1>6 DEF GoodNow

(* The memory controller's queue a cycle later, before an answer.          *)
LEMMA QueueStepped ==
    ASSUME NEW q \in Seq(MemRequest), NEW lat \in 0 .. Never - 1,
           NEW r, r = StepRQ(AgedRQ(q), lat)
    PROVE  r \in Seq(MemRequest) /\ SameRQ(q, r)
<1> DEFINE aged == AgedRQ(q)
<1>1. ASSUME NEW i \in 1 .. Len(q)
      PROVE  /\ [q[i] EXCEPT !.finished = Less(@)] \in MemRequest
             /\ [q[i] EXCEPT !.finished = Less(@)].act = q[i].act
             /\ [q[i] EXCEPT !.finished = Less(@)].returned = q[i].returned
    <2>1. q[i] \in MemRequest
        OBVIOUS
    <2>2. \A t \in 0 .. Never : Less(t) \in 0 .. Never
        BY DEF Less, Never
    <2>3. Less(q[i].finished) \in 0 .. Never
        BY <2>1, <2>2 DEF MemRequest
    <2> QED
        BY <2>1, <2>3 DEF MemRequest
<1>2. aged \in Seq(MemRequest) /\ Len(aged) = Len(q)
      /\ \A i \in 1 .. Len(q) : aged[i].act = q[i].act /\ aged[i].returned = q[i].returned
    <2>1. Len(q) \in Nat
        OBVIOUS
    <2>2. \A i \in 1 .. Len(q) : aged[i] \in MemRequest /\ aged[i].act = q[i].act /\ aged[i].returned = q[i].returned
        BY <1>1 DEF AgedRQ
    <2>3. Len(aged) = Len(q)
        BY <2>1 DEF AgedRQ
    <2>4. aged \in Seq(MemRequest)
        BY <1>1, <2>1 DEF AgedRQ
    <2> QED
        BY <2>2, <2>3, <2>4
<1>0. r = StepRQ(aged, lat)
    OBVIOUS
<1> HIDE DEF aged
<1> DEFINE waiting == {i \in 1 .. Len(aged) : ~aged[i].started}
           samepage == {i \in waiting : PageOf(aged[i].act.addr) = last_request}
           k == IF FIFO_scheduling \/ samepage = {} THEN Min(waiting) ELSE Min(samepage)
<1>3. CASE waiting = {}
    <2>1. r = aged
        BY <1>0, <1>3 DEF StepRQ
    <2> QED
        BY <1>2, <2>1 DEF SameRQ
<1>4. CASE waiting # {}
    <2>1. r = [aged EXCEPT ![k] = [@ EXCEPT !.started = TRUE, !.finished = lat]]
        BY <1>0, <1>4 DEF StepRQ
    <2>2. k \in 1 .. Len(aged)
        <3>1. waiting \subseteq 1 .. Len(aged) /\ samepage \subseteq 1 .. Len(aged)
            OBVIOUS
        <3> HIDE DEF waiting, samepage
        <3>2. Min(waiting) \in waiting
            BY <1>2, <1>4, <3>1, MinPlace, Zenon
        <3>3. samepage # {} => Min(samepage) \in samepage
            BY <1>2, <3>1, MinPlace, Zenon
        <3> QED
            BY <3>1, <3>2, <3>3
    <2> DEFINE y == [aged[k] EXCEPT !.started = TRUE, !.finished = lat]
    <2>3. r = [aged EXCEPT ![k] = y]
        BY <2>1
    <2>4. aged[k] \in MemRequest
        <3> HIDE DEF k
        <3> QED
            BY <1>2, <2>2
    <2>5. lat \in 0 .. Never
        BY DEF Never
    <2>6. y \in MemRequest /\ y.act = aged[k].act /\ y.returned = aged[k].returned
        BY <2>4, <2>5 DEF MemRequest
    <2> HIDE DEF y, k, waiting
    <2>7. r \in Seq(MemRequest) /\ Len(r) = Len(aged)
        BY <1>2, <2>2, <2>3, <2>6
    <2>8. \A i \in 1 .. Len(aged) : r[i].act = aged[i].act /\ r[i].returned = aged[i].returned
        BY <1>2, <2>2, <2>3, <2>6
    <2> QED
        BY <1>2, <2>7, <2>8 DEF SameRQ
<1> QED
    BY <1>3, <1>4

(* One step of the controller from queue q: an answer, if any, and the     *)
(* head leaves if it has been answered.                                    *)
LEMMA GoodMCStep ==
    ASSUME IInv, MCStep
    PROVE  GoodNow'
<1>1. GoodNow /\ pipe' = pipe /\ num' = num /\ op' = op /\ RQ \in Seq(MemRequest)
    <2>1. GoodNow /\ pipe' = pipe /\ num' = num /\ op' = op
        BY IInvParts DEF MCStep
    <2> QED
        BY <2>1, QueueParts DEF GoodNow
<1>0. PICK lat \in DramLatency : StepMemory(lat)
    BY DEF MCStep
<1> DEFINE r == StepRQ(AgedRQ(RQ), lat)
           A == {i \in 1 .. Len(r) : r[i].finished = 0 /\ ~r[i].returned /\ Less(bus["FSB"]) = 0}
           i == Min(A)
           act == r[i].act
           t == IF A = {} THEN r ELSE [r EXCEPT ![i].returned = TRUE]
<1>2. /\ RQ' = IF t # <<>> /\ Head(t).returned THEN Tail(t) ELSE t
      /\ A = {} => MSHR' = MSHR
      /\ A # {} => MSHR' = [MSHR EXCEPT ![act.prev][act.bank] = Arrived(@, act.index, 0)]
    BY <1>0, Zenon DEF StepMemory
<1>3. r \in Seq(MemRequest) /\ SameRQ(RQ, r)
    <2>1. lat \in 0 .. Never - 1
        BY TimesAssumption
    <2>2. r = StepRQ(AgedRQ(RQ), lat)
        OBVIOUS
    <2> HIDE DEF r
    <2> QED
        BY <1>1, <2>1, <2>2, QueueStepped
<1>4. Good(pipe, MSHR, num, r, op, {})
    BY <1>1, <1>3, GoodQueueAge DEF GoodNow
<1>5. Good(pipe, MSHR', num, t, op, {})
    <2>1. CASE A = {}
        <3>1. t = r /\ MSHR' = MSHR
            BY <1>2, <2>1, Zenon
        <3> QED
            BY <1>4, <3>1
    <2>2. CASE A # {}
        <3>1. i \in 1 .. Len(r) /\ ~r[i].returned
            <4>1. A \subseteq 1 .. Len(r) /\ \A j \in A : ~r[j].returned
                OBVIOUS
            <4> HIDE DEF A, r
            <4>2. Min(A) \in A
                BY <1>3, <2>2, <4>1, MinPlace, Zenon
            <4> QED
                BY <4>1, <4>2, Zenon
        <3>2. t = [r EXCEPT ![i].returned = TRUE] /\ MSHR' = [MSHR EXCEPT ![act.prev][act.bank] = Arrived(@, act.index, 0)]
            BY <1>2, <2>2, Zenon
        <3>3. act.prev = LLC /\ act.bank \in Banks(LLC) /\ act.index \in 0 .. MSHR_size[LLC] - 1
            BY <1>4, <3>1, QueueParts, RequestAct
        <3>4. act = r[i].act
            OBVIOUS
        <3> HIDE DEF t, i, A, r
        <3>5. Good(pipe, MSHR, num, t, op, KeySet(act))
            BY <1>4, <3>1, <3>2, GoodQueueAnswer
        <3> HIDE DEF act
        <3>6. Answerable(op, act)
            BY <3>3, Levels DEF Answerable
        <3>7. Replied(act, MSHR, MSHR', op, op, 0)
            BY <3>2, <3>3, Levels DEF Replied
        <3>8. 0 \in 0 .. Never - 1
            BY DEF Never
        <3> QED
            BY <3>5, <3>6, <3>7, <3>8, GoodReply
    <2> QED
        BY <2>1, <2>2
<1>6. RQ' = IF t # <<>> /\ Head(t).returned THEN Tail(t) ELSE t
    BY <1>2, Zenon
<1> HIDE DEF t
<1>7. Good(pipe, MSHR', num, RQ', op, {})
    <2>1. CASE t # <<>> /\ Head(t).returned
        BY <1>5, <1>6, <2>1, GoodQueuePop
    <2>2. CASE ~(t # <<>> /\ Head(t).returned)
        BY <1>5, <1>6, <2>2
    <2> QED
        BY <2>1, <2>2
<1> QED
    BY <1>1, <1>7 DEF GoodNow

-----------------------------------------------------------------------------
(* Every action keeps the arrays and queues in form.                       *)

LEMMA BlocksPut ==
    ASSUME NEW T, BlocksOK(T), NEW c \in Caches, NEW s \in 0 .. Sets[c] - 1, NEW t,
           SetOK(t, Assoc[c], Tags(c, s)), NEW V, V = [T EXCEPT ![c][s] = t]
    PROVE  BlocksOK(V) /\ V[c][s] = t
<1> DEFINE f == [T[c] EXCEPT ![s] = t]
<1>1. V = [T EXCEPT ![c] = f]
    OBVIOUS
<1>2. Changed(T[c], f, 0 .. Sets[c] - 1, s, t)
    BY ChangedIs, Zenon DEF BlocksOK
<1> HIDE DEF f
<1>3. Changed(T, V, Caches, c, f)
    BY <1>1, ChangedIs, Zenon DEF BlocksOK
<1> QED
    BY <1>2, <1>3 DEF Changed, BlocksOK

LEMMA FillsPut ==
    ASSUME NEW F, FillsOK(F), NEW c \in Caches, NEW v, v \in Seq(Fill), Len(v) <= latency[c],
           NEW G, G = [F EXCEPT ![c] = v]
    PROVE  FillsOK(G)
<1>1. Changed(F, G, Caches, c, v)
    BY ChangedIs, Zenon DEF FillsOK
<1> QED
    BY <1>1 DEF Changed, FillsOK

LEMMA AddrsPut ==
    ASSUME NEW Q, NEW size, AddrsOK(Q, size), NEW c \in Caches, NEW v, v \in Seq(Blocks), Len(v) <= size[c],
           NEW R, R = [Q EXCEPT ![c] = v]
    PROVE  AddrsOK(R, size)
<1>1. Changed(Q, R, Caches, c, v)
    BY ChangedIs, Zenon DEF AddrsOK
<1> QED
    BY <1>1 DEF Changed, AddrsOK

LEMMA ShortPut ==
    ASSUME NEW P, On(P, Caches), Short(P), NEW c \in Caches, NEW v, Len(v) <= latency[c],
           NEW U, U = [P EXCEPT ![c] = v]
    PROVE  Short(U)
<1>1. Changed(P, U, Caches, c, v)
    BY ChangedIs, Zenon
<1> QED
    BY <1>1 DEF Changed, Short

LEMMA FillAdded ==
    ASSUME FillsOK(fill), NEW c \in Caches, cache_fillable(c), NEW cmd \in Commands, NEW addr \in Blocks,
           NEW G, G = [fill EXCEPT ![c] = cache_fill(@, c, cmd, addr)]
    PROVE  FillsOK(G)
<1> DEFINE x == [cmd |-> cmd, addr |-> addr, exit |-> latency[c]]
           v == Append(fill[c], x)
<1>1. fill[c] \in Seq(Fill) /\ latency[c] \in Nat /\ Len(fill[c]) < latency[c]
    BY BankTypes DEF FillsOK, cache_fillable
<1>2. x \in Fill
    BY <1>1 DEF Fill
<1> HIDE DEF x
<1>3. v \in Seq(Fill) /\ Len(v) <= latency[c]
    BY <1>1, <1>2
<1>4. G = [fill EXCEPT ![c] = v]
    BY DEF cache_fill, x
<1> HIDE DEF v
<1> QED
    BY <1>3, <1>4, FillsPut, Zenon

LEMMA FillRemoved ==
    ASSUME FillsOK(fill), NEW c \in Caches, NEW i \in 1 .. Len(fill[c]),
           NEW G, G = [fill EXCEPT ![c] = RemoveAt(@, i)]
    PROVE  FillsOK(G)
<1> DEFINE v == RemoveAt(fill[c], i)
<1>1. fill[c] \in Seq(Fill) /\ latency[c] \in Nat /\ Len(fill[c]) <= latency[c]
    BY BankTypes DEF FillsOK
<1>2. v \in Seq(Fill) /\ Removed(fill[c], v, i)
    BY <1>1, RemoveAtIs
<1>3. Len(v) <= latency[c]
    <2>1. Len(v) = Len(fill[c]) - 1
        BY <1>2 DEF Removed
    <2> QED
        BY <1>1, <2>1
<1>4. G = [fill EXCEPT ![c] = v]
    OBVIOUS
<1> HIDE DEF v
<1> QED
    BY <1>2, <1>3, <1>4, FillsPut, Zenon

LEMMA FillAged ==
    ASSUME FillsOK(fill), NEW c \in Caches, NEW G, G = [fill EXCEPT ![c] = Aged(@)]
    PROVE  FillsOK(G) /\ Len(G[c]) = Len(fill[c])
<1> DEFINE v == Aged(fill[c])
<1>1. fill[c] \in Seq(Fill) /\ Len(fill[c]) <= latency[c] /\ On(fill, Caches)
    BY DEF FillsOK
<1>2. ASSUME NEW i \in 1 .. Len(fill[c]) PROVE [fill[c][i] EXCEPT !.exit = Less(@)] \in Fill
    <2>1. fill[c][i] \in Fill
        BY <1>1
    <2>2. \A t \in Nat : Less(t) \in Nat
        BY DEF Less, Never
    <2>3. Less(fill[c][i].exit) \in Nat
        BY <2>1, <2>2 DEF Fill
    <2> QED
        BY <2>1, <2>3 DEF Fill
<1>3. v \in Seq(Fill) /\ Len(v) = Len(fill[c])
    BY <1>1, <1>2 DEF Aged
<1>4. G = [fill EXCEPT ![c] = v]
    OBVIOUS
<1> HIDE DEF v
<1>5. FillsOK(G)
    BY <1>1, <1>3, <1>4, FillsPut
<1>6. Changed(fill, G, Caches, c, v)
    BY <1>1, <1>4, ChangedIs, Zenon
<1> QED
    BY <1>3, <1>5, <1>6 DEF Changed

LEMMA BufferedOK ==
    ASSUME NEW q \in Seq(Blocks), NEW c \in Caches, NEW addr \in Blocks
    PROVE  Buffered(q, c, addr) \in Seq(Blocks) /\ Len(Buffered(q, c, addr)) <= PF_buffer_size[c]
<1> DEFINE known == {k \in 1 .. Len(q) : q[k] = addr}
           rest == IF known = {} THEN q ELSE RemoveAt(q, Min(known))
           all == <<addr>> \o rest
           n == Min({Len(all), PF_buffer_size[c]})
<1>1. rest \in Seq(Blocks)
    <2>1. CASE known = {}
        BY <2>1
    <2>2. CASE known # {}
        <3>1. known \subseteq 1 .. Len(q)
            OBVIOUS
        <3>2. rest = RemoveAt(q, Min(known))
            BY <2>2
        <3> HIDE DEF known, rest
        <3>3. Min(known) \in 1 .. Len(q)
            BY <2>2, <3>1, MinPlace
        <3> QED
            BY <3>2, <3>3, RemoveAtIs
    <2> QED
        BY <2>1, <2>2
<1> HIDE DEF rest
<1>2. all \in Seq(Blocks)
    BY <1>1
<1> HIDE DEF all
<1>3. PF_buffer_size[c] \in Nat /\ Len(all) \in Nat
    BY <1>2, BankTypes
<1>4. n \in Nat /\ n <= Len(all) /\ n <= PF_buffer_size[c]
    <2> DEFINE Z == {Len(all), PF_buffer_size[c]}
    <2>1. Z \subseteq Nat /\ Z # {} /\ Len(all) \in Z /\ PF_buffer_size[c] \in Z
        BY <1>3
    <2> HIDE DEF Z
    <2>2. Min(Z) \in Z /\ \A k \in Z : Min(Z) <= k
        BY <2>1, MinIsLeast
    <2>3. n = Min(Z)
        BY DEF Z
    <2> QED
        BY <2>1, <2>2, <2>3
<1> HIDE DEF n
<1>5. SubSeq(all, 1, n) \in Seq(Blocks) /\ Len(SubSeq(all, 1, n)) = n
    BY <1>2, <1>4
<1>6. Buffered(q, c, addr) = SubSeq(all, 1, n)
    BY DEF Buffered, all, n, rest
<1> QED
    BY <1>3, <1>4, <1>5, <1>6

LEMMA BufferPut ==
    ASSUME AddrsOK(PF_buffer, PF_buffer_size), NEW c \in Caches, NEW addr \in Blocks,
           NEW R, R = [PF_buffer EXCEPT ![c] = Buffered(@, c, addr)]
    PROVE  AddrsOK(R, PF_buffer_size)
<1> DEFINE v == Buffered(PF_buffer[c], c, addr)
<1>1. PF_buffer[c] \in Seq(Blocks)
    BY DEF AddrsOK
<1>2. v \in Seq(Blocks) /\ Len(v) <= PF_buffer_size[c]
    BY <1>1, BufferedOK
<1>3. R = [PF_buffer EXCEPT ![c] = v]
    OBVIOUS
<1> HIDE DEF v
<1> QED
    BY <1>2, <1>3, AddrsPut, Zenon

LEMMA PrefetchedOK ==
    ASSUME NEW q \in Seq(Blocks), NEW c \in Caches, Len(q) <= PFF_size[c], PFF_size[c] > 0, NEW addr \in Blocks
    PROVE  Prefetched(q, c, addr) \in Seq(Blocks) /\ Len(Prefetched(q, c, addr)) <= PFF_size[c]
<1>1. PFF_size[c] \in Nat /\ Len(q) \in Nat
    BY BankTypes
<1>2. CASE \E k \in 1 .. Len(q) : q[k] = addr
    BY <1>2 DEF Prefetched
<1>3. CASE ~\E k \in 1 .. Len(q) : q[k] = addr
    <2> DEFINE r == IF Len(q) = PFF_size[c] THEN Tail(q) ELSE q
    <2>1. r \in Seq(Blocks) /\ Len(r) < PFF_size[c]
        <3>1. CASE Len(q) = PFF_size[c]
            <4>1. q # <<>>
                BY <1>1, <3>1
            <4>2. Tail(q) \in Seq(Blocks) /\ Len(Tail(q)) = Len(q) - 1
                BY <4>1
            <4> QED
                BY <1>1, <3>1, <4>2
        <3>2. CASE Len(q) # PFF_size[c]
            BY <1>1, <3>2
        <3> QED
            BY <3>1, <3>2
    <2>2. Prefetched(q, c, addr) = Append(r, addr)
        BY <1>3 DEF Prefetched
    <2> HIDE DEF r
    <2> QED
        BY <1>1, <2>1, <2>2
<1> QED
    BY <1>2, <1>3

LEMMA PrefetcherOK ==
    ASSUME AddrsOK(PFF, PFF_size), NEW c \in Caches, NEW act, act.addr \in Blocks, NEW asked,
           AskPrefetcher(c, act, asked)
    PROVE  AddrsOK(PFF, PFF_size)'
<1>1. CASE PFF' = PFF
    BY <1>1 DEF AddrsOK
<1>2. CASE PFF' # PFF
    <2>1. /\ PFF_size[c] > 0
          /\ PFF' \in {PFF} \cup {[PFF EXCEPT ![c] = Prefetched(@, c, a)] : a \in lookup[act.addr]}
        BY <1>2 DEF AskPrefetcher
    <2>2. PICK a \in lookup[act.addr] : PFF' = [PFF EXCEPT ![c] = Prefetched(@, c, a)]
        BY <1>2, <2>1
    <2>3. a \in Blocks
        BY <2>2, RequestsAssumption
    <2> DEFINE v == Prefetched(PFF[c], c, a)
    <2>4. PFF[c] \in Seq(Blocks) /\ Len(PFF[c]) <= PFF_size[c]
        BY DEF AddrsOK
    <2>5. v \in Seq(Blocks) /\ Len(v) <= PFF_size[c]
        BY <2>1, <2>3, <2>4, PrefetchedOK
    <2>6. PFF' = [PFF EXCEPT ![c] = v]
        BY <2>2
    <2> HIDE DEF v
    <2>7. AddrsOK(PFF', PFF_size)
        BY <2>5, <2>6, AddrsPut, Zenon
    <2> QED
        BY <2>7
<1> QED
    BY <1>1, <1>2

-----------------------------------------------------------------------------
(* Passes and turns.                                                       *)

LEMMA PassNames ==
    /\ Len(Passes) = 6
    /\ Passes[1] = "MSHR_WB" /\ Passes[2] = "WB_drop" /\ Passes[3] = "MSHR_fill"
    /\ Passes[4] = "fill" /\ Passes[5] = "pipe" /\ Passes[6] = "MSHR"
    BY DEF Passes

LEMMA PassFlags ==
    /\ FlagOf(Passes[1]) = "MSHR_WB" /\ FlagOf(Passes[2]) = "MSHR_WB" /\ FlagOf(Passes[3]) = "MSHR_fill"
    /\ FlagOf(Passes[4]) = "fill" /\ FlagOf(Passes[5]) = "pipe" /\ FlagOf(Passes[6]) = "MSHR"
    BY PassNames DEF FlagOf

LEMMA PassTurns ==
    ASSUME NEW c \in Caches
    PROVE  /\ Turns(c, Passes[1]) = MSHR_banks[c] /\ Turns(c, Passes[2]) = 1
           /\ Turns(c, Passes[3]) = MSHR_banks[c] /\ Turns(c, Passes[4]) = 1
           /\ Turns(c, Passes[5]) = 1 /\ Turns(c, Passes[6]) = 1
           /\ MSHR_banks[c] \in Nat \ {0}
<1>1. /\ Turns(c, "MSHR_WB") = MSHR_banks[c] /\ Turns(c, "WB_drop") = 1
      /\ Turns(c, "MSHR_fill") = MSHR_banks[c] /\ Turns(c, "fill") = 1
      /\ Turns(c, "pipe") = 1 /\ Turns(c, "MSHR") = 1
    BY DEF Turns
<1> QED
    BY <1>1, PassNames, BankTypes

LEMMA TurnFields ==
    ASSUME NEW t \in Turn
    PROVE  /\ t.cache \in Caches \cup {NoCache} /\ t.pass \in 1 .. 6 /\ t.turn \in Nat
           /\ t.up \in BOOLEAN /\ t.found \in BOOLEAN
    BY DEF Turn

Moved(t, u, n, f) == u = [t EXCEPT !.turn = n, !.found = f]
InTurn(t, u, n, f) == u \in Turn /\ u.cache = t.cache /\ u.pass = t.pass /\ u.turn = n /\ u.found = f

LEMMA TurnMoved ==
    ASSUME NEW t \in Turn, NEW n \in Nat, NEW f \in BOOLEAN, NEW u, Moved(t, u, n, f)
    PROVE  InTurn(t, u, n, f)
    BY DEF Turn, Moved, InTurn

LEMMA IdleIs == Idle \in Turn /\ Idle.cache = NoCache /\ LLCDue \in Turn /\ LLCDue.cache = NoCache
<1>1. Idle \in Turn /\ Idle.cache = NoCache
    BY DEF Idle, Turn
<1>2. LLCDue \in Turn /\ LLCDue.cache = NoCache
    BY <1>1 DEF LLCDue, Turn
<1> QED
    BY <1>1, <1>2

(* The pass that PassFrom(k, c, ...) begins, if any.                       *)
Begins(t, k, c, found) ==
    t.cache = c /\ t.turn = 1 /\ t.pass \in k .. 6 /\ t.found = found /\ (t.pass = 2 => k = 2)

LEMMA PassFromIs ==
    ASSUME NEW c \in Caches, NEW k \in 1 .. 7, NEW w, NEW b, NEW found \in BOOLEAN,
           NEW t, t = PassFrom(k, c, w, b, found)
    PROVE  t \in Turn /\ (t.cache = NoCache \/ Begins(t, k, c, found))
<1> DEFINE up == {p \in k .. Len(Passes) : FlagOf(Passes[p]) \in w}
<1>1. CASE up = {}
    <2>1. t = Idle
        BY <1>1 DEF PassFrom
    <2> QED
        BY <2>1, IdleIs
<1>2. CASE up # {}
    <2> DEFINE p == Min(up)
    <2>1. t = [cache |-> c, pass |-> p, turn |-> 1, up |-> b[next_bus[c]] = 0, found |-> found]
        BY <1>2 DEF PassFrom
    <2>2. p \in up /\ \A j \in up : p <= j
        <3>1. up \subseteq Nat
            BY PassNames
        <3> HIDE DEF up
        <3> QED
            BY <1>2, <3>1, MinIsLeast
    <2>3. p \in k .. 6 /\ FlagOf(Passes[p]) \in w
        BY <2>2, PassNames
    <2>4. p = 2 => k = 2
        <3>1. SUFFICES ASSUME p = 2, k # 2 PROVE FALSE
            OBVIOUS
        <3>2. "MSHR_WB" \in w
            BY <2>3, <3>1, PassFlags
        <3>3. k = 1
            BY <2>3, <3>1
        <3>4. 1 \in up
            BY <3>2, <3>3, PassFlags, PassNames
        <3> QED
            BY <2>2, <3>1, <3>4
    <2> HIDE DEF p, up
    <2>5. t \in Turn
        BY <2>1, <2>3 DEF Turn
    <2> QED
        BY <2>1, <2>3, <2>4, <2>5 DEF Begins
<1> QED
    BY <1>1, <1>2

(* The pass that runs is the k-th.                                         *)
LEMMA RunningIs ==
    ASSUME pc \in Turn, NEW c, NEW k \in 1 .. 6, Running(c, Passes[k])
    PROVE  pc.cache = c /\ pc.pass = k
<1>1. pc.pass \in 1 .. 6
    BY TurnFields
<1>2. \A i, j \in 1 .. 6 : Passes[i] = Passes[j] => i = j
    BY PassNames
<1> QED
    BY <1>1, <1>2 DEF Running

(* The next turn of the pass, or the first of a later one.                 *)
LEMMA AdvanceIs ==
    ASSUME pc \in Turn, NEW c \in Caches, pc.cache = c, NEW found \in BOOLEAN, Advance(found)
    PROVE  /\ pc' \in Turn
           /\ pc.turn < Turns(c, Passes[pc.pass]) =>
                /\ pc'.cache = c /\ pc'.pass = pc.pass /\ pc'.turn = pc.turn + 1
                /\ pc'.found = (pc.found \/ found)
           /\ ~(pc.turn < Turns(c, Passes[pc.pass])) =>
                \/ pc'.cache = NoCache
                \/ Begins(pc', pc.pass + 1, c, (pc.found \/ found) /\ Passes[pc.pass] = "MSHR_WB")
<1>1. pc.pass \in 1 .. 6 /\ pc.turn \in Nat /\ pc.found \in BOOLEAN
    BY TurnFields
<1>2. CASE pc.turn < Turns(c, Passes[pc.pass])
    <2> DEFINE f == pc.found \/ found
    <2>1. pc' = [pc EXCEPT !.turn = @ + 1, !.found = f]
        BY <1>2 DEF Advance
    <2>4. f \in BOOLEAN
        BY <1>1
    <2> HIDE DEF f
    <2>5. pc.turn + 1 \in Nat /\ pc' = [pc EXCEPT !.turn = pc.turn + 1, !.found = f]
        BY <1>1, <2>1
    <2> DEFINE n == pc.turn + 1
    <2>6. n \in Nat /\ Moved(pc, pc', n, f)
        BY <2>5 DEF Moved
    <2> HIDE DEF n
    <2>7. InTurn(pc, pc', n, f)
        BY <2>4, <2>6, TurnMoved, Zenon
    <2>2. pc' \in Turn /\ pc'.cache = pc.cache /\ pc'.pass = pc.pass /\ pc'.turn = n /\ pc'.found = f
        BY <2>7 DEF InTurn
    <2>3. pc'.found = (pc.found \/ found)
        BY <2>2 DEF f
    <2> QED
        BY <1>2, <2>2, <2>3 DEF n
<1>3. CASE ~(pc.turn < Turns(c, Passes[pc.pass]))
    <2> DEFINE f == (pc.found \/ found) /\ Passes[pc.pass] = "MSHR_WB"
               k == pc.pass + 1
    <2>1. pc' = PassFrom(k, c, work'[c], bus', f)
        BY <1>3 DEF Advance
    <2>2. f \in BOOLEAN /\ k \in 1 .. 7
        BY <1>1
    <2> HIDE DEF f, k
    <2>3. pc' \in Turn /\ (pc'.cache = NoCache \/ Begins(pc', k, c, f))
        BY <2>1, <2>2, PassFromIs
    <2> QED
        BY <1>3, <2>3 DEF f, k
<1> QED
    BY <1>2, <1>3

LEMMA PassBegins ==
    ASSUME NEW t, NEW c \in Caches, NEW k \in Nat, NEW f, Begins(t, k, c, f), t \in Turn, NEW M, NEW N,
           k = 2 /\ ~f => \A b \in Banks(c) : NoneToSend(M[c][b])
    PROVE  PassOK(t, M, N)
<1>1. t.cache = c /\ t.turn = 1 /\ t.pass \in 1 .. 6 /\ (t.pass = 2 => k = 2) /\ t.found = f
    BY TurnFields DEF Begins
<1>2. 1 \in 1 .. Turns(c, Passes[t.pass])
    BY <1>1, PassTurns
<1>3. \A b \in Banks(c) : ~(b < 1 - 1)
    BY BankTypes DEF Banks
<1> QED
    BY <1>1, <1>2, <1>3 DEF PassOK

(* The pass has done a turn.                                               *)
LEMMA PassNext ==
    ASSUME IInv, NEW c \in Caches, pc.cache = c, NEW found \in BOOLEAN, Advance(found),
           pc.pass \in {1, 3} /\ ~found => MSHR' = MSHR /\ num' = num,
           pc.pass = 1 /\ ~found => NoneToSend(MSHR[c][TurnBank(c)]),
           pc.pass = 3 /\ ~found => num[c][TurnBank(c)].fill = 0
    PROVE  pc' \in Turn /\ PassOK(pc', MSHR', num')
<1>1. pc \in Turn /\ PassOK(pc, MSHR, num) /\ c # NoCache
    BY IInvParts, Levels DEF FlagInv
<1>2. pc.pass \in 1 .. 6 /\ pc.turn \in Nat /\ pc.found \in BOOLEAN
    BY <1>1, TurnFields
<1>3. pc.turn \in 1 .. Turns(c, Passes[pc.pass])
    BY <1>1 DEF PassOK
<1>4. pc.pass \in {1, 3} => /\ TurnBank(c) = pc.turn - 1 /\ pc.turn <= MSHR_banks[c]
                           /\ \A b \in Banks(c) : b < pc.turn => b < pc.turn - 1 \/ b = TurnBank(c)
    <2>1. SUFFICES ASSUME pc.pass \in {1, 3}
                   PROVE  /\ TurnBank(c) = pc.turn - 1 /\ pc.turn <= MSHR_banks[c]
                          /\ \A b \in Banks(c) : b < pc.turn => b < pc.turn - 1 \/ b = TurnBank(c)
        OBVIOUS
    <2>2. pc.turn \in 1 .. MSHR_banks[c] /\ MSHR_banks[c] \in Nat \ {0}
        BY <1>3, <2>1, PassTurns
    <2>3. \A n \in Nat \ {0} : \A i \in 1 .. n : (i - 1) % n = i - 1
        OBVIOUS
    <2>4. TurnBank(c) = pc.turn - 1
        BY <2>2, <2>3 DEF TurnBank
    <2>5. \A b \in Banks(c) : b < pc.turn => b < pc.turn - 1 \/ b = pc.turn - 1
        BY <1>2, <2>2 DEF Banks
    <2> QED
        BY <2>2, <2>4, <2>5
<1>5. pc.pass = 1 /\ ~(pc.found \/ found) =>
        \A b \in Banks(c) : b < pc.turn => NoneToSend(MSHR'[c][b])
    BY <1>1, <1>4 DEF PassOK
<1>6. pc.pass = 3 /\ ~(pc.found \/ found) =>
        \A b \in Banks(c) : b < pc.turn => num'[c][b].fill = 0
    BY <1>1, <1>4 DEF PassOK
<1>7. CASE pc.turn < Turns(c, Passes[pc.pass])
    <2>1. /\ pc' \in Turn /\ pc'.cache = c /\ pc'.pass = pc.pass /\ pc'.turn = pc.turn + 1
          /\ pc'.found = (pc.found \/ found)
        BY <1>1, <1>7, AdvanceIs
    <2>2. pc.pass # 2
        BY <1>3, <1>7, PassTurns
    <2>4. Turns(c, Passes[pc.pass]) \in Nat
        BY <1>2, PassTurns
    <2>3. pc'.turn \in 1 .. Turns(c, Passes[pc.pass]) /\ pc'.turn - 1 = pc.turn
        BY <1>2, <1>7, <2>1, <2>4
    <2> QED
        BY <1>5, <1>6, <2>1, <2>2, <2>3 DEF PassOK
<1>8. CASE ~(pc.turn < Turns(c, Passes[pc.pass]))
    <2> DEFINE k == pc.pass + 1
               f == (pc.found \/ found) /\ Passes[pc.pass] = "MSHR_WB"
    <2>1. pc' \in Turn /\ (pc'.cache = NoCache \/ Begins(pc', k, c, f))
        BY <1>1, <1>8, AdvanceIs
    <2>2. k = 2 /\ ~f => \A b \in Banks(c) : NoneToSend(MSHR'[c][b])
        <3>1. SUFFICES ASSUME k = 2, ~f PROVE \A b \in Banks(c) : NoneToSend(MSHR'[c][b])
            OBVIOUS
        <3>2. pc.pass = 1
            BY <1>2, <3>1
        <3>3. ~(pc.found \/ found)
            BY <3>1, <3>2, PassNames
        <3>4. pc.turn = MSHR_banks[c] /\ MSHR_banks[c] \in Nat
            BY <1>2, <1>3, <1>8, <3>2, PassTurns
        <3>5. \A b \in Banks(c) : b < pc.turn
            BY <3>4 DEF Banks
        <3> QED
            BY <1>5, <3>2, <3>3, <3>5
    <2>3. k \in Nat
        BY <1>2
    <2> HIDE DEF k, f
    <2>4. CASE pc'.cache = NoCache
        BY <2>1, <2>4 DEF PassOK
    <2>5. CASE Begins(pc', k, c, f)
        BY <2>1, <2>2, <2>3, <2>5, PassBegins
    <2> QED
        BY <2>1, <2>4, <2>5
<1> QED
    BY <1>7, <1>8

-----------------------------------------------------------------------------
(* Flags go up with the work.                                              *)

(* All flags of W are up in V.                                             *)
FlagsUp(W, V) == /\ On(W, Caches) /\ On(V, Caches)
                 /\ \A c \in Caches : W[c] \subseteq V[c] /\ W[c] \in SUBSET Flags /\ V[c] \in SUBSET Flags

(* What is new in U, G or S has its flag in V.                             *)
PipeSeen(P, U, V) == \A c \in Caches : U[c] # <<>> => P[c] # <<>> \/ "pipe" \in V[c]
FillSeen(F, G, V) == \A c \in Caches : G[c] # <<>> => F[c] # <<>> \/ "fill" \in V[c]
BankSeen(m, r, w) == \A x \in Flags : BankNeeds(r, x) => BankNeeds(m, x) \/ x \in w
SlotsSeen(M, S, V) == \A c \in Caches : \A b \in Banks(c) : BankSeen(M[c][b], S[c][b], V[c])

LEMMA FlagsMore ==
    ASSUME NEW P, NEW F, NEW M, NEW W, FlagsOK(P, F, M, W), NEW V, FlagsUp(W, V),
           NEW U, PipeSeen(P, U, V), NEW G, FillSeen(F, G, V), NEW S, SlotsSeen(M, S, V)
    PROVE  FlagsOK(U, G, S, V)
<1>1. ASSUME NEW c \in Caches PROVE Flagged(U[c], G[c], S[c], Banks(c), V[c])
    <2>1. Flagged(P[c], F[c], M[c], Banks(c), W[c]) /\ W[c] \subseteq V[c]
        BY DEF FlagsOK, FlagsUp
    <2>2. U[c] # <<>> => "pipe" \in V[c]
        BY <2>1 DEF Flagged, PipeSeen
    <2>3. G[c] # <<>> => "fill" \in V[c]
        BY <2>1 DEF Flagged, FillSeen
    <2>4. ASSUME NEW b \in Banks(c), NEW x \in Flags, BankNeeds(S[c][b], x) PROVE x \in V[c]
        <3>1. BankNeeds(M[c][b], x) \/ x \in V[c]
            BY <2>4 DEF SlotsSeen, BankSeen
        <3>2. BankNeeds(M[c][b], x) => x \in W[c]
            BY <2>1 DEF Flagged
        <3> QED
            BY <2>1, <3>1, <3>2
    <2> QED
        BY <2>2, <2>3, <2>4 DEF Flagged
<1> QED
    BY <1>1 DEF FlagsOK, FlagsUp

LEMMA SeenSame ==
    ASSUME NEW X, NEW V
    PROVE  PipeSeen(X, X, V) /\ FillSeen(X, X, V) /\ SlotsSeen(X, X, V)
<1>1. PipeSeen(X, X, V) /\ FillSeen(X, X, V)
    BY DEF PipeSeen, FillSeen
<1>2. SlotsSeen(X, X, V)
    BY DEF SlotsSeen, BankSeen
<1> QED
    BY <1>1, <1>2

LEMMA WorkTyped ==
    ASSUME NEW P, NEW F, NEW M, NEW W, FlagsOK(P, F, M, W)
    PROVE  /\ On(W, Caches) /\ \A c \in Caches : W[c] \in SUBSET Flags
           /\ FlagsUp(W, W)
    BY DEF FlagsOK, FlagsUp

(* Flags X of cache c go up.                                               *)
LEMMA FlagsRaised ==
    ASSUME NEW W, FlagsUp(W, W), NEW c \in Caches, NEW X, X \subseteq Flags,
           NEW V, V = [W EXCEPT ![c] = @ \cup X]
    PROVE  FlagsUp(W, V) /\ FlagsUp(V, V) /\ X \subseteq V[c]
<1> DEFINE v == W[c] \cup X
<1>1. V = [W EXCEPT ![c] = v]
    OBVIOUS
<1>2. v \in SUBSET Flags /\ W[c] \subseteq v /\ X \subseteq v
    BY DEF FlagsUp
<1> HIDE DEF v
<1>3. Changed(W, V, Caches, c, v)
    BY <1>1, ChangedIs, Zenon DEF FlagsUp
<1> QED
    BY <1>2, <1>3 DEF Changed, FlagsUp

LEMMA SlotsSeenIn ==
    ASSUME NEW M, NEW S, NEW c \in Caches, NEW b \in Banks(c), NEW v, BankChanged(M, S, c, b, v),
           NEW V, BankSeen(M[c][b], v, V[c])
    PROVE  SlotsSeen(M, S, V)
<1>1. \A y \in Banks(c) : BankSeen(M[c][y], S[c][y], V[c])
    BY DEF BankChanged, BankSeen
<1>2. \A x \in Caches : x # c => \A y \in Banks(x) : BankSeen(M[x][y], S[x][y], V[x])
    BY DEF BankChanged, BankSeen
<1> QED
    BY <1>1, <1>2 DEF SlotsSeen

LEMMA SentUpSeen ==
    ASSUME NEW m, NEW r, NEW i \in 1 .. Len(m), SentUp(m, r, i), NEW w
    PROVE  BankSeen(m, r, w)
<1>1. Len(r) = Len(m) /\ r[i].type = m[i].type /\ r[i].started /\ r[i].returned = m[i].returned
      /\ \A j \in 1 .. Len(m) : j # i => r[j] = m[j]
    BY DEF SentUp, Kept
<1>2. \A j \in 1 .. Len(m) : \A x : EntryNeeds(r[j], x) => EntryNeeds(m[j], x)
    BY <1>1 DEF EntryNeeds
<1> QED
    BY <1>1, <1>2 DEF BankSeen, BankNeeds

LEMMA AnswerSeen ==
    ASSUME NEW m, NEW r, NEW s, AnswerIn(m, r, s), NEW w, {"MSHR_fill", "MSHR_WB"} \subseteq w
    PROVE  BankSeen(m, r, w)
<1>1. Len(r) = Len(m) /\ \A i \in 1 .. Len(m) : r[i].started = m[i].started /\ r[i].type = m[i].type
    BY DEF AnswerIn, Kept
<1>2. \A i \in 1 .. Len(m) : \A x : EntryNeeds(r[i], x) => EntryNeeds(m[i], x) \/ x \in w
    BY <1>1 DEF EntryNeeds
<1> QED
    BY <1>1, <1>2 DEF BankSeen, BankNeeds

LEMMA OlderSeen ==
    ASSUME NEW m, NEW r, Older(m, r), NEW w
    PROVE  BankSeen(m, r, w)
<1>1. Len(r) = Len(m)
    BY DEF Older, Kept
<1>2. \A i \in 1 .. Len(m) : \A x : EntryNeeds(r[i], x) => EntryNeeds(m[i], x)
    BY DEF Older, Kept, EntryNeeds
<1> QED
    BY <1>1, <1>2 DEF BankSeen, BankNeeds

LEMMA AppendSeen ==
    ASSUME NEW m \in Seq(Slot), NEW e, e \in Slot, ~e.started, e.returned = Never, NEW r, r = Append(m, e),
           NEW w, {"MSHR", "MSHR_WB"} \subseteq w
    PROVE  BankSeen(m, r, w)
<1> DEFINE L == Len(m)
<1>1. L \in Nat /\ Len(r) = L + 1 /\ r[L + 1] = e /\ \A i \in 1 .. L : r[i] = m[i]
    OBVIOUS
<1>2. 1 .. L + 1 = (1 .. L) \cup {L + 1}
    BY <1>1
<1>3. \A x : EntryNeeds(e, x) => x \in w
    BY DEF EntryNeeds
<1> QED
    BY <1>1, <1>2, <1>3 DEF BankSeen, BankNeeds

LEMMA RemovedSeen ==
    ASSUME NEW m \in Seq(Slot), NEW i \in 1 .. Len(m), NEW r, r = RemoveAt(m, i), NEW w
    PROVE  BankSeen(m, r, w)
<1>1. Removed(m, r, i)
    BY RemoveAtIs, Zenon
<1>2. Len(r) = Len(m) - 1
    BY <1>1 DEF Removed
<1>3. \A j \in 1 .. Len(r) : Skip(i, j) \in 1 .. Len(m) /\ r[j] = m[Skip(i, j)]
    BY <1>1, <1>2 DEF Removed
<1> QED
    BY <1>3 DEF BankSeen, BankNeeds

(* A pass that has found nothing to do lowers its flag.                    *)
Unneeded(p, f, M, B, x) == /\ x = "pipe" => p = <<>>
                           /\ x = "fill" => f = <<>>
                           /\ \A b \in B : ~BankNeeds(M[b], x)

LEMMA FlagsEnd ==
    ASSUME NEW P, NEW F, NEW M, NEW W, FlagsOK(P, F, M, W), pc \in Turn, NEW c \in Caches, NEW found,
           /\ ~(pc.found \/ found) /\ pc.turn >= Turns(c, Passes[pc.pass]) /\ Passes[pc.pass] # "MSHR_WB"
              => Unneeded(P[c], F[c], M[c], Banks(c), FlagOf(Passes[pc.pass])),
           NEW V, V = EndFlag(W, c, found)
    PROVE  FlagsOK(P, F, M, V)
<1> DEFINE x == FlagOf(Passes[pc.pass])
           last == pc.turn >= Turns(c, Passes[pc.pass]) /\ Passes[pc.pass] # "MSHR_WB"
<1>1. x \in Flags
    <2>1. pc.pass \in 1 .. 6
        BY TurnFields
    <2> QED
        BY <2>1, PassFlags DEF Flags
<1>2. FlagsUp(W, W)
    BY WorkTyped
<1>3. CASE ~last
    <2>1. V = W
        BY <1>3 DEF EndFlag
    <2> QED
        BY <2>1
<1>4. CASE last /\ (pc.found \/ found)
    <2> DEFINE X == {x}
    <2>1. V = [W EXCEPT ![c] = @ \cup X]
        BY <1>4 DEF EndFlag
    <2>2. X \subseteq Flags
        BY <1>1
    <2> HIDE DEF X
    <2>3. FlagsUp(W, V)
        BY <1>2, <2>1, <2>2, FlagsRaised
    <2> QED
        BY <2>3, FlagsMore, SeenSame
<1>5. CASE last /\ ~(pc.found \/ found)
    <2> DEFINE v == W[c] \ {x}
    <2>1. V = [W EXCEPT ![c] = v]
        BY <1>5 DEF EndFlag
    <2>2. v \in SUBSET Flags /\ \A y \in W[c] : y # x => y \in v
        BY <1>2 DEF FlagsUp
    <2>3. Unneeded(P[c], F[c], M[c], Banks(c), x)
        BY <1>5
    <2> HIDE DEF v, x
    <2>4. Changed(W, V, Caches, c, v)
        BY <1>2, <2>1, ChangedIs, Zenon DEF FlagsUp
    <2>5. On(V, Caches) /\ \A d \in Caches : V[d] \in SUBSET Flags
        BY <1>2, <2>2, <2>4 DEF Changed, FlagsUp
    <2>6. Flagged(P[c], F[c], M[c], Banks(c), V[c])
        <3>1. Flagged(P[c], F[c], M[c], Banks(c), W[c]) /\ V[c] = v
            BY <2>4 DEF FlagsOK, Changed
        <3> QED
            BY <2>2, <2>3, <3>1 DEF Flagged, Unneeded
    <2>7. \A d \in Caches : d # c => Flagged(P[d], F[d], M[d], Banks(d), V[d])
        BY <2>4 DEF FlagsOK, Changed
    <2> QED
        BY <2>5, <2>6, <2>7 DEF FlagsOK
<1> QED
    BY <1>3, <1>4, <1>5

-----------------------------------------------------------------------------
(* Every action keeps the arrays and the flags.                            *)

LEMMA Parts ==
    ASSUME IInv
    PROVE  /\ BlocksOK(blocks) /\ Short(pipe) /\ FillsOK(fill) /\ On(pipe, Caches)
           /\ AddrsOK(PFF, PFF_size) /\ AddrsOK(PF_buffer, PF_buffer_size) /\ Len(RQ) <= RQ_size /\ pc \in Turn
           /\ FlagsOK(pipe, fill, MSHR, work) /\ PassOK(pc, MSHR, num) /\ FlagsUp(work, work)
<1>1. ArrayInv /\ FlagInv /\ On(pipe, Caches)
    BY IInvParts
<1> QED
    BY <1>1, WorkTyped DEF ArrayInv, FlagInv

SlotsOK(M) == Banked(M) /\ \A c \in Caches : \A b \in Banks(c) : M[c][b] \in Seq(Slot)

LEMMA GoodSlots ==
    ASSUME NEW P, NEW M, NEW N, NEW q, NEW o, NEW X, Good(P, M, N, q, o, X)
    PROVE  SlotsOK(M)
    BY GoodParts, BankAt DEF SlotsOK

LEMMA IdlePass ==
    ASSUME NEW t, t.cache = NoCache, NEW M, NEW N
    PROVE  PassOK(t, M, N)
    BY DEF PassOK

(* A request enters the pipe of c.                                         *)
LEMMA PipeEntered ==
    ASSUME IInv, NEW c \in Caches, cache_enqueuable(c), NEW x,
           NEW U, U = [pipe EXCEPT ![c] = Append(@, x)], x \in Access,
           NEW W, FlagsOK(pipe, fill, MSHR, W), NEW V, V = [W EXCEPT ![c] = @ \cup {"pipe"}]
    PROVE  Short(U) /\ FlagsOK(U, fill, MSHR, V)
<1> DEFINE v == Append(pipe[c], x)
           X == {"pipe"}
<1>1. pipe[c] \in Seq(Access) /\ latency[c] \in Nat /\ Len(pipe[c]) < latency[c] /\ On(pipe, Caches)
    BY IInvParts, BankTypes DEF PipeOK, cache_enqueuable
<1>2. v \in Seq(Access) /\ Len(v) <= latency[c] /\ U = [pipe EXCEPT ![c] = v]
    BY <1>1
<1>3. X \subseteq Flags /\ V = [W EXCEPT ![c] = @ \cup X] /\ "pipe" \in X
    BY DEF Flags
<1> HIDE DEF v, X
<1>4. Short(U)
    BY <1>1, <1>2, Parts, ShortPut
<1>5. FlagsUp(W, V) /\ X \subseteq V[c]
    BY <1>3, WorkTyped, FlagsRaised
<1>6. Changed(pipe, U, Caches, c, v)
    BY <1>1, <1>2, ChangedIs, Zenon
<1>7. PipeSeen(pipe, U, V)
    BY <1>3, <1>5, <1>6 DEF PipeSeen, Changed
<1>8. FlagsOK(U, fill, MSHR, V)
    BY <1>5, <1>7, FlagsMore, SeenSame
<1> QED
    BY <1>4, <1>8

LEMMA RestRequest ==
    ASSUME IInv, NEW c \in L1s, NEW cmd \in {"READ", "WRITE"}, NEW addr \in Blocks, Request(c, cmd, addr)
    PROVE  ArrayInv' /\ FlagInv'
<1> DEFINE x == Cycles(Action(cmd, addr, c, NoCache, 0, 0, Len(op) + 1), latency[c])
<1>1. /\ blocks' = blocks /\ fill' = fill /\ MSHR' = MSHR /\ num' = num /\ PFF' = PFF
      /\ PF_buffer' = PF_buffer /\ RQ' = RQ /\ pc' = pc /\ pc = Idle
    BY DEF Request, memory
<1>2. c \in Caches /\ cache_enqueuable(c) /\ work' = [work EXCEPT ![c] = @ \cup {"pipe"}]
    BY Levels DEF Request
<1>3. pipe' = [pipe EXCEPT ![c] = Append(@, x)]
    BY DEF Request, Enqueued, Cycles
<1>4. x \in Access
    <2> DEFINE o == Len(op) + 1
               act == Action(cmd, addr, c, NoCache, 0, 0, o)
    <2>1. cmd \in Commands /\ 0 \in Nat /\ NoCache \in Caches \cup {NoCache}
        BY DEF Commands
    <2>2. o \in Nat /\ latency[c] \in Nat
        BY <1>2, IInvParts, BankTypes
    <2> HIDE DEF o
    <2>3. act \in Act
        BY <1>2, <2>1, <2>2 DEF Action, Act
    <2>4. x = Cycles(act, latency[c])
        BY DEF o
    <2> HIDE DEF act, x
    <2> QED
        BY <2>2, <2>3, <2>4, CyclesIs
<1> HIDE DEF x
<1>5. Short(pipe') /\ FlagsOK(pipe', fill, MSHR, work')
    BY <1>2, <1>3, <1>4, Parts, PipeEntered
<1>6. PassOK(pc, MSHR, num)
    BY Parts
<1>7. ArrayInv'
    BY <1>1, <1>5, Parts DEF ArrayInv
<1>8. FlagInv'
    BY <1>1, <1>5, <1>6 DEF FlagInv
<1> QED
    BY <1>7, <1>8

LEMMA RestPrefetch ==
    ASSUME IInv, NEW c \in Caches, Prefetch(c)
    PROVE  ArrayInv' /\ FlagInv'
<1> DEFINE a == Head(PFF[c])
           act == Action("PREFETCH", a, c, NoCache, BankOf(c, a), 0, NoOp)
           x == Cycles(act, latency[c])
           v == Tail(PFF[c])
<1>1. /\ blocks' = blocks /\ fill' = fill /\ MSHR' = MSHR /\ num' = num
      /\ PF_buffer' = PF_buffer /\ RQ' = RQ /\ pc' = pc
    BY DEF Prefetch, memory
<1>2. /\ cache_enqueuable(c) /\ work' = [work EXCEPT ![c] = @ \cup {"pipe"}] /\ PFF[c] # <<>>
      /\ PFF' = [PFF EXCEPT ![c] = v]
    BY DEF Prefetch
<1>3. pipe' = [pipe EXCEPT ![c] = Append(@, x)]
    BY DEF Prefetch, Enqueued, Cycles
<1>4. PFF[c] \in Seq(Blocks) /\ Len(PFF[c]) <= PFF_size[c] /\ PFF_size[c] \in Nat
    BY Parts, BankTypes DEF AddrsOK
<1>5. a \in Blocks /\ v \in Seq(Blocks) /\ Len(v) <= PFF_size[c]
    BY <1>2, <1>4
<1> HIDE DEF a, v
<1>6. AddrsOK(PFF', PFF_size)
    BY <1>2, <1>5, Parts, AddrsPut
<1>7. x \in Access
    <2>1. "PREFETCH" \in Commands /\ 0 \in Nat /\ NoCache \in Caches \cup {NoCache} /\ NoOp \in Nat
        BY DEF Commands, NoOp
    <2>2. BankOf(c, a) \in Nat /\ latency[c] \in Nat
        BY <1>5, BankTypes DEF Banks
    <2>3. act \in Act
        BY <1>5, <2>1, <2>2 DEF Action, Act
    <2> HIDE DEF act
    <2> QED
        BY <2>2, <2>3, CyclesIs
<1> HIDE DEF x
<1>8. Short(pipe') /\ FlagsOK(pipe', fill, MSHR, work')
    BY <1>2, <1>3, <1>7, Parts, PipeEntered
<1>9. ArrayInv'
    BY <1>1, <1>6, <1>8, Parts DEF ArrayInv
<1>10. FlagInv'
    BY <1>1, <1>8, Parts DEF FlagInv
<1> QED
    BY <1>9, <1>10

LEMMA RestSame ==
    ASSUME IInv, UNCHANGED <<caches, RQ, pc>>
    PROVE  ArrayInv' /\ FlagInv'
<1>1. /\ blocks' = blocks /\ pipe' = pipe /\ fill' = fill /\ MSHR' = MSHR /\ num' = num /\ work' = work
      /\ PFF' = PFF /\ PF_buffer' = PF_buffer /\ RQ' = RQ /\ pc' = pc
    BY DEF caches
<1>2. ArrayInv'
    BY <1>1, Parts DEF ArrayInv
<1>3. FlagInv'
    BY <1>1, Parts DEF FlagInv
<1> QED
    BY <1>2, <1>3

LEMMA RestSquash ==
    ASSUME IInv, NEW o, Squash(o) \/ Translate(o)
    PROVE  ArrayInv' /\ FlagInv'
<1>1. UNCHANGED <<caches, RQ, pc>>
    BY DEF Squash, Translate, caches, memory
<1> QED
    BY <1>1, RestSame

LEMMA RestStart ==
    ASSUME IInv, NEW c \in Caches, Start(c)
    PROVE  ArrayInv' /\ FlagInv'
<1> DEFINE p == Aged(pipe[c])
           w == [b \in Banks(c) |-> AgedSlots(MSHR[c][b])]
<1>1. /\ blocks' = blocks /\ num' = num /\ work' = work /\ PFF' = PFF /\ PF_buffer' = PF_buffer /\ RQ' = RQ
      /\ pipe' = [pipe EXCEPT ![c] = p] /\ fill' = [fill EXCEPT ![c] = Aged(@)]
    BY DEF Start, Tick, memory
<1>2. MSHR' = [MSHR EXCEPT ![c] = w]
    BY DEF Start, Tick
<1>3. pc' = PassFrom(1, c, work[c], bus, FALSE)
    BY DEF Start
<1>4. pipe[c] \in Seq(Access) /\ Len(pipe[c]) <= latency[c]
    BY IInvParts, Parts DEF PipeOK, Short
<1>5. Len(p) = Len(pipe[c]) /\ (p = <<>> <=> pipe[c] = <<>>)
    BY <1>4 DEF Aged
<1> HIDE DEF p
<1>6. Short(pipe') /\ Changed(pipe, pipe', Caches, c, p)
    <2>1. Len(p) <= latency[c] /\ On(pipe, Caches)
        BY <1>4, <1>5, Parts
    <2>2. Changed(pipe, pipe', Caches, c, p)
        BY <1>1, <2>1, ChangedIs, Zenon
    <2>3. Short(pipe')
        BY <2>1, <2>2, Parts DEF Changed, Short
    <2> QED
        BY <2>2, <2>3
<1>7. FillsOK(fill') /\ Len(fill'[c]) = Len(fill[c])
    BY <1>1, Parts, FillAged
<1>8. PipeSeen(pipe, pipe', work)
    BY <1>5, <1>6 DEF PipeSeen, Changed
<1>9. FillSeen(fill, fill', work)
    <2>1. fill[c] \in Seq(Fill) /\ fill'[c] \in Seq(Fill) /\ On(fill, Caches)
        BY <1>7, Parts DEF FillsOK
    <2>2. fill'[c] # <<>> => fill[c] # <<>>
        BY <1>7, <2>1
    <2>3. \A x \in Caches : x # c => fill'[x] = fill[x]
        BY <1>1, <2>1 DEF On
    <2> QED
        BY <2>2, <2>3 DEF FillSeen
<1>10. SlotsSeen(MSHR, MSHR', work)
    <2>1. \A x \in Caches : x # c => MSHR'[x] = MSHR[x]
        BY <1>2, IInvParts DEF Banked, On
    <2>2. MSHR'[c] = w
        BY <1>2, IInvParts DEF Banked, On
    <2>3. ASSUME NEW b \in Banks(c) PROVE BankSeen(MSHR[c][b], MSHR'[c][b], work[c])
        <3>1. MSHR[c][b] \in Seq(Slot) /\ MSHR'[c][b] = AgedSlots(MSHR[c][b])
            BY <2>2, IInvParts
        <3>2. Older(MSHR[c][b], MSHR'[c][b])
            BY <3>1, OlderIs DEF AgedSlots
        <3> QED
            BY <3>2, OlderSeen
    <2>4. \A x \in Caches : x # c => \A b \in Banks(x) : BankSeen(MSHR[x][b], MSHR'[x][b], work[x])
        BY <2>1 DEF BankSeen
    <2> QED
        BY <2>3, <2>4 DEF SlotsSeen
<1>11. FlagsOK(pipe', fill', MSHR', work')
    BY <1>1, <1>8, <1>9, <1>10, Parts, FlagsMore
<1>12. pc' \in Turn /\ PassOK(pc', MSHR', num')
    <2> DEFINE k == 1
               f == FALSE
    <2>0. k \in 1 .. 7 /\ k \in Nat /\ k # 2 /\ f \in BOOLEAN /\ pc' = PassFrom(k, c, work[c], bus, f)
        BY <1>3
    <2> HIDE DEF k, f
    <2>1. pc' \in Turn /\ (pc'.cache = NoCache \/ Begins(pc', k, c, f))
        BY <2>0, PassFromIs
    <2>2. CASE pc'.cache = NoCache
        BY <2>1, <2>2, IdlePass
    <2>3. CASE Begins(pc', k, c, f)
        BY <2>0, <2>1, <2>3, PassBegins
    <2> QED
        BY <2>1, <2>2, <2>3
<1>13. ArrayInv'
    BY <1>1, <1>6, <1>7, <1>12, Parts DEF ArrayInv
<1>14. FlagInv'
    BY <1>11, <1>12 DEF FlagInv
<1> QED
    BY <1>13, <1>14

(* The slot that asked gets its answer, and its cache looks.               *)
LEMMA FlagsArrived ==
    ASSUME NEW P, NEW F, NEW M, NEW W, FlagsOK(P, F, M, W), SlotsOK(M), NEW c \in Caches, NEW b \in Banks(c),
           NEW s, NEW d \in 0 .. Never - 1, NEW S, S = [M EXCEPT ![c][b] = Arrived(@, s, d)],
           NEW V, V = [W EXCEPT ![c] = @ \cup {"MSHR_fill", "MSHR_WB"}]
    PROVE  FlagsOK(P, F, S, V)
<1> DEFINE X == {"MSHR_fill", "MSHR_WB"}
           v == Arrived(M[c][b], s, d)
<1>1. X \subseteq Flags /\ V = [W EXCEPT ![c] = @ \cup X]
    BY DEF Flags
<1>8. X = {"MSHR_fill", "MSHR_WB"}
    OBVIOUS
<1>2. M[c][b] \in Seq(Slot) /\ Banked(M) /\ S = [M EXCEPT ![c][b] = v]
    BY DEF SlotsOK
<1>3. AnswerIn(M[c][b], v, s)
    BY <1>2, AnswerInIs
<1> HIDE DEF X, v
<1>4. BankChanged(M, S, c, b, v)
    BY <1>2, BankChangedIs
<1>5. FlagsUp(W, V) /\ X \subseteq V[c]
    BY <1>1, WorkTyped, FlagsRaised
<1>6. BankSeen(M[c][b], v, V[c])
    BY <1>3, <1>5, <1>8, AnswerSeen
<1>7. SlotsSeen(M, S, V)
    BY <1>4, <1>6, SlotsSeenIn
<1> QED
    BY <1>5, <1>7, FlagsMore, SeenSame

LEMMA FlagsAnswer ==
    ASSUME NEW act, NEW m, NEW w, Answer(act, m, w), NEW P, NEW F, FlagsOK(P, F, m, w), SlotsOK(m),
           Answerable(op, act)
    PROVE  FlagsOK(P, F, MSHR', work')
<1>1. CASE act.prev = NoCache
    BY <1>1 DEF Answer
<1>2. CASE act.prev # NoCache
    <2>1. /\ MSHR' = [m EXCEPT ![act.prev][act.bank] = Arrived(@, act.index, SharingDelay(act))]
          /\ work' = [w EXCEPT ![act.prev] = @ \cup {"MSHR_fill", "MSHR_WB"}]
        BY <1>2 DEF Answer
    <2>2. act.prev \in Caches /\ act.bank \in Banks(act.prev)
        BY <1>2 DEF Answerable
    <2>3. SharingDelay(act) \in 0 .. Never - 1
        BY AnswerReplies
    <2> QED
        BY <2>1, <2>2, <2>3, FlagsArrived
<1> QED
    BY <1>1, <1>2

(* An entry goes up to a level that takes it.                              *)
LEMMA RestUpstream ==
    ASSUME IInv, NEW c \in Caches, NEW b \in Banks(c), NEW i \in 1 .. Len(MSHR[c][b]), UpstreamTakes(c),
           MSHR' = [MSHR EXCEPT ![c][b][i].started = TRUE],
           NEW w, FlagsOK(pipe, fill, MSHR, w), send_request_upstream(c, b, MSHR[c][b][i], pipe, w)
    PROVE  Short(pipe') /\ Len(RQ') <= RQ_size /\ FlagsOK(pipe', fill, MSHR', work')
<1> DEFINE e == MSHR[c][b][i]
           act == Action(e.act.cmd, e.act.addr, e.act.core, c, b, e.slot, e.act.op)
           v == [MSHR[c][b] EXCEPT ![i].started = TRUE]
<1>1. MSHR[c][b] \in Seq(Slot) /\ Banked(MSHR) /\ MSHR' = [MSHR EXCEPT ![c][b] = v]
    BY IInvParts
<1>2. SentUp(MSHR[c][b], v, i)
    BY <1>1, SentUpIs
<1> HIDE DEF v
<1>3. BankChanged(MSHR, MSHR', c, b, v)
    BY <1>1, BankChangedIs
<1>4. \A V : SlotsSeen(MSHR, MSHR', V)
    <2>1. ASSUME NEW V PROVE SlotsSeen(MSHR, MSHR', V)
        BY <1>2, <1>3, SentUpSeen, SlotsSeenIn
    <2> QED
        BY <2>1
<1>5. CASE c = LLC
    <2>1. next_level[c] = MC
        BY <1>5, Levels
    <2>2. /\ pipe' = pipe /\ work' = w
          /\ RQ' = Append(RQ, [act |-> act, started |-> FALSE, finished |-> Never, returned |-> FALSE])
        BY <2>1 DEF send_request_upstream
    <2>3. Len(RQ) < RQ_size /\ RQ \in Seq(MemRequest) /\ RQ_size \in Nat
        BY <2>1, IInvParts, QueueParts, TimesAssumption DEF UpstreamTakes, GoodNow, Pos
    <2>4. Len(RQ') <= RQ_size
        <3> HIDE DEF act
        <3> QED
            BY <2>2, <2>3
    <2>5. FlagsOK(pipe, fill, MSHR', w)
        BY <1>4, FlagsMore, SeenSame, WorkTyped
    <2> QED
        BY <2>2, <2>4, <2>5, Parts
<1>6. CASE c # LLC
    <2> DEFINE x == Cycles(act, latency[LLC])
               W == [w EXCEPT ![LLC] = @ \cup {"pipe"}]
    <2>1. next_level[c] = LLC /\ LLC # MC /\ LLC \in Caches
        BY <1>6, Levels, Zenon
    <2>2. /\ pipe' = [pipe EXCEPT ![LLC] = Append(@, x)] /\ work' = [w EXCEPT ![LLC] = @ \cup {"pipe"}]
          /\ RQ' = RQ
        BY <2>1 DEF send_request_upstream, Enqueued, Cycles
    <2>3. cache_enqueuable(LLC)
        BY <2>1 DEF UpstreamTakes
    <2>4. x \in Access
        <3>1. e \in Slot /\ e.act \in Act /\ e.slot \in Nat
            BY <1>1, SlotFields
        <3>2. b \in Nat /\ latency[LLC] \in Nat
            BY <2>1, BankTypes DEF Banks
        <3>3. e.act.cmd \in Commands /\ e.act.addr \in Blocks /\ e.act.core \in Caches /\ e.act.op \in Nat
            BY <3>1 DEF Act
        <3> HIDE DEF e
        <3>4. act \in Act
            BY <3>1, <3>2, <3>3 DEF Action, Act
        <3> HIDE DEF act
        <3> QED
            BY <3>2, <3>4, CyclesIs
    <2> HIDE DEF x
    <2>5. Short(pipe') /\ FlagsOK(pipe', fill, MSHR, work')
        BY <2>1, <2>2, <2>3, <2>4, PipeEntered
    <2>6. FlagsOK(pipe', fill, MSHR', work')
        BY <1>4, <2>5, FlagsMore, SeenSame, WorkTyped
    <2> QED
        BY <2>2, <2>5, <2>6, Parts
<1> QED
    BY <1>5, <1>6

LEMMA RestProcessMSHR_WB ==
    ASSUME IInv, NEW c \in Caches, ProcessMSHR_WB(c)
    PROVE  ArrayInv' /\ FlagInv'
<1> DEFINE b == TurnBank(c)
           m == MSHR[c][b]
           waiting == {i \in 1 .. Len(m) : m[i].type = "WRITEBACK" /\ ~m[i].started}
           i == Min(waiting)
           found == ~pc.up \/ waiting # {}
<1>1. /\ blocks' = blocks /\ fill' = fill /\ num' = num /\ PFF' = PFF /\ PF_buffer' = PF_buffer
      /\ Advance(found)
    BY DEF ProcessMSHR_WB
<1>2. b \in Banks(c) /\ m \in Seq(Slot)
    BY TurnBankIn, IInvParts
<1>3. pc.cache = c /\ pc.pass = 1
    <2>1. Running(c, Passes[1])
        BY PassNames DEF ProcessMSHR_WB
    <2> QED
        BY <2>1, Parts, RunningIs, SMTT(20)
<1>4. /\ Short(pipe') /\ Len(RQ') <= RQ_size /\ FlagsOK(pipe', fill, MSHR', work')
      /\ ~found => MSHR' = MSHR
    <2>1. CASE pc.up /\ waiting # {} /\ UpstreamTakes(c)
        <3>1. MSHR' = [MSHR EXCEPT ![c][b][i].started = TRUE] /\ send_request_upstream(c, b, m[i], pipe, work)
            BY <2>1 DEF ProcessMSHR_WB
        <3>2. waiting \subseteq 1 .. Len(m) /\ waiting # {}
            BY <2>1
        <3> HIDE DEF waiting
        <3>3. i \in 1 .. Len(m)
            BY <1>2, <3>2, MinPlace
        <3> HIDE DEF i, b
        <3>4. Short(pipe') /\ Len(RQ') <= RQ_size /\ FlagsOK(pipe', fill, MSHR', work')
            BY <1>2, <2>1, <3>1, <3>3, Parts, RestUpstream
        <3> QED
            BY <2>1, <3>4
    <2>2. CASE ~(pc.up /\ waiting # {} /\ UpstreamTakes(c))
        <3>1. MSHR' = MSHR /\ pipe' = pipe /\ work' = work /\ RQ' = RQ
            BY <2>2 DEF ProcessMSHR_WB
        <3> QED
            BY <3>1, Parts, Zenon
    <2> QED
        BY <2>1, <2>2
<1>5. found \in BOOLEAN
    OBVIOUS
<1>6. ~found => NoneToSend(m)
    BY DEF NoneToSend
<1> HIDE DEF found, b
<1>7. pc' \in Turn /\ PassOK(pc', MSHR', num')
    BY <1>1, <1>3, <1>4, <1>5, <1>6, PassNext DEF b
<1>8. ArrayInv'
    BY <1>1, <1>4, <1>7, Parts DEF ArrayInv
<1>9. FlagInv'
    BY <1>1, <1>4, <1>7 DEF FlagInv
<1> QED
    BY <1>8, <1>9

LEMMA NoMisses ==
    ASSUME NEW c, NEW b, NEW m, NEW n, BankOK(c, b, m, n), ~(n.miss > 0)
    PROVE  Misses(m) = {}
<1>1. n.miss \in Nat /\ n.miss = Cardinality(Misses(m)) /\ Len(m) \in Nat
    BY DEF BankOK, Counted, Counters
<1>2. IsFiniteSet(Misses(m))
    <2>1. Misses(m) \in SUBSET (1 .. Len(m))
        BY DEF Misses
    <2> QED
        BY <1>1, <2>1, PlacesFinite
<1>3. Cardinality(Misses(m)) = 0
    BY <1>1
<1> QED
    BY <1>2, <1>3, FS_EmptySet

LEMMA RestProcessMSHR ==
    ASSUME IInv, NEW c \in Caches, ProcessMSHR(c)
    PROVE  ArrayInv' /\ FlagInv'
<1> DEFINE Senders(k) == {b \in Banks(c) : /\ pc.up /\ UpstreamTakes(c)
                                            /\ num[c][b].unprocessed > 0
                                            /\ Unsent(c, b, cmd_order[k]) # {}}
           ranks == {k \in 1 .. Len(cmd_order) : Senders(k) # {}}
           found == \E b \in Banks(c) : num[c][b].miss > 0
           k == Min(ranks)
           b == Min(Senders(k))
           i == Min(Unsent(c, b, cmd_order[k]))
<1>1. /\ blocks' = blocks /\ fill' = fill /\ PFF' = PFF /\ PF_buffer' = PF_buffer /\ pc' = Idle
    BY Zenon DEF ProcessMSHR
<1>2. pc \in Turn /\ pc.cache = c /\ pc.pass = 6 /\ Passes[pc.pass] = "MSHR" /\ FlagOf(Passes[pc.pass]) = "MSHR"
    <2>1. Running(c, Passes[6])
        BY PassNames, Zenon DEF ProcessMSHR
    <2>2. pc \in Turn /\ pc.cache = c /\ pc.pass = 6
        BY <2>1, Parts, RunningIs
    <2> QED
        BY <2>2, PassNames, PassFlags
<1>3. Short(pipe') /\ Len(RQ') <= RQ_size /\ FlagsOK(pipe', fill, MSHR', work')
    <2>1. CASE ranks # {}
        <3>1. /\ MSHR' = [MSHR EXCEPT ![c][b][i].started = TRUE]
              /\ send_request_upstream(c, b, MSHR[c][b][i], pipe, EndFlag(work, c, TRUE))
            BY <2>1, Zenon DEF ProcessMSHR
        <3>2. k \in ranks
            <4>1. Len(cmd_order) \in Nat
                BY RequestsAssumption
            <4>2. ranks \subseteq Nat
                BY <4>1
            <4> HIDE DEF ranks
            <4> QED
                BY <2>1, <4>2, MinIsLeast, Zenon
        <3>3. Senders(k) # {}
            BY <3>2
        <3>4. b \in Banks(c) /\ UpstreamTakes(c) /\ Unsent(c, b, cmd_order[k]) # {}
            <4>1. Banks(c) \subseteq Nat
                BY BankTypes DEF Banks
            <4>2. Senders(k) \subseteq Nat
                BY <4>1
            <4>3. b \in Senders(k)
                BY <3>3, <4>2, MinIsLeast, Zenon
            <4> QED
                BY <4>3
        <3> HIDE DEF b, k
        <3>5. i \in 1 .. Len(MSHR[c][b])
            BY <3>4, IInvParts, UnsentIs
        <3> DEFINE w == EndFlag(work, c, TRUE)
        <3>6. w = EndFlag(work, c, TRUE)
            OBVIOUS
        <3> HIDE DEF i, w
        <3>7. FlagsOK(pipe, fill, MSHR, w)
            BY <1>2, <3>6, Parts, FlagsEnd
        <3> QED
            BY <3>1, <3>4, <3>5, <3>6, <3>7, RestUpstream, Zenon
    <2>2. CASE ranks = {}
        <3>1. MSHR' = MSHR /\ num' = num /\ pipe' = pipe /\ RQ' = RQ /\ work' = EndFlag(work, c, found)
            BY <2>2, Zenon DEF ProcessMSHR
        <3>2. ~found => Unneeded(pipe[c], fill[c], MSHR[c], Banks(c), "MSHR")
            <4>1. ASSUME ~found, NEW d \in Banks(c) PROVE ~BankNeeds(MSHR[c][d], "MSHR")
                <5>1. BankOK(c, d, MSHR[c][d], num[c][d])
                    BY IInvParts
                <5>2. Misses(MSHR[c][d]) = {}
                    BY <4>1, <5>1, NoMisses
                <5> QED
                    BY <5>2 DEF BankNeeds, EntryNeeds, Misses
            <4> QED
                BY <4>1 DEF Unneeded
        <3> HIDE DEF found
        <3>3. FlagsOK(pipe, fill, MSHR, work')
            BY <1>2, <3>1, <3>2, Parts, FlagsEnd
        <3> QED
            BY <3>1, <3>3, Parts
    <2> QED
        BY <2>1, <2>2
<1>4. pc' \in Turn /\ PassOK(pc', MSHR', num')
    BY <1>1, IdleIs, IdlePass
<1>5. ArrayInv'
    BY <1>1, <1>3, <1>4, Parts DEF ArrayInv
<1>6. FlagInv'
    BY <1>1, <1>3, <1>4 DEF FlagInv
<1> QED
    BY <1>5, <1>6

LEMMA RestMCStep ==
    ASSUME IInv, MCStep
    PROVE  ArrayInv' /\ FlagInv'
<1>1. /\ blocks' = blocks /\ pipe' = pipe /\ fill' = fill /\ num' = num /\ PFF' = PFF /\ PF_buffer' = PF_buffer
      /\ pc' = LLCDue
    BY DEF MCStep
<1>0. PICK lat \in DramLatency : StepMemory(lat)
    BY DEF MCStep
<1> DEFINE r == StepRQ(AgedRQ(RQ), lat)
           A == {i \in 1 .. Len(r) : r[i].finished = 0 /\ ~r[i].returned /\ Less(bus["FSB"]) = 0}
           i == Min(A)
           act == r[i].act
           t == IF A = {} THEN r ELSE [r EXCEPT ![i].returned = TRUE]
<1>2. /\ RQ' = IF t # <<>> /\ Head(t).returned THEN Tail(t) ELSE t
      /\ A = {} => MSHR' = MSHR /\ work' = work
      /\ A # {} => /\ MSHR' = [MSHR EXCEPT ![act.prev][act.bank] = Arrived(@, act.index, 0)]
                   /\ work' = [work EXCEPT ![act.prev] = @ \cup {"MSHR_fill", "MSHR_WB"}]
    BY <1>0, Zenon DEF StepMemory
<1>3. r \in Seq(MemRequest) /\ SameRQ(RQ, r) /\ GoodNow
    <2>1. lat \in 0 .. Never - 1 /\ GoodNow
        BY TimesAssumption, IInvParts
    <2>2. r = StepRQ(AgedRQ(RQ), lat) /\ RQ \in Seq(MemRequest)
        BY <2>1, QueueParts DEF GoodNow
    <2> HIDE DEF r
    <2> QED
        BY <2>1, <2>2, QueueStepped
<1>4. Len(r) = Len(RQ)
    BY <1>3 DEF SameRQ
<1>5. A # {} => i \in 1 .. Len(r)
    <2>1. A \subseteq 1 .. Len(r)
        OBVIOUS
    <2> HIDE DEF A, r
    <2> QED
        BY <1>3, <2>1, MinPlace, Zenon
<1>6. FlagsOK(pipe, fill, MSHR', work')
    <2>1. CASE A = {}
        BY <1>2, <2>1, Parts, Zenon
    <2>2. CASE A # {}
        <3>1. /\ MSHR' = [MSHR EXCEPT ![act.prev][act.bank] = Arrived(@, act.index, 0)]
              /\ work' = [work EXCEPT ![act.prev] = @ \cup {"MSHR_fill", "MSHR_WB"}]
            BY <1>2, <2>2, Zenon
        <3>2. Good(pipe, MSHR, num, r, op, {})
            <4> HIDE DEF r
            <4> QED
                BY <1>3, GoodQueueAge DEF GoodNow
        <3>3. act.prev = LLC /\ act.bank \in Banks(LLC)
            <4>1. i \in 1 .. Len(r)
                BY <1>5, <2>2
            <4> HIDE DEF i, r
            <4> QED
                BY <3>2, <4>1, QueueParts, RequestAct
        <3>4. SlotsOK(MSHR)
            BY <1>3, GoodSlots DEF GoodNow
        <3>5. 0 \in 0 .. Never - 1 /\ LLC \in Caches
            BY Levels DEF Never
        <3> HIDE DEF act
        <3>6. act.prev \in Caches /\ act.bank \in Banks(act.prev)
            BY <3>3, <3>5
        <3> QED
            BY <3>1, <3>4, <3>5, <3>6, Parts, FlagsArrived, Zenon
    <2> QED
        BY <2>1, <2>2
<1>7. Len(RQ') <= RQ_size
    <2>1. Len(t) = Len(RQ) /\ t \in Seq(MemRequest)
        <3>1. CASE A = {}
            BY <1>3, <1>4, <3>1
        <3>2. CASE A # {}
            <4> DEFINE y == [r[i] EXCEPT !.returned = TRUE]
            <4>1. t = [r EXCEPT ![i] = y] /\ i \in 1 .. Len(r)
                BY <1>5, <3>2
            <4> HIDE DEF r, i
            <4>3. r[i] \in MemRequest
                BY <1>3, <4>1
            <4>2. y \in MemRequest
                BY <4>3, Zenon DEF MemRequest
            <4> HIDE DEF y, t
            <4> QED
                BY <1>3, <1>4, <4>1, <4>2
        <3> QED
            BY <3>1, <3>2
    <2>5. RQ' = IF t # <<>> /\ Head(t).returned THEN Tail(t) ELSE t
        BY <1>2, Zenon
    <2> HIDE DEF t
    <2>2. Len(RQ) <= RQ_size /\ RQ_size \in Nat /\ Len(RQ) \in Nat
        <3>1. RQ \in Seq(MemRequest)
            BY <1>3, QueueParts DEF GoodNow
        <3> QED
            BY <3>1, Parts, TimesAssumption DEF Pos
    <2>3. CASE t # <<>> /\ Head(t).returned
        <3>1. RQ' = Tail(t) /\ Len(Tail(t)) = Len(t) - 1
            BY <2>1, <2>3, <2>5
        <3> QED
            BY <2>1, <2>2, <3>1
    <2>4. CASE ~(t # <<>> /\ Head(t).returned)
        BY <2>1, <2>2, <2>4, <2>5
    <2> QED
        BY <2>3, <2>4
<1>8. pc' \in Turn /\ PassOK(pc', MSHR', num')
    BY <1>1, IdleIs, IdlePass
<1>9. ArrayInv'
    BY <1>1, <1>7, <1>8, Parts DEF ArrayInv
<1>10. FlagInv'
    BY <1>1, <1>6, <1>8 DEF FlagInv
<1> QED
    BY <1>9, <1>10

LEMMA RestPipeWaits ==
    ASSUME IInv, NEW c \in Caches, PipeWaits(c)
    PROVE  ArrayInv' /\ FlagInv'
<1> DEFINE found == pipe[c] # <<>>
<1>1. /\ blocks' = blocks /\ pipe' = pipe /\ fill' = fill /\ MSHR' = MSHR /\ num' = num /\ PFF' = PFF
      /\ PF_buffer' = PF_buffer /\ RQ' = RQ /\ work' = EndFlag(work, c, found) /\ Advance(found)
    BY DEF PipeWaits, memory
<1>2. pc \in Turn /\ pc.cache = c /\ pc.pass = 5 /\ FlagOf(Passes[pc.pass]) = "pipe"
    <2>1. Running(c, Passes[5])
        BY PassNames DEF PipeWaits
    <2>2. pc \in Turn /\ pc.cache = c /\ pc.pass = 5
        BY <2>1, Parts, RunningIs
    <2> QED
        BY <2>2, PassFlags
<1>3. found \in BOOLEAN
    OBVIOUS
<1>4. ~found => Unneeded(pipe[c], fill[c], MSHR[c], Banks(c), "pipe")
    BY DEF Unneeded, BankNeeds, EntryNeeds
<1> HIDE DEF found
<1>5. FlagsOK(pipe, fill, MSHR, work')
    BY <1>1, <1>2, <1>4, Parts, FlagsEnd
<1>6. pc' \in Turn /\ PassOK(pc', MSHR', num')
    BY <1>1, <1>2, <1>3, PassNext
<1>7. ArrayInv'
    BY <1>1, <1>6, Parts DEF ArrayInv
<1>8. FlagInv'
    BY <1>1, <1>5, <1>6, Zenon DEF FlagInv
<1> QED
    BY <1>7, <1>8

LEMMA RestDrop ==
    ASSUME IInv, NEW c \in Caches, DropMSHR_WB(c)
    PROVE  ArrayInv' /\ FlagInv'
<1> DEFINE Sent(b) == {j \in 1 .. Len(MSHR[c][b]) : MSHR[c][b][j].type = "WRITEBACK" /\ MSHR[c][b][j].started}
           Over(b) == {i \in Sent(b) : MSHR[c][b][i].returned = 0}
           found == \E b \in Banks(c) : Sent(b) # {}
<1>1. /\ blocks' = blocks /\ pipe' = pipe /\ fill' = fill /\ PFF' = PFF /\ PF_buffer' = PF_buffer /\ RQ' = RQ
    BY DEF DropMSHR_WB, memory
<1>2. pc \in Turn /\ pc.cache = c /\ pc.pass = 2 /\ FlagOf(Passes[pc.pass]) = "MSHR_WB"
    <2>1. Running(c, Passes[2])
        BY PassNames DEF DropMSHR_WB
    <2>2. pc \in Turn /\ pc.cache = c /\ pc.pass = 2
        BY <2>1, Parts, RunningIs
    <2> QED
        BY <2>2, PassFlags, Zenon
<1>3. \/ \E b \in Banks(c) : Over(b) # {} /\ MSHR' = [MSHR EXCEPT ![c][b] = RemoveAt(@, Min(Over(b)))]
                             /\ pc' = [pc EXCEPT !.found = TRUE] /\ work' = work
      \/ work' = EndFlag(work, c, found) /\ MSHR' = MSHR /\ num' = num /\ Advance(found)
    BY Zenon DEF DropMSHR_WB
<1>4. ASSUME NEW b \in Banks(c), Over(b) # {}, MSHR' = [MSHR EXCEPT ![c][b] = RemoveAt(@, Min(Over(b)))],
             pc' = [pc EXCEPT !.found = TRUE], work' = work
      PROVE  FlagsOK(pipe, fill, MSHR', work') /\ pc' \in Turn /\ PassOK(pc', MSHR', num')
    <2> DEFINE i == Min(Over(b))
               v == RemoveAt(MSHR[c][b], i)
    <2>1. MSHR[c][b] \in Seq(Slot) /\ Banked(MSHR) /\ MSHR' = [MSHR EXCEPT ![c][b] = v]
        BY <1>4, IInvParts, Zenon
    <2>2. i \in 1 .. Len(MSHR[c][b])
        <3> DEFINE I == Over(b)
        <3>1. I \subseteq 1 .. Len(MSHR[c][b]) /\ I # {}
            BY <1>4
        <3> HIDE DEF I
        <3>2. Min(I) \in I
            BY <2>1, <3>1, MinPlace, Zenon
        <3> QED
            BY <3>1, <3>2 DEF I
    <2> HIDE DEF i
    <2>3. BankSeen(MSHR[c][b], v, work[c])
        BY <2>1, <2>2, RemovedSeen
    <2> HIDE DEF v
    <2>4. BankChanged(MSHR, MSHR', c, b, v)
        BY <2>1, BankChangedIs
    <2>5. SlotsSeen(MSHR, MSHR', work)
        BY <2>3, <2>4, SlotsSeenIn
    <2>10. FlagsOK(pipe, fill, MSHR', work)
        BY <2>5, Parts, FlagsMore, SeenSame
    <2>6. FlagsOK(pipe, fill, MSHR', work')
        BY <1>4, <2>10
    <2>7. InTurn(pc, pc', pc.turn, TRUE)
        <3> DEFINE n == pc.turn
                   f == TRUE
        <3>1. n \in Nat /\ f \in BOOLEAN
            BY <1>2, TurnFields
        <3>2. Moved(pc, pc', n, f)
            BY <1>2, <1>4 DEF Moved, Turn
        <3> HIDE DEF n, f
        <3>3. InTurn(pc, pc', n, f)
            BY <1>2, <3>1, <3>2, TurnMoved, Zenon
        <3> QED
            BY <3>3 DEF n, f
    <2>8. /\ pc' \in Turn /\ pc'.cache = c /\ pc'.pass = 2 /\ pc'.turn = pc.turn /\ pc'.found
          /\ pc.turn \in 1 .. Turns(c, Passes[2])
        <3>1. c # NoCache
            BY Levels
        <3>2. pc.turn \in 1 .. Turns(c, Passes[2])
            BY <1>2, <3>1, Parts DEF PassOK
        <3> QED
            BY <1>2, <2>7, <3>2 DEF InTurn
    <2>9. PassOK(pc', MSHR', num')
        BY <2>8 DEF PassOK
    <2> QED
        BY <2>6, <2>8, <2>9
<1>5. ASSUME work' = EndFlag(work, c, found), MSHR' = MSHR, num' = num, Advance(found)
      PROVE  FlagsOK(pipe, fill, MSHR', work') /\ pc' \in Turn /\ PassOK(pc', MSHR', num')
    <2>1. found \in BOOLEAN
        OBVIOUS
    <2>2. ~(pc.found \/ found) => Unneeded(pipe[c], fill[c], MSHR[c], Banks(c), "MSHR_WB")
        <3>1. SUFFICES ASSUME ~pc.found, ~found, NEW b \in Banks(c), NEW j \in 1 .. Len(MSHR[c][b])
                       PROVE  ~EntryNeeds(MSHR[c][b][j], "MSHR_WB")
            BY DEF Unneeded, BankNeeds
        <3>2. MSHR[c][b][j].type = "WRITEBACK" => MSHR[c][b][j].started
            BY <1>2, <3>1, Parts, Levels DEF PassOK, NoneToSend
        <3>3. ~(MSHR[c][b][j].type = "WRITEBACK" /\ MSHR[c][b][j].started)
            BY <3>1
        <3> QED
            BY <3>2, <3>3 DEF EntryNeeds
    <2> HIDE DEF found
    <2>3. FlagsOK(pipe, fill, MSHR, work')
        BY <1>2, <1>5, <2>2, Parts, FlagsEnd
    <2>4. pc' \in Turn /\ PassOK(pc', MSHR', num')
        BY <1>2, <1>5, <2>1, PassNext, SMTT(20)
    <2> QED
        BY <1>5, <2>3, <2>4
<1>6. FlagsOK(pipe, fill, MSHR', work') /\ pc' \in Turn /\ PassOK(pc', MSHR', num')
    BY <1>3, <1>4, <1>5
<1>7. ArrayInv'
    BY <1>1, <1>6, Parts DEF ArrayInv
<1>8. FlagInv'
    BY <1>1, <1>6 DEF FlagInv
<1> QED
    BY <1>7, <1>8

LEMMA SlotsPut ==
    ASSUME NEW M, SlotsOK(M), NEW S, NEW c \in Caches, NEW b \in Banks(c), NEW v, v \in Seq(Slot),
           BankChanged(M, S, c, b, v)
    PROVE  SlotsOK(S)
    BY DEF SlotsOK, BankChanged

(* A fill of c is started, or none.                                        *)
LEMMA FillFlagged ==
    ASSUME NEW P, NEW F, NEW M, NEW W, FlagsOK(P, F, M, W), NEW c \in Caches, NEW G, On(F, Caches),
           NEW v, Changed(F, G, Caches, c, v), NEW X, X \subseteq Flags, F = G \/ "fill" \in X,
           NEW V, V = [W EXCEPT ![c] = @ \cup X]
    PROVE  FlagsOK(P, G, M, V) /\ X \subseteq V[c]
<1>1. FlagsUp(W, V) /\ X \subseteq V[c]
    BY WorkTyped, FlagsRaised
<1>2. FillSeen(F, G, V)
    BY <1>1 DEF FillSeen, Changed
<1> QED
    BY <1>1, <1>2, FlagsMore, SeenSame

(* A bank loses an entry.                                                  *)
LEMMA RemovedFlagged ==
    ASSUME NEW P, NEW F, NEW M, NEW W, FlagsOK(P, F, M, W), SlotsOK(M), NEW c \in Caches, NEW b \in Banks(c),
           NEW i \in 1 .. Len(M[c][b]), NEW S, S = [M EXCEPT ![c][b] = RemoveAt(@, i)]
    PROVE  FlagsOK(P, F, S, W) /\ SlotsOK(S)
<1> DEFINE v == RemoveAt(M[c][b], i)
<1>1. M[c][b] \in Seq(Slot) /\ Banked(M) /\ S = [M EXCEPT ![c][b] = v] /\ v = RemoveAt(M[c][b], i)
    BY DEF SlotsOK
<1> HIDE DEF v
<1>2. v \in Seq(Slot)
    BY <1>1, RemoveAtIs
<1>3. BankSeen(M[c][b], v, W[c])
    BY <1>1, RemovedSeen
<1>4. BankChanged(M, S, c, b, v)
    BY <1>1, BankChangedIs
<1>5. SlotsSeen(M, S, W)
    BY <1>3, <1>4, SlotsSeenIn
<1>6. FlagsOK(P, F, S, W)
    BY <1>5, FlagsMore, SeenSame, WorkTyped
<1>7. SlotsOK(S)
    BY <1>2, <1>4, SlotsPut
<1> QED
    BY <1>6, <1>7

LEMMA RestProcessMSHR_fill ==
    ASSUME IInv, NEW c \in Caches, ProcessMSHR_fill(c)
    PROVE  ArrayInv' /\ FlagInv'
<1> DEFINE b == TurnBank(c)
           i == Min(Returned(c, b))
           e == MSHR[c][b][i]
           found == num[c][b].fill > 0
           ready == /\ found /\ Returned(c, b) # {} /\ cache_fillable(c)
                    /\ can_schedule_downstream(e.act.prev)
           S == [MSHR EXCEPT ![c][b] = RemoveAt(@, i)]
           w == [work EXCEPT ![c] = IF fill' = fill THEN @ ELSE @ \cup {"fill"}]
<1>1. blocks' = blocks /\ pipe' = pipe /\ PFF' = PFF /\ RQ' = RQ /\ Advance(found)
    <2>1. blocks' = blocks /\ pipe' = pipe /\ PFF' = PFF /\ RQ' = RQ
        BY DEF ProcessMSHR_fill, memory
    <2>2. Advance(found)
        BY DEF ProcessMSHR_fill
    <2> QED
        BY <2>1, <2>2
<1>2. /\ b \in Banks(c) /\ MSHR[c][b] \in Seq(Slot) /\ GoodNow
      /\ BankOK(c, b, MSHR[c][b], num[c][b]) /\ SlotsOK(MSHR)
    <2>1. GoodNow
        BY IInvParts
    <2>2. SlotsOK(MSHR)
        BY <2>1, GoodSlots DEF GoodNow
    <2> QED
        BY <2>1, <2>2, TurnBankIn, IInvParts
<1>3. pc \in Turn /\ pc.cache = c /\ pc.pass = 3 /\ FlagOf(Passes[pc.pass]) = "MSHR_fill"
    <2>1. Running(c, Passes[3])
        BY PassNames DEF ProcessMSHR_fill
    <2>2. pc \in Turn /\ pc.cache = c /\ pc.pass = 3
        BY <2>1, Parts, RunningIs
    <2> QED
        BY <2>2, PassFlags
<1>4. found \in BOOLEAN /\ (~found => num[c][b].fill = 0)
    <2>1. num[c][b].fill \in Nat
        BY <1>2, Zenon DEF BankOK, Counters
    <2> QED
        BY <2>1
<1>5. CASE ready
    <2>1. PICK insert :
            /\ PF_buffer' = IF (e.act.cmd = "PREFETCH" /\ PF_buffer_size[c] > 0) /\ insert
                            THEN [PF_buffer EXCEPT ![c] = Buffered(@, c, e.act.addr)]
                            ELSE PF_buffer
            /\ fill' = IF insert /\ ~(e.act.cmd = "PREFETCH" /\ PF_buffer_size[c] > 0)
                          /\ (e.act.cmd \in {"READ", "PREFETCH"} \/ write_alloc[c])
                       THEN [fill EXCEPT ![c] = cache_fill(@, c, e.act.cmd, e.act.addr)]
                       ELSE fill
            /\ Answer(e.act, S, EndFlag(w, c, found))
        BY <1>5 DEF ProcessMSHR_fill
    <2>2. i \in Returned(c, b)
        <3> DEFINE I == Returned(c, b)
        <3>1. I \subseteq 1 .. Len(MSHR[c][b]) /\ I # {}
            BY <1>5 DEF Returned
        <3> HIDE DEF I
        <3>2. Min(I) \in I
            BY <1>2, <3>1, MinPlace, Zenon
        <3> QED
            BY <3>2 DEF I
    <2>3. i \in 1 .. Len(MSHR[c][b]) /\ e.type = "MISS"
        BY <2>2 DEF Returned
    <2>4. Answerable(op, e.act) /\ e.act.cmd \in Commands /\ e.act.addr \in Blocks
        <3>1. EntryOK(c, b, e) /\ e \in Slot
            BY <1>2, <2>3, EntryAt
        <3>2. ActOwned(op, c, e.act)
            BY <1>2, <2>3, IInvParts DEF MSHROK, OwnedBank
        <3>3. Routed(c, e.act)
            BY <2>3, <3>1 DEF EntryOK
        <3>4. e.act \in Act
            BY <3>1, SlotFields
        <3> HIDE DEF e
        <3> QED
            BY <3>2, <3>3, <3>4, RoutedAnswerable DEF Act
    <2> DEFINE act == e.act
    <2>5. AddrsOK(PF_buffer', PF_buffer_size)
        <3>1. act.addr \in Blocks /\ (PF_buffer' = PF_buffer \/ PF_buffer' = [PF_buffer EXCEPT ![c] = Buffered(@, c, act.addr)])
            BY <2>1, <2>4, Zenon
        <3> HIDE DEF act
        <3> QED
            BY <3>1, Parts, BufferPut, Zenon
    <2>6. fill' = fill \/ fill' = [fill EXCEPT ![c] = cache_fill(@, c, act.cmd, act.addr)]
        BY <2>1
    <2>7. cache_fillable(c) /\ act.cmd \in Commands /\ act.addr \in Blocks /\ Answer(act, S, EndFlag(w, c, found))
          /\ Answerable(op, act) /\ found
        BY <1>5, <2>1, <2>4, Zenon
    <2> HIDE DEF act
    <2>8. FillsOK(fill')
        BY <2>6, <2>7, Parts, FillAdded
    <2>9. FlagsOK(pipe, fill', MSHR, w)
        <3> DEFINE X == IF fill' = fill THEN {} ELSE {"fill"}
        <3>1. On(fill, Caches)
            BY Parts DEF FillsOK
        <3>2. Changed(fill, fill', Caches, c, fill'[c])
            <4>1. CASE fill' = fill
                BY <3>1, <4>1 DEF Changed
            <4>2. CASE fill' # fill
                <5> DEFINE v == cache_fill(fill[c], c, act.cmd, act.addr)
                <5>1. fill' = [fill EXCEPT ![c] = v]
                    BY <2>6, <4>2
                <5> HIDE DEF v
                <5>2. Changed(fill, fill', Caches, c, v)
                    BY <3>1, <5>1, ChangedIs, Zenon
                <5> QED
                    BY <5>2 DEF Changed
            <4> QED
                BY <4>1, <4>2
        <3>3. X \subseteq Flags /\ (fill = fill' \/ "fill" \in X)
            BY DEF Flags
        <3>4. w = [work EXCEPT ![c] = @ \cup X]
            <4>1. CASE fill' = fill
                BY <4>1
            <4>2. CASE fill' # fill
                BY <4>2
            <4> QED
                BY <4>1, <4>2
        <3> HIDE DEF X, w
        <3> QED
            BY <3>1, <3>2, <3>3, <3>4, Parts, FillFlagged
    <2>10. FlagsOK(pipe, fill', S, w) /\ SlotsOK(S)
        <3>1. S = [MSHR EXCEPT ![c][b] = RemoveAt(@, i)]
            OBVIOUS
        <3> HIDE DEF S, w, i, b
        <3> QED
            BY <1>2, <2>3, <2>9, <3>1, RemovedFlagged
    <2> DEFINE V == EndFlag(w, c, found)
    <2>11. V = EndFlag(w, c, found)
        OBVIOUS
    <2> HIDE DEF S, w, V, found
    <2>12. FlagsOK(pipe, fill', S, V)
        BY <1>3, <2>7, <2>10, <2>11, FlagsEnd
    <2>13. FlagsOK(pipe, fill', MSHR', work')
        BY <2>7, <2>10, <2>11, <2>12, FlagsAnswer
    <2>14. pc' \in Turn /\ PassOK(pc', MSHR', num')
        BY <1>1, <1>3, <1>4, <2>7, PassNext
    <2>15. ArrayInv'
        BY <1>1, <2>5, <2>8, <2>14, Parts DEF ArrayInv
    <2>16. FlagInv'
        BY <1>1, <2>13, <2>14 DEF FlagInv
    <2> QED
        BY <2>15, <2>16
<1>6. CASE ~ready
    <2>1. MSHR' = MSHR /\ num' = num /\ fill' = fill /\ PF_buffer' = PF_buffer /\ work' = EndFlag(work, c, found)
        BY <1>6 DEF ProcessMSHR_fill
    <2>2. ~(pc.found \/ found) /\ pc.turn >= Turns(c, Passes[pc.pass]) =>
            Unneeded(pipe[c], fill[c], MSHR[c], Banks(c), "MSHR_fill")
        <3>1. SUFFICES ASSUME ~(pc.found \/ found), pc.turn >= Turns(c, Passes[pc.pass]), NEW d \in Banks(c)
                       PROVE  ~BankNeeds(MSHR[c][d], "MSHR_fill")
            BY DEF Unneeded
        <3>2. pc.turn >= MSHR_banks[c] /\ MSHR_banks[c] \in Nat \ {0} /\ pc.turn \in Nat /\ pc.turn <= MSHR_banks[c]
            <4>1. c # NoCache
                BY Levels
            <4>2. pc.turn \in 1 .. Turns(c, Passes[pc.pass])
                BY <1>3, <4>1, Parts DEF PassOK
            <4> QED
                BY <1>3, <3>1, <4>2, PassTurns, TurnFields
        <3>3. b = MSHR_banks[c] - 1
            <4>1. pc.turn = MSHR_banks[c]
                BY <3>2
            <4>2. \A n \in Nat \ {0} : (n - 1) % n = n - 1
                OBVIOUS
            <4> QED
                BY <3>2, <4>1, <4>2 DEF TurnBank
        <3>4. d < pc.turn - 1 \/ d = b
            BY <3>2, <3>3 DEF Banks
        <3>5. num[c][d].fill = 0
            <4>1. d < pc.turn - 1 => num[c][d].fill = 0
                BY <1>3, <3>1, Parts, Levels DEF PassOK
            <4> QED
                BY <1>4, <3>1, <3>4, <4>1
        <3>6. BankOK(c, d, MSHR[c][d], num[c][d])
            BY IInvParts
        <3>7. ~(num[c][d].miss > 0)
            BY <3>5, <3>6 DEF BankOK, Counted
        <3>8. Misses(MSHR[c][d]) = {}
            BY <3>6, <3>7, NoMisses
        <3> QED
            BY <3>8 DEF BankNeeds, EntryNeeds, Misses
    <2> HIDE DEF found
    <2>3. FlagsOK(pipe, fill, MSHR, work')
        BY <1>3, <2>1, <2>2, Parts, FlagsEnd
    <2>4. pc' \in Turn /\ PassOK(pc', MSHR', num')
        BY <1>1, <1>3, <1>4, <2>1, PassNext
    <2>5. ArrayInv'
        BY <1>1, <2>1, <2>4, Parts DEF ArrayInv
    <2>6. FlagInv'
        BY <1>1, <2>1, <2>3, <2>4 DEF FlagInv
    <2> QED
        BY <2>5, <2>6
<1> QED
    BY <1>5, <1>6

(* A new entry takes a slot of bank b.                                     *)
LEMMA EntryFlagged ==
    ASSUME NEW c \in Caches, NEW b \in Banks(c), NEW M, SlotsOK(M), NEW e, ~e.started, e.returned = Never,
           NEW S, S = [M EXCEPT ![c][b] = Append(@, e)], SlotsOK(S),
           NEW P, NEW F, NEW W, FlagsOK(P, F, M, W), NEW V, FlagsUp(W, V), {"MSHR", "MSHR_WB"} \subseteq V[c]
    PROVE  FlagsOK(P, F, S, V)
<1> DEFINE m == M[c][b]
           v == Append(m, e)
<1>1. S = [M EXCEPT ![c][b] = v] /\ v = Append(m, e) /\ Banked(M) /\ m \in Seq(Slot)
    BY DEF SlotsOK
<1> HIDE DEF v
<1>2. BankChanged(M, S, c, b, v)
    BY <1>1, BankChangedIs
<1>3. v \in Seq(Slot)
    BY <1>2 DEF SlotsOK, BankChanged
<1>4. e \in Slot
    <2> HIDE DEF m
    <2>1. Len(m) \in Nat /\ Len(v) = Len(m) + 1 /\ v[Len(m) + 1] = e
        BY <1>1
    <2>2. Len(m) + 1 \in 1 .. Len(v)
        BY <2>1
    <2>3. v[Len(m) + 1] \in Slot
        BY <1>3, <2>2
    <2> QED
        BY <2>1, <2>3
<1>5. BankSeen(m, v, V[c])
    BY <1>1, <1>4, AppendSeen
<1>6. SlotsSeen(M, S, V)
    BY <1>2, <1>5, SlotsSeenIn
<1> QED
    BY <1>6, FlagsMore, SeenSame

(* A writeback takes a slot.                                               *)
LEMMA WBFlagged ==
    ASSUME GoodNow, NEW c \in Caches, NEW addr \in Blocks, MSHR_WB_available(c, addr),
           NEW S, S = [MSHR EXCEPT ![c][BankOf(c, addr)] = Append(@, WBEntry(c, addr))],
           NEW P, NEW F, NEW W, FlagsOK(P, F, MSHR, W), NEW V, FlagsUp(W, V), {"MSHR", "MSHR_WB"} \subseteq V[c]
    PROVE  FlagsOK(P, F, S, V) /\ SlotsOK(S)
<1> DEFINE T == [num EXCEPT ![c][BankOf(c, addr)].wb = @ + 1]
           b == BankOf(c, addr)
           e == WBEntry(c, addr)
<1>1. Good(pipe, S, T, RQ, op, {}) /\ SlotsOK(MSHR)
    BY GoodWB, GoodSlots DEF GoodNow
<1>2. SlotsOK(S)
    <2> HIDE DEF T
    <2> QED
        BY <1>1, GoodSlots
<1>3. b \in Banks(c) /\ ~e.started /\ e.returned = Never
    BY BankTypes DEF WBEntry, Entry
<1>4. S = [MSHR EXCEPT ![c][b] = Append(@, e)]
    OBVIOUS
<1> HIDE DEF b, e
<1>5. FlagsOK(P, F, S, V)
    BY <1>1, <1>2, <1>3, <1>4, EntryFlagged
<1> QED
    BY <1>2, <1>5

LEMMA AllocUp ==
    ASSUME NEW P, NEW F, NEW M, NEW W, FlagsOK(P, F, M, W), NEW c \in Caches, NEW V, V = AllocFlags(W, c)
    PROVE  FlagsUp(W, V) /\ {"MSHR", "MSHR_WB"} \subseteq V[c] /\ FlagsOK(P, F, M, V)
<1> DEFINE X == {"MSHR", "MSHR_WB"}
<1>1. X \subseteq Flags /\ V = [W EXCEPT ![c] = @ \cup X]
    BY DEF Flags, AllocFlags
<1> HIDE DEF X
<1>2. FlagsUp(W, V) /\ X \subseteq V[c]
    BY <1>1, WorkTyped, FlagsRaised
<1>3. FlagsOK(P, F, M, V)
    BY <1>2, FlagsMore, SeenSame
<1> QED
    BY <1>2, <1>3 DEF X

LEMMA FillLeaves ==
    ASSUME FillsOK(fill), NEW c \in Caches, NEW i \in 1 .. Len(fill[c]),
           NEW G, G = [fill EXCEPT ![c] = RemoveAt(@, i)]
    PROVE  /\ FillsOK(G) /\ fill[c] # <<>>
           /\ \A V : FillSeen(fill, G, V)
<1>1. fill[c] # <<>> /\ On(fill, Caches)
    BY DEF FillsOK
<1>2. FillsOK(G)
    BY FillRemoved
<1> DEFINE v == RemoveAt(fill[c], i)
<1>3. G = [fill EXCEPT ![c] = v]
    OBVIOUS
<1> HIDE DEF v
<1>4. Changed(fill, G, Caches, c, v)
    BY <1>1, <1>3, ChangedIs, Zenon
<1>5. \A V : FillSeen(fill, G, V)
    BY <1>1, <1>4 DEF FillSeen, Changed
<1> QED
    BY <1>1, <1>2, <1>5

(* The pass over the fills ends.                                           *)
LEMMA FillsEnd ==
    ASSUME IInv, NEW c \in Caches, Running(c, "fill"), NEW w, FlagsOK(pipe, fill', MSHR', w),
           fill[c] = <<>> => fill'[c] = <<>>, EndFills(c, w)
    PROVE  FlagsOK(pipe, fill', MSHR', work') /\ pc' \in Turn /\ PassOK(pc', MSHR', num')
<1> DEFINE found == fill[c] # <<>>
<1>1. work' = EndFlag(w, c, found) /\ Advance(found)
    BY DEF EndFills
<1>2. pc \in Turn /\ pc.cache = c /\ pc.pass = 4 /\ FlagOf(Passes[pc.pass]) = "fill"
    <2>1. Running(c, Passes[4])
        BY PassNames
    <2>2. pc \in Turn /\ pc.cache = c /\ pc.pass = 4
        BY <2>1, Parts, RunningIs
    <2> QED
        BY <2>2, PassFlags
<1>3. found \in BOOLEAN
    OBVIOUS
<1>4. ~found => Unneeded(pipe[c], fill'[c], MSHR'[c], Banks(c), "fill")
    BY DEF Unneeded, BankNeeds, EntryNeeds
<1> HIDE DEF found
<1>5. FlagsOK(pipe, fill', MSHR', work')
    BY <1>1, <1>2, <1>4, FlagsEnd
<1>6. pc' \in Turn /\ PassOK(pc', MSHR', num')
    BY <1>1, <1>2, <1>3, PassNext
<1> QED
    BY <1>5, <1>6

LEMMA ConfiguredSet ==
    ASSUME Configured, NEW c \in Caches
    PROVE  /\ Assoc[c] \in Nat /\ Policy[c] \in Policies \ {"PLRU"} /\ write_back[c] \in BOOLEAN
    BY SizesAssumption DEF Configured, Pos

LEMMA RestWriteFill ==
    ASSUME IInv, Configured, NEW c \in Caches, Running(c, "fill"), NEW i \in 1 .. Len(fill[c]),
           NEW s, s = SetOf(c, fill[c][i].addr), ~AlreadyFilled(c, fill[c][i]),
           NEW v \in cache_get_evictee(Policy[c], blocks[c][s]), WriteFill(c, i, s, v)
    PROVE  /\ BlocksOK(blocks') /\ FillsOK(fill') /\ FlagsOK(pipe, fill', MSHR', work')
           /\ pc' \in Turn /\ PassOK(pc', MSHR', num')
<1> DEFINE victim == v.set[v.at]
           tag == victim.tag
           cast_out == victim.valid /\ victim.dirty /\ write_back[c]
           f == fill[c][i]
<1>1. f.addr \in Blocks /\ s \in 0 .. Sets[c] - 1 /\ f.addr \in Tags(c, s)
    BY FillAddr, BankTypes DEF Tags
<1>2. /\ v.at \in 1 .. Assoc[c] /\ SetOK(v.set, Assoc[c], Tags(c, s))
      /\ victim.valid => tag \in Blocks
      /\ \A a : Absent(blocks[c][s], Assoc[c], a) => Absent(v.set, Assoc[c], a)
    BY <1>1, VictimOK
<1>3. Assoc[c] \in Nat /\ Policy[c] \in Policies \ {"PLRU"}
    BY ConfiguredSet
<1>4. BlocksOK(blocks) /\ FillsOK(fill) /\ FlagsOK(pipe, fill, MSHR, work) /\ GoodNow
    BY Parts, IInvParts
<1>5. CASE cast_out /\ ~MSHR_WB_available(c, tag)
    <2>1. /\ blocks' = [blocks EXCEPT ![c][s] = v.set] /\ EndFills(c, work) /\ MSHR' = MSHR /\ num' = num
          /\ fill' = fill
        BY <1>5 DEF WriteFill
    <2>2. BlocksOK(blocks')
        BY <1>1, <1>2, <1>4, <2>1, BlocksPut
    <2>3. FlagsOK(pipe, fill', MSHR', work)
        BY <1>4, <2>1
    <2>4. FlagsOK(pipe, fill', MSHR', work') /\ pc' \in Turn /\ PassOK(pc', MSHR', num')
        BY <2>1, <2>3, FillsEnd
    <2> QED
        BY <1>4, <2>1, <2>2, <2>4
<1>6. CASE ~(cast_out /\ ~MSHR_WB_available(c, tag))
    <2> DEFINE u == [v.set EXCEPT ![v.at].valid = FALSE, ![v.at].dirty = FALSE]
               t == cache_insert_block(Policy[c], u, f.cmd, f.addr)
    <2>1. blocks' = [blocks EXCEPT ![c][s] = t] /\ fill' = [fill EXCEPT ![c] = RemoveAt(@, i)]
        BY <1>6 DEF WriteFill
    <2>2. IF cast_out THEN MSHR_WB_insert(c, tag) /\ EndFills(c, AllocFlags(work, c))
                      ELSE MSHR' = MSHR /\ num' = num /\ EndFills(c, work)
        BY <1>6 DEF WriteFill
    <2>3. SetOK(t, Assoc[c], Tags(c, s))
        <3>1. SetOK(u, Assoc[c], Tags(c, s)) /\ ~u[v.at].valid
              /\ \A a : Absent(v.set, Assoc[c], a) => Absent(u, Assoc[c], a)
            <4>1. Invalidated(v.set, u, v.at)
                BY DEF Invalidated
            <4> HIDE DEF u
            <4> QED
                BY <1>2, <1>3, <4>1, InvalidateOK, Zenon
        <3>2. Absent(blocks[c][s], Assoc[c], f.addr)
            <4>1. cache_peek(blocks[c][s], f.addr) = 0
                BY DEF AlreadyFilled, TagSet
            <4>2. SetOK(blocks[c][s], Assoc[c], Tags(c, s))
                BY <1>1, <1>4 DEF BlocksOK
            <4> QED
                BY <1>3, <4>1, <4>2, PeekFinds
        <3>3. Absent(u, Assoc[c], f.addr)
            BY <1>2, <3>1, <3>2
        <3> HIDE DEF u, f
        <3> QED
            BY <1>1, <1>2, <1>3, <3>1, <3>3, InsertOK
    <2>4. BlocksOK(blocks')
        <3> HIDE DEF t
        <3> QED
            BY <1>1, <1>4, <2>1, <2>3, BlocksPut
    <2>5. FillsOK(fill') /\ fill[c] # <<>> /\ \A V : FillSeen(fill, fill', V)
        BY <1>4, <2>1, FillLeaves
    <2>6. FlagsOK(pipe, fill', MSHR, work)
        BY <1>4, <2>5, FlagsMore, SeenSame, WorkTyped
    <2>7. CASE cast_out
        <3> DEFINE V == AllocFlags(work, c)
        <3>1. /\ MSHR' = [MSHR EXCEPT ![c][BankOf(c, tag)] = Append(@, WBEntry(c, tag))]
              /\ EndFills(c, V)
            BY <2>2, <2>7, Zenon DEF MSHR_WB_insert
        <3>2. tag \in Blocks /\ MSHR_WB_available(c, tag)
            BY <1>2, <1>6, <2>7
        <3>3. V = AllocFlags(work, c)
            OBVIOUS
        <3> HIDE DEF tag, V
        <3>4. FlagsUp(work, V) /\ {"MSHR", "MSHR_WB"} \subseteq V[c]
            BY <1>4, <3>3, AllocUp
        <3>5. FlagsOK(pipe, fill', MSHR', V)
            BY <1>4, <2>6, <3>1, <3>2, <3>4, WBFlagged
        <3>6. FlagsOK(pipe, fill', MSHR', work') /\ pc' \in Turn /\ PassOK(pc', MSHR', num')
            BY <2>5, <3>1, <3>5, FillsEnd
        <3> QED
            BY <2>4, <2>5, <3>6
    <2>8. CASE ~cast_out
        <3>1. MSHR' = MSHR /\ EndFills(c, work)
            BY <2>2, <2>8
        <3>2. FlagsOK(pipe, fill', MSHR', work)
            BY <2>6, <3>1
        <3>3. FlagsOK(pipe, fill', MSHR', work') /\ pc' \in Turn /\ PassOK(pc', MSHR', num')
            BY <2>5, <3>1, <3>2, FillsEnd
        <3> QED
            BY <2>4, <2>5, <3>3
    <2> QED
        BY <2>7, <2>8
<1> QED
    BY <1>5, <1>6

LEMMA RestProcessFills ==
    ASSUME IInv, Configured, NEW c \in Caches, ProcessFills(c)
    PROVE  ArrayInv' /\ FlagInv'
<1>1. /\ pipe' = pipe /\ PFF' = PFF /\ PF_buffer' = PF_buffer /\ RQ' = RQ /\ Running(c, "fill")
    BY DEF ProcessFills, memory
<1>2. BlocksOK(blocks) /\ FillsOK(fill) /\ FlagsOK(pipe, fill, MSHR, work)
    BY Parts
<1>3. ASSUME EndFills(c, work), blocks' = blocks, MSHR' = MSHR, num' = num, fill' = fill
      PROVE  /\ BlocksOK(blocks') /\ FillsOK(fill') /\ FlagsOK(pipe, fill', MSHR', work')
             /\ pc' \in Turn /\ PassOK(pc', MSHR', num')
    <2>1. FlagsOK(pipe, fill', MSHR', work)
        BY <1>2, <1>3
    <2>2. FlagsOK(pipe, fill', MSHR', work') /\ pc' \in Turn /\ PassOK(pc', MSHR', num')
        BY <1>1, <1>3, <2>1, FillsEnd
    <2> QED
        BY <1>2, <1>3, <2>2
<1>4. ASSUME NEW i \in 1 .. Len(fill[c]), EndFills(c, work), blocks' = blocks, MSHR' = MSHR, num' = num,
             fill' = [fill EXCEPT ![c] = RemoveAt(@, i)]
      PROVE  /\ BlocksOK(blocks') /\ FillsOK(fill') /\ FlagsOK(pipe, fill', MSHR', work')
             /\ pc' \in Turn /\ PassOK(pc', MSHR', num')
    <2>1. FillsOK(fill') /\ fill[c] # <<>> /\ \A V : FillSeen(fill, fill', V)
        BY <1>2, <1>4, FillLeaves
    <2>2. FlagsOK(pipe, fill', MSHR, work)
        BY <1>2, <2>1, FlagsMore, SeenSame, WorkTyped
    <2>3. FlagsOK(pipe, fill', MSHR', work)
        BY <1>4, <2>2
    <2>4. FlagsOK(pipe, fill', MSHR', work') /\ pc' \in Turn /\ PassOK(pc', MSHR', num')
        BY <1>1, <1>4, <2>1, <2>3, FillsEnd
    <2> QED
        BY <1>2, <1>4, <2>1, <2>4
<1>5. \/ EndFills(c, work) /\ blocks' = blocks /\ MSHR' = MSHR /\ num' = num /\ fill' = fill
      \/ \E i \in Roots(fill[c]) :
           \/ /\ EndFills(c, work) /\ blocks' = blocks /\ MSHR' = MSHR /\ num' = num
              /\ fill' = [fill EXCEPT ![c] = RemoveAt(@, i)]
           \/ /\ ~AlreadyFilled(c, fill[c][i])
              /\ \E v \in cache_get_evictee(Policy[c], blocks[c][SetOf(c, fill[c][i].addr)]) :
                   WriteFill(c, i, SetOf(c, fill[c][i].addr), v)
    BY DEF ProcessFills
<1>6. /\ BlocksOK(blocks') /\ FillsOK(fill') /\ FlagsOK(pipe, fill', MSHR', work')
      /\ pc' \in Turn /\ PassOK(pc', MSHR', num')
    <2>1. CASE EndFills(c, work) /\ blocks' = blocks /\ MSHR' = MSHR /\ num' = num /\ fill' = fill
        BY <1>3, <2>1
    <2>2. ASSUME NEW i \in Roots(fill[c]), EndFills(c, work), blocks' = blocks, MSHR' = MSHR, num' = num,
                 fill' = [fill EXCEPT ![c] = RemoveAt(@, i)]
          PROVE  /\ BlocksOK(blocks') /\ FillsOK(fill') /\ FlagsOK(pipe, fill', MSHR', work')
                 /\ pc' \in Turn /\ PassOK(pc', MSHR', num')
        <3>1. i \in 1 .. Len(fill[c])
            BY DEF Roots
        <3> QED
            BY <1>4, <2>2, <3>1
    <2>3. ASSUME NEW i \in Roots(fill[c]), ~AlreadyFilled(c, fill[c][i]),
                 NEW v \in cache_get_evictee(Policy[c], blocks[c][SetOf(c, fill[c][i].addr)]),
                 WriteFill(c, i, SetOf(c, fill[c][i].addr), v)
          PROVE  /\ BlocksOK(blocks') /\ FillsOK(fill') /\ FlagsOK(pipe, fill', MSHR', work')
                 /\ pc' \in Turn /\ PassOK(pc', MSHR', num')
        <3> DEFINE s == SetOf(c, fill[c][i].addr)
        <3>1. i \in 1 .. Len(fill[c])
            BY DEF Roots
        <3>2. s = SetOf(c, fill[c][i].addr) /\ v \in cache_get_evictee(Policy[c], blocks[c][s]) /\ WriteFill(c, i, s, v)
            BY <2>3
        <3> HIDE DEF s
        <3> QED
            BY <1>1, <2>3, <3>1, <3>2, RestWriteFill
    <2> QED
        BY <1>5, <2>1, <2>2, <2>3
<1>7. ArrayInv'
    BY <1>1, <1>6, Parts DEF ArrayInv
<1>8. FlagInv'
    BY <1>1, <1>6 DEF FlagInv
<1> QED
    BY <1>7, <1>8

(* The pass over the pipe has looked at an access.                         *)
LEMMA PipeTurn ==
    ASSUME IInv, NEW c \in Caches, Running(c, "pipe"), Advance(TRUE)
    PROVE  pc' \in Turn /\ PassOK(pc', MSHR', num')
<1> DEFINE found == TRUE
<1>1. pc \in Turn /\ pc.cache = c /\ pc.pass = 5
    <2>1. Running(c, Passes[5])
        BY PassNames
    <2> QED
        BY <2>1, Parts, RunningIs
<1>2. found \in BOOLEAN /\ Advance(found)
    OBVIOUS
<1> HIDE DEF found
<1> QED
    BY <1>1, <1>2, PassNext

LEMMA PipeFlags ==
    ASSUME IInv, NEW c \in Caches, NEW P, NEW F, NEW M, NEW W, FlagsOK(P, F, M, W),
           NEW V, V = EndFlag(W, c, TRUE)
    PROVE  FlagsOK(P, F, M, V)
    BY Parts, FlagsEnd

LEMMA PipeLeaves ==
    ASSUME IInv, NEW c \in Caches, NEW i \in 1 .. Len(pipe[c]), NEW U, U = [pipe EXCEPT ![c] = RemoveAt(@, i)],
           NEW F, NEW M, NEW W, FlagsOK(pipe, F, M, W)
    PROVE  Short(U) /\ FlagsOK(U, F, M, W)
<1> DEFINE v == RemoveAt(pipe[c], i)
<1>1. pipe[c] \in Seq(Access) /\ On(pipe, Caches) /\ Len(pipe[c]) <= latency[c] /\ latency[c] \in Nat
    BY IInvParts, Parts, BankTypes DEF PipeOK, Short
<1>2. U = [pipe EXCEPT ![c] = v] /\ pipe[c] # <<>>
    BY <1>1
<1>3. Removed(pipe[c], v, i)
    BY <1>1, RemoveAtIs
<1> HIDE DEF v
<1>4. Len(v) <= latency[c]
    <2>1. Len(v) = Len(pipe[c]) - 1
        BY <1>3 DEF Removed
    <2> QED
        BY <1>1, <2>1
<1>5. Changed(pipe, U, Caches, c, v)
    BY <1>1, <1>2, ChangedIs, Zenon
<1>6. PipeSeen(pipe, U, W)
    BY <1>2, <1>5 DEF PipeSeen, Changed
<1>7. Short(U)
    BY <1>4, <1>5, Parts DEF Short, Changed
<1>8. FlagsOK(U, F, M, W)
    BY <1>6, FlagsMore, SeenSame, WorkTyped
<1> QED
    BY <1>7, <1>8

LEMMA LookedOK ==
    ASSUME IInv, Configured, NEW c \in Caches, NEW act, act.addr \in Blocks
    PROVE  BlocksOK(Looked(c, act))
<1> DEFINE s == SetOf(c, act.addr)
           t == cache_is_hit(Policy[c], write_back[c], blocks[c][s], act.cmd, act.addr)
           T == Looked(c, act)
<1>1. s \in 0 .. Sets[c] - 1 /\ BlocksOK(blocks)
    BY BankTypes, Parts
<1>2. SetOK(blocks[c][s], Assoc[c], Tags(c, s))
    BY <1>1 DEF BlocksOK
<1>3. SetOK(t, Assoc[c], Tags(c, s))
    BY <1>2, ConfiguredSet, IsHitOK
<1>4. T = [blocks EXCEPT ![c][s] = t]
    BY DEF Looked
<1> HIDE DEF s, t, T
<1>5. BlocksOK(T)
    BY <1>1, <1>3, <1>4, BlocksPut
<1> QED
    BY <1>5 DEF T

LEMMA UsedOK ==
    ASSUME NEW n \in Nat, NEW A, NEW s, SetOK(s, n, A), NEW act
    PROVE  SetOK(Used(s, act), n, A)
<1> DEFINE k == cache_peek(s, act.addr)
           u == s[k].prefetch_used \/ (act.cmd # "PREFETCH" /\ s[k].prefetched)
           l == [s[k] EXCEPT !.prefetch_used = u]
<1>1. Len(s) = n /\ s \in Seq(Line(n, A)) /\ \A j \in 1 .. n : s[j] \in Line(n, A)
    BY DEF SetOK
<1>2. Used(s, act) = [s EXCEPT ![k] = l]
    BY DEF Used
<1>3. k = 0 \/ k \in 1 .. n
    BY PeekFinds
<1> HIDE DEF k
<1>4. CASE k = 0
    <2> HIDE DEF l
    <2>1. [s EXCEPT ![k] = l] = s
        BY <1>1, <1>4
    <2> QED
        BY <1>2, <2>1
<1>5. CASE k \in 1 .. n
    <2>1. s[k] \in Line(n, A)
        BY <1>1, <1>5
    <2>2. u \in BOOLEAN
        BY <2>1, LineFields
    <2> HIDE DEF u
    <2>3. l \in Line(n, A) /\ l.valid = s[k].valid /\ l.tag = s[k].tag
        BY <2>1, <2>2, LineUsed
    <2> HIDE DEF l
    <2>4. SetOK([s EXCEPT ![k] = l], n, A)
        BY <1>5, <2>3, Marked, Zenon
    <2> QED
        BY <1>2, <2>4
<1> QED
    BY <1>3, <1>4, <1>5

LEMMA LookedUsedOK ==
    ASSUME IInv, Configured, NEW c \in Caches, NEW act, act.addr \in Blocks
    PROVE  BlocksOK([Looked(c, act) EXCEPT ![c][SetOf(c, act.addr)] = Used(@, act)])
<1> DEFINE T == [Looked(c, act) EXCEPT ![c][SetOf(c, act.addr)] = Used(@, act)]
           s == SetOf(c, act.addr)
           L == Looked(c, act)
           t == Used(L[c][s], act)
<1>1. s \in 0 .. Sets[c] - 1 /\ BlocksOK(L)
    BY BankTypes, LookedOK
<1>2. T = [L EXCEPT ![c][s] = t]
    OBVIOUS
<1> HIDE DEF s, L, T
<1>3. SetOK(L[c][s], Assoc[c], Tags(c, s)) /\ Assoc[c] \in Nat
    BY <1>1, ConfiguredSet DEF BlocksOK
<1>4. SetOK(t, Assoc[c], Tags(c, s))
    BY <1>3, UsedOK
<1> HIDE DEF t
<1>5. BlocksOK(T)
    BY <1>1, <1>2, <1>4, BlocksPut, Zenon
<1> QED
    BY <1>5 DEF T

LEMMA RestPipeHit ==
    ASSUME IInv, Configured, NEW c \in Caches, PipeHit(c)
    PROVE  ArrayInv' /\ FlagInv'
<1>1. fill' = fill /\ PF_buffer' = PF_buffer /\ RQ' = RQ
    BY Zenon DEF PipeHit, memory
<1>2. PICK i \in 1 .. Len(pipe[c]) :
        LET act == pipe[c][i].act
            stalls == \/ WritesThrough(c, act) /\ ~MSHR_WB_available(c, act.addr)
                      \/ ~can_schedule_downstream(act.prev)
            through == IF WritesThrough(c, act)
                       THEN [MSHR EXCEPT ![c][BankOf(c, act.addr)] = Append(@, WBEntry(c, act.addr))]
                       ELSE MSHR
        IN  /\ Due(c, i)
            /\ \/ /\ blocks' = Looked(c, act)
                  /\ EndPipe(c, work)
                  /\ UNCHANGED <<pipe, MSHR, num, PFF, op>>
               \/ /\ ~stalls
                  /\ blocks' = [Looked(c, act) EXCEPT ![c][SetOf(c, act.addr)] = Used(@, act)]
                  /\ pipe' = [pipe EXCEPT ![c] = RemoveAt(@, i)]
                  /\ Answer(act, through, EndFlag(IF WritesThrough(c, act) THEN AllocFlags(work, c)
                                                  ELSE work, c, TRUE))
                  /\ AskPrefetcher(c, act, ~prefetch_on_miss)
                  /\ Advance(TRUE)
    BY Zenon DEF PipeHit
<1> DEFINE act == pipe[c][i].act
           wt == WritesThrough(c, act)
           S == IF wt THEN [MSHR EXCEPT ![c][BankOf(c, act.addr)] = Append(@, WBEntry(c, act.addr))] ELSE MSHR
           w == IF wt THEN AllocFlags(work, c) ELSE work
           stalled == blocks' = Looked(c, act) /\ EndPipe(c, work) /\ UNCHANGED <<pipe, MSHR, num, PFF, op>>
<1>3. Running(c, "pipe") /\ act.addr \in Blocks /\ GoodNow /\ SlotsOK(MSHR)
    <2>1. Running(c, "pipe")
        BY <1>2 DEF Due
    <2>2. act.addr \in Blocks /\ GoodNow
        BY PipeAddr, IInvParts
    <2> QED
        BY <2>1, <2>2, GoodSlots DEF GoodNow
<1>4. CASE stalled
    <2>1. /\ blocks' = Looked(c, act) /\ pipe' = pipe /\ MSHR' = MSHR /\ num' = num /\ PFF' = PFF
          /\ work' = EndFlag(work, c, TRUE) /\ Advance(TRUE)
        BY <1>4 DEF EndPipe
    <2> HIDE DEF act
    <2>2. BlocksOK(blocks')
        BY <1>3, <2>1, LookedOK
    <2>3. FlagsOK(pipe, fill, MSHR, work')
        BY <2>1, Parts, PipeFlags
    <2>4. pc' \in Turn /\ PassOK(pc', MSHR', num')
        BY <1>3, <2>1, PipeTurn
    <2>5. ArrayInv'
        BY <1>1, <2>1, <2>2, <2>4, Parts DEF ArrayInv
    <2>6. FlagInv'
        BY <1>1, <2>1, <2>3, <2>4, Zenon DEF FlagInv
    <2> QED
        BY <2>5, <2>6
<1>5. CASE ~stalled
    <2>1. /\ wt => MSHR_WB_available(c, act.addr)
          /\ blocks' = [Looked(c, act) EXCEPT ![c][SetOf(c, act.addr)] = Used(@, act)]
          /\ pipe' = [pipe EXCEPT ![c] = RemoveAt(@, i)]
          /\ AskPrefetcher(c, act, ~prefetch_on_miss) /\ Advance(TRUE)
        BY <1>2, <1>5, Zenon
    <2>2. Answer(act, S, EndFlag(w, c, TRUE))
        BY <1>2, <1>5
    <2>3. Answerable(op, act)
        BY IInvParts, AccessAct, RoutedAnswerable
    <2>4. FlagsOK(pipe, fill, S, w) /\ SlotsOK(S)
        <3>1. CASE wt
            <4>1. /\ S = [MSHR EXCEPT ![c][BankOf(c, act.addr)] = Append(@, WBEntry(c, act.addr))]
                  /\ w = AllocFlags(work, c) /\ MSHR_WB_available(c, act.addr)
                BY <2>1, <3>1
            <4> DEFINE a == act.addr
            <4>2. /\ S = [MSHR EXCEPT ![c][BankOf(c, a)] = Append(@, WBEntry(c, a))]
                  /\ w = AllocFlags(work, c) /\ MSHR_WB_available(c, a) /\ a \in Blocks
                BY <1>3, <4>1
            <4> HIDE DEF S, w, a, act
            <4>3. FlagsUp(work, w) /\ {"MSHR", "MSHR_WB"} \subseteq w[c]
                BY <4>2, Parts, AllocUp
            <4> QED
                BY <1>3, <4>2, <4>3, Parts, WBFlagged
        <3>2. CASE ~wt
            BY <1>3, <3>2, Parts, Zenon
        <3> QED
            BY <3>1, <3>2
    <2> DEFINE V == EndFlag(w, c, TRUE)
    <2>5. V = EndFlag(w, c, TRUE) /\ Answer(act, S, V)
        BY <2>2
    <2> HIDE DEF S, w, V, act
    <2>6. FlagsOK(pipe, fill, S, V)
        BY <2>4, <2>5, PipeFlags
    <2>7. Short(pipe') /\ FlagsOK(pipe', fill, S, V)
        BY <2>1, <2>6, PipeLeaves
    <2>8. FlagsOK(pipe', fill, MSHR', work')
        BY <2>3, <2>4, <2>5, <2>7, FlagsAnswer
    <2>9. AddrsOK(PFF, PFF_size)'
        BY <1>3, <2>1, Parts, PrefetcherOK
    <2>10. BlocksOK(blocks')
        BY <1>3, <2>1, LookedUsedOK
    <2>11. pc' \in Turn /\ PassOK(pc', MSHR', num')
        BY <1>3, <2>1, PipeTurn
    <2>12. ArrayInv'
        BY <1>1, <2>7, <2>9, <2>10, <2>11, Parts DEF ArrayInv
    <2>13. FlagInv'
        BY <1>1, <2>8, <2>11 DEF FlagInv
    <2> QED
        BY <2>12, <2>13
<1> QED
    BY <1>4, <1>5

LEMMA RestPipeBufferHit ==
    ASSUME IInv, Configured, NEW c \in Caches, PipeBufferHit(c)
    PROVE  ArrayInv' /\ FlagInv'
<1>1. RQ' = RQ
    BY DEF PipeBufferHit, memory
<1>2. PICK i \in 1 .. Len(pipe[c]) :
        /\ Due(c, i) /\ InBuffer(c, pipe[c][i].act)
        /\ \E v \in cache_get_evictee(Policy[c], blocks[c][SetOf(c, pipe[c][i].act.addr)]) :
             BufferHit(c, pipe[c][i].act, v)
        /\ pipe' = [pipe EXCEPT ![c] = RemoveAt(@, i)]
        /\ AskPrefetcher(c, pipe[c][i].act, ~prefetch_on_miss)
        /\ Advance(TRUE)
    BY Zenon DEF PipeBufferHit, TagSet
<1> DEFINE act == pipe[c][i].act
           s == SetOf(c, act.addr)
<1>3. PICK v \in cache_get_evictee(Policy[c], blocks[c][s]) : BufferHit(c, act, v)
    BY <1>2
<1> DEFINE victim == v.set[v.at]
           tag == victim.tag
           cast_out == victim.valid /\ victim.dirty /\ write_back[c]
           wb == cast_out /\ MSHR_WB_available(c, act.addr)
           ok == (cast_out => wb) /\ cache_fillable(c)
           u == [v.set EXCEPT ![v.at].valid = FALSE, ![v.at].dirty = FALSE]
           t == IF ok THEN u ELSE v.set
           S == IF wb THEN [MSHR EXCEPT ![c][BankOf(c, tag)] = Append(@, WBEntry(c, tag))] ELSE MSHR
           w == [work EXCEPT ![c] = @ \cup (IF ok THEN {"fill"} ELSE {})
                                      \cup (IF wb THEN {"MSHR", "MSHR_WB"} ELSE {})]
           V == EndFlag(w, c, TRUE)
<1>4. blocks' = [blocks EXCEPT ![c][s] = t]
    BY <1>3, Zenon DEF BufferHit
<1>5. fill' = IF ok THEN [fill EXCEPT ![c] = cache_fill(@, c, "PREFETCH", act.addr)] ELSE fill
    BY <1>3, Zenon DEF BufferHit
<1>6. PF_buffer' = IF ok THEN PF_buffer ELSE [PF_buffer EXCEPT ![c] = Buffered(@, c, act.addr)]
    BY <1>3, Zenon DEF BufferHit
<1>7. Answer(act, S, V)
    BY <1>3, Zenon DEF BufferHit
<1>8. act.addr \in Blocks /\ s \in 0 .. Sets[c] - 1
    BY PipeAddr, BankTypes
<1>9. /\ victim.valid => tag \in Blocks /\ SetOf(c, tag) = s
      /\ SetOK(v.set, Assoc[c], Tags(c, s)) /\ v.at \in 1 .. Assoc[c]
    BY <1>8, VictimOK
<1>10. wb => tag \in Blocks /\ MSHR_WB_available(c, tag)
    <2>1. PF_buffer_size[c] > 0
        <3>1. PF_buffer[c] \in Seq(Blocks) /\ Len(PF_buffer[c]) <= PF_buffer_size[c] /\ PF_buffer_size[c] \in Nat
            BY Parts, BankTypes DEF AddrsOK
        <3>2. \E k \in 1 .. Len(PF_buffer[c]) : TRUE
            BY <1>2 DEF InBuffer
        <3> QED
            BY <3>1, <3>2
    <2>2. ASSUME wb PROVE tag \in Blocks /\ MSHR_WB_available(c, tag)
        <3>1. tag \in Blocks /\ BankOf(c, tag) = BankOf(c, act.addr)
            BY <1>8, <1>9, <2>1, <2>2 DEF Configured
        <3> QED
            BY <2>2, <3>1 DEF MSHR_WB_available
    <2> QED
        BY <2>2
<1>11. BlocksOK(blocks')
    <2>1. SetOK(u, Assoc[c], Tags(c, s))
        <3>1. Invalidated(v.set, u, v.at)
            BY DEF Invalidated
        <3>2. Assoc[c] \in Nat
            BY ConfiguredSet
        <3> HIDE DEF u, s
        <3> QED
            BY <1>9, <3>1, <3>2, InvalidateOK, Zenon
    <2>2. SetOK(t, Assoc[c], Tags(c, s))
        BY <1>9, <2>1
    <2> HIDE DEF t, s
    <2> QED
        BY <1>4, <1>8, <2>2, Parts, BlocksPut
<1>12. FillsOK(fill') /\ FlagsOK(pipe, fill', MSHR, w) /\ (wb => {"MSHR", "MSHR_WB"} \subseteq w[c])
    <2> DEFINE X == (IF ok THEN {"fill"} ELSE {}) \cup (IF wb THEN {"MSHR", "MSHR_WB"} ELSE {})
               a == act.addr
    <2>1. X \subseteq Flags /\ (ok => "fill" \in X) /\ (wb => {"MSHR", "MSHR_WB"} \subseteq X)
        BY DEF Flags
    <2>2. w = [work EXCEPT ![c] = @ \cup X]
        <3> HIDE DEF ok, wb
        <3> QED
            OBVIOUS
    <2>3. ok => cache_fillable(c)
        OBVIOUS
    <2>4. /\ ok => fill' = [fill EXCEPT ![c] = cache_fill(@, c, "PREFETCH", a)]
          /\ ~ok => fill' = fill
          /\ a \in Blocks
        BY <1>5, <1>8
    <2>5. On(fill, Caches) /\ FillsOK(fill) /\ "PREFETCH" \in Commands
        BY Parts DEF FillsOK, Commands
    <2> HIDE DEF X, w, ok, wb, a
    <2>6. FillsOK(fill')
        BY <2>3, <2>4, <2>5, FillAdded
    <2>7. Changed(fill, fill', Caches, c, fill'[c])
        <3>1. CASE ~ok
            BY <2>4, <2>5, <3>1 DEF Changed
        <3>2. CASE ok
            <4> DEFINE f == cache_fill(fill[c], c, "PREFETCH", a)
            <4>1. fill' = [fill EXCEPT ![c] = f]
                BY <2>4, <3>2
            <4> HIDE DEF f
            <4>2. Changed(fill, fill', Caches, c, f)
                BY <2>5, <4>1, ChangedIs, Zenon
            <4> QED
                BY <4>2 DEF Changed
        <3> QED
            BY <3>1, <3>2
    <2>8. fill = fill' \/ "fill" \in X
        BY <2>1, <2>4
    <2>10. X \subseteq Flags /\ On(fill, Caches) /\ FlagsOK(pipe, fill, MSHR, work)
        BY <2>1, <2>5, Parts
    <2>9. FlagsOK(pipe, fill', MSHR, w) /\ X \subseteq w[c]
        <3>1. FlagsUp(work, work)
            BY Parts
        <3>2. FlagsUp(work, w) /\ X \subseteq w[c]
            BY <2>2, <2>10, <3>1, FlagsRaised
        <3>3. FillSeen(fill, fill', w)
            BY <2>7, <2>8, <3>2 DEF FillSeen, Changed
        <3> QED
            BY <2>10, <3>2, <3>3, FlagsMore, SeenSame
    <2> QED
        BY <2>1, <2>6, <2>9
<1>13. FlagsOK(pipe, fill', S, w) /\ SlotsOK(S)
    <2>0. GoodNow /\ SlotsOK(MSHR)
        BY IInvParts, GoodSlots DEF GoodNow
    <2>1. CASE wb
        <3>1. S = [MSHR EXCEPT ![c][BankOf(c, tag)] = Append(@, WBEntry(c, tag))]
            BY <2>1
        <3>2. tag \in Blocks /\ MSHR_WB_available(c, tag) /\ {"MSHR", "MSHR_WB"} \subseteq w[c]
            BY <1>10, <1>12, <2>1, Zenon
        <3>3. FlagsUp(w, w) /\ FlagsOK(pipe, fill', MSHR, w)
            BY <1>12, WorkTyped
        <3> HIDE DEF S, tag, w
        <3> QED
            BY <2>0, <3>1, <3>2, <3>3, WBFlagged
    <2>2. CASE ~wb
        BY <1>12, <2>0, <2>2, Zenon
    <2> QED
        BY <2>1, <2>2
<1>14. AddrsOK(PF_buffer', PF_buffer_size)
    <2> DEFINE a == act.addr
    <2>1. a \in Blocks /\ (PF_buffer' = PF_buffer \/ PF_buffer' = [PF_buffer EXCEPT ![c] = Buffered(@, c, a)])
        BY <1>6, <1>8
    <2> HIDE DEF a
    <2> QED
        BY <2>1, Parts, BufferPut
<1>15. /\ Running(c, "pipe") /\ Advance(TRUE) /\ AskPrefetcher(c, act, ~prefetch_on_miss)
       /\ pipe' = [pipe EXCEPT ![c] = RemoveAt(@, i)] /\ Answerable(op, act) /\ V = EndFlag(w, c, TRUE)
    <2>1. Answerable(op, act)
        BY IInvParts, AccessAct, RoutedAnswerable
    <2> QED
        BY <1>2, <2>1 DEF Due
<1> HIDE DEF S, w, V, act, s
<1>16. FlagsOK(pipe, fill', S, V)
    BY <1>13, <1>15, PipeFlags
<1>17. Short(pipe') /\ FlagsOK(pipe', fill', S, V)
    BY <1>15, <1>16, PipeLeaves
<1>18. FlagsOK(pipe', fill', MSHR', work')
    BY <1>7, <1>13, <1>15, <1>17, FlagsAnswer
<1>19. AddrsOK(PFF, PFF_size)'
    BY <1>8, <1>15, Parts, PrefetcherOK
<1>20. pc' \in Turn /\ PassOK(pc', MSHR', num')
    BY <1>15, PipeTurn
<1>21. ArrayInv'
    BY <1>1, <1>11, <1>12, <1>14, <1>17, <1>19, <1>20, Parts DEF ArrayInv
<1>22. FlagInv'
    BY <1>18, <1>20 DEF FlagInv
<1> QED
    BY <1>21, <1>22

LEMMA RestPipeMiss ==
    ASSUME IInv, NEW c \in Caches, PipeMiss(c)
    PROVE  ArrayInv' /\ FlagInv'
<1>1. RQ' = RQ /\ blocks' = blocks /\ fill' = fill /\ PF_buffer' = PF_buffer
    BY DEF PipeMiss, memory
<1>2. PICK i \in 1 .. Len(pipe[c]) :
        /\ Due(c, i)
        /\ IF MSHR_available(c, pipe[c][i].act.addr)
           THEN /\ MSHR_insert(c, pipe[c][i].act)
                /\ pipe' = [pipe EXCEPT ![c] = RemoveAt(@, i)]
                /\ AskPrefetcher(c, pipe[c][i].act, TRUE)
                /\ EndPipe(c, AllocFlags(work, c))
           ELSE UNCHANGED <<MSHR, num, pipe, PFF>> /\ EndPipe(c, work)
    BY DEF PipeMiss
<1> DEFINE act == pipe[c][i].act
           b == BankOf(c, act.addr)
           e == Entry(MSHR_allocate(c, b), "MISS", act)
<1>3. Running(c, "pipe") /\ act.addr \in Blocks /\ b \in Banks(c)
    BY <1>2, PipeAddr, BankTypes DEF Due
<1>4. SlotsOK(MSHR) /\ SlotsOK(MSHR')
    <2>1. GoodNow /\ GoodNow'
        BY IInvParts, GoodPipeMiss
    <2> QED
        BY <2>1, GoodSlots DEF GoodNow
<1>5. CASE MSHR_available(c, act.addr)
    <2> DEFINE w == AllocFlags(work, c)
    <2>1. /\ pipe' = [pipe EXCEPT ![c] = RemoveAt(@, i)] /\ AskPrefetcher(c, act, TRUE)
          /\ work' = EndFlag(w, c, TRUE) /\ Advance(TRUE)
        BY <1>2, <1>5, Zenon DEF EndPipe
    <2>2. MSHR' = [MSHR EXCEPT ![c][b] = Append(@, e)]
        BY <1>2, <1>5, Zenon DEF MSHR_insert
    <2>3. ~e.started /\ e.returned = Never
        BY DEF Entry
    <2>4. w = AllocFlags(work, c)
        OBVIOUS
    <2> HIDE DEF e, b, w, act
    <2>5. FlagsUp(work, w) /\ {"MSHR", "MSHR_WB"} \subseteq w[c]
        BY <2>4, Parts, AllocUp
    <2>6. FlagsOK(pipe, fill, MSHR', w)
        BY <1>3, <1>4, <2>2, <2>3, <2>5, Parts, EntryFlagged
    <2>7. FlagsOK(pipe, fill, MSHR', work')
        BY <2>1, <2>6, PipeFlags
    <2>8. Short(pipe') /\ FlagsOK(pipe', fill, MSHR', work')
        BY <2>1, <2>7, PipeLeaves
    <2>9. AddrsOK(PFF, PFF_size)'
        <3> DEFINE asked == TRUE
        <3>1. AskPrefetcher(c, act, asked)
            BY <2>1
        <3> HIDE DEF asked
        <3> QED
            BY <1>3, <3>1, Parts, PrefetcherOK
    <2>10. pc' \in Turn /\ PassOK(pc', MSHR', num')
        BY <1>3, <2>1, PipeTurn
    <2>11. ArrayInv'
        BY <1>1, <2>8, <2>9, <2>10, Parts DEF ArrayInv
    <2>12. FlagInv'
        BY <1>1, <2>8, <2>10 DEF FlagInv
    <2> QED
        BY <2>11, <2>12
<1>6. CASE ~MSHR_available(c, act.addr)
    <2>1. /\ MSHR' = MSHR /\ num' = num /\ pipe' = pipe /\ PFF' = PFF
          /\ work' = EndFlag(work, c, TRUE) /\ Advance(TRUE)
        BY <1>2, <1>6 DEF EndPipe
    <2>2. FlagsOK(pipe, fill, MSHR, work')
        BY <2>1, Parts, PipeFlags
    <2>3. pc' \in Turn /\ PassOK(pc', MSHR', num')
        BY <1>3, <2>1, PipeTurn
    <2>4. ArrayInv'
        BY <1>1, <2>1, <2>3, Parts DEF ArrayInv
    <2>5. FlagInv'
        BY <1>1, <2>1, <2>2, <2>3 DEF FlagInv
    <2> QED
        BY <2>4, <2>5
<1> QED
    BY <1>5, <1>6

-----------------------------------------------------------------------------
(* The invariant holds at the start and is kept.                           *)

NoCounts == [miss |-> 0, wb |-> 0, fill |-> 0, unprocessed |-> 0, pf |-> 0]

LEMMA EmptyBank ==
    ASSUME NEW c \in Caches, NEW b
    PROVE  BankOK(c, b, <<>>, NoCounts)
<1> DEFINE m == <<>>
<1>1. m \in Seq(Slot) /\ Len(m) = 0
    OBVIOUS
<1>2. 1 .. Len(m) = {}
    BY <1>1
<1> HIDE DEF m
<1>3. Misses(m) = {} /\ Writebacks(m) = {} /\ Unsents(m) = {} /\ Prefetches(m) = {}
    BY <1>2 DEF Misses, Writebacks, Unsents, Prefetches
<1>4. Cardinality({}) = 0
    BY FS_EmptySet
<1>5. NoCounts \in Counters /\ Counted(m, NoCounts)
    BY <1>3, <1>4 DEF NoCounts, Counters, Counted
<1>6. NoCounts.miss <= MSHR_size[c] - MSHR_WB_size[c] /\ NoCounts.wb <= MSHR_WB_size[c]
    BY BankTypes DEF NoCounts
<1>7. BankOK(c, b, m, NoCounts)
    BY <1>1, <1>2, <1>5, <1>6 DEF BankOK
<1> QED
    BY <1>7 DEF m

LEMMA InitParts ==
    ASSUME Init
    PROVE  /\ On(pipe, Caches) /\ \A c \in Caches : pipe[c] = <<>>
           /\ On(fill, Caches) /\ \A c \in Caches : fill[c] = <<>>
           /\ Banked(MSHR) /\ \A c \in Caches : \A b \in Banks(c) : MSHR[c][b] = <<>>
           /\ Banked(num) /\ \A c \in Caches : \A b \in Banks(c) : num[c][b] = NoCounts
           /\ On(work, Caches) /\ \A c \in Caches : work[c] = {"MSHR_fill"}
           /\ On(PFF, Caches) /\ \A c \in Caches : PFF[c] = <<>>
           /\ On(PF_buffer, Caches) /\ \A c \in Caches : PF_buffer[c] = <<>>
           /\ RQ = <<>> /\ pc = Idle /\ op = <<>>
<1>1. pipe = [c \in Caches |-> <<>>] /\ fill = [c \in Caches |-> <<>>]
      /\ PFF = [c \in Caches |-> <<>>] /\ PF_buffer = [c \in Caches |-> <<>>]
      /\ work = [c \in Caches |-> {"MSHR_fill"}] /\ RQ = <<>> /\ pc = Idle /\ op = <<>>
    BY DEF Init
<1>2. /\ MSHR = [c \in Caches |-> [b \in Banks(c) |-> <<>>]]
      /\ num = [c \in Caches |-> [b \in Banks(c) |-> NoCounts]]
    BY DEF Init, NoCounts
<1>3. /\ On(pipe, Caches) /\ On(fill, Caches) /\ On(PFF, Caches) /\ On(PF_buffer, Caches) /\ On(work, Caches)
    BY <1>1 DEF On
<1>4. Banked(MSHR)
    BY <1>2 DEF On, Banked
<1>5. Banked(num)
    BY <1>2 DEF On, Banked
<1> QED
    BY <1>1, <1>2, <1>3, <1>4, <1>5

LEMMA InitBlocks ==
    ASSUME Init
    PROVE  BlocksOK(blocks)
<1>1. blocks = [c \in Caches |-> [s \in 0 .. Sets[c] - 1 |-> EmptySet(Assoc[c])]]
    BY DEF Init
<1>2. ASSUME NEW c \in Caches, NEW s \in 0 .. Sets[c] - 1 PROVE SetOK(EmptySet(Assoc[c]), Assoc[c], Tags(c, s))
    BY BankTypes, EmptySetOK
<1>3. On(blocks, Caches) /\ \A c \in Caches : On(blocks[c], 0 .. Sets[c] - 1)
    BY <1>1 DEF On
<1> QED
    BY <1>1, <1>2, <1>3 DEF BlocksOK

LEMMA InitGood ==
    ASSUME Init
    PROVE  GoodNow
<1>1. ASSUME NEW c \in Caches PROVE PipeOK(op, c, pipe[c]) /\ MSHROK(op, c, MSHR[c], num[c])
    <2>1. pipe[c] = <<>>
        BY InitParts
    <2>2. PipeOK(op, c, pipe[c])
        BY <2>1 DEF PipeOK
    <2>3. ASSUME NEW b \in Banks(c)
          PROVE  BankOK(c, b, MSHR[c][b], num[c][b]) /\ OwnedBank(op, c, MSHR[c][b])
        <3>1. MSHR[c][b] = <<>> /\ num[c][b] = NoCounts
            BY InitParts
        <3> QED
            BY <3>1, EmptyBank DEF OwnedBank
    <2> QED
        BY <2>2, <2>3 DEF MSHROK
<1>2. QueueOK(RQ) /\ OpsOK(op) /\ Len(op) = 0 /\ op \in Seq(Operation)
    BY InitParts DEF QueueOK, OpsOK
<1>3. Sound(pipe, MSHR, num, RQ, op)
    BY <1>1, <1>2, InitParts DEF Sound
<1>4. ASSUME NEW c \in Caches PROVE Single(pipe[c], MSHR[c], Banks(c))
    BY InitParts DEF Single
<1>5. SingleRQ(RQ)
    BY InitParts DEF SingleRQ
<1>6. ASSUME NEW c \in Caches, NEW k PROVE ~Asked(pipe[c], MSHR[c], Banks(c), k)
    BY InitParts DEF Asked
<1>7. ASSUME NEW k \in Keys(op)
      PROVE  ~Wanted(pipe, MSHR, RQ, op, k) /\ ~Outstanding(MSHR, op, k)
    <2>1. k[1] # NoCache
        <3>1. 1 .. Len(op) = {}
            BY <1>2
        <3> QED
            BY <1>2, <3>1, KeyParts
    <2>2. k[1] \in Caches /\ k[2] \in Banks(k[1]) /\ Place(op, k) = LLC /\ LLC \in Caches
        BY <1>2, <2>1, KeyParts, Levels
    <2>3. ~Outstanding(MSHR, op, k)
        <3>1. MSHR[k[1]][k[2]] = <<>>
            BY <2>2, InitParts
        <3> QED
            BY <2>1, <3>1 DEF Outstanding, Waits
    <2>4. ~AskedRQ(RQ, k)
        BY InitParts DEF AskedRQ
    <2> QED
        BY <1>6, <2>2, <2>3, <2>4 DEF Wanted
<1>8. Linked(pipe, MSHR, RQ, op, {})
    <2> DEFINE X == {}
    <2>1. \A k : k \notin X
        OBVIOUS
    <2> HIDE DEF X
    <2>2. Linked(pipe, MSHR, RQ, op, X)
        BY <1>4, <1>5, <1>7, <2>1 DEF Linked
    <2> QED
        BY <2>2 DEF X
<1> QED
    BY <1>3, <1>8 DEF Good, GoodNow

LEMMA InitIInv ==
    ASSUME Init
    PROVE  IInv
<1>1. GoodNow
    BY InitGood
<1>2. ArrayInv
    <2>1. BlocksOK(blocks)
        BY InitBlocks
    <2>2. Short(pipe) /\ FillsOK(fill)
        <3>1. ASSUME NEW c \in Caches
              PROVE  Len(pipe[c]) <= latency[c] /\ fill[c] \in Seq(Fill) /\ Len(fill[c]) <= latency[c]
            <4>1. pipe[c] = <<>> /\ fill[c] = <<>>
                BY InitParts
            <4>2. latency[c] \in Nat
                BY BankTypes
            <4> QED
                BY <4>1, <4>2
        <3>2. On(fill, Caches)
            BY InitParts
        <3> QED
            BY <3>1, <3>2 DEF Short, FillsOK
    <2>3. AddrsOK(PFF, PFF_size) /\ AddrsOK(PF_buffer, PF_buffer_size)
        <3>1. ASSUME NEW c \in Caches
              PROVE  /\ PFF[c] \in Seq(Blocks) /\ Len(PFF[c]) <= PFF_size[c]
                     /\ PF_buffer[c] \in Seq(Blocks) /\ Len(PF_buffer[c]) <= PF_buffer_size[c]
            <4>1. PFF[c] = <<>> /\ PF_buffer[c] = <<>>
                BY InitParts
            <4>2. PFF_size[c] \in Nat /\ PF_buffer_size[c] \in Nat
                BY BankTypes
            <4> QED
                BY <4>1, <4>2
        <3>2. On(PFF, Caches) /\ On(PF_buffer, Caches)
            BY InitParts
        <3> QED
            BY <3>1, <3>2 DEF AddrsOK
    <2>4. Len(RQ) <= RQ_size
        BY InitParts, TimesAssumption DEF Pos
    <2> QED
        BY <2>1, <2>2, <2>3, <2>4, InitParts, IdleIs DEF ArrayInv
<1>3. FlagInv
    <2>1. ASSUME NEW c \in Caches PROVE Flagged(pipe[c], fill[c], MSHR[c], Banks(c), work[c])
        BY InitParts DEF Flagged, BankNeeds
    <2>2. On(work, Caches) /\ \A c \in Caches : work[c] \in SUBSET Flags
        BY InitParts DEF Flags
    <2>3. PassOK(pc, MSHR, num)
        BY InitParts, IdleIs, IdlePass
    <2> QED
        BY <2>1, <2>2, <2>3 DEF FlagInv, FlagsOK
<1> QED
    BY <1>1, <1>2, <1>3 DEF IInv, GoodNow

LEMMA RunPassIInv ==
    ASSUME IInv, Configured, NEW c \in Caches, RunPass(c)
    PROVE  GoodNow' /\ ArrayInv' /\ FlagInv'
<1>1. CASE ProcessMSHR_WB(c)
    BY <1>1, GoodProcessMSHR_WB, RestProcessMSHR_WB
<1>2. CASE DropMSHR_WB(c)
    BY <1>2, GoodDrop, RestDrop
<1>3. CASE ProcessMSHR_fill(c)
    BY <1>3, GoodProcessMSHR_fill, RestProcessMSHR_fill
<1>4. CASE ProcessFills(c)
    BY <1>4, GoodProcessFills, RestProcessFills
<1>5. CASE PipeHit(c)
    BY <1>5, GoodPipeHit, RestPipeHit
<1>6. CASE PipeBufferHit(c)
    BY <1>6, GoodPipeBufferHit, RestPipeBufferHit
<1>7. CASE PipeMiss(c)
    BY <1>7, GoodPipeMiss, RestPipeMiss
<1>8. CASE PipeWaits(c)
    BY <1>8, GoodPipeWaits, RestPipeWaits
<1>9. CASE ProcessMSHR(c)
    BY <1>9, GoodProcessMSHR, RestProcessMSHR
<1> QED
    BY <1>1, <1>2, <1>3, <1>4, <1>5, <1>6, <1>7, <1>8, <1>9 DEF RunPass

LEMMA NextIInv ==
    ASSUME IInv, Configured, [Next]_vars
    PROVE  IInv'
<1>0. GoodNow
    BY IInvParts
<1>1. ASSUME NEW r \in Accesses, Request(r[1], r[2], r[3])
      PROVE  IInv'
    <2>1. r[1] \in L1s /\ r[2] \in {"READ", "WRITE"} /\ r[3] \in Blocks
        BY RequestsAssumption
    <2> QED
        BY <1>1, <2>1, GoodRequest, RestRequest DEF IInv, GoodNow
<1>2. ASSUME NEW o \in 1 .. Len(op), Squash(o) \/ Translate(o)
      PROVE  IInv'
    BY <1>2, GoodSquash, RestSquash DEF IInv, GoodNow
<1>3. ASSUME NEW c \in Caches, Start(c)
      PROVE  IInv'
    BY <1>0, <1>3, GoodStart, RestStart DEF IInv, GoodNow
<1>4. ASSUME NEW c \in Caches, RunPass(c)
      PROVE  IInv'
    BY <1>4, RunPassIInv DEF IInv, GoodNow
<1>5. ASSUME NEW c \in Caches, Prefetch(c)
      PROVE  IInv'
    <2>1. GoodNow'
        BY <1>5, GoodPrefetch, Zenon
    <2>2. ArrayInv' /\ FlagInv'
        BY <1>5, RestPrefetch, Zenon
    <2> QED
        BY <2>1, <2>2 DEF IInv, GoodNow
<1>6. CASE MCStep
    <2>1. GoodNow'
        BY <1>6, GoodMCStep, Zenon
    <2>2. ArrayInv' /\ FlagInv'
        BY <1>6, RestMCStep, Zenon
    <2> QED
        BY <2>1, <2>2, Zenon DEF IInv, GoodNow
<1>7. CASE UNCHANGED vars
    <2>1. UNCHANGED <<caches, RQ, pc>>
        BY <1>7 DEF vars, caches
    <2>2. pipe' = pipe /\ MSHR' = MSHR /\ num' = num /\ RQ' = RQ /\ op' = op
        BY <1>7 DEF vars
    <2>3. GoodNow'
        BY <1>0, <2>2, Zenon DEF GoodNow
    <2>4. ArrayInv' /\ FlagInv'
        BY <2>1, RestSame, Zenon
    <2> QED
        BY <2>3, <2>4, Zenon DEF IInv, GoodNow
<1> QED
    BY <1>1, <1>2, <1>3, <1>4, <1>5, <1>6, <1>7 DEF Next

-----------------------------------------------------------------------------
(* What the invariant says of the properties.                              *)

LEMMA EntriesAre ==
    ASSUME NEW c, NEW e
    PROVE  e \in Entries(c) <=> \E b \in Banks(c) : \E i \in 1 .. Len(MSHR[c][b]) : e = MSHR[c][b][i]
    BY DEF Entries

LEMMA LinesOK ==
    ASSUME NEW n, NEW S, NEW T, S \subseteq T, NEW s, SetOK(s, n, S)
    PROVE  Len(s) = n /\ s \in Seq(Line(n, T))
<1>1. s \in Seq(Line(n, S)) /\ Len(s) = n
    BY DEF SetOK
<1>2. \A l \in Line(n, S) : l \in Line(n, T)
    BY DEF Line
<1>3. \A i \in 1 .. Len(s) : s[i] \in Line(n, T)
    BY <1>1, <1>2
<1> HIDE DEF Line
<1> QED
    BY <1>1, <1>3

LEMMA IInvTypes ==
    ASSUME IInv
    PROVE  TypeOK
<1>1. ASSUME NEW c \in Caches, NEW s \in 0 .. Sets[c] - 1
      PROVE  Len(blocks[c][s]) = Assoc[c] /\ blocks[c][s] \in Seq(Line(Assoc[c], Blocks))
    <2>1. SetOK(blocks[c][s], Assoc[c], Tags(c, s))
        BY IInvParts DEF ArrayInv, BlocksOK
    <2>2. Tags(c, s) \subseteq Blocks
        BY DEF Tags
    <2> QED
        BY <2>1, <2>2, LinesOK, Zenon
<1>2. ASSUME NEW c \in Caches
      PROVE  /\ Len(pipe[c]) <= latency[c] /\ Len(fill[c]) <= latency[c]
             /\ Len(PFF[c]) <= PFF_size[c] /\ Len(PF_buffer[c]) <= PF_buffer_size[c]
    BY IInvParts DEF ArrayInv, Short, FillsOK, AddrsOK
<1>3. ASSUME NEW c \in Caches PROVE work[c] \subseteq Flags
    BY IInvParts DEF FlagInv, FlagsOK
<1>4. Len(RQ) <= RQ_size /\ pc.cache \in Caches \cup {NoCache}
    BY IInvParts DEF ArrayInv, Turn
<1> QED
    BY <1>1, <1>2, <1>3, <1>4 DEF TypeOK

LEMMA IInvCounted ==
    ASSUME IInv
    PROVE  MSHRCounted
<1> SUFFICES ASSUME NEW c \in Caches, NEW b \in Banks(c)
             PROVE  LET m == MSHR[c][b]
                        Count(P(_)) == Cardinality({i \in 1 .. Len(m) : P(m[i])})
                    IN  /\ num[c][b].miss = Count(LAMBDA e : e.type = "MISS")
                        /\ num[c][b].fill = num[c][b].miss
                        /\ num[c][b].wb = Count(LAMBDA e : e.type = "WRITEBACK")
                        /\ num[c][b].unprocessed = Count(LAMBDA e : e.type = "MISS" /\ ~e.started)
                        /\ num[c][b].pf = Count(LAMBDA e : e.act.cmd = "PREFETCH")
                        /\ num[c][b].miss <= MSHR_size[c] - MSHR_WB_size[c]
                        /\ num[c][b].wb <= MSHR_WB_size[c]
                        /\ Cardinality({m[i].slot : i \in 1 .. Len(m)}) = Len(m)
    BY DEF MSHRCounted
<1>1. BankOK(c, b, MSHR[c][b], num[c][b])
    BY IInvParts
<1>2. Cardinality(SlotsOf(MSHR[c][b])) = Len(MSHR[c][b])
    BY <1>1, SlotsCounted, Zenon
<1> QED
    BY <1>1, <1>2 DEF BankOK, Counted, Misses, Writebacks, Unsents, Prefetches, SlotsOf

LEMMA IInvUnique ==
    ASSUME IInv
    PROVE  NoDuplicateTag
<1>1. ASSUME NEW c \in Caches, NEW s \in 0 .. Sets[c] - 1 PROVE SetOK(blocks[c][s], Assoc[c], Tags(c, s))
    BY IInvParts DEF ArrayInv, BlocksOK
<1> QED
    BY <1>1 DEF SetOK, NoDuplicateTag

LEMMA IInvWorkSeen ==
    ASSUME IInv
    PROVE  WorkSeen
<1>1. ASSUME NEW c \in Caches PROVE Flagged(pipe[c], fill[c], MSHR[c], Banks(c), work[c])
    BY IInvParts DEF FlagInv, FlagsOK
<1>2. ASSUME NEW c \in Caches, NEW e \in Entries(c), NEW x \in Flags, EntryNeeds(e, x)
      PROVE  x \in work[c]
    <2>1. PICK b \in Banks(c) : \E i \in 1 .. Len(MSHR[c][b]) : e = MSHR[c][b][i]
        BY EntriesAre
    <2>2. PICK i \in 1 .. Len(MSHR[c][b]) : e = MSHR[c][b][i]
        BY <2>1
    <2>3. BankNeeds(MSHR[c][b], x)
        BY <1>2, <2>2 DEF BankNeeds
    <2> QED
        BY <1>1, <2>3 DEF Flagged
<1>3. ASSUME NEW c \in Caches, NEW e \in Entries(c)
      PROVE  /\ e.type = "MISS" /\ e.returned # Never => "MSHR_fill" \in work[c]
             /\ e.type = "MISS" /\ ~e.started => "MSHR" \in work[c]
             /\ e.type = "WRITEBACK" /\ (~e.started \/ e.returned # Never) => "MSHR_WB" \in work[c]
    <2>1. "MSHR_fill" \in Flags /\ "MSHR" \in Flags /\ "MSHR_WB" \in Flags
        BY DEF Flags
    <2> QED
        BY <1>2, <2>1 DEF EntryNeeds
<1> QED
    BY <1>1, <1>3 DEF Flagged, WorkSeen

-----------------------------------------------------------------------------
(* One request for whoever waits.                                          *)

AtMostOne(S) == \A x, y \in S : x = y

LEMMA OneOrNone ==
    ASSUME NEW S, AtMostOne(S)
    PROVE  (S = {} => Cardinality(S) = 0) /\ (S # {} => Cardinality(S) = 1)
<1>1. S = {} => Cardinality(S) = 0
    BY FS_EmptySet
<1>2. ASSUME S # {} PROVE Cardinality(S) = 1
    <2>1. PICK x : x \in S
        BY <1>2
    <2>2. S = {x}
        BY <2>1 DEF AtMostOne
    <2> QED
        BY <2>2, FS_Singleton
<1> QED
    BY <1>1, <1>2

ForSlot(act, c, b, slot) == act.prev = c /\ act.bank = b /\ act.index = slot
ForOp(act, o) == act.op = o /\ act.prev = NoCache

LEMMA KeyOfSlot ==
    ASSUME NEW act \in Act, NEW c \in Caches, NEW b, NEW slot
    PROVE  For(act, <<c, b, slot>>) = ForSlot(act, c, b, slot)
<1>1. c # NoCache
    BY Levels
<1>2. CASE act.prev = NoCache
    <2>1. Key(act) = <<NoCache, 0, act.op>>
        BY <1>2 DEF Key
    <2>2. Key(act) # <<c, b, slot>>
        BY <1>1, <2>1
    <2> QED
        BY <1>1, <1>2, <2>2 DEF For, ForSlot
<1>3. CASE act.prev # NoCache
    <2>1. Key(act) = <<act.prev, act.bank, act.index>>
        BY <1>3 DEF Key
    <2>2. Key(act) = <<c, b, slot>> <=> act.prev = c /\ act.bank = b /\ act.index = slot
        BY <2>1
    <2> QED
        BY <1>3, <2>2 DEF For, Asks, ForSlot
<1> QED
    BY <1>2, <1>3

LEMMA KeyOfOp ==
    ASSUME NEW act \in Act, NEW o \in Nat \ {0}
    PROVE  For(act, <<NoCache, 0, o>>) = ForOp(act, o)
<1>1. CASE act.prev = NoCache
    <2>1. Key(act) = <<NoCache, 0, act.op>>
        BY <1>1 DEF Key
    <2>2. Key(act) = <<NoCache, 0, o>> <=> act.op = o
        BY <2>1
    <2> QED
        BY <1>1, <2>2 DEF For, Asks, NoOp, ForOp
<1>2. CASE act.prev # NoCache
    <2>1. Key(act) = <<act.prev, act.bank, act.index>>
        BY <1>2 DEF Key
    <2>2. Key(act) # <<NoCache, 0, o>>
        BY <1>2, <2>1
    <2> QED
        BY <1>2, <2>2 DEF For, ForOp
<1> QED
    BY <1>1, <1>2

(* What Upstream lists are the places that want an answer for the slot.    *)
LEMMA UpstreamRQ ==
    ASSUME IInv, NEW b, NEW slot
    PROVE  /\ AtMostOne(Upstream(LLC, b, slot))
           /\ Upstream(LLC, b, slot) # {} <=> AskedRQ(RQ, <<LLC, b, slot>>)
<1> DEFINE k == <<LLC, b, slot>>
           I == {i \in 1 .. Len(RQ) : ~RQ[i].returned /\ RQ[i].act.prev = LLC
                                       /\ RQ[i].act.bank = b /\ RQ[i].act.index = slot}
<1>1. Upstream(LLC, b, slot) = {<<"RQ", i>> : i \in I}
    BY Levels DEF Upstream
<1>2. RQ \in Seq(MemRequest) /\ SingleRQ(RQ)
    BY IInvParts DEF GoodNow, Good, Sound, QueueOK, Linked
<1>3. ASSUME NEW i \in 1 .. Len(RQ) PROVE i \in I <=> InRQ(RQ, k, i)
    <2>1. RQ[i] \in MemRequest
        BY <1>2
    <2>2. RQ[i].act \in Act
        BY <2>1 DEF MemRequest
    <2>3. For(RQ[i].act, k) = ForSlot(RQ[i].act, LLC, b, slot)
        BY <2>2, Levels, KeyOfSlot
    <2> QED
        BY <2>3 DEF InRQ, ForSlot
<1>4. I \subseteq 1 .. Len(RQ)
    OBVIOUS
<1> HIDE DEF k, I
<1>5. ASSUME NEW i \in I, NEW j \in I PROVE i = j
    <2>1. InRQ(RQ, k, i) /\ InRQ(RQ, k, j) /\ i \in 1 .. Len(RQ) /\ j \in 1 .. Len(RQ)
        BY <1>3, <1>4
    <2>2. Key(RQ[i].act) = k
        BY <2>1 DEF InRQ, For
    <2> QED
        BY <1>2, <2>1, <2>2 DEF SingleRQ
<1>6. AtMostOne(Upstream(LLC, b, slot))
    BY <1>1, <1>5 DEF AtMostOne
<1>7. I # {} <=> AskedRQ(RQ, k)
    BY <1>3, <1>4 DEF AskedRQ
<1> QED
    BY <1>1, <1>6, <1>7 DEF k

LEMMA UpstreamLLC ==
    ASSUME IInv, NEW c \in L1s, NEW b, NEW slot
    PROVE  /\ AtMostOne(Upstream(c, b, slot))
           /\ Upstream(c, b, slot) # {} <=> Asked(pipe[LLC], MSHR[LLC], Banks(LLC), <<c, b, slot>>)
<1> DEFINE k == <<c, b, slot>>
           p == pipe[LLC]
           M == MSHR[LLC]
           B == Banks(LLC)
           I == {i \in 1 .. Len(p) : p[i].act.prev = c /\ p[i].act.bank = b /\ p[i].act.index = slot}
           E == {e \in Entries(LLC) : e.type = "MISS" /\ e.act.prev = c /\ e.act.bank = b /\ e.act.index = slot}
<1>1. Upstream(c, b, slot) = {<<"pipe", i>> : i \in I} \cup {<<"MSHR", e.slot, e.act.addr>> : e \in E}
    <2>1. next_level[c] = LLC /\ LLC # MC
        BY Levels
    <2> QED
        BY <2>1 DEF Upstream
<1>2. c \in Caches /\ LLC \in Caches
    BY Levels
<1>3. p \in Seq(Access) /\ Single(p, M, B) /\ \A d \in B : M[d] \in Seq(Slot)
    BY <1>2, IInvParts DEF GoodNow, Good, PipeOK, Linked
<1>4. ASSUME NEW i \in 1 .. Len(p) PROVE i \in I <=> InPipe(p, k, i)
    <2>0. p[i] \in Access
        BY <1>3
    <2>1. p[i].act \in Act
        BY <2>0 DEF Access
    <2>2. For(p[i].act, k) = ForSlot(p[i].act, c, b, slot)
        BY <1>2, <2>1, KeyOfSlot
    <2> QED
        BY <2>2 DEF InPipe, ForSlot
<1>5. ASSUME NEW d \in B, NEW i \in 1 .. Len(M[d]) PROVE M[d][i] \in E <=> InMSHR(M, B, k, d, i)
    <2>1. M[d][i] \in Slot
        BY <1>3
    <2>2. M[d][i].act \in Act
        BY <2>1, SlotFields
    <2>3. For(M[d][i].act, k) = ForSlot(M[d][i].act, c, b, slot)
        BY <1>2, <2>2, KeyOfSlot
    <2>4. M[d][i] \in Entries(LLC)
        BY EntriesAre
    <2> QED
        BY <2>3, <2>4 DEF InMSHR, ForSlot
<1>6. I \subseteq 1 .. Len(p)
    OBVIOUS
<1>7. ASSUME NEW e \in E PROVE \E d \in B : \E i \in 1 .. Len(M[d]) : e = M[d][i]
    BY EntriesAre
<1> HIDE DEF k, p, M, B, I, E
<1>8. ASSUME NEW i \in I, NEW j \in I PROVE i = j
    <2>1. InPipe(p, k, i) /\ InPipe(p, k, j) /\ i \in 1 .. Len(p) /\ j \in 1 .. Len(p)
        BY <1>4, <1>6
    <2>2. Key(p[i].act) = k
        BY <2>1 DEF InPipe, For
    <2> QED
        BY <1>3, <2>1, <2>2 DEF Single
<1>9. ASSUME NEW e \in E, NEW f \in E PROVE e = f
    <2>1. PICK d \in B : \E i \in 1 .. Len(M[d]) : e = M[d][i]
        BY <1>7
    <2>2. PICK i \in 1 .. Len(M[d]) : e = M[d][i]
        BY <2>1
    <2>3. PICK g \in B : \E j \in 1 .. Len(M[g]) : f = M[g][j]
        BY <1>7
    <2>4. PICK j \in 1 .. Len(M[g]) : f = M[g][j]
        BY <2>3
    <2>5. InMSHR(M, B, k, d, i) /\ InMSHR(M, B, k, g, j)
        BY <1>5, <2>2, <2>4
    <2>6. Key(M[d][i].act) = k
        BY <2>5 DEF InMSHR, For
    <2> QED
        BY <1>3, <2>2, <2>4, <2>5, <2>6 DEF Single
<1>10. ASSUME NEW i \in I, NEW e \in E PROVE FALSE
    <2>1. PICK d \in B : \E j \in 1 .. Len(M[d]) : e = M[d][j]
        BY <1>7
    <2>2. PICK j \in 1 .. Len(M[d]) : e = M[d][j]
        BY <2>1
    <2>3. InPipe(p, k, i) /\ InMSHR(M, B, k, d, j) /\ i \in 1 .. Len(p)
        BY <1>4, <1>5, <1>6, <2>2
    <2>4. Key(p[i].act) = k
        BY <2>3 DEF InPipe, For
    <2> QED
        BY <1>3, <2>3, <2>4 DEF Single
<1>11. AtMostOne(Upstream(c, b, slot))
    BY <1>1, <1>8, <1>9, <1>10 DEF AtMostOne
<1>12. I # {} \/ E # {} <=> Asked(p, M, B, k)
    <2>1. I # {} <=> \E i \in 1 .. Len(p) : InPipe(p, k, i)
        BY <1>4, <1>6
    <2>2. E # {} <=> \E d \in B : \E i \in 1 .. Len(M[d]) : InMSHR(M, B, k, d, i)
        BY <1>5, <1>7
    <2> QED
        BY <2>1, <2>2 DEF Asked
<1>13. Upstream(c, b, slot) # {} <=> Asked(p, M, B, k)
    BY <1>1, <1>12
<1> QED
    BY <1>11, <1>13 DEF p, M, B, k

LEMMA SlotAnswered ==
    ASSUME IInv, NEW c \in Caches, NEW b \in Banks(c), NEW slot \in 0 .. MSHR_size[c] - 1
    PROVE  Cardinality(Upstream(c, b, slot)) = IF Waits(MSHR[c][b], slot) THEN 1 ELSE 0
<1> DEFINE k == <<c, b, slot>>
<1>1. k \in Keys(op)
    BY SlotKey
<1>2. k[1] = c /\ k[2] = b /\ k[3] = slot /\ c # NoCache
    BY Levels
<1> HIDE DEF k
<1>3. Wanted(pipe, MSHR, RQ, op, k) <=> Outstanding(MSHR, op, k)
    <2>1. Linked(pipe, MSHR, RQ, op, {})
        BY IInvParts DEF GoodNow, Good
    <2>2. Binding(op, k)
        BY <1>2 DEF Binding
    <2> QED
        BY <1>1, <2>1, <2>2 DEF Linked
<1>4. Outstanding(MSHR, op, k) <=> Waits(MSHR[c][b], slot)
    BY <1>2 DEF Outstanding
<1>5. AtMostOne(Upstream(c, b, slot)) /\ (Upstream(c, b, slot) # {} <=> Wanted(pipe, MSHR, RQ, op, k))
    <2>1. CASE c = LLC
        BY <1>2, <2>1, UpstreamRQ DEF Wanted, k
    <2>2. CASE c # LLC
        <3>1. c \in L1s
            BY <2>2, Levels
        <3>2. Place(op, k) = LLC
            BY <1>2 DEF Place
        <3> QED
            BY <1>2, <2>2, <3>1, <3>2, UpstreamLLC DEF Wanted, k
    <2> QED
        BY <2>1, <2>2
<1> QED
    BY <1>3, <1>4, <1>5, OneOrNone

LEMMA OperationAnswered ==
    ASSUME IInv, NEW o \in 1 .. Len(op), op[o].live
    PROVE  LET Own(act) == act.op = o /\ act.prev = NoCache
               accesses == UNION {{c} \X {i \in 1 .. Len(pipe[c]) : Own(pipe[c][i].act)} : c \in L1s}
               misses == UNION {{c} \X {e \in Entries(c) : Own(e.act)} : c \in L1s}
           IN  Cardinality(accesses) + Cardinality(misses) + op[o].answers = 1
<1> DEFINE I(c) == {i \in 1 .. Len(pipe[c]) : pipe[c][i].act.op = o /\ pipe[c][i].act.prev = NoCache}
           E(c) == {e \in Entries(c) : e.act.op = o /\ e.act.prev = NoCache}
           A == UNION {{c} \X I(c) : c \in L1s}
           D == UNION {{c} \X E(c) : c \in L1s}
           k == <<NoCache, 0, o>>
           d == op[o].core
           p == pipe[d]
           M == MSHR[d]
           B == Banks(d)
<1> SUFFICES Cardinality(A) + Cardinality(D) + op[o].answers = 1
    OBVIOUS
<1>1. op \in Seq(Operation) /\ op[o] \in Operation /\ o \in Nat \ {0}
    BY IInvParts
<1>2. d \in L1s /\ d \in Caches /\ op[o].answers \in {0, 1}
    <2>1. op[o].core \in L1s
        BY <1>1 DEF Operation
    <2>2. op[o].answers \in {0, 1}
        BY IInvParts DEF GoodNow, Good, Sound, OpsOK
    <2> QED
        BY <2>1, <2>2, Levels
<1>3. ASSUME NEW c \in L1s, NEW i \in I(c) PROVE c = d /\ InPipe(p, k, i)
    <2>1. c \in Caches
        BY Levels
    <2>2. pipe[c] \in Seq(Access) /\ ActOwned(op, c, pipe[c][i].act)
        BY <2>1, IInvParts DEF PipeOK
    <2>3. pipe[c][i] \in Access
        BY <2>2
    <2>4. pipe[c][i].act \in Act
        BY <2>3 DEF Access
    <2>5. For(pipe[c][i].act, k) = ForOp(pipe[c][i].act, o)
        BY <1>1, <2>4, KeyOfOp
    <2>6. c = d
        BY <1>1, <2>2 DEF ActOwned, NoOp
    <2> QED
        BY <2>5, <2>6 DEF InPipe, ForOp
<1>4. ASSUME NEW i \in 1 .. Len(p), InPipe(p, k, i) PROVE i \in I(d)
    <2>1. p \in Seq(Access)
        BY <1>2, IInvParts DEF PipeOK
    <2>2. p[i] \in Access
        BY <2>1
    <2>3. p[i].act \in Act
        BY <2>2 DEF Access
    <2>4. For(p[i].act, k) = ForOp(p[i].act, o)
        BY <1>1, <2>3, KeyOfOp
    <2> QED
        BY <1>4, <2>4 DEF InPipe, ForOp
<1>5. ASSUME NEW c \in L1s, NEW e \in E(c)
      PROVE  c = d /\ \E b \in B : \E i \in 1 .. Len(M[b]) : e = M[b][i] /\ InMSHR(M, B, k, b, i)
    <2>0. c \in Caches
        BY Levels
    <2>1. PICK b \in Banks(c) : \E i \in 1 .. Len(MSHR[c][b]) : e = MSHR[c][b][i]
        BY EntriesAre
    <2>2. PICK i \in 1 .. Len(MSHR[c][b]) : e = MSHR[c][b][i]
        BY <2>1
    <2>3. MSHR[c][b] \in Seq(Slot) /\ EntryOK(c, b, e) /\ ActOwned(op, c, e.act)
        BY <2>0, <2>2, IInvParts DEF MSHROK, BankOK, OwnedBank
    <2>4. e \in Slot /\ e.act \in Act /\ e.type \in {"MISS", "WRITEBACK"}
        BY <2>2, <2>3, SlotFields
    <2>5. For(e.act, k) = ForOp(e.act, o)
        BY <1>1, <2>4, KeyOfOp
    <2>6. c = d /\ e.type = "MISS"
        BY <1>1, <2>3, <2>4 DEF ActOwned, EntryOK, NoOp
    <2>7. InMSHR(M, B, k, b, i)
        BY <2>2, <2>5, <2>6 DEF InMSHR, ForOp
    <2> QED
        BY <2>2, <2>6, <2>7
<1>6. ASSUME NEW b \in B, NEW i \in 1 .. Len(M[b]), InMSHR(M, B, k, b, i) PROVE M[b][i] \in E(d)
    <2>1. M[b] \in Seq(Slot)
        BY <1>2, IInvParts
    <2>2. M[b][i] \in Slot
        BY <2>1
    <2>3. M[b][i].act \in Act
        BY <2>2, SlotFields
    <2>4. For(M[b][i].act, k) = ForOp(M[b][i].act, o)
        BY <1>1, <2>3, KeyOfOp
    <2>5. M[b][i] \in Entries(d)
        BY EntriesAre
    <2> QED
        BY <1>6, <2>4, <2>5 DEF InMSHR, ForOp
<1>7. Single(p, M, B) /\ (Asked(p, M, B, k) <=> op[o].answers = 0)
    <2>1. Linked(pipe, MSHR, RQ, op, {})
        BY IInvParts DEF GoodNow, Good
    <2>2. k \in Keys(op)
        BY OpKey
    <2>3. k[1] = NoCache /\ k[3] = o /\ NoCache # LLC
        BY DEF NoCache, LLC
    <2> HIDE DEF k
    <2>4. Binding(op, k) /\ Place(op, k) = d
        BY <2>3 DEF Binding, Place
    <2>5. Wanted(pipe, MSHR, RQ, op, k) <=> Outstanding(MSHR, op, k)
        BY <2>1, <2>2, <2>4 DEF Linked
    <2>6. Wanted(pipe, MSHR, RQ, op, k) <=> Asked(p, M, B, k)
        BY <2>3, <2>4 DEF Wanted
    <2>7. Outstanding(MSHR, op, k) <=> op[o].answers = 0
        BY <2>3 DEF Outstanding
    <2>8. Single(p, M, B)
        BY <1>2, <2>1 DEF Linked
    <2> QED
        BY <2>5, <2>6, <2>7, <2>8
<1>8. \A c \in L1s : I(c) \subseteq 1 .. Len(pipe[c])
    OBVIOUS
<1>9. \A x : x \in A <=> \E c \in L1s : \E i \in I(c) : x = <<c, i>>
    OBVIOUS
<1>10. \A x : x \in D <=> \E c \in L1s : \E e \in E(c) : x = <<c, e>>
    OBVIOUS
<1> HIDE DEF A, D, I, E, k, d, p, M, B
<1>11. AtMostOne(A)
    <2>1. ASSUME NEW i \in I(d), NEW j \in I(d) PROVE i = j
        <3>1. InPipe(p, k, i) /\ InPipe(p, k, j)
            BY <1>2, <1>3
        <3>2. Key(p[i].act) = k /\ i \in 1 .. Len(p) /\ j \in 1 .. Len(p)
            BY <3>1 DEF InPipe, For
        <3> QED
            BY <1>7, <3>1, <3>2 DEF Single
    <2>2. ASSUME NEW x \in A PROVE \E i \in I(d) : x = <<d, i>>
        BY <1>3, <1>9
    <2> QED
        BY <2>1, <2>2 DEF AtMostOne
<1>12. AtMostOne(D)
    <2>1. ASSUME NEW e \in E(d), NEW f \in E(d) PROVE e = f
        <3>1. PICK b \in B : \E i \in 1 .. Len(M[b]) : e = M[b][i] /\ InMSHR(M, B, k, b, i)
            BY <1>2, <1>5
        <3>2. PICK i \in 1 .. Len(M[b]) : e = M[b][i] /\ InMSHR(M, B, k, b, i)
            BY <3>1
        <3>3. PICK g \in B : \E j \in 1 .. Len(M[g]) : f = M[g][j] /\ InMSHR(M, B, k, g, j)
            BY <1>2, <1>5
        <3>4. PICK j \in 1 .. Len(M[g]) : f = M[g][j] /\ InMSHR(M, B, k, g, j)
            BY <3>3
        <3>5. Key(M[b][i].act) = k
            BY <3>2 DEF InMSHR, For
        <3> QED
            BY <1>7, <3>2, <3>4, <3>5 DEF Single
    <2>2. ASSUME NEW x \in D PROVE \E e \in E(d) : x = <<d, e>>
        BY <1>5, <1>10
    <2> QED
        BY <2>1, <2>2 DEF AtMostOne
<1>13. A = {} \/ D = {}
    <2>1. SUFFICES ASSUME NEW x \in A, NEW y \in D PROVE FALSE
        OBVIOUS
    <2>2. PICK i \in I(d) : TRUE
        BY <1>3, <1>9
    <2>3. PICK e \in E(d) : TRUE
        BY <1>5, <1>10
    <2>4. InPipe(p, k, i)
        BY <1>2, <1>3
    <2>5. PICK b \in B : \E j \in 1 .. Len(M[b]) : e = M[b][j] /\ InMSHR(M, B, k, b, j)
        BY <1>2, <1>5
    <2>6. PICK j \in 1 .. Len(M[b]) : e = M[b][j] /\ InMSHR(M, B, k, b, j)
        BY <2>5
    <2>7. Key(p[i].act) = k /\ i \in 1 .. Len(p)
        BY <2>4 DEF InPipe, For
    <2> QED
        BY <1>7, <2>4, <2>6, <2>7 DEF Single
<1>14. A # {} \/ D # {} <=> Asked(p, M, B, k)
    <2>1. A # {} <=> \E i \in 1 .. Len(p) : InPipe(p, k, i)
        <3>1. ASSUME NEW x \in A PROVE \E i \in 1 .. Len(p) : InPipe(p, k, i)
            BY <1>3, <1>9 DEF InPipe
        <3>2. ASSUME NEW i \in 1 .. Len(p), InPipe(p, k, i) PROVE <<d, i>> \in A
            BY <1>2, <1>4, <1>9, <3>2
        <3> QED
            BY <3>1, <3>2
    <2>2. D # {} <=> \E b \in B : \E i \in 1 .. Len(M[b]) : InMSHR(M, B, k, b, i)
        <3>1. ASSUME NEW x \in D PROVE \E b \in B : \E i \in 1 .. Len(M[b]) : InMSHR(M, B, k, b, i)
            BY <1>5, <1>10
        <3>2. ASSUME NEW b \in B, NEW i \in 1 .. Len(M[b]), InMSHR(M, B, k, b, i) PROVE <<d, M[b][i]>> \in D
            BY <1>2, <1>6, <1>10, <3>2
        <3> QED
            BY <3>1, <3>2
    <2> QED
        BY <2>1, <2>2 DEF Asked
<1>15. /\ (A = {} => Cardinality(A) = 0) /\ (A # {} => Cardinality(A) = 1)
       /\ (D = {} => Cardinality(D) = 0) /\ (D # {} => Cardinality(D) = 1)
    BY <1>11, <1>12, OneOrNone
<1> QED
    BY <1>2, <1>7, <1>13, <1>14, <1>15

LEMMA IInvAnswered ==
    ASSUME IInv
    PROVE  AnsweredOnce
<1>1. ASSUME NEW c \in Caches, NEW b \in Banks(c), NEW slot \in 0 .. MSHR_size[c] - 1
      PROVE  Cardinality(Upstream(c, b, slot)) =
               IF \E i \in 1 .. Len(MSHR[c][b]) :
                    LET e == MSHR[c][b][i] IN e.slot = slot /\ e.started /\ e.returned = Never
               THEN 1 ELSE 0
    BY SlotAnswered DEF Waits
<1> QED
    BY <1>1, OperationAnswered DEF AnsweredOnce

-----------------------------------------------------------------------------
(* The theorems.                                                           *)

LEMMA Inductive == ASSUME Configured PROVE Spec => []IInv
<1>1. Init => IInv
    BY InitIInv
<1>2. IInv /\ [Next]_vars => IInv'
    BY NextIInv
<1> QED
    BY <1>1, <1>2, PTL DEF Spec

(***************************************************************************)
(* Tag arrays and MSHRs keep their form: no set ever holds a block twice,  *)
(* no two MSHR entries of a bank share a slot, the counters that           *)
(* MSHR_insert, MSHR_WB_insert, process_MSHR and MSHR_deallocate maintain  *)
(* count the entries and stay within the slots reserved for misses and for *)
(* writebacks, and no queue grows past its size.                           *)
(***************************************************************************)
THEOREM ArraysStaySound == ASSUME Configured PROVE Spec => []ArraysSound
<1>1. Spec => []IInv
    BY Inductive
<1>2. IInv => ArraysSound
    BY IInvTypes, IInvCounted, IInvUnique DEF ArraysSound
<1> QED
    BY <1>1, <1>2, PTL

(***************************************************************************)
(* No work is forgotten: between cycles, whatever waits in a pipe, in the  *)
(* fill queue or in an MSHR has its check_for flag up, so that             *)
(* cache_process does not skip it.                                         *)
(***************************************************************************)
THEOREM WorkStaysSeen == ASSUME Configured PROVE Spec => []WorkSeen
<1>1. Spec => []IInv
    BY Inductive
<1>2. IInv => WorkSeen
    BY IInvWorkSeen
<1> QED
    BY <1>1, <1>2, PTL

(***************************************************************************)
(* Every miss and writeback sent to the next level is known there exactly  *)
(* once until its answer has come, and nothing else is, so that            *)
(* fill_arrived always finds its slot; and an operation of a core that     *)
(* still wants its data has exactly one access or miss in its cache, or    *)
(* has been called back exactly once.                                      *)
(***************************************************************************)
THEOREM RequestsAnsweredOnce == ASSUME Configured PROVE Spec => []AnsweredOnce
<1>1. Spec => []IInv
    BY Inductive
<1>2. IInv => AnsweredOnce
    BY IInvAnswered
<1> QED
    BY <1>1, <1>2, PTL
=============================================================================
