--------------------------- MODULE OutOfOrderCore ---------------------------
(***************************************************************************)
(* The back end of the out-of-order core: alloc-DPM.cpp, exec-DPM.cpp and  *)
(* commit-DPM.cpp, in the order in which sim_main_slave_pre_pin() runs     *)
(* them in a cycle.  A uop issues speculatively, when its parents are      *)
(* expected to have their values by the time it executes; when they do     *)
(* not, it is snatched back and replayed.  Loads pass older stores whose   *)
(* address is not known yet, and are flushed when that was wrong.          *)
(*                                                                         *)
(* The core is one record and every function of the code an operator from  *)
(* core to core.  Times are the cycles that remain, 0 for now or earlier.  *)
(* Instead of action_ids, an in-flight use of uop u is u while it is valid *)
(* and -u after new_action_id(u); where an invalid one is never looked at  *)
(* again it is removed.  Caches answer in any order, see CacheHierarchy;   *)
(* they hold a load back until its TLB access is done, and their latency   *)
(* covers the search of the store queue.                                   *)
(***************************************************************************)
EXTENDS Integers, Sequences, FiniteSets, SequencesExt

CONSTANTS
    Programs,      \* programs, sequences of uops, see UopType
    LineSize,      \* bytes of a DL1 line
    ROB_size, RS_size, LDQ_size, STQ_size,
    Ports,         \* 1 .. num_exec_ports
    port_binding,  \* [class -> sequence of ports]
    fu_latency, issue_rate,     \* [class -> Nat]
    payload_depth, DL1_latency,
    alloc_width, alloc_depth, commit_width,
    branch_limit,  \* 0: none
    jeclear_delay, \* 0: recover at once
    drain_flush, throttle_partial, light_fence,   \* BOOLEAN
    Memdeps,       \* subset of {"blind", "none", "oracle", "lwt"}
    MissLatencies, \* new_pred_latency of a miss; Never for BIG_LATENCY
    MaxRefusals,   \* bound: requests that caches do not take at once
    MaxMisses,     \* bound: misses that are reported
    MaxFlushes     \* bound: flushes of the whole core

Never == 99        \* TICK_T_MAX

(* deps are the older uops whose results it uses, lo and size its bytes in *)
(* memory, fused says whether it shares a slot with its neighbour, and     *)
(* mispred that the branch is predicted wrongly.                           *)
UopType == [mop : Nat \ {0}, deps : SUBSET (Nat \ {0}), lo : Nat, size : Nat,
            kind : {"alu", "branch", "nop", "load", "sta", "std",
                    "lfence", "sfence", "mfence_ld", "mfence_st"},
            fused : {"no", "head", "body"}, mispred : BOOLEAN]

ASSUME CoreAssumption ==
    /\ \A P \in Programs : \A i \in DOMAIN P :
           P[i] \in UopType /\ \A d \in P[i].deps : d < i
    /\ ROB_size > 1 /\ RS_size > 1 /\ LDQ_size > 0 /\ STQ_size > 0
    /\ DL1_latency > 1 /\ payload_depth > 0

VARIABLES prog,    \* the program, chosen at the start
          memdep,  \* the memory dependence predictor, chosen at the start
          core,    \* the state of the core, see TypeOK
          pc,      \* the stage that runs next
          left     \* what is left of the bounds

vars == <<prog, memdep, core, pc, left>>

-----------------------------------------------------------------------------
Uops == DOMAIN prog
Mop(u) == prog[u].mop
OfMop(m) == {u \in Uops : Mop(u) = m}
is_load(u) == prog[u].kind = "load"
is_sta(u) == prog[u].kind = "sta"
is_std(u) == prog[u].kind = "std"
is_lfence(u) == prog[u].kind \in {"lfence", "mfence_ld"}
is_sfence(u) == prog[u].kind \in {"sfence", "mfence_st"}
is_mfence(u) == prog[u].kind \in {"mfence_ld", "mfence_st"}
in_fusion(u) == prog[u].fused # "no"
is_fusion_head(u) == prog[u].fused = "head"
fusion_head(u) == IF prog[u].fused = "body" THEN u - 1 ELSE u
fusion_next(u) == IF is_fusion_head(u) THEN u + 1 ELSE 0
Slot(u) == {fusion_head(u), u, fusion_next(u)} \ {0}

(* Only these go through the reservation stations.                         *)
Executes(u) == prog[u].kind \in {"alu", "branch", "load", "sta", "std"}
FU_class(u) == IF prog[u].kind = "branch" THEN "alu" ELSE prog[u].kind
Classes == DOMAIN port_binding

hi(u) == prog[u].lo + prog[u].size - 1
Disjoint(s, u) == hi(s) < prog[u].lo \/ prog[s].lo > hi(u)
Covers(s, u) == prog[s].lo <= prog[u].lo /\ hi(s) >= hi(u)
SingleLine(u) == prog[u].lo \div LineSize = hi(u) \div LineSize

modinc(i, n) == (i + 1) % n
moddec(i, n) == (i - 1) % n
Least(S) == CHOOSE x \in S : \A y \in S : x <= y
Greatest(S) == CHOOSE x \in S : \A y \in S : x >= y

(* A uop that was only fetched.                                            *)
NewUop(u, spec) ==
    [allocated |-> FALSE, committed |-> FALSE, spec |-> spec, port |-> 0,
     itag |-> [d \in prog[u].deps |-> Never], ival |-> [d \in prog[u].deps |-> FALSE],
     otag |-> Never, ovalue_valid |-> FALSE, when_ready |-> 0,
     in_readyQ |-> FALSE, queued |-> FALSE,  \* the flag; a valid node is in the readyQ
     issued |-> FALSE, exec |-> FALSE, completed |-> FALSE,
     in_RS |-> FALSE, uops_in_RS |-> 0, full_fusion |-> FALSE,
     LDQ_index |-> -1, STQ_index |-> -1,
     translated |-> "unset",   \* when_addr_translated: TICK_T_MAX from the constructor
     missed |-> {}]            \* history: older stores it should have seen

NoLDQ == [uop |-> 0, addr_valid |-> FALSE, issued |-> FALSE, hit_in_STQ |-> FALSE,
          broadcast |-> FALSE, partial_forward |-> FALSE,
          first_requested |-> FALSE, last_requested |-> FALSE,
          first_arrived |-> FALSE, last_arrived |-> FALSE,
          store_color |-> 0, colored |-> FALSE]  \* the colored store has the same action_id

NoSTQ == [sta |-> 0, std |-> 0, seq |-> 0, fence |-> FALSE,
          addr_valid |-> FALSE, value_valid |-> FALSE,
          first_requested |-> FALSE, last_requested |-> FALSE,
          first_written |-> FALSE, last_written |-> FALSE,
          translated |-> FALSE, written |-> FALSE, next_load |-> 0]

Empty(n) == [i \in 1 .. n |-> 0]

InitCore ==
    [u |-> [u \in Uops |-> NewUop(u, FALSE)],
     pipe |-> [s \in 1 .. alloc_depth |-> <<>>], next |-> 1, spec |-> FALSE, drain |-> FALSE,
     port_loading |-> [p \in Ports |-> 0],
     ROB |-> <<>>, ROB_eff_num |-> 0, complete |-> [m \in {Mop(u) : u \in Uops} |-> 0],
     stop |-> FALSE, branches |-> 0,
     RS_num |-> 0, RS_eff_num |-> 0,
     LDQ |-> [i \in 0 .. LDQ_size - 1 |-> NoLDQ], LDQ_head |-> 0, LDQ_tail |-> 0, LDQ_num |-> 0,
     STQ |-> [i \in 0 .. STQ_size - 1 |-> NoSTQ], STQ_head |-> 0, STQ_tail |-> 0, STQ_num |-> 0,
     STQ_senior_head |-> 0, STQ_senior_num |-> 0, throttle |-> FALSE,
     payload |-> [p \in Ports |-> Empty(payload_depth)],
     FU |-> [p \in Ports |-> [k \in {k \in Classes : p \in Range(port_binding[k])} |->
                                  Empty(fu_latency[k])]],
     search |-> [p \in Range(port_binding["load"]) |-> Empty(DL1_latency - 1)],
     bypass |-> {}, scheduleable |-> [p \in Ports |-> [k \in Classes |-> 0]],
     executable |-> [p \in Ports |-> [k \in Classes |-> 0]],
     check_for_work |-> TRUE,
     jeclear |-> Empty(jeclear_delay), jeclear_in_flight |-> {},
     wrong |-> {Mop(u) : u \in {u \in Uops : prog[u].mispred}},
     lwt |-> {},
     requests |-> {},          \* of loads: <<uop, "tlb" | "first" | "last">>
     stores |-> {},            \* of stores: <<STQ index, "tlb" | "first" | "last">>
     failed |-> {}]            \* the assertions that failed

Fail(c, what) == [c EXCEPT !.failed = @ \cup {what}]
Check(c, cond, what) == IF cond THEN c ELSE Fail(c, what)

-----------------------------------------------------------------------------
(* The readyQ, and replay.                                                 *)

(* uop->exec.action_id = core->new_action_id()                             *)
new_action_id(c, u) ==
    LET Dead(s) == [i \in DOMAIN s |-> IF s[i] = u THEN -u ELSE s[i]]
    IN [c EXCEPT !.u[u].queued = FALSE,
                 !.payload = [p \in Ports |-> Dead(@[p])],
                 !.FU = [p \in Ports |-> [k \in DOMAIN @[p] |-> Dead(@[p][k])]],
                 !.search = [p \in DOMAIN @ |-> Dead(@[p])],
                 !.requests = {r \in @ : r[1] # u}]

insert_ready_uop(c, u) ==
    LET x == c.u[u]
        d == Check(c, ~x.completed /\ ~x.exec /\ ~x.issued /\ ~x.in_readyQ, "insert_ready_uop")
    IN [new_action_id(d, u) EXCEPT !.u[u].in_readyQ = TRUE, !.u[u].queued = TRUE]

(* The uops on the odep list of u.                                         *)
Odeps(c, u) == {d \in Uops : c.u[d].port # 0 /\ u \in prog[d].deps}

WhenReady(c, u) == Greatest({0} \cup {c.u[u].itag[d] : d \in prog[u].deps})

(* A tag arrives: the input tag of d from u is set to t, and d enters the  *)
(* readyQ when it has all its tags.                                        *)
Wake(c, d, u, t) ==
    LET e == [c EXCEPT !.u[d].itag[u] = t]
        w == WhenReady(e, d)
    IN IF w = Never THEN e ELSE [e EXCEPT !.u[d].when_ready = w]

(* Mutant: a uop with all its tags enters the readyQ only if it can go now.*)
WokenNow(c, d) == IF c.u[d].when_ready > 0 \/ WhenReady(c, d) = Never THEN c ELSE insert_ready_uop(c, d)
Woken(c, d) == IF WhenReady(c, d) = Never THEN c ELSE insert_ready_uop(c, d)
WokenOnce(c, d) == IF c.u[d].in_readyQ THEN c ELSE Woken(c, d)

(* u, not scheduled before, waits for its tags or enters the readyQ.       *)
InsertIfTagged(c, u) ==
    LET w == WhenReady(c, u)
    IN IF w = Never THEN c ELSE insert_ready_uop([c EXCEPT !.u[u].when_ready = w], u)

ForOdeps(c, u, Op(_, _)) == FoldSet(LAMBDA d, e : Op(e, d), c, Odeps(c, u))

(* Those that have issued, directly or not, on the word of r.              *)
IssuedAfter(c, r) ==
    LET f[d \in Uops] == \/ d = r
                         \/ /\ c.u[d].issued /\ c.u[d].port # 0
                            /\ \E p \in prog[d].deps : p >= r /\ f[p]
    IN {d \in Uops : d >= r /\ f[d]}

(* Takes u out of the payload pipe, the FUs and the readyQ.                *)
Unissue(c, u) ==
    LET P == c.payload[c.u[u].port]
        at == {i \in DOMAIN P : P[i] \in {u, -u}}
        e == [c EXCEPT
                !.u[u].issued = FALSE, !.u[u].exec = FALSE, !.u[u].completed = FALSE,
                !.u[u].otag = Never,
                !.payload[c.u[u].port] = IF at = {} THEN @ ELSE [@ EXCEPT ![Least(at)] = 0],
                !.LDQ = IF ~is_load(u) THEN @ ELSE [@ EXCEPT ![c.u[u].LDQ_index] =
                            [@ EXCEPT !.hit_in_STQ = FALSE, !.addr_valid = FALSE, !.issued = FALSE,
                                      !.first_requested = FALSE, !.last_requested = FALSE,
                                      !.first_arrived = FALSE, !.last_arrived = FALSE]]]
    IN [new_action_id(e, u) EXCEPT !.u[u].in_readyQ = FALSE]

(* The children of the uops of S lose the tags they have from them.        *)
TakeTags(c, S, children) ==
    [c EXCEPT !.u = [d \in Uops |-> IF d \notin children THEN @[d] ELSE
        [@[d] EXCEPT !.itag = [p \in DOMAIN @ |-> IF p \in S THEN Never ELSE @[p]]]]]

LeaveReadyQ(c, d) ==
    IF c.u[d].in_readyQ THEN [new_action_id(c, d) EXCEPT !.u[d].in_readyQ = FALSE] ELSE c

snatch_back(c, r) ==
    LET S == IssuedAfter(c, r)
        children == UNION {Odeps(c, u) : u \in S}
        squashed == FoldSet(LAMBDA u, e : Unissue(e, u), c, S)
    IN InsertIfTagged(FoldSet(LAMBDA d, e : LeaveReadyQ(e, d),
                              TakeTags(squashed, S, children), children), r)

(* The children of a load were woken up for nothing.                       *)
PutToSleep(c, u, unvalued) ==
    ForOdeps(c, u, LAMBDA e, d :
        snatch_back([e EXCEPT !.u[d].itag[u] = Never,
                              !.u[d].ival[u] = @ /\ ~unvalued], d))

-----------------------------------------------------------------------------
(* Recovery.                                                               *)

LDQ_squash(c, u) ==
    LET i == c.u[u].LDQ_index
    IN [Check(c, i >= 0 /\ c.LDQ[i].uop = u, "LDQ_squash")
           EXCEPT !.LDQ[i] = NoLDQ, !.LDQ_num = @ - 1, !.LDQ_tail = moddec(@, LDQ_size)]

(* The entry's action_id changes: accesses for it are ignored from now on. *)
NewStore(c, i) ==
    [c EXCEPT !.stores = {r \in @ : r[1] # i},
              !.LDQ = [j \in DOMAIN @ |-> IF @[j].store_color = i THEN [@[j] EXCEPT !.colored = FALSE]
                                          ELSE @[j]]]

STQ_squash_sta(c, u) ==
    LET i == c.u[u].STQ_index
    IN [NewStore(Check(c, i >= 0 /\ c.STQ[i].std = 0 /\ c.STQ[i].sta = u, "STQ_squash_sta"), i)
           EXCEPT !.STQ[i] = NoSTQ, !.STQ_num = @ - 1, !.STQ_senior_num = @ - 1,
                  !.STQ_tail = moddec(@, STQ_size)]

STQ_squash_std(c, u) ==
    LET i == c.u[u].STQ_index
    IN [Check(c, i >= 0 /\ c.STQ[i].std = u, "STQ_squash_std") EXCEPT !.STQ[i].std = 0]

RS_deallocate(c, u) ==
    LET d == IF in_fusion(u) /\ c.u[u].exec THEN c
             ELSE [c EXCEPT !.RS_eff_num = @ - 1,
                            !.u[fusion_head(u)].uops_in_RS = IF in_fusion(u) THEN @ - 1 ELSE @]
        e == Check(d, is_fusion_head(u) => d.u[u].uops_in_RS = 0, "RS_deallocate")
    IN [e EXCEPT !.RS_num = IF ~in_fusion(u) \/ is_fusion_head(u) THEN @ - 1 ELSE @,
                 !.u[u].in_RS = FALSE]

RS_squash(c, u) == IF c.u[u].in_RS THEN RS_deallocate(c, u) ELSE c

LSQ_squash(c, u) ==
    IF ~c.u[u].allocated THEN c
    ELSE CASE is_load(u) \/ is_lfence(u) -> LDQ_squash(c, u)
           [] is_std(u) -> STQ_squash_std(c, u)
           [] is_sta(u) \/ is_sfence(u) -> STQ_squash_sta(c, u)
           [] OTHER -> c

squash_uop(c, u) ==
    LET x == c.u[u]
        unloaded == [new_action_id(c, u) EXCEPT
                       !.port_loading = IF ~x.exec /\ x.port # 0 THEN [@ EXCEPT ![x.port] = @ - 1] ELSE @]
    IN [LSQ_squash(RS_squash(unloaded, u), u) EXCEPT
           !.u[u] = NewUop(u, FALSE),
           !.ROB_eff_num = IF x.allocated THEN @ - 1 ELSE @]

(* The whole slot of u, from its tail.                                     *)
squash_slot(c, u) ==
    IF in_fusion(u) THEN squash_uop(squash_uop(c, fusion_head(u) + 1), fusion_head(u))
    ELSE squash_uop(c, u)

(* Walks the ROB from the youngest slot to Mop m.                          *)
commit_recover(c, m) ==
    LET k == Greatest({0} \cup {i \in DOMAIN c.ROB : Mop(c.ROB[i]) = m})
        dead == SubSeq(c.ROB, k + 1, Len(c.ROB))
    IN [FoldLeft(squash_slot, c, Reverse(dead))
           EXCEPT !.ROB = SubSeq(@, 1, k), !.drain = @ \/ (drain_flush /\ dead # <<>>)]

alloc_recover(c, m) ==
    [c EXCEPT !.pipe = [s \in DOMAIN @ |-> SelectSeq(@[s], LAMBDA u : Mop(u) <= m)]]

(* Fetch starts again after Mop m; what was younger will be fetched anew.  *)
Refetch(c, m) ==
    LET dead == {u \in Uops : Mop(u) > m}
    IN [c EXCEPT !.next = IF dead = {} THEN Len(prog) + 1 ELSE Least(dead),
                 !.spec = c.u[Greatest(OfMop(m))].spec,
                 !.wrong = {n \in @ : n <= m} \cup {Mop(u) : u \in {u \in dead : prog[u].mispred}},
                 !.jeclear = [i \in DOMAIN @ |-> IF @[i] > m THEN 0 ELSE @[i]],
                 !.jeclear_in_flight = {n \in @ : n <= m},
                 !.complete = [n \in DOMAIN @ |-> IF n > m THEN 0 ELSE @[n]]]

Recover(c, m) == Refetch(alloc_recover(commit_recover(c, m), m), m)

(* Mutant: commit is not told of the recovery.                             *)
jeclear_unannounced(c, m) ==
    IF c.jeclear[1] # 0 /\ c.jeclear[1] <= m THEN c
    ELSE [c EXCEPT !.jeclear = [i \in DOMAIN @ |-> IF i = 1 THEN m ELSE IF @[i] = m THEN 0 ELSE @[i]]]

jeclear_enqueue(c, m) ==
    IF c.jeclear[1] # 0 /\ c.jeclear[1] <= m THEN c
    ELSE [c EXCEPT !.jeclear = [i \in DOMAIN @ |-> IF i = 1 THEN m ELSE IF @[i] = m THEN 0 ELSE @[i]],
                   !.jeclear_in_flight = @ \cup {m}]

pipe_recover(c, m) == IF jeclear_delay > 0 THEN jeclear_enqueue(c, m) ELSE Recover(c, m)

(* Squashes Mop m as well.  It cannot be the oldest.                       *)
pipe_flush(c, m) ==
    IF m = 1 \/ \A u \in OfMop(m - 1) : c.u[u].committed THEN Fail(c, "pipe_flush")
    ELSE pipe_recover([c EXCEPT !.wrong = @ \ {m - 1}], m - 1)

(* A load has read too early: the predictor learns, and it is flushed.     *)
Nuke(c, u) ==
    pipe_flush([c EXCEPT !.lwt = IF memdep = "lwt" THEN @ \cup {Mop(u)} ELSE @], Mop(u))

-----------------------------------------------------------------------------
(* Loads.                                                                  *)

(* History: the stores before u that u has not seen when it takes its      *)
(* value from store s, or from the cache for s = 0.  Stores whose STA has  *)
(* committed are not searched.                                             *)
Unseen(c, u, s) ==
    {c.STQ[i].seq : i \in {i \in DOMAIN c.STQ :
        /\ c.STQ[i].sta # 0 /\ ~c.STQ[i].fence
        /\ c.STQ[i].seq > s /\ c.STQ[i].seq < u
        /\ ~Disjoint(c.STQ[i].seq, u)}}

(* The value of u goes to d, which may have been scheduled already.        *)
Bypass(c, d, u) ==
    [IF c.u[d].itag[u] > 0 THEN WokenOnce(Wake(c, d, u, 0), d) ELSE c
        EXCEPT !.u[d].ival[u] = TRUE]

load_writeback(c, u) ==
    LET p == c.u[u].port
        d == [Check(c, ~c.u[u].completed, "load_writeback")
                 EXCEPT !.bypass = @ \cup {p}, !.u[u].ovalue_valid = TRUE,
                        !.u[u].completed = TRUE, !.u[u].otag = 0,
                        !.u[u].missed = Unseen(c, u, 0)]
    IN IF c.LDQ[c.u[u].LDQ_index].hit_in_STQ THEN c
       ELSE ForOdeps(d, u, LAMBDA e, o :
                Bypass(Check(e, ~e.u[o].ival[u], "load_writeback: ivalue_valid"), o, u))

all_arrived(l) == l.first_arrived /\ l.last_arrived

(* An access of load u returns: DL1_callback(), DL1_split_callback().      *)
DL1_callback(c, u, which) ==
    LET i == c.u[u].LDQ_index
        d == [c EXCEPT !.requests = @ \ {<<u, which>>},
                       !.LDQ[i].first_arrived = @ \/ which = "first",
                       !.LDQ[i].last_arrived = @ \/ which = "last"]
    IN IF c.u[u].translated = "done" /\ all_arrived(d.LDQ[i]) /\ ~d.LDQ[i].hit_in_STQ
       THEN load_writeback(d, u) ELSE d

(* Not reached, see FirstAccess.                                           *)
DTLB_callback(c, u) ==
    LET d == [Check(c, c.u[u].translated = "asked", "DTLB_callback")
                 EXCEPT !.requests = @ \ {<<u, "tlb">>}, !.u[u].translated = "done"]
        l == d.LDQ[c.u[u].LDQ_index]
    IN IF all_arrived(l) /\ ~l.hit_in_STQ THEN load_writeback(d, u) ELSE d

(* The cache reports a miss: the children are rescheduled for the latency  *)
(* of the next level, t.                                                   *)
load_miss_reschedule(c, u, t) ==
    LET l == c.LDQ[c.u[u].LDQ_index]
        d == PutToSleep([c EXCEPT !.u[u].otag = Never], u, FALSE)
        otag == IF t = Never THEN Never ELSE Greatest({0, t - payload_depth - 1})
    IN IF c.u[u].completed \/ ~l.broadcast \/ l.hit_in_STQ THEN c
       ELSE ForOdeps([d EXCEPT !.u[u].otag = otag], u, LAMBDA e, o :
                Woken(Wake(Check(e, ~e.u[o].in_readyQ, "load_miss_reschedule"), o, u, otag), o))

(* The load starts over: what the caches have answered is forgotten.       *)
Forget(c, i) ==
    [c EXCEPT !.LDQ[i] = [@ EXCEPT !.hit_in_STQ = FALSE,
                 !.first_requested = FALSE, !.last_requested = FALSE,
                 !.first_arrived = FALSE, !.last_arrived = FALSE]]

(* The load's children are put to sleep, once.                             *)
Silence(c, u, i) ==
    IF ~c.LDQ[i].broadcast THEN c
    ELSE [PutToSleep([c EXCEPT !.u[u].otag = Never, !.u[u].completed = FALSE], u, TRUE)
             EXCEPT !.LDQ[i].broadcast = FALSE]

Forward(c, u, i, s) ==
    LET d == [new_action_id(c, u) EXCEPT
                !.u[u].ovalue_valid = TRUE, !.u[u].completed = TRUE, !.u[u].exec = TRUE,
                !.u[u].otag = 0, !.u[u].missed = Unseen(c, u, s),
                !.LDQ[i].issued = TRUE, !.LDQ[i].hit_in_STQ = TRUE]
    IN ForOdeps(d, u, LAMBDA e, o : Bypass(e, o, u))

(* The store's data is not there.  The load stays issued, the STD will     *)
(* wake it up.                                                             *)
AwaitData(c, u, i) == Forget(new_action_id(Silence(c, u, i), u), i)

(* The store covers only part of the load, which polls until it is gone.   *)
AwaitStore(c, u, i) ==
    LET d == [c EXCEPT !.LDQ[i].partial_forward = TRUE]
        e == IF c.u[u].completed THEN Nuke(d, u) ELSE Silence(d, u, i)
    IN [Forget(new_action_id(Check(e, ~e.u[u].completed, "partial match"), u), i)
           EXCEPT !.LDQ[i].issued = FALSE, !.throttle = @ \/ throttle_partial]

(* The load leaves the search pipe: the youngest older store that is known *)
(* to overlap decides.                                                     *)
SearchSTQ(c, u) ==
    LET i == c.u[u].LDQ_index
        at(n) == (c.LDQ[i].store_color - n) % STQ_size
        older(n) == c.STQ[at(n)].sta # 0 /\ c.STQ[at(n)].sta < u
        hits == {n \in 0 .. c.STQ_senior_num - 1 :
                   /\ \A m \in 0 .. n : older(m)
                   /\ c.STQ[at(n)].addr_valid /\ ~Disjoint(c.STQ[at(n)].seq, u)}
        s == c.STQ[at(Least(hits))]
    IN CASE hits = {} -> c
         [] hits # {} /\ ~Covers(s.seq, u) -> AwaitStore(c, u, i)
         [] hits # {} /\ Covers(s.seq, u) ->
              IF c.u[u].completed THEN Nuke(c, u)
              ELSE IF s.value_valid THEN Forward(c, u, i, s.seq)
              ELSE AwaitData(c, u, i)

(* LDST_exec() before its step_dcaches().                                  *)
LDST_exec(c) ==
    FoldLeft(LAMBDA e, p :
                LET u == Last(e.search[p])
                    d == [e EXCEPT !.search[p] = <<0>> \o Front(@)]
                IN IF u > 0 THEN SearchSTQ(d, u) ELSE d,
             c, port_binding["load"])

-----------------------------------------------------------------------------
(* Issue of loads from the load queue.                                     *)

lookup(c, u, sta_unknown, conflict, partial) ==
    CASE memdep = "blind" -> TRUE
      [] memdep = "none" -> ~sta_unknown /\ ~partial
      [] memdep = "oracle" -> (~conflict /\ ~partial) \/ ~sta_unknown
      [] memdep = "lwt" -> Mop(u) \in c.lwt => ~sta_unknown

(* The older stores that a load looks at, from the youngest.  The walk     *)
(* ends before senior_head - 1, at once if the queue is full.              *)
Walked(c, u) ==
    LET at(n) == (c.LDQ[c.u[u].LDQ_index].store_color - n) % STQ_size
        going(n) == /\ modinc(at(n), STQ_size) # c.STQ_senior_head
                    /\ c.STQ[at(n)].seq < u
                    /\ Cardinality({m \in 0 .. n - 1 : ~c.STQ[at(m)].fence}) < c.STQ_senior_num
        steps == {n \in 0 .. STQ_size - 1 : \A m \in 0 .. n : going(m)}
    IN [n \in {n \in steps : ~c.STQ[at(n)].fence} |-> c.STQ[at(n)]]

OlderFence(c, u) ==
    \E j \in 0 .. LDQ_size - 1 : LET l == c.LDQ[j] IN
        l.uop # 0 /\ l.uop < u /\ is_lfence(l.uop) /\ ~c.u[l.uop].completed

(* [go: may the load issue?, partial: is it held by a partial match?]      *)
check_load_issue_conditions(c, u) ==
    LET W == Walked(c, u)
        conflicts == {n \in DOMAIN W : ~Disjoint(W[n].seq, u)}
        known == {n \in conflicts : W[n].addr_valid}
        partial(n) == ~Covers(W[n].seq, u)
        sta_unknown == \E n \in DOMAIN W : ~W[n].addr_valid
    IN IF OlderFence(c, u) THEN [go |-> FALSE, partial |-> FALSE]
       ELSE IF known # {} /\ partial(Least(known)) THEN [go |-> FALSE, partial |-> TRUE]
       ELSE [partial |-> FALSE,
             go |-> lookup(c, u, sta_unknown,
                           conflicts # {} /\ ~partial(Least(conflicts)),
                           conflicts # {} /\ partial(Least(conflicts)))]

(* A load that was put off starts: its children wake up again.             *)
Rebroadcast(c, u, i) ==
    LET otag == IF payload_depth < DL1_latency THEN DL1_latency - payload_depth ELSE 0
    IN IF c.LDQ[i].broadcast THEN c
       ELSE [ForOdeps([c EXCEPT !.u[u].otag = otag], u, LAMBDA e, o :
                IF e.u[o].exec THEN pipe_recover(e, Mop(u))
                ELSE WokenOnce(Wake(e, o, u, otag), o))
                EXCEPT !.LDQ[i].broadcast = TRUE]

(* The TLB is asked only if when_addr_translated is zero.  The constructor *)
(* of uop_t does not leave it so: loads are taken as translated.           *)
FirstAccess(c, u, i) ==
    LET ask == c.u[u].translated = "zero"
        d == [c EXCEPT
                !.u[u].translated = IF ask THEN "asked" ELSE "done",
                !.requests = @ \cup {<<u, "first">>} \cup (IF ask THEN {<<u, "tlb">>} ELSE {}),
                !.search[c.u[u].port][1] = u,
                !.LDQ[i].first_requested = TRUE]
    IN Rebroadcast(IF SingleLine(u)
                   THEN [d EXCEPT !.LDQ[i].last_requested = TRUE, !.LDQ[i].last_arrived = TRUE,
                                  !.LDQ[i].issued = TRUE]
                   ELSE d, u, i)

SplitAccess(c, u, i) ==
    [c EXCEPT !.requests = @ \cup {<<u, "last">>},
              !.LDQ[i].last_requested = TRUE, !.LDQ[i].issued = TRUE]

ScheduleFence(c, u, i) ==
    LET l == c.LDQ[i]
        s == c.STQ[l.store_color]
        older == \E j \in 0 .. LDQ_size - 1 :
                     c.LDQ[j].uop # 0 /\ c.LDQ[j].uop < u /\ ~c.u[c.LDQ[j].uop].completed
        waits == is_mfence(u) /\ \/ s.std # 0 /\ s.std < u
                                 \/ ~light_fence /\ l.colored
    IN IF c.u[u].completed \/ older \/ waits THEN c ELSE [c EXCEPT !.u[u].completed = TRUE]

(* refused are the accesses that a cache does not take in this cycle.      *)
ScheduleLoad(c0, u, i, refused) ==
    LET l == c0.LDQ[i]
        ok == check_load_issue_conditions(c0, u)
        c == [c0 EXCEPT !.LDQ[i].partial_forward = @ \/ ok.partial]
        first == /\ ~l.first_requested /\ <<u, "first">> \notin refused
                 /\ c.search[c.u[u].port][1] = 0
        d == IF first THEN FirstAccess(c, u, i) ELSE c
        m == d.LDQ[i]
    IN IF ~l.addr_valid \/ (l.partial_forward /\ c0.throttle) \/ l.issued THEN c0
       ELSE IF ~ok.go
       THEN Silence([c EXCEPT !.u[u].otag = Never, !.u[u].completed = FALSE,
                              !.LDQ[i].hit_in_STQ = FALSE], u, i)
       ELSE IF m.first_requested /\ ~m.last_requested /\ <<u, "last">> \notin refused
       THEN SplitAccess(d, u, i) ELSE d

LDQ_schedule(c, refused) ==
    FoldLeft(LAMBDA e, n :
                LET i == (c.LDQ_head + n - 1) % LDQ_size
                    u == e.LDQ[i].uop
                IN IF n > e.LDQ_num THEN e
                   ELSE IF is_lfence(u) THEN ScheduleFence(e, u, i)
                   ELSE ScheduleLoad(e, u, i, refused),
             c, [n \in 1 .. c.LDQ_num |-> n])

-----------------------------------------------------------------------------
(* Execution.                                                              *)

STQ_set_addr(c, u) ==
    LET i == c.u[u].STQ_index
    IN [Check(c, ~c.STQ[i].addr_valid, "STQ_set_addr") EXCEPT !.STQ[i].addr_valid = TRUE]

STQ_set_data(c, u) ==
    LET i == c.u[u].STQ_index
    IN [Check(c, ~c.STQ[i].value_valid, "STQ_set_data") EXCEPT !.STQ[i].value_valid = TRUE]

(* The bytes of store s as bits of the mask of store t.                    *)
Mask(s, t) == {b \in {a - prog[t].lo : a \in prog[s].lo .. hi(s)} : b >= 0}

(* Mutant: a load that has completed keeps its value.                      *)
ConflictIgnored(c, l, i) ==
    IF c.u[l].completed THEN c
    ELSE Silence(new_action_id(Forget([c EXCEPT !.LDQ[i].issued = FALSE], i), l), l, i)

(* Load l read too early if it has completed; if it has issued it starts   *)
(* over.                                                                   *)
Conflict(c, l, i) ==
    IF c.u[l].completed THEN Nuke(c, l)
    ELSE Silence(new_action_id(Forget([c EXCEPT !.LDQ[i].issued = FALSE], i), l), l, i)

(* One load of the walk of ST_ALU_exec().  mask are the bytes of store t   *)
(* that no younger store up to overwrite_index is known to overwrite; for  *)
(* a load at a lower address the code shifts mask, for good.               *)
DisturbLoad(w, i, t) ==
    LET c == w.c
        l == c.LDQ[i]
        younger == l.store_color # c.u[t].STQ_index
        n == IF younger THEN (l.store_color - w.overwrite_index) % STQ_size ELSE 0
        at(k) == (w.overwrite_index + k) % STQ_size
        over(k) == c.STQ[at(k)].addr_valid /\ ~Disjoint(c.STQ[at(k)].seq, t)
        after(k) == w.mask \ UNION {Mask(c.STQ[at(j)].seq, t) : j \in {x \in 1 .. k : over(x)}}
        mask == after(n)
        checked == Check(c, ~\E k \in 1 .. n : at(k) = c.STQ_tail /\ after(k - 1) # {}, "ST_ALU_exec")
        back == prog[t].lo - prog[l.uop].lo
        shifted == IF back > 0 THEN {b + back : b \in mask} ELSE mask
        reads == IF back > 0 THEN 0 .. prog[l.uop].size - 1 ELSE Mask(l.uop, t)
        overlap == l.addr_valid /\ l.issued /\ ~Disjoint(t, l.uop)
    IN CASE w.stop \/ l.uop = 0 \/ l.uop < t -> [w EXCEPT !.stop = TRUE]
         [] ~(w.stop \/ l.uop = 0 \/ l.uop < t) ->
              IF ~is_load(l.uop) THEN w
              ELSE IF younger /\ mask = {} THEN [w EXCEPT !.stop = TRUE, !.c = checked]
              ELSE [w EXCEPT !.mask = IF overlap THEN shifted ELSE mask,
                             !.overwrite_index = IF younger THEN l.store_color ELSE @,
                             !.c = IF overlap /\ reads \cap shifted # {}
                                   THEN Conflict(checked, l.uop, i) ELSE checked]

(* Store t has its address and its data: the loads after it are checked.   *)
ST_ALU_exec(c, u) ==
    LET s == c.STQ[c.u[u].STQ_index]
        start == [c |-> c, mask |-> 0 .. prog[s.seq].size - 1,
                  overwrite_index |-> c.u[u].STQ_index, stop |-> FALSE]
    IN FoldLeft(LAMBDA w, n : DisturbLoad(w, (s.next_load + n - 1) % LDQ_size, s.seq),
                start, [n \in 1 .. c.LDQ_num |-> n]).c

(* What the result of u does: a branch may have been mispredicted, a store *)
(* knows its address or its data.                                          *)
Resolve(c, u) ==
    CASE prog[u].kind = "branch" /\ Mop(u) \in c.wrong ->
             pipe_recover([c EXCEPT !.wrong = @ \ {Mop(u)}], Mop(u))
      [] is_sta(u) -> STQ_set_addr(c, u)
      [] is_std(u) -> STQ_set_data(c, u)
      [] OTHER -> c

CheckLoads(c, u) ==
    LET s == c.STQ[c.u[u].STQ_index]
    IN IF (is_sta(u) \/ is_std(u)) /\ s.addr_valid /\ s.value_valid THEN ST_ALU_exec(c, u) ELSE c

(* The result of u goes to the uops that wait for it.                      *)
SendResult(c, u) ==
    ForOdeps([Check(c, ~c.u[u].completed, "ALU_exec: when_completed") EXCEPT !.u[u].completed = TRUE], u,
        LAMBDA e, o :
            [Check(e, ~e.u[o].ival[u], "ALU_exec: ivalue_valid") EXCEPT !.u[o].ival[u] = TRUE])

(* u leaves its functional unit.                                           *)
Completes(c, u) ==
    IF is_load(u) THEN [c EXCEPT !.LDQ[c.u[u].LDQ_index].addr_valid = TRUE]
    ELSE SendResult(CheckLoads(Resolve([c EXCEPT !.u[u].ovalue_valid = TRUE], u), u), u)

(* The last stage of a functional unit, then its other stages.             *)
StepFU(c, p, k) ==
    LET P == c.FU[p][k]
        n == fu_latency[k]
        u == P[n]
        needs_bypass == u > 0 /\ prog[u].kind = "alu"
        stuck == needs_bypass /\ p \in c.bypass
        leave == [c EXCEPT !.FU[p][k][n] = 0,
                           !.bypass = IF needs_bypass THEN @ \cup {p} ELSE @]
        d == IF u = 0 \/ stuck THEN c ELSE IF u < 0 THEN leave ELSE Completes(leave, u)
        move(Q, j) == IF Q[j] = 0 THEN [Q EXCEPT ![j] = Q[j - 1], ![j - 1] = 0] ELSE Q
    IN [d EXCEPT !.FU[p][k] = FoldLeft(move, @, [j \in 1 .. n - 1 |-> n + 1 - j])]

(* u cannot execute: an input or the unit is missing.                      *)
Replay(c, u) ==
    LET d == snatch_back(c, u)
    IN [d EXCEPT !.u[u].when_ready = IF @ = 0 THEN 1 ELSE @]

Execute(c, u, p) ==
    LET k == FU_class(u)
        h == fusion_head(u)
        d == IF in_fusion(u) THEN [c EXCEPT !.u[h].uops_in_RS = @ - 1] ELSE c
        last == in_fusion(u) => d.u[h].uops_in_RS = 0
        e == Check(d, d.u[u].in_RS, "ALU_exec: RS_index")
    IN [e EXCEPT !.RS_num = IF last THEN @ - 1 ELSE @,
                 !.u = [x \in Uops |-> [@[x] EXCEPT !.in_RS = @ /\ ~(last /\ x \in Slot(u)),
                                                    !.exec = @ \/ x = u]],
                 !.RS_eff_num = @ - 1,
                 !.port_loading[p] = @ - 1,
                 !.FU[p][k][1] = u,
                 !.executable[p][k] = issue_rate[k]]

(* The last stage of a payload pipe, then its other stages.                *)
StepPayload(c, p) ==
    LET u == c.payload[p][payload_depth]
        k == FU_class(u)
        gone == [c EXCEPT !.payload[p][payload_depth] = 0]
        ready == \A d \in prog[u].deps : c.u[u].ival[d]
        d == IF u <= 0 THEN gone
             ELSE IF ready /\ c.FU[p][k][1] = 0 /\ c.executable[p][k] = 0
             THEN Execute(gone, u, p) ELSE Replay(gone, u)
    IN [d EXCEPT !.payload[p] = [j \in DOMAIN @ |-> IF j = 1 THEN 0 ELSE @[j - 1]]]

PipesEmpty(c) ==
    \A p \in Ports : /\ \A j \in DOMAIN c.payload[p] : c.payload[p][j] = 0
                     /\ \A k \in DOMAIN c.FU[p] : \A j \in DOMAIN c.FU[p][k] : c.FU[p][k][j] = 0

ClassOrder == <<"alu", "load", "sta", "std">>
PortOrder == [p \in 1 .. Cardinality(Ports) |-> p]

ALU_exec(c) ==
    LET units(e, p) == FoldLeft(LAMBDA f, k : IF k \in DOMAIN f.FU[p] THEN StepFU(f, p, k) ELSE f,
                                e, ClassOrder)
    IN IF ~c.check_for_work THEN c
       ELSE [FoldLeft(StepPayload, FoldLeft(units, c, PortOrder), PortOrder)
                EXCEPT !.check_for_work = ~PipesEmpty(c)]

(* u is sent to its port and its tag to its children.                      *)
Issue(c, u, p) ==
    LET k == FU_class(u)
        otag == fu_latency[k] + IF is_load(u) THEN DL1_latency ELSE 0
        d == [c EXCEPT !.payload[p][1] = u, !.check_for_work = TRUE,
                       !.u[u].issued = TRUE, !.u[u].otag = otag,
                       !.u[u].in_readyQ = FALSE, !.u[u].queued = FALSE,
                       !.scheduleable[p][k] = issue_rate[k],
                       !.LDQ = IF ~is_load(u) THEN @
                               ELSE [@ EXCEPT ![c.u[u].LDQ_index].broadcast = TRUE]]
    IN ForOdeps(d, u, LAMBDA e, o : Woken(Wake(e, o, u, otag), o))

(* The oldest uop that can go, one per port.                               *)
RS_schedule(c) ==
    LET ready(e, p) == {u \in Uops : LET x == e.u[u] IN
            /\ x.queued /\ x.port = p /\ x.when_ready = 0
            /\ e.scheduleable[p][FU_class(u)] = 0
            /\ in_fusion(u) => e.u[fusion_head(u)].full_fusion}
        pick(e, p) == IF e.payload[p][1] = 0 /\ ready(e, p) # {}
                      THEN Issue(e, Least(ready(e, p)), p) ELSE e
    IN FoldLeft(pick, c, PortOrder)

-----------------------------------------------------------------------------
(* Commit.                                                                 *)

LDQ_deallocate(c, u) ==
    [new_action_id(c, u) EXCEPT !.LDQ[c.LDQ_head].uop = 0, !.LDQ_num = @ - 1,
                                !.LDQ_head = modinc(@, LDQ_size), !.u[u].LDQ_index = -1]

(* Mutant: loads with partial matches stay throttled.                      *)
STQ_deallocate_senior_throttled(c) ==
    LET i == c.STQ_senior_head
    IN IF ~(c.STQ[i].written /\ c.STQ[i].translated) THEN c
       ELSE [NewStore(c, i) EXCEPT
                !.STQ[i] = [@ EXCEPT !.written = FALSE, !.translated = FALSE,
                                     !.first_requested = FALSE, !.last_requested = FALSE],
                !.STQ_senior_head = modinc(@, STQ_size), !.STQ_senior_num = @ - 1]

(* A store that both caches have finished, or a fence, leaves the queue.   *)
STQ_deallocate_senior(c) ==
    LET i == c.STQ_senior_head
    IN IF ~(c.STQ[i].written /\ c.STQ[i].translated) THEN c
       ELSE [NewStore(c, i) EXCEPT
                !.STQ[i] = [@ EXCEPT !.written = FALSE, !.translated = FALSE,
                                     !.first_requested = FALSE, !.last_requested = FALSE],
                !.STQ_senior_head = modinc(@, STQ_size), !.STQ_senior_num = @ - 1,
                !.throttle = FALSE]

(* Gone from the queue of uops; stop says that the uop has to wait.        *)
LeaveSTQ(c, i) ==
    [c EXCEPT !.STQ[i].std = 0, !.STQ_num = @ - 1, !.STQ_head = modinc(@, STQ_size)]

STQ_deallocate_fence(c, u) ==
    LET i == c.STQ_senior_head
        l == c.LDQ[c.LDQ_head].uop
        waits == is_mfence(u) /\ c.LDQ_num > 0
                   /\ (l < u - 1 \/ (is_lfence(l) /\ l < u /\ ~c.u[l].completed))
    IN IF c.u[u].STQ_index # i \/ waits THEN [c EXCEPT !.stop = TRUE]
       ELSE LeaveSTQ([c EXCEPT !.STQ[i].written = TRUE, !.STQ[i].translated = TRUE,
                               !.STQ[i].sta = 0], i)

(* The store goes to the caches, in two parts if it crosses a line.        *)
STQ_deallocate_std(c, u, refused) ==
    LET i == c.STQ_head
        first == [c EXCEPT
                    !.STQ[i] = [@ EXCEPT !.written = FALSE, !.translated = FALSE, !.first_requested = TRUE,
                                         !.last_requested = @ \/ SingleLine(u),
                                         !.last_written = @ \/ SingleLine(u)],
                    !.stores = @ \cup {<<c.u[u].STQ_index, "first">>, <<c.u[u].STQ_index, "tlb">>}]
        d == IF c.STQ[i].first_requested THEN c ELSE first
        e == IF d.STQ[i].last_requested THEN d
             ELSE [d EXCEPT !.STQ[i].last_requested = TRUE,
                            !.stores = @ \cup {<<c.u[u].STQ_index, "last">>}]
    IN CASE is_sfence(u) -> STQ_deallocate_fence(c, u)
         [] ~is_sfence(u) /\ "first" \in refused -> [c EXCEPT !.stop = TRUE]
         [] ~is_sfence(u) /\ "first" \notin refused ->
              IF ~d.STQ[i].last_requested /\ "last" \in refused THEN [d EXCEPT !.stop = TRUE]
              ELSE LeaveSTQ(e, i)

(* The whole Mop has been committed.                                       *)
Retire(c, m) ==
    IF \E x \in OfMop(m) : prog[x].kind = "branch" THEN [c EXCEPT !.branches = @ + 1] ELSE c

CommitUop(c, u, refused) ==
    LET d == CASE is_load(u) \/ is_lfence(u) -> LDQ_deallocate(c, u)
               [] is_sta(u) -> [c EXCEPT !.STQ[c.STQ_head].sta = 0]
               [] is_std(u) \/ is_sfence(u) -> STQ_deallocate_std(c, u, refused)
               [] OTHER -> c
        e == Check(d, d.u[u].completed /\ d.u[u].exec, "commit")
        tail == fusion_next(u)
        f == [e EXCEPT !.ROB = IF tail = 0 THEN Tail(@) ELSE [@ EXCEPT ![1] = tail],
                       !.ROB_eff_num = @ - 1,
                       !.u[u].committed = TRUE]
    IN IF d.stop THEN d
       ELSE IF \E x \in OfMop(Mop(u)) : x > u THEN f ELSE Retire(f, Mop(u))

(* The oldest uop commits when all uops of its Mop have completed.         *)
CommitOldest(c, refused) ==
    LET u == c.ROB[1]
        m == Mop(u)
        uops == SetToSortSeq(OfMop(m), LAMBDA x, y : x < y)
        done == Greatest({n \in c.complete[m] .. Len(uops) :
                    \A k \in c.complete[m] + 1 .. n : c.u[uops[k]].completed})
        d == [Check(c, ~c.u[u].spec, "commit: spec_mode") EXCEPT !.complete[m] = done]
    IN IF \/ c.stop \/ c.ROB = <<>>
          \/ m \in c.jeclear_in_flight
          \/ /\ branch_limit > 0 /\ c.branches >= branch_limit
             /\ \E x \in OfMop(m) : prog[x].kind = "branch"
       THEN [c EXCEPT !.stop = TRUE]
       ELSE IF done < Len(uops) THEN [d EXCEPT !.stop = TRUE]
       ELSE CommitUop(d, u, refused)

(* A fused uop that is not the tail does not count toward the width.       *)
commit_step(c, refused) ==
    LET slots == [n \in 1 .. commit_width |-> n]
        d == FoldLeft(LAMBDA e, n : STQ_deallocate_senior(e), c, slots)
        slot(e, n) == LET f == CommitOldest(e, refused)
                      IN IF f.stop \/ Len(f.ROB) < Len(e.ROB) THEN f ELSE CommitOldest(f, refused)
    IN [FoldLeft(slot, d, slots) EXCEPT !.stop = FALSE, !.branches = 0]

STQ_squash_senior(c) ==
    FoldLeft(LAMBDA e, n : [NewStore(e, e.STQ_senior_head) EXCEPT
                 !.STQ[e.STQ_senior_head] = NoSTQ,
                 !.STQ_head = IF @ = e.STQ_senior_head /\ e.STQ_num > 0 THEN modinc(@, STQ_size) ELSE @,
                 !.STQ_num = IF e.STQ_head = e.STQ_senior_head /\ @ > 0 THEN @ - 1 ELSE @,
                 !.STQ_senior_head = modinc(@, STQ_size), !.STQ_senior_num = @ - 1],
             c, [n \in 1 .. c.STQ_senior_num |-> n])

(* core_commit_DPM_t::recover() and the other stages': nothing is left.    *)
RecoverAll(c) ==
    LET d == STQ_squash_senior(FoldLeft(squash_slot, c, Reverse(c.ROB)))
        e == Check(d, d.STQ_senior_num = 0 /\ d.STQ_num = 0 /\ d.LDQ_num = 0 /\ d.RS_num = 0,
                   "recover_check_assertions")
        fed == UNION {OfMop(Mop(u)) : u \in {u \in Uops : u < c.next /\ ~c.u[u].spec}}
    IN [e EXCEPT !.ROB = <<>>, !.pipe = [s \in DOMAIN @ |-> <<>>],
                 !.next = Cardinality(fed) + 1, !.spec = FALSE, !.wrong = @ \ {Mop(u) : u \in fed},
                 !.jeclear = [i \in DOMAIN @ |-> 0], !.jeclear_in_flight = {},
                 !.u = [u \in Uops |-> [NewUop(u, FALSE) EXCEPT !.committed = u \in fed]]]

-----------------------------------------------------------------------------
(* Allocation.                                                             *)

is_senior_STQ_entry_valid(c, i) ==
    LET s == c.STQ[i] IN s.sta # 0 \/ s.std # 0 \/ s.first_requested \/ s.last_requested

LDQ_insert(c, u) ==
    LET color == moddec(c.STQ_tail, STQ_size)
    IN [c EXCEPT !.LDQ[c.LDQ_tail] = [NoLDQ EXCEPT !.uop = u, !.store_color = color,
                                         !.colored = is_senior_STQ_entry_valid(c, color)],
                 !.u[u].LDQ_index = c.LDQ_tail,
                 !.LDQ_num = @ + 1, !.LDQ_tail = modinc(@, LDQ_size)]

STQ_insert_sta(c, u) ==
    [NewStore(c, c.STQ_tail) EXCEPT
        !.STQ[c.STQ_tail] = [NoSTQ EXCEPT !.sta = u, !.seq = u, !.fence = is_sfence(u),
                                          !.next_load = c.LDQ_tail],
        !.u[u].STQ_index = c.STQ_tail,
        !.STQ_num = @ + 1, !.STQ_senior_num = @ + 1, !.STQ_tail = modinc(@, STQ_size)]

STQ_insert_std(c, u) ==
    LET i == moddec(c.STQ_tail, STQ_size)
    IN [Check(c, c.STQ[i].sta # 0 /\ Mop(c.STQ[i].sta) = Mop(u), "STQ_insert_std")
           EXCEPT !.STQ[i].std = u, !.u[u].STQ_index = i]

RS_insert(c, u) ==
    LET h == fusion_head(u) IN
    [c EXCEPT !.RS_num = IF h = u THEN @ + 1 ELSE @,
              !.RS_eff_num = @ + 1,
              !.u[u].in_RS = TRUE,
              !.u[h].uops_in_RS = IF in_fusion(u) THEN @ + 1 ELSE @,
              !.u[h].full_fusion = h # u]

(* The operands that are there, and the tags of the others.                *)
ReadOperands(c, u) ==
    LET gone(d) == c.u[d].committed
    IN InsertIfTagged([c EXCEPT
           !.u[u].itag = [d \in DOMAIN @ |-> IF gone(d) THEN 0 ELSE c.u[d].otag],
           !.u[u].ival = [d \in DOMAIN @ |-> gone(d) \/ c.u[d].ovalue_valid]], u)

(* The least loaded port, the first of them.                               *)
BindPort(c, u) ==
    LET B == port_binding[FU_class(u)]
    IN B[Least({j \in DOMAIN B : \A k \in DOMAIN B : c.port_loading[B[j]] <= c.port_loading[B[k]]})]

AllocUop(c, u) ==
    LET stalled == \/ Len(c.ROB) >= ROB_size
                   \/ (is_load(u) \/ is_lfence(u)) /\ c.LDQ_num >= LDQ_size
                   \/ (is_sta(u) \/ is_sfence(u)) /\ c.STQ_senior_num >= STQ_size
                   \/ Executes(u) /\ c.RS_num >= RS_size
        placed == [c EXCEPT !.ROB = IF fusion_head(u) = u THEN Append(@, u) ELSE @,
                            !.ROB_eff_num = @ + 1, !.u[u].allocated = TRUE]
        queued == CASE is_load(u) \/ is_lfence(u) -> LDQ_insert(placed, u)
                    [] is_sta(u) \/ is_sfence(u) -> STQ_insert_sta(placed, u)
                    [] is_std(u) -> STQ_insert_std(placed, u)
                    [] OTHER -> placed
        p == BindPort(c, u)
        bound == [queued EXCEPT !.u[u].port = p, !.port_loading[p] = @ + 1]
    IN IF c.stop \/ c.u[u].allocated THEN c
       ELSE IF stalled THEN [c EXCEPT !.stop = TRUE]
       ELSE IF Executes(u) THEN ReadOperands(RS_insert(bound, u), u)
       ELSE [queued EXCEPT !.u[u].issued = TRUE, !.u[u].exec = TRUE, !.u[u].completed = ~is_lfence(u)]

(* One slot of the last stage of the alloc pipe.                           *)
AllocSlot(c, u) ==
    LET draining == drain_flush /\ c.drain
        d == [c EXCEPT !.drain = @ /\ ~drain_flush]
        e == AllocUop(d, u)
        f == IF is_fusion_head(u) THEN AllocUop(e, u + 1) ELSE e
    IN IF c.stop \/ (draining /\ c.ROB # <<>>) THEN [c EXCEPT !.stop = TRUE]
       ELSE IF f.stop THEN f ELSE [f EXCEPT !.pipe[alloc_depth] = Tail(@)]

Shuffle(c) ==
    FoldLeft(LAMBDA e, s : IF e.pipe[s] = <<>>
                           THEN [e EXCEPT !.pipe[s] = e.pipe[s - 1], !.pipe[s - 1] = <<>>] ELSE e,
             c, [n \in 1 .. alloc_depth - 1 |-> alloc_depth + 1 - n])

(* The next slot from the uop queue.  What follows a wrong prediction is   *)
(* on the wrong path.                                                      *)
Fill(c) ==
    LET u == c.next IN
    IF u > Len(prog) THEN c
    ELSE [c EXCEPT !.pipe[1] = Append(@, u),
                   !.u = [x \in Uops |-> IF x \in Slot(u) THEN NewUop(x, c.spec) ELSE @[x]],
                   !.spec = @ \/ \E x \in Slot(u) : prog[x].kind = "branch" /\ Mop(x) \in c.wrong,
                   !.next = IF is_fusion_head(u) THEN @ + 2 ELSE @ + 1]

alloc_step(c) ==
    LET d == [FoldLeft(AllocSlot, c, c.pipe[alloc_depth]) EXCEPT !.stop = FALSE]
        e == Shuffle(d)
    IN IF e.pipe[1] # <<>> THEN e
       ELSE FoldLeft(LAMBDA f, n : Fill(f), e, [n \in 1 .. alloc_width |-> n])

(* pre_fetch(): the jeclear that has arrived; and the cycle ends.          *)
pre_fetch(c) ==
    LET m == c.jeclear[jeclear_delay]
        d == IF jeclear_delay = 0 \/ m = 0 THEN c
             ELSE [Recover(c, m) EXCEPT !.jeclear_in_flight = @ \ {m}]
        down(t) == IF t \in {0, Never} THEN t ELSE t - 1
    IN [d EXCEPT !.jeclear = [i \in DOMAIN @ |-> IF i = 1 THEN 0 ELSE @[i - 1]],
                 !.bypass = {},
                 !.scheduleable = [p \in Ports |-> [k \in Classes |-> down(@[p][k])]],
                 !.executable = [p \in Ports |-> [k \in Classes |-> down(@[p][k])]],
                 !.u = [u \in Uops |->
                          [@[u] EXCEPT !.itag = [x \in DOMAIN @ |-> down(@[x])],
                                       !.otag = down(@), !.when_ready = down(@)]]]
-----------------------------------------------------------------------------
(* A cycle, in the order of sim_main_slave_pre_pin().                      *)

Init ==
    /\ prog \in Programs /\ memdep \in Memdeps
    /\ core = InitCore
    /\ pc = "mem"
    /\ left = [refusals |-> MaxRefusals, misses |-> MaxMisses, flushes |-> MaxFlushes]

Stage(from, to, c) == pc = from /\ pc' = to /\ core' = c /\ UNCHANGED <<prog, memdep>>

SearchStage == Stage("mem", "caches", LDST_exec(core)) /\ UNCHANGED left

Searching(c, u) == \E p \in DOMAIN c.search : u \in Range(c.search[p])

(* A TLB or a cache answers a load.                                        *)
AnswerLoad(u, which) ==
    /\ <<u, which>> \in core.requests
    /\ which # "tlb" => core.u[u].translated = "done" /\ ~Searching(core, u)
    /\ Stage("caches", "caches", IF which = "tlb" THEN DTLB_callback(core, u)
                                 ELSE DL1_callback(core, u, which))
    /\ UNCHANGED left

(* A TLB or a cache answers a store, with the bytes that it has written.   *)
store_dl1_callback(c, i, which) ==
    LET s == [c.STQ[i] EXCEPT !.translated = @ \/ which = "tlb",
                              !.first_written = @ \/ which = "first",
                              !.last_written = @ \/ which = "last"]
    IN [c EXCEPT !.stores = @ \ {<<i, which>>},
                 !.STQ[i] = [s EXCEPT !.written = @ \/ (which # "tlb" /\ s.first_written /\ s.last_written)]]

AnswerStore(i, which) ==
    /\ <<i, which>> \in core.stores
    /\ which # "tlb" => core.STQ[i].translated
    /\ Stage("caches", "caches", store_dl1_callback(core, i, which))
    /\ UNCHANGED left

Answer == \E r \in core.requests \cup core.stores : AnswerLoad(r[1], r[2]) \/ AnswerStore(r[1], r[2])

(* The DL1 reports that the access of u will take t more cycles.           *)
Miss(u, t) ==
    /\ left.misses > 0
    /\ <<u, "first">> \in core.requests /\ core.u[u].translated = "done"
    /\ Stage("caches", "caches", load_miss_reschedule(core, u, t))
    /\ left' = [left EXCEPT !.misses = @ - 1]

EndCaches == Stage("caches", "commit", core) /\ UNCHANGED left

(* Caches refuse some accesses, MaxRefusals times.                         *)
Refuse(refused) ==
    /\ Cardinality(refused) <= left.refusals
    /\ left' = [left EXCEPT !.refusals = @ - Cardinality(refused)]

CommitStage ==
    \E refused \in SUBSET {"first", "last"} :
        Refuse(refused) /\ Stage("commit", "alu", commit_step(core, refused))

ALUStage == Stage("alu", "ldq", ALU_exec(core)) /\ UNCHANGED left

Asking(c) == {c.LDQ[i].uop : i \in {i \in DOMAIN c.LDQ : c.LDQ[i].addr_valid /\ ~c.LDQ[i].issued}} \ {0}

LDQStage ==
    \E refused \in SUBSET (Asking(core) \X {"first", "last"}) :
        Refuse(refused) /\ Stage("ldq", "rs", LDQ_schedule(core, refused))

RSStage == Stage("rs", "alloc", RS_schedule(core)) /\ UNCHANGED left

AllocStage == Stage("alloc", "fetch", alloc_step(core)) /\ UNCHANGED left

FetchStage == Stage("fetch", "mem", pre_fetch(core)) /\ UNCHANGED left

(* sim_drain_pipe(): the core is taken from its thread.                    *)
FlushCore ==
    /\ left.flushes > 0
    /\ Stage("mem", "mem", RecoverAll(core))
    /\ left' = [left EXCEPT !.flushes = @ - 1]

Next ==
    \/ SearchStage \/ Answer \/ EndCaches
    \/ \E u \in Uops, t \in MissLatencies : Miss(u, t)
    \/ CommitStage \/ ALUStage \/ LDQStage \/ RSStage \/ AllocStage \/ FetchStage \/ FlushCore

Spec == Init /\ [][Next]_vars

(* Cycles go on, and while accesses are under way caches answer them.      *)
FairSpec ==
    /\ Spec
    /\ []<>(pc = "fetch") /\ []<>(pc = "mem")
    /\ []<>(core.requests \cup core.stores = {}) \/ []<><<Answer>>_vars

-----------------------------------------------------------------------------
\* No assertion of the three stages fails: a uop is not inserted twice in the
\* readyQ, not given a value twice, does not complete twice, has its RS entry when
\* it executes, and what commits has executed on the right path.
NoAbort == core.failed = {}

Live == {u \in Uops : core.u[u].allocated /\ ~core.u[u].committed}
InPipes(u) ==
    \E p \in Ports : \/ u \in Range(core.payload[p])
                     \/ \E k \in DOMAIN core.FU[p] : u \in Range(core.FU[p][k])

\* The counters of the stages are what their queues hold, through squashes,
\* partial commits of a fused slot and flushes: the ROB and the load and store
\* queues are in age order without gaps, no RS entry or port load is leaked.
Accounted ==
    LET c == core
        inROB == UNION {IF is_fusion_head(c.ROB[i]) THEN Slot(c.ROB[i]) ELSE {c.ROB[i]} : i \in DOMAIN c.ROB}
        loads == [n \in 0 .. c.LDQ_num - 1 |-> c.LDQ[(c.LDQ_head + n) % LDQ_size].uop]
        stores == [n \in 0 .. c.STQ_num - 1 |-> c.STQ[(c.STQ_head + n) % STQ_size].seq]
        Ordered(q) == \A i, j \in DOMAIN q : i < j => q[i] < q[j]
    IN  /\ inROB \cap Live = {u \in Live : Len(c.ROB) > 0 /\ u >= c.ROB[1]}
        /\ c.ROB_eff_num = Cardinality(Live) /\ Len(c.ROB) <= ROB_size /\ Ordered(c.ROB)
        /\ Range(loads) = {u \in Live : is_load(u) \/ is_lfence(u)} /\ Ordered(loads)
        /\ Range(stores) \cap Live = {u \in Live : is_sta(u) \/ is_sfence(u)} /\ Ordered(stores)
        /\ (c.STQ_head - c.STQ_senior_head) % STQ_size = (c.STQ_senior_num - c.STQ_num) % STQ_size
        /\ c.STQ_num <= c.STQ_senior_num /\ c.STQ_senior_num <= STQ_size
        /\ c.RS_eff_num = Cardinality({u \in Live : Executes(u) /\ ~c.u[u].exec})
        /\ c.RS_num = Cardinality({fusion_head(u) : u \in {u \in Live : c.u[u].in_RS}})
        /\ \A p \in Ports : c.port_loading[p] =
               Cardinality({u \in Live : c.u[u].port = p /\ ~c.u[u].exec})

\* A wakeup is not lost and not doubled: a uop that waits in the RS with all its
\* tags is in the readyQ, and one with a tag missing is not; an issued uop is on
\* its way through the pipes, and these are stepped (check_for_work).
WakeupKept ==
    /\ \A u \in Live : Executes(u) /\ ~core.u[u].issued =>
         /\ core.u[u].queued = core.u[u].in_readyQ
         /\ core.u[u].queued <=> WhenReady(core, u) # Never
    /\ \A u \in Live : Executes(u) /\ core.u[u].issued /\ ~core.u[u].completed /\ ~is_load(u) => InPipes(u)
    /\ ~PipesEmpty(core) => core.check_for_work

\* What the stages keep about a uop in several places agrees.
Bookkeeping == Accounted /\ WakeupKept

\* A load that commits has the value of the youngest older store to its bytes, if
\* that store had not committed when the load completed: the search of the STQ and
\* the check by later stores leave no gap between them.  A load that starts below the
\* store it overlaps is not among the programs: ST_ALU_exec() then shifts
\* overwrite_mask in place and loses what it knew of the bytes between.
LoadsOrdered == \A u \in Uops : core.u[u].committed => core.u[u].missed = {}

\* Every uop commits in the end and every store leaves the queue: replay,
\* rescheduling and flushes do not go on forever.
Drains == <>[](core.STQ_senior_num = 0 /\ \A u \in Uops : core.u[u].committed)
=============================================================================
