---------------------------- MODULE InOrderCore ----------------------------
(***************************************************************************)
(* The back end of the in-order core: alloc-IO-DPM.cpp, exec-IO-DPM.cpp    *)
(* and commit-IO-DPM.cpp.  Uops enter a port with the rest of their fused  *)
(* slot, go through a payload pipe of three stages, and leave it for a     *)
(* functional unit or straight for the pre-commit pipe.  There is no       *)
(* scoreboard: can_issue_IO() looks at everything that is under way to     *)
(* decide whether a uop may go on without overtaking an older one.         *)
(*                                                                         *)
(* As in OutOfOrderCore the core is one record, every function of the code *)
(* an operator from core to core, and times are the cycles that remain.    *)
(* recover() takes squashed uops out of payload pipes and units, so only   *)
(* the search pipe and the requests to caches can meet an old action_id:   *)
(* new_action_id() removes those.  Input tags are left out, nothing waits  *)
(* for them here; every store in the STQ has its address, so each of the   *)
(* memory dependence predictors lets every load go.  Loads never ask the   *)
(* DTLB: when_addr_translated starts as TICK_T_MAX, not as the 0 that      *)
(* LDQ_schedule() compares it with.  The watchdog and HELIX are left out.  *)
(***************************************************************************)
EXTENDS Integers, Sequences, FiniteSets, SequencesExt

CONSTANTS
    Programs,      \* programs, sequences of uops, see UopType
    LineSize,      \* bytes of a DL1 line
    ROB_size, LDQ_size, STQ_size,
    NPorts,        \* num_exec_ports
    port_binding,  \* [kind -> set of ports], for the kinds that need a unit
    fu_latency, issue_rate,   \* [kind -> Nat], for the kinds that go to a unit
    DL1_latency,
    alloc_width, alloc_depth, commit_width, pre_commit_depth,
    branch_limit,  \* 0: none
    Delays,        \* values of jeclear_delay, one is chosen at the start
    throttle_partial,
    LateAnswers,   \* may the DL1 answer a load that waited for a store only
                   \* after the load has asked again?
    MissLatencies, \* new_pred_latency of a miss; Never for BIG_LATENCY
    MaxRefusals,   \* bound: requests that caches do not take at once
    MaxMisses,     \* bound: misses that are reported
    MaxFlushes     \* bound: flushes of the whole core

Never == 99        \* TICK_T_MAX
Ports == 1 .. NPorts
payload_depth == 3 \* step() asserts it

(* head is the first uop of the fused slot that this one is in.            *)
UopType == [mop : Nat \ {0}, deps : SUBSET (Nat \ {0}), lo : Nat, size : Nat,
            kind : {"alu", "mul", "branch", "nop", "agen", "load", "sta", "std"},
            head : Nat \ {0}, mispred : BOOLEAN]

ASSUME InOrderAssumption ==
    /\ \A P \in Programs : \A i \in DOMAIN P :
           /\ P[i] \in UopType /\ P[i].head <= i
           /\ \A d \in P[i].deps : d < i
    /\ LateAnswers \in BOOLEAN
    /\ ROB_size > 1 /\ STQ_size > 0 /\ DL1_latency > 1
    /\ pre_commit_depth >= commit_width
    /\ LDQ_size >= payload_depth * Cardinality(port_binding["load"])

VARIABLES prog, jeclear_delay,  \* chosen at the start
          core,    \* the state of the core, see InitCore
          pc,      \* the stage that runs next
          left     \* what is left of the bounds

vars == <<prog, jeclear_delay, core, pc, left>>

-----------------------------------------------------------------------------
Uops == DOMAIN prog
Mop(u) == prog[u].mop
OfMop(m) == SelectSeq([u \in Uops |-> u], LAMBDA u : Mop(u) = m)
Kind(u) == prog[u].kind
is_load(u) == Kind(u) = "load"
is_sta(u) == Kind(u) = "sta"
is_std(u) == Kind(u) = "std"
(* These leave the payload pipe for the pre-commit pipe.                   *)
Straight(u) == Kind(u) \in {"load", "nop", "agen", "sta", "std"}
fusion_head(u) == prog[u].head
fusion_next(u) == IF u + 1 \in Uops /\ prog[u + 1].head = prog[u].head THEN u + 1 ELSE 0
in_fusion(u) == fusion_head(u) # u \/ fusion_next(u) # 0
Slot(u) == SelectSeq([x \in Uops |-> x], LAMBDA x : prog[x].head = prog[u].head)

hi(u) == prog[u].lo + prog[u].size - 1
Disjoint(s, u) == hi(s) < prog[u].lo \/ prog[s].lo > hi(u)
Covers(s, u) == prog[s].lo <= prog[u].lo /\ hi(s) >= hi(u)
SingleLine(u) == prog[u].lo \div LineSize = hi(u) \div LineSize

modinc(i, n) == IF i + 1 = n THEN 0 ELSE i + 1
moddec(i, n) == IF i = 0 THEN n - 1 ELSE i - 1
Least(S) == CHOOSE x \in S : \A y \in S : x <= y
Greatest(S) == CHOOSE x \in S : \A y \in S : x >= y
Numbers(n) == [i \in 1 .. n |-> i]
Empty(n) == [i \in 1 .. n |-> 0]
Sorted(S) == SetToSortSeq(S, LAMBDA a, b : a < b)

NewUop(u, spec) ==
    [port |-> 0, committed |-> FALSE, spec |-> spec,
     ival |-> {},       \* the parents of which ivalue_valid holds
     arrived |-> {},    \* those of which when_ival_ready is not TICK_T_MAX
     otag |-> Never, ovalue_valid |-> FALSE, exec |-> FALSE, completed |-> FALSE,
     LDQ_index |-> -1, STQ_index |-> -1, ROB_index |-> -1]

NoLDQ == [uop |-> 0, addr_valid |-> FALSE, issued |-> FALSE, hit_in_STQ |-> FALSE,
          broadcast |-> FALSE, partial_forward |-> FALSE, store_color |-> 0,
          first_requested |-> FALSE, last_requested |-> FALSE,
          first_arrived |-> FALSE, last_arrived |-> FALSE]

NoSTQ == [sta |-> 0, std |-> 0, seq |-> 0, addr_valid |-> FALSE,
          first_requested |-> FALSE, last_requested |-> FALSE,
          first_written |-> FALSE, last_written |-> FALSE,
          translated |-> FALSE, written |-> FALSE]

NoRequests == [first |-> 0, last |-> 0]

Units(p) == {k \in DOMAIN fu_latency : p \in port_binding[k]}

InitCore ==
    [u |-> [u \in Uops |-> NewUop(u, FALSE)],
     pipe |-> [s \in 1 .. alloc_depth |-> Empty(alloc_width)], next |-> 1, spec |-> FALSE,
     port_loading |-> [p \in Ports |-> 0],
     payload |-> [p \in Ports |-> Empty(payload_depth)], when_stalled |-> [p \in Ports |-> FALSE],
     FU |-> [p \in Ports |-> [k \in Units(p) |-> Empty(fu_latency[k])]],
     executable |-> [p \in Ports |-> [k \in Units(p) |-> 0]], exec_stall |-> FALSE,
     search |-> [p \in port_binding["load"] |-> Empty(DL1_latency)],
     pre |-> [i \in 0 .. pre_commit_depth - 1 |-> 0],
     ROB |-> [i \in 0 .. ROB_size - 1 |-> 0], ROB_head |-> 0, ROB_tail |-> 0,
     ROB_num |-> 0, ROB_eff_num |-> 0,
     complete |-> [m \in {Mop(u) : u \in Uops} |-> 0], stop |-> FALSE, count |-> 0, branches |-> 0,
     LDQ |-> [i \in 0 .. LDQ_size - 1 |-> NoLDQ], LDQ_head |-> 0, LDQ_tail |-> 0, LDQ_num |-> 0,
     STQ |-> [i \in 0 .. STQ_size - 1 |-> NoSTQ], STQ_head |-> 0, STQ_tail |-> 0, STQ_num |-> 0,
     STQ_senior_head |-> 0, STQ_senior_num |-> 0, throttle |-> FALSE,
     jeclear |-> Empty(jeclear_delay), jeclear_in_flight |-> {},
     wrong |-> {Mop(u) : u \in {u \in Uops : prog[u].mispred}},
     \* the accesses of a load to its first and its last line that are under way
     requests |-> [u \in Uops |-> NoRequests],
     stores |-> {},            \* of stores: <<STQ index, "tlb" | "first" | "last">>
     failed |-> {}]            \* the assertions that failed

Fail(c, what) == [c EXCEPT !.failed = @ \cup {what}]
Check(c, cond, what) == IF cond THEN c ELSE Fail(c, what)

-----------------------------------------------------------------------------
(* Squashing.                                                              *)

new_action_id(c, u) ==
    [c EXCEPT !.search = [p \in DOMAIN @ |-> [i \in DOMAIN @[p] |-> IF @[p][i] = u THEN 0 ELSE @[p][i]]],
              !.requests[u] = NoRequests]

(* Mutant: the queue keeps its tail.                                       *)
LDQ_squash_no_tail(c, u) ==
    [c EXCEPT !.LDQ[c.u[u].LDQ_index] = NoLDQ, !.LDQ_num = @ - 1, !.u[u].LDQ_index = -1]

LDQ_squash(c, u) ==
    LET i == c.u[u].LDQ_index
    IN [Check(c, c.LDQ[i].uop = u, "LDQ_squash") EXCEPT
           !.LDQ[i] = NoLDQ, !.LDQ_num = @ - 1, !.LDQ_tail = moddec(@, LDQ_size), !.u[u].LDQ_index = -1]

STQ_squash_sta(c, u) ==
    LET i == c.u[u].STQ_index
    IN [Check(c, c.STQ[i].sta = u, "STQ_squash_sta") EXCEPT !.STQ[i].sta = 0, !.u[u].STQ_index = -1]

STQ_squash_std(c, u) ==
    LET i == c.u[u].STQ_index
    IN [Check(c, c.STQ[i].sta = 0 /\ c.STQ[i].std = u, "STQ_squash_std") EXCEPT
           !.STQ[i] = NoSTQ, !.stores = {r \in @ : r[1] # i}, !.STQ_num = @ - 1,
           !.STQ_senior_num = @ - 1, !.STQ_tail = moddec(@, STQ_size), !.u[u].STQ_index = -1]

(* The whole slot of u, in program order.                                  *)
squash_uop(c, u) ==
    LET Kill(e, x) ==
            LET d == new_action_id(e, x)
                f == CASE is_load(x) /\ d.u[x].LDQ_index # -1 -> LDQ_squash(d, x)
                       [] is_std(x) /\ d.u[x].STQ_index # -1 -> STQ_squash_std(d, x)
                       [] is_sta(x) /\ d.u[x].STQ_index # -1 -> STQ_squash_sta(d, x)
                       [] OTHER -> d
            IN [f EXCEPT !.u[x] = [NewUop(x, FALSE) EXCEPT !.committed = d.u[x].committed]]
    IN FoldLeft(Kill, c, Slot(u))

get_num_eff_uops_in_ROB(c, u) == Cardinality({x \in Range(Slot(u)) : c.u[x].ROB_index >= 0})

(* The entries of the ROB from its head.                                   *)
InROB(c) == [n \in 1 .. c.ROB_num |-> (c.ROB_head + n - 1) % ROB_size]

SquashROB(c, i) ==
    LET u == c.ROB[i]
    IN [squash_uop(c, u) EXCEPT !.ROB[i] = 0, !.ROB_num = @ - 1,
                                !.ROB_eff_num = @ - get_num_eff_uops_in_ROB(c, u)]

(* The slots of the pre-commit pipe that are younger than Mop m.           *)
FlushPre(c, m) ==
    FoldLeft(LAMBDA e, i : [squash_uop(e, e.pre[i]) EXCEPT !.pre[i] = 0], c,
             Reverse(Sorted({i \in DOMAIN c.pre : c.pre[i] # 0 /\ Mop(c.pre[i]) > m})))

(* The remainder is C's, it keeps the sign of the dividend.                *)
commit_recover(c, m) ==
    LET dead == SelectSeq(InROB(c), LAMBDA i : Mop(c.ROB[i]) > m)
        d == FoldLeft(SquashROB, c, dead)
        t == d.ROB_tail - Len(dead)
    IN FlushPre([d EXCEPT !.ROB_tail = IF t < 0 THEN -((-t) % ROB_size) ELSE t % ROB_size], m)

(* Units and payload pipes; then the slots, in program order.              *)
exec_recover(c, m) ==
    LET Dead(x) == x # 0 /\ Mop(x) > m
        Clear(s) == [i \in DOMAIN s |-> IF Dead(s[i]) THEN 0 ELSE s[i]]
        under == UNION {Range(c.payload[p]) \cup UNION {Range(c.FU[p][k]) : k \in Units(p)} : p \in Ports}
        d == [c EXCEPT !.payload = [p \in Ports |-> Clear(@[p])],
                       !.FU = [p \in Ports |-> [k \in Units(p) |-> Clear(@[p][k])]]]
    IN FoldLeft(squash_uop, d, Sorted({x \in under : Dead(x)}))

(* core_exec_IO_DPM_t::recover() without a Mop: everything goes.           *)
exec_flush(c) == exec_recover(c, 0)

alloc_recover(c, m) ==
    [c EXCEPT !.pipe = [s \in DOMAIN @ |-> [i \in DOMAIN @[s] |->
                           IF @[s][i] # 0 /\ Mop(@[s][i]) > m THEN 0 ELSE @[s][i]]]]

(* Fetch starts again after Mop m; what was younger will be fetched anew.  *)
Refetch(c, m) ==
    LET dead == {u \in Uops : Mop(u) > m}
    IN [c EXCEPT !.next = IF dead = {} THEN Len(prog) + 1 ELSE Least(dead),
                 !.spec = c.u[Last(OfMop(m))].spec,
                 !.wrong = {n \in @ : n <= m} \cup {Mop(u) : u \in {u \in dead : prog[u].mispred}},
                 !.jeclear = [i \in DOMAIN @ |-> IF @[i] > m THEN 0 ELSE @[i]],
                 !.jeclear_in_flight = {n \in @ : n <= m},
                 !.complete = [n \in DOMAIN @ |-> IF n > m THEN 0 ELSE @[n]]]

Recover(c, m) == Refetch(alloc_recover(exec_recover(commit_recover(c, m), m), m), m)

jeclear_enqueue(c, m) ==
    IF c.jeclear[1] # 0 /\ c.jeclear[1] <= m THEN c
    ELSE [c EXCEPT !.jeclear = [i \in DOMAIN @ |-> IF i = 1 THEN m ELSE IF @[i] = m THEN 0 ELSE @[i]],
                   !.jeclear_in_flight = @ \cup {m}]

pipe_recover(c, m) == IF jeclear_delay > 0 THEN jeclear_enqueue(c, m) ELSE Recover(c, m)

(* Squashes Mop m as well.  It cannot be the oldest.                       *)
pipe_flush(c, m) ==
    IF m = 1 \/ \A u \in Range(OfMop(m - 1)) : c.u[u].committed THEN Fail(c, "pipe_flush")
    ELSE pipe_recover([c EXCEPT !.wrong = @ \ {m - 1}], m - 1)

-----------------------------------------------------------------------------
(* Loads.                                                                  *)

(* The uops on the odep list of u.                                         *)
Odeps(c, u) == {d \in Uops : c.u[d].port # 0 /\ ~c.u[d].committed /\ u \in prog[d].deps}

(* Sets the operand that the children of u have from it.                   *)
ForOdeps(c, u, Set(_)) ==
    [c EXCEPT !.u = [d \in Uops |-> IF d \in Odeps(c, u) THEN Set(@[d]) ELSE @[d]]]

Bypass(c, u) == ForOdeps(c, u, LAMBDA x : [x EXCEPT !.arrived = @ \cup {u}])
NoneHas(c, u) == \A d \in Odeps(c, u) : u \notin c.u[d].ival

(* The children of a load were told of it too early.                       *)
PutToSleep(c, u) ==
    LET i == c.u[u].LDQ_index IN
    IF ~c.LDQ[i].broadcast THEN c
    ELSE [ForOdeps(c, u, LAMBDA x : [x EXCEPT !.ival = @ \ {u}, !.arrived = @ \ {u}])
             EXCEPT !.LDQ[i].broadcast = FALSE]

(* The stores that a walk from store_color meets, the youngest first.      *)
Walk(c, u, Go(_)) ==
    LET color == c.LDQ[c.u[u].LDQ_index].store_color
        At(n) == (color - n) % STQ_size
        upto == {n \in 0 .. c.STQ_senior_num - 1 : \A k \in 0 .. n : Go(At(k))}
    IN [n \in 1 .. Cardinality(upto) |-> At(n - 1)]

(* The first of them that has a byte of u; -1 for none.                    *)
FirstMatch(c, u, walk) ==
    LET hits == SelectSeq(walk, LAMBDA i : c.STQ[i].addr_valid /\ ~Disjoint(c.STQ[i].seq, u))
    IN IF hits = <<>> THEN -1 ELSE hits[1]

(* The walk ends before it wraps around to the oldest store.               *)
PartialMatch(c, u) ==
    LET older(i) == modinc(i, STQ_size) # c.STQ_senior_head /\ c.STQ[i].seq < u
        i == FirstMatch(c, u, Walk(c, u, older))
    IN i # -1 /\ ~Covers(c.STQ[i].seq, u)

Value(c, u) ==
    Bypass([c EXCEPT !.u[u].ovalue_valid = TRUE, !.u[u].completed = TRUE,
                     !.u[u].otag = 0], u)

load_writeback(c, u) ==
    LET i == c.u[u].LDQ_index IN
    IF c.LDQ[i].hit_in_STQ THEN c
    ELSE Value(Check(c, ~c.u[u].completed /\ NoneHas(c, u), "load_writeback"), u)

(* The DL1 has the bytes of the first or of the last line.                 *)
DL1_callback(c, u, which) ==
    LET i == c.u[u].LDQ_index
        d == [c EXCEPT !.requests[u][which] = @ - 1]
        e == [d EXCEPT !.LDQ[i] = [@ EXCEPT !.first_arrived = @ \/ which = "first",
                                            !.last_arrived = @ \/ which = "last"]]
    IN IF i = -1 THEN d
       ELSE IF e.LDQ[i].first_arrived /\ e.LDQ[i].last_arrived THEN load_writeback(e, u) ELSE e

load_miss_reschedule(c, u, latency) ==
    LET i == c.u[u].LDQ_index IN
    IF i = -1 \/ c.u[u].completed \/ ~c.LDQ[i].broadcast \/ c.LDQ[i].hit_in_STQ THEN c
    ELSE [c EXCEPT !.u[u].otag = IF latency = Never THEN Never
                                 ELSE Greatest({0, latency - payload_depth - 1})]

(* A store that the load overlaps in part: the load asks again from the    *)
(* beginning once the store has left.                                      *)
AwaitStore(c, u) ==
    LET l == c.u[u].LDQ_index
        partial == [c EXCEPT !.LDQ[l].partial_forward = TRUE]
        d == IF c.u[u].completed THEN pipe_flush(partial, Mop(u)) ELSE PutToSleep(partial, u)
    IN [Check(d, ~d.u[u].completed, "LDST_exec") EXCEPT
           !.u[u].otag = Never, !.throttle = @ \/ throttle_partial,
           !.LDQ[l] = [@ EXCEPT !.issued = FALSE, !.hit_in_STQ = FALSE,
                                !.first_requested = FALSE, !.last_requested = FALSE,
                                !.first_arrived = FALSE, !.last_arrived = FALSE]]

(* A load leaves the search pipe.  Stores have their data as soon as they  *)
(* are in the queue, see exec_fused_ST.  A store whose STA has committed   *)
(* ends the search.                                                        *)
Search(c, u) ==
    LET l == c.u[u].LDQ_index
        i == FirstMatch(c, u, Walk(c, u, LAMBDA j : c.STQ[j].sta # 0 /\ c.STQ[j].sta < u))
        nuked == pipe_flush(c, Mop(u))
        forwarded == [Value(c, u) EXCEPT !.u[u].exec = TRUE, !.LDQ[l].issued = TRUE, !.LDQ[l].hit_in_STQ = TRUE]
    IN IF i = -1 THEN c
       ELSE IF ~Covers(c.STQ[i].seq, u) THEN AwaitStore(c, u)
       ELSE IF c.u[u].completed THEN nuked ELSE forwarded

(* A load that leaves the search pipe is still in the LDQ.                 *)
LeaveSearch(c, u) ==
    IF c.u[u].LDQ_index = -1 THEN Fail(c, "LDST_exec: not in the LDQ") ELSE Search(c, u)

LDST_exec(c) ==
    LET d == [c EXCEPT !.search = [p \in DOMAIN @ |-> <<0>> \o SubSeq(@[p], 1, DL1_latency - 1)]]
        exit(e, p) == IF e.search[p][DL1_latency] = 0 THEN e ELSE LeaveSearch(e, e.search[p][DL1_latency])
    IN FoldLeft(exit, d, Sorted(DOMAIN d.search))

(* A load is sent to the DL1, line by line.  refused are the accesses that *)
(* the DL1 does not take.                                                  *)
Issue(c, i, refused) ==
    LET u == c.LDQ[i].uop
        p == c.u[u].port
        ask == ~c.LDQ[i].first_requested /\ <<u, "first">> \notin refused /\ c.search[p][1] = 0
        first == [c EXCEPT
                    !.requests[u].first = @ + 1, !.search[p][1] = u,
                    !.LDQ[i] = [@ EXCEPT !.first_requested = TRUE, !.last_requested = @ \/ SingleLine(u),
                                         !.last_arrived = @ \/ SingleLine(u), !.issued = SingleLine(u),
                                         !.broadcast = TRUE],
                    !.u[u].otag = IF c.LDQ[i].broadcast THEN @
                                  ELSE Greatest({0, DL1_latency - payload_depth})]
        d == IF ask THEN first ELSE c
        more == d.LDQ[i].first_requested /\ ~d.LDQ[i].last_requested /\ <<u, "last">> \notin refused
    IN IF ~more THEN d
       ELSE [d EXCEPT !.requests[u].last = @ + 1,
                      !.LDQ[i].last_requested = TRUE, !.LDQ[i].issued = TRUE]

LDQ_schedule(c, refused) ==
    LET Hold(e, i) == [PutToSleep(e, e.LDQ[i].uop) EXCEPT
                          !.LDQ[i].partial_forward = TRUE, !.LDQ[i].hit_in_STQ = FALSE,
                          !.u[e.LDQ[i].uop].otag = Never, !.u[e.LDQ[i].uop].completed = FALSE]
        Try(e, i) == LET l == e.LDQ[i] IN
                     IF ~l.addr_valid \/ l.issued \/ (l.partial_forward /\ e.throttle) THEN e
                     ELSE IF PartialMatch(e, l.uop) THEN Hold(e, i) ELSE Issue(e, i, refused)
    IN FoldLeft(Try, c, [n \in 1 .. c.LDQ_num |-> (c.LDQ_head + n - 1) % LDQ_size])

LDQ_insert(c, u) ==
    [Check(c, c.LDQ_num < LDQ_size, "LDQ_available") EXCEPT
        !.LDQ[c.LDQ_tail] = [NoLDQ EXCEPT !.uop = u, !.store_color = moddec(c.STQ_tail, STQ_size)],
        !.u[u].LDQ_index = c.LDQ_tail,
        !.LDQ_num = @ + 1, !.LDQ_tail = modinc(@, LDQ_size)]

LDQ_deallocate(c, u) ==
    [Check(c, c.LDQ[c.LDQ_head].uop = u, "LDQ_deallocate") EXCEPT
        !.LDQ[c.LDQ_head].uop = 0, !.LDQ_num = @ - 1, !.LDQ_head = modinc(@, LDQ_size),
        !.u[u].LDQ_index = -1]

-----------------------------------------------------------------------------
(* Stores.                                                                 *)

STQ_available(c) == c.STQ_senior_num < STQ_size

(* The commit stage runs a store, STA and STD at once.                     *)
exec_fused_ST(c, u) ==
    LET i == c.STQ_tail
        d == [Check(c, fusion_next(u) # 0 /\ is_std(u + 1), "exec_fused_ST") EXCEPT
                 !.STQ[i] = [NoSTQ EXCEPT !.sta = u, !.std = u + 1, !.seq = u, !.addr_valid = TRUE],
                 !.stores = {r \in @ : r[1] # i},
                 !.STQ_num = @ + 1, !.STQ_senior_num = @ + 1, !.STQ_tail = modinc(@, STQ_size),
                 !.u = [@ EXCEPT ![u] = [@ EXCEPT !.exec = TRUE, !.completed = TRUE, !.STQ_index = i],
                                 ![u + 1] = [@ EXCEPT !.exec = TRUE, !.completed = TRUE, !.STQ_index = i,
                                                      !.ovalue_valid = TRUE]]]
    IN ForOdeps(Check(d, NoneHas(d, u), "exec_fused_ST"), u,
                LAMBDA x : [x EXCEPT !.ival = @ \cup {u}, !.arrived = @ \cup {u}])

STQ_deallocate_sta(c) ==
    LET s == c.STQ[c.STQ_head].sta
    IN [c EXCEPT !.STQ[c.STQ_head].sta = 0,
                 !.u = IF s = 0 THEN @ ELSE [@ EXCEPT ![s].STQ_index = -1]]

(* Sends the store at the head to the TLB and the DL1, and lets it go once *)
(* all of it is on its way.  refused is what the DL1 does not take.        *)
STQ_deallocate_std(c, u, refused) ==
    LET i == c.STQ_head
        one == SingleLine(u)
        first == [c EXCEPT !.stores = @ \cup {<<i, "tlb">>, <<i, "first">>},
                           !.STQ[i] = [@ EXCEPT !.first_requested = TRUE, !.translated = FALSE, !.written = FALSE,
                                                !.last_requested = one, !.last_written = one]]
        d == IF c.STQ[i].first_requested THEN c ELSE first
        last == [d EXCEPT !.stores = @ \cup {<<i, "last">>}, !.STQ[i].last_requested = TRUE]
        e == IF d.STQ[i].last_requested THEN d ELSE last
    IN IF "first" \in refused THEN [c EXCEPT !.stop = TRUE]
       ELSE IF ~d.STQ[i].last_requested /\ "last" \in refused THEN [d EXCEPT !.stop = TRUE]
       ELSE [e EXCEPT !.STQ[i].std = 0, !.STQ_num = @ - 1, !.STQ_head = modinc(@, STQ_size),
                      !.u = [x \in Uops |-> IF x = c.STQ[i].std THEN [@[x] EXCEPT !.STQ_index = -1] ELSE @[x]]]

STQ_deallocate_senior(c) ==
    LET i == c.STQ_senior_head IN
    IF ~c.STQ[i].written \/ ~c.STQ[i].translated THEN c
    ELSE [Check(c, c.STQ_senior_num > 0, "STQ_deallocate_senior") EXCEPT
             !.STQ[i].written = FALSE, !.STQ[i].translated = FALSE, !.stores = {r \in @ : r[1] # i},
             !.STQ_senior_head = modinc(@, STQ_size), !.STQ_senior_num = @ - 1, !.throttle = FALSE]

STQ_squash_senior(c) ==
    LET Pop(d, n) == LET i == d.STQ_senior_head
                         young == i = d.STQ_head /\ d.STQ_num > 0
                     IN [d EXCEPT !.STQ[i] = NoSTQ, !.stores = {r \in @ : r[1] # i},
                                  !.u = [x \in Uops |-> IF x \in {d.STQ[i].sta, d.STQ[i].std}
                                                        THEN [@[x] EXCEPT !.STQ_index = -1] ELSE @[x]],
                                  !.STQ_head = IF young THEN modinc(@, STQ_size) ELSE @,
                                  !.STQ_num = IF young THEN @ - 1 ELSE @,
                                  !.STQ_senior_head = modinc(@, STQ_size), !.STQ_senior_num = @ - 1]
    IN FoldLeft(Pop, c, Numbers(c.STQ_senior_num))

(* The TLB or the DL1 answers the store in entry i.                        *)
store_dl1_callback(c, i, which) ==
    LET s == [c.STQ[i] EXCEPT !.translated = @ \/ which = "tlb",
                              !.first_written = @ \/ which = "first",
                              !.last_written = @ \/ which = "last"]
    IN [c EXCEPT !.stores = @ \ {<<i, which>>},
                 !.STQ[i] = [s EXCEPT !.written = @ \/ (which # "tlb" /\ s.first_written /\ s.last_written)]]

-----------------------------------------------------------------------------
(* Execution.                                                              *)

(* Mutant: any stage of the pipe will do.                                  *)
pre_commit_available_any(c) == \E i \in 0 .. pre_commit_depth - 1 : c.pre[i] = 0

pre_commit_available(c) == \E i \in 0 .. commit_width - 1 : c.pre[i] = 0

(* A slot enters as its head.                                              *)
pre_commit_insert(c, u) ==
    LET free == {i \in 0 .. commit_width - 1 : c.pre[i] = 0}
    IN IF free = {} THEN Fail(c, "pre_commit_insert")
       ELSE [c EXCEPT !.pre[Greatest(free)] = fusion_head(u)]

AllValid(c, u) == prog[u].deps \subseteq c.u[u].ival
FUBusy(c, u) == LET p == c.u[u].port IN c.FU[p][Kind(u)][1] # 0 \/ c.executable[p][Kind(u)] > 0
WhenDone(u) == IF Straight(u) THEN 0 ELSE fu_latency[Kind(u)]

(* When x, the last in its payload pipe, will be done; it is older than    *)
(* the uop that asks.                                                      *)
WhenCurrReady(c, x) ==
    CASE is_load(x) -> IF c.u[x].completed THEN 0 ELSE Never
      [] Straight(x) /\ ~is_load(x) -> Never
      [] OTHER -> IF AllValid(c, x) /\ ~FUBusy(c, x) THEN WhenDone(x) ELSE Never

(* Mutant: uops in the earlier stages are not looked at.                   *)
can_issue_IO_last(c, u) ==
    /\ \A p \in Ports, k \in DOMAIN fu_latency : k \in Units(p) =>
           \A x \in Range(c.FU[p][k]) \ {0, u} : x < u => c.u[x].otag <= WhenDone(u)
    /\ \A p \in Ports :
           LET x == c.payload[p][payload_depth] IN
           x \notin {0, u, fusion_head(u)} /\ x < u => WhenCurrReady(c, x) <= WhenDone(u)

(* Issuing u would not overtake an older uop.                              *)
can_issue_IO(c, u) ==
    /\ \A p \in Ports, k \in DOMAIN fu_latency : k \in Units(p) =>
           \A x \in Range(c.FU[p][k]) \ {0, u} : x < u => c.u[x].otag <= WhenDone(u)
    /\ \A p \in Ports :
           LET x == c.payload[p][payload_depth]
               rest == {y \in Range(Slot(x)) : y >= x /\ \A z \in x .. y : ~is_sta(z)}
           IN  x = u \/ (in_fusion(u) /\ x = fusion_head(u)) \/
               /\ x # 0 /\ x < u => /\ WhenCurrReady(c, x) <= WhenDone(u)
                                    /\ in_fusion(x) => \A y \in rest : c.u[y].otag <= WhenDone(u)
               /\ \A s \in 1 .. payload_depth - 1 : c.payload[p][s] # 0 => c.payload[p][s] >= u

(* The uop that the last payload stage of p offers: behind a fused load    *)
(* that has its value, the operation.                                      *)
Offered(c, p) ==
    LET x == c.payload[p][payload_depth]
    IN IF x # 0 /\ is_load(x) /\ in_fusion(x) /\ c.u[x].ovalue_valid THEN fusion_next(x) ELSE x
Leaves(c, p) ==
    LET x == Offered(c, p) IN x # 0 /\ Straight(x) /\ (is_load(x) => c.u[x].ovalue_valid)

(* A uop leaves its payload pipe or its unit, unless a recovery has just   *)
(* taken it out.                                                           *)
LeavePayload(c, u) ==
    LET p == c.u[u].port
        d == [c EXCEPT !.when_stalled[p] = FALSE, !.payload[p][payload_depth] = 0,
                       !.u[u] = IF Kind(u) = "nop" THEN [@ EXCEPT !.exec = TRUE, !.completed = TRUE] ELSE @]
        e == pre_commit_insert(d, u)
    IN IF p = 0 \/ c.payload[p][payload_depth] # u THEN c
       ELSE IF ~pre_commit_available(c) THEN [c EXCEPT !.when_stalled[p] = TRUE]
       ELSE IF is_load(u) THEN LDQ_deallocate(Check(e, e.u[u].ovalue_valid, "LeavePayload"), u) ELSE e

(* The slot goes on with the last part that needs a unit.                  *)
EndsSlot(u) == fusion_next(u) = 0 \/ is_sta(fusion_next(u))

LeaveFU(c, u) ==
    LET p == c.u[u].port
        k == Kind(u)
        valued == [Check(c, ~c.u[u].completed, "LeaveFU") EXCEPT
                      !.u[u].completed = TRUE, !.u[u].ovalue_valid = TRUE]
        redirected == IF k = "branch" /\ Mop(u) \in c.wrong
                      THEN pipe_recover([valued EXCEPT !.wrong = @ \ {Mop(u)}], Mop(u)) ELSE valued
        e == [Bypass(redirected, u) EXCEPT !.FU[p][k][fu_latency[k]] = 0]
    IN IF p = 0 \/ c.FU[p][k][fu_latency[k]] # u THEN c
       ELSE IF EndsSlot(u) /\ ~pre_commit_available(c)
            THEN [c EXCEPT !.exec_stall = TRUE, !.when_stalled = [q \in Ports |-> TRUE]]
       ELSE IF EndsSlot(u) THEN pre_commit_insert(e, u) ELSE e

(* What is done leaves in program order.                                   *)
Finish(c) ==
    LET done == UNION {{c.FU[p][k][fu_latency[k]] : k \in Units(p)} : p \in Ports} \ {0}
        out == {p \in Ports : Leaves(c, p) /\ can_issue_IO(c, Offered(c, p))}
        d == [c EXCEPT !.when_stalled = [p \in Ports |->
                 IF c.payload[p][payload_depth] = 0 \/ p \in out THEN @[p] ELSE Leaves(c, p)]]
    IN FoldLeft(LAMBDA e, u : IF Straight(u) THEN LeavePayload(e, u) ELSE LeaveFU(e, u), d,
                Sorted(done \cup {Offered(c, p) : p \in out}))

(* Units move on, or what is in them is expected one cycle later.          *)
AdvanceFUs(c) ==
    LET inFU == UNION {UNION {Range(c.FU[p][k]) : k \in Units(p)} : p \in Ports}
        Shift(s) == FoldLeft(LAMBDA t, i : IF t[i] # 0 THEN t ELSE [t EXCEPT ![i] = t[i - 1], ![i - 1] = 0],
                             s, Reverse([n \in 1 .. Len(s) - 1 |-> n + 1]))
    IN IF c.exec_stall
       THEN [c EXCEPT !.exec_stall = FALSE,
                      !.u = [u \in Uops |-> IF u \in inFU THEN [@[u] EXCEPT !.otag = @ + 1] ELSE @[u]]]
       ELSE [c EXCEPT !.FU = [p \in Ports |-> [k \in Units(p) |-> Shift(@[p][k])]]]

(* The operands that have come.                                            *)
Capture(c, u) == [c EXCEPT !.u[u].ival = @ \cup c.u[u].arrived]

StartFU(c, p, u) ==
    LET k == Kind(u)
        before == SelectSeq(Slot(u), LAMBDA x : x < u /\ is_load(x))
        d == [c EXCEPT !.u[u].otag = fu_latency[k], !.u[u].exec = TRUE,
                       !.FU[p][k][1] = u, !.executable[p][k] = issue_rate[k]]
        e == IF before = <<>> THEN d
             ELSE LDQ_deallocate(Check(d, d.u[before[1]].LDQ_index # -1, "StartFU"), before[1])
    IN IF EndsSlot(u) THEN [e EXCEPT !.payload[p][payload_depth] = 0]
       ELSE [e EXCEPT !.payload[p][payload_depth] = fusion_next(u), !.when_stalled[p] = TRUE]

(* The last payload stage of p gives a uop to a unit.                      *)
ExitPayload(c, p) ==
    LET x == c.payload[p][payload_depth]
        u == Offered(c, p)
        moved == [Check(c, u = x \/ Kind(u) \notin {"load", "sta", "std"}, "ExitPayload")
                     EXCEPT !.payload[p][payload_depth] = u]
        d == Capture(moved, u)
    IN IF \A s \in 1 .. payload_depth : c.payload[p][s] = 0 THEN c
       ELSE IF x = 0 THEN [c EXCEPT !.when_stalled[p] = FALSE]
       ELSE IF c.when_stalled[p] THEN c
       ELSE IF is_load(x) /\ ~c.u[x].ovalue_valid THEN [c EXCEPT !.when_stalled[p] = TRUE]
       ELSE IF Straight(u) THEN moved
       ELSE IF ~AllValid(d, u) \/ FUBusy(d, u) \/ ~can_issue_IO(d, u) THEN [d EXCEPT !.when_stalled[p] = TRUE]
       ELSE StartFU(d, p, u)

(* Address generation: a load may go to the LDQ's scheduler, an LEA is     *)
(* done or waits.                                                          *)
Agen(c, p) ==
    LET first == SelectSeq(Slot(c.payload[p][1]), LAMBDA x : x >= c.payload[p][1] /\ Kind(x) \in {"load", "agen"})
        u == first[1]
        loaded == [Check(c, c.u[u].LDQ_index # -1, "Agen") EXCEPT
                      !.LDQ[c.u[u].LDQ_index].addr_valid = TRUE, !.u[u].exec = TRUE]
        d == Capture(c, u)
        done == [d EXCEPT !.u[u] = [@ EXCEPT !.ovalue_valid = TRUE, !.exec = TRUE, !.completed = TRUE]]
    IN IF first = <<>> THEN c
       ELSE IF is_load(u) THEN loaded
       ELSE IF ~AllValid(d, u) THEN [d EXCEPT !.when_stalled[p] = TRUE]
       ELSE ForOdeps(Check(done, NoneHas(done, u), "Agen"), u,
                     LAMBDA x : [x EXCEPT !.ival = @ \cup {u}, !.arrived = @ \cup {u}])

(* A stalled port lets the middle stage fill an empty last one.            *)
AdvancePayload(c, p) ==
    LET blocked == c.when_stalled[p] /\ c.payload[p][payload_depth] # 0
        d == IF blocked THEN c
             ELSE [c EXCEPT !.payload[p] = [@ EXCEPT ![payload_depth] = c.payload[p][2], ![2] = 0]]
        e == IF d.payload[p][1] = 0 \/ d.when_stalled[p] THEN d ELSE Agen(d, p)
    IN IF e.payload[p][1] = 0 \/ e.when_stalled[p] THEN e
       ELSE [e EXCEPT !.payload[p] = [@ EXCEPT ![2] = e.payload[p][1], ![1] = 0]]

exec_step(c) ==
    LET d == AdvanceFUs(Finish(c))
        e == FoldLeft(ExitPayload, d, Numbers(NPorts))
    IN FoldLeft(AdvancePayload, e, Numbers(NPorts))

-----------------------------------------------------------------------------
(* Commit.                                                                 *)

ROB_insert(c, u) ==
    IF c.ROB_tail < 0 THEN Fail(c, "ROB_insert")
    ELSE [c EXCEPT !.ROB[c.ROB_tail] = u, !.ROB_num = @ + 1, !.ROB_eff_num = @ + Len(Slot(u)),
                   !.ROB_tail = modinc(@, ROB_size),
                   !.u = [x \in Uops |-> IF prog[x].head = u THEN [@[x] EXCEPT !.ROB_index = c.ROB_tail] ELSE @[x]]]

(* The stage that slot j of the last group is taken from: stage -= j, for  *)
(* j up to the width.                                                      *)
StageOf(j) == pre_commit_depth - 1 - (j * (j + 1)) \div 2

pre_commit_step(c) ==
    LET Send(d, n) == LET i == StageOf(n - 1) IN
                      IF d.stop \/ d.pre[i] = 0 THEN d
                      ELSE IF d.ROB_num >= ROB_size THEN [d EXCEPT !.stop = TRUE]
                      ELSE [ROB_insert(d, d.pre[i]) EXCEPT !.pre[i] = 0]
        Move(d, i) == IF d.pre[i] = 0 THEN d
                      ELSE [Check(d, d.pre[i + commit_width] = 0, "pre_commit_step") EXCEPT
                               !.pre[i + commit_width] = d.pre[i], !.pre[i] = 0]
        sent == FoldLeft(Send, c, Numbers(commit_width))
    IN IF sent.stop THEN [sent EXCEPT !.stop = FALSE]
       ELSE FoldLeft(Move, sent, Reverse([n \in 1 .. StageOf(commit_width - 1) |-> n - 1]))

(* The next uop of its Mop is complete; stores are run for that.           *)
Complete(c, u) ==
    LET m == Mop(u)
        done(d) == [Check(d, d.u[u].completed, "Complete") EXCEPT !.complete[m] = @ + 1]
    IN IF c.stop \/ c.complete[m] # u - OfMop(m)[1] THEN c
       ELSE IF is_sta(u) /\ ~STQ_available(c) THEN [c EXCEPT !.stop = TRUE]
       ELSE IF is_sta(u) THEN done(exec_fused_ST(c, u))
       ELSE IF is_std(u) \/ c.u[u].completed THEN done(c) ELSE c

(* Removes u from the ROB.                                                 *)
Retire(c, u) ==
    LET i == c.ROB_head
        d == [Check(c, c.u[u].exec, "Retire") EXCEPT
                 !.ROB_eff_num = @ - 1,
                 !.u[u] = [@ EXCEPT !.ROB_index = -1, !.committed = TRUE],
                 !.branches = IF u = Last(OfMop(Mop(u))) /\ \E x \in Range(OfMop(Mop(u))) : Kind(x) = "branch"
                              THEN @ + 1 ELSE @]
    IN IF fusion_next(u) # 0 THEN [d EXCEPT !.ROB[i] = fusion_next(u)]
       ELSE [d EXCEPT !.ROB[i] = 0, !.ROB_num = @ - 1, !.ROB_head = modinc(@, ROB_size), !.count = @ + 1]

CommitUop(c, u, refused) ==
    LET d == Check(c, /\ c.u[u].completed /\ c.u[u].ROB_index = c.ROB_head
                      /\ \A x \in Range(OfMop(Mop(u))) : c.u[x].committed <=> x < u, "CommitUop")
        e == CASE is_sta(u) -> STQ_deallocate_sta(d)
               [] is_std(u) -> STQ_deallocate_std(d, u, refused)
               [] is_load(u) -> new_action_id(d, u)
               [] OTHER -> d
    IN IF e.stop THEN e ELSE Retire(e, u)

CommitOldest(c, refused) ==
    LET u == c.ROB[c.ROB_head]
        m == Mop(u)
        is_ctrl == \E x \in Range(OfMop(m)) : Kind(x) = "branch"
        d == FoldLeft(Complete, Check(c, ~c.u[u].spec, "CommitOldest"), OfMop(m))
    IN IF c.stop \/ c.count = commit_width THEN c
       ELSE IF \/ c.ROB_num = 0 \/ m \in c.jeclear_in_flight
               \/ is_ctrl /\ branch_limit # 0 /\ c.branches >= branch_limit
            THEN [c EXCEPT !.stop = TRUE]
       ELSE IF d.stop \/ d.complete[m] < Len(OfMop(m)) THEN [d EXCEPT !.stop = TRUE]
       ELSE CommitUop(d, u, refused)

(* A fused uop that is not the tail does not count toward the width.       *)
IO_step(c, refused) ==
    LET d == FoldLeft(LAMBDA e, n : CommitOldest(e, refused), STQ_deallocate_senior(c),
                      Numbers(Len(prog) + 1))
    IN [d EXCEPT !.stop = FALSE, !.count = 0, !.branches = 0]

(* The recover() of every stage: nothing is left.                          *)
RecoverAll(c) ==
    LET rob == [FoldLeft(SquashROB, c, InROB(c)) EXCEPT !.ROB_tail = c.ROB_head]
        d == exec_flush(STQ_squash_senior(FlushPre(rob, 0)))
        e == Check(d, d.ROB_num = 0 /\ d.ROB_eff_num = 0 /\ d.STQ_senior_num = 0 /\ d.STQ_num = 0 /\ d.LDQ_num = 0,
                   "recover")
        fed == {u \in Uops : \E x \in Uops : x < c.next /\ ~c.u[x].spec /\ Mop(x) = Mop(u)}
    IN [e EXCEPT !.pipe = [s \in DOMAIN @ |-> Empty(alloc_width)],
                 !.next = Cardinality(fed) + 1, !.spec = FALSE, !.wrong = @ \ {Mop(u) : u \in fed},
                 !.jeclear = [i \in DOMAIN @ |-> 0], !.jeclear_in_flight = {},
                 !.u = [u \in Uops |-> [NewUop(u, FALSE) EXCEPT !.committed = u \in fed]]]

-----------------------------------------------------------------------------
(* Allocation.                                                             *)

LastStage(c) == Sorted(Range(c.pipe[alloc_depth]) \ {0})
InAlloc(c) == UNION {Range(c.pipe[s]) : s \in 1 .. alloc_depth} \ {0}

(* Ports where the whole slot can run and that take a uop now.             *)
Candidates(c, u) ==
    {p \in Ports : /\ c.payload[p][1] = 0
                   /\ \A x \in Range(Slot(u)) : Kind(x) # "nop" => p \in port_binding[Kind(x)]}

(* Mutant: only the architected registers are read.                        *)
ReadOperands_committed(c, u) ==
    LET has == {d \in prog[u].deps : c.u[d].committed}
    IN [c EXCEPT !.u[u].ival = has, !.u[u].arrived = has]

ReadOperands(c, u) ==
    LET has == {d \in prog[u].deps : c.u[d].committed \/ c.u[d].ovalue_valid}
    IN [c EXCEPT !.u[u].ival = has, !.u[u].arrived = has]

AllocUop(c, u, p) ==
    LET d == [c EXCEPT !.u[u].port = p, !.port_loading[p] = @ + 1]
    IN ReadOperands(IF is_load(u) THEN LDQ_insert(d, u) ELSE d, u)

(* The slot goes to the first stage of its port.                           *)
exec_insert(c, u, p) == [Check(c, c.payload[p][1] = 0, "exec_insert") EXCEPT !.payload[p][1] = u]

(* The oldest slot of the pipe goes to the least loaded port.  Nothing     *)
(* takes load off a port.                                                  *)
AllocSlot(c, u) ==
    LET P == Candidates(c, u)
        p == Least({q \in P : \A r \in P : c.port_loading[q] <= c.port_loading[r]})
        d == FoldLeft(LAMBDA e, x : AllocUop(e, x, p), c, Slot(u))
    IN IF c.stop \/ u # Least(InAlloc(c)) \/ P = {} THEN [c EXCEPT !.stop = TRUE]
       ELSE [exec_insert(d, u, p) EXCEPT
                !.pipe[alloc_depth] = [i \in DOMAIN @ |-> IF @[i] = u THEN 0 ELSE @[i]]]

(* Every slot of a stage moves on by itself.                               *)
Shuffle(c, s) ==
    [c EXCEPT !.pipe[s] = [i \in DOMAIN @ |-> IF @[i] = 0 THEN c.pipe[s - 1][i] ELSE @[i]],
              !.pipe[s - 1] = [i \in DOMAIN @ |-> IF c.pipe[s][i] = 0 THEN 0 ELSE @[i]]]

(* The next slot from the uop queue.  What follows a wrong prediction is   *)
(* on the wrong path.                                                      *)
Fill(c, i) ==
    LET u == c.next IN
    IF u > Len(prog) \/ c.pipe[1][i] # 0 THEN c
    ELSE [c EXCEPT !.pipe[1][i] = u,
                   !.u = [x \in Uops |-> IF prog[x].head = u THEN NewUop(x, c.spec) ELSE @[x]],
                   !.spec = @ \/ \E x \in Range(Slot(u)) : Kind(x) = "branch" /\ Mop(x) \in c.wrong,
                   !.next = @ + Len(Slot(u))]

alloc_step(c) ==
    LET d == [FoldLeft(AllocSlot, c, LastStage(c)) EXCEPT !.stop = FALSE]
        e == FoldLeft(Shuffle, d, Reverse([n \in 1 .. alloc_depth - 1 |-> n + 1]))
    IN FoldLeft(Fill, e, Numbers(alloc_width))

(* pre_fetch(): the jeclear that has arrived; and the cycle ends.          *)
pre_fetch(c) ==
    LET m == IF jeclear_delay = 0 THEN 0 ELSE c.jeclear[jeclear_delay]
        d == IF m = 0 THEN c ELSE [Recover(c, m) EXCEPT !.jeclear_in_flight = @ \ {m}]
        down(t) == IF t \in {0, Never} THEN t ELSE t - 1
    IN [d EXCEPT !.jeclear = [i \in DOMAIN @ |-> IF i = 1 THEN 0 ELSE @[i - 1]],
                 !.executable = [p \in Ports |-> [k \in Units(p) |-> down(@[p][k])]],
                 !.u = [u \in Uops |-> [@[u] EXCEPT !.otag = down(@)]]]

-----------------------------------------------------------------------------
(* A cycle, in the order of sim_main_slave_pre_pin().                      *)

Init ==
    /\ prog \in Programs /\ jeclear_delay \in Delays
    /\ core = InitCore
    /\ pc = "commit"
    /\ left = [refusals |-> MaxRefusals, misses |-> MaxMisses, flushes |-> MaxFlushes]

Stage(from, to, c) == pc = from /\ pc' = to /\ core' = c /\ UNCHANGED <<prog, jeclear_delay>>

(* Caches refuse some accesses, MaxRefusals times.                         *)
Refuse(refused) ==
    /\ Cardinality(refused) <= left.refusals
    /\ left' = [left EXCEPT !.refusals = @ - Cardinality(refused)]

CommitStage ==
    \E refused \in SUBSET {"first", "last"} :
        Refuse(refused) /\ Stage("commit", "mem", IO_step(core, refused))

SearchStage == Stage("mem", "caches", LDST_exec(core)) /\ UNCHANGED left

Searching(c, u) == \E p \in DOMAIN c.search, i \in 1 .. DL1_latency - 1 : c.search[p][i] = u

(* Does the load in search still wait for its newest access to this line?  *)
Fresh(c, u, which) ==
    LET l == c.LDQ[c.u[u].LDQ_index] IN
    /\ Searching(c, u) /\ c.u[u].LDQ_index # -1
    /\ IF which = "first" THEN l.first_requested ELSE l.last_requested

(* The DL1 answers a load; it takes as long as the search.  A load that    *)
(* has asked again has older accesses under way.                           *)
AnswerLoad(u, which) ==
    /\ core.requests[u][which] > IF Fresh(core, u, which) THEN 1 ELSE 0
    /\ Stage("caches", "caches", DL1_callback(core, u, which))
    /\ UNCHANGED left

AnswerStore(i, which) ==
    /\ <<i, which>> \in core.stores
    /\ which # "tlb" => core.STQ[i].translated
    /\ Stage("caches", "caches", store_dl1_callback(core, i, which))
    /\ UNCHANGED left

Answer ==
    \/ \E u \in Uops, which \in {"first", "last"} : AnswerLoad(u, which)
    \/ \E r \in core.stores : AnswerStore(r[1], r[2])

(* The DL1 reports that the access of u will take t more cycles.           *)
Miss(u, t) ==
    /\ left.misses > 0
    /\ core.requests[u].first > 0
    /\ Stage("caches", "caches", load_miss_reschedule(core, u, t))
    /\ left' = [left EXCEPT !.misses = @ - 1]

(* A load that has waited for a store is going to ask again.               *)
AsksAgain(c, u) ==
    \E i \in DOMAIN c.LDQ :
        LET l == c.LDQ[i] IN
        /\ l.uop = u /\ l.addr_valid /\ ~l.issued /\ ~l.first_requested
        /\ ~(l.partial_forward /\ c.throttle) /\ ~PartialMatch(c, u)

EndCaches ==
    /\ LateAnswers \/ \A u \in Uops : core.requests[u] # NoRequests => ~AsksAgain(core, u)
    /\ Stage("caches", "precommit", core)
    /\ UNCHANGED left

PreCommitStage == Stage("precommit", "exec", pre_commit_step(core)) /\ UNCHANGED left

ExecStage == Stage("exec", "ldq", exec_step(core)) /\ UNCHANGED left

Asking(c) == {c.LDQ[i].uop : i \in {i \in DOMAIN c.LDQ : c.LDQ[i].addr_valid /\ ~c.LDQ[i].issued}} \ {0}

LDQStage ==
    \E refused \in SUBSET (Asking(core) \X {"first", "last"}) :
        Refuse(refused) /\ Stage("ldq", "alloc", LDQ_schedule(core, refused))

AllocStage == Stage("alloc", "fetch", alloc_step(core)) /\ UNCHANGED left

FetchStage == Stage("fetch", "commit", pre_fetch(core)) /\ UNCHANGED left

(* sim_drain_pipe(): the core is taken from its thread.                    *)
FlushCore ==
    /\ left.flushes > 0
    /\ Stage("commit", "commit", RecoverAll(core))
    /\ left' = [left EXCEPT !.flushes = @ - 1]

Next ==
    \/ CommitStage \/ SearchStage \/ Answer \/ EndCaches
    \/ \E u \in Uops, t \in MissLatencies : Miss(u, t)
    \/ PreCommitStage \/ ExecStage \/ LDQStage \/ AllocStage \/ FetchStage \/ FlushCore

Spec == Init /\ [][Next]_vars

(* Cycles go on, and while accesses are under way caches answer them.      *)
FairSpec ==
    /\ Spec
    /\ []<>(pc = "fetch") /\ []<>(pc = "commit")
    /\ []<>(core.stores = {} /\ \A u \in Uops : core.requests[u] = NoRequests) \/ []<><<Answer>>_vars

-----------------------------------------------------------------------------
\* No assertion of the three stages fails: the LDQ always has room, loads leave
\* it in order, a uop completes once, and what commits is the oldest, complete,
\* executed and on the right path.
NoAbort == core.failed = {}

(* Slots that have left the payload pipes, in the order of their commit.   *)
Leaving ==
    [n \in 1 .. core.ROB_num |-> core.ROB[(core.ROB_head + n - 1) % ROB_size]]
        \o SelectSeq([n \in 1 .. pre_commit_depth |-> core.pre[pre_commit_depth - n]], LAMBDA u : u # 0)

Issued(p) == Range(core.payload[p]) \cup UNION {Range(core.FU[p][k]) : k \in Units(p)}
UnderWay == UNION {Issued(p) : p \in Ports} \ {0}

\* The core is in order: behind can_issue_IO() no slot overtakes another, the
\* pre-commit pipe and the ROB hold them in program order without a gap, what is
\* still in payload pipes and units is younger, and what has committed is a prefix.
InOrder ==
    LET first == IF Leaving = <<>> THEN 0 ELSE Leaving[1]
        Next1(u) == Last(Slot(u)) + 1
    IN  /\ \A n \in 1 .. Len(Leaving) - 1 : Leaving[n + 1] = Next1(Leaving[n])
        /\ Leaving # <<>> => \A u \in UnderWay : fusion_head(u) >= fusion_head(Last(Leaving))
        /\ \A u \in Uops : core.u[u].committed => \A x \in 1 .. u : core.u[x].committed
        /\ first # 0 /\ first > 1 => core.u[first - 1].committed

Count(S) == Cardinality(S)
Live == {u \in Uops : core.u[u].port # 0 /\ ~core.u[u].committed}

\* Nothing is lost or leaked through stalls, squashes and flushes: an allocated
\* uop is in a payload pipe, a unit, the pre-commit pipe or the ROB with its slot,
\* the LDQ holds the loads that are still in a payload pipe, in order, and the
\* STQ's counters are those of its entries.
Kept ==
    LET c == core
        heads == {fusion_head(u) : u \in UnderWay \cup Range(Leaving)}
        loads == [n \in 1 .. c.LDQ_num |-> c.LDQ[(c.LDQ_head + n - 1) % LDQ_size].uop]
    IN  /\ \A u \in Live : fusion_head(u) \in heads
        /\ Range(loads) = {u \in Live : c.u[u].LDQ_index # -1} /\ 0 \notin Range(loads)
        /\ \A i, j \in DOMAIN loads : i < j => loads[i] < loads[j]
        /\ (c.LDQ_head + c.LDQ_num - c.LDQ_tail) % LDQ_size = 0
        /\ (c.STQ_senior_head + c.STQ_senior_num - c.STQ_tail) % STQ_size = 0
        /\ c.STQ_senior_num - c.STQ_num \in 0 .. STQ_size /\ c.STQ_num >= 0
        /\ c.ROB_eff_num = Count({u \in Uops : c.u[u].ROB_index >= 0})

\* No operand is lost: a uop that waits for the value of a parent which has it,
\* or which has committed, has been told.
ValueKept ==
    \A u \in Live : ~core.u[u].exec => \A d \in prog[u].deps :
        core.u[d].ovalue_valid \/ core.u[d].committed => d \in core.u[u].arrived

\* Neither a uop nor an operand is lost.
NothingLost == Kept /\ ValueKept

\* Every program runs to its end: in-order issue, the LDQ, the STQ and the serial
\* slots of the alloc pipe never wait for each other in a circle.
Drains == <>(\A u \in Uops : core.u[u].committed)
=============================================================================
