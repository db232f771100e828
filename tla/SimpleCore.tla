----------------------------- MODULE SimpleCore -----------------------------
(***************************************************************************)
(* The simple core, all of its stages: fetch-STM.cpp, decode-STM.cpp,      *)
(* alloc-STM.cpp, exec-STM.cpp and commit-STM.cpp, in the order in which   *)
(* sim_main_slave_pre_pin() and sim_main_slave_post_pin() call them.       *)
(*                                                                         *)
(* The core is one record, every function of the code an operator from     *)
(* core to core, and times are the cycles that remain.  A program is a     *)
(* sequence of uops; fetch goes on through it after a misprediction, what  *)
(* follows then is the wrong path, and is fetched again after recovery.    *)
(* new_action_id() turns what a structure holds of a uop into a dead       *)
(* entry, which is dropped where the code compares action_ids.             *)
(*                                                                         *)
(* uop_pool_t hands the memory of squashed uops to new ones while dead     *)
(* entries may point to it.  All structures but one look at the action_id  *)
(* first; RS_schedule() reads when_ready, so the pool is a part of the     *)
(* model: a pointer is a cell (its size, its number) and a position, and   *)
(* in_time is the set of pointers at which when_ready is not in the future.*)
(*                                                                         *)
(* Branch predictors, traps, REP and statistics are left out, and so is    *)
(* the watchdog of the commit stage.                                       *)
(***************************************************************************)
EXTENDS Integers, Sequences, FiniteSets, SequencesExt

CONSTANTS
    Programs,      \* programs, sequences of uops, see UopType
    ROB_size, RS_size, LDQ_size, STQ_size, byteQ_size, MopQ_size,
    NPorts,        \* num_exec_ports
    port_binding,  \* [kind -> set of ports], for the kinds that need a unit
    fu_latency, issue_rate,   \* [kind -> Nat]
    DL1_latency,
    decode_width, decode_depth, target_stage, alloc_width, commit_width,
    drain_flush,
    MaxFaults      \* bound: requests that caches do not take at once, and flushes

(* line: of the Mop's bytes.  taken: the Mop is predicted taken.  steer:   *)
(* where fetch is steered elsewhere after this Mop, at decode (the target  *)
(* is not the predicted one) and when its last uop is executed.            *)
UopType == [mop : Nat \ {0}, deps : SUBSET (Nat \ {0}), addr : Nat,
            kind : {"alu", "branch", "mul", "nop", "load", "sta", "std"},
            line : Nat, taken : BOOLEAN, steer : SUBSET {"decode", "exec"}]

ASSUME SimpleAssumption ==
    /\ \A P \in Programs : \A i \in DOMAIN P :
           /\ P[i] \in UopType /\ \A d \in P[i].deps : d < i
           /\ P[i].steer # {} => P[i].kind = "branch"     \* as in uop_cracker.cpp
           /\ P[i].kind = "sta" => i + 1 \in DOMAIN P /\ P[i + 1].kind = "std"
    /\ STQ_size > 0 /\ LDQ_size > 0 /\ target_stage \in 0 .. decode_depth - 2

VARIABLES prog,    \* chosen at the start
          core,    \* the state of the core, see InitCore
          pc,      \* the stage that runs next
          left     \* what is left of the bound

vars == <<prog, core, pc, left>>

-----------------------------------------------------------------------------
Uops == DOMAIN prog
Mop(u) == prog[u].mop
Mops == {Mop(u) : u \in Uops}
OfMop(m) == SelectSeq([u \in Uops |-> u], LAMBDA u : Mop(u) = m)
Line(m) == prog[OfMop(m)[1]].line
Ends(m) == prog[Last(OfMop(m))]     \* what is known of the Mop at its end
Kind(u) == prog[u].kind
is_load(u) == Kind(u) = "load"
is_sta(u) == Kind(u) = "sta"
is_std(u) == Kind(u) = "std"
is_nop(u) == Kind(u) = "nop"
Ports == 1 .. NPorts
Classes == <<"alu", "branch", "mul", "load", "sta", "std">>   \* fu_class
Units(p) == {k \in DOMAIN fu_latency : p \in port_binding[k]}

modinc(i, n) == IF i + 1 = n THEN 0 ELSE i + 1
moddec(i, n) == IF i = 0 THEN n - 1 ELSE i - 1
Least(S) == CHOOSE x \in S : \A y \in S : x <= y
Numbers(n) == [i \in 1 .. n |-> i]
Sorted(S) == SetToSortSeq(S, LAMBDA a, b : a < b)
Fold(Op(_, _), c, S) == FoldLeft(Op, c, Sorted(S))

(* gen: how often fetch has been redirected before; see uop_seq.           *)
NewUop == [alloc |-> FALSE, port |-> 0, RS |-> FALSE, in_readyQ |-> FALSE, issued |-> FALSE,
           completed |-> FALSE, committed |-> FALSE, spec |-> FALSE, ival |-> {}, gen |-> 0,
           LDQ_index |-> -1, STQ_index |-> -1, loaded |-> FALSE, translated |-> FALSE]

NoLDQ == [uop |-> 0, addr_valid |-> FALSE, issued |-> FALSE, hit_in_STQ |-> FALSE,
          store_color |-> 0, unchecked |-> FALSE]
NoSTQ == [sta |-> 0, std |-> 0, uop |-> 0, gen |-> 0, addr_valid |-> FALSE,
          value_valid |-> FALSE, next_load |-> 0]
NoLine == [line |-> 0, fetch_requested |-> FALSE, fetched |-> FALSE,
           translation_requested |-> FALSE, translated |-> FALSE, num_Mop |-> 0, first |-> 0]

InitCore ==
    [u |-> [u \in Uops |-> NewUop], gen |-> 0, failed |-> {},
     next |-> 1, oldest |-> 1, spec |-> FALSE, steer |-> [m \in Mops |-> {}],      \* the oracle
     cell |-> [m \in Mops |-> <<>>], free |-> [n \in 1 .. 4 |-> <<>>],
     cells |-> [n \in 1 .. 4 |-> 0], in_time |-> {}, dummies |-> {},               \* the uop pool
     byteQ |-> [i \in 0 .. byteQ_size - 1 |-> NoLine], byteQ_head |-> 0, byteQ_tail |-> 0,
     byteQ_num |-> 0, lines |-> {},                                                \* lines: requests
     pipe |-> [s \in 0 .. decode_depth - 1 |-> [i \in 1 .. decode_width |-> 0]],
     drain |-> FALSE, port_loading |-> [p \in Ports |-> 0], RS_num |-> 0,
     readyQ |-> [p \in Ports |-> <<>>], check_for_work |-> TRUE,
     FU |-> [p \in Ports |-> [k \in Units(p) |-> [pipe |-> <<>>, wait |-> 0]]],
     search |-> [p \in port_binding["load"] |-> <<>>], requests |-> {},
     LDQ |-> [i \in 0 .. LDQ_size - 1 |-> NoLDQ], LDQ_head |-> 0, LDQ_tail |-> 0, LDQ_num |-> 0,
     STQ |-> [i \in 0 .. STQ_size - 1 |-> NoSTQ], STQ_head |-> 0, STQ_tail |-> 0, STQ_num |-> 0,
     ROB |-> [i \in 0 .. ROB_size - 1 |-> 0], ROB_head |-> 0, ROB_tail |-> 0, ROB_num |-> 0]

Fail(c, what) == [c EXCEPT !.failed = @ \cup {what}]
Check(c, cond, what) == IF cond THEN c ELSE Fail(c, what)

(* uop_seq grows with every fetch.                                         *)
Before(g, u, h, x) == g < h \/ (g = h /\ u < x)
OlderThan(c, e, u) == Before(e.gen, e.uop, c.u[u].gen, u)

-----------------------------------------------------------------------------
(* The pool of uops.                                                       *)

Cells(c, cell) == {p \in c.in_time : p[1] = cell}
get_uop_array(c, n) ==
    LET fresh == c.free[n] = <<>>
        cell  == IF fresh THEN <<n, c.cells[n] + 1>> ELSE Head(c.free[n])
    IN  <<[c EXCEPT !.free[n] = IF fresh THEN @ ELSE Tail(@), !.cells[n] = IF fresh THEN @ + 1 ELSE @,
                    !.in_time = @ \ Cells(c, cell)], cell>>
return_uop_array(c, cell) == [c EXCEPT !.free[cell[1]] = <<cell>> \o @]
clear_uops(c, m) == [return_uop_array(c, c.cell[m]) EXCEPT !.cell[m] = <<>>]
Pointer(c, u) == <<c.cell[Mop(u)], u - OfMop(Mop(u))[1]>>

-----------------------------------------------------------------------------
(* The pipes of units and of the STQ search are heaps on pipe_exit_time.   *)

Swap(h, i, j) == [h EXCEPT ![i] = h[j], ![j] = h[i]]

(* The last of h has just been inserted.                                   *)
ALU_heap_balance(h) ==
    LET up(s, n) ==
            LET parent == s.pos \div 2
            IN  IF s.pos > 1 /\ s.h[parent].t > s.h[s.pos].t
                THEN [h |-> Swap(s.h, parent, s.pos), pos |-> parent] ELSE s
    IN  FoldLeft(up, [h |-> h, pos |-> Len(h)], Numbers(Len(h))).h

(* Without its root.  Where a child is smaller, the larger child comes up. *)
ALU_heap_remove(h) ==
    LET Child(g, i) == IF i <= Len(g) THEN {g[i].t} ELSE {}
        down(s, n) ==
            LET L == 2 * s.pos
                R == 2 * s.pos + 1
                to == IF Child(s.h, R) = {} \/ (s.h[L].t > s.h[R].t /\ s.h[s.pos].t > s.h[L].t) THEN L ELSE R
            IN  IF \E t \in Child(s.h, L) \cup Child(s.h, R) : s.h[s.pos].t > t
                THEN [h |-> Swap(s.h, to, s.pos), pos |-> to] ELSE s
        moved == [i \in 1 .. Len(h) - 1 |-> IF i = 1 THEN h[Len(h)] ELSE h[i]]
    IN  FoldLeft(down, [h |-> moved, pos |-> 1], Numbers(Len(h))).h

Insert(h, u, t) == ALU_heap_balance(Append(h, [uop |-> u, t |-> t]))
Due(h) == h # <<>> /\ h[1].t <= 0

-----------------------------------------------------------------------------
(* Squashing.                                                              *)

Drop(h, u) == [i \in DOMAIN h |-> IF h[i].uop = u THEN [h[i] EXCEPT !.uop = 0] ELSE h[i]]
new_action_id(c, u) ==
    [c EXCEPT !.readyQ = [p \in Ports |-> [i \in DOMAIN @[p] |->
                              IF @[p][i].uop = u THEN [@[p][i] EXCEPT !.live = FALSE] ELSE @[p][i]]],
              !.FU = [p \in Ports |-> [k \in Units(p) |-> [@[p][k] EXCEPT !.pipe = Drop(@, u)]]],
              !.search = [p \in DOMAIN @ |-> Drop(@[p], u)],
              !.requests = {r \in @ : r[1] # u}]

LDQ_squash(c, u) ==
    LET i == c.u[u].LDQ_index
    IN  [Check(c, i >= 0 /\ c.LDQ[i].uop = u /\ c.LDQ_num > 0, "LDQ_squash")
            EXCEPT !.LDQ[i] = NoLDQ, !.LDQ_num = @ - 1, !.LDQ_tail = moddec(@, LDQ_size),
                   !.u[u].LDQ_index = -1]

(* Mutant: the STQ keeps the STD.                                          *)
STQ_squash_std_keep(c, u) == [c EXCEPT !.u[u].STQ_index = -1]

STQ_squash_std(c, u) ==
    LET i == c.u[u].STQ_index
    IN  [Check(c, i >= 0 /\ c.STQ[i].std = u, "STQ_squash_std")
            EXCEPT !.STQ[i].std = 0, !.u[u].STQ_index = -1]

STQ_squash_sta(c, u) ==
    LET i == c.u[u].STQ_index
    IN  [Check(c, i >= 0 /\ c.STQ[i].sta = u /\ c.STQ[i].std = 0 /\ c.STQ_num > 0, "STQ_squash_sta")
            EXCEPT !.STQ[i] = NoSTQ, !.STQ_num = @ - 1, !.STQ_tail = moddec(@, STQ_size),
                   !.u[u].STQ_index = -1]

RS_deallocate(c, u) == [Check(c, c.RS_num > 0, "RS_num") EXCEPT !.RS_num = @ - 1, !.u[u].RS = FALSE]

(* alloc's RS_deallocate().                                                *)
Unload(c, u) ==
    LET p == c.u[u].port
    IN  [Check(c, c.port_loading[p] > 0, "port_loading") EXCEPT !.port_loading[p] = @ - 1]

(* The youngest uop leaves the ROB.  A uop that has issued and not yet     *)
(* finished keeps its share of port_loading.                               *)
SquashYoungest(c) ==
    LET i  == moddec(c.ROB_tail, ROB_size)
        u  == c.ROB[i]
        c1 == new_action_id(c, u)
        c2 == IF ~c.u[u].issued /\ c.u[u].port # 0 THEN Unload(c1, u) ELSE c1
        c3 == IF c.u[u].RS THEN RS_deallocate(c2, u) ELSE c2
        c4 == CASE is_load(u) -> LDQ_squash(c3, u)
                [] is_std(u)  -> STQ_squash_std(c3, u)
                [] is_sta(u)  -> STQ_squash_sta(c3, u)
                [] OTHER      -> c3
    IN  [Check(c4, c.ROB_num > 0, "ROB_num")
            EXCEPT !.ROB[i] = 0, !.ROB_tail = i, !.ROB_num = @ - 1, !.u[u] = NewUop]

(* The uops of the ROB that are younger than Mop m.                        *)
YoungerInROB(c, m) == {i \in DOMAIN c.ROB : c.ROB[i] # 0 /\ Mop(c.ROB[i]) > m}
commit_recover(c, m) ==
    LET dead == Cardinality(YoungerInROB(c, m))
        c1   == [c EXCEPT !.drain = @ \/ (drain_flush /\ dead > 0)]
    IN  FoldLeft(LAMBDA d, n : SquashYoungest(d), c1, Numbers(dead))

decode_recover(c, m) ==
    [c EXCEPT !.pipe = [s \in DOMAIN @ |-> [i \in DOMAIN @[s] |-> IF @[s][i] > m THEN 0 ELSE @[s][i]]]]

fetch_recover(c) ==
    [c EXCEPT !.byteQ = [i \in DOMAIN @ |-> NoLine], !.byteQ_head = 0, !.byteQ_tail = 0,
              !.byteQ_num = 0, !.lines = {}]

(* The oracle forgets the Mops after m and frees their uops.               *)
oracle_recover(c, m) ==
    [Fold(clear_uops, c, {n \in Mops : n > m /\ c.cell[n] # <<>>})
        EXCEPT !.next = m + 1, !.gen = @ + 1,
               !.spec = c.u[OfMop(m)[1]].spec \/ c.steer[m] # {},
               !.u = [u \in Uops |-> IF Mop(u) > m /\ ~c.u[u].alloc THEN NewUop ELSE @[u]]]

pipe_recover(c, m) ==
    LET c0 == [c EXCEPT !.steer[m] = {}]
    IN  fetch_recover(decode_recover(commit_recover(oracle_recover(c0, m), m), m))

Steers(c, u) == u = Last(OfMop(Mop(u))) /\ c.steer[Mop(u)] # {}

-----------------------------------------------------------------------------
(* The ready queues, in age order.                                         *)

insert_ready_uop(c, u) ==
    LET p    == c.u[u].port
        Q    == c.readyQ[p]
        node == [uop |-> u, live |-> TRUE, gen |-> c.u[u].gen, at |-> Pointer(c, u)]
        old  == Cardinality({i \in DOMAIN Q : \A j \in 1 .. i : OlderThan(c, Q[j], u)})
        ok   == p \in Ports /\ ~c.u[u].completed /\ ~c.u[u].issued /\ ~c.u[u].in_readyQ
    IN  [Check(c, ok, "insert_ready_uop")
            EXCEPT !.readyQ[p] = SubSeq(Q, 1, old) \o <<node>> \o SubSeq(Q, old + 1, Len(Q)),
                   !.u[u].in_readyQ = TRUE, !.in_time = @ \cup {node.at}]

(* The uops on the odep list of u.                                         *)
Odeps(c, u) == {x \in Uops : c.u[x].port # 0 /\ ~c.u[x].committed /\ u \in prog[x].deps \ c.u[x].ival}
AllReady(c, u) == prog[u].deps \subseteq c.u[u].ival

Wake(c, u) ==
    LET tell(d, x) ==
            LET d1 == [d EXCEPT !.u[x].ival = @ \cup {u}]
            IN  IF AllReady(d1, x) /\ ~d1.u[x].in_readyQ THEN insert_ready_uop(d1, x) ELSE d1
    IN  Fold(tell, c, Odeps(c, u))

(* u has its value: younger Mops go if it was a mispredicted branch, and   *)
(* those that wait for it get it.                                          *)
Completed(c, u) ==
    LET c1 == [Check(c, ~c.u[u].completed, "completed twice") EXCEPT !.u[u].completed = TRUE]
    IN  Wake(IF Steers(c, u) THEN pipe_recover(c1, Mop(u)) ELSE c1, u)

(* Nothing on the port is looked at while the uop in the memory of the     *)
(* first node is not ready, whoever that uop is.                           *)
Blocked(c, p) == c.readyQ[p] # <<>> /\ c.readyQ[p][1].at \notin c.in_time

CanIssue(c, p, x) ==
    LET F == c.FU[p][Kind(x.uop)]
    IN  x.live /\ F.wait <= 0 /\ Len(F.pipe) < fu_latency[Kind(x.uop)]

RS_port(c, p) ==
    LET Q     == c.readyQ[p]
        ready == {i \in DOMAIN Q : CanIssue(c, p, Q[i])}
        u     == Q[Least(ready)].uop
        k     == Kind(u)
        Live  == SelectSeq(Q, LAMBDA x : x.live)
    IN  CASE Blocked(c, p) -> c
          [] ~Blocked(c, p) /\ ready = {} -> [c EXCEPT !.readyQ[p] = Live]
          [] OTHER -> [c EXCEPT !.readyQ[p] = SelectSeq(Live, LAMBDA x : x.uop # u),
                                !.u[u].issued = TRUE, !.u[u].in_readyQ = FALSE,
                                !.FU[p][k] = [pipe |-> Insert(@.pipe, u, fu_latency[k]), wait |-> issue_rate[k]],
                                !.check_for_work = TRUE]

RS_schedule(c) == Fold(RS_port, c, Ports)

-----------------------------------------------------------------------------
(* Loads and stores.                                                       *)

STQ_back(i, k) == (i + STQ_size - k) % STQ_size      \* k entries before i

(* check_load_issue_conditions(): true if the STQ knows enough.            *)
Looked(c, u) ==
    LET color == c.LDQ[c.u[u].LDQ_index].store_color
        in(k) == LET i == STQ_back(color, k)
                 IN  modinc(i, STQ_size) # c.STQ_head /\ OlderThan(c, c.STQ[i], u)
    IN  {STQ_back(color, k) : k \in {k \in 0 .. c.STQ_num - 1 : \A n \in 0 .. k : in(n)}}

Match(c, u, i) == c.STQ[i].addr_valid /\ prog[c.STQ[i].uop].addr = prog[u].addr

(* Mutant: a load waits only for stores that are known to be in its way.   *)
check_load_issue_conditions_known(c, u) == \A i \in Looked(c, u) : Match(c, u, i) => c.STQ[i].value_valid

check_load_issue_conditions(c, u) ==
    LET S       == Looked(c, u)
        matches == {i \in S : Match(c, u, i)}
        younger == {i \in matches : \A j \in matches : ~Before(c.STQ[i].gen, c.STQ[i].uop, c.STQ[j].gen, c.STQ[j].uop)}
    IN  (\A i \in S : c.STQ[i].addr_valid) /\ (\A i \in younger : c.STQ[i].value_valid)

(* A load leaves the search: it takes the value of the youngest older      *)
(* store to its address, or waits for it, or for the cache.                *)
SearchSTQ(c, u) ==
    LET color == c.LDQ[c.u[u].LDQ_index].store_color
        in(k) == LET e == c.STQ[STQ_back(color, k)] IN e.sta # 0 /\ Before(c.u[e.sta].gen, e.sta, c.u[u].gen, u)
        hits  == {k \in 0 .. c.STQ_num - 1 : (\A n \in 0 .. k : in(n)) /\ Match(c, u, STQ_back(color, k))}
    IN  IF hits = {} THEN c
        ELSE IF c.STQ[STQ_back(color, Least(hits))].value_valid
        THEN Completed([c EXCEPT !.LDQ[c.u[u].LDQ_index].hit_in_STQ = TRUE], u)
        ELSE new_action_id(Check(c, ~c.u[u].completed, "completed twice"), u)

LDST_port(c, p) ==
    LET u == c.search[p][1].uop
    IN  IF ~Due(c.search[p]) THEN c
        ELSE LET c1 == IF u = 0 THEN c
                       ELSE IF c.u[u].LDQ_index >= 0 THEN SearchSTQ(c, u) ELSE Fail(c, "search of no load")
             IN  [c1 EXCEPT !.search[p] = ALU_heap_remove(@)]

LDST_exec(c) == Fold(LDST_port, c, port_binding["load"])

IssueLoad(c, u) ==
    LET p == c.u[u].port
        i == c.u[u].LDQ_index
    IN  [c EXCEPT !.u[u].loaded = FALSE, !.u[u].translated = FALSE,
                  !.requests = @ \cup {<<u, "tlb">>, <<u, "data">>},
                  !.search[p] = Insert(@, u, DL1_latency),
                  !.LDQ[i].issued = TRUE,
                  !.LDQ[i].unchecked = c.STQ_num = STQ_size /\ Looked(c, u) = {}]

(* refused: the loads whose access the DTLB or the DL1 does not take.      *)
LDQ_schedule(c, refused) ==
    LET try(d, n) ==
            LET e == d.LDQ[(c.LDQ_head + n - 1) % LDQ_size]
                i == (c.LDQ_head + n - 1) % LDQ_size
            IN  IF ~e.addr_valid \/ e.issued THEN d
                ELSE IF ~check_load_issue_conditions(d, e.uop) THEN [d EXCEPT !.LDQ[i].hit_in_STQ = FALSE]
                ELSE IF e.uop \in refused \/ Len(d.search[d.u[e.uop].port]) >= DL1_latency THEN d
                ELSE IssueLoad(d, e.uop)
    IN  FoldLeft(try, c, Numbers(c.LDQ_num))

(* Both halves of the store u are in the STQ: younger loads of its address *)
(* which wait are issued again, up to the first that another store covers. *)
Unblock(c, u) ==
    LET i        == c.u[u].STQ_index
        addr     == prog[c.STQ[i].uop].addr
        at(n)    == (c.STQ[i].next_load + n) % LDQ_size
        Younger(n) == LET x == c.LDQ[at(n)].uop IN x # 0 /\ Before(c.u[u].gen, u, c.u[x].gen, x)
        Between(n) == 1 .. (c.LDQ[at(n)].store_color + STQ_size - i) % STQ_size
        after(k) == (i + k) % STQ_size
        Over(k)  == c.STQ[after(k)].addr_valid /\ prog[c.STQ[after(k)].uop].addr = addr
        Covered(n) == \E k \in Between(n) : Over(k)
        seen     == {n \in 0 .. c.LDQ_num - 1 : \A k \in 0 .. n : Younger(k) /\ (k < n => ~Covered(k))}
        waits(n) == LET e == c.LDQ[at(n)]
                    IN  e.addr_valid /\ e.issued /\ prog[e.uop].addr = addr /\ ~c.u[e.uop].completed
        redo(d, n) == [new_action_id(d, c.LDQ[at(n)].uop)
                          EXCEPT !.LDQ[at(n)].issued = FALSE, !.LDQ[at(n)].hit_in_STQ = FALSE]
        end      == \E n \in seen : \E k \in Between(n) : after(k) = c.STQ_tail /\ ~\E j \in 1 .. k - 1 : Over(j)
    IN  Fold(redo, Check(c, ~end, "end of the STQ"), {n \in seen : ~Covered(n) /\ waits(n)})

(* Mutant: a store does not look for loads when its data comes last.       *)
StoreDone_sta(c, u) ==
    LET i  == c.u[u].STQ_index
        c1 == [c EXCEPT !.STQ[i] = IF is_sta(u) THEN [@ EXCEPT !.addr_valid = TRUE] ELSE [@ EXCEPT !.value_valid = TRUE]]
    IN  IF is_sta(u) /\ c1.STQ[i].value_valid THEN Unblock(c1, u) ELSE c1

StoreDone(c, u) ==
    LET i  == c.u[u].STQ_index
        ok == ~(IF is_sta(u) THEN c.STQ[i].addr_valid ELSE c.STQ[i].value_valid)
        c1 == [Check(c, ok, "STQ entry")
                  EXCEPT !.STQ[i] = IF is_sta(u) THEN [@ EXCEPT !.addr_valid = TRUE]
                                                 ELSE [@ EXCEPT !.value_valid = TRUE]]
    IN  IF c1.STQ[i].addr_valid /\ c1.STQ[i].value_valid THEN Unblock(c1, u) ELSE c1

Leave(c, p, k) == [c EXCEPT !.FU[p][k].pipe = ALU_heap_remove(@)]

Finish(c, u) ==
    LET c1 == IF is_load(u) THEN [c EXCEPT !.LDQ[c.u[u].LDQ_index].addr_valid = TRUE]
              ELSE Completed(IF is_sta(u) \/ is_std(u) THEN StoreDone(c, u) ELSE c, u)
        queued == (is_load(u) => c.u[u].LDQ_index >= 0) /\ (is_sta(u) \/ is_std(u) => c.u[u].STQ_index >= 0)
    IN  IF queued THEN Unload(RS_deallocate(c1, u), u) ELSE Fail(c, "not in its queue")

ALU_unit(c, p, k) ==
    LET h == c.FU[p][k].pipe
    IN  IF ~Due(h) THEN c
        ELSE IF h[1].uop = 0 THEN Leave(c, p, k) ELSE Finish(Leave(c, p, k), h[1].uop)

ALU_exec(c) ==
    LET work == \E p \in Ports : \E k \in Units(p) : c.FU[p][k].pipe # <<>>
        port(d, p) == FoldLeft(LAMBDA e, k : IF k \in Units(p) THEN ALU_unit(e, p, k) ELSE e, d, Classes)
    IN  IF ~c.check_for_work THEN c ELSE [Fold(port, c, Ports) EXCEPT !.check_for_work = work]

(* The caches answer a load.  A value is used if it has not come from the  *)
(* STQ.                                                                    *)
load_writeback(c, u) ==
    IF c.u[u].loaded /\ c.u[u].translated /\ ~c.LDQ[c.u[u].LDQ_index].hit_in_STQ THEN Completed(c, u) ELSE c

DTLB_callback(c, u) ==
    LET c1 == [c EXCEPT !.requests = @ \ {<<u, "tlb">>}]
    IN  IF c.u[u].LDQ_index = -1 THEN c1
        ELSE load_writeback([Check(c1, ~c.u[u].translated, "translated twice") EXCEPT !.u[u].translated = TRUE], u)

DL1_callback(c, u) ==
    LET c1 == [c EXCEPT !.requests = @ \ {<<u, "data">>}]
    IN  IF c.u[u].LDQ_index = -1 THEN c1
        ELSE load_writeback([Check(c1, ~c.u[u].loaded, "loaded twice") EXCEPT !.u[u].loaded = TRUE], u)

-----------------------------------------------------------------------------
(* Commit.                                                                 *)

LDQ_deallocate(c, u) ==
    [c EXCEPT !.LDQ[c.LDQ_head].uop = 0, !.LDQ_num = @ - 1, !.LDQ_head = modinc(@, LDQ_size),
              !.u[u].LDQ_index = -1]
STQ_deallocate_sta(c) == [c EXCEPT !.STQ[c.STQ_head].sta = 0]

(* The accesses of the store go on with uops of their own.                 *)
STQ_deallocate_std(c) ==
    LET a == get_uop_array(c, 1)
        b == get_uop_array(a[1], 1)
    IN  [b[1] EXCEPT !.dummies = @ \cup {a[2], b[2]}, !.STQ[c.STQ_head].std = 0,
                     !.STQ_num = @ - 1, !.STQ_head = modinc(@, STQ_size)]

MopComplete(c, m) == \A u \in Uops : Mop(u) = m => c.u[u].completed

Retire(c, u) ==
    LET c1 == CASE is_load(u) -> new_action_id(LDQ_deallocate(c, u), u)
                [] is_sta(u)  -> STQ_deallocate_sta(c)
                [] is_std(u)  -> STQ_deallocate_std(c)
                [] OTHER      -> c
        c2 == [c1 EXCEPT !.ROB[c.ROB_head] = 0, !.ROB_num = @ - 1, !.ROB_head = modinc(@, ROB_size),
                         !.u[u].committed = TRUE]
    IN  IF u # Last(OfMop(Mop(u))) THEN c2
        ELSE [clear_uops(c2, Mop(u)) EXCEPT !.oldest = @ + 1]

(* s.go: the loop goes on.  refused: the DL1 or the DTLB takes no store.   *)
CommitOldest(s, refused) ==
    LET c == s.c
        u == c.ROB[c.ROB_head]
    IN  IF ~s.go \/ c.ROB_num = 0 THEN s
        ELSE LET c1 == Check(c, ~c.u[u].spec, "oldest instruction on the wrong path")
             IN  IF ~MopComplete(c, Mop(u)) \/ (is_std(u) /\ refused) THEN [c |-> c1, go |-> FALSE]
                 ELSE [c |-> Retire(c1, u), go |-> TRUE]

commit_step(c, refused) ==
    FoldLeft(LAMBDA s, n : CommitOldest(s, refused), [c |-> c, go |-> TRUE], Numbers(commit_width)).c

-----------------------------------------------------------------------------
(* Decode and alloc.                                                       *)

LastStage == decode_depth - 1
InStage(c, s) == SelectSeq(c.pipe[s], LAMBDA m : m # 0)      \* oldest first
uop_available(c) == InStage(c, LastStage) # <<>>
uop_peek(c) == SelectSeq(OfMop(InStage(c, LastStage)[1]), LAMBDA u : ~c.u[u].alloc)[1]
uop_consume(c) ==
    LET u == uop_peek(c)
    IN  [c EXCEPT !.u[u].alloc = TRUE,
                  !.pipe[LastStage] = [i \in DOMAIN @ |-> IF u = Last(OfMop(Mop(u))) /\ @[i] = Mop(u) THEN 0 ELSE @[i]]]

ROB_insert(c, u) ==
    [c EXCEPT !.ROB[c.ROB_tail] = u, !.ROB_num = @ + 1, !.ROB_tail = modinc(@, ROB_size)]

LDQ_insert(c, u) ==
    [c EXCEPT !.LDQ[c.LDQ_tail] = [NoLDQ EXCEPT !.uop = u, !.store_color = moddec(c.STQ_tail, STQ_size)],
              !.u[u].LDQ_index = c.LDQ_tail, !.LDQ_num = @ + 1, !.LDQ_tail = modinc(@, LDQ_size)]

STQ_insert_sta(c, u) ==
    [c EXCEPT !.STQ[c.STQ_tail] = [NoSTQ EXCEPT !.sta = u, !.uop = u, !.gen = c.u[u].gen, !.next_load = c.LDQ_tail],
              !.u[u].STQ_index = c.STQ_tail, !.STQ_num = @ + 1, !.STQ_tail = modinc(@, STQ_size)]

STQ_insert_std(c, u) ==
    LET i == moddec(c.STQ_tail, STQ_size)
    IN  [Check(c, c.STQ[i].sta # 0 /\ Mop(c.STQ[i].uop) = Mop(u), "STD without STA")
            EXCEPT !.STQ[i].std = u, !.u[u].STQ_index = i]

AllocStalls(c, u) ==
    \/ c.ROB_num >= ROB_size
    \/ is_load(u) /\ c.LDQ_num >= LDQ_size
    \/ is_sta(u) /\ c.STQ_num >= STQ_size
    \/ ~is_nop(u) /\ c.RS_num >= RS_size

(* The least loaded port, the first of them.                               *)
Bind(c, u) ==
    LET S == port_binding[Kind(u)]
    IN  Least({p \in S : \A q \in S : c.port_loading[p] <= c.port_loading[q]})

Dispatch(c, u) ==
    LET p  == Bind(c, u)
        c1 == [c EXCEPT !.u[u].port = p, !.port_loading[p] = @ + 1, !.RS_num = @ + 1, !.u[u].RS = TRUE,
                        !.u[u].ival = {d \in prog[u].deps : c.u[d].committed \/ c.u[d].completed}]
    IN  IF AllReady(c1, u) THEN insert_ready_uop(c1, u) ELSE c1

AllocUop(s, n) ==
    IF ~s.go \/ ~uop_available(s.c) THEN s
    ELSE LET u  == uop_peek(s.c)
             c1 == ROB_insert(uop_consume(s.c), u)
             c2 == CASE is_load(u) -> LDQ_insert(c1, u)
                     [] is_sta(u)  -> STQ_insert_sta(c1, u)
                     [] is_std(u)  -> STQ_insert_std(c1, u)
                     [] OTHER      -> c1
         IN  IF AllocStalls(s.c, u) THEN [s EXCEPT !.go = FALSE]
             ELSE [c |-> IF is_nop(u) THEN [c2 EXCEPT !.u[u].issued = TRUE, !.u[u].completed = TRUE,
                                                      !.in_time = @ \cup {Pointer(c2, u)}]
                                     ELSE Dispatch(c2, u),
                   go |-> TRUE]

alloc_step(c) ==
    IF ~uop_available(c) \/ (c.drain /\ c.ROB_num > 0) THEN c
    ELSE FoldLeft(AllocUop, [c |-> [c EXCEPT !.drain = FALSE], go |-> TRUE], Numbers(alloc_width)).c

(* Mutant: the Mops behind the branch stay in the decode pipe.             *)
check_target_keep(c, m) ==
    LET c1 == [c EXCEPT !.steer[m] = @ \ {"decode"}]
    IN  fetch_recover(oracle_recover(c1, m))

(* Mop m has left the stage before s: is its target what was predicted?    *)
check_target(c, m) ==
    LET c1 == [c EXCEPT !.steer[m] = @ \ {"decode"}]
    IN  fetch_recover(decode_recover(oracle_recover(c1, m), m))

Move(c, s, i) == [c EXCEPT !.pipe[s][i] = c.pipe[s - 1][i], !.pipe[s - 1][i] = 0]

(* Stage s takes the Mops of the stage before; a target that is wrong ends *)
(* the step.                                                               *)
Advance(x, s) ==
    LET slot(y, i) ==
            LET m == y.c.pipe[s - 1][i]
                wrong == m # 0 /\ s - 1 = target_stage /\ "decode" \in y.c.steer[m]
            IN  IF ~y.go THEN y
                ELSE [c |-> Move(IF wrong THEN check_target(y.c, m) ELSE y.c, s, i), go |-> ~wrong]
    IN  IF ~x.go \/ InStage(x.c, s) # <<>> THEN x ELSE FoldLeft(slot, x, Numbers(decode_width))

Mop_available(c) ==
    LET e == c.byteQ[c.byteQ_head] IN c.byteQ_num > 0 /\ e.fetched /\ e.translated /\ e.num_Mop > 0

Reclaim(c) ==
    [c EXCEPT !.byteQ[c.byteQ_head] = [NoLine EXCEPT !.line = c.byteQ[c.byteQ_head].line], !.byteQ_num = @ - 1,
              !.byteQ_head = modinc(@, byteQ_size)]

Mop_consume(c) ==
    LET h  == c.byteQ_head
        c1 == [c EXCEPT !.byteQ[h].num_Mop = @ - 1, !.byteQ[h].first = @ + 1]
    IN  IF c1.byteQ[h].num_Mop <= 0 THEN Reclaim(c1) ELSE c1

Fetched(c, i) ==
    IF ~Mop_available(c) THEN c
    ELSE Mop_consume([c EXCEPT !.pipe[0][i] = c.byteQ[c.byteQ_head].first])

decode_step(c) ==
    LET moved == FoldLeft(LAMBDA x, n : Advance(x, decode_depth - n), [c |-> c, go |-> TRUE], Numbers(decode_depth - 1))
        c1 == moved.c
    IN  IF ~moved.go \/ InStage(c1, 0) # <<>> THEN c1 ELSE FoldLeft(Fetched, c1, Numbers(decode_width))

-----------------------------------------------------------------------------
(* Fetch.                                                                  *)

byteQ_last(c) == moddec(c.byteQ_tail, byteQ_size)
byteQ_already_requested(c, line) == c.byteQ_num > 0 /\ c.byteQ[byteQ_last(c)].line = line

byteQ_request(c, line) ==
    LET e == [NoLine EXCEPT !.line = line, !.num_Mop = c.byteQ[c.byteQ_tail].num_Mop,
                            !.first = c.byteQ[c.byteQ_tail].first]
    IN  [c EXCEPT !.byteQ[c.byteQ_tail] = e, !.byteQ_tail = modinc(@, byteQ_size), !.byteQ_num = @ + 1]

(* The oracle has a Mop for fetch.                                         *)
oracle_exec(c) == c.next \in Mops /\ c.next - c.oldest < MopQ_size

Stalled(c) ==
    \/ ~oracle_exec(c)
    \/ ~byteQ_already_requested(c, Line(c.next)) /\ c.byteQ_num >= byteQ_size

Consume(c) ==
    LET m  == c.next
        c1 == IF byteQ_already_requested(c, Line(m)) THEN c ELSE byteQ_request(c, Line(m))
        i  == byteQ_last(c1)
        a  == get_uop_array(c1, Len(OfMop(m)))
    IN  [a[1] EXCEPT !.byteQ[i].first = IF c1.byteQ[i].num_Mop = 0 THEN m ELSE @, !.byteQ[i].num_Mop = @ + 1,
                     !.cell[m] = a[2], !.steer[m] = Ends(m).steer, !.next = m + 1,
                     !.u = [u \in Uops |-> IF Mop(u) = m THEN [NewUop EXCEPT !.spec = c.spec, !.gen = c.gen] ELSE @[u]],
                     !.spec = @ \/ Ends(m).steer # {}]

(* do_fetch() returns true: fetch goes on in the same line.                *)
SameLine(c) == ~Stalled(c) /\ ~Ends(c.next).taken /\ c.next + 1 \in Mops /\ Line(c.next + 1) = Line(c.next)
do_fetch(c) == IF Stalled(c) THEN c ELSE Consume(c)

(* A line that has arrived and whose Mops have all been read.              *)
post_fetch(c) ==
    LET e == c.byteQ[c.byteQ_head]
    IN  IF c.byteQ_num > 0 /\ e.fetched /\ e.translated /\ e.num_Mop <= 0 THEN Reclaim(c) ELSE c

(* The oldest line that has not been asked for, of each cache.             *)
Asking(c, done(_)) ==
    LET S == {n \in 0 .. c.byteQ_num - 1 : ~done(c.byteQ[(c.byteQ_head + n) % byteQ_size])}
    IN  IF S = {} THEN {} ELSE {(c.byteQ_head + Least(S)) % byteQ_size}
AskIL1(c) ==
    LET S == Asking(c, LAMBDA e : e.fetch_requested)
    IN  [c EXCEPT !.lines = @ \cup {<<i, "data">> : i \in S},
                  !.byteQ = [i \in DOMAIN @ |-> IF i \in S THEN [@[i] EXCEPT !.fetch_requested = TRUE] ELSE @[i]]]
AskITLB(c) ==
    LET S == Asking(c, LAMBDA e : e.translation_requested)
    IN  [c EXCEPT !.lines = @ \cup {<<i, "tlb">> : i \in S},
                  !.byteQ = [i \in DOMAIN @ |-> IF i \in S THEN [@[i] EXCEPT !.translation_requested = TRUE] ELSE @[i]]]
pre_fetch(c, refused) ==
    LET c1 == IF "IL1" \in refused THEN c ELSE AskIL1(c)
    IN  IF "ITLB" \in refused THEN c1 ELSE AskITLB(c1)

(* One cycle later.                                                        *)
Later(h) == [i \in DOMAIN h |-> [h[i] EXCEPT !.t = @ - 1]]
Tick(c) ==
    [c EXCEPT !.FU = [p \in Ports |-> [k \in Units(p) |->
                          [pipe |-> Later(@[p][k].pipe), wait |-> IF @[p][k].wait = 0 THEN 0 ELSE @[p][k].wait - 1]]],
              !.search = [p \in DOMAIN @ |-> Later(@[p])]]

(* sim_drain_pipe(): all that has not committed goes.  A store of which    *)
(* one half has committed does not leave the STQ.                          *)
RecoverAll(c) ==
    LET c1 == Fold(clear_uops, c, {m \in Mops : c.cell[m] # <<>>})
        c2 == FoldLeft(LAMBDA d, n : SquashYoungest(d), c1, Numbers(c.ROB_num))
        c3 == Check(c2, c2.STQ_num = 0, "flush of half a store")
    IN  [fetch_recover(decode_recover(Check(c3, c2.LDQ_num = 0, "flush of the LDQ"), 0))
            EXCEPT !.next = c.oldest, !.gen = @ + 1, !.spec = FALSE,
                   !.u = [u \in Uops |-> IF Mop(u) >= c.oldest THEN NewUop ELSE @[u]]]

-----------------------------------------------------------------------------
Init ==
    /\ prog \in Programs
    /\ core = InitCore
    /\ pc = "mem"
    /\ left = MaxFaults

Stage(from, to, c) == pc = from /\ pc' = to /\ core' = c /\ UNCHANGED prog
Refuse(S) == Cardinality(S) <= left /\ left' = left - Cardinality(S)

SearchStage == Stage("mem", "caches", LDST_exec(core)) /\ UNCHANGED left

(* The caches' part of LDST_exec().  Data come after the translation, and  *)
(* not before the time that the search of the STQ takes.                   *)
Early(c, u) == \E p \in DOMAIN c.search : \E i \in DOMAIN c.search[p] : c.search[p][i].uop = u /\ c.search[p][i].t > 0
AnswerLoad(u, which) ==
    /\ <<u, which>> \in core.requests
    /\ which = "data" => core.u[u].translated /\ ~Early(core, u)
    /\ Stage("caches", "caches", IF which = "tlb" THEN DTLB_callback(core, u) ELSE DL1_callback(core, u))
    /\ UNCHANGED left

AnswerStore(cell) ==
    /\ cell \in core.dummies
    /\ Stage("caches", "caches", [return_uop_array(core, cell) EXCEPT !.dummies = @ \ {cell}])
    /\ UNCHANGED left

EndCaches == Stage("caches", "commit", core) /\ UNCHANGED left

CommitStage ==
    \E S \in SUBSET {"store"} : Stage("commit", "alu", commit_step(core, S # {})) /\ Refuse(S)

ALUStage == Stage("alu", "ldq", ALU_exec(core)) /\ UNCHANGED left

Waiting(c) == {c.LDQ[i].uop : i \in {i \in DOMAIN c.LDQ : c.LDQ[i].uop # 0 /\ c.LDQ[i].addr_valid /\ ~c.LDQ[i].issued}}
LDQStage ==
    \E S \in SUBSET Waiting(core) : Stage("ldq", "rs", LDQ_schedule(core, S)) /\ Refuse(S)

RSStage == Stage("rs", "alloc", RS_schedule(core)) /\ UNCHANGED left
AllocStage == Stage("alloc", "decode", alloc_step(core)) /\ UNCHANGED left
DecodeStage == Stage("decode", "lines", decode_step(core)) /\ UNCHANGED left

IL1_callback(c, i) == [c EXCEPT !.lines = @ \ {<<i, "data">>}, !.byteQ[i].fetched = TRUE]
ITLB_callback(c, i) == [c EXCEPT !.lines = @ \ {<<i, "tlb">>}, !.byteQ[i].translated = TRUE]
AnswerLine(i, which) ==
    /\ <<i, which>> \in core.lines
    /\ which = "data" => core.byteQ[i].translated
    /\ Stage("lines", "lines", IF which = "tlb" THEN ITLB_callback(core, i) ELSE IL1_callback(core, i))
    /\ UNCHANGED left

PostFetchStage == Stage("lines", "fetch", post_fetch(core)) /\ UNCHANGED left
FetchStage == Stage("fetch", IF SameLine(core) THEN "fetch" ELSE "pre", do_fetch(core)) /\ UNCHANGED left
PreFetchStage ==
    \E S \in SUBSET {"IL1", "ITLB"} : Stage("pre", "mem", Tick(pre_fetch(core, S))) /\ Refuse(S)

FlushCore ==
    /\ left > 0
    /\ Stage("mem", "mem", RecoverAll(core))
    /\ left' = left - 1

Answer ==
    \/ \E r \in core.requests : AnswerLoad(r[1], r[2])
    \/ \E r \in core.lines : AnswerLine(r[1], r[2])
    \/ \E cell \in core.dummies : AnswerStore(cell)

Next ==
    \/ SearchStage \/ Answer \/ EndCaches \/ CommitStage \/ ALUStage \/ LDQStage \/ RSStage
    \/ AllocStage \/ DecodeStage \/ PostFetchStage \/ FetchStage \/ PreFetchStage \/ FlushCore

Spec == Init /\ [][Next]_vars

(* Cycles go on, and while accesses are under way caches answer them.      *)
FairSpec ==
    /\ Spec
    /\ []<>(pc = "fetch") /\ []<>(pc = "mem")
    /\ []<>(core.requests = {} /\ core.lines = {} /\ core.dummies = {}) \/ []<><<Answer>>_vars

-----------------------------------------------------------------------------
\* No assertion or fatal() of the five stages is reached; the one that a flush
\* between the two halves of a store reaches is a known one, and so is the second
\* completion of a load that shares the search pipe of its port with another.
NoAbort == core.failed \subseteq {"flush of half a store"}

InROB == [n \in 1 .. core.ROB_num |-> core.ROB[(core.ROB_head + n - 1) % ROB_size]]
InDecode == FlattenSeq([n \in 1 .. decode_depth |-> InStage(core, decode_depth - n)])
Lines == [n \in 1 .. core.byteQ_num |-> core.byteQ[(core.byteQ_head + n - 1) % byteQ_size]]
InLines == FlattenSeq([n \in DOMAIN Lines |-> [k \in 1 .. Lines[n].num_Mop |-> Lines[n].first + k - 1]])

\* From the byteQ over decode to the ROB every Mop is once and in order, through
\* resteers, recoveries and flushes, up to the one that fetch asks for next; and no
\* line stays in the byteQ with all its Mops read, which post_fetch() looks for
\* because "the simulator seems to get stuck".
FlowInOrder ==
    LET Ahead == InDecode \o InLines
        uops  == SelectSeq([u \in Uops |-> u], LAMBDA u : core.u[u].alloc /\ ~core.u[u].committed)
    IN  /\ \A n \in DOMAIN Ahead : Ahead[n] = core.next - 1 - Len(Ahead) + n
        /\ InROB = uops
        /\ \A u \in Uops : core.u[u].alloc => \A x \in 1 .. u : core.u[x].alloc \/ core.u[x].committed
        /\ \A n \in DOMAIN Lines : Lines[n].num_Mop > 0

HalfStore == "flush of half a store" \in core.failed
Stores == SelectSeq([u \in Uops |-> u], LAMBDA u : is_sta(u) /\ core.u[u].alloc /\ ~core.u[u + 1].committed)

\* The counters of the RS, the LDQ and the STQ are those of their entries, LDQ and
\* STQ hold what the ROB holds, in order, and port_loading never falls below the
\* uops that are bound to the port and have not been executed.
Accounted ==
    LET c == core
    IN  /\ c.RS_num = Cardinality({u \in Uops : c.u[u].RS})
        /\ [n \in 1 .. c.LDQ_num |-> c.LDQ[(c.LDQ_head + n - 1) % LDQ_size].uop] = SelectSeq(InROB, is_load)
        /\ \/ HalfStore
           \/ [n \in 1 .. c.STQ_num |-> c.STQ[(c.STQ_head + n - 1) % STQ_size].uop] = Stores
        /\ \A p \in Ports : c.port_loading[p] >= Cardinality({u \in Uops : c.u[u].RS /\ c.u[u].port = p})

Nodes(u) == {x \in Range(core.readyQ[core.u[u].port]) : x.live /\ x.uop = u}

\* No wake-up is lost or doubled: a uop in the RS knows of every parent that has
\* its value, and is in the queue of its port exactly when it has them all and has
\* not been issued.
WakeupKept ==
    \A u \in Uops : core.u[u].port # 0 /\ ~core.u[u].issued =>
        /\ \A d \in prog[u].deps : core.u[d].completed => d \in core.u[u].ival
        /\ Cardinality(Nodes(u)) = IF AllReady(core, u) THEN 1 ELSE 0

\* A load does not overtake: once it has its value, older stores in the STQ have
\* their addresses, and those to its address have given it to the load.  This does
\* not hold for a load that was issued while the STQ was full of older stores, of
\* which check_load_issue_conditions() looks at none.
LoadsOrdered ==
    \A i \in DOMAIN core.LDQ, j \in DOMAIN core.STQ :
        LET e == core.LDQ[i]
            s == core.STQ[j]
        IN  e.uop # 0 /\ core.u[e.uop].completed /\ ~e.unchecked /\ s.sta # 0 /\ s.sta < e.uop
            => s.addr_valid /\ (prog[s.sta].addr = prog[e.uop].addr => e.hit_in_STQ)

\* The pool may reuse memory at once: a port is never kept waiting by a node of a
\* squashed uop whose memory belongs to a uop that is not ready, because RS_schedule()
\* drops the nodes of squashed uops before fetch or a store takes their memory.
PoolSafe ==
    \A p \in Ports :
        /\ ~Blocked(core, p)
        /\ \A n \in DOMAIN core.readyQ[p] :
               LET x == core.readyQ[p][n] IN x.live <=> core.u[x.uop].in_readyQ /\ x.at = Pointer(core, x.uop)

\* What the five stages keep about a uop in several places agrees.
Bookkeeping == FlowInOrder /\ Accounted /\ WakeupKept /\ PoolSafe

\* Every program runs to its end: the stages, the queues and the drain after a
\* misprediction never wait for each other in a circle.
Drains == <>(HalfStore \/ \A u \in Uops : core.u[u].committed)
=============================================================================
