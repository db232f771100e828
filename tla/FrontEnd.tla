------------------------------ MODULE FrontEnd ------------------------------
(***************************************************************************)
(* The front end of a DPM core: fetch-DPM.cpp and decode-DPM.cpp, with the *)
(* branch predictor of BranchUnit, the part of the oracle they rely on     *)
(* (the MopQ and its recoveries) and a back end that consumes uops,        *)
(* resolves branches, nukes loads and commits.                             *)
(*                                                                         *)
(* A cycle is a sequence of stages in the order of the simulation loop.    *)
(* Queues are sequences, pipes keep their slots, and a Mop is named by its *)
(* slot in the MopQ (0 stands for NULL).  Action ids, which make late      *)
(* answers and jeclears of flushed work void, are a flag of what they      *)
(* guard.  REP prefixes (has_rep is never set), traps, the check for page  *)
(* zero (lookup() never predicts it) and statistics are left out.          *)
(***************************************************************************)
EXTENDS BranchUnit

CONSTANTS
    Programs,         \* [ins : address -> instruction, path : the addresses that are executed]
    JeclearDelays,    \* values of fetch.jeclear_delay
    MopQ_size, line_size,
    byteQ_size, fetch_width, fetch_depth, IQ_size,
    decode_width, decode_depth, target_stage, max_uops, branch_decode_limit, MS_latency, uopQ_size,
    alloc_width, commit_width,
    Stalls            \* bound: refused requests, late answers, stalled allocations and resolutions, nukes

Kinds == {"alu", "cond", "jmp", "call", "ret", "ijmp"}
Pos == Nat \ {0}
ASSUME FrontEndAssumption ==
    /\ \A p \in Programs :
           /\ Len(p.path) > 1
           /\ \A a \in DOMAIN p.ins :
                  /\ a > 1 /\ p.ins[a].kind \in Kinds /\ p.ins[a].len \in Pos
                  /\ p.ins[a].tgt \in Nat /\ p.ins[a].wrong \in BOOLEAN
                  /\ p.ins[a].flow # <<>>
           /\ \A k \in 1 .. Len(p.path) - 1 : p.path[k] \in DOMAIN p.ins
    /\ JeclearDelays \subseteq Nat
    /\ MopQ_size \in Pos /\ line_size \in Pos /\ byteQ_size \in Pos
    /\ fetch_width \in Pos /\ fetch_depth \in Pos /\ IQ_size \in Pos
    /\ decode_width \in Pos /\ decode_depth \in Pos /\ uopQ_size \in Pos
    /\ target_stage \in 1 .. decode_depth - 1
    /\ max_uops \in [1 .. decode_width -> Nat] /\ branch_decode_limit \in Nat /\ MS_latency \in Nat
    /\ alloc_width \in Pos /\ commit_width \in Pos /\ Stalls \in Nat

VARIABLES
    prog,    \* the program and its trace
    c,       \* the core
    pc,      \* the stage whose turn it is
    left     \* stalls that may still happen
vars == <<prog, c, pc, left>>

-----------------------------------------------------------------------------
(* Instructions.  Where the program has none, the oracle makes up a NOP.   *)

NOP == [kind |-> "alu", len |-> 1, tgt |-> 0, wrong |-> FALSE, flow |-> <<1>>]
Ins(p, a) == IF a \in DOMAIN p.ins THEN p.ins[a] ELSE NOP
IsCtrl(i) == i.kind # "alu"
UNCOND(i) == IsCtrl(i) /\ i.kind # "cond"
NumUops(i) == Len(SelectSeq(i.flow, LAMBDA e : e > 0))
Line(a) == a \div line_size

(* The Mop for address a: the kth instruction of the trace, or one of a    *)
(* wrong path if k = 0.                                                    *)
NewMop(p, a, k) ==
    LET i == Ins(p, a)
        ftPC == a + i.len
        npc  == IF k > 0 THEN p.path[k + 1]
                ELSE IF UNCOND(i) \/ (i.kind = "cond" /\ i.wrong) THEN i.tgt ELSE ftPC
    IN  [PC |-> a, k |-> k, i |-> i, ftPC |-> ftPC, NextPC |-> npc, taken_branch |-> npc # ftPC,
         targetPC |-> IF i.kind \in {"ret", "ijmp"} THEN npc ELSE i.tgt,
         pred_NPC |-> ftPC, bpred_update |-> 0, last_stage_index |-> 0, MS |-> 0,
         taken_uops |-> 0, resolved |-> FALSE, jeclear_in_flight |-> FALSE]

-----------------------------------------------------------------------------
(* The MopQ.                                                               *)

next_index(s) == (s % MopQ_size) + 1
Slot(r, j) == ((r.MopQ_head + j - 2) % MopQ_size) + 1      \* of the jth oldest Mop
MopQ(r) == [j \in 1 .. r.MopQ_num |-> Slot(r, j)]
Live(r) == {Slot(r, j) : j \in 1 .. r.MopQ_num}
Age(r, s) == CHOOSE j \in 1 .. r.MopQ_num : Slot(r, j) = s
Empty(n) == [i \in 1 .. n |-> 0]
EmptyPipe(depth, width) == [s \in 1 .. depth |-> Empty(width)]
NoJeclear == [Mop |-> 0, New_PC |-> 0, valid |-> FALSE]

(* A slot that is not in use; clear() before reuse forgets what it held.   *)
NoMop == [PC |-> 0, ftPC |-> 0, bpred_update |-> 0, MS |-> 0, jeclear_in_flight |-> FALSE]

CoreInit(p, cfg, delay) ==
    [PC |-> p.path[1], Mop |-> [s \in 1 .. MopQ_size |-> NoMop],
     MopQ_head |-> 1, MopQ_num |-> 0, current_Mop |-> 0, first_byte |-> FALSE, spec_mode |-> FALSE, fed |-> 1,
     byteQ |-> <<>>, pipe |-> EmptyPipe(fetch_depth, fetch_width), IQ |-> <<>>,
     decode |-> EmptyPipe(decode_depth, decode_width), uopQ |-> <<>>,
     jeclear |-> [i \in 1 .. delay |-> NoJeclear],
     b |-> bpred_init(cfg), committed |-> 0, failed |-> FALSE]

Check(r, cond) == IF cond THEN r ELSE [r EXCEPT !.failed = TRUE]

-----------------------------------------------------------------------------
(* Recovery.                                                               *)

Void(r, s) == [i \in DOMAIN r.jeclear |-> IF r.jeclear[i].Mop = s THEN [r.jeclear[i] EXCEPT !.valid = FALSE] ELSE r.jeclear[i]]

(* The youngest Mop leaves the MopQ.                                       *)
undo(r) ==
    LET s  == Slot(r, r.MopQ_num)
        id == r.Mop[s].bpred_update
        b  == IF id = 0 THEN r.b ELSE return_state_cache(flush(r.b, id), id)
    IN  [r EXCEPT !.b = b, !.MopQ_num = @ - 1, !.jeclear = Void(r, s), !.Mop[s] = NoMop]

oracle_recover(r, s) ==
    LET n == Age(r, s)
        undone == FoldLeft(LAMBDA acc, j : undo(acc), r, [j \in 1 .. r.MopQ_num - n |-> j])
        k == r.Mop[s].k
    IN  IF s \notin Live(r) THEN Check(r, FALSE)      \* ran out of Mops
        ELSE [undone EXCEPT !.spec_mode = (k = 0), !.fed = IF k = 0 THEN @ ELSE k + 1,
                            !.current_Mop = 0, !.first_byte = FALSE]

(* Walks a pipe from its youngest Mop and stops at s.                      *)
Younger(pipe, s, st, i) ==
    \A t \in DOMAIN pipe : \A j \in DOMAIN pipe[t] :
        pipe[t][j] = s => st < t \/ (st = t /\ i > j)
recover_decode_pipe(r, s) ==
    [r EXCEPT !.decode = [st \in DOMAIN @ |-> [i \in DOMAIN @[st] |-> IF Younger(@, s, st, i) THEN 0 ELSE @[st][i]]]]
InDecode(r, s) == \E st \in DOMAIN r.decode : \E i \in DOMAIN r.decode[st] : r.decode[st][i] = s

(* Down to the youngest uop of s, or down to nothing.                      *)
recover_uopQ(r, s) ==
    LET mine == {j \in DOMAIN r.uopQ : r.uopQ[j].Mop = s}
    IN  [r EXCEPT !.uopQ = IF mine = {} THEN <<>> ELSE SubSeq(@, 1, Max(mine))]
decode_recover(r, s) == IF InDecode(r, s) THEN recover_decode_pipe(r, s) ELSE recover_uopQ(recover_decode_pipe(r, s), s)

(* Mutant: the predecode pipe is not cleared.                              *)
fetch_recover_pipe(r, new_PC) == [r EXCEPT !.PC = new_PC, !.byteQ = <<>>, !.IQ = <<>>]
fetch_recover(r, new_PC) ==
    [r EXCEPT !.PC = new_PC, !.byteQ = <<>>, !.IQ = <<>>, !.pipe = EmptyPipe(fetch_depth, fetch_width)]

bpred_recover(r, s, taken) ==
    IF r.Mop[s].bpred_update = 0 THEN r ELSE [r EXCEPT !.b = recover(@, r.Mop[s].bpred_update, taken)]

(* All of the pipeline recovers; what is in flight behind decode is part   *)
(* of the MopQ.                                                            *)
RecoverAll(r, s, New_PC) ==
    LET predicted == bpred_recover(r, s, New_PC # r.Mop[s].ftPC)
    IN  fetch_recover(decode_recover(oracle_recover(predicted, s), s), New_PC)

(* Mutant: the first jeclear of a cycle is kept.                           *)
jeclear_enqueue_first(r, s, New_PC) ==
    IF r.jeclear[1].Mop # 0 THEN r
    ELSE [r EXCEPT !.jeclear = [Void(r, s) EXCEPT ![1] = [Mop |-> s, New_PC |-> New_PC, valid |-> TRUE]],
                   !.Mop[s].jeclear_in_flight = TRUE]

(* The older of two jeclears of a cycle is kept.                           *)
jeclear_enqueue(r, s, New_PC) ==
    LET first == r.jeclear[1].Mop
        kept  == [r EXCEPT !.jeclear = [Void(r, s) EXCEPT ![1] = [Mop |-> s, New_PC |-> New_PC, valid |-> TRUE]],
                           !.Mop[s].jeclear_in_flight = TRUE]
    IN  IF first # 0 /\ Age(r, s) >= Age(r, first) THEN r ELSE kept

pipe_recover(r, s, New_PC) ==
    IF r.jeclear = <<>> THEN RecoverAll(r, s, New_PC) ELSE jeclear_enqueue(r, s, New_PC)

(* The Mop at s and everything after it is fetched again.                  *)
pipe_flush(r, s) ==
    LET prev == Slot(r, Age(r, s) - 1)
        npc  == r.Mop[prev].NextPC
    IN  pipe_recover([r EXCEPT !.Mop[prev].pred_NPC = npc], prev, npc)

-----------------------------------------------------------------------------
(* The back end, as far as the front end can see it (external to these two *)
(* files): uops are consumed in order, branches resolve in any order.      *)

(* Commit, with the training of the predictor.                             *)
CommitOne(r) ==
    LET s == r.MopQ_head
        m == r.Mop[s]
        b == IF m.bpred_update = 0 THEN r.b
             ELSE return_state_cache(update(r.b, m.bpred_update, m.i.kind, m.PC, m.ftPC, m.targetPC, m.NextPC, m.taken_branch),
                                     m.bpred_update)
    IN  Check([r EXCEPT !.b = b, !.Mop[s] = NoMop, !.MopQ_head = next_index(s), !.MopQ_num = @ - 1, !.committed = m.k],
               m.k = r.committed + 1)
(* Mutant: a branch commits with its jeclear still travelling.             *)
Committable_early(r) ==
    LET m == r.Mop[r.MopQ_head] IN r.MopQ_num > 0 /\ m.resolved
Committable(r) ==
    LET m == r.Mop[r.MopQ_head] IN r.MopQ_num > 0 /\ m.resolved /\ ~m.jeclear_in_flight
commit(r) == FoldLeft(LAMBDA acc, j : IF Committable(acc) THEN CommitOne(acc) ELSE acc, r, [j \in 1 .. commit_width |-> j])

Consumed(m) == m.taken_uops = NumUops(m.i)
Unresolved(r) == {s \in Live(r) : Consumed(r.Mop[s]) /\ ~r.Mop[s].resolved}

(* A branch that went elsewhere than predicted calls for a jeclear.        *)
Resolve(r, s) ==
    LET m == r.Mop[s]
        done == [r EXCEPT !.Mop[s].resolved = TRUE]
    IN  IF s \notin Unresolved(r) THEN r          \* flushed by a branch of the same cycle
        ELSE IF IsCtrl(m.i) /\ m.NextPC # m.pred_NPC
        THEN pipe_recover([done EXCEPT !.Mop[s].pred_NPC = m.NextPC], s, m.NextPC)
        ELSE done

uop_consume(r) ==
    LET s == Head(r.uopQ).Mop IN [r EXCEPT !.uopQ = Tail(@), !.Mop[s].taken_uops = @ + 1]
alloc(r) == FoldLeft(LAMBDA acc, j : IF acc.uopQ = <<>> THEN acc ELSE uop_consume(acc), r, [j \in 1 .. alloc_width |-> j])

-----------------------------------------------------------------------------
(* Decode.                                                                 *)

Occupied(stage) == \E i \in DOMAIN stage : stage[i] # 0

(* A bad target is found at decode: phantom branches, wrong targets of     *)
(* taken ones.                                                             *)
Phantom(m) == ~IsCtrl(m.i) /\ m.pred_NPC # m.ftPC
WrongTarget(m) == IsCtrl(m.i) /\ (m.pred_NPC # m.ftPC \/ UNCOND(m.i)) /\ m.pred_NPC # m.targetPC
check_target(r, s) ==
    LET m == r.Mop[s]
        right == IF Phantom(m) THEN m.ftPC ELSE m.targetPC
        repaired == IF WrongTarget(m) THEN bpred_recover(r, s, TRUE) ELSE r
    IN  [fetch_recover(recover_decode_pipe(oracle_recover(repaired, s), s), right) EXCEPT !.Mop[s].pred_NPC = right]

MoveOne(r, st, i) ==
    [r EXCEPT !.decode = [@ EXCEPT ![st] = [@ EXCEPT ![i] = r.decode[st - 1][i]], ![st - 1] = [@ EXCEPT ![i] = 0]]]
(* Stages are numbered from 1 here and from 0 in the knob.                 *)
check_flush(r, st, i) ==
    LET s == r.decode[st - 1][i]
        bad == s # 0 /\ st - 2 = target_stage /\ (Phantom(r.Mop[s]) \/ WrongTarget(r.Mop[s]))
    IN  [r |-> MoveOne(IF bad THEN check_target(r, s) ELSE r, st, i), on |-> ~bad, fill |-> ~bad]

(* A stage advances if the next one is empty and no microcode is pending.  *)
AdvanceStage(a, st) ==
    LET lead == a.r.decode[st - 1][1]
    IN  IF ~a.on \/ Occupied(a.r.decode[st]) THEN a
        ELSE IF lead # 0 /\ a.r.Mop[lead].MS > 0 THEN [a EXCEPT !.on = FALSE, !.fill = TRUE]
        ELSE FoldLeft(LAMBDA acc, i : IF acc.on THEN check_flush(acc.r, st, i) ELSE acc,
                      a, [i \in 1 .. decode_width |-> i])
Advance(r) ==
    FoldLeft(LAMBDA acc, j : AdvanceStage(acc, decode_depth + 1 - j), [r |-> r, on |-> TRUE, fill |-> TRUE],
             [j \in 1 .. decode_depth - 1 |-> j])

(* Uops of the last stage go to the uopQ, fused bodies with their heads.   *)
Heads(flow, a, b) == Cardinality({u \in a .. b : flow[u] > 0})
EmitMop(r, i) ==
    LET s == r.decode[decode_depth][i]
        m == r.Mop[s]
        from == m.last_stage_index
        room == uopQ_size - Len(r.uopQ)
        n == Max({j \in 0 .. Len(m.i.flow) - from : j = 0 \/ Heads(m.i.flow, from + 1, from + j - 1) < room})
        new == SelectSeq([j \in 1 .. n |-> [Mop |-> s, uop |-> from + j]], LAMBDA u : m.i.flow[u.uop] > 0)
    IN  IF s = 0 \/ room = 0 THEN r
        ELSE [r EXCEPT !.uopQ = @ \o new, !.Mop[s].last_stage_index = from + n,
                       !.decode[decode_depth][i] = IF from + n = Len(m.i.flow) THEN 0 ELSE s]
Emit(r) == FoldLeft(EmitMop, r, [i \in 1 .. decode_width |-> i])

(* Decoder i takes the next Mop of the IQ.  The first one may use the      *)
(* microcode sequencer.                                                    *)
TakeMop(a, i) ==
    LET s   == Head(a.r.IQ)
        ins == a.r.Mop[s].i
        big == max_uops[i] # 0 /\ NumUops(ins) > max_uops[i]
        tooManyBranches == IsCtrl(ins) /\ branch_decode_limit # 0 /\ a.branches >= branch_decode_limit
    IN  IF a.stop \/ a.r.IQ = <<>> \/ a.r.decode[1][i] # 0 THEN a
        ELSE IF tooManyBranches \/ (i > 1 /\ big) THEN [a EXCEPT !.stop = TRUE]
        ELSE [a EXCEPT !.r.IQ = Tail(@), !.r.decode[1][i] = s, !.branches = @ + Bit(IsCtrl(ins)),
                       !.r.Mop[s].MS = IF big THEN MS_latency + 1 ELSE 0]
FillDecoders(r) == FoldLeft(TakeMop, [r |-> r, branches |-> 0, stop |-> FALSE], [i \in 1 .. decode_width |-> i]).r

Tick(r) == [r EXCEPT !.Mop = [s \in DOMAIN @ |-> [@[s] EXCEPT !.MS = Max({0, @ - 1})]]]
decode_step(r) ==
    LET a == Advance(Emit(r)) IN Tick(IF a.fill THEN FillDecoders(a.r) ELSE a.r)

-----------------------------------------------------------------------------
(* Fetch.                                                                  *)

ToIQ(r) ==
    LET last == r.pipe[fetch_depth]
        leaving == SelectSeq(last, LAMBDA s : s # 0)
        n == Min({Len(leaving), IQ_size - Len(r.IQ)})
        gone == {leaving[j] : j \in 1 .. n}
    IN  [r EXCEPT !.IQ = @ \o SubSeq(leaving, 1, n),
                  !.pipe[fetch_depth] = [i \in DOMAIN @ |-> IF @[i] \in gone THEN 0 ELSE @[i]]]
Shuffle(r) ==
    FoldLeft(LAMBDA acc, j : LET st == fetch_depth + 1 - j
                             IN  IF Occupied(acc.pipe[st]) THEN acc
                                 ELSE [acc EXCEPT !.pipe = [@ EXCEPT ![st] = acc.pipe[st - 1], ![st - 1] = Empty(fetch_width)]],
             r, [j \in 1 .. fetch_depth - 1 |-> j])

(* Behind the last occupied slot of the first stage.                       *)
FreeIndex(stage) == Max({0} \cup {i \in DOMAIN stage : stage[i] # 0}) + 1
(* Mutant: a line that has no Mop of its own stays.                        *)
FromByteQ_stuck(r) ==
    LET e == Head(r.byteQ)
        free == FreeIndex(r.pipe[1])
        n == Min({e.num_Mop, fetch_width + 1 - free})
        MopAt(j) == ((e.first - 1 + j) % MopQ_size) + 1
        rest == [e EXCEPT !.num_Mop = @ - n, !.first = MopAt(n)]
    IN  IF r.byteQ = <<>> THEN r
        ELSE IF ~(e.fetched /\ e.translated) \/ e.num_Mop = 0 THEN r
        ELSE [r EXCEPT !.pipe[1] = [i \in DOMAIN @ |-> IF i \in free .. free + n - 1 THEN MopAt(i - free) ELSE @[i]],
                       !.byteQ = IF rest.num_Mop = 0 THEN Tail(@) ELSE <<rest>> \o Tail(@)]
(* The oldest line, once it is here, gives its Mops to the predecode pipe. *)
FromByteQ(r) ==
    LET e == Head(r.byteQ)
        free == FreeIndex(r.pipe[1])
        n == Min({e.num_Mop, fetch_width + 1 - free})
        MopAt(j) == ((e.first - 1 + j) % MopQ_size) + 1
        rest == [e EXCEPT !.num_Mop = @ - n, !.first = MopAt(n)]
    IN  IF r.byteQ = <<>> THEN r
        ELSE IF ~(e.fetched /\ e.translated) THEN r
        ELSE [r EXCEPT !.pipe[1] = [i \in DOMAIN @ |-> IF i \in free .. free + n - 1 THEN MopAt(i - free) ELSE @[i]],
                       !.byteQ = IF rest.num_Mop = 0 THEN Tail(@) ELSE <<rest>> \o Tail(@)]
(* cache_process() of the ITLB and of the IL1, which waits for the         *)
(* translation; lines in late are not answered in this cycle.              *)
Answer(r, late) ==
    [r EXCEPT !.byteQ = [j \in DOMAIN @ |->
        LET tr == @[j].translated \/ (@[j].translation_requested /\ j \notin late)
        IN  [@[j] EXCEPT !.translated = tr, !.fetched = @ \/ (r.byteQ[j].fetch_requested /\ tr /\ j \notin late)]]]
post_fetch(r, late) == FromByteQ(Shuffle(ToIQ(Answer(r, late))))

byteQ_is_full(r) == Len(r.byteQ) >= byteQ_size
byteQ_already_requested(r, a) == r.byteQ # <<>> /\ r.byteQ[Len(r.byteQ)].addr = Line(a)
byteQ_request(r, a) ==
    [r EXCEPT !.byteQ = Append(@, [addr |-> Line(a), fetch_requested |-> FALSE, fetched |-> FALSE,
                                   translation_requested |-> FALSE, translated |-> FALSE, num_Mop |-> 0, first |-> 0])]

(* The oracle executes the instruction at PC, unless it has one already.   *)
oracle_exec(r, p) ==
    LET spec == r.spec_mode \/ r.PC # p.path[r.fed]
        s == Slot(r, r.MopQ_num + 1)
        k == IF spec THEN 0 ELSE r.fed
    IN  IF r.current_Mop # 0 \/ r.MopQ_num >= MopQ_size \/ (~spec /\ r.fed = Len(p.path)) THEN r
        ELSE [r EXCEPT !.Mop[s] = NewMop(p, r.PC, k), !.MopQ_num = @ + 1, !.current_Mop = s,
                       !.spec_mode = spec, !.fed = IF spec THEN @ ELSE @ + 1]

(* The Mop's bytes are all requested: it belongs to the last line, and     *)
(* says where to fetch next.                                               *)
Attach(r, s) ==
    LET n == Len(r.byteQ)
    IN  [r EXCEPT !.byteQ[n].first = IF r.byteQ[n].num_Mop = 0 THEN s ELSE @, !.byteQ[n].num_Mop = @ + 1,
                  !.current_Mop = 0, !.first_byte = FALSE]
Steered(r, s, pred) == [r EXCEPT !.Mop[s].pred_NPC = pred, !.PC = pred]
PredictedBy(r, s, b, id) ==
    [Steered(r, s, b.sc[id].our_target) EXCEPT !.b = b, !.Mop[s].bpred_update = id]
Predict(r, s) ==
    LET m == r.Mop[s]
        got == get_state_cache(r.b)
        found == lookup(got.b, got.id, m.i.kind, m.PC, m.ftPC, m.targetPC, m.taken_branch)
    IN  IF IsCtrl(m.i) THEN PredictedBy(r, s, spec_update(found, got.id, m.i.kind), got.id)
        ELSE Steered(r, s, m.NextPC)

(* The Mop m is fetched.  Fetch goes on within the line at start.          *)
Fetched(r, m, start) ==
    [r |-> r,
     more |-> /\ ~m.taken_branch
              /\ \A a \in {m.PC, m.ftPC - 1, r.PC} : Line(a) = Line(start)]

(* The lines of the first and of the last byte must be in the byteQ.       *)
FetchLast(r, m, start) ==
    LET s == r.current_Mop
        haveLast == byteQ_already_requested(r, m.ftPC - 1)
        lined == IF haveLast THEN r ELSE byteQ_request(r, m.ftPC - 1)
    IN  IF ~haveLast /\ byteQ_is_full(r) THEN [r |-> [r EXCEPT !.first_byte = TRUE], more |-> FALSE]
        ELSE Fetched(Predict(Attach(lined, s), s), m, start)
FetchFirst(r, start) ==
    LET m == r.Mop[r.current_Mop]
        haveFirst == r.first_byte \/ byteQ_already_requested(r, m.PC)
    IN  IF r.current_Mop = 0 \/ (~haveFirst /\ byteQ_is_full(r)) THEN [r |-> r, more |-> FALSE]
        ELSE FetchLast(IF haveFirst THEN r ELSE byteQ_request(r, m.PC), m, start)
do_fetch(r, p) == FetchFirst(oracle_exec(r, p), r.PC)

(* The first line that waits for its request and that the cache takes.     *)
RequestFetch(r, refused) ==
    LET J == {j \in DOMAIN r.byteQ \ refused : ~r.byteQ[j].fetch_requested}
    IN  IF J = {} THEN r ELSE [r EXCEPT !.byteQ[Min(J)].fetch_requested = TRUE]
RequestTranslation(r, refused) ==
    LET J == {j \in DOMAIN r.byteQ \ refused : ~r.byteQ[j].translation_requested}
    IN  IF J = {} THEN r ELSE [r EXCEPT !.byteQ[Min(J)].translation_requested = TRUE]

(* The jeclear at the end of its pipe takes effect if it is still valid.   *)
ProcessJeclear(r) ==
    LET n == Len(r.jeclear)
        e == r.jeclear[n]
        recovered == [RecoverAll(r, e.Mop, e.New_PC) EXCEPT !.Mop[e.Mop].jeclear_in_flight = FALSE]
        q == IF e.Mop # 0 /\ e.valid THEN recovered ELSE r
    IN  IF n = 0 THEN r
        ELSE [q EXCEPT !.jeclear = [i \in 1 .. n |-> IF i = 1 THEN NoJeclear ELSE q.jeclear[i - 1]]]
(* il1 and itlb are the lines that cache_enqueuable() refuses.             *)
pre_fetch(r, il1, itlb) == ProcessJeclear(RequestTranslation(RequestFetch(r, il1), itlb))

-----------------------------------------------------------------------------
Init ==
    /\ prog \in Programs
    /\ \E cfg \in Configs, d \in JeclearDelays : c = CoreInit(prog, cfg, d)
    /\ pc = "commit" /\ left = Stalls

Stage(from, to) == pc = from /\ pc' = to /\ UNCHANGED prog
Commit == Stage("commit", "exec") /\ c' = commit(c) /\ UNCHANGED left

(* Branches of a cycle resolve in the order of their ports.                *)
Exec ==
    /\ Stage("exec", "nuke")
    /\ \E late \in SUBSET Unresolved(c), oldestFirst \in BOOLEAN :
           LET ready == SelectSeq(MopQ(c), LAMBDA s : s \in Unresolved(c) \ late)
           IN  /\ Bit(late # {}) <= left /\ left' = left - Bit(late # {})
               /\ c' = FoldLeft(Resolve, c, IF oldestFirst THEN ready ELSE Reverse(ready))
(* A load that ran too early is nuked.                                     *)
NoNuke == Stage("nuke", "alloc") /\ UNCHANGED <<c, left>>
Nuke ==
    /\ Stage("nuke", "alloc") /\ left > 0 /\ left' = left - 1
    /\ \E s \in Live(c) :
           /\ s # c.MopQ_head /\ ~IsCtrl(c.Mop[s].i) /\ Consumed(c.Mop[s])
           /\ c' = pipe_flush(c, s)
Alloc ==
    /\ Stage("alloc", "decode")
    /\ \/ c' = alloc(c) /\ UNCHANGED left
       \/ left > 0 /\ c.uopQ # <<>> /\ left' = left - 1 /\ UNCHANGED c
Decode == Stage("decode", "post_fetch") /\ c' = decode_step(c) /\ UNCHANGED left
PostFetch ==
    /\ Stage("post_fetch", "fetch")
    /\ \E late \in SUBSET {j \in DOMAIN c.byteQ : c.byteQ[j].translation_requested /\ ~c.byteQ[j].fetched} :
           /\ Bit(late # {}) <= left /\ left' = left - Bit(late # {})
           /\ c' = post_fetch(c, late)
FetchUpTo(f) ==
    /\ Stage("fetch", IF f.more THEN "fetch" ELSE "pre_fetch")
    /\ c' = f.r /\ UNCHANGED left
Fetch == FetchUpTo(do_fetch(c, prog))
PreFetch ==
    /\ Stage("pre_fetch", "commit")
    /\ \E il1 \in SUBSET {j \in DOMAIN c.byteQ : ~c.byteQ[j].fetch_requested},
          itlb \in SUBSET {j \in DOMAIN c.byteQ : ~c.byteQ[j].translation_requested} :
           LET refuses == Bit(il1 \cup itlb # {}) IN
           /\ refuses <= left /\ left' = left - refuses
           /\ c' = pre_fetch(c, il1, itlb)

Next == Commit \/ Exec \/ NoNuke \/ Nuke \/ Alloc \/ Decode \/ PostFetch \/ Fetch \/ PreFetch
Spec == Init /\ [][Next]_vars

(* Cycles go on: the simulation loop steps an active core for ever.        *)
FairSpec == Spec /\ []<>(pc = "commit") /\ []<>(pc = "fetch")

-----------------------------------------------------------------------------
(* Properties.                                                             *)

(* What commits is the trace, instruction by instruction: no Mop of a      *)
(* wrong path reaches the head of the MopQ with its jeclear still          *)
(* travelling (the assertion in commit-DPM.cpp), whatever the order in     *)
(* which branches resolve, loads are nuked and lines arrive.               *)
OnlyTheTrace == ~c.failed

(* Mops that the back end has not seen yet, as the front end holds them.   *)
InPipe(pipe) == SelectSeq(FlattenSeq(Reverse(pipe)), LAMBDA s : s # 0)
InLines == FlattenSeq([j \in DOMAIN c.byteQ |->
               [n \in 1 .. c.byteQ[j].num_Mop |-> ((c.byteQ[j].first + n - 2) % MopQ_size) + 1]])
InUopQ == SelectSeq([j \in DOMAIN c.uopQ |->
              IF j > 1 THEN (IF c.uopQ[j - 1].Mop = c.uopQ[j].Mop THEN 0 ELSE c.uopQ[j].Mop) ELSE c.uopQ[j].Mop], LAMBDA s : s # 0)
Half == SelectSeq(InPipe(c.decode), LAMBDA s : InUopQ = <<>> \/ InUopQ[Len(InUopQ)] # s)
Unsent(s) == ~Consumed(c.Mop[s]) \/ InDecode(c, s)

(* Lines, predecode pipe, IQ, decode pipe and uopQ, each of which recovers *)
(* by a rule of its own (by line, entirely, by walking back to a Mop),     *)
(* hold together exactly the Mops of the MopQ that the back end has not    *)
(* consumed, once each and in program order.                               *)
FlowInOrder ==
    InUopQ \o Half \o c.IQ \o InPipe(c.pipe) \o InLines \o (IF c.current_Mop = 0 THEN <<>> ELSE <<c.current_Mop>>)
        = SelectSeq(MopQ(c), Unsent)

(* Mops of the trace behind which everything is going to be flushed.       *)
WillResteer(s) ==
    /\ c.Mop[s].k > 0
    /\ \/ c.Mop[s].pred_NPC # c.Mop[s].NextPC
       \/ \E i \in DOMAIN c.jeclear : c.jeclear[i].Mop = s /\ c.jeclear[i].valid

(* Whenever fetch is or is about to be on a wrong path, an older Mop of    *)
(* the trace is still going to resteer it: no misprediction is forgotten   *)
(* when jeclears meet in one cycle, when decode resteers first, or when a  *)
(* nuke patches the prediction of the Mop before it.                       *)
Doomed ==
    /\ \A s \in Live(c) : c.Mop[s].k = 0 => \E o \in Live(c) : Age(c, o) < Age(c, s) /\ WillResteer(o)
    /\ c.spec_mode \/ (c.current_Mop = 0 /\ c.PC # prog.path[c.fed]) => \E o \in Live(c) : WillResteer(o)

Held == {s \in Live(c) : c.Mop[s].bpred_update # 0}
InPool == {j \in DOMAIN c.b.pool : c.b.pool[j] # 0}
(* Every state cache ever allocated is either in the pool once or belongs  *)
(* to one Mop in flight: none leaks and none is shared, over flushes,      *)
(* commits and the growth of the pool.                                     *)
CachesOwned ==
    /\ \A s, t \in Held : s # t => c.Mop[s].bpred_update # c.Mop[t].bpred_update
    /\ \A i, j \in InPool : i # j => c.b.pool[i] # c.b.pool[j]
    /\ LET held == {c.Mop[s].bpred_update : s \in Held}
           pool == {c.b.pool[j] : j \in InPool}
       IN  held \cap pool = {} /\ held \cup pool = 1 .. c.b.SC_debt

(* "The update rules ensure that there will always be a three", which is   *)
(* what ends the search of fusion-priority's lookup() inside the table.    *)
AlwaysAThree ==
    c.b.cfg.fusion = "priority" =>
        \A i \in DOMAIN c.b.meta : \E j \in DOMAIN c.b.meta[i] : c.b.meta[i][j] = MY2BC_STRONG_TAKEN

(* All of the trace commits: no line without Mops, microcode delay, full   *)
(* queue or lost resteer stops the front end for good.                     *)
Drains == <>(c.committed = Len(prog.path) - 1)
=============================================================================
