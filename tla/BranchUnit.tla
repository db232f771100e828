----------------------------- MODULE BranchUnit -----------------------------
(***************************************************************************)
(* The branch predictor of a core (zesto-bpred.cpp): direction predictors, *)
(* the fusion that picks one of their answers, the targets (BTBs), the     *)
(* return address stack and the pool of state caches, in which a           *)
(* prediction leaves what its update or its repair needs later.            *)
(*                                                                         *)
(* b is the state of a predictor, and every operator below returns its     *)
(* next one.  Pointers into tables are indices.  Two-bit counters have the *)
(* encoding of 2bitc.h.  Histories are as wide as history_length, except   *)
(* after a repair, which does not mask.  Tables are indexed without Xor.   *)
(* Statistics, warm-up and random choices are left out.                    *)
(***************************************************************************)
EXTENDS Integers, Sequences, FiniteSets, SequencesExt, FiniteSetsExt

CONSTANTS
    Configs,          \* predictors that are built, see ConfigType
    history_length,
    num_entries,      \* sets of the BTB for direct jumps
    num_ways,         \* of a set of a BTB
    RAS_size,
    pool_size         \* state caches that fit in the pool at first

Directions == {"taken", "nottaken", "btfnt", "2bC", "2lev", "bimode", "yags", "perceptron"}
ConfigType == [preds : Seq(Directions), fusion : {"singleton", "oracle", "mcfarling", "multihybrid", "priority"},
               bht_size : {1, 2}, ibtb : BOOLEAN, ras : {"stack", "multistack"}]

ASSUME BranchAssumption ==
    /\ \A f \in Configs :
           /\ f \in ConfigType /\ f.preds # <<>>
           /\ f.fusion = "mcfarling" => Len(f.preds) = 2
           /\ f.fusion = "multihybrid" => Len(f.preds) = 4
    /\ history_length \in Nat \ {0} /\ num_ways \in Nat \ {0} /\ num_entries \in Nat \ {0}
    /\ RAS_size \in Nat \ {0} /\ pool_size \in Nat \ {0}

Bit(d) == IF d THEN 1 ELSE 0
modinc(i, n) == IF i + 1 = n THEN 0 ELSE i + 1
moddec(i, n) == IF i = 0 THEN n - 1 ELSE i - 1

-----------------------------------------------------------------------------
(* Two-bit counters: transitions are packed in a table of two-bit entries. *)

MY2BC_STRONG_TAKEN == 3
MY2BC_WEAKLY_TAKEN == 1
MY2BC_WEAKLY_NT == 2
Packed(table, ctr, d) == (table \div 4 ^ (2 * ctr + Bit(d))) % 4
MY2BC_DIR(ctr) == ctr % 2 = 1
MY2BC_UPDATE(ctr, d) == Packed(54504, ctr, d)     \* 0xD4E8
MY2BC_COND_INC(ctr, p) == Packed(63192, ctr, p)   \* 0xF6D8
MY2BC_COND_DEC(ctr, p) == Packed(29328, ctr, p)   \* 0x7290
WeakBy(i) == IF i % 2 = 1 THEN MY2BC_WEAKLY_TAKEN ELSE MY2BC_WEAKLY_NT

-----------------------------------------------------------------------------
(* Histories.                                                              *)

history_range == 2 ^ history_length
Shift(h, d) == (2 * h + Bit(d)) % history_range
ShiftUnmasked(h, d) == 2 * h + Bit(d)
pht_size == 2 * history_range
(* (PC << history_length) | bhr, where bhr may have a bit too many.        *)
l2index(PC, h) == (h % history_range) + history_range * Bit(PC % 2 = 1 \/ (h \div history_range) % 2 = 1)

-----------------------------------------------------------------------------
(* Direction predictors.  A predictor keeps histories in bht (bhr, if it   *)
(* has a single one), counters or weights in t and the tags of yags in     *)
(* tag.  What lookup() finds goes to the state cache: the prediction, the  *)
(* history, and in x the entries that update() will train.                 *)

Table(Ctr(_)) == [i \in 0 .. pht_size - 1 |-> Ctr(i)]
AllWeak(ctr) == Table(LAMBDA i : ctr)
Predictor(bht_size, t) ==
    [bht |-> [i \in 0 .. bht_size - 1 |-> 0], t |-> t, tag |-> [n \in 2 .. 3 |-> Table(LAMBDA i : 0)]]
Bhr(s, PC) == s.bht[PC % Cardinality(DOMAIN s.bht)]
Answers(s, PC, pred, x) == [pred |-> pred, l1 |-> PC % Cardinality(DOMAIN s.bht), lookup_bhr |-> Bhr(s, PC), x |-> x]
Trained(s, n, i, outcome) == [s EXCEPT !.t[n][i] = MY2BC_UPDATE(@, outcome)]

bpred_taken_lookup(s, PC) == Answers(s, PC, TRUE, 0)
bpred_nottaken_lookup(s, PC) == Answers(s, PC, FALSE, 0)
bpred_btfnt_lookup(s, PC, tPC) == Answers(s, PC, tPC < PC, 0)

bpred_2bC_init == Predictor(1, <<Table(WeakBy)>>)
bpred_2bC_lookup(s, PC) == Answers(s, PC, MY2BC_DIR(s.t[1][PC % pht_size]), PC % pht_size)
bpred_2bC_update(s, x, outcome) == Trained(s, 1, x, outcome)

bpred_2lev_init(bht_size) == Predictor(bht_size, <<Table(WeakBy)>>)
bpred_2lev_lookup(s, PC) ==
    LET l2 == l2index(PC, Bhr(s, PC)) IN Answers(s, PC, MY2BC_DIR(s.t[1][l2]), l2)
bpred_2lev_update(s, x, outcome) == Trained(s, 1, x, outcome)

(* A choice between two tables, pht[0] and pht[1] (here 2 and 3).          *)
bpred_bimode_init(bht_size) ==
    Predictor(bht_size, <<Table(WeakBy), AllWeak(MY2BC_WEAKLY_NT), AllWeak(MY2BC_WEAKLY_TAKEN)>>)
bpred_bimode_lookup(s, PC) ==
    LET at == PC % pht_size
        n  == IF MY2BC_DIR(s.t[1][at]) THEN 3 ELSE 2
        l2 == l2index(PC, Bhr(s, PC))
    IN  Answers(s, PC, MY2BC_DIR(s.t[n][l2]), [n |-> n, l2 |-> l2, at |-> at])
bpred_bimode_update(s, x, outcome) ==
    LET select == MY2BC_DIR(s.t[1][x.at])
        pred   == MY2BC_DIR(s.t[x.n][x.l2])
        r      == Trained(s, x.n, x.l2, outcome)
    IN  IF pred = outcome /\ select # outcome THEN r ELSE Trained(r, 1, x.at, outcome)

(* Two tagged tables keep the exceptions to the choice: NT_cache (2) those *)
(* to taken, T_cache (3) those to not taken.                               *)
bpred_yags_init(bht_size) ==
    Predictor(bht_size, <<Table(WeakBy), AllWeak(MY2BC_WEAKLY_NT), AllWeak(MY2BC_WEAKLY_TAKEN)>>)
bpred_yags_lookup(s, PC) ==
    LET at == PC % pht_size
        choice == MY2BC_DIR(s.t[1][at])
        n  == IF choice THEN 2 ELSE 3
        l2 == l2index(PC, Bhr(s, PC))
        match == s.tag[n][l2] = PC
        pred  == IF match THEN MY2BC_DIR(s.t[n][l2]) ELSE choice
    IN  Answers(s, PC, pred, [n |-> n, l2 |-> l2, at |-> at, match |-> match, choice |-> choice, pred |-> pred])
bpred_yags_update(s, x, PC, outcome) ==
    LET missed == ~x.match /\ x.choice # outcome
        r == IF x.match \/ missed THEN Trained(s, x.n, x.l2, outcome) ELSE s
        tagged == IF missed THEN [r EXCEPT !.tag[x.n][x.l2] = PC] ELSE r
    IN  IF x.pred = outcome /\ x.choice # outcome THEN tagged ELSE Trained(tagged, 1, x.at, outcome)

(* Weights for the bits of one history of less than 64 bits.               *)
theta == (193 * history_length) \div 100 + 14
theta_log == CHOOSE w \in 0 .. theta : 2 ^ w <= theta /\ theta < 2 ^ (w + 1)
weight_max == 2 ^ (IF theta = 2 ^ theta_log THEN theta_log + 1 ELSE theta_log) - 1
weight_min == -weight_max - 1
HistBit(h, i) == (h \div 2 ^ i) % 2 = 1
bpred_perceptron_init ==
    Predictor(1, [i \in 0 .. pht_size - 1 |-> [w \in 0 .. history_length |-> 0]])
bpred_perceptron_lookup(s, PC) ==
    LET top == s.t[PC % pht_size]
        sum == FoldLeft(LAMBDA acc, i : acc + (IF HistBit(s.bht[0], i - 1) THEN top[i] ELSE -top[i]),
                        top[0], [i \in 1 .. history_length |-> i])
    IN  Answers(s, PC, sum >= 0, [at |-> PC % pht_size, sum |-> sum])
Nudge(w, up) == IF up THEN Min({w + 1, weight_max}) ELSE Max({w - 1, weight_min})
bpred_perceptron_update(s, x, lookup_bhr, outcome) ==
    IF (x.sum >= 0) # outcome \/ (x.sum < theta /\ x.sum > -theta)
    THEN [s EXCEPT !.t[x.at] = [w \in DOMAIN @ |->
             Nudge(@[w], IF w = 0 THEN outcome ELSE HistBit(lookup_bhr, w - 1) = outcome)]]
    ELSE s

dir_init(kind, bht_size) ==
    CASE kind = "2bC"    -> bpred_2bC_init
      [] kind = "2lev"   -> bpred_2lev_init(bht_size)
      [] kind = "bimode" -> bpred_bimode_init(bht_size)
      [] kind = "yags"   -> bpred_yags_init(bht_size)
      [] kind = "perceptron" -> bpred_perceptron_init
      [] OTHER -> Predictor(1, <<>>)
dir_lookup(kind, s, PC, tPC) ==
    CASE kind = "taken"    -> bpred_taken_lookup(s, PC)
      [] kind = "nottaken" -> bpred_nottaken_lookup(s, PC)
      [] kind = "btfnt"    -> bpred_btfnt_lookup(s, PC, tPC)
      [] kind = "2bC"      -> bpred_2bC_lookup(s, PC)
      [] kind = "2lev"     -> bpred_2lev_lookup(s, PC)
      [] kind = "bimode"   -> bpred_bimode_lookup(s, PC)
      [] kind = "yags"     -> bpred_yags_lookup(s, PC)
      [] kind = "perceptron" -> bpred_perceptron_lookup(s, PC)
(* At commit, with the entries found at lookup.                            *)
dir_update(kind, s, sc, PC, outcome) ==
    CASE kind = "2bC"    -> bpred_2bC_update(s, sc.x, outcome)
      [] kind = "2lev"   -> bpred_2lev_update(s, sc.x, outcome)
      [] kind = "bimode" -> bpred_bimode_update(s, sc.x, outcome)
      [] kind = "yags"   -> bpred_yags_update(s, sc.x, PC, outcome)
      [] kind = "perceptron" -> bpred_perceptron_update(s, sc.x, sc.lookup_bhr, outcome)
      [] OTHER -> s

(* The four that remember treat their histories alike.  Only a single      *)
(* global one is repaired, not local ones.                                 *)
Remembers(kind) == kind \in {"2lev", "bimode", "yags", "perceptron"}
dir_spec_update(kind, s, sc, our_pred) ==
    IF Remembers(kind) THEN [s EXCEPT !.bht[sc.l1] = Shift(@, our_pred)] ELSE s
Global(s) == DOMAIN s.bht = {0}
dir_recover(kind, s, sc, outcome) ==
    IF Remembers(kind) /\ Global(s) THEN [s EXCEPT !.bht[0] = ShiftUnmasked(sc.lookup_bhr, outcome)] ELSE s
dir_flush(kind, s, sc) ==
    IF Remembers(kind) /\ Global(s) THEN [s EXCEPT !.bht[0] = sc.lookup_bhr] ELSE s

-----------------------------------------------------------------------------
(* Fusion: which of the answers counts.  Components are numbered from 1.   *)

meta_size == 2
mcfarling_init == <<0>>
mcfarling_lookup(ctrs, preds) == preds[1 + Bit(MY2BC_DIR(ctrs[1]))]
mcfarling_update(ctrs, preds, outcome) ==
    IF preds[1] # preds[2] THEN <<MY2BC_UPDATE(ctrs[1], preds[2] = outcome)>> ELSE ctrs

(* A three-bit counter chooses between the choices of two pairs.           *)
multihybrid_init(i) == <<3, WeakBy(i + 1), WeakBy(i)>>
LowPick(ctrs) == 1 + Bit(MY2BC_DIR(ctrs[2]))
HighPick(ctrs) == 3 + Bit(MY2BC_DIR(ctrs[3]))
multihybrid_lookup(ctrs, preds) == preds[IF ctrs[1] >= 4 THEN HighPick(ctrs) ELSE LowPick(ctrs)]
multihybrid_update(ctrs, preds, outcome) ==
    LET low  == preds[LowPick(ctrs)]
        high == preds[HighPick(ctrs)]
        top  == IF low = high THEN ctrs[1]
                ELSE IF high = outcome THEN Min({7, ctrs[1] + 1}) ELSE Max({0, ctrs[1] - 1})
        Pair(ctr, i) == IF preds[i] # preds[i + 1] THEN MY2BC_UPDATE(ctr, preds[i + 1] = outcome) ELSE ctr
    IN  <<top, Pair(ctrs[2], 1), Pair(ctrs[3], 3)>>

(* The first component whose counter is three.                             *)
priority_init(n) == [j \in 1 .. n |-> MY2BC_STRONG_TAKEN]
priority_lookup(ctrs, preds) == preds[SelectInSeq(ctrs, LAMBDA x : x = MY2BC_STRONG_TAKEN)]
(* Mutant: who was wrong is decremented although no three was right.       *)
priority_update_always(ctrs, preds, outcome) == [i \in DOMAIN ctrs |-> MY2BC_COND_DEC(ctrs[i], preds[i] # outcome)]
priority_update(ctrs, preds, outcome) ==
    LET a_3_was_correct == \E i \in DOMAIN ctrs : ctrs[i] = MY2BC_STRONG_TAKEN /\ preds[i] = outcome
    IN  [i \in DOMAIN ctrs |-> IF a_3_was_correct THEN MY2BC_COND_DEC(ctrs[i], preds[i] # outcome)
                                                  ELSE MY2BC_COND_INC(ctrs[i], preds[i] = outcome)]

singleton_lookup(preds) == preds[1]
oracle_lookup(preds, outcome) == IF \E i \in DOMAIN preds : preds[i] = outcome THEN outcome ELSE ~outcome

fusion_init(kind, n) ==
    [i \in 0 .. meta_size - 1 |->
        CASE kind = "mcfarling"   -> mcfarling_init
          [] kind = "multihybrid" -> multihybrid_init(i)
          [] kind = "priority"    -> priority_init(n)
          [] OTHER -> <<>>]
fusion_lookup(kind, meta, preds, PC, outcome) ==
    LET ctrs == meta[PC % meta_size]
    IN  CASE kind = "singleton"   -> singleton_lookup(preds)
          [] kind = "oracle"      -> oracle_lookup(preds, outcome)
          [] kind = "mcfarling"   -> mcfarling_lookup(ctrs, preds)
          [] kind = "multihybrid" -> multihybrid_lookup(ctrs, preds)
          [] kind = "priority"    -> priority_lookup(ctrs, preds)
fusion_update(kind, meta, preds, PC, outcome) ==
    [meta EXCEPT ![PC % meta_size] =
        CASE kind = "mcfarling"   -> mcfarling_update(@, preds, outcome)
          [] kind = "multihybrid" -> multihybrid_update(@, preds, outcome)
          [] kind = "priority"    -> priority_update(@, preds, outcome)
          [] OTHER -> @]

-----------------------------------------------------------------------------
(* Targets.  A set lists its entries from the most recently used one; an   *)
(* entry keeps its identity, which is what a state cache points to.        *)

BTB_init(sets) ==
    [bht |-> 0,
     set |-> [i \in 0 .. sets - 1 |-> [w \in 1 .. num_ways |-> [id |-> w, PC |-> 0, target |-> 0]]]]
Sets(t) == Cardinality(DOMAIN t.set)
Tag(t, PC) == PC \div Sets(t)
Way(t, index, PC) == SelectInSeq(t.set[index], LAMBDA e : e.PC = Tag(t, PC))
Found(t, index, PC) ==
    [set |-> index, lookup_bhr |-> t.bht,
     p   |-> LET w == Way(t, index, PC) IN IF w = 0 THEN 0 ELSE t.set[index][w].id]
EntryOf(t, sc) == SelectInSeq(t.set[sc.set], LAMBDA e : e.id = sc.p)
TargetOf(t, sc) == IF sc.p = 0 THEN 0 ELSE t.set[sc.set][EntryOf(t, sc)].target

MoveToFront(set, w, e) == <<e>> \o RemoveAt(set, w)

Fill(t, sc, PC, oPC) ==
    LET w == IF sc.p # 0 THEN EntryOf(t, sc) ELSE num_ways        \* the last one is the LRU one
        e == t.set[sc.set][w]
        filled == IF sc.p # 0 THEN [e EXCEPT !.target = oPC] ELSE [e EXCEPT !.target = oPC, !.PC = Tag(t, PC)]
    IN  [t EXCEPT !.set[sc.set] = MoveToFront(@, w, filled)]

btac_lookup(t, PC) == Found(t, PC % Sets(t), PC)
(* What was looked up counts, even if the entry has changed hands since,   *)
(* unless the instruction was predicted not taken.                         *)
btac_update(t, sc, PC, oPC, outcome, our_pred) ==
    IF outcome THEN Fill(t, IF our_pred THEN sc ELSE btac_lookup(t, PC), PC, oPC) ELSE t

(* Indexed by the history, with as many sets as there are histories.       *)
levbtac_lookup(t, PC) == Found(t, t.bht % Sets(t), PC)
levbtac_update(t, sc, PC, oPC, outcome, our_pred) ==
    IF outcome THEN Fill(t, IF our_pred THEN sc ELSE levbtac_lookup(t, PC), PC, oPC) ELSE t
levbtac_spec_update(t, our_pred) == [t EXCEPT !.bht = Shift(@, our_pred)]
levbtac_recover(t, sc, outcome) == [t EXCEPT !.bht = ShiftUnmasked(sc.lookup_bhr, outcome)]
levbtac_flush(t, sc) == [t EXCEPT !.bht = sc.lookup_bhr]

-----------------------------------------------------------------------------
(* The return address stack: one ring, or (multistack) a speculative one   *)
(* over one that commit keeps.                                             *)

Ring == [i \in 0 .. RAS_size - 1 |-> 0]
stack_init == [kind |-> "stack", head |-> 0, stack |-> Ring]
multistack_init ==
    [kind |-> "multistack", head |-> 0, stack |-> Ring, valid |-> {}, real_head |-> 0, real |-> Ring, spec_to_real |-> 0]
Multi(r) == r.kind = "multistack"

stack_push(r, ftPC) ==
    LET at == modinc(r.head, RAS_size) IN [r EXCEPT !.head = at, !.stack[at] = ftPC]
stack_pop(r) == [r EXCEPT !.head = moddec(@, RAS_size)]
stack_recover(r, checkpoint) == [r EXCEPT !.head = checkpoint]

multistack_push(r, ftPC) ==
    LET at == modinc(r.head, RAS_size)
    IN  [r EXCEPT !.head = at, !.stack[at] = ftPC, !.valid = @ \cup {at}, !.spec_to_real = modinc(@, RAS_size)]
multistack_top(r) == IF r.head \in r.valid THEN r.stack[r.head] ELSE r.real[r.spec_to_real]
multistack_pop(r) == [r EXCEPT !.head = moddec(@, RAS_size), !.spec_to_real = moddec(@, RAS_size)]
multistack_real_push(r, ftPC) ==
    LET at == modinc(r.real_head, RAS_size) IN [r EXCEPT !.real_head = at, !.real[at] = ftPC]
multistack_real_pop(r) == [r EXCEPT !.real_head = moddec(@, RAS_size)]
multistack_recover(r) == [r EXCEPT !.valid = {}, !.spec_to_real = r.real_head]

ras_push(r, ftPC) == IF Multi(r) THEN multistack_push(r, ftPC) ELSE stack_push(r, ftPC)
ras_top(r) == IF Multi(r) THEN multistack_top(r) ELSE r.stack[r.head]
ras_pop(r) == IF Multi(r) THEN multistack_pop(r) ELSE stack_pop(r)
ras_real_push(r, ftPC) == IF Multi(r) THEN multistack_real_push(r, ftPC) ELSE r
ras_real_pop(r) == IF Multi(r) THEN multistack_real_pop(r) ELSE r
ras_recover(r, checkpoint) == IF Multi(r) THEN multistack_recover(r) ELSE stack_recover(r, checkpoint)

-----------------------------------------------------------------------------
(* The predictor as a whole.  sc maps the state caches in use to their     *)
(* contents; pool holds the unused ones, 0 where there is none.            *)

bpred_init(cfg) ==
    [cfg |-> cfg,
     dir |-> [i \in DOMAIN cfg.preds |-> dir_init(cfg.preds[i], cfg.bht_size)],
     meta |-> fusion_init(cfg.fusion, Len(cfg.preds)),
     btb |-> BTB_init(num_entries), ibtb |-> BTB_init(IF cfg.ibtb THEN history_range ELSE 1),
     ras |-> IF cfg.ras = "stack" THEN stack_init ELSE multistack_init,
     pool |-> [i \in 1 .. pool_size |-> 0], head |-> 1, SC_debt |-> 0, sc |-> <<>>]

get_state_cache(b) ==
    LET id == b.pool[b.head]
    IN  IF id = 0
        THEN [b |-> [b EXCEPT !.SC_debt = @ + 1], id |-> b.SC_debt + 1]
        ELSE [b |-> [b EXCEPT !.pool[b.head] = 0, !.head = Max({1, @ - 1})], id |-> id]

(* Mutant: the top of the pool is overwritten.                             *)
return_state_cache_over(b, id) ==
    [b EXCEPT !.sc = [i \in DOMAIN @ \ {id} |-> @[i]], !.pool[b.head] = id]
return_state_cache(b, id) ==
    LET kept == [b EXCEPT !.sc = [i \in DOMAIN @ \ {id} |-> @[i]]]
        size == Len(b.pool)
        grown == IF b.head = size THEN b.pool \o [i \in 1 .. size |-> 0] ELSE b.pool
    IN  IF b.pool[b.head] = 0
        THEN [kept EXCEPT !.pool[b.head] = id]
        ELSE [kept EXCEPT !.pool = [grown EXCEPT ![b.head + 1] = id], !.head = @ + 1]

IsCond(kind) == kind = "cond"
IsCall(kind) == kind = "call"
IsRet(kind) == kind = "ret"
IsIndir(kind) == kind = "ijmp"

(* Everything is looked up, whatever the instruction is.                   *)
lookup(b, id, kind, PC, ftPC, tPC, outcome) ==
    LET pc    == [i \in DOMAIN b.dir |-> dir_lookup(b.cfg.preds[i], b.dir[i], PC, tPC)]
        preds == [i \in DOMAIN pc |-> pc[i].pred]
        dj    == btac_lookup(b.btb, PC)
        ij    == levbtac_lookup(b.ibtb, PC)
        dir   == IsCond(kind) => fusion_lookup(b.cfg.fusion, b.meta, preds, PC, outcome)
        ras   == CASE IsRet(kind) -> ras_pop(b.ras) [] IsCall(kind) -> ras_push(b.ras, ftPC) [] OTHER -> b.ras
        named == IF IsRet(kind) THEN ras_top(b.ras)
                 ELSE IF IsIndir(kind) /\ b.cfg.ibtb THEN TargetOf(b.ibtb, ij) ELSE TargetOf(b.btb, dj)
        predPC == IF ~dir \/ named \in {0, 1} THEN ftPC ELSE named
        cache == [preds |-> preds, pc |-> pc, dirjmp |-> dj, indirjmp |-> ij, our_pred |-> dir,
                  our_target |-> predPC, ras |-> ras.head]
    IN  [b EXCEPT !.ras = ras, !.sc = [i \in DOMAIN @ \cup {id} |-> IF i = id THEN cache ELSE @[i]]]

(* At commit.                                                              *)
update(b, id, kind, PC, ftPC, tPC, oPC, outcome) ==
    LET sc == b.sc[id]
        trained == [b EXCEPT
            !.dir = [i \in DOMAIN @ |-> dir_update(b.cfg.preds[i], @[i], sc.pc[i], PC, outcome)],
            !.meta = fusion_update(b.cfg.fusion, @, sc.preds, PC, outcome)]
        r == CASE IsCond(kind) -> trained
               [] IsCall(kind) -> [b EXCEPT !.ras = ras_real_push(@, ftPC)]
               [] OTHER -> b
    IN  IF IsRet(kind) THEN [b EXCEPT !.ras = ras_real_pop(@)]
        ELSE IF b.cfg.ibtb /\ IsIndir(kind)
        THEN [r EXCEPT !.ibtb = levbtac_update(@, sc.indirjmp, PC, oPC, outcome, sc.our_pred)]
        ELSE [r EXCEPT !.btb = btac_update(@, sc.dirjmp, PC, oPC, outcome, sc.our_pred)]

(* In the front end, right after the lookup.                               *)
spec_update(b, id, kind) ==
    LET sc == b.sc[id]
    IN  IF ~IsCond(kind) THEN b
        ELSE [b EXCEPT !.dir = [i \in DOMAIN @ |-> dir_spec_update(b.cfg.preds[i], @[i], sc.pc[i], sc.our_pred)],
                       !.ibtb = IF b.cfg.ibtb THEN levbtac_spec_update(@, sc.our_pred) ELSE @]

recover(b, id, outcome) ==
    LET sc == b.sc[id]
    IN  [b EXCEPT !.dir = [i \in DOMAIN @ |-> dir_recover(b.cfg.preds[i], @[i], sc.pc[i], outcome)],
                  !.ras = ras_recover(@, sc.ras),
                  !.ibtb = IF b.cfg.ibtb THEN levbtac_recover(@, sc.indirjmp, outcome) ELSE @]

(* The same without the outcome.                                           *)
flush(b, id) ==
    LET sc == b.sc[id]
    IN  [b EXCEPT !.dir = [i \in DOMAIN @ |-> dir_flush(b.cfg.preds[i], @[i], sc.pc[i])],
                  !.ras = ras_recover(@, sc.ras),
                  !.ibtb = IF b.cfg.ibtb THEN levbtac_flush(@, sc.indirjmp) ELSE @]
=============================================================================
