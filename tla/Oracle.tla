------------------------------- MODULE Oracle -------------------------------
(***************************************************************************)
(* How one core turns handshakes into committed instructions: the loop of  *)
(* simulate_handshake (sim-loop.cpp), the oracle with its MopQ             *)
(* (zesto-oracle.cpp), the shadow MopQ that replays handshakes after a     *)
(* load-store order violation, a "nuke" (shadow_MopQ.h, shadow_MopQ.cpp),  *)
(* and the fetch stage with its pipe of delayed recoveries, the jeclears   *)
(* (ZPIPE-fetch/fetch-DPM.cpp).                                            *)
(*                                                                         *)
(* Addresses are reduced to what the code compares: diverged says whether  *)
(* the fetch PC differs from the next PC of the feeder.  The back end of   *)
(* the pipeline is its effects on the oracle: once per cycle it commits,   *)
(* resolves branches, resteers at decode and nukes, in any order.  Mops on *)
(* a wrong path are not traps.                                             *)
(***************************************************************************)
EXTENDS Naturals, Sequences, FiniteSets

CONSTANTS
    MopQ_size,
    Slots,          \* consumed Mops that fit in the byteQ and behind it
    Delays,         \* values of the knob jeclear_delay; 0: recover at once
    Kinds,          \* of handshakes that the feeder sends
    MaxHandshakes,  \* bound: non-speculative handshakes that are received
    MaxNukes        \* bound: order violations and mis-scheduled loads

ASSUME OracleAssumption ==
    /\ MopQ_size \in Nat \ {0}
    /\ Slots \in Nat \ {0}
    /\ Delays \subseteq Nat
    /\ Kinds \subseteq {"insn", "trap", "spec", "flush"}
    /\ MaxHandshakes \in Nat
    /\ MaxNukes \in Nat

VARIABLES
    MopQ,           \* the Mops in flight, oldest first
    shadow_MopQ,    \* the handshakes in flight, oldest first
    spec_mode, drain_pipeline,
    current_Mop,    \* the youngest Mop was executed but not consumed
    consumed,
    diverged,       \* core->fetch->PC # core->fetch->feeder_NPC
    pc,             \* where simulate_handshake is, see TypeOK
    handshake,      \* its argument
    did_buffer, buffer_result,
    jeclear_delay,
    received,       \* the number of the last non-speculative handshake
    retired,        \* the number of the last one committed or flushed
    nukes           \* how many there have been

flags == <<spec_mode, drain_pipeline, current_Mop, diverged>>
loopVars == <<handshake, did_buffer, buffer_result>>
history == <<received, retired, nukes>>
vars == <<MopQ, shadow_MopQ, flags, consumed, pc, loopVars, jeclear_delay, history>>

(* A Mop: the number of its handshake (0 on a wrong path); br says whether *)
(* its predicted next PC is right or has been put right ("ok"), is wrong,  *)
(* or is wrong and past the check at decode ("late"); stage is the place   *)
(* of its jeclear in the pipe, 0 if it has none that is still valid.       *)
Mop == [id : 0 .. MaxHandshakes, kind : {"insn", "trap", "spec"},
        br : {"ok", "wrong", "late"}, stage : 0 .. jeclear_delay,
        jeclear_in_flight : BOOLEAN]

IsSpec(m) == m.kind = "spec"

(* A shadow entry: a handshake, and how many speculative ones hang on it.  *)
(* More than MopQ_size of them can never be asked for.                     *)
ShadowMop == [id : 1 .. MaxHandshakes, kind : {"insn", "trap"},
              speculated : 0 .. MopQ_size]

Init ==
    /\ MopQ = <<>> /\ shadow_MopQ = <<>>
    /\ spec_mode = FALSE /\ drain_pipeline = FALSE
    /\ current_Mop = FALSE /\ consumed = TRUE /\ diverged = FALSE
    /\ pc = "feeder" /\ handshake = [id |-> 0, kind |-> "spec"]
    /\ did_buffer = FALSE /\ buffer_result = "ALL_GOOD"
    /\ jeclear_delay \in Delays
    /\ received = 0 /\ retired = 0 /\ nukes = 0

-----------------------------------------------------------------------------
num_non_spec_Mops == Cardinality({i \in DOMAIN MopQ : ~IsSpec(MopQ[i])})

(* Handshakes that have to be executed again before the feeder is asked.   *)
num_Mops_before_feeder == Len(shadow_MopQ) - num_non_spec_Mops
on_nuke_recovery_path == Len(shadow_MopQ) > num_non_spec_Mops

can_exec == ~current_Mop /\ ~drain_pipeline /\ Len(MopQ) < MopQ_size

(* The Mops that fetch has put into the byteQ.                             *)
Fetched == IF current_Mop THEN 1 .. Len(MopQ) - 1 ELSE DOMAIN MopQ

(* The list of speculative handshakes of one entry grows to at least n.    *)
GrowSpeculated(e, n) == IF e.speculated < n THEN [e EXCEPT !.speculated = n] ELSE e

(* simulate_handshake() gets a flush_pipe handshake: sim_drain_pipe()      *)
(* empties the core, wrong path or not (complete_flush()).                 *)
DrainPipe ==
    /\ pc = "feeder"
    /\ "flush" \in Kinds
    /\ MopQ' = <<>> /\ shadow_MopQ' = <<>>
    /\ spec_mode' = FALSE /\ drain_pipeline' = FALSE
    /\ current_Mop' = FALSE /\ consumed' = TRUE
    /\ diverged' = FALSE
    /\ retired' = received
    /\ UNCHANGED <<pc, loopVars, jeclear_delay, received, nukes>>

(* simulate_handshake() gets any other handshake and enters its loop.      *)
SimulateHandshake(kind) ==
    /\ pc = "feeder"
    /\ kind # "spec" => received < MaxHandshakes
    /\ received' = IF kind = "spec" THEN received ELSE received + 1
    /\ handshake' = [id |-> IF kind = "spec" THEN 0 ELSE received + 1, kind |-> kind]
    /\ did_buffer' = FALSE /\ buffer_result' = "ALL_GOOD"
    /\ pc' = "top"
    /\ UNCHANGED <<MopQ, shadow_MopQ, flags, consumed, jeclear_delay, retired, nukes>>

(* buffer_handshake() when the oracle is on a wrong path or about to be:   *)
(* a speculative handshake from the right PC is taken, otherwise a NOP is  *)
(* made up and the handshake stays in hand.  Both go to the side of the    *)
(* youngest entry.                                                         *)
BufferSpeculative(fits) ==
    /\ spec_mode \/ diverged
    /\ fits => handshake.kind = "spec"
    /\ shadow_MopQ' = [shadow_MopQ EXCEPT ![Len(shadow_MopQ)].speculated =
                           IF @ < MopQ_size THEN @ + 1 ELSE @]
    /\ did_buffer' = fits
    /\ buffer_result' = IF fits THEN "ALL_GOOD" ELSE "HANDSHAKE_NOT_CONSUMED"
    /\ consumed' = FALSE
    /\ pc' = "fetch"

BufferHandshake ==
    /\ ~spec_mode /\ ~diverged
    /\ handshake.kind # "spec"
    /\ shadow_MopQ' = Append(shadow_MopQ, [id |-> handshake.id,
                                kind |-> handshake.kind, speculated |-> 0])
    /\ did_buffer' = TRUE
    /\ buffer_result' = "ALL_GOOD"
    /\ consumed' = FALSE
    /\ pc' = "fetch"

(* A speculative handshake that nobody needs is dropped, and               *)
(* simulate_handshake() returns.                                           *)
DropHandshake ==
    /\ ~spec_mode /\ ~diverged
    /\ handshake.kind = "spec"
    /\ consumed' = TRUE
    /\ pc' = "feeder"
    /\ UNCHANGED <<shadow_MopQ, did_buffer, buffer_result>>

WantsHandshake == ~did_buffer /\ ~on_nuke_recovery_path /\ can_exec

(* The top of the loop, up to the call of do_fetch().                      *)
Buffer ==
    /\ pc = "top"
    /\ WantsHandshake
    /\ \/ \E fits \in BOOLEAN : BufferSpeculative(fits)
       \/ BufferHandshake
       \/ DropHandshake
    /\ UNCHANGED <<MopQ, flags, handshake, jeclear_delay, history>>

SkipBuffer ==
    /\ pc = "top"
    /\ ~WantsHandshake
    /\ consumed' = FALSE
    /\ pc' = "fetch"
    /\ UNCHANGED <<MopQ, shadow_MopQ, flags, loopVars, jeclear_delay, history>>

-----------------------------------------------------------------------------
(* exec() and get_shadow_Mop(): a Mop on the right path comes from the     *)
(* same place of the shadow MopQ, one on a wrong path from the side of the *)
(* youngest entry on the right path, where NOPs are made up if it is       *)
(* missing.                                                                *)
ExecSpec == spec_mode \/ diverged
SpecDepth == Len(MopQ) - num_non_spec_Mops

NewMop(id, kind) ==
    [id |-> id, kind |-> kind, br |-> "ok", stage |-> 0, jeclear_in_flight |-> FALSE]

(* Mutant: after a nuke, the youngest handshake instead of the next one.   *)
YoungestShadowedMop ==
    IF ExecSpec THEN NewMop(0, "spec")
    ELSE LET e == shadow_MopQ[Len(shadow_MopQ)] IN NewMop(e.id, e.kind)

ShadowedMop ==
    IF ExecSpec THEN NewMop(0, "spec")
    ELSE LET e == shadow_MopQ[Len(MopQ) + 1] IN NewMop(e.id, e.kind)

Exec ==
    /\ pc = "fetch"
    /\ can_exec
    /\ MopQ' = Append(MopQ, ShadowedMop)
    /\ shadow_MopQ' = IF ExecSpec
                      THEN [shadow_MopQ EXCEPT ![num_non_spec_Mops] =
                                GrowSpeculated(@, SpecDepth + 1)]
                      ELSE shadow_MopQ
    /\ spec_mode' = ExecSpec
    /\ current_Mop' = TRUE
    /\ UNCHANGED <<drain_pipeline, diverged, consumed, pc, loopVars, jeclear_delay, history>>

(* do_fetch() returns false with nothing consumed: the pipeline drains,    *)
(* the MopQ is full, or the byteQ has no room for the Mop.                 *)
Stall ==
    /\ pc = "fetch"
    /\ ~can_exec
    /\ pc' = "post"
    /\ UNCHANGED <<MopQ, shadow_MopQ, flags, consumed, loopVars, jeclear_delay, history>>

(* Where the loop goes once a Mop is consumed.                             *)
AfterFetch(fetch_more) ==
    IF ~fetch_more THEN "post"
    ELSE IF on_nuke_recovery_path \/ buffer_result = "HANDSHAKE_NOT_CONSUMED"
         THEN "top" ELSE "feeder"

(* consume(): a trap starts draining the pipeline.                         *)
ConsumeMop(m) ==
    /\ current_Mop' = FALSE
    /\ consumed' = TRUE
    /\ drain_pipeline' = (drain_pipeline \/ m.kind = "trap")

(* do_fetch() consumes the Mop and predicts the next PC.                   *)
Consume(br, fetch_more) ==
    LET n == Len(MopQ) IN
    /\ pc = "fetch"
    /\ current_Mop
    /\ Cardinality(Fetched) < Slots
    /\ MopQ[n].kind = "trap" => br = "ok" /\ ~fetch_more
    /\ ConsumeMop(MopQ[n])
    /\ MopQ' = [MopQ EXCEPT ![n].br = br]
    /\ diverged' = (br # "ok")
    /\ pc' = AfterFetch(fetch_more)
    /\ UNCHANGED <<shadow_MopQ, spec_mode, loopVars, jeclear_delay, history>>

-----------------------------------------------------------------------------

(* recover(): Mops younger than the i-th of q go, and the oracle and fetch *)
(* continue after it.                                                      *)
Recover(q, i) ==
    /\ MopQ' = SubSeq(q, 1, i)
    /\ drain_pipeline' = (drain_pipeline /\ \A j \in i + 1 .. Len(q) : q[j].kind # "trap")
    /\ spec_mode' = IsSpec(q[i])
    /\ diverged' = (q[i].br # "ok")
    /\ current_Mop' = FALSE
    /\ consumed' = TRUE

(* jeclear_enqueue(): the first stage keeps the older of two; the other    *)
(* one only keeps its mark.                                                *)
InFirstStage == {j \in DOMAIN MopQ : MopQ[j].stage = 1}

(* Mutant: the first stage keeps the younger of two.                       *)
YoungerJeclearEnqueue(q, i) ==
    IF \E j \in InFirstStage : j >= i
    THEN q
    ELSE [j \in DOMAIN q |->
            IF j = i THEN [q[j] EXCEPT !.stage = 1, !.jeclear_in_flight = TRUE]
            ELSE IF q[j].stage = 1 THEN [q[j] EXCEPT !.stage = 0] ELSE q[j]]

JeclearEnqueue(q, i) ==
    IF \E j \in InFirstStage : j <= i
    THEN q
    ELSE [j \in DOMAIN q |->
            IF j = i THEN [q[j] EXCEPT !.stage = 1, !.jeclear_in_flight = TRUE]
            ELSE IF q[j].stage = 1 THEN [q[j] EXCEPT !.stage = 0] ELSE q[j]]

PipeRecover(q, i) ==
    \/ /\ jeclear_delay = 0
       /\ Recover(q, i)
    \/ /\ jeclear_delay > 0
       /\ MopQ' = JeclearEnqueue(q, i)
       /\ UNCHANGED <<flags, consumed>>

(* Mutant: a jeclear that has taken effect leaves its mark on the Mop.     *)
MarkedAdvance(m) ==
    IF m.stage = 0 THEN m
    ELSE [m EXCEPT !.stage = IF @ = jeclear_delay THEN 0 ELSE @ + 1]

(* pre_fetch(): the jeclear in the last stage takes effect if it is still  *)
(* valid, and the others move on.                                          *)
Advance(m) ==
    IF m.stage = 0 THEN m
    ELSE IF m.stage = jeclear_delay
         THEN [m EXCEPT !.stage = 0, !.jeclear_in_flight = FALSE]
         ELSE [m EXCEPT !.stage = @ + 1]

PreFetch ==
    LET q == [j \in DOMAIN MopQ |-> Advance(MopQ[j])]
        due == {j \in DOMAIN MopQ : jeclear_delay > 0 /\ MopQ[j].stage = jeclear_delay}
    IN  /\ pc = "post"
        /\ pc' = "back"
        /\ \/ \E i \in due : Recover(q, i)
           \/ due = {} /\ MopQ' = q /\ UNCHANGED <<flags, consumed>>
        /\ UNCHANGED <<shadow_MopQ, loopVars, jeclear_delay, history>>

-----------------------------------------------------------------------------
(* What the stages of the pipeline do to the oracle in a cycle.  A Mop is  *)
(* decoded in order and executes after it is decoded.                      *)
Decoded(i) == i \in Fetched /\ \A j \in 1 .. i : MopQ[j].br # "wrong"

(* Decode checks the target of a mispredicted Mop: the new target may      *)
(* still be wrong, or the check may miss the misprediction.                *)
CheckTarget(i, resteer, br) ==
    /\ pc = "back"
    /\ i \in Fetched /\ MopQ[i].br = "wrong"
    /\ \A j \in 1 .. i - 1 : MopQ[j].br # "wrong"
    /\ LET q == [MopQ EXCEPT ![i].br = br]
       IN  \/ resteer /\ Recover(q, i)
           \/ ~resteer /\ br = "late" /\ MopQ' = q /\ UNCHANGED <<flags, consumed>>
    /\ UNCHANGED <<shadow_MopQ, pc, loopVars, jeclear_delay, history>>

(* A mispredicted branch executes.                                         *)
Resolve(i) ==
    /\ pc = "back"
    /\ Decoded(i) /\ MopQ[i].br = "late"
    /\ PipeRecover([MopQ EXCEPT ![i].br = "ok"], i)
    /\ UNCHANGED <<shadow_MopQ, pc, loopVars, jeclear_delay, history>>

(* A store finds that the younger load i has executed too early:           *)
(* pipe_flush().                                                           *)
Nuke(i) ==
    /\ pc = "back"
    /\ nukes < MaxNukes
    /\ i > 1 /\ Decoded(i) /\ MopQ[i].kind # "trap"
    /\ PipeRecover([MopQ EXCEPT ![i - 1].br = "ok"], i - 1)
    /\ nukes' = nukes + 1
    /\ UNCHANGED <<shadow_MopQ, pc, loopVars, jeclear_delay, received, retired>>

(* A consumer of load i has executed too early: the pipeline is flushed    *)
(* after the load.                                                         *)
MisSchedule(i) ==
    /\ pc = "back"
    /\ nukes < MaxNukes
    /\ Decoded(i) /\ MopQ[i].br = "ok" /\ MopQ[i].kind # "trap"
    /\ PipeRecover(MopQ, i)
    /\ nukes' = nukes + 1
    /\ UNCHANGED <<shadow_MopQ, pc, loopVars, jeclear_delay, received, retired>>

(* The oracle's commit(): the Mop leaves both queues, and a trap ends the  *)
(* draining.                                                               *)
CommitMop(m) ==
    /\ MopQ' = Tail(MopQ)
    /\ shadow_MopQ' = Tail(shadow_MopQ)
    /\ drain_pipeline' = (drain_pipeline /\ m.kind # "trap")
    /\ consumed' = (consumed \/ m.kind = "trap")

(* The oldest Mop has executed and is committed.                           *)
Commit ==
    /\ pc = "back"
    /\ MopQ # <<>> /\ Decoded(1)
    /\ MopQ[1].br = "ok" /\ ~MopQ[1].jeclear_in_flight
    /\ CommitMop(MopQ[1])
    /\ retired' = MopQ[1].id
    /\ UNCHANGED <<spec_mode, current_Mop, diverged, pc, loopVars, jeclear_delay, received, nukes>>

(* Mutant: the loop ends although the handshake is still in hand.          *)
StaysUntilConsumed == ~consumed \/ on_nuke_recovery_path \/ drain_pipeline

(* The end of the loop.  did_consume is consumed by then: only the top of  *)
(* the loop clears it.                                                     *)
StaysInLoop ==
    \/ buffer_result = "HANDSHAKE_NOT_CONSUMED"
    \/ ~consumed
    \/ on_nuke_recovery_path
    \/ drain_pipeline

EndCycle ==
    /\ pc = "back"
    /\ pc' = IF StaysInLoop THEN "top" ELSE "feeder"
    /\ UNCHANGED <<MopQ, shadow_MopQ, flags, consumed, loopVars, jeclear_delay, history>>

-----------------------------------------------------------------------------
Fetch == Exec \/ Stall \/ \E br \in {"ok", "wrong"}, m \in BOOLEAN : Consume(br, m)

Decode == \E i \in DOMAIN MopQ, r \in BOOLEAN, b \in {"ok", "late"} : CheckTarget(i, r, b)

Next ==
    \/ DrainPipe
    \/ \E kind \in Kinds \ {"flush"} : SimulateHandshake(kind)
    \/ Buffer \/ SkipBuffer
    \/ Fetch
    \/ PreFetch
    \/ Decode
    \/ \E i \in DOMAIN MopQ : Resolve(i) \/ Nuke(i) \/ MisSchedule(i)
    \/ Commit
    \/ EndCycle

Spec == Init /\ [][Next]_vars

(* The loop runs on, and so does the pipeline: if fetch, decode, execution *)
(* or commit could do something in cycle after cycle, it is done.          *)
Progress ==
    \/ \E br \in {"ok", "wrong"}, m \in BOOLEAN : Consume(br, m)
    \/ Decode
    \/ \E i \in DOMAIN MopQ : Resolve(i)
    \/ Commit

FairSpec == Spec /\ WF_vars(pc # "feeder" /\ Next) /\ SF_vars(Progress)

-----------------------------------------------------------------------------
(* Every variable has its type; pc: with the feeder, at the top of the     *)
(* loop, in do_fetch(), in sim_main_slave_post_pin(), in the rest of the   *)
(* pipeline.                                                               *)
TypeOK ==
    /\ MopQ \in Seq(Mop) /\ Len(MopQ) <= MopQ_size
    /\ shadow_MopQ \in Seq(ShadowMop) /\ Len(shadow_MopQ) <= MopQ_size
    /\ {spec_mode, drain_pipeline, current_Mop, consumed, diverged, did_buffer} \subseteq BOOLEAN
    /\ pc \in {"feeder", "top", "fetch", "post", "back"}
    /\ handshake \in [id : 0 .. MaxHandshakes, kind : {"insn", "trap", "spec"}]
    /\ buffer_result \in {"ALL_GOOD", "HANDSHAKE_NOT_CONSUMED"}
    /\ jeclear_delay \in Delays
    /\ received \in 0 .. MaxHandshakes /\ retired \in 0 .. received
    /\ nukes \in 0 .. MaxNukes

(* "Non-speculative Mops are in sync between the MopQ and the shadow_MopQ" *)
(* (shadow_MopQ.h): they come first, in the same places.                   *)
ShadowInSync ==
    /\ num_non_spec_Mops <= Len(shadow_MopQ)
    /\ \A i \in DOMAIN MopQ :
          IF i <= num_non_spec_Mops
          THEN MopQ[i].id = shadow_MopQ[i].id /\ MopQ[i].kind = shadow_MopQ[i].kind
          ELSE IsSpec(MopQ[i])

(* The asserts of exec() and get_shadow_Mop(): the handshake that is asked *)
(* for is there, and on a wrong path it may only be missing on the way     *)
(* back from a nuke.                                                       *)
HandshakeAvailable ==
    pc = "fetch" /\ can_exec =>
        IF ExecSpec
        THEN /\ num_non_spec_Mops > 0
             /\ \/ SpecDepth < shadow_MopQ[num_non_spec_Mops].speculated
                \/ on_nuke_recovery_path
        ELSE Len(MopQ) < Len(shadow_MopQ)

(* The asserts on entry of simulate_handshake(): the last handshake was    *)
(* consumed and every nuked one has been executed again.                   *)
FeederReady ==
    pc = "feeder" => consumed /\ ~on_nuke_recovery_path /\ ~drain_pipeline /\ ~current_Mop

(* The pipeline drains exactly as long as a trap that was consumed is in   *)
(* flight, and that trap is the youngest Mop: it is alone when it commits, *)
(* as commit() asserts.                                                    *)
TrapDrains ==
    /\ drain_pipeline <=> \E i \in Fetched : MopQ[i].kind = "trap"
    /\ \A i \in DOMAIN MopQ : MopQ[i].kind = "trap" => i = Len(MopQ)

(* The mark jeclear_in_flight stops commit.  A Mop only has it while a     *)
(* valid jeclear, its own or an older one, is on its way.                  *)
JeclearArrives ==
    \A i \in DOMAIN MopQ : MopQ[i].jeclear_in_flight =>
        \E j \in 1 .. i : MopQ[j].stage > 0

(* Whatever is replayed, undone or thrown away, handshakes are committed   *)
(* one by one in the order in which they came (commit()).                  *)
CommitsInOrder == [][Commit => MopQ[1].id = retired + 1]_vars

(* "Make sure we didn't get back to feeder before absorbing a hshake"      *)
(* (sim-loop.cpp): back at the feeder, every handshake that is not         *)
(* committed is in the shadow MopQ.                                        *)
NothingLost ==
    pc = "feeder" => Len(shadow_MopQ) = received - retired

(* The two queues, the handshake in hand and the loop of                   *)
(* simulate_handshake() agree on what is still to be executed.             *)
InSync == TypeOK /\ ShadowInSync /\ HandshakeAvailable /\ FeederReady /\ NothingLost

(* A recovery undoes exactly what it must: drains and jeclears of Mops that *)
(* stay survive it, those of Mops that are gone do not.                    *)
RecoveryKept == TrapDrains /\ JeclearArrives

(* simulate_handshake() returns.                                           *)
HandshakeReturns == pc # "feeder" ~> pc = "feeder"

=============================================================================
