--------------------------- MODULE CacheHierarchy ---------------------------
(***************************************************************************)
(* The caches (zesto-cache.cpp), their controllers (ZCOMPS-coherence),     *)
(* the busses between them (zesto-noc.cpp) and the memory controller       *)
(* (MC-simple.cpp): private first-level caches that share the last level.  *)
(*                                                                         *)
(* A cache works in five passes per cycle, in the order of cache_process:  *)
(* send writebacks, start the fills of returned misses, write fills into   *)
(* the array, answer or miss the head of each access pipe, send misses.    *)
(* A pass is a loop over banks; one action here is one turn of that loop,  *)
(* and pc says whose turn it is.  No other cache runs in between: private  *)
(* caches run under cache_lock, the last level while all cores wait at the *)
(* cycle barrier.  Times are kept as the cycles that remain.               *)
(***************************************************************************)
EXTENDS CacheArray, Functions

CONSTANTS L1s,               \* private caches, one per core
          Blocks,            \* block addresses, natural numbers
          Sets, Assoc, MSHR_banks,  \* functions of the cache: powers of two
          MSHR_size, MSHR_WB_size,
          latency,           \* function of the cache, also the size of its pipes
          Policy, write_back, write_alloc,   \* functions of the cache
          cmd_order,         \* MSHR_cmd_order: <<Commands>> when first-come first-served
          write_combining, prefetch_on_miss, PF_filter,     \* BOOLEAN
          PF_buffer_size, PFF_size,          \* functions of the cache
          prefetch_max, prefetch_threshold,
          lookup,            \* function of the block: what the prefetchers may ask for
          sharing_penalty,   \* of the const coherence controller, 0 for none
          line_cycles,       \* function of the bus: cycles a line occupies it
          RQ_size, FIFO_scheduling, PageBlocks,
          DramLatency,       \* the latencies an access to DRAM may have
          Accesses,          \* the requests <<cache, command, block>> of the programs
          MaxRequests,       \* bound: requests the cores make
          Late, Doomed       \* the requests whose TLB access takes time, that may be squashed

LLC == "LLC"
MC == "MC"
Caches == L1s \cup {LLC}
next_level == [c \in Caches |-> IF c = LLC THEN MC ELSE LLC]
Busses == {"LLC_bus", "FSB"}
next_bus == [c \in Caches |-> IF c = LLC THEN "FSB" ELSE "LLC_bus"]

NoCache == "none"
NoOp == 0
Ops == 1 .. MaxRequests
Never == 99                  \* TICK_T_MAX

Pos == Nat \ {0}
ASSUME LevelsAssumption == {LLC, MC, NoCache} \cap L1s = {}
ASSUME SizesAssumption ==
    \A c \in Caches :
      /\ Sets[c] \in Pos /\ Assoc[c] \in Pos /\ MSHR_banks[c] \in Pos /\ latency[c] \in Pos
      /\ MSHR_size[c] \in Nat /\ MSHR_WB_size[c] \in Nat /\ MSHR_size[c] > MSHR_WB_size[c]
      /\ PFF_size[c] \in Nat /\ PF_buffer_size[c] \in Nat
      /\ Policy[c] \in Policies /\ (Policy[c] = "CLOCK" => Assoc[c] > 1)
      /\ write_back[c] \in BOOLEAN /\ write_alloc[c] \in BOOLEAN
ASSUME RequestsAssumption ==
    /\ Blocks \subseteq Nat /\ NoTag \notin Blocks
    /\ \A a \in Blocks : lookup[a] \subseteq Blocks
    /\ MaxRequests \in Nat /\ Accesses \subseteq L1s \X {"READ", "WRITE"} \X Blocks
    /\ cmd_order \in Seq(SUBSET Commands)
ASSUME TimesAssumption ==
    /\ sharing_penalty \in 0 .. Never - 1 /\ DramLatency \subseteq 0 .. Never - 1
    /\ RQ_size \in Pos

VARIABLES blocks, \* [cache -> [set -> lines]]
          pipe,   \* [cache -> accesses under way]
          fill,   \* [cache -> fills under way]
          MSHR,   \* [cache -> [bank -> slots in the order they were taken]]
          num,    \* [cache -> [bank -> the counters MSHR_num, _WB_num, _fill_num, _unprocessed_num, _num_pf]]
          work,   \* [cache -> the set of check_for_* flags that are up]
          PFF, PF_buffer, \* [cache -> addresses]
          bus,    \* [bus -> cycles until it is free]
          writers,\* [block -> last writer, of the const controller]
          RQ, last_request, \* the memory controller's queue and open page
          pc, ran,\* the turn of the cache that is running; the L1s that ran this cycle
          op      \* the cores' requests

vars == <<blocks, pipe, fill, MSHR, num, work, PFF, PF_buffer, bus, writers,
          RQ, last_request, pc, ran, op>>
caches == <<blocks, pipe, fill, MSHR, num, work, PFF, PF_buffer>>
memory == <<RQ, last_request>>

Flags == {"MSHR_fill", "fill", "pipe", "MSHR", "MSHR_WB"}
Passes == <<"MSHR_WB", "WB_drop", "MSHR_fill", "fill", "pipe", "MSHR">>
Idle == [cache |-> NoCache, pass |-> 1, turn |-> 0, up |-> FALSE, found |-> FALSE]
LLCDue == [Idle EXCEPT !.turn = 1]   \* the memory controller has stepped, the LLC is next

SetOf(c, addr) == addr % Sets[c]
BankOf(c, addr) == addr % MSHR_banks[c]          \* GET_MSHR_BANK
Banks(c) == 0 .. MSHR_banks[c] - 1
TagSet(c, addr) == blocks[c][SetOf(c, addr)]
PageOf(addr) == addr \div PageBlocks

(***************************************************************************)
(* The configurations in which the arrays and the MSHRs are proved sound.  *)
(* PLRU is left out: its tree needs powers of two, which the provers do    *)
(* not have.  A first-level cache that prefetches has as many MSHR banks   *)
(* as the last level: MSHR_insert counts a prefetch in the bank its action *)
(* names, which is the bank of the cache that asked.  And where there is a *)
(* prefetch buffer, the blocks of one set share a bank: a hit in it looks  *)
(* for a writeback slot in the bank of the block it brings in and takes    *)
(* one in the bank of the block it throws out.                             *)
(***************************************************************************)
Configured ==
    \A c \in Caches :
      /\ Policy[c] # "PLRU"
      /\ PFF_size[c] > 0 => MSHR_banks[c] = MSHR_banks[LLC]
      /\ PF_buffer_size[c] > 0 =>
           \A a, d \in Blocks : SetOf(c, a) = SetOf(c, d) => BankOf(c, a) = BankOf(c, d)

\* An operation still wants its answer: action_id = get_action_id(op).
Live(o) == o # NoOp /\ op[o].live

Init ==
    /\ blocks = [c \in Caches |-> [s \in 0 .. Sets[c] - 1 |-> EmptySet(Assoc[c])]]
    /\ pipe = [c \in Caches |-> <<>>]
    /\ fill = [c \in Caches |-> <<>>]
    /\ MSHR = [c \in Caches |-> [b \in Banks(c) |-> <<>>]]
    /\ num = [c \in Caches |-> [b \in Banks(c) |->
                [miss |-> 0, wb |-> 0, fill |-> 0, unprocessed |-> 0, pf |-> 0]]]
    /\ work = [c \in Caches |-> {"MSHR_fill"}]
    /\ PFF = [c \in Caches |-> <<>>]
    /\ PF_buffer = [c \in Caches |-> <<>>]
    /\ bus = [b \in Busses |-> 0]
    /\ writers = [a \in Blocks |-> NoCache]
    /\ RQ = <<>>
    /\ last_request = 0
    /\ pc = Idle
    /\ ran = {}
    /\ op = <<>>

-----------------------------------------------------------------------------
\* Requests and queues.

cache_enqueuable(c) == Len(pipe[c]) < latency[c]
cache_fillable(c) == Len(fill[c]) < latency[c]

\* cache_action_t: who asked (prev, its MSHR bank and slot), for which operation.
Action(cmd, addr, core, prev, bank, index, o) ==
    [cmd |-> cmd, addr |-> addr, core |-> core, prev |-> prev, bank |-> bank,
     index |-> index, op |-> o]

\* cache_enqueue into p: the access leaves the pipe latency cycles later.
Enqueued(p, c, act) == Append(p, [act |-> act, exit |-> latency[c]])

\* The heap's root: one of the entries with the least time to go.
Roots(q) == {i \in 1 .. Len(q) : \A j \in 1 .. Len(q) : q[i].exit <= q[j].exit}

cache_fill(q, c, cmd, addr) == Append(q, [cmd |-> cmd, addr |-> addr, exit |-> latency[c]])

MSHR_available(c, addr) == num[c][BankOf(c, addr)].miss < MSHR_size[c] - MSHR_WB_size[c]
MSHR_WB_available(c, addr) == num[c][BankOf(c, addr)].wb < MSHR_WB_size[c]

\* MSHR_allocate: the first free slot of the bank.
FreeSlots(c, b) == (0 .. MSHR_size[c] - 1) \ {MSHR[c][b][i].slot : i \in 1 .. Len(MSHR[c][b])}
MSHR_allocate(c, b) == Min(FreeSlots(c, b))

Entry(slot, type, act) ==
    [slot |-> slot, type |-> type, act |-> act, started |-> FALSE, returned |-> Never]

\* MSHR_WB_insert, into bank b of m = MSHR[c] and counters n = num[c]
WBEntry(c, addr) ==
    LET b == BankOf(c, addr)
        slot == MSHR_allocate(c, b)
    IN  Entry(slot, "WRITEBACK", Action("WRITEBACK", addr, c, c, b, slot, NoOp))
MSHR_WB_insert(c, addr) ==
    /\ MSHR' = [MSHR EXCEPT ![c][BankOf(c, addr)] = Append(@, WBEntry(c, addr))]
    /\ num' = [num EXCEPT ![c][BankOf(c, addr)].wb = @ + 1]

\* MSHR_insert.  A prefetch is counted in the bank its action names.
MSHR_insert(c, act) ==
    LET b == BankOf(c, act.addr)
        counted == [num[c] EXCEPT ![b].miss = @ + 1, ![b].fill = @ + 1,
                                  ![b].unprocessed = @ + 1]
    IN  /\ MSHR' = [MSHR EXCEPT ![c][b] = Append(@, Entry(MSHR_allocate(c, b), "MISS", act))]
        /\ num' = [num EXCEPT ![c] = IF act.cmd = "PREFETCH"
                                     THEN [counted EXCEPT ![act.bank].pf = @ + 1]
                                     ELSE counted]

\* MSHR_deallocate: the counters of bank b after the i-th entry is dropped.
MSHR_deallocate(n, e) ==
    [n EXCEPT !.wb = IF e.type = "WRITEBACK" THEN @ - 1 ELSE @,
              !.miss = IF e.type = "MISS" THEN @ - 1 ELSE @,
              !.fill = IF e.type = "MISS" THEN @ - 1 ELSE @,
              !.pf = IF e.act.cmd = "PREFETCH" THEN @ - 1 ELSE @]

\* Mutant: the oldest entry of the bank takes the answer.
ArrivedFirst(m, slot, delay) == [m EXCEPT ![1].returned = delay]
\* fill_arrived in the bank m of the cache that asked.
Arrived(m, slot, delay) ==
    [i \in 1 .. Len(m) |-> IF m[i].slot = slot THEN [m[i] EXCEPT !.returned = delay] ELSE m[i]]

-----------------------------------------------------------------------------
\* Busses and controllers.  A request without data takes no bus cycle.

bus_free(b) == bus[b] = 0
bus_use(b, line) == bus' = [bus EXCEPT ![b] = IF line THEN line_cycles[b] ELSE 0]
can_schedule_upstream(c) == bus_free(next_bus[c])
can_schedule_downstream(prev) == prev # NoCache => bus_free(next_bus[prev])

\* send_request_upstream is possible
UpstreamTakes(c) == IF next_level[c] = MC THEN Len(RQ) < RQ_size
                                          ELSE cache_enqueuable(next_level[c])

\* send_request_upstream of the entry e of bank b; bus, writers, the next level's
\* pipe and flags.
send_request_upstream(c, b, e, mypipe, mywork) ==
    LET up == next_level[c]
        act == Action(e.act.cmd, e.act.addr, e.act.core, c, b, e.slot, e.act.op)
    IN  /\ bus_use(next_bus[c], e.act.cmd \in Writes)
        /\ IF up = MC
           THEN /\ RQ' = Append(RQ, [act |-> act, started |-> FALSE,
                                     finished |-> Never, returned |-> FALSE])
                /\ pipe' = mypipe
                /\ work' = mywork
                /\ UNCHANGED writers
           ELSE /\ pipe' = [mypipe EXCEPT ![up] = Enqueued(@, up, act)]
                /\ work' = [mywork EXCEPT ![up] = @ \cup {"pipe"}]
                /\ writers' = [writers EXCEPT ![e.act.addr] =
                      CASE e.act.cmd = "WRITE" -> e.act.core
                        [] e.act.cmd = "WRITEBACK" -> NoCache
                        [] OTHER -> @]
                /\ UNCHANGED RQ

\* The const controller's delay for a line another core wrote last.
SharingDelay(act) ==
    IF writers[act.addr] \notin {NoCache, act.core} THEN sharing_penalty ELSE 0

-----------------------------------------------------------------------------
\* A core's request: cache_enqueue by the pipeline, after cache_enqueuable.
Request(c, cmd, addr) ==
    /\ pc = Idle /\ c \notin ran
    /\ Len(op) < MaxRequests
    /\ cache_enqueuable(c)
    /\ op' = Append(op, [core |-> c, live |-> TRUE, translated |-> Len(op) + 1 \notin Late, answers |-> 0])
    /\ pipe' = [pipe EXCEPT ![c] = Enqueued(@, c, Action(cmd, addr, c, NoCache, 0, 0, Len(op) + 1))]
    /\ work' = [work EXCEPT ![c] = @ \cup {"pipe"}]
    /\ UNCHANGED <<blocks, fill, MSHR, num, PFF, PF_buffer, bus, writers, memory, pc, ran>>

\* The pipeline drops the operation (a new action_id), or its TLB access ends.
Squash(o) ==
    /\ pc = Idle /\ op[o].core \notin ran
    /\ o \in Doomed
    /\ op[o].live /\ op[o].answers = 0
    /\ op' = [op EXCEPT ![o].live = FALSE]
    /\ UNCHANGED <<caches, bus, writers, memory, pc, ran>>

Translate(o) ==
    /\ pc = Idle /\ op[o].core \notin ran
    /\ ~op[o].translated
    /\ op' = [op EXCEPT ![o].translated = TRUE]
    /\ UNCHANGED <<caches, bus, writers, memory, pc, ran>>

\* translated_cb: first-level caches wait for the translation of a live operation
Translated(c, act) == c = LLC \/ act.op = NoOp \/ ~op[act.op].live \/ op[act.op].translated

-----------------------------------------------------------------------------
\* cache_process: advance the clock and run the passes, if there is work.

Less(t) == IF t \in {0, Never} THEN t ELSE t - 1
Aged(q) == [i \in 1 .. Len(q) |-> [q[i] EXCEPT !.exit = Less(@)]]
AgedSlots(m) == [i \in 1 .. Len(m) |-> [m[i] EXCEPT !.returned = Less(@)]]
AgedRQ(q) == [i \in 1 .. Len(q) |-> [q[i] EXCEPT !.finished = Less(@)]]

\* The counters drop by one when the clock of the cache advances.
Tick(c) ==
    /\ pipe' = [pipe EXCEPT ![c] = Aged(@)]
    /\ fill' = [fill EXCEPT ![c] = Aged(@)]
    /\ MSHR' = [MSHR EXCEPT ![c] = [b \in Banks(c) |-> AgedSlots(MSHR[c][b])]]

\* The flag a pass tests before it does anything, and the turns of its loop
FlagOf(pass) == IF pass = "WB_drop" THEN "MSHR_WB" ELSE pass
Turns(c, pass) ==
    CASE pass \in {"MSHR_WB", "MSHR_fill"} -> MSHR_banks[c]
      [] pass \in {"WB_drop", "fill", "pipe", "MSHR"} -> 1

\* The first pass from k on whose flag is up among w; b is the state of the busses.
PassFrom(k, c, w, b, found) ==
    LET up == {p \in k .. Len(Passes) : FlagOf(Passes[p]) \in w}
    IN  IF up = {} THEN Idle
        ELSE [cache |-> c, pass |-> Min(up), turn |-> 1, up |-> b[next_bus[c]] = 0,
              found |-> found]

Start(c) ==
    /\ pc = IF c = LLC THEN LLCDue ELSE Idle
    /\ c \notin ran
    /\ ran' = IF c = LLC THEN {} ELSE ran \cup {c}
    /\ Tick(c)
    /\ pc' = PassFrom(1, c, work[c], bus, FALSE)
    /\ UNCHANGED <<blocks, num, work, PFF, PF_buffer, bus, writers, memory, op>>

Running(c, pass) == pc.cache = c /\ Passes[pc.pass] = pass

\* The next turn of the pass, or the next pass; found: the pass saw work.
\* Whether the bus upwards is free is looked at once per pass.
Advance(found) ==
    LET c == pc.cache
        f == pc.found \/ found
    IN  pc' = IF pc.turn < Turns(c, Passes[pc.pass])
              THEN [pc EXCEPT !.turn = @ + 1, !.found = f]
              ELSE PassFrom(pc.pass + 1, c, work'[c], bus',
                            f /\ Passes[pc.pass] = "MSHR_WB")

\* The flags when a pass ends: what the pass found replaces its own flag.
EndFlag(w, c, found) ==
    LET pass == Passes[pc.pass]
        last == pc.turn >= Turns(c, pass)
    IN  IF ~last \/ pass = "MSHR_WB" THEN w
        ELSE IF pc.found \/ found THEN [w EXCEPT ![c] = @ \cup {FlagOf(pass)}]
                                  ELSE [w EXCEPT ![c] = @ \ {FlagOf(pass)}]

TurnBank(c) == (pc.turn - 1) % MSHR_banks[c]

\* Pass 1, cache_process_MSHR_WB: each bank sends its oldest writeback.  Whether
\* the bus is free was looked at once, before the loop.
ProcessMSHR_WB(c) ==
    /\ Running(c, "MSHR_WB") /\ "MSHR_WB" \in work[c]
    /\ LET b == TurnBank(c)
           waiting == {i \in 1 .. Len(MSHR[c][b]) :
                         MSHR[c][b][i].type = "WRITEBACK" /\ ~MSHR[c][b][i].started}
           i == Min(waiting)
       IN  /\ IF pc.up /\ waiting # {} /\ UpstreamTakes(c)
              THEN /\ MSHR' = [MSHR EXCEPT ![c][b][i].started = TRUE]
                   /\ send_request_upstream(c, b, MSHR[c][b][i], pipe, work)
              ELSE UNCHANGED <<MSHR, bus, pipe, work, writers, RQ>>
           /\ Advance(~pc.up \/ waiting # {})
    /\ UNCHANGED <<blocks, fill, num, PFF, PF_buffer, last_request, ran, op>>

\* ... and then the writebacks the next level has answered are dropped, one in a
\* turn.
DropMSHR_WB(c) ==
    /\ Running(c, "WB_drop") /\ "MSHR_WB" \in work[c]
    /\ LET Sent(b) == {i \in 1 .. Len(MSHR[c][b]) :
                         MSHR[c][b][i].type = "WRITEBACK" /\ MSHR[c][b][i].started}
           Over(b) == {i \in Sent(b) : MSHR[c][b][i].returned = 0}
           found == \E b \in Banks(c) : Sent(b) # {}
       IN  \/ /\ \E b \in Banks(c) :
                   /\ Over(b) # {} /\ \A d \in 0 .. b - 1 : Over(d) = {}
                   /\ num' = [num EXCEPT ![c][b] = MSHR_deallocate(@, MSHR[c][b][Min(Over(b))])]
                   /\ MSHR' = [MSHR EXCEPT ![c][b] = RemoveAt(@, Min(Over(b)))]
              /\ pc' = [pc EXCEPT !.found = TRUE]
              /\ UNCHANGED <<work, bus>>
           \/ /\ \A b \in Banks(c) : Over(b) = {}
              /\ work' = EndFlag(work, c, found)
              /\ UNCHANGED <<MSHR, num, bus>>
              /\ Advance(found)
    /\ UNCHANGED <<blocks, pipe, fill, PFF, PF_buffer, writers, memory, ran, op>>

\* The answer to the level below: send_response_downstream with fill_arrived, or
\* the callback of a first-level cache.  m and w are MSHR and work as this pass
\* leaves them.
Answer(act, m, w) ==
    IF act.prev = NoCache
    THEN /\ MSHR' = m
         /\ work' = w
         /\ op' = IF Live(act.op) THEN [op EXCEPT ![act.op].answers = @ + 1] ELSE op
         /\ UNCHANGED bus
    ELSE /\ MSHR' = [m EXCEPT ![act.prev][act.bank] = Arrived(@, act.index, SharingDelay(act))]
         /\ work' = [w EXCEPT ![act.prev] = @ \cup {"MSHR_fill", "MSHR_WB"}]
         /\ bus_use(next_bus[act.prev], act.cmd # "WRITEBACK")
         /\ UNCHANGED op

\* The prefetch buffer, most recent first: a known address moves to the front, a
\* new one takes the place of the last.
Buffered(q, c, addr) ==
    LET known == {k \in 1 .. Len(q) : q[k] = addr}
        all == <<addr>> \o (IF known = {} THEN q ELSE RemoveAt(q, Min(known)))
    IN  SubSeq(all, 1, Min({Len(all), PF_buffer_size[c]}))

\* prefetch_filter_lookup: the filter's counters may say either.
prefetch_filter_lookup(cmd) == IF cmd = "PREFETCH" /\ PF_filter THEN BOOLEAN ELSE {TRUE}

\* Pass 2, cache_process_MSHR_fill: the oldest miss that has returned starts its
\* fill, is answered downstream and gives its slot back.
Returned(c, b) == {i \in 1 .. Len(MSHR[c][b]) :
                     MSHR[c][b][i].type = "MISS" /\ MSHR[c][b][i].returned = 0}

ProcessMSHR_fill(c) ==
    /\ Running(c, "MSHR_fill") /\ "MSHR_fill" \in work[c]
    /\ LET b == TurnBank(c)
           e == MSHR[c][b][Min(Returned(c, b))]
           found == num[c][b].fill > 0
           ready == /\ found /\ Returned(c, b) # {} /\ cache_fillable(c)
                    /\ can_schedule_downstream(e.act.prev)
           buffered == e.act.cmd = "PREFETCH" /\ PF_buffer_size[c] > 0
           filled == e.act.cmd \in {"READ", "PREFETCH"} \/ write_alloc[c]
       IN  IF ready
           THEN \E insert \in prefetch_filter_lookup(e.act.cmd) :
                  /\ PF_buffer' = IF buffered /\ insert
                                  THEN [PF_buffer EXCEPT ![c] = Buffered(@, c, e.act.addr)]
                                  ELSE PF_buffer
                  /\ fill' = IF insert /\ ~buffered /\ filled
                             THEN [fill EXCEPT ![c] = cache_fill(@, c, e.act.cmd, e.act.addr)]
                             ELSE fill
                  /\ num' = [num EXCEPT ![c][b] = MSHR_deallocate(@, e)]
                  /\ Answer(e.act, [MSHR EXCEPT ![c][b] = RemoveAt(@, Min(Returned(c, b)))],
                            EndFlag([work EXCEPT ![c] = IF fill' = fill THEN @ ELSE @ \cup {"fill"}],
                                    c, found))
                  /\ Advance(found)
           ELSE /\ work' = EndFlag(work, c, found)
                /\ UNCHANGED <<MSHR, num, fill, PF_buffer, bus, op>>
                /\ Advance(found)
    /\ UNCHANGED <<blocks, pipe, PFF, writers, memory, ran>>

\* Pass 3, cache_process_fills: the fill at the root of the heap is written into
\* the array unless the block is there already.  A dirty victim of a write-back
\* cache needs a writeback slot; without one the fill waits, though a CLOCK hand
\* has moved.
EndFills(c, w) ==
    /\ work' = EndFlag(w, c, fill[c] # <<>>)
    /\ UNCHANGED bus
    /\ Advance(fill[c] # <<>>)

\* Mutants: the new entry is not looked for.
ForgetWB(w, c) == [w EXCEPT ![c] = @ \cup {"MSHR"}]
ForgetMSHR(w, c) == [w EXCEPT ![c] = @ \cup {"MSHR_WB"}]
\* MSHR_allocate raises the flags of both passes that look at new entries.
AllocFlags(w, c) == [w EXCEPT ![c] = @ \cup {"MSHR", "MSHR_WB"}]

\* Mutant: what has come in since the miss is not looked at.
NeverFilled(c, f) == FALSE
\* Another fill has brought the block meanwhile.
AlreadyFilled(c, f) == cache_peek(TagSet(c, f.addr), f.addr) # 0

WriteFill(c, i, s, v) ==
    LET victim == v.set[v.at]
        cast_out == victim.valid /\ victim.dirty /\ write_back[c]
        f == fill[c][i]
    IN  IF cast_out /\ ~MSHR_WB_available(c, victim.tag)
        THEN /\ blocks' = [blocks EXCEPT ![c][s] = v.set]
             /\ EndFills(c, work)
             /\ UNCHANGED <<MSHR, num, fill>>
        ELSE /\ blocks' = [blocks EXCEPT ![c][s] = cache_insert_block(Policy[c],
                             [v.set EXCEPT ![v.at].valid = FALSE, ![v.at].dirty = FALSE],
                             f.cmd, f.addr)]
             /\ fill' = [fill EXCEPT ![c] = RemoveAt(@, i)]
             /\ IF cast_out THEN MSHR_WB_insert(c, victim.tag) /\ EndFills(c, AllocFlags(work, c))
                            ELSE UNCHANGED <<MSHR, num>> /\ EndFills(c, work)

ProcessFills(c) ==
    /\ Running(c, "fill") /\ "fill" \in work[c]
    /\ \/ /\ \A i \in Roots(fill[c]) : fill[c][i].exit > 0
          /\ EndFills(c, work)
          /\ UNCHANGED <<blocks, MSHR, num, fill>>
       \/ \E i \in Roots(fill[c]) :
            LET s == SetOf(c, fill[c][i].addr)
                present == AlreadyFilled(c, fill[c][i])
            IN  /\ fill[c][i].exit = 0
                /\ \/ /\ present
                      /\ fill' = [fill EXCEPT ![c] = RemoveAt(@, i)]
                      /\ EndFills(c, work)
                      /\ UNCHANGED <<blocks, MSHR, num>>
                   \/ /\ ~present
                      /\ \E v \in cache_get_evictee(Policy[c], blocks[c][s]) : WriteFill(c, i, s, v)
    /\ UNCHANGED <<pipe, PFF, PF_buffer, writers, memory, ran, op>>

-----------------------------------------------------------------------------
\* Pass 4, cache_process_pipe.  The access at the root of the heap is a hit, a
\* hit in the prefetch buffer, a miss that takes an MSHR slot, or it stays where
\* it is.  cache_is_hit has moved the replacement state in every case.

EndPipe(c, w) == /\ work' = EndFlag(w, c, TRUE)
                 /\ UNCHANGED bus
                 /\ Advance(TRUE)

\* The root of the heap is due; i is its place.
Due(c, i) == /\ Running(c, "pipe") /\ "pipe" \in work[c]
             /\ i \in Roots(pipe[c]) /\ pipe[c][i].exit = 0

Looked(c, act) ==
    [blocks EXCEPT ![c][SetOf(c, act.addr)] =
        cache_is_hit(Policy[c], write_back[c], @, act.cmd, act.addr)]

Hit(c, act) == cache_peek(TagSet(c, act.addr), act.addr) # 0
WritesThrough(c, act) == act.cmd \in Writes /\ ~write_back[c]
InBuffer(c, act) == /\ act.cmd \in {"READ", "PREFETCH"} \/ write_combining
                    /\ \E k \in 1 .. Len(PF_buffer[c]) : PF_buffer[c][k] = act.addr

\* The prefetcher's answer for a read that leaves the pipe: nothing, or an address
\* for the prefetch FIFO, which drops its oldest when full.
Prefetched(q, c, addr) ==
    IF \E k \in 1 .. Len(q) : q[k] = addr THEN q
    ELSE Append(IF Len(q) = PFF_size[c] THEN Tail(q) ELSE q, addr)
AskPrefetcher(c, act, asked) ==
    IF asked /\ act.cmd = "READ" /\ PFF_size[c] > 0
    THEN PFF' \in {PFF} \cup {[PFF EXCEPT ![c] = Prefetched(@, c, a)] : a \in lookup[act.addr]}
    ELSE UNCHANGED PFF

\* prefetch_used of update_request_stats
Used(s, act) == LET k == cache_peek(s, act.addr)
                IN  [s EXCEPT ![k].prefetch_used = @ \/ (act.cmd # "PREFETCH" /\ s[k].prefetched)]

PipeHit(c) ==
    \E i \in 1 .. Len(pipe[c]) :
      LET act == pipe[c][i].act
          s == SetOf(c, act.addr)
          stalls == \/ WritesThrough(c, act) /\ ~MSHR_WB_available(c, act.addr)
                    \/ ~can_schedule_downstream(act.prev)
          through == IF WritesThrough(c, act)
                     THEN [MSHR EXCEPT ![c][BankOf(c, act.addr)] = Append(@, WBEntry(c, act.addr))]
                     ELSE MSHR
      IN  /\ Due(c, i) /\ Hit(c, act)
          /\ \/ /\ stalls
                /\ blocks' = Looked(c, act)
                /\ EndPipe(c, work)
                /\ UNCHANGED <<pipe, MSHR, num, PFF, op>>
             \/ /\ ~stalls
                /\ blocks' = [Looked(c, act) EXCEPT ![c][s] = Used(@, act)]
                /\ pipe' = [pipe EXCEPT ![c] = RemoveAt(@, i)]
                /\ num' = IF WritesThrough(c, act)
                          THEN [num EXCEPT ![c][BankOf(c, act.addr)].wb = @ + 1] ELSE num
                /\ Answer(act, through, EndFlag(IF WritesThrough(c, act) THEN AllocFlags(work, c)
                                                ELSE work, c, TRUE))
                /\ AskPrefetcher(c, act, ~prefetch_on_miss)
                /\ Advance(TRUE)
          /\ UNCHANGED <<fill, PF_buffer, writers, memory, ran>>

\* A block of the prefetch buffer is moved into the cache if its victim v can be
\* cast out and the fill pipe has room; the access is answered in any case.
BufferHit(c, act, v) ==
    LET victim == v.set[v.at]
        cast_out == victim.valid /\ victim.dirty /\ write_back[c]
        wb == cast_out /\ MSHR_WB_available(c, act.addr)
        ok == (cast_out => wb) /\ cache_fillable(c)
    IN  /\ blocks' = [blocks EXCEPT ![c][SetOf(c, act.addr)] =
                        IF ok THEN [v.set EXCEPT ![v.at].valid = FALSE, ![v.at].dirty = FALSE]
                              ELSE v.set]
        /\ fill' = IF ok THEN [fill EXCEPT ![c] = cache_fill(@, c, "PREFETCH", act.addr)]
                         ELSE fill
        /\ PF_buffer' = IF ok THEN PF_buffer
                              ELSE [PF_buffer EXCEPT ![c] = Buffered(@, c, act.addr)]
        /\ num' = IF wb THEN [num EXCEPT ![c][BankOf(c, victim.tag)].wb = @ + 1] ELSE num
        /\ Answer(act,
                  IF wb THEN [MSHR EXCEPT ![c][BankOf(c, victim.tag)] =
                                 Append(@, WBEntry(c, victim.tag))] ELSE MSHR,
                  EndFlag([work EXCEPT ![c] = @ \cup (IF ok THEN {"fill"} ELSE {})
                                                \cup (IF wb THEN {"MSHR", "MSHR_WB"} ELSE {})],
                          c, TRUE))

PipeBufferHit(c) ==
    \E i \in 1 .. Len(pipe[c]) :
      LET act == pipe[c][i].act
      IN  /\ Due(c, i) /\ ~Hit(c, act) /\ InBuffer(c, act)
          /\ can_schedule_downstream(act.prev)                \* asserted
          /\ \E v \in cache_get_evictee(Policy[c], TagSet(c, act.addr)) : BufferHit(c, act, v)
          /\ pipe' = [pipe EXCEPT ![c] = RemoveAt(@, i)]
          /\ AskPrefetcher(c, act, ~prefetch_on_miss)
          /\ Advance(TRUE)
          /\ UNCHANGED <<writers, memory, ran>>

PipeMiss(c) ==
    \E i \in 1 .. Len(pipe[c]) :
      LET act == pipe[c][i].act
      IN  /\ Due(c, i) /\ ~Hit(c, act) /\ ~InBuffer(c, act)
          /\ IF MSHR_available(c, act.addr)
             THEN /\ MSHR_insert(c, act)
                  /\ pipe' = [pipe EXCEPT ![c] = RemoveAt(@, i)]
                  /\ AskPrefetcher(c, act, TRUE)
                  /\ EndPipe(c, AllocFlags(work, c))
             ELSE /\ UNCHANGED <<MSHR, num, pipe, PFF>>
                  /\ EndPipe(c, work)
          /\ UNCHANGED <<blocks, fill, PF_buffer, writers, memory, ran, op>>

PipeWaits(c) ==
    /\ Running(c, "pipe") /\ "pipe" \in work[c]
    /\ \A i \in Roots(pipe[c]) : pipe[c][i].exit > 0
    /\ work' = EndFlag(work, c, pipe[c] # <<>>)
    /\ UNCHANGED bus
    /\ Advance(pipe[c] # <<>>)
    /\ UNCHANGED <<blocks, pipe, fill, MSHR, num, PFF, PF_buffer, writers, memory, ran, op>>

-----------------------------------------------------------------------------
\* Pass 5, cache_process_MSHR: the oldest miss not sent yet, by the order of the
\* commands and then of the banks, goes to the next level.  One request is sent
\* per cycle; a bank whose request the next level refuses lets the next one try.
Unsent(c, b, cmds) ==
    {i \in 1 .. Len(MSHR[c][b]) :
       LET e == MSHR[c][b][i]
       IN  e.type = "MISS" /\ ~e.started /\ e.act.cmd \in cmds /\ Translated(c, e.act)}

ProcessMSHR(c) ==
    /\ Running(c, "MSHR") /\ "MSHR" \in work[c]
    /\ LET Senders(k) == {b \in Banks(c) : /\ pc.up /\ UpstreamTakes(c)
                                            /\ num[c][b].unprocessed > 0
                                            /\ Unsent(c, b, cmd_order[k]) # {}}
           ranks == {k \in 1 .. Len(cmd_order) : Senders(k) # {}}
           found == \E b \in Banks(c) : num[c][b].miss > 0
       IN  IF ranks # {}
           THEN LET k == Min(ranks)
                    b == Min(Senders(k))
                    i == Min(Unsent(c, b, cmd_order[k]))
                IN  /\ MSHR' = [MSHR EXCEPT ![c][b][i].started = TRUE]
                    /\ num' = [num EXCEPT ![c][b].unprocessed = @ - 1]
                    /\ send_request_upstream(c, b, MSHR[c][b][i], pipe, EndFlag(work, c, TRUE))
           ELSE /\ work' = EndFlag(work, c, found)
                /\ UNCHANGED <<MSHR, num, bus, pipe, writers, RQ>>
    /\ pc' = Idle
    /\ UNCHANGED <<blocks, fill, PFF, PF_buffer, last_request, ran, op>>

\* cache_prefetch: the oldest address of the prefetch FIFO becomes an access.  The
\* bus-utilisation controller may hold prefetches back for any number of cycles.
Prefetch(c) ==
    /\ pc = Idle
    /\ IF c = LLC THEN ran = {} ELSE c \in ran
    /\ PFF[c] # <<>>
    /\ LET a == Head(PFF[c])
           b == BankOf(c, a)
       IN  /\ num[c][b].miss < prefetch_threshold
           /\ num[c][b].pf < prefetch_max
           /\ cache_enqueuable(c)
           /\ pipe' = [pipe EXCEPT ![c] = Enqueued(@, c, Action("PREFETCH", a, c, NoCache, b, 0, NoOp))]
    /\ PFF' = [PFF EXCEPT ![c] = Tail(@)]
    /\ work' = [work EXCEPT ![c] = @ \cup {"pipe"}]
    /\ UNCHANGED <<blocks, fill, MSHR, num, PF_buffer, bus, writers, memory, pc, ran, op>>

-----------------------------------------------------------------------------
\* MC_simple_t::step, in the uncore's cycle before the LLC.  A request to the open
\* page goes first unless scheduling is FIFO; one answer per cycle uses the FSB;
\* the head leaves the queue once it has been answered.
StepRQ(q, lat) ==
    LET waiting == {i \in 1 .. Len(q) : ~q[i].started}
        samepage == {i \in waiting : PageOf(q[i].act.addr) = last_request}
        i == IF FIFO_scheduling \/ samepage = {} THEN Min(waiting) ELSE Min(samepage)
    IN  IF waiting = {} THEN q
        ELSE [q EXCEPT ![i] = [@ EXCEPT !.started = TRUE, !.finished = lat]]

\* The cycle in which an access to DRAM that starts takes lat cycles.
StepMemory(lat) ==
    LET aged == AgedRQ(RQ)
        sent == StepRQ(aged, lat)
        fsb == Less(bus["FSB"])
        answer == {i \in 1 .. Len(sent) : sent[i].finished = 0 /\ ~sent[i].returned /\ fsb = 0}
        i == Min(answer)
        after == IF answer = {} THEN sent ELSE [sent EXCEPT ![i].returned = TRUE]
        started == {k \in 1 .. Len(RQ) : sent[k].started /\ ~aged[k].started}
    IN  /\ RQ' = IF after # <<>> /\ Head(after).returned THEN Tail(after) ELSE after
        /\ last_request' = IF started = {} THEN last_request
                           ELSE PageOf(RQ[Min(started)].act.addr)
        /\ IF answer = {}
           THEN UNCHANGED <<MSHR, work>>
           ELSE LET act == sent[i].act
                IN  /\ MSHR' = [MSHR EXCEPT ![act.prev][act.bank] = Arrived(@, act.index, 0)]
                    /\ work' = [work EXCEPT ![act.prev] = @ \cup {"MSHR_fill", "MSHR_WB"}]
        /\ bus' = [LLC_bus |-> Less(bus["LLC_bus"]),
                   FSB |-> IF answer = {} THEN fsb ELSE line_cycles["FSB"]]

MCStep ==
    /\ pc = Idle /\ ran = L1s
    /\ \E lat \in DramLatency : StepMemory(lat)
    /\ pc' = LLCDue
    /\ UNCHANGED <<blocks, pipe, fill, num, PFF, PF_buffer, writers, ran, op>>

-----------------------------------------------------------------------------
RunPass(c) ==
    \/ ProcessMSHR_WB(c)
    \/ DropMSHR_WB(c)
    \/ ProcessMSHR_fill(c)
    \/ ProcessFills(c)
    \/ PipeHit(c)
    \/ PipeBufferHit(c)
    \/ PipeMiss(c)
    \/ PipeWaits(c)
    \/ ProcessMSHR(c)

Next ==
    \/ \E r \in Accesses : Request(r[1], r[2], r[3])
    \/ \E o \in 1 .. Len(op) : Squash(o) \/ Translate(o)
    \/ \E c \in Caches : Start(c) \/ RunPass(c) \/ Prefetch(c)
    \/ MCStep

Spec == Init /\ [][Next]_vars

(***************************************************************************)
(* The uncore gets its cycle for ever: the barrier opens again and again   *)
(* (BarrierOpens of CycleBarrier), and no cache can stop in the middle of  *)
(* one, which the runs' deadlock check shows.  And the TLB answers.        *)
(***************************************************************************)
FairSpec ==
    /\ Spec
    /\ []<><<MCStep>>_vars
    /\ \A o \in Late : SF_vars(o <= Len(op) /\ Translate(o))

-----------------------------------------------------------------------------
\* The entries of all banks of c.
Entries(c) == UNION {{MSHR[c][b][i] : i \in 1 .. Len(MSHR[c][b])} : b \in Banks(c)}

TypeOK ==
    /\ \A c \in Caches :
         /\ \A s \in 0 .. Sets[c] - 1 : 
              Len(blocks[c][s]) = Assoc[c] /\ blocks[c][s] \in Seq(Line(Assoc[c], Blocks))
         /\ Len(pipe[c]) <= latency[c] /\ Len(fill[c]) <= latency[c]
         /\ work[c] \subseteq Flags
         /\ Len(PFF[c]) <= PFF_size[c] /\ Len(PF_buffer[c]) <= PF_buffer_size[c]
    /\ Len(RQ) <= RQ_size
    /\ pc.cache \in Caches \cup {NoCache}

\* What the assertions of MSHR_insert, MSHR_WB_insert and MSHR_deallocate say:
\* the counters count the entries, misses leave the slots reserved for
\* writebacks free, no counter runs below zero and no two entries share a slot.
MSHRCounted ==
    \A c \in Caches : \A b \in Banks(c) :
      LET m == MSHR[c][b]
          Count(P(_)) == Cardinality({i \in 1 .. Len(m) : P(m[i])})
      IN  /\ num[c][b].miss = Count(LAMBDA e : e.type = "MISS")
          /\ num[c][b].fill = num[c][b].miss
          /\ num[c][b].wb = Count(LAMBDA e : e.type = "WRITEBACK")
          /\ num[c][b].unprocessed = Count(LAMBDA e : e.type = "MISS" /\ ~e.started)
          /\ num[c][b].pf = Count(LAMBDA e : e.act.cmd = "PREFETCH")
          /\ num[c][b].miss <= MSHR_size[c] - MSHR_WB_size[c]
          /\ num[c][b].wb <= MSHR_WB_size[c]
          /\ Cardinality({m[i].slot : i \in 1 .. Len(m)}) = Len(m)

\* A block is valid in one way of its set at most, though fills, prefetches and
\* writebacks to one block can be under way together.
NoDuplicateTag ==
    \A c \in Caches : \A s \in 0 .. Sets[c] - 1 : \A i, j \in 1 .. Assoc[c] :
      LET l == blocks[c][s]
      IN  l[i].valid /\ l[j].valid /\ l[i].tag = l[j].tag => i = j

\* What the level above c holds for the slot of bank b: accesses, misses and
\* memory requests not answered yet.
Upstream(c, b, slot) ==
    LET up == next_level[c]
        Mine(act) == act.prev = c /\ act.bank = b /\ act.index = slot
    IN  IF up = MC
        THEN {<<"RQ", i>> : i \in {k \in 1 .. Len(RQ) : ~RQ[k].returned /\ Mine(RQ[k].act)}}
        ELSE {<<"pipe", i>> : i \in {k \in 1 .. Len(pipe[up]) : Mine(pipe[up][k].act)}}
             \cup {<<"MSHR", e.slot, e.act.addr>> :
                     e \in {x \in Entries(up) : x.type = "MISS" /\ Mine(x.act)}}

\* Tag arrays and MSHRs keep their form, whatever the order of fills, evictions,
\* writebacks and prefetches.
ArraysSound == TypeOK /\ MSHRCounted /\ NoDuplicateTag

\* Every slot that waits for the next level is known there exactly once, so that
\* it is answered and the answer finds it; no other slot is; and an operation of a
\* core that still wants its data has one access in its cache or has been called
\* back, once.
AnsweredOnce ==
    /\ \A c \in Caches : \A b \in Banks(c) : \A slot \in 0 .. MSHR_size[c] - 1 :
         LET waits == \E i \in 1 .. Len(MSHR[c][b]) :
                        LET e == MSHR[c][b][i] IN e.slot = slot /\ e.started /\ e.returned = Never
         IN  Cardinality(Upstream(c, b, slot)) = IF waits THEN 1 ELSE 0
    /\ \A o \in 1 .. Len(op) : op[o].live =>
         LET Own(act) == act.op = o /\ act.prev = NoCache
             accesses == UNION {{c} \X {i \in 1 .. Len(pipe[c]) : Own(pipe[c][i].act)} : c \in L1s}
             misses == UNION {{c} \X {e \in Entries(c) : Own(e.act)} : c \in L1s}
         IN  Cardinality(accesses) + Cardinality(misses) + op[o].answers = 1

\* Between cycles, whatever a cache still has to do has its check_for flag up: a
\* cache that skips its cycle for lack of work has none.
WorkSeen ==
    pc = Idle => \A c \in Caches :
      /\ pipe[c] # <<>> => "pipe" \in work[c]
      /\ fill[c] # <<>> => "fill" \in work[c]
      /\ \A e \in Entries(c) :
           /\ e.type = "MISS" /\ e.returned # Never => "MSHR_fill" \in work[c]
           /\ e.type = "MISS" /\ ~e.started => "MSHR" \in work[c]
           /\ e.type = "WRITEBACK" /\ (~e.started \/ e.returned # Never) => "MSHR_WB" \in work[c]

\* Every access the core still waits for is called back in the end.
Answered ==
    \A o \in Ops :
      (o <= Len(op)) ~> (o <= Len(op) /\ (~op[o].live \/ op[o].answers = 1))
=============================================================================
