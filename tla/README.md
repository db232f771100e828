# A TLA+ verification project for XIOSim

XIOSim is a user-level simulator of x86 multicore microarchitectures. A
*harness* process starts the programs to be measured under Pin, and one *timing
simulator* process. In each program a *feeder* (the Pin tool) turns executed
instructions into *handshakes*; the timing simulator has one *sim thread* per
simulated core that consumes them and drives a cycle-level model of the core.

This project models two things. The first is the machinery whose correctness
depends on the order in which threads and processes act: the lock, the scheduler,
the barrier between cores, and the path of a handshake from the feeder to the
simulator. The second is the simulated machine, whose correctness depends on the
order in which its parts act in simulated time: the oracle, the front end with its
branch predictor, the three pipelines, and the caches. Each of these has a module
of its own and a TLC run on small instances; the lock, the scheduler, the barrier,
the circular buffer, the handshake buffers, the oracle and the caches also have
theorems checked by TLAPS.

Paths below are relative to `src/xiosim/`.

## Inventory

### What the system consists of

| Part | Source | State | Operations | Hard because |
|---|---|---|---|---|
| Ticket lock | `synchronization.h` | one word: next ticket, ticket being served | `lock`, `unlock` | lock-free instructions, 16-bit wrap-around |
| Scheduler | `pintool/scheduler.cpp` | run queues, thread control blocks, affinity, map of sleepers; in shared memory `coreThreads`, `threadCores` | schedule, give up, deschedule, migrate, block, unblock | many small critical sections under several locks; feeders watch from other processes |
| Timing simulator loop | `pintool/timing_sim.cpp` | per-core loop, kill flag | fetch messages, choose a thread, simulate a batch, stop | consumes handshakes while feeders wait for side effects |
| Cycle barrier | `sim-loop.cpp` | `finished_cycle`, `active`, `min_coreID`, local time | wait for the other cores, `activate_core`, `deactivate_core` | the master of the barrier changes while cores join and quit |
| Circular buffer | `pintool/buffer.h` | pool, head, tail, size | push, pop, pop_back, clear | wrap-around |
| Handshake buffers | `pintool/BufferManager*.cpp` | produce buffer, files, shared list of files, consume buffer | `GetBuffer`, `ProducerDone`, `FlushBuffers`, `Front`, `Pop` | two processes and a file system in between |
| Feeder | `pintool/feeder_zesto.cpp`, `paravirt.cpp`, `sync_pthreads.cpp`, `syscall_handling.cpp` | thread states, `thread_list`, producer semaphores | instrument, emit control handshakes, pause, resume, fast-forward | polls shared maps instead of being told |
| IPC queues | `pintool/ipc_queues.cpp` | three bounded queues, acknowledgement map | send, blocking send, receive | acknowledgements keyed by content |
| Slices and regions of interest | `slices.cpp`, `pintool/roi.cpp` | fast-forward and slice barriers between processes | start and end of a slice | all processes must take part |
| Core allocators | `pintool/*_allocator.cpp` | table of scaling curves, cores granted | allocate, deallocate | arithmetic at boundaries |
| Oracle | `zesto-oracle.cpp`, `shadow_MopQ.h` | MopQ, shadow queue, speculation flags | buffer, execute, undo, commit, nuke, drain | must replay after recovery exactly what was fetched |
| Front end (DPM) | `ZPIPE-fetch/fetch-DPM.cpp`, `ZPIPE-decode/decode-DPM.cpp` | byteQ, predecode pipe, IQ, decode pipe, uopQ, jeclear pipe | one step per stage and cycle, recovery | wrong-path Mops in five queues, each with its own rule of recovery |
| Out-of-order back end (DPM) | `ZPIPE-alloc`, `-exec`, `-commit/*-DPM.cpp` | alloc pipe, RS, ports, functional units, LDQ, STQ and senior STQ, ROB | one step per stage and cycle, answers of caches | speculative wakeup and replay, forwarding, memory order, recovery |
| In-order back end (IO-DPM) | `*-IO-DPM.cpp` | payload pipes, units, LDQ, STQ, pre-commit pipe, ROB | the same | no scoreboard: order is kept by comparing what is under way |
| Simple core (STM) | `*-STM.cpp` | all stages; heaps for units; a pool of uops | the same | dead entries point into reused memory |
| Caches | `zesto-cache.cpp`, `ZCOMPS-coherence` | tag arrays, pipes, MSHR, fill pipes, prefetch FIFO and buffer, work flags | lookup, miss, fill, evict, write back, prefetch | bounded queues between levels, flags that let a cycle be skipped |
| Memory controller and bus | `ZCOMPS-MC/MC-simple.cpp`, `zesto-noc.cpp` | request FIFO, bus | enqueue, step | back-pressure |
| Branch prediction | `zesto-bpred.cpp`, `ZCOMPS-bpred`, `-fusion`, `-btb`, `-ras` | tables, histories, state caches, return stacks | lookup, speculative update, update, recover, flush | recovery order |
| Simulated memory | `memory.cpp` | page tables per address space, brk | map, unmap, translate | first touch |
| Others | `speculation.cpp`, `ildjit.cpp`, `decode.cpp`, `uop_cracker.cpp`, `stats*`, `zesto-power.cpp`, `zesto-config*.cpp`, `harness.cpp` | | | see "Not modelled" |

### How the parts interact

* Feeder to scheduler: an IPC message (`SCHEDULE_NEW_THREAD`,
  `SCHEDULE_PROCESS_THREADS`) taken by any sim thread; and *control handshakes*
  in the thread's own stream (give up the core, yield, block on a thread, set
  affinity, kill), taken by the sim thread that runs the thread.
* Scheduler to feeder: nothing is sent. Feeders poll `threadCores` in shared
  memory until their thread is, or is no longer, in it.
* Scheduler to barrier: `activate_core` and `deactivate_core`.
* Feeder to simulator: handshakes go to a ring in the feeder, which is written
  to a file when it is full or flushed; the file is named in a shared list with a
  condition variable; the simulator reads the oldest file into a ring of its own.
* Simulator to core: `simulate_handshake` keeps one handshake in hand and runs
  cycles until the oracle has taken it; the pipeline asks the oracle to undo Mops
  and fetch to start again elsewhere.
* Front end to back end: uops through the uopQ; back: `pipe_recover` and
  `pipe_flush`, which go through the oracle to every stage, at once or through the
  jeclear pipe.
* Core to caches: `cache_enqueue` with a callback; the callback is void when the
  action id of the uop or line has changed since.
* Every shared structure is guarded by the ticket lock.

## Modules

| Module | Models | Contents |
|---|---|---|
| `TicketLock` | `synchronization.h` | the lock, one step per x86 instruction that touches the word |
| `TicketLockProofs` | | theorems about it |
| `Scheduler` | `scheduler.cpp`, the loop of `timing_sim.cpp`, the polling of `feeder_zesto.cpp` | one step per critical section |
| `SchedulerProofs` | | theorems about it |
| `Lockstep` | | what the barrier promises: the clock advances exactly when every running core has arrived |
| `CycleBarrier` | `sim-loop.cpp` | the barrier, one step per critical section of `cycle_lock` |
| `CycleBarrierProofs` | | theorems, and the proof that `CycleBarrier` implements `Lockstep` |
| `BoundedDeque` | | what the buffer promises: a bounded sequence |
| `RingBuffer` | `buffer.h` | the circular implementation |
| `RingBufferProofs` | | theorems, and the proof that `RingBuffer` implements `BoundedDeque` |
| `HandshakeChannel` | | what the buffers promise: a FIFO of handshakes, nothing lost, doubled or reordered |
| `HandshakeBuffer` | `BufferManager*.cpp`, the consuming loop, the feeder's callers | produce buffer, files, consume buffer, the pauser |
| `HandshakeBufferProofs` | | theorems, and the proof that `HandshakeBuffer` implements `HandshakeChannel` |
| `Oracle` | the loop of `simulate_handshake` in `sim-loop.cpp`, `zesto-oracle.cpp`, `shadow_MopQ.*`, the jeclear pipe of `fetch-DPM.cpp` | what happens to a handshake inside a core, and the recoveries |
| `OracleProofs` | | theorems about it |
| `BranchUnit` | `zesto-bpred.cpp`, `2bitc.h`, `ZCOMPS-bpred`, `-fusion`, `-btb`, `-ras` | the predictor as operators from state to state |
| `FrontEnd` | `fetch-DPM.cpp`, `decode-DPM.cpp` | extends `BranchUnit`: fetch and decode with the MopQ, and an abstract back end |
| `OutOfOrderCore` | `alloc-DPM.cpp`, `exec-DPM.cpp`, `commit-DPM.cpp`, `ZCOMPS-memdep` | the out-of-order back end; front end and caches are its environment |
| `InOrderCore` | `*-IO-DPM.cpp` | the in-order back end |
| `SimpleCore` | `*-STM.cpp`, the pool of `uop_cracker.cpp` | the whole simple core |
| `CacheArray` | `zesto-cache.cpp` (tag array, replacement) | one set of a cache, as operators |
| `CacheArrayProofs` | | what each operation keeps of a set |
| `CacheHierarchy` | `zesto-cache.cpp`, `ZCOMPS-coherence/const.cpp`, `zesto-noc.cpp`, `MC-simple.cpp` | extends `CacheArray`: private caches, the shared one, busses, memory |
| `CacheHierarchyProofs` | | theorems about it |
| `MC...` | | instances for TLC |

Definitions have the name of the C++ function they model where there is one;
`PROJECT.json` maps each to its lines. A definition whose comment starts with
"Mutant" is a plausible bug in the definition after it. It is used by no
specification; it is there to show that the properties can fail.

### TicketLock

`next` and `serving` are the two half-words of the lock. `TakeTicket` is the
locked `xadd`; `Enter` and `Reload` are the two outcomes of the compare loop,
which works on a register copy of the low half (`seen`) and reloads it after a
`pause`; `Unlock` is the `incw` of the low half, which must not carry into the
high one. `Modulus` is 2^16 in the code and a constant here, so that TLC meets
the wrap with a full queue; the theorems hold for any modulus.

### Scheduler

The state is the code's: `q` (run queues), `tcb` (`blocked_on`,
`run_queue_ID`), `affinity`, `last_coreID`, `blocked_thread_map`, the cores'
`active` flags, and the shared maps. `op[c]` is the point at which the sim thread
of core `c` is; `fstate[t]` is what the feeder of thread `t` is waiting for.

One step is one critical section. A section of a run queue's lock that takes
other locks inside is one step, as no other sim thread can see it half done,
with two exceptions. `GiveUpCore` and `DescheduleActiveThread` remove the thread
from `threadCores`, which feeders read without the run queue's lock, before they
clear (`ForgetRunQueue`) or erase (`EraseThread`) its control block, so that a
feeder, and through it another sim thread, may act in between. A failed assert
moves the sim thread to `"abort"`.

The handshakes of a thread are chosen when its core consumes them; the feeder
runs ahead and waits only where it polls. `Emits` says which control handshakes
each thread may produce. `NeedsReschedule` compares cycle counts; here the tick
may expire after any instruction. `thread_list` of the feeder never shrinks, so
`ResumeSimulation` also schedules threads that have exited; `exited` keeps them.
`LateErase` says whether it may do so while a sim thread is still between
`RemoveSHMThread` and `threads.erase`.

### Lockstep and CycleBarrier

`pc[c]` is where the sim thread of a core is: in `SimulatorLoop` (`"idle"`), in
`simulate_handshake` (`"cycle"`), about to take `cycle_lock` (`"sync"`), in the
loop of the master (`"master"`) or of the others (`"wait"`). The master is the
core that finds its id in `min_coreID`; it counts finished and active cores
(`Gathered`) and, when they agree, runs `global_step()` and clears every
`finished_cycle`. Local time is an integer: `Period[c]` per cycle, reset when it
reaches `SyncInterval`, as in the code. The environment is in three constants:
`FirstCores`, the cores that may be the first to be activated, `Leavers`, the
cores that are ever deactivated, and `Reactivates`, whether `activate_core` may
hit a core that is active.

The refinement mapping to `Lockstep` is: running cores are the active ones,
arrived cores those with `finished_cycle`, the clock is `sim_cycle` modulo 2.

### BoundedDeque and RingBuffer

Every operation of `Buffer<T>`. An element holds a value or `Invalid`: the users
of the buffer mark elements, and the buffer invalidates them on `pop`. The
mapping reads the ring from `tail_` for `size_` elements (`Contents`).

### HandshakeChannel and HandshakeBuffer

One program thread (`owner`), another thread of its program that pauses and
resumes the simulation (`pauser`), and the sim thread (`consumer`). The scheduler
is one bit, what `IsSHMThreadSimulatingMaybe` returns. `op` is the operation in
progress on the produce buffer, with one step per handshake that is written, so
that consumer and pauser act in between. `Workloads` is a set of sets of
operations, of which a behaviour takes one: `"yield"` (system calls and joins),
`"sync"` (`SyncWithTimingSim` followed by `ScheduleThread`), `"kill"`
(`ThreadFini`) and `"pause"`. `Overlap` says whether a pause may find the owner
inside an analysis callback.

The mapping to `HandshakeChannel` concatenates what is in the consume buffer, in
the files (without what was already read of the oldest), in the file being
written and, if valid, in the produce buffer.

### Oracle

`MopQ` and `shadow_MopQ` are sequences, oldest first, instead of rings (that is
`RingBuffer`). `pc` is where `simulate_handshake` is: back at the feeder, at the
top of its loop, in `do_fetch()`, in `sim_main_slave_post_pin()`, or in the rest
of the pipeline. PCs are reduced to two comparisons the code makes: `diverged`
(`core->fetch->PC != core->fetch->feeder_NPC`) and, per Mop, `br` (is its
predicted next PC right). Speculative handshakes are counted per shadow entry
(`speculated`); what is in them never gets past a recovery. `stage` is the place
of a Mop's valid jeclear in the pipe; an entry whose Mop was undone, or has a
newer one, is invalid by its action id in the code and has no `stage` here.
`jeclear_delay` is a knob, chosen in `Init`.

Fetch is `Exec`, `Consume` and `Stall`; whether the byteQ has room, whether the
prediction is right and whether fetch can go on in the same cycle are left open.
`PreFetch` is the jeclear pipe. The other stages are their effects on the oracle,
each as often as it likes in a cycle and in any order, which covers the fixed order
of `sim_main_slave_pre_pin`: `CheckTarget` at decode, `Resolve`, `Nuke` and
`MisSchedule` in execution, `Commit`. Decode is in order and execution comes after
it. `did_consume` is not a variable: whenever it is looked at, it equals
`consumed`, which only the top of the loop clears.

`Slots` is how many consumed Mops find room behind fetch. The oracle is meant to be
larger (`zesto-oracle.cpp:85`), which the run takes for granted.

### The simulated cores

`OutOfOrderCore`, `InOrderCore` and `SimpleCore` are written alike. A program is a
sequence of uops with their Mop, dependences, bytes of memory and whether a branch
is mispredicted; fetch delivers it in order, goes on past a mispredicted branch
(what follows is the wrong path) and delivers the same uops again after recovery.
The core is one record, `core`; every function of the code is an operator from core
to core under the name it has there, and `pc` is the stage whose turn it is, in the
order of `sim_main_slave_pre_pin()`. A cycle is therefore deterministic except for
its environment: in the step of the caches, they answer any of the outstanding
accesses in any order (`Answer`), report a miss (`Miss`), or do not take an access
(`refused`), and between cycles the core may be drained (`FlushCore`, from
`sim_drain_pipe()`). A failed assert puts its name into `core.failed`.

Times are the cycles that remain, so that the state space is finite. Action ids
are not numbers: an in-flight use of a uop is marked dead by `new_action_id`, or
removed where a dead one is never looked at again. Register values are not carried;
`LoadsOrdered` uses a history, `missed`, of the older stores to its bytes that a
load did not see.

In `SimpleCore` the memory of uops is part of the model (`get_uop_array`,
`return_uop_array`), because `RS_schedule()` reads a field through a pointer before
it looks at the action id.

### BranchUnit and FrontEnd

`BranchUnit` has the calls of `bpred_t`: `lookup`, `spec_update`, `update`,
`recover`, `flush`, and the pool of state caches (`get_state_cache`,
`return_state_cache`). Tables are indexed by history and address without Xor.
`FrontEnd` calls it where `fetch-DPM.cpp`, `decode-DPM.cpp` and the oracle do. A
program has its instructions by address, with the wrong paths, and the addresses
that are executed. The back end is external: it takes uops, resolves branches,
nukes loads and commits, late or at once; the IL1 and the ITLB refuse requests or
answer late (`Stalls` bounds how often all of this).

### CacheArray and CacheHierarchy

`cache_process` runs five passes over the banks of a cache; one turn of one pass is
one action, and `pc` says whose turn it is. Nothing runs in between: private caches
run under `cache_lock`, the shared one while the cores wait at the barrier. The
requests come from `Accesses`; the prefetcher's proposals from `lookup`; the TLB of
the requests in `Late` takes time; the operations in `Doomed` may be squashed,
after which their callback must not be made.

## Runs

| Run | Instance | Shows |
|---|---|---|
| `ticket_lock` | 3 threads, modulus 3 | `MutualExclusion`, `FirstComeFirstServed`, `EveryLockReturns` |
| `sched` | 2 cores, 3 threads of 2 processes, one join | `RunQueuesSound`: a thread is at one place of one queue, no assert fails, a sim thread pops the thread it has simulated, and until a thread blocks, queue, active flag and shared maps name the same thread. `SleepersAccounted`: a sleeper is always recorded or about to be. `JoinReturnsAfterExit` |
| `barrier` | 3 cores, periods 2, 1, 1, interval 2 | `ImplementsLockstep`, `MinIsLeastActive`, and `BarrierOpens` while core 0 keeps its core |
| `ring_buffer` | ring of 4, 2 values | `ImplementsDeque` |
| `buffer` | rings of 3, 8 handshakes, a paused program and one that syncs and exits | `ImplementsChannel`; `BuffersSound`: the asserts of the buffer manager hold and no `Front()` of a batch waits; `WaitsDrain`: a pause or sync returns when everything before it is consumed; `FeederReturns` |
| `oracle` | MopQ of 4, 3 slots, 3 handshakes, 2 nukes, jeclear delays 0 and 2 | `InSync`: the invariant stated in `shadow_MopQ.h`, the asserts of `exec`, `get_shadow_Mop` and `simulate_handshake`, and that no handshake is lost; `RecoveryKept`: a trap drains alone, and what holds commit back is on its way; `CommitsInOrder`: each handshake is committed once, in order; `HandshakeReturns` |
| `cache` | two first-level caches (one writes through, one prefetches into a buffer), a shared one of 2 ways, 3 MSHRs with one for writebacks, 2 blocks, 2 requests | `ArraysSound`: no tag is twice in a set and the counters of the MSHRs count them; `AnsweredOnce`: every slot that waits for the next level is known there exactly once, and every operation is called back once; `WorkSeen`: a work flag that is off has no work behind it; `Answered`: every request is answered in the end |
| `core` | 6 programs, ROB 5, RS 4, LDQ 2, STQ 2, two ports, jeclear delay 2, four dependence predictors, one miss, one refusal, one drain | `NoAbort`; `Bookkeeping`: counts, indices and the readyQ agree with the uops, and a uop whose operands are coming is queued to issue; `LoadsOrdered`; `Drains` |
| `in_order` | 7 programs, ROB 6, LDQ 3, STQ 2, two ports, jeclear delays 0, 1 and 3 | `NoAbort`; `InOrder`: no slot overtakes another; `NothingLost`: every allocated uop is in exactly one place, and an operand that was produced is there or coming; `Drains` |
| `stm` | 4 programs, two ports, uop pool, one fault | `NoAbort` (one known assert excepted), `Bookkeeping`: Mops flow in order, counts agree, no live uop shares its memory with another; `LoadsOrdered` (of loads whose check looked at the queue), `Drains` |
| `front_end` | 3 programs, 5 predictors, jeclear delays 0 and 2 | `OnlyTheTrace`: what commits is the trace; `FlowInOrder`: the five queues hold the Mops in flight, once and in order; `Doomed`: while fetch is on a wrong path, an older Mop is going to resteer it; `CachesOwned`: state caches are neither leaked nor shared; `AlwaysAThree`; `Drains` |
| `sched_lost_wake` | small | a violation, see "Where code and comments disagree" |

**Bounds.** Two cores are enough for a thread to migrate and for two sim threads
to act on the same queue; three threads let a queue hold a running thread, a
waiting one and one that comes or goes; the ranges of cores of the two processes
overlap. Three cores give the barrier a master, a core that can become master,
and one more, so that counting differs from comparing sets. The ring of 4 wraps
with every number of elements in it. With rings of 3 and 8 handshakes, files are
written both because the ring is full and because it is flushed, several files
are in the list at once, and every operation happens next to every other one.
Three Mops behind fetch are enough for a misprediction, a Mop on its wrong path
and an older Mop to recover to, with two jeclears in the pipe at once; with two
nukes, the second one comes while the first is being made good. Handshakes are
numbered, so that order and loss show; speculative ones are not bounded.
The programs of the cores are written for the cases: a load that passes a store
with an unknown address, one that is forwarded from it, one that overlaps it in
part or crosses a line, a mispredicted branch with memory accesses behind it,
fused uops, fences, as many stores as the queue takes. Queues are so small that
they fill up; in the in-order core a jeclear of 3 cycles lets the wrong path get
into the ROB, and a ROB of 6 fills up with the stores; one refusal, one miss and one drain, each at any time, meet every
state of the rest. Two requests are enough for the caches to fill their pipes with
what follows from them: a miss brings a fill at two levels, an eviction, a
writeback and a prefetch. The front end's programs have a loop with a call, two
branches in a row with an indirect jump, and branches in each other's shadow.
The bounds that cut the model are `MaxHandshakes`, `MaxNukes`, `MaxRequests`,
`MaxRefusals`, `MaxMisses`, `MaxFlushes`, `MaxFaults`, `Stalls` and the sizes above;
`sim_cycle` is kept modulo 2, which is enough to tell a step from no step.

**Fairness.** In `TicketLock` a thread that has taken a ticket keeps running and
holders unlock. In `Scheduler` and `HandshakeBuffer` sim threads keep running,
and a feeder that polls a condition that stays true sees it. In `Scheduler` a
step that waits for a run queue's lock, which another sim thread takes again and
again, is strongly fair, which the ticket lock justifies (`EveryLockReturns`),
and so is the consumption of control handshakes, as a program cannot execute
instructions for ever between two of them. In `CycleBarrier` an active core gets
handshakes, the fetch width bounds the handshakes of one cycle, and the
workload is finite: cores are deactivated finitely often. In `Oracle` the loop
keeps running, nukes are finitely many, and if in cycle after cycle fetch could
place its Mop, decode check one, a branch execute or the oldest Mop commit, then
some of that happens (`Progress`): memory requests are answered. In the three cores
and the front end cycles go on (`[]<>(pc = ...)`, the loop of `simulate_handshake`
never stops inside a cycle), and while accesses are under way some are answered,
which `Answered` shows of the caches. In `CacheHierarchy` the uncore keeps running,
and a TLB answers.

**Deadlock** is checked in every passing run. `HandshakeBuffer` has an explicit
step (`Quiescent`) for the states in which the program has ended and everything
was consumed, so a wait that nobody ends is reported.

## Proofs

All theorems are for every value of the constants that satisfies the named
assumptions in the component's module.

* **TicketLock** (`ModulusAssumption`, `ProcsAssumption`, and
  `CapacityAssumption`: no more threads than tickets). `TypeCorrect`;
  `QueueEncodingInvariant`, `Exclusion`, `Fair`. Mutual exclusion is not
  inductive: two threads could hold the same ticket. The inductive invariant is
  `QueueEncoding`: `next - serving` (modulo) is the number of threads that hold a
  ticket, their tickets are distinct and lie in that interval, and a thread in the
  critical section holds the ticket being served. The lemmas are about
  subtraction modulo `Modulus` and about cardinalities.
* **CycleBarrier** (`BarrierAssumption`). `TypeCorrect`; under `~Reactivates`,
  `FinishedInBarrierInvariant` and `Refinement` (`Spec => ImplementsLockstep`);
  under `FirstCores \subseteq {0}`, `MinInvariant`. The inductive invariant is
  `FinishedInBarrier` with `HasMaster`; the point of the refinement is
  `CountIsExact`: as finished cores are active ones, equal counts mean equal sets.
  The first assumption is needed: see below.
* **RingBuffer** (`RingAssumption`). `TypeCorrect`, `RingInvariant`
  (`HeadFollowsTail` and `FreeInvalid`), `Refinement`
  (`Spec => ImplementsDeque`). The lemmas are the arithmetic of positions in the
  ring and what `Contents` becomes under each operation.

* **Scheduler** (`ThreadsAssumption`, `CoresAssumption` and the others of the module; in
  particular `PinnedAssumption`: a process that pins its threads has a core for each
  after its offset, which `scheduler.cpp:170` asserts). `Invariance`, `Sleepers`
  (`SleepersAccounted`), `JoinReturns` (`JoinReturnsAfterExit`) and, for `~LateErase`,
  `RunQueues` (`RunQueuesSound`), which fails otherwise, see below. None of the properties is inductive, as every operation is a
  chain of critical sections. The invariant says what each point between two of them may
  rely on: what a sim thread carries from one to the next (`OpShape`, `MsgShape`); that a
  thread is in at most one place of one run queue, of one sim thread's list or of one
  message (`Distinct`, `Disjoint`), which is what makes the separate check and insertion
  in `ScheduleThread` safe; that the feeder of such a thread waits or runs, so that it
  does not ask for it again (`Claimed`); that queued threads have control blocks, except
  exited ones under `LateErase` (`Exist`), because nobody wants a thread whose control
  block is being erased (`Dying`); what a core looks like between the pop of a dead
  thread and the choice of the next one (`PoppedCores`); and who may be about to block
  or to wake a thread (`Blocking`).
* **HandshakeBuffer** (`BufferAssumption`, and `Overlap = FALSE`: with `Overlap`
  `ImplementsChannel` fails, see below). `Invariance`, `Buffers` (`BuffersSound`), `Refinement`
  (`ImplementsChannel`); and, for workloads in which a program that is paused neither
  syncs nor kills (`Separated`), `Drained` (`WaitsDrain`). The invariant numbers the
  handshakes (`InOrder`): the consume buffer, the files without what was read of the
  oldest, the file being written and the finished part of the produce buffer hold the
  numbers from `received + 1` to `sent`, each once and in order. `Writing`, `Filling` and
  `Reading` say what holds at each point of the producer, the callback and the consumer.
  The mapping flattens a sequence of files of any number; that `FlattenSeq` of numbered
  files is numbered is proved by well-founded induction over a set of lengths (`Induct`).
* **Oracle** (`OracleAssumption` and `Slots < MopQ_size`, which is what
  `zesto-oracle.cpp:85` says of the size of the MopQ; without it `InSync` fails, see
  below). `Invariance`, `Synchrony` (`InSync`), `Recovery` (`RecoveryKept`),
  `InOrderCommits` (`CommitsInOrder`). The invariant relates four things that change at
  different times. `Queue`: the MopQ is a right path followed by a wrong path; if there is
  a wrong path, or the fetch PC has left the feeder's, the youngest Mop on the right path
  is mispredicted or a jeclear for it or an older one is on its way; a valid jeclear
  belongs to a fetched, marked Mop; `drain_pipeline` stands exactly while a trap is
  fetched, and a trap is last. `Shadow`: the shadow MopQ has the same handshakes in the
  same places, those of the wrong path at the side of the last, with consecutive numbers
  after the one that retired last. `Numbered` and `Loop`: the shadow reaches up to the
  handshake in hand and what each point of `simulate_handshake` may rely on. `Behind`: no
  more than `Slots` Mops are behind fetch. Each way a recovery can cut the queues
  (`RecoverSound`) and each way they grow (`EnqueueSound`, `AdvanceSound`, `ConsumeSound`)
  is a lemma about the predicates, independent of the action that uses it.

* **CacheArray and CacheHierarchy** (`LevelsAssumption`, `SizesAssumption`,
  `RequestsAssumption`, `TimesAssumption`, and `Configured`: the three conditions on a
  configuration that the code needs without asserting them, see below, and no PLRU).
  `ArraysStaySound` (`ArraysSound`), `WorkStaysSeen` (`WorkSeen`) and
  `RequestsAnsweredOnce` (`AnsweredOnce`), for any number of private caches, sets, ways,
  banks, slots, blocks and requests, with or without prefetch FIFOs and buffers.
  `CacheArrayProofs` shows of every operation on a set that no block becomes valid twice
  (`SetOK`), for LRU, MRU, NMRU, random and CLOCK replacement. The inductive invariant
  of `CacheHierarchyProofs` has three parts. `ArrayInv`: sets, queues and the point in
  `cache_process` keep their form; a valid line of a set holds a block of that set, so
  that under `Configured` a victim is written back through the bank that had room for it.
  `Good`: every bank's
  counters count its entries and no two share a slot (`BankOK`), an entry or access says
  truly who asked for it (`Routed`, `ActOwned`), and (`Linked`) a slot or an operation
  waits exactly if one request for it is in a pipe, an MSHR or the memory queue of the
  level above. `AnsweredOnce` alone is not inductive: it does not say that the entry an
  answer names is still the one that asked. `Linked` has a parameter, the set of those
  whose request is just being moved, so that each half of a step (a request leaves a
  pipe, an answer arrives, an entry is taken) is a lemma of its own and an action is a
  chain of them. `FlagInv`: the work flags also in the middle of a cycle; a pass may
  drop its flag at its last turn because `PassOK` remembers what its earlier turns
  found, and an access that enters or an answer that arrives in between sets it again.

Model-checked only: the cores and the front end, PLRU replacement, and all liveness
properties (`EveryLockReturns`, `BarrierOpens`, `BlockedUntilExit`, `FeederReturns`,
`HandshakeReturns`, `Answered`, `Drains`), because TLAPS does not reason about fairness.
The cores fold operators over sequences, which the provers cannot unfold for every
length.

## Where code and comments disagree

`sched_lost_wake` shows one as a violation (`scheduler.cpp:438`): joining a thread
that has exited already blocks for ever.

The following are kept out of the runs, by the constant or program named, and the
property named fails when they are let in.

* `scheduler.cpp:267`, `LateErase`, `RunQueuesSound`: `DescheduleActiveThread` removes
  the thread from `threadCores` before it erases the control block. If the process is
  paused and resumed in between, another sim thread finds the exited thread not
  scheduled (`scheduler.cpp:99`), keeps its control block (`scheduler.cpp:126`) and
  queues it; the block is then erased, and the next `threads.at` throws.
  `SleepersAccounted` and `JoinReturnsAfterExit` hold with it too.
* `sim-loop.cpp:209`, `BarrierOpens` without its condition on core 0: a core that is
  master, loses the role and regains it after the barrier has opened spins with its
  flag cleared, and nobody counts it again.
* `sim-loop.cpp:452`, `Reactivates`, `ImplementsLockstep`: activating a core that
  waits in the barrier lets it pass. `UnblockSleepers` can do that.
* `feeder_zesto.cpp:944`, a workload that both pauses and syncs, `WaitsDrain`: a
  pause during a sync returns before its own handshakes are consumed.
* `feeder_zesto.cpp:917`, `Overlap`, `ImplementsChannel`: a pause may find the owner
  inside an analysis callback and take over the element it is filling in.
* `sim-loop.cpp:422`, `Slots` as large as `MopQ_size`, `InSync`: if a handshake comes
  while the MopQ is full and a branch is then resteered or a load nuked, the recovery
  sets `consumed` and the loop ends; the handshake has not been buffered and is lost.
  The MopQ can fill up: a byteQ entry takes any number of Mops of its line, so a
  short loop that waits for a slow load is fetched again and again.
* `zesto-cache.cpp:2257`, a prefetch buffer at the shared cache: the assert that the
  answer to a hit in the prefetch buffer can be sent fails when the bus is busy.
* `zesto-cache.cpp:1604`, private caches that prefetch and have another number of MSHR
  banks than the shared one (excluded by `Configured`), `ArraysSound`: a prefetch is
  counted in the bank of the cache that asked and taken off the count of the bank it
  is in (`zesto-cache.cpp:1520`).
* `zesto-cache.cpp:2221`, a prefetch buffer and more MSHR banks than sets (excluded by
  `Configured`), `ArraysSound`: a hit in the buffer asks for a free writeback slot in the
  bank of the block it brings in and takes one in the bank of the victim.
* `exec-DPM.cpp:1875`, a load that starts below a store it overlaps, `LoadsOrdered`:
  the mask of overwritten bytes is shifted in place and a stale load is kept.
* `commit-DPM.cpp:658`, a fused STA and STD, `NoAbort` of `core`: a drain after the STA
  has committed squashes it a second time.
* `commit-IO-DPM.cpp:806`, a `ROB_size` of at most the slots of a program with a
  misprediction (3 for `WrongPath`) and a jeclear delay of 3, `NoAbort` of `in_order`:
  when the squashed slots lie on both sides of the end of the ROB, C's remainder makes
  `ROB_tail` negative and the next slot is written in front of the array.
* `exec-IO-DPM.cpp:1204`, `LateAnswers`, `NoAbort` of `in_order`: a load that has waited
  for a store it overlaps in part asks the DL1 again under the same action id. The
  callbacks of both accesses are taken, and the second one finds the load completed
  (`exec-IO-DPM.cpp:600`). Without `LateAnswers` the old access is answered before the
  load asks again. A load of two lines goes wrong even then, as the two old answers
  complete it while it waits: the loads that wait are within a line.
* `exec-STM.cpp:1284`, the exception in `NoAbort` of `stm`: a drain after the STA of a
  store has committed and before its STD has leaves the entry in the STQ, which the
  assert expects to be empty.
* `exec-STM.cpp:564`, the history `unchecked`, `LoadsOrdered` of `stm`: the comment at
  `exec-STM.cpp:556` says that a queue full of stores older than the load is taken care
  of; but the loop ends before its first turn when the queue is full, and the load is
  issued without a look at any of them. `LoadsOrdered` says nothing of such a load.
* `exec-STM.cpp:759`, two loads of one port in the search pipe, `NoAbort`: the first
  may be forwarded after the DL1 has completed it.
* `zesto-oracle.cpp:667`: squashed Mops are flushed from the predictor after `recover()`
  has repaired the history, and put older histories back; the repair announced at
  `zesto-bpred.cpp:955` is undone. It costs accuracy only.

Seen while modelling, and not the subject of a property:

* `run_queue_ID` of a queued thread may be cleared by the sim thread it has left
  (`scheduler.cpp:344`, the step `ForgetRunQueue`), although `scheduler.cpp:67` says
  it is set then; only `UnblockSleepers` uses it;
* a thread scheduled behind a blocked head of an idle core is only pushed on the
  queue; nobody rotates it (`scheduler.cpp:132`); and a woken thread that is not
  at the head of such a queue stays there (`scheduler.cpp:475`);
* a thread that blocks alone on its core keeps its entry of `threadCores`
  (`scheduler.cpp:310`); `RunQueuesSound` asks for agreement of the maps until the first join;
* `ScheduleProcessThreads` asserts that there is a core for every thread
  (`scheduler.cpp:170`), so a process may not have more threads than cores after
  its offset;
* `min_coreID` is 0 until some core is deactivated (`sim-loop.cpp:42`), so core 1
  alone would wait for a master that does not exist: `FirstCores` is `{0}`;
* `global_step` handles messages under `cycle_lock` (`sim-loop.cpp:136`), which
  `DEACTIVATE_CORE` would take again; nobody sends it;
* a sim thread that waits in `Front()` handles no messages (`timing_sim.cpp:68`), and
  acknowledgements of blocking messages are keyed by their contents
  (`ipc_queues.cpp:24`);
* after a second recovery on the same wrong path new speculative handshakes are
  appended behind stale ones (`shadow_MopQ.cpp:51`);
* data loads never ask the DTLB: `when_addr_translated` starts as `TICK_T_MAX`
  (`zesto-structs.h:247`) and is compared with 0 (`exec-DPM.cpp:1619`);
* the search of the store queue ends at the first store whose STA has left, although
  `exec-DPM.cpp:1300` says "including senior STQ";
* the dirty bit of a store is dropped when its fill finds the line filled meanwhile
  (`zesto-cache.cpp:2053`);
* with `target_stage = depth - 1`, which the constructor allows
  (`decode-DPM.cpp:88`), decode never checks a target (`decode-DPM.cpp:224`);
* `lookup_bhr<1` (`bpred-perceptron.cpp:190`) is a comparison where a shift is meant;
  `real_stack` has the size of the other stack (`ras-multistack.cpp:57`); the ITLB
  access of `fetch-STM.cpp:277` swaps its arguments.

## Not modelled

`PROJECT.json` lists every component with its status. Left out of the modelled parts:

* caches: more than one access bank, a bus slower than the core, the hint callback of
  misses; combining of MSHRs is disabled in the code. The throttle and the filter of
  prefetches answer freely;
* out-of-order and in-order core: the HELIX repeater, `fp_penalty`, the tornado breaker,
  the periodic reset of the load wait table, the watchdogs, statistics;
* front end: REP (the flag is never set), traps (in `Oracle`), the check for page zero,
  and of the predictor: Xor in indices, histories longer than 64 bits, random choices,
  and the skewed, TAGE, BLG, path-based, piecewise linear, alloyed, COLT, random and
  perfect components, which differ in the formula of their index.

Left out for good: speedup models (floating-point regression) and the allocators over
their tables, `speculation.cpp` and the harness (process control by the operating
system), slices (semaphores around the pause and resume that are modelled), HELIX support (`ildjit.cpp`, an external
compiler and ring network), the decoder and the tables of the uop cracker (x86 on top of
an external decoder), statistics, power and configuration (printing, third-party
libraries), prefetchers (heuristics: a wrong answer costs time only), the banked DRAM
timing models, simulated memory (a sequential page table), and disk space and the byte
layout of files in the buffer manager.

## Left open

What is not proved although the provers could in principle reach it:

* `FrontEnd`: `AlwaysAThree` is a fact about `priority_update` that every stage
  preserves; each stage is a fold, and needs a lemma that its step preserves it.
  `CachesOwned` is deeper: a Mop that fetch still holds must not commit, so nothing of it
  may be in the pipes, and that is `FlowInOrder`.
* `CacheArray`: the tree of PLRU, whose index is a power of two.
* The three cores: their stages are folds over the slots of a stage.
