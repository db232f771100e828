-------------------------- MODULE HandshakeBuffer --------------------------
(***************************************************************************)
(* The path of one program thread's handshakes from the feeder to the      *)
(* timing simulator: produceBuffer_ (BufferManagerProducer.cpp), the files *)
(* and their shared list (BufferManager.cpp), consumeBuffer_               *)
(* (BufferManagerConsumer.cpp), the consuming loop (timing_sim.cpp) and    *)
(* the feeder's callers of the buffer (feeder_zesto.cpp, paravirt.cpp).    *)
(*                                                                         *)
(* Actors: the program thread that owns the buffer, a pauser (another      *)
(* thread of the program that runs PauseSimulation and ResumeSimulation)   *)
(* and the sim thread that runs the owner.  The scheduler is reduced to    *)
(* one bit, what IsSHMThreadSimulatingMaybe() returns for the owner.       *)
(***************************************************************************)
EXTENDS Integers, Sequences, SequencesExt

CONSTANTS
    Capacity,       \* bufferCapacity
    Workloads,      \* what may happen besides instructions, sets of operations
    Overlap,        \* may a pause find the owner inside a callback?
    MaxHandshakes   \* bound: handshakes that are produced

ASSUME BufferAssumption ==
    /\ Capacity \in Nat \ {0}
    /\ MaxHandshakes \in Nat
    /\ Workloads \subseteq SUBSET {"yield", "sync", "kill", "pause"}
    /\ Overlap \in BOOLEAN

VARIABLES
    produceBuffer,  \* produceBuffer_[tid], oldest first
    file,           \* handshakes written to the file that is open for writing
    files,          \* fileNames and fileCounts: the handshakes of each file
    fileEntryCount,
    consumeBuffer,  \* consumeBuffer_[tid], oldest first
    sent,           \* handshakes marked valid so far (history)
    received,       \* handshakes popped so far (history)
    owner,          \* where the program thread is, see TypeOK
    op,             \* what is being done to the produce buffer, see TypeOK
    then,           \* what op continues with
    ignore_all,     \* tstate->ignore_all
    pauser,         \* where PauseSimulation is, see TypeOK
    mark,           \* the number of the pauser's give-up handshake (history)
    scheduled,      \* IsSHMThreadSimulatingMaybe(tid)
    messages,       \* who has a request to schedule the thread in the queue
    consumer,       \* where the sim thread is, see TypeOK
    left,           \* handshakes left to read, or left in the batch
    workload        \* the operations of this program, see Workloads

producing == <<produceBuffer, file, sent>>
scheduling == <<scheduled, messages>>
consuming == <<consumeBuffer, received, consumer, left>>
vars == <<produceBuffer, file, files, fileEntryCount, consumeBuffer, sent,
          received, owner, op, then, ignore_all, pauser, mark, scheduled,
          messages, consumer, left, workload>>

Kinds == {"insn", "trap", "yield", "giveup", "kill"}

(* An element of a buffer as Invalidate() leaves it.                       *)
Fresh == [id |-> 0, kind |-> "insn", valid |-> FALSE]

Init ==
    /\ produceBuffer = <<>> /\ file = <<>> /\ files = <<>> /\ consumeBuffer = <<>>
    /\ fileEntryCount = 0 /\ sent = 0 /\ received = 0 /\ left = 0 /\ mark = 0
    /\ owner = "idle" /\ op = "none" /\ then = "none"
    /\ ignore_all = FALSE /\ pauser = "none"
    /\ scheduled = TRUE /\ messages = {} /\ consumer = "loop"
    /\ workload \in Workloads

-----------------------------------------------------------------------------
(* The produce side.                                                       *)

(* Mutant: a new element for every call.                                   *)
AlwaysPush(b) == Append(b, Fresh)

(* GetBuffer(): the element that is being filled in, or else a new one.    *)
GetBuffer(b) ==
    IF b # <<>> /\ ~Last(b).valid THEN b ELSE Append(b, Fresh)

(* The caller fills in the element GetBuffer() returned and marks it valid. *)
Validate(b, kind) ==
    [b EXCEPT ![Len(b)] = [id |-> sent + 1, kind |-> kind, valid |-> TRUE]]

full(b) == Len(b) = Capacity

(* ProducerDone() on buffer b: a full buffer is copied to a file before    *)
(* the caller goes on with next.                                           *)
ProducerDone(b, next) ==
    /\ produceBuffer' = b
    /\ sent' = sent + 1
    /\ IF full(b)
       THEN op' = "writing" /\ then' = next
       ELSE op' = next /\ then' = "none"
    /\ UNCHANGED <<file, files, fileEntryCount>>

(* One handshake of a kind that is not an instruction.                     *)
AddHandshake(kind, next) == ProducerDone(Validate(GetBuffer(produceBuffer), kind), next)

(* FlushBuffers(): copyProducerToFile() returns at once if there is        *)
(* nothing to write.                                                       *)
FlushBuffers ==
    /\ op = "flush"
    /\ op' = IF produceBuffer = <<>> THEN "none" ELSE "writing"
    /\ then' = "none"
    /\ UNCHANGED <<producing, files, fileEntryCount, consuming, owner,
                   ignore_all, pauser, mark, scheduling>>

(* copyProducerToFile() writes the front element and pops it.              *)
writeHandshake ==
    /\ op = "writing"
    /\ produceBuffer # <<>>
    /\ file' = Append(file, Head(produceBuffer))
    /\ produceBuffer' = Tail(produceBuffer)
    /\ UNCHANGED <<files, fileEntryCount, sent, op, then, consuming, owner,
                   ignore_all, pauser, mark, scheduling>>

(* Mutant: nobody who waits for a file is woken up.                        *)
SilentNotify ==
    /\ op = "writing"
    /\ produceBuffer = <<>>
    /\ files' = Append(files, file)
    /\ file' = <<>>
    /\ fileEntryCount' = fileEntryCount + Len(file)
    /\ op' = then
    /\ then' = "none"
    /\ UNCHANGED <<produceBuffer, sent, consuming, owner, ignore_all, pauser,
                   mark, scheduling>>

(* Everything is written: the file becomes visible, a waiting consumer is  *)
(* woken up, and the caller of copyProducerToFile() goes on.               *)
NotifyProduced ==
    /\ op = "writing"
    /\ produceBuffer = <<>>
    /\ files' = Append(files, file)
    /\ file' = <<>>
    /\ fileEntryCount' = fileEntryCount + Len(file)
    /\ consumer' = IF consumer = "asleep" THEN "front" ELSE consumer
    /\ op' = then
    /\ then' = "none"
    /\ UNCHANGED <<produceBuffer, sent, consumeBuffer, received, left, owner,
                   ignore_all, pauser, mark, scheduling>>

-----------------------------------------------------------------------------
(* The owner.  Between two analysis callbacks it is idle, with or without  *)
(* a half-filled element at the back of the buffer.                        *)

(* Bound: room for k more handshakes and for the last one of the thread.   *)
Room(k) == sent + k < MaxHandshakes

(* GrabInstructionMemory(), GrabInstructionContext() and                   *)
(* FixRepInstructionNPC() pass CheckIgnoreConditions() and get a buffer.   *)
GetProperBuffer ==
    /\ owner = "idle" /\ op = "none"
    /\ ~ignore_all
    /\ Room(1)
    /\ produceBuffer' = GetBuffer(produceBuffer)
    /\ owner' = "inside"
    /\ UNCHANGED <<file, files, fileEntryCount, sent, op, then, consuming,
                   ignore_all, pauser, mark, scheduling>>

(* The callback returns; another callback will finish the instruction.     *)
Return ==
    /\ owner = "inside" /\ op = "none"
    /\ owner' = "idle"
    /\ UNCHANGED <<producing, files, fileEntryCount, op, then, consuming,
                   ignore_all, pauser, mark, scheduling>>

(* The instruction is fully instrumented.                                  *)
FinalizeBuffer ==
    /\ owner = "inside" /\ op = "none"
    /\ ProducerDone(Validate(produceBuffer, "insn"), "none")
    /\ owner' = "idle"
    /\ UNCHANGED <<consuming, ignore_all, pauser, mark, scheduling>>

(* A blocking system call, pthread_join or sched_setaffinity: the sim      *)
(* thread takes the next thread of its run queue, which may be this one.   *)
AddYieldHandshake ==
    /\ "yield" \in workload
    /\ owner = "idle" /\ op = "none" /\ pauser # "trapped"
    /\ Room(1)
    /\ AddHandshake("yield", "flush")
    /\ UNCHANGED <<consuming, owner, ignore_all, pauser, mark, scheduling>>

(* SyncWithTimingSim(): give the core up, and wait to be descheduled.      *)
SyncWithTimingSim ==
    /\ "sync" \in workload
    /\ owner = "idle" /\ op = "none" /\ pauser # "trapped"
    /\ scheduled
    /\ Room(1)
    /\ AddHandshake("giveup", "flush")
    /\ owner' = "sync"
    /\ UNCHANGED <<consuming, ignore_all, pauser, mark, scheduling>>

(* Mutant: the thread does not wait to be descheduled.                     *)
EagerScheduleThread ==
    /\ owner = "sync" /\ op = "none"
    /\ owner' = "sched"
    /\ messages' = messages \cup {"owner"}
    /\ UNCHANGED <<producing, files, fileEntryCount, op, then, consuming,
                   ignore_all, pauser, mark, scheduled>>

(* The wait is over; ScheduleThread() sends its message ...                *)
ScheduleThread ==
    /\ owner = "sync" /\ op = "none"
    /\ ~scheduled
    /\ owner' = "sched"
    /\ messages' = messages \cup {"owner"}
    /\ UNCHANGED <<producing, files, fileEntryCount, op, then, consuming,
                   ignore_all, pauser, mark, scheduled>>

(* ... and waits until the thread is scheduled.                            *)
SeesScheduled ==
    /\ owner = "sched"
    /\ scheduled
    /\ owner' = "idle"
    /\ UNCHANGED <<producing, files, fileEntryCount, op, then, consuming,
                   ignore_all, pauser, mark, scheduling>>

ThreadFini ==
    /\ "kill" \in workload
    /\ owner = "idle" /\ op = "none" /\ pauser # "trapped"
    /\ sent < MaxHandshakes
    /\ AddHandshake("kill", "flush")
    /\ owner' = "exit"
    /\ UNCHANGED <<consuming, ignore_all, pauser, mark, scheduling>>
-----------------------------------------------------------------------------
(* The pauser.                                                             *)

(* PauseSimulation(): the owner starts to ignore instructions; if it is    *)
(* scheduled, a trap goes into its buffer ...                              *)
PauseSimulation ==
    /\ "pause" \in workload
    /\ pauser = "none" /\ ~ignore_all /\ op = "none"
    /\ Overlap \/ owner # "inside"
    /\ Room(2)
    /\ ignore_all' = TRUE
    /\ IF scheduled
       THEN AddHandshake("trap", "none") /\ pauser' = "trapped"
       ELSE pauser' = "wait" /\ UNCHANGED <<producing, files, fileEntryCount, op, then>>
    /\ UNCHANGED <<consuming, owner, mark, scheduling>>

(* ... and then a give-up handshake, which is flushed ...                  *)
AddGiveUpHandshake ==
    /\ pauser = "trapped" /\ op = "none"
    /\ AddHandshake("giveup", "flush")
    /\ mark' = sent + 1
    /\ pauser' = "wait"
    /\ UNCHANGED <<consuming, owner, ignore_all, scheduling>>

(* ... and the pauser waits until the owner is descheduled.                *)
ThreadsDone ==
    /\ pauser = "wait" /\ op = "none"
    /\ ~scheduled
    /\ pauser' = "none"
    /\ UNCHANGED <<producing, files, fileEntryCount, op, then, consuming,
                   owner, ignore_all, mark, scheduling>>

(* ResumeSimulation() asks the scheduler for every thread of thread_list,  *)
(* from which nothing is ever removed, ...                                 *)
ResumeSimulation ==
    /\ pauser = "none" /\ ignore_all
    /\ ignore_all' = FALSE
    /\ messages' = messages \cup {"pauser"}
    /\ pauser' = "resume"
    /\ UNCHANGED <<producing, files, fileEntryCount, op, then, consuming,
                   owner, mark, scheduled>>

(* ... and waits until they are scheduled.                                 *)
AllScheduled ==
    /\ pauser = "resume"
    /\ scheduled
    /\ pauser' = "none"
    /\ UNCHANGED <<producing, files, fileEntryCount, op, then, consuming,
                   owner, ignore_all, mark, scheduling>>
-----------------------------------------------------------------------------
(* The sim thread, in SimulatorLoop.                                       *)

(* Some sim thread takes a request to schedule the thread off the queue.   *)
CheckIPCMessageQueue ==
    /\ \E m \in messages : messages' = messages \ {m}
    /\ scheduled' = TRUE
    /\ UNCHANGED <<producing, files, fileEntryCount, op, then, consuming,
                   owner, ignore_all, pauser, mark>>

(* The batch is what is in memory; if that is nothing, Front() gets a file. *)
GetConsumerSize ==
    /\ consumer = "loop" /\ scheduled
    /\ left' = Len(consumeBuffer)
    /\ consumer' = IF consumeBuffer = <<>> THEN "front" ELSE "batch"
    /\ UNCHANGED <<producing, files, fileEntryCount, op, then, consumeBuffer,
                   received, owner, ignore_all, pauser, mark, scheduling>>

(* WaitForFile(): sleep on the condition variable while there is no entry. *)
WaitForFile ==
    /\ consumer = "front"
    /\ IF fileEntryCount = 0
       THEN consumer' = "asleep" /\ UNCHANGED left
       ELSE consumer' = "reading" /\ left' = Len(Head(files))
    /\ UNCHANGED <<producing, files, fileEntryCount, op, then, consumeBuffer,
                   received, owner, ignore_all, pauser, mark, scheduling>>

(* copyFileToConsumer() reads the next handshake of the oldest file.       *)
readHandshake ==
    /\ consumer = "reading" /\ left > 0
    /\ consumeBuffer' = Append(consumeBuffer, Head(files)[Len(Head(files)) - left + 1])
    /\ left' = left - 1
    /\ UNCHANGED <<producing, files, fileEntryCount, op, then, received,
                   consumer, owner, ignore_all, pauser, mark, scheduling>>

(* Mutant: the entries are subtracted but the file stays in the list.      *)
KeepFile ==
    /\ consumer = "reading" /\ left = 0
    /\ fileEntryCount' = fileEntryCount - Len(Head(files))
    /\ consumer' = "batch"
    /\ left' = Len(consumeBuffer)
    /\ UNCHANGED <<producing, files, op, then, consumeBuffer, received, owner,
                   ignore_all, pauser, mark, scheduling>>

(* The file is removed, and Front() returns to the loop.                   *)
NotifyConsumed ==
    /\ consumer = "reading" /\ left = 0
    /\ fileEntryCount' = fileEntryCount - Len(Head(files))
    /\ files' = Tail(files)
    /\ consumer' = "batch"
    /\ left' = Len(consumeBuffer)
    /\ UNCHANGED <<producing, op, then, consumeBuffer, received, owner,
                   ignore_all, pauser, mark, scheduling>>

(* GiveUpCore() without reschedule and DescheduleActiveThread() take the   *)
(* thread off its run queue.                                               *)
LeavesRunQueue(kind) == kind \in {"giveup", "kill"}

(* Does the sim thread leave the batch after a handshake of this kind?     *)
(* After an instruction, if the scheduler wants the core (NeedsReschedule). *)
Breaks(kind) == IF kind \in {"insn", "trap"} THEN BOOLEAN ELSE {TRUE}

(* One round of the batch: the front handshake is acted on and popped.     *)
Consume ==
    /\ consumer = "batch"
    /\ IF left = 0
       THEN /\ consumer' = "loop"
            /\ UNCHANGED <<consumeBuffer, received, left, scheduled>>
       ELSE LET handshake == Head(consumeBuffer) IN
            \E break \in Breaks(handshake.kind) :
                /\ consumeBuffer' = Tail(consumeBuffer)
                /\ received' = received + 1
                /\ left' = IF break THEN 0 ELSE left - 1
                /\ consumer' = IF break THEN "loop" ELSE "batch"
                /\ scheduled' = (scheduled /\ ~LeavesRunQueue(handshake.kind))
    /\ UNCHANGED <<producing, files, fileEntryCount, op, then, owner,
                   ignore_all, pauser, mark, messages>>
-----------------------------------------------------------------------------
Produce ==
    /\ \/ GetProperBuffer \/ Return \/ FinalizeBuffer
       \/ AddYieldHandshake \/ SyncWithTimingSim \/ ThreadFini
       \/ PauseSimulation \/ ResumeSimulation
    /\ UNCHANGED workload
Copy == (FlushBuffers \/ writeHandshake \/ NotifyProduced) /\ UNCHANGED workload
Waits == (ScheduleThread \/ SeesScheduled) /\ UNCHANGED workload
Pause == (AddGiveUpHandshake \/ ThreadsDone \/ AllScheduled) /\ UNCHANGED workload
Simulate ==
    /\ \/ GetConsumerSize \/ WaitForFile \/ readHandshake \/ NotifyConsumed
       \/ Consume
    /\ UNCHANGED workload
Schedule == CheckIPCMessageQueue /\ UNCHANGED workload

(* The thread produces nothing more (it exited, or the bound is reached)   *)
(* and the simulator has consumed every file.                              *)
Quiescent ==
    /\ owner \in {"idle", "exit"} /\ op = "none" /\ pauser = "none"
    /\ files = <<>> /\ consumeBuffer = <<>> /\ messages = {}
    /\ consumer = "asleep" \/ ~scheduled
    /\ UNCHANGED vars

Next == Quiescent \/ Produce \/ Copy \/ Waits \/ Pause \/ Simulate \/ Schedule

Spec == Init /\ [][Next]_vars

(* A thread that is inside an operation finishes it; a thread that polls   *)
(* sees a condition that stays true; a sim thread goes on simulating.      *)
FairSpec ==
    /\ Spec
    /\ WF_vars(Copy) /\ WF_vars(Waits) /\ WF_vars(Pause) /\ WF_vars(Simulate)
    /\ WF_vars(Schedule)
-----------------------------------------------------------------------------
Slot == [id : 0 .. MaxHandshakes, kind : Kinds, valid : BOOLEAN]

(* Every buffer and every actor is in one of the states named here.       *)
TypeOK ==
    /\ \A b \in {produceBuffer, file, consumeBuffer} \cup ToSet(files) :
          b \in Seq(Slot)
    /\ Len(produceBuffer) <= Capacity /\ Len(consumeBuffer) <= Capacity
    /\ fileEntryCount \in 0 .. MaxHandshakes
    /\ sent \in 0 .. MaxHandshakes /\ received \in 0 .. sent
    /\ mark \in 0 .. MaxHandshakes /\ left \in 0 .. Capacity
    /\ owner \in {"idle", "inside", "sync", "sched", "exit"}
    /\ op \in {"none", "flush", "writing"} /\ then \in {"none", "flush"}
    /\ pauser \in {"none", "trapped", "wait", "resume"}
    /\ messages \subseteq {"owner", "pauser"}
    /\ ignore_all \in BOOLEAN /\ scheduled \in BOOLEAN
    /\ workload \in Workloads
    /\ consumer \in {"loop", "front", "asleep", "reading", "batch"}

(* The finished elements of a produce buffer: at most the last is not.     *)
Finished(b) == IF b # <<>> /\ ~Last(b).valid THEN Front(b) ELSE b

(* The handshakes that are finished and were not consumed, wherever they   *)
(* are: in memory on the simulator's side, in the files (the oldest        *)
(* without what was already read), in the open file, in memory on the      *)
(* feeder's side.                                                          *)
Unread == IF consumer = "reading"
          THEN SubSeq(Head(files), Len(Head(files)) - left + 1, Len(Head(files)))
                 \o FlattenSeq(Tail(files))
          ELSE FlattenSeq(files)
InFlight == consumeBuffer \o Unread \o file \o Finished(produceBuffer)

Channel == INSTANCE HandshakeChannel WITH
              queue <- [i \in 1 .. Len(InFlight) |-> InFlight[i].id]

(* Every handshake that the feeder finishes is consumed once, in order,    *)
(* across both in-memory buffers and the files between them.               *)
ImplementsChannel == Channel!Spec

(* "Make sure that the next call to GetBuffer() succeeds"                  *)
(* (BufferManagerProducer.cpp): whoever may call GetBuffer() finds either  *)
(* a half-filled element or room for a new one.  And a file fits into      *)
(* consumeBuffer_: assert(!consumeBuffer_[tid]->full()).                   *)
BuffersFit ==
    /\ op = "none" => Len(produceBuffer) < Capacity \/ ~Last(produceBuffer).valid
    /\ consumer = "reading" /\ left > 0 => Len(consumeBuffer) < Capacity

(* SimulatorLoop computes the size of a batch once; Front() never has to   *)
(* wait for a file inside the batch, and every handshake in it is valid.   *)
BatchInMemory ==
    consumer = "batch" =>
        /\ left <= Len(consumeBuffer)
        /\ \A i \in 1 .. Len(consumeBuffer) : consumeBuffer[i].valid

(* The buffer manager never has to abort, and a batch is there when it is  *)
(* simulated.                                                              *)
BuffersSound == TypeOK /\ BuffersFit /\ BatchInMemory

(* "Returning from PauseSimulation() guarantees that all sim threads are   *)
(* spinning in SimulatorLoop" (feeder_zesto.cpp, EndSimSlice): when the    *)
(* pauser stops waiting, everything up to its own give-up handshake was    *)
(* consumed.  "Feeder and timing sim are now in sync for this thread."     *)
(* (SyncWithTimingSim): that wait ends only after every instruction of the *)
(* thread was simulated.                                                   *)
WaitsDrain == [][(ThreadsDone => received >= mark) /\ (ScheduleThread => received = sent)]_vars

(* PauseSimulation() and ResumeSimulation() return, and so do              *)
(* SyncWithTimingSim() and the ScheduleThread() after it.                  *)
FeederReturns ==
    /\ pauser # "none" ~> pauser = "none"
    /\ owner \in {"sync", "sched"} ~> owner = "idle"
=============================================================================
