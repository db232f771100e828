----------------------------- MODULE TicketLock -----------------------------
(***************************************************************************)
(* XIOSIM_LOCK, the ticket lock that every shared structure of XIOSim is   *)
(* guarded by (xiosim/synchronization.h).  The lock is one 32-bit word:    *)
(* the high half is the next ticket, the low half the ticket being served. *)
(*                                                                         *)
(* Both halves wrap at Modulus (2^16 in the code, a constant here so that  *)
(* the wrap-around happens in small instances).  A thread that takes a     *)
(* ticket keeps it in a register until it unlocks.                         *)
(***************************************************************************)
EXTENDS Naturals, FiniteSets

CONSTANTS
    Procs,      \* the threads (of any process) that use one lock
    Modulus     \* 2^16: the number of values of a half-word

ASSUME ModulusAssumption == Modulus \in Nat \ {0}
ASSUME ProcsAssumption == IsFiniteSet(Procs)

(* The lock is fair and exclusive only while tickets do not run into each  *)
(* other: at most Modulus threads may hold or wait for it.                 *)
ASSUME CapacityAssumption == Cardinality(Procs) <= Modulus

VARIABLES
    next,       \* high half of v: the ticket the next lock() takes
    serving,    \* low half of v: the ticket that owns the lock
    pc,         \* "out" | "spin" (in the compare loop) | "in" (holds the lock)
    ticket,     \* the register that holds the ticket after the xadd
    seen        \* the register that holds the last copy of the low half

vars == <<next, serving, pc, ticket, seen>>

Half == 0 .. Modulus - 1

Init ==
    /\ next = 0
    /\ serving = 0
    /\ pc = [p \in Procs |-> "out"]
    /\ ticket = [p \in Procs |-> 0]
    /\ seen = [p \in Procs |-> 0]

(* A mutant: xadd without the lock prefix, an increment may be lost.       *)
StaleTakeTicket(p) ==
    /\ pc[p] = "out"
    /\ next' \in {(next + 1) % Modulus, next}
    /\ ticket' = [ticket EXCEPT ![p] = next]
    /\ seen' = [seen EXCEPT ![p] = serving]
    /\ pc' = [pc EXCEPT ![p] = "spin"]
    /\ UNCHANGED serving

(* lock xaddl: one atomic step fetches both halves and advances the high   *)
(* one; movzwl/shrl split the fetched word into the two registers.         *)
TakeTicket(p) ==
    /\ pc[p] = "out"
    /\ next' = (next + 1) % Modulus
    /\ ticket' = [ticket EXCEPT ![p] = next]
    /\ seen' = [seen EXCEPT ![p] = serving]
    /\ pc' = [pc EXCEPT ![p] = "spin"]
    /\ UNCHANGED serving

(* cmpl/je: the copy equals the ticket, lock() returns.                    *)
Enter(p) ==
    /\ pc[p] = "spin"
    /\ seen[p] = ticket[p]
    /\ pc' = [pc EXCEPT ![p] = "in"]
    /\ UNCHANGED <<next, serving, ticket, seen>>

(* movzwl/jmp: the copy is stale, load the low half again.                 *)
Reload(p) ==
    /\ pc[p] = "spin"
    /\ seen[p] # ticket[p]
    /\ seen' = [seen EXCEPT ![p] = serving]
    /\ UNCHANGED <<next, serving, pc, ticket>>

(* A mutant: incl instead of incw, the wrap carries into the high half.    *)
CarryUnlock(p) ==
    /\ pc[p] = "in"
    /\ serving' = (serving + 1) % Modulus
    /\ next' = IF serving + 1 = Modulus THEN (next + 1) % Modulus ELSE next
    /\ pc' = [pc EXCEPT ![p] = "out"]
    /\ UNCHANGED <<ticket, seen>>

(* unlock(): incw on the low half.  It has no lock prefix; only the holder *)
(* writes the low half, and the xadd of lock() never carries into it.      *)
Unlock(p) ==
    /\ pc[p] = "in"
    /\ serving' = (serving + 1) % Modulus
    /\ pc' = [pc EXCEPT ![p] = "out"]
    /\ UNCHANGED <<next, ticket, seen>>

Next == \E p \in Procs : TakeTicket(p) \/ Enter(p) \/ Reload(p) \/ Unlock(p)

Spec == Init /\ [][Next]_vars

(* A thread that spins keeps running, and every critical section ends.     *)
(* Nothing makes a thread ask for the lock.                                *)
Fairness == \A p \in Procs : WF_vars(Enter(p) \/ Reload(p) \/ Unlock(p))

FairSpec == Spec /\ Fairness

-----------------------------------------------------------------------------
(* Both halves of the lock word, and the tickets, keep their width.        *)
TypeOK ==
    /\ next \in Half
    /\ serving \in Half
    /\ pc \in [Procs -> {"out", "spin", "in"}]
    /\ ticket \in [Procs -> Half]
    /\ seen \in [Procs -> Half]

Queued == {p \in Procs : pc[p] # "out"}

(* Place of ticket t in the queue the two halves encode.                   *)
Distance(t) == (t + Modulus - serving) % Modulus

(* lock()/unlock() give mutual exclusion, wrap-around included.            *)
MutualExclusion ==
    \A p, r \in Procs : pc[p] = "in" /\ pc[r] = "in" => p = r

(* The inductive invariant: the threads past the xadd hold exactly the     *)
(* tickets serving, serving + 1, ..., next - 1, one each; a thread's stale *)
(* copy of the low half never makes it believe it is served when it is not.*)
TicketsDistinct ==
    \A p, r \in Queued : ticket[p] = ticket[r] => p = r

TicketsContiguous ==
    /\ next = (serving + Cardinality(Queued)) % Modulus
    /\ \A p \in Queued : Distance(ticket[p]) < Cardinality(Queued)

SeenIsSafe ==
    \A p \in Queued :
        pc[p] = "in" \/ seen[p] = ticket[p] => ticket[p] = serving

QueueEncoding == TicketsDistinct /\ TicketsContiguous /\ SeenIsSafe

(* "It provides fairness" (synchronization.h:28): nobody overtakes.  When  *)
(* a thread enters, every other thread that still waits took a later       *)
(* ticket.                                                                 *)
FirstComeFirstServed ==
    [][\A p, r \in Procs :
           pc[p] = "spin" /\ pc'[p] = "in" /\ p # r /\ pc[r] = "spin"
               => Distance(ticket[p]) < Distance(ticket[r])]_vars

(* Every lock() returns.                                                   *)
EveryLockReturns == \A p \in Procs : pc[p] = "spin" ~> pc[p] = "in"
=============================================================================
