------------------------- MODULE TicketLockProofs -------------------------
(* Proofs about TicketLock for every finite set of threads and every       *)
(* Modulus that is at least its cardinality.                               *)
EXTENDS TicketLock, FiniteSetTheorems, TLAPS

(* TypeOK holds in every reachable state: both halves of the lock word stay *)
(* half-words across the xadd and the incw of lock() and unlock().          *)
THEOREM TypeCorrect == Spec => []TypeOK
<1>1. Init => TypeOK
    BY ModulusAssumption DEF Init, TypeOK, Half
<1>2. TypeOK /\ [Next]_vars => TypeOK'
    <2> SUFFICES ASSUME TypeOK, [Next]_vars PROVE TypeOK'
        OBVIOUS
    <2>0. \A n \in Nat : n % Modulus \in Half
        BY ModulusAssumption DEF Half
    <2>1. ASSUME NEW p \in Procs, TakeTicket(p) PROVE TypeOK'
        BY <2>0, <2>1, ModulusAssumption DEF TakeTicket, TypeOK, Half
    <2>2. ASSUME NEW p \in Procs, Enter(p) PROVE TypeOK'
        BY <2>2 DEF Enter, TypeOK
    <2>3. ASSUME NEW p \in Procs, Reload(p) PROVE TypeOK'
        BY <2>3 DEF Reload, TypeOK
    <2>4. ASSUME NEW p \in Procs, Unlock(p) PROVE TypeOK'
        BY <2>0, <2>4, ModulusAssumption DEF Unlock, TypeOK, Half
    <2>5. CASE UNCHANGED vars
        BY <2>5 DEF vars, TypeOK
    <2> QED
        BY <2>1, <2>2, <2>3, <2>4, <2>5 DEF Next
<1> QED
    BY <1>1, <1>2, PTL DEF Spec

(* Arithmetic of the half-word wrap: n % m below m and below 2m.           *)
LEMMA ModSmall ==
    ASSUME NEW n \in Nat, NEW m \in Nat \ {0}, n < m
    PROVE  n % m = n
OBVIOUS

LEMMA ModWrap ==
    ASSUME NEW n \in Nat, NEW m \in Nat \ {0}, m <= n, n < m + m
    PROVE  n % m = n - m
OBVIOUS

(* Distance without the modulus.                                           *)
LEMMA DistanceLinear ==
    ASSUME NEW t \in Half, NEW s \in Half
    PROVE  /\ s <= t => (t + Modulus - s) % Modulus = t - s
           /\ t < s  => (t + Modulus - s) % Modulus = t + Modulus - s
<1>1. CASE s <= t
    <2>1. /\ t + Modulus - s \in Nat
          /\ Modulus <= t + Modulus - s
          /\ t + Modulus - s < Modulus + Modulus
        BY <1>1, ModulusAssumption DEF Half
    <2>2. (t + Modulus - s) % Modulus = (t + Modulus - s) - Modulus
        BY <2>1, ModWrap, ModulusAssumption
    <2> QED
        BY <1>1, <2>2, ModulusAssumption DEF Half
<1>2. CASE t < s
    <2>1. t + Modulus - s \in Nat /\ t + Modulus - s < Modulus
        BY <1>2, ModulusAssumption DEF Half
    <2> QED
        BY <1>2, <2>1, ModSmall, ModulusAssumption DEF Half
<1> QED
    BY <1>1, <1>2, ModulusAssumption DEF Half

(* One step of the wrap, as both lock() and unlock() take it.              *)
LEMMA Successor ==
    ASSUME NEW s \in Half
    PROVE  /\ s + 1 < Modulus => (s + 1) % Modulus = s + 1
           /\ s + 1 = Modulus => (s + 1) % Modulus = 0
<1>1. s + 1 < Modulus => (s + 1) % Modulus = s + 1
    BY ModSmall, ModulusAssumption DEF Half
<1>2. s + 1 = Modulus => (s + 1) % Modulus = 0
    BY ModWrap, ModulusAssumption DEF Half
<1> QED
    BY <1>1, <1>2

(* The same for the end of a queue of k threads.                           *)
LEMMA QueueEnd ==
    ASSUME NEW s \in Half, NEW k \in Nat, k <= Modulus
    PROVE  /\ s + k < Modulus => (s + k) % Modulus = s + k
           /\ Modulus <= s + k => (s + k) % Modulus = s + k - Modulus
<1>1. s + k \in Nat /\ s + k < Modulus + Modulus
    BY ModulusAssumption DEF Half
<1>2. s + k < Modulus => (s + k) % Modulus = s + k
    BY <1>1, ModSmall, ModulusAssumption
<1>3. Modulus <= s + k => (s + k) % Modulus = s + k - Modulus
    <2> DEFINE n == s + k
    <2>1. n \in Nat /\ n < Modulus + Modulus
        BY <1>1
    <2> HIDE DEF n
    <2>2. Modulus <= n => n % Modulus = n - Modulus
        BY <2>1, ModWrap, ModulusAssumption
    <2> QED
        BY <2>2, ModulusAssumption DEF n, Half
<1> QED
    BY <1>2, <1>3

(* Serving the next ticket moves every other ticket one place forward.     *)
LEMMA DistanceDrops ==
    ASSUME NEW t \in Half, NEW s \in Half, t # s
    PROVE  (t + Modulus - ((s + 1) % Modulus)) % Modulus
               = ((t + Modulus - s) % Modulus) - 1
<1> DEFINE u == (s + 1) % Modulus
<1>1. /\ s + 1 < Modulus => u = s + 1
      /\ s + 1 = Modulus => u = 0
    BY Successor
<1>2. u \in Half
    BY <1>1, ModulusAssumption DEF Half
<1> HIDE DEF u
<1>3. /\ u <= t => (t + Modulus - u) % Modulus = t - u
      /\ t < u  => (t + Modulus - u) % Modulus = t + Modulus - u
    BY <1>2, DistanceLinear
<1>4. /\ s <= t => (t + Modulus - s) % Modulus = t - s
      /\ t < s  => (t + Modulus - s) % Modulus = t + Modulus - s
    BY DistanceLinear
<1>5. (t + Modulus - u) % Modulus = ((t + Modulus - s) % Modulus) - 1
    <2> DEFINE a == (t + Modulus - u) % Modulus
               b == (t + Modulus - s) % Modulus
    <2>1. /\ u <= t => a = t - u
          /\ t < u  => a = t + Modulus - u
          /\ s <= t => b = t - s
          /\ t < s  => b = t + Modulus - s
        BY <1>3, <1>4
    <2> HIDE DEF a, b
    <2>2. a = b - 1
        BY <1>1, <1>2, <2>1, ModulusAssumption DEF Half
    <2> QED
        BY <2>2 DEF a, b
<1> QED
    BY <1>5 DEF u

(* The queue is a finite set no larger than the ticket space.              *)
LEMMA QueuedFinite ==
    /\ IsFiniteSet(Queued)
    /\ Cardinality(Queued) \in Nat
    /\ Cardinality(Queued) <= Modulus
    /\ \A p \in Procs \ Queued : Cardinality(Queued) < Modulus
<1>1. IsFiniteSet(Queued) /\ Cardinality(Queued) <= Cardinality(Procs)
    BY FS_Subset, ProcsAssumption DEF Queued
<1>2. Cardinality(Queued) \in Nat /\ Cardinality(Procs) \in Nat
    BY <1>1, FS_CardinalityType, ProcsAssumption
<1>3. ASSUME NEW p \in Procs \ Queued PROVE Cardinality(Queued) < Modulus
    <2>1. IsFiniteSet(Queued \cup {p})
          /\ Cardinality(Queued \cup {p}) = Cardinality(Queued) + 1
        BY <1>1, <1>3, FS_AddElement
    <2>2. Queued \cup {p} \subseteq Procs
        BY DEF Queued
    <2>3. Cardinality(Queued \cup {p}) <= Cardinality(Procs)
        BY <2>2, FS_Subset, ProcsAssumption
    <2> QED
        BY <1>2, <2>1, <2>3, CapacityAssumption, ModulusAssumption
<1> QED
    BY <1>1, <1>2, <1>3, CapacityAssumption, ModulusAssumption

(* TakeTicket appends: the new ticket is the first one past the queue.     *)
LEMMA TakeTicketKeeps ==
    ASSUME TypeOK, QueueEncoding, NEW p \in Procs, TakeTicket(p)
    PROVE  QueueEncoding'
<1> DEFINE k == Cardinality(Queued)
<1>1. p \in Procs \ Queued /\ Queued' = Queued \cup {p}
    BY DEF TakeTicket, TypeOK, Queued
<1>2. k \in Nat /\ k < Modulus /\ Cardinality(Queued') = k + 1
    BY <1>1, QueuedFinite, FS_AddElement
<1> HIDE DEF k
<1>3. next = (serving + k) % Modulus
    BY DEF QueueEncoding, TicketsContiguous, k
<1>4. /\ serving + k < Modulus => next = serving + k
      /\ Modulus <= serving + k => next = serving + k - Modulus
    <2>1. serving \in Half /\ k <= Modulus
        BY <1>2, ModulusAssumption DEF TypeOK
    <2> QED
        BY <1>2, <1>3, <2>1, QueueEnd
<1>5. (next + Modulus - serving) % Modulus = k
    <2> DEFINE d == (next + Modulus - serving) % Modulus
    <2>1. /\ serving <= next => d = next - serving
          /\ next < serving  => d = next + Modulus - serving
        BY DistanceLinear DEF TypeOK
    <2> HIDE DEF d
    <2>2. d = k
        BY <1>2, <1>4, <2>1, ModulusAssumption DEF TypeOK, Half
    <2> QED
        BY <2>2 DEF d
<1>6. next' = (serving + (k + 1)) % Modulus
    <2>1. next' = (next + 1) % Modulus
        BY DEF TakeTicket
    <2>2. CASE serving + k < Modulus
        BY <1>2, <1>4, <2>1, <2>2, ModulusAssumption DEF TypeOK, Half
    <2>3. CASE Modulus <= serving + k
        <3>1. /\ next + 1 < Modulus
              /\ next + 1 = serving + (k + 1) - Modulus
              /\ next + 1 \in Nat /\ serving + (k + 1) \in Nat
              /\ Modulus <= serving + (k + 1)
              /\ serving + (k + 1) < Modulus + Modulus
            BY <1>2, <1>4, <2>3, ModulusAssumption DEF TypeOK, Half
        <3>2. (next + 1) % Modulus = next + 1
            BY <3>1, ModSmall, ModulusAssumption
        <3>3. (serving + (k + 1)) % Modulus = serving + (k + 1) - Modulus
            BY <1>2, <3>1, QueueEnd, ModulusAssumption DEF TypeOK
        <3> QED
            BY <2>1, <3>1, <3>2, <3>3
    <2> QED
        BY <1>2, <2>2, <2>3, ModulusAssumption DEF TypeOK, Half
<1>7. \A r \in Queued : /\ (ticket[r] + Modulus - serving) % Modulus < k
                        /\ ticket'[r] = ticket[r] /\ r # p
    BY <1>1 DEF QueueEncoding, TicketsContiguous, Distance, k, TakeTicket,
                TypeOK, Queued
<1>8. ticket'[p] = next /\ serving' = serving
    BY DEF TakeTicket, TypeOK
<1>9. TicketsDistinct'
    <2>1. \A r \in Queued : ticket[r] # next
        BY <1>2, <1>5, <1>7
    <2> QED
        BY <1>1, <1>7, <1>8, <2>1 DEF QueueEncoding, TicketsDistinct
<1>10. TicketsContiguous'
    <2>1. \A r \in Queued' :
              (ticket'[r] + Modulus - serving) % Modulus < k + 1
        <3>1. \A r \in Queued : ticket[r] \in Half
            BY DEF Queued, TypeOK
        <3>2. \A r \in Queued :
                  (ticket[r] + Modulus - serving) % Modulus \in Nat
            BY <3>1, DistanceLinear, ModulusAssumption DEF TypeOK, Half
        <3> QED
            BY <1>1, <1>2, <1>5, <1>7, <1>8, <3>2
    <2> QED
        BY <1>2, <1>6, <1>8, <2>1 DEF TicketsContiguous, Distance
<1>11. SeenIsSafe'
    BY <1>1, <1>8 DEF QueueEncoding, SeenIsSafe, TakeTicket, TypeOK, Queued
<1> QED
    BY <1>9, <1>10, <1>11 DEF QueueEncoding

(* Unlock removes the head: every other place in the queue drops by one.   *)
LEMMA UnlockKeeps ==
    ASSUME TypeOK, QueueEncoding, NEW p \in Procs, Unlock(p)
    PROVE  QueueEncoding'
<1> DEFINE k == Cardinality(Queued)
<1>1. p \in Queued /\ Queued' = Queued \ {p}
    BY DEF Unlock, TypeOK, Queued
<1>2. k \in Nat /\ k <= Modulus /\ Cardinality(Queued') = k - 1
    BY <1>1, QueuedFinite, FS_RemoveElement
<1>3. ticket[p] = serving
    BY <1>1 DEF QueueEncoding, SeenIsSafe, Unlock
<1>4. next = (serving + k) % Modulus
    BY DEF QueueEncoding, TicketsContiguous
<1>5. \A r \in Queued : (ticket[r] + Modulus - serving) % Modulus < k
    BY DEF QueueEncoding, TicketsContiguous, Distance
<1> HIDE DEF k
<1>6. \A r \in Queued' : ticket[r] # serving /\ ticket[r] \in Half
    BY <1>1, <1>3 DEF QueueEncoding, TicketsDistinct, TypeOK, Queued
<1>7. ticket' = ticket /\ next' = next /\ serving' = (serving + 1) % Modulus
    BY DEF Unlock
<1>8. /\ serving' \in Half
      /\ serving + 1 < Modulus => serving' = serving + 1
      /\ serving + 1 = Modulus => serving' = 0
    BY <1>7, Successor, ModulusAssumption DEF TypeOK, Half
<1>9. 0 < k
    <2>1. (ticket[p] + Modulus - serving) % Modulus = 0
        BY <1>3, DistanceLinear, ModulusAssumption DEF TypeOK, Half
    <2> QED
        BY <1>1, <1>2, <1>5, <2>1
<1>10. TicketsDistinct'
    BY <1>1, <1>7 DEF QueueEncoding, TicketsDistinct
<1>11. ASSUME NEW r \in Queued'
       PROVE  (ticket[r] + Modulus - serving') % Modulus < k - 1
    <2>1. ticket[r] \in Half /\ ticket[r] # serving
        BY <1>6
    <2>2. (ticket[r] + Modulus - serving) % Modulus < k
        BY <1>1, <1>5
    <2>3. (ticket[r] + Modulus - serving') % Modulus
              = ((ticket[r] + Modulus - serving) % Modulus) - 1
        BY <1>7, <2>1, DistanceDrops DEF TypeOK
    <2>4. (ticket[r] + Modulus - serving) % Modulus \in Nat
        BY <2>1, DistanceLinear, ModulusAssumption DEF TypeOK, Half
    <2> QED
        BY <1>2, <2>2, <2>3, <2>4
<1>12. next = (serving' + (k - 1)) % Modulus
    <2>1. CASE serving + 1 < Modulus
        BY <1>2, <1>4, <1>8, <1>9, <2>1, ModulusAssumption DEF TypeOK, Half
    <2>2. CASE serving + 1 = Modulus
        <3>1. /\ serving' + (k - 1) = k - 1 /\ k - 1 \in Nat /\ k - 1 < Modulus
              /\ serving + k \in Nat /\ Modulus <= serving + k
              /\ serving + k < Modulus + Modulus
              /\ serving + k - Modulus = k - 1
            BY <1>2, <1>8, <1>9, <2>2, ModulusAssumption DEF TypeOK, Half
        <3>2. (k - 1) % Modulus = k - 1
            BY <3>1, ModSmall, ModulusAssumption
        <3>3. (serving + k) % Modulus = k - 1
            BY <1>2, <3>1, QueueEnd DEF TypeOK
        <3> QED
            BY <1>4, <3>1, <3>2, <3>3
    <2> QED
        BY <2>1, <2>2, ModulusAssumption DEF TypeOK, Half
<1>13. TicketsContiguous'
    BY <1>2, <1>7, <1>11, <1>12 DEF TicketsContiguous, Distance
<1>14. SeenIsSafe'
    <2>1. \A r \in Queued' : ~(pc[r] = "in" \/ seen[r] = ticket[r])
        BY <1>1, <1>6 DEF QueueEncoding, SeenIsSafe
    <2> QED
        BY <1>1, <2>1 DEF SeenIsSafe, Unlock, TypeOK, Queued
<1> QED
    BY <1>10, <1>13, <1>14 DEF QueueEncoding

(* Steps that leave the queue and both halves alone.                       *)
LEMMA SpinKeeps ==
    ASSUME TypeOK, QueueEncoding, NEW p \in Procs, Enter(p) \/ Reload(p)
    PROVE  QueueEncoding'
<1>1. Queued' = Queued /\ ticket' = ticket /\ next' = next /\ serving' = serving
    BY DEF Enter, Reload, TypeOK, Queued
<1>2. TicketsDistinct' /\ TicketsContiguous'
    BY <1>1 DEF QueueEncoding, TicketsDistinct, TicketsContiguous, Distance
<1>3. SeenIsSafe'
    BY <1>1 DEF QueueEncoding, SeenIsSafe, Enter, Reload, TypeOK, Queued
<1> QED
    BY <1>2, <1>3 DEF QueueEncoding

(* The two half-words always encode the queue of threads inside lock() or  *)
(* the critical section, through any number of wrap-arounds.               *)
THEOREM QueueEncodingInvariant == Spec => []QueueEncoding
<1>1. Init => QueueEncoding
    <2> SUFFICES ASSUME Init PROVE QueueEncoding
        OBVIOUS
    <2>1. Queued = {} /\ next = 0 /\ serving = 0
        BY DEF Init, Queued
    <2>2. Cardinality(Queued) = 0
        BY <2>1, FS_EmptySet
    <2>3. 0 % Modulus = 0
        BY ModSmall, ModulusAssumption
    <2> QED
        BY <2>1, <2>2, <2>3
        DEF QueueEncoding, TicketsDistinct, TicketsContiguous, SeenIsSafe
<1>2. TypeOK /\ QueueEncoding /\ [Next]_vars => QueueEncoding'
    <2> SUFFICES ASSUME TypeOK, QueueEncoding, [Next]_vars PROVE QueueEncoding'
        OBVIOUS
    <2>1. CASE UNCHANGED vars
        BY <2>1 DEF vars, QueueEncoding, TicketsDistinct, TicketsContiguous,
                    SeenIsSafe, Queued, Distance
    <2>2. CASE Next
        BY <2>2, TakeTicketKeeps, UnlockKeeps, SpinKeeps DEF Next
    <2> QED
        BY <2>1, <2>2
<1> QED
    BY <1>1, <1>2, TypeCorrect, PTL DEF Spec

(* XIOSIM_LOCK is mutually exclusive for every number of threads up to the *)
(* number of ticket values.                                                *)
THEOREM Exclusion == Spec => []MutualExclusion
<1>1. QueueEncoding => MutualExclusion
    BY DEF QueueEncoding, SeenIsSafe, TicketsDistinct, MutualExclusion, Queued
<1> QED
    BY <1>1, QueueEncodingInvariant, PTL

(* No thread overtakes one that took its ticket earlier.                   *)
THEOREM Fair == Spec => FirstComeFirstServed
<1>1. TypeOK /\ QueueEncoding /\ [Next]_vars =>
          [\A p, r \in Procs :
              pc[p] = "spin" /\ pc'[p] = "in" /\ p # r /\ pc[r] = "spin"
                  => Distance(ticket[p]) < Distance(ticket[r])]_vars
    <2> SUFFICES ASSUME TypeOK, QueueEncoding, Next,
                        NEW p \in Procs, NEW r \in Procs,
                        pc[p] = "spin", pc'[p] = "in", p # r, pc[r] = "spin"
                 PROVE  Distance(ticket[p]) < Distance(ticket[r])
        BY DEF vars
    <2>1. Enter(p)
        BY DEF Next, TakeTicket, Enter, Reload, Unlock, TypeOK
    <2>2. ticket[p] = serving /\ ticket[r] # serving
        BY <2>1 DEF Enter, QueueEncoding, SeenIsSafe, TicketsDistinct, Queued
    <2>3. (ticket[p] + Modulus - serving) % Modulus = 0
        BY <2>2, DistanceLinear, ModulusAssumption DEF TypeOK, Half
    <2>4. 0 < (ticket[r] + Modulus - serving) % Modulus
        BY <2>2, DistanceLinear, ModulusAssumption DEF TypeOK, Half
    <2> QED
        BY <2>3, <2>4 DEF Distance
<1> QED
    BY <1>1, TypeCorrect, QueueEncodingInvariant, PTL
    DEF Spec, FirstComeFirstServed
=============================================================================
