---------------------------- MODULE OracleProofs ----------------------------
(* Proofs about Oracle for queues of any size, any delays of jeclears and  *)
(* any number of handshakes, if the MopQ has more places than there are    *)
(* slots for Mops behind fetch.                                            *)
EXTENDS Oracle, FiniteSetTheorems, SequenceTheorems, TLAPS

-----------------------------------------------------------------------------
(* The inductive invariant, as predicates of a queue of Mops q, the number *)
(* n of Mops on the right path in it, and the number f of fetched ones.    *)

(* The Mops whose jeclears take d cycles.                                  *)
MopOf(d) ==
    [id : 0 .. MaxHandshakes, kind : {"insn", "trap", "spec"},
     br : {"ok", "wrong", "late"}, stage : 0 .. d, jeclear_in_flight : BOOLEAN]

(* The Mops on the right path come first.                                  *)
Split(q, n) ==
    /\ n \in 0 .. Len(q)
    /\ \A i \in 1 .. Len(q) : IsSpec(q[i]) <=> i > n

(* Why Mops or the fetch PC may be on a wrong path: the youngest Mop on    *)
(* the right path is mispredicted, or a jeclear for it or for an older one *)
(* is on its way.                                                          *)
Excused(q, n) ==
    /\ n > 0
    /\ q[n].br # "ok" \/ (\E j \in 1 .. n : q[j].stage > 0)

(* A valid jeclear belongs to a Mop that was fetched and is marked, and no *)
(* two are in the same stage.                                              *)
Marked(q, f) ==
    /\ \A i \in 1 .. Len(q) : q[i].stage > 0 => i <= f /\ q[i].jeclear_in_flight
    /\ \A i, j \in 1 .. Len(q) :
          q[i].stage > 0 /\ q[i].stage = q[j].stage => i = j

Arriving(q) ==
    \A i \in 1 .. Len(q) : q[i].jeclear_in_flight =>
        \E j \in 1 .. i : q[j].stage > 0

TrapsLast(q) == \A i \in 1 .. Len(q) : q[i].kind = "trap" => i = Len(q)

HasTrap(q, f) == \E i \in 1 .. f : q[i].kind = "trap"

(* What holds of the MopQ and the flags of the oracle and of fetch.        *)
QueueSound(q, n, f, spec, div, drain) ==
    /\ Split(q, n)
    /\ Len(q) > 0 => n > 0
    /\ spec <=> Len(q) > n
    /\ spec \/ div => Excused(q, n)
    /\ Marked(q, f)
    /\ drain <=> HasTrap(q, f)
    /\ TrapsLast(q)
    /\ Arriving(q)

(* The shadow MopQ s has the handshakes of the Mops on the right path in   *)
(* the same places, and those on the wrong path at the side of the last;   *)
(* all that it has follow the handshake that retired last.                 *)
ShadowSound(s, q, n, last) ==
    /\ n <= Len(s)
    /\ \A i \in 1 .. n : q[i].id = s[i].id /\ q[i].kind = s[i].kind
    /\ n > 0 => Len(q) <= n + s[n].speculated
    /\ \A i \in 1 .. Len(s) : s[i].id = last + i

(* The number of Mops that fetch has put into the byteQ.                   *)
InPipe == IF current_Mop THEN Len(MopQ) - 1 ELSE Len(MopQ)

Queue == QueueSound(MopQ, num_non_spec_Mops, InPipe, spec_mode, diverged, drain_pipeline)

Shadow == ShadowSound(shadow_MopQ, MopQ, num_non_spec_Mops, retired)

(* The handshake in hand is one that the shadow MopQ does not have yet.    *)
InHand == pc # "feeder" /\ handshake.kind # "spec" /\ ~did_buffer

(* The shadow MopQ reaches up to the handshake in hand.                    *)
Numbered ==
    /\ pc # "feeder" /\ handshake.kind # "spec" => handshake.id = received
    /\ InHand => retired + Len(shadow_MopQ) + 1 = received
    /\ ~InHand => retired + Len(shadow_MopQ) = received

(* The loop of simulate_handshake().                                       *)
Loop ==
    /\ buffer_result = "HANDSHAKE_NOT_CONSUMED" => ~did_buffer
    /\ pc \in {"fetch", "post", "back"} /\ buffer_result = "ALL_GOOD" => did_buffer
    /\ pc = "top" /\ ~did_buffer /\ buffer_result = "ALL_GOOD" =>
          can_exec /\ ~on_nuke_recovery_path
    /\ pc = "top" /\ did_buffer => on_nuke_recovery_path \/ current_Mop \/ drain_pipeline
    /\ pc \in {"post", "back"} /\ ~consumed => current_Mop \/ drain_pipeline
    /\ current_Mop \/ pc = "fetch" => ~consumed

(* No more than Slots Mops are behind fetch.                               *)
Behind == InPipe \in 0 .. Slots

IInv ==
    /\ TypeOK /\ Queue /\ Shadow /\ Numbered /\ Loop /\ Behind
    /\ HandshakeAvailable /\ FeederReady

-----------------------------------------------------------------------------
(* Facts about queues of Mops.                                             *)

(* The Mops on the right path are counted by the place of the last one.    *)
LEMMA Counted ==
    ASSUME NEW d \in Nat, NEW q \in Seq(MopOf(d)), NEW n, Split(q, n)
    PROVE  Cardinality({i \in DOMAIN q : ~IsSpec(q[i])}) = n
<1>1. n \in Nat /\ n <= Len(q) /\ DOMAIN q = 1 .. Len(q) /\ Len(q) \in Nat
    BY DEF Split
<1>2. {i \in DOMAIN q : ~IsSpec(q[i])} = 1 .. n
    BY <1>1 DEF Split
<1>3. Cardinality(1 .. n) = n
    BY <1>1, FS_Interval
<1> QED
    BY <1>2, <1>3

(* The part of a queue up to the i-th Mop.                                 *)
LEMMA Prefix ==
    ASSUME NEW S, NEW q \in Seq(S), NEW i \in 0 .. Len(q)
    PROVE  /\ SubSeq(q, 1, i) \in Seq(S)
           /\ Len(SubSeq(q, 1, i)) = i
           /\ \A j \in 1 .. i : SubSeq(q, 1, i)[j] = q[j]
    OBVIOUS

(* What the oracle relies on when it recovers to the i-th Mop of a queue.  *)
Recoverable(q, n, f, i, drain) ==
    /\ Split(q, n) /\ n > 0
    /\ TrapsLast(q)
    /\ drain <=> HasTrap(q, f)
    /\ i > n => Excused(q, n)
    /\ \A j \in 1 .. i : q[j].stage > 0 => q[j].jeclear_in_flight
    /\ \A j, k \in 1 .. i : q[j].stage > 0 /\ q[j].stage = q[k].stage => j = k
    /\ \A j \in 1 .. i : q[j].jeclear_in_flight => \E k \in 1 .. j : q[k].stage > 0

(* recover() keeps a sound prefix sound: the part of the queue that stays, *)
(* with the flags that recover() sets, is as QueueSound wants it.          *)
LEMMA RecoverSound ==
    ASSUME NEW d \in Nat, NEW q \in Seq(MopOf(d)), NEW n, NEW f \in 0 .. Len(q),
           NEW i \in 1 .. f, NEW drain \in BOOLEAN,
           Recoverable(q, n, f, i, drain)
    PROVE  QueueSound(SubSeq(q, 1, i), IF i < n THEN i ELSE n, i, IsSpec(q[i]),
                      q[i].br # "ok",
                      drain /\ \A j \in i + 1 .. Len(q) : q[j].kind # "trap")
<1> DEFINE p == SubSeq(q, 1, i)
           m == IF i < n THEN i ELSE n
           dr == drain /\ \A j \in i + 1 .. Len(q) : q[j].kind # "trap"
<1>0. /\ Split(q, n) /\ n > 0 /\ TrapsLast(q) /\ (drain <=> HasTrap(q, f))
      /\ i > n => Excused(q, n)
      /\ \A j \in 1 .. i : q[j].stage > 0 => q[j].jeclear_in_flight
      /\ \A j, k \in 1 .. i : q[j].stage > 0 /\ q[j].stage = q[k].stage => j = k
      /\ \A j \in 1 .. i : q[j].jeclear_in_flight => \E k \in 1 .. j : q[k].stage > 0
    BY Zenon DEF Recoverable
<1>1. /\ p \in Seq(MopOf(d)) /\ Len(p) = i
      /\ \A j \in 1 .. i : p[j] = q[j]
    BY Prefix
<1>2. n \in Nat /\ n <= Len(q) /\ Len(q) \in Nat /\ i <= Len(q) /\ i \in Nat /\ i > 0 /\ f <= Len(q)
    BY <1>0 DEF Split
<1>3. m \in Nat /\ m > 0 /\ m <= i /\ m <= n /\ (i > m <=> i > n) /\ (i <= n => m = i) /\ (i > n => m = n)
    BY <1>0, <1>2
<1> HIDE DEF p, m
<1>4. Split(p, m)
    BY <1>0, <1>1, <1>2, <1>3 DEF Split
<1>5. IsSpec(q[i]) <=> Len(p) > m
    BY <1>0, <1>1, <1>2, <1>3 DEF Split
<1>6. IsSpec(q[i]) \/ q[i].br # "ok" => Excused(p, m)
    <2>1. CASE i > n
        <3>1. m = n /\ \A j \in 1 .. n : p[j] = q[j]
            BY <1>1, <1>2, <1>3, <2>1
        <3>2. Excused(q, n)
            BY <1>0, <2>1
        <3> QED
            BY <3>1, <3>2, <1>2 DEF Excused
    <2>2. CASE ~(i > n)
        <3>1. m = i /\ p[i] = q[i] /\ ~IsSpec(q[i])
            BY <1>0, <1>1, <1>2, <1>3, <2>2 DEF Split
        <3> QED
            BY <3>1, <1>2 DEF Excused
    <2> QED
        BY <2>1, <2>2
<1>7. Marked(p, i)
    <2>1. ASSUME NEW j \in 1 .. Len(p), p[j].stage > 0
          PROVE  j <= i /\ p[j].jeclear_in_flight
        <3>1. j \in 1 .. i /\ p[j] = q[j] /\ j <= i
            BY <1>1, <1>2
        <3> QED
            BY <1>0, <3>1, <2>1, Zenon
    <2>2. ASSUME NEW j \in 1 .. Len(p), NEW k \in 1 .. Len(p),
                 p[j].stage > 0, p[j].stage = p[k].stage
          PROVE  j = k
        BY <1>0, <1>1, <1>2, <2>2
    <2> QED
        BY <2>1, <2>2 DEF Marked
<1>8. dr <=> HasTrap(p, i)
    <2>1. CASE drain
        <3>1. PICK t \in 1 .. f : q[t].kind = "trap"
            BY <1>0, <2>1 DEF HasTrap
        <3>2. t = Len(q)
            BY <1>0, <3>1, <1>2 DEF TrapsLast
        <3>3. CASE i = Len(q)
            <4>1. \A j \in i + 1 .. Len(q) : q[j].kind # "trap"
                BY <3>3, <1>2
            <4>2. p[i].kind = "trap"
                BY <1>1, <1>2, <3>1, <3>2, <3>3
            <4> QED
                BY <4>1, <4>2, <2>1, <1>2 DEF HasTrap
        <3>4. CASE i # Len(q)
            <4>1. ~(\A j \in i + 1 .. Len(q) : q[j].kind # "trap")
                BY <3>1, <3>2, <3>4, <1>2
            <4>2. \A j \in 1 .. i : p[j].kind # "trap"
                BY <1>0, <3>4, <1>1, <1>2 DEF TrapsLast
            <4> QED
                BY <4>1, <4>2 DEF HasTrap
        <3> QED
            BY <3>3, <3>4
    <2>2. CASE ~drain
        <3>1. \A j \in 1 .. i : p[j].kind # "trap"
            BY <1>0, <2>2, <1>1, <1>2 DEF HasTrap
        <3> QED
            BY <2>2, <3>1 DEF HasTrap
    <2> QED
        BY <2>1, <2>2
<1>9. TrapsLast(p)
    BY <1>0, <1>1, <1>2 DEF TrapsLast
<1>10. Arriving(p)
    <2> SUFFICES ASSUME NEW j \in 1 .. Len(p), p[j].jeclear_in_flight
                 PROVE  \E k \in 1 .. j : p[k].stage > 0
        BY DEF Arriving
    <2>1. j \in 1 .. i /\ q[j].jeclear_in_flight
        BY <1>1
    <2>2. PICK k \in 1 .. j : q[k].stage > 0
        BY <1>0, <2>1
    <2>3. p[k] = q[k]
        BY <2>1, <1>1, <1>2
    <2> QED
        BY <2>2, <2>3
<1> HIDE DEF dr
<1>11. Len(p) > 0 => m > 0
    BY <1>3
<1>12. QueueSound(p, m, i, IsSpec(q[i]), q[i].br # "ok", dr)
    BY <1>4, <1>5, <1>6, <1>7, <1>8, <1>9, <1>10, <1>11 DEF QueueSound
<1> QED
    BY <1>12 DEF p, m, dr

(* A change that touches neither kinds nor paths keeps a queue sound if    *)
(* the jeclears stay in order.                                             *)
LEMMA KeepSound ==
    ASSUME NEW q, NEW p, NEW n, NEW f, NEW spec, NEW div, NEW drain,
           QueueSound(q, n, f, spec, div, drain),
           f \in 0 .. Len(q), Len(q) \in Nat,
           Len(p) = Len(q), \A j \in 1 .. Len(q) : p[j].kind = q[j].kind,
           Excused(q, n) => Excused(p, n), Marked(p, f), Arriving(p)
    PROVE  QueueSound(p, n, f, spec, div, drain)
<1>1. Split(p, n) /\ TrapsLast(p) /\ (HasTrap(p, f) <=> HasTrap(q, f))
    <2>1. Split(q, n) /\ TrapsLast(q)
        BY Zenon DEF QueueSound
    <2>2. Split(p, n)
        BY <2>1 DEF Split, IsSpec
    <2>3. TrapsLast(p)
        BY <2>1 DEF TrapsLast
    <2>4. HasTrap(p, f) <=> HasTrap(q, f)
        <3>1. \A j \in 1 .. f : j \in 1 .. Len(q)
            OBVIOUS
        <3> QED
            BY <3>1, Zenon DEF HasTrap
    <2> QED
        BY <2>2, <2>3, <2>4
<1> QED
    BY <1>1, Zenon DEF QueueSound

(* The path into which the jeclear of Mop i goes: jeclear_enqueue() after  *)
(* the next PC of that Mop has been put right.                             *)
Enqueued(q, i) ==
    LET r == [q EXCEPT ![i].br = "ok"]
    IN  IF \E j \in {k \in DOMAIN q : q[k].stage = 1} : j <= i
        THEN r
        ELSE [j \in DOMAIN r |->
                IF j = i THEN [r[j] EXCEPT !.stage = 1, !.jeclear_in_flight = TRUE]
                ELSE IF r[j].stage = 1 THEN [r[j] EXCEPT !.stage = 0] ELSE r[j]]

(* The queue r is q with the next PC of the i-th Mop set.                  *)
Retarget(r, q, d, i, b) ==
    /\ r \in Seq(MopOf(d)) /\ Len(r) = Len(q) /\ DOMAIN r = 1 .. Len(q)
    /\ r[i].br = b
    /\ \A j \in 1 .. Len(q) :
          /\ r[j] \in MopOf(d)
          /\ j # i => r[j] = q[j]
          /\ r[j].id = q[j].id /\ r[j].kind = q[j].kind
          /\ r[j].stage = q[j].stage
          /\ r[j].jeclear_in_flight <=> q[j].jeclear_in_flight

LEMMA Retargeted ==
    ASSUME NEW d \in Nat, NEW q \in Seq(MopOf(d)), NEW i \in 1 .. Len(q),
           NEW b \in {"ok", "wrong", "late"}
    PROVE  Retarget([q EXCEPT ![i].br = b], q, d, i, b)
<1> DEFINE r == [q EXCEPT ![i].br = b]
<1>1. Len(q) \in Nat /\ DOMAIN q = 1 .. Len(q) /\ \A j \in 1 .. Len(q) : q[j] \in MopOf(d)
    OBVIOUS
<1>2. \A j \in 1 .. Len(q) : r[j] = IF j = i THEN [q[j] EXCEPT !.br = b] ELSE q[j]
    BY <1>1
<1>3. [q[i] EXCEPT !.br = b] \in MopOf(d)
    BY <1>1 DEF MopOf
<1>4. DOMAIN r = 1 .. Len(q)
    BY <1>1
<1>5. r \in [1 .. Len(q) -> MopOf(d)]
    BY <1>1, <1>2, <1>3
<1>6. r \in Seq(MopOf(d)) /\ Len(r) = Len(q)
    BY <1>1, <1>4, <1>5
<1>7. /\ r[i].br = b
      /\ \A j \in 1 .. Len(q) :
            /\ r[j] \in MopOf(d)
            /\ j # i => r[j] = q[j]
            /\ r[j].id = q[j].id /\ r[j].kind = q[j].kind
            /\ r[j].stage = q[j].stage
            /\ r[j].jeclear_in_flight = q[j].jeclear_in_flight
    BY <1>1, <1>2, <1>3 DEF MopOf
<1> HIDE DEF r
<1>8. Retarget(r, q, d, i, b)
    BY <1>4, <1>6, <1>7, Zenon DEF Retarget
<1> QED
    BY <1>8 DEF r

(* The Mop e is m but for its jeclear, which is in stage s.                *)
Restaged(e, m, d, s) ==
    /\ e \in MopOf(d) /\ e.stage = s
    /\ e.id = m.id /\ e.kind = m.kind /\ e.br = m.br

LEMMA MarkMop ==
    ASSUME NEW d \in Nat, NEW m \in MopOf(d), NEW s \in 0 .. d, NEW x \in BOOLEAN,
           NEW e, e = [m EXCEPT !.stage = s, !.jeclear_in_flight = x]
    PROVE  Restaged(e, m, d, s) /\ (e.jeclear_in_flight <=> x)
<1>1. e \in MopOf(d)
    BY DEF MopOf
<1>2. e.stage = s /\ e.id = m.id /\ e.kind = m.kind /\ e.br = m.br
    BY DEF MopOf
<1>3. e.jeclear_in_flight = x
    BY DEF MopOf
<1> QED
    BY <1>1, <1>2, <1>3, Zenon DEF Restaged

LEMMA MoveMop ==
    ASSUME NEW d \in Nat, NEW m \in MopOf(d), NEW s \in 0 .. d,
           NEW e, e = [m EXCEPT !.stage = s]
    PROVE  Restaged(e, m, d, s) /\ (e.jeclear_in_flight <=> m.jeclear_in_flight)
<1>1. e \in MopOf(d)
    BY DEF MopOf
<1>2. e.stage = s /\ e.id = m.id /\ e.kind = m.kind /\ e.br = m.br
    BY DEF MopOf
<1>3. e.jeclear_in_flight = m.jeclear_in_flight
    BY DEF MopOf
<1> QED
    BY <1>1, <1>2, <1>3, Zenon DEF Restaged

(* The queue p is q with a jeclear in the first stage for the i-th Mop.    *)
FirstStage(p, q, d, i) ==
    /\ p \in Seq(MopOf(d)) /\ Len(p) = Len(q)
    /\ p[i].stage = 1 /\ p[i].jeclear_in_flight
    /\ \A j \in 1 .. Len(q) :
          /\ p[j].id = q[j].id /\ p[j].kind = q[j].kind
          /\ j # i => /\ p[j].br = q[j].br
                      /\ p[j].jeclear_in_flight <=> q[j].jeclear_in_flight
                      /\ p[j].stage = IF q[j].stage = 1 THEN 0 ELSE q[j].stage

LEMMA EnqueuedMops ==
    ASSUME NEW d \in Nat, d > 0, NEW q \in Seq(MopOf(d)), NEW i \in 1 .. Len(q),
           \A j \in 1 .. i : q[j].stage # 1
    PROVE  FirstStage(Enqueued(q, i), q, d, i)
<1> DEFINE r == [q EXCEPT ![i].br = "ok"]
           p == [j \in DOMAIN r |->
                   IF j = i THEN [r[j] EXCEPT !.stage = 1, !.jeclear_in_flight = TRUE]
                   ELSE IF r[j].stage = 1 THEN [r[j] EXCEPT !.stage = 0] ELSE r[j]]
<1>1. Enqueued(q, i) = p
    <2>1. ~(\E j \in {k \in DOMAIN q : q[k].stage = 1} : j <= i)
        OBVIOUS
    <2> QED
        BY <2>1 DEF Enqueued
<1>2. Retarget(r, q, d, i, "ok")
    BY Retargeted
<1> HIDE DEF r
<1>3. \A j \in 1 .. Len(q) :
         p[j] = IF j = i THEN [r[j] EXCEPT !.stage = 1, !.jeclear_in_flight = TRUE]
                ELSE IF r[j].stage = 1 THEN [r[j] EXCEPT !.stage = 0] ELSE r[j]
    BY <1>2 DEF Retarget
<1>4. DOMAIN p = 1 .. Len(q) /\ Len(q) \in Nat
    BY <1>2 DEF Retarget
<1>5. p = [j \in 1 .. Len(q) |-> p[j]]
    BY <1>4
<1> HIDE DEF p
<1>6. ASSUME NEW j \in 1 .. Len(q)
      PROVE  /\ p[j] \in MopOf(d)
             /\ p[j].id = q[j].id /\ p[j].kind = q[j].kind
             /\ j = i => p[j].stage = 1 /\ p[j].jeclear_in_flight
             /\ j # i => /\ p[j].br = q[j].br
                         /\ p[j].jeclear_in_flight <=> q[j].jeclear_in_flight
                         /\ p[j].stage = IF q[j].stage = 1 THEN 0 ELSE q[j].stage
    <2>1. r[j] \in MopOf(d) /\ (j # i => r[j] = q[j])
          /\ r[j].id = q[j].id /\ r[j].kind = q[j].kind
          /\ r[j].stage = q[j].stage
          /\ (r[j].jeclear_in_flight <=> q[j].jeclear_in_flight)
        BY <1>2, Zenon DEF Retarget
    <2>2. CASE j = i
        <3>1. p[j] = [r[j] EXCEPT !.stage = 1, !.jeclear_in_flight = TRUE]
            BY <1>3, <2>2
        <3>2. 1 \in 0 .. d /\ TRUE \in BOOLEAN
            OBVIOUS
        <3>3. Restaged(p[j], r[j], d, 1) /\ (p[j].jeclear_in_flight <=> TRUE)
            BY <3>1, <3>2, <2>1, MarkMop, Zenon
        <3> QED
            BY <3>3, <2>1, <2>2, Zenon DEF Restaged
    <2>3. CASE j # i /\ r[j].stage = 1
        <3>1. p[j] = [r[j] EXCEPT !.stage = 0]
            BY <1>3, <2>3
        <3>2. 0 \in 0 .. d
            OBVIOUS
        <3>3. Restaged(p[j], r[j], d, 0) /\ (p[j].jeclear_in_flight <=> r[j].jeclear_in_flight)
            BY <3>1, <3>2, <2>1, MoveMop, Zenon
        <3> QED
            BY <3>3, <2>1, <2>3 DEF Restaged
    <2>4. CASE j # i /\ r[j].stage # 1
        <3>1. p[j] = r[j]
            BY <1>3, <2>4
        <3> QED
            BY <3>1, <2>1, <2>4
    <2> QED
        BY <2>2, <2>3, <2>4
<1>7. p \in Seq(MopOf(d)) /\ Len(p) = Len(q)
    <2>1. p \in [1 .. Len(q) -> MopOf(d)]
        BY <1>5, <1>6, Zenon
    <2> QED
        BY <2>1, <1>4
<1>8. FirstStage(p, q, d, i)
    BY <1>6, <1>7, Zenon DEF FirstStage
<1> QED
    BY <1>1, <1>8

(* jeclear_enqueue() keeps a queue sound.                                  *)
LEMMA EnqueueSound ==
    ASSUME NEW d \in Nat, d > 0, NEW q \in Seq(MopOf(d)), NEW n, NEW f \in 0 .. Len(q),
           NEW spec, NEW div, NEW drain,
           QueueSound(q, n, f, spec, div, drain), NEW i \in 1 .. f
    PROVE  /\ Enqueued(q, i) \in Seq(MopOf(d))
           /\ Len(Enqueued(q, i)) = Len(q)
           /\ \A j \in 1 .. Len(q) : /\ Enqueued(q, i)[j].id = q[j].id
                                     /\ Enqueued(q, i)[j].kind = q[j].kind
           /\ QueueSound(Enqueued(q, i), n, f, spec, div, drain)
<1> DEFINE p == Enqueued(q, i)
<1>1. Split(q, n) /\ Marked(q, f) /\ Arriving(q)
    BY Zenon DEF QueueSound
<1>2. /\ Len(q) \in Nat /\ f \in Nat /\ f <= Len(q) /\ i \in 1 .. Len(q) /\ i <= f /\ i \in Nat
      /\ n \in Nat /\ n <= Len(q) /\ DOMAIN q = 1 .. Len(q)
      /\ \A j \in 1 .. Len(q) : q[j].stage \in Nat
    <2>1. \A j \in 1 .. Len(q) : q[j] \in MopOf(d)
        OBVIOUS
    <2>2. \A j \in 1 .. Len(q) : q[j].stage \in Nat
        BY <2>1 DEF MopOf
    <2> QED
        BY <1>1, <2>2 DEF Split
<1>3. CASE \E j \in 1 .. i : q[j].stage = 1
    <2>1. p = [q EXCEPT ![i].br = "ok"]
        BY <1>2, <1>3 DEF Enqueued
    <2> HIDE DEF p
    <2>2. /\ p \in Seq(MopOf(d)) /\ Len(p) = Len(q)
          /\ \A j \in 1 .. Len(q) :
                /\ j # i => p[j] = q[j]
                /\ p[j].id = q[j].id /\ p[j].kind = q[j].kind
                /\ p[j].stage = q[j].stage
                /\ p[j].jeclear_in_flight <=> q[j].jeclear_in_flight
        <3>1. Retarget(p, q, d, i, "ok")
            BY <1>2, <2>1, Retargeted
        <3> QED
            BY <3>1, Zenon DEF Retarget
    <2>3. ASSUME Excused(q, n) PROVE Excused(p, n)
        <3>1. n > 0 /\ n \in 1 .. Len(q) /\ \A j \in 1 .. n : j \in 1 .. Len(q)
            BY <2>3, <1>2 DEF Excused
        <3>2. CASE i = n
            <4>1. PICK j \in 1 .. n : q[j].stage = 1
                BY <1>3, <3>2
            <4>2. p[j].stage > 0
                BY <4>1, <3>1, <2>2
            <4> QED
                BY <3>1, <4>1, <4>2 DEF Excused
        <3>3. CASE i # n
            <4>1. p[n] = q[n] /\ \A j \in 1 .. n : p[j].stage = q[j].stage
                BY <3>1, <3>3, <2>2
            <4> QED
                BY <2>3, <4>1, <3>1, Zenon DEF Excused
        <3> QED
            BY <3>2, <3>3
    <2>4. Marked(p, f)
        <3>1. \A j \in 1 .. Len(q) : q[j].stage > 0 => j <= f /\ q[j].jeclear_in_flight
            BY <1>1 DEF Marked
        <3>2. \A j, k \in 1 .. Len(q) :
                 q[j].stage > 0 /\ q[j].stage = q[k].stage => j = k
            BY <1>1 DEF Marked
        <3> QED
            BY <3>1, <3>2, <2>2, Zenon DEF Marked
    <2>5. Arriving(p)
        <3> SUFFICES ASSUME NEW j \in 1 .. Len(p), p[j].jeclear_in_flight
                     PROVE  \E k \in 1 .. j : p[k].stage > 0
            BY DEF Arriving
        <3>1. j \in 1 .. Len(q) /\ q[j].jeclear_in_flight /\ \A k \in 1 .. j : k \in 1 .. Len(q)
            BY <1>2, <2>2
        <3>2. PICK k \in 1 .. j : q[k].stage > 0
            BY <3>1, <1>1 DEF Arriving
        <3>3. p[k].stage = q[k].stage
            BY <3>1, <2>2
        <3> QED
            BY <3>2, <3>3
    <2>6. QueueSound(p, n, f, spec, div, drain)
        BY <1>2, <2>2, <2>3, <2>4, <2>5, KeepSound
    <2> QED
        BY <2>2, <2>6 DEF p
<1>4. CASE \A j \in 1 .. i : q[j].stage # 1
    <2>1. FirstStage(p, q, d, i)
        BY <1>2, <1>4, EnqueuedMops
    <2> HIDE DEF p
    <2>2. /\ p \in Seq(MopOf(d)) /\ Len(p) = Len(q)
          /\ p[i].stage = 1 /\ p[i].jeclear_in_flight
          /\ \A j \in 1 .. Len(q) :
                /\ p[j].id = q[j].id /\ p[j].kind = q[j].kind
                /\ j # i => /\ p[j].br = q[j].br
                            /\ p[j].jeclear_in_flight <=> q[j].jeclear_in_flight
                            /\ p[j].stage = IF q[j].stage = 1 THEN 0 ELSE q[j].stage
        BY <2>1, Zenon DEF FirstStage
    <2>3. ASSUME Excused(q, n) PROVE Excused(p, n)
        <3>1. CASE i <= n
            BY <3>1, <1>2, <2>2 DEF Excused
        <3>2. CASE i > n
            <4>1. \A j \in 1 .. n : j \in 1 .. Len(q) /\ j # i /\ j \in 1 .. i
                BY <3>2, <1>2
            <4>2. \A j \in 1 .. n : p[j].br = q[j].br /\ p[j].stage = q[j].stage
                BY <4>1, <2>2, <1>4
            <4>3. n > 0 /\ n \in 1 .. n
                BY <2>3, <1>2 DEF Excused
            <4>4. CASE q[n].br # "ok"
                BY <4>2, <4>3, <4>4, Zenon DEF Excused
            <4>5. CASE \E j \in 1 .. n : q[j].stage > 0
                BY <4>2, <4>3, <4>5, Zenon DEF Excused
            <4> QED
                BY <2>3, <4>4, <4>5, Zenon DEF Excused
        <3> QED
            BY <3>1, <3>2, <1>2
    <2>4. Marked(p, f)
        <3>1. ASSUME NEW j \in 1 .. Len(p), p[j].stage > 0
              PROVE  j <= f /\ p[j].jeclear_in_flight
            <4>1. CASE j = i
                BY <4>1, <2>2, <1>2
            <4>2. CASE j # i
                <5>1. q[j].stage > 0 /\ (p[j].jeclear_in_flight <=> q[j].jeclear_in_flight)
                    BY <4>2, <3>1, <2>2, <1>2
                <5>2. j <= f /\ q[j].jeclear_in_flight
                    BY <5>1, <2>2, <1>1 DEF Marked
                <5> QED
                    BY <5>1, <5>2
            <4> QED
                BY <4>1, <4>2
        <3>2. ASSUME NEW j \in 1 .. Len(p), NEW k \in 1 .. Len(p),
                     p[j].stage > 0, p[j].stage = p[k].stage
              PROVE  j = k
            BY <3>2, <2>2, <1>1, <1>2 DEF Marked
        <3> QED
            BY <3>1, <3>2 DEF Marked
    <2>5. Arriving(p)
        <3> SUFFICES ASSUME NEW j \in 1 .. Len(p), p[j].jeclear_in_flight
                     PROVE  \E k \in 1 .. j : p[k].stage > 0
            BY DEF Arriving
        <3>1. CASE j >= i
            BY <3>1, <2>2, <1>2
        <3>2. CASE j < i
            <4>1. j \in 1 .. Len(q) /\ q[j].jeclear_in_flight /\ j \in Nat
                BY <3>2, <2>2, <1>2
            <4>2. PICK k \in 1 .. j : q[k].stage > 0
                BY <4>1, <1>1 DEF Arriving
            <4>3. k \in 1 .. i /\ k # i /\ k \in 1 .. Len(q)
                BY <4>1, <3>2, <1>2
            <4>4. p[k].stage = q[k].stage
                BY <4>3, <1>4, <2>2
            <4> QED
                BY <4>2, <4>4
        <3> QED
            BY <3>1, <3>2, <1>2, <2>2
    <2>6. QueueSound(p, n, f, spec, div, drain)
        BY <1>2, <2>2, <2>3, <2>4, <2>5, KeepSound
    <2> QED
        BY <2>2, <2>6 DEF p
<1> QED
    BY <1>3, <1>4

(* The queue p is q after the jeclears have moved on by one stage.         *)
Advanced(p, q, d) ==
    /\ p \in Seq(MopOf(d)) /\ Len(p) = Len(q)
    /\ \A j \in 1 .. Len(q) :
          /\ p[j].id = q[j].id /\ p[j].kind = q[j].kind /\ p[j].br = q[j].br
          /\ q[j].stage = 0 \/ q[j].stage = d => p[j].stage = 0
          /\ q[j].stage # 0 /\ q[j].stage # d => p[j].stage = q[j].stage + 1
          /\ q[j].stage # 0 /\ q[j].stage = d => ~p[j].jeclear_in_flight
          /\ q[j].stage = 0 \/ q[j].stage # d =>
                (p[j].jeclear_in_flight <=> q[j].jeclear_in_flight)

LEMMA AdvancedMops ==
    ASSUME jeclear_delay \in Nat, NEW q \in Seq(MopOf(jeclear_delay))
    PROVE  Advanced([j \in DOMAIN q |-> Advance(q[j])], q, jeclear_delay)
<1> DEFINE d == jeclear_delay
           p == [j \in DOMAIN q |-> Advance(q[j])]
<1>1. /\ Len(q) \in Nat /\ DOMAIN q = 1 .. Len(q)
      /\ \A j \in 1 .. Len(q) : q[j] \in MopOf(d) /\ p[j] = Advance(q[j])
    OBVIOUS
<1>2. DOMAIN p = 1 .. Len(q) /\ p = [j \in 1 .. Len(q) |-> p[j]]
    BY <1>1
<1> HIDE DEF p
<1>3. ASSUME NEW j \in 1 .. Len(q)
      PROVE  /\ p[j] \in MopOf(d)
             /\ p[j].id = q[j].id /\ p[j].kind = q[j].kind /\ p[j].br = q[j].br
             /\ q[j].stage = 0 \/ q[j].stage = d => p[j].stage = 0
             /\ q[j].stage # 0 /\ q[j].stage # d => p[j].stage = q[j].stage + 1
             /\ q[j].stage # 0 /\ q[j].stage = d => ~p[j].jeclear_in_flight
             /\ q[j].stage = 0 \/ q[j].stage # d =>
                   (p[j].jeclear_in_flight <=> q[j].jeclear_in_flight)
    <2>1. q[j] \in MopOf(d) /\ p[j] = Advance(q[j]) /\ q[j].stage \in 0 .. d
        BY <1>1 DEF MopOf
    <2>2. CASE q[j].stage = 0
        <3>1. p[j] = q[j]
            BY <2>1, <2>2 DEF Advance
        <3> QED
            BY <3>1, <2>1, <2>2
    <2>3. CASE q[j].stage # 0 /\ q[j].stage = d
        <3>1. p[j] = [q[j] EXCEPT !.stage = 0, !.jeclear_in_flight = FALSE]
            BY <2>1, <2>3 DEF Advance
        <3>2. 0 \in 0 .. d /\ FALSE \in BOOLEAN
            OBVIOUS
        <3>3. Restaged(p[j], q[j], d, 0) /\ (p[j].jeclear_in_flight <=> FALSE)
            BY <3>1, <3>2, <2>1, MarkMop, Zenon
        <3> QED
            BY <3>3, <2>3, Zenon DEF Restaged
    <2>4. CASE q[j].stage # 0 /\ q[j].stage # d
        <3>1. p[j] = [q[j] EXCEPT !.stage = q[j].stage + 1]
            BY <2>1, <2>4 DEF Advance
        <3>2. q[j].stage + 1 \in 0 .. d
            BY <2>1, <2>4
        <3>3. /\ Restaged(p[j], q[j], d, q[j].stage + 1)
              /\ p[j].jeclear_in_flight <=> q[j].jeclear_in_flight
            BY <3>1, <3>2, <2>1, MoveMop, Zenon
        <3> QED
            BY <3>3, <2>4, Zenon DEF Restaged
    <2> QED
        BY <2>2, <2>3, <2>4
<1>4. p \in Seq(MopOf(d)) /\ Len(p) = Len(q)
    <2>1. p \in [1 .. Len(q) -> MopOf(d)]
        BY <1>2, <1>3, Zenon
    <2> QED
        BY <2>1, <1>1, <1>2
<1>5. Advanced(p, q, d)
    BY <1>3, <1>4, Zenon DEF Advanced
<1> QED
    BY <1>5 DEF p

(* pre_fetch() without a jeclear in the last stage keeps a queue sound.    *)
LEMMA AdvanceSound ==
    ASSUME NEW d \in Nat, NEW q \in Seq(MopOf(d)), NEW n, NEW f \in 0 .. Len(q),
           NEW spec, NEW div, NEW drain,
           QueueSound(q, n, f, spec, div, drain),
           \A j \in 1 .. Len(q) : q[j].stage # 0 => q[j].stage # d,
           NEW p, Advanced(p, q, d)
    PROVE  QueueSound(p, n, f, spec, div, drain)
<1>1. Split(q, n) /\ Marked(q, f) /\ Arriving(q)
    BY Zenon DEF QueueSound
<1>2. Len(q) \in Nat /\ n \in Nat /\ n <= Len(q)
    BY <1>1 DEF Split
<1>3. \A j \in 1 .. Len(q) : q[j].stage \in Nat
    <2>1. \A j \in 1 .. Len(q) : q[j] \in MopOf(d)
        OBVIOUS
    <2> QED
        BY <2>1 DEF MopOf
<1>4. /\ Len(p) = Len(q)
      /\ \A j \in 1 .. Len(q) :
            /\ p[j].kind = q[j].kind /\ p[j].br = q[j].br
            /\ q[j].stage = 0 => p[j].stage = 0
            /\ q[j].stage # 0 => p[j].stage = q[j].stage + 1
            /\ p[j].jeclear_in_flight <=> q[j].jeclear_in_flight
    BY Zenon DEF Advanced
<1>5. \A j \in 1 .. Len(q) : p[j].stage > 0 <=> q[j].stage > 0
    BY <1>3, <1>4
<1>6. \A j \in 1 .. n : j \in 1 .. Len(q)
    BY <1>2
<1>7. Excused(q, n) => Excused(p, n)
    <2>1. n > 0 => n \in 1 .. Len(q)
        BY <1>2
    <2> QED
        BY <2>1, <1>4, <1>5, <1>6, Zenon DEF Excused
<1>8. Marked(p, f)
    <2>1. \A i \in 1 .. Len(p) : p[i].stage > 0 => i <= f /\ p[i].jeclear_in_flight
        BY <1>1, <1>4, <1>5, Zenon DEF Marked
    <2>2. ASSUME NEW i \in 1 .. Len(p), NEW j \in 1 .. Len(p),
                 p[i].stage > 0, p[i].stage = p[j].stage
          PROVE  i = j
        <3>1. q[i].stage > 0 /\ q[j].stage > 0 /\ q[i].stage = q[j].stage
            BY <1>3, <1>4, <1>5, <2>2
        <3> QED
            BY <3>1, <1>1, <1>4 DEF Marked
    <2> QED
        BY <2>1, <2>2, Zenon DEF Marked
<1>9. Arriving(p)
    <2> SUFFICES ASSUME NEW j \in 1 .. Len(p), p[j].jeclear_in_flight
                 PROVE  \E k \in 1 .. j : p[k].stage > 0
        BY DEF Arriving
    <2>1. j \in 1 .. Len(q) /\ q[j].jeclear_in_flight /\ \A k \in 1 .. j : k \in 1 .. Len(q)
        BY <1>2, <1>4
    <2>2. PICK k \in 1 .. j : q[k].stage > 0
        BY <2>1, <1>1 DEF Arriving
    <2> QED
        BY <2>1, <2>2, <1>5
<1> QED
    BY <1>2, <1>4, <1>7, <1>8, <1>9, KeepSound

(* pre_fetch() with a jeclear in the last stage: it was fetched, and the   *)
(* oracle can recover to it.                                               *)
LEMMA AdvanceRecoverable ==
    ASSUME NEW d \in Nat, d > 0, NEW q \in Seq(MopOf(d)), NEW n, NEW f \in 0 .. Len(q),
           NEW spec, NEW div, NEW drain,
           QueueSound(q, n, f, spec, div, drain),
           NEW i \in 1 .. Len(q), q[i].stage = d,
           NEW p, Advanced(p, q, d)
    PROVE  i \in 1 .. f /\ Recoverable(p, n, f, i, drain)
<1>1. Split(q, n) /\ Marked(q, f) /\ Arriving(q) /\ TrapsLast(q) /\ (drain <=> HasTrap(q, f))
    BY Zenon DEF QueueSound
<1>2. /\ Len(q) \in Nat /\ n \in Nat /\ n <= Len(q) /\ i \in Nat /\ i <= Len(q) /\ i > 0
      /\ f \in Nat /\ f <= Len(q)
    BY <1>1 DEF Split
<1>3. \A j \in 1 .. Len(q) : q[j].stage \in Nat
    <2>1. \A j \in 1 .. Len(q) : q[j] \in MopOf(d)
        OBVIOUS
    <2> QED
        BY <2>1 DEF MopOf
<1>4. i <= f
    BY <1>1 DEF Marked
<1>5. \A j \in 1 .. Len(q) : j # i => q[j].stage # d
    BY <1>1 DEF Marked
<1>6. /\ Len(p) = Len(q)
      /\ \A j \in 1 .. Len(q) :
            /\ p[j].kind = q[j].kind /\ p[j].br = q[j].br
            /\ q[j].stage = 0 => p[j].stage = 0
            /\ q[j].stage # 0 /\ j # i => p[j].stage = q[j].stage + 1
            /\ j # i => (p[j].jeclear_in_flight <=> q[j].jeclear_in_flight)
      /\ p[i].stage = 0 /\ ~p[i].jeclear_in_flight
    <2>1. q[i].stage # 0
        OBVIOUS
    <2> QED
        BY <1>5, <2>1, Zenon DEF Advanced
<1>7. \A j \in 1 .. Len(q) : p[j].stage > 0 <=> (j # i /\ q[j].stage > 0)
    BY <1>3, <1>6
<1>8. Split(p, n)
    BY <1>1, <1>6 DEF Split, IsSpec
<1>9. n > 0
    <2>1. Len(q) > 0
        BY <1>2
    <2> QED
        BY <2>1, Zenon DEF QueueSound
<1>10. TrapsLast(p)
    BY <1>1, <1>6 DEF TrapsLast
<1>11. drain <=> HasTrap(p, f)
    <2>1. \A j \in 1 .. f : j \in 1 .. Len(q)
        OBVIOUS
    <2> QED
        BY <2>1, <1>1, <1>6, Zenon DEF HasTrap
<1>12. ASSUME i > n PROVE Excused(p, n)
    <2>1. \A j \in 1 .. n : j \in 1 .. Len(q) /\ j # i
        BY <1>2, <1>12
    <2>2. Excused(q, n)
        <3>1. Len(q) > n
            BY <1>2, <1>12
        <3> QED
            BY <3>1, Zenon DEF QueueSound
    <2>3. n \in 1 .. Len(q) /\ \A j \in 1 .. n : p[j].stage > 0 <=> q[j].stage > 0
        BY <2>1, <1>2, <1>7, <1>9
    <2> QED
        BY <2>2, <2>3, <1>6, Zenon DEF Excused
<1>13. ASSUME NEW j \in 1 .. i, p[j].stage > 0 PROVE p[j].jeclear_in_flight
    <2>1. j \in 1 .. Len(q) /\ j # i /\ q[j].stage > 0
        BY <1>2, <1>7, <1>13
    <2>2. q[j].jeclear_in_flight
        BY <2>1, <1>1 DEF Marked
    <2> QED
        BY <2>1, <2>2, <1>6, Zenon
<1>14. ASSUME NEW j \in 1 .. i, NEW k \in 1 .. i, p[j].stage > 0, p[j].stage = p[k].stage
       PROVE  j = k
    <2>1. j \in 1 .. Len(q) /\ k \in 1 .. Len(q) /\ q[j].stage > 0 /\ q[j].stage = q[k].stage
        BY <1>2, <1>3, <1>6, <1>7, <1>14
    <2> QED
        BY <2>1, <1>1 DEF Marked
<1>15. ASSUME NEW j \in 1 .. i, p[j].jeclear_in_flight
       PROVE  \E k \in 1 .. j : p[k].stage > 0
    <2>0. j # i
        BY <1>6, <1>15
    <2>1. j \in 1 .. Len(q) /\ \A k \in 1 .. j : k \in 1 .. Len(q) /\ k # i
        BY <2>0, <1>2, <1>15
    <2>2. q[j].jeclear_in_flight
        BY <2>0, <2>1, <1>6, <1>15
    <2>3. PICK k \in 1 .. j : q[k].stage > 0
        BY <2>1, <2>2, <1>1 DEF Arriving
    <2> QED
        BY <2>1, <2>3, <1>7
<1>16. Recoverable(p, n, f, i, drain)
    BY <1>8, <1>9, <1>10, <1>11, <1>12, <1>13, <1>14, <1>15, Zenon DEF Recoverable
<1> QED
    BY <1>2, <1>4, <1>16

(* The oracle can recover to any Mop that was fetched, whatever its next   *)
(* PC is set to.                                                           *)
LEMMA RetargetRecoverable ==
    ASSUME NEW d \in Nat, NEW q \in Seq(MopOf(d)), NEW n, NEW f \in 0 .. Len(q),
           NEW spec, NEW div, NEW drain,
           QueueSound(q, n, f, spec, div, drain),
           NEW i \in 1 .. f, NEW b, NEW r, Retarget(r, q, d, i, b)
    PROVE  Recoverable(r, n, f, i, drain)
<1>1. Split(q, n) /\ Marked(q, f) /\ Arriving(q) /\ TrapsLast(q) /\ (drain <=> HasTrap(q, f))
    BY Zenon DEF QueueSound
<1>2. /\ Len(q) \in Nat /\ n \in Nat /\ n <= Len(q) /\ i \in Nat /\ i <= Len(q) /\ i > 0
      /\ f \in Nat /\ f <= Len(q)
    BY <1>1 DEF Split
<1>3. /\ Len(r) = Len(q)
      /\ \A j \in 1 .. Len(q) :
            /\ j # i => r[j] = q[j]
            /\ r[j].kind = q[j].kind /\ r[j].stage = q[j].stage
            /\ r[j].jeclear_in_flight <=> q[j].jeclear_in_flight
    BY Zenon DEF Retarget
<1>4. \A j \in 1 .. i : j \in 1 .. Len(q) /\ \A k \in 1 .. j : k \in 1 .. Len(q)
    BY <1>2
<1>5. Split(r, n)
    BY <1>1, <1>3 DEF Split, IsSpec
<1>6. n > 0
    <2>1. Len(q) > 0
        BY <1>2
    <2> QED
        BY <2>1, Zenon DEF QueueSound
<1>7. TrapsLast(r)
    BY <1>1, <1>3 DEF TrapsLast
<1>8. drain <=> HasTrap(r, f)
    <2>1. \A j \in 1 .. f : j \in 1 .. Len(q)
        OBVIOUS
    <2> QED
        BY <2>1, <1>1, <1>3, Zenon DEF HasTrap
<1>9. ASSUME i > n PROVE Excused(r, n)
    <2>1. n \in 1 .. Len(q) /\ n # i /\ \A j \in 1 .. n : j \in 1 .. Len(q)
        BY <1>2, <1>6, <1>9
    <2>2. Excused(q, n)
        <3>1. Len(q) > n
            BY <1>2, <1>9
        <3> QED
            BY <3>1, Zenon DEF QueueSound
    <2>3. r[n] = q[n] /\ \A j \in 1 .. n : r[j].stage = q[j].stage
        BY <2>1, <1>3
    <2> QED
        BY <2>2, <2>3, Zenon DEF Excused
<1>10. ASSUME NEW j \in 1 .. i, r[j].stage > 0 PROVE r[j].jeclear_in_flight
    BY <1>10, <1>4, <1>3, <1>1, Zenon DEF Marked
<1>11. ASSUME NEW j \in 1 .. i, NEW k \in 1 .. i, r[j].stage > 0, r[j].stage = r[k].stage
       PROVE  j = k
    BY <1>11, <1>4, <1>3, <1>1 DEF Marked
<1>12. ASSUME NEW j \in 1 .. i, r[j].jeclear_in_flight
       PROVE  \E k \in 1 .. j : r[k].stage > 0
    <2>1. q[j].jeclear_in_flight
        BY <1>12, <1>4, <1>3
    <2>2. PICK k \in 1 .. j : q[k].stage > 0
        BY <2>1, <1>4, <1>1 DEF Arriving
    <2> QED
        BY <2>2, <1>4, <1>3
<1> QED
    BY <1>5, <1>6, <1>7, <1>8, <1>9, <1>10, <1>11, <1>12, Zenon DEF Recoverable

(* A change of the next PC of a Mop that stays wrong keeps a queue sound.  *)
LEMMA LateSound ==
    ASSUME NEW d \in Nat, NEW q \in Seq(MopOf(d)), NEW n, NEW f \in 0 .. Len(q),
           NEW spec, NEW div, NEW drain,
           QueueSound(q, n, f, spec, div, drain),
           NEW i \in 1 .. Len(q), NEW b, b # "ok", NEW r, Retarget(r, q, d, i, b)
    PROVE  QueueSound(r, n, f, spec, div, drain)
<1>1. Split(q, n) /\ Marked(q, f) /\ Arriving(q)
    BY Zenon DEF QueueSound
<1>2. Len(q) \in Nat /\ n \in Nat /\ n <= Len(q)
    BY <1>1 DEF Split
<1>3. /\ Len(r) = Len(q) /\ r[i].br = b
      /\ \A j \in 1 .. Len(q) :
            /\ j # i => r[j] = q[j]
            /\ r[j].kind = q[j].kind /\ r[j].stage = q[j].stage
            /\ r[j].jeclear_in_flight <=> q[j].jeclear_in_flight
    BY Zenon DEF Retarget
<1>4. Excused(q, n) => Excused(r, n)
    <2>1. n > 0 => n \in 1 .. Len(q)
        BY <1>2
    <2>2. \A j \in 1 .. n : j \in 1 .. Len(q)
        BY <1>2
    <2> QED
        BY <2>1, <2>2, <1>3 DEF Excused
<1>5. Marked(r, f)
    BY <1>1, <1>3, Zenon DEF Marked
<1>6. Arriving(r)
    <2> SUFFICES ASSUME NEW j \in 1 .. Len(r), r[j].jeclear_in_flight
                 PROVE  \E k \in 1 .. j : r[k].stage > 0
        BY DEF Arriving
    <2>1. j \in 1 .. Len(q) /\ q[j].jeclear_in_flight /\ \A k \in 1 .. j : k \in 1 .. Len(q)
        BY <1>2, <1>3
    <2>2. PICK k \in 1 .. j : q[k].stage > 0
        BY <2>1, <1>1 DEF Arriving
    <2> QED
        BY <2>1, <2>2, <1>3
<1> QED
    BY <1>2, <1>3, <1>4, <1>5, <1>6, KeepSound

(* do_fetch() consumes the youngest Mop and predicts its next PC.          *)
LEMMA ConsumeSound ==
    ASSUME NEW d \in Nat, NEW q \in Seq(MopOf(d)), NEW n,
           NEW spec, NEW div, NEW drain, Len(q) > 0,
           QueueSound(q, n, Len(q) - 1, spec, div, drain),
           NEW b, NEW r, Retarget(r, q, d, Len(q), b)
    PROVE  /\ ~drain
           /\ QueueSound(r, n, Len(q), spec, b # "ok", drain \/ q[Len(q)].kind = "trap")
<1> DEFINE l == Len(q)
<1>1. /\ Split(q, n) /\ Marked(q, l - 1) /\ Arriving(q) /\ TrapsLast(q)
      /\ (drain <=> HasTrap(q, l - 1)) /\ (spec <=> l > n) /\ (spec => Excused(q, n))
    BY Zenon DEF QueueSound
<1>2. l \in Nat /\ n \in Nat /\ n <= l /\ l \in 1 .. l
    BY <1>1 DEF Split
<1>3. /\ Len(r) = l /\ r[l].br = b
      /\ \A j \in 1 .. l :
            /\ j # l => r[j] = q[j]
            /\ r[j].kind = q[j].kind /\ r[j].stage = q[j].stage
            /\ r[j].jeclear_in_flight <=> q[j].jeclear_in_flight
    BY Zenon DEF Retarget
<1> HIDE DEF l
<1>4. Split(r, n)
    BY <1>1, <1>3 DEF Split, IsSpec, l
<1>5. n > 0
    BY <1>2, Zenon DEF QueueSound, l
<1>6. ~drain
    <2>1. \A j \in 1 .. l - 1 : j \in 1 .. l /\ j # l
        BY <1>2
    <2>2. ~HasTrap(q, l - 1)
        BY <2>1, <1>1 DEF HasTrap, TrapsLast, l
    <2> QED
        BY <2>2, <1>1
<1>7. TrapsLast(r)
    BY <1>1, <1>3 DEF TrapsLast, l
<1>8. q[l].kind = "trap" <=> HasTrap(r, l)
    BY <1>1, <1>2, <1>3 DEF HasTrap, TrapsLast, l
<1>9. ASSUME spec \/ b # "ok" PROVE Excused(r, n)
    <2>1. n \in 1 .. l /\ \A j \in 1 .. n : j \in 1 .. l
        BY <1>2, <1>5
    <2>2. CASE n = l
        <3>1. ~spec
            BY <2>2, <1>1, <1>2
        <3> QED
            BY <3>1, <2>2, <1>3, <1>5, <1>9 DEF Excused
    <2>3. CASE n # l
        <3>1. l > n
            BY <2>3, <1>2
        <3>2. Excused(q, n)
            BY <3>1, <1>1
        <3>3. r[n] = q[n] /\ \A j \in 1 .. n : r[j].stage = q[j].stage
            BY <2>1, <2>3, <1>3
        <3> QED
            BY <3>2, <3>3, Zenon DEF Excused
    <2> QED
        BY <2>2, <2>3
<1>10. Marked(r, l)
    <2>1. \A j \in 1 .. l : j <= l
        BY <1>2
    <2> QED
        BY <2>1, <1>1, <1>3, Zenon DEF Marked, l
<1>11. Arriving(r)
    <2> SUFFICES ASSUME NEW j \in 1 .. Len(r), r[j].jeclear_in_flight
                 PROVE  \E k \in 1 .. j : r[k].stage > 0
        BY DEF Arriving
    <2>1. j \in 1 .. l /\ q[j].jeclear_in_flight /\ \A k \in 1 .. j : k \in 1 .. l
        BY <1>2, <1>3
    <2>2. PICK k \in 1 .. j : q[k].stage > 0
        BY <2>1, <1>1 DEF Arriving, l
    <2> QED
        BY <2>1, <2>2, <1>3
<1>12. QueueSound(r, n, l, spec, b # "ok", drain \/ q[l].kind = "trap")
    BY <1>1, <1>3, <1>4, <1>5, <1>6, <1>7, <1>8, <1>9, <1>10, <1>11, Zenon DEF QueueSound
<1> QED
    BY <1>6, <1>12 DEF l

(* A queue with a Mop added at its end.                                    *)
LEMMA Added ==
    ASSUME NEW S, NEW q \in Seq(S), NEW m \in S
    PROVE  /\ Append(q, m) \in Seq(S) /\ Len(Append(q, m)) = Len(q) + 1
           /\ Append(q, m)[Len(q) + 1] = m
           /\ \A j \in 1 .. Len(q) : Append(q, m)[j] = q[j]
           /\ \A j \in 1 .. Len(q) + 1 : j \in 1 .. Len(q) \/ j = Len(q) + 1
    OBVIOUS

(* A new Mop without a jeclear disturbs neither jeclears nor traps.        *)
LEMMA ExtendMarks ==
    ASSUME NEW d \in Nat, NEW q \in Seq(MopOf(d)), NEW n, NEW spec, NEW div,
           QueueSound(q, n, Len(q), spec, div, FALSE),
           NEW m \in MopOf(d), m.stage = 0, ~m.jeclear_in_flight,
           NEW p, p = Append(q, m)
    PROVE  /\ Marked(p, Len(q)) /\ Arriving(p) /\ TrapsLast(p)
           /\ ~HasTrap(p, Len(q))
<1> DEFINE l == Len(q)
<1>1. Marked(q, l) /\ Arriving(q) /\ ~HasTrap(q, l)
    BY Zenon DEF QueueSound
<1>2. /\ l \in Nat /\ Len(p) = l + 1 /\ p[l + 1] = m
      /\ \A j \in 1 .. l : p[j] = q[j]
      /\ \A j \in 1 .. l + 1 : j \in 1 .. l \/ j = l + 1
    BY Added
<1>3. \A j \in 1 .. l : q[j].kind # "trap"
    BY <1>1 DEF HasTrap
<1>4. \A j \in 1 .. l : q[j].stage > 0 => j <= l /\ q[j].jeclear_in_flight
    BY <1>1 DEF Marked
<1>5. \A j, k \in 1 .. l : q[j].stage > 0 /\ q[j].stage = q[k].stage => j = k
    BY <1>1 DEF Marked
<1>6. \A j \in 1 .. l : q[j].jeclear_in_flight => \E k \in 1 .. j : q[k].stage > 0
    BY <1>1 DEF Arriving
<1> HIDE DEF l
<1>7. Marked(p, l)
    <2>1. ASSUME NEW j \in 1 .. Len(p), p[j].stage > 0
          PROVE  j <= l /\ p[j].jeclear_in_flight
        <3>1. j \in 1 .. l
            BY <2>1, <1>2
        <3> QED
            BY <3>1, <2>1, <1>2, <1>4, Zenon
    <2>2. ASSUME NEW j \in 1 .. Len(p), NEW k \in 1 .. Len(p),
                 p[j].stage > 0, p[j].stage = p[k].stage
          PROVE  j = k
        <3>1. j \in 1 .. l /\ k \in 1 .. l
            BY <2>2, <1>2
        <3> QED
            BY <3>1, <2>2, <1>2, <1>5, Zenon
    <2> QED
        BY <2>1, <2>2, Zenon DEF Marked
<1>8. Arriving(p)
    <2> SUFFICES ASSUME NEW j \in 1 .. Len(p), p[j].jeclear_in_flight
                 PROVE  \E k \in 1 .. j : p[k].stage > 0
        BY DEF Arriving
    <2>1. j \in 1 .. l
        BY <1>2
    <2>2. \A k \in 1 .. j : k \in 1 .. l
        BY <2>1, <1>2
    <2> QED
        BY <2>1, <2>2, <1>2, <1>6, Zenon
<1>9. TrapsLast(p)
    BY <1>2, <1>3 DEF TrapsLast
<1>10. ~HasTrap(p, l)
    BY <1>2, <1>3 DEF HasTrap
<1> QED
    BY <1>7, <1>8, <1>9, <1>10 DEF l

(* exec() on a wrong path.                                                 *)
LEMMA ExecSpecSound ==
    ASSUME NEW d \in Nat, NEW q \in Seq(MopOf(d)), NEW n, NEW spec, NEW div,
           QueueSound(q, n, Len(q), spec, div, FALSE), spec \/ div,
           NEW m \in MopOf(d), IsSpec(m), m.stage = 0, ~m.jeclear_in_flight
    PROVE  QueueSound(Append(q, m), n, Len(q), TRUE, div, FALSE)
<1> DEFINE p == Append(q, m)
           l == Len(q)
<1>1. Split(q, n) /\ Excused(q, n)
    BY Zenon DEF QueueSound
<1>2. /\ l \in Nat /\ Len(p) = l + 1 /\ p[l + 1] = m
      /\ \A j \in 1 .. l : p[j] = q[j]
      /\ \A j \in 1 .. l + 1 : j \in 1 .. l \/ j = l + 1
    BY Added
<1>3. Marked(p, l) /\ Arriving(p) /\ TrapsLast(p) /\ ~HasTrap(p, l)
    BY ExtendMarks
<1>4. n \in Nat /\ n <= l /\ n > 0
    BY <1>1 DEF Split, Excused
<1>5. \A j \in 1 .. l : IsSpec(q[j]) <=> j > n
    BY <1>1 DEF Split
<1> HIDE DEF p, l
<1>6. Split(p, n)
    BY <1>2, <1>4, <1>5 DEF Split
<1>7. Excused(p, n)
    <2>1. n \in 1 .. l /\ \A j \in 1 .. n : j \in 1 .. l
        BY <1>2, <1>4
    <2>2. p[n] = q[n] /\ \A j \in 1 .. n : p[j] = q[j]
        BY <2>1, <1>2
    <2> QED
        BY <2>2, <1>1, Zenon DEF Excused
<1>8. Len(p) > n
    BY <1>2, <1>4
<1>9. QueueSound(p, n, l, TRUE, div, FALSE)
    BY <1>3, <1>4, <1>6, <1>7, <1>8, Zenon DEF QueueSound
<1> QED
    BY <1>9 DEF p, l

(* exec() on the right path.                                               *)
LEMMA ExecSound ==
    ASSUME NEW d \in Nat, NEW q \in Seq(MopOf(d)), NEW n,
           QueueSound(q, n, Len(q), FALSE, FALSE, FALSE),
           NEW m \in MopOf(d), ~IsSpec(m), m.stage = 0, ~m.jeclear_in_flight
    PROVE  n = Len(q) /\ QueueSound(Append(q, m), n + 1, Len(q), FALSE, FALSE, FALSE)
<1> DEFINE p == Append(q, m)
           l == Len(q)
<1>1. Split(q, n) /\ ~(l > n)
    BY Zenon DEF QueueSound
<1>2. /\ l \in Nat /\ Len(p) = l + 1 /\ p[l + 1] = m
      /\ \A j \in 1 .. l : p[j] = q[j]
      /\ \A j \in 1 .. l + 1 : j \in 1 .. l \/ j = l + 1
    BY Added
<1>3. Marked(p, l) /\ Arriving(p) /\ TrapsLast(p) /\ ~HasTrap(p, l)
    BY ExtendMarks
<1>4. n = l
    BY <1>1 DEF Split
<1>5. \A j \in 1 .. l : ~IsSpec(q[j])
    BY <1>1, <1>4 DEF Split
<1> HIDE DEF p, l
<1>6. Split(p, n + 1)
    BY <1>2, <1>4, <1>5 DEF Split
<1>7. ~(Len(p) > n + 1) /\ n + 1 > 0
    BY <1>2, <1>4
<1>8. QueueSound(p, n + 1, l, FALSE, FALSE, FALSE)
    BY <1>3, <1>6, <1>7, Zenon DEF QueueSound
<1> QED
    BY <1>4, <1>8 DEF p, l

(* commit() of the oldest Mop: it is on the right path, and if it is a     *)
(* trap it is alone.                                                       *)
LEMMA CommitSound ==
    ASSUME NEW d \in Nat, NEW q \in Seq(MopOf(d)), NEW n, NEW f \in 1 .. Len(q),
           NEW spec, NEW div, NEW drain,
           QueueSound(q, n, f, spec, div, drain),
           q[1].br = "ok", ~q[1].jeclear_in_flight
    PROVE  /\ n \in 1 .. Len(q)
           /\ q[1].kind = "trap" => Len(q) = 1
           /\ QueueSound(Tail(q), n - 1, f - 1, spec, div, drain /\ q[1].kind # "trap")
<1> DEFINE p == Tail(q)
           l == Len(q)
           dr == drain /\ q[1].kind # "trap"
<1>1. /\ Split(q, n) /\ Marked(q, f) /\ Arriving(q) /\ TrapsLast(q)
      /\ (drain <=> HasTrap(q, f)) /\ (spec <=> l > n) /\ (spec \/ div => Excused(q, n))
      /\ (l > 0 => n > 0)
    BY Zenon DEF QueueSound
<1>2. /\ l \in Nat /\ l > 0 /\ q # <<>> /\ 1 \in 1 .. l /\ f \in Nat /\ f <= l /\ f > 0
      /\ n \in Nat /\ n <= l /\ n > 0
    BY <1>1 DEF Split
<1>3. /\ p \in Seq(MopOf(d)) /\ Len(p) = l - 1
      /\ \A j \in 1 .. l - 1 : p[j] = q[j + 1] /\ j + 1 \in 1 .. l
    BY <1>2
<1>4. \A j \in 1 .. l : q[j].stage \in Nat
    <2>1. \A j \in 1 .. l : q[j] \in MopOf(d)
        OBVIOUS
    <2> QED
        BY <2>1 DEF MopOf
<1>5. ~(q[1].stage > 0)
    BY <1>1, <1>2 DEF Marked
<1> HIDE DEF p
<1>6. q[1].kind = "trap" => l = 1
    BY <1>1, <1>2 DEF TrapsLast
<1>7. Split(p, n - 1)
    BY <1>1, <1>2, <1>3 DEF Split
<1>8. ASSUME spec \/ div PROVE n - 1 > 0 /\ Excused(p, n - 1)
    <2>1. Excused(q, n)
        BY <1>1, <1>8
    <2>2. CASE q[n].br # "ok"
        <3>1. n # 1
            BY <2>2
        <3>2. n - 1 \in 1 .. l - 1 /\ (n - 1) + 1 = n
            BY <3>1, <1>2
        <3>3. p[n - 1] = q[n]
            BY <3>2, <1>3
        <3> QED
            BY <2>2, <3>2, <3>3 DEF Excused
    <2>3. CASE \E j \in 1 .. n : q[j].stage > 0
        <3>1. PICK j \in 1 .. n : q[j].stage > 0
            BY <2>3
        <3>2. j # 1
            BY <3>1, <1>5
        <3>3. j - 1 \in 1 .. n - 1 /\ j - 1 \in 1 .. l - 1 /\ (j - 1) + 1 = j
            BY <3>2, <1>2
        <3>4. p[j - 1] = q[j]
            BY <3>3, <1>3
        <3>5. n - 1 > 0 /\ \E k \in 1 .. n - 1 : p[k].stage > 0
            BY <3>1, <3>3, <3>4, <1>2
        <3> QED
            BY <3>5, Zenon DEF Excused
    <2> QED
        BY <2>1, <2>2, <2>3 DEF Excused
<1>9. Len(p) > 0 => n - 1 > 0
    <2>1. CASE l > n
        BY <2>1, <1>1, <1>8
    <2>2. CASE l = n
        BY <2>2, <1>2, <1>3
    <2> QED
        BY <2>1, <2>2, <1>2
<1>10. spec <=> Len(p) > n - 1
    BY <1>1, <1>2, <1>3
<1>11. Marked(p, f - 1)
    <2>1. ASSUME NEW j \in 1 .. Len(p), p[j].stage > 0
          PROVE  j <= f - 1 /\ p[j].jeclear_in_flight
        <3>1. j \in 1 .. l - 1 /\ p[j] = q[j + 1] /\ j + 1 \in 1 .. l
            BY <1>2, <1>3
        <3>2. j + 1 <= f /\ q[j + 1].jeclear_in_flight
            BY <3>1, <2>1, <1>1 DEF Marked
        <3> QED
            BY <3>1, <3>2, <1>2
    <2>2. ASSUME NEW j \in 1 .. Len(p), NEW k \in 1 .. Len(p),
                 p[j].stage > 0, p[j].stage = p[k].stage
          PROVE  j = k
        <3>1. /\ j \in 1 .. l - 1 /\ p[j] = q[j + 1] /\ j + 1 \in 1 .. l
              /\ k \in 1 .. l - 1 /\ p[k] = q[k + 1] /\ k + 1 \in 1 .. l
            BY <1>2, <1>3
        <3>2. j + 1 = k + 1
            BY <3>1, <2>2, <1>1 DEF Marked
        <3> QED
            BY <3>1, <3>2, <1>2
    <2> QED
        BY <2>1, <2>2, Zenon DEF Marked
<1>12. TrapsLast(p)
    <2> SUFFICES ASSUME NEW j \in 1 .. Len(p), p[j].kind = "trap" PROVE j = Len(p)
        BY DEF TrapsLast
    <2>1. j \in 1 .. l - 1 /\ p[j] = q[j + 1] /\ j + 1 \in 1 .. l
        BY <1>2, <1>3
    <2>2. j + 1 = l
        BY <2>1, <1>1 DEF TrapsLast
    <2> QED
        BY <2>1, <2>2, <1>2, <1>3
<1>13. dr <=> HasTrap(p, f - 1)
    <2>1. CASE q[1].kind = "trap"
        <3>0. l = 1
            BY <2>1, <1>6
        <3>1. f - 1 = 0
            BY <3>0, <1>2
        <3> QED
            BY <2>1, <3>1 DEF HasTrap
    <2>2. CASE q[1].kind # "trap"
        <3>1. ASSUME drain PROVE HasTrap(p, f - 1)
            <4>1. PICK j \in 1 .. f : q[j].kind = "trap"
                BY <3>1, <1>1 DEF HasTrap
            <4>2. j - 1 \in 1 .. f - 1 /\ j - 1 \in 1 .. l - 1 /\ (j - 1) + 1 = j
                BY <4>1, <2>2, <1>2
            <4>3. p[j - 1] = q[j]
                BY <4>2, <1>3
            <4> QED
                BY <4>1, <4>2, <4>3 DEF HasTrap
        <3>2. ASSUME HasTrap(p, f - 1) PROVE drain
            <4>1. PICK j \in 1 .. f - 1 : p[j].kind = "trap"
                BY <3>2 DEF HasTrap
            <4>2. j \in 1 .. l - 1 /\ j + 1 \in 1 .. f
                BY <4>1, <1>2
            <4>3. p[j] = q[j + 1]
                BY <4>2, <1>3
            <4>4. HasTrap(q, f)
                BY <4>1, <4>2, <4>3 DEF HasTrap
            <4> QED
                BY <4>4, <1>1
        <3> QED
            BY <3>1, <3>2, <2>2
    <2> QED
        BY <2>1, <2>2
<1>14. Arriving(p)
    <2> SUFFICES ASSUME NEW j \in 1 .. Len(p), p[j].jeclear_in_flight
                 PROVE  \E k \in 1 .. j : p[k].stage > 0
        BY DEF Arriving
    <2>1. j \in 1 .. l - 1 /\ p[j] = q[j + 1] /\ j + 1 \in 1 .. l
        BY <1>2, <1>3
    <2>2. PICK k \in 1 .. j + 1 : q[k].stage > 0
        BY <2>1, <1>1 DEF Arriving
    <2>3. k # 1
        BY <2>2, <1>5
    <2>4. k - 1 \in 1 .. j /\ k - 1 \in 1 .. l - 1 /\ (k - 1) + 1 = k
        <3>1. j \in Nat /\ k \in Nat /\ l \in Nat
            BY <2>1, <1>2
        <3>2. \A x, y, z \in Nat :
                 x \in 1 .. y + 1 /\ x # 1 /\ y \in 1 .. z - 1 =>
                     x - 1 \in 1 .. y /\ x - 1 \in 1 .. z - 1 /\ (x - 1) + 1 = x
            OBVIOUS
        <3> QED
            BY <2>1, <2>3, <3>1, <3>2, Zenon
    <2>5. p[k - 1] = q[k]
        BY <2>4, <1>3
    <2> QED
        BY <2>2, <2>4, <2>5
<1> HIDE DEF l, dr
<1>15. QueueSound(p, n - 1, f - 1, spec, div, dr)
    BY <1>7, <1>8, <1>9, <1>10, <1>11, <1>12, <1>13, <1>14, Zenon DEF QueueSound
<1>16. n \in 1 .. l
    BY <1>2
<1> QED
    BY <1>6, <1>15, <1>16 DEF p, l, dr

-----------------------------------------------------------------------------
(* The steps of the oracle and of the loop.                                *)

(* What the invariant says of the queues, in one place.                    *)
LEMMA Facts ==
    ASSUME IInv
    PROVE  /\ jeclear_delay \in Nat /\ Mop = MopOf(jeclear_delay)
           /\ MopQ \in Seq(MopOf(jeclear_delay)) /\ Len(MopQ) \in Nat
           /\ DOMAIN MopQ = 1 .. Len(MopQ) /\ Len(MopQ) <= MopQ_size
           /\ shadow_MopQ \in Seq(ShadowMop) /\ Len(shadow_MopQ) \in Nat
           /\ DOMAIN shadow_MopQ = 1 .. Len(shadow_MopQ) /\ Len(shadow_MopQ) <= MopQ_size
           /\ num_non_spec_Mops \in Nat /\ num_non_spec_Mops <= Len(MopQ)
           /\ num_non_spec_Mops <= Len(shadow_MopQ)
           /\ Len(MopQ) > 0 => num_non_spec_Mops > 0
           /\ spec_mode <=> Len(MopQ) > num_non_spec_Mops
           /\ InPipe \in 0 .. Len(MopQ) /\ InPipe <= Slots
           /\ current_Mop => Len(MopQ) > 0 /\ InPipe = Len(MopQ) - 1
           /\ ~current_Mop => InPipe = Len(MopQ)
           /\ Fetched = 1 .. InPipe
           /\ MopQ_size \in Nat \ {0} /\ Slots \in Nat \ {0}
           /\ MaxHandshakes \in Nat /\ MaxNukes \in Nat
           /\ received \in Nat /\ retired \in Nat
<1>1. jeclear_delay \in Nat /\ Mop = MopOf(jeclear_delay)
    BY OracleAssumption DEF IInv, TypeOK, Mop, MopOf
<1>2. /\ MopQ \in Seq(MopOf(jeclear_delay)) /\ Len(MopQ) \in Nat
      /\ DOMAIN MopQ = 1 .. Len(MopQ) /\ Len(MopQ) <= MopQ_size
    BY <1>1 DEF IInv, TypeOK
<1>3. /\ shadow_MopQ \in Seq(ShadowMop) /\ Len(shadow_MopQ) \in Nat
      /\ DOMAIN shadow_MopQ = 1 .. Len(shadow_MopQ) /\ Len(shadow_MopQ) <= MopQ_size
    BY DEF IInv, TypeOK
<1>4. /\ Split(MopQ, num_non_spec_Mops) /\ (Len(MopQ) > 0 => num_non_spec_Mops > 0)
      /\ (spec_mode <=> Len(MopQ) > num_non_spec_Mops)
    BY Zenon DEF IInv, Queue, QueueSound
<1>5. num_non_spec_Mops \in Nat /\ num_non_spec_Mops <= Len(MopQ)
    BY <1>2, <1>4 DEF Split
<1>6. num_non_spec_Mops <= Len(shadow_MopQ)
    BY Zenon DEF IInv, Shadow, ShadowSound
<1>7. /\ MopQ_size \in Nat \ {0} /\ Slots \in Nat \ {0}
      /\ MaxHandshakes \in Nat /\ MaxNukes \in Nat
    BY OracleAssumption
<1>8. InPipe \in 0 .. Slots
    BY DEF IInv, Behind
<1>9. received \in Nat /\ retired \in Nat
    BY <1>7 DEF IInv, TypeOK
<1>10. /\ InPipe \in 0 .. Len(MopQ) /\ InPipe <= Slots
       /\ current_Mop => Len(MopQ) > 0 /\ InPipe = Len(MopQ) - 1
       /\ ~current_Mop => InPipe = Len(MopQ)
       /\ Fetched = 1 .. InPipe
    <2>1. CASE current_Mop
        <3>1. InPipe = Len(MopQ) - 1
            BY <2>1 DEF InPipe
        <3>2. Fetched = 1 .. Len(MopQ) - 1
            BY <2>1 DEF Fetched
        <3>3. Len(MopQ) > 0 /\ InPipe \in 0 .. Len(MopQ) /\ InPipe <= Slots
            BY <3>1, <1>2, <1>7, <1>8
        <3> QED
            BY <3>1, <3>2, <3>3, <2>1
    <2>2. CASE ~current_Mop
        <3>1. InPipe = Len(MopQ)
            BY <2>2 DEF InPipe
        <3>2. Fetched = 1 .. Len(MopQ)
            BY <2>2, <1>2 DEF Fetched
        <3>3. InPipe \in 0 .. Len(MopQ) /\ InPipe <= Slots
            BY <3>1, <1>2, <1>7, <1>8
        <3> QED
            BY <3>1, <3>2, <3>3, <2>2
    <2> QED
        BY <2>1, <2>2
<1> QED
    BY <1>1, <1>2, <1>3, <1>4, <1>5, <1>6, <1>7, <1>9, <1>10, Zenon

(* The count of the Mops on the right path after a step.                   *)
LEMMA CountedNext ==
    ASSUME jeclear_delay \in Nat, MopQ' \in Seq(MopOf(jeclear_delay)), NEW n,
           Split(MopQ', n)
    PROVE  num_non_spec_Mops' = n
<1>1. num_non_spec_Mops' = Cardinality({i \in DOMAIN MopQ' : ~IsSpec(MopQ'[i])})
    BY DEF num_non_spec_Mops, IsSpec
<1>2. Cardinality({i \in DOMAIN MopQ' : ~IsSpec(MopQ'[i])}) = n
    BY Counted
<1> QED
    BY <1>1, <1>2

(* The queue q has the Mops of the MopQ, in other states.                  *)
SameMops(q) ==
    /\ q \in Seq(MopOf(jeclear_delay)) /\ Len(q) = Len(MopQ)
    /\ \A j \in 1 .. Len(MopQ) : q[j].id = MopQ[j].id /\ q[j].kind = MopQ[j].kind

(* What the steps of the back end leave alone.                             *)
BackEnd ==
    /\ pc \in {"post", "back"} /\ pc' = "back"
    /\ nukes' \in 0 .. MaxNukes
    /\ UNCHANGED <<shadow_MopQ, loopVars, jeclear_delay, received, retired>>

(* A step of the back end that recovers to a fetched Mop.                  *)
LEMMA RecoverStep ==
    ASSUME IInv, BackEnd, NEW q, SameMops(q), NEW i \in 1 .. InPipe,
           Recoverable(q, num_non_spec_Mops, InPipe, i, drain_pipeline),
           Recover(q, i)
    PROVE  IInv'
<1> DEFINE d == jeclear_delay
           n == num_non_spec_Mops
           m == IF i < n THEN i ELSE n
           dr == drain_pipeline /\ \A j \in i + 1 .. Len(q) : q[j].kind # "trap"
<1>1. /\ d \in Nat /\ Mop = MopOf(d) /\ Len(MopQ) \in Nat /\ Len(MopQ) <= MopQ_size
      /\ n \in Nat /\ n <= Len(MopQ) /\ n <= Len(shadow_MopQ) /\ (Len(MopQ) > 0 => n > 0)
      /\ InPipe \in 0 .. Len(MopQ) /\ InPipe <= Slots
      /\ MopQ_size \in Nat /\ Slots \in Nat /\ Len(shadow_MopQ) \in Nat
    BY Facts
<1>2. /\ q \in Seq(MopOf(d)) /\ Len(q) = Len(MopQ)
      /\ \A j \in 1 .. Len(MopQ) : q[j].id = MopQ[j].id /\ q[j].kind = MopQ[j].kind
    BY DEF SameMops
<1>3. i \in Nat /\ i > 0 /\ i <= Len(MopQ) /\ i \in 0 .. Len(q) /\ i <= InPipe
    BY <1>1, <1>2
<1>4. /\ MopQ' = SubSeq(q, 1, i) /\ current_Mop' = FALSE /\ consumed' = TRUE
      /\ spec_mode' = IsSpec(q[i]) /\ diverged' = (q[i].br # "ok") /\ drain_pipeline' = dr
      /\ jeclear_delay' = jeclear_delay /\ shadow_MopQ' = shadow_MopQ
      /\ handshake' = handshake /\ did_buffer' = did_buffer
      /\ buffer_result' = buffer_result
      /\ received' = received /\ retired' = retired /\ pc' = "back"
    BY DEF Recover, BackEnd, loopVars
<1>5. /\ MopQ' \in Seq(MopOf(d)) /\ Len(MopQ') = i
      /\ \A j \in 1 .. i : MopQ'[j] = q[j]
    <2>1. /\ SubSeq(q, 1, i) \in Seq(MopOf(d)) /\ Len(SubSeq(q, 1, i)) = i
          /\ \A j \in 1 .. i : SubSeq(q, 1, i)[j] = q[j]
        BY <1>2, <1>3, Prefix
    <2> QED
        BY <2>1, <1>4
<1>6. {spec_mode, drain_pipeline, current_Mop, consumed, diverged, did_buffer} \subseteq BOOLEAN
    BY DEF IInv, TypeOK
<1>7. drain_pipeline \in BOOLEAN
    BY <1>6
<1>8. QueueSound(MopQ', m, i, spec_mode', diverged', drain_pipeline')
    <2>1. InPipe \in 0 .. Len(q)
        BY <1>1, <1>2
    <2>2. QueueSound(SubSeq(q, 1, i), m, i, IsSpec(q[i]), q[i].br # "ok", dr)
        BY <1>1, <1>2, <1>7, <2>1, RecoverSound
    <2> QED
        BY <2>2, <1>4
<1>9. num_non_spec_Mops' = m
    <2>1. Split(MopQ', m)
        BY <1>8, Zenon DEF QueueSound
    <2> QED
        BY <2>1, <1>1, <1>5, CountedNext
<1>10. InPipe' = i
    BY <1>4, <1>5 DEF InPipe
<1> HIDE DEF m, dr
<1>11. m \in Nat /\ m <= n /\ m <= i /\ (m = i \/ m = n)
    BY <1>1, <1>3 DEF m
<1>12. TypeOK'
    <2>1. dr \in BOOLEAN
        BY DEF dr
    <2>2. MopQ' \in Seq(Mop') /\ Len(MopQ') <= MopQ_size
        <3>1. Mop' = Mop
            BY <1>4 DEF Mop
        <3> QED
            BY <3>1, <1>1, <1>3, <1>5
    <2>3. {spec_mode', drain_pipeline', current_Mop', consumed', diverged', did_buffer'} \subseteq BOOLEAN
        BY <2>1, <1>4, <1>6 DEF IsSpec
    <2> QED
        BY <2>2, <2>3, <1>4 DEF IInv, TypeOK, BackEnd, ShadowMop
<1>13. Queue'
    BY <1>8, <1>9, <1>10 DEF Queue
<1>14. Shadow'
    <2>1. /\ \A j \in 1 .. n : MopQ[j].id = shadow_MopQ[j].id /\ MopQ[j].kind = shadow_MopQ[j].kind
          /\ n > 0 => Len(MopQ) <= n + shadow_MopQ[n].speculated
          /\ \A j \in 1 .. Len(shadow_MopQ) : shadow_MopQ[j].id = retired + j
        BY Zenon DEF IInv, Shadow, ShadowSound
    <2>2. \A j \in 1 .. m : j \in 1 .. n /\ j \in 1 .. i /\ j \in 1 .. Len(MopQ)
        BY <1>1, <1>11
    <2>3. \A j \in 1 .. m : MopQ'[j].id = shadow_MopQ[j].id /\ MopQ'[j].kind = shadow_MopQ[j].kind
        BY <2>1, <2>2, <1>2, <1>5
    <2>4. m > 0 => i <= m + shadow_MopQ[m].speculated
        <3>1. ASSUME m > 0 PROVE shadow_MopQ[m].speculated \in Nat
            <4>1. m \in 1 .. Len(shadow_MopQ)
                BY <1>1, <1>11, <3>1
            <4>2. shadow_MopQ[m] \in ShadowMop
                BY <4>1 DEF IInv, TypeOK
            <4> QED
                BY <4>2, <1>1 DEF ShadowMop
        <3> QED
            BY <3>1, <2>1, <1>1, <1>3, <1>11
    <2>5. m <= Len(shadow_MopQ)
        BY <1>1, <1>11
    <2> QED
        BY <2>1, <2>3, <2>4, <2>5, <1>4, <1>5, <1>9, Zenon DEF Shadow, ShadowSound
<1>15. Numbered'
    BY <1>4 DEF IInv, Numbered, InHand, BackEnd
<1>16. Loop'
    BY <1>4 DEF IInv, Loop, BackEnd
<1>17. Behind'
    BY <1>1, <1>3, <1>10 DEF Behind
<1>18. HandshakeAvailable' /\ FeederReady'
    BY <1>4 DEF HandshakeAvailable, FeederReady
<1> QED
    BY <1>12, <1>13, <1>14, <1>15, <1>16, <1>17, <1>18 DEF IInv

(* A step of the back end that removes no Mop.                             *)
LEMMA KeepStep ==
    ASSUME IInv, BackEnd, SameMops(MopQ'), UNCHANGED <<flags, consumed>>,
           QueueSound(MopQ', num_non_spec_Mops, InPipe, spec_mode, diverged, drain_pipeline)
    PROVE  IInv'
<1> DEFINE d == jeclear_delay
           n == num_non_spec_Mops
<1>1. /\ d \in Nat /\ Mop = MopOf(d) /\ Len(MopQ) \in Nat /\ Len(MopQ) <= MopQ_size
      /\ n \in Nat /\ n <= Len(MopQ)
    BY Facts
<1>2. /\ MopQ' \in Seq(MopOf(d)) /\ Len(MopQ') = Len(MopQ)
      /\ \A j \in 1 .. Len(MopQ) : MopQ'[j].id = MopQ[j].id /\ MopQ'[j].kind = MopQ[j].kind
    BY DEF SameMops
<1>3. /\ current_Mop' = current_Mop /\ consumed' = consumed
      /\ spec_mode' = spec_mode /\ diverged' = diverged /\ drain_pipeline' = drain_pipeline
      /\ jeclear_delay' = jeclear_delay /\ shadow_MopQ' = shadow_MopQ
      /\ handshake' = handshake /\ did_buffer' = did_buffer
      /\ buffer_result' = buffer_result
      /\ received' = received /\ retired' = retired /\ pc' = "back"
    BY DEF BackEnd, loopVars, flags
<1>4. num_non_spec_Mops' = n
    <2>1. Split(MopQ', n)
        BY Zenon DEF QueueSound
    <2> QED
        BY <2>1, <1>1, <1>2, CountedNext
<1>5. InPipe' = InPipe
    BY <1>2, <1>3 DEF InPipe
<1>6. TypeOK'
    <2>1. MopQ' \in Seq(Mop') /\ Len(MopQ') <= MopQ_size
        <3>1. Mop' = Mop
            BY <1>3 DEF Mop
        <3> QED
            BY <3>1, <1>1, <1>2
    <2> QED
        BY <2>1, <1>3 DEF IInv, TypeOK, BackEnd, ShadowMop
<1>7. Queue'
    BY <1>3, <1>4, <1>5 DEF Queue
<1>8. Shadow'
    <2>1. /\ n <= Len(shadow_MopQ)
          /\ \A j \in 1 .. n : MopQ[j].id = shadow_MopQ[j].id /\ MopQ[j].kind = shadow_MopQ[j].kind
          /\ n > 0 => Len(MopQ) <= n + shadow_MopQ[n].speculated
          /\ \A j \in 1 .. Len(shadow_MopQ) : shadow_MopQ[j].id = retired + j
        BY Zenon DEF IInv, Shadow, ShadowSound
    <2>2. \A j \in 1 .. n : MopQ'[j].id = shadow_MopQ[j].id /\ MopQ'[j].kind = shadow_MopQ[j].kind
        <3>1. \A j \in 1 .. n : j \in 1 .. Len(MopQ)
            BY <1>1
        <3> QED
            BY <3>1, <2>1, <1>2
    <2> QED
        BY <2>1, <2>2, <1>2, <1>3, <1>4, Zenon DEF Shadow, ShadowSound
<1>9. Numbered'
    BY <1>3 DEF IInv, Numbered, InHand, BackEnd
<1>10. Loop'
    BY <1>3 DEF IInv, Loop, BackEnd
<1>11. Behind'
    BY <1>5 DEF IInv, Behind
<1>12. HandshakeAvailable' /\ FeederReady'
    BY <1>3 DEF HandshakeAvailable, FeederReady
<1> QED
    BY <1>6, <1>7, <1>8, <1>9, <1>10, <1>11, <1>12 DEF IInv

(* Resolve, Nuke and MisSchedule: the next PC of Mop i is put right, and   *)
(* the recovery to it takes effect at once or goes into the pipe.          *)
LEMMA PipeRecoverStep ==
    ASSUME IInv, BackEnd, NEW i \in 1 .. InPipe,
           PipeRecover([MopQ EXCEPT ![i].br = "ok"], i)
    PROVE  IInv'
<1> DEFINE d == jeclear_delay
           n == num_non_spec_Mops
           r == [MopQ EXCEPT ![i].br = "ok"]
<1>1. /\ d \in Nat /\ MopQ \in Seq(MopOf(d)) /\ Len(MopQ) \in Nat
      /\ InPipe \in 0 .. Len(MopQ)
    BY Facts
<1>2. i \in 1 .. Len(MopQ)
    BY <1>1
<1>3. Retarget(r, MopQ, d, i, "ok")
    BY <1>1, <1>2, Retargeted
<1>4. QueueSound(MopQ, n, InPipe, spec_mode, diverged, drain_pipeline)
    BY DEF IInv, Queue
<1>5. CASE d = 0 /\ Recover(r, i)
    <2> HIDE DEF r
    <2>1. SameMops(r)
        BY <1>3, Zenon DEF Retarget, SameMops
    <2>2. Recoverable(r, n, InPipe, i, drain_pipeline)
        BY <1>1, <1>3, <1>4, RetargetRecoverable
    <2> QED
        BY <1>5, <2>1, <2>2, RecoverStep
<1>6. CASE d > 0 /\ MopQ' = JeclearEnqueue(r, i) /\ UNCHANGED <<flags, consumed>>
    <2>1. MopQ' = Enqueued(MopQ, i)
        BY <1>6 DEF JeclearEnqueue, InFirstStage, Enqueued
    <2>2. /\ MopQ' \in Seq(MopOf(d)) /\ Len(MopQ') = Len(MopQ)
          /\ \A j \in 1 .. Len(MopQ) : MopQ'[j].id = MopQ[j].id /\ MopQ'[j].kind = MopQ[j].kind
          /\ QueueSound(MopQ', n, InPipe, spec_mode, diverged, drain_pipeline)
        <3>1. /\ Enqueued(MopQ, i) \in Seq(MopOf(d))
              /\ Len(Enqueued(MopQ, i)) = Len(MopQ)
              /\ \A j \in 1 .. Len(MopQ) :
                    /\ Enqueued(MopQ, i)[j].id = MopQ[j].id
                    /\ Enqueued(MopQ, i)[j].kind = MopQ[j].kind
              /\ QueueSound(Enqueued(MopQ, i), n, InPipe, spec_mode, diverged, drain_pipeline)
            BY <1>1, <1>4, <1>6, EnqueueSound, Zenon
        <3> QED
            BY <2>1, <3>1, Zenon
    <2>3. SameMops(MopQ')
        BY <2>2 DEF SameMops
    <2> QED
        BY <2>2, <2>3, <1>6, KeepStep
<1> QED
    BY <1>5, <1>6 DEF PipeRecover

LEMMA PreFetchStep ==
    ASSUME IInv, PreFetch
    PROVE  IInv'
<1> DEFINE d == jeclear_delay
           n == num_non_spec_Mops
           q == [j \in DOMAIN MopQ |-> Advance(MopQ[j])]
           due == {j \in DOMAIN MopQ : jeclear_delay > 0 /\ MopQ[j].stage = jeclear_delay}
<1>1. /\ d \in Nat /\ MopQ \in Seq(MopOf(d)) /\ Len(MopQ) \in Nat
      /\ DOMAIN MopQ = 1 .. Len(MopQ) /\ InPipe \in 0 .. Len(MopQ)
    BY Facts
<1>2. Advanced(q, MopQ, d)
    BY <1>1, AdvancedMops
<1>3. QueueSound(MopQ, n, InPipe, spec_mode, diverged, drain_pipeline)
    BY DEF IInv, Queue
<1>4. BackEnd
    BY DEF PreFetch, BackEnd, history, IInv, TypeOK
<1>5. (\E i \in due : Recover(q, i)) \/ (due = {} /\ MopQ' = q /\ UNCHANGED <<flags, consumed>>)
    BY Zenon DEF PreFetch
<1> HIDE DEF q
<1>6. SameMops(q)
    BY <1>2, Zenon DEF Advanced, SameMops
<1>7. CASE \E i \in due : Recover(q, i)
    <2>1. PICK i \in due : Recover(q, i)
        BY <1>7
    <2>2. i \in 1 .. Len(MopQ) /\ d > 0 /\ MopQ[i].stage = d
        BY <2>1, <1>1
    <2>3. i \in 1 .. InPipe /\ Recoverable(q, n, InPipe, i, drain_pipeline)
        BY <2>2, <1>1, <1>2, <1>3, AdvanceRecoverable
    <2> QED
        BY <2>1, <2>3, <1>4, <1>6, RecoverStep
<1>8. CASE due = {} /\ MopQ' = q /\ UNCHANGED <<flags, consumed>>
    <2>1. \A j \in 1 .. Len(MopQ) : MopQ[j].stage # 0 => MopQ[j].stage # d
        <3>1. \A j \in 1 .. Len(MopQ) : ~(d > 0 /\ MopQ[j].stage = d)
            BY <1>1, <1>8
        <3> QED
            BY <3>1, <1>1
    <2>2. QueueSound(q, n, InPipe, spec_mode, diverged, drain_pipeline)
        BY <2>1, <1>1, <1>2, <1>3, AdvanceSound
    <2> QED
        BY <2>2, <1>4, <1>6, <1>8, KeepStep
<1> QED
    BY <1>5, <1>7, <1>8

LEMMA DecodeStep ==
    ASSUME IInv, Decode
    PROVE  IInv'
<1> DEFINE d == jeclear_delay
           n == num_non_spec_Mops
<1>1. PICK i \in DOMAIN MopQ, resteer \in BOOLEAN, b \in {"ok", "late"} : CheckTarget(i, resteer, b)
    BY Zenon DEF Decode
<1> DEFINE r == [MopQ EXCEPT ![i].br = b]
<1>2. /\ d \in Nat /\ MopQ \in Seq(MopOf(d)) /\ Len(MopQ) \in Nat
      /\ DOMAIN MopQ = 1 .. Len(MopQ) /\ InPipe \in 0 .. Len(MopQ)
      /\ Fetched = 1 .. InPipe
    BY Facts
<1>3. i \in 1 .. InPipe /\ i \in 1 .. Len(MopQ)
    BY <1>1, <1>2 DEF CheckTarget
<1>4. Retarget(r, MopQ, d, i, b)
    BY <1>2, <1>3, Retargeted
<1>5. QueueSound(MopQ, n, InPipe, spec_mode, diverged, drain_pipeline)
    BY DEF IInv, Queue
<1>6. BackEnd
    BY <1>1 DEF CheckTarget, BackEnd, history, IInv, TypeOK
<1>7. Recover(r, i) \/ (b = "late" /\ MopQ' = r /\ UNCHANGED <<flags, consumed>>)
    BY <1>1, Zenon DEF CheckTarget
<1> HIDE DEF r
<1>8. SameMops(r)
    BY <1>4, Zenon DEF Retarget, SameMops
<1>9. CASE Recover(r, i)
    <2>1. Recoverable(r, n, InPipe, i, drain_pipeline)
        BY <1>2, <1>3, <1>4, <1>5, RetargetRecoverable
    <2> QED
        BY <2>1, <1>3, <1>6, <1>8, <1>9, RecoverStep
<1>10. CASE b = "late" /\ MopQ' = r /\ UNCHANGED <<flags, consumed>>
    <2>1. b # "ok"
        BY <1>10
    <2>2. QueueSound(r, n, InPipe, spec_mode, diverged, drain_pipeline)
        BY <2>1, <1>2, <1>3, <1>4, <1>5, LateSound
    <2> QED
        BY <2>2, <1>6, <1>8, <1>10, KeepStep
<1> QED
    BY <1>7, <1>9, <1>10

(* Resolve, Nuke and MisSchedule.                                          *)
LEMMA ExecuteStep ==
    ASSUME IInv, NEW i \in DOMAIN MopQ, Resolve(i) \/ Nuke(i) \/ MisSchedule(i)
    PROVE  IInv'
<1>1. /\ jeclear_delay \in Nat /\ MopQ \in Seq(MopOf(jeclear_delay)) /\ Len(MopQ) \in Nat
      /\ DOMAIN MopQ = 1 .. Len(MopQ) /\ InPipe \in 0 .. Len(MopQ)
      /\ Fetched = 1 .. InPipe /\ MaxNukes \in Nat
    BY Facts
<1>2. nukes \in 0 .. MaxNukes
    BY DEF IInv, TypeOK
<1>3. CASE Resolve(i)
    <2>1. i \in 1 .. InPipe /\ PipeRecover([MopQ EXCEPT ![i].br = "ok"], i)
        BY <1>1, <1>3, Zenon DEF Resolve, Decoded
    <2>2. BackEnd
        BY <1>2, <1>3 DEF Resolve, BackEnd, history
    <2> QED
        BY <2>1, <2>2, PipeRecoverStep
<1>4. CASE Nuke(i)
    <2>1. i \in 1 .. InPipe /\ i > 1 /\ PipeRecover([MopQ EXCEPT ![i - 1].br = "ok"], i - 1)
        BY <1>1, <1>4, Zenon DEF Nuke, Decoded
    <2>2. i - 1 \in 1 .. InPipe
        BY <2>1, <1>1
    <2>3. BackEnd
        BY <1>1, <1>2, <1>4 DEF Nuke, BackEnd
    <2> QED
        BY <2>1, <2>2, <2>3, PipeRecoverStep
<1>5. CASE MisSchedule(i)
    <2>1. i \in 1 .. InPipe /\ MopQ[i].br = "ok" /\ PipeRecover(MopQ, i)
        BY <1>1, <1>5, Zenon DEF MisSchedule, Decoded
    <2>2. [MopQ EXCEPT ![i].br = "ok"] = MopQ
        <3>1. MopQ[i] \in MopOf(jeclear_delay)
            BY <1>1
        <3>2. [MopQ[i] EXCEPT !.br = "ok"] = MopQ[i]
            BY <2>1, <3>1 DEF MopOf
        <3> QED
            BY <3>2, <1>1
    <2>3. BackEnd
        BY <1>1, <1>2, <1>5 DEF MisSchedule, BackEnd
    <2>4. PipeRecover([MopQ EXCEPT ![i].br = "ok"], i)
        BY <2>1, <2>2
    <2> QED
        BY <2>1, <2>3, <2>4, PipeRecoverStep
<1> QED
    BY <1>3, <1>4, <1>5

(* Steps of the loop leave the MopQ alone.                                 *)
LEMMA SameQueue ==
    ASSUME IInv, UNCHANGED <<MopQ, flags, jeclear_delay>>
    PROVE  /\ num_non_spec_Mops' = num_non_spec_Mops /\ InPipe' = InPipe
           /\ Queue' /\ Behind'
           /\ MopQ' \in Seq(Mop') /\ Len(MopQ') <= MopQ_size
           /\ {spec_mode', drain_pipeline', current_Mop', diverged'} \subseteq BOOLEAN
           /\ jeclear_delay' \in Delays
           /\ can_exec' = can_exec
<1>1. /\ MopQ' = MopQ /\ spec_mode' = spec_mode /\ drain_pipeline' = drain_pipeline
      /\ current_Mop' = current_Mop /\ diverged' = diverged /\ jeclear_delay' = jeclear_delay
    BY DEF flags
<1>2. num_non_spec_Mops' = num_non_spec_Mops /\ InPipe' = InPipe
    BY <1>1 DEF num_non_spec_Mops, InPipe
<1>3. Queue' /\ Behind'
    BY <1>1, <1>2 DEF IInv, Queue, Behind
<1>4. Mop' = Mop
    BY <1>1 DEF Mop
<1>5. can_exec' = can_exec
    BY <1>1 DEF can_exec
<1>6. MopQ' \in Seq(Mop') /\ Len(MopQ') <= MopQ_size /\ jeclear_delay' \in Delays
    BY <1>1, <1>4 DEF IInv, TypeOK
<1>7. {spec_mode', drain_pipeline', current_Mop', diverged'} \subseteq BOOLEAN
    BY <1>1 DEF IInv, TypeOK
<1> QED
    BY <1>2, <1>3, <1>5, <1>6, <1>7

LEMMA DrainPipeStep ==
    ASSUME IInv, DrainPipe
    PROVE  IInv'
<1>1. /\ MopQ' = <<>> /\ shadow_MopQ' = <<>> /\ spec_mode' = FALSE /\ drain_pipeline' = FALSE
      /\ current_Mop' = FALSE /\ consumed' = TRUE /\ diverged' = FALSE
      /\ retired' = received /\ received' = received /\ nukes' = nukes
      /\ pc = "feeder" /\ pc' = pc /\ jeclear_delay' = jeclear_delay
      /\ handshake' = handshake /\ did_buffer' = did_buffer
      /\ buffer_result' = buffer_result
    BY DEF DrainPipe, loopVars
<1>2. /\ jeclear_delay \in Nat /\ MopQ_size \in Nat /\ Slots \in Nat
      /\ received \in Nat /\ MaxHandshakes \in Nat
    BY Facts
<1>3. Len(MopQ') = 0 /\ MopQ' \in Seq(MopOf(jeclear_delay)) /\ MopQ' \in Seq(Mop')
      /\ Len(shadow_MopQ') = 0 /\ shadow_MopQ' \in Seq(ShadowMop)
    BY <1>1
<1>4. \A j \in 1 .. 0 : FALSE
    OBVIOUS
<1>5. QueueSound(MopQ', 0, 0, FALSE, FALSE, FALSE)
    BY <1>3, <1>4 DEF QueueSound, Split, Marked, Arriving, TrapsLast, HasTrap
<1>6. num_non_spec_Mops' = 0
    <2>1. Split(MopQ', 0)
        BY <1>5, Zenon DEF QueueSound
    <2> QED
        BY <2>1, <1>2, <1>3, CountedNext
<1>7. InPipe' = 0
    BY <1>1, <1>3 DEF InPipe
<1>8. TypeOK'
    <2>1. received' \in 0 .. MaxHandshakes /\ retired' \in 0 .. received'
        BY <1>1, <1>2 DEF IInv, TypeOK
    <2>2. {spec_mode', drain_pipeline', current_Mop', consumed', diverged', did_buffer'} \subseteq BOOLEAN
        BY <1>1 DEF IInv, TypeOK
    <2>3. Len(MopQ') <= MopQ_size /\ Len(shadow_MopQ') <= MopQ_size
        BY <1>2, <1>3
    <2> QED
        BY <2>1, <2>2, <2>3, <1>1, <1>3 DEF IInv, TypeOK, ShadowMop
<1>9. Queue'
    BY <1>1, <1>5, <1>6, <1>7 DEF Queue
<1>10. Shadow'
    BY <1>3, <1>4, <1>6 DEF Shadow, ShadowSound
<1>11. Numbered'
    BY <1>1, <1>2, <1>3 DEF Numbered, InHand
<1>12. Loop'
    BY <1>1 DEF IInv, Loop
<1>13. Behind'
    BY <1>2, <1>7 DEF Behind
<1>14. HandshakeAvailable' /\ FeederReady'
    BY <1>1, <1>3, <1>6 DEF HandshakeAvailable, FeederReady, on_nuke_recovery_path
<1> QED
    BY <1>8, <1>9, <1>10, <1>11, <1>12, <1>13, <1>14 DEF IInv

LEMMA SimulateHandshakeStep ==
    ASSUME IInv, Slots < MopQ_size, NEW kind \in Kinds \ {"flush"}, SimulateHandshake(kind)
    PROVE  IInv'
<1>1. /\ MopQ' = MopQ /\ shadow_MopQ' = shadow_MopQ /\ consumed' = consumed
      /\ pc = "feeder" /\ pc' = "top" /\ did_buffer' = FALSE /\ buffer_result' = "ALL_GOOD"
      /\ retired' = retired /\ nukes' = nukes
      /\ kind # "spec" => received < MaxHandshakes
      /\ received' = IF kind = "spec" THEN received ELSE received + 1
      /\ handshake' = [id |-> IF kind = "spec" THEN 0 ELSE received + 1, kind |-> kind]
      /\ UNCHANGED <<MopQ, flags, jeclear_delay>>
    BY DEF SimulateHandshake
<1>2. /\ Len(MopQ) \in Nat /\ MopQ_size \in Nat /\ Slots \in Nat /\ InPipe <= Slots
      /\ ~current_Mop => InPipe = Len(MopQ)
      /\ received \in Nat /\ retired \in Nat /\ MaxHandshakes \in Nat
      /\ Len(shadow_MopQ) \in Nat
    BY Facts
<1>3. /\ num_non_spec_Mops' = num_non_spec_Mops
      /\ Queue' /\ Behind'
      /\ MopQ' \in Seq(Mop') /\ Len(MopQ') <= MopQ_size
      /\ {spec_mode', drain_pipeline', current_Mop', diverged'} \subseteq BOOLEAN
      /\ jeclear_delay' \in Delays
      /\ can_exec' = can_exec
    BY <1>1, SameQueue
<1>4. consumed /\ ~on_nuke_recovery_path /\ ~drain_pipeline /\ ~current_Mop
    BY <1>1 DEF IInv, FeederReady
<1>5. can_exec
    BY <1>2, <1>4 DEF can_exec
<1>6. ~on_nuke_recovery_path'
    BY <1>1, <1>3, <1>4 DEF on_nuke_recovery_path
<1>7. kind \in {"insn", "trap", "spec"}
    BY OracleAssumption
<1>8. TypeOK'
    <2>1. handshake' \in [id : 0 .. MaxHandshakes, kind : {"insn", "trap", "spec"}]
        BY <1>1, <1>2, <1>7
    <2>2. received' \in 0 .. MaxHandshakes /\ retired' \in 0 .. received'
        BY <1>1, <1>2 DEF IInv, TypeOK
    <2>3. {spec_mode', drain_pipeline', current_Mop', consumed', diverged', did_buffer'} \subseteq BOOLEAN
        BY <1>1, <1>3 DEF IInv, TypeOK
    <2> QED
        BY <2>1, <2>2, <2>3, <1>1, <1>3 DEF IInv, TypeOK, ShadowMop
<1>9. Shadow'
    BY <1>1, <1>3 DEF IInv, Shadow
<1>10. Numbered'
    <2>1. retired + Len(shadow_MopQ) = received
        BY <1>1 DEF IInv, Numbered, InHand
    <2>2. handshake'.kind = kind /\ (kind # "spec" => handshake'.id = received + 1)
        BY <1>1
    <2> QED
        BY <2>1, <2>2, <1>1, <1>2 DEF Numbered, InHand
<1>11. Loop'
    <2>1. ~current_Mop'
        BY <1>1, <1>4 DEF flags
    <2> QED
        BY <2>1, <1>1, <1>3, <1>5, <1>6 DEF Loop
<1>12. HandshakeAvailable' /\ FeederReady'
    BY <1>1 DEF HandshakeAvailable, FeederReady
<1> QED
    BY <1>3, <1>8, <1>9, <1>10, <1>11, <1>12 DEF IInv

LEMMA SkipBufferStep ==
    ASSUME IInv, SkipBuffer
    PROVE  IInv'
<1>1. /\ MopQ' = MopQ /\ shadow_MopQ' = shadow_MopQ /\ consumed' = FALSE
      /\ pc = "top" /\ pc' = "fetch" /\ ~WantsHandshake
      /\ handshake' = handshake /\ did_buffer' = did_buffer
      /\ buffer_result' = buffer_result
      /\ received' = received /\ retired' = retired /\ nukes' = nukes
      /\ UNCHANGED <<MopQ, flags, jeclear_delay>>
    BY DEF SkipBuffer, loopVars, history
<1>2. /\ Len(MopQ) \in Nat /\ Len(shadow_MopQ) \in Nat
      /\ num_non_spec_Mops \in Nat /\ num_non_spec_Mops <= Len(MopQ)
      /\ spec_mode <=> Len(MopQ) > num_non_spec_Mops
    BY Facts
<1>3. /\ num_non_spec_Mops' = num_non_spec_Mops
      /\ Queue' /\ Behind'
      /\ MopQ' \in Seq(Mop') /\ Len(MopQ') <= MopQ_size
      /\ {spec_mode', drain_pipeline', current_Mop', diverged'} \subseteq BOOLEAN
      /\ jeclear_delay' \in Delays
      /\ can_exec' = can_exec
    BY <1>1, SameQueue
<1>4. TypeOK'
    BY <1>1, <1>3 DEF IInv, TypeOK, ShadowMop
<1>5. Shadow'
    BY <1>1, <1>3 DEF IInv, Shadow
<1>6. Numbered'
    BY <1>1 DEF IInv, Numbered, InHand
<1>7. Loop'
    BY <1>1 DEF IInv, Loop, WantsHandshake
<1>8. ASSUME can_exec PROVE on_nuke_recovery_path
    BY <1>1, <1>8 DEF IInv, Loop, WantsHandshake, can_exec
<1>9. HandshakeAvailable'
    <2> SUFFICES ASSUME can_exec'
                 PROVE  IF ExecSpec'
                        THEN num_non_spec_Mops' > 0 /\ on_nuke_recovery_path'
                        ELSE Len(MopQ') < Len(shadow_MopQ')
        BY <1>1 DEF HandshakeAvailable
    <2>1. Len(shadow_MopQ) > num_non_spec_Mops
        BY <1>3, <1>8 DEF on_nuke_recovery_path
    <2>2. ExecSpec' <=> spec_mode \/ diverged
        BY <1>1 DEF ExecSpec, flags
    <2>3. CASE spec_mode \/ diverged
        <3>1. Excused(MopQ, num_non_spec_Mops)
            BY <2>3, Zenon DEF IInv, Queue, QueueSound
        <3> QED
            BY <2>1, <2>2, <2>3, <3>1, <1>1, <1>3 DEF Excused, on_nuke_recovery_path
    <2>4. CASE ~(spec_mode \/ diverged)
        BY <2>1, <2>2, <2>4, <1>1, <1>2
    <2> QED
        BY <2>3, <2>4
<1>10. FeederReady'
    BY <1>1 DEF FeederReady
<1> QED
    BY <1>3, <1>4, <1>5, <1>6, <1>7, <1>9, <1>10 DEF IInv

LEMMA StallStep ==
    ASSUME IInv, Slots < MopQ_size, Stall
    PROVE  IInv'
<1>1. /\ MopQ' = MopQ /\ shadow_MopQ' = shadow_MopQ /\ consumed' = consumed
      /\ pc = "fetch" /\ pc' = "post" /\ ~can_exec
      /\ handshake' = handshake /\ did_buffer' = did_buffer
      /\ buffer_result' = buffer_result
      /\ received' = received /\ retired' = retired /\ nukes' = nukes
      /\ UNCHANGED <<MopQ, flags, jeclear_delay>>
    BY DEF Stall, loopVars, history
<1>2. /\ Len(MopQ) \in Nat /\ MopQ_size \in Nat /\ Slots \in Nat /\ InPipe <= Slots
      /\ ~current_Mop => InPipe = Len(MopQ)
    BY Facts
<1>3. /\ num_non_spec_Mops' = num_non_spec_Mops
      /\ Queue' /\ Behind'
      /\ MopQ' \in Seq(Mop') /\ Len(MopQ') <= MopQ_size
      /\ {spec_mode', drain_pipeline', current_Mop', diverged'} \subseteq BOOLEAN
      /\ jeclear_delay' \in Delays
    BY <1>1, SameQueue
<1>4. current_Mop \/ drain_pipeline
    BY <1>1, <1>2 DEF can_exec
<1>5. TypeOK'
    BY <1>1, <1>3 DEF IInv, TypeOK, ShadowMop
<1>6. Shadow'
    BY <1>1, <1>3 DEF IInv, Shadow
<1>7. Numbered'
    BY <1>1 DEF IInv, Numbered, InHand
<1>8. Loop'
    BY <1>1, <1>4 DEF IInv, Loop, flags
<1>9. HandshakeAvailable' /\ FeederReady'
    BY <1>1 DEF HandshakeAvailable, FeederReady
<1> QED
    BY <1>3, <1>5, <1>6, <1>7, <1>8, <1>9 DEF IInv

LEMMA EndCycleStep ==
    ASSUME IInv, EndCycle
    PROVE  IInv'
<1>1. /\ MopQ' = MopQ /\ shadow_MopQ' = shadow_MopQ /\ consumed' = consumed
      /\ pc = "back" /\ pc' = IF StaysInLoop THEN "top" ELSE "feeder"
      /\ handshake' = handshake /\ did_buffer' = did_buffer
      /\ buffer_result' = buffer_result
      /\ received' = received /\ retired' = retired /\ nukes' = nukes
      /\ UNCHANGED <<MopQ, flags, jeclear_delay>>
    BY DEF EndCycle, loopVars, history
<1>2. /\ num_non_spec_Mops' = num_non_spec_Mops
      /\ Queue' /\ Behind'
      /\ MopQ' \in Seq(Mop') /\ Len(MopQ') <= MopQ_size
      /\ {spec_mode', drain_pipeline', current_Mop', diverged'} \subseteq BOOLEAN
      /\ jeclear_delay' \in Delays
    BY <1>1, SameQueue
<1>3. on_nuke_recovery_path' <=> on_nuke_recovery_path
    BY <1>1, <1>2 DEF on_nuke_recovery_path
<1>4. /\ current_Mop' = current_Mop /\ drain_pipeline' = drain_pipeline
      /\ buffer_result \in {"ALL_GOOD", "HANDSHAKE_NOT_CONSUMED"}
    BY <1>1 DEF flags, IInv, TypeOK
<1>5. TypeOK'
    BY <1>1, <1>2 DEF IInv, TypeOK, ShadowMop
<1>6. Shadow'
    BY <1>1, <1>2 DEF IInv, Shadow
<1>7. CASE StaysInLoop
    <2>1. pc' = "top"
        BY <1>1, <1>7
    <2>2. Numbered'
        BY <2>1, <1>1 DEF IInv, Numbered, InHand
    <2>3. Loop'
        BY <2>1, <1>1, <1>3, <1>4, <1>7 DEF IInv, Loop, StaysInLoop
    <2>4. HandshakeAvailable' /\ FeederReady'
        BY <2>1 DEF HandshakeAvailable, FeederReady
    <2> QED
        BY <2>2, <2>3, <2>4, <1>2, <1>5, <1>6 DEF IInv
<1>8. CASE ~StaysInLoop
    <2>1. pc' = "feeder"
        BY <1>1, <1>8
    <2>2. did_buffer /\ consumed /\ ~on_nuke_recovery_path /\ ~drain_pipeline /\ ~current_Mop
        BY <1>1, <1>4, <1>8 DEF IInv, Loop, StaysInLoop
    <2>3. Numbered'
        BY <2>1, <2>2, <1>1 DEF IInv, Numbered, InHand
    <2>4. Loop'
        BY <2>1, <2>2, <1>1, <1>4 DEF IInv, Loop
    <2>5. HandshakeAvailable' /\ FeederReady'
        BY <2>1, <2>2, <1>1, <1>3, <1>4 DEF HandshakeAvailable, FeederReady
    <2> QED
        BY <2>3, <2>4, <2>5, <1>2, <1>5, <1>6 DEF IInv
<1> QED
    BY <1>7, <1>8

(* The three ways in which buffer_handshake() can end.                     *)
LEMMA BufferStep ==
    ASSUME IInv, Buffer
    PROVE  IInv'
<1> DEFINE n == num_non_spec_Mops
           s == shadow_MopQ
<1>1. /\ MopQ' = MopQ /\ pc = "top" /\ handshake' = handshake
      /\ ~did_buffer /\ ~on_nuke_recovery_path /\ can_exec
      /\ received' = received /\ retired' = retired /\ nukes' = nukes
      /\ UNCHANGED <<MopQ, flags, jeclear_delay>>
      /\ current_Mop' = current_Mop /\ spec_mode' = spec_mode /\ diverged' = diverged
      /\ drain_pipeline' = drain_pipeline
    BY DEF Buffer, history, flags, WantsHandshake
<1>2. /\ Len(MopQ) \in Nat /\ MopQ_size \in Nat \ {0}
      /\ s \in Seq(ShadowMop) /\ Len(s) \in Nat /\ DOMAIN s = 1 .. Len(s)
      /\ n \in Nat /\ n <= Len(MopQ) /\ n <= Len(s)
      /\ spec_mode <=> Len(MopQ) > n
      /\ received \in Nat /\ retired \in Nat /\ MaxHandshakes \in Nat
    BY Facts
<1>3. /\ num_non_spec_Mops' = n
      /\ Queue' /\ Behind'
      /\ MopQ' \in Seq(Mop') /\ Len(MopQ') <= MopQ_size
      /\ {spec_mode', drain_pipeline', current_Mop', diverged'} \subseteq BOOLEAN
      /\ jeclear_delay' \in Delays
    BY <1>1, SameQueue
<1>4. Len(s) = n
    <2>1. ~(Len(s) > n)
        BY <1>1 DEF on_nuke_recovery_path
    <2>2. \A a, b \in Nat : ~(a > b) /\ b <= a => a = b
        OBVIOUS
    <2> QED
        BY <2>1, <2>2, <1>2, Zenon
<1>5. ~current_Mop /\ ~drain_pipeline /\ Len(MopQ) < MopQ_size
    BY <1>1 DEF can_exec
<1>6. /\ \A j \in 1 .. n : MopQ[j].id = s[j].id /\ MopQ[j].kind = s[j].kind
      /\ n > 0 => Len(MopQ) <= n + s[n].speculated
      /\ \A j \in 1 .. Len(s) : s[j].id = retired + j
    BY Zenon DEF IInv, Shadow, ShadowSound
<1>7. CASE \E fits \in BOOLEAN : BufferSpeculative(fits)
    <2>1. PICK fits \in BOOLEAN : BufferSpeculative(fits)
        BY <1>7
    <2>2. /\ spec_mode \/ diverged
          /\ fits => handshake.kind = "spec"
          /\ shadow_MopQ' = [s EXCEPT ![Len(s)].speculated =
                                IF @ < MopQ_size THEN @ + 1 ELSE @]
          /\ did_buffer' = fits
          /\ buffer_result' = IF fits THEN "ALL_GOOD" ELSE "HANDSHAKE_NOT_CONSUMED"
          /\ consumed' = FALSE /\ pc' = "fetch"
        BY <2>1 DEF BufferSpeculative
    <2>3. n > 0
        <3>1. Excused(MopQ, n)
            BY <2>2, Zenon DEF IInv, Queue, QueueSound
        <3> QED
            BY <3>1 DEF Excused
    <2>4. n \in 1 .. Len(s) /\ s[n] \in ShadowMop /\ s[n].speculated \in 0 .. MopQ_size
        <3>1. n \in 1 .. Len(s)
            BY <2>3, <1>2, <1>4
        <3>2. s[n] \in ShadowMop
            BY <3>1, <1>2
        <3> QED
            BY <3>1, <3>2 DEF ShadowMop
    <2> DEFINE v == IF s[n].speculated < MopQ_size THEN s[n].speculated + 1 ELSE s[n].speculated
               e == [s[n] EXCEPT !.speculated = v]
    <2>5. /\ e \in ShadowMop /\ e.id = s[n].id /\ e.kind = s[n].kind
          /\ e.speculated = IF s[n].speculated < MopQ_size THEN s[n].speculated + 1 ELSE s[n].speculated
        <3>1. v \in 0 .. MopQ_size
            BY <2>4, <1>2
        <3> HIDE DEF v
        <3>2. e \in ShadowMop /\ e.id = s[n].id /\ e.kind = s[n].kind /\ e.speculated = v
            BY <3>1, <2>4 DEF ShadowMop
        <3> QED
            BY <3>2 DEF v
    <2>6. shadow_MopQ' = [s EXCEPT ![n] = e]
        BY <2>2, <2>4, <1>4
    <2> HIDE DEF e
    <2>7. /\ shadow_MopQ' \in Seq(ShadowMop) /\ Len(shadow_MopQ') = Len(s)
          /\ \A j \in 1 .. Len(s) : shadow_MopQ'[j] = IF j = n THEN e ELSE s[j]
        BY <2>4, <2>5, <2>6, <1>2
    <2>8. shadow_MopQ'[n].speculated = e.speculated
        BY <2>4, <2>7
    <2>9. Len(MopQ) - n < e.speculated
        BY <2>3, <2>4, <2>5, <1>2, <1>5, <1>6
    <2>10. \A j \in 1 .. Len(s) : shadow_MopQ'[j].id = s[j].id /\ shadow_MopQ'[j].kind = s[j].kind
        BY <2>5, <2>7
    <2>11. TypeOK'
        BY <2>2, <2>7, <1>1, <1>3 DEF IInv, TypeOK, ShadowMop
    <2>12. Shadow'
        <3>1. \A j \in 1 .. n : j \in 1 .. Len(s)
            BY <1>4
        <3>2. \A j \in 1 .. n : MopQ'[j].id = shadow_MopQ'[j].id /\ MopQ'[j].kind = shadow_MopQ'[j].kind
            BY <3>1, <2>10, <1>1, <1>6
        <3>3. n <= Len(shadow_MopQ') /\ Len(MopQ') <= n + shadow_MopQ'[n].speculated
            BY <2>4, <2>5, <2>7, <2>8, <2>9, <1>1, <1>2
        <3>4. \A j \in 1 .. Len(shadow_MopQ') : shadow_MopQ'[j].id = retired + j
            BY <2>7, <2>10, <1>6
        <3> QED
            BY <3>2, <3>3, <3>4, <1>1, <1>3, Zenon DEF Shadow, ShadowSound
    <2>13. Numbered'
        BY <2>2, <2>7, <1>1 DEF IInv, Numbered, InHand
    <2>14. Loop'
        BY <2>2, <1>1, <1>5 DEF IInv, Loop
    <2>15. HandshakeAvailable'
        <3>1. ExecSpec'
            BY <2>2, <1>1 DEF ExecSpec
        <3>2. SpecDepth' = Len(MopQ) - n
            BY <1>1, <1>3 DEF SpecDepth
        <3>3. SpecDepth' < shadow_MopQ'[num_non_spec_Mops'].speculated
            BY <3>2, <2>8, <2>9, <1>3
        <3> QED
            BY <3>1, <3>3, <2>3, <1>3 DEF HandshakeAvailable
    <2>16. FeederReady'
        BY <2>2 DEF FeederReady
    <2> QED
        BY <2>11, <2>12, <2>13, <2>14, <2>15, <2>16, <1>3 DEF IInv
<1>8. CASE BufferHandshake
    <2> DEFINE e == [id |-> handshake.id, kind |-> handshake.kind, speculated |-> 0]
    <2>1. /\ ~spec_mode /\ ~diverged /\ handshake.kind # "spec"
          /\ shadow_MopQ' = Append(s, e)
          /\ did_buffer' = TRUE /\ buffer_result' = "ALL_GOOD"
          /\ consumed' = FALSE /\ pc' = "fetch"
        BY <1>8 DEF BufferHandshake
    <2>2. handshake.id = received /\ retired + Len(s) + 1 = received
        BY <2>1, <1>1 DEF IInv, Numbered, InHand
    <2>3. /\ handshake.kind \in {"insn", "trap"} /\ received \in 1 .. MaxHandshakes
        BY <2>1, <2>2, <1>2 DEF IInv, TypeOK
    <2>4. e \in ShadowMop /\ e.id = received /\ e.kind = handshake.kind /\ e.speculated = 0
        BY <2>2, <2>3, <1>2 DEF ShadowMop
    <2> HIDE DEF e
    <2>5. /\ shadow_MopQ' \in Seq(ShadowMop) /\ Len(shadow_MopQ') = Len(s) + 1
          /\ shadow_MopQ'[Len(s) + 1] = e
          /\ \A j \in 1 .. Len(s) : shadow_MopQ'[j] = s[j]
          /\ \A j \in 1 .. Len(s) + 1 : j \in 1 .. Len(s) \/ j = Len(s) + 1
        BY <2>1, <2>4, <1>2, Added
    <2>6. Len(MopQ) = n
        BY <2>1, <1>2
    <2>7. TypeOK'
        <3>1. Len(shadow_MopQ') <= MopQ_size
            BY <2>5, <2>6, <1>2, <1>4, <1>5
        <3> QED
            BY <3>1, <2>1, <2>5, <1>1, <1>3 DEF IInv, TypeOK, ShadowMop
    <2>8. Shadow'
        <3>1. \A j \in 1 .. n : shadow_MopQ'[j] = s[j]
            BY <2>5, <1>4
        <3>2. \A j \in 1 .. n : MopQ'[j].id = shadow_MopQ'[j].id /\ MopQ'[j].kind = shadow_MopQ'[j].kind
            BY <3>1, <1>1, <1>6
        <3>3. n > 0 => Len(MopQ') <= n + shadow_MopQ'[n].speculated
            <4>1. ASSUME n > 0 PROVE shadow_MopQ'[n] = s[n]
                BY <4>1, <3>1, <1>2
            <4> QED
                BY <4>1, <1>1, <1>6
        <3>4. \A j \in 1 .. Len(shadow_MopQ') : shadow_MopQ'[j].id = retired + j
            BY <2>2, <2>4, <2>5, <1>2, <1>6
        <3>5. n <= Len(shadow_MopQ')
            BY <2>5, <1>2
        <3> QED
            BY <3>2, <3>3, <3>4, <3>5, <1>1, <1>3, Zenon DEF Shadow, ShadowSound
    <2>9. Numbered'
        BY <2>1, <2>2, <2>5, <1>1, <1>2 DEF Numbered, InHand
    <2>10. Loop'
        BY <2>1, <1>1, <1>5 DEF IInv, Loop
    <2>11. HandshakeAvailable'
        <3>1. ~ExecSpec'
            BY <2>1, <1>1 DEF ExecSpec
        <3>2. Len(MopQ') < Len(shadow_MopQ')
            BY <2>5, <2>6, <1>1, <1>2, <1>4
        <3> QED
            BY <3>1, <3>2 DEF HandshakeAvailable
    <2>12. FeederReady'
        BY <2>1 DEF FeederReady
    <2> QED
        BY <2>7, <2>8, <2>9, <2>10, <2>11, <2>12, <1>3 DEF IInv
<1>9. CASE DropHandshake
    <2>1. /\ ~spec_mode /\ ~diverged /\ handshake.kind = "spec"
          /\ consumed' = TRUE /\ pc' = "feeder" /\ shadow_MopQ' = s
          /\ did_buffer' = did_buffer /\ buffer_result' = buffer_result
        BY <1>9 DEF DropHandshake
    <2>2. TypeOK'
        BY <2>1, <1>1, <1>3 DEF IInv, TypeOK, ShadowMop
    <2>3. Shadow'
        BY <2>1, <1>1, <1>3 DEF IInv, Shadow
    <2>4. Numbered'
        BY <2>1, <1>1 DEF IInv, Numbered, InHand
    <2>5. Loop'
        BY <2>1, <1>1, <1>5 DEF IInv, Loop
    <2>6. HandshakeAvailable' /\ FeederReady'
        BY <2>1, <1>1, <1>3, <1>5 DEF HandshakeAvailable, FeederReady, on_nuke_recovery_path
    <2> QED
        BY <2>2, <2>3, <2>4, <2>5, <2>6, <1>3 DEF IInv
<1> QED
    BY <1>7, <1>8, <1>9, Zenon DEF Buffer

(* A Mop that exec() makes.                                                *)
LEMMA NewMops ==
    ASSUME NEW d \in Nat, NEW id \in 0 .. MaxHandshakes,
           NEW kind \in {"insn", "trap", "spec"}
    PROVE  /\ NewMop(id, kind) \in MopOf(d)
           /\ NewMop(id, kind).id = id /\ NewMop(id, kind).kind = kind
           /\ NewMop(id, kind).stage = 0 /\ ~NewMop(id, kind).jeclear_in_flight
<1>1. 0 \in 0 .. d /\ FALSE \in BOOLEAN
    OBVIOUS
<1>2. NewMop(id, kind) \in MopOf(d)
    BY <1>1, Zenon DEF NewMop, MopOf
<1> QED
    BY <1>2 DEF NewMop

LEMMA ExecStep ==
    ASSUME IInv, Exec
    PROVE  IInv'
<1> DEFINE d == jeclear_delay
           n == num_non_spec_Mops
           s == shadow_MopQ
           l == Len(MopQ)
           m == ShadowedMop
<1>1. /\ pc = "fetch" /\ can_exec /\ MopQ' = Append(MopQ, m)
      /\ shadow_MopQ' = IF ExecSpec
                        THEN [s EXCEPT ![n] = GrowSpeculated(@, SpecDepth + 1)]
                        ELSE s
      /\ spec_mode' = ExecSpec /\ current_Mop' = TRUE
      /\ drain_pipeline' = drain_pipeline /\ diverged' = diverged
      /\ consumed' = consumed /\ pc' = pc /\ jeclear_delay' = jeclear_delay
      /\ handshake' = handshake /\ did_buffer' = did_buffer
      /\ buffer_result' = buffer_result
      /\ received' = received /\ retired' = retired /\ nukes' = nukes
    BY DEF Exec, loopVars, history
<1>2. ~current_Mop /\ drain_pipeline = FALSE /\ l < MopQ_size
    BY <1>1 DEF can_exec, IInv, TypeOK
<1>3. /\ d \in Nat /\ Mop = MopOf(d) /\ MopQ \in Seq(MopOf(d)) /\ l \in Nat
      /\ s \in Seq(ShadowMop) /\ Len(s) \in Nat
      /\ n \in Nat /\ n <= l /\ n <= Len(s)
      /\ MopQ_size \in Nat /\ Slots \in Nat /\ MaxHandshakes \in Nat /\ InPipe <= Slots
      /\ ~current_Mop => InPipe = l
    BY Facts
<1>4. QueueSound(MopQ, n, l, spec_mode, diverged, FALSE)
    BY <1>2, <1>3 DEF IInv, Queue
<1>5. /\ \A j \in 1 .. n : MopQ[j].id = s[j].id /\ MopQ[j].kind = s[j].kind
      /\ n > 0 => l <= n + s[n].speculated
      /\ \A j \in 1 .. Len(s) : s[j].id = retired + j
    BY Zenon DEF IInv, Shadow, ShadowSound
<1>6. Mop' = Mop
    BY <1>1 DEF Mop
<1>7. {spec_mode, diverged, did_buffer, consumed} \subseteq BOOLEAN
    BY DEF IInv, TypeOK
<1>8. ASSUME m \in MopOf(d)
      PROVE  /\ MopQ' \in Seq(MopOf(d)) /\ Len(MopQ') = l + 1 /\ MopQ'[l + 1] = m
             /\ \A j \in 1 .. l : MopQ'[j] = MopQ[j]
             /\ InPipe' = l /\ Behind'
             /\ \A t : QueueSound(MopQ', t, l, spec_mode', diverged', FALSE) =>
                          num_non_spec_Mops' = t /\ Queue'
    <2> HIDE DEF m
    <2>1. /\ MopQ' \in Seq(MopOf(d)) /\ Len(MopQ') = l + 1 /\ MopQ'[l + 1] = m
          /\ \A j \in 1 .. l : MopQ'[j] = MopQ[j]
        BY <1>1, <1>3, <1>8, Added
    <2>2. InPipe' = l
        BY <2>1, <1>1, <1>3 DEF InPipe
    <2>3. Behind'
        BY <2>2, <1>2, <1>3 DEF Behind
    <2>4. ASSUME NEW t, QueueSound(MopQ', t, l, spec_mode', diverged', FALSE)
          PROVE  num_non_spec_Mops' = t /\ Queue'
        <3>1. Split(MopQ', t)
            BY <2>4, Zenon DEF QueueSound
        <3>2. num_non_spec_Mops' = t
            BY <3>1, <2>1, <1>3, CountedNext
        <3>3. drain_pipeline' = FALSE
            BY <1>1, <1>2
        <3> QED
            BY <3>2, <3>3, <2>2, <2>4 DEF Queue
    <2> QED
        BY <2>1, <2>2, <2>3, <2>4
<1>9. Loop' /\ HandshakeAvailable' /\ FeederReady'
    BY <1>1 DEF IInv, Loop, HandshakeAvailable, FeederReady, can_exec
<1>10. CASE ExecSpec
    <2>1. m = NewMop(0, "spec")
        BY <1>10 DEF ShadowedMop
    <2>2. m \in MopOf(d) /\ IsSpec(m) /\ m.stage = 0 /\ ~m.jeclear_in_flight
        <3>1. 0 \in 0 .. MaxHandshakes
            BY <1>3
        <3> QED
            BY <3>1, <2>1, <1>3, NewMops DEF IsSpec
    <2> HIDE DEF m
    <2>3. /\ Len(MopQ') = l + 1
          /\ \A j \in 1 .. l : MopQ'[j] = MopQ[j]
          /\ MopQ' \in Seq(MopOf(d)) /\ Behind'
        BY <2>2, <1>8
    <2>4. spec_mode \/ diverged
        BY <1>10 DEF ExecSpec
    <2>5. spec_mode' = TRUE
        BY <2>4, <1>1, <1>7 DEF ExecSpec
    <2>6. QueueSound(MopQ', n, l, spec_mode', diverged', FALSE)
        <3>1. QueueSound(Append(MopQ, m), n, l, TRUE, diverged, FALSE)
            BY <2>2, <2>4, <1>3, <1>4, ExecSpecSound
        <3> QED
            BY <3>1, <2>5, <1>1
    <2>7. num_non_spec_Mops' = n /\ Queue'
        BY <2>2, <2>6, <1>8
    <2>8. n > 0
        <3>1. Excused(MopQ, n)
            BY <2>4, <1>4, Zenon DEF QueueSound
        <3> QED
            BY <3>1 DEF Excused
    <2> DEFINE k == l - n + 1
               e == GrowSpeculated(s[n], k)
    <2>9. k \in 0 .. MopQ_size /\ n \in 1 .. Len(s)
        BY <2>8, <1>2, <1>3
    <2>10. s[n] \in ShadowMop /\ s[n].speculated \in 0 .. MopQ_size
        <3>1. s[n] \in ShadowMop
            BY <2>9, <1>3
        <3> QED
            BY <3>1 DEF ShadowMop
    <2>11. shadow_MopQ' = [s EXCEPT ![n] = e]
        BY <2>9, <1>1, <1>3, <1>10 DEF SpecDepth
    <2> HIDE DEF k
    <2>12. e \in ShadowMop /\ e.id = s[n].id /\ e.kind = s[n].kind /\ k <= e.speculated
        <3>1. CASE s[n].speculated < k
            <4>1. e = [s[n] EXCEPT !.speculated = k]
                BY <3>1 DEF GrowSpeculated
            <4> QED
                BY <4>1, <2>9, <2>10 DEF ShadowMop
        <3>2. CASE ~(s[n].speculated < k)
            <4>1. e = s[n]
                BY <3>2 DEF GrowSpeculated
            <4> QED
                BY <4>1, <3>2, <2>9, <2>10, <1>3
        <3> QED
            BY <3>1, <3>2
    <2> HIDE DEF e
    <2>13. /\ shadow_MopQ' \in Seq(ShadowMop) /\ Len(shadow_MopQ') = Len(s)
           /\ \A j \in 1 .. Len(s) : shadow_MopQ'[j] = IF j = n THEN e ELSE s[j]
        BY <2>9, <2>11, <2>12, <1>3
    <2>14. \A j \in 1 .. Len(s) : shadow_MopQ'[j].id = s[j].id /\ shadow_MopQ'[j].kind = s[j].kind
        BY <2>12, <2>13
    <2>15. TypeOK'
        <3>1. Len(MopQ') <= MopQ_size /\ MopQ' \in Seq(Mop')
            BY <2>3, <1>2, <1>3, <1>6
        <3>2. {spec_mode', drain_pipeline', current_Mop', consumed', diverged', did_buffer'} \subseteq BOOLEAN
            BY <2>5, <1>1, <1>2, <1>7
        <3> QED
            BY <3>1, <3>2, <2>13, <1>1 DEF IInv, TypeOK, ShadowMop
    <2>16. Shadow'
        <3>1. \A j \in 1 .. n : j \in 1 .. Len(s) /\ j \in 1 .. l
            BY <1>3
        <3>2. \A j \in 1 .. n : MopQ'[j].id = shadow_MopQ'[j].id /\ MopQ'[j].kind = shadow_MopQ'[j].kind
            BY <3>1, <2>3, <2>14, <1>5
        <3>3. n <= Len(shadow_MopQ') /\ shadow_MopQ'[n].speculated = e.speculated
            BY <2>9, <2>13, <1>3
        <3>4. Len(MopQ') <= n + e.speculated
            <4>1. e.speculated \in Nat
                BY <2>12, <1>3 DEF ShadowMop
            <4> QED
                BY <4>1, <2>3, <2>12, <1>3 DEF k
        <3>5. \A j \in 1 .. Len(shadow_MopQ') : shadow_MopQ'[j].id = retired + j
            BY <2>13, <2>14, <1>5
        <3> QED
            BY <3>2, <3>3, <3>4, <3>5, <2>7, <1>1, Zenon DEF Shadow, ShadowSound
    <2>17. Numbered'
        BY <2>13, <1>1 DEF IInv, Numbered, InHand
    <2> QED
        BY <2>3, <2>7, <2>15, <2>16, <2>17, <1>9 DEF IInv
<1>11. CASE ~ExecSpec
    <2>1. spec_mode = FALSE /\ diverged = FALSE
        BY <1>7, <1>11 DEF ExecSpec
    <2>2. l < Len(s)
        BY <1>1, <1>11 DEF IInv, HandshakeAvailable
    <2>3. m = NewMop(s[l + 1].id, s[l + 1].kind)
        BY <1>11 DEF ShadowedMop
    <2>4. s[l + 1] \in ShadowMop /\ l + 1 \in 1 .. Len(s)
        BY <2>2, <1>3
    <2>5. /\ s[l + 1].id \in 0 .. MaxHandshakes /\ s[l + 1].kind \in {"insn", "trap"}
          /\ s[l + 1].speculated \in Nat
        BY <2>4, <1>3 DEF ShadowMop
    <2>6. /\ m \in MopOf(d) /\ ~IsSpec(m) /\ m.stage = 0 /\ ~m.jeclear_in_flight
          /\ m.id = s[l + 1].id /\ m.kind = s[l + 1].kind
        <3>1. s[l + 1].kind \in {"insn", "trap", "spec"}
            BY <2>5
        <3> QED
            BY <3>1, <2>3, <2>5, <1>3, NewMops DEF IsSpec
    <2> HIDE DEF m
    <2>7. /\ Len(MopQ') = l + 1 /\ MopQ'[l + 1] = m
          /\ \A j \in 1 .. l : MopQ'[j] = MopQ[j]
          /\ MopQ' \in Seq(MopOf(d)) /\ Behind'
        BY <2>6, <1>8
    <2>8. spec_mode' = FALSE /\ diverged' = FALSE
        BY <2>1, <1>1 DEF ExecSpec
    <2>9. n = l /\ QueueSound(MopQ', n + 1, l, spec_mode', diverged', FALSE)
        <3>1. QueueSound(MopQ, n, l, FALSE, FALSE, FALSE)
            BY <2>1, <1>4
        <3>2. n = l /\ QueueSound(Append(MopQ, m), n + 1, l, FALSE, FALSE, FALSE)
            BY <3>1, <2>6, <1>3, ExecSound
        <3> QED
            BY <3>2, <2>8, <1>1
    <2>10. num_non_spec_Mops' = n + 1 /\ Queue'
        BY <2>6, <2>9, <1>8
    <2>11. shadow_MopQ' = s
        BY <1>1, <1>11
    <2>12. TypeOK'
        <3>1. Len(MopQ') <= MopQ_size /\ MopQ' \in Seq(Mop')
            BY <2>7, <1>2, <1>3, <1>6
        <3>2. {spec_mode', drain_pipeline', current_Mop', consumed', diverged', did_buffer'} \subseteq BOOLEAN
            BY <2>8, <1>1, <1>2, <1>7
        <3> QED
            BY <3>1, <3>2, <2>11, <1>1 DEF IInv, TypeOK, ShadowMop
    <2>13. Shadow'
        <3>1. ASSUME NEW j \in 1 .. n + 1
              PROVE  MopQ'[j].id = s[j].id /\ MopQ'[j].kind = s[j].kind
            <4>1. CASE j = l + 1
                BY <4>1, <2>6, <2>7
            <4>2. CASE j # l + 1
                <5>1. j \in 1 .. l /\ j \in 1 .. n
                    BY <4>2, <2>9, <1>3
                <5> QED
                    BY <5>1, <2>7, <1>5
            <4> QED
                BY <4>1, <4>2
        <3>2. n + 1 <= Len(s) /\ Len(MopQ') <= n + 1 + s[n + 1].speculated
            BY <2>2, <2>5, <2>7, <2>9, <1>3
        <3> QED
            BY <3>1, <3>2, <2>10, <2>11, <1>1, <1>5, Zenon DEF Shadow, ShadowSound
    <2>14. Numbered'
        BY <2>11, <1>1 DEF IInv, Numbered, InHand
    <2> QED
        BY <2>7, <2>10, <2>12, <2>13, <2>14, <1>9 DEF IInv
<1> QED
    BY <1>10, <1>11

LEMMA ConsumeStep ==
    ASSUME IInv, NEW b \in {"ok", "wrong"}, NEW more \in BOOLEAN, Consume(b, more)
    PROVE  IInv'
<1> DEFINE d == jeclear_delay
           n == num_non_spec_Mops
           l == Len(MopQ)
           trap == MopQ[l].kind = "trap"
<1>1. /\ pc = "fetch" /\ current_Mop /\ Cardinality(Fetched) < Slots
      /\ trap => b = "ok" /\ ~more
      /\ current_Mop' = FALSE /\ consumed' = TRUE
      /\ drain_pipeline' = (drain_pipeline \/ trap)
      /\ MopQ' = [MopQ EXCEPT ![l].br = b] /\ diverged' = (b # "ok")
      /\ pc' = AfterFetch(more)
      /\ shadow_MopQ' = shadow_MopQ /\ spec_mode' = spec_mode
      /\ jeclear_delay' = jeclear_delay
      /\ handshake' = handshake /\ did_buffer' = did_buffer
      /\ buffer_result' = buffer_result
      /\ received' = received /\ retired' = retired /\ nukes' = nukes
    BY DEF Consume, ConsumeMop, loopVars, history
<1>2. /\ d \in Nat /\ Mop = MopOf(d) /\ MopQ \in Seq(MopOf(d)) /\ l \in Nat /\ l <= MopQ_size
      /\ n \in Nat /\ n <= l /\ Slots \in Nat /\ MopQ_size \in Nat
      /\ Len(MopQ) > 0 /\ InPipe = Len(MopQ) - 1 /\ Fetched = 1 .. InPipe
    BY <1>1, Facts
<1>3. QueueSound(MopQ, n, l - 1, spec_mode, diverged, drain_pipeline)
    BY <1>2 DEF IInv, Queue
<1>4. Retarget(MopQ', MopQ, d, l, b)
    <2>1. l \in 1 .. l /\ b \in {"ok", "wrong", "late"}
        BY <1>2
    <2>2. Retarget([MopQ EXCEPT ![l].br = b], MopQ, d, l, b)
        BY <2>1, <1>2, Retargeted
    <2> QED
        BY <2>2, <1>1
<1>5. ~drain_pipeline /\ QueueSound(MopQ', n, l, spec_mode, b # "ok", drain_pipeline \/ trap)
    BY <1>2, <1>3, <1>4, ConsumeSound
<1>6. QueueSound(MopQ', n, l, spec_mode', diverged', drain_pipeline')
    BY <1>1, <1>5
<1>7. /\ MopQ' \in Seq(MopOf(d)) /\ Len(MopQ') = l
      /\ \A j \in 1 .. l : MopQ'[j].id = MopQ[j].id /\ MopQ'[j].kind = MopQ[j].kind
    BY <1>4, Zenon DEF Retarget
<1>8. num_non_spec_Mops' = n
    <2>1. Split(MopQ', n)
        BY <1>6, Zenon DEF QueueSound
    <2> QED
        BY <2>1, <1>2, <1>7, CountedNext
<1>9. InPipe' = l
    BY <1>1, <1>7 DEF InPipe
<1>10. l <= Slots
    <2>1. l - 1 \in Nat /\ Fetched = 1 .. l - 1
        BY <1>2
    <2>2. Cardinality(Fetched) = l - 1
        BY <2>1, FS_Interval
    <2> QED
        BY <2>2, <1>1, <1>2
<1>11. Queue' /\ Behind'
    BY <1>2, <1>6, <1>8, <1>9, <1>10 DEF Queue, Behind
<1>12. on_nuke_recovery_path' <=> on_nuke_recovery_path
    BY <1>1, <1>8 DEF on_nuke_recovery_path
<1>13. TypeOK'
    <2>1. MopQ' \in Seq(Mop') /\ Len(MopQ') <= MopQ_size
        <3>1. Mop' = Mop
            BY <1>1 DEF Mop
        <3> QED
            BY <3>1, <1>2, <1>7
    <2>2. {spec_mode', drain_pipeline', current_Mop', consumed', diverged', did_buffer'} \subseteq BOOLEAN
        BY <1>1 DEF IInv, TypeOK
    <2>3. pc' \in {"feeder", "top", "post"}
        BY <1>1 DEF AfterFetch
    <2> QED
        BY <2>1, <2>2, <2>3, <1>1 DEF IInv, TypeOK, ShadowMop
<1>14. Shadow'
    <2>1. /\ n <= Len(shadow_MopQ)
          /\ \A j \in 1 .. n : MopQ[j].id = shadow_MopQ[j].id /\ MopQ[j].kind = shadow_MopQ[j].kind
          /\ n > 0 => Len(MopQ) <= n + shadow_MopQ[n].speculated
          /\ \A j \in 1 .. Len(shadow_MopQ) : shadow_MopQ[j].id = retired + j
        BY Zenon DEF IInv, Shadow, ShadowSound
    <2>2. \A j \in 1 .. n : MopQ'[j].id = shadow_MopQ[j].id /\ MopQ'[j].kind = shadow_MopQ[j].kind
        <3>1. \A j \in 1 .. n : j \in 1 .. l
            BY <1>2
        <3> QED
            BY <3>1, <2>1, <1>7
    <2> QED
        BY <2>1, <2>2, <1>1, <1>7, <1>8, Zenon DEF Shadow, ShadowSound
<1>15. buffer_result = "ALL_GOOD" => did_buffer
    BY <1>1 DEF IInv, Loop
<1>16. buffer_result # "ALL_GOOD" => buffer_result = "HANDSHAKE_NOT_CONSUMED" /\ ~did_buffer
    BY DEF IInv, TypeOK, Loop
<1>17. pc' = "feeder" =>
          /\ more /\ ~on_nuke_recovery_path /\ buffer_result = "ALL_GOOD" /\ did_buffer
    BY <1>1, <1>15, <1>16 DEF AfterFetch
<1>18. Numbered'
    BY <1>1, <1>17 DEF IInv, Numbered, InHand
<1>19. Loop'
    <2>1. pc' = "top" => on_nuke_recovery_path \/ buffer_result = "HANDSHAKE_NOT_CONSUMED"
        BY <1>1 DEF AfterFetch
    <2>2. pc' # "fetch"
        BY <1>1 DEF AfterFetch
    <2> QED
        BY <2>1, <2>2, <1>1, <1>12, <1>15, <1>16 DEF Loop
<1>20. HandshakeAvailable' /\ FeederReady'
    <2>1. pc' # "fetch"
        BY <1>1 DEF AfterFetch
    <2>2. pc' = "feeder" => ~drain_pipeline' /\ ~on_nuke_recovery_path'
        BY <1>1, <1>5, <1>12, <1>17
    <2> QED
        BY <2>1, <2>2, <1>1 DEF HandshakeAvailable, FeederReady
<1> QED
    BY <1>11, <1>13, <1>14, <1>18, <1>19, <1>20 DEF IInv

(* The oldest Mop is the first handshake of the shadow MopQ, and that is   *)
(* the one after the last that retired.                                    *)
LEMMA CommitFacts ==
    ASSUME IInv, Commit
    PROVE  /\ 1 \in 1 .. InPipe /\ num_non_spec_Mops \in 1 .. Len(MopQ)
           /\ MopQ[1].id = retired + 1
           /\ MopQ[1].kind = "trap" => Len(MopQ) = 1
           /\ QueueSound(Tail(MopQ), num_non_spec_Mops - 1, InPipe - 1, spec_mode, diverged,
                         drain_pipeline /\ MopQ[1].kind # "trap")
<1>1. /\ jeclear_delay \in Nat /\ MopQ \in Seq(MopOf(jeclear_delay)) /\ Len(MopQ) \in Nat
      /\ num_non_spec_Mops \in Nat /\ num_non_spec_Mops <= Len(shadow_MopQ)
      /\ InPipe \in 0 .. Len(MopQ) /\ Fetched = 1 .. InPipe /\ Len(shadow_MopQ) \in Nat
    BY Facts
<1>2. 1 \in 1 .. InPipe /\ MopQ[1].br = "ok" /\ ~MopQ[1].jeclear_in_flight
    BY <1>1, Zenon DEF Commit, Decoded
<1>3. InPipe \in 1 .. Len(MopQ)
    BY <1>1, <1>2
<1>4. QueueSound(MopQ, num_non_spec_Mops, InPipe, spec_mode, diverged, drain_pipeline)
    BY DEF IInv, Queue
<1>5. /\ num_non_spec_Mops \in 1 .. Len(MopQ)
      /\ MopQ[1].kind = "trap" => Len(MopQ) = 1
      /\ QueueSound(Tail(MopQ), num_non_spec_Mops - 1, InPipe - 1, spec_mode, diverged,
                    drain_pipeline /\ MopQ[1].kind # "trap")
    BY <1>1, <1>2, <1>3, <1>4, CommitSound, Zenon
<1>6. MopQ[1].id = retired + 1
    <2>1. 1 \in 1 .. num_non_spec_Mops /\ 1 \in 1 .. Len(shadow_MopQ)
        BY <1>1, <1>5
    <2> QED
        BY <2>1, Zenon DEF IInv, Shadow, ShadowSound
<1> QED
    BY <1>2, <1>5, <1>6

LEMMA CommitStep ==
    ASSUME IInv, Commit
    PROVE  IInv'
<1> DEFINE d == jeclear_delay
           n == num_non_spec_Mops
           s == shadow_MopQ
           l == Len(MopQ)
           trap == MopQ[1].kind = "trap"
<1>1. /\ pc = "back" /\ MopQ' = Tail(MopQ) /\ shadow_MopQ' = Tail(s)
      /\ drain_pipeline' = (drain_pipeline /\ ~trap)
      /\ consumed' = (consumed \/ trap) /\ retired' = MopQ[1].id
      /\ spec_mode' = spec_mode /\ current_Mop' = current_Mop /\ diverged' = diverged
      /\ pc' = pc /\ jeclear_delay' = jeclear_delay
      /\ handshake' = handshake /\ did_buffer' = did_buffer
      /\ buffer_result' = buffer_result
      /\ received' = received /\ nukes' = nukes
    BY DEF Commit, CommitMop, loopVars
<1>2. /\ d \in Nat /\ Mop = MopOf(d) /\ MopQ \in Seq(MopOf(d)) /\ l \in Nat /\ l <= MopQ_size
      /\ s \in Seq(ShadowMop) /\ Len(s) \in Nat /\ Len(s) <= MopQ_size
      /\ n \in Nat /\ n <= Len(s) /\ Slots \in Nat /\ MopQ_size \in Nat
      /\ InPipe \in 0 .. l /\ InPipe <= Slots
      /\ current_Mop => InPipe = l - 1
      /\ ~current_Mop => InPipe = l
      /\ received \in Nat /\ retired \in Nat
    BY Facts
<1>3. /\ 1 \in 1 .. InPipe /\ n \in 1 .. l /\ MopQ[1].id = retired + 1
      /\ trap => l = 1
      /\ QueueSound(Tail(MopQ), n - 1, InPipe - 1, spec_mode, diverged, drain_pipeline /\ ~trap)
    BY CommitFacts
<1>4. n > 0 /\ n <= l /\ l > 0 /\ Len(s) > 0 /\ InPipe > 0 /\ MopQ # <<>> /\ s # <<>>
    BY <1>2, <1>3
<1>5. QueueSound(MopQ', n - 1, InPipe - 1, spec_mode', diverged', drain_pipeline')
    BY <1>1, <1>3
<1>6. /\ MopQ' \in Seq(MopOf(d)) /\ Len(MopQ') = l - 1
      /\ \A j \in 1 .. l - 1 : MopQ'[j] = MopQ[j + 1]
    BY <1>1, <1>2, <1>4
<1>7. /\ shadow_MopQ' \in Seq(ShadowMop) /\ Len(shadow_MopQ') = Len(s) - 1
      /\ \A j \in 1 .. Len(s) - 1 : shadow_MopQ'[j] = s[j + 1]
    BY <1>1, <1>2, <1>4
<1>8. num_non_spec_Mops' = n - 1
    <2>1. Split(MopQ', n - 1)
        BY <1>5, Zenon DEF QueueSound
    <2> QED
        BY <2>1, <1>2, <1>6, CountedNext
<1>9. InPipe' = InPipe - 1
    <2>1. CASE current_Mop
        BY <2>1, <1>1, <1>2, <1>6 DEF InPipe
    <2>2. CASE ~current_Mop
        BY <2>2, <1>1, <1>2, <1>6 DEF InPipe
    <2> QED
        BY <2>1, <2>2
<1>10. Queue'
    BY <1>5, <1>8, <1>9 DEF Queue
<1>11. Behind'
    BY <1>2, <1>4, <1>9 DEF Behind
<1>12. /\ \A j \in 1 .. n : MopQ[j].id = s[j].id /\ MopQ[j].kind = s[j].kind
       /\ n > 0 => l <= n + s[n].speculated
       /\ \A j \in 1 .. Len(s) : s[j].id = retired + j
    BY Zenon DEF IInv, Shadow, ShadowSound
<1>13. Shadow'
    <2>1. n - 1 <= Len(shadow_MopQ')
        BY <1>2, <1>4, <1>7
    <2>2. ASSUME NEW j \in 1 .. n - 1
          PROVE  MopQ'[j].id = shadow_MopQ'[j].id /\ MopQ'[j].kind = shadow_MopQ'[j].kind
        <3>1. j \in 1 .. l - 1 /\ j \in 1 .. Len(s) - 1 /\ j + 1 \in 1 .. n
            BY <1>2, <1>4
        <3> QED
            BY <3>1, <1>6, <1>7, <1>12
    <2>3. ASSUME n - 1 > 0
          PROVE  Len(MopQ') <= n - 1 + shadow_MopQ'[n - 1].speculated
        <3>1. n - 1 \in 1 .. Len(s) - 1 /\ (n - 1) + 1 = n /\ n \in 1 .. Len(s)
            BY <2>3, <1>2, <1>4
        <3>2. shadow_MopQ'[n - 1] = s[n]
            BY <3>1, <1>7
        <3>3. s[n].speculated \in Nat
            <4>1. s[n] \in ShadowMop
                BY <3>1, <1>2
            <4> QED
                BY <4>1, <1>2 DEF ShadowMop
        <3>4. l <= n + s[n].speculated
            BY <1>4, <1>12
        <3>5. Len(MopQ') = l - 1
            BY <1>6
        <3>6. l - 1 <= n - 1 + s[n].speculated
            BY <3>3, <3>4, <1>2
        <3> QED
            BY <3>2, <3>5, <3>6
    <2>4. ASSUME NEW j \in 1 .. Len(shadow_MopQ')
          PROVE  shadow_MopQ'[j].id = (retired + 1) + j
        <3>1. j \in 1 .. Len(s) - 1 /\ j + 1 \in 1 .. Len(s) /\ j \in Nat
            BY <1>2, <1>4, <1>7
        <3>2. shadow_MopQ'[j].id = retired + (j + 1)
            BY <3>1, <1>7, <1>12
        <3> QED
            BY <3>1, <3>2, <1>2
    <2>5. retired' = retired + 1
        BY <1>1, <1>3
    <2> QED
        BY <2>1, <2>2, <2>3, <2>4, <2>5, <1>8, Zenon DEF Shadow, ShadowSound
<1>14. Numbered'
    <2>1. retired' = retired + 1
        BY <1>1, <1>3
    <2>2. InHand' <=> InHand
        BY <1>1 DEF InHand
    <2>3. retired' + Len(shadow_MopQ') = retired + Len(s)
        BY <2>1, <1>2, <1>7
    <2> QED
        BY <2>2, <2>3, <1>1 DEF IInv, Numbered
<1>15. TypeOK'
    <2>1. MopQ' \in Seq(Mop') /\ Len(MopQ') <= MopQ_size /\ Len(shadow_MopQ') <= MopQ_size
        <3>1. Mop' = Mop
            BY <1>1 DEF Mop
        <3> QED
            BY <3>1, <1>2, <1>6, <1>7
    <2>2. {spec_mode', drain_pipeline', current_Mop', consumed', diverged', did_buffer'} \subseteq BOOLEAN
        BY <1>1 DEF IInv, TypeOK
    <2>3. retired + 1 <= received
        BY <1>2, <1>4 DEF IInv, Numbered
    <2>4. retired' \in 0 .. received'
        BY <2>3, <1>1, <1>2, <1>3
    <2> QED
        BY <2>1, <2>2, <2>4, <1>1, <1>7 DEF IInv, TypeOK, ShadowMop
<1>16. Loop'
    <2>1. ASSUME trap PROVE ~current_Mop
        <3>1. l = 1
            BY <2>1, <1>3
        <3>2. InPipe = 0 + 1
            BY <3>1, <1>2, <1>4
        <3>3. current_Mop => InPipe = 0
            BY <3>1, <1>2
        <3> QED
            BY <3>2, <3>3
    <2> QED
        BY <2>1, <1>1 DEF IInv, Loop
<1>17. HandshakeAvailable' /\ FeederReady'
    BY <1>1 DEF HandshakeAvailable, FeederReady
<1> QED
    BY <1>10, <1>11, <1>13, <1>14, <1>15, <1>16, <1>17 DEF IInv

-----------------------------------------------------------------------------
(* Nothing is in flight at the start.                                      *)
LEMMA Initial == Init => IInv
<1> SUFFICES ASSUME Init PROVE IInv
    OBVIOUS
<1>1. /\ MopQ = <<>> /\ shadow_MopQ = <<>> /\ spec_mode = FALSE /\ drain_pipeline = FALSE
      /\ current_Mop = FALSE /\ consumed = TRUE /\ diverged = FALSE
      /\ pc = "feeder" /\ handshake = [id |-> 0, kind |-> "spec"]
      /\ did_buffer = FALSE /\ buffer_result = "ALL_GOOD"
      /\ jeclear_delay \in Delays
      /\ received = 0 /\ retired = 0 /\ nukes = 0
    BY DEF Init
<1>2. /\ jeclear_delay \in Nat /\ MopQ_size \in Nat /\ Slots \in Nat
      /\ MaxHandshakes \in Nat /\ MaxNukes \in Nat
    BY <1>1, OracleAssumption
<1>3. /\ Len(MopQ) = 0 /\ MopQ \in Seq(MopOf(jeclear_delay)) /\ MopQ \in Seq(Mop)
      /\ Len(shadow_MopQ) = 0 /\ shadow_MopQ \in Seq(ShadowMop)
    BY <1>1
<1>4. \A j \in 1 .. 0 : FALSE
    OBVIOUS
<1>5. QueueSound(MopQ, 0, 0, FALSE, FALSE, FALSE)
    BY <1>3, <1>4 DEF QueueSound, Split, Marked, Arriving, TrapsLast, HasTrap
<1>6. num_non_spec_Mops = 0
    <2>1. Split(MopQ, 0)
        BY <1>5, Zenon DEF QueueSound
    <2>2. Cardinality({i \in DOMAIN MopQ : ~IsSpec(MopQ[i])}) = 0
        BY <2>1, <1>2, <1>3, Counted
    <2> QED
        BY <2>2 DEF num_non_spec_Mops
<1>7. InPipe = 0
    BY <1>1, <1>3 DEF InPipe
<1>8. TypeOK
    <2>1. handshake \in [id : 0 .. MaxHandshakes, kind : {"insn", "trap", "spec"}]
        BY <1>1, <1>2
    <2>2. /\ received \in 0 .. MaxHandshakes /\ retired \in 0 .. received
          /\ nukes \in 0 .. MaxNukes
          /\ Len(MopQ) <= MopQ_size /\ Len(shadow_MopQ) <= MopQ_size
        BY <1>1, <1>2, <1>3
    <2> QED
        BY <2>1, <2>2, <1>1, <1>3 DEF TypeOK
<1>9. Queue
    BY <1>1, <1>5, <1>6, <1>7 DEF Queue
<1>10. Shadow
    BY <1>3, <1>4, <1>6 DEF Shadow, ShadowSound
<1>11. Numbered
    BY <1>1, <1>3 DEF Numbered, InHand
<1>12. Loop
    BY <1>1 DEF Loop
<1>13. Behind
    BY <1>2, <1>7 DEF Behind
<1>14. HandshakeAvailable /\ FeederReady
    BY <1>1, <1>3, <1>6 DEF HandshakeAvailable, FeederReady, on_nuke_recovery_path
<1> QED
    BY <1>8, <1>9, <1>10, <1>11, <1>12, <1>13, <1>14 DEF IInv

(* A step that changes nothing.                                            *)
LEMMA StutterStep ==
    ASSUME IInv, UNCHANGED vars
    PROVE  IInv'
<1>1. /\ MopQ' = MopQ /\ shadow_MopQ' = shadow_MopQ /\ consumed' = consumed /\ pc' = pc
      /\ handshake' = handshake /\ did_buffer' = did_buffer
      /\ buffer_result' = buffer_result
      /\ received' = received /\ retired' = retired /\ nukes' = nukes
      /\ UNCHANGED <<MopQ, flags, jeclear_delay>>
      /\ current_Mop' = current_Mop /\ spec_mode' = spec_mode /\ diverged' = diverged
      /\ drain_pipeline' = drain_pipeline
    BY DEF vars, flags, loopVars, history
<1>2. /\ num_non_spec_Mops' = num_non_spec_Mops
      /\ Queue' /\ Behind'
      /\ MopQ' \in Seq(Mop') /\ Len(MopQ') <= MopQ_size
      /\ {spec_mode', drain_pipeline', current_Mop', diverged'} \subseteq BOOLEAN
      /\ jeclear_delay' \in Delays
      /\ can_exec' = can_exec
    BY <1>1, SameQueue
<1>3. on_nuke_recovery_path' <=> on_nuke_recovery_path
    BY <1>1, <1>2 DEF on_nuke_recovery_path
<1>4. TypeOK'
    BY <1>1, <1>2 DEF IInv, TypeOK, ShadowMop
<1>5. Shadow' /\ Numbered'
    BY <1>1, <1>2 DEF IInv, Shadow, Numbered, InHand
<1>6. Loop' /\ FeederReady'
    BY <1>1, <1>2, <1>3 DEF IInv, Loop, FeederReady
<1>7. HandshakeAvailable'
    BY <1>1, <1>2, <1>3 DEF IInv, HandshakeAvailable, ExecSpec, SpecDepth
<1> QED
    BY <1>2, <1>4, <1>5, <1>6, <1>7 DEF IInv

(* With more places in the MopQ than slots behind fetch, every step keeps  *)
(* the invariant.                                                          *)
LEMMA Inductive ==
    ASSUME Slots < MopQ_size, IInv, [Next]_vars
    PROVE  IInv'
<1>1. CASE DrainPipe
    BY <1>1, DrainPipeStep
<1>2. CASE \E kind \in Kinds \ {"flush"} : SimulateHandshake(kind)
    BY <1>2, SimulateHandshakeStep
<1>3. CASE Buffer
    BY <1>3, BufferStep
<1>4. CASE SkipBuffer
    BY <1>4, SkipBufferStep
<1>5. CASE Exec
    BY <1>5, ExecStep
<1>6. CASE Stall
    BY <1>6, StallStep
<1>7. CASE \E b \in {"ok", "wrong"}, more \in BOOLEAN : Consume(b, more)
    BY <1>7, ConsumeStep
<1>8. CASE PreFetch
    BY <1>8, PreFetchStep
<1>9. CASE Decode
    BY <1>9, DecodeStep
<1>10. CASE \E i \in DOMAIN MopQ : Resolve(i) \/ Nuke(i) \/ MisSchedule(i)
    BY <1>10, ExecuteStep
<1>11. CASE Commit
    BY <1>11, CommitStep
<1>12. CASE EndCycle
    BY <1>12, EndCycleStep
<1>13. CASE UNCHANGED vars
    BY <1>13, StutterStep
<1> QED
    BY <1>1, <1>2, <1>3, <1>4, <1>5, <1>6, <1>7, <1>8, <1>9, <1>10, <1>11, <1>12, <1>13,
       Zenon DEF Next, Fetch

(* Every behaviour of the loop, the oracle and fetch keeps the inductive   *)
(* invariant: the MopQ is a right path and then a wrong path that has an   *)
(* excuse, the shadow MopQ has what has to be replayed.                    *)
THEOREM Invariance ==
    ASSUME Slots < MopQ_size
    PROVE  Spec => []IInv
<1>1. Init => IInv
    BY Initial
<1>2. IInv /\ [Next]_vars => IInv'
    BY Inductive
<1> QED
    BY <1>1, <1>2, PTL DEF Spec

(* The MopQ and the shadow MopQ of shadow_MopQ.h agree, the asserts of     *)
(* exec(), get_shadow_Mop() and simulate_handshake() hold, and no          *)
(* handshake is lost, whatever is mispredicted, nuked or drained.          *)
THEOREM Synchrony ==
    ASSUME Slots < MopQ_size
    PROVE  Spec => []InSync
<1>1. IInv => InSync
    <2> SUFFICES ASSUME IInv PROVE InSync
        OBVIOUS
    <2>1. /\ Len(MopQ) \in Nat /\ DOMAIN MopQ = 1 .. Len(MopQ)
          /\ num_non_spec_Mops \in Nat /\ num_non_spec_Mops <= Len(MopQ)
          /\ num_non_spec_Mops <= Len(shadow_MopQ)
          /\ received \in Nat /\ retired \in Nat /\ Len(shadow_MopQ) \in Nat
        BY Facts
    <2>2. ShadowInSync
        <3>1. \A i \in 1 .. Len(MopQ) : IsSpec(MopQ[i]) <=> i > num_non_spec_Mops
            BY Zenon DEF IInv, Queue, QueueSound, Split
        <3>2. \A i \in 1 .. num_non_spec_Mops :
                 MopQ[i].id = shadow_MopQ[i].id /\ MopQ[i].kind = shadow_MopQ[i].kind
            BY Zenon DEF IInv, Shadow, ShadowSound
        <3> QED
            BY <3>1, <3>2, <2>1 DEF ShadowInSync
    <2>3. NothingLost
        BY <2>1 DEF IInv, Numbered, InHand, NothingLost
    <2> QED
        BY <2>2, <2>3 DEF IInv, InSync
<1> QED
    BY <1>1, Invariance, PTL

(* The pipeline drains exactly while a consumed trap is in flight, and a   *)
(* Mop that is marked for a jeclear has one on its way (recover(),         *)
(* jeclear_enqueue(), pre_fetch() and commit()).                           *)
THEOREM Recovery ==
    ASSUME Slots < MopQ_size
    PROVE  Spec => []RecoveryKept
<1>1. IInv => RecoveryKept
    <2> SUFFICES ASSUME IInv PROVE RecoveryKept
        OBVIOUS
    <2>1. DOMAIN MopQ = 1 .. Len(MopQ) /\ Fetched = 1 .. InPipe
        BY Facts
    <2>2. /\ TrapsLast(MopQ) /\ Arriving(MopQ)
          /\ (drain_pipeline <=> HasTrap(MopQ, InPipe))
        BY Zenon DEF IInv, Queue, QueueSound
    <2>3. TrapDrains
        BY <2>1, <2>2, Zenon DEF TrapDrains, TrapsLast, HasTrap
    <2>4. JeclearArrives
        BY <2>1, <2>2, Zenon DEF JeclearArrives, Arriving
    <2> QED
        BY <2>3, <2>4 DEF RecoveryKept
<1> QED
    BY <1>1, Invariance, PTL

(* Handshakes are committed one by one in the order in which the feeder    *)
(* sent them (the oracle's commit()).                                      *)
THEOREM InOrderCommits ==
    ASSUME Slots < MopQ_size
    PROVE  Spec => CommitsInOrder
<1>1. IInv /\ [Next]_vars => [Commit => MopQ[1].id = retired + 1]_vars
    BY CommitFacts
<1> QED
    BY <1>1, Invariance, PTL DEF Spec, CommitsInOrder

=============================================================================
