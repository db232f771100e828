------------------------ MODULE HandshakeBufferProofs ------------------------
(* Proofs about HandshakeBuffer for buffers of any capacity, any workload  *)
(* and any number of handshakes, while no pause finds the owner inside a   *)
(* callback.                                                               *)
EXTENDS HandshakeBuffer, SequenceTheorems, WellFoundedInduction, TLAPS

-----------------------------------------------------------------------------
(* The inductive invariant.  Handshakes are numbered as they are finished: *)
(* s holds finished handshakes in order, the first with the number after n. *)
Run(s, n) == /\ s \in Seq(Slot)
             /\ \A i \in 1 .. Len(s) : s[i].valid /\ s[i].id = n + i

(* The number of the handshake before the first one of a file.             *)
Before(s) == s[1].id - 1

(* The files fs hold the handshakes after b, up to and including e; none   *)
(* is empty, and each fits into consumeBuffer_.                            *)
FilesRun(fs, b, e) ==
    /\ fs \in Seq(Seq(Slot))
    /\ \A k \in 1 .. Len(fs) : Len(fs[k]) \in 1 .. Capacity /\ Run(fs[k], Before(fs[k]))
    /\ \A k, l \in 1 .. Len(fs) : k < l => Before(fs[k]) + Len(fs[k]) <= Before(fs[l])
    /\ \A k \in 1 .. Len(fs) - 1 : Before(fs[k]) + Len(fs[k]) = Before(fs[k + 1])
    /\ Len(fs) = 0 => b = e
    /\ Len(fs) > 0 => Before(fs[1]) = b /\ Before(fs[Len(fs)]) + Len(fs[Len(fs)]) = e

(* The last handshake before the files, and the last one in them: while    *)
(* the oldest file is read, its handshakes are in consumeBuffer_ as well.  *)
FilesFrom == IF consumer = "reading" THEN received ELSE received + Len(consumeBuffer)
FilesTo == FilesFrom + fileEntryCount

(* Between the last handshake consumed and the last one finished there is  *)
(* each one exactly once, in order.                                        *)
InOrder ==
    /\ Run(consumeBuffer, received)
    /\ FilesRun(files, FilesFrom, FilesTo)
    /\ Run(file, FilesTo)
    /\ Run(Finished(produceBuffer), FilesTo + Len(file))
    /\ sent = FilesTo + Len(file) + Len(Finished(produceBuffer))

(* Only a buffer without a half-filled element is written to a file, the   *)
(* file cannot be empty, and after it there is room again.                 *)
Writing ==
    /\ op # "none" => Finished(produceBuffer) = produceBuffer
    /\ op # "writing" => file = << >> /\ Len(Finished(produceBuffer)) < Capacity
    /\ op = "writing" => Len(file) + Len(produceBuffer) \in 1 .. Capacity

(* The owner fills in the last element while it is inside a callback, and  *)
(* nobody else adds a handshake then, nor between the pauser's trap and    *)
(* its give-up handshake.                                                  *)
Filling ==
    /\ owner = "inside" => /\ op = "none" /\ ~ignore_all
                           /\ produceBuffer # << >> /\ ~Last(produceBuffer).valid
                           /\ sent < MaxHandshakes
    /\ pauser = "trapped" => ignore_all /\ sent < MaxHandshakes

(* What the sim thread relies on at each of its steps.                     *)
Reading ==
    /\ consumer \in {"front", "asleep"} => consumeBuffer = << >>
    /\ consumer = "reading" => /\ files # << >>
                               /\ Len(consumeBuffer) + left = Len(Head(files))
    /\ consumer = "batch" => left <= Len(consumeBuffer)

(* TypeOK without the contents of the buffers, which InOrder implies.      *)
Scalars ==
    /\ Len(produceBuffer) <= Capacity /\ Len(consumeBuffer) <= Capacity
    /\ fileEntryCount \in 0 .. MaxHandshakes
    /\ sent \in 0 .. MaxHandshakes /\ received \in 0 .. sent
    /\ mark \in 0 .. MaxHandshakes /\ left \in 0 .. Capacity
    /\ owner \in {"idle", "inside", "sync", "sched", "exit"}
    /\ op \in {"none", "flush", "writing"} /\ then \in {"none", "flush"}
    /\ pauser \in {"none", "trapped", "wait", "resume"}
    /\ messages \subseteq {"owner", "pauser"}
    /\ ignore_all \in BOOLEAN /\ scheduled \in BOOLEAN
    /\ workload \in Workloads
    /\ consumer \in {"loop", "front", "asleep", "reading", "batch"}

IInv == /\ Scalars /\ produceBuffer \in Seq(Slot)
        /\ InOrder /\ Writing /\ Filling /\ Reading

(* The numbers of the handshakes in s that will take the thread off its    *)
(* run queue.                                                              *)
Leaving(s) == {s[i].id : i \in {j \in 1 .. Len(s) : s[j].valid /\ LeavesRunQueue(s[j].kind)}}

Pending ==
    Leaving(produceBuffer) \cup Leaving(file) \cup Leaving(consumeBuffer)
        \cup UNION {Leaving(files[k]) : k \in 1 .. Len(files)}

(* Such a handshake is the pauser's, which waits for it, or the last of    *)
(* the owner, which waits for it or has exited.                            *)
Known(n) == \/ pauser = "wait" /\ n = mark
            \/ owner \in {"sync", "exit"} /\ n = sent

(* Only a workload with an operation gets to where that operation leads.   *)
Started ==
    /\ "pause" \notin workload => pauser = "none" /\ ~ignore_all /\ mark = 0
    /\ "sync" \notin workload => owner \notin {"sync", "sched"}
    /\ "kill" \notin workload => owner # "exit"

(* And the thread stays scheduled until it is consumed.                    *)
DInv ==
    /\ Started
    /\ \A n \in Pending : Known(n)
    /\ mark > received => pauser = "wait" /\ scheduled
    /\ pauser = "trapped" => scheduled
    /\ owner = "sync" /\ received < sent => scheduled

-----------------------------------------------------------------------------
(* Runs of handshakes.                                                     *)

(* Nothing is a run, from any number.                                      *)
LEMMA RunEmpty ==
    ASSUME NEW n \in Nat
    PROVE  Run(<< >>, n) /\ Len(<< >>) = 0
BY DEF Run

(* A handshake with the next number makes a run longer.                    *)
LEMMA RunAppend ==
    ASSUME NEW s, NEW n \in Nat, Run(s, n),
           NEW x \in Slot, x.valid, x.id = n + Len(s) + 1
    PROVE  Run(Append(s, x), n) /\ Len(Append(s, x)) = Len(s) + 1
<1>1. /\ s \in Seq(Slot) /\ Len(s) \in Nat
      /\ \A i \in 1 .. Len(s) : s[i].valid /\ s[i].id = n + i
    BY DEF Run
<1>2. /\ Append(s, x) \in Seq(Slot) /\ Len(Append(s, x)) = Len(s) + 1
      /\ \A i \in 1 .. Len(s) : Append(s, x)[i] = s[i]
      /\ Append(s, x)[Len(s) + 1] = x
    BY <1>1, AppendProperties
<1>3. ASSUME NEW i \in 1 .. Len(s) + 1
      PROVE  Append(s, x)[i].valid /\ Append(s, x)[i].id = n + i
    <2>1. CASE i = Len(s) + 1
        BY <1>1, <1>2, <2>1
    <2>2. CASE i # Len(s) + 1
        BY <1>1, <1>2, <2>2
    <2> QED
        BY <2>1, <2>2
<1> QED
    BY <1>2, <1>3 DEF Run

(* The head of a run has the number after n, and the rest goes on from it. *)
LEMMA RunTail ==
    ASSUME NEW s, NEW n \in Nat, Run(s, n), s # << >>
    PROVE  /\ Head(s) = s[1] /\ Head(s) \in Slot /\ Head(s).valid /\ Head(s).id = n + 1
           /\ Run(Tail(s), n + 1) /\ Len(Tail(s)) = Len(s) - 1 /\ Len(s) \in Nat \ {0}
<1>1. /\ s \in Seq(Slot) /\ Len(s) \in Nat \ {0}
      /\ \A i \in 1 .. Len(s) : s[i].valid /\ s[i].id = n + i
    BY EmptySeq DEF Run
<1>2. /\ Tail(s) \in Seq(Slot) /\ Len(Tail(s)) = Len(s) - 1 /\ Head(s) = s[1]
      /\ \A i \in 1 .. Len(s) - 1 : Tail(s)[i] = s[i + 1]
    BY <1>1
<1>3. ASSUME NEW i \in 1 .. Len(s) - 1
      PROVE  Tail(s)[i].valid /\ Tail(s)[i].id = n + 1 + i
    BY <1>1, <1>2
<1>4. s[1] \in Slot /\ s[1].valid /\ s[1].id = n + 1
    BY <1>1, ElementOfSeq
<1> QED
    BY <1>1, <1>2, <1>3, <1>4 DEF Run

(* Two runs, the second from where the first ends.                         *)
LEMMA RunConcat ==
    ASSUME NEW s, NEW t, NEW n \in Nat, Run(s, n), Run(t, n + Len(s))
    PROVE  Run(s \o t, n) /\ Len(s \o t) = Len(s) + Len(t)
<1>1. /\ s \in Seq(Slot) /\ Len(s) \in Nat
      /\ \A i \in 1 .. Len(s) : s[i].valid /\ s[i].id = n + i
    BY DEF Run
<1>2. /\ t \in Seq(Slot) /\ Len(t) \in Nat
      /\ \A i \in 1 .. Len(t) : t[i].valid /\ t[i].id = n + Len(s) + i
    BY DEF Run
<1>3. /\ s \o t \in Seq(Slot) /\ Len(s \o t) = Len(s) + Len(t)
      /\ \A i \in 1 .. Len(s) + Len(t) :
            (s \o t)[i] = IF i <= Len(s) THEN s[i] ELSE t[i - Len(s)]
    BY <1>1, <1>2, ConcatProperties
<1>4. ASSUME NEW i \in 1 .. Len(s) + Len(t)
      PROVE  (s \o t)[i].valid /\ (s \o t)[i].id = n + i
    <2>1. CASE i <= Len(s)
        BY <1>1, <1>3, <2>1
    <2>2. CASE ~(i <= Len(s))
        <3>1. i - Len(s) \in 1 .. Len(t) /\ n + Len(s) + (i - Len(s)) = n + i
            BY <1>1, <1>2, <2>2
        <3>2. (s \o t)[i] = t[i - Len(s)]
            BY <1>3, <2>2
        <3> QED
            BY <1>2, <3>1, <3>2
    <2> QED
        BY <2>1, <2>2
<1> QED
    BY <1>3, <1>4 DEF Run

(* What is left of a run after its first k.                                *)
LEMMA RunSuffix ==
    ASSUME NEW s, NEW n \in Nat, Run(s, n), NEW k \in 0 .. Len(s)
    PROVE  /\ Run(SubSeq(s, k + 1, Len(s)), n + k)
           /\ Len(SubSeq(s, k + 1, Len(s))) = Len(s) - k
<1>1. /\ s \in Seq(Slot) /\ Len(s) \in Nat /\ k \in Nat /\ k <= Len(s)
      /\ \A i \in 1 .. Len(s) : s[i].valid /\ s[i].id = n + i /\ s[i] \in Slot
    BY ElementOfSeq DEF Run
<1> DEFINE t == SubSeq(s, k + 1, Len(s))
<1>2. /\ t \in Seq(Slot) /\ Len(t) = Len(s) - k
      /\ \A i \in 1 .. Len(s) - k : t[i] = s[k + i]
    <2>1. \A i \in (k + 1) .. Len(s) : s[i] \in Slot
        BY <1>1
    <2>2. /\ t \in Seq(Slot)
          /\ Len(t) = IF k + 1 <= Len(s) THEN Len(s) - (k + 1) + 1 ELSE 0
          /\ \A i \in 1 .. Len(s) - (k + 1) + 1 : t[i] = s[k + 1 + i - 1]
        BY <1>1, <2>1, SubSeqProperties
    <2> QED
        BY <1>1, <2>2
<1>3. ASSUME NEW i \in 1 .. Len(s) - k
      PROVE  t[i].valid /\ t[i].id = n + k + i
    <2> HIDE DEF t
    <2>1. k + i \in 1 .. Len(s) /\ n + (k + i) = n + k + i
        BY <1>1
    <2>2. t[i] = s[k + i]
        BY <1>2
    <2>3. s[k + i].valid /\ s[k + i].id = n + (k + i)
        BY <1>1, <2>1
    <2> QED
        BY <2>1, <2>2, <2>3
<1> QED
    BY <1>2, <1>3 DEF Run

-----------------------------------------------------------------------------
(* The list of files.                                                      *)

(* The files hold as many handshakes as FilesRun says.                     *)
LEMMA FilesBounds ==
    ASSUME NEW fs, NEW b \in Nat, NEW e \in Int, FilesRun(fs, b, e)
    PROVE  /\ e \in Nat /\ b <= e
           /\ Len(fs) \in Nat /\ (fs = << >> <=> Len(fs) = 0)
           /\ \A k \in 1 .. Len(fs) :
                 /\ fs[k] \in Seq(Slot) /\ Len(fs[k]) \in 1 .. Capacity
                 /\ Run(fs[k], Before(fs[k]))
                 /\ Before(fs[k]) \in Int /\ b <= Before(fs[k])
                 /\ Before(fs[k]) + Len(fs[k]) <= e
<1>1. fs \in Seq(Seq(Slot)) /\ Len(fs) \in Nat /\ (fs = << >> <=> Len(fs) = 0)
    BY EmptySeq DEF FilesRun
<1>2. ASSUME NEW k \in 1 .. Len(fs)
      PROVE  /\ fs[k] \in Seq(Slot) /\ Len(fs[k]) \in 1 .. Capacity
             /\ Run(fs[k], Before(fs[k])) /\ Before(fs[k]) \in Int
    <2>1. fs[k] \in Seq(Slot) /\ Len(fs[k]) \in 1 .. Capacity /\ Run(fs[k], Before(fs[k]))
        BY <1>1 DEF FilesRun
    <2>2. fs[k][1] \in Slot
        BY <2>1, ElementOfSeq, BufferAssumption
    <2>3. fs[k][1].id \in Int
        BY <2>2, BufferAssumption DEF Slot
    <2> QED
        BY <2>1, <2>3 DEF Before
<1>3. CASE Len(fs) = 0
    BY <1>1, <1>2, <1>3 DEF FilesRun
<1>4. CASE Len(fs) # 0
    <2>1. Before(fs[1]) = b /\ Before(fs[Len(fs)]) + Len(fs[Len(fs)]) = e
        BY <1>1, <1>4 DEF FilesRun
    <2>2. ASSUME NEW k \in 1 .. Len(fs)
          PROVE  b <= Before(fs[k]) /\ Before(fs[k]) + Len(fs[k]) <= e
        <3>1. 1 \in 1 .. Len(fs) /\ Len(fs) \in 1 .. Len(fs)
            BY <1>1, <1>4
        <3>2. k # 1 => Before(fs[1]) + Len(fs[1]) <= Before(fs[k])
            BY <3>1 DEF FilesRun
        <3>3. k # Len(fs) => Before(fs[k]) + Len(fs[k]) <= Before(fs[Len(fs)])
            BY <1>1, <3>1 DEF FilesRun
        <3>4. /\ Len(fs[1]) \in Nat /\ Len(fs[k]) \in Nat /\ Len(fs[Len(fs)]) \in Nat
              /\ Before(fs[1]) \in Int /\ Before(fs[k]) \in Int /\ Before(fs[Len(fs)]) \in Int
            BY <1>2, <3>1, BufferAssumption
        <3> QED
            BY <2>1, <3>2, <3>3, <3>4
    <2>3. e \in Nat /\ b <= e
        <3>1. 1 \in 1 .. Len(fs)
            BY <1>1, <1>4
        <3>2. b <= Before(fs[1]) /\ Before(fs[1]) + Len(fs[1]) <= e
            BY <2>2, <3>1
        <3>3. Len(fs[1]) \in Nat /\ Before(fs[1]) \in Int
            BY <1>2, <3>1, BufferAssumption
        <3> QED
            BY <3>2, <3>3
    <2> QED
        BY <1>1, <1>2, <2>2, <2>3
<1> QED
    BY <1>3, <1>4

(* Where a run starts is known from its first handshake.                   *)
LEMMA RunBefore ==
    ASSUME NEW s, NEW n \in Nat, Run(s, n), Len(s) # 0
    PROVE  Before(s) = n
<1>1. Len(s) \in Nat /\ s[1].id = n + 1
    BY DEF Run
<1> QED
    BY <1>1 DEF Before

(* NotifyProduced(): a file with the next handshakes is put at the end.    *)
LEMMA FilesAppend ==
    ASSUME NEW fs, NEW b \in Nat, NEW e \in Int, FilesRun(fs, b, e),
           NEW f, Run(f, e), Len(f) \in 1 .. Capacity
    PROVE  FilesRun(Append(fs, f), b, e + Len(f)) /\ Append(fs, f) # << >>
<1> DEFINE n == Len(fs)
           gs == Append(fs, f)
<1>1. /\ n \in Nat /\ fs \in Seq(Seq(Slot)) /\ f \in Seq(Slot) /\ e \in Nat /\ b <= e
      /\ Before(f) = e /\ Len(f) \in Nat
    <2>1. n \in Nat /\ e \in Nat /\ b <= e
        BY FilesBounds
    <2>2. fs \in Seq(Seq(Slot)) /\ f \in Seq(Slot) /\ Len(f) \in Nat \ {0}
        BY BufferAssumption DEF FilesRun, Run
    <2> QED
        BY <2>1, <2>2, RunBefore
<1>2. /\ gs \in Seq(Seq(Slot)) /\ Len(gs) = n + 1
      /\ \A k \in 1 .. n : gs[k] = fs[k]
      /\ gs[n + 1] = f
    BY <1>1, AppendProperties
<1>3. \A k \in 1 .. n : /\ Len(fs[k]) \in 1 .. Capacity /\ Run(fs[k], Before(fs[k]))
                        /\ Before(fs[k]) + Len(fs[k]) <= e
    BY FilesBounds
<1>4. n = 0 => b = e
    BY DEF FilesRun
<1>5. n > 0 => Before(fs[1]) = b /\ Before(fs[n]) + Len(fs[n]) = e
    BY DEF FilesRun
<1> HIDE DEF gs, n
<1>6. \A k \in 1 .. n + 1 : Len(gs[k]) \in 1 .. Capacity /\ Run(gs[k], Before(gs[k]))
    <2> TAKE k \in 1 .. n + 1
    <2>1. CASE k = n + 1
        BY <1>1, <1>2, <2>1
    <2>2. CASE k \in 1 .. n
        BY <1>2, <1>3, <2>2
    <2> QED
        BY <1>1, <2>1, <2>2
<1>7. \A k, l \in 1 .. n + 1 : k < l => Before(gs[k]) + Len(gs[k]) <= Before(gs[l])
    <2> TAKE k, l \in 1 .. n + 1
    <2> HAVE k < l
    <2>1. k \in 1 .. n /\ gs[k] = fs[k]
        BY <1>1, <1>2
    <2>2. CASE l = n + 1
        BY <1>1, <1>2, <1>3, <2>1, <2>2
    <2>3. CASE l \in 1 .. n
        BY <1>2, <2>1, <2>3 DEF FilesRun, n
    <2> QED
        BY <1>1, <2>2, <2>3
<1>8. \A k \in 1 .. (n + 1) - 1 : Before(gs[k]) + Len(gs[k]) = Before(gs[k + 1])
    <2> TAKE k \in 1 .. (n + 1) - 1
    <2>1. k \in 1 .. n /\ gs[k] = fs[k]
        BY <1>1, <1>2
    <2>2. CASE k = n
        BY <1>1, <1>2, <1>5, <2>1, <2>2
    <2>3. CASE k \in 1 .. n - 1
        <3>1. gs[k + 1] = fs[k + 1]
            BY <1>1, <1>2, <2>3
        <3> QED
            BY <2>1, <2>3, <3>1 DEF FilesRun, n
    <2> QED
        BY <1>1, <2>1, <2>2, <2>3
<1>9. Before(gs[1]) = b /\ Before(gs[n + 1]) + Len(gs[n + 1]) = e + Len(f)
    <2>1. CASE n = 0
        BY <1>1, <1>2, <1>4, <2>1
    <2>2. CASE n > 0
        BY <1>1, <1>2, <1>5, <2>2
    <2> QED
        BY <1>1, <2>1, <2>2
<1>10. gs # << >>
    BY <1>1, <1>2, EmptySeq
<1>11. FilesRun(gs, b, e + Len(f))
    BY <1>1, <1>2, <1>6, <1>7, <1>8, <1>9 DEF FilesRun
<1> QED
    BY <1>10, <1>11 DEF gs

(* NotifyConsumed(): the oldest file holds the next handshakes, and the    *)
(* rest of the list goes on after them.                                    *)
LEMMA FilesTail ==
    ASSUME NEW fs, NEW b \in Nat, NEW e \in Int, FilesRun(fs, b, e), fs # << >>
    PROVE  /\ Head(fs) = fs[1] /\ Run(Head(fs), b) /\ Len(Head(fs)) \in 1 .. Capacity
           /\ b + Len(Head(fs)) <= e
           /\ FilesRun(Tail(fs), b + Len(Head(fs)), e)
<1> DEFINE n == Len(fs)
           gs == Tail(fs)
           f == Head(fs)
<1>1. n \in Nat \ {0} /\ fs \in Seq(Seq(Slot)) /\ f = fs[1]
    BY EmptySeq DEF FilesRun
<1>2. /\ gs \in Seq(Seq(Slot)) /\ Len(gs) = n - 1
      /\ \A k \in 1 .. n - 1 : gs[k] = fs[k + 1]
    BY <1>1, HeadTailProperties
<1>3. \A k \in 1 .. n : /\ Len(fs[k]) \in 1 .. Capacity /\ Run(fs[k], Before(fs[k]))
                        /\ Before(fs[k]) + Len(fs[k]) <= e
    BY FilesBounds
<1>4. Before(fs[1]) = b /\ Before(fs[n]) + Len(fs[n]) = e
    BY <1>1 DEF FilesRun
<1> HIDE DEF gs, n, f
<1>5. Run(f, b) /\ Len(f) \in 1 .. Capacity /\ b + Len(f) <= e /\ Len(f) \in Nat
    BY <1>1, <1>3, <1>4, BufferAssumption
<1>6. \A k \in 1 .. n - 1 : Len(gs[k]) \in 1 .. Capacity /\ Run(gs[k], Before(gs[k]))
    <2> TAKE k \in 1 .. n - 1
    <2>1. gs[k] = fs[k + 1] /\ k + 1 \in 1 .. n
        BY <1>1, <1>2
    <2> QED
        BY <1>3, <2>1
<1>7. \A k, l \in 1 .. n - 1 : k < l => Before(gs[k]) + Len(gs[k]) <= Before(gs[l])
    <2> TAKE k, l \in 1 .. n - 1
    <2> HAVE k < l
    <2>1. /\ gs[k] = fs[k + 1] /\ gs[l] = fs[l + 1] /\ k + 1 \in 1 .. n
          /\ l + 1 \in 1 .. n /\ k + 1 < l + 1
        BY <1>1, <1>2
    <2> QED
        BY <2>1 DEF FilesRun, n
<1>8. \A k \in 1 .. (n - 1) - 1 : Before(gs[k]) + Len(gs[k]) = Before(gs[k + 1])
    <2> TAKE k \in 1 .. (n - 1) - 1
    <2>1. gs[k] = fs[k + 1] /\ gs[k + 1] = fs[(k + 1) + 1] /\ k + 1 \in 1 .. n - 1
        BY <1>1, <1>2
    <2> QED
        BY <2>1 DEF FilesRun, n
<1>9. n - 1 = 0 => b + Len(f) = e
    BY <1>1, <1>4
<1>10. n - 1 > 0 => /\ Before(gs[1]) = b + Len(f)
                    /\ Before(gs[n - 1]) + Len(gs[n - 1]) = e
    <2> HAVE n - 1 > 0
    <2>1. 1 \in 1 .. n - 1 /\ n - 1 \in 1 .. n - 1 /\ (n - 1) + 1 = n
        BY <1>1
    <2>2. gs[1] = fs[1 + 1] /\ gs[n - 1] = fs[n]
        BY <1>2, <2>1
    <2>3. Before(fs[1]) + Len(fs[1]) = Before(fs[1 + 1])
        BY <2>1 DEF FilesRun, n
    <2> QED
        BY <1>1, <1>4, <2>2, <2>3
<1>11. FilesRun(gs, b + Len(f), e)
    BY <1>1, <1>2, <1>6, <1>7, <1>8, <1>9, <1>10 DEF FilesRun
<1> QED
    BY <1>1, <1>5, <1>11 DEF gs, f

-----------------------------------------------------------------------------
(* The produce buffer.                                                     *)

(* The first n elements of a buffer.                                       *)
LEMMA PrefixFacts ==
    ASSUME NEW b \in Seq(Slot), NEW n \in 0 .. Len(b)
    PROVE  /\ SubSeq(b, 1, n) \in Seq(Slot) /\ Len(SubSeq(b, 1, n)) = n
           /\ \A i \in 1 .. n : SubSeq(b, 1, n)[i] = b[i]
<1>1. Len(b) \in Nat /\ \A i \in 1 .. n : b[i] \in Slot
    BY ElementOfSeq
<1>2. /\ SubSeq(b, 1, n) \in Seq(Slot)
      /\ Len(SubSeq(b, 1, n)) = IF 1 <= n THEN n - 1 + 1 ELSE 0
      /\ \A i \in 1 .. n - 1 + 1 : SubSeq(b, 1, n)[i] = b[1 + i - 1]
    BY <1>1, SubSeqProperties
<1>3. \A i \in 1 .. n : i \in 1 .. n - 1 + 1 /\ 1 + i - 1 = i
    BY <1>1
<1>4. Len(SubSeq(b, 1, n)) = n
    BY <1>1, <1>2
<1> QED
    BY <1>2, <1>3, <1>4

(* A run has no half-filled element, and at most one element is not        *)
(* finished.                                                               *)
LEMMA FinishedFacts ==
    ASSUME NEW b \in Seq(Slot)
    PROVE  /\ Finished(b) \in Seq(Slot) /\ Len(Finished(b)) \in Nat
           /\ Len(b) \in Nat /\ (b = << >> <=> Len(b) = 0)
           /\ Len(b) \in {Len(Finished(b)), Len(Finished(b)) + 1}
           /\ \A n \in Nat : Run(b, n) => Finished(b) = b
<1>1. Len(b) \in Nat /\ (b = << >> <=> Len(b) = 0) /\ \A i \in 1 .. Len(b) : b[i] \in Slot
    BY EmptySeq, ElementOfSeq
<1>2. CASE b # << >> /\ ~Last(b).valid
    <2>1. /\ SubSeq(b, 1, Len(b) - 1) \in Seq(Slot)
          /\ Len(SubSeq(b, 1, Len(b) - 1)) = Len(b) - 1
        <3>1. Len(b) - 1 \in 0 .. Len(b)
            BY <1>1, <1>2
        <3> QED
            BY <3>1, PrefixFacts
    <2>2. Finished(b) = SubSeq(b, 1, Len(b) - 1)
        BY <1>2 DEF Finished, Front
    <2>3. \A n \in Nat : ~Run(b, n)
        BY <1>1, <1>2 DEF Run, Last
    <2> QED
        BY <1>1, <1>2, <2>1, <2>2, <2>3
<1>3. CASE ~(b # << >> /\ ~Last(b).valid)
    BY <1>1, <1>3 DEF Finished
<1> QED
    BY <1>2, <1>3

(* GetBuffer(): the result ends with an element to fill in, after the same *)
(* finished ones.                                                          *)
LEMMA GetBufferFacts ==
    ASSUME NEW b \in Seq(Slot)
    PROVE  /\ GetBuffer(b) \in Seq(Slot) /\ GetBuffer(b) # << >>
           /\ ~Last(GetBuffer(b)).valid
           /\ Finished(GetBuffer(b)) = Finished(b)
           /\ Len(GetBuffer(b)) = Len(Finished(b)) + 1
<1>1. Len(b) \in Nat /\ (b = << >> <=> Len(b) = 0) /\ \A i \in 1 .. Len(b) : b[i] \in Slot
    BY EmptySeq, ElementOfSeq
<1>2. CASE b # << >> /\ ~Last(b).valid
    <2>1. GetBuffer(b) = b
        BY <1>2 DEF GetBuffer
    <2>2. Finished(b) = SubSeq(b, 1, Len(b) - 1)
        BY <1>2 DEF Finished, Front
    <2>3. Len(SubSeq(b, 1, Len(b) - 1)) = Len(b) - 1
        <3>1. Len(b) - 1 \in 0 .. Len(b)
            BY <1>1, <1>2
        <3> QED
            BY <3>1, PrefixFacts
    <2> QED
        BY <1>1, <1>2, <2>1, <2>2, <2>3
<1>3. CASE ~(b # << >> /\ ~Last(b).valid)
    <2> DEFINE g == Append(b, Fresh)
    <2>1. GetBuffer(b) = g /\ Finished(b) = b
        BY <1>3 DEF GetBuffer, Finished
    <2>2. Fresh \in Slot /\ ~Fresh.valid
        BY BufferAssumption DEF Fresh, Slot, Kinds
    <2>3. /\ g \in Seq(Slot) /\ Len(g) = Len(b) + 1 /\ g[Len(b) + 1] = Fresh
          /\ \A i \in 1 .. Len(b) : g[i] = b[i]
        BY <1>1, <2>2, AppendProperties
    <2>4. g # << >>
        BY <1>1, <2>3, EmptySeq
    <2> HIDE DEF g
    <2>5. ~Last(g).valid
        BY <2>2, <2>3 DEF Last
    <2>6. Finished(g) = SubSeq(g, 1, Len(b))
        BY <1>1, <2>3, <2>4, <2>5 DEF Finished, Front
    <2>7. SubSeq(g, 1, Len(b)) = b
        <3>1. Len(b) \in 0 .. Len(g)
            BY <1>1, <2>3
        <3>2. /\ SubSeq(g, 1, Len(b)) \in Seq(Slot) /\ Len(SubSeq(g, 1, Len(b))) = Len(b)
              /\ \A i \in 1 .. Len(b) : SubSeq(g, 1, Len(b))[i] = b[i]
            BY <2>3, <3>1, PrefixFacts
        <3> QED
            BY <3>2, SeqEqual
    <2> QED
        BY <2>1, <2>3, <2>4, <2>5, <2>6, <2>7
<1> QED
    BY <1>2, <1>3

(* The caller of GetBuffer() finishes the last element: the finished ones  *)
(* are a longer run.                                                       *)
LEMMA ValidateFacts ==
    ASSUME NEW b \in Seq(Slot), b # << >>, ~Last(b).valid,
           NEW n \in Nat, Run(Finished(b), n), sent = n + Len(Finished(b)),
           sent \in Nat, sent < MaxHandshakes, NEW kind \in Kinds
    PROVE  /\ Validate(b, kind) \in Seq(Slot) /\ Len(Validate(b, kind)) = Len(b)
           /\ Run(Validate(b, kind), n)
           /\ Finished(Validate(b, kind)) = Validate(b, kind)
           /\ Len(b) = Len(Finished(b)) + 1
           /\ \A i \in 1 .. Len(b) - 1 : Validate(b, kind)[i] = b[i]
           /\ Validate(b, kind)[Len(b)] = [id |-> sent + 1, kind |-> kind, valid |-> TRUE]
<1> DEFINE x == [id |-> sent + 1, kind |-> kind, valid |-> TRUE]
           v == Validate(b, kind)
           m == Len(b)
<1>1. m \in Nat \ {0}
    BY EmptySeq
<1>2. x \in Slot /\ x.valid /\ x.id = sent + 1
    BY BufferAssumption DEF Slot
<1>3. /\ Finished(b) = SubSeq(b, 1, m - 1) /\ Len(Finished(b)) = m - 1
      /\ \A i \in 1 .. m - 1 : Finished(b)[i] = b[i]
    <2>1. Finished(b) = SubSeq(b, 1, m - 1)
        BY DEF Finished, Front
    <2>2. m - 1 \in 0 .. m
        BY <1>1
    <2> QED
        BY <2>1, <2>2, PrefixFacts
<1>4. v = [b EXCEPT ![m] = x] /\ m \in 1 .. m
    BY <1>1 DEF Validate
<1>5. /\ v \in Seq(Slot) /\ Len(v) = m
      /\ \A i \in 1 .. m : v[i] = IF i = m THEN x ELSE b[i]
    BY <1>2, <1>4, ExceptSeq
<1>6. \A i \in 1 .. m - 1 : b[i].valid /\ b[i].id = n + i
    BY <1>3 DEF Run
<1>7. sent + 1 = n + m
    BY <1>1, <1>3
<1> HIDE DEF x, v, m
<1>8. ASSUME NEW i \in 1 .. m PROVE v[i].valid /\ v[i].id = n + i
    <2>1. CASE i = m
        BY <1>2, <1>5, <1>7, <2>1
    <2>2. CASE i # m
        <3>1. i \in 1 .. m - 1 /\ v[i] = b[i]
            BY <1>1, <1>5, <2>2
        <3> QED
            BY <1>6, <3>1
    <2> QED
        BY <2>1, <2>2
<1>9. Run(v, n)
    BY <1>5, <1>8 DEF Run
<1>10. Finished(v) = v
    BY <1>5, <1>9, FinishedFacts
<1>11. /\ \A i \in 1 .. m - 1 : v[i] = b[i]
       /\ v[m] = x /\ m = Len(Finished(b)) + 1
    BY <1>1, <1>3, <1>5
<1> QED
    BY <1>5, <1>9, <1>10, <1>11 DEF v, x, m

-----------------------------------------------------------------------------
(* What holds in every state that satisfies the invariant.                 *)

(* The numbers are naturals, and none of the buffers is too long.          *)
LEMMA Numbers ==
    ASSUME IInv
    PROVE  /\ sent \in Nat /\ received \in Nat /\ fileEntryCount \in Nat /\ left \in Nat
           /\ MaxHandshakes \in Nat /\ Capacity \in Nat \ {0} /\ sent <= MaxHandshakes
           /\ mark \in Nat
           /\ FilesFrom \in Nat /\ FilesTo \in Nat /\ received <= FilesFrom
           /\ FilesTo = FilesFrom + fileEntryCount
           /\ consumeBuffer \in Seq(Slot) /\ Len(consumeBuffer) \in Nat
           /\ file \in Seq(Slot) /\ Len(file) \in Nat
           /\ produceBuffer \in Seq(Slot) /\ Len(produceBuffer) \in Nat
           /\ Len(Finished(produceBuffer)) \in Nat
           /\ (files = << >> <=> fileEntryCount = 0)
           /\ (consumer = "reading" => FilesFrom = received)
           /\ (consumer # "reading" => FilesFrom = received + Len(consumeBuffer))
<1>1. /\ sent \in Nat /\ received \in Nat /\ fileEntryCount \in Nat /\ left \in Nat
      /\ MaxHandshakes \in Nat /\ Capacity \in Nat \ {0} /\ sent <= MaxHandshakes
      /\ mark \in Nat
    BY BufferAssumption DEF IInv, Scalars
<1>2. /\ consumeBuffer \in Seq(Slot) /\ Len(consumeBuffer) \in Nat
      /\ file \in Seq(Slot) /\ Len(file) \in Nat
      /\ produceBuffer \in Seq(Slot) /\ Len(produceBuffer) \in Nat
    BY DEF IInv, InOrder, Run
<1>3. Len(Finished(produceBuffer)) \in Nat
    BY <1>2, FinishedFacts
<1>4. FilesFrom \in Nat /\ received <= FilesFrom
    BY <1>1, <1>2 DEF FilesFrom
<1>5. FilesTo \in Nat /\ FilesTo = FilesFrom + fileEntryCount
    BY <1>1, <1>4 DEF FilesTo
<1>6. files = << >> <=> fileEntryCount = 0
    <2>1. FilesRun(files, FilesFrom, FilesTo)
        BY DEF IInv, InOrder
    <2>2. CASE files = << >>
        BY <1>1, <1>4, <1>5, <2>1, <2>2, FilesBounds DEF FilesRun
    <2>3. CASE files # << >>
        <3>1. Len(Head(files)) \in 1 .. Capacity /\ FilesFrom + Len(Head(files)) <= FilesTo
            BY <1>4, <1>5, <2>1, <2>3, FilesTail
        <3> QED
            BY <1>1, <1>4, <1>5, <2>3, <3>1
    <2> QED
        BY <2>2, <2>3
<1>7. /\ (consumer = "reading" => FilesFrom = received)
      /\ (consumer # "reading" => FilesFrom = received + Len(consumeBuffer))
    BY DEF FilesFrom
<1> QED
    BY <1>1, <1>2, <1>3, <1>4, <1>5, <1>6, <1>7

(* The invariant implies what the run checks.                              *)
LEMMA IInvSound == IInv => BuffersSound
<1> SUFFICES ASSUME IInv PROVE BuffersSound
    OBVIOUS
<1>1. TypeOK
    <2>1. file \in Seq(Slot) /\ consumeBuffer \in Seq(Slot) /\ produceBuffer \in Seq(Slot)
        BY Numbers
    <2>2. \A b \in ToSet(files) : b \in Seq(Slot)
        BY DEF IInv, InOrder, FilesRun, ToSet
    <2> QED
        BY <2>1, <2>2 DEF IInv, Scalars, TypeOK
<1>2. BuffersFit
    <2>1. ASSUME op = "none" PROVE Len(produceBuffer) < Capacity \/ ~Last(produceBuffer).valid
        <3>1. Len(Finished(produceBuffer)) < Capacity
            BY <2>1 DEF IInv, Writing
        <3>2. CASE Finished(produceBuffer) = produceBuffer
            BY <3>1, <3>2
        <3>3. CASE Finished(produceBuffer) # produceBuffer
            BY <3>3 DEF Finished
        <3> QED
            BY <3>2, <3>3
    <2>2. ASSUME consumer = "reading", left > 0 PROVE Len(consumeBuffer) < Capacity
        <3>1. Len(consumeBuffer) + left = Len(Head(files)) /\ files # << >>
            BY <2>2 DEF IInv, Reading
        <3>2. FilesRun(files, FilesFrom, FilesTo)
            BY DEF IInv, InOrder
        <3>3. Len(Head(files)) \in 1 .. Capacity
            BY <3>1, <3>2, FilesTail, Numbers
        <3> QED
            BY <2>2, <3>1, <3>3, Numbers
    <2> QED
        BY <2>1, <2>2 DEF BuffersFit
<1>3. BatchInMemory
    BY DEF IInv, InOrder, Reading, Run, BatchInMemory
<1> QED
    BY <1>1, <1>2, <1>3 DEF BuffersSound

-----------------------------------------------------------------------------
(* The steps preserve the invariant.                                       *)

(* Nothing that leaves the handshakes where they are disturbs their order. *)
LEMMA OrderKept ==
    ASSUME IInv, UNCHANGED <<producing, files, fileEntryCount, consuming>>
    PROVE  InOrder' /\ Reading' /\ produceBuffer' \in Seq(Slot)
BY DEF IInv, InOrder, Reading, FilesFrom, FilesTo, producing, consuming

(* ProducerDone() after the element at the back was filled in.             *)
LEMMA SendStep ==
    ASSUME IInv, UNCHANGED consuming,
           NEW g \in Seq(Slot), g # << >>, ~Last(g).valid,
           Finished(g) = Finished(produceBuffer),
           NEW kind \in Kinds, NEW next \in {"none", "flush"},
           op = "none", sent < MaxHandshakes,
           ProducerDone(Validate(g, kind), next)
    PROVE  /\ InOrder' /\ Writing' /\ Reading' /\ produceBuffer' \in Seq(Slot)
           /\ Len(produceBuffer') <= Capacity
           /\ op' \in {"none", "flush", "writing"} /\ then' \in {"none", "flush"}
           /\ sent' = sent + 1 /\ UNCHANGED fileEntryCount
<1> DEFINE v == Validate(g, kind)
           n == FilesTo + Len(file)
<1>1. /\ produceBuffer' = v /\ sent' = sent + 1 /\ UNCHANGED <<file, files, fileEntryCount>>
      /\ op' = (IF full(v) THEN "writing" ELSE next)
      /\ then' = (IF full(v) THEN next ELSE "none")
    BY DEF ProducerDone
<1>2. UNCHANGED <<FilesFrom, FilesTo, consumeBuffer, received, consumer, left>>
    BY <1>1 DEF consuming, FilesFrom, FilesTo
<1>3. /\ n \in Nat /\ sent \in Nat /\ Run(Finished(g), n) /\ sent = n + Len(Finished(g))
      /\ Capacity \in Nat /\ Len(Finished(g)) \in Nat
    <2>1. Run(Finished(g), n) /\ sent = n + Len(Finished(g))
        BY DEF IInv, InOrder
    <2>2. n \in Nat /\ sent \in Nat /\ Capacity \in Nat /\ Len(Finished(g)) \in Nat
        <3>1. /\ FilesTo \in Nat /\ Len(file) \in Nat /\ sent \in Nat /\ Capacity \in Nat \ {0}
              /\ Len(Finished(produceBuffer)) \in Nat
            BY Numbers
        <3> QED
            BY <3>1
    <2> QED
        BY <2>1, <2>2
<1>4. file = << >> /\ Len(Finished(g)) < Capacity
    BY DEF IInv, Writing
<1>5. /\ v \in Seq(Slot) /\ Len(v) = Len(Finished(g)) + 1 /\ Run(v, n) /\ Finished(v) = v
    BY <1>3, ValidateFacts
<1> HIDE DEF v, n
<1>6. InOrder'
    <2>1. sent' = n + Len(v)
        BY <1>1, <1>3, <1>5
    <2> QED
        BY <1>1, <1>2, <1>5, <2>1 DEF IInv, InOrder, n
<1>7. Writing'
    <2>1. Len(file') = 0
        BY <1>1, <1>4
    <2>2. CASE full(v)
        BY <1>1, <1>3, <1>4, <1>5, <2>1, <2>2 DEF Writing, full
    <2>3. CASE ~full(v)
        BY <1>1, <1>3, <1>4, <1>5, <2>3 DEF Writing, full
    <2> QED
        BY <2>2, <2>3
<1>8. Reading'
    BY <1>1, <1>2 DEF IInv, Reading
<1>9. Len(v) <= Capacity
    BY <1>3, <1>4, <1>5
<1> QED
    BY <1>1, <1>5, <1>6, <1>7, <1>8, <1>9

(* The same through GetBuffer(), for a handshake that is no instruction.   *)
LEMMA AddStep ==
    ASSUME IInv, UNCHANGED consuming, NEW kind \in Kinds, NEW next \in {"none", "flush"},
           op = "none", sent < MaxHandshakes, AddHandshake(kind, next)
    PROVE  /\ InOrder' /\ Writing' /\ Reading' /\ produceBuffer' \in Seq(Slot)
           /\ Len(produceBuffer') <= Capacity
           /\ op' \in {"none", "flush", "writing"} /\ then' \in {"none", "flush"}
           /\ sent' = sent + 1 /\ UNCHANGED fileEntryCount
<1>1. /\ GetBuffer(produceBuffer) \in Seq(Slot) /\ GetBuffer(produceBuffer) # << >>
      /\ ~Last(GetBuffer(produceBuffer)).valid
      /\ Finished(GetBuffer(produceBuffer)) = Finished(produceBuffer)
    BY Numbers, GetBufferFacts
<1> QED
    BY <1>1, SendStep DEF AddHandshake

(* What the owner and the pauser start.                                    *)
LEMMA ProduceInv ==
    ASSUME IInv, Overlap = FALSE, Produce
    PROVE  IInv'
<1> USE BufferAssumption
<1>0. UNCHANGED workload
    BY DEF Produce
<1>n. /\ sent \in Nat /\ received \in Nat /\ MaxHandshakes \in Nat /\ Capacity \in Nat \ {0}
      /\ Len(produceBuffer) \in Nat
    BY Numbers
<1>1. ASSUME GetProperBuffer PROVE IInv'
    <2> DEFINE g == GetBuffer(produceBuffer)
    <2>1. /\ g \in Seq(Slot) /\ g # << >> /\ ~Last(g).valid
          /\ Finished(g) = Finished(produceBuffer) /\ Len(g) = Len(Finished(produceBuffer)) + 1
        BY Numbers, GetBufferFacts
    <2>2. /\ produceBuffer' = g /\ owner' = "inside" /\ op = "none" /\ ~ignore_all /\ sent + 1 < MaxHandshakes
          /\ UNCHANGED <<file, files, fileEntryCount, sent, op, then, consumeBuffer, received,
                         consumer, left, ignore_all, pauser, mark, scheduled, messages>>
        BY <1>1 DEF GetProperBuffer, Room, consuming, scheduling
    <2> HIDE DEF g
    <2>3. InOrder'
        BY <2>1, <2>2 DEF IInv, InOrder, FilesFrom, FilesTo
    <2>4. Writing'
        BY <2>1, <2>2 DEF IInv, Writing
    <2>5. Filling'
        BY <1>n, <2>1, <2>2 DEF IInv, Filling
    <2>6. Reading'
        BY <2>2 DEF IInv, Reading
    <2>7. Len(g) <= Capacity
        BY <1>n, <2>1, <2>2, Numbers DEF IInv, Writing
    <2>8. Scalars'
        BY <1>0, <2>2, <2>7 DEF IInv, Scalars
    <2> QED
        BY <2>1, <2>2, <2>3, <2>4, <2>5, <2>6, <2>8 DEF IInv
<1>2. ASSUME Return PROVE IInv'
    <2>1. InOrder' /\ Reading' /\ produceBuffer' \in Seq(Slot)
        BY <1>2, OrderKept DEF Return, producing
    <2>2. Writing' /\ Filling' /\ Scalars'
        BY <1>0, <1>2 DEF Return, producing, consuming, scheduling, IInv, Writing, Filling, Scalars
    <2> QED
        BY <2>1, <2>2 DEF IInv
<1>3. ASSUME FinalizeBuffer PROVE IInv'
    <2>1. /\ op = "none" /\ produceBuffer # << >> /\ ~Last(produceBuffer).valid
          /\ sent < MaxHandshakes /\ ~ignore_all
        BY <1>3 DEF FinalizeBuffer, IInv, Filling
    <2>2. /\ InOrder' /\ Writing' /\ Reading' /\ produceBuffer' \in Seq(Slot)
          /\ Len(produceBuffer') <= Capacity
          /\ op' \in {"none", "flush", "writing"} /\ then' \in {"none", "flush"}
          /\ sent' = sent + 1 /\ UNCHANGED fileEntryCount
        BY <1>3, <2>1, SendStep, Numbers DEF FinalizeBuffer, Kinds
    <2>3. Filling' /\ Scalars'
        BY <1>0, <1>3, <1>n, <2>1, <2>2 DEF FinalizeBuffer, consuming, scheduling, IInv, Filling, Scalars
    <2> QED
        BY <2>2, <2>3 DEF IInv
<1>4. ASSUME AddYieldHandshake PROVE IInv'
    <2>1. op = "none" /\ sent < MaxHandshakes
        BY <1>4, <1>n DEF AddYieldHandshake, Room
    <2>2. /\ InOrder' /\ Writing' /\ Reading' /\ produceBuffer' \in Seq(Slot)
          /\ Len(produceBuffer') <= Capacity
          /\ op' \in {"none", "flush", "writing"} /\ then' \in {"none", "flush"}
          /\ sent' = sent + 1 /\ UNCHANGED fileEntryCount
        BY <1>4, <2>1, AddStep DEF AddYieldHandshake, Kinds
    <2>3. Filling' /\ Scalars'
        BY <1>0, <1>4, <1>n, <2>1, <2>2 DEF AddYieldHandshake, consuming, scheduling, IInv, Filling, Scalars
    <2> QED
        BY <2>2, <2>3 DEF IInv
<1>5. ASSUME SyncWithTimingSim PROVE IInv'
    <2>1. op = "none" /\ sent < MaxHandshakes
        BY <1>5, <1>n DEF SyncWithTimingSim, Room
    <2>2. /\ InOrder' /\ Writing' /\ Reading' /\ produceBuffer' \in Seq(Slot)
          /\ Len(produceBuffer') <= Capacity
          /\ op' \in {"none", "flush", "writing"} /\ then' \in {"none", "flush"}
          /\ sent' = sent + 1 /\ UNCHANGED fileEntryCount
        BY <1>5, <2>1, AddStep DEF SyncWithTimingSim, Kinds
    <2>3. Filling' /\ Scalars'
        BY <1>0, <1>5, <1>n, <2>1, <2>2 DEF SyncWithTimingSim, consuming, scheduling, IInv, Filling, Scalars
    <2> QED
        BY <2>2, <2>3 DEF IInv
<1>6. ASSUME ThreadFini PROVE IInv'
    <2>1. op = "none" /\ sent < MaxHandshakes
        BY <1>6 DEF ThreadFini
    <2>2. /\ InOrder' /\ Writing' /\ Reading' /\ produceBuffer' \in Seq(Slot)
          /\ Len(produceBuffer') <= Capacity
          /\ op' \in {"none", "flush", "writing"} /\ then' \in {"none", "flush"}
          /\ sent' = sent + 1 /\ UNCHANGED fileEntryCount
        BY <1>6, <2>1, AddStep DEF ThreadFini, Kinds
    <2>3. Filling' /\ Scalars'
        BY <1>0, <1>6, <1>n, <2>1, <2>2 DEF ThreadFini, consuming, scheduling, IInv, Filling, Scalars
    <2> QED
        BY <2>2, <2>3 DEF IInv
<1>7. ASSUME PauseSimulation, scheduled PROVE IInv'
    <2>1. op = "none" /\ sent + 2 < MaxHandshakes /\ owner # "inside"
        BY <1>7 DEF PauseSimulation, Room
    <2>2. /\ InOrder' /\ Writing' /\ Reading' /\ produceBuffer' \in Seq(Slot)
          /\ Len(produceBuffer') <= Capacity
          /\ op' \in {"none", "flush", "writing"} /\ then' \in {"none", "flush"}
          /\ sent' = sent + 1 /\ UNCHANGED fileEntryCount
        BY <1>7, <1>n, <2>1, AddStep DEF PauseSimulation, Kinds
    <2>3. Filling' /\ Scalars'
        BY <1>0, <1>7, <1>n, <2>1, <2>2 DEF PauseSimulation, consuming, scheduling, IInv, Filling, Scalars
    <2> QED
        BY <2>2, <2>3 DEF IInv
<1>8. ASSUME PauseSimulation, ~scheduled PROVE IInv'
    <2>1. InOrder' /\ Reading' /\ produceBuffer' \in Seq(Slot)
        BY <1>8, OrderKept DEF PauseSimulation, producing
    <2>2. Writing' /\ Filling' /\ Scalars'
        BY <1>0, <1>8 DEF PauseSimulation, producing, consuming, scheduling, IInv, Writing, Filling, Scalars
    <2> QED
        BY <2>1, <2>2 DEF IInv
<1>9. ASSUME ResumeSimulation PROVE IInv'
    <2>1. InOrder' /\ Reading' /\ produceBuffer' \in Seq(Slot)
        BY <1>9, OrderKept DEF ResumeSimulation, producing
    <2>2. Writing' /\ Filling' /\ Scalars'
        BY <1>0, <1>9 DEF ResumeSimulation, producing, consuming, scheduling, IInv, Writing, Filling, Scalars
    <2> QED
        BY <2>1, <2>2 DEF IInv
<1> QED
    BY <1>1, <1>2, <1>3, <1>4, <1>5, <1>6, <1>7, <1>8, <1>9 DEF Produce

(* FlushBuffers() and copyProducerToFile().                                *)
LEMMA CopyInv ==
    ASSUME IInv, Copy
    PROVE  IInv'
<1> USE BufferAssumption
<1>0. UNCHANGED workload
    BY DEF Copy
<1>n. /\ sent \in Nat /\ received \in Nat /\ MaxHandshakes \in Nat /\ Capacity \in Nat \ {0}
      /\ Len(produceBuffer) \in Nat /\ Len(file) \in Nat /\ fileEntryCount \in Nat
      /\ FilesFrom \in Nat /\ FilesTo \in Nat /\ FilesTo = FilesFrom + fileEntryCount
      /\ produceBuffer \in Seq(Slot) /\ file \in Seq(Slot) /\ Len(consumeBuffer) \in Nat
    BY Numbers
<1>p. /\ (produceBuffer = << >> <=> Len(produceBuffer) = 0)
      /\ (file = << >> <=> Len(file) = 0)
    BY <1>n, FinishedFacts
<1>1. ASSUME FlushBuffers PROVE IInv'
    <2>1. InOrder' /\ Reading' /\ produceBuffer' \in Seq(Slot)
        BY <1>1, OrderKept DEF FlushBuffers, producing
    <2>2. Writing'
        <3>1. /\ op = "flush" /\ op' = (IF produceBuffer = << >> THEN "none" ELSE "writing")
              /\ UNCHANGED <<produceBuffer, file>>
            BY <1>1 DEF FlushBuffers, producing
        <3>2. /\ Finished(produceBuffer) = produceBuffer /\ file = << >>
              /\ Len(produceBuffer) < Capacity
            BY <3>1 DEF IInv, Writing
        <3>3. CASE produceBuffer = << >>
            BY <3>1, <3>2, <3>3 DEF Writing
        <3>4. CASE produceBuffer # << >>
            BY <1>n, <1>p, <3>1, <3>2, <3>4 DEF Writing
        <3> QED
            BY <3>3, <3>4
    <2>3. Filling' /\ Scalars'
        BY <1>0, <1>1 DEF FlushBuffers, producing, consuming, scheduling, IInv, Filling, Scalars
    <2> QED
        BY <2>1, <2>2, <2>3 DEF IInv
<1>2. ASSUME op = "writing" PROVE /\ Run(file, FilesTo) /\ Run(produceBuffer, FilesTo + Len(file))
                                  /\ Finished(produceBuffer) = produceBuffer
                                  /\ sent = FilesTo + Len(file) + Len(produceBuffer)
                                  /\ Len(file) + Len(produceBuffer) \in 1 .. Capacity
                                  /\ owner # "inside"
    BY <1>2 DEF IInv, InOrder, Writing, Filling
<1>3. ASSUME writeHandshake PROVE IInv'
    <2> DEFINE x == Head(produceBuffer)
               f == Append(file, x)
               b == Tail(produceBuffer)
    <2>1. /\ op = "writing" /\ produceBuffer # << >> /\ file' = f /\ produceBuffer' = b
          /\ UNCHANGED <<files, fileEntryCount, sent, op, then, consumeBuffer, received, consumer,
                         left, owner, ignore_all, pauser, mark, scheduled, messages>>
        BY <1>3 DEF writeHandshake, consuming, scheduling
    <2>2. /\ x \in Slot /\ x.valid /\ x.id = FilesTo + Len(file) + 1
          /\ Run(b, FilesTo + Len(file) + 1) /\ Len(b) = Len(produceBuffer) - 1
        BY <1>2, <1>n, <2>1, RunTail
    <2>3. Run(f, FilesTo) /\ Len(f) = Len(file) + 1
        BY <1>2, <1>n, <2>1, <2>2, RunAppend
    <2>4. Finished(b) = b /\ b \in Seq(Slot) /\ Len(b) \in Nat
        <3>1. b \in Seq(Slot)
            BY <2>2 DEF Run
        <3>2. FilesTo + Len(file) + 1 \in Nat
            BY <1>n
        <3> QED
            BY <2>2, <3>1, <3>2, FinishedFacts
    <2> HIDE DEF x, f, b
    <2>5. UNCHANGED <<FilesFrom, FilesTo>>
        BY <2>1 DEF FilesFrom, FilesTo
    <2>6. InOrder'
        <3>1. /\ sent = FilesTo + Len(f) + Len(b)
              /\ FilesTo + Len(file) + 1 = FilesTo + Len(f)
            BY <1>2, <1>n, <2>1, <2>2, <2>3, <2>4
        <3> QED
            BY <2>1, <2>2, <2>3, <2>4, <2>5, <3>1 DEF IInv, InOrder
    <2>7. Writing'
        <3>1. Len(f) + Len(b) \in 1 .. Capacity
            BY <1>2, <1>n, <2>1, <2>2, <2>3
        <3> QED
            BY <2>1, <2>4, <3>1 DEF Writing
    <2>8. Filling' /\ Reading'
        BY <1>2, <2>1 DEF IInv, Filling, Reading
    <2>9. Scalars'
        <3>1. Len(b) <= Capacity
            BY <1>2, <1>n, <2>1, <2>2
        <3> QED
            BY <1>0, <2>1, <3>1 DEF IInv, Scalars
    <2> QED
        BY <2>1, <2>4, <2>6, <2>7, <2>8, <2>9 DEF IInv
<1>4. ASSUME NotifyProduced PROVE IInv'
    <2> DEFINE fs == Append(files, file)
    <2>1. /\ op = "writing" /\ produceBuffer = << >> /\ files' = fs /\ file' = << >>
          /\ fileEntryCount' = fileEntryCount + Len(file)
          /\ consumer' = (IF consumer = "asleep" THEN "front" ELSE consumer)
          /\ op' = then /\ then' = "none"
          /\ UNCHANGED <<produceBuffer, sent, consumeBuffer, received,
                         left, owner, ignore_all, pauser, mark, scheduled, messages>>
        BY <1>4 DEF NotifyProduced, scheduling
    <2>2. Len(file) \in 1 .. Capacity /\ sent = FilesTo + Len(file) /\ Finished(<< >>) = << >>
        BY <1>2, <1>n, <1>p, <2>1
    <2>3. FilesRun(fs, FilesFrom, FilesTo + Len(file)) /\ fs # << >>
        <3>1. FilesRun(files, FilesFrom, FilesTo)
            BY DEF IInv, InOrder
        <3> QED
            BY <1>2, <1>n, <2>1, <2>2, <3>1, FilesAppend
    <2>4. consumer = "reading" => Head(fs) = Head(files)
        <3> HAVE consumer = "reading"
        <3>1. files # << >> /\ files \in Seq(Seq(Slot)) /\ file \in Seq(Slot)
            BY <1>n DEF IInv, InOrder, Reading, FilesRun
        <3> QED
            BY <3>1, HeadTailAppend
    <2> HIDE DEF fs
    <2>5. consumer' = "reading" <=> consumer = "reading"
        BY <2>1
    <2>6. FilesFrom' = FilesFrom
        BY <2>1, <2>5 DEF FilesFrom
    <2>7. FilesTo' = FilesTo + Len(file)
        BY <1>n, <2>1, <2>6 DEF FilesTo
    <2>8. InOrder'
        <3>1. /\ Run(<< >>, FilesTo + Len(file)) /\ Run(<< >>, FilesTo + Len(file) + Len(<< >>))
              /\ Len(<< >>) = 0 /\ sent = FilesTo + Len(file) + Len(<< >>) + Len(<< >>)
            BY <1>n, <2>2, RunEmpty
        <3>2. Run(consumeBuffer, received)
            BY DEF IInv, InOrder
        <3> QED
            BY <2>1, <2>2, <2>3, <2>6, <2>7, <3>1, <3>2 DEF InOrder
    <2>9. Writing'
        <3>1. then \in {"none", "flush"}
            BY DEF IInv, Scalars
        <3>2. Len(<< >>) < Capacity
            BY <1>n, RunEmpty
        <3> QED
            BY <2>1, <2>2, <3>1, <3>2 DEF Writing
    <2>10. Filling'
        BY <1>2, <2>1 DEF IInv, Filling
    <2>11. Reading'
        BY <2>1, <2>3, <2>4 DEF IInv, Reading
    <2>12. Scalars'
        <3>1. fileEntryCount + Len(file) \in 0 .. MaxHandshakes
            BY <1>n, <2>2 DEF IInv, Scalars
        <3> QED
            BY <1>0, <2>1, <3>1 DEF IInv, Scalars
    <2> QED
        BY <1>n, <2>1, <2>8, <2>9, <2>10, <2>11, <2>12 DEF IInv
<1> QED
    BY <1>1, <1>3, <1>4 DEF Copy

(* The waits of the owner, the end of the pauser's calls, and messages.    *)
LEMMA WaitInv ==
    ASSUME IInv, Waits \/ Pause \/ Schedule
    PROVE  IInv'
<1> USE BufferAssumption
<1>0. UNCHANGED workload
    BY DEF Waits, Pause, Schedule
<1>n. sent \in Nat /\ received \in Nat /\ MaxHandshakes \in Nat /\ Capacity \in Nat \ {0}
    BY Numbers
<1>1. ASSUME AddGiveUpHandshake PROVE IInv'
    <2>1. op = "none" /\ sent < MaxHandshakes /\ owner # "inside"
        BY <1>1 DEF AddGiveUpHandshake, IInv, Filling
    <2>2. /\ InOrder' /\ Writing' /\ Reading' /\ produceBuffer' \in Seq(Slot)
          /\ Len(produceBuffer') <= Capacity
          /\ op' \in {"none", "flush", "writing"} /\ then' \in {"none", "flush"}
          /\ sent' = sent + 1 /\ UNCHANGED fileEntryCount
        BY <1>1, <2>1, AddStep DEF AddGiveUpHandshake, Kinds
    <2>3. Filling' /\ Scalars'
        BY <1>0, <1>1, <1>n, <2>1, <2>2 DEF AddGiveUpHandshake, consuming, scheduling, IInv, Filling, Scalars
    <2> QED
        BY <2>2, <2>3 DEF IInv
<1>2. ASSUME ScheduleThread \/ SeesScheduled \/ ThreadsDone \/ AllScheduled \/ CheckIPCMessageQueue
      PROVE  IInv'
    <2>1. InOrder' /\ Reading' /\ produceBuffer' \in Seq(Slot)
        BY <1>2, OrderKept DEF ScheduleThread, SeesScheduled, ThreadsDone, AllScheduled,
            CheckIPCMessageQueue, producing
    <2>2. Writing' /\ Filling'
        BY <1>2 DEF ScheduleThread, SeesScheduled, ThreadsDone, AllScheduled,
            CheckIPCMessageQueue, producing, IInv, Writing, Filling
    <2>3. messages' \subseteq {"owner", "pauser"}
        <3>1. messages \subseteq {"owner", "pauser"}
            BY DEF IInv, Scalars
        <3> QED
            BY <1>2, <3>1 DEF ScheduleThread, SeesScheduled, ThreadsDone, AllScheduled,
                CheckIPCMessageQueue, scheduling
    <2>4. /\ UNCHANGED <<producing, fileEntryCount, op, then, consuming, ignore_all, mark>>
          /\ owner' \in {owner, "sched", "idle"} /\ pauser' \in {pauser, "none"}
        BY <1>2 DEF ScheduleThread, SeesScheduled, ThreadsDone, AllScheduled,
            CheckIPCMessageQueue
    <2>5. scheduled' \in BOOLEAN
        <3>1. scheduled \in BOOLEAN
            BY DEF IInv, Scalars
        <3>2. scheduled' = scheduled \/ scheduled' = TRUE
            BY <1>2 DEF ScheduleThread, SeesScheduled, ThreadsDone, AllScheduled,
                CheckIPCMessageQueue, scheduling
        <3> QED
            BY <3>1, <3>2, Zenon
    <2>6. Scalars'
        BY <1>0, <2>3, <2>4, <2>5 DEF producing, consuming, IInv, Scalars
    <2> QED
        BY <2>1, <2>2, <2>6 DEF IInv
<1> QED
    BY <1>1, <1>2 DEF Waits, Pause, Schedule

(* The sim thread.                                                         *)
LEMMA SimulateInv ==
    ASSUME IInv, Simulate
    PROVE  IInv'
<1> USE BufferAssumption
<1>0. UNCHANGED workload
    BY DEF Simulate
<1>n. /\ sent \in Nat /\ received \in Nat /\ MaxHandshakes \in Nat /\ Capacity \in Nat \ {0}
      /\ fileEntryCount \in Nat /\ left \in Nat /\ Len(file) \in Nat
      /\ FilesFrom \in Nat /\ FilesTo \in Nat /\ FilesTo = FilesFrom + fileEntryCount
      /\ produceBuffer \in Seq(Slot) /\ Len(Finished(produceBuffer)) \in Nat
      /\ consumeBuffer \in Seq(Slot) /\ Len(consumeBuffer) \in Nat
      /\ (files = << >> <=> fileEntryCount = 0)
      /\ (consumer = "reading" => FilesFrom = received)
      /\ (consumer # "reading" => FilesFrom = received + Len(consumeBuffer))
    BY Numbers
<1>o. /\ Run(consumeBuffer, received) /\ FilesRun(files, FilesFrom, FilesTo)
      /\ Run(file, FilesTo) /\ Run(Finished(produceBuffer), FilesTo + Len(file))
      /\ sent = FilesTo + Len(file) + Len(Finished(produceBuffer))
    BY DEF IInv, InOrder
<1>p. consumeBuffer = << >> <=> Len(consumeBuffer) = 0
    BY <1>n, FinishedFacts
<1>h. ASSUME files # << >>
      PROVE  /\ Head(files) = files[1] /\ Run(Head(files), FilesFrom)
             /\ Len(Head(files)) \in 1 .. Capacity /\ Len(Head(files)) \in Nat
             /\ FilesFrom + Len(Head(files)) <= FilesTo
             /\ FilesRun(Tail(files), FilesFrom + Len(Head(files)), FilesTo)
    <2>1. /\ Head(files) = files[1] /\ Run(Head(files), FilesFrom)
          /\ Len(Head(files)) \in 1 .. Capacity
          /\ FilesFrom + Len(Head(files)) <= FilesTo
          /\ FilesRun(Tail(files), FilesFrom + Len(Head(files)), FilesTo)
        <3>1. FilesFrom \in Nat /\ FilesTo \in Int
            BY <1>n
        <3> QED
            BY <1>h, <1>o, <3>1, FilesTail, Zenon
    <2>2. Len(Head(files)) \in Nat
        BY <1>n, <2>1
    <2> QED
        BY <2>1, <2>2
<1>1. ASSUME GetConsumerSize PROVE IInv'
    <2>1. /\ consumer = "loop" /\ left' = Len(consumeBuffer)
          /\ consumer' = (IF consumeBuffer = << >> THEN "front" ELSE "batch")
          /\ UNCHANGED <<produceBuffer, file, sent, files, fileEntryCount, op, then,
                         consumeBuffer, received, owner, ignore_all, pauser, mark,
                         scheduled, messages>>
        BY <1>1 DEF GetConsumerSize, producing, scheduling
    <2>2. UNCHANGED <<FilesFrom, FilesTo>>
        BY <2>1 DEF FilesFrom, FilesTo
    <2>3. InOrder'
        BY <1>o, <2>1, <2>2 DEF InOrder
    <2>4. Reading'
        BY <1>n, <2>1 DEF Reading
    <2>5. Writing' /\ Filling'
        BY <2>1 DEF IInv, Writing, Filling
    <2>6. Scalars'
        BY <1>0, <1>n, <2>1 DEF IInv, Scalars
    <2> QED
        BY <1>n, <2>1, <2>3, <2>4, <2>5, <2>6 DEF IInv
<1>2. ASSUME WaitForFile PROVE IInv'
    <2>1. /\ consumer = "front"
          /\ \/ fileEntryCount = 0 /\ consumer' = "asleep" /\ left' = left
             \/ fileEntryCount # 0 /\ consumer' = "reading" /\ left' = Len(Head(files))
          /\ UNCHANGED <<produceBuffer, file, sent, files, fileEntryCount, op, then,
                         consumeBuffer, received, owner, ignore_all, pauser, mark,
                         scheduled, messages>>
        BY <1>2 DEF WaitForFile, producing, scheduling
    <2>2. consumeBuffer = << >> /\ Len(consumeBuffer) = 0
        BY <1>p, <2>1 DEF IInv, Reading
    <2>3. UNCHANGED <<FilesFrom, FilesTo>>
        BY <1>n, <2>1, <2>2 DEF FilesFrom, FilesTo
    <2>4. InOrder'
        BY <1>o, <2>1, <2>3 DEF InOrder
    <2>5. Reading'
        BY <1>h, <1>n, <2>1, <2>2 DEF Reading
    <2>6. Writing' /\ Filling'
        BY <2>1 DEF IInv, Writing, Filling
    <2>7. Scalars'
        BY <1>0, <1>h, <1>n, <2>1 DEF IInv, Scalars
    <2> QED
        BY <1>n, <2>1, <2>4, <2>5, <2>6, <2>7 DEF IInv
<1>3. ASSUME readHandshake PROVE IInv'
    <2> DEFINE x == Head(files)[Len(Head(files)) - left + 1]
               c == Append(consumeBuffer, x)
    <2>1. /\ consumer = "reading" /\ left > 0 /\ consumeBuffer' = c /\ left' = left - 1
          /\ UNCHANGED <<produceBuffer, file, sent, files, fileEntryCount, op, then,
                         consumer, received, owner, ignore_all, pauser, mark,
                         scheduled, messages>>
        BY <1>3 DEF readHandshake, producing, scheduling
    <2>2. files # << >> /\ Len(consumeBuffer) + left = Len(Head(files))
        BY <2>1 DEF IInv, Reading
    <2>3. /\ Len(Head(files)) - left + 1 = Len(consumeBuffer) + 1
          /\ Len(consumeBuffer) + 1 \in 1 .. Len(Head(files))
        BY <1>h, <1>n, <2>1, <2>2
    <2>4. x \in Slot /\ x.valid /\ x.id = received + Len(consumeBuffer) + 1
        <3>1. Run(Head(files), received)
            BY <1>h, <1>n, <2>1, <2>2
        <3>2. Head(files) \in Seq(Slot)
            BY <3>1 DEF Run
        <3>3. x \in Slot
            BY <2>3, <3>2, ElementOfSeq
        <3> QED
            BY <1>n, <2>3, <3>1, <3>3 DEF Run
    <2>5. Run(c, received) /\ Len(c) = Len(consumeBuffer) + 1
        BY <1>n, <1>o, <2>4, RunAppend
    <2> HIDE DEF x, c
    <2>6. UNCHANGED <<FilesFrom, FilesTo>>
        BY <2>1 DEF FilesFrom, FilesTo
    <2>7. InOrder'
        BY <1>o, <2>1, <2>5, <2>6 DEF InOrder
    <2>8. Reading'
        BY <1>n, <2>1, <2>2, <2>5 DEF Reading
    <2>9. Writing' /\ Filling'
        BY <2>1 DEF IInv, Writing, Filling
    <2>10. Scalars'
        <3>1. Len(c) <= Capacity /\ left - 1 \in 0 .. Capacity
            BY <1>h, <1>n, <2>1, <2>2, <2>5
        <3> QED
            BY <1>0, <2>1, <3>1 DEF IInv, Scalars
    <2> QED
        BY <1>n, <2>1, <2>7, <2>8, <2>9, <2>10 DEF IInv
<1>4. ASSUME NotifyConsumed PROVE IInv'
    <2>1. /\ consumer = "reading" /\ left = 0 /\ files' = Tail(files)
          /\ fileEntryCount' = fileEntryCount - Len(Head(files))
          /\ consumer' = "batch" /\ left' = Len(consumeBuffer)
          /\ UNCHANGED <<produceBuffer, file, sent, op, then, consumeBuffer,
                         received, owner, ignore_all, pauser, mark, scheduled, messages>>
        BY <1>4 DEF NotifyConsumed, producing, scheduling
    <2>2. files # << >> /\ Len(consumeBuffer) = Len(Head(files))
        BY <1>n, <2>1 DEF IInv, Reading
    <2>3. FilesFrom' = FilesFrom + Len(Head(files))
        BY <1>n, <2>1, <2>2 DEF FilesFrom
    <2>4. FilesTo' = FilesTo
        <3>1. FilesTo' = FilesFrom' + fileEntryCount'
            BY DEF FilesTo
        <3>2. Len(Head(files)) \in Nat /\ fileEntryCount \in Nat /\ FilesFrom \in Nat
            BY <1>h, <1>n, <2>2
        <3>3. FilesTo' = (FilesFrom + Len(Head(files))) + (fileEntryCount - Len(Head(files)))
            BY <2>1, <2>3, <3>1, Zenon
        <3>4. FilesTo = FilesFrom + fileEntryCount
            BY <1>n
        <3>5. \A a, c, l \in Nat : (a + l) + (c - l) = a + c
            OBVIOUS
        <3> QED
            BY <3>2, <3>3, <3>4, <3>5, Zenon
    <2>5. InOrder'
        BY <1>h, <1>o, <2>1, <2>2, <2>3, <2>4 DEF InOrder
    <2>6. Reading'
        BY <1>n, <2>1 DEF Reading
    <2>7. Writing' /\ Filling'
        BY <2>1 DEF IInv, Writing, Filling
    <2>8. Scalars'
        <3>1. fileEntryCount - Len(Head(files)) \in 0 .. MaxHandshakes
            BY <1>h, <1>n, <2>2 DEF IInv, Scalars
        <3> QED
            BY <1>0, <1>n, <2>1, <3>1 DEF IInv, Scalars
    <2> QED
        BY <1>n, <2>1, <2>5, <2>6, <2>7, <2>8 DEF IInv
<1>5. ASSUME Consume PROVE IInv'
    <2>0. /\ consumer = "batch" /\ scheduled' \in BOOLEAN
          /\ UNCHANGED <<produceBuffer, file, sent, files, fileEntryCount, op, then, owner,
                         ignore_all, pauser, mark, messages>>
        BY <1>5 DEF Consume, producing, IInv, Scalars
    <2>1. CASE left = 0
        <3>1. consumer' = "loop" /\ UNCHANGED <<consumeBuffer, received, left>>
            BY <1>5, <2>1 DEF Consume
        <3>2. UNCHANGED <<FilesFrom, FilesTo>>
            BY <2>0, <3>1 DEF FilesFrom, FilesTo
        <3>3. InOrder'
            BY <1>o, <2>0, <3>1, <3>2 DEF InOrder
        <3>4. Reading'
            BY <3>1 DEF Reading
        <3>5. Writing' /\ Filling'
            BY <2>0 DEF IInv, Writing, Filling
        <3>6. Scalars'
            BY <1>0, <2>0, <3>1 DEF IInv, Scalars
        <3> QED
            BY <1>n, <2>0, <3>3, <3>4, <3>5, <3>6 DEF IInv
    <2>2. CASE left # 0
        <3>1. /\ consumeBuffer' = Tail(consumeBuffer) /\ received' = received + 1
              /\ \/ left' = 0 /\ consumer' = "loop"
                 \/ left' = left - 1 /\ consumer' = "batch"
            BY <1>5, <2>2 DEF Consume
        <3>2. left <= Len(consumeBuffer) /\ consumeBuffer # << >> /\ Len(consumeBuffer) \in Nat \ {0}
            BY <1>n, <1>p, <2>0, <2>2 DEF IInv, Reading
        <3>3. Run(Tail(consumeBuffer), received + 1) /\ Len(Tail(consumeBuffer)) = Len(consumeBuffer) - 1
            BY <1>n, <1>o, <3>2, RunTail
        <3>4. FilesFrom' = FilesFrom
            BY <1>n, <2>0, <3>1, <3>2, <3>3 DEF FilesFrom
        <3>5. FilesTo' = FilesTo
            BY <2>0, <3>4 DEF FilesTo
        <3>6. InOrder'
            BY <1>o, <2>0, <3>1, <3>3, <3>4, <3>5 DEF InOrder
        <3>7. Reading'
            BY <1>n, <3>1, <3>2, <3>3 DEF Reading
        <3>8. Writing' /\ Filling'
            BY <2>0 DEF IInv, Writing, Filling
        <3>9. Scalars'
            <4>1. /\ Len(Tail(consumeBuffer)) <= Capacity /\ received + 1 \in 0 .. sent
                  /\ left' \in 0 .. Capacity
                <5>1. Len(consumeBuffer) <= Capacity /\ left \in 0 .. Capacity
                    BY DEF IInv, Scalars
                <5>2. received + Len(consumeBuffer) <= sent
                    BY <1>n, <1>o, <2>0
                <5> QED
                    BY <1>n, <2>2, <3>1, <3>2, <3>3, <5>1, <5>2
            <4> QED
                BY <1>0, <2>0, <3>1, <4>1 DEF IInv, Scalars
        <3> QED
            BY <1>n, <2>0, <3>6, <3>7, <3>8, <3>9 DEF IInv
    <2> QED
        BY <2>1, <2>2
<1> QED
    BY <1>1, <1>2, <1>3, <1>4, <1>5 DEF Simulate

-----------------------------------------------------------------------------
(* The initial state.                                                      *)
LEMMA InitInv == Init => IInv
<1> SUFFICES ASSUME Init PROVE IInv
    OBVIOUS
<1> USE BufferAssumption
<1>1. Run(<< >>, 0) /\ Len(<< >>) = 0 /\ Finished(<< >>) = << >> /\ << >> \in Seq(Slot)
    BY RunEmpty DEF Finished, Run
<1>2. FilesRun(<< >>, 0, 0)
    BY <1>1 DEF FilesRun
<1>3. FilesFrom = 0 /\ FilesTo = 0
    BY <1>1 DEF Init, FilesFrom, FilesTo
<1>4. InOrder
    BY <1>1, <1>2, <1>3 DEF Init, InOrder
<1>5. Writing /\ Filling /\ Reading
    BY <1>1 DEF Init, Writing, Filling, Reading
<1>6. Scalars
    <2>1. ignore_all \in BOOLEAN /\ scheduled \in BOOLEAN /\ workload \in Workloads
        BY Zenon DEF Init
    <2>2. messages \subseteq {"owner", "pauser"}
        BY DEF Init
    <2>3. /\ Len(produceBuffer) <= Capacity /\ Len(consumeBuffer) <= Capacity
          /\ 0 \in 0 .. MaxHandshakes /\ 0 \in 0 .. Capacity /\ received \in 0 .. sent
        BY <1>1 DEF Init
    <2> QED
        BY <2>1, <2>2, <2>3 DEF Init, Scalars
<1> QED
    BY <1>1, <1>4, <1>5, <1>6 DEF IInv, Init

(* A step that changes nothing.                                            *)
LEMMA StutterInv ==
    ASSUME IInv, UNCHANGED vars
    PROVE  IInv'
BY DEF vars, IInv, Scalars, InOrder, Writing, Filling, Reading, FilesFrom, FilesTo

(* The handshakes between the feeder and the simulator are always in       *)
(* order, and each actor finds what it relies on, for any capacity and any *)
(* workload: the inductive invariant of the buffer manager.                *)
THEOREM Invariance == ASSUME Overlap = FALSE PROVE Spec => []IInv
<1>1. IInv /\ [Next]_vars => IInv'
    BY ProduceInv, CopyInv, WaitInv, SimulateInv, StutterInv DEF Next, Quiescent
<1> QED
    BY <1>1, InitInv, PTL DEF Spec

(* The buffer manager never has to abort: GetBuffer() always finds a       *)
(* half-filled element or room for one, a file always fits into            *)
(* consumeBuffer_, and the handshakes of a batch are in memory before the  *)
(* sim thread starts on it (BuffersSound).                                 *)
THEOREM Buffers == ASSUME Overlap = FALSE PROVE Spec => []BuffersSound
BY Invariance, IInvSound, PTL

-----------------------------------------------------------------------------
(* The handshakes that take the thread off its run queue.                  *)

(* What is in Leaving(s).                                                  *)
LEMMA LeavingElem ==
    ASSUME NEW s, NEW n
    PROVE  n \in Leaving(s) <=>
              \E i \in 1 .. Len(s) : s[i].valid /\ LeavesRunQueue(s[i].kind) /\ n = s[i].id
BY Zenon DEF Leaving

(* Append and pop.                                                         *)
LEMMA LeavingSeq ==
    ASSUME NEW s \in Seq(Slot)
    PROVE  /\ Leaving(<< >>) = {}
           /\ \A x \in Slot : \A n \in Leaving(Append(s, x)) :
                 n \in Leaving(s) \/ (x.valid /\ LeavesRunQueue(x.kind) /\ n = x.id)
           /\ s # << >> => Leaving(Tail(s)) \subseteq Leaving(s)
<1>1. Leaving(<< >>) = {}
    BY LeavingElem
<1>2. ASSUME NEW x \in Slot, NEW n \in Leaving(Append(s, x))
      PROVE  n \in Leaving(s) \/ (x.valid /\ LeavesRunQueue(x.kind) /\ n = x.id)
    <2>1. /\ Len(s) \in Nat /\ Len(Append(s, x)) = Len(s) + 1
          /\ \A i \in 1 .. Len(s) : Append(s, x)[i] = s[i]
          /\ Append(s, x)[Len(s) + 1] = x
        BY AppendProperties
    <2>2. PICK i \in 1 .. Len(Append(s, x)) :
              /\ Append(s, x)[i].valid /\ LeavesRunQueue(Append(s, x)[i].kind)
              /\ n = Append(s, x)[i].id
        BY LeavingElem, Zenon
    <2>3. CASE i = Len(s) + 1
        BY <2>1, <2>2, <2>3
    <2>4. CASE i # Len(s) + 1
        <3>1. i \in 1 .. Len(s) /\ Append(s, x)[i] = s[i]
            BY <2>1, <2>2, <2>4
        <3> QED
            BY <2>2, <3>1, LeavingElem
    <2> QED
        BY <2>3, <2>4
<1>3. ASSUME s # << >>, NEW n \in Leaving(Tail(s)) PROVE n \in Leaving(s)
    <2>1. /\ Len(s) \in Nat \ {0} /\ Len(Tail(s)) = Len(s) - 1
          /\ \A i \in 1 .. Len(s) - 1 : Tail(s)[i] = s[i + 1]
        BY <1>3, HeadTailProperties, EmptySeq
    <2>2. PICK i \in 1 .. Len(Tail(s)) :
              Tail(s)[i].valid /\ LeavesRunQueue(Tail(s)[i].kind) /\ n = Tail(s)[i].id
        BY LeavingElem, <1>3, Zenon
    <2>3. i + 1 \in 1 .. Len(s) /\ Tail(s)[i] = s[i + 1]
        BY <2>1, <2>2
    <2> QED
        BY <2>2, <2>3, LeavingElem
<1> QED
    BY <1>1, <1>2, <1>3

(* A half-filled element takes nobody off a queue.                         *)
LEMMA LeavingBuffer ==
    ASSUME NEW b \in Seq(Slot)
    PROVE  /\ Leaving(GetBuffer(b)) \subseteq Leaving(b)
           /\ Leaving(b) \subseteq Leaving(Finished(b))
<1>1. Leaving(GetBuffer(b)) \subseteq Leaving(b)
    <2>1. Fresh \in Slot /\ ~Fresh.valid
        BY BufferAssumption DEF Fresh, Slot, Kinds
    <2> QED
        BY <2>1, LeavingSeq, Zenon DEF GetBuffer
<1>2. ASSUME NEW n \in Leaving(b) PROVE n \in Leaving(Finished(b))
    <2>1. PICK i \in 1 .. Len(b) : b[i].valid /\ LeavesRunQueue(b[i].kind) /\ n = b[i].id
        BY LeavingElem, Zenon
    <2>2. CASE b # << >> /\ ~Last(b).valid
        <3>1. Len(b) \in Nat \ {0} /\ i # Len(b)
            BY <2>1, <2>2, EmptySeq DEF Last
        <3>2. i \in 1 .. Len(b) - 1 /\ Len(b) - 1 \in 0 .. Len(b)
            BY <2>1, <3>1
        <3>3. Finished(b) = SubSeq(b, 1, Len(b) - 1)
            BY <2>2 DEF Finished, Front
        <3>4. Len(Finished(b)) = Len(b) - 1 /\ Finished(b)[i] = b[i]
            BY <3>2, <3>3, PrefixFacts
        <3> QED
            BY <2>1, <3>2, <3>4, LeavingElem
    <2>3. CASE ~(b # << >> /\ ~Last(b).valid)
        BY <2>3 DEF Finished
    <2> QED
        BY <2>2, <2>3
<1> QED
    BY <1>1, <1>2

(* Those of a run have its numbers.                                        *)
LEMMA LeavingRun ==
    ASSUME NEW s, NEW m \in Nat, Run(s, m)
    PROVE  \A n \in Leaving(s) : n \in Nat /\ m < n /\ n <= m + Len(s)
<1> TAKE n \in Leaving(s)
<1>1. PICK i \in 1 .. Len(s) : n = s[i].id
    BY LeavingElem, Zenon
<1>2. n = m + i /\ Len(s) \in Nat
    BY <1>1 DEF Run
<1> QED
    BY <1>1, <1>2

(* Where a pending handshake can be.                                       *)
LEMMA PendingWhere ==
    ASSUME NEW n
    PROVE  n \in Pending <=> \/ n \in Leaving(produceBuffer) \/ n \in Leaving(file)
                             \/ n \in Leaving(consumeBuffer)
                             \/ \E k \in 1 .. Len(files) : n \in Leaving(files[k])
BY Zenon DEF Pending

(* Pending handshakes are finished and not consumed.                       *)
LEMMA PendingBounds ==
    ASSUME IInv
    PROVE  \A n \in Pending : n \in Nat /\ received < n /\ n <= sent
<1> TAKE n \in Pending
<1>n. /\ sent \in Nat /\ received \in Nat /\ received <= FilesFrom
      /\ FilesFrom \in Nat /\ FilesTo \in Nat /\ FilesFrom <= FilesTo
      /\ Len(file) \in Nat /\ Len(Finished(produceBuffer)) \in Nat /\ Len(consumeBuffer) \in Nat
      /\ produceBuffer \in Seq(Slot) /\ Capacity \in Nat
    BY Numbers
<1>o. /\ Run(consumeBuffer, received) /\ FilesRun(files, FilesFrom, FilesTo)
      /\ Run(file, FilesTo) /\ Run(Finished(produceBuffer), FilesTo + Len(file))
      /\ sent = FilesTo + Len(file) + Len(Finished(produceBuffer))
    BY DEF IInv, InOrder
<1>1. CASE n \in Leaving(produceBuffer)
    <2>1. n \in Leaving(Finished(produceBuffer)) /\ FilesTo + Len(file) \in Nat
        BY <1>1, <1>n, LeavingBuffer
    <2>2. /\ n \in Nat /\ FilesTo + Len(file) < n
          /\ n <= (FilesTo + Len(file)) + Len(Finished(produceBuffer))
        BY <1>o, <2>1, LeavingRun
    <2> QED
        BY <1>n, <1>o, <2>2
<1>2. CASE n \in Leaving(file)
    BY <1>2, <1>n, <1>o, LeavingRun
<1>3. CASE n \in Leaving(consumeBuffer)
    <2>1. n \in Nat /\ received < n /\ n <= received + Len(consumeBuffer)
        BY <1>3, <1>n, <1>o, LeavingRun
    <2>2. received + Len(consumeBuffer) <= FilesTo
        <3>1. CASE consumer = "reading"
            <4>1. files # << >> /\ Len(consumeBuffer) + left = Len(Head(files)) /\ left \in Nat
                BY <3>1, Numbers DEF IInv, Reading
            <4>2. FilesFrom + Len(Head(files)) <= FilesTo /\ FilesFrom = received
                BY <1>n, <1>o, <3>1, <4>1, FilesTail, Numbers
            <4> QED
                BY <1>n, <4>1, <4>2
        <3>2. CASE consumer # "reading"
            BY <1>n, <3>2 DEF FilesFrom
        <3> QED
            BY <3>1, <3>2
    <2> QED
        BY <1>n, <1>o, <2>1, <2>2
<1>4. ASSUME NEW k \in 1 .. Len(files), n \in Leaving(files[k])
      PROVE  n \in Nat /\ received < n /\ n <= sent
    <2>1. /\ Run(files[k], Before(files[k])) /\ Before(files[k]) \in Int
          /\ FilesFrom <= Before(files[k]) /\ Len(files[k]) \in 1 .. Capacity
          /\ Before(files[k]) + Len(files[k]) <= FilesTo
        <3>1. FilesFrom \in Nat /\ FilesTo \in Int
            BY <1>n
        <3> QED
            BY <1>o, <3>1, FilesBounds, Zenon
    <2>2. Before(files[k]) \in Nat /\ Len(files[k]) \in Nat
        BY <1>n, <2>1
    <2>3. n \in Nat /\ Before(files[k]) < n /\ n <= Before(files[k]) + Len(files[k])
        BY <1>4, <2>1, <2>2, LeavingRun
    <2>4. n <= FilesTo /\ FilesFrom < n
        BY <1>n, <2>1, <2>2, <2>3
    <2>5. FilesTo <= sent
        BY <1>n, <1>o
    <2> QED
        BY <1>n, <2>3, <2>4, <2>5
<1> QED
    BY <1>1, <1>2, <1>3, <1>4, PendingWhere, Zenon

(* Finishing a handshake adds at most that one.                            *)
LEMMA SendPending ==
    ASSUME IInv, UNCHANGED consuming,
           NEW g \in Seq(Slot), g # << >>, ~Last(g).valid,
           Finished(g) = Finished(produceBuffer),
           Leaving(g) \subseteq Leaving(produceBuffer),
           NEW kind \in Kinds, NEW next \in {"none", "flush"}, sent < MaxHandshakes,
           ProducerDone(Validate(g, kind), next)
    PROVE  \A n \in Pending' : n \in Pending \/ (LeavesRunQueue(kind) /\ n = sent + 1)
<1> DEFINE v == Validate(g, kind)
           m == FilesTo + Len(file)
<1>1. produceBuffer' = v /\ UNCHANGED <<file, files, consumeBuffer>>
    BY DEF ProducerDone, consuming
<1>2. /\ m \in Nat /\ sent \in Nat /\ Run(Finished(g), m) /\ sent = m + Len(Finished(g))
    <2>1. Run(Finished(g), m) /\ sent = m + Len(Finished(g))
        BY DEF IInv, InOrder
    <2>2. m \in Nat /\ sent \in Nat
        <3>1. FilesTo \in Nat /\ Len(file) \in Nat /\ sent \in Nat
            BY Numbers
        <3> QED
            BY <3>1
    <2> QED
        BY <2>1, <2>2
<1>3. /\ v \in Seq(Slot) /\ Len(v) = Len(g)
      /\ \A i \in 1 .. Len(g) - 1 : v[i] = g[i]
      /\ v[Len(g)] = [id |-> sent + 1, kind |-> kind, valid |-> TRUE]
    BY <1>2, ValidateFacts
<1>4. Len(g) \in Nat \ {0}
    BY EmptySeq
<1> HIDE DEF v, m
<1>5. \A n \in Leaving(v) : n \in Leaving(g) \/ (LeavesRunQueue(kind) /\ n = sent + 1)
    <2> TAKE n \in Leaving(v)
    <2>1. PICK i \in 1 .. Len(v) : v[i].valid /\ LeavesRunQueue(v[i].kind) /\ n = v[i].id
        BY LeavingElem
    <2>2. CASE i = Len(g)
        <3>1. v[i].kind = kind /\ v[i].id = sent + 1
            BY <1>3, <2>2
        <3> QED
            BY <2>1, <3>1
    <2>3. CASE i # Len(g)
        <3>1. i \in 1 .. Len(g) - 1 /\ i \in 1 .. Len(g)
            BY <1>3, <1>4, <2>1, <2>3
        <3> QED
            BY <1>3, <2>1, <3>1, LeavingElem
    <2> QED
        BY <2>2, <2>3
<1>6. ASSUME NEW n \in Pending' PROVE n \in Pending \/ (LeavesRunQueue(kind) /\ n = sent + 1)
    <2>1. \/ n \in Leaving(v) \/ n \in Leaving(file) \/ n \in Leaving(consumeBuffer)
          \/ \E k \in 1 .. Len(files) : n \in Leaving(files[k])
        BY <1>1 DEF Pending
    <2>2. n \in Leaving(v) => n \in Leaving(produceBuffer) \/ (LeavesRunQueue(kind) /\ n = sent + 1)
        BY <1>5
    <2> QED
        BY <2>1, <2>2, PendingWhere, Zenon
<1> QED
    BY <1>6

LEMMA AddPending ==
    ASSUME IInv, UNCHANGED consuming, NEW kind \in Kinds, NEW next \in {"none", "flush"},
           sent < MaxHandshakes, AddHandshake(kind, next)
    PROVE  \A n \in Pending' : n \in Pending \/ (LeavesRunQueue(kind) /\ n = sent + 1)
<1>1. /\ GetBuffer(produceBuffer) \in Seq(Slot) /\ GetBuffer(produceBuffer) # << >>
      /\ ~Last(GetBuffer(produceBuffer)).valid
      /\ Finished(GetBuffer(produceBuffer)) = Finished(produceBuffer)
      /\ Leaving(GetBuffer(produceBuffer)) \subseteq Leaving(produceBuffer)
    BY Numbers, GetBufferFacts, LeavingBuffer
<1> QED
    BY <1>1, SendPending DEF AddHandshake

(* Copying handshakes to and from files adds none.                         *)
LEMMA CopyPending ==
    ASSUME IInv, \/ GetProperBuffer \/ writeHandshake \/ NotifyProduced
                 \/ readHandshake \/ NotifyConsumed
    PROVE  Pending' \subseteq Pending
<1>n. /\ produceBuffer \in Seq(Slot) /\ file \in Seq(Slot) /\ consumeBuffer \in Seq(Slot)
      /\ FilesFrom \in Nat /\ FilesTo \in Int /\ left \in Nat /\ Len(consumeBuffer) \in Nat
      /\ Capacity \in Nat
    BY Numbers
<1>f. /\ files \in Seq(Seq(Slot)) /\ Len(files) \in Nat /\ (files # << >> => Len(files) # 0)
      /\ FilesRun(files, FilesFrom, FilesTo)
    BY EmptySeq DEF IInv, InOrder, FilesRun
<1>1. CASE GetProperBuffer
    <2>1. /\ produceBuffer' = GetBuffer(produceBuffer)
          /\ UNCHANGED <<file, files, consumeBuffer>>
        BY <1>1 DEF GetProperBuffer, consuming
    <2>2. Leaving(GetBuffer(produceBuffer)) \subseteq Leaving(produceBuffer)
        BY <1>n, LeavingBuffer
    <2> QED
        BY <2>1, <2>2 DEF Pending
<1>2. CASE writeHandshake
    <2> DEFINE x == Head(produceBuffer)
    <2>1. /\ produceBuffer # << >> /\ file' = Append(file, x)
          /\ produceBuffer' = Tail(produceBuffer) /\ UNCHANGED <<files, consumeBuffer>>
        BY <1>2 DEF writeHandshake, consuming
    <2>2. x \in Slot /\ x = produceBuffer[1] /\ 1 \in 1 .. Len(produceBuffer)
        BY <1>n, <2>1, EmptySeq
    <2>3. x.valid /\ LeavesRunQueue(x.kind) => x.id \in Leaving(produceBuffer)
        BY <2>2, LeavingElem
    <2> HIDE DEF x
    <2>4. Leaving(Append(file, x)) \subseteq Leaving(file) \cup Leaving(produceBuffer)
        <3>1. \A n \in Leaving(Append(file, x)) :
                 n \in Leaving(file) \/ (x.valid /\ LeavesRunQueue(x.kind) /\ n = x.id)
            BY <1>n, <2>2, LeavingSeq
        <3> QED
            BY <2>3, <3>1
    <2>5. Leaving(Tail(produceBuffer)) \subseteq Leaving(produceBuffer)
        BY <1>n, <2>1, LeavingSeq
    <2> QED
        BY <2>1, <2>4, <2>5 DEF Pending
<1>3. CASE NotifyProduced
    <2>1. /\ files' = Append(files, file) /\ file' = << >>
          /\ UNCHANGED <<produceBuffer, consumeBuffer>>
        BY <1>3 DEF NotifyProduced
    <2>2. /\ Len(Append(files, file)) = Len(files) + 1
          /\ \A k \in 1 .. Len(files) : Append(files, file)[k] = files[k]
          /\ Append(files, file)[Len(files) + 1] = file
        BY <1>f, <1>n, AppendProperties
    <2>3. ASSUME NEW k \in 1 .. Len(files'), NEW n \in Leaving(files'[k])
          PROVE  n \in Pending
        <3>1. CASE k = Len(files) + 1
            BY <2>1, <2>2, <2>3, <3>1, PendingWhere
        <3>2. CASE k # Len(files) + 1
            <4>1. k \in 1 .. Len(files) /\ files'[k] = files[k]
                BY <1>f, <2>1, <2>2, <3>2
            <4> QED
                BY <2>3, <4>1, PendingWhere
        <3> QED
            BY <3>1, <3>2
    <2>4. Leaving(<< >>) = {}
        BY <1>n, LeavingSeq
    <2> QED
        BY <2>1, <2>3, <2>4 DEF Pending
<1>4. CASE readHandshake
    <2> DEFINE x == Head(files)[Len(Head(files)) - left + 1]
    <2>1. /\ consumer = "reading" /\ left > 0 /\ consumeBuffer' = Append(consumeBuffer, x)
          /\ UNCHANGED <<produceBuffer, file, files>>
        BY <1>4 DEF readHandshake, producing
    <2>2. files # << >> /\ Len(consumeBuffer) + left = Len(Head(files))
        BY <2>1 DEF IInv, Reading
    <2>3. Head(files) = files[1] /\ Run(Head(files), FilesFrom) /\ Len(Head(files)) \in 1 .. Capacity
        BY <1>f, <1>n, <2>2, FilesTail, Zenon
    <2>4. /\ Len(Head(files)) - left + 1 \in 1 .. Len(Head(files))
          /\ Head(files) \in Seq(Slot) /\ 1 \in 1 .. Len(files)
        BY <1>f, <1>n, <2>1, <2>2, <2>3 DEF Run
    <2>5. x \in Slot
        BY <2>4, ElementOfSeq
    <2>6. x.valid /\ LeavesRunQueue(x.kind) => x.id \in Leaving(files[1])
        BY <2>3, <2>4, LeavingElem, Zenon
    <2> HIDE DEF x
    <2>7. Leaving(Append(consumeBuffer, x)) \subseteq Leaving(consumeBuffer) \cup Leaving(files[1])
        <3>1. \A n \in Leaving(Append(consumeBuffer, x)) :
                 n \in Leaving(consumeBuffer) \/ (x.valid /\ LeavesRunQueue(x.kind) /\ n = x.id)
            BY <1>n, <2>5, LeavingSeq
        <3> QED
            BY <2>6, <3>1
    <2> QED
        BY <2>1, <2>4, <2>7 DEF Pending
<1>5. CASE NotifyConsumed
    <2>1. consumer = "reading" /\ files' = Tail(files) /\ UNCHANGED <<produceBuffer, file, consumeBuffer>>
        BY <1>5 DEF NotifyConsumed, producing
    <2>2. files # << >>
        BY <2>1 DEF IInv, Reading
    <2>3. /\ Len(Tail(files)) = Len(files) - 1
          /\ \A k \in 1 .. Len(files) - 1 : Tail(files)[k] = files[k + 1]
        BY <1>f, <2>2, HeadTailProperties
    <2>4. ASSUME NEW k \in 1 .. Len(files'), NEW n \in Leaving(files'[k])
          PROVE  n \in Pending
        <3>1. k + 1 \in 1 .. Len(files) /\ files'[k] = files[k + 1]
            BY <1>f, <2>1, <2>3
        <3> QED
            BY <2>4, <3>1, PendingWhere
    <2> QED
        BY <2>1, <2>4 DEF Pending
<1> QED
    BY <1>1, <1>2, <1>3, <1>4, <1>5

-----------------------------------------------------------------------------
(* The waits.  A program whose threads are paused does not synchronize     *)
(* with the simulator or exit meanwhile.                                   *)
Separated ==
    \A w \in Workloads : "pause" \in w => "sync" \notin w /\ "kill" \notin w

(* Nobody waits for two handshakes at once.                                *)
LEMMA OneWaits ==
    ASSUME Separated, IInv, Started
    PROVE  /\ pauser # "none" => owner \notin {"sync", "sched", "exit"}
           /\ owner \in {"sync", "sched", "exit"} => pauser = "none" /\ mark = 0
BY DEF Separated, IInv, Scalars, Started

LEMMA ProduceDrain ==
    ASSUME Separated, Overlap = FALSE, IInv, DInv, Produce
    PROVE  DInv'
<1>0. UNCHANGED workload
    BY DEF Produce
<1>n. sent \in Nat /\ received \in Nat /\ mark \in Nat /\ MaxHandshakes \in Nat /\ received <= sent
    BY Numbers DEF IInv, Scalars
<1>w. /\ pauser # "none" => owner \notin {"sync", "sched", "exit"}
      /\ owner \in {"sync", "sched", "exit"} => pauser = "none" /\ mark = 0
    BY OneWaits DEF DInv
<1>d. /\ Started
      /\ \A n \in Pending : Known(n)
      /\ mark > received => pauser = "wait" /\ scheduled
      /\ pauser = "trapped" => scheduled
      /\ owner = "sync" /\ received < sent => scheduled
    BY DEF DInv
<1>1. ASSUME GetProperBuffer PROVE DInv'
    <2>1. Pending' \subseteq Pending
        BY <1>1, CopyPending
    <2>2. /\ owner = "idle" /\ owner' = "inside"
          /\ UNCHANGED <<sent, received, ignore_all, pauser, mark, scheduled>>
        BY <1>1 DEF GetProperBuffer, consuming, scheduling
    <2> QED
        BY <1>0, <1>d, <2>1, <2>2 DEF DInv, Started, Known
<1>2. ASSUME Return PROVE DInv'
    <2>1. Pending' = Pending
        BY <1>2 DEF Return, Pending, producing, consuming
    <2>2. /\ owner = "inside" /\ owner' = "idle"
          /\ UNCHANGED <<sent, received, ignore_all, pauser, mark, scheduled>>
        BY <1>2 DEF Return, producing, consuming, scheduling
    <2> QED
        BY <1>0, <1>d, <2>1, <2>2 DEF DInv, Started, Known
<1>3. ASSUME FinalizeBuffer PROVE DInv'
    <2>1. \A n \in Pending' : n \in Pending
        <3>1. /\ produceBuffer # << >> /\ ~Last(produceBuffer).valid
              /\ sent < MaxHandshakes /\ produceBuffer \in Seq(Slot)
            BY <1>3 DEF FinalizeBuffer, IInv, Filling
        <3> QED
            BY <1>3, <3>1, SendPending DEF FinalizeBuffer, Kinds, LeavesRunQueue
    <2>2. /\ owner = "inside" /\ owner' = "idle"
          /\ UNCHANGED <<received, ignore_all, pauser, mark, scheduled>>
        BY <1>3 DEF FinalizeBuffer, consuming, scheduling
    <2> QED
        BY <1>0, <1>d, <2>1, <2>2 DEF DInv, Started, Known
<1>4. ASSUME AddYieldHandshake PROVE DInv'
    <2>1. \A n \in Pending' : n \in Pending
        <3>1. sent < MaxHandshakes
            BY <1>4, <1>n DEF AddYieldHandshake, Room
        <3> QED
            BY <1>4, <3>1, AddPending DEF AddYieldHandshake, Kinds, LeavesRunQueue
    <2>2. owner = "idle" /\ UNCHANGED <<owner, received, ignore_all, pauser, mark, scheduled>>
        BY <1>4 DEF AddYieldHandshake, consuming, scheduling
    <2> QED
        BY <1>0, <1>d, <2>1, <2>2 DEF DInv, Started, Known
<1>5. ASSUME SyncWithTimingSim PROVE DInv'
    <2>1. \A n \in Pending' : n \in Pending \/ n = sent + 1
        <3>1. sent < MaxHandshakes
            BY <1>5, <1>n DEF SyncWithTimingSim, Room
        <3> QED
            BY <1>5, <3>1, AddPending DEF SyncWithTimingSim, Kinds
    <2>2. /\ "sync" \in workload /\ owner = "idle" /\ owner' = "sync" /\ sent' = sent + 1
          /\ scheduled /\ UNCHANGED <<received, ignore_all, pauser, mark, scheduled>>
        BY <1>5 DEF SyncWithTimingSim, AddHandshake, ProducerDone, consuming, scheduling
    <2>3. pauser = "none" /\ mark = 0
        BY <1>d, <2>2 DEF Separated, IInv, Scalars, Started
    <2>4. Pending = {}
        BY <1>d, <2>2, <2>3 DEF Known
    <2> QED
        BY <1>0, <1>d, <1>n, <2>1, <2>2, <2>3, <2>4 DEF DInv, Started, Known
<1>6. ASSUME ThreadFini PROVE DInv'
    <2>1. \A n \in Pending' : n \in Pending \/ n = sent + 1
        <3>1. sent < MaxHandshakes
            BY <1>6 DEF ThreadFini
        <3> QED
            BY <1>6, <3>1, AddPending DEF ThreadFini, Kinds
    <2>2. /\ "kill" \in workload /\ owner = "idle" /\ owner' = "exit" /\ sent' = sent + 1
          /\ UNCHANGED <<received, ignore_all, pauser, mark, scheduled>>
        BY <1>6 DEF ThreadFini, AddHandshake, ProducerDone, consuming, scheduling
    <2>3. pauser = "none" /\ mark = 0
        BY <1>d, <2>2 DEF Separated, IInv, Scalars, Started
    <2>4. Pending = {}
        BY <1>d, <2>2, <2>3 DEF Known
    <2> QED
        BY <1>0, <1>d, <1>n, <2>1, <2>2, <2>3, <2>4 DEF DInv, Started, Known
<1>7. ASSUME PauseSimulation, scheduled PROVE DInv'
    <2>1. \A n \in Pending' : n \in Pending
        <3>1. sent < MaxHandshakes
            BY <1>7, <1>n DEF PauseSimulation, Room
        <3> QED
            BY <1>7, <3>1, AddPending DEF PauseSimulation, Kinds, LeavesRunQueue
    <2>2. /\ "pause" \in workload /\ pauser = "none" /\ pauser' = "trapped"
          /\ UNCHANGED <<received, owner, mark, scheduled>>
        BY <1>7 DEF PauseSimulation, consuming, scheduling
    <2>3. owner \notin {"sync", "sched", "exit"}
        BY <1>d, <2>2 DEF Separated, IInv, Scalars, Started
    <2>4. Pending = {}
        BY <1>d, <2>2, <2>3 DEF Known
    <2> QED
        BY <1>0, <1>7, <1>d, <2>1, <2>2, <2>3, <2>4 DEF DInv, Started
<1>8. ASSUME PauseSimulation, ~scheduled PROVE DInv'
    <2>1. Pending' = Pending
        BY <1>8 DEF PauseSimulation, Pending, producing, consuming
    <2>2. /\ "pause" \in workload /\ pauser = "none" /\ pauser' = "wait"
          /\ UNCHANGED <<received, sent, owner, mark, scheduled>>
        BY <1>8 DEF PauseSimulation, producing, consuming, scheduling
    <2>3. owner \notin {"sync", "sched", "exit"}
        BY <1>d, <2>2 DEF Separated, IInv, Scalars, Started
    <2>4. Pending = {}
        BY <1>d, <2>2, <2>3 DEF Known
    <2> QED
        BY <1>0, <1>8, <1>d, <2>1, <2>2, <2>3, <2>4 DEF DInv, Started
<1>9. ASSUME ResumeSimulation PROVE DInv'
    <2>1. Pending' = Pending
        BY <1>9 DEF ResumeSimulation, Pending, producing, consuming
    <2>2. /\ pauser = "none" /\ pauser' = "resume" /\ ignore_all
          /\ UNCHANGED <<received, sent, owner, mark, scheduled>>
        BY <1>9 DEF ResumeSimulation, producing, consuming
    <2>3. "pause" \in workload
        BY <1>d, <2>2 DEF Started
    <2> QED
        BY <1>0, <1>d, <2>1, <2>2, <2>3 DEF DInv, Started, Known
<1> QED
    BY <1>1, <1>2, <1>3, <1>4, <1>5, <1>6, <1>7, <1>8, <1>9 DEF Produce

(* Writing to and reading from files, and messages.                        *)
LEMMA CopyDrain ==
    ASSUME IInv, DInv,
           \/ Copy \/ Schedule
           \/ (GetConsumerSize \/ WaitForFile \/ readHandshake \/ NotifyConsumed) /\ UNCHANGED workload
    PROVE  DInv'
<1>1. /\ UNCHANGED <<sent, received, owner, ignore_all, pauser, mark, workload>>
      /\ scheduled => scheduled'
    BY DEF Copy, Schedule, FlushBuffers, writeHandshake, NotifyProduced, CheckIPCMessageQueue,
        GetConsumerSize, WaitForFile, readHandshake, NotifyConsumed, producing, consuming,
        scheduling
<1>2. Pending' \subseteq Pending
    <2>1. CASE FlushBuffers \/ CheckIPCMessageQueue \/ GetConsumerSize \/ WaitForFile
        <3>1. UNCHANGED <<produceBuffer, file, files, consumeBuffer>>
            BY <2>1 DEF FlushBuffers, CheckIPCMessageQueue, GetConsumerSize, WaitForFile,
                producing, consuming
        <3> QED
            BY <3>1 DEF Pending
    <2>2. CASE writeHandshake \/ NotifyProduced \/ readHandshake \/ NotifyConsumed
        BY <2>2, CopyPending
    <2> QED
        BY <2>1, <2>2 DEF Copy, Schedule
<1> QED
    BY <1>1, <1>2 DEF DInv, Started, Known

(* The end of a wait: the handshake that was waited for is consumed.       *)
LEMMA WaitDrain ==
    ASSUME Separated, IInv, DInv, Waits \/ Pause
    PROVE  DInv'
<1>0. UNCHANGED workload
    BY DEF Waits, Pause
<1>n. sent \in Nat /\ received \in Nat /\ mark \in Nat /\ MaxHandshakes \in Nat /\ received <= sent
    BY Numbers DEF IInv, Scalars
<1>w. /\ pauser # "none" => owner \notin {"sync", "sched", "exit"}
      /\ owner \in {"sync", "sched", "exit"} => pauser = "none" /\ mark = 0
    BY OneWaits DEF DInv
<1>d. /\ Started
      /\ \A n \in Pending : Known(n) /\ n \in Nat /\ received < n /\ n <= sent
      /\ mark > received => pauser = "wait" /\ scheduled
      /\ pauser = "trapped" => scheduled
      /\ owner = "sync" /\ received < sent => scheduled
    BY PendingBounds DEF DInv
<1>1. ASSUME ScheduleThread PROVE DInv'
    <2>1. /\ owner = "sync" /\ ~scheduled /\ owner' = "sched"
          /\ UNCHANGED <<produceBuffer, file, files, consumeBuffer, sent, received,
                         ignore_all, pauser, mark, scheduled>>
        BY <1>1 DEF ScheduleThread, producing, consuming
    <2>2. received = sent
        BY <1>d, <1>n, <2>1
    <2>3. Pending = {}
        BY <1>d, <1>n, <2>2
    <2>4. Pending' = {}
        BY <2>1, <2>3 DEF Pending
    <2> QED
        BY <1>0, <1>d, <2>1, <2>2, <2>4 DEF DInv, Started
<1>2. ASSUME SeesScheduled PROVE DInv'
    <2>1. /\ owner = "sched" /\ owner' = "idle"
          /\ UNCHANGED <<produceBuffer, file, files, consumeBuffer, sent, received,
                         ignore_all, pauser, mark, scheduled>>
        BY <1>2 DEF SeesScheduled, producing, consuming, scheduling
    <2>2. Pending' = Pending
        BY <2>1 DEF Pending
    <2> QED
        BY <1>0, <1>d, <2>1, <2>2 DEF DInv, Started, Known
<1>3. ASSUME AddGiveUpHandshake PROVE DInv'
    <2>1. \A n \in Pending' : n \in Pending \/ n = sent + 1
        <3>1. sent < MaxHandshakes
            BY <1>3 DEF AddGiveUpHandshake, IInv, Filling
        <3> QED
            BY <1>3, <3>1, AddPending DEF AddGiveUpHandshake, Kinds
    <2>2. /\ pauser = "trapped" /\ pauser' = "wait" /\ mark' = sent + 1 /\ sent' = sent + 1
          /\ UNCHANGED <<received, owner, ignore_all, scheduled>>
        BY <1>3 DEF AddGiveUpHandshake, AddHandshake, ProducerDone, consuming, scheduling
    <2>3. Pending = {}
        BY <1>d, <1>w, <2>2 DEF Known
    <2> QED
        BY <1>0, <1>d, <1>w, <2>1, <2>2, <2>3 DEF DInv, Started, Known
<1>4. ASSUME ThreadsDone PROVE DInv'
    <2>1. /\ pauser = "wait" /\ ~scheduled /\ pauser' = "none"
          /\ UNCHANGED <<produceBuffer, file, files, consumeBuffer, sent, received,
                         ignore_all, owner, mark, scheduled>>
        BY <1>4 DEF ThreadsDone, producing, consuming, scheduling
    <2>2. received >= mark
        BY <1>d, <1>n, <2>1
    <2>3. Pending = {}
        BY <1>d, <1>n, <1>w, <2>1, <2>2 DEF Known
    <2>4. Pending' = {}
        BY <2>1, <2>3 DEF Pending
    <2> QED
        BY <1>0, <1>d, <1>n, <2>1, <2>2, <2>4 DEF DInv, Started
<1>5. ASSUME AllScheduled PROVE DInv'
    <2>1. /\ pauser = "resume" /\ pauser' = "none"
          /\ UNCHANGED <<produceBuffer, file, files, consumeBuffer, sent, received,
                         ignore_all, owner, mark, scheduled>>
        BY <1>5 DEF AllScheduled, producing, consuming, scheduling
    <2>2. Pending' = Pending
        BY <2>1 DEF Pending
    <2> QED
        BY <1>0, <1>d, <2>1, <2>2 DEF DInv, Started, Known
<1> QED
    BY <1>1, <1>2, <1>3, <1>4, <1>5 DEF Waits, Pause

(* A handshake is acted on.                                                *)
LEMMA ConsumeDrain ==
    ASSUME Separated, IInv, DInv, Consume, UNCHANGED workload
    PROVE  DInv'
<1>n. /\ sent \in Nat /\ received \in Nat /\ mark \in Nat /\ received <= sent
      /\ consumeBuffer \in Seq(Slot) /\ Len(consumeBuffer) \in Nat /\ left \in Nat
    BY Numbers DEF IInv, Scalars
<1>w. /\ pauser # "none" => owner \notin {"sync", "sched", "exit"}
      /\ owner \in {"sync", "sched", "exit"} => pauser = "none" /\ mark = 0
    BY OneWaits DEF DInv
<1>d. /\ Started
      /\ \A n \in Pending : Known(n)
      /\ mark > received => pauser = "wait" /\ scheduled
      /\ pauser = "trapped" => scheduled
      /\ owner = "sync" /\ received < sent => scheduled
    BY DEF DInv
<1>u. /\ consumer = "batch"
      /\ UNCHANGED <<produceBuffer, file, files, sent, owner, ignore_all, pauser, mark>>
    BY DEF Consume, producing
<1>1. CASE left = 0
    <2>1. UNCHANGED <<consumeBuffer, received, scheduled>>
        BY <1>1 DEF Consume
    <2>2. Pending' = Pending
        BY <1>u, <2>1 DEF Pending
    <2> QED
        BY <1>d, <1>u, <2>1, <2>2 DEF DInv, Started, Known
<1>2. CASE left # 0
    <2> DEFINE x == Head(consumeBuffer)
    <2>1. /\ consumeBuffer' = Tail(consumeBuffer) /\ received' = received + 1
          /\ scheduled' = (scheduled /\ ~LeavesRunQueue(x.kind))
        BY <1>2 DEF Consume
    <2>2. consumeBuffer # << >> /\ Len(consumeBuffer) # 0
        <3>1. Len(consumeBuffer) # 0
            BY <1>2, <1>n, <1>u DEF IInv, Reading
        <3> QED
            BY <1>n, <3>1, FinishedFacts
    <2>3. Pending' \subseteq Pending
        <3>1. Leaving(Tail(consumeBuffer)) \subseteq Leaving(consumeBuffer)
            BY <1>n, <2>2, LeavingSeq
        <3> QED
            BY <1>u, <2>1, <3>1 DEF Pending
    <2>4. x = consumeBuffer[1] /\ x.valid /\ x.id = received + 1
        <3>1. Run(consumeBuffer, received)
            BY DEF IInv, InOrder
        <3> QED
            BY <1>n, <2>2, <3>1, RunTail
    <2> HIDE DEF x
    <2>5. CASE LeavesRunQueue(x.kind)
        <3>1. received + 1 \in Pending
            <4>1. 1 \in 1 .. Len(consumeBuffer)
                BY <1>n, <2>2
            <4>2. received + 1 \in Leaving(consumeBuffer)
                BY <2>4, <2>5, <4>1, LeavingElem, Zenon
            <4> QED
                BY <4>2, PendingWhere
        <3>2. Known(received + 1)
            BY <1>d, <3>1
        <3>3. CASE pauser = "wait" /\ mark = received + 1
            BY <1>d, <1>n, <1>u, <1>w, <2>1, <2>3, <3>3 DEF DInv, Started, Known
        <3>4. CASE owner \in {"sync", "exit"} /\ sent = received + 1
            BY <1>d, <1>n, <1>u, <1>w, <2>1, <2>3, <3>4 DEF DInv, Started, Known
        <3> QED
            BY <3>2, <3>3, <3>4 DEF Known
    <2>6. CASE ~LeavesRunQueue(x.kind)
        <3>1. scheduled' <=> scheduled
            BY <2>1, <2>6
        <3>2. /\ mark > received + 1 => mark > received
              /\ received + 1 < sent => received < sent
            BY <1>n
        <3> QED
            BY <1>d, <1>u, <2>1, <2>3, <3>1, <3>2 DEF DInv, Started, Known
    <2> QED
        BY <2>5, <2>6
<1> QED
    BY <1>1, <1>2

LEMMA InitDrain == Init => DInv
<1> SUFFICES ASSUME Init PROVE DInv
    OBVIOUS
<1>1. Leaving(<< >>) = {} /\ Len(<< >>) = 0
    BY LeavingSeq, EmptySeq
<1>2. Pending = {}
    BY <1>1 DEF Init, Pending
<1> QED
    BY <1>2 DEF Init, DInv, Started

(* PauseSimulation() and SyncWithTimingSim() stop waiting only when the    *)
(* sim thread has consumed their give-up handshake and everything before   *)
(* it (WaitsDrain), for programs that do not mix the two.                  *)
THEOREM Drained ==
    ASSUME Overlap = FALSE, Separated
    PROVE  Spec => WaitsDrain
<1>1. IInv /\ DInv /\ [Next]_vars => DInv' /\ [(ThreadsDone => received >= mark)
                                               /\ (ScheduleThread => received = sent)]_vars
    <2> SUFFICES ASSUME IInv, DInv, [Next]_vars
                 PROVE  DInv' /\ [(ThreadsDone => received >= mark)
                                  /\ (ScheduleThread => received = sent)]_vars
        OBVIOUS
    <2>1. CASE UNCHANGED vars
        <3>1. Pending' = Pending
            BY <2>1 DEF vars, Pending
        <3> QED
            BY <2>1, <3>1 DEF vars, DInv, Started, Known
    <2>2. /\ ThreadsDone => received >= mark
          /\ ScheduleThread => received = sent
        <3>1. owner = "sync" /\ ~scheduled => received = sent
            BY Numbers DEF DInv, IInv, Scalars
        <3>2. ~scheduled => received >= mark
            BY Numbers DEF DInv, IInv, Scalars
        <3> QED
            BY <3>1, <3>2 DEF ThreadsDone, ScheduleThread
    <2>3. CASE Produce
        BY <2>2, <2>3, ProduceDrain
    <2>4. CASE Waits \/ Pause
        BY <2>2, <2>4, WaitDrain
    <2>5. CASE Copy \/ Schedule
        BY <2>2, <2>5, CopyDrain
    <2>6. CASE Simulate
        BY <2>2, <2>6, CopyDrain, ConsumeDrain DEF Simulate
    <2> QED
        BY <2>1, <2>3, <2>4, <2>5, <2>6 DEF Next, Quiescent
<1> QED
    BY <1>1, InitDrain, Invariance, PTL DEF Spec, WaitsDrain

-----------------------------------------------------------------------------
(* What FlattenSeq computes.                                               *)

(* Induction over an initial part of the naturals, for sets.               *)
LEMMA Induct ==
    ASSUME NEW n \in Nat, NEW S, 0 \in S, \A i \in 0 .. n - 1 : i \in S => i + 1 \in S
    PROVE  \A i \in 0 .. n : i \in S
<1> DEFINE Less == OpToRel(<, Nat)
           T == {i \in 0 .. n : i \notin S}
<1>1. IsWellFoundedOn(Less, Nat)
    BY NatLessThanWellFounded
<1>2. \A i, j \in Nat : <<j, i>> \in Less <=> j < i
    BY DEF OpToRel
<1> HIDE DEF Less
<1>3. SUFFICES ASSUME T # {} PROVE FALSE
    OBVIOUS
<1>4. T \subseteq Nat
    OBVIOUS
<1>5. PICK i \in T : \A j \in T : ~(<<j, i>> \in Less)
    BY <1>1, <1>3, <1>4, WFMin, Zenon
<1>6. i # 0 /\ i \in 1 .. n /\ i - 1 \in 0 .. n - 1 /\ (i - 1) + 1 = i
    OBVIOUS
<1>7. i - 1 \in S
    <2>1. i \in Nat /\ i - 1 \in Nat /\ i - 1 < i
        BY <1>6
    <2>2. i - 1 \notin T
        BY <1>2, <1>5, <2>1, Zenon
    <2>3. i - 1 \in 0 .. n
        BY <1>6
    <2> QED
        BY <2>2, <2>3
<1> QED
    BY <1>6, <1>7

(* Concatenating the first files, one after the other.                     *)
IsFlat(f, fs, n) == \A i \in 1 .. n : f[i] = IF i = 1 THEN fs[i] ELSE f[i - 1] \o fs[i]

(* There is such a function, as the definition of FlattenSeq requires.     *)
LEMMA FlatExists ==
    ASSUME NEW fs \in Seq(Seq(Slot)), NEW m \in Nat, m = Len(fs)
    PROVE  \E f \in [1 .. m -> Seq(Slot)] : IsFlat(f, fs, m)
<1> DEFINE S == {n \in 0 .. m : \E f \in [1 .. n -> Seq(Slot)] : IsFlat(f, fs, n)}
<1>1. 0 \in S
    <2> DEFINE g == [i \in 1 .. 0 |-> << >>]
    <2>1. g \in [1 .. 0 -> Seq(Slot)]
        OBVIOUS
    <2>2. IsFlat(g, fs, 0)
        BY DEF IsFlat
    <2>3. 0 \in 0 .. m
        OBVIOUS
    <2> HIDE DEF g
    <2> QED
        BY <2>1, <2>2, <2>3, Zenon
<1>2. ASSUME NEW n \in 0 .. m - 1, n \in S PROVE n + 1 \in S
    <2>1. PICK f \in [1 .. n -> Seq(Slot)] : IsFlat(f, fs, n)
        BY <1>2
    <2> DEFINE next == IF n = 0 THEN fs[1] ELSE f[n] \o fs[n + 1]
               g == [i \in 1 .. n + 1 |-> IF i = n + 1 THEN next ELSE f[i]]
    <2>2. n \in Nat /\ n + 1 \in 0 .. m /\ n + 1 \in 1 .. m /\ \A i \in 1 .. m : fs[i] \in Seq(Slot)
        BY ElementOfSeq
    <2>3. next \in Seq(Slot)
        <3>1. CASE n = 0
            BY <2>2, <3>1
        <3>2. CASE n # 0
            <4>1. f[n] \in Seq(Slot) /\ fs[n + 1] \in Seq(Slot)
                BY <2>2, <3>2
            <4> QED
                BY <3>2, <4>1, ConcatProperties
        <3> QED
            BY <3>1, <3>2
    <2> HIDE DEF next
    <2>4. g \in [1 .. n + 1 -> Seq(Slot)]
        BY <2>2, <2>3
    <2>5. \A i \in 1 .. n : g[i] = f[i]
        BY <2>2
    <2>6. g[n + 1] = next
        BY <2>2
    <2> HIDE DEF g
    <2>7. ASSUME NEW i \in 1 .. n + 1 PROVE g[i] = IF i = 1 THEN fs[i] ELSE g[i - 1] \o fs[i]
        <3>1. CASE i = n + 1
            <4>1. CASE n = 0
                BY <2>6, <3>1, <4>1 DEF next
            <4>2. CASE n # 0
                <5>1. i # 1 /\ i - 1 = n /\ n \in 1 .. n
                    BY <2>2, <3>1, <4>2
                <5>2. g[i - 1] = f[n]
                    BY <2>5, <5>1
                <5> QED
                    BY <2>6, <3>1, <4>2, <5>1, <5>2 DEF next
            <4> QED
                BY <4>1, <4>2
        <3>2. CASE i \in 1 .. n
            <4>1. CASE i = 1
                BY <2>1, <2>5, <3>2, <4>1 DEF IsFlat
            <4>2. CASE i # 1
                <5>1. i - 1 \in 1 .. n
                    BY <2>2, <3>2, <4>2
                <5>2. g[i - 1] = f[i - 1] /\ g[i] = f[i]
                    BY <2>5, <3>2, <5>1
                <5> QED
                    BY <2>1, <3>2, <4>2, <5>2 DEF IsFlat
            <4> QED
                BY <4>1, <4>2
        <3> QED
            BY <2>2, <3>1, <3>2
    <2>8. IsFlat(g, fs, n + 1)
        BY <2>7 DEF IsFlat
    <2> QED
        BY <2>2, <2>4, <2>8
<1> HIDE DEF S
<1>3. m \in S
    <2>1. \A i \in 0 .. m : i \in S
        BY <1>1, <1>2, Induct, Zenon
    <2> QED
        BY <2>1
<1> QED
    BY <1>3 DEF S

(* FlattenSeq of a list of files is the run of their handshakes.           *)
LEMMA FlattenRun ==
    ASSUME NEW fs, NEW b \in Nat, NEW e \in Int, FilesRun(fs, b, e)
    PROVE  Run(FlattenSeq(fs), b) /\ Len(FlattenSeq(fs)) = e - b
<1> DEFINE m == Len(fs)
<1>1. /\ fs \in Seq(Seq(Slot)) /\ m \in Nat /\ (fs = << >> <=> m = 0) /\ e \in Nat
      /\ \A k \in 1 .. m : Run(fs[k], Before(fs[k])) /\ Len(fs[k]) \in Nat /\ Before(fs[k]) \in Int
    <2>1. fs \in Seq(Seq(Slot))
        BY DEF FilesRun
    <2>2. /\ m \in Nat /\ (fs = << >> <=> m = 0) /\ e \in Nat
          /\ \A k \in 1 .. m : /\ fs[k] \in Seq(Slot) /\ Run(fs[k], Before(fs[k]))
                               /\ Before(fs[k]) \in Int
        BY FilesBounds
    <2> QED
        BY <2>1, <2>2
<1>2. CASE m = 0
    <2>1. FlattenSeq(fs) = << >> /\ e = b
        BY <1>1, <1>2 DEF FlattenSeq, FilesRun
    <2> QED
        BY <2>1, RunEmpty
<1>3. CASE m # 0
    <2> DEFINE c == CHOOSE f : f = [i \in 1 .. Len(fs) |->
                                      IF i = 1 THEN fs[i] ELSE f[i - 1] \o fs[i]]
    <2>1. FlattenSeq(fs) = c[m]
        BY <1>3, Zenon DEF FlattenSeq
    <2>2. \E f : f = [i \in 1 .. Len(fs) |-> IF i = 1 THEN fs[i] ELSE f[i - 1] \o fs[i]]
        <3>1. PICK f \in [1 .. m -> Seq(Slot)] : IsFlat(f, fs, m)
            BY <1>1, FlatExists
        <3>2. f = [i \in 1 .. m |-> IF i = 1 THEN fs[i] ELSE f[i - 1] \o fs[i]]
            BY <3>1, Zenon DEF IsFlat
        <3> QED
            BY <3>2
    <2>3. c = [i \in 1 .. Len(fs) |-> IF i = 1 THEN fs[i] ELSE c[i - 1] \o fs[i]]
        BY <2>2, Zenon
    <2> HIDE DEF c
    <2>4. IsFlat(c, fs, m)
        BY <2>3, Zenon DEF IsFlat
    <2> DEFINE End(k) == Before(fs[k]) + Len(fs[k])
               S == {n \in 0 .. m : n = 0 \/ (Run(c[n], b) /\ Len(c[n]) = End(n) - b)}
    <2>5. 0 \in S
        BY <1>1
    <2>6. ASSUME NEW n \in 0 .. m - 1, n \in S PROVE n + 1 \in S
        <3>1. n + 1 \in 1 .. m /\ n \in Nat
            BY <1>1
        <3>2. CASE n = 0
            <4>1. c[n + 1] = fs[n + 1]
                BY <2>4, <3>1, <3>2 DEF IsFlat
            <4>2. Before(fs[n + 1]) = b
                BY <1>1, <1>3, <3>2 DEF FilesRun
            <4>3. Run(fs[n + 1], b) /\ Len(fs[n + 1]) = End(n + 1) - b
                BY <1>1, <3>1, <4>2
            <4> QED
                BY <1>1, <3>1, <4>1, <4>3
        <3>3. CASE n # 0
            <4>1. n \in 1 .. m - 1 /\ n \in 1 .. m /\ n + 1 # 1 /\ (n + 1) - 1 = n
                BY <1>1, <3>1, <3>3
            <4>2. c[n + 1] = c[n] \o fs[n + 1]
                BY <2>4, <3>1, <4>1 DEF IsFlat
            <4>3. Run(c[n], b) /\ Len(c[n]) = End(n) - b
                BY <2>6, <3>3
            <4>4. Before(fs[n + 1]) = End(n)
                BY <4>1 DEF FilesRun
            <4>5. b + Len(c[n]) = Before(fs[n + 1])
                BY <1>1, <3>1, <4>1, <4>3, <4>4
            <4>6. Run(fs[n + 1], b + Len(c[n]))
                BY <1>1, <3>1, <4>5
            <4>7. Run(c[n + 1], b) /\ Len(c[n + 1]) = Len(c[n]) + Len(fs[n + 1])
                BY <4>2, <4>3, <4>6, RunConcat
            <4>8. Len(c[n + 1]) = End(n + 1) - b
                <5>1. /\ Len(c[n + 1]) = (Before(fs[n + 1]) - b) + Len(fs[n + 1])
                      /\ End(n + 1) = Before(fs[n + 1]) + Len(fs[n + 1])
                    BY <4>3, <4>4, <4>7, Zenon
                <5>2. Before(fs[n + 1]) \in Int /\ Len(fs[n + 1]) \in Nat
                    BY <1>1, <3>1
                <5>3. \A x \in Int, y \in Nat : (x - b) + y = (x + y) - b
                    OBVIOUS
                <5> QED
                    BY <5>1, <5>2, <5>3, Zenon
            <4> QED
                BY <1>1, <3>1, <4>7, <4>8
        <3> QED
            BY <3>2, <3>3
    <2> HIDE DEF S
    <2>7. m \in S
        <3>1. m \in Nat /\ \A i \in 0 .. m - 1 : i \in S => i + 1 \in S
            BY <1>1, <2>6, Zenon
        <3> HIDE DEF m
        <3>2. \A i \in 0 .. m : i \in S
            BY <2>5, <3>1, Induct, Zenon
        <3> QED
            BY <3>1, <3>2
    <2>8. Run(c[m], b) /\ Len(c[m]) = End(m) - b
        BY <1>3, <2>7 DEF S
    <2>9. End(m) = e
        BY <1>1, <1>3 DEF FilesRun
    <2> QED
        BY <2>1, <2>8, <2>9
<1> QED
    BY <1>2, <1>3

-----------------------------------------------------------------------------
(* The refinement of HandshakeChannel.                                     *)

(* The queue of the channel: the numbers from a + 1 to b.                  *)
Ids(a, b) == [i \in 1 .. b - a |-> a + i]

LEMMA IdsFacts ==
    ASSUME NEW a \in Nat, NEW b \in Nat, a <= b
    PROVE  /\ Ids(a, b) \in Seq(Nat) /\ Len(Ids(a, b)) = b - a
           /\ Ids(a, a) = << >>
           /\ Append(Ids(a, b), b + 1) = Ids(a, b + 1)
           /\ a < b => Ids(a, b) # << >> /\ Tail(Ids(a, b)) = Ids(a + 1, b)
<1>1. ASSUME NEW x \in Nat, NEW y \in Nat, x <= y
      PROVE  Ids(x, y) \in Seq(Nat) /\ Len(Ids(x, y)) = y - x /\ \A i \in 1 .. y - x : Ids(x, y)[i] = x + i
    BY <1>1 DEF Ids
<1>2. Ids(a, a) = << >>
    <2>1. Ids(a, a) \in Seq(Nat) /\ Len(Ids(a, a)) = 0
        BY <1>1
    <2> QED
        BY <2>1, EmptySeq
<1>3. Append(Ids(a, b), b + 1) = Ids(a, b + 1)
    <2>1. /\ Append(Ids(a, b), b + 1) \in Seq(Nat) /\ Len(Append(Ids(a, b), b + 1)) = (b - a) + 1
          /\ \A i \in 1 .. b - a : Append(Ids(a, b), b + 1)[i] = a + i
          /\ Append(Ids(a, b), b + 1)[(b - a) + 1] = b + 1
        <3> DEFINE q == Ids(a, b)
        <3>1. q \in Seq(Nat) /\ Len(q) = b - a /\ \A i \in 1 .. b - a : q[i] = a + i
            BY <1>1
        <3> HIDE DEF q
        <3>2. /\ Append(q, b + 1) \in Seq(Nat) /\ Len(Append(q, b + 1)) = Len(q) + 1
              /\ \A i \in 1 .. Len(q) : Append(q, b + 1)[i] = q[i]
              /\ Append(q, b + 1)[Len(q) + 1] = b + 1
            BY <3>1, AppendProperties
        <3> QED
            BY <3>1, <3>2 DEF q
    <2>2. /\ Ids(a, b + 1) \in Seq(Nat) /\ Len(Ids(a, b + 1)) = (b - a) + 1
          /\ \A i \in 1 .. (b - a) + 1 : Ids(a, b + 1)[i] = a + i
        BY <1>1
    <2>3. \A i \in 1 .. (b - a) + 1 : Append(Ids(a, b), b + 1)[i] = Ids(a, b + 1)[i]
        BY <2>1, <2>2
    <2> QED
        BY <2>1, <2>2, <2>3, SeqEqual
<1>4. ASSUME a < b PROVE Ids(a, b) # << >> /\ Tail(Ids(a, b)) = Ids(a + 1, b)
    <2>1. Ids(a, b) # << >>
        BY <1>1, <1>4, EmptySeq
    <2>2. /\ Tail(Ids(a, b)) \in Seq(Nat) /\ Len(Tail(Ids(a, b))) = (b - a) - 1
          /\ \A i \in 1 .. (b - a) - 1 : Tail(Ids(a, b))[i] = Ids(a, b)[i + 1]
        BY <1>1, <2>1, HeadTailProperties
    <2>3. /\ Ids(a + 1, b) \in Seq(Nat) /\ Len(Ids(a + 1, b)) = b - (a + 1)
          /\ \A i \in 1 .. b - (a + 1) : Ids(a + 1, b)[i] = (a + 1) + i
        BY <1>1, <1>4
    <2>4. b - (a + 1) = (b - a) - 1
        OBVIOUS
    <2>5. \A i \in 1 .. (b - a) - 1 : Tail(Ids(a, b))[i] = Ids(a + 1, b)[i]
        <3> TAKE i \in 1 .. (b - a) - 1
        <3>1. i + 1 \in 1 .. b - a /\ a + (i + 1) = (a + 1) + i
            OBVIOUS
        <3>2. Ids(a, b)[i + 1] = a + (i + 1)
            BY <1>1, <3>1
        <3> QED
            BY <2>2, <2>3, <2>4, <3>1, <3>2
    <2> QED
        BY <2>1, <2>2, <2>3, <2>4, <2>5, SeqEqual
<1> QED
    BY <1>1, <1>2, <1>3, <1>4

(* The finished handshakes that were not consumed, over all places.        *)
Queue == [i \in 1 .. Len(InFlight) |-> InFlight[i].id]

QueueInOrder == /\ sent \in Nat /\ received \in Nat /\ received <= sent
                /\ Queue = Ids(received, sent)

LEMMA QueueIs == IInv => QueueInOrder
<1> SUFFICES ASSUME IInv
             PROVE  /\ sent \in Nat /\ received \in Nat /\ received <= sent
                    /\ Queue = Ids(received, sent)
    BY DEF QueueInOrder
<1>n. /\ sent \in Nat /\ received \in Nat /\ left \in Nat
      /\ FilesFrom \in Nat /\ FilesTo \in Nat
      /\ Len(file) \in Nat /\ Len(Finished(produceBuffer)) \in Nat /\ Len(consumeBuffer) \in Nat
    BY Numbers
<1>o. /\ Run(consumeBuffer, received) /\ FilesRun(files, FilesFrom, FilesTo)
      /\ Run(file, FilesTo) /\ Run(Finished(produceBuffer), FilesTo + Len(file))
      /\ sent = FilesTo + Len(file) + Len(Finished(produceBuffer))
    BY DEF IInv, InOrder
<1> DEFINE c == received + Len(consumeBuffer)
<1>1. /\ c \in Nat /\ Run(Unread, c) /\ c + Len(Unread) = FilesTo /\ Len(Unread) \in Nat
    <2>1. CASE consumer = "reading"
        <3> DEFINE h == Head(files)
                   s == SubSeq(h, Len(h) - left + 1, Len(h))
                   f == FlattenSeq(Tail(files))
        <3>1. files # << >> /\ Len(consumeBuffer) + left = Len(h) /\ FilesFrom = received
            BY <2>1, Numbers DEF IInv, Reading
        <3>2. /\ Run(h, received) /\ received + Len(h) <= FilesTo
              /\ FilesRun(Tail(files), received + Len(h), FilesTo)
            <4>1. FilesTo \in Int
                BY <1>n
            <4> QED
                BY <1>n, <1>o, <3>1, <4>1, FilesTail, Zenon
        <3>3. Len(h) \in Nat /\ received + Len(h) \in Nat
            BY <1>n, <3>2 DEF Run
        <3>4. Run(f, received + Len(h)) /\ Len(f) = FilesTo - (received + Len(h))
            BY <1>n, <3>2, <3>3, FlattenRun
        <3>5. Len(consumeBuffer) \in 0 .. Len(h) /\ Len(h) - left + 1 = Len(consumeBuffer) + 1
            BY <1>n, <3>1, <3>3
        <3>6. Run(s, c) /\ Len(s) = Len(h) - Len(consumeBuffer)
            BY <1>n, <3>2, <3>5, RunSuffix
        <3>7. c \in Nat /\ c + Len(s) = received + Len(h)
            BY <1>n, <3>3, <3>6
        <3> HIDE DEF s, f
        <3>8. Run(s \o f, c) /\ Len(s \o f) = Len(s) + Len(f)
            BY <3>4, <3>6, <3>7, RunConcat
        <3>9. Unread = s \o f
            BY <2>1 DEF Unread, s, f
        <3>10. c + (Len(s) + Len(f)) = FilesTo /\ Len(s) + Len(f) \in Nat
            <4>1. \A r, n, l, t \in Nat : n <= l /\ r + l <= t =>
                      /\ (r + n) + ((l - n) + (t - (r + l))) = t
                      /\ (l - n) + (t - (r + l)) \in Nat
                OBVIOUS
            <4>2. Len(consumeBuffer) <= Len(h)
                BY <1>n, <3>3, <3>5
            <4> HIDE DEF h
            <4>3. /\ (received + Len(consumeBuffer))
                        + ((Len(h) - Len(consumeBuffer)) + (FilesTo - (received + Len(h)))) = FilesTo
                  /\ (Len(h) - Len(consumeBuffer)) + (FilesTo - (received + Len(h))) \in Nat
                <5>1. received + Len(h) <= FilesTo
                    BY <3>2
                <5> QED
                    BY <1>n, <3>3, <4>1, <4>2, <5>1
            <4> QED
                BY <3>4, <3>6, <4>3, Zenon
        <3> QED
            BY <3>7, <3>8, <3>9, <3>10
    <2>2. CASE consumer # "reading"
        <3>1. FilesFrom = c /\ Unread = FlattenSeq(files)
            BY <2>2 DEF FilesFrom, Unread
        <3>2. Run(FlattenSeq(files), FilesFrom) /\ Len(FlattenSeq(files)) = FilesTo - FilesFrom
            BY <1>n, <1>o, FlattenRun
        <3>3. FilesFrom <= FilesTo
            BY <1>n, <1>o, FilesBounds
        <3> QED
            BY <1>n, <3>1, <3>2, <3>3
    <2> QED
        BY <2>1, <2>2
<1> HIDE DEF c
<1>2. /\ Run(consumeBuffer \o Unread, received)
      /\ Len(consumeBuffer \o Unread) = Len(consumeBuffer) + Len(Unread)
    BY <1>1, <1>n, <1>o, RunConcat DEF c
<1> DEFINE u == consumeBuffer \o Unread
<1>3. received + Len(u) = FilesTo /\ Len(u) \in Nat
    BY <1>1, <1>2, <1>n DEF c
<1> HIDE DEF u
<1>4. Run(u \o file, received) /\ Len(u \o file) = Len(u) + Len(file)
    BY <1>2, <1>3, <1>n, <1>o, RunConcat DEF u
<1> DEFINE v == u \o file
           w == v \o Finished(produceBuffer)
<1>5. received + Len(v) = FilesTo + Len(file) /\ Len(v) \in Nat
    BY <1>3, <1>4, <1>n
<1>6. Run(w, received) /\ Len(w) = Len(v) + Len(Finished(produceBuffer))
    <2> HIDE DEF v
    <2>1. Run(v, received)
        BY <1>4 DEF v
    <2> QED
        BY <1>5, <1>n, <1>o, <2>1, RunConcat
<1>7. InFlight = w
    BY DEF InFlight, u
<1> HIDE DEF v, w
<1>8. Len(w) = sent - received /\ received <= sent
    BY <1>5, <1>6, <1>n, <1>o
<1>9. \A i \in 1 .. Len(w) : w[i].id = received + i
    BY <1>6 DEF Run
<1>10. Queue = Ids(received, sent)
    BY <1>7, <1>8, <1>9 DEF Queue, Ids
<1> QED
    BY <1>8, <1>10, <1>n

(* What a step does to the two counters.                                   *)
LEMMA CountersStep ==
    ASSUME IInv, [Next]_vars
    PROVE  \/ UNCHANGED <<sent, received>>
           \/ sent' = sent + 1 /\ received' = received
           \/ sent' = sent /\ received' = received + 1
<1>1. CASE Produce
    BY <1>1 DEF Produce, GetProperBuffer, Return, FinalizeBuffer, AddYieldHandshake,
        SyncWithTimingSim, ThreadFini, PauseSimulation, ResumeSimulation, AddHandshake,
        ProducerDone, producing, consuming
<1>2. CASE Copy \/ Waits \/ Schedule
    BY <1>2 DEF Copy, Waits, Schedule, FlushBuffers, writeHandshake, NotifyProduced,
        ScheduleThread, SeesScheduled, CheckIPCMessageQueue, producing, consuming
<1>3. CASE Pause
    BY <1>3 DEF Pause, AddGiveUpHandshake, ThreadsDone, AllScheduled, AddHandshake,
        ProducerDone, producing, consuming
<1>4. CASE Simulate
    BY <1>4 DEF Simulate, GetConsumerSize, WaitForFile, readHandshake, NotifyConsumed,
        Consume, producing, consuming
<1>5. CASE UNCHANGED vars
    BY <1>5 DEF vars
<1> QED
    BY <1>1, <1>2, <1>3, <1>4, <1>5 DEF Next, Quiescent

(* Through both in-memory buffers and all the files between them, every    *)
(* handshake the feeder finishes is consumed once, in order                *)
(* (ImplementsChannel), for any capacity, number of files and workload.    *)
THEOREM Refinement == ASSUME Overlap = FALSE PROVE Spec => ImplementsChannel
<1>1. Init => Channel!Init
    <2> SUFFICES ASSUME Init PROVE Channel!Init
        OBVIOUS
    <2>1. sent = 0 /\ received = 0
        BY DEF Init
    <2>2. Queue = Ids(received, sent)
        BY InitInv, QueueIs DEF QueueInOrder
    <2>3. Queue = << >>
        BY <2>1, <2>2, IdsFacts
    <2> QED
        BY <2>1, <2>3 DEF Channel!Init, Queue
<1>2. IInv /\ IInv' /\ [Next]_vars => [Channel!Next]_<<sent, Queue>>
    <2> SUFFICES ASSUME IInv, IInv', [Next]_vars
                 PROVE  [Channel!Next]_<<sent, Queue>>
        OBVIOUS
    <2>1. /\ sent \in Nat /\ received \in Nat /\ received <= sent
          /\ Queue = Ids(received, sent)
        BY QueueIs DEF QueueInOrder
    <2>2. /\ sent' \in Nat /\ received' \in Nat /\ received' <= sent'
          /\ Queue' = Ids(received', sent')
        <3>1. QueueInOrder'
            BY QueueIs, PTL
        <3> QED
            BY <3>1 DEF QueueInOrder
    <2>3. CASE UNCHANGED <<sent, received>>
        BY <2>1, <2>2, <2>3
    <2>4. CASE sent' = sent + 1 /\ received' = received
        <3>1. Queue' = Append(Queue, sent + 1)
            BY <2>1, <2>2, <2>4, IdsFacts
        <3> QED
            BY <2>4, <3>1 DEF Channel!Next, Channel!Send, Queue
    <2>5. CASE sent' = sent /\ received' = received + 1
        <3>1. received < sent
            BY <2>1, <2>2, <2>5
        <3>2. Queue # << >> /\ Queue' = Tail(Queue)
            BY <2>1, <2>2, <2>5, <3>1, IdsFacts
        <3> QED
            BY <2>5, <3>2 DEF Channel!Next, Channel!Receive, Queue
    <2> QED
        BY <2>3, <2>4, <2>5, CountersStep
<1> QED
    BY <1>1, <1>2, Invariance, PTL DEF Spec, ImplementsChannel, Channel!Spec, Queue

=============================================================================
