-------------------------- MODULE RingBufferProofs --------------------------
(* Proofs about RingBuffer for every capacity and every set of values.     *)
EXTENDS RingBuffer, SequenceTheorems, TLAPS

(* IndexOf with the tail as a parameter.                                   *)
Ix(t, i) == IF t + i >= numPool_ THEN t + i - numPool_ ELSE t + i

(* IndexOf is Ix at the tail, now and after a step.                        *)
LEMMA IndexOfIx == \A i : IndexOf(i) = Ix(tail_, i) /\ IndexOf(i)' = Ix(tail_', i)
BY DEF IndexOf, Ix

(* The arithmetic of the ring: positions are slots, different positions    *)
(* are different slots, and moving the tail up shifts positions by one.    *)
LEMMA RingArithmetic ==
    ASSUME NEW t \in Slots
    PROVE  /\ \A i \in 0 .. numPool_ : Ix(t, i) \in Slots
           /\ \A i, j \in Slots : Ix(t, i) = Ix(t, j) => i = j
           /\ Ix(t, 0) = t
           /\ Up(t) \in Slots /\ Down(t) \in Slots
           /\ \A i \in Slots : Ix(Up(t), i) = Ix(t, i + 1)
           /\ Ix(Up(t), numPool_ - 1) = t
           /\ \A i \in Slots : Up(Ix(t, i)) = Ix(t, i + 1)
           /\ \A i \in 1 .. numPool_ : Down(Ix(t, i)) = Ix(t, i - 1)
BY RingAssumption DEF Ix, Slots, Up, Down

(* The indices of Buffer<T> stay inside the pool.                          *)
THEOREM TypeCorrect == Spec => []TypeOK
<1>1. Init => TypeOK
    BY RingAssumption DEF Init, TypeOK, Slots
<1>2. TypeOK /\ [Next]_vars => TypeOK'
    <2> SUFFICES ASSUME TypeOK, [Next]_vars PROVE TypeOK'
        OBVIOUS
    <2>1. /\ Up(head_) \in Slots /\ Up(tail_) \in Slots /\ Down(head_) \in Slots
        BY RingArithmetic DEF TypeOK
    <2>2. CASE PushDone
        BY <2>1, <2>2, RingAssumption DEF PushDone, full, TypeOK
    <2>3. ASSUME NEW v \in Values, FillBack(v) PROVE TypeOK'
        BY <2>1, <2>3 DEF FillBack, BackIndex, TypeOK
    <2>4. CASE pop
        BY <2>1, <2>4, RingAssumption DEF pop, empty, TypeOK
    <2>5. CASE pop_back
        BY <2>1, <2>5, RingAssumption DEF pop_back, empty, BackIndex, TypeOK
    <2>6. CASE UNCHANGED vars
        BY <2>6 DEF vars, TypeOK
    <2> QED
        BY <2>2, <2>3, <2>4, <2>5, <2>6 DEF Next
<1> QED
    BY <1>1, <1>2, PTL DEF Spec

-----------------------------------------------------------------------------
(* The inductive invariant.                                                *)
Inv == HeadFollowsTail /\ FreeInvalid

(* back() is the last element in use.                                      *)
LEMMA BackIsLast ==
    ASSUME TypeOK, HeadFollowsTail, ~empty
    PROVE  BackIndex = Ix(tail_, size_ - 1)
<1>1. size_ \in 1 .. numPool_ /\ head_ = Ix(tail_, size_)
    BY IndexOfIx, RingAssumption DEF TypeOK, HeadFollowsTail, empty
<1> QED
    BY <1>1, RingArithmetic DEF BackIndex, TypeOK

(* Each operation keeps the invariant.                                     *)
LEMMA InvKept == ASSUME TypeOK, Inv, [Next]_vars PROVE Inv'
<1> USE DEF Inv
<1>0. /\ tail_ \in Slots /\ size_ \in 0 .. numPool_ /\ numPool_ \in Nat \ {0}
      /\ head_ = Ix(tail_, size_)
      /\ \A i \in size_ .. numPool_ - 1 : pool_[Ix(tail_, i)] = Invalid
    BY IndexOfIx, RingAssumption DEF TypeOK, HeadFollowsTail, FreeInvalid, get_item
<1>a. SUFFICES /\ head_' = Ix(tail_', size_')
               /\ \A i \in size_' .. numPool_ - 1 : pool_'[Ix(tail_', i)] = Invalid
    BY IndexOfIx DEF HeadFollowsTail, FreeInvalid, get_item
<1>1. CASE PushDone
    BY <1>0, <1>1, RingArithmetic DEF PushDone, full, Slots
<1>2. ASSUME NEW v \in Values, FillBack(v)
      PROVE  /\ head_' = Ix(tail_', size_')
             /\ \A i \in size_' .. numPool_ - 1 :
                   pool_'[Ix(tail_', i)] = Invalid
    <2>1. BackIndex = Ix(tail_, size_ - 1) /\ size_ - 1 \in Slots
        BY <1>0, <1>2, BackIsLast DEF FillBack, empty, Slots
    <2>2. ASSUME NEW i \in size_ .. numPool_ - 1
          PROVE  Ix(tail_, i) # Ix(tail_, size_ - 1)
        BY <1>0, <2>1, RingArithmetic DEF Slots
    <2> QED
        BY <1>0, <1>2, <2>1, <2>2 DEF FillBack, TypeOK
<1>3. CASE pop
    <2>1. size_ - 1 \in Slots /\ tail_' = Up(tail_) /\ size_' = size_ - 1
        BY <1>0, <1>3 DEF pop, empty, Slots
    <2>2. head_' = Ix(tail_', size_')
        BY <1>0, <1>3, <2>1, RingArithmetic DEF pop
    <2>3. ASSUME NEW i \in size_' .. numPool_ - 1
          PROVE  pool_'[Ix(tail_', i)] = Invalid
        <3>1. i \in Slots /\ Ix(tail_', i) = Ix(tail_, i + 1)
            BY <1>0, <2>1, RingArithmetic DEF Slots
        <3>2. CASE i = numPool_ - 1
            <4>1. Ix(tail_', i) = tail_
                BY <1>0, <2>1, <3>2, RingArithmetic
            <4> QED
                BY <1>0, <1>3, <4>1 DEF pop, TypeOK
        <3>3. CASE i # numPool_ - 1
            <4>1. i + 1 \in size_ .. numPool_ - 1 /\ i + 1 \in 0 .. numPool_
                BY <1>0, <2>1, <3>1, <3>3 DEF Slots
            <4>2. pool_[Ix(tail_, i + 1)] = Invalid /\ Ix(tail_, i + 1) \in Slots
                BY <1>0, <4>1, RingArithmetic
            <4> QED
                BY <1>3, <3>1, <4>2 DEF pop, TypeOK
        <3> QED
            BY <3>2, <3>3
    <2> QED
        BY <2>2, <2>3
<1>4. CASE pop_back
    <2>1. /\ BackIndex = Ix(tail_, size_ - 1) /\ size_ - 1 \in Slots
          /\ BackIndex = Down(head_)
          /\ tail_' = tail_ /\ size_' = size_ - 1
        BY <1>0, <1>4, BackIsLast DEF pop_back, empty, Slots, BackIndex
    <2>2. head_' = Ix(tail_', size_')
        BY <1>4, <2>1 DEF pop_back
    <2>3. ASSUME NEW i \in size_' .. numPool_ - 1
          PROVE  pool_'[Ix(tail_', i)] = Invalid
        <3>0. i \in 0 .. numPool_
            BY <1>0, <2>1 DEF Slots
        <3>1. Ix(tail_, i) \in Slots
            BY <1>0, <3>0, RingArithmetic
        <3>2. CASE i = size_ - 1
            BY <1>4, <2>1, <3>1, <3>2 DEF pop_back, TypeOK
        <3>3. CASE i # size_ - 1
            <4>1. i \in size_ .. numPool_ - 1
                BY <1>0, <2>1, <3>3
            <4> QED
                BY <1>0, <1>4, <2>1, <3>1, <4>1 DEF pop_back, TypeOK
        <3> QED
            BY <3>2, <3>3
    <2> QED
        BY <2>2, <2>3
<1>5. CASE UNCHANGED vars
    BY <1>0, <1>5 DEF vars
<1> QED
    BY <1>1, <1>2, <1>3, <1>4, <1>5 DEF Next

(* head_, tail_ and size_ of Buffer<T> stay consistent, and the elements   *)
(* that are not in use are invalid.                                        *)
THEOREM RingInvariant == Spec => [](HeadFollowsTail /\ FreeInvalid)
<1>1. Init => Inv
    <2> SUFFICES ASSUME Init PROVE Inv
        OBVIOUS
    <2>1. HeadFollowsTail
        BY RingAssumption DEF Init, HeadFollowsTail, IndexOf
    <2>2. FreeInvalid
        BY RingAssumption DEF Init, FreeInvalid, get_item, IndexOf, Slots
    <2> QED
        BY <2>1, <2>2 DEF Inv
<1>2. TypeOK /\ Inv /\ [Next]_vars => Inv'
    BY InvKept
<1> QED
    BY <1>1, <1>2, TypeCorrect, PTL DEF Spec, Inv
-----------------------------------------------------------------------------
(* The elements of a ring: pool p, tail t, n elements in use.              *)
Elems(p, t, n) == [i \in 1 .. n |-> p[Ix(t, i - 1)]]

(* They form a sequence of length n.                                       *)
LEMMA ElemsType ==
    ASSUME NEW V, NEW p \in [Slots -> V], NEW t \in Slots,
           NEW n \in 0 .. numPool_
    PROVE  Elems(p, t, n) \in Seq(V) /\ Len(Elems(p, t, n)) = n
<1>1. n \in Nat
    BY RingAssumption
<1>2. ASSUME NEW i \in 1 .. n PROVE p[Ix(t, i - 1)] \in V
    <2>1. i - 1 \in 0 .. numPool_
        BY RingAssumption
    <2> QED
        BY <2>1, RingArithmetic
<1>3. Elems(p, t, n) \in [1 .. n -> V]
    BY <1>2 DEF Elems
<1> QED
    BY <1>1, <1>3 DEF Elems

(* Contents lists the elements, now and after a step.                      *)
LEMMA ContentsElems ==
    /\ Contents = Elems(pool_, tail_, size_)
    /\ Contents' = Elems(pool_', tail_', size_')
BY IndexOfIx DEF Contents, get_item, Elems

(* Every operation of the ring is the same operation of the queue.         *)
LEMMA StepSimulation ==
    ASSUME TypeOK, TypeOK', Inv, [Next]_vars
    PROVE  [Deque!Next]_Contents
<1> DEFINE V == Values \cup {Invalid}
           E == Elems(pool_, tail_, size_)
           F == Elems(pool_', tail_', size_')
<1>0. /\ tail_ \in Slots /\ size_ \in 0 .. numPool_ /\ numPool_ \in Nat \ {0}
      /\ tail_' \in Slots /\ size_' \in 0 .. numPool_
      /\ pool_ \in [Slots -> V] /\ pool_' \in [Slots -> V]
      /\ \A i \in size_ .. numPool_ - 1 : pool_[Ix(tail_, i)] = Invalid
    BY IndexOfIx, RingAssumption DEF Inv, TypeOK, FreeInvalid, get_item
<1>1. Contents = E /\ Contents' = F
    BY ContentsElems
<1>2. /\ E \in Seq(V) /\ Len(E) = size_ /\ F \in Seq(V) /\ Len(F) = size_'
    BY <1>0, ElemsType
<1>3. /\ \A i \in 1 .. size_ : E[i] = pool_[Ix(tail_, i - 1)]
      /\ \A i \in 1 .. size_' : F[i] = pool_'[Ix(tail_', i - 1)]
    BY DEF Elems
<1>4. Invalid \in V /\ Values \subseteq V
    OBVIOUS
<1> HIDE DEF E, F, V
<1>5. CASE PushDone
    <2>1. size_ < numPool_ /\ size_' = size_ + 1
        BY <1>0, <1>5 DEF PushDone, full
    <2>2. pool_[Ix(tail_, size_)] = Invalid
        BY <1>0, <2>1
    <2>3. /\ Append(E, Invalid) \in Seq(V) /\ Len(Append(E, Invalid)) = size_'
          /\ \A i \in 1 .. size_ : Append(E, Invalid)[i] = E[i]
          /\ Append(E, Invalid)[size_ + 1] = Invalid
        BY <1>0, <1>2, <1>4, <2>1
    <2>4. ASSUME NEW i \in 1 .. size_' PROVE F[i] = Append(E, Invalid)[i]
        <3>1. CASE i \in 1 .. size_
            BY <1>3, <1>5, <2>3, <3>1 DEF PushDone
        <3>2. CASE i = size_ + 1
            <4>1. F[size_ + 1] = pool_'[Ix(tail_', (size_ + 1) - 1)]
                BY <1>3, <3>2
            <4>2. (size_ + 1) - 1 = size_
                BY <1>0
            <4>3. F[size_ + 1] = pool_[Ix(tail_, size_)]
                BY <1>5, <4>1, <4>2 DEF PushDone
            <4> QED
                BY <2>2, <2>3, <3>2, <4>3
        <3>3. i \in 1 .. size_ \/ i = size_ + 1
            BY <1>0, <2>1
        <3> QED
            BY <3>1, <3>2, <3>3
    <2>5. F = Append(E, Invalid)
        BY <1>2, <2>3, <2>4, SeqEqual
    <2> QED
        BY <1>1, <1>2, <2>1, <2>5 DEF Deque!Push, Deque!Next
<1>6. ASSUME NEW v \in Values, FillBack(v) PROVE Deque!Next
    <2>1. /\ BackIndex = Ix(tail_, size_ - 1) /\ size_ - 1 \in Slots
          /\ tail_' = tail_ /\ size_' = size_ /\ E # <<>>
        BY <1>0, <1>2, <1>6, BackIsLast DEF FillBack, empty, Slots, Inv
    <2>2. /\ [E EXCEPT ![size_] = v] \in Seq(V)
          /\ Len([E EXCEPT ![size_] = v]) = size_
          /\ \A i \in 1 .. size_ :
                [E EXCEPT ![size_] = v][i] = IF i = size_ THEN v ELSE E[i]
        <3>1. size_ \in 1 .. Len(E) /\ v \in V
            BY <1>0, <1>2, <1>4, <2>1 DEF Slots
        <3> QED
            BY <1>2, <3>1, ExceptSeq
    <2>3. ASSUME NEW i \in 1 .. size_ PROVE F[i] = [E EXCEPT ![size_] = v][i]
        <3>1. i - 1 \in Slots /\ i - 1 \in 0 .. numPool_
            BY <1>0 DEF Slots
        <3>2. /\ Ix(tail_, i - 1) \in Slots
              /\ Ix(tail_, i - 1) = Ix(tail_, size_ - 1) => i = size_
            <4>1. i - 1 = size_ - 1 => i = size_
                BY <1>0
            <4> QED
                BY <1>0, <2>1, <3>1, <4>1, RingArithmetic
        <3> QED
            BY <1>0, <1>3, <1>6, <2>1, <2>2, <3>2 DEF FillBack
    <2>4. F = [E EXCEPT ![size_] = v]
        BY <1>2, <2>1, <2>2, <2>3, SeqEqual
    <2> QED
        BY <1>1, <1>2, <2>1, <2>4 DEF Deque!Fill, Deque!Next
<1>7. CASE pop
    <2>1. /\ size_ - 1 \in Slots /\ tail_' = Up(tail_) /\ size_' = size_ - 1
          /\ E # <<>>
        BY <1>0, <1>2, <1>7 DEF pop, empty, Slots
    <2>2. /\ Tail(E) \in Seq(V) /\ Len(Tail(E)) = size_'
          /\ \A i \in 1 .. size_' : Tail(E)[i] = E[i + 1]
        BY <1>2, <2>1, HeadTailProperties
    <2>3. ASSUME NEW i \in 1 .. size_' PROVE F[i] = Tail(E)[i]
        <3>1. /\ i - 1 \in Slots /\ i \in Slots /\ 0 \in Slots
              /\ i \in 0 .. numPool_ /\ i + 1 \in 1 .. size_ /\ (i - 1) + 1 = i
            BY <1>0, <2>1 DEF Slots
        <3>2. /\ Ix(tail_', i - 1) = Ix(tail_, i) /\ Ix(tail_, i) \in Slots
              /\ Ix(tail_, i) # tail_
            BY <1>0, <2>1, <3>1, RingArithmetic
        <3>3. pool_'[Ix(tail_, i)] = pool_[Ix(tail_, i)]
            BY <1>0, <1>7, <3>2 DEF pop
        <3>4. E[i + 1] = pool_[Ix(tail_, (i + 1) - 1)] /\ (i + 1) - 1 = i
            BY <1>3, <3>1
        <3> QED
            BY <1>3, <2>2, <3>2, <3>3, <3>4
    <2>4. F = Tail(E)
        BY <1>2, <2>2, <2>3, SeqEqual
    <2> QED
        BY <1>1, <2>1, <2>4 DEF Deque!Pop, Deque!Next
<1>8. CASE pop_back
    <2>1. /\ BackIndex = Ix(tail_, size_ - 1) /\ size_ - 1 \in Slots
          /\ tail_' = tail_ /\ size_' = size_ - 1 /\ E # <<>>
        BY <1>0, <1>2, <1>8, BackIsLast DEF pop_back, empty, Slots, Inv
    <2>2. /\ SubSeq(E, 1, size_ - 1) \in Seq(V)
          /\ Len(SubSeq(E, 1, size_ - 1)) = size_ - 1
          /\ \A i \in 1 .. size_ - 1 : SubSeq(E, 1, size_ - 1)[i] = E[i]
        BY <1>0, <1>2, <2>1 DEF Slots
    <2>3. ASSUME NEW i \in 1 .. size_' PROVE F[i] = SubSeq(E, 1, size_ - 1)[i]
        <3>1. i - 1 \in Slots /\ i - 1 \in 0 .. numPool_ /\ i \in 1 .. size_
            BY <1>0, <2>1 DEF Slots
        <3>2. /\ Ix(tail_, i - 1) \in Slots
              /\ Ix(tail_, i - 1) # Ix(tail_, size_ - 1)
            <4>1. i - 1 # size_ - 1
                BY <1>0, <2>1
            <4> QED
                BY <1>0, <2>1, <3>1, <4>1, RingArithmetic
        <3> QED
            BY <1>0, <1>3, <1>8, <2>1, <2>2, <3>1, <3>2 DEF pop_back
    <2>4. F = SubSeq(E, 1, size_ - 1)
        BY <1>2, <2>1, <2>2, <2>3, SeqEqual
    <2> QED
        BY <1>1, <1>2, <2>1, <2>4 DEF Deque!PopBack, Deque!Next
<1>9. CASE UNCHANGED vars
    BY <1>9, ContentsElems DEF vars
<1> QED
    BY <1>5, <1>6, <1>7, <1>8, <1>9 DEF Next

(* Buffer<T> implements a bounded queue, for every capacity.               *)
THEOREM Refinement == Spec => ImplementsDeque
<1>1. Init => Deque!Init
    BY DEF Init, Deque!Init, Contents
<1>2. TypeOK /\ TypeOK' /\ Inv /\ [Next]_vars => [Deque!Next]_Contents
    BY StepSimulation
<1> QED
    BY <1>1, <1>2, TypeCorrect, RingInvariant, PTL
    DEF Spec, Inv, ImplementsDeque, Deque!Spec
=============================================================================
