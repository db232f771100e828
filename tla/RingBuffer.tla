----------------------------- MODULE RingBuffer -----------------------------
(***************************************************************************)
(* Buffer<T> (pintool/buffer.h): a pre-allocated circular queue.  One      *)
(* action per operation; the asserts are guards, because both users test   *)
(* empty() and full() before they call (HandshakeBuffer checks that).      *)
(***************************************************************************)
EXTENDS Integers, Sequences

CONSTANTS
    numPool_,   \* the capacity
    Values,     \* what a user writes into an element
    Invalid     \* an element as Invalidate() leaves it

ASSUME RingAssumption == numPool_ \in Nat \ {0} /\ Invalid \notin Values

VARIABLES pool_, head_, tail_, size_

vars == <<pool_, head_, tail_, size_>>

Slots == 0 .. numPool_ - 1

Init ==
    /\ pool_ = [i \in Slots |-> Invalid]
    /\ head_ = 0
    /\ tail_ = 0
    /\ size_ = 0

full == size_ = numPool_
empty == size_ = 0

(* head_++ and tail_++, wrapping at the end of the pool; head_--.          *)
Up(i) == IF i + 1 = numPool_ THEN 0 ELSE i + 1

Down(i) == IF i - 1 = -1 THEN numPool_ - 1 ELSE i - 1

(* The index of back().                                                    *)
BackIndex == Down(head_)

(* get_buffer() and push_done().                                           *)
PushDone ==
    /\ ~full
    /\ head_' = Up(head_)
    /\ size_' = size_ + 1
    /\ UNCHANGED <<pool_, tail_>>

(* Mutant: the user fills in the element after the last one.               *)
FillHead(v) ==
    /\ ~empty
    /\ pool_' = [pool_ EXCEPT ![head_] = v]
    /\ UNCHANGED <<head_, tail_, size_>>

(* The user fills in the element that back() points to.                    *)
FillBack(v) ==
    /\ ~empty
    /\ pool_' = [pool_ EXCEPT ![BackIndex] = v]
    /\ UNCHANGED <<head_, tail_, size_>>

pop ==
    /\ ~empty
    /\ pool_' = [pool_ EXCEPT ![tail_] = Invalid]
    /\ tail_' = Up(tail_)
    /\ size_' = size_ - 1
    /\ UNCHANGED head_

pop_back ==
    /\ ~empty
    /\ pool_' = [pool_ EXCEPT ![BackIndex] = Invalid]
    /\ head_' = Down(head_)
    /\ size_' = size_ - 1
    /\ UNCHANGED tail_

Next == PushDone \/ pop \/ pop_back \/ \E v \in Values : FillBack(v)

Spec == Init /\ [][Next]_vars

-----------------------------------------------------------------------------
(* The indices stay inside the pool and the size inside the capacity.     *)
TypeOK ==
    /\ pool_ \in [Slots -> Values \cup {Invalid}]
    /\ head_ \in Slots
    /\ tail_ \in Slots
    /\ size_ \in 0 .. numPool_

(* get_item(): [0] is the front, [size_ - 1] the back.                     *)
IndexOf(i) == IF tail_ + i >= numPool_ THEN tail_ + i - numPool_ ELSE tail_ + i
get_item(i) == pool_[IndexOf(i)]

(* head_ is size_ elements past tail_, counted around the ring.            *)
HeadFollowsTail == head_ = IndexOf(size_)

(* What the feeder relies on when it gets a new element                    *)
(* (feeder_zesto.cpp: ASSERTX(!res->flags.valid)): every element that is   *)
(* not in use is invalid, and get_buffer() returns such an element.        *)
FreeInvalid ==
    \A i \in size_ .. numPool_ - 1 : get_item(i) = Invalid

(* The circular queue implements a bounded queue of the elements that      *)
(* get_item() enumerates.                                                  *)
Contents == [i \in 1 .. size_ |-> get_item(i - 1)]
Deque == INSTANCE BoundedDeque WITH Capacity <- numPool_, items <- Contents
ImplementsDeque == Deque!Spec
=============================================================================
