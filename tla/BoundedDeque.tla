---------------------------- MODULE BoundedDeque ----------------------------
(***************************************************************************)
(* What Buffer<T> (pintool/buffer.h) promises its two users, the producer  *)
(* and the consumer side of the handshake buffers: a queue of at most      *)
(* Capacity elements.  A pushed element starts out invalid and is filled   *)
(* in place.                                                               *)
(***************************************************************************)
EXTENDS Naturals, Sequences

CONSTANTS Capacity, Values, Invalid

VARIABLE items      \* the elements, front first

Init == items = <<>>

Push ==
    /\ Len(items) < Capacity
    /\ items' = Append(items, Invalid)

Fill(v) ==
    /\ items # <<>>
    /\ items' = [items EXCEPT ![Len(items)] = v]

Pop ==
    /\ items # <<>>
    /\ items' = Tail(items)

PopBack ==
    /\ items # <<>>
    /\ items' = SubSeq(items, 1, Len(items) - 1)

Next == Push \/ Pop \/ PopBack \/ \E v \in Values : Fill(v)

Spec == Init /\ [][Next]_items
=============================================================================
