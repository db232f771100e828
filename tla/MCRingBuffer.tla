---------------------------- MODULE MCRingBuffer ----------------------------
(* TLC instance of RingBuffer: every position of head_ and tail_ in a ring *)
(* of four, with two values to tell elements apart.                        *)
EXTENDS RingBuffer

CONSTANTS v1, v2
=============================================================================
