------------------------ MODULE MCHandshakeBuffer ------------------------
(* TLC instances of HandshakeBuffer.                                       *)
EXTENDS HandshakeBuffer

(* A program whose threads are paused, and one whose threads synchronize   *)
(* with the simulator and exit, but not both at once.                      *)
Separate == {{"yield", "pause"}, {"yield", "sync", "kill"}}
=============================================================================
