------------------------------ MODULE MCOracle ------------------------------
(***************************************************************************)
(* Instances of Oracle for TLC.                                            *)
(***************************************************************************)
EXTENDS Oracle

=============================================================================
