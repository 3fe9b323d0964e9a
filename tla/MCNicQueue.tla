----------------------------- MODULE MCNicQueue -----------------------------
(* The instances of NicQueue that TLC checks. *)
EXTENDS NicQueue
=============================================================================
