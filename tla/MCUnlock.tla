------------------------------ MODULE MCUnlock ------------------------------
(* Instances of Unlock for TLC; its constants are plain values. *)
EXTENDS Unlock
=============================================================================
