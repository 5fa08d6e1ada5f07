------------------------------ MODULE MCKeygen ------------------------------
(* Instances of Keygen for TLC. *)
EXTENDS Keygen

\* Only the commit point may be lost on its own.
OnlyThePub == {ClientSSHPub}
=============================================================================
