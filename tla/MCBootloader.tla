---------------------------- MODULE MCBootloader ----------------------------
(* Instances of Bootloader for TLC. *)
EXTENDS Bootloader

TwoNets == {"net1", "net2"}
OnePlain == {"quiet"}
Gossip == {"gossip"}
TwoEntries == {"a.conf", "b.conf"}
=============================================================================
