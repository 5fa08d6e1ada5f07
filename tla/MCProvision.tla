---------------------------- MODULE MCProvision ----------------------------
(* Instances of Provision for TLC. *)
EXTENDS Provision, TLC

CONSTANTS c1, c2, k1, k2

Symmetry == Permutations({c1, c2}) \cup Permutations({k1, k2})

PlainServer == {"plain"}
AllServers == {"plain", "bootOnLuks", "noDropbearDir"}
=============================================================================
