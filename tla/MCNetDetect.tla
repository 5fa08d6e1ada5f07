---------------------------- MODULE MCNetDetect ----------------------------
(* Instances of NetDetect and of the script it leads to, for TLC. *)
EXTENDS BootScript

TwoNics == {"eth0", "eth1"}
OneOfEach == {"bond0", "br0", "vlan5"}
NameSaysKind == [d \in OneOfEach |-> CASE d = "bond0" -> "bond"
                                       [] d = "br0"   -> "bridge"
                                       [] d = "vlan5" -> "vlan"]

\* The stacks the setup script's step 9b names: NIC, bond, bridge, VLAN on a
\* NIC, and VLAN on a bond.
Common == [k \in {"vlan", "bond", "bridge"} |->
             IF k = "vlan" THEN {"nic", "bond"} ELSE {"nic"}]

ASSUME KnownStacks

OneOfEachKind == {None, "eth1", "vlan5", "br0"}
=============================================================================
