---------------------------- MODULE BootScript ----------------------------
(***************************************************************************)
(* The init-premount script that buildSetupScriptData renders from what    *)
(* NetDetect has found, run in the server's initramfs: which device it     *)
(* gives the address and the default route, and when wg0 comes up.         *)
(*                                                                         *)
(* The script runs under set -e.  A command with `|| true` may fail        *)
(* quietly; any other failure ends the script.  Of the template's branches *)
(* the two that create a bond are never rendered: buildSetupScriptData     *)
(* clears BondSlaves whenever there are any.                               *)
(***************************************************************************)
EXTENDS NetDetect

CONSTANT MaxMishaps   \* bound: commands that fail by themselves

ASSUME BootScriptAssumption == MaxMishaps \in Nat

VARIABLES
    line,      \* the command of the script to be run next
    wanted,    \* the server's interface: its NICs, and whether it is a VLAN
    certain,   \* whether the stack of that interface was recognised
    present,   \* NICs that show under the names they have on the server
    first,     \* the first Ethernet device, whatever its name, or None
    vlan,      \* what the VLAN of the script is on, or None
    iface,     \* $IFACE
    up,        \* devices set up
    addrs,     \* devices that have the static address
    route,     \* the device of the default route, or None
    wg,        \* the commands on wg0 that have been run
    mishaps    \* commands that failed by themselves

plannedFor == <<wanted, certain, present, first>>
net == <<vlan, iface, up, addrs, route>>
boot == <<line, plannedFor, net, wg, mishaps>>

WGCommands == <<"wg add", "wg addr", "wg setconf", "wg up">>

Lines == {"off", "parent up", "parent flush", "vlan add", "find", "up", "addr add",
          "route del", "route add", "end", "halted"} \cup ToSet(WGCommands)

BootInit ==
    /\ Init
    /\ line = "off"
    /\ wanted = [nics |-> {}, tagged |-> FALSE] /\ certain = FALSE
    /\ present = {} /\ first = None
    /\ vlan = None /\ iface = None /\ up = {} /\ addrs = {} /\ route = None
    /\ wg = {}
    /\ mishaps = 0

-----------------------------------------------------------------------------
(* The server restarts with the image made from the plan. *)

\* The physical devices under d.
Under(d) ==
    LET below(e) == IF e \in Nics THEN {e} ELSE ToSet(lower[e])
    IN  UNION {below(e) : e \in below(d)}

\* The image has the drivers step 9b added, and perhaps others.  The NICs show
\* under their names if udev's naming rules are in the image too, and the ip=
\* parameter may have configured one before the script runs.
PowerOn ==
    /\ stage = "done" /\ stage' = "boot"
    /\ wanted' = [nics |-> Under(info.iface),
                  tagged |-> info.iface \in Virtual /\ Kind(info.iface) = "vlan"]
    /\ certain' = Recognised
    /\ \E loaded \in SUBSET Nics, named \in BOOLEAN :
         /\ Modules(plan.drivers) \cap Nics \subseteq loaded
         /\ present' = IF named THEN loaded ELSE {}
         /\ first' \in IF loaded = {} THEN {None} ELSE loaded
    /\ route' \in {None, plan.grub} \cap (present' \cup {None})
    /\ addrs' = {route'} \ {None} /\ up' = addrs'
    /\ line' = IF plan.scriptParent # None THEN "parent up" ELSE "find"
    \* What `ubo run` knew is gone, and so are the server's virtual devices.
    /\ lower' = [d \in Virtual |-> <<>>]
    /\ routes' = <<>> /\ want' = None /\ static' = FALSE /\ mute' = {}
    /\ info' = NoInfo
    /\ UNCHANGED <<plan, vlan, iface, wg, mishaps>>

-----------------------------------------------------------------------------
(* The commands. *)

\* The script goes on from one command to the next.
Step(l, next) == line = l /\ line' = next

Unchanged == UNCHANGED <<vars, plannedFor>>

DeviceExists(d) ==
    \/ d \in present
    \/ d = first /\ first # None
    \/ d = plan.script /\ vlan # None

ParentUp ==
    /\ Step("parent up", "parent flush")
    /\ plan.scriptParent \in present
    /\ up' = up \cup {plan.scriptParent}
    /\ Unchanged /\ UNCHANGED <<vlan, iface, addrs, route, wg, mishaps>>

\* Mutant: the address the kernel gave the parent is left there.
ParentKeepsAddress ==
    /\ Step("parent flush", "vlan add")
    /\ Unchanged /\ UNCHANGED <<net, wg, mishaps>>

ParentFlush ==
    /\ Step("parent flush", "vlan add")
    /\ addrs' = addrs \ {plan.scriptParent}
    /\ Unchanged /\ UNCHANGED <<vlan, iface, up, route, wg, mishaps>>

VLANAdd ==
    /\ Step("vlan add", "up")
    /\ vlan' = plan.scriptParent
    /\ iface' = plan.script
    /\ Unchanged /\ UNCHANGED <<up, addrs, route, wg, mishaps>>

\* Mutant: a VLAN that cannot be added gives way to its parent.
VLANAddFallsBack ==
    /\ Step("vlan add", "up") /\ mishaps < MaxMishaps
    /\ mishaps' = mishaps + 1
    /\ iface' = plan.scriptParent
    /\ Unchanged /\ UNCHANGED <<vlan, up, addrs, route, wg>>

VLANAddFails ==
    /\ Step("vlan add", "up") /\ mishaps < MaxMishaps
    /\ mishaps' = mishaps + 1
    /\ iface' = plan.script
    /\ Unchanged /\ UNCHANGED <<vlan, up, addrs, route, wg>>

\* A plain NIC: the configured name, else the first Ethernet device.
FindInterface ==
    /\ Step("find", "up")
    /\ iface' = IF plan.script \in present \/ first = None THEN plan.script ELSE first
    /\ Unchanged /\ UNCHANGED <<vlan, up, addrs, route, wg, mishaps>>

InterfaceUp ==
    /\ Step("up", "addr add")
    /\ DeviceExists(iface)
    /\ up' = up \cup {iface}
    /\ Unchanged /\ UNCHANGED <<vlan, iface, addrs, route, wg, mishaps>>

AddrAdd ==
    /\ Step("addr add", "route del")
    /\ addrs' = addrs \cup {iface}
    /\ Unchanged /\ UNCHANGED <<vlan, iface, up, route, wg, mishaps>>

RouteDel ==
    /\ Step("route del", "route add")
    /\ route' = None
    /\ Unchanged /\ UNCHANGED <<vlan, iface, up, addrs, wg, mishaps>>

\* With or without the onlink host route to the gateway; a second default route
\* is refused.
RouteAdd ==
    /\ Step("route add", Head(WGCommands))
    /\ route' = IF route = None THEN iface ELSE route
    /\ Unchanged /\ UNCHANGED <<vlan, iface, up, addrs, wg, mishaps>>

\* A command that may fail does: nothing happens and the script goes on.
QuietFailure ==
    /\ mishaps < MaxMishaps /\ mishaps' = mishaps + 1
    /\ \/ Step("parent flush", "vlan add")
       \/ Step("addr add", "route del")
       \/ Step("route del", "route add")
       \/ Step("route add", Head(WGCommands))
    /\ Unchanged /\ UNCHANGED <<net, wg>>

\* wg0 is made afresh, addressed, configured and set up.
WGCommand ==
    /\ \E i \in DOMAIN WGCommands :
         /\ Step(WGCommands[i], IF i < Len(WGCommands) THEN WGCommands[i + 1] ELSE "end")
         /\ wg' = wg \cup {WGCommands[i]}
    /\ Unchanged /\ UNCHANGED <<net, mishaps>>

\* set -e: a device is missing, or a command without `|| true` fails by itself.
Halts ==
    /\ line' = "halted"
    /\ \/ /\ \/ line = "parent up" /\ plan.scriptParent \notin present
             \/ line = "up" /\ ~DeviceExists(iface)
          /\ mishaps' = mishaps
       \/ /\ line \in {"parent up", "up"} \cup ToSet(WGCommands)
          /\ mishaps < MaxMishaps /\ mishaps' = mishaps + 1
    /\ Unchanged /\ UNCHANGED <<net, wg>>

BootEnds == line \in {"end", "halted"} /\ UNCHANGED <<vars, boot>>

BootNext ==
    \/ Next /\ UNCHANGED boot
    \/ PowerOn
    \/ ParentUp \/ ParentFlush \/ VLANAdd \/ VLANAddFails \/ FindInterface
    \/ InterfaceUp \/ AddrAdd \/ RouteDel \/ RouteAdd \/ QuietFailure
    \/ WGCommand \/ Halts \/ BootEnds

BootSpec == BootInit /\ [][BootNext]_<<vars, boot>>

-----------------------------------------------------------------------------
(* Properties. *)

BootTypeOK ==
    /\ TypeOK
    /\ line \in Lines
    /\ wanted.nics \subseteq Nics /\ wanted.tagged \in BOOLEAN
    /\ certain \in BOOLEAN
    /\ present \subseteq Nics /\ first \in Nics \cup {None}
    /\ vlan \in Nics \cup {None}
    /\ iface \in Nics \cup {plan.script, None}
    /\ up \cup addrs \subseteq Nics \cup {plan.script}
    /\ route \in Nics \cup {plan.script, None}
    /\ wg \subseteq ToSet(WGCommands)
    /\ mishaps \in 0..MaxMishaps

\* Whether $IFACE is the VLAN made, and the NIC that carries what is sent on it.
Tagged == vlan # None /\ iface = plan.script
Carrier == IF Tagged THEN vlan ELSE iface

\* wg0 is only set up over a device that is up and reaches the network of the
\* server's own interface: one of its NICs, tagged exactly if it is a VLAN.  So
\* whatever fails quietly, unless the stack was not recognised when ubo ran, or
\* the NIC does not show under its name and the first one is taken instead.
TunnelOverTheRightDevice ==
    "wg up" \in wg /\ certain /\ present # {} =>
        /\ iface \in up
        /\ Carrier \in wanted.nics
        /\ Tagged = wanted.tagged

\* If no command failed, the script leaves the static address on one device
\* alone, whether or not ip= had configured a device before, and the default
\* route goes through it (templates.go:179, 216).
OneAddressOneRoute ==
    line = "end" /\ mishaps = 0 => addrs = {iface} /\ route = iface

\* What ubo planned is enough to bring the tunnel up: the script never stops for
\* want of a device, except for a stack not recognised, a NIC without its name,
\* or a command that failed.
NeverStopsByPlan ==
    line = "halted" /\ certain /\ present # {} => mishaps > 0
=============================================================================
