----------------------------- MODULE NetDetect -----------------------------
(***************************************************************************)
(* Step 1 of `ubo run` and what is rendered from it: how internal/setup    *)
(* reads the server's default routes, addresses and link topology, which   *)
(* device it gives to the kernel's ip= parameter and to the init-premount  *)
(* script, and which modules the setup script then adds to the initramfs.  *)
(*                                                                         *)
(* An address is abstracted to the device it is configured on, a gateway   *)
(* to the device it is reached through, a NIC's driver to the NIC.  Each   *)
(* query is an SSH command of its own and may fail by itself.              *)
(***************************************************************************)
EXTENDS Integers, Sequences, FiniteSets, SequencesExt

CONSTANTS
    Nics,       \* physical devices
    Virtual,    \* the other devices a server may have
    KindOf,     \* of each virtual device: "vlan", "bond" or "bridge"
    BuiltOn,    \* of each kind: the kinds of device below it
    MaxRoutes,  \* bound: default routes
    Overrides,  \* values of network.interface: devices, or None for unset
    MaxMute     \* bound: failing queries

None == "none"
Configured == "network.ip"    \* the address given in the config
Devices == Nics \cup Virtual

ASSUME NetDetectAssumption ==
    /\ None \notin Devices
    /\ Nics \cap Virtual = {}
    /\ KindOf \in [Virtual -> {"vlan", "bond", "bridge"}]
    /\ Overrides \subseteq Devices \cup {None}
    /\ MaxRoutes \in Nat /\ MaxMute \in Nat

\* The queries of detectNetwork (the host name's has a fallback).
Queries == {"route", "addr", "link", "slaves", "parent slaves", "ports"}

Kind(d) == IF d \in Nics THEN "nic" ELSE KindOf[d]

VARIABLES
    lower,   \* of each virtual device: those directly below it, <<>> if missing
    routes,  \* the lines of `ip route show default`
    want,    \* network.interface, or None
    static,  \* whether network.ip is set
    mute,    \* the queries that fail
    info,    \* the NetworkInfo detected
    plan,    \* what buildSetupScriptData makes of it
    stage    \* "detect", "build", "done" or "error", then BootScript's "boot"

server == <<lower, routes, want, static, mute>>
vars == <<server, info, plan, stage>>

(***************************************************************************)
(* Servers as the kernel allows them: a VLAN sits on one device, a bond or *)
(* bridge owns one or two, and nothing is owned twice.  Devices with an    *)
(* owner carry no route.                                                   *)
(***************************************************************************)
LowerOf(d) ==
    LET below == {e \in Devices : Kind(e) \in BuiltOn[Kind(d)]}
        size  == IF Kind(d) = "vlan" THEN 1 ELSE 2
    IN  {s \in SeqOf(below, size) : IsInjective(s)}

Exists(low, d) == d \in Nics \/ low[d] # <<>>

Owned(low, d) ==
    IF d \in Virtual /\ Kind(d) \in {"bond", "bridge"} THEN ToSet(low[d]) ELSE {}

Lowers ==
    {low \in [Virtual -> SeqOf(Devices, 2)] :
        \A d \in Virtual :
          /\ low[d] \in LowerOf(d) \cup {<<>>}
          /\ \A e \in ToSet(low[d]) : Exists(low, e)
          /\ \A e \in Virtual \ {d} : Owned(low, d) \cap Owned(low, e) = {}}

Usable(low) ==
    {d \in Devices : Exists(low, d)} \ UNION {Owned(low, d) : d \in Virtual}

\* A default route names its device; `via` and `src` are optional.
Routes(low) ==
    SeqOf([dev : Usable(low), via : BOOLEAN, src : BOOLEAN], MaxRoutes)

NoInfo == [iface |-> None, gateway |-> None, ip |-> None, prefix |-> FALSE,
           vlanPhysdev |-> None, bondSlaves |-> <<>>, bridgePorts |-> <<>>]

NoPlan == [grub |-> None, script |-> None, scriptParent |-> None, drivers |-> None]

Init ==
    /\ lower \in Lowers
    /\ routes \in Routes(lower)
    /\ want \in {w \in Overrides : w = None \/ w \in Usable(lower)}
    /\ static \in BOOLEAN
    /\ mute \in {m \in SUBSET Queries : Cardinality(m) <= MaxMute}
    /\ info = NoInfo
    /\ plan = NoPlan
    /\ stage = "detect"

-----------------------------------------------------------------------------
(* detectNetwork. *)

\* The first token of a kind in the whole output, whatever line it is on
\* (applyRouteToken fills each field once): the device of the first of the lines
\* that have one.
FirstDev(places) == IF places = {} THEN None ELSE routes[Min(places)].dev

Gateway == FirstDev({i \in DOMAIN routes : routes[i].via})
Interface == IF want # None THEN want ELSE FirstDev(DOMAIN routes)

Source == FirstDev({i \in DOMAIN routes : routes[i].src})

\* Mutant: the address is looked for on the device below.
AddressBelow ==
    IF static THEN Configured
    ELSE IF Source # None THEN Source
    ELSE IF "addr" \in mute THEN None
    ELSE IF Interface \in Virtual THEN Head(lower[Interface]) ELSE Interface

\* The address: network.ip, else the first src token, else the interface's own.
Address ==
    IF static THEN Configured
    ELSE IF Source # None THEN Source
    ELSE IF "addr" \in mute THEN None ELSE Interface

\* The prefix length is network.ip's, or read off the interface's own addresses;
\* /24 is assumed when the address is not among them or they are not told.
PrefixFound == static \/ (Address = Interface /\ "addr" \notin mute)

\* Whether a topology query names the device below: a failed one says no.
Answered(q, s) == IF q \in mute THEN <<>> ELSE s

\* detectVLAN
VLANPhysdev(d) ==
    IF d \in Virtual /\ Kind(d) = "vlan" /\ "link" \notin mute
      THEN Head(lower[d]) ELSE None

\* detectBond
Slaves(d) == IF d \in Virtual /\ Kind(d) = "bond" THEN lower[d] ELSE <<>>

\* detectVLANBond asks the VLAN's parent too.
BondSlaves(d) ==
    LET own    == Answered("slaves", Slaves(d))
        parent == Answered("parent slaves", Slaves(VLANPhysdev(d)))
    IN  IF parent # <<>> THEN parent ELSE own

\* detectBridge
BridgePorts(d) ==
    IF d \in Virtual /\ Kind(d) = "bridge" THEN Answered("ports", lower[d]) ELSE <<>>

Detected ==
    [iface |-> Interface, gateway |-> Gateway, ip |-> Address,
     prefix |-> PrefixFound,
     vlanPhysdev |-> VLANPhysdev(Interface),
     bondSlaves |-> BondSlaves(Interface),
     bridgePorts |-> BridgePorts(Interface)]

\* Mutant: a missing gateway is no error.
DetectWithoutGateway ==
    /\ stage = "detect"
    /\ "route" \notin mute
    /\ Interface # None /\ Address # None
    /\ info' = Detected
    /\ stage' = "build"
    /\ UNCHANGED <<server, plan>>

DetectNetwork ==
    /\ stage = "detect"
    /\ "route" \notin mute
    /\ Interface # None /\ Gateway # None /\ Address # None
    /\ info' = Detected
    /\ stage' = "build"
    /\ UNCHANGED <<server, plan>>

DetectFails ==
    /\ stage = "detect"
    /\ "route" \in mute \/ Interface = None \/ Gateway = None \/ Address = None
    /\ stage' = "error"
    /\ UNCHANGED <<server, info, plan>>

-----------------------------------------------------------------------------
(* buildSetupScriptData. *)

\* The device for networking in the initramfs: a bridge gives way to its
\* first port.
InitramfsIface ==
    IF info.bridgePorts # <<>> THEN Head(info.bridgePorts) ELSE info.iface

\* Mutant: bonds are forgotten.
GrubInterfaceNoBond ==
    IF info.vlanPhysdev # None THEN info.vlanPhysdev ELSE InitramfsIface

\* The device for the kernel's ip= parameter.
GrubInterface ==
    IF info.bondSlaves # <<>> THEN Head(info.bondSlaves)
    ELSE IF info.vlanPhysdev # None THEN info.vlanPhysdev
    ELSE InitramfsIface

\* The device the init-premount script configures: on a bond its first slave,
\* or a VLAN made on that slave (which has no name on the running server).
NewVLAN == "new VLAN"

ASSUME NewVLANAssumption == NewVLAN \notin Devices

ScriptInterface ==
    IF info.bondSlaves = <<>> THEN InitramfsIface
    ELSE IF info.vlanPhysdev # None THEN NewVLAN
    ELSE Head(info.bondSlaves)

\* Mutant: the VLAN's parent on the server, although the bond is not set up.
ParentOnServer == info.vlanPhysdev

\* The parent of the VLAN the script creates, None if it creates none.
ScriptVLANPhysdev ==
    IF info.vlanPhysdev = None THEN None
    ELSE IF info.bondSlaves # <<>> THEN Head(info.bondSlaves)
    ELSE info.vlanPhysdev

\* The device whose drivers the setup script looks up in sysfs.
NetInterface ==
    IF ScriptInterface = NewVLAN THEN info.iface ELSE ScriptInterface

BuildSetupScriptData ==
    /\ stage = "build"
    /\ plan' = [grub |-> GrubInterface, script |-> ScriptInterface,
                scriptParent |-> ScriptVLANPhysdev, drivers |-> NetInterface]
    /\ stage' = "done"
    /\ UNCHANGED <<server, info>>

\* One server is examined once.
Finished == stage \in {"done", "error"} /\ UNCHANGED vars

Next == DetectNetwork \/ DetectFails \/ BuildSetupScriptData \/ Finished

Spec == Init /\ [][Next]_vars

-----------------------------------------------------------------------------
(* Step 9b of the setup script, run on the server. *)

\* _drv_for: only a physical device has a driver link.
Driver(d) == {d} \cap Nics

\* The modules _add_mod is called with.
Modules(d) ==
    CASE d \in Nics -> Driver(d)
      [] d \in Virtual /\ Kind(d) = "bond" ->
           {"bonding"} \cup UNION {Driver(e) : e \in ToSet(lower[d])}
      [] d \in Virtual /\ Kind(d) = "bridge" ->
           {"bridge"} \cup UNION {Driver(e) : e \in ToSet(lower[d])}
      [] d \in Virtual /\ Kind(d) = "vlan" ->
           {"8021q"} \cup
           IF Slaves(Head(lower[d])) # <<>>
             THEN {"bonding"} \cup UNION {Driver(e) : e \in ToSet(Slaves(Head(lower[d])))}
             ELSE Driver(Head(lower[d]))

-----------------------------------------------------------------------------
(* Properties. *)

TypeOK ==
    /\ lower \in [Virtual -> Seq(Devices)]
    /\ mute \subseteq Queries /\ static \in BOOLEAN
    /\ routes \in Seq([dev : Devices, via : BOOLEAN, src : BOOLEAN])
    /\ want \in Devices \cup {None}
    /\ stage \in {"detect", "build", "done", "error", "boot"}
    /\ stage \in {"build", "done"} =>
         /\ info.iface \in Devices /\ info.gateway \in Devices
         /\ info.ip \in Devices \cup {Configured} /\ info.prefix \in BOOLEAN
    /\ stage = "done" =>
         /\ plan.grub \in Devices /\ plan.drivers \in Devices
         /\ plan.script \in Devices \cup {NewVLAN}

\* The interface, its address and its gateway belong together, and the prefix
\* length is the address's own instead of the assumed /24 (README.md:171: the
\* IP is that of the default route, or else of its interface).  Only where there
\* is one default route and the config names no interface: otherwise fields of
\* several routes may be mixed.
OneRoute ==
    (stage \in {"build", "done"} /\ Len(routes) = 1 /\ want = None) =>
        /\ info.gateway = info.iface
        /\ info.ip = IF static THEN Configured ELSE info.iface
        /\ static \/ "addr" \notin mute => info.prefix

\* The stacks the code is written for (detectVLANBond, step 9b): a device below
\* is a NIC, or the bond a VLAN sits on.
KnownStacks ==
    /\ BuiltOn["vlan"] \subseteq {"nic", "bond"}
    /\ BuiltOn["bond"] \subseteq {"nic"} /\ BuiltOn["bridge"] \subseteq {"nic"}

\* The queries on which the stack of device d is recognised; a failed one is
\* taken for "no" (setup.go:510, 533, 578).
Needed(d) ==
    CASE Kind(d) = "nic"    -> {}
      [] Kind(d) = "bond"   -> {"slaves"}
      [] Kind(d) = "bridge" -> {"ports"}
      [] Kind(d) = "vlan"   -> {"link"} \cup IF Slaves(Head(lower[d])) # <<>>
                                              THEN {"parent slaves"} ELSE {}

\* Nothing the stack of the interface needs was misread.
Recognised == info.iface # None /\ Needed(info.iface) \cap mute = {}

\* The device named in ip= exists when the kernel boots (setup.go:130, "Must
\* be a real NIC that exists at kernel boot"), whichever other query failed; and
\* what the shell adds to the initramfs is what the Go side planned with: the
\* driver of that NIC, and 8021q when the script creates a VLAN.
GrubInterfaceIsNic ==
    stage = "done" /\ Recognised =>
        /\ plan.grub \in Nics \cap Modules(plan.drivers)
        /\ plan.scriptParent # None => "8021q" \in Modules(plan.drivers)
=============================================================================
