-------------------------- MODULE BootScriptProofs --------------------------
(***************************************************************************)
(* The theorems of NetDetect and BootScript, for any NICs, virtual devices *)
(* and routes, whichever queries and commands fail.  The two that say what *)
(* a stack is made into take the stacks to be those the code is written    *)
(* for (KnownStacks).                                                      *)
(***************************************************************************)
EXTENDS BootScript, WellFoundedInduction, TLAPS

USE NetDetectAssumption, NewVLANAssumption, BootScriptAssumption

-----------------------------------------------------------------------------
(* Routes and devices. *)

\* A set of places has a first one.
LEMMA FirstPlace ==
    ASSUME NEW n \in Nat, NEW S, S \subseteq 1..n, S # {}
    PROVE  Min(S) \in S
<1>1. S \subseteq Nat
    OBVIOUS
<1>2. PICK i \in S : \A j \in S : ~ (<<j, i>> \in OpToRel(<, Nat))
    BY <1>1, NatLessThanWellFounded, WFMin
<1>3. \A j \in S : ~ (j < i)
    BY <1>1, <1>2 DEF OpToRel
<1>4. \A j \in S : i <= j
    BY <1>1, <1>3
<1> QED
    BY <1>4 DEF Min

LEMMA ListIsSeq ==
    ASSUME NEW X, NEW m \in Nat, NEW s \in [1..m -> X] PROVE s \in Seq(X)
    OBVIOUS

RouteLines == [dev : Devices, via : BOOLEAN, src : BOOLEAN]

\* What FirstDev finds is the device of a line.
LEMMA FirstDevFound ==
    ASSUME routes \in Seq(RouteLines), NEW S, S \subseteq DOMAIN routes
    PROVE  /\ S = {} => FirstDev(S) = None
           /\ S # {} => \E i \in S : FirstDev(S) = routes[i].dev
<1>1. DOMAIN routes = 1..Len(routes) /\ Len(routes) \in Nat
    OBVIOUS
<1>2. S # {} => Min(S) \in S
    BY <1>1, FirstPlace
<1> QED
    BY <1>2 DEF FirstDev

\* The server, as it is until it restarts.
Examined ==
    /\ lower \in [Virtual -> Seq(Devices)]
    /\ routes \in Seq(RouteLines)
    /\ want \in Devices \cup {None}
    /\ mute \subseteq Queries /\ static \in BOOLEAN
    /\ stage \in {"detect", "build", "done", "error", "boot"}
    /\ stage # "boot" =>
         /\ lower \in Lowers
         /\ want \in Usable(lower) \cup {None}
         /\ \A i \in DOMAIN routes : routes[i].dev \in Usable(lower)

LEMMA ServerExamined == Init => Examined
<1> SUFFICES ASSUME Init PROVE Examined
    OBVIOUS
<1>1. \A low \in Lowers : low \in [Virtual -> Seq(Devices)]
  <2>1. ASSUME NEW s \in SeqOf(Devices, 2) PROVE s \in Seq(Devices)
    <3>1. PICK m \in 0..2 : s \in [1..m -> Devices]
        BY DEF SeqOf
    <3> QED
        BY <3>1
  <2> QED
      BY <2>1 DEF Lowers
<1>3. Usable(lower) \subseteq Devices
    BY DEF Usable
<1>4. PICK m \in 0..MaxRoutes :
        routes \in [1..m -> [dev : Usable(lower), via : BOOLEAN, src : BOOLEAN]]
    BY DEF Init, Routes, SeqOf
<1>5. routes \in Seq(RouteLines) /\ \A i \in DOMAIN routes : routes[i].dev \in Usable(lower)
  <2>1. m \in Nat /\ DOMAIN routes = 1..m
      BY <1>4
  <2>2. \A i \in 1..m :
          routes[i] \in [dev : Usable(lower), via : BOOLEAN, src : BOOLEAN]
      BY <1>4
  <2>3. \A i \in 1..m : routes[i] \in RouteLines /\ routes[i].dev \in Usable(lower)
      BY <1>3, <2>2 DEF RouteLines
  <2>4. routes = [i \in 1..m |-> routes[i]]
      BY <1>4
  <2>5. routes \in [1..m -> RouteLines]
      BY <2>3, <2>4
  <2> QED
      BY <2>1, <2>3, <2>5, ListIsSeq
<1>6. static \in BOOLEAN
    BY Zenon DEF Init
<1> QED
    BY <1>1, <1>3, <1>5, <1>6 DEF Init, Examined

\* An interface found exists on the server.
LEMMA InterfaceExists ==
    ASSUME Examined, stage # "boot", Interface # None
    PROVE  Interface \in Devices /\ Exists(lower, Interface)
<1>1. Interface \in Usable(lower)
    BY FirstDevFound DEF Interface, Examined
<1> QED
    BY <1>1 DEF Usable

\* Below a virtual device that exists there are devices that exist.
LEMMA Below ==
    ASSUME Examined, stage # "boot", NEW d \in Virtual, Exists(lower, d)
    PROVE  /\ lower[d] \in Seq(Devices) /\ lower[d] # <<>>
           /\ Head(lower[d]) \in ToSet(lower[d])
           /\ \A e \in ToSet(lower[d]) :
                e \in Devices /\ Exists(lower, e) /\ Kind(e) \in BuiltOn[Kind(d)]
<1>1. lower[d] \in Seq(Devices) /\ lower[d] # <<>>
    BY DEF Examined, Exists, Devices
<1>2. Head(lower[d]) \in ToSet(lower[d])
    BY <1>1 DEF ToSet
<1>3. \A e \in ToSet(lower[d]) : Exists(lower, e)
    BY DEF Examined, Lowers
<1>4. \A e \in ToSet(lower[d]) : e \in Devices /\ Kind(e) \in BuiltOn[Kind(d)]
  <2>1. lower[d] \in LowerOf(d)
      BY <1>1 DEF Examined, Lowers
  <2> DEFINE below == {e \in Devices : Kind(e) \in BuiltOn[Kind(d)]}
  <2>2. PICK size \in {1, 2} : lower[d] \in SeqOf(below, size)
      BY <2>1 DEF LowerOf
  <2>3. PICK m \in 0..size : lower[d] \in [1..m -> below]
      BY <2>2 DEF SeqOf
  <2> QED
      BY <2>3 DEF ToSet
<1> QED
    BY <1>1, <1>2, <1>3, <1>4

-----------------------------------------------------------------------------
(* What is detected and planned. *)

Told ==
    stage \in {"build", "done"} =>
        info = Detected /\ Interface # None /\ Gateway # None /\ Address # None

Planned ==
    stage = "done" =>
        plan = [grub |-> GrubInterface, script |-> ScriptInterface,
                scriptParent |-> ScriptVLANPhysdev, drivers |-> NetInterface]

Detection == Examined /\ Told /\ Planned

\* What detectNetwork reports are devices.
LEMMA DetectedTyped ==
    ASSUME Detection, stage \in {"build", "done"}
    PROVE  /\ info.iface \in Devices /\ Exists(lower, info.iface)
           /\ info.gateway \in Devices
           /\ info.ip \in Devices \cup {Configured} /\ info.prefix \in BOOLEAN
           /\ info.vlanPhysdev \in Devices \cup {None}
           /\ info.bondSlaves \in Seq(Devices) /\ info.bridgePorts \in Seq(Devices)
<1> USE DEF Detection
<1>0. Examined /\ info = Detected /\ Interface # None /\ Gateway # None /\ Address # None
    BY DEF Told
<1>1. Interface \in Devices /\ Exists(lower, Interface)
    BY <1>0, InterfaceExists
<1>2. Gateway \in Devices /\ Source \in Devices \cup {None}
  <2>1. \A i \in DOMAIN routes : routes[i].dev \in Devices
    <3>1. \A i \in DOMAIN routes : routes[i].dev \in Usable(lower)
        BY <1>0 DEF Examined
    <3> QED
        BY <3>1 DEF Usable
  <2>2. \A S \in SUBSET (DOMAIN routes) : FirstDev(S) \in Devices \cup {None}
      BY <1>0, <2>1, FirstDevFound DEF Examined
  <2> QED
      BY <1>0, <2>2 DEF Gateway, Source
<1>3. Address \in Devices \cup {Configured}
    BY <1>0, <1>1, <1>2 DEF Address
<1>4. PrefixFound \in BOOLEAN
    BY <1>0 DEF PrefixFound, Examined
<1>5. VLANPhysdev(Interface) \in Devices \cup {None}
    BY <1>0, <1>1, Below DEF VLANPhysdev
<1>6. \A d : Slaves(d) \in Seq(Devices)
    BY <1>0 DEF Slaves, Examined
<1>7. BondSlaves(Interface) \in Seq(Devices)
  <2>1. \A q, d : Answered(q, Slaves(d)) \in Seq(Devices)
      BY <1>6 DEF Answered
  <2> QED
      BY <2>1 DEF BondSlaves
<1>8. BridgePorts(Interface) \in Seq(Devices)
    BY <1>0 DEF BridgePorts, Answered, Examined
<1> QED
    BY <1>0, <1>1, <1>2, <1>3, <1>4, <1>5, <1>7, <1>8 DEF Detected

\* The plan is made of devices, and the kernel's ip= is given the NIC the script
\* goes by: the parent of its VLAN, or its interface.
LEMMA PlanTyped ==
    ASSUME Detection, stage = "done"
    PROVE  /\ plan.grub \in Devices /\ plan.drivers \in Devices
           /\ plan.script \in Devices \cup {NewVLAN}
           /\ plan.scriptParent \in Devices \cup {None}
           /\ plan.grub = IF plan.scriptParent # None THEN plan.scriptParent ELSE plan.script
<1>1. /\ info.iface \in Devices
      /\ info.vlanPhysdev \in Devices \cup {None}
      /\ info.bondSlaves \in Seq(Devices) /\ info.bridgePorts \in Seq(Devices)
    BY DetectedTyped
<1>2. /\ info.bondSlaves # <<>> => Head(info.bondSlaves) \in Devices
      /\ InitramfsIface \in Devices
    BY <1>1 DEF InitramfsIface
<1>3. plan = [grub |-> GrubInterface, script |-> ScriptInterface,
              scriptParent |-> ScriptVLANPhysdev, drivers |-> NetInterface]
    BY DEF Detection, Planned
<1> QED
    BY <1>1, <1>2, <1>3
    DEF GrubInterface, ScriptInterface, ScriptVLANPhysdev, NetInterface

\* A device of a stack is a NIC or a virtual device of one kind.
LEMMA Kinds ==
    /\ \A d \in Nics : Kind(d) = "nic" /\ d \notin Virtual
    /\ \A d \in Virtual : Kind(d) \in {"vlan", "bond", "bridge"}
    /\ \A d \in Devices : Kind(d) = "nic" => d \in Nics
    /\ \A d \in Devices : Kind(d) # "nic" => d \in Virtual
    /\ Devices = Nics \cup Virtual /\ None \notin Devices
    BY DEF Kind, Devices

\* A recognised stack is planned for by one of its NICs, with what the NIC needs in
\* the initramfs; the script makes a VLAN exactly if the interface is one.
LEMMA StackPlanned ==
    ASSUME KnownStacks, Detection, stage = "done", Recognised
    PROVE  /\ plan.grub \in Nics \cap Modules(plan.drivers)
           /\ plan.grub \in Under(info.iface)
           /\ plan.scriptParent # None => "8021q" \in Modules(plan.drivers)
           /\ plan.scriptParent # None => plan.script \notin Nics
           /\ plan.scriptParent # None <=>
                info.iface \in Virtual /\ Kind(info.iface) = "vlan"
<1> DEFINE d == info.iface
<1>1. /\ plan = [grub |-> GrubInterface, script |-> ScriptInterface,
                 scriptParent |-> ScriptVLANPhysdev, drivers |-> NetInterface]
      /\ d \in Devices /\ Exists(lower, d) /\ Examined
      /\ info.vlanPhysdev = VLANPhysdev(d) /\ info.bondSlaves = BondSlaves(d)
      /\ info.bridgePorts = BridgePorts(d)
    BY DetectedTyped DEF Detection, Planned, Told, Detected
<1>2. Needed(d) \cap mute = {}
    BY DEF Recognised
<1> HIDE DEF d
<1> USE DEF GrubInterface, ScriptInterface, ScriptVLANPhysdev, NetInterface, InitramfsIface
<1>3. CASE d \in Nics
  <2>1. VLANPhysdev(d) = None /\ BondSlaves(d) = <<>> /\ BridgePorts(d) = <<>>
      BY <1>3, Kinds DEF VLANPhysdev, BondSlaves, BridgePorts, Slaves, Answered
  <2> QED
      BY <1>1, <1>3, <2>1, Kinds DEF d, Modules, Driver, Under
<1>4. ASSUME NEW b \in Virtual, Exists(lower, b), Kind(b) \in {"bond", "bridge"}
      PROVE  /\ lower[b] \in Seq(Devices) /\ lower[b] # <<>>
             /\ Head(lower[b]) \in Nics /\ Head(lower[b]) \in ToSet(lower[b])
    BY <1>1, <1>4, Below, Kinds DEF KnownStacks
<1>5. CASE d \in Virtual /\ Kind(d) \in {"bond", "bridge"}
  <2> DEFINE nic == Head(lower[d])
  <2>1. /\ lower[d] \in Seq(Devices) /\ lower[d] # <<>>
        /\ nic \in Nics /\ nic \in ToSet(lower[d]) /\ nic # NewVLAN
      BY <1>1, <1>4, <1>5 DEF Devices
  <2>2. VLANPhysdev(d) = None
      BY <1>5 DEF VLANPhysdev
  <2>3. /\ Kind(d) = "bond" => BondSlaves(d) = lower[d]
        /\ Kind(d) = "bridge" => BondSlaves(d) = <<>> /\ BridgePorts(d) = lower[d]
    <3>1. Slaves(None) = <<>>
        BY Kinds DEF Slaves
    <3> QED
        BY <1>2, <1>5, <2>1, <2>2, <3>1, Kinds
        DEF BondSlaves, BridgePorts, Slaves, Answered, Needed
  <2>4. plan.grub = nic /\ plan.drivers = nic /\ plan.script = nic
        /\ plan.scriptParent = None
      BY <1>1, <1>5, <2>1, <2>2, <2>3
  <2>5. Modules(nic) = {nic}
      BY <2>1, Kinds DEF Modules, Driver
  <2>6. nic \in Under(d)
      BY <1>5, <2>1, Kinds DEF Under
  <2> QED
      BY <1>5, <2>1, <2>4, <2>5, <2>6 DEF d
<1>6. CASE d \in Virtual /\ Kind(d) = "vlan"
  <2> DEFINE parent == Head(lower[d])
  <2>1. /\ parent \in Devices /\ Exists(lower, parent) /\ parent \in ToSet(lower[d])
        /\ parent \in Nics \/ (parent \in Virtual /\ Kind(parent) = "bond")
      BY <1>1, <1>6, Below, Kinds DEF KnownStacks
  <2>2. d \notin Nics /\ "link" \notin mute
      BY <1>2, <1>6, Kinds DEF Needed
  <2>3. VLANPhysdev(d) = parent /\ Slaves(d) = <<>> /\ parent # None
      BY <1>6, <2>1, <2>2, Kinds DEF VLANPhysdev, Slaves
  <2>4. CASE parent \in Nics
    <3>1. Slaves(parent) = <<>>
        BY <2>4, Kinds DEF Slaves
    <3>2. BondSlaves(d) = <<>> /\ BridgePorts(d) = <<>>
        BY <1>6, <2>3, <3>1 DEF BondSlaves, BridgePorts, Answered
    <3>3. plan.grub = parent /\ plan.drivers = d /\ plan.script = d
          /\ plan.scriptParent = parent
        BY <1>1, <2>3, <3>2 DEF d
    <3>4. Modules(d) = {"8021q", parent}
        BY <1>6, <2>2, <2>4, <3>1 DEF Modules, Driver
    <3>5. parent \in Under(d)
        BY <2>1, <2>2, <2>4 DEF Under
    <3> QED
        BY <1>6, <2>2, <2>3, <2>4, <3>3, <3>4, <3>5 DEF d
  <2>5. CASE parent \in Virtual /\ Kind(parent) = "bond"
    <3> DEFINE nic == Head(lower[parent])
    <3>1. /\ lower[parent] \in Seq(Devices) /\ lower[parent] # <<>>
          /\ nic \in Nics /\ nic \in ToSet(lower[parent]) /\ nic # None
        BY <1>4, <2>1, <2>5 DEF Devices
    <3>2. Slaves(parent) = lower[parent]
        BY <2>5 DEF Slaves
    <3>3. BondSlaves(d) = lower[parent]
        BY <1>2, <1>6, <2>3, <3>1, <3>2 DEF BondSlaves, Answered, Needed
    <3>4. plan.grub = nic /\ plan.drivers = d /\ plan.script = NewVLAN
          /\ plan.scriptParent = nic
        BY <1>1, <2>3, <3>1, <3>3 DEF d
    <3>5. "8021q" \in Modules(d) /\ nic \in Modules(d)
        BY <1>6, <2>2, <3>1, <3>2 DEF Modules, Driver
    <3>6. nic \in Under(d)
        BY <2>1, <2>2, <2>5, <3>1, Kinds DEF Under
    <3>7. NewVLAN \notin Nics
        BY DEF Devices
    <3> QED
        BY <1>6, <3>1, <3>4, <3>5, <3>6, <3>7 DEF d
  <2> QED
      BY <2>1, <2>4, <2>5
<1> QED
    BY <1>1, <1>3, <1>5, <1>6, Kinds

-----------------------------------------------------------------------------
(* NetDetect's theorems. *)

\* A step before the restart leaves the server as it is; so is what could be
\* detected on it.
LEMMA SameServer ==
    ASSUME UNCHANGED server
    PROVE  /\ Interface' = Interface /\ Gateway' = Gateway /\ Address' = Address
           /\ Detected' = Detected
<1> USE DEF server
<1>1. \A S : FirstDev(S)' = FirstDev(S)
    BY DEF FirstDev
<1>2. Interface' = Interface /\ Gateway' = Gateway /\ Source' = Source
    BY DEF Interface, Gateway, Source, FirstDev
<1>3. Address' = Address /\ PrefixFound' = PrefixFound
    BY <1>2 DEF Address, PrefixFound
<1>4. /\ VLANPhysdev(Interface)' = VLANPhysdev(Interface)
      /\ BondSlaves(Interface)' = BondSlaves(Interface)
      /\ BridgePorts(Interface)' = BridgePorts(Interface)
    BY <1>2 DEF VLANPhysdev, BondSlaves, BridgePorts, Slaves, Answered
<1> QED
    BY <1>2, <1>3, <1>4 DEF Detected

\* Detection is undone by the restart alone.
LEMMA DetectionKept ==
    ASSUME Detection, [BootNext]_<<vars, boot>> PROVE Detection'
<1>1. ASSUME UNCHANGED server, stage' = stage \/ stage' \in {"build", "done", "error"},
             stage = "boot" => stage' = "boot"
      PROVE  Examined'
  <2>1. static' \in BOOLEAN
      BY <1>1, Zenon DEF Detection, Examined, server
  <2> QED
      BY <1>1, <2>1 DEF Detection, Examined, server
<1>2. CASE DetectNetwork
    BY <1>1, <1>2, SameServer DEF DetectNetwork, Detection, Told, Planned
<1>3. CASE DetectFails
    BY <1>1, <1>3 DEF DetectFails, Detection, Told, Planned
<1>4. CASE BuildSetupScriptData
  <2>1. Planned'
      BY <1>4 DEF BuildSetupScriptData, Planned, GrubInterface, ScriptInterface,
                  ScriptVLANPhysdev, NetInterface, InitramfsIface
  <2>2. Told'
      BY <1>4, SameServer DEF BuildSetupScriptData, Detection, Told
  <2> QED
      BY <1>1, <1>4, <2>1, <2>2 DEF BuildSetupScriptData, Detection
<1>5. CASE UNCHANGED vars
  <2>1. Planned'
      BY <1>5 DEF Detection, Planned, vars, GrubInterface, ScriptInterface,
                  ScriptVLANPhysdev, NetInterface, InitramfsIface
  <2> QED
      BY <1>1, <1>5, <2>1, SameServer DEF Detection, Told, vars, server
<1>6. CASE PowerOn
  <2>1. lower' \in [Virtual -> Seq(Devices)] /\ routes' \in Seq(RouteLines)
    <3>1. <<>> \in Seq(Devices) /\ <<>> \in Seq(RouteLines)
        OBVIOUS
    <3> QED
        BY <1>6, <3>1 DEF PowerOn
  <2>2. static' \in BOOLEAN
      BY <1>6, Zenon DEF PowerOn
  <2> QED
      BY <1>6, <2>1, <2>2 DEF PowerOn, Detection, Examined, Told, Planned
<1>7. PowerOn \/ DetectNetwork \/ DetectFails \/ BuildSetupScriptData \/ UNCHANGED vars
    BY DEF BootNext, Next, Finished, ParentUp, ParentFlush, VLANAdd, VLANAddFails,
           FindInterface, InterfaceUp, AddrAdd, RouteDel, RouteAdd, QuietFailure,
           WGCommand, Halts, BootEnds, Unchanged
<1> QED
    BY <1>2, <1>3, <1>4, <1>5, <1>6, <1>7

LEMMA DetectionHolds == BootSpec => []Detection
<1>1. BootInit => Detection
  <2> SUFFICES ASSUME BootInit PROVE Detection
      OBVIOUS
  <2> QED
      BY ServerExamined DEF BootInit, Init, Detection, Told, Planned
<1> QED
    BY <1>1, DetectionKept, PTL DEF BootSpec

\* One default route and no interface configured: interface, address, gateway and
\* prefix length belong together (README.md:171).
THEOREM AlwaysOneRoute == BootSpec => []OneRoute
<1>1. ASSUME Detection PROVE OneRoute
  <2> SUFFICES ASSUME stage \in {"build", "done"}, Len(routes) = 1, want = None
               PROVE  /\ info.gateway = info.iface
                      /\ info.ip = IF static THEN Configured ELSE info.iface
                      /\ static \/ "addr" \notin mute => info.prefix
      BY DEF OneRoute
  <2>1. /\ info = Detected /\ Interface # None /\ Gateway # None /\ Address # None
        /\ Examined
      BY <1>1 DEF Detection, Told
  <2>2. routes \in Seq(RouteLines) /\ DOMAIN routes = {1}
      BY <2>1 DEF Examined
  <2>3. \A S \in SUBSET (DOMAIN routes) : FirstDev(S) \in {None, routes[1].dev}
      BY <2>2, FirstDevFound
  <2>4. Interface = routes[1].dev /\ Gateway = Interface /\ Source \in {None, Interface}
      BY <2>1, <2>3 DEF Interface, Gateway, Source
  <2>5. Address = IF static THEN Configured ELSE Interface
      BY <2>1, <2>4 DEF Address
  <2>6. static \/ "addr" \notin mute => PrefixFound
      BY <2>5 DEF PrefixFound
  <2> QED
      BY <2>1, <2>4, <2>5, <2>6 DEF Detected
<1> QED
    BY <1>1, DetectionHolds, PTL

\* Where the server's stack is one the code is written for and was read in full,
\* the device of ip= is a NIC whose driver the initramfs gets (setup.go:130), and
\* a VLAN of the script finds its module.
THEOREM GrubInterfaceIsAlwaysNic == ASSUME KnownStacks PROVE BootSpec => []GrubInterfaceIsNic
<1>1. Detection => GrubInterfaceIsNic
    BY StackPlanned DEF GrubInterfaceIsNic
<1> QED
    BY <1>1, DetectionHolds, PTL

-----------------------------------------------------------------------------
(* The script's course. *)

\* Where the script makes its VLAN, where it has chosen $IFACE, and where it has set
\* it up.
VLANLines == {"parent up", "parent flush", "vlan add"}
WGLines   == {"wg add", "wg addr", "wg setconf", "wg up"}
PastUp    == {"addr add", "route del", "route add", "end"} \cup WGLines
Placed    == {"up"} \cup PastUp

\* The script runs from the restart on.
Powered ==
    /\ stage = "boot" <=> line # "off"
    /\ line = "off" => /\ vlan = None /\ iface = None /\ route = None
                       /\ wg = {} /\ up = {} /\ addrs = {} /\ mishaps = 0

\* What the restart found: the plan as PlanTyped and StackPlanned have it.
PlanHolds ==
    line # "off" =>
      /\ plan.grub = IF plan.scriptParent # None THEN plan.scriptParent ELSE plan.script
      /\ certain =>
           /\ plan.grub \in wanted.nics
           /\ present # {} => plan.grub \in present
           /\ plan.scriptParent # None <=> wanted.tagged
           /\ plan.scriptParent # None => plan.script \notin Nics

\* Whether the script makes a VLAN is up to the plan, and $IFACE is the plan's device
\* unless that one does not show.
ScriptFollowsPlan ==
    /\ line \in VLANLines => plan.scriptParent # None
    /\ line \in {"parent flush", "vlan add"} => plan.scriptParent \in present
    /\ line = "find" => plan.scriptParent = None
    /\ vlan \in {None, plan.scriptParent}
    /\ line \in Placed \/ wg # {} =>
         \/ iface = plan.script
         \/ plan.scriptParent = None /\ plan.script \notin present
    /\ line = "up" /\ plan.scriptParent # None /\ mishaps = 0 => vlan # None

\* Past `ip link set up`, $IFACE is up; wg0 comes later.
UpFirst ==
    /\ line \in PastUp \/ wg # {} => iface \in up /\ DeviceExists(iface)
    /\ wg # {} => line \in WGLines \cup {"end", "halted"}

\* Where no command has failed, addresses and route are moved to $IFACE.
Moved ==
    mishaps = 0 =>
      /\ line \in {"parent up", "parent flush"} => addrs \subseteq {plan.scriptParent}
      /\ line = "vlan add" => addrs = {}
      /\ line = "find" => addrs \subseteq {plan.script} \cap present
      /\ line \in {"up", "addr add"} => addrs \subseteq {iface}
      /\ line \in PastUp \ {"addr add"} => addrs = {iface}
      /\ line = "route add" => route = None
      /\ line \in WGLines \cup {"end"} => route = iface

Course == Powered /\ PlanHolds /\ ScriptFollowsPlan /\ UpFirst /\ Moved /\ NeverStopsByPlan

Typed ==
    /\ line \in Lines
    /\ wanted.nics \subseteq Nics /\ wanted.tagged \in BOOLEAN /\ certain \in BOOLEAN
    /\ present \subseteq Nics /\ first \in Nics \cup {None}
    /\ vlan \in Nics \cup {None}
    /\ iface \in Nics \cup {plan.script, None}
    /\ line \in Placed => iface \in Nics \cup {plan.script}
    /\ up \cup addrs \subseteq Nics \cup {plan.script}
    /\ route \in Nics \cup {plan.script, None}
    /\ wg \subseteq WGLines
    /\ mishaps \in 0..MaxMishaps

\* The inductive invariant of the server's restart and its script.
BootInv == Detection /\ Typed /\ Course

\* The commands on wg0.
LEMMA WGCommandLines ==
    /\ ToSet(WGCommands) = WGLines /\ Head(WGCommands) = "wg add"
    /\ WGCommand =>
         /\ line \in WGLines /\ line' \in WGLines \cup {"end"} /\ wg' = wg \cup {line}
         /\ Unchanged /\ UNCHANGED <<net, mishaps>>
<1>1. /\ DOMAIN WGCommands = 1..4 /\ Len(WGCommands) = 4
      /\ WGCommands[1] = "wg add" /\ WGCommands[2] = "wg addr"
      /\ WGCommands[3] = "wg setconf" /\ WGCommands[4] = "wg up"
    BY DEF WGCommands
<1>2. ToSet(WGCommands) = WGLines
  <2>1. 1..4 = {1, 2, 3, 4}
      OBVIOUS
  <2>2. ToSet(WGCommands) = {WGCommands[i] : i \in {1, 2, 3, 4}}
      BY <1>1, <2>1 DEF ToSet
  <2>3. {WGCommands[i] : i \in {1, 2, 3, 4}}
          = {WGCommands[1], WGCommands[2], WGCommands[3], WGCommands[4]}
      OBVIOUS
  <2> QED
      BY <1>1, <2>2, <2>3 DEF WGLines
<1>3. Head(WGCommands) = "wg add"
    BY DEF WGCommands
<1>4. ASSUME WGCommand
      PROVE  line \in WGLines /\ line' \in WGLines \cup {"end"} /\ wg' = wg \cup {line}
             /\ Unchanged /\ UNCHANGED <<net, mishaps>>
  <2>1. PICK i \in 1..4 :
          /\ Step(WGCommands[i], IF i < Len(WGCommands) THEN WGCommands[i + 1] ELSE "end")
          /\ wg' = wg \cup {WGCommands[i]}
      BY <1>1, <1>4 DEF WGCommand
  <2>2. WGCommands[i] \in WGLines /\ (i < 4 => WGCommands[i + 1] \in WGLines)
    <3>1. i = 1 \/ i = 2 \/ i = 3 \/ i = 4
        OBVIOUS
    <3>2. /\ i = 1 => i + 1 = 2
          /\ i = 2 => i + 1 = 3
          /\ i = 3 => i + 1 = 4
          /\ i = 4 => ~(i < 4)
        OBVIOUS
    <3> QED
        BY <1>1, <3>1, <3>2, Zenon DEF WGLines
  <2> QED
      BY <1>1, <1>4, <2>1, <2>2 DEF Step, WGCommand
<1> QED
    BY <1>2, <1>3, <1>4

\* Under a device of a known stack there are NICs.
LEMMA UnderNics ==
    ASSUME KnownStacks, Examined, stage # "boot", NEW d \in Devices, Exists(lower, d)
    PROVE  Under(d) \subseteq Nics
<1>1. ASSUME NEW b \in Virtual, Exists(lower, b), Kind(b) \in {"bond", "bridge"}
      PROVE  ToSet(lower[b]) \subseteq Nics
    BY <1>1, Below, Kinds DEF KnownStacks
<1>2. CASE d \in Nics
    BY <1>2, Kinds DEF Under
<1>3. CASE d \in Virtual
  <2>1. \A e \in ToSet(lower[d]) :
          e \in Nics \/ (e \in Virtual /\ Exists(lower, e) /\ Kind(e) = "bond")
      BY <1>3, Below, Kinds DEF KnownStacks
  <2>2. \A e \in ToSet(lower[d]) :
          (IF e \in Nics THEN {e} ELSE ToSet(lower[e])) \subseteq Nics
      BY <1>1, <2>1
  <2> QED
      BY <1>3, <2>2, Kinds DEF Under
<1> QED
    BY <1>2, <1>3 DEF Devices

\* The server restarts.
LEMMA PowerOnKeeps ==
    ASSUME KnownStacks, BootInv, PowerOn PROVE Typed' /\ Course'
<1>1. /\ plan.grub \in Devices /\ plan.script \in Devices \cup {NewVLAN}
      /\ plan.scriptParent \in Devices \cup {None}
      /\ plan.grub = IF plan.scriptParent # None THEN plan.scriptParent ELSE plan.script
    BY PlanTyped DEF BootInv, PowerOn
<1>2. /\ stage = "done" /\ stage' = "boot" /\ line = "off"
      /\ vlan = None /\ wg = {} /\ iface = None /\ mishaps = 0
      /\ UNCHANGED <<plan, vlan, iface, wg, mishaps>>
    BY DEF PowerOn, BootInv, Course, Powered
<1>3. /\ line' = IF plan.scriptParent # None THEN "parent up" ELSE "find"
      /\ certain' = Recognised
    BY DEF PowerOn
<1>4. /\ wanted'.nics = Under(info.iface)
      /\ wanted'.tagged = (info.iface \in Virtual /\ Kind(info.iface) = "vlan")
    BY DEF PowerOn
<1>5. PICK loaded \in SUBSET Nics, named \in BOOLEAN :
        /\ Modules(plan.drivers) \cap Nics \subseteq loaded
        /\ present' = IF named THEN loaded ELSE {}
        /\ first' \in IF loaded = {} THEN {None} ELSE loaded
    BY DEF PowerOn
<1>6. /\ route' \in {None, plan.grub} \cap (present' \cup {None})
      /\ addrs' = {route'} \ {None} /\ up' = addrs'
    BY DEF PowerOn
<1>7. present' \subseteq Nics /\ first' \in Nics \cup {None}
    BY <1>5
<1>8. Typed'
  <2>1. wanted'.nics \subseteq Nics
      BY <1>2, <1>4, UnderNics, DetectedTyped DEF BootInv, Detection
  <2>2. certain' \in BOOLEAN /\ wanted'.tagged \in BOOLEAN
      BY <1>3, <1>4, Zenon DEF Recognised
  <2>3. route' \in Nics \cup {plan.script, None} /\ up' \cup addrs' \subseteq Nics
      BY <1>6, <1>7
  <2>4. line' \in Lines
      BY <1>3 DEF Lines
  <2>5. wg' \subseteq WGLines /\ mishaps' \in 0..MaxMishaps
        /\ vlan' \in Nics \cup {None} /\ iface' \in Nics \cup {plan'.script, None}
        /\ plan' = plan
      BY <1>2
  <2>6. line' \notin Placed
      BY <1>3 DEF Placed, PastUp, WGLines
  <2> QED
      BY <1>7, <2>1, <2>2, <2>3, <2>4, <2>5, <2>6 DEF Typed
<1>9. PlanHolds'
  <2>1. Recognised => /\ plan.grub \in Nics \cap Modules(plan.drivers)
                      /\ plan.grub \in Under(info.iface)
                      /\ plan.scriptParent # None => plan.script \notin Nics
                      /\ plan.scriptParent # None <=>
                            info.iface \in Virtual /\ Kind(info.iface) = "vlan"
      BY <1>2, StackPlanned DEF BootInv
  <2> QED
      BY <1>1, <1>2, <1>3, <1>4, <1>5, <2>1 DEF PlanHolds
<1>10. Moved'
    BY <1>1, <1>2, <1>3, <1>6 DEF Moved, PastUp, WGLines, Devices
<1>11. Powered' /\ ScriptFollowsPlan' /\ UpFirst' /\ NeverStopsByPlan'
    BY <1>1, <1>2, <1>3
    DEF Powered, ScriptFollowsPlan, UpFirst, NeverStopsByPlan, VLANLines, Placed, PastUp, WGLines
<1> QED
    BY <1>8, <1>9, <1>10, <1>11 DEF Course

\* A command of the script keeps the types, ...
LEMMA CommandTyped ==
    ASSUME BootInv, line # "off",
           \/ ParentUp \/ ParentFlush \/ VLANAdd \/ VLANAddFails \/ FindInterface
           \/ InterfaceUp \/ AddrAdd \/ RouteDel \/ RouteAdd \/ QuietFailure
           \/ WGCommand \/ Halts
    PROVE  Typed'
<1> USE DEF Typed, Step, Unchanged, vars, plannedFor, net, Placed, PastUp, WGLines
<1>0. /\ Typed /\ ScriptFollowsPlan
      /\ ToSet(WGCommands) = WGLines /\ Head(WGCommands) = "wg add"
    BY WGCommandLines DEF BootInv, Course
<1>1. Unchanged => /\ wanted'.nics \subseteq Nics /\ wanted'.tagged \in BOOLEAN
                   /\ certain' \in BOOLEAN
                   /\ present' \subseteq Nics /\ first' \in Nics \cup {None}
                   /\ plan' = plan
  <2>1. Unchanged => wanted'.tagged \in BOOLEAN /\ certain' \in BOOLEAN
      BY <1>0, Zenon
  <2> QED
      BY <1>0, <2>1
<1>2. line' \in Lines
    BY <1>0, WGCommandLines
    DEF Lines, WGLines, ParentUp, ParentFlush, VLANAdd, VLANAddFails, FindInterface,
        InterfaceUp, AddrAdd, RouteDel, RouteAdd, QuietFailure, Halts
<1>3. mishaps' \in 0..MaxMishaps
  <2>1. mishaps' = mishaps \/ (mishaps < MaxMishaps /\ mishaps' = mishaps + 1)
      BY WGCommandLines
      DEF ParentUp, ParentFlush, VLANAdd, VLANAddFails, FindInterface, InterfaceUp,
          AddrAdd, RouteDel, RouteAdd, QuietFailure, Halts
  <2>2. mishaps \in 0..MaxMishaps
      BY <1>0
  <2> QED
      BY <2>1, <2>2
<1>4. CASE ParentUp
  <2>1. /\ line' = "parent flush" /\ Unchanged
        /\ up' = up \cup {plan.scriptParent} /\ plan.scriptParent \in present
        /\ UNCHANGED <<vlan, iface, addrs, route, wg, mishaps>>
      BY <1>4 DEF ParentUp
  <2>2. up' \cup addrs' \subseteq Nics \cup {plan'.script}
    <3>1. plan' = plan /\ plan.scriptParent \in Nics
        BY <1>0, <1>1, <2>1
    <3>2. up \cup addrs \subseteq Nics \cup {plan.script}
        BY <1>0
    <3>3. up' = up \cup {plan.scriptParent} /\ addrs' = addrs
        BY <2>1
    <3> QED
        BY ONLY <3>1, <3>2, <3>3
  <2>3. /\ vlan' \in Nics \cup {None} /\ iface' \in Nics \cup {plan'.script, None}
        /\ route' \in Nics \cup {plan'.script, None} /\ wg' \subseteq WGLines
      BY <1>0, <1>1, <2>1
  <2>4. line' \in Placed => iface' \in Nics \cup {plan'.script}
      BY <2>1
  <2> QED
      BY <1>1, <1>2, <1>3, <2>1, <2>2, <2>3, <2>4
<1>5. CASE ParentFlush
    BY <1>0, <1>1, <1>2, <1>3, <1>5 DEF ParentFlush
<1>6. CASE VLANAdd
    BY <1>0, <1>1, <1>2, <1>3, <1>6 DEF VLANAdd, ScriptFollowsPlan
<1>7. CASE VLANAddFails
    BY <1>0, <1>1, <1>2, <1>3, <1>7 DEF VLANAddFails
<1>8. CASE FindInterface
    BY <1>0, <1>1, <1>2, <1>3, <1>8 DEF FindInterface
<1>9. CASE InterfaceUp
    BY <1>0, <1>1, <1>2, <1>3, <1>9 DEF InterfaceUp
<1>10. CASE AddrAdd
    BY <1>0, <1>1, <1>2, <1>3, <1>10 DEF AddrAdd
<1>11. CASE RouteDel
    BY <1>0, <1>1, <1>2, <1>3, <1>11 DEF RouteDel
<1>12. CASE RouteAdd
    BY <1>0, <1>1, <1>2, <1>3, <1>12 DEF RouteAdd
<1>13. CASE QuietFailure
    BY <1>0, <1>1, <1>2, <1>3, <1>13 DEF QuietFailure
<1>14. CASE WGCommand
    BY <1>0, <1>1, <1>2, <1>3, <1>14, WGCommandLines DEF WGLines
<1>15. CASE Halts
    BY <1>0, <1>1, <1>2, <1>3, <1>15 DEF Halts
<1> QED
    BY <1>4, <1>5, <1>6, <1>7, <1>8, <1>9, <1>10, <1>11, <1>12, <1>13, <1>14, <1>15

\* ... and the script's course.
LEMMA CommandKeepsCourse ==
    ASSUME BootInv, line # "off",
           \/ ParentUp \/ ParentFlush \/ VLANAdd \/ VLANAddFails \/ FindInterface
           \/ InterfaceUp \/ AddrAdd \/ RouteDel \/ RouteAdd \/ QuietFailure
           \/ WGCommand \/ Halts
    PROVE  Course'
<1> DEFINE Later == /\ ScriptFollowsPlan' /\ UpFirst' /\ Moved' /\ NeverStopsByPlan'
<1>0. /\ Typed /\ Powered /\ PlanHolds /\ ScriptFollowsPlan /\ UpFirst /\ Moved
      /\ NeverStopsByPlan
      /\ ToSet(WGCommands) = WGLines /\ Head(WGCommands) = "wg add"
    BY WGCommandLines DEF BootInv, Course
<1>1. /\ present \subseteq Nics /\ None \notin Nics
      /\ mishaps' = mishaps + 1 => mishaps' > 0 /\ mishaps' # 0
  <2>1. mishaps \in Nat
    <3>1. mishaps \in 0..MaxMishaps
        BY <1>0, Zenon DEF Typed
    <3> QED
        BY <3>1
  <2>2. present \subseteq Nics /\ None \notin Nics
      BY <1>0 DEF Typed, Devices
  <2> QED
      BY <2>1, <2>2
<1>2. /\ UNCHANGED <<stage, plan, wanted, certain, present, first>>
      /\ line' # "off" /\ line' \notin {"parent up", "find"}
    BY <1>0, WGCommandLines
    DEF Unchanged, vars, plannedFor, Step, WGLines, ParentUp, ParentFlush, VLANAdd,
        VLANAddFails, FindInterface, InterfaceUp, AddrAdd, RouteDel, RouteAdd,
        QuietFailure, Halts
<1>3. Powered' /\ PlanHolds'
    BY <1>0, <1>2 DEF Powered, PlanHolds
<1> USE DEF ScriptFollowsPlan, UpFirst, Moved, NeverStopsByPlan, Step, net, DeviceExists,
            VLANLines, WGLines, PastUp, Placed
<1>4. ASSUME ParentUp PROVE Later
    BY <1>0, <1>1, <1>2, <1>4 DEF ParentUp
<1>5. ASSUME ParentFlush PROVE Later
    BY <1>0, <1>1, <1>2, <1>5 DEF ParentFlush
<1>6. ASSUME VLANAdd PROVE Later
    BY <1>0, <1>1, <1>2, <1>6 DEF VLANAdd
<1>7. ASSUME VLANAddFails PROVE Later
    BY <1>0, <1>1, <1>2, <1>7 DEF VLANAddFails
<1>8. ASSUME FindInterface PROVE Later
    BY <1>0, <1>1, <1>2, <1>8 DEF FindInterface
<1>9. ASSUME InterfaceUp PROVE Later
    BY <1>0, <1>1, <1>2, <1>9 DEF InterfaceUp
<1>10. ASSUME AddrAdd PROVE Later
    BY <1>0, <1>1, <1>2, <1>10 DEF AddrAdd
<1>11. ASSUME RouteDel PROVE Later
    BY <1>0, <1>1, <1>2, <1>11 DEF RouteDel
<1>12. ASSUME RouteAdd PROVE Later
    BY <1>0, <1>1, <1>2, <1>12 DEF RouteAdd
<1>13. ASSUME QuietFailure PROVE Later
    BY <1>0, <1>1, <1>2, <1>13 DEF QuietFailure
<1>14. ASSUME WGCommand PROVE Later
    BY <1>0, <1>1, <1>2, <1>14, WGCommandLines
<1>15. ASSUME Halts PROVE Later
  <2>1. line' = "halted" /\ UNCHANGED <<vlan, iface, up, addrs, route, wg>>
      BY <1>15 DEF Halts
  <2>2. mishaps' = mishaps \/ mishaps' = mishaps + 1
      BY <1>15 DEF Halts
  <2>3. ScriptFollowsPlan' /\ UpFirst' /\ Moved'
      BY <1>0, <1>1, <1>2, <1>15, <2>1, <2>2 DEF Halts
  <2>4. mishaps \in Nat
    <3>1. mishaps \in 0..MaxMishaps
        BY <1>0, Zenon DEF Typed
    <3> QED
        BY <3>1
  <2>5. mishaps' # mishaps + 1 \/ mishaps' # mishaps
      BY <2>4
  <2>6. ASSUME certain, present # {}, mishaps' = mishaps PROVE mishaps # 0
    <3>1. CASE line = "parent up" /\ plan.scriptParent \notin present
        BY <1>0, <2>6, <3>1 DEF PlanHolds
    <3>2. CASE line = "up" /\ ~DeviceExists(iface)
      <4>1. plan.scriptParent = None => iface = plan.script /\ plan.script \in present
          BY <1>0, <2>6, <3>2 DEF PlanHolds
      <4>2. plan.scriptParent # None /\ mishaps = 0 => iface = plan.script /\ vlan # None
          BY <1>0, <3>2
      <4> QED
          BY <3>2, <4>1, <4>2
    <3> QED
        BY <1>15, <2>5, <2>6, <3>1, <3>2 DEF Halts
  <2>7. NeverStopsByPlan'
    <3>1. mishaps # 0 => mishaps > 0
        BY <2>4
    <3> QED
        BY <1>1, <1>2, <2>2, <2>6, <3>1
  <2> QED
      BY <2>3, <2>7
<1> QED
    BY <1>3, <1>4, <1>5, <1>6, <1>7, <1>8, <1>9, <1>10, <1>11, <1>12, <1>13, <1>14, <1>15 DEF Course

-----------------------------------------------------------------------------
(* BootScript's theorems. *)

\* Detection comes before the restart and leaves the script alone; a script that
\* has ended stays as it is.
LEMMA DetectionKeepsCourse ==
    ASSUME BootInv, Next \/ UNCHANGED vars, UNCHANGED boot PROVE Typed' /\ Course'
<1> USE DEF boot, plannedFor, net
<1>1. (stage' # "boot" /\ stage # "boot") \/ UNCHANGED <<stage, plan>>
    BY DEF Next, DetectNetwork, DetectFails, BuildSetupScriptData, Finished, vars
<1>2. CASE UNCHANGED <<stage, plan>>
  <2>1. Typed'
    <3>1. wanted'.tagged \in BOOLEAN /\ certain' \in BOOLEAN
        BY Zenon DEF BootInv, Typed
    <3> QED
        BY <1>2, <3>1 DEF BootInv, Typed
  <2>2. Powered' /\ PlanHolds' /\ Moved'
      BY <1>2 DEF BootInv, Course, Powered, PlanHolds, Moved
  <2>3. ScriptFollowsPlan' /\ UpFirst' /\ NeverStopsByPlan'
      BY <1>2 DEF BootInv, Course, ScriptFollowsPlan, UpFirst, NeverStopsByPlan,
                  DeviceExists
  <2> QED
      BY <2>1, <2>2, <2>3 DEF Course
<1>3. CASE stage' # "boot" /\ stage # "boot"
  <2>1. /\ line = "off" /\ vlan = None /\ iface = None /\ route = None
        /\ wg = {} /\ up = {} /\ addrs = {} /\ mishaps = 0
      BY <1>3 DEF BootInv, Course, Powered
  <2>2. Course'
      BY <1>3, <2>1
      DEF BootInv, Course, Powered, PlanHolds, ScriptFollowsPlan, UpFirst, Moved,
          NeverStopsByPlan, VLANLines, Placed, PastUp, WGLines
  <2>3. Typed'
    <3>1. /\ wanted'.tagged \in BOOLEAN /\ certain' \in BOOLEAN
          /\ mishaps' \in 0..MaxMishaps
        BY Zenon DEF BootInv, Typed
    <3>2. line' \notin Placed
        BY <2>1 DEF Placed, PastUp, WGLines
    <3> QED
        BY <2>1, <3>1, <3>2 DEF BootInv, Typed
  <2> QED
      BY <2>2, <2>3
<1> QED
    BY <1>1, <1>2, <1>3

LEMMA BootInvHolds == ASSUME KnownStacks PROVE BootSpec => []BootInv
<1>1. BootInit => Typed /\ Course
  <2> SUFFICES ASSUME BootInit PROVE Typed /\ Course
      OBVIOUS
  <2>1. Course
      BY DEF BootInit, Init, Course, Powered, PlanHolds, ScriptFollowsPlan, UpFirst, Moved,
             NeverStopsByPlan, VLANLines, Placed, PastUp, WGLines
  <2>2. wanted.tagged \in BOOLEAN /\ certain \in BOOLEAN
      BY Zenon DEF BootInit
  <2>3. mishaps \in 0..MaxMishaps
      BY DEF BootInit
  <2> QED
      BY <2>1, <2>2, <2>3 DEF BootInit, Typed, Lines, Placed, PastUp, WGLines
<1>2. BootInv /\ [BootNext]_<<vars, boot>> => Typed' /\ Course'
  <2> SUFFICES ASSUME BootInv, [BootNext]_<<vars, boot>> PROVE Typed' /\ Course'
      OBVIOUS
  <2>1. CASE Next /\ UNCHANGED boot
      BY <2>1, DetectionKeepsCourse
  <2>2. CASE PowerOn
      BY <2>2, PowerOnKeeps
  <2>3. CASE \/ ParentUp \/ ParentFlush \/ VLANAdd \/ VLANAddFails \/ FindInterface
             \/ InterfaceUp \/ AddrAdd \/ RouteDel \/ RouteAdd \/ QuietFailure
             \/ WGCommand \/ Halts
    <3>1. line # "off"
        BY <2>3, WGCommandLines
        DEF Step, ParentUp, ParentFlush, VLANAdd, VLANAddFails, FindInterface,
            InterfaceUp, AddrAdd, RouteDel, RouteAdd, QuietFailure, Halts, WGLines
    <3> QED
        BY <2>3, <3>1, CommandTyped, CommandKeepsCourse
  <2>4. CASE BootEnds \/ UNCHANGED <<vars, boot>>
    BY <2>4, DetectionKeepsCourse DEF BootEnds
  <2> QED
      BY <2>1, <2>2, <2>3, <2>4 DEF BootNext
<1> QED
    BY <1>1, <1>2, DetectionHolds, PTL DEF BootSpec, BootInv

\* Every variable of detection, plan and script has its type: what is reported and
\* planned are devices, $IFACE a NIC or the planned device.
THEOREM BootTypeCorrect == ASSUME KnownStacks PROVE BootSpec => []BootTypeOK
<1>1. ASSUME BootInv PROVE BootTypeOK
  <2>1. TypeOK
    <3>1. stage \in {"build", "done"} =>
            /\ info.iface \in Devices /\ info.gateway \in Devices
            /\ info.ip \in Devices \cup {Configured} /\ info.prefix \in BOOLEAN
      <4>1. Detection
          BY <1>1 DEF BootInv
      <4> QED
          BY <4>1, DetectedTyped
    <3>2. stage = "done" =>
            /\ plan.grub \in Devices /\ plan.drivers \in Devices
            /\ plan.script \in Devices \cup {NewVLAN}
        BY <1>1, PlanTyped DEF BootInv
    <3>3. Examined
        BY <1>1 DEF BootInv, Detection
    <3>4. static \in BOOLEAN
        BY <3>3, Zenon DEF Examined
    <3> QED
        BY <3>1, <3>2, <3>3, <3>4 DEF TypeOK, Examined, RouteLines
  <2>2. wanted.tagged \in BOOLEAN /\ certain \in BOOLEAN
      BY <1>1, Zenon DEF BootInv, Typed
  <2>3. ToSet(WGCommands) = WGLines
      BY WGCommandLines
  <2> QED
      BY <1>1, <2>1, <2>2, <2>3 DEF BootInv, Typed, BootTypeOK
<1> QED
    BY <1>1, BootInvHolds, PTL

\* wg0 is set up only over a device that is up and leads to the network of the
\* server's own interface, tagged exactly if that is a VLAN, whichever commands the
\* script lets fail with `|| true`.
THEOREM TunnelAlwaysOverTheRightDevice ==
    ASSUME KnownStacks PROVE BootSpec => []TunnelOverTheRightDevice
<1>1. ASSUME BootInv PROVE TunnelOverTheRightDevice
  <2> SUFFICES ASSUME "wg up" \in wg, certain, present # {}
               PROVE  iface \in up /\ Carrier \in wanted.nics /\ Tagged = wanted.tagged
      BY DEF TunnelOverTheRightDevice
  <2>1. /\ iface \in up /\ DeviceExists(iface)
        /\ vlan \in {None, plan.scriptParent}
        /\ \/ iface = plan.script
           \/ plan.scriptParent = None /\ plan.script \notin present
      BY <1>1 DEF BootInv, Course, UpFirst, ScriptFollowsPlan
  <2>2. line # "off"
      BY <1>1 DEF BootInv, Course, Powered
  <2>3. /\ plan.grub = IF plan.scriptParent # None THEN plan.scriptParent ELSE plan.script
        /\ plan.grub \in wanted.nics /\ plan.grub \in present
        /\ plan.scriptParent # None <=> wanted.tagged
        /\ plan.scriptParent # None => plan.script \notin Nics
      BY <1>1, <2>2 DEF BootInv, Course, PlanHolds
  <2>4. present \subseteq Nics /\ first \in Nics \cup {None} /\ wanted.tagged \in BOOLEAN
    <3>1. wanted.tagged \in BOOLEAN
        BY <1>1, Zenon DEF BootInv, Typed
    <3> QED
        BY <1>1, <3>1 DEF BootInv, Typed
  <2>5. CASE plan.scriptParent = None
    <3>1. iface = plan.script /\ plan.script = plan.grub /\ vlan = None
        BY <2>1, <2>3, <2>5
    <3>2. Tagged = FALSE /\ wanted.tagged = FALSE
        BY <2>3, <2>4, <2>5, <3>1, Zenon DEF Tagged
    <3>3. Carrier \in wanted.nics
        BY <2>3, <2>5, <3>1 DEF Tagged, Carrier
    <3> QED
        BY <2>1, <3>2, <3>3, Zenon
  <2>6. CASE plan.scriptParent # None
    <3>1. iface = plan.script /\ iface \notin Nics
        BY <2>1, <2>3, <2>6
    <3>2. vlan # None /\ vlan = plan.grub
        BY <2>1, <2>3, <2>4, <2>6, <3>1 DEF DeviceExists
    <3>3. Tagged = TRUE /\ wanted.tagged = TRUE
        BY <2>3, <2>4, <2>6, <3>1, <3>2, Zenon DEF Tagged
    <3>4. Carrier \in wanted.nics
        BY <2>3, <3>1, <3>2 DEF Tagged, Carrier
    <3> QED
        BY <2>1, <3>3, <3>4, Zenon
  <2> QED
      BY <2>5, <2>6
<1> QED
    BY <1>1, BootInvHolds, PTL

\* Where no command failed, the script ends with the static address on $IFACE alone
\* and the default route through it, whatever ip= had configured (templates.go:179,
\* 216).
THEOREM AlwaysOneAddressOneRoute ==
    ASSUME KnownStacks PROVE BootSpec => []OneAddressOneRoute
<1>1. BootInv => OneAddressOneRoute
    BY DEF BootInv, Course, Moved, OneAddressOneRoute, PastUp, WGLines
<1> QED
    BY <1>1, BootInvHolds, PTL

\* Where the stack was recognised and the NICs have their names, the script stops
\* (set -e) only because a command failed, never for want of a device.
THEOREM PlanNeverStopsTheScript ==
    ASSUME KnownStacks PROVE BootSpec => []NeverStopsByPlan
<1>1. BootInv => NeverStopsByPlan
    BY DEF BootInv, Course
<1> QED
    BY <1>1, BootInvHolds, PTL
=============================================================================
