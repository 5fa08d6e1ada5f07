-------------------------- MODULE BootloaderProofs --------------------------
(***************************************************************************)
(* Bootloader's theorems, for any networks, entries, parameters and number *)
(* of runs, whichever edits fail or are interrupted.                       *)
(***************************************************************************)
EXTENDS Bootloader, TLAPS

Typed ==
    /\ loader \in {"grub", "systemd-boot", "none"}
    /\ lines \in {0, 1}
    /\ file \in Seq(Params) /\ grubCfg \in Seq(Params) /\ default \in Seq(Params)
    /\ options \subseteq Entries /\ entry \in [Entries -> Seq(Params)]
    /\ net \in Nets
    /\ pc \in {"idle", "boot", "update", "rest"}
    /\ left \subseteq Entries

\* No line has two ip= parameters.
EditedOnce ==
    /\ OneIP(file) /\ OneIP(grubCfg) /\ OneIP(default)
    /\ \A e \in Entries : OneIP(entry[e])

\* Lines are given one parameter at most: those at full length have their ip=.
Fits(line) == Len(line) <= MaxLine \/ (Len(line) = MaxLine + 1 /\ HasIPParam(line))

Bounded ==
    /\ Fits(file) /\ Fits(grubCfg) /\ Fits(default) /\ \A e \in Entries : Fits(entry[e])
    /\ cut \subseteq Entries \cup {"grub"}
    /\ runs \in 0..MaxRuns
    /\ outcome \in {"none", "running", "failed", "complete"}

\* A run under way is not complete, and loops over entries for systemd-boot only.
UnderWay ==
    /\ pc # "idle" => outcome = "running"
    /\ loader # "systemd-boot" => left = {}

\* GRUB: grub.cfg follows the file, but for an edit not yet or never passed on; and
\* past the edit, grep would find it.
GrubFollows ==
    loader = "grub" =>
        /\ pc # "update" /\ "grub" \notin cut => grubCfg = file
        /\ pc \in {"update", "rest"} \/ outcome = "complete" => GrepFindsIP(file)

\* systemd-boot: the entries the loop has visited have ip=, but for those whose
\* edit failed; after the loop it has visited all.
EntriesVisited ==
    loader = "systemd-boot" =>
        /\ pc # "update"
        /\ pc = "boot" => \A e \in options \ (cut \cup left) : HasIPParam(entry[e])
        /\ pc = "rest" \/ outcome = "complete" =>
             \A e \in options \ cut : HasIPParam(entry[e])

\* The inductive invariant.
IInv == Typed /\ EditedOnce /\ Bounded /\ UnderWay /\ GrubFollows /\ EntriesVisited

\* A line without ip= is given one, and nothing else changes on it.
LEMMA AppendIP ==
    ASSUME NEW line \in Seq(Params), NEW n \in Nets
    PROVE  /\ Append(line, IP(n)) \in Seq(Params)
           /\ HasIPParam(Append(line, IP(n)))
           /\ GrepFindsIP(Append(line, IP(n)))
           /\ ~HasIPParam(line) => OneIP(Append(line, IP(n)))
           /\ ~HasIPParam(line) /\ Fits(line) => Fits(Append(line, IP(n)))
           /\ SameOtherParams(line, Append(line, IP(n)))
<1> DEFINE longer == Append(line, IP(n))
<1>1. IP(n) \in IPParams /\ IP(n) \in Params /\ IP(n).kind = "ip"
    BY DEF IP, IPParams, Params
<1>2. /\ longer \in Seq(Params) /\ Len(longer) = Len(line) + 1
      /\ longer[Len(line) + 1] = IP(n)
      /\ \A i \in 1..Len(line) : longer[i] = line[i]
      /\ DOMAIN longer = 1..(Len(line) + 1) /\ DOMAIN line = 1..Len(line)
      /\ Len(line) \in Nat
    BY <1>1
<1>3. HasIPParam(longer) /\ GrepFindsIP(longer)
    BY <1>1, <1>2 DEF HasIPParam, GrepFindsIP
<1>4. ~HasIPParam(line) => OneIP(longer)
    BY <1>2 DEF HasIPParam, OneIP
<1>5. ~HasIPParam(line) /\ Fits(line) => Fits(longer)
  <2>1. Len(longer) \in Nat /\ MaxLine \in Nat
      BY <1>2, BootloaderAssumption
  <2>2. ~HasIPParam(line) /\ Fits(line) => Len(longer) <= MaxLine + 1
    <3>1. ~HasIPParam(line) /\ Fits(line) => Len(line) <= MaxLine
        BY DEF Fits
    <3>2. Len(line) \in Nat /\ Len(longer) = Len(line) + 1
        BY <1>2
    <3> QED
        BY <2>1, <3>1, <3>2
  <2>3. Len(longer) <= MaxLine + 1 => Len(longer) <= MaxLine \/ Len(longer) = MaxLine + 1
      BY <2>1
  <2> QED
      BY <1>3, <2>2, <2>3 DEF Fits
<1>6. SameOtherParams(line, longer)
  <2>1. OtherPlaces(longer) = OtherPlaces(line)
      BY <1>1, <1>2 DEF OtherPlaces
  <2>2. \A i \in OtherPlaces(line) : longer[i] = line[i]
      BY <1>2 DEF OtherPlaces
  <2>3. [i \in OtherPlaces(line) |-> i] \in [OtherPlaces(line) -> OtherPlaces(longer)]
      BY <2>1
  <2> QED
      BY <2>1, <2>2, <2>3 DEF SameOtherParams
<1> QED
    BY <1>2, <1>3, <1>4, <1>5, <1>6

\* A line that is not edited keeps them, too.
LEMMA SameAsBefore == ASSUME NEW line PROVE SameOtherParams(line, line)
<1>1. [i \in OtherPlaces(line) |-> i] \in [OtherPlaces(line) -> OtherPlaces(line)]
    OBVIOUS
<1> QED
    BY <1>1 DEF SameOtherParams

\* What grep takes for an ip= parameter includes every ip= parameter, and of the
\* rest only lookalikes.
LEMMA GrepFinds ==
    ASSUME NEW line \in Seq(Params)
    PROVE  /\ HasIPParam(line) => GrepFindsIP(line)
           /\ GrepFindsIP(line) /\ (\A i \in DOMAIN line : line[i].kind # "like")
                => HasIPParam(line)
<1>1. \A p \in Params : p \in IPParams <=> p.kind = "ip"
    BY DEF Params, IPParams
<1>2. \A i \in DOMAIN line : line[i] \in Params
    OBVIOUS
<1> QED
    BY <1>1, <1>2 DEF HasIPParam, GrepFindsIP

\* Lines as installed have one ip= at most.
LEMMA InitialLinesFit ==
    ASSUME NEW line \in InitialLines
    PROVE  line \in Seq(Params) /\ OneIP(line) /\ Fits(line)
<1>1. PICK m \in 0..MaxLine : line \in [1..m -> Params]
    BY DEF InitialLines, SeqOf
<1>2. line \in Seq(Params)
    BY <1>1
<1>3. Len(line) <= MaxLine
    BY <1>1, BootloaderAssumption
<1>4. Fits(line)
    BY <1>3 DEF Fits
<1> QED
    BY <1>2, <1>4 DEF InitialLines

\* A file without a line to edit has no ip=.
LEMMA EmptyLine == <<>> \in Seq(Params) /\ OneIP(<<>>) /\ Fits(<<>>) /\ ~HasIPParam(<<>>)
<1>1. Len(<<>>) <= MaxLine
    BY BootloaderAssumption
<1>2. Fits(<<>>)
    BY <1>1 DEF Fits
<1> QED
    BY <1>2 DEF OneIP, HasIPParam

\* An edited line, or the one that is added, has one ip=; the former keeps the rest.
LEMMA EditedFits ==
    ASSUME file \in Seq(Params), Fits(file), net \in Nets, lines = 1 => ~GrepFindsIP(file)
    PROVE  /\ Edited \in Seq(Params) /\ OneIP(Edited) /\ Fits(Edited)
           /\ GrepFindsIP(Edited)
           /\ lines = 1 \/ file = <<>> => SameOtherParams(file, Edited)
<1>1. CASE lines = 1
  <2>1. Edited = Append(file, IP(net))
      BY <1>1 DEF Edited
  <2>2. ~HasIPParam(file)
      BY <1>1, GrepFinds
  <2> QED
      BY <2>1, <2>2, AppendIP
<1>2. CASE lines # 1
  <2>1. Edited = Append(<<>>, IP(net))
      BY <1>2 DEF Edited
  <2> QED
      BY <1>2, <2>1, EmptyLine, AppendIP
<1> QED
    BY <1>1, <1>2

\* Parameters without ip= do not give a line a second one.
LEMMA DefaultAdds ==
    ASSUME NEW line \in Seq(Params), OneIP(line),
           NEW more \in Seq(Params), ~HasIPParam(more)
    PROVE  OneIP(line \o more)
<1> DEFINE both == line \o more
<1>1. /\ Len(line) \in Nat /\ Len(more) \in Nat
      /\ DOMAIN both = 1..(Len(line) + Len(more))
      /\ DOMAIN line = 1..Len(line) /\ DOMAIN more = 1..Len(more)
      /\ \A i \in 1..Len(line) : both[i] = line[i]
      /\ \A i \in (Len(line) + 1)..(Len(line) + Len(more)) : both[i] = more[i - Len(line)]
    OBVIOUS
<1>2. ASSUME NEW i \in DOMAIN both, both[i] \in IPParams PROVE i \in DOMAIN line
  <2>1. CASE i > Len(line)
    <3>1. i - Len(line) \in DOMAIN more /\ both[i] = more[i - Len(line)]
        BY <1>1, <2>1
    <3> QED
        BY <1>2, <3>1 DEF HasIPParam
  <2> QED
      BY <1>1, <2>1
<1>3. \A i \in DOMAIN line : both[i] = line[i]
    BY <1>1
<1> HIDE DEF both
<1>4. OneIP(both)
    BY <1>2, <1>3 DEF OneIP
<1> QED
    BY <1>4 DEF both

\* A line that fits is one of those enumerated.
LEMMA FittingLines ==
    ASSUME NEW line \in Seq(Params), Fits(line) PROVE line \in Lines
<1>1. Len(line) \in 0..(MaxLine + 1) /\ line \in [1..Len(line) -> Params]
    BY BootloaderAssumption DEF Fits
<1> QED
    BY <1>1 DEF Lines, SeqOf

\* The installed files satisfy the invariant.
LEMMA InitEstablishes == Init => IInv
<1> SUFFICES ASSUME Init PROVE IInv
    OBVIOUS
<1>1. /\ file \in Seq(Params) /\ OneIP(file) /\ Fits(file)
      /\ default \in Seq(Params) /\ OneIP(default) /\ Fits(default)
    BY InitialLinesFit, EmptyLine DEF Init
<1>2. entry \in [Entries -> Seq(Params)] /\ \A e \in Entries : OneIP(entry[e]) /\ Fits(entry[e])
    BY InitialLinesFit DEF Init
<1> QED
    BY <1>1, <1>2, BootloaderAssumption
    DEF Init, IInv, Typed, EditedOnce, Bounded, UnderWay, GrubFollows, EntriesVisited

\* Every step keeps the invariant.
LEMMA InvariantStep == IInv /\ [Next]_vars => IInv'
<1> SUFFICES ASSUME IInv, [Next]_vars PROVE IInv'
    OBVIOUS
<1> USE BootloaderAssumption DEF IInv, Typed, EditedOnce, Bounded, UnderWay, GrubFollows, EntriesVisited,
            machine, grub, run
<1>1. CASE Begin
    BY <1>1 DEF Begin
<1>2. CASE SkipGrub
    BY <1>2 DEF SkipGrub
<1>3. CASE EditGrub
  <2>1. /\ file \in Seq(Params) /\ Fits(file) /\ net \in Nets
        /\ lines = 1 => ~GrepFindsIP(file)
      BY <1>3 DEF EditGrub
  <2>2. file' \in Seq(Params) /\ OneIP(file') /\ GrepFindsIP(file') /\ Fits(file')
      BY <1>3, <2>1, EditedFits DEF EditGrub
  <2> QED
      BY <1>3, <2>2 DEF EditGrub
<1>4. CASE UpdateGrub
    BY <1>4 DEF UpdateGrub
<1>5. CASE EditEntry
  <2>1. PICK e \in left :
          /\ pc = "boot" /\ left' = left \ {e}
          /\ \/ (e \notin options \/ HasIPParam(entry[e])) /\ UNCHANGED <<entry, cut>>
             \/ /\ ~HasIPParam(entry[e])
                /\ entry' = [entry EXCEPT ![e] = Append(@, IP(net))]
                /\ cut' = cut \ {e}
             \/ cut' = cut \cup {e} /\ UNCHANGED entry
          /\ UNCHANGED <<machine, grub, pc, runs, outcome>>
      BY <1>5 DEF EditEntry
  <2>2. e \in Entries /\ loader = "systemd-boot"
      BY <2>1
  <2>3. CASE UNCHANGED entry
      BY <2>1, <2>2, <2>3
  <2>4. CASE /\ ~HasIPParam(entry[e])
             /\ entry' = [entry EXCEPT ![e] = Append(@, IP(net))]
             /\ cut' = cut \ {e}
    <3>1. /\ entry'[e] \in Seq(Params)
          /\ OneIP(entry'[e]) /\ HasIPParam(entry'[e]) /\ Fits(entry'[e])
        BY <2>2, <2>4, AppendIP
    <3>2. \A f \in Entries \ {e} : entry'[f] = entry[f]
        BY <2>2, <2>4
    <3> QED
        BY <2>1, <2>2, <2>4, <3>1, <3>2
  <2> QED
      BY <2>1, <2>3, <2>4
<1>6. CASE LeaveEntries
    BY <1>6 DEF LeaveEntries
<1>7. CASE Complete
    BY <1>7 DEF Complete
<1>8. CASE Stop
    BY <1>8 DEF Stop
<1>9. CASE OthersUpdateGrub
    BY <1>9 DEF OthersUpdateGrub
<1>10. CASE Renumber
    BY <1>10 DEF Renumber
<1>11. CASE UNCHANGED vars
    BY <1>11 DEF vars
<1> QED
    BY <1>1, <1>2, <1>3, <1>4, <1>5, <1>6, <1>7, <1>8, <1>9, <1>10, <1>11 DEF Next

\* The invariant holds throughout.
LEMMA AlwaysIInv == Spec => []IInv
    BY InitEstablishes, InvariantStep, PTL DEF Spec

\* Every variable keeps its type; in particular no line outgrows its first length
\* by more than one parameter, however often the script is repeated.
THEOREM TypeCorrect == Spec => []TypeOK
<1>1. IInv => TypeOK
    BY FittingLines DEF IInv, Typed, Bounded, TypeOK
<1> QED
    BY <1>1, AlwaysIInv, PTL

\* Every other parameter of every entry and of a double-quoted GRUB_CMDLINE_LINUX is
\* still there, in its order (templates.go:515, 529).
THEOREM OtherParamsAlwaysKept == Spec => OtherParamsKept
<1> DEFINE A == /\ lines = 1 \/ file = <<>> => SameOtherParams(file, file')
                /\ \A e \in Entries : SameOtherParams(entry[e], entry'[e])
<1>1. IInv /\ [Next]_vars => [A]_vars
  <2> SUFFICES ASSUME IInv, Next PROVE A
      OBVIOUS
  <2> USE DEF IInv, Typed, machine, grub
  <2>1. file' = file \/ EditGrub
      BY DEF Next, Begin, SkipGrub, UpdateGrub, EditEntry, LeaveEntries,
             Complete, Stop, OthersUpdateGrub, Renumber
  <2>2. ASSUME NEW e \in Entries
        PROVE  entry'[e] = entry[e] \/ entry'[e] = Append(entry[e], IP(net))
    <3>1. CASE EditEntry
        BY <3>1 DEF EditEntry
    <3>2. CASE ~EditEntry
        BY <3>2 DEF Next, Begin, SkipGrub, EditGrub, UpdateGrub, LeaveEntries,
                    Complete, Stop, OthersUpdateGrub, Renumber
    <3> QED
        BY <3>1, <3>2
  <2>3. ASSUME EditGrub
        PROVE  lines = 1 \/ file = <<>> => SameOtherParams(file, file')
    <3>1. /\ file \in Seq(Params) /\ Fits(file) /\ net \in Nets
          /\ lines = 1 => ~GrepFindsIP(file)
          /\ file' = Edited
        BY <2>3 DEF EditGrub, Bounded
    <3> QED
        BY <3>1, EditedFits
  <2>4. lines = 1 \/ file = <<>> => SameOtherParams(file, file')
      BY <2>1, <2>3, SameAsBefore
  <2>5. \A e \in Entries : SameOtherParams(entry[e], entry'[e])
      BY <2>2, AppendIP, SameAsBefore
  <2> QED
      BY <2>4, <2>5
<1> QED
    BY <1>1, AlwaysIInv, PTL DEF Spec, OtherParamsKept

\* Repeated runs never put a second ip= on a line (templates.go:512, 529), however
\* often the server's address changes.
THEOREM AlwaysAtMostOneIP == Spec => []AtMostOneIP
<1>1. ASSUME IInv PROVE AtMostOneIP
  <2> USE <1>1 DEF IInv, Typed, EditedOnce
  <2>1. ~HasIPParam(default) => OneIP(grubCfg \o default)
      BY DefaultAdds
  <2> QED
      BY <2>1 DEF AtMostOneIP, BootLines
<1> QED
    BY <1>1, AlwaysIInv, PTL

\* A run that completes leaves an ip= on every boot line but those whose edit was
\* cut and the one with a lookalike (templates.go:510-531).
THEOREM OnlyCutEditsEverBootWithoutIP == Spec => []OnlyCutEditsBootWithoutIP
<1>1. ASSUME IInv PROVE OnlyCutEditsBootWithoutIP
  <2> USE <1>1 DEF IInv, Typed, UnderWay
  <2>1. ASSUME outcome = "complete", loader = "grub", "grub" \notin cut,
               \A i \in DOMAIN file : file[i].kind # "like"
        PROVE  HasIPParam(grubCfg)
    <3>1. grubCfg = file /\ GrepFindsIP(file)
        BY <2>1 DEF GrubFollows
    <3> QED
        BY <2>1, <3>1, GrepFinds
  <2>2. ASSUME outcome = "complete", loader = "systemd-boot"
        PROVE  \A e \in options \ cut : HasIPParam(entry[e])
      BY <2>2 DEF EntriesVisited
  <2> QED
      BY <2>1, <2>2 DEF OnlyCutEditsBootWithoutIP
<1> QED
    BY <1>1, AlwaysIInv, PTL
=============================================================================
