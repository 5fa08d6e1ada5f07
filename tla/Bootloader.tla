----------------------------- MODULE Bootloader -----------------------------
(***************************************************************************)
(* Step 10 of the setup script: one ip= parameter for the kernel command   *)
(* line, through /etc/default/grub and update-grub or, where there is no   *)
(* GRUB, through the systemd-boot entries.  Runs are repeated, may stop    *)
(* between any two commands, and kernel packages run update-grub too.      *)
(*                                                                         *)
(* A command line is a sequence of parameters.  What matters of one is     *)
(* whether it is an ip= parameter, and whether its text holds the letters  *)
(* "ip=" at all.                                                           *)
(***************************************************************************)
EXTENDS Integers, Sequences, SequencesExt

CONSTANTS
    Nets,             \* the networks the server may be found in
    Lookalikes,       \* parameters such as gossip=1: "ip=" inside, not ip=
    Plain,            \* other parameters
    Entries,          \* systemd-boot entry files
    InterruptUpdate,  \* TRUE if a run may stop between the edit and update-grub
    EditsFail,        \* TRUE if sed may fail on an entry
    MaxRuns,          \* bound: runs of the script
    MaxLine           \* bound: parameters on the initial line

ASSUME BootloaderAssumption ==
    /\ InterruptUpdate \in BOOLEAN /\ EditsFail \in BOOLEAN
    /\ MaxRuns \in Nat /\ MaxLine \in Nat

VARIABLES
    loader,   \* "grub", "systemd-boot" or "none"
    lines,    \* GRUB_CMDLINE_LINUX="..." lines of /etc/default/grub: 0 or 1
    file,     \* the parameters of the assignment in effect, the last one; with
              \* lines = 0 it has no double quotes, or there is none
    default,  \* those of GRUB_CMDLINE_LINUX_DEFAULT
    grubCfg,  \* the parameters the generated grub.cfg boots with
    options,  \* the entry files that have an options line
    entry,    \* the parameters on it
    net,      \* the network the server is in
    pc,       \* "idle", "boot" (step 10), "update" (edited), "rest" (step 11)
    left,     \* entries the loop has yet to visit
    cut,      \* boot entries ("grub" for GRUB's) whose latest edit did not take
    runs,
    outcome   \* of the latest run: "none", "running", "failed", "complete"

machine == <<loader, default, options, net>>
grub    == <<lines, file, grubCfg>>
run     == <<pc, left, cut, runs, outcome>>

vars == <<machine, grub, entry, run>>

IPParams == [kind : {"ip"}, of : Nets]
Params == IPParams \cup [kind : {"like"}, of : Lookalikes]
                   \cup [kind : {"plain"}, of : Plain]

\* IP_PARAM, as far as it depends on the network.
IP(n) == [kind |-> "ip", of |-> n]

\* cmdlineHasIPParam: ip= as a whole token.
HasIPParam(line) == \E i \in DOMAIN line : line[i] \in IPParams

\* grep -qE '^GRUB_CMDLINE_LINUX="[^"]*ip=': the letters, anywhere.
GrepFindsIP(line) ==
    \E i \in DOMAIN line : line[i].kind \in {"ip", "like"}

OneIP(line) ==
    \A i, j \in DOMAIN line : line[i] \in IPParams /\ line[j] \in IPParams => i = j

\* Command lines no run has touched yet; ip= may have been set by hand.
InitialLines == {s \in SeqOf(Params, MaxLine) : IsInjective(s) /\ OneIP(s)}

Init ==
    /\ loader \in {"grub", "systemd-boot", "none"}
    /\ lines \in IF loader = "grub" THEN {0, 1} ELSE {0}
    /\ file \in IF loader = "grub" THEN InitialLines ELSE {<<>>}
    /\ default \in IF loader = "grub" THEN InitialLines ELSE {<<>>}
    /\ grubCfg = file
    /\ options \in IF loader = "systemd-boot" THEN SUBSET Entries ELSE {{}}
    /\ entry \in {l \in [Entries -> InitialLines] :
                    \A e \in Entries \ options : l[e] = <<>>}
    /\ net \in Nets
    /\ pc = "idle" /\ left = {} /\ cut = {}
    /\ runs = 0 /\ outcome = "none"

\* A run reaches step 10; its IP_PARAM is for the network of now.
Begin ==
    /\ pc = "idle"
    /\ runs < MaxRuns
    /\ runs' = runs + 1
    /\ pc' = "boot"
    /\ left' = IF loader = "systemd-boot" THEN Entries ELSE {}
    /\ outcome' = "running"
    /\ UNCHANGED <<machine, grub, entry, cut>>

\* sed appends to the double-quoted line.  Where there is none, printf adds one at
\* the end: it overrides an assignment without double quotes, whatever that held.
Edited == IF lines = 1 THEN Append(file, IP(net)) ELSE <<IP(net)>>

\* "GRUB_CMDLINE_LINUX already contains ip=; skipping": no update-grub.
SkipGrub ==
    /\ pc = "boot" /\ loader = "grub"
    /\ lines = 1 /\ GrepFindsIP(file)
    /\ pc' = "rest"
    /\ UNCHANGED <<machine, grub, entry, left, cut, runs, outcome>>

\* Mutant: a line of its own each time.
EditGrubAddsLine ==
    /\ pc = "boot" /\ loader = "grub"
    /\ lines = 1 => ~GrepFindsIP(file)
    /\ lines' = lines + 1
    /\ file' = Edited
    /\ pc' = "update"
    /\ UNCHANGED <<machine, grubCfg, entry, left, cut, runs, outcome>>

\* Mutant: no update-grub after the edit.
EditGrubOnly ==
    /\ pc = "boot" /\ loader = "grub"
    /\ lines = 1 => ~GrepFindsIP(file)
    /\ lines' = 1
    /\ file' = Edited
    /\ pc' = "rest"
    /\ UNCHANGED <<machine, grubCfg, entry, left, cut, runs, outcome>>

\* Mutant: the sed pattern drops what was between the quotes.
EditGrubReplaces ==
    /\ pc = "boot" /\ loader = "grub"
    /\ lines = 1 => ~GrepFindsIP(file)
    /\ lines' = 1
    /\ file' = <<IP(net)>>
    /\ pc' = "update"
    /\ UNCHANGED <<machine, grubCfg, entry, left, cut, runs, outcome>>

\* The line is not there, or grep does not find ip= on it.
EditGrub ==
    /\ pc = "boot" /\ loader = "grub"
    /\ lines = 1 => ~GrepFindsIP(file)
    /\ lines' = 1
    /\ file' = Edited
    /\ pc' = "update"
    /\ UNCHANGED <<machine, grubCfg, entry, left, cut, runs, outcome>>

UpdateGrub ==
    /\ pc = "update"
    /\ grubCfg' = file
    /\ cut' = cut \ {"grub"}
    /\ pc' = "rest"
    /\ UNCHANGED <<machine, lines, file, entry, left, runs, outcome>>

\* Mutant: the test for ip= is lost.
EditEntryAlways ==
    /\ pc = "boot"
    /\ \E e \in left :
         /\ left' = left \ {e}
         /\ IF e \notin options
              THEN UNCHANGED entry
              ELSE entry' = [entry EXCEPT ![e] = Append(@, IP(net))]
    /\ UNCHANGED <<machine, grub, pc, cut, runs, outcome>>

\* One turn of the loop over the entries.  A sed that fails is not the last
\* command of its && list, so set -e does not see it.
EditEntry ==
    /\ pc = "boot"
    /\ \E e \in left :
         /\ left' = left \ {e}
         /\ IF e \notin options \/ HasIPParam(entry[e])
              THEN UNCHANGED <<entry, cut>>
              ELSE \/ /\ entry' = [entry EXCEPT ![e] = Append(@, IP(net))]
                      /\ cut' = cut \ {e}
                   \/ EditsFail /\ cut' = cut \cup {e} /\ UNCHANGED entry
    /\ UNCHANGED <<machine, grub, pc, runs, outcome>>

\* The loop is over, or there is neither GRUB nor systemd-boot.
LeaveEntries ==
    /\ pc = "boot" /\ loader # "grub" /\ left = {}
    /\ pc' = "rest"
    /\ UNCHANGED <<machine, grub, entry, left, cut, runs, outcome>>

\* Step 11 and the report succeed.
Complete ==
    /\ pc = "rest"
    /\ pc' = "idle" /\ outcome' = "complete"
    /\ UNCHANGED <<machine, grub, entry, left, cut, runs>>

\* A command fails (update-grub itself included) or the script is killed.
Stop ==
    /\ pc # "idle"
    /\ pc = "update" => InterruptUpdate
    /\ pc' = "idle" /\ outcome' = "failed" /\ left' = {}
    /\ cut' = IF pc = "update" THEN cut \cup {"grub"} ELSE cut
    /\ UNCHANGED <<machine, grub, entry, runs>>

\* A kernel package runs update-grub.
OthersUpdateGrub ==
    /\ loader = "grub" /\ grubCfg # file
    /\ pc # "update"
    /\ grubCfg' = file
    /\ cut' = cut \ {"grub"}
    /\ UNCHANGED <<machine, lines, file, entry, pc, left, runs, outcome>>

\* The server is given another address.
Renumber ==
    /\ pc = "idle" /\ runs < MaxRuns
    /\ net' \in Nets \ {net}
    /\ UNCHANGED <<grub, run, loader, default, options, entry>>

Next ==
    \/ Begin \/ SkipGrub \/ EditGrub \/ UpdateGrub \/ EditEntry \/ LeaveEntries
    \/ Complete \/ Stop \/ OthersUpdateGrub \/ Renumber

Spec == Init /\ [][Next]_vars

Lines == SeqOf(Params, MaxLine + 1)

TypeOK ==
    /\ loader \in {"grub", "systemd-boot", "none"}
    /\ lines \in {0, 1}
    /\ file \in Lines /\ grubCfg \in Lines /\ default \in Lines
    /\ options \subseteq Entries /\ entry \in [Entries -> Lines]
    /\ net \in Nets
    /\ pc \in {"idle", "boot", "update", "rest"}
    /\ left \subseteq Entries /\ cut \subseteq Entries \cup {"grub"}
    /\ runs \in 0..MaxRuns
    /\ outcome \in {"none", "running", "failed", "complete"}

(***************************************************************************)
(* Properties.                                                             *)
(***************************************************************************)

\* The command lines the server may boot with; GRUB's recovery entries are
\* without GRUB_CMDLINE_LINUX_DEFAULT.
BootLines ==
    CASE loader = "grub" -> {grubCfg, grubCfg \o default}
      [] loader = "systemd-boot" -> {entry[e] : e \in options}
      [] OTHER -> {}

\* However often the script is repeated, and whatever address the server has
\* by then, no command line ever gets two ip= parameters: the kernel would use
\* only one of them (templates.go:512).  An ip= that was set by hand counts, but
\* for one in GRUB_CMDLINE_LINUX_DEFAULT, where the script does not look.
AtMostOneIP ==
    /\ OneIP(file)
    /\ ~HasIPParam(default) => \A line \in BootLines : OneIP(line)

\* A run that completes leaves every way to boot with an ip= parameter, so the
\* initramfs has the network Dropbear and WireGuard need (README.md:60).
CompleteBootsWithIP ==
    outcome = "complete" => \A line \in BootLines : HasIPParam(line)

\* The same, as far as the code has it: an edit that was cut short or failed
\* costs its own entry only, and a lookalike only GRUB's line.  Interrupted
\* loops are made up for by the next run, and a package's update-grub makes up
\* for the one a run missed (templates.go:395).
OnlyCutEditsBootWithoutIP ==
    outcome = "complete" =>
        /\ (loader = "grub" /\ "grub" \notin cut
             /\ \A i \in DOMAIN file : file[i].kind # "like") => HasIPParam(grubCfg)
        /\ loader = "systemd-boot" =>
             \A e \in options \ cut : HasIPParam(entry[e])

\* Two lines hold the same other parameters in the same order: `at` says where
\* each has gone.
OtherPlaces(line) == {i \in DOMAIN line : line[i] \notin IPParams}

SameOtherParams(before, after) ==
    \E at \in [OtherPlaces(before) -> OtherPlaces(after)] :
        /\ \A q \in OtherPlaces(after) : \E i \in OtherPlaces(before) : at[i] = q
        /\ \A i, j \in OtherPlaces(before) : i < j => at[i] < at[j]
        /\ \A i \in OtherPlaces(before) : after[at[i]] = before[i]

\* The parameters GRUB's file and each entry had before are all still there, in
\* their order: sed rewrites the whole line from a pattern (templates.go:515, 529).
\* Not so for an assignment without double quotes, which the line that is added
\* overrides (templates.go:518).
OtherParamsKept ==
    [][ /\ lines = 1 \/ file = <<>> => SameOtherParams(file, file')
        /\ \A e \in Entries : SameOtherParams(entry[e], entry'[e])
      ]_vars
=============================================================================
