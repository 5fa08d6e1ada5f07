----------------------------- MODULE Provision -----------------------------
(***************************************************************************)
(* `ubo run` from start to end: the client process (cmdRun and             *)
(* setup.Configure), the script it runs on the server (SetupScriptTmpl),   *)
(* the output directory the one writes, the /etc files and boot images the *)
(* other writes, and what surrounds them: runs that fail or die at any     *)
(* point, an operator who edits the config, deletes the output directory   *)
(* or starts over, and kernel packages that rebuild images on their own.   *)
(*                                                                         *)
(* Key material is one value per set (AtomicKeys, which Keygen             *)
(* implements).  A generated file is abstracted to what it was rendered    *)
(* from: a key set, a config, or both.  The bootloader edit is a step here *)
(* and has a module of its own (Bootloader).                               *)
(***************************************************************************)
EXTENDS Integers, FiniteSets

CONSTANTS
    Configs,   \* versions of ubo.toml, valid and for one host and output directory
    NoCfg,     \* stands for the content of a missing file
    Kernels,   \* installed kernels; each has a boot image of its own
    Servers,   \* the kinds of server a behaviour may start with
    MaxRuns,   \* bound: invocations of `ubo run`
    MaxFaults, \* bound: runs and scripts that fail or are killed
    MaxOps,    \* bound: config edits, deletions and rebuilds by others
    Orphans    \* TRUE if a script may outlive the run that started it

ASSUME ProvisionAssumption ==
    /\ NoCfg \notin Configs
    /\ Servers \subseteq {"plain", "bootOnLuks", "noDropbearDir"}
    /\ MaxRuns \in Nat /\ MaxFaults \in Nat /\ MaxOps \in Nat
    /\ Orphans \in BOOLEAN

Runs == 1..MaxRuns

VARIABLES
    store, answer, spent,  \* the output directory's keys, see AtomicKeys
    pin,      \* dropbear_host_key.pub
    conf,     \* client_wg.conf
    saved,    \* the output directory's ubo.toml
    cfg,      \* the operator's ubo.toml
    pc,       \* where the running `ubo run` is
    runs,     \* runs started; the running one has this number
    runCfg,   \* the config the running one loaded
    outcome,  \* of the latest run: "none", "running", "failed", "complete"
    warned,   \* the latest run could not save its config
    alone,    \* no script of an earlier run was active when it started
    server,   \* the kind of server
    etc,      \* the server's files that go into an image
    image,    \* the boot image of each kernel
    step,     \* where the script of each run is
    job,      \* what the script of each run was rendered from
    pub,      \* DROPBEAR_PUB of each script
    built,    \* the images a script has rebuilt
    hostKeys, \* Dropbear host keys generated so far
    faults, ops,
    discarded \* the operator has deleted the output directory before

local  == <<pin, conf, saved>>
client == <<pc, runs, runCfg, outcome, warned, alone>>
host   == <<server, etc, image, hostKeys>>
script == <<step, job, pub, built>>
budget == <<faults, ops, discarded>>
keyVars == <<store, answer, spent>>

vars == <<keyVars, local, cfg, client, host, script, budget>>

Keys == INSTANCE AtomicKeys WITH MaxDraws <- MaxRuns

NoFile == [key |-> 0, cfg |-> NoCfg]
Rendered == [key : 0..MaxRuns, cfg : Configs \cup {NoCfg}]

(***************************************************************************)
(* The steps of the script, in the order of SetupScriptTmpl.               *)
(***************************************************************************)
Off           == 0
Install       == 1
Preflight     == 2
RemoveKey     == 3
GenerateKey   == 4
ReadPub       == 5
WriteWG       == 6
WriteHook     == 7
WritePremount == 8
WriteAuth     == 9
WriteDropbear == 10
WriteUmask    == 11
AddModules    == 12
BootEntry     == 13
Rebuild       == 14
Report        == 15

EtcFiles == [host : 0..MaxRuns, wg : Rendered, hook : BOOLEAN,
             premount : Configs \cup {NoCfg}, auth : 0..MaxRuns,
             db : Configs \cup {NoCfg}, umask : BOOLEAN]

Images == [host : 0..MaxRuns, wg : Rendered,
           premount : Configs \cup {NoCfg}, auth : 0..MaxRuns,
           db : Configs \cup {NoCfg}, private : BOOLEAN]

TypeOK ==
    /\ store \in 0..MaxRuns /\ answer \in 0..MaxRuns /\ spent \in 0..MaxRuns
    /\ pin \in 0..MaxRuns
    /\ conf \in Rendered
    /\ saved \in Configs \cup {NoCfg}
    /\ cfg \in Configs
    /\ pc \in {"idle", "keygen", "connect", "detect", "upload", "wait",
               "pin", "save", "conf", "readme"}
    /\ runs \in 0..MaxRuns
    /\ runCfg \in Configs \cup {NoCfg}
    /\ outcome \in {"none", "running", "failed", "complete"}
    /\ warned \in BOOLEAN /\ alone \in BOOLEAN
    /\ server \in Servers
    /\ etc \in EtcFiles
    /\ image \in [Kernels -> Images]
    /\ step \in [Runs -> Off..Report]
    /\ job \in [Runs -> Rendered]
    /\ pub \in [Runs -> 0..MaxRuns]
    /\ built \in [Runs -> SUBSET Kernels]
    /\ hostKeys \in 0..MaxRuns
    /\ faults \in 0..MaxFaults /\ ops \in 0..MaxOps /\ discarded \in BOOLEAN

\* What update-initramfs makes of the files: Dropbear's own hook takes the
\* host key, authorized_keys and dropbear.conf, UBO's hook wg-initramfs.conf.
BuiltFrom(e) ==
    [host |-> e.host, wg |-> IF e.hook THEN e.wg ELSE NoFile,
     premount |-> e.premount, auth |-> e.auth, db |-> e.db,
     private |-> e.umask]

NoEtc == [host |-> 0, wg |-> NoFile, hook |-> FALSE, premount |-> NoCfg,
          auth |-> 0, db |-> NoCfg, umask |-> FALSE]

Init ==
    /\ Keys!AtomicInit
    /\ pin = 0 /\ conf = NoFile /\ saved = NoCfg
    /\ cfg \in Configs
    /\ pc = "idle" /\ runs = 0 /\ runCfg = NoCfg
    /\ outcome = "none" /\ warned = FALSE /\ alone = TRUE
    /\ server \in Servers
    /\ etc = NoEtc
    /\ image = [k \in Kernels |-> BuiltFrom(NoEtc)]
    /\ hostKeys = 0
    /\ step = [r \in Runs |-> Off]
    /\ job = [r \in Runs |-> NoFile]
    /\ pub = [r \in Runs |-> 0]
    /\ built = [r \in Runs |-> {}]
    /\ faults = 0 /\ ops = 0 /\ discarded = FALSE

-----------------------------------------------------------------------------
(* The client: cmdRun. *)

\* Mutant: the output directory's ubo.toml is saved before the script runs.
StartSavesConfig ==
    /\ pc = "idle"
    /\ runs < MaxRuns
    /\ pc' = "keygen"
    /\ runs' = runs + 1
    /\ runCfg' = cfg
    /\ outcome' = "running"
    /\ warned' = FALSE
    /\ alone' = \A r \in Runs : step[r] = Off
    /\ saved' = cfg
    /\ UNCHANGED <<keyVars, pin, conf, cfg, host, script, budget>>

\* prepareRun: the config is loaded and found valid, the directory made.
Start ==
    /\ pc = "idle"
    /\ runs < MaxRuns
    /\ pc' = "keygen"
    /\ runs' = runs + 1
    /\ runCfg' = cfg
    /\ outcome' = "running"
    /\ warned' = FALSE
    /\ alone' = \A r \in Runs : step[r] = Off
    /\ UNCHANGED <<keyVars, local, cfg, host, script, budget>>

\* Mutant: every run generates all keys.
GenerateAlways ==
    /\ pc = "keygen"
    /\ spent' = spent + 1 /\ store' = spent' /\ answer' = spent'
    /\ pc' = "connect"
    /\ UNCHANGED <<local, cfg, runs, runCfg, outcome, warned, alone, host, script, budget>>

GenerateAll ==
    /\ pc = "keygen"
    /\ Keys!Reuse \/ Keys!Generate
    /\ pc' = "connect"
    /\ UNCHANGED <<local, cfg, runs, runCfg, outcome, warned, alone, host, script, budget>>

\* connectForRun: dial, check the host key, make sure of sudo.
Connect ==
    /\ pc = "connect"
    /\ pc' = "detect"
    /\ UNCHANGED <<keyVars, local, cfg, runs, runCfg, outcome, warned, alone, host,
                   script, budget>>

\* Configure, step 1 and rendering: the script is made for these keys and
\* this config, and for the network as it is found now.
Detect ==
    /\ pc = "detect"
    /\ job' = [job EXCEPT ![runs] = [key |-> answer, cfg |-> runCfg]]
    /\ pc' = "upload"
    /\ UNCHANGED <<keyVars, local, cfg, runs, runCfg, outcome, warned, alone, host,
                   step, pub, built, budget>>

\* runSetupScript: upload /tmp/ubo-setup.sh and start it.
RunSetupScript ==
    /\ pc = "upload"
    /\ step' = [step EXCEPT ![runs] = Install]
    /\ pc' = "wait"
    /\ UNCHANGED <<keyVars, local, cfg, runs, runCfg, outcome, warned, alone, host,
                   job, pub, built, budget>>

\* The script exited 0 and its last JSON line holds a key.
ParseSetupResult ==
    /\ pc = "wait"
    /\ step[runs] = Report
    /\ step' = [step EXCEPT ![runs] = Off]
    /\ pc' = "pin"
    /\ UNCHANGED <<keyVars, local, cfg, runs, runCfg, outcome, warned, alone, host,
                   job, pub, built, budget>>

SavePinnedKey ==
    /\ pc = "pin"
    /\ pin' = pub[runs]
    /\ pc' = "save"
    /\ UNCHANGED <<keyVars, conf, saved, cfg, runs, runCfg, outcome, warned, alone,
                   host, script, budget>>

\* config.Save of the run's config; its failure is only a warning.
SaveConfigCopy ==
    /\ pc = "save"
    /\ \/ saved' = runCfg /\ UNCHANGED <<warned, faults>>
       \/ /\ faults < MaxFaults
          /\ faults' = faults + 1
          /\ warned' = TRUE
          /\ UNCHANGED saved
    /\ pc' = "conf"
    /\ UNCHANGED <<keyVars, pin, conf, cfg, runs, runCfg, outcome, alone, host,
                   script, ops, discarded>>

\* Mutant: a client_wg.conf that is there is kept.
KeepClientConf ==
    /\ pc = "conf"
    /\ conf' = IF conf = NoFile THEN [key |-> answer, cfg |-> runCfg] ELSE conf
    /\ pc' = "readme"
    /\ UNCHANGED <<keyVars, pin, saved, cfg, runs, runCfg, outcome, warned, alone,
                   host, script, budget>>

\* writeRunArtifacts, first half: client_wg.conf.
WriteClientConf ==
    /\ pc = "conf"
    /\ conf' = [key |-> answer, cfg |-> runCfg]
    /\ pc' = "readme"
    /\ UNCHANGED <<keyVars, pin, saved, cfg, runs, runCfg, outcome, warned, alone,
                   host, script, budget>>

\* writeRunArtifacts, second half; cmdRun prints "configuration complete!".
Finish ==
    /\ pc = "readme"
    /\ Keys!Release
    /\ pc' = "idle"
    /\ outcome' = "complete"
    /\ UNCHANGED <<local, cfg, runs, runCfg, warned, alone, host, script, budget>>

(***************************************************************************)
(* Any step returns an error, the process is killed, or the connection is  *)
(* lost.  The server's sshd then ends the script too, unless it does not   *)
(* notice.                                                                 *)
(***************************************************************************)
RunFails ==
    /\ pc # "idle"
    /\ faults < MaxFaults
    /\ faults' = faults + 1
    /\ IF pc = "keygen" THEN Keys!Abandon ELSE Keys!Release
    /\ pc' = "idle"
    /\ outcome' = "failed"
    /\ \/ step' = [step EXCEPT ![runs] = Off]
       \/ Orphans /\ UNCHANGED step
    /\ UNCHANGED <<local, cfg, runs, runCfg, warned, alone, host, job, pub, built,
                   ops, discarded>>

-----------------------------------------------------------------------------
(* The server: the script of run r. *)

Running(r) == step[r] \in Install..Rebuild

\* One command group of the script succeeds, with `e` as the files after it.
Advance(r, s, e) ==
    /\ step[r] = s
    /\ step' = [step EXCEPT ![r] = s + 1]
    /\ etc' = e
    /\ UNCHANGED <<keyVars, local, cfg, client, server, image, job, budget>>

\* A command of the script fails for certain: `set -e` ends the script, and
\* with it the run that waits for it.
ScriptStops(r) ==
    /\ step' = [step EXCEPT ![r] = Off]
    /\ IF r = runs /\ pc = "wait"
         THEN /\ Keys!Release
              /\ pc' = "idle"
              /\ outcome' = "failed"
         ELSE UNCHANGED <<keyVars, pc, outcome>>
    /\ UNCHANGED <<local, cfg, runs, runCfg, warned, alone, host, job, pub, built,
                   ops, discarded>>

\* apt-get update and install.
InstallPackages(r) ==
    Advance(r, Install, etc) /\ UNCHANGED <<pub, built, hostKeys>>

\* /boot must not be encrypted and dropbear-initramfs must have a directory.
PreflightPasses(r) ==
    /\ server = "plain"
    /\ Advance(r, Preflight, etc) /\ UNCHANGED <<pub, built, hostKeys>>

PreflightRefuses(r) ==
    /\ step[r] = Preflight
    /\ server # "plain"
    /\ ScriptStops(r)
    /\ UNCHANGED faults

\* Mutant: the old host key is not removed.
KeepHostKey(r) ==
    /\ Advance(r, RemoveKey, etc)
    /\ UNCHANGED <<pub, built, hostKeys>>

\* rm -f "$DROPBEAR_KEY"
RemoveHostKey(r) ==
    /\ Advance(r, RemoveKey, [etc EXCEPT !.host = 0])
    /\ UNCHANGED <<pub, built, hostKeys>>

\* dropbearkey -t ed25519; it does not overwrite a key that is there.
GenerateHostKey(r) ==
    /\ etc.host = 0
    /\ Advance(r, GenerateKey, [etc EXCEPT !.host = hostKeys + 1])
    /\ hostKeys' = hostKeys + 1
    /\ UNCHANGED <<pub, built>>

GenerateRefuses(r) ==
    /\ step[r] = GenerateKey
    /\ etc.host # 0
    /\ ScriptStops(r)
    /\ UNCHANGED faults

\* DROPBEAR_PUB=$(dropbearkey -y ... | grep '^ssh-'): reads what is there now.
ReadHostPub(r) ==
    /\ etc.host # 0
    /\ Advance(r, ReadPub, etc)
    /\ pub' = [pub EXCEPT ![r] = etc.host]
    /\ UNCHANGED <<built, hostKeys>>

ReadPubFails(r) ==
    /\ step[r] = ReadPub
    /\ etc.host = 0
    /\ ScriptStops(r)
    /\ UNCHANGED faults

\* Mutant: the script's placeholder for the key is given the config's value.
WriteWrongAuth(r) ==
    LET j == job[r] IN
    /\ \/ Advance(r, WriteWG, [etc EXCEPT !.wg = j])
       \/ Advance(r, WriteHook, [etc EXCEPT !.hook = TRUE])
       \/ Advance(r, WritePremount, [etc EXCEPT !.premount = j.cfg])
       \/ Advance(r, WriteAuth, [etc EXCEPT !.auth = j.cfg])
       \/ Advance(r, WriteDropbear, [etc EXCEPT !.db = j.cfg])
       \/ Advance(r, WriteUmask, [etc EXCEPT !.umask = TRUE])
    /\ UNCHANGED <<pub, built, hostKeys>>

\* Mutant: step 9 is lost.
WriteNoUmask(r) ==
    LET j == job[r] IN
    /\ \/ Advance(r, WriteWG, [etc EXCEPT !.wg = j])
       \/ Advance(r, WriteHook, [etc EXCEPT !.hook = TRUE])
       \/ Advance(r, WritePremount, [etc EXCEPT !.premount = j.cfg])
       \/ Advance(r, WriteAuth, [etc EXCEPT !.auth = j.key])
       \/ Advance(r, WriteDropbear, [etc EXCEPT !.db = j.cfg])
       \/ Advance(r, WriteUmask, etc)
    /\ UNCHANGED <<pub, built, hostKeys>>

\* The script of run r opens its next file: e is what is left of the files.
Opened(r, s, e) ==
    /\ step[r] = s
    /\ etc' = e
    /\ UNCHANGED <<keyVars, local, cfg, client, server, image, hostKeys, script, budget>>

\* `base64 -d > file` empties the file before it writes it.  An empty file does
\* what a missing one does, and so does an incomplete one here.  The script may
\* stop there, and another may rebuild an image from it; where neither happens
\* this step is left out and WriteFile stands for both.
OpenFile(r) ==
    \/ Opened(r, WriteWG, [etc EXCEPT !.wg = NoFile])
    \/ Opened(r, WriteHook, [etc EXCEPT !.hook = FALSE])
    \/ Opened(r, WritePremount, [etc EXCEPT !.premount = NoCfg])
    \/ Opened(r, WriteAuth, [etc EXCEPT !.auth = 0])
    \/ Opened(r, WriteDropbear, [etc EXCEPT !.db = NoCfg])
    \/ Opened(r, WriteUmask, [etc EXCEPT !.umask = FALSE])

\* Steps 4-9: the six files, in this order.
WriteFile(r) ==
    LET j == job[r] IN
    /\ \/ Advance(r, WriteWG, [etc EXCEPT !.wg = j])
       \/ Advance(r, WriteHook, [etc EXCEPT !.hook = TRUE])
       \/ Advance(r, WritePremount, [etc EXCEPT !.premount = j.cfg])
       \/ Advance(r, WriteAuth, [etc EXCEPT !.auth = j.key])
       \/ Advance(r, WriteDropbear, [etc EXCEPT !.db = j.cfg])
       \/ Advance(r, WriteUmask, [etc EXCEPT !.umask = TRUE])
    /\ UNCHANGED <<pub, built, hostKeys>>

\* Steps 9b and 10: the NIC modules, which go into the images too but are left
\* to NetDetect, and the bootloader, which no image holds.
ConfigureBoot(r) ==
    /\ \/ Advance(r, AddModules, etc)
       \/ Advance(r, BootEntry, etc)
    /\ UNCHANGED <<pub, built, hostKeys>>

\* Mutant: update-initramfs -u without -k all.
RebuildOne(r) ==
    /\ step[r] = Rebuild
    /\ \E k \in Kernels :
         /\ image' = [image EXCEPT ![k] = BuiltFrom(etc)]
         /\ built' = [built EXCEPT ![r] = {k}]
    /\ step' = [step EXCEPT ![r] = Report]
    /\ UNCHANGED <<keyVars, local, cfg, client, server, etc, hostKeys, job,
                   pub, budget>>

\* update-initramfs -u -k all, one kernel after the other.
RebuildImage(r) ==
    /\ step[r] = Rebuild
    /\ \E k \in Kernels \ built[r] :
         /\ image' = [image EXCEPT ![k] = BuiltFrom(etc)]
         /\ built' = [built EXCEPT ![r] = @ \cup {k}]
    /\ step' = [step EXCEPT ![r] = IF built'[r] = Kernels THEN Report ELSE Rebuild]
    /\ UNCHANGED <<keyVars, local, cfg, client, server, etc, hostKeys, job,
                   pub, budget>>

\* Any command of the script fails.
ScriptFails(r) ==
    /\ Running(r)
    /\ faults < MaxFaults
    /\ faults' = faults + 1
    /\ ScriptStops(r)

ScriptStep(r) ==
    \/ InstallPackages(r) \/ PreflightPasses(r) \/ PreflightRefuses(r)
    \/ RemoveHostKey(r) \/ GenerateHostKey(r) \/ GenerateRefuses(r)
    \/ ReadHostPub(r) \/ ReadPubFails(r)
    \/ OpenFile(r) \/ WriteFile(r) \/ ConfigureBoot(r) \/ RebuildImage(r)

-----------------------------------------------------------------------------
(* The surroundings. *)

\* `ubo configure` or an editor.
EditConfig ==
    /\ ops < MaxOps
    /\ ops' = ops + 1
    /\ cfg' \in Configs \ {cfg}
    /\ UNCHANGED <<keyVars, local, client, host, script, faults, discarded>>

\* The operator deletes the output directory to force fresh keys.
DeleteOutputDir ==
    /\ pc = "idle"
    /\ ops < MaxOps
    /\ ops' = ops + 1
    /\ Keys!Discard
    /\ pin' = 0 /\ conf' = NoFile /\ saved' = NoCfg
    /\ discarded' = TRUE
    /\ outcome' = "none"
    /\ UNCHANGED <<cfg, pc, runs, runCfg, warned, alone, host, script, faults>>

\* A kernel or initramfs package is installed or upgraded (also by the
\* script's own apt-get) and rebuilds an image from the files as they are.
OthersRebuild ==
    /\ ops < MaxOps
    /\ ops' = ops + 1
    /\ \E k \in Kernels : image' = [image EXCEPT ![k] = BuiltFrom(etc)]
    /\ UNCHANGED <<keyVars, local, cfg, client, server, etc, hostKeys, script,
                   faults, discarded>>

RunStep ==
    \/ GenerateAll \/ Connect \/ Detect \/ RunSetupScript \/ ParseSetupResult
    \/ SavePinnedKey \/ SaveConfigCopy \/ WriteClientConf \/ Finish

Next ==
    \/ Start
    \/ RunStep
    \/ RunFails
    \/ \E r \in Runs : ScriptStep(r) \/ ScriptFails(r)
    \/ EditConfig \/ DeleteOutputDir \/ OthersRebuild

Spec == Init /\ [][Next]_vars

\* Processes go on, and the operator runs `ubo run` again until it completes.
Fairness ==
    /\ WF_vars(RunStep)
    /\ WF_vars(\E r \in Runs : ScriptStep(r))
    /\ WF_vars(Start /\ outcome # "complete")

FairSpec == Spec /\ Fairness

-----------------------------------------------------------------------------
(* What `ubo unlock` needs. *)

\* The artifacts `ubo status` looks for (statusArtifacts, main.go:525).
StatusReady == store # 0 /\ pin # 0 /\ conf # NoFile

\* `ubo unlock` with the output directory's config reaches Dropbear in an
\* image with this content: the tunnel's keys and addresses agree, the pinned
\* host key is the image's, and the image admits the SSH key on disk.
Opens(im) ==
    /\ StatusReady
    /\ im.wg = conf
    /\ im.premount = saved
    /\ im.db = saved
    /\ conf.cfg = saved
    /\ im.host = pin
    /\ im.auth = store

-----------------------------------------------------------------------------
(* Properties. *)

\* After "configuration complete!" (and no warning) every kernel can be
\* unlocked, and so can every image a package rebuilds later, until another
\* run is started (main.go:240).  A run that overlapped the script of an
\* earlier one is exempt: nothing keeps the two scripts apart.
CompleteMeansUnlockable ==
    (outcome = "complete" /\ ~warned /\ alone) =>
        Opens(BuiltFrom(etc)) /\ \A k \in Kernels : Opens(image[k])

\* An operator who could unlock a kernel loses that only when its image is
\* replaced or the output directory deleted: no other step of a re-run, its
\* failures included, locks anyone out (cmdRun's order, main.go:207).  The
\* script of an earlier run that is still going may write an old config back
\* under a later run, so again only runs that nothing overlaps are held to it.
OnlyANewImageLocksOut ==
    [][ \A k \in Kernels :
          (alone /\ Opens(image[k]) /\ ~Opens(image[k])') =>
             image'[k] # image[k] \/ store' = 0 ]_vars

\* A host key is pinned only when every image holds it (README.md:55,
\* "Generates a fresh Dropbear host key and pins its public key locally"), by a
\* run that no earlier script overlaps.  The converse is not promised: a run
\* that stops between the rebuild and the pin leaves the old pin.
PinIsInEveryImage ==
    [][ (pin' # pin /\ pin' # 0 /\ alone) => \A k \in Kernels : image[k].host = pin' ]_vars

\* As long as the output directory is not deleted, no re-run ever replaces the
\* keys a server was given (keygen.go:29, "without invalidating an already-
\* deployed client_wg.conf").
RerunKeepsDeployedKeys ==
    ~discarded => \A k \in Kernels :
                    /\ image[k].auth \in {0, store}
                    /\ image[k].wg.key \in {0, store}

\* The images a complete run leaves, and those packages rebuild until another
\* run is started, are built under UMASK=0077 (templates.go:118).  The script of
\* an earlier run that is still going empties the file before it writes it, so
\* only runs that nothing overlaps are held to it.
CompleteMeansPrivate ==
    (outcome = "complete" /\ alone) => \A k \in Kernels : image[k].private

\* Nothing but a fault fails a run on a server it supports, whatever earlier
\* runs left behind; a server it does not support is refused before any of its
\* files is changed (templates.go:406, the preflight comes before step 3).
OnlyFaultsFailARun ==
    [][ (outcome = "running" /\ outcome' = "failed" /\ faults' = faults) =>
          server # "plain" /\ etc = NoEtc ]_vars

\* Repeating an interrupted `ubo run` gets through, wherever the earlier ones
\* stopped (templates.go:359, "idempotent setup.sh").
RetriesGetThrough == server = "plain" => <>(outcome = "complete")
=============================================================================
