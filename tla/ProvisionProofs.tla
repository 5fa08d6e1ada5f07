--------------------------- MODULE ProvisionProofs ---------------------------
(***************************************************************************)
(* Provision's safety theorems, for any configs, kernels and servers, any  *)
(* number of runs, faults and operations, with and without scripts that    *)
(* outlive their run.                                                      *)
(***************************************************************************)
EXTENDS Provision, FiniteSetTheorems, TLAPS

\* Where the run's keys are in hand, where its script is yet to start, and where
\* the script has done its work.
InRun     == {"connect", "detect", "upload", "wait", "pin", "save", "conf", "readme"}
Pre       == {"keygen", "connect", "detect", "upload"}
Deploying == {"pin", "save", "conf", "readme"}

\* The runs whose script may still generate a host key.
Ahead ==
    {r \in Runs : \/ r > runs
                  \/ r = runs /\ pc \in Pre
                  \/ step[r] \in Install..GenerateKey}

HostKeysSpent == hostKeys + Cardinality(Ahead) <= MaxRuns

-----------------------------------------------------------------------------
(* Types. *)

\* What the files and images are made of.
LEMMA Files ==
    /\ NoFile \in Rendered /\ NoEtc \in EtcFiles
    /\ \A n \in 0..MaxRuns, c \in Configs : [key |-> n, cfg |-> c] \in Rendered
    /\ \A j \in Rendered : j.key \in 0..MaxRuns /\ j.cfg \in Configs \cup {NoCfg}
<1>1. NoFile \in Rendered
    BY ProvisionAssumption DEF NoFile, Rendered
<1> QED
    BY <1>1, ProvisionAssumption DEF Rendered, NoEtc, EtcFiles

\* An image made of files of their type.
LEMMA Images1 == ASSUME NEW e \in EtcFiles PROVE BuiltFrom(e) \in Images
    BY Files DEF BuiltFrom, EtcFiles, Images

\* Files stay of their type when the script replaces one.
LEMMA FileWritten ==
    ASSUME NEW e \in EtcFiles, NEW j \in Rendered, NEW h \in 0..MaxRuns
    PROVE  /\ [e EXCEPT !.host = h] \in EtcFiles
           /\ [e EXCEPT !.wg = j] \in EtcFiles
           /\ [e EXCEPT !.hook = TRUE] \in EtcFiles
           /\ [e EXCEPT !.premount = j.cfg] \in EtcFiles
           /\ [e EXCEPT !.auth = j.key] \in EtcFiles
           /\ [e EXCEPT !.db = j.cfg] \in EtcFiles
           /\ [e EXCEPT !.umask = TRUE] \in EtcFiles
    BY Files DEF EtcFiles

\* And when it opens one.
LEMMA FileOpened ==
    ASSUME NEW e \in EtcFiles
    PROVE  /\ [e EXCEPT !.wg = NoFile] \in EtcFiles
           /\ [e EXCEPT !.hook = FALSE] \in EtcFiles
           /\ [e EXCEPT !.premount = NoCfg] \in EtcFiles
           /\ [e EXCEPT !.auth = 0] \in EtcFiles
           /\ [e EXCEPT !.db = NoCfg] \in EtcFiles
           /\ [e EXCEPT !.umask = FALSE] \in EtcFiles
<1>1. 0 \in 0..MaxRuns /\ NoFile \in Rendered /\ NoCfg \in Configs \cup {NoCfg}
    BY Files, ProvisionAssumption
<1> QED
    BY <1>1 DEF EtcFiles

\* The installed state.
LEMMA InitTyped == Init => TypeOK
<1> SUFFICES ASSUME Init PROVE TypeOK
    OBVIOUS
<1>1. warned \in BOOLEAN /\ alone \in BOOLEAN /\ discarded \in BOOLEAN
    BY Zenon DEF Init
<1>2. etc \in EtcFiles /\ image \in [Kernels -> Images]
    BY Files, Images1 DEF Init
<1> QED
    BY <1>1, <1>2, Files, ProvisionAssumption
    DEF Init, TypeOK, Keys!AtomicInit, Keys!NoSet, Runs, Off, Report

\* Whatever becomes of them, the keys stay of their type.
LEMMA KeysTyped ==
    ASSUME TypeOK,
           Keys!Reuse \/ Keys!Generate \/ Keys!Abandon \/ Keys!Release \/ Keys!Discard
    PROVE  store' \in 0..MaxRuns /\ answer' \in 0..MaxRuns /\ spent' \in 0..MaxRuns
    BY ProvisionAssumption
    DEF TypeOK, Keys!Reuse, Keys!Generate, Keys!Abandon, Keys!Release, Keys!Discard,
        Keys!NoSet

\* The runs that may still generate a key are finitely many; with one among them
\* there is a host key left to generate.
LEMMA AheadFinite ==
    /\ IsFiniteSet(Ahead) /\ Cardinality(Ahead) \in Nat
    /\ TypeOK /\ HostKeysSpent /\ Ahead # {} => hostKeys + 1 \in 0..MaxRuns
<1>1. IsFiniteSet(Runs)
    BY ProvisionAssumption, FS_Interval DEF Runs
<1>2. IsFiniteSet(Ahead)
    BY <1>1, FS_Subset DEF Ahead
<1>3. Cardinality(Ahead) \in Nat /\ (Ahead # {} => Cardinality(Ahead) # 0)
    BY <1>2, FS_CardinalityType, FS_EmptySet
<1> QED
    BY <1>2, <1>3, ProvisionAssumption DEF TypeOK, HostKeysSpent

\* The steps of `ubo run` keep the types.
LEMMA ClientTyped ==
    ASSUME TypeOK, HostKeysSpent, pc = "idle" \/ runs \in Runs,
           Start \/ RunStep \/ RunFails
    PROVE  TypeOK'
<1> USE ProvisionAssumption
        DEF TypeOK, local, client, host, script, budget, keyVars, Runs,
            Off, Install, Report
<1>1. CASE Start
  <2>1. alone' \in BOOLEAN /\ warned' \in BOOLEAN /\ discarded' \in BOOLEAN
      BY <1>1, Zenon DEF Start
  <2> QED
      BY <1>1, <2>1 DEF Start
<1>2. CASE GenerateAll
    BY <1>2, KeysTyped DEF GenerateAll
<1>3. CASE Connect
    BY <1>3 DEF Connect
<1>4. CASE Detect
  <2>1. [key |-> answer, cfg |-> runCfg] \in Rendered
      BY DEF Rendered
  <2> QED
      BY <1>4, <2>1 DEF Detect
<1>5. CASE RunSetupScript
    BY <1>5 DEF RunSetupScript
<1>6. CASE ParseSetupResult
    BY <1>6 DEF ParseSetupResult
<1>7. CASE SavePinnedKey
    BY <1>7 DEF SavePinnedKey
<1>8. CASE SaveConfigCopy
  <2>1. warned' \in BOOLEAN
      BY <1>8, Zenon DEF SaveConfigCopy
  <2> QED
      BY <1>8, <2>1 DEF SaveConfigCopy
<1>9. CASE WriteClientConf
  <2>1. [key |-> answer, cfg |-> runCfg] \in Rendered
      BY DEF Rendered
  <2> QED
      BY <1>9, <2>1 DEF WriteClientConf
<1>10. CASE Finish
    BY <1>10, KeysTyped DEF Finish
<1>11. CASE RunFails
  <2>1. step' \in [Runs -> Off..Report]
    <3>1. step' = [step EXCEPT ![runs] = Off] \/ step' = step
        BY <1>11, Zenon DEF RunFails
    <3>2. runs \in Runs
        BY <1>11 DEF RunFails
    <3>3. [step EXCEPT ![runs] = Off] \in [Runs -> Off..Report]
        BY <3>2
    <3> QED
        BY <3>1, <3>3
  <2>2. store' \in 0..MaxRuns /\ answer' \in 0..MaxRuns /\ spent' \in 0..MaxRuns
      BY <1>11, KeysTyped DEF RunFails
  <2> QED
      BY <1>11, <2>1, <2>2 DEF RunFails
<1> QED
    BY <1>1, <1>2, <1>3, <1>4, <1>5, <1>6, <1>7, <1>8, <1>9, <1>10, <1>11 DEF RunStep

\* The steps of a script keep the types.
LEMMA ScriptTyped ==
    ASSUME TypeOK, HostKeysSpent, NEW r \in Runs, ScriptStep(r) \/ ScriptFails(r)
    PROVE  TypeOK'
<1> USE ProvisionAssumption
        DEF TypeOK, local, client, host, script, budget, keyVars,
            Off, Install, Preflight, RemoveKey, GenerateKey, ReadPub, WriteWG,
            WriteHook, WritePremount, WriteAuth, WriteDropbear, WriteUmask,
            AddModules, BootEntry, Rebuild, Report
<1>1. ASSUME NEW s \in Off..Rebuild, NEW e \in EtcFiles, Advance(r, s, e),
             hostKeys' \in 0..MaxRuns, pub' \in [Runs -> 0..MaxRuns], UNCHANGED built
      PROVE  TypeOK'
    BY <1>1 DEF Advance
<1>2. ASSUME ScriptStops(r), faults' \in 0..MaxFaults PROVE TypeOK'
    BY <1>2, KeysTyped DEF ScriptStops
<1>3. CASE InstallPackages(r) \/ PreflightPasses(r) \/ ConfigureBoot(r)
  <2>1. \E s \in Off..Rebuild : Advance(r, s, etc)
      BY <1>3 DEF InstallPackages, PreflightPasses, ConfigureBoot
  <2>2. UNCHANGED <<pub, built, hostKeys>>
      BY <1>3 DEF InstallPackages, PreflightPasses, ConfigureBoot
  <2> QED
      BY <1>1, <2>1, <2>2
<1>4. CASE PreflightRefuses(r) \/ GenerateRefuses(r) \/ ReadPubFails(r) \/ ScriptFails(r)
    BY <1>2, <1>4 DEF PreflightRefuses, GenerateRefuses, ReadPubFails, ScriptFails
<1>5. CASE RemoveHostKey(r)
  <2>1. 0 \in 0..MaxRuns /\ etc \in EtcFiles /\ NoFile \in Rendered
      BY Files
  <2>3. [etc EXCEPT !.host = 0] \in EtcFiles
      BY <2>1, FileWritten
  <2>2. RemoveKey \in Off..Rebuild
      OBVIOUS
  <2> QED
      BY <1>1, <1>5, <2>2, <2>3 DEF RemoveHostKey
<1>6. CASE GenerateHostKey(r)
  <2>1. r \in Ahead
      BY <1>6 DEF GenerateHostKey, Advance, Ahead
  <2>2. hostKeys + 1 \in 0..MaxRuns
      BY <2>1, AheadFinite
  <2>3. [etc EXCEPT !.host = hostKeys + 1] \in EtcFiles
      BY <2>2, Files, FileWritten
  <2> QED
      BY <1>1, <1>6, <2>2, <2>3 DEF GenerateHostKey
<1>7. CASE ReadHostPub(r)
  <2>1. pub' \in [Runs -> 0..MaxRuns]
      BY <1>7 DEF ReadHostPub, EtcFiles
  <2>2. Advance(r, ReadPub, etc) /\ UNCHANGED <<built, hostKeys>>
      BY <1>7 DEF ReadHostPub
  <2>3. ReadPub \in Off..Rebuild
      OBVIOUS
  <2> QED
      BY <1>1, <2>1, <2>2, <2>3
<1>8. CASE WriteFile(r)
  <2>1. job[r] \in Rendered /\ 0 \in 0..MaxRuns
      OBVIOUS
  <2>2. \A s \in {WriteWG, WriteHook, WritePremount, WriteAuth,
                  WriteDropbear, WriteUmask} : s \in Off..Rebuild
      OBVIOUS
  <2>3. \E s \in {WriteWG, WriteHook, WritePremount, WriteAuth,
                       WriteDropbear, WriteUmask}, e \in EtcFiles : Advance(r, s, e)
    <3>1. /\ [etc EXCEPT !.wg = job[r]] \in EtcFiles
          /\ [etc EXCEPT !.hook = TRUE] \in EtcFiles
          /\ [etc EXCEPT !.premount = job[r].cfg] \in EtcFiles
          /\ [etc EXCEPT !.auth = job[r].key] \in EtcFiles
          /\ [etc EXCEPT !.db = job[r].cfg] \in EtcFiles
          /\ [etc EXCEPT !.umask = TRUE] \in EtcFiles
        BY <2>1, FileWritten
    <3> QED
        BY <1>8, <3>1, Zenon DEF WriteFile
  <2> QED
      BY <1>1, <1>8, <2>2, <2>3 DEF WriteFile
<1>9. CASE RebuildImage(r)
  <2>1. image' \in [Kernels -> Images]
      BY <1>9, Images1 DEF RebuildImage
  <2>2. built' \in [Runs -> SUBSET Kernels] /\ step' \in [Runs -> Off..Report]
      BY <1>9 DEF RebuildImage
  <2> QED
      BY <1>9, <2>1, <2>2 DEF RebuildImage
<1>10. CASE OpenFile(r)
  <2>1. \E s, e : e \in EtcFiles /\ Opened(r, s, e)
      BY <1>10, FileOpened, Zenon DEF OpenFile
  <2> QED
      BY <2>1 DEF Opened
<1> QED
    BY <1>3, <1>4, <1>5, <1>6, <1>7, <1>8, <1>9, <1>10 DEF ScriptStep

\* What happens around them keeps the types.
LEMMA OthersTyped ==
    ASSUME TypeOK, EditConfig \/ DeleteOutputDir \/ OthersRebuild PROVE TypeOK'
<1> USE ProvisionAssumption
        DEF TypeOK, local, client, host, script, budget, keyVars
<1>1. CASE EditConfig
    BY <1>1 DEF EditConfig
<1>2. CASE DeleteOutputDir
  <2>1. discarded' \in BOOLEAN
      BY <1>2 DEF DeleteOutputDir
  <2> QED
      BY <1>2, <2>1, KeysTyped, Files DEF DeleteOutputDir
<1>3. CASE OthersRebuild
  <2>1. image' \in [Kernels -> Images]
      BY <1>3, Images1 DEF OthersRebuild
  <2> QED
      BY <1>3, <2>1 DEF OthersRebuild
<1> QED
    BY <1>1, <1>2, <1>3

-----------------------------------------------------------------------------
(* Runs and their scripts. *)

\* A run in progress has its config, from key generation on the stored keys, and
\* from rendering on a script made of both.
InHand ==
    /\ pc # "idle" <=> outcome = "running"
    /\ pc # "idle" => runs \in Runs /\ runCfg \in Configs
    /\ answer = IF pc \in InRun THEN store ELSE 0
    /\ pc \in InRun => store # 0
    /\ pc \in InRun \ {"connect", "detect"} =>
         job[runs] = [key |-> answer, cfg |-> runCfg]

\* Scripts are those of runs that have started them, and a run that has not has
\* rebuilt no image.
Started ==
    /\ \A r \in Runs : step[r] # Off =>
         r <= runs /\ (r = runs => pc \in {"wait", "idle"})
    /\ \A r \in Runs : r > runs \/ (r = runs /\ pc \in Pre) => built[r] = {}

\* Who is alone overlaps no other script.  Without orphans everyone is.
Alone ==
    /\ alone => \A r \in Runs : step[r] # Off => r = runs
    /\ alone /\ outcome = "complete" => \A r \in Runs : step[r] = Off
    /\ ~Orphans => alone /\ (pc # "wait" => \A r \in Runs : step[r] = Off)

\* A step of a script that does not end it: the client does not notice, and
\* nothing of another script changes.
Moves(r) ==
    /\ Running(r)
    /\ step' = [step EXCEPT ![r] = step'[r]]
    /\ step'[r] \in {step[r], step[r] + 1}
    /\ UNCHANGED <<keyVars, local, cfg, client, server, job, budget>>
    /\ \A q \in Runs \ {r} : built'[q] = built[q] /\ pub'[q] = pub[q]

\* One that does.
Stops(r) == Running(r) /\ ScriptStops(r)

LEMMA ScriptMovesOrStops ==
    ASSUME TypeOK, NEW r \in Runs, ScriptStep(r) \/ ScriptFails(r)
    PROVE  Moves(r) \/ Stops(r)
<1> USE DEF Off, Install, Preflight, RemoveKey, GenerateKey, ReadPub, WriteWG,
            WriteHook, WritePremount, WriteAuth, WriteDropbear, WriteUmask,
            AddModules, BootEntry, Rebuild, Report
<1>1. step \in [Runs -> Off..Report] /\ built \in [Runs -> SUBSET Kernels]
      /\ pub \in [Runs -> 0..MaxRuns]
    BY DEF TypeOK
<1>2. ASSUME NEW s \in Install..BootEntry, NEW e, Advance(r, s, e), UNCHANGED built,
             \A q \in Runs \ {r} : pub'[q] = pub[q]
      PROVE  Moves(r)
    BY <1>1, <1>2 DEF Advance, Moves, Running
<1>3. CASE InstallPackages(r) \/ PreflightPasses(r) \/ ConfigureBoot(r)
    BY <1>2, <1>3 DEF InstallPackages, PreflightPasses, ConfigureBoot
<1>4. CASE RemoveHostKey(r) \/ GenerateHostKey(r)
    BY <1>2, <1>4 DEF RemoveHostKey, GenerateHostKey
<1>5. CASE ReadHostPub(r)
    BY <1>1, <1>2, <1>5 DEF ReadHostPub
<1>6. CASE WriteFile(r)
  <2>1. \A s \in {WriteWG, WriteHook, WritePremount, WriteAuth,
                  WriteDropbear, WriteUmask} : s \in Install..BootEntry
      OBVIOUS
  <2>2. \E s \in {WriteWG, WriteHook, WritePremount, WriteAuth,
                  WriteDropbear, WriteUmask} : \E e : Advance(r, s, e)
      BY <1>6, Zenon DEF WriteFile
  <2>3. UNCHANGED <<pub, built>>
      BY <1>6 DEF WriteFile
  <2> QED
      BY <1>2, <2>1, <2>2, <2>3
<1>7. CASE RebuildImage(r)
    BY <1>1, <1>7 DEF RebuildImage, Moves, Running, keyVars, local, client, budget
<1>8. CASE PreflightRefuses(r) \/ GenerateRefuses(r) \/ ReadPubFails(r) \/ ScriptFails(r)
    BY <1>8 DEF PreflightRefuses, GenerateRefuses, ReadPubFails, ScriptFails,
                Stops, Running
<1>9. CASE OpenFile(r)
  <2>1. \E s \in {WriteWG, WriteHook, WritePremount, WriteAuth,
                  WriteDropbear, WriteUmask} : \E e : Opened(r, s, e)
      BY <1>9, Zenon DEF OpenFile
  <2> QED
      BY <1>1, <2>1 DEF Opened, Moves, Running, script
<1> QED
    BY <1>3, <1>4, <1>5, <1>6, <1>7, <1>8, <1>9 DEF ScriptStep

\* A run keeps what it has in hand until it ends.
LEMMA InHandKept ==
    ASSUME TypeOK, InHand, [Next]_vars PROVE InHand'
<1> USE DEF InHand, InRun, vars, keyVars, local, client, host, script, budget,
            Keys!Reuse, Keys!Generate, Keys!Abandon, Keys!Release, Keys!Discard,
            Keys!NoSet
<1>0. /\ job \in [Runs -> Rendered] /\ cfg \in Configs /\ runs \in 0..MaxRuns
      /\ spent \in 0..MaxRuns /\ MaxRuns \in Nat
    BY ProvisionAssumption DEF TypeOK
<1>1. CASE Start
    BY <1>0, <1>1 DEF Start, Runs
<1>2. CASE GenerateAll
    BY <1>0, <1>2 DEF GenerateAll
<1>3. CASE Connect
    BY <1>3 DEF Connect
<1>4. CASE Detect
    BY <1>0, <1>4 DEF Detect
<1>5. CASE RunSetupScript
    BY <1>5 DEF RunSetupScript
<1>6. CASE ParseSetupResult
    BY <1>6 DEF ParseSetupResult
<1>7. CASE SavePinnedKey
    BY <1>7 DEF SavePinnedKey
<1>8. CASE SaveConfigCopy
    BY <1>8 DEF SaveConfigCopy
<1>9. CASE WriteClientConf
    BY <1>9 DEF WriteClientConf
<1>10. CASE Finish
    BY <1>10 DEF Finish
<1>11. CASE RunFails
    BY <1>11 DEF RunFails
<1>12. ASSUME NEW r \in Runs, ScriptStep(r) \/ ScriptFails(r) PROVE InHand'
  <2>1. CASE Moves(r)
      BY <2>1 DEF Moves
  <2>2. CASE Stops(r)
      BY <2>2 DEF Stops, ScriptStops
  <2> QED
      BY <1>12, <2>1, <2>2, ScriptMovesOrStops
<1>13. CASE EditConfig \/ OthersRebuild
    BY <1>13 DEF EditConfig, OthersRebuild
<1>14. CASE DeleteOutputDir
    BY <1>14 DEF DeleteOutputDir
<1>15. CASE UNCHANGED vars
    BY <1>15
<1> QED
    BY <1>1, <1>2, <1>3, <1>4, <1>5, <1>6, <1>7, <1>8, <1>9, <1>10, <1>11, <1>12,
       <1>13, <1>14, <1>15 DEF Next, RunStep

\* Only a run in progress that has uploaded it has a script, or its abandoned one.
LEMMA StartedKept ==
    ASSUME TypeOK, InHand, Started, [Next]_vars PROVE Started'
<1> USE DEF Started, InHand, Pre, vars, local, client, host, script, budget,
            Off, Install, Rebuild, Report
<1>0. /\ step \in [Runs -> Off..Report] /\ built \in [Runs -> SUBSET Kernels]
      /\ runs \in 0..MaxRuns /\ MaxRuns \in Nat /\ Runs = 1..MaxRuns
    BY ProvisionAssumption DEF TypeOK, Runs
<1>1. CASE Start
    BY <1>0, <1>1 DEF Start
<1>2. CASE GenerateAll
    BY <1>2 DEF GenerateAll
<1>3. CASE Connect
    BY <1>3 DEF Connect
<1>4. CASE Detect
    BY <1>4 DEF Detect
<1>5. CASE RunSetupScript
    BY <1>0, <1>5 DEF RunSetupScript
<1>6. CASE ParseSetupResult
    BY <1>0, <1>6 DEF ParseSetupResult
<1>7. CASE SavePinnedKey
    BY <1>7 DEF SavePinnedKey
<1>8. CASE SaveConfigCopy
    BY <1>8 DEF SaveConfigCopy
<1>9. CASE WriteClientConf
    BY <1>9 DEF WriteClientConf
<1>10. CASE Finish
    BY <1>10 DEF Finish
<1>11. CASE RunFails
    BY <1>0, <1>11 DEF RunFails
<1>12. ASSUME NEW r \in Runs, ScriptStep(r) \/ ScriptFails(r) PROVE Started'
  <2>1. CASE Moves(r)
      BY <1>0, <2>1 DEF Moves, Running
  <2>2. CASE Stops(r)
      BY <1>0, <2>2 DEF Stops, ScriptStops, Running
  <2> QED
      BY <1>12, <2>1, <2>2, ScriptMovesOrStops
<1>13. CASE EditConfig \/ OthersRebuild
    BY <1>13 DEF EditConfig, OthersRebuild
<1>14. CASE DeleteOutputDir
    BY <1>14 DEF DeleteOutputDir
<1>15. CASE UNCHANGED vars
    BY <1>15
<1> QED
    BY <1>1, <1>2, <1>3, <1>4, <1>5, <1>6, <1>7, <1>8, <1>9, <1>10, <1>11, <1>12,
       <1>13, <1>14, <1>15 DEF Next, RunStep

\* Who started alone stays so: scripts are only started by the run in progress.
LEMMA AloneKept ==
    ASSUME TypeOK, InHand, Started, Alone, [Next]_vars PROVE Alone'
<1> USE DEF Started, Alone, InHand, Pre, vars, local, client, host, script, budget,
            Off, Install, Rebuild, Report
<1>0. /\ step \in [Runs -> Off..Report]
      /\ runs \in 0..MaxRuns /\ MaxRuns \in Nat /\ Runs = 1..MaxRuns
    BY ProvisionAssumption DEF TypeOK, Runs
<1>1. CASE Start
    BY <1>0, <1>1 DEF Start
<1>2. CASE GenerateAll
    BY <1>2 DEF GenerateAll
<1>3. CASE Connect
    BY <1>3 DEF Connect
<1>4. CASE Detect
    BY <1>4 DEF Detect
<1>5. CASE RunSetupScript
    BY <1>0, <1>5 DEF RunSetupScript
<1>6. CASE ParseSetupResult
    BY <1>0, <1>6 DEF ParseSetupResult
<1>7. CASE SavePinnedKey
    BY <1>7 DEF SavePinnedKey
<1>8. CASE SaveConfigCopy
    BY <1>8 DEF SaveConfigCopy
<1>9. CASE WriteClientConf
    BY <1>9 DEF WriteClientConf
<1>10. CASE Finish
    BY <1>10 DEF Finish
<1>11. CASE RunFails
    BY <1>0, <1>11 DEF RunFails
<1>12. ASSUME NEW r \in Runs, ScriptStep(r) \/ ScriptFails(r) PROVE Alone'
  <2>1. CASE Moves(r)
      BY <1>0, <2>1 DEF Moves, Running
  <2>2. CASE Stops(r)
      BY <1>0, <2>2 DEF Stops, ScriptStops, Running
  <2> QED
      BY <1>12, <2>1, <2>2, ScriptMovesOrStops
<1>13. CASE EditConfig \/ OthersRebuild
    BY <1>13 DEF EditConfig, OthersRebuild
<1>14. CASE DeleteOutputDir
    BY <1>14 DEF DeleteOutputDir
<1>15. CASE UNCHANGED vars
    BY <1>15
<1> QED
    BY <1>1, <1>2, <1>3, <1>4, <1>5, <1>6, <1>7, <1>8, <1>9, <1>10, <1>11, <1>12,
       <1>13, <1>14, <1>15 DEF Next, RunStep

\* No step brings a run to where it could generate another host key...
LEMMA AheadShrinks ==
    ASSUME TypeOK, Started, [Next]_vars PROVE Ahead' \subseteq Ahead
<1> USE DEF Ahead, Started, Pre, vars, local, client, host, script, budget,
            Off, Install, GenerateKey, Rebuild, Report
<1>0. /\ step \in [Runs -> Off..Report]
      /\ runs \in 0..MaxRuns /\ MaxRuns \in Nat /\ Runs = 1..MaxRuns
    BY ProvisionAssumption DEF TypeOK, Runs
<1>1. CASE Start
    BY <1>0, <1>1 DEF Start
<1>2. CASE GenerateAll
    BY <1>2 DEF GenerateAll
<1>3. CASE Connect
    BY <1>3 DEF Connect
<1>4. CASE Detect
    BY <1>4 DEF Detect
<1>5. CASE RunSetupScript
    BY <1>0, <1>5 DEF RunSetupScript
<1>6. CASE ParseSetupResult
    BY <1>0, <1>6 DEF ParseSetupResult
<1>7. CASE SavePinnedKey \/ SaveConfigCopy \/ WriteClientConf \/ Finish
    BY <1>7 DEF SavePinnedKey, SaveConfigCopy, WriteClientConf, Finish
<1>8. CASE RunFails
    BY <1>0, <1>8 DEF RunFails
<1>9. ASSUME NEW r \in Runs, ScriptStep(r) \/ ScriptFails(r) PROVE Ahead' \subseteq Ahead
  <2>1. CASE Moves(r)
      BY <1>0, <2>1 DEF Moves, Running
  <2>2. CASE Stops(r)
      BY <1>0, <2>2 DEF Stops, ScriptStops, Running
  <2> QED
      BY <1>9, <2>1, <2>2, ScriptMovesOrStops
<1>10. CASE EditConfig \/ OthersRebuild \/ DeleteOutputDir \/ UNCHANGED vars
    BY <1>10 DEF EditConfig, OthersRebuild, DeleteOutputDir
<1> QED
    BY <1>1, <1>2, <1>3, <1>4, <1>5, <1>6, <1>7, <1>8, <1>9, <1>10 DEF Next, RunStep

\* ... and the step that generates one ends that for its run.
LEMMA HostKeysSpentKept ==
    ASSUME TypeOK, Started, HostKeysSpent, [Next]_vars PROVE HostKeysSpent'
<1> USE DEF HostKeysSpent
<1>1. Ahead' \subseteq Ahead
    BY AheadShrinks
<1>2. /\ IsFiniteSet(Ahead) /\ Cardinality(Ahead) \in Nat
      /\ hostKeys \in Nat /\ MaxRuns \in Nat
    BY AheadFinite, ProvisionAssumption DEF TypeOK
<1>3. /\ IsFiniteSet(Ahead') /\ Cardinality(Ahead') \in Nat
      /\ Cardinality(Ahead') <= Cardinality(Ahead)
    BY <1>1, <1>2, FS_Subset, FS_CardinalityType
<1>4. CASE hostKeys' = hostKeys
    BY <1>2, <1>3, <1>4
<1>5. ASSUME NEW r \in Runs, GenerateHostKey(r) PROVE HostKeysSpent'
  <2> USE DEF Ahead, Off, Install, GenerateKey
  <2>1. step[r] = GenerateKey /\ step' = [step EXCEPT ![r] = GenerateKey + 1]
        /\ UNCHANGED <<pc, runs>> /\ hostKeys' = hostKeys + 1
      BY <1>5 DEF GenerateHostKey, Advance, client
  <2>2. r \in Ahead
      BY <2>1
  <2>3. r \notin Ahead'
    <3>1. step'[r] = GenerateKey + 1
        BY <2>1 DEF TypeOK
    <3>2. r <= runs /\ (r = runs => pc \in {"wait", "idle"})
        BY <2>1 DEF Started
    <3>3. runs \in Nat /\ r \in Nat
        BY ProvisionAssumption DEF TypeOK, Runs
    <3> QED
        BY <2>1, <3>1, <3>2, <3>3 DEF Pre
  <2>4. Cardinality(Ahead') <= Cardinality(Ahead \ {r})
      BY <1>1, <1>2, <2>3, FS_Subset, FS_RemoveElement
  <2>5. Cardinality(Ahead \ {r}) = Cardinality(Ahead) - 1
      BY <1>2, <2>2, FS_RemoveElement
  <2> QED
      BY <1>2, <1>3, <2>1, <2>4, <2>5
<1>6. ASSUME NEW r \in Runs, ScriptStep(r) \/ ScriptFails(r), ~GenerateHostKey(r)
      PROVE  hostKeys' = hostKeys
  <2> USE DEF host
  <2>1. CASE InstallPackages(r) \/ PreflightPasses(r) \/ RemoveHostKey(r) \/ ReadHostPub(r)
      BY <2>1 DEF InstallPackages, PreflightPasses, RemoveHostKey, ReadHostPub
  <2>2. CASE OpenFile(r) \/ WriteFile(r) \/ ConfigureBoot(r) \/ RebuildImage(r)
      BY <2>2 DEF OpenFile, Opened, WriteFile, ConfigureBoot, RebuildImage
  <2>3. CASE PreflightRefuses(r) \/ GenerateRefuses(r) \/ ReadPubFails(r) \/ ScriptFails(r)
      BY <2>3 DEF PreflightRefuses, GenerateRefuses, ReadPubFails, ScriptFails, ScriptStops
  <2> QED
      BY <1>6, <2>1, <2>2, <2>3 DEF ScriptStep
<1>7. CASE Start \/ RunStep \/ RunFails
    BY <1>4, <1>7 DEF Start, RunStep, RunFails, GenerateAll, Connect, Detect,
        RunSetupScript, ParseSetupResult, SavePinnedKey, SaveConfigCopy,
        WriteClientConf, Finish, host
<1>8. CASE EditConfig \/ OthersRebuild \/ DeleteOutputDir \/ UNCHANGED vars
    BY <1>4, <1>8 DEF EditConfig, OthersRebuild, DeleteOutputDir, vars, host
<1> QED
    BY <1>4, <1>5, <1>6, <1>7, <1>8 DEF Next

\* What every other invariant rests on: what a step's run and script stand at.
Course == TypeOK /\ HostKeysSpent /\ InHand /\ Started /\ Alone

LEMMA CourseStarts == Init => Course
<1> SUFFICES ASSUME Init PROVE Course
    OBVIOUS
<1>1. TypeOK
    BY InitTyped
<1>2. InHand /\ Started /\ Alone
    BY DEF Init, InHand, Started, Alone, InRun, Keys!AtomicInit, Keys!NoSet
<1>3. HostKeysSpent
  <2>1. Ahead \subseteq Runs
      BY DEF Ahead
  <2>2. IsFiniteSet(Runs) /\ Cardinality(Runs) = MaxRuns
      BY ProvisionAssumption, FS_Interval DEF Runs
  <2>3. Cardinality(Ahead) <= MaxRuns /\ Cardinality(Ahead) \in Nat
      BY <2>1, <2>2, FS_Subset, FS_CardinalityType
  <2> QED
      BY <2>3, ProvisionAssumption DEF Init, HostKeysSpent
<1> QED
    BY <1>1, <1>2, <1>3 DEF Course

LEMMA CourseKept == Course /\ [Next]_vars => Course'
<1> SUFFICES ASSUME Course, [Next]_vars PROVE Course'
    OBVIOUS
<1>1. HostKeysSpent' /\ InHand' /\ Started' /\ Alone'
    BY HostKeysSpentKept, InHandKept, StartedKept, AloneKept DEF Course
<1>2. CASE Start \/ RunStep \/ RunFails
  <2>1. pc = "idle" \/ runs \in Runs
      BY DEF Course, InHand
  <2> QED
      BY <1>1, <1>2, <2>1, ClientTyped DEF Course
<1>3. CASE \E r \in Runs : ScriptStep(r) \/ ScriptFails(r)
    BY <1>1, <1>3, ScriptTyped DEF Course
<1>4. CASE EditConfig \/ DeleteOutputDir \/ OthersRebuild
    BY <1>1, <1>4, OthersTyped DEF Course
<1>5. CASE UNCHANGED vars
    BY <1>1, <1>5 DEF Course, TypeOK, vars, keyVars, local, client, host, script, budget
<1> QED
    BY <1>2, <1>3, <1>4, <1>5 DEF Next

\* Every variable keeps its type; in particular no run generates host keys beyond
\* one each, whatever earlier scripts are still going (templates.go:437).
THEOREM TypeCorrect == Spec => []TypeOK
<1>1. Course => TypeOK
    BY DEF Course
<1> QED
    BY <1>1, CourseStarts, CourseKept, PTL DEF Spec

-----------------------------------------------------------------------------
(* The keys on the server. *)

\* As long as the output directory was not deleted there is one set of keys, and
\* whatever was made of keys was made of it.
OneKeySet ==
    ~discarded =>
      /\ etc.auth \in {0, store} /\ etc.wg.key \in {0, store}
      /\ \A r \in Runs : job[r].key \in {0, store}
      /\ \A k \in Kernels : image[k].auth \in {0, store} /\ image[k].wg.key \in {0, store}

LEMMA OneKeySetKept ==
    ASSUME Course, OneKeySet, [Next]_vars PROVE OneKeySet'
<1> USE DEF OneKeySet, keyVars, local, client, host, script, budget
<1>0. /\ etc \in EtcFiles /\ image \in [Kernels -> Images] /\ job \in [Runs -> Rendered]
    BY DEF Course, TypeOK
<1>1. CASE Start \/ Connect \/ RunSetupScript \/ ParseSetupResult \/ SavePinnedKey
           \/ SaveConfigCopy \/ WriteClientConf \/ EditConfig \/ UNCHANGED vars
    BY <1>1 DEF Start, Connect, RunSetupScript, ParseSetupResult, SavePinnedKey,
                SaveConfigCopy, WriteClientConf, EditConfig, vars
<1>2. CASE GenerateAll
    BY <1>2 DEF GenerateAll, Keys!Reuse, Keys!Generate, Keys!NoSet
<1>3. CASE Detect
  <2>1. answer = store
      BY <1>3 DEF Detect, Course, InHand, InRun
  <2> QED
      BY <1>0, <1>3, <2>1 DEF Detect
<1>4. CASE Finish \/ RunFails
    BY <1>4 DEF Finish, RunFails, Keys!Release, Keys!Abandon
<1>5. CASE DeleteOutputDir
    BY <1>5 DEF DeleteOutputDir
<1>6. CASE OthersRebuild
    BY <1>0, <1>6 DEF OthersRebuild, BuiltFrom, NoFile
<1>7. ASSUME NEW r \in Runs, ScriptStep(r) \/ ScriptFails(r) PROVE OneKeySet'
  <2>1. CASE InstallPackages(r) \/ PreflightPasses(r) \/ ReadHostPub(r) \/ ConfigureBoot(r)
      BY <2>1 DEF InstallPackages, PreflightPasses, ReadHostPub, ConfigureBoot, Advance
  <2>2. CASE PreflightRefuses(r) \/ GenerateRefuses(r) \/ ReadPubFails(r) \/ ScriptFails(r)
    <3>1. ScriptStops(r)
        BY <2>2 DEF PreflightRefuses, GenerateRefuses, ReadPubFails, ScriptFails
    <3> QED
        BY <3>1 DEF ScriptStops, Keys!Release
  <2>3. CASE RemoveHostKey(r) \/ GenerateHostKey(r)
      BY <1>0, <2>3 DEF RemoveHostKey, GenerateHostKey, Advance, EtcFiles
  <2>4. CASE WriteFile(r)
      BY <1>0, <2>4 DEF WriteFile, Advance, EtcFiles
  <2>5. CASE RebuildImage(r)
      BY <1>0, <2>5 DEF RebuildImage, BuiltFrom, NoFile
  <2>6. CASE OpenFile(r)
      BY <1>0, <2>6 DEF OpenFile, Opened, EtcFiles, NoFile
  <2> QED
      BY <1>7, <2>1, <2>2, <2>3, <2>4, <2>5, <2>6 DEF ScriptStep
<1> QED
    BY <1>1, <1>2, <1>3, <1>4, <1>5, <1>6, <1>7 DEF Next, RunStep

\* As long as the output directory is not deleted, no re-run ever replaces the
\* keys a server was given (keygen.go:29).
THEOREM RerunsKeepDeployedKeys == Spec => []RerunKeepsDeployedKeys
<1> DEFINE I == Course /\ OneKeySet
<1>1. Init => I
    BY CourseStarts
    DEF Init, OneKeySet, NoEtc, NoFile, BuiltFrom
<1>2. I /\ [Next]_vars => I'
    BY CourseKept, OneKeySetKept
<1>3. I => RerunKeepsDeployedKeys
    BY DEF OneKeySet, RerunKeepsDeployedKeys
<1> QED
    BY <1>1, <1>2, <1>3, PTL DEF Spec

-----------------------------------------------------------------------------
(* A script that is alone, and what it leaves. *)

\* What the script of run r has done when it stands at step s and no other script
\* came in between.
Written(r, s) ==
    /\ s > RemoveKey /\ s <= GenerateKey => etc.host = 0
    /\ s > GenerateKey => etc.host # 0
    /\ s > ReadPub => pub[r] = etc.host
    /\ s > WriteWG => etc.wg = job[r]
    /\ s > WriteHook => etc.hook
    /\ s > WritePremount => etc.premount = job[r].cfg
    /\ s > WriteAuth => etc.auth = job[r].key
    /\ s > WriteDropbear => etc.db = job[r].cfg
    /\ s > WriteUmask => etc.umask
    /\ s < Rebuild => built[r] = {}
    /\ \A k \in built[r] : image[k] = BuiltFrom(etc)
    /\ s = Report => built[r] = Kernels

ScriptAlone ==
    alone => \A r \in Runs : step[r] # Off => Written(r, step[r])

\* From the moment a run that is alone learns that its script is done.
Deployed ==
    alone /\ (pc \in Deploying \/ outcome = "complete") =>
      /\ runs \in Runs /\ Written(runs, Report)
      /\ job[runs] = [key |-> store, cfg |-> runCfg] /\ store # 0
      /\ pc # "pin" => pin = pub[runs]
      /\ pc \notin {"pin", "save"} /\ ~warned => saved = runCfg
      /\ pc \in {"readme", "idle"} => conf = job[runs]

\* A step of the script does what comes next.
LEMMA WrittenOn ==
    ASSUME TypeOK, NEW r \in Runs, ScriptStep(r) \/ ScriptFails(r), Written(r, step[r])
    PROVE  Stops(r) \/ Written(r, step[r])'
<1> USE DEF Written, Off, Install, Preflight, RemoveKey, GenerateKey, ReadPub, WriteWG,
            WriteHook, WritePremount, WriteAuth, WriteDropbear, WriteUmask,
            AddModules, BootEntry, Rebuild, Report, host
<1>0. /\ etc \in EtcFiles /\ image \in [Kernels -> Images]
      /\ step \in [Runs -> Off..Report] /\ built \in [Runs -> SUBSET Kernels]
      /\ pub \in [Runs -> 0..MaxRuns] /\ hostKeys \in Nat
    BY ProvisionAssumption DEF TypeOK
<1>1. CASE InstallPackages(r)
    BY <1>0, <1>1 DEF InstallPackages, Advance
<1>2. CASE PreflightPasses(r)
    BY <1>0, <1>2 DEF PreflightPasses, Advance
<1>3. CASE RemoveHostKey(r)
    BY <1>0, <1>3 DEF RemoveHostKey, Advance, EtcFiles
<1>4. CASE GenerateHostKey(r)
    BY <1>0, <1>4 DEF GenerateHostKey, Advance, EtcFiles
<1>5. CASE ReadHostPub(r)
    BY <1>0, <1>5 DEF ReadHostPub, Advance
<1>6. CASE WriteFile(r)
  <2>1. CASE Advance(r, WriteWG, [etc EXCEPT !.wg = job[r]])
      BY <1>0, <1>6, <2>1 DEF WriteFile, Advance, EtcFiles
  <2>2. CASE Advance(r, WriteHook, [etc EXCEPT !.hook = TRUE])
      BY <1>0, <1>6, <2>2 DEF WriteFile, Advance, EtcFiles
  <2>3. CASE Advance(r, WritePremount, [etc EXCEPT !.premount = job[r].cfg])
      BY <1>0, <1>6, <2>3 DEF WriteFile, Advance, EtcFiles
  <2>4. CASE Advance(r, WriteAuth, [etc EXCEPT !.auth = job[r].key])
      BY <1>0, <1>6, <2>4 DEF WriteFile, Advance, EtcFiles
  <2>5. CASE Advance(r, WriteDropbear, [etc EXCEPT !.db = job[r].cfg])
      BY <1>0, <1>6, <2>5 DEF WriteFile, Advance, EtcFiles
  <2>6. CASE Advance(r, WriteUmask, [etc EXCEPT !.umask = TRUE])
      BY <1>0, <1>6, <2>6 DEF WriteFile, Advance, EtcFiles
  <2> QED
      BY <1>6, <2>1, <2>2, <2>3, <2>4, <2>5, <2>6 DEF WriteFile
<1>7. CASE ConfigureBoot(r)
    BY <1>0, <1>7 DEF ConfigureBoot, Advance
<1>8. CASE RebuildImage(r)
    BY <1>0, <1>8 DEF RebuildImage
<1>9. CASE PreflightRefuses(r) \/ GenerateRefuses(r) \/ ReadPubFails(r) \/ ScriptFails(r)
    BY <1>9 DEF PreflightRefuses, GenerateRefuses, ReadPubFails, ScriptFails, Running, Stops
<1>10. CASE OpenFile(r)
  <2>1. CASE Opened(r, WriteWG, [etc EXCEPT !.wg = NoFile])
      BY <1>0, <2>1 DEF Opened, EtcFiles, script
  <2>2. CASE Opened(r, WriteHook, [etc EXCEPT !.hook = FALSE])
      BY <1>0, <2>2 DEF Opened, EtcFiles, script
  <2>3. CASE Opened(r, WritePremount, [etc EXCEPT !.premount = NoCfg])
      BY <1>0, <2>3 DEF Opened, EtcFiles, script
  <2>4. CASE Opened(r, WriteAuth, [etc EXCEPT !.auth = 0])
      BY <1>0, <2>4 DEF Opened, EtcFiles, script
  <2>5. CASE Opened(r, WriteDropbear, [etc EXCEPT !.db = NoCfg])
      BY <1>0, <2>5 DEF Opened, EtcFiles, script
  <2>6. CASE Opened(r, WriteUmask, [etc EXCEPT !.umask = FALSE])
      BY <1>0, <2>6 DEF Opened, EtcFiles, script
  <2> QED
      BY <1>10, <2>1, <2>2, <2>3, <2>4, <2>5, <2>6 DEF OpenFile
<1> QED
    BY <1>1, <1>2, <1>3, <1>4, <1>5, <1>6, <1>7, <1>8, <1>9, <1>10 DEF ScriptStep

\* What a script has written stays when nothing it is made of changes, and when
\* somebody else rebuilds an image from the same files.
LEMMA WrittenStays ==
    ASSUME TypeOK, NEW r \in Runs, NEW s, Written(r, s),
           UNCHANGED <<etc, built, pub>>, job'[r] = job[r],
           UNCHANGED image \/ OthersRebuild
    PROVE  Written(r, s)'
<1>1. \A k \in built[r] : image[k] = BuiltFrom(etc) => image'[k] = BuiltFrom(etc)
    BY DEF TypeOK, OthersRebuild
<1> QED
    BY <1>1 DEF Written, BuiltFrom

LEMMA ScriptAloneKept ==
    ASSUME Course, ScriptAlone, [Next]_vars PROVE ScriptAlone'
<1> USE DEF ScriptAlone, keyVars, local, client, host, script, budget
<1>0. /\ step \in [Runs -> Off..Report] /\ job \in [Runs -> Rendered]
      /\ TypeOK /\ (pc # "idle" => runs \in Runs)
    BY DEF Course, TypeOK, InHand
<1>1. CASE Start
    BY <1>1 DEF Start
<1>2. CASE GenerateAll \/ Connect \/ SavePinnedKey \/ SaveConfigCopy
           \/ WriteClientConf \/ Finish \/ EditConfig \/ DeleteOutputDir
           \/ OthersRebuild \/ UNCHANGED vars
  <2>1. /\ UNCHANGED <<etc, built, pub, job, step, alone>>
        /\ UNCHANGED image \/ OthersRebuild
      BY <1>2 DEF GenerateAll, Connect, SavePinnedKey, SaveConfigCopy, WriteClientConf,
                  Finish, EditConfig, DeleteOutputDir, OthersRebuild, vars
  <2> QED
      BY <1>0, <2>1, WrittenStays
<1>3. CASE Detect
  <2>1. step[runs] = Off
      BY <1>0, <1>3 DEF Detect, Course, Started
  <2>2. \A r \in Runs : step[r] # Off => job'[r] = job[r]
      BY <1>0, <1>3, <2>1 DEF Detect
  <2> QED
      BY <1>0, <1>3, <2>2, WrittenStays DEF Detect
<1>4. CASE RunSetupScript
  <2>1. built[runs] = {}
      BY <1>0, <1>4 DEF RunSetupScript, Course, Started, Pre
  <2>2. Written(runs, Install)'
      BY <1>4, <2>1 DEF RunSetupScript, Written, Install, RemoveKey, GenerateKey,
          ReadPub, WriteWG, WriteHook, WritePremount, WriteAuth, WriteDropbear,
          WriteUmask, Rebuild, Report
  <2>3. step' = [step EXCEPT ![runs] = Install] /\ runs \in Runs
      BY <1>0, <1>4 DEF RunSetupScript
  <2>4. \A r \in Runs : r # runs /\ Written(r, step[r]) => Written(r, step[r])'
    <3>1. \A r \in Runs : r # runs => step'[r] = step[r]
        BY <1>0, <2>3
    <3> QED
        BY <1>0, <1>4, <3>1, WrittenStays DEF RunSetupScript
  <2> QED
      BY <1>0, <1>4, <2>2, <2>3, <2>4 DEF RunSetupScript
<1>5. CASE ParseSetupResult \/ RunFails
  <2>1. /\ UNCHANGED <<etc, built, pub, job, image, alone>>
        /\ step' = [step EXCEPT ![runs] = Off] \/ step' = step
      BY <1>5 DEF ParseSetupResult, RunFails
  <2>2. \A r \in Runs : step'[r] # Off => step'[r] = step[r]
      BY <1>0, <2>1
  <2> QED
      BY <1>0, <2>1, <2>2, WrittenStays
<1>6. ASSUME NEW r \in Runs, ScriptStep(r) \/ ScriptFails(r) PROVE ScriptAlone'
  <2>1. CASE Stops(r)
    <3>1. UNCHANGED <<etc, built, pub, job, image, alone>> /\ step' = [step EXCEPT ![r] = Off]
        BY <2>1 DEF Stops, ScriptStops
    <3>2. \A q \in Runs : step'[q] # Off => step'[q] = step[q]
        BY <1>0, <3>1
    <3> QED
        BY <1>0, <3>1, <3>2, WrittenStays
  <2>2. CASE Moves(r) /\ ~Stops(r)
    <3>1. step[r] # Off /\ UNCHANGED alone
          /\ step' = [step EXCEPT ![r] = step'[r]]
        BY <2>2 DEF Moves, Running, Off, Install, Rebuild
    <3>2. alone => \A q \in Runs \ {r} : step'[q] = Off
        BY <1>0, <3>1 DEF Course, Alone
    <3>3. alone => Written(r, step[r])'
        BY <1>0, <1>6, <2>2, <3>1, WrittenOn
    <3> QED
        BY <3>1, <3>2, <3>3
  <2> QED
      BY <1>0, <1>6, <2>1, <2>2, ScriptMovesOrStops
<1> QED
    BY <1>1, <1>2, <1>3, <1>4, <1>5, <1>6 DEF Next, RunStep

\* Once it has deployed, no script is left to disturb it.
LEMMA ScriptsOver ==
    ASSUME Course, alone, pc \in Deploying \/ outcome = "complete"
    PROVE  \A r \in Runs : step[r] = Off
    BY DEF Course, Alone, Started, Deploying

LEMMA DeployedKept ==
    ASSUME Course, ScriptAlone, Deployed, [Next]_vars PROVE Deployed'
<1> USE DEF Deployed, Deploying, keyVars, local, client, host, script, budget
<1>0. /\ step \in [Runs -> Off..Report] /\ job \in [Runs -> Rendered] /\ TypeOK
      /\ (pc # "idle" <=> outcome = "running")
      /\ (pc # "idle" => runs \in Runs)
      /\ (pc \in InRun => answer = store /\ store # 0)
    BY DEF Course, TypeOK, InHand
<1>1. CASE Start \/ GenerateAll \/ Connect \/ Detect \/ RunSetupScript
    BY <1>0, <1>1 DEF Start, GenerateAll, Connect, Detect, RunSetupScript
<1>2. CASE ParseSetupResult
  <2>1. alone => Written(runs, Report)
      BY <1>0, <1>2 DEF ParseSetupResult, ScriptAlone, Report, Off
  <2>2. alone => Written(runs, Report)'
      BY <1>0, <1>2, <2>1 DEF ParseSetupResult, Written, BuiltFrom
  <2>3. job[runs] = [key |-> store, cfg |-> runCfg] /\ store # 0
      BY <1>2 DEF ParseSetupResult, Course, InHand, InRun
  <2> QED
      BY <1>0, <1>2, <2>2, <2>3 DEF ParseSetupResult
<1>3. CASE SavePinnedKey
  <2>1. alone => Written(runs, Report)'
      BY <1>0, <1>3 DEF SavePinnedKey, Written, BuiltFrom
  <2> QED
      BY <1>0, <1>3, <2>1 DEF SavePinnedKey
<1>4. CASE SaveConfigCopy
  <2>1. alone => Written(runs, Report)'
      BY <1>0, <1>4 DEF SaveConfigCopy, Written, BuiltFrom
  <2> QED
      BY <1>0, <1>4, <2>1 DEF SaveConfigCopy
<1>5. CASE WriteClientConf
  <2>1. alone => Written(runs, Report)'
      BY <1>0, <1>5 DEF WriteClientConf, Written, BuiltFrom
  <2> QED
      BY <1>0, <1>5, <2>1 DEF WriteClientConf, InRun
<1>6. CASE Finish
  <2>1. alone => Written(runs, Report)'
      BY <1>0, <1>6 DEF Finish, Written, BuiltFrom
  <2> QED
      BY <1>0, <1>6, <2>1 DEF Finish, Keys!Release
<1>7. CASE RunFails \/ DeleteOutputDir
    BY <1>0, <1>7 DEF RunFails, DeleteOutputDir
<1>8. ASSUME NEW r \in Runs, ScriptStep(r) \/ ScriptFails(r) PROVE Deployed'
  <2>1. CASE Moves(r)
    <3>1. step[r] # Off /\ UNCHANGED client
        BY <2>1 DEF Moves, Running, Off, Install, Rebuild
    <3> QED
        BY <3>1, ScriptsOver
  <2>2. CASE Stops(r)
    <3>1. step[r] # Off /\ UNCHANGED alone
        BY <2>2 DEF Stops, Running, ScriptStops, Off, Install, Rebuild
    <3>2. UNCHANGED <<pc, outcome>> \/ (pc' = "idle" /\ outcome' = "failed")
        BY <2>2 DEF Stops, ScriptStops
    <3> QED
        BY <3>1, <3>2, ScriptsOver
  <2> QED
      BY <1>0, <1>8, <2>1, <2>2, ScriptMovesOrStops
<1>9. CASE EditConfig \/ OthersRebuild \/ UNCHANGED vars
  <2>1. /\ UNCHANGED <<keyVars, local, client, etc, pub, built, job>>
        /\ UNCHANGED image \/ OthersRebuild
      BY <1>9 DEF EditConfig, OthersRebuild, vars
  <2>2. runs \in Runs /\ Written(runs, Report) => Written(runs, Report)'
    <3> SUFFICES ASSUME runs \in Runs, Written(runs, Report) PROVE Written(runs, Report)'
        OBVIOUS
    <3>1. \A k \in built[runs] : image[k] = BuiltFrom(etc) => image'[k] = BuiltFrom(etc)
        BY <1>0, <2>1 DEF TypeOK, OthersRebuild
    <3> QED
        BY <2>1, <3>1 DEF Written, BuiltFrom
  <2> QED
      BY <2>1, <2>2
<1> QED
    BY <1>1, <1>2, <1>3, <1>4, <1>5, <1>6, <1>7, <1>8, <1>9 DEF Next, RunStep

-----------------------------------------------------------------------------
(* What runs that nothing overlaps are held to. *)

AllDeployed == Course /\ ScriptAlone /\ Deployed

LEMMA AllDeployedHolds == Spec => []AllDeployed
<1>1. Init => AllDeployed
    BY CourseStarts DEF Init, AllDeployed, ScriptAlone, Deployed, Deploying
<1>2. AllDeployed /\ [Next]_vars => AllDeployed'
    BY CourseKept, ScriptAloneKept, DeployedKept DEF AllDeployed
<1> QED
    BY <1>1, <1>2, PTL DEF Spec

\* What a finished script has put into every image.
LEMMA ImagesHold ==
    ASSUME AllDeployed, alone, pc \in Deploying \/ outcome = "complete",
           NEW im, im = BuiltFrom(etc) \/ \E k \in Kernels : im = image[k]
    PROVE  /\ im.wg = [key |-> store, cfg |-> runCfg]
           /\ im.premount = runCfg /\ im.db = runCfg
           /\ im.host = pub[runs] /\ im.auth = store
           /\ pub[runs] # 0 /\ store # 0 /\ im.private
<1>1. /\ Written(runs, Report) /\ store # 0
      /\ job[runs] = [key |-> store, cfg |-> runCfg]
    BY DEF AllDeployed, Deployed
<1>2. im = BuiltFrom(etc)
    BY <1>1 DEF Written
<1>3. /\ etc.host # 0 /\ pub[runs] = etc.host
      /\ etc.wg = job[runs] /\ etc.hook
      /\ etc.premount = job[runs].cfg /\ etc.auth = job[runs].key
      /\ etc.db = job[runs].cfg /\ etc.umask
    BY <1>1 DEF Written, RemoveKey, GenerateKey, ReadPub, WriteWG, WriteHook,
                WritePremount, WriteAuth, WriteDropbear, WriteUmask, Rebuild, Report
<1> QED
    BY <1>1, <1>2, <1>3 DEF BuiltFrom

\* After "configuration complete!" (and no warning) every kernel can be unlocked,
\* and so can every image a package rebuilds later, until another run is started
\* (main.go:240).
THEOREM CompleteAlwaysMeansUnlockable == Spec => []CompleteMeansUnlockable
<1>1. AllDeployed => CompleteMeansUnlockable
  <2> SUFFICES ASSUME AllDeployed, outcome = "complete", ~warned, alone,
                      NEW im, im = BuiltFrom(etc) \/ \E k \in Kernels : im = image[k]
               PROVE  Opens(im)
      BY DEF CompleteMeansUnlockable
  <2>1. pc = "idle"
      BY DEF AllDeployed, Course, InHand
  <2>2. /\ pin = pub[runs] /\ saved = runCfg
        /\ conf = [key |-> store, cfg |-> runCfg]
      BY <2>1 DEF AllDeployed, Deployed
  <2>3. /\ im.wg = [key |-> store, cfg |-> runCfg]
        /\ im.premount = runCfg /\ im.db = runCfg
        /\ im.host = pub[runs] /\ im.auth = store
        /\ pub[runs] # 0 /\ store # 0
      BY ImagesHold
  <2> QED
      BY <2>2, <2>3 DEF Opens, StatusReady, NoFile
<1> QED
    BY <1>1, AllDeployedHolds, PTL

\* The images a complete run leaves, and those packages rebuild until another
\* run is started, are built under UMASK=0077 (templates.go:118), if no earlier
\* script overlaps the run.
THEOREM CompleteAlwaysMeansPrivate == Spec => []CompleteMeansPrivate
<1>1. AllDeployed => CompleteMeansPrivate
    BY ImagesHold DEF CompleteMeansPrivate
<1> QED
    BY <1>1, AllDeployedHolds, PTL

\* A host key is pinned only when every image holds it, by a run that no earlier
\* script overlaps (README.md:55).
THEOREM PinAlwaysInEveryImage == Spec => PinIsInEveryImage
<1> DEFINE A == (pin' # pin /\ pin' # 0 /\ alone) => \A k \in Kernels : image[k].host = pin'
<1>1. AllDeployed /\ [Next]_vars => [A]_vars
  <2> SUFFICES ASSUME AllDeployed, Next, pin' # pin, pin' # 0, alone, NEW k \in Kernels
               PROVE  image[k].host = pin'
      BY DEF vars, local
  <2>1. SavePinnedKey
    <3> USE DEF local
    <3>1. ~(Start \/ GenerateAll \/ Connect \/ Detect \/ RunSetupScript
             \/ ParseSetupResult \/ SaveConfigCopy \/ WriteClientConf \/ Finish \/ RunFails)
        BY DEF Start, GenerateAll, Connect, Detect, RunSetupScript, ParseSetupResult,
               SaveConfigCopy, WriteClientConf, Finish, RunFails
    <3>2. ~(EditConfig \/ DeleteOutputDir \/ OthersRebuild)
        BY DEF EditConfig, DeleteOutputDir, OthersRebuild
    <3>3. ASSUME NEW r \in Runs PROVE ~(ScriptStep(r) \/ ScriptFails(r))
      <4>1. Moves(r) => pin' = pin
          BY DEF Moves
      <4>2. Stops(r) => pin' = pin
          BY DEF Stops, ScriptStops
      <4> QED
          BY <4>1, <4>2, ScriptMovesOrStops DEF AllDeployed, Course
    <3> QED
        BY <3>1, <3>2, <3>3 DEF Next, RunStep
  <2>2. pin' = pub[runs] /\ pc \in Deploying
      BY <2>1 DEF SavePinnedKey, Deploying
  <2> QED
      BY <2>2, ImagesHold
<1> QED
    BY <1>1, AllDeployedHolds, PTL DEF Spec, PinIsInEveryImage

\* An operator who could unlock a kernel loses that only when its image is
\* replaced or the output directory deleted, and not by a re-run that fails at
\* any point (cmdRun's order, main.go:207): what a run writes locally after its
\* script is what the images of that script already hold.
THEOREM OnlyANewImageEverLocksOut == Spec => OnlyANewImageLocksOut
<1> DEFINE A == \A k \in Kernels :
                  (alone /\ Opens(image[k]) /\ ~Opens(image[k])') =>
                     image'[k] # image[k] \/ store' = 0
<1>1. AllDeployed /\ [Next]_vars => [A]_vars
  <2> SUFFICES ASSUME AllDeployed, Next, NEW k \in Kernels, alone, Opens(image[k]),
                      image'[k] = image[k], store' # 0
               PROVE  Opens(image[k])'
      OBVIOUS
  <2> USE DEF keyVars, local, client
  <2>1. CASE UNCHANGED <<store, local>>
      BY <2>1 DEF Opens, StatusReady
  <2>2. CASE Start \/ Connect \/ Detect \/ RunSetupScript \/ ParseSetupResult
             \/ Finish \/ RunFails \/ EditConfig \/ OthersRebuild
      BY <2>1, <2>2 DEF Start, Connect, Detect, RunSetupScript, ParseSetupResult, Finish,
                        RunFails, EditConfig, OthersRebuild, Keys!Release, Keys!Abandon
  <2>3. CASE GenerateAll
    <3>1. store' = store
        BY <2>3 DEF GenerateAll, Keys!Reuse, Keys!Generate, Keys!NoSet, Opens, StatusReady
    <3> QED
        BY <2>1, <2>3, <3>1 DEF GenerateAll
  <2>4. ASSUME pc \in Deploying
        PROVE  /\ pin = pub[runs] /\ saved = runCfg
               /\ conf = [key |-> store, cfg |-> runCfg]
    <3>1. /\ image[k].wg = [key |-> store, cfg |-> runCfg]
          /\ image[k].premount = runCfg /\ image[k].host = pub[runs]
        BY <2>4, ImagesHold
    <3> QED
        BY <3>1 DEF Opens
  <2>5. CASE SavePinnedKey
      BY <2>1, <2>4, <2>5 DEF SavePinnedKey, Deploying
  <2>6. CASE SaveConfigCopy
      BY <2>1, <2>4, <2>6 DEF SaveConfigCopy, Deploying
  <2>7. CASE WriteClientConf
    <3>1. answer = store
        BY <2>7 DEF WriteClientConf, AllDeployed, Course, InHand, InRun
    <3> QED
        BY <2>1, <2>4, <2>7, <3>1 DEF WriteClientConf, Deploying
  <2>8. CASE DeleteOutputDir
      BY <2>8 DEF DeleteOutputDir, Keys!Discard, Keys!NoSet
  <2>9. ASSUME NEW r \in Runs, ScriptStep(r) \/ ScriptFails(r) PROVE Opens(image[k])'
    <3>1. Moves(r) => UNCHANGED <<store, local>>
        BY DEF Moves
    <3>2. Stops(r) => UNCHANGED <<store, local>>
        BY DEF Stops, ScriptStops, Keys!Release
    <3> QED
        BY <2>1, <2>9, <3>1, <3>2, ScriptMovesOrStops DEF AllDeployed, Course
  <2> QED
      BY <2>2, <2>3, <2>5, <2>6, <2>7, <2>8, <2>9 DEF Next, RunStep
<1> QED
    BY <1>1, AllDeployedHolds, PTL DEF Spec, OnlyANewImageLocksOut

-----------------------------------------------------------------------------
(* Runs fail by faults only. *)

\* A server that is not supported keeps its files: no script passes the preflight.
Unsupported ==
    server # "plain" => etc = NoEtc /\ \A r \in Runs : step[r] <= Preflight

LEMMA UnsupportedKept ==
    ASSUME TypeOK, Unsupported, [Next]_vars PROVE Unsupported'
<1> USE DEF Unsupported, host, script, Off, Install, Preflight
<1>0. step \in [Runs -> Off..Report] /\ MaxRuns \in Nat
    BY ProvisionAssumption DEF TypeOK
<1>1. CASE Start \/ GenerateAll \/ Connect \/ Detect \/ SavePinnedKey \/ SaveConfigCopy
           \/ WriteClientConf \/ Finish \/ EditConfig \/ DeleteOutputDir
           \/ OthersRebuild \/ UNCHANGED vars
    BY <1>1 DEF Start, GenerateAll, Connect, Detect, SavePinnedKey, SaveConfigCopy,
                WriteClientConf, Finish, EditConfig, DeleteOutputDir, OthersRebuild, vars
<1>2. CASE RunSetupScript \/ ParseSetupResult \/ RunFails
  <2>1. /\ UNCHANGED <<server, etc>>
        /\ \E s \in {Off, Install} : step' = [step EXCEPT ![runs] = s] \/ step' = step
      BY <1>2 DEF RunSetupScript, ParseSetupResult, RunFails
  <2>2. \A r \in Runs : step'[r] \in {step[r], Off, Install}
      BY <1>0, <2>1
  <2> QED
      BY <2>1, <2>2
<1>3. ASSUME NEW r \in Runs, ScriptStep(r) \/ ScriptFails(r) PROVE Unsupported'
  <2> USE DEF RemoveKey, GenerateKey, ReadPub, WriteWG, WriteHook, WritePremount,
              WriteAuth, WriteDropbear, WriteUmask, AddModules, BootEntry, Rebuild
  <2>1. CASE InstallPackages(r)
      BY <1>0, <2>1 DEF InstallPackages, Advance
  <2>2. CASE PreflightPasses(r)
      BY <2>2 DEF PreflightPasses, Advance
  <2>3. ASSUME step[r] > Preflight, UNCHANGED server PROVE Unsupported'
      BY <1>0, <2>3
  <2>4. CASE RemoveHostKey(r) \/ GenerateHostKey(r) \/ ReadHostPub(r) \/ WriteFile(r)
             \/ ConfigureBoot(r)
      BY <2>3, <2>4 DEF RemoveHostKey, GenerateHostKey, ReadHostPub, WriteFile,
                        ConfigureBoot, Advance
  <2>5. CASE RebuildImage(r) \/ OpenFile(r)
      BY <2>3, <2>5 DEF RebuildImage, OpenFile, Opened
  <2>6. CASE PreflightRefuses(r) \/ GenerateRefuses(r) \/ ReadPubFails(r) \/ ScriptFails(r)
    <3>1. ScriptStops(r)
        BY <2>6 DEF PreflightRefuses, GenerateRefuses, ReadPubFails, ScriptFails
    <3> QED
        BY <1>0, <3>1 DEF ScriptStops
  <2> QED
      BY <1>3, <2>1, <2>2, <2>4, <2>5, <2>6 DEF ScriptStep
<1> QED
    BY <1>1, <1>2, <1>3 DEF Next, RunStep

\* Nothing but a fault fails a run that no earlier script overlaps, on a server it
\* supports, whatever earlier runs left behind; and one on a server it does not
\* support is refused before any of its files is changed (templates.go:406).
THEOREM AloneOnlyFaultsFailARun ==
    Spec => [][ (alone /\ outcome = "running" /\ outcome' = "failed" /\ faults' = faults) =>
                  server # "plain" /\ etc = NoEtc ]_vars
<1> DEFINE I == AllDeployed /\ Unsupported
           A == (alone /\ outcome = "running" /\ outcome' = "failed" /\ faults' = faults) =>
                  server # "plain" /\ etc = NoEtc
<1>1. Init => Unsupported
    BY DEF Init, Unsupported, Off, Preflight
<1>2. I /\ [Next]_vars => Unsupported'
    BY UnsupportedKept DEF AllDeployed, Course
<1>3. I /\ [Next]_vars => [A]_vars
  <2> SUFFICES ASSUME I, Next, alone, outcome = "running", outcome' = "failed", faults' = faults
               PROVE  server # "plain" /\ etc = NoEtc
      OBVIOUS
  <2> USE DEF client, budget
  <2>1. PICK r \in Runs : ScriptStep(r) \/ ScriptFails(r)
    <3>1. ~(Start \/ GenerateAll \/ Connect \/ Detect \/ RunSetupScript
             \/ ParseSetupResult \/ SavePinnedKey \/ SaveConfigCopy
             \/ WriteClientConf \/ Finish)
        BY DEF Start, GenerateAll, Connect, Detect, RunSetupScript, ParseSetupResult,
               SavePinnedKey, SaveConfigCopy, WriteClientConf, Finish
    <3>2. faults \in Nat
        BY ProvisionAssumption DEF AllDeployed, Course, TypeOK
    <3>3. ~RunFails
      <4>1. RunFails => faults' = faults + 1
          BY DEF RunFails
      <4> QED
          BY <3>2, <4>1
    <3>4. ~(EditConfig \/ DeleteOutputDir \/ OthersRebuild)
        BY DEF EditConfig, DeleteOutputDir, OthersRebuild
    <3> QED
        BY <3>1, <3>3, <3>4 DEF Next, RunStep
  <2>2. ~Moves(r) /\ ~ScriptFails(r)
    <3>1. faults \in Nat
        BY ProvisionAssumption DEF AllDeployed, Course, TypeOK
    <3> QED
        BY <3>1 DEF Moves, ScriptFails
  <2>3. step[r] # Off => Written(r, step[r])
      BY DEF AllDeployed, ScriptAlone, Course, Alone
  <2>4. ~GenerateRefuses(r) /\ ~ReadPubFails(r)
      BY <2>3 DEF GenerateRefuses, ReadPubFails, Written, Off, RemoveKey, GenerateKey, ReadPub
  <2>5. PreflightRefuses(r) => server # "plain" /\ etc = NoEtc
      BY DEF PreflightRefuses, Unsupported
  <2>6. ~(InstallPackages(r) \/ PreflightPasses(r) \/ RemoveHostKey(r)
           \/ GenerateHostKey(r) \/ ReadHostPub(r) \/ ConfigureBoot(r) \/ WriteFile(r)
           \/ RebuildImage(r) \/ OpenFile(r))
      BY DEF InstallPackages, PreflightPasses, RemoveHostKey, GenerateHostKey,
             ReadHostPub, ConfigureBoot, WriteFile, RebuildImage, OpenFile, Opened, Advance
  <2> QED
      BY <2>1, <2>2, <2>4, <2>5, <2>6 DEF ScriptStep
<1> QED
    BY <1>1, <1>2, <1>3, AllDeployedHolds, PTL DEF Spec

\* Where a script ends with its run, that is every run.  One that lives on can take
\* the host key from under the next (templates.go:442).
THEOREM OnlyFaultsEverFailARun == ASSUME ~Orphans PROVE Spec => OnlyFaultsFailARun
<1>1. AllDeployed => alone
    BY DEF AllDeployed, Course, Alone
<1> QED
    BY <1>1, AloneOnlyFaultsFailARun, AllDeployedHolds, PTL DEF OnlyFaultsFailARun
=============================================================================
