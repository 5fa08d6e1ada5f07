------------------------- MODULE ConfigStoreProofs -------------------------
(***************************************************************************)
(* ConfigStore's theorems, for any processes, hosts, directories and       *)
(* configurations, in whatever order commands interleave, fail and end.    *)
(***************************************************************************)
EXTENDS ConfigStore, TLAPS

Procedures == {"idle", "init", "template", "edit", "run"} \cup Writing

\* Everything is of its type; what a run works with is valid.
Typed ==
    /\ TypeOK
    /\ proc \in [Procs -> [pc : Procedures, cfg : Configs, path : Paths]]
    /\ session \in [pc : {"none", "loaded", "up"}, asked : Hosts \cup {NoHost},
                    path : Paths, cfg : Configs, wg : Contents]
    /\ session.asked # NoHost => session.path = ByHost(session.asked)

\* Processes past their save, for whom the directory's copy is the one they left.
Past(d) == {p \in Procs : proc[p].pc \in {"conf", "fill"} /\ SaveDir(p) = d}

\* A directory whose files are of one run: its copy leads back to it, at most one
\* process is between the two files, and the copy is that one's config; without
\* such a process the two files agree.
OneRun(d) ==
    /\ \A c \in toml[d] : Valid(c) /\ OutputDir(c) = d
    /\ \A p, q \in Past(d) : p = q
    /\ \A p \in Past(d) : toml[d] = {proc[p].cfg}
    /\ Past(d) = {} => toml[d] = conf[d]

DirectoriesHold == \A d \in Dirs \ mixed : OneRun(d)

\* The directory of a completed run keeps having a copy.
ToldIsThere ==
    told # Default =>
        /\ Valid(told)
        /\ OutputDir(told) \notin mixed => toml[OutputDir(told)] # {}

\* A client_wg.conf is one of the runs into its directory, mixed or not.
ConfsAreOwn ==
    \A d \in Dirs : \A c \in conf[d] : c = Default \/ (Valid(c) /\ OutputDir(c) = d)

\* The inductive invariant.
IInv == Typed /\ DirectoriesHold /\ ToldIsThere /\ ConfsAreOwn

\* The files of a valid config are in one of the output directories.
LEMMA DirOfValid ==
    ASSUME NEW c \in Configs, Valid(c)
    PROVE  OutputDir(c) \in Dirs /\ OutputDir(c) \in Paths
<1>1. c.host \in Hosts /\ c.dir \in OwnDirs \cup {ByHostName}
    BY DEF Configs, Valid
<1> QED
    BY <1>1 DEF OutputDir, Dirs, Paths

\* Default, the template and a config made of answers are configs.
LEMMA Constructed ==
    /\ Default \in Configs /\ ~Valid(Default)
    /\ Template \in Configs
    /\ Here \in Paths
<1>1. TemplateHost \in Hosts
    BY ConfigStoreAssumption DEF TemplateHost
<1> QED
    BY <1>1, ConfigStoreAssumption
    DEF Default, Template, Configs, Valid, Paths, ByHostName

\* The installed state: no files, nobody at work.
LEMMA InitEstablishes == Init => IInv
<1> SUFFICES ASSUME Init PROVE IInv
    OBVIOUS
<1>0. /\ {} \in Contents
      /\ NoSession \in [pc : {"none", "loaded", "up"}, asked : Hosts \cup {NoHost},
                        path : Paths, cfg : Configs, wg : Contents]
      /\ NoSession.asked = NoHost /\ NoSession.pc = "none"
    BY Constructed DEF NoSession, NoHost, Contents
<1>4. proc \in [Procs -> [pc : Procedures, cfg : Configs, path : Paths]]
    BY Constructed DEF Init, Idle, Procedures
<1>5. TypeOK
    BY <1>0, <1>4, Constructed, ConfigStoreAssumption DEF Init, TypeOK, Idle, Writing
<1>1. Typed
    BY <1>0, <1>4, <1>5 DEF Init, Typed
<1>2. \A d \in Dirs : toml[d] = {} /\ conf[d] = {} /\ Past(d) = {}
    BY DEF Init, Past, Idle, Paths
<1>3. DirectoriesHold
    BY <1>2 DEF DirectoriesHold, OneRun
<1> QED
    BY <1>1, <1>2, <1>3 DEF Init, IInv, ToldIsThere, ConfsAreOwn

\* What a directory holds survives a step in which no process that is past its
\* save there begins, moves on or ends, unless its files are mixed by it.
LEMMA Untouched ==
    ASSUME NEW d \in Dirs, OneRun(d),
           toml'[d] = toml[d], conf'[d] = conf[d], Past(d)' = Past(d),
           \A p \in Past(d) : proc'[p].cfg = proc[p].cfg
    PROVE  OneRun(d)'
    BY DEF OneRun

\* Going from one place to the next leaves the other processes as they were.
LEMMA GotoMoves ==
    ASSUME Typed, NEW p \in Procs, NEW pc \in Procedures, Goto(p, pc)
    PROVE  /\ proc' \in [Procs -> [pc : Procedures, cfg : Configs, path : Paths]]
           /\ proc'[p].pc = pc /\ proc'[p].cfg = proc[p].cfg
           /\ \A q \in Procs \ {p} : proc'[q] = proc[q]
           /\ \A d : Past(d)' = (Past(d) \ {p}) \cup
                 (IF pc \in {"conf", "fill"} /\ SaveDir(p) = d THEN {p} ELSE {})
<1>1. /\ proc' \in [Procs -> [pc : Procedures, cfg : Configs, path : Paths]]
      /\ proc'[p].pc = pc /\ proc'[p].cfg = proc[p].cfg
      /\ \A q \in Procs \ {p} : proc'[q] = proc[q]
    BY DEF Typed, Goto
<1> QED
    BY <1>1 DEF Past, SaveDir

\* A process that ends is past no save.
LEMMA EndsLeaves ==
    ASSUME Typed, NEW p \in Procs, Ends(p)
    PROVE  /\ proc' \in [Procs -> [pc : Procedures, cfg : Configs, path : Paths]]
           /\ proc'[p] = Idle
           /\ \A q \in Procs \ {p} : proc'[q] = proc[q]
           /\ \A d : Past(d)' = Past(d) \ {p}
<1>1. proc'[p] = Idle /\ \A q \in Procs \ {p} : proc'[q] = proc[q]
    BY DEF Typed, Ends
<1>2. Idle \in [pc : Procedures, cfg : Configs, path : Paths]
    BY Constructed DEF Idle, Procedures
<1>3. proc' \in [Procs -> [pc : Procedures, cfg : Configs, path : Paths]]
    BY <1>2 DEF Typed, Ends
<1> QED
    BY <1>1, <1>3 DEF Past, SaveDir, Idle

\* Loads hand out configs.
LEMMA LoadsConfigs ==
    ASSUME Typed, NEW path \in Paths
    PROVE  /\ toml[path] \subseteq Configs
           /\ Loadable(path) \subseteq Configs
<1>1. toml[path] \subseteq Configs
    BY DEF Typed, TypeOK, Contents
<1>2. Bootstrapped \subseteq Configs
    BY DEF Bootstrapped, Configs
<1> QED
    BY <1>1, <1>2 DEF Loadable

\* Every step keeps the types.
LEMMA TypedStep == ASSUME Typed, Next PROVE Typed'
<1> USE ConfigStoreAssumption DEF TypeOK, Writing, Procedures
<1>0. /\ toml \in [Paths -> Contents] /\ conf \in [Dirs -> Contents]
      /\ Dirs \subseteq Paths
      /\ \A p \in Procs : /\ proc[p].cfg \in Configs
                          /\ proc[p].pc \in Writing \cup {"run"} =>
                               Valid(proc[p].cfg) /\ SaveDir(p) \in Dirs
    BY DirOfValid DEF Typed, SaveDir, Paths
<1>14. ASSUME NEW c \in Configs PROVE {c} \in Contents
    BY DEF Contents
<1>1. ASSUME NEW p \in Procs, InitStat(p) PROVE Typed'
    BY <1>1, GotoMoves DEF Typed, InitStat
<1>2. ASSUME NEW p \in Procs, InitOpen(p) PROVE Typed'
  <2>1. toml' \in [Paths -> Contents]
      BY <1>0, <1>14, <1>2, Constructed DEF InitOpen, Empty
  <2> QED
      BY <1>2, <2>1, GotoMoves DEF Typed, InitOpen
<1>3. ASSUME NEW p \in Procs, InitWrite(p) PROVE Typed'
  <2>1. toml' \in [Paths -> Contents]
      BY <1>0, <1>14, <1>3, Constructed DEF InitWrite
  <2> QED
      BY <1>3, <2>1, EndsLeaves DEF Typed, InitWrite, Idle
<1>4. ASSUME NEW p \in Procs, NEW path \in Paths, ConfigureLoad(p, path)
      PROVE  Typed'
  <2>1. PICK c \in IF toml[path] = {} THEN {Default} ELSE toml[path] :
          proc' = [proc EXCEPT ![p] = [pc |-> "edit", cfg |-> c, path |-> path]]
      BY <1>4 DEF ConfigureLoad
  <2>2. c \in Configs
      BY <2>1, LoadsConfigs, Constructed
  <2> QED
      BY <1>4, <2>1, <2>2 DEF Typed, ConfigureLoad
<1>5. ASSUME NEW p \in Procs, ConfigureSave(p) PROVE Typed'
  <2>1. toml' \in [Paths -> Contents]
      BY <1>0, <1>14, <1>5 DEF ConfigureSave, Answers
  <2> QED
      BY <1>5, <2>1, EndsLeaves DEF Typed, ConfigureSave, Idle
<1>6. ASSUME NEW p \in Procs, NEW path \in Paths, RunLoad(p, path) PROVE Typed'
  <2>1. PICK c \in Loadable(path) :
          /\ Valid(c)
          /\ proc' = [proc EXCEPT ![p] = [pc |-> "run", cfg |-> c, path |-> path]]
      BY <1>6 DEF RunLoad
  <2>2. c \in Configs
      BY LoadsConfigs
  <2> QED
      BY <1>6, <2>1, <2>2 DEF Typed, RunLoad
<1>7. ASSUME NEW p \in Procs, RunConfigures(p) PROVE Typed'
  <2>1. /\ proc' \in [Procs -> [pc : Procedures, cfg : Configs, path : Paths]]
        /\ proc'[p].cfg = proc[p].cfg /\ \A q \in Procs \ {p} : proc'[q] = proc[q]
      BY <1>7, GotoMoves DEF RunConfigures
  <2>2. Valid(proc[p].cfg)
      BY <1>7, <1>0 DEF RunConfigures, At
  <2> QED
      BY <1>7, <2>1, <2>2 DEF Typed, RunConfigures
<1>8. ASSUME NEW p \in Procs, SaveCopy(p) PROVE Typed'
  <2>1. toml' \in [Paths -> Contents] /\ SaveDir(p) \in Dirs
      BY <1>0, <1>14, <1>8 DEF SaveCopy, Saved, At
  <2> QED
      BY <1>8, <2>1, GotoMoves DEF Typed, SaveCopy, Saved, At
<1>9. ASSUME NEW p \in Procs, SaveCopyFails(p) PROVE Typed'
    BY <1>0, <1>9, GotoMoves DEF Typed, SaveCopyFails, At
<1>10. ASSUME NEW p \in Procs, OpenClientConf(p) PROVE Typed'
  <2>1. conf' \in [Dirs -> Contents]
      BY <1>0, <1>14, <1>10, Constructed DEF OpenClientConf, Empty
  <2> QED
      BY <1>10, <2>1, GotoMoves DEF Typed, OpenClientConf, At
<1>11. ASSUME NEW p \in Procs, FillClientConf(p) PROVE Typed'
  <2>1. conf' \in [Dirs -> Contents] /\ told' \in Configs
      BY <1>0, <1>14, <1>11 DEF FillClientConf
  <2> QED
      BY <1>11, <2>1, EndsLeaves DEF Typed, FillClientConf, Idle
<1>12. ASSUME NEW p \in Procs, Quits(p) PROVE Typed'
  <2>1. mixed' \subseteq Dirs
      BY <1>0, <1>12 DEF Typed, Quits
  <2> QED
      BY <1>12, <2>1, EndsLeaves DEF Typed, Quits, Idle
<1>13. ASSUME NEW asked \in Hosts \cup {NoHost}, NEW path \in Paths,
              UnlockLoad(asked, path)
       PROVE  Typed'
  <2>1. PICK c \in toml[path] :
          /\ Valid(c)
          /\ session' = [pc |-> "loaded", asked |-> asked, path |-> path, cfg |-> c,
                         wg |-> {}]
      BY <1>13 DEF UnlockLoad
  <2>2. c \in Configs /\ {} \in Contents
      BY LoadsConfigs DEF Contents
  <2>3. asked # NoHost => path = ByHost(asked)
      BY <1>13 DEF UnlockLoad, Asked
  <2> QED
      BY <1>13, <2>1, <2>2, <2>3 DEF Typed, UnlockLoad
<1>15. ASSUME UnlockParse PROVE Typed'
  <2> DEFINE d == OutputDir(session.cfg)
  <2>1. /\ session.pc = "loaded"
        /\ session' = [session EXCEPT !.pc = "up", !.wg = conf[d]]
      BY <1>15 DEF UnlockParse, Parsed
  <2>2. d \in Dirs
      BY <2>1, DirOfValid DEF Typed
  <2>3. conf[d] \in Contents
      BY <1>0, <2>2
  <2> HIDE DEF d
  <2> QED
      BY <1>15, <2>1, <2>3 DEF Typed, UnlockParse, Parsed
<1> QED
    BY <1>1, <1>2, <1>3, <1>4, <1>5, <1>6, <1>7, <1>8, <1>9, <1>10, <1>11, <1>12,
       <1>13, <1>15
    DEF Next

\* Steps that write no file and leave no process past a save on another side of it.
LEMMA NothingWritten ==
    ASSUME Typed, DirectoriesHold, mixed \subseteq mixed',
           UNCHANGED <<toml, conf>>,
           \A d \in Dirs \ mixed' : Past(d)' = Past(d),
           \A p \in Procs : proc[p].pc \in {"conf", "fill"} =>
               proc'[p].cfg = proc[p].cfg \/ SaveDir(p) \in mixed'
    PROVE  DirectoriesHold'
<1> SUFFICES ASSUME NEW d \in Dirs \ mixed' PROVE OneRun(d)'
    BY DEF DirectoriesHold
<1>1. OneRun(d) /\ \A p \in Past(d) : proc'[p].cfg = proc[p].cfg
    BY DEF DirectoriesHold, Past
<1> QED
    BY <1>1, Untouched

\* Steps that write a ubo.toml which is no run's copy: its directory is mixed.
LEMMA TomlWritten ==
    ASSUME Typed, DirectoriesHold, NEW x \in Paths, NEW file,
           toml' = [toml EXCEPT ![x] = file], UNCHANGED conf,
           mixed' = mixed \cup ({x} \cap Dirs),
           \A d \in Dirs : Past(d)' = Past(d),
           \A p \in Procs : proc[p].pc \in {"conf", "fill"} =>
               proc'[p].cfg = proc[p].cfg
    PROVE  DirectoriesHold'
<1> SUFFICES ASSUME NEW d \in Dirs \ mixed' PROVE OneRun(d)'
    BY DEF DirectoriesHold
<1>1. toml'[d] = toml[d]
    BY DEF Typed, TypeOK, Paths
<1>2. OneRun(d) /\ \A p \in Past(d) : proc'[p].cfg = proc[p].cfg
    BY DEF DirectoriesHold, Past
<1> QED
    BY <1>1, <1>2, Untouched

\* Every step keeps what the directories hold.
LEMMA DirectoriesStep == ASSUME Typed, DirectoriesHold, Next PROVE DirectoriesHold'
<1>1. ASSUME NEW p \in Procs, InitStat(p) PROVE DirectoriesHold'
  <2>1. At(p, "idle") /\ Goto(p, "init") /\ UNCHANGED <<toml, conf, mixed>>
      BY <1>1 DEF InitStat
  <2> QED
      BY <2>1, GotoMoves, NothingWritten DEF At, Past, Procedures
<1>2. ASSUME NEW p \in Procs, InitOpen(p) PROVE DirectoriesHold'
  <2>1. At(p, "init") /\ Goto(p, "template") /\ Here \in Paths
      BY <1>2, Constructed DEF InitOpen
  <2>2. /\ \A d : Past(d)' = Past(d)
        /\ \A q \in Procs : proc'[q].cfg = proc[q].cfg
      BY <2>1, GotoMoves DEF At, Past, Procedures
  <2> QED
      BY <1>2, <2>1, <2>2, TomlWritten DEF InitOpen
<1>3. ASSUME NEW p \in Procs, InitWrite(p) PROVE DirectoriesHold'
  <2>1. At(p, "template") /\ Ends(p) /\ Here \in Paths
      BY <1>3, Constructed DEF InitWrite
  <2>2. /\ \A d : Past(d)' = Past(d)
        /\ \A q \in Procs : proc[q].pc \in {"conf", "fill"} => proc'[q] = proc[q]
      BY <2>1, EndsLeaves DEF At, Past
  <2> QED
      BY <1>3, <2>1, <2>2, TomlWritten DEF InitWrite
<1>4. ASSUME NEW p \in Procs, NEW path \in Paths,
             ConfigureLoad(p, path) \/ RunLoad(p, path)
      PROVE  DirectoriesHold'
  <2>1. At(p, "idle") /\ UNCHANGED <<toml, conf, mixed>>
      BY <1>4 DEF ConfigureLoad, RunLoad
  <2>2. PICK c, pc : /\ pc \in {"edit", "run"}
                     /\ proc' = [proc EXCEPT ![p] =
                                   [pc |-> pc, cfg |-> c, path |-> path]]
      BY <1>4 DEF ConfigureLoad, RunLoad
  <2>3. proc'[p].pc = pc /\ \A q \in Procs \ {p} : proc'[q] = proc[q]
      BY <2>2 DEF Typed
  <2>4. /\ \A d : Past(d)' = Past(d)
        /\ \A q \in Procs : proc[q].pc \in {"conf", "fill"} => proc'[q] = proc[q]
      BY <2>1, <2>2, <2>3 DEF At, Past, SaveDir
  <2> QED
      BY <2>1, <2>4, NothingWritten
<1>5. ASSUME NEW p \in Procs, ConfigureSave(p) PROVE DirectoriesHold'
  <2>1. PICK file : toml' = [toml EXCEPT ![proc[p].path] = file]
      BY <1>5 DEF ConfigureSave
  <2>2. At(p, "edit") /\ Ends(p) /\ proc[p].path \in Paths
      BY <1>5 DEF ConfigureSave, Typed
  <2>3. /\ \A d : Past(d)' = Past(d)
        /\ \A q \in Procs : proc[q].pc \in {"conf", "fill"} => proc'[q] = proc[q]
      BY <2>2, EndsLeaves DEF At, Past
  <2> QED
      BY <1>5, <2>1, <2>2, <2>3, TomlWritten DEF ConfigureSave
<1>6. ASSUME NEW p \in Procs, RunConfigures(p) PROVE DirectoriesHold'
  <2>1. At(p, "run") /\ Goto(p, "save") /\ UNCHANGED <<toml, conf, mixed>>
      BY <1>6 DEF RunConfigures
  <2> QED
      BY <2>1, GotoMoves, NothingWritten DEF At, Past, Procedures, Writing
<1>7. ASSUME NEW p \in Procs, SaveCopy(p) PROVE DirectoriesHold'
  <2>0. PICK x : x = SaveDir(p)
      OBVIOUS
  <2>1. /\ At(p, "save") /\ Goto(p, "conf") /\ UNCHANGED conf
        /\ toml' = [toml EXCEPT ![x] = {proc[p].cfg}]
        /\ mixed' = IF Overlaps(p) THEN mixed \cup {x} ELSE mixed \ {x}
      BY <1>7, <2>0 DEF SaveCopy, Saved
  <2>2. x \in Dirs /\ Valid(proc[p].cfg) /\ Dirs \subseteq Paths
      BY <2>0, <2>1, DirOfValid DEF At, Typed, TypeOK, Writing, SaveDir, Paths
  <2>3. /\ proc'[p].cfg = proc[p].cfg /\ \A q \in Procs \ {p} : proc'[q] = proc[q]
        /\ Past(x)' = (Past(x) \ {p}) \cup {p}
        /\ \A d \in Dirs \ {x} : Past(d)' = Past(d)
      BY <2>0, <2>1, GotoMoves DEF At, Past, Procedures, Writing
  <2>4. toml'[x] = {proc[p].cfg} /\ \A d \in Dirs \ {x} : toml'[d] = toml[d]
      BY <2>1, <2>2 DEF Typed, TypeOK
  <2> SUFFICES ASSUME NEW d \in Dirs \ mixed' PROVE OneRun(d)'
      BY DEF DirectoriesHold
  <2>5. CASE d = x
    <3>1. Past(x) \ {p} = {}
        BY <2>0, <2>1, <2>5 DEF Overlaps, Past, SaveDir, Writing
    <3>2. Past(d)' = {p}
        BY <2>3, <2>5, <3>1
    <3>3. toml'[d] = {proc'[p].cfg} /\ Valid(proc'[p].cfg) /\ OutputDir(proc'[p].cfg) = d
        BY <2>0, <2>2, <2>3, <2>4, <2>5 DEF SaveDir
    <3> QED
        BY <3>2, <3>3 DEF OneRun
  <2>6. CASE d # x
      BY <2>1, <2>3, <2>4, <2>6, Untouched DEF DirectoriesHold, Past
  <2> QED
      BY <2>5, <2>6
<1>8. ASSUME NEW p \in Procs, SaveCopyFails(p) PROVE DirectoriesHold'
  <2>1. /\ At(p, "save") /\ Goto(p, "conf") /\ UNCHANGED <<toml, conf>>
        /\ mixed' = mixed \cup {SaveDir(p)}
      BY <1>8 DEF SaveCopyFails
  <2> QED
      BY <2>1, GotoMoves, NothingWritten DEF At, Past, Procedures, Writing
<1>9. ASSUME NEW p \in Procs, OpenClientConf(p) PROVE DirectoriesHold'
  <2> DEFINE x == SaveDir(p)
  <2>1. /\ At(p, "conf") /\ Goto(p, "fill") /\ UNCHANGED <<toml, mixed>>
        /\ conf' = [conf EXCEPT ![x] = Empty]
      BY <1>9 DEF OpenClientConf
  <2>2. /\ \A q \in Procs : proc'[q].cfg = proc[q].cfg
        /\ \A d \in Dirs : Past(d)' = Past(d)
        /\ p \in Past(x)
      BY <2>1, GotoMoves DEF At, Past, Procedures, Writing
  <2> SUFFICES ASSUME NEW d \in Dirs \ mixed PROVE OneRun(d)'
      BY <2>1 DEF DirectoriesHold
  <2>3. OneRun(d) /\ Past(d)' = Past(d) /\ toml'[d] = toml[d]
      BY <2>1, <2>2 DEF DirectoriesHold
  <2>4. Past(d) = {} => conf'[d] = conf[d]
      BY <2>1, <2>2 DEF Typed, TypeOK
  <2>5. \A q \in Past(d) : proc'[q].cfg = proc[q].cfg
      BY <2>2 DEF Past
  <2> QED
      BY <2>3, <2>4, <2>5 DEF OneRun
<1>10. ASSUME NEW p \in Procs, FillClientConf(p) PROVE DirectoriesHold'
  <2> DEFINE x == SaveDir(p)
  <2>1. /\ At(p, "fill") /\ Ends(p) /\ UNCHANGED <<toml, mixed>>
        /\ conf' = [conf EXCEPT ![x] = {proc[p].cfg}]
      BY <1>10 DEF FillClientConf
  <2>2. /\ \A q \in Procs \ {p} : proc'[q] = proc[q]
        /\ \A d \in Dirs : Past(d)' = Past(d) \ {p}
        /\ p \in Past(x)
      BY <2>1, EndsLeaves DEF At, Past
  <2> SUFFICES ASSUME NEW d \in Dirs \ mixed PROVE OneRun(d)'
      BY <2>1 DEF DirectoriesHold
  <2>3. OneRun(d) /\ toml'[d] = toml[d]
      BY <2>1 DEF DirectoriesHold
  <2>4. CASE d = x
    <3>1. Past(d) = {p} /\ toml[d] = {proc[p].cfg}
        BY <2>2, <2>3, <2>4 DEF OneRun
    <3>2. Past(d)' = {} /\ conf'[d] = {proc[p].cfg}
        BY <2>1, <2>2, <2>4, <3>1 DEF Typed, TypeOK
    <3> QED
        BY <2>3, <3>1, <3>2 DEF OneRun
  <2>5. CASE d # x
    <3>1. conf'[d] = conf[d]
        BY <2>1, <2>5 DEF Typed, TypeOK
    <3>2. Past(d)' = Past(d) /\ \A q \in Past(d) : proc'[q].cfg = proc[q].cfg
        BY <2>2, <2>5 DEF Past
    <3> QED
        BY <2>3, <3>1, <3>2, Untouched
  <2> QED
      BY <2>4, <2>5
<1>11. ASSUME NEW p \in Procs, Quits(p) PROVE DirectoriesHold'
  <2>1. /\ Ends(p) /\ UNCHANGED <<toml, conf>>
        /\ mixed' = IF proc[p].pc \in Writing THEN mixed \cup {SaveDir(p)} ELSE mixed
      BY <1>11 DEF Quits
  <2>2. /\ \A q \in Procs \ {p} : proc'[q] = proc[q]
        /\ \A d \in Dirs : Past(d)' = Past(d) \ {p}
      BY <2>1, EndsLeaves
  <2>3. proc[p].pc \in {"conf", "fill"} => SaveDir(p) \in mixed'
      BY <2>1 DEF Writing
  <2>4. \A d \in Dirs \ mixed' : Past(d)' = Past(d)
      BY <2>2, <2>3 DEF Past
  <2> QED
      BY <2>1, <2>2, <2>3, <2>4, NothingWritten
<1>12. ASSUME \/ \E asked \in Hosts \cup {NoHost}, path \in Paths :
                   UnlockLoad(asked, path)
              \/ UnlockParse
       PROVE  DirectoriesHold'
  <2>1. UNCHANGED <<toml, conf, proc, mixed>>
      BY <1>12 DEF UnlockLoad, UnlockParse, Parsed
  <2> QED
      BY <2>1 DEF DirectoriesHold, OneRun, Past, SaveDir
<1> QED
    BY <1>1, <1>2, <1>3, <1>4, <1>5, <1>6, <1>7, <1>8, <1>9, <1>10, <1>11, <1>12
    DEF Next

\* No ubo.toml is ever taken away, and files that are of one run again are there.
LEMMA CopiesStay ==
    ASSUME Typed, Next, NEW d \in Dirs
    PROVE  /\ toml[d] # {} => toml'[d] # {}
           /\ d \in mixed /\ d \notin mixed' => toml'[d] # {}
<1>0. toml \in [Paths -> Contents] /\ d \in Paths
    BY DEF Typed, TypeOK, Paths
<1>1. ASSUME NEW x, NEW c, toml' = [toml EXCEPT ![x] = {c}]
      PROVE  /\ toml[d] # {} => toml'[d] # {}
             /\ d = x => toml'[d] # {}
    BY <1>0, <1>1
<1>2. ASSUME UNCHANGED toml, mixed \subseteq mixed'
      PROVE  /\ toml[d] # {} => toml'[d] # {}
             /\ d \in mixed /\ d \notin mixed' => toml'[d] # {}
    BY <1>2
<1>3. ASSUME NEW p \in Procs, SaveCopy(p)
      PROVE  /\ toml[d] # {} => toml'[d] # {}
             /\ d \in mixed /\ d \notin mixed' => toml'[d] # {}
  <2>1. /\ toml' = [toml EXCEPT ![SaveDir(p)] = {proc[p].cfg}]
        /\ d \in mixed /\ d \notin mixed' => d = SaveDir(p)
      BY <1>3 DEF SaveCopy, Saved
  <2> QED
      BY <1>1, <2>1
<1>4. ASSUME NEW p \in Procs, InitOpen(p) \/ InitWrite(p) \/ ConfigureSave(p)
      PROVE  /\ toml[d] # {} => toml'[d] # {}
             /\ d \in mixed /\ d \notin mixed' => toml'[d] # {}
  <2>1. mixed \subseteq mixed' /\ \E x, c : toml' = [toml EXCEPT ![x] = {c}]
      BY <1>4 DEF InitOpen, InitWrite, ConfigureSave, Empty
  <2> QED
      BY <1>1, <2>1
<1>5. ASSUME NEW p \in Procs, NEW path \in Paths,
             \/ InitStat(p) \/ ConfigureLoad(p, path) \/ RunLoad(p, path)
             \/ RunConfigures(p) \/ SaveCopyFails(p)
             \/ OpenClientConf(p) \/ FillClientConf(p) \/ Quits(p)
      PROVE  UNCHANGED toml /\ mixed \subseteq mixed'
    BY <1>5 DEF InitStat, ConfigureLoad, RunLoad, RunConfigures, SaveCopyFails,
                OpenClientConf, FillClientConf, Quits
<1>6. ASSUME \/ \E asked \in Hosts \cup {NoHost}, path \in Paths :
                  UnlockLoad(asked, path)
             \/ UnlockParse
      PROVE  UNCHANGED <<toml, mixed>>
    BY <1>6 DEF UnlockLoad, UnlockParse, Parsed
<1> QED
    BY <1>2, <1>3, <1>4, <1>5, <1>6, Constructed DEF Next

\* Every step keeps the copies of completed runs.
LEMMA ToldStep ==
    ASSUME Typed, DirectoriesHold, ToldIsThere, Next PROVE ToldIsThere'
<1>1. CASE UNCHANGED told
  <2> SUFFICES ASSUME told # Default
               PROVE  /\ Valid(told)
                      /\ OutputDir(told) \notin mixed' => toml'[OutputDir(told)] # {}
      BY <1>1 DEF ToldIsThere
  <2>1. OutputDir(told) \in Dirs /\ Valid(told)
      BY DirOfValid DEF ToldIsThere, Typed, TypeOK
  <2> QED
      BY <2>1, CopiesStay DEF ToldIsThere
<1>2. ASSUME NEW p \in Procs, FillClientConf(p) PROVE ToldIsThere'
  <2>1. /\ At(p, "fill") /\ told' = proc[p].cfg /\ UNCHANGED <<toml, mixed>>
        /\ OutputDir(told') = SaveDir(p)
      BY <1>2 DEF FillClientConf, SaveDir
  <2>2. Valid(proc[p].cfg) /\ SaveDir(p) \in Dirs
      BY <2>1, DirOfValid DEF At, Typed, TypeOK, Writing, SaveDir
  <2>3. SaveDir(p) \notin mixed => toml[SaveDir(p)] = {proc[p].cfg}
      BY <2>1, <2>2 DEF DirectoriesHold, OneRun, Past, At
  <2> QED
      BY <2>1, <2>2, <2>3 DEF ToldIsThere
<1>3. UNCHANGED told \/ \E p \in Procs : FillClientConf(p)
    BY DEF Next, InitStat, InitOpen, InitWrite, ConfigureLoad, ConfigureSave,
           RunLoad, RunConfigures, SaveCopy, Saved, SaveCopyFails, OpenClientConf,
           Quits, UnlockLoad, UnlockParse, Parsed
<1> QED
    BY <1>1, <1>2, <1>3

\* Every step keeps client_wg.conf its directory's: only runs write it.
LEMMA ConfsStep == ASSUME Typed, ConfsAreOwn, Next PROVE ConfsAreOwn'
<1>1. CASE UNCHANGED conf
    BY <1>1 DEF ConfsAreOwn
<1>2. ASSUME NEW p \in Procs, OpenClientConf(p) \/ FillClientConf(p)
      PROVE  ConfsAreOwn'
  <2>1. PICK c : /\ conf' = [conf EXCEPT ![SaveDir(p)] = {c}]
                 /\ c = Default \/ (c = proc[p].cfg /\ Valid(c))
      BY <1>2 DEF OpenClientConf, FillClientConf, Empty, At, Typed, TypeOK, Writing
  <2>2. \A d \in Dirs : conf'[d] = IF d = SaveDir(p) THEN {c} ELSE conf[d]
      BY <2>1 DEF Typed, TypeOK
  <2> QED
      BY <2>1, <2>2 DEF ConfsAreOwn, SaveDir
<1>3. UNCHANGED conf \/ \E p \in Procs : OpenClientConf(p) \/ FillClientConf(p)
    BY DEF Next, InitStat, InitOpen, InitWrite, ConfigureLoad, ConfigureSave,
           RunLoad, RunConfigures, SaveCopy, Saved, SaveCopyFails,
           Quits, UnlockLoad, UnlockParse, Parsed
<1> QED
    BY <1>1, <1>2, <1>3

\* The invariant holds throughout.
LEMMA AlwaysIInv == Spec => []IInv
<1>1. IInv /\ [Next]_vars => IInv'
  <2> SUFFICES ASSUME IInv, [Next]_vars PROVE IInv'
      OBVIOUS
  <2>1. CASE Next
      BY <2>1, TypedStep, DirectoriesStep, ToldStep, ConfsStep DEF IInv
  <2>2. CASE UNCHANGED vars
    <3>1. Typed'
        BY <2>2 DEF IInv, Typed, TypeOK, vars
    <3> QED
        BY <2>2, <3>1 DEF IInv, DirectoriesHold, OneRun, Past, SaveDir, ToldIsThere,
                          ConfsAreOwn, vars
  <2> QED
      BY <2>1, <2>2
<1> QED
    BY <1>1, InitEstablishes, PTL DEF Spec

\* A directory nobody writes, and not mixed, has two files of one run, and its copy
\* leads back to it.
LEMMA QuietAgrees ==
    ASSUME IInv, NEW d \in Dirs \ mixed, Quiet(d)
    PROVE  /\ toml[d] = conf[d]
           /\ \A c \in toml[d] : OutputDir(c) = d /\ toml[d] = {c}
<1>1. OneRun(d) /\ Past(d) = {}
    BY DEF IInv, DirectoriesHold, Past, Quiet, Writing
<1>2. toml[d] \in Contents
    BY DEF IInv, Typed, TypeOK, Paths
<1> QED
    BY <1>1, <1>2 DEF OneRun, Contents

\* The types of the files and of the processes' configs hold in every behaviour.
THEOREM TypeCorrect == Spec => []TypeOK
<1>1. IInv => TypeOK
    BY DEF IInv, Typed
<1> QED
    BY <1>1, AlwaysIInv, PTL

\* An output directory never holds the files of two runs (main.go:231, 250), but
\* where one died between them, two wrote at once, or the copy was edited.
THEOREM DirectoryAlwaysAgrees == Spec => []DirectoryAgrees
<1>1. IInv => DirectoryAgrees
    BY QuietAgrees DEF DirectoryAgrees
<1> QED
    BY <1>1, AlwaysIInv, PTL

\* "'ubo unlock <host>' and 'ubo unlock' (picker) find" the copy of every completed
\* run (main.go:228).
THEOREM CompletedRunAlwaysFound == Spec => []CompletedRunIsFound
<1>1. ASSUME IInv PROVE CompletedRunIsFound
  <2> SUFFICES ASSUME told # Default, told.dir = ByHostName, OutputDir(told) \notin mixed
               PROVE  /\ OutputDir(told) \in Listed
                      /\ HostDir(told.host) = ByHost(told.host) => Found(told)
      BY DEF CompletedRunIsFound
  <2>1. told.host \in Hosts /\ toml[OutputDir(told)] # {}
      BY <1>1 DEF IInv, Typed, TypeOK, ToldIsThere, Configs, Valid
  <2>2. OutputDir(told) = HostDir(told.host)
      BY DEF OutputDir
  <2> QED
      BY <2>1, <2>2 DEF Listed, Found, Paths, Dirs
<1> QED
    BY <1>1, AlwaysIInv, PTL

\* What a host's own name leads to is that host's.
LEMMA OwnNameLeads ==
    ASSUME NEW h \in Hosts, OwnName(h), NEW c \in Configs, Valid(c),
           OutputDir(c) = ByHost(h)
    PROVE  c.host = h
<1>1. c.host \in Hosts /\ c.dir \in OwnDirs \cup {ByHostName}
    BY DEF Configs, Valid
<1>2. HostDir(c.host) = ByHost(h)
    BY <1>1 DEF OutputDir, OwnName
<1> QED
    BY <1>1, <1>2 DEF OwnName

\* Unlocking loads the config of the directory it was pointed to, and with it the
\* tunnel of one of that directory's runs and of the host that was asked for,
\* whatever is written between its two reads (main.go:369, 604, rootless.go:61).
THEOREM UnlockAlwaysReachesTheHost == Spec => UnlockReachesTheHost
<1> DEFINE Loads(s) ==
        s # session /\ s.pc = "loaded" /\ s.path \in Dirs \ mixed
        => /\ OutputDir(s.cfg) = s.path
           /\ s.asked # NoHost /\ OwnName(s.asked) => s.cfg.host = s.asked
    Parses(s) ==
        s # session /\ s.pc = "up"
        => /\ \A d \in s.wg : OutputDir(d) = OutputDir(s.cfg)
           /\ s.asked # NoHost /\ OwnName(s.asked) /\ OutputDir(s.cfg) = s.path
              => \A d \in s.wg : d.host = s.asked
           /\ /\ s.path \in Dirs \ mixed /\ Quiet(s.path)
              /\ toml[s.path] = {s.cfg}
              => s.wg = {s.cfg}
<1>1. ASSUME IInv, NEW asked \in Hosts \cup {NoHost}, NEW path \in Paths,
             UnlockLoad(asked, path)
      PROVE  Loads(session') /\ Parses(session')
  <2>1. PICK c \in toml[path] :
          /\ Valid(c)
          /\ session' = [pc |-> "loaded", asked |-> asked, path |-> path, cfg |-> c,
                         wg |-> {}]
      BY <1>1 DEF UnlockLoad
  <2>2. c \in Configs
      BY <1>1, LoadsConfigs DEF IInv
  <2>3. asked # NoHost => asked \in Hosts /\ path = ByHost(asked)
      BY <1>1 DEF UnlockLoad, Asked
  <2>4. path \in Dirs \ mixed => OutputDir(c) = path
      BY <1>1 DEF IInv, DirectoriesHold, OneRun
  <2>5. path \in Dirs \ mixed /\ asked # NoHost /\ OwnName(asked) => c.host = asked
      BY <2>1, <2>2, <2>3, <2>4, OwnNameLeads
  <2> QED
      BY <2>1, <2>4, <2>5
<1>2. ASSUME IInv, UnlockParse PROVE Loads(session') /\ Parses(session')
  <2> DEFINE d == OutputDir(session.cfg)
  <2>1. /\ session.pc = "loaded" /\ conf[d] \notin {{}, Empty}
        /\ session' = [session EXCEPT !.pc = "up", !.wg = conf[d]]
      BY <1>2 DEF UnlockParse, Parsed
  <2>2. d \in Dirs
      BY <1>2, <2>1, DirOfValid DEF IInv, Typed, TypeOK
  <2>3. PICK c \in Configs : conf[d] = {c}
      BY <1>2, <2>1, <2>2 DEF IInv, Typed, TypeOK, Contents
  <2>4. Valid(c) /\ OutputDir(c) = d
      BY <1>2, <2>1, <2>2, <2>3 DEF IInv, ConfsAreOwn, Empty
  <2>5. /\ session'.pc = "up" /\ session'.wg = {c}
        /\ session'.asked = session.asked /\ session'.path = session.path
        /\ session'.cfg = session.cfg
      BY <1>2, <2>1, <2>3 DEF IInv, Typed
  <2>6. ASSUME session.asked # NoHost, OwnName(session.asked), d = session.path
        PROVE  c.host = session.asked
    <3>1. session.asked \in Hosts /\ OutputDir(c) = ByHost(session.asked)
        BY <1>2, <2>4, <2>6 DEF IInv, Typed
    <3> QED
        BY <2>4, <2>6, <3>1, OwnNameLeads
  <2>7. ASSUME session.path \in Dirs \ mixed, Quiet(session.path),
               toml[session.path] = {session.cfg}
        PROVE  c = session.cfg
    <3>1. d = session.path /\ conf[session.path] = {session.cfg}
        BY <1>2, <2>7, QuietAgrees
    <3> QED
        BY <2>3, <3>1
  <2> HIDE DEF d
  <2>8. OutputDir(session'.cfg) = d
      BY <2>5 DEF d
  <2> QED
      BY <2>4, <2>5, <2>6, <2>7, <2>8
<1>3. Next => \/ UNCHANGED session
              \/ \E asked \in Hosts \cup {NoHost}, path \in Paths : UnlockLoad(asked, path)
              \/ UnlockParse
    BY DEF Next, InitStat, InitOpen, InitWrite, ConfigureLoad, ConfigureSave,
           RunLoad, RunConfigures, SaveCopy, Saved, SaveCopyFails, OpenClientConf,
           FillClientConf, Quits
<1>4. IInv /\ [Next]_vars => [Loads(session') /\ Parses(session')]_vars
    BY <1>1, <1>2, <1>3
<1>5. [][Loads(session') /\ Parses(session')]_vars => UnlockReachesTheHost
    BY PTL DEF UnlockReachesTheHost
<1> QED
    BY <1>4, <1>5, AlwaysIInv, PTL DEF Spec
=============================================================================
