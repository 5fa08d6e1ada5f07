---------------------------- MODULE ConfigStore ----------------------------
(***************************************************************************)
(* The configuration files and who reads and writes them: `ubo init` and   *)
(* `ubo configure` write ./ubo.toml or the copy in an output directory,    *)
(* `ubo run` loads one of them (or asks for the essentials), and leaves a  *)
(* copy and client_wg.conf in the output directory, `ubo unlock` looks for *)
(* that copy.  Several commands may be under way at a time.                *)
(*                                                                         *)
(* Of a configuration we keep the host (its letters, as far as OutputDir   *)
(* cares), output.dir and one value for everything else.  That a file is   *)
(* loaded as it was saved is shown in Codec.                               *)
(***************************************************************************)
EXTENDS Naturals, Sequences, SequencesExt

CONSTANTS
    Procs,      \* ubo processes
    Hosts,      \* values of host: sequences of words, ":", "[" and "]"
    OwnDirs,    \* values of output.dir other than the empty one
    Rest,       \* values of all the other fields
    DefaultRest,
    MaxEdits,   \* bound: saves by `ubo configure` and `ubo init`
    MaxRuns     \* bound: runs started

ByHostName == <<>>    \* output.dir = ""

Configs == [host : Hosts \cup {<<>>}, dir : OwnDirs \cup {ByHostName}, rest : Rest]
Default == [host |-> <<>>, dir |-> ByHostName, rest |-> DefaultRest]

ASSUME ConfigStoreAssumption ==
    /\ <<>> \notin Hosts /\ ByHostName \notin OwnDirs
    /\ \E h \in Hosts : Len(h) = 1      \* as the template's is
    /\ DefaultRest \in Rest
    /\ MaxEdits \in Nat /\ MaxRuns \in Nat

\* OutputDir: colons become dashes and brackets go.
Dashed(h) == [i \in DOMAIN h |-> IF h[i] = ":" THEN "-" ELSE h[i]]
HostDir(h) == <<"ubo-">> \o Dashed(SelectSeq(h, LAMBDA c : c \notin {"[", "]"}))

OutputDir(c) == IF c.dir # ByHostName THEN c.dir ELSE HostDir(c.host)

Valid(c) == c.host # <<>>

Here == <<".">>
Dirs == OwnDirs \cup {HostDir(h) : h \in Hosts}
Paths == Dirs \cup {Here}

\* What a file holds: {} if there is none, else the configuration it was written
\* from.  An empty file is one of Default: that is what an empty ubo.toml loads
\* as, and an empty client_wg.conf is refused.
Contents == {{}} \cup {{c} : c \in Configs}
Empty == {Default}

VARIABLES
    toml,     \* of each path: its ubo.toml
    conf,     \* of each directory: its client_wg.conf
    proc,     \* of each process: what it does, with which config from where
    runs, edits,
    mixed,    \* directories whose files may come from two configurations
    told,     \* the config whose run last ended with "to unlock: ubo unlock HOST"
    session   \* the latest unlock: how far it is, host asked for, path chosen, the
              \* config loaded from there, the client_wg.conf it parsed

vars == <<toml, conf, proc, runs, edits, mixed, told, session>>

Idle == [pc |-> "idle", cfg |-> Default, path |-> Here]
NoSession == [pc |-> "none", asked |-> <<>>, path |-> Here, cfg |-> Default, wg |-> {}]

At(p, pc) == proc[p].pc = pc
Goto(p, pc) == proc' = [proc EXCEPT ![p].pc = pc]
Ends(p) == proc' = [proc EXCEPT ![p] = Idle]

Writing == {"save", "conf", "fill"}
\* Another process is writing into the directory of p's run.
Overlaps(p) ==
    \E q \in Procs \ {p} : /\ proc[q].pc \in Writing
                           /\ OutputDir(proc[q].cfg) = OutputDir(proc[p].cfg)

-----------------------------------------------------------------------------
(* ubo init: the file must not exist; it is then written in place. *)

TemplateHost == CHOOSE h \in Hosts : Len(h) = 1
Template == [Default EXCEPT !.host = TemplateHost]

InitStat(p) ==
    /\ At(p, "idle") /\ edits < MaxEdits
    /\ toml[Here] = {}
    /\ edits' = edits + 1
    /\ Goto(p, "init")
    /\ UNCHANGED <<toml, conf, runs, mixed, told, session>>

InitOpen(p) ==
    /\ At(p, "init")
    /\ toml' = [toml EXCEPT ![Here] = Empty]
    /\ mixed' = mixed \cup ({Here} \cap Dirs)
    /\ Goto(p, "template")
    /\ UNCHANGED <<conf, runs, edits, told, session>>

InitWrite(p) ==
    /\ At(p, "template")
    /\ toml' = [toml EXCEPT ![Here] = {Template}]
    /\ mixed' = mixed \cup ({Here} \cap Dirs)
    /\ Ends(p)
    /\ UNCHANGED <<conf, runs, edits, told, session>>

-----------------------------------------------------------------------------
(* ubo configure. *)

ConfigureLoad(p, path) ==
    /\ At(p, "idle") /\ edits < MaxEdits
    /\ path = Here \/ toml[path] # {}
    /\ edits' = edits + 1
    /\ \E c \in IF toml[path] = {} THEN {Default} ELSE toml[path] :
         proc' = [proc EXCEPT ![p] = [pc |-> "edit", cfg |-> c, path |-> path]]
    /\ UNCHANGED <<toml, conf, runs, mixed, told, session>>

\* An empty answer keeps a field, so a field that is set cannot be cleared.
Answers(c) == {d \in Configs : d.dir = ByHostName => c.dir = ByHostName}

\* The edited config is validated and saved by a rename.
ConfigureSave(p) ==
    /\ At(p, "edit")
    /\ \E c \in Answers(proc[p].cfg) :
         /\ Valid(c)
         /\ toml' = [toml EXCEPT ![proc[p].path] = {c}]
    /\ mixed' = mixed \cup ({proc[p].path} \cap Dirs)
    /\ Ends(p)
    /\ UNCHANGED <<conf, runs, edits, told, session>>

-----------------------------------------------------------------------------
(* ubo run. *)

\* What bootstrapConfig asks for: the host, and with user, port and key some of the
\* rest.
Bootstrapped == [host : Hosts, dir : {ByHostName}, rest : Rest]

\* loadOrBootstrap: --config FILE, else ./ubo.toml, else the answers to prompts.
Loadable(path) == IF path = Here /\ toml[Here] = {} THEN Bootstrapped ELSE toml[path]

\* Mutant: a config is not validated before it is used.
RunLoadsAnything(p, path) ==
    /\ At(p, "idle") /\ runs < MaxRuns
    /\ runs' = runs + 1
    /\ \E c \in Loadable(path) :
         proc' = [proc EXCEPT ![p] = [pc |-> "run", cfg |-> c, path |-> path]]
    /\ UNCHANGED <<toml, conf, edits, mixed, told, session>>

RunLoad(p, path) ==
    /\ At(p, "idle") /\ runs < MaxRuns
    /\ runs' = runs + 1
    /\ \E c \in Loadable(path) :
         /\ Valid(c)
         /\ proc' = [proc EXCEPT ![p] = [pc |-> "run", cfg |-> c, path |-> path]]
    /\ UNCHANGED <<toml, conf, edits, mixed, told, session>>

\* Keys, connection and the setup of the server, which is Provision's matter.
RunConfigures(p) ==
    /\ At(p, "run")
    /\ Goto(p, "save")
    /\ UNCHANGED <<toml, conf, runs, edits, mixed, told, session>>

SaveDir(p) == OutputDir(proc[p].cfg)

\* config.Save has renamed the copy into place.
Saved(p, file) ==
    /\ At(p, "save")
    /\ toml' = [toml EXCEPT ![SaveDir(p)] = file]
    /\ mixed' = IF Overlaps(p) THEN mixed \cup {SaveDir(p)} ELSE mixed \ {SaveDir(p)}
    /\ Goto(p, "conf")
    /\ UNCHANGED <<conf, runs, edits, told, session>>

\* Mutant: an existing copy is left as it is.
SaveCopyOnce(p) ==
    Saved(p, IF toml[SaveDir(p)] = {} THEN {proc[p].cfg} ELSE toml[SaveDir(p)])

\* Mutant: a copy is only saved when there was no ubo.toml to load.
SaveCopyIfAsked(p) ==
    Saved(p, IF toml[Here] = {} THEN {proc[p].cfg} ELSE toml[SaveDir(p)])

SaveCopy(p) == Saved(p, {proc[p].cfg})

\* A copy that could not be saved is a warning.
SaveCopyFails(p) ==
    /\ At(p, "save")
    /\ mixed' = mixed \cup {SaveDir(p)}
    /\ Goto(p, "conf")
    /\ UNCHANGED <<toml, conf, runs, edits, told, session>>

\* writeRunArtifacts: client_wg.conf is truncated and then written.
OpenClientConf(p) ==
    /\ At(p, "conf")
    /\ conf' = [conf EXCEPT ![SaveDir(p)] = Empty]
    /\ Goto(p, "fill")
    /\ UNCHANGED <<toml, runs, edits, mixed, told, session>>

FillClientConf(p) ==
    /\ At(p, "fill")
    /\ conf' = [conf EXCEPT ![SaveDir(p)] = {proc[p].cfg}]
    /\ told' = proc[p].cfg
    /\ Ends(p)
    /\ UNCHANGED <<toml, runs, edits, mixed, session>>

\* An error, a signal or a closed terminal ends a command anywhere.
Quits(p) ==
    /\ ~At(p, "idle")
    /\ mixed' = IF proc[p].pc \in Writing THEN mixed \cup {SaveDir(p)} ELSE mixed
    /\ Ends(p)
    /\ UNCHANGED <<toml, conf, runs, edits, told, session>>

-----------------------------------------------------------------------------
(* ubo unlock: by --config FILE, by HOST, or by the picker over ubo-*.  It *)
(* reads ubo.toml and later client_wg.conf, and other commands may write    *)
(* both in between.  As it writes nothing, one unlock at a time will do; the *)
(* next takes the place of one that has ended, wherever that was.           *)

\* findConfigByHost: the host as it is given.
ByHost(h) == <<"ubo-">> \o h

\* The picker's list, ubo-*/ubo.toml; an output.dir is taken not to be of this
\* form.  One entry is chosen at once, among more the operator chooses.  A file
\* that was listed is there when it is loaded, for none is ever removed.
Listed == {d \in {HostDir(h) : h \in Hosts} : toml[d] # {}}

NoHost == <<>>

\* What `ubo unlock` may be asked for: the host, if one was given, and the path.
Asked ==
    {<<h, ByHost(h)>> : h \in Hosts} \cup {<<NoHost, d>> : d \in Listed}
      \cup {<<NoHost, path>> : path \in Paths}

\* loadUnlockConfig.
UnlockLoad(asked, path) ==
    /\ <<asked, path>> \in Asked /\ path \in Paths
    /\ \E c \in toml[path] :
         /\ Valid(c)
         /\ session' = [pc |-> "loaded", asked |-> asked, path |-> path, cfg |-> c,
                        wg |-> {}]
    /\ UNCHANGED <<toml, conf, proc, runs, edits, mixed, told>>

\* The tunnel comes up with the client_wg.conf of directory d; no file, or an empty
\* one, is refused.
Parsed(d) ==
    /\ session.pc = "loaded"
    /\ conf[d] \notin {{}, Empty}
    /\ session' = [session EXCEPT !.pc = "up", !.wg = conf[d]]
    /\ UNCHANGED <<toml, conf, proc, runs, edits, mixed, told>>

\* Mutant: unlock looks for the other files in the directory named for the host.
UnlockParseByHost == Parsed(HostDir(session.cfg.host))

\* requireUnlockFiles and parseWGConfig, in the output directory that the config
\* names.
UnlockParse == Parsed(OutputDir(session.cfg))

-----------------------------------------------------------------------------
Init ==
    /\ toml = [x \in Paths |-> {}]
    /\ conf = [d \in Dirs |-> {}]
    /\ proc = [p \in Procs |-> Idle]
    /\ runs = 0 /\ edits = 0
    /\ mixed = {}
    /\ told = Default
    /\ session = NoSession

Next ==
    \/ \E p \in Procs :
         \/ InitStat(p) \/ InitOpen(p) \/ InitWrite(p)
         \/ \E path \in Paths : ConfigureLoad(p, path) \/ RunLoad(p, path)
         \/ ConfigureSave(p)
         \/ RunConfigures(p)
         \/ SaveCopy(p) \/ SaveCopyFails(p) \/ OpenClientConf(p) \/ FillClientConf(p)
         \/ Quits(p)
    \/ \E asked \in Hosts \cup {NoHost}, path \in Paths : UnlockLoad(asked, path)
    \/ UnlockParse

Spec == Init /\ [][Next]_vars

-----------------------------------------------------------------------------
(* Properties. *)

\* Types, and that nothing is started from a file `ubo init` is still writing.
TypeOK ==
    /\ toml \in [Paths -> Contents]
    /\ conf \in [Dirs -> Contents]
    /\ \A p \in Procs : /\ proc[p].cfg \in Configs /\ proc[p].path \in Paths
                        /\ proc[p].pc \in Writing \cup {"run"} => Valid(proc[p].cfg)
    /\ runs \in 0..MaxRuns /\ edits \in 0..MaxEdits
    /\ mixed \subseteq Dirs
    /\ told \in Configs
    /\ session.cfg \in Configs /\ session.path \in Paths /\ session.wg \in Contents
    /\ session.pc \in {"none", "loaded", "up"}
    /\ session.pc # "none" => Valid(session.cfg)

\* A directory nobody is writing.
Quiet(d) == \A p \in Procs : proc[p].pc \in Writing => SaveDir(p) # d

\* An output directory's two files are of the same run, whatever ran before for
\* the same or another host, unless a run died or lost its copy between the two
\* (main.go:231, 250), two runs wrote it at once, or the copy was edited since (or
\* made by `ubo init`, where output.dir is ".").
DirectoryAgrees ==
    \A d \in Dirs : Quiet(d) /\ d \notin mixed => toml[d] = conf[d]

\* A name that `ubo unlock HOST` cannot take for another host's: OutputDir writes no
\* other host like it, and no output.dir is of the form it makes of a host.
OwnName(h) ==
    /\ \A g \in Hosts : HostDir(g) = ByHost(h) => g = h
    /\ ByHost(h) \notin OwnDirs

\* `ubo unlock` finds the config by one name and client_wg.conf by another, which
\* it derives again from what the copy says (main.go:608), in two reads (main.go:604,
\* rootless.go:61).  A config loaded from an output directory leads back to that
\* directory, and `ubo unlock HOST` loads HOST's, in whatever order hosts were set up
\* before.  The tunnel is then one of that directory's runs, and HOST's, whatever has
\* been written in between; and it is the tunnel of the config itself, if the copy is
\* still that one.  (A run that saves another config between the two reads leaves
\* unlock with its tunnel and the older config.)
UnlockReachesTheHost ==
    [][ LET s == session' IN
        /\ s # session /\ s.pc = "loaded" /\ s.path \in Dirs \ mixed
             => /\ OutputDir(s.cfg) = s.path
                /\ s.asked # NoHost /\ OwnName(s.asked) => s.cfg.host = s.asked
        /\ s # session /\ s.pc = "up"
             => /\ \A d \in s.wg : OutputDir(d) = OutputDir(s.cfg)
                /\ s.asked # NoHost /\ OwnName(s.asked) /\ OutputDir(s.cfg) = s.path
                   => \A d \in s.wg : d.host = s.asked
                /\ /\ s.path \in Dirs \ mixed /\ Quiet(s.path)
                   /\ toml[s.path] = {s.cfg}
                   => s.wg = {s.cfg} ]_vars

\* `ubo unlock HOST`, as a completed run says to type it (main.go:242), finds a
\* config for that host.
Found(c) == /\ ByHost(c.host) \in Paths
            /\ toml[ByHost(c.host)] # {}

\* "Always save a copy of the config to outDir so that 'ubo unlock <host>' and
\* 'ubo unlock' (picker) find it" (main.go:228): the picker lists the directory of
\* a completed run, and its host is found by name.  Not so where output.dir is
\* set; and a host with colons or brackets is found by the picker alone, for the
\* lookup keeps what OutputDir replaces (main.go:369, config.go:185).
CompletedRunIsFound ==
    told # Default /\ told.dir = ByHostName /\ OutputDir(told) \notin mixed =>
        /\ OutputDir(told) \in Listed
        /\ HostDir(told.host) = ByHost(told.host) => Found(told)
=============================================================================
