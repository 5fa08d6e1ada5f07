--------------------------- MODULE RemoteClient ---------------------------
(***************************************************************************)
(* internal/remote as `ubo run` and `ubo unlock change` use it.  There is  *)
(* no lasting connection: each command is a new ssh process, which checks  *)
(* the server's host key, is given root by sudo or not, and reads its      *)
(* stdin.  The setup script goes to a fixed path with one command and is   *)
(* executed with another.                                                  *)
(*                                                                         *)
(* A machine stands for its host key.  Runs and their scripts follow one   *)
(* another: two at a time for one server share the script's path, and so   *)
(* does a script that goes on after its connection is lost.  What a run    *)
(* then writes to the path is read by a shell that is still at it, which   *)
(* this module does not show (Provision has the two scripts interleave).   *)
(***************************************************************************)
EXTENDS Naturals, Sequences, SequencesExt

CONSTANTS
    Machines,   \* what the host's address may lead to
    MaxRuns,    \* bound: runs of ubo
    MaxMoves    \* bound: times the address comes to lead elsewhere


\* The known_hosts file of `ubo run` and that of the direct way of unlock change.
RunFile == "ssh_known_hosts"
DirectFile == "known_hosts"
Files == {RunFile, DirectFile}

None == "none"

ASSUME RemoteClientAssumption ==
    /\ MaxRuns \in Nat /\ MaxMoves \in Nat
    /\ None \notin Machines

Password == "password"          \* the line sudo -S is to read
Script(n) == <<n, n>>           \* the setup script of the n-th run, in lines

VARIABLES
    sudo,       \* ssh.sudo
    free,       \* sudo needs no password (NOPASSWD)
    sticky,     \* sudo remembers a password across ssh processes
    remembered, \* machines where it does so now
    at,         \* the machine the address leads to
    moves,
    known,      \* of each file: the machine recorded, or None
    reached,    \* of each file: the machines commands were run on
    pc,         \* what ubo does
    n,          \* runs so far; the script of the n-th run is Script(n)
    pw,         \* c.sudoPassword: None, "right" or "wrong"
    tmp,        \* of each machine: /tmp/ubo-setup.sh
    ran         \* the last script executed: by which run, its lines, and whether
                \* the run sends a password line

server == <<sudo, free, sticky>>
vars == <<server, remembered, at, moves, known, reached, pc, n, pw, tmp, ran>>

NotRun == [by |-> 0, lines |-> Script(0), sends |-> FALSE]

Init ==
    /\ sudo \in BOOLEAN /\ free \in BOOLEAN /\ sticky \in BOOLEAN
    /\ remembered = {}
    /\ at \in Machines /\ moves = 0
    /\ known = [f \in Files |-> None]
    /\ reached = [f \in Files |-> {}]
    /\ pc = "idle" /\ n = 0 /\ pw = None
    /\ tmp = [m \in Machines |-> <<>>]
    /\ ran = NotRun

-----------------------------------------------------------------------------
(* One ssh process. *)

\* Mutant: StrictHostKeyChecking=no.
AcceptsAnyKey(f) ==
    /\ known' = [known EXCEPT ![f] = at]
    /\ reached' = [reached EXCEPT ![f] = @ \cup {at}]

\* StrictHostKeyChecking=accept-new.
Connects(f) ==
    /\ known[f] \in {None, at}
    /\ known' = [known EXCEPT ![f] = at]
    /\ reached' = [reached EXCEPT ![f] = @ \cup {at}]

NeedsNoPassword == free \/ at \in remembered

\* sudoCmd: -S with a password, -n without.
SudoAllows == ~sudo \/ NeedsNoPassword \/ pw = "right"

\* sudoStdin: the password line goes before the command's own input.
SudoStdin(lines) == IF sudo /\ pw # None THEN <<Password>> \o lines ELSE lines

\* What the command finds on its stdin: sudo takes a line when it asks with -S.
Left(lines) ==
    IF sudo /\ pw # None /\ ~NeedsNoPassword THEN Tail(SudoStdin(lines))
                                             ELSE SudoStdin(lines)

\* A password given is remembered on some servers.
Remembers ==
    remembered' = IF sudo /\ sticky /\ pw = "right" THEN remembered \cup {at}
                                                    ELSE remembered

\* A command of a run has succeeded.
Command(from, to) ==
    /\ pc = from /\ pc' = to
    /\ Connects(RunFile) /\ SudoAllows /\ Remembers
    /\ UNCHANGED <<server, at, moves, n>>

-----------------------------------------------------------------------------
(* connectForRun and ensureSudo. *)

\* Mutant: a password is asked for although ssh.sudo is off.
ConnectAsks ==
    /\ pc = "idle" /\ n < MaxRuns
    /\ n' = n + 1
    /\ pw' = None
    /\ pc' = "probe"
    /\ UNCHANGED <<server, remembered, at, moves, known, reached, tmp, ran>>

\* Connect only prepares.
Connect ==
    /\ pc = "idle" /\ n < MaxRuns
    /\ n' = n + 1
    /\ pw' = None
    /\ pc' = IF sudo THEN "probe" ELSE "detect"
    /\ UNCHANGED <<server, remembered, at, moves, known, reached, tmp, ran>>

SudoProbe == Command("probe", "detect") /\ UNCHANGED <<pw, tmp, ran>>

\* The first probe fails for whatever reason, also an unreachable server.
SudoProbeFails ==
    /\ pc = "probe" /\ pc' = "ask"
    /\ UNCHANGED <<server, remembered, at, moves, known, reached, n, pw, tmp, ran>>

\* With an empty answer the commands go on with sudo -n.
SetSudoPassword ==
    /\ pc = "ask" /\ pc' = "verify"
    /\ pw' \in {None, "right", "wrong"}
    /\ UNCHANGED <<server, remembered, at, moves, known, reached, n, tmp, ran>>

SudoVerified == Command("verify", "detect") /\ UNCHANGED <<pw, tmp, ran>>

-----------------------------------------------------------------------------
(* Configure: queries, the upload, the script. *)

\* All RunCommands of step 1, some of which may fail without ending the run.
Detect == Command("detect", "upload") /\ UNCHANGED <<pw, tmp, ran>>

\* WriteFile to /tmp/ubo-setup.sh.
Upload ==
    /\ Command("upload", "execute")
    /\ tmp' = [tmp EXCEPT ![at] = Left(Script(n))]
    /\ UNCHANGED <<pw, ran>>

Shorter(lines) == {SubSeq(lines, 1, k) : k \in 0..(Len(lines) - 1)}

\* Mutant: the result of the upload is not looked at.
UploadCutIgnored ==
    /\ Command("upload", "execute")
    /\ \E lines \in Shorter(Left(Script(n))) : tmp' = [tmp EXCEPT ![at] = lines]
    /\ UNCHANGED <<pw, ran>>

\* The connection breaks: cat has written what it got.
UploadCut ==
    /\ Command("upload", "idle")
    /\ \E lines \in Shorter(Left(Script(n))) : tmp' = [tmp EXCEPT ![at] = lines]
    /\ UNCHANGED <<pw, ran>>

\* RunCommand of sh /tmp/ubo-setup.sh, which has no stdin but the password line.
\* The shell reads the file piece by piece; nobody writes it meanwhile (see above).
Execute ==
    /\ Command("execute", "idle")
    /\ tmp[at] # <<>>
    /\ ran' = [by |-> n, lines |-> tmp[at], sends |-> pw # None]
    /\ UNCHANGED <<pw, tmp>>

\* Any error but that of the first probe ends the run.
Fails ==
    /\ pc \notin {"idle", "probe"} /\ pc' = "idle"
    /\ UNCHANGED <<server, remembered, at, moves, known, reached, n, pw, tmp, ran>>

\* changeKeyDirectSSH: InteractiveSession, where sudo asks on the terminal.
DirectChange ==
    /\ pc = "idle"
    /\ Connects(DirectFile)
    /\ UNCHANGED <<server, remembered, at, moves, pc, n, pw, tmp, ran>>

-----------------------------------------------------------------------------
(* The world outside. *)

\* Another session gives its password, or the time for remembering it is over.
OthersSudo ==
    /\ sudo /\ sticky
    /\ remembered' \in SUBSET Machines
    /\ UNCHANGED <<server, at, moves, known, reached, pc, n, pw, tmp, ran>>

Moves ==
    /\ moves < MaxMoves /\ moves' = moves + 1
    /\ at' \in Machines \ {at}
    /\ UNCHANGED <<server, remembered, known, reached, pc, n, pw, tmp, ran>>

Next ==
    \/ Connect \/ SudoProbe \/ SudoProbeFails \/ SetSudoPassword \/ SudoVerified
    \/ Detect \/ Upload \/ UploadCut \/ Execute \/ Fails \/ DirectChange
    \/ OthersSudo \/ Moves

Spec == Init /\ [][Next]_vars

-----------------------------------------------------------------------------
(* Properties. *)

TypeOK ==
    /\ remembered \subseteq Machines /\ at \in Machines
    /\ known \in [Files -> Machines \cup {None}]
    /\ reached \in [Files -> SUBSET Machines]
    /\ pc \in {"idle", "probe", "ask", "verify", "detect", "upload", "execute"}
    /\ n \in 0..MaxRuns /\ moves \in 0..MaxMoves
    /\ pw \in {None, "right", "wrong"}
    /\ pw # None => sudo
    /\ ran.by \in 0..n

\* What is executed is the whole script of this very run, not what an earlier or a
\* broken upload has left at the same path (setup.go:34), and the password line
\* does not get into it (remote.go:264) on a server that asks each process for it.
RunsItsOwnScript ==
    (ran.sends => ~free /\ ~sticky) => ran.lines = Script(ran.by)

\* "WriteFile writes content to remotePath" (remote.go:312), with sudo asking each
\* process anew or never.
WriteFileWritesContent == ~sticky => ran.lines = Script(ran.by)

\* Each command is a new connection, and still all of them, of this run and of
\* later ones with the same output directory, reach one machine: when the address
\* comes to lead to another, the run fails rather than going on there
\* (remote.go:131).
OneMachinePerFile ==
    \A f \in Files : \A m, o \in reached[f] : m = o
=============================================================================
