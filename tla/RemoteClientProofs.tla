------------------------- MODULE RemoteClientProofs -------------------------
(***************************************************************************)
(* RemoteClient's theorems, for any machines and any number of runs.       *)
(***************************************************************************)
EXTENDS RemoteClient, TLAPS

\* What has been reached is what known_hosts records.
Recorded == \A f \in Files : reached[f] = {known[f]} \ {None}

\* Sudo is only probed and asked about when it is wanted.
AskedForSudo == pc \in {"probe", "ask", "verify"} => sudo

\* A server that asks each process remembers nothing.
NothingRemembered == ~sticky => remembered = {}

\* Between upload and execution the machine that is recorded, and hence the only
\* one the next command can reach, has the script of this run.
Uploaded ==
    pc = "execute" /\ (pw # None => ~free /\ ~sticky) =>
        known[RunFile] # None /\ tmp[known[RunFile]] = Script(n)

\* The inductive invariant.
IInv ==
    /\ TypeOK
    /\ DOMAIN tmp = Machines
    /\ AskedForSudo
    /\ Recorded
    /\ NothingRemembered
    /\ Uploaded
    /\ RunsItsOwnScript

USE DEF Files, RunFile, DirectFile, None

\* The password line that sudo reads leaves the lines after it as they were.
LEMMA TailOfSent ==
    ASSUME NEW S, NEW x \in S, NEW s \in Seq(S) PROVE Tail(<<x>> \o s) = s
<1>1. Len(<<x>> \o s) = Len(s) + 1
    OBVIOUS
<1>2. Tail(<<x>> \o s) \in Seq(S) /\ Len(Tail(<<x>> \o s)) = Len(s)
    BY <1>1
<1>3. \A i \in 1..Len(s) : Tail(<<x>> \o s)[i] = s[i]
    BY <1>1
<1> QED
    BY <1>2, <1>3

\* What cat or the shell reads is the script, unless sudo leaves the password line.
LEMMA ScriptArrives ==
    ASSUME NothingRemembered, pw # None => sudo /\ ~free /\ ~sticky
    PROVE  Left(Script(n)) = Script(n)
<1>1. CASE pw = None
    BY <1>1 DEF Left, SudoStdin
<1>2. CASE pw # None
  <2>1. sudo /\ ~NeedsNoPassword
      BY <1>2 DEF NothingRemembered, NeedsNoPassword
  <2>2. Left(Script(n)) = Tail(<<Password>> \o Script(n))
      BY <1>2, <2>1 DEF Left, SudoStdin
  <2>3. Script(n) \in Seq({Password, n}) /\ Password \in {Password, n}
      BY DEF Script
  <2> QED
      BY <2>2, <2>3, TailOfSent
<1> QED
    BY <1>1, <1>2

\* The first state satisfies the invariant.
LEMMA InitEstablishes == Init => IInv
    BY RemoteClientAssumption
    DEF Init, IInv, TypeOK, AskedForSudo, Recorded, NothingRemembered, Uploaded,
        RunsItsOwnScript, NotRun

\* A command keeps what is recorded and what is reached together, and reaches the
\* machine that is recorded, if one is.
LEMMA CommandReaches ==
    ASSUME TypeOK, Recorded, NEW f \in Files, Connects(f)
    PROVE  /\ known' \in [Files -> Machines \cup {None}]
           /\ reached' \in [Files -> SUBSET Machines]
           /\ Recorded'
           /\ known'[f] = at /\ (known[f] # None => known[f] = at)
    BY RemoteClientAssumption DEF TypeOK, Recorded, Connects

\* Nothing but what sticky servers are told is remembered.
LEMMA StaysForgotten ==
    ASSUME TypeOK, NothingRemembered, Remembers, UNCHANGED server
    PROVE  remembered' \subseteq Machines /\ NothingRemembered'
    BY DEF TypeOK, NothingRemembered, Remembers, server

\* Every step keeps the types.
LEMMA TypeStep == IInv /\ [Next]_vars => TypeOK' /\ AskedForSudo'
<1> SUFFICES ASSUME IInv, [Next]_vars PROVE TypeOK' /\ AskedForSudo'
    OBVIOUS
<1> USE RemoteClientAssumption DEF IInv, TypeOK, AskedForSudo, server
<1>1. CASE Connect
    BY <1>1 DEF Connect
<1>2. ASSUME NEW from, NEW to, Command(from, to),
             to \in {"detect", "upload", "execute", "idle"},
             UNCHANGED pw, ran'.by = ran.by \/ ran'.by = n
      PROVE  TypeOK' /\ AskedForSudo'
  <2>1. RunFile \in Files /\ Connects(RunFile) /\ Remembers /\ UNCHANGED server
      BY <1>2 DEF Command
  <2>2. /\ known' \in [Files -> Machines \cup {None}]
        /\ reached' \in [Files -> SUBSET Machines]
      BY <2>1, CommandReaches
  <2>3. remembered' \subseteq Machines
      BY <2>1, StaysForgotten
  <2> QED
      BY <1>2, <2>2, <2>3 DEF Command
<1>3. CASE SudoProbe \/ SudoVerified \/ Detect
    BY <1>2, <1>3 DEF SudoProbe, SudoVerified, Detect
<1>4. CASE Upload \/ UploadCut
    BY <1>2, <1>4 DEF Upload, UploadCut
<1>5. CASE Execute
    BY <1>2, <1>5 DEF Execute
<1>6. CASE SudoProbeFails \/ SetSudoPassword \/ Fails
    BY <1>6 DEF SudoProbeFails, SetSudoPassword, Fails
<1>7. CASE DirectChange
    BY <1>7, CommandReaches DEF DirectChange
<1>8. CASE OthersSudo \/ Moves
    BY <1>8 DEF OthersSudo, Moves
<1>9. CASE UNCHANGED vars
    BY <1>9 DEF vars
<1> QED
    BY <1>1, <1>3, <1>4, <1>5, <1>6, <1>7, <1>8, <1>9 DEF Next

\* Every step keeps the rest of the invariant: only commands connect, only Upload
\* leaves a script to be executed, and only Execute runs one.
LEMMA InvariantStep == IInv /\ [Next]_vars => IInv'
<1> SUFFICES ASSUME IInv, [Next]_vars PROVE IInv'
    OBVIOUS
<1>1. TypeOK' /\ AskedForSudo'
    BY TypeStep
<1>2. ASSUME NEW from, NEW to, Command(from, to)
      PROVE  Recorded' /\ NothingRemembered' /\ UNCHANGED <<sticky, free, n>>
    BY <1>2, CommandReaches, StaysForgotten DEF Command, IInv, server
<1>3. ASSUME NEW from, NEW to, Command(from, to), to # "execute",
             DOMAIN tmp' = Machines, UNCHANGED ran
      PROVE  IInv'
    BY <1>1, <1>2, <1>3 DEF Command, IInv, Uploaded, RunsItsOwnScript
<1>4. CASE Connect \/ SudoProbeFails \/ SetSudoPassword \/ Fails
  <2>1. /\ UNCHANGED <<server, remembered, known, reached, tmp, ran>>
        /\ pc' # "execute"
      BY <1>4 DEF Connect, SudoProbeFails, SetSudoPassword, Fails
  <2> QED
      BY <1>1, <2>1
      DEF IInv, server, Recorded, NothingRemembered, Uploaded, RunsItsOwnScript
<1>5. CASE SudoProbe \/ SudoVerified \/ Detect
    BY <1>3, <1>5 DEF SudoProbe, SudoVerified, Detect, IInv
<1>6. CASE Upload
  <2>1. /\ tmp' = [tmp EXCEPT ![at] = Left(Script(n))]
        /\ UNCHANGED <<pw, ran>>
        /\ Connects(RunFile)
      BY <1>6 DEF Upload, Command
  <2>2. Recorded' /\ NothingRemembered' /\ UNCHANGED <<sticky, free, n>>
      BY <1>2, <1>6 DEF Upload
  <2>3. known'[RunFile] = at /\ at \in Machines /\ at # None
      BY <2>1, CommandReaches, RemoteClientAssumption DEF IInv, TypeOK
  <2>4. tmp'[at] = Left(Script(n)) /\ DOMAIN tmp' = Machines
      BY <2>1, <2>3 DEF IInv
  <2>5. Uploaded'
    <3> SUFFICES ASSUME pw # None => ~free /\ ~sticky PROVE tmp'[at] = Script(n)
        BY <2>1, <2>2, <2>3 DEF Uploaded, Script
    <3> QED
        BY <2>4, ScriptArrives DEF IInv, TypeOK
  <2> QED
      BY <1>1, <2>1, <2>2, <2>4, <2>5 DEF IInv, RunsItsOwnScript, Script
<1>7. CASE UploadCut
  <2>1. DOMAIN tmp' = Machines
      BY <1>7 DEF UploadCut, IInv
  <2> QED
      BY <1>3, <1>7, <2>1 DEF UploadCut
<1>8. CASE Execute
  <2>1. /\ pc = "execute" /\ pc' = "idle"
        /\ Connects(RunFile)
        /\ ran' = [by |-> n, lines |-> tmp[at], sends |-> pw # None]
        /\ UNCHANGED <<pw, tmp>>
      BY <1>8 DEF Execute, Command
  <2>2. Recorded' /\ NothingRemembered' /\ UNCHANGED <<sticky, free, n>>
      BY <1>2, <1>8 DEF Execute
  <2>3. known[RunFile] # None => known[RunFile] = at
      BY <2>1, CommandReaches DEF IInv
  <2>4. RunsItsOwnScript'
      BY <2>1, <2>2, <2>3 DEF IInv, Uploaded, RunsItsOwnScript, Script
  <2> QED
      BY <1>1, <2>1, <2>2, <2>4 DEF IInv, Uploaded
<1>9. CASE DirectChange
  <2>1. Recorded'
      BY <1>9, CommandReaches DEF DirectChange, IInv
  <2>2. /\ known'[RunFile] = known[RunFile]
        /\ UNCHANGED <<server, remembered, pc, n, pw, tmp, ran>>
      BY <1>9 DEF DirectChange, Connects, IInv, TypeOK
  <2> QED
      BY <1>1, <2>1, <2>2
      DEF IInv, server, NothingRemembered, Uploaded, RunsItsOwnScript, Script
<1>10. CASE OthersSudo \/ Moves \/ UNCHANGED vars
  <2>1. /\ UNCHANGED <<server, known, reached, pc, n, pw, tmp, ran>>
        /\ sticky \/ UNCHANGED remembered
      BY <1>10 DEF OthersSudo, Moves, vars
  <2> QED
      BY <1>1, <2>1
      DEF IInv, server, Recorded, NothingRemembered, Uploaded, RunsItsOwnScript, Script
<1> QED
    BY <1>4, <1>5, <1>6, <1>7, <1>8, <1>9, <1>10 DEF Next

\* The invariant holds throughout.
LEMMA AlwaysIInv == Spec => []IInv
    BY InitEstablishes, InvariantStep, PTL DEF Spec

\* The type invariant, for any machines: no password is held without ssh.sudo.
THEOREM TypeCorrect == Spec => []TypeOK
<1>1. IInv => TypeOK
    BY DEF IInv
<1> QED
    BY <1>1, AlwaysIInv, PTL

\* What a run executes (setup.go:37) is the whole script it uploaded (setup.go:34),
\* however uploads broke and wherever the address led before.
THEOREM AlwaysRunsItsOwnScript == Spec => []RunsItsOwnScript
<1>1. IInv => RunsItsOwnScript
    BY DEF IInv
<1> QED
    BY <1>1, AlwaysIInv, PTL

\* The commands that trust one known_hosts file reach one machine
\* (remote.go:131), for ever and however often the address moves.
THEOREM AlwaysOneMachinePerFile == Spec => []OneMachinePerFile
<1>1. IInv => OneMachinePerFile
    BY DEF IInv, Recorded, OneMachinePerFile
<1> QED
    BY <1>1, AlwaysIInv, PTL
=============================================================================
