------------------------------- MODULE Keygen -------------------------------
(***************************************************************************)
(* internal/keygen: the six key files of an output directory and           *)
(* GenerateAll, which reuses them when all are there and otherwise writes  *)
(* three pairs one file at a time.  Calls may fail at any write, and the   *)
(* process may be killed between any two of them.                          *)
(*                                                                         *)
(* A file's content is abstracted to the draw of randomness it comes from: *)
(* the two halves of a pair belong together exactly when their draws are   *)
(* equal.  The content Empty is what os.WriteFile leaves between its       *)
(* truncation of the file and its write.                                   *)
(***************************************************************************)
EXTENDS Integers

CONSTANTS
    MaxDraws,       \* bound: calls of GenerateAll that draw new keys
    PartialWrites,  \* TRUE if a failed or killed write may leave its file changed
    LosableFiles    \* the files an operator may lose one at a time

(***************************************************************************)
(* The files in the order GenerateAll writes them.                         *)
(***************************************************************************)
ServerWGPrivate == 1    \* server_wg_private.key
ServerWGPublic  == 2    \* server_wg_public.key
ClientWGPrivate == 3    \* client_wg_private.key
ClientWGPublic  == 4    \* client_wg_public.key
ClientSSHKey    == 5    \* client_auth_ed25519
ClientSSHPub    == 6    \* client_auth_ed25519.pub

KeyFiles == 1..6
PublicFiles == {ServerWGPublic, ClientWGPublic, ClientSSHPub}
PrivateOf(pub) == pub - 1

ASSUME KeygenAssumption ==
    /\ MaxDraws \in Nat
    /\ PartialWrites \in BOOLEAN
    /\ LosableFiles \subseteq KeyFiles

Absent == -1
Empty == 0
Draws == 1..MaxDraws
Contents == {Absent, Empty} \cup Draws

NoKeys == [f \in KeyFiles |-> Absent]

VARIABLES
    files,  \* content of each key file in the output directory
    pc,     \* "idle": no `ubo run`; "gen": writing; "done": keys in hand
    next,   \* the file GenerateAll writes next
    draw,   \* draws made so far; the running call writes this one
    keys    \* the Keys the running `ubo run` was given, or NoKeys

vars == <<files, pc, next, draw, keys>>

TypeOK ==
    /\ files \in [KeyFiles -> Contents]
    /\ pc \in {"idle", "gen", "done"}
    /\ next \in KeyFiles
    /\ draw \in 0..MaxDraws
    /\ keys \in [KeyFiles -> Contents]

(***************************************************************************)
(* loadExisting asks that five files can be read and the sixth exists; it  *)
(* looks at no content.                                                    *)
(***************************************************************************)
Complete(fs) == \A f \in KeyFiles : fs[f] # Absent

Init ==
    /\ files = NoKeys
    /\ pc = "idle"
    /\ next = ServerWGPrivate
    /\ draw = 0
    /\ keys = NoKeys

\* GenerateAll with loadExisting successful: the files are the answer.
ReuseExisting ==
    /\ pc = "idle"
    /\ Complete(files)
    /\ pc' = "done"
    /\ keys' = files
    /\ UNCHANGED <<files, next, draw>>

\* Mutant: a call picks up at the first missing file, with a new draw.
StartResumes ==
    /\ pc = "idle"
    /\ ~Complete(files)
    /\ draw < MaxDraws
    /\ pc' = "gen"
    /\ draw' = draw + 1
    /\ next' = CHOOSE f \in KeyFiles : /\ files[f] = Absent
                                      /\ \A g \in 1..f-1 : files[g] # Absent
    /\ UNCHANGED <<files, keys>>

\* Mutant: a call generates whatever is there.
StartRegenerates ==
    /\ pc = "idle"
    /\ draw < MaxDraws
    /\ pc' = "gen"
    /\ draw' = draw + 1
    /\ next' = ServerWGPrivate
    /\ UNCHANGED <<files, keys>>

\* GenerateAll with something missing: all six files will be written.
StartGenerate ==
    /\ pc = "idle"
    /\ ~Complete(files)
    /\ draw < MaxDraws
    /\ pc' = "gen"
    /\ draw' = draw + 1
    /\ next' = ServerWGPrivate
    /\ UNCHANGED <<files, keys>>

\* Mutant: the writes do not end with the last file.
WriteRunsOn ==
    /\ pc = "gen"
    /\ files' = [files EXCEPT ![next] = draw]
    /\ next' = next + 1
    /\ UNCHANGED <<pc, keys, draw>>

\* Mutant: the SSH pair is written public half first.
WritePubFirst ==
    /\ pc = "gen"
    /\ LET f == CASE next = ClientSSHKey -> ClientSSHPub
                  [] next = ClientSSHPub -> ClientSSHKey
                  [] OTHER -> next
       IN  files' = [files EXCEPT ![f] = draw]
    /\ IF next = ClientSSHPub
         THEN /\ pc' = "done"
              /\ keys' = [f \in KeyFiles |-> draw]
              /\ UNCHANGED next
         ELSE /\ next' = next + 1
              /\ UNCHANGED <<pc, keys>>
    /\ UNCHANGED draw

\* The next WriteFile succeeds; after the last one GenerateAll returns.
WriteKey ==
    /\ pc = "gen"
    /\ files' = [files EXCEPT ![next] = draw]
    /\ IF next = ClientSSHPub
         THEN /\ pc' = "done"
              /\ keys' = [f \in KeyFiles |-> draw]
              /\ UNCHANGED next
         ELSE /\ next' = next + 1
              /\ UNCHANGED <<pc, keys>>
    /\ UNCHANGED draw

\* What a write that does not succeed leaves in its file.
LeftBehind(f) ==
    {files[f]} \cup (IF PartialWrites THEN {Empty, draw} ELSE {})

\* Mutant: the error of a WriteFile is not looked at.
WriteErrorIgnored ==
    /\ pc = "gen"
    /\ pc' = "done"
    /\ keys' = [f \in KeyFiles |-> draw]
    /\ UNCHANGED <<files, next, draw>>

(***************************************************************************)
(* A WriteFile fails and GenerateAll with it.  When it was the public half *)
(* of a pair the private half just written is removed; the result of that  *)
(* os.Remove is ignored, so the removal may fail too.                      *)
(***************************************************************************)
WriteFails ==
    /\ pc = "gen"
    /\ \E c \in LeftBehind(next) :
         \/ files' = [files EXCEPT ![next] = c]
         \/ /\ next \in PublicFiles
            /\ files' = [files EXCEPT ![next] = c, ![PrivateOf(next)] = Absent]
    /\ pc' = "idle"
    /\ UNCHANGED <<next, draw, keys>>

\* The process is killed, possibly inside the write.
Crash ==
    /\ pc = "gen"
    /\ \E c \in LeftBehind(next) : files' = [files EXCEPT ![next] = c]
    /\ pc' = "idle"
    /\ UNCHANGED <<next, draw, keys>>

\* `ubo run` ends, for whatever reason, after GenerateAll returned.
RunEnds ==
    /\ pc = "done"
    /\ pc' = "idle"
    /\ keys' = NoKeys
    /\ UNCHANGED <<files, next, draw>>

\* The operator deletes the output directory, as GenerateAll's comment says
\* to do for fresh keys.
DeleteDir ==
    /\ pc = "idle"
    /\ files' = NoKeys
    /\ UNCHANGED <<pc, next, draw, keys>>

\* The operator loses one file.
LoseFile ==
    /\ pc = "idle"
    /\ \E f \in LosableFiles : files' = [files EXCEPT ![f] = Absent]
    /\ UNCHANGED <<pc, next, draw, keys>>

Next ==
    \/ ReuseExisting
    \/ StartGenerate
    \/ WriteKey
    \/ WriteFails
    \/ Crash
    \/ RunEnds
    \/ DeleteDir
    \/ LoseFile

Spec == Init /\ [][Next]_vars

(***************************************************************************)
(* Properties.                                                             *)
(***************************************************************************)

\* The halves of each pair in the keys `ubo run` works with belong together,
\* and the SSH public key it will deploy belongs to the private key on disk,
\* which is the one `ubo unlock` will use (GenerateAll, keygen.go:31).
KeysMatch ==
    pc = "done" =>
        /\ keys[ServerWGPublic] = keys[ServerWGPrivate]
        /\ keys[ClientWGPublic] = keys[ClientWGPrivate]
        /\ keys[ClientSSHPub] = files[ClientSSHKey]

\* client_auth_ed25519.pub is the commit point of the six writes: it is there
\* only together with five other files of the very same draw.  This is what
\* makes loadExisting's look at mere existence enough (keygen.go:67).
PubCommits ==
    files[ClientSSHPub] # Absent =>
        \A f \in KeyFiles : files[f] = files[ClientSSHPub]

\* A complete set is never rewritten, not even by a call that fails: a file of
\* it can only disappear (keygen.go:28, "makes re-running idempotent").
CompleteSetIsKept ==
    [][ Complete(files) =>
          \A f \in KeyFiles : files'[f] \in {files[f], Absent} ]_vars

(***************************************************************************)
(* The refinement: the directory holds a set when its commit point is      *)
(* there, and a draw is spent unless the running call may still store it.  *)
(***************************************************************************)
Mixed == -2

SetOf(fs) ==
    IF ~Complete(fs) THEN 0
    ELSE IF \A f \in KeyFiles : fs[f] = fs[ClientSSHPub]
           THEN fs[ClientSSHPub]
           ELSE Mixed

Abstract == INSTANCE AtomicKeys WITH
    store  <- SetOf(files),
    answer <- SetOf(keys),
    spent  <- IF pc = "gen" THEN draw - 1 ELSE draw

\* GenerateAll with its six files behaves as one atomic key store.
AtomicKeySpec == Abstract!AtomicSpec
=============================================================================
