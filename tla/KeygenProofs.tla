---------------------------- MODULE KeygenProofs ----------------------------
(***************************************************************************)
(* Keygen's theorems, for any number of draws.  They need the environment  *)
(* to be Careful: a write happens whole or not at all, and of the six      *)
(* files only the commit point may vanish on its own.                      *)
(***************************************************************************)
EXTENDS Keygen, TLAPS

Careful ==
    /\ PartialWrites = FALSE
    /\ LosableFiles \subseteq {ClientSSHPub}

\* While GenerateAll writes, the files before `next` are of the running draw
\* and the commit point is away.
Writing ==
    pc = "gen" =>
        /\ draw \in Draws
        /\ files[ClientSSHPub] = Absent
        /\ \A f \in KeyFiles : f < next => files[f] = draw

\* Outside a run nobody holds keys; in a run they are what the directory holds.
InHand ==
    /\ pc # "done" => keys = NoKeys
    /\ pc = "done" => keys = files /\ Complete(files)

\* The inductive invariant.
IInv ==
    /\ TypeOK
    /\ files[ClientSSHPub] \in Draws \cup {Absent}
    /\ PubCommits
    /\ Writing
    /\ InHand

USE DEF KeyFiles, PublicFiles, PrivateOf, ServerWGPrivate, ServerWGPublic,
        ClientWGPrivate, ClientWGPublic, ClientSSHKey, ClientSSHPub,
        Absent, Empty, Draws, Contents

\* The empty directory satisfies the invariant.
LEMMA InitEstablishes == Init => IInv
<1> USE KeygenAssumption
<1> QED
    BY DEF Init, IInv, TypeOK, PubCommits, Writing, InHand, NoKeys

\* Every step keeps the types, in any environment.
LEMMA TypeStep == TypeOK /\ [Next]_vars => TypeOK'
<1> SUFFICES ASSUME TypeOK, [Next]_vars PROVE TypeOK'
    OBVIOUS
<1> USE KeygenAssumption DEF TypeOK
<1>1. CASE ReuseExisting
    BY <1>1 DEF ReuseExisting
<1>2. CASE StartGenerate
    BY <1>2 DEF StartGenerate
<1>3. CASE WriteKey
  <2>1. draw \in Contents
      BY DEF TypeOK
  <2>2. next # ClientSSHPub => next + 1 \in KeyFiles
      OBVIOUS
  <2>3. files' \in [KeyFiles -> Contents] /\ keys' \in [KeyFiles -> Contents]
      BY <1>3, <2>1 DEF WriteKey
  <2> QED
      BY <1>3, <2>2, <2>3 DEF WriteKey
<1>4. CASE WriteFails
  <2>1. LeftBehind(next) \subseteq Contents
      BY DEF LeftBehind
  <2>2. files' \in [KeyFiles -> Contents]
      BY <1>4, <2>1 DEF WriteFails
  <2> QED
      BY <1>4, <2>2 DEF WriteFails
<1>5. CASE Crash
  <2>1. LeftBehind(next) \subseteq Contents
      BY DEF LeftBehind
  <2> QED
      BY <1>5, <2>1 DEF Crash
<1>6. CASE RunEnds
    BY <1>6 DEF RunEnds, NoKeys
<1>7. CASE DeleteDir
    BY <1>7 DEF DeleteDir, NoKeys
<1>8. CASE LoseFile
    BY <1>8 DEF LoseFile
<1>9. CASE UNCHANGED vars
    BY <1>9 DEF vars
<1> QED
    BY <1>1, <1>2, <1>3, <1>4, <1>5, <1>6, <1>7, <1>8, <1>9 DEF Next

\* The variables of keygen.go keep their types in every behaviour.
THEOREM TypeCorrect == Spec => []TypeOK
<1>1. Init => TypeOK
    BY InitEstablishes DEF IInv
<1> QED
    BY <1>1, TypeStep, PTL DEF Spec

\* A failed write leaves its file as it was when writes are whole.
LEMMA WholeWrites == ASSUME Careful PROVE LeftBehind(next) = {files[next]}
BY DEF Careful, LeftBehind

\* Every step keeps the inductive invariant in a careful environment.
LEMMA InvariantStep ==
    ASSUME Careful PROVE IInv /\ [Next]_vars => IInv'
<1> SUFFICES ASSUME IInv, [Next]_vars PROVE IInv'
    OBVIOUS
<1>0. TypeOK /\ TypeOK'
    BY TypeStep DEF IInv
<1>1. CASE ReuseExisting
    BY <1>0, <1>1
    DEF IInv, TypeOK, ReuseExisting, PubCommits, Writing, InHand, Complete
<1>2. CASE StartGenerate
  <2>1. files[ClientSSHPub] = Absent
      BY <1>2 DEF IInv, PubCommits, StartGenerate, Complete
  <2>2. draw' \in Draws
      BY <1>0, <1>2, KeygenAssumption DEF StartGenerate, TypeOK
  <2> QED
      BY <1>0, <1>2, <2>1, <2>2
      DEF IInv, TypeOK, StartGenerate, PubCommits, Writing, InHand
<1>3. CASE WriteKey
  <2>1. CASE next = ClientSSHPub
    <3>1. \A f \in KeyFiles : files'[f] = draw
        BY <1>0, <1>3, <2>1 DEF IInv, TypeOK, Writing, WriteKey
    <3>2. draw \in Draws
        BY <1>3 DEF IInv, Writing, WriteKey
    <3>3. keys' = files'
        BY <1>0, <1>3, <2>1, <3>1 DEF WriteKey, TypeOK
    <3> QED
        BY <1>0, <1>3, <2>1, <3>1, <3>2, <3>3
        DEF IInv, PubCommits, Writing, InHand, WriteKey, Complete
  <2>2. CASE next # ClientSSHPub
    <3>1. files'[ClientSSHPub] = Absent
        BY <1>0, <1>3, <2>2 DEF IInv, TypeOK, Writing, WriteKey
    <3>2. \A f \in KeyFiles : f < next' => files'[f] = draw
        BY <1>0, <1>3, <2>2 DEF IInv, TypeOK, Writing, WriteKey
    <3> QED
        BY <1>0, <1>3, <2>2, <3>1, <3>2
        DEF IInv, PubCommits, Writing, InHand, WriteKey
  <2> QED
      BY <2>1, <2>2
<1>4. CASE WriteFails
  <2>1. files'[ClientSSHPub] = Absent
      BY <1>0, <1>4, WholeWrites DEF IInv, TypeOK, Writing, WriteFails
  <2> QED
      BY <1>0, <1>4, <2>1
      DEF IInv, PubCommits, Writing, InHand, WriteFails
<1>5. CASE Crash
  <2>1. files' = files
      BY <1>0, <1>5, WholeWrites DEF TypeOK, Crash
  <2> QED
      BY <1>0, <1>5, <2>1
      DEF IInv, PubCommits, Writing, InHand, Crash
<1>6. CASE RunEnds
    BY <1>0, <1>6 DEF IInv, PubCommits, Writing, InHand, RunEnds
<1>7. CASE DeleteDir
    BY <1>0, <1>7
    DEF IInv, PubCommits, Writing, InHand, DeleteDir, NoKeys
<1>8. CASE LoseFile
  <2>1. files' = files \/ files' = [files EXCEPT ![ClientSSHPub] = Absent]
      BY <1>8 DEF LoseFile, Careful
  <2>2. files'[ClientSSHPub] = files[ClientSSHPub] \/ files'[ClientSSHPub] = Absent
      BY <1>0, <2>1 DEF TypeOK
  <2> QED
      BY <1>0, <1>8, <2>1, <2>2
      DEF IInv, PubCommits, Writing, InHand, LoseFile, TypeOK
<1>9. CASE UNCHANGED vars
    BY <1>9
    DEF IInv, TypeOK, PubCommits, Writing, InHand, Complete, vars
<1> QED
    BY <1>1, <1>2, <1>3, <1>4, <1>5, <1>6, <1>7, <1>8, <1>9 DEF Next

\* The inductive invariant holds throughout.
THEOREM Invariance == ASSUME Careful PROVE Spec => []IInv
BY InitEstablishes, InvariantStep, PTL DEF Spec

\* `ubo run` never works with halves of different pairs (keygen.go:31).
THEOREM KeysAlwaysMatch == ASSUME Careful PROVE Spec => []KeysMatch
<1>1. IInv => KeysMatch
    BY DEF IInv, KeysMatch, InHand, Complete, PubCommits
<1> QED
    BY <1>1, Invariance, PTL

\* The last file written commits the other five (keygen.go:67).
THEOREM PubAlwaysCommits == ASSUME Careful PROVE Spec => []PubCommits
<1>1. IInv => PubCommits
    BY DEF IInv
<1> QED
    BY <1>1, Invariance, PTL

\* No step rewrites a file of a complete set (keygen.go:28).
THEOREM CompleteSetAlwaysKept == ASSUME Careful PROVE Spec => CompleteSetIsKept
<1> DEFINE Kept == Complete(files) =>
                     \A f \in KeyFiles : files'[f] \in {files[f], Absent}
<1>1. ASSUME IInv, [Next]_vars PROVE Kept
  <2> SUFFICES ASSUME Complete(files), NEW f \in KeyFiles
               PROVE  files'[f] \in {files[f], Absent}
      OBVIOUS
  <2>1. pc # "gen"
      BY <1>1 DEF IInv, Writing, Complete
  <2>2. files \in [KeyFiles -> Contents]
      BY <1>1 DEF IInv, TypeOK
  <2> QED
      BY <1>1, <2>1, <2>2
      DEF Next, vars, ReuseExisting, StartGenerate, WriteKey, WriteFails,
          Crash, RunEnds, DeleteDir, LoseFile, NoKeys
<1>2. IInv /\ [Next]_vars => [Kept]_vars
    BY <1>1
<1> QED
    BY <1>2, Invariance, PTL DEF Spec, CompleteSetIsKept

-----------------------------------------------------------------------------
(***************************************************************************)
(* The refinement of AtomicKeys.                                           *)
(***************************************************************************)

USE DEF Abstract!NoSet

\* Under the invariant the set of the directory is the draw of its commit
\* point, and an absent commit point means no set.
LEMMA SetOfFiles ==
    ASSUME IInv
    PROVE  /\ files[ClientSSHPub] = Absent => SetOf(files) = 0
           /\ files[ClientSSHPub] # Absent =>
                /\ SetOf(files) = files[ClientSSHPub]
                /\ SetOf(files) \in Draws
BY DEF IInv, PubCommits, SetOf, Complete

\* Nothing in hand is the abstract NoSet.
LEMMA SetOfNoKeys == SetOf(NoKeys) = 0
BY DEF SetOf, Complete, NoKeys

\* The empty directory is the empty store.
LEMMA InitRefines == Init => Abstract!AtomicInit
BY SetOfNoKeys DEF Init, Abstract!AtomicInit

\* Each step of the six files is a step of the atomic store, or none.
LEMMA StepRefines ==
    ASSUME Careful, IInv, IInv', [Next]_vars
    PROVE  [Abstract!AtomicNext]_(Abstract!keyVars)
<1> USE SetOfNoKeys DEF Abstract!AtomicNext
<1>0. TypeOK /\ TypeOK'
    BY DEF IInv
<1>1. CASE ReuseExisting
  <2>1. files[ClientSSHPub] # Absent
      BY <1>1 DEF ReuseExisting, Complete
  <2>2. Abstract!Reuse
      BY <1>1, <2>1, SetOfFiles DEF ReuseExisting, Abstract!Reuse
  <2> QED
      BY <2>2
<1>2. CASE StartGenerate
  <2>1. pc = "idle" /\ pc' = "gen" /\ draw' - 1 = draw
      BY <1>0, <1>2 DEF StartGenerate, TypeOK
  <2>2. UNCHANGED <<files, keys>>
      BY <1>2 DEF StartGenerate
  <2>3. UNCHANGED Abstract!keyVars
      BY <2>1, <2>2 DEF Abstract!keyVars, SetOf, Complete
  <2> QED
      BY <2>3
<1>3. CASE WriteKey
  <2>1. CASE next = ClientSSHPub
    <3>1. files[ClientSSHPub] = Absent
        BY <1>3 DEF IInv, Writing, WriteKey
    <3>2. \A f \in KeyFiles : files'[f] = draw
        BY <1>0, <1>3, <2>1 DEF IInv, TypeOK, Writing, WriteKey
    <3>3. draw \in Draws /\ draw' = draw /\ pc = "gen" /\ pc' = "done"
        BY <1>3, <2>1 DEF IInv, Writing, WriteKey
    <3>4. SetOf(files)' = draw /\ SetOf(keys)' = draw
        BY <1>3, <2>1, <3>2, <3>3 DEF SetOf, Complete, WriteKey
    <3>5. SetOf(files) = 0
        BY <3>1, SetOfFiles
    <3>6. Abstract!Generate
        BY <1>0, <3>3, <3>4, <3>5, KeygenAssumption DEF Abstract!Generate, TypeOK
    <3> QED
        BY <3>6
  <2>2. CASE next # ClientSSHPub
    <3>1. files[ClientSSHPub] = Absent /\ files'[ClientSSHPub] = Absent
        BY <1>0, <1>3, <2>2 DEF IInv, TypeOK, Writing, WriteKey
    <3>2. SetOf(files) = 0 /\ SetOf(files)' = 0
        BY <3>1 DEF SetOf, Complete
    <3>3. UNCHANGED <<keys, pc, draw>>
        BY <1>3, <2>2 DEF WriteKey
    <3>4. UNCHANGED Abstract!keyVars
        BY <3>2, <3>3 DEF Abstract!keyVars, SetOf, Complete
    <3> QED
        BY <3>4
  <2> QED
      BY <2>1, <2>2
<1>4. CASE WriteFails \/ Crash
  <2>1. pc = "gen" /\ pc' = "idle" /\ UNCHANGED <<draw, keys>> /\ draw \in Draws
      BY <1>4 DEF IInv, Writing, WriteFails, Crash
  <2>2. files[ClientSSHPub] = Absent /\ files'[ClientSSHPub] = Absent
      BY <1>0, <1>4, <2>1, WholeWrites
      DEF IInv, Writing, TypeOK, WriteFails, Crash
  <2>3. SetOf(files) = 0 /\ SetOf(files)' = 0
      BY <2>2 DEF SetOf, Complete
  <2>4. keys' = NoKeys
      BY <2>1 DEF IInv, InHand
  <2>5. SetOf(keys)' = 0
      BY <2>4 DEF SetOf, Complete, NoKeys
  <2>6. Abstract!Abandon
      BY <2>1, <2>3, <2>5, KeygenAssumption DEF Abstract!Abandon
  <2> QED
      BY <2>6
<1>5. CASE RunEnds
  <2>1. SetOf(keys)' = 0 /\ SetOf(files)' = SetOf(files)
      BY <1>5 DEF RunEnds, SetOf, Complete, NoKeys
  <2>2. Abstract!Release
      BY <1>5, <2>1 DEF RunEnds, Abstract!Release
  <2> QED
      BY <2>2
<1>6. CASE DeleteDir \/ LoseFile
  <2>1. pc = "idle" /\ UNCHANGED <<pc, draw, keys>>
      BY <1>6 DEF DeleteDir, LoseFile
  <2>2. files'[ClientSSHPub] = Absent \/ files' = files
      BY <1>0, <1>6 DEF Careful, TypeOK, DeleteDir, LoseFile, NoKeys
  <2>3. keys' = NoKeys
      BY <2>1 DEF IInv, InHand
  <2>4. SetOf(keys)' = 0
      BY <2>3 DEF SetOf, Complete, NoKeys
  <2>5. CASE files'[ClientSSHPub] = Absent
    <3>1. SetOf(files)' = 0
        BY <2>5 DEF SetOf, Complete
    <3>2. Abstract!Discard
        BY <2>1, <2>4, <3>1 DEF Abstract!Discard
    <3> QED
        BY <3>2
  <2>6. CASE files' = files
      BY <2>1, <2>6 DEF Abstract!keyVars, SetOf, Complete
  <2> QED
      BY <2>2, <2>5, <2>6
<1>7. CASE UNCHANGED vars
    BY <1>7 DEF vars, Abstract!keyVars, SetOf, Complete
<1> QED
    BY <1>1, <1>2, <1>3, <1>4, <1>5, <1>6, <1>7 DEF Next

\* GenerateAll's files implement an atomic store of key sets (keygen.go:31).
THEOREM KeygenImplementsAtomicKeys == ASSUME Careful PROVE Spec => AtomicKeySpec
<1>1. IInv /\ IInv' /\ [Next]_vars => [Abstract!AtomicNext]_(Abstract!keyVars)
    BY StepRefines
<1> QED
    BY <1>1, InitRefines, Invariance, PTL
    DEF Spec, AtomicKeySpec, Abstract!AtomicSpec
=============================================================================
