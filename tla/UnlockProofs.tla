---------------------------- MODULE UnlockProofs ----------------------------
(***************************************************************************)
(* Unlock's safety theorems, for any number of tries, of things that       *)
(* happen to the server and of invocations.                                *)
(***************************************************************************)
EXTENDS Unlock, TLAPS

\* The connection is there from dial to the end of the session, and carries a
\* command exactly while a session is open on it.
Connected ==
    /\ pc \in {"idle", "wait", "dial", "prompt", "direct"} =>
         link = "none" /\ sessions = 0 /\ remote = "none"
    /\ pc \in {"handshake", "open"} =>
         link # "none" /\ sessions = 0 /\ remote = "none"
    /\ pc = "session" => link # "none" /\ sessions = 1 /\ remote # "none"

\* Before the question an invocation that is to change the passphrase has changed
\* it exactly if its session's command ended well, whether or not that is known.
Changing ==
    pc # "idle" /\ want = "change" =>
        /\ mode = "change"
        /\ ~opened
        /\ changed = IF pc = "prompt" \/ remote = "ok" THEN 1 ELSE 0

\* An invocation that is to unlock has opened the disk exactly if its command
\* ended well, and comes to it by the question or without any change.
Unlocking ==
    pc # "idle" /\ want = "unlock" =>
        /\ pc \notin {"prompt", "direct"}
        /\ opened <=> remote = "ok"
        /\ IF mode = "change" THEN changed = 1 /\ said = "yes" /\ pc # "wait"
                              ELSE changed = 0

\* An invocation is running exactly while its process is, and takes the way over
\* the running system's sshd only as its last session.
UnderWay ==
    /\ pc # "idle" <=> outcome = "running"
    /\ pc # "idle" /\ direct => pc = "session" /\ want = "change"

\* The inductive invariant.
IInv ==
    /\ TypeOK
    /\ changed <= 1
    /\ Connected /\ Changing /\ Unlocking /\ UnderWay
    /\ SuccessTellsTheTruth

Booleans == fed \in BOOLEAN /\ opened \in BOOLEAN /\ direct \in BOOLEAN

\* The client's first state satisfies the invariant.
LEMMA InitEstablishes == Init => IInv
<1> SUFFICES ASSUME Init PROVE IInv
    OBVIOUS
<1>1. Booleans
    BY Zenon DEF Init, Booleans
<1>2. TypeOK
    BY <1>1, UnlockAssumption DEF Init, Booleans, TypeOK
<1> QED
    BY <1>2 DEF Init, IInv, Connected, Changing, Unlocking, UnderWay,
                SuccessTellsTheTruth

\* What is TRUE or FALSE stays so.
LEMMA BooleansStay == ASSUME TypeOK, Next PROVE Booleans'
<1> USE DEF TypeOK, Booleans, machine, ssh, effects, call
<1>1. CASE Begin
    BY <1>1, Zenon DEF Begin
<1>2. CASE ClientStep
  <2>1. CASE TunnelFails \/ ChangeDirectly \/ DialFails \/ HandshakeFails
               \/ UnlockReported \/ SessionFails \/ DirectFails \/ DirectReported
      BY <2>1, Zenon DEF TunnelFails, ChangeDirectly, DialFails, HandshakeFails,
                         UnlockReported, SessionFails, DirectFails, DirectReported, End
  <2>2. CASE TunnelUp \/ TryMisses \/ Dial \/ Handshake \/ OpenSession \/ ChangeReported
      BY <2>2, Zenon DEF TunnelUp, TryMisses, Dial, Handshake, OpenSession,
                         ChangeReported
  <2> QED
      BY <1>2, <2>1, <2>2 DEF ClientStep
<1>3. CASE UserStep
    BY <1>3, Zenon DEF UserStep, Answer, TypePassphrase, LoseLine, Proceed, End
<1>4. CASE ServerStep
    BY <1>4, Zenon DEF ServerStep, CommandEnds, BootOn, ServerChanges, LinkDies
<1> QED
    BY <1>1, <1>2, <1>3, <1>4 DEF Next

USE UnlockAssumption
    DEF IInv, TypeOK, Booleans, Connected, Changing, Unlocking, UnderWay,
        SuccessTellsTheTruth, machine, ssh, effects, call

\* The steps of the client up to the connection keep the invariant.
LEMMA DialStep ==
    ASSUME IInv, Booleans',
           Begin \/ TunnelUp \/ TryMisses \/ TunnelFails \/ ChangeDirectly
             \/ Dial \/ DialFails \/ Handshake \/ HandshakeFails
    PROVE  IInv'
<1>1. CASE Begin
    BY <1>1 DEF Begin
<1>2. CASE TunnelUp
    BY <1>2 DEF TunnelUp
<1>3. CASE TryMisses
    BY <1>3 DEF TryMisses
<1>4. CASE TunnelFails
    BY <1>4 DEF TunnelFails, End
<1>5. CASE ChangeDirectly
    BY <1>5 DEF ChangeDirectly, End
<1>6. CASE Dial
    BY <1>6 DEF Dial
<1>7. CASE DialFails
    BY <1>7 DEF DialFails, End
<1>8. CASE Handshake
    BY <1>8 DEF Handshake
<1>9. CASE HandshakeFails
    BY <1>9 DEF HandshakeFails, End
<1> QED
    BY <1>1, <1>2, <1>3, <1>4, <1>5, <1>6, <1>7, <1>8, <1>9

\* So do the steps of a session.
LEMMA SessionStep ==
    ASSUME IInv, Booleans',
           OpenSession \/ ChangeReported \/ UnlockReported \/ SessionFails
             \/ DirectFails \/ DirectReported
    PROVE  IInv'
<1>1. CASE OpenSession
    BY <1>1 DEF OpenSession
<1>2. CASE ChangeReported
    BY <1>2 DEF ChangeReported
<1>3. CASE UnlockReported
    BY <1>3 DEF UnlockReported, End
<1>4. CASE SessionFails
    BY <1>4 DEF SessionFails, End
<1>5. CASE DirectFails
    BY <1>5 DEF DirectFails, End
<1>6. CASE DirectReported
    BY <1>6 DEF DirectReported, End
<1> QED
    BY <1>1, <1>2, <1>3, <1>4, <1>5, <1>6

\* So does the user, whichever reader of the terminal gets the line.
LEMMA UserKeeps == ASSUME IInv, Booleans', UserStep PROVE IInv'
<1>1. CASE Answer
  <2>1. CASE LoseLine
      BY <1>1, <2>1 DEF Answer, LoseLine, Leftover
  <2>2. CASE Proceed(said')
      BY <1>1, <2>2 DEF Answer, Proceed, End
  <2> QED
      BY <1>1, <2>1, <2>2 DEF Answer
<1>2. CASE TypePassphrase
    BY <1>2 DEF TypePassphrase, LoseLine, Leftover
<1> QED
    BY <1>1, <1>2 DEF UserStep

\* So does the server, whatever becomes of the connection.
LEMMA ServerKeeps == ASSUME IInv, Booleans', ServerStep PROVE IInv'
<1>1. CASE CommandEnds
    BY <1>1 DEF CommandEnds
<1>2. CASE BootOn
    BY <1>2 DEF BootOn, LinkDies
<1>3. CASE ServerChanges
    BY <1>3 DEF ServerChanges, LinkDies
<1> QED
    BY <1>1, <1>2, <1>3 DEF ServerStep

\* So does every step.
LEMMA InvariantStep == IInv /\ [Next]_vars => IInv'
<1> SUFFICES ASSUME IInv, [Next]_vars PROVE IInv'
    OBVIOUS
<1>1. CASE UNCHANGED vars
    BY <1>1 DEF vars
<1>2. CASE Next
    BY <1>2, BooleansStay, DialStep, SessionStep, UserKeeps, ServerKeeps
    DEF Next, ClientStep
<1> QED
    BY <1>1, <1>2

HIDE DEF IInv, TypeOK, SuccessTellsTheTruth

\* The invariant holds throughout.
LEMMA AlwaysIInv == Spec => []IInv
    BY InitEstablishes, InvariantStep, PTL DEF Spec

\* The variables of `ubo unlock` keep their types in every behaviour.
THEOREM TypeCorrect == Spec => []TypeOK
<1>1. IInv => TypeOK
    BY DEF IInv
<1> QED
    BY <1>1, AlwaysIInv, PTL

\* No connection ever carries two sessions (rootless.go:206), although the change
\* and the unlock that follows it need two.
THEOREM AlwaysOneSessionPerConnection == Spec => []OneSessionPerConnection
<1>1. IInv => OneSessionPerConnection
    BY DEF IInv, TypeOK, Connected, OneSessionPerConnection
<1> QED
    BY <1>1, AlwaysIInv, PTL

\* One invocation never changes the passphrase twice (rootless.go:294), by either
\* way in, whenever the server or the connection fails.
THEOREM ChangesAtMostOnce == Spec => []AtMostOneChange
<1>1. IInv => AtMostOneChange
    BY DEF IInv, AtMostOneChange
<1> QED
    BY <1>1, AlwaysIInv, PTL

\* Exit status 0 is never given for work not done (rootless.go:204).
THEOREM SuccessAlwaysTellsTheTruth == Spec => []SuccessTellsTheTruth
<1>1. IInv => SuccessTellsTheTruth
    BY DEF IInv
<1> QED
    BY <1>1, AlwaysIInv, PTL
=============================================================================
