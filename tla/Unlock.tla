------------------------------- MODULE Unlock -------------------------------
(***************************************************************************)
(* `ubo unlock` and `ubo unlock change` (contrib/rootless) against a       *)
(* server that boots: the wait for the tunnel, the SSH connections to      *)
(* Dropbear, the sessions that run luksChangeKey and cryptroot-unlock, the *)
(* question between them, the way out over the running system's sshd, and  *)
(* the terminal they all read from.  The server may be rebooted, or        *)
(* unlocked from its console, at any moment.                               *)
(***************************************************************************)
EXTENDS Integers

CONSTANTS
    MaxDials,      \* bound: tries of waitTunnel before its deadline
    MaxEvents,     \* bound: things that happen to the server on their own
    MaxRuns        \* bound: invocations of `ubo unlock`

ASSUME UnlockAssumption ==
    /\ MaxDials \in Nat \ {0}
    /\ MaxEvents \in Nat /\ MaxRuns \in Nat

VARIABLES
    server,    \* "off", "initramfs" (tunnel and Dropbear up) or "running"
    events,    \* things that happened to it
    mode,      \* of the latest invocation: "unlock" or "change"
    pc,        \* "idle", "wait", "dial", "handshake", "open", "session",
               \* "prompt" or "direct"
    dials,     \* tries of waitTunnel
    want,      \* what the next or running session is for
    link,      \* TCP connection: "none", "up", "broken" or "silent"
    sessions,  \* sessions opened on it
    remote,    \* the session's command: "none", "running", "ok" or "bad"
    fed,       \* the command got the lines the user typed for it
    said,      \* the latest answer typed at the question, or "none"
    readers,   \* who is blocked reading the terminal
    changed,   \* passphrase changes this invocation made
    opened,    \* this invocation's cryptroot-unlock opened the disk
    direct,    \* the running system's sshd was used
    runs,
    outcome    \* of the latest invocation: "none", "running", "ok", "error"

machine == <<server, events>>
ssh     == <<link, sessions, remote, fed>>
effects == <<changed, opened, direct>>
call    == <<mode, runs>>
vars == <<machine, call, pc, dials, want, ssh, said, readers, effects, outcome>>

TypeOK ==
    /\ server \in {"off", "initramfs", "running"} /\ events \in 0..MaxEvents
    /\ mode \in {"unlock", "change"}
    /\ pc \in {"idle", "wait", "dial", "handshake", "open", "session",
               "prompt", "direct"}
    /\ dials \in 0..MaxDials
    /\ want \in {"change", "unlock"}
    /\ link \in {"none", "up", "broken", "silent"}
    /\ sessions \in 0..2
    /\ remote \in {"none", "running", "ok", "bad"} /\ fed \in BOOLEAN
    /\ said \in {"none", "yes", "no"}
    /\ readers \subseteq {"change", "prompt", "unlock"}
    /\ changed \in 0..2 /\ opened \in BOOLEAN /\ direct \in BOOLEAN
    /\ runs \in 0..MaxRuns
    /\ outcome \in {"none", "running", "ok", "error"}

Init ==
    /\ server \in {"off", "initramfs", "running"} /\ events = 0
    /\ mode = "unlock" /\ pc = "idle" /\ dials = 0 /\ want = "unlock"
    /\ link = "none" /\ sessions = 0 /\ remote = "none" /\ fed = FALSE
    /\ said = "none" /\ readers = {}
    /\ changed = 0 /\ opened = FALSE /\ direct = FALSE
    /\ runs = 0 /\ outcome = "none"

-----------------------------------------------------------------------------
(* The client. *)

\* cmdUnlock found its files and the WireGuard device is up.
Begin ==
    /\ pc = "idle"
    /\ runs < MaxRuns
    /\ runs' = runs + 1
    /\ mode' \in {"unlock", "change"}
    /\ want' = mode'
    /\ pc' = "wait" /\ dials' = 0
    /\ said' = "none"
    /\ changed' = 0 /\ opened' = FALSE /\ direct' = FALSE
    /\ outcome' = "running"
    /\ UNCHANGED <<machine, ssh, readers>>

\* The process ends; the connection and all readers of the terminal go with it.
End(result) ==
    /\ pc' = "idle" /\ outcome' = result
    /\ link' = "none" /\ sessions' = 0 /\ remote' = "none" /\ fed' = FALSE
    /\ readers' = {}
    /\ UNCHANGED <<call, dials, want>>

\* waitTunnel: a try reaches Dropbear; its connection is closed again.
TunnelUp ==
    /\ pc = "wait" /\ dials < MaxDials
    /\ server = "initramfs"
    /\ pc' = "dial"
    /\ UNCHANGED <<machine, call, dials, want, ssh, said, readers, effects, outcome>>

\* Mutant: the deadline is not looked at before a try.
TryPastDeadline ==
    /\ pc = "wait"
    /\ dials' = dials + 1
    /\ UNCHANGED <<machine, call, pc, want, ssh, said, readers, effects, outcome>>

\* Mutant: each try moves the deadline.
TryForever ==
    /\ pc = "wait" /\ dials < MaxDials
    /\ UNCHANGED vars

\* A try ends without a connection.
TryMisses ==
    /\ pc = "wait" /\ dials < MaxDials
    /\ dials' = dials + 1
    /\ UNCHANGED <<machine, call, pc, want, ssh, said, readers, effects, outcome>>

\* handleTunnelFailure
TunnelFails ==
    /\ pc = "wait" /\ dials = MaxDials
    /\ \/ /\ mode = "unlock"
          /\ End("error")
       \/ /\ mode = "change"
          /\ pc' = "direct"
          /\ UNCHANGED <<call, dials, want, ssh, readers, outcome>>
    /\ UNCHANGED <<machine, said, effects>>

\* changeKeyDirectSSH: an `ssh -t` to the running system has connected and
\* started luksChangeKey there.  From here on nothing limits its time either.
ChangeDirectly ==
    /\ pc = "direct"
    /\ server = "running"
    /\ pc' = "session" /\ direct' = TRUE
    /\ link' = "up" /\ sessions' = 1 /\ remote' = "running" /\ fed' = FALSE
    /\ readers' = readers \cup {want}
    /\ UNCHANGED <<machine, call, dials, want, said, changed, opened, outcome>>

\* It does not connect within its ConnectTimeout, or is refused.
DirectFails ==
    /\ pc = "direct"
    /\ End("error")
    /\ UNCHANGED <<machine, said, effects>>

\* ssh passes the exit status 0 on; there is no question after this way in.
DirectReported ==
    /\ pc = "session" /\ direct
    /\ link = "up" /\ remote = "ok"
    /\ End("ok")
    /\ UNCHANGED <<machine, said, effects>>

\* dialSSH, the TCP half.
Dial ==
    /\ pc = "dial"
    /\ server = "initramfs"
    /\ link' = "up" /\ sessions' = 0
    /\ pc' = "handshake"
    /\ UNCHANGED <<machine, call, dials, want, remote, fed, said, readers,
                   effects, outcome>>

DialFails ==
    /\ pc = "dial"
    /\ End("error")
    /\ UNCHANGED <<machine, said, effects>>

\* dialSSH, the SSH half: the pinned host key and our key are accepted.
Handshake ==
    /\ pc = "handshake" /\ link = "up"
    /\ pc' = "open"
    /\ UNCHANGED <<machine, call, dials, want, ssh, said, readers, effects, outcome>>

HandshakeFails ==
    /\ pc = "handshake" /\ link \in {"up", "broken"}
    /\ End("error")
    /\ UNCHANGED <<machine, said, effects>>

\* runPTY: a session starts its command and copies the terminal to it.
\* Dropbear serves one session per connection; on a second one nothing runs.
OpenSession ==
    /\ pc = "open" /\ link = "up"
    /\ pc' = "session"
    /\ sessions' = sessions + 1
    /\ remote' = IF sessions = 0 THEN "running" ELSE "none"
    /\ fed' = FALSE
    /\ readers' = readers \cup {want}
    /\ UNCHANGED <<machine, call, dials, want, link, said, effects, outcome>>

\* session.Wait has an exit status 0 for luksChangeKey: the connection is
\* closed and the question put.  The copier of the session is still blocked in
\* its read of the terminal.
ChangeReported ==
    /\ pc = "session" /\ want = "change" /\ ~direct
    /\ link = "up" /\ remote = "ok"
    /\ link' = "none" /\ sessions' = 0 /\ remote' = "none" /\ fed' = FALSE
    /\ readers' = readers \cup {"prompt"}
    /\ pc' = "prompt"
    /\ UNCHANGED <<machine, call, dials, want, said, effects, outcome>>

UnlockReported ==
    /\ pc = "session" /\ want = "unlock"
    /\ link = "up" /\ remote = "ok"
    /\ End("ok")
    /\ UNCHANGED <<machine, said, effects>>

\* Mutant: the change of the passphrase is retried over the other way in.
SessionFallsBack ==
    /\ pc \in {"open", "session"}
    /\ link = "broken" \/ (link = "up" /\ remote = "bad")
    /\ pc' = "direct"
    /\ link' = "none" /\ sessions' = 0 /\ remote' = "none" /\ fed' = FALSE
    /\ readers' = {}
    /\ UNCHANGED <<machine, call, dials, want, said, effects, outcome>>

\* Mutant: an end of the connection is taken for the end of the command.
SessionEOFIsOK ==
    /\ pc \in {"open", "session"}
    /\ link = "broken" \/ (link = "up" /\ remote = "bad")
    /\ End("ok")
    /\ UNCHANGED <<machine, said, effects>>

\* The command failed, or the connection broke before its exit status came.
SessionFails ==
    /\ pc \in {"open", "session"}
    /\ link = "broken" \/ (link = "up" /\ remote = "bad")
    /\ End("error")
    /\ UNCHANGED <<machine, said, effects>>

\* Mutant: the unlock session is opened on the connection of the first.
ReuseClient(line) ==
    IF line = "yes"
      THEN /\ pc' = "open" /\ want' = "unlock"
           /\ link' = "up" /\ sessions' = 1
           /\ readers' = readers \ {"prompt"}
           /\ UNCHANGED <<call, dials, remote, fed, outcome>>
      ELSE End("ok")

\* What handleChangeAndUnlock does with an answer: dial again, or be done.
Proceed(line) ==
    IF line = "yes"
      THEN /\ pc' = "dial" /\ want' = "unlock"
           /\ readers' = readers \ {"prompt"}
           /\ UNCHANGED <<call, dials, ssh, outcome>>
      ELSE End("ok")

-----------------------------------------------------------------------------
(* The user's terminal.  A line goes to one of its readers; a copier whose *)
(* session is over takes the line, fails to pass it on and ends.           *)

Leftover == {r \in readers : r # IF pc = "prompt" THEN "prompt" ELSE want}

LoseLine ==
    /\ \E r \in Leftover : readers' = readers \ {r}
    /\ UNCHANGED <<call, pc, dials, want, ssh, outcome>>

\* The user answers the question.
Answer ==
    /\ pc = "prompt"
    /\ said' \in {"yes", "no"}
    /\ LoseLine \/ Proceed(said')
    /\ UNCHANGED <<machine, effects>>

\* The user types what a session's command asks for.
TypePassphrase ==
    /\ pc = "session" /\ remote = "running" /\ ~fed
    /\ \/ LoseLine
       \/ fed' = TRUE /\ UNCHANGED <<call, pc, dials, want, link, sessions,
                                     remote, readers, outcome>>
    /\ UNCHANGED <<machine, said, effects>>

-----------------------------------------------------------------------------
(* The server. *)

\* What becomes of a connection when Dropbear is gone: the client is told, or
\* never hears of it.
LinkDies == link' \in IF link = "up" THEN {"broken", "silent"} ELSE {link}

\* The session's command ends, and what it did is done, before the client
\* hears of it.
CommandEnds ==
    /\ link = "up"
    /\ remote = "running" /\ fed
    /\ \/ /\ remote' = "ok"
          /\ IF want = "change"
               THEN changed' = changed + 1 /\ UNCHANGED opened
               ELSE opened' = TRUE /\ UNCHANGED changed
       \/ remote' = "bad" /\ UNCHANGED <<changed, opened>>
    /\ UNCHANGED <<machine, call, pc, dials, want, link, sessions, fed, said,
                   readers, direct, outcome>>

\* The opened disk is booted; the initramfs takes Dropbear down, perhaps
\* before the exit status is out.
BootOn ==
    /\ server = "initramfs" /\ opened
    /\ server' = "running"
    /\ LinkDies
    /\ UNCHANGED <<events, call, pc, dials, want, sessions, remote, fed, said,
                   readers, effects, outcome>>

\* Power, reboots, and an unlock on the console.
ServerChanges ==
    /\ events < MaxEvents
    /\ events' = events + 1
    /\ \/ server = "off" /\ server' = "initramfs"
       \/ server = "initramfs" /\ server' \in {"running", "off"}
       \/ server = "running" /\ server' \in {"off", "initramfs"}
    /\ LinkDies
    /\ UNCHANGED <<call, pc, dials, want, sessions, remote, fed, said, readers,
                   effects, outcome>>

ClientStep ==
    \/ TunnelUp \/ TryMisses \/ TunnelFails
    \/ ChangeDirectly \/ DirectFails \/ DirectReported
    \/ Dial \/ DialFails \/ Handshake \/ HandshakeFails
    \/ OpenSession \/ ChangeReported \/ UnlockReported \/ SessionFails

UserStep == Answer \/ TypePassphrase

ServerStep == CommandEnds \/ BootOn \/ ServerChanges

Next == Begin \/ ClientStep \/ UserStep \/ ServerStep

Spec == Init /\ [][Next]_vars

\* The client runs, the user answers what it is asked, and a command that has
\* its input ends.  Nothing is promised of what else happens to the server.
Fairness == WF_vars(ClientStep) /\ WF_vars(UserStep) /\ WF_vars(CommandEnds)

FairSpec == Spec /\ Fairness

-----------------------------------------------------------------------------
(* Properties. *)

\* A connection to Dropbear never carries a second session, which would hang
\* (rootless.go:206, "Dropbear in initramfs only allows one active session").
OneSessionPerConnection == sessions <= 1

\* One `ubo unlock change` asks for the passphrases once: whatever fails when,
\* it never changes the passphrase a second time (rootless.go:294).
AtMostOneChange == changed <= 1

\* Exit status 0 means that what was asked for was done: the disk opened, or
\* the passphrase changed and the user's answer followed (rootless.go:204).
SuccessTellsTheTruth ==
    outcome = "ok" =>
        IF mode = "unlock" THEN opened
        ELSE /\ changed = 1
             /\ direct \/ (said = "no" /\ ~opened) \/ (said = "yes" /\ opened)

\* Every invocation comes to an end (the loop of waitTunnel has a deadline,
\* rootless.go:134, and so have the dials), unless its connection dies without a
\* sign: neither the sessions to Dropbear nor `ssh -t` would notice.
InvocationEnds == (pc = "wait") ~> (pc = "idle" \/ link = "silent")

\* The SSH handshake is given ten seconds (rootless.go:176).
HandshakeEnds == (pc = "handshake") ~> (pc # "handshake")
=============================================================================
