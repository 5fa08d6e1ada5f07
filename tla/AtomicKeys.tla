----------------------------- MODULE AtomicKeys -----------------------------
(***************************************************************************)
(* What `ubo run` is promised by keygen.GenerateAll, without the six files *)
(* it is made of: a set of key material is one value, taken from one draw  *)
(* of randomness.  The directory either holds a whole set or none; a call  *)
(* answers with the stored set, or stores and answers a set that was never *)
(* stored before, or fails and leaves the directory as it was.             *)
(***************************************************************************)
EXTENDS Integers

CONSTANT MaxDraws    \* bound on the draws of randomness a behaviour makes

VARIABLES
    store,   \* the set kept in the output directory: a draw, or NoSet
    answer,  \* the set held by the running `ubo run`, or NoSet
    spent    \* draws that can no longer become a stored set

keyVars == <<store, answer, spent>>

NoSet == 0

Draws == 1..MaxDraws

AtomicInit ==
    /\ store = NoSet
    /\ answer = NoSet
    /\ spent = 0

\* loadExisting succeeds: the stored set is handed out again.
Reuse ==
    /\ store # NoSet
    /\ answer' = store
    /\ UNCHANGED <<store, spent>>

\* No set is stored: one is drawn, stored and handed out.
Generate ==
    /\ store = NoSet
    /\ spent < MaxDraws
    /\ spent' = spent + 1
    /\ store' = spent'
    /\ answer' = spent'

\* The call fails or its process dies; what it drew is spent.
Abandon ==
    /\ answer' = NoSet
    /\ spent' \in {spent, spent + 1} \cap 0..MaxDraws
    /\ UNCHANGED store

\* `ubo run` ends and its copy of the keys goes with the process.
Release ==
    /\ answer' = NoSet
    /\ UNCHANGED <<store, spent>>

\* The operator removes the set; only this empties the store.
Discard ==
    /\ store' = NoSet
    /\ answer' = NoSet
    /\ UNCHANGED spent

AtomicNext == Reuse \/ Generate \/ Abandon \/ Release \/ Discard

AtomicSpec == AtomicInit /\ [][AtomicNext]_keyVars
=============================================================================
