---------------------------- MODULE CodecProofs ----------------------------
(***************************************************************************)
(* Codec's theorems, for any configurations, numerals and addresses.       *)
(*                                                                         *)
(* Strings of any length are read back, so the proofs go by induction over *)
(* the places of a text: Induction takes the predicate as the set of the   *)
(* numbers that satisfy it, and every fold and recursive function of Codec *)
(* is first unrolled into the sequence of its states.                      *)
(***************************************************************************)
EXTENDS Codec, WellFoundedInduction, SequenceTheorems, TLAPS

-----------------------------------------------------------------------------
(* Induction and recursion. *)

\* Induction over the natural numbers, for a predicate given as the set of the
\* numbers that satisfy it.
LEMMA Induction ==
    ASSUME NEW S, 0 \in S, \A n \in Nat : n \in S => n + 1 \in S
    PROVE  Nat \subseteq S
<1> DEFINE Bad == Nat \ S
<1>1. SUFFICES ASSUME Bad # {} PROVE FALSE
    OBVIOUS
<1>2. PICK i \in Bad : \A j \in Bad : ~ (<<j, i>> \in OpToRel(<, Nat))
    BY <1>1, NatLessThanWellFounded, WFMin
<1>3. \A j \in Bad : ~ (j < i)
    BY <1>2 DEF OpToRel
<1>4. i # 0 /\ i \in Nat
    OBVIOUS
<1>5. i - 1 \in Nat /\ i - 1 < i /\ (i - 1) + 1 = i
    BY <1>4
<1>6. i - 1 \in S
    BY <1>3, <1>5
<1> QED
    BY <1>5, <1>6

\* A nonempty set of places has a first and a last one.
LEMMA FirstPlace ==
    ASSUME NEW S, S \subseteq Nat, S # {}
    PROVE  Min(S) \in S /\ \A i \in S : Min(S) <= i
<1>1. PICK i \in S : \A j \in S : ~ (<<j, i>> \in OpToRel(<, Nat))
    BY NatLessThanWellFounded, WFMin
<1>2. \A j \in S : ~ (j < i)
    BY <1>1 DEF OpToRel
<1>3. \A j \in S : i <= j
    BY <1>2
<1> QED
    BY <1>3 DEF Min

\* The last one, of finitely many.
LEMMA LastPlace ==
    ASSUME NEW n \in Nat, NEW S, S \subseteq 1..n, S # {}
    PROVE  Max(S) \in S /\ \A i \in S : i <= Max(S)
<1> DEFINE T == {n - i : i \in S}
<1>1. T \subseteq Nat /\ T # {}
  <2>1. \A i \in S : i \in 1..n /\ n - i \in Nat
      OBVIOUS
  <2> QED
      BY <2>1
<1>2. Min(T) \in T /\ \A i \in T : Min(T) <= i
    BY <1>1, FirstPlace
<1>3. PICK m \in S : Min(T) = n - m
    BY <1>2
<1>4. \A i \in S : n - i \in T
    OBVIOUS
<1>5. \A i \in S : n - m <= n - i
    BY <1>2, <1>3, <1>4
<1>6. \A i \in S : i >= 0 /\ i <= m
    BY <1>5
<1>7. \A i \in S : m >= i
    BY <1>6
<1> QED
    BY <1>7 DEF Max

\* FoldLeft goes through the lines from the first to the last.
LEMMA ConfReadInOrder ==
    ASSUME NEW text, NEW n \in Nat, DOMAIN text = 1..n
    PROVE  \E R : /\ R[0] = NoPeer
                  /\ \A i \in 1..n : R[i] = ApplyWGLine(R[i - 1], text[i])
                  /\ ParseWGConfig(text) = R[n]
<1> DEFINE Next1(s, g) == IF s = {} THEN NoPeer
                          ELSE ApplyWGLine(g[s \ {Max(s)}], text[Max(s)])
           Reads(m) == \E g : g = [s \in SUBSET (1..m) |-> Next1(s, g)]
           N == {m \in Nat : Reads(m)}
<1>1. 0 \in N
  <2> DEFINE g == [s \in SUBSET (1..0) |-> NoPeer]
  <2>1. \A s \in SUBSET (1..0) : s = {}
      OBVIOUS
  <2>2. g = [s \in SUBSET (1..0) |-> Next1(s, g)]
      BY <2>1
  <2> QED
      BY <2>2
<1>2. ASSUME NEW m \in Nat, m \in N PROVE m + 1 \in N
  <2>1. PICK g : g = [s \in SUBSET (1..m) |-> Next1(s, g)]
      BY <1>2
  <2> DEFINE h == [s \in SUBSET (1..(m + 1)) |->
                     IF m + 1 \in s THEN ApplyWGLine(g[s \ {m + 1}], text[m + 1]) ELSE g[s]]
  <2>2. ASSUME NEW s \in SUBSET (1..(m + 1)) PROVE h[s] = Next1(s, h)
    <3>1. CASE m + 1 \in s
      <4>1. \A j \in s : m + 1 >= j /\ (j >= m + 1 => j = m + 1)
          OBVIOUS
      <4>2. Max(s) = m + 1
          BY <3>1, <4>1 DEF Max
      <4>3. s \ {m + 1} \in SUBSET (1..(m + 1)) /\ m + 1 \notin s \ {m + 1}
          OBVIOUS
      <4>4. h[s \ {m + 1}] = g[s \ {m + 1}]
          BY <4>3
      <4> QED
          BY <3>1, <4>2, <4>4
    <3>2. CASE m + 1 \notin s
      <4>1. s \in SUBSET (1..m)
          BY <3>2
      <4>2. \A r \in SUBSET s : h[r] = g[r]
          BY <3>2
      <4>3. h[s] = g[s] /\ h[s \ {Max(s)}] = g[s \ {Max(s)}]
          BY <4>2
      <4>4. g[s] = Next1(s, g)
          BY <2>1, <4>1
      <4> QED
          BY <4>3, <4>4
    <3> QED
        BY <3>1, <3>2
  <2>3. h = [s \in SUBSET (1..(m + 1)) |-> Next1(s, h)]
    <3> HIDE DEF Next1
    <3> QED
        BY <2>2
  <2>4. Reads(m + 1)
    <3> HIDE DEF h, Next1
    <3> QED
        BY <2>3
  <2> HIDE DEF Reads
  <2> QED
      BY <2>4
<1>3. n \in N
  <2> HIDE DEF N
  <2> QED
      BY <1>1, <1>2, Induction
<1> DEFINE iter == CHOOSE g : g = [s \in SUBSET (1..n) |-> Next1(s, g)]
<1>4. iter = [s \in SUBSET (1..n) |-> Next1(s, iter)]
    BY <1>3
<1>5. ParseWGConfig(text) = iter[1..n]
    BY Zenon DEF ParseWGConfig, FoldLeft, MapThenFoldSet
<1> HIDE DEF iter
<1> DEFINE R == [i \in 0..n |-> iter[1..i]]
<1>6. R[0] = NoPeer
  <2>1. 1..0 = {}
      OBVIOUS
  <2> QED
      BY <1>4, <2>1
<1>7. ASSUME NEW i \in 1..n PROVE R[i] = ApplyWGLine(R[i - 1], text[i])
  <2>1. \A j \in 1..i : i >= j /\ (j >= i => j = i)
      OBVIOUS
  <2>2. Max(1..i) = i
      BY <2>1 DEF Max
  <2>3. (1..i) \ {i} = 1..(i - 1) /\ 1..i \in SUBSET (1..n)
      OBVIOUS
  <2>4. i \in 1..i /\ i - 1 \in 0..n /\ i \in 0..n
      OBVIOUS
  <2>5. iter[1..i] = Next1(1..i, iter)
      BY <1>4, <2>3
  <2>6. iter[1..i] = ApplyWGLine(iter[(1..i) \ {Max(1..i)}], text[Max(1..i)])
      BY <2>4, <2>5
  <2> QED
      BY <2>2, <2>3, <2>4, <2>6
<1>8. ParseWGConfig(text) = R[n]
    BY <1>5
<1> HIDE DEF R
<1> QED
    BY <1>6, <1>7, <1>8

-----------------------------------------------------------------------------
(* Lines of tokens. *)

\* A line, or a string.
Text == Seq(Tokens)

\* The separators are tokens.
LEMMA Separators ==
    /\ Q \in Tokens /\ B \in Tokens /\ SP \in Tokens /\ "#" \in Tokens /\ "=" \in Tokens
    /\ "[" \in Tokens /\ "]" \in Tokens /\ ":" \in Tokens /\ "/" \in Tokens /\ "true" \in Tokens
    /\ "false" \in Tokens
<1>1. {Q, B, SP, "#", "=", "[", "]", ":", "/", "true", "false"} \subseteq Tokens
    BY DEF Tokens, Special
<1> QED
    BY <1>1

\* The words of client_wg.conf are tokens.
LEMMA ConfWords ==
    /\ "Interface" \in Tokens /\ "Peer" \in Tokens /\ "PrivateKey" \in Tokens
    /\ "Address" \in Tokens /\ "PublicKey" \in Tokens /\ "Endpoint" \in Tokens
    /\ "AllowedIPs" \in Tokens /\ "PersistentKeepalive" \in Tokens /\ "client key" \in Tokens
    /\ "server key" \in Tokens /\ "2" \in Tokens /\ "3" \in Tokens
    /\ "4" \in Tokens /\ "25" \in Tokens
<1>1. {"Interface", "Peer", "PrivateKey", "Address", "PublicKey", "Endpoint", "AllowedIPs",
       "PersistentKeepalive", "client key", "server key", "2", "3", "4", "25"} \subseteq Words
    BY DEF Words
<1>2. Words \subseteq Tokens
    BY DEF Tokens
<1> QED
    BY <1>1, <1>2

\* Numerals and addresses are tokens, and none of them is a separator.
LEMMA NumeralsAndAddresses ==
    /\ DOMAIN Atoi \subseteq Tokens /\ DOMAIN NetOf \subseteq Tokens
    /\ IPv6 \subseteq DOMAIN NetOf
    /\ \A n \in DOMAIN Atoi : n \notin Special /\ Atoi[n] \in Int
    /\ \A n \in DOMAIN NetOf : n \notin Special
    BY CodecAssumption DEF Tokens

\* Trim keeps what lies between the first and the last token that is no space.
LEMMA TrimIs ==
    ASSUME NEW s \in Text, NEW a \in 1..Len(s), NEW b \in a..Len(s),
           s[a] # SP, s[b] # SP,
           \A i \in 1..Len(s) : i < a \/ i > b => s[i] = SP
    PROVE  Trim(s) = SubSeq(s, a, b)
<1> DEFINE black == {i \in DOMAIN s : s[i] # SP}
<1>1. DOMAIN s = 1..Len(s) /\ Len(s) \in Nat /\ b \in 1..Len(s)
    BY DEF Text
<1>2. a \in black /\ b \in black /\ black \subseteq 1..Len(s) /\ black \subseteq Nat
    BY <1>1
<1>3. \A i \in black : a <= i /\ i <= b
    BY <1>1
<1>4. Min(black) = a
  <2>1. Min(black) \in black /\ Min(black) <= a
      BY <1>2, FirstPlace
  <2> QED
      BY <1>1, <1>3, <2>1
<1>5. Max(black) = b
  <2>1. Max(black) \in black /\ b <= Max(black)
      BY <1>1, <1>2, LastPlace
  <2> QED
      BY <1>1, <1>3, <2>1
<1> QED
    BY <1>2, <1>4, <1>5 DEF Trim

\* Spaces alone are trimmed away.
LEMMA TrimBlank ==
    ASSUME NEW s \in Text, \A i \in 1..Len(s) : s[i] = SP
    PROVE  Trim(s) = <<>>
    BY DEF Trim, Text

\* Nothing to trim.
LEMMA TrimNothing ==
    ASSUME NEW s \in Text, s # <<>> => s[1] # SP /\ s[Len(s)] # SP
    PROVE  Trim(s) = s
<1>1. CASE s = <<>>
    BY <1>1, TrimBlank
<1>2. CASE s # <<>>
  <2>1. Len(s) \in Nat \ {0} /\ SubSeq(s, 1, Len(s)) = s
      BY <1>2, SubSeqFull DEF Text
  <2> QED
      BY <1>2, <2>1, TrimIs
<1> QED
    BY <1>1, <1>2

\* A token and the space after it.
LEMMA TrimPair ==
    ASSUME NEW u \in Text, NEW m, Len(u) = 2, u[1] = m, u[2] = SP, m # SP
    PROVE  Trim(u) = <<m>>
<1>1. Trim(u) = SubSeq(u, 1, 1)
  <2>1. \A i \in 1..Len(u) : i < 1 \/ i > 1 => u[i] = SP
      OBVIOUS
  <2>2. 1 \in 1..Len(u) /\ 1 \in 1..1
      OBVIOUS
  <2> QED
      BY <2>1, <2>2, TrimIs
<1>2. m \in Tokens /\ \A i \in 1..1 : u[i] \in Tokens
    BY DEF Text
<1>3. <<m>> \in Text /\ Len(<<m>>) = 1 /\ <<m>>[1] = m
    BY <1>2 DEF Text
<1>4. SubSeq(u, 1, 1) \in Text /\ Len(SubSeq(u, 1, 1)) = 1 /\ SubSeq(u, 1, 1)[1] = m
  <2>1. /\ SubSeq(u, 1, 1) \in Text /\ Len(SubSeq(u, 1, 1)) = 1 - 1 + 1
        /\ \A i \in 1..(1 - 1 + 1) : SubSeq(u, 1, 1)[i] = u[1 + i - 1]
      BY <1>2, SubSeqProperties DEF Text
  <2> QED
      BY <2>1
<1>5. \A i \in 1..1 : SubSeq(u, 1, 1)[i] = <<m>>[i]
    BY <1>3, <1>4
<1> QED
    BY <1>1, <1>3, <1>4, <1>5, SeqEqual DEF Text

\* Trim keeps a text a text.
LEMMA TrimText ==
    ASSUME NEW s \in Text
    PROVE  /\ Trim(s) \in Text
           /\ Trim(s) # <<>> => Trim(s)[1] # SP /\ Trim(s)[Len(Trim(s))] # SP
<1> DEFINE black == {i \in DOMAIN s : s[i] # SP}
<1>1. DOMAIN s = 1..Len(s) /\ Len(s) \in Nat /\ black \subseteq 1..Len(s) /\ black \subseteq Nat
    BY DEF Text
<1>2. CASE black = {}
  <2>1. Trim(s) = <<>>
      BY <1>2 DEF Trim
  <2> QED
      BY <2>1 DEF Text
<1>3. CASE black # {}
  <2> DEFINE a == Min(black)
             b == Max(black)
  <2>1. a \in black /\ b \in black /\ a <= b /\ a \in 1..Len(s) /\ b \in 1..Len(s)
      BY <1>1, <1>3, FirstPlace, LastPlace
  <2>2. Trim(s) = SubSeq(s, a, b)
      BY <1>3 DEF Trim
  <2> HIDE DEF a, b
  <2>3. \A i \in a..b : s[i] \in Tokens
      BY <2>1 DEF Text
  <2>4. /\ SubSeq(s, a, b) \in Text /\ Len(SubSeq(s, a, b)) = b - a + 1
        /\ \A i \in 1..(b - a + 1) : SubSeq(s, a, b)[i] = s[a + i - 1]
      BY <2>1, <2>3, SubSeqProperties DEF Text
  <2>5. Trim(s)[1] = s[a] /\ Trim(s)[Len(Trim(s))] = s[b]
      BY <2>1, <2>2, <2>4
  <2> QED
      BY <2>1, <2>2, <2>4, <2>5
<1> QED
    BY <1>2, <1>3

\* A line is cut at its first c.
LEMMA CutAt ==
    ASSUME NEW s \in Text, NEW c, NEW i \in 1..Len(s),
           s[i] = c, \A j \in 1..(i - 1) : s[j] # c
    PROVE  Before(s, c) = SubSeq(s, 1, i - 1) /\ After(s, c) = SubSeq(s, i + 1, Len(s))
<1> DEFINE I == {j \in 1..Len(s) : s[j] = c}
<1>1. Len(s) \in Nat /\ i \in I /\ I \subseteq Nat
    BY DEF Text
<1>2. Min(I) \in I /\ Min(I) <= i
    BY <1>1, FirstPlace
<1>3. Min(I) = i
  <2> DEFINE m == Min(I)
  <2>1. m \in 1..Len(s) /\ s[m] = c /\ m <= i
      BY <1>2
  <2> HIDE DEF m
  <2>2. m = i
      BY <1>1, <2>1
  <2> QED
      BY <2>2 DEF m
<1>4. I # {} /\ i # 0
    BY <1>1
<1>5. SelectInSeq(s, LAMBDA x : x = c) = i
    BY <1>3, <1>4 DEF SelectInSeq
<1> QED
    BY <1>4, <1>5 DEF Before, After

\* A line without c is not cut.
LEMMA CutNowhere ==
    ASSUME NEW s \in Text, NEW c, \A j \in 1..Len(s) : s[j] # c
    PROVE  Before(s, c) = s /\ After(s, c) = <<>>
<1>1. SelectInSeq(s, LAMBDA x : x = c) = 0
    BY DEF SelectInSeq
<1> QED
    BY <1>1 DEF Before, After

\* What lies before and after the first c is text too.
LEMMA CutText ==
    ASSUME NEW s \in Text, NEW c
    PROVE  Before(s, c) \in Text /\ After(s, c) \in Text
<1>1. CASE \A j \in 1..Len(s) : s[j] # c
  <2>1. Before(s, c) = s /\ After(s, c) = <<>>
      BY <1>1, CutNowhere
  <2> QED
      BY <2>1, EmptySeq DEF Text
<1>2. CASE \E j \in 1..Len(s) : s[j] = c
  <2> DEFINE I == {j \in 1..Len(s) : s[j] = c}
             i == Min(I)
  <2>1. i \in I
    <3>1. I # {} /\ I \subseteq Nat
        BY <1>2
    <3> HIDE DEF I
    <3> QED
        BY <3>1, FirstPlace
  <2>2. SelectInSeq(s, LAMBDA x : x = c) = i
      BY <1>2 DEF SelectInSeq
  <2>3. i \in 1..Len(s) /\ Len(s) \in Nat
      BY <2>1 DEF Text
  <2> HIDE DEF i
  <2>4. /\ \A j \in 1..(i - 1) : s[j] \in Tokens
        /\ \A j \in (i + 1)..Len(s) : s[j] \in Tokens
      BY <2>3 DEF Text
  <2>5. SubSeq(s, 1, i - 1) \in Text /\ SubSeq(s, i + 1, Len(s)) \in Text
      BY <2>3, <2>4, SubSeqProperties DEF Text
  <2> QED
      BY <2>2, <2>3, <2>5 DEF Before, After
<1> QED
    BY <1>1, <1>2

-----------------------------------------------------------------------------
(* Blocks laid end to end. *)

\* The first part of a joined sequence is the one, the rest the other.
LEMMA Joined ==
    ASSUME NEW X, NEW s \in Seq(X), NEW t \in Seq(X), NEW u, u = s \o t
    PROVE  /\ u \in Seq(X) /\ Len(u) = Len(s) + Len(t) /\ Len(s) \in Nat /\ Len(t) \in Nat
           /\ \A j \in 1..Len(s) : u[j] = s[j]
           /\ \A k \in 1..Len(t) : u[Len(s) + k] = t[k]
    OBVIOUS

\* The first blocks, laid end to end: F[i] holds i of them.
Laid(F, blocks, X) ==
    /\ F[0] = <<>>
    /\ \A i \in 0..Len(blocks) : F[i] \in Seq(X)
    /\ \A i \in 1..Len(blocks) : F[i] = F[i - 1] \o blocks[i]

\* After its first l elements, s goes on with b.
Holds(s, l, b) == \A k \in 1..Len(b) : s[l + k] = b[k]

\* FlattenSeq lays the blocks end to end.
LEMMA LaidInOrder ==
    ASSUME NEW X, NEW blocks \in Seq(Seq(X))
    PROVE  \E F : Laid(F, blocks, X) /\ FlattenSeq(blocks) = F[Len(blocks)]
<1> DEFINE n == Len(blocks)
<1>0. n = Len(blocks) /\ n \in Nat /\ DOMAIN blocks = 1..n /\ \A i \in 1..n : blocks[i] \in Seq(X)
    OBVIOUS
<1> HIDE DEF n
<1> DEFINE Next1(i, g) == IF i = 1 THEN blocks[i] ELSE g[i - 1] \o blocks[i]
           Lays(m) == \E g : g = [i \in 1..m |-> Next1(i, g)]
           N == {m \in Nat : Lays(m)}
<1>1. 0 \in N
  <2> DEFINE g == [i \in 1..0 |-> <<>>]
  <2>1. 1..0 = {}
      OBVIOUS
  <2>2. g = [i \in 1..0 |-> Next1(i, g)]
      BY <2>1
  <2> QED
      BY <2>2
<1>2. ASSUME NEW m \in Nat, m \in N PROVE m + 1 \in N
  <2>1. PICK g : g = [i \in 1..m |-> Next1(i, g)]
      BY <1>2
  <2> DEFINE h == [i \in 1..(m + 1) |->
                     IF i = m + 1 THEN (IF m = 0 THEN blocks[1] ELSE g[m] \o blocks[m + 1]) ELSE g[i]]
  <2>2. ASSUME NEW i \in 1..(m + 1) PROVE h[i] = Next1(i, h)
    <3>1. CASE i = m + 1
      <4>1. m # 0 => m \in 1..(m + 1) /\ m # m + 1 /\ h[m] = g[m] /\ i # 1 /\ i - 1 = m
          BY <3>1
      <4> QED
          BY <3>1, <4>1
    <3>2. CASE i # m + 1
      <4>1. i \in 1..m /\ h[i] = g[i] /\ (i # 1 => i - 1 \in 1..m /\ h[i - 1] = g[i - 1])
          BY <3>2
      <4>2. g[i] = Next1(i, g)
          BY <2>1, <4>1
      <4> QED
          BY <4>1, <4>2
    <3> QED
        BY <3>1, <3>2
  <2>3. h = [i \in 1..(m + 1) |-> Next1(i, h)]
    <3> HIDE DEF Next1
    <3> QED
        BY <2>2
  <2>4. Lays(m + 1)
    <3> HIDE DEF h, Next1
    <3> QED
        BY <2>3
  <2> HIDE DEF Lays
  <2> QED
      BY <2>4
<1>3. n \in N
  <2> HIDE DEF N
  <2> QED
      BY <1>0, <1>1, <1>2, Induction
<1> DEFINE flat == CHOOSE g : g = [i \in 1..n |-> Next1(i, g)]
<1>4. flat = [i \in 1..n |-> Next1(i, flat)]
    BY <1>3
<1>5. FlattenSeq(blocks) = IF n = 0 THEN blocks ELSE flat[n]
  <2> DEFINE lay == CHOOSE g : g = [i \in 1..Len(blocks) |->
                                      IF i = 1 THEN blocks[i] ELSE g[i - 1] \o blocks[i]]
  <2>1. FlattenSeq(blocks) = IF Len(blocks) = 0 THEN blocks ELSE lay[Len(blocks)]
      BY Zenon DEF FlattenSeq
  <2> QED
      BY <1>0, <2>1
<1> HIDE DEF flat
<1> DEFINE F == [i \in 0..n |-> IF i = 0 THEN <<>> ELSE flat[i]]
<1>6. F[0] = <<>>
    BY <1>0
<1>7. ASSUME NEW i \in 1..n PROVE F[i] = F[i - 1] \o blocks[i]
  <2>1. F[i] = flat[i] /\ blocks[i] \in Seq(X)
      BY <1>0
  <2>4. flat[i] = Next1(i, flat)
    <3> HIDE DEF Next1
    <3> QED
        BY <1>4
  <2>2. CASE i = 1
    <3>1. F[i - 1] = <<>>
        BY <1>6, <2>2
    <3> QED
        BY <2>1, <2>2, <2>4, <3>1, ConcatEmptySeq
  <2>3. CASE i # 1
    <3>1. i - 1 \in 0..n /\ i - 1 # 0 /\ F[i - 1] = flat[i - 1]
        BY <1>0, <2>3
    <3> QED
        BY <2>1, <2>3, <2>4, <3>1
  <2> QED
      BY <2>2, <2>3
<1>8. FlattenSeq(blocks) = F[n]
  <2>1. n = 0 => blocks = <<>>
      BY <1>0
  <2> QED
      BY <1>0, <1>5, <2>1
<1> HIDE DEF F
<1>9. \A i \in 0..n : F[i] \in Seq(X)
  <2> DEFINE G == {i \in Nat : i <= n => F[i] \in Seq(X)}
  <2>1. 0 \in G
      BY <1>6, EmptySeq
  <2>2. \A i \in Nat : i \in G => i + 1 \in G
    <3> SUFFICES ASSUME NEW i \in Nat, i \in G, i + 1 <= n PROVE F[i + 1] \in Seq(X)
        OBVIOUS
    <3>1. i + 1 \in 1..n /\ (i + 1) - 1 = i /\ F[i] \in Seq(X)
        BY <1>0
    <3>2. F[i + 1] = F[i] \o blocks[i + 1]
        BY <1>7, <3>1
    <3>3. blocks[i + 1] \in Seq(X)
        BY <1>0, <3>1
    <3> QED
        BY <3>1, <3>2, <3>3, ConcatProperties
  <2>3. Nat \subseteq G
    <3> HIDE DEF G
    <3> QED
        BY <2>1, <2>2, Induction
  <2> QED
      BY <1>0, <2>3
<1>10. Laid(F, blocks, X)
    BY <1>0, <1>6, <1>7, <1>9 DEF Laid
<1> QED
    BY <1>0, <1>8, <1>10

\* What was laid stays: block i begins after F[i - 1].
LEMMA BlockIsLaid ==
    ASSUME NEW X, NEW blocks \in Seq(Seq(X)), NEW F, Laid(F, blocks, X),
           NEW i \in 1..Len(blocks)
    PROVE  /\ Len(F[i - 1]) \in Nat /\ Len(blocks[i]) \in Nat
           /\ Len(F[i]) = Len(F[i - 1]) + Len(blocks[i])
           /\ Len(F[Len(blocks)]) \in Nat /\ Len(F[i]) <= Len(F[Len(blocks)])
           /\ Holds(F[Len(blocks)], Len(F[i - 1]), blocks[i])
<1> DEFINE n == Len(blocks)
<1>place. n \in Nat /\ n = Len(blocks) /\ i \in 1..n /\ i \in 0..n
    OBVIOUS
<1>0. /\ n \in Nat /\ \A m \in 1..n : blocks[m] \in Seq(X) /\ F[m] = F[m - 1] \o blocks[m]
      /\ \A m \in 0..n : F[m] \in Seq(X)
  <2>1. n \in Nat /\ \A m \in 1..n : blocks[m] \in Seq(X)
      OBVIOUS
  <2>2. (\A m \in 1..n : F[m] = F[m - 1] \o blocks[m]) /\ (\A m \in 0..n : F[m] \in Seq(X))
      BY Zenon DEF Laid
  <2> QED
      BY <2>1, <2>2
<1> HIDE DEF n
<1> DEFINE Stays(m) == Len(F[i]) <= Len(F[m]) /\ \A j \in 1..Len(F[i]) : F[m][j] = F[i][j]
           N == {m \in Nat : m \in i..n => Stays(m)}
<1>1. 0 \in N
    BY <1>0, <1>place
<1>2. ASSUME NEW m \in Nat, m \in N PROVE m + 1 \in N
  <2> SUFFICES ASSUME m + 1 \in i..n PROVE Stays(m + 1)
      OBVIOUS
  <2>1. CASE m + 1 = i
    <3>1. Len(F[i]) \in Nat
        BY <1>0, <1>place
    <3>2. Stays(i)
        BY <3>1
    <3> QED
        BY Zenon, <2>1, <3>2
  <2>2. CASE m + 1 # i
    <3>1. m \in i..n /\ m \in 0..n /\ m + 1 \in 1..n /\ (m + 1) - 1 = m
        BY <1>0, <1>place, <2>2
    <3>2. Stays(m)
        BY <1>2, <3>1
    <3>3. F[m + 1] = F[m] \o blocks[m + 1] /\ F[m] \in Seq(X) /\ blocks[m + 1] \in Seq(X)
        BY <1>0, <3>1
    <3>4. /\ Len(F[m + 1]) = Len(F[m]) + Len(blocks[m + 1])
          /\ \A j \in 1..Len(F[m]) : F[m + 1][j] = F[m][j]
      <4> DEFINE a == F[m]
                 b == blocks[m + 1]
                 u == F[m + 1]
      <4>1. a \in Seq(X) /\ b \in Seq(X) /\ u = a \o b
          BY <3>3
      <4> HIDE DEF a, b, u
      <4>2. Len(u) = Len(a) + Len(b) /\ \A j \in 1..Len(a) : u[j] = a[j]
          BY <4>1, Joined
      <4> QED
          BY <4>2 DEF a, b, u
    <3>5. Len(F[m]) \in Nat /\ Len(F[i]) \in Nat /\ Len(blocks[m + 1]) \in Nat
        BY <1>0, <3>3
    <3>6. Len(F[i]) <= Len(F[m + 1])
      <4> DEFINE a == Len(F[i])
                 b == Len(F[m])
                 c == Len(F[m + 1])
                 d == Len(blocks[m + 1])
      <4>1. a \in Nat /\ b \in Nat /\ d \in Nat /\ a <= b /\ c = b + d
          BY <3>2, <3>4, <3>5
      <4> HIDE DEF a, b, c, d
      <4>2. a <= c
          BY <4>1
      <4> QED
          BY <4>2 DEF a, c
    <3>7. \A j \in 1..Len(F[i]) : j \in 1..Len(F[m])
        BY <3>2, <3>5
    <3> QED
        BY <3>2, <3>4, <3>6, <3>7
  <2> QED
      BY <2>1, <2>2
<1>3. Stays(n)
  <2>1. Nat \subseteq N
    <3> HIDE DEF N
    <3> QED
        BY <1>1, <1>2, Induction
  <2> QED
      BY <1>0, <1>place, <2>1
<1>4. Len(F[i - 1]) \in Nat /\ F[i - 1] \in Seq(X) /\ blocks[i] \in Seq(X) /\ F[i] = F[i - 1] \o blocks[i]
  <2>1. i - 1 \in 0..n
      BY <1>place
  <2>2. F[i - 1] \in Seq(X)
      BY <1>0, <2>1
  <2>3. blocks[i] \in Seq(X) /\ F[i] = F[i - 1] \o blocks[i]
      BY <1>0, <1>place
  <2> QED
      BY <2>2, <2>3
<1>5. /\ Len(F[i]) = Len(F[i - 1]) + Len(blocks[i]) /\ Len(blocks[i]) \in Nat
      /\ \A k \in 1..Len(blocks[i]) : F[i][Len(F[i - 1]) + k] = blocks[i][k]
  <2> DEFINE a == F[i - 1]
             b == blocks[i]
             u == F[i]
  <2>1. a \in Seq(X) /\ b \in Seq(X) /\ u = a \o b
      BY <1>4
  <2> HIDE DEF a, b, u
  <2>2. /\ Len(u) = Len(a) + Len(b) /\ Len(b) \in Nat
        /\ \A k \in 1..Len(b) : u[Len(a) + k] = b[k]
      BY <2>1, Joined
  <2> QED
      BY <2>2 DEF a, b, u
<1>6. \A k \in 1..Len(blocks[i]) : Len(F[i - 1]) + k \in 1..Len(F[i])
  <2> DEFINE a == Len(F[i - 1])
             b == Len(blocks[i])
             c == Len(F[i])
  <2>1. a \in Nat /\ b \in Nat /\ c = a + b
      BY <1>4, <1>5
  <2> HIDE DEF a, b, c
  <2>2. \A k \in 1..b : a + k \in 1..c
      BY <2>1
  <2> QED
      BY <2>2 DEF a, b, c
<1>7. Len(F[n]) \in Nat /\ Len(F[i]) <= Len(F[n]) /\ \A j \in 1..Len(F[i]) : F[n][j] = F[i][j]
  <2>1. n \in 0..n
      BY <1>0
  <2> QED
      BY <1>0, <1>3, <2>1
<1>8. \A k \in 1..Len(blocks[i]) : F[n][Len(F[i - 1]) + k] = blocks[i][k]
    BY <1>5, <1>6, <1>7
<1>9. Holds(F[n], Len(F[i - 1]), blocks[i])
    BY <1>8 DEF Holds
<1> QED
    BY <1>4, <1>5, <1>7, <1>9 DEF n

-----------------------------------------------------------------------------
(* Quoting. *)

\* What ParseQuoted makes of the line from place i on, given what it makes of the
\* places after i.
Scanned(s, i, g) ==
    IF i > Len(s) THEN Unterminated
    ELSE IF s[i] = Q
      THEN [ok |-> TRUE, val |-> <<>>, rest |-> SubSeq(s, i + 1, Len(s))]
    ELSE IF s[i] # B THEN [g[i + 1] EXCEPT !.val = <<s[i]>> \o @]
    ELSE IF i < Len(s) /\ s[i + 1] \in {Q, B}
      THEN [g[i + 2] EXCEPT !.val = <<s[i + 1]>> \o @]
    ELSE Unterminated

\* ParseQuoted goes through the line as its recursion says.
LEMMA QuotedInOrder ==
    ASSUME NEW s \in Text
    PROVE  \E scan : /\ \A i \in 2..(Len(s) + 2) : scan[i] = Scanned(s, i, scan)
                     /\ ParseQuoted(s) = scan[2]
<1> DEFINE n == Len(s)
<1>0. n \in Nat /\ n = Len(s)
    BY DEF Text
<1> HIDE DEF n
<1> DEFINE Scans(m) == \E g : g = [i \in (n + 2 - m)..(n + 2) |-> Scanned(s, i, g)]
           N == {m \in Nat : m <= n => Scans(m)}
<1>ahead. ASSUME NEW g, NEW h, NEW i \in Int, i > n \/ (g[i + 1] = h[i + 1] /\ g[i + 2] = h[i + 2])
      PROVE  Scanned(s, i, g) = Scanned(s, i, h)
    BY <1>0, <1>ahead DEF Scanned
<1>1. 0 \in N
  <2> DEFINE g == [i \in (n + 2 - 0)..(n + 2) |-> Unterminated]
  <2>1. ASSUME NEW i \in (n + 2 - 0)..(n + 2) PROVE Scanned(s, i, g) = Unterminated
      BY <1>0 DEF Scanned
  <2>2. g = [i \in (n + 2 - 0)..(n + 2) |-> Scanned(s, i, g)]
      BY <2>1
  <2>3. Scans(0)
    <3> HIDE DEF g
    <3> QED
        BY <2>2
  <2> HIDE DEF Scans
  <2> QED
      BY <2>3
<1>2. ASSUME NEW m \in Nat, m \in N PROVE m + 1 \in N
  <2> HIDE DEF Scans
  <2> SUFFICES ASSUME m + 1 <= n PROVE Scans(m + 1)
      OBVIOUS
  <2>1. PICK g : g = [i \in (n + 2 - m)..(n + 2) |-> Scanned(s, i, g)]
    <3>1. Scans(m)
        BY <1>0, <1>2
    <3> QED
        BY <3>1 DEF Scans
  <2> DEFINE a == n + 2 - (m + 1)
             h == [i \in a..(n + 2) |-> IF i = a THEN Scanned(s, i, g) ELSE g[i]]
  <2>start. a \in Nat /\ a <= n + 1 /\ n + 2 - m = a + 1
      BY <1>0
  <2>2. ASSUME NEW i \in a..(n + 2) PROVE h[i] = Scanned(s, i, h)
    <3>1. i > n \/ (g[i + 1] = h[i + 1] /\ g[i + 2] = h[i + 2])
      <4> SUFFICES ASSUME i <= n PROVE g[i + 1] = h[i + 1] /\ g[i + 2] = h[i + 2]
          BY <1>0, <2>start
      <4>1. i + 1 \in a..(n + 2) /\ i + 1 # a /\ i + 2 \in a..(n + 2) /\ i + 2 # a
          BY <1>0, <2>start
      <4> HIDE DEF a
      <4> QED
          BY <4>1
    <3>2. Scanned(s, i, g) = Scanned(s, i, h)
        BY <1>0, <1>ahead, <2>start, <3>1
    <3>3. i # a => i \in (n + 2 - m)..(n + 2)
        BY <1>0, <2>start
    <3>4. i # a => g[i] = Scanned(s, i, g)
      <4> HIDE DEF a
      <4> QED
          BY <2>1, <3>3
    <3>5. h[i] = IF i = a THEN Scanned(s, i, g) ELSE g[i]
        OBVIOUS
    <3> HIDE DEF h, a
    <3> QED
        BY <3>2, <3>4, <3>5
  <2>3. h = [i \in a..(n + 2) |-> Scanned(s, i, h)]
    <3> QED
        BY <2>2
  <2>4. Scans(m + 1)
    <3> HIDE DEF h
    <3> QED
        BY <2>3 DEF Scans
  <2> QED
      BY <2>4
<1>3. Scans(n)
  <2>1. Nat \subseteq N
    <3> HIDE DEF N
    <3> QED
        BY <1>1, <1>2, Induction
  <2> HIDE DEF Scans
  <2> QED
      BY <1>0, <2>1
<1>4. n + 2 - n = 2
    BY <1>0
<1> DEFINE scan == CHOOSE g : g = [i \in 2..(n + 2) |-> Scanned(s, i, g)]
<1>5. scan = [i \in 2..(n + 2) |-> Scanned(s, i, scan)]
  <2> QED
      BY <1>3, <1>4
<1>6. ParseQuoted(s) = scan[2]
  <2> DEFINE g == CHOOSE g : g = [i \in 2..(Len(s) + 2) |-> Scanned(s, i, g)]
  <2>1. ParseQuoted(s) = g[2]
      BY Zenon DEF ParseQuoted, Scanned
  <2> QED
      BY <1>0, <2>1
<1>7. ASSUME NEW i \in 2..(n + 2) PROVE scan[i] = Scanned(s, i, scan)
  <2> HIDE DEF scan
  <2> QED
      BY <1>5
<1> HIDE DEF scan
<1> QED
    BY <1>0, <1>6, <1>7

\* t is a quoted body of b tokens, then the rest of the line.
QuotedThen(t, body, b, rest) ==
    /\ t \in Text /\ b \in Nat /\ Len(t) = 2 + b + Len(rest) /\ Len(rest) \in Nat
    /\ t[1] = Q /\ t[b + 2] = Q /\ Holds(t, 1, body)
    /\ SubSeq(t, b + 3, Len(t)) = rest

\* So it is when they are laid end to end.
LEMMA QuotedPlaces ==
    ASSUME NEW body \in Text, NEW rest \in Text, NEW t, t = (<<Q>> \o body \o <<Q>>) \o rest,
           NEW b, b = Len(body)
    PROVE  QuotedThen(t, body, b, rest)
<1> DEFINE u == <<Q>> \o body
           v == u \o <<Q>>
<1>1. <<Q>> \in Text /\ Len(<<Q>>) = 1 /\ <<Q>>[1] = Q
    BY Separators DEF Text
<1>2. /\ u \in Text /\ Len(u) = 1 + b /\ b \in Nat /\ u[1] = Q
      /\ \A j \in 1..b : u[1 + j] = body[j]
    BY <1>1, Joined DEF Text
<1> HIDE DEF u
<1>3. v \in Text /\ Len(v) = Len(u) + 1 /\ (\A j \in 1..Len(u) : v[j] = u[j]) /\ v[Len(u) + 1] = Q
    BY <1>1, <1>2, Joined DEF Text
<1>4. v \in Text /\ Len(v) = b + 2 /\ v[1] = Q /\ (\A j \in 1..b : v[j + 1] = body[j]) /\ v[b + 2] = Q
  <2>1. \A j \in 1..b : 1 + j \in 1..Len(u) /\ 1 + j = j + 1
      BY <1>2
  <2> QED
      BY <1>2, <1>3, <2>1
<1>5. t = v \o rest
    BY DEF u
<1> HIDE DEF v
<1>6. /\ t \in Text /\ Len(t) = Len(v) + Len(rest) /\ Len(rest) \in Nat
      /\ \A j \in 1..Len(v) : t[j] = v[j]
      /\ \A k \in 1..Len(rest) : t[Len(v) + k] = rest[k]
    BY <1>4, <1>5, Joined DEF Text
<1>7. \A j \in 1..b : j + 1 \in 1..Len(v)
    BY <1>2, <1>4
<1>8. SubSeq(t, b + 3, Len(t)) = rest
  <2>1. \A i \in (b + 3)..Len(t) : t[i] \in Tokens
      BY <1>2, <1>6 DEF Text
  <2>2. /\ SubSeq(t, b + 3, Len(t)) \in Text /\ Len(SubSeq(t, b + 3, Len(t))) = Len(rest)
        /\ \A i \in 1..Len(rest) : SubSeq(t, b + 3, Len(t))[i] = t[b + 3 + i - 1]
      BY <1>2, <1>4, <1>6, <2>1, SubSeqProperties DEF Text
  <2>3. \A i \in 1..Len(rest) : b + 3 + i - 1 = Len(v) + i
      BY <1>2, <1>4, <1>6
  <2> QED
      BY <1>6, <2>2, <2>3, SeqEqual DEF Text
<1>9. Holds(t, 1, body)
  <2>1. \A j \in 1..b : 1 + j = j + 1
      BY <1>2
  <2> QED
      BY <1>4, <1>6, <1>7, <2>1 DEF Holds
<1> QED
  <2>1. 1 \in 1..Len(v) /\ b + 2 \in 1..Len(v) /\ Len(t) = 2 + b + Len(rest)
      BY <1>2, <1>4, <1>6
  <2>2. t[1] = Q /\ t[b + 2] = Q
      BY <1>4, <1>6, <2>1
  <2> QED
      BY <1>2, <1>6, <1>8, <1>9, <2>1, <2>2 DEF QuotedThen

\* A literal that was read: its value and the rest of the line.
Literal(r, val, rest) ==
    /\ DOMAIN r = {"ok", "val", "rest"}
    /\ r.ok = TRUE /\ r.val = val /\ r.rest = rest

\* The string literal that Quote writes is read back as it was, whatever the
\* string holds and whatever follows on the line.
THEOREM QuotedIsRead ==
    ASSUME NEW s \in Text, NEW rest \in Text
    PROVE  /\ Quote(s) \in Text /\ Len(Quote(s)) >= 2
           /\ Quote(s)[1] = Q /\ Quote(s)[Len(Quote(s))] = Q
           /\ Literal(ParseQuoted(Quote(s) \o rest), s, rest)
<1> DEFINE n == Len(s)
           esc == [i \in DOMAIN s |-> IF s[i] \in {Q, B} THEN <<B, s[i]>> ELSE <<s[i]>>]
           body == FlattenSeq(esc)
<1>0. n \in Nat /\ n = Len(s) /\ DOMAIN s = 1..n /\ \A i \in 1..n : s[i] \in Tokens
    BY DEF Text
<1>1. esc \in Seq(Seq(Tokens)) /\ Len(esc) = n
  <2>1. \A i \in 1..n : <<B, s[i]>> \in Seq(Tokens) /\ <<s[i]>> \in Seq(Tokens)
      BY <1>0, Separators
  <2>2. esc \in [1..n -> Seq(Tokens)]
      BY <1>0, <2>1
  <2> QED
      BY <1>0, <2>2
<1>2. \A i \in 1..n : esc[i] = IF s[i] \in {Q, B} THEN <<B, s[i]>> ELSE <<s[i]>>
    BY <1>0
<1> HIDE DEF esc, n
<1>3. PICK F : Laid(F, esc, Tokens) /\ body = F[n]
  <2>1. PICK F : Laid(F, esc, Tokens) /\ body = F[Len(esc)]
      BY <1>1, LaidInOrder
  <2> QED
      BY <1>1, <2>1
<1>laid. F[0] = <<>> /\ (\A i \in 0..n : F[i] \in Seq(Tokens)) /\ n = Len(esc)
    BY <1>1, <1>3 DEF Laid
<1> HIDE DEF body
<1> DEFINE b == Len(body)
           t == Quote(s) \o rest
           m == Len(t)
<1>4. body \in Text /\ Quote(s) = <<Q>> \o body \o <<Q>>
  <2>1. Quote(s) = <<Q>> \o body \o <<Q>>
      BY Zenon DEF Quote, body, esc
  <2>2. n \in 0..n
      BY <1>0
  <2>3. body \in Text
      BY <1>3, <1>laid, <2>2 DEF Text
  <2> QED
      BY <2>1, <2>3
<1>5. /\ t \in Text /\ b \in Nat /\ m = 2 + b + Len(rest) /\ Len(rest) \in Nat
      /\ t[1] = Q /\ t[b + 2] = Q /\ \A j \in 1..b : t[j + 1] = body[j]
      /\ SubSeq(t, b + 3, m) = rest
  <2>1. /\ t \in Text /\ b \in Nat /\ m = 2 + b + Len(rest) /\ Len(rest) \in Nat
        /\ t[1] = Q /\ t[b + 2] = Q /\ Holds(t, 1, body)
        /\ SubSeq(t, b + 3, m) = rest
    <3>1. t = (<<Q>> \o body \o <<Q>>) \o rest /\ b = Len(body)
        BY <1>4
    <3> HIDE DEF t, b
    <3>2. QuotedThen(t, body, b, rest)
        BY <1>4, <3>1, QuotedPlaces
    <3> QED
        BY <3>2 DEF QuotedThen
  <2> HIDE DEF t
  <2>2. \A j \in 1..b : 1 + j = j + 1
      BY <2>1
  <2>3. \A j \in 1..b : t[j + 1] = body[j]
      BY <2>1, <2>2 DEF Holds
  <2> QED
      BY <2>1, <2>3
<1>6. Quote(s) \in Text /\ Len(Quote(s)) = b + 2 /\ Quote(s)[1] = Q /\ Quote(s)[b + 2] = Q
  <2> DEFINE q == Quote(s)
  <2>1. q \in Text
      BY <1>4, Separators DEF Text
  <2> HIDE DEF q
  <2>2. t = q \o rest
      BY DEF q
  <2> HIDE DEF t
  <2>3. Len(t) = Len(q) + Len(rest) /\ Len(q) \in Nat /\ \A j \in 1..Len(q) : t[j] = q[j]
      BY <2>1, <2>2, Joined DEF Text
  <2>4. Len(q) = b + 2 /\ 1 \in 1..Len(q) /\ b + 2 \in 1..Len(q)
      BY <1>5, <2>3
  <2> QED
      BY <1>5, <2>1, <2>3, <2>4 DEF q
<1> HIDE DEF t
<1>7. m \in Nat /\ b + 2 <= m /\ m = Len(t) /\ b = Len(body) /\ b \in Nat
    BY <1>5
<1> HIDE DEF b, m
<1>8. PICK scan : /\ \A i \in 2..(m + 2) : scan[i] = Scanned(t, i, scan)
                   /\ ParseQuoted(t) = scan[2]
    BY <1>5, <1>7, QuotedInOrder
\* From the end of the string back: where the literal of s[i + 1] begins, the rest
\* of the string is still to be read.
<1> DEFINE At(i) == 2 + Len(F[i])
           Reads(i) == Literal(scan[At(i)], SubSeq(s, i + 1, n), rest)
           N == {k \in Nat : k <= n => Reads(n - k)}
<1>9. 0 \in N
  <2>0. m = Len(t) /\ b = Len(body)
      BY <1>7
  <2>1. At(n) = b + 2 /\ b + 2 \in 2..(m + 2) /\ ~ (b + 2 > m) /\ (b + 2) + 1 = b + 3
      BY <1>3, <1>5, <1>7
  <2>2. scan[b + 2] = [ok |-> TRUE, val |-> <<>>, rest |-> rest]
      BY <1>5, <1>7, <1>8, <2>1 DEF Scanned
  <2>5. Literal(scan[b + 2], <<>>, rest)
      BY <2>2 DEF Literal
  <2>3. SubSeq(s, n + 1, n) = <<>>
      BY <1>0, SubSeqEmpty
  <2>4. n - 0 = n
      BY <1>0
  <2> QED
      BY <2>1, <2>3, <2>4, <2>5
<1>10. ASSUME NEW k \in Nat, k \in N PROVE k + 1 \in N
  <2> SUFFICES ASSUME k + 1 <= n PROVE Reads(n - (k + 1))
      OBVIOUS
  <2> DEFINE i == n - k
             p == At(i - 1)
  <2>1. i \in 1..n /\ i - 1 = n - (k + 1) /\ i \in 0..n /\ i - 1 \in 0..n /\ i # 0 /\ k <= n
      BY <1>0
  <2>2. Reads(i)
      BY <1>10, <2>1
  <2> HIDE DEF i
  <2>3. /\ Len(F[i]) \in Nat /\ Len(F[i]) <= b
        /\ Len(F[i]) = Len(F[i - 1]) + Len(esc[i])
        /\ \A j \in 1..Len(esc[i]) : body[Len(F[i - 1]) + j] = esc[i][j]
    <3>1. /\ Len(F[i]) \in Nat /\ Len(F[i]) <= Len(F[n])
          /\ Len(F[i]) = Len(F[i - 1]) + Len(esc[i])
          /\ \A j \in 1..Len(esc[i]) : F[n][Len(F[i - 1]) + j] = esc[i][j]
      <4>1. i \in 1..Len(esc)
          BY <1>laid, <2>1
      <4>2. /\ Len(F[i - 1]) \in Nat /\ Len(esc[i]) \in Nat
            /\ Len(F[i]) = Len(F[i - 1]) + Len(esc[i])
            /\ Len(F[i]) <= Len(F[Len(esc)])
            /\ Holds(F[Len(esc)], Len(F[i - 1]), esc[i])
          BY <1>1, <1>3, <4>1, BlockIsLaid
      <4>3. \A j \in 1..Len(esc[i]) : F[n][Len(F[i - 1]) + j] = esc[i][j]
          BY <1>laid, <4>2 DEF Holds
      <4>4. Len(F[i]) \in Nat
          BY <1>laid, <2>1
      <4>5. Len(F[i]) <= Len(F[n])
          BY Zenon, <1>laid, <4>2
      <4> QED
          BY <4>2, <4>3, <4>4, <4>5
    <3> QED
        BY <1>3, <1>7, <3>1
  <2>9. (i - 1) + 1 = i
      BY <2>1
  <2>4. Len(F[i - 1]) \in Nat /\ i + 0 = i
      BY <1>laid, <2>1
  <2>5. SubSeq(s, i, n) = <<s[i]>> \o SubSeq(s, i + 1, n)
      BY <1>0, <2>1, SubSeqRecursiveFirst DEF Text
  <2>6. Literal(scan[At(i)], SubSeq(s, i + 1, n), rest)
      BY <2>2
  <2>7. CASE s[i] \in {Q, B}
    <3>0. esc[i] = <<B, s[i]>>
        BY <1>2, <2>1, <2>7
    <3>1. Len(esc[i]) = 2 /\ esc[i][1] = B /\ esc[i][2] = s[i]
        BY <3>0
    <3>2. /\ p \in 2..(m + 2) /\ p < m /\ ~ (p > m) /\ At(i) = p + 2
          /\ Len(F[i - 1]) + 1 \in 1..b /\ Len(F[i - 1]) + 2 \in 1..b
          /\ (Len(F[i - 1]) + 1) + 1 = p /\ (Len(F[i - 1]) + 2) + 1 = p + 1
      <4> DEFINE x == Len(F[i - 1])
                 y == Len(F[i])
      <4>1. x \in Nat /\ y = x + 2 /\ y <= b /\ p = 2 + x /\ At(i) = 2 + y
          BY <2>3, <2>4, <3>1
      <4> HIDE DEF x, y, p, At
      <4>2. p \in 2..(m + 2) /\ p < m /\ ~ (p > m)
        <5>1. m \in Nat /\ b \in Nat /\ b + 2 <= m
            BY <1>7
        <5>2. p \in Nat /\ 2 <= p /\ p + 2 <= m
            BY ONLY <4>1, <5>1
        <5> QED
            BY ONLY <5>1, <5>2
      <4>3. At(i) = p + 2 /\ (x + 1) + 1 = p /\ (x + 2) + 1 = p + 1
          BY ONLY <4>1
      <4>4. x + 1 \in 1..b /\ x + 2 \in 1..b
          BY ONLY <1>7, <4>1
      <4> QED
          BY <4>2, <4>3, <4>4 DEF x
    <3>3. t[p] = B /\ t[p + 1] = s[i]
        BY <1>5, <2>3, <3>1, <3>2
    <3> HIDE DEF p
    <3>4. B # Q
        BY DEF Q, B
    <3>7. Literal(scan[p + 2], SubSeq(s, i + 1, n), rest)
        BY <2>6, <3>2
    <3>5. scan[p] = [scan[p + 2] EXCEPT !.val = <<s[i]>> \o @]
        BY <1>7, <1>8, <2>7, <3>2, <3>3, <3>4 DEF Scanned
    <3>6. Literal(scan[p], SubSeq(s, i, n), rest)
      <4> DEFINE r == scan[p + 2]
                 v == SubSeq(s, i + 1, n)
                 e == scan[p]
      <4>1. Literal(r, v, rest) /\ e = [r EXCEPT !.val = <<s[i]>> \o @]
          BY <3>5, <3>7
      <4> HIDE DEF r, v, e
      <4>2. Literal(e, <<s[i]>> \o v, rest)
          BY <4>1 DEF Literal
      <4> QED
          BY <2>5, <4>2 DEF e, v
    <3> QED
        BY <2>1, <2>9, <3>6 DEF p
  <2>8. CASE s[i] \notin {Q, B}
    <3>0. esc[i] = <<s[i]>>
        BY <1>2, <2>1, <2>8
    <3>1. Len(esc[i]) = 1 /\ esc[i][1] = s[i]
        BY <3>0
    <3>2. /\ p \in 2..(m + 2) /\ ~ (p > m) /\ At(i) = p + 1
          /\ Len(F[i - 1]) + 1 \in 1..b /\ (Len(F[i - 1]) + 1) + 1 = p
      <4> DEFINE x == Len(F[i - 1])
                 y == Len(F[i])
      <4>1. x \in Nat /\ y = x + 1 /\ y <= b /\ p = 2 + x /\ At(i) = 2 + y
          BY <2>3, <2>4, <3>1
      <4> HIDE DEF x, y, p, At
      <4>2. p \in 2..(m + 2) /\ ~ (p > m)
          BY ONLY <1>7, <4>1
      <4>3. At(i) = p + 1 /\ (x + 1) + 1 = p /\ x + 1 \in 1..b
          BY ONLY <1>7, <4>1
      <4> QED
          BY <4>2, <4>3 DEF x
    <3>3. t[p] = s[i]
        BY <1>5, <2>3, <3>1, <3>2
    <3> HIDE DEF p
    <3>7. Literal(scan[p + 1], SubSeq(s, i + 1, n), rest)
        BY <2>6, <3>2
    <3>5. scan[p] = [scan[p + 1] EXCEPT !.val = <<s[i]>> \o @]
        BY <1>7, <1>8, <2>8, <3>2, <3>3 DEF Scanned
    <3>6. Literal(scan[p], SubSeq(s, i, n), rest)
      <4> DEFINE r == scan[p + 1]
                 v == SubSeq(s, i + 1, n)
                 e == scan[p]
      <4>1. Literal(r, v, rest) /\ e = [r EXCEPT !.val = <<s[i]>> \o @]
          BY <3>5, <3>7
      <4> HIDE DEF r, v, e
      <4>2. Literal(e, <<s[i]>> \o v, rest)
          BY <4>1 DEF Literal
      <4> QED
          BY <2>5, <4>2 DEF e, v
    <3> QED
        BY <2>1, <2>9, <3>6 DEF p
  <2> QED
      BY <2>7, <2>8
<1>11. Reads(0)
  <2>1. Nat \subseteq N
    <3> HIDE DEF N
    <3> QED
        BY <1>9, <1>10, Induction
  <2>2. n \in N /\ n - n = 0
      BY <1>0, <2>1
  <2> QED
      BY <1>0, <2>2
<1>12. Literal(scan[2], s, rest)
  <2>1. At(0) = 2 /\ 0 + 1 = 1
      BY <1>laid
  <2>2. SubSeq(s, 1, n) = s
      BY <1>0, SubSeqFull DEF Text
  <2> QED
      BY <1>11, <2>1, <2>2
<1> QED
    BY <1>5, <1>6, <1>8, <1>12 DEF t

-----------------------------------------------------------------------------
(* Reading ubo.toml. *)

\* Where parseTOML starts.
Start == [cfg |-> Default, section |-> "", ok |-> TRUE]

\* Load goes through the lines from the first to the last.
LEMMA LoadInOrder ==
    ASSUME NEW text, NEW n \in Nat, DOMAIN text = 1..n
    PROVE  \E R : /\ R[0] = Start
                  /\ \A i \in 1..n : R[i] = ParseLine(R[i - 1], text[i])
                  /\ Load(text) = R[n]
<1> DEFINE Next1(s, g) == IF s = {} THEN Start
                          ELSE ParseLine(g[s \ {Max(s)}], text[Max(s)])
           Reads(m) == \E g : g = [s \in SUBSET (1..m) |-> Next1(s, g)]
           N == {m \in Nat : Reads(m)}
<1>1. 0 \in N
  <2> DEFINE g == [s \in SUBSET (1..0) |-> Start]
  <2>1. \A s \in SUBSET (1..0) : s = {}
      OBVIOUS
  <2>2. g = [s \in SUBSET (1..0) |-> Next1(s, g)]
      BY <2>1
  <2> QED
      BY <2>2
<1>2. ASSUME NEW m \in Nat, m \in N PROVE m + 1 \in N
  <2>1. PICK g : g = [s \in SUBSET (1..m) |-> Next1(s, g)]
      BY <1>2
  <2> DEFINE h == [s \in SUBSET (1..(m + 1)) |->
                     IF m + 1 \in s THEN ParseLine(g[s \ {m + 1}], text[m + 1]) ELSE g[s]]
  <2>2. ASSUME NEW s \in SUBSET (1..(m + 1)) PROVE h[s] = Next1(s, h)
    <3>1. CASE m + 1 \in s
      <4>1. \A j \in s : m + 1 >= j /\ (j >= m + 1 => j = m + 1)
          OBVIOUS
      <4>2. Max(s) = m + 1
          BY <3>1, <4>1 DEF Max
      <4>3. s \ {m + 1} \in SUBSET (1..(m + 1)) /\ m + 1 \notin s \ {m + 1}
          OBVIOUS
      <4>4. h[s \ {m + 1}] = g[s \ {m + 1}]
          BY <4>3
      <4> QED
          BY <3>1, <4>2, <4>4
    <3>2. CASE m + 1 \notin s
      <4>1. s \in SUBSET (1..m)
          BY <3>2
      <4>2. \A r \in SUBSET s : h[r] = g[r]
          BY <3>2
      <4>3. h[s] = g[s] /\ h[s \ {Max(s)}] = g[s \ {Max(s)}]
          BY <4>2
      <4>4. g[s] = Next1(s, g)
          BY <2>1, <4>1
      <4> QED
          BY <4>3, <4>4
    <3> QED
        BY <3>1, <3>2
  <2>3. h = [s \in SUBSET (1..(m + 1)) |-> Next1(s, h)]
    <3> HIDE DEF Next1
    <3> QED
        BY <2>2
  <2>4. Reads(m + 1)
    <3> HIDE DEF h, Next1
    <3> QED
        BY <2>3
  <2> HIDE DEF Reads
  <2> QED
      BY <2>4
<1>3. n \in N
  <2> HIDE DEF N
  <2> QED
      BY <1>1, <1>2, Induction
<1> DEFINE iter == CHOOSE g : g = [s \in SUBSET (1..n) |-> Next1(s, g)]
<1>4. iter = [s \in SUBSET (1..n) |-> Next1(s, iter)]
    BY <1>3
<1>5. Load(text) = iter[1..n]
    BY Zenon DEF Load, Start, FoldLeft, MapThenFoldSet
<1> HIDE DEF iter
<1> DEFINE R == [i \in 0..n |-> iter[1..i]]
<1>6. R[0] = Start
  <2>1. 1..0 = {}
      OBVIOUS
  <2> QED
      BY <1>4, <2>1
<1>7. ASSUME NEW i \in 1..n PROVE R[i] = ParseLine(R[i - 1], text[i])
  <2>1. \A j \in 1..i : i >= j /\ (j >= i => j = i)
      OBVIOUS
  <2>2. Max(1..i) = i
      BY <2>1 DEF Max
  <2>3. (1..i) \ {i} = 1..(i - 1) /\ 1..i \in SUBSET (1..n)
      OBVIOUS
  <2>4. i \in 1..i /\ i - 1 \in 0..n /\ i \in 0..n
      OBVIOUS
  <2>5. iter[1..i] = Next1(1..i, iter)
      BY <1>4, <2>3
  <2>6. iter[1..i] = ParseLine(iter[(1..i) \ {Max(1..i)}], text[Max(1..i)])
      BY <2>4, <2>5
  <2> QED
      BY <2>2, <2>3, <2>4, <2>6
<1>8. Load(text) = R[n]
    BY <1>5
<1> HIDE DEF R
<1> QED
    BY <1>6, <1>7, <1>8

\* Where it is between two lines when all went well.
Reading(st, g, x) ==
    /\ DOMAIN st = {"cfg", "section", "ok"}
    /\ st.cfg = g /\ st.section = x /\ st.ok = TRUE

\* Load begins with the defaults, outside every section.
LEMMA StartReads == Reading(Start, Default, "")
    BY DEF Reading, Start

\* The comment that is put in, token by token.
LEMMA CommentPlaces ==
    /\ Comment \in Text /\ Len(Comment) = 5
    /\ Comment[1] = SP /\ Comment[2] = "#" /\ Comment[5] = Q /\ Q # SP /\ SP # "#"
<1>1. Comment \in Text /\ Len(Comment) = 5 /\ Comment[1] = SP /\ Comment[2] = "#" /\ Comment[5] = Q
    BY Separators DEF Comment, Text
<1>2. Q # SP /\ SP # "#"
    BY DEF Q, SP
<1> QED
    BY <1>1, <1>2

\* Without the space before it the comment begins with its mark.
LEMMA TrimmedComment == Trim(Comment) # <<>> /\ Trim(Comment)[1] = "#"
<1>1. Comment \in Text /\ Len(Comment) = 5
    BY CommentPlaces
<1>2. Trim(Comment) = SubSeq(Comment, 2, 5)
  <2>1. Comment[2] # SP /\ Comment[5] # SP /\ Comment[1] = SP
      BY CommentPlaces
  <2>2. \A i \in 1..Len(Comment) : i < 2 \/ i > 5 => Comment[i] = SP
      BY <1>1, <2>1
  <2>3. 2 \in 1..Len(Comment) /\ 5 \in 2..Len(Comment)
      BY <1>1
  <2> QED
      BY <1>1, <2>1, <2>2, <2>3, TrimIs
<1>3. \A i \in 2..5 : Comment[i] \in Tokens
  <2>1. \A i \in 2..5 : i \in 1..Len(Comment)
      BY <1>1
  <2> QED
      BY <1>1, <2>1, ElementOfSeq DEF Text
<1>4. Len(SubSeq(Comment, 2, 5)) = 4 /\ SubSeq(Comment, 2, 5)[1] = Comment[2]
    BY <1>3, SubSeqProperties
<1>5. Comment[2] = "#" /\ Len(<<>>) # 4
    BY CommentPlaces
<1>6. SubSeq(Comment, 2, 5) # <<>>
    BY Zenon, <1>4, <1>5
<1> QED
    BY <1>2, <1>4, <1>5, <1>6

\* A line of nothing but a comment changes nothing, and neither does an empty one.
LEMMA CommentLine ==
    ASSUME NEW st
    PROVE  ParseLine(st, Comment) = st /\ ParseLine(st, <<>>) = st
<1>1. ParseLine(st, Comment) = st
    BY Zenon, TrimmedComment DEF ParseLine
<1>2. Trim(<<>>) = <<>>
  <2>1. <<>> \in Text /\ Len(<<>>) = 0
      BY DEF Text
  <2> QED
      BY <2>1, TrimBlank
<1>3. ParseLine(st, <<>>) = st
    BY Zenon, <1>2 DEF ParseLine
<1> QED
    BY <1>1, <1>3

\* The header of a section.
LEMMA HeaderLine ==
    ASSUME NEW st, NEW g, NEW x, Reading(st, g, x), NEW y \in Tokens
    PROVE  Reading(ParseLine(st, <<"[", y, "]">>), g, y)
<1> DEFINE raw == <<"[", y, "]">>
<1>1. raw \in Text /\ Len(raw) = 3 /\ raw[1] = "[" /\ raw[2] = y /\ raw[3] = "]"
    BY Separators DEF Text
<1> HIDE DEF raw
<1>2. Trim(raw) = raw /\ raw # <<>>
  <2>1. "[" # SP /\ "]" # SP
      BY DEF SP
  <2> QED
      BY <1>1, <2>1, TrimNothing DEF Text
<1>3. st.ok = TRUE /\ "[" # "#"
    BY DEF Reading
<1>4. ParseLine(st, raw) = [st EXCEPT !.section = y]
    BY Zenon, <1>1, <1>2, <1>3 DEF ParseLine
<1> QED
    BY <1>4 DEF Reading, raw

\* What may follow a value on its line.
Ends == {<<>>, Comment}

\* What may follow a value is ignored by ParseValue.
LEMMA EndsAreComments ==
    ASSUME NEW end \in Ends
    PROVE  end \in Text /\ CommentOnly(end) /\ (end # <<>> => end[Len(end)] # SP)
<1>1. CASE end = <<>>
  <2>1. <<>> \in Text /\ Len(<<>>) = 0
      BY DEF Text
  <2>2. Trim(<<>>) = <<>>
      BY <2>1, TrimBlank
  <2> QED
      BY <1>1, <2>1, <2>2 DEF CommentOnly
<1>2. CASE end = Comment
  <2>1. Comment \in Text /\ Len(Comment) = 5 /\ Comment[5] # SP
      BY CommentPlaces
  <2>2. Trim(Comment) # <<>> /\ Trim(Comment)[1] = "#"
      BY TrimmedComment
  <2>3. Head(Trim(Comment)) = "#"
      BY <2>1, <2>2, TrimText DEF Text
  <2> QED
      BY <1>2, <2>1, <2>3 DEF CommentOnly
<1> QED
    BY <1>1, <1>2 DEF Ends

\* A bare value ends where the comment begins.
LEMMA BareValue ==
    ASSUME NEW m \in Tokens, m # SP, m # "#", NEW end \in Ends
    PROVE  Trim(Before(<<m>> \o end, "#")) = <<m>>
<1>0. <<m>> \in Text /\ Len(<<m>>) = 1 /\ <<m>>[1] = m
    BY DEF Text
<1>1. CASE end = <<>>
  <2>1. <<m>> \o end = <<m>>
      BY <1>0, <1>1, ConcatEmptySeq DEF Text
  <2>2. Before(<<m>>, "#") = <<m>>
      BY <1>0, CutNowhere
  <2>3. Trim(<<m>>) = <<m>>
      BY <1>0, TrimNothing
  <2> QED
      BY <2>1, <2>2, <2>3
<1>2. CASE end = Comment
  <2> DEFINE s == <<m>> \o Comment
  <2>0. /\ Comment \in Text /\ Len(Comment) = 5 /\ Comment[1] = SP /\ Comment[2] = "#"
      BY CommentPlaces
  <2>1. /\ s \in Text /\ Len(s) = 6 /\ s[1] = m /\ s[2] = SP /\ s[3] = "#"
    <3>1. s \in Text /\ Len(s) = 1 + 5 /\ s[1] = m /\ \A k \in 1..5 : s[1 + k] = Comment[k]
      <4> DEFINE a == <<m>>
                 c == Comment
      <4>0. Len(a) = 1 /\ a[1] = m /\ Len(c) = 5
          BY <1>0, <2>0
      <4>1. a \in Text /\ s = a \o c /\ c \in Text
          BY <1>0, <2>0
      <4> HIDE DEF a, c, s
      <4>2. /\ s \in Text /\ Len(s) = Len(a) + Len(c)
            /\ \A j \in 1..Len(a) : s[j] = a[j]
            /\ \A k \in 1..Len(c) : s[Len(a) + k] = c[k]
          BY <4>1, Joined DEF Text
      <4>3. s \in Text /\ Len(s) = 1 + 5 /\ s[1] = m /\ \A k \in 1..5 : s[1 + k] = c[k]
          BY <4>0, <4>2
      <4> QED
          BY <4>3 DEF c
    <3>2. s[1 + 1] = Comment[1] /\ s[1 + 2] = Comment[2]
        BY <3>1
    <3> QED
        BY <2>0, <3>1, <3>2
  <2> HIDE DEF s
  <2>2. Before(s, "#") = SubSeq(s, 1, 2)
    <3>1. 3 \in 1..Len(s) /\ 3 - 1 = 2
        BY <2>1
    <3>2. \A j \in 1..(3 - 1) : s[j] # "#"
      <4>1. SP # "#"
          BY DEF SP
      <4>2. \A j \in 1..(3 - 1) : j = 1 \/ j = 2
          OBVIOUS
      <4> QED
          BY <2>1, <4>1, <4>2
    <3>3. Before(s, "#") = SubSeq(s, 1, 3 - 1)
        BY <2>1, <3>1, <3>2, CutAt
    <3> QED
        BY <3>1, <3>3
  <2> DEFINE u == SubSeq(s, 1, 2)
  <2>3. u \in Text /\ Len(u) = 2 /\ u[1] = m /\ u[2] = SP
    <3>1. \A i \in 1..2 : i \in 1..Len(s)
        BY <2>1
    <3>2. \A i \in 1..2 : s[i] \in Tokens
        BY <2>1, <3>1, ElementOfSeq DEF Text
    <3>3. /\ u \in Text /\ Len(u) = 2 - 1 + 1
          /\ \A i \in 1..(2 - 1 + 1) : u[i] = s[1 + i - 1]
        BY <3>2, SubSeqProperties DEF Text
    <3> QED
        BY <2>1, <3>3
  <2> HIDE DEF u
  <2>4. Trim(u) = <<m>>
      BY <2>3, TrimPair
  <2> QED
      BY <1>2, <2>2, <2>4 DEF s, u
<1> QED
    BY <1>1, <1>2 DEF Ends

\* The value that is read off a field's text.
IsValue(r, f, v) == DOMAIN r = {"kind", "val"} /\ r.kind = KindOf[f] /\ r.val = v

\* A quoted string is read as the string, whatever follows it (toml.go:307).
LEMMA StringIsRead ==
    ASSUME NEW f, KindOf[f] = "string", NEW v \in Text, NEW end \in Ends
    PROVE  /\ ValueText(f, v) \in Text /\ ValueText(f, v) # <<>>
           /\ ValueText(f, v)[1] # SP /\ ValueText(f, v)[Len(ValueText(f, v))] # SP
           /\ IsValue(ParseValue(ValueText(f, v) \o end), f, v)
<1> DEFINE w == Quote(v)
           s == w \o end
<1>1. ValueText(f, v) = w
    BY Zenon DEF ValueText
<1>2. end \in Text /\ CommentOnly(end)
    BY EndsAreComments
<1>3. w \in Text /\ Len(w) >= 2 /\ w[1] = Q /\ w[Len(w)] = Q /\ Literal(ParseQuoted(s), v, end)
    BY <1>2, QuotedIsRead
<1> HIDE DEF w
<1>4. w # <<>> /\ Q # SP
  <2>1. ~ (Len(<<>>) >= 2) /\ Q # SP
      BY DEF Q, SP
  <2> QED
      BY Zenon, <1>3, <2>1
<1>5. s # <<>> /\ s[1] = Q
  <2>1. w \in Text /\ end \in Text /\ s = w \o end
      BY <1>2, <1>3
  <2> HIDE DEF s
  <2>2. s \in Text /\ Len(s) = Len(w) + Len(end) /\ Len(w) \in Nat /\ Len(end) \in Nat
        /\ \A j \in 1..Len(w) : s[j] = w[j]
      BY <2>1, Joined DEF Text
  <2> QED
      BY <1>3, <2>2
<1> HIDE DEF s
<1>6. ParseQuoted(s).ok /\ ParseQuoted(s).val = v /\ ParseQuoted(s).rest = end
    BY Zenon, <1>3 DEF Literal
<1>7. ParseValue(s) = [kind |-> "string", val |-> v]
    BY Zenon, <1>2, <1>5, <1>6 DEF ParseValue
<1>8. IsValue(ParseValue(s), f, v)
    BY <1>7 DEF IsValue
<1> QED
    BY <1>1, <1>3, <1>4, <1>8 DEF s

\* A value of one token, unquoted, is that token to ParseValue.
LEMMA BareIsRead ==
    ASSUME NEW m \in Tokens, m # SP, m # "#", m # Q, NEW end \in Ends
    PROVE  ParseValue(<<m>> \o end) =
             CASE <<m>> \in {<<"true">>, <<"false">>} -> [kind |-> "bool", val |-> <<m>> = <<"true">>]
               [] Len(<<m>>) = 1 /\ <<m>>[1] \in DOMAIN Atoi -> [kind |-> "int", val |-> Atoi[<<m>>[1]]]
               [] OTHER -> Wrong
<1> DEFINE a == <<m>>
           s == a \o end
<1>1. end \in Text
    BY EndsAreComments
<1>2. a \in Text /\ Len(a) = 1 /\ a[1] = m
    BY DEF Text
<1>3. Trim(Before(s, "#")) = a
    BY BareValue
<1>4. s # <<>> /\ s[1] = m
  <2>1. a \in Text /\ end \in Text /\ s = a \o end
      BY <1>1, <1>2
  <2> HIDE DEF s, a
  <2>2. s \in Text /\ Len(s) = Len(a) + Len(end) /\ Len(a) \in Nat /\ Len(end) \in Nat
        /\ \A j \in 1..Len(a) : s[j] = a[j]
      BY <2>1, Joined DEF Text
  <2> QED
      BY <1>2, <2>2
<1> HIDE DEF s, a
<1>5. ParseValue(s) =
             CASE a \in {<<"true">>, <<"false">>} -> [kind |-> "bool", val |-> a = <<"true">>]
               [] Len(a) = 1 /\ a[1] \in DOMAIN Atoi -> [kind |-> "int", val |-> Atoi[a[1]]]
               [] OTHER -> Wrong
    BY Zenon, <1>3, <1>4 DEF ParseValue
<1> QED
    BY Zenon, <1>5 DEF s, a

\* A number is read as the number.
LEMMA IntIsRead ==
    ASSUME NEW f, KindOf[f] = "int", NEW v \in {Atoi[n] : n \in DOMAIN Atoi}, NEW end \in Ends
    PROVE  /\ ValueText(f, v) \in Text /\ ValueText(f, v) # <<>>
           /\ ValueText(f, v)[1] # SP /\ ValueText(f, v)[Len(ValueText(f, v))] # SP
           /\ IsValue(ParseValue(ValueText(f, v) \o end), f, v)
<1> DEFINE m == CHOOSE n \in DOMAIN Atoi : Atoi[n] = v
           w == <<m>>
<1>1. m \in DOMAIN Atoi /\ Atoi[m] = v
    OBVIOUS
<1> HIDE DEF m
<1>2. ValueText(f, v) = w
  <2>1. "int" # "string"
      OBVIOUS
  <2> QED
      BY Zenon, <2>1 DEF ValueText, m
<1>3. m \in Tokens /\ m \notin Special
    BY <1>1, NumeralsAndAddresses
<1>4. m # SP /\ m # "#" /\ m # Q /\ m # "true" /\ m # "false"
    BY <1>3 DEF Special
<1>5. w \in Text /\ Len(w) = 1 /\ w[1] = m /\ w # <<>>
    BY <1>3 DEF Text
<1>6. w # <<"true">> /\ w # <<"false">>
    BY <1>4
<1>7. ParseValue(w \o end) = [kind |-> "int", val |-> v]
    BY Zenon, <1>1, <1>3, <1>4, <1>5, <1>6, BareIsRead
<1>8. IsValue(ParseValue(w \o end), f, v)
    BY <1>7 DEF IsValue
<1> QED
    BY <1>2, <1>4, <1>5, <1>8

\* A Boolean is read as the Boolean.
LEMMA BoolIsRead ==
    ASSUME NEW f, KindOf[f] = "bool", NEW v \in BOOLEAN, NEW end \in Ends
    PROVE  /\ ValueText(f, v) \in Text /\ ValueText(f, v) # <<>>
           /\ ValueText(f, v)[1] # SP /\ ValueText(f, v)[Len(ValueText(f, v))] # SP
           /\ IsValue(ParseValue(ValueText(f, v) \o end), f, v)
<1> DEFINE m == IF v THEN "true" ELSE "false"
           w == <<m>>
<1>1. ValueText(f, v) = w
  <2>1. "bool" # "string" /\ "bool" # "int"
      OBVIOUS
  <2> QED
      BY Zenon, <2>1 DEF ValueText
<1>2. m \in Tokens /\ m # SP /\ m # "#" /\ m # Q
    BY Separators DEF SP, Q
<1>3. "true" # "false" /\ <<"true">> # <<"false">>
    OBVIOUS
<1>4. w \in {<<"true">>, <<"false">>} /\ (v => w = <<"true">>) /\ (~v => w # <<"true">>)
    BY Zenon, <1>3
<1>6. w \in Text /\ Len(w) = 1 /\ w[1] = m /\ w # <<>>
  <2> HIDE DEF m
  <2> QED
      BY <1>2 DEF Text
<1> HIDE DEF m
<1>5. ParseValue(w \o end) = [kind |-> "bool", val |-> w = <<"true">>]
  <2>1. m \notin DOMAIN Atoi
    <3>1. m \in Special
        BY DEF Special, m
    <3> QED
        BY <3>1, NumeralsAndAddresses
  <2> QED
      BY Zenon, <1>2, <1>4, <1>6, <2>1, BareIsRead
<1> DEFINE r == ParseValue(w \o end)
<1>7. r.val = v
  <2>1. CASE v = TRUE
    <3>1. (w = <<"true">>) = TRUE
        BY Zenon, <1>4, <2>1
    <3>2. r = [kind |-> "bool", val |-> TRUE]
        BY Zenon, <1>5, <3>1
    <3>3. r.val = TRUE
        BY <3>2
    <3> QED
        BY Zenon, <2>1, <3>3
  <2>2. CASE v = FALSE
    <3>1. (w = <<"true">>) = FALSE
        BY Zenon, <1>4, <2>2
    <3>2. r = [kind |-> "bool", val |-> FALSE]
        BY Zenon, <1>5, <3>1
    <3>3. r.val = FALSE
        BY <3>2
    <3> QED
        BY Zenon, <2>2, <3>3
  <2> QED
      BY Zenon, <2>1, <2>2
<1>8. r.kind = "bool" /\ DOMAIN r = {"kind", "val"}
  <2>1. ASSUME NEW z, NEW y, y = [kind |-> "bool", val |-> z]
        PROVE  y.kind = "bool" /\ DOMAIN y = {"kind", "val"}
      BY <2>1
  <2> QED
      BY Zenon, <1>5, <2>1
<1> QED
    BY Zenon, <1>1, <1>2, <1>6, <1>7, <1>8 DEF IsValue

-----------------------------------------------------------------------------
(* Lines of the form "key = value". *)

\* A space before the text is trimmed with the rest.
LEMMA TrimLead ==
    ASSUME NEW u \in Text, NEW v \in Text, Len(u) = 1 + Len(v), u[1] = SP, Holds(u, 1, v)
    PROVE  Trim(u) = Trim(v)
<1> DEFINE n == Len(v)
           black == {i \in 1..n : v[i] # SP}
<1>0. n \in Nat /\ Len(u) = 1 + n /\ \A k \in 1..n : u[1 + k] = v[k]
    BY DEF Text, Holds
<1>1. \A i \in 1..Len(u) : i = 1 \/ (i - 1 \in 1..n /\ u[i] = v[i - 1])
  <2> SUFFICES ASSUME NEW i \in 1..Len(u), i # 1 PROVE i - 1 \in 1..n /\ u[i] = v[i - 1]
      OBVIOUS
  <2>1. i - 1 \in 1..n /\ 1 + (i - 1) = i
      BY <1>0
  <2> QED
      BY <1>0, <2>1
<1>2. CASE black = {}
  <2>1. \A i \in 1..Len(v) : v[i] = SP
      BY <1>2
  <2>2. \A i \in 1..Len(u) : u[i] = SP
      BY <1>1, <2>1
  <2> QED
      BY <2>1, <2>2, TrimBlank
<1>3. CASE black # {}
  <2>1. Min(black) \in black /\ Max(black) \in black /\
        \A i \in black : Min(black) <= i /\ i <= Max(black)
    <3>1. black \subseteq 1..n /\ black \subseteq Nat
        OBVIOUS
    <3> HIDE DEF black
    <3>2. Min(black) \in black /\ \A i \in black : Min(black) <= i
        BY <1>3, <3>1, FirstPlace
    <3>3. Max(black) \in black /\ \A i \in black : i <= Max(black)
        BY <1>0, <1>3, <3>1, LastPlace
    <3> QED
        BY <3>2, <3>3
  <2> DEFINE a == Min(black)
             b == Max(black)
  <2>2. a \in 1..n /\ b \in a..n /\ b \in 1..n /\ v[a] # SP /\ v[b] # SP
      BY <2>1
  <2>3. \A i \in 1..n : i < a \/ i > b => v[i] = SP
      BY <1>0, <2>1
  <2> HIDE DEF a, b, black
  <2>4. Trim(v) = SubSeq(v, a, b)
      BY <1>0, <2>2, <2>3, TrimIs
  <2>5. /\ a + 1 \in 1..Len(u) /\ b + 1 \in (a + 1)..Len(u)
        /\ u[a + 1] # SP /\ u[b + 1] # SP
    <3>1. a + 1 = 1 + a /\ b + 1 = 1 + b
        BY <2>2
    <3> QED
        BY <1>0, <2>2, <3>1
  <2>6. \A i \in 1..Len(u) : i < a + 1 \/ i > b + 1 => u[i] = SP
    <3> SUFFICES ASSUME NEW i \in 1..Len(u), i < a + 1 \/ i > b + 1, i # 1 PROVE u[i] = SP
        OBVIOUS
    <3>1. i - 1 \in 1..n /\ u[i] = v[i - 1]
        BY <1>1
    <3>2. i - 1 < a \/ i - 1 > b
        BY <1>0, <2>2
    <3> QED
        BY <2>3, <3>1, <3>2
  <2>7. Trim(u) = SubSeq(u, a + 1, b + 1)
      BY <2>5, <2>6, TrimIs
  <2>8. SubSeq(u, a + 1, b + 1) = SubSeq(v, a, b)
    <3>1. \A i \in a..b : v[i] \in Tokens /\ u[1 + i] = v[i]
        BY <1>0, <2>2 DEF Text
    <3>2. \A i \in (a + 1)..(b + 1) : u[i] \in Tokens
      <4>1. \A i \in (a + 1)..(b + 1) : i \in 1..Len(u)
          BY <1>0, <2>2
      <4> QED
          BY <4>1, ElementOfSeq DEF Text
    <3>3. /\ SubSeq(v, a, b) \in Text /\ Len(SubSeq(v, a, b)) = b - a + 1
          /\ \A i \in 1..(b - a + 1) : SubSeq(v, a, b)[i] = v[a + i - 1]
        BY <2>2, <3>1, SubSeqProperties DEF Text
    <3>4. /\ SubSeq(u, a + 1, b + 1) \in Text
          /\ Len(SubSeq(u, a + 1, b + 1)) = (b + 1) - (a + 1) + 1
          /\ \A i \in 1..((b + 1) - (a + 1) + 1) :
               SubSeq(u, a + 1, b + 1)[i] = u[(a + 1) + i - 1]
        BY <2>2, <3>2, SubSeqProperties DEF Text
    <3>5. (b + 1) - (a + 1) + 1 = b - a + 1
        BY <2>2
    <3>6. \A i \in 1..(b - a + 1) : /\ (a + 1) + i - 1 = 1 + (a + i - 1)
                                    /\ a + i - 1 \in 1..n
        BY <1>0, <2>2
    <3>7. \A i \in 1..(b - a + 1) : SubSeq(u, a + 1, b + 1)[i] = SubSeq(v, a, b)[i]
        BY <1>0, <3>3, <3>4, <3>5, <3>6
    <3> QED
        BY <3>3, <3>4, <3>5, <3>7, SeqEqual DEF Text
  <2> QED
      BY <2>4, <2>7, <2>8
<1> QED
    BY <1>2, <1>3

\* The tokens of such a line.
LEMMA INIPlaces ==
    ASSUME NEW key \in Tokens, NEW w \in Text, NEW raw, raw = INI(key, w)
    PROVE  /\ raw \in Text /\ Len(raw) = 4 + Len(w) /\ Len(w) \in Nat
           /\ raw[1] = key /\ raw[2] = SP /\ raw[3] = "=" /\ raw[4] = SP
           /\ Holds(raw, 4, w)
<1> DEFINE a == <<key, SP, "=", SP>>
<1>1. a \in Text /\ Len(a) = 4 /\ a[1] = key /\ a[2] = SP /\ a[3] = "=" /\ a[4] = SP
    BY Separators DEF Text
<1>2. a \in Text /\ raw = a \o w
    BY <1>1 DEF INI
<1> HIDE DEF a
<1>3. /\ raw \in Text /\ Len(raw) = Len(a) + Len(w) /\ Len(w) \in Nat
      /\ \A j \in 1..Len(a) : raw[j] = a[j]
      /\ \A k \in 1..Len(w) : raw[Len(a) + k] = w[k]
    BY <1>2, Joined DEF Text
<1>4. \A k \in 1..Len(w) : raw[4 + k] = w[k]
    BY <1>1, <1>3
<1>5. 1 \in 1..Len(a) /\ 2 \in 1..Len(a) /\ 3 \in 1..Len(a) /\ 4 \in 1..Len(a)
    BY <1>1
<1> QED
    BY <1>1, <1>3, <1>4, <1>5 DEF Holds

\* The two sides of such a line.
LEMMA INIRead ==
    ASSUME NEW key \in Tokens, key # SP, key # "=", NEW w \in Text, w # <<>>, w[Len(w)] # SP,
           NEW raw, raw = INI(key, w)
    PROVE  /\ raw \in Text /\ raw # <<>> /\ raw[1] = key /\ Trim(raw) = raw /\ "=" \in ToSet(raw)
           /\ Trim(Before(raw, "=")) = <<key>>
           /\ Trim(After(raw, "=")) = Trim(w)
<1> DEFINE n == Len(w)
           m == Len(raw)
<1>0. n \in Nat /\ n # 0
    BY DEF Text
<1>1. /\ raw \in Text /\ m = 4 + n
      /\ raw[1] = key /\ raw[2] = SP /\ raw[3] = "=" /\ raw[4] = SP
      /\ Holds(raw, 4, w)
    BY INIPlaces
<1>2. \A k \in 1..n : raw[4 + k] = w[k]
    BY <1>1 DEF Holds
<1>3. DOMAIN raw = 1..m /\ m \in Nat /\ m >= 5 /\ \A i \in 1..m : raw[i] \in Tokens
    BY <1>0, <1>1 DEF Text
<1>4. Trim(raw) = raw /\ raw # <<>>
  <2>1. raw[m] # SP
      BY <1>0, <1>1, <1>2
  <2>2. raw # <<>>
      BY <1>3
  <2> QED
      BY <1>1, <2>1, <2>2, TrimNothing
<1>5. "=" \in ToSet(raw)
  <2>1. 3 \in DOMAIN raw
      BY <1>3
  <2> QED
      BY <1>1, <2>1 DEF ToSet
<1>6. Before(raw, "=") = SubSeq(raw, 1, 2) /\ After(raw, "=") = SubSeq(raw, 4, m)
  <2>1. 3 \in 1..Len(raw) /\ 3 - 1 = 2 /\ 3 + 1 = 4
      BY <1>3
  <2>2. \A j \in 1..(3 - 1) : raw[j] # "="
    <3>1. SP # "="
        BY DEF SP
    <3>2. \A j \in 1..(3 - 1) : j = 1 \/ j = 2
        OBVIOUS
    <3> QED
        BY <1>1, <3>1, <3>2
  <2>3. Before(raw, "=") = SubSeq(raw, 1, 3 - 1) /\ After(raw, "=") = SubSeq(raw, 3 + 1, Len(raw))
      BY <1>1, <2>1, <2>2, CutAt
  <2> QED
      BY <2>1, <2>3
<1>7. Trim(SubSeq(raw, 1, 2)) = <<key>>
  <2>1. \A i \in 1..2 : raw[i] \in Tokens
      BY <1>3
  <2> DEFINE u == SubSeq(raw, 1, 2)
  <2>2. /\ u \in Text /\ Len(u) = 2 - 1 + 1
        /\ \A i \in 1..(2 - 1 + 1) : u[i] = raw[1 + i - 1]
      BY <2>1, SubSeqProperties DEF Text
  <2>3. u \in Text /\ Len(u) = 2 /\ u[1] = key /\ u[2] = SP
      BY <1>1, <2>2
  <2> HIDE DEF u
  <2> QED
      BY <2>3, TrimPair DEF u
<1>8. Trim(SubSeq(raw, 4, m)) = Trim(w)
  <2>1. \A i \in 4..m : raw[i] \in Tokens
      BY <1>3
  <2> DEFINE u == SubSeq(raw, 4, m)
  <2>2. /\ u \in Text /\ Len(u) = m - 4 + 1
        /\ \A i \in 1..(m - 4 + 1) : u[i] = raw[4 + i - 1]
      BY <1>3, <2>1, SubSeqProperties DEF Text
  <2> HIDE DEF u
  <2>3. Len(u) = 1 + n /\ u[1] = SP
      BY <1>0, <1>1, <2>2
  <2>4. \A k \in 1..n : u[1 + k] = w[k]
    <3>1. \A k \in 1..n : 1 + k \in 1..(m - 4 + 1) /\ 4 + (1 + k) - 1 = 4 + k
        BY <1>0, <1>1
    <3> QED
        BY <1>2, <2>2, <3>1
  <2> QED
      BY <2>2, <2>3, <2>4, TrimLead DEF Holds, u
<1> QED
    BY <1>1, <1>4, <1>5, <1>6, <1>7, <1>8

\* A "key = value" line of ubo.toml, with or without a comment after it, sets
\* its field and nothing else.
LEMMA ValueLine ==
    ASSUME NEW st, NEW g, NEW x, Reading(st, g, x), NEW key \in Tokens,
           key \notin {SP, "=", Q, "[", "]", "#"},
           NEW f, f = <<x, key>>, f \in Fields,
           KindOf[f] \in {"string", "int", "bool"}, NEW v \in Values(f), NEW end \in Ends
    PROVE  Reading(ParseLine(st, INI(key, ValueText(f, v)) \o end), [g EXCEPT ![f] = v], x)
<1> DEFINE t == ValueText(f, v)
           w == t \o end
           raw == INI(key, w)
<1>1. /\ t \in Text /\ t # <<>> /\ t[1] # SP /\ t[Len(t)] # SP
      /\ IsValue(ParseValue(w), f, v)
  <2>1. CASE KindOf[f] = "string"
    <3>1. v \in Text
        BY Zenon, <2>1 DEF Values, Text
    <3> QED
        BY Zenon, <2>1, <3>1, StringIsRead
  <2>2. CASE KindOf[f] = "int"
    <3>1. "int" # "string"
        OBVIOUS
    <3>2. v \in {Atoi[n] : n \in DOMAIN Atoi}
        BY Zenon, <2>2, <3>1 DEF Values
    <3> QED
        BY Zenon, <2>2, <3>2, IntIsRead
  <2>3. CASE KindOf[f] = "bool"
    <3>1. "bool" # "string" /\ "bool" # "int"
        OBVIOUS
    <3>2. v \in BOOLEAN
        BY Zenon, <2>3, <3>1 DEF Values
    <3> QED
        BY Zenon, <2>3, <3>2, BoolIsRead
  <2> QED
      BY Zenon, <2>1, <2>2, <2>3
<1>2. end \in Text /\ (end # <<>> => end[Len(end)] # SP)
    BY EndsAreComments
<1>3. INI(key, t) \o end = raw
  <2> DEFINE h == <<key, SP, "=", SP>>
  <2>1. h \in Seq(Tokens)
      BY Separators
  <2> HIDE DEF h, t
  <2>2. t \in Seq(Tokens) /\ end \in Seq(Tokens)
      BY <1>1, <1>2 DEF Text
  <2>3. (h \o t) \o end = h \o (t \o end)
      BY ONLY <2>1, <2>2, ConcatAssociative
  <2> QED
      BY <2>3 DEF INI, h
<1> HIDE DEF t
<1>4. w \in Text /\ w # <<>> /\ w[1] # SP /\ w[Len(w)] # SP
  <2>1. t \in Text /\ end \in Text /\ w = t \o end
      BY <1>1, <1>2
  <2> HIDE DEF w
  <2>2. /\ w \in Text /\ Len(w) = Len(t) + Len(end) /\ Len(t) \in Nat /\ Len(end) \in Nat
        /\ \A j \in 1..Len(t) : w[j] = t[j]
        /\ \A k \in 1..Len(end) : w[Len(t) + k] = end[k]
      BY <2>1, Joined DEF Text
  <2>3. Len(t) # 0
      BY <1>1 DEF Text
  <2>4. w[1] = t[1] /\ Len(w) # 0
      BY <2>2, <2>3
  <2>5. w # <<>>
    <3>1. Len(<<>>) = 0
        OBVIOUS
    <3> QED
        BY <2>4, <3>1
  <2>6. CASE end = <<>>
    <3>1. Len(end) = 0
        BY <2>6
    <3>2. Len(w) = Len(t) /\ Len(t) \in 1..Len(t)
        BY <2>2, <2>3, <3>1
    <3> QED
        BY <1>1, <2>2, <2>4, <2>5, <3>2
  <2>7. CASE end # <<>>
    <3>1. Len(end) # 0
        BY <1>2, <2>7 DEF Text
    <3>2. Len(end) \in 1..Len(end)
        BY <2>2, <3>1
    <3>3. w[Len(t) + Len(end)] = end[Len(end)]
        BY <2>2, <3>2
    <3> QED
        BY <1>1, <1>2, <2>2, <2>4, <2>5, <2>7, <3>3
  <2> QED
      BY <2>6, <2>7
<1> HIDE DEF w
<1>5. Trim(w) = w
    BY <1>4, TrimNothing
<1>6. /\ raw \in Text /\ raw # <<>> /\ raw[1] = key /\ Trim(raw) = raw /\ "=" \in ToSet(raw)
      /\ Trim(Before(raw, "=")) = <<key>> /\ Trim(After(raw, "=")) = w
    BY <1>4, <1>5, INIRead
<1> HIDE DEF raw
<1>7. <<key>>[1] = key /\ Len(<<key>>) = 1
    OBVIOUS
<1>8. st.ok = TRUE /\ st.section = x
    BY DEF Reading
<1>9. ParseLine(st, raw) = Assign(st, key, ParseValue(w))
    BY Zenon, <1>6, <1>7, <1>8 DEF ParseLine
<1>10. Assign(st, key, ParseValue(w)) = [st EXCEPT !.cfg[f] = v]
    BY Zenon, <1>1, <1>8 DEF Assign, IsValue
<1> QED
    BY <1>3, <1>9, <1>10 DEF Reading, t

-----------------------------------------------------------------------------
(* The whole of ubo.toml. *)

\* The rows of the schema.
LEMMA LayoutRows ==
    ASSUME NEW i \in 1..14
    PROVE  /\ Layout[i][1] \in Tokens /\ Layout[i][1] # "=" /\ (Layout[i][1] = "" <=> i = 1)
           /\ Layout[i][2] \in Tokens
           /\ Layout[i][2] \notin {SP, "=", Q, "[", "]", "#"}
           /\ Layout[i][3] \in {"string", "int", "bool"}
<1>1. i = 1 \/ i = 2 \/ i = 3 \/ i = 4 \/ i = 5 \/ i = 6 \/ i = 7 \/ i = 8 \/ i = 9
      \/ i = 10 \/ i = 11 \/ i = 12 \/ i = 13 \/ i = 14
    OBVIOUS
<1>sections. /\ Layout[1][1] = "" /\ Layout[2][1] = "ssh" /\ Layout[3][1] = "ssh"
      /\ Layout[4][1] = "ssh" /\ Layout[5][1] = "ssh" /\ Layout[6][1] = "ssh"
      /\ Layout[7][1] = "wireguard" /\ Layout[8][1] = "wireguard" /\ Layout[9][1] = "wireguard"
      /\ Layout[10][1] = "dropbear" /\ Layout[11][1] = "output" /\ Layout[12][1] = "network"
      /\ Layout[13][1] = "network" /\ Layout[14][1] = "luks"
    BY DEF Layout
<1>keys. /\ Layout[1][2] = "host" /\ Layout[2][2] = "user" /\ Layout[3][2] = "port"
      /\ Layout[4][2] = "key" /\ Layout[5][2] = "sudo" /\ Layout[6][2] = "proxy_jump"
      /\ Layout[7][2] = "port" /\ Layout[8][2] = "server_ip" /\ Layout[9][2] = "client_ip"
      /\ Layout[10][2] = "port" /\ Layout[11][2] = "dir" /\ Layout[12][2] = "interface"
      /\ Layout[13][2] = "ip" /\ Layout[14][2] = "device"
    BY DEF Layout
<1>kinds. /\ Layout[1][3] = "string" /\ Layout[2][3] = "string" /\ Layout[3][3] = "int"
      /\ Layout[4][3] = "string" /\ Layout[5][3] = "bool" /\ Layout[6][3] = "string"
      /\ Layout[7][3] = "int" /\ Layout[8][3] = "string" /\ Layout[9][3] = "string"
      /\ Layout[10][3] = "int" /\ Layout[11][3] = "string" /\ Layout[12][3] = "string"
      /\ Layout[13][3] = "string" /\ Layout[14][3] = "string"
    BY DEF Layout
<1>2. Layout[i][1] # "=" /\ (Layout[i][1] = "" <=> i = 1)
    BY ONLY <1>1, <1>sections
<1>8. Layout[i][3] \in {"string", "int", "bool"}
    BY ONLY <1>1, <1>kinds
<1>3. Layout[i][2] \notin {SP, "=", Q, "[", "]", "#"}
    BY <1>1, <1>keys DEF SP, Q
<1>4. DOMAIN Layout = 1..14
    BY DEF Layout
<1>5. Layout[i] \in ToSet(Layout)
    BY <1>4 DEF ToSet
<1>6. Layout[i][1] \in Words /\ Layout[i][2] \in Words
    BY <1>5 DEF Words
<1>7. Words \subseteq Tokens
    BY DEF Tokens
<1> QED
    BY <1>2, <1>3, <1>6, <1>7, <1>8

\* The fields are those of the fourteen rows.
LEMMA LayoutFields ==
    /\ DOMAIN Layout = 1..14
    /\ \A i \in 1..14 : /\ Field(Layout[i]) \in Fields
                        /\ KindOf[Field(Layout[i])] \in {"string", "int", "bool"}
    /\ \A f \in Fields : \E i \in 1..14 : f = Field(Layout[i])
<1>1. DOMAIN Layout = 1..14
    BY DEF Layout
<1>2. ToSet(Layout) = {Layout[i] : i \in 1..14}
    BY <1>1 DEF ToSet
<1>3. \A i \in 1..14 : Field(Layout[i]) \in Fields
    BY <1>2 DEF Fields
<1>4. \A f \in Fields : \E i \in 1..14 : f = Field(Layout[i])
    BY <1>2 DEF Fields
<1>5. ASSUME NEW f \in Fields PROVE KindOf[f] \in {"string", "int", "bool"}
  <2> DEFINE l == CHOOSE l \in ToSet(Layout) : Field(l) = f
  <2>1. l \in ToSet(Layout)
      BY DEF Fields
  <2>2. PICK i \in 1..14 : l = Layout[i]
      BY <1>2, <2>1
  <2>3. KindOf[f] = l[3]
      BY DEF KindOf
  <2> HIDE DEF l
  <2> QED
      BY <2>2, <2>3, LayoutRows
<1> QED
    BY <1>1, <1>3, <1>4, <1>5

\* A field is the section and the key of its row.
LEMMA FieldParts ==
    ASSUME NEW l PROVE Field(l) = <<l[1], l[2]>> /\ Field(l)[1] = l[1] /\ Field(l)[2] = l[2]
    BY DEF Field

\* The section after i rows, and the lines of row i as Marshal writes them.
Section(i) == IF i = 0 THEN "" ELSE Layout[i][1]
Header(i) == << <<>>, <<"[", Layout[i][1], "]">> >>
ValueOf(c, i) == INI(Layout[i][2], ValueText(Field(Layout[i]), c[Field(Layout[i])]))
Block(c, i) == (IF Section(i - 1) # Section(i) THEN Header(i) ELSE <<>>) \o <<ValueOf(c, i)>>

\* The section of row i; before the first row none has begun.
LEMMA SectionOf == Section(0) = "" /\ \A i \in 1..14 : Section(i) = Layout[i][1]
<1>1. \A i \in 1..14 : i # 0
    OBVIOUS
<1> QED
    BY Zenon, <1>1 DEF Section

\* What Marshal writes for a value is text.
LEMMA ValueTextIsText ==
    ASSUME NEW c \in Configs, NEW f \in Fields, KindOf[f] \in {"string", "int", "bool"}
    PROVE  c[f] \in Values(f) /\ ValueText(f, c[f]) \in Text
<1> DEFINE v == c[f]
<1>0. v \in Values(f)
    BY CodecAssumption
<1>nothing. <<>> \in Ends
    BY DEF Ends
<1> HIDE DEF v
<1>1. CASE KindOf[f] = "string"
  <2>1. v \in Text
      BY Zenon, <1>0, <1>1 DEF Values, Text
  <2> QED
      BY Zenon, <1>0, <1>1, <1>nothing, <2>1, StringIsRead DEF v
<1>2. CASE KindOf[f] = "int"
  <2>1. "int" # "string"
      OBVIOUS
  <2>2. v \in {Atoi[n] : n \in DOMAIN Atoi}
      BY Zenon, <1>0, <1>2, <2>1 DEF Values
  <2> QED
      BY Zenon, <1>0, <1>2, <1>nothing, <2>2, IntIsRead DEF v
<1>3. CASE KindOf[f] = "bool"
  <2>1. "bool" # "string" /\ "bool" # "int"
      OBVIOUS
  <2>2. v \in BOOLEAN
      BY Zenon, <1>0, <1>3, <2>1 DEF Values
  <2> QED
      BY Zenon, <1>0, <1>3, <1>nothing, <2>2, BoolIsRead DEF v
<1> QED
    BY <1>1, <1>2, <1>3

\* A row is one line, or three where a section begins.
LEMMA BlockLines ==
    ASSUME NEW c \in Configs, NEW i \in 1..14
    PROVE  /\ Block(c, i) \in Seq(Text)
           /\ Section(i - 1) = Section(i) =>
                Len(Block(c, i)) = 1 /\ Block(c, i)[1] = ValueOf(c, i)
           /\ Section(i - 1) # Section(i) =>
                /\ Len(Block(c, i)) = 3 /\ Block(c, i)[1] = <<>>
                /\ Block(c, i)[2] = <<"[", Section(i), "]">> /\ Block(c, i)[3] = ValueOf(c, i)
           /\ ValueOf(c, i) \in Text
<1>1. Layout[i][1] \in Tokens /\ Layout[i][2] \in Tokens
    BY LayoutRows
<1>2. ValueText(Field(Layout[i]), c[Field(Layout[i])]) \in Text
    BY LayoutFields, ValueTextIsText
<1>3. ValueOf(c, i) \in Text
  <2> DEFINE t == ValueText(Field(Layout[i]), c[Field(Layout[i])])
             key == Layout[i][2]
             raw == INI(key, t)
  <2>1. t \in Text /\ key \in Tokens
      BY <1>1, <1>2
  <2>2. ValueOf(c, i) = raw
      BY DEF ValueOf
  <2> HIDE DEF t, key
  <2>3. raw \in Text
      BY <2>1, INIPlaces
  <2> QED
      BY <2>2, <2>3
<1> DEFINE head == <<"[", Layout[i][1], "]">>
           val == ValueOf(c, i)
           none == <<>>
<1>4. head \in Text /\ none \in Text
    BY <1>1, Separators DEF Text
<1>5. Section(i) = Layout[i][1]
    BY SectionOf
<1>6. Header(i) = <<none, head>>
    BY DEF Header
<1>7. /\ <<val>> \in Seq(Text) /\ Len(<<val>>) = 1 /\ <<val>>[1] = val
      /\ <<none, head>> \o <<val>> = <<none, head, val>>
      /\ <<none, head, val>> \in Seq(Text) /\ Len(<<none, head, val>>) = 3
      /\ <<none, head, val>>[1] = none /\ <<none, head, val>>[2] = head
      /\ <<none, head, val>>[3] = val
      /\ <<>> \o <<val>> = <<val>>
  <2> HIDE DEF head, val, none
  <2>1. ASSUME NEW T, NEW a \in T, NEW b \in T, NEW d \in T
        PROVE  /\ <<d>> \in Seq(T) /\ Len(<<d>>) = 1 /\ <<d>>[1] = d
               /\ <<a, b, d>> \in Seq(T) /\ Len(<<a, b, d>>) = 3
               /\ <<a, b, d>>[1] = a /\ <<a, b, d>>[2] = b /\ <<a, b, d>>[3] = d
      OBVIOUS
  <2>3. ASSUME NEW T, NEW a \in T, NEW b \in T, NEW d \in T
        PROVE  <<a, b>> \o <<d>> = <<a, b, d>>
    <3> DEFINE l == <<a, b>>
               r == <<d>>
               u == l \o r
    <3>1. l \in Seq(T) /\ r \in Seq(T)
        OBVIOUS
    <3>2. Len(l) = 2 /\ l[1] = a /\ l[2] = b /\ Len(r) = 1 /\ r[1] = d
        OBVIOUS
    <3> HIDE DEF l, r
    <3>3. /\ u \in Seq(T) /\ Len(u) = Len(l) + Len(r)
          /\ \A j \in 1..Len(l) : u[j] = l[j]
          /\ \A k \in 1..Len(r) : u[Len(l) + k] = r[k]
        BY <3>1, Joined
    <3> HIDE DEF u
    <3>4. Len(u) = 3 /\ u[1] = a /\ u[2] = b /\ u[2 + 1] = d
        BY <3>2, <3>3
    <3>5. /\ <<a, b, d>> \in Seq(T) /\ Len(<<a, b, d>>) = 3
          /\ <<a, b, d>>[1] = a /\ <<a, b, d>>[2] = b /\ <<a, b, d>>[3] = d
        OBVIOUS
    <3>6. \A j \in 1..3 : j = 1 \/ j = 2 \/ j = 3
        OBVIOUS
    <3>7. u = <<a, b, d>>
      <4> DEFINE t == <<a, b, d>>
      <4>1. t \in Seq(T) /\ Len(t) = 3 /\ \A j \in 1..3 : u[j] = t[j]
          BY <3>4, <3>5, <3>6
      <4> HIDE DEF t
      <4>2. Len(u) = Len(t) /\ \A j \in 1..Len(u) : u[j] = t[j]
          BY <3>4, <4>1
      <4>3. u \in Seq(T) /\ t \in Seq(T)
          BY <3>3, <4>1
      <4>4. u = t
          BY <4>2, <4>3, SeqEqual
      <4> QED
          BY <4>4 DEF t
    <3> QED
        BY <3>7 DEF u, l, r
  <2>4. ASSUME NEW T, NEW d \in T PROVE <<>> \o <<d>> = <<d>>
    <3>1. <<d>> \in Seq(T)
        OBVIOUS
    <3> QED
        BY <3>1, ConcatEmptySeq
  <2>2. val \in Text
      BY <1>3 DEF val
  <2> QED
      BY Zenon, <1>4, <2>1, <2>2, <2>3, <2>4
<1>8. CASE Section(i - 1) = Section(i)
  <2>1. Block(c, i) = <<val>>
      BY Zenon, <1>7, <1>8 DEF Block
  <2> QED
      BY Zenon, <1>3, <1>7, <1>8, <2>1
<1>9. CASE Section(i - 1) # Section(i)
  <2>1. Block(c, i) = <<none, head, val>>
      BY Zenon, <1>6, <1>7, <1>9 DEF Block
  <2> QED
      BY Zenon, <1>3, <1>5, <1>7, <1>9, <2>1
<1> QED
    BY <1>8, <1>9

\* Marshal lays the fourteen blocks end to end.
LEMMA MarshalBlocks ==
    ASSUME NEW c
    PROVE  Marshal(c) = FlattenSeq([i \in 1..14 |-> Block(c, i)])
<1>1. ASSUME NEW i \in 1..14
      PROVE  (LET f == Field(Layout[i])
                  header == IF f[1] # "" /\ Layout[i - 1][1] # f[1]
                              THEN << <<>>, <<"[", f[1], "]">> >> ELSE <<>>
              IN  header \o << <<f[2], SP, "=", SP>> \o ValueText(f, c[f]) >>)
             = Block(c, i)
  <2>1. Field(Layout[i])[1] = Layout[i][1] /\ Field(Layout[i])[2] = Layout[i][2]
      BY FieldParts
  <2>2. Section(i) = Layout[i][1]
      BY SectionOf
  <2>3. (Layout[i][1] # "" /\ Layout[i - 1][1] # Layout[i][1]) <=> Section(i - 1) # Section(i)
    <3>1. CASE i = 1
      <4>3. Layout[i][1] = ""
          BY Zenon, <3>1, LayoutRows
      <4>1. i - 1 = 0 /\ Layout[i][1] = ""
        <5>1. i - 1 = 0
            BY <3>1
        <5> QED
            BY Zenon, <4>3, <5>1
      <4>2. Section(i - 1) = "" /\ Section(i) = ""
          BY Zenon, <2>2, <4>1, SectionOf
      <4> QED
          BY <4>1, <4>2
    <3>2. CASE i # 1
      <4>1. i - 1 # 0
          BY <3>2
      <4>3. Layout[i][1] # ""
          BY <3>2, LayoutRows
      <4>2. Section(i - 1) = Layout[i - 1][1]
          BY Zenon, <4>1 DEF Section
      <4> QED
          BY <2>2, <4>2, <4>3
    <3> QED
        BY <3>1, <3>2
  <2> QED
      BY Zenon, <2>1, <2>3 DEF Block, Header, ValueOf, INI
<1>2. DOMAIN Layout = 1..14
    BY LayoutFields
<1> QED
    BY Zenon, <1>1, <1>2 DEF Marshal

\* The text as Marshal wrote it, with a comment after the value on any of its lines.
SameLines(text, t) ==
    /\ DOMAIN text = 1..Len(t)
    /\ \A j \in 1..Len(t) : \/ text[j] = t[j]
                            \/ "=" \in ToSet(t[j]) /\ text[j] = t[j] \o Comment

\* After i rows the section is theirs and their fields have been set.
ReadRows(c, st, i) ==
    \E g : /\ Reading(st, g, Section(i)) /\ g = [f \in Fields |-> g[f]]
           /\ \A j \in 1..i : g[Field(Layout[j])] = c[Field(Layout[j])]

\* The line of row i, with or without a comment, adds the value of row i.
LEMMA RowIsRead ==
    ASSUME NEW c \in Configs, NEW i \in 1..14, NEW st, ReadRows(c, st, i - 1),
           NEW st2, Reading(st2, st.cfg, Section(i)), NEW line,
           line = ValueOf(c, i) \/ line = ValueOf(c, i) \o Comment
    PROVE  ReadRows(c, ParseLine(st2, line), i)
<1> DEFINE f == Field(Layout[i])
           e == ParseLine(st2, line)
<1>1. PICK g : /\ Reading(st, g, Section(i - 1)) /\ g = [k \in Fields |-> g[k]]
               /\ \A j \in 1..(i - 1) : g[Field(Layout[j])] = c[Field(Layout[j])]
    BY DEF ReadRows
<1>2. Reading(st2, g, Section(i))
    BY <1>1 DEF Reading
<1>3. /\ f \in Fields /\ KindOf[f] \in {"string", "int", "bool"} /\ c[f] \in Values(f)
      /\ f = <<Section(i), Layout[i][2]>>
  <2>1. f \in Fields /\ KindOf[f] \in {"string", "int", "bool"}
      BY LayoutFields
  <2>2. f = <<Section(i), Layout[i][2]>>
      BY Zenon, FieldParts, SectionOf
  <2> QED
      BY <2>1, <2>2, ValueTextIsText
<1>4. Layout[i][2] \in Tokens /\ Layout[i][2] \notin {SP, "=", Q, "[", "]", "#"}
    BY LayoutRows
<1>5. PICK end \in Ends : line = ValueOf(c, i) \o end
  <2>1. CASE line = ValueOf(c, i)
    <3>1. ValueOf(c, i) \o <<>> = ValueOf(c, i)
        BY BlockLines, ConcatEmptySeq DEF Text
    <3>2. <<>> \in Ends
        BY DEF Ends
    <3> QED
        BY <2>1, <3>1, <3>2
  <2>2. CASE line = ValueOf(c, i) \o Comment
      BY <2>2 DEF Ends
  <2> QED
      BY <2>1, <2>2
<1>6. Reading(e, [g EXCEPT ![f] = c[f]], Section(i))
  <2>1. line = INI(Layout[i][2], ValueText(f, c[f])) \o end
      BY <1>5 DEF ValueOf
  <2> HIDE DEF f
  <2>2. Reading(ParseLine(st2, INI(Layout[i][2], ValueText(f, c[f])) \o end),
                [g EXCEPT ![f] = c[f]], Section(i))
      BY Zenon, <1>2, <1>3, <1>4, ValueLine
  <2> QED
      BY Zenon, <2>1, <2>2
<1> DEFINE h == [g EXCEPT ![f] = c[f]]
<1>7. h = [k \in Fields |-> h[k]] /\ \A k \in Fields : h[k] = IF k = f THEN c[f] ELSE g[k]
  <2> HIDE DEF f
  <2>1. DOMAIN g = Fields
      BY <1>1
  <2> QED
      BY <1>3, <2>1
<1>8. \A j \in 1..i : h[Field(Layout[j])] = c[Field(Layout[j])]
  <2> TAKE j \in 1..i
  <2>1. j \in 1..14 /\ (j # i => j \in 1..(i - 1))
      OBVIOUS
  <2> DEFINE k == Field(Layout[j])
  <2>2. k \in Fields /\ (j = i => k = f) /\ (j # i => g[k] = c[k])
      BY <1>1, <2>1, LayoutFields
  <2> HIDE DEF k, f, h
  <2>3. h[k] = c[k]
      BY <1>7, <2>2
  <2> QED
      BY <2>3 DEF k
<1> HIDE DEF h, e
<1>9. Reading(e, h, Section(i))
    BY <1>6 DEF h
<1> QED
    BY <1>7, <1>8, <1>9 DEF ReadRows, e

\* No "=" on the lines of a header.
LEMMA HeaderHasNoValue ==
    ASSUME NEW i \in 1..14
    PROVE  "=" \notin ToSet(<<>>) /\ "=" \notin ToSet(<<"[", Section(i), "]">>)
<1> DEFINE h == <<"[", Section(i), "]">>
<1>1. Section(i) # "="
    BY LayoutRows, SectionOf
<1>2. \A j \in 1..3 : j = 1 \/ j = 2 \/ j = 3
    OBVIOUS
<1>3. DOMAIN h = 1..3 /\ h[1] = "[" /\ h[2] = Section(i) /\ h[3] = "]"
    OBVIOUS
<1> HIDE DEF h
<1>4. \A j \in DOMAIN h : h[j] # "="
    BY <1>1, <1>2, <1>3
<1>5. "=" \notin ToSet(h)
    BY <1>4 DEF ToSet
<1>6. DOMAIN <<>> = {}
    OBVIOUS
<1>7. "=" \notin ToSet(<<>>)
    BY Zenon, <1>6 DEF ToSet
<1> QED
    BY <1>5, <1>7 DEF h

\* One row is read, its header before it.
LEMMA BlockIsRead ==
    ASSUME NEW c \in Configs, NEW i \in 1..14, NEW t \in Seq(Text), NEW text, SameLines(text, t),
           NEW o \in Nat, o + Len(Block(c, i)) <= Len(t), Holds(t, o, Block(c, i)),
           NEW R, \A j \in 1..Len(t) : R[j] = ParseLine(R[j - 1], text[j]),
           ReadRows(c, R[o], i - 1)
    PROVE  ReadRows(c, R[o + Len(Block(c, i))], i)
<1> DEFINE n == Len(t)
           b == Block(c, i)
<1>1. PICK g : Reading(R[o], g, Section(i - 1))
    BY DEF ReadRows
<1>2. R[o].cfg = g
    BY <1>1 DEF Reading
<1>3. n \in Nat
    OBVIOUS
<1>4. ASSUME NEW k \in 1..Len(b), Len(b) \in Nat
      PROVE  /\ R[o + k] = ParseLine(R[o + k - 1], text[o + k])
             /\ text[o + k] = b[k] \/ ("=" \in ToSet(b[k]) /\ text[o + k] = b[k] \o Comment)
  <2>1. o + k \in 1..n
    <3> HIDE DEF b, n
    <3>1. o + Len(b) <= n
        BY DEF b, n
    <3> QED
        BY <1>3, <1>4, <3>1
  <2>2. t[o + k] = b[k]
      BY DEF Holds
  <2>4. \/ text[o + k] = t[o + k]
        \/ "=" \in ToSet(t[o + k]) /\ text[o + k] = t[o + k] \o Comment
      BY Zenon, <2>1 DEF SameLines
  <2> HIDE DEF b
  <2>3. R[o + k] = ParseLine(R[(o + k) - 1], text[o + k])
      BY <2>1
  <2> QED
    <3>1. text[o + k] = b[k] \/ ("=" \in ToSet(b[k]) /\ text[o + k] = b[k] \o Comment)
        BY <2>2, <2>4
    <3> QED
        BY <2>3, <3>1
<1>5. CASE Section(i - 1) = Section(i)
  <2>1. Len(b) = 1 /\ b[1] = ValueOf(c, i)
      BY Zenon, <1>5, BlockLines
  <2> HIDE DEF b
  <2>2. 1 \in 1..Len(b) /\ Len(b) \in Nat /\ o + 1 - 1 = o
      BY <2>1
  <2>3. R[o + 1] = ParseLine(R[o], text[o + 1])
      BY <1>4, <2>2
  <2>4. text[o + 1] = ValueOf(c, i) \/ text[o + 1] = ValueOf(c, i) \o Comment
      BY <1>4, <2>1, <2>2
  <2>5. Reading(R[o], R[o].cfg, Section(i))
      BY <1>1, <1>2, <1>5
  <2>6. ReadRows(c, R[o + 1], i)
      BY Zenon, <2>3, <2>4, <2>5, RowIsRead
  <2> QED
      BY <2>1, <2>6 DEF b
<1>6. CASE Section(i - 1) # Section(i)
  <2>1. Len(b) = 3 /\ b[1] = <<>> /\ b[2] = <<"[", Section(i), "]">> /\ b[3] = ValueOf(c, i)
      BY Zenon, <1>6, BlockLines
  <2> HIDE DEF b
  <2>2. /\ 1 \in 1..Len(b) /\ 2 \in 1..Len(b) /\ 3 \in 1..Len(b) /\ Len(b) \in Nat
        /\ o + 1 - 1 = o /\ o + 2 - 1 = o + 1 /\ o + 3 - 1 = o + 2
      BY <2>1
  <2>3. R[o + 1] = R[o]
    <3>1. R[o + 1] = ParseLine(R[o], text[o + 1])
        BY <1>4, <2>2
    <3>2. text[o + 1] = <<>>
      <4>1. text[o + 1] = b[1] \/ "=" \in ToSet(b[1])
          BY <1>4, <2>2
      <4> QED
          BY Zenon, <2>1, <4>1, HeaderHasNoValue
    <3> QED
        BY Zenon, <3>1, <3>2, CommentLine
  <2>4. Reading(R[o + 2], g, Section(i))
    <3>1. R[o + 2] = ParseLine(R[o], text[o + 2])
      <4>1. R[o + 2] = ParseLine(R[o + 1], text[o + 2])
          BY <1>4, <2>2
      <4> QED
          BY <2>3, <4>1
    <3>2. text[o + 2] = <<"[", Section(i), "]">>
      <4>1. text[o + 2] = b[2] \/ "=" \in ToSet(b[2])
          BY <1>4, <2>2
      <4> QED
          BY Zenon, <2>1, <4>1, HeaderHasNoValue
    <3>3. Section(i) \in Tokens
        BY LayoutRows, SectionOf
    <3> QED
        BY Zenon, <1>1, <3>1, <3>2, <3>3, HeaderLine
  <2>5. R[o + 3] = ParseLine(R[o + 2], text[o + 3])
      BY <1>4, <2>2
  <2>6. text[o + 3] = ValueOf(c, i) \/ text[o + 3] = ValueOf(c, i) \o Comment
      BY <1>4, <2>1, <2>2
  <2>7. ReadRows(c, R[o + 3], i)
      BY Zenon, <1>2, <2>4, <2>5, <2>6, RowIsRead
  <2> QED
      BY <2>1, <2>7 DEF b
<1> QED
    BY <1>5, <1>6

\* Marshal lays the rows end to end.
LEMMA MarshalIsText ==
    ASSUME NEW c \in Configs
    PROVE  /\ Marshal(c) \in Seq(Text) /\ DOMAIN Marshal(c) = 1..Len(Marshal(c))
           /\ Len(Marshal(c)) \in Nat
           /\ \E F : /\ Len(F[0]) = 0 /\ Len(F[14]) = Len(Marshal(c))
                    /\ \A i \in 1..14 :
                         /\ Len(F[i - 1]) \in Nat
                         /\ Len(F[i]) = Len(F[i - 1]) + Len(Block(c, i))
                         /\ Len(F[i]) <= Len(Marshal(c))
                         /\ Holds(Marshal(c), Len(F[i - 1]), Block(c, i))
<1> DEFINE blocks == [i \in 1..14 |-> Block(c, i)]
           t == Marshal(c)
<1>1. blocks \in Seq(Seq(Text)) /\ Len(blocks) = 14 /\ \A i \in 1..14 : blocks[i] = Block(c, i)
    BY BlockLines
<1>2. t = FlattenSeq(blocks)
    BY Zenon, MarshalBlocks
<1> HIDE DEF blocks, t
<1>3. PICK F : Laid(F, blocks, Text) /\ t = F[Len(blocks)]
    BY <1>1, <1>2, LaidInOrder
<1>4. t \in Seq(Text) /\ Len(F[0]) = 0 /\ Len(t) = Len(F[14])
  <2>1. Len(blocks) \in 0..Len(blocks)
      BY <1>1
  <2>2. F[Len(blocks)] \in Seq(Text)
      BY <1>3, <2>1 DEF Laid
  <2>3. F[0] = <<>>
      BY <1>3 DEF Laid
  <2> QED
      BY <1>1, <1>3, <2>2, <2>3
<1>5. ASSUME NEW i \in 1..14
      PROVE  /\ Len(F[i - 1]) \in Nat
             /\ Len(F[i]) = Len(F[i - 1]) + Len(Block(c, i))
             /\ Len(F[i]) <= Len(t) /\ Holds(t, Len(F[i - 1]), Block(c, i))
  <2>1. i \in 1..Len(blocks) /\ blocks[i] = Block(c, i)
      BY <1>1
  <2>2. /\ Len(F[i - 1]) \in Nat /\ Len(F[i]) = Len(F[i - 1]) + Len(blocks[i])
        /\ Len(F[i]) <= Len(F[Len(blocks)]) /\ Holds(F[Len(blocks)], Len(F[i - 1]), blocks[i])
      BY <1>1, <1>3, <2>1, BlockIsLaid
  <2> QED
      BY Zenon, <1>3, <2>1, <2>2
<1>6. t \in Seq(Text) /\ DOMAIN t = 1..Len(t) /\ Len(t) \in Nat
    BY <1>4
<1> QED
    BY Zenon, <1>4, <1>5, <1>6 DEF t

\* What Load makes of the text: the configuration it was written from.
LEMMA MarshalIsRead ==
    ASSUME NEW c \in Configs, NEW text, SameLines(text, Marshal(c))
    PROVE  Load(text).cfg = c /\ Load(text).ok = TRUE
<1> DEFINE t == Marshal(c)
           n == Len(t)
<1>3. PICK F : /\ Len(F[0]) = 0 /\ Len(F[14]) = n
               /\ \A i \in 1..14 :
                    /\ Len(F[i - 1]) \in Nat
                    /\ Len(F[i]) = Len(F[i - 1]) + Len(Block(c, i))
                    /\ Len(F[i]) <= n /\ Holds(t, Len(F[i - 1]), Block(c, i))
    BY Zenon, MarshalIsText
<1>4. t \in Seq(Text) /\ n \in Nat /\ n = Len(t)
    BY Zenon, MarshalIsText
<1> HIDE DEF t
<1>5. SameLines(text, t) /\ DOMAIN text = 1..n
    BY DEF t, SameLines
<1> HIDE DEF n
<1>6. PICK R : /\ R[0] = Start
               /\ \A j \in 1..n : R[j] = ParseLine(R[j - 1], text[j])
               /\ Load(text) = R[n]
    BY <1>4, <1>5, LoadInOrder
<1> DEFINE Done(i) == ReadRows(c, R[Len(F[i])], i)
           N == {i \in Nat : i <= 14 => Done(i)}
<1>7. 0 \in N
  <2>1. Len(F[0]) = 0
      BY <1>3
  <2>2. Default = [f \in Fields |-> Default[f]]
      BY DEF Default
  <2>3. Section(0) = "" /\ 1..0 = {}
    <3>1. 1..0 = {}
        OBVIOUS
    <3> QED
        BY Zenon, <3>1, SectionOf
  <2>4. ReadRows(c, Start, 0)
      BY Zenon, <2>2, <2>3, StartReads DEF ReadRows
  <2> QED
      BY <1>6, <2>1, <2>4
<1>8. ASSUME NEW i \in Nat, i \in N PROVE i + 1 \in N
  <2> SUFFICES ASSUME i + 1 <= 14 PROVE Done(i + 1)
      OBVIOUS
  <2> DEFINE m == i + 1
  <2>1. m \in 1..14 /\ m - 1 = i /\ Done(i)
      BY <1>8
  <2> HIDE DEF m
  <2> DEFINE o == Len(F[m - 1])
  <2>3. o \in Nat /\ Len(F[m]) = o + Len(Block(c, m)) /\ o + Len(Block(c, m)) <= Len(t)
        /\ Holds(t, o, Block(c, m))
      BY Zenon, <1>3, <1>4, <2>1
  <2>4. \A j \in 1..Len(t) : R[j] = ParseLine(R[j - 1], text[j])
      BY <1>6 DEF n
  <2>5. ReadRows(c, R[o], m - 1)
      BY <2>1
  <2> HIDE DEF o
  <2>6. ReadRows(c, R[o + Len(Block(c, m))], m)
      BY Zenon, <1>4, <1>5, <2>1, <2>3, <2>4, <2>5, BlockIsRead
  <2> QED
      BY Zenon, <2>3, <2>6 DEF m
<1>9. Done(14)
  <2>1. Nat \subseteq N
    <3> HIDE DEF N
    <3> QED
        BY <1>7, <1>8, Induction
  <2> QED
      BY <2>1
<1>10. PICK g : /\ Reading(R[n], g, Section(14)) /\ g = [f \in Fields |-> g[f]]
                /\ \A j \in 1..14 : g[Field(Layout[j])] = c[Field(Layout[j])]
    BY Zenon, <1>3, <1>9 DEF ReadRows
<1>11. g = c
  <2>1. \A f \in Fields : g[f] = c[f]
      BY <1>10, LayoutFields
  <2>2. c = [f \in Fields |-> c[f]]
      BY Zenon, CodecAssumption
  <2> QED
      BY Zenon, <1>10, <2>1, <2>2
<1>12. R[n].cfg = c /\ R[n].ok = TRUE
    BY Zenon, <1>10, <1>11 DEF Reading
<1> QED
    BY Zenon, <1>6, <1>12

\* A comment on a line of its own: the lines after it move down by one.
LEMMA InsertedPlaces ==
    ASSUME NEW t \in Seq(Text), NEW n, n = Len(t), NEW i \in 1..n, NEW text,
           text = InsertAt(t, i, Comment)
    PROVE  /\ DOMAIN text = 1..(n + 1) /\ text[i] = Comment
           /\ \A j \in 1..(i - 1) : text[j] = t[j]
           /\ \A j \in i..n : text[j + 1] = t[j]
<1> DEFINE a == SubSeq(t, 1, i - 1)
           b == SubSeq(t, i, n)
           k == <<Comment>>
           u == a \o k
<1>0. n \in Nat /\ \A j \in 1..n : t[j] \in Text
    OBVIOUS
<1>1. a \in Seq(Text) /\ Len(a) = i - 1 /\ \A j \in 1..(i - 1) : a[j] = t[j]
  <2>1. \A j \in 1..(i - 1) : t[j] \in Text
      BY <1>0
  <2>2. /\ a \in Seq(Text) /\ Len(a) = IF 1 <= i - 1 THEN (i - 1) - 1 + 1 ELSE 0
        /\ \A j \in 1..((i - 1) - 1 + 1) : a[j] = t[1 + j - 1]
      BY <1>0, <2>1, SubSeqProperties
  <2> HIDE DEF a
  <2>3. (i - 1) - 1 + 1 = i - 1 /\ \A j \in 1..(i - 1) : 1 + j - 1 = j
      BY <1>0
  <2> QED
      BY <1>0, <2>2, <2>3
<1>2. b \in Seq(Text) /\ Len(b) = n - i + 1 /\ \A j \in 1..(n - i + 1) : b[j] = t[i + j - 1]
  <2>1. \A j \in i..n : t[j] \in Text
      BY <1>0
  <2> QED
      BY <1>0, <2>1, SubSeqProperties
<1>3. k \in Seq(Text) /\ Len(k) = 1 /\ k[1] = Comment
  <2> DEFINE c == Comment
  <2>1. c \in Text
      BY CommentPlaces
  <2> HIDE DEF c
  <2>2. <<c>> \in Seq(Text) /\ Len(<<c>>) = 1 /\ <<c>>[1] = c
      BY <2>1
  <2> QED
      BY <2>2 DEF c
<1>4. text = u \o b
    BY DEF InsertAt
<1> HIDE DEF a, b, k
<1>5. a \in Seq(Text) /\ k \in Seq(Text) /\ b \in Seq(Text)
    BY <1>1, <1>2, <1>3
<1>6. /\ u \in Seq(Text) /\ Len(u) = Len(a) + Len(k)
      /\ \A j \in 1..Len(a) : u[j] = a[j]
      /\ \A j \in 1..Len(k) : u[Len(a) + j] = k[j]
    BY <1>5, Joined
<1> HIDE DEF u
<1>7. Len(u) = i /\ (\A j \in 1..(i - 1) : u[j] = t[j]) /\ u[i] = Comment
  <2>1. Len(u) = i
      BY <1>0, <1>1, <1>3, <1>6
  <2>2. u[Len(a) + 1] = Comment
      BY <1>3, <1>6
  <2>3. Len(a) + 1 = i
      BY <1>0, <1>1
  <2> QED
      BY <1>1, <1>6, <2>1, <2>2, <2>3
<1>8. /\ text \in Seq(Text) /\ Len(text) = Len(u) + Len(b)
      /\ \A j \in 1..Len(u) : text[j] = u[j]
      /\ \A j \in 1..Len(b) : text[Len(u) + j] = b[j]
  <2>1. u \in Seq(Text) /\ b \in Seq(Text) /\ text = u \o b
      BY <1>4, <1>5, <1>6
  <2> QED
      BY <2>1, Joined
<1>9. DOMAIN text = 1..(n + 1)
  <2>1. Len(text) = n + 1
      BY <1>0, <1>2, <1>7, <1>8
  <2> QED
      BY <1>8, <2>1
<1>10. text[i] = Comment /\ \A j \in 1..(i - 1) : text[j] = t[j]
  <2>1. i \in 1..i /\ \A j \in 1..(i - 1) : j \in 1..i
      BY <1>0
  <2> QED
      BY <1>7, <1>8, <2>1
<1>11. ASSUME NEW j \in i..n PROVE text[j + 1] = t[j]
  <2> DEFINE m == j - i + 1
  <2>1. m \in 1..(n - i + 1) /\ i + m = j + 1 /\ i + m - 1 = j
      BY <1>0
  <2> HIDE DEF m
  <2>2. text[i + m] = b[m] /\ b[m] = t[i + m - 1]
      BY <1>2, <1>7, <1>8, <2>1
  <2> QED
      BY <2>1, <2>2
<1> QED
    BY <1>9, <1>10, <1>11

\* The lines before and after it are read as they were.
LEMMA InsertedIsIgnored ==
    ASSUME NEW t \in Seq(Text), NEW i \in DOMAIN t
    PROVE  Load(InsertAt(t, i, Comment)) = Load(t)
<1> DEFINE n == Len(t)
           text == InsertAt(t, i, Comment)
<1>1. n \in Nat /\ n = Len(t) /\ DOMAIN t = 1..n /\ i \in 1..n /\ n + 1 \in Nat
    OBVIOUS
<1>2. /\ DOMAIN text = 1..(n + 1) /\ text[i] = Comment
      /\ \A j \in 1..(i - 1) : text[j] = t[j]
      /\ \A j \in i..n : text[j + 1] = t[j]
    BY <1>1, InsertedPlaces
<1> HIDE DEF n, text
<1>3. PICK R : /\ R[0] = Start
               /\ \A j \in 1..(n + 1) : R[j] = ParseLine(R[j - 1], text[j])
               /\ Load(text) = R[n + 1]
    BY <1>1, <1>2, LoadInOrder
<1>4. PICK S : /\ S[0] = Start
               /\ \A j \in 1..n : S[j] = ParseLine(S[j - 1], t[j])
               /\ Load(t) = S[n]
    BY <1>1, LoadInOrder
<1> DEFINE Same(j) == (j < i => R[j] = S[j]) /\ (j >= i - 1 => R[j + 1] = S[j])
           N == {j \in Nat : j <= n => Same(j)}
<1>5. R[i] = R[i - 1]
  <2>1. i \in 1..(n + 1)
      BY <1>1
  <2> QED
      BY <1>2, <1>3, <2>1, CommentLine
<1>6. 0 \in N
  <2>1. CASE i = 1
    <3>1. R[1] = R[0]
        BY <1>5, <2>1
    <3> QED
        BY <1>1, <1>3, <1>4, <2>1, <3>1
  <2>2. CASE i # 1
      BY <1>1, <1>3, <1>4, <2>2
  <2> QED
      BY <2>1, <2>2
<1>7. ASSUME NEW j \in Nat, j \in N PROVE j + 1 \in N
  <2> SUFFICES ASSUME j + 1 <= n PROVE Same(j + 1)
      OBVIOUS
  <2>1. j <= n /\ j + 1 \in 1..n /\ j + 1 \in 1..(n + 1) /\ j + 2 \in 1..(n + 1)
        /\ (j + 1) - 1 = j /\ (j + 2) - 1 = j + 1 /\ (j + 1) + 1 = j + 2
      BY <1>1
  <2>2. Same(j)
      BY <1>7, <2>1
  <2>3. S[j + 1] = ParseLine(S[j], t[j + 1])
      BY <1>4, <2>1
  <2>4. R[j + 1] = ParseLine(R[j], text[j + 1]) /\ R[j + 2] = ParseLine(R[j + 1], text[j + 2])
      BY <1>3, <2>1
  <2>5. j + 1 < i => R[j + 1] = S[j + 1]
    <3> SUFFICES ASSUME j + 1 < i PROVE R[j + 1] = S[j + 1]
        OBVIOUS
    <3>1. j + 1 \in 1..(i - 1) /\ j < i
        BY <1>1
    <3>2. text[j + 1] = t[j + 1] /\ R[j] = S[j]
        BY <1>2, <2>2, <3>1
    <3> QED
        BY <2>3, <2>4, <3>2
  <2>6. CASE j + 1 = i - 1
    <3>1. j + 1 < i /\ i = j + 2
        BY <1>1, <2>6
    <3>2. R[j + 2] = R[j + 1]
        BY <1>5, <2>6, <3>1
    <3> QED
        BY <2>1, <2>5, <3>1, <3>2
  <2>7. CASE j + 1 >= i
    <3>1. j + 1 \in i..n /\ j >= i - 1
        BY <1>1, <2>7
    <3>2. text[j + 2] = t[j + 1] /\ R[j + 1] = S[j]
        BY <1>2, <2>1, <2>2, <3>1
    <3>3. R[j + 2] = S[j + 1]
        BY <2>3, <2>4, <3>2
    <3> QED
        BY <2>1, <2>5, <3>3
  <2>8. CASE j + 1 < i - 1
      BY <1>1, <2>5, <2>8
  <2> QED
      BY <1>1, <2>6, <2>7, <2>8
<1>8. Same(n)
  <2>1. Nat \subseteq N
    <3> HIDE DEF N
    <3> QED
        BY <1>6, <1>7, Induction
  <2> QED
      BY <1>1, <2>1
<1>9. R[n + 1] = S[n]
    BY <1>1, <1>8
<1> QED
    BY <1>3, <1>4, <1>9 DEF text

\* Whatever was annotated by hand, the configuration is loaded as it was saved.
LEMMA AnnotatedIsRead ==
    ASSUME NEW c \in Configs, NEW text \in Annotated(Marshal(c))
    PROVE  Load(text).cfg = c /\ Load(text).ok = TRUE
<1> DEFINE t == Marshal(c)
<1>1. t \in Seq(Text) /\ Load(t).cfg = c /\ Load(t).ok = TRUE
  <2>1. t \in Seq(Text) /\ DOMAIN t = 1..Len(t)
      BY MarshalIsText
  <2>2. SameLines(t, t)
      BY <2>1 DEF SameLines
  <2> QED
      BY <2>1, <2>2, MarshalIsRead
<1>2. CASE text = t
    BY <1>1, <1>2
<1>3. CASE \E i \in DOMAIN t : text = InsertAt(t, i, Comment)
  <2> HIDE DEF t
  <2> QED
      BY <1>1, <1>3, InsertedIsIgnored
<1>4. CASE \E i \in {j \in DOMAIN t : "=" \in ToSet(t[j])} : text = ReplaceAt(t, i, t[i] \o Comment)
  <2>1. PICK i \in DOMAIN t : "=" \in ToSet(t[i]) /\ text = ReplaceAt(t, i, t[i] \o Comment)
      BY <1>4
  <2>2. SameLines(text, t)
    <3> HIDE DEF t
    <3>1. DOMAIN t = 1..Len(t)
        BY <1>1
    <3>2. DOMAIN text = DOMAIN t /\ \A j \in DOMAIN t : text[j] = IF j = i THEN t[i] \o Comment ELSE t[j]
        BY <2>1 DEF ReplaceAt
    <3> QED
        BY <2>1, <3>1, <3>2 DEF SameLines
  <2> QED
      BY <2>2, MarshalIsRead
<1> QED
    BY <1>2, <1>3, <1>4 DEF Annotated

\* Every configuration that is saved is loaded again exactly as it was (toml.go:307),
\* for any strings, any numbers that have numerals and any comment put in.
THEOREM CodecSavedIsLoaded == Spec => SavedIsLoaded
<1> DEFINE Inv == cfg \in Configs
<1>1. Init => Inv
    BY DEF Init
<1>2. cfg \in Configs /\ [Next]_vars =>
        cfg' \in Configs /\ (stage = "new" /\ vars' # vars => stage' = "loaded" /\ cfg' = cfg)
  <2> SUFFICES ASSUME cfg \in Configs, [Next]_vars
               PROVE  /\ cfg' \in Configs
                      /\ (stage = "new" /\ vars' # vars => stage' = "loaded" /\ cfg' = cfg)
      OBVIOUS
  <2>1. CASE SaveAndLoad
    <3>1. PICK text \in Annotated(Marshal(cfg)) :
            /\ cfg' = Load(text).cfg
            /\ stage' = IF Load(text).ok THEN "loaded" ELSE "refused"
        BY <2>1 DEF SaveAndLoad
    <3>2. Load(text).cfg = cfg /\ Load(text).ok = TRUE
        BY <3>1, AnnotatedIsRead
    <3> QED
        BY <3>1, <3>2
  <2>2. CASE WriteClientConf
      BY <2>2 DEF WriteClientConf
  <2>3. CASE CutShort
      BY <2>3 DEF CutShort
  <2>4. CASE ParseClientConf
      BY <2>4 DEF ParseClientConf
  <2>5. CASE SetupDevice
      BY <2>5 DEF SetupDevice
  <2>6. CASE UNCHANGED vars
      BY <2>6 DEF vars
  <2> QED
      BY <2>1, <2>2, <2>3, <2>4, <2>5, <2>6 DEF Next, Finished
<1>3. Inv /\ [Next]_vars => Inv'
    BY <1>2
<1>4. Inv /\ [Next]_vars => [stage = "new" => stage' = "loaded" /\ cfg' = cfg]_vars
    BY <1>2
<1> HIDE DEF Inv
<1> QED
    BY <1>1, <1>3, <1>4, PTL DEF Spec, SavedIsLoaded

-----------------------------------------------------------------------------
(* Reading client_wg.conf. *)

\* A line that starts with a token that is no space still does after trimming.
LEMMA TrimStarts ==
    ASSUME NEW s \in Text, s # <<>>, s[1] # SP
    PROVE  Trim(s) \in Text /\ Trim(s) # <<>> /\ Trim(s)[1] = s[1]
<1> DEFINE black == {i \in DOMAIN s : s[i] # SP}
           b == Max(black)
<1>1. DOMAIN s = 1..Len(s) /\ Len(s) \in Nat /\ black \subseteq 1..Len(s) /\ 1 \in black
  <2>1. Len(s) # 0
      BY DEF Text
  <2> QED
      BY <2>1 DEF Text
<1>2. b \in black /\ \A i \in black : i <= b
    BY <1>1, LastPlace
<1>3. b \in 1..Len(s) /\ 1 <= b /\ s[b] # SP /\ \A i \in 1..Len(s) : i > b => s[i] = SP
  <2>1. b \in 1..Len(s) /\ s[b] # SP
      BY <1>1, <1>2
  <2>2. \A i \in 1..Len(s) : s[i] # SP => i <= b
      BY <1>1, <1>2
  <2> HIDE DEF b
  <2>3. \A i \in 1..Len(s) : i > b => ~ (i <= b)
      BY <2>1
  <2> QED
      BY <2>1, <2>2, <2>3
<1> HIDE DEF black, b
<1>4. Trim(s) = SubSeq(s, 1, b)
  <2>1. 1 \in 1..Len(s) /\ b \in 1..Len(s) /\ \A i \in 1..Len(s) : ~ (i < 1)
      BY <1>1, <1>3
  <2> QED
      BY <1>3, <2>1, TrimIs
<1>5. \A i \in 1..b : s[i] \in Tokens
    BY <1>1, <1>3 DEF Text
<1>6. /\ SubSeq(s, 1, b) \in Text /\ Len(SubSeq(s, 1, b)) = b - 1 + 1
      /\ \A i \in 1..(b - 1 + 1) : SubSeq(s, 1, b)[i] = s[1 + i - 1]
    BY <1>3, <1>5, SubSeqProperties DEF Text
<1>7. Len(SubSeq(s, 1, b)) # 0 /\ SubSeq(s, 1, b)[1] = s[1]
    BY <1>3, <1>6
<1>8. SubSeq(s, 1, b) # <<>>
    BY <1>7, EmptySeq
<1> QED
    BY <1>4, <1>6, <1>7, <1>8

\* What lies before the first c of such a line, if anything, starts with that token.
LEMMA CutStarts ==
    ASSUME NEW s \in Text, s # <<>>, NEW c
    PROVE  Before(s, c) \in Text /\ (Before(s, c) = <<>> \/ Before(s, c)[1] = s[1])
<1>1. Before(s, c) \in Text
    BY CutText
<1>2. CASE \A j \in 1..Len(s) : s[j] # c
    BY <1>1, <1>2, CutNowhere
<1>3. CASE \E j \in 1..Len(s) : s[j] = c
  <2> DEFINE I == {j \in 1..Len(s) : s[j] = c}
             i == Min(I)
  <2>1. i \in I
    <3>1. I # {} /\ I \subseteq Nat
        BY <1>3
    <3> HIDE DEF I
    <3> QED
        BY <3>1, FirstPlace
  <2>2. SelectInSeq(s, LAMBDA x : x = c) = i
      BY <1>3 DEF SelectInSeq
  <2>3. i \in 1..Len(s) /\ Len(s) \in Nat /\ i # 0
      BY <2>1 DEF Text
  <2> HIDE DEF i
  <2>4. Before(s, c) = SubSeq(s, 1, i - 1)
      BY <2>2, <2>3 DEF Before
  <2>5. \A j \in 1..(i - 1) : s[j] \in Tokens
      BY <2>3 DEF Text
  <2>6. /\ SubSeq(s, 1, i - 1) \in Text
        /\ Len(SubSeq(s, 1, i - 1)) = IF 1 <= i - 1 THEN (i - 1) - 1 + 1 ELSE 0
        /\ \A j \in 1..((i - 1) - 1 + 1) : SubSeq(s, 1, i - 1)[j] = s[1 + j - 1]
      BY <2>3, <2>5, SubSeqProperties DEF Text
  <2>7. CASE i = 1
    <3>1. Len(Before(s, c)) = 0
        BY <2>4, <2>6, <2>7
    <3> QED
        BY <1>1, <3>1 DEF Text
  <2>8. CASE i # 1
      BY <2>3, <2>4, <2>6, <2>8
  <2> QED
      BY <2>7, <2>8
<1> QED
    BY <1>1, <1>2, <1>3

\* A line that starts with another word leaves the field alone.
LEMMA OtherFieldKept ==
    ASSUME NEW p, NEW raw \in Text, NEW f \in PeerFields, DOMAIN p = PeerFields,
           raw = <<>> \/ (raw[1] # SP /\ raw[1] # f)
    PROVE  ApplyWGLine(p, raw)[f] = p[f]
<1> DEFINE line == Trim(raw)
           cut  == Before(line, "=")
           key  == Trim(cut)
<1>1. CASE raw = <<>>
  <2>1. line = <<>>
      BY <1>1, TrimBlank
  <2> QED
      BY <2>1 DEF ApplyWGLine
<1>2. CASE raw # <<>>
  <2>1. line \in Text /\ line # <<>> /\ line[1] = raw[1]
      BY <1>2, TrimStarts
  <2> HIDE DEF line
  <2>2. cut \in Text /\ (cut = <<>> \/ cut[1] = raw[1])
      BY <2>1, CutStarts
  <2> HIDE DEF cut
  <2>3. key = <<>> \/ key[1] = raw[1]
      BY <1>2, <2>2, TrimStarts, TrimBlank
  <2>4. Len(key) # 1 \/ key[1] # f
      BY <1>2, <2>3
  <2> HIDE DEF key
  <2>5. ApplyWGLine(p, raw) = p \/
        (Len(key) = 1 /\ ApplyWGLine(p, raw) = [p EXCEPT ![key[1]] = Trim(After(line, "="))])
      BY Zenon DEF ApplyWGLine, line, cut, key
  <2> QED
      BY <2>4, <2>5
<1> QED
    BY <1>1, <1>2

\* Whatever the line, what was read stays text.
LEMMA PeerStaysText ==
    ASSUME NEW p \in [PeerFields -> Text], NEW raw \in Text
    PROVE  ApplyWGLine(p, raw) \in [PeerFields -> Text]
<1> DEFINE line == Trim(raw)
           key  == Trim(Before(line, "="))
           val  == Trim(After(line, "="))
<1>1. val \in Text
    BY TrimText, CutText
<1>2. ApplyWGLine(p, raw) = p \/ ApplyWGLine(p, raw) = [p EXCEPT ![key[1]] = val]
    BY Zenon DEF ApplyWGLine
<1> QED
    BY <1>1, <1>2

\* A whole line of a field sets it.
LEMMA FieldSet ==
    ASSUME NEW p \in [PeerFields -> Text], NEW key \in PeerFields,
           NEW w \in Text, w # <<>>, w[Len(w)] # SP, NEW raw, raw = INI(key, w)
    PROVE  /\ raw \in Text /\ ApplyWGLine(p, raw) \in [PeerFields -> Text]
           /\ ApplyWGLine(p, raw)[key] = Trim(w)
           /\ \A f \in PeerFields : f # key => ApplyWGLine(p, raw)[f] = p[f]
<1>1. key \in Tokens /\ key # SP /\ key # "=" /\ key # "#" /\ key # "["
    BY ConfWords DEF PeerFields, SP
<1>2. /\ raw \in Text /\ raw # <<>> /\ raw[1] = key /\ Trim(raw) = raw /\ "=" \in ToSet(raw)
      /\ Trim(Before(raw, "=")) = <<key>>
      /\ Trim(After(raw, "=")) = Trim(w)
    BY <1>1, INIRead
<1>3. Len(<<key>>) = 1 /\ <<key>>[1] = key
    OBVIOUS
<1>4. Head(raw) \notin {"#", "["}
    BY <1>1, <1>2 DEF Text
<1>5. ApplyWGLine(p, raw) = [p EXCEPT ![key] = Trim(w)]
  <2> DEFINE line == Trim(raw)
             k == Trim(Before(line, "="))
  <2>1. line = raw /\ k = <<key>> /\ Len(k) = 1 /\ k[1] = key
      BY <1>2, <1>3
  <2>2. ~ (line = <<>> \/ Head(line) \in {"#", "["} \/ "=" \notin ToSet(line)
             \/ Len(k) # 1 \/ k[1] \notin PeerFields)
      BY <1>2, <1>4, <2>1
  <2>3. ApplyWGLine(p, raw) = [p EXCEPT ![k[1]] = Trim(After(line, "="))]
      BY Zenon, <2>2 DEF ApplyWGLine
  <2> QED
      BY <1>2, <2>1, <2>3
<1>6. Trim(w) \in Text
    BY TrimText
<1> QED
    BY <1>2, <1>5, <1>6

-----------------------------------------------------------------------------
(* The lines of client_wg.conf. *)

\* The kind of a field goes with its key.
LEMMA KindOfKey ==
    ASSUME NEW f \in Fields
    PROVE  KindOf[f] = IF f[2] = "port" THEN "int" ELSE IF f[2] = "sudo" THEN "bool" ELSE "string"
<1> DEFINE K(key) == IF key = "port" THEN "int" ELSE IF key = "sudo" THEN "bool" ELSE "string"
<1>1. ASSUME NEW i \in 1..14 PROVE Layout[i][3] = K(Layout[i][2])
  <2>1. i = 1 \/ i = 2 \/ i = 3 \/ i = 4 \/ i = 5 \/ i = 6 \/ i = 7 \/ i = 8 \/ i = 9
        \/ i = 10 \/ i = 11 \/ i = 12 \/ i = 13 \/ i = 14
      OBVIOUS
  <2>2. /\ Layout[1][2] = "host" /\ Layout[2][2] = "user" /\ Layout[3][2] = "port"
        /\ Layout[4][2] = "key" /\ Layout[5][2] = "sudo" /\ Layout[6][2] = "proxy_jump"
        /\ Layout[7][2] = "port" /\ Layout[8][2] = "server_ip" /\ Layout[9][2] = "client_ip"
        /\ Layout[10][2] = "port" /\ Layout[11][2] = "dir" /\ Layout[12][2] = "interface"
        /\ Layout[13][2] = "ip" /\ Layout[14][2] = "device"
      BY DEF Layout
  <2>3. /\ Layout[1][3] = "string" /\ Layout[2][3] = "string" /\ Layout[3][3] = "int"
        /\ Layout[4][3] = "string" /\ Layout[5][3] = "bool" /\ Layout[6][3] = "string"
        /\ Layout[7][3] = "int" /\ Layout[8][3] = "string" /\ Layout[9][3] = "string"
        /\ Layout[10][3] = "int" /\ Layout[11][3] = "string" /\ Layout[12][3] = "string"
        /\ Layout[13][3] = "string" /\ Layout[14][3] = "string"
      BY DEF Layout
  <2> QED
      BY <2>1, <2>2, <2>3
<1>2. ToSet(Layout) = {Layout[i] : i \in 1..14}
    BY LayoutFields DEF ToSet
<1> DEFINE l == CHOOSE l \in ToSet(Layout) : Field(l) = f
<1>3. l \in ToSet(Layout) /\ Field(l) = f
    BY DEF Fields
<1>4. KindOf[f] = l[3]
    BY DEF KindOf
<1> HIDE DEF l
<1>5. f[2] = l[2]
    BY <1>3, FieldParts
<1> HIDE DEF K
<1>6. l[3] = K(l[2])
    BY <1>1, <1>2, <1>3
<1> QED
    BY <1>4, <1>5, <1>6 DEF K

\* The fields that client_wg.conf is written from.
LEMMA ConfFields ==
    ASSUME NEW c \in Configs
    PROVE  /\ c[<<"", "host">>] \in Text
           /\ c[<<"wireguard", "server_ip">>] \in Text /\ c[<<"wireguard", "client_ip">>] \in Text
           /\ \A s \in {"ssh", "wireguard", "dropbear"} :
                c[<<s, "port">>] \in {Atoi[n] : n \in DOMAIN Atoi}
<1>1. /\ Layout[1][1] = "" /\ Layout[1][2] = "host"
      /\ Layout[3][1] = "ssh" /\ Layout[3][2] = "port"
      /\ Layout[7][1] = "wireguard" /\ Layout[7][2] = "port"
      /\ Layout[8][1] = "wireguard" /\ Layout[8][2] = "server_ip"
      /\ Layout[9][1] = "wireguard" /\ Layout[9][2] = "client_ip"
      /\ Layout[10][1] = "dropbear" /\ Layout[10][2] = "port"
    BY DEF Layout
<1>2. \A i \in 1..14 : <<Layout[i][1], Layout[i][2]>> \in Fields
    BY LayoutFields, FieldParts
<1>3. /\ <<"", "host">> \in Fields /\ <<"ssh", "port">> \in Fields
      /\ <<"wireguard", "port">> \in Fields /\ <<"wireguard", "server_ip">> \in Fields
      /\ <<"wireguard", "client_ip">> \in Fields /\ <<"dropbear", "port">> \in Fields
  <2>1. 1 \in 1..14 /\ 3 \in 1..14 /\ 7 \in 1..14 /\ 8 \in 1..14 /\ 9 \in 1..14 /\ 10 \in 1..14
      OBVIOUS
  <2>2. <<Layout[1][1], Layout[1][2]>> \in Fields /\ <<Layout[3][1], Layout[3][2]>> \in Fields
        /\ <<Layout[7][1], Layout[7][2]>> \in Fields /\ <<Layout[8][1], Layout[8][2]>> \in Fields
        /\ <<Layout[9][1], Layout[9][2]>> \in Fields /\ <<Layout[10][1], Layout[10][2]>> \in Fields
      BY <1>2, <2>1
  <2> QED
      BY <1>1, <2>2
<1>4. ASSUME NEW f \in Fields PROVE c[f] \in Values(f)
    BY CodecAssumption
<1>5. ASSUME NEW f \in Fields, f[2] \notin {"port", "sudo"} PROVE c[f] \in Text
  <2>1. KindOf[f] = "string"
      BY <1>5, KindOfKey
  <2> QED
      BY Zenon, <1>4, <2>1 DEF Values, Text
<1>6. ASSUME NEW f \in Fields, f[2] = "port" PROVE c[f] \in {Atoi[n] : n \in DOMAIN Atoi}
  <2>1. KindOf[f] = "int" /\ "int" # "string"
      BY <1>6, KindOfKey
  <2> QED
      BY Zenon, <1>4, <2>1 DEF Values
<1>7. /\ <<"", "host">>[2] \notin {"port", "sudo"}
      /\ <<"wireguard", "server_ip">>[2] \notin {"port", "sudo"}
      /\ <<"wireguard", "client_ip">>[2] \notin {"port", "sudo"}
    OBVIOUS
<1>8. c[<<"", "host">>] \in Text /\ c[<<"wireguard", "server_ip">>] \in Text
      /\ c[<<"wireguard", "client_ip">>] \in Text
    BY <1>3, <1>5, <1>7
<1>9. \A s \in {"ssh", "wireguard", "dropbear"} : <<s, "port">> \in Fields /\ <<s, "port">>[2] = "port"
    BY <1>3
<1>10. ASSUME NEW s \in {"ssh", "wireguard", "dropbear"}
       PROVE  c[<<s, "port">>] \in {Atoi[n] : n \in DOMAIN Atoi}
    BY <1>6, <1>9
<1> QED
    BY <1>8, <1>10

\* A number that has a numeral is written as one that reads back.
LEMMA ItoaIsRead ==
    ASSUME NEW v \in {Atoi[n] : n \in DOMAIN Atoi}
    PROVE  /\ Itoa(v) \in DOMAIN Atoi /\ Itoa(v) \in Tokens /\ Itoa(v) \notin Special
           /\ Atoi[Itoa(v)] = v /\ v \in Int
<1>1. \E t \in DOMAIN Atoi : Atoi[t] = v
    OBVIOUS
<1>2. Itoa(v) \in DOMAIN Atoi /\ Atoi[Itoa(v)] = v
    BY <1>1 DEF Itoa
<1> QED
    BY <1>2, NumeralsAndAddresses

\* A prefix starts with an address and has no space at its end.
LEMMA CIDRIsText ==
    ASSUME NEW s \in Text, IsCIDR(s)
    PROVE  /\ s # <<>> /\ s[1] \in DOMAIN NetOf /\ s[1] # SP /\ s[Len(s)] # SP /\ Len(s) \in Nat
           /\ Trim(s) = s
<1>1. s # <<>> /\ s[1] \in DOMAIN NetOf /\ Tail(s) \in Masks
    BY DEF IsCIDR
<1>2. s[1] # SP
    BY <1>1, NumeralsAndAddresses DEF Special
<1>3. Len(s) \in Nat /\ Len(Tail(s)) = Len(s) - 1 /\ \A i \in 1..(Len(s) - 1) : Tail(s)[i] = s[i + 1]
    BY <1>1 DEF Text
<1>4. ASSUME NEW m \in Masks PROVE Len(m) \in Nat \ {0} /\ m[Len(m)] # SP
  <2>1. "3" # SP /\ "2" # SP /\ "4" # SP
      BY DEF SP
  <2>2. CASE m = <<"/", "3">>
    <3>1. Len(<<"/", "3">>) = 2 /\ <<"/", "3">>[2] = "3"
        OBVIOUS
    <3> QED
        BY <2>1, <2>2, <3>1
  <2>3. CASE m = <<"/", "3", "2">>
    <3>1. Len(<<"/", "3", "2">>) = 3 /\ <<"/", "3", "2">>[3] = "2"
        OBVIOUS
    <3> QED
        BY <2>1, <2>3, <3>1
  <2>4. CASE m = <<"/", "2", "4">>
    <3>1. Len(<<"/", "2", "4">>) = 3 /\ <<"/", "2", "4">>[3] = "4"
        OBVIOUS
    <3> QED
        BY <2>1, <2>4, <3>1
  <2> QED
      BY <2>2, <2>3, <2>4 DEF Masks
<1>5. s[Len(s)] # SP
  <2>1. Len(s) - 1 \in Nat \ {0} /\ Tail(s)[Len(s) - 1] # SP
      BY <1>1, <1>3, <1>4
  <2>2. Len(s) - 1 \in 1..(Len(s) - 1) /\ (Len(s) - 1) + 1 = Len(s)
    <3>1. \A k \in Nat : k - 1 \in Nat \ {0} => k - 1 \in 1..(k - 1) /\ (k - 1) + 1 = k
        OBVIOUS
    <3>2. Len(s) \in Nat /\ Len(s) - 1 \in Nat \ {0}
        BY <1>3, <2>1
    <3> QED
        BY <3>1, <3>2
  <2> QED
      BY <1>3, <2>1, <2>2
<1> QED
    BY <1>1, <1>2, <1>3, <1>5, TrimNothing

\* A token more at the end of a text.
LEMMA TokensText ==
    ASSUME NEW x \in Tokens, NEW y \in Tokens
    PROVE  /\ <<x>> \in Text /\ Len(<<x>>) = 1 /\ <<x>>[1] = x
           /\ <<x, y>> \in Text /\ Len(<<x, y>>) = 2 /\ <<x, y>>[1] = x /\ <<x, y>>[2] = y
    BY DEF Text

\* The host, in brackets if it is an IPv6 address, and the port.
HostAndPort(e, host, port) ==
    /\ e \in Text /\ Len(host) \in Nat /\ Len(e) \in Nat
    /\ e[Len(e)] = Itoa(port) /\ e[Len(e) - 1] = ":"
    /\ \/ /\ ToSet(host) \cap IPv6 # {} /\ Len(e) = Len(host) + 4
          /\ e[1] = "[" /\ Holds(e, 1, host) /\ e[Len(host) + 2] = "]"
       \/ /\ ToSet(host) \cap IPv6 = {} /\ Len(e) = Len(host) + 2 /\ Holds(e, 0, host)

\* That is the endpoint.
LEMMA EndpointPlaces ==
    ASSUME NEW host \in Text, NEW port \in {Atoi[n] : n \in DOMAIN Atoi},
           NEW e, e = WGEndpoint(host, port)
    PROVE  HostAndPort(e, host, port)
<1> DEFINE t == <<":", Itoa(port)>>
           o == <<"[">>
           z == <<"]">>
<1>1. t \in Text /\ Len(t) = 2 /\ t[1] = ":" /\ t[2] = Itoa(port)
    BY TokensText, Separators, ItoaIsRead
<1>2. o \in Text /\ Len(o) = 1 /\ o[1] = "[" /\ z \in Text /\ Len(z) = 1 /\ z[1] = "]"
    BY TokensText, Separators
<1>3. e = (IF ToSet(host) \cap IPv6 # {} THEN o \o host \o z ELSE host) \o t
    BY DEF WGEndpoint
<1> HIDE DEF t, o, z
<1>4. Len(host) \in Nat
    BY DEF Text
<1>5. CASE ToSet(host) \cap IPv6 # {}
  <2> DEFINE u == o \o host
             v == u \o z
  <2>1. o \in Text /\ u = o \o host
      BY <1>2
  <2>2. v = u \o z /\ e = v \o t
      BY <1>3, <1>5
  <2> HIDE DEF u, v
  <2>3. /\ u \in Text /\ Len(u) = Len(o) + Len(host)
        /\ \A j \in 1..Len(o) : u[j] = o[j]
        /\ \A k \in 1..Len(host) : u[Len(o) + k] = host[k]
      BY <2>1, Joined DEF Text
  <2>4. u \in Text /\ z \in Text /\ v = u \o z
      BY <1>2, <2>2, <2>3
  <2>5. /\ v \in Text /\ Len(v) = Len(u) + Len(z)
        /\ \A j \in 1..Len(u) : v[j] = u[j]
        /\ \A k \in 1..Len(z) : v[Len(u) + k] = z[k]
      BY <2>4, Joined DEF Text
  <2>6. v \in Text /\ t \in Text /\ e = v \o t
      BY <1>1, <2>2, <2>5
  <2>7. /\ e \in Text /\ Len(e) = Len(v) + Len(t)
        /\ \A j \in 1..Len(v) : e[j] = v[j]
        /\ \A k \in 1..Len(t) : e[Len(v) + k] = t[k]
      BY <2>6, Joined DEF Text
  <2>8. Len(u) = 1 + Len(host) /\ Len(v) = Len(host) + 2 /\ Len(e) = Len(host) + 4
      BY <1>1, <1>2, <1>4, <2>3, <2>5, <2>7
  <2>9. e[Len(host) + 3] = ":" /\ e[Len(host) + 4] = Itoa(port)
    <3>1. e[Len(v) + 1] = t[1] /\ e[Len(v) + 2] = t[2]
        BY <1>1, <2>7
    <3>2. Len(v) + 1 = Len(host) + 3 /\ Len(v) + 2 = Len(host) + 4
        BY <1>4, <2>8
    <3> QED
        BY <1>1, <3>1, <3>2
  <2>10. e[Len(host) + 2] = "]"
    <3>1. v[Len(u) + 1] = z[1]
        BY <1>2, <2>5
    <3>2. Len(u) + 1 = Len(host) + 2 /\ Len(host) + 2 \in 1..Len(v)
        BY <1>4, <2>8
    <3> QED
        BY <1>2, <2>7, <3>1, <3>2
  <2>11. e[1] = "["
    <3>1. 1 \in 1..Len(o) /\ 1 \in 1..Len(u) /\ 1 \in 1..Len(v)
        BY <1>2, <1>4, <2>8
    <3> QED
        BY <1>2, <2>3, <2>5, <2>7, <3>1
  <2>12. ASSUME NEW k \in 1..Len(host) PROVE e[1 + k] = host[k]
    <3>1. 1 + k \in 1..Len(u) /\ 1 + k \in 1..Len(v) /\ Len(o) + k = 1 + k
        BY <1>2, <1>4, <2>8
    <3> QED
        BY <2>3, <2>5, <2>7, <3>1
  <2>13. Len(e) = Len(host) + 4 /\ Len(e) - 1 = Len(host) + 3 /\ Len(e) \in Nat
      BY <1>4, <2>8
  <2>14. Holds(e, 1, host)
      BY ONLY <2>12 DEF Holds
  <2>15. e[Len(e)] = Itoa(port) /\ e[Len(e) - 1] = ":"
      BY <2>9, <2>13
  <2> QED
      BY <1>4, <1>5, <2>7, <2>10, <2>11, <2>13, <2>14, <2>15 DEF HostAndPort
<1>6. CASE ToSet(host) \cap IPv6 = {}
  <2>1. host \in Text /\ t \in Text /\ e = host \o t
      BY <1>1, <1>3, <1>6
  <2>2. /\ e \in Text /\ Len(e) = Len(host) + Len(t)
        /\ \A j \in 1..Len(host) : e[j] = host[j]
        /\ \A k \in 1..Len(t) : e[Len(host) + k] = t[k]
      BY <2>1, Joined DEF Text
  <2>3. e[Len(host) + 1] = ":" /\ e[Len(host) + 2] = Itoa(port)
      BY <1>1, <2>2
  <2>4. Len(e) = Len(host) + 2 /\ Len(e) - 1 = Len(host) + 1 /\ Len(e) \in Nat
      BY <1>1, <1>4, <2>2
  <2>5. \A k \in 1..Len(host) : 0 + k = k
      BY <1>4
  <2>6. Holds(e, 0, host)
      BY <2>2, <2>5 DEF Holds
  <2>7. e[Len(e)] = Itoa(port) /\ e[Len(e) - 1] = ":"
      BY <2>3, <2>4
  <2> QED
      BY <1>4, <1>6, <2>2, <2>4, <2>6, <2>7 DEF HostAndPort
<1> QED
    BY <1>5, <1>6

\* The values of client_wg.conf.
Endpoint(c) == WGEndpoint(c[<<"", "host">>], c[<<"wireguard", "port">>])

\* Text that ends in no space.
Plain(w) == w \in Text /\ w # <<>> /\ w[Len(w)] # SP

\* The values are text that ends in no space, and only the endpoint may lose a space
\* to Trim.
LEMMA ConfValues ==
    ASSUME NEW c \in Configs, Valid(c)
    PROVE  /\ Plain(<<"client key", "=">>) /\ Plain(<<"server key", "=">>) /\ Plain(<<"25">>)
           /\ Plain(AllowedIPs(c)) /\ Plain(c[<<"wireguard", "client_ip">>])
           /\ Plain(Endpoint(c))
           /\ Trim(<<"client key", "=">>) = <<"client key", "=">>
           /\ Trim(<<"server key", "=">>) = <<"server key", "=">>
           /\ Trim(AllowedIPs(c)) = AllowedIPs(c)
           /\ Trim(c[<<"wireguard", "client_ip">>]) = c[<<"wireguard", "client_ip">>]
<1>0. /\ c[<<"", "host">>] \in Text
      /\ c[<<"wireguard", "server_ip">>] \in Text /\ c[<<"wireguard", "client_ip">>] \in Text
      /\ c[<<"wireguard", "port">>] \in {Atoi[n] : n \in DOMAIN Atoi}
    BY ConfFields
<1>1. IsCIDR(c[<<"wireguard", "server_ip">>]) /\ IsCIDR(c[<<"wireguard", "client_ip">>])
    BY DEF Valid
<1>2. ServerTunnelIP(c) \in DOMAIN NetOf /\ ServerTunnelIP(c) \in Tokens /\ ServerTunnelIP(c) # SP
    BY <1>0, <1>1, CIDRIsText, NumeralsAndAddresses DEF ServerTunnelIP
<1>3. /\ SP # "=" /\ SP # "2" /\ SP # "25" /\ SP # "client key" /\ SP # "server key"
    BY DEF SP
<1>4. ASSUME NEW w \in {<<"client key", "=">>, <<"server key", "=">>}
      PROVE  w \in Text /\ w # <<>> /\ w[Len(w)] # SP /\ w[1] # SP
  <2>1. CASE w = <<"client key", "=">>
      BY <1>3, <2>1, TokensText, ConfWords, Separators
  <2>2. CASE w = <<"server key", "=">>
      BY <1>3, <2>2, TokensText, ConfWords, Separators
  <2> QED
      BY <2>1, <2>2
<1>5. <<"25">> \in Text /\ <<"25">> # <<>> /\ <<"25">>[Len(<<"25">>)] # SP
    BY <1>3, TokensText, ConfWords
<1>6. /\ AllowedIPs(c) \in Text /\ AllowedIPs(c) # <<>> /\ AllowedIPs(c)[Len(AllowedIPs(c))] # SP
      /\ AllowedIPs(c)[1] # SP
  <2> DEFINE ip == ServerTunnelIP(c)
             w == <<ip, "/", "3", "2">>
  <2>0. ip \in Tokens /\ ip # SP
      BY <1>2
  <2> HIDE DEF ip
  <2>1. w \in Text /\ Len(w) = 4 /\ w[1] = ip /\ w[4] = "2"
    <3>1. ip \in Tokens /\ "/" \in Tokens /\ "3" \in Tokens /\ "2" \in Tokens
        BY <2>0, ConfWords, Separators
    <3> QED
        BY <3>1 DEF Text
  <2>2. AllowedIPs(c) = w
      BY DEF AllowedIPs, ip
  <2> HIDE DEF w
  <2>3. w # <<>>
    <3>1. Len(<<>>) # 4
        OBVIOUS
    <3> QED
        BY Zenon, <2>1, <3>1
  <2> QED
      BY <1>3, <2>0, <2>1, <2>2, <2>3
<1>7. /\ c[<<"wireguard", "client_ip">>] # <<>>
      /\ c[<<"wireguard", "client_ip">>][Len(c[<<"wireguard", "client_ip">>])] # SP
      /\ Trim(c[<<"wireguard", "client_ip">>]) = c[<<"wireguard", "client_ip">>]
    BY <1>0, <1>1, CIDRIsText
<1>8. Endpoint(c) \in Text /\ Endpoint(c) # <<>> /\ Endpoint(c)[Len(Endpoint(c))] # SP
  <2> DEFINE host == c[<<"", "host">>]
             port == c[<<"wireguard", "port">>]
             e == Endpoint(c)
  <2>0. /\ host \in Text /\ port \in {Atoi[n] : n \in DOMAIN Atoi}
        /\ e = WGEndpoint(host, port)
      BY <1>0 DEF Endpoint
  <2> HIDE DEF e, host, port
  <2>1. /\ e \in Text /\ Len(host) \in Nat /\ Len(e) \in Nat /\ e[Len(e)] = Itoa(port)
        /\ Len(e) = Len(host) + 4 \/ Len(e) = Len(host) + 2
    <3>1. HostAndPort(e, host, port)
        BY <2>0, EndpointPlaces
    <3> QED
        BY <3>1 DEF HostAndPort
  <2>2. Itoa(port) # SP
      BY <2>0, ItoaIsRead DEF Special
  <2>3. Len(e) # 0
      BY <2>1
  <2>4. e # <<>>
    <3>1. Len(<<>>) = 0
        OBVIOUS
    <3> QED
        BY Zenon, <2>3, <3>1
  <2> QED
      BY <2>1, <2>2, <2>4 DEF e
<1>9. /\ Trim(<<"client key", "=">>) = <<"client key", "=">>
      /\ Trim(<<"server key", "=">>) = <<"server key", "=">>
      /\ Trim(AllowedIPs(c)) = AllowedIPs(c)
  <2>1. \A w \in {<<"client key", "=">>, <<"server key", "=">>} : Trim(w) = w
      BY <1>4, TrimNothing
  <2>2. Trim(AllowedIPs(c)) = AllowedIPs(c)
      BY <1>6, TrimNothing
  <2> QED
      BY <2>1, <2>2
<1>10. Plain(<<"client key", "=">>) /\ Plain(<<"server key", "=">>) /\ Plain(<<"25">>)
    BY <1>4, <1>5 DEF Plain
<1>11. Plain(AllowedIPs(c)) /\ Plain(c[<<"wireguard", "client_ip">>]) /\ Plain(Endpoint(c))
    BY <1>0, <1>6, <1>7, <1>8 DEF Plain
<1> QED
    BY <1>7, <1>9, <1>10, <1>11

\* The nine lines of client_wg.conf.
LEMMA ConfLines ==
    ASSUME NEW c \in Configs, Valid(c), NEW L, L = ClientConf(c)
    PROVE  /\ L \in Seq(Text) /\ Len(L) = 9
           /\ L[1] = <<"[", "Interface", "]">>
           /\ L[2] = INI("PrivateKey", <<"client key", "=">>)
           /\ L[3] = INI("Address", c[<<"wireguard", "client_ip">>])
           /\ L[4] = <<>>
           /\ L[5] = <<"[", "Peer", "]">>
           /\ L[6] = INI("PublicKey", <<"server key", "=">>)
           /\ L[7] = INI("Endpoint", Endpoint(c))
           /\ L[8] = INI("AllowedIPs", AllowedIPs(c))
           /\ L[9] = INI("PersistentKeepalive", <<"25">>)
<1> DEFINE l1 == <<"[", "Interface", "]">>
           l2 == INI("PrivateKey", <<"client key", "=">>)
           l3 == INI("Address", c[<<"wireguard", "client_ip">>])
           l5 == <<"[", "Peer", "]">>
           l6 == INI("PublicKey", <<"server key", "=">>)
           l7 == INI("Endpoint", Endpoint(c))
           l8 == INI("AllowedIPs", AllowedIPs(c))
           l9 == INI("PersistentKeepalive", <<"25">>)
<1>1. L = <<l1, l2, l3, <<>>, l5, l6, l7, l8, l9>>
    BY DEF ClientConf, Endpoint
<1>2. l1 \in Text /\ l5 \in Text
  <2>1. "[" \in Tokens /\ "]" \in Tokens /\ "Interface" \in Tokens /\ "Peer" \in Tokens
      BY Separators, ConfWords
  <2> QED
      BY <2>1 DEF Text
<1>3. ASSUME NEW key \in Tokens, NEW w \in Text PROVE INI(key, w) \in Text
    BY INIPlaces
<1>4. l2 \in Text /\ l3 \in Text /\ l6 \in Text /\ l7 \in Text /\ l8 \in Text /\ l9 \in Text
  <2>1. /\ <<"client key", "=">> \in Text /\ <<"server key", "=">> \in Text /\ <<"25">> \in Text
        /\ AllowedIPs(c) \in Text /\ c[<<"wireguard", "client_ip">>] \in Text
        /\ Endpoint(c) \in Text
      BY ConfValues DEF Plain
  <2> QED
      BY <1>3, <2>1, ConfWords
<1>5. <<>> \in Text
    BY DEF Text
<1> HIDE DEF l1, l2, l3, l5, l6, l7, l8, l9
<1>6. /\ L \in Seq(Text) /\ Len(L) = 9 /\ L[1] = l1 /\ L[2] = l2 /\ L[3] = l3 /\ L[4] = <<>>
      /\ L[5] = l5 /\ L[6] = l6 /\ L[7] = l7 /\ L[8] = l8 /\ L[9] = l9
    BY <1>1, <1>2, <1>4, <1>5
<1> QED
    BY <1>6 DEF l1, l2, l3, l5, l6, l7, l8, l9

\* How a line changes what was read.
Keeps(p, q) == q \in [PeerFields -> Text] /\ \A f \in PeerFields : q[f] = p[f]
Sets(p, q, key, v) == /\ q \in [PeerFields -> Text] /\ q[key] = v
                      /\ \A f \in PeerFields : f # key => q[f] = p[f]

\* A line that starts with no field's name changes nothing.
LEMMA OtherLine ==
    ASSUME NEW p \in [PeerFields -> Text], NEW raw \in Text,
           raw = <<>> \/ raw[1] \notin PeerFields \cup {SP}
    PROVE  Keeps(p, ApplyWGLine(p, raw))
<1>1. ApplyWGLine(p, raw) \in [PeerFields -> Text]
    BY PeerStaysText
<1>2. ASSUME NEW f \in PeerFields PROVE ApplyWGLine(p, raw)[f] = p[f]
  <2>1. DOMAIN p = PeerFields /\ (raw = <<>> \/ (raw[1] # SP /\ raw[1] # f))
      OBVIOUS
  <2> QED
      BY <2>1, OtherFieldKept
<1> QED
    BY <1>1, <1>2 DEF Keeps

\* A whole line of a field sets it and nothing else.
LEMMA FieldLine ==
    ASSUME NEW p \in [PeerFields -> Text], NEW key \in PeerFields,
           NEW w, Plain(w), NEW raw, raw = INI(key, w), NEW q, q = ApplyWGLine(p, raw)
    PROVE  Sets(p, q, key, Trim(w))
    BY FieldSet DEF Plain, Sets

\* The first tokens of the lines.
LEMMA ConfStarts ==
    ASSUME NEW c \in Configs, Valid(c), NEW L, L = ClientConf(c)
    PROVE  /\ \A j \in {1, 4, 5, 9} : L[j] = <<>> \/ L[j][1] \notin PeerFields \cup {SP}
           /\ \A j \in 1..7 : L[j] = <<>> \/ (L[j][1] # SP /\ L[j][1] # "AllowedIPs")
<1>1. /\ L[1] = <<"[", "Interface", "]">> /\ L[4] = <<>> /\ L[5] = <<"[", "Peer", "]">>
      /\ L[2] = INI("PrivateKey", <<"client key", "=">>)
      /\ L[3] = INI("Address", c[<<"wireguard", "client_ip">>])
      /\ L[6] = INI("PublicKey", <<"server key", "=">>)
      /\ L[7] = INI("Endpoint", Endpoint(c))
      /\ L[9] = INI("PersistentKeepalive", <<"25">>)
    BY ConfLines
<1>2. L[1][1] = "[" /\ L[5][1] = "["
  <2>1. <<"[", "Interface", "]">>[1] = "[" /\ <<"[", "Peer", "]">>[1] = "["
      OBVIOUS
  <2> QED
      BY ONLY <1>1, <2>1
<1>3. ASSUME NEW key \in Tokens, NEW w \in Text PROVE INI(key, w)[1] = key
    BY INIPlaces
<1>4. /\ L[2][1] = "PrivateKey" /\ L[3][1] = "Address" /\ L[6][1] = "PublicKey"
      /\ L[7][1] = "Endpoint" /\ L[9][1] = "PersistentKeepalive"
  <2>1. /\ <<"client key", "=">> \in Text /\ <<"server key", "=">> \in Text /\ <<"25">> \in Text
        /\ c[<<"wireguard", "client_ip">>] \in Text /\ Endpoint(c) \in Text
      BY ConfValues DEF Plain
  <2>2. /\ INI("PrivateKey", <<"client key", "=">>)[1] = "PrivateKey"
        /\ INI("Address", c[<<"wireguard", "client_ip">>])[1] = "Address"
        /\ INI("PublicKey", <<"server key", "=">>)[1] = "PublicKey"
        /\ INI("Endpoint", Endpoint(c))[1] = "Endpoint"
        /\ INI("PersistentKeepalive", <<"25">>)[1] = "PersistentKeepalive"
      BY <1>3, <2>1, ConfWords
  <2> QED
      BY ONLY <1>1, <2>2
<1>5. /\ "[" \notin PeerFields \cup {SP} /\ "PersistentKeepalive" \notin PeerFields \cup {SP}
      /\ "PrivateKey" # SP /\ "Address" # SP /\ "PublicKey" # SP /\ "Endpoint" # SP /\ "[" # SP
    BY DEF PeerFields, SP
<1>6. \A j \in 1..7 : j = 1 \/ j = 2 \/ j = 3 \/ j = 4 \/ j = 5 \/ j = 6 \/ j = 7
    OBVIOUS
<1>7. \A j \in {1, 4, 5, 9} : L[j] = <<>> \/ L[j][1] \notin PeerFields \cup {SP}
    BY <1>1, <1>2, <1>4, <1>5
<1>8. /\ L[1][1] # "AllowedIPs" /\ L[2][1] # "AllowedIPs" /\ L[3][1] # "AllowedIPs"
      /\ L[5][1] # "AllowedIPs" /\ L[6][1] # "AllowedIPs" /\ L[7][1] # "AllowedIPs"
    BY <1>2, <1>4
<1> HIDE DEF PeerFields
<1>9. /\ L[1][1] # SP /\ L[2][1] # SP /\ L[3][1] # SP
      /\ L[5][1] # SP /\ L[6][1] # SP /\ L[7][1] # SP
    BY <1>2, <1>4, <1>5
<1>10. \A j \in 1..7 : L[j] = <<>> \/ (L[j][1] # SP /\ L[j][1] # "AllowedIPs")
  <2>1. L[4] = <<>>
      BY <1>1
  <2> QED
      BY ONLY <1>6, <1>8, <1>9, <2>1
<1> QED
    BY <1>7, <1>10

\* What the first seven lines leave.
LEMMA SevenLines ==
    ASSUME NEW c \in Configs, Valid(c), NEW R, R[0] = NoPeer,
           \A j \in 1..7 : R[j] = ApplyWGLine(R[j - 1], ClientConf(c)[j])
    PROVE  /\ R[7] \in [PeerFields -> Text]
           /\ R[7]["PrivateKey"] = <<"client key", "=">> /\ R[7]["PublicKey"] = <<"server key", "=">>
           /\ R[7]["Address"] = c[<<"wireguard", "client_ip">>]
           /\ R[7]["Endpoint"] = Trim(Endpoint(c))
           /\ R[7]["AllowedIPs"] = <<>>
<1> DEFINE L  == ClientConf(c)
           ck == <<"client key", "=">>
           sk == <<"server key", "=">>
           ip == c[<<"wireguard", "client_ip">>]
           e  == Endpoint(c)
<1>0. /\ Plain(ck) /\ Plain(sk) /\ Plain(ip) /\ Plain(e)
      /\ Trim(ck) = ck /\ Trim(sk) = sk /\ Trim(ip) = ip
    BY ConfValues
<1>1. /\ L \in Seq(Text) /\ Len(L) = 9
      /\ L[2] = INI("PrivateKey", ck) /\ L[3] = INI("Address", ip)
      /\ L[6] = INI("PublicKey", sk) /\ L[7] = INI("Endpoint", e)
    BY ConfLines
<1> HIDE DEF ck, sk, ip, e
<1>2. \A j \in 1..9 : L[j] \in Text
  <2>1. L \in Seq(Text) /\ Len(L) = 9
      BY <1>1
  <2> HIDE DEF L
  <2> QED
      BY <2>1, ElementOfSeq
<1>3. \A j \in {1, 4, 5, 9} : L[j] = <<>> \/ L[j][1] \notin PeerFields \cup {SP}
    BY ConfStarts
<1>4. /\ R[1] = ApplyWGLine(R[0], L[1]) /\ R[2] = ApplyWGLine(R[1], L[2])
      /\ R[3] = ApplyWGLine(R[2], L[3]) /\ R[4] = ApplyWGLine(R[3], L[4])
      /\ R[5] = ApplyWGLine(R[4], L[5]) /\ R[6] = ApplyWGLine(R[5], L[6])
      /\ R[7] = ApplyWGLine(R[6], L[7])
  <2>1. \A j \in 1..7 : R[j] = ApplyWGLine(R[j - 1], L[j])
      OBVIOUS
  <2>2. /\ 1 - 1 = 0 /\ 2 - 1 = 1 /\ 3 - 1 = 2 /\ 4 - 1 = 3 /\ 5 - 1 = 4 /\ 6 - 1 = 5 /\ 7 - 1 = 6
        /\ 1 \in 1..7 /\ 2 \in 1..7 /\ 3 \in 1..7 /\ 4 \in 1..7 /\ 5 \in 1..7 /\ 6 \in 1..7
        /\ 7 \in 1..7
      OBVIOUS
  <2> HIDE DEF L
  <2> QED
      BY <2>1, <2>2
<1> HIDE DEF L
<1>5. /\ "PrivateKey" \in PeerFields /\ "Address" \in PeerFields /\ "PublicKey" \in PeerFields
      /\ "Endpoint" \in PeerFields /\ "AllowedIPs" \in PeerFields
    BY DEF PeerFields
<1>6. R[0] \in [PeerFields -> Text] /\ \A f \in PeerFields : R[0][f] = <<>>
  <2>1. <<>> \in Text
      BY DEF Text
  <2> QED
      BY <2>1 DEF NoPeer
<1>7. Keeps(R[0], R[1])
    BY <1>2, <1>3, <1>4, <1>6, OtherLine
<1>8. Sets(R[1], R[2], "PrivateKey", ck)
  <2>1. R[1] \in [PeerFields -> Text]
      BY <1>7 DEF Keeps
  <2>2. Sets(R[1], R[2], "PrivateKey", Trim(ck))
      BY <1>0, <1>1, <1>4, <1>5, <2>1, FieldLine
  <2> QED
      BY <1>0, <2>2
<1>9. Sets(R[2], R[3], "Address", ip)
  <2>1. R[2] \in [PeerFields -> Text]
      BY <1>8 DEF Sets
  <2>2. Sets(R[2], R[3], "Address", Trim(ip))
      BY <1>0, <1>1, <1>4, <1>5, <2>1, FieldLine
  <2> QED
      BY <1>0, <2>2
<1>10. Keeps(R[3], R[4])
  <2>1. R[3] \in [PeerFields -> Text]
      BY <1>9 DEF Sets
  <2> QED
      BY <1>2, <1>3, <1>4, <2>1, OtherLine
<1>11. Keeps(R[4], R[5])
  <2>1. R[4] \in [PeerFields -> Text]
      BY <1>10 DEF Keeps
  <2> QED
      BY <1>2, <1>3, <1>4, <2>1, OtherLine
<1>12. Sets(R[5], R[6], "PublicKey", sk)
  <2>1. R[5] \in [PeerFields -> Text]
      BY <1>11 DEF Keeps
  <2>2. Sets(R[5], R[6], "PublicKey", Trim(sk))
      BY <1>0, <1>1, <1>4, <1>5, <2>1, FieldLine
  <2> QED
      BY <1>0, <2>2
<1>13. Sets(R[6], R[7], "Endpoint", Trim(e))
  <2>1. R[6] \in [PeerFields -> Text]
      BY <1>12 DEF Sets
  <2> QED
      BY <1>0, <1>1, <1>4, <1>5, <2>1, FieldLine
<1>14. R[7]["PrivateKey"] = R[2]["PrivateKey"]
  <2>1. R[3]["PrivateKey"] = R[2]["PrivateKey"]
      BY <1>5, <1>9 DEF Sets
  <2>2. R[5]["PrivateKey"] = R[3]["PrivateKey"]
      BY <1>5, <1>10, <1>11 DEF Keeps
  <2>3. R[6]["PrivateKey"] = R[5]["PrivateKey"]
      BY <1>5, <1>12 DEF Sets
  <2>4. R[7]["PrivateKey"] = R[6]["PrivateKey"]
      BY <1>5, <1>13 DEF Sets
  <2> QED
      BY <2>1, <2>2, <2>3, <2>4
<1>15. R[7]["Address"] = R[3]["Address"]
  <2>1. R[5]["Address"] = R[3]["Address"]
      BY <1>5, <1>10, <1>11 DEF Keeps
  <2>2. R[6]["Address"] = R[5]["Address"]
      BY <1>5, <1>12 DEF Sets
  <2>3. R[7]["Address"] = R[6]["Address"]
      BY <1>5, <1>13 DEF Sets
  <2> QED
      BY <2>1, <2>2, <2>3
<1>16. R[7]["PublicKey"] = R[6]["PublicKey"]
    BY <1>5, <1>13 DEF Sets
<1>17. R[7]["AllowedIPs"] = R[0]["AllowedIPs"]
  <2>1. R[1]["AllowedIPs"] = R[0]["AllowedIPs"]
      BY <1>5, <1>7 DEF Keeps
  <2>2. R[3]["AllowedIPs"] = R[1]["AllowedIPs"]
      BY <1>5, <1>8, <1>9 DEF Sets
  <2>3. R[5]["AllowedIPs"] = R[3]["AllowedIPs"]
      BY <1>5, <1>10, <1>11 DEF Keeps
  <2>4. R[7]["AllowedIPs"] = R[5]["AllowedIPs"]
      BY <1>5, <1>12, <1>13 DEF Sets
  <2> QED
      BY <2>1, <2>2, <2>3, <2>4
<1>18. /\ R[2]["PrivateKey"] = ck /\ R[3]["Address"] = ip /\ R[6]["PublicKey"] = sk
       /\ R[7]["Endpoint"] = Trim(e) /\ R[7] \in [PeerFields -> Text]
    BY <1>8, <1>9, <1>12, <1>13 DEF Sets
<1>19. R[0]["AllowedIPs"] = <<>>
    BY <1>5, <1>6
<1> QED
    BY <1>14, <1>15, <1>16, <1>17, <1>18, <1>19 DEF ck, sk, ip, e

\* u is text: the first k tokens of s.
Begins(u, s, k) ==
    /\ u \in Text /\ Len(u) = k /\ \A i \in 1..k : u[i] = s[i]
    /\ u = <<>> \/ u[1] = s[1]

\* A line that was cut short is text, and starts as the line does.
LEMMA PrefixPlaces ==
    ASSUME NEW s \in Text, NEW k \in 0..Len(s), NEW u, u = SubSeq(s, 1, k)
    PROVE  Begins(u, s, k)
<1>0. Len(s) \in Nat /\ k \in Nat /\ k <= Len(s) /\ \A i \in 1..Len(s) : s[i] \in Tokens
    BY DEF Text
<1>1. \A i \in 1..k : s[i] \in Tokens
    BY <1>0
<1>2. /\ u \in Text /\ Len(u) = IF 1 <= k THEN k - 1 + 1 ELSE 0
      /\ \A i \in 1..(k - 1 + 1) : u[i] = s[1 + i - 1]
    BY <1>0, <1>1, SubSeqProperties DEF Text
<1>3. Len(u) = k /\ k - 1 + 1 = k /\ \A i \in 1..k : 1 + i - 1 = i
    BY <1>0, <1>2
<1>4. \A i \in 1..k : u[i] = s[i]
    BY <1>2, <1>3
<1>5. u = <<>> \/ u[1] = s[1]
  <2>1. CASE k = 0
    <3>1. u \in Text /\ Len(u) = 0
        BY <1>2, <1>3, <2>1
    <3> QED
        BY ONLY <3>1 DEF Text
  <2>2. CASE k # 0
    <3>1. 1 \in 1..k
        BY <1>0, <2>2
    <3> QED
        BY <1>4, <3>1
  <2> QED
      BY <2>1, <2>2
<1>6. u \in Text /\ Len(u) = k
    BY <1>2, <1>3
<1> QED
    BY Zenon, <1>4, <1>5, <1>6 DEF Begins

\* Cut before its value, a line leaves its field as it was or empty.
LEMMA CutBeforeValue ==
    ASSUME NEW p \in [PeerFields -> Text], NEW key \in PeerFields, NEW w \in Text,
           NEW k \in 0..4, NEW raw, raw = SubSeq(INI(key, w), 1, k)
    PROVE  /\ raw \in Text /\ ApplyWGLine(p, raw) \in [PeerFields -> Text]
           /\ ApplyWGLine(p, raw)[key] \in {p[key], <<>>}
<1> DEFINE s == INI(key, w)
           line == Trim(raw)
<1>0. key \in Tokens /\ key # SP /\ key # "=" /\ SP # "="
    BY ConfWords DEF PeerFields, SP
<1>1. /\ s \in Text /\ Len(s) = 4 + Len(w) /\ Len(w) \in Nat
      /\ s[1] = key /\ s[2] = SP /\ s[3] = "=" /\ s[4] = SP
    BY <1>0, INIPlaces
<1> HIDE DEF s
<1>2. raw \in Text /\ Len(raw) = k /\ \A i \in 1..k : raw[i] = s[i]
  <2>1. k \in 0..Len(s) /\ raw = SubSeq(s, 1, k)
      BY <1>1 DEF s
  <2>2. Begins(raw, s, k)
      BY <1>1, <2>1, PrefixPlaces
  <2> QED
      BY <2>2 DEF Begins
<1>3. /\ k >= 1 => raw[1] = key
      /\ k >= 2 => raw[2] = SP
      /\ k >= 3 => raw[3] = "="
      /\ k >= 4 => raw[4] = SP
    BY <1>1, <1>2
<1>4. k = 0 \/ k = 1 \/ k = 2 \/ k = 3 \/ k = 4
    OBVIOUS
<1>5. /\ Trim(After(line, "=")) = <<>>
  <2>0. Trim(<<>>) = <<>>
    <3>1. <<>> \in Text /\ Len(<<>>) = 0
        BY DEF Text
    <3> QED
        BY <3>1, TrimBlank
  <2>1. CASE k = 0
    <3>1. raw = <<>>
        BY <1>2, <2>1 DEF Text
    <3>2. line = <<>>
        BY <2>0, <3>1
    <3> HIDE DEF line
    <3>4. line \in Text /\ Len(line) = 0
        BY <3>2 DEF Text
    <3>3. After(line, "=") = <<>>
        BY <3>4, CutNowhere
    <3> QED
        BY <2>0, <3>3
  <2>2. CASE k = 1 \/ k = 2
    <3>1. line \in Text /\ Len(line) = 1 /\ line[1] = key
      <4>1. CASE k = 1
        <5>1. Len(raw) = 1 /\ raw[1] = key /\ raw[1] # SP
            BY <1>0, <1>2, <1>3, <4>1
        <5>2. line = raw
            BY <1>2, <5>1, TrimNothing
        <5> HIDE DEF line
        <5> QED
            BY <1>2, <5>1, <5>2
      <4>2. CASE k = 2
        <5>1. Len(raw) = 2 /\ raw[1] = key /\ raw[2] = SP
            BY <1>2, <1>3, <4>2
        <5>2. line = <<key>>
            BY <1>0, <1>2, <5>1, TrimPair
        <5> QED
            BY <1>0, <5>2, TokensText
      <4> QED
          BY <2>2, <4>1, <4>2
    <3> HIDE DEF line
    <3>2. \A j \in 1..Len(line) : line[j] # "="
        BY <1>0, <3>1
    <3>3. After(line, "=") = <<>>
        BY <3>1, <3>2, CutNowhere
    <3> QED
        BY <2>0, <3>3
  <2>3. CASE k = 3 \/ k = 4
    <3>1. line \in Text /\ Len(line) = 3 /\ line[1] = key /\ line[2] = SP /\ line[3] = "="
      <4>1. CASE k = 3
        <5>1. /\ Len(raw) = 3 /\ raw[1] = key /\ raw[2] = SP /\ raw[3] = "="
              /\ raw[1] # SP /\ raw[3] # SP
            BY <1>0, <1>2, <1>3, <4>1
        <5>2. line = raw
            BY <1>2, <5>1, TrimNothing
        <5> HIDE DEF line
        <5> QED
            BY <1>2, <5>1, <5>2
      <4>2. CASE k = 4
        <5>1. /\ Len(raw) = 4 /\ raw[1] = key /\ raw[2] = SP /\ raw[3] = "=" /\ raw[4] = SP
            BY <1>2, <1>3, <4>2
        <5>2. /\ 1 \in 1..Len(raw) /\ 3 \in 1..Len(raw) /\ raw[1] # SP /\ raw[3] # SP
              /\ \A i \in 1..Len(raw) : i < 1 \/ i > 3 => raw[i] = SP
            BY <1>0, <5>1
        <5>3. line = SubSeq(raw, 1, 3)
            BY <1>2, <5>2, TrimIs
        <5>4. 3 \in 0..Len(raw)
            BY <5>1
        <5>5. line \in Text /\ Len(line) = 3 /\ \A i \in 1..3 : line[i] = raw[i]
          <6> DEFINE m == 3
          <6> HIDE DEF line
          <6>1. raw \in Text /\ m \in 0..Len(raw) /\ line = SubSeq(raw, 1, m)
              BY <1>2, <5>3, <5>4
          <6> HIDE DEF m
          <6>2. Begins(line, raw, m)
              BY <6>1, PrefixPlaces
          <6>3. line \in Text /\ Len(line) = m /\ \A i \in 1..m : line[i] = raw[i]
              BY <6>2 DEF Begins
          <6> QED
              BY <6>3 DEF m
        <5> QED
            BY <5>1, <5>5
      <4> QED
          BY <2>3, <4>1, <4>2
    <3> HIDE DEF line
    <3>2. /\ 3 \in 1..Len(line) /\ \A j \in 1..(3 - 1) : line[j] # "="
        BY <1>0, <3>1
    <3>3. After(line, "=") = SubSeq(line, 3 + 1, Len(line))
        BY <3>1, <3>2, CutAt
    <3>4. SubSeq(line, 3 + 1, Len(line)) = <<>>
        BY <3>1 DEF Text
    <3> QED
        BY <2>0, <3>3, <3>4
  <2> QED
      BY <1>4, <2>1, <2>2, <2>3
<1>6. ApplyWGLine(p, raw) = p \/
      \E f \in PeerFields : ApplyWGLine(p, raw) = [p EXCEPT ![f] = Trim(After(line, "="))]
    BY Zenon DEF ApplyWGLine
<1> HIDE DEF line
<1>7. <<>> \in Text
    BY DEF Text
<1>8. \E f \in PeerFields : ApplyWGLine(p, raw) \in {p, [p EXCEPT ![f] = <<>>]}
    BY <1>5, <1>6
<1> QED
    BY <1>2, <1>7, <1>8

\* Cut within a value without spaces, it sets the field to a part of it.
LEMMA CutWithinValue ==
    ASSUME NEW p \in [PeerFields -> Text], NEW key \in PeerFields, NEW w \in Text,
           \A i \in 1..Len(w) : w[i] # SP,
           NEW k \in 1..Len(w), NEW raw, raw = SubSeq(INI(key, w), 1, 4 + k)
    PROVE  raw \in Text /\ Sets(p, ApplyWGLine(p, raw), key, SubSeq(w, 1, k))
<1> DEFINE s == INI(key, w)
           v == SubSeq(w, 1, k)
           r == INI(key, v)
<1>0. key \in Tokens
    BY ConfWords DEF PeerFields
<1>1. /\ s \in Text /\ Len(s) = 4 + Len(w) /\ Len(w) \in Nat
      /\ s[1] = key /\ s[2] = SP /\ s[3] = "=" /\ s[4] = SP /\ Holds(s, 4, w)
    BY <1>0, INIPlaces
<1> HIDE DEF s
<1>2. v \in Text /\ Len(v) = k /\ \A i \in 1..k : v[i] = w[i]
  <2>1. k \in 0..Len(w) /\ v = SubSeq(w, 1, k)
      BY <1>1
  <2> HIDE DEF v
  <2>2. Begins(v, w, k)
      BY <2>1, PrefixPlaces
  <2> QED
      BY <2>2 DEF Begins
<1> HIDE DEF v
<1>3. /\ r \in Text /\ Len(r) = 4 + Len(v)
      /\ r[1] = key /\ r[2] = SP /\ r[3] = "=" /\ r[4] = SP /\ Holds(r, 4, v)
    BY <1>0, <1>2, INIPlaces
<1> HIDE DEF r
<1>4. raw \in Text /\ Len(raw) = 4 + k /\ \A i \in 1..(4 + k) : raw[i] = s[i]
  <2> DEFINE m == 4 + k
  <2>1. s \in Text /\ m \in 0..Len(s) /\ raw = SubSeq(s, 1, m)
      BY <1>1 DEF s
  <2> HIDE DEF m
  <2>2. Begins(raw, s, m)
      BY <2>1, PrefixPlaces
  <2>3. raw \in Text /\ Len(raw) = m /\ \A i \in 1..m : raw[i] = s[i]
      BY <2>2 DEF Begins
  <2> QED
      BY <2>3 DEF m
<1>5. \A i \in 1..(4 + k) : raw[i] = r[i]
  <2>1. ASSUME NEW i \in 1..(4 + k) PROVE s[i] = r[i]
    <3>1. CASE i \in 5..(4 + k)
      <4>1. i - 4 \in 1..k /\ i - 4 \in 1..Len(w) /\ 4 + (i - 4) = i
          BY <1>1, <3>1
      <4>2. s[4 + (i - 4)] = w[i - 4] /\ r[4 + (i - 4)] = v[i - 4]
          BY <1>1, <1>2, <1>3, <4>1 DEF Holds
      <4> QED
          BY <1>2, <4>1, <4>2
    <3>2. CASE i = 1 \/ i = 2 \/ i = 3 \/ i = 4
        BY <1>1, <1>3, <3>2
    <3> QED
        BY <3>1, <3>2
  <2> QED
      BY <1>4, <2>1
<1>6. raw = r
  <2>1. raw \in Text /\ r \in Text /\ Len(raw) = Len(r)
      BY <1>2, <1>3, <1>4
  <2>2. \A i \in 1..Len(raw) : raw[i] = r[i]
      BY <1>4, <1>5
  <2> QED
      BY <2>1, <2>2, SeqEqual DEF Text
<1>7. v # <<>> /\ v[1] # SP /\ v[Len(v)] # SP
  <2>1. Len(v) # 0 /\ v[1] = w[1] /\ v[Len(v)] = w[k]
      BY <1>1, <1>2
  <2>2. w[1] # SP /\ w[k] # SP
      BY <1>1
  <2>3. v # <<>>
    <3>1. Len(<<>>) = 0
        OBVIOUS
    <3> QED
        BY Zenon, <2>1, <3>1
  <2> QED
      BY <2>1, <2>2, <2>3
<1>8. Trim(v) = v
    BY <1>2, <1>7, TrimNothing
<1>9. Sets(p, ApplyWGLine(p, raw), key, Trim(v))
  <2>1. Plain(v)
      BY <1>2, <1>7 DEF Plain
  <2>2. raw = INI(key, v)
      BY <1>6 DEF r
  <2> QED
      BY <2>1, <2>2, FieldLine
<1> QED
    BY <1>4, <1>8, <1>9 DEF v

\* A file that ends with its n-th line, of which x is left.
EndingWith(L, n, x) == SubSeq(L, 1, n - 1) \o <<x>>
Ending(L, n, x, text) ==
    /\ text \in Seq(Text) /\ Len(text) = n
    /\ \A j \in 1..(n - 1) : text[j] = L[j]
    /\ text[n] = x

\* Its lines are those of the whole file, up to the last.
LEMMA CutPlaces ==
    ASSUME NEW L \in Seq(Text), NEW n \in 1..Len(L), NEW x \in Text,
           NEW text, text = EndingWith(L, n, x)
    PROVE  Ending(L, n, x, text)
<1> DEFINE a == SubSeq(L, 1, n - 1)
           b == <<x>>
<1>0. Len(L) \in Nat /\ n \in Nat /\ n - 1 \in 0..Len(L)
    OBVIOUS
<1>1. a \in Seq(Text) /\ Len(a) = n - 1 /\ \A j \in 1..(n - 1) : a[j] = L[j]
  <2>1. \A j \in 1..(n - 1) : L[j] \in Text
      BY <1>0
  <2>2. /\ a \in Seq(Text) /\ Len(a) = IF 1 <= n - 1 THEN (n - 1) - 1 + 1 ELSE 0
        /\ \A j \in 1..((n - 1) - 1 + 1) : a[j] = L[1 + j - 1]
      BY <1>0, <2>1, SubSeqProperties
  <2> HIDE DEF a
  <2>3. (n - 1) - 1 + 1 = n - 1 /\ \A j \in 1..(n - 1) : 1 + j - 1 = j
      BY <1>0
  <2> QED
      BY <1>0, <2>2, <2>3
<1>2. b \in Seq(Text) /\ Len(b) = 1 /\ b[1] = x
    OBVIOUS
<1> HIDE DEF a, b
<1>3. /\ text \in Seq(Text) /\ Len(text) = Len(a) + Len(b)
      /\ \A j \in 1..Len(a) : text[j] = a[j]
      /\ \A j \in 1..Len(b) : text[Len(a) + j] = b[j]
  <2>1. a \in Seq(Text) /\ b \in Seq(Text) /\ text = a \o b
      BY <1>1, <1>2 DEF a, b, EndingWith
  <2> QED
      BY <2>1, Joined
<1>4. Len(text) = n /\ Len(a) + 1 = n
    BY <1>0, <1>1, <1>2, <1>3
<1>5. text[n] = x
    BY <1>2, <1>3, <1>4
<1> QED
    BY <1>1, <1>3, <1>4, <1>5 DEF Ending

\* What a client_wg.conf with all that unlock asks for was read as.
ReadBack(c, p) ==
    /\ p["PrivateKey"] = <<"client key", "=">> /\ p["PublicKey"] = <<"server key", "=">>
    /\ p["Address"] = c[<<"wireguard", "client_ip">>]
    /\ p["Endpoint"] = Trim(Endpoint(c))
    /\ \E k \in 1..4 : p["AllowedIPs"] = SubSeq(AllowedIPs(c), 1, k)

\* AllowedIPs is four tokens without a space.
LEMMA AllowedWords ==
    ASSUME NEW c \in Configs, Valid(c)
    PROVE  /\ AllowedIPs(c) \in Text /\ Len(AllowedIPs(c)) = 4
           /\ \A i \in 1..4 : AllowedIPs(c)[i] # SP
           /\ SubSeq(AllowedIPs(c), 1, 4) = AllowedIPs(c)
<1> DEFINE ip == ServerTunnelIP(c)
           w == <<ip, "/", "3", "2">>
<1>1. ip \in Tokens /\ ip # SP
  <2>1. c[<<"wireguard", "server_ip">>] \in Text /\ IsCIDR(c[<<"wireguard", "server_ip">>])
      BY ConfFields DEF Valid
  <2> QED
      BY <2>1, CIDRIsText, NumeralsAndAddresses DEF ServerTunnelIP
<1> HIDE DEF ip
<1>2. w \in Text /\ Len(w) = 4 /\ w[1] = ip /\ w[2] = "/" /\ w[3] = "3" /\ w[4] = "2"
  <2>1. ip \in Tokens /\ "/" \in Tokens /\ "3" \in Tokens /\ "2" \in Tokens
      BY <1>1, ConfWords, Separators
  <2> QED
      BY <2>1 DEF Text
<1>3. AllowedIPs(c) = w
    BY DEF AllowedIPs, ip
<1> HIDE DEF w
<1>4. \A i \in 1..4 : w[i] # SP
  <2>1. "/" # SP /\ "3" # SP /\ "2" # SP
      BY DEF SP
  <2>2. \A i \in 1..4 : i = 1 \/ i = 2 \/ i = 3 \/ i = 4
      OBVIOUS
  <2> QED
      BY <1>1, <1>2, <2>1, <2>2
<1>5. SubSeq(w, 1, Len(w)) = w
    BY <1>2, SubSeqFull DEF Text
<1> QED
    BY <1>2, <1>3, <1>4, <1>5

\* Cut off at line n, it was read back, or AllowedIPs is missing.
LEMMA CutConfIsRead ==
    ASSUME NEW c \in Configs, Valid(c), NEW L, L = ClientConf(c), NEW n \in 1..9,
           NEW k \in 0..Len(L[n]), NEW text, Ending(L, n, SubSeq(L[n], 1, k), text)
    PROVE  /\ ParseWGConfig(text) \in [PeerFields -> Text]
           /\ ParseWGConfig(text)["AllowedIPs"] = <<>> \/ ReadBack(c, ParseWGConfig(text))
           /\ n = 9 => /\ ReadBack(c, ParseWGConfig(text))
                       /\ ParseWGConfig(text)["AllowedIPs"] = AllowedIPs(c)
<1> DEFINE a == "AllowedIPs"
<1> SUFFICES ASSUME text \in Seq(Text), Len(text) = n, \A j \in 1..(n - 1) : text[j] = L[j],
                    text[n] = SubSeq(L[n], 1, k)
             PROVE  /\ ParseWGConfig(text) \in [PeerFields -> Text]
                    /\ ParseWGConfig(text)["AllowedIPs"] = <<>> \/ ReadBack(c, ParseWGConfig(text))
                    /\ n = 9 => /\ ReadBack(c, ParseWGConfig(text))
                                /\ ParseWGConfig(text)["AllowedIPs"] = AllowedIPs(c)
    BY DEF Ending
<1>0. a \in PeerFields /\ n \in Nat /\ DOMAIN text = 1..n
    BY DEF PeerFields
<1>1. PICK R : /\ R[0] = NoPeer
               /\ \A i \in 1..n : R[i] = ApplyWGLine(R[i - 1], text[i])
               /\ ParseWGConfig(text) = R[n]
    BY <1>0, ConfReadInOrder
<1>2. R[0] \in [PeerFields -> Text] /\ R[0][a] = <<>>
  <2>1. <<>> \in Text
      BY DEF Text
  <2> QED
      BY <1>0, <1>1, <2>1 DEF NoPeer
<1>3. /\ L \in Seq(Text) /\ Len(L) = 9 /\ L[8] = INI(a, AllowedIPs(c))
    BY ConfLines
<1>4. /\ L[9] = <<>> \/ L[9][1] \notin PeerFields \cup {SP}
      /\ \A j \in 1..7 : L[j] = <<>> \/ (L[j][1] # SP /\ L[j][1] # a)
    BY ConfStarts
<1>5. L[n] \in Text
  <2>1. L \in Seq(Text) /\ n \in 1..Len(L)
      BY <1>3
  <2> QED
      BY <2>1, ElementOfSeq
<1>6. text[n] \in Text /\ (text[n] = <<>> \/ (L[n] # <<>> /\ text[n][1] = L[n][1]))
  <2> DEFINE u == text[n]
             s == L[n]
  <2>1. s \in Text /\ k \in 0..Len(s) /\ u = SubSeq(s, 1, k)
      BY <1>5
  <2> HIDE DEF u, s
  <2>2. Begins(u, s, k)
      BY <2>1, PrefixPlaces
  <2>3. u \in Text /\ Len(u) = k /\ (u = <<>> \/ u[1] = s[1])
      BY <2>2 DEF Begins
  <2>4. s = <<>> => u = <<>>
    <3>1. s = <<>> => k = 0
        BY <2>1
    <3> QED
        BY <2>3, <3>1 DEF Text
  <2> QED
      BY <2>3, <2>4 DEF u, s
<1> DEFINE w == AllowedIPs(c)
<1>7. w \in Text /\ Len(w) = 4 /\ (\A i \in 1..4 : w[i] # SP) /\ SubSeq(w, 1, 4) = w
    BY AllowedWords
<1>8. CASE n <= 7
  <2> DEFINE N == {j \in Nat : j <= n => R[j] \in [PeerFields -> Text] /\ R[j][a] = <<>>}
  <2>1. 0 \in N
      BY <1>2
  <2>2. ASSUME NEW j \in Nat, j \in N PROVE j + 1 \in N
    <3> SUFFICES ASSUME j + 1 <= n
                 PROVE  R[j + 1] \in [PeerFields -> Text] /\ R[j + 1][a] = <<>>
        OBVIOUS
    <3> DEFINE raw == text[j + 1]
    <3>1. R[j] \in [PeerFields -> Text] /\ R[j][a] = <<>>
        BY <1>0, <2>2
    <3>2. R[j + 1] = ApplyWGLine(R[j], raw)
      <4>1. j + 1 \in 1..n /\ (j + 1) - 1 = j
          BY <1>0
      <4> QED
          BY <1>1, <4>1
    <3>3. raw \in Text
      <4>1. j + 1 \in 1..Len(text)
          BY <1>0
      <4> QED
          BY <4>1, ElementOfSeq
    <3>4. raw = <<>> \/ (raw[1] # SP /\ raw[1] # a)
      <4>1. j + 1 \in 1..7
          BY <1>0, <1>8
      <4>2. CASE j + 1 = n
          BY <1>4, <1>6, <4>1, <4>2
      <4>3. CASE j + 1 # n
        <5>1. j + 1 \in 1..(n - 1)
            BY <1>0, <4>3
        <5> QED
            BY <1>4, <4>1, <5>1
      <4> QED
          BY <4>2, <4>3
    <3> HIDE DEF raw, a
    <3>5. ApplyWGLine(R[j], raw) \in [PeerFields -> Text]
        BY <3>1, <3>3, PeerStaysText
    <3>6. ApplyWGLine(R[j], raw)[a] = R[j][a]
      <4>1. DOMAIN R[j] = PeerFields
          BY <3>1
      <4> QED
          BY <1>0, <3>3, <3>4, <4>1, OtherFieldKept
    <3> QED
        BY <3>1, <3>2, <3>5, <3>6
  <2>3. Nat \subseteq N
    <3> HIDE DEF N
    <3> QED
        BY <2>1, <2>2, Induction
  <2>4. R[n] \in [PeerFields -> Text] /\ R[n][a] = <<>>
      BY <1>0, <2>3
  <2> QED
      BY <1>1, <1>8, <2>4
<1>9. ASSUME n >= 8
      PROVE  /\ R[7] \in [PeerFields -> Text]
             /\ R[7]["PrivateKey"] = <<"client key", "=">> /\ R[7]["PublicKey"] = <<"server key", "=">>
             /\ R[7]["Address"] = c[<<"wireguard", "client_ip">>]
             /\ R[7]["Endpoint"] = Trim(Endpoint(c))
             /\ R[7]["AllowedIPs"] = <<>>
             /\ R[8] = ApplyWGLine(R[7], text[8])
  <2>1. \A j \in 1..7 : j \in 1..n /\ j \in 1..(n - 1)
      BY <1>0, <1>9
  <2>2. \A j \in 1..7 : R[j] = ApplyWGLine(R[j - 1], ClientConf(c)[j])
      BY <1>1, <2>1
  <2>3. 8 \in 1..n /\ 8 - 1 = 7
      BY <1>0, <1>9
  <2> QED
      BY <1>1, <2>2, <2>3, SevenLines
<1>10. ASSUME NEW q, NEW v, n >= 8, Sets(R[7], q, a, v), NEW m \in 1..4, v = SubSeq(w, 1, m)
       PROVE  q \in [PeerFields -> Text] /\ ReadBack(c, q) /\ q[a] = v
  <2>1. /\ q["PrivateKey"] = R[7]["PrivateKey"] /\ q["PublicKey"] = R[7]["PublicKey"]
        /\ q["Address"] = R[7]["Address"] /\ q["Endpoint"] = R[7]["Endpoint"] /\ q[a] = v
        /\ q \in [PeerFields -> Text]
      BY <1>10 DEF Sets, PeerFields
  <2> QED
      BY <1>9, <1>10, <2>1 DEF ReadBack
<1>11. CASE n = 8
  <2>0. R[7] \in [PeerFields -> Text] /\ R[7][a] = <<>> /\ R[8] = ApplyWGLine(R[7], text[8])
    <3>1. n >= 8
        BY <1>11
    <3> QED
        BY <1>9, <3>1
  <2>1. text[8] = SubSeq(INI(a, w), 1, k)
      BY <1>3, <1>11
  <2>2. CASE k \in 0..4
    <3> DEFINE p == R[7]
               raw == text[8]
               q == ApplyWGLine(p, raw)
    <3>1. R[n] = q /\ p[a] = <<>>
        BY <1>11, <2>0
    <3>2. p \in [PeerFields -> Text] /\ w \in Text /\ raw = SubSeq(INI(a, w), 1, k)
        BY <1>7, <2>0, <2>1
    <3> HIDE DEF a, w, p, raw
    <3>3. q \in [PeerFields -> Text] /\ q[a] \in {p[a], <<>>}
        BY <1>0, <2>2, <3>2, CutBeforeValue
    <3>4. ParseWGConfig(text) \in [PeerFields -> Text] /\ ParseWGConfig(text)[a] = <<>>
        BY <1>1, <3>1, <3>3
    <3> QED
        BY <1>11, <3>4 DEF a
  <2>3. CASE k \notin 0..4
    <3> DEFINE m == k - 4
    <3>1. k \in 5..8
      <4>1. Len(L[8]) = 8
        <5>1. a \in Tokens
            BY ConfWords
        <5> DEFINE raw == INI(a, w)
        <5> HIDE DEF a, w
        <5>2. Len(raw) = 4 + Len(w)
          <6>1. raw = INI(a, w) /\ w \in Text
              BY <1>7
          <6> HIDE DEF raw
          <6> QED
              BY <5>1, <6>1, INIPlaces
        <5> QED
            BY <1>3, <1>7, <5>2 DEF w
      <4> QED
          BY <1>11, <2>3, <4>1
    <3>2. m \in 1..4 /\ m \in 1..Len(w) /\ k = 4 + m
        BY <1>7, <3>1
    <3> DEFINE p == R[7]
               raw == text[8]
               q == ApplyWGLine(p, raw)
    <3>3. raw = SubSeq(INI(a, w), 1, 4 + m) /\ p \in [PeerFields -> Text] /\ w \in Text
        BY <1>7, <2>0, <2>1, <3>2
    <3>4. \A i \in 1..Len(w) : w[i] # SP
        BY <1>7
    <3>5. R[n] = q
        BY <1>11, <2>0
    <3> HIDE DEF m, w, a, p, raw
    <3>6. Sets(p, q, a, SubSeq(w, 1, m))
        BY <1>0, <3>2, <3>3, <3>4, CutWithinValue
    <3> HIDE DEF q
    <3>7. q \in [PeerFields -> Text] /\ ReadBack(c, q)
      <4>1. Sets(R[7], q, a, SubSeq(w, 1, m)) /\ n >= 8
          BY <1>11, <3>6 DEF p
      <4> QED
          BY <1>10, <3>2, <4>1
    <3> QED
        BY <1>1, <1>11, <3>5, <3>7
  <2> QED
      BY <2>2, <2>3
<1>12. CASE n = 9
  <2>0. R[7] \in [PeerFields -> Text] /\ R[8] = ApplyWGLine(R[7], text[8])
    <3>1. n >= 8
        BY <1>12
    <3> QED
        BY <1>9, <3>1
  <2>1. text[8] = INI(a, w)
      BY <1>3, <1>12
  <2>2. Plain(w) /\ Trim(w) = w
      BY ConfValues
  <2>3. Sets(R[7], R[8], a, w)
    <3> DEFINE p == R[7]
               raw == text[8]
    <3>1. /\ p \in [PeerFields -> Text] /\ R[8] = ApplyWGLine(p, raw)
          /\ raw = INI(a, w) /\ w \in Text
        BY <1>7, <2>0, <2>1
    <3> HIDE DEF p, raw, a, w
    <3>2. Sets(p, ApplyWGLine(p, raw), a, Trim(w))
        BY <1>0, <2>2, <3>1, FieldLine
    <3> QED
        BY <2>2, <3>1, <3>2 DEF p
  <2>4. R[8] \in [PeerFields -> Text] /\ ReadBack(c, R[8]) /\ R[8][a] = w
    <3>1. w = SubSeq(w, 1, 4) /\ 4 \in 1..4
        BY <1>7
    <3> QED
        BY <1>10, <1>12, <2>3, <3>1
  <2>5. R[9] = ApplyWGLine(R[8], text[9])
    <3>1. 9 \in 1..n /\ 9 - 1 = 8
        BY <1>12
    <3> QED
        BY <1>1, <3>1
  <2>6. Keeps(R[8], R[9])
    <3>1. text[9] \in Text /\ (text[9] = <<>> \/ text[9][1] \notin PeerFields \cup {SP})
        BY <1>4, <1>6, <1>12
    <3> QED
        BY <2>4, <2>5, <3>1, OtherLine
  <2>7. R[9] \in [PeerFields -> Text] /\ ReadBack(c, R[9]) /\ R[9][a] = w
    <3>1. /\ R[9]["PrivateKey"] = R[8]["PrivateKey"] /\ R[9]["PublicKey"] = R[8]["PublicKey"]
          /\ R[9]["Address"] = R[8]["Address"] /\ R[9]["Endpoint"] = R[8]["Endpoint"]
          /\ R[9]["AllowedIPs"] = R[8]["AllowedIPs"] /\ R[9] \in [PeerFields -> Text]
        BY <2>6 DEF Keeps, PeerFields
    <3> QED
        BY <2>4, <3>1 DEF ReadBack
  <2> QED
      BY <1>1, <1>12, <2>7
<1> QED
  <2>1. n <= 7 \/ n = 8 \/ n = 9
      BY <1>0
  <2> QED
      BY <1>8, <1>11, <1>12, <2>1

-----------------------------------------------------------------------------
(* What unlock makes of it. *)

\* A text without a space at its end loses only what leads it.
LEMMA TrimKeepsEnd ==
    ASSUME NEW e \in Text, e # <<>>, e[Len(e)] # SP, NEW t, t = Trim(e)
    PROVE  /\ Len(t) \in 1..Len(e) /\ Len(e) \in Nat
           /\ \A i \in 1..Len(t) : t[i] = e[Len(e) - Len(t) + i]
<1> DEFINE black == {i \in DOMAIN e : e[i] # SP}
           a == Min(black)
           m == Len(e)
<1>1. m \in Nat /\ m # 0 /\ DOMAIN e = 1..m /\ m \in black /\ black \subseteq 1..m
      /\ black \subseteq Nat
    BY DEF Text
<1>2. a \in black /\ \A i \in black : a <= i
  <2> HIDE DEF black
  <2> QED
      BY <1>1, FirstPlace
<1>3. a \in 1..m /\ m \in a..m /\ e[a] # SP /\ e[m] # SP /\ \A i \in 1..m : i < a => e[i] = SP
  <2>1. a \in 1..m /\ e[a] # SP
      BY <1>1, <1>2
  <2>2. \A i \in 1..m : e[i] # SP => a <= i
      BY <1>1, <1>2
  <2> HIDE DEF a, m
  <2>3. \A i \in 1..m : i < a => ~ (a <= i)
      BY <1>1, <2>1
  <2> QED
      BY <1>1, <2>1, <2>2, <2>3 DEF m
<1> HIDE DEF a, black
<1>4. t = SubSeq(e, a, m)
  <2>1. \A i \in 1..Len(e) : i < a \/ i > m => e[i] = SP
      BY <1>1, <1>3
  <2> QED
      BY <1>3, <2>1, TrimIs
<1>5. \A i \in a..m : e[i] \in Tokens
    BY <1>1, <1>3 DEF Text
<1>6. /\ SubSeq(e, a, m) \in Text /\ Len(SubSeq(e, a, m)) = m - a + 1
      /\ \A i \in 1..(m - a + 1) : SubSeq(e, a, m)[i] = e[a + i - 1]
    BY <1>1, <1>3, <1>5, SubSeqProperties DEF Text
<1>7. Len(t) = m - a + 1 /\ \A i \in 1..(m - a + 1) : t[i] = e[a + i - 1]
    BY <1>4, <1>6
<1> HIDE DEF m
<1>8. \A i \in 1..(m - a + 1) : m - (m - a + 1) + i = a + i - 1
    BY <1>1, <1>3
<1>9. m - a + 1 \in 1..m
    BY <1>1, <1>3
<1> QED
    BY <1>1, <1>7, <1>8, <1>9 DEF m

\* The two forms of an address with a port.
LEMMA AddrPortForms ==
    ASSUME NEW s, ParseAddrPort(s) # NoAddr
    PROVE  \/ /\ Len(s) = 3 /\ s[1] \in DOMAIN NetOf \ IPv6 /\ s[2] = ":"
              /\ ParseAddrPort(s) = [ip |-> s[1], port |-> Atoi[s[3]]]
           \/ /\ Len(s) = 5 /\ s[2] \in IPv6
              /\ ParseAddrPort(s) = [ip |-> s[2], port |-> Atoi[s[5]]]
<1> DEFINE p == ParseAddrPort(s)
           A == Len(s) = 3 /\ s[1] \in DOMAIN NetOf \ IPv6 /\ s[2] = ":"
           F == Len(s) = 5 /\ s[1] = "[" /\ s[2] \in IPv6 /\ s[3] = "]" /\ s[4] = ":"
           x == [ip |-> s[1], port |-> Atoi[s[3]]]
           y == [ip |-> s[2], port |-> Atoi[s[5]]]
<1>1. p = CASE A -> x [] F -> y [] OTHER -> NoAddr
    BY Zenon DEF ParseAddrPort
<1>2. ~ (A /\ F)
    OBVIOUS
<1> HIDE DEF p, A, F, x, y
<1>3. (A /\ p = x) \/ (F /\ p = y) \/ p = NoAddr
    BY Zenon, <1>1, <1>2
<1> QED
    BY <1>3 DEF p, A, F, x, y

\* An IPv4 address and a port, as it is read.
LEMMA FourAddrPort ==
    ASSUME NEW s, Len(s) = 3, s[1] \in DOMAIN NetOf \ IPv6, s[2] = ":"
    PROVE  ParseAddrPort(s) = [ip |-> s[1], port |-> Atoi[s[3]]]
<1>1. Len(s) # 5
    OBVIOUS
<1> QED
    BY Zenon, <1>1 DEF ParseAddrPort

\* An IPv6 address in brackets and a port.
LEMMA SixAddrPort ==
    ASSUME NEW s, Len(s) = 5, s[1] = "[", s[2] \in IPv6, s[3] = "]", s[4] = ":"
    PROVE  ParseAddrPort(s) = [ip |-> s[2], port |-> Atoi[s[5]]]
<1>1. Len(s) # 3
    OBVIOUS
<1> QED
    BY Zenon, <1>1 DEF ParseAddrPort

\* An IPv6 address without brackets is refused.
LEMMA SixServer ==
    ASSUME NEW s, Len(s) = 3, s[1] \in IPv6
    PROVE  ParseAddrPort(s) = NoAddr
<1>1. Len(s) # 5 /\ s[1] \notin DOMAIN NetOf \ IPv6
    OBVIOUS
<1> QED
    BY AddrPortForms, <1>1

\* No address has the port 0.
LEMMA PortIsAddr ==
    ASSUME NEW a, NEW n \in Int, n # 0
    PROVE  [ip |-> a, port |-> n] # NoAddr
    BY DEF NoAddr

\* The endpoint that was read leads to the host and its port.
LEMMA EndpointIsHost ==
    ASSUME NEW c \in Configs, Valid(c), NEW t, t = Trim(Endpoint(c)), ParseAddrPort(t) # NoAddr
    PROVE  /\ ParseAddrPort(t).ip \in ToSet(c[<<"", "host">>])
           /\ ParseAddrPort(t).port = c[<<"wireguard", "port">>]
<1> DEFINE host == c[<<"", "host">>]
           port == c[<<"wireguard", "port">>]
           e == Endpoint(c)
           h == Len(host)
           m == Len(e)
<1>1. host \in Text /\ host # <<>> /\ port \in {Atoi[n] : n \in DOMAIN Atoi} /\ e = WGEndpoint(host, port)
    BY ConfFields DEF Valid, Endpoint
<1>2. e \in Text /\ e # <<>> /\ e[m] # SP /\ t = Trim(e)
    BY ConfValues DEF Plain
<1> HIDE DEF host, port, e
<1>3. /\ h \in Nat /\ m \in Nat /\ e[m] = Itoa(port)
      /\ \/ m = h + 4 /\ Holds(e, 1, host) /\ e[h + 2] = "]"
         \/ m = h + 2 /\ Holds(e, 0, host)
  <2>1. HostAndPort(e, host, port)
      BY <1>1, EndpointPlaces
  <2> QED
      BY <2>1 DEF HostAndPort
<1>4. Len(t) \in 1..m /\ \A i \in 1..Len(t) : t[i] = e[m - Len(t) + i]
    BY <1>2, TrimKeepsEnd
<1>5. h # 0 /\ \A i \in 1..h : host[i] \in ToSet(host)
    BY <1>1 DEF Text, ToSet
<1>6. Atoi[Itoa(port)] = port
    BY <1>1, ItoaIsRead
<1>7. "]" \notin DOMAIN NetOf
    BY NumeralsAndAddresses DEF Special
<1>8. \/ m = h + 4 /\ (\A i \in 1..h : e[1 + i] = host[i]) /\ e[h + 2] = "]"
      \/ m = h + 2 /\ \A i \in 1..h : e[i] = host[i]
  <2>1. Holds(e, 0, host) => \A i \in 1..h : e[i] = host[i]
      BY <1>3 DEF Holds
  <2>2. Holds(e, 1, host) => \A i \in 1..h : e[1 + i] = host[i]
      BY DEF Holds
  <2> QED
      BY <1>3, <2>1, <2>2
<1> HIDE DEF h, m
<1>9. CASE Len(t) = 3 /\ t[1] \in DOMAIN NetOf \ IPv6
           /\ ParseAddrPort(t) = [ip |-> t[1], port |-> Atoi[t[3]]]
  <2>1. m - 3 + 1 = m - 2 /\ m - 3 + 3 = m
      BY <1>3
  <2>2. t[1] = e[m - 2] /\ t[3] = e[m]
      BY <1>4, <1>9, <2>1
  <2>3. t[1] \in ToSet(host)
    <3>1. CASE m = h + 4 /\ e[h + 2] = "]"
      <4>1. m - 2 = h + 2
          BY <1>3, <3>1
      <4> QED
          BY <1>7, <1>9, <2>2, <3>1, <4>1
    <3>2. CASE m = h + 2 /\ \A i \in 1..h : e[i] = host[i]
      <4>1. m - 2 = h /\ h \in 1..h
          BY <1>3, <1>5, <3>2
      <4> QED
          BY <1>5, <2>2, <3>2, <4>1
    <3> QED
        BY <1>8, <3>1, <3>2
  <2>4. ParseAddrPort(t).ip = t[1] /\ ParseAddrPort(t).port = Atoi[t[3]]
    <3> DEFINE r == ParseAddrPort(t)
    <3>1. r = [ip |-> t[1], port |-> Atoi[t[3]]]
        BY <1>9
    <3> HIDE DEF r
    <3>2. r.ip = t[1] /\ r.port = Atoi[t[3]]
        BY ONLY <3>1
    <3> QED
        BY <3>2 DEF r
  <2>5. Atoi[t[3]] = port
      BY <1>3, <1>6, <2>2
  <2> QED
      BY <2>3, <2>4, <2>5 DEF host, port
<1>10. CASE Len(t) = 5 /\ t[2] \in IPv6
            /\ ParseAddrPort(t) = [ip |-> t[2], port |-> Atoi[t[5]]]
  <2>1. m - 5 + 2 = m - 3 /\ m - 5 + 5 = m /\ m >= 5
      BY <1>3, <1>4, <1>10
  <2>2. t[2] = e[m - 3] /\ t[5] = e[m]
      BY <1>4, <1>10, <2>1
  <2>3. t[2] \in ToSet(host)
    <3>1. CASE m = h + 4 /\ \A i \in 1..h : e[1 + i] = host[i]
      <4>1. m - 3 = 1 + h /\ h \in 1..h
          BY <1>3, <1>5, <3>1
      <4> QED
          BY <1>5, <2>2, <3>1, <4>1
    <3>2. CASE m = h + 2 /\ \A i \in 1..h : e[i] = host[i]
      <4>1. m - 3 = h - 1 /\ h - 1 \in 1..h
          BY <1>3, <2>1, <3>2
      <4> QED
          BY <1>5, <2>2, <3>2, <4>1
    <3> QED
        BY <1>8, <3>1, <3>2
  <2>4. ParseAddrPort(t).ip = t[2] /\ ParseAddrPort(t).port = Atoi[t[5]]
    <3> DEFINE r == ParseAddrPort(t)
    <3>1. r = [ip |-> t[2], port |-> Atoi[t[5]]]
        BY <1>10
    <3> HIDE DEF r
    <3>2. r.ip = t[2] /\ r.port = Atoi[t[5]]
        BY ONLY <3>1
    <3> QED
        BY <3>2 DEF r
  <2>5. Atoi[t[5]] = port
      BY <1>3, <1>6, <2>2
  <2> QED
      BY <2>3, <2>4, <2>5 DEF host, port
<1> QED
  <2> HIDE DEF NoAddr
  <2>1. \/ /\ Len(t) = 3 /\ t[1] \in DOMAIN NetOf \ IPv6
           /\ ParseAddrPort(t) = [ip |-> t[1], port |-> Atoi[t[3]]]
        \/ /\ Len(t) = 5 /\ t[2] \in IPv6
           /\ ParseAddrPort(t) = [ip |-> t[2], port |-> Atoi[t[5]]]
      BY AddrPortForms
  <2> QED
      BY <1>9, <1>10, <2>1

\* A host that is one address makes an endpoint with an address.
LEMMA OneAddress ==
    ASSUME NEW host \in Text, Len(host) = 1, host[1] \in DOMAIN NetOf,
           NEW port \in {Atoi[n] : n \in DOMAIN Atoi}, port # 0,
           NEW e \in Text, e # <<>>, e[Len(e)] # SP, e = WGEndpoint(host, port)
    PROVE  Trim(e) # <<>> /\ ParseAddrPort(Trim(e)) # NoAddr
<1> DEFINE a == host[1]
<1>1. host \in Text /\ Len(host) = 1 /\ a \in DOMAIN NetOf
    OBVIOUS
<1>2. Atoi[Itoa(port)] = port /\ port \in Int /\ port # 0
    BY ItoaIsRead
<1>3. e \in Text /\ e # <<>> /\ e[Len(e)] # SP
    OBVIOUS
<1>4. /\ Len(e) \in Nat /\ e[Len(e)] = Itoa(port) /\ e[Len(e) - 1] = ":"
      /\ \/ /\ ToSet(host) \cap IPv6 # {} /\ Len(e) = Len(host) + 4
            /\ e[1] = "[" /\ Holds(e, 1, host) /\ e[Len(host) + 2] = "]"
         \/ /\ ToSet(host) \cap IPv6 = {} /\ Len(e) = Len(host) + 2 /\ Holds(e, 0, host)
  <2>1. HostAndPort(e, host, port)
      BY EndpointPlaces
  <2> QED
      BY Zenon, <2>1 DEF HostAndPort
<1>5. ToSet(host) = {a}
  <2>1. DOMAIN host = 1..Len(host) /\ 1..1 = {1}
      BY <1>1 DEF Text
  <2>2. DOMAIN host = {1}
      BY <1>1, <2>1
  <2> QED
      BY <2>2 DEF ToSet
<1>6. 1 \in 1..Len(host) /\ 1 + 1 = 2 /\ 0 + 1 = 1
    OBVIOUS
<1>7. (Holds(e, 1, host) => e[2] = a) /\ (Holds(e, 0, host) => e[1] = a)
  <2>1. Holds(e, 1, host) => e[1 + 1] = host[1]
      BY ONLY <1>6 DEF Holds
  <2>2. Holds(e, 0, host) => e[0 + 1] = host[1]
      BY ONLY <1>6 DEF Holds
  <2> QED
      BY <1>6, <2>1, <2>2
<1>8. a # SP /\ "[" # SP
  <2>1. a # SP
      BY <1>1, NumeralsAndAddresses DEF Special
  <2> QED
      BY <2>1 DEF SP
<1> HIDE DEF a
<1>9. CASE a \in IPv6
  <2>1. /\ Len(e) = 5 /\ e[1] = "[" /\ e[2] = a /\ e[3] = "]" /\ e[4] = ":" /\ e[5] = Itoa(port)
    <3>1. ToSet(host) \cap IPv6 # {}
        BY <1>5, <1>9
    <3>2. Len(e) = Len(host) + 4 /\ e[1] = "[" /\ e[2] = a /\ e[Len(host) + 2] = "]"
        BY <1>4, <1>7, <3>1
    <3>3. Len(e) = 5 /\ Len(e) - 1 = 4 /\ Len(host) + 2 = 3
        BY <1>1, <3>2
    <3>4. e[5] = Itoa(port) /\ e[4] = ":" /\ e[3] = "]"
        BY <1>4, <3>2, <3>3
    <3> QED
        BY <3>2, <3>3, <3>4
  <2>2. Trim(e) = e
      BY <1>3, <1>8, <2>1, TrimNothing
  <2>3. ParseAddrPort(e) = [ip |-> e[2], port |-> Atoi[e[5]]]
      BY <1>9, <2>1, SixAddrPort
  <2>4. Atoi[e[5]] = port
      BY <1>2, <2>1
  <2>5. ParseAddrPort(e) # NoAddr
      BY <1>2, <2>3, <2>4, PortIsAddr
  <2> QED
      BY <1>3, <2>2, <2>5
<1>10. CASE a \notin IPv6
  <2>1. /\ Len(e) = 3 /\ e[1] = a /\ e[2] = ":" /\ e[3] = Itoa(port)
    <3>1. ToSet(host) \cap IPv6 = {}
        BY <1>5, <1>10
    <3>2. Len(e) = Len(host) + 2 /\ e[1] = a
        BY <1>4, <1>7, <3>1
    <3>3. Len(e) = 3 /\ Len(e) - 1 = 2
        BY <1>1, <3>2
    <3>4. e[3] = Itoa(port) /\ e[2] = ":"
        BY <1>4, <3>2, <3>3
    <3> QED
        BY <3>2, <3>3, <3>4
  <2>2. Trim(e) = e
      BY <1>3, <1>8, <2>1, TrimNothing
  <2>3. ParseAddrPort(e) = [ip |-> e[1], port |-> Atoi[e[3]]]
      BY <1>1, <1>10, <2>1, FourAddrPort
  <2>4. Atoi[e[3]] = port
      BY <1>2, <2>1
  <2>5. ParseAddrPort(e) # NoAddr
      BY <1>2, <2>3, <2>4, PortIsAddr
  <2> QED
      BY <1>3, <2>2, <2>5
<1> QED
    BY <1>9, <1>10

\* So does the endpoint of a valid configuration.
LEMMA AddressEndpoint ==
    ASSUME NEW c \in Configs, Valid(c),
           Len(c[<<"", "host">>]) = 1, c[<<"", "host">>][1] \in DOMAIN NetOf
    PROVE  Trim(Endpoint(c)) # <<>> /\ ParseAddrPort(Trim(Endpoint(c))) # NoAddr
<1> DEFINE host == c[<<"", "host">>]
           port == c[<<"wireguard", "port">>]
           e == Endpoint(c)
<1>1. /\ host \in Text /\ Len(host) = 1 /\ host[1] \in DOMAIN NetOf
      /\ port \in {Atoi[n] : n \in DOMAIN Atoi} /\ e = WGEndpoint(host, port)
    BY ConfFields DEF Endpoint
<1>2. e \in Text /\ e # <<>> /\ e[Len(e)] # SP
    BY ConfValues DEF Plain
<1>3. port # 0
  <2>1. ValidPort(port) /\ port \in Int
      BY ConfFields, ItoaIsRead DEF Valid
  <2> HIDE DEF port
  <2> QED
      BY ONLY <2>1 DEF ValidPort
<1> HIDE DEF host, port, e
<1> QED
    BY <1>1, <1>2, <1>3, OneAddress DEF e

\* Unlock has an address for Dropbear unless the tunnel is IPv6.
LEMMA ServerAddrIs ==
    ASSUME NEW c \in Configs, Valid(c)
    PROVE  /\ ServerTunnelIP(c) \in DOMAIN NetOf
           /\ c[<<"dropbear", "port">>] \in Int
           /\ ServerTunnelIP(c) \in IPv6 => ServerAddr(c) = NoAddr
           /\ ServerTunnelIP(c) \notin IPv6 =>
                /\ ServerAddr(c) = [ip |-> ServerTunnelIP(c), port |-> c[<<"dropbear", "port">>]]
                /\ ServerAddr(c) # NoAddr
<1> DEFINE ip == ServerTunnelIP(c)
           port == c[<<"dropbear", "port">>]
           s == <<ip, ":", Itoa(port)>>
<1>1. ip \in DOMAIN NetOf
  <2>1. c[<<"wireguard", "server_ip">>] \in Text /\ IsCIDR(c[<<"wireguard", "server_ip">>])
      BY ConfFields DEF Valid
  <2> QED
      BY <2>1, CIDRIsText DEF ServerTunnelIP
<1>2. port # 0 /\ Atoi[Itoa(port)] = port /\ port \in Int
  <2>1. ValidPort(port)
      BY DEF Valid
  <2>2. port \in Int /\ Atoi[Itoa(port)] = port
      BY ConfFields, ItoaIsRead
  <2> HIDE DEF port
  <2> QED
      BY <2>1, <2>2 DEF ValidPort
<1>3. ServerAddr(c) = ParseAddrPort(s)
    BY DEF ServerAddr
<1>4. Len(s) = 3 /\ s[1] = ip /\ s[2] = ":" /\ s[3] = Itoa(port)
    OBVIOUS
<1> HIDE DEF s, ip, port
<1>5. ip \in IPv6 => ServerAddr(c) = NoAddr
    BY <1>3, <1>4, SixServer
<1>6. ASSUME ip \notin IPv6
      PROVE  ServerAddr(c) = [ip |-> ip, port |-> port] /\ ServerAddr(c) # NoAddr
  <2>1. ParseAddrPort(s) = [ip |-> s[1], port |-> Atoi[s[3]]]
      BY <1>1, <1>4, <1>6, FourAddrPort
  <2>2. Atoi[s[3]] = port
      BY <1>2, <1>4
  <2>3. ServerAddr(c) = [ip |-> ip, port |-> port]
      BY <1>3, <1>4, <2>1, <2>2
  <2> QED
      BY <1>2, <2>3, PortIsAddr
<1> QED
    BY <1>1, <1>2, <1>5, <1>6 DEF ip, port

\* The whole file was read back.
ReadWhole(c, p) == ReadBack(c, p) /\ p["AllowedIPs"] = AllowedIPs(c)

\* AllowedIPs is a prefix the device takes.
LEMMA AllowedIsCIDR ==
    ASSUME NEW c \in Configs, Valid(c)
    PROVE  IsCIDR(AllowedIPs(c))
<1> DEFINE ip == ServerTunnelIP(c)
           w == <<ip, "/", "3", "2">>
<1>1. AllowedIPs(c) = w
    BY DEF AllowedIPs
<1>2. ip \in DOMAIN NetOf
    BY ServerAddrIs
<1> HIDE DEF ip
<1>3. Tail(w) = <<"/", "3", "2">> /\ w[1] = ip /\ w # <<>>
    OBVIOUS
<1> HIDE DEF w
<1> QED
    BY <1>1, <1>2, <1>3 DEF IsCIDR, Masks

\* However much of it was left, AllowedIPs names the address of the server.
LEMMA AllowedStarts ==
    ASSUME NEW c \in Configs, Valid(c), NEW k \in 1..4, NEW s, s = SubSeq(AllowedIPs(c), 1, k)
    PROVE  s[1] = ServerTunnelIP(c)
<1> DEFINE w == AllowedIPs(c)
<1>1. w \in Text /\ k \in 0..Len(w) /\ s = SubSeq(w, 1, k)
    BY AllowedWords
<1>2. w[1] = ServerTunnelIP(c)
    BY DEF AllowedIPs
<1> HIDE DEF w
<1>3. Begins(s, w, k)
    BY <1>1, PrefixPlaces
<1>4. Len(s) = k /\ \A i \in 1..k : s[i] = w[i]
    BY <1>3 DEF Begins
<1> QED
    BY <1>2, <1>4

\* A device whose host is one address takes what a whole file says.
LEMMA WholeIsAccepted ==
    ASSUME NEW c \in Configs, Valid(c), NEW p, ReadWhole(c, p),
           Len(c[<<"", "host">>]) = 1, c[<<"", "host">>][1] \in DOMAIN NetOf
    PROVE  (\A f \in PeerFields : p[f] # <<>>) /\ DeviceAccepts(p)
<1>1. /\ p["PrivateKey"] = <<"client key", "=">> /\ p["PublicKey"] = <<"server key", "=">>
      /\ p["Address"] = c[<<"wireguard", "client_ip">>]
      /\ p["Endpoint"] = Trim(Endpoint(c)) /\ p["AllowedIPs"] = AllowedIPs(c)
    BY DEF ReadWhole, ReadBack
<1>2. Trim(Endpoint(c)) # <<>> /\ ParseAddrPort(Trim(Endpoint(c))) # NoAddr
    BY AddressEndpoint
<1>3. IsCIDR(AllowedIPs(c)) /\ AllowedIPs(c) # <<>>
    BY AllowedIsCIDR DEF IsCIDR
<1>4. IsCIDR(c[<<"wireguard", "client_ip">>]) /\ c[<<"wireguard", "client_ip">>] # <<>>
    BY DEF Valid, IsCIDR
<1>5. /\ Len(<<"client key", "=">>) = 2 /\ Len(<<"server key", "=">>) = 2
      /\ <<"client key", "=">> # <<>> /\ <<"server key", "=">> # <<>>
    OBVIOUS
<1>6. \A f \in PeerFields : p[f] # <<>>
    BY <1>1, <1>2, <1>3, <1>4, <1>5 DEF PeerFields
<1>7. DeviceAccepts(p)
    BY <1>1, <1>2, <1>3, <1>4, <1>5 DEF DeviceAccepts
<1> QED
    BY <1>6, <1>7

-----------------------------------------------------------------------------
(* The invariants of a configuration's way. *)

\* What a write of client_wg.conf that was cut short may leave.
IsCut(c, text) ==
    \E n \in DOMAIN ClientConf(c) : \E k \in 0..Len(ClientConf(c)[n]) :
        text = EndingWith(ClientConf(c), n, SubSeq(ClientConf(c)[n], 1, k))

\* Written to its end or not, client_wg.conf is read back or misses AllowedIPs.
LEMMA ConfIsRead ==
    ASSUME NEW c \in Configs, Valid(c), NEW text, text = ClientConf(c) \/ IsCut(c, text)
    PROVE  /\ text \in Seq(Text) /\ ParseWGConfig(text) \in [PeerFields -> Text]
           /\ ParseWGConfig(text)["AllowedIPs"] = <<>> \/ ReadBack(c, ParseWGConfig(text))
           /\ text = ClientConf(c) => ReadWhole(c, ParseWGConfig(text))
<1> DEFINE L == ClientConf(c)
<1>1. L \in Seq(Text) /\ Len(L) = 9
    BY ConfLines
<1>2. L = ClientConf(c)
    OBVIOUS
<1> HIDE DEF L
<1>3. CASE text = L
  <2> DEFINE n == 9
             k == Len(L[n])
  <2>1. n \in 1..9 /\ n \in 1..Len(L)
      BY <1>1
  <2>2. text \in Seq(Text) /\ Len(text) = n /\ \A j \in 1..(n - 1) : text[j] = L[j]
      BY <1>1, <1>3
  <2>3. n = 9
      OBVIOUS
  <2> HIDE DEF n
  <2>4. L[n] \in Text
      BY <1>1, <2>1, ElementOfSeq
  <2>5. k \in 0..Len(L[n]) /\ text[n] = SubSeq(L[n], 1, k)
    <3> DEFINE s == L[n]
    <3>1. s \in Text /\ text[n] = s
        BY <1>3, <2>4
    <3> HIDE DEF s
    <3>2. Len(s) \in Nat /\ SubSeq(s, 1, Len(s)) = s
        BY <3>1, SubSeqFull DEF Text
    <3>3. Len(s) \in 0..Len(s)
        BY <3>2
    <3> QED
        BY <3>1, <3>2, <3>3 DEF s
  <2> HIDE DEF k
  <2>6. Ending(L, n, SubSeq(L[n], 1, k), text)
      BY <2>2, <2>5 DEF Ending
  <2>7. /\ ParseWGConfig(text) \in [PeerFields -> Text]
        /\ n = 9 => /\ ReadBack(c, ParseWGConfig(text))
                    /\ ParseWGConfig(text)["AllowedIPs"] = AllowedIPs(c)
      BY <1>2, <2>1, <2>5, <2>6, CutConfIsRead
  <2> QED
      BY <2>2, <2>3, <2>7 DEF ReadWhole
<1>4. CASE text # L
  <2>1. PICK n \in DOMAIN L : \E k \in 0..Len(L[n]) : text = EndingWith(L, n, SubSeq(L[n], 1, k))
      BY <1>2, <1>4 DEF IsCut
  <2>2. PICK k \in 0..Len(L[n]) : text = EndingWith(L, n, SubSeq(L[n], 1, k))
      BY <2>1
  <2> DEFINE x == SubSeq(L[n], 1, k)
  <2>3. n \in 1..9 /\ n \in 1..Len(L)
      BY <1>1
  <2>4. L[n] \in Text
      BY <1>1, <2>3, ElementOfSeq
  <2>5. x \in Text
    <3> DEFINE s == L[n]
    <3>1. s \in Text /\ k \in 0..Len(s) /\ x = SubSeq(s, 1, k)
        BY <2>4
    <3> HIDE DEF s, x
    <3>2. Begins(x, s, k)
        BY <3>1, PrefixPlaces
    <3> QED
        BY <3>2 DEF Begins
  <2>6. text = EndingWith(L, n, x) /\ x = SubSeq(L[n], 1, k)
      BY <2>2
  <2> HIDE DEF x
  <2>7. Ending(L, n, x, text)
    <3>1. L \in Seq(Text) /\ n \in 1..Len(L)
        BY <1>1, <2>3
    <3> QED
        BY <2>5, <2>6, <3>1, CutPlaces
  <2>8. Ending(L, n, SubSeq(L[n], 1, k), text)
      BY <2>6, <2>7
  <2>9. /\ ParseWGConfig(text) \in [PeerFields -> Text]
        /\ ParseWGConfig(text)["AllowedIPs"] = <<>> \/ ReadBack(c, ParseWGConfig(text))
      BY <1>2, <2>3, <2>8, CutConfIsRead
  <2>10. text \in Seq(Text)
      BY <2>7 DEF Ending
  <2> QED
      BY <1>2, <1>4, <2>9, <2>10
<1> QED
    BY <1>3, <1>4

\* What each stage may rely on: before client_wg.conf is written it is empty; it is
\* written whole or cut; a peer that was taken has the configured address and
\* endpoint; unlock goes to the server's tunnel address; and a refused peer from
\* a whole file lacks a field, or the device or the address refuses it.
CodecInv ==
    /\ TypeOK /\ cfg \in Configs
    /\ stage \in {"new", "loaded"} => conf = <<>>
    /\ stage \in {"written", "parsed", "up"} => Valid(cfg)
    /\ stage = "written" => conf = ClientConf(cfg) \/ IsCut(cfg, conf)
    /\ stage \in {"parsed", "up"} =>
         /\ ReadBack(cfg, peer)
         /\ conf = ClientConf(cfg) => ReadWhole(cfg, peer)
    /\ stage = "up" => DeviceAccepts(peer) /\ dial = ServerAddr(cfg) /\ dial # NoAddr
    /\ stage = "refused" /\ Valid(cfg) /\ conf = ClientConf(cfg) =>
         /\ ReadWhole(cfg, peer)
         /\ (\E f \in PeerFields : peer[f] = <<>>) \/ ~ DeviceAccepts(peer) \/ ServerAddr(cfg) = NoAddr

\* The invariant holds before anything is saved.
LEMMA CodecInit == Init => CodecInv
<1> SUFFICES ASSUME Init PROVE CodecInv
    OBVIOUS
<1>1. /\ cfg \in Configs /\ conf = <<>> /\ peer = NoPeer /\ dial = NoAddr /\ stage = "new"
    BY DEF Init
<1>2. DOMAIN cfg = Fields
    BY <1>1, CodecAssumption
<1>3. conf \in Seq(Text) /\ peer \in [PeerFields -> Text]
  <2>1. <<>> \in Text /\ <<>> \in Seq(Text)
      BY DEF Text
  <2> QED
      BY <1>1, <2>1 DEF NoPeer
<1>4. TypeOK
    BY <1>1, <1>2, <1>3 DEF TypeOK, Text
<1> QED
    BY <1>1, <1>4 DEF CodecInv

\* Every step preserves it: saving and loading by AnnotatedIsRead, reading
\* client_wg.conf by ConfIsRead.
LEMMA CodecStep == CodecInv /\ [Next]_vars => CodecInv'
<1> SUFFICES ASSUME CodecInv, [Next]_vars PROVE CodecInv'
    OBVIOUS
<1>0. /\ TypeOK /\ cfg \in Configs
      /\ DOMAIN cfg = Fields /\ conf \in Seq(Text) /\ peer \in [PeerFields -> Text]
      /\ dial \in [ip : DOMAIN NetOf, port : Int] \cup {NoAddr}
      /\ stage \in {"new", "loaded", "written", "parsed", "up", "refused"}
    BY DEF CodecInv, TypeOK, Text
<1>1. CASE SaveAndLoad
  <2>1. PICK text \in Annotated(Marshal(cfg)) :
          /\ stage = "new"
          /\ cfg' = Load(text).cfg
          /\ stage' = IF Load(text).ok THEN "loaded" ELSE "refused"
          /\ UNCHANGED <<conf, peer, dial>>
      BY <1>1 DEF SaveAndLoad
  <2>2. Load(text).cfg = cfg /\ Load(text).ok = TRUE
      BY <1>0, <2>1, AnnotatedIsRead
  <2>3. cfg' = cfg /\ stage' = "loaded" /\ conf' = conf /\ peer' = peer /\ dial' = dial
      BY <2>1, <2>2
  <2>4. conf = <<>>
      BY <2>1 DEF CodecInv
  <2>5. TypeOK'
      BY <1>0, <2>3 DEF TypeOK, Text
  <2> QED
      BY <1>0, <2>3, <2>4, <2>5 DEF CodecInv
<1>2. CASE WriteClientConf
  <2>1. stage = "loaded" /\ cfg' = cfg /\ peer' = peer /\ dial' = dial /\ conf = <<>>
      BY <1>2 DEF WriteClientConf, CodecInv
  <2>2. CASE Valid(cfg)
    <3>1. conf' = ClientConf(cfg) /\ stage' = "written"
        BY <1>2, <2>2 DEF WriteClientConf
    <3>2. conf' \in Seq(Text)
        BY <1>0, <2>2, <3>1, ConfLines
    <3>3. TypeOK'
        BY <1>0, <2>1, <3>1, <3>2 DEF TypeOK, Text
    <3> QED
        BY <1>0, <2>1, <2>2, <3>1, <3>3 DEF CodecInv
  <2>3. CASE ~ Valid(cfg)
    <3>1. conf' = conf /\ stage' = "refused"
        BY <1>2, <2>3 DEF WriteClientConf
    <3>2. TypeOK'
        BY <1>0, <2>1, <3>1 DEF TypeOK, Text
    <3> QED
        BY <1>0, <2>1, <2>3, <3>1, <3>2 DEF CodecInv
  <2> QED
      BY <2>2, <2>3
<1>3. CASE CutShort
  <2>1. /\ stage = "written" /\ conf = ClientConf(cfg)
        /\ cfg' = cfg /\ peer' = peer /\ dial' = dial /\ stage' = stage
        /\ \E n \in DOMAIN conf : \E k \in 0..Len(conf[n]) :
             conf' = EndingWith(conf, n, SubSeq(conf[n], 1, k))
      BY <1>3 DEF CutShort, EndingWith
  <2>2. Valid(cfg)
      BY <2>1 DEF CodecInv
  <2>3. IsCut(cfg, conf')
      BY <2>1 DEF IsCut
  <2>4. conf' \in Seq(Text)
      BY <1>0, <2>2, <2>3, ConfIsRead
  <2>5. TypeOK'
      BY <1>0, <2>1, <2>4 DEF TypeOK, Text
  <2>6. cfg' \in Configs /\ Valid(cfg') /\ stage' = "written" /\ IsCut(cfg', conf')
      BY <1>0, <2>1, <2>2, <2>3
  <2> QED
      BY <2>5, <2>6 DEF CodecInv
<1>4. CASE ParseClientConf
  <2>1. /\ stage = "written" /\ peer' = ParseWGConfig(conf)
        /\ stage' = IF \E f \in PeerFields : peer'[f] = <<>> THEN "refused" ELSE "parsed"
        /\ cfg' = cfg /\ conf' = conf /\ dial' = dial
      BY <1>4 DEF ParseClientConf
  <2>2. Valid(cfg) /\ (conf = ClientConf(cfg) \/ IsCut(cfg, conf))
      BY <2>1 DEF CodecInv
  <2>3. /\ peer' \in [PeerFields -> Text]
        /\ peer'["AllowedIPs"] = <<>> \/ ReadBack(cfg, peer')
        /\ conf = ClientConf(cfg) => ReadWhole(cfg, peer')
      BY <1>0, <2>1, <2>2, ConfIsRead
  <2>4. CASE \E f \in PeerFields : peer'[f] = <<>>
    <3>1. stage' = "refused"
        BY <2>1, <2>4
    <3>2. TypeOK'
        BY <1>0, <2>1, <2>3, <3>1 DEF TypeOK, Text
    <3> QED
        BY <1>0, <2>1, <2>3, <2>4, <3>1, <3>2 DEF CodecInv
  <2>5. CASE ~ \E f \in PeerFields : peer'[f] = <<>>
    <3>1. stage' = "parsed"
        BY <2>1, <2>5
    <3>2. TypeOK'
        BY <1>0, <2>1, <2>3, <3>1 DEF TypeOK, Text
    <3>3. ReadBack(cfg, peer')
        BY <2>3, <2>5 DEF PeerFields
    <3> QED
        BY <1>0, <2>1, <2>2, <2>3, <3>1, <3>2, <3>3 DEF CodecInv
  <2> QED
      BY <2>4, <2>5
<1>5. CASE SetupDevice
  <2>1. stage = "parsed" /\ cfg' = cfg /\ conf' = conf /\ peer' = peer
      BY <1>5 DEF SetupDevice
  <2>2. /\ Valid(cfg) /\ ReadBack(cfg, peer)
        /\ conf = ClientConf(cfg) => ReadWhole(cfg, peer)
      BY <2>1 DEF CodecInv
  <2>3. CASE DeviceAccepts(peer) /\ ServerAddr(cfg) # NoAddr
    <3>1. stage' = "up" /\ dial' = ServerAddr(cfg)
        BY <1>5, <2>3 DEF SetupDevice
    <3>2. dial' \in [ip : DOMAIN NetOf, port : Int]
        BY <1>0, <2>2, <2>3, <3>1, ServerAddrIs
    <3>3. TypeOK'
        BY <1>0, <2>1, <3>1, <3>2 DEF TypeOK, Text
    <3> QED
        BY <1>0, <2>1, <2>2, <2>3, <3>1, <3>3 DEF CodecInv
  <2>4. CASE ~ (DeviceAccepts(peer) /\ ServerAddr(cfg) # NoAddr)
    <3>1. stage' = "refused" /\ dial' = dial
        BY <1>5, <2>4 DEF SetupDevice
    <3>2. TypeOK'
        BY <1>0, <2>1, <3>1 DEF TypeOK, Text
    <3> QED
        BY <1>0, <2>1, <2>2, <2>4, <3>1, <3>2 DEF CodecInv
  <2> QED
      BY <2>3, <2>4
<1>6. CASE UNCHANGED vars
    BY <1>6 DEF vars, CodecInv, TypeOK
<1> QED
    BY <1>1, <1>2, <1>3, <1>4, <1>5, <1>6 DEF Next, Finished

\* It holds along every way.
LEMMA CodecInvariant == Spec => []CodecInv
    BY CodecInit, CodecStep, PTL DEF Spec

\* Whatever is saved, written, cut and read, both files hold text and unlock dials
\* an address with a port.
THEOREM CodecTypeOK == Spec => []TypeOK
<1>1. CodecInv => TypeOK
    BY DEF CodecInv
<1> QED
    BY <1>1, CodecInvariant, PTL

\* A tunnel that comes up leads to the configured server, carries the traffic to
\* Dropbear, and the server has a way back (config.go:127), wherever client_wg.conf
\* was cut.
THEOREM CodecTunnelLeadsToServer == Spec => []TunnelLeadsToServer
<1>1. CodecInv => TunnelLeadsToServer
  <2> SUFFICES ASSUME CodecInv, stage = "up" PROVE TunnelLeadsToServer
      BY DEF TunnelLeadsToServer
  <2> DEFINE ip == ServerTunnelIP(cfg)
             client == cfg[<<"wireguard", "client_ip">>]
             server == cfg[<<"wireguard", "server_ip">>]
             end == ParseAddrPort(peer["Endpoint"])
  <2>1. /\ cfg \in Configs /\ Valid(cfg) /\ ReadBack(cfg, peer) /\ DeviceAccepts(peer)
        /\ dial = ServerAddr(cfg) /\ dial # NoAddr
      BY DEF CodecInv
  <2>2. end.ip \in ToSet(cfg[<<"", "host">>]) /\ end.port = cfg[<<"wireguard", "port">>]
    <3>1. peer["Endpoint"] = Trim(Endpoint(cfg)) /\ end # NoAddr
        BY <2>1 DEF ReadBack, DeviceAccepts
    <3> QED
        BY <2>1, <3>1, EndpointIsHost
  <2>3. dial.ip = ip /\ dial.port = cfg[<<"dropbear", "port">>]
    <3>1. dial = [ip |-> ServerTunnelIP(cfg), port |-> cfg[<<"dropbear", "port">>]]
        BY <2>1, ServerAddrIs
    <3> QED
        BY <3>1
  <2>4. peer["AllowedIPs"][1] = ip
    <3>1. PICK k \in 1..4 : peer["AllowedIPs"] = SubSeq(AllowedIPs(cfg), 1, k)
        BY <2>1 DEF ReadBack
    <3> QED
        BY <2>1, <3>1, AllowedStarts
  <2>5. Covers(peer["AllowedIPs"], dial.ip)
      BY <2>3, <2>4 DEF Covers
  <2>6. peer["Address"] = client /\ Covers(server, client[1]) /\ server[1] # client[1]
      BY <2>1 DEF ReadBack, Valid
  <2>7. peer["Address"][1] # dial.ip
      BY <2>3, <2>6 DEF ServerTunnelIP
  <2> QED
      BY <2>2, <2>3, <2>5, <2>6, <2>7 DEF TunnelLeadsToServer
<1> QED
    BY <1>1, CodecInvariant, PTL

\* What Validate lets through with a host that is a plain IP address and an IPv4
\* tunnel is not refused by unlock (rootless.go:76, 108).
THEOREM CodecValidatedComesUp == Spec => []ValidatedComesUp
<1>1. CodecInv => ValidatedComesUp
  <2> SUFFICES ASSUME CodecInv, stage = "refused", Valid(cfg), conf = ClientConf(cfg),
                      Len(cfg[<<"", "host">>]) = 1, cfg[<<"", "host">>][1] \in DOMAIN NetOf
               PROVE  ServerTunnelIP(cfg) \in IPv6
      BY DEF ValidatedComesUp
  <2>1. /\ cfg \in Configs /\ ReadWhole(cfg, peer)
        /\ \/ \E f \in PeerFields : peer[f] = <<>>
           \/ ~ DeviceAccepts(peer)
           \/ ServerAddr(cfg) = NoAddr
      BY DEF CodecInv
  <2>2. (\A f \in PeerFields : peer[f] # <<>>) /\ DeviceAccepts(peer)
      BY <2>1, WholeIsAccepted
  <2>3. ServerAddr(cfg) = NoAddr
      BY <2>1, <2>2
  <2> QED
      BY <2>1, <2>3, ServerAddrIs
<1> QED
    BY <1>1, CodecInvariant, PTL
=============================================================================
