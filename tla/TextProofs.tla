----------------------------- MODULE TextProofs -----------------------------
(***************************************************************************)
(* Proofs about the operators of ProcessList and Quoting, which read and   *)
(* write text: what they compute for paths and argument lists of any       *)
(* length.  Each works character by character, and so does its proof, by   *)
(* induction along the text.  The induction is that a set of numbers has a *)
(* least member; a set of texts takes the place of the predicate.          *)
(***************************************************************************)
EXTENDS BoundaryProofs, SequencesExt, SequenceTheorems, WellFoundedInduction

(* A set of natural numbers that is not empty has a least member: the      *)
(* library's WFMin, which takes no operator.                               *)
LEMMA LeastNumber ==
  ASSUME NEW N, N \subseteq Nat, N # {}
  PROVE  \E m \in N : \A k \in N : m <= k
<1> DEFINE R == OpToRel(<, Nat)
<1>1. IsWellFoundedOn(R, Nat)
  BY NatLessThanWellFounded
<1>2. \A i, j \in Nat : <<i, j>> \in R <=> i < j
  BY DEF OpToRel
<1> HIDE DEF R
<1>3. PICK m \in N : \A k \in N : ~(<<k, m>> \in R)
  BY <1>1, WFMin
<1>4. ASSUME NEW k \in N PROVE m <= k
  <2>1. m \in Nat /\ k \in Nat /\ ~(k < m)
    BY <1>2, <1>3
  <2> QED
    BY <2>1
<1> QED
  BY <1>4

(* Induction with a set for the predicate: the least number outside it     *)
(* would have a predecessor inside.                                        *)
LEMMA Induct ==
  ASSUME NEW G, 0 \in G, \A n \in Nat : n \in G => n + 1 \in G
  PROVE  \A n \in Nat : n \in G
<1> SUFFICES ASSUME NEW n \in Nat, n \notin G PROVE FALSE
  OBVIOUS
<1> DEFINE N == {k \in Nat : k \notin G}
<1>1. PICK m \in N : \A k \in N : m <= k
  <2>1. N \subseteq Nat /\ N # {}
    OBVIOUS
  <2> HIDE DEF N
  <2> QED BY <2>1, LeastNumber
<1>2. m # 0 /\ m - 1 \in Nat
  OBVIOUS
<1>3. m - 1 \in G
  BY <1>1, <1>2
<1> QED
  BY <1>2, <1>3

(* The same along a sequence, one character at a time.                     *)
LEMMA SeqInduct ==
  ASSUME NEW S, NEW G, <<>> \in G,
         \A s \in Seq(S), c \in S : s \in G => Append(s, c) \in G
  PROVE  \A s \in Seq(S) : s \in G
<1> DEFINE N == {n \in Nat : \A s \in Seq(S) : Len(s) = n => s \in G}
<1>1. 0 \in N
  BY EmptySeq
<1>2. ASSUME NEW n \in Nat, n \in N PROVE n + 1 \in N
  <2> SUFFICES ASSUME NEW s \in Seq(S), Len(s) = n + 1 PROVE s \in G
    OBVIOUS
  <2>1. PICK t \in Seq(S), c \in S : s = Append(t, c)
    BY SequenceEmptyOrAppend
  <2>2. Len(t) = n
    BY <2>1
  <2> QED
    BY <1>2, <2>1, <2>2
<1> HIDE DEF N
<1>3. \A n \in Nat : n \in N
  BY <1>1, <1>2, Induct
<1> QED
  BY <1>3, LenProperties DEF N
-----------------------------------------------------------------------------
(* Flattening.                                                             *)

\* The function that FlattenSeq defines by recursion.
FlatFrom(g, ss, n) == g = [i \in 1..n |-> IF i = 1 THEN ss[i] ELSE g[i - 1] \o ss[i]]

(* An entry of such a function.                                            *)
LEMMA FlatAt ==
  ASSUME NEW g, NEW ss, NEW n, FlatFrom(g, ss, n), NEW i \in 1..n
  PROVE  g[i] = IF i = 1 THEN ss[i] ELSE g[i - 1] \o ss[i]
<1> DEFINE r(j) == IF j = 1 THEN ss[j] ELSE g[j - 1] \o ss[j]
<1>1. g = [j \in 1..n |-> r(j)]
  BY Zenon DEF FlatFrom
<1> HIDE DEF r
<1>2. g[i] = r(i)
  BY <1>1
<1> QED
  BY <1>2 DEF r

(* There is such a function for every length.                              *)
LEMMA FlattenExists ==
  ASSUME NEW ss, NEW n \in Nat
  PROVE  \E g : FlatFrom(g, ss, n)
<1> DEFINE G == {k \in Nat : \E g : FlatFrom(g, ss, k)}
<1>1. 0 \in G
  <2> DEFINE g == [i \in 1..0 |-> ss[i]]
  <2>1. FlatFrom(g, ss, 0)
    BY DEF FlatFrom
  <2> QED
    BY <2>1
<1>2. ASSUME NEW k \in Nat, k \in G PROVE k + 1 \in G
  <2>1. PICK g : FlatFrom(g, ss, k)
    BY <1>2
  <2> DEFINE e(i) == IF i = 1 THEN ss[i] ELSE g[i - 1] \o ss[i]
             h == [i \in 1..k+1 |-> e(i)]
  <2>2. \A i \in 1..k : h[i] = g[i]
    <3> TAKE i \in 1..k
    <3>1. h[i] = e(i)
      OBVIOUS
    <3> QED
      BY <2>1, <3>1, FlatAt
  <2>3. ASSUME NEW i \in 1..k+1 PROVE e(i) = IF i = 1 THEN ss[i] ELSE h[i - 1] \o ss[i]
    <3>1. i # 1 => i - 1 \in 1..k
      OBVIOUS
    <3> HIDE DEF h
    <3> QED
      BY <2>2, <3>1
  <2>4. h = [i \in 1..k+1 |-> IF i = 1 THEN ss[i] ELSE h[i - 1] \o ss[i]]
    <3> DEFINE r(i) == IF i = 1 THEN ss[i] ELSE h[i - 1] \o ss[i]
    <3>1. \A i \in 1..k+1 : e(i) = r(i)
      BY <2>3
    <3>2. h = [i \in 1..k+1 |-> e(i)]
      OBVIOUS
    <3> HIDE DEF e, h, r
    <3>3. h = [i \in 1..k+1 |-> r(i)]
      BY <3>1, <3>2
    <3> QED
      BY <3>3 DEF r
  <2> HIDE DEF h
  <2>5. FlatFrom(h, ss, k + 1)
    BY <2>4 DEF FlatFrom
  <2> QED
    BY <2>5
<1> HIDE DEF G
<1>3. n \in G
  BY <1>1, <1>2, Induct
<1> QED
  BY <1>3 DEF G

(* FlattenSeq returns the last entry of one.                               *)
LEMMA FlattenIs ==
  ASSUME NEW ss, Len(ss) \in Nat \ {0}
  PROVE  \E g : FlatFrom(g, ss, Len(ss)) /\ FlattenSeq(ss) = g[Len(ss)]
<1> DEFINE flatten == CHOOSE g : FlatFrom(g, ss, Len(ss))
<1>1. FlatFrom(flatten, ss, Len(ss))
  BY FlattenExists
<1>2. FlattenSeq(ss) = flatten[Len(ss)]
  BY Zenon DEF FlattenSeq, FlatFrom
<1> QED
  BY <1>1, <1>2

(* Flattening one more sequence appends it.                                *)
LEMMA FlattenAppend ==
  ASSUME NEW S, NEW ss \in Seq(Seq(S)), NEW t \in Seq(S)
  PROVE  FlattenSeq(Append(ss, t)) = FlattenSeq(ss) \o t
<1> DEFINE n == Len(ss)
           tt == Append(ss, t)
<1>1. /\ n \in Nat /\ Len(tt) = n + 1 /\ tt[n + 1] = t
      /\ \A i \in 1..n : tt[i] = ss[i]
  OBVIOUS
<1> HIDE DEF tt
<1>2. PICK h : FlatFrom(h, tt, n + 1) /\ FlattenSeq(tt) = h[n + 1]
  BY <1>1, FlattenIs
<1>3. CASE n = 0
  <2>1. FlattenSeq(tt) = t
    BY <1>1, <1>2, <1>3, FlatAt
  <2>2. ss = <<>> /\ FlattenSeq(ss) = <<>>
    BY <1>3 DEF FlattenSeq
  <2> QED
    BY <2>1, <2>2 DEF tt
<1>4. CASE n # 0
  <2>1. PICK g : FlatFrom(g, ss, n) /\ FlattenSeq(ss) = g[n]
    BY <1>1, <1>4, FlattenIs
  <2> DEFINE G == {i \in Nat : i \in 1..n => h[i] = g[i]}
  <2>2. 0 \in G
    OBVIOUS
  <2>3. ASSUME NEW i \in Nat, i \in G PROVE i + 1 \in G
    <3> SUFFICES ASSUME i + 1 \in 1..n PROVE h[i + 1] = g[i + 1]
      OBVIOUS
    <3>1. h[i + 1] = IF i + 1 = 1 THEN tt[i + 1] ELSE h[(i + 1) - 1] \o tt[i + 1]
      BY <1>1, <1>2, FlatAt
    <3>2. g[i + 1] = IF i + 1 = 1 THEN ss[i + 1] ELSE g[(i + 1) - 1] \o ss[i + 1]
      BY <1>1, <2>1, FlatAt
    <3>3. tt[i + 1] = ss[i + 1] /\ (i + 1) - 1 = i /\ (i + 1 # 1 => i \in 1..n)
      BY <1>1
    <3> QED
      BY <2>3, <3>1, <3>2, <3>3
  <2> HIDE DEF G
  <2>4. n \in G
    BY <1>1, <2>2, <2>3, Induct
  <2>5. h[n] = g[n]
    BY <1>1, <1>4, <2>4 DEF G
  <2>6. h[n + 1] = h[n] \o t
    <3>1. n + 1 \in 1..n + 1 /\ n + 1 # 1 /\ (n + 1) - 1 = n
      BY <1>1, <1>4
    <3>2. \A i \in 1..n + 1 : h[i] = IF i = 1 THEN tt[i] ELSE h[i - 1] \o tt[i]
      BY <1>2, FlatAt
    <3> HIDE DEF n
    <3>3. h[n + 1] = h[(n + 1) - 1] \o tt[n + 1]
      BY <3>1, <3>2
    <3> QED
      BY <1>1, <3>1, <3>3
  <2> QED
    BY <1>2, <2>1, <2>5, <2>6 DEF tt
<1> QED
  BY <1>3, <1>4

(* Flattening keeps the characters.                                        *)
LEMMA FlattenType ==
  ASSUME NEW S
  PROVE  FlattenSeq(<<>>) = <<>> /\ \A ss \in Seq(Seq(S)) : FlattenSeq(ss) \in Seq(S)
<1>1. FlattenSeq(<<>>) = <<>>
  BY DEF FlattenSeq
<1> DEFINE G == {ss \in Seq(Seq(S)) : FlattenSeq(ss) \in Seq(S)}
<1>2. <<>> \in G
  BY <1>1, EmptySeq
<1>3. ASSUME NEW ss \in Seq(Seq(S)), NEW t \in Seq(S), ss \in G PROVE Append(ss, t) \in G
  <2>1. FlattenSeq(ss) \in Seq(S)
    BY <1>3
  <2>2. FlattenSeq(Append(ss, t)) = FlattenSeq(ss) \o t
    BY FlattenAppend
  <2> QED
    BY <2>1, <2>2, AppendProperties, ConcatProperties
<1> HIDE DEF G
<1>4. \A ss \in Seq(Seq(S)) : ss \in G
  BY <1>2, <1>3, SeqInduct
<1> QED
  BY <1>1, <1>4 DEF G
-----------------------------------------------------------------------------
(* Replacing a character.                                                  *)

(* The four special characters are different.                              *)
LEMMA Characters ==
  /\ Q!Apostrophe # Q!Quote /\ Q!Apostrophe # Q!Backslash /\ Q!Apostrophe # Q!Blank
  /\ Q!Quote # Q!Backslash /\ Q!Quote # Q!Blank /\ Q!Backslash # Q!Blank
  BY DEF Q!Apostrophe, Q!Quote, Q!Backslash, Q!Blank

\* What str::replace puts for one character, and for each of a text.
Piece(d, c, by) == IF d = c THEN by ELSE <<d>>
Pieces(s, c, by) == [i \in DOMAIN s |-> Piece(s[i], c, by)]

(* str::replace goes character by character (shell_quote and               *)
(* applescript_escape are built from it).                                  *)
LEMMA ReplaceAppend ==
  ASSUME NEW S, NEW c \in S, NEW by \in Seq(S)
  PROVE  /\ Q!Replace(<<>>, c, by) = <<>>
         /\ \A s \in Seq(S) : Q!Replace(s, c, by) \in Seq(S)
         /\ \A s \in Seq(S), d \in S : Q!Replace(Append(s, d), c, by)
              = Q!Replace(s, c, by) \o Piece(d, c, by)
<1>1. \A s : Q!Replace(s, c, by) = FlattenSeq(Pieces(s, c, by))
  BY Zenon DEF Q!Replace, Q!FlattenSeq, FlattenSeq, Pieces, Piece
<1>2. Pieces(<<>>, c, by) = <<>>
  BY DEF Pieces
<1>3. ASSUME NEW s \in Seq(S) PROVE Pieces(s, c, by) \in Seq(Seq(S))
  <2>1. \A i \in 1..Len(s) : Piece(s[i], c, by) \in Seq(S)
    BY ElementOfSeq DEF Piece
  <2>2. Len(s) \in Nat /\ DOMAIN s = 1..Len(s)
    BY LenProperties
  <2>3. Pieces(s, c, by) \in [1..Len(s) -> Seq(S)]
    BY <2>1, <2>2 DEF Pieces
  <2> QED
    BY <2>2, <2>3, SeqDef
<1>4. ASSUME NEW s \in Seq(S), NEW d \in S
      PROVE  Pieces(Append(s, d), c, by)
               = Append(Pieces(s, c, by), Piece(d, c, by))
  <2> DEFINE x == Pieces(Append(s, d), c, by)
             p == Piece(d, c, by)
             y == Append(Pieces(s, c, by), p)
  <2>1. p \in Seq(S) /\ Append(s, d) \in Seq(S) /\ Pieces(s, c, by) \in Seq(Seq(S))
    BY <1>3 DEF Piece
  <2>2. x \in Seq(Seq(S)) /\ y \in Seq(Seq(S))
    <3>1. x \in Seq(Seq(S))
      BY <1>3, <2>1
    <3> HIDE DEF p, x
    <3> QED
      BY <2>1, <3>1
  <2>3. Len(x) = Len(s) + 1 /\ Len(y) = Len(s) + 1
    BY <2>1 DEF Pieces
  <2>4. ASSUME NEW i \in 1..Len(s) + 1 PROVE x[i] = y[i]
    BY <2>1 DEF Pieces
  <2> HIDE DEF x, y
  <2>5. x = y
    BY <2>2, <2>3, <2>4, SeqEqual
  <2> QED
    BY <2>5 DEF x, y
<1> QED
  <2>1. Q!Replace(<<>>, c, by) = <<>>
    BY <1>1, <1>2, FlattenType
  <2>2. ASSUME NEW s \in Seq(S) PROVE Q!Replace(s, c, by) \in Seq(S)
    BY <1>1, <1>3, FlattenType
  <2>3. ASSUME NEW s \in Seq(S), NEW d \in S
        PROVE  Q!Replace(Append(s, d), c, by)
                 = Q!Replace(s, c, by) \o Piece(d, c, by)
    <3> DEFINE p == Piece(d, c, by)
    <3>1. p \in Seq(S)
      BY DEF Piece
    <3> HIDE DEF p
    <3>2. FlattenSeq(Append(Pieces(s, c, by), p)) = FlattenSeq(Pieces(s, c, by)) \o p
      BY <1>3, <3>1, FlattenAppend
    <3>3. Pieces(Append(s, d), c, by) = Append(Pieces(s, c, by), p)
      BY <1>4 DEF p
    <3>4. Q!Replace(Append(s, d), c, by) = Q!Replace(s, c, by) \o p
      BY <1>1, <3>2, <3>3
    <3> QED
      BY <3>4 DEF p
  <2> QED
    BY <2>1, <2>2, <2>3
-----------------------------------------------------------------------------
(* The readers.                                                            *)

\* The states of a reader along a text.
ReadFrom(g, reader, text, n) ==
  g = [i \in 0..n |-> IF i = 0 THEN Q!Start[reader] ELSE Q!Step(reader, g[i - 1], text[i])]

(* A state of such a run.                                                  *)
LEMMA ReadAt ==
  ASSUME NEW g, NEW reader, NEW text, NEW n, ReadFrom(g, reader, text, n), NEW i \in 0..n
  PROVE  g[i] = IF i = 0 THEN Q!Start[reader] ELSE Q!Step(reader, g[i - 1], text[i])
<1> DEFINE r(j) == IF j = 0 THEN Q!Start[reader] ELSE Q!Step(reader, g[j - 1], text[j])
<1>1. g = [j \in 0..n |-> r(j)]
  BY Zenon DEF ReadFrom
<1> HIDE DEF r
<1>2. g[i] = r(i)
  BY <1>1
<1> QED
  BY <1>2 DEF r

(* Either reader has a run over every text.                                *)
LEMMA ReadExists ==
  ASSUME NEW reader, NEW text, NEW n \in Nat
  PROVE  \E g : ReadFrom(g, reader, text, n)
<1> DEFINE G == {k \in Nat : \E g : ReadFrom(g, reader, text, k)}
<1>1. 0 \in G
  <2> DEFINE g == [i \in 0..0 |-> Q!Start[reader]]
  <2>1. ReadFrom(g, reader, text, 0)
    BY DEF ReadFrom
  <2> QED
    BY <2>1
<1>2. ASSUME NEW k \in Nat, k \in G PROVE k + 1 \in G
  <2>1. PICK g : ReadFrom(g, reader, text, k)
    BY <1>2
  <2> DEFINE e(i) == IF i = 0 THEN Q!Start[reader] ELSE Q!Step(reader, g[i - 1], text[i])
             h == [i \in 0..k+1 |-> e(i)]
             r(i) == IF i = 0 THEN Q!Start[reader] ELSE Q!Step(reader, h[i - 1], text[i])
  <2>2. ASSUME NEW i \in 0..k PROVE h[i] = g[i]
    <3>1. h[i] = e(i)
      OBVIOUS
    <3> QED
      BY <2>1, <3>1, ReadAt
  <2>3. h = [i \in 0..k+1 |-> e(i)]
    OBVIOUS
  <2>4. ASSUME NEW i \in 0..k+1 PROVE e(i) = r(i)
    <3>1. i # 0 => i - 1 \in 0..k
      OBVIOUS
    <3> HIDE DEF h
    <3> QED
      BY <2>2, <3>1
  <2> HIDE DEF e, h, r
  <2>5. h = [i \in 0..k+1 |-> r(i)]
    BY <2>3, <2>4
  <2>6. ReadFrom(h, reader, text, k + 1)
    BY <2>5 DEF ReadFrom, r
  <2> QED
    BY <2>6
<1> HIDE DEF G
<1>3. n \in G
  BY <1>1, <1>2, Induct
<1> QED
  BY <1>3 DEF G

(* Read returns the last state of one.                                     *)
LEMMA ReadIs ==
  ASSUME NEW reader, NEW text, Len(text) \in Nat
  PROVE  \E g : ReadFrom(g, reader, text, Len(text)) /\ Q!Read(reader, text) = g[Len(text)]
<1> DEFINE read == CHOOSE g : ReadFrom(g, reader, text, Len(text))
<1>1. ReadFrom(read, reader, text, Len(text))
  BY ReadExists
<1>2. Q!Read(reader, text) = read[Len(text)]
  BY Zenon DEF Q!Read, ReadFrom
<1> QED
  BY <1>1, <1>2

(* Reading one more character is one more step.                            *)
LEMMA ReadAppend ==
  ASSUME NEW S, NEW reader, NEW text \in Seq(S), NEW c \in S
  PROVE  Q!Read(reader, Append(text, c)) = Q!Step(reader, Q!Read(reader, text), c)
<1> DEFINE n == Len(text)
           longer == Append(text, c)
<1>1. /\ n \in Nat /\ Len(longer) = n + 1 /\ longer[n + 1] = c
      /\ \A i \in 1..n : longer[i] = text[i]
  OBVIOUS
<1>2. PICK g : ReadFrom(g, reader, text, n) /\ Q!Read(reader, text) = g[n]
  BY <1>1, ReadIs
<1> HIDE DEF n, longer
<1>3. PICK h : ReadFrom(h, reader, longer, n + 1) /\ Q!Read(reader, longer) = h[n + 1]
  BY <1>1, ReadIs
<1>4. \A i \in 0..n : g[i] = IF i = 0 THEN Q!Start[reader] ELSE Q!Step(reader, g[i - 1], text[i])
  BY <1>2, ReadAt
<1>5. \A i \in 0..n + 1 :
        h[i] = IF i = 0 THEN Q!Start[reader] ELSE Q!Step(reader, h[i - 1], longer[i])
  BY <1>3, ReadAt
<1> DEFINE G == {i \in Nat : i \in 0..n => h[i] = g[i]}
<1>6. 0 \in G
  BY <1>1, <1>4, <1>5
<1>7. ASSUME NEW i \in Nat, i \in G PROVE i + 1 \in G
  <2> SUFFICES ASSUME i + 1 \in 0..n PROVE h[i + 1] = g[i + 1]
    OBVIOUS
  <2>1. /\ i + 1 \in 0..n + 1 /\ i + 1 \in 1..n /\ i + 1 # 0 /\ (i + 1) - 1 = i
        /\ longer[i + 1] = text[i + 1] /\ h[i] = g[i]
    BY <1>1, <1>7
  <2>2. h[i + 1] = Q!Step(reader, h[i], longer[i + 1])
    BY <1>5, <2>1
  <2>3. g[i + 1] = Q!Step(reader, g[i], text[i + 1])
    BY <1>4, <2>1
  <2> QED
    BY <2>1, <2>2, <2>3
<1> HIDE DEF G
<1>8. n \in G
  BY <1>1, <1>6, <1>7, Induct
<1>9. h[n] = g[n]
  BY <1>1, <1>8 DEF G
<1>10. h[n + 1] = Q!Step(reader, h[n], c)
  <2>1. n + 1 \in 0..n + 1 /\ n + 1 # 0 /\ (n + 1) - 1 = n
    BY <1>1
  <2> QED
    BY <1>1, <1>5, <2>1
<1> QED
  BY <1>2, <1>3, <1>9, <1>10 DEF longer

(* Before the first character a reader is at its start.                    *)
LEMMA ReadEmpty == ASSUME NEW reader PROVE Q!Read(reader, <<>>) = Q!Start[reader]
<1>1. PICK g : ReadFrom(g, reader, <<>>, 0) /\ Q!Read(reader, <<>>) = g[0]
  BY ReadIs
<1> QED
  BY <1>1, ReadAt
-----------------------------------------------------------------------------
(* AppleScript.                                                            *)

(* Concatenating a character appends it.                                   *)
LEMMA ConcatOne ==
  ASSUME NEW S, NEW s \in Seq(S), NEW c \in S
  PROVE  s \o <<c>> = Append(s, c) /\ Append(s, c) \in Seq(S)
  BY AppendIsConcat, AppendProperties

(* The same for two characters.                                            *)
LEMMA ConcatTwo ==
  ASSUME NEW S, NEW s \in Seq(S), NEW a \in S, NEW b \in S
  PROVE  s \o <<a, b>> = Append(Append(s, a), b)
<1> DEFINE x == s \o <<a, b>>
           y == Append(Append(s, a), b)
<1>1. x \in Seq(S) /\ y \in Seq(S) /\ Len(x) = Len(s) + 2 /\ Len(y) = Len(s) + 2
  OBVIOUS
<1>2. \A i \in 1..Len(s) + 2 : x[i] = y[i]
  OBVIOUS
<1> HIDE DEF x, y
<1>3. x = y
  BY <1>1, <1>2, SeqEqual
<1> QED
  BY <1>3 DEF x, y

\* One character, escaped for AppleScript.
Escaped(c) == IF c \in {Q!Backslash, Q!Quote} THEN <<Q!Backslash, c>> ELSE <<c>>

(* The two replacements of applescript_escape in a row escape each         *)
(* character once: the backslashes that the second one adds are not        *)
(* doubled by the first.                                                   *)
LEMMA EscapeAppend ==
  ASSUME NEW S, Q!Special \subseteq S
  PROVE  /\ Q!applescript_escape(<<>>) = <<>>
         /\ \A s \in Seq(S) : Q!applescript_escape(s) \in Seq(S)
         /\ \A s \in Seq(S), c \in S :
              Q!applescript_escape(Append(s, c)) = Q!applescript_escape(s) \o Escaped(c)
<1> DEFINE q == Q!Quote
           b == Q!Backslash
           bb == <<b, b>>
           bq == <<b, q>>
           R(s) == Q!Replace(s, b, bb)
           E(s) == Q!Replace(s, q, bq)
<1>1. q \in S /\ b \in S /\ q # b /\ bb \in Seq(S) /\ bq \in Seq(S)
  BY Characters DEF Q!Special
<1>2. \A s : Q!applescript_escape(s) = E(R(s))
  BY DEF Q!applescript_escape
<1> HIDE DEF q, b, bb, bq
<1>3. /\ R(<<>>) = <<>> /\ \A s \in Seq(S) : R(s) \in Seq(S)
      /\ \A s \in Seq(S), d \in S : R(Append(s, d)) = R(s) \o Piece(d, b, bb)
  BY <1>1, ReplaceAppend
<1>4. /\ E(<<>>) = <<>> /\ \A s \in Seq(S) : E(s) \in Seq(S)
      /\ \A s \in Seq(S), d \in S : E(Append(s, d)) = E(s) \o Piece(d, q, bq)
  BY <1>1, ReplaceAppend
<1> HIDE DEF R, E
<1>5. ASSUME NEW s \in Seq(S), NEW c \in S
      PROVE  E(R(Append(s, c))) = E(R(s)) \o Escaped(c)
  <2>1. R(s) \in Seq(S) /\ E(R(s)) \in Seq(S)
    BY <1>3, <1>4
  <2>2. CASE c = b
    <3> DEFINE u == Append(R(s), b)
    <3>1. R(Append(s, c)) = Append(u, b) /\ u \in Seq(S)
      <4>1. R(Append(s, c)) = R(s) \o bb
        BY <1>3, <2>2 DEF Piece
      <4> QED
        BY <1>1, <2>1, <4>1, ConcatTwo, ConcatOne DEF bb
    <3>2. E(u) = Append(E(R(s)), b)
      BY <1>1, <1>4, <2>1, ConcatOne DEF Piece
    <3> HIDE DEF u
    <3>3. E(u) \in Seq(S) /\ E(Append(u, b)) = E(u) \o <<b>>
      BY <1>1, <1>4, <3>1 DEF Piece
    <3>4. E(Append(u, b)) = Append(Append(E(R(s)), b), b)
      BY <1>1, <3>2, <3>3, ConcatOne
    <3>5. E(R(s)) \o <<b, b>> = Append(Append(E(R(s)), b), b)
      BY <1>1, <2>1, ConcatTwo
    <3>6. Escaped(c) = <<b, b>>
      BY <2>2 DEF Escaped, b
    <3> QED
      BY <3>1, <3>4, <3>5, <3>6
  <2>3. CASE c # b
    <3>1. R(Append(s, c)) = Append(R(s), c)
      BY <1>3, <2>1, <2>3, ConcatOne DEF Piece
    <3>2. Escaped(c) = IF c = q THEN bq ELSE <<c>>
      BY <2>3 DEF Escaped, b, q, bq
    <3> QED
      BY <1>4, <2>1, <3>1, <3>2 DEF Piece
  <2> QED
    BY <2>2, <2>3
<1> QED
  BY <1>2, <1>3, <1>4, <1>5

(* AppleScript, inside the literal, has read what was escaped.             *)
LEMMA LiteralReads ==
  ASSUME NEW S, Q!Special \subseteq S, NEW cmd \in Seq(S)
  PROVE  Q!Read("literal", <<Q!Quote>> \o Q!applescript_escape(cmd))
           = [at |-> "in", value |-> cmd]
<1> DEFINE q == Q!Quote
           b == Q!Backslash
           E(s) == Q!applescript_escape(s)
           In(s) == [at |-> "in", value |-> s]
           G == {s \in Seq(S) : Q!Read("literal", <<q>> \o E(s)) = In(s)}
<1>1. q \in S /\ b \in S /\ q # b
  BY Characters DEF Q!Special
<1>2. /\ E(<<>>) = <<>> /\ \A s \in Seq(S) : E(s) \in Seq(S)
      /\ \A s \in Seq(S), c \in S : E(Append(s, c)) = E(s) \o Escaped(c)
  BY EscapeAppend
<1> HIDE DEF E
<1>3. <<>> \in G
  <2>1. <<q>> \o E(<<>>) = Append(<<>>, q)
    <3>1. <<q>> \in Seq(S) /\ <<q>> = Append(<<>>, q)
      BY <1>1
    <3> QED
      BY <1>2, <3>1, ConcatEmptySeq
  <2>2. Q!Read("literal", Append(<<>>, q)) = Q!Step("literal", Q!Start["literal"], q)
    <3> DEFINE e == <<>>
    <3>1. e \in Seq(S)
      BY EmptySeq
    <3>2. Q!Read("literal", e) = Q!Start["literal"]
      BY ReadEmpty
    <3> HIDE DEF e
    <3>3. Q!Read("literal", Append(e, q)) = Q!Step("literal", Q!Start["literal"], q)
      BY <1>1, <3>1, <3>2, ReadAppend
    <3> QED
      BY <3>3 DEF e
  <2>3. Q!Step("literal", Q!Start["literal"], q) = In(<<>>)
    BY DEF Q!Step, Q!Start, Q!LiteralStep
  <2> QED
    BY <2>1, <2>2, <2>3, EmptySeq
<1>4. ASSUME NEW s \in Seq(S), NEW c \in S, s \in G PROVE Append(s, c) \in G
  <2> DEFINE text == <<q>> \o E(s)
  <2>1. text \in Seq(S) /\ Q!Read("literal", text) = In(s)
    BY <1>1, <1>2, <1>4
  <2>2. <<q>> \o E(Append(s, c)) = text \o Escaped(c)
    <3>1. <<q>> \in Seq(S) /\ E(s) \in Seq(S) /\ Escaped(c) \in Seq(S)
      BY <1>1, <1>2 DEF Escaped, b
    <3>2. (<<q>> \o E(s)) \o Escaped(c) = <<q>> \o (E(s) \o Escaped(c))
      BY <3>1, ConcatAssociative
    <3> QED
      BY <1>2, <3>2
  <2> HIDE DEF text
  <2>3. CASE c \in {b, q}
    <3>1. text \o Escaped(c) = Append(Append(text, b), c) /\ Append(text, b) \in Seq(S)
      BY <1>1, <2>1, <2>3, ConcatTwo, ConcatOne DEF Escaped
    <3>2. Q!Read("literal", Append(text, b)) = Q!Step("literal", In(s), b)
      BY <1>1, <2>1, ReadAppend
    <3>3. Q!Step("literal", In(s), b) = [at |-> "escape", value |-> s]
      BY Characters DEF Q!Step, Q!LiteralStep
    <3>4. Q!Read("literal", Append(Append(text, b), c))
            = Q!Step("literal", [at |-> "escape", value |-> s], c)
      <4>1. Q!Read("literal", Append(text, b)) = [at |-> "escape", value |-> s]
        BY <3>2, <3>3
      <4> DEFINE u == Append(text, b)
      <4>2. u \in Seq(S)
        BY <3>1
      <4> HIDE DEF u
      <4>3. Q!Read("literal", Append(u, c)) = Q!Step("literal", Q!Read("literal", u), c)
        BY <4>2, ReadAppend
      <4> QED
        BY <4>1, <4>3 DEF u
    <3>5. Q!Step("literal", [at |-> "escape", value |-> s], c) = In(Append(s, c))
      BY DEF Q!Step, Q!LiteralStep
    <3> QED
      BY <2>2, <3>1, <3>4, <3>5, ConcatOne
  <2>4. CASE c \notin {b, q}
    <3>1. text \o Escaped(c) = Append(text, c)
      BY <2>1, <2>4, ConcatOne DEF Escaped
    <3>2. Q!Read("literal", Append(text, c)) = Q!Step("literal", In(s), c)
      BY <2>1, ReadAppend
    <3>3. Q!Step("literal", In(s), c) = In(Append(s, c))
      BY <2>4 DEF Q!Step, Q!LiteralStep
    <3> QED
      BY <2>2, <3>1, <3>2, <3>3, ConcatOne
  <2> QED
    BY <2>3, <2>4
<1> HIDE DEF G
<1>5. cmd \in G
  BY <1>3, <1>4, SeqInduct
<1> QED
  BY <1>5 DEF G, E

(* What run_osascript_admin quotes, AppleScript reads as it was, whatever  *)
(* the characters.                                                         *)
LEMMA LiteralIntact ==
  ASSUME NEW S, Q!Special \subseteq S, NEW cmd \in Seq(S)
  PROVE  Q!AppleScriptLiteral(Q!run_osascript_admin(cmd)) = cmd
<1> DEFINE text == <<Q!Quote>> \o Q!applescript_escape(cmd)
<1>1. text \in Seq(S) /\ Q!Quote \in S
  BY EscapeAppend DEF Q!Special
<1>2. Q!run_osascript_admin(cmd) = Append(text, Q!Quote)
  BY <1>1, ConcatOne DEF Q!run_osascript_admin
<1>3. Q!Read("literal", text) = [at |-> "in", value |-> cmd]
  BY LiteralReads
<1> HIDE DEF text
<1>4. Q!Read("literal", Append(text, Q!Quote))
        = Q!Step("literal", [at |-> "in", value |-> cmd], Q!Quote)
  BY <1>1, <1>3, ReadAppend
<1>5. Q!Step("literal", [at |-> "in", value |-> cmd], Q!Quote) = [at |-> "end", value |-> cmd]
  BY Characters DEF Q!Step, Q!LiteralStep
<1> QED
  BY <1>2, <1>4, <1>5 DEF Q!AppleScriptLiteral
-----------------------------------------------------------------------------
(* The shell.                                                              *)

(* Concatenating three characters appends them,                            *)
LEMMA ConcatThree ==
  ASSUME NEW S, NEW s \in Seq(S), NEW a \in S, NEW b \in S, NEW c \in S
  PROVE  s \o <<a, b, c>> = Append(Append(Append(s, a), b), c)
<1> DEFINE x == s \o <<a, b, c>>
           y == Append(Append(Append(s, a), b), c)
<1>1. x \in Seq(S) /\ y \in Seq(S) /\ Len(x) = Len(s) + 3 /\ Len(y) = Len(s) + 3
  OBVIOUS
<1>2. \A i \in 1..Len(s) + 3 : x[i] = y[i]
  OBVIOUS
<1> HIDE DEF x, y
<1>3. x = y
  BY <1>1, <1>2, SeqEqual
<1> QED
  BY <1>3 DEF x, y

(* so do four,                                                             *)
LEMMA ConcatFour ==
  ASSUME NEW S, NEW s \in Seq(S), NEW a \in S, NEW b \in S, NEW c \in S, NEW d \in S
  PROVE  s \o <<a, b, c, d>> = Append(Append(Append(Append(s, a), b), c), d)
<1> DEFINE x == s \o <<a, b, c, d>>
           y == Append(Append(Append(Append(s, a), b), c), d)
<1>1. x \in Seq(S) /\ y \in Seq(S) /\ Len(x) = Len(s) + 4 /\ Len(y) = Len(s) + 4
  OBVIOUS
<1>2. \A i \in 1..Len(s) + 4 : x[i] = y[i]
  OBVIOUS
<1> HIDE DEF x, y
<1>3. x = y
  BY <1>1, <1>2, SeqEqual
<1> QED
  BY <1>3 DEF x, y

(* or the last of four alone.                                              *)
LEMMA ConcatLast ==
  ASSUME NEW S, NEW s \in Seq(S), NEW a \in S, NEW b \in S, NEW c \in S, NEW d \in S
  PROVE  s \o <<a, b, c, d>> = Append(s \o <<a, b, c>>, d)
  BY ConcatThree, ConcatFour

\* The order in which three texts are put together makes no difference.
Regrouped(S, s, t, u) == (s \o t) \o u = s \o (t \o u)

(* So it is for texts over any alphabet.                                   *)
LEMMA Regroup ==
  \A S, s, t, u : s \in Seq(S) /\ t \in Seq(S) /\ u \in Seq(S) => Regrouped(S, s, t, u)
<1> SUFFICES ASSUME NEW S, NEW s \in Seq(S), NEW t \in Seq(S), NEW u \in Seq(S)
             PROVE  Regrouped(S, s, t, u)
  OBVIOUS
<1> QED
  BY ConcatAssociative DEF Regrouped

\* A state of the shell, and that a text leads to it.
Sh(at, words, word, inWord) == [at |-> at, words |-> words, word |-> word, inWord |-> inWord]

ShellAt(S, text, st) == text \in Seq(S) /\ Q!Read("shell", text) = st

(* The shell goes on by one character.                                     *)
LEMMA ShellOn ==
  ASSUME NEW S, NEW text, NEW st, ShellAt(S, text, st), NEW c \in S
  PROVE  ShellAt(S, Append(text, c), Q!Step("shell", st, c))
  BY ReadAppend, ConcatOne DEF ShellAt

(* The moves of the shell that the quoting of this program makes.          *)
LEMMA ShellMoves ==
  ASSUME NEW S, Q!Special \subseteq S, NEW text, NEW ws, NEW w, NEW i, NEW c \in S
  PROVE  /\ ShellAt(S, text, Sh("out", ws, w, i))
              => /\ ShellAt(S, Append(text, Q!Apostrophe), Sh("single", ws, w, TRUE))
                 /\ ShellAt(S, Append(text, Q!Backslash), Sh("escape", ws, w, i))
         /\ ShellAt(S, text, Sh("out", ws, w, TRUE))
              => ShellAt(S, Append(text, Q!Blank), Sh("out", Append(ws, w), <<>>, FALSE))
         /\ ShellAt(S, text, Sh("out", ws, w, i)) /\ c \notin Q!Special
              => ShellAt(S, Append(text, c), Sh("out", ws, Append(w, c), TRUE))
         /\ ShellAt(S, text, Sh("escape", ws, w, i))
              => ShellAt(S, Append(text, c), Sh("out", ws, Append(w, c), TRUE))
         /\ ShellAt(S, text, Sh("single", ws, w, i))
              => ShellAt(S, Append(text, Q!Apostrophe), Sh("out", ws, w, i))
         /\ ShellAt(S, text, Sh("single", ws, w, i)) /\ c # Q!Apostrophe
              => ShellAt(S, Append(text, c), Sh("single", ws, Append(w, c), TRUE))
<1>1. Q!Special \subseteq S /\ Q!Apostrophe \in S /\ Q!Backslash \in S /\ Q!Blank \in S
  BY DEF Q!Special
<1>2. \A st, d : ShellAt(S, text, st) /\ d \in S
                   => ShellAt(S, Append(text, d), Q!Step("shell", st, d))
  BY ShellOn
<1>3. Q!Step("shell", Sh("out", ws, w, i), Q!Apostrophe) = Sh("single", ws, w, TRUE)
  BY Characters DEF Q!Step, Q!ShellStep, Sh
<1>4. Q!Step("shell", Sh("out", ws, w, i), Q!Backslash) = Sh("escape", ws, w, i)
  BY Characters DEF Q!Step, Q!ShellStep, Sh
<1>5. Q!Step("shell", Sh("escape", ws, w, i), c) = Sh("out", ws, Append(w, c), TRUE)
  BY DEF Q!Step, Q!ShellStep, Q!PutInWord, Sh
<1>6. Q!Step("shell", Sh("single", ws, w, i), Q!Apostrophe) = Sh("out", ws, w, i)
  BY DEF Q!Step, Q!ShellStep, Sh
<1>7. c # Q!Apostrophe
        => Q!Step("shell", Sh("single", ws, w, i), c) = Sh("single", ws, Append(w, c), TRUE)
  BY DEF Q!Step, Q!ShellStep, Q!PutInWord, Sh
<1>8. Q!Step("shell", Sh("out", ws, w, TRUE), Q!Blank) = Sh("out", Append(ws, w), <<>>, FALSE)
  BY Characters DEF Q!Step, Q!ShellStep, Sh
<1>9. c \notin Q!Special
        => Q!Step("shell", Sh("out", ws, w, i), c) = Sh("out", ws, Append(w, c), TRUE)
  BY DEF Q!Step, Q!ShellStep, Q!PutInWord, Q!Special, Sh
<1> QED
  BY <1>1, <1>2, <1>3, <1>4, <1>5, <1>6, <1>7, <1>8, <1>9

(* Inside single quotes the shell gets the text as it is, its apostrophes  *)
(* through the sequence that shell_quote puts for them.                    *)
LEMMA ShellInside ==
  ASSUME NEW S, Q!Special \subseteq S, NEW text, NEW ws, NEW word \in Seq(S), NEW s \in Seq(S),
         ShellAt(S, text, Sh("single", ws, word, TRUE))
  PROVE  ShellAt(S, text \o Q!Replace(s, Q!Apostrophe, <<Q!Apostrophe, Q!Backslash, Q!Apostrophe,
                                                         Q!Apostrophe>>),
                 Sh("single", ws, word \o s, TRUE))
<1> DEFINE a == Q!Apostrophe
           b == Q!Backslash
           by == <<a, b, a, a>>
           R(r) == Q!Replace(r, a, by)
           G == {r \in Seq(S) : ShellAt(S, text \o R(r), Sh("single", ws, word \o r, TRUE))}
<1>1. a \in S /\ b \in S /\ by \in Seq(S) /\ text \in Seq(S)
  BY DEF Q!Special, ShellAt
<1> HIDE DEF a, b, by
<1>2. /\ R(<<>>) = <<>> /\ \A r \in Seq(S) : R(r) \in Seq(S)
      /\ \A r \in Seq(S), c \in S : R(Append(r, c)) = R(r) \o Piece(c, a, by)
  BY <1>1, ReplaceAppend
<1> HIDE DEF R
<1>3. <<>> \in G
  <2>1. text \o <<>> = text /\ word \o <<>> = word
    BY <1>1, ConcatEmptySeq
  <2> QED
    BY <1>2, <2>1, EmptySeq
<1>4. ASSUME NEW r \in Seq(S), NEW c \in S, r \in G PROVE Append(r, c) \in G
  <2> DEFINE t == text \o R(r)
             w == word \o r
  <2>1. t \in Seq(S) /\ w \in Seq(S) /\ ShellAt(S, t, Sh("single", ws, w, TRUE))
    <3>1. R(r) \in Seq(S)
      BY <1>2
    <3>2. t \in Seq(S) /\ w \in Seq(S)
      BY <1>1, <3>1, ConcatProperties
    <3> QED
      BY <1>4, <3>2
  <2>2. text \o R(Append(r, c)) = t \o Piece(c, a, by)
    <3>1. R(r) \in Seq(S) /\ Piece(c, a, by) \in Seq(S)
      BY <1>1, <1>2 DEF Piece
    <3> DEFINE p == Piece(c, a, by)
               m == R(r)
    <3> HIDE DEF G, p, m
    <3>2. (text \o m) \o p = text \o (m \o p)
      <4>1. m \in Seq(S) /\ p \in Seq(S) /\ text \in Seq(S)
        BY <1>1, <3>1 DEF m, p
      <4>2. Regrouped(S, text, m, p)
        BY <4>1, Regroup, Zenon
      <4> QED
        BY <4>2, Zenon DEF Regrouped
    <3> QED
      BY <1>2, <3>2 DEF m, p
  <2>3. word \o Append(r, c) = Append(w, c)
    <3>1. (word \o r) \o <<c>> = word \o (r \o <<c>>)
      BY ConcatAssociative, ConcatOne
    <3> QED
      BY <2>1, <3>1, ConcatOne
  <2> HIDE DEF t, w
  <2>4. CASE c = a
    <3> DEFINE t1 == Append(t, a)
               t2 == Append(t1, b)
               t3 == Append(t2, a)
    <3>1. t \o Piece(c, a, by) = Append(t3, a)
      <4>1. t \in Seq(S) /\ a \in S /\ b \in S
        BY <1>1, <2>1
      <4>2. t \o <<a, b, a, a>> = Append(t3, a)
        BY <4>1, ConcatFour
      <4>3. Piece(c, a, by) = <<a, b, a, a>>
        BY <2>4 DEF Piece, by
      <4> QED
        BY <4>2, <4>3
    <3> HIDE DEF t1, t2, t3
    <3>2. ShellAt(S, t1, Sh("out", ws, w, TRUE))
      BY <2>1, ShellMoves DEF a, t1
    <3>3. ShellAt(S, t2, Sh("escape", ws, w, TRUE))
      BY <1>1, <3>2, ShellMoves DEF b, t2
    <3>4. ShellAt(S, t3, Sh("out", ws, Append(w, a), TRUE))
      BY <1>1, <3>3, ShellMoves DEF t3
    <3>5. ShellAt(S, Append(t3, a), Sh("single", ws, Append(w, a), TRUE))
      BY <1>1, <3>4, ShellMoves DEF a
    <3> QED
      BY <2>2, <2>3, <2>4, <3>1, <3>5, ConcatOne
  <2>5. CASE c # a
    <3>1. t \o Piece(c, a, by) = Append(t, c)
      BY <2>1, <2>5, ConcatOne DEF Piece
    <3>2. ShellAt(S, Append(t, c), Sh("single", ws, Append(w, c), TRUE))
      BY <2>1, <2>5, ShellMoves DEF a
    <3> QED
      BY <2>2, <2>3, <3>1, <3>2, ConcatOne
  <2> QED
    BY <2>4, <2>5
<1> HIDE DEF G
<1>5. s \in G
  BY <1>3, <1>4, SeqInduct
<1> QED
  BY <1>5 DEF G, R, by, a, b

(* What shell_quote returns adds exactly the text to the word.             *)
LEMMA ShellQuoted ==
  ASSUME NEW S, Q!Special \subseteq S, NEW text, NEW ws, NEW i, NEW s \in Seq(S),
         ShellAt(S, text, Sh("out", ws, <<>>, i))
  PROVE  /\ ShellAt(S, text \o Q!shell_quote(s), Sh("out", ws, s, TRUE))
         /\ Q!shell_quote(s) \in Seq(S)
<1> DEFINE a == Q!Apostrophe
           by == <<a, Q!Backslash, a, a>>
           m == Q!Replace(s, a, by)
           t == Append(text, a)
<1>1. a \in S /\ by \in Seq(S) /\ text \in Seq(S) /\ <<a>> \in Seq(S)
  BY DEF Q!Special, ShellAt
<1>2. ShellAt(S, t, Sh("single", ws, <<>>, TRUE))
  BY <1>1, ShellMoves
<1>3. Q!shell_quote(s) = (<<a>> \o m) \o <<a>>
  BY DEF Q!shell_quote
<1>4. ShellAt(S, t \o m, Sh("single", ws, s, TRUE))
  <2>1. <<>> \in Seq(S) /\ <<>> \o s = s
    BY EmptySeq, ConcatEmptySeq
  <2> HIDE DEF t
  <2> QED
    BY <1>2, <2>1, ShellInside
<1> HIDE DEF by
<1>5. m \in Seq(S)
  BY <1>1, ReplaceAppend
<1> HIDE DEF a, m
<1>6. t = text \o <<a>>
  BY <1>1, ConcatOne
<1>7. (<<a>> \o m) \in Seq(S) /\ (<<a>> \o m) \o <<a>> \in Seq(S)
  BY <1>1, <1>5, ConcatProperties
<1>8. text \o ((<<a>> \o m) \o <<a>>) = (text \o (<<a>> \o m)) \o <<a>>
  BY <1>1, <1>7, ConcatAssociative
<1>9. text \o (<<a>> \o m) = t \o m
  <2>1. (text \o <<a>>) \o m = text \o (<<a>> \o m)
    <3>1. Regrouped(S, text, <<a>>, m)
      BY <1>1, <1>5, Regroup, Zenon
    <3> QED
      BY <3>1, Zenon DEF Regrouped
  <2> QED
    BY <1>6, <2>1
<1> HIDE DEF t
<1>10. (t \o m) \o <<a>> = Append(t \o m, a)
  BY <1>1, <1>4, ConcatOne DEF ShellAt
<1> DEFINE tm == t \o m
<1> HIDE DEF tm
<1>11. ShellAt(S, Append(tm, a), Sh("out", ws, s, TRUE))
  BY <1>1, <1>4, ShellMoves DEF a, tm
<1> QED
  BY <1>3, <1>7, <1>8, <1>9, <1>10, <1>11 DEF tm

(* A flag between blanks ends a word and is one.                           *)
LEMMA ShellFlag ==
  ASSUME NEW S, Q!Special \subseteq S, NEW text, NEW ws, NEW w, NEW flag \in S \ Q!Special,
         ShellAt(S, text, Sh("out", ws, w, TRUE))
  PROVE  ShellAt(S, text \o <<Q!Blank, flag, Q!Blank>>,
                 Sh("out", Append(Append(ws, w), <<flag>>), <<>>, FALSE))
<1> DEFINE t1 == Append(text, Q!Blank)
           t2 == Append(t1, flag)
<1>1. text \in Seq(S) /\ Q!Blank \in S
  BY DEF ShellAt, Q!Special
<1>2. text \o <<Q!Blank, flag, Q!Blank>> = Append(t2, Q!Blank)
  BY <1>1, ConcatThree
<1> HIDE DEF t1, t2
<1>3. ShellAt(S, t1, Sh("out", Append(ws, w), <<>>, FALSE))
  BY <1>1, ShellMoves DEF t1
<1>4. ShellAt(S, t2, Sh("out", Append(ws, w), Append(<<>>, flag), TRUE))
  BY <1>3, ShellMoves DEF t2
<1>5. Append(<<>>, flag) = <<flag>>
  OBVIOUS
<1>6. ShellAt(S, t2, Sh("out", Append(ws, w), <<flag>>, TRUE))
  BY <1>4, <1>5
<1>7. ShellAt(S, Append(t2, Q!Blank), Sh("out", Append(Append(ws, w), <<flag>>), <<>>, FALSE))
  BY <1>1, <1>6, ShellMoves
<1> QED
  BY <1>2, <1>7

(* Seven words in a row.                                                   *)
LEMMA SevenWords ==
  ASSUME NEW a, NEW b, NEW c, NEW d, NEW e, NEW f, NEW g
  PROVE  Append(Append(Append(Append(Append(Append(Append(<<>>, a), b), c), d), e), f), g)
           = <<a, b, c, d, e, f, g>>
<1> DEFINE S == {a, b, c, d, e, f, g}
           s == <<a, b, c, d>>
           t == <<e, f, g>>
           y == <<a, b, c, d, e, f, g>>
<1>0. a \in S /\ b \in S /\ c \in S /\ d \in S /\ e \in S /\ f \in S /\ g \in S
  OBVIOUS
<1> HIDE DEF S
<1>1. s \in Seq(S) /\ t \in Seq(S) /\ y \in Seq(S) /\ Len(s) = 4 /\ Len(t) = 3 /\ Len(y) = 7
  BY <1>0
<1>2. Append(Append(Append(Append(<<>>, a), b), c), d) = s
  <2>1. <<>> \in Seq(S) /\ <<>> \o s = s
    BY <1>1, EmptySeq, ConcatEmptySeq
  <2>2. <<>> \o s = Append(Append(Append(Append(<<>>, a), b), c), d)
    <3> DEFINE z == <<>>
    <3>1. z \in Seq(S)
      BY <2>1
    <3> HIDE DEF z
    <3>2. z \o <<a, b, c, d>> = Append(Append(Append(Append(z, a), b), c), d)
      BY <1>0, <3>1, ConcatFour
    <3> QED
      BY <3>2, Zenon DEF z
  <2> QED
    BY <2>1, <2>2
<1>3. s \o t = Append(Append(Append(s, e), f), g)
  BY <1>0, <1>1, ConcatThree
<1>4. ASSUME NEW i \in 1..4 PROVE s[i] = y[i]
  OBVIOUS
<1>5. ASSUME NEW i \in 5..7 PROVE t[i - 4] = y[i]
  <2>1. i = 5 \/ i = 6 \/ i = 7
    OBVIOUS
  <2> QED
    BY <2>1
<1> HIDE DEF s, t, y
<1>6. s \o t = y
  <2>1. /\ s \o t \in Seq(S) /\ Len(s \o t) = Len(s) + Len(t)
        /\ \A i \in 1..Len(s) + Len(t) :
             (s \o t)[i] = IF i <= Len(s) THEN s[i] ELSE t[i - Len(s)]
    BY <1>1, ConcatProperties, Zenon
  <2>2. Len(s \o t) = 7 /\ \A i \in 1..7 : (s \o t)[i] = IF i <= 4 THEN s[i] ELSE t[i - 4]
    BY <1>1, <2>1
  <2>3. ASSUME NEW i \in 1..7 PROVE (s \o t)[i] = y[i]
    <3>1. CASE i \in 1..4
      <4>1. i <= 4 /\ s[i] = y[i]
        BY <1>4, <3>1
      <4> QED
        BY <2>2, <4>1
    <3>2. CASE i \in 5..7
      <4>1. ~(i <= 4) /\ t[i - 4] = y[i]
        BY <1>5, <3>2
      <4> QED
        BY <2>2, <4>1
    <3>3. i \in 1..4 \/ i \in 5..7
      OBVIOUS
    <3> QED
      BY <3>1, <3>2, <3>3
  <2> QED
    BY <1>1, <2>1, <2>2, <2>3, SeqEqual
<1> QED
  BY <1>2, <1>3, <1>6, Zenon DEF y

\* The words of the install command that are not paths, the command, and what
\* the shell has to make of it.
Flags == {"--supervisor-bin", "--core-bin", "--owner-uid"}

Command(script, sup, core, uid) ==
  Q!shell_quote(script) \o <<Q!Blank, "--supervisor-bin", Q!Blank>>
  \o Q!shell_quote(sup) \o <<Q!Blank, "--core-bin", Q!Blank>>
  \o Q!shell_quote(core) \o <<Q!Blank, "--owner-uid", Q!Blank, uid>>
Words(script, sup, core, uid) ==
  << script, <<"--supervisor-bin">>, sup, <<"--core-bin">>, core, <<"--owner-uid">>, <<uid>> >>

(* The shell splits the install command into the script and its six        *)
(* arguments.                                                              *)
LEMMA InstallWords ==
  ASSUME NEW S, Q!Special \subseteq S, Flags \subseteq S \ Q!Special,
         NEW script \in Seq(S), NEW sup \in Seq(S), NEW core \in Seq(S), NEW uid \in S \ Q!Special
  PROVE  /\ Command(script, sup, core, uid) \in Seq(S)
         /\ Q!ShellWords(Command(script, sup, core, uid)) = Words(script, sup, core, uid)
<1> DEFINE f1 == "--supervisor-bin"
           f2 == "--core-bin"
           f3 == "--owner-uid"
           blank == Q!Blank
           t1 == Q!shell_quote(script)
           t2 == t1 \o <<blank, f1, blank>>
           t3 == t2 \o Q!shell_quote(sup)
           t4 == t3 \o <<blank, f2, blank>>
           t5 == t4 \o Q!shell_quote(core)
           t6 == t5 \o <<blank, f3, blank>>
           t7 == t5 \o <<blank, f3, blank, uid>>
           w2 == Append(Append(<<>>, script), <<f1>>)
           w4 == Append(Append(w2, sup), <<f2>>)
           w6 == Append(Append(w4, core), <<f3>>)
<1>1. f1 \in S \ Q!Special /\ f2 \in S \ Q!Special /\ f3 \in S \ Q!Special /\ blank \in S
  BY DEF Flags, Q!Special
<1>2. ShellAt(S, <<>>, Sh("out", <<>>, <<>>, FALSE))
  BY ReadEmpty, EmptySeq DEF ShellAt, Sh, Q!Start
<1>3. ShellAt(S, t1, Sh("out", <<>>, script, TRUE))
  <2>1. ShellAt(S, <<>> \o t1, Sh("out", <<>>, script, TRUE)) /\ t1 \in Seq(S)
    BY <1>2, ShellQuoted
  <2> HIDE DEF t1
  <2> QED
    BY <2>1, ConcatEmptySeq
<1> HIDE DEF t1, f1, f2, f3
<1>4. ShellAt(S, t2, Sh("out", w2, <<>>, FALSE))
  BY <1>1, <1>3, ShellFlag
<1> HIDE DEF t2, w2
<1>5. ShellAt(S, t3, Sh("out", w2, sup, TRUE))
  BY <1>4, ShellQuoted
<1> HIDE DEF t3
<1>6. ShellAt(S, t4, Sh("out", w4, <<>>, FALSE))
  BY <1>1, <1>5, ShellFlag
<1> HIDE DEF t4, w4
<1>7. ShellAt(S, t5, Sh("out", w4, core, TRUE))
  BY <1>6, ShellQuoted
<1> HIDE DEF t5
<1>8. ShellAt(S, t6, Sh("out", w6, <<>>, FALSE))
  BY <1>1, <1>7, ShellFlag
<1>9. t7 = Append(t6, uid)
  <2>1. t5 \in Seq(S)
    BY <1>7 DEF ShellAt
  <2>2. uid \in S /\ f3 \in S /\ blank \in S
    BY <1>1
  <2> HIDE DEF blank
  <2> QED
    BY <2>1, <2>2, ConcatLast
<1> HIDE DEF t6, t7, w6
<1>10. ShellAt(S, t7, Sh("out", w6, Append(<<>>, uid), TRUE))
  BY <1>8, <1>9, ShellMoves
<1>11. Append(<<>>, uid) = <<uid>>
  OBVIOUS
<1>12. t7 \in Seq(S) /\ Q!Read("shell", t7) = Sh("out", w6, <<uid>>, TRUE)
  BY <1>10, <1>11 DEF ShellAt
<1>13. Q!ShellWords(t7) = Append(w6, <<uid>>)
  BY <1>12 DEF Q!ShellWords, Sh
<1>14. Append(w6, <<uid>>) = <<script, <<f1>>, sup, <<f2>>, core, <<f3>>, <<uid>>>>
  <2>1. <<f1>> \in Seq(S) /\ <<f2>> \in Seq(S) /\ <<f3>> \in Seq(S) /\ <<uid>> \in Seq(S)
    BY <1>1
  <2> DEFINE u1 == <<f1>>
             u2 == <<f2>>
             u3 == <<f3>>
             u == <<uid>>
  <2>2. Append(w6, u) = Append(Append(Append(Append(Append(Append(Append(<<>>, script), u1), sup),
                                                    u2), core), u3), u)
    BY DEF w2, w4, w6
  <2>3. u1 \in Seq(S) /\ u2 \in Seq(S) /\ u3 \in Seq(S) /\ u \in Seq(S)
    BY <2>1
  <2> HIDE DEF u1, u2, u3, u
  <2>4. Append(w6, u) = <<script, u1, sup, u2, core, u3, u>>
    BY <2>2, SevenWords
  <2> QED
    BY <2>4 DEF u1, u2, u3, u
<1> QED
  BY <1>12, <1>13, <1>14, Zenon DEF Command, Words, t1, t2, t3, t4, t5, t7, f1, f2, f3

(* It splits the uninstall command into the script alone.                  *)
LEMMA UninstallWords ==
  ASSUME NEW S, Q!Special \subseteq S, NEW script \in Seq(S)
  PROVE  Q!shell_quote(script) \in Seq(S) /\ Q!ShellWords(Q!shell_quote(script)) = <<script>>
<1> DEFINE t == Q!shell_quote(script)
<1>1. ShellAt(S, <<>>, Sh("out", <<>>, <<>>, FALSE))
  BY ReadEmpty, EmptySeq DEF ShellAt, Sh, Q!Start
<1>2. ShellAt(S, <<>> \o t, Sh("out", <<>>, script, TRUE)) /\ t \in Seq(S)
  BY <1>1, ShellQuoted
<1> HIDE DEF t
<1>3. Q!Read("shell", t) = Sh("out", <<>>, script, TRUE)
  BY <1>2, ConcatEmptySeq DEF ShellAt
<1> DEFINE e == <<>>
<1>4. Append(e, script) = <<script>>
  OBVIOUS
<1> HIDE DEF e
<1>5. Q!ShellWords(t) = Append(e, script)
  <2>1. Q!Read("shell", t) = Sh("out", e, script, TRUE)
    BY <1>3 DEF e
  <2> QED
    BY <2>1 DEF Q!ShellWords, Sh
<1> QED
  BY <1>2, <1>4, <1>5 DEF t

(* For every alphabet and every three paths over it: what run_install and  *)
(* run_uninstall give to osascript, the root shell reads as the script and *)
(* its arguments, and nothing is run unless the files are there.           *)
LEMMA ArgumentsReach ==
  ASSUME NEW S, Q!Special \subseteq S, Flags \subseteq S \ Q!Special,
         NEW script \in Seq(S), NEW sup \in Seq(S), NEW core \in Seq(S), NEW uid \in S \ Q!Special,
         NEW files
  PROVE  Q!ArgumentsIntact(script, sup, core, uid, files)
<1> DEFINE cmd == Command(script, sup, core, uid)
           out == Words(script, sup, core, uid)
           there == {script, sup, core} \subseteq files
           un == Q!shell_quote(script)
<1>1. cmd \in Seq(S) /\ Q!ShellWords(cmd) = out
  BY InstallWords
<1>2. un \in Seq(S) /\ Q!ShellWords(un) = <<script>>
  BY UninstallWords
<1>3. Q!run_install(script, sup, core, uid, files)
        = IF ~there THEN {} ELSE {Q!run_osascript_admin(cmd)}
  BY Zenon DEF Q!run_install, Command
<1>4. Q!run_uninstall(script, files)
        = IF script \notin files THEN {} ELSE {Q!run_osascript_admin(un)}
  BY Zenon DEF Q!run_uninstall
<1>5. Q!ArgumentsIntact(script, sup, core, uid, files)
        <=> /\ {Q!ShellWords(Q!AppleScriptLiteral(c)) :
                  c \in Q!run_install(script, sup, core, uid, files)}
               = IF there THEN {out} ELSE {}
            /\ {Q!ShellWords(Q!AppleScriptLiteral(c)) : c \in Q!run_uninstall(script, files)}
               = {<<x>> : x \in files \cap {script}}
  BY Zenon DEF Q!ArgumentsIntact, Words
<1> HIDE DEF cmd, out, there, un
<1>6. Q!AppleScriptLiteral(Q!run_osascript_admin(cmd)) = cmd
  BY <1>1, LiteralIntact
<1>7. Q!AppleScriptLiteral(Q!run_osascript_admin(un)) = un
  BY <1>2, LiteralIntact
<1>8. {Q!ShellWords(Q!AppleScriptLiteral(c)) :
         c \in Q!run_install(script, sup, core, uid, files)} = IF there THEN {out} ELSE {}
  BY <1>1, <1>3, <1>6
<1>9. {Q!ShellWords(Q!AppleScriptLiteral(c)) : c \in Q!run_uninstall(script, files)}
        = {<<x>> : x \in files \cap {script}}
  <2>1. CASE script \in files
    BY <1>2, <1>4, <1>7, <2>1
  <2>2. CASE script \notin files
    BY <1>4, <2>2
  <2> QED
    BY <2>1, <2>2
<1> QED
  BY <1>5, <1>8, <1>9
-----------------------------------------------------------------------------
(* Command lines.                                                          *)

\* A command line a begins with the path p, and there the word ends.
Starts(a, p) ==
  /\ Len(p) <= Len(a) /\ \A i \in 1..Len(p) : a[i] = p[i]
  /\ Len(a) = Len(p) \/ a[Len(p) + 1] = P!Space

(* IsPrefix by its characters.                                             *)
LEMMA PrefixIs ==
  ASSUME NEW S, NEW s \in Seq(S), NEW t \in Seq(S)
  PROVE  P!IsPrefix(s, t) <=> Len(s) <= Len(t) /\ \A i \in 1..Len(s) : s[i] = t[i]
<1> SUFFICES ASSUME Len(s) <= Len(t)
             PROVE  SubSeq(s, 1, Len(s)) = SubSeq(t, 1, Len(s)) <=> \A i \in 1..Len(s) : s[i] = t[i]
  BY DEF P!IsPrefix
<1>1. SubSeq(s, 1, Len(s)) = s
  BY SubSeqFull
<1> DEFINE u == SubSeq(t, 1, Len(s))
<1>2. u \in Seq(S) /\ Len(u) = Len(s) /\ \A i \in 1..Len(s) : u[i] = t[i]
  OBVIOUS
<1> HIDE DEF u
<1>3. s = u <=> \A i \in 1..Len(s) : s[i] = t[i]
  BY <1>2, SeqEqual
<1> QED
  BY <1>1, <1>3 DEF u

(* argv0_matches asks whether a command line starts with the path and goes *)
(* on with a blank or not at all.                                          *)
LEMMA MatchesIs ==
  ASSUME NEW S, P!Space \in S, NEW a \in Seq(S), NEW core \in Seq(S)
  PROVE  P!argv0_matches(a, core) <=> Starts(a, core)
<1> DEFINE n == Len(core)
           p == Append(core, P!Space)
<1>1. /\ p \in Seq(S) /\ Len(p) = n + 1 /\ p[n + 1] = P!Space /\ n \in Nat /\ Len(a) \in Nat
      /\ \A i \in 1..n : p[i] = core[i]
  BY AppendProperties
<1> HIDE DEF p
<1>2. P!IsPrefix(p, a) <=> n + 1 <= Len(a) /\ \A i \in 1..n + 1 : p[i] = a[i]
  BY <1>1, PrefixIs
<1>3. P!argv0_matches(a, core) <=> a = core \/ P!IsPrefix(p, a)
  BY DEF P!argv0_matches, p
<1>4. a = core <=> Len(a) = n /\ \A i \in 1..n : a[i] = core[i]
  BY SeqEqual
<1>5. ASSUME Starts(a, core), Len(a) # n PROVE P!IsPrefix(p, a)
  <2>1. n + 1 <= Len(a) /\ a[n + 1] = P!Space /\ \A i \in 1..n : a[i] = core[i]
    BY <1>1, <1>5 DEF Starts
  <2>2. ASSUME NEW i \in 1..n + 1 PROVE p[i] = a[i]
    <3>1. i \in 1..n \/ i = n + 1
      BY <1>1
    <3> QED
      BY <1>1, <2>1, <3>1
  <2> QED
    BY <1>2, <2>1, <2>2
<1>6. ASSUME P!IsPrefix(p, a) PROVE Starts(a, core)
  <2>1. n + 1 <= Len(a) /\ \A i \in 1..n + 1 : p[i] = a[i]
    BY <1>2, <1>6
  <2>2. \A i \in 1..n : i \in 1..n + 1
    BY <1>1
  <2>3. n + 1 \in 1..n + 1 /\ n <= Len(a)
    BY <1>1, <2>1
  <2>4. a[n + 1] = P!Space /\ \A i \in 1..n : a[i] = core[i]
    BY <1>1, <2>1, <2>2, <2>3
  <2> QED
    BY <2>3, <2>4 DEF Starts
<1>7. a = core => Starts(a, core)
  BY <1>1, <1>4 DEF Starts
<1>8. Starts(a, core) /\ Len(a) = n => a = core
  BY <1>4 DEF Starts
<1> QED
  BY <1>3, <1>5, <1>6, <1>7, <1>8

\* What one more argument adds to a command line.
Glued(argv, w) == IF argv = <<>> THEN w ELSE <<P!Space>> \o w

(* Joining one more argument adds a blank and the argument.                *)
LEMMA JoinAppend ==
  ASSUME NEW S, P!Space \in S, NEW argv \in Seq(Seq(S)), NEW w \in Seq(S)
  PROVE  /\ P!Join(<<>>) = <<>> /\ P!Join(argv) \in Seq(S)
         /\ P!Join(Append(argv, w)) = P!Join(argv) \o Glued(argv, w)
<1> DEFINE e(v, i) == IF i = 1 THEN v[i] ELSE <<P!Space>> \o v[i]
           Parts(v) == [i \in DOMAIN v |-> e(v, i)]
           x == Parts(Append(argv, w))
           y == Append(Parts(argv), Glued(argv, w))
<1>1. \A v : P!Join(v) = FlattenSeq(Parts(v))
  BY Zenon DEF P!Join, P!FlattenSeq, FlattenSeq
<1>2. Parts(<<>>) = <<>>
  OBVIOUS
<1>3. ASSUME NEW v \in Seq(Seq(S))
      PROVE  Parts(v) \in Seq(Seq(S)) /\ Len(Parts(v)) = Len(v)
  <2>1. ASSUME NEW i \in 1..Len(v) PROVE e(v, i) \in Seq(S)
    <3>1. v[i] \in Seq(S) /\ <<P!Space>> \in Seq(S)
      BY ElementOfSeq
    <3> QED
      BY <3>1, ConcatProperties
  <2>2. Len(v) \in Nat /\ DOMAIN v = 1..Len(v)
    BY LenProperties
  <2> HIDE DEF e
  <2>3. Parts(v) \in [1..Len(v) -> Seq(S)]
    BY <2>1, <2>2
  <2>4. Parts(v) \in Seq(Seq(S))
    BY <2>2, <2>3, SeqDef
  <2> QED
    BY <2>2, <2>3, <2>4, LenProperties
<1>4. Glued(argv, w) \in Seq(S)
  BY ConcatProperties DEF Glued
<1>5. x = y
  <2> DEFINE n == Len(argv)
             longer == Append(argv, w)
  <2>1. /\ longer \in Seq(Seq(S)) /\ Len(longer) = n + 1 /\ longer[n + 1] = w /\ n \in Nat
        /\ \A i \in 1..n : longer[i] = argv[i]
    BY AppendProperties
  <2>2. x \in Seq(Seq(S)) /\ Len(x) = n + 1
    BY <1>3, <2>1
  <2>3. Parts(argv) \in Seq(Seq(S)) /\ Len(Parts(argv)) = n
    BY <1>3
  <2> HIDE DEF longer
  <2>4. ASSUME NEW i \in 1..n + 1 PROVE x[i] = e(longer, i)
    BY <2>1, LenProperties DEF longer
  <2>5. ASSUME NEW i \in 1..n PROVE Parts(argv)[i] = e(argv, i)
    BY LenProperties
  <2> DEFINE pa == Parts(argv)
  <2> HIDE DEF x, pa
  <2>6. y \in Seq(Seq(S)) /\ Len(y) = n + 1 /\ y[n + 1] = Glued(argv, w)
          /\ \A i \in 1..n : y[i] = pa[i]
    BY <1>4, <2>3, AppendProperties DEF pa
  <2> HIDE DEF y
  <2>7. ASSUME NEW i \in 1..n + 1 PROVE x[i] = y[i]
    <3>1. CASE i \in 1..n
      <4>1. x[i] = e(longer, i)
        BY <2>4
      <4>2. longer[i] = argv[i]
        BY <2>1, <3>1
      <4>3. pa[i] = e(argv, i)
        BY <2>5, <3>1 DEF pa
      <4>4. y[i] = pa[i]
        BY <2>6, <3>1
      <4> QED
        BY <4>1, <4>2, <4>3, <4>4
    <3>2. CASE i = n + 1
      <4>1. e(longer, i) = Glued(argv, w)
        <5>1. n + 1 = 1 <=> argv = <<>>
          BY <2>1, EmptySeq
        <5> QED
          BY <2>1, <3>2, <5>1 DEF Glued
      <4> QED
        BY <2>4, <2>6, <3>2, <4>1
    <3>3. i \in 1..n \/ i = n + 1
      BY <2>1
    <3> QED
      BY <3>1, <3>2, <3>3
  <2> QED
    BY <2>2, <2>6, <2>7, SeqEqual
<1> DEFINE pa == Parts(argv)
<1>6. x = Append(pa, Glued(argv, w)) /\ pa \in Seq(Seq(S))
  BY <1>3, <1>5
<1>7. /\ P!Join(argv) = FlattenSeq(pa) /\ P!Join(Append(argv, w)) = FlattenSeq(x)
      /\ P!Join(<<>>) = FlattenSeq(<<>>)
  BY <1>1, <1>2
<1> HIDE DEF pa, x
<1> QED
  BY <1>4, <1>6, <1>7, FlattenType, FlattenAppend

(* A command line starts with the first argument, however many follow.     *)
LEMMA JoinStarts ==
  ASSUME NEW S, P!Space \in S, NEW argv \in Seq(Seq(S)), argv # <<>>
  PROVE  P!Join(argv) \in Seq(S) /\ Starts(P!Join(argv), argv[1])
<1> DEFINE G == {v \in Seq(Seq(S)) : v # <<>> => Starts(P!Join(v), v[1])}
<1>1. <<>> \in G
  BY EmptySeq
<1>2. ASSUME NEW v \in Seq(Seq(S)), NEW w \in Seq(S), v \in G PROVE Append(v, w) \in G
  <2> DEFINE a == P!Join(v)
             g == Glued(v, w)
  <2>1. P!Join(Append(v, w)) = a \o g /\ a \in Seq(S)
    BY JoinAppend
  <2>2. Append(v, w) \in Seq(Seq(S))
    BY AppendProperties
  <2>3. CASE v = <<>>
    <3>1. Append(v, w)[1] = w
      BY <2>3
    <3>2. a \o g = w
      <4>1. a = <<>> /\ g = w
        BY <2>3, JoinAppend DEF Glued
      <4> QED
        BY <4>1, ConcatEmptySeq
    <3>3. Starts(w, w)
      BY DEF Starts
    <3> QED
      BY <2>1, <2>2, <3>1, <3>2, <3>3
  <2>4. CASE v # <<>>
    <3> DEFINE p == v[1]
               n == Len(p)
    <3>1. Len(v) >= 1 /\ Append(v, w)[1] = p /\ p \in Seq(S)
      BY <2>4, EmptySeq, ElementOfSeq, AppendProperties
    <3>2. Starts(a, p)
      BY <1>2, <2>4
    <3>3. g = <<P!Space>> \o w
      BY <2>4 DEF Glued
    <3>4. g \in Seq(S) /\ Len(g) >= 1 /\ g[1] = P!Space
      BY <3>3
    <3> HIDE DEF a, g, p
    <3>5. /\ a \o g \in Seq(S) /\ Len(a \o g) = Len(a) + Len(g)
          /\ \A i \in 1..Len(a) + Len(g) : (a \o g)[i] = IF i <= Len(a) THEN a[i] ELSE g[i - Len(a)]
      BY <2>1, <3>4, ConcatProperties
    <3>6. n \in Nat /\ Len(a) \in Nat /\ Len(g) \in Nat
      BY <2>1, <3>1, <3>4, LenProperties
    <3>7. n <= Len(a) /\ \A i \in 1..n : a[i] = p[i]
      BY <3>2 DEF Starts
    <3>8. ASSUME NEW i \in 1..n PROVE (a \o g)[i] = p[i]
      <4>1. i \in 1..Len(a) + Len(g) /\ i <= Len(a)
        BY <3>4, <3>6, <3>7
      <4> QED
        BY <3>5, <3>7, <4>1
    <3>9. (a \o g)[n + 1] = P!Space
      <4>1. n + 1 \in 1..Len(a) + Len(g)
        BY <3>4, <3>6, <3>7
      <4>2. CASE Len(a) = n
        <5>1. ~(n + 1 <= Len(a)) /\ (n + 1) - Len(a) = 1
          BY <3>6, <4>2
        <5> QED
          BY <3>4, <3>5, <4>1, <5>1
      <4>3. CASE Len(a) # n
        <5>1. n + 1 <= Len(a) /\ a[n + 1] = P!Space
          BY <3>2, <3>6, <3>7, <4>3 DEF Starts
        <5> QED
          BY <3>5, <4>1, <5>1
      <4> QED
        BY <4>2, <4>3
    <3>10. n <= Len(a \o g)
      BY <3>5, <3>6, <3>7
    <3>11. Starts(a \o g, p)
      BY <3>8, <3>9, <3>10 DEF Starts
    <3> QED
      BY <2>1, <2>2, <3>1, <3>11 DEF a, g
  <2> QED
    BY <2>3, <2>4
<1> HIDE DEF G
<1>3. \A v \in Seq(Seq(S)) : v \in G
  BY <1>1, <1>2, SeqInduct
<1>4. Starts(P!Join(argv), argv[1])
  BY <1>3 DEF G
<1>5. P!Join(argv) \in Seq(S)
  BY EmptySeq, JoinAppend
<1> QED
  BY <1>4, <1>5

(* The minimum of a set of numbers.                                        *)
LEMMA MinIs ==
  ASSUME NEW I, I \subseteq Nat, NEW n \in I, \A i \in I : n <= i
  PROVE  P!Min(I) = n
<1>1. P!Min(I) \in I /\ \A i \in I : P!Min(I) <= i
  BY DEF P!Min
<1>2. P!Min(I) \in Nat /\ n \in Nat /\ P!Min(I) <= n /\ n <= P!Min(I)
  BY <1>1
<1> QED
  BY <1>2

(* SelectInSeq finds the first blank.                                      *)
LEMMA SelectIs ==
  ASSUME NEW S, NEW s \in Seq(S)
  PROVE  /\ \A n \in 1..Len(s) : s[n] = P!Space /\ (\A i \in 1..n - 1 : s[i] # P!Space)
              => P!SelectInSeq(s, P!IsSpace) = n
         /\ (\A i \in 1..Len(s) : s[i] # P!Space) => P!SelectInSeq(s, P!IsSpace) = 0
<1> DEFINE I == {i \in 1..Len(s) : s[i] = P!Space}
<1>1. P!SelectInSeq(s, P!IsSpace) = IF I # {} THEN P!Min(I) ELSE 0
  BY DEF P!SelectInSeq, P!IsSpace
<1>2. I \subseteq Nat
  OBVIOUS
<1>3. ASSUME NEW n \in 1..Len(s), s[n] = P!Space, \A i \in 1..n - 1 : s[i] # P!Space
      PROVE  P!SelectInSeq(s, P!IsSpace) = n
  <2>1. n \in I
    BY <1>3
  <2>2. ASSUME NEW i \in I PROVE n <= i
    BY <1>3
  <2> HIDE DEF I
  <2> QED
    BY <1>1, <1>2, <2>1, <2>2, MinIs
<1> QED
  BY <1>1, <1>3

(* str::trim_start cuts the leading blanks.                                *)
LEMMA TrimIs ==
  ASSUME NEW S, NEW s \in Seq(S), NEW n \in 1..Len(s), s[n] # P!Space,
         \A i \in 1..n - 1 : s[i] = P!Space
  PROVE  P!TrimStart(s) = SubSeq(s, n, Len(s))
<1> DEFINE I == {i \in 1..Len(s) : ~(s[i] = P!Space)}
<1>1. P!TrimStart(s) = LET m == IF I # {} THEN P!Min(I) ELSE 0
                       IN IF m = 0 THEN <<>> ELSE SubSeq(s, m, Len(s))
  BY DEF P!TrimStart, P!SelectInSeq, P!IsSpace
<1>2. I \subseteq Nat /\ n \in I /\ n # 0
  OBVIOUS
<1>3. ASSUME NEW i \in I PROVE n <= i
  OBVIOUS
<1> HIDE DEF I
<1>4. P!Min(I) = n /\ I # {}
  BY <1>2, <1>3, MinIs
<1> QED
  BY <1>1, <1>2, <1>4

(* The two halves of splitn(2, char::is_whitespace).                       *)
LEMMA WordsAre ==
  ASSUME NEW S, NEW s \in Seq(S)
  PROVE  /\ \A n \in 1..Len(s) : s[n] = P!Space /\ (\A i \in 1..n - 1 : s[i] # P!Space)
              => /\ P!FirstWord(s) = SubSeq(s, 1, n - 1)
                 /\ P!AfterWord(s) = SubSeq(s, n + 1, Len(s))
         /\ (\A i \in 1..Len(s) : s[i] # P!Space) => P!FirstWord(s) = s
<1> DEFINE m == P!SelectInSeq(s, P!IsSpace)
<1>1. /\ P!FirstWord(s) = IF m = 0 THEN s ELSE SubSeq(s, 1, m - 1)
      /\ P!AfterWord(s) = IF m = 0 THEN <<>> ELSE SubSeq(s, m + 1, Len(s))
  BY DEF P!FirstWord, P!AfterWord
<1>2. \A n \in 1..Len(s) : s[n] = P!Space /\ (\A i \in 1..n - 1 : s[i] # P!Space) => m = n
  BY SelectIs
<1>3. (\A i \in 1..Len(s) : s[i] # P!Space) => m = 0
  BY SelectIs
<1> HIDE DEF m
<1>4. ASSUME NEW n \in 1..Len(s), s[n] = P!Space, \A i \in 1..n - 1 : s[i] # P!Space
      PROVE  P!FirstWord(s) = SubSeq(s, 1, n - 1) /\ P!AfterWord(s) = SubSeq(s, n + 1, Len(s))
  <2>1. m = n /\ n # 0
    BY <1>2, <1>4
  <2> QED
    BY <1>1, <2>1
<1> QED
  BY <1>1, <1>3, <1>4

\* What is left of a line of ps behind the pid.
Rest(line) == P!TrimStart(P!AfterWord(P!TrimStart(line)))

(* From a line of ps both readers get the pid, and the command line as the *)
(* process has it.                                                         *)
LEMMA LineIs ==
  ASSUME NEW S, P!Space \in S, NEW pid \in S, pid # P!Space, NEW argv,
         P!Join(argv) \in Seq(S), Len(P!Join(argv)) >= 1, P!Join(argv)[1] # P!Space
  PROVE  /\ P!FirstWord(P!TrimStart(P!PsLine(2, pid, argv))) = <<pid>>
         /\ Rest(P!PsLine(2, pid, argv)) = P!Join(argv)
<1> DEFINE a == P!Join(argv)
           h == [i \in 1..2 |-> P!Space] \o <<pid, P!Space>>
           g == <<pid, P!Space>>
           line == h \o a
           l == g \o a
<1>1. P!PsLine(2, pid, argv) = line
  BY DEF P!PsLine
<1>2. h \in Seq(S) /\ Len(h) = 4 /\ h[1] = P!Space /\ h[2] = P!Space /\ h[3] = pid /\ h[4] = P!Space
  OBVIOUS
<1>3. g \in Seq(S) /\ Len(g) = 2 /\ g[1] = pid /\ g[2] = P!Space
  OBVIOUS
<1> HIDE DEF a, h, g
<1>4. a \in Seq(S) /\ Len(a) \in Nat /\ Len(a) >= 1 /\ a[1] # P!Space
  BY LenProperties DEF a
<1>5. /\ line \in Seq(S) /\ Len(line) = 4 + Len(a)
      /\ \A i \in 1..4 + Len(a) : line[i] = IF i <= 4 THEN h[i] ELSE a[i - 4]
  <2>1. /\ h \o a \in Seq(S) /\ Len(h \o a) = Len(h) + Len(a)
        /\ \A i \in 1..Len(h) + Len(a) :
             (h \o a)[i] = IF i <= Len(h) THEN h[i] ELSE a[i - Len(h)]
    <3>1. h \in Seq(S) /\ a \in Seq(S)
      BY <1>2, <1>4
    <3> QED
      BY <3>1, ConcatProperties, Zenon
  <2> QED
    BY <1>2, <1>4, <2>1
<1>6. /\ l \in Seq(S) /\ Len(l) = 2 + Len(a)
      /\ \A i \in 1..2 + Len(a) : l[i] = IF i <= 2 THEN g[i] ELSE a[i - 2]
  <2>1. /\ g \o a \in Seq(S) /\ Len(g \o a) = Len(g) + Len(a)
        /\ \A i \in 1..Len(g) + Len(a) :
             (g \o a)[i] = IF i <= Len(g) THEN g[i] ELSE a[i - Len(g)]
    <3>1. g \in Seq(S) /\ a \in Seq(S)
      BY <1>3, <1>4
    <3> QED
      BY <3>1, ConcatProperties, Zenon
  <2> QED
    BY <1>3, <1>4, <2>1
<1> HIDE DEF line, l
<1>7. P!TrimStart(line) = SubSeq(line, 3, Len(line))
  <2>1. 3 \in 1..Len(line) /\ line[3] = pid
    BY <1>2, <1>4, <1>5
  <2>2. ASSUME NEW i \in 1..3 - 1 PROVE line[i] = P!Space
    <3>1. i = 1 \/ i = 2
      OBVIOUS
    <3> QED
      BY <1>2, <1>4, <1>5, <3>1
  <2> QED
    BY <1>5, <2>1, <2>2, TrimIs
<1>8. SubSeq(line, 3, Len(line)) = l
  <2> DEFINE u == SubSeq(line, 3, Len(line))
  <2>1. u \in Seq(S) /\ Len(u) = 2 + Len(a) /\ \A i \in 1..2 + Len(a) : u[i] = line[i + 2]
    BY <1>4, <1>5
  <2> HIDE DEF u
  <2>2. ASSUME NEW i \in 1..2 + Len(a) PROVE u[i] = l[i]
    <3>1. CASE i > 2
      <4>1. i + 2 \in 1..4 + Len(a) /\ ~(i + 2 <= 4) /\ ~(i <= 2) /\ (i + 2) - 4 = i - 2
        BY <1>4, <3>1
      <4> QED
        BY <1>5, <1>6, <2>1, <4>1
    <3>2. CASE i = 1
      BY <1>2, <1>3, <1>4, <1>5, <1>6, <2>1, <3>2
    <3>3. CASE i = 2
      BY <1>2, <1>3, <1>4, <1>5, <1>6, <2>1, <3>3
    <3>4. i > 2 \/ i = 1 \/ i = 2
      BY <1>4
    <3> QED
      BY <3>1, <3>2, <3>3, <3>4
  <2>3. u = l
    BY <1>6, <2>1, <2>2, SeqEqual
  <2> QED
    BY <2>3 DEF u
<1>9. P!FirstWord(l) = SubSeq(l, 1, 1) /\ P!AfterWord(l) = SubSeq(l, 3, Len(l))
  <2>1. 2 \in 1..Len(l) /\ l[2] = P!Space
    BY <1>3, <1>4, <1>6
  <2>2. ASSUME NEW i \in 1..2 - 1 PROVE l[i] # P!Space
    <3>1. i = 1
      OBVIOUS
    <3> QED
      BY <1>3, <1>4, <1>6, <3>1
  <2>3. P!FirstWord(l) = SubSeq(l, 1, 2 - 1) /\ P!AfterWord(l) = SubSeq(l, 2 + 1, Len(l))
    BY <1>6, <2>1, <2>2, WordsAre
  <2> QED
    BY <2>3
<1>10. SubSeq(l, 1, 1) = <<pid>>
  <2>1. l[1] = pid
    BY <1>3, <1>4, <1>6
  <2> DEFINE u == SubSeq(l, 1, 1)
  <2>2. u \in Seq(S) /\ Len(u) = 1 /\ u[1] = l[1]
    BY <1>4, <1>6
  <2> HIDE DEF u
  <2>3. u = <<u[1]>>
    BY <2>2
  <2> QED
    BY <2>1, <2>2, <2>3 DEF u
<1>11. SubSeq(l, 3, Len(l)) = a
  <2> DEFINE u == SubSeq(l, 3, Len(l))
  <2>1. u \in Seq(S) /\ Len(u) = Len(a) /\ \A i \in 1..Len(a) : u[i] = l[i + 2]
    BY <1>4, <1>6
  <2> HIDE DEF u
  <2>2. ASSUME NEW i \in 1..Len(a) PROVE u[i] = a[i]
    <3>1. i + 2 \in 1..2 + Len(a) /\ ~(i + 2 <= 2) /\ (i + 2) - 2 = i
      BY <1>4
    <3> QED
      BY <1>6, <2>1, <3>1
  <2>3. u = a
    BY <1>4, <2>1, <2>2, SeqEqual
  <2> QED
    BY <2>3 DEF u
<1>12. P!TrimStart(a) = a
  <2>1. P!TrimStart(a) = SubSeq(a, 1, Len(a))
    <3>1. 1 \in 1..Len(a) /\ \A i \in 1..1 - 1 : a[i] = P!Space
      BY <1>4
    <3> QED
      BY <1>4, <3>1, TrimIs
  <2> QED
    BY <1>4, <2>1, SubSeqFull
<1> QED
  BY <1>1, <1>7, <1>8, <1>9, <1>10, <1>11, <1>12 DEF Rest, a

(* The first word of a command line is that of the path it starts with.    *)
LEMMA FirstOf ==
  ASSUME NEW S, NEW a \in Seq(S), NEW p \in Seq(S), Starts(a, p)
  PROVE  /\ (\A i \in 1..Len(p) : p[i] # P!Space) => P!FirstWord(a) = p
         /\ \A n \in 1..Len(p) : p[n] = P!Space /\ (\A i \in 1..n - 1 : p[i] # P!Space)
              => P!FirstWord(a) = SubSeq(p, 1, n - 1)
<1>1. Len(a) \in Nat /\ Len(p) \in Nat /\ Len(p) <= Len(a) /\ \A i \in 1..Len(p) : a[i] = p[i]
  BY LenProperties DEF Starts
<1>2. ASSUME \A i \in 1..Len(p) : p[i] # P!Space PROVE P!FirstWord(a) = p
  <2>1. CASE Len(a) = Len(p)
    <3>1. a = p
      BY <1>1, <2>1, SeqEqual
    <3> QED
      BY <1>2, <3>1, WordsAre
  <2>2. CASE Len(a) # Len(p)
    <3> DEFINE n == Len(p) + 1
               u == SubSeq(a, 1, n - 1)
    <3>1. n \in 1..Len(a) /\ a[n] = P!Space /\ n - 1 = Len(p)
      BY <1>1, <2>2 DEF Starts
    <3>2. \A i \in 1..n - 1 : a[i] # P!Space
      BY <1>1, <1>2, <3>1
    <3>3. u \in Seq(S) /\ Len(u) = Len(p) /\ \A i \in 1..Len(p) : u[i] = a[i]
      BY <1>1, <3>1
    <3> HIDE DEF n
    <3>4. P!FirstWord(a) = u
      BY <3>1, <3>2, WordsAre
    <3> HIDE DEF u
    <3>5. u = p
      BY <1>1, <3>3, SeqEqual
    <3> QED
      BY <3>4, <3>5
  <2> QED
    BY <2>1, <2>2
<1>3. ASSUME NEW n \in 1..Len(p), p[n] = P!Space, \A i \in 1..n - 1 : p[i] # P!Space
      PROVE  P!FirstWord(a) = SubSeq(p, 1, n - 1)
  <2> DEFINE u == SubSeq(a, 1, n - 1)
             v == SubSeq(p, 1, n - 1)
  <2>1. n \in 1..Len(a) /\ a[n] = P!Space /\ \A i \in 1..n - 1 : a[i] = p[i] /\ a[i] # P!Space
    BY <1>1, <1>3
  <2>2. P!FirstWord(a) = u
    BY <2>1, WordsAre
  <2>3. u \in Seq(S) /\ Len(u) = n - 1 /\ \A i \in 1..n - 1 : u[i] = a[i]
    BY <1>1, <2>1
  <2>4. v \in Seq(S) /\ Len(v) = n - 1 /\ \A i \in 1..n - 1 : v[i] = p[i]
    BY <1>1
  <2> HIDE DEF u, v
  <2>5. u = v
    BY <2>1, <2>3, <2>4, SeqEqual
  <2> QED
    BY <2>2, <2>5 DEF v
<1> QED
  BY <1>2, <1>3

(* is_core_argv0 by the last two tokens.                                   *)
LEMMA CoreNameIs ==
  ASSUME NEW S, NEW w \in Seq(S)
  PROVE  P!is_core_argv0(w)
           <=> \/ w = P!Bare
               \/ Len(w) >= 2 /\ w[Len(w)] = "easytier-core" /\ w[Len(w) - 1] = "/"
<1> DEFINE n == Len(w)
           s == <<"/", "easytier-core">>
           x == P!Reverse(s)
           y == P!Reverse(w)
           U == S \cup {"/", "easytier-core"}
<1>1. n \in Nat /\ s \in Seq(U) /\ Len(s) = 2 /\ s[1] = "/" /\ s[2] = "easytier-core" /\ w \in Seq(U)
  BY SeqMonotonic
<1>2. x \in Seq(U) /\ Len(x) = 2 /\ x[1] = s[2] /\ x[2] = s[1]
  BY <1>1 DEF P!Reverse
<1> HIDE DEF x, s
<1>3. y \in Seq(U) /\ Len(y) = n /\ \A i \in 1..n : y[i] = w[n - i + 1]
  BY <1>1 DEF P!Reverse
<1> HIDE DEF y, U
<1>4. P!IsPrefix(x, y) <=> 2 <= n /\ \A i \in 1..2 : x[i] = y[i]
  <2>1. P!IsPrefix(x, y) <=> Len(x) <= Len(y) /\ \A i \in 1..Len(x) : x[i] = y[i]
    <3>1. x \in Seq(U) /\ y \in Seq(U)
      BY <1>2, <1>3
    <3> QED
      BY <3>1, PrefixIs
  <2> QED
    BY <1>2, <1>3, <2>1
<1>5. n >= 2 => y[1] = w[n] /\ y[2] = w[n - 1]
  BY <1>1, <1>3
<1>6. (\A i \in 1..2 : x[i] = y[i]) <=> y[1] = "easytier-core" /\ y[2] = "/"
  <2>1. \A i \in 1..2 : i = 1 \/ i = 2
    OBVIOUS
  <2> QED
    BY <1>1, <1>2, <2>1
<1>7. P!is_core_argv0(w) <=> w = P!Bare \/ P!IsPrefix(x, y)
  BY DEF P!is_core_argv0, P!IsSuffix, P!Bare, x, y, s
<1> QED
  BY <1>1, <1>4, <1>5, <1>6, <1>7

\* The tokens of the programs and of the lines.
Tokens == {P!Space, "/", "Application", "Support", "easytier-core", "-extra", "Users", "My", "Apps",
           "bin", "sh", "opt", "mihomo", "--daemon", "11", "12", "13"}

(* No token of a path is blank.                                            *)
LEMMA NotSpace ==
  \A t \in {"/", "Application", "My", "Users", "bin", "opt", "sh", "mihomo", "easytier-core",
             "-extra", "11", "12", "13"} : t # P!Space
  BY Zenon DEF P!Space

(* The sibling's path, token by token.                                     *)
LEMMA SiblingIs ==
  P!Sibling = <<"/", "Application", P!Space, "Support", "/", "easytier-core", "-extra">>
<1> DEFINE s == <<"/", "Application", P!Space, "Support", "/", "easytier-core">>
           y == <<"/", "Application", P!Space, "Support", "/", "easytier-core", "-extra">>
<1>1. /\ s \in Seq(Tokens) /\ y \in Seq(Tokens) /\ "-extra" \in Tokens /\ Len(s) = 6 /\ Len(y) = 7
      /\ \A i \in 1..6 : s[i] = y[i]
  BY DEF Tokens
<1>2. y[7] = "-extra"
  OBVIOUS
<1>3. P!Sibling = Append(s, "-extra")
  BY Zenon DEF P!Sibling, P!MANAGED_CORE
<1> HIDE DEF s, y
<1> DEFINE x == Append(s, "-extra")
<1>4. /\ x \in Seq(Tokens) /\ Len(x) = Len(s) + 1 /\ x[Len(s) + 1] = "-extra"
      /\ \A i \in 1..Len(s) : x[i] = s[i]
  <2>1. s \in Seq(Tokens) /\ "-extra" \in Tokens
    BY <1>1
  <2> QED
    BY <2>1, AppendProperties
<1> HIDE DEF x
<1>5. ASSUME NEW i \in 1..7 PROVE x[i] = y[i]
  <2>1. i \in 1..6 \/ i = Len(s) + 1
    BY <1>1
  <2> QED
    BY <1>1, <1>2, <1>4, <2>1
<1>6. x = y
  <2>1. x \in Seq(Tokens) /\ y \in Seq(Tokens) /\ Len(x) = 7 /\ Len(y) = 7
    BY <1>1, <1>4
  <2>2. Len(x) = Len(y) /\ \A i \in 1..Len(x) : x[i] = y[i]
    BY <1>5, <2>1
  <2> QED
    BY <2>1, <2>2, SeqEqual, Zenon
<1> QED
  BY <1>3, <1>6 DEF x, y

(* Paths are made of tokens.                                               *)
LEMMA ProgramsTyped ==
  ASSUME NEW S, Tokens \subseteq S
  PROVE  P!Programs \subseteq Seq(S)
<1>1. P!Managed \in Seq(S)
  BY DEF P!Managed, P!MANAGED_CORE, Tokens
<1>2. P!Sibling \in Seq(S)
  <2>1. P!MANAGED_CORE \in Seq(S) /\ "-extra" \in S
    BY DEF P!MANAGED_CORE, Tokens
  <2> QED
    BY <2>1, AppendProperties DEF P!Sibling
<1>3. P!Own \in Seq(S) /\ P!Bare \in Seq(S)
  BY DEF P!Own, P!Bare, Tokens
<1>4. P!Spaced \in Seq(S)
  BY DEF P!Spaced, Tokens
<1>5. P!Shell \in Seq(S) /\ P!Vpn \in Seq(S)
  BY DEF P!Shell, P!Vpn, Tokens
<1>6. P!SpacedVpn \in Seq(S)
  BY DEF P!SpacedVpn, Tokens
<1> QED
  BY <1>1, <1>2, <1>3, <1>4, <1>5, <1>6 DEF P!Programs

(* What tells the programs apart.                                          *)
LEMMA ProgramFacts ==
  /\ Len(P!Managed) = 6 /\ P!Managed[1] = "/" /\ P!Managed[2] = "Application"
     /\ P!Managed[3] = P!Space
  /\ Len(P!Sibling) = 7 /\ P!Sibling[1] = "/" /\ P!Sibling[2] = "Application"
     /\ P!Sibling[3] = P!Space /\ P!Sibling[7] = "-extra"
  /\ Len(P!Own) = 4 /\ P!Own[1] = "/" /\ P!Own[2] = "Users" /\ P!Own[3] = "/"
     /\ P!Own[4] = "easytier-core"
  /\ Len(P!Bare) = 1 /\ P!Bare[1] = "easytier-core"
  /\ Len(P!Spaced) = 6 /\ P!Spaced[1] = "/" /\ P!Spaced[2] = "My" /\ P!Spaced[3] = P!Space
  /\ Len(P!Shell) = 4 /\ P!Shell[1] = "/" /\ P!Shell[2] = "bin" /\ P!Shell[3] = "/"
     /\ P!Shell[4] = "sh"
  /\ Len(P!Vpn) = 4 /\ P!Vpn[1] = "/" /\ P!Vpn[2] = "opt" /\ P!Vpn[3] = "/" /\ P!Vpn[4] = "mihomo"
  /\ Len(P!SpacedVpn) = 6 /\ P!SpacedVpn[1] = "/" /\ P!SpacedVpn[2] = "My"
     /\ P!SpacedVpn[3] = P!Space
<1>1. P!Sibling = <<"/", "Application", P!Space, "Support", "/", "easytier-core", "-extra">>
  BY SiblingIs
<1>2. Len(P!Sibling) = 7 /\ P!Sibling[1] = "/" /\ P!Sibling[2] = "Application"
      /\ P!Sibling[3] = P!Space /\ P!Sibling[7] = "-extra"
  BY <1>1
<1> QED
  BY <1>2 DEF P!Managed, P!MANAGED_CORE, P!Own, P!Bare, P!Spaced, P!Shell, P!Vpn,
              P!SpacedVpn

(* A first word of two tokens, as that of a path with a blank, names       *)
(* neither a core nor a VPN.                                               *)
LEMMA ShortWord ==
  ASSUME NEW S, NEW w \in Seq(S), Len(w) = 2, w[2] \notin {"easytier-core", "mihomo", "sing-box"}
  PROVE  ~P!is_core_argv0(w) /\ ~P!is_tun_vpn(w)
<1>1. ~P!is_core_argv0(w)
  <2>1. w # P!Bare
    BY ProgramFacts
  <2> QED
    BY <2>1, CoreNameIs
<1>2. ~P!is_tun_vpn(w)
  BY DEF P!is_tun_vpn, P!Last, P!TunVpns
<1> QED
  BY <1>1, <1>2

(* One of four tokens is judged by the last.                               *)
LEMMA LongWord ==
  ASSUME NEW S, NEW w \in Seq(S), Len(w) = 4, w[3] = "/"
  PROVE  /\ P!is_core_argv0(w) <=> w[4] = "easytier-core"
         /\ P!is_tun_vpn(w) <=> w[4] \in {"mihomo", "sing-box"}
<1>1. P!is_core_argv0(w) <=> w[4] = "easytier-core"
  <2>1. w # P!Bare
    BY ProgramFacts
  <2>2. Len(w) >= 2 /\ Len(w) - 1 = 3
    OBVIOUS
  <2> QED
    BY <2>1, <2>2, CoreNameIs
<1>2. P!is_tun_vpn(w) <=> w[4] \in {"mihomo", "sing-box"}
  BY DEF P!is_tun_vpn, P!Last, P!TunVpns
<1> QED
  BY <1>1, <1>2

(* The first word of a path with a blank in its third place.               *)
LEMMA SpacedFirst ==
  ASSUME NEW S, NEW a \in Seq(S), NEW p \in Seq(S), Starts(a, p), Len(p) >= 3,
         p[1] # P!Space, p[2] # P!Space, p[3] = P!Space
  PROVE  P!FirstWord(a) \in Seq(S) /\ Len(P!FirstWord(a)) = 2 /\ P!FirstWord(a)[2] = p[2]
<1>1. 3 \in 1..Len(p) /\ \A i \in 1..3 - 1 : p[i] # P!Space
  <2>1. \A i \in 1..3 - 1 : i = 1 \/ i = 2
    OBVIOUS
  <2> QED
    BY <2>1
<1>2. P!FirstWord(a) = SubSeq(p, 1, 3 - 1)
  BY <1>1, FirstOf
<1>3. SubSeq(p, 1, 3 - 1) \in Seq(S) /\ Len(SubSeq(p, 1, 3 - 1)) = 2
      /\ SubSeq(p, 1, 3 - 1)[2] = p[2]
  BY <1>1
<1> QED
  BY <1>2, <1>3

(* A text that starts with seven tokens does not end with the sixth.       *)
LEMMA SevenLong == \A n, m \in Nat : n = 7 /\ n <= m => 7 \in 1..n /\ m # 6
  OBVIOUS

\* A command line a of a process that runs p is judged by what p is.
Classified(a, p) ==
  /\ P!argv0_matches(a, P!MANAGED_CORE) <=> p = P!Managed
  /\ P!is_managed_core(a) <=> p = P!Managed
  /\ P!is_core_argv0(P!FirstWord(a)) /\ ~P!is_managed_core(a) <=> p \in {P!Own, P!Bare}
  /\ P!is_tun_vpn(P!FirstWord(a)) <=> p = P!Vpn

(* Each program is taken for what it is, from a command line that starts   *)
(* with it: the path of the managed core has a blank and no visible end,   *)
(* and yet no other program's line passes for it.                          *)
LEMMA ProgramsClassified ==
  ASSUME NEW S, Tokens \subseteq S, NEW p \in Seq(S), p \in P!Programs,
         NEW a \in Seq(S), Starts(a, p)
  PROVE  Classified(a, p) /\ Len(a) >= 1 /\ a[1] # P!Space
<1> DEFINE M == P!Managed
           w == P!FirstWord(a)
<1>1. P!is_managed_core(a) <=> P!argv0_matches(a, P!MANAGED_CORE)
  BY DEF P!is_managed_core, P!argv0_matches
<1>2. P!argv0_matches(a, P!MANAGED_CORE) <=> Starts(a, M)
  <2>1. P!MANAGED_CORE \in Seq(S) /\ P!Space \in S
    BY DEF P!MANAGED_CORE, Tokens
  <2> QED
    BY <2>1, MatchesIs DEF P!Managed
<1>3. /\ p \in Seq(S) /\ Len(p) \in Nat /\ Len(a) \in Nat /\ Len(p) <= Len(a)
      /\ \A i \in 1..Len(p) : a[i] = p[i]
      /\ Len(a) = Len(p) \/ a[Len(p) + 1] = P!Space
  BY LenProperties DEF Starts
<1>4. Starts(a, M) <=> /\ Len(a) >= 6 /\ a[1] = "/" /\ a[2] = "Application" /\ a[3] = P!Space
                       /\ a[4] = "Support" /\ a[5] = "/" /\ a[6] = "easytier-core"
                       /\ Len(a) = 6 \/ a[7] = P!Space
  <2>1. /\ M[1] = "/" /\ M[2] = "Application" /\ M[3] = P!Space /\ M[4] = "Support" /\ M[5] = "/"
        /\ M[6] = "easytier-core" /\ Len(M) = 6 /\ Len(M) + 1 = 7
    BY DEF P!Managed, P!MANAGED_CORE
  <2> HIDE DEF M
  <2>2. \A i \in 1..6 : i = 1 \/ i = 2 \/ i = 3 \/ i = 4 \/ i = 5 \/ i = 6
    OBVIOUS
  <2>3. Starts(a, M) <=> /\ 6 <= Len(a) /\ \A i \in 1..6 : a[i] = M[i]
                         /\ Len(a) = 6 \/ a[7] = P!Space
    BY <2>1 DEF Starts
  <2>4. (\A i \in 1..6 : a[i] = M[i])
          <=> /\ a[1] = "/" /\ a[2] = "Application" /\ a[3] = P!Space
              /\ a[4] = "Support" /\ a[5] = "/" /\ a[6] = "easytier-core"
    <3>1. ASSUME \A i \in 1..6 : a[i] = M[i]
          PROVE  /\ a[1] = M[1] /\ a[2] = M[2] /\ a[3] = M[3]
                 /\ a[4] = M[4] /\ a[5] = M[5] /\ a[6] = M[6]
      BY <3>1
    <3>2. ASSUME a[1] = M[1], a[2] = M[2], a[3] = M[3], a[4] = M[4], a[5] = M[5], a[6] = M[6],
                 NEW i \in 1..6
          PROVE  a[i] = M[i]
      BY <2>2, <3>2
    <3> QED
      BY <2>1, <3>1, <3>2
  <2> QED
    BY <1>3, <2>3, <2>4
<1>5. P!Space \in S
  BY DEF Tokens
<1> HIDE DEF M
<1>6. ASSUME Starts(a, M) <=> p = P!Managed,
             P!is_core_argv0(w) /\ p # P!Managed <=> p \in {P!Own, P!Bare},
             P!is_tun_vpn(w) <=> p = P!Vpn, Len(p) >= 1, p[1] # P!Space
      PROVE  Classified(a, p) /\ Len(a) >= 1 /\ a[1] # P!Space
  <2>1. Classified(a, p)
    BY <1>1, <1>2, <1>6 DEF Classified
  <2>2. 1 \in 1..Len(p) /\ Len(a) >= 1
    BY <1>3, <1>6
  <2> QED
    BY <1>3, <1>6, <2>1, <2>2
<1>7. 2 <= Len(p) => a[2] = p[2]
  <2>1. 2 <= Len(p) => 2 \in 1..Len(p)
    BY <1>3
  <2> QED
    BY <1>3, <2>1
<1>8. CASE p = P!Managed
  <2>1. Len(p) = 6 /\ p[1] = "/" /\ p[2] = "Application" /\ p[3] = P!Space
    BY <1>8, ProgramFacts
  <2>2. p # P!Own /\ p # P!Bare /\ p # P!Vpn
    BY <2>1, ProgramFacts
  <2>3. Starts(a, M)
    BY <1>8 DEF M
  <2>4. w \in Seq(S) /\ Len(w) = 2 /\ w[2] = "Application"
    <3>1. Len(p) >= 3 /\ p[1] # P!Space /\ p[2] # P!Space /\ p[3] = P!Space
      BY <2>1, NotSpace
    <3> QED
      BY <1>3, <2>1, <3>1, SpacedFirst
  <2>5. ~P!is_tun_vpn(w)
    BY <2>4, ShortWord
  <2>6. Len(p) >= 1 /\ p[1] # P!Space
    BY <2>1, NotSpace
  <2> QED
    BY <1>6, <1>8, <2>2, <2>3, <2>5, <2>6
<1>9. CASE p = P!Sibling
  <2>1. Len(p) = 7 /\ p[1] = "/" /\ p[2] = "Application" /\ p[3] = P!Space /\ p[7] = "-extra"
    BY <1>9, ProgramFacts
  <2>2. p # P!Managed /\ p # P!Own /\ p # P!Bare /\ p # P!Vpn
    <3>1. p # P!Own /\ p # P!Bare /\ p # P!Vpn
      BY <2>1, ProgramFacts
    <3>2. ASSUME p = P!Managed PROVE FALSE
      <4>1. Len(p) = 6
        BY <3>2, ProgramFacts
      <4>2. Len(p) = 7
        BY <1>9, ProgramFacts
      <4>3. 6 # 7
        OBVIOUS
      <4> QED
        BY <4>1, <4>2, <4>3, Zenon
    <3> QED
      BY <3>1, <3>2
  <2>3. ~Starts(a, M)
    <3>1. 7 \in 1..Len(p) /\ Len(a) # 6
      <4>1. Len(p) = 7 /\ Len(a) \in Nat /\ Len(p) <= Len(a)
        BY <1>3, <2>1
      <4> QED
        BY <4>1, SevenLong
    <3>2. a[7] = "-extra"
      BY <1>3, <2>1, <3>1
    <3> QED
      BY <1>4, <3>1, <3>2, NotSpace
  <2>4. w \in Seq(S) /\ Len(w) = 2 /\ w[2] = "Application"
    <3>1. Len(p) >= 3 /\ p[1] # P!Space /\ p[2] # P!Space /\ p[3] = P!Space
      BY <2>1, NotSpace
    <3> QED
      BY <1>3, <2>1, <3>1, SpacedFirst
  <2>5. ~P!is_tun_vpn(w) /\ ~P!is_core_argv0(w)
    BY <2>4, ShortWord
  <2>6. Len(p) >= 1 /\ p[1] # P!Space
    BY <2>1, NotSpace
  <2> QED
    BY <1>6, <2>2, <2>3, <2>5, <2>6
<1>10. CASE p \in {P!Spaced, P!SpacedVpn}
  <2>1. Len(p) = 6 /\ p[1] = "/" /\ p[2] = "My" /\ p[3] = P!Space
    BY <1>10, ProgramFacts
  <2>2. p # P!Managed /\ p # P!Own /\ p # P!Bare /\ p # P!Vpn
    BY <2>1, ProgramFacts
  <2>3. ~Starts(a, M)
    BY <1>4, <1>7, <2>1
  <2>4. w \in Seq(S) /\ Len(w) = 2 /\ w[2] = "My"
    <3>1. Len(p) >= 3 /\ p[1] # P!Space /\ p[2] # P!Space /\ p[3] = P!Space
      BY <2>1, NotSpace
    <3> QED
      BY <1>3, <2>1, <3>1, SpacedFirst
  <2>5. ~P!is_tun_vpn(w) /\ ~P!is_core_argv0(w)
    BY <2>4, ShortWord
  <2>6. Len(p) >= 1 /\ p[1] # P!Space
    BY <2>1, NotSpace
  <2> QED
    BY <1>6, <2>2, <2>3, <2>5, <2>6
<1>11. CASE p \in {P!Own, P!Shell, P!Vpn}
  <2>1. /\ Len(p) = 4 /\ p[1] = "/" /\ p[2] \in {"Users", "bin", "opt"} /\ p[3] = "/"
        /\ p[4] = IF p = P!Own THEN "easytier-core" ELSE IF p = P!Vpn THEN "mihomo" ELSE "sh"
    <3>1. P!Shell # P!Own /\ P!Shell # P!Vpn /\ P!Vpn # P!Own
      BY ProgramFacts
    <3> QED
      BY <1>11, <3>1, ProgramFacts
  <2>2. p # P!Managed /\ p # P!Bare /\ P!Vpn # P!Own
    BY <2>1, ProgramFacts
  <2>3. ~Starts(a, M)
    BY <1>4, <1>7, <2>1
  <2>4. w = p
    <3>1. ASSUME NEW i \in 1..Len(p) PROVE p[i] # P!Space
      <4>1. i = 1 \/ i = 2 \/ i = 3 \/ i = 4
        BY <2>1
      <4> QED
        BY <2>1, <4>1, NotSpace
    <3> QED
      BY <1>3, <3>1, FirstOf
  <2>5. /\ P!is_core_argv0(w) <=> p = P!Own
        /\ P!is_tun_vpn(w) <=> p = P!Vpn
    BY <1>3, <2>1, <2>2, <2>4, LongWord
  <2>6. Len(p) >= 1 /\ p[1] # P!Space
    BY <2>1, NotSpace
  <2> QED
    BY <1>6, <2>2, <2>3, <2>5, <2>6
<1>12. CASE p = P!Bare
  <2>1. Len(p) = 1 /\ p[1] = "easytier-core"
    BY <1>12, ProgramFacts
  <2>2. p # P!Managed /\ p # P!Vpn
    BY <2>1, ProgramFacts
  <2>3. ~Starts(a, M)
    <3>1. 1 \in 1..Len(p)
      BY <2>1
    <3>2. a[1] = "easytier-core"
      BY <1>3, <2>1, <3>1
    <3> QED
      BY <1>4, <3>2
  <2>4. w = p
    <3>1. ASSUME NEW i \in 1..Len(p) PROVE p[i] # P!Space
      <4>1. i = 1
        BY <2>1
      <4> QED
        BY <2>1, <4>1, NotSpace
    <3> QED
      BY <1>3, <3>1, FirstOf
  <2>5. P!is_core_argv0(w) /\ ~P!is_tun_vpn(w)
    BY <1>12, <2>1, <2>4 DEF P!is_core_argv0, P!Bare, P!is_tun_vpn, P!Last, P!TunVpns
  <2>6. Len(p) >= 1 /\ p[1] # P!Space
    BY <2>1, NotSpace
  <2> QED
    BY <1>6, <1>12, <2>2, <2>3, <2>5, <2>6
<1> QED
  BY <1>8, <1>9, <1>10, <1>11, <1>12 DEF P!Programs

\* A process runs one of the programs, with any arguments over an alphabet S.
Processes(S) ==
  [pid : P!PidTokens, argv : {v \in Seq(Seq(S)) : v # <<>> /\ v[1] \in P!Programs}]

(* The same from the line of ps, whatever the arguments.                   *)
LEMMA ProcessRead ==
  ASSUME NEW S, Tokens \subseteq S, NEW q \in Processes(S)
  PROVE  /\ P!FirstWord(P!TrimStart(P!PsLine(2, q.pid, q.argv))) = <<q.pid>>
         /\ Rest(P!PsLine(2, q.pid, q.argv)) = P!Join(q.argv)
         /\ Classified(P!Join(q.argv), q.argv[1])
<1> DEFINE v == q.argv
<1>1. q.pid \in P!PidTokens /\ v \in Seq(Seq(S)) /\ v # <<>> /\ v[1] \in P!Programs
  BY DEF Processes
<1>2. v[1] \in Seq(S)
  BY <1>1, ProgramsTyped
<1>3. P!Space \in S /\ q.pid \in S /\ q.pid # P!Space
  BY <1>1, NotSpace DEF Tokens, P!PidTokens
<1> HIDE DEF v
<1>4. P!Join(v) \in Seq(S) /\ Starts(P!Join(v), v[1])
  BY <1>1, <1>2, <1>3, JoinStarts
<1>5. Classified(P!Join(v), v[1]) /\ Len(P!Join(v)) >= 1 /\ P!Join(v)[1] # P!Space
  BY <1>1, <1>2, <1>4, ProgramsClassified
<1>6. /\ P!FirstWord(P!TrimStart(P!PsLine(2, q.pid, v))) = <<q.pid>>
      /\ Rest(P!PsLine(2, q.pid, v)) = P!Join(v)
  BY <1>3, <1>4, <1>5, LineIs
<1> QED
  BY <1>5, <1>6 DEF v

(* For every list of processes, with arguments over any alphabet: the      *)
(* sweep kills the managed cores, but for the supervisor and the caller's  *)
(* own, and nothing else.                                                  *)
LEMMA SweepOf ==
  ASSUME NEW S, Tokens \subseteq S, NEW procs \in SUBSET Processes(S), NEW exclude_pid
  PROVE  P!KillsManagedOnly(procs, {P!PsLine(2, p.pid, p.argv) : p \in procs}, "13", exclude_pid)
<1> DEFINE lines == {P!PsLine(2, p.pid, p.argv) : p \in procs}
           Hit(pid, line) == /\ P!FirstWord(P!TrimStart(line)) = <<pid>>
                             /\ P!argv0_matches(Rest(line), P!MANAGED_CORE)
           killed == P!sweep_orphans(lines, P!MANAGED_CORE, "13", exclude_pid)
           meant == {p.pid : p \in {q \in procs : /\ q.argv[1] = P!Managed
                                                  /\ q.pid \notin {"13", exclude_pid}}}
<1>1. killed = {pid \in P!PidTokens \ {"13", exclude_pid} : \E line \in lines : Hit(pid, line)}
  BY DEF P!sweep_orphans, Rest
<1>2. ASSUME NEW q \in procs, NEW pid
      PROVE  Hit(pid, P!PsLine(2, q.pid, q.argv)) <=> q.pid = pid /\ q.argv[1] = P!Managed
  <2>1. q \in Processes(S)
    OBVIOUS
  <2>2. /\ P!FirstWord(P!TrimStart(P!PsLine(2, q.pid, q.argv))) = <<q.pid>>
        /\ Rest(P!PsLine(2, q.pid, q.argv)) = P!Join(q.argv)
        /\ P!argv0_matches(P!Join(q.argv), P!MANAGED_CORE) <=> q.argv[1] = P!Managed
    BY <2>1, ProcessRead DEF Classified
  <2>3. <<q.pid>> = <<pid>> <=> q.pid = pid
    OBVIOUS
  <2> QED
    BY <2>2, <2>3
<1>3. \A q \in procs : q.pid \in P!PidTokens
  BY DEF Processes
<1> HIDE DEF Hit
<1>4. \A pid : (\E line \in lines : Hit(pid, line))
                 <=> \E q \in procs : q.pid = pid /\ q.argv[1] = P!Managed
  BY <1>2
<1> HIDE DEF lines, killed
<1>5. ASSUME NEW pid PROVE pid \in killed <=> pid \in meant
  BY <1>1, <1>3, <1>4
<1>6. killed = meant
  <2> HIDE DEF meant
  <2> QED
    BY <1>5
<1> QED
  BY <1>6, Zenon DEF P!KillsManagedOnly, killed, meant, lines

(* A path with a blank is not among those that are always found.           *)
LEMMA Unspaced ==
  /\ {x \in P!OtherCores : ~P!HasSpace(x)} \subseteq {P!Own, P!Bare}
  /\ {x \in P!Vpns : ~P!HasSpace(x)} \subseteq {P!Vpn}
<1>1. P!HasSpace(P!Spaced) /\ P!HasSpace(P!SpacedVpn)
  BY ProgramFacts DEF P!HasSpace, P!Contains
<1> QED
  BY <1>1 DEF P!OtherCores, P!Vpns

(* For every such list: the warnings name cores that are not managed and   *)
(* VPNs, nothing else, and all of them whose path has no blank.            *)
LEMMA ConflictsOf ==
  ASSUME NEW S, Tokens \subseteq S, NEW procs \in SUBSET Processes(S)
  PROVE  P!WarnsRightly(procs, {P!PsLine(2, p.pid, p.argv) : p \in procs})
<1> DEFINE lines == {P!PsLine(2, p.pid, p.argv) : p \in procs}
           args == {Rest(l) : l \in lines}
           cores == {x \in args : P!is_core_argv0(P!FirstWord(x)) /\ ~P!is_managed_core(x)}
           vpns == {x \in args : P!is_tun_vpn(P!FirstWord(x))}
           others == P!CmdsOf(procs, {P!Own, P!Bare})
           tuns == P!CmdsOf(procs, {P!Vpn})
<1>1. P!classify(lines) = [unmanaged_core |-> cores, tun_vpn |-> vpns]
  BY DEF P!classify, Rest
<1>2. ASSUME NEW q \in procs
      PROVE  /\ Rest(P!PsLine(2, q.pid, q.argv)) = P!Join(q.argv)
             /\ Classified(P!Join(q.argv), q.argv[1])
  <2>1. q \in Processes(S)
    OBVIOUS
  <2> QED
    BY <2>1, ProcessRead
<1>3. \A x : x \in args <=> \E q \in procs : x = P!Join(q.argv)
  BY <1>2
<1> HIDE DEF args
<1>4. cores = others
  <2>1. ASSUME NEW x PROVE x \in cores <=> x \in others
    BY <1>2, <1>3 DEF Classified, P!CmdsOf
  <2> HIDE DEF cores, others
  <2> QED
    BY <2>1
<1>5. vpns = tuns
  <2>1. ASSUME NEW x PROVE x \in vpns <=> x \in tuns
    BY <1>2, <1>3 DEF Classified, P!CmdsOf
  <2> HIDE DEF vpns, tuns
  <2> QED
    BY <2>1
<1> HIDE DEF cores, vpns, lines
<1>6. P!classify(lines).unmanaged_core = others /\ P!classify(lines).tun_vpn = tuns
  BY <1>1, <1>4, <1>5
<1>7. ASSUME NEW few, NEW more, few \subseteq more
      PROVE  P!CmdsOf(procs, few) \subseteq P!CmdsOf(procs, more)
  BY <1>7 DEF P!CmdsOf
<1>8. {P!Own, P!Bare} \subseteq P!OtherCores /\ {P!Vpn} \subseteq P!Vpns
  BY DEF P!OtherCores, P!Vpns
<1> DEFINE nonSpaced(programs) == {x \in programs : ~P!HasSpace(x)}
<1>9. /\ others \subseteq P!CmdsOf(procs, P!OtherCores)
      /\ P!CmdsOf(procs, nonSpaced(P!OtherCores)) \subseteq others
      /\ tuns \subseteq P!CmdsOf(procs, P!Vpns)
      /\ P!CmdsOf(procs, nonSpaced(P!Vpns)) \subseteq tuns
  <2> HIDE DEF nonSpaced
  <2>1. nonSpaced(P!OtherCores) \subseteq {P!Own, P!Bare} /\ nonSpaced(P!Vpns) \subseteq {P!Vpn}
    BY Unspaced DEF nonSpaced
  <2> QED
    BY <1>7, <1>8, <2>1
<1>10. P!WarnsRightly(procs, lines)
  BY <1>6, <1>9, Zenon DEF P!WarnsRightly, P!FoundUnlessSpaced
<1> QED
  BY <1>10, Zenon DEF lines
-----------------------------------------------------------------------------
(* The inputs of MCBoundary.                                               *)

(* What is listed runs one of the programs, with arguments made of tokens. *)
LEMMA ListedAreProcesses == Listed \subseteq Processes(Tokens)
<1>1. Arguments \subseteq Seq(Tokens)
  <2>1. <<"--daemon">> \in Seq(Tokens)
    BY DEF Tokens
  <2> QED
    BY <2>1, ProgramsTyped DEF Arguments
<1>2. \A v \in Argvs : v \in Seq(Seq(Tokens)) /\ v # <<>> /\ v[1] \in P!Programs
  BY <1>1, SeqMonotonic DEF Argvs
<1> QED
  BY <1>2 DEF Listed, Processes, P!PidTokens

(* The janitor's sweep (sweep_orphans, argv0_matches) kills the managed    *)
(* cores and nothing else, however many arguments the processes have and   *)
(* whatever these are, and spares the caller's own core.                   *)
THEOREM SweepIsExact == Spec => []SweepExact
<1>1. Inputs => SweepExact
  <2> SUFFICES ASSUME Inputs, input.of = "ps"
               PROVE  P!KillsManagedOnly(input.procs, Lines, "13", input.exclude_pid)
    BY DEF SweepExact
  <2>1. input.procs \subseteq Listed
    BY DEF Inputs, EventInput, CmdInput, PsInput, PathInput, FileInput
  <2>2. input.procs \in SUBSET Processes(Tokens)
    BY <2>1, ListedAreProcesses
  <2> QED
    BY <2>2, SweepOf DEF Lines
<1> QED
  BY <1>1, InputsInvariance, PTL

(* The conflict check (classify, is_core_argv0, is_managed_core,           *)
(* is_tun_vpn) warns of nothing but cores that are not managed and VPNs,   *)
(* however many arguments the processes have, and misses none of them but  *)
(* one whose path has a blank in it.                                       *)
THEOREM ConflictsAreRight == Spec => []ConflictsRight
<1>1. Inputs => ConflictsRight
  <2> SUFFICES ASSUME Inputs, input.of = "ps"
               PROVE  P!WarnsRightly(input.procs, Lines)
    BY DEF ConflictsRight
  <2>1. input.procs \subseteq Listed
    BY DEF Inputs, EventInput, CmdInput, PsInput, PathInput, FileInput
  <2>2. input.procs \in SUBSET Processes(Tokens)
    BY <2>1, ListedAreProcesses
  <2> QED
    BY <2>2, ConflictsOf DEF Lines
<1> QED
  BY <1>1, InputsInvariance, PTL

(* Whatever characters a path is made of and however long it is, the root  *)
(* shell gets it as it is through both levels of quoting (shell_quote,     *)
(* applescript_escape, run_install, run_uninstall).                        *)
THEOREM InstallIsIntact == Spec => []InstallArgsIntact
<1>1. Inputs => InstallArgsIntact
  <2> SUFFICES ASSUME Inputs, input.of = "path" PROVE InstallArgsIntact
    BY DEF InstallArgsIntact
  <2> DEFINE S == Q!Special \cup {"x", "install.sh", "core", "501"} \cup Flags
             s == Append(input.path, "install.sh")
             c == <<"core">> \o input.path
             path == [script |-> s, supervisor |-> input.path, core |-> c]
             files == {path[f] : f \in input.there}
  <2>1. input.path \in Seq(Q!Special \cup {"x"})
    BY DEF Inputs, EventInput, CmdInput, PsInput, PathInput, FileInput
  <2>2. input.path \in Seq(S)
    BY <2>1, SeqMonotonic
  <2>3. "install.sh" \in S /\ "core" \in S /\ Q!Special \subseteq S /\ Flags \subseteq S
    OBVIOUS
  <2>4. "501" \notin Q!Special /\ Flags \cap Q!Special = {}
    BY Zenon DEF Flags, Q!Special, Q!Apostrophe, Q!Quote, Q!Backslash, Q!Blank
  <2>5. "501" \in S \ Q!Special /\ Flags \subseteq S \ Q!Special
    BY <2>3, <2>4
  <2> HIDE DEF S
  <2>6. s \in Seq(S)
    BY <2>2, <2>3, AppendProperties
  <2>7. c \in Seq(S)
    <3>1. <<"core">> \in Seq(S)
      BY <2>3
    <3> QED
      BY <2>2, <3>1, ConcatProperties
  <2> HIDE DEF s, c, files
  <2>8. Q!ArgumentsIntact(s, input.path, c, "501", files)
    BY <2>2, <2>3, <2>5, <2>6, <2>7, ArgumentsReach
  <2>9. Q!ArgumentsIntact(path.script, path.supervisor, path.core, "501", files)
    BY <2>8
  <2> QED
    BY <2>9, Zenon DEF InstallArgsIntact, files, s, c
<1> QED
  BY <1>1, InputsInvariance, PTL
=============================================================================
