-------------------------- MODULE HttpTargetProofs --------------------------
(***************************************************************************)
(* Proofs about start-up, routing, HTTP_URI_Parser and path_normalize: for *)
(* any configuration, any handlers, any targets and any paths.             *)
(***************************************************************************)
EXTENDS MCHttpTarget, SequenceTheorems, FiniteSetTheorems, WellFoundedInduction, TLAPS

\* The set of all characters, in a form that tells which ones the code names.
Char == STRING \cup {"/", "%", "&", "=", "+", " ", "x", "?"} \cup HexDigits

Text == Seq(Char)

\* ConcatAssociative for texts.
LEMMA ConcatTexts ==
    \A t, r, w \in Seq(Char) : (t \o r) \o w = t \o (r \o w)
<1> HIDE DEF Char
<1> QED
  BY ConcatAssociative

\* Induction in the form the proofs use: no set of naturals lacks a least one.
LEMMA LeastNatural ==
    ASSUME NEW T \in SUBSET Nat, T # {}
    PROVE  \E x \in T : \A y \in T : x <= y
<1>1. PICK x \in T : \A y \in T : ~(<<y, x>> \in OpToRel(<, Nat))
  BY NatLessThanWellFounded, WFMin, Zenon
<1>2. \A y \in T : <<y, x>> \in OpToRel(<, Nat) <=> y < x
  BY DEF OpToRel
<1>3. \A y \in T : ~(y < x)
  BY <1>1, <1>2, Zenon
<1>4. \A y \in T : x <= y
  BY <1>3
<1> QED
  BY <1>4

\* The same as a rule: a set with 0 that is closed under successor has them all.
LEMMA SetInduction ==
    ASSUME NEW Good, 0 \in Good, \A m \in Nat : m \in Good => m + 1 \in Good
    PROVE  \A m \in Nat : m \in Good
<1> DEFINE T == Nat \ Good
<1>1. ASSUME T # {} PROVE FALSE
  <2>1. PICK m \in T : \A y \in T : m <= y
    BY <1>1, LeastNatural
  <2>2. m - 1 \in Nat /\ ~(m <= m - 1) /\ (m - 1) + 1 = m
    BY <2>1
  <2>3. m - 1 \in Good
    BY <2>1, <2>2
  <2>4. m \in Good
    BY <2>2, <2>3
  <2> QED
    BY <2>1, <2>4
<1> QED
  BY <1>1

(***************************************************************************)
(* A recursion is well defined if the value at x uses only values at       *)
(* smaller ranks.  step maps a candidate for the recursive function to the *)
(* right-hand side of its definition, so the function is a fixed point.    *)
(* The lemma takes step as a function: its uses give one per definition.   *)
(***************************************************************************)
WellDefined(D, S, N, rank, step) ==
    /\ S # {}
    /\ N \in Nat
    /\ rank \in [D -> 0 .. N]
    /\ step \in [[D -> S] -> [D -> S]]
    /\ \A x \in D : \A f, g \in [D -> S] :
          (\A y \in D : rank[y] < rank[x] => f[y] = g[y]) => step[f][x] = step[g][x]

LEMMA RecursionExists ==
    ASSUME NEW D, NEW S, NEW N, NEW rank, NEW step, WellDefined(D, S, N, rank, step)
    PROVE  \E f \in [D -> S] : f = step[f]
<1> USE DEF WellDefined
<1> DEFINE Upto(m, f) == \A x \in D : rank[x] < m => f[x] = step[f][x]
           Good == {m \in Nat : \E f \in [D -> S] : Upto(m, f)}
<1>0. \A x \in D : rank[x] \in Nat /\ rank[x] < N + 1
  OBVIOUS
<1>1. 0 \in Good
  <2>1. PICK s \in S : TRUE
    OBVIOUS
  <2>2. [x \in D |-> s] \in [D -> S]
    OBVIOUS
  <2>3. Upto(0, [x \in D |-> s])
    BY <1>0
  <2> HIDE DEF Upto
  <2> QED
    BY <2>2, <2>3
<1>2. ASSUME NEW m \in Nat, m \in Good PROVE m + 1 \in Good
  <2>1. PICK f \in [D -> S] : Upto(m, f)
    BY <1>2
  <2> DEFINE g == [x \in D |-> IF rank[x] < m THEN f[x] ELSE step[f][x]]
  <2>2. g \in [D -> S]
    OBVIOUS
  <2>3. ASSUME NEW x \in D, rank[x] < m + 1
        PROVE  g[x] = step[g][x]
    <3>1. \A y \in D : rank[y] < rank[x] => g[y] = f[y]
      BY <1>0, <2>3
    <3>2. g[x] = step[f][x]
      BY <2>1
    <3> HIDE DEF g
    <3>3. step[g][x] = step[f][x]
      BY <2>2, <3>1
    <3> QED
      BY <3>2, <3>3
  <2>4. Upto(m + 1, g)
    BY <2>3
  <2> HIDE DEF g, Upto
  <2> QED
    BY <2>2, <2>4
<1>3. N + 1 \in Good
  <2> HIDE DEF Good
  <2> QED
    BY <1>1, <1>2, SetInduction
<1>4. PICK f \in [D -> S] : Upto(N + 1, f)
  BY <1>3
<1>5. \A x \in D : f[x] = step[f][x]
  BY <1>0, <1>4
<1>6. step[f] \in [D -> S]
  OBVIOUS
<1>7. f = step[f]
  BY <1>5, <1>6
<1> QED
  BY <1>7

\* Induction along the ranks of a recursion.
LEMMA RankInduction ==
    ASSUME NEW D, NEW N \in Nat, NEW rank \in [D -> 0 .. N], NEW Good,
           \A x \in D : (\A y \in D : rank[y] < rank[x] => y \in Good) => x \in Good
    PROVE  \A x \in D : x \in Good
<1> DEFINE T == {rank[x] : x \in D \ Good}
<1>0. \A x \in D : rank[x] \in Nat
  OBVIOUS
<1>1. ASSUME T # {} PROVE FALSE
  <2>1. T \in SUBSET Nat
    BY <1>0
  <2>2. PICK m \in T : \A k \in T : m <= k
    BY <1>1, <2>1, LeastNatural
  <2>3. PICK x \in D \ Good : rank[x] = m
    BY <2>2
  <2>4. ASSUME NEW y \in D, rank[y] < rank[x] PROVE y \in Good
    <3>1. rank[y] \in Nat /\ m \in Nat /\ ~(m <= rank[y])
      BY <1>0, <2>1, <2>2, <2>3, <2>4
    <3>2. rank[y] \notin T
      BY <2>2, <3>1, Zenon
    <3> QED
      BY <3>2, Zenon
  <2> QED
    BY <2>3, <2>4
<1> QED
  BY <1>1

-----------------------------------------------------------------------------
(***************************************************************************)
(* The types of percent-decoding: texts give texts.                        *)
(***************************************************************************)
LEMMA ByteIsCharacter == ASSUME NEW h, NEW l PROVE Byte(h, l) \in Char
<1> DEFINE known == {c \in DOMAIN Code : Code[c] = <<h, l>>}
<1>1. DOMAIN Code \subseteq Char
  <2>1. DOMAIN Code = {"/", "%", "&", "=", "+", " ", "x"}
    BY Zenon DEF Code
  <2> QED
    BY <2>1 DEF Char
<1>2. known # {} => (CHOOSE c \in known : TRUE) \in known
  BY Zenon
<1> HIDE DEF known
<1>3. known \subseteq DOMAIN Code
  BY DEF known
<1>4. Byte(h, l) = IF known = {} THEN "?" ELSE CHOOSE c \in known : TRUE
  BY Zenon DEF Byte, known
<1>5. "?" \in Char
  BY DEF Char
<1> QED
  BY <1>1, <1>2, <1>3, <1>4, <1>5

Decoded == [ok : BOOLEAN, res : Text]

\* One position of decode_percent: what it makes of src[i] and the rest.
DecodeStep(src, slash, space, f, i) ==
    CASE i > Len(src) -> [ok |-> TRUE, res |-> << >>]
      [] i <= Len(src) /\ src[i] = "%" ->
            IF i + 2 > Len(src) \/ ~({src[i + 1], src[i + 2]} \subseteq HexDigits)
            THEN [ok |-> FALSE, res |-> << >>]
            ELSE LET byte == Byte(src[i + 1], src[i + 2])
                 IN  [f[i + 3] EXCEPT !.res =
                        (IF byte = "/" /\ ~slash THEN SubSeq(src, i, i + 2)
                         ELSE <<byte>>) \o @]
      [] OTHER ->
            [f[i + 1] EXCEPT !.res =
                <<IF src[i] = "+" /\ space THEN " " ELSE src[i]>> \o @]

\* Prepending to a decoded text.
LEMMA PrependType ==
    ASSUME NEW r \in Decoded, NEW t \in Text
    PROVE  [r EXCEPT !.res = t \o @] \in Decoded
<1>1. r.res \in Text /\ r \in [ok : BOOLEAN, res : Text]
  BY DEF Decoded
<1>2. t \o r.res \in Text
  BY <1>1, ConcatProperties DEF Text
<1> DEFINE u == t \o r.res
<1>3. [r EXCEPT !.res = t \o @] = [r EXCEPT !.res = u]
  OBVIOUS
<1> HIDE DEF u
<1>4. [r EXCEPT !.res = u] \in [ok : BOOLEAN, res : Text]
  BY <1>1, <1>2 DEF u
<1> QED
  BY <1>3, <1>4 DEF Decoded

LEMMA DecodeStepType ==
    ASSUME NEW src \in Text, NEW slash, NEW space, NEW f, NEW i \in 1 .. Len(src) + 1,
           \A y \in 1 .. Len(src) + 1 : y > i => f[y] \in Decoded
    PROVE  DecodeStep(src, slash, space, f, i) \in Decoded
<1>0. Len(src) \in Nat /\ \A j \in 1 .. Len(src) : src[j] \in Char
  BY DEF Text
<1>1. CASE i > Len(src)
  <2>1. DecodeStep(src, slash, space, f, i) = [ok |-> TRUE, res |-> << >>]
    <3>1. ~(i <= Len(src))
      BY <1>0, <1>1
    <3> QED
      BY <1>1, <3>1, Zenon DEF DecodeStep
  <2> QED
    BY <2>1 DEF Decoded, Text
<1>2. CASE i <= Len(src) /\ src[i] = "%"
  <2>1. CASE i + 2 > Len(src) \/ ~({src[i + 1], src[i + 2]} \subseteq HexDigits)
    <3>1. DecodeStep(src, slash, space, f, i) = [ok |-> FALSE, res |-> << >>]
      BY <1>0, <1>2, <2>1 DEF DecodeStep
    <3> QED
      BY <3>1 DEF Decoded, Text
  <2>2. CASE ~(i + 2 > Len(src) \/ ~({src[i + 1], src[i + 2]} \subseteq HexDigits))
    <3> DEFINE byte == Byte(src[i + 1], src[i + 2])
               t == IF byte = "/" /\ ~slash THEN SubSeq(src, i, i + 2) ELSE <<byte>>
    <3>1. DecodeStep(src, slash, space, f, i) = [f[i + 3] EXCEPT !.res = t \o @]
      BY <1>0, <1>2, <2>2 DEF DecodeStep
    <3>2. f[i + 3] \in Decoded
      BY <1>0, <2>2
    <3>3. t \in Text
      <4>1. SubSeq(src, i, i + 2) \in Text
        BY <1>0, <2>2, SubSeqProperties DEF Text
      <4>2. <<byte>> \in Text
        BY ByteIsCharacter DEF Text
      <4> QED
        BY <4>1, <4>2
    <3> HIDE DEF t
    <3> QED
      BY <3>1, <3>2, <3>3, PrependType
  <2> QED
    BY <2>1, <2>2
<1>3. CASE i <= Len(src) /\ src[i] # "%"
  <2> DEFINE t == <<IF src[i] = "+" /\ space THEN " " ELSE src[i]>>
  <2>1. DecodeStep(src, slash, space, f, i) = [f[i + 1] EXCEPT !.res = t \o @]
    <3>1. ~(i > Len(src))
      BY <1>0, <1>3
    <3> QED
      BY <1>3, <3>1, Zenon DEF DecodeStep
  <2>2. f[i + 1] \in Decoded
    BY <1>0, <1>3
  <2>3. t \in Text
    <3> DEFINE c == IF src[i] = "+" /\ space THEN " " ELSE src[i]
    <3>1. src[i] \in Char
      BY <1>0, <1>3
    <3>2. " " \in Char
      BY DEF Char
    <3>3. c \in Char
      BY <3>1, <3>2, Zenon
    <3>4. t = <<c>>
      OBVIOUS
    <3> HIDE DEF c, t
    <3> QED
      BY <3>3, <3>4 DEF Text
  <2> HIDE DEF t
  <2> QED
    BY <2>1, <2>2, <2>3, PrependType
<1> QED
  BY <1>0, <1>1, <1>2, <1>3

LEMMA DecodeStepLocal ==
    ASSUME NEW src \in Text, NEW slash, NEW space, NEW f, NEW g, NEW i \in 1 .. Len(src) + 1,
           \A y \in 1 .. Len(src) + 1 : y > i => f[y] = g[y]
    PROVE  DecodeStep(src, slash, space, f, i) = DecodeStep(src, slash, space, g, i)
<1>0. Len(src) \in Nat
  BY DEF Text
<1>1. CASE i > Len(src)
  <2>1. ~(i <= Len(src))
    BY <1>0, <1>1
  <2> QED
    BY <1>1, <2>1, Zenon DEF DecodeStep
<1>2. CASE i <= Len(src) /\ i + 2 > Len(src)
  <2>1. f[i + 1] = g[i + 1]
    BY <1>0, <1>2
  <2> QED
    BY <1>0, <1>2, <2>1 DEF DecodeStep
<1>3. CASE i + 2 <= Len(src)
  <2>1. f[i + 1] = g[i + 1] /\ f[i + 3] = g[i + 3]
    BY <1>0, <1>3
  <2> QED
    BY <1>0, <1>3, <2>1 DEF DecodeStep
<1> QED
  BY <1>0, <1>1, <1>2, <1>3

\* The recursion of decode_percent, unfolded.
LEMMA DecodeDef ==
    ASSUME NEW src \in Text, NEW slash, NEW space
    PROVE  \E R : /\ decode_percent(src, slash, space) = R[1]
                  /\ R \in [1 .. Len(src) + 1 -> Decoded]
                  /\ \A i \in 1 .. Len(src) + 1 : R[i] = DecodeStep(src, slash, space, R, i)
<1> DEFINE D == 1 .. Len(src) + 1
           step == [f \in [D -> Decoded] |-> [i \in D |-> DecodeStep(src, slash, space, f, i)]]
           rank == [i \in D |-> Len(src) + 1 - i]
           R == CHOOSE r : r = [i \in D |-> DecodeStep(src, slash, space, r, i)]
<1>0. Len(src) \in Nat /\ Len(src) + 1 \in Nat /\ 1 \in D
  BY DEF Text
<1>1. decode_percent(src, slash, space) = R[1]
  BY DEF decode_percent, DecodeStep
<1>2. rank \in [D -> 0 .. Len(src) + 1] /\ \A x, y \in D : rank[y] < rank[x] <=> y > x
  BY <1>0
<1> HIDE DEF rank
<1>3. \E f \in [D -> Decoded] : f = step[f]
  <2>1. Decoded # {}
    <3>1. [ok |-> TRUE, res |-> << >>] \in Decoded
      BY DEF Decoded, Text
    <3> QED
      BY <3>1
  <2>2. \A f \in [D -> Decoded] : step[f] \in [D -> Decoded]
    BY DecodeStepType
  <2>3. \A x \in D : \A f, g \in [D -> Decoded] :
           (\A y \in D : rank[y] < rank[x] => f[y] = g[y]) => step[f][x] = step[g][x]
    BY <1>2, DecodeStepLocal
  <2>4. step \in [[D -> Decoded] -> [D -> Decoded]]
    BY <2>2
  <2> HIDE DEF D, step
  <2>5. WellDefined(D, Decoded, Len(src) + 1, rank, step)
    BY <1>0, <1>2, <2>1, <2>3, <2>4, Zenon DEF WellDefined
  <2> HIDE DEF R
  <2> QED
    BY <2>5, RecursionExists
<1>4. R = [i \in D |-> DecodeStep(src, slash, space, R, i)]
  BY <1>3, Zenon
<1> HIDE DEF R
<1>5. \A i \in D : R[i] \in Decoded
  <2> DEFINE Good == {i \in D : R[i] \in Decoded}
  <2>1. ASSUME NEW x \in D, \A y \in D : rank[y] < rank[x] => y \in Good PROVE x \in Good
    BY <1>2, <1>4, <2>1, DecodeStepType
  <2> HIDE DEF D, Good
  <2>2. \A x \in D : x \in Good
    BY <1>0, <1>2, <2>1, RankInduction
  <2> QED
    BY <2>2 DEF Good
<1> QED
  BY <1>1, <1>4, <1>5

LEMMA DecodeType ==
    ASSUME NEW src \in Text, NEW slash, NEW space
    PROVE  decode_percent(src, slash, space) \in Decoded
<1>1. PICK R : /\ decode_percent(src, slash, space) = R[1]
               /\ R \in [1 .. Len(src) + 1 -> Decoded]
  BY DecodeDef
<1>2. 1 \in 1 .. Len(src) + 1
  BY DEF Text
<1> QED
  BY <1>1, <1>2

LEMMA DecodePathType == ASSUME NEW src \in Text PROVE decode_path(src) \in Text
BY DecodeType DEF decode_path, Decoded

(***************************************************************************)
(* Splitting a path into segments and joining them again.                  *)
(***************************************************************************)
Segments == Seq(Text) \ {<< >>}

SplitStep(s, ch, f, n) ==
    IF n = 0 THEN << << >> >>
    ELSE LET parts == f[n - 1]
         IN  IF s[n] = ch THEN Append(parts, << >>)
             ELSE [parts EXCEPT ![Len(parts)] = Append(@, s[n])]

LEMMA SplitStepType ==
    ASSUME NEW s \in Text, NEW ch, NEW f, NEW n \in 0 .. Len(s),
           n # 0 => f[n - 1] \in Segments
    PROVE  SplitStep(s, ch, f, n) \in Segments
<1>0. << >> \in Text /\ << << >> >> \in Segments
  <2>1. << >> \in Text
    BY DEF Text
  <2> QED
    BY <2>1 DEF Segments
<1>1. CASE n = 0
  BY <1>0, <1>1, Zenon DEF SplitStep
<1>2. CASE n # 0
  <2> DEFINE parts == f[n - 1]
  <2>1. parts \in Seq(Text) /\ parts # << >> /\ s[n] \in Char
    BY <1>2 DEF Segments, Text
  <2>2. SplitStep(s, ch, f, n) = IF s[n] = ch THEN Append(parts, << >>)
                                 ELSE [parts EXCEPT ![Len(parts)] = Append(@, s[n])]
    BY <1>2, Zenon DEF SplitStep
  <2> HIDE DEF parts
  <2>3. Append(parts, << >>) \in Segments
    BY <1>0, <2>1, AppendProperties DEF Segments
  <2>4. [parts EXCEPT ![Len(parts)] = Append(@, s[n])] \in Segments
    <3> DEFINE m == Len(parts)
               last == parts[m]
               e == Append(last, s[n])
    <3>1. m \in 1 .. Len(parts) /\ last \in Text
      BY <2>1
    <3>2. e \in Text
      BY <2>1, <3>1, AppendProperties DEF Text
    <3>3. [parts EXCEPT ![Len(parts)] = Append(@, s[n])] = [parts EXCEPT ![m] = e]
      OBVIOUS
    <3> HIDE DEF e
    <3>4. [parts EXCEPT ![m] = e] \in Seq(Text) /\ Len([parts EXCEPT ![m] = e]) = Len(parts)
      BY <2>1, <3>1, <3>2, ExceptSeq
    <3>5. Len([parts EXCEPT ![m] = e]) # 0
      BY <2>1, <3>4
    <3>6. [parts EXCEPT ![m] = e] # << >>
      BY <3>4, <3>5
    <3> QED
      BY <3>3, <3>4, <3>6 DEF Segments
  <2> QED
    BY <2>2, <2>3, <2>4, Zenon
<1> QED
  BY <1>1, <1>2

\* The recursion of Split, unfolded.
LEMMA SplitDef ==
    ASSUME NEW s \in Text, NEW ch
    PROVE  \E R : /\ Split(s, ch) = R[Len(s)]
                  /\ R \in [0 .. Len(s) -> Segments]
                  /\ \A n \in 0 .. Len(s) : R[n] = SplitStep(s, ch, R, n)
<1> DEFINE D == 0 .. Len(s)
           step == [f \in [D -> Segments] |-> [n \in D |-> SplitStep(s, ch, f, n)]]
           rank == [n \in D |-> n]
           R == CHOOSE r : r = [n \in D |-> SplitStep(s, ch, r, n)]
<1>0. Len(s) \in Nat /\ Len(s) \in D
  BY DEF Text
<1>1. Split(s, ch) = R[Len(s)]
  BY DEF Split, SplitStep
<1>2. rank \in [D -> 0 .. Len(s)] /\ \A n \in D : n # 0 => n - 1 \in D /\ rank[n - 1] < rank[n]
  BY <1>0
<1> HIDE DEF rank
<1>3. \E f \in [D -> Segments] : f = step[f]
  <2>1. Segments # {}
    <3>1. << << >> >> \in Segments
      BY DEF Segments, Text
    <3> QED
      BY <3>1
  <2>2. \A f \in [D -> Segments] : step[f] \in [D -> Segments]
    BY <1>2, SplitStepType
  <2>3. \A x \in D : \A f, g \in [D -> Segments] :
           (\A y \in D : rank[y] < rank[x] => f[y] = g[y]) => step[f][x] = step[g][x]
    <3>1. ASSUME NEW x \in D, NEW f \in [D -> Segments], NEW g \in [D -> Segments],
                 \A y \in D : rank[y] < rank[x] => f[y] = g[y]
          PROVE  SplitStep(s, ch, f, x) = SplitStep(s, ch, g, x)
      <4>1. CASE x = 0
        BY <4>1, Zenon DEF SplitStep
      <4>2. CASE x # 0
        <5>1. f[x - 1] = g[x - 1]
          BY <1>2, <3>1, <4>2
        <5> QED
          BY <5>1, Zenon DEF SplitStep
      <4> QED
        BY <4>1, <4>2
    <3> QED
      BY <3>1
  <2>4. step \in [[D -> Segments] -> [D -> Segments]]
    BY <2>2
  <2> HIDE DEF D, step
  <2>5. WellDefined(D, Segments, Len(s), rank, step)
    BY <1>0, <1>2, <2>1, <2>3, <2>4, Zenon DEF WellDefined
  <2> HIDE DEF R
  <2> QED
    BY <2>5, RecursionExists
<1>4. R = [n \in D |-> SplitStep(s, ch, R, n)]
  BY <1>3, Zenon
<1> HIDE DEF R
<1>5. \A n \in D : R[n] \in Segments
  <2> DEFINE Good == {n \in D : R[n] \in Segments}
  <2>1. ASSUME NEW x \in D, \A y \in D : rank[y] < rank[x] => y \in Good PROVE x \in Good
    BY <1>2, <1>4, <2>1, SplitStepType
  <2> HIDE DEF D, Good
  <2>2. \A x \in D : x \in Good
    BY <1>0, <1>2, <2>1, RankInduction
  <2> QED
    BY <2>2 DEF Good
<1> QED
  BY <1>1, <1>4, <1>5

LEMMA SplitType == ASSUME NEW s \in Text, NEW ch PROVE Split(s, ch) \in Segments
<1>1. PICK R : Split(s, ch) = R[Len(s)] /\ R \in [0 .. Len(s) -> Segments]
  BY SplitDef
<1>2. Len(s) \in 0 .. Len(s)
  BY DEF Text
<1> QED
  BY <1>1, <1>2

JoinStep(parts, ch, f, n) ==
    IF n = 1 THEN parts[1] ELSE f[n - 1] \o <<ch>> \o parts[n]

LEMMA JoinStepType ==
    ASSUME NEW parts \in Segments, NEW ch \in Char, NEW f, NEW n \in 1 .. Len(parts),
           n # 1 => f[n - 1] \in Text
    PROVE  JoinStep(parts, ch, f, n) \in Text
<1>0. parts[n] \in Text
  BY DEF Segments
<1>1. CASE n = 1
  BY <1>0, <1>1 DEF JoinStep
<1>2. CASE n # 1
  <2> DEFINE a == f[n - 1]
             b == parts[n]
  <2>1. JoinStep(parts, ch, f, n) = a \o <<ch>> \o b
    BY <1>2, Zenon DEF JoinStep
  <2>2. a \in Seq(Char) /\ b \in Seq(Char) /\ <<ch>> \in Seq(Char)
    BY <1>0, <1>2 DEF Text
  <2> HIDE DEF a, b
  <2>3. a \o <<ch>> \o b \in Seq(Char)
    BY <2>2
  <2> QED
    BY <2>1, <2>3 DEF Text
<1> QED
  BY <1>1, <1>2

\* The recursion of Join, unfolded.
LEMMA JoinDef ==
    ASSUME NEW parts \in Segments, NEW ch \in Char
    PROVE  \E R : /\ Join(parts, ch) = R[Len(parts)]
                  /\ R \in [1 .. Len(parts) -> Text]
                  /\ \A n \in 1 .. Len(parts) : R[n] = JoinStep(parts, ch, R, n)
<1> DEFINE D == 1 .. Len(parts)
           step == [f \in [D -> Text] |-> [n \in D |-> JoinStep(parts, ch, f, n)]]
           rank == [n \in D |-> n]
           R == CHOOSE r : r = [n \in D |-> JoinStep(parts, ch, r, n)]
<1>0. Len(parts) \in Nat /\ Len(parts) \in D
  BY DEF Segments
<1>1. Join(parts, ch) = R[Len(parts)]
  BY DEF Join, JoinStep
<1>2. rank \in [D -> 0 .. Len(parts)] /\ \A n \in D : n # 1 => n - 1 \in D /\ rank[n - 1] < rank[n]
  BY <1>0
<1> HIDE DEF rank
<1>3. \E f \in [D -> Text] : f = step[f]
  <2>1. Text # {}
    <3>1. << >> \in Text
      BY DEF Text
    <3> QED
      BY <3>1
  <2>2. \A f \in [D -> Text] : step[f] \in [D -> Text]
    BY <1>2, JoinStepType
  <2>3. \A x \in D : \A f, g \in [D -> Text] :
           (\A y \in D : rank[y] < rank[x] => f[y] = g[y]) => step[f][x] = step[g][x]
    <3>1. ASSUME NEW x \in D, NEW f \in [D -> Text], NEW g \in [D -> Text],
                 \A y \in D : rank[y] < rank[x] => f[y] = g[y]
          PROVE  JoinStep(parts, ch, f, x) = JoinStep(parts, ch, g, x)
      <4>1. CASE x = 1
        BY <4>1, Zenon DEF JoinStep
      <4>2. CASE x # 1
        <5>1. f[x - 1] = g[x - 1]
          BY <1>2, <3>1, <4>2
        <5> QED
          BY <5>1, Zenon DEF JoinStep
      <4> QED
        BY <4>1, <4>2
    <3> QED
      BY <3>1
  <2>4. step \in [[D -> Text] -> [D -> Text]]
    BY <2>2
  <2> HIDE DEF D, step
  <2>5. WellDefined(D, Text, Len(parts), rank, step)
    BY <1>0, <1>2, <2>1, <2>3, <2>4, Zenon DEF WellDefined
  <2> HIDE DEF R
  <2> QED
    BY <2>5, RecursionExists
<1>4. R = [n \in D |-> JoinStep(parts, ch, R, n)]
  BY <1>3, Zenon
<1> HIDE DEF R
<1>5. \A n \in D : R[n] \in Text
  <2> DEFINE Good == {n \in D : R[n] \in Text}
  <2>1. ASSUME NEW x \in D, \A y \in D : rank[y] < rank[x] => y \in Good PROVE x \in Good
    BY <1>2, <1>4, <2>1, JoinStepType
  <2> HIDE DEF D, Good
  <2>2. \A x \in D : x \in Good
    BY <1>0, <1>2, <2>1, RankInduction
  <2> QED
    BY <2>2 DEF Good
<1> QED
  BY <1>1, <1>4, <1>5

LEMMA JoinType ==
    ASSUME NEW parts \in Segments, NEW ch \in Char
    PROVE  Join(parts, ch) \in Text
<1>1. PICK R : Join(parts, ch) = R[Len(parts)] /\ R \in [1 .. Len(parts) -> Text]
  BY JoinDef
<1>2. Len(parts) \in 1 .. Len(parts)
  BY DEF Segments
<1> QED
  BY <1>1, <1>2

LEMMA ParsePathType == ASSUME NEW raw \in Text PROVE parse_path(raw) \in Text
<1> DEFINE segments == Split(raw, "/")
           decoded == [i \in DOMAIN segments |-> decode_path(segments[i])]
<1>1. segments \in Segments
  BY SplitType
<1>2. parse_path(raw) = Join(decoded, "/")
  BY DEF parse_path
<1> HIDE DEF segments
<1>3. DOMAIN segments = 1 .. Len(segments) /\ Len(segments) \in Nat \ {0}
  BY <1>1 DEF Segments
<1>4. \A i \in 1 .. Len(segments) : decode_path(segments[i]) \in Text
  BY <1>1, DecodePathType DEF Segments
<1>5. decoded \in Seq(Text) /\ Len(decoded) = Len(segments)
  BY <1>3, <1>4
<1>6. decoded # << >>
  BY <1>3, <1>5
<1>7. "/" \in Char
  BY DEF Char
<1> QED
  BY <1>2, <1>5, <1>6, <1>7, JoinType DEF Segments

\* The position of the first ch, or one past the end.
LEMMA FindProperties ==
    ASSUME NEW s \in Text, NEW ch \in Char
    PROVE  /\ Find(s, ch) \in 1 .. Len(s) + 1
           /\ \A i \in 1 .. Find(s, ch) - 1 : s[i] # ch
           /\ Find(s, ch) <= Len(s) => s[Find(s, ch)] = ch
<1> DEFINE t == Append(s, ch)
           I == {i \in 1 .. Len(t) : t[i] = ch}
<1>1. t \in Text /\ Len(t) = Len(s) + 1 /\ Len(s) \in Nat /\ t[Len(s) + 1] = ch
  BY AppendProperties DEF Text
<1>2. Find(s, ch) = IF I # {} THEN Min(I) ELSE 0
  BY DEF Find, SelectInSeq
<1> HIDE DEF t
<1>3. Len(s) + 1 \in I /\ I \in SUBSET Nat
  BY <1>1
<1>4. \E x \in I : \A y \in I : x <= y
  BY <1>3, LeastNatural
<1>5. Min(I) \in I /\ \A y \in I : Min(I) <= y
  <2> HIDE DEF I
  <2> QED
    BY <1>4, Zenon DEF Min
<1>6. Find(s, ch) = Min(I)
  BY <1>2, <1>3
<1>7. \A i \in 1 .. Len(s) : t[i] = s[i]
  BY AppendProperties DEF t, Text
<1> DEFINE m == Min(I)
<1> HIDE DEF m
<1>8. m \in 1 .. Len(s) + 1 /\ t[m] = ch
  BY <1>1, <1>5 DEF m
<1>9. ASSUME NEW i \in 1 .. m - 1 PROVE s[i] # ch
  <2>1. i \in 1 .. Len(s) /\ i \in 1 .. Len(t) /\ ~(m <= i)
    BY <1>1, <1>8
  <2>2. i \notin I
    <3> HIDE DEF I
    <3> QED
      BY <1>5, <2>1, Zenon DEF m
  <2> QED
    BY <1>7, <2>1, <2>2
<1>10. m <= Len(s) => s[m] = ch
  BY <1>1, <1>7, <1>8
<1> QED
  BY <1>6, <1>8, <1>9, <1>10 DEF m

LEMMA DecodedPathIsText == ASSUME NEW tgt \in Text PROVE parse(tgt).decoded_path \in Text
<1> DEFINE q == Find(tgt, "?")
           raw == SubSeq(tgt, 1, q - 1)
<1>1. "?" \in Char
  BY DEF Char
<1>2. q \in 1 .. Len(tgt) + 1 /\ Len(tgt) \in Nat
  BY <1>1, FindProperties DEF Text
<1>3. parse(tgt).decoded_path = parse_path(raw)
  BY DEF parse
<1> HIDE DEF q
<1>4. raw \in Text
  <2>1. \A i \in 1 .. q - 1 : tgt[i] \in Char
    BY <1>2 DEF Text
  <2>2. 1 \in Int /\ q - 1 \in Int
    BY <1>2
  <2> QED
    BY <2>1, <2>2, SubSeqProperties DEF Text
<1> QED
  BY <1>3, <1>4, ParsePathType

-----------------------------------------------------------------------------
(***************************************************************************)
(* Routing.  find_handler looks at the prefixes of the path that end where *)
(* a segment ends (Stops), longest first.                                  *)
(***************************************************************************)
LEMMA GreatestNatural ==
    ASSUME NEW n \in Nat, NEW T \in SUBSET (0 .. n), T # {}
    PROVE  \E x \in T : \A y \in T : x >= y
<1> DEFINE U == {n - y : y \in T}
<1>1. U \in SUBSET Nat /\ U # {}
  <2>1. \A y \in T : y \in Nat /\ n - y \in Nat
    OBVIOUS
  <2>2. U \subseteq Nat
    BY <2>1
  <2>3. U # {}
    OBVIOUS
  <2> QED
    BY <2>2, <2>3
<1>2. PICK u \in U : \A v \in U : u <= v
  BY <1>1, LeastNatural
<1>3. PICK x \in T : u = n - x
  BY <1>2
<1>4. ASSUME NEW y \in T PROVE x >= y
  <2>1. n - y \in U
    OBVIOUS
  <2>2. n - x <= n - y
    BY <1>2, <1>3, <2>1
  <2>3. x \in Nat /\ y \in Nat
    OBVIOUS
  <2> QED
    BY <2>2, <2>3
<1> QED
  BY <1>4

\* rfind on a path that starts with a slash finds the last one up to len.
LEMMA LastSlashProperties ==
    ASSUME NEW p \in Text, NEW len \in 1 .. Len(p), p[1] = "/"
    PROVE  /\ LastSlash(p, len) \in 1 .. len
           /\ p[LastSlash(p, len)] = "/"
           /\ \A j \in 1 .. len : p[j] = "/" => j <= LastSlash(p, len)
<1> DEFINE t == SubSeq(p, 1, len)
           I == {i \in 1 .. Len(t) : t[i] = "/"}
<1>0. len \in Nat /\ 1 \in 1 .. len
  BY DEF Text
<1>1. Len(t) = len /\ \A i \in 1 .. len : t[i] = p[i]
  <2>1. \A i \in 1 .. len : p[i] \in Char
    BY DEF Text
  <2>2. /\ Len(t) = IF 1 <= len THEN len - 1 + 1 ELSE 0
        /\ \A i \in 1 .. len - 1 + 1 : t[i] = p[1 + i - 1]
    BY <1>0, <2>1, SubSeqProperties
  <2> HIDE DEF t
  <2>3. len - 1 + 1 = len /\ 1 <= len
    BY <1>0
  <2>4. \A i \in 1 .. len : 1 + i - 1 = i
    BY <1>0
  <2> QED
    BY <2>2, <2>3, <2>4
<1>2. LastSlash(p, len) = IF I # {} THEN Max(I) ELSE 0
  BY DEF LastSlash, SelectLastInSeq
<1> HIDE DEF t
<1>3. 1 \in I /\ I \in SUBSET (0 .. len)
  BY <1>0, <1>1
<1>4. \E x \in I : \A y \in I : x >= y
  BY <1>0, <1>3, GreatestNatural
<1>5. Max(I) \in I /\ \A y \in I : Max(I) >= y
  <2> HIDE DEF I
  <2> QED
    BY <1>4, Zenon DEF Max
<1>6. LastSlash(p, len) = Max(I)
  BY <1>2, <1>3
<1> DEFINE s == LastSlash(p, len)
<1>7. s \in I /\ \A y \in I : s >= y
  BY <1>5, <1>6
<1> HIDE DEF s
<1>8. s \in 1 .. len /\ p[s] = "/"
  BY <1>1, <1>7
<1>9. ASSUME NEW j \in 1 .. len, p[j] = "/" PROVE j <= s
  <2>1. j \in I
    BY <1>1, <1>9
  <2> QED
    BY <1>7, <1>8, <2>1
<1> QED
  BY <1>8, <1>9 DEF s

Stops(p, len) == {k \in 1 .. len : k = len \/ k = 1 \/ p[k + 1] = "/"}

NextLen(p, len) == IF LastSlash(p, len) = 1 THEN 1 ELSE LastSlash(p, len) - 1

\* One round of the loop moves to the next prefix that ends with a segment.
LEMMA NextStop ==
    ASSUME NEW p \in Text, NEW len \in 1 .. Len(p), p[1] = "/", len # 1
    PROVE  /\ NextLen(p, len) \in 1 .. len - 1
           /\ Stops(p, len) = Stops(p, NextLen(p, len)) \cup {len}
<1> DEFINE s == LastSlash(p, len)
           m == NextLen(p, len)
<1>0. len \in Nat /\ Len(p) \in Nat
  BY DEF Text
<1>1. /\ s \in 1 .. len /\ p[s] = "/"
      /\ \A j \in 1 .. len : p[j] = "/" => j <= s
  BY LastSlashProperties
<1>2. m = IF s = 1 THEN 1 ELSE s - 1
  BY DEF NextLen
<1> HIDE DEF s, m
<1>3. m \in 1 .. len - 1
  BY <1>0, <1>1, <1>2
<1>4. ASSUME NEW k \in Stops(p, len), k # len PROVE k \in Stops(p, m)
  <2>1. k \in 1 .. len /\ (k = 1 \/ p[k + 1] = "/")
    BY <1>4 DEF Stops
  <2>2. CASE k = 1
    BY <1>3, <2>2 DEF Stops
  <2>3. CASE p[k + 1] = "/"
    <3>1. k + 1 \in 1 .. len
      BY <1>0, <1>4, <2>1
    <3>2. k + 1 <= s
      BY <1>1, <2>3, <3>1
    <3>3. k \in 1 .. m
      BY <1>1, <1>2, <2>1, <3>2
    <3> QED
      BY <2>3, <3>3 DEF Stops
  <2> QED
    BY <2>1, <2>2, <2>3
<1>5. ASSUME NEW k \in Stops(p, m) PROVE k \in Stops(p, len)
  <2>1. k \in 1 .. m /\ (k = m \/ k = 1 \/ p[k + 1] = "/")
    BY <1>5 DEF Stops
  <2>2. k \in 1 .. len
    BY <1>0, <1>3, <2>1
  <2>3. m = 1 \/ p[m + 1] = "/"
    <3>1. CASE s = 1
      BY <1>2, <3>1
    <3>2. CASE s # 1
      <4>1. m + 1 = s
        BY <1>1, <1>2, <3>2
      <4> QED
        BY <1>1, <4>1
    <3> QED
      BY <3>1, <3>2
  <2> QED
    BY <2>1, <2>2, <2>3 DEF Stops
<1>6. len \in Stops(p, len)
  BY <1>0 DEF Stops
<1> QED
  BY <1>3, <1>4, <1>5, <1>6 DEF m

RoutesOK ==
    /\ DOMAIN routes \subseteq Text
    /\ \A r \in DOMAIN routes : routes[r] \in Registered

Hits(p, len) == {k \in Stops(p, len) : SubSeq(p, 1, k) \in DOMAIN routes}

\* x is what the longest of those prefixes leads to.
Answers(p, len, x) ==
    \/ Hits(p, len) = {} /\ x = None
    \/ \E k \in Hits(p, len) :
          (\A j \in Hits(p, len) : j <= k) /\ x = routes[SubSeq(p, 1, k)]

RouteStep(p, f, len) ==
    LET key == SubSeq(p, 1, len)
        s   == LastSlash(p, len)
    IN  IF key \in DOMAIN routes THEN routes[key]
        ELSE IF len = 1 \/ s = 0 THEN None
        ELSE f[IF s = 1 THEN 1 ELSE s - 1]

\* The three ways through one round of the loop.
LEMMA RouteStepCases ==
    ASSUME NEW p \in Text, NEW f, NEW len \in 1 .. Len(p), p[1] = "/"
    PROVE  /\ SubSeq(p, 1, len) \in DOMAIN routes =>
                 RouteStep(p, f, len) = routes[SubSeq(p, 1, len)]
           /\ SubSeq(p, 1, len) \notin DOMAIN routes /\ len = 1 =>
                 RouteStep(p, f, len) = None
           /\ SubSeq(p, 1, len) \notin DOMAIN routes /\ len # 1 =>
                 RouteStep(p, f, len) = f[NextLen(p, len)]
<1>1. LastSlash(p, len) # 0
  <2>1. LastSlash(p, len) \in 1 .. len
    BY LastSlashProperties
  <2> QED
    BY <2>1
<1> QED
  BY <1>1, Zenon DEF RouteStep, NextLen

LEMMA RouteStepAnswers ==
    ASSUME RoutesOK, NEW p \in Text, NEW f, NEW len \in 1 .. Len(p), p[1] = "/",
           len # 1 => Answers(p, NextLen(p, len), f[NextLen(p, len)])
    PROVE  Answers(p, len, RouteStep(p, f, len))
<1>0. len \in Nat /\ \A k \in Stops(p, len) : k \in Nat /\ k <= len
  BY DEF Stops, Text
<1>1. CASE SubSeq(p, 1, len) \in DOMAIN routes
  <2>1. RouteStep(p, f, len) = routes[SubSeq(p, 1, len)]
    BY <1>1, RouteStepCases
  <2>2. len \in Hits(p, len)
    BY <1>0, <1>1 DEF Hits, Stops
  <2>3. \A j \in Hits(p, len) : j <= len
    BY <1>0 DEF Hits
  <2> QED
    BY <2>1, <2>2, <2>3, Zenon DEF Answers
<1>2. CASE SubSeq(p, 1, len) \notin DOMAIN routes /\ len = 1
  <2>1. RouteStep(p, f, len) = None
    BY <1>2, RouteStepCases
  <2>2. Stops(p, len) = {len}
    BY <1>2 DEF Stops
  <2>3. Hits(p, len) = {}
    BY <1>2, <2>2 DEF Hits
  <2> QED
    BY <2>1, <2>3 DEF Answers
<1>3. CASE SubSeq(p, 1, len) \notin DOMAIN routes /\ len # 1
  <2> DEFINE m == NextLen(p, len)
  <2>1. RouteStep(p, f, len) = f[m]
    BY <1>3, RouteStepCases
  <2>2. Stops(p, len) = Stops(p, m) \cup {len}
    BY <1>3, NextStop
  <2> HIDE DEF m
  <2>3. Hits(p, len) = Hits(p, m)
    BY <1>3, <2>2 DEF Hits
  <2>4. Answers(p, m, f[m])
    BY <1>3 DEF m
  <2> QED
    BY <2>1, <2>3, <2>4 DEF Answers
<1> QED
  BY <1>1, <1>2, <1>3

\* The answers are names of handlers or None.
LEMMA AnswersType ==
    ASSUME RoutesOK, NEW p, NEW len, NEW x, Answers(p, len, x)
    PROVE  x \in Registered \cup {None}
BY DEF Answers, RoutesOK, Hits

LEMMA FindHandlerAnswers ==
    ASSUME RoutesOK, NEW p \in Text, p # << >>, p[1] = "/"
    PROVE  Answers(p, Len(p), find_handler(p))
<1> DEFINE D == 1 .. Len(p)
           S == Registered \cup {None}
           step == [f \in [D -> S] |-> [n \in D |-> RouteStep(p, f, n)]]
           rank == [n \in D |-> n]
           R == CHOOSE r : r = [n \in D |-> RouteStep(p, r, n)]
<1>0. Len(p) \in Nat /\ Len(p) \in D
  BY DEF Text
<1>1. find_handler(p) = R[Len(p)]
  <2>1. ~(p = << >> \/ p[1] # "/")
    OBVIOUS
  <2> QED
    BY <2>1, Zenon DEF find_handler, RouteStep
<1>2. /\ rank \in [D -> 0 .. Len(p)]
      /\ \A n \in D : n # 1 => NextLen(p, n) \in D /\ rank[NextLen(p, n)] < rank[n]
  <2>1. ASSUME NEW n \in D, n # 1 PROVE NextLen(p, n) \in D /\ rank[NextLen(p, n)] < rank[n]
    <3>1. NextLen(p, n) \in 1 .. n - 1
      BY <2>1, NextStop
    <3> QED
      BY <1>0, <3>1
  <2>2. rank \in [D -> 0 .. Len(p)]
    BY <1>0
  <2> QED
    BY <2>1, <2>2
<1> HIDE DEF rank
<1>3. \E f \in [D -> S] : f = step[f]
  <2>1. S # {}
    OBVIOUS
  <2>2. ASSUME NEW f \in [D -> S], NEW n \in D PROVE RouteStep(p, f, n) \in S
    <3>1. CASE SubSeq(p, 1, n) \in DOMAIN routes
      BY <3>1, RouteStepCases DEF RoutesOK
    <3>2. CASE SubSeq(p, 1, n) \notin DOMAIN routes /\ n = 1
      BY <3>2, RouteStepCases
    <3>3. CASE SubSeq(p, 1, n) \notin DOMAIN routes /\ n # 1
      <4>1. f[NextLen(p, n)] \in S
        BY <1>2, <3>3
      <4> QED
        BY <3>3, <4>1, RouteStepCases
    <3> QED
      BY <3>1, <3>2, <3>3
  <2>3. \A x \in D : \A f, g \in [D -> S] :
           (\A y \in D : rank[y] < rank[x] => f[y] = g[y]) => step[f][x] = step[g][x]
    <3>1. ASSUME NEW x \in D, NEW f \in [D -> S], NEW g \in [D -> S],
                 \A y \in D : rank[y] < rank[x] => f[y] = g[y]
          PROVE  RouteStep(p, f, x) = RouteStep(p, g, x)
      <4>1. x # 1 => f[NextLen(p, x)] = g[NextLen(p, x)]
        BY <1>2, <3>1
      <4> QED
        BY <4>1, RouteStepCases
    <3> QED
      BY <3>1
  <2>4. step \in [[D -> S] -> [D -> S]]
    BY <2>2
  <2> HIDE DEF D, S, step
  <2>5. WellDefined(D, S, Len(p), rank, step)
    BY <1>0, <1>2, <2>1, <2>3, <2>4, Zenon DEF WellDefined
  <2> HIDE DEF R
  <2> QED
    BY <2>5, RecursionExists
<1>4. R = [n \in D |-> RouteStep(p, R, n)]
  BY <1>3, Zenon
<1> HIDE DEF R
<1>5. \A n \in D : Answers(p, n, R[n])
  <2> DEFINE Good == {n \in D : Answers(p, n, R[n])}
  <2>1. ASSUME NEW x \in D, \A y \in D : rank[y] < rank[x] => y \in Good PROVE x \in Good
    <3>1. x # 1 => Answers(p, NextLen(p, x), R[NextLen(p, x)])
      BY <1>2, <2>1
    <3>2. Answers(p, x, RouteStep(p, R, x))
      BY <3>1, RouteStepAnswers
    <3> QED
      BY <1>4, <3>2
  <2> HIDE DEF D, Good
  <2>2. \A x \in D : x \in Good
    BY <1>0, <1>2, <2>1, RankInduction
  <2> QED
    BY <2>2 DEF Good
<1> QED
  BY <1>0, <1>1, <1>5

(***************************************************************************)
(* The prefixes at the stops are what the routes cover.                    *)
(***************************************************************************)
LEMMA PrefixProperties ==
    ASSUME NEW p \in Text, NEW k \in 1 .. Len(p)
    PROVE  /\ SubSeq(p, 1, k) \in Text
           /\ Len(SubSeq(p, 1, k)) = k
           /\ \A i \in 1 .. k : SubSeq(p, 1, k)[i] = p[i]
<1>0. k \in Nat /\ Len(p) \in Nat
  BY DEF Text
<1>1. \A i \in 1 .. k : p[i] \in Char
  BY <1>0 DEF Text
<1>2. /\ SubSeq(p, 1, k) \in Seq(Char)
      /\ Len(SubSeq(p, 1, k)) = IF 1 <= k THEN k - 1 + 1 ELSE 0
      /\ \A i \in 1 .. k - 1 + 1 : SubSeq(p, 1, k)[i] = p[1 + i - 1]
  BY <1>0, <1>1, SubSeqProperties
<1> DEFINE t == SubSeq(p, 1, k)
<1> HIDE DEF t
<1>3. k - 1 + 1 = k /\ 1 <= k /\ \A i \in 1 .. k : 1 + i - 1 = i
  BY <1>0
<1> QED
  BY <1>2, <1>3 DEF Text

LEMMA CoversIsStop ==
    ASSUME NEW p \in Text, NEW r \in Text
    PROVE  Covers(r, p) <=> /\ p # << >> /\ p[1] = "/"
                            /\ Len(r) \in Stops(p, Len(p))
                            /\ r = SubSeq(p, 1, Len(r))
<1>0. Len(p) \in Nat /\ Len(r) \in Nat /\ SubSeq(r, 1, Len(r)) = r
  BY SubSeqFull DEF Text
<1>1. ASSUME Covers(r, p)
      PROVE  /\ p # << >> /\ p[1] = "/"
             /\ Len(r) \in Stops(p, Len(p))
             /\ r = SubSeq(p, 1, Len(r))
  <2>1. /\ r # << >> /\ r[1] = "/" /\ Len(r) <= Len(p)
        /\ r = SubSeq(p, 1, Len(r))
        /\ r = p \/ r = <<"/">> \/ p[Len(r) + 1] = "/"
    BY <1>0, <1>1 DEF Covers, IsPrefix
  <2>2. Len(r) \in 1 .. Len(p)
    BY <1>0, <2>1 DEF Text
  <2>3. p[1] = "/"
    <3> DEFINE k == Len(r)
    <3>1. \A i \in 1 .. k : SubSeq(p, 1, k)[i] = p[i]
      BY <2>2, PrefixProperties
    <3>2. 1 \in 1 .. k
      BY <2>2
    <3> QED
      BY <2>1, <3>1, <3>2
  <2>4. p # << >>
    BY <1>0, <2>2
  <2>5. Len(r) = Len(p) \/ Len(r) = 1 \/ p[Len(r) + 1] = "/"
    <3>1. r = <<"/">> => Len(r) = 1
      OBVIOUS
    <3> QED
      BY <2>1, <3>1
  <2> QED
    BY <2>1, <2>2, <2>3, <2>4, <2>5 DEF Stops
<1>2. ASSUME p # << >>, p[1] = "/", Len(r) \in Stops(p, Len(p)), r = SubSeq(p, 1, Len(r))
      PROVE  Covers(r, p)
  <2> DEFINE k == Len(r)
  <2>1. k \in 1 .. Len(p) /\ (k = Len(p) \/ k = 1 \/ p[k + 1] = "/")
    BY <1>2 DEF Stops
  <2>2. \A i \in 1 .. k : r[i] = p[i]
    BY <1>2, <2>1, PrefixProperties
  <2>3. r # << >> /\ r[1] = "/" /\ k <= Len(p)
    <3>1. 1 \in 1 .. k
      BY <2>1
    <3>2. r[1] = "/"
      BY <1>2, <2>2, <3>1
    <3>3. Len(r) # 0
      BY <2>1
    <3> QED
      BY <1>0, <2>1, <3>2, <3>3
  <2>4. k = Len(p) => r = p
    BY <1>2, SubSeqFull DEF Text
  <2>5. k = 1 => r = <<"/">>
    <3>1. ASSUME k = 1 PROVE r = <<"/">>
      <4>1. <<"/">> \in Seq(Char) /\ Len(<<"/">>) = 1 /\ <<"/">>[1] = "/"
        BY DEF Char
      <4>2. \A i \in 1 .. Len(r) : r[i] = <<"/">>[i]
        BY <2>3, <3>1, <4>1
      <4>3. Len(r) = Len(<<"/">>) /\ r \in Seq(Char)
        BY <3>1, <4>1 DEF Text
      <4> QED
        BY <4>1, <4>2, <4>3, SeqEqual
    <3> QED
      BY <3>1
  <2>6. IsPrefix(r, p)
    BY <1>0, <1>2, <2>3 DEF IsPrefix
  <2> QED
    BY <2>1, <2>3, <2>4, <2>5, <2>6 DEF Covers
<1> QED
  BY <1>1, <1>2

\* What find_handler answers, in terms of the routes that cover the path.
LEMMA FindHandlerIsLongest ==
    ASSUME RoutesOK, NEW p \in Text
    PROVE  \/ Covering(p) = {} /\ find_handler(p) = None
           \/ \E r \in Covering(p) :
                 /\ \A o \in Covering(p) : Len(o) <= Len(r)
                 /\ find_handler(p) = routes[r]
<1>1. CASE p = << >> \/ p[1] # "/"
  <2>1. find_handler(p) = None
    BY <1>1, Zenon DEF find_handler
  <2>2. Covering(p) = {}
    BY <1>1, CoversIsStop DEF Covering, RoutesOK
  <2> QED
    BY <2>1, <2>2
<1>2. CASE p # << >> /\ p[1] = "/"
  <2> DEFINE n == Len(p)
             x == find_handler(p)
  <2>0. \A r \in Covering(p) : /\ r \in DOMAIN routes /\ Len(r) \in Hits(p, n)
                               /\ r = SubSeq(p, 1, Len(r))
    BY CoversIsStop DEF Covering, RoutesOK, Hits
  <2>1. \A k \in Hits(p, n) : SubSeq(p, 1, k) \in Covering(p) /\ Len(SubSeq(p, 1, k)) = k
    <3>1. ASSUME NEW k \in Hits(p, n)
          PROVE  SubSeq(p, 1, k) \in Covering(p) /\ Len(SubSeq(p, 1, k)) = k
      <4> DEFINE r == SubSeq(p, 1, k)
      <4>1. k \in Stops(p, n) /\ r \in DOMAIN routes
        BY DEF Hits
      <4>2. k \in 1 .. Len(p)
        BY <4>1 DEF Stops
      <4>3. r \in Text /\ Len(r) = k
        BY <4>2, PrefixProperties
      <4> HIDE DEF r
      <4>4. r = SubSeq(p, 1, Len(r))
        BY <4>3 DEF r
      <4>5. Covers(r, p)
        BY <1>2, <4>1, <4>3, <4>4, CoversIsStop
      <4>6. r \in Covering(p)
        BY <4>1, <4>5 DEF Covering
      <4> QED
        BY <4>3, <4>6 DEF r
    <3> QED
      BY <3>1
  <2>2. Answers(p, n, x)
    BY <1>2, FindHandlerAnswers
  <2> HIDE DEF n, x
  <2>3. CASE Hits(p, n) = {} /\ x = None
    BY <2>0, <2>3 DEF x
  <2>4. ASSUME NEW k \in Hits(p, n), \A j \in Hits(p, n) : j <= k,
               x = routes[SubSeq(p, 1, k)]
        PROVE  \E r \in Covering(p) :
                  (\A o \in Covering(p) : Len(o) <= Len(r)) /\ x = routes[r]
    <3> DEFINE r == SubSeq(p, 1, k)
    <3>1. r \in Covering(p) /\ Len(r) = k
      BY <2>1
    <3> HIDE DEF r
    <3>2. \A o \in Covering(p) : Len(o) <= Len(r)
      BY <2>0, <2>4, <3>1
    <3>3. x = routes[r]
      BY <2>4 DEF r
    <3> QED
      BY <3>1, <3>2, <3>3
  <2> QED
    BY <2>2, <2>3, <2>4 DEF Answers, x
<1> QED
  BY <1>1, <1>2

(***************************************************************************)
(* Loading of the routes.                                                  *)
(***************************************************************************)
Entry == {Invalid} \cup [path : Text, handler : STRING]

\* The functions from texts to names of handlers.
Tables == UNION {[dom -> Registered] : dom \in SUBSET Text}

LEMMA AddType ==
    ASSUME NEW r \in Tables, NEW p \in Text, NEW name \in Registered
    PROVE  add(r, p, name) \in Tables
<1>1. PICK dom \in SUBSET Text : r \in [dom -> Registered]
  BY DEF Tables
<1>2. add(r, p, name) \in [dom \cup {p} -> Registered]
  BY <1>1 DEF add
<1>3. dom \cup {p} \in SUBSET Text
  OBVIOUS
<1> QED
  BY <1>2, <1>3 DEF Tables

LoadStep(entries, f, n) ==
    IF n = 0 THEN << >>
    ELSE LET e == entries[n]
         IN  IF e # Invalid /\ contains(e.handler)
             THEN add(f[n - 1], e.path, e.handler)
             ELSE f[n - 1]

LEMMA LoadStepType ==
    ASSUME NEW entries \in Seq(Entry), NEW f, NEW n \in 0 .. Len(entries),
           creators \subseteq Registered,
           n # 0 => f[n - 1] \in Tables
    PROVE  LoadStep(entries, f, n) \in Tables
<1>1. CASE n = 0
  <2>1. << >> \in [{} -> Registered] /\ {} \in SUBSET Text
    OBVIOUS
  <2>2. << >> \in Tables
    BY <2>1 DEF Tables
  <2> QED
    BY <1>1, <2>2, Zenon DEF LoadStep
<1>2. CASE n # 0
  <2> DEFINE e == entries[n]
  <2>1. e \in Entry
    BY <1>2
  <2>2. LoadStep(entries, f, n) = IF e # Invalid /\ contains(e.handler)
                                  THEN add(f[n - 1], e.path, e.handler) ELSE f[n - 1]
    BY <1>2, Zenon DEF LoadStep
  <2> HIDE DEF e
  <2>3. CASE e # Invalid /\ contains(e.handler)
    <3>1. e.path \in Text /\ e.handler \in Registered
      BY <2>1, <2>3 DEF Entry, contains
    <3> QED
      BY <1>2, <2>2, <2>3, <3>1, AddType
  <2>4. CASE ~(e # Invalid /\ contains(e.handler))
    BY <1>2, <2>2, <2>4, Zenon
  <2> QED
    BY <2>3, <2>4
<1> QED
  BY <1>1, <1>2

(***************************************************************************)
(* The first n entries whose handler the factory has, and the table r that *)
(* has their paths, each with its last handler.                            *)
(***************************************************************************)
Loadable(entries, n) ==
    {i \in 1 .. n : entries[i] # Invalid /\ contains(entries[i].handler)}

Lists(r, entries, n) ==
    /\ DOMAIN r = {entries[i].path : i \in Loadable(entries, n)}
    /\ \A i \in Loadable(entries, n) :
          \/ r[entries[i].path] = entries[i].handler
          \/ \E j \in Loadable(entries, n) : i < j /\ entries[j].path = entries[i].path

LEMMA LoadStepLists ==
    ASSUME NEW entries \in Seq(Entry), NEW f, NEW n \in 0 .. Len(entries),
           n # 0 => Lists(f[n - 1], entries, n - 1)
    PROVE  Lists(LoadStep(entries, f, n), entries, n)
<1>1. CASE n = 0
  <2>1. LoadStep(entries, f, n) = << >>
    BY <1>1, Zenon DEF LoadStep
  <2>2. Loadable(entries, n) = {}
    BY <1>1 DEF Loadable
  <2> QED
    BY <2>1, <2>2 DEF Lists
<1>2. CASE n # 0
  <2> DEFINE e == entries[n]
             old == Loadable(entries, n - 1)
             new == Loadable(entries, n)
             r == f[n - 1]
             s == LoadStep(entries, f, n)
  <2>1. s = IF e # Invalid /\ contains(e.handler) THEN add(r, e.path, e.handler) ELSE r
    BY <1>2, Zenon DEF LoadStep
  <2>2. /\ n \in Nat /\ n \notin old /\ \A i \in old : i \in Nat /\ i < n
        /\ new = IF e # Invalid /\ contains(e.handler) THEN old \cup {n} ELSE old
    BY <1>2 DEF Loadable
  <2>3. /\ DOMAIN r = {entries[i].path : i \in old}
        /\ \A i \in old : \/ r[entries[i].path] = entries[i].handler
                         \/ \E j \in old : i < j /\ entries[j].path = entries[i].path
    BY <1>2 DEF Lists
  <2>4. Lists(s, entries, n) <=>
           /\ DOMAIN s = {entries[i].path : i \in new}
           /\ \A i \in new : \/ s[entries[i].path] = entries[i].handler
                            \/ \E j \in new : i < j /\ entries[j].path = entries[i].path
    BY DEF Lists
  <2> HIDE DEF old, new, r, s
  <2>5. CASE e # Invalid /\ contains(e.handler)
    <3>1. s = [p \in DOMAIN r \cup {e.path} |-> IF p = e.path THEN e.handler ELSE r[p]]
          /\ new = old \cup {n}
      BY <2>1, <2>2, <2>5 DEF add
    <3>2. DOMAIN s = {entries[i].path : i \in new}
      BY <2>3, <3>1
    <3>3. ASSUME NEW i \in new
          PROVE  \/ s[entries[i].path] = entries[i].handler
                 \/ \E j \in new : i < j /\ entries[j].path = entries[i].path
      <4>1. CASE i = n
        BY <3>1, <4>1
      <4>2. CASE i # n /\ entries[i].path = e.path
        BY <2>2, <3>1, <4>2
      <4>3. CASE i # n /\ entries[i].path # e.path
        <5>1. i \in old /\ entries[i].path \in DOMAIN r
          BY <2>3, <3>1, <4>3
        <5>2. s[entries[i].path] = r[entries[i].path]
          BY <3>1, <4>3, <5>1
        <5> QED
          BY <2>3, <3>1, <5>1, <5>2
      <4> QED
        BY <4>1, <4>2, <4>3
    <3> QED
      BY <2>4, <3>2, <3>3, Zenon DEF s
  <2>6. CASE ~(e # Invalid /\ contains(e.handler))
    <3>1. s = r /\ new = old
      BY <2>1, <2>2, <2>6, Zenon
    <3> QED
      BY <2>3, <2>4, <3>1, Zenon DEF s
  <2> QED
    BY <2>5, <2>6
<1> QED
  BY <1>1, <1>2

\* Only entries with a registered handler become routes, the last for each path.
LEMMA LoadedRoutes ==
    ASSUME NEW entries \in Seq(Entry), creators \subseteq Registered
    PROVE  LET r == parse_http_handler_config(entries)
           IN  r \in Tables /\ Lists(r, entries, Len(entries))
<1> DEFINE D == 0 .. Len(entries)
           step == [f \in [D -> Tables] |-> [n \in D |-> LoadStep(entries, f, n)]]
           rank == [n \in D |-> n]
           R == CHOOSE r : r = [n \in D |-> LoadStep(entries, r, n)]
<1>0. Len(entries) \in Nat /\ Len(entries) \in D
  OBVIOUS
<1>1. parse_http_handler_config(entries) = R[Len(entries)]
  BY DEF parse_http_handler_config, LoadStep
<1>2. /\ rank \in [D -> 0 .. Len(entries)]
      /\ \A n \in D : n # 0 => n - 1 \in D /\ rank[n - 1] < rank[n]
  BY <1>0
<1> HIDE DEF rank
<1>3. \E f \in [D -> Tables] : f = step[f]
  <2>1. Tables # {}
    <3>1. << >> \in [{} -> Registered] /\ {} \in SUBSET Text
      OBVIOUS
    <3> QED
      BY <3>1 DEF Tables
  <2>2. \A f \in [D -> Tables] : step[f] \in [D -> Tables]
    BY <1>2, LoadStepType
  <2>3. \A x \in D : \A f, g \in [D -> Tables] :
           (\A y \in D : rank[y] < rank[x] => f[y] = g[y]) => step[f][x] = step[g][x]
    <3>1. ASSUME NEW x \in D, NEW f \in [D -> Tables], NEW g \in [D -> Tables],
                 \A y \in D : rank[y] < rank[x] => f[y] = g[y]
          PROVE  LoadStep(entries, f, x) = LoadStep(entries, g, x)
      <4>1. CASE x = 0
        BY <4>1, Zenon DEF LoadStep
      <4>2. CASE x # 0
        <5>1. f[x - 1] = g[x - 1]
          BY <1>2, <3>1, <4>2
        <5> QED
          BY <5>1, Zenon DEF LoadStep
      <4> QED
        BY <4>1, <4>2
    <3> QED
      BY <3>1
  <2>4. step \in [[D -> Tables] -> [D -> Tables]]
    BY <2>2
  <2> HIDE DEF D, step
  <2>5. WellDefined(D, Tables, Len(entries), rank, step)
    BY <1>0, <1>2, <2>1, <2>3, <2>4, Zenon DEF WellDefined
  <2> HIDE DEF R
  <2> QED
    BY <2>5, RecursionExists
<1>4. R = [n \in D |-> LoadStep(entries, R, n)]
  BY <1>3, Zenon
<1> HIDE DEF R
<1>5. \A n \in D : R[n] \in Tables /\ Lists(R[n], entries, n)
  <2> DEFINE Good == {n \in D : R[n] \in Tables /\ Lists(R[n], entries, n)}
  <2>1. ASSUME NEW x \in D, \A y \in D : rank[y] < rank[x] => y \in Good PROVE x \in Good
    <3>1. R[x] = LoadStep(entries, R, x)
      BY <1>4
    <3>2. x # 0 => R[x - 1] \in Tables /\ Lists(R[x - 1], entries, x - 1)
      BY <1>2, <2>1
    <3>3. R[x] \in Tables
      BY <3>1, <3>2, LoadStepType
    <3>4. Lists(R[x], entries, x)
      BY <3>1, <3>2, LoadStepLists
    <3> QED
      BY <3>3, <3>4
  <2> HIDE DEF D, Good
  <2>2. \A x \in D : x \in Good
    BY <1>0, <1>2, <2>1, RankInduction
  <2> QED
    BY <2>2 DEF Good
<1> QED
  BY <1>0, <1>1, <1>5

-----------------------------------------------------------------------------
(***************************************************************************)
(* The inductive invariant of start-up and routing.  An answer is about    *)
(* the present routes and factory; until the server serves there is none.  *)
(***************************************************************************)
RouterInv ==
    /\ creators \subseteq Registered
    /\ routes \in Tables
    /\ phase # "serving" => reply = None
    /\ RoutesToLongestPrefix

LEMMA AssumptionInTexts ==
    /\ Targets \subseteq Text
    /\ \A c \in Configs : c # NotArray => parse_from_file(c) \in Seq(Entry)
<1>1. STRING \subseteq Char
  BY DEF Char
<1>2. Seq(STRING) \subseteq Text
  BY <1>1, SeqMonotonic DEF Text
<1> DEFINE E == {Invalid} \cup [path : Seq(STRING), handler : STRING]
<1>3. E \subseteq Entry
  BY <1>2 DEF Entry
<1>4. Seq(E) \subseteq Seq(Entry)
  <2> HIDE DEF E
  <2> QED
    BY <1>3, SeqMonotonic
<1>5. << >> \in Seq(Entry)
  OBVIOUS
<1> HIDE DEF E
<1> QED
  BY <1>2, <1>4, <1>5, RouterAssumption DEF parse_from_file, E

LEMMA TablesAreRoutes == ASSUME routes \in Tables PROVE RoutesOK
BY DEF Tables, RoutesOK

LEMMA RouterInvInitially == Init => RouterInv
<1>1. << >> \in [{} -> Registered] /\ {} \in SUBSET Text
  OBVIOUS
<1>2. << >> \in Tables
  BY <1>1 DEF Tables
<1> QED
  BY <1>2 DEF Init, RouterInv, RoutesToLongestPrefix

\* The answer to one request.
LEMMA DispatchAnswers ==
    ASSUME RouterInv, NEW tgt \in Targets, NEW method, NEW keep \in BOOLEAN,
           dispatch(tgt, method, keep)
    PROVE  RoutesToLongestPrefix'
<1> DEFINE p == parse(tgt).decoded_path
           x == find_handler(p)
           h == create(x)
           a == IF h = None THEN internal_server_error(keep)
                ELSE handle_request(h, method, keep)
<1>1. /\ reply' = [path |-> p, method |-> method, asked |-> keep, handler |-> h, answer |-> a]
      /\ routes' = routes /\ creators' = creators
  BY DEF dispatch
<1>2. p \in Text
  BY AssumptionInTexts, DecodedPathIsText
<1>3. RoutesOK /\ creators \subseteq Registered
  BY TablesAreRoutes DEF RouterInv
<1>4. \/ Covering(p) = {} /\ x = None
      \/ \E r \in Covering(p) : (\A o \in Covering(p) : Len(o) <= Len(r)) /\ x = routes[r]
  BY <1>2, <1>3, FindHandlerIsLongest
<1>5. h = IF x \in creators THEN x ELSE None
  BY DEF create
<1>6. a.keep_alive = keep /\ (a.status = 500 <=> h = None)
  BY DEF internal_server_error, handle_request, not_implemented, make_echo_response,
         init_response
<1>7. /\ reply'.path = p /\ reply'.asked = keep /\ reply'.handler = h /\ reply'.answer = a
      /\ \A q : Covering(q)' = Covering(q)
  BY <1>1 DEF Covering
<1> HIDE DEF p, x, h, a
<1>8. CASE Covering(p) = {} /\ x = None
  <2>1. h = None
    BY <1>5, <1>8
  <2> QED
    BY <1>6, <1>7, <1>8, <2>1 DEF RoutesToLongestPrefix
<1>9. ASSUME NEW r \in Covering(p), \A o \in Covering(p) : Len(o) <= Len(r), x = routes[r]
      PROVE  RoutesToLongestPrefix'
  <2>1. routes[r] \in Registered /\ None \notin Registered
    BY <1>3, RouterAssumption DEF Covering, RoutesOK
  <2>2. \/ h = routes[r] /\ a.status # 500
        \/ routes[r] \in Registered \ creators /\ a.status = 500
    BY <1>5, <1>6, <1>9, <2>1
  <2> QED
    BY <1>1, <1>6, <1>7, <1>9, <2>2 DEF RoutesToLongestPrefix
<1> QED
  BY <1>4, <1>8, <1>9

LEMMA RouterInvInductive == ASSUME RouterInv, [Next]_vars PROVE RouterInv'
<1>1. ASSUME NEW log \in BOOLEAN, NEW g \in Globals, NEW file \in Configs,
             init(log, g, file)
      PROVE  RouterInv'
  <2>1. reply = None /\ reply' = None /\ creators' = creators
    BY <1>1 DEF init, RouterInv
  <2>2. routes' \in Tables
    <3>1. CASE routes' = routes
      BY <3>1 DEF RouterInv
    <3>2. CASE file # NotArray /\ routes' = parse_http_handler_config(parse_from_file(file))
      BY <3>2, AssumptionInTexts, LoadedRoutes DEF RouterInv
    <3> QED
      BY <1>1, <3>1, <3>2 DEF init
  <2> QED
    BY <2>1, <2>2 DEF RouterInv, RoutesToLongestPrefix
<1>2. CASE main
  BY <1>2 DEF main, RouterInv, RoutesToLongestPrefix, Covering
<1>3. ASSUME NEW t \in Targets, NEW m \in Methods, NEW k \in BOOLEAN, dispatch(t, m, k)
      PROVE  RouterInv'
  <2>1. RoutesToLongestPrefix'
    BY <1>3, DispatchAnswers
  <2> QED
    BY <1>3, <2>1 DEF dispatch, RouterInv
<1>4. ASSUME NEW name \in Registered, unregister_handler(name)
      PROVE  RouterInv'
  BY <1>4 DEF unregister_handler, RouterInv, RoutesToLongestPrefix
<1>5. CASE UNCHANGED vars
  BY <1>5 DEF vars, RouterInv, RoutesToLongestPrefix, Covering
<1> QED
  BY <1>1, <1>2, <1>3, <1>4, <1>5 DEF Next

(***************************************************************************)
(* A request goes to the handler of the longest covering route, for every  *)
(* target, every table of routes and every factory: the loop of            *)
(* find_handler skips no prefix that ends with a segment and stops at none *)
(* that does not, and no entry for an unknown handler hides another        *)
(* (Initializer::parse_http_handler_config, HTTP_Router::dispatch).        *)
(***************************************************************************)
THEOREM LongestPrefixAnswers == Spec => []RoutesToLongestPrefix
<1>1. RouterInv => RoutesToLongestPrefix
  BY DEF RouterInv
<1> QED
  BY <1>1, RouterInvInitially, RouterInvInductive, PTL DEF Spec

-----------------------------------------------------------------------------
(***************************************************************************)
(* The settings.                                                           *)
(***************************************************************************)
\* A power of two counts the subsets of an interval.
LEMMA SixteenBits == 2 ^ 16 \in Nat \ {0}
<1> DEFINE I == 1 .. 16
<1>1. IsFiniteSet(I) /\ Cardinality(I) = 16
  <2>1. \A n \in Nat : IsFiniteSet(1 .. n) /\ Cardinality(1 .. n) = n
    BY FS_Interval
  <2>2. 16 \in Nat
    OBVIOUS
  <2> QED
    BY <2>1, <2>2, Zenon
<1>2. IsFiniteSet(SUBSET I) /\ Cardinality(SUBSET I) = 2 ^ 16
  BY <1>1, FS_SUBSET
<1>3. 2 ^ 16 \in Nat
  BY <1>2, FS_CardinalityType
<1>4. {} \in SUBSET I
  OBVIOUS
<1>5. 2 ^ 16 # 0
  <2> HIDE DEF I
  <2> QED
    BY <1>2, <1>4, FS_EmptySet
<1> QED
  BY <1>3, <1>5

\* Cutting a port that fits leaves it alone.
LEMMA PortFits ==
    ASSUME NEW p \in Nat, p < 2 ^ 16
    PROVE  Port(p) = p
<1> DEFINE limit == 2 ^ 16
<1>1. limit \in Nat \ {0} /\ p < limit
  BY SixteenBits
<1>2. Port(p) = p % limit
  BY DEF Port
<1> HIDE DEF limit
<1>3. p % limit = p
  BY <1>1
<1> QED
  BY <1>2, <1>3

SettingsOf(g) ==
    [host |-> IF g.host = Invalid THEN "127.0.0.1" ELSE g.host,
     port |-> IF g.port = Invalid THEN 8080 ELSE Port(g.port)]

(***************************************************************************)
(* The inductive invariant: the two files are read once, on the defaults   *)
(* and with the whole factory, and what came of them is not touched again. *)
(***************************************************************************)
SettingsInv ==
    /\ phase = "starting" => settings = Defaults /\ creators = Registered
    /\ phase \in {"configured", "serving"} =>
          /\ config.global \in Globals \ {NotObject}
          /\ settings = SettingsOf(config.global)
          /\ config.handlers # NotArray
          /\ RoutesAsListed(config.handlers)
    /\ phase = "serving" => settings.host \in Addresses

\* The routes after start-up, for any contents of handler.conf.
LEMMA InitLists ==
    ASSUME NEW file \in Configs, file # NotArray, creators = Registered,
           routes' = parse_http_handler_config(parse_from_file(file))
    PROVE  RoutesAsListed(file)'
<1> DEFINE es == parse_from_file(file)
<1>1. es \in Seq(Entry)
  BY AssumptionInTexts
<1>2. Lists(routes', es, Len(es))
  BY <1>1, LoadedRoutes
<1>3. CASE file = BrokenArray
  <2>1. es = << >>
    BY <1>3 DEF parse_from_file
  <2>2. Loadable(es, Len(es)) = {}
    BY <2>1 DEF Loadable
  <2>3. Usable(file) = {}
    BY <1>3 DEF Usable
  <2>4. DOMAIN routes' = {}
    BY <1>2, <2>2 DEF Lists
  <2> QED
    BY <2>3, <2>4 DEF RoutesAsListed
<1>4. CASE file # BrokenArray
  <2>1. es = file
    BY <1>4 DEF parse_from_file
  <2>2. Loadable(file, Len(file)) = Usable(file)
    <3>1. DOMAIN file = 1 .. Len(file)
      BY <1>1, <2>1
    <3> QED
      BY <1>4, <3>1 DEF Loadable, Usable, contains
  <2> HIDE DEF es
  <2> QED
    BY <1>2, <2>1, <2>2 DEF Lists, RoutesAsListed
<1> QED
  BY <1>3, <1>4

LEMMA SettingsInvInductive == ASSUME SettingsInv, [Next]_vars PROVE SettingsInv'
<1>1. ASSUME NEW log \in BOOLEAN, NEW g \in Globals, NEW file \in Configs,
             init(log, g, file)
      PROVE  SettingsInv'
  <2>1. /\ phase = "starting" /\ settings = Defaults /\ creators = Registered
        /\ config'.global = g /\ config'.handlers = file
    BY <1>1 DEF init, SettingsInv
  <2>2. CASE phase' = "exited"
    BY <2>2 DEF SettingsInv
  <2>3. CASE /\ phase' = "configured" /\ g # NotObject /\ settings' = parse_settings(g)
             /\ file # NotArray
             /\ routes' = parse_http_handler_config(parse_from_file(file))
    <3>1. settings' = SettingsOf(g)
      BY <2>1, <2>3 DEF parse_settings, SettingsOf, Defaults
    <3>2. RoutesAsListed(file)'
      BY <2>1, <2>3, InitLists
    <3>3. RoutesAsListed(config.handlers)'
      BY <2>1, <3>2 DEF RoutesAsListed, Usable
    <3>4. SettingsOf(config.global)' = SettingsOf(g)
      BY <2>1 DEF SettingsOf
    <3> QED
      BY <2>1, <2>3, <3>1, <3>3, <3>4 DEF SettingsInv
  <2> QED
    BY <1>1, <2>2, <2>3 DEF init
<1>2. CASE main
  BY <1>2 DEF main, SettingsInv, RoutesAsListed
<1>3. ASSUME NEW t \in Targets, NEW m \in Methods, NEW k \in BOOLEAN, dispatch(t, m, k)
      PROVE  SettingsInv'
  BY <1>3 DEF dispatch, SettingsInv, RoutesAsListed
<1>4. ASSUME NEW name \in Registered, phase = "serving", unregister_handler(name)
      PROVE  SettingsInv'
  BY <1>4 DEF unregister_handler, SettingsInv, RoutesAsListed
<1>5. CASE UNCHANGED vars
  BY <1>5 DEF vars, SettingsInv, RoutesAsListed
<1> QED
  BY <1>1, <1>2, <1>3, <1>4, <1>5 DEF Next

LEMMA SettingsServe == ASSUME SettingsInv PROVE ServesAsConfigured
<1> DEFINE g == config.global
<1>1. ASSUME phase = "serving" PROVE ServesAsConfigured
  <2>1. /\ g # NotObject /\ settings.host \in Addresses
        /\ g \in [host : {Invalid} \cup STRING, port : {Invalid} \cup Nat]
        /\ settings = SettingsOf(g)
        /\ config.handlers # NotArray /\ RoutesAsListed(config.handlers)
    BY <1>1, RouterAssumption DEF SettingsInv
  <2> HIDE DEF g
  <2> DEFINE host == IF g.host = Invalid THEN "127.0.0.1" ELSE g.host
  <2>2. settings.host = host
    BY <2>1 DEF SettingsOf
  <2>3. settings.port = IF g.port = Invalid THEN 8080 ELSE Port(g.port)
    BY <2>1 DEF SettingsOf
  <2>4. ASSUME g.port # Invalid, g.port < 2 ^ 16
        PROVE  settings.port = g.port
    <3>1. g.port \in Nat
      BY <2>1, <2>4
    <3> QED
      BY <2>3, <2>4, <3>1, PortFits
  <2>5. g.port = Invalid => settings.port = 8080
    BY <2>3
  <2> HIDE DEF host
  <2>6. /\ g # NotObject /\ config.handlers # NotArray
        /\ settings.host \in Addresses
        /\ settings.host = host
        /\ g.port = Invalid => settings.port = 8080
        /\ g.port # Invalid /\ g.port < 2 ^ 16 => settings.port = g.port
        /\ RoutesAsListed(config.handlers)
    BY ONLY <2>1, <2>2, <2>4, <2>5, Zenon
  <2> QED
    BY ONLY <2>6, Zenon DEF ServesAsConfigured, g, host
<1> QED
  BY <1>1 DEF ServesAsConfigured

(***************************************************************************)
(* The server serves only if both files are what they should be, or        *)
(* handler.conf at least begins so; at the host and the port of the first, *)
(* where a port of 16 bits survives the conversion to unsigned short, and  *)
(* at the defaults where it names none; with the routes of the second, the *)
(* last for each path, and none if it breaks off (Initializer::init,       *)
(* parse_settings, parse_http_handler_config, main).                       *)
(***************************************************************************)
THEOREM ServerServesAsConfigured == Spec => []ServesAsConfigured
<1>1. Init => SettingsInv
  BY DEF Init, SettingsInv
<1> QED
  BY <1>1, SettingsInvInductive, SettingsServe, PTL DEF Spec

-----------------------------------------------------------------------------
(***************************************************************************)
(* path_normalize.  Tokens of any kind, of which some are skipped and one  *)
(* goes up.                                                                *)
(***************************************************************************)
Skipped == {<< >>, <<".">>}

Up == <<".", ".">>

LEMMA KindsOfTokens == Up \notin Skipped /\ << >> \in Skipped /\ << >> # Up
BY DEF Skipped, Up

\* All but the last element, and the last.
LEMMA FrontProperties ==
    ASSUME NEW V, NEW s \in Seq(V), s # << >>
    PROVE  /\ Front(s) \in Seq(V)
           /\ Len(Front(s)) = Len(s) - 1
           /\ \A i \in 1 .. Len(s) - 1 : Front(s)[i] = s[i]
           /\ Last(s) \in V
           /\ Last(s) = s[Len(s)]
<1>0. Len(s) \in Nat \ {0} /\ Len(s) - 1 \in Int /\ \A i \in 1 .. Len(s) : s[i] \in V
  OBVIOUS
<1>1. Front(s) = SubSeq(s, 1, Len(s) - 1) /\ Last(s) = s[Len(s)]
  BY Zenon DEF Front, Last
<1> DEFINE m == Len(s) - 1
<1>2. \A i \in 1 .. m : s[i] \in V
  BY <1>0
<1>3. m \in Int /\ m >= 0
  BY <1>0
<1> HIDE DEF m
<1>4. /\ SubSeq(s, 1, m) \in Seq(V)
      /\ Len(SubSeq(s, 1, m)) = IF 1 <= m THEN m - 1 + 1 ELSE 0
      /\ \A i \in 1 .. m - 1 + 1 : SubSeq(s, 1, m)[i] = s[1 + i - 1]
  BY <1>2, <1>3, SubSeqProperties
<1>5. m - 1 + 1 = m /\ (~(1 <= m) => m = 0) /\ \A i \in 1 .. m : 1 + i - 1 = i
  BY <1>3
<1>6. Len(SubSeq(s, 1, m)) = m /\ \A i \in 1 .. m : SubSeq(s, 1, m)[i] = s[i]
  BY <1>4, <1>5
<1>7. s[Len(s)] \in V
  BY <1>0
<1> QED
  BY <1>1, <1>4, <1>6, <1>7 DEF m

LEMMA FrontAppend ==
    ASSUME NEW V, NEW s \in Seq(V), NEW e \in V
    PROVE  /\ Front(Append(s, e)) = s
           /\ Last(Append(s, e)) = e
           /\ s # << >> => Append(Front(s), Last(s)) = s
<1> DEFINE t == Append(s, e)
<1>0. Len(s) \in Nat
  OBVIOUS
<1>1. /\ t \in Seq(V) /\ t # << >> /\ Len(t) = Len(s) + 1
      /\ \A i \in 1 .. Len(s) : t[i] = s[i]
      /\ t[Len(s) + 1] = e
  BY AppendProperties
<1> HIDE DEF t
<1>2. /\ Front(t) \in Seq(V) /\ Len(Front(t)) = Len(t) - 1
      /\ \A i \in 1 .. Len(t) - 1 : Front(t)[i] = t[i]
      /\ Last(t) = t[Len(t)]
  BY <1>1, FrontProperties
<1>3. Len(t) - 1 = Len(s)
  BY <1>0, <1>1
<1>4. Front(t) = s
  <2>1. Len(Front(t)) = Len(s) /\ \A i \in 1 .. Len(s) : Front(t)[i] = s[i]
    BY <1>1, <1>2, <1>3
  <2> QED
    BY <1>2, <2>1, SeqEqual
<1>5. Last(t) = e
  BY <1>1, <1>2
<1>6. ASSUME s # << >> PROVE Append(Front(s), Last(s)) = s
  <2> DEFINE f == Front(s)
             l == Last(s)
             u == Append(f, l)
  <2>1. /\ f \in Seq(V) /\ Len(f) = Len(s) - 1 /\ l \in V /\ l = s[Len(s)]
        /\ \A i \in 1 .. Len(s) - 1 : f[i] = s[i]
    BY <1>6, FrontProperties
  <2> HIDE DEF f, l
  <2>2. /\ u \in Seq(V) /\ Len(u) = Len(f) + 1
        /\ \A i \in 1 .. Len(f) : u[i] = f[i]
        /\ u[Len(f) + 1] = l
    BY <2>1, AppendProperties
  <2> HIDE DEF u
  <2>3. Len(u) = Len(s) /\ Len(f) + 1 = Len(s)
    BY <1>0, <2>1, <2>2
  <2>4. ASSUME NEW i \in 1 .. Len(u) PROVE u[i] = s[i]
    <3>1. CASE i = Len(s)
      BY <2>1, <2>2, <2>3, <3>1
    <3>2. CASE i # Len(s)
      <4>1. i \in 1 .. Len(f) /\ i \in 1 .. Len(s) - 1
        BY <1>0, <2>1, <2>3, <3>2
      <4> QED
        BY <2>1, <2>2, <4>1
    <3> QED
      BY <3>1, <3>2
  <2>5. u = s
    BY <2>2, <2>3, <2>4, SeqEqual
  <2> QED
    BY <2>5 DEF u, f, l
<1> QED
  BY <1>4, <1>5, <1>6 DEF t

\* One round of the loop of path_normalize, case by case.
LEMMA StepCases ==
    ASSUME NEW s, NEW t, NEW absolute \in BOOLEAN
    PROVE  /\ t \in Skipped => Normal!Step(s, t, absolute) = s
           /\ t = Up /\ s # << >> /\ Last(s) # Up =>
                 Normal!Step(s, t, absolute) = Front(s)
           /\ t = Up /\ ~(s # << >> /\ Last(s) # Up) /\ absolute =>
                 Normal!Step(s, t, absolute) = s
           /\ t = Up /\ ~(s # << >> /\ Last(s) # Up) /\ ~absolute =>
                 Normal!Step(s, t, absolute) = Append(s, t)
           /\ t \notin Skipped /\ t # Up => Normal!Step(s, t, absolute) = Append(s, t)
<1>1. Normal!Last(s) = Last(s) /\ Normal!Front(s) = Front(s)
  BY DEF Normal!Last, Last, Normal!Front, Front
<1>2. Normal!Step(s, t, absolute) =
         CASE t \in Skipped -> s
           [] t = Up -> IF s # << >> /\ Last(s) # Up THEN Front(s)
                        ELSE IF absolute THEN s ELSE Append(s, t)
           [] OTHER -> Append(s, t)
  BY <1>1, Zenon DEF Normal!Step, Skipped, Up
<1>3. ~(t \in Skipped /\ t = Up)
  BY KindsOfTokens
<1>4. t \in Skipped => Normal!Step(s, t, absolute) = s
  BY <1>2, <1>3, Zenon
<1>5. t = Up => Normal!Step(s, t, absolute) =
         IF s # << >> /\ Last(s) # Up THEN Front(s)
         ELSE IF absolute THEN s ELSE Append(s, t)
  BY <1>2, <1>3, Zenon
<1>6. t \notin Skipped /\ t # Up => Normal!Step(s, t, absolute) = Append(s, t)
  BY <1>2, Zenon
<1> QED
  BY <1>4, <1>5, <1>6, Zenon

LEMMA StepType ==
    ASSUME NEW U, NEW s \in Seq(U), NEW t \in U, NEW absolute \in BOOLEAN
    PROVE  Normal!Step(s, t, absolute) \in Seq(U)
<1>1. Append(s, t) \in Seq(U)
  OBVIOUS
<1>2. s # << >> => Front(s) \in Seq(U)
  BY FrontProperties
<1> QED
  BY <1>1, <1>2, StepCases, KindsOfTokens

NormalizeStep(p, absolute, f, n) ==
    IF n = 0 THEN << >> ELSE Normal!Step(f[n - 1], p[n], absolute)

\* The loop of path_normalize, unfolded.
LEMMA NormalizeDef ==
    ASSUME NEW U, NEW p \in Seq(U), NEW absolute, absolute = Normal!is_absolute(p)
    PROVE  \E R : /\ Normal!path_normalize(p) = Normal!Join(R[Len(p)], absolute)
                  /\ R \in [0 .. Len(p) -> Seq(U)]
                  /\ R[0] = << >>
                  /\ \A n \in 1 .. Len(p) : R[n] = Normal!Step(R[n - 1], p[n], absolute)
<1> DEFINE D == 0 .. Len(p)
           S == Seq(U)
           step == [f \in [D -> S] |-> [n \in D |-> NormalizeStep(p, absolute, f, n)]]
           rank == [n \in D |-> n]
           R == CHOOSE r : r = [n \in D |-> NormalizeStep(p, absolute, r, n)]
<1>0. Len(p) \in Nat /\ Len(p) \in D
  OBVIOUS
<1>a. absolute \in BOOLEAN
  BY DEF Normal!is_absolute
<1>1. Normal!path_normalize(p) = Normal!Join(R[Len(p)], absolute)
  BY Zenon DEF Normal!path_normalize, NormalizeStep
<1>2. rank \in [D -> 0 .. Len(p)] /\ \A n \in D : n # 0 => n - 1 \in D /\ rank[n - 1] < rank[n]
  BY <1>0
<1> HIDE DEF rank
<1>b. ASSUME NEW f, NEW n \in D, n # 0 => f[n - 1] \in S
      PROVE  NormalizeStep(p, absolute, f, n) \in S
  <2>1. CASE n = 0
    <3>1. << >> \in S
      OBVIOUS
    <3> QED
      BY <2>1, <3>1, Zenon DEF NormalizeStep
  <2>2. CASE n # 0
    <3>1. p[n] \in U
      BY <2>2
    <3>2. Normal!Step(f[n - 1], p[n], absolute) \in S
      BY <1>a, <1>b, <2>2, <3>1, StepType
    <3> QED
      BY <2>2, <3>2, Zenon DEF NormalizeStep
  <2> QED
    BY <2>1, <2>2
<1>3. \E f \in [D -> S] : f = step[f]
  <2>1. S # {}
    OBVIOUS
  <2>2. \A f \in [D -> S] : step[f] \in [D -> S]
    BY <1>2, <1>b
  <2>3. \A x \in D : \A f, g \in [D -> S] :
           (\A y \in D : rank[y] < rank[x] => f[y] = g[y]) => step[f][x] = step[g][x]
    <3>1. ASSUME NEW x \in D, NEW f \in [D -> S], NEW g \in [D -> S],
                 \A y \in D : rank[y] < rank[x] => f[y] = g[y]
          PROVE  NormalizeStep(p, absolute, f, x) = NormalizeStep(p, absolute, g, x)
      <4>1. CASE x = 0
        BY <4>1, Zenon DEF NormalizeStep
      <4>2. CASE x # 0
        <5>1. f[x - 1] = g[x - 1]
          BY <1>2, <3>1, <4>2
        <5> QED
          BY <5>1, Zenon DEF NormalizeStep
      <4> QED
        BY <4>1, <4>2
    <3> QED
      BY <3>1
  <2>4. step \in [[D -> S] -> [D -> S]]
    BY <2>2
  <2> HIDE DEF D, S, step
  <2>5. WellDefined(D, S, Len(p), rank, step)
    BY <1>0, <1>2, <2>1, <2>3, <2>4, Zenon DEF WellDefined
  <2> HIDE DEF R
  <2> QED
    BY <2>5, RecursionExists
<1>4. R = [n \in D |-> NormalizeStep(p, absolute, R, n)]
  BY <1>3, Zenon
<1> HIDE DEF R
<1>5. \A n \in D : R[n] \in S
  <2> DEFINE Good == {n \in D : R[n] \in S}
  <2>1. ASSUME NEW x \in D, \A y \in D : rank[y] < rank[x] => y \in Good PROVE x \in Good
    <3>1. x # 0 => R[x - 1] \in S
      BY <1>2, <2>1
    <3>2. NormalizeStep(p, absolute, R, x) \in S
      BY <1>b, <3>1
    <3> QED
      BY <1>4, <3>2
  <2> HIDE DEF D, Good
  <2>2. \A x \in D : x \in Good
    BY <1>0, <1>2, <2>1, RankInduction
  <2> QED
    BY <2>2 DEF Good
<1>6. R[0] = << >>
  <2>1. 0 \in D
    BY <1>0
  <2> QED
    BY <1>4, <2>1 DEF NormalizeStep
<1>7. ASSUME NEW n \in 1 .. Len(p) PROVE R[n] = Normal!Step(R[n - 1], p[n], absolute)
  <2>1. n \in D /\ n # 0
    BY <1>0
  <2>2. R[n] = NormalizeStep(p, absolute, R, n)
    BY <1>4, <2>1
  <2> QED
    BY <2>1, <2>2, Zenon DEF NormalizeStep
<1>8. R \in [D -> S]
  BY <1>4, <1>5
<1> QED
  BY <1>1, <1>6, <1>7, <1>8

-----------------------------------------------------------------------------
(***************************************************************************)
(* Walking along a path.  Walks(V, s, d, e): from d, s leads to e.         *)
(***************************************************************************)
WalkStep(d, t) ==
    CASE t \in Skipped -> d
      [] t = Up -> IF d = << >> THEN d ELSE Front(d)
      [] OTHER -> Append(d, t)

IsWalk(V, s, W) ==
    /\ W \in [0 .. Len(s) -> Seq(V)]
    /\ \A n \in 1 .. Len(s) : W[n] = WalkStep(W[n - 1], s[n])

Walks(V, s, d, e) == \E W : IsWalk(V, s, W) /\ W[0] = d /\ W[Len(s)] = e

LEMMA WalkStepCases ==
    ASSUME NEW d, NEW t
    PROVE  /\ t \in Skipped => WalkStep(d, t) = d
           /\ t = Up => WalkStep(d, t) = IF d = << >> THEN d ELSE Front(d)
           /\ t \notin Skipped /\ t # Up => WalkStep(d, t) = Append(d, t)
BY KindsOfTokens, Zenon DEF WalkStep

LEMMA WalkStepType ==
    ASSUME NEW V, NEW d \in Seq(V), NEW t \in V
    PROVE  WalkStep(d, t) \in Seq(V)
<1>1. Append(d, t) \in Seq(V)
  OBVIOUS
<1>2. d # << >> => Front(d) \in Seq(V)
  BY FrontProperties
<1> QED
  BY <1>1, <1>2, WalkStepCases

\* Walk is a walk.
LEMMA WalkDef ==
    ASSUME NEW V, NEW p \in Seq(V), NEW d \in Seq(V),
           d = IF Normal!is_absolute(p) THEN << >> ELSE Cwd
    PROVE  Walks(V, p, d, Walk(p))
<1> DEFINE D == 0 .. Len(p)
           S == Seq(V)
           body(f, n) == IF n = 0 THEN IF Normal!is_absolute(p) THEN << >> ELSE Cwd
                         ELSE LET e == f[n - 1]
                              IN  CASE p[n] \in {<< >>, <<".">>} -> e
                                    [] p[n] = <<".", ".">> -> IF e = << >> THEN e ELSE Front(e)
                                    [] OTHER -> Append(e, p[n])
           step == [f \in [D -> S] |-> [n \in D |-> body(f, n)]]
           rank == [n \in D |-> n]
           R == CHOOSE r : r = [n \in D |-> body(r, n)]
<1>0. Len(p) \in Nat /\ Len(p) \in D
  OBVIOUS
<1>1. Walk(p) = R[Len(p)]
  BY Zenon DEF Walk
<1>a. \A f, n : body(f, n) = IF n = 0 THEN d ELSE WalkStep(f[n - 1], p[n])
  <2>1. ASSUME NEW f, NEW n PROVE body(f, n) = IF n = 0 THEN d ELSE WalkStep(f[n - 1], p[n])
    <3>1. CASE n = 0
      BY <3>1
    <3>2. CASE n # 0
      <4>1. body(f, n) = WalkStep(f[n - 1], p[n])
        BY <3>2, Zenon DEF WalkStep, Skipped, Up
      <4> QED
        BY <3>2, <4>1
    <3> QED
      BY <3>1, <3>2
  <2> QED
    BY <2>1
<1> HIDE DEF body
<1>2. rank \in [D -> 0 .. Len(p)] /\ \A n \in D : n # 0 => n - 1 \in D /\ rank[n - 1] < rank[n]
  BY <1>0
<1> HIDE DEF rank
<1>b. ASSUME NEW f, NEW n \in D, n # 0 => f[n - 1] \in S
      PROVE  body(f, n) \in S
  <2>1. CASE n = 0
    <3>1. body(f, n) = d
      BY <1>a, <2>1, Zenon
    <3> QED
      BY <3>1
  <2>2. CASE n # 0
    <3>1. p[n] \in V
      BY <2>2
    <3>2. WalkStep(f[n - 1], p[n]) \in S
      BY <1>b, <2>2, <3>1, WalkStepType
    <3>3. body(f, n) = WalkStep(f[n - 1], p[n])
      BY <1>a, <2>2, Zenon
    <3> QED
      BY <3>2, <3>3
  <2> QED
    BY <2>1, <2>2
<1>3. \E f \in [D -> S] : f = step[f]
  <2>1. S # {}
    OBVIOUS
  <2>2. \A f \in [D -> S] : step[f] \in [D -> S]
    BY <1>2, <1>b
  <2>3. \A x \in D : \A f, g \in [D -> S] :
           (\A y \in D : rank[y] < rank[x] => f[y] = g[y]) => step[f][x] = step[g][x]
    <3>1. ASSUME NEW x \in D, NEW f \in [D -> S], NEW g \in [D -> S],
                 \A y \in D : rank[y] < rank[x] => f[y] = g[y]
          PROVE  body(f, x) = body(g, x)
      <4>1. x # 0 => f[x - 1] = g[x - 1]
        BY <1>2, <3>1
      <4> QED
        BY <1>a, <4>1, Zenon
    <3> QED
      BY <3>1
  <2>4. step \in [[D -> S] -> [D -> S]]
    BY <2>2
  <2> HIDE DEF D, S, step
  <2>5. WellDefined(D, S, Len(p), rank, step)
    BY <1>0, <1>2, <2>1, <2>3, <2>4, Zenon DEF WellDefined
  <2> HIDE DEF R
  <2> QED
    BY <2>5, RecursionExists
<1>4. R = [n \in D |-> body(R, n)]
  BY <1>3, Zenon
<1> HIDE DEF R
<1>5. \A n \in D : R[n] \in S
  <2> DEFINE Good == {n \in D : R[n] \in S}
  <2>1. ASSUME NEW x \in D, \A y \in D : rank[y] < rank[x] => y \in Good PROVE x \in Good
    <3>1. x # 0 => R[x - 1] \in S
      BY <1>2, <2>1
    <3>2. body(R, x) \in S
      BY <1>b, <3>1
    <3> QED
      BY <1>4, <3>2
  <2> HIDE DEF D, Good
  <2>2. \A x \in D : x \in Good
    BY <1>0, <1>2, <2>1, RankInduction
  <2> QED
    BY <2>2 DEF Good
<1>6. R[0] = d
  <2>1. 0 \in D
    BY <1>0
  <2>2. body(R, 0) = d
    BY <1>a, Zenon
  <2> QED
    BY <1>4, <2>1, <2>2
<1>7. ASSUME NEW n \in 1 .. Len(p) PROVE R[n] = WalkStep(R[n - 1], p[n])
  <2>1. n \in D /\ n # 0
    BY <1>0
  <2>2. R[n] = body(R, n)
    BY <1>4, <2>1
  <2> QED
    BY <1>a, <2>1, <2>2, Zenon
<1>8. R \in [D -> S]
  BY <1>4, <1>5
<1>9. IsWalk(V, p, R)
  BY <1>7, <1>8 DEF IsWalk
<1> QED
  BY <1>1, <1>6, <1>9, Zenon DEF Walks

\* A walk has one end.
LEMMA WalkUnique ==
    ASSUME NEW V, NEW s \in Seq(V), NEW d, NEW e, NEW o,
           Walks(V, s, d, e), Walks(V, s, d, o)
    PROVE  e = o
<1>1. PICK W : IsWalk(V, s, W) /\ W[0] = d /\ W[Len(s)] = e
  BY DEF Walks
<1>2. PICK X : IsWalk(V, s, X) /\ X[0] = d /\ X[Len(s)] = o
  BY DEF Walks
<1> DEFINE Good == {n \in Nat : n <= Len(s) => W[n] = X[n]}
<1>0. Len(s) \in Nat
  OBVIOUS
<1>3. 0 \in Good
  BY <1>1, <1>2
<1>4. ASSUME NEW n \in Nat, n \in Good PROVE n + 1 \in Good
  <2>1. ASSUME n + 1 <= Len(s) PROVE W[n + 1] = X[n + 1]
    <3>1. n + 1 \in 1 .. Len(s) /\ n <= Len(s) /\ (n + 1) - 1 = n
      BY <1>0, <2>1
    <3>2. W[n] = X[n]
      BY <1>4, <3>1
    <3>3. W[n + 1] = WalkStep(W[n], s[n + 1]) /\ X[n + 1] = WalkStep(X[n], s[n + 1])
      <4>1. \A k \in 1 .. Len(s) : /\ W[k] = WalkStep(W[k - 1], s[k])
                                   /\ X[k] = WalkStep(X[k - 1], s[k])
        BY <1>1, <1>2 DEF IsWalk
      <4>2. /\ W[n + 1] = WalkStep(W[(n + 1) - 1], s[n + 1])
            /\ X[n + 1] = WalkStep(X[(n + 1) - 1], s[n + 1])
        BY <3>1, <4>1, Zenon
      <4> QED
        BY <3>1, <4>2, Zenon
    <3> QED
      BY <3>2, <3>3
  <2> QED
    BY <2>1
<1>5. \A n \in Nat : n \in Good
  <2> HIDE DEF Good
  <2> QED
    BY <1>3, <1>4, SetInduction
<1>6. W[Len(s)] = X[Len(s)]
  BY <1>0, <1>5
<1> QED
  BY <1>1, <1>2, <1>6

\* The empty walk.
LEMMA WalkNowhere ==
    ASSUME NEW V, NEW d \in Seq(V)
    PROVE  Walks(V, << >>, d, d)
<1> DEFINE W == [n \in 0 .. 0 |-> d]
<1>1. Len(<< >>) = 0
  OBVIOUS
<1>2. W \in [0 .. 0 -> Seq(V)] /\ W[0] = d
  OBVIOUS
<1> HIDE DEF W
<1>3. IsWalk(V, << >>, W)
  BY <1>1, <1>2 DEF IsWalk
<1> QED
  BY <1>1, <1>2, <1>3 DEF Walks

\* One step more.
LEMMA WalkOn ==
    ASSUME NEW V, NEW s \in Seq(V), NEW t \in V, NEW d, NEW e, Walks(V, s, d, e)
    PROVE  Walks(V, Append(s, t), d, WalkStep(e, t))
<1>1. PICK W : IsWalk(V, s, W) /\ W[0] = d /\ W[Len(s)] = e
  BY DEF Walks
<1> DEFINE m == Len(s)
           u == Append(s, t)
           X == [n \in 0 .. m + 1 |-> IF n = m + 1 THEN WalkStep(e, t) ELSE W[n]]
<1>2. /\ m \in Nat /\ Len(u) = m + 1 /\ u[m + 1] = t
      /\ \A i \in 1 .. m : u[i] = s[i]
  BY AppendProperties
<1>3. W \in [0 .. m -> Seq(V)] /\ \A n \in 1 .. m : W[n] = WalkStep(W[n - 1], s[n])
  BY <1>1 DEF IsWalk
<1>4. e \in Seq(V) /\ WalkStep(e, t) \in Seq(V)
  <2>1. W[m] \in Seq(V)
    BY <1>2, <1>3
  <2> QED
    BY <1>1, <2>1, WalkStepType
<1> HIDE DEF u, m
<1>5. X \in [0 .. m + 1 -> Seq(V)]
  BY <1>2, <1>3, <1>4
<1>6. /\ X[m + 1] = WalkStep(e, t)
      /\ \A n \in 0 .. m : X[n] = W[n]
  BY <1>2
<1> HIDE DEF X
<1>7. ASSUME NEW n \in 1 .. m + 1 PROVE X[n] = WalkStep(X[n - 1], u[n])
  <2>1. n - 1 \in 0 .. m
    BY <1>2
  <2>2. CASE n = m + 1
    <3>1. n - 1 = m
      BY <1>2, <2>2
    <3>2. X[n - 1] = e
      BY <1>1, <1>6, <2>1, <3>1 DEF m
    <3> QED
      BY <1>2, <1>6, <2>2, <3>2
  <2>3. CASE n # m + 1
    <3>1. n \in 1 .. m /\ n \in 0 .. m
      BY <1>2, <2>3
    <3> QED
      BY <1>2, <1>3, <1>6, <2>1, <3>1
  <2> QED
    BY <2>2, <2>3
<1>8. IsWalk(V, u, X)
  BY <1>2, <1>5, <1>7 DEF IsWalk
<1>9. X[0] = d /\ X[Len(u)] = WalkStep(e, t)
  BY <1>1, <1>2, <1>6
<1> QED
  BY <1>8, <1>9, Zenon DEF Walks, u

\* One step less.
LEMMA WalkBack ==
    ASSUME NEW V, NEW s \in Seq(V), s # << >>, NEW d, NEW e, Walks(V, s, d, e)
    PROVE  \E c \in Seq(V) : Walks(V, Front(s), d, c) /\ e = WalkStep(c, Last(s))
<1>1. PICK W : IsWalk(V, s, W) /\ W[0] = d /\ W[Len(s)] = e
  BY DEF Walks
<1> DEFINE m == Len(s) - 1
           f == Front(s)
           X == [n \in 0 .. m |-> W[n]]
<1>2. /\ m \in Nat /\ Len(s) = m + 1 /\ Len(f) = m /\ Last(s) = s[m + 1]
      /\ \A i \in 1 .. m : f[i] = s[i]
  <2>1. Len(s) \in Nat \ {0}
    OBVIOUS
  <2>2. /\ Len(f) = m /\ \A i \in 1 .. m : f[i] = s[i]
        /\ Last(s) = s[Len(s)]
    BY FrontProperties
  <2>3. m \in Nat /\ Len(s) = m + 1
    BY <2>1
  <2> QED
    BY <2>2, <2>3
<1>3. /\ W \in [0 .. m + 1 -> Seq(V)]
      /\ \A n \in 1 .. m + 1 : W[n] = WalkStep(W[n - 1], s[n])
  BY <1>1, <1>2 DEF IsWalk
<1> HIDE DEF f, m
<1>4. X \in [0 .. m -> Seq(V)] /\ \A n \in 0 .. m : X[n] = W[n]
  BY <1>2, <1>3
<1> HIDE DEF X
<1>5. ASSUME NEW n \in 1 .. m PROVE X[n] = WalkStep(X[n - 1], f[n])
  <2>1. n - 1 \in 0 .. m /\ n \in 0 .. m /\ n \in 1 .. m + 1
    BY <1>2
  <2> QED
    BY <1>2, <1>3, <1>4, <2>1
<1>6. IsWalk(V, f, X)
  BY <1>2, <1>4, <1>5 DEF IsWalk
<1>7. m \in 0 .. m /\ 0 \in 0 .. m /\ m + 1 \in 1 .. m + 1 /\ (m + 1) - 1 = m
  BY <1>2
<1>8. X[0] = d /\ X[Len(f)] = W[m] /\ W[m] \in Seq(V)
  BY <1>1, <1>2, <1>4, <1>7
<1>9. e = WalkStep(W[m], Last(s))
  <2>1. W[m + 1] = WalkStep(W[(m + 1) - 1], s[m + 1])
    BY <1>3, <1>7, Zenon
  <2> QED
    BY <1>1, <1>2, <1>7, <2>1
<1>10. Walks(V, f, d, W[m])
  BY <1>6, <1>8, Zenon DEF Walks
<1> QED
  BY <1>8, <1>9, <1>10 DEF f

\* A skipped token in front.
LEMMA WalkSkipping ==
    ASSUME NEW V, NEW s \in Seq(V), NEW t \in V, t \in Skipped, NEW d, NEW e, Walks(V, s, d, e)
    PROVE  Walks(V, <<t>> \o s, d, e)
<1>1. PICK W : IsWalk(V, s, W) /\ W[0] = d /\ W[Len(s)] = e
  BY DEF Walks
<1> DEFINE m == Len(s)
           u == <<t>> \o s
           X == [n \in 0 .. m + 1 |-> IF n = 0 THEN d ELSE W[n - 1]]
<1>2. /\ m \in Nat /\ Len(u) = m + 1 /\ u[1] = t
      /\ \A i \in 2 .. m + 1 : u[i] = s[i - 1]
  <2>1. <<t>> \in Seq(V) /\ Len(<<t>>) = 1 /\ <<t>>[1] = t
    OBVIOUS
  <2>2. /\ Len(u) = Len(<<t>>) + Len(s)
        /\ \A i \in 1 .. Len(<<t>>) + Len(s) :
              u[i] = IF i <= Len(<<t>>) THEN <<t>>[i] ELSE s[i - Len(<<t>>)]
    BY <2>1, ConcatProperties
  <2>3. m \in Nat /\ Len(<<t>>) + Len(s) = m + 1
    BY <2>1
  <2> HIDE DEF u, m
  <2>4. /\ \A i \in 1 .. m + 1 : u[i] = IF i <= 1 THEN <<t>>[i] ELSE s[i - 1]
        /\ Len(u) = m + 1
    BY <2>1, <2>2, <2>3, Zenon
  <2>5. 1 \in 1 .. m + 1 /\ 1 <= 1 /\ \A i \in 2 .. m + 1 : i \in 1 .. m + 1 /\ ~(i <= 1)
    BY <2>3
  <2> QED
    BY <2>1, <2>3, <2>4, <2>5, Zenon
<1>3. W \in [0 .. m -> Seq(V)] /\ \A n \in 1 .. m : W[n] = WalkStep(W[n - 1], s[n])
  BY <1>1 DEF IsWalk
<1>4. d \in Seq(V)
  BY <1>1, <1>2, <1>3
<1>e. e = W[m]
  BY <1>1
<1> HIDE DEF u, m
<1>5. X \in [0 .. m + 1 -> Seq(V)]
  BY <1>2, <1>3, <1>4
<1>6. X[0] = d /\ \A n \in 1 .. m + 1 : X[n] = W[n - 1]
  BY <1>2
<1> HIDE DEF X
<1>7. ASSUME NEW n \in 1 .. m + 1 PROVE X[n] = WalkStep(X[n - 1], u[n])
  <2>1. CASE n = 1
    <3>1. X[n] = d
      BY <1>1, <1>6, <2>1
    <3>2. X[n - 1] = d /\ u[n] = t
      BY <1>2, <1>6, <2>1
    <3> QED
      BY <3>1, <3>2, WalkStepCases
  <2>2. CASE n # 1
    <3>1. n - 1 \in 1 .. m /\ n \in 2 .. m + 1 /\ n - 1 \in 1 .. m + 1
      BY <1>2, <2>2
    <3>2. X[n] = W[n - 1] /\ X[n - 1] = W[(n - 1) - 1] /\ u[n] = s[n - 1]
      BY <1>2, <1>6, <3>1
    <3>3. W[n - 1] = WalkStep(W[(n - 1) - 1], s[n - 1])
      BY <1>3, <3>1
    <3> QED
      BY <3>2, <3>3
  <2> QED
    BY <2>1, <2>2
<1>8. IsWalk(V, u, X)
  BY <1>2, <1>5, <1>7 DEF IsWalk
<1>9. X[Len(u)] = e
  <2>1. m + 1 \in 1 .. m + 1 /\ (m + 1) - 1 = m
    BY <1>2
  <2>2. X[m + 1] = W[(m + 1) - 1]
    BY <1>6, <2>1, Zenon
  <2> QED
    BY <1>2, <1>e, <2>1, <2>2
<1> QED
  BY <1>6, <1>8, <1>9, Zenon DEF Walks, u

-----------------------------------------------------------------------------
(***************************************************************************)
(* What the loop of path_normalize keeps: segments are in normal form and  *)
(* lead where the tokens so far lead.                                      *)
(***************************************************************************)
NormalSegs(s, absolute) ==
    \A i \in 1 .. Len(s) :
        /\ s[i] \notin Skipped
        /\ s[i] = Up => ~absolute /\ \A j \in 1 .. i : s[j] = Up

LEMMA WalkType ==
    ASSUME NEW V, NEW s \in Seq(V), NEW d, NEW e, Walks(V, s, d, e)
    PROVE  e \in Seq(V)
<1>1. PICK W : IsWalk(V, s, W) /\ W[Len(s)] = e
  BY DEF Walks
<1>2. Len(s) \in 0 .. Len(s)
  OBVIOUS
<1> QED
  BY <1>1, <1>2 DEF IsWalk

\* Pushing keeps the normal form if the token may stand there.
LEMMA PushNormal ==
    ASSUME NEW V, NEW s \in Seq(V), NEW t \in V, NEW absolute, NormalSegs(s, absolute),
           t \notin Skipped, t = Up => ~absolute /\ \A j \in 1 .. Len(s) : s[j] = Up
    PROVE  NormalSegs(Append(s, t), absolute)
<1> DEFINE u == Append(s, t)
<1>1. /\ Len(s) \in Nat /\ Len(u) = Len(s) + 1 /\ u[Len(s) + 1] = t
      /\ \A i \in 1 .. Len(s) : u[i] = s[i]
  BY AppendProperties
<1> HIDE DEF u
<1>2. ASSUME NEW i \in 1 .. Len(u)
      PROVE  u[i] \notin Skipped /\ (u[i] = Up => ~absolute /\ \A j \in 1 .. i : u[j] = Up)
  <2>1. CASE i = Len(s) + 1
    <3>1. u[i] = t
      BY <1>1, <2>1
    <3>2. ASSUME t = Up, NEW j \in 1 .. i PROVE u[j] = Up
      <4>1. j = Len(s) + 1 \/ j \in 1 .. Len(s)
        BY <1>1, <2>1
      <4> QED
        BY <1>1, <3>2, <4>1
    <3> QED
      BY <3>1, <3>2
  <2>2. CASE i # Len(s) + 1
    <3>1. i \in 1 .. Len(s) /\ \A j \in 1 .. i : j \in 1 .. Len(s)
      BY <1>1, <2>2
    <3> QED
      BY <1>1, <3>1 DEF NormalSegs
  <2> QED
    BY <2>1, <2>2
<1>3. NormalSegs(u, absolute)
  BY <1>2, Zenon DEF NormalSegs
<1> QED
  BY <1>3 DEF u

\* One round: the five things a token can do.
LEMMA NormalStep ==
    ASSUME NEW V, NEW s \in Seq(V), NEW t \in V, NEW absolute \in BOOLEAN,
           NEW d \in Seq(V), NEW e, absolute => d = << >>,
           NormalSegs(s, absolute), Walks(V, s, d, e)
    PROVE  /\ NormalSegs(Normal!Step(s, t, absolute), absolute)
           /\ Walks(V, Normal!Step(s, t, absolute), d, WalkStep(e, t))
<1> DEFINE r == Normal!Step(s, t, absolute)
<1>0. Len(s) \in Nat /\ e \in Seq(V)
  BY WalkType
<1>1. CASE t \in Skipped
  <2>1. r = s /\ WalkStep(e, t) = e
    BY <1>1, StepCases, WalkStepCases
  <2> QED
    BY <2>1
<1>2. CASE t = Up /\ s # << >> /\ Last(s) # Up
  <2>1. r = Front(s)
    BY <1>2, StepCases
  <2> DEFINE f == Front(s)
  <2>2. /\ f \in Seq(V) /\ Len(f) = Len(s) - 1 /\ Last(s) \in V /\ Last(s) = s[Len(s)]
        /\ \A i \in 1 .. Len(s) - 1 : f[i] = s[i]
    BY <1>2, FrontProperties
  <2>3. PICK c \in Seq(V) : Walks(V, f, d, c) /\ e = WalkStep(c, Last(s))
    BY <1>2, WalkBack
  <2> HIDE DEF f
  <2>4. NormalSegs(f, absolute)
    <3>1. ASSUME NEW i \in 1 .. Len(f)
          PROVE  /\ f[i] \notin Skipped
                 /\ f[i] = Up => ~absolute /\ \A j \in 1 .. i : f[j] = Up
      <4>1. i \in 1 .. Len(s) /\ \A j \in 1 .. i : j \in 1 .. Len(s) - 1
        BY <1>0, <2>2
      <4>2. i \in 1 .. i
        BY <1>0, <2>2
      <4> QED
        BY <2>2, <4>1, <4>2 DEF NormalSegs
    <3> QED
      BY <3>1, Zenon DEF NormalSegs
  <2>5. Last(s) \notin Skipped
    <3>1. Len(s) \in 1 .. Len(s)
      BY <1>0, <1>2
    <3> QED
      BY <2>2, <3>1 DEF NormalSegs
  <2>6. e = Append(c, Last(s))
    BY <1>2, <2>3, <2>5, WalkStepCases
  <2>7. e # << >> /\ Front(e) = c
    BY <2>2, <2>6, FrontAppend, AppendProperties
  <2>8. WalkStep(e, t) = c
    BY <1>2, <2>7, WalkStepCases
  <2> QED
    BY <2>1, <2>3, <2>4, <2>8 DEF f
<1>3. CASE t = Up /\ ~(s # << >> /\ Last(s) # Up) /\ absolute
  <2>1. s = << >>
    <3>1. ASSUME s # << >> PROVE FALSE
      <4>1. Last(s) = s[Len(s)]
        BY <3>1, FrontProperties
      <4>2. Len(s) \in 1 .. Len(s)
        BY <1>0, <3>1
      <4> QED
        BY <1>3, <3>1, <4>1, <4>2 DEF NormalSegs
    <3> QED
      BY <3>1
  <2>2. Walks(V, s, d, d)
    BY <2>1, WalkNowhere
  <2>3. e = d
    BY <2>2, WalkUnique
  <2>4. WalkStep(e, t) = e
    BY <1>3, <2>3, WalkStepCases
  <2>5. r = s
    BY <1>3, StepCases
  <2> QED
    BY <2>4, <2>5
<1>4. CASE t = Up /\ ~(s # << >> /\ Last(s) # Up) /\ ~absolute
  <2>1. r = Append(s, t)
    BY <1>4, StepCases
  <2>2. \A j \in 1 .. Len(s) : s[j] = Up
    <3>1. CASE s = << >>
      BY <3>1
    <3>2. CASE s # << >>
      <4>1. Last(s) = s[Len(s)]
        BY <3>2, FrontProperties
      <4>2. Len(s) \in 1 .. Len(s)
        BY <1>0, <3>2
      <4> QED
        BY <1>4, <3>2, <4>1, <4>2 DEF NormalSegs
    <3> QED
      BY <3>1, <3>2
  <2>3. NormalSegs(Append(s, t), absolute)
    BY <1>4, <2>2, PushNormal, KindsOfTokens
  <2>4. Walks(V, Append(s, t), d, WalkStep(e, t))
    BY WalkOn
  <2> QED
    BY <2>1, <2>3, <2>4
<1>5. CASE t \notin Skipped /\ t # Up
  <2>1. r = Append(s, t)
    BY <1>5, StepCases
  <2>2. NormalSegs(Append(s, t), absolute)
    BY <1>5, PushNormal
  <2>3. Walks(V, Append(s, t), d, WalkStep(e, t))
    BY WalkOn
  <2> QED
    BY <2>1, <2>2, <2>3
<1> QED
  BY <1>1, <1>2, <1>3, <1>4, <1>5

\* All rounds.
LEMMA NormalLoop ==
    ASSUME NEW V, NEW p \in Seq(V), NEW absolute \in BOOLEAN, NEW R, NEW W,
           R \in [0 .. Len(p) -> Seq(V)], R[0] = << >>,
           \A n \in 1 .. Len(p) : R[n] = Normal!Step(R[n - 1], p[n], absolute),
           IsWalk(V, p, W), absolute => W[0] = << >>
    PROVE  /\ NormalSegs(R[Len(p)], absolute)
           /\ Walks(V, R[Len(p)], W[0], W[Len(p)])
<1> DEFINE Holds(n) == NormalSegs(R[n], absolute) /\ Walks(V, R[n], W[0], W[n])
           Good == {n \in Nat : n <= Len(p) => Holds(n)}
<1>0. /\ Len(p) \in Nat /\ W \in [0 .. Len(p) -> Seq(V)]
      /\ \A n \in 1 .. Len(p) : W[n] = WalkStep(W[n - 1], p[n])
  BY DEF IsWalk
<1>1. Holds(0)
  <2>1. W[0] \in Seq(V)
    BY <1>0
  <2>2. Walks(V, << >>, W[0], W[0])
    BY <2>1, WalkNowhere
  <2>3. NormalSegs(<< >>, absolute)
    BY DEF NormalSegs
  <2> QED
    BY <2>2, <2>3
<1>2. ASSUME NEW n \in Nat, n \in Good, n + 1 <= Len(p) PROVE Holds(n + 1)
  <2>1. n \in 0 .. Len(p) /\ n + 1 \in 1 .. Len(p) /\ (n + 1) - 1 = n /\ 0 \in 0 .. Len(p)
    BY <1>0, <1>2
  <2>2. NormalSegs(R[n], absolute) /\ Walks(V, R[n], W[0], W[n])
    BY <1>2, <2>1
  <2>3. R[n] \in Seq(V) /\ p[n + 1] \in V /\ W[0] \in Seq(V)
    BY <1>0, <2>1
  <2> DEFINE a == R[n]
             b == p[n + 1]
             c == W[n]
             d == W[0]
  <2>4. R[n + 1] = Normal!Step(a, b, absolute)
    <3>1. R[n + 1] = Normal!Step(R[(n + 1) - 1], p[n + 1], absolute)
      BY <2>1, Zenon
    <3> QED
      BY <2>1, <3>1, Zenon
  <2>5. W[n + 1] = WalkStep(c, b)
    <3>1. W[n + 1] = WalkStep(W[(n + 1) - 1], p[n + 1])
      BY <1>0, <2>1, Zenon
    <3> QED
      BY <2>1, <3>1, Zenon
  <2>6. /\ NormalSegs(Normal!Step(a, b, absolute), absolute)
        /\ Walks(V, Normal!Step(a, b, absolute), d, WalkStep(c, b))
    <3>1. /\ a \in Seq(V) /\ b \in V /\ d \in Seq(V) /\ (absolute => d = << >>)
          /\ NormalSegs(a, absolute) /\ Walks(V, a, d, c)
      BY <2>2, <2>3
    <3> HIDE DEF a, b, c, d
    <3> QED
      BY <3>1, NormalStep
  <2> HIDE DEF a, b, c
  <2> QED
    BY <2>4, <2>5, <2>6
<1> HIDE DEF Holds
<1>3. 0 \in Good
  BY <1>1
<1>4. ASSUME NEW n \in Nat, n \in Good PROVE n + 1 \in Good
  BY <1>2, <1>4
<1>5. \A n \in Nat : n \in Good
  <2> HIDE DEF Good
  <2> QED
    BY <1>3, <1>4, SetInduction
<1>6. Holds(Len(p))
  BY <1>0, <1>5
<1> QED
  BY <1>6 DEF Holds

\* The four forms of the result, in one: what is in front of the segments.
Lead(s, absolute) ==
    IF s = << >> THEN IF absolute THEN << << >>, << >> >> ELSE << << >> >>
    ELSE IF absolute THEN << << >> >> ELSE << >>

LEMMA JoinedPath ==
    ASSUME NEW V, << >> \in V, NEW s \in Seq(V), NEW absolute \in BOOLEAN,
           NormalSegs(s, absolute)
    PROVE  LET q == Normal!Join(s, absolute)
               k == Len(Lead(s, absolute))
           IN  /\ q \in Seq(V)
               /\ k \in Nat /\ Len(q) = k + Len(s) /\ Len(q) # 0
               /\ \A i \in 1 .. k : q[i] = << >>
               /\ \A i \in 1 .. Len(s) : q[k + i] = s[i]
               /\ Normal!is_absolute(q) = absolute
<1> DEFINE q == Normal!Join(s, absolute)
           k == Len(Lead(s, absolute))
<1>0. Len(s) \in Nat
  OBVIOUS
<1>1. CASE s = << >> /\ absolute
  <2>1. q = << << >>, << >> >> /\ Lead(s, absolute) = << << >>, << >> >>
    BY <1>1, Zenon DEF Normal!Join, Lead
  <2> HIDE DEF q
  <2>a. ASSUME NEW e \in V PROVE /\ Len(<<e, e>>) = 2 /\ <<e, e>>[1] = e /\ <<e, e>>[2] = e
                                 /\ <<e, e>> \in Seq(V)
    OBVIOUS
  <2>b. Len(s) = 0
    BY <1>1
  <2>2. k = 2 /\ Len(q) = 2 /\ q[1] = << >> /\ q[2] = << >> /\ q \in Seq(V) /\ Len(s) = 0
    BY <2>1, <2>a, <2>b, Zenon
  <2>3. Normal!is_absolute(q)
    BY <2>2 DEF Normal!is_absolute
  <2>4. \A i \in 1 .. 2 : i = 1 \/ i = 2
    OBVIOUS
  <2> HIDE DEF k
  <2>5. Normal!is_absolute(q) = absolute
    BY <1>1, <2>3 DEF Normal!is_absolute
  <2>6. \A i \in 1 .. k : q[i] = << >>
    BY <2>2, <2>4, Zenon
  <2>7. /\ k \in Nat /\ Len(q) = k + Len(s) /\ Len(q) # 0
        /\ \A i \in 1 .. Len(s) : q[k + i] = s[i]
    BY <2>2
  <2> QED
    BY <2>2, <2>5, <2>6, <2>7, Zenon DEF q, k
<1>2. CASE s = << >> /\ ~absolute
  <2>1. q = << << >> >> /\ Lead(s, absolute) = << << >> >>
    BY <1>2, Zenon DEF Normal!Join, Lead
  <2> HIDE DEF q
  <2>2. k = 1 /\ Len(q) = 1 /\ q[1] = << >> /\ q \in Seq(V) /\ Len(s) = 0
    BY <1>2, <2>1
  <2>3. ~Normal!is_absolute(q)
    BY <2>2 DEF Normal!is_absolute
  <2>4. \A i \in 1 .. 1 : i = 1
    OBVIOUS
  <2> HIDE DEF k
  <2>5. Normal!is_absolute(q) = absolute
    BY <1>2, <2>3 DEF Normal!is_absolute
  <2> QED
    BY <2>2, <2>4, <2>5 DEF q, k
<1>3. CASE s # << >> /\ absolute
  <2>1. q = << << >> >> \o s /\ Lead(s, absolute) = << << >> >>
    BY <1>3, Zenon DEF Normal!Join, Lead
  <2> DEFINE o == << << >> >>
  <2>2. o \in Seq(V) /\ Len(o) = 1 /\ o[1] = << >>
    OBVIOUS
  <2>3. k = 1
    BY <2>1
  <2> HIDE DEF q, k, o
  <2>4. /\ q \in Seq(V) /\ Len(q) = Len(o) + Len(s)
        /\ \A i \in 1 .. Len(o) + Len(s) : q[i] = IF i <= Len(o) THEN o[i] ELSE s[i - Len(o)]
    BY <2>1, <2>2, ConcatProperties DEF o
  <2>5. Len(q) = 1 + Len(s) /\ 1 \in 1 .. 1 + Len(s) /\ q[1] = << >>
    BY <1>0, <2>2, <2>4
  <2>6. ASSUME NEW i \in 1 .. Len(s) PROVE q[1 + i] = s[i]
    <3>1. 1 + i \in 1 .. 1 + Len(s) /\ ~(1 + i <= 1) /\ (1 + i) - 1 = i
      BY <1>0
    <3>2. q[1 + i] = s[(1 + i) - 1]
      BY <2>2, <2>4, <3>1
    <3> QED
      BY <3>1, <3>2
  <2>7. Len(s) > 0 /\ Len(q) > 1 /\ Len(q) # 0
    BY <1>0, <1>3, <2>5
  <2>8. Normal!is_absolute(q) = absolute
    BY <1>3, <2>5, <2>7 DEF Normal!is_absolute
  <2>9. \A i \in 1 .. 1 : i = 1
    OBVIOUS
  <2>10. \A i \in 1 .. k : q[i] = << >>
    BY <2>3, <2>5, <2>9, Zenon
  <2>11. k \in Nat /\ Len(q) = k + Len(s) /\ Len(q) # 0
    BY <2>3, <2>5, <2>7
  <2>12. \A i \in 1 .. Len(s) : q[k + i] = s[i]
    BY <2>3, <2>6
  <2> QED
    BY <2>4, <2>8, <2>10, <2>11, <2>12, Zenon DEF q, k
<1>4. CASE s # << >> /\ ~absolute
  <2>1. q = s /\ Lead(s, absolute) = << >>
    BY <1>4, Zenon DEF Normal!Join, Lead
  <2>2. k = 0
    BY <2>1
  <2>3. Len(s) # 0 /\ 1 \in 1 .. Len(s)
    BY <1>0, <1>4
  <2>4. s[1] # << >>
    BY <2>3, KindsOfTokens DEF NormalSegs
  <2>5. Normal!is_absolute(s) = absolute
    BY <1>4, <2>4 DEF Normal!is_absolute
  <2>6. \A i \in 1 .. Len(s) : 0 + i = i
    OBVIOUS
  <2> HIDE DEF q, k
  <2> QED
    BY <1>0, <2>1, <2>2, <2>3, <2>5, <2>6 DEF q, k
<1> QED
  BY <1>1, <1>2, <1>3, <1>4

\* The result leads where its segments lead.
LEMMA JoinedWalk ==
    ASSUME NEW V, << >> \in V, NEW s \in Seq(V), NEW absolute \in BOOLEAN,
           NEW d, NEW e, Walks(V, s, d, e)
    PROVE  Walks(V, Normal!Join(s, absolute), d, e)
<1>0. << >> \in Skipped
  BY KindsOfTokens
<1>1. CASE s # << >>
  <2>1. Normal!Join(s, absolute) = IF absolute THEN << << >> >> \o s ELSE s
    BY <1>1, Zenon DEF Normal!Join
  <2>2. Walks(V, << << >> >> \o s, d, e)
    BY <1>0, WalkSkipping
  <2> QED
    BY <2>1, <2>2
<1>2. CASE s = << >>
  <2>1. Normal!Join(s, absolute) = IF absolute THEN << << >>, << >> >> ELSE << << >> >>
    BY <1>2, Zenon DEF Normal!Join
  <2>2. Walks(V, << << >> >> \o s, d, e)
    BY <1>0, WalkSkipping
  <2>3. << << >> >> \o s = << << >> >>
    BY <1>2
  <2> DEFINE o == << << >> >>
  <2>a. o \in Seq(V)
    OBVIOUS
  <2>4. o \in Seq(V) /\ Walks(V, o, d, e)
    BY <2>2, <2>3, <2>a, Zenon
  <2>b. ASSUME NEW a, NEW b PROVE <<a>> \o <<b>> = <<a, b>>
    <3> DEFINE x == <<a>>
               y == <<b>>
               u == x \o y
               z == <<a, b>>
               T == {a, b}
    <3>1. /\ x \in Seq(T) /\ Len(x) = 1 /\ x[1] = a
          /\ y \in Seq(T) /\ Len(y) = 1 /\ y[1] = b
      OBVIOUS
    <3>2. z \in Seq(T) /\ Len(z) = 2 /\ z[1] = a /\ z[2] = b
      OBVIOUS
    <3> HIDE DEF x, y, z, T
    <3>3. /\ u \in Seq(T) /\ Len(u) = Len(x) + Len(y)
          /\ \A i \in 1 .. Len(x) + Len(y) : u[i] = IF i <= Len(x) THEN x[i] ELSE y[i - Len(x)]
      BY <3>1, ConcatProperties
    <3> HIDE DEF u
    <3>4. Len(u) = 2 /\ u[1] = a /\ u[2] = b
      BY <3>1, <3>3
    <3>5. \A i \in 1 .. 2 : i = 1 \/ i = 2
      OBVIOUS
    <3>6. \A i \in 1 .. Len(u) : u[i] = z[i]
      BY <3>2, <3>4, <3>5
    <3>7. u = z
      BY <3>2, <3>3, <3>4, <3>6, SeqEqual
    <3> QED
      BY <3>7 DEF u, x, y, z
  <2>5. << << >> >> \o o = << << >>, << >> >>
    BY <2>b, Zenon
  <2> HIDE DEF o
  <2>6. Walks(V, << << >> >> \o o, d, e)
    BY <1>0, <2>4, WalkSkipping
  <2> QED
    BY <2>1, <2>4, <2>5, <2>6 DEF o
<1> QED
  BY <1>1, <1>2

\* The result is what IsNormal calls normal.
LEMMA JoinedIsNormal ==
    ASSUME NEW V, << >> \in V, NEW s \in Seq(V), NEW absolute \in BOOLEAN,
           NormalSegs(s, absolute)
    PROVE  IsNormal(Normal!Join(s, absolute))
<1> DEFINE q == Normal!Join(s, absolute)
<1>1. CASE s = << >>
  <2>1. q = IF absolute THEN << << >>, << >> >> ELSE << << >> >>
    BY <1>1, Zenon DEF Normal!Join
  <2>2. q \in {<< << >> >>, << << >>, << >> >>}
    BY <2>1
  <2> HIDE DEF q
  <2>3. IsNormal(q)
    BY <2>2, Zenon DEF IsNormal
  <2> QED
    BY <2>3 DEF q
<1>2. CASE s # << >>
  <2>1. Normal!is_absolute(q) = absolute
    BY JoinedPath
  <2>2. q = IF absolute THEN << << >> >> \o s ELSE s
    BY <1>2, Zenon DEF Normal!Join
  <2>3. Tail(<< << >> >> \o s) = s
    <3> DEFINE o == << << >> >>
               u == o \o s
    <3>1. o \in Seq(V) /\ Len(o) = 1 /\ Len(s) \in Nat
      OBVIOUS
    <3> HIDE DEF o
    <3>2. /\ u \in Seq(V) /\ Len(u) = Len(o) + Len(s)
          /\ \A i \in 1 .. Len(o) + Len(s) : u[i] = IF i <= Len(o) THEN o[i] ELSE s[i - Len(o)]
      BY <3>1, ConcatProperties
    <3> HIDE DEF u
    <3>3. u # << >> /\ Len(u) = 1 + Len(s)
      BY <3>1, <3>2
    <3>4. /\ Tail(u) \in Seq(V) /\ Len(Tail(u)) = Len(u) - 1
          /\ \A i \in 1 .. Len(Tail(u)) : Tail(u)[i] = u[i + 1]
      BY <3>2, <3>3, HeadTailProperties
    <3>5. Len(Tail(u)) = Len(s)
      BY <3>1, <3>3, <3>4
    <3>6. ASSUME NEW i \in 1 .. Len(s) PROVE Tail(u)[i] = s[i]
      <4>1. i + 1 \in 1 .. 1 + Len(s) /\ ~(i + 1 <= 1) /\ (i + 1) - 1 = i
        BY <3>1
      <4>2. u[i + 1] = s[(i + 1) - 1]
        BY <3>1, <3>2, <4>1
      <4> QED
        BY <3>4, <3>5, <4>1, <4>2
    <3>7. Tail(u) = s
      BY <3>4, <3>5, <3>6, SeqEqual
    <3> QED
      BY <3>7 DEF u, o
  <2> DEFINE body == IF Normal!is_absolute(q) THEN Tail(q) ELSE q
  <2>4. body = s
    BY <2>1, <2>2, <2>3
  <2>5. \A i \in DOMAIN s :
           /\ s[i] \notin {<< >>, <<".">>}
           /\ s[i] = <<".", ".">> => ~absolute /\ \A j \in 1 .. i : s[j] = <<".", ".">>
    <3>1. DOMAIN s = 1 .. Len(s)
      OBVIOUS
    <3> QED
      BY <3>1, Zenon DEF NormalSegs, Skipped, Up
  <2>6. \A i \in DOMAIN body :
           /\ body[i] \notin {<< >>, <<".">>}
           /\ body[i] = <<".", ".">> =>
                 ~Normal!is_absolute(q) /\ \A j \in 1 .. i : body[j] = <<".", ".">>
    <3> HIDE DEF body, q
    <3> QED
      BY <2>1, <2>4, <2>5, Zenon
  <2> HIDE DEF q
  <2>7. IsNormal(q)
    BY <2>6, Zenon DEF IsNormal
  <2> QED
    BY <2>7 DEF q
<1> QED
  BY <1>1, <1>2

\* Normalising the result again pushes its segments one by one.
LEMMA NormalStays ==
    ASSUME NEW V, << >> \in V, NEW s \in Seq(V), NEW absolute \in BOOLEAN,
           NormalSegs(s, absolute)
    PROVE  Normal!path_normalize(Normal!Join(s, absolute)) = Normal!Join(s, absolute)
<1> DEFINE q == Normal!Join(s, absolute)
           k == Len(Lead(s, absolute))
<1>0. Len(s) \in Nat /\ \A i \in 1 .. Len(s) : s[i] \in V
  OBVIOUS
<1>1. /\ q \in Seq(V)
      /\ k \in Nat /\ Len(q) = k + Len(s)
      /\ \A i \in 1 .. k : q[i] = << >>
      /\ \A i \in 1 .. Len(s) : q[k + i] = s[i]
      /\ Normal!is_absolute(q) = absolute
  BY JoinedPath
<1> HIDE DEF q, k
<1>2. PICK R : /\ Normal!path_normalize(q) = Normal!Join(R[Len(q)], absolute)
               /\ R \in [0 .. Len(q) -> Seq(V)]
               /\ R[0] = << >>
               /\ \A n \in 1 .. Len(q) : R[n] = Normal!Step(R[n - 1], q[n], absolute)
  <2>1. q \in Seq(V) /\ absolute = Normal!is_absolute(q)
    BY <1>1
  <2> QED
    BY ONLY <2>1, NormalizeDef, SMTT(40)
<1>3. ASSUME NEW n \in Nat, n + 1 <= Len(q)
      PROVE  R[n + 1] = Normal!Step(R[n], q[n + 1], absolute)
  <2>1. n + 1 \in 1 .. Len(q) /\ (n + 1) - 1 = n
    BY <1>0, <1>1, <1>3
  <2>2. R[n + 1] = Normal!Step(R[(n + 1) - 1], q[n + 1], absolute)
    BY <1>2, <2>1, Zenon
  <2> QED
    BY <2>1, <2>2, Zenon
<1>4. R[k] = << >>
  <2> DEFINE Good == {n \in Nat : n <= k => R[n] = << >>}
  <2>1. 0 \in Good
    BY <1>2
  <2>2. ASSUME NEW n \in Nat, n \in Good PROVE n + 1 \in Good
    <3>1. ASSUME n + 1 <= k PROVE R[n + 1] = << >>
      <4>1. n <= k /\ n + 1 <= Len(q) /\ n + 1 \in 1 .. k
        BY <1>0, <1>1, <3>1
      <4>2. R[n] = << >> /\ q[n + 1] = << >>
        BY <1>1, <2>2, <4>1
      <4>3. R[n + 1] = Normal!Step(R[n], q[n + 1], absolute)
        BY <1>3, <4>1
      <4> QED
        BY <4>2, <4>3, StepCases, KindsOfTokens
    <3> QED
      BY <3>1
  <2> HIDE DEF Good
  <2>3. \A n \in Nat : n \in Good
    BY <2>1, <2>2, SetInduction
  <2> QED
    BY <1>1, <2>3 DEF Good
<1> DEFINE Pushed(n) == Len(R[k + n]) = n /\ \A i \in 1 .. n : R[k + n][i] = s[i]
           Good == {n \in Nat : n <= Len(s) => Pushed(n)}
<1>5. Pushed(0)
  BY <1>1, <1>4
<1>6. ASSUME NEW n \in Nat, Pushed(n), n + 1 <= Len(s) PROVE Pushed(n + 1)
  <2> DEFINE r == R[k + n]
             t == s[n + 1]
  <2>1. /\ k + n \in Nat /\ k + n \in 0 .. Len(q) /\ (k + n) + 1 <= Len(q)
        /\ (k + n) + 1 = k + (n + 1) /\ n + 1 \in 1 .. Len(s)
    BY <1>0, <1>1, <1>6
  <2>2. r \in Seq(V) /\ t \in V /\ Len(r) = n /\ \A i \in 1 .. n : r[i] = s[i]
    BY <1>0, <1>2, <1>6, <2>1
  <2>3. R[k + (n + 1)] = Normal!Step(r, t, absolute)
    <3>1. R[(k + n) + 1] = Normal!Step(R[k + n], q[(k + n) + 1], absolute)
      BY <1>3, <2>1
    <3>2. q[k + (n + 1)] = s[n + 1]
      BY <1>1, <2>1
    <3> QED
      BY <2>1, <3>1, <3>2, Zenon
  <2>4. t \notin Skipped /\ (t = Up => ~absolute /\ \A j \in 1 .. n + 1 : s[j] = Up)
    BY <2>1, Zenon DEF NormalSegs
  <2> HIDE DEF r, t
  <2>5. Normal!Step(r, t, absolute) = Append(r, t)
    <3>1. CASE t # Up
      BY <2>4, <3>1, StepCases
    <3>2. CASE t = Up
      <4>1. ASSUME r # << >> PROVE Last(r) = Up
        <5>1. Last(r) = r[Len(r)]
          BY <2>2, <4>1, FrontProperties
        <5>2. Len(r) # 0
          BY <2>2, <4>1
        <5>3. n \in 1 .. n /\ n \in 1 .. n + 1
          BY <2>2, <5>2
        <5> QED
          BY <2>2, <2>4, <3>2, <5>1, <5>3
      <4> QED
        BY <2>4, <3>2, <4>1, StepCases
    <3> QED
      BY <3>1, <3>2
  <2> DEFINE u == Append(r, t)
  <2>6. Len(u) = Len(r) + 1 /\ u[Len(r) + 1] = t /\ \A i \in 1 .. Len(r) : u[i] = r[i]
    BY <2>2, AppendProperties
  <2>7. R[k + (n + 1)] = u
    BY <2>3, <2>5
  <2> HIDE DEF u
  <2>8. ASSUME NEW i \in 1 .. n + 1 PROVE u[i] = s[i]
    <3>1. i = n + 1 \/ i \in 1 .. n
      OBVIOUS
    <3> QED
      BY <2>2, <2>6, <3>1 DEF t
  <2> QED
    BY <2>2, <2>6, <2>7, <2>8
<1> HIDE DEF Pushed
<1>7. 0 \in Good
  BY <1>5
<1>8. ASSUME NEW n \in Nat, n \in Good PROVE n + 1 \in Good
  <2>1. n + 1 <= Len(s) => n <= Len(s)
    BY <1>0
  <2> QED
    BY <1>6, <1>8, <2>1
<1>9. \A n \in Nat : n \in Good
  <2> HIDE DEF Good
  <2> QED
    BY <1>7, <1>8, SetInduction
<1>10. Pushed(Len(s))
  BY <1>0, <1>9
<1>11. R[Len(q)] = s
  <2> DEFINE r == R[Len(q)]
  <2>1. Len(q) = k + Len(s) /\ Len(q) \in 0 .. Len(q)
    BY <1>0, <1>1
  <2>2. r \in Seq(V)
    BY <1>2, <2>1
  <2>3. Len(r) = Len(s) /\ \A i \in 1 .. Len(s) : r[i] = s[i]
    BY <1>10, <2>1, Zenon DEF Pushed
  <2> HIDE DEF r
  <2>4. r = s
    BY <2>2, <2>3, SeqEqual
  <2> QED
    BY <2>4 DEF r
<1>12. Normal!path_normalize(q) = Normal!Join(s, absolute)
  BY <1>2, <1>11
<1> QED
  BY <1>12 DEF q

\* All that NormalFormOfSamePath says, for any path over any tokens.
LEMMA NormalizeIsNormal ==
    ASSUME NEW V, << >> \in V, NEW p \in Seq(V), Cwd \in Seq(V)
    PROVE  LET q == Normal!path_normalize(p)
           IN  /\ Walk(q) = Walk(p)
               /\ Normal!is_absolute(q) = Normal!is_absolute(p)
               /\ IsNormal(q)
               /\ Normal!path_normalize(q) = q
<1> DEFINE absolute == Normal!is_absolute(p)
           q == Normal!path_normalize(p)
           d == IF absolute THEN << >> ELSE Cwd
<1>1. absolute \in BOOLEAN
  BY DEF Normal!is_absolute
<1>2. PICK R : /\ q = Normal!Join(R[Len(p)], absolute)
               /\ R \in [0 .. Len(p) -> Seq(V)]
               /\ R[0] = << >>
               /\ \A n \in 1 .. Len(p) : R[n] = Normal!Step(R[n - 1], p[n], absolute)
  BY NormalizeDef
<1>3. d \in Seq(V)
  OBVIOUS
<1>4. Walks(V, p, d, Walk(p))
  BY <1>3, WalkDef
<1>5. PICK W : IsWalk(V, p, W) /\ W[0] = d /\ W[Len(p)] = Walk(p)
  BY <1>4, Zenon DEF Walks
<1>6. absolute => W[0] = << >>
  BY <1>5
<1> DEFINE s == R[Len(p)]
<1>7. s \in Seq(V)
  BY <1>2
<1> HIDE DEF q, d, absolute
<1>8. NormalSegs(s, absolute) /\ Walks(V, s, W[0], W[Len(p)])
  BY <1>1, <1>2, <1>5, <1>6, NormalLoop
<1> HIDE DEF s
<1>9. Walks(V, s, d, Walk(p))
  BY <1>5, <1>8
<1>10. q = Normal!Join(s, absolute)
  BY <1>2 DEF s
<1>11. q \in Seq(V) /\ Normal!is_absolute(q) = absolute
  BY <1>1, <1>7, <1>8, <1>10, JoinedPath
<1>12. Walks(V, q, d, Walk(p))
  BY <1>1, <1>7, <1>9, <1>10, JoinedWalk
<1>13. d = IF Normal!is_absolute(q) THEN << >> ELSE Cwd
  BY <1>11 DEF d
<1>14. Walks(V, q, d, Walk(q))
  BY <1>3, <1>11, <1>13, WalkDef
<1>15. Walk(q) = Walk(p)
  BY <1>11, <1>12, <1>14, WalkUnique
<1>16. IsNormal(q)
  BY <1>1, <1>7, <1>8, <1>10, JoinedIsNormal
<1>17. Normal!path_normalize(q) = q
  BY <1>1, <1>7, <1>8, <1>10, NormalStays
<1> QED
  BY <1>11, <1>15, <1>16, <1>17, Zenon DEF q, absolute

-----------------------------------------------------------------------------
\* path is what path_normalize made of input.
PathInv == path # None => \E p \in Paths : input = [given |-> p] /\ path = Normal!path_normalize(p)

LEMMA PathInvInductive ==
    ASSUME PathInv, [MCNext]_<<vars, input, uri, path>>
    PROVE  PathInv'
<1> USE DEF PathInv
<1>1. CASE Parse
  BY <1>1 DEF Parse
<1>2. CASE Normalize
  <2>1. PICK p \in Paths : input' = [given |-> p] /\ path' = Normal!path_normalize(p)
    BY <1>2 DEF Normalize
  <2> QED
    BY <2>1, Zenon
<1>3. CASE Route
  BY <1>3 DEF Route
<1>4. CASE UNCHANGED <<vars, input, uri, path>>
  BY <1>4
<1> QED
  BY <1>1, <1>2, <1>3, <1>4 DEF MCNext

LEMMA PathInvNormal == ASSUME PathInv PROVE NormalFormOfSamePath
<1>1. SUFFICES ASSUME path # None
               PROVE  /\ Walk(path) = Walk(input.given)
                      /\ Normal!is_absolute(path) = Normal!is_absolute(input.given)
                      /\ IsNormal(path)
                      /\ Normal!path_normalize(path) = path
  BY DEF NormalFormOfSamePath
<1>2. PICK p \in Paths : input = [given |-> p] /\ path = Normal!path_normalize(p)
  BY <1>1 DEF PathInv
<1> DEFINE V == Tokens \cup {"cwd"}
<1>3. << >> \in V
  BY DEF Tokens
<1>4. p \in Seq(V)
  <2>1. PICK n \in 1 .. MaxTokens : p \in [1 .. n -> Tokens]
    BY <1>2 DEF Paths
  <2>2. n \in Nat
    BY <2>1, BoundAssumption
  <2>3. p \in [1 .. n -> V]
    BY <2>1
  <2> HIDE DEF V
  <2> QED
    BY <2>2, <2>3
<1>5. Cwd \in Seq(V)
  <2>1. Cwd \in [1 .. MaxTokens -> V]
    BY DEF Cwd
  <2> HIDE DEF V
  <2> QED
    BY <2>1, BoundAssumption
<1>6. input.given = p
  BY <1>2
<1> HIDE DEF V
<1> QED
  BY <1>2, <1>3, <1>4, <1>5, <1>6, NormalizeIsNormal

(***************************************************************************)
(* path_normalize, for paths of any length: the result leads to the same   *)
(* directory, is absolute if the path was, is in normal form and is left   *)
(* alone by a second call.                                                 *)
(***************************************************************************)
THEOREM NormalizeKeepsMeaning == MCSpec => []NormalFormOfSamePath
<1>1. MCInit => PathInv
  BY DEF MCInit, PathInv
<1> QED
  BY <1>1, PathInvInductive, PathInvNormal, PTL DEF MCSpec

-----------------------------------------------------------------------------
(***************************************************************************)
(* Percent-decoding undoes the encoding.  What decode_percent finds at     *)
(* position i of src is the end, a malformed escape, an escape or a plain  *)
(* character; the flag slash is set in all its calls.                      *)
(***************************************************************************)
Malformed(src, i) ==
    /\ i \in 1 .. Len(src) /\ src[i] = "%"
    /\ i + 2 > Len(src) \/ ~({src[i + 1], src[i + 2]} \subseteq HexDigits)

Escape(src, i) ==
    /\ i \in 1 .. Len(src) /\ src[i] = "%"
    /\ i + 2 <= Len(src) /\ src[i + 1] \in HexDigits /\ src[i + 2] \in HexDigits

Plain(src, i) == i \in 1 .. Len(src) /\ src[i] # "%"

Shown(c, space) == IF c = "+" /\ space THEN " " ELSE c

\* Nothing more was decoded; x is y with t in front.
Ends(x, ok) == x.ok = ok /\ x.res = << >>

Prepends(t, x, y) == x.ok = y.ok /\ x.res = t \o y.res

IsDecoding(src, space, R) ==
    /\ R \in [1 .. Len(src) + 1 -> Decoded]
    /\ \A i \in 1 .. Len(src) + 1 : R[i] = DecodeStep(src, TRUE, space, R, i)

LEMMA DecodingExists ==
    ASSUME NEW src \in Text, NEW space
    PROVE  \E R : decode_percent(src, TRUE, space) = R[1] /\ IsDecoding(src, space, R)
BY DecodeDef DEF IsDecoding

LEMMA KindsOfPositions ==
    ASSUME NEW src \in Text, NEW i \in 1 .. Len(src) + 1
    PROVE  i = Len(src) + 1 \/ Malformed(src, i) \/ Escape(src, i) \/ Plain(src, i)
<1>0. Len(src) \in Nat
  BY DEF Text
<1>1. CASE i # Len(src) + 1 /\ src[i] = "%"
  <2>1. i \in 1 .. Len(src)
    BY <1>0, <1>1
  <2>2. i + 2 > Len(src) \/ i + 2 <= Len(src)
    BY <1>0
  <2> QED
    BY <1>1, <2>1, <2>2 DEF Malformed, Escape
<1> QED
  BY <1>0, <1>1 DEF Plain

LEMMA DecodingCases ==
    ASSUME NEW src \in Text, NEW space, NEW R, IsDecoding(src, space, R),
           NEW i \in 1 .. Len(src) + 1
    PROVE  /\ R[i].ok \in BOOLEAN /\ R[i].res \in Text
           /\ i = Len(src) + 1 => Ends(R[i], TRUE)
           /\ Malformed(src, i) => Ends(R[i], FALSE)
           /\ Escape(src, i) =>
                 /\ i + 3 \in 1 .. Len(src) + 1
                 /\ Prepends(<<Byte(src[i + 1], src[i + 2])>>, R[i], R[i + 3])
           /\ Plain(src, i) =>
                 /\ i + 1 \in 1 .. Len(src) + 1
                 /\ Prepends(<<Shown(src[i], space)>>, R[i], R[i + 1])
<1>0. Len(src) \in Nat
  BY DEF Text
<1>1. R[i] = DecodeStep(src, TRUE, space, R, i) /\ \A j \in 1 .. Len(src) + 1 : R[j] \in Decoded
  BY DEF IsDecoding
<1>2. R[i].ok \in BOOLEAN /\ R[i].res \in Text
  BY <1>1 DEF Decoded
<1>a. ASSUME NEW r \in Decoded, NEW t
      PROVE  Prepends(t, [r EXCEPT !.res = t \o @], r)
  BY DEF Decoded, Prepends
<1>3. ASSUME i = Len(src) + 1 PROVE Ends(R[i], TRUE)
  <2>1. i > Len(src) /\ ~(i <= Len(src))
    BY <1>0, <1>3
  <2>2. R[i] = [ok |-> TRUE, res |-> << >>]
    BY <1>1, <2>1, Zenon DEF DecodeStep
  <2> QED
    BY <2>2 DEF Ends
<1>4. ASSUME Malformed(src, i) PROVE Ends(R[i], FALSE)
  <2>1. /\ ~(i > Len(src)) /\ i <= Len(src) /\ src[i] = "%"
        /\ i + 2 > Len(src) \/ ~({src[i + 1], src[i + 2]} \subseteq HexDigits)
    BY <1>0, <1>4 DEF Malformed
  <2>2. R[i] = [ok |-> FALSE, res |-> << >>]
    BY <1>1, <2>1, Zenon DEF DecodeStep
  <2> QED
    BY <2>2 DEF Ends
<1>5. ASSUME Escape(src, i)
      PROVE  /\ i + 3 \in 1 .. Len(src) + 1
             /\ Prepends(<<Byte(src[i + 1], src[i + 2])>>, R[i], R[i + 3])
  <2>1. /\ ~(i > Len(src)) /\ i <= Len(src) /\ src[i] = "%"
        /\ ~(i + 2 > Len(src)) /\ i + 3 \in 1 .. Len(src) + 1
    BY <1>0, <1>5 DEF Escape
  <2>2. {src[i + 1], src[i + 2]} \subseteq HexDigits
    BY <1>5 DEF Escape
  <2> DEFINE byte == Byte(src[i + 1], src[i + 2])
             t == <<byte>>
  <2>3. R[i] = [R[i + 3] EXCEPT !.res = t \o @]
    BY <1>1, <2>1, <2>2, Zenon DEF DecodeStep
  <2> HIDE DEF t
  <2> QED
    BY <1>1, <1>a, <2>1, <2>3 DEF t
<1>6. ASSUME Plain(src, i)
      PROVE  /\ i + 1 \in 1 .. Len(src) + 1
             /\ Prepends(<<Shown(src[i], space)>>, R[i], R[i + 1])
  <2>1. ~(i > Len(src)) /\ i <= Len(src) /\ src[i] # "%" /\ i + 1 \in 1 .. Len(src) + 1
    BY <1>0, <1>6 DEF Plain
  <2> DEFINE t == <<Shown(src[i], space)>>
  <2>2. R[i] = [R[i + 1] EXCEPT !.res = t \o @]
    BY <1>1, <2>1, Zenon DEF DecodeStep, Shown
  <2> HIDE DEF t
  <2> QED
    BY <1>1, <1>a, <2>1, <2>2 DEF t
<1> QED
  BY <1>2, <1>3, <1>4, <1>5, <1>6

\* The two parts of a concatenation.
LEMMA ConcatParts ==
    ASSUME NEW V, NEW a \in Seq(V), NEW b \in Seq(V)
    PROVE  /\ a \o b \in Seq(V)
           /\ Len(a) \in Nat /\ Len(b) \in Nat /\ Len(a \o b) = Len(a) + Len(b)
           /\ \A i \in 1 .. Len(a) : (a \o b)[i] = a[i]
           /\ \A i \in 1 .. Len(b) : (a \o b)[Len(a) + i] = b[i]
<1> DEFINE c == a \o b
<1>1. /\ c \in Seq(V) /\ Len(a) \in Nat /\ Len(b) \in Nat /\ Len(c) = Len(a) + Len(b)
      /\ \A i \in 1 .. Len(a) + Len(b) : c[i] = IF i <= Len(a) THEN a[i] ELSE b[i - Len(a)]
  BY ConcatProperties
<1> HIDE DEF c
<1>2. ASSUME NEW i \in 1 .. Len(a) PROVE c[i] = a[i]
  <2>1. i \in 1 .. Len(a) + Len(b) /\ i <= Len(a)
    BY <1>1
  <2> QED
    BY <1>1, <2>1
<1>3. ASSUME NEW i \in 1 .. Len(b) PROVE c[Len(a) + i] = b[i]
  <2>1. /\ Len(a) + i \in 1 .. Len(a) + Len(b) /\ ~(Len(a) + i <= Len(a))
        /\ (Len(a) + i) - Len(a) = i
    BY <1>1
  <2>2. c[Len(a) + i] = b[(Len(a) + i) - Len(a)]
    BY <1>1, <2>1, Zenon
  <2> QED
    BY <2>1, <2>2
<1> QED
  BY <1>1, <1>2, <1>3 DEF c

\* Positions of a part and of the whole are of one kind.
SameEscape(c, j, b, i) == Escape(c, j) /\ c[j + 1] = b[i + 1] /\ c[j + 2] = b[i + 2]

SamePlain(c, j, b, i) == Plain(c, j) /\ c[j] = b[i]

LEMMA KindsInEnd ==
    ASSUME NEW a \in Text, NEW b \in Text, NEW c, c = a \o b,
           NEW i \in 1 .. Len(b), NEW j, j = Len(a) + i
    PROVE  /\ Malformed(b, i) => Malformed(c, j)
           /\ Escape(b, i) => SameEscape(c, j, b, i)
           /\ Plain(b, i) => SamePlain(c, j, b, i)
<1>1. /\ Len(a) \in Nat /\ Len(b) \in Nat /\ Len(c) = Len(a) + Len(b)
      /\ \A k \in 1 .. Len(b) : c[Len(a) + k] = b[k]
  BY ConcatParts DEF Text
<1>2. ASSUME i + 2 <= Len(b) PROVE c[j + 1] = b[i + 1] /\ c[j + 2] = b[i + 2]
  <2>1. /\ i + 1 \in 1 .. Len(b) /\ i + 2 \in 1 .. Len(b)
        /\ j + 1 = Len(a) + (i + 1) /\ j + 2 = Len(a) + (i + 2)
    BY <1>1, <1>2
  <2> QED
    BY <1>1, <2>1
<1>3. /\ j \in 1 .. Len(c) /\ c[j] = b[i]
      /\ i + 2 <= Len(b) <=> j + 2 <= Len(c)
      /\ i + 2 > Len(b) <=> j + 2 > Len(c)
      /\ i + 2 > Len(b) <=> ~(i + 2 <= Len(b))
  BY <1>1
<1>4. ASSUME Malformed(b, i) PROVE Malformed(c, j)
  <2>1. CASE i + 2 > Len(b)
    BY <1>3, <1>4, <2>1 DEF Malformed
  <2>2. CASE i + 2 <= Len(b)
    <3>1. ~({b[i + 1], b[i + 2]} \subseteq HexDigits) /\ b[i] = "%"
      BY <1>3, <1>4, <2>2 DEF Malformed
    <3>2. ~({c[j + 1], c[j + 2]} \subseteq HexDigits)
      BY <1>2, <2>2, <3>1
    <3> QED
      BY <1>3, <3>1, <3>2, Zenon DEF Malformed
  <2> QED
    BY <1>3, <2>1, <2>2
<1>5. ASSUME Escape(b, i)
      PROVE  Escape(c, j) /\ c[j + 1] = b[i + 1] /\ c[j + 2] = b[i + 2]
  <2>1. i + 2 <= Len(b) /\ b[i] = "%" /\ b[i + 1] \in HexDigits /\ b[i + 2] \in HexDigits
    BY <1>5 DEF Escape
  <2>2. c[j + 1] = b[i + 1] /\ c[j + 2] = b[i + 2]
    BY <1>2, <2>1
  <2>3. Escape(c, j)
    BY <1>3, <2>1, <2>2, Zenon DEF Escape
  <2> QED
    BY <2>2, <2>3
<1>6. ASSUME Plain(b, i) PROVE Plain(c, j) /\ c[j] = b[i]
  BY <1>3, <1>6 DEF Plain
<1> QED
  BY <1>4, <1>5, <1>6, Zenon DEF SameEscape, SamePlain

LEMMA KindsInFront ==
    ASSUME NEW a \in Text, NEW b \in Text, NEW c, c = a \o b, NEW i \in 1 .. Len(a)
    PROVE  /\ Escape(a, i) => SameEscape(c, i, a, i)
           /\ Plain(a, i) => SamePlain(c, i, a, i)
<1>1. /\ Len(a) \in Nat /\ Len(b) \in Nat /\ Len(c) = Len(a) + Len(b)
      /\ \A k \in 1 .. Len(a) : c[k] = a[k]
  BY ConcatParts DEF Text
<1>2. ASSUME Escape(a, i)
      PROVE  Escape(c, i) /\ c[i + 1] = a[i + 1] /\ c[i + 2] = a[i + 2]
  <2>1. i + 2 <= Len(a) /\ a[i] = "%" /\ a[i + 1] \in HexDigits /\ a[i + 2] \in HexDigits
    BY <1>2 DEF Escape
  <2>2. i + 1 \in 1 .. Len(a) /\ i + 2 \in 1 .. Len(a) /\ i + 2 <= Len(c) /\ i \in 1 .. Len(c)
    BY <1>1, <2>1
  <2>3. c[i] = a[i] /\ c[i + 1] = a[i + 1] /\ c[i + 2] = a[i + 2]
    BY <1>1, <2>2
  <2> QED
    BY <2>1, <2>2, <2>3, Zenon DEF Escape
<1>3. ASSUME Plain(a, i) PROVE Plain(c, i) /\ c[i] = a[i]
  <2>1. i \in 1 .. Len(c)
    BY <1>1
  <2> QED
    BY <1>1, <1>3, <2>1 DEF Plain
<1> QED
  BY <1>2, <1>3, Zenon DEF SameEscape, SamePlain

Same(x, y) == x.ok = y.ok /\ x.res = y.res

\* Decoding the end of a text is decoding that end alone.
LEMMA DecodeShift ==
    ASSUME NEW a \in Text, NEW b \in Text, NEW c \in Text, c = a \o b, NEW space, NEW B, NEW C,
           IsDecoding(b, space, B), IsDecoding(c, space, C)
    PROVE  Same(C[Len(a) + 1], B[1])
<1> DEFINE m == Len(a)
           k == Len(b)
           D == 1 .. k + 1
           rank == [i \in D |-> k + 1 - i]
           Good == {i \in D : Same(C[m + i], B[i])}
<1>1. m \in Nat /\ k \in Nat /\ Len(c) = m + k
  BY ConcatParts DEF Text
<1> HIDE DEF m, k
<1>2. k + 1 \in Nat /\ rank \in [D -> 0 .. k + 1] /\ \A x, y \in D : rank[y] < rank[x] <=> y > x
  BY <1>1
<1> HIDE DEF rank
<1>3. ASSUME NEW i \in D, \A y \in D : rank[y] < rank[i] => y \in Good
      PROVE  Same(C[m + i], B[i])
  <2> DEFINE j == m + i
  <2>0. i \in Nat /\ i \in 1 .. Len(b) + 1 /\ j \in 1 .. Len(c) + 1 /\ j \in Nat
    BY <1>1 DEF k
  <2>a. \A y \in D : y > i => Same(C[m + y], B[y])
    BY <1>2, <1>3
  <2>b. j = Len(a) + i
    BY DEF m
  <2>c. ASSUME NEW t, NEW n \in {1, 3}, i + n \in 1 .. Len(b) + 1,
               Prepends(t, C[j], C[j + n]), Prepends(t, B[i], B[i + n])
        PROVE  Same(C[j], B[i])
    <3>1. j + n = m + (i + n) /\ i + n \in D /\ i + n > i
      BY <1>1, <2>0, <2>c DEF k
    <3>2. Same(C[m + (i + n)], B[i + n])
      BY <2>a, <3>1
    <3>3. Same(C[j + n], B[i + n])
      BY <3>1, <3>2
    <3> HIDE DEF j
    <3> QED
      BY <2>c, <3>3 DEF Same, Prepends
  <2> HIDE DEF j
  <2>1. CASE i = k + 1
    <3>1. j = Len(c) + 1 /\ i = Len(b) + 1
      BY <1>1, <2>1 DEF j, k
    <3>2. Ends(C[j], TRUE)
      BY <2>0, <3>1, DecodingCases
    <3>3. Ends(B[i], TRUE)
      BY <2>0, <3>1, DecodingCases
    <3> QED
      BY <3>2, <3>3 DEF Ends, Same, j
  <2>2. CASE Malformed(b, i)
    <3>0. i \in 1 .. Len(b)
      BY <2>2 DEF Malformed
    <3>1. Malformed(c, j)
      BY <2>2, <2>b, <3>0, KindsInEnd
    <3>2. Ends(C[j], FALSE)
      BY <2>0, <3>1, DecodingCases
    <3>3. Ends(B[i], FALSE)
      BY <2>0, <2>2, DecodingCases
    <3> QED
      BY <3>2, <3>3 DEF Ends, Same, j
  <2>3. CASE Escape(b, i)
    <3>0. i \in 1 .. Len(b)
      BY <2>3 DEF Escape
    <3>a. SameEscape(c, j, b, i)
      BY <2>3, <2>b, <3>0, KindsInEnd
    <3>1. Escape(c, j) /\ c[j + 1] = b[i + 1] /\ c[j + 2] = b[i + 2]
      BY <3>a, Zenon DEF SameEscape
    <3> DEFINE t == <<Byte(b[i + 1], b[i + 2])>>
    <3>2. Prepends(<<Byte(c[j + 1], c[j + 2])>>, C[j], C[j + 3])
      BY <2>0, <3>1, DecodingCases
    <3>3. i + 3 \in 1 .. Len(b) + 1 /\ Prepends(t, B[i], B[i + 3])
      BY <2>0, <2>3, DecodingCases
    <3>4. Prepends(t, C[j], C[j + 3])
      BY <3>1, <3>2, Zenon
    <3> HIDE DEF t
    <3> QED
      BY <2>c, <3>3, <3>4 DEF j
  <2>4. CASE Plain(b, i)
    <3>0. i \in 1 .. Len(b)
      BY <2>4 DEF Plain
    <3>a. SamePlain(c, j, b, i)
      BY <2>4, <2>b, <3>0, KindsInEnd
    <3>1. Plain(c, j) /\ c[j] = b[i]
      BY <3>a, Zenon DEF SamePlain
    <3> DEFINE t == <<Shown(b[i], space)>>
    <3>2. Prepends(<<Shown(c[j], space)>>, C[j], C[j + 1])
      BY <2>0, <3>1, DecodingCases
    <3>3. i + 1 \in 1 .. Len(b) + 1 /\ Prepends(t, B[i], B[i + 1])
      BY <2>0, <2>4, DecodingCases
    <3>4. Prepends(t, C[j], C[j + 1])
      BY <3>1, <3>2, Zenon
    <3> HIDE DEF t
    <3> QED
      BY <2>c, <3>3, <3>4 DEF j
  <2> QED
    BY <2>0, <2>1, <2>2, <2>3, <2>4, KindsOfPositions DEF k
<1>4. \A i \in D : i \in Good
  <2>1. ASSUME NEW i \in D, \A y \in D : rank[y] < rank[i] => y \in Good PROVE i \in Good
    BY <1>3, <2>1
  <2> HIDE DEF D, Good
  <2> QED
    BY <1>2, <2>1, RankInduction
<1>5. 1 \in D
  BY <1>1
<1> QED
  BY <1>4, <1>5 DEF m

\* If a is well-formed, decoding a \o b decodes the one and then the other.
LEMMA DecodeConcat ==
    ASSUME NEW a \in Text, NEW b \in Text, NEW space, decode_percent(a, TRUE, space).ok
    PROVE  /\ decode_percent(a \o b, TRUE, space).ok = decode_percent(b, TRUE, space).ok
           /\ decode_percent(a \o b, TRUE, space).res =
                 decode_percent(a, TRUE, space).res \o decode_percent(b, TRUE, space).res
<1> DEFINE c == a \o b
           m == Len(a)
<1>1. m \in Nat /\ Len(b) \in Nat /\ Len(c) = m + Len(b) /\ c \in Text
  BY ConcatParts DEF Text
<1>2. PICK A : decode_percent(a, TRUE, space) = A[1] /\ IsDecoding(a, space, A)
  BY DecodingExists
<1>3. PICK B : decode_percent(b, TRUE, space) = B[1] /\ IsDecoding(b, space, B)
  BY DecodingExists
<1>4. PICK C : decode_percent(c, TRUE, space) = C[1] /\ IsDecoding(c, space, C)
  BY <1>1, DecodingExists
<1> HIDE DEF m
<1> HIDE DEF c
<1>5. Same(C[m + 1], B[1])
  <2>1. c = a \o b
    BY DEF c
  <2> QED
    BY <1>1, <1>3, <1>4, <2>1, DecodeShift DEF m
<1> DEFINE z == C[m + 1]
           D == 1 .. m + 1
           rank == [i \in D |-> m + 1 - i]
           Joined(i) == A[i].ok => Prepends(A[i].res, C[i], z)
           Good == {i \in D : Joined(i)}
<1>6. m + 1 \in Nat /\ rank \in [D -> 0 .. m + 1] /\ \A x, y \in D : rank[y] < rank[x] <=> y > x
  BY <1>1
<1>7. \A i \in D : i \in 1 .. Len(a) + 1 /\ i \in 1 .. Len(c) + 1
  BY <1>1 DEF m
<1>8. \A i \in D : A[i].res \in Text /\ C[i].res \in Text
  BY <1>1, <1>2, <1>4, <1>7, DecodingCases
<1>9. z.res \in Text
  <2>1. m + 1 \in D
    BY <1>1
  <2> QED
    BY <1>8, <2>1
<1> HIDE DEF z, rank
<1>10. ASSUME NEW i \in D, \A y \in D : rank[y] < rank[i] => y \in Good, A[i].ok
       PROVE  Prepends(A[i].res, C[i], z)
  <2>0. i \in Nat /\ i \in 1 .. Len(a) + 1 /\ i \in 1 .. Len(c) + 1
    BY <1>1, <1>7
  <2>a. \A y \in D : y > i => Joined(y)
    BY <1>6, <1>10
  <2>c. c = a \o b
    BY DEF c
  <2>1. CASE i = m + 1
    <3>1. Ends(A[i], TRUE)
      BY <1>2, <2>0, <2>1, DecodingCases DEF m
    <3>2. << >> \o z.res = z.res
      BY <1>9 DEF Text
    <3> QED
      BY <2>1, <3>1, <3>2 DEF z, Ends, Prepends
  <2>2. CASE Malformed(a, i)
    <3>1. Ends(A[i], FALSE)
      BY <1>2, <2>0, <2>2, DecodingCases
    <3> QED
      BY <1>10, <3>1 DEF Ends
  <2>b. ASSUME NEW t \in Text, NEW y \in D, y > i,
               Prepends(t, A[i], A[y]), Prepends(t, C[i], C[y])
        PROVE  Prepends(A[i].res, C[i], z)
    <3>1. Prepends(A[y].res, C[y], z)
      <4>1. A[y].ok
        BY <1>10, <2>b DEF Prepends
      <4> QED
        BY <2>a, <2>b, <4>1
    <3> DEFINE r == A[y].res
               w == z.res
    <3>2. r \in Seq(Char) /\ t \in Seq(Char) /\ w \in Seq(Char)
      BY <1>8, <1>9 DEF Text
    <3> HIDE DEF r, w
    <3>3. t \o (r \o w) = (t \o r) \o w
      BY ONLY <3>2, ConcatTexts, Zenon
    <3> HIDE DEF Joined
    <3>4. C[y].ok = z.ok /\ C[y].res = r \o w /\ C[i].ok = C[y].ok /\ C[i].res = t \o C[y].res
      BY <2>b, <3>1, Zenon DEF Prepends, r, w
    <3>5. A[i].res = t \o r
      BY <2>b, Zenon DEF Prepends, r
    <3>6. C[i].res = A[i].res \o w
      BY <3>3, <3>4, <3>5, Zenon
    <3> QED
      BY <3>4, <3>6, Zenon DEF Prepends, w
  <2>3. CASE Escape(a, i)
    <3>0. i \in 1 .. Len(a)
      BY <2>3 DEF Escape
    <3>a. SameEscape(c, i, a, i)
      BY <2>3, <2>c, <3>0, KindsInFront
    <3>1. Escape(c, i) /\ c[i + 1] = a[i + 1] /\ c[i + 2] = a[i + 2]
      BY <3>a, Zenon DEF SameEscape
    <3> DEFINE t == <<Byte(a[i + 1], a[i + 2])>>
    <3>2. t \in Text
      BY ByteIsCharacter DEF Text
    <3>3. Prepends(<<Byte(c[i + 1], c[i + 2])>>, C[i], C[i + 3])
      BY <1>1, <1>4, <2>0, <3>1, DecodingCases
    <3>4. i + 3 \in 1 .. Len(a) + 1 /\ Prepends(t, A[i], A[i + 3])
      BY <1>2, <2>0, <2>3, DecodingCases
    <3>5. Prepends(t, C[i], C[i + 3])
      BY <3>1, <3>3, Zenon
    <3>6. i + 3 \in D /\ i + 3 > i
      BY <2>0, <3>4 DEF m
    <3> HIDE DEF t
    <3> QED
      BY <2>b, <3>2, <3>4, <3>5, <3>6
  <2>4. CASE Plain(a, i)
    <3>0. i \in 1 .. Len(a)
      BY <2>4 DEF Plain
    <3>a. SamePlain(c, i, a, i)
      BY <2>4, <2>c, <3>0, KindsInFront
    <3>1. Plain(c, i) /\ c[i] = a[i]
      BY <3>a, Zenon DEF SamePlain
    <3> DEFINE t == <<Shown(a[i], space)>>
    <3>2. t \in Text
      <4>1. a[i] \in Char
        BY <3>0 DEF Text
      <4>2. " " \in Char
        BY DEF Char
      <4>3. Shown(a[i], space) \in Char
        BY <4>1, <4>2, Zenon DEF Shown
      <4> QED
        BY <4>3 DEF Text
    <3>3. Prepends(<<Shown(c[i], space)>>, C[i], C[i + 1])
      BY <1>1, <1>4, <2>0, <3>1, DecodingCases
    <3>4. i + 1 \in 1 .. Len(a) + 1 /\ Prepends(t, A[i], A[i + 1])
      BY <1>2, <2>0, <2>4, DecodingCases
    <3>5. Prepends(t, C[i], C[i + 1])
      BY <3>1, <3>3, Zenon
    <3>6. i + 1 \in D /\ i + 1 > i
      BY <2>0, <3>4 DEF m
    <3> HIDE DEF t
    <3> QED
      BY <2>b, <3>2, <3>4, <3>5, <3>6
  <2> QED
    BY <2>0, <2>1, <2>2, <2>3, <2>4, KindsOfPositions DEF m
<1>11. \A i \in D : i \in Good
  <2>1. ASSUME NEW i \in D, \A y \in D : rank[y] < rank[i] => y \in Good PROVE i \in Good
    BY <1>10, <2>1
  <2> HIDE DEF D, Good
  <2> QED
    BY <1>6, <2>1, RankInduction
<1>12. 1 \in D
  BY <1>1
<1>13. Prepends(A[1].res, C[1], z)
  BY <1>2, <1>11, <1>12
<1> QED
  BY <1>2, <1>3, <1>4, <1>5, <1>13, Zenon DEF c, z, Same, Prepends

\* Texts of one token.
LEMMA DecodeEmpty ==
    ASSUME NEW space
    PROVE  /\ decode_percent(<< >>, TRUE, space).ok = TRUE
           /\ decode_percent(<< >>, TRUE, space).res = << >>
<1> DEFINE s == << >>
<1>1. s \in Text /\ Len(s) = 0
  BY DEF Text
<1> HIDE DEF s
<1>2. PICK R : decode_percent(s, TRUE, space) = R[1] /\ IsDecoding(s, space, R)
  BY <1>1, DecodingExists
<1>3. 1 \in 1 .. Len(s) + 1 /\ 1 = Len(s) + 1
  BY <1>1
<1>4. Ends(R[1], TRUE)
  BY <1>1, <1>2, <1>3, DecodingCases
<1> QED
  BY <1>2, <1>4 DEF Ends, s

LEMMA DecodePlain ==
    ASSUME NEW c \in Char, c # "%", NEW space
    PROVE  /\ decode_percent(<<c>>, TRUE, space).ok = TRUE
           /\ decode_percent(<<c>>, TRUE, space).res = <<Shown(c, space)>>
<1> DEFINE s == <<c>>
<1>1. s \in Text /\ Len(s) = 1 /\ s[1] = c
  BY DEF Text
<1> HIDE DEF s
<1>2. PICK R : decode_percent(s, TRUE, space) = R[1] /\ IsDecoding(s, space, R)
  BY <1>1, DecodingExists
<1>3. Plain(s, 1)
  BY <1>1 DEF Plain
<1>4. 1 \in 1 .. Len(s) + 1 /\ 1 + 1 \in 1 .. Len(s) + 1 /\ 1 + 1 = Len(s) + 1
  BY <1>1
<1>5. Prepends(<<Shown(c, space)>>, R[1], R[1 + 1])
  BY <1>1, <1>2, <1>3, <1>4, DecodingCases
<1>6. Ends(R[1 + 1], TRUE)
  BY <1>1, <1>2, <1>4, DecodingCases
<1>7. <<Shown(c, space)>> \o << >> = <<Shown(c, space)>>
  OBVIOUS
<1> QED
  BY <1>2, <1>5, <1>6, <1>7, Zenon DEF s, Ends, Prepends

LEMMA DecodeEscape ==
    ASSUME NEW h \in HexDigits, NEW l \in HexDigits, NEW space
    PROVE  /\ decode_percent(<<"%", h, l>>, TRUE, space).ok = TRUE
           /\ decode_percent(<<"%", h, l>>, TRUE, space).res = <<Byte(h, l)>>
<1> DEFINE s == <<"%", h, l>>
<1>1. s \in Text /\ Len(s) = 3 /\ s[1] = "%" /\ s[2] = h /\ s[3] = l
  <2>1. "%" \in Char /\ h \in Char /\ l \in Char
    BY DEF Char
  <2> QED
    BY <2>1 DEF Text
<1> HIDE DEF s
<1>2. PICK R : decode_percent(s, TRUE, space) = R[1] /\ IsDecoding(s, space, R)
  BY <1>1, DecodingExists
<1>3. 1 \in 1 .. Len(s) + 1 /\ 1 + 3 \in 1 .. Len(s) + 1 /\ 1 + 3 = Len(s) + 1
  BY <1>1
<1>4. 1 + 1 = 2 /\ 1 + 2 = 3
  OBVIOUS
<1>5. Escape(s, 1)
  BY <1>1 DEF Escape
<1>6. Prepends(<<Byte(s[1 + 1], s[1 + 2])>>, R[1], R[1 + 3])
  BY <1>1, <1>2, <1>3, <1>5, DecodingCases
<1>7. Ends(R[1 + 3], TRUE)
  BY <1>1, <1>2, <1>3, DecodingCases
<1>8. <<Byte(h, l)>> \o << >> = <<Byte(h, l)>>
  OBVIOUS
<1>9. Byte(s[1 + 1], s[1 + 2]) = Byte(h, l)
  BY <1>1, <1>4
<1> QED
  BY <1>2, <1>6, <1>7, <1>8, <1>9, Zenon DEF s, Ends, Prepends

\* FlattenSeq, unfolded.
LEMMA FlattenDef ==
    ASSUME NEW V, NEW seqs \in Seq(Seq(V))
    PROVE  \E F : /\ FlattenSeq(seqs) = F[Len(seqs)]
                  /\ F \in [0 .. Len(seqs) -> Seq(V)]
                  /\ F[0] = << >>
                  /\ \A n \in 1 .. Len(seqs) : F[n] = F[n - 1] \o seqs[n]
<1> DEFINE N == Len(seqs)
           D == 1 .. N
           S == Seq(V)
           body(f, n) == IF n = 1 THEN seqs[n] ELSE f[n - 1] \o seqs[n]
           step == [f \in [D -> S] |-> [n \in D |-> body(f, n)]]
           rank == [n \in D |-> n]
           R == CHOOSE r : r = [n \in D |-> body(r, n)]
<1>0. N \in Nat /\ \A n \in D : seqs[n] \in S
  OBVIOUS
<1>1. CASE N = 0
  <2>1. FlattenSeq(seqs) = << >> /\ seqs = << >>
    <3>1. seqs = << >>
      BY <1>1
    <3>2. FlattenSeq(seqs) = seqs
      BY <1>1, Zenon DEF FlattenSeq
    <3> QED
      BY <3>1, <3>2
  <2> DEFINE F == [n \in 0 .. 0 |-> << >>]
  <2>2. F \in [0 .. 0 -> S] /\ F[0] = << >>
    OBVIOUS
  <2> HIDE DEF F
  <2> QED
    BY <1>1, <2>1, <2>2
<1>2. CASE N # 0
  <2>1. FlattenSeq(seqs) = R[N]
    BY <1>2, Zenon DEF FlattenSeq
  <2>2. rank \in [D -> 0 .. N] /\ \A n \in D : n # 1 => n - 1 \in D /\ rank[n - 1] < rank[n]
    BY <1>0
  <2> HIDE DEF rank, N
  <2>a. ASSUME NEW f, NEW n \in D, n # 1 => f[n - 1] \in S PROVE body(f, n) \in S
    <3>1. CASE n = 1
      BY <1>0, <3>1
    <3>2. CASE n # 1
      <4> DEFINE x == f[n - 1]
                 y == seqs[n]
      <4>1. x \in S /\ y \in S /\ body(f, n) = x \o y
        BY <1>0, <2>a, <3>2
      <4> HIDE DEF x, y, body
      <4>2. x \o y \in Seq(V)
        BY <4>1, ConcatParts
      <4> QED
        BY <4>1, <4>2
    <3> QED
      BY <3>1, <3>2
  <2>3. \E f \in [D -> S] : f = step[f]
    <3>1. S # {}
      OBVIOUS
    <3>2. \A f \in [D -> S] : step[f] \in [D -> S]
      <4> HIDE DEF body
      <4> QED
        BY <2>2, <2>a
    <3>3. \A x \in D : \A f, g \in [D -> S] :
             (\A y \in D : rank[y] < rank[x] => f[y] = g[y]) => step[f][x] = step[g][x]
      <4>1. ASSUME NEW x \in D, NEW f \in [D -> S], NEW g \in [D -> S],
                   \A y \in D : rank[y] < rank[x] => f[y] = g[y]
            PROVE  body(f, x) = body(g, x)
        <5>1. x # 1 => f[x - 1] = g[x - 1]
          BY <2>2, <4>1
        <5> QED
          BY <5>1, Zenon
      <4> HIDE DEF body
      <4> QED
        BY <4>1
    <3>4. step \in [[D -> S] -> [D -> S]]
      BY <3>2
    <3> HIDE DEF D, S, step, body
    <3>5. WellDefined(D, S, N, rank, step)
      BY <1>0, <2>2, <3>1, <3>3, <3>4, Zenon DEF WellDefined
    <3> HIDE DEF R
    <3> QED
      BY <3>5, RecursionExists
  <2>4. R = [n \in D |-> body(R, n)]
    BY <2>3, Zenon
  <2> HIDE DEF R
  <2>5. \A n \in D : R[n] \in S
    <3> DEFINE Good == {n \in Nat : n + 1 \in D => R[n + 1] \in S}
    <3>1. 0 \in Good
      <4>1. 0 + 1 \in D => body(R, 0 + 1) \in S
        BY <2>a
      <4> HIDE DEF body
      <4> QED
        BY <2>4, <4>1
    <3>2. ASSUME NEW n \in Nat, n \in Good PROVE n + 1 \in Good
      <4>1. ASSUME (n + 1) + 1 \in D PROVE R[(n + 1) + 1] \in S
        <5>1. n + 1 \in D /\ ((n + 1) + 1) - 1 = n + 1
          BY <1>0, <4>1
        <5> HIDE DEF body
        <5>2. body(R, (n + 1) + 1) \in S
          BY <2>a, <3>2, <4>1, <5>1
        <5> QED
          BY <2>4, <4>1, <5>2
      <4> QED
        BY <4>1
    <3>3. \A n \in Nat : n \in Good
      <4> HIDE DEF Good
      <4> QED
        BY <3>1, <3>2, SetInduction
    <3>4. ASSUME NEW n \in D PROVE R[n] \in S
      <4>1. n - 1 \in Nat /\ (n - 1) + 1 = n
        BY <1>0
      <4>2. n - 1 \in Good
        BY <3>3, <4>1
      <4> QED
        BY <4>1, <4>2
    <3> QED
      BY <3>4
  <2> DEFINE F == [n \in 0 .. N |-> IF n = 0 THEN << >> ELSE R[n]]
  <2>6. F \in [0 .. N -> S] /\ F[0] = << >> /\ \A n \in D : F[n] = R[n]
    BY <1>0, <2>5
  <2> HIDE DEF F
  <2>7. ASSUME NEW n \in D PROVE F[n] = F[n - 1] \o seqs[n]
    <3>1. CASE n = 1
      <4>1. R[n] = seqs[n]
        BY <2>4, <3>1
      <4>2. F[n - 1] = << >>
        BY <2>6, <3>1
      <4> DEFINE y == seqs[n]
      <4>3. y \in Seq(V)
        BY <1>0
      <4> HIDE DEF y
      <4>4. << >> \o y = y
        BY <4>3
      <4> QED
        BY <2>6, <4>1, <4>2, <4>4 DEF y
    <3>2. CASE n # 1
      <4>1. n - 1 \in D
        BY <2>2, <3>2
      <4>2. R[n] = R[n - 1] \o seqs[n]
        BY <2>4, <3>2, Zenon
      <4> QED
        BY <2>6, <4>1, <4>2
    <3> QED
      BY <3>1, <3>2
  <2>8. FlattenSeq(seqs) = F[N]
    BY <1>0, <1>2, <2>1, <2>6
  <2> QED
    BY <2>6, <2>7, <2>8 DEF N
<1> QED
  BY <1>1, <1>2

\* x stands for the character x.means and decodes to it.
IsToken(x, space) ==
    /\ x.as \in Text /\ x.means \in Char
    /\ decode_percent(x.as, TRUE, space).ok = TRUE
    /\ decode_percent(x.as, TRUE, space).res = <<x.means>>

LEMMA AddLast ==
    ASSUME NEW V, NEW r \in Seq(V), NEW e \in V
    PROVE  /\ r \o <<e>> \in Seq(V)
           /\ Len(r \o <<e>>) = Len(r) + 1
           /\ (r \o <<e>>)[Len(r) + 1] = e
           /\ \A i \in 1 .. Len(r) : (r \o <<e>>)[i] = r[i]
<1> DEFINE o == <<e>>
           u == r \o o
<1>1. o \in Seq(V) /\ Len(o) = 1 /\ o[1] = e /\ Len(r) \in Nat
  OBVIOUS
<1> HIDE DEF o
<1>2. /\ u \in Seq(V) /\ Len(u) = Len(r) + Len(o)
      /\ \A i \in 1 .. Len(r) + Len(o) : u[i] = IF i <= Len(r) THEN r[i] ELSE o[i - Len(r)]
  BY <1>1, ConcatProperties
<1> HIDE DEF u
<1>3. Len(u) = Len(r) + 1 /\ Len(r) + 1 \in 1 .. Len(r) + 1 /\ ~(Len(r) + 1 <= Len(r))
  BY <1>1, <1>2
<1>4. u[Len(r) + 1] = o[(Len(r) + 1) - Len(r)] /\ (Len(r) + 1) - Len(r) = 1
  BY <1>1, <1>2, <1>3
<1>5. \A i \in 1 .. Len(r) : u[i] = r[i]
  BY <1>1, <1>2
<1> QED
  BY <1>1, <1>2, <1>3, <1>4, <1>5 DEF u, o

\* Decoding undoes any encoding.
LEMMA EncodingDecodes ==
    ASSUME NEW chars, NEW space, \A x \in chars : IsToken(x, space), NEW t \in Seq(chars)
    PROVE  /\ Encoding(t) \in Text
           /\ Meaning(t) \in Text
           /\ decode_percent(Encoding(t), TRUE, space).ok = TRUE
           /\ decode_percent(Encoding(t), TRUE, space).res = Meaning(t)
<1> DEFINE N == Len(t)
           as == [i \in DOMAIN t |-> t[i].as]
<1>0. N \in Nat /\ DOMAIN t = 1 .. N /\ \A i \in 1 .. N : t[i] \in chars
  OBVIOUS
<1>1. as \in Seq(Text) /\ Len(as) = N /\ \A i \in 1 .. N : as[i] = t[i].as
  <2>1. \A i \in 1 .. N : t[i].as \in Text
    BY <1>0 DEF IsToken
  <2> QED
    BY <1>0, <2>1
<1>2. Meaning(t) \in Text /\ Len(Meaning(t)) = N /\ \A i \in 1 .. N : Meaning(t)[i] = t[i].means
  <2>1. \A i \in 1 .. N : t[i].means \in Char
    BY <1>0 DEF IsToken
  <2> QED
    BY <1>0, <2>1 DEF Meaning, Text
<1>3. Encoding(t) = FlattenSeq(as)
  BY DEF Encoding
<1> HIDE DEF as, N
<1>4. PICK F : /\ FlattenSeq(as) = F[N]
               /\ F \in [0 .. N -> Text]
               /\ F[0] = << >>
               /\ \A n \in 1 .. N : F[n] = F[n - 1] \o as[n]
  <2>1. as \in Seq(Seq(Char))
    BY <1>1 DEF Text
  <2>2. PICK F : /\ FlattenSeq(as) = F[Len(as)]
                 /\ F \in [0 .. Len(as) -> Seq(Char)]
                 /\ F[0] = << >>
                 /\ \A n \in 1 .. Len(as) : F[n] = F[n - 1] \o as[n]
    BY <2>1, FlattenDef
  <2> QED
    BY <1>1, <2>2 DEF Text
<1> DEFINE dec(n) == decode_percent(F[n], TRUE, space)
           Reads(n) == /\ dec(n).ok = TRUE
                       /\ dec(n).res \in Text
                       /\ Len(dec(n).res) = n
                       /\ \A i \in 1 .. n : dec(n).res[i] = t[i].means
           Good == {n \in Nat : n <= N => Reads(n)}
<1>5. Reads(0)
  <2>1. dec(0).ok = TRUE /\ dec(0).res = << >>
    BY <1>4, DecodeEmpty
  <2>2. << >> \in Text /\ Len(<< >>) = 0 /\ \A i \in 1 .. 0 : FALSE
    BY DEF Text
  <2> HIDE DEF dec
  <2> QED
    BY <2>1, <2>2
<1>6. ASSUME NEW n \in Nat, Reads(n), n + 1 <= N PROVE Reads(n + 1)
  <2> DEFINE a == F[n]
             b == as[n + 1]
             x == t[n + 1]
             r == dec(n).res
  <2>1. n \in 0 .. N /\ n + 1 \in 1 .. N /\ (n + 1) - 1 = n
    BY <1>0, <1>6 DEF N
  <2>2. F[n + 1] = a \o b
    <3>1. F[n + 1] = F[(n + 1) - 1] \o as[n + 1]
      BY <1>4, <2>1, Zenon
    <3> QED
      BY <2>1, <3>1, Zenon
  <2>3. a \in Text /\ b \in Text /\ x \in chars /\ b = x.as
    BY <1>0, <1>1, <1>4, <2>1
  <2>4. /\ decode_percent(b, TRUE, space).ok = TRUE
        /\ decode_percent(b, TRUE, space).res = <<x.means>>
        /\ x.means \in Char
    BY <2>3, Zenon DEF IsToken
  <2>5. decode_percent(a, TRUE, space).ok /\ decode_percent(a, TRUE, space).res = r
    BY <1>6
  <2> HIDE DEF a, b, x
  <2>6. /\ decode_percent(a \o b, TRUE, space).ok = TRUE
        /\ decode_percent(a \o b, TRUE, space).res = r \o <<x.means>>
    <3>1. /\ decode_percent(a \o b, TRUE, space).ok = decode_percent(b, TRUE, space).ok
          /\ decode_percent(a \o b, TRUE, space).res =
                decode_percent(a, TRUE, space).res \o decode_percent(b, TRUE, space).res
      <4> HIDE DEF r, dec, Reads, Good
      <4> QED
        BY <2>3, <2>5, DecodeConcat, Zenon
    <3> HIDE DEF r, dec
    <3> QED
      BY <2>4, <2>5, <3>1, Zenon
  <2>7. dec(n + 1).ok = TRUE /\ dec(n + 1).res = r \o <<x.means>>
    BY <2>2, <2>6
  <2>8. r \in Seq(Char) /\ Len(r) = n /\ \A i \in 1 .. n : r[i] = t[i].means
    BY <1>6 DEF Text
  <2> HIDE DEF r, dec
  <2>u. PICK u : u = r \o <<x.means>>
    OBVIOUS
  <2>10. /\ u \in Seq(Char) /\ Len(u) = n + 1 /\ u[n + 1] = x.means
         /\ \A i \in 1 .. n : u[i] = r[i]
    BY <2>4, <2>8, <2>u, AddLast
  <2>12. ASSUME NEW i \in 1 .. n + 1 PROVE u[i] = t[i].means
    <3>1. i = n + 1 \/ i \in 1 .. n
      OBVIOUS
    <3> QED
      BY <2>8, <2>10, <3>1 DEF x
  <2> QED
    BY <2>7, <2>10, <2>12, <2>u DEF Text
<1> HIDE DEF Reads
<1>7. 0 \in Good
  BY <1>5
<1>8. ASSUME NEW n \in Nat, n \in Good PROVE n + 1 \in Good
  <2>1. n + 1 <= N => n <= N
    BY <1>0 DEF N
  <2> QED
    BY <1>6, <1>8, <2>1
<1>9. \A n \in Nat : n \in Good
  <2> HIDE DEF Good
  <2> QED
    BY <1>7, <1>8, SetInduction
<1>10. Reads(N)
  BY <1>0, <1>9 DEF N
<1> DEFINE r == dec(N).res
<1>11. dec(N).ok = TRUE /\ r \in Text /\ Len(r) = N /\ \A i \in 1 .. N : r[i] = t[i].means
  BY <1>10, Zenon DEF Reads
<1> HIDE DEF r, dec
<1>12. r = Meaning(t)
  BY <1>2, <1>11, SeqEqual DEF Text
<1>13. Encoding(t) = F[N] /\ F[N] \in Text
  BY <1>0, <1>3, <1>4 DEF N
<1> QED
  BY <1>2, <1>11, <1>12, <1>13, Zenon DEF dec, r

\* An encoding has only characters of its tokens.
LEMMA EncodingChars ==
    ASSUME NEW V, NEW chars, \A x \in chars : x.as \in Seq(V), NEW t \in Seq(chars)
    PROVE  Encoding(t) \in Seq(V)
<1> DEFINE N == Len(t)
           as == [i \in DOMAIN t |-> t[i].as]
<1>0. N \in Nat /\ DOMAIN t = 1 .. N /\ \A i \in 1 .. N : t[i] \in chars
  OBVIOUS
<1>1. as \in Seq(Seq(V)) /\ Len(as) = N
  <2>1. \A i \in 1 .. N : t[i].as \in Seq(V)
    BY <1>0
  <2> QED
    BY <1>0, <2>1
<1>2. Encoding(t) = FlattenSeq(as)
  BY DEF Encoding
<1> HIDE DEF as, N
<1>3. PICK F : FlattenSeq(as) = F[Len(as)] /\ F \in [0 .. Len(as) -> Seq(V)]
  BY <1>1, FlattenDef
<1> QED
  BY <1>0, <1>1, <1>2, <1>3 DEF N

-----------------------------------------------------------------------------
(***************************************************************************)
(* Splitting undoes joining.                                               *)
(***************************************************************************)
Avoids(s, ch) == \A i \in 1 .. Len(s) : s[i] # ch

\* What one character does to the pieces so far.
SplitOn(parts, ch, x) ==
    IF x = ch THEN Append(parts, << >>)
    ELSE [parts EXCEPT ![Len(parts)] = Append(@, x)]

IsSplit(s, ch, R) ==
    /\ R \in [0 .. Len(s) -> Segments]
    /\ R[0] = << << >> >>
    /\ \A n \in 1 .. Len(s) : R[n] = SplitOn(R[n - 1], ch, s[n])

LEMMA SplitExists ==
    ASSUME NEW s \in Text, NEW ch
    PROVE  \E R : Split(s, ch) = R[Len(s)] /\ IsSplit(s, ch, R)
<1>0. Len(s) \in Nat
  BY DEF Text
<1>1. PICK R : /\ Split(s, ch) = R[Len(s)]
               /\ R \in [0 .. Len(s) -> Segments]
               /\ \A n \in 0 .. Len(s) : R[n] = SplitStep(s, ch, R, n)
  BY SplitDef
<1>2. R[0] = << << >> >>
  <2>1. 0 \in 0 .. Len(s)
    BY <1>0
  <2> QED
    BY <1>1, <2>1, Zenon DEF SplitStep
<1>3. ASSUME NEW n \in 1 .. Len(s) PROVE R[n] = SplitOn(R[n - 1], ch, s[n])
  <2>1. n \in 0 .. Len(s) /\ n # 0
    BY <1>0
  <2> QED
    BY <1>1, <2>1, Zenon DEF SplitStep, SplitOn
<1> QED
  BY <1>1, <1>2, <1>3 DEF IsSplit

LEMMA SplitOnCases ==
    ASSUME NEW P \in Seq(Text), NEW e \in Text, NEW ch, NEW x \in Char, x # ch
    PROVE  SplitOn(Append(P, e), ch, x) = Append(P, Append(e, x))
<1> DEFINE q == Append(P, e)
           m == Len(q)
           f == Append(e, x)
           u == [q EXCEPT ![m] = f]
           v == Append(P, f)
<1>0. f \in Text
  BY AppendProperties DEF Text
<1>1. /\ q \in Seq(Text) /\ Len(P) \in Nat /\ m = Len(P) + 1 /\ q[Len(P) + 1] = e
      /\ \A i \in 1 .. Len(P) : q[i] = P[i]
  BY AppendProperties
<1>2. SplitOn(q, ch, x) = [q EXCEPT ![m] = Append(@, x)]
  BY Zenon DEF SplitOn
<1> HIDE DEF q, m
<1>3. [q EXCEPT ![m] = Append(@, x)] = [q EXCEPT ![m] = Append(q[m], x)]
  OBVIOUS
<1>4. q[m] = e
  BY <1>1
<1>5. SplitOn(q, ch, x) = u
  BY <1>2, <1>3, <1>4
<1> HIDE DEF f
<1>6. /\ v \in Seq(Text) /\ Len(v) = Len(P) + 1 /\ v[Len(P) + 1] = f
      /\ \A i \in 1 .. Len(P) : v[i] = P[i]
  BY <1>0, AppendProperties
<1>7. m \in 1 .. Len(q)
  BY <1>1 DEF m
<1>8. /\ u \in Seq(Text) /\ Len(u) = Len(q)
      /\ \A i \in 1 .. Len(q) : u[i] = IF i = m THEN f ELSE q[i]
  BY <1>0, <1>1, <1>7, ExceptSeq
<1>a. Len(q) = m
  BY DEF m
<1> HIDE DEF u, v
<1>9. ASSUME NEW i \in 1 .. Len(u) PROVE u[i] = v[i]
  <2>0. i \in 1 .. Len(q)
    BY <1>8
  <2>1. CASE i = m
    BY <1>1, <1>6, <1>8, <2>0, <2>1
  <2>2. CASE i # m
    <3>1. i \in 1 .. Len(P)
      BY <1>1, <1>a, <2>0, <2>2
    <3> QED
      BY <1>1, <1>6, <1>8, <2>0, <2>2, <3>1
  <2> QED
    BY <2>1, <2>2
<1>10. u = v
  <2>1. Len(u) = Len(v)
    BY <1>1, <1>6, <1>8, <1>a
  <2> QED
    BY <1>6, <1>8, <1>9, <2>1, SeqEqual
<1> QED
  BY <1>5, <1>10 DEF v, q, f

\* After m characters a new piece begins; w is all that follows.
LastPiece(c, ch, C, m, P, w) ==
    /\ IsSplit(c, ch, C)
    /\ m \in Nat
    /\ C[m] = Append(P, << >>)
    /\ Len(c) = m + Len(w) /\ \A i \in 1 .. Len(w) : c[m + i] = w[i]
    /\ Avoids(w, ch)

\* Characters other than ch go to the last piece.
LEMMA SplitGrow ==
    ASSUME NEW c \in Text, NEW ch, NEW C, NEW m, NEW P \in Seq(Text), NEW w \in Text,
           LastPiece(c, ch, C, m, P, w)
    PROVE  C[Len(c)] = Append(P, w)
<1>0. Len(w) \in Nat /\ \A i \in 1 .. Len(w) : w[i] \in Char /\ w[i] # ch
  BY DEF Text, LastPiece, Avoids
<1>a. /\ m \in Nat /\ Len(c) = m + Len(w) /\ C[m] = Append(P, << >>)
      /\ \A i \in 1 .. Len(w) : c[m + i] = w[i]
  BY DEF LastPiece
<1> DEFINE Grown(n, x) == /\ C[m + n] = Append(P, x)
                          /\ Len(x) = n
                          /\ \A i \in 1 .. n : x[i] = w[i]
           Good == {n \in Nat : n <= Len(w) => \E x \in Text : Grown(n, x)}
<1>1. << >> \in Text /\ Grown(0, << >>)
  BY <1>a DEF Text
<1>2. ASSUME NEW n \in Nat, n + 1 <= Len(w), NEW x \in Text, Grown(n, x)
      PROVE  \E y \in Text : Grown(n + 1, y)
  <2> DEFINE z == w[n + 1]
             y == Append(x, z)
  <2>1. /\ n + 1 \in 1 .. Len(w) /\ m + (n + 1) \in 1 .. Len(c)
        /\ (m + (n + 1)) - 1 = m + n
    BY <1>0, <1>2, <1>a
  <2>2. z \in Char /\ z # ch /\ c[m + (n + 1)] = z
    BY <1>0, <1>a, <2>1
  <2>3. C[m + (n + 1)] = SplitOn(C[m + n], ch, z)
    <3>1. C[m + (n + 1)] = SplitOn(C[(m + (n + 1)) - 1], ch, c[m + (n + 1)])
      BY <2>1, Zenon DEF LastPiece, IsSplit
    <3> QED
      BY <2>1, <2>2, <3>1, Zenon
  <2> HIDE DEF z
  <2>4. SplitOn(Append(P, x), ch, z) = Append(P, y)
    BY <2>2, SplitOnCases
  <2>5. C[m + (n + 1)] = Append(P, y)
    BY <1>2, <2>3, <2>4
  <2>6. /\ y \in Text /\ Len(y) = n + 1 /\ y[n + 1] = z
        /\ \A i \in 1 .. n : y[i] = x[i]
    BY <1>2, <2>2, AppendProperties DEF Text
  <2> HIDE DEF y
  <2>7. ASSUME NEW i \in 1 .. n + 1 PROVE y[i] = w[i]
    <3>1. i = n + 1 \/ i \in 1 .. n
      OBVIOUS
    <3> QED
      BY <1>2, <2>6, <3>1 DEF z
  <2> QED
    BY <2>5, <2>6, <2>7
<1> HIDE DEF Grown
<1>3. 0 \in Good
  BY <1>1
<1>4. ASSUME NEW n \in Nat, n \in Good PROVE n + 1 \in Good
  <2>1. n + 1 <= Len(w) => n <= Len(w)
    BY <1>0
  <2> QED
    BY <1>2, <1>4, <2>1
<1>5. \A n \in Nat : n \in Good
  <2> HIDE DEF Good
  <2> QED
    BY <1>3, <1>4, SetInduction
<1>6. PICK x \in Text : Grown(Len(w), x)
  BY <1>0, <1>5
<1>7. C[Len(c)] = Append(P, x) /\ Len(x) = Len(w) /\ \A i \in 1 .. Len(w) : x[i] = w[i]
  BY <1>6, <1>a, Zenon DEF Grown
<1>8. x = w
  BY <1>7, SeqEqual DEF Text
<1> QED
  BY <1>7, <1>8

\* A text without ch is one piece.
LEMMA SplitAvoiding ==
    ASSUME NEW w \in Text, NEW ch, Avoids(w, ch)
    PROVE  Split(w, ch) = <<w>>
<1>1. PICK R : Split(w, ch) = R[Len(w)] /\ IsSplit(w, ch, R)
  BY SplitExists
<1> DEFINE P == << >>
<1>2. R[0] = Append(P, << >>)
  <2>1. R[0] = << << >> >>
    BY <1>1 DEF IsSplit
  <2> QED
    BY <2>1
<1>3. P \in Seq(Text)
  OBVIOUS
<1>4. Len(w) = 0 + Len(w) /\ \A i \in 1 .. Len(w) : w[0 + i] = w[i]
  <2>1. Len(w) \in Nat
    BY DEF Text
  <2>2. \A i \in 1 .. Len(w) : 0 + i = i
    OBVIOUS
  <2> QED
    BY <2>1, <2>2
<1>5. Append(P, w) = <<w>>
  OBVIOUS
<1> HIDE DEF P
<1>6. LastPiece(w, ch, R, 0, P, w)
  BY <1>1, <1>2, <1>4 DEF LastPiece
<1>7. R[Len(w)] = Append(P, w)
  BY <1>3, <1>6, SplitGrow
<1> QED
  BY <1>1, <1>5, <1>7

\* What comes after a text does not change how its pieces start.
LEMMA SplitPrefix ==
    ASSUME NEW a \in Text, NEW c \in Text, NEW ch, NEW A, NEW C, IsSplit(a, ch, A),
           IsSplit(c, ch, C), Len(a) <= Len(c), \A i \in 1 .. Len(a) : c[i] = a[i]
    PROVE  C[Len(a)] = A[Len(a)]
<1>0. Len(a) \in Nat /\ Len(c) \in Nat
  BY DEF Text
<1> DEFINE Good == {n \in Nat : n <= Len(a) => C[n] = A[n]}
<1>1. 0 \in Good
  BY DEF IsSplit
<1>2. ASSUME NEW n \in Nat, n \in Good, n + 1 <= Len(a) PROVE C[n + 1] = A[n + 1]
  <2>1. n + 1 \in 1 .. Len(a) /\ n + 1 \in 1 .. Len(c) /\ (n + 1) - 1 = n /\ n <= Len(a)
    BY <1>0, <1>2
  <2>2. /\ A[n + 1] = SplitOn(A[(n + 1) - 1], ch, a[n + 1])
        /\ C[n + 1] = SplitOn(C[(n + 1) - 1], ch, c[n + 1])
    BY <2>1, Zenon DEF IsSplit
  <2>3. C[n] = A[n] /\ c[n + 1] = a[n + 1]
    BY <1>2, <2>1
  <2> QED
    BY <2>1, <2>2, <2>3, Zenon
<1>3. ASSUME NEW n \in Nat, n \in Good PROVE n + 1 \in Good
  BY <1>2, <1>3
<1>4. \A n \in Nat : n \in Good
  <2> HIDE DEF Good
  <2> QED
    BY <1>1, <1>3, SetInduction
<1> QED
  BY <1>0, <1>4

\* ch and a text without ch add one piece.
LEMMA SplitConcat ==
    ASSUME NEW s \in Text, NEW ch \in Char, NEW w \in Text, Avoids(w, ch)
    PROVE  Split(s \o <<ch>> \o w, ch) = Append(Split(s, ch), w)
<1>1. PICK b : b = s \o <<ch>>
  OBVIOUS
<1>2. PICK c : c = b \o w
  OBVIOUS
<1>0. Len(s) \in Nat /\ Len(w) \in Nat
  BY DEF Text
<1>3. /\ b \in Text /\ Len(b) = Len(s) + 1 /\ b[Len(s) + 1] = ch
      /\ \A i \in 1 .. Len(s) : b[i] = s[i]
  BY <1>1, AddLast DEF Text
<1>4. /\ c \in Text /\ Len(c) = Len(b) + Len(w)
      /\ \A i \in 1 .. Len(b) : c[i] = b[i]
      /\ \A i \in 1 .. Len(w) : c[Len(b) + i] = w[i]
  <2>1. b \in Seq(Char) /\ w \in Seq(Char)
    BY <1>3 DEF Text
  <2> QED
    BY <1>2, <2>1, ConcatParts DEF Text
<1>5. PICK A : Split(s, ch) = A[Len(s)] /\ IsSplit(s, ch, A)
  BY SplitExists
<1>6. PICK C : Split(c, ch) = C[Len(c)] /\ IsSplit(c, ch, C)
  BY <1>4, SplitExists
<1>7. Len(s) <= Len(c) /\ \A i \in 1 .. Len(s) : c[i] = s[i]
  <2>1. \A i \in 1 .. Len(s) : i \in 1 .. Len(b)
    BY <1>0, <1>3
  <2> QED
    BY <1>0, <1>3, <1>4, <2>1
<1>8. C[Len(s)] = Split(s, ch)
  BY <1>4, <1>5, <1>6, <1>7, SplitPrefix
<1> DEFINE P == Split(s, ch)
           m == Len(s) + 1
<1>9. P \in Seq(Text)
  BY SplitType DEF Segments
<1>10. C[m] = Append(P, << >>)
  <2>1. m \in 1 .. Len(c) /\ m - 1 = Len(s) /\ m \in 1 .. Len(b)
    BY <1>0, <1>3, <1>4
  <2>2. c[m] = ch
    BY <1>3, <1>4, <2>1
  <2>3. C[m] = SplitOn(C[m - 1], ch, c[m])
    <3> HIDE DEF m
    <3> QED
      BY <1>6, <2>1, Zenon DEF IsSplit
  <2>4. C[m] = SplitOn(P, ch, ch)
    <3> HIDE DEF m, P
    <3> QED
      BY <1>8, <2>1, <2>2, <2>3, Zenon DEF P
  <2> HIDE DEF P
  <2> QED
    BY <2>4, Zenon DEF SplitOn
<1>11. m \in Nat /\ Len(c) = m + Len(w) /\ \A i \in 1 .. Len(w) : c[m + i] = w[i]
  BY <1>0, <1>3, <1>4
<1> HIDE DEF P, m
<1>12. LastPiece(c, ch, C, m, P, w)
  BY <1>6, <1>10, <1>11, Zenon DEF LastPiece
<1>13. C[Len(c)] = Append(P, w)
  BY <1>4, <1>9, <1>12, SplitGrow
<1> QED
  BY <1>1, <1>2, <1>6, <1>13 DEF P

LEMMA SplitJoin ==
    ASSUME NEW parts \in Segments, NEW ch \in Char, \A i \in 1 .. Len(parts) : Avoids(parts[i], ch)
    PROVE  Split(Join(parts, ch), ch) = parts
<1> DEFINE N == Len(parts)
<1>0. N \in Nat /\ N # 0 /\ parts \in Seq(Text) /\ \A i \in 1 .. N : parts[i] \in Text
  BY DEF Segments
<1>1. PICK R : /\ Join(parts, ch) = R[N]
               /\ R \in [1 .. N -> Text]
               /\ \A n \in 1 .. N : R[n] = JoinStep(parts, ch, R, n)
  BY JoinDef
<1> DEFINE Pieces(n) == /\ Split(R[n], ch) \in Seq(Text)
                        /\ Len(Split(R[n], ch)) = n
                        /\ \A i \in 1 .. n : Split(R[n], ch)[i] = parts[i]
           Good == {n \in Nat : n + 1 <= N => Pieces(n + 1)}
<1> HIDE DEF N
<1>2. Pieces(1)
  <2>1. 1 \in 1 .. N
    BY <1>0
  <2>2. R[1] = parts[1]
    BY <1>1, <2>1, Zenon DEF JoinStep
  <2> DEFINE w == parts[1]
  <2>3. w \in Text /\ Avoids(w, ch)
    BY <1>0, <2>1 DEF N
  <2> HIDE DEF w
  <2>4. Split(w, ch) = <<w>>
    BY <2>3, SplitAvoiding
  <2>5. <<w>> \in Seq(Text) /\ Len(<<w>>) = 1 /\ <<w>>[1] = w /\ \A i \in 1 .. 1 : i = 1
    BY <2>3
  <2>6. Split(R[1], ch) = <<w>>
    BY <2>2, <2>4 DEF w
  <2> QED
    BY <2>5, <2>6 DEF w
<1>3. ASSUME NEW n \in Nat, n >= 1, n + 1 <= N, Pieces(n) PROVE Pieces(n + 1)
  <2> DEFINE s == R[n]
             w == parts[n + 1]
             P == Split(s, ch)
  <2>1. n \in 1 .. N /\ n + 1 \in 1 .. N /\ (n + 1) - 1 = n /\ n + 1 # 1
    BY <1>0, <1>3
  <2>2. s \in Text /\ w \in Text /\ Avoids(w, ch)
    BY <1>0, <1>1, <2>1 DEF N
  <2>3. R[n + 1] = s \o <<ch>> \o w
    <3>1. R[n + 1] = R[(n + 1) - 1] \o <<ch>> \o parts[n + 1]
      BY <1>1, <2>1, Zenon DEF JoinStep
    <3> QED
      BY <2>1, <3>1, Zenon
  <2>4. P \in Seq(Text) /\ Len(P) = n /\ \A i \in 1 .. n : P[i] = parts[i]
    BY <1>3
  <2> HIDE DEF s, w
  <2>5. Split(s \o <<ch>> \o w, ch) = Append(P, w)
    BY <2>2, SplitConcat
  <2>6. Split(R[n + 1], ch) = Append(P, w)
    BY <2>3, <2>5
  <2> HIDE DEF P
  <2> DEFINE u == Append(P, w)
  <2>7. u \in Seq(Text) /\ Len(u) = n + 1 /\ u[n + 1] = w /\ \A i \in 1 .. n : u[i] = P[i]
    BY <2>2, <2>4, AppendProperties
  <2> HIDE DEF u
  <2>8. ASSUME NEW i \in 1 .. n + 1 PROVE u[i] = parts[i]
    <3>1. i = n + 1 \/ i \in 1 .. n
      OBVIOUS
    <3> QED
      BY <2>4, <2>7, <3>1 DEF w
  <2> QED
    BY <2>6, <2>7, <2>8 DEF u
<1> HIDE DEF Pieces
<1>4. 0 \in Good
  <2>1. 0 + 1 = 1
    OBVIOUS
  <2> QED
    BY <1>2, <2>1
<1>5. ASSUME NEW n \in Nat, n \in Good PROVE n + 1 \in Good
  <2>1. ASSUME (n + 1) + 1 <= N PROVE Pieces((n + 1) + 1)
    <3>1. n + 1 \in Nat /\ n + 1 >= 1 /\ n + 1 <= N
      BY <1>0, <2>1
    <3> QED
      BY <1>3, <1>5, <2>1, <3>1
  <2> QED
    BY <2>1
<1>6. \A n \in Nat : n \in Good
  <2> HIDE DEF Good
  <2> QED
    BY <1>4, <1>5, SetInduction
<1>7. Pieces(N)
  <2>1. N - 1 \in Nat /\ (N - 1) + 1 = N
    BY <1>0
  <2>2. N - 1 \in Good
    BY <1>6, <2>1
  <2> QED
    BY <1>0, <2>1, <2>2
<1> DEFINE r == Split(R[N], ch)
<1>8. r \in Seq(Text) /\ Len(r) = N /\ \A i \in 1 .. N : r[i] = parts[i]
  BY <1>7, Zenon DEF Pieces
<1> HIDE DEF r
<1>9. r = parts
  BY <1>0, <1>8, SeqEqual DEF N
<1> QED
  BY <1>1, <1>9 DEF r

\* Joining adds no characters but ch.
LEMMA JoinChars ==
    ASSUME NEW V, V \subseteq Char, NEW ch \in V, NEW parts \in Segments, parts \in Seq(Seq(V))
    PROVE  Join(parts, ch) \in Seq(V)
<1> DEFINE N == Len(parts)
<1>0. N \in Nat /\ N # 0 /\ \A i \in 1 .. N : parts[i] \in Seq(V)
  BY DEF Segments
<1>1. PICK R : /\ Join(parts, ch) = R[N]
               /\ R \in [1 .. N -> Text]
               /\ \A n \in 1 .. N : R[n] = JoinStep(parts, ch, R, n)
  BY JoinDef
<1> DEFINE Good == {n \in Nat : n + 1 <= N => R[n + 1] \in Seq(V)}
<1> HIDE DEF N
<1>2. R[1] \in Seq(V)
  <2>1. 1 \in 1 .. N
    BY <1>0
  <2>2. R[1] = parts[1]
    BY <1>1, <2>1, Zenon DEF JoinStep
  <2> QED
    BY <1>0, <2>1, <2>2
<1>3. ASSUME NEW n \in Nat, n \in Good, (n + 1) + 1 <= N PROVE R[(n + 1) + 1] \in Seq(V)
  <2> DEFINE k == (n + 1) + 1
             s == R[n + 1]
             w == parts[k]
  <2>1. n + 1 <= N /\ k \in 1 .. N /\ k - 1 = n + 1 /\ k # 1
    BY <1>0, <1>3
  <2>2. s \in Seq(V) /\ w \in Seq(V) /\ <<ch>> \in Seq(V)
    BY <1>0, <1>3, <2>1
  <2> HIDE DEF k
  <2>3. R[k] = s \o <<ch>> \o w
    <3>1. R[k] = R[k - 1] \o <<ch>> \o parts[k]
      BY <1>1, <2>1, Zenon DEF JoinStep
    <3> QED
      BY <2>1, <3>1, Zenon
  <2> HIDE DEF s, w
  <2>4. s \o <<ch>> \o w \in Seq(V)
    BY <2>2
  <2> QED
    BY <2>3, <2>4 DEF k
<1>4. 0 \in Good
  <2>1. 0 + 1 = 1
    OBVIOUS
  <2> QED
    BY <1>2, <2>1
<1>5. ASSUME NEW n \in Nat, n \in Good PROVE n + 1 \in Good
  BY <1>3, <1>5
<1>6. \A n \in Nat : n \in Good
  <2> HIDE DEF Good
  <2> QED
    BY <1>4, <1>5, SetInduction
<1>7. N - 1 \in Nat /\ (N - 1) + 1 = N
  BY <1>0
<1>8. N - 1 \in Good
  BY <1>6, <1>7
<1>9. R[N] \in Seq(V)
  BY <1>0, <1>7, <1>8
<1> QED
  BY <1>1, <1>9

\* Cutting a text in two.
LEMMA Slices ==
    ASSUME NEW V, NEW a \in Seq(V), NEW b \in Seq(V), NEW c, c = a \o b
    PROVE  SubSeq(c, 1, Len(a)) = a /\ SubSeq(c, Len(a) + 1, Len(c)) = b
<1>0. /\ Len(a) \in Nat /\ Len(b) \in Nat /\ Len(c) = Len(a) + Len(b) /\ c \in Seq(V)
      /\ \A i \in 1 .. Len(a) : c[i] = a[i]
      /\ \A i \in 1 .. Len(b) : c[Len(a) + i] = b[i]
  BY ConcatParts
<1>1. \A i \in 1 .. Len(c) : c[i] \in V
  BY <1>0
<1> DEFINE m == Len(a)
           n == Len(c)
<1>2. m \in Nat /\ n \in Nat /\ n = m + Len(b)
  BY <1>0
<1>3. SubSeq(c, 1, m) = a
  <2> DEFINE x == SubSeq(c, 1, m)
  <2>1. \A i \in 1 .. m : c[i] \in V
    BY <1>0, <1>1
  <2> HIDE DEF m
  <2>2. /\ x \in Seq(V)
        /\ Len(x) = IF 1 <= m THEN m - 1 + 1 ELSE 0
        /\ \A i \in 1 .. m - 1 + 1 : x[i] = c[1 + i - 1]
    BY <1>2, <2>1, SubSeqProperties
  <2>3. m - 1 + 1 = m /\ (~(1 <= m) => m = 0) /\ \A i \in 1 .. m : 1 + i - 1 = i
    BY <1>2
  <2> HIDE DEF x
  <2>4. Len(x) = Len(a) /\ \A i \in 1 .. Len(a) : x[i] = a[i]
    BY <1>0, <2>2, <2>3 DEF m
  <2>5. x = a
    BY <2>2, <2>4, SeqEqual
  <2> QED
    BY <2>5 DEF x
<1>4. SubSeq(c, m + 1, n) = b
  <2> DEFINE x == SubSeq(c, m + 1, n)
             k == m + 1
  <2>1. \A i \in k .. n : c[i] \in V
    BY <1>1, <1>2
  <2>2. k \in Int /\ n \in Int
    BY <1>2
  <2> HIDE DEF m, n, k
  <2>3. /\ SubSeq(c, k, n) \in Seq(V)
        /\ Len(SubSeq(c, k, n)) = IF k <= n THEN n - k + 1 ELSE 0
        /\ \A i \in 1 .. n - k + 1 : SubSeq(c, k, n)[i] = c[k + i - 1]
    <3>1. \A i \in k .. n : c[i] \in V
      BY <2>1
    <3> QED
      BY ONLY <2>2, <3>1, SubSeqProperties
  <2>4. x = SubSeq(c, k, n)
    BY DEF k
  <2> HIDE DEF x
  <2>5. n - k + 1 = Len(b) /\ (~(k <= n) => Len(b) = 0)
    BY <1>0, <1>2 DEF k
  <2>6. \A i \in 1 .. Len(b) : k + i - 1 = m + i
    BY <1>0, <1>2 DEF k
  <2>7. Len(x) = Len(b) /\ \A i \in 1 .. Len(b) : x[i] = b[i]
    BY <1>0, <2>3, <2>4, <2>5, <2>6 DEF m
  <2>8. x = b
    BY <2>3, <2>4, <2>7, SeqEqual
  <2> QED
    BY <2>8 DEF x
<1> QED
  BY <1>3, <1>4

\* c is a, then the first ch, then b.
FirstAt(c, a, ch, b) ==
    a \in Text /\ b \in Text /\ ch \in Char /\ Avoids(a, ch) /\ c = a \o <<ch>> \o b

LEMMA FindFirst ==
    ASSUME NEW a, NEW ch, NEW b, NEW c, FirstAt(c, a, ch, b)
    PROVE  /\ c \in Text
           /\ SubSeq(c, 1, Find(c, ch) - 1) = a
           /\ SubSeq(c, Find(c, ch) + 1, Len(c)) = b
<1>a. a \in Text /\ b \in Text /\ ch \in Char /\ Avoids(a, ch) /\ c = a \o <<ch>> \o b
  BY DEF FirstAt
<1>1. PICK d : d = a \o <<ch>>
  OBVIOUS
<1>0. Len(a) \in Nat /\ Len(b) \in Nat
  BY <1>a DEF Text
<1>2. /\ d \in Text /\ Len(d) = Len(a) + 1 /\ d[Len(a) + 1] = ch
      /\ \A i \in 1 .. Len(a) : d[i] = a[i]
  BY <1>1, <1>a, AddLast DEF Text
<1>3. d \in Seq(Char) /\ b \in Seq(Char) /\ c = d \o b
  BY <1>1, <1>2, <1>a DEF Text
<1>4. /\ c \in Seq(Char) /\ Len(c) = Len(d) + Len(b)
      /\ \A i \in 1 .. Len(d) : c[i] = d[i]
  BY ONLY <1>3, ConcatParts
<1> DEFINE f == Find(c, ch)
<1>5. /\ f \in 1 .. Len(c) + 1 /\ \A i \in 1 .. f - 1 : c[i] # ch
      /\ f <= Len(c) => c[f] = ch
  BY <1>4, <1>a, FindProperties DEF Text
<1> HIDE DEF f
<1>6. f = Len(a) + 1
  <2>1. Len(a) + 1 \in 1 .. Len(d) /\ Len(a) + 1 \in Nat /\ c[Len(a) + 1] = ch
    BY <1>0, <1>2, <1>4
  <2>2. ~(Len(a) + 1 \in 1 .. f - 1)
    BY <1>5, <2>1
  <2>3. f <= Len(a) + 1
    BY <1>0, <1>2, <1>4, <1>5, <2>2
  <2>4. ASSUME f <= Len(a) PROVE FALSE
    <3>1. f \in 1 .. Len(a) /\ f \in 1 .. Len(d) /\ f <= Len(c)
      BY <1>0, <1>2, <1>4, <1>5, <2>4
    <3>2. c[f] = a[f] /\ a[f] # ch
      BY <1>2, <1>4, <1>a, <3>1 DEF Avoids
    <3> QED
      BY <1>5, <3>1, <3>2
  <2> QED
    BY <1>0, <1>4, <1>2, <1>5, <2>3, <2>4
<1>7. SubSeq(c, Len(d) + 1, Len(c)) = b /\ Len(d) + 1 = f + 1
  BY <1>0, <1>2, <1>3, <1>6, Slices
<1>8. PICK e : e = <<ch>> \o b
  OBVIOUS
<1>9. <<ch>> \in Seq(Char) /\ a \in Seq(Char)
  BY <1>a DEF Text
<1>10. e \in Seq(Char) /\ c = a \o e
  <2>1. e \in Seq(Char)
    BY <1>3, <1>8, <1>9, ConcatParts
  <2>2. (a \o <<ch>>) \o b = a \o (<<ch>> \o b)
    BY <1>3, <1>9, ConcatTexts, Zenon
  <2> QED
    BY <1>8, <1>a, <2>1, <2>2
<1>11. SubSeq(c, 1, Len(a)) = a /\ f - 1 = Len(a)
  BY <1>0, <1>6, <1>9, <1>10, Slices
<1> QED
  BY <1>4, <1>7, <1>11 DEF Text, f

\* No ch: the front is all, and nothing follows.
LEMMA FindNone ==
    ASSUME NEW a \in Text, NEW ch \in Char, Avoids(a, ch)
    PROVE  /\ SubSeq(a, 1, Find(a, ch) - 1) = a
           /\ SubSeq(a, Find(a, ch) + 1, Len(a)) = << >>
<1>0. Len(a) \in Nat /\ a \in Seq(Char)
  BY DEF Text
<1> DEFINE f == Find(a, ch)
<1>1. f \in 1 .. Len(a) + 1 /\ (f <= Len(a) => a[f] = ch)
  BY FindProperties
<1> HIDE DEF f
<1>2. f = Len(a) + 1
  <2>1. f <= Len(a) => f \in 1 .. Len(a)
    BY <1>0, <1>1
  <2>2. ~(f <= Len(a))
    BY <1>1, <2>1 DEF Avoids
  <2> QED
    BY <1>0, <1>1, <2>2
<1>3. SubSeq(a, 1, Len(a)) = a
  <2>1. << >> \in Seq(Char) /\ a = a \o << >>
    BY <1>0
  <2> QED
    BY <1>0, <2>1, Slices
<1>4. SubSeq(a, f + 1, Len(a)) = << >>
  <2> DEFINE k == f + 1
             n == Len(a)
  <2>1. k \in Int /\ n \in Int /\ ~(k <= n)
    BY <1>0, <1>2
  <2>2. \A i \in k .. n : a[i] \in Char
    BY <2>1
  <2> HIDE DEF k, n
  <2>3. SubSeq(a, k, n) \in Seq(Char) /\ Len(SubSeq(a, k, n)) = IF k <= n THEN n - k + 1 ELSE 0
    BY <2>1, <2>2, SubSeqProperties
  <2>4. SubSeq(a, k, n) = << >>
    BY <2>1, <2>3
  <2> QED
    BY <2>4 DEF k, n
<1>5. f - 1 = Len(a)
  BY <1>0, <1>2
<1> QED
  BY <1>3, <1>4, <1>5 DEF f

TokenStep(parts, f, n) ==
    IF n = 0 THEN << >>
    ELSE IF parts[n] = << >> THEN f[n - 1] ELSE Append(f[n - 1], parts[n])

LEMMA TokenStepType ==
    ASSUME NEW parts \in Seq(Text), NEW f, NEW n \in 0 .. Len(parts),
           n # 0 => f[n - 1] \in Seq(Text)
    PROVE  TokenStep(parts, f, n) \in Seq(Text)
<1>1. CASE n = 0
  <2>1. << >> \in Seq(Text)
    OBVIOUS
  <2> QED
    BY <1>1, <2>1, Zenon DEF TokenStep
<1>2. CASE n # 0
  <2> DEFINE x == f[n - 1]
             y == parts[n]
  <2>1. x \in Seq(Text) /\ y \in Text
    BY <1>2
  <2> HIDE DEF x, y
  <2>2. Append(x, y) \in Seq(Text)
    BY <2>1
  <2>3. TokenStep(parts, f, n) = IF y = << >> THEN x ELSE Append(x, y)
    BY <1>2, Zenon DEF TokenStep, x, y
  <2> QED
    BY <2>1, <2>2, <2>3
<1> QED
  BY <1>1, <1>2

\* tokenize, unfolded.
LEMMA TokenizeDef ==
    ASSUME NEW s \in Text, NEW ch
    PROVE  \E R : /\ tokenize(s, ch) = R[Len(Split(s, ch))]
                  /\ R \in [0 .. Len(Split(s, ch)) -> Seq(Text)]
                  /\ \A n \in 0 .. Len(Split(s, ch)) : R[n] = TokenStep(Split(s, ch), R, n)
<1> DEFINE parts == Split(s, ch)
           S == Seq(Text)
           D == 0 .. Len(parts)
           step == [f \in [D -> S] |-> [n \in D |-> TokenStep(parts, f, n)]]
           rank == [n \in D |-> n]
           R == CHOOSE r : r = [n \in D |-> TokenStep(parts, r, n)]
<1>1. tokenize(s, ch) = R[Len(parts)]
  BY DEF tokenize, TokenStep
<1>0. parts \in S /\ Len(parts) \in Nat /\ Len(parts) \in D
  BY SplitType DEF Segments
<1> HIDE DEF parts
<1>2. rank \in [D -> 0 .. Len(parts)] /\ \A n \in D : n # 0 => n - 1 \in D /\ rank[n - 1] < rank[n]
  BY <1>0
<1> HIDE DEF rank
<1>3. \E f \in [D -> S] : f = step[f]
  <2>1. S # {}
    BY <1>0
  <2>2. \A f \in [D -> S] : step[f] \in [D -> S]
    BY <1>0, <1>2, TokenStepType
  <2>3. \A x \in D : \A f, g \in [D -> S] :
           (\A y \in D : rank[y] < rank[x] => f[y] = g[y]) => step[f][x] = step[g][x]
    <3>1. ASSUME NEW x \in D, NEW f \in [D -> S], NEW g \in [D -> S],
                 \A y \in D : rank[y] < rank[x] => f[y] = g[y]
          PROVE  TokenStep(parts, f, x) = TokenStep(parts, g, x)
      <4>1. CASE x = 0
        BY <4>1, Zenon DEF TokenStep
      <4>2. CASE x # 0
        <5>1. f[x - 1] = g[x - 1]
          BY <1>2, <3>1, <4>2
        <5> QED
          BY <5>1, Zenon DEF TokenStep
      <4> QED
        BY <4>1, <4>2
    <3> QED
      BY <3>1
  <2>4. step \in [[D -> S] -> [D -> S]]
    BY <2>2
  <2> HIDE DEF D, step, S
  <2>5. WellDefined(D, S, Len(parts), rank, step)
    BY <1>0, <1>2, <2>1, <2>3, <2>4, Zenon DEF WellDefined
  <2> HIDE DEF R
  <2> QED
    BY <2>5, RecursionExists
<1>4. R = [n \in D |-> TokenStep(parts, R, n)]
  BY <1>3, Zenon
<1> HIDE DEF R
<1>5. \A n \in D : R[n] \in S
  <2> DEFINE Good == {n \in D : R[n] \in S}
  <2>1. ASSUME NEW x \in D, \A y \in D : rank[y] < rank[x] => y \in Good PROVE x \in Good
    BY <1>0, <1>2, <1>4, <2>1, TokenStepType
  <2> HIDE DEF D, Good
  <2>2. \A x \in D : x \in Good
    BY <1>0, <1>2, <2>1, RankInduction
  <2> QED
    BY <2>2 DEF Good
<1> QED
  BY <1>1, <1>4, <1>5 DEF parts

\* The pieces are k empty ones and then q, which has none.
Padded(parts, k, q) ==
    /\ k \in {0, 1}
    /\ q \in Seq(Text)
    /\ Len(parts) = k + Len(q)
    /\ k = 1 => parts[1] = << >>
    /\ \A i \in 1 .. Len(q) : parts[k + i] = q[i] /\ q[i] # << >>

LEMMA TokenizePadded ==
    ASSUME NEW s \in Text, NEW ch, NEW k, NEW q, Padded(Split(s, ch), k, q)
    PROVE  tokenize(s, ch) = q
<1> DEFINE parts == Split(s, ch)
           N == Len(parts)
<1>1. PICK R : /\ tokenize(s, ch) = R[N]
               /\ R \in [0 .. N -> Seq(Text)]
               /\ \A n \in 0 .. N : R[n] = TokenStep(parts, R, n)
  BY TokenizeDef
<1>2. /\ k \in Nat /\ Len(q) \in Nat /\ N = k + Len(q) /\ N \in Nat /\ q \in Seq(Text)
      /\ \A i \in 1 .. Len(q) : parts[k + i] = q[i] /\ q[i] # << >>
  BY DEF Padded
<1>3. k \in {0, 1} /\ (k = 1 => parts[1] = << >>)
  BY DEF Padded
<1> HIDE DEF parts, N
<1> DEFINE Kept(n) == Len(R[k + n]) = n /\ \A i \in 1 .. n : R[k + n][i] = q[i]
           Good == {n \in Nat : n <= Len(q) => Kept(n)}
<1>4. R[k] = << >>
  <2>1. R[0] = << >>
    <3>1. 0 \in 0 .. N
      BY <1>2
    <3> QED
      BY <1>1, <3>1, Zenon DEF TokenStep
  <2>2. ASSUME k = 1 PROVE R[1] = R[0]
    <3>1. 1 \in 0 .. N /\ 1 - 1 = 0 /\ 1 # 0
      BY <1>2, <2>2
    <3>2. R[1] = R[1 - 1]
      BY <1>1, <1>3, <2>2, <3>1, Zenon DEF TokenStep
    <3> QED
      BY <3>1, <3>2
  <2> QED
    BY <1>3, <2>1, <2>2
<1>5. Kept(0)
  BY <1>2, <1>4
<1>6. ASSUME NEW n \in Nat, n + 1 <= Len(q), Kept(n) PROVE Kept(n + 1)
  <2> DEFINE m == k + (n + 1)
             r == R[k + n]
             e == q[n + 1]
             u == Append(r, e)
  <2>1. m \in 0 .. N /\ m # 0 /\ m - 1 = k + n /\ k + n \in 0 .. N /\ n + 1 \in 1 .. Len(q)
    BY <1>2, <1>6
  <2>2. parts[m] = e /\ e # << >> /\ e \in Text /\ r \in Seq(Text)
    <3>1. parts[m] = e /\ e # << >>
      BY <1>2, <2>1
    <3>2. e \in Text /\ r \in Seq(Text)
      BY <1>1, <1>2, <2>1
    <3> QED
      BY <3>1, <3>2
  <2>3. R[m] = u
    <3> HIDE DEF m
    <3>1. R[m] = Append(R[m - 1], parts[m])
      BY <1>1, <2>1, <2>2, Zenon DEF TokenStep
    <3> QED
      BY <2>1, <2>2, <3>1, Zenon
  <2>4. Len(r) = n /\ \A i \in 1 .. n : r[i] = q[i]
    BY <1>6
  <2> HIDE DEF r, e
  <2>5. Len(u) = n + 1 /\ u[n + 1] = e /\ \A i \in 1 .. n : u[i] = r[i]
    BY <2>2, <2>4, AppendProperties
  <2> HIDE DEF u
  <2>6. ASSUME NEW i \in 1 .. n + 1 PROVE u[i] = q[i]
    <3>1. i = n + 1 \/ i \in 1 .. n
      OBVIOUS
    <3> QED
      BY <2>4, <2>5, <3>1 DEF e
  <2> QED
    BY <2>3, <2>5, <2>6
<1> HIDE DEF Kept
<1>7. 0 \in Good
  BY <1>5
<1>8. ASSUME NEW n \in Nat, n \in Good PROVE n + 1 \in Good
  <2>1. n + 1 <= Len(q) => n <= Len(q)
    BY <1>2
  <2> QED
    BY <1>6, <1>8, <2>1
<1>9. \A n \in Nat : n \in Good
  <2> HIDE DEF Good
  <2> QED
    BY <1>7, <1>8, SetInduction
<1>10. Kept(Len(q))
  BY <1>2, <1>9
<1> DEFINE r == R[N]
<1>11. r \in Seq(Text) /\ Len(r) = Len(q) /\ \A i \in 1 .. Len(q) : r[i] = q[i]
  <2>1. N \in 0 .. N
    BY <1>2
  <2> QED
    BY <1>1, <1>2, <1>10, <2>1 DEF Kept
<1> HIDE DEF r
<1>12. r = q
  BY <1>2, <1>11, SeqEqual
<1> QED
  BY <1>1, <1>12 DEF r

\* No two characters have the same code, and a code is two digits.
LEMMA CodeIsInjective ==
    ASSUME NEW c \in DOMAIN Code
    PROVE  \E h, l \in HexDigits : Code[c] = <<h, l>> /\ Byte(h, l) = c
<1> DEFINE blank == " "
<1>1. DOMAIN Code = {"/", "%", "&", "=", "+", blank, "x"}
  BY Zenon DEF Code
<1>2. /\ Code["/"] = <<"2", "F">> /\ Code["%"] = <<"2", "5">> /\ Code["&"] = <<"2", "6">>
      /\ Code["="] = <<"3", "D">> /\ Code["+"] = <<"2", "B">> /\ Code[blank] = <<"2", "0">>
      /\ Code["x"] = <<"7", "8">>
  BY DEF Code
<1> HIDE DEF blank
<1> DEFINE h == Code[c][1]
           l == Code[c][2]
<1>a. /\ Code["/"][1] = "2" /\ Code["%"][1] = "2" /\ Code["&"][1] = "2" /\ Code["="][1] = "3"
      /\ Code["+"][1] = "2" /\ Code[blank][1] = "2" /\ Code["x"][1] = "7"
      /\ Code["/"][2] = "F" /\ Code["%"][2] = "5" /\ Code["&"][2] = "6" /\ Code["="][2] = "D"
      /\ Code["+"][2] = "B" /\ Code[blank][2] = "0" /\ Code["x"][2] = "8"
  BY <1>2
<1>b. c = "/" \/ c = "%" \/ c = "&" \/ c = "=" \/ c = "+" \/ c = blank \/ c = "x"
  BY <1>1
<1>3. Code[c] = <<h, l>> /\ h \in HexDigits /\ l \in HexDigits
  <2>1. h \in HexDigits /\ l \in HexDigits
    BY <1>a, <1>b, Zenon DEF HexDigits
  <2>2. Code[c] = <<h, l>>
    BY <1>2, <1>a, <1>b, Zenon
  <2> QED
    BY <2>1, <2>2
<1>4. ASSUME NEW d \in DOMAIN Code, Code[d] = <<h, l>> PROVE d = c
  <2>1. Code[d] = Code[c]
    BY <1>3, <1>4
  <2>2. Code[d][1] = Code[c][1] /\ Code[d][2] = Code[c][2]
    BY <2>1
  <2>3. d = "/" \/ d = "%" \/ d = "&" \/ d = "=" \/ d = "+" \/ d = blank \/ d = "x"
    BY <1>1
  <2> HIDE DEF h, l
  <2> QED
    BY <1>a, <1>b, <2>2, <2>3
<1> HIDE DEF h, l
<1> DEFINE known == {d \in DOMAIN Code : Code[d] = <<h, l>>}
<1>5. c \in known /\ \A d \in known : d = c
  BY <1>3, <1>4
<1>6. Byte(h, l) = IF known = {} THEN "?" ELSE CHOOSE d \in known : TRUE
  BY DEF Byte
<1> HIDE DEF known
<1>7. Byte(h, l) = c
  BY <1>5, <1>6
<1> QED
  BY <1>3, <1>7

LEMMA EscapedIsToken ==
    ASSUME NEW c \in DOMAIN Code, NEW space
    PROVE  IsToken(Escaped(c), space) /\ Escaped(c).as \in Seq({"%"} \cup HexDigits)
<1>1. PICK h \in HexDigits, l \in HexDigits : Code[c] = <<h, l>> /\ Byte(h, l) = c
  BY CodeIsInjective
<1> DEFINE V == {"%"} \cup HexDigits
           p == <<"%">>
           q == <<h, l>>
           e == <<"%", h, l>>
<1>0. /\ p \in Seq(V) /\ q \in Seq(V) /\ Len(p) = 1 /\ Len(q) = 2
      /\ p[1] = "%" /\ q[1] = h /\ q[2] = l
      /\ e \in Seq(V) /\ Len(e) = 3 /\ e[1] = "%" /\ e[2] = h /\ e[3] = l
  OBVIOUS
<1>a. PICK r : r = p \o q
  OBVIOUS
<1>2. Escaped(c).as = r /\ Escaped(c).means = c
  BY <1>1, <1>a DEF Escaped
<1> HIDE DEF p, q, e, V
<1>3. /\ r \in Seq(V) /\ Len(r) = Len(p) + Len(q)
      /\ \A i \in 1 .. Len(p) : r[i] = p[i]
      /\ \A i \in 1 .. Len(q) : r[Len(p) + i] = q[i]
  BY <1>0, <1>a, ConcatParts
<1>4. Len(r) = 3 /\ r[1] = "%" /\ r[2] = h /\ r[3] = l
  <2>1. 1 \in 1 .. 1 /\ 1 \in 1 .. 2 /\ 2 \in 1 .. 2 /\ 1 + 1 = 2 /\ 1 + 2 = 3
    OBVIOUS
  <2> QED
    BY <1>0, <1>3, <2>1
<1>5. r = e
  <2>1. \A i \in 1 .. 3 : i = 1 \/ i = 2 \/ i = 3
    OBVIOUS
  <2>2. \A i \in 1 .. 3 : r[i] = e[i]
    BY <1>0, <1>4, <2>1
  <2> QED
    BY <1>0, <1>3, <1>4, <2>2, SeqEqual
<1>6. /\ decode_percent(e, TRUE, space).ok = TRUE
      /\ decode_percent(e, TRUE, space).res = <<c>>
  BY <1>1, DecodeEscape DEF e
<1>7. V \subseteq Char /\ c \in Char
  BY Zenon DEF Char, Code, V
<1>8. e \in Text
  BY <1>0, <1>7, SeqMonotonic DEF Text
<1> QED
  BY <1>0, <1>2, <1>5, <1>6, <1>7, <1>8 DEF IsToken, V

LEMMA LiteralIsToken ==
    ASSUME NEW c \in Char, c # "%", NEW m \in Char, NEW space, m = Shown(c, space)
    PROVE  IsToken([means |-> m, as |-> <<c>>], space)
<1>1. /\ decode_percent(<<c>>, TRUE, space).ok = TRUE
      /\ decode_percent(<<c>>, TRUE, space).res = <<m>>
  BY DecodePlain
<1>2. <<c>> \in Text
  BY DEF Text
<1> QED
  BY <1>1, <1>2 DEF IsToken

\* What the encodings of segments, keys and values are made of.
SegmentAlphabet == {"%", "x", "+"} \cup HexDigits

ValueAlphabet == {"%", "x", "+", "="} \cup HexDigits

LEMMA Alphabets ==
    /\ SegmentAlphabet \subseteq Char /\ ValueAlphabet \subseteq Char
    /\ SegmentAlphabet \subseteq ValueAlphabet
    /\ "/" \notin SegmentAlphabet /\ "?" \notin SegmentAlphabet /\ "=" \notin SegmentAlphabet
    /\ "&" \notin ValueAlphabet /\ "?" \notin ValueAlphabet
    /\ {"/", "?", "=", "&", "x", "%", " ", "+"} \subseteq Char
BY DEF Char, SegmentAlphabet, ValueAlphabet, HexDigits

LEMMA PathCharsAreTokens ==
    ASSUME NEW x \in PathChars
    PROVE  IsToken(x, FALSE) /\ x.as \in Seq(SegmentAlphabet)
<1>0. {"x", "+", "/", "%"} \subseteq DOMAIN Code
  BY Zenon DEF Code
<1>1. ASSUME NEW c \in {"x", "+", "/", "%"}, x = Escaped(c)
      PROVE  IsToken(x, FALSE) /\ x.as \in Seq(SegmentAlphabet)
  <2>1. IsToken(x, FALSE) /\ x.as \in Seq({"%"} \cup HexDigits)
    BY <1>0, <1>1, EscapedIsToken
  <2>2. {"%"} \cup HexDigits \subseteq SegmentAlphabet
    BY DEF SegmentAlphabet
  <2> QED
    BY <2>1, <2>2, SeqMonotonic
<1>2. ASSUME NEW c \in {"x", "+"}, x = Literal(c)
      PROVE  IsToken(x, FALSE) /\ x.as \in Seq(SegmentAlphabet)
  <2>1. c \in Char /\ c # "%" /\ c = Shown(c, FALSE)
    BY Alphabets DEF Shown
  <2>2. IsToken([means |-> c, as |-> <<c>>], FALSE)
    BY <2>1, LiteralIsToken
  <2>3. x = [means |-> c, as |-> <<c>>] /\ x.as = <<c>> /\ <<c>> \in Seq(SegmentAlphabet)
    BY <1>2 DEF Literal, SegmentAlphabet
  <2> QED
    BY <2>2, <2>3
<1> QED
  BY <1>1, <1>2 DEF PathChars

LEMMA KeyCharsAreTokens ==
    ASSUME NEW x \in KeyChars
    PROVE  IsToken(x, TRUE) /\ x.as \in Seq(SegmentAlphabet)
<1>0. {"&", "=", "+", " "} \subseteq DOMAIN Code
  BY Zenon DEF Code
<1>1. ASSUME NEW c \in {"&", "=", "+", " "}, x = Escaped(c)
      PROVE  IsToken(x, TRUE) /\ x.as \in Seq(SegmentAlphabet)
  <2>1. IsToken(x, TRUE) /\ x.as \in Seq({"%"} \cup HexDigits)
    BY <1>0, <1>1, EscapedIsToken
  <2>2. {"%"} \cup HexDigits \subseteq SegmentAlphabet
    BY DEF SegmentAlphabet
  <2> QED
    BY <2>1, <2>2, SeqMonotonic
<1>2. ASSUME x = Literal("x") PROVE IsToken(x, TRUE) /\ x.as \in Seq(SegmentAlphabet)
  <2>1. "x" \in Char /\ "x" = Shown("x", TRUE)
    BY Alphabets DEF Shown
  <2>2. IsToken([means |-> "x", as |-> <<"x">>], TRUE)
    BY <2>1, LiteralIsToken
  <2>3. x = [means |-> "x", as |-> <<"x">>] /\ x.as = <<"x">> /\ <<"x">> \in Seq(SegmentAlphabet)
    BY <1>2 DEF Literal, SegmentAlphabet
  <2> QED
    BY <2>2, <2>3
<1>3. ASSUME x = [means |-> " ", as |-> <<"+">>]
      PROVE  IsToken(x, TRUE) /\ x.as \in Seq(SegmentAlphabet)
  <2>1. "+" \in Char /\ " " \in Char /\ " " = Shown("+", TRUE)
    BY Alphabets DEF Shown
  <2>2. IsToken([means |-> " ", as |-> <<"+">>], TRUE)
    BY <2>1, LiteralIsToken
  <2>3. x.as = <<"+">> /\ <<"+">> \in Seq(SegmentAlphabet)
    <3>1. x.as = <<"+">>
      BY <1>3
    <3>2. "+" \in SegmentAlphabet
      BY DEF SegmentAlphabet
    <3> QED
      BY <3>1, <3>2
  <2> QED
    BY <1>3, <2>2, <2>3
<1> QED
  BY <1>1, <1>2, <1>3 DEF KeyChars

LEMMA ValueCharsAreTokens ==
    ASSUME NEW x \in ValueChars
    PROVE  IsToken(x, TRUE) /\ x.as \in Seq(ValueAlphabet)
<1>1. CASE x \in KeyChars
  BY <1>1, KeyCharsAreTokens, Alphabets, SeqMonotonic
<1>2. CASE x = Literal("=")
  <2>1. "=" \in Char /\ "=" = Shown("=", TRUE)
    BY Alphabets DEF Shown
  <2>2. IsToken([means |-> "=", as |-> <<"=">>], TRUE)
    BY <2>1, LiteralIsToken
  <2>3. x = [means |-> "=", as |-> <<"=">>] /\ x.as = <<"=">> /\ <<"=">> \in Seq(ValueAlphabet)
    BY <1>2 DEF Literal, ValueAlphabet
  <2> QED
    BY <2>2, <2>3
<1> QED
  BY <1>1, <1>2 DEF ValueChars

\* A text over an alphabet without ch.
LEMMA AvoidsAlphabet ==
    ASSUME NEW V, NEW s \in Seq(V), NEW ch, ch \notin V
    PROVE  Avoids(s, ch)
BY DEF Avoids

\* A function on 1 .. n is a sequence.
LEMMA SequenceOf ==
    ASSUME NEW V, NEW n \in Nat, NEW w, w = [i \in 1 .. n |-> w[i]], \A i \in 1 .. n : w[i] \in V
    PROVE  w \in Seq(V) /\ Len(w) = n
<1>1. w \in [1 .. n -> V]
  BY Zenon
<1> QED
  BY <1>1

LEMMA ParseParts ==
    ASSUME NEW tgt, NEW p, NEW q, p = SubSeq(tgt, 1, Find(tgt, "?") - 1),
           q = SubSeq(tgt, Find(tgt, "?") + 1, Len(tgt))
    PROVE  parse(tgt).decoded_path = parse_path(p) /\ parse(tgt).query_params = parse_query(q)
BY DEF parse

LEMMA NoQuery == parse_query(<< >>) = << >>
<1>1. << >> \in Text /\ << >> \in Seq(Text) /\ Avoids(<< >>, "&")
  BY DEF Text, Avoids
<1>2. Split(<< >>, "&") = << << >> >>
  BY <1>1, SplitAvoiding
<1>3. Padded(<< << >> >>, 1, << >>)
  BY <1>1 DEF Padded
<1>4. tokenize(<< >>, "&") = << >>
  BY <1>1, <1>2, <1>3, TokenizePadded
<1> DEFINE tokens == tokenize(<< >>, "&")
<1>5. parse_query(<< >>) = [i \in DOMAIN tokens |-> Param(tokens[i])]
  BY DEF parse_query
<1>6. DOMAIN tokens = {}
  BY <1>4
<1> HIDE DEF tokens
<1> QED
  BY <1>5, <1>6

\* The texts of a path: what is written, and what is meant.
Written(all) == [i \in DOMAIN all |-> Encoding(all[i])]

Meant(all) == [i \in DOMAIN all |-> Meaning(all[i])]

LEMMA SegmentDecodes ==
    ASSUME NEW t \in Seq(PathChars)
    PROVE  /\ Encoding(t) \in Text /\ Meaning(t) \in Text
           /\ Encoding(t) \in Seq(SegmentAlphabet)
           /\ decode_path(Encoding(t)) = Meaning(t)
<1>1. \A x \in PathChars : IsToken(x, FALSE)
  BY PathCharsAreTokens
<1>2. \A x \in PathChars : x.as \in Seq(SegmentAlphabet)
  BY PathCharsAreTokens
<1>3. Encoding(t) \in Seq(SegmentAlphabet)
  BY <1>2, EncodingChars
<1>4. /\ Encoding(t) \in Text /\ Meaning(t) \in Text
      /\ decode_percent(Encoding(t), TRUE, FALSE).res = Meaning(t)
  BY <1>1, EncodingDecodes
<1> QED
  BY <1>3, <1>4 DEF decode_path

LEMMA PathParses ==
    ASSUME NEW all \in Seq(Seq(PathChars)), all # << >>, NEW tgt, tgt = Join(Written(all), "/")
    PROVE  /\ parse(tgt).decoded_path = Join(Meant(all), "/")
           /\ parse(tgt).query_params = << >>
<1> DEFINE W == Written(all)
           M == Meant(all)
           V == SegmentAlphabet \cup {"/"}
           N == Len(all)
<1>0. N \in Nat /\ DOMAIN all = 1 .. N /\ N # 0
  OBVIOUS
<1>1. ASSUME NEW i \in 1 .. N
      PROVE  /\ W[i] \in Text /\ W[i] \in Seq(SegmentAlphabet) /\ M[i] \in Text
             /\ decode_path(W[i]) = M[i]
  <2>1. all[i] \in Seq(PathChars)
    BY <1>0
  <2>2. W[i] = Encoding(all[i]) /\ M[i] = Meaning(all[i])
    BY <1>0 DEF Written, Meant
  <2> HIDE DEF W, M
  <2> QED
    BY <2>1, <2>2, SegmentDecodes
<1>2. W = [i \in 1 .. N |-> W[i]] /\ M = [i \in 1 .. N |-> M[i]]
  BY <1>0 DEF Written, Meant
<1> HIDE DEF W, M, N
<1>3. V \subseteq Char /\ "/" \in V /\ SegmentAlphabet \subseteq V /\ "?" \notin V
  BY Alphabets
<1>4. W \in Seq(Text) /\ Len(W) = N /\ W \in Seq(Seq(V))
  <2>1. \A i \in 1 .. N : W[i] \in Text /\ W[i] \in Seq(V)
    BY <1>1, <1>3, SeqMonotonic
  <2> HIDE DEF V
  <2>2. W \in Seq(Text) /\ Len(W) = N
    BY <1>0, <1>2, <2>1, SequenceOf
  <2>3. W \in Seq(Seq(V))
    BY <1>0, <1>2, <2>1, SequenceOf
  <2> QED
    BY <2>2, <2>3
<1>5. W \in Segments
  BY <1>0, <1>4 DEF Segments
<1>6. \A i \in 1 .. Len(W) : Avoids(W[i], "/")
  BY <1>1, <1>4, Alphabets, AvoidsAlphabet
<1>7. Split(tgt, "/") = W
  BY <1>3, <1>5, <1>6, SplitJoin DEF W
<1>8. tgt \in Seq(V)
  BY <1>3, <1>4, <1>5, JoinChars DEF W
<1>9. tgt \in Text /\ Avoids(tgt, "?")
  BY <1>3, <1>8, SeqMonotonic, AvoidsAlphabet DEF Text
<1>10. /\ SubSeq(tgt, 1, Find(tgt, "?") - 1) = tgt
       /\ SubSeq(tgt, Find(tgt, "?") + 1, Len(tgt)) = << >>
  BY <1>9, Alphabets, FindNone
<1>11. parse(tgt).decoded_path = parse_path(tgt) /\ parse(tgt).query_params = parse_query(<< >>)
  BY <1>10, ParseParts
<1>12. parse_path(tgt) = Join(M, "/")
  <2> DEFINE segments == Split(tgt, "/")
             decoded == [i \in DOMAIN segments |-> decode_path(segments[i])]
  <2>1. parse_path(tgt) = Join(decoded, "/")
    BY DEF parse_path
  <2>2. decoded = [i \in DOMAIN W |-> decode_path(W[i])]
    BY <1>7
  <2>3. DOMAIN W = 1 .. N
    BY <1>4
  <2> HIDE DEF decoded, segments
  <2>4. decoded = M
    BY <1>1, <1>2, <2>2, <2>3
  <2> QED
    BY <2>1, <2>4
<1> QED
  BY <1>11, <1>12, NoQuery DEF M

\* Every path input parses to what it means.
LEMMA PathInputsDecode ==
    ASSUME NEW i \in PathInputs
    PROVE  /\ "path" \in DOMAIN i
           /\ parse(i.target).decoded_path = i.path
           /\ parse(i.target).query_params = i.params
<1> DEFINE segs == Texts(PathChars, MaxSegment)
           Path(s) == << << >> >> \o s
           Of(s) == [target |-> Join(Written(Path(s)), "/"), path |-> Join(Meant(Path(s)), "/"),
                     params |-> << >>]
           Drafts == UNION {[1 .. n -> segs] : n \in 1 .. MaxParts}
<1>0. i \in {Of(s) : s \in Drafts}
  BY DEF PathInputs, Written, Meant
<1>a. PICK s \in Drafts : i = Of(s)
  <2> HIDE DEF Of, Drafts
  <2> QED
    BY <1>0, Zenon
<1>1. i = [target |-> Join(Written(Path(s)), "/"), path |-> Join(Meant(Path(s)), "/"),
           params |-> << >>]
  BY <1>a
<1>b. PICK n \in 1 .. MaxParts : s \in [1 .. n -> segs]
  BY Zenon
<1>2. segs \subseteq Seq(PathChars)
  BY DEF Texts
<1> HIDE DEF segs
<1>3. s \in Seq(Seq(PathChars))
  BY <1>2, <1>b
<1>4. PICK all : all = << << >> >> \o s
  OBVIOUS
<1>5. all \in Seq(Seq(PathChars)) /\ all # << >>
  <2>1. << << >> >> \in Seq(Seq(PathChars)) /\ Len(<< << >> >>) = 1
    OBVIOUS
  <2>2. all \in Seq(Seq(PathChars)) /\ Len(all) = 1 + Len(s) /\ Len(s) \in Nat
    BY <1>3, <1>4, <2>1, ConcatParts
  <2> QED
    BY <2>2
<1>6. i = [target |-> Join(Written(all), "/"), path |-> Join(Meant(all), "/"), params |-> << >>]
  BY <1>1, <1>4
<1> DEFINE w == Join(Written(all), "/")
           m == Join(Meant(all), "/")
<1>7. parse(w).decoded_path = m /\ parse(w).query_params = << >>
  BY <1>5, PathParses
<1> HIDE DEF w, m
<1>8. i = [target |-> w, path |-> m, params |-> << >>]
  BY <1>6 DEF w, m
<1> QED
  BY <1>7, <1>8

\* The text before the first "?" is the path, the rest the query.
LEMMA QuerySplits ==
    ASSUME NEW p \in Text, Avoids(p, "?"), NEW q \in Text, NEW tgt, tgt = p \o <<"?">> \o q
    PROVE  parse(tgt).decoded_path = parse_path(p) /\ parse(tgt).query_params = parse_query(q)
<1>1. /\ SubSeq(tgt, 1, Find(tgt, "?") - 1) = p
      /\ SubSeq(tgt, Find(tgt, "?") + 1, Len(tgt)) = q
  <2>1. FirstAt(tgt, p, "?", q)
    BY Alphabets, Zenon DEF FirstAt
  <2> QED
    BY ONLY <2>1, FindFirst
<1> QED
  BY <1>1, ParseParts

\* Nothing in front of a text.
LEMMA ConcatEmpty ==
    ASSUME NEW V, NEW s \in Seq(V)
    PROVE  << >> \o s = s /\ s \o << >> = s
OBVIOUS

\* A path of one segment.
LEMMA OneSegment ==
    ASSUME NEW r \in Text, Avoids(r, "/"), NEW c, c = <<"/">> \o r
    PROVE  parse_path(c) = <<"/">> \o decode_path(r)
<1> DEFINE e == << >>
           d == decode_path(r)
           D == <<e, d>>
<1>1. e \in Text /\ <<"/">> \in Seq(Char) /\ "/" \in Char /\ d \in Text /\ Avoids(e, "/")
  <2>1. e \in Text /\ Avoids(e, "/")
    BY DEF Text, Avoids
  <2>2. "/" \in Char
    BY Alphabets
  <2>3. d \in Text
    BY DecodePathType
  <2> QED
    BY <2>1, <2>2, <2>3
<1>2. decode_path(e) = e
  BY DecodeEmpty DEF decode_path
<1>3. e \o <<"/">> = <<"/">>
  BY <1>1, ConcatEmpty
<1>4. Split(c, "/") = <<e, r>>
  <2>1. Split(e \o <<"/">> \o r, "/") = Append(Split(e, "/"), r)
    BY <1>1, SplitConcat
  <2>2. Split(e, "/") = <<e>>
    BY <1>1, SplitAvoiding
  <2>3. Append(<<e>>, r) = <<e, r>>
    <3> HIDE DEF e
    <3>1. <<e>> \in Seq(Text) /\ Len(<<e>>) = 1 /\ <<e>>[1] = e
      BY <1>1
    <3> DEFINE x == Append(<<e>>, r)
               y == <<e, r>>
    <3>2. x \in Seq(Text) /\ Len(x) = 2 /\ x[1] = e /\ x[2] = r
      BY <3>1, AppendProperties
    <3>3. y \in Seq(Text) /\ Len(y) = 2 /\ y[1] = e /\ y[2] = r
      BY <1>1
    <3> HIDE DEF x, y
    <3>4. x = y
      BY <3>2, <3>3, SeqEqual
    <3> QED
      BY <3>4 DEF x, y
  <2> QED
    BY <1>3, <2>1, <2>2, <2>3
<1>5. parse_path(c) = Join(D, "/")
  <2> DEFINE segments == Split(c, "/")
             decoded == [i \in DOMAIN segments |-> decode_path(segments[i])]
  <2>1. parse_path(c) = Join(decoded, "/")
    BY DEF parse_path
  <2>2. DOMAIN segments = 1 .. 2 /\ segments[1] = e /\ segments[2] = r
    BY <1>4
  <2> HIDE DEF segments
  <2>3. decoded = [i \in 1 .. 2 |-> decode_path(segments[i])]
    BY <2>2
  <2>4. decoded[1] = e /\ decoded[2] = d
    BY <1>2, <2>2, <2>3
  <2> HIDE DEF decoded, d, e
  <2>5. decoded = D
    <3>1. decoded \in Seq(Text) /\ Len(decoded) = 2
      <4>1. \A i \in 1 .. 2 : decoded[i] \in Text
        BY <1>1, <2>4
      <4>2. decoded = [i \in 1 .. 2 |-> decoded[i]]
        BY <2>3
      <4> QED
        BY <4>1, <4>2, SequenceOf
    <3>2. D \in Seq(Text) /\ Len(D) = 2 /\ D[1] = e /\ D[2] = d
      BY <1>1
    <3> HIDE DEF D
    <3>3. \A i \in 1 .. 2 : decoded[i] = D[i]
      BY <2>4, <3>2
    <3> QED
      BY <3>1, <3>2, <3>3, SeqEqual
  <2> QED
    BY <2>1, <2>5
<1> HIDE DEF e, d
<1>6. D \in Segments /\ Len(D) = 2 /\ D[1] = e /\ D[2] = d
  BY <1>1 DEF Segments
<1> HIDE DEF D
<1>7. PICK R : /\ Join(D, "/") = R[2]
               /\ \A n \in 1 .. 2 : R[n] = JoinStep(D, "/", R, n)
  BY <1>1, <1>6, JoinDef
<1>8. R[1] = e
  <2>1. 1 \in 1 .. 2
    OBVIOUS
  <2> QED
    BY <1>6, <1>7, <2>1, Zenon DEF JoinStep
<1>9. R[2] = e \o <<"/">> \o d
  <2>1. 2 \in 1 .. 2 /\ 2 # 1 /\ 2 - 1 = 1
    OBVIOUS
  <2>2. R[2] = R[2 - 1] \o <<"/">> \o D[2]
    BY <1>7, <2>1, Zenon DEF JoinStep
  <2> QED
    BY <1>6, <1>8, <2>1, <2>2
<1>10. Join(D, "/") = <<"/">> \o d
  BY <1>3, <1>7, <1>9
<1> QED
  BY <1>5, <1>10 DEF d

\* Joining with an empty text in front.
LEMMA JoinAfterEmpty ==
    ASSUME NEW parts \in Segments, NEW ch \in Char, NEW P \in Segments,
           Len(P) = Len(parts) + 1, P[1] = << >>,
           \A i \in 1 .. Len(parts) : P[i + 1] = parts[i]
    PROVE  Join(P, ch) = <<ch>> \o Join(parts, ch)
<1> DEFINE N == Len(parts)
           e == << >>
           s == <<ch>>
<1>0. /\ N \in Nat /\ N # 0 /\ e \in Seq(Char) /\ s \in Seq(Char) /\ P[1] = e
      /\ \A i \in 1 .. N : parts[i] \in Seq(Char) /\ P[i + 1] = parts[i]
  BY DEF Segments, Text
<1>1. PICK R : /\ Join(parts, ch) = R[N]
               /\ R \in [1 .. N -> Text]
               /\ \A n \in 1 .. N : R[n] = JoinStep(parts, ch, R, n)
  BY JoinDef
<1>2. PICK Q : /\ Join(P, ch) = Q[N + 1]
               /\ \A n \in 1 .. N + 1 : Q[n] = JoinStep(P, ch, Q, n)
  BY JoinDef
<1>a. \A n \in 1 .. N : R[n] \in Seq(Char)
  BY <1>1 DEF Text
<1>b. e \o s = s
  BY <1>0, ConcatEmpty
<1> HIDE DEF N, e
<1>3. \A n \in 1 .. N : Q[n + 1] = Q[n] \o s \o parts[n]
  <2> SUFFICES ASSUME NEW n \in 1 .. N PROVE Q[n + 1] = Q[n] \o s \o parts[n]
    OBVIOUS
  <2>1. n + 1 \in 1 .. N + 1 /\ n + 1 # 1 /\ (n + 1) - 1 = n
    BY <1>0
  <2>2. Q[n + 1] = Q[(n + 1) - 1] \o s \o P[n + 1]
    BY <1>2, <2>1, Zenon DEF JoinStep
  <2> QED
    BY <1>0, <2>1, <2>2
<1>4. \A n \in 1 .. N : n # 1 => R[n] = R[n - 1] \o s \o parts[n]
  BY <1>1, Zenon DEF JoinStep
<1>5. Q[1] = e /\ R[1] = parts[1]
  <2>1. 1 \in 1 .. N /\ 1 \in 1 .. N + 1
    BY <1>0
  <2> QED
    BY <1>0, <1>1, <1>2, <2>1, Zenon DEF JoinStep
<1> DEFINE Good == {n \in Nat : n + 1 <= N => Q[(n + 1) + 1] = s \o R[n + 1]}
<1>6. 0 \in Good
  <2>1. 1 \in 1 .. N /\ 0 + 1 = 1 /\ 1 + 1 = 2
    BY <1>0
  <2>2. Q[1 + 1] = Q[1] \o s \o parts[1]
    BY <1>3, <2>1
  <2>3. Q[1 + 1] = s \o R[1]
    BY <1>5, <1>b, <2>2
  <2> QED
    BY <2>1, <2>3
<1>7. ASSUME NEW n \in Nat, n \in Good PROVE n + 1 \in Good
  <2> SUFFICES ASSUME (n + 1) + 1 <= N PROVE Q[((n + 1) + 1) + 1] = s \o R[(n + 1) + 1]
    OBVIOUS
  <2> DEFINE m == n + 1
             r == R[m]
             w == parts[m + 1]
  <2>1. m \in 1 .. N /\ m + 1 \in 1 .. N /\ m + 1 # 1 /\ (m + 1) - 1 = m
    BY <1>0
  <2>2. Q[m + 1] = s \o r
    BY <1>7, <2>1
  <2> HIDE DEF m
  <2>3. r \in Seq(Char) /\ w \in Seq(Char)
    BY <1>0, <1>a, <2>1
  <2>4. Q[(m + 1) + 1] = Q[m + 1] \o s \o w
    BY <1>3, <2>1
  <2>5. R[m + 1] = r \o s \o w
    <3>1. R[m + 1] = R[(m + 1) - 1] \o s \o w
      BY <1>4, <2>1
    <3> QED
      BY <2>1, <3>1
  <2> HIDE DEF r, w, s
  <2>6. ((s \o r) \o s) \o w = s \o ((r \o s) \o w)
    <3>1. PICK u : u = r \o s
      OBVIOUS
    <3>2. u \in Seq(Char)
      BY <1>0, <2>3, <3>1, ConcatParts
    <3>3. (s \o r) \o s = s \o u
      BY <1>0, <2>3, <3>1, ConcatTexts
    <3>4. (s \o u) \o w = s \o (u \o w)
      BY ONLY <1>0, <2>3, <3>2, ConcatTexts, Zenon
    <3> QED
      BY <3>1, <3>3, <3>4
  <2> QED
    BY <2>2, <2>4, <2>5, <2>6 DEF m
<1>8. \A n \in Nat : n \in Good
  <2> HIDE DEF Good
  <2> QED
    BY <1>6, <1>7, SetInduction
<1>9. N - 1 \in Nat /\ (N - 1) + 1 = N
  BY <1>0
<1>10. N - 1 \in Good
  BY <1>8, <1>9
<1>11. Q[N + 1] = s \o R[N]
  <2>1. (N - 1) + 1 <= N => Q[((N - 1) + 1) + 1] = s \o R[(N - 1) + 1]
    BY <1>10
  <2> QED
    BY <1>0, <1>9, <2>1
<1> QED
  BY <1>1, <1>2, <1>11

\* A key and a value as they are sent, and as they are meant.
Sent(p) == Encoding(p[1]) \o <<"=">> \o Encoding(p[2])

MeantParam(p) == <<Meaning(p[1]), Meaning(p[2])>>

LEMMA KeyDecodes ==
    ASSUME NEW t \in Seq(KeyChars)
    PROVE  /\ Encoding(t) \in Text /\ Encoding(t) \in Seq(SegmentAlphabet)
           /\ decode_query(Encoding(t)) = Meaning(t)
<1>1. \A x \in KeyChars : IsToken(x, TRUE)
  BY KeyCharsAreTokens
<1>2. \A x \in KeyChars : x.as \in Seq(SegmentAlphabet)
  BY KeyCharsAreTokens
<1>3. Encoding(t) \in Seq(SegmentAlphabet)
  BY <1>2, EncodingChars
<1>4. /\ Encoding(t) \in Text
      /\ decode_percent(Encoding(t), TRUE, TRUE).ok = TRUE
      /\ decode_percent(Encoding(t), TRUE, TRUE).res = Meaning(t)
  BY <1>1, EncodingDecodes
<1> QED
  BY <1>3, <1>4 DEF decode_query

LEMMA ValueDecodes ==
    ASSUME NEW t \in Seq(ValueChars)
    PROVE  /\ Encoding(t) \in Text /\ Encoding(t) \in Seq(ValueAlphabet)
           /\ decode_query(Encoding(t)) = Meaning(t)
<1>1. \A x \in ValueChars : IsToken(x, TRUE)
  BY ValueCharsAreTokens
<1>2. \A x \in ValueChars : x.as \in Seq(ValueAlphabet)
  BY ValueCharsAreTokens
<1>3. Encoding(t) \in Seq(ValueAlphabet)
  BY <1>2, EncodingChars
<1>4. /\ Encoding(t) \in Text
      /\ decode_percent(Encoding(t), TRUE, TRUE).ok = TRUE
      /\ decode_percent(Encoding(t), TRUE, TRUE).res = Meaning(t)
  BY <1>1, EncodingDecodes
<1> QED
  BY <1>3, <1>4 DEF decode_query

\* The first "=" separates the key from the value.
LEMMA ParamSplits ==
    ASSUME NEW a, NEW b, NEW t, FirstAt(t, a, "=", b)
    PROVE  Param(t) = <<decode_query(a), decode_query(b)>>
<1>1. /\ SubSeq(t, 1, Find(t, "=") - 1) = a
      /\ SubSeq(t, Find(t, "=") + 1, Len(t)) = b
  BY ONLY FirstAt(t, a, "=", b), FindFirst
<1> QED
  BY ONLY <1>1 DEF Param

LEMMA ParamDecodes ==
    ASSUME NEW k \in Seq(KeyChars), NEW v \in Seq(ValueChars), NEW p, p = <<k, v>>
    PROVE  /\ Sent(p) \in Seq(ValueAlphabet) /\ Sent(p) \in Text /\ Sent(p) # << >>
           /\ Param(Sent(p)) = MeantParam(p)
<1> DEFINE a == Encoding(k)
           b == Encoding(v)
<1>1. Sent(p) = a \o <<"=">> \o b /\ MeantParam(p) = <<Meaning(k), Meaning(v)>>
  <2>1. p[1] = k /\ p[2] = v
    OBVIOUS
  <2> QED
    BY <2>1, Zenon DEF Sent, MeantParam
<1>2. /\ a \in Text /\ a \in Seq(SegmentAlphabet) /\ b \in Text /\ b \in Seq(ValueAlphabet)
      /\ decode_query(a) = Meaning(k) /\ decode_query(b) = Meaning(v)
  BY KeyDecodes, ValueDecodes
<1> HIDE DEF a, b
<1>3. a \in Seq(ValueAlphabet) /\ Avoids(a, "=") /\ <<"=">> \in Seq(ValueAlphabet)
  <2>1. a \in Seq(ValueAlphabet)
    BY <1>2, Alphabets, SeqMonotonic
  <2>2. Avoids(a, "=")
    BY <1>2, Alphabets, AvoidsAlphabet
  <2>3. "=" \in ValueAlphabet
    BY DEF ValueAlphabet
  <2> QED
    BY <2>1, <2>2, <2>3
<1>4. PICK d : d = a \o <<"=">>
  OBVIOUS
<1>5. d \in Seq(ValueAlphabet) /\ Len(d) = Len(a) + Len(<<"=">>) /\ Len(a) \in Nat
  BY ONLY <1>3, <1>4, ConcatParts
<1>6. PICK t : t = d \o b
  OBVIOUS
<1>7. t \in Seq(ValueAlphabet) /\ Len(t) = Len(d) + Len(b) /\ Len(b) \in Nat
  BY ONLY <1>2, <1>5, <1>6, ConcatParts
<1>8. t # << >>
  <2>1. Len(t) # 0
    BY <1>5, <1>7
  <2> QED
    BY <2>1
<1>9. FirstAt(t, a, "=", b)
  <2>1. t = a \o <<"=">> \o b
    BY <1>4, <1>6
  <2> QED
    BY <1>2, <1>3, <2>1, Alphabets, Zenon DEF FirstAt
<1>10. Param(t) = <<decode_query(a), decode_query(b)>>
  BY ONLY <1>9, ParamSplits
<1>11. t \in Text
  BY <1>7, Alphabets, SeqMonotonic DEF Text
<1>12. Sent(p) = t
  BY <1>1, <1>4, <1>6
<1> QED
  BY ONLY <1>1, <1>2, <1>7, <1>8, <1>10, <1>11, <1>12

\* The query of a target: a stray "&", then the parameters.
LEMMA QueryParses ==
    ASSUME NEW T \in Segments, \A i \in 1 .. Len(T) : T[i] \in Seq(ValueAlphabet) /\ T[i] # << >>,
           NEW q, q = <<"&">> \o Join(T, "&")
    PROVE  q \in Text /\ parse_query(q) = [i \in DOMAIN T |-> Param(T[i])]
<1> DEFINE e == << >>
<1>0. T \in Seq(Text) /\ Len(T) \in Nat /\ Len(T) # 0 /\ e \in Text /\ << e >> \in Seq(Text)
  BY DEF Segments, Text
<1>1. PICK P : P = <<e>> \o T
  OBVIOUS
<1>2. /\ P \in Seq(Text) /\ Len(P) = 1 + Len(T) /\ P[1] = e
      /\ \A i \in 1 .. Len(T) : P[1 + i] = T[i]
  <2> HIDE DEF e
  <2>1. Len(<<e>>) = 1 /\ <<e>>[1] = e
    OBVIOUS
  <2>2. /\ P \in Seq(Text) /\ Len(P) = Len(<<e>>) + Len(T)
        /\ \A i \in 1 .. Len(<<e>>) : P[i] = <<e>>[i]
        /\ \A i \in 1 .. Len(T) : P[Len(<<e>>) + i] = T[i]
    BY ONLY <1>0, <1>1, ConcatParts
  <2> QED
    BY ONLY <2>1, <2>2
<1>3. /\ P \in Segments /\ P[1] = << >>
      /\ Len(P) = Len(T) + 1 /\ \A i \in 1 .. Len(T) : P[i + 1] = T[i]
  <2>1. \A i \in 1 .. Len(T) : P[i + 1] = T[i]
    BY <1>2
  <2>2. P \in Segments /\ Len(P) = Len(T) + 1
    BY <1>0, <1>2 DEF Segments
  <2> QED
    BY <1>2, <2>1, <2>2
<1>4. \A i \in 1 .. Len(P) : Avoids(P[i], "&")
  <2> SUFFICES ASSUME NEW i \in 1 .. Len(P) PROVE Avoids(P[i], "&")
    OBVIOUS
  <2>1. CASE i = 1
    BY <1>3, <2>1 DEF Avoids
  <2>2. CASE i # 1
    <3>1. i - 1 \in 1 .. Len(T) /\ 1 + (i - 1) = i
      BY <1>0, <1>2, <2>2
    <3>2. P[i] = T[i - 1] /\ T[i - 1] \in Seq(ValueAlphabet)
      BY <1>2, <3>1
    <3> QED
      BY <3>2, Alphabets, AvoidsAlphabet
  <2> QED
    BY <2>1, <2>2
<1>5. Join(P, "&") = q
  BY <1>3, Alphabets, JoinAfterEmpty
<1>6. q \in Text /\ Split(q, "&") = P
  BY <1>3, <1>4, <1>5, Alphabets, JoinType, SplitJoin
<1>7. Padded(P, 1, T)
  BY <1>0, <1>2 DEF Padded
<1>8. tokenize(q, "&") = T
  BY ONLY <1>6, <1>7, TokenizePadded
<1>9. parse_query(q) = [i \in DOMAIN T |-> Param(T[i])]
  BY ONLY <1>8 DEF parse_query
<1> QED
  BY <1>6, <1>9

\* The path in front of the parameters.
LEMMA PathOfQuery ==
    /\ <<"/", "x">> \in Text /\ Avoids(<<"/", "x">>, "?")
    /\ parse_path(<<"/", "x">>) = <<"/", "x">>
<1>0. "x" \in Char /\ "/" \in Char
  BY Alphabets
<1>1. <<"/">> \in Seq(Char) /\ <<"x">> \in Seq(Char) /\ "x" \in Char /\ "/" \in Char
  BY <1>0
<1>2. <<"/">> \o <<"x">> = <<"/", "x">>
  <2> DEFINE u == <<"/">> \o <<"x">>
             w == <<"/", "x">>
  <2>1. /\ u \in Seq(Char) /\ Len(u) = 2 /\ u[1] = "/" /\ u[2] = "x"
    <3>1. Len(<<"/">>) = 1 /\ <<"/">>[1] = "/"
      OBVIOUS
    <3>2. /\ u \in Seq(Char) /\ Len(u) = Len(<<"/">>) + 1
          /\ u[Len(<<"/">>) + 1] = "x"
          /\ \A i \in 1 .. Len(<<"/">>) : u[i] = <<"/">>[i]
      BY <1>1, AddLast
    <3> HIDE DEF u
    <3> QED
      BY <3>1, <3>2
  <2>2. w \in Seq(Char) /\ Len(w) = 2 /\ w[1] = "/" /\ w[2] = "x"
    BY <1>1
  <2> HIDE DEF u, w
  <2>3. u = w
    BY <2>1, <2>2, SeqEqual
  <2> QED
    BY <2>3 DEF u, w
<1>3. decode_path(<<"x">>) = <<"x">>
  BY <1>1, DecodePlain DEF decode_path, Shown
<1>4. <<"x">> \in Text /\ Avoids(<<"x">>, "/")
  BY <1>1 DEF Text, Avoids
<1>5. parse_path(<<"/", "x">>) = <<"/">> \o decode_path(<<"x">>)
  BY <1>2, <1>4, OneSegment
<1>6. <<"/", "x">> \in Text /\ Avoids(<<"/", "x">>, "?")
  BY <1>1 DEF Text, Avoids
<1> QED
  BY <1>2, <1>3, <1>5, <1>6

\* Where the path ends and where the parameters begin.
LEMMA QueryTarget ==
    ASSUME NEW J \in Text
    PROVE  <<"/", "x", "?", "&">> \o J = <<"/", "x">> \o <<"?">> \o (<<"&">> \o J)
<1> DEFINE p == <<"/", "x">>
           m == <<"?">>
           a == <<"&">>
           w == <<"/", "x", "?", "&">>
<1>0. "x" \in Char /\ "/" \in Char /\ "?" \in Char /\ "&" \in Char
  BY Alphabets
<1>1. p \in Seq(Char) /\ m \in Seq(Char) /\ a \in Seq(Char) /\ "?" \in Char /\ "&" \in Char
  BY <1>0
<1>2. w \in Seq(Char) /\ Len(w) = 4 /\ w[1] = "/" /\ w[2] = "x" /\ w[3] = "?" /\ w[4] = "&"
  BY <1>0
<1>3. Len(p) = 2 /\ p[1] = "/" /\ p[2] = "x"
  OBVIOUS
<1>4. PICK d : d = p \o m
  OBVIOUS
<1> HIDE DEF p, w
<1>5. d \in Seq(Char) /\ Len(d) = 3 /\ d[1] = "/" /\ d[2] = "x" /\ d[3] = "?"
  <2>1. /\ d \in Seq(Char) /\ Len(d) = Len(p) + 1
        /\ d[Len(p) + 1] = "?" /\ \A i \in 1 .. Len(p) : d[i] = p[i]
    BY <1>1, <1>4, AddLast
  <2> QED
    BY ONLY <1>3, <2>1
<1>6. PICK f : f = d \o a
  OBVIOUS
<1>7. f \in Seq(Char) /\ Len(f) = 4 /\ f[1] = "/" /\ f[2] = "x" /\ f[3] = "?" /\ f[4] = "&"
  <2>1. /\ f \in Seq(Char) /\ Len(f) = Len(d) + 1
        /\ f[Len(d) + 1] = "&" /\ \A i \in 1 .. Len(d) : f[i] = d[i]
    <3>1. f = d \o <<"&">>
      BY <1>6
    <3>2. d \in Seq(Char)
      BY <1>5
    <3> QED
      BY <1>0, <3>1, <3>2, AddLast
  <2> QED
    BY ONLY <1>5, <2>1
<1>8. f = w
  <2>1. \A i \in 1 .. 4 : i = 1 \/ i = 2 \/ i = 3 \/ i = 4
    OBVIOUS
  <2>2. \A i \in 1 .. 4 : f[i] = w[i]
    BY ONLY <1>2, <1>7, <2>1
  <2> QED
    BY ONLY <1>2, <1>7, <2>2, SeqEqual
<1> HIDE DEF a, m
<1>9. (d \o a) \o J = d \o (a \o J)
  BY ONLY <1>1, <1>5, J \in Text, ConcatTexts DEF Text
<1>10. w \o J = (p \o m) \o (a \o J)
  BY ONLY <1>4, <1>6, <1>8, <1>9
<1> QED
  BY <1>10 DEF p, w, m, a

LEMMA TextsAreSequences == ASSUME NEW chars, NEW n PROVE Texts(chars, n) \subseteq Seq(chars)
BY DEF Texts

LEMMA QueryInputDecodes ==
    ASSUME NEW ps \in Seq(Params), ps # << >>, NEW tgt,
           tgt = <<"/", "x", "?", "&">> \o Join([i \in DOMAIN ps |-> Sent(ps[i])], "&")
    PROVE  /\ parse(tgt).decoded_path = <<"/", "x">>
           /\ parse(tgt).query_params = [i \in DOMAIN ps |-> MeantParam(ps[i])]
<1> DEFINE T == [i \in DOMAIN ps |-> Sent(ps[i])]
           J == Join(T, "&")
           N == Len(ps)
<1>0. N \in Nat /\ N # 0 /\ DOMAIN ps = 1 .. N
  OBVIOUS
<1>1. ASSUME NEW i \in 1 .. N
      PROVE  /\ T[i] \in Seq(ValueAlphabet) /\ T[i] \in Text /\ T[i] # << >>
             /\ Param(T[i]) = MeantParam(ps[i])
  <2>1. ps[i] \in Params
    BY <1>0
  <2>2. PICK k \in Seq(KeyChars), v \in Seq(ValueChars) : ps[i] = <<k, v>>
    <3>1. /\ Texts(KeyChars, MaxField) \subseteq Seq(KeyChars)
          /\ Texts(ValueChars, MaxField) \subseteq Seq(ValueChars)
      BY TextsAreSequences
    <3>2. PICK k \in Texts(KeyChars, MaxField), v \in Texts(ValueChars, MaxField) : ps[i] = <<k, v>>
      BY <2>1 DEF Params
    <3> QED
      BY <3>1, <3>2
  <2>3. T[i] = Sent(ps[i])
    BY <1>0
  <2> HIDE DEF T
  <2> QED
    BY ONLY <2>2, <2>3, ParamDecodes
<1>2. T = [i \in 1 .. N |-> T[i]] /\ DOMAIN T = 1 .. N
  BY <1>0
<1>3. tgt = <<"/", "x", "?", "&">> \o J
  OBVIOUS
<1> HIDE DEF T, N
<1>4. T \in Seq(Text) /\ Len(T) = N
  BY <1>0, <1>1, <1>2, SequenceOf
<1>5. T \in Segments
  BY <1>0, <1>4 DEF Segments
<1>6. J \in Text
  BY <1>5, Alphabets, JoinType
<1>7. PICK q : q = <<"&">> \o J
  OBVIOUS
<1>8. \A i \in 1 .. Len(T) : T[i] \in Seq(ValueAlphabet) /\ T[i] # << >>
  BY <1>1, <1>4
<1>9. q \in Text /\ parse_query(q) = [i \in DOMAIN T |-> Param(T[i])]
  BY ONLY <1>5, <1>7, <1>8, QueryParses DEF J
<1> HIDE DEF J
<1>10. tgt = <<"/", "x">> \o <<"?">> \o q
  BY ONLY <1>3, <1>6, <1>7, QueryTarget
<1> DEFINE p == <<"/", "x">>
<1>11. p \in Text /\ Avoids(p, "?") /\ parse_path(p) = p
  BY PathOfQuery
<1> HIDE DEF p
<1>12. tgt = p \o <<"?">> \o q
  BY <1>10 DEF p
<1>13. parse(tgt).decoded_path = parse_path(p) /\ parse(tgt).query_params = parse_query(q)
  BY ONLY <1>9, <1>11, <1>12, QuerySplits
<1>14. [i \in DOMAIN T |-> Param(T[i])] = [i \in DOMAIN ps |-> MeantParam(ps[i])]
  BY ONLY <1>0, <1>1, <1>2
<1> QED
  BY <1>9, <1>11, <1>13, <1>14 DEF p

\* Every query input parses to what it means.
LEMMA QueryInputsDecode ==
    ASSUME NEW i \in QueryInputs
    PROVE  /\ "path" \in DOMAIN i
           /\ parse(i.target).decoded_path = i.path
           /\ parse(i.target).query_params = i.params
<1> DEFINE Target(ps) == <<"/", "x", "?", "&">> \o Join([j \in DOMAIN ps |-> Sent(ps[j])], "&")
           Means(ps) == [j \in DOMAIN ps |-> MeantParam(ps[j])]
           Of(ps) == [target |-> Target(ps), path |-> <<"/", "x">>, params |-> Means(ps)]
           Drafts == UNION {[1 .. n -> Params] : n \in 1 .. MaxParts}
<1>1. i \in {Of(ps) : ps \in Drafts}
  BY DEF QueryInputs, Sent, MeantParam
<1>2. PICK ps \in Drafts : i = Of(ps)
  <2> HIDE DEF Of, Drafts
  <2> QED
    BY <1>1, Zenon
<1>3. PICK n \in 1 .. MaxParts : ps \in [1 .. n -> Params]
  BY Zenon
<1>4. ps \in Seq(Params) /\ ps # << >>
  BY <1>3
<1> DEFINE t == Target(ps)
           m == Means(ps)
<1>5. i = [target |-> t, path |-> <<"/", "x">>, params |-> m]
  BY <1>2
<1>6. parse(t).decoded_path = <<"/", "x">> /\ parse(t).query_params = m
  BY <1>4, QueryInputDecodes
<1> HIDE DEF t, m
<1> QED
  BY ONLY <1>5, <1>6

\* A text has one decoding.
LEMMA DecodingUnique ==
    ASSUME NEW src \in Text, NEW space, NEW B, NEW C,
           IsDecoding(src, space, B), IsDecoding(src, space, C)
    PROVE  Same(C[1], B[1])
<1> DEFINE e == << >>
<1>1. e \in Text /\ Len(e) + 1 = 1 /\ src = e \o src
  BY DEF Text
<1> HIDE DEF e
<1>2. Same(C[Len(e) + 1], B[1])
  BY <1>1, DecodeShift
<1> QED
  BY <1>1, <1>2

\* Without "+", the flag for spaces makes no difference.
LEMMA SpaceFlagIdle ==
    ASSUME NEW src \in Text, Avoids(src, "+")
    PROVE  Same(decode_percent(src, TRUE, TRUE), decode_percent(src, TRUE, FALSE))
<1>1. PICK C : decode_percent(src, TRUE, TRUE) = C[1] /\ IsDecoding(src, TRUE, C)
  BY DecodingExists
<1>2. PICK B : decode_percent(src, TRUE, FALSE) = B[1] /\ IsDecoding(src, FALSE, B)
  BY DecodingExists
<1>3. ASSUME NEW i \in 1 .. Len(src) + 1
      PROVE  DecodeStep(src, TRUE, TRUE, C, i) = DecodeStep(src, TRUE, FALSE, C, i)
  <2>0. Len(src) \in Nat
    BY DEF Text
  <2>1. i > Len(src) \/ src[i] # "+"
    BY <2>0 DEF Avoids
  <2>2. CASE i > Len(src)
    BY <2>2, Zenon DEF DecodeStep
  <2>3. CASE src[i] # "+"
    BY <2>3, Zenon DEF DecodeStep
  <2> QED
    BY <2>1, <2>2, <2>3
<1>4. IsDecoding(src, FALSE, C)
  BY <1>1, <1>3, Zenon DEF IsDecoding
<1>5. Same(C[1], B[1])
  BY <1>2, <1>4, DecodingUnique
<1> QED
  BY <1>1, <1>2, <1>5

\* Only "%25" denotes "%".
LEMMA ByteOfPercent == ASSUME NEW h, NEW l, l # "5" PROVE Byte(h, l) # "%"
<1> DEFINE known == {c \in DOMAIN Code : Code[c] = <<h, l>>}
<1>1. Code["%"] = <<"2", "5">>
  BY DEF Code
<1>2. "%" \notin known
  <2>1. <<"2", "5">> # <<h, l>>
    OBVIOUS
  <2> QED
    BY <1>1, <2>1
<1>3. Byte(h, l) = IF known = {} THEN "?" ELSE CHOOSE c \in known : TRUE
  BY DEF Byte
<1> HIDE DEF known
<1>4. known # {} => (CHOOSE c \in known : TRUE) \in known
  BY Zenon
<1> QED
  BY <1>2, <1>3, <1>4

\* Decoding a text without "5" leaves no "%".
LEMMA DecodesNoPercent ==
    ASSUME NEW src \in Text, Avoids(src, "5")
    PROVE  decode_path(src) \in Seq(Char \ {"%"})
<1> DEFINE k == Len(src)
           D == 1 .. k + 1
           V == Char \ {"%"}
           rank == [i \in D |-> k + 1 - i]
<1>0. k \in Nat /\ \A i \in 1 .. k : src[i] \in Char
  BY DEF Text
<1>1. PICK R : decode_percent(src, TRUE, FALSE) = R[1] /\ IsDecoding(src, FALSE, R)
  BY DecodingExists
<1> DEFINE Good == {i \in D : R[i].res \in Seq(V)}
<1>2. k + 1 \in Nat /\ rank \in [D -> 0 .. k + 1] /\ \A x, y \in D : rank[y] < rank[x] <=> y > x
  BY <1>0
<1> HIDE DEF rank, V
<1>3. ASSUME NEW i \in D, \A y \in D : rank[y] < rank[i] => y \in Good
      PROVE  R[i].res \in Seq(V)
  <2>0. i \in Nat /\ i \in 1 .. Len(src) + 1
    BY <1>0
  <2>a. \A y \in D : y > i => R[y].res \in Seq(V)
    BY <1>2, <1>3
  <2>b. ASSUME NEW e \in V, NEW n \in {1, 3}, i + n \in D, Prepends(<<e>>, R[i], R[i + n])
        PROVE  R[i].res \in Seq(V)
    <3> DEFINE x == R[i].res
               y == R[i + n].res
               t == <<e>>
    <3>1. x = t \o y /\ y \in Seq(V) /\ t \in Seq(V)
      BY <2>0, <2>a, <2>b DEF Prepends
    <3> HIDE DEF x, y, t
    <3>2. x \in Seq(V)
      BY ONLY <3>1, ConcatParts
    <3> QED
      BY <3>2 DEF x
  <2>1. CASE i = k + 1
    <3>1. Ends(R[i], TRUE)
      BY <1>1, <2>0, <2>1, DecodingCases
    <3> QED
      BY <3>1 DEF Ends
  <2>2. CASE Malformed(src, i)
    <3>1. Ends(R[i], FALSE)
      BY <1>1, <2>0, <2>2, DecodingCases
    <3> QED
      BY <3>1 DEF Ends
  <2>3. CASE Escape(src, i)
    <3> DEFINE e == Byte(src[i + 1], src[i + 2])
    <3>1. i + 3 \in D /\ Prepends(<<e>>, R[i], R[i + 3])
      BY <1>1, <2>0, <2>3, DecodingCases
    <3>2. i + 2 \in 1 .. k
      BY <1>0, <2>0, <2>3 DEF Escape
    <3>3. src[i + 2] # "5"
      BY <3>2 DEF Avoids
    <3>4. e \in V
      BY <3>3, ByteOfPercent, ByteIsCharacter DEF V
    <3> HIDE DEF e
    <3> QED
      BY <2>b, <3>1, <3>4
  <2>4. CASE Plain(src, i)
    <3> DEFINE e == Shown(src[i], FALSE)
    <3>1. i + 1 \in D /\ Prepends(<<e>>, R[i], R[i + 1])
      BY <1>1, <2>0, <2>4, DecodingCases
    <3>2. e \in V
      BY <1>0, <2>4 DEF V, Shown, Plain
    <3> HIDE DEF e
    <3> QED
      BY <2>b, <3>1, <3>2
  <2> QED
    BY <2>0, <2>1, <2>2, <2>3, <2>4, KindsOfPositions
<1>4. \A i \in D : i \in Good
  <2>1. ASSUME NEW i \in D, \A y \in D : rank[y] < rank[i] => y \in Good PROVE i \in Good
    BY <1>3, <2>1
  <2> HIDE DEF D, Good
  <2> QED
    BY <1>2, <2>1, RankInduction
<1>5. 1 \in D
  BY <1>0
<1>6. R[1].res \in Seq(V)
  BY <1>4, <1>5
<1> QED
  BY <1>1, <1>6 DEF decode_path, V

LEMMA PrefixAt ==
    ASSUME NEW r \in Text, NEW k \in 0 .. Len(r)
    PROVE  /\ SubSeq(r, 1, k) \in Text /\ Len(SubSeq(r, 1, k)) = k
           /\ \A i \in 1 .. k : SubSeq(r, 1, k)[i] = r[i]
<1>0. Len(r) \in Nat
  BY DEF Text
<1>1. CASE k = 0
  <2>1. SubSeq(r, 1, 0) = << >>
    BY SubSeqEmpty
  <2> QED
    BY <1>1, <2>1 DEF Text
<1>2. CASE k # 0
  <2>1. k \in 1 .. Len(r)
    BY <1>0, <1>2
  <2> QED
    BY <2>1, PrefixProperties
<1> QED
  BY <1>1, <1>2

\* A prefix and what follows it.
Follows(r, l, w) ==
    /\ r \in Text /\ w \in Text /\ l \in 0 .. Len(r)
    /\ l + Len(w) <= Len(r) /\ \A i \in 1 .. Len(w) : r[l + i] = w[i]

\* The prefix x of length l grows by w to the prefix y.
Grows(r, l, w, x, y) ==
    x = SubSeq(r, 1, l) /\ y = SubSeq(r, 1, l + Len(w)) =>
        x \in Text /\ w \in Text /\ y = x \o w /\ l + Len(w) \in 0 .. Len(r)

LEMMA PrefixGrows ==
    ASSUME NEW r, NEW l, NEW w, Follows(r, l, w), NEW x, NEW y
    PROVE  Grows(r, l, w, x, y)
<1> SUFFICES ASSUME x = SubSeq(r, 1, l), y = SubSeq(r, 1, l + Len(w))
             PROVE  x \in Text /\ w \in Text /\ y = x \o w /\ l + Len(w) \in 0 .. Len(r)
  BY DEF Grows
<1>0. /\ r \in Text /\ w \in Text /\ l \in Nat /\ Len(w) \in Nat /\ Len(r) \in Nat
      /\ l \in 0 .. Len(r) /\ l + Len(w) \in 0 .. Len(r)
      /\ \A i \in 1 .. Len(w) : r[l + i] = w[i]
  BY DEF Follows, Text
<1>1. x \in Text /\ Len(x) = l /\ \A i \in 1 .. l : x[i] = r[i]
  BY <1>0, PrefixAt
<1> DEFINE n == l + Len(w)
<1>2. y \in Text /\ Len(y) = n /\ \A i \in 1 .. n : y[i] = r[i]
  BY <1>0, PrefixAt
<1>3. PICK z : z = x \o w
  OBVIOUS
<1>a. x \in Seq(Char) /\ w \in Seq(Char)
  BY <1>0, <1>1 DEF Text
<1>4. /\ z \in Seq(Char) /\ Len(z) = Len(x) + Len(w)
      /\ \A i \in 1 .. Len(x) : z[i] = x[i]
      /\ \A i \in 1 .. Len(w) : z[Len(x) + i] = w[i]
  BY ONLY <1>a, <1>3, ConcatParts
<1>5. Len(z) = n
  BY ONLY <1>1, <1>4
<1>6. ASSUME NEW i \in 1 .. n PROVE y[i] = z[i]
  <2>1. CASE i <= l
    <3>1. i \in 1 .. l
      BY <1>0, <2>1
    <3> QED
      BY ONLY <1>1, <1>2, <1>4, <1>6, <3>1
  <2>2. CASE i > l
    <3> DEFINE j == i - l
    <3>1. j \in 1 .. Len(w) /\ i = l + j
      BY <1>0, <2>2
    <3> HIDE DEF j
    <3>2. y[i] = r[l + j] /\ r[l + j] = w[j]
      BY ONLY <1>0, <1>2, <1>6, <3>1
    <3>3. z[i] = w[j]
      BY ONLY <1>1, <1>4, <3>1
    <3> QED
      BY <3>2, <3>3
  <2> QED
    BY <1>0, <2>1, <2>2
<1> HIDE DEF n
<1>7. y = z
  <2>1. y \in Seq(Char)
    BY <1>2 DEF Text
  <2> QED
    BY ONLY <1>2, <1>4, <1>5, <1>6, <2>1, SeqEqual
<1> QED
  BY ONLY <1>0, <1>1, <1>3, <1>7

Decodes(s) == decode_percent(s, TRUE, TRUE).ok

\* If nothing malformed follows a prefix that decodes, a longer one decodes too.
LEMMA GoodGrows ==
    ASSUME NEW r \in Text, NEW l \in 0 .. Len(r), Decodes(SubSeq(r, 1, l)), l # Len(r),
           ~Malformed(r, l + 1)
    PROVE  \E m \in 0 .. Len(r) : m > l /\ Decodes(SubSeq(r, 1, m))
<1>0. Len(r) \in Nat /\ l \in Nat /\ l + 1 \in 1 .. Len(r) /\ l + 1 \in 1 .. Len(r) + 1
  BY DEF Text
<1> DEFINE Longer == \E m \in 0 .. Len(r) : m > l /\ Decodes(SubSeq(r, 1, m))
<1>1. ASSUME NEW w, Follows(r, l, w), Len(w) > 0, decode_percent(w, TRUE, TRUE).ok = TRUE
      PROVE  Longer
  <2>1. PICK x : x = SubSeq(r, 1, l)
    OBVIOUS
  <2>2. PICK y : y = SubSeq(r, 1, l + Len(w))
    OBVIOUS
  <2>3. x \in Text /\ w \in Text /\ y = x \o w /\ l + Len(w) \in 0 .. Len(r)
    <3>1. Follows(r, l, w)
      BY <1>1
    <3>2. Grows(r, l, w, x, y)
      BY ONLY <3>1, PrefixGrows, Zenon
    <3> QED
      BY ONLY <2>1, <2>2, <3>2, Zenon DEF Grows
  <2>4. decode_percent(x, TRUE, TRUE).ok
    BY <2>1 DEF Decodes
  <2>5. decode_percent(x \o w, TRUE, TRUE).ok = decode_percent(w, TRUE, TRUE).ok
    BY ONLY <2>3, <2>4, DecodeConcat
  <2>6. decode_percent(y, TRUE, TRUE).ok
    BY ONLY <1>1, <2>3, <2>5
  <2>7. l + Len(w) > l
    BY <1>0, <1>1, <2>3 DEF Text
  <2> QED
    BY <2>2, <2>3, <2>6, <2>7 DEF Decodes
<1> HIDE DEF Longer
<1>2. Escape(r, l + 1) \/ Plain(r, l + 1)
  <2>1. l + 1 # Len(r) + 1
    BY <1>0
  <2> QED
    BY <1>0, <2>1, KindsOfPositions
<1>3. ASSUME Plain(r, l + 1) PROVE Longer
  <2> DEFINE c == r[l + 1]
             w == <<c>>
  <2>1. c \in Char /\ c # "%"
    BY <1>0, <1>3 DEF Plain, Text
  <2> HIDE DEF c
  <2>2. w \in Text /\ Len(w) = 1 /\ w[1] = c
    BY <2>1 DEF Text
  <2>3. decode_percent(w, TRUE, TRUE).ok = TRUE
    BY <2>1, DecodePlain
  <2> HIDE DEF w
  <2>4. Follows(r, l, w)
    BY <1>0, <2>2 DEF Follows, c
  <2> QED
    <3>1. Len(w) > 0
      BY <2>2
    <3> QED
      BY ONLY <1>1, <2>3, <2>4, <3>1
<1>4. ASSUME Escape(r, l + 1) PROVE Longer
  <2> DEFINE h == r[l + 2]
             g == r[l + 3]
             w == <<"%", h, g>>
  <2>1. /\ l + 3 <= Len(r) /\ h \in HexDigits /\ g \in HexDigits /\ r[l + 1] = "%"
    <3>1. (l + 1) + 1 = l + 2 /\ (l + 1) + 2 = l + 3
      BY <1>0
    <3> QED
      BY <1>4, <3>1 DEF Escape
  <2> HIDE DEF h, g
  <2>2. w \in Text /\ Len(w) = 3 /\ w[1] = "%" /\ w[2] = h /\ w[3] = g
    <3>1. "%" \in Char /\ h \in Char /\ g \in Char
      BY <2>1 DEF Char
    <3> QED
      BY <3>1 DEF Text
  <2>3. decode_percent(w, TRUE, TRUE).ok = TRUE
    BY <2>1, DecodeEscape
  <2> HIDE DEF w
  <2>4. ASSUME NEW i \in 1 .. 3 PROVE r[l + i] = w[i]
    <3>1. i = 1 \/ i = 2 \/ i = 3
      OBVIOUS
    <3> QED
      BY <2>1, <2>2, <3>1 DEF h, g
  <2>5. Follows(r, l, w)
    BY <1>0, <2>1, <2>2, <2>4 DEF Follows
  <2> QED
    <3>1. Len(w) > 0
      BY <2>2
    <3> QED
      BY ONLY <1>1, <2>3, <2>5, <3>1
<1> QED
  BY <1>2, <1>3, <1>4 DEF Longer

\* What GoodPrefix chooses.
LEMMA GoodPrefixLength ==
    ASSUME NEW r \in Text
    PROVE  \E l \in 0 .. Len(r) : /\ GoodPrefix(r) = SubSeq(r, 1, l)
                                  /\ Decodes(SubSeq(r, 1, l))
                                  /\ l = Len(r) \/ Malformed(r, l + 1)
<1> DEFINE Ls == {l \in 0 .. Len(r) : Decodes(SubSeq(r, 1, l))}
           Best(p) == /\ decode_percent(p, TRUE, TRUE).ok
                      /\ \A o \in Prefixes(r) :
                            decode_percent(o, TRUE, TRUE).ok => Len(o) <= Len(p)
<1>0. Len(r) \in Nat
  BY DEF Text
<1>1. Ls \in SUBSET (0 .. Len(r)) /\ Ls # {}
  <2>1. SubSeq(r, 1, 0) = << >>
    BY SubSeqEmpty
  <2>2. Decodes(SubSeq(r, 1, 0))
    BY <2>1, DecodeEmpty DEF Decodes
  <2>3. 0 \in 0 .. Len(r)
    BY <1>0
  <2> QED
    BY <2>2, <2>3
<1>2. PICK m \in Ls : \A l \in Ls : m >= l
  <2> HIDE DEF Ls
  <2> QED
    BY <1>0, <1>1, GreatestNatural
<1>3. SubSeq(r, 1, m) \in Prefixes(r) /\ Best(SubSeq(r, 1, m))
  <2>1. SubSeq(r, 1, m) \in Prefixes(r)
    BY DEF Prefixes
  <2>2. ASSUME NEW o \in Prefixes(r), decode_percent(o, TRUE, TRUE).ok
        PROVE  Len(o) <= Len(SubSeq(r, 1, m))
    <3>1. PICK l \in 0 .. Len(r) : o = SubSeq(r, 1, l)
      BY DEF Prefixes
    <3>2. l \in Ls
      BY <2>2, <3>1 DEF Decodes
    <3>3. Len(o) = l /\ Len(SubSeq(r, 1, m)) = m
      BY <3>1, PrefixAt
    <3> HIDE DEF Ls
    <3>4. m >= l
      BY <1>2, <3>2
    <3>5. m \in Nat /\ l \in Nat
      BY <1>1, <3>1, <1>0
    <3> QED
      BY <3>3, <3>4, <3>5
  <2> QED
    BY <2>1, <2>2 DEF Decodes
<1>4. GoodPrefix(r) \in Prefixes(r) /\ Best(GoodPrefix(r))
  <2>1. GoodPrefix(r) = CHOOSE p \in Prefixes(r) : Best(p)
    BY DEF GoodPrefix
  <2> HIDE DEF Best
  <2> QED
    BY <1>3, <2>1, Zenon
<1>5. PICK l \in 0 .. Len(r) : GoodPrefix(r) = SubSeq(r, 1, l)
  BY <1>4 DEF Prefixes
<1>6. Decodes(SubSeq(r, 1, l))
  BY <1>4, <1>5 DEF Decodes
<1>7. ASSUME l # Len(r), ~Malformed(r, l + 1) PROVE FALSE
  <2>1. PICK n \in 0 .. Len(r) : n > l /\ Decodes(SubSeq(r, 1, n))
    BY <1>6, <1>7, GoodGrows
  <2>2. SubSeq(r, 1, n) \in Prefixes(r)
    BY DEF Prefixes
  <2>3. Len(SubSeq(r, 1, n)) = n /\ Len(SubSeq(r, 1, l)) = l
    BY PrefixAt
  <2>4. n <= l
    BY <1>4, <1>5, <2>1, <2>2, <2>3 DEF Decodes
  <2> QED
    BY <1>0, <2>1, <2>4
<1> QED
  BY <1>5, <1>6, <1>7

\* A malformed escape ends the decoding.
LEMMA MalformedEnds ==
    ASSUME NEW r \in Text, NEW l \in 0 .. Len(r), Malformed(r, l + 1), NEW space,
           NEW g, g = SubSeq(r, 1, l), decode_percent(g, TRUE, space).ok
    PROVE  /\ decode_percent(r, TRUE, space).ok = FALSE
           /\ decode_percent(r, TRUE, space).res = decode_percent(g, TRUE, space).res
<1> DEFINE n == Len(r) - l
           b == [i \in 1 .. n |-> r[l + i]]
<1>0. Len(r) \in Nat /\ l \in Nat /\ n \in Nat /\ l + n = Len(r) /\ l + 1 \in 1 .. Len(r) + 1
  BY DEF Text
<1>a. g = SubSeq(r, 1, l) /\ decode_percent(g, TRUE, space).ok
  OBVIOUS
<1>1. b \in Text /\ Len(b) = n /\ \A i \in 1 .. n : b[i] = r[l + i]
  <2>1. ASSUME NEW i \in 1 .. n PROVE r[l + i] \in Char
    BY <1>0 DEF Text
  <2> HIDE DEF n
  <2>2. b \in Seq(Char)
    BY <1>0, <2>1
  <2> QED
    BY <1>0, <2>2 DEF Text
<1> HIDE DEF n, b
<1>2. Follows(r, l, b)
  BY <1>0, <1>1 DEF Follows
<1>3. r = SubSeq(r, 1, l + Len(b))
  BY <1>0, <1>1, SubSeqFull DEF Text
<1>4. g \in Text /\ b \in Text /\ r = g \o b
  <2>1. PICK y : y = SubSeq(r, 1, l + Len(b))
    OBVIOUS
  <2>2. Grows(r, l, b, g, y)
    BY ONLY <1>2, PrefixGrows, Zenon
  <2>3. g \in Text /\ b \in Text /\ y = g \o b
    BY ONLY <1>a, <2>1, <2>2, Zenon DEF Grows
  <2> QED
    BY ONLY <1>3, <2>1, <2>3
<1>5. Len(g) = l
  BY PrefixAt
<1>6. PICK B : decode_percent(b, TRUE, space) = B[1] /\ IsDecoding(b, space, B)
  BY <1>4, DecodingExists
<1>7. PICK C : decode_percent(r, TRUE, space) = C[1] /\ IsDecoding(r, space, C)
  BY DecodingExists
<1>8. Same(C[Len(g) + 1], B[1])
  BY ONLY r \in Text, <1>4, <1>6, <1>7, DecodeShift
<1>9. Ends(C[l + 1], FALSE)
  BY <1>0, <1>7, DecodingCases
<1>10. decode_percent(b, TRUE, space).ok = FALSE /\ decode_percent(b, TRUE, space).res = << >>
  BY ONLY <1>5, <1>6, <1>8, <1>9 DEF Same, Ends
<1>11. /\ decode_percent(g \o b, TRUE, space).ok = decode_percent(b, TRUE, space).ok
       /\ decode_percent(g \o b, TRUE, space).res =
             decode_percent(g, TRUE, space).res \o decode_percent(b, TRUE, space).res
  <2>1. g \in Text /\ b \in Text /\ decode_percent(g, TRUE, space).ok
    BY <1>4, <1>a
  <2> QED
    BY ONLY <2>1, DecodeConcat
<1> DEFINE x == decode_percent(g, TRUE, space).res
<1>12. x \in Seq(Char)
  BY <1>4, DecodeType DEF Decoded, Text
<1> HIDE DEF x
<1>13. x \o << >> = x
  BY ONLY <1>12, ConcatEmpty
<1>14. /\ decode_percent(r, TRUE, space).ok = FALSE
       /\ decode_percent(r, TRUE, space).res = x \o << >>
  BY ONLY <1>4, <1>10, <1>11 DEF x
<1> QED
  BY ONLY <1>13, <1>14 DEF x

RawAlphabet == {"%", "2", "F", "x"}

\* What becomes of a raw text, as a segment and as a value.
LEMMA RawDecodes ==
    ASSUME NEW r \in Seq(RawAlphabet), NEW good, good = GoodPrefix(r)
    PROVE  /\ decode_path(r) = decode_path(good)
           /\ decode_query(r) = IF good = r THEN decode_query(good) ELSE << >>
           /\ good # r => r[Len(good) + 1] = "%"
           /\ decode_path(r) \in Seq(Char \ {"%"})
<1>1. /\ r \in Text /\ Avoids(r, "+") /\ Avoids(r, "5")
  <2>1. RawAlphabet \subseteq Char /\ "+" \notin RawAlphabet /\ "5" \notin RawAlphabet
    BY DEF RawAlphabet, Char, HexDigits
  <2>2. r \in Text
    BY <2>1, SeqMonotonic DEF Text
  <2>3. Avoids(r, "+") /\ Avoids(r, "5")
    BY <2>1, AvoidsAlphabet
  <2> QED
    BY <2>2, <2>3
<1>2. PICK l \in 0 .. Len(r) : /\ GoodPrefix(r) = SubSeq(r, 1, l)
                               /\ Decodes(SubSeq(r, 1, l))
                               /\ l = Len(r) \/ Malformed(r, l + 1)
  BY <1>1, GoodPrefixLength
<1>3. decode_path(r) \in Seq(Char \ {"%"})
  BY <1>1, DecodesNoPercent
<1>4. /\ good = SubSeq(r, 1, l) /\ good \in Text /\ Len(good) = l
      /\ \A i \in 1 .. l : good[i] = r[i]
  BY <1>1, <1>2, PrefixAt
<1>5. CASE l = Len(r)
  <2>1. good = r
    BY <1>1, <1>4, <1>5, SubSeqFull DEF Text
  <2> QED
    BY ONLY <1>3, <2>1
<1>6. CASE Malformed(r, l + 1)
  <2>0. l \in Nat /\ Len(r) \in Nat /\ l \in 0 .. Len(r)
    BY <1>1 DEF Text
  <2>1. r[l + 1] = "%" /\ l # Len(r)
    BY <1>6, <2>0 DEF Malformed
  <2>2. good # r
    BY <1>4, <2>1
  <2>3. Avoids(good, "+")
    <3>1. ASSUME NEW i \in 1 .. Len(good) PROVE good[i] # "+"
      <4>1. i \in 1 .. l /\ i \in 1 .. Len(r)
        BY <1>4, <2>0
      <4> QED
        BY ONLY <1>1, <1>4, <4>1 DEF Avoids
    <3> QED
      BY ONLY <3>1 DEF Avoids
  <2>4. decode_percent(good, TRUE, TRUE).ok
    BY ONLY <1>2, <1>4 DEF Decodes
  <2>5. Same(decode_percent(good, TRUE, TRUE), decode_percent(good, TRUE, FALSE))
    BY ONLY <1>4, <2>3, SpaceFlagIdle
  <2>6. decode_percent(good, TRUE, FALSE).ok
    BY ONLY <2>4, <2>5 DEF Same
  <2>7. decode_percent(r, TRUE, TRUE).ok = FALSE
    BY ONLY <1>1, <1>4, <1>6, <2>0, <2>4, MalformedEnds
  <2>8. /\ decode_percent(r, TRUE, FALSE).ok = FALSE
        /\ decode_percent(r, TRUE, FALSE).res = decode_percent(good, TRUE, FALSE).res
    BY ONLY <1>1, <1>4, <1>6, <2>0, <2>6, MalformedEnds
  <2>9. decode_query(r) = << >>
    BY ONLY <2>7 DEF decode_query
  <2>10. decode_path(r) = decode_path(good)
    BY ONLY <2>8 DEF decode_path
  <2> QED
    BY ONLY <1>3, <1>4, <2>1, <2>2, <2>9, <2>10
<1> QED
  BY <1>2, <1>5, <1>6

\* Where the path of a raw target ends, and where its value begins.
LEMMA RawTarget ==
    ASSUME NEW p \in Seq(Char), NEW r \in Seq(Char), NEW a, a = <<"x">> \o <<"=">>
    PROVE  a \in Seq(Char) /\ p \o <<"?", "x", "=">> \o r = p \o <<"?">> \o (a \o r)
<1> DEFINE m == <<"?">>
           w == <<"?", "x", "=">>
<1>0. "x" \in Char /\ "?" \in Char /\ "=" \in Char
  BY Alphabets
<1>1. /\ m \in Seq(Char) /\ Len(m) = 1 /\ m[1] = "?"
      /\ <<"x">> \in Seq(Char) /\ Len(<<"x">>) = 1 /\ <<"x">>[1] = "x"
  BY <1>0
<1>2. w \in Seq(Char) /\ Len(w) = 3 /\ w[1] = "?" /\ w[2] = "x" /\ w[3] = "="
  BY <1>0
<1>a. a = <<"x">> \o <<"=">>
  OBVIOUS
<1>3. a \in Seq(Char) /\ Len(a) = 2 /\ a[1] = "x" /\ a[2] = "="
  <2>1. /\ a \in Seq(Char) /\ Len(a) = Len(<<"x">>) + 1 /\ a[Len(<<"x">>) + 1] = "="
        /\ \A i \in 1 .. Len(<<"x">>) : a[i] = <<"x">>[i]
    BY ONLY <1>0, <1>1, <1>a, AddLast
  <2> QED
    BY ONLY <1>1, <2>1
<1> HIDE DEF m, w
<1>4. PICK f : f = m \o a
  OBVIOUS
<1>5. /\ f \in Seq(Char) /\ Len(f) = Len(m) + Len(a)
      /\ \A i \in 1 .. Len(m) : f[i] = m[i]
      /\ \A i \in 1 .. Len(a) : f[Len(m) + i] = a[i]
  <2>1. m \in Seq(Char) /\ a \in Seq(Char)
    BY <1>1, <1>3
  <2> QED
    BY ONLY <1>4, <2>1, ConcatParts
<1>6. f = w
  <2>1. Len(f) = 3 /\ f[1] = "?" /\ f[2] = "x" /\ f[3] = "="
    <3>1. 1 \in 1 .. 1 /\ 1 \in 1 .. 2 /\ 2 \in 1 .. 2 /\ 1 + 1 = 2 /\ 1 + 2 = 3
      OBVIOUS
    <3> QED
      BY ONLY <1>1, <1>3, <1>5, <3>1
  <2>2. \A i \in 1 .. 3 : i = 1 \/ i = 2 \/ i = 3
    OBVIOUS
  <2>3. \A i \in 1 .. 3 : f[i] = w[i]
    BY ONLY <1>2, <2>1, <2>2
  <2> QED
    BY ONLY <1>2, <1>5, <2>1, <2>3, SeqEqual
<1>b. p \in Seq(Char) /\ r \in Seq(Char)
  OBVIOUS
<1>7. PICK d : d = p \o m
  OBVIOUS
<1>8. d \in Seq(Char)
  BY ONLY <1>1, <1>7, <1>b, ConcatParts
<1>9. (p \o m) \o a = p \o (m \o a)
  <2>1. a \in Seq(Char) /\ m \in Seq(Char)
    BY <1>1, <1>3
  <2> QED
    BY ONLY <1>b, <2>1, ConcatTexts, Zenon
<1>10. (d \o a) \o r = d \o (a \o r)
  <2>1. a \in Seq(Char)
    BY <1>3
  <2> QED
    BY ONLY <1>8, <1>b, <2>1, ConcatTexts, Zenon
<1>11. p \o w \o r = p \o m \o (a \o r)
  BY ONLY <1>4, <1>6, <1>7, <1>9, <1>10
<1> QED
  BY <1>3, <1>11 DEF m, w

LEMMA RawParses ==
    ASSUME NEW r \in Seq(RawAlphabet), NEW tgt,
           tgt = <<"/">> \o r \o <<"?", "x", "=">> \o r
    PROVE  /\ parse(tgt).decoded_path = <<"/">> \o decode_path(r)
           /\ parse(tgt).query_params[1][2] = decode_query(r)
<1>0. /\ "x" \in Char /\ "/" \in Char /\ "=" \in Char /\ RawAlphabet \subseteq Char
      /\ "?" \notin RawAlphabet /\ "/" \notin RawAlphabet /\ "&" \notin RawAlphabet
  BY DEF RawAlphabet, Char, HexDigits
<1>1. r \in Seq(Char) /\ Avoids(r, "?") /\ Avoids(r, "/") /\ Avoids(r, "&")
  BY <1>0, SeqMonotonic, AvoidsAlphabet
<1> DEFINE s == <<"/">>
<1>a. s \in Seq(Char) /\ Len(s) = 1 /\ s[1] = "/"
  BY <1>0
<1>b. tgt = s \o r \o <<"?", "x", "=">> \o r
  OBVIOUS
<1> HIDE DEF s
<1>2. PICK p : p = s \o r
  OBVIOUS
<1>3. /\ p \in Seq(Char) /\ Len(p) = Len(s) + Len(r) /\ Len(r) \in Nat
      /\ \A i \in 1 .. Len(s) : p[i] = s[i]
      /\ \A i \in 1 .. Len(r) : p[Len(s) + i] = r[i]
  <2>1. s \in Seq(Char) /\ r \in Seq(Char)
    BY <1>1, <1>a
  <2> QED
    BY ONLY <1>2, <2>1, ConcatParts
<1>4. Avoids(p, "?")
  <2>1. ASSUME NEW i \in 1 .. Len(p) PROVE p[i] # "?"
    <3>1. CASE i = 1
      BY ONLY <1>3, <1>a, <3>1
    <3>2. CASE i # 1
      <4> DEFINE j == i - 1
      <4>1. j \in 1 .. Len(r) /\ i = 1 + j
        BY <1>3, <1>a, <3>2
      <4> HIDE DEF j
      <4>2. p[i] = r[j]
        BY ONLY <1>3, <1>a, <4>1
      <4> QED
        BY ONLY <1>1, <4>1, <4>2 DEF Avoids
    <3> QED
      BY <3>1, <3>2
  <2> QED
    BY ONLY <2>1 DEF Avoids
<1>5. PICK a : a = <<"x">> \o <<"=">>
  OBVIOUS
<1>6. a \in Seq(Char) /\ p \o <<"?", "x", "=">> \o r = p \o <<"?">> \o (a \o r)
  <2>1. p \in Seq(Char) /\ r \in Seq(Char)
    BY <1>1, <1>3
  <2> QED
    BY ONLY <1>5, <2>1, RawTarget
<1>7. PICK q : q = a \o r
  OBVIOUS
<1>8. /\ q \in Seq(Char) /\ Len(q) = Len(a) + Len(r)
      /\ \A i \in 1 .. Len(a) : q[i] = a[i]
      /\ \A i \in 1 .. Len(r) : q[Len(a) + i] = r[i]
  <2>1. a \in Seq(Char) /\ r \in Seq(Char)
    BY <1>1, <1>6
  <2> QED
    BY ONLY <1>7, <2>1, ConcatParts
<1>9. Len(a) = 2 /\ a[1] = "x" /\ a[2] = "="
  <2>1. <<"x">> \in Seq(Char) /\ Len(<<"x">>) = 1 /\ <<"x">>[1] = "x"
    BY <1>0
  <2>2. /\ Len(a) = Len(<<"x">>) + 1 /\ a[Len(<<"x">>) + 1] = "="
        /\ \A i \in 1 .. Len(<<"x">>) : a[i] = <<"x">>[i]
    BY ONLY <1>0, <1>5, <2>1, AddLast
  <2> QED
    BY ONLY <2>1, <2>2
<1>10. Avoids(q, "&")
  <2>1. ASSUME NEW i \in 1 .. Len(q) PROVE q[i] # "&"
    <3>1. CASE i \in 1 .. 2
      BY ONLY <1>8, <1>9, <3>1
    <3>2. CASE i \notin 1 .. 2
      <4> DEFINE j == i - 2
      <4>1. j \in 1 .. Len(r) /\ i = 2 + j
        BY <1>3, <1>8, <1>9, <3>2
      <4> HIDE DEF j
      <4>2. q[i] = r[j]
        BY ONLY <1>8, <1>9, <4>1
      <4> QED
        BY ONLY <1>1, <4>1, <4>2 DEF Avoids
    <3> QED
      BY <3>1, <3>2
  <2> QED
    BY ONLY <2>1 DEF Avoids
<1>11. p \in Text /\ q \in Text /\ r \in Text /\ q # << >>
  <2>1. Len(q) # 0
    BY ONLY <1>3, <1>8, <1>9
  <2> QED
    BY <1>1, <1>3, <1>8, <2>1 DEF Text
<1>12. tgt = p \o <<"?">> \o q
  BY ONLY <1>2, <1>6, <1>7, <1>b
<1>13. parse(tgt).decoded_path = parse_path(p) /\ parse(tgt).query_params = parse_query(q)
  BY ONLY <1>4, <1>11, <1>12, QuerySplits
<1>14. parse_path(p) = <<"/">> \o decode_path(r)
  <2>1. p = <<"/">> \o r
    BY <1>2 DEF s
  <2> QED
    BY ONLY <1>1, <1>11, <2>1, OneSegment
<1>15. parse_query(q) = [i \in DOMAIN <<q>> |-> Param(<<q>>[i])]
  <2> DEFINE Q == <<q>>
  <2>1. Split(q, "&") = Q
    BY <1>10, <1>11, SplitAvoiding
  <2>2. Q \in Seq(Text) /\ Len(Q) = 1 /\ Q[1] = q
    BY <1>11
  <2> HIDE DEF Q
  <2>3. Padded(Q, 0, Q)
    BY <1>11, <2>2 DEF Padded
  <2>4. tokenize(q, "&") = Q
    BY ONLY <1>11, <2>1, <2>3, TokenizePadded
  <2>5. parse_query(q) = [i \in DOMAIN Q |-> Param(Q[i])]
    BY ONLY <2>4 DEF parse_query
  <2> QED
    BY <2>5 DEF Q
<1>16. Param(q) = <<decode_query(<<"x">>), decode_query(r)>>
  <2>1. q = <<"x">> \o <<"=">> \o r
    BY <1>5, <1>7
  <2>2. <<"x">> \in Text /\ Avoids(<<"x">>, "=")
    BY <1>0 DEF Text, Avoids
  <2>3. FirstAt(q, <<"x">>, "=", r)
    BY <1>0, <1>11, <2>1, <2>2, Zenon DEF FirstAt
  <2> QED
    BY ONLY <2>3, ParamSplits
<1>17. parse_query(q)[1] = Param(q)
  BY <1>15
<1> QED
  BY ONLY <1>13, <1>14, <1>16, <1>17

\* Every raw input is decoded up to its first malformed escape.
LEMMA RawInputsDecode ==
    ASSUME NEW i \in RawInputs, NEW good, good = GoodPrefix(i.raw)
    PROVE  /\ "raw" \in DOMAIN i
           /\ parse(i.target).decoded_path = <<"/">> \o decode_path(good)
           /\ parse(i.target).query_params[1][2] =
                 IF good = i.raw THEN decode_query(good) ELSE << >>
           /\ good # i.raw => i.raw[Len(good) + 1] = "%"
           /\ \A j \in DOMAIN parse(i.target).decoded_path : parse(i.target).decoded_path[j] # "%"
<1>1. PICK r \in Raws : i = [target |-> <<"/">> \o r \o <<"?", "x", "=">> \o r, raw |-> r]
  BY Zenon DEF RawInputs
<1>2. PICK tgt : tgt = <<"/">> \o r \o <<"?", "x", "=">> \o r
  OBVIOUS
<1>3. i = [target |-> tgt, raw |-> r]
  BY ONLY <1>1, <1>2
<1>4. i.target = tgt /\ i.raw = r /\ "raw" \in DOMAIN i
  BY ONLY <1>3
<1>5. r \in Seq(RawAlphabet)
  BY DEF Raws, RawAlphabet
<1>6. good = GoodPrefix(r)
  BY <1>4
<1>7. /\ parse(tgt).decoded_path = <<"/">> \o decode_path(r)
      /\ parse(tgt).query_params[1][2] = decode_query(r)
  BY ONLY <1>2, <1>5, RawParses
<1>8. /\ decode_path(r) = decode_path(good)
      /\ decode_query(r) = IF good = r THEN decode_query(good) ELSE << >>
      /\ good # r => r[Len(good) + 1] = "%"
      /\ decode_path(r) \in Seq(Char \ {"%"})
  BY ONLY <1>5, <1>6, RawDecodes
<1>9. PICK x : x = <<"/">> \o decode_path(r)
  OBVIOUS
<1>10. \A j \in DOMAIN x : x[j] # "%"
  <2> DEFINE V == Char \ {"%"}
             s == <<"/">>
             d == decode_path(r)
  <2>1. s \in Seq(V)
    <3>1. "/" \in V
      BY Alphabets
    <3> QED
      BY <3>1
  <2>2. d \in Seq(V) /\ x = s \o d
    BY <1>8, <1>9
  <2>3. \A y \in V : y # "%"
    OBVIOUS
  <2> HIDE DEF V, s, d
  <2>4. x \in Seq(V)
    BY ONLY <2>1, <2>2, ConcatParts
  <2> QED
    BY ONLY <2>3, <2>4
<1>11. parse(tgt).decoded_path = x
  BY ONLY <1>7, <1>9
<1>12. parse(tgt).decoded_path = <<"/">> \o decode_path(good)
  BY ONLY <1>7, <1>8
<1>13. parse(tgt).query_params[1][2] = IF good = r THEN decode_query(good) ELSE << >>
  BY ONLY <1>7, <1>8
<1> QED
  BY ONLY <1>4, <1>8, <1>10, <1>11, <1>12, <1>13

(***************************************************************************)
(* The inductive invariant: uri is what parse made of input.               *)
(***************************************************************************)
ParsedInv ==
    uri # None =>
        input \in PathInputs \cup QueryInputs \cup RawInputs /\ uri = parse(input.target)

LEMMA ParsedInvInductive == ASSUME ParsedInv, [MCNext]_<<vars, input, uri, path>> PROVE ParsedInv'
<1>1. CASE Parse
  BY <1>1 DEF Parse, ParsedInv
<1>2. CASE Normalize
  BY <1>2, Zenon DEF Normalize, ParsedInv
<1>3. CASE Route
  <2>1. UNCHANGED <<input, uri, path>>
    BY <1>3 DEF Route
  <2> QED
    BY <2>1 DEF ParsedInv
<1>4. CASE UNCHANGED <<vars, input, uri, path>>
  BY <1>4 DEF ParsedInv
<1> QED
  BY <1>1, <1>2, <1>3, <1>4 DEF MCNext

LEMMA ParsedIsMeant == ASSUME ParsedInv PROVE DecodesAsMeant
<1> SUFFICES ASSUME uri # None PROVE DecodesAsMeant
  BY DEF DecodesAsMeant
<1>1. input \in PathInputs \cup QueryInputs \cup RawInputs /\ uri = parse(input.target)
  BY DEF ParsedInv
<1>2. CASE input \in PathInputs \cup QueryInputs
  <2>1. /\ "path" \in DOMAIN input
        /\ parse(input.target).decoded_path = input.path
        /\ parse(input.target).query_params = input.params
    BY <1>2, PathInputsDecode, QueryInputsDecode
  <2> QED
    BY <1>1, <2>1, Zenon DEF DecodesAsMeant
<1>3. CASE input \in RawInputs
  <2> DEFINE good == GoodPrefix(input.raw)
             u == parse(input.target)
  <2>1. /\ "raw" \in DOMAIN input
        /\ u.decoded_path = <<"/">> \o decode_path(good)
        /\ u.query_params[1][2] = IF good = input.raw THEN decode_query(good) ELSE << >>
        /\ good # input.raw => input.raw[Len(good) + 1] = "%"
        /\ \A j \in DOMAIN u.decoded_path : u.decoded_path[j] # "%"
    BY ONLY <1>3, RawInputsDecode
  <2>2. uri = u
    BY <1>1
  <2> HIDE DEF u
  <2> QED
    BY <2>1, <2>2, Zenon DEF DecodesAsMeant
<1> QED
  BY <1>1, <1>2, <1>3

(***************************************************************************)
(* What parse_path, parse_query and decode_percent make of a target is     *)
(* what the client meant, for texts of any length and any number of        *)
(* segments and parameters: an escaped separator does not separate, "+" is *)
(* a space in the query alone, and a malformed escape cuts its segment     *)
(* there and empties its value.                                            *)
(***************************************************************************)
THEOREM ParserDecodesAsMeant == MCSpec => []DecodesAsMeant
<1>1. MCInit => ParsedInv
  BY DEF MCInit, ParsedInv
<1> QED
  BY <1>1, ParsedInvInductive, ParsedIsMeant, PTL DEF MCSpec
=============================================================================
