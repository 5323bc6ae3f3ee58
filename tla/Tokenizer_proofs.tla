-------------------------- MODULE Tokenizer_proofs ---------------------------
(***************************************************************************)
(* Proofs about the tokenizer, for texts of any length and as the parser   *)
(* runs it: where its tokens are (TokenInv), what they say (SaysInv), what *)
(* is in them and what is not (CoverInv), and which texts can be read to   *)
(* their end (ErrorInv).                                                   *)
(***************************************************************************)
EXTENDS Parser, FiniteSetTheorems, SequenceTheorems, TLAPS

(* A set of numbers that is not empty has a least element. *)
LEMMA LeastNat ==
  ASSUME NEW S, S \subseteq Nat, S # {}
  PROVE  \E n \in S : \A m \in S : n <= m
<1>. DEFINE R == OpToRel(<, Nat)
<1>1. \A x, y \in Nat : x < y => <<x, y>> \in R
  BY Zenon DEF OpToRel
<1>2. IsWellFoundedOn(R, Nat)
  BY NatLessThanWellFounded
<1>. HIDE DEF R
<1>3. PICK n \in S : \A m \in S : ~ (<<m, n>> \in R)
  BY <1>2, WFMin
<1>4. \A m \in S : ~ (m < n)
  BY <1>1, <1>3
<1>. QED  BY <1>4

LEMMA MinIs ==
  ASSUME NEW S, S \subseteq Nat, S # {}
  PROVE  Min(S) \in S /\ \A m \in S : Min(S) <= m
<1>1. \E n \in S : \A m \in S : n <= m
  BY LeastNat
<1>. QED  BY <1>1 DEF Min

LEMMA MaxIs ==
  ASSUME NEW S, NEW n \in Nat, S \subseteq 0 .. n, S # {}
  PROVE  Max(S) \in S /\ \A m \in S : m <= Max(S)
<1>. DEFINE T == {n - m : m \in S}
<1>1. T \subseteq Nat /\ T # {}
  <2>1. PICK m \in S : TRUE
    OBVIOUS
  <2>2. n - m \in T
    BY <2>1
  <2>. QED  BY <2>2
<1>2. PICK t \in T : \A u \in T : t <= u
  BY <1>1, LeastNat
<1>3. \A m \in S : n - t \in S /\ m <= n - t
  BY <1>2
<1>. QED  BY <1>3 DEF Max

-----------------------------------------------------------------------------
(* The newlines that are in no token. *)
Newlines == {i \in DOMAIN source : source[i] = "\n" /\ ~ InToken(i)}

TextOK == source \in Seq(STRING) /\ \A i \in DOMAIN source : source[i] # "NUL"

(* Where tokenize is, and where its tokens are. *)
PlacesOK ==
  /\ TextOK
  /\ place \in 1 .. Len(source) + 2 /\ line_number \in Nat \ {0}
  /\ tokenized \in {"nothing", "tokens", "message", "exception"}
  /\ \E S : tokens \in Seq(S)
  /\ \A k \in DOMAIN tokens :
       /\ tokens[k].type \in TypeOfToken
       /\ tokens[k].start \in 1 .. Len(source)
       /\ Stop(tokens[k]) \in tokens[k].start + 1 .. Len(source) + 1
       /\ Stop(tokens[k]) <= place
  /\ \A k, l \in DOMAIN tokens : k < l => Stop(tokens[k]) <= tokens[l].start

LinesOK ==
  /\ \A k \in DOMAIN tokens :
       tokens[k].line = 1 + Cardinality(Newlines \cap 1 .. tokens[k].start - 1)
  /\ tokenized = "nothing" /\ place <= Len(source) + 1 =>
       line_number = 1 + Cardinality(Newlines \cap 1 .. place - 1)

(* What every token is made of. *)
SpelledToken ==
  [type : TypeOfToken, text : Seq(STRING), val : {ValueOf(t) : t \in Seq(STRING)},
   start : Nat, line : Nat]

TokenInv == PlacesOK /\ LinesOK /\ tokens \in Seq(SpelledToken)

LEMMA TextDomain ==
  ASSUME TextOK
  PROVE  /\ Len(source) \in Nat /\ DOMAIN source = 1 .. Len(source)
         /\ \A i \in 1 .. Len(source) : Char(i) = source[i] /\ Char(i) # "NUL"
         /\ \A i : i \notin 1 .. Len(source) => Char(i) = "NUL"
BY DEF TextOK, Char

(* A run of pieces ends at the first that is not one of them. *)
LEMMA RunEndIs ==
  ASSUME TextOK, NEW i \in 1 .. Len(source) + 1, NEW pieces, "NUL" \notin pieces
  PROVE  /\ RunEnd(i, pieces) \in i .. Len(source) + 1
         /\ Char(RunEnd(i, pieces)) \notin pieces
         /\ \A j \in i .. RunEnd(i, pieces) - 1 : Char(j) \in pieces
<1>. DEFINE S == {j \in i .. Len(source) + 1 : Char(j) \notin pieces}
<1>1. Len(source) + 1 \in S /\ S \subseteq Nat
  BY TextDomain
<1>2. Min(S) \in S /\ \A m \in S : Min(S) <= m
  BY <1>1, MinIs
<1>3. RunEnd(i, pieces) = Min(S)
  BY DEF RunEnd
<1>4. ASSUME NEW j \in i .. Min(S) - 1  PROVE Char(j) \in pieces
  <2>1. j \in Nat /\ j \in i .. Len(source) + 1 /\ ~ (Min(S) <= j) /\ Min(S) \in Nat
    BY <1>1, <1>2, TextDomain
  <2>. QED  BY <1>2, <2>1
<1>. QED  BY <1>2, <1>3, <1>4

(* A token from here on leaves the count of the lines right. *)
LEMMA TokenTaken ==
  ASSUME TokenInv, Looking, NEW type \in TypeOfToken,
         NEW j \in place + 1 .. Len(source) + 1, Token(j, type)
  PROVE  TokenInv'
<1>. DEFINE text == SubSeq(source, place, j - 1)
            token == [type |-> type, text |-> text, val |-> ValueOf(text),
                      start |-> place, line |-> line_number]
            n == Len(tokens) + 1
<1>1. /\ tokens' = Append(tokens, token) /\ place' = j
      /\ UNCHANGED <<source, line_number, tokenized>>
  BY DEF Token
<1>2. PICK S : tokens \in Seq(S)
  BY DEF TokenInv, PlacesOK
<1>3. /\ place \in 1 .. Len(source) /\ Len(source) \in Nat /\ source \in Seq(STRING)
      /\ tokenized = "nothing" /\ DOMAIN source = 1 .. Len(source)
  BY TextDomain DEF TokenInv, PlacesOK, Looking, TextOK
<1>4. token.start = place /\ token.line = line_number /\ token.type = type /\ Stop(token) = j
  <2>1. Len(text) = j - place
    BY <1>3
  <2>. QED  BY <2>1, <1>3 DEF Stop
<1>. HIDE DEF token
<1>5. /\ tokens' \in Seq(S \cup {token}) /\ n \in Nat /\ n > 0
      /\ DOMAIN tokens = 1 .. n - 1 /\ DOMAIN tokens' = 1 .. n
      /\ tokens'[n] = token /\ \A k \in 1 .. n - 1 : tokens'[k] = tokens[k]
  <2>1. tokens \in Seq(S \cup {token})
    BY <1>2
  <2>. QED  BY <1>1, <2>1
<1>6. \A k \in DOMAIN tokens : Stop(tokens[k]) <= place /\ tokens[k].start \in 1 .. place
  BY <1>3 DEF TokenInv, PlacesOK
<1>. HIDE DEF n
<1>7. PlacesOK'
  <2>1. TextOK'
    BY <1>1 DEF TokenInv, PlacesOK, TextOK
  <2>2. \A k \in DOMAIN tokens' :
          /\ tokens'[k].type \in TypeOfToken
          /\ tokens'[k].start \in 1 .. Len(source)
          /\ Stop(tokens'[k]) \in tokens'[k].start + 1 .. Len(source) + 1
          /\ Stop(tokens'[k]) <= j
    <3>1. ASSUME NEW k \in 1 .. n - 1
          PROVE  /\ tokens'[k].type \in TypeOfToken
                 /\ tokens'[k].start \in 1 .. Len(source)
                 /\ Stop(tokens'[k]) \in tokens'[k].start + 1 .. Len(source) + 1
                 /\ Stop(tokens'[k]) <= j
      <4>1. /\ tokens[k].type \in TypeOfToken
            /\ tokens[k].start \in 1 .. Len(source)
            /\ Stop(tokens[k]) \in tokens[k].start + 1 .. Len(source) + 1
            /\ Stop(tokens[k]) <= place
        BY <1>5 DEF TokenInv, PlacesOK
      <4>2. place < j /\ tokens'[k] = tokens[k]
        BY <1>3, <1>5
      <4>. HIDE DEF text
      <4>. QED  BY <1>3, <4>1, <4>2
    <3>2. \A k \in 1 .. n : k \in 1 .. n - 1 \/ k = n
      BY <1>5
    <3>. QED  BY <1>3, <1>4, <1>5, <3>1, <3>2
  <2>3. \A k, l \in DOMAIN tokens' : k < l => Stop(tokens'[k]) <= tokens'[l].start
    <3>1. \A k, l \in 1 .. n - 1 : k < l => Stop(tokens[k]) <= tokens[l].start
      BY <1>5 DEF TokenInv, PlacesOK
    <3>2. \A k \in 1 .. n - 1 : Stop(tokens'[k]) <= tokens'[n].start
      BY <1>4, <1>5, <1>6
    <3>3. \A k, l \in 1 .. n : k < l => k \in 1 .. n - 1 /\ (l \in 1 .. n - 1 \/ l = n)
      BY <1>5
    <3>. QED  BY <1>5, <3>1, <3>2, <3>3
  <2>4. /\ place' \in 1 .. Len(source') + 2 /\ line_number' \in Nat \ {0}
        /\ tokenized' \in {"nothing", "tokens", "message", "exception"}
    BY <1>1, <1>3 DEF TokenInv, PlacesOK
  <2>. QED  BY <1>1, <1>5, <2>1, <2>2, <2>3, <2>4 DEF PlacesOK, Stop
<1>8. \A i : InToken(i)' <=> InToken(i) \/ i \in place .. j - 1
  <2>1. \A i : InToken(i)' <=> \E k \in 1 .. n : i \in tokens'[k].start .. Stop(tokens'[k]) - 1
    BY <1>5 DEF InToken, Stop
  <2>2. \A k : k \in 1 .. n <=> k \in 1 .. n - 1 \/ k = n
    BY <1>5
  <2>3. \A i : InToken(i)' <=> \/ \E k \in 1 .. n - 1 : i \in tokens[k].start .. Stop(tokens[k]) - 1
                               \/ i \in token.start .. Stop(token) - 1
    BY <1>5, <2>1, <2>2
  <2>. QED  BY <1>4, <1>5, <2>3 DEF InToken
<1>9. \A m \in 1 .. place : Newlines' \cap 1 .. m - 1 = Newlines \cap 1 .. m - 1
  BY <1>1, <1>3, <1>8 DEF Newlines
<1>10. Newlines' \cap 1 .. j - 1 = Newlines \cap 1 .. place - 1
  <2>1. \A i \in 1 .. j - 1 : i \in 1 .. place - 1 \/ i \in place .. j - 1
    BY <1>3
  <2>2. \A i \in 1 .. place - 1 : i \in 1 .. j - 1 /\ i \notin place .. j - 1
    BY <1>3
  <2>. QED  BY <1>1, <1>8, <2>1, <2>2 DEF Newlines
<1>11. LinesOK'
  <2>1. line_number = 1 + Cardinality(Newlines \cap 1 .. place - 1)
    BY <1>3 DEF TokenInv, LinesOK
  <2>2. ASSUME NEW k \in 1 .. n
        PROVE  tokens'[k].line = 1 + Cardinality(Newlines' \cap 1 .. tokens'[k].start - 1)
    <3>1. CASE k = n
      <4>1. Newlines' \cap 1 .. place - 1 = Newlines \cap 1 .. place - 1
        BY <1>3, <1>9
      <4>2. tokens'[k].start = place /\ tokens'[k].line = line_number
        BY <3>1, <1>4, <1>5
      <4>. QED  BY <2>1, <4>1, <4>2
    <3>2. CASE k \in 1 .. n - 1
      <4>1. tokens[k].line = 1 + Cardinality(Newlines \cap 1 .. tokens[k].start - 1)
        BY <3>2, <1>5 DEF TokenInv, LinesOK
      <4>2. tokens'[k] = tokens[k] /\ tokens[k].start \in 1 .. place
        BY <3>2, <1>5, <1>6
      <4>. QED  BY <1>9, <4>1, <4>2
    <3>. QED  BY <3>1, <3>2, <1>5
  <2>. QED  BY <1>1, <1>5, <1>10, <2>1, <2>2 DEF LinesOK
<1>12. tokens' \in Seq(SpelledToken)
  <2>1. text \in Seq(STRING) /\ line_number \in Nat /\ place \in Nat
    BY <1>3 DEF TokenInv, PlacesOK
  <2>. HIDE DEF text
  <2>2. ValueOf(text) \in {ValueOf(t) : t \in Seq(STRING)}
    BY <2>1
  <2>3. token \in SpelledToken
    BY <2>1, <2>2 DEF SpelledToken, token
  <2>. QED  BY <1>1, <2>3, AppendProperties DEF TokenInv
<1>. QED  BY <1>7, <1>11, <1>12 DEF TokenInv

(* What is no token is passed over, and its newlines are counted. *)
LEMMA PassedOver ==
  ASSUME TokenInv, Looking, NEW j \in place + 1 .. Len(source) + 2,
         place' = j, line_number' \in {line_number, line_number + 1},
         UNCHANGED <<source, tokens, tokenized>>,
         j <= Len(source) + 1 =>
           /\ \A i \in place .. j - 2 : source[i] # "\n"
           /\ source[j - 1] = "\n" <=> line_number' = line_number + 1
  PROVE  TokenInv'
<1>1. /\ place \in 1 .. Len(source) /\ Len(source) \in Nat /\ line_number \in Nat \ {0}
      /\ tokenized = "nothing" /\ DOMAIN source = 1 .. Len(source)
  BY TextDomain DEF TokenInv, PlacesOK, Looking
<1>2. PlacesOK'
  <2>1. \A k \in DOMAIN tokens : Stop(tokens[k]) <= j
    <3>1. ASSUME NEW k \in DOMAIN tokens  PROVE Stop(tokens[k]) <= j
      <4>1. Stop(tokens[k]) <= place /\ Stop(tokens[k]) \in tokens[k].start + 1 .. Len(source) + 1
            /\ tokens[k].start \in 1 .. Len(source)
        BY DEF TokenInv, PlacesOK
      <4>. QED  BY <1>1, <4>1
    <3>. QED  BY <3>1
  <2>. QED  BY <1>1, <2>1 DEF TokenInv, PlacesOK, TextOK, Stop
<1>3. Newlines' = Newlines
  BY DEF Newlines, InToken, Stop
<1>4. ASSUME j <= Len(source) + 1
      PROVE  line_number' = 1 + Cardinality(Newlines \cap 1 .. j - 1)
  <2>. DEFINE before == Newlines \cap 1 .. place - 1
  <2>1. line_number = 1 + Cardinality(before)
    BY <1>1 DEF TokenInv, LinesOK
  <2>2. IsFiniteSet(before) /\ Cardinality(before) \in Nat /\ j - 1 \notin before
    <3>1. IsFiniteSet(1 .. place - 1)
      BY <1>1, FS_Interval
    <3>2. IsFiniteSet(before)
      BY <3>1, FS_Subset
    <3>. QED  BY <1>1, <3>2, FS_CardinalityType
  <2>3. \A i \in place .. Len(source) : ~ InToken(i)
    <3>1. ASSUME NEW i \in place .. Len(source), NEW k \in DOMAIN tokens,
                 i \in tokens[k].start .. Stop(tokens[k]) - 1
          PROVE  FALSE
      <4>1. Stop(tokens[k]) <= place /\ Stop(tokens[k]) \in tokens[k].start + 1 .. Len(source) + 1
            /\ tokens[k].start \in 1 .. Len(source)
        BY DEF TokenInv, PlacesOK
      <4>. QED  BY <1>1, <3>1, <4>1
    <3>. QED  BY <3>1 DEF InToken
  <2>4. \A i \in 1 .. j - 1 : i \in 1 .. place - 1 \/ i \in place .. j - 2 \/ i = j - 1
    BY <1>1
  <2>5. j - 1 \in 1 .. j - 1 /\ j - 1 \in place .. Len(source) /\ 1 .. place - 1 \subseteq 1 .. j - 1
    BY <1>1, <1>4
  <2>6. CASE source[j - 1] = "\n"
    <3>1. Newlines \cap 1 .. j - 1 = before \cup {j - 1}
      <4>1. j - 1 \in Newlines
        BY <1>1, <2>3, <2>5, <2>6 DEF Newlines
      <4>2. \A i \in Newlines : source[i] = "\n"
        BY DEF Newlines
      <4>. QED  BY <1>4, <2>4, <2>5, <4>1, <4>2
    <3>2. Cardinality(before \cup {j - 1}) = Cardinality(before) + 1
      BY <2>2, FS_AddElement
    <3>3. line_number' = line_number + 1
      BY <1>4, <2>6
    <3>4. Cardinality(Newlines \cap 1 .. j - 1) = Cardinality(before) + 1
      BY <3>1, <3>2
    <3>. HIDE DEF before
    <3>. QED  BY <2>1, <2>2, <3>3, <3>4
  <2>7. CASE source[j - 1] # "\n"
    <3>1. Newlines \cap 1 .. j - 1 = before
      <4>1. \A i \in Newlines : source[i] = "\n"
        BY DEF Newlines
      <4>. QED  BY <1>4, <2>4, <2>5, <2>7, <4>1
    <3>2. line_number' = line_number
      BY <1>1, <1>4, <2>7
    <3>. QED  BY <2>1, <3>1, <3>2
  <2>. QED  BY <2>6, <2>7
<1>5. LinesOK'
  BY <1>3, <1>4 DEF TokenInv, LinesOK
<1>. QED  BY <1>2, <1>5 DEF TokenInv

LEMMA Returns ==
  ASSUME TokenInv, NEW what \in {"tokens", "message", "exception"}, Return(what)
  PROVE  TokenInv'
<1>1. Newlines' = Newlines /\ TextOK'
  BY DEF Return, Newlines, InToken, Stop, TextOK, TokenInv, PlacesOK
<1>. QED  BY <1>1 DEF Return, TokenInv, PlacesOK, LinesOK, Stop

(* Every phrase that tokenize can find is a phrase of the language. *)
LEMMA TypesOfTokens ==
  /\ {"STRING_LIT", "NUM_LIT", "HEX_LIT", "ROW_LIT", "KEY_LIT", "IDENTIFIER"} \subseteq TypeOfToken
  /\ \A c \in DOMAIN Symbol : Symbol[c] \in TypeOfToken
  /\ \A w \in DOMAIN OneWord : OneWord[w] \in TypeOfToken
  /\ \A t \in DOMAIN Trigger : Trigger[t] \in TypeOfToken
  /\ \A v \in DOMAIN MouseWord : \A d \in DOMAIN MouseWord[v] : MouseWord[v][d] \in TypeOfToken
  /\ \A w \in DOMAIN GoesOn \ {"at"} : GoesOn[w].type \in TypeOfToken
<1>1. {"STRING_LIT", "NUM_LIT", "HEX_LIT", "ROW_LIT", "KEY_LIT", "IDENTIFIER"} \subseteq TypeOfToken
  BY DEF TypeOfToken, Literal
<1>2. \A c \in DOMAIN Symbol : Symbol[c] \in TypeOfToken
  BY Zenon DEF TypeOfToken, Literal
<1>3. \A q \in Written : q.type \in TypeOfToken
  BY Zenon DEF TypeOfToken
<1>4. ASSUME NEW w \in DOMAIN OneWord  PROVE OneWord[w] \in TypeOfToken
  <2>. DEFINE q == [text |-> <<w>>, type |-> OneWord[w], ends |-> AlNum]
  <2>1. q \in Written
    BY Zenon DEF Written
  <2>2. q.type = OneWord[w]
    BY Zenon
  <2>. QED  BY Zenon, <1>3, <2>1, <2>2
<1>5. ASSUME NEW t \in DOMAIN Trigger  PROVE Trigger[t] \in TypeOfToken
  <2>. DEFINE q == [text |-> <<"on", " ">> \o t, type |-> Trigger[t], ends |-> AlNum \cup {"-"}]
  <2>1. q \in Written
    BY Zenon DEF Written
  <2>2. q.type = Trigger[t]
    BY Zenon
  <2>. QED  BY Zenon, <1>3, <2>1, <2>2
<1>6. ASSUME NEW v \in DOMAIN MouseWord, NEW d \in DOMAIN MouseWord[v]
      PROVE  MouseWord[v][d] \in TypeOfToken
  <2>. DEFINE q == [text |-> <<"mouse", " ", v, " ", d>>, type |-> MouseWord[v][d], ends |-> Letters]
              Of(x) == {[text |-> <<"mouse", " ", x, " ", y>>, type |-> MouseWord[x][y], ends |-> Letters] :
                          y \in DOMAIN MouseWord[x]}
  <2>1. q \in Of(v)
    BY Zenon
  <2>2. q \in UNION {Of(x) : x \in DOMAIN MouseWord}
    BY Zenon, <2>1
  <2>3. q \in Written
    BY Zenon, <2>2 DEF Written
  <2>4. q.type = MouseWord[v][d]
    BY Zenon
  <2>. QED  BY Zenon, <1>3, <2>3, <2>4
<1>7. ASSUME NEW w \in DOMAIN GoesOn \ {"at"}  PROVE GoesOn[w].type \in TypeOfToken
  <2>. DEFINE q == [text |-> <<w>> \o GoesOn[w].rest, type |-> GoesOn[w].type, ends |-> {}]
  <2>1. q \in Written
    BY Zenon DEF Written
  <2>2. q.type = GoesOn[w].type
    BY Zenon
  <2>. QED  BY Zenon, <1>3, <2>1, <2>2
<1>. QED  BY <1>1, <1>2, <1>4, <1>5, <1>6, <1>7

(* No piece of a text is a NUL, so every run of them ends. *)
LEMMA NoNul ==
  /\ "NUL" \notin Letters /\ "NUL" \notin Digit /\ "NUL" \notin AlNum
  /\ "NUL" \notin AlNum \cup {"-"} /\ "NUL" \notin HexDigit
BY PiecesAssumption DEF Digit, AlNum, HexDigit

(* Lowering the letters of a part of the text changes no length. *)
LEMMA LoweredIs ==
  ASSUME TextOK, NEW i \in 1 .. Len(source) + 1, NEW j \in Nat, i <= j
  PROVE  /\ Len(Lowered(i, j)) = j - i /\ DOMAIN Lowered(i, j) = 1 .. j - i
         /\ \A k \in 1 .. j - i : Lowered(i, j)[k] \notin Letters => Lowered(i, j)[k] = Char(i + k - 1)
<1>1. Len(source) \in Nat /\ i \in Nat /\ j - i \in Nat
  BY TextDomain
<1>2. \A c \in Letters : Lower[c] \in Letters
  BY PiecesAssumption
<1>. QED  BY <1>1, <1>2 DEF Lowered

(* The end of a text is the end of what is compared with it. *)
LEMMA LoweredInside ==
  ASSUME TextOK, NEW i \in 1 .. Len(source) + 1, NEW j \in Nat, i < j,
         Lowered(i, j)[j - i] # "NUL"
  PROVE  j <= Len(source) + 1
<1>1. Len(source) \in Nat /\ i \in Nat /\ j - i \in 1 .. j - i
  BY TextDomain
<1>2. SUFFICES ASSUME j > Len(source) + 1  PROVE FALSE
  BY <1>1
<1>3. Char(j - 1) = "NUL"
  BY <1>1, <1>2, TextDomain
<1>4. Lowered(i, j)[j - i] = "NUL"
  BY <1>1, <1>3, NoNul DEF Lowered
<1>. QED  BY <1>4

LEMMA WordIs ==
  ASSUME TokenInv, AtWord
  PROVE  WordEnd \in place + 1 .. Len(source) + 1 /\ Char(WordEnd) \notin AlNum
<1>1. TextOK /\ place \in 1 .. Len(source) + 1 /\ Char(place) \in AlNum
  BY TextDomain DEF TokenInv, PlacesOK, AtWord, Looking, AlNum
<1>2. WordEnd \in place .. Len(source) + 1 /\ Char(WordEnd) \notin AlNum
  BY <1>1, NoNul, RunEndIs DEF WordEnd
<1>. QED  BY <1>1, <1>2, TextDomain

(* What follows a word and a blank. *)
LEMMA BehindWord ==
  ASSUME TokenInv, AtWord, Char(WordEnd) # "NUL", NEW pieces, "NUL" \notin pieces
  PROVE  RunEnd(WordEnd + 1, pieces) \in WordEnd + 1 .. Len(source) + 1
<1>1. TextOK /\ place \in Nat \ {0} /\ Len(source) \in Nat
  BY TextDomain DEF TokenInv, PlacesOK
<1>2. WordEnd \in place + 1 .. Len(source) + 1
  BY WordIs
<1>3. WordEnd \in 1 .. Len(source)
  BY <1>1, TextDomain
<1>4. WordEnd + 1 \in 1 .. Len(source) + 1
  BY <1>1, <1>3
<1>. QED  BY <1>1, <1>4, RunEndIs

-----------------------------------------------------------------------------
LEMMA SkipBlankInv == ASSUME TokenInv, SkipBlank  PROVE TokenInv'
<1>1. /\ place \in 1 .. Len(source) /\ Len(source) \in Nat /\ source[place] # "\n"
  BY TextDomain DEF TokenInv, PlacesOK, SkipBlank, Looking, Blank
<1>2. place + 1 \in place + 1 .. Len(source) + 2 /\ line_number \in Nat
  BY <1>1 DEF TokenInv, PlacesOK
<1>. QED  BY <1>1, <1>2, PassedOver DEF SkipBlank

LEMMA NewLineInv == ASSUME TokenInv, NewLine  PROVE TokenInv'
<1>1. /\ place \in 1 .. Len(source) /\ Len(source) \in Nat /\ source[place] = "\n"
  BY TextDomain DEF TokenInv, PlacesOK, NewLine, Looking
<1>2. place + 1 \in place + 1 .. Len(source) + 2 /\ line_number \in Nat
  BY <1>1 DEF TokenInv, PlacesOK
<1>. QED  BY <1>1, <1>2, PassedOver DEF NewLine

LEMMA CommentInv == ASSUME TokenInv, Comment  PROVE TokenInv'
<1>. DEFINE S == {j \in place .. Len(source) + 1 : Char(j) \in {"\n", "NUL"}}
            m == Min(S)
<1>1. /\ place \in 1 .. Len(source) /\ Len(source) \in Nat
      /\ Len(source) + 1 \in S /\ S \subseteq Nat /\ line_number \in Nat
  BY TextDomain DEF TokenInv, PlacesOK, Comment, Looking
<1>2. m \in S /\ \A i \in S : m <= i
  BY <1>1, MinIs
<1>3. place' = m + 1 /\ line_number' = line_number + 1 /\ UNCHANGED <<source, tokens, tokenized>>
  BY DEF Comment
<1>4. ASSUME NEW i \in place .. m - 1  PROVE source[i] # "\n"
  <2>1. i \in place .. Len(source) + 1 /\ ~ (m <= i) /\ i \in 1 .. Len(source)
    BY <1>1, <1>2
  <2>. QED  BY <1>2, <2>1, TextDomain DEF TokenInv, PlacesOK
<1>5. m <= Len(source) => source[m] = "\n"
  BY <1>1, <1>2, TextDomain DEF TokenInv, PlacesOK
<1>. HIDE DEF m
<1>6. m + 1 \in place + 1 .. Len(source) + 2 /\ (m + 1) - 1 = m /\ (m + 1) - 2 = m - 1
  BY <1>1, <1>2
<1>. QED  BY <1>3, <1>4, <1>5, <1>6, PassedOver DEF Comment

LEMMA SignInv == ASSUME TokenInv, Sign  PROVE TokenInv'
<1>1. place + 1 \in place + 1 .. Len(source) + 1 /\ Symbol[Char(place)] \in TypeOfToken
  BY TextDomain, TypesOfTokens DEF TokenInv, PlacesOK, Sign, Looking
<1>. QED  BY <1>1, TokenTaken DEF Sign

LEMMA StringEnds ==
  ASSUME TokenInv, String, NEW quotes, quotes # {}, quotes \subseteq place + 1 .. Len(source)
  PROVE  Min(quotes) + 1 \in place + 1 .. Len(source) + 1
<1>1. /\ place \in 1 .. Len(source) /\ Len(source) \in Nat
  BY TextDomain DEF TokenInv, PlacesOK, String, Looking
<1>2. quotes \subseteq Nat
  BY <1>1
<1>3. Min(quotes) \in quotes
  BY <1>2, MinIs
<1>4. Min(quotes) \in place + 1 .. Len(source)
  BY <1>3
<1>. QED  BY <1>1, <1>4

LEMMA StringInv == ASSUME TokenInv, String  PROVE TokenInv'
<1>. DEFINE quotes == {j \in place + 1 .. Len(source) : Char(j) = "\""}
<1>1. /\ quotes \subseteq place + 1 .. Len(source)
      /\ IF quotes # {} THEN Token(Min(quotes) + 1, "STRING_LIT") ELSE Return("message")
  BY Zenon DEF String
<1>. HIDE DEF quotes
<1>2. CASE quotes # {}
  <2>1. Min(quotes) + 1 \in place + 1 .. Len(source) + 1
    BY <1>1, <1>2, StringEnds
  <2>2. Token(Min(quotes) + 1, "STRING_LIT") /\ Looking /\ "STRING_LIT" \in TypeOfToken
    BY <1>1, <1>2, TypesOfTokens DEF String
  <2>. QED  BY <2>1, <2>2, TokenTaken
<1>3. CASE quotes = {}
  BY <1>1, <1>3, Returns
<1>. QED  BY <1>2, <1>3

LEMMA HexEnds ==
  ASSUME TokenInv, HexLiteral, Char(place + 2) \in HexDigit
  PROVE  RunEnd(place + 2, HexDigit) \in place + 1 .. Len(source) + 1
<1>1. /\ place \in 1 .. Len(source) /\ Len(source) \in Nat /\ TextOK
  BY TextDomain DEF TokenInv, PlacesOK, HexLiteral, Looking
<1>2. place + 2 \in 1 .. Len(source) + 1
  BY <1>1, TextDomain, NoNul
<1>3. RunEnd(place + 2, HexDigit) \in place + 2 .. Len(source) + 1
  BY <1>1, <1>2, RunEndIs, NoNul
<1>. QED  BY <1>1, <1>3

LEMMA HexLiteralInv == ASSUME TokenInv, HexLiteral  PROVE TokenInv'
<1>1. CASE Char(place + 2) \in HexDigit
  <2>1. RunEnd(place + 2, HexDigit) \in place + 1 .. Len(source) + 1
    BY <1>1, HexEnds
  <2>. QED  BY <1>1, <2>1, TokenTaken, TypesOfTokens DEF HexLiteral
<1>2. CASE Char(place + 2) \notin HexDigit
  BY <1>2, Returns DEF HexLiteral
<1>. QED  BY <1>1, <1>2

LEMMA NumberEnds ==
  ASSUME TokenInv, Number  PROVE RunEnd(place, Digit) \in place + 1 .. Len(source) + 1
<1>1. /\ place \in 1 .. Len(source) /\ Len(source) \in Nat /\ TextOK /\ Char(place) \in Digit
  BY TextDomain DEF TokenInv, PlacesOK, Number, Looking
<1>2. RunEnd(place, Digit) \in place .. Len(source) + 1 /\ Char(RunEnd(place, Digit)) \notin Digit
  BY <1>1, RunEndIs, NoNul
<1>. QED  BY <1>1, <1>2

LEMMA NumberInv == ASSUME TokenInv, Number  PROVE TokenInv'
<1>1. RunEnd(place, Digit) \in place + 1 .. Len(source) + 1
  BY NumberEnds
<1>. QED  BY <1>1, TokenTaken, TypesOfTokens DEF Number

LEMMA RowOrKeyInv == ASSUME TokenInv, RowOrKey  PROVE TokenInv'
<1>1. WordEnd \in place + 1 .. Len(source) + 1 /\ Looking
  BY WordIs DEF RowOrKey, AtPlace, AtWord
<1>. QED  BY <1>1, TokenTaken, TypesOfTokens DEF RowOrKey

LEMMA TriggerEnds ==
  ASSUME TokenInv, OnTrigger  PROVE TriggerEnd \in place + 1 .. Len(source) + 1
<1>1. AtWord /\ Char(WordEnd) # "NUL"
  BY Zenon DEF OnTrigger, AtTrigger, Is
<1>2. WordEnd \in place + 1 .. Len(source) + 1 /\ place \in Nat /\ Len(source) \in Nat
  BY <1>1, WordIs, TextDomain DEF AtWord, TokenInv, PlacesOK
<1>3. TriggerEnd \in WordEnd + 1 .. Len(source) + 1
  BY <1>1, BehindWord, NoNul DEF TriggerEnd
<1>. QED  BY <1>2, <1>3

LEMMA OnTriggerInv == ASSUME TokenInv, OnTrigger  PROVE TokenInv'
<1>1. TriggerEnd \in place + 1 .. Len(source) + 1
  BY TriggerEnds
<1>2. Looking
  BY Zenon DEF OnTrigger, AtTrigger, Is, AtWord
<1>. QED  BY <1>1, <1>2, TokenTaken, TypesOfTokens DEF OnTrigger, AtTrigger

LEMMA MouseEnds ==
  ASSUME TokenInv, NEW v \in DOMAIN MouseWord, NEW d \in DOMAIN MouseWord[v], AtMouse(v, d)
  PROVE  LastEnd \in place + 1 .. Len(source) + 1 /\ Looking
<1>1. AtWord /\ Char(WordEnd) # "NUL" /\ VerbEnd <= Len(source)
  BY Zenon DEF AtMouse, AtVerb, Is
<1>2. WordEnd \in place + 1 .. Len(source) + 1 /\ Looking
      /\ place \in 1 .. Len(source) /\ Len(source) \in Nat /\ TextOK
  BY <1>1, WordIs, TextDomain DEF AtWord, TokenInv, PlacesOK, Looking
<1>3. VerbEnd \in WordEnd + 1 .. Len(source) + 1
  BY <1>1, BehindWord, NoNul DEF VerbEnd
<1>4. VerbEnd + 1 \in 1 .. Len(source) + 1
  BY <1>1, <1>2, <1>3
<1>5. LastEnd \in VerbEnd + 1 .. Len(source) + 1
  BY <1>2, <1>4, RunEndIs, NoNul DEF LastEnd
<1>. QED  BY <1>2, <1>3, <1>5

LEMMA MouseActionInv == ASSUME TokenInv, MouseAction  PROVE TokenInv'
<1>1. PICK v \in DOMAIN MouseWord : \E d \in DOMAIN MouseWord[v] :
        AtMouse(v, d) /\ Token(LastEnd, MouseWord[v][d])
  BY Zenon DEF MouseAction
<1>2. PICK d \in DOMAIN MouseWord[v] : AtMouse(v, d) /\ Token(LastEnd, MouseWord[v][d])
  BY <1>1
<1>3. LastEnd \in place + 1 .. Len(source) + 1 /\ Looking
  BY <1>2, MouseEnds
<1>4. MouseWord[v][d] \in TypeOfToken
  BY TypesOfTokens
<1>. QED  BY <1>2, <1>3, <1>4, TokenTaken

LEMMA MouseThrowsInv == ASSUME TokenInv, MouseThrows  PROVE TokenInv'
<1>1. Return("exception")
  BY DEF MouseThrows
<1>. QED  BY <1>1, Returns

LEMMA SingleWordInv == ASSUME TokenInv, SingleWord  PROVE TokenInv'
<1>1. WordEnd \in place + 1 .. Len(source) + 1 /\ Looking /\ Word[1] \in DOMAIN OneWord
  BY WordIs DEF SingleWord, Is, AtWord
<1>. QED  BY <1>1, TokenTaken, TypesOfTokens DEF SingleWord

LEMMA IdentifierInv == ASSUME TokenInv, Identifier  PROVE TokenInv'
<1>1. WordEnd \in place + 1 .. Len(source) + 1 /\ Looking
  BY WordIs DEF Identifier, NoKeyword, AtWord
<1>. QED  BY <1>1, TokenTaken, TypesOfTokens DEF Identifier

LEMMA UnexpectedInv == ASSUME TokenInv, Unexpected  PROVE TokenInv'
BY Returns DEF Unexpected

LEMMA EndOfTextInv == ASSUME TokenInv, EndOfText  PROVE TokenInv'
BY Returns DEF EndOfText

(* The phrases of several words, and the one that is never found. *)
LEMMA Phrases ==
  \A w \in DOMAIN GoesOn :
    /\ GoesOn[w].looks = IF w = "at" THEN 1 ELSE Len(GoesOn[w].rest)
    /\ Len(GoesOn[w].rest) \in Nat /\ Len(GoesOn[w].rest) > 1
    /\ GoesOn[w].rest[Len(GoesOn[w].rest)] # "NUL"
<1>. DEFINE G(b) ==
        [switch |-> Phrase(<<b, "to">>, "ACTION_SWITCH_TO"),
         reset  |-> Phrase(<<b, "keyboard">>, "ACTION_RESET_KEYBOARD"),
         pass   |-> Phrase(<<b, "through">>, "ACTION_PASS_THROUGH"),
         reload |-> Phrase(<<b, "key", b, "maps">>, "ACTION_RELOAD_KEY_MAPS"),
         at     |-> [Phrase(<<b, "human", b, "speed">>, "PARAMETER_AT_HUMAN_SPEED")
                       EXCEPT !.looks = 1],
         until  |-> Phrase(<<b, "released">>, "PARAMETER_UNTIL_RELEASED"),
         other  |-> Phrase(<<b, "keys", b, "fall", b, "through">>,
                           "TOP_OTHER_KEYS_FALL_THROUGH"),
         block  |-> Phrase(<<b, "other", b, "keys">>, "TOP_BLOCK_OTHER_KEYS")]
<1>1. GoesOn = G(" ")
  BY Zenon DEF GoesOn
<1>2. PICK b : GoesOn = G(b)
  <2>. HIDE DEF G
  <2>. QED  BY Zenon, <1>1
<1>3. DOMAIN GoesOn = {"switch", "reset", "pass", "reload", "at", "until", "other", "block"}
  BY <1>2
<1>4. /\ GoesOn["switch"] = Phrase(<<b, "to">>, "ACTION_SWITCH_TO")
      /\ GoesOn["reset"]  = Phrase(<<b, "keyboard">>, "ACTION_RESET_KEYBOARD")
      /\ GoesOn["pass"]   = Phrase(<<b, "through">>, "ACTION_PASS_THROUGH")
      /\ GoesOn["reload"] = Phrase(<<b, "key", b, "maps">>, "ACTION_RELOAD_KEY_MAPS")
      /\ GoesOn["at"]     = [Phrase(<<b, "human", b, "speed">>, "PARAMETER_AT_HUMAN_SPEED")
                               EXCEPT !.looks = 1]
      /\ GoesOn["until"]  = Phrase(<<b, "released">>, "PARAMETER_UNTIL_RELEASED")
      /\ GoesOn["other"]  = Phrase(<<b, "keys", b, "fall", b, "through">>,
                                   "TOP_OTHER_KEYS_FALL_THROUGH")
      /\ GoesOn["block"]  = Phrase(<<b, "other", b, "keys">>, "TOP_BLOCK_OTHER_KEYS")
  BY <1>2
<1>. HIDE DEF G
<1>5. ASSUME NEW w \in DOMAIN GoesOn
      PROVE  /\ GoesOn[w].looks = IF w = "at" THEN 1 ELSE Len(GoesOn[w].rest)
             /\ Len(GoesOn[w].rest) \in Nat /\ Len(GoesOn[w].rest) > 1
             /\ GoesOn[w].rest[Len(GoesOn[w].rest)] # "NUL"
  <2>1. CASE w = "switch"
    <3>1. GoesOn[w].rest = <<b, "to">> /\ GoesOn[w].looks = Len(<<b, "to">>)
      BY <2>1, <1>4 DEF Phrase
    <3>. QED  BY <2>1, <3>1
  <2>2. CASE w = "reset"
    <3>1. GoesOn[w].rest = <<b, "keyboard">> /\ GoesOn[w].looks = Len(<<b, "keyboard">>)
      BY <2>2, <1>4 DEF Phrase
    <3>. QED  BY <2>2, <3>1
  <2>3. CASE w = "pass"
    <3>1. GoesOn[w].rest = <<b, "through">> /\ GoesOn[w].looks = Len(<<b, "through">>)
      BY <2>3, <1>4 DEF Phrase
    <3>. QED  BY <2>3, <3>1
  <2>4. CASE w = "reload"
    <3>1. GoesOn[w].rest = <<b, "key", b, "maps">> /\ GoesOn[w].looks = Len(<<b, "key", b, "maps">>)
      BY <2>4, <1>4 DEF Phrase
    <3>. QED  BY <2>4, <3>1
  <2>5. CASE w = "until"
    <3>1. GoesOn[w].rest = <<b, "released">> /\ GoesOn[w].looks = Len(<<b, "released">>)
      BY <2>5, <1>4 DEF Phrase
    <3>. QED  BY <2>5, <3>1
  <2>6. CASE w = "other"
    <3>1. GoesOn[w].rest = <<b, "keys", b, "fall", b, "through">> /\ GoesOn[w].looks = Len(<<b, "keys", b, "fall", b, "through">>)
      BY <2>6, <1>4 DEF Phrase
    <3>. QED  BY <2>6, <3>1
  <2>7. CASE w = "block"
    <3>1. GoesOn[w].rest = <<b, "other", b, "keys">> /\ GoesOn[w].looks = Len(<<b, "other", b, "keys">>)
      BY <2>7, <1>4 DEF Phrase
    <3>. QED  BY <2>7, <3>1
  <2>8. CASE w = "at"
    <3>1. GoesOn[w].rest = <<b, "human", b, "speed">> /\ GoesOn[w].looks = 1
      BY <2>8, <1>4 DEF Phrase
    <3>. QED  BY <2>8, <3>1
  <2>. QED  BY <1>3, <2>1, <2>2, <2>3, <2>4, <2>5, <2>6, <2>7, <2>8
<1>. QED  BY <1>5

LEMMA PhraseEnds ==
  ASSUME TokenInv, LongPhrase
  PROVE  /\ WordEnd + Len(GoesOn[Word[1]].rest) \in place + 1 .. Len(source) + 1
         /\ Word[1] \in DOMAIN GoesOn \ {"at"}
<1>. DEFINE w == Word[1]
            phrase == GoesOn[w]
            j == WordEnd + Len(phrase.rest)
<1>1. /\ AtWord /\ w \in DOMAIN GoesOn
      /\ Lowered(WordEnd, WordEnd + phrase.looks) = phrase.rest
      /\ Token(j, phrase.type)
  BY Zenon DEF LongPhrase, Continues, Is
<1>2. /\ TextOK /\ place \in 1 .. Len(source) /\ Len(source) \in Nat
      /\ WordEnd \in place + 1 .. Len(source) + 1
  BY <1>1, WordIs, TextDomain DEF TokenInv, PlacesOK, AtWord, Looking
<1>. HIDE DEF w
<1>3. /\ Len(phrase.rest) \in Nat /\ Len(phrase.rest) > 1
      /\ phrase.looks = IF w = "at" THEN 1 ELSE Len(phrase.rest)
      /\ phrase.rest[Len(phrase.rest)] # "NUL"
  BY <1>1, Phrases
<1>. HIDE DEF phrase
<1>4. Len(Lowered(WordEnd, WordEnd + phrase.looks)) = phrase.looks
  <2>1. /\ WordEnd \in 1 .. Len(source) + 1 /\ WordEnd + phrase.looks \in Nat
        /\ WordEnd <= WordEnd + phrase.looks /\ (WordEnd + phrase.looks) - WordEnd = phrase.looks
    BY <1>2, <1>3
  <2>. QED  BY <1>2, <2>1, LoweredIs
<1>5. phrase.looks = Len(phrase.rest) /\ w # "at"
  BY <1>1, <1>3, <1>4
<1>6. j <= Len(source) + 1
  <2>1. /\ WordEnd \in 1 .. Len(source) + 1 /\ j \in Nat /\ WordEnd < j
        /\ j - WordEnd = Len(phrase.rest)
    <3>. DEFINE n == Len(phrase.rest)
    <3>1. n \in Nat /\ n > 1
      BY <1>3
    <3>2. j = WordEnd + n /\ n = Len(phrase.rest)
      OBVIOUS
    <3>. HIDE DEF n, j
    <3>. QED  BY <1>2, <3>1, <3>2
  <2>2. Lowered(WordEnd, j)[j - WordEnd] # "NUL"
    BY <1>1, <1>3, <1>5, <2>1
  <2>. QED  BY <1>2, <2>1, <2>2, LoweredInside
<1>7. j \in place + 1 .. Len(source) + 1
  BY <1>2, <1>3, <1>6
<1>. QED  BY <1>1, <1>5, <1>7 DEF w, phrase

LEMMA LongPhraseInv == ASSUME TokenInv, LongPhrase  PROVE TokenInv'
<1>. DEFINE j == WordEnd + Len(GoesOn[Word[1]].rest)
            type == GoesOn[Word[1]].type
<1>1. Token(j, type) /\ Looking
  BY Zenon DEF LongPhrase, Continues, Is, AtWord
<1>2. j \in place + 1 .. Len(source) + 1 /\ type \in TypeOfToken
  BY PhraseEnds, TypesOfTokens
<1>. HIDE DEF j, type
<1>. QED  BY <1>1, <1>2, TokenTaken

LEMMA TokenizeStepInv == ASSUME TokenInv, TokenizeStep  PROVE TokenInv'
BY SkipBlankInv, NewLineInv, CommentInv, SignInv, StringInv, HexLiteralInv, NumberInv,
   UnexpectedInv, RowOrKeyInv, OnTriggerInv, MouseActionInv, MouseThrowsInv, SingleWordInv,
   LongPhraseInv, IdentifierInv, EndOfTextInv
   DEF TokenizeStep

LEMMA TokenInit == ASSUME TokenizerInit  PROVE TokenInv
<1>1. TextOK
  BY TextsAssumption DEF TokenizerInit, TextOK, ToSet
<1>2. Newlines \cap 1 .. 0 = {}
  OBVIOUS
<1>. QED  BY <1>1, <1>2, FS_EmptySet, TextDomain DEF TokenizerInit, TokenInv, PlacesOK, LinesOK

(* What the parser does after the tokenizer leaves the text and the tokens *)
(* alone.                                                                  *)
LEMMA TokenUnchanged ==
  ASSUME TokenInv, UNCHANGED tokenizerVars
  PROVE  TokenInv'
BY DEF tokenizerVars, TokenInv, PlacesOK, LinesOK, TextOK, Newlines, InToken, Stop

LEMMA TokenNext == ASSUME TokenInv, [Next]_vars  PROVE TokenInv'
<1>1. TokenizeStep \/ UNCHANGED tokenizerVars
  BY DEF Next, Step, Tokenize, Tokenized, TokenizeFails, TopStatement, RowHeader, BadStatement,
         OnOperation, Inline, Parsed, BindOperation, BindFails, Halt, AllBound, Stopped, Fail,
         Operate, vars
<1>. QED  BY <1>1, TokenizeStepInv, TokenUnchanged

(* tokenize keeps its place, its tokens and its count of the lines right.  *)
THEOREM TokensCorrect == Spec => []TokenInv
<1>1. Init => TokenInv
  BY TokenInit DEF Init
<1>. QED  BY <1>1, TokenNext, PTL DEF Spec

(* In a text of any length, the line number that an error message quotes   *)
(* for a token is the line the token is on, but for the newlines inside    *)
(* the tokens before it (tokenize: line_number).                           *)
THEOREM LinesCorrect == Spec => []LineNumbersRight
<1>1. TokenInv => LineNumbersRight
  <2>. SUFFICES ASSUME TokenInv, NEW k \in DOMAIN tokens
                PROVE  tokens[k].line = 1 + Cardinality({i \in 1 .. tokens[k].start - 1 :
                                                          source[i] = "\n" /\ ~ InToken(i)})
    BY DEF LineNumbersRight
  <2>1. tokens[k].start \in 1 .. Len(source) /\ DOMAIN source = 1 .. Len(source) /\ Len(source) \in Nat
    BY TextDomain DEF TokenInv, PlacesOK
  <2>2. Newlines \cap 1 .. tokens[k].start - 1 =
          {i \in 1 .. tokens[k].start - 1 : source[i] = "\n" /\ ~ InToken(i)}
    BY <2>1 DEF Newlines
  <2>. QED  BY <2>2 DEF TokenInv, LinesOK
<1>. QED  BY <1>1, TokensCorrect, PTL

-----------------------------------------------------------------------------
(* What the tokens say: when a phrase stands at a place (Here), what is    *)
(* asked of a token there (Says), and that tokenize takes no other.        *)
(* A blank, by a name that the SMT solver can read. *)
SP == " "
(* So is a quote. *)
Quo == "\""

LEMMA BlankIs ==
  SP \notin AlNum /\ SP \notin AlNum \cup {"-"} /\ SP \notin Letters /\ SP # "NUL" /\ SP # "-"
<1>1. SP \notin Letters
  BY Zenon, PiecesAssumption DEF SP, Blank
<1>2. SP \notin Digit /\ SP # "NUL" /\ SP # "-"
  BY Zenon DEF SP, Digit
<1>. QED  BY Zenon, <1>1, <1>2 DEF AlNum

(* Every phrase as it is written, family by family. *)
Alone(w)     == [text |-> <<w>>, type |-> OneWord[w], ends |-> AlNum]
BehindOn(t)  == [text |-> <<"on", SP>> \o t, type |-> Trigger[t], ends |-> AlNum \cup {"-"}]
OfMouse(v, d) == [text |-> <<"mouse", SP, v, SP, d>>, type |-> MouseWord[v][d], ends |-> Letters]
Long(w)      == [text |-> <<w>> \o GoesOn[w].rest, type |-> GoesOn[w].type, ends |-> {}]

LEMMA WrittenIs ==
  /\ \A w \in DOMAIN OneWord : Alone(w) \in Written
  /\ \A t \in DOMAIN Trigger : BehindOn(t) \in Written
  /\ \A v \in DOMAIN MouseWord : \A d \in DOMAIN MouseWord[v] : OfMouse(v, d) \in Written
  /\ \A w \in DOMAIN GoesOn \ {"at"} : Long(w) \in Written
  /\ \A q \in Written :
       \/ \E w \in DOMAIN OneWord : q = Alone(w)
       \/ \E t \in DOMAIN Trigger : q = BehindOn(t)
       \/ \E v \in DOMAIN MouseWord : \E d \in DOMAIN MouseWord[v] : q = OfMouse(v, d)
       \/ \E w \in DOMAIN GoesOn \ {"at"} : q = Long(w)
<1>1. Written =
        {Alone(w) : w \in DOMAIN OneWord} \cup {BehindOn(t) : t \in DOMAIN Trigger} \cup
        (UNION {{OfMouse(v, d) : d \in DOMAIN MouseWord[v]} : v \in DOMAIN MouseWord}) \cup
        {Long(w) : w \in DOMAIN GoesOn \ {"at"}}
  BY Zenon DEF Written, Alone, BehindOn, OfMouse, Long, SP
<1>2. \A w \in DOMAIN OneWord : Alone(w) \in Written
  BY Zenon, <1>1
<1>3. \A t \in DOMAIN Trigger : BehindOn(t) \in Written
  BY Zenon, <1>1
<1>4. ASSUME NEW v \in DOMAIN MouseWord, NEW d \in DOMAIN MouseWord[v]  PROVE OfMouse(v, d) \in Written
  <2>1. OfMouse(v, d) \in {OfMouse(v, y) : y \in DOMAIN MouseWord[v]}
    BY Zenon
  <2>2. OfMouse(v, d) \in UNION {{OfMouse(x, y) : y \in DOMAIN MouseWord[x]} : x \in DOMAIN MouseWord}
    BY Zenon, <2>1
  <2>. QED  BY Zenon, <1>1, <2>2
<1>5. \A w \in DOMAIN GoesOn \ {"at"} : Long(w) \in Written
  BY Zenon, <1>1
<1>6. ASSUME NEW q \in Written
      PROVE  \/ \E w \in DOMAIN OneWord : q = Alone(w)
             \/ \E t \in DOMAIN Trigger : q = BehindOn(t)
             \/ \E v \in DOMAIN MouseWord : \E d \in DOMAIN MouseWord[v] : q = OfMouse(v, d)
             \/ \E w \in DOMAIN GoesOn \ {"at"} : q = Long(w)
  BY Zenon, <1>1
<1>. QED  BY Zenon, <1>2, <1>3, <1>4, <1>5, <1>6

-----------------------------------------------------------------------------
(* A piece of the text in lower case. *)
Low(c) == IF c \in Letters THEN Lower[c] ELSE c

LEMMA LowIs ==
  \A c : /\ Low(c) \in Letters <=> c \in Letters
         /\ c \notin Letters => Low(c) = c
         /\ Low(c) \in AlNum <=> c \in AlNum
         /\ Low(c) \in AlNum \cup {"-"} <=> c \in AlNum \cup {"-"}
<1>1. \A c \in Letters : Lower[c] \in Letters
  BY PiecesAssumption
<1>. QED  BY <1>1 DEF Low, AlNum

LEMMA LoweredLow ==
  ASSUME NEW i \in Nat, NEW j \in Nat, i <= j
  PROVE  /\ Lowered(i, j) = [k \in 1 .. j - i |-> Low(Char(i + k - 1))]
         /\ Len(Lowered(i, j)) = j - i /\ DOMAIN Lowered(i, j) = 1 .. j - i
         /\ \A k \in 1 .. j - i : Lowered(i, j)[k] = Low(Char(i + k - 1))
<1>1. Lowered(i, j) = [k \in 1 .. j - i |-> Low(Char(i + k - 1))]
  BY DEF Lowered, Low
<1>2. j - i \in Nat
  OBVIOUS
<1>. QED  BY <1>1, <1>2

(* A run of pieces, from what stands there. *)
LEMMA RunEndAt ==
  ASSUME TextOK, NEW i \in 1 .. Len(source) + 1, NEW pieces, "NUL" \notin pieces, NEW j \in Nat, i <= j,
         \A k \in i .. j - 1 : Char(k) \in pieces, Char(j) \notin pieces
  PROVE  RunEnd(i, pieces) = j
<1>1. Len(source) \in Nat
  BY TextDomain
<1>2. /\ RunEnd(i, pieces) \in i .. Len(source) + 1
      /\ Char(RunEnd(i, pieces)) \notin pieces
      /\ \A k \in i .. RunEnd(i, pieces) - 1 : Char(k) \in pieces
  BY RunEndIs
<1>. DEFINE e == RunEnd(i, pieces)
<1>3. e \in Nat /\ i <= e
  BY <1>1, <1>2
<1>4. Char(e) \notin pieces /\ \A k \in i .. e - 1 : Char(k) \in pieces
  BY <1>2
<1>. HIDE DEF e
<1>5. ~ (e < j)
  <2>1. e < j => e \in i .. j - 1
    BY <1>3
  <2>. QED  BY <1>4, <2>1
<1>6. ~ (j < e)
  <2>1. j < e => j \in i .. e - 1
    BY <1>3
  <2>. QED  BY <1>4, <2>1
<1>7. e = j
  BY <1>3, <1>5, <1>6
<1>. QED  BY <1>7 DEF e

(* A piece that is lowered to a piece is there. *)
LEMMA InText ==
  ASSUME TextOK, NEW i \in Nat, Char(i) # "NUL"
  PROVE  i \in 1 .. Len(source)
BY TextDomain

-----------------------------------------------------------------------------
(* The phrase q is what stands at p. *)
Here(p, q) ==
  /\ Lower[Char(p)] = Head(q.text)
  /\ Lowered(p, p + Len(q.text)) = q.text
  /\ Char(p + Len(q.text)) \notin q.ends

(* What TokensSayTheText asks of a token of a type, from p to j. *)
Says(p, j, type) ==
  type \notin Literal =>
    IF \E q \in Written : Here(p, q)
    THEN \E q \in Written : Here(p, q) /\ type = q.type /\ j - p = Len(q.text)
    ELSE IF BehindMouse(p + 3) THEN j - p = 5 /\ type \notin DOMAIN OnX
    ELSE type = "IDENTIFIER" /\ j = RunEnd(p, AlNum)

(* What the pieces of a token of a type are, from p to j. *)
Quoted(p, j) ==
  j > p + 1 /\ Char(p) = Quo /\ Char(j - 1) = Quo /\ \A i \in p + 1 .. j - 2 : Char(i) # Quo

Cut(p, j, type) ==
  IF type = "STRING_LIT" THEN Quoted(p, j)
  ELSE IF type \in Literal
  THEN /\ Char(p) \in Letters => Char(p + 1) \in Digit
       /\ Char(p) = "0" /\ Char(p + 1) = "x" => Char(p + 2) \in HexDigit
       /\ \A i \in p .. j - 1 : Char(i) \in AlNum \cup DOMAIN Symbol
  ELSE Char(p) \in Letters

SaysInv ==
  \A k \in DOMAIN tokens : \A p, j, type, c :
    p = tokens[k].start /\ j = Stop(tokens[k]) /\ type = tokens[k].type /\ c = Head(tokens[k].text)
      => c = Char(p) /\ Says(p, j, type) /\ Cut(p, j, type)

LEMMA Triggers ==
  /\ DOMAIN Trigger = {<<w>> : w \in DOMAIN OnWord} \cup {DoubleClick}
  /\ \A t \in DOMAIN Trigger :
       /\ Len(t) \in Nat \ {0} /\ DOMAIN t = 1 .. Len(t)
       /\ \A k \in 1 .. Len(t) : t[k] \in AlNum \cup {"-"}
<1>1. DOMAIN Trigger = {<<w>> : w \in DOMAIN OnWord} \cup {DoubleClick}
  BY DEF Trigger
<1>2. DOMAIN OnWord \subseteq AlNum /\ "double" \in AlNum /\ "click" \in AlNum
  <2>1. DOMAIN OnWord \cup {"double"} \subseteq Letters
    BY Zenon, PiecesAssumption
  <2>2. "click" \in DOMAIN OnWord
    BY DEF OnWord
  <2>. QED  BY <2>1, <2>2 DEF AlNum
<1>3. ASSUME NEW w \in DOMAIN OnWord
      PROVE  /\ Len(<<w>>) = 1 /\ DOMAIN <<w>> = 1 .. 1
             /\ \A k \in 1 .. 1 : <<w>>[k] \in AlNum \cup {"-"}
  BY <1>2
<1>4. /\ Len(DoubleClick) = 3 /\ DOMAIN DoubleClick = 1 .. 3
      /\ \A k \in 1 .. 3 : DoubleClick[k] \in AlNum \cup {"-"}
  BY <1>2 DEF DoubleClick
<1>. QED  BY <1>1, <1>3, <1>4

(* A text that is written from i on is there piece by piece. *)
Matches(i, u) == \A k \in 1 .. Len(u) : Low(Char(i + k - 1)) = u[k]

LEMMA LoweredMatches ==
  ASSUME NEW i \in Nat, NEW S, NEW u \in Seq(S), NEW j \in Nat, i <= j
  PROVE  Lowered(i, j) = u <=> j = i + Len(u) /\ Matches(i, u)
<1>1. Len(u) \in Nat /\ DOMAIN u = 1 .. Len(u) /\ u = [k \in 1 .. Len(u) |-> u[k]]
  BY LenProperties
<1>2. /\ Lowered(i, j) = [k \in 1 .. j - i |-> Low(Char(i + k - 1))]
      /\ Len(Lowered(i, j)) = j - i /\ DOMAIN Lowered(i, j) = 1 .. j - i
      /\ \A k \in 1 .. j - i : Lowered(i, j)[k] = Low(Char(i + k - 1))
  BY LoweredLow
<1>. DEFINE x == Lowered(i, j)
<1>3. ASSUME x = u  PROVE j = i + Len(u) /\ Matches(i, u)
  <2>1. Len(u) = j - i
    BY <1>2, <1>3
  <2>2. j = i + Len(u)
    BY <1>1, <2>1
  <2>3. \A k \in 1 .. Len(u) : Low(Char(i + k - 1)) = u[k]
    BY <1>2, <1>3, <2>1
  <2>. QED  BY <2>2, <2>3 DEF Matches
<1>4. ASSUME j = i + Len(u), Matches(i, u)  PROVE x = u
  <2>1. j - i = Len(u)
    BY <1>1, <1>4
  <2>2. \A k \in 1 .. Len(u) : Low(Char(i + k - 1)) = u[k]
    BY <1>4 DEF Matches
  <2>3. x = [k \in 1 .. Len(u) |-> Low(Char(i + k - 1))]
    BY <1>2, <2>1
  <2>. QED  BY <1>1, <2>2, <2>3
<1>. QED  BY <1>3, <1>4

(* Of a few pieces. *)
LEMMA MatchesFew ==
  ASSUME NEW i \in Nat
  PROVE  /\ \A a : Matches(i, <<a>>) <=> Low(Char(i)) = a
         /\ \A a, b : Matches(i, <<a, b>>) <=> Low(Char(i)) = a /\ Low(Char(i + 1)) = b
         /\ \A a, b, c : Matches(i, <<a, b, c>>) <=>
              Low(Char(i)) = a /\ Low(Char(i + 1)) = b /\ Low(Char(i + 2)) = c
         /\ \A a, b, c, d, e : Matches(i, <<a, b, c, d, e>>) <=>
              /\ Low(Char(i)) = a /\ Low(Char(i + 1)) = b /\ Low(Char(i + 2)) = c
              /\ Low(Char(i + 3)) = d /\ Low(Char(i + 4)) = e
<1>. DEFINE l(m) == Low(Char(m))
<1>1. i + 1 - 1 = i /\ i + 2 - 1 = i + 1 /\ i + 3 - 1 = i + 2 /\ i + 4 - 1 = i + 3 /\ i + 5 - 1 = i + 4
  OBVIOUS
<1>2. \A u : Matches(i, u) <=> \A k \in 1 .. Len(u) : l(i + k - 1) = u[k]
  BY DEF Matches
<1>. HIDE DEF l
<1>3. ASSUME NEW a  PROVE Matches(i, <<a>>) <=> l(i) = a
  <2>1. Len(<<a>>) = 1 /\ <<a>>[1] = a /\ \A k \in 1 .. 1 : k = 1
    OBVIOUS
  <2>. QED  BY <1>1, <1>2, <2>1
<1>4. ASSUME NEW a, NEW b  PROVE Matches(i, <<a, b>>) <=> l(i) = a /\ l(i + 1) = b
  <2>. DEFINE u == <<a, b>>
  <2>1. Len(u) = 2 /\ u[1] = a /\ u[2] = b /\ \A k \in 1 .. 2 : k = 1 \/ k = 2
    OBVIOUS
  <2>. HIDE DEF u
  <2>2. Matches(i, u) <=> l(i) = a /\ l(i + 1) = b
    BY <1>1, <1>2, <2>1
  <2>. QED  BY <2>2 DEF u
<1>5. ASSUME NEW a, NEW b, NEW c
      PROVE Matches(i, <<a, b, c>>) <=> l(i) = a /\ l(i + 1) = b /\ l(i + 2) = c
  <2>. DEFINE u == <<a, b, c>>
  <2>1. Len(u) = 3 /\ u[1] = a /\ u[2] = b /\ u[3] = c /\ \A k \in 1 .. 3 : k = 1 \/ k = 2 \/ k = 3
    OBVIOUS
  <2>. HIDE DEF u
  <2>2. Matches(i, u) <=> l(i) = a /\ l(i + 1) = b /\ l(i + 2) = c
    BY <1>1, <1>2, <2>1
  <2>. QED  BY <2>2 DEF u
<1>6. ASSUME NEW a, NEW b, NEW c, NEW d, NEW e
      PROVE Matches(i, <<a, b, c, d, e>>) <=>
              l(i) = a /\ l(i + 1) = b /\ l(i + 2) = c /\ l(i + 3) = d /\ l(i + 4) = e
  <2>. DEFINE u == <<a, b, c, d, e>>
  <2>1. /\ Len(u) = 5 /\ u[1] = a /\ u[2] = b /\ u[3] = c /\ u[4] = d /\ u[5] = e
        /\ \A k \in 1 .. 5 : k = 1 \/ k = 2 \/ k = 3 \/ k = 4 \/ k = 5
    OBVIOUS
  <2>. HIDE DEF u
  <2>2. Matches(i, u) <=> \A k \in 1 .. 5 : l(i + k - 1) = u[k]
    BY <1>2, <2>1
  <2>3. (\A k \in 1 .. 5 : l(i + k - 1) = u[k]) <=>
          l(i + 1 - 1) = a /\ l(i + 2 - 1) = b /\ l(i + 3 - 1) = c /\ l(i + 4 - 1) = d /\ l(i + 5 - 1) = e
    BY <2>1
  <2>4. Matches(i, u) <=>
          l(i) = a /\ l(i + 1) = b /\ l(i + 2) = c /\ l(i + 3) = d /\ l(i + 4) = e
    BY Zenon, <1>1, <2>2, <2>3
  <2>. QED  BY <2>4 DEF u
<1>. QED  BY <1>3, <1>4, <1>5, <1>6 DEF l

(* What stands behind each other is written behind each other. *)
LEMMA MatchesJoin ==
  ASSUME NEW i \in Nat, NEW S, NEW u \in Seq(S), NEW r \in Seq(S)
  PROVE  Matches(i, u \o r) <=> Matches(i, u) /\ Matches(i + Len(u), r)
<1>. DEFINE l(k) == Low(Char(k))
<1>1. PICK n \in Nat : n = Len(u)
  BY LenProperties
<1>2. PICK m \in Nat : m = Len(r)
  BY LenProperties
<1>3. PICK both \in Seq(S) : both = u \o r
  BY ConcatProperties
<1>4. /\ Len(both) = n + m
      /\ \A k \in 1 .. n : both[k] = u[k]
      /\ \A k \in 1 .. m : both[n + k] = r[k]
  BY <1>1, <1>2, <1>3, ConcatProperties
<1>5. /\ Matches(i, both) <=> \A k \in 1 .. n + m : l(i + k - 1) = both[k]
      /\ Matches(i, u) <=> \A k \in 1 .. n : l(i + k - 1) = u[k]
      /\ Matches(i + n, r) <=> \A k \in 1 .. m : l(i + n + k - 1) = r[k]
  BY <1>1, <1>2, <1>4 DEF Matches
<1>. HIDE DEF l
<1>6. \A k \in 1 .. m : n + k \in 1 .. n + m /\ i + (n + k) - 1 = i + n + k - 1
  OBVIOUS
<1>7. \A k \in 1 .. n : k \in 1 .. n + m
  OBVIOUS
<1>8. \A k \in 1 .. n + m : k \in 1 .. n \/ \E o \in 1 .. m : k = n + o
  <2>. SUFFICES ASSUME NEW k \in 1 .. n + m, k \notin 1 .. n  PROVE \E o \in 1 .. m : k = n + o
    OBVIOUS
  <2>1. k - n \in 1 .. m /\ k = n + (k - n)
    OBVIOUS
  <2>. QED  BY <2>1
<1>9. ASSUME \A k \in 1 .. n + m : l(i + k - 1) = both[k]
      PROVE  (\A k \in 1 .. n : l(i + k - 1) = u[k]) /\ (\A k \in 1 .. m : l(i + n + k - 1) = r[k])
  <2>1. ASSUME NEW k \in 1 .. m  PROVE l(i + n + k - 1) = r[k]
    <3>1. l(i + (n + k) - 1) = both[n + k]
      BY <1>6, <1>9
    <3>. QED  BY <1>4, <1>6, <3>1
  <2>. QED  BY <1>4, <1>7, <1>9, <2>1
<1>10. ASSUME \A k \in 1 .. n : l(i + k - 1) = u[k], \A k \in 1 .. m : l(i + n + k - 1) = r[k],
              NEW k \in 1 .. n + m
       PROVE  l(i + k - 1) = both[k]
  <2>1. CASE k \in 1 .. n
    BY <1>4, <1>10, <2>1
  <2>2. CASE k \notin 1 .. n
    <3>1. PICK o \in 1 .. m : k = n + o
      BY <1>8, <2>2
    <3>2. l(i + (n + o) - 1) = r[o]
      BY <1>6, <1>10
    <3>. QED  BY <1>4, <3>1, <3>2
  <2>. QED  BY <2>1, <2>2
<1>11. Matches(i, both) <=> Matches(i, u) /\ Matches(i + n, r)
  BY <1>5, <1>9, <1>10
<1>. QED  BY <1>1, <1>3, <1>11

(* What phrases are written with. *)
Piece == AlNum \cup {SP, "-"}

LEMMA WordsAre ==
  /\ DOMAIN OneWord \subseteq Letters /\ DOMAIN GoesOn \subseteq Letters
  /\ "on" \in Letters /\ "mouse" \in Letters
  /\ DOMAIN OnWord \subseteq Letters /\ DOMAIN MouseWord \subseteq Letters
  /\ \A v \in DOMAIN MouseWord : DOMAIN MouseWord[v] \subseteq Letters
  /\ Letters \subseteq AlNum /\ AlNum \subseteq Piece /\ SP \in Piece /\ "-" \in Piece
<1>1. DOMAIN OneWord \cup DOMAIN GoesOn \cup {"on", "mouse", "R", "K", "x"} \subseteq Letters
  BY Zenon, PiecesAssumption
<1>2. /\ DOMAIN OnWord \cup {"double"} \cup DOMAIN MouseWord \subseteq Letters
      /\ \A v \in DOMAIN MouseWord : DOMAIN MouseWord[v] \subseteq Letters
  BY Zenon, PiecesAssumption
<1>3. Letters \subseteq AlNum /\ AlNum \subseteq Piece /\ SP \in Piece /\ "-" \in Piece
  BY Zenon DEF AlNum, Piece
<1>4. DOMAIN OneWord \subseteq Letters /\ DOMAIN GoesOn \subseteq Letters
      /\ "on" \in Letters /\ "mouse" \in Letters
  BY Zenon, <1>1
<1>5. DOMAIN OnWord \subseteq Letters /\ DOMAIN MouseWord \subseteq Letters
  BY Zenon, <1>2
<1>. QED  BY Zenon, <1>2, <1>3, <1>4, <1>5

LEMMA TriggerSeq ==
  \A t \in DOMAIN Trigger : t \in Seq(Piece)
<1>1. DOMAIN OnWord \subseteq Piece /\ "double" \in Piece /\ "click" \in Piece /\ "-" \in Piece
  <2>1. DOMAIN OnWord \cup {"double"} \subseteq Letters
    BY Zenon, PiecesAssumption
  <2>2. "click" \in DOMAIN OnWord
    BY DEF OnWord
  <2>. QED  BY <2>1, <2>2, WordsAre
<1>2. \A w \in DOMAIN OnWord : <<w>> \in Seq(Piece)
  BY <1>1
<1>3. DoubleClick \in Seq(Piece)
  BY <1>1 DEF DoubleClick
<1>. QED  BY <1>2, <1>3, Triggers

(* What goes on begins with a blank. *)
LEMMA RestIs ==
  \A w \in DOMAIN GoesOn :
    /\ GoesOn[w].rest[1] = SP
    /\ \E S : GoesOn[w].rest \in Seq(S)
<1>. DEFINE G(b) ==
        [switch |-> Phrase(<<b, "to">>, "ACTION_SWITCH_TO"),
         reset  |-> Phrase(<<b, "keyboard">>, "ACTION_RESET_KEYBOARD"),
         pass   |-> Phrase(<<b, "through">>, "ACTION_PASS_THROUGH"),
         reload |-> Phrase(<<b, "key", b, "maps">>, "ACTION_RELOAD_KEY_MAPS"),
         at     |-> [Phrase(<<b, "human", b, "speed">>, "PARAMETER_AT_HUMAN_SPEED")
                       EXCEPT !.looks = 1],
         until  |-> Phrase(<<b, "released">>, "PARAMETER_UNTIL_RELEASED"),
         other  |-> Phrase(<<b, "keys", b, "fall", b, "through">>,
                           "TOP_OTHER_KEYS_FALL_THROUGH"),
         block  |-> Phrase(<<b, "other", b, "keys">>, "TOP_BLOCK_OTHER_KEYS")]
<1>1. GoesOn = G(" ") /\ SP = " "
  BY Zenon DEF GoesOn, SP
<1>2. PICK b : GoesOn = G(b) /\ b = SP
  <2>. HIDE DEF G
  <2>. QED  BY Zenon, <1>1
<1>3. DOMAIN GoesOn = {"switch", "reset", "pass", "reload", "at", "until", "other", "block"}
  BY <1>2
<1>4. /\ GoesOn["switch"].rest = <<b, "to">>
      /\ GoesOn["reset"].rest = <<b, "keyboard">>
      /\ GoesOn["pass"].rest = <<b, "through">>
      /\ GoesOn["reload"].rest = <<b, "key", b, "maps">>
      /\ GoesOn["at"].rest = <<b, "human", b, "speed">>
      /\ GoesOn["until"].rest = <<b, "released">>
      /\ GoesOn["other"].rest = <<b, "keys", b, "fall", b, "through">>
      /\ GoesOn["block"].rest = <<b, "other", b, "keys">>
  BY <1>2 DEF Phrase
<1>. HIDE DEF G
<1>. DEFINE S == {b, "to", "keyboard", "through", "key", "maps", "human", "speed", "released",
                  "keys", "fall", "other"}
<1>5. /\ b \in S
      /\ \A x \in {"to", "keyboard", "through", "key", "maps", "human", "speed", "released",
                   "keys", "fall", "other"} : x \in S
  OBVIOUS
<1>. HIDE DEF S
<1>6. /\ \A x \in S : <<b, x>> \in Seq(S) /\ <<b, x>>[1] = b
      /\ \A x, y \in S : <<b, x, b, y>> \in Seq(S) /\ <<b, x, b, y>>[1] = b
      /\ \A x, y, z \in S : <<b, x, b, y, b, z>> \in Seq(S) /\ <<b, x, b, y, b, z>>[1] = b
  BY <1>5
<1>7. ASSUME NEW w \in DOMAIN GoesOn  PROVE GoesOn[w].rest[1] = b /\ GoesOn[w].rest \in Seq(S)
  <2>1. CASE w = "switch"
    <3>1. GoesOn[w].rest = <<b, "to">>
      BY Zenon, <1>4, <2>1
    <3>2. <<b, "to">> \in Seq(S) /\ <<b, "to">>[1] = b
      BY <1>5, <1>6
    <3>. QED  BY Zenon, <3>1, <3>2
  <2>2. CASE w = "reset"
    <3>1. GoesOn[w].rest = <<b, "keyboard">>
      BY Zenon, <1>4, <2>2
    <3>2. <<b, "keyboard">> \in Seq(S) /\ <<b, "keyboard">>[1] = b
      BY <1>5, <1>6
    <3>. QED  BY Zenon, <3>1, <3>2
  <2>3. CASE w = "pass"
    <3>1. GoesOn[w].rest = <<b, "through">>
      BY Zenon, <1>4, <2>3
    <3>2. <<b, "through">> \in Seq(S) /\ <<b, "through">>[1] = b
      BY <1>5, <1>6
    <3>. QED  BY Zenon, <3>1, <3>2
  <2>4. CASE w = "reload"
    <3>1. GoesOn[w].rest = <<b, "key", b, "maps">>
      BY Zenon, <1>4, <2>4
    <3>2. <<b, "key", b, "maps">> \in Seq(S) /\ <<b, "key", b, "maps">>[1] = b
      BY <1>5, <1>6
    <3>. QED  BY Zenon, <3>1, <3>2
  <2>5. CASE w = "at"
    <3>1. GoesOn[w].rest = <<b, "human", b, "speed">>
      BY Zenon, <1>4, <2>5
    <3>2. <<b, "human", b, "speed">> \in Seq(S) /\ <<b, "human", b, "speed">>[1] = b
      BY <1>5, <1>6
    <3>. QED  BY Zenon, <3>1, <3>2
  <2>6. CASE w = "until"
    <3>1. GoesOn[w].rest = <<b, "released">>
      BY Zenon, <1>4, <2>6
    <3>2. <<b, "released">> \in Seq(S) /\ <<b, "released">>[1] = b
      BY <1>5, <1>6
    <3>. QED  BY Zenon, <3>1, <3>2
  <2>7. CASE w = "other"
    <3>1. GoesOn[w].rest = <<b, "keys", b, "fall", b, "through">>
      BY Zenon, <1>4, <2>7
    <3>2. <<b, "keys", b, "fall", b, "through">> \in Seq(S) /\ <<b, "keys", b, "fall", b, "through">>[1] = b
      BY <1>5, <1>6
    <3>. QED  BY Zenon, <3>1, <3>2
  <2>8. CASE w = "block"
    <3>1. GoesOn[w].rest = <<b, "other", b, "keys">>
      BY Zenon, <1>4, <2>8
    <3>2. <<b, "other", b, "keys">> \in Seq(S) /\ <<b, "other", b, "keys">>[1] = b
      BY <1>5, <1>6
    <3>. QED  BY Zenon, <3>1, <3>2
  <2>. QED  BY <1>3, <2>1, <2>2, <2>3, <2>4, <2>5, <2>6, <2>7, <2>8
<1>. QED  BY <1>2, <1>7

(* What it takes for a phrase to stand at p. *)
LEMMA HereMatches ==
  ASSUME NEW p \in Nat, Char(p) \in Letters, NEW q, NEW S, q.text \in Seq(S), Len(q.text) > 0
  PROVE  Here(p, q) <=> Matches(p, q.text) /\ Char(p + Len(q.text)) \notin q.ends
<1>1. PICK u \in Seq(S) : u = q.text
  OBVIOUS
<1>2. PICK n \in Nat : n = Len(u)
  BY LenProperties
<1>3. PICK j \in Nat : j = p + n
  OBVIOUS
<1>4. n > 0 /\ Head(u) = u[1] /\ p <= j
  BY <1>1, <1>2, <1>3
<1>5. Lowered(p, j) = u <=> Matches(p, u)
  <2>1. Lowered(p, j) = u <=> j = p + Len(u) /\ Matches(p, u)
    BY <1>4, LoweredMatches
  <2>. QED  BY <1>2, <1>3, <2>1
<1>6. Matches(p, u) => Lower[Char(p)] = Head(u)
  <2>1. 1 \in 1 .. n /\ p + 1 - 1 = p
    BY <1>4
  <2>2. Matches(p, u) => Low(Char(p)) = u[1]
    BY <1>2, <2>1 DEF Matches
  <2>. QED  BY <1>4, <2>2 DEF Low
<1>. QED  BY <1>1, <1>2, <1>3, <1>5, <1>6 DEF Here

LEMMA HereAlone ==
  ASSUME NEW p \in Nat, Char(p) \in Letters, NEW w
  PROVE  Here(p, Alone(w)) <=> Lower[Char(p)] = w /\ Char(p + 1) \notin AlNum
<1>1. /\ Alone(w).text = <<w>> /\ Alone(w).ends = AlNum
  BY Zenon DEF Alone
<1>2. <<w>> \in Seq({w}) /\ Len(<<w>>) = 1
  OBVIOUS
<1>3. PICK q : q = Alone(w)
  OBVIOUS
<1>4. Here(p, q) <=> Matches(p, q.text) /\ Char(p + Len(q.text)) \notin q.ends
  <2>1. PICK S : S = {w}
    OBVIOUS
  <2>2. <<w>> \in Seq(S) /\ Len(<<w>>) > 0
    BY <2>1
  <2>3. q.text \in Seq(S) /\ Len(q.text) > 0
    BY Zenon, <1>1, <1>3, <2>2
  <2>. QED  BY <2>3, HereMatches
<1>5. Matches(p, <<w>>) <=> Low(Char(p)) = w
  BY MatchesFew
<1>. QED  BY <1>1, <1>2, <1>3, <1>4, <1>5 DEF Low

LEMMA BlankHere ==
  \A c : Low(c) = SP <=> c = SP
BY BlankIs, LowIs

LEMMA HereBehindOn ==
  ASSUME NEW p \in Nat, Char(p) \in Letters, NEW t \in DOMAIN Trigger
  PROVE  /\ Len(BehindOn(t).text) = 2 + Len(t) /\ Len(t) \in Nat
         /\ Here(p, BehindOn(t)) <=>
              /\ Lower[Char(p)] = "on" /\ Char(p + 1) = SP /\ Matches(p + 2, t)
              /\ Char(p + 2 + Len(t)) \notin AlNum \cup {"-"}
<1>1. /\ BehindOn(t).text = <<"on", SP>> \o t /\ BehindOn(t).ends = AlNum \cup {"-"}
  BY Zenon DEF BehindOn
<1>2. PICK S : t \in Seq(S) /\ "on" \in S /\ SP \in S
  <2>1. t \in Seq(Piece) /\ "on" \in Piece /\ SP \in Piece
    BY TriggerSeq, WordsAre
  <2>. QED  BY <2>1
<1>3. PICK u : u = <<"on", SP>>
  OBVIOUS
<1>4. u \in Seq(S) /\ Len(u) = 2
  BY <1>2, <1>3
<1>5. PICK n \in Nat : n = Len(t)
  BY <1>2, LenProperties
<1>6. PICK both \in Seq(S) : both = u \o t
  BY <1>2, <1>4, ConcatProperties
<1>7. Len(both) = 2 + n
  <2>1. Len(u \o t) = Len(u) + Len(t)
    BY <1>2, <1>4, ConcatProperties
  <2>. QED  BY Zenon, <1>4, <1>5, <1>6, <2>1
<1>8. PICK q : q = BehindOn(t)
  OBVIOUS
<1>9. q.text = both /\ q.ends = AlNum \cup {"-"}
  BY Zenon, <1>1, <1>3, <1>6, <1>8
<1>10. Here(p, q) <=> Matches(p, both) /\ Char(p + (2 + n)) \notin AlNum \cup {"-"}
  <2>1. Len(q.text) > 0 /\ q.text \in Seq(S)
    BY <1>7, <1>9
  <2>2. Here(p, q) <=> Matches(p, q.text) /\ Char(p + Len(q.text)) \notin q.ends
    BY <2>1, HereMatches
  <2>. QED  BY Zenon, <1>7, <1>9, <2>2
<1>11. Matches(p, both) <=> Matches(p, u) /\ Matches(p + 2, t)
  <2>1. Matches(p, u \o t) <=> Matches(p, u) /\ Matches(p + Len(u), t)
    BY <1>2, <1>4, MatchesJoin
  <2>. QED  BY <1>4, <1>6, <2>1
<1>12. Matches(p, u) <=> Low(Char(p)) = "on" /\ Low(Char(p + 1)) = SP
  BY <1>3, MatchesFew
<1>13. Low(Char(p)) = Lower[Char(p)]
  BY DEF Low
<1>14. p + (2 + n) = p + 2 + n
  OBVIOUS
<1>. QED  BY <1>5, <1>7, <1>8, <1>9, <1>10, <1>11, <1>12, <1>13, <1>14, BlankHere

LEMMA HereOfMouse ==
  ASSUME NEW p \in Nat, Char(p) \in Letters, NEW v, NEW d
  PROVE  /\ Len(OfMouse(v, d).text) = 5
         /\ Here(p, OfMouse(v, d)) <=>
              /\ Lower[Char(p)] = "mouse" /\ Char(p + 1) = SP /\ Low(Char(p + 2)) = v
              /\ Char(p + 3) = SP /\ Low(Char(p + 4)) = d /\ Char(p + 5) \notin Letters
<1>1. /\ OfMouse(v, d).text = <<"mouse", SP, v, SP, d>> /\ OfMouse(v, d).ends = Letters
  BY Zenon DEF OfMouse
<1>2. PICK u : u = <<"mouse", SP, v, SP, d>>
  OBVIOUS
<1>3. u \in Seq({"mouse", SP, v, d}) /\ Len(u) = 5
  BY <1>2
<1>4. PICK q : q = OfMouse(v, d)
  OBVIOUS
<1>5. q.text = u /\ q.ends = Letters
  BY Zenon, <1>1, <1>2, <1>4
<1>6. Here(p, q) <=> Matches(p, u) /\ Char(p + 5) \notin Letters
  <2>1. Here(p, q) <=> Matches(p, q.text) /\ Char(p + Len(q.text)) \notin q.ends
    <3>1. PICK S : S = {"mouse", SP, v, d}
      OBVIOUS
    <3>2. u \in Seq(S) /\ Len(u) > 0
      BY <1>3, <3>1
    <3>3. q.text \in Seq(S) /\ Len(q.text) > 0
      BY Zenon, <1>5, <3>2
    <3>. QED  BY <3>3, HereMatches
  <2>. QED  BY Zenon, <1>3, <1>5, <2>1
<1>7. Matches(p, u) <=> /\ Low(Char(p)) = "mouse" /\ Low(Char(p + 1)) = SP /\ Low(Char(p + 2)) = v
                        /\ Low(Char(p + 3)) = SP /\ Low(Char(p + 4)) = d
  BY <1>2, MatchesFew
<1>8. Low(Char(p)) = Lower[Char(p)]
  BY DEF Low
<1>. QED  BY <1>3, <1>4, <1>5, <1>6, <1>7, <1>8, BlankHere

LEMMA HereLong ==
  ASSUME NEW p \in Nat, Char(p) \in Letters, NEW w \in DOMAIN GoesOn
  PROVE  /\ Len(Long(w).text) = 1 + Len(GoesOn[w].rest) /\ Len(GoesOn[w].rest) \in Nat
         /\ Here(p, Long(w)) <=> Lower[Char(p)] = w /\ Matches(p + 1, GoesOn[w].rest)
<1>1. /\ Long(w).text = <<w>> \o GoesOn[w].rest /\ Long(w).ends = {}
  BY Zenon DEF Long
<1>2. PICK r : r = GoesOn[w].rest
  OBVIOUS
<1>3. PICK T : r \in Seq(T)
  BY <1>2, RestIs
<1>4. r \in Seq(T \cup {w}) /\ <<w>> \in Seq(T \cup {w}) /\ Len(<<w>>) = 1
  BY <1>3
<1>5. PICK S : S = T \cup {w}
  OBVIOUS
<1>6. PICK u : u = <<w>>
  OBVIOUS
<1>7. u \in Seq(S) /\ r \in Seq(S) /\ Len(u) = 1
  BY <1>4, <1>5, <1>6
<1>8. PICK n \in Nat : n = Len(r)
  BY <1>7, LenProperties
<1>9. PICK both \in Seq(S) : both = u \o r
  BY <1>7, ConcatProperties
<1>10. Len(both) = 1 + n
  <2>1. Len(u \o r) = Len(u) + Len(r)
    BY Zenon, <1>7, ConcatProperties
  <2>. QED  BY <1>7, <1>8, <1>9, <2>1
<1>11. PICK q : q = Long(w)
  OBVIOUS
<1>12. q.text = both /\ q.ends = {}
  BY Zenon, <1>1, <1>2, <1>6, <1>9, <1>11
<1>13. Here(p, q) <=> Matches(p, both)
  <2>1. Len(q.text) > 0 /\ q.text \in Seq(S)
    BY <1>10, <1>12
  <2>2. Here(p, q) <=> Matches(p, q.text) /\ Char(p + Len(q.text)) \notin q.ends
    BY <2>1, HereMatches
  <2>. QED  BY Zenon, <1>12, <2>2
<1>14. Matches(p, both) <=> Matches(p, u) /\ Matches(p + 1, r)
  <2>1. Matches(p, u \o r) <=> Matches(p, u) /\ Matches(p + Len(u), r)
    BY <1>7, MatchesJoin
  <2>. QED  BY <1>7, <1>9, <2>1
<1>15. Matches(p, u) <=> Low(Char(p)) = w
  BY <1>6, MatchesFew
<1>16. Low(Char(p)) = Lower[Char(p)]
  BY DEF Low
<1>. QED  BY <1>2, <1>8, <1>10, <1>11, <1>12, <1>13, <1>14, <1>15, <1>16

(* A word alone is one piece, and no piece behind it is of a word. *)
LEMMA IsIs ==
  ASSUME TokenInv, AtWord
  PROVE  /\ place \in Nat /\ place \in 1 .. Len(source) /\ TextOK /\ Len(source) \in Nat
         /\ Char(place) \in Letters
         /\ Char(place + 1) \notin AlNum => WordEnd = place + 1 /\ ~ AtPlace /\ Word[1] = Lower[Char(place)]
         /\ \A W : Is(W) <=> Char(place + 1) \notin AlNum /\ Lower[Char(place)] \in W
<1>1. /\ TextOK /\ place \in 1 .. Len(source) /\ Len(source) \in Nat /\ Char(place) \in Letters
      /\ place \in Nat
  BY TextDomain DEF TokenInv, PlacesOK, AtWord, Looking
<1>2. /\ WordEnd \in place .. Len(source) + 1 /\ Char(WordEnd) \notin AlNum
      /\ \A j \in place .. WordEnd - 1 : Char(j) \in AlNum
  <2>1. place \in 1 .. Len(source) + 1
    BY <1>1
  <2>. QED  BY <1>1, <2>1, RunEndIs, NoNul DEF WordEnd
<1>3. WordEnd \in place + 1 .. Len(source) + 1
  BY WordIs
<1>4. PICK p \in Nat : p = place
  BY <1>1
<1>5. PICK e \in Nat : e = WordEnd
  BY <1>1, <1>3
<1>6. e >= p + 1
  BY <1>1, <1>3, <1>4, <1>5
<1>7. e = p + 1 <=> Char(p + 1) \notin AlNum
  <2>1. e = p + 1 => Char(p + 1) \notin AlNum
    BY <1>2, <1>5
  <2>2. e # p + 1 => p + 1 \in p .. e - 1
    BY <1>6
  <2>. QED  BY <1>2, <1>4, <1>5, <2>1, <2>2
<1>8. Len(Word) = e - p /\ \A k \in 1 .. e - p : Word[k] = Low(Char(p + k - 1))
  <2>1. p <= e
    BY <1>6
  <2>. QED  BY <1>4, <1>5, <2>1, LoweredLow DEF Word
<1>9. Len(Word) = 1 <=> e = p + 1
  BY <1>8
<1>10. e = p + 1 => Word[1] = Lower[Char(p)]
  <2>1. e = p + 1 => 1 \in 1 .. e - p /\ p + 1 - 1 = p
    OBVIOUS
  <2>. QED  BY <1>1, <1>4, <1>8, <2>1 DEF Low
<1>11. e = p + 1 => ~ AtPlace
  BY <1>4, <1>5 DEF AtPlace
<1>12. ASSUME NEW W  PROVE Is(W) <=> Char(p + 1) \notin AlNum /\ Lower[Char(p)] \in W
  BY <1>7, <1>9, <1>10, <1>11 DEF Is
<1>. QED  BY <1>1, <1>4, <1>5, <1>7, <1>10, <1>11, <1>12

(* A single word is what it says. *)
LEMMA SingleWordSays ==
  ASSUME TokenInv, SingleWord
  PROVE  WordEnd = place + 1 /\ Says(place, place + 1, OneWord[Word[1]])
<1>1. AtWord /\ Is(DOMAIN OneWord)
  BY DEF SingleWord, Is
<1>2. PICK p \in Nat : p = place
  BY <1>1, IsIs
<1>3. PICK w : w = Lower[Char(p)]
  OBVIOUS
<1>4. /\ Char(p) \in Letters /\ WordEnd = p + 1 /\ Word[1] = w
      /\ w \in DOMAIN OneWord /\ Char(p + 1) \notin AlNum
  BY <1>1, <1>2, <1>3, IsIs
<1>5. Here(p, Alone(w))
  BY <1>3, <1>4, HereAlone
<1>6. Alone(w) \in Written /\ Alone(w).type = OneWord[w] /\ Alone(w).text = <<w>>
  BY Zenon, <1>4, WrittenIs DEF Alone
<1>7. PICK q \in Written : q = Alone(w)
  BY <1>6
<1>8. Here(p, q) /\ OneWord[w] = q.type
  BY Zenon, <1>5, <1>6, <1>7
<1>9. Len(q.text) = 1
  <2>1. q.text = <<w>>
    BY Zenon, <1>6, <1>7
  <2>. QED  BY <2>1
<1>10. (p + 1) - p = Len(q.text)
  BY <1>9
<1>11. Says(p, p + 1, OneWord[w])
  BY Zenon, <1>8, <1>10 DEF Says
<1>. QED  BY <1>2, <1>4, <1>11

(* So is what follows `on'. *)
LEMMA OnTriggerSays ==
  ASSUME TokenInv, OnTrigger
  PROVE  Says(place, TriggerEnd, Trigger[Lowered(WordEnd + 1, TriggerEnd)])
<1>1. AtWord /\ Is({"on"}) /\ Char(WordEnd) = SP
  BY Zenon DEF OnTrigger, AtTrigger, Is, SP
<1>2. PICK t \in DOMAIN Trigger : t = Lowered(WordEnd + 1, TriggerEnd)
  BY Zenon DEF OnTrigger, AtTrigger
<1>3. PICK p \in Nat : p = place
  BY <1>1, IsIs
<1>4. /\ Char(p) \in Letters /\ WordEnd = p + 1 /\ Lower[Char(p)] = "on" /\ TextOK
      /\ p \in 1 .. Len(source) /\ Len(source) \in Nat
  BY <1>1, <1>3, IsIs
<1>5. Char(p + 1) = SP
  BY Zenon, <1>1, <1>4
<1>6. p + 1 \in 1 .. Len(source)
  BY <1>4, <1>5, BlankIs, InText
<1>7. /\ TriggerEnd \in p + 2 .. Len(source) + 1 /\ Char(TriggerEnd) \notin AlNum \cup {"-"}
  <2>1. p + 2 \in 1 .. Len(source) + 1 /\ WordEnd + 1 = p + 2
    BY <1>4, <1>6
  <2>2. PICK i \in 1 .. Len(source) + 1 : i = p + 2
    BY <2>1
  <2>3. TriggerEnd = RunEnd(i, AlNum \cup {"-"})
    BY Zenon, <2>1, <2>2 DEF TriggerEnd
  <2>4. "NUL" \notin AlNum \cup {"-"}
    BY NoNul
  <2>5. /\ RunEnd(i, AlNum \cup {"-"}) \in i .. Len(source) + 1
        /\ Char(RunEnd(i, AlNum \cup {"-"})) \notin AlNum \cup {"-"}
    BY <1>4, <2>4, RunEndIs
  <2>. QED  BY Zenon, <2>2, <2>3, <2>5
<1>8. PICK j \in Nat : j = TriggerEnd
  BY <1>4, <1>7
<1>9. PICK i \in Nat : i = p + 2
  OBVIOUS
<1>10. i <= j /\ t = Lowered(i, j)
  <2>1. WordEnd + 1 = i
    BY <1>4, <1>9
  <2>. QED  BY <1>2, <1>4, <1>7, <1>8, <1>9, <2>1
<1>11. Len(t) \in Nat /\ \E S : t \in Seq(S)
  <2>1. Len(t) \in Nat /\ DOMAIN t = 1 .. Len(t)
    BY Triggers
  <2>2. t = [k \in 1 .. Len(t) |-> t[k]]
    <3>1. t = [k \in DOMAIN t |-> t[k]]
      BY <1>10 DEF Lowered
    <3>. QED  BY <2>1, <3>1
  <2>3. t \in Seq({t[k] : k \in 1 .. Len(t)})
    BY <2>1, <2>2
  <2>. QED  BY <2>1, <2>3
<1>12. j = i + Len(t) /\ Matches(i, t)
  BY <1>10, <1>11, LoweredMatches
<1>13. PICK q \in Written : q = BehindOn(t)
  BY WrittenIs
<1>14. Here(p, q) /\ j - p = Len(q.text)
  <2>1. Len(q.text) = 2 + Len(t)
    BY <1>4, <1>13, HereBehindOn
  <2>2. p + 2 + Len(t) = j
    BY <1>9, <1>12
  <2>3. Here(p, q)
    <3>1. Here(p, BehindOn(t)) <=>
              /\ Lower[Char(p)] = "on" /\ Char(p + 1) = SP /\ Matches(p + 2, t)
              /\ Char(p + 2 + Len(t)) \notin AlNum \cup {"-"}
      BY <1>4, HereBehindOn
    <3>2. Char(p + 2 + Len(t)) \notin AlNum \cup {"-"}
      BY Zenon, <1>7, <1>8, <2>2
    <3>. QED  BY Zenon, <1>4, <1>5, <1>9, <1>12, <1>13, <3>1, <3>2
  <2>4. j - p = 2 + Len(t)
    BY <1>9, <1>11, <1>12
  <2>. QED  BY <2>1, <2>3, <2>4
<1>15. q.type = Trigger[t]
  BY Zenon, <1>13 DEF BehindOn
<1>16. Says(p, j, Trigger[t])
  BY Zenon, <1>14, <1>15 DEF Says
<1>. QED  BY <1>2, <1>3, <1>8, <1>16

(* `mouse' stands for nothing else. *)
LEMMA Apart ==
  "mouse" \notin DOMAIN OneWord /\ "mouse" \notin DOMAIN GoesOn /\ "mouse" # "on"
<1>1. "mouse" \notin DOMAIN OneWord
  BY DEF OneWord
<1>2. DOMAIN GoesOn = {"switch", "reset", "pass", "reload", "at", "until", "other", "block"}
  BY Zenon DEF GoesOn
<1>3. "mouse" \notin DOMAIN GoesOn
  BY <1>2
<1>. QED  BY <1>1, <1>3

(* A word of letters, and no more, behind a blank. *)
LEMMA OneGroup ==
  ASSUME TextOK, NEW i \in 1 .. Len(source) + 1, NEW w \in Letters,
         Lowered(i, RunEnd(i, Letters)) = <<w>>
  PROVE  RunEnd(i, Letters) = i + 1 /\ Low(Char(i)) = w /\ Char(i + 1) \notin Letters
<1>1. Len(source) \in Nat /\ i \in Nat
  BY TextDomain
<1>2. RunEnd(i, Letters) \in i .. Len(source) + 1 /\ Char(RunEnd(i, Letters)) \notin Letters
  BY RunEndIs, NoNul
<1>3. PICK j \in Nat : j = RunEnd(i, Letters)
  BY <1>1, <1>2
<1>4. PICK u : u = <<w>>
  OBVIOUS
<1>5. PICK S : S = {w}
  OBVIOUS
<1>6. u \in Seq(S) /\ Len(u) = 1
  BY <1>4, <1>5
<1>7. i <= j /\ Lowered(i, j) = u
  BY <1>2, <1>3, <1>4
<1>8. j = i + 1 /\ Matches(i, u)
  BY <1>1, <1>6, <1>7, LoweredMatches
<1>9. Low(Char(i)) = w
  BY <1>1, <1>4, <1>8, MatchesFew
<1>. QED  BY <1>2, <1>3, <1>8, <1>9

(* One group of letters is what is compared with one word. *)
LEMMA GroupIs ==
  ASSUME TextOK, NEW i \in 1 .. Len(source) + 1, NEW w \in Letters,
         Low(Char(i)) = w, Char(i + 1) \notin Letters
  PROVE  RunEnd(i, Letters) = i + 1 /\ Lowered(i, RunEnd(i, Letters)) = <<w>>
<1>1. i \in Nat /\ Char(i) \in Letters
  BY LowIs, TextDomain
<1>2. PICK j \in Nat : j = i + 1
  BY <1>1
<1>3. RunEnd(i, Letters) = j
  <2>1. i <= j /\ \A k \in i .. j - 1 : k = i
    BY <1>1, <1>2
  <2>2. (\A k \in i .. j - 1 : Char(k) \in Letters) /\ Char(j) \notin Letters
    BY <1>1, <1>2, <2>1
  <2>3. "NUL" \notin Letters
    BY NoNul
  <2>. QED  BY <2>1, <2>2, <2>3, RunEndAt
<1>4. PICK u : u = <<w>>
  OBVIOUS
<1>5. PICK S : S = {w}
  OBVIOUS
<1>6. u \in Seq(S) /\ Len(u) = 1
  BY <1>4, <1>5
<1>7. Matches(i, u)
  BY <1>1, <1>4, MatchesFew
<1>8. Lowered(i, j) = u
  <2>1. i <= j /\ j = i + Len(u)
    BY <1>1, <1>2, <1>6
  <2>. QED  BY <1>1, <1>6, <1>7, <2>1, LoweredMatches
<1>. QED  BY <1>2, <1>3, <1>4, <1>8

(* What it takes to stand behind a phrase of the mouse but for one piece.  *)
LEMMA BehindMouseIs ==
  ASSUME TextOK, NEW p \in 1 .. Len(source)
  PROVE  BehindMouse(p + 3) <=>
           /\ p + 3 \in 1 .. Len(source) /\ Char(p + 3) \notin Letters
           /\ Low(Char(p)) = "mouse" /\ Char(p + 1) = SP
           /\ \E v \in DOMAIN MouseWord : \E d \in DOMAIN MouseWord[v] :
                /\ Low(Char(p + 2)) = v /\ Low(Char(p + 4)) = d /\ Char(p + 5) \notin Letters
<1>1. Len(source) \in Nat /\ DOMAIN source = 1 .. Len(source) /\ p \in Nat /\ p > 0
  BY TextDomain
<1>2. PICK i \in Nat : i = p + 3
  BY <1>1
<1>3. i > 3 /\ i - 3 = p /\ i + 1 = p + 4 /\ p + 5 = i + 1 + 1 /\ p <= i /\ i = p + 3
  BY <1>1, <1>2
<1>4. \A v : Lowered(p, i) = <<"mouse", SP, v>> <=>
              Low(Char(p)) = "mouse" /\ Char(p + 1) = SP /\ Low(Char(p + 2)) = v
  <2>. SUFFICES ASSUME NEW v
                PROVE  Lowered(p, i) = <<"mouse", SP, v>> <=>
                         Low(Char(p)) = "mouse" /\ Char(p + 1) = SP /\ Low(Char(p + 2)) = v
    OBVIOUS
  <2>1. PICK u : u = <<"mouse", SP, v>>
    OBVIOUS
  <2>2. PICK S : S = {"mouse", SP, v}
    OBVIOUS
  <2>3. u \in Seq(S) /\ Len(u) = 3
    BY <2>1, <2>2
  <2>4. p <= i /\ i = p + Len(u)
    BY <1>3, <2>3
  <2>6. Lowered(p, i) = u <=> Matches(p, u)
    BY <1>1, <2>3, <2>4, LoweredMatches
  <2>5. Matches(p, u) <=> Low(Char(p)) = "mouse" /\ Low(Char(p + 1)) = SP /\ Low(Char(p + 2)) = v
    BY <1>1, <2>1, MatchesFew
  <2>. QED  BY Zenon, <2>1, <2>5, <2>6, BlankHere
<1>5. ASSUME i \in 1 .. Len(source), NEW d \in Letters
      PROVE  Lowered(i + 1, RunEnd(i + 1, Letters)) = <<d>> <=>
               Low(Char(i + 1)) = d /\ Char(i + 1 + 1) \notin Letters
  <2>1. PICK j \in 1 .. Len(source) + 1 : j = i + 1
    BY <1>1, <1>5
  <2>2. Lowered(j, RunEnd(j, Letters)) = <<d>> <=> Low(Char(j)) = d /\ Char(j + 1) \notin Letters
    BY OneGroup, GroupIs
  <2>. QED  BY Zenon, <2>1, <2>2
<1>6. \A v \in DOMAIN MouseWord : \A d \in DOMAIN MouseWord[v] : d \in Letters
  BY WordsAre
<1>7. BehindMouse(i) <=>
        /\ i \in 1 .. Len(source) /\ i > 3 /\ source[i] \notin Letters
        /\ \E v \in DOMAIN MouseWord : \E d \in DOMAIN MouseWord[v] :
             /\ Lowered(i - 3, i) = <<"mouse", SP, v>>
             /\ Lowered(i + 1, RunEnd(i + 1, Letters)) = <<d>>
  BY Zenon, <1>1 DEF BehindMouse, SP
<1>8. i \in 1 .. Len(source) => source[i] = Char(i)
  BY TextDomain
<1>9. BehindMouse(i) <=>
        /\ i \in 1 .. Len(source) /\ Char(i) \notin Letters
        /\ Low(Char(p)) = "mouse" /\ Char(p + 1) = SP
        /\ \E v \in DOMAIN MouseWord : \E d \in DOMAIN MouseWord[v] :
             /\ Low(Char(p + 2)) = v /\ Low(Char(i + 1)) = d /\ Char(i + 1 + 1) \notin Letters
  BY Zenon, <1>3, <1>4, <1>5, <1>6, <1>7, <1>8
<1>. QED  BY Zenon, <1>3, <1>9

(* Only what begins with `on' is an operation. *)
LEMMA OnXIs ==
  /\ DOMAIN OnX = {"OPERATION_PRESS", "OPERATION_CLICK", "OPERATION_HOLD",
                   "OPERATION_DOUBLE_CLICK", "OPERATION_RELEASE"}
  /\ "IDENTIFIER" \notin DOMAIN OnX
  /\ \A w \in DOMAIN OneWord : OneWord[w] \notin DOMAIN OnX
  /\ \A v \in DOMAIN MouseWord : \A d \in DOMAIN MouseWord[v] : MouseWord[v][d] \notin DOMAIN OnX
  /\ \A w \in DOMAIN GoesOn : GoesOn[w].type \notin DOMAIN OnX
<1>1. DOMAIN OnX = {"OPERATION_PRESS", "OPERATION_CLICK", "OPERATION_HOLD",
                   "OPERATION_DOUBLE_CLICK", "OPERATION_RELEASE"}
  BY DEF OnX
<1>2. \A w \in DOMAIN OneWord : OneWord[w] \notin DOMAIN OnX
  <2>. DEFINE S == {"ACTION_PRESS", "ACTION_RELEASE", "ACTION_CLICK", "ACTION_WAIT", "ACTION_TOGGLE",
                    "ACTION_LEAVE", "ACTION_TYPE", "ACTION_HOME", "ACTION_NOTHING",
                    "ACTION_BOOTLOADER", "PARAMETER_QUICKLY", "PARAMETER_SLOWLY",
                    "PARAMETER_REPEATEDLY", "PARAMETER_TIME_MS", "PARAMETER_TIME_SEC",
                    "PARAMETER_TIME_MIN"}
  <2>1. \A w \in DOMAIN OneWord : OneWord[w] \in S
    BY DEF OneWord
  <2>2. S \cap DOMAIN OnX = {}
    BY <1>1
  <2>. QED  BY Zenon, <2>1, <2>2
<1>3. \A v \in DOMAIN MouseWord : \A d \in DOMAIN MouseWord[v] : MouseWord[v][d] \notin DOMAIN OnX
  <2>. DEFINE S == {"ACTION_MOUSE_MOVE_UP", "ACTION_MOUSE_MOVE_DOWN", "ACTION_MOUSE_MOVE_LEFT",
                    "ACTION_MOUSE_MOVE_RIGHT", "ACTION_MOUSE_SCROLL_UP", "ACTION_MOUSE_SCROLL_DOWN",
                    "ACTION_MOUSE_SCROLL_LEFT", "ACTION_MOUSE_SCROLL_RIGHT",
                    "ACTION_MOUSE_CLICK_LEFT", "ACTION_MOUSE_CLICK_RIGHT",
                    "ACTION_MOUSE_CLICK_CENTER", "ACTION_MOUSE_CLICK_BACKWARDS",
                    "ACTION_MOUSE_CLICK_FORWARDS"}
  <2>1. \A v \in DOMAIN MouseWord : \A d \in DOMAIN MouseWord[v] : MouseWord[v][d] \in S
    BY DEF MouseWord
  <2>2. S \cap DOMAIN OnX = {}
    BY <1>1
  <2>. QED  BY Zenon, <2>1, <2>2
<1>4. \A w \in DOMAIN GoesOn : GoesOn[w].type \notin DOMAIN OnX
  <2>. DEFINE G(b) ==
        [switch |-> Phrase(<<b, "to">>, "ACTION_SWITCH_TO"),
         reset  |-> Phrase(<<b, "keyboard">>, "ACTION_RESET_KEYBOARD"),
         pass   |-> Phrase(<<b, "through">>, "ACTION_PASS_THROUGH"),
         reload |-> Phrase(<<b, "key", b, "maps">>, "ACTION_RELOAD_KEY_MAPS"),
         at     |-> [Phrase(<<b, "human", b, "speed">>, "PARAMETER_AT_HUMAN_SPEED")
                       EXCEPT !.looks = 1],
         until  |-> Phrase(<<b, "released">>, "PARAMETER_UNTIL_RELEASED"),
         other  |-> Phrase(<<b, "keys", b, "fall", b, "through">>,
                           "TOP_OTHER_KEYS_FALL_THROUGH"),
         block  |-> Phrase(<<b, "other", b, "keys">>, "TOP_BLOCK_OTHER_KEYS")]
  <2>1. GoesOn = G(" ")
    BY Zenon DEF GoesOn
  <2>2. PICK b : GoesOn = G(b)
    <3>. HIDE DEF G
    <3>. QED  BY Zenon, <2>1
  <2>3. DOMAIN GoesOn = {"switch", "reset", "pass", "reload", "at", "until", "other", "block"}
    BY <2>2
  <2>4. /\ GoesOn["switch"].type = "ACTION_SWITCH_TO"
        /\ GoesOn["reset"].type  = "ACTION_RESET_KEYBOARD"
        /\ GoesOn["pass"].type   = "ACTION_PASS_THROUGH"
        /\ GoesOn["reload"].type = "ACTION_RELOAD_KEY_MAPS"
        /\ GoesOn["at"].type     = "PARAMETER_AT_HUMAN_SPEED"
        /\ GoesOn["until"].type  = "PARAMETER_UNTIL_RELEASED"
        /\ GoesOn["other"].type  = "TOP_OTHER_KEYS_FALL_THROUGH"
        /\ GoesOn["block"].type  = "TOP_BLOCK_OTHER_KEYS"
    BY <2>2 DEF Phrase
  <2>. HIDE DEF G
  <2>. QED  BY <2>3, <2>4, <1>1
<1>5. "IDENTIFIER" \notin DOMAIN OnX
  BY <1>1
<1>. QED  BY <1>1, <1>2, <1>3, <1>4, <1>5

(* And so is what follows `mouse', or something stands where a blank       *)
(* should: then it is no phrase at all, and what stands there is swallowed.*)
LEMMA MouseActionSays ==
  ASSUME TokenInv, NEW v \in DOMAIN MouseWord, NEW d \in DOMAIN MouseWord[v], AtMouse(v, d)
  PROVE  Says(place, LastEnd, MouseWord[v][d])
<1>1. /\ AtWord /\ Is({"mouse"}) /\ Char(WordEnd) = SP /\ VerbEnd <= Len(source)
      /\ Lowered(WordEnd + 1, VerbEnd) = <<v>> /\ Lowered(VerbEnd + 1, LastEnd) = <<d>>
  BY Zenon DEF AtMouse, AtVerb, Is, SP
<1>2. v \in Letters /\ d \in Letters
  BY WordsAre
<1>3. PICK p \in Nat : p = place
  BY <1>1, IsIs
<1>4. /\ Char(p) \in Letters /\ WordEnd = p + 1 /\ Lower[Char(p)] = "mouse" /\ TextOK
      /\ p \in 1 .. Len(source) /\ Len(source) \in Nat
  BY <1>1, <1>3, IsIs
<1>5. Char(p + 1) = SP
  BY Zenon, <1>1, <1>4
<1>6. p + 1 \in 1 .. Len(source)
  BY <1>4, <1>5, BlankIs, InText
<1>7. VerbEnd = p + 3 /\ Low(Char(p + 2)) = v /\ Char(p + 3) \notin Letters
  <2>1. p + 2 \in 1 .. Len(source) + 1 /\ WordEnd + 1 = p + 2
    BY <1>4, <1>6
  <2>2. PICK i \in 1 .. Len(source) + 1 : i = p + 2
    BY <2>1
  <2>3. VerbEnd = RunEnd(i, Letters)
    BY Zenon, <2>1, <2>2 DEF VerbEnd
  <2>4. Lowered(i, RunEnd(i, Letters)) = <<v>>
    BY Zenon, <1>1, <2>1, <2>2, <2>3
  <2>5. RunEnd(i, Letters) = i + 1 /\ Low(Char(i)) = v /\ Char(i + 1) \notin Letters
    BY <1>2, <1>4, <2>4, OneGroup
  <2>. QED  BY <2>2, <2>3, <2>5
<1>8. LastEnd = p + 5 /\ Low(Char(p + 4)) = d /\ Char(p + 5) \notin Letters
  <2>1. p + 4 \in 1 .. Len(source) + 1 /\ VerbEnd + 1 = p + 4
    BY <1>1, <1>4, <1>7
  <2>2. PICK i \in 1 .. Len(source) + 1 : i = p + 4
    BY <2>1
  <2>3. LastEnd = RunEnd(i, Letters)
    BY Zenon, <2>1, <2>2 DEF LastEnd
  <2>4. Lowered(i, RunEnd(i, Letters)) = <<d>>
    BY Zenon, <1>1, <2>1, <2>2, <2>3
  <2>5. RunEnd(i, Letters) = i + 1 /\ Low(Char(i)) = d /\ Char(i + 1) \notin Letters
    BY <1>2, <1>4, <2>4, OneGroup
  <2>. QED  BY <2>2, <2>3, <2>5
<1>9. PICK type : type = MouseWord[v][d]
  OBVIOUS
<1>10. CASE Char(p + 3) = SP
  <2>1. PICK q \in Written : q = OfMouse(v, d)
    BY WrittenIs
  <2>2. Here(p, OfMouse(v, d)) /\ Len(OfMouse(v, d).text) = 5
    BY <1>4, <1>5, <1>7, <1>8, <1>10, HereOfMouse
  <2>3. p + 5 - p = 5
    OBVIOUS
  <2>4. Here(p, q) /\ (p + 5) - p = Len(q.text)
    <3>1. Here(p, q)
      BY Zenon, <2>1, <2>2
    <3>2. Len(q.text) = 5
      BY Zenon, <2>1, <2>2
    <3>. QED  BY <2>3, <3>1, <3>2
  <2>5. q.type = type
    BY Zenon, <1>9, <2>1 DEF OfMouse
  <2>6. Says(p, p + 5, type)
    BY Zenon, <2>4, <2>5 DEF Says
  <2>. QED  BY Zenon, <1>3, <1>8, <1>9, <2>6
<1>11. CASE Char(p + 3) # SP
  <2>1. ASSUME NEW q \in Written, Here(p, q)  PROVE FALSE
    <3>1. CASE \E w \in DOMAIN OneWord : q = Alone(w)
      BY <1>4, <2>1, <3>1, HereAlone, Apart
    <3>2. CASE \E t \in DOMAIN Trigger : q = BehindOn(t)
      <4>1. PICK t \in DOMAIN Trigger : q = BehindOn(t)
        BY <3>2
      <4>2. Lower[Char(p)] = "on"
        BY <1>4, <2>1, <4>1, HereBehindOn
      <4>. QED  BY <1>4, <4>2, Apart
    <3>3. CASE \E x \in DOMAIN MouseWord : \E y \in DOMAIN MouseWord[x] : q = OfMouse(x, y)
      BY <1>4, <1>11, <2>1, <3>3, HereOfMouse
    <3>4. CASE \E w \in DOMAIN GoesOn \ {"at"} : q = Long(w)
      <4>1. PICK w \in DOMAIN GoesOn \ {"at"} : q = Long(w)
        BY <3>4
      <4>2. Lower[Char(p)] = w
        BY <1>4, <2>1, <4>1, HereLong
      <4>. QED  BY <1>4, <4>1, <4>2, Apart
    <3>. QED  BY <3>1, <3>2, <3>3, <3>4, WrittenIs
  <2>3. BehindMouse(p + 3)
    <3>1. p + 3 \in 1 .. Len(source)
      BY <1>1, <1>4, <1>7
    <3>2. Low(Char(p)) = "mouse"
      BY <1>4 DEF Low
    <3>. QED  BY <1>4, <1>5, <1>7, <1>8, <3>1, <3>2, BehindMouseIs
  <2>4. (p + 5) - p = 5
    OBVIOUS
  <2>5. type \notin DOMAIN OnX
    BY <1>9, OnXIs
  <2>6. Says(p, p + 5, type)
    BY Zenon, <2>1, <2>3, <2>4, <2>5 DEF Says
  <2>. QED  BY Zenon, <1>3, <1>8, <1>9, <2>6
<1>. QED  BY <1>10, <1>11

(* And what goes on as it should. *)
LEMMA LongPhraseSays ==
  ASSUME TokenInv, LongPhrase
  PROVE  Says(place, WordEnd + Len(GoesOn[Word[1]].rest), GoesOn[Word[1]].type)
<1>1. /\ AtWord /\ Is(DOMAIN GoesOn)
      /\ Lowered(WordEnd, WordEnd + GoesOn[Word[1]].looks) = GoesOn[Word[1]].rest
  BY Zenon DEF LongPhrase, Continues, Is
<1>2. PICK p \in Nat : p = place
  BY <1>1, IsIs
<1>3. PICK w : w = Lower[Char(p)]
  OBVIOUS
<1>4. /\ Char(p) \in Letters /\ WordEnd = p + 1 /\ Word[1] = w /\ w \in DOMAIN GoesOn
  BY <1>1, <1>2, <1>3, IsIs
<1>5. PICK r : r = GoesOn[w].rest
  OBVIOUS
<1>6. PICK S : r \in Seq(S)
  BY <1>4, <1>5, RestIs
<1>7. PICK n \in Nat : n = Len(r)
  BY <1>6, LenProperties
<1>8. n > 1 /\ GoesOn[w].looks = IF w = "at" THEN 1 ELSE n
  BY <1>4, <1>5, <1>7, Phrases
<1>9. PICK m \in Nat : m = GoesOn[w].looks
  BY <1>8
<1>10. PICK i \in Nat : i = p + 1
  OBVIOUS
<1>11. PICK j \in Nat : j = i + m
  OBVIOUS
<1>12. Lowered(i, j) = r
  BY Zenon, <1>1, <1>4, <1>5, <1>9, <1>10, <1>11
<1>13. j = i + n /\ Matches(i, r)
  <2>1. i <= j
    BY <1>11
  <2>. QED  BY <1>6, <1>7, <1>12, <2>1, LoweredMatches
<1>14. w # "at"
  BY <1>8, <1>9, <1>11, <1>13
<1>15. PICK q \in Written : q = Long(w)
  BY <1>4, <1>14, WrittenIs
<1>16. Here(p, q) /\ Len(q.text) = 1 + n
  <2>1. /\ Len(Long(w).text) = 1 + Len(GoesOn[w].rest)
        /\ Here(p, Long(w)) <=> Lower[Char(p)] = w /\ Matches(p + 1, GoesOn[w].rest)
    BY <1>4, HereLong
  <2>. QED  BY Zenon, <1>3, <1>5, <1>7, <1>10, <1>13, <1>15, <2>1
<1>17. j - p = Len(q.text)
  BY <1>10, <1>13, <1>16
<1>18. PICK type : type = GoesOn[w].type
  OBVIOUS
<1>19. q.type = type
  BY Zenon, <1>15, <1>18 DEF Long
<1>20. Says(p, j, type)
  BY Zenon, <1>16, <1>17, <1>19 DEF Says
<1>21. j = WordEnd + Len(GoesOn[Word[1]].rest) /\ type = GoesOn[Word[1]].type
  BY Zenon, <1>4, <1>5, <1>7, <1>10, <1>13, <1>18
<1>. QED  BY Zenon, <1>2, <1>20, <1>21

(* Where there is no keyword, no phrase stands. *)
LEMMA IdentifierSays ==
  ASSUME TokenInv, NoKeyword
  PROVE  Says(place, WordEnd, "IDENTIFIER")
<1>1. /\ AtWord /\ ~ AtTrigger /\ ~ Is(DOMAIN OneWord) /\ ~ Continues
  BY Zenon DEF NoKeyword
<1>2. \A v \in DOMAIN MouseWord : \A d \in DOMAIN MouseWord[v] : VerbEnd <= Len(source) => ~ AtMouse(v, d)
  BY Zenon DEF NoKeyword, AtMouse
<1>3. PICK p \in Nat : p = place
  BY <1>1, IsIs
<1>4. /\ Char(p) \in Letters /\ TextOK /\ p \in 1 .. Len(source) /\ Len(source) \in Nat
      /\ Char(p + 1) \notin AlNum => WordEnd = p + 1 /\ Word[1] = Lower[Char(p)]
      /\ \A W : Is(W) <=> Char(p + 1) \notin AlNum /\ Lower[Char(p)] \in W
  BY <1>1, <1>3, IsIs
<1>5. Char(p + 1) = SP => p + 1 \in 1 .. Len(source) /\ p + 2 \in 1 .. Len(source) + 1
  <2>1. Char(p + 1) = SP => p + 1 \in 1 .. Len(source)
    BY <1>4, BlankIs, InText
  <2>. QED  BY <1>4, <2>1
<1>6. ASSUME NEW w \in DOMAIN OneWord, Here(p, Alone(w))  PROVE FALSE
  BY <1>1, <1>4, <1>6, HereAlone
<1>7. ASSUME NEW t \in DOMAIN Trigger, Here(p, BehindOn(t))  PROVE FALSE
  <2>1. /\ Lower[Char(p)] = "on" /\ Char(p + 1) = SP /\ Matches(p + 2, t) /\ Len(t) \in Nat
        /\ Char(p + 2 + Len(t)) \notin AlNum \cup {"-"}
    BY <1>4, <1>7, HereBehindOn
  <2>2. WordEnd = p + 1 /\ Is({"on"})
    BY <1>4, <2>1, BlankIs
  <2>3. PICK i \in 1 .. Len(source) + 1 : i = p + 2
    BY <1>5, <2>1
  <2>4. PICK n \in Nat : n = Len(t)
    BY <2>1
  <2>5. PICK j \in Nat : j = i + n
    BY <2>3
  <2>6. \A k \in i .. j - 1 : Char(k) \in AlNum \cup {"-"}
    <3>. SUFFICES ASSUME NEW k \in i .. j - 1  PROVE Char(k) \in AlNum \cup {"-"}
      OBVIOUS
    <3>1. PICK o \in 1 .. n : k = i + o - 1
      <4>1. k - i + 1 \in 1 .. n /\ k = i + (k - i + 1) - 1
        BY <2>5
      <4>. QED  BY <4>1
    <3>2. Low(Char(i + o - 1)) = t[o]
      BY <2>1, <2>3, <2>4 DEF Matches
    <3>3. t[o] \in AlNum \cup {"-"}
      BY <2>4, Triggers
    <3>. QED  BY <3>1, <3>2, <3>3, LowIs
  <2>7. Char(j) \notin AlNum \cup {"-"}
    BY Zenon, <2>1, <2>3, <2>4, <2>5
  <2>8. RunEnd(i, AlNum \cup {"-"}) = j
    <3>1. i <= j /\ "NUL" \notin AlNum \cup {"-"}
      BY <2>3, <2>5, NoNul
    <3>2. PICK pieces : pieces = AlNum \cup {"-"}
      OBVIOUS
    <3>. QED  BY <1>4, <2>6, <2>7, <3>1, <3>2, RunEndAt
  <2>9. i \in Nat /\ i <= j
    BY <2>3, <2>5
  <2>10. Lowered(i, j) = t
    <3>1. \E S : t \in Seq(S)
      BY <1>4, TriggerSeq
    <3>. QED  BY <2>1, <2>3, <2>4, <2>5, <2>9, <3>1, LoweredMatches
  <2>11. WordEnd + 1 = i /\ TriggerEnd = j
    <3>1. WordEnd + 1 = i
      BY <2>2, <2>3
    <3>. QED  BY Zenon, <2>8, <3>1 DEF TriggerEnd
  <2>12. Char(WordEnd) = " "
    BY Zenon, <2>1, <2>2 DEF SP
  <2>13. AtTrigger
    BY Zenon, <2>2, <2>10, <2>11, <2>12 DEF AtTrigger
  <2>. QED  BY <1>1, <2>13
<1>14. ASSUME NEW v \in DOMAIN MouseWord, NEW d \in DOMAIN MouseWord[v],
              Lower[Char(p)] = "mouse", Char(p + 1) = SP, Low(Char(p + 2)) = v,
              p + 3 \in 1 .. Len(source), Char(p + 3) \notin Letters,
              Low(Char(p + 4)) = d, Char(p + 5) \notin Letters
       PROVE  FALSE
  <2>2. WordEnd = p + 1 /\ Is({"mouse"})
    BY <1>4, <1>14, BlankIs
  <2>3. v \in Letters /\ d \in Letters
    BY WordsAre
  <2>4. PICK i \in 1 .. Len(source) + 1 : i = p + 2
    BY <1>5, <1>14
  <2>5. p + 3 \in 1 .. Len(source)
    BY <1>14
  <2>6. PICK j \in 1 .. Len(source) + 1 : j = p + 4
    BY <2>5
  <2>7. RunEnd(i, Letters) = i + 1 /\ Lowered(i, RunEnd(i, Letters)) = <<v>>
    <3>1. Low(Char(i)) = v /\ Char(i + 1) \notin Letters
      BY <1>14, <2>4
    <3>. QED  BY <1>4, <2>3, <3>1, GroupIs
  <2>8. RunEnd(j, Letters) = j + 1 /\ Lowered(j, RunEnd(j, Letters)) = <<d>>
    <3>1. Low(Char(j)) = d /\ Char(j + 1) \notin Letters
      BY <1>14, <2>6
    <3>. QED  BY <1>4, <2>3, <3>1, GroupIs
  <2>9. WordEnd + 1 = i /\ VerbEnd = p + 3
    <3>1. WordEnd + 1 = i
      BY <2>2, <2>4
    <3>2. VerbEnd = i + 1
      BY Zenon, <2>7, <3>1 DEF VerbEnd
    <3>. QED  BY <2>4, <3>1, <3>2
  <2>10. VerbEnd + 1 = j /\ VerbEnd <= Len(source)
    BY <2>5, <2>6, <2>9, <1>4
  <2>11. Char(WordEnd) = " "
    BY Zenon, <1>14, <2>2 DEF SP
  <2>12. AtVerb(v)
    BY Zenon, <2>2, <2>7, <2>9, <2>11 DEF AtVerb, VerbEnd
  <2>13. AtMouse(v, d)
    BY Zenon, <2>8, <2>10, <2>12 DEF AtMouse, LastEnd
  <2>. QED  BY <1>2, <2>10, <2>13
<1>8. ASSUME NEW v \in DOMAIN MouseWord, NEW d \in DOMAIN MouseWord[v], Here(p, OfMouse(v, d))
      PROVE  FALSE
  <2>1. /\ Lower[Char(p)] = "mouse" /\ Char(p + 1) = SP /\ Low(Char(p + 2)) = v
        /\ Char(p + 3) = SP /\ Low(Char(p + 4)) = d /\ Char(p + 5) \notin Letters
    BY <1>4, <1>8, HereOfMouse
  <2>2. p + 3 \in 1 .. Len(source) /\ Char(p + 3) \notin Letters
    BY <1>4, <2>1, BlankIs, InText
  <2>. QED  BY <1>14, <2>1, <2>2
<1>9. ASSUME NEW w \in DOMAIN GoesOn \ {"at"}, Here(p, Long(w))  PROVE FALSE
  <2>1. PICK r : r = GoesOn[w].rest
    OBVIOUS
  <2>2. /\ Lower[Char(p)] = w /\ Matches(p + 1, r) /\ Len(r) \in Nat
    BY <1>4, <1>9, <2>1, HereLong
  <2>3. PICK n \in Nat : n = Len(r)
    BY <2>2
  <2>4. n > 1 /\ GoesOn[w].looks = n /\ r[1] = SP /\ \E S : r \in Seq(S)
    BY <2>1, <2>3, Phrases, RestIs
  <2>5. PICK i \in Nat : i = p + 1
    OBVIOUS
  <2>6. Char(i) = SP
    <3>1. 1 \in 1 .. n /\ i + 1 - 1 = i
      BY <2>4
    <3>2. Low(Char(i)) = SP
      BY <2>2, <2>3, <2>4, <2>5, <3>1 DEF Matches
    <3>. QED  BY <3>2, BlankHere
  <2>7. WordEnd = i /\ Is(DOMAIN GoesOn) /\ Word[1] = w
    BY <1>4, <2>2, <2>5, <2>6, BlankIs
  <2>8. PICK j \in Nat : j = i + n
    OBVIOUS
  <2>9. Lowered(i, j) = r
    <3>1. i <= j
      BY <2>8
    <3>. QED  BY <2>2, <2>3, <2>4, <2>5, <2>8, <3>1, LoweredMatches
  <2>10. Continues
    BY Zenon, <2>1, <2>4, <2>7, <2>8, <2>9 DEF Continues
  <2>. QED  BY <1>1, <2>10
<1>10. ~ \E q \in Written : Here(p, q)
  BY <1>6, <1>7, <1>8, <1>9, WrittenIs
<1>11. WordEnd = RunEnd(p, AlNum)
  BY Zenon, <1>3 DEF WordEnd
<1>13. ~ BehindMouse(p + 3)
  <2>. SUFFICES ASSUME BehindMouse(p + 3)  PROVE FALSE
    OBVIOUS
  <2>1. /\ p + 3 \in 1 .. Len(source) /\ Char(p + 3) \notin Letters
        /\ Low(Char(p)) = "mouse" /\ Char(p + 1) = SP
    BY <1>4, BehindMouseIs
  <2>2. PICK v \in DOMAIN MouseWord : \E d \in DOMAIN MouseWord[v] :
          Low(Char(p + 2)) = v /\ Low(Char(p + 4)) = d /\ Char(p + 5) \notin Letters
    BY <1>4, BehindMouseIs
  <2>3. PICK d \in DOMAIN MouseWord[v] :
          Low(Char(p + 2)) = v /\ Low(Char(p + 4)) = d /\ Char(p + 5) \notin Letters
    BY <2>2
  <2>. QED  BY <1>4, <1>14, <2>1, <2>3 DEF Low
<1>12. Says(p, WordEnd, "IDENTIFIER")
  BY Zenon, <1>10, <1>11, <1>13 DEF Says
<1>. QED  BY <1>3, <1>12

(* What a token says depends on nothing but the text. *)
LEMMA SaysUnchanged ==
  ASSUME UNCHANGED source
  PROVE  /\ \A p, j, type : (Says(p, j, type)' <=> Says(p, j, type)) /\ (Cut(p, j, type)' <=> Cut(p, j, type))
         /\ \A i : BehindMouse(i)' <=> BehindMouse(i)
<1>1. \A i : Char(i)' = Char(i)
  BY DEF Char
<1>2. \A i, j : Lowered(i, j)' = Lowered(i, j)
  BY <1>1 DEF Lowered
<1>3. \A i, pieces : RunEnd(i, pieces)' = RunEnd(i, pieces)
  <2>. SUFFICES ASSUME NEW i, NEW pieces  PROVE RunEnd(i, pieces)' = RunEnd(i, pieces)
    OBVIOUS
  <2>1. {j \in i .. Len(source) + 1 : Char(j) \notin pieces}' =
          {j \in i .. Len(source) + 1 : Char(j) \notin pieces}
    BY <1>1
  <2>. QED  BY Zenon, <2>1 DEF RunEnd
<1>4. \A p, q : Here(p, q)' <=> Here(p, q)
  BY Zenon, <1>1, <1>2 DEF Here
<1>5. \A i : BehindMouse(i)' <=> BehindMouse(i)
  <2>. SUFFICES ASSUME NEW i  PROVE BehindMouse(i)' <=> BehindMouse(i)
    OBVIOUS
  <2>1. RunEnd(i + 1, Letters)' = RunEnd(i + 1, Letters)
    BY <1>3
  <2>2. Lowered(i - 3, i)' = Lowered(i - 3, i)
    BY <1>2
  <2>3. PICK e : e = RunEnd(i + 1, Letters)
    OBVIOUS
  <2>4. Lowered(i + 1, e)' = Lowered(i + 1, e)
    BY <1>2
  <2>5. Lowered(i + 1, RunEnd(i + 1, Letters))' = Lowered(i + 1, e)
    BY Zenon, <1>1, <2>1, <2>3, <2>4 DEF Lowered
  <2>. QED  BY Zenon, <2>2, <2>3, <2>5 DEF BehindMouse
<1>6. \A p, j, type : Cut(p, j, type)' <=> Cut(p, j, type)
  <2>1. \A p, j : Quoted(p, j)' <=> Quoted(p, j)
    BY <1>1 DEF Quoted
  <2>2. \A p, j : (\A i \in p .. j - 1 : Char(i) \in AlNum \cup DOMAIN Symbol)' <=>
                 \A i \in p .. j - 1 : Char(i) \in AlNum \cup DOMAIN Symbol
    BY <1>1
  <2>3. ASSUME NEW p, NEW j, NEW type  PROVE Cut(p, j, type)' <=> Cut(p, j, type)
    <3>1. CASE type = "STRING_LIT"
      BY <2>1, <3>1 DEF Cut
    <3>2. CASE type # "STRING_LIT" /\ type \in Literal
      BY <1>1, <2>2, <3>2 DEF Cut
    <3>3. CASE type # "STRING_LIT" /\ type \notin Literal
      BY <1>1, <3>3 DEF Cut
    <3>. QED  BY <3>1, <3>2, <3>3
  <2>. QED  BY <2>3
<1>7. \A p, j, type : Says(p, j, type)' <=> Says(p, j, type)
  <2>. SUFFICES ASSUME NEW p, NEW j, NEW type  PROVE Says(p, j, type)' <=> Says(p, j, type)
    OBVIOUS
  <2>1. (\E q \in Written : Here(p, q))' <=> \E q \in Written : Here(p, q)
    BY Zenon, <1>4
  <2>2. (\E q \in Written : Here(p, q) /\ type = q.type /\ j - p = Len(q.text))' <=>
          \E q \in Written : Here(p, q) /\ type = q.type /\ j - p = Len(q.text)
    BY Zenon, <1>4
  <2>3. BehindMouse(p + 3)' <=> BehindMouse(p + 3)
    BY Zenon, <1>5
  <2>4. RunEnd(p, AlNum)' = RunEnd(p, AlNum)
    BY Zenon, <1>3
  <2>. QED  BY Zenon, <2>1, <2>2, <2>3, <2>4 DEF Says
<1>. QED  BY Zenon, <1>5, <1>6, <1>7

(* The first piece of every token is the one at its start, and what the    *)
(* token says is what is written there.                                    *)
LEMMA TokenSays ==
  ASSUME TokenInv, SaysInv, Looking, NEW type, NEW j \in place + 1 .. Len(source) + 1,
         Token(j, type), Says(place, j, type), Cut(place, j, type)
  PROVE  SaysInv'
<1>. DEFINE text == SubSeq(source, place, j - 1)
            token == [type |-> type, text |-> text, val |-> ValueOf(text),
                      start |-> place, line |-> line_number]
            n == Len(tokens) + 1
<1>1. tokens' = Append(tokens, token) /\ UNCHANGED source
  BY DEF Token
<1>2. PICK S : tokens \in Seq(S)
  BY DEF TokenInv, PlacesOK
<1>3. /\ place \in 1 .. Len(source) /\ Len(source) \in Nat /\ source \in Seq(STRING)
      /\ DOMAIN source = 1 .. Len(source) /\ Char(place) = source[place]
  BY TextDomain DEF TokenInv, PlacesOK, Looking, TextOK
<1>4. Len(text) = j - place /\ Head(text) = source[place]
  BY <1>3
<1>5. Stop(token) = j /\ token.type = type /\ token.start = place /\ Head(token.text) = Char(place)
  BY <1>3, <1>4 DEF Stop
<1>. HIDE DEF token, text
<1>6. /\ n \in Nat /\ DOMAIN tokens = 1 .. n - 1 /\ DOMAIN tokens' = 1 .. n
      /\ tokens'[n] = token /\ \A k \in 1 .. n - 1 : tokens'[k] = tokens[k]
  <2>1. tokens \in Seq(S \cup {token})
    BY <1>2
  <2>. QED  BY <1>1, <2>1
<1>. HIDE DEF n
<1>7. \A p, i, y : (Says(p, i, y)' <=> Says(p, i, y)) /\ (Cut(p, i, y)' <=> Cut(p, i, y))
  BY <1>1, SaysUnchanged
<1>8. \A i : Char(i)' = Char(i)
  BY <1>1 DEF Char
<1>9. ASSUME NEW k \in DOMAIN tokens', NEW p, NEW i, NEW y, NEW c,
             p = tokens'[k].start, i = Stop(tokens'[k]), y = tokens'[k].type, c = Head(tokens'[k].text)
      PROVE  (c = Char(p) /\ Says(p, i, y) /\ Cut(p, i, y))'
  <2>1. c = Char(p) /\ Says(p, i, y) /\ Cut(p, i, y)
    <3>1. CASE k = n
      BY <1>5, <1>6, <1>9, <3>1
    <3>2. CASE k # n
      <4>1. k \in DOMAIN tokens /\ tokens'[k] = tokens[k]
        BY <1>6, <3>2
      <4>. QED  BY Zenon, <1>9, <4>1 DEF SaysInv
    <3>. QED  BY <3>1, <3>2
  <2>2. Char(p)' = Char(p) /\ Says(p, i, y)' /\ Cut(p, i, y)'
    BY <1>7, <1>8, <2>1
  <2>. QED  BY <2>1, <2>2
<1>10. \A r : Stop(r)' = Stop(r)
  BY Zenon DEF Stop
<1>. QED  BY Zenon, <1>9, <1>10 DEF SaysInv, Stop

(* Nothing is said of what is a literal. *)
LEMMA LiteralSays ==
  ASSUME NEW type \in Literal  PROVE \A p, j : Says(p, j, type)
BY Zenon DEF Says

LEMMA Literals ==
  /\ {"STRING_LIT", "NUM_LIT", "HEX_LIT", "ROW_LIT", "KEY_LIT"} \subseteq Literal
  /\ \A c \in DOMAIN Symbol : Symbol[c] \in Literal
BY Zenon DEF Literal

LEMMA SaysStays ==
  ASSUME SaysInv, UNCHANGED <<source, tokens>>  PROVE SaysInv'
<1>1. \A p, i, y : (Says(p, i, y)' <=> Says(p, i, y)) /\ (Cut(p, i, y)' <=> Cut(p, i, y))
  BY SaysUnchanged
<1>2. \A i : Char(i)' = Char(i)
  BY DEF Char
<1>3. ASSUME NEW k \in DOMAIN tokens', NEW p, NEW i, NEW y, NEW c,
             p = tokens'[k].start, i = Stop(tokens'[k]), y = tokens'[k].type, c = Head(tokens'[k].text)
      PROVE  (c = Char(p) /\ Says(p, i, y) /\ Cut(p, i, y))'
  <2>1. k \in DOMAIN tokens /\ tokens' = tokens
    OBVIOUS
  <2>2. c = Char(p) /\ Says(p, i, y) /\ Cut(p, i, y)
    BY Zenon, <1>3, <2>1 DEF SaysInv
  <2>3. Char(p)' = Char(p) /\ Says(p, i, y)' /\ Cut(p, i, y)'
    BY <1>1, <1>2, <2>2
  <2>. QED  BY <2>2, <2>3
<1>. QED  BY Zenon, <1>3 DEF SaysInv, Stop

LEMMA LiteralIs ==
  /\ DOMAIN Symbol = {",", "+", ":"}
  /\ Literal = {"STRING_LIT", "NUM_LIT", "HEX_LIT", "ROW_LIT", "KEY_LIT",
                "SYM_COMMA", "SYM_PLUS", "SYM_COLON"}
<1>1. DOMAIN Symbol = {",", "+", ":"}
  BY DEF Symbol
<1>2. Symbol[","] = "SYM_COMMA" /\ Symbol["+"] = "SYM_PLUS" /\ Symbol[":"] = "SYM_COLON"
  BY DEF Symbol
<1>3. {Symbol[c] : c \in DOMAIN Symbol} = {"SYM_COMMA", "SYM_PLUS", "SYM_COLON"}
  BY <1>1, <1>2
<1>. QED  BY <1>1, <1>3 DEF Literal

(* No word is a literal. *)
LEMMA NoLiterals ==
  /\ "IDENTIFIER" \notin Literal
  /\ \A w \in DOMAIN OneWord : OneWord[w] \notin Literal
  /\ \A t \in DOMAIN Trigger : Trigger[t] \notin Literal
  /\ \A v \in DOMAIN MouseWord : \A d \in DOMAIN MouseWord[v] : MouseWord[v][d] \notin Literal
  /\ \A w \in DOMAIN GoesOn : GoesOn[w].type \notin Literal
<1>1. \A w \in DOMAIN OneWord : OneWord[w] \notin Literal
  <2>. DEFINE S == {"ACTION_PRESS", "ACTION_RELEASE", "ACTION_CLICK", "ACTION_WAIT", "ACTION_TOGGLE",
                    "ACTION_LEAVE", "ACTION_TYPE", "ACTION_HOME", "ACTION_NOTHING",
                    "ACTION_BOOTLOADER", "PARAMETER_QUICKLY", "PARAMETER_SLOWLY",
                    "PARAMETER_REPEATEDLY", "PARAMETER_TIME_MS", "PARAMETER_TIME_SEC",
                    "PARAMETER_TIME_MIN"}
  <2>1. \A w \in DOMAIN OneWord : OneWord[w] \in S
    BY DEF OneWord
  <2>2. S \cap Literal = {}
    BY LiteralIs
  <2>. QED  BY Zenon, <2>1, <2>2
<1>2. \A t \in DOMAIN Trigger : Trigger[t] \notin Literal
  <2>. DEFINE S == {"OPERATION_PRESS", "OPERATION_CLICK", "OPERATION_HOLD", "OPERATION_RELEASE"}
  <2>3. \A w \in DOMAIN OnWord : OnWord[w] \in S /\ <<w>>[1] = w
    BY DEF OnWord
  <2>4. S \cap Literal = {}
    BY LiteralIs
  <2>1. \A w \in DOMAIN OnWord : OnWord[w] \notin Literal /\ <<w>>[1] = w
    BY <2>3, <2>4
  <2>2. \A t \in DOMAIN Trigger :
          Trigger[t] = "OPERATION_DOUBLE_CLICK" \/ \E w \in DOMAIN OnWord : Trigger[t] = OnWord[w]
    <3>1. \A t \in DOMAIN Trigger : Trigger[t] = IF t = DoubleClick THEN "OPERATION_DOUBLE_CLICK" ELSE OnWord[t[1]]
      BY DEF Trigger
    <3>. QED  BY <2>1, <3>1, Triggers
  <2>. QED  BY <2>1, <2>2, LiteralIs
<1>3. \A v \in DOMAIN MouseWord : \A d \in DOMAIN MouseWord[v] : MouseWord[v][d] \notin Literal
  <2>. DEFINE S == {"ACTION_MOUSE_MOVE_UP", "ACTION_MOUSE_MOVE_DOWN", "ACTION_MOUSE_MOVE_LEFT",
                    "ACTION_MOUSE_MOVE_RIGHT", "ACTION_MOUSE_SCROLL_UP", "ACTION_MOUSE_SCROLL_DOWN",
                    "ACTION_MOUSE_SCROLL_LEFT", "ACTION_MOUSE_SCROLL_RIGHT",
                    "ACTION_MOUSE_CLICK_LEFT", "ACTION_MOUSE_CLICK_RIGHT",
                    "ACTION_MOUSE_CLICK_CENTER", "ACTION_MOUSE_CLICK_BACKWARDS",
                    "ACTION_MOUSE_CLICK_FORWARDS"}
  <2>1. \A v \in DOMAIN MouseWord : \A d \in DOMAIN MouseWord[v] : MouseWord[v][d] \in S
    BY DEF MouseWord
  <2>2. S \cap Literal = {}
    BY LiteralIs
  <2>. QED  BY Zenon, <2>1, <2>2
<1>4. \A w \in DOMAIN GoesOn : GoesOn[w].type \notin Literal
  <2>. DEFINE G(b) ==
        [switch |-> Phrase(<<b, "to">>, "ACTION_SWITCH_TO"),
         reset  |-> Phrase(<<b, "keyboard">>, "ACTION_RESET_KEYBOARD"),
         pass   |-> Phrase(<<b, "through">>, "ACTION_PASS_THROUGH"),
         reload |-> Phrase(<<b, "key", b, "maps">>, "ACTION_RELOAD_KEY_MAPS"),
         at     |-> [Phrase(<<b, "human", b, "speed">>, "PARAMETER_AT_HUMAN_SPEED")
                       EXCEPT !.looks = 1],
         until  |-> Phrase(<<b, "released">>, "PARAMETER_UNTIL_RELEASED"),
         other  |-> Phrase(<<b, "keys", b, "fall", b, "through">>,
                           "TOP_OTHER_KEYS_FALL_THROUGH"),
         block  |-> Phrase(<<b, "other", b, "keys">>, "TOP_BLOCK_OTHER_KEYS")]
  <2>1. GoesOn = G(" ")
    BY Zenon DEF GoesOn
  <2>2. PICK b : GoesOn = G(b)
    <3>. HIDE DEF G
    <3>. QED  BY Zenon, <2>1
  <2>3. DOMAIN GoesOn = {"switch", "reset", "pass", "reload", "at", "until", "other", "block"}
    BY <2>2
  <2>4. /\ GoesOn["switch"].type = "ACTION_SWITCH_TO"
        /\ GoesOn["reset"].type  = "ACTION_RESET_KEYBOARD"
        /\ GoesOn["pass"].type   = "ACTION_PASS_THROUGH"
        /\ GoesOn["reload"].type = "ACTION_RELOAD_KEY_MAPS"
        /\ GoesOn["at"].type     = "PARAMETER_AT_HUMAN_SPEED"
        /\ GoesOn["until"].type  = "PARAMETER_UNTIL_RELEASED"
        /\ GoesOn["other"].type  = "TOP_OTHER_KEYS_FALL_THROUGH"
        /\ GoesOn["block"].type  = "TOP_BLOCK_OTHER_KEYS"
    BY <2>2 DEF Phrase
  <2>. HIDE DEF G
  <2>. QED  BY <2>3, <2>4, LiteralIs
<1>5. "IDENTIFIER" \notin Literal
  BY LiteralIs
<1>. QED  BY <1>1, <1>2, <1>3, <1>4, <1>5

(* Digits, signs and letters are told apart. *)
LEMMA Unlike ==
  /\ Letters \cap (Digit \cup DOMAIN Symbol) = {}
  /\ "0" \notin DOMAIN Symbol /\ "0" \in Digit /\ "0" # "R" /\ "0" # "K"
  /\ "x" \in Letters /\ {"R", "K"} \subseteq Letters /\ Digit \subseteq AlNum /\ HexDigit \subseteq AlNum
<1>1. Letters \cap (Digit \cup DOMAIN Symbol) = {}
  BY Zenon, PiecesAssumption
<1>2. "0" \notin DOMAIN Symbol
  BY LiteralIs
<1>3. "x" \in Letters /\ {"R", "K"} \subseteq Letters /\ HexLetters \subseteq Letters
  BY Zenon, PiecesAssumption
<1>. QED  BY <1>1, <1>2, <1>3 DEF Digit, AlNum, HexDigit

LEMMA AtPlaceNow ==
  ASSUME TokenInv, Looking
  PROVE  /\ TextOK /\ place \in 1 .. Len(source) /\ Len(source) \in Nat /\ place \in Nat
         /\ place \in 1 .. Len(source) + 1
BY TextDomain DEF TokenInv, PlacesOK, Looking

LEMMA SignCut ==
  ASSUME TokenInv, Sign  PROVE Cut(place, place + 1, Symbol[Char(place)])
<1>1. place \in Nat /\ Char(place) \in DOMAIN Symbol
  BY AtPlaceNow DEF Sign
<1>2. Symbol[Char(place)] \in Literal /\ Symbol[Char(place)] # "STRING_LIT"
  <2>1. \A c \in DOMAIN Symbol : Symbol[c] # "STRING_LIT"
    BY DEF Symbol
  <2>. QED  BY Zenon, <1>1, <2>1, Literals
<1>3. \A i \in place .. place + 1 - 1 : i = place
  BY <1>1
<1>. QED  BY <1>1, <1>2, <1>3, Unlike DEF Cut

LEMMA StringCut ==
  ASSUME TokenInv, String, NEW quotes, quotes # {}, quotes = {j \in place + 1 .. Len(source) : Char(j) = Quo}
  PROVE  Cut(place, Min(quotes) + 1, "STRING_LIT")
<1>1. place \in Nat /\ Len(source) \in Nat
  BY AtPlaceNow DEF String
<1>2. Char(place) = Quo
  BY Zenon DEF String, Quo
<1>3. quotes \subseteq Nat
  BY <1>1
<1>4. Min(quotes) \in quotes /\ \A i \in quotes : Min(quotes) <= i
  BY <1>3, MinIs
<1>5. PICK m \in Nat : m = Min(quotes)
  BY <1>3, <1>4
<1>6. m \in place + 1 .. Len(source) /\ Char(m) = Quo /\ m + 1 - 1 = m /\ m + 1 > place + 1
  BY <1>1, <1>4, <1>5
<1>7. ASSUME NEW i \in place + 1 .. m + 1 - 2  PROVE Char(i) # Quo
  <2>1. i \in place + 1 .. Len(source) /\ ~ (m <= i)
    BY <1>1, <1>6
  <2>. QED  BY <1>4, <1>5, <2>1
<1>8. Quoted(place, m + 1)
  BY <1>2, <1>6, <1>7 DEF Quoted
<1>. QED  BY <1>5, <1>8 DEF Cut

LEMMA HexCut ==
  ASSUME TokenInv, HexLiteral, Char(place + 2) \in HexDigit
  PROVE  Cut(place, RunEnd(place + 2, HexDigit), "HEX_LIT")
<1>1. Looking /\ Char(place) = "0" /\ Char(place + 1) = "x"
  BY DEF HexLiteral, AtHex
<1>2. TextOK /\ place \in Nat /\ Len(source) \in Nat
  BY <1>1, AtPlaceNow
<1>3. PICK p \in 1 .. Len(source) + 1 : p = place + 2
  <2>1. place + 2 \in 1 .. Len(source) + 1
    BY <1>2, TextDomain, NoNul
  <2>. QED  BY <2>1
<1>4. /\ RunEnd(p, HexDigit) \in p .. Len(source) + 1
      /\ \A i \in p .. RunEnd(p, HexDigit) - 1 : Char(i) \in HexDigit
  BY <1>2, NoNul, RunEndIs
<1>5. PICK e \in Nat : e = RunEnd(p, HexDigit)
  BY <1>2, <1>4
<1>6. ASSUME NEW i \in place .. e - 1  PROVE Char(i) \in AlNum
  <2>1. i = place \/ i = place + 1 \/ i \in p .. e - 1
    BY <1>2, <1>3
  <2>. QED  BY <1>1, <1>4, <1>5, <2>1, Unlike DEF AlNum
<1>7. "HEX_LIT" \in Literal /\ Char(place) \notin Letters
  BY <1>1, Literals, Unlike
<1>8. Cut(place, e, "HEX_LIT")
  BY <1>6, <1>7 DEF Cut
<1>. QED  BY <1>3, <1>5, <1>8

LEMMA NumberCut ==
  ASSUME TokenInv, Number  PROVE Cut(place, RunEnd(place, Digit), "NUM_LIT")
<1>1. Looking /\ Char(place) \in Digit /\ ~ (Char(place) = "0" /\ Char(place + 1) = "x")
  BY DEF Number, AtHex
<1>2. TextOK /\ place \in 1 .. Len(source) + 1
  BY <1>1, AtPlaceNow
<1>3. \A i \in place .. RunEnd(place, Digit) - 1 : Char(i) \in Digit
  BY <1>2, NoNul, RunEndIs
<1>4. "NUM_LIT" \in Literal /\ Char(place) \notin Letters
  BY <1>1, Literals, Unlike
<1>. QED  BY <1>1, <1>3, <1>4, Unlike DEF Cut

LEMMA RowOrKeyCut ==
  ASSUME TokenInv, RowOrKey, NEW type \in {"ROW_LIT", "KEY_LIT"}  PROVE Cut(place, WordEnd, type)
<1>1. AtWord /\ Char(place) \in {"R", "K"} /\ WordEnd > place + 1
      /\ \A i \in place + 1 .. WordEnd - 1 : Char(i) \in Digit
  BY DEF RowOrKey, AtPlace
<1>2. TextOK /\ place \in 1 .. Len(source) + 1 /\ place \in Nat /\ Len(source) \in Nat
  BY <1>1, AtPlaceNow DEF AtWord
<1>3. \A i \in place .. WordEnd - 1 : Char(i) \in AlNum
  BY <1>2, NoNul, RunEndIs DEF WordEnd
<1>4. WordEnd \in Nat
  BY <1>1, <1>2, WordIs
<1>5. Char(place + 1) \in Digit
  <2>1. place + 1 \in place + 1 .. WordEnd - 1
    BY <1>1, <1>2, <1>4
  <2>. QED  BY <1>1, <2>1
<1>6. type \in Literal /\ Char(place) # "0"
  BY <1>1, Literals, Unlike
<1>. QED  BY <1>3, <1>5, <1>6 DEF Cut

(* What tokenize takes, and what it says. *)
Took(j, type) ==
  /\ Looking /\ Token(j, type) /\ Says(place, j, type) /\ Cut(place, j, type)
  /\ j \in place + 1 .. Len(source) + 1

LEMMA StepTakes ==
  ASSUME TokenInv, TokenizeStep
  PROVE  \/ \E j, type : Took(j, type)
         \/ SkipBlank \/ NewLine \/ Comment
         \/ \E what \in {"tokens", "message", "exception"} : Return(what) /\ tokenized = "nothing"
<1>. DEFINE Goal == \/ \E j, type : Took(j, type)
                    \/ SkipBlank \/ NewLine \/ Comment
                    \/ \E what \in {"tokens", "message", "exception"} :
                         Return(what) /\ tokenized = "nothing"
<1>. SUFFICES Goal
  BY Zenon
<1>1. ASSUME NEW j, NEW type, Took(j, type)  PROVE Goal
  BY Zenon, <1>1
<1>15. ASSUME NEW what \in {"tokens", "message", "exception"}, Return(what), Looking \/ tokenized = "nothing"
       PROVE  Goal
  BY Zenon, <1>15 DEF Looking
<1>16. SkipBlank \/ NewLine \/ Comment => Goal
  BY Zenon
<1>. HIDE DEF Goal
<1>2. /\ place \in Nat /\ Len(source) \in Nat
      /\ Looking => place \in 1 .. Len(source) /\ place + 1 \in place + 1 .. Len(source) + 1
  BY TextDomain DEF TokenInv, PlacesOK, Looking
<1>3. CASE Unexpected \/ MouseThrows \/ EndOfText
  <2>1. CASE Unexpected
    BY <1>15, <2>1 DEF Unexpected
  <2>2. CASE MouseThrows
    <3>1. Return("exception") /\ Looking
      BY Zenon, <2>2 DEF MouseThrows, AtVerb, Is, AtWord
    <3>. QED  BY <1>15, <3>1
  <2>3. CASE EndOfText
    BY <1>15, <2>3 DEF EndOfText
  <2>. QED  BY <1>3, <2>1, <2>2, <2>3
<1>14. ASSUME AtWord, NEW j, NEW type, type \notin Literal  PROVE Cut(place, j, type)
  <2>1. Char(place) \in Letters /\ type # "STRING_LIT"
    BY <1>14, Literals DEF AtWord
  <2>. QED  BY <1>14, <2>1 DEF Cut
<1>4. CASE Sign
  <2>1. Symbol[Char(place)] \in Literal
    BY <1>4, Literals DEF Sign
  <2>2. Took(place + 1, Symbol[Char(place)])
    BY <1>2, <1>4, <2>1, LiteralSays, SignCut DEF Sign, Took
  <2>. QED  BY <1>1, <2>2
<1>5. CASE String
  <2>. DEFINE quotes == {j \in place + 1 .. Len(source) : Char(j) = "\""}
  <2>1. /\ quotes \subseteq place + 1 .. Len(source) /\ Looking
        /\ IF quotes # {} THEN Token(Min(quotes) + 1, "STRING_LIT") ELSE Return("message")
    BY Zenon, <1>5 DEF String
  <2>4. quotes = {j \in place + 1 .. Len(source) : Char(j) = Quo}
    BY Zenon DEF Quo
  <2>. HIDE DEF quotes
  <2>2. CASE quotes # {}
    <3>1. Min(quotes) + 1 \in place + 1 .. Len(source) + 1
      BY <1>5, <2>1, <2>2, StringEnds
    <3>3. Cut(place, Min(quotes) + 1, "STRING_LIT")
      BY <1>5, <2>2, <2>4, StringCut
    <3>2. Took(Min(quotes) + 1, "STRING_LIT")
      BY <2>1, <2>2, <3>1, <3>3, Literals, LiteralSays DEF Took
    <3>. QED  BY <1>1, <3>2
  <2>3. CASE quotes = {}
    BY <1>15, <2>1, <2>3
  <2>. QED  BY <2>2, <2>3
<1>6. CASE HexLiteral
  <2>1. CASE Char(place + 2) \in HexDigit
    <3>1. Took(RunEnd(place + 2, HexDigit), "HEX_LIT")
      BY <1>6, <2>1, HexEnds, HexCut, Literals, LiteralSays DEF HexLiteral, Took
    <3>. QED  BY <1>1, <3>1
  <2>2. CASE Char(place + 2) \notin HexDigit
    BY <1>6, <1>15, <2>2 DEF HexLiteral
  <2>. QED  BY <2>1, <2>2
<1>7. CASE Number
  <2>1. Took(RunEnd(place, Digit), "NUM_LIT")
    BY <1>7, NumberEnds, NumberCut, Literals, LiteralSays DEF Number, Took
  <2>. QED  BY <1>1, <2>1
<1>8. CASE RowOrKey
  <2>1. PICK type : Token(WordEnd, type) /\ type \in {"ROW_LIT", "KEY_LIT"}
    BY <1>8 DEF RowOrKey
  <2>2. Looking /\ WordEnd \in place + 1 .. Len(source) + 1
    BY <1>8, WordIs DEF RowOrKey, AtPlace, AtWord
  <2>3. Took(WordEnd, type)
    BY <1>8, <2>1, <2>2, RowOrKeyCut, Literals, LiteralSays DEF Took
  <2>. QED  BY <1>1, <2>3
<1>9. CASE OnTrigger
  <2>. DEFINE type == Trigger[Lowered(WordEnd + 1, TriggerEnd)]
  <2>1. /\ Token(TriggerEnd, type) /\ Looking /\ AtWord
        /\ Lowered(WordEnd + 1, TriggerEnd) \in DOMAIN Trigger
    BY Zenon, <1>9 DEF OnTrigger, AtTrigger, Is, AtWord
  <2>2. TriggerEnd \in place + 1 .. Len(source) + 1 /\ Says(place, TriggerEnd, type)
    BY <1>9, TriggerEnds, OnTriggerSays
  <2>3. type \notin Literal
    BY <2>1, NoLiterals
  <2>. HIDE DEF type
  <2>4. Took(TriggerEnd, type)
    BY <1>14, <2>1, <2>2, <2>3 DEF Took
  <2>. QED  BY <1>1, <2>4
<1>10. CASE MouseAction
  <2>1. PICK v \in DOMAIN MouseWord : \E d \in DOMAIN MouseWord[v] :
          AtMouse(v, d) /\ Token(LastEnd, MouseWord[v][d])
    BY Zenon, <1>10 DEF MouseAction
  <2>2. PICK d \in DOMAIN MouseWord[v] : AtMouse(v, d) /\ Token(LastEnd, MouseWord[v][d])
    BY <2>1
  <2>3. AtWord /\ MouseWord[v][d] \notin Literal
    BY Zenon, <2>2, NoLiterals DEF AtMouse, AtVerb, Is
  <2>4. Took(LastEnd, MouseWord[v][d])
    BY <1>14, <2>2, <2>3, MouseEnds, MouseActionSays DEF Took
  <2>. QED  BY <1>1, <2>4
<1>11. CASE SingleWord
  <2>1. /\ Looking /\ Token(WordEnd, OneWord[Word[1]])
        /\ AtWord /\ Word[1] \in DOMAIN OneWord
    BY Zenon, <1>11 DEF SingleWord, Is, AtWord
  <2>2. WordEnd = place + 1 /\ Says(place, place + 1, OneWord[Word[1]])
    BY <1>11, SingleWordSays
  <2>3. WordEnd \in place + 1 .. Len(source) + 1
    BY <1>2, <2>1, <2>2
  <2>4. Says(place, WordEnd, OneWord[Word[1]])
    BY Zenon, <2>2
  <2>5. Took(WordEnd, OneWord[Word[1]])
    BY <1>14, <2>1, <2>3, <2>4, NoLiterals DEF Took
  <2>. QED  BY <1>1, <2>5
<1>12. CASE LongPhrase
  <2>. DEFINE j == WordEnd + Len(GoesOn[Word[1]].rest)
              type == GoesOn[Word[1]].type
  <2>1. Looking /\ Token(j, type) /\ AtWord /\ Word[1] \in DOMAIN GoesOn
    BY Zenon, <1>12 DEF LongPhrase, Continues, Is, AtWord
  <2>4. type \notin Literal
    BY <2>1, NoLiterals
  <2>2. j \in place + 1 .. Len(source) + 1 /\ Says(place, j, type)
    BY <1>12, PhraseEnds, LongPhraseSays
  <2>. HIDE DEF j, type
  <2>3. Took(j, type)
    BY <1>14, <2>1, <2>2, <2>4 DEF Took
  <2>. QED  BY <1>1, <2>3
<1>13. CASE Identifier
  <2>1. NoKeyword /\ AtWord /\ Looking /\ Token(WordEnd, "IDENTIFIER")
    BY Zenon, <1>13 DEF Identifier, NoKeyword, AtWord
  <2>2. WordEnd \in place + 1 .. Len(source) + 1 /\ Says(place, WordEnd, "IDENTIFIER")
    BY <2>1, WordIs, IdentifierSays
  <2>3. Took(WordEnd, "IDENTIFIER")
    BY <1>14, <2>1, <2>2, NoLiterals DEF Took
  <2>. QED  BY <1>1, <2>3
<1>. QED  BY Zenon, <1>3, <1>4, <1>5, <1>6, <1>7, <1>8, <1>9, <1>10, <1>11, <1>12, <1>13, <1>16
          DEF TokenizeStep

LEMMA SaysStep ==
  ASSUME TokenInv, SaysInv, TokenizeStep
  PROVE  SaysInv'
<1>1. CASE \E j, type : Took(j, type)
  BY <1>1, TokenSays DEF Took
<1>2. CASE ~ \E j, type : Took(j, type)
  <2>1. UNCHANGED <<source, tokens>>
    BY <1>2, StepTakes DEF SkipBlank, NewLine, Comment, Return
  <2>. QED  BY <2>1, SaysStays
<1>. QED  BY <1>1, <1>2

LEMMA StepOfTokenizer == ASSUME [Next]_vars  PROVE TokenizeStep \/ UNCHANGED tokenizerVars
BY DEF Next, Step, Tokenize, Tokenized, TokenizeFails, TopStatement, RowHeader, BadStatement,
       OnOperation, Inline, Parsed, BindOperation, BindFails, Halt, AllBound, Stopped, Fail,
       Operate, vars

LEMMA SaysNext == ASSUME TokenInv, SaysInv, [Next]_vars  PROVE SaysInv'
BY StepOfTokenizer, SaysStep, SaysStays DEF tokenizerVars

LEMMA SaysAll == ASSUME TokenInv, SaysInv  PROVE TokensSayTheText
<1>. SUFFICES ASSUME NEW k \in DOMAIN tokens, tokens[k].type \notin Literal
     PROVE LET token == tokens[k]
               word  == Lower[Head(token.text)]
               here  == {q \in Written : /\ word = Head(q.text)
                                         /\ Lowered(token.start, token.start + Len(q.text)) = q.text
                                         /\ Char(token.start + Len(q.text)) \notin q.ends}
           IN  IF here # {} THEN \E q \in here : token.type = q.type /\ Len(token.text) = Len(q.text)
               ELSE IF Swallowed(token.start + 3) THEN Len(token.text) = 5
               ELSE token.type = "IDENTIFIER" /\ Stop(token) = RunEnd(token.start, AlNum)
  BY Zenon DEF TokensSayTheText
<1>. DEFINE token == tokens[k]
            p == token.start
            here == {q \in Written : /\ Lower[Head(token.text)] = Head(q.text)
                                     /\ Lowered(p, p + Len(q.text)) = q.text
                                     /\ Char(p + Len(q.text)) \notin q.ends}
<1>1. Head(token.text) = Char(p) /\ Says(p, Stop(token), token.type)
  BY Zenon DEF SaysInv
<1>2. \A q : q \in here <=> q \in Written /\ Here(p, q)
  BY Zenon, <1>1 DEF Here
<1>3. Stop(token) - p = Len(token.text)
  <2>1. token \in SpelledToken
    BY ElementOfSeq DEF TokenInv
  <2>2. p \in Nat /\ Len(token.text) \in Nat
    BY <2>1 DEF SpelledToken
  <2>3. Stop(token) = p + Len(token.text)
    BY DEF Stop
  <2>. QED  BY <2>2, <2>3
<1>4. CASE \E q \in Written : Here(p, q)
  <2>1. PICK q \in Written : Here(p, q) /\ token.type = q.type /\ Stop(token) - p = Len(q.text)
    BY Zenon, <1>1, <1>4 DEF Says
  <2>. QED  BY Zenon, <1>2, <1>3, <2>1
<1>5. CASE ~ \E q \in Written : Here(p, q)
  <2>1. Swallowed(p + 3) <=> BehindMouse(p + 3)
    <3>1. token \in SpelledToken
      BY ElementOfSeq DEF TokenInv
    <3>2. p \in Nat
      BY <3>1 DEF SpelledToken
    <3>3. (p + 3) - 3 = p
      BY <3>2
    <3>. QED  BY Zenon, <3>3 DEF Swallowed, Begins
  <2>. QED  BY Zenon, <1>1, <1>2, <1>3, <1>5, <2>1 DEF Says
<1>. QED  BY <1>4, <1>5

(* In a text of any length, every token that is a word is the phrase that  *)
(* is written there, all of it, or else one word (tokenize: old_index).    *)
THEOREM SaysCorrect == Spec => []TokensSayTheText
<1>1. Init => SaysInv
  BY DEF Init, TokenizerInit, SaysInv
<1>2. TokenInv /\ SaysInv /\ [Next]_vars => SaysInv'
  BY SaysNext
<1>. QED  BY <1>1, <1>2, SaysAll, TokensCorrect, PTL DEF Spec

-----------------------------------------------------------------------------
(* What stands between the tokens.  Kinds says of every piece of a text of  *)
(* which kind it is, given the pieces that are passed unseen behind `mouse  *)
(* move'.  CoverInv speaks of every function that says so: as far as the    *)
(* text has been read, its pieces of text and strings are in tokens and     *)
(* those of comments are not.                                               *)

(* Which piece is of which kind is said piece by piece. *)
KindsTo(g, n) == g = [i \in 0 .. n |-> IF i = 0 THEN "blank" ELSE KindAfter(g[i - 1], i)]

(* KindAfter, taken from piece to piece, defines a function on the places  *)
(* of a text.                                                              *)
LEMMA KindsExist == \A n \in Nat : \E g : KindsTo(g, n)
<1>. DEFINE S == {n \in Nat : ~ \E g : KindsTo(g, n)}
<1>1. SUFFICES ASSUME S # {}  PROVE FALSE
  OBVIOUS
<1>2. PICK n \in S : \A m \in S : n <= m
  BY <1>1, LeastNat
<1>3. n # 0
  <2>. DEFINE g == [i \in 0 .. 0 |-> "blank"]
  <2>1. KindsTo(g, 0)
    BY DEF KindsTo
  <2>. QED  BY <1>2, <2>1
<1>4. n \in Nat /\ n - 1 \in Nat /\ n - 1 \notin S
  BY <1>2, <1>3
<1>5. PICK g : KindsTo(g, n - 1)
  BY <1>4
<1>. DEFINE at(i) == IF i = n THEN KindAfter(g[n - 1], n) ELSE g[i]
            f == [i \in 0 .. n |-> at(i)]
<1>6. \A i \in 0 .. n - 1 : g[i] = IF i = 0 THEN "blank" ELSE KindAfter(g[i - 1], i)
  BY <1>5 DEF KindsTo
<1>7. ASSUME NEW i \in 0 .. n  PROVE at(i) = IF i = 0 THEN "blank" ELSE KindAfter(f[i - 1], i)
  <2>1. CASE i = n
    <3>1. f[n - 1] = g[n - 1] /\ at(i) = KindAfter(g[n - 1], n)
      BY <1>3, <1>4, <2>1
    <3>. HIDE DEF f, at
    <3>. QED  BY <1>3, <2>1, <3>1
  <2>2. CASE i # n
    <3>1. i \in 0 .. n - 1 /\ at(i) = g[i]
      BY <1>4, <2>2
    <3>2. i # 0 => f[i - 1] = g[i - 1]
      BY <1>4, <3>1
    <3>. HIDE DEF f, at
    <3>. QED  BY <1>6, <3>1, <3>2
  <2>. QED  BY <2>1, <2>2
<1>8. f = [i \in 0 .. n |-> at(i)]
  OBVIOUS
<1>. HIDE DEF f, at
<1>9. KindsTo(f, n)
  BY <1>7, <1>8 DEF KindsTo
<1>. QED  BY <1>2, <1>9

(* Kinds begins with a blank, and is KindAfter of what it was one piece    *)
(* before.                                                                 *)
LEMMA KindsAre ==
  ASSUME Len(source) \in Nat
  PROVE  /\ DOMAIN Kinds = 0 .. Len(source) /\ Kinds[0] = "blank"
         /\ \A i \in 1 .. Len(source) : Kinds[i] = KindAfter(Kinds[i - 1], i)
<1>1. PICK n \in Nat : n = Len(source)
  OBVIOUS
<1>2. Kinds = CHOOSE g : KindsTo(g, n)
  BY <1>1 DEF Kinds, KindsTo
<1>3. KindsTo(Kinds, n)
  BY Zenon, <1>2, KindsExist
<1>4. PICK g : g = Kinds
  OBVIOUS
<1>5. g = [i \in 0 .. n |-> IF i = 0 THEN "blank" ELSE KindAfter(g[i - 1], i)]
  BY Zenon, <1>3, <1>4 DEF KindsTo
<1>6. DOMAIN g = 0 .. n
  BY <1>5
<1>7. \A i \in 0 .. n : g[i] = IF i = 0 THEN "blank" ELSE KindAfter(g[i - 1], i)
  BY <1>5
<1>8. 0 \in 0 .. n /\ \A i \in 1 .. n : i \in 0 .. n /\ i # 0
  BY <1>1
<1>. QED  BY <1>1, <1>4, <1>6, <1>7, <1>8

(* KindAfter by what it looks at. *)
KindOf(last, c, i, W) ==
  IF last = "string" THEN IF c = Quo THEN "closing" ELSE "string"
  ELSE IF last = "comment" /\ c # "\n" THEN "comment"
  ELSE IF c \in Blank \cup {"\n"} THEN "blank"
  ELSE IF c = Quo /\ i \notin W THEN "string"
  ELSE IF c = "#" /\ i \notin W THEN "comment"
  ELSE "text"

(* The places tokenize passes unseen behind a verb of the mouse. *)
Passed == {i \in 1 .. Len(source) : Swallowed(i)}

(* g says of every piece of a text of which kind it is, when those in W are swallowed. *)
Reads(g, text, W) ==
  /\ Len(text) \in Nat /\ g[0] = "blank"
  /\ \A i \in 1 .. Len(text) : g[i] = KindOf(g[i - 1], text[i], i, W)

(* Kinds is such a reading of the text, in this state and in the next. *)
LEMMA KindsRead == Len(source) \in Nat => Reads(Kinds, source, Passed)
<1>. SUFFICES ASSUME Len(source) \in Nat  PROVE Reads(Kinds, source, Passed)
  OBVIOUS
<1>1. \A last : \A i \in 1 .. Len(source) : KindAfter(last, i) = KindOf(last, source[i], i, Passed)
  BY Zenon DEF KindAfter, KindOf, Passed, Quo
<1>. QED  BY <1>1, KindsAre DEF Reads

LEMMA KindsReadNext == (Len(source) \in Nat => Reads(Kinds, source, Passed))'
BY KindsRead, PTL

(* Behind these a string or a comment is open; and the pieces that may     *)
(* stand between tokens.                                                   *)
Opening == {"string", "comment"}
Between == Blank \cup {"\n"}

(* A quote, a hash and the pieces between tokens are not one another. *)
LEMMA QuoIs == Quo \notin Between /\ "#" \notin Between /\ Quo # "#" /\ Quo # "\n"
BY Zenon DEF Quo, Between, Blank

(* What a piece is inside a string, inside a comment, and in the open. *)
LEMMA KindOfIs ==
  \A c, i, W :
    /\ KindOf("string", c, i, W) = IF c = Quo THEN "closing" ELSE "string"
    /\ KindOf("comment", c, i, W) = IF c = "\n" THEN "blank" ELSE "comment"
    /\ \A last : last \notin Opening =>
         /\ KindOf(last, c, i, W) \in {"blank", "text", "string", "comment"}
         /\ KindOf(last, c, i, W) = "blank" <=> c \in Between
         /\ KindOf(last, c, i, W) = "string" <=> c = Quo /\ i \notin W
         /\ KindOf(last, c, i, W) = "comment" <=> c = "#" /\ i \notin W
<1>. SUFFICES ASSUME NEW c, NEW i, NEW W
              PROVE  /\ KindOf("string", c, i, W) = IF c = Quo THEN "closing" ELSE "string"
                     /\ KindOf("comment", c, i, W) = IF c = "\n" THEN "blank" ELSE "comment"
                     /\ \A last : last \notin Opening =>
                          /\ KindOf(last, c, i, W) \in {"blank", "text", "string", "comment"}
                          /\ KindOf(last, c, i, W) = "blank" <=> c \in Between
                          /\ KindOf(last, c, i, W) = "string" <=> c = Quo /\ i \notin W
                          /\ KindOf(last, c, i, W) = "comment" <=> c = "#" /\ i \notin W
  OBVIOUS
<1>1. KindOf("string", c, i, W) = IF c = Quo THEN "closing" ELSE "string"
  BY Zenon DEF KindOf
<1>2. KindOf("comment", c, i, W) = IF c = "\n" THEN "blank" ELSE "comment"
  <2>1. CASE c = "\n"
    BY Zenon, <2>1 DEF KindOf
  <2>2. CASE c # "\n"
    BY Zenon, <2>2 DEF KindOf
  <2>. QED  BY <2>1, <2>2
<1>3. ASSUME NEW last, last \notin Opening
      PROVE  /\ KindOf(last, c, i, W) \in {"blank", "text", "string", "comment"}
             /\ KindOf(last, c, i, W) = "blank" <=> c \in Between
             /\ KindOf(last, c, i, W) = "string" <=> c = Quo /\ i \notin W
             /\ KindOf(last, c, i, W) = "comment" <=> c = "#" /\ i \notin W
  <2>1. last # "string" /\ last # "comment"
    BY <1>3 DEF Opening
  <2>2. KindOf(last, c, i, W) =
          IF c \in Between THEN "blank"
          ELSE IF c = Quo /\ i \notin W THEN "string"
          ELSE IF c = "#" /\ i \notin W THEN "comment" ELSE "text"
    BY Zenon, <2>1 DEF KindOf, Between
  <2>. QED  BY <2>2, QuoIs
<1>. QED  BY <1>1, <1>2, <1>3

(* A piece for which Q holds, and the next as long as P holds, so that Q   *)
(* holds for them all: induction, over the places of a text.               *)
LEMMA OneAfterAnother ==
  ASSUME NEW a \in Nat, NEW b \in Nat, NEW S, a \in S, \A i \in a + 1 .. b : i - 1 \in S => i \in S
  PROVE  \A i \in a .. b : i \in S
<1>. DEFINE T == {i \in a .. b : i \notin S}
<1>1. SUFFICES ASSUME T # {}  PROVE FALSE
  OBVIOUS
<1>2. T \subseteq Nat
  OBVIOUS
<1>3. PICK i \in T : \A m \in T : i <= m
  BY <1>1, <1>2, LeastNat
<1>4. i \in a + 1 .. b /\ i - 1 \in a .. b /\ i \notin S
  BY <1>3
<1>5. i - 1 \notin T
  BY <1>3, <1>4
<1>. QED  BY <1>4, <1>5

(* In the open, nothing opens before the next quote or hash that is seen. *)
LEMMA PlainOn ==
  ASSUME NEW g, NEW text, NEW W, Reads(g, text, W),
         NEW a \in 1 .. Len(text) + 1, NEW b \in Nat, b <= Len(text) + 1, g[a - 1] \notin Opening,
         \A i \in a .. b - 1 : text[i] \notin {Quo, "#"} \/ i \in W
  PROVE  \A i \in a - 1 .. b - 1 : g[i] \notin Opening
<1>1. Len(text) \in Nat /\ \A i \in 1 .. Len(text) : g[i] = KindOf(g[i - 1], text[i], i, W)
  BY DEF Reads
<1>. DEFINE S == {i \in Nat : g[i] \notin Opening}
<1>2. a - 1 \in S /\ a - 1 \in Nat
  BY <1>1
<1>3. ASSUME NEW i \in a - 1 + 1 .. b - 1, i - 1 \in S  PROVE i \in S
  <2>1. i \in 1 .. Len(text) /\ i \in a .. b - 1 /\ i \in Nat
    BY <1>1
  <2>2. g[i - 1] \notin Opening /\ g[i] = KindOf(g[i - 1], text[i], i, W)
    BY <1>1, <1>3, <2>1
  <2>4. text[i] \notin {Quo, "#"} \/ i \in W
    BY <2>1
  <2>5. g[i] \notin Opening
    BY <2>2, <2>4, KindOfIs DEF Opening
  <2>. QED  BY <2>1, <2>5
<1>. HIDE DEF S
<1>4. CASE b = 0
  BY <1>1, <1>4
<1>5. CASE b # 0
  <2>1. b - 1 \in Nat
    BY <1>5
  <2>2. \A i \in a - 1 .. b - 1 : i \in S
    BY <1>2, <1>3, <2>1, OneAfterAnother
  <2>. QED  BY <2>2 DEF S
<1>. QED  BY <1>4, <1>5

(* A string goes on to the next quote. *)
LEMMA QuotedOn ==
  ASSUME NEW g, NEW text, NEW W, Reads(g, text, W),
         NEW a \in 1 .. Len(text), NEW b \in Nat, b <= Len(text), g[a] = "string",
         \A i \in a + 1 .. b : text[i] # Quo
  PROVE  \A i \in a .. b : g[i] = "string"
<1>1. Len(text) \in Nat /\ \A i \in 1 .. Len(text) : g[i] = KindOf(g[i - 1], text[i], i, W)
  BY DEF Reads
<1>. DEFINE S == {i \in Nat : g[i] = "string"}
<1>2. a \in S /\ a \in Nat
  BY <1>1
<1>3. ASSUME NEW i \in a + 1 .. b, i - 1 \in S  PROVE i \in S
  <2>1. i \in 1 .. Len(text) /\ i \in Nat
    BY <1>1
  <2>2. g[i] = KindOf("string", text[i], i, W)
    BY <1>1, <1>3, <2>1
  <2>3. g[i] = "string"
    BY <2>2, KindOfIs
  <2>. QED  BY <2>1, <2>3
<1>. HIDE DEF S
<1>4. \A i \in a .. b : i \in S
  BY <1>2, <1>3, OneAfterAnother
<1>. QED  BY <1>4 DEF S

(* A comment goes on to the next newline. *)
LEMMA CommentOn ==
  ASSUME NEW g, NEW text, NEW W, Reads(g, text, W),
         NEW a \in 1 .. Len(text), NEW b \in Nat, b <= Len(text), g[a] = "comment",
         \A i \in a + 1 .. b : text[i] # "\n"
  PROVE  \A i \in a .. b : g[i] = "comment"
<1>1. Len(text) \in Nat /\ \A i \in 1 .. Len(text) : g[i] = KindOf(g[i - 1], text[i], i, W)
  BY DEF Reads
<1>. DEFINE S == {i \in Nat : g[i] = "comment"}
<1>2. a \in S /\ a \in Nat
  BY <1>1
<1>3. ASSUME NEW i \in a + 1 .. b, i - 1 \in S  PROVE i \in S
  <2>1. i \in 1 .. Len(text) /\ i \in Nat
    BY <1>1
  <2>2. g[i] = KindOf("comment", text[i], i, W)
    BY <1>1, <1>3, <2>1
  <2>3. g[i] = "comment"
    BY <2>1, <2>2, KindOfIs
  <2>. QED  BY <2>1, <2>3
<1>. HIDE DEF S
<1>4. \A i \in a .. b : i \in S
  BY <1>2, <1>3, OneAfterAnother
<1>. QED  BY <1>4 DEF S

(* Two readings of a text are the same as far as the same is swallowed. *)
LEMMA SameReading ==
  ASSUME NEW g, NEW h, NEW text, NEW W, NEW V, Reads(g, text, W), Reads(h, text, V),
         NEW n \in Nat, n <= Len(text), \A i \in 1 .. n : i \in W <=> i \in V
  PROVE  \A i \in 0 .. n : g[i] = h[i]
<1>1. /\ Len(text) \in Nat /\ g[0] = h[0]
      /\ \A i \in 1 .. Len(text) : g[i] = KindOf(g[i - 1], text[i], i, W)
      /\ \A i \in 1 .. Len(text) : h[i] = KindOf(h[i - 1], text[i], i, V)
  BY DEF Reads
<1>. DEFINE S == {i \in Nat : g[i] = h[i]}
<1>2. 0 \in S
  BY <1>1
<1>3. ASSUME NEW i \in 0 + 1 .. n, i - 1 \in S  PROVE i \in S
  <2>1. i \in 1 .. Len(text) /\ i \in 1 .. n /\ i \in Nat
    BY <1>1
  <2>2. i \in W <=> i \in V
    BY <2>1
  <2>3. g[i] = h[i]
    BY Zenon, <1>1, <1>3, <2>1, <2>2 DEF KindOf
  <2>. QED  BY <2>1, <2>3
<1>. HIDE DEF S
<1>4. \A i \in 0 .. n : i \in S
  BY <1>2, <1>3, OneAfterAnother
<1>. QED  BY <1>4 DEF S

(* What stands between the words of `on double-click'. *)
Hyphened(i) ==
  /\ Lowered(i - 3, i + 2) = <<"on", SP, "double", "-", "click">>
  /\ Char(i + 2) \notin AlNum \cup {"-"}

(* The pieces of which words, numbers and signs are made. *)
Plain(p, i) ==
  \/ Char(i) \in AlNum \cup DOMAIN Symbol \cup Blank
  \/ i = p + 3 /\ BehindMouse(i)
  \/ i = p + 3 /\ Char(i) = "-" /\ Hyphened(i)

(* Two and three make five. *)
LEMMA TwoAndThree == \A a, b, c, d, e : <<a, b>> \o <<c, d, e>> = <<a, b, c, d, e>>
<1>. SUFFICES ASSUME NEW a, NEW b, NEW c, NEW d, NEW e
              PROVE  <<a, b>> \o <<c, d, e>> = <<a, b, c, d, e>>
  OBVIOUS
<1>1. PICK S : S = {a, b, c, d, e}
  OBVIOUS
<1>2. PICK u, v, w : u = <<a, b>> /\ v = <<c, d, e>> /\ w = <<a, b, c, d, e>>
  OBVIOUS
<1>3. u \in Seq(S) /\ v \in Seq(S) /\ w \in Seq(S) /\ Len(u) = 2 /\ Len(v) = 3 /\ Len(w) = 5
  BY <1>1, <1>2
<1>4. /\ u \o v \in Seq(S) /\ Len(u \o v) = 5
      /\ \A i \in 1 .. 5 : (u \o v)[i] = IF i <= 2 THEN u[i] ELSE v[i - 2]
  <2>1. /\ u \o v \in Seq(S) /\ Len(u \o v) = Len(u) + Len(v)
        /\ \A i \in 1 .. Len(u) + Len(v) : (u \o v)[i] = IF i <= Len(u) THEN u[i] ELSE v[i - Len(u)]
    BY Zenon, <1>3, ConcatProperties
  <2>. QED  BY <1>3, <2>1
<1>5. ASSUME NEW i \in 1 .. 5  PROVE (u \o v)[i] = w[i]
  <2>1. i = 1 \/ i = 2 \/ i = 3 \/ i = 4 \/ i = 5
    OBVIOUS
  <2>. QED  BY <1>2, <1>4, <2>1
<1>6. u \o v = w
  BY <1>3, <1>4, <1>5, SeqEqual
<1>. QED  BY Zenon, <1>2, <1>6

(* A phrase is made of plain pieces: none opens a string or a comment. *)
LEMMA PlainWord ==
  ASSUME TextOK, NEW p \in 1 .. Len(source), Char(p) \in Letters, NEW q \in Written, Here(p, q),
         NEW i \in p .. p + Len(q.text) - 1
  PROVE  Plain(p, i)
<1>1. Len(source) \in Nat /\ p \in Nat
  BY TextDomain
<1>2. SP \in Blank
  BY Zenon DEF SP, Blank
<1>3. \A c : Low(c) \in Letters \/ Low(c) = SP => c \in AlNum \cup Blank
  BY <1>2, BlankHere, LowIs DEF AlNum
<1>4. \A k : Low(Char(k)) \in Letters \/ Low(Char(k)) = SP => Plain(p, k)
  BY Zenon, <1>3 DEF Plain
<1>5. Low(Char(p)) \in Letters
  BY LowIs
<1>6. ASSUME NEW w \in DOMAIN OneWord, q = Alone(w)  PROVE Plain(p, i)
  <2>1. Len(q.text) = 1
    <3>1. q.text = <<w>>
      BY Zenon, <1>6 DEF Alone
    <3>. QED  BY <3>1
  <2>2. i = p
    BY <1>1, <2>1
  <2>. QED  BY <1>4, <1>5, <2>2
<1>7. ASSUME NEW t \in DOMAIN Trigger, q = BehindOn(t)  PROVE Plain(p, i)
  <2>1. Len(q.text) = 2 + Len(t) /\ Len(t) \in Nat
    BY Zenon, <1>1, <1>7, HereBehindOn
  <2>2. /\ Char(p + 1) = SP /\ Matches(p + 2, t)
        /\ Char(p + 2 + Len(t)) \notin AlNum \cup {"-"}
    BY Zenon, <1>1, <1>7, HereBehindOn
  <2>3. CASE i = p \/ i = p + 1
    BY <1>4, <1>5, <2>2, <2>3, BlankHere
  <2>4. CASE i # p /\ i # p + 1
    <3>1. PICK k \in 1 .. Len(t) : i = p + 2 + k - 1
      <4>1. i - p - 1 \in 1 .. Len(t) /\ i = p + 2 + (i - p - 1) - 1
        BY <1>1, <2>1, <2>4
      <4>. QED  BY <4>1
    <3>2. Low(Char(i)) = t[k]
      BY <2>2, <3>1 DEF Matches
    <3>3. CASE \E w \in DOMAIN OnWord : t = <<w>>
      <4>1. k = 1 /\ t[1] \in DOMAIN OnWord
        BY <2>1, <3>1, <3>3
      <4>. QED  BY <1>4, <3>2, <4>1, WordsAre
    <3>4. CASE t = DoubleClick
      <4>1. Len(t) = 3 /\ t[1] = "double" /\ t[2] = "-" /\ t[3] = "click"
        BY <3>4 DEF DoubleClick
      <4>2. "double" \in Letters /\ "click" \in Letters
        <5>1. "click" \in DOMAIN OnWord
          BY DEF OnWord
        <5>. QED  BY <5>1, PiecesAssumption
      <4>3. CASE k # 2
        BY <1>4, <3>1, <3>2, <4>1, <4>2, <4>3
      <4>4. CASE k = 2
        <5>1. i = p + 3 /\ i - 3 = p /\ i + 2 = p + 5 /\ p + 2 + Len(t) = i + 2 /\ Len(q.text) = 5
          BY <1>1, <2>1, <3>1, <4>1, <4>4
        <5>2. Char(i) = "-"
          <6>1. Low(Char(i)) = "-" /\ "-" \notin Letters
            BY <3>2, <4>1, <4>4, PiecesAssumption
          <6>. QED  BY <6>1, LowIs
        <5>3. q.text = <<"on", SP, "double", "-", "click">>
          <6>1. q.text = <<"on", SP>> \o <<"double", "-", "click">>
            BY Zenon, <1>7, <3>4 DEF BehindOn, DoubleClick
          <6>. QED  BY Zenon, <6>1, TwoAndThree
        <5>4. Lowered(p, p + Len(q.text)) = q.text
          BY Zenon DEF Here
        <5>5. Lowered(i - 3, i + 2) = <<"on", SP, "double", "-", "click">>
          BY Zenon, <5>1, <5>3, <5>4
        <5>6. Hyphened(i)
          BY Zenon, <2>2, <5>1, <5>5 DEF Hyphened
        <5>. QED  BY Zenon, <5>1, <5>2, <5>6 DEF Plain
      <4>. QED  BY <4>3, <4>4
    <3>. QED  BY Zenon, <3>3, <3>4, Triggers
  <2>. QED  BY <2>3, <2>4
<1>8. ASSUME NEW v \in DOMAIN MouseWord, NEW d \in DOMAIN MouseWord[v], q = OfMouse(v, d)
      PROVE  Plain(p, i)
  <2>1. Len(q.text) = 5
    BY Zenon, <1>1, <1>8, HereOfMouse
  <2>2. Char(p + 1) = SP /\ Low(Char(p + 2)) = v /\ Char(p + 3) = SP /\ Low(Char(p + 4)) = d
    BY Zenon, <1>1, <1>8, HereOfMouse
  <2>3. v \in Letters /\ d \in Letters
    BY WordsAre
  <2>4. i = p \/ i = p + 1 \/ i = p + 2 \/ i = p + 3 \/ i = p + 4
    BY <1>1, <2>1
  <2>. QED  BY <1>4, <1>5, <2>2, <2>3, <2>4, BlankHere
<1>9. ASSUME NEW w \in DOMAIN GoesOn \ {"at"}, q = Long(w)  PROVE Plain(p, i)
  <2>1. Len(q.text) = 1 + Len(GoesOn[w].rest) /\ Len(GoesOn[w].rest) \in Nat
    BY Zenon, <1>1, <1>9, HereLong
  <2>2. Matches(p + 1, GoesOn[w].rest)
    BY Zenon, <1>1, <1>9, HereLong
  <2>3. CASE i = p
    BY <1>4, <1>5, <2>3
  <2>4. CASE i # p
    <3>1. PICK r : r = GoesOn[w].rest
      OBVIOUS
    <3>2. \A k \in 1 .. Len(r) : r[k] \in Letters \cup Blank
      <4>1. \E S : r \in Seq(S)
        BY <3>1, RestIs
      <4>2. DOMAIN r = 1 .. Len(r)
        BY <4>1
      <4>3. ToSet(r) \subseteq Letters \cup Blank
        BY Zenon, <3>1, PhrasesAssumption
      <4>. QED  BY <4>2, <4>3 DEF ToSet
    <3>3. PICK k \in 1 .. Len(r) : i = p + 1 + k - 1
      <4>1. i - p \in 1 .. Len(r) /\ i = p + 1 + (i - p) - 1
        BY <1>1, <2>1, <2>4, <3>1
      <4>. QED  BY <4>1
    <3>4. Low(Char(i)) = r[k]
      BY <2>2, <3>1, <3>3 DEF Matches
    <3>5. Low(Char(i)) \in Letters \cup Blank
      BY <3>2, <3>4
    <3>6. Char(i) \in AlNum \cup Blank
      BY <3>5, LowIs DEF AlNum
    <3>. QED  BY Zenon, <3>6 DEF Plain
  <2>. QED  BY <2>3, <2>4
<1>. QED  BY Zenon, <1>6, <1>7, <1>8, <1>9, WrittenIs

(* So is every token but a string literal. *)
LEMMA PlainToken ==
  ASSUME TextOK, NEW p \in 1 .. Len(source), NEW type, type # "STRING_LIT", NEW j \in Nat,
         Says(p, j, type), Cut(p, j, type), NEW i \in p .. j - 1
  PROVE  Plain(p, i)
<1>1. Len(source) \in Nat /\ p \in Nat /\ p \in 1 .. Len(source) + 1
  BY TextDomain
<1>2. CASE type \in Literal
  BY <1>2 DEF Cut, Plain
<1>3. CASE type \notin Literal
  <2>1. Char(p) \in Letters
    BY <1>3 DEF Cut
  <2>2. CASE \E q \in Written : Here(p, q)
    <3>1. PICK q \in Written : Here(p, q) /\ j - p = Len(q.text)
      BY Zenon, <1>3, <2>2 DEF Says
    <3>2. i \in p .. p + Len(q.text) - 1
      BY <1>1, <3>1
    <3>. QED  BY <2>1, <3>1, <3>2, PlainWord
  <2>3. CASE ~ (\E q \in Written : Here(p, q)) /\ BehindMouse(p + 3)
    <3>1. j - p = 5
      BY Zenon, <1>3, <2>3 DEF Says
    <3>2. i = p \/ i = p + 1 \/ i = p + 2 \/ i = p + 3 \/ i = p + 4
      BY <1>1, <3>1
    <3>3. Char(p + 1) = SP /\ Low(Char(p + 2)) \in Letters /\ Low(Char(p + 4)) \in Letters
      BY <2>3, BehindMouseIs, WordsAre
    <3>4. SP \in Blank
      BY Zenon DEF SP, Blank
    <3>5. Char(p + 2) \in AlNum /\ Char(p + 4) \in AlNum /\ Char(p) \in AlNum
      BY <2>1, <3>3, LowIs DEF AlNum
    <3>. QED  BY <2>3, <3>2, <3>3, <3>4, <3>5 DEF Plain
  <2>4. CASE ~ (\E q \in Written : Here(p, q)) /\ ~ BehindMouse(p + 3)
    <3>1. j = RunEnd(p, AlNum)
      BY Zenon, <1>3, <2>4 DEF Says
    <3>2. \A k \in p .. RunEnd(p, AlNum) - 1 : Char(k) \in AlNum
      BY <1>1, NoNul, RunEndIs
    <3>. QED  BY <3>1, <3>2 DEF Plain
  <2>. QED  BY <2>2, <2>3, <2>4
<1>. QED  BY <1>2, <1>3

(* What stands behind `mouse move', if anything is passed over there, is   *)
(* in the token that begins with `mouse'.                                  *)
LEMMA MouseToken ==
  ASSUME TextOK, NEW p \in 1 .. Len(source), NEW type, NEW j \in Nat,
         Says(p, j, type), Cut(p, j, type), BehindMouse(p + 3)
  PROVE  j = p + 5
<1>1. p \in Nat /\ Low(Char(p)) = "mouse" /\ Char(p + 1) = SP
  BY BehindMouseIs, TextDomain
<1>2. Char(p) \in Letters /\ Lower[Char(p)] = "mouse"
  BY <1>1, LowIs, WordsAre DEF Low
<1>3. type # "STRING_LIT"
  <2>1. Quo \notin Letters
    BY Zenon, PiecesAssumption DEF Quo
  <2>. QED  BY <1>2, <2>1 DEF Cut, Quoted
<1>4. type \notin Literal
  <2>1. SP \notin Digit
    BY Zenon, BlankIs DEF AlNum
  <2>. QED  BY <1>1, <1>2, <1>3, <2>1 DEF Cut
<1>5. CASE \E q \in Written : Here(p, q)
  <2>1. PICK q \in Written : Here(p, q) /\ j - p = Len(q.text)
    BY Zenon, <1>4, <1>5 DEF Says
  <2>2. \A w \in DOMAIN OneWord : q # Alone(w)
    BY Zenon, <1>1, <1>2, <2>1, HereAlone, Apart
  <2>3. \A t \in DOMAIN Trigger : q # BehindOn(t)
    BY Zenon, <1>1, <1>2, <2>1, HereBehindOn, Apart
  <2>4. \A w \in DOMAIN GoesOn \ {"at"} : q # Long(w)
    <3>. SUFFICES ASSUME NEW w \in DOMAIN GoesOn, q = Long(w)  PROVE FALSE
      BY Zenon
    <3>1. Lower[Char(p)] = w
      BY Zenon, <1>1, <1>2, <2>1, HereLong
    <3>. QED  BY Zenon, <1>2, <3>1, Apart
  <2>5. PICK v \in DOMAIN MouseWord : \E d \in DOMAIN MouseWord[v] : q = OfMouse(v, d)
    BY Zenon, <2>2, <2>3, <2>4, WrittenIs
  <2>6. Len(q.text) = 5
    <3>1. PICK d \in DOMAIN MouseWord[v] : q = OfMouse(v, d)
      BY <2>5
    <3>. QED  BY Zenon, <1>1, <1>2, <3>1, HereOfMouse
  <2>. QED  BY <1>1, <2>1, <2>6
<1>6. CASE ~ \E q \in Written : Here(p, q)
  <2>1. j - p = 5
    BY Zenon, <1>4, <1>6 DEF Says
  <2>. QED  BY <1>1, <2>1
<1>. QED  BY <1>5, <1>6

(* So no token begins with what is passed over. *)
LEMMA NotPassed ==
  ASSUME TokenInv, SaysInv, NEW p \in 1 .. Len(source),
         p = place \/ \E k \in DOMAIN tokens : tokens[k].start = p
  PROVE  p \notin Passed
<1>. SUFFICES ASSUME Swallowed(p)  PROVE FALSE
  BY DEF Passed
<1>1. TextOK /\ Len(source) \in Nat /\ p \in Nat
  BY TextDomain DEF TokenInv, PlacesOK
<1>2. BehindMouse(p)
  BY Zenon DEF Swallowed
<1>3. PICK k \in DOMAIN tokens : tokens[k].start = p - 3
  BY Zenon DEF Swallowed, Begins
<1>4. PICK i : i = tokens[k].start
  OBVIOUS
<1>5. PICK e : e = Stop(tokens[k])
  OBVIOUS
<1>6. i \in 1 .. Len(source) /\ e \in Nat /\ e <= place /\ i + 3 = p
  <2>1. i \in 1 .. Len(source) /\ e \in i + 1 .. Len(source) + 1 /\ e <= place
    BY Zenon, <1>4, <1>5 DEF TokenInv, PlacesOK
  <2>. QED  BY <1>1, <1>3, <1>4, <2>1
<1>7. PICK type : type = tokens[k].type
  OBVIOUS
<1>8. Says(i, e, type) /\ Cut(i, e, type)
  BY Zenon, <1>4, <1>5, <1>7 DEF SaysInv
<1>9. e = p + 2
  <2>1. BehindMouse(i + 3)
    BY Zenon, <1>2, <1>6
  <2>2. e = i + 5
    BY <1>1, <1>6, <1>8, <2>1, MouseToken
  <2>. QED  BY <1>1, <1>6, <2>2
<1>10. PICK l \in DOMAIN tokens : tokens[l].start = p
  BY <1>1, <1>6, <1>9
<1>11. PICK f : f = Stop(tokens[l])
  OBVIOUS
<1>12. f > p /\ f \in Nat
  BY <1>1, <1>10, <1>11 DEF TokenInv, PlacesOK
<1>13. DOMAIN tokens \subseteq Nat
  BY DEF TokenInv
<1>14. k # l
  BY <1>1, <1>3, <1>10
<1>15. CASE k < l
  <2>1. e <= p
    BY <1>5, <1>10, <1>15 DEF TokenInv, PlacesOK
  <2>. QED  BY <1>1, <1>9, <2>1
<1>16. CASE l < k
  <2>1. f <= p - 3
    BY <1>3, <1>11, <1>16 DEF TokenInv, PlacesOK
  <2>. QED  BY <1>1, <1>12, <2>1
<1>. QED  BY <1>13, <1>14, <1>15, <1>16

(* What the pieces of a token are taken for, where no string and no        *)
(* comment is open before it.                                              *)
LEMMA PlainReads ==
  ASSUME TextOK, NEW g, NEW W, Reads(g, source, W),
         NEW p \in 1 .. Len(source), NEW j \in p + 1 .. Len(source) + 1, g[p - 1] \notin Opening,
         \A i \in p .. j - 1 : Plain(p, i),
         j > p + 3 /\ BehindMouse(p + 3) => p + 3 \in W
  PROVE  (\A i \in p - 1 .. j - 1 : g[i] \notin Opening) /\ \A i \in p .. j - 1 : g[i] \in {"blank", "text"}
<1>1. Len(source) \in Nat /\ p \in Nat /\ j \in Nat
  BY TextDomain
<1>2. ASSUME NEW i \in p .. j - 1  PROVE source[i] \notin {Quo, "#"} \/ i \in W
  <2>1. i \in 1 .. Len(source) /\ source[i] = Char(i)
    BY <1>1, TextDomain
  <2>2. {Quo, "#"} \cap (AlNum \cup DOMAIN Symbol \cup Blank) = {} /\ "-" \notin {Quo, "#"}
    <3>1. {Quo, "#"} \cap Letters = {}
      BY Zenon, PiecesAssumption DEF Quo
    <3>2. {Quo, "#"} \cap Digit = {} /\ {Quo, "#"} \cap Blank = {}
      BY Zenon DEF Quo, Digit, Blank
    <3>3. {Quo, "#"} \cap {",", "+", ":"} = {} /\ "-" \notin {Quo, "#"}
      BY Zenon DEF Quo
    <3>. QED  BY Zenon, <3>1, <3>2, <3>3, LiteralIs DEF AlNum
  <2>3. CASE i = p + 3 /\ BehindMouse(i)
    <3>1. BehindMouse(p + 3) /\ j > p + 3
      BY <1>1, <2>3
    <3>. QED  BY <2>3, <3>1
  <2>4. CASE ~ (i = p + 3 /\ BehindMouse(i))
    <3>1. Char(i) \in AlNum \cup DOMAIN Symbol \cup Blank \/ Char(i) = "-"
      BY Zenon, <2>4 DEF Plain
    <3>. QED  BY Zenon, <2>1, <2>2, <3>1
  <2>. QED  BY <2>3, <2>4
<1>3. \A i \in p - 1 .. j - 1 : g[i] \notin Opening
  <2>1. p \in 1 .. Len(source) + 1 /\ j <= Len(source) + 1
    BY <1>1
  <2>. QED  BY <1>1, <1>2, <2>1, PlainOn
<1>4. ASSUME NEW i \in p .. j - 1  PROVE g[i] \in {"blank", "text"}
  <2>1. i \in 1 .. Len(source) /\ i - 1 \in p - 1 .. j - 1 /\ i \in p - 1 .. j - 1
    BY <1>1
  <2>2. g[i] = KindOf(g[i - 1], source[i], i, W) /\ g[i - 1] \notin Opening /\ g[i] \notin Opening
    BY <1>3, <2>1 DEF Reads
  <2>3. g[i] \in {"blank", "text", "string", "comment"}
    BY <2>2, KindOfIs
  <2>. QED  BY <2>2, <2>3 DEF Opening
<1>. QED  BY <1>3, <1>4

(* A string literal is read as a string, from quote to quote, and closed   *)
(* behind it.                                                              *)
LEMMA QuotedReads ==
  ASSUME TextOK, NEW g, NEW W, Reads(g, source, W),
         NEW p \in 1 .. Len(source), NEW j \in p + 1 .. Len(source) + 1, g[p - 1] \notin Opening,
         Quoted(p, j), p \notin W
  PROVE  g[j - 1] \notin Opening /\ \A i \in p .. j - 1 : g[i] \in {"string", "closing"}
<1>1. Len(source) \in Nat /\ p \in Nat /\ j \in Nat /\ j > p + 1
  BY TextDomain DEF Quoted
<1>2. \A i \in 1 .. Len(source) : source[i] = Char(i) /\ g[i] = KindOf(g[i - 1], source[i], i, W)
  BY TextDomain DEF Reads
<1>3. g[p] = "string"
  BY <1>2, KindOfIs DEF Quoted
<1>4. \A i \in p .. j - 2 : g[i] = "string"
  <2>1. j - 2 \in Nat /\ j - 2 <= Len(source)
    BY <1>1
  <2>2. \A i \in p + 1 .. j - 2 : source[i] # Quo
    BY <1>1, <1>2 DEF Quoted
  <2>3. PICK b \in Nat : b = j - 2
    BY <2>1
  <2>4. \A i \in p .. b : g[i] = "string"
    BY <1>3, <2>1, <2>2, <2>3, QuotedOn
  <2>. QED  BY <2>3, <2>4
<1>5. g[j - 1] = "closing"
  <2>1. j - 1 \in 1 .. Len(source) /\ (j - 1) - 1 = j - 2 /\ j - 2 \in p .. j - 2
    BY <1>1
  <2>2. g[j - 1] = KindOf("string", Quo, j - 1, W)
    BY <1>2, <1>4, <2>1 DEF Quoted
  <2>. QED  BY <2>2, KindOfIs
<1>6. \A i \in p .. j - 1 : i = j - 1 \/ i \in p .. j - 2
  BY <1>1
<1>. QED  BY <1>4, <1>5, <1>6 DEF Opening

(* What has been read is covered: nothing is open at the next piece, none  *)
(* was before a token, and what is in no token is blank or a comment.      *)
Covers(g) ==
  /\ place <= Len(source) + 1 => g[place - 1] \notin Opening
  /\ place = Len(source) + 2 => g[Len(source)] # "string"
  /\ \A k \in DOMAIN tokens : g[tokens[k].start - 1] \notin Opening
  /\ \A i \in 1 .. Len(source) : i < place => InToken(i) \/ g[i] \in {"blank", "comment"}

(* Whatever reading of the text agrees with tokenize so far, it is covered *)
(* so far.                                                                 *)
CoverInv == \A g, W : W = Passed /\ Reads(g, source, W) => Covers(g)

(* Before the first piece nothing is open. *)
LEMMA CoverInit == ASSUME Init  PROVE CoverInv
<1>1. place = 1 /\ tokens = <<>>
  BY DEF Init, TokenizerInit
<1>2. ASSUME NEW g, NEW W, Reads(g, source, W)  PROVE Covers(g)
  <2>1. Len(source) \in Nat /\ g[0] = "blank"
    BY <1>2 DEF Reads
  <2>. QED  BY <1>1, <2>1 DEF Covers, Opening
<1>. QED  BY Zenon, <1>2 DEF CoverInv

(* Nothing but blanks and comments is passed over. *)
LEMMA CoverPassed ==
  ASSUME TokenInv, CoverInv, NEW e \in place .. Len(source) + 2, place' = e, UNCHANGED <<source, tokens>>,
         \A g, W : W = Passed /\ Reads(g, source, W) /\ Covers(g) =>
           /\ e <= Len(source) + 1 => g[e - 1] \notin Opening
           /\ e = Len(source) + 2 => g[Len(source)] # "string"
           /\ \A i \in place .. e - 1 : i \in 1 .. Len(source) => g[i] \in {"blank", "comment"}
  PROVE  CoverInv'
<1>1. TextOK /\ Len(source) \in Nat /\ place \in Nat
  BY TextDomain DEF TokenInv, PlacesOK
<1>2. \A i : BehindMouse(i)' <=> BehindMouse(i)
  BY SaysUnchanged
<1>3. \A i : Begins(i)' <=> Begins(i)
  BY DEF Begins
<1>4. Passed' = Passed
  <2>1. \A i : Swallowed(i)' <=> Swallowed(i)
    BY Zenon, <1>2, <1>3 DEF Swallowed
  <2>. QED  BY <2>1 DEF Passed
<1>5. \A i : InToken(i)' <=> InToken(i)
  BY DEF InToken, Stop
<1>6. ASSUME NEW g, NEW W, W = Passed', Reads(g, source', W)  PROVE Covers(g)'
  <2>1. W = Passed /\ Reads(g, source, W)
    BY <1>4, <1>6
  <2>2. Covers(g)
    BY Zenon, <2>1 DEF CoverInv
  <2>3. \A k \in DOMAIN tokens : g[tokens[k].start - 1] \notin Opening
    BY Zenon, <2>2 DEF Covers
  <2>4. \A i \in 1 .. Len(source) : i < place => InToken(i) \/ g[i] \in {"blank", "comment"}
    BY Zenon, <2>2 DEF Covers
  <2>5. /\ e <= Len(source) + 1 => g[e - 1] \notin Opening
        /\ e = Len(source) + 2 => g[Len(source)] # "string"
        /\ \A i \in place .. e - 1 : i \in 1 .. Len(source) => g[i] \in {"blank", "comment"}
    BY Zenon, <2>1, <2>2
  <2>6. \A i \in 1 .. Len(source) : i < e => InToken(i) \/ g[i] \in {"blank", "comment"}
    BY <1>1, <2>4, <2>5
  <2>7. \A i \in 1 .. Len(source) : i < e => InToken(i)' \/ g[i] \in {"blank", "comment"}
    BY <1>5, <2>6
  <2>. QED  BY Zenon, <2>3, <2>5, <2>7 DEF Covers
<1>. QED  BY Zenon, <1>6 DEF CoverInv

(* A token begins where nothing is open, and nothing is open behind it. *)
LEMMA CoverToken ==
  ASSUME TokenInv, SaysInv, CoverInv, Looking, NEW type, NEW j \in place + 1 .. Len(source) + 1,
         Token(j, type), Says(place, j, type), Cut(place, j, type)
  PROVE  CoverInv'
<1>. DEFINE text == SubSeq(source, place, j - 1)
            token == [type |-> type, text |-> text, val |-> ValueOf(text),
                      start |-> place, line |-> line_number]
            n == Len(tokens) + 1
<1>1. tokens' = Append(tokens, token) /\ place' = j /\ UNCHANGED <<source, tokenized>>
  BY DEF Token
<1>2. PICK S : tokens \in Seq(S)
  BY DEF TokenInv, PlacesOK
<1>3. /\ place \in 1 .. Len(source) /\ Len(source) \in Nat /\ source \in Seq(STRING)
      /\ place \in Nat /\ j \in Nat /\ TextOK
  BY TextDomain DEF TokenInv, PlacesOK, Looking, TextOK
<1>4. Len(text) = j - place
  BY <1>3
<1>5. Stop(token) = j /\ token.start = place
  BY <1>3, <1>4 DEF Stop
<1>. HIDE DEF token, text
<1>6. /\ n \in Nat /\ n > 0 /\ DOMAIN tokens = 1 .. n - 1 /\ DOMAIN tokens' = 1 .. n
      /\ tokens'[n] = token /\ \A k \in 1 .. n - 1 : tokens'[k] = tokens[k]
  <2>1. tokens \in Seq(S \cup {token})
    BY <1>2
  <2>. QED  BY <1>1, <2>1
<1>. HIDE DEF n
<1>7. \A i : BehindMouse(i)' <=> BehindMouse(i)
  BY <1>1, SaysUnchanged
<1>8. \A i : Begins(i)' <=> Begins(i) \/ i = place
  BY <1>5, <1>6 DEF Begins
<1>9. \A i : InToken(i)' <=> InToken(i) \/ i \in place .. j - 1
  <2>1. \A i : InToken(i)' <=> \E k \in 1 .. n : i \in tokens'[k].start .. Stop(tokens'[k]) - 1
    BY Zenon, <1>6 DEF InToken, Stop
  <2>2. \A i : InToken(i) <=> \E k \in 1 .. n - 1 : i \in tokens[k].start .. Stop(tokens[k]) - 1
    BY Zenon, <1>6 DEF InToken
  <2>3. \A k \in 1 .. n : k = n \/ k \in 1 .. n - 1
    BY <1>6
  <2>4. n \in 1 .. n /\ \A k \in 1 .. n - 1 : k \in 1 .. n
    BY <1>6
  <2>. QED  BY Zenon, <1>5, <1>6, <2>1, <2>2, <2>3, <2>4
<1>10. ASSUME NEW g, NEW V, V = Passed', Reads(g, source', V)  PROVE Covers(g)'
  <2>1. Reads(g, source, V)
    BY <1>1, <1>10
  <2>2. \A i : i \in V <=> i \in 1 .. Len(source) /\ (Begins(i - 3) \/ i - 3 = place) /\ BehindMouse(i)
    <3>1. \A i : i \in V <=> i \in 1 .. Len(source') /\ Begins(i - 3)' /\ BehindMouse(i)'
      BY <1>10 DEF Passed, Swallowed
    <3>. QED  BY Zenon, <1>1, <1>7, <1>8, <3>1
  <2>3. PICK U : U = Passed
    OBVIOUS
  <2>4. \A i : i \in U <=> i \in 1 .. Len(source) /\ Begins(i - 3) /\ BehindMouse(i)
    BY <2>3 DEF Passed, Swallowed
  <2>5. \A i \in 1 .. place : i \in V <=> i \in U
    <3>1. \A i \in 1 .. place : i - 3 # place
      BY <1>3
    <3>. QED  BY Zenon, <2>2, <2>4, <3>1
  <2>6. PICK h : h = Kinds
    OBVIOUS
  <2>7. Reads(h, source, U)
    BY <1>3, <2>3, <2>6, KindsRead
  <2>8. \A i \in 0 .. place : g[i] = h[i]
    <3>1. place <= Len(source)
      BY <1>3
    <3>. QED  BY <1>3, <2>1, <2>5, <2>7, <3>1, SameReading
  <2>9. Covers(h)
    BY Zenon, <2>3, <2>7 DEF CoverInv
  <2>10. g[place - 1] \notin Opening
    <3>1. h[place - 1] \notin Opening /\ place - 1 \in 0 .. place
      BY <1>3, <2>9 DEF Covers, Looking
    <3>. QED  BY <2>8, <3>1
  <2>11. place \notin V
    <3>1. place \notin Passed
      BY <1>3, NotPassed
    <3>. QED  BY <1>3, <2>3, <2>5, <3>1
  <2>12. g[j - 1] \notin Opening
    <3>1. CASE type = "STRING_LIT"
      <4>1. Quoted(place, j)
        BY <3>1 DEF Cut
      <4>. QED  BY <1>3, <2>1, <2>10, <2>11, <4>1, QuotedReads
    <3>2. CASE type # "STRING_LIT"
      <4>1. \A i \in place .. j - 1 : Plain(place, i)
        BY <1>3, <3>2, PlainToken
      <4>2. j > place + 3 /\ BehindMouse(place + 3) => place + 3 \in V
        <5>1. j > place + 3 => place + 3 \in 1 .. Len(source) /\ (place + 3) - 3 = place
          BY <1>3
        <5>. QED  BY Zenon, <2>2, <5>1
      <4>3. j - 1 \in place - 1 .. j - 1
        BY <1>3
      <4>4. \A i \in place - 1 .. j - 1 : g[i] \notin Opening
        BY <1>3, <2>1, <2>10, <4>1, <4>2, PlainReads
      <4>. QED  BY <4>3, <4>4
    <3>. QED  BY <3>1, <3>2
  <2>13. \A k \in DOMAIN tokens' : g[tokens'[k].start - 1] \notin Opening
    <3>. SUFFICES ASSUME NEW k \in 1 .. n  PROVE g[tokens'[k].start - 1] \notin Opening
      BY <1>6
    <3>1. CASE k = n
      BY <1>5, <1>6, <2>10, <3>1
    <3>2. CASE k # n
      <4>1. k \in DOMAIN tokens /\ tokens'[k] = tokens[k]
        BY <1>6, <3>2
      <4>2. tokens[k].start - 1 \in 0 .. place
        <5>1. /\ tokens[k].start \in 1 .. Len(source) /\ Stop(tokens[k]) <= place
              /\ Stop(tokens[k]) \in tokens[k].start + 1 .. Len(source) + 1
          BY <4>1 DEF TokenInv, PlacesOK
        <5>. QED  BY <1>3, <5>1
      <4>3. h[tokens[k].start - 1] \notin Opening
        BY <2>9, <4>1 DEF Covers
      <4>. QED  BY <2>8, <4>1, <4>2, <4>3
    <3>. QED  BY <3>1, <3>2
  <2>14. \A i \in 1 .. Len(source) : i < j => InToken(i)' \/ g[i] \in {"blank", "comment"}
    <3>. SUFFICES ASSUME NEW i \in 1 .. Len(source), i < j, ~ InToken(i)'
                  PROVE  g[i] \in {"blank", "comment"}
      OBVIOUS
    <3>1. ~ InToken(i) /\ i \notin place .. j - 1
      BY <1>9
    <3>2. i < place /\ i \in 0 .. place
      BY <1>3, <3>1
    <3>3. h[i] \in {"blank", "comment"}
      BY <2>9, <3>1, <3>2 DEF Covers
    <3>. QED  BY <2>8, <3>2, <3>3
  <2>15. j # Len(source) + 2
    BY <1>3
  <2>. QED  BY Zenon, <1>1, <2>12, <2>13, <2>14, <2>15 DEF Covers
<1>. QED  BY Zenon, <1>10 DEF CoverInv

(* A blank or a newline in the open belongs to no token. *)
LEMMA BetweenReads ==
  ASSUME TokenInv, CoverInv, Looking, Char(place) \in Between, place' = place + 1,
         UNCHANGED <<source, tokens>>
  PROVE  CoverInv'
<1>1. /\ place \in 1 .. Len(source) /\ Len(source) \in Nat /\ place \in Nat
      /\ Char(place) = source[place]
  BY TextDomain DEF TokenInv, PlacesOK, Looking
<1>2. PICK e \in place .. Len(source) + 2 : e = place + 1
  BY <1>1
<1>3. ASSUME NEW g, NEW W, Reads(g, source, W), Covers(g)
      PROVE  g[place] \notin Opening /\ g[place] \in {"blank", "comment"}
  <2>1. g[place - 1] \notin Opening
    BY <1>1, <1>3 DEF Covers, Looking
  <2>2. g[place] = KindOf(g[place - 1], source[place], place, W)
    BY <1>1, <1>3 DEF Reads
  <2>3. g[place] = "blank"
    BY <1>1, <2>1, <2>2, KindOfIs
  <2>. QED  BY <2>3 DEF Opening
<1>4. e - 1 = place /\ e # Len(source) + 2 /\ (\A i \in place .. e - 1 : i = place) /\ place' = e
  BY <1>1, <1>2
<1>. QED  BY <1>3, <1>4, CoverPassed

(* What Comment passes over is read as a comment, up to the newline or the *)
(* end.                                                                    *)
LEMMA CommentReads ==
  ASSUME TokenInv, SaysInv, CoverInv, Comment
  PROVE  CoverInv'
<1>. DEFINE S == {j \in place .. Len(source) + 1 : Char(j) \in {"\n", "NUL"}}
<1>1. /\ place \in 1 .. Len(source) /\ Len(source) \in Nat /\ TextOK /\ place \in Nat
      /\ Len(source) + 1 \in S /\ S \subseteq Nat /\ Looking
  BY TextDomain DEF TokenInv, PlacesOK, Comment, Looking
<1>2. Min(S) \in S /\ \A i \in S : Min(S) <= i
  BY <1>1, MinIs
<1>3. PICK m \in Nat : m = Min(S)
  BY <1>1, <1>2
<1>4. place' = m + 1 /\ UNCHANGED <<source, tokens>> /\ Char(place) = "#"
  BY <1>3 DEF Comment
<1>5. m \in place + 1 .. Len(source) + 1
  <2>1. place \notin S
    BY <1>4
  <2>. QED  BY <1>1, <1>2, <1>3, <2>1
<1>6. ASSUME NEW i \in place + 1 .. m - 1  PROVE source[i] # "\n" /\ i \in 1 .. Len(source)
  <2>1. i \in place .. Len(source) + 1 /\ ~ (m <= i) /\ i \in 1 .. Len(source)
    BY <1>1, <1>5
  <2>2. i \notin S
    BY <1>2, <1>3, <2>1
  <2>. QED  BY <2>1, <2>2, <1>1, TextDomain
<1>7. m <= Len(source) => source[m] = "\n"
  BY <1>1, <1>2, <1>3, <1>5, TextDomain
<1>. HIDE DEF S
<1>8. PICK e \in place .. Len(source) + 2 : e = m + 1
  BY <1>1, <1>5
<1>9. PICK b \in Nat : b = m - 1
  BY <1>1, <1>5
<1>10. ASSUME NEW g, NEW W, W = Passed, Reads(g, source, W), Covers(g)
       PROVE  /\ \A i \in place .. b : g[i] = "comment"
              /\ m <= Len(source) => g[m] = "blank"
  <2>1. g[place - 1] \notin Opening
    BY <1>1, <1>10 DEF Covers, Looking
  <2>2. \A i \in 1 .. Len(source) : g[i] = KindOf(g[i - 1], source[i], i, W)
    BY <1>10 DEF Reads
  <2>3. place \notin W
    BY <1>1, <1>10, NotPassed
  <2>4. g[place] = "comment"
    <3>1. g[place] = KindOf(g[place - 1], "#", place, W)
      BY <1>1, <1>4, <2>2, TextDomain
    <3>. QED  BY <2>1, <2>3, <3>1, KindOfIs
  <2>5. \A i \in place .. b : g[i] = "comment"
    <3>1. b <= Len(source) /\ \A i \in place + 1 .. b : source[i] # "\n"
      BY <1>1, <1>5, <1>6, <1>9
    <3>. QED  BY <1>1, <1>10, <2>4, <3>1, CommentOn
  <2>6. ASSUME m <= Len(source)  PROVE g[m] = "blank"
    <3>1. m \in 1 .. Len(source) /\ m - 1 = b /\ b \in place .. b
      BY <1>1, <1>5, <1>9, <2>6
    <3>2. g[m] = KindOf("comment", "\n", m, W)
      BY <1>7, <2>2, <2>5, <2>6, <3>1
    <3>. QED  BY <3>2, KindOfIs
  <2>. QED  BY <2>5, <2>6
<1>11. ASSUME NEW g, NEW W, W = Passed, Reads(g, source, W), Covers(g)
       PROVE  /\ e <= Len(source) + 1 => g[e - 1] \notin Opening
              /\ e = Len(source) + 2 => g[Len(source)] # "string"
              /\ \A i \in place .. e - 1 : i \in 1 .. Len(source) => g[i] \in {"blank", "comment"}
  <2>1. (\A i \in place .. b : g[i] = "comment") /\ (m <= Len(source) => g[m] = "blank")
    BY <1>10, <1>11
  <2>2. e - 1 = m /\ e <= Len(source) + 1 => g[e - 1] \notin Opening
    BY <1>1, <1>5, <1>8, <2>1 DEF Opening
  <2>3. e = Len(source) + 2 => g[Len(source)] # "string"
    <3>1. e = Len(source) + 2 => Len(source) \in place .. b
      BY <1>1, <1>5, <1>8, <1>9
    <3>. QED  BY <2>1, <3>1
  <2>4. \A i \in place .. e - 1 : i = m \/ i \in place .. b
    BY <1>1, <1>5, <1>8, <1>9
  <2>5. \A i \in place .. e - 1 : i \in 1 .. Len(source) => g[i] \in {"blank", "comment"}
    <3>. SUFFICES ASSUME NEW i \in place .. e - 1, i \in 1 .. Len(source)
                  PROVE  g[i] \in {"blank", "comment"}
      OBVIOUS
    <3>1. CASE i = m
      BY <2>1, <3>1
    <3>2. CASE i # m
      BY <2>1, <2>4, <3>2
    <3>. QED  BY <3>1, <3>2
  <2>6. e - 1 = m
    BY <1>8
  <2>. QED  BY <2>2, <2>3, <2>5, <2>6
<1>12. place' = e
  BY <1>4, <1>8
<1>. QED  BY <1>4, <1>11, <1>12, CoverPassed

(* Steps that read nothing leave all this as it is. *)
LEMMA CoverStays ==
  ASSUME TokenInv, CoverInv, UNCHANGED <<source, place, tokens>>
  PROVE  CoverInv'
<1>1. Len(source) \in Nat /\ place \in 1 .. Len(source) + 2
  BY TextDomain DEF TokenInv, PlacesOK
<1>2. PICK e \in place .. Len(source) + 2 : e = place
  BY <1>1
<1>3. \A g : Covers(g) =>
        /\ e <= Len(source) + 1 => g[e - 1] \notin Opening
        /\ e = Len(source) + 2 => g[Len(source)] # "string"
  BY <1>2 DEF Covers
<1>4. place' = e /\ \A i \in place .. e - 1 : FALSE
  BY <1>1, <1>2
<1>. QED  BY <1>3, <1>4, CoverPassed

(* CoverInv is inductive. *)
LEMMA CoverNext == ASSUME TokenInv, SaysInv, CoverInv, [Next]_vars  PROVE CoverInv'
<1>1. CASE TokenizeStep
  <2>1. CASE \E j, type : Took(j, type)
    BY <2>1, CoverToken DEF Took
  <2>2. CASE SkipBlank
    BY <2>2, BetweenReads DEF SkipBlank, Between
  <2>3. CASE NewLine
    BY <2>3, BetweenReads DEF NewLine, Between
  <2>4. CASE Comment
    BY <2>4, CommentReads
  <2>5. CASE \E what \in {"tokens", "message", "exception"} : Return(what) /\ tokenized = "nothing"
    BY <2>5, CoverStays DEF Return
  <2>. QED  BY Zenon, <1>1, <2>1, <2>2, <2>3, <2>4, <2>5, StepTakes
<1>2. CASE UNCHANGED tokenizerVars
  BY <1>2, CoverStays DEF tokenizerVars
<1>. QED  BY <1>1, <1>2, StepOfTokenizer

(* What the pieces of a token are taken for. *)
LEMMA TokenReads ==
  ASSUME TokenInv, SaysInv, NEW g, Reads(g, source, Passed), Covers(g),
         NEW k \in DOMAIN tokens, NEW i \in tokens[k].start .. Stop(tokens[k]) - 1
  PROVE  /\ i \in 1 .. Len(source)
         /\ IF tokens[k].type = "STRING_LIT" THEN g[i] \in {"string", "closing"}
            ELSE g[i] \in {"blank", "text"} /\ Plain(tokens[k].start, i)
<1>1. Len(source) \in Nat /\ TextOK
  BY TextDomain DEF TokenInv, PlacesOK
<1>2. PICK p \in 1 .. Len(source) : p = tokens[k].start
  BY DEF TokenInv, PlacesOK
<1>3. PICK j \in p + 1 .. Len(source) + 1 : j = Stop(tokens[k])
  BY <1>2 DEF TokenInv, PlacesOK
<1>4. PICK type : type = tokens[k].type
  OBVIOUS
<1>5. Says(p, j, type) /\ Cut(p, j, type)
  BY Zenon, <1>2, <1>3, <1>4 DEF SaysInv
<1>6. g[p - 1] \notin Opening
  BY <1>2 DEF Covers
<1>7. p \notin Passed /\ j \in Nat /\ p \in Nat /\ i \in p .. j - 1 /\ i \in 1 .. Len(source)
  BY <1>1, <1>2, <1>3, NotPassed
<1>8. CASE type = "STRING_LIT"
  <2>1. Quoted(p, j)
    BY <1>5, <1>8 DEF Cut
  <2>. QED  BY <1>1, <1>4, <1>6, <1>7, <1>8, <2>1, QuotedReads
<1>9. CASE type # "STRING_LIT"
  <2>1. \A l \in p .. j - 1 : Plain(p, l)
    BY <1>1, <1>5, <1>7, <1>9, PlainToken
  <2>2. j > p + 3 /\ BehindMouse(p + 3) => p + 3 \in Passed
    <3>1. j > p + 3 => p + 3 \in 1 .. Len(source) /\ (p + 3) - 3 = p
      BY <1>1, <1>7
    <3>2. Begins(p)
      BY <1>2 DEF Begins
    <3>. QED  BY Zenon, <3>1, <3>2 DEF Passed, Swallowed
  <2>3. g[i] \in {"blank", "text"}
    BY <1>1, <1>6, <1>7, <2>1, <2>2, PlainReads
  <2>. QED  BY <1>2, <1>4, <1>7, <1>9, <2>1, <2>3
<1>. QED  BY <1>8, <1>9

(* At the end of the text CoverInv is the claim. *)
LEMMA CoverAll == ASSUME TokenInv, SaysInv, CoverInv  PROVE TokensCoverTheText
<1>1. /\ Len(source) \in Nat /\ DOMAIN source = 1 .. Len(source) /\ Len(tokens) \in Nat
      /\ DOMAIN tokens = 1 .. Len(tokens)
  BY TextDomain DEF TokenInv, PlacesOK
<1>2. PICK g : g = Kinds
  OBVIOUS
<1>3. Reads(g, source, Passed) /\ Covers(g)
  BY Zenon, <1>1, <1>2, KindsRead DEF CoverInv
<1>4. \A k \in 1 .. Len(tokens) - 1 : Stop(tokens[k]) <= tokens[k + 1].start
  <2>1. \A k, l \in DOMAIN tokens : k < l => Stop(tokens[k]) <= tokens[l].start
    BY Zenon DEF TokenInv, PlacesOK
  <2>2. \A k \in 1 .. Len(tokens) - 1 : k \in DOMAIN tokens /\ k + 1 \in DOMAIN tokens /\ k < k + 1
    BY <1>1
  <2>. QED  BY Zenon, <2>1, <2>2
<1>5. ASSUME NEW i \in DOMAIN source, i < place
      PROVE  /\ g[i] \in {"text", "string", "closing"} => InToken(i)
             /\ g[i] = "comment" => ~ InToken(i)
  <2>1. InToken(i) \/ g[i] \in {"blank", "comment"}
    BY <1>1, <1>3, <1>5 DEF Covers
  <2>2. InToken(i) => g[i] \in {"string", "closing", "blank", "text"}
    BY <1>3, TokenReads DEF InToken
  <2>. QED  BY <2>1, <2>2
<1>. QED  BY Zenon, <1>2, <1>4, <1>5 DEF TokensCoverTheText

(* Nothing of a text is read twice or left out: behind tokenize no two     *)
(* tokens overlap, every piece of text and of strings it has passed is in  *)
(* one, and no piece of a comment is.                                      *)
THEOREM CoverCorrect == Spec => []TokensCoverTheText
<1>1. Init => SaysInv
  BY DEF Init, TokenizerInit, SaysInv
<1>2. Init => CoverInv
  BY CoverInit
<1>3. TokenInv /\ SaysInv /\ CoverInv /\ [Next]_vars => SaysInv' /\ CoverInv'
  BY SaysNext, CoverNext
<1>. QED  BY <1>1, <1>2, <1>3, CoverAll, TokensCorrect, PTL DEF Spec

(* IsText, for any reading of the text. *)
Right(g) ==
  /\ g[Len(source)] # "string"
  /\ \A i \in DOMAIN source : g[i] = "text" =>
       \/ source[i] \in AlNum \cup DOMAIN Symbol
       \/ Swallowed(i)
       \/ Begins(i - 3) /\ Hyphened(i)
  /\ ~ \E i \in DOMAIN source :
         /\ g[i] = "text" /\ Char(i) = "0" /\ Char(i + 1) = "x"
         /\ Char(i + 2) \notin HexDigit
         /\ ~ Inside(i)

(* IsText asks of Kinds what Right asks of any reading. *)
LEMMA IsTextIs == IsText <=> Right(Kinds)
BY Zenon DEF IsText, Right, Hyphened, SP

(* All of a text is read before its tokens are returned, and what is       *)
(* returned for a message is wrong somewhere.                              *)
ErrorInv ==
  /\ tokenized = "tokens" => place > Len(source)
  /\ tokenized = "message" => \A g, W : W = Passed /\ Reads(g, source, W) => ~ Right(g)

(* A text that has been read to its end without a message is right. *)
LEMMA TextIsRight ==
  ASSUME TokenInv, SaysInv, CoverInv, place > Len(source), NEW g, Reads(g, source, Passed)
  PROVE  Right(g)
<1>1. /\ Len(source) \in Nat /\ DOMAIN source = 1 .. Len(source) /\ TextOK
      /\ place \in 1 .. Len(source) + 2 /\ \A i \in 1 .. Len(source) : Char(i) = source[i]
  BY TextDomain DEF TokenInv, PlacesOK
<1>2. Covers(g)
  BY Zenon DEF CoverInv
<1>3. g[Len(source)] # "string"
  <2>1. place = Len(source) + 1 \/ place = Len(source) + 2
    BY <1>1
  <2>2. place = Len(source) + 1 => place - 1 = Len(source)
    BY <1>1
  <2>3. place = Len(source) + 1 => place <= Len(source) + 1
    BY <1>1
  <2>. QED  BY <1>2, <2>1, <2>2, <2>3 DEF Covers, Opening
<1>4. ASSUME NEW i \in DOMAIN source, g[i] = "text"
      PROVE  \E k \in DOMAIN tokens :
               /\ i \in tokens[k].start .. Stop(tokens[k]) - 1 /\ tokens[k].type # "STRING_LIT"
               /\ Plain(tokens[k].start, i)
  <2>1. InToken(i)
    <3>1. i < place /\ i \in 1 .. Len(source)
      BY <1>1
    <3>. QED  BY <1>2, <1>4, <3>1 DEF Covers
  <2>2. PICK k \in DOMAIN tokens : i \in tokens[k].start .. Stop(tokens[k]) - 1
    BY <2>1 DEF InToken
  <2>. QED  BY <1>2, <1>4, <2>2, TokenReads
<1>5. ASSUME NEW i \in DOMAIN source, g[i] = "text"
      PROVE  \/ source[i] \in AlNum \cup DOMAIN Symbol
             \/ Swallowed(i)
             \/ Begins(i - 3) /\ Hyphened(i)
  <2>1. PICK k \in DOMAIN tokens : Plain(tokens[k].start, i)
    BY <1>4, <1>5
  <2>2. PICK p \in 1 .. Len(source) : p = tokens[k].start
    BY DEF TokenInv, PlacesOK
  <2>3. i = p + 3 => i - 3 = p
    BY <1>1
  <2>4. Begins(p)
    BY <2>2 DEF Begins
  <2>5. source[i] \notin Blank
    <3>1. g[i] = KindOf(g[i - 1], source[i], i, Passed)
      BY <1>1 DEF Reads
    <3>2. CASE g[i - 1] = "string"
      BY <1>5, <3>1, <3>2, KindOfIs
    <3>3. CASE g[i - 1] = "comment"
      BY <1>5, <3>1, <3>3, KindOfIs
    <3>4. CASE g[i - 1] \notin Opening
      BY <1>5, <3>1, <3>4, KindOfIs DEF Between
    <3>. QED  BY <3>2, <3>3, <3>4 DEF Opening
  <2>. QED  BY Zenon, <1>1, <2>1, <2>2, <2>3, <2>4, <2>5 DEF Plain, Swallowed
<1>6. ASSUME NEW i \in DOMAIN source, g[i] = "text", Char(i) = "0", Char(i + 1) = "x", ~ Inside(i)
      PROVE  Char(i + 2) \in HexDigit
  <2>1. PICK k \in DOMAIN tokens :
          i \in tokens[k].start .. Stop(tokens[k]) - 1 /\ tokens[k].type # "STRING_LIT"
    BY <1>4, <1>6
  <2>2. PICK p, j, type : p = tokens[k].start /\ j = Stop(tokens[k]) /\ type = tokens[k].type
    OBVIOUS
  <2>3. p \in Nat /\ j \in Nat
    BY <1>1, <2>2 DEF TokenInv, PlacesOK
  <2>4. i = p
    <3>1. i \notin p + 1 .. j - 1
      BY Zenon, <1>6, <2>2 DEF Inside
    <3>. QED  BY <1>1, <2>1, <2>2, <2>3, <3>1
  <2>5. Cut(p, j, type)
    BY Zenon, <2>2 DEF SaysInv
  <2>6. "0" \notin Letters
    BY Unlike
  <2>. QED  BY <1>6, <2>1, <2>2, <2>4, <2>5, <2>6 DEF Cut
<1>. QED  BY <1>3, <1>5, <1>6 DEF Right

(* Where tokenize looks, no string and no comment is open. *)
LEMMA ReadsHere ==
  ASSUME TokenInv, SaysInv, CoverInv, Looking, NEW g, Reads(g, source, Passed)
  PROVE  /\ place \in 1 .. Len(source) /\ Len(source) \in Nat /\ place \in Nat /\ TextOK
         /\ Char(place) = source[place] /\ place \notin Passed /\ g[place - 1] \notin Opening
         /\ g[place] = KindOf(g[place - 1], source[place], place, Passed)
<1>1. /\ place \in 1 .. Len(source) /\ Len(source) \in Nat /\ place \in Nat
      /\ Char(place) = source[place] /\ TextOK
  BY TextDomain DEF TokenInv, PlacesOK, Looking
<1>2. Covers(g)
  BY Zenon DEF CoverInv
<1>3. g[place - 1] \notin Opening
  BY <1>1, <1>2 DEF Covers
<1>. QED  BY <1>1, <1>3, NotPassed DEF Reads

(* Where a string is not closed, the text is wrong. *)
LEMMA StringUnclosed ==
  ASSUME TokenInv, SaysInv, CoverInv, Looking, NEW g, Reads(g, source, Passed),
         Char(place) = Quo, {j \in place + 1 .. Len(source) : Char(j) = Quo} = {}
  PROVE  ~ Right(g)
<1>1. /\ place \in 1 .. Len(source) /\ Len(source) \in Nat /\ place \in Nat /\ TextOK
      /\ g[place] = "string"
  BY ReadsHere, KindOfIs
<1>2. \A i \in place + 1 .. Len(source) : source[i] # Quo
  <2>. SUFFICES ASSUME NEW i \in place + 1 .. Len(source), source[i] = Quo  PROVE FALSE
    OBVIOUS
  <2>1. i \in 1 .. Len(source)
    BY <1>1
  <2>2. Char(i) = Quo
    BY <1>1, <2>1, TextDomain
  <2>. QED  BY <2>2
<1>3. PICK b \in Nat : b = Len(source)
  BY <1>1
<1>4. \A i \in place .. b : g[i] = "string"
  BY <1>1, <1>2, <1>3, QuotedOn
<1>. QED  BY <1>1, <1>3, <1>4 DEF Right

(* A piece tokenize takes for the first of a word, a number or a sign is   *)
(* text.                                                                   *)
LEMMA TextHere ==
  ASSUME TokenInv, SaysInv, CoverInv, Looking, NEW g, Reads(g, source, Passed),
         Char(place) \notin Blank \cup {"\n", "#", Quo}
  PROVE  g[place] = "text"
<1>1. /\ g[place - 1] \notin Opening /\ Char(place) = source[place]
      /\ g[place] = KindOf(g[place - 1], source[place], place, Passed)
  BY ReadsHere
<1>. QED  BY <1>1, KindOfIs DEF Between

(* A token before the place does not reach it. *)
LEMMA NotInside == ASSUME TokenInv  PROVE ~ Inside(place) /\ place \in Nat
<1>1. Len(source) \in Nat /\ place \in Nat
  BY TextDomain DEF TokenInv, PlacesOK
<1>2. ASSUME NEW k \in DOMAIN tokens  PROVE place \notin tokens[k].start + 1 .. Stop(tokens[k]) - 1
  <2>1. Stop(tokens[k]) \in Nat /\ Stop(tokens[k]) <= place
    BY <1>1 DEF TokenInv, PlacesOK
  <2>. QED  BY <1>1, <2>1
<1>. QED  BY <1>1, <1>2 DEF Inside

(* Where 0x is followed by no digit, the text is wrong. *)
LEMMA HexUnfinished ==
  ASSUME TokenInv, SaysInv, CoverInv, Looking, NEW g, Reads(g, source, Passed),
         AtHex, Char(place + 2) \notin HexDigit
  PROVE  ~ Right(g)
<1>1. Char(place) = "0" /\ Char(place + 1) = "x"
  BY DEF AtHex
<1>2. "0" \notin Blank \cup {"\n", "#", Quo}
  BY Zenon DEF Blank, Quo
<1>3. g[place] = "text"
  BY <1>1, <1>2, TextHere
<1>4. place \in DOMAIN source
  BY ReadsHere, TextDomain
<1>. QED  BY <1>1, <1>3, <1>4, NotInside DEF Right

(* `on double-click' is one token. *)
LEMMA HyphenInside ==
  ASSUME TextOK, NEW p \in 1 .. Len(source), NEW type, NEW j \in Nat,
         Says(p, j, type), Cut(p, j, type), Hyphened(p + 3)
  PROVE  j = p + 5
<1>1. p \in Nat /\ Len(source) \in Nat
  BY TextDomain
<1>2. PICK i : i = p + 3
  OBVIOUS
<1>3. i - 3 = p /\ i + 2 = p + 5
  BY <1>1, <1>2
<1>4. PICK e \in Nat : e = p + 5
  BY <1>1
<1>5. Lowered(p, e) = <<"on", SP, "double", "-", "click">> /\ Char(e) \notin AlNum \cup {"-"}
  BY Zenon, <1>2, <1>3, <1>4 DEF Hyphened
<1>6. PICK u : u = <<"on", SP, "double", "-", "click">>
  OBVIOUS
<1>7. Matches(p, u)
  <2>1. PICK S : S = {"on", SP, "double", "-", "click"}
    OBVIOUS
  <2>2. u \in Seq(S)
    BY <1>6, <2>1
  <2>3. Lowered(p, e) = u /\ p <= e
    BY <1>1, <1>4, <1>5, <1>6
  <2>. QED  BY <1>1, <2>2, <2>3, LoweredMatches
<1>8. /\ Low(Char(p)) = "on" /\ Low(Char(p + 1)) = SP /\ Low(Char(p + 2)) = "double"
      /\ Low(Char(p + 3)) = "-" /\ Low(Char(p + 4)) = "click"
  BY Zenon, <1>1, <1>6, <1>7, MatchesFew
<1>9. Char(p) \in Letters /\ Lower[Char(p)] = "on" /\ Char(p + 1) = SP
  BY <1>8, LowIs, WordsAre, BlankHere DEF Low
<1>10. type # "STRING_LIT"
  <2>1. Quo \notin Letters
    BY Zenon, PiecesAssumption DEF Quo
  <2>. QED  BY <1>9, <2>1 DEF Cut, Quoted
<1>11. type \notin Literal
  <2>1. SP \notin Digit
    BY Zenon, BlankIs DEF AlNum
  <2>. QED  BY <1>9, <1>10, <2>1 DEF Cut
<1>12. DoubleClick \in DOMAIN Trigger /\ Len(DoubleClick) = 3
  BY Triggers DEF DoubleClick
<1>13. Here(p, BehindOn(DoubleClick))
  <2>1. PICK i2 \in Nat : i2 = p + 2
    BY <1>1
  <2>2. Matches(i2, <<"double", "-", "click">>)
    <3>1. i2 + 1 = p + 3 /\ i2 + 2 = p + 4
      BY <1>1, <2>1
    <3>2. Low(Char(i2)) = "double" /\ Low(Char(i2 + 1)) = "-" /\ Low(Char(i2 + 2)) = "click"
      BY Zenon, <1>8, <2>1, <3>1
    <3>3. \A a, b, c : Matches(i2, <<a, b, c>>) <=>
              Low(Char(i2)) = a /\ Low(Char(i2 + 1)) = b /\ Low(Char(i2 + 2)) = c
      BY MatchesFew
    <3>. QED  BY Zenon, <3>2, <3>3
  <2>3. Matches(p + 2, DoubleClick)
    BY Zenon, <2>1, <2>2 DEF DoubleClick
  <2>4. p + 2 + Len(DoubleClick) = e
    BY <1>1, <1>4, <1>12
  <2>. QED  BY Zenon, <1>1, <1>5, <1>9, <1>12, <2>3, <2>4, HereBehindOn
<1>14. PICK q \in Written : Here(p, q) /\ j - p = Len(q.text)
  BY Zenon, <1>11, <1>12, <1>13, WrittenIs DEF Says
<1>15. "on" \notin DOMAIN OneWord /\ "on" \notin DOMAIN GoesOn /\ "on" # "mouse"
  <2>1. "on" \notin DOMAIN OneWord
    BY DEF OneWord
  <2>2. DOMAIN GoesOn = {"switch", "reset", "pass", "reload", "at", "until", "other", "block"}
    BY Zenon DEF GoesOn
  <2>. QED  BY <2>1, <2>2
<1>16. \A w \in DOMAIN OneWord : q # Alone(w)
  <2>. SUFFICES ASSUME NEW w \in DOMAIN OneWord, q = Alone(w)  PROVE FALSE
    BY Zenon
  <2>1. Lower[Char(p)] = w
    BY Zenon, <1>1, <1>9, <1>14, HereAlone
  <2>. QED  BY Zenon, <1>9, <1>15, <2>1
<1>17. \A v \in DOMAIN MouseWord : \A d \in DOMAIN MouseWord[v] : q # OfMouse(v, d)
  <2>. SUFFICES ASSUME NEW v \in DOMAIN MouseWord, NEW d \in DOMAIN MouseWord[v], q = OfMouse(v, d)
                PROVE  FALSE
    BY Zenon
  <2>1. Lower[Char(p)] = "mouse"
    BY Zenon, <1>1, <1>9, <1>14, HereOfMouse
  <2>. QED  BY Zenon, <1>9, <1>15, <2>1
<1>18. \A w \in DOMAIN GoesOn \ {"at"} : q # Long(w)
  <2>. SUFFICES ASSUME NEW w \in DOMAIN GoesOn, q = Long(w)  PROVE FALSE
    BY Zenon
  <2>1. Lower[Char(p)] = w
    BY Zenon, <1>1, <1>9, <1>14, HereLong
  <2>. QED  BY Zenon, <1>9, <1>15, <2>1
<1>19. PICK t \in DOMAIN Trigger : q = BehindOn(t)
  BY Zenon, <1>16, <1>17, <1>18, WrittenIs
<1>20. Len(q.text) = 2 + Len(t) /\ Matches(p + 2, t)
  BY Zenon, <1>1, <1>9, <1>14, <1>19, HereBehindOn
<1>21. t = DoubleClick
  <2>. SUFFICES ASSUME NEW w \in DOMAIN OnWord, t = <<w>>  PROVE FALSE
    BY Zenon, Triggers
  <2>1. PICK i2 \in Nat : i2 = p + 2
    BY <1>1
  <2>2. Low(Char(i2)) = w
    BY Zenon, <1>20, <2>1, MatchesFew
  <2>3. "double" \notin DOMAIN OnWord
    BY DEF OnWord
  <2>. QED  BY Zenon, <1>8, <2>1, <2>2, <2>3
<1>22. j - p = 5
  <2>1. Len(q.text) = 2 + 3
    BY Zenon, <1>12, <1>20, <1>21
  <2>. QED  BY <1>14, <2>1
<1>. QED  BY <1>1, <1>22

(* Where no token can begin, the text is wrong. *)
LEMMA UnexpectedHere ==
  ASSUME TokenInv, SaysInv, CoverInv, Looking, NEW g, Reads(g, source, Passed),
         Char(place) \notin AlNum \cup Blank \cup DOMAIN Symbol \cup {"\n", "#", Quo}
  PROVE  ~ Right(g)
<1>1. /\ place \in DOMAIN source /\ Char(place) = source[place] /\ TextOK /\ place \in Nat
      /\ Len(source) \in Nat
  BY ReadsHere, TextDomain
<1>2. g[place] = "text"
  BY Zenon, TextHere
<1>3. ~ Swallowed(place)
  BY ReadsHere, TextDomain DEF Passed
<1>4. ~ (Begins(place - 3) /\ Hyphened(place))
  <2>. SUFFICES ASSUME Begins(place - 3), Hyphened(place)  PROVE FALSE
    OBVIOUS
  <2>1. PICK k \in DOMAIN tokens : tokens[k].start = place - 3
    BY DEF Begins
  <2>2. PICK p, j, type : p = tokens[k].start /\ j = Stop(tokens[k]) /\ type = tokens[k].type
    OBVIOUS
  <2>3. p \in 1 .. Len(source) /\ j \in Nat /\ j <= place /\ p + 3 = place
    BY <1>1, <2>1, <2>2 DEF TokenInv, PlacesOK
  <2>4. Says(p, j, type) /\ Cut(p, j, type)
    BY Zenon, <2>2 DEF SaysInv
  <2>5. j = p + 5
    BY <1>1, <2>3, <2>4, HyphenInside
  <2>. QED  BY <1>1, <2>3, <2>5
<1>5. source[place] \notin AlNum \cup DOMAIN Symbol
  BY <1>1
<1>. QED  BY <1>1, <1>2, <1>3, <1>4, <1>5 DEF Right

(* A message is returned where the text is wrong. *)
LEMMA MessageIsRight ==
  ASSUME TokenInv, SaysInv, CoverInv, TokenizeStep, tokenized' = "message", tokenized # "message",
         NEW g, Reads(g, source, Passed)
  PROVE  ~ Right(g)
<1>1. String \/ HexLiteral \/ Unexpected
  BY DEF TokenizeStep, SkipBlank, NewLine, Comment, Sign, Number, RowOrKey, OnTrigger, MouseAction,
         MouseThrows, SingleWord, LongPhrase, Identifier, EndOfText, Return, Token
<1>2. CASE String
  <2>1. Looking /\ Char(place) = Quo
    BY Zenon, <1>2 DEF String, Quo
  <2>2. PICK quotes : quotes = {j \in place + 1 .. Len(source) : Char(j) = Quo}
    OBVIOUS
  <2>3. IF quotes # {} THEN Token(Min(quotes) + 1, "STRING_LIT") ELSE Return("message")
    BY Zenon, <1>2, <2>2 DEF String, Quo
  <2>4. quotes = {}
    BY <2>3 DEF Token
  <2>. QED  BY <2>1, <2>2, <2>4, StringUnclosed
<1>3. CASE HexLiteral
  BY <1>3, HexUnfinished DEF HexLiteral, Token
<1>4. CASE Unexpected
  <2>1. Looking /\ Char(place) \notin AlNum \cup Blank \cup DOMAIN Symbol \cup {"\n", "#", Quo}
    BY Zenon, <1>4 DEF Unexpected, Quo
  <2>. QED  BY <2>1, UnexpectedHere
<1>. QED  BY <1>1, <1>2, <1>3, <1>4

(* Whether a text is right depends on it and on its tokens. *)
LEMMA RightStays ==
  ASSUME UNCHANGED <<source, tokens>>
  PROVE  /\ Passed' = Passed
         /\ \A g : Right(g)' <=> Right(g)
<1>1. \A i : BehindMouse(i)' <=> BehindMouse(i)
  BY SaysUnchanged
<1>2. \A i : (Begins(i)' <=> Begins(i)) /\ (Inside(i)' <=> Inside(i))
  BY DEF Begins, Inside, Stop
<1>3. \A i : Swallowed(i)' <=> Swallowed(i)
  BY Zenon, <1>1, <1>2 DEF Swallowed
<1>4. \A i : Char(i)' = Char(i)
  BY DEF Char
<1>5. \A i, j : Lowered(i, j)' = Lowered(i, j)
  BY <1>4 DEF Lowered
<1>6. \A i : Hyphened(i)' <=> Hyphened(i)
  BY Zenon, <1>4, <1>5 DEF Hyphened
<1>7. Passed' = Passed
  BY <1>3 DEF Passed
<1>8. ASSUME NEW g  PROVE Right(g)' <=> Right(g)
  BY Zenon, <1>2, <1>3, <1>4, <1>6 DEF Right
<1>. QED  BY <1>7, <1>8

(* ErrorInv is inductive. *)
LEMMA ErrorNext == ASSUME TokenInv, SaysInv, CoverInv, ErrorInv, [Next]_vars  PROVE ErrorInv'
<1>1. CASE UNCHANGED <<source, place, tokens, tokenized>>
  <2>1. Passed' = Passed /\ \A g : Right(g)' <=> Right(g)
    BY <1>1, RightStays
  <2>2. ASSUME tokenized' = "message", NEW g, NEW W, W = Passed', Reads(g, source', W)
        PROVE  ~ Right(g)'
    <3>1. tokenized = "message" /\ W = Passed /\ Reads(g, source, W)
      BY <1>1, <2>1, <2>2
    <3>. QED  BY Zenon, <2>1, <3>1 DEF ErrorInv
  <2>3. tokenized' = "tokens" => place' > Len(source')
    BY <1>1 DEF ErrorInv
  <2>. QED  BY Zenon, <2>2, <2>3 DEF ErrorInv
<1>2. CASE TokenizeStep /\ tokenized' = "message"
  <2>1. tokenized = "nothing"
    BY <1>2, StepTakes DEF Took, Token, Looking, SkipBlank, NewLine, Comment
  <2>2. UNCHANGED <<source, tokens>>
    BY <1>2, <2>1, StepTakes DEF Took, Token, SkipBlank, NewLine, Comment, Return
  <2>3. Passed' = Passed /\ \A g : Right(g)' <=> Right(g)
    BY <2>2, RightStays
  <2>4. ASSUME NEW g, NEW W, W = Passed', Reads(g, source', W)  PROVE ~ Right(g)'
    <3>1. Reads(g, source, Passed)
      BY <2>2, <2>3, <2>4
    <3>2. ~ Right(g)
      BY <1>2, <2>1, <3>1, MessageIsRight
    <3>. QED  BY <2>3, <3>2
  <2>5. tokenized' # "tokens"
    BY <1>2
  <2>. QED  BY Zenon, <2>4, <2>5 DEF ErrorInv
<1>3. CASE TokenizeStep /\ tokenized' # "message"
  <2>1. tokenized = "nothing"
    BY <1>3, StepTakes DEF Took, Looking, SkipBlank, NewLine, Comment
  <2>2. tokenized' = "tokens" => EndOfText
    BY <1>3, <2>1 DEF TokenizeStep, SkipBlank, NewLine, Comment, Sign, Number, RowOrKey, OnTrigger,
          MouseAction, String, HexLiteral, Unexpected,
          MouseThrows, SingleWord, LongPhrase, Identifier, Return, Token
  <2>3. tokenized' = "tokens" => place' > Len(source')
    BY <2>2 DEF EndOfText, Return
  <2>. QED  BY Zenon, <1>3, <2>3 DEF ErrorInv
<1>4. UNCHANGED tokenizerVars => UNCHANGED <<source, place, tokens, tokenized>>
  BY DEF tokenizerVars
<1>. QED  BY <1>1, <1>2, <1>3, <1>4, StepOfTokenizer

(* tokenize returns a message for a text that is wrong, and for no other. *)
TextRead == (tokenized = "tokens" => IsText) /\ (tokenized = "message" => ~ IsText)

(* When tokenize has returned, ErrorInv is the claim. *)
LEMMA ReadAll == ASSUME TokenInv, SaysInv, CoverInv, ErrorInv  PROVE TextRead
<1>1. Len(source) \in Nat
  BY TextDomain DEF TokenInv, PlacesOK
<1>2. PICK g : g = Kinds
  OBVIOUS
<1>3. Reads(g, source, Passed)
  BY <1>1, <1>2, KindsRead
<1>4. IsText <=> Right(g)
  BY Zenon, <1>2, IsTextIs
<1>5. tokenized = "tokens" => Right(g)
  BY <1>3, TextIsRight DEF ErrorInv
<1>6. tokenized = "message" => ~ Right(g)
  BY Zenon, <1>3 DEF ErrorInv
<1>. QED  BY <1>4, <1>5, <1>6 DEF TextRead

(* tokenize returns tokens only for a text, and an error message only for  *)
(* what is none (or a token too many for it has thrown).                   *)
THEOREM ReadCorrect == Spec => []TextRead
<1>1. Init => SaysInv
  BY DEF Init, TokenizerInit, SaysInv
<1>2. Init => CoverInv /\ ErrorInv
  BY CoverInit DEF Init, TokenizerInit, ErrorInv
<1>3. TokenInv /\ SaysInv /\ CoverInv /\ ErrorInv /\ [Next]_vars => SaysInv' /\ CoverInv' /\ ErrorInv'
  BY SaysNext, CoverNext, ErrorNext
<1>. QED  BY <1>1, <1>2, <1>3, ReadAll, TokensCorrect, PTL DEF Spec
=============================================================================
