---------------------------- MODULE Parser_proofs ----------------------------
(***************************************************************************)
(* Proofs about the parser, for texts of any length.                       *)
(*                                                                         *)
(* First where it stands in the text (Walked), what rows it has found      *)
(* (RowsFound) and bound (Rest, BoundSoFar), and the invariant made of     *)
(* these (ParserInv).  Then what the tokens of one action come to: how a   *)
(* list is split, what an action sends, what makes one and what stops it;  *)
(* and the invariant that every binding is made of such tokens (SoundInv). *)
(* Last, that what parse reads to its end is laid out, and that what it    *)
(* refuses is no keymap (Laid, AcceptInv).                                 *)
(***************************************************************************)
EXTENDS Tokenizer_proofs

(* Landmarks, and what may be part of an action but not begin one. *)
Landmark == Header \cup Mark \cup Top

LEMMA Types ==
  /\ {"ROW_LIT", "KEY_LIT", "SYM_COLON"} \cap (Allowed \cup DOMAIN OnX \cup TopWord) = {}
  /\ DOMAIN OnX \cap (Allowed \cup TopWord) = {}
  /\ TopWord \cap Allowed = {}
  /\ "SYM_COMMA" \in Allowed /\ "SYM_COMMA" \in Separator
  /\ "SYM_COMMA" \notin DOMAIN OnX \cup TopWord
BY DEF Allowed, OnX, TopWord, FrontDisallowed, Separator, SpeedWord, TimeUnit, KeyWord, LayerWord,
       BareWord, MoveWord, ScrollWord, ButtonWord

SomeTokens == \E S : tokens \in Seq(S)

LEMMA TokensAre ==
  ASSUME SomeTokens
  PROVE  Len(tokens) \in Nat /\ DOMAIN tokens = 1 .. Len(tokens)
BY DEF SomeTokens

(* Where an action ends: before the first token that is no part of one. *)
LEMMA ActionEndIs ==
  ASSUME SomeTokens, NEW i \in 1 .. Len(tokens)
  PROVE  /\ ActionEnd(i) \in i .. Len(tokens)
         /\ ActionEnd(i) = Len(tokens) \/ tokens[ActionEnd(i) + 1].type \notin Allowed
         /\ \A j \in i + 1 .. ActionEnd(i) : tokens[j].type \in Allowed
         /\ Len(ActionAt(i)) = ActionEnd(i) - i + 1
         /\ Head(ActionAt(i)) = tokens[i] /\ Last(ActionAt(i)) = tokens[ActionEnd(i)]
<1>. DEFINE S == {j \in i .. Len(tokens) : j = Len(tokens) \/ tokens[j + 1].type \notin Allowed}
            e == Min(S)
<1>1. Len(tokens) \in S /\ S \subseteq Nat /\ Len(tokens) \in Nat
  BY TokensAre
<1>2. e \in S /\ \A j \in S : e <= j
  BY <1>1, MinIs
<1>3. ActionEnd(i) = e
  BY DEF ActionEnd
<1>4. ASSUME NEW j \in i + 1 .. e  PROVE tokens[j].type \in Allowed
  <2>1. j - 1 \in i .. Len(tokens) /\ ~ (e <= j - 1) /\ (j - 1) + 1 = j /\ j - 1 # Len(tokens)
    BY <1>1, <1>2
  <2>. QED  BY <1>2, <2>1
<1>5. e \in i .. Len(tokens) /\ (e = Len(tokens) \/ tokens[e + 1].type \notin Allowed)
  BY <1>2
<1>. HIDE DEF e
<1>6. PICK R : tokens \in Seq(R)
  BY DEF SomeTokens
<1>. DEFINE a == SubSeq(tokens, i, e)
<1>7. Len(a) = e - i + 1 /\ a[1] = tokens[i] /\ a[e - i + 1] = tokens[e] /\ a \in Seq(R)
  BY <1>1, <1>5, <1>6
<1>8. ActionAt(i) = a
  BY <1>3 DEF ActionAt
<1>. HIDE DEF a
<1>9. Head(a) = a[1] /\ Last(a) = a[Len(a)]
  BY <1>7 DEF Last
<1>. QED  BY <1>1, <1>3, <1>4, <1>5, <1>7, <1>8, <1>9

(* A header and an operation's word and colon cannot be part of anything   *)
(* else that is read without error.                                        *)
LEMMA HeaderIs ==
  ASSUME SomeTokens, NEW h, HeaderAt(h), h \in 1 .. Len(tokens)
  PROVE  /\ h \in Header /\ h + 3 <= Len(tokens)
         /\ tokens[h].type = "ROW_LIT" /\ tokens[h + 1].type = "SYM_COMMA"
         /\ tokens[h + 2].type = "KEY_LIT" /\ tokens[h + 3].type = "SYM_COLON"
         /\ ~ OnXAt(h) /\ ~ TopAt(h)
         /\ \A i \in h + 1 .. h + 3 : ~ HeaderAt(i) /\ ~ OnXAt(i) /\ ~ TopAt(i)
<1>1. /\ h \in Header /\ h + 3 <= Len(tokens)
      /\ tokens[h].type = "ROW_LIT" /\ tokens[h + 1].type = "SYM_COMMA"
      /\ tokens[h + 2].type = "KEY_LIT" /\ tokens[h + 3].type = "SYM_COLON"
  BY TokensAre DEF HeaderAt, At, Header
<1>2. \A i \in h + 1 .. h + 3 : i = h + 1 \/ i = h + 2 \/ i = h + 3
  OBVIOUS
<1>. QED  BY <1>1, <1>2, Types DEF OnXAt, TopAt, HeaderAt, At

LEMMA MarkIs ==
  ASSUME SomeTokens, NEW m \in Mark
  PROVE  /\ m \in 1 .. Len(tokens) /\ m + 1 <= Len(tokens)
         /\ tokens[m].type \in DOMAIN OnX /\ tokens[m + 1].type = "SYM_COLON"
         /\ \A i \in m .. m + 1 : ~ HeaderAt(i) /\ ~ TopAt(i)
         /\ ~ OnXAt(m + 1)
<1>1. /\ m \in 1 .. Len(tokens) /\ m + 1 <= Len(tokens)
      /\ tokens[m].type \in DOMAIN OnX /\ tokens[m + 1].type = "SYM_COLON"
  BY TokensAre DEF Mark, MarkAt, OnXAt, At
<1>2. \A i \in m .. m + 1 : i = m \/ i = m + 1
  BY <1>1
<1>. QED  BY <1>1, <1>2, Types DEF OnXAt, TopAt, HeaderAt, At

(* Nothing else begins inside an action that parse_action has accepted. *)
LEMMA ActionInside ==
  ASSUME SomeTokens, NEW i \in 1 .. Len(tokens), WellBounded(ActionAt(i)), ~ MarkAt(i)
  PROVE  \A j \in i .. ActionEnd(i) : j \notin Header /\ j \notin Mark /\ (j # i => j \notin Top)
<1>1. ASSUME NEW j \in i + 1 .. ActionEnd(i)
      PROVE  j \notin Header /\ j \notin Mark /\ j \notin Top
  <2>1. tokens[j].type \in Allowed
    BY ActionEndIs
  <2>. QED  BY <2>1, Types DEF Header, Mark, Top, HeaderAt, MarkAt, OnXAt, TopAt, At
<1>2. ASSUME HeaderAt(i)  PROVE FALSE
  <2>. DEFINE e == ActionEnd(i)
  <2>1. /\ tokens[i + 1].type = "SYM_COMMA" /\ tokens[i + 2].type = "KEY_LIT"
        /\ i + 3 <= Len(tokens) /\ Len(tokens) \in Nat
    BY <1>2, HeaderIs, TokensAre
  <2>2. /\ e \in i .. Len(tokens) /\ (e = Len(tokens) \/ tokens[e + 1].type \notin Allowed)
        /\ \A j \in i + 1 .. e : tokens[j].type \in Allowed
        /\ Last(ActionAt(i)) = tokens[e]
    BY ActionEndIs
  <2>3. "SYM_COMMA" \in Allowed /\ "SYM_COMMA" \in Separator /\ "KEY_LIT" \notin Allowed
    BY Types
  <2>. HIDE DEF e
  <2>4. e # i
    BY <2>1, <2>2, <2>3
  <2>5. ~ (i + 2 \in i + 1 .. e)
    BY <2>1, <2>2, <2>3
  <2>6. e = i + 1
    BY <2>1, <2>2, <2>4, <2>5
  <2>. QED  BY <2>1, <2>2, <2>3, <2>6 DEF WellBounded
<1>3. \A j \in i .. ActionEnd(i) : j = i \/ j \in i + 1 .. ActionEnd(i)
  BY ActionEndIs, TokensAre
<1>. QED  BY <1>1, <1>2, <1>3 DEF Header, Mark

(* An operation that begins where an action should: the action is its one  *)
(* word.                                                                   *)
LEMMA ActionOfMark ==
  ASSUME SomeTokens, NEW i \in 1 .. Len(tokens), MarkAt(i)
  PROVE  ActionEnd(i) = i
<1>1. i \in Mark /\ tokens[i + 1].type = "SYM_COLON" /\ i + 1 <= Len(tokens)
  BY MarkIs, TokensAre DEF Mark
<1>2. ~ (i + 1 \in i + 1 .. ActionEnd(i))
  BY <1>1, ActionEndIs, Types
<1>. QED  BY <1>1, <1>2, ActionEndIs, TokensAre

-----------------------------------------------------------------------------

(* What parse has passed over when it stands at token n: every header and  *)
(* every operation as a whole, and actions with nothing else inside, up to *)
(* where something else begins.                                            *)
Walked(n, where) ==
  /\ n \in 1 .. Len(tokens) + 1
  /\ \A h \in Header : h < n => h + 4 <= n /\ (h + 4 = n => where = "row")
  /\ where = "row" => n - 4 \in Header
  /\ \A m \in Mark : m < n => m + 2 < n
  /\ \A a \in ActionHead : a < n =>
       /\ ActionEnd(a) < n
       /\ ActionEnd(a) + 1 \in Landmark \/ (ActionEnd(a) + 1 = n /\ where # "row")
       /\ Landmark \cap a .. ActionEnd(a) = {}

LEMMA ActionHeads ==
  \A a : a \in ActionHead <=> \/ \E h \in Header : a = h + 4 /\ ~ MarkAt(h + 4)
                              \/ \E m \in Mark : a = m + 2
BY Zenon DEF ActionHead

LEMMA Landmarks ==
  ASSUME SomeTokens
  PROVE  /\ Header \subseteq 1 .. Len(tokens) /\ Mark \subseteq 1 .. Len(tokens)
         /\ Top \subseteq 1 .. Len(tokens) /\ Len(tokens) \in Nat
         /\ \A h \in Header : h + 3 <= Len(tokens) /\ HeaderAt(h)
         /\ \A m \in Mark : m + 1 <= Len(tokens) /\ MarkAt(m)
<1>1. \A h \in Header : HeaderAt(h) /\ h \in 1 .. Len(tokens)
  BY TokensAre DEF Header
<1>2. \A m \in Mark : MarkAt(m) /\ m \in 1 .. Len(tokens)
  BY TokensAre DEF Mark
<1>3. Top \subseteq 1 .. Len(tokens)
  BY TokensAre DEF Top
<1>. QED  BY <1>1, <1>2, <1>3, HeaderIs, MarkIs, TokensAre

LEMMA NoActionHere ==
  ASSUME SomeTokens, NEW n, NEW where, Walked(n, where), where # "row"
  PROVE  n \notin ActionHead
<1>1. ASSUME NEW h \in Header, n = h + 4  PROVE FALSE
  BY <1>1, Landmarks DEF Walked
<1>2. ASSUME NEW m \in Mark, n = m + 2  PROVE FALSE
  BY <1>2, Landmarks DEF Walked
<1>. QED  BY <1>1, <1>2, ActionHeads

(* Where something else begins, the actions passed over are complete. *)
LEMMA ActionsPassed ==
  ASSUME SomeTokens, NEW n, NEW where, Walked(n, where), n \in Landmark \/ where = "row",
         NEW k \in Nat, n < k, NEW a \in ActionHead, a < n
  PROVE  /\ ActionEnd(a) < k /\ ActionEnd(a) + 1 \in Landmark
         /\ Landmark \cap a .. ActionEnd(a) = {}
<1>1. n \in Nat /\ n <= Len(tokens) + 1 /\ Len(tokens) \in Nat
  BY Landmarks DEF Walked
<1>2. a \in Nat /\ a >= 1
  BY ActionHeads, Landmarks
<1>3. a \in 1 .. Len(tokens)
  BY <1>1, <1>2
<1>4. ActionEnd(a) < n /\ ActionEnd(a) + 1 \in Landmark /\ Landmark \cap a .. ActionEnd(a) = {}
  BY DEF Walked
<1>5. ActionEnd(a) \in Nat
  BY <1>1, <1>3, ActionEndIs
<1>. QED  BY <1>1, <1>4, <1>5

(* One word of the language that is no part of a row. *)
LEMMA WalkTop ==
  ASSUME SomeTokens, NEW n, NEW where, Walked(n, where), where # "row", TopAt(n)
  PROVE  n \in Top /\ Walked(n + 1, "statement")
<1>1. n \in 1 .. Len(tokens) /\ Len(tokens) \in Nat /\ n \notin ActionHead
  <2>1. n \in 1 .. Len(tokens) + 1 /\ n <= Len(tokens) /\ Len(tokens) \in Nat
    BY TokensAre DEF TopAt, Walked
  <2>. QED  BY <2>1, NoActionHere
<1>2. n \in Top
  BY <1>1, TokensAre DEF Top
<1>3. n \notin Header /\ n \notin Mark
  <2>1. n \in Header => ~ TopAt(n)
    BY <1>1, HeaderIs DEF Header
  <2>2. n \in Mark => ~ TopAt(n)
    BY <1>1, MarkIs
  <2>. QED  BY <2>1, <2>2
<1>4. ASSUME NEW h \in Header, h < n + 1  PROVE h + 4 <= n + 1 /\ h + 4 # n + 1
  <2>1. h < n
    BY <1>1, <1>3, <1>4, Landmarks
  <2>. QED  BY <1>1, <2>1, Landmarks DEF Walked
<1>5. ASSUME NEW m \in Mark, m < n + 1  PROVE m + 2 < n + 1
  <2>1. m < n
    BY <1>1, <1>3, <1>5, Landmarks
  <2>. QED  BY <1>1, <2>1, Landmarks DEF Walked
<1>6. ASSUME NEW a \in ActionHead, a < n + 1
      PROVE  /\ ActionEnd(a) < n + 1 /\ ActionEnd(a) + 1 \in Landmark
             /\ Landmark \cap a .. ActionEnd(a) = {}
  <2>1. a \in Nat
    BY ActionHeads, Landmarks
  <2>2. a < n /\ n \in Landmark /\ n + 1 \in Nat /\ n < n + 1
    BY <1>1, <1>2, <1>6, <2>1 DEF Landmark
  <2>. QED  BY <2>2, ActionsPassed
<1>. QED  BY <1>1, <1>2, <1>4, <1>5, <1>6 DEF Walked

LEMMA WalkHeader ==
  ASSUME SomeTokens, NEW n, NEW where, Walked(n, where), where # "row", HeaderAt(n)
  PROVE  n \in Header /\ Walked(n + 4, "row")
<1>1. n \in 1 .. Len(tokens) /\ Len(tokens) \in Nat /\ n + 3 <= Len(tokens) /\ n \in Header
  <2>1. n \in 1 .. Len(tokens) + 1 /\ n + 3 <= Len(tokens) /\ Len(tokens) \in Nat
    BY TokensAre DEF HeaderAt, At, Walked
  <2>. QED  BY <2>1, TokensAre DEF Header
<1>2. \A i \in n + 1 .. n + 3 : i \notin Header /\ i \notin Mark
  BY <1>1, HeaderIs DEF Header, Mark, MarkAt
<1>3. n \notin Mark
  BY <1>1, HeaderIs DEF Mark, MarkAt
<1>4. \A i \in Nat : i < n + 4 => i < n \/ i = n \/ i \in n + 1 .. n + 3
  BY <1>1
<1>8. n \in Nat /\ n \in Landmark /\ n + 4 \in Nat /\ n < n + 4
  BY <1>1 DEF Landmark
<1>5. ASSUME NEW h \in Header, h < n + 4  PROVE h + 4 <= n + 4
  <2>1. h \in Nat /\ (h < n \/ h = n)
    BY <1>2, <1>4, <1>5, Landmarks
  <2>. QED  BY <1>1, <2>1
<1>6. ASSUME NEW m \in Mark, m < n + 4  PROVE m + 2 < n + 4
  <2>1. m \in Nat /\ m < n
    BY <1>2, <1>3, <1>4, <1>6, Landmarks
  <2>. QED  BY <1>1, <2>1
<1>7. ASSUME NEW a \in ActionHead, a < n + 4
      PROVE  /\ ActionEnd(a) < n + 4 /\ ActionEnd(a) + 1 \in Landmark
             /\ Landmark \cap a .. ActionEnd(a) = {}
  <2>1. CASE \E h \in Header : a = h + 4
    <3>1. PICK h \in Header : a = h + 4
      BY <2>1
    <3>2. h \in Nat /\ h < n /\ h >= 1
      BY <1>1, <1>2, <1>4, <1>7, <3>1, Landmarks
    <3>3. a < n
      <4>1. h + 4 <= n /\ h + 4 # n
        BY <3>2 DEF Walked
      <4>. QED  BY <1>1, <3>1, <3>2, <4>1
    <3>. QED  BY <1>8, <3>3, ActionsPassed
  <2>2. CASE \E m \in Mark : a = m + 2
    <3>1. PICK m \in Mark : a = m + 2
      BY <2>2
    <3>2. m \in Nat /\ m < n /\ m >= 1
      BY <1>1, <1>2, <1>3, <1>4, <1>7, <3>1, Landmarks
    <3>3. a < n
      BY <3>1, <3>2 DEF Walked
    <3>. QED  BY <1>8, <3>3, ActionsPassed
  <2>. QED  BY <2>1, <2>2, ActionHeads
<1>. QED  BY <1>1, <1>5, <1>6, <1>7 DEF Walked

(* The action that begins at i ends where the next thing begins. *)
LEMMA WalkAction ==
  ASSUME SomeTokens, NEW i \in ActionHead, i \in 1 .. Len(tokens), WellBounded(ActionAt(i)), ~ MarkAt(i)
  PROVE  Landmark \cap i .. ActionEnd(i) = {}
<1>1. \A j \in i .. ActionEnd(i) : j \notin Header /\ j \notin Mark /\ (j # i => j \notin Top)
  BY ActionInside
<1>2. i \notin Top
  BY DEF Top
<1>. QED  BY <1>1, <1>2 DEF Landmark

LEMMA WalkOperation ==
  ASSUME SomeTokens, NEW n, NEW where, Walked(n, where), OnXAt(n), At(n + 1, "SYM_COLON"),
         HasAction(n + 2), ~ MarkAt(n + 2)
  PROVE  /\ n \in Mark /\ n + 2 \in ActionHead /\ n + 2 \in 1 .. Len(tokens)
         /\ ActionEnd(n + 2) \in n + 2 .. Len(tokens)
         /\ Landmark \cap n + 2 .. ActionEnd(n + 2) = {}
         /\ Walked(ActionEnd(n + 2) + 1, "more")
<1>. DEFINE i == n + 2
            e == ActionEnd(i)
<1>1. n \in 1 .. Len(tokens) /\ Len(tokens) \in Nat /\ n \in Mark /\ i \in 1 .. Len(tokens)
  <2>1. n \in 1 .. Len(tokens) + 1 /\ n <= Len(tokens) /\ Len(tokens) \in Nat /\ i <= Len(tokens)
    BY TokensAre DEF Walked, OnXAt, HasAction
  <2>. QED  BY <2>1, TokensAre DEF Mark, MarkAt
<1>2. i \in ActionHead
  BY <1>1, ActionHeads
<1>3. Landmark \cap i .. e = {}
  BY <1>1, <1>2, WalkAction DEF HasAction
<1>4. e \in i .. Len(tokens)
  BY <1>1, ActionEndIs
<1>5. n \notin Header /\ n + 1 \notin Header /\ n + 1 \notin Mark
  BY <1>1, MarkIs DEF Header, Mark, MarkAt
<1>. HIDE DEF e
<1>6. \A j \in Nat : j < e + 1 => j < n \/ j = n \/ j = n + 1 \/ j \in i .. e
  BY <1>1, <1>4
<1>7. ASSUME NEW h \in Header, h < e + 1  PROVE h + 4 <= e + 1 /\ h + 4 # e + 1
  <2>1. h \in Nat /\ h < n
    BY <1>3, <1>5, <1>6, <1>7, Landmarks DEF Landmark
  <2>2. h + 4 <= n
    BY <2>1 DEF Walked
  <2>. QED  BY <1>1, <1>4, <2>1, <2>2
<1>8. ASSUME NEW m \in Mark, m < e + 1  PROVE m + 2 < e + 1 /\ m \in Nat /\ (m < n \/ m = n)
  <2>1. m \in Nat /\ (m < n \/ m = n)
    BY <1>3, <1>5, <1>6, <1>8, Landmarks DEF Landmark
  <2>. QED  BY <1>1, <1>4, <2>1
<1>9. ASSUME NEW a \in ActionHead, a < e + 1
      PROVE  /\ ActionEnd(a) < e + 1 /\ ActionEnd(a) + 1 \in Landmark \cup {e + 1}
             /\ Landmark \cap a .. ActionEnd(a) = {}
  <2>1. a < n \/ a = i
    <3>1. CASE \E h \in Header : a = h + 4 /\ ~ MarkAt(h + 4)
      <4>1. PICK h \in Header : a = h + 4 /\ ~ MarkAt(h + 4)
        BY <3>1
      <4>2. h \in Nat /\ h < e + 1
        BY <1>4, <1>9, <1>1, <4>1, Landmarks
      <4>3. h < n
        BY <1>3, <1>5, <1>6, <4>2, Landmarks DEF Landmark
      <4>4. h + 4 <= n
        BY <4>3 DEF Walked
      <4>5. h + 4 # n
        BY <1>1, <4>1 DEF Mark
      <4>. QED  BY <1>1, <4>1, <4>2, <4>4, <4>5
    <3>2. CASE \E m \in Mark : a = m + 2
      <4>1. PICK m \in Mark : a = m + 2
        BY <3>2
      <4>2. m \in Nat /\ m < e + 1
        BY <1>4, <1>9, <1>1, <4>1, Landmarks
      <4>3. m < n \/ m = n
        BY <1>8, <4>2
      <4>4. m < n => m + 2 < n
        BY DEF Walked
      <4>. QED  BY <4>1, <4>3, <4>4
    <3>. QED  BY <3>1, <3>2, ActionHeads
  <2>2. CASE a < n
    BY <1>1, <1>4, <2>2, ActionsPassed DEF Landmark
  <2>3. CASE a = i
    BY <1>1, <1>3, <1>4, <2>3 DEF e
  <2>. QED  BY <2>1, <2>2, <2>3
<1>10. Walked(e + 1, "more")
  BY <1>1, <1>4, <1>7, <1>8, <1>9 DEF Walked
<1>. QED  BY <1>1, <1>2, <1>3, <1>4, <1>10 DEF e

LEMMA WalkInline ==
  ASSUME SomeTokens, NEW n, Walked(n, "row"), ~ OnXAt(n), HasAction(n)
  PROVE  /\ n - 4 \in Header /\ n \in ActionHead /\ n \in 1 .. Len(tokens)
         /\ ActionEnd(n) \in n .. Len(tokens)
         /\ Landmark \cap n .. ActionEnd(n) = {}
         /\ Walked(ActionEnd(n) + 1, "statement")
<1>. DEFINE e == ActionEnd(n)
            g == n - 4
<1>1. n \in 1 .. Len(tokens) /\ Len(tokens) \in Nat /\ g \in Header /\ n = g + 4 /\ ~ MarkAt(n)
  <2>1. n \in 1 .. Len(tokens) + 1 /\ n <= Len(tokens) /\ Len(tokens) \in Nat /\ g \in Header
    BY TokensAre DEF Walked, HasAction
  <2>. QED  BY <2>1 DEF MarkAt
<1>2. n \in ActionHead
  BY <1>1, ActionHeads
<1>3. Landmark \cap n .. e = {}
  BY <1>1, <1>2, WalkAction DEF HasAction
<1>4. e \in n .. Len(tokens)
  BY <1>1, ActionEndIs
<1>. HIDE DEF e, g
<1>5. \A j \in Nat : j < e + 1 => j < n \/ j \in n .. e
  BY <1>1, <1>4
<1>6. ASSUME NEW h \in Header, h < e + 1  PROVE h + 4 <= e + 1 /\ h + 4 # e + 1 /\ h < n
  <2>1. h \in Nat /\ h < n
    BY <1>3, <1>5, <1>6, Landmarks DEF Landmark
  <2>2. h + 4 <= n
    BY <2>1 DEF Walked
  <2>. QED  BY <1>1, <1>4, <2>1, <2>2
<1>7. ASSUME NEW m \in Mark, m < e + 1  PROVE m + 2 < e + 1 /\ m \in Nat /\ m < n
  <2>1. m \in Nat /\ m < n
    BY <1>3, <1>5, <1>7, Landmarks DEF Landmark
  <2>2. m + 2 < n
    BY <2>1 DEF Walked
  <2>. QED  BY <1>1, <1>4, <2>1, <2>2
<1>8. ASSUME NEW a \in ActionHead, a < e + 1
      PROVE  /\ ActionEnd(a) < e + 1 /\ ActionEnd(a) + 1 \in Landmark \cup {e + 1}
             /\ Landmark \cap a .. ActionEnd(a) = {}
  <2>1. a < n \/ a = n
    <3>1. CASE \E h \in Header : a = h + 4
      <4>1. PICK h \in Header : a = h + 4
        BY <3>1
      <4>2. h \in Nat /\ h < e + 1
        BY <1>4, <1>8, <1>1, <4>1, Landmarks
      <4>3. h + 4 <= n
        BY <1>6, <4>2 DEF Walked
      <4>. QED  BY <1>1, <4>1, <4>2, <4>3
    <3>2. CASE \E m \in Mark : a = m + 2
      <4>1. PICK m \in Mark : a = m + 2
        BY <3>2
      <4>2. m \in Nat /\ m < e + 1
        BY <1>4, <1>8, <1>1, <4>1, Landmarks
      <4>3. m + 2 < n
        BY <1>7, <4>2 DEF Walked
      <4>. QED  BY <4>1, <4>3
    <3>. QED  BY <3>1, <3>2, ActionHeads
  <2>2. CASE a < n
    BY <1>1, <1>4, <2>2, ActionsPassed
  <2>3. CASE a = n
    BY <1>1, <1>3, <1>4, <2>3 DEF e
  <2>. QED  BY <2>1, <2>2, <2>3
<1>9. Walked(e + 1, "statement")
  BY <1>1, <1>4, <1>6, <1>7, <1>8 DEF Walked
<1>. QED  BY <1>1, <1>2, <1>3, <1>4, <1>9 DEF e, g

-----------------------------------------------------------------------------

(* What the rows before token n say, as far as token n. *)
HeadersTo(n)  == {h \in Header : h < n}
MarksTo(h, n) == {m \in MarksOf(h) : m < n}
GivenTo(h, n) ==
  IF MarksTo(h, n) = {} THEN IF h + 4 < n THEN [op \in {"PRESS"} |-> ActionAt(h + 4)] ELSE <<>>
  ELSE [op \in {OpOf(m) : m \in MarksTo(h, n)} |->
          ActionAt(Max({m \in MarksTo(h, n) : OpOf(m) = op}) + 2)]

(* f gives the k elements of S in their order. *)
InOrder(f, k, S) ==
  /\ k \in Nat /\ f \in [1 .. k -> S]
  /\ \A r, s \in 1 .. k : r < s => f[r] < f[s]
  /\ \A h \in S : \E r \in 1 .. k : f[r] = h

(* parse has a row of bindings for every header it has passed, with what   *)
(* the row has said so far.                                                *)
RowsFound(n, where, rows, f) ==
  /\ \E R : rows \in Seq(R)
  /\ InOrder(f, Len(rows), HeadersTo(n))
  /\ \A r \in 1 .. Len(rows) : rows[r] = [key |-> KeyOf(f[r]), ops |-> GivenTo(f[r], n)]
  /\ where \in {"row", "more"} =>
       /\ Len(rows) > 0
       /\ (Header \cup Top) \cap f[Len(rows)] + 1 .. n - 1 = {}
  /\ where = "more" => MarksTo(f[Len(rows)], n) # {}

LEMMA MarksOfIs ==
  \A h, m : m \in MarksOf(h) <=> m \in Mark /\ m > h /\ (Header \cup Top) \cap h + 1 .. m = {}
BY DEF MarksOf

(* With no further mark of its own, a row says no more. *)
LEMMA GivenSame ==
  ASSUME SomeTokens, NEW n \in Nat, NEW k \in Nat, n <= k, NEW h \in Header, h + 4 < n \/ k <= h + 4,
         \A m \in Mark : n <= m /\ m < k => m \notin MarksOf(h)
  PROVE  MarksTo(h, k) = MarksTo(h, n) /\ GivenTo(h, k) = GivenTo(h, n)
<1>1. h \in Nat /\ \A m \in MarksOf(h) : m \in Mark /\ m \in Nat
  BY Landmarks, MarksOfIs
<1>2. \A m \in MarksOf(h) : m < k <=> m < n
  BY <1>1
<1>3. MarksTo(h, k) = MarksTo(h, n)
  BY <1>2 DEF MarksTo
<1>4. h + 4 < k <=> h + 4 < n
  BY <1>1
<1>. QED  BY <1>3, <1>4 DEF GivenTo

(* Marks behind the header of a later row are none of an earlier one. *)
LEMMA MarksElsewhere ==
  ASSUME SomeTokens, NEW h \in Header, NEW g \in Header \cup Top, h < g, NEW m \in Mark, g < m
  PROVE  m \notin MarksOf(h)
<1>1. h \in Nat /\ g \in Nat /\ m \in Nat
  BY Landmarks
<1>2. g \in h + 1 .. m
  BY <1>1
<1>. QED  BY <1>2, MarksOfIs

LEMMA FoundTop ==
  ASSUME SomeTokens, NEW n, NEW where, NEW rows, NEW f, Walked(n, where), where # "row",
         RowsFound(n, where, rows, f), n \in Top
  PROVE  RowsFound(n + 1, "statement", rows, f)
<1>1. n \in Nat /\ n \in 1 .. Len(tokens) /\ Len(tokens) \in Nat
  BY Landmarks
<1>2. n \notin Header /\ n \notin Mark
  BY <1>1, HeaderIs, MarkIs DEF Header, Top
<1>3. HeadersTo(n + 1) = HeadersTo(n)
  BY <1>1, <1>2, Landmarks DEF HeadersTo
<1>4. ASSUME NEW h \in HeadersTo(n)  PROVE GivenTo(h, n + 1) = GivenTo(h, n)
  <2>1. h \in Header /\ h \in Nat /\ h + 4 <= n /\ h + 4 # n
    BY Landmarks DEF HeadersTo, Walked
  <2>2. \A m \in Mark : ~ (n <= m /\ m < n + 1)
    BY <1>1, <1>2, Landmarks
  <2>3. h + 4 < n
    BY <1>1, <2>1
  <2>. QED  BY <1>1, <2>1, <2>2, <2>3, GivenSame
<1>5. \A r \in 1 .. Len(rows) : f[r] \in HeadersTo(n)
  BY DEF RowsFound, InOrder
<1>. QED  BY <1>3, <1>4, <1>5 DEF RowsFound

LEMMA FoundHeader ==
  ASSUME SomeTokens, NEW n, NEW where, NEW rows, NEW f, Walked(n, where), where # "row",
         RowsFound(n, where, rows, f), n \in Header
  PROVE  RowsFound(n + 4, "row", Append(rows, [key |-> KeyOf(n), ops |-> <<>>]),
                   [r \in 1 .. Len(rows) + 1 |-> IF r = Len(rows) + 1 THEN n ELSE f[r]])
<1>. DEFINE row == [key |-> KeyOf(n), ops |-> <<>>]
            k == Len(rows)
            g == [r \in 1 .. k + 1 |-> IF r = k + 1 THEN n ELSE f[r]]
            more == Append(rows, row)
<1>1. PICK R : rows \in Seq(R)
  BY DEF RowsFound
<1>2. /\ k \in Nat /\ f \in [1 .. k -> HeadersTo(n)]
      /\ \A r, s \in 1 .. k : r < s => f[r] < f[s]
      /\ \A h \in HeadersTo(n) : \E r \in 1 .. k : f[r] = h
      /\ \A r \in 1 .. k : rows[r] = [key |-> KeyOf(f[r]), ops |-> GivenTo(f[r], n)]
  BY DEF RowsFound, InOrder
<1>3. n \in Nat /\ n \in 1 .. Len(tokens) /\ Len(tokens) \in Nat /\ HeaderAt(n)
  BY Landmarks
<1>4. \A i \in n + 1 .. n + 3 : i \notin Header /\ i \notin Top /\ i \notin Mark
  BY <1>3, HeaderIs DEF Header, Top, Mark, MarkAt
<1>5. n \notin Mark
  BY <1>3, HeaderIs DEF Mark, MarkAt
<1>6. \A i \in Nat : i < n + 4 => i < n \/ i = n \/ i \in n + 1 .. n + 3
  BY <1>3
<1>7. HeadersTo(n + 4) = HeadersTo(n) \cup {n}
  <2>1. \A h \in Header : h < n + 4 <=> h < n \/ h = n
    BY <1>3, <1>4, <1>6, Landmarks
  <2>. QED  BY <2>1 DEF HeadersTo
<1>8. \A m \in Mark : ~ (n <= m /\ m < n + 4)
  BY <1>3, <1>4, <1>5, <1>6, Landmarks
<1>9. ASSUME NEW h \in HeadersTo(n)  PROVE GivenTo(h, n + 4) = GivenTo(h, n)
  <2>1. h \in Header /\ h \in Nat /\ h + 4 <= n /\ h + 4 # n
    BY Landmarks DEF HeadersTo, Walked
  <2>2. h + 4 < n
    BY <1>3, <2>1
  <2>. QED  BY <1>3, <1>8, <2>1, <2>2, GivenSame
<1>10. GivenTo(n, n + 4) = <<>>
  <2>1. ASSUME NEW m \in MarksOf(n), m < n + 4  PROVE FALSE
    <3>1. m \in Mark /\ m > n /\ m \in Nat
      BY MarksOfIs, Landmarks
    <3>. QED  BY <1>3, <1>8, <2>1, <3>1
  <2>2. MarksTo(n, n + 4) = {}
    BY <2>1 DEF MarksTo
  <2>. QED  BY <1>3, <2>2 DEF GivenTo
<1>. HIDE DEF row
<1>11. /\ more \in Seq(R \cup {row}) /\ Len(more) = k + 1 /\ more[k + 1] = row
       /\ \A r \in 1 .. k : more[r] = rows[r]
  <2>1. rows \in Seq(R \cup {row})
    BY <1>1
  <2>. QED  BY <1>1, <2>1
<1>. HIDE DEF k, more
<1>12. \A r \in 1 .. k + 1 : r \in 1 .. k \/ r = k + 1
  BY <1>2
<1>13. /\ g[k + 1] = n /\ \A r \in 1 .. k : g[r] = f[r] /\ g[r] \in HeadersTo(n) /\ g[r] < n
  BY <1>2 DEF HeadersTo
<1>14. InOrder(g, k + 1, HeadersTo(n + 4))
  <2>1. g \in [1 .. k + 1 -> HeadersTo(n + 4)]
    BY <1>2, <1>7
  <2>. HIDE DEF g
  <2>2. \A r, s \in 1 .. k + 1 : r < s => r \in 1 .. k
    BY <1>2
  <2>3. \A r, s \in 1 .. k + 1 : r < s => g[r] < g[s]
    BY <1>2, <1>12, <1>13, <2>2
  <2>4. \A h \in HeadersTo(n + 4) : \E r \in 1 .. k + 1 : g[r] = h
    <3>1. k + 1 \in 1 .. k + 1 /\ \A r \in 1 .. k : r \in 1 .. k + 1
      BY <1>2
    <3>. QED  BY <1>2, <1>7, <1>13, <3>1
  <2>. QED  BY <1>2, <2>1, <2>3, <2>4 DEF InOrder
<1>. HIDE DEF g
<1>15. \A r \in 1 .. k + 1 : more[r] = [key |-> KeyOf(g[r]), ops |-> GivenTo(g[r], n + 4)]
  <2>1. ASSUME NEW r \in 1 .. k
        PROVE  more[r] = [key |-> KeyOf(g[r]), ops |-> GivenTo(g[r], n + 4)]
    <3>1. rows[r] = [key |-> KeyOf(f[r]), ops |-> GivenTo(f[r], n)]
      BY <1>2
    <3>2. more[r] = rows[r] /\ g[r] = f[r] /\ GivenTo(f[r], n + 4) = GivenTo(f[r], n)
      BY <1>9, <1>11, <1>13
    <3>. QED  BY <3>1, <3>2
  <2>2. more[k + 1] = [key |-> KeyOf(g[k + 1]), ops |-> GivenTo(g[k + 1], n + 4)]
    BY <1>10, <1>11, <1>13 DEF row
  <2>. QED  BY <1>12, <2>1, <2>2
<1>16. (Header \cup Top) \cap g[k + 1] + 1 .. (n + 4) - 1 = {}
  BY <1>3, <1>4, <1>13
<1>17. k + 1 > 0 /\ Len(more) = k + 1
  BY <1>2, <1>11
<1>18. RowsFound(n + 4, "row", more, g)
  BY <1>11, <1>14, <1>15, <1>16, <1>17 DEF RowsFound
<1>. QED  BY <1>18 DEF more, g, k, row

(* In the middle of a row, that row is the last one, and has no more to it *)
(* than its header if no operation of it has been read.                    *)
LEMMA LastRow ==
  ASSUME SomeTokens, NEW n, NEW where \in {"row", "more"}, NEW rows, NEW f, Walked(n, where),
         RowsFound(n, where, rows, f)
  PROVE  /\ Len(rows) \in Nat \ {0} /\ f[Len(rows)] \in Header /\ f[Len(rows)] < n
         /\ \A h \in HeadersTo(n) : h <= f[Len(rows)]
         /\ \A r \in 1 .. Len(rows) - 1 : f[r] \in HeadersTo(n) /\ f[r] < f[Len(rows)] /\ f[r] + 4 < n
         /\ where = "row" => /\ f[Len(rows)] = n - 4
                            /\ MarksTo(f[Len(rows)], n) = {} /\ GivenTo(f[Len(rows)], n) = <<>>
<1>. DEFINE k == Len(rows)
            l == f[k]
<1>1. /\ k \in Nat /\ k > 0 /\ f \in [1 .. k -> HeadersTo(n)]
      /\ \A r, s \in 1 .. k : r < s => f[r] < f[s]
      /\ \A h \in HeadersTo(n) : \E r \in 1 .. k : f[r] = h
      /\ (Header \cup Top) \cap l + 1 .. n - 1 = {}
  BY DEF RowsFound, InOrder
<1>2. n \in Nat /\ \A h \in HeadersTo(n) : h \in Header /\ h < n /\ h \in Nat
  BY Landmarks DEF Walked, HeadersTo
<1>3. l \in HeadersTo(n) /\ k \in 1 .. k
  BY <1>1
<1>. HIDE DEF l
<1>4. \A h \in HeadersTo(n) : h <= l
  <2>1. ASSUME NEW h \in HeadersTo(n)  PROVE h <= l
    <3>1. h \in Header /\ h \in Nat /\ h < n /\ l \in Nat
      BY <1>2, <1>3
    <3>2. ~ (h \in l + 1 .. n - 1)
      BY <1>1, <3>1
    <3>. QED  BY <1>2, <3>1, <3>2
  <2>. QED  BY <2>1
<1>5. ASSUME NEW r \in 1 .. k - 1  PROVE f[r] \in HeadersTo(n) /\ f[r] < l /\ f[r] + 4 < n
  <2>1. r \in 1 .. k /\ r < k
    BY <1>1
  <2>2. f[r] \in HeadersTo(n) /\ f[r] < l
    BY <1>1, <1>3, <2>1 DEF l
  <2>3. f[r] \in Header /\ f[r] \in Nat /\ f[r] + 4 <= n /\ l \in Header /\ l \in Nat /\ l < n
    BY <1>2, <1>3, <2>2 DEF Walked
  <2>4. ~ (l \in f[r] + 1 .. f[r] + 3)
    BY <2>3, HeaderIs, Landmarks DEF Header
  <2>. QED  BY <1>2, <2>2, <2>3, <2>4
<1>6. ASSUME where = "row"  PROVE l = n - 4 /\ MarksTo(l, n) = {} /\ GivenTo(l, n) = <<>>
  <2>1. n - 4 \in HeadersTo(n)
    BY <1>2, <1>6, Landmarks DEF Walked, HeadersTo
  <2>2. n - 4 <= l /\ l + 4 <= n /\ l \in Nat /\ l \in Header
    BY <1>2, <1>3, <1>4, <2>1 DEF Walked
  <2>3. l = n - 4
    BY <1>2, <2>2
  <2>4. ASSUME NEW m \in MarksOf(l), m < n  PROVE FALSE
    <3>1. m \in Mark /\ m \in Nat /\ m > l
      BY MarksOfIs, Landmarks
    <3>2. m \in l + 1 .. l + 3
      BY <1>2, <2>2, <2>3, <2>4, <3>1
    <3>. QED  BY <2>2, <3>1, <3>2, HeaderIs, Landmarks DEF Mark, MarkAt
  <2>5. MarksTo(l, n) = {}
    BY <2>4 DEF MarksTo
  <2>. QED  BY <1>2, <2>3, <2>5 DEF GivenTo
<1>. QED  BY <1>1, <1>2, <1>3, <1>4, <1>5, <1>6 DEF l

LEMMA RowExtended ==
  ASSUME NEW R, NEW rows \in Seq(R), Len(rows) > 0, NEW key, NEW ops, NEW op, NEW act,
         rows[Len(rows)] = [key |-> key, ops |-> ops]
  PROVE  LET rows2 == [rows EXCEPT ![Len(rows)].ops = With(@, op, act)]
         IN  /\ \E S : rows2 \in Seq(S)
             /\ Len(rows2) = Len(rows)
             /\ \A r \in 1 .. Len(rows) - 1 : rows2[r] = rows[r]
             /\ rows2[Len(rows)] = [key |-> key, ops |-> With(ops, op, act)]
<1>. DEFINE k == Len(rows)
            new == [key |-> key, ops |-> With(ops, op, act)]
            rows2 == [rows EXCEPT ![k].ops = With(@, op, act)]
            rows3 == [rows EXCEPT ![k] = new]
<1>1. k \in Nat /\ k \in 1 .. k /\ DOMAIN rows = 1 .. k
  OBVIOUS
<1>2. rows2 = [rows EXCEPT ![k] = [rows[k] EXCEPT !.ops = With(rows[k].ops, op, act)]]
  BY Zenon
<1>3. [rows[k] EXCEPT !.ops = With(rows[k].ops, op, act)] = new
  <2>. DEFINE both == With(rows[k].ops, op, act)
  <2>1. both = With(ops, op, act)
    OBVIOUS
  <2>2. [rows[k] EXCEPT !.ops = both] = [key |-> key, ops |-> both]
    <3>. HIDE DEF both
    <3>. QED  OBVIOUS
  <2>. QED  BY <2>1, <2>2
<1>4. rows2 = rows3
  BY <1>2, <1>3
<1>. HIDE DEF new, k
<1>5. rows \in Seq(R \cup {new}) /\ k = Len(rows)
  BY DEF k
<1>6. /\ rows3 \in Seq(R \cup {new}) /\ Len(rows3) = Len(rows)
      /\ \A j \in 1 .. k : rows3[j] = IF j = k THEN new ELSE rows[j]
  BY <1>1, <1>5, ExceptSeq
<1>. HIDE DEF rows2, rows3
<1>7. \A r \in 1 .. k - 1 : r \in 1 .. k /\ r # k
  BY <1>1
<1>8. /\ \E S : rows2 \in Seq(S)
      /\ Len(rows2) = k
      /\ \A r \in 1 .. k - 1 : rows2[r] = rows[r]
      /\ rows2[k] = new
  BY <1>1, <1>4, <1>5, <1>6, <1>7
<1>. QED  BY <1>8 DEF rows2, new, k

(* An action more in the last row. *)
LEMMA FoundAction ==
  ASSUME SomeTokens, NEW n, NEW where \in {"row", "more"}, NEW rows, NEW f, Walked(n, where),
         RowsFound(n, where, rows, f),
         NEW n2, NEW where2, NEW op, NEW act, HeadersTo(n2) = HeadersTo(n),
         \A r \in 1 .. Len(rows) - 1 : GivenTo(f[r], n2) = GivenTo(f[r], n),
         GivenTo(f[Len(rows)], n2) = With(GivenTo(f[Len(rows)], n), op, act),
         where2 = "more" => /\ MarksTo(f[Len(rows)], n2) # {}
                            /\ (Header \cup Top) \cap f[Len(rows)] + 1 .. n2 - 1 = {},
         where2 # "row"
  PROVE  RowsFound(n2, where2, [rows EXCEPT ![Len(rows)].ops = With(@, op, act)], f)
<1>. DEFINE k == Len(rows)
            rows2 == [rows EXCEPT ![Len(rows)].ops = With(@, op, act)]
<1>1. k \in Nat /\ k > 0
  BY LastRow
<1>2. rows[k] = [key |-> KeyOf(f[k]), ops |-> GivenTo(f[k], n)]
  BY <1>1 DEF RowsFound
<1>3. PICK R : rows \in Seq(R)
  BY DEF RowsFound
<1>4. /\ \E S : rows2 \in Seq(S)
      /\ Len(rows2) = k
      /\ \A r \in 1 .. k - 1 : rows2[r] = rows[r]
      /\ rows2[k] = [key |-> KeyOf(f[k]), ops |-> With(GivenTo(f[k], n), op, act)]
  BY <1>1, <1>2, <1>3, RowExtended
<1>. HIDE DEF rows2
<1>5. \A r \in 1 .. k : r \in 1 .. k - 1 \/ r = k
  BY <1>1
<1>6. ASSUME NEW r \in 1 .. k  PROVE rows2[r] = [key |-> KeyOf(f[r]), ops |-> GivenTo(f[r], n2)]
  <2>1. CASE r = k
    BY <1>4, <2>1
  <2>2. CASE r \in 1 .. k - 1
    <3>1. rows[r] = [key |-> KeyOf(f[r]), ops |-> GivenTo(f[r], n)]
      BY DEF RowsFound
    <3>. QED  BY <1>4, <2>2, <3>1
  <2>. QED  BY <1>5, <2>1, <2>2
<1>7. InOrder(f, Len(rows2), HeadersTo(n2))
  BY <1>4 DEF RowsFound
<1>8. RowsFound(n2, where2, rows2, f)
  BY <1>1, <1>4, <1>6, <1>7 DEF RowsFound
<1>. QED  BY <1>8 DEF rows2

(* An operation with its action. *)
LEMMA FoundOperation ==
  ASSUME SomeTokens, NEW n, NEW where \in {"row", "more"}, NEW rows, NEW f, Walked(n, where),
         RowsFound(n, where, rows, f), OnXAt(n), At(n + 1, "SYM_COLON"),
         HasAction(n + 2), ~ MarkAt(n + 2)
  PROVE  RowsFound(ActionEnd(n + 2) + 1, "more",
                   [rows EXCEPT ![Len(rows)].ops = With(@, OpOf(n), ActionAt(n + 2))], f)
<1>. DEFINE e == ActionEnd(n + 2)
            k == Len(rows)
            l == f[k]
            op == OpOf(n)
            act == ActionAt(n + 2)
<1>1. /\ n \in Mark /\ n + 2 \in 1 .. Len(tokens) /\ e \in n + 2 .. Len(tokens)
      /\ Landmark \cap n + 2 .. e = {} /\ n \in Nat /\ Len(tokens) \in Nat
  BY WalkOperation, Landmarks
<1>2. /\ k \in Nat \ {0} /\ l \in Header /\ l < n
      /\ \A h \in HeadersTo(n) : h <= l
      /\ \A r \in 1 .. k - 1 : f[r] \in HeadersTo(n) /\ f[r] < l /\ f[r] + 4 < n
      /\ where = "row" => MarksTo(l, n) = {} /\ GivenTo(l, n) = <<>>
      /\ where = "more" => MarksTo(l, n) # {}
      /\ (Header \cup Top) \cap l + 1 .. n - 1 = {}
  BY LastRow DEF RowsFound
<1>3. n \notin Header \cup Top /\ n + 1 \notin Header \cup Top /\ n + 1 \notin Mark
  <2>1. /\ ~ HeaderAt(n) /\ ~ TopAt(n) /\ ~ HeaderAt(n + 1) /\ ~ TopAt(n + 1)
        /\ ~ OnXAt(n + 1)
    <3>1. n \in n .. n + 1 /\ n + 1 \in n .. n + 1
      BY <1>1
    <3>. HIDE DEF e, k, l, op, act
    <3>. QED  BY <1>1, <3>1, MarkIs
  <2>. HIDE DEF e, k, l, op, act
  <2>. QED  BY <2>1 DEF Header, Top, Mark, MarkAt
<1>. HIDE DEF e, k, l, op, act
<1>4. \A i \in Nat : i < e + 1 <=> i < n \/ i = n \/ i = n + 1 \/ i \in n + 2 .. e
  BY <1>1
<1>5. \A i \in Header \cup Top : i \in Nat /\ (i < e + 1 <=> i < n)
  <2>1. \A i \in Header \cup Top : i \in Nat /\ i \notin n + 2 .. e /\ i # n /\ i # n + 1
    BY <1>1, <1>3, Landmarks DEF Landmark
  <2>. QED  BY <1>4, <2>1
<1>6. \A i \in Mark : i \in Nat /\ (i < e + 1 <=> i < n \/ i = n)
  <2>1. \A i \in Mark : i \in Nat /\ i \notin n + 2 .. e /\ i # n + 1
    BY <1>1, <1>3, Landmarks DEF Landmark
  <2>. QED  BY <1>4, <2>1
<1>7. HeadersTo(e + 1) = HeadersTo(n)
  BY <1>5 DEF HeadersTo
<1>8. l \in Nat
  BY <1>2, Landmarks
<1>9. (Header \cup Top) \cap l + 1 .. (e + 1) - 1 = {}
  <2>1. ASSUME NEW i \in Header \cup Top, i \in l + 1 .. e  PROVE FALSE
    <3>1. i \in l + 1 .. n - 1
      BY <1>1, <1>5, <1>8, <2>1
    <3>. QED  BY <1>2, <3>1
  <2>2. (e + 1) - 1 = e
    BY <1>1
  <2>. QED  BY <2>1, <2>2
<1>10. n \in MarksOf(l)
  <2>1. \A i \in l + 1 .. n : i \in l + 1 .. n - 1 \/ i = n
    BY <1>1, <1>8
  <2>2. (Header \cup Top) \cap l + 1 .. n = {}
    BY <1>2, <1>3, <2>1
  <2>. QED  BY <1>1, <1>2, <2>2, MarksOfIs
<1>11. MarksTo(l, e + 1) = MarksTo(l, n) \cup {n}
  <2>1. \A m \in MarksOf(l) : m \in Mark
    BY MarksOfIs
  <2>2. \A m \in MarksOf(l) : m < e + 1 <=> m < n \/ m = n
    BY <1>6, <2>1
  <2>. QED  BY <1>10, <2>2 DEF MarksTo
<1>12. \A m \in MarksTo(l, n) : m \in Nat /\ m < n
  BY <1>6, MarksOfIs DEF MarksTo
<1>13. ASSUME NEW r \in 1 .. k - 1  PROVE GivenTo(f[r], e + 1) = GivenTo(f[r], n)
  <2>1. f[r] \in Header /\ f[r] < l /\ f[r] + 4 < n
    BY <1>2 DEF HeadersTo
  <2>2. ASSUME NEW m \in Mark, n <= m, m < e + 1  PROVE m \notin MarksOf(f[r])
    <3>1. l < m /\ l \in Header \cup Top
      BY <1>1, <1>2, <1>6, <1>8, <2>2
    <3>. QED  BY <2>1, <3>1, MarksElsewhere
  <2>3. e + 1 \in Nat /\ n <= e + 1
    BY <1>1
  <2>. QED  BY <1>1, <2>1, <2>2, <2>3, GivenSame
<1>14. GivenTo(l, e + 1) = With(GivenTo(l, n), op, act)
  <2>. DEFINE M == MarksTo(l, n)
              N == MarksTo(l, e + 1)
              last(S, o) == Max({m \in S : OpOf(m) = o})
              Of(S) == [o \in {OpOf(m) : m \in S} |-> ActionAt(last(S, o) + 2)]
  <2>1. GivenTo(l, e + 1) = Of(N)
    BY <1>11 DEF GivenTo
  <2>2. last(N, op) = n
    <3>. DEFINE S == {m \in N : OpOf(m) = op}
    <3>1. n \in S /\ S \subseteq 0 .. n
      BY <1>1, <1>11, <1>12 DEF op
    <3>2. Max(S) \in S /\ \A m \in S : m <= Max(S)
      BY <1>1, <3>1, MaxIs
    <3>. QED  BY <1>1, <3>1, <3>2
  <2>3. \A o : o # op => last(N, o) = last(M, o)
    <3>1. ASSUME NEW o, o # op  PROVE {m \in N : OpOf(m) = o} = {m \in M : OpOf(m) = o}
      BY <1>11, <3>1 DEF op
    <3>. QED  BY <3>1
  <2>4. {OpOf(m) : m \in N} = {OpOf(m) : m \in M} \cup {op}
    BY <1>11 DEF op
  <2>. HIDE DEF last, M, N
  <2>5. DOMAIN Of(N) = DOMAIN Of(M) \cup {op} /\ \A o \in DOMAIN Of(N) :
          Of(N)[o] = IF o = op THEN act ELSE Of(M)[o]
    <3>1. \A o \in {OpOf(m) : m \in N} : o # op => o \in {OpOf(m) : m \in M}
      BY <2>4
    <3>. QED  BY <2>2, <2>3, <2>4, <3>1 DEF act
  <2>. HIDE DEF Of
  <2>6. Of(N) = [o \in DOMAIN Of(N) |-> Of(N)[o]]
    BY DEF Of
  <2>7. GivenTo(l, n) = IF M = {} THEN <<>> ELSE Of(M)
    BY <1>2 DEF GivenTo, M, Of, last
  <2>8. M = {} => DOMAIN Of(M) = {}
    BY DEF Of
  <2>9. DOMAIN GivenTo(l, n) = DOMAIN Of(M) /\ \A o \in DOMAIN Of(M) : GivenTo(l, n)[o] = Of(M)[o]
    BY <2>7, <2>8
  <2>. DEFINE both == With(GivenTo(l, n), op, act)
  <2>10. /\ DOMAIN both = {op} \cup DOMAIN GivenTo(l, n)
         /\ \A o \in DOMAIN both : both[o] = IF o = op THEN act ELSE GivenTo(l, n)[o]
         /\ both = [o \in DOMAIN both |-> both[o]]
    BY DEF With
  <2>. HIDE DEF both
  <2>11. DOMAIN both = DOMAIN Of(N) /\ \A o \in DOMAIN both : both[o] = Of(N)[o]
    BY <2>5, <2>9, <2>10
  <2>12. both = Of(N)
    BY <2>6, <2>10, <2>11
  <2>. QED  BY <2>1, <2>12 DEF both
<1>15. RowsFound(e + 1, "more", [rows EXCEPT ![Len(rows)].ops = With(@, op, act)], f)
  BY <1>7, <1>9, <1>11, <1>13, <1>14, FoundAction DEF k, l
<1>. QED  BY <1>15 DEF e, op, act

(* The one action of a row without operations. *)
LEMMA FoundInline ==
  ASSUME SomeTokens, NEW n, NEW rows, NEW f, Walked(n, "row"), RowsFound(n, "row", rows, f),
         ~ OnXAt(n), HasAction(n)
  PROVE  RowsFound(ActionEnd(n) + 1, "statement",
                   [rows EXCEPT ![Len(rows)].ops = With(@, "PRESS", ActionAt(n))], f)
<1>. DEFINE e == ActionEnd(n)
            k == Len(rows)
            l == f[k]
            act == ActionAt(n)
<1>1. /\ n \in 1 .. Len(tokens) /\ e \in n .. Len(tokens)
      /\ Landmark \cap n .. e = {} /\ n \in Nat /\ Len(tokens) \in Nat
  BY WalkInline, TokensAre
<1>2. /\ k \in Nat \ {0} /\ l \in Header /\ l < n /\ l = n - 4 /\ l \in Nat
      /\ \A r \in 1 .. k - 1 : f[r] \in HeadersTo(n) /\ f[r] < l /\ f[r] + 4 < n
      /\ MarksTo(l, n) = {} /\ GivenTo(l, n) = <<>>
  <2>1. "row" \in {"row", "more"}
    OBVIOUS
  <2>2. /\ k \in Nat \ {0} /\ l \in Header /\ l < n /\ l = n - 4
        /\ \A r \in 1 .. k - 1 : f[r] \in HeadersTo(n) /\ f[r] < l /\ f[r] + 4 < n
        /\ MarksTo(l, n) = {} /\ GivenTo(l, n) = <<>>
    BY <2>1, LastRow
  <2>. QED  BY <2>2, Landmarks
<1>. HIDE DEF e, k, l, act
<1>3. \A i \in Nat : i < e + 1 <=> i < n \/ i \in n .. e
  BY <1>1
<1>4. \A i \in Landmark : i \in Nat /\ (i < e + 1 <=> i < n)
  <2>1. \A i \in Landmark : i \in Nat /\ i \notin n .. e
    BY <1>1, Landmarks DEF Landmark
  <2>. QED  BY <1>3, <2>1
<1>5. HeadersTo(e + 1) = HeadersTo(n)
  BY <1>4 DEF HeadersTo, Landmark
<1>6. ASSUME NEW r \in 1 .. k - 1  PROVE GivenTo(f[r], e + 1) = GivenTo(f[r], n)
  <2>1. f[r] \in Header /\ f[r] + 4 < n /\ e + 1 \in Nat /\ n <= e + 1
    BY <1>1, <1>2 DEF HeadersTo
  <2>2. \A m \in Mark : ~ (n <= m /\ m < e + 1)
    BY <1>1, <1>4 DEF Landmark
  <2>. QED  BY <1>1, <2>1, <2>2, GivenSame
<1>7. MarksTo(l, e + 1) = {}
  <2>1. \A m \in MarksOf(l) : m \in Landmark
    BY MarksOfIs DEF Landmark
  <2>. QED  BY <1>2, <1>4, <2>1 DEF MarksTo
<1>8. GivenTo(l, e + 1) = With(GivenTo(l, n), "PRESS", act)
  <2>1. l + 4 = n /\ l + 4 < e + 1
    BY <1>1, <1>2
  <2>2. GivenTo(l, e + 1) = [op \in {"PRESS"} |-> act]
    BY <1>7, <2>1 DEF GivenTo, act
  <2>3. With(<<>>, "PRESS", act) = [op \in {"PRESS"} |-> act]
    BY DEF With
  <2>. QED  BY <1>2, <2>2, <2>3
<1>9. RowsFound(e + 1, "statement", [rows EXCEPT ![Len(rows)].ops = With(@, "PRESS", act)], f)
  BY <1>5, <1>6, <1>8, FoundAction DEF k, l
<1>. QED  BY <1>9 DEF e, act

-----------------------------------------------------------------------------

(* The text of every action that parse has read is what stands between two *)
(* landmarks.                                                              *)
LEMMA TextIs ==
  ASSUME SomeTokens, NEW where, where # "row", Walked(Len(tokens) + 1, where), NEW a \in ActionHead,
         a < Len(tokens) + 1
  PROVE  TextFrom(a) = ActionAt(a)
<1>. DEFINE n == Len(tokens) + 1
            e == ActionEnd(a)
            S == {j \in Header \cup Mark \cup Top : j >= a} \cup {n}
<1>1. n \in Nat /\ \A j \in Landmark : j \in 1 .. Len(tokens)
  BY Landmarks DEF Landmark
<1>2. a \in Nat /\ a >= 1
  <2>1. \A i \in Header \cup Mark : i \in Nat
    BY Landmarks
  <2>2. CASE \E h \in Header : a = h + 4
    BY <2>1, <2>2
  <2>3. CASE \E m \in Mark : a = m + 2
    BY <2>1, <2>3
  <2>. QED  BY <2>2, <2>3, ActionHeads
<1>3. a \in 1 .. Len(tokens)
  BY <1>1, <1>2, TokensAre
<1>4. e \in a .. Len(tokens)
  BY <1>3, ActionEndIs
<1>5. (e + 1 \in Landmark \/ e + 1 = n) /\ Landmark \cap a .. e = {}
  BY <1>4 DEF Walked
<1>6. S \subseteq Nat /\ e + 1 \in S /\ \A j \in S : j >= e + 1
  <2>1. S \subseteq Nat
    BY <1>1 DEF Landmark
  <2>2. e + 1 \in S
    BY <1>2, <1>4, <1>5 DEF Landmark
  <2>3. ASSUME NEW j \in S  PROVE j >= e + 1
    <3>1. CASE j = n
      BY <1>1, <1>4, <3>1
    <3>2. CASE j \in Landmark /\ j >= a
      <4>1. j \notin a .. e /\ j \in Nat
        BY <1>1, <1>5, <3>2
      <4>. QED  BY <1>2, <1>4, <3>2, <4>1
    <3>. QED  BY <2>3, <3>1, <3>2 DEF Landmark
  <2>. QED  BY <2>1, <2>2, <2>3
<1>. HIDE DEF S
<1>7. Min(S) \in S /\ \A j \in S : Min(S) <= j
  BY <1>6, MinIs
<1>8. Min(S) = e + 1
  <2>1. Min(S) \in Nat
    BY <1>6, <1>7
  <2>2. e \in Nat
    BY <1>2, <1>4
  <2>3. Min(S) <= e + 1 /\ Min(S) >= e + 1
    BY <1>6, <1>7
  <2>. QED  BY <2>1, <2>2, <2>3
<1>9. Min(S) - 1 = e
  BY <1>2, <1>4, <1>8
<1>. QED  BY <1>9 DEF S, TextFrom, ActionAt

(* At the end of the tokens, parse has found what the text gives. *)
LEMMA FoundAll ==
  ASSUME SomeTokens, NEW where, NEW rows, NEW f, where # "row", Walked(Len(tokens) + 1, where),
         RowsFound(Len(tokens) + 1, where, rows, f)
  PROVE  /\ InOrder(f, Len(rows), Header)
         /\ \A r \in 1 .. Len(rows) : rows[r] = [key |-> KeyOf(f[r]), ops |-> Given(f[r])]
<1>. DEFINE n == Len(tokens) + 1
<1>1. /\ n \in Nat /\ \A h \in Header : h \in Nat /\ h < n /\ h + 4 < n
      /\ \A m \in Mark : m \in Nat /\ m < n /\ m + 2 < n
  <2>1. /\ n \in Nat /\ \A h \in Header : h \in Nat /\ h < n
        /\ \A m \in Mark : m \in Nat /\ m < n
    BY Landmarks
  <2>. QED  BY <2>1 DEF Walked
<1>2. HeadersTo(n) = Header
  BY <1>1 DEF HeadersTo
<1>3. ASSUME NEW h \in Header  PROVE GivenTo(h, n) = Given(h)
  <2>1. MarksTo(h, n) = MarksOf(h)
    BY <1>1, MarksOfIs DEF MarksTo
  <2>2. CASE MarksOf(h) = {}
    <3>1. ~ MarkAt(h + 4)
      <4>. SUFFICES ASSUME MarkAt(h + 4)  PROVE FALSE
        OBVIOUS
      <4>1. h + 4 \in Mark
        BY <1>1, TokensAre DEF Mark
      <4>2. h \in 1 .. Len(tokens) /\ HeaderAt(h) /\ h + 4 \in 1 .. Len(tokens)
        BY <4>1, Landmarks
      <4>3. \A i \in h + 1 .. h + 3 : i \notin Header \cup Top
        BY <4>2, HeaderIs DEF Header, Top
      <4>4. h + 4 \notin Header \cup Top
        BY <4>1, <4>2, MarkIs DEF Header, Top
      <4>5. \A i \in h + 1 .. h + 4 : i \in h + 1 .. h + 3 \/ i = h + 4
        BY <1>1
      <4>6. h + 4 \in MarksOf(h)
        BY <1>1, <4>1, <4>3, <4>4, <4>5, MarksOfIs
      <4>. QED  BY <2>2, <4>6
    <3>2. h + 4 \in ActionHead /\ h + 4 < n
      BY <1>1, <3>1, ActionHeads
    <3>3. TextFrom(h + 4) = ActionAt(h + 4)
      BY <3>2, TextIs
    <3>. QED  BY <2>1, <2>2, <3>2, <3>3 DEF GivenTo, Given
  <2>3. CASE MarksOf(h) # {}
    <3>. DEFINE S(o) == {m \in MarksOf(h) : OpOf(m) = o}
    <3>1. ASSUME NEW o \in {OpOf(m) : m \in MarksOf(h)}
          PROVE  TextFrom(Max(S(o)) + 2) = ActionAt(Max(S(o)) + 2)
      <4>1. S(o) # {} /\ S(o) \subseteq 0 .. n
        BY <1>1, <3>1, MarksOfIs
      <4>2. Max(S(o)) \in S(o)
        BY <1>1, <4>1, MaxIs
      <4>3. Max(S(o)) \in Mark
        BY <4>2, MarksOfIs
      <4>4. Max(S(o)) + 2 \in ActionHead /\ Max(S(o)) + 2 < n
        BY <1>1, <4>3, ActionHeads
      <4>. QED  BY <4>4, TextIs
    <3>2. GivenTo(h, n) = [o \in {OpOf(m) : m \in MarksOf(h)} |-> ActionAt(Max(S(o)) + 2)]
      BY <2>1, <2>3 DEF GivenTo
    <3>3. Given(h) = [o \in {OpOf(m) : m \in MarksOf(h)} |-> TextFrom(Max(S(o)) + 2)]
      BY <2>3 DEF Given
    <3>. HIDE DEF S
    <3>. QED  BY <3>1, <3>2, <3>3
  <2>. QED  BY <2>2, <2>3
<1>4. InOrder(f, Len(rows), Header)
  BY <1>2 DEF RowsFound
<1>5. \A r \in 1 .. Len(rows) : f[r] \in Header
  BY <1>4 DEF InOrder
<1>6. \A r \in 1 .. Len(rows) : rows[r] = [key |-> KeyOf(f[r]), ops |-> GivenTo(f[r], n)]
  BY DEF RowsFound
<1>. HIDE DEF n
<1>. QED  BY <1>3, <1>4, <1>5, <1>6

-----------------------------------------------------------------------------

(* parse_source in its loop: f gives the k headers in their order, `rows'  *)
(* is what is still to bind, the rest of the first of these rows and all   *)
(* of the others; and l is the layer so far.                               *)
Rest(k, f, rows) ==
  /\ \E R : rows \in Seq(R)
  /\ InOrder(f, k, Header)
  /\ Len(rows) <= k
  /\ \A r \in 1 .. Len(rows) :
       /\ rows[r].key = KeyOf(f[k - Len(rows) + r])
       /\ DOMAIN rows[r].ops \subseteq DOMAIN Given(f[k - Len(rows) + r])
       /\ \A op \in DOMAIN rows[r].ops : rows[r].ops[op] = Given(f[k - Len(rows) + r])[op]
       /\ r > 1 => DOMAIN Given(f[k - Len(rows) + r]) \subseteq DOMAIN rows[r].ops

(* The operations that row r of the text gives, and that are still to bind. *)
Left(k, f, rows, r) ==
  IF r > k - Len(rows) THEN IF r = k - Len(rows) + 1 THEN DOMAIN rows[1].ops ELSE DOMAIN Given(f[r])
  ELSE {}

BoundSoFar(k, f, rows, l) ==
  /\ l.bindings = [b \in DOMAIN l.bindings |-> l.bindings[b]]
  /\ \A b \in DOMAIN l.bindings :
       /\ b \in Speaks /\ l.bindings[b] = Meaning[b]
       /\ \E r \in 1 .. k : /\ r <= k - Len(rows) + 1
                            /\ KeyOf(f[r]) = b[1] /\ b[2] \in DOMAIN Given(f[r])
  /\ \A r \in 1 .. k : \A op \in DOMAIN Given(f[r]) :
       r <= k - Len(rows) + 1 /\ op \notin Left(k, f, rows, r) =>
         <<KeyOf(f[r]), op>> \in DOMAIN l.bindings
  /\ l.on_hold_bound = (\E b \in DOMAIN l.bindings : b[2] = "HOLD")

LEMMA SpeaksIs ==
  \A b : b \in Speaks <=> \E h \in Header : \E op \in DOMAIN Given(h) : b = <<KeyOf(h), op>>
BY DEF Speaks

LEMMA FirstRowIs ==
  ASSUME SomeTokens, NEW b \in Speaks
  PROVE  /\ FirstRow(b) \in Header /\ KeyOf(FirstRow(b)) = b[1] /\ b[2] \in DOMAIN Given(FirstRow(b))
         /\ \A h \in Header : KeyOf(h) = b[1] /\ b[2] \in DOMAIN Given(h) => FirstRow(b) <= h
         /\ b = <<b[1], b[2]>>
<1>. DEFINE S == {h \in Header : KeyOf(h) = b[1] /\ b[2] \in DOMAIN Given(h)}
<1>1. PICK h \in Header : \E op \in DOMAIN Given(h) : b = <<KeyOf(h), op>>
  BY SpeaksIs
<1>2. h \in S /\ S \subseteq Nat
  BY <1>1, Landmarks
<1>3. Min(S) \in S /\ \A m \in S : Min(S) <= m
  BY <1>2, MinIs
<1>4. FirstRow(b) = Min(S)
  BY DEF FirstRow
<1>. QED  BY <1>1, <1>3, <1>4

LEMMA BoundInit ==
  ASSUME SomeTokens, NEW rows, NEW f, \E R : rows \in Seq(R), InOrder(f, Len(rows), Header),
         \A r \in 1 .. Len(rows) : rows[r] = [key |-> KeyOf(f[r]), ops |-> Given(f[r])]
  PROVE  Rest(Len(rows), f, rows) /\ BoundSoFar(Len(rows), f, rows, EmptyLayer)
<1>. DEFINE k == Len(rows)
<1>1. k \in Nat
  BY DEF InOrder
<1>2. k - k = 0 /\ \A r \in 1 .. k : k - k + r = r /\ r \in Nat
  BY <1>1
<1>3. Rest(k, f, rows)
  <2>1. ASSUME NEW r \in 1 .. k
        PROVE  /\ rows[r].key = KeyOf(f[k - k + r]) /\ rows[r].ops = Given(f[k - k + r])
    <3>1. k - k + r = r
      BY <1>2
    <3>2. rows[r] = [key |-> KeyOf(f[r]), ops |-> Given(f[r])]
      OBVIOUS
    <3>. QED  BY <3>1, <3>2
  <2>2. k <= k
    BY <1>1
  <2>. QED  BY <2>1, <2>2 DEF Rest
<1>4. EmptyLayer.bindings = [b \in DOMAIN EmptyLayer.bindings |-> EmptyLayer.bindings[b]]
      /\ DOMAIN EmptyLayer.bindings = {} /\ EmptyLayer.on_hold_bound = FALSE
  BY DEF EmptyLayer
<1>5. ASSUME NEW r \in 1 .. k, r <= k - k + 1, NEW op \in DOMAIN Given(f[r]), op \notin Left(k, f, rows, r)
      PROVE  FALSE
  <2>1. r = 1 /\ k - k + 1 = 1 /\ r > k - k
    BY <1>1, <1>5
  <2>2. rows[r] = [key |-> KeyOf(f[r]), ops |-> Given(f[r])]
    OBVIOUS
  <2>3. rows[1].ops = Given(f[r])
    BY <2>1, <2>2
  <2>. QED  BY <1>5, <2>1, <2>3 DEF Left
<1>. QED  BY <1>3, <1>4, <1>5 DEF BoundSoFar

(* With every row bound, the layer says what the text says. *)
LEMMA BoundAll ==
  ASSUME SomeTokens, NEW k, NEW f, NEW rows, NEW l, Rest(k, f, rows), BoundSoFar(k, f, rows, l), rows = <<>>
  PROVE  /\ l.bindings = Meaning
         /\ l.on_hold_bound = (\E b \in Speaks : b[2] = "HOLD")
<1>1. Len(rows) = 0 /\ k \in Nat /\ InOrder(f, k, Header)
  BY DEF Rest, InOrder
<1>2. \A r \in 1 .. k : r <= k - Len(rows) + 1 /\ ~ (r > k - Len(rows))
  BY <1>1
<1>3. DOMAIN l.bindings = Speaks
  <2>1. ASSUME NEW b \in Speaks  PROVE b \in DOMAIN l.bindings
    <3>1. PICK h \in Header : \E op \in DOMAIN Given(h) : b = <<KeyOf(h), op>>
      BY SpeaksIs
    <3>2. PICK op \in DOMAIN Given(h) : b = <<KeyOf(h), op>>
      BY <3>1
    <3>3. PICK r \in 1 .. k : f[r] = h
      BY <1>1 DEF InOrder
    <3>4. op \notin Left(k, f, rows, r)
      BY <1>2 DEF Left
    <3>. QED  BY <1>2, <3>2, <3>3, <3>4 DEF BoundSoFar
  <2>2. \A b \in DOMAIN l.bindings : b \in Speaks
    BY DEF BoundSoFar
  <2>. QED  BY <2>1, <2>2
<1>4. \A b \in Speaks : l.bindings[b] = Meaning[b]
  BY <1>3 DEF BoundSoFar
<1>5. l.bindings = [b \in Speaks |-> l.bindings[b]]
  BY <1>3 DEF BoundSoFar
<1>6. Meaning = [b \in Speaks |-> Meaning[b]]
  BY DEF Meaning
<1>. QED  BY <1>3, <1>4, <1>5, <1>6 DEF BoundSoFar

(* The rows before the one that is being bound are bound in full. *)
LEMMA BoundInOrder ==
  ASSUME SomeTokens, NEW k, NEW f, NEW rows, NEW l, Rest(k, f, rows), BoundSoFar(k, f, rows, l)
  PROVE  \A b \in DOMAIN l.bindings :
           /\ b \in Speaks /\ l.bindings[b] = Meaning[b]
           /\ \A c \in Speaks : FirstRow(c) < FirstRow(b) => c \in DOMAIN l.bindings
<1>. SUFFICES ASSUME NEW b \in DOMAIN l.bindings, NEW c \in Speaks, b \in Speaks, FirstRow(c) < FirstRow(b)
              PROVE  c \in DOMAIN l.bindings
  BY DEF BoundSoFar
<1>1. /\ k \in Nat /\ Len(rows) \in Nat /\ Len(rows) <= k /\ InOrder(f, k, Header)
  BY DEF Rest, InOrder
<1>2. PICK r \in 1 .. k : r <= k - Len(rows) + 1 /\ KeyOf(f[r]) = b[1] /\ b[2] \in DOMAIN Given(f[r])
  BY DEF BoundSoFar
<1>3. f[r] \in Header /\ f[r] \in Nat
  BY <1>1, Landmarks DEF InOrder
<1>4. FirstRow(b) \in Header /\ FirstRow(b) \in Nat /\ FirstRow(b) <= f[r]
  BY <1>2, <1>3, FirstRowIs, Landmarks
<1>5. /\ FirstRow(c) \in Header /\ FirstRow(c) \in Nat /\ c = <<KeyOf(FirstRow(c)), c[2]>>
      /\ c[2] \in DOMAIN Given(FirstRow(c))
  BY FirstRowIs, Landmarks
<1>6. PICK s \in 1 .. k : f[s] = FirstRow(c)
  BY <1>1, <1>5 DEF InOrder
<1>7. s < r
  <2>1. f[s] < f[r]
    BY <1>3, <1>4, <1>5, <1>6
  <2>2. ~ (r < s) /\ r # s
    BY <1>1, <1>3, <1>5, <1>6, <2>1 DEF InOrder
  <2>. QED  BY <1>1, <2>2
<1>8. s <= k - Len(rows) + 1 /\ ~ (s > k - Len(rows))
  BY <1>1, <1>2, <1>7
<1>9. c[2] \notin Left(k, f, rows, s)
  BY <1>8 DEF Left
<1>. QED  BY <1>5, <1>6, <1>8, <1>9 DEF BoundSoFar

Less(rows, op) ==
  IF DOMAIN rows[1].ops = {op} THEN Tail(rows)
  ELSE [rows EXCEPT ![1].ops = Restrict(@, DOMAIN @ \ {op})]

(* Without one operation of the first row, the rest is still a rest; and   *)
(* nothing else is taken away.                                             *)
LEMMA RestNext ==
  ASSUME SomeTokens, NEW k, NEW f, NEW rows, Rest(k, f, rows), rows # <<>>,
         NEW op \in DOMAIN rows[1].ops, NEW rows2,
         rows2 = Less(rows, op)
  PROVE  /\ Rest(k, f, rows2) /\ k \in Nat /\ Len(rows2) \in Nat
         /\ Len(rows) \in 1 .. k /\ Len(rows2) <= Len(rows)
         /\ \A r \in 1 .. k : \A o \in DOMAIN Given(f[r]) :
              r <= k - Len(rows2) + 1 /\ o \notin Left(k, f, rows2, r) =>
                \/ r <= k - Len(rows) + 1 /\ o \notin Left(k, f, rows, r)
                \/ r = k - Len(rows) + 1 /\ o = op
<1>. DEFINE n == Len(rows)
            n2 == Len(rows2)
<1>1. PICK R : rows \in Seq(R)
  BY DEF Rest
<1>2. k \in Nat /\ n \in 1 .. k
  BY <1>1 DEF Rest, InOrder
<1>3. /\ InOrder(f, k, Header)
      /\ \A r \in 1 .. n :
           /\ rows[r].key = KeyOf(f[k - n + r])
           /\ DOMAIN rows[r].ops \subseteq DOMAIN Given(f[k - n + r])
           /\ \A o \in DOMAIN rows[r].ops : rows[r].ops[o] = Given(f[k - n + r])[o]
           /\ r > 1 => DOMAIN Given(f[k - n + r]) \subseteq DOMAIN rows[r].ops
  BY DEF Rest
<1>4. CASE DOMAIN rows[1].ops = {op}
  <2>1. rows2 \in Seq(R) /\ n2 = n - 1 /\ \A r \in 1 .. n2 : rows2[r] = rows[r + 1]
    BY <1>1, <1>2, <1>4 DEF Less
  <2>. HIDE DEF n, n2
  <2>2. ASSUME NEW r \in 1 .. n2
        PROVE  /\ rows2[r].key = KeyOf(f[k - n2 + r])
               /\ DOMAIN rows2[r].ops \subseteq DOMAIN Given(f[k - n2 + r])
               /\ \A o \in DOMAIN rows2[r].ops : rows2[r].ops[o] = Given(f[k - n2 + r])[o]
               /\ DOMAIN Given(f[k - n2 + r]) \subseteq DOMAIN rows2[r].ops
    <3>1. r + 1 \in 1 .. n /\ r + 1 > 1 /\ k - n2 + r = k - n + (r + 1)
      BY <1>2, <2>1
    <3>2. rows2[r] = rows[r + 1]
      BY <2>1
    <3>. HIDE DEF n, n2
    <3>. QED  BY <1>3, <3>1, <3>2
  <2>3. Rest(k, f, rows2)
    <3>1. Len(rows2) <= k
      BY <1>2, <2>1 DEF n2
    <3>. QED  BY <1>3, <2>1, <2>2, <3>1 DEF Rest, n2
  <2>4. ASSUME NEW r \in 1 .. k, NEW o \in DOMAIN Given(f[r]), r <= k - n2 + 1, o \notin Left(k, f, rows2, r)
        PROVE  \/ r <= k - n + 1 /\ o \notin Left(k, f, rows, r)
               \/ r = k - n + 1 /\ o = op
    <3>1. CASE r = k - n2 + 1
      <4>1. 1 \in 1 .. n2 /\ r > k - n2
        BY <1>2, <2>1, <2>4, <3>1
      <4>2. Left(k, f, rows2, r) = DOMAIN rows2[1].ops
        BY <3>1, <4>1 DEF Left, n2
      <4>. QED  BY <2>2, <2>4, <3>1, <4>1, <4>2
    <3>2. CASE r = k - n + 1
      <4>1. r > k - n
        BY <1>2, <3>2
      <4>2. Left(k, f, rows, r) = DOMAIN rows[1].ops
        BY <3>2, <4>1 DEF Left, n
      <4>3. r <= k - n + 1
        BY <1>2, <3>2
      <4>. QED  BY <1>4, <3>2, <4>2, <4>3
    <3>3. CASE r <= k - n
      <4>1. ~ (r > k - n) /\ r <= k - n + 1
        BY <1>2, <3>3
      <4>2. Left(k, f, rows, r) = {}
        BY <4>1 DEF Left, n
      <4>. QED  BY <4>1, <4>2
    <3>4. r = k - n2 + 1 \/ r = k - n + 1 \/ r <= k - n
      BY <1>2, <2>1, <2>4
    <3>. QED  BY <3>1, <3>2, <3>3, <3>4
  <2>5. n2 \in Nat /\ n2 <= n
    BY <1>2, <2>1
  <2>. QED  BY <1>2, <2>3, <2>4, <2>5 DEF n, n2
<1>5. CASE DOMAIN rows[1].ops # {op}
  <2>. DEFINE row == [rows[1] EXCEPT !.ops = Restrict(rows[1].ops, DOMAIN rows[1].ops \ {op})]
  <2>1. rows2 = [rows EXCEPT ![1] = row]
    <3>1. rows2 = [rows EXCEPT ![1].ops = Restrict(@, DOMAIN @ \ {op})]
      BY <1>5 DEF Less
    <3>. QED  BY Zenon, <3>1
  <2>2. 1 \in 1 .. n /\ n \in Nat
    BY <1>2
  <2>3. row.key = rows[1].key /\ row.ops = Restrict(rows[1].ops, DOMAIN rows[1].ops \ {op})
    BY <1>3, <2>2
  <2>. HIDE DEF row
  <2>4. rows \in Seq(R \cup {row})
    BY <1>1
  <2>5. rows2 \in Seq(R \cup {row}) /\ n2 = n /\ \A r \in 1 .. n : rows2[r] = IF r = 1 THEN row ELSE rows[r]
    <3>. DEFINE other == [rows EXCEPT ![1] = row]
    <3>1. /\ other \in Seq(R \cup {row}) /\ Len(other) = Len(rows)
          /\ \A r \in 1 .. Len(rows) : other[r] = IF r = 1 THEN row ELSE rows[r]
      BY <2>2, <2>4, ExceptSeq
    <3>. HIDE DEF other
    <3>2. rows2 = other
      BY <2>1 DEF other
    <3>. QED  BY <3>1, <3>2
  <2>. HIDE DEF n, n2
  <2>6. DOMAIN row.ops = DOMAIN rows[1].ops \ {op} /\ \A o \in DOMAIN row.ops : row.ops[o] = rows[1].ops[o]
    BY <2>3 DEF Restrict
  <2>7. ASSUME NEW r \in 1 .. n
        PROVE  /\ rows2[r].key = KeyOf(f[k - n + r])
               /\ DOMAIN rows2[r].ops \subseteq DOMAIN Given(f[k - n + r])
               /\ \A o \in DOMAIN rows2[r].ops : rows2[r].ops[o] = Given(f[k - n + r])[o]
               /\ r > 1 => DOMAIN Given(f[k - n + r]) \subseteq DOMAIN rows2[r].ops
    <3>1. CASE r = 1
      <4>1. rows2[r] = row
        BY <2>5, <3>1
      <4>2. /\ rows[1].key = KeyOf(f[k - n + 1])
            /\ DOMAIN rows[1].ops \subseteq DOMAIN Given(f[k - n + 1])
            /\ \A o \in DOMAIN rows[1].ops : rows[1].ops[o] = Given(f[k - n + 1])[o]
        BY <1>3, <2>2
      <4>3. /\ row.key = KeyOf(f[k - n + 1])
            /\ DOMAIN row.ops \subseteq DOMAIN Given(f[k - n + 1])
            /\ \A o \in DOMAIN row.ops : row.ops[o] = Given(f[k - n + 1])[o]
        BY <2>3, <2>6, <4>2
      <4>4. ~ (r > 1)
        BY <3>1
      <4>5. k - n + r = k - n + 1
        BY <3>1
      <4>. QED  BY <4>1, <4>3, <4>4, <4>5
    <3>2. CASE r # 1
      <4>1. rows2[r] = rows[r]
        BY <2>5, <3>2
      <4>. QED  BY <1>3, <4>1
    <3>. QED  BY <3>1, <3>2
  <2>8. Rest(k, f, rows2)
    <3>1. n2 <= k
      BY <1>2, <2>5
    <3>2. \A r \in 1 .. n2 :
            /\ rows2[r].key = KeyOf(f[k - n2 + r])
            /\ DOMAIN rows2[r].ops \subseteq DOMAIN Given(f[k - n2 + r])
            /\ \A o \in DOMAIN rows2[r].ops : rows2[r].ops[o] = Given(f[k - n2 + r])[o]
            /\ r > 1 => DOMAIN Given(f[k - n2 + r]) \subseteq DOMAIN rows2[r].ops
      BY <2>5, <2>7
    <3>. QED  BY <1>3, <2>5, <3>1, <3>2 DEF Rest, n2
  <2>9. ASSUME NEW r \in 1 .. k, NEW o \in DOMAIN Given(f[r]), r <= k - n2 + 1, o \notin Left(k, f, rows2, r)
        PROVE  \/ r <= k - n + 1 /\ o \notin Left(k, f, rows, r)
               \/ r = k - n + 1 /\ o = op
    <3>1. r <= k - n + 1
      BY <2>5, <2>9
    <3>2. CASE r = k - n + 1
      <4>1. r > k - n
        BY <1>2, <3>2
      <4>2. Left(k, f, rows, r) = DOMAIN rows[1].ops
        BY <3>2, <4>1 DEF Left, n
      <4>3. Left(k, f, rows2, r) = DOMAIN rows2[1].ops
        BY <2>5, <3>2, <4>1 DEF Left, n2
      <4>4. rows2[1] = row
        BY <2>2, <2>5
      <4>. QED  BY <2>6, <2>9, <3>1, <3>2, <4>2, <4>3, <4>4
    <3>3. CASE r # k - n + 1
      <4>1. ~ (r > k - n)
        BY <1>2, <3>1, <3>3
      <4>2. Left(k, f, rows, r) = {}
        BY <4>1 DEF Left, n
      <4>. QED  BY <3>1, <4>2
    <3>. QED  BY <3>2, <3>3
  <2>10. n2 \in Nat /\ n2 <= n
    BY <2>2, <2>5
  <2>. QED  BY <1>2, <2>8, <2>9, <2>10 DEF n, n2
<1>. QED  BY <1>4, <1>5

LEMMA BoundNext ==
  ASSUME SomeTokens, NEW k, NEW f, NEW rows, NEW l, Rest(k, f, rows), BoundSoFar(k, f, rows, l),
         rows # <<>>, NEW op \in DOMAIN rows[1].ops, NEW rows2, NEW l2,
         rows2 = Less(rows, op),
         l2 = Bind(l, rows[1].key, ParseActionList(rows[1].ops[op], op), op)
  PROVE  Rest(k, f, rows2) /\ BoundSoFar(k, f, rows2, l2)
<1>. DEFINE n == Len(rows)
            d == k - n + 1
            b == <<KeyOf(f[d]), op>>
            meant == ParseActionList(rows[1].ops[op], op)
<1>1. /\ Rest(k, f, rows2) /\ k \in Nat /\ Len(rows2) \in Nat
      /\ n \in 1 .. k /\ Len(rows2) <= n
      /\ \A r \in 1 .. k : \A o \in DOMAIN Given(f[r]) :
           r <= k - Len(rows2) + 1 /\ o \notin Left(k, f, rows2, r) =>
             \/ r <= d /\ o \notin Left(k, f, rows, r)
             \/ r = d /\ o = op
  BY RestNext
<1>2. d \in 1 .. k /\ 1 \in 1 .. n /\ n \in Nat
  BY <1>1
<1>3. InOrder(f, k, Header) /\ f[d] \in Header
  BY <1>2 DEF Rest, InOrder
<1>4. /\ rows[1].key = KeyOf(f[d]) /\ op \in DOMAIN Given(f[d]) /\ rows[1].ops[op] = Given(f[d])[op]
  BY <1>2 DEF Rest
<1>5. b \in Speaks /\ b[1] = KeyOf(f[d]) /\ b[2] = op
  BY <1>3, <1>4, SpeaksIs
<1>. HIDE DEF n, b, meant
<1>6. ASSUME b \notin DOMAIN l.bindings  PROVE Meaning[b] = meant
  <2>1. /\ FirstRow(b) \in Header /\ KeyOf(FirstRow(b)) = KeyOf(f[d]) /\ op \in DOMAIN Given(FirstRow(b))
        /\ FirstRow(b) <= f[d]
    BY <1>3, <1>4, <1>5, FirstRowIs
  <2>2. PICK s \in 1 .. k : f[s] = FirstRow(b)
    BY <1>3, <2>1 DEF InOrder
  <2>3. s = d
    <3>1. ~ (d < s)
      <4>. SUFFICES ASSUME d < s  PROVE FALSE
        OBVIOUS
      <4>1. f[d] < f[s]
        BY <1>2, <1>3 DEF InOrder
      <4>2. f[d] \in Nat /\ f[s] \in Nat
        BY <1>3, <2>1, <2>2, Landmarks
      <4>. QED  BY <2>1, <2>2, <4>1, <4>2
    <3>2. ~ (s < d)
      <4>. SUFFICES ASSUME s < d  PROVE FALSE
        OBVIOUS
      <4>1. s <= k - Len(rows) + 1 /\ ~ (s > k - Len(rows))
        BY <1>1, <1>2 DEF n
      <4>2. op \notin Left(k, f, rows, s)
        BY <4>1 DEF Left
      <4>3. <<KeyOf(f[s]), op>> \in DOMAIN l.bindings
        BY <2>1, <2>2, <4>1, <4>2 DEF BoundSoFar
      <4>. QED  BY <1>6, <2>1, <2>2, <4>3 DEF b
    <3>. QED  BY <1>1, <1>2, <3>1, <3>2
  <2>4. FirstRow(b) = f[d]
    BY <2>2, <2>3
  <2>5. Meaning[b] = ParseActionList(Given(FirstRow(b))[b[2]], b[2])
    BY <1>5 DEF Meaning
  <2>. QED  BY <1>4, <1>5, <2>4, <2>5 DEF meant
<1>7. l2.on_hold_bound = (l.on_hold_bound \/ op = "HOLD") /\
      l2.bindings = IF b \in DOMAIN l.bindings THEN l.bindings ELSE With(l.bindings, b, meant)
  BY <1>4 DEF Bind, Bound, b, meant
<1>8. /\ l2.bindings = [c \in DOMAIN l2.bindings |-> l2.bindings[c]]
      /\ DOMAIN l2.bindings = DOMAIN l.bindings \cup {b}
      /\ \A c \in DOMAIN l.bindings : l2.bindings[c] = l.bindings[c]
      /\ b \notin DOMAIN l.bindings => l2.bindings[b] = meant
  <2>1. CASE b \in DOMAIN l.bindings
    <3>1. l.bindings = [c \in DOMAIN l.bindings |-> l.bindings[c]]
      BY DEF BoundSoFar
    <3>. QED  BY <1>7, <2>1, <3>1
  <2>2. CASE b \notin DOMAIN l.bindings
    <3>. DEFINE new == With(l.bindings, b, meant)
    <3>1. /\ new = [c \in DOMAIN new |-> new[c]] /\ DOMAIN new = DOMAIN l.bindings \cup {b}
          /\ new[b] = meant /\ \A c \in DOMAIN l.bindings : c # b => new[c] = l.bindings[c]
      BY DEF With
    <3>. HIDE DEF new
    <3>2. l2.bindings = new
      BY <1>7, <2>2 DEF new
    <3>. QED  BY <2>2, <3>1, <3>2
  <2>. QED  BY <2>1, <2>2
<1>9. ASSUME NEW c \in DOMAIN l2.bindings
      PROVE  /\ c \in Speaks /\ l2.bindings[c] = Meaning[c]
             /\ \E r \in 1 .. k : /\ r <= k - Len(rows2) + 1
                                  /\ KeyOf(f[r]) = c[1] /\ c[2] \in DOMAIN Given(f[r])
  <2>0. \A r \in 1 .. k : r <= d => r <= k - Len(rows2) + 1
    BY <1>1, <1>2
  <2>1. CASE c \in DOMAIN l.bindings
    <3>1. /\ c \in Speaks /\ l.bindings[c] = Meaning[c]
          /\ \E r \in 1 .. k : /\ r <= d
                               /\ KeyOf(f[r]) = c[1] /\ c[2] \in DOMAIN Given(f[r])
      BY <2>1 DEF BoundSoFar, n
    <3>. QED  BY <1>8, <2>0, <2>1, <3>1
  <2>2. CASE c \notin DOMAIN l.bindings
    <3>1. c = b
      BY <1>8, <2>2
    <3>2. d <= d
      BY <1>2
    <3>. QED  BY <1>2, <1>4, <1>5, <1>6, <1>8, <2>0, <2>2, <3>1, <3>2
  <2>. QED  BY <2>1, <2>2
<1>10. ASSUME NEW r \in 1 .. k, NEW o \in DOMAIN Given(f[r]),
              r <= k - Len(rows2) + 1, o \notin Left(k, f, rows2, r)
       PROVE  <<KeyOf(f[r]), o>> \in DOMAIN l2.bindings
  <2>1. CASE r <= d /\ o \notin Left(k, f, rows, r)
    <3>1. <<KeyOf(f[r]), o>> \in DOMAIN l.bindings
      BY <2>1 DEF BoundSoFar, n
    <3>. QED  BY <1>8, <3>1
  <2>2. CASE r = d /\ o = op
    BY <1>8, <2>2 DEF b
  <2>. QED  BY <1>1, <1>10, <2>1, <2>2
<1>11. l2.on_hold_bound = (\E c \in DOMAIN l2.bindings : c[2] = "HOLD")
  <2>1. l.on_hold_bound = (\E c \in DOMAIN l.bindings : c[2] = "HOLD")
    BY DEF BoundSoFar
  <2>2. (\E c \in DOMAIN l2.bindings : c[2] = "HOLD") <=>
          (\E c \in DOMAIN l.bindings : c[2] = "HOLD") \/ op = "HOLD"
    BY <1>5, <1>8
  <2>. QED  BY <1>7, <2>1, <2>2
<1>12. BoundSoFar(k, f, rows2, l2)
  BY <1>8, <1>9, <1>10, <1>11 DEF BoundSoFar
<1>. QED  BY <1>1, <1>12

-----------------------------------------------------------------------------

(* What the text says changes with the tokens only. *)
LEMMA TextSame ==
  ASSUME UNCHANGED tokens
  PROVE  /\ Header' = Header /\ Mark' = Mark /\ Top' = Top /\ ActionHead' = ActionHead
         /\ Landmark' = Landmark
         /\ \A i : ActionEnd(i)' = ActionEnd(i) /\ ActionAt(i)' = ActionAt(i) /\ TextFrom(i)' = TextFrom(i)
         /\ \A h : MarksOf(h)' = MarksOf(h) /\ KeyOf(h)' = KeyOf(h) /\ OpOf(h)' = OpOf(h)
         /\ \A h : Given(h)' = Given(h)
<1>1. \A i : \A t : At(i, t)' = At(i, t)
  BY DEF At
<1>2. \A i : TopAt(i)' = TopAt(i) /\ OnXAt(i)' = OnXAt(i)
  BY DEF TopAt, OnXAt
<1>3. \A i : HeaderAt(i)' = HeaderAt(i) /\ MarkAt(i)' = MarkAt(i)
  BY DEF HeaderAt, MarkAt, At, OnXAt
<1>4. Header' = Header /\ Mark' = Mark
  BY DEF Header, Mark, HeaderAt, MarkAt, At, OnXAt
<1>5. ActionHead' = ActionHead
  BY <1>4 DEF ActionHead, Header, Mark, HeaderAt, MarkAt, At, OnXAt
<1>6. Top' = Top
  BY <1>5 DEF Top, TopAt
<1>7. \A i : ActionEnd(i)' = ActionEnd(i) /\ ActionAt(i)' = ActionAt(i)
  BY DEF ActionEnd, ActionAt
<1>8. \A i : TextFrom(i)' = TextFrom(i)
  BY <1>4, <1>6 DEF TextFrom
<1>9. \A h : MarksOf(h)' = MarksOf(h) /\ KeyOf(h)' = KeyOf(h) /\ OpOf(h)' = OpOf(h)
  BY <1>4, <1>6 DEF MarksOf, KeyOf, OpOf, RowKey
<1>10. \A h : Given(h)' = Given(h)
  BY <1>8, <1>9 DEF Given
<1>. QED  BY <1>4, <1>5, <1>6, <1>7, <1>8, <1>9, <1>10 DEF Landmark

LEMMA MeaningSame ==
  ASSUME UNCHANGED tokens
  PROVE  Speaks' = Speaks /\ Meaning' = Meaning /\ \A b : FirstRow(b)' = FirstRow(b)
<1>1. Header' = Header /\ (\A h : KeyOf(h)' = KeyOf(h) /\ Given(h)' = Given(h))
  BY TextSame
<1>2. Speaks' = Speaks
  BY <1>1 DEF Speaks
<1>3. \A b : FirstRow(b)' = FirstRow(b)
  BY <1>1 DEF FirstRow
<1>4. ASSUME NEW b  PROVE (Given(FirstRow(b))[b[2]])' = Given(FirstRow(b))[b[2]]
  BY <1>1, <1>3
<1>5. Meaning' = Meaning
  BY <1>2, <1>4 DEF Meaning
<1>. QED  BY <1>2, <1>3, <1>5

LEMMA WalkedSame ==
  ASSUME UNCHANGED tokens, NEW n, NEW where, NEW rows, NEW f, Walked(n, where), RowsFound(n, where, rows, f)
  PROVE  Walked(n, where)' /\ RowsFound(n, where, rows, f)'
<1>1. /\ Header' = Header /\ Mark' = Mark /\ Top' = Top /\ ActionHead' = ActionHead /\ Landmark' = Landmark
      /\ \A i : ActionEnd(i)' = ActionEnd(i) /\ ActionAt(i)' = ActionAt(i)
      /\ \A h : MarksOf(h)' = MarksOf(h) /\ KeyOf(h)' = KeyOf(h) /\ OpOf(h)' = OpOf(h)
  BY TextSame
<1>2. Walked(n, where)'
  BY <1>1 DEF Walked
<1>3. HeadersTo(n)' = HeadersTo(n) /\ \A h : MarksTo(h, n)' = MarksTo(h, n)
  BY <1>1 DEF HeadersTo, MarksTo
<1>4. \A h : GivenTo(h, n)' = GivenTo(h, n)
  <2>. SUFFICES ASSUME NEW h  PROVE GivenTo(h, n)' = GivenTo(h, n)
    OBVIOUS
  <2>. DEFINE last(o) == Max({m \in MarksTo(h, n) : OpOf(m) = o})
  <2>1. \A o : last(o)' = last(o)
    BY <1>1, <1>3
  <2>. HIDE DEF last
  <2>2. \A o : ActionAt(last(o) + 2)' = ActionAt(last(o) + 2)
    BY <1>1, <2>1
  <2>3. GivenTo(h, n) = IF MarksTo(h, n) = {} THEN IF h + 4 < n THEN [op \in {"PRESS"} |-> ActionAt(h + 4)] ELSE <<>>
                        ELSE [o \in {OpOf(m) : m \in MarksTo(h, n)} |-> ActionAt(last(o) + 2)]
    BY DEF GivenTo, last
  <2>4. GivenTo(h, n)' = IF MarksTo(h, n)' = {}
                         THEN IF h + 4 < n THEN [op \in {"PRESS"} |-> ActionAt(h + 4)'] ELSE <<>>
                         ELSE [o \in {OpOf(m)' : m \in MarksTo(h, n)'} |-> ActionAt(last(o) + 2)']
    BY DEF GivenTo, last
  <2>. QED  BY <1>1, <1>3, <2>2, <2>3, <2>4
<1>5. RowsFound(n, where, rows, f)'
  BY <1>1, <1>3, <1>4 DEF RowsFound, InOrder
<1>. QED  BY <1>2, <1>5

LEMMA BoundSame ==
  ASSUME UNCHANGED tokens, NEW k, NEW f, NEW rows, NEW l, Rest(k, f, rows), BoundSoFar(k, f, rows, l)
  PROVE  Rest(k, f, rows)' /\ BoundSoFar(k, f, rows, l)'
<1>1. Header' = Header /\ (\A h : KeyOf(h)' = KeyOf(h) /\ Given(h)' = Given(h))
  BY TextSame
<1>2. Speaks' = Speaks /\ Meaning' = Meaning
  BY MeaningSame
<1>3. Rest(k, f, rows)'
  BY <1>1 DEF Rest, InOrder
<1>4. \A r : Left(k, f, rows, r)' = Left(k, f, rows, r)
  BY <1>1 DEF Left
<1>5. BoundSoFar(k, f, rows, l)'
  BY <1>1, <1>2, <1>4 DEF BoundSoFar
<1>. QED  BY <1>3, <1>5

LEMMA LayerSame ==
  ASSUME UNCHANGED <<tokens, layer>>
  PROVE  /\ RowsInOrder' = RowsInOrder
         /\ pc' = pc /\ error' = error => LayerSaysTheText' = LayerSaysTheText
<1>1. Speaks' = Speaks /\ Meaning' = Meaning /\ \A b : FirstRow(b)' = FirstRow(b)
  BY MeaningSame
<1>2. RowsInOrder' = RowsInOrder
  BY <1>1 DEF RowsInOrder
<1>3. ASSUME pc' = pc, error' = error  PROVE LayerSaysTheText' = LayerSaysTheText
  BY <1>1, <1>3 DEF LayerSaysTheText
<1>. QED  BY <1>2, <1>3

-----------------------------------------------------------------------------

Parsing ==
  \E n, where, rows, f :
    /\ index = n /\ pc = where /\ bindings = rows
    /\ Walked(n, where) /\ RowsFound(n, where, rows, f)

(* `on press: on hold: ...': parse takes the second operation for the      *)
(* action of the first, and must then stop at a colon.                     *)
Doomed == pc = "more" /\ index \in Nat /\ At(index, "SYM_COLON")

Binding ==
  \E k, f, rows, l :
    /\ bindings = rows /\ layer = l
    /\ Rest(k, f, rows) /\ BoundSoFar(k, f, rows, l)

ParserInv ==
  /\ TokenInv
  /\ pc \in {"tokenize", "statement", "row", "more", "bind", "done", "halted"}
  /\ pc \in {"tokenize", "statement", "row", "more"} => layer = EmptyLayer
  /\ pc = "tokenize" => index = 1 /\ bindings = <<>>
  /\ pc \in {"statement", "row", "more"} => Parsing \/ Doomed
  /\ pc = "bind" => Binding
  /\ RowsInOrder
  /\ LayerSaysTheText

LEMMA TokensSome == TokenInv => SomeTokens
BY DEF TokenInv, PlacesOK, SomeTokens

LEMMA EmptyInOrder == layer = EmptyLayer => RowsInOrder
<1>1. DOMAIN EmptyLayer.bindings = {}
  BY DEF EmptyLayer
<1>. QED  BY <1>1 DEF RowsInOrder

LEMMA ParserInit == Init => ParserInv
<1>. SUFFICES ASSUME Init  PROVE ParserInv
  OBVIOUS
<1>1. TokenInv
  BY TokenInit DEF Init
<1>. QED  BY <1>1, EmptyInOrder DEF Init, ParserInv, LayerSaysTheText

(* A step that leaves the text, the tokens and the layer alone. *)
LEMMA ParseStep ==
  ASSUME ParserInv, UNCHANGED <<tokenizerVars, layer>>, layer = EmptyLayer,
         pc' \in {"statement", "row", "more"}, (Parsing \/ Doomed)'
  PROVE  ParserInv'
<1>1. TokenInv' /\ UNCHANGED tokens
  BY TokenUnchanged DEF ParserInv, tokenizerVars
<1>2. RowsInOrder'
  BY <1>1, LayerSame DEF ParserInv
<1>3. LayerSaysTheText'
  BY DEF LayerSaysTheText
<1>. QED  BY <1>1, <1>2, <1>3 DEF ParserInv

LEMMA ParsingNext ==
  ASSUME UNCHANGED tokens, NEW n, NEW where, NEW rows, NEW f,
         Walked(n, where), RowsFound(n, where, rows, f),
         index' = n, pc' = where, bindings' = rows
  PROVE  Parsing'
<1>1. Walked(n, where)' /\ RowsFound(n, where, rows, f)'
  BY WalkedSame
<1>. QED  BY <1>1 DEF Parsing

LEMMA FailInv == ASSUME ParserInv, Fail  PROVE ParserInv'
<1>1. TokenInv' /\ UNCHANGED <<tokens, layer>>
  BY TokenUnchanged DEF ParserInv, tokenizerVars, Fail
<1>2. RowsInOrder'
  BY <1>1, LayerSame DEF ParserInv
<1>3. LayerSaysTheText'
  BY DEF LayerSaysTheText, Fail
<1>. QED  BY <1>1, <1>2, <1>3 DEF ParserInv, Fail

LEMMA TokenizeInv == ASSUME ParserInv, Tokenize  PROVE ParserInv'
<1>1. TokenInv'
  BY TokenizeStepInv DEF ParserInv, Tokenize
<1>2. layer' = EmptyLayer /\ pc' = "tokenize" /\ index' = 1 /\ bindings' = <<>>
  BY DEF ParserInv, Tokenize, parserVars
<1>3. RowsInOrder'
  <2>1. DOMAIN layer'.bindings = {}
    BY <1>2 DEF EmptyLayer
  <2>. QED  BY <2>1 DEF RowsInOrder
<1>4. LayerSaysTheText'
  BY <1>2 DEF LayerSaysTheText
<1>. QED  BY <1>1, <1>2, <1>3, <1>4 DEF ParserInv

LEMMA TokenizedInv == ASSUME ParserInv, Tokenized  PROVE ParserInv'
<1>1. SomeTokens /\ Len(tokens) \in Nat
  BY TokensSome, TokensAre DEF ParserInv
<1>2. /\ \A h \in Header : ~ (h < 1)
      /\ \A m \in Mark : ~ (m < 1)
      /\ \A a \in ActionHead : ~ (a < 1)
  <2>1. (\A h \in Header : h \in Nat /\ h >= 1) /\ (\A m \in Mark : m \in Nat /\ m >= 1)
    BY <1>1, Landmarks
  <2>2. \A a \in ActionHead : ~ (a < 1)
    BY <2>1, ActionHeads
  <2>. QED  BY <2>1, <2>2
<1>3. Walked(1, "statement")
  BY <1>1, <1>2 DEF Walked
<1>. DEFINE f == [r \in 1 .. 0 |-> 0]
<1>4. RowsFound(1, "statement", <<>>, f)
  <2>1. HeadersTo(1) = {}
    BY <1>2 DEF HeadersTo
  <2>2. Len(<<>>) = 0 /\ <<>> \in Seq({}) /\ 1 .. 0 = {}
    OBVIOUS
  <2>3. InOrder(f, 0, HeadersTo(1))
    BY <2>1, <2>2 DEF InOrder
  <2>. QED  BY <2>2, <2>3 DEF RowsFound
<1>5. index' = 1 /\ pc' = "statement" /\ bindings' = <<>> /\ UNCHANGED tokens /\ layer = EmptyLayer
  BY DEF Tokenized, tokenizerVars, ParserInv
<1>6. Parsing'
  BY <1>3, <1>4, <1>5, ParsingNext
<1>. QED  BY <1>5, <1>6, ParseStep DEF Tokenized

(* Where parse is doomed, there is an error message next. *)
LEMMA DoomedFails ==
  ASSUME SomeTokens, Doomed
  PROVE  ~ TopAt(index) /\ ~ HeaderAt(index) /\ ~ OnXAt(index) /\ pc = "more" /\ ~ (index > Len(tokens))
<1>1. tokens[index].type = "SYM_COLON" /\ index <= Len(tokens) /\ pc = "more" /\ index \in Nat
  BY DEF Doomed, At
<1>2. Len(tokens) \in Nat
  BY TokensAre
<1>. QED  BY <1>1, <1>2, Types DEF TopAt, HeaderAt, OnXAt, At

LEMMA TopStatementInv == ASSUME ParserInv, TopStatement  PROVE ParserInv'
<1>1. SomeTokens
  BY TokensSome DEF ParserInv
<1>2. /\ TopAt(index) /\ pc \in {"statement", "more"} /\ pc' = "statement" /\ index' = index + 1
      /\ UNCHANGED <<tokenizerVars, layer>> /\ UNCHANGED tokens /\ bindings' = bindings
  BY DEF TopStatement, AtStatement, tokenizerVars
<1>3. Parsing /\ layer = EmptyLayer
  BY <1>1, <1>2, DoomedFails DEF ParserInv
<1>4. PICK n, where, rows, f : /\ index = n /\ pc = where /\ bindings = rows
                               /\ Walked(n, where) /\ RowsFound(n, where, rows, f)
  BY <1>3 DEF Parsing
<1>5. n \in Top /\ Walked(n + 1, "statement")
  BY <1>1, <1>2, <1>4, WalkTop
<1>6. RowsFound(n + 1, "statement", rows, f)
  BY <1>1, <1>2, <1>4, <1>5, FoundTop
<1>7. Parsing'
  BY <1>2, <1>4, <1>5, <1>6, ParsingNext
<1>. QED  BY <1>2, <1>3, <1>7, ParseStep

LEMMA RowHeaderInv == ASSUME ParserInv, RowHeader  PROVE ParserInv'
<1>1. SomeTokens
  BY TokensSome DEF ParserInv
<1>2. /\ HeaderAt(index) /\ pc \in {"statement", "more"} /\ pc' = "row" /\ index' = index + 4
      /\ UNCHANGED <<tokenizerVars, layer>> /\ UNCHANGED tokens
      /\ bindings' = Append(bindings, [key |-> KeyOf(index), ops |-> <<>>])
  BY DEF RowHeader, AtStatement, tokenizerVars, KeyOf
<1>3. Parsing /\ layer = EmptyLayer
  BY <1>1, <1>2, DoomedFails DEF ParserInv
<1>4. PICK n, where, rows, f : /\ index = n /\ pc = where /\ bindings = rows
                               /\ Walked(n, where) /\ RowsFound(n, where, rows, f)
  BY <1>3 DEF Parsing
<1>5. n \in Header /\ Walked(n + 4, "row")
  BY <1>1, <1>2, <1>4, WalkHeader
<1>. DEFINE rows2 == Append(rows, [key |-> KeyOf(n), ops |-> <<>>])
            f2    == [r \in 1 .. Len(rows) + 1 |-> IF r = Len(rows) + 1 THEN n ELSE f[r]]
<1>6. RowsFound(n + 4, "row", rows2, f2)
  BY <1>1, <1>2, <1>4, <1>5, FoundHeader
<1>7. bindings' = rows2 /\ index' = n + 4
  BY <1>2, <1>4
<1>. HIDE DEF rows2, f2
<1>8. PICK m, more : m = n + 4 /\ more = rows2
  OBVIOUS
<1>9. Parsing'
  BY <1>2, <1>5, <1>6, <1>7, <1>8, ParsingNext
<1>. QED  BY <1>2, <1>3, <1>9, ParseStep

LEMMA OnOperationInv == ASSUME ParserInv, OnOperation  PROVE ParserInv'
<1>1. SomeTokens /\ Len(tokens) \in Nat
  BY TokensSome, TokensAre DEF ParserInv
<1>2. pc \in {"row", "more"} /\ OnXAt(index)
  BY DEF OnOperation
<1>3. Parsing /\ layer = EmptyLayer
  BY <1>1, <1>2, DoomedFails DEF ParserInv
<1>4. PICK n, where, rows, f : /\ index = n /\ pc = where /\ bindings = rows
                               /\ Walked(n, where) /\ RowsFound(n, where, rows, f)
  BY <1>3 DEF Parsing
<1>5. n \in Nat /\ n >= 1
  BY <1>1, <1>4 DEF Walked
<1>6. CASE ~ (At(index + 1, "SYM_COLON") /\ HasAction(index + 2))
  BY <1>6, FailInv DEF OnOperation
<1>7. CASE At(index + 1, "SYM_COLON") /\ HasAction(index + 2)
  <2>. DEFINE rows2 == [rows EXCEPT ![Len(rows)].ops = With(@, OpOf(n), ActionAt(n + 2))]
              e == ActionEnd(n + 2)
  <2>1. /\ pc' = "more" /\ index' = e + 1 /\ UNCHANGED <<tokenizerVars, layer>> /\ UNCHANGED tokens
        /\ bindings' = rows2
    BY <1>4, <1>7, Zenon DEF OnOperation, Operate, OpOf, tokenizerVars
  <2>2. CASE MarkAt(n + 2)
    <3>1. n + 2 \in 1 .. Len(tokens)
      BY <1>1, <1>4, <1>5, <1>7 DEF HasAction
    <3>2. e = n + 2
      BY <1>1, <2>2, <3>1, ActionOfMark
    <3>3. index' \in Nat /\ At(index', "SYM_COLON")
      <4>1. At(n + 3, "SYM_COLON")
        <5>1. (n + 2) + 1 = n + 3
          BY <1>5
        <5>. QED  BY <2>2, <5>1 DEF MarkAt
      <4>2. index' = n + 3
        BY <1>5, <2>1, <3>2
      <4>. QED  BY <1>5, <4>1, <4>2
    <3>4. Doomed'
      BY <2>1, <3>3 DEF Doomed, At
    <3>. QED  BY <1>3, <2>1, <3>4, ParseStep
  <2>3. CASE ~ MarkAt(n + 2)
    <3>1. where \in {"row", "more"} /\ OnXAt(n) /\ At(n + 1, "SYM_COLON") /\ HasAction(n + 2)
      BY <1>2, <1>4, <1>7
    <3>2. Walked(e + 1, "more")
      BY <1>1, <1>4, <2>3, <3>1, WalkOperation
    <3>3. RowsFound(e + 1, "more", rows2, f)
      BY <1>1, <1>4, <2>3, <3>1, FoundOperation
    <3>. HIDE DEF rows2, e
    <3>4. Parsing'
      BY <2>1, <3>2, <3>3, ParsingNext
    <3>. QED  BY <1>3, <2>1, <3>4, ParseStep
  <2>. QED  BY <2>2, <2>3
<1>. QED  BY <1>6, <1>7

LEMMA InlineInv == ASSUME ParserInv, Inline  PROVE ParserInv'
<1>1. SomeTokens
  BY TokensSome DEF ParserInv
<1>2. pc = "row" /\ ~ OnXAt(index)
  BY DEF Inline
<1>3. Parsing /\ layer = EmptyLayer
  BY <1>2 DEF ParserInv, Doomed
<1>4. PICK n, where, rows, f : /\ index = n /\ pc = where /\ bindings = rows
                               /\ Walked(n, where) /\ RowsFound(n, where, rows, f)
  BY <1>3 DEF Parsing
<1>5. CASE ~ HasAction(index)
  BY <1>5, FailInv DEF Inline
<1>6. CASE HasAction(index)
  <2>. DEFINE rows2 == [rows EXCEPT ![Len(rows)].ops = With(@, "PRESS", ActionAt(n))]
              e == ActionEnd(n)
  <2>1. /\ pc' = "statement" /\ index' = e + 1 /\ UNCHANGED <<tokenizerVars, layer>> /\ UNCHANGED tokens
        /\ bindings' = rows2
    BY <1>4, <1>6, Zenon DEF Inline, Operate, tokenizerVars
  <2>2. Walked(n, "row") /\ RowsFound(n, "row", rows, f) /\ ~ OnXAt(n) /\ HasAction(n)
    BY <1>2, <1>4, <1>6
  <2>3. Walked(e + 1, "statement")
    BY <1>1, <2>2, WalkInline
  <2>4. RowsFound(e + 1, "statement", rows2, f)
    BY <1>1, <2>2, FoundInline
  <2>. HIDE DEF rows2, e
  <2>5. Parsing'
    BY <2>1, <2>3, <2>4, ParsingNext
  <2>. QED  BY <1>3, <2>1, <2>5, ParseStep
<1>. QED  BY <1>5, <1>6

LEMMA ParsedInv == ASSUME ParserInv, Parsed  PROVE ParserInv'
<1>1. SomeTokens /\ Len(tokens) \in Nat
  BY TokensSome, TokensAre DEF ParserInv
<1>2. /\ pc \in {"statement", "more"} /\ index > Len(tokens) /\ pc' = "bind"
      /\ UNCHANGED <<tokenizerVars, layer>> /\ UNCHANGED <<tokens, layer>> /\ bindings' = bindings
  BY DEF Parsed, AtStatement, tokenizerVars
<1>3. Parsing /\ layer = EmptyLayer
  BY <1>1, <1>2, DoomedFails DEF ParserInv
<1>4. PICK n, where, rows, f : /\ index = n /\ pc = where /\ bindings = rows
                               /\ Walked(n, where) /\ RowsFound(n, where, rows, f)
  BY <1>3 DEF Parsing
<1>5. n = Len(tokens) + 1
  BY <1>1, <1>2, <1>4 DEF Walked
<1>6. where # "row"
  BY <1>2, <1>4
<1>7. /\ InOrder(f, Len(rows), Header)
      /\ \A r \in 1 .. Len(rows) : rows[r] = [key |-> KeyOf(f[r]), ops |-> Given(f[r])]
  BY <1>1, <1>4, <1>5, <1>6, FoundAll
<1>8. \E R : rows \in Seq(R)
  BY <1>4 DEF RowsFound
<1>9. Rest(Len(rows), f, rows) /\ BoundSoFar(Len(rows), f, rows, EmptyLayer)
  BY <1>1, <1>7, <1>8, BoundInit
<1>10. PICK k, l : k = Len(rows) /\ l = EmptyLayer
  OBVIOUS
<1>11. Rest(k, f, rows)' /\ BoundSoFar(k, f, rows, l)'
  BY <1>2, <1>9, <1>10, BoundSame
<1>12. Binding'
  BY <1>2, <1>3, <1>4, <1>10, <1>11 DEF Binding
<1>13. TokenInv'
  BY <1>2, TokenUnchanged DEF ParserInv
<1>14. RowsInOrder'
  BY <1>2, LayerSame DEF ParserInv
<1>15. LayerSaysTheText'
  BY <1>2 DEF LayerSaysTheText
<1>. QED  BY <1>2, <1>12, <1>13, <1>14, <1>15 DEF ParserInv

LEMMA BindOperationInv == ASSUME ParserInv, BindOperation  PROVE ParserInv'
<1>1. SomeTokens
  BY TokensSome DEF ParserInv
<1>2. PICK op : /\ pc = "bind" /\ bindings # <<>> /\ op \in DOMAIN bindings[1].ops
                /\ layer' = Bind(layer, bindings[1].key, ParseActionList(bindings[1].ops[op], op), op)
                /\ bindings' = Less(bindings, op)
                /\ UNCHANGED <<tokenizerVars, index, pc, error>>
  BY Zenon DEF BindOperation, NextOperation, ParseNext, Without, Less
<1>3. PICK k, f, rows, l : /\ bindings = rows /\ layer = l
                           /\ Rest(k, f, rows) /\ BoundSoFar(k, f, rows, l)
  BY <1>2 DEF ParserInv, Binding
<1>4. PICK rows2, l2 : /\ rows2 = Less(rows, op)
                       /\ l2 = Bind(l, rows[1].key, ParseActionList(rows[1].ops[op], op), op)
  OBVIOUS
<1>5. rows # <<>> /\ op \in DOMAIN rows[1].ops
  BY <1>2, <1>3
<1>6. Rest(k, f, rows2) /\ BoundSoFar(k, f, rows2, l2)
  BY <1>1, <1>3, <1>4, <1>5, BoundNext
<1>7. bindings' = rows2 /\ layer' = l2
  BY <1>2, <1>3, <1>4
<1>8. UNCHANGED tokens /\ UNCHANGED tokenizerVars /\ pc' = "bind"
  BY <1>2 DEF tokenizerVars
<1>9. Rest(k, f, rows2)' /\ BoundSoFar(k, f, rows2, l2)'
  BY <1>6, <1>8, BoundSame
<1>10. Binding'
  BY <1>7, <1>9 DEF Binding
<1>11. TokenInv'
  BY <1>8, TokenUnchanged DEF ParserInv
<1>12. RowsInOrder'
  <2>1. \A b \in DOMAIN l2.bindings :
          /\ b \in Speaks /\ l2.bindings[b] = Meaning[b]
          /\ \A c \in Speaks : FirstRow(c) < FirstRow(b) => c \in DOMAIN l2.bindings
    BY <1>1, <1>6, BoundInOrder
  <2>2. Speaks' = Speaks /\ Meaning' = Meaning /\ \A b : FirstRow(b)' = FirstRow(b)
    BY <1>8, MeaningSame
  <2>. QED  BY <1>7, <2>1, <2>2 DEF RowsInOrder
<1>13. LayerSaysTheText'
  BY <1>8 DEF LayerSaysTheText
<1>. QED  BY <1>8, <1>10, <1>11, <1>12, <1>13 DEF ParserInv

LEMMA AllBoundInv == ASSUME ParserInv, AllBound  PROVE ParserInv'
<1>1. SomeTokens
  BY TokensSome DEF ParserInv
<1>2. /\ pc = "bind" /\ bindings = <<>> /\ pc' = "done"
      /\ UNCHANGED tokenizerVars /\ UNCHANGED <<tokens, layer>>
  BY DEF AllBound, tokenizerVars
<1>3. PICK k, f, rows, l : /\ bindings = rows /\ layer = l
                           /\ Rest(k, f, rows) /\ BoundSoFar(k, f, rows, l)
  BY <1>2 DEF ParserInv, Binding
<1>4. rows = <<>>
  BY <1>2, <1>3
<1>5. l.bindings = Meaning /\ l.on_hold_bound = (\E b \in Speaks : b[2] = "HOLD")
  BY <1>1, <1>3, <1>4, BoundAll
<1>6. Speaks' = Speaks /\ Meaning' = Meaning
  BY <1>2, MeaningSame
<1>7. LayerSaysTheText'
  BY <1>2, <1>3, <1>5, <1>6 DEF LayerSaysTheText
<1>8. TokenInv' /\ RowsInOrder'
  BY <1>2, TokenUnchanged, LayerSame DEF ParserInv
<1>. QED  BY <1>2, <1>7, <1>8 DEF ParserInv

LEMMA HaltInv == ASSUME ParserInv, Halt  PROVE ParserInv'
<1>1. pc' = "halted" /\ UNCHANGED tokenizerVars /\ UNCHANGED <<tokens, layer>>
  BY DEF Halt, tokenizerVars
<1>2. TokenInv' /\ RowsInOrder'
  BY <1>1, TokenUnchanged, LayerSame DEF ParserInv
<1>3. LayerSaysTheText'
  BY <1>1 DEF LayerSaysTheText
<1>. QED  BY <1>1, <1>2, <1>3 DEF ParserInv

LEMMA ParserStutter == ASSUME ParserInv, UNCHANGED vars  PROVE ParserInv'
<1>1. /\ UNCHANGED tokenizerVars /\ UNCHANGED <<tokens, layer>> /\ UNCHANGED <<index, pc, bindings, error, layer>>
  BY DEF vars, parserVars, tokenizerVars
<1>2. TokenInv' /\ RowsInOrder' /\ LayerSaysTheText'
  BY <1>1, TokenUnchanged, LayerSame DEF ParserInv
<1>3. ASSUME Parsing  PROVE Parsing'
  <2>1. PICK n, where, rows, f : /\ index = n /\ pc = where /\ bindings = rows
                                 /\ Walked(n, where) /\ RowsFound(n, where, rows, f)
    BY <1>3 DEF Parsing
  <2>. QED  BY <1>1, <2>1, ParsingNext
<1>4. ASSUME Doomed  PROVE Doomed'
  BY <1>1, <1>4 DEF Doomed, At
<1>5. ASSUME Binding  PROVE Binding'
  <2>1. PICK k, f, rows, l : /\ bindings = rows /\ layer = l
                             /\ Rest(k, f, rows) /\ BoundSoFar(k, f, rows, l)
    BY <1>5 DEF Binding
  <2>2. Rest(k, f, rows)' /\ BoundSoFar(k, f, rows, l)'
    BY <1>1, <2>1, BoundSame
  <2>. QED  BY <1>1, <2>1, <2>2 DEF Binding
<1>. QED  BY <1>1, <1>2, <1>3, <1>4, <1>5 DEF ParserInv

LEMMA ParserNext == ASSUME ParserInv, [Next]_vars  PROVE ParserInv'
<1>1. CASE TokenizeFails \/ BadStatement \/ BindFails
  BY <1>1, FailInv DEF TokenizeFails, BadStatement, BindFails
<1>2. CASE UNCHANGED vars
  BY <1>2, ParserStutter
<1>. QED  BY <1>1, <1>2, TokenizeInv, TokenizedInv, TopStatementInv, RowHeaderInv, OnOperationInv,
             InlineInv, ParsedInv, BindOperationInv, HaltInv, AllBoundInv
          DEF Next, Step, Stopped

(* What parse has read, and parse_source has bound, is what the text so    *)
(* far says.                                                               *)
THEOREM ParserCorrect == Spec => []ParserInv
BY ParserInit, ParserNext, PTL DEF Spec

(* Whatever the keymap, and however far parse_source gets with it: what is *)
(* bound is what the first row to speak of it says, and the rows before    *)
(* the last one bound are bound in full (parse_source, Layer::Bind).       *)
THEOREM RowsCorrect == Spec => []RowsInOrder
<1>1. ParserInv => RowsInOrder
  BY DEF ParserInv
<1>. QED  BY <1>1, ParserCorrect, PTL

(* A keymap of any length that is read without error binds exactly what    *)
(* its text says (parse_source, parse, Layer::Bind).                       *)
THEOREM LayerCorrect == Spec => []LayerSaysTheText
<1>1. ParserInv => LayerSaysTheText
  BY DEF ParserInv
<1>. QED  BY <1>1, ParserCorrect, PTL

-----------------------------------------------------------------------------
(* The elements of a finite set of numbers, counted from below.            *)
LEMMA NthIs ==
  ASSUME NEW S, S \subseteq Nat, IsFiniteSet(S), NEW n \in Nat, n < Cardinality(S)
  PROVE  Nth(S, n) \in S /\ Cardinality({d \in S : d < Nth(S, n)}) = n
<1>. DEFINE below(c) == {d \in S : d < c}
            Bad == {m \in Nat : m < Cardinality(S) /\ \A c \in S : Cardinality(below(c)) # m}
<1>1. Cardinality(S) \in Nat /\ \A c : IsFiniteSet(below(c))
  BY FS_CardinalityType, FS_Subset
<1>2. ASSUME NEW m \in Bad, \A k \in Bad : m <= k  PROVE FALSE
  <2>1. m \in Nat /\ m < Cardinality(S) /\ \A c \in S : Cardinality(below(c)) # m
    OBVIOUS
  <2>2. S # {}
    BY <1>1, <2>1, FS_EmptySet
  <2>3. m # 0
    <3>1. PICK c \in S : \A d \in S : c <= d
      BY <2>2, LeastNat
    <3>2. \A d \in S : ~ (d < c)
      BY <3>1
    <3>3. Cardinality(below(c)) = 0
      BY <3>2, FS_EmptySet
    <3>. QED  BY <2>1, <3>1, <3>3
  <2>4. m - 1 \in Nat /\ m - 1 < Cardinality(S) /\ m - 1 \notin Bad
    BY <1>1, <1>2, <2>1, <2>3
  <2>5. PICK c \in S : Cardinality(below(c)) = m - 1
    BY <2>4
  <2>6. Cardinality(below(c) \cup {c}) = m
    <3>1. c \notin below(c)
      OBVIOUS
    <3>. HIDE DEF below
    <3>2. Cardinality(below(c) \cup {c}) = Cardinality(below(c)) + 1
      BY <1>1, <3>1, FS_AddElement
    <3>. QED  BY <2>1, <2>5, <3>2
  <2>. DEFINE above == {d \in S : d > c}
  <2>7. above # {}
    <3>. SUFFICES ASSUME above = {}  PROVE FALSE
      OBVIOUS
    <3>1. S = below(c) \cup {c}
      <4>1. ASSUME NEW d \in S  PROVE d \in below(c) \cup {c}
        <5>1. ~ (d > c) /\ d \in Nat /\ c \in Nat
          OBVIOUS
        <5>2. d < c \/ d = c
          BY <5>1
        <5>. QED  BY <5>2
      <4>. HIDE DEF above
      <4>. QED  BY <4>1
    <3>. QED  BY <2>1, <2>6, <3>1
  <2>8. Min(above) \in above /\ \A d \in above : Min(above) <= d
    BY <2>7, MinIs
  <2>9. PICK e \in S : e > c /\ \A d \in S : d > c => e <= d
    BY <2>8
  <2>10. below(e) = below(c) \cup {c}
    <3>1. ASSUME NEW d \in S  PROVE d < e <=> d < c \/ d = c
      <4>1. d \in Nat /\ c \in Nat /\ e \in Nat /\ e > c /\ (d > c => e <= d)
        BY <2>9
      <4>. QED  BY <4>1
    <3>. QED  BY <3>1
  <2>. QED  BY <2>1, <2>6, <2>9, <2>10
<1>3. Bad = {}
  <2>1. Bad \subseteq Nat
    OBVIOUS
  <2>. HIDE DEF Bad
  <2>. QED  BY <1>2, <2>1, LeastNat
<1>4. \E c \in S : Cardinality(below(c)) = n
  BY <1>3
<1>. QED  BY <1>4 DEF Nth

(* And in their order. *)
LEMMA NthNext ==
  ASSUME NEW S, S \subseteq Nat, IsFiniteSet(S), NEW n \in Nat \ {0}, n < Cardinality(S)
  PROVE  /\ Nth(S, n - 1) \in S /\ Nth(S, n) \in S /\ Nth(S, n - 1) < Nth(S, n)
         /\ \A d \in S : d <= Nth(S, n - 1) \/ d >= Nth(S, n)
<1>. DEFINE below(c) == {d \in S : d < c}
<1>1. PICK a, b : a = Nth(S, n - 1) /\ b = Nth(S, n)
  OBVIOUS
<1>2. Cardinality(S) \in Nat /\ \A c : IsFiniteSet(below(c)) /\ Cardinality(below(c)) \in Nat
  BY FS_CardinalityType, FS_Subset
<1>3. a \in S /\ Cardinality(below(a)) = n - 1
  <2>1. n - 1 \in Nat /\ n - 1 < Cardinality(S)
    BY <1>2
  <2>. QED  BY <1>1, <2>1, NthIs
<1>4. b \in S /\ Cardinality(below(b)) = n
  BY <1>1, NthIs
<1>5. a < b
  <2>. SUFFICES ASSUME ~ (a < b)  PROVE FALSE
    OBVIOUS
  <2>0. a \in Nat /\ b \in Nat /\ b <= a
    BY <1>3, <1>4
  <2>1. below(b) \subseteq below(a)
    <3>1. ASSUME NEW d \in S, d < b  PROVE d < a
      <4>1. d \in Nat
        OBVIOUS
      <4>. QED  BY <2>0, <3>1, <4>1
    <3>. QED  BY <3>1
  <2>. HIDE DEF below
  <2>2. Cardinality(below(b)) <= Cardinality(below(a))
    BY <1>2, <2>1, FS_Subset
  <2>. QED  BY <1>3, <1>4, <2>2
<1>6. ASSUME NEW d \in S, a < d, d < b  PROVE FALSE
  <2>0. a \in Nat /\ b \in Nat /\ d \in Nat /\ a < b /\ d < b
    BY <1>3, <1>4, <1>5, <1>6
  <2>1. (below(a) \cup {a}) \cup {d} \subseteq below(b)
    <3>1. ASSUME NEW c \in S, c < a  PROVE c < b
      <4>1. c \in Nat
        OBVIOUS
      <4>. QED  BY <2>0, <3>1, <4>1
    <3>. QED  BY <1>3, <2>0, <3>1
  <2>2. a \notin below(a) /\ d \notin below(a) \cup {a}
    BY <1>3, <1>6
  <2>. HIDE DEF below
  <2>3. IsFiniteSet(below(a) \cup {a}) /\ Cardinality(below(a) \cup {a}) = n
    <3>1. PICK B : B = below(a)
      OBVIOUS
    <3>2. IsFiniteSet(B) /\ Cardinality(B) = n - 1 /\ a \notin B
      BY <1>2, <1>3, <2>2, <3>1
    <3>3. IsFiniteSet(B \cup {a}) /\ Cardinality(B \cup {a}) = Cardinality(B) + 1
      BY <3>2, FS_AddElement
    <3>. QED  BY <3>1, <3>2, <3>3
  <2>4. Cardinality((below(a) \cup {a}) \cup {d}) = n + 1
    <3>1. PICK B : B = below(a) \cup {a}
      OBVIOUS
    <3>2. IsFiniteSet(B) /\ d \notin B
      BY <2>2, <2>3, <3>1
    <3>3. Cardinality(B \cup {d}) = Cardinality(B) + 1
      BY <3>2, FS_AddElement
    <3>. QED  BY <2>3, <3>1, <3>3
  <2>5. Cardinality((below(a) \cup {a}) \cup {d}) <= Cardinality(below(b))
    BY <1>2, <2>1, FS_Subset
  <2>. QED  BY <1>4, <2>4, <2>5
<1>. QED  BY <1>1, <1>3, <1>4, <1>5, <1>6

(* The parts of a list are what stands between two cuts. *)
LEMMA SplitIs ==
  ASSUME NEW S, NEW list \in Seq(S), NEW type, NEW n \in DOMAIN Split(list, type)
  PROVE  \E a, b \in Cuts(list, type) :
           /\ a \in Nat /\ b \in Nat /\ a < b /\ b <= Len(list) + 1
           /\ Split(list, type)[n] = SubSeq(list, a + 1, b - 1)
           /\ \A i \in a + 1 .. b - 1 : list[i].type # type
<1>. DEFINE C == Cuts(list, type)
            a == Nth(C, n - 1)
            b == Nth(C, n)
<1>1. C \subseteq 0 .. Len(list) + 1 /\ Len(list) \in Nat
  BY DEF Cuts
<1>2. IsFiniteSet(C) /\ C \subseteq Nat /\ Cardinality(C) \in Nat
  <2>1. IsFiniteSet(0 .. Len(list) + 1)
    BY <1>1, FS_Interval
  <2>. HIDE DEF C
  <2>2. C \subseteq Nat
    BY <1>1
  <2>. QED  BY <1>1, <2>1, <2>2, FS_Subset, FS_CardinalityType
<1>3. n \in 1 .. Cardinality(C) - 1 /\ Split(list, type)[n] = SubSeq(list, a + 1, b - 1)
  BY DEF Split
<1>4. n \in Nat \ {0} /\ n < Cardinality(C)
  BY <1>2, <1>3
<1>. HIDE DEF C
<1>5. a \in C /\ b \in C /\ a < b /\ \A d \in C : d <= a \/ d >= b
  BY <1>2, <1>4, NthNext
<1>. HIDE DEF a, b
<1>6. a \in 0 .. Len(list) + 1 /\ b \in 0 .. Len(list) + 1
  BY <1>1, <1>5
<1>7. ASSUME NEW i \in a + 1 .. b - 1  PROVE list[i].type # type
  <2>1. i \notin C
    BY <1>5, <1>6
  <2>2. i \in DOMAIN list
    BY <1>6
  <2>. QED  BY <2>1, <2>2 DEF C, Cuts
<1>8. a \in Nat /\ b \in Nat /\ b <= Len(list) + 1
  BY <1>1, <1>6
<1>. QED  BY <1>3, <1>5, <1>7, <1>8 DEF C

(* There is at least one part, and parts are made of the list's elements.  *)
LEMMA SplitSome ==
  ASSUME NEW S, NEW list \in Seq(S), NEW type
  PROVE  /\ Len(Split(list, type)) \in Nat \ {0}
         /\ DOMAIN Split(list, type) = 1 .. Len(Split(list, type))
         /\ Split(list, type) \in Seq(Seq(S))
<1>1. \A n \in DOMAIN Split(list, type) : Split(list, type)[n] \in Seq(S)
  <2>. SUFFICES ASSUME NEW n \in DOMAIN Split(list, type)  PROVE Split(list, type)[n] \in Seq(S)
    OBVIOUS
  <2>1. PICK a, b \in Cuts(list, type) :
           /\ a \in Nat /\ b \in Nat /\ a < b /\ b <= Len(list) + 1
           /\ Split(list, type)[n] = SubSeq(list, a + 1, b - 1)
    BY SplitIs
  <2>2. a + 1 \in 1 .. Len(list) + 1 /\ b - 1 \in a .. Len(list)
    BY <2>1
  <2>3. SubSeq(list, a + 1, b - 1) \in Seq(S)
    BY <2>1, <2>2
  <2>. QED  BY <2>1, <2>3
<1>2. IsFiniteSet(Cuts(list, type)) /\ Cardinality(Cuts(list, type)) \in Nat /\ Cardinality(Cuts(list, type)) >= 2
  <2>1. IsFiniteSet(0 .. Len(list) + 1) /\ Cuts(list, type) \subseteq 0 .. Len(list) + 1
    <3>1. Len(list) + 1 \in Int /\ 0 \in Int
      OBVIOUS
    <3>2. IsFiniteSet(0 .. Len(list) + 1)
      BY <3>1, FS_Interval
    <3>3. Cuts(list, type) \subseteq 0 .. Len(list) + 1
      BY DEF Cuts
    <3>. QED  BY <3>2, <3>3
  <2>2. IsFiniteSet({0, Len(list) + 1}) /\ Cardinality({0, Len(list) + 1}) = 2
    <3>. DEFINE Z == {0}
    <3>1. IsFiniteSet(Z) /\ Cardinality(Z) = 1
      BY FS_Singleton
    <3>2. PICK e : e = Len(list) + 1
      OBVIOUS
    <3>3. e \notin Z /\ Z \cup {e} = {0, Len(list) + 1}
      BY <3>2
    <3>. HIDE DEF Z
    <3>4. IsFiniteSet(Z \cup {e}) /\ Cardinality(Z \cup {e}) = Cardinality(Z) + 1
      BY <3>1, <3>3, FS_AddElement
    <3>5. Cardinality(Z \cup {e}) = 2
      BY <3>1, <3>4
    <3>. QED  BY Zenon, <3>3, <3>4, <3>5
  <2>3. {0, Len(list) + 1} \subseteq Cuts(list, type)
    BY DEF Cuts
  <2>. QED  BY <2>1, <2>2, <2>3, FS_Subset, FS_CardinalityType
<1>3. /\ DOMAIN Split(list, type) = 1 .. Cardinality(Cuts(list, type)) - 1
      /\ Split(list, type) = [n \in 1 .. Cardinality(Cuts(list, type)) - 1 |-> Split(list, type)[n]]
  BY DEF Split
<1>. DEFINE s == Split(list, type)
            k == Cardinality(Cuts(list, type)) - 1
<1>4. k \in Nat \ {0} /\ DOMAIN s = 1 .. k /\ s = [n \in 1 .. k |-> s[n]]
  BY <1>2, <1>3
<1>5. \A n \in 1 .. k : s[n] \in Seq(S)
  BY <1>1, <1>4
<1>. HIDE DEF s, k
<1>6. s \in Seq(Seq(S)) /\ Len(s) = k
  BY <1>4, <1>5
<1>. QED  BY <1>4, <1>6 DEF s

-----------------------------------------------------------------------------
(* A set that holds the first part, and with a list this list with any     *)
(* part behind it, holds the whole.                                        *)
LEMMA FlattenFrom ==
  ASSUME NEW s, Len(s) \in Nat \ {0}, NEW T, NEW V, s[1] \in T,
         \A u \in T : \A v \in V : u \o v \in T, \A i \in 1 .. Len(s) : s[i] \in V
  PROVE  FlattenSeq(s) \in T
<1>. DEFINE Sums(g, m) == g = [i \in 1 .. m |-> IF i = 1 THEN s[i] ELSE g[i - 1] \o s[i]]
            n == Len(s)
<1>1. \A m \in Nat : \E g : Sums(g, m)
  <2>. HIDE DEF Sums
  <2>. DEFINE Lacking == {m \in Nat : \A g : ~ Sums(g, m)}
  <2>. SUFFICES ASSUME Lacking # {}  PROVE FALSE
    OBVIOUS
  <2>0. Lacking \subseteq Nat /\ Lacking # {} /\ \A k \in Nat : k \in Lacking <=> \A g : ~ Sums(g, k)
    BY Zenon
  <2>. HIDE DEF Lacking
  <2>1. PICK m \in Lacking : \A k \in Lacking : m <= k
    BY <2>0, LeastNat
  <2>2. m # 0
    <3>. DEFINE none == [i \in 1 .. 0 |-> s[i]]
    <3>1. Sums(none, 0)
      BY DEF Sums
    <3>2. 0 \in Nat
      OBVIOUS
    <3>. HIDE DEF none
    <3>. QED  BY Zenon, <2>0, <3>1, <3>2
  <2>3. m - 1 \in Nat /\ m - 1 \notin Lacking /\ m \in Nat
    <3>1. m \in Nat
      BY <2>0
    <3>2. m - 1 \in Nat /\ ~ (m <= m - 1)
      BY <2>2, <3>1
    <3>. QED  BY <2>1, <3>1, <3>2
  <2>4. PICK g : Sums(g, m - 1)
    BY Zenon, <2>0, <2>3
  <2>. DEFINE h == [i \in 1 .. m |-> IF i < m THEN g[i] ELSE IF i = 1 THEN s[i] ELSE g[i - 1] \o s[i]]
  <2>5. \A i \in 1 .. m : h[i] = IF i = 1 THEN s[i] ELSE h[i - 1] \o s[i]
    <3>. SUFFICES ASSUME NEW i \in 1 .. m  PROVE h[i] = IF i = 1 THEN s[i] ELSE h[i - 1] \o s[i]
      OBVIOUS
    <3>1. i # 1 => i - 1 \in 1 .. m /\ i - 1 < m /\ h[i - 1] = g[i - 1]
      BY <2>3
    <3>2. CASE i < m
      <4>1. i \in 1 .. m - 1 /\ h[i] = g[i]
        BY <2>3, <3>2
      <4>2. g[i] = IF i = 1 THEN s[i] ELSE g[i - 1] \o s[i]
        BY <2>4, <4>1 DEF Sums
      <4>. QED  BY <3>1, <4>1, <4>2
    <3>3. CASE ~ (i < m)
      BY <3>1, <3>3
    <3>. QED  BY <3>2, <3>3
  <2>6. h = [i \in 1 .. m |-> h[i]]
    OBVIOUS
  <2>. HIDE DEF h
  <2>7. Sums(h, m)
    BY <2>5, <2>6 DEF Sums
  <2>. QED  BY Zenon, <2>0, <2>3, <2>7
<1>2. PICK f : Sums(f, n) /\ FlattenSeq(s) = f[n]
  <2>1. FlattenSeq(s) = (CHOOSE f : Sums(f, n))[n]
    BY Zenon DEF FlattenSeq
  <2>2. \E g : Sums(g, n)
    BY <1>1
  <2>. HIDE DEF Sums
  <2>. QED  BY <2>1, <2>2
<1>3. \A i \in 1 .. n : f[i] \in T
  <2>. DEFINE Outside == {i \in 1 .. n : f[i] \notin T}
  <2>. SUFFICES ASSUME Outside # {}  PROVE FALSE
    OBVIOUS
  <2>0. Outside \subseteq Nat /\ Outside # {}
    OBVIOUS
  <2>. HIDE DEF Outside
  <2>1. PICK i \in Outside : \A k \in Outside : i <= k
    BY <2>0, LeastNat
  <2>. USE DEF Outside
  <2>2. f[i] = IF i = 1 THEN s[i] ELSE f[i - 1] \o s[i]
    BY <1>2
  <2>3. i # 1 => i - 1 \in 1 .. n /\ f[i - 1] \in T
    BY <2>1
  <2>. QED  BY <2>1, <2>2, <2>3
<1>4. n \in 1 .. n
  OBVIOUS
<1>. HIDE DEF Sums, n
<1>. QED  BY <1>2, <1>3, <1>4

(* A list of lists of messages, the one behind the other. *)
LEMMA FlattenSends ==
  ASSUME NEW s, NEW n \in Nat, s = [i \in 1 .. n |-> s[i]],
         \A i \in 1 .. n : s[i] \in Seq(QueueMessage)
  PROVE  FlattenSeq(s) \in Seq(QueueMessage)
<1>1. Len(s) = n
  OBVIOUS
<1>2. CASE n = 0
  <2>1. FlattenSeq(s) = s
    BY <1>1, <1>2, Zenon DEF FlattenSeq
  <2>2. s = <<>>
    BY <1>2
  <2>3. <<>> \in Seq(QueueMessage)
    OBVIOUS
  <2>. QED  BY Zenon, <2>1, <2>2, <2>3
<1>3. CASE n # 0
  <2>1. \A u, v \in Seq(QueueMessage) : u \o v \in Seq(QueueMessage)
    BY ConcatProperties
  <2>2. Len(s) \in Nat \ {0}
    BY <1>1, <1>3
  <2>3. s[1] \in Seq(QueueMessage) /\ \A i \in 1 .. Len(s) : s[i] \in Seq(QueueMessage)
    BY <1>1, <1>3
  <2>. QED  BY Zenon, <2>1, <2>2, <2>3, FlattenFrom
<1>. QED  BY <1>2, <1>3

(* A message holds bytes, and no more of them than a report.               *)
LEMMA CodesQueued ==
  ASSUME NEW k \in Seq(Int)
  PROVE  QueuedCodes(k) \in CodeList
<1>. DEFINE n == Min({Len(k), KeyRollOver})
            c == QueuedCodes(k)
<1>1. n \in Nat /\ n <= Len(k) /\ n <= KeyRollOver
  <2>1. {Len(k), KeyRollOver} \subseteq Nat /\ {Len(k), KeyRollOver} # {}
    BY LenProperties, KeyRollOverAssumption
  <2>. QED  BY <2>1, MinIs
<1>2. c = [i \in 1 .. n |-> k[i] % 256]
  BY DEF QueuedCodes
<1>. HIDE DEF n, c
<1>3. \A i \in 1 .. n : k[i] % 256 \in Code
  <2>. TAKE i \in 1 .. n
  <2>1. k[i] \in Int
    <3>1. i \in 1 .. Len(k)
      BY <1>1
    <3>. QED  BY <3>1, ElementOfSeq
  <2>2. \A z \in Int : z % 256 \in Code
    BY DEF Code
  <2>. QED  BY <2>1, <2>2
<1>4. c \in Seq(Code) /\ Len(c) = n
  BY <1>1, <1>2, <1>3
<1>. QED  BY <1>1, <1>4 DEF CodeList, c

(* One message.                                                            *)
LEMMA OneSent == ASSUME NEW m \in QueueMessage  PROVE <<m>> \in Seq(QueueMessage)
OBVIOUS

(* A press and a release of some keys.                                     *)
LEMMA KeysSent ==
  ASSUME NEW k \in Seq(Int)
  PROVE  Press(k) \in Seq(QueueMessage) /\ Release(k) \in Seq(QueueMessage)
<1>. DEFINE p == [type |-> "PRESS",   codes |-> QueuedCodes(k)]
            r == [type |-> "RELEASE", codes |-> QueuedCodes(k)]
<1>1. p \in QueueMessage /\ r \in QueueMessage
  BY CodesQueued DEF QueueMessage, KeyEvent
<1>2. Press(k) = <<p>> /\ Release(k) = <<r>>
  BY DEF Press, Release
<1>. HIDE DEF p, r
<1>. QED  BY <1>1, <1>2, OneSent

(* A message with no fields.                                               *)
LEMMA PlainSent ==
  ASSUME NEW t \in MotionType \cup {"DELAY", "REBOOT", "REBOOT_BOOTLOADER"}
  PROVE  <<[type |-> t]>> \in Seq(QueueMessage)
<1>. DEFINE m == [type |-> t]
<1>1. m \in QueueMessage
  BY DEF QueueMessage, PlainEvent
<1>. HIDE DEF m
<1>2. <<m>> \in Seq(QueueMessage)
  BY <1>1, OneSent
<1>. QED  BY <1>2 DEF m

(* A character typed is a press, a release and a delay.                    *)
LEMMA CharacterSent ==
  ASSUME NEW c \in Int
  PROVE  TypedCharacter(c) \in Seq(QueueMessage)
<1>. DEFINE k == <<TypedCode(c)>>
            d == <<[type |-> "DELAY"]>>
<1>1. k \in Seq(Int)
  <2>1. TypedCode(c) \in Int
    BY DEF TypedCode, Upper
  <2>. QED  BY <2>1
<1>2. d \in Seq(QueueMessage)
  BY PlainSent
<1>3. TypedCharacter(c) = (Press(k) \o Release(k)) \o d
  BY DEF TypedCharacter
<1>. HIDE DEF k, d
<1>4. Press(k) \o Release(k) \in Seq(QueueMessage)
  BY <1>1, KeysSent, ConcatProperties
<1>. QED  BY <1>2, <1>3, <1>4, ConcatProperties

(* What a string sends.                                                    *)
LEMMA StringSent ==
  ASSUME NEW w \in Seq(Int)
  PROVE  FlattenSeq([i \in DOMAIN w |-> TypedCharacter(w[i])]) \in Seq(QueueMessage)
<1>. DEFINE s == [i \in DOMAIN w |-> TypedCharacter(w[i])]
<1>1. Len(w) \in Nat /\ DOMAIN w = 1 .. Len(w) /\ \A i \in 1 .. Len(w) : w[i] \in Int
  BY LenProperties, ElementOfSeq
<1>2. s = [i \in 1 .. Len(w) |-> s[i]]
  BY <1>1
<1>3. \A i \in 1 .. Len(w) : s[i] \in Seq(QueueMessage)
  BY <1>1, CharacterSent
<1>. HIDE DEF s
<1>4. FlattenSeq(s) \in Seq(QueueMessage)
  BY <1>1, <1>2, <1>3, FlattenSends
<1>. QED  BY <1>4 DEF s

-----------------------------------------------------------------------------
(* The actions that parse_action_token makes.                              *)
IsAction(a) ==
  \/ a.type \in {"PRESS_KEY", "RELEASE_KEY", "CLICK_KEY", "GENERIC_KEY"} /\ a.keycodes \in Seq(Int)
  \/ a.type = "SWITCH_TO_LAYER" /\ a.target_layer \in LayerIds
  \/ a.type = "NON_REPEATING_STRING_TYPER" /\ a.payload \in Seq(Int)
  \/ a.type = "MOUSE_CLICK" /\ a.button \in Bit
  \/ a.type \in {"MOUSE_MOVE", "MOUSE_SCROLL", "DELAY", "RESET_KEEB", "KEEB_BOOTLOADER"}
  \/ a.type \in SilentAction

(* The parts of a sequence are no sequences.                               *)
LEMMA ActionNoSequence == ASSUME NEW a, IsAction(a)  PROVE a.type # "SEQUENCE"
BY DEF IsAction, SilentAction

(* An action sends messages that the usb-hid task knows. *)
LEMMA ActionSends ==
  ASSUME NEW a, IsAction(a), NEW bae \in BoundActionEnqueue
  PROVE  EnqueueOne(a, bae) \in Seq(QueueMessage)
<1>0. bae = "DO" \/ bae = "UNDO"
  BY DEF BoundActionEnqueue
<1>1. CASE a.type = "GENERIC_KEY"
  <2>1. a.keycodes \in Seq(Int)
    BY <1>1 DEF IsAction, SilentAction
  <2>2. EnqueueOne(a, bae) = IF bae = "DO" THEN Press(a.keycodes) ELSE Release(a.keycodes)
    BY <1>1 DEF EnqueueOne, GenericKey
  <2>. QED  BY <2>1, <2>2, KeysSent
<1>2. CASE a.type = "MOUSE_CLICK"
  <2>. DEFINE m == [type |-> IF bae = "DO" THEN "MOUSE_CLICK" ELSE "MOUSE_RELEASE", mouse_click |-> a.button]
  <2>1. a.button \in Bit
    BY <1>2 DEF IsAction, SilentAction
  <2>2. m \in QueueMessage
    BY <2>1 DEF QueueMessage, ButtonEvent
  <2>3. EnqueueOne(a, bae) = <<m>>
    BY <1>2 DEF EnqueueOne, MouseClick
  <2>. HIDE DEF m
  <2>. QED  BY <2>2, <2>3, OneSent
<1>3. CASE a.type \notin {"GENERIC_KEY", "MOUSE_CLICK"}
  <2>1. EnqueueOne(a, bae) = IF bae = "DO" THEN OnDo(a) ELSE <<>>
    BY <1>3 DEF EnqueueOne
  <2>2. OnDo(a) \in Seq(QueueMessage)
    <3>1. CASE a.type \in {"PRESS_KEY", "RELEASE_KEY", "CLICK_KEY"}
      <4>1. a.keycodes \in Seq(Int)
        BY <3>1 DEF IsAction, SilentAction
      <4>2. OnDo(a) \in {Press(a.keycodes), Release(a.keycodes), Press(a.keycodes) \o Release(a.keycodes)}
        BY <3>1 DEF OnDo, SilentAction
      <4>. QED  BY <4>1, <4>2, KeysSent, ConcatProperties
    <3>2. CASE a.type = "SWITCH_TO_LAYER"
      <4>. DEFINE m == [type |-> "LAYER_SWITCH", layer |-> a.target_layer]
      <4>1. a.target_layer \in LayerIds
        BY <3>2 DEF IsAction, SilentAction
      <4>2. m \in QueueMessage
        BY <4>1 DEF QueueMessage, LayerEvent
      <4>3. OnDo(a) = <<m>>
        BY <3>2 DEF OnDo, SilentAction
      <4>. HIDE DEF m
      <4>. QED  BY <4>2, <4>3, OneSent
    <3>3. CASE a.type = "NON_REPEATING_STRING_TYPER"
      <4>1. a.payload \in Seq(Int)
        BY <3>3 DEF IsAction, SilentAction
      <4>2. OnDo(a) = FlattenSeq([i \in DOMAIN a.payload |-> TypedCharacter(a.payload[i])])
        BY <3>3 DEF OnDo, SilentAction
      <4>. QED  BY <4>1, <4>2, StringSent
    <3>4. CASE a.type \in {"MOUSE_MOVE", "MOUSE_SCROLL", "DELAY", "RESET_KEEB", "KEEB_BOOTLOADER"}
      <4>1. \E t \in MotionType \cup {"DELAY", "REBOOT", "REBOOT_BOOTLOADER"} : OnDo(a) = <<[type |-> t]>>
        <5>1. a.type = "MOUSE_MOVE" => OnDo(a) = Move(a)
          BY DEF OnDo, SilentAction
        <5>2. a.type = "MOUSE_SCROLL" => OnDo(a) = Scroll(a)
          BY DEF OnDo, SilentAction
        <5>3. a.type = "DELAY" => OnDo(a) = <<[type |-> "DELAY"]>>
          BY DEF OnDo, SilentAction
        <5>4. a.type = "RESET_KEEB" => OnDo(a) = <<[type |-> "REBOOT"]>>
          BY DEF OnDo, SilentAction
        <5>5. a.type = "KEEB_BOOTLOADER" => OnDo(a) = <<[type |-> "REBOOT_BOOTLOADER"]>>
          BY DEF OnDo, SilentAction
        <5>. QED  BY <3>4, <5>1, <5>2, <5>3, <5>4, <5>5 DEF Move, Scroll, MotionType
      <4>. QED  BY <4>1, PlainSent
    <3>5. CASE a.type \in SilentAction
      <4>1. OnDo(a) = <<>>
        BY <3>5 DEF OnDo, SilentAction
      <4>. QED  BY <4>1
    <3>. QED  BY <1>3, <3>1, <3>2, <3>3, <3>4, <3>5 DEF IsAction
  <2>. QED  BY <2>1, <2>2
<1>. QED  BY <1>1, <1>2, <1>3

(* What a sequence sends.                                                  *)
LEMMA SequenceSends ==
  ASSUME NEW a, a.type = "SEQUENCE", NEW n \in Nat, a.sequence = [i \in 1 .. n |-> a.sequence[i]],
         \A i \in 1 .. n : IsAction(a.sequence[i]), NEW bae \in BoundActionEnqueue
  PROVE  Enqueue(a, bae) \in Seq(QueueMessage)
<1>. DEFINE s == [i \in DOMAIN a.sequence |-> EnqueueOne(a.sequence[i], "DO")
                                                \o EnqueueOne(a.sequence[i], "UNDO")]
<1>1. DOMAIN a.sequence = 1 .. n
  OBVIOUS
<1>2. \A i \in 1 .. n : s[i] \in Seq(QueueMessage)
  <2>. SUFFICES ASSUME NEW i \in 1 .. n  PROVE s[i] \in Seq(QueueMessage)
    OBVIOUS
  <2>1. s[i] = EnqueueOne(a.sequence[i], "DO") \o EnqueueOne(a.sequence[i], "UNDO")
    BY <1>1
  <2>2. /\ EnqueueOne(a.sequence[i], "DO") \in Seq(QueueMessage)
        /\ EnqueueOne(a.sequence[i], "UNDO") \in Seq(QueueMessage)
    BY ActionSends DEF BoundActionEnqueue
  <2>. QED  BY <2>1, <2>2, ConcatProperties
<1>3. s = [i \in 1 .. n |-> s[i]]
  BY <1>1
<1>4. Enqueue(a, bae) = IF bae = "DO" THEN FlattenSeq(s) ELSE <<>>
  BY DEF Enqueue, Sequence
<1>. HIDE DEF s
<1>. QED  BY <1>2, <1>3, <1>4, FlattenSends

-----------------------------------------------------------------------------
(* Of a token of a known number. *)
AnyToken ==
  [type : TypeOfToken, text : Seq(STRING), val : Nat, start : Nat, line : Nat]

(* What the names of layers and the strings come to: the constants LayerOf *)
(* and TypedText are of the types their uses ask for.  TLC cannot go       *)
(* through all names and texts, so this is a hypothesis and no ASSUME.     *)
NamesOK ==
  /\ \A name \in Seq(Int \X Seq(STRING)) : LayerOf(name) \in LayerIds
  /\ \A text \in Seq(STRING) : TypedText(text) \in Seq(Int)

(* The first failure is one.                                               *)
LEMMA FirstFailureFails ==
  ASSUME NEW results, NEW n \in Nat, DOMAIN results = 1 .. n, \E i \in 1 .. n : ~ Succeeds(results[i])
  PROVE  \E i \in 1 .. n : FirstFailure(results) = results[i] /\ ~ Succeeds(results[i])
<1>. DEFINE S == {i \in DOMAIN results : ~ Succeeds(results[i])}
<1>1. S \subseteq Nat /\ S # {}
  OBVIOUS
<1>2. FirstFailure(results) = results[Min(S)]
  BY DEF FirstFailure
<1>. HIDE DEF S
<1>3. Min(S) \in S
  BY <1>1, MinIs
<1>. QED  BY <1>2, <1>3 DEF S

LEMMA Failures == ~ Succeeds(Rejected) /\ ~ Succeeds(Thrown) /\ ~ Succeeds(Undefined)
BY DEF Succeeds, Rejected, Thrown, Undefined

(* A key that is named has a code.                                         *)
LEMMA KeyCodeTyped ==
  ASSUME NEW part \in Seq(AnyToken), Succeeds(KeyCode(part))
  PROVE  KeyCode(part).code \in Int
<1>1. CASE part = <<>>
  BY <1>1, Failures DEF KeyCode
<1>2. CASE part # <<>>
  <2>1. part[1] \in AnyToken
    BY <1>2
  <2>2. part[1].val \in Int
    BY <2>1 DEF AnyToken
  <2>3. CASE part[1].type = "HEX_LIT"
    <3>1. KeyCode(part) = IF Len(part) = 1 THEN [type |-> "CODE", code |-> part[1].val] ELSE Rejected
      BY <1>2, <2>3 DEF KeyCode
    <3>. QED  BY <2>2, <3>1, Failures
  <2>4. CASE part[1].type # "HEX_LIT"
    <3>1. KeyCode(part) = IF Spelling(part) \in DOMAIN KeyNames
                          THEN [type |-> "CODE", code |-> KeyNames[Spelling(part)]] ELSE Rejected
      BY <1>2, <2>4 DEF KeyCode
    <3>2. Spelling(part) \in DOMAIN KeyNames => KeyNames[Spelling(part)] \in Int
      <4>1. \A name \in DOMAIN KeyNames : KeyNames[name] \in Int
        <5>1. Code \subseteq Int
          BY DEF Code
        <5>. QED  BY Zenon, <5>1, KeyNamesAssumption
      <4>. QED  BY Zenon, <4>1
    <3>. QED  BY <3>1, <3>2, Failures
  <2>. QED  BY <2>3, <2>4
<1>. QED  BY <1>1, <1>2

KeyClass == {"PRESS_KEY", "RELEASE_KEY", "CLICK_KEY", "GENERIC_KEY"}

(* The keys of an action, or the first part of it that names none. *)
LEMMA KeyActionIs ==
  ASSUME NEW S, NEW list \in Seq(S), NEW class
  PROVE  \/ /\ \A i \in DOMAIN Split(list, "SYM_PLUS") : Succeeds(KeyCode(Split(list, "SYM_PLUS")[i]))
            /\ KeyAction(class, list) =
                 [type |-> class, keycodes |-> [i \in DOMAIN Split(list, "SYM_PLUS") |->
                                                  KeyCode(Split(list, "SYM_PLUS")[i]).code]]
         \/ \E i \in DOMAIN Split(list, "SYM_PLUS") :
              /\ KeyAction(class, list) = KeyCode(Split(list, "SYM_PLUS")[i])
              /\ ~ Succeeds(KeyAction(class, list))
<1>. DEFINE parts == Split(list, "SYM_PLUS")
            n     == Len(parts)
            codes == [i \in DOMAIN parts |-> KeyCode(parts[i])]
            key   == [type |-> class, keycodes |-> [i \in DOMAIN codes |-> codes[i].code]]
<1>1. n \in Nat /\ DOMAIN parts = 1 .. n
  BY SplitSome
<1>2. KeyAction(class, list) = IF \A i \in DOMAIN codes : Succeeds(codes[i]) THEN key ELSE FirstFailure(codes)
  BY DEF KeyAction
<1>. HIDE DEF parts, n
<1>3. DOMAIN codes = 1 .. n /\ \A i \in 1 .. n : codes[i] = KeyCode(parts[i])
  BY <1>1
<1>4. CASE \A i \in 1 .. n : Succeeds(codes[i])
  <2>1. \A i \in DOMAIN parts : Succeeds(KeyCode(parts[i]))
    BY <1>1, <1>3, <1>4
  <2>2. key = [type |-> class, keycodes |-> [i \in DOMAIN parts |-> KeyCode(parts[i]).code]]
    BY <1>1, <1>3
  <2>3. KeyAction(class, list) = key
    BY <1>2, <1>3, <1>4
  <2>. HIDE DEF key, codes
  <2>4. KeyAction(class, list) = [type |-> class, keycodes |-> [i \in DOMAIN parts |-> KeyCode(parts[i]).code]]
    BY <2>2, <2>3
  <2>. QED  BY <2>1, <2>4 DEF parts
<1>5. CASE \E i \in 1 .. n : ~ Succeeds(codes[i])
  <2>. HIDE DEF key
  <2>1. KeyAction(class, list) = FirstFailure(codes)
    BY <1>2, <1>3, <1>5
  <2>. HIDE DEF codes
  <2>2. PICK i \in 1 .. n : FirstFailure(codes) = codes[i] /\ ~ Succeeds(codes[i])
    BY <1>1, <1>3, <1>5, FirstFailureFails
  <2>3. i \in DOMAIN parts /\ KeyAction(class, list) = KeyCode(parts[i]) /\ ~ Succeeds(KeyAction(class, list))
    BY <1>1, <1>3, <2>1, <2>2
  <2>. QED  BY <2>3 DEF parts
<1>. QED  BY <1>4, <1>5

(* parse_key_codes, where it does not fail.                                *)
LEMMA KeyActionTyped ==
  ASSUME NEW list \in Seq(AnyToken), NEW class \in KeyClass, Succeeds(KeyAction(class, list))
  PROVE  IsAction(KeyAction(class, list))
<1>. DEFINE parts == Split(list, "SYM_PLUS")
            n     == Len(parts)
            codes == [i \in DOMAIN parts |-> KeyCode(parts[i]).code]
<1>1. n \in Nat /\ DOMAIN parts = 1 .. n /\ parts \in Seq(Seq(AnyToken))
  BY SplitSome
<1>2. /\ \A i \in DOMAIN parts : Succeeds(KeyCode(parts[i]))
      /\ KeyAction(class, list) = [type |-> class, keycodes |-> codes]
  BY KeyActionIs
<1>. HIDE DEF parts, n
<1>3. \A i \in 1 .. n : codes[i] \in Int
  <2>. SUFFICES ASSUME NEW i \in 1 .. n  PROVE codes[i] \in Int
    OBVIOUS
  <2>1. parts[i] \in Seq(AnyToken)
    BY <1>1, ElementOfSeq DEF n
  <2>2. KeyCode(parts[i]).code \in Int
    BY <1>1, <1>2, <2>1, KeyCodeTyped
  <2>. QED  BY <1>1, <2>2
<1>4. codes = [i \in 1 .. n |-> codes[i]]
  BY <1>1
<1>. HIDE DEF codes
<1>5. codes \in Seq(Int)
  <2>1. codes \in [1 .. n -> Int]
    BY Zenon, <1>3, <1>4
  <2>. QED  BY <1>1, <2>1, SeqDef
<1>. QED  BY <1>2, <1>5 DEF IsAction, KeyClass

(* The hash of a layer's name is that of a layer.                          *)
LEMMA LayerNamedTyped ==
  ASSUME NamesOK, NEW list \in Seq(AnyToken), list # <<>>
  PROVE  LayerNamed(list) \in LayerIds
<1>. DEFINE name == [i \in DOMAIN list |-> <<list[i].start - list[1].start, list[i].text>>]
<1>1. Len(list) \in Nat /\ DOMAIN list = 1 .. Len(list)
  BY LenProperties
<1>2. \A i \in 1 .. Len(list) : list[i].start \in Nat /\ list[i].text \in Seq(STRING)
  <2>1. \A i \in 1 .. Len(list) : list[i] \in AnyToken
    BY ElementOfSeq
  <2>. QED  BY <2>1 DEF AnyToken
<1>3. 1 \in 1 .. Len(list)
  BY <1>1
<1>4. \A i \in 1 .. Len(list) : name[i] \in Int \X Seq(STRING)
  BY <1>1, <1>2, <1>3
<1>5. name = [i \in 1 .. Len(list) |-> name[i]]
  BY <1>1
<1>6. LayerNamed(list) = LayerOf(name)
  BY DEF LayerNamed
<1>. HIDE DEF name
<1>7. name \in Seq(Int \X Seq(STRING))
  BY <1>1, <1>4, <1>5
<1>. QED  BY <1>6, <1>7 DEF NamesOK

(* parse_time changes nothing but whether there is an action. *)
LEMMA WithTimeIs ==
  ASSUME NEW list, NEW result
  PROVE  \/ WithTime(list, result) \in {result, Rejected}
         \/ /\ WithTime(list, result) = Thrown /\ Len(list) = 2
            /\ list[1].type = "NUM_LIT" /\ list[1].val > MaxNumber
BY DEF WithTime

(* A change of layer, where it is one.                                     *)
LEMMA SwitchToTyped ==
  ASSUME NamesOK, NEW list \in Seq(AnyToken), NEW op, Succeeds(SwitchTo(list, op))
  PROVE  IsAction(SwitchTo(list, op))
<1>. DEFINE temporary == list # <<>> /\ Last(list).type = "PARAMETER_UNTIL_RELEASED"
            name      == IF temporary THEN Front(list) ELSE list
<1>1. /\ ~ (name = <<>> \/ (temporary /\ op # "HOLD"))
      /\ SwitchTo(list, op) = [type |-> IF temporary THEN "TEMPORARY_LAYER" ELSE "SWITCH_TO_LAYER",
                               target_layer |-> LayerNamed(name)]
  <2>1. SwitchTo(list, op) = IF name = <<>> \/ (temporary /\ op # "HOLD") THEN Rejected
          ELSE [type |-> IF temporary THEN "TEMPORARY_LAYER" ELSE "SWITCH_TO_LAYER",
                target_layer |-> LayerNamed(name)]
    BY DEF SwitchTo
  <2>. HIDE DEF name, temporary
  <2>. QED  BY <2>1, Failures
<1>2. name \in Seq(AnyToken)
  <2>1. list # <<>> => Front(list) \in Seq(AnyToken)
    BY LenProperties, SubSeqProperties DEF Front
  <2>. QED  BY <2>1
<1>. HIDE DEF name, temporary
<1>3. LayerNamed(name) \in LayerIds
  BY <1>1, <1>2, LayerNamedTyped
<1>4. SwitchTo(list, op).type \in {"TEMPORARY_LAYER", "SWITCH_TO_LAYER"} /\ SwitchTo(list, op).target_layer \in LayerIds
  BY <1>1, <1>3
<1>. QED  BY <1>4 DEF IsAction, SilentAction

(* A string to be typed, where it is one.                                  *)
LEMMA TypeTextTyped ==
  ASSUME NamesOK, NEW list \in Seq(AnyToken), Succeeds(TypeText(list))
  PROVE  IsAction(TypeText(list))
<1>. DEFINE times     == {i \in DOMAIN list : list[i].type \in TimeUnit \cup {"NUM_LIT"}}
            words     == {i \in DOMAIN list : list[i].type \in SpeedWord}
            repeating == \E i \in DOMAIN list : list[i].type = "PARAMETER_REPEATEDLY"
            typer     == [type    |-> IF repeating THEN "STRING_TYPER"
                                      ELSE "NON_REPEATING_STRING_TYPER",
                          payload |-> TypedText(list[1].text)]
            time      == <<list[Min(times)], list[Max(times)]>>
            slow      == IF words = {} THEN typer ELSE Rejected
<1>1. TypeText(list) =
        IF list = <<>> \/ list[1].type # "STRING_LIT" \/ Cardinality(times) \notin {0, 2} THEN Rejected
        ELSE IF times = {} THEN IF Cardinality(words) <= 1 THEN typer ELSE Rejected
        ELSE WithTime(time, slow)
  BY DEF TypeText
<1>2. list # <<>> => typer.type \in {"STRING_TYPER", "NON_REPEATING_STRING_TYPER"} /\ typer.payload \in Seq(Int)
  <2>. SUFFICES ASSUME list # <<>>
                PROVE  typer.type \in {"STRING_TYPER", "NON_REPEATING_STRING_TYPER"} /\ typer.payload \in Seq(Int)
    OBVIOUS
  <2>1. list[1] \in AnyToken
    OBVIOUS
  <2>2. list[1].text \in Seq(STRING)
    BY <2>1 DEF AnyToken
  <2>. QED  BY <2>2 DEF NamesOK
<1>. HIDE DEF times, words, repeating, typer, time
<1>3. TypeText(list) = typer /\ list # <<>>
  <2>1. slow \in {typer, Rejected}
    OBVIOUS
  <2>. HIDE DEF slow
  <2>2. WithTime(time, slow) \in {slow, Rejected, Thrown}
    BY WithTimeIs
  <2>3. TypeText(list) \in {typer, Rejected, Thrown} /\ (list = <<>> => TypeText(list) = Rejected)
    BY <1>1, <2>1, <2>2
  <2>. QED  BY <2>3, Failures
<1>4. TypeText(list).type \in {"STRING_TYPER", "NON_REPEATING_STRING_TYPER"} /\ TypeText(list).payload \in Seq(Int)
  BY <1>2, <1>3
<1>. QED  BY <1>4 DEF IsAction, SilentAction

-----------------------------------------------------------------------------
(* A distance, a message, or an exception.                                 *)
LEMMA MotionIs ==
  ASSUME NEW class, NEW up_down, NEW list
  PROVE  \/ Motion(class, up_down, list) \in {[type |-> class, up_down |-> up_down], Rejected}
         \/ /\ Motion(class, up_down, list) = Thrown /\ Len(list) = 1
            /\ list[1].type = "NUM_LIT" /\ list[1].val > MaxNumber
BY DEF Motion

(* The words that begin an action are all different. *)
FirstWord ==
  DOMAIN KeyWord \cup {"ACTION_WAIT", "ACTION_SWITCH_TO", "ACTION_TYPE"} \cup DOMAIN LayerWord \cup
  DOMAIN BareWord \cup MoveWord \cup ScrollWord \cup DOMAIN ButtonWord

(* parse_action_token, by its first word.                                  *)
LEMMA WordCases ==
  ASSUME NEW list, list # <<>>, NEW op
  PROVE  LET word   == list[1].type
             rest   == Tail(list)
             result == ParseActionToken(list, op)
         IN  /\ word \in DOMAIN KeyWord =>
                  result = IF rest = <<>> THEN Rejected ELSE KeyAction(KeyWord[word], rest)
             /\ word = "ACTION_WAIT" => result = WithTime(rest, [type |-> "DELAY"])
             /\ word = "ACTION_SWITCH_TO" => result = SwitchTo(rest, op)
             /\ word \in DOMAIN LayerWord =>
                  result = IF rest = <<>> THEN Rejected
                           ELSE [type |-> LayerWord[word], target_layer |-> LayerNamed(rest)]
             /\ word \in DOMAIN BareWord =>
                  result = IF rest # <<>> THEN Rejected ELSE [type |-> BareWord[word]]
             /\ word = "ACTION_TYPE" => result = TypeText(rest)
             /\ word \in MoveWord => result = Motion("MOUSE_MOVE", word \in UpDown, rest)
             /\ word \in ScrollWord => result = Motion("MOUSE_SCROLL", word \in UpDown, rest)
             /\ word \in DOMAIN ButtonWord =>
                  result = IF rest # <<>> THEN Rejected
                           ELSE [type |-> "MOUSE_CLICK", button |-> ButtonWord[word]]
             /\ word \notin FirstWord => result = KeyAction("GENERIC_KEY", list)
<1>. DEFINE word   == list[1].type
            rest   == Tail(list)
            result == ParseActionToken(list, op)
<1>1. word \in DOMAIN KeyWord =>
        result = IF rest = <<>> THEN Rejected ELSE KeyAction(KeyWord[word], rest)
  <2>1. word \in DOMAIN KeyWord => word \notin {"ACTION_WAIT", "ACTION_SWITCH_TO", "ACTION_TYPE"} \cup
                        DOMAIN LayerWord \cup DOMAIN BareWord \cup MoveWord \cup ScrollWord \cup DOMAIN ButtonWord
    BY DEF KeyWord, LayerWord, BareWord, MoveWord, ScrollWord, ButtonWord
  <2>. QED  BY <2>1 DEF ParseActionToken
<1>2. word = "ACTION_WAIT" =>
        result = WithTime(rest, [type |-> "DELAY"])
  <2>1. word = "ACTION_WAIT" => word \notin {"ACTION_SWITCH_TO", "ACTION_TYPE"} \cup DOMAIN KeyWord \cup
                        DOMAIN LayerWord \cup DOMAIN BareWord \cup MoveWord \cup ScrollWord \cup DOMAIN ButtonWord
    BY DEF KeyWord, LayerWord, BareWord, MoveWord, ScrollWord, ButtonWord
  <2>. QED  BY <2>1 DEF ParseActionToken
<1>3. word = "ACTION_SWITCH_TO" =>
        result = SwitchTo(rest, op)
  <2>1. word = "ACTION_SWITCH_TO" => word \notin {"ACTION_WAIT", "ACTION_TYPE"} \cup DOMAIN KeyWord \cup
                        DOMAIN LayerWord \cup DOMAIN BareWord \cup MoveWord \cup ScrollWord \cup DOMAIN ButtonWord
    BY DEF KeyWord, LayerWord, BareWord, MoveWord, ScrollWord, ButtonWord
  <2>. QED  BY <2>1 DEF ParseActionToken
<1>4. word \in DOMAIN LayerWord =>
        result = IF rest = <<>> THEN Rejected
                 ELSE [type |-> LayerWord[word], target_layer |-> LayerNamed(rest)]
  <2>1. word \in DOMAIN LayerWord => word \notin {"ACTION_WAIT", "ACTION_SWITCH_TO", "ACTION_TYPE"} \cup
                        DOMAIN KeyWord \cup DOMAIN BareWord \cup MoveWord \cup ScrollWord \cup DOMAIN ButtonWord
    BY DEF KeyWord, LayerWord, BareWord, MoveWord, ScrollWord, ButtonWord
  <2>. QED  BY <2>1 DEF ParseActionToken
<1>5. word \in DOMAIN BareWord =>
        result = IF rest # <<>> THEN Rejected ELSE [type |-> BareWord[word]]
  <2>1. word \in DOMAIN BareWord => word \notin {"ACTION_WAIT", "ACTION_SWITCH_TO", "ACTION_TYPE"} \cup
                        DOMAIN KeyWord \cup DOMAIN LayerWord \cup MoveWord \cup ScrollWord \cup DOMAIN ButtonWord
    BY DEF KeyWord, LayerWord, BareWord, MoveWord, ScrollWord, ButtonWord
  <2>. QED  BY <2>1 DEF ParseActionToken
<1>6. word = "ACTION_TYPE" =>
        result = TypeText(rest)
  <2>1. word = "ACTION_TYPE" => word \notin {"ACTION_WAIT", "ACTION_SWITCH_TO"} \cup DOMAIN KeyWord \cup
                        DOMAIN LayerWord \cup DOMAIN BareWord \cup MoveWord \cup ScrollWord \cup DOMAIN ButtonWord
    BY DEF KeyWord, LayerWord, BareWord, MoveWord, ScrollWord, ButtonWord
  <2>. QED  BY <2>1 DEF ParseActionToken
<1>7. word \in MoveWord =>
        result = Motion("MOUSE_MOVE", word \in UpDown, rest)
  <2>1. word \in MoveWord => word \notin {"ACTION_WAIT", "ACTION_SWITCH_TO", "ACTION_TYPE"} \cup
                        DOMAIN KeyWord \cup DOMAIN LayerWord \cup DOMAIN BareWord \cup ScrollWord \cup DOMAIN ButtonWord
    BY DEF KeyWord, LayerWord, BareWord, MoveWord, ScrollWord, ButtonWord
  <2>. QED  BY <2>1 DEF ParseActionToken
<1>8. word \in ScrollWord =>
        result = Motion("MOUSE_SCROLL", word \in UpDown, rest)
  <2>1. word \in ScrollWord => word \notin {"ACTION_WAIT", "ACTION_SWITCH_TO", "ACTION_TYPE"} \cup
                        DOMAIN KeyWord \cup DOMAIN LayerWord \cup DOMAIN BareWord \cup MoveWord \cup DOMAIN ButtonWord
    BY DEF KeyWord, LayerWord, BareWord, MoveWord, ScrollWord, ButtonWord
  <2>. QED  BY <2>1 DEF ParseActionToken
<1>9. word \in DOMAIN ButtonWord =>
        result = IF rest # <<>> THEN Rejected
                 ELSE [type |-> "MOUSE_CLICK", button |-> ButtonWord[word]]
  <2>1. word \in DOMAIN ButtonWord => word \notin {"ACTION_WAIT", "ACTION_SWITCH_TO", "ACTION_TYPE"} \cup
                        DOMAIN KeyWord \cup DOMAIN LayerWord \cup DOMAIN BareWord \cup MoveWord \cup ScrollWord
    BY DEF KeyWord, LayerWord, BareWord, MoveWord, ScrollWord, ButtonWord
  <2>. QED  BY <2>1 DEF ParseActionToken
<1>10. word \notin FirstWord => result = KeyAction("GENERIC_KEY", list)
  BY DEF ParseActionToken, FirstWord
<1>. QED  BY <1>1, <1>2, <1>3, <1>4, <1>5, <1>6, <1>7, <1>8, <1>9, <1>10

(* An action that parse_action_token does not refuse is one that the tasks *)
(* can do.                                                                 *)
LEMMA ParseTokenTyped ==
  ASSUME NamesOK, NEW list \in Seq(AnyToken), NEW op, Succeeds(ParseActionToken(list, op))
  PROVE  IsAction(ParseActionToken(list, op))
<1>. DEFINE word   == list[1].type
            rest   == Tail(list)
            result == ParseActionToken(list, op)
<1>1. list # <<>>
  BY Failures DEF ParseActionToken
<1>2. rest \in Seq(AnyToken)
  BY <1>1
<1>. HIDE DEF rest, word, result
<1>3. CASE word \in DOMAIN KeyWord
  <2>1. result = IF rest = <<>> THEN Rejected ELSE KeyAction(KeyWord[word], rest)
    BY <1>1, <1>3, WordCases DEF word, rest, result
  <2>2. KeyWord[word] \in KeyClass
    BY <1>3 DEF KeyWord, KeyClass
  <2>3. PICK class \in KeyClass : class = KeyWord[word]
    BY <2>2
  <2>4. rest # <<>> /\ result = KeyAction(class, rest)
    BY <2>1, <2>3, Failures DEF result
  <2>5. Succeeds(KeyAction(class, rest))
    BY <2>4 DEF result
  <2>6. IsAction(KeyAction(class, rest))
    BY <1>2, <2>5, KeyActionTyped
  <2>. QED  BY <2>4, <2>6 DEF result
<1>4. CASE word = "ACTION_WAIT"
  <2>. DEFINE delay == [type |-> "DELAY"]
  <2>1. result = WithTime(rest, delay)
    BY <1>1, <1>4, WordCases DEF word, rest, result
  <2>2. IsAction(delay)
    BY DEF IsAction
  <2>. HIDE DEF delay
  <2>3. WithTime(rest, delay) \in {delay, Rejected, Thrown}
    BY WithTimeIs
  <2>4. result = delay
    BY <2>1, <2>3, Failures DEF result
  <2>. QED  BY <2>2, <2>4 DEF result
<1>5. CASE word = "ACTION_SWITCH_TO"
  <2>1. result = SwitchTo(rest, op)
    BY <1>1, <1>5, WordCases DEF word, rest, result
  <2>2. Succeeds(SwitchTo(rest, op))
    BY <2>1 DEF result
  <2>. QED  BY <1>2, <2>1, <2>2, SwitchToTyped DEF result
<1>6. CASE word \in DOMAIN LayerWord
  <2>1. result = IF rest = <<>> THEN Rejected
                 ELSE [type |-> LayerWord[word], target_layer |-> LayerNamed(rest)]
    BY <1>1, <1>6, WordCases DEF word, rest, result
  <2>2. result = [type |-> LayerWord[word], target_layer |-> LayerNamed(rest)]
    BY <2>1, Failures DEF result
  <2>3. result.type \in {"TOGGLE_LAYER", "LEAVE_LAYER"}
    BY <1>6, <2>2 DEF LayerWord
  <2>. QED  BY <2>3 DEF IsAction, SilentAction, result
<1>7. CASE word \in DOMAIN BareWord
  <2>1. result = IF rest # <<>> THEN Rejected ELSE [type |-> BareWord[word]]
    BY <1>1, <1>7, WordCases DEF word, rest, result
  <2>2. result = [type |-> BareWord[word]]
    BY <2>1, Failures DEF result
  <2>3. result.type \in {"RESET_KEEB", "KEEB_BOOTLOADER", "RESET_LAYER", "NOTHINGBURGER", "PASS_THROUGH",
                         "RELOAD_KEYMAP"}
    BY <1>7, <2>2 DEF BareWord
  <2>. QED  BY <2>3 DEF IsAction, SilentAction, result
<1>8. CASE word = "ACTION_TYPE"
  <2>1. result = TypeText(rest)
    BY <1>1, <1>8, WordCases DEF word, rest, result
  <2>2. Succeeds(TypeText(rest))
    BY <2>1 DEF result
  <2>. QED  BY <1>2, <2>1, <2>2, TypeTextTyped DEF result
<1>9. CASE word \in MoveWord \cup ScrollWord
  <2>1. PICK class \in {"MOUSE_MOVE", "MOUSE_SCROLL"}, up_down \in BOOLEAN :
          result = Motion(class, up_down, rest)
    <3>1. word \in MoveWord => result = Motion("MOUSE_MOVE", word \in UpDown, rest)
      BY <1>1, WordCases DEF word, rest, result
    <3>2. word \in ScrollWord => result = Motion("MOUSE_SCROLL", word \in UpDown, rest)
      BY <1>1, WordCases DEF word, rest, result
    <3>3. (word \in UpDown) \in BOOLEAN
      OBVIOUS
    <3>. QED  BY <1>9, <3>1, <3>2, <3>3
  <2>. DEFINE motion == [type |-> class, up_down |-> up_down]
  <2>2. IsAction(motion)
    BY DEF IsAction
  <2>3. Motion(class, up_down, rest) \in {motion, Rejected, Thrown}
    BY MotionIs
  <2>. HIDE DEF motion
  <2>4. result = motion
    BY <2>1, <2>3, Failures DEF result
  <2>. QED  BY <2>2, <2>4 DEF result
<1>10. CASE word \in DOMAIN ButtonWord
  <2>1. result = IF rest # <<>> THEN Rejected
                 ELSE [type |-> "MOUSE_CLICK", button |-> ButtonWord[word]]
    BY <1>1, <1>10, WordCases DEF word, rest, result
  <2>2. result = [type |-> "MOUSE_CLICK", button |-> ButtonWord[word]]
    BY <2>1, Failures DEF result
  <2>3. ButtonWord[word] \in Bit
    BY <1>10 DEF ButtonWord, Bit
  <2>4. result.type = "MOUSE_CLICK" /\ result.button \in Bit
    BY <2>2, <2>3
  <2>. QED  BY <2>4 DEF IsAction, result
<1>11. CASE word \notin FirstWord
  <2>1. result = KeyAction("GENERIC_KEY", list)
    BY <1>1, <1>11, WordCases DEF word, result
  <2>2. PICK class \in KeyClass : class = "GENERIC_KEY"
    BY DEF KeyClass
  <2>3. Succeeds(KeyAction(class, list))
    BY <2>1, <2>2 DEF result
  <2>4. IsAction(KeyAction(class, list))
    BY <2>3, KeyActionTyped
  <2>. QED  BY <2>1, <2>2, <2>4 DEF result
<1>. QED  BY <1>3, <1>4, <1>5, <1>6, <1>7, <1>8, <1>9, <1>10, <1>11 DEF FirstWord

(* parse_action_list: the one part, or all of them, or the first failure.  *)
LEMMA ParseListIs ==
  ASSUME NEW S, NEW list \in Seq(S), NEW op
  PROVE  LET parts  == Split(list, "SYM_COMMA")
             result == ParseActionList(list, op)
         IN  \/ /\ \A i \in DOMAIN parts : Succeeds(ParseActionToken(parts[i], op))
                /\ \/ result = ParseActionToken(parts[1], op)
                   \/ result = [type |-> "SEQUENCE",
                                sequence |-> [i \in DOMAIN parts |-> ParseActionToken(parts[i], op)]]
             \/ \E i \in DOMAIN parts :
                  result = ParseActionToken(parts[i], op) /\ ~ Succeeds(result)
<1>. DEFINE parts   == Split(list, "SYM_COMMA")
            n       == Len(parts)
            result  == ParseActionList(list, op)
            results == [i \in DOMAIN parts |-> ParseActionToken(parts[i], op)]
            all     == [type |-> "SEQUENCE", sequence |-> results]
<1>1. n \in Nat \ {0} /\ DOMAIN parts = 1 .. n
  BY SplitSome
<1>2. result = IF \E i \in DOMAIN results : ~ Succeeds(results[i]) THEN FirstFailure(results)
               ELSE IF Len(results) = 1 THEN results[1] ELSE all
  BY DEF ParseActionList
<1>. HIDE DEF parts, n, result
<1>3. DOMAIN results = 1 .. n /\ \A i \in 1 .. n : results[i] = ParseActionToken(parts[i], op)
  BY <1>1
<1>4. CASE \A i \in 1 .. n : Succeeds(results[i])
  <2>1. \A i \in DOMAIN parts : Succeeds(ParseActionToken(parts[i], op))
    BY <1>1, <1>3, <1>4
  <2>2. results[1] = ParseActionToken(parts[1], op)
    BY <1>1, <1>3
  <2>3. result \in {results[1], all}
    <3>. HIDE DEF results, all
    <3>. QED  BY <1>2, <1>3, <1>4
  <2>4. result = ParseActionToken(parts[1], op) \/ result = all
    BY <2>2, <2>3
  <2>. QED  BY <2>1, <2>4 DEF parts, result
<1>5. CASE \E i \in 1 .. n : ~ Succeeds(results[i])
  <2>. HIDE DEF results
  <2>1. result = FirstFailure(results)
    BY <1>2, <1>3, <1>5
  <2>2. PICK i \in 1 .. n : FirstFailure(results) = results[i] /\ ~ Succeeds(results[i])
    BY <1>1, <1>3, <1>5, FirstFailureFails
  <2>3. i \in DOMAIN parts /\ result = ParseActionToken(parts[i], op) /\ ~ Succeeds(result)
    BY <1>1, <1>3, <2>1, <2>2
  <2>. QED  BY <2>3 DEF parts, result
<1>. QED  BY <1>4, <1>5

(* Whatever the text, a binding sends messages that the usb-hid task knows. *)
LEMMA BindingSends ==
  ASSUME NamesOK, NEW list \in Seq(AnyToken), NEW op, Succeeds(ParseActionList(list, op)),
         NEW bae \in BoundActionEnqueue
  PROVE  Enqueue(ParseActionList(list, op), bae) \in Seq(QueueMessage)
<1>. DEFINE parts  == Split(list, "SYM_COMMA")
            result == ParseActionList(list, op)
            n      == Len(parts)
            all    == [i \in DOMAIN parts |-> ParseActionToken(parts[i], op)]
<1>1. n \in Nat \ {0} /\ DOMAIN parts = 1 .. n /\ parts \in Seq(Seq(AnyToken))
  BY SplitSome
<1>2. /\ \A i \in DOMAIN parts : Succeeds(ParseActionToken(parts[i], op))
      /\ result = ParseActionToken(parts[1], op) \/ result = [type |-> "SEQUENCE", sequence |-> all]
  BY ParseListIs
<1>. HIDE DEF parts, result
<1>3. \A i \in 1 .. n : IsAction(ParseActionToken(parts[i], op))
  <2>. SUFFICES ASSUME NEW i \in 1 .. n  PROVE IsAction(ParseActionToken(parts[i], op))
    OBVIOUS
  <2>1. parts[i] \in Seq(AnyToken)
    BY <1>1, ElementOfSeq
  <2>. QED  BY <1>1, <1>2, <2>1, ParseTokenTyped
<1>. HIDE DEF n
<1>4. CASE result = ParseActionToken(parts[1], op)
  <2>1. IsAction(result)
    BY <1>1, <1>3, <1>4
  <2>2. Enqueue(result, bae) = EnqueueOne(result, bae)
    BY <2>1, ActionNoSequence DEF Enqueue
  <2>3. EnqueueOne(result, bae) \in Seq(QueueMessage)
    BY <2>1, ActionSends
  <2>. QED  BY <2>2, <2>3 DEF result
<1>5. CASE result = [type |-> "SEQUENCE", sequence |-> all]
  <2>1. all = [i \in 1 .. n |-> all[i]] /\ \A i \in 1 .. n : IsAction(all[i])
    <3>1. \A i \in 1 .. n : all[i] = ParseActionToken(parts[i], op)
      BY <1>1
    <3>2. \A i \in 1 .. n : IsAction(all[i])
      BY Zenon, <1>3, <3>1
    <3>. QED  BY <1>1, <3>2
  <2>. HIDE DEF all
  <2>2. result.type = "SEQUENCE" /\ result.sequence = all
    BY <1>5
  <2>3. Enqueue(result, bae) \in Seq(QueueMessage)
    BY <1>1, <2>1, <2>2, SequenceSends
  <2>. QED  BY <2>3 DEF result
<1>. QED  BY <1>2, <1>4, <1>5

-----------------------------------------------------------------------------
Stops(result) == result.type \in {"THROWN", "UNDEFINED"}

(* What HaltsForAReason says of the tokens, said of a list of them. *)
TooLarge(t) == t.type = "NUM_LIT" /\ t.val > MaxNumber
Reason(list) ==
  \E i \in DOMAIN list :
    \/ TooLarge(list[i])
    \/ /\ list[i].type \in Separator \cup DOMAIN KeyWord
       /\ i + 1 \in DOMAIN list /\ list[i + 1].type \in Separator

(* What stops the board is no action.                                      *)
LEMMA Stopping ==
  /\ \A result : Stops(result) => ~ Succeeds(result)
  /\ ~ Stops(Rejected)
BY DEF Stops, Succeeds, Rejected

(* Where there is nothing between two cuts. *)
LEMMA EmptyPart ==
  ASSUME NEW S, NEW list \in Seq(S), NEW type, NEW n \in DOMAIN Split(list, type), Split(list, type)[n] = <<>>
  PROVE  \E a \in 0 .. Len(list) : /\ a = 0 \/ list[a].type = type
                                   /\ a = Len(list) \/ list[a + 1].type = type
<1>1. PICK a, b \in Cuts(list, type) :
        /\ a \in Nat /\ b \in Nat /\ a < b /\ b <= Len(list) + 1
        /\ Split(list, type)[n] = SubSeq(list, a + 1, b - 1)
  BY SplitIs
<1>2. Len(list) \in Nat /\ DOMAIN list = 1 .. Len(list)
  BY LenProperties
<1>3. b = a + 1
  <2>. SUFFICES ASSUME b # a + 1  PROVE FALSE
    OBVIOUS
  <2>1. a + 1 \in 1 .. Len(list) /\ b - 1 \in a + 1 .. Len(list)
    BY <1>1, <1>2
  <2>2. Len(SubSeq(list, a + 1, b - 1)) = (b - 1) - (a + 1) + 1
    BY <2>1
  <2>3. Len(SubSeq(list, a + 1, b - 1)) = 0
    BY <1>1
  <2>. QED  BY <1>1, <2>1, <2>2, <2>3
<1>4. a = 0 \/ list[a].type = type
  <2>1. a # Len(list) + 1
    BY <1>1, <1>2
  <2>. QED  BY <1>1, <2>1 DEF Cuts
<1>5. a = Len(list) \/ list[a + 1].type = type
  <2>0. \A x, y, z \in Nat : y = x + 1 => y # 0 /\ (y = z + 1 => x = z)
    OBVIOUS
  <2>1. b # 0 /\ (b = Len(list) + 1 => a = Len(list))
    BY Zenon, <1>1, <1>2, <1>3, <2>0
  <2>2. b = Len(list) + 1 \/ list[b].type = type
    BY <1>1, <2>1 DEF Cuts
  <2>. QED  BY <1>3, <2>1, <2>2
<1>6. a \in 0 .. Len(list)
  <2>1. \A x, y, z \in Nat : x < y /\ y <= z + 1 => x \in 0 .. z
    OBVIOUS
  <2>. QED  BY Zenon, <1>1, <1>2, <2>1
<1>. QED  BY Zenon, <1>4, <1>5, <1>6

(* parse_key_codes stops where a `+' has nothing on one side of it.        *)
LEMMA KeyActionStops ==
  ASSUME NEW S, NEW list \in Seq(S), NEW class \in KeyClass, Stops(KeyAction(class, list))
  PROVE  \E a \in 0 .. Len(list) : /\ a = 0 \/ list[a].type = "SYM_PLUS"
                                   /\ a = Len(list) \/ list[a + 1].type = "SYM_PLUS"
<1>. DEFINE parts == Split(list, "SYM_PLUS")
<1>1. ~ Succeeds(KeyAction(class, list))
  BY Stopping
<1>2. PICK i \in DOMAIN parts : KeyAction(class, list) = KeyCode(parts[i])
  <2>1. \A codes : Succeeds([type |-> class, keycodes |-> codes])
    BY DEF Succeeds, KeyClass
  <2>. QED  BY <1>1, <2>1, KeyActionIs
<1>3. parts[i] = <<>>
  <2>. SUFFICES ASSUME parts[i] # <<>>  PROVE FALSE
    OBVIOUS
  <2>. DEFINE part == parts[i]
  <2>1. part # <<>>
    OBVIOUS
  <2>. HIDE DEF parts, part
  <2>2. KeyCode(part).type \in {"CODE", "REJECTED"}
    <3>1. CASE part[1].type = "HEX_LIT"
      <4>1. KeyCode(part) = IF Len(part) = 1 THEN [type |-> "CODE", code |-> part[1].val] ELSE Rejected
        BY <2>1, <3>1 DEF KeyCode
      <4>. QED  BY <4>1 DEF Rejected
    <3>2. CASE part[1].type # "HEX_LIT"
      <4>1. KeyCode(part) = IF Spelling(part) \in DOMAIN KeyNames
                            THEN [type |-> "CODE", code |-> KeyNames[Spelling(part)]] ELSE Rejected
        BY <2>1, <3>2 DEF KeyCode
      <4>. QED  BY <4>1 DEF Rejected
    <3>. QED  BY <3>1, <3>2
  <2>. QED  BY <1>2, <2>2 DEF Stops, part
<1>. QED  BY <1>3, EmptyPart

(* parse_time stops at a number that is too large.                         *)
LEMMA WithTimeStops ==
  ASSUME NEW list, NEW result, ~ Stops(result), Stops(WithTime(list, result))
  PROVE  Len(list) = 2 /\ TooLarge(list[1])
BY WithTimeIs, Stopping DEF TooLarge

(* So does a string with a time.                                           *)
LEMMA TypeTextStops ==
  ASSUME NEW S, NEW list \in Seq(S), Stops(TypeText(list))
  PROVE  \E i \in DOMAIN list : TooLarge(list[i])
<1>. DEFINE times     == {i \in DOMAIN list : list[i].type \in TimeUnit \cup {"NUM_LIT"}}
            words     == {i \in DOMAIN list : list[i].type \in SpeedWord}
            repeating == \E i \in DOMAIN list : list[i].type = "PARAMETER_REPEATEDLY"
            typer     == [type    |-> IF repeating THEN "STRING_TYPER"
                                      ELSE "NON_REPEATING_STRING_TYPER",
                          payload |-> TypedText(list[1].text)]
            first     == list[Min(times)]
            last      == list[Max(times)]
            time      == <<first, last>>
            slow      == IF words = {} THEN typer ELSE Rejected
<1>1. TypeText(list) =
        IF list = <<>> \/ list[1].type # "STRING_LIT" \/ Cardinality(times) \notin {0, 2} THEN Rejected
        ELSE IF times = {} THEN IF Cardinality(words) <= 1 THEN typer ELSE Rejected
        ELSE WithTime(time, slow)
  BY DEF TypeText
<1>2. ~ Stops(typer) /\ times \subseteq Nat /\ times \subseteq DOMAIN list
  BY LenProperties DEF Stops
<1>. HIDE DEF times, words, repeating, typer, first, last
<1>3. ~ Stops(slow)
  BY <1>2, Stopping
<1>. HIDE DEF time, slow
<1>4. times # {} /\ Stops(WithTime(time, slow))
  BY <1>1, <1>2, Stopping
<1>5. TooLarge(time[1])
  BY <1>3, <1>4, WithTimeStops
<1>6. Min(times) \in DOMAIN list
  BY <1>2, <1>4, MinIs
<1>7. time[1] = first
  BY DEF time
<1>. QED  BY <1>5, <1>6, <1>7 DEF first

(* What stops parse_action_token on a part that is not empty: a number, a  *)
(* `+' that has nothing before it, or one behind which there is nothing.   *)
LEMMA ParseTokenStops ==
  ASSUME NEW S, NEW list \in Seq(S), list # <<>>, NEW op, Stops(ParseActionToken(list, op))
  PROVE  Reason(list) \/ list[1].type \in Separator \/ list[Len(list)].type \in Separator
<1>. DEFINE word   == list[1].type
            rest   == Tail(list)
            result == ParseActionToken(list, op)
            n      == Len(list)
<1>1. /\ n \in Nat \ {0} /\ DOMAIN list = 1 .. n /\ rest \in Seq(S)
      /\ Len(rest) = n - 1 /\ \A i \in 1 .. n - 1 : rest[i] = list[i + 1]
      /\ DOMAIN rest = 1 .. n - 1
  BY HeadTailProperties, LenProperties
<1>. HIDE DEF rest, word, result
<1>2. (\E i \in DOMAIN rest : TooLarge(rest[i])) => Reason(list)
  <2>. SUFFICES ASSUME NEW i \in 1 .. n - 1, TooLarge(rest[i])  PROVE Reason(list)
    BY <1>1
  <2>1. i + 1 \in DOMAIN list /\ TooLarge(list[i + 1])
    BY <1>1
  <2>. QED  BY <2>1 DEF Reason
<1>. HIDE DEF n
<1>3. CASE word \in DOMAIN KeyWord
  <2>1. result = IF rest = <<>> THEN Rejected ELSE KeyAction(KeyWord[word], rest)
    BY <1>3, WordCases DEF word, rest, result
  <2>2. PICK class \in KeyClass : class = KeyWord[word]
    BY <1>3 DEF KeyWord, KeyClass
  <2>3. rest # <<>> /\ Stops(KeyAction(class, rest))
    BY <2>1, <2>2, Stopping DEF result
  <2>4. PICK a \in 0 .. n - 1 : /\ a = 0 \/ rest[a].type = "SYM_PLUS"
                                /\ a = n - 1 \/ rest[a + 1].type = "SYM_PLUS"
    BY <1>1, <2>3, KeyActionStops
  <2>5. n # 1 /\ "SYM_PLUS" \in Separator
    <3>1. n = 1 => rest = <<>>
      BY <1>1
    <3>. QED  BY <2>3, <3>1 DEF Separator
  <2>6. a = 0 \/ list[a + 1].type \in Separator
    BY <1>1, <2>4, <2>5
  <2>7. a = n - 1 \/ (a + 2 \in DOMAIN list /\ list[a + 2].type \in Separator)
    <3>. SUFFICES ASSUME a # n - 1  PROVE a + 2 \in DOMAIN list /\ list[a + 2].type \in Separator
      OBVIOUS
    <3>1. a + 1 \in 1 .. n - 1 /\ (a + 1) + 1 = a + 2 /\ a + 2 \in 1 .. n
      BY <1>1, <2>4
    <3>2. list[a + 2] = rest[a + 1]
      BY <1>1, <3>1
    <3>. QED  BY <1>1, <2>4, <2>5, <3>1, <3>2
  <2>8. CASE a = n - 1
    BY <1>1, <2>5, <2>6, <2>8 DEF n
  <2>9. CASE a # n - 1
    <3>1. a + 1 \in DOMAIN list /\ (a + 1) + 1 = a + 2
      BY <1>1, <2>4
    <3>2. list[a + 1].type \in Separator \cup DOMAIN KeyWord
      BY <1>3, <2>6 DEF word
    <3>. QED  BY <2>7, <2>9, <3>1, <3>2 DEF Reason
  <2>. QED  BY <2>8, <2>9
<1>4. CASE word = "ACTION_WAIT"
  <2>. DEFINE delay == [type |-> "DELAY"]
  <2>1. result = WithTime(rest, delay)
    BY <1>4, WordCases DEF word, rest, result
  <2>2. ~ Stops(delay)
    BY DEF Stops
  <2>. HIDE DEF delay
  <2>3. Len(rest) = 2 /\ TooLarge(rest[1])
    BY <2>1, <2>2, WithTimeStops DEF result
  <2>4. 1 \in DOMAIN rest
    BY <1>1, <2>3
  <2>. QED  BY <1>2, <2>3, <2>4
<1>5. CASE word = "ACTION_SWITCH_TO"
  <2>1. result = SwitchTo(rest, op)
    BY <1>5, WordCases DEF word, rest, result
  <2>2. SwitchTo(rest, op).type \in {"REJECTED", "TEMPORARY_LAYER", "SWITCH_TO_LAYER"}
    BY DEF SwitchTo, Rejected
  <2>. QED  BY <2>1, <2>2 DEF Stops, result
<1>6. CASE word \in DOMAIN LayerWord
  <2>1. result = IF rest = <<>> THEN Rejected
                 ELSE [type |-> LayerWord[word], target_layer |-> LayerNamed(rest)]
    BY <1>6, WordCases DEF word, rest, result
  <2>2. result.type \in {"REJECTED", "TOGGLE_LAYER", "LEAVE_LAYER"}
    BY <1>6, <2>1 DEF LayerWord, Rejected
  <2>. QED  BY <2>2 DEF Stops, result
<1>7. CASE word \in DOMAIN BareWord
  <2>1. result = IF rest # <<>> THEN Rejected ELSE [type |-> BareWord[word]]
    BY <1>7, WordCases DEF word, rest, result
  <2>2. result.type \in {"REJECTED", "RESET_KEEB", "KEEB_BOOTLOADER", "RESET_LAYER", "NOTHINGBURGER",
                         "PASS_THROUGH", "RELOAD_KEYMAP"}
    BY <1>7, <2>1 DEF BareWord, Rejected
  <2>. QED  BY <2>2 DEF Stops, result
<1>8. CASE word = "ACTION_TYPE"
  <2>1. result = TypeText(rest)
    BY <1>8, WordCases DEF word, rest, result
  <2>2. \E i \in DOMAIN rest : TooLarge(rest[i])
    BY <1>1, <2>1, TypeTextStops DEF result
  <2>. QED  BY <1>2, <2>2
<1>9. CASE word \in MoveWord \cup ScrollWord
  <2>1. PICK class \in {"MOUSE_MOVE", "MOUSE_SCROLL"}, up_down \in BOOLEAN :
          result = Motion(class, up_down, rest)
    <3>1. word \in MoveWord => result = Motion("MOUSE_MOVE", word \in UpDown, rest)
      BY WordCases DEF word, rest, result
    <3>2. word \in ScrollWord => result = Motion("MOUSE_SCROLL", word \in UpDown, rest)
      BY WordCases DEF word, rest, result
    <3>3. (word \in UpDown) \in BOOLEAN
      OBVIOUS
    <3>. QED  BY <1>9, <3>1, <3>2, <3>3
  <2>. DEFINE motion == [type |-> class, up_down |-> up_down]
  <2>2. ~ Stops(motion)
    BY DEF Stops
  <2>3. \/ Motion(class, up_down, rest) \in {motion, Rejected}
        \/ Len(rest) = 1 /\ TooLarge(rest[1])
    BY MotionIs DEF TooLarge
  <2>. HIDE DEF motion
  <2>4. Len(rest) = 1 /\ TooLarge(rest[1])
    BY <2>1, <2>2, <2>3, Stopping DEF result
  <2>5. 1 \in DOMAIN rest
    BY <1>1, <2>4
  <2>. QED  BY <1>2, <2>4, <2>5
<1>10. CASE word \in DOMAIN ButtonWord
  <2>1. result = IF rest # <<>> THEN Rejected
                 ELSE [type |-> "MOUSE_CLICK", button |-> ButtonWord[word]]
    BY <1>10, WordCases DEF word, rest, result
  <2>2. result.type \in {"REJECTED", "MOUSE_CLICK"}
    BY <2>1 DEF Rejected
  <2>. QED  BY <2>2 DEF Stops, result
<1>11. CASE word \notin FirstWord
  <2>1. result = KeyAction("GENERIC_KEY", list)
    BY <1>11, WordCases DEF word, result
  <2>2. PICK class \in KeyClass : class = "GENERIC_KEY"
    BY DEF KeyClass
  <2>3. Stops(KeyAction(class, list))
    BY <2>1, <2>2 DEF result
  <2>4. PICK a \in 0 .. n : /\ a = 0 \/ list[a].type = "SYM_PLUS"
                            /\ a = n \/ list[a + 1].type = "SYM_PLUS"
    BY <2>3, KeyActionStops DEF n
  <2>5. "SYM_PLUS" \in Separator
    BY DEF Separator
  <2>6. CASE a = 0
    <3>1. a # n /\ a + 1 = 1
      BY <1>1, <2>6
    <3>. QED  BY <2>4, <2>5, <3>1
  <2>7. CASE a = n
    <3>1. a # 0
      BY <1>1, <2>7
    <3>. QED  BY <2>4, <2>5, <2>7, <3>1 DEF n
  <2>8. CASE a # 0 /\ a # n
    <3>1. a \in DOMAIN list /\ a + 1 \in DOMAIN list
      BY <1>1, <2>4, <2>8
    <3>. QED  BY <2>4, <2>5, <2>8, <3>1 DEF Reason
  <2>. QED  BY <2>6, <2>7, <2>8
<1>. QED  BY <1>3, <1>4, <1>5, <1>6, <1>7, <1>8, <1>9, <1>10, <1>11 DEF FirstWord

(* What stops parse_action_list. *)
LEMMA ParseListStops ==
  ASSUME NEW S, NEW list \in Seq(S), list # <<>>, WellBounded(list), NEW op, Stops(ParseActionList(list, op))
  PROVE  Reason(list)
<1>. DEFINE parts == Split(list, "SYM_COMMA")
            n     == Len(list)
<1>1. n \in Nat \ {0} /\ DOMAIN list = 1 .. n
  BY LenProperties
<1>2. list[1].type \notin Separator /\ list[n].type \notin Separator
  <2>1. Head(list) = list[1] /\ Last(list) = list[n]
    BY DEF Last
  <2>. QED  BY <2>1 DEF WellBounded, FrontDisallowed
<1>3. "SYM_COMMA" \in Separator
  BY DEF Separator
<1>4. PICK i \in DOMAIN parts : Stops(ParseActionToken(parts[i], op))
  <2>1. \A all : ~ Stops([type |-> "SEQUENCE", sequence |-> all])
    BY DEF Stops
  <2>2. 1 \in DOMAIN parts
    BY SplitSome
  <2>. QED  BY <2>1, <2>2, ParseListIs, Stopping
<1>. HIDE DEF n
<1>5. CASE parts[i] = <<>>
  <2>1. PICK a \in 0 .. n : /\ a = 0 \/ list[a].type = "SYM_COMMA"
                            /\ a = n \/ list[a + 1].type = "SYM_COMMA"
    BY <1>5, EmptyPart DEF n
  <2>2. a # 0 /\ a # n
    BY <1>1, <1>2, <1>3, <2>1
  <2>3. a \in DOMAIN list /\ a + 1 \in DOMAIN list
    BY <1>1, <2>1, <2>2
  <2>. QED  BY <1>3, <2>1, <2>2, <2>3 DEF Reason
<1>6. CASE parts[i] # <<>>
  <2>1. PICK a, b \in Cuts(list, "SYM_COMMA") :
          /\ a \in Nat /\ b \in Nat /\ a < b /\ b <= n + 1
          /\ parts[i] = SubSeq(list, a + 1, b - 1)
    BY SplitIs DEF n
  <2>. DEFINE part == parts[i]
              m == b - 1 - a
  <2>2. m \in Nat \ {0} /\ a + m + 1 = b
    <3>1. b = a + 1 => SubSeq(list, a + 1, b - 1) = <<>>
      BY <2>1
    <3>2. b # a + 1
      BY <1>6, <2>1, <3>1
    <3>. QED  BY <2>1, <3>2
  <2>3. part \in Seq(S) /\ Len(part) = m /\ \A j \in 1 .. m : part[j] = list[a + j] /\ a + j \in 1 .. n
    <3>1. a + 1 \in 1 .. n + 1 /\ b - 1 \in a + 1 .. n
      BY <1>1, <2>1, <2>2
    <3>2. SubSeq(list, a + 1, b - 1) \in Seq(S) /\ Len(SubSeq(list, a + 1, b - 1)) = (b - 1) - (a + 1) + 1
      BY <1>1, <3>1 DEF n
    <3>3. \A j \in 1 .. m : SubSeq(list, a + 1, b - 1)[j] = list[a + j] /\ a + j \in 1 .. n
      BY <1>1, <2>1, <3>1 DEF n
    <3>4. (b - 1) - (a + 1) + 1 = m
      BY <2>1
    <3>. QED  BY <2>1, <3>2, <3>3, <3>4
  <2>4. DOMAIN part = 1 .. m
    BY <2>3, LenProperties
  <2>5. part # <<>> /\ Stops(ParseActionToken(part, op))
    BY <1>4, <1>6
  <2>. HIDE DEF part, parts, m
  <2>6. Reason(part) \/ part[1].type \in Separator \/ part[Len(part)].type \in Separator
    BY <2>3, <2>5, ParseTokenStops
  <2>7. CASE Reason(part)
    <3>1. PICK j \in 1 .. m :
            \/ TooLarge(part[j])
            \/ /\ part[j].type \in Separator \cup DOMAIN KeyWord
               /\ j + 1 \in 1 .. m /\ part[j + 1].type \in Separator
      BY <2>4, <2>7 DEF Reason
    <3>2. a + j \in DOMAIN list /\ part[j] = list[a + j]
      BY <1>1, <2>3
    <3>3. j + 1 \in 1 .. m => (a + j) + 1 \in DOMAIN list /\ part[j + 1] = list[(a + j) + 1]
      <4>. SUFFICES ASSUME j + 1 \in 1 .. m
                    PROVE  (a + j) + 1 \in DOMAIN list /\ part[j + 1] = list[(a + j) + 1]
        OBVIOUS
      <4>1. a + (j + 1) = (a + j) + 1
        BY <2>1
      <4>2. part[j + 1] = list[a + (j + 1)] /\ a + (j + 1) \in 1 .. n
        BY <2>3
      <4>. QED  BY <1>1, <4>1, <4>2
    <3>. QED  BY <3>1, <3>2, <3>3 DEF Reason
  <2>8. CASE part[1].type \in Separator
    <3>1. 1 \in 1 .. m
      BY <2>2
    <3>2. part[1] = list[a + 1] /\ a + 1 \in 1 .. n
      BY <2>3, <3>1
    <3>3. a # 0
      <4>. SUFFICES ASSUME a = 0  PROVE FALSE
        OBVIOUS
      <4>1. a + 1 = 1
        OBVIOUS
      <4>. QED  BY <1>2, <2>8, <3>2, <4>1
    <3>4. list[a].type = "SYM_COMMA" /\ a \in DOMAIN list
      <4>1. a # n + 1 /\ a \in 1 .. n
        BY <1>1, <2>1, <3>2, <3>3
      <4>. QED  BY <1>1, <2>1, <3>3, <4>1 DEF Cuts, n
    <3>. QED  BY <1>1, <1>3, <2>8, <3>2, <3>4 DEF Reason
  <2>9. CASE part[Len(part)].type \in Separator
    <3>1. part[m] = list[a + m] /\ a + m \in 1 .. n
      <4>1. m \in 1 .. m
        BY <2>2
      <4>. QED  BY <2>3, <4>1
    <3>2. list[a + m].type \in Separator /\ a + m \in DOMAIN list
      BY <1>1, <2>3, <2>9, <3>1
    <3>3. b # n + 1
      <4>. SUFFICES ASSUME b = n + 1  PROVE FALSE
        OBVIOUS
      <4>1. a + m = n
        BY <1>1, <2>1, <2>2
      <4>. QED  BY <1>2, <3>2, <4>1
    <3>4. list[b].type = "SYM_COMMA" /\ b \in DOMAIN list
      <4>1. b # 0 /\ b \in 1 .. n
        BY <1>1, <2>1, <3>3
      <4>. QED  BY <1>1, <2>1, <3>3, <4>1 DEF Cuts, n
    <3>5. (a + m) + 1 = b
      BY <2>2
    <3>. QED  BY <1>3, <3>2, <3>4, <3>5 DEF Reason
  <2>. QED  BY <2>6, <2>7, <2>8, <2>9
<1>. QED  BY <1>5, <1>6

-----------------------------------------------------------------------------
(* A list of the tokens of a text that parse_action has let through.       *)
Part(list, text) ==
  \E i \in 1 .. Len(text) : \E j \in i .. Len(text) :
    list = SubSeq(text, i, j) /\ WellBounded(list)

RowRead(row, text) ==
  /\ row = [key |-> row.key, ops |-> row.ops]
  /\ \A op \in DOMAIN row.ops : op \in Operation /\ Part(row.ops[op], text)

RowsRead(rows, text) ==
  /\ \E R : rows \in Seq(R)
  /\ \A r \in 1 .. Len(rows) : RowRead(rows[r], text)

LayerRead(l, text) ==
  \A b \in DOMAIN l.bindings :
    /\ b[2] \in Operation
    /\ \E list : /\ Part(list, text) /\ l.bindings[b] = ParseActionList(list, b[2])
                 /\ Succeeds(l.bindings[b])

(* What stops an action stands in the text.                                *)
LEMMA PartIs ==
  ASSUME NEW S, NEW text \in Seq(S), NEW list, Part(list, text)
  PROVE  /\ list \in Seq(S) /\ list # <<>> /\ WellBounded(list)
         /\ Reason(list) => Reason(text)
<1>0. PICK i \in 1 .. Len(text) : \E j \in i .. Len(text) : list = SubSeq(text, i, j) /\ WellBounded(list)
  BY DEF Part
<1>1. PICK j \in i .. Len(text) : list = SubSeq(text, i, j) /\ WellBounded(list)
  BY <1>0
<1>2. Len(text) \in Nat /\ DOMAIN text = 1 .. Len(text)
  BY LenProperties
<1>3. /\ list \in Seq(S) /\ Len(list) = j - i + 1
      /\ \A k \in 1 .. j - i + 1 : list[k] = text[i + k - 1]
  BY <1>1, <1>2
<1>4. DOMAIN list = 1 .. j - i + 1 /\ j - i + 1 > 0
  BY <1>1, <1>2, <1>3, LenProperties
<1>5. list # <<>>
  BY <1>3, <1>4
<1>6. ASSUME Reason(list)  PROVE Reason(text)
  <2>1. PICK k \in 1 .. j - i + 1 :
          \/ TooLarge(list[k])
          \/ /\ list[k].type \in Separator \cup DOMAIN KeyWord
             /\ k + 1 \in 1 .. j - i + 1 /\ list[k + 1].type \in Separator
    BY <1>4, <1>6 DEF Reason
  <2>2. i + k - 1 \in DOMAIN text /\ list[k] = text[i + k - 1]
    BY <1>1, <1>2, <1>3
  <2>3. ASSUME k + 1 \in 1 .. j - i + 1
        PROVE  (i + k - 1) + 1 \in DOMAIN text /\ list[k + 1] = text[(i + k - 1) + 1]
    <3>1. i + (k + 1) - 1 = (i + k - 1) + 1
      OBVIOUS
    <3>2. list[k + 1] = text[i + (k + 1) - 1]
      BY <1>3, <2>3
    <3>3. (i + k - 1) + 1 \in DOMAIN text
      BY <1>1, <1>2, <2>3
    <3>. QED  BY <3>1, <3>2, <3>3
  <2>. QED  BY <2>1, <2>2, <2>3 DEF Reason
<1>. QED  BY <1>1, <1>3, <1>5, <1>6

(* An action that parse_action lets through.                               *)
LEMMA PartAt ==
  ASSUME SomeTokens, NEW i \in 1 .. Len(tokens), WellBounded(ActionAt(i))
  PROVE  Part(ActionAt(i), tokens)
<1>1. ActionEnd(i) \in i .. Len(tokens)
  BY ActionEndIs
<1>. QED  BY <1>1 DEF Part, ActionAt

(* Before anything is read.                                                *)
LEMMA RowsReadNone == ASSUME NEW text  PROVE RowsRead(<<>>, text) /\ LayerRead(EmptyLayer, text)
<1>1. <<>> \in Seq({}) /\ 1 .. Len(<<>>) = {}
  OBVIOUS
<1>2. DOMAIN EmptyLayer.bindings = {}
  BY DEF EmptyLayer
<1>. QED  BY <1>1, <1>2 DEF RowsRead, LayerRead

(* A row more.                                                             *)
LEMMA RowsReadHeader ==
  ASSUME NEW text, NEW rows, RowsRead(rows, text), NEW key
  PROVE  RowsRead(Append(rows, [key |-> key, ops |-> <<>>]), text)
<1>. DEFINE row   == [key |-> key, ops |-> <<>>]
            rows2 == Append(rows, row)
            n     == Len(rows)
<1>1. PICK R : rows \in Seq(R)
  BY DEF RowsRead
<1>2. RowRead(row, text)
  <2>1. DOMAIN row.ops = {}
    OBVIOUS
  <2>. QED  BY <2>1 DEF RowRead
<1>. HIDE DEF row
<1>3. /\ rows2 \in Seq(R \cup {row}) /\ Len(rows2) = n + 1 /\ n \in Nat
      /\ rows2[n + 1] = row /\ \A r \in 1 .. n : rows2[r] = rows[r]
  <2>1. rows \in Seq(R \cup {row})
    BY <1>1
  <2>. QED  BY <2>1
<1>. HIDE DEF rows2
<1>4. ASSUME NEW r \in 1 .. n + 1  PROVE RowRead(rows2[r], text)
  <2>1. r \in 1 .. n \/ r = n + 1
    BY <1>3
  <2>2. \A s \in 1 .. n : RowRead(rows[s], text)
    BY DEF RowsRead
  <2>. QED  BY <1>2, <1>3, <2>1, <2>2
<1>5. RowsRead(rows2, text)
  BY <1>3, <1>4 DEF RowsRead
<1>. QED  BY <1>5 DEF rows2, row

(* An operation more in the last row.                                      *)
LEMMA RowsReadOperation ==
  ASSUME NEW text, NEW rows, RowsRead(rows, text), NEW op \in Operation, NEW list, Part(list, text)
  PROVE  RowsRead([rows EXCEPT ![Len(rows)].ops = With(@, op, list)], text)
<1>. DEFINE n     == Len(rows)
            key   == rows[n].key
            ops   == rows[n].ops
            rows2 == [rows EXCEPT ![n].ops = With(@, op, list)]
            new   == [key |-> key, ops |-> With(ops, op, list)]
<1>1. PICK R : rows \in Seq(R)
  BY DEF RowsRead
<1>2. n \in Nat /\ DOMAIN rows = 1 .. n
  BY <1>1, LenProperties
<1>3. CASE n = 0
  <2>1. rows2 \in Seq({}) /\ Len(rows2) = 0
    <3>1. rows2 = [rows EXCEPT ![n] = [rows[n] EXCEPT !.ops = With(rows[n].ops, op, list)]]
      BY Zenon
    <3>2. \A x : [rows EXCEPT ![n] = x] \in [1 .. 0 -> {}]
      <4>1. DOMAIN rows = {} /\ 1 .. 0 = {}
        BY <1>2, <1>3
      <4>. HIDE DEF n
      <4>2. \A x : [rows EXCEPT ![n] = x] = [r \in {} |-> rows[r]]
        BY <4>1
      <4>3. [r \in {} |-> rows[r]] \in [{} -> {}]
        OBVIOUS
      <4>. QED  BY Zenon, <4>1, <4>2, <4>3
    <3>3. rows2 \in [1 .. 0 -> {}]
      BY Zenon, <3>1, <3>2
    <3>. HIDE DEF rows2
    <3>. QED  BY <3>3, SeqDef
  <2>2. RowsRead(rows2, text)
    <3>. HIDE DEF rows2
    <3>. QED  BY <2>1 DEF RowsRead
  <2>. QED  BY <2>2
<1>4. CASE n # 0
  <2>1. n \in 1 .. n /\ RowRead(rows[n], text)
    BY <1>2, <1>4 DEF RowsRead
  <2>. HIDE DEF key, ops
  <2>2. rows[n] = [key |-> key, ops |-> ops]
    BY <2>1 DEF RowRead, key, ops
  <2>3. \A o \in DOMAIN ops : o \in Operation /\ Part(ops[o], text)
    BY <2>1 DEF RowRead, ops
  <2>4. RowRead(new, text)
    <3>. DEFINE both == With(ops, op, list)
    <3>1. DOMAIN both = DOMAIN ops \cup {op} /\ \A o \in DOMAIN both : both[o] = IF o = op THEN list ELSE ops[o]
      BY DEF With
    <3>. HIDE DEF both
    <3>2. \A o \in DOMAIN both : o \in Operation /\ Part(both[o], text)
      BY <2>3, <3>1
    <3>3. new = [key |-> key, ops |-> both]
      BY DEF both
    <3>. HIDE DEF new
    <3>. QED  BY <3>2, <3>3 DEF RowRead
  <2>5. /\ \E S : rows2 \in Seq(S)
        /\ Len(rows2) = n
        /\ \A r \in 1 .. n - 1 : rows2[r] = rows[r]
        /\ rows2[n] = new
    <3>1. Len(rows) > 0
      BY <1>2, <1>4
    <3>. QED  BY <1>1, <2>2, <3>1, RowExtended
  <2>. HIDE DEF rows2, new, n
  <2>6. ASSUME NEW r \in 1 .. n  PROVE RowRead(rows2[r], text)
    <3>1. r = n \/ r \in 1 .. n - 1
      BY <1>2
    <3>2. RowRead(rows[r], text)
      BY DEF RowsRead, n
    <3>. QED  BY <2>4, <2>5, <3>1, <3>2
  <2>7. RowsRead(rows2, text)
    BY <2>5, <2>6 DEF RowsRead
  <2>. QED  BY <2>7 DEF rows2, n
<1>. QED  BY <1>3, <1>4

(* An operation less in the first row.                                     *)
LEMMA RowsReadLess ==
  ASSUME NEW text, NEW rows, RowsRead(rows, text), rows # <<>>, NEW op
  PROVE  RowsRead(Less(rows, op), text)
<1>. DEFINE n     == Len(rows)
            rows2 == Less(rows, op)
<1>1. PICK R : rows \in Seq(R)
  BY DEF RowsRead
<1>2. n \in Nat \ {0} /\ 1 \in 1 .. n /\ DOMAIN rows = 1 .. n
  BY <1>1, LenProperties
<1>3. \A r \in 1 .. n : RowRead(rows[r], text)
  BY DEF RowsRead
<1>4. CASE DOMAIN rows[1].ops = {op}
  <2>1. rows2 \in Seq(R) /\ Len(rows2) = n - 1 /\ \A r \in 1 .. n - 1 : rows2[r] = rows[r + 1]
    BY <1>1, <1>2, <1>4 DEF Less
  <2>. HIDE DEF rows2, n
  <2>2. ASSUME NEW r \in 1 .. n - 1  PROVE RowRead(rows2[r], text)
    <3>1. r + 1 \in 1 .. n
      BY <1>2
    <3>. QED  BY <1>3, <2>1, <3>1
  <2>. QED  BY <2>1, <2>2 DEF RowsRead, rows2
<1>5. CASE DOMAIN rows[1].ops # {op}
  <2>. DEFINE key   == rows[1].key
              ops   == rows[1].ops
              fewer == Restrict(ops, DOMAIN ops \ {op})
              new   == [key |-> key, ops |-> fewer]
              rows3 == [rows EXCEPT ![1] = new]
  <2>1. /\ rows[1] = [key |-> key, ops |-> ops]
        /\ \A o \in DOMAIN ops : o \in Operation /\ Part(ops[o], text)
    BY <1>2, <1>3 DEF RowRead
  <2>2. rows2 = rows3
    <3>1. rows2 = [rows EXCEPT ![1] = [rows[1] EXCEPT !.ops = fewer]]
      BY Zenon, <1>5 DEF Less
    <3>2. [rows[1] EXCEPT !.ops = fewer] = new
      <4>. HIDE DEF fewer, key, ops
      <4>. QED  BY <2>1
    <3>. QED  BY <3>1, <3>2
  <2>3. DOMAIN fewer \subseteq DOMAIN ops /\ \A o \in DOMAIN fewer : fewer[o] = ops[o]
    BY DEF Restrict
  <2>. HIDE DEF fewer, rows2, n
  <2>4. RowRead(new, text)
    <3>. HIDE DEF ops, key
    <3>. QED  BY <2>1, <2>3 DEF RowRead
  <2>. HIDE DEF new
  <2>5. /\ rows3 \in Seq(R \cup {new}) /\ Len(rows3) = n
        /\ \A r \in 1 .. n : rows3[r] = IF r = 1 THEN new ELSE rows[r]
    <3>1. rows \in Seq(R \cup {new}) /\ n = Len(rows)
      BY <1>1 DEF n
    <3>. QED  BY <1>2, <3>1, ExceptSeq
  <2>. HIDE DEF rows3
  <2>6. ASSUME NEW r \in 1 .. n  PROVE RowRead(rows3[r], text)
    BY <1>3, <2>4, <2>5
  <2>. QED  BY <2>2, <2>5, <2>6 DEF RowsRead, rows2
<1>. QED  BY <1>4, <1>5

(* A binding more, if its key and operation had none.                      *)
LEMMA LayerReadNext ==
  ASSUME NEW text, NEW l, LayerRead(l, text), NEW key, NEW op \in Operation, NEW list, Part(list, text),
         Succeeds(ParseActionList(list, op))
  PROVE  LayerRead(Bind(l, key, ParseActionList(list, op), op), text)
<1>. DEFINE action == ParseActionList(list, op)
            b  == <<key, op>>
            l2 == Bind(l, key, action, op)
<1>1. b[2] = op
  OBVIOUS
<1>. HIDE DEF action, b
<1>2. l2.bindings = IF b \in DOMAIN l.bindings THEN l.bindings ELSE With(l.bindings, b, action)
  BY DEF Bind, Bound, b
<1>. HIDE DEF l2
<1>3. CASE b \in DOMAIN l.bindings
  BY <1>2, <1>3 DEF LayerRead, l2, action
<1>4. CASE b \notin DOMAIN l.bindings
  <2>. DEFINE new == With(l.bindings, b, action)
  <2>1. DOMAIN new = DOMAIN l.bindings \cup {b} /\ \A c \in DOMAIN new : new[c] = IF c = b THEN action ELSE l.bindings[c]
    BY DEF With
  <2>. HIDE DEF new
  <2>2. l2.bindings = new
    BY <1>2, <1>4 DEF new
  <2>3. ASSUME NEW c \in DOMAIN new
        PROVE  /\ c[2] \in Operation
               /\ \E x : /\ Part(x, text) /\ new[c] = ParseActionList(x, c[2])
                         /\ Succeeds(new[c])
    <3>1. CASE c = b
      BY <1>1, <2>1, <3>1 DEF action
    <3>2. CASE c # b
      BY <2>1, <3>2 DEF LayerRead
    <3>. QED  BY <3>1, <3>2
  <2>. QED  BY <2>2, <2>3 DEF LayerRead, l2, action
<1>. QED  BY <1>3, <1>4

-----------------------------------------------------------------------------
(* The text ends behind `mouse move', `mouse scroll' or `mouse click'. *)
MouseCut ==
  \E v \in DOMAIN MouseWord : Lowered(Len(source) - 2, Len(source) + 1) = <<"mouse", " ", v>>

(* Three pieces that stand behind each other.                              *)
LEMMA Joined ==
  ASSUME NEW i \in Nat, NEW a, NEW blank, NEW v, blank \notin Letters,
         Lowered(i, i + 1)[1] = a, Char(i + 1) = blank, Lowered(i + 2, i + 3) = <<v>>
  PROVE  Lowered(i, i + 3) = <<a, blank, v>>
<1>. DEFINE piece(j) == IF Char(j) \in Letters THEN Lower[Char(j)] ELSE Char(j)
<1>1. \A x, y : Lowered(x, y) = [k \in 1 .. y - x |-> piece(x + k - 1)]
  BY DEF Lowered
<1>0. Lowered(i, i + 3) = [k \in 1 .. i + 3 - i |-> piece(i + k - 1)]
  BY DEF Lowered
<1>2. i + 1 - i = 1 /\ i + 3 - (i + 2) = 1 /\ i + 3 - i = 3
  OBVIOUS
<1>3. piece(i + 1) = blank
  OBVIOUS
<1>. HIDE DEF piece
<1>4. piece(i) = a
  BY <1>1, <1>2
<1>5. piece(i + 2) = v
  <2>1. Lowered(i + 2, i + 3)[1] = piece(i + 2 + 1 - 1)
    BY <1>1, <1>2
  <2>2. i + 2 + 1 - 1 = i + 2
    OBVIOUS
  <2>. QED  BY <2>1, <2>2
<1>6. Lowered(i, i + 3) = [k \in 1 .. 3 |-> piece(i + k - 1)]
  BY Zenon, <1>0, <1>2
<1>7. \A k \in 1 .. 3 : piece(i + k - 1) = <<a, blank, v>>[k]
  <2>1. i + 1 - 1 = i /\ i + 2 - 1 = i + 1 /\ i + 3 - 1 = i + 2
    OBVIOUS
  <2>2. piece(i + 1 - 1) = a /\ piece(i + 2 - 1) = blank /\ piece(i + 3 - 1) = v
    BY <1>3, <1>4, <1>5, <2>1
  <2>3. \A k \in 1 .. 3 : k = 1 \/ k = 2 \/ k = 3
    OBVIOUS
  <2>. QED  BY <2>2, <2>3
<1>. QED  BY <1>6, <1>7

(* tokenize throws where the text is cut behind the verb of a mouse. *)
LEMMA MouseThrowsCut == ASSUME TokenInv, MouseThrows  PROVE MouseCut'
<1>1. PICK v \in DOMAIN MouseWord : AtVerb(v) /\ VerbEnd > Len(source) /\ Return("exception")
  BY DEF MouseThrows
<1>2. /\ AtWord /\ Len(Word) = 1 /\ Word[1] = "mouse" /\ Char(WordEnd) = " "
      /\ Lowered(WordEnd + 1, VerbEnd) = <<v>>
  <2>1. Word[1] \in {"mouse"}
    BY Zenon, <1>1 DEF AtVerb, Is
  <2>. QED  BY Zenon, <1>1, <2>1 DEF AtVerb, Is
<1>3. Char(WordEnd) # "NUL" /\ Char(WordEnd) \notin Letters
  <2>1. " " \notin Letters
    BY Zenon, PiecesAssumption DEF Blank
  <2>2. " " # "NUL"
    BY Zenon
  <2>. QED  BY Zenon, <1>2, <2>1, <2>2
<1>0. AtWord /\ Len(Word) = 1 /\ Len(Lowered(WordEnd + 1, VerbEnd)) = 1
  <2>1. Len(<<v>>) = 1
    OBVIOUS
  <2>. QED  BY Zenon, <1>2, <2>1
<1>4. /\ TextOK /\ Len(source) \in Nat /\ place \in 1 .. Len(source)
  BY <1>0, TextDomain DEF AtWord, TokenInv, PlacesOK, Looking
<1>5. WordEnd \in place + 1 .. Len(source) + 1
  BY <1>0, WordIs
<1>6. VerbEnd \in WordEnd + 1 .. Len(source) + 1
  BY <1>0, <1>3, BehindWord, NoNul DEF VerbEnd
<1>. DEFINE p == place
            w == WordEnd
            e == VerbEnd
            n == Len(source)
<1>7. /\ Len(Lowered(p, w)) = 1 /\ Len(Lowered(w + 1, e)) = 1
      /\ TextOK /\ n \in Nat /\ p \in 1 .. n /\ w \in p + 1 .. n + 1 /\ e \in w + 1 .. n + 1 /\ e > n
      /\ n = Len(source)
  BY <1>0, <1>1, <1>4, <1>5, <1>6 DEF Word
<1>. HIDE DEF p, w, e, n
<1>8. w = p + 1 /\ e = p + 3 /\ n = p + 2
  <2>1. /\ p \in 1 .. n + 1 /\ w \in Nat /\ p <= w
        /\ w + 1 \in 1 .. n + 1 /\ e \in Nat /\ w + 1 <= e
    BY <1>7
  <2>2. Len(Lowered(p, w)) = w - p /\ Len(Lowered(w + 1, e)) = e - (w + 1)
    BY <1>7, <2>1, LoweredIs
  <2>3. w - p = 1 /\ e - (w + 1) = 1
    BY Zenon, <1>7, <2>2
  <2>4. \A a, b, c, d \in Int : b - a = 1 /\ c - (b + 1) = 1 /\ d < c /\ c <= d + 1 =>
          b = a + 1 /\ c = a + 3 /\ d = a + 2
    OBVIOUS
  <2>5. p \in Int /\ w \in Int /\ e \in Int /\ n \in Int /\ n < e /\ e <= n + 1
    BY <1>7
  <2>. QED  BY Zenon, <2>3, <2>4, <2>5
<1>9. Lowered(p, p + 1)[1] = "mouse" /\ Lowered(p + 2, p + 3) = <<v>>
  <2>1. w + 1 = p + 2 /\ w = p + 1
    BY <1>7, <1>8
  <2>. QED  BY Zenon, <1>2, <1>8, <2>1 DEF Word, p, w, e
<1>10. PICK blank : blank = " "
  OBVIOUS
<1>11. Char(p + 1) = blank /\ blank \notin Letters
  BY Zenon, <1>2, <1>3, <1>8, <1>10 DEF w
<1>12. Lowered(p, p + 3) = <<"mouse", blank, v>>
  BY <1>7, <1>9, <1>11, Joined
<1>13. Len(source) - 2 = p /\ Len(source) + 1 = p + 3
  BY <1>7, <1>8
<1>14. Lowered(Len(source) - 2, Len(source) + 1) = <<"mouse", " ", v>>
  BY Zenon, <1>10, <1>12, <1>13
<1>15. source' = source
  BY <1>1 DEF Return
<1>. QED  BY Zenon, <1>14, <1>15 DEF MouseCut, Lowered, Char

(* The cut is a matter of the text alone.                                  *)
LEMMA MouseCutSame == ASSUME source' = source  PROVE MouseCut' <=> MouseCut
BY Zenon DEF MouseCut, Lowered, Char

(* Nothing else in tokenize throws.                                        *)
LEMMA TokenizeStepCut ==
  ASSUME TokenInv, TokenizeStep, tokenized' = "exception"
  PROVE  MouseCut'
<1>1. tokenized # "exception"
  BY DEF TokenizeStep, SkipBlank, NewLine, Comment, Sign, String, HexLiteral, Number, Unexpected,
         RowOrKey, OnTrigger, MouseAction, MouseThrows, SingleWord, LongPhrase, Identifier, EndOfText,
         AtPlace, AtTrigger, AtMouse, AtVerb, Is, Continues, NoKeyword, AtWord, Looking
<1>2. ASSUME NEW j, NEW type, Token(j, type)  PROVE tokenized' = tokenized
  BY <1>2 DEF Token
<1>3. ASSUME NEW what, Return(what)  PROVE tokenized' = what
  BY <1>3 DEF Return
<1>4. ~ (SkipBlank \/ NewLine \/ Comment)
  BY <1>1 DEF SkipBlank, NewLine, Comment
<1>5. ~ (Sign \/ Number \/ RowOrKey \/ OnTrigger \/ MouseAction \/ SingleWord \/ LongPhrase \/ Identifier)
  BY <1>1, <1>2 DEF Sign, Number, RowOrKey, OnTrigger, MouseAction, SingleWord, LongPhrase, Identifier
<1>6. ~ (Unexpected \/ EndOfText)
  BY <1>3 DEF Unexpected, EndOfText
<1>7. ~ String /\ ~ HexLiteral
  <2>1. ASSUME String  PROVE FALSE
    <3>1. (\E j : Token(j, "STRING_LIT")) \/ Return("message")
      BY Zenon, <2>1 DEF String
    <3>. QED  BY <1>1, <1>2, <1>3, <3>1
  <2>2. ASSUME HexLiteral  PROVE FALSE
    <3>1. (\E j : Token(j, "HEX_LIT")) \/ Return("message")
      BY Zenon, <2>2 DEF HexLiteral
    <3>. QED  BY <1>1, <1>2, <1>3, <3>1
  <2>. QED  BY <2>1, <2>2
<1>8. MouseThrows
  BY <1>4, <1>5, <1>6, <1>7 DEF TokenizeStep
<1>. QED  BY <1>8, MouseThrowsCut

-----------------------------------------------------------------------------
(* Every row is made of tokens that parse_action has let through, and      *)
(* every binding of what parse_action_list has made of them.               *)
SoundInv ==
  /\ error \in BOOLEAN
  /\ index \in 1 .. Len(tokens) + 1
  /\ tokenized = "exception" => MouseCut
  /\ RowsRead(bindings, tokens)
  /\ LayerRead(layer, tokens)
  /\ pc = "halted" => MouseCut \/ Reason(tokens)

LEMMA SoundInit == Init => SoundInv
<1>. SUFFICES ASSUME Init  PROVE SoundInv
  OBVIOUS
<1>1. /\ error = FALSE /\ index = 1 /\ tokens = <<>> /\ tokenized = "nothing" /\ bindings = <<>>
      /\ layer = EmptyLayer /\ pc = "tokenize"
  BY DEF Init, TokenizerInit
<1>2. 1 \in 1 .. Len(<<>>) + 1
  OBVIOUS
<1>. QED  BY <1>1, <1>2, RowsReadNone DEF SoundInv

(* A step that leaves the text and the tokens alone. *)
LEMMA SoundStep ==
  ASSUME SoundInv, UNCHANGED tokenizerVars, error' \in BOOLEAN, index' \in 1 .. Len(tokens) + 1,
         RowsRead(bindings', tokens), LayerRead(layer', tokens),
         pc' = "halted" => MouseCut \/ Reason(tokens)
  PROVE  SoundInv'
<1>1. source' = source /\ tokens' = tokens /\ tokenized' = tokenized
  BY DEF tokenizerVars
<1>2. MouseCut' <=> MouseCut
  BY <1>1, MouseCutSame
<1>. QED  BY <1>1, <1>2 DEF SoundInv

(* The action at i becomes an operation of the last row. *)
LEMMA SoundOperate ==
  ASSUME TokenInv, SoundInv, NEW op \in Operation, NEW i \in 1 .. Len(tokens),
         HasAction(i), Operate(op, i), pc' # "halted"
  PROVE  SoundInv'
<1>1. SomeTokens /\ Len(tokens) \in Nat
  BY TokensSome, TokensAre
<1>2. WellBounded(ActionAt(i))
  BY DEF HasAction
<1>3. Part(ActionAt(i), tokens)
  BY <1>1, <1>2, PartAt
<1>4. PICK rows, list : rows = bindings /\ list = ActionAt(i)
  OBVIOUS
<1>5. RowsRead([rows EXCEPT ![Len(rows)].ops = With(@, op, list)], tokens)
  BY <1>3, <1>4, RowsReadOperation DEF SoundInv
<1>6. bindings' = [rows EXCEPT ![Len(rows)].ops = With(@, op, list)]
  BY Zenon, <1>4 DEF Operate
<1>7. index' \in 1 .. Len(tokens) + 1
  <2>1. ActionEnd(i) \in i .. Len(tokens) /\ index' = ActionEnd(i) + 1
    BY <1>1, ActionEndIs DEF Operate
  <2>. QED  BY <1>1, <2>1
<1>8. RowsRead(bindings', tokens)
  BY Zenon, <1>5, <1>6
<1>9. UNCHANGED <<tokenizerVars, error, layer>>
  BY DEF Operate
<1>. QED  BY <1>7, <1>8, <1>9, SoundStep DEF SoundInv

LEMMA SoundFail == ASSUME SoundInv, Fail  PROVE SoundInv'
<1>1. RowsRead(bindings', tokens)
  BY RowsReadNone DEF Fail
<1>2. UNCHANGED tokenizerVars /\ index' = index /\ layer' = layer /\ error' = TRUE /\ pc' = "done"
  BY DEF Fail
<1>. QED  BY <1>1, <1>2, SoundStep DEF SoundInv

LEMMA SoundTokenize == ASSUME ParserInv, SoundInv, Tokenize  PROVE SoundInv'
<1>1. /\ index' = 1 /\ bindings' = <<>> /\ layer' = EmptyLayer /\ pc' = "tokenize" /\ error' = error
  BY DEF ParserInv, Tokenize, parserVars
<1>2. TokenInv /\ TokenInv' /\ TokenizeStep
  BY TokenizeStepInv DEF ParserInv, Tokenize
<1>3. index' \in 1 .. Len(tokens') + 1
  <2>1. Len(tokens') \in Nat
    BY <1>2 DEF TokenInv
  <2>. QED  BY <1>1, <2>1
<1>4. tokenized' = "exception" => MouseCut'
  BY <1>2, TokenizeStepCut
<1>5. RowsRead(bindings', tokens') /\ LayerRead(layer', tokens')
  BY <1>1, RowsReadNone
<1>. QED  BY <1>1, <1>3, <1>4, <1>5 DEF SoundInv

LEMMA SoundTopStatement == ASSUME TokenInv, SoundInv, TopStatement  PROVE SoundInv'
<1>1. Len(tokens) \in Nat
  BY DEF TokenInv
<1>2. index' \in 1 .. Len(tokens) + 1
  BY <1>1 DEF TopStatement, TopAt, SoundInv
<1>3. UNCHANGED <<tokenizerVars, bindings, error, layer>> /\ pc' # "halted"
  BY DEF TopStatement
<1>. QED  BY <1>2, <1>3, SoundStep DEF SoundInv

LEMMA SoundRowHeader == ASSUME TokenInv, SoundInv, RowHeader  PROVE SoundInv'
<1>1. Len(tokens) \in Nat
  BY DEF TokenInv
<1>2. index' \in 1 .. Len(tokens) + 1
  BY <1>1 DEF RowHeader, HeaderAt, At, SoundInv
<1>3. UNCHANGED <<tokenizerVars, error, layer>> /\ pc' # "halted"
  BY DEF RowHeader
<1>4. PICK rows, key : rows = bindings /\ key = RowKey(tokens[index].val, tokens[index + 2].val)
  OBVIOUS
<1>5. bindings' = Append(rows, [key |-> key, ops |-> <<>>])
  BY Zenon, <1>4 DEF RowHeader
<1>6. RowsRead(Append(rows, [key |-> key, ops |-> <<>>]), tokens)
  BY <1>4, RowsReadHeader DEF SoundInv
<1>7. RowsRead(bindings', tokens)
  BY Zenon, <1>5, <1>6
<1>. QED  BY <1>2, <1>3, <1>7, SoundStep DEF SoundInv

LEMMA SoundOnOperation == ASSUME TokenInv, SoundInv, OnOperation  PROVE SoundInv'
<1>1. CASE Fail
  BY <1>1, SoundFail
<1>2. CASE ~ Fail
  <2>1. /\ OnXAt(index) /\ HasAction(index + 2) /\ pc' = "more"
        /\ Operate(OnX[tokens[index].type], index + 2)
    BY <1>2 DEF OnOperation
  <2>2. OnX[tokens[index].type] \in Operation
    <3>1. \A t \in DOMAIN OnX : OnX[t] \in Operation
      BY DEF OnX, Operation
    <3>. QED  BY <2>1, <3>1 DEF OnXAt
  <2>3. index + 2 \in 1 .. Len(tokens)
    BY <2>1 DEF HasAction, SoundInv
  <2>. QED  BY <2>1, <2>2, <2>3, SoundOperate
<1>. QED  BY <1>1, <1>2

LEMMA SoundInline == ASSUME TokenInv, SoundInv, Inline  PROVE SoundInv'
<1>1. CASE Fail
  BY <1>1, SoundFail
<1>2. CASE ~ Fail
  <2>1. HasAction(index) /\ pc' = "statement" /\ Operate("PRESS", index)
    BY <1>2 DEF Inline
  <2>2. "PRESS" \in Operation
    BY DEF Operation
  <2>3. index \in 1 .. Len(tokens)
    BY <2>1 DEF HasAction, SoundInv
  <2>. QED  BY <2>1, <2>2, <2>3, SoundOperate
<1>. QED  BY <1>1, <1>2

(* What is bound next comes from a part of the text. *)
LEMMA NextIs ==
  ASSUME TokenInv, SoundInv, NEW op, NextOperation(op)
  PROVE  op \in Operation /\ Part(bindings[1].ops[op], tokens)
<1>1. /\ \E R : bindings \in Seq(R)
      /\ \A r \in 1 .. Len(bindings) : RowRead(bindings[r], tokens)
  BY DEF SoundInv, RowsRead
<1>2. bindings # <<>> /\ op \in DOMAIN bindings[1].ops
  BY DEF NextOperation
<1>3. 1 \in 1 .. Len(bindings)
  BY <1>1, <1>2
<1>. QED  BY <1>1, <1>2, <1>3 DEF RowRead

LEMMA SoundBindOperation == ASSUME TokenInv, SoundInv, BindOperation  PROVE SoundInv'
<1>1. PICK op \in Operation :
        /\ NextOperation(op) /\ Succeeds(ParseNext(op))
        /\ layer' = Bind(layer, bindings[1].key, ParseNext(op), op)
        /\ bindings' = Without(op)
        /\ UNCHANGED <<tokenizerVars, index, pc, error>>
  BY Zenon DEF BindOperation
<1>2. PICK rows, l, key, list :
        rows = bindings /\ l = layer /\ key = bindings[1].key /\ list = bindings[1].ops[op]
  OBVIOUS
<1>3. Part(list, tokens) /\ ParseNext(op) = ParseActionList(list, op) /\ rows # <<>> /\ pc = "bind"
  BY <1>1, <1>2, NextIs DEF ParseNext, NextOperation
<1>4. RowsRead(Less(rows, op), tokens)
  BY <1>2, <1>3, RowsReadLess DEF SoundInv
<1>5. LayerRead(Bind(l, key, ParseActionList(list, op), op), tokens)
  BY <1>1, <1>2, <1>3, LayerReadNext DEF SoundInv
<1>6. bindings' = Less(rows, op)
  BY Zenon, <1>1, <1>2 DEF Without, Less
<1>7. layer' = Bind(l, key, ParseActionList(list, op), op)
  BY Zenon, <1>1, <1>2, <1>3
<1>8. RowsRead(bindings', tokens) /\ LayerRead(layer', tokens)
  BY Zenon, <1>4, <1>5, <1>6, <1>7
<1>9. index' = index /\ pc' # "halted" /\ error' = error /\ UNCHANGED tokenizerVars
  BY <1>1, <1>3
<1>. QED  BY <1>8, <1>9, SoundStep DEF SoundInv

LEMMA SoundHalt == ASSUME TokenInv, SoundInv, Halt  PROVE SoundInv'
<1>1. MouseCut \/ Reason(tokens)
  <2>1. CASE tokenized = "exception"
    BY <2>1 DEF SoundInv
  <2>2. CASE tokenized # "exception"
    <3>1. PICK op \in Operation : NextOperation(op) /\ Stops(ParseNext(op))
      BY <2>2 DEF Halt, Stops
    <3>2. PICK list : list = bindings[1].ops[op]
      OBVIOUS
    <3>3. Part(list, tokens) /\ Stops(ParseActionList(list, op))
      BY <3>1, <3>2, NextIs DEF ParseNext
    <3>4. tokens \in Seq(SpelledToken)
      BY DEF TokenInv
    <3>5. list \in Seq(SpelledToken) /\ list # <<>> /\ WellBounded(list) /\ (Reason(list) => Reason(tokens))
      BY <3>3, <3>4, PartIs
    <3>. QED  BY <3>3, <3>5, ParseListStops
  <2>. QED  BY <2>1, <2>2
<1>2. UNCHANGED <<tokenizerVars, index, bindings, error, layer>>
  BY DEF Halt
<1>. QED  BY <1>1, <1>2, SoundStep DEF SoundInv

LEMMA SoundNext == ASSUME ParserInv, SoundInv, [Next]_vars  PROVE SoundInv'
<1>1. TokenInv
  BY DEF ParserInv
<1>2. CASE TokenizeFails \/ BadStatement \/ BindFails
  BY <1>2, SoundFail DEF TokenizeFails, BadStatement, BindFails
<1>3. CASE Tokenized \/ Parsed \/ AllBound
  <2>1. UNCHANGED <<tokenizerVars, index, bindings, error, layer>> /\ pc' # "halted"
    BY <1>3 DEF Tokenized, Parsed, AllBound
  <2>. QED  BY <2>1, SoundStep DEF SoundInv
<1>4. CASE UNCHANGED vars
  BY <1>4, SoundStep DEF SoundInv, vars, parserVars
<1>. QED  BY <1>1, <1>2, <1>3, <1>4, SoundTokenize, SoundTopStatement, SoundRowHeader,
             SoundOnOperation, SoundInline, SoundBindOperation, SoundHalt
          DEF Next, Step, Stopped

(* parse keeps its place in the tokens, and what it hands on is made of    *)
(* actions that parse_action has let through.                              *)
THEOREM SoundCorrect == Spec => [](ParserInv /\ SoundInv)
<1>1. Init => ParserInv /\ SoundInv
  BY ParserInit, SoundInit
<1>2. ParserInv /\ SoundInv /\ [Next]_vars => (ParserInv /\ SoundInv)'
  BY ParserNext, SoundNext
<1>. QED  BY <1>1, <1>2, PTL DEF Spec

(* Whatever the keymap, only a number that std::stoul or std::stol cannot  *)
(* hold, a separator with nothing before it inside an action, or a text    *)
(* that ends behind `mouse move', `mouse scroll' or `mouse click' stops    *)
(* the board (tokenize, parse_action, parse_action_list).                  *)
THEOREM HaltsCorrect == Spec => []HaltsForAReason
<1>1. ParserInv /\ SoundInv => HaltsForAReason
  <2>. SUFFICES ASSUME ParserInv, SoundInv, pc = "halted", ~ MouseCut
                PROVE  \E i \in DOMAIN tokens :
                         \/ tokens[i].type = "NUM_LIT" /\ tokens[i].val > MaxNumber
                         \/ /\ tokens[i].type \in Separator \cup DOMAIN KeyWord
                            /\ \E separator \in Separator : At(i + 1, separator)
    BY Zenon DEF HaltsForAReason, MouseCut
  <2>1. Reason(tokens)
    BY DEF SoundInv
  <2>2. DOMAIN tokens = 1 .. Len(tokens)
    BY TokensSome, TokensAre DEF ParserInv
  <2>3. ASSUME NEW i, i + 1 \in DOMAIN tokens, tokens[i + 1].type \in Separator
        PROVE  \E separator \in Separator : At(i + 1, separator)
    BY <2>2, <2>3 DEF At
  <2>. QED  BY <2>1, <2>3 DEF Reason, TooLarge
<1>. QED  BY <1>1, SoundCorrect, PTL

(* Every keymap that is read is of the types the tasks are told of: what   *)
(* it binds sends well-formed messages, if a literal spells a natural      *)
(* number, the hash of a layer's name is one of a layer, and a string      *)
(* types characters (parse_source, BoundAction::Enqueue).                  *)
THEOREM TypesCorrect ==
  ASSUME \A text \in Seq(STRING) : ValueOf(text) \in Nat, NamesOK
  PROVE  Spec => []TypeOK
<1>1. ParserInv /\ SoundInv => TypeOK
  <2>. SUFFICES ASSUME ParserInv, SoundInv  PROVE TypeOK
    OBVIOUS
  <2>1. /\ place \in 1 .. Len(source) + 2 /\ line_number \in Nat \ {0}
        /\ tokenized \in {"nothing", "tokens", "message", "exception"}
        /\ \A i \in DOMAIN tokens : tokens[i].type \in TypeOfToken
    BY DEF ParserInv, TokenInv, PlacesOK
  <2>2. /\ index \in 1 .. Len(tokens) + 1 /\ error \in BOOLEAN
        /\ pc \in {"tokenize", "statement", "row", "more", "bind", "done", "halted"}
    BY DEF ParserInv, SoundInv
  <2>3. tokens \in Seq(AnyToken)
    <3>1. SpelledToken \subseteq AnyToken
      BY DEF SpelledToken, AnyToken
    <3>2. tokens \in Seq(SpelledToken)
      BY DEF ParserInv, TokenInv
    <3>. QED  BY <3>1, <3>2, SeqMonotonic
  <2>4. ASSUME NEW b \in DOMAIN layer.bindings
        PROVE  /\ b[2] \in Operation
               /\ \A bae \in BoundActionEnqueue :
                    ToSet(Enqueue(layer.bindings[b], bae)) \subseteq QueueMessage
    <3>1. PICK list : /\ b[2] \in Operation /\ Part(list, tokens)
                      /\ layer.bindings[b] = ParseActionList(list, b[2])
                      /\ Succeeds(layer.bindings[b])
      BY DEF SoundInv, LayerRead
    <3>2. list \in Seq(AnyToken)
      BY <2>3, <3>1, PartIs
    <3>3. ASSUME NEW bae \in BoundActionEnqueue
          PROVE  ToSet(Enqueue(layer.bindings[b], bae)) \subseteq QueueMessage
      <4>1. Enqueue(layer.bindings[b], bae) \in Seq(QueueMessage)
        BY <3>1, <3>2, BindingSends
      <4>2. \A s \in Seq(QueueMessage) : ToSet(s) \subseteq QueueMessage
        BY DEF ToSet
      <4>. QED  BY Zenon, <4>1, <4>2
    <3>. QED  BY <3>1, <3>3
  <2>. QED  BY <2>1, <2>2, <2>4 DEF TypeOK
<1>. QED  BY <1>1, SoundCorrect, PTL

-----------------------------------------------------------------------------
(* A token is part of something. *)
Accounted(i) ==
  \/ tokens[i].type \in Allowed
  \/ i \in ActionHead \cup Top
  \/ \E h \in Header : i \in h .. h + 3
  \/ \E m \in Mark : i \in m .. m + 1

LEMMA ActionHeadIs ==
  ASSUME SomeTokens, NEW a \in ActionHead
  PROVE  /\ a \in Nat /\ a >= 1
         /\ \A h \in Header : a \notin h + 1 .. h + 3
         /\ \A m \in Mark : a # m + 1
<1>. USE Landmarks
<1>1. CASE \E g \in Header : a = g + 4 /\ ~ MarkAt(g + 4)
  <2>1. PICK g \in Header : a = g + 4
    BY <1>1
  <2>2. g \in 1 .. Len(tokens) /\ Len(tokens) \in Nat /\ HeaderAt(g) /\ a \in Nat /\ a >= 1
    BY <2>1
  <2>3. ASSUME NEW h \in Header, a \in h + 1 .. h + 3  PROVE FALSE
    <3>1. h \in 1 .. Len(tokens) /\ HeaderAt(h)
      OBVIOUS
    <3>2. h \in g + 1 .. g + 3
      BY <2>1, <2>2, <2>3, <3>1
    <3>. QED  BY <2>2, <3>1, <3>2, HeaderIs
  <2>4. ASSUME NEW m \in Mark, a = m + 1  PROVE FALSE
    <3>1. m \in 1 .. Len(tokens) /\ OnXAt(m)
      BY DEF MarkAt
    <3>2. m \in g + 1 .. g + 3
      BY <2>1, <2>2, <2>4, <3>1
    <3>. QED  BY <2>2, <3>1, <3>2, HeaderIs
  <2>. QED  BY <2>2, <2>3, <2>4
<1>2. CASE \E n \in Mark : a = n + 2
  <2>1. PICK n \in Mark : a = n + 2
    BY <1>2
  <2>2. n \in 1 .. Len(tokens) /\ Len(tokens) \in Nat /\ OnXAt(n) /\ a \in Nat /\ a >= 1
    BY <2>1 DEF MarkAt
  <2>3. ASSUME NEW h \in Header, a \in h + 1 .. h + 3  PROVE FALSE
    <3>1. h \in 1 .. Len(tokens) /\ HeaderAt(h)
      OBVIOUS
    <3>2. h = n + 1 \/ h = n \/ n \in h + 1 .. h + 3
      BY <2>1, <2>2, <2>3, <3>1
    <3>3. ~ HeaderAt(n) /\ ~ HeaderAt(n + 1)
      BY <2>2, MarkIs
    <3>. QED  BY <2>2, <3>1, <3>2, <3>3, HeaderIs
  <2>4. ASSUME NEW m \in Mark, a = m + 1  PROVE FALSE
    <3>1. m \in 1 .. Len(tokens) /\ OnXAt(m) /\ m = n + 1
      BY <2>1, <2>2, <2>4 DEF MarkAt
    <3>. QED  BY <3>1, MarkIs
  <2>. QED  BY <2>2, <2>3, <2>4
<1>. QED  BY <1>1, <1>2, ActionHeads

(* Where every token is part of something, an action takes all that stands *)
(* before the next thing.                                                  *)
LEMMA LaidAction ==
  ASSUME SomeTokens, LaidOut, NEW a \in ActionHead
  PROVE  /\ a \in 1 .. Len(tokens) /\ WellBounded(ActionAt(a)) /\ HasAction(a)
         /\ ActionEnd(a) \in a .. Len(tokens)
         /\ ActionEnd(a) + 1 \in Landmark \cup {Len(tokens) + 1}
         /\ Landmark \cap a .. ActionEnd(a) = {}
         /\ TextFrom(a) = ActionAt(a)
<1>. DEFINE S == {j \in Landmark : j >= a} \cup {Len(tokens) + 1}
<1>1. a \in Nat /\ a >= 1 /\ Len(tokens) \in Nat /\ Landmark \subseteq 1 .. Len(tokens)
  BY ActionHeadIs, Landmarks DEF Landmark
<1>2. S \subseteq Nat /\ S # {} /\ \A j \in S : j >= 1 /\ j <= Len(tokens) + 1
  <2>1. PICK L, n : L = Landmark /\ n = Len(tokens)
    OBVIOUS
  <2>2. n \in Nat /\ \A j \in L : j \in 1 .. n
    BY <1>1, <2>1
  <2>3. S = {j \in L : j >= a} \cup {n + 1}
    BY Zenon, <2>1
  <2>. HIDE DEF S
  <2>. QED  BY <2>1, <2>2, <2>3
<1>3. PICK b : b = Min(S)
  OBVIOUS
<1>5. TextFrom(a) = SubSeq(tokens, a, b - 1)
  BY Zenon, <1>3 DEF TextFrom, Landmark
<1>. HIDE DEF S
<1>14. b \in S /\ \A j \in S : b <= j
  BY <1>2, <1>3, MinIs
<1>. DEFINE e == b - 1
<1>4. e \in 0 .. Len(tokens) /\ e + 1 \in S /\ \A j \in S : e < j
  BY <1>1, <1>2, <1>14
<1>. HIDE DEF e
<1>6. a <= e
  <2>. SUFFICES ASSUME ~ (a <= e)  PROVE FALSE
    OBVIOUS
  <2>1. PICK R : tokens \in Seq(R)
    BY DEF SomeTokens
  <2>2. SubSeq(tokens, a, e) = <<>>
    BY <1>1, <1>4, <2>1
  <2>. QED  BY <1>5, <2>2 DEF LaidOut, e
<1>7. \A j \in Landmark : ~ (j \in a .. e)
  <2>. SUFFICES ASSUME NEW j \in Landmark, j \in a .. e  PROVE FALSE
    OBVIOUS
  <2>1. j \in S
    BY <1>1, <1>4 DEF S
  <2>. QED  BY <1>1, <1>4, <2>1
<1>8. ASSUME NEW i \in a + 1 .. e  PROVE tokens[i].type \in Allowed
  <2>1. i \in Nat /\ i \in DOMAIN tokens /\ i \in a .. e
    BY <1>1, <1>4, TokensAre
  <2>2. Accounted(i)
    BY Zenon, <2>1 DEF LaidOut, Accounted
  <2>3. ASSUME NEW h \in Header, i \in h .. h + 3  PROVE FALSE
    <3>1. h \in Nat /\ ~ (h \in a .. e)
      BY <1>7, Landmarks DEF Landmark
    <3>2. a \in h + 1 .. h + 3
      BY <1>1, <1>4, <2>1, <2>3, <3>1
    <3>. QED  BY <3>2, ActionHeadIs
  <2>4. ASSUME NEW m \in Mark, i \in m .. m + 1  PROVE FALSE
    <3>1. m \in Nat /\ ~ (m \in a .. e)
      BY <1>7, Landmarks DEF Landmark
    <3>. QED  BY <1>1, <1>4, <2>1, <2>4, <3>1
  <2>5. i \notin Top
    BY <1>7, <2>1 DEF Landmark
  <2>6. ASSUME i \in ActionHead  PROVE FALSE
    <3>1. CASE \E h \in Header : i = h + 4
      <4>1. PICK h \in Header : i = h + 4
        BY <3>1
      <4>2. h \in Nat /\ ~ (h \in a .. e)
        BY <1>7, Landmarks DEF Landmark
      <4>3. a \in h + 1 .. h + 3
        BY <1>1, <1>4, <2>1, <4>1, <4>2
      <4>. QED  BY <4>3, ActionHeadIs
    <3>2. CASE \E m \in Mark : i = m + 2
      <4>1. PICK m \in Mark : i = m + 2
        BY <3>2
      <4>2. m \in Nat /\ ~ (m \in a .. e)
        BY <1>7, Landmarks DEF Landmark
      <4>3. a = m + 1
        BY <1>1, <1>4, <2>1, <4>1, <4>2
      <4>. QED  BY <4>3, ActionHeadIs
    <3>. QED  BY <2>6, <3>1, <3>2, ActionHeads
  <2>. QED  BY <2>2, <2>3, <2>4, <2>5, <2>6 DEF Accounted
<1>9. ASSUME e # Len(tokens)  PROVE e + 1 \in Landmark /\ tokens[e + 1].type \notin Allowed
  <2>1. e + 1 \in Landmark
    BY <1>1, <1>4, <1>9 DEF S
  <2>2. e + 1 \in Header => tokens[e + 1].type \notin Allowed
    BY Landmarks, HeaderIs, Types
  <2>3. e + 1 \in Mark => tokens[e + 1].type \notin Allowed
    BY MarkIs, Types
  <2>4. e + 1 \in Top => tokens[e + 1].type \notin Allowed
    BY Types DEF Top, TopAt
  <2>. QED  BY <2>1, <2>2, <2>3, <2>4 DEF Landmark
<1>10. a \in 1 .. Len(tokens)
  BY <1>1, <1>4, <1>6
<1>11. ActionEnd(a) = e
  <2>. DEFINE d == ActionEnd(a)
  <2>1. /\ d \in a .. Len(tokens) /\ (d = Len(tokens) \/ tokens[d + 1].type \notin Allowed)
        /\ \A j \in a + 1 .. d : tokens[j].type \in Allowed
    BY <1>10, ActionEndIs
  <2>. HIDE DEF d
  <2>2. ~ (d < e)
    <3>. SUFFICES ASSUME d < e  PROVE FALSE
      OBVIOUS
    <3>1. d + 1 \in a + 1 .. e /\ d # Len(tokens)
      BY <1>1, <1>4, <2>1
    <3>. QED  BY <1>8, <2>1, <3>1
  <2>3. ~ (e < d)
    <3>. SUFFICES ASSUME e < d  PROVE FALSE
      OBVIOUS
    <3>1. e + 1 \in a + 1 .. d /\ e # Len(tokens)
      BY <1>1, <1>4, <1>6, <2>1
    <3>. QED  BY <1>9, <2>1, <3>1
  <2>. QED  BY <1>1, <1>4, <2>1, <2>2, <2>3 DEF d
<1>12. TextFrom(a) = ActionAt(a)
  BY <1>5, <1>11 DEF ActionAt, e
<1>13. WellBounded(ActionAt(a))
  BY Zenon, <1>12 DEF LaidOut
<1>. QED  BY <1>4, <1>6, <1>7, <1>9, <1>10, <1>11, <1>12, <1>13 DEF HasAction

(* What parse has just read when it stands at token n.                     *)
CameFrom(n, where) ==
  /\ where = "statement" =>
       \/ n = 1 \/ n - 1 \in Top
       \/ \E h \in Header : ~ OnXAt(h + 4) /\ n = ActionEnd(h + 4) + 1
  /\ where = "row"  => n - 4 \in Header
  /\ where = "more" => \E m \in Mark : n = ActionEnd(m + 2) + 1

(* Between a header and an operation of its row there is no other header.  *)
LEMMA OneRow ==
  ASSUME SomeTokens, NEW g \in Header, NEW h \in Header, NEW m \in MarksOf(h), m \in MarksOf(g)
  PROVE  g = h
<1>1. /\ g \in Nat /\ h \in Nat /\ m \in Nat /\ g < m /\ h < m
      /\ g \notin h + 1 .. m /\ h \notin g + 1 .. m
  BY MarksOfIs, Landmarks
<1>. QED  BY <1>1

(* In a text that is laid out, an operation stands only where parse looks  *)
(* for one.                                                                *)
LEMMA LaidNext ==
  ASSUME SomeTokens, LaidOut, NEW n \in 1 .. Len(tokens) + 1, NEW where, CameFrom(n, where)
  PROVE  /\ where = "statement" => n \in Header \cup Top \cup {Len(tokens) + 1}
         /\ where = "more" => n \in Landmark \cup {Len(tokens) + 1}
<1>1. Len(tokens) \in Nat /\ n \in Nat
  BY Landmarks
<1>2. ASSUME where = "more"  PROVE n \in Landmark \cup {Len(tokens) + 1}
  <2>1. PICK m \in Mark : n = ActionEnd(m + 2) + 1
    BY <1>2 DEF CameFrom
  <2>2. m + 2 \in ActionHead
    BY ActionHeads
  <2>. QED  BY <2>1, <2>2, LaidAction
<1>3. ASSUME where = "statement"  PROVE n \in Header \cup Top \cup {Len(tokens) + 1}
  <2>1. CASE n = 1
    BY <2>1 DEF LaidOut, Beginning
  <2>2. CASE n - 1 \in Top
    <3>1. (n - 1) + 1 \in Beginning
      BY <2>2 DEF LaidOut
    <3>. QED  BY <1>1, <3>1 DEF Beginning
  <2>3. CASE \E h \in Header : ~ OnXAt(h + 4) /\ n = ActionEnd(h + 4) + 1
    <3>1. PICK h \in Header : ~ OnXAt(h + 4) /\ n = ActionEnd(h + 4) + 1
      BY <2>3
    <3>2. PICK a : a = h + 4
      OBVIOUS
    <3>3. a \in ActionHead /\ ~ MarkAt(a) /\ h \in 1 .. Len(tokens) /\ h \in Nat
      BY <3>1, <3>2, ActionHeads, Landmarks DEF MarkAt
    <3>4. /\ a \in 1 .. Len(tokens) /\ ActionEnd(a) \in a .. Len(tokens)
          /\ ActionEnd(a) + 1 \in Landmark \cup {Len(tokens) + 1}
          /\ Landmark \cap a .. ActionEnd(a) = {}
      BY <3>3, LaidAction
    <3>5. ASSUME n \in Mark  PROVE FALSE
      <4>1. PICK g \in Header : n \in MarksOf(g) /\ MarkAt(g + 4)
        BY <3>5 DEF LaidOut
      <4>2. g \in Nat /\ g < n /\ h \notin g + 1 .. n
        BY <4>1, MarksOfIs, Landmarks
      <4>3. g # h
        BY <3>2, <3>3, <4>1
      <4>4. h < n
        BY <1>1, <3>1, <3>2, <3>3, <3>4
      <4>5. h < g
        BY <1>1, <3>3, <4>2, <4>3, <4>4
      <4>6. \A i \in h + 1 .. h + 3 : i \notin Header
        BY <3>3, Landmarks, HeaderIs DEF Header
      <4>7. g \in a .. ActionEnd(a)
        BY <1>1, <3>1, <3>2, <3>3, <3>4, <4>2, <4>5, <4>6
      <4>. QED  BY <3>4, <4>7 DEF Landmark
    <3>. QED  BY <3>1, <3>2, <3>4, <3>5 DEF Landmark
  <2>. QED  BY <1>3, <2>1, <2>2, <2>3 DEF CameFrom
<1>. QED  BY <1>2, <1>3

(* An operation, or an action, that parse refuses is one in no text that   *)
(* is laid out; but for a word of an operation without its colon.          *)
LEMMA RefusedRow ==
  ASSUME SomeTokens, LaidOut, NEW n \in 1 .. Len(tokens) + 1, CameFrom(n, "row"), ~ OnXAt(n)
  PROVE  HasAction(n)
<1>1. PICK h : h = n - 4
  OBVIOUS
<1>2. h \in Header /\ h + 4 = n
  BY <1>1, Landmarks DEF CameFrom
<1>3. n \in ActionHead
  BY <1>2, ActionHeads DEF MarkAt
<1>. QED  BY <1>3, LaidAction

LEMMA RefusedOperation ==
  ASSUME SomeTokens, LaidOut, NEW n \in 1 .. Len(tokens) + 1, MarkAt(n)
  PROVE  HasAction(n + 2)
<1>1. n \in Mark
  BY TokensAre DEF Mark, MarkAt, OnXAt
<1>2. n + 2 \in ActionHead
  BY <1>1, ActionHeads
<1>. QED  BY <1>2, LaidAction

LEMMA RefusedMore ==
  ASSUME SomeTokens, LaidOut, NEW n \in 1 .. Len(tokens) + 1, CameFrom(n, "more"), OnXAt(n)
  PROVE  MarkAt(n)
<1>1. n \in Landmark /\ Len(tokens) \in Nat /\ n \in 1 .. Len(tokens)
  BY LaidNext, Landmarks DEF OnXAt
<1>2. n \notin Header
  BY <1>1, HeaderIs DEF Header
<1>3. n \notin Top
  BY Types DEF Top, TopAt, OnXAt
<1>. QED  BY <1>1, <1>2, <1>3, Landmarks DEF Landmark

LEMMA RefusedStatement ==
  ASSUME SomeTokens, LaidOut, NEW n \in 1 .. Len(tokens), NEW where \in {"statement", "more"},
         CameFrom(n, where), where = "more" => ~ OnXAt(n)
  PROVE  TopAt(n) \/ HeaderAt(n)
<1>1. n \in 1 .. Len(tokens) + 1 /\ Len(tokens) \in Nat
  BY Landmarks
<1>2. n \in Landmark /\ (where = "statement" => n \in Header \cup Top)
  BY <1>1, LaidNext DEF Landmark
<1>3. n \in Header \cup Top
  BY <1>2, MarkIs DEF Landmark, Mark, MarkAt
<1>. QED  BY <1>3, Landmarks DEF Top

(* The first word of a row's only action may be one of an operation, with  *)
(* no colon behind it; then it is this row's text for PRESS.               *)
LEMMA RowWithoutColon ==
  ASSUME SomeTokens, LaidOut, NEW n \in 1 .. Len(tokens) + 1, CameFrom(n, "row"), ~ MarkAt(n)
  PROVE  /\ n - 4 \in Header /\ n \in 1 .. Len(tokens) /\ WellBounded(ActionAt(n))
         /\ Given(n - 4) = [op \in {"PRESS"} |-> ActionAt(n)]
<1>1. PICK h : h = n - 4
  OBVIOUS
<1>2. h \in Header /\ h + 4 = n
  BY <1>1, Landmarks DEF CameFrom
<1>3. n \in ActionHead
  BY <1>2, ActionHeads
<1>4. n \in 1 .. Len(tokens) /\ WellBounded(ActionAt(n)) /\ TextFrom(n) = ActionAt(n)
  BY <1>3, LaidAction
<1>5. MarksOf(h) = {}
  <2>. SUFFICES ASSUME NEW m \in MarksOf(h)  PROVE FALSE
    OBVIOUS
  <2>1. m \in Mark
    BY MarksOfIs
  <2>2. PICK g \in Header : m \in MarksOf(g) /\ MarkAt(g + 4)
    BY <2>1 DEF LaidOut
  <2>3. g = h
    BY <1>2, <2>2, OneRow
  <2>. QED  BY <1>2, <2>2, <2>3
<1>6. Given(h) = [op \in {"PRESS"} |-> TextFrom(h + 4)]
  BY Zenon, <1>5 DEF Given
<1>. QED  BY <1>1, <1>2, <1>4, <1>6

(* LaidOut, as far as parse has come.                                      *)
Laid(n, where) ==
  /\ 1 \in Header \cup Top \/ (n = 1 /\ where = "statement")
  /\ \A i \in Top : i < n => i + 1 \in Header \cup Top \/ (i + 1 = n /\ where = "statement")
  /\ \A m \in Mark : m < n => \E h \in Header : m \in MarksOf(h) /\ MarkAt(h + 4)
  /\ \A a \in ActionHead : a < n => WellBounded(ActionAt(a))
  /\ \A i \in DOMAIN tokens : i < n => Accounted(i)

(* Every action that begins before n, when parse is not behind a header.   *)
LEMMA HeadsBefore ==
  ASSUME SomeTokens, NEW n, NEW where, Walked(n, where), NEW a \in ActionHead
  PROVE  /\ \A h \in Header : a = h + 4 /\ h < n => a < n \/ (a = n /\ where = "row")
         /\ \A m \in Mark : a = m + 2 /\ m < n => a < n
<1>1. n \in 1 .. Len(tokens) + 1 /\ Len(tokens) \in Nat
  BY Landmarks DEF Walked
<1>2. ASSUME NEW h \in Header, a = h + 4, h < n  PROVE a < n \/ (a = n /\ where = "row")
  <2>1. h + 4 <= n /\ (h + 4 = n => where = "row") /\ h \in Nat
    BY <1>2, Landmarks DEF Walked
  <2>. QED  BY <1>1, <1>2, <2>1
<1>3. ASSUME NEW m \in Mark, a = m + 2, m < n  PROVE a < n
  BY <1>3 DEF Walked
<1>. QED  BY <1>2, <1>3

LEMMA LaidTop ==
  ASSUME SomeTokens, NEW n, NEW where, Walked(n, where), where # "row", Laid(n, where),
         n \in Top
  PROVE  Laid(n + 1, "statement")
<1>1. n \in 1 .. Len(tokens) /\ Len(tokens) \in Nat /\ n \notin ActionHead /\ TopAt(n)
  BY Landmarks DEF Top
<1>2. n \notin Mark /\ n \notin Header
  BY <1>1, MarkIs, HeaderIs DEF Header
<1>3. \A i \in Nat : i < n + 1 => i < n \/ i = n
  BY <1>1
<1>4. 1 \in Header \cup Top
  BY DEF Laid
<1>5. ASSUME NEW i \in Top, i < n + 1  PROVE i + 1 \in Header \cup Top \/ i + 1 = n + 1
  <2>1. i \in Nat /\ (i < n \/ i = n)
    BY <1>3, <1>5, Landmarks
  <2>. QED  BY <2>1 DEF Laid
<1>6. ASSUME NEW m \in Mark, m < n + 1  PROVE \E h \in Header : m \in MarksOf(h) /\ MarkAt(h + 4)
  <2>1. m < n
    BY <1>2, <1>3, <1>6, Landmarks
  <2>. QED  BY <2>1 DEF Laid
<1>7. ASSUME NEW a \in ActionHead, a < n + 1  PROVE WellBounded(ActionAt(a))
  <2>1. a < n
    BY <1>1, <1>3, <1>7, ActionHeadIs
  <2>. QED  BY <2>1 DEF Laid
<1>8. ASSUME NEW i \in DOMAIN tokens, i < n + 1  PROVE Accounted(i)
  <2>1. i < n \/ i = n
    BY <1>3, <1>8, TokensAre
  <2>. QED  BY <2>1 DEF Laid, Accounted
<1>. QED  BY <1>4, <1>5, <1>6, <1>7, <1>8 DEF Laid

LEMMA LaidHeader ==
  ASSUME SomeTokens, NEW n, NEW where, Walked(n, where), where # "row", Laid(n, where), n \in Header
  PROVE  Laid(n + 4, "row")
<1>1. n \in 1 .. Len(tokens) /\ Len(tokens) \in Nat /\ n \in Nat /\ HeaderAt(n)
  BY Landmarks
<1>2. \A i \in n .. n + 3 : i \notin Mark /\ i \notin Top
  <2>1. \A i \in n .. n + 3 : i = n \/ i \in n + 1 .. n + 3
    BY <1>1
  <2>2. \A i \in n .. n + 3 : ~ OnXAt(i) /\ ~ TopAt(i)
    BY <1>1, <2>1, HeaderIs
  <2>. QED  BY <2>2 DEF Mark, MarkAt, Top
<1>3. \A i \in Nat : i < n + 4 => i < n \/ i \in n .. n + 3
  BY <1>1
<1>4. 1 \in Header \cup Top
  BY DEF Laid
<1>5. ASSUME NEW i \in Top, i < n + 4  PROVE i + 1 \in Header \cup Top
  <2>1. i \in Nat /\ i < n
    BY <1>2, <1>3, <1>5, Landmarks
  <2>. QED  BY <2>1 DEF Laid
<1>6. ASSUME NEW m \in Mark, m < n + 4  PROVE \E h \in Header : m \in MarksOf(h) /\ MarkAt(h + 4)
  <2>1. m < n
    BY <1>2, <1>3, <1>6, Landmarks
  <2>. QED  BY <2>1 DEF Laid
<1>7. ASSUME NEW a \in ActionHead, a < n + 4  PROVE WellBounded(ActionAt(a))
  <2>1. a < n
    <3>1. CASE \E h \in Header : a = h + 4
      <4>1. PICK h \in Header : a = h + 4
        BY <3>1
      <4>2. h < n /\ h \in Nat
        BY <1>1, <1>7, <4>1, Landmarks
      <4>. QED  BY <4>1, <4>2, HeadsBefore
    <3>2. CASE \E m \in Mark : a = m + 2
      <4>1. PICK m \in Mark : a = m + 2
        BY <3>2
      <4>2. m \in Nat /\ m < n
        BY <1>1, <1>2, <1>3, <1>7, <4>1, Landmarks
      <4>. QED  BY <4>1, <4>2, HeadsBefore
    <3>. QED  BY <3>1, <3>2, ActionHeads
  <2>. QED  BY <2>1 DEF Laid
<1>8. ASSUME NEW i \in DOMAIN tokens, i < n + 4  PROVE Accounted(i)
  <2>1. i < n \/ i \in n .. n + 3
    BY <1>3, <1>8, TokensAre
  <2>. QED  BY <2>1 DEF Laid, Accounted
<1>. QED  BY <1>4, <1>5, <1>6, <1>7, <1>8 DEF Laid

(* An action that parse has let through, from i, where parse stood at n.   *)
LEMMA LaidBehind ==
  ASSUME SomeTokens, NEW n, NEW where \in {"row", "more"}, Walked(n, where), Laid(n, where),
         NEW i \in n .. n + 2, i \in ActionHead, HasAction(i), Landmark \cap i .. ActionEnd(i) = {},
         \A j \in n .. i - 1 : /\ j \notin Header /\ j \notin Top /\ Accounted(j)
                               /\ j \in Mark => /\ i = j + 2
                                                /\ \E h \in Header : j \in MarksOf(h) /\ MarkAt(h + 4),
         n \in Mark \/ i = n,
         NEW where2
  PROVE  Laid(ActionEnd(i) + 1, where2)
<1>1. /\ n \in 1 .. Len(tokens) + 1 /\ Len(tokens) \in Nat /\ n \in Nat /\ i \in Nat
      /\ i \in 1 .. Len(tokens)
  <2>1. n \in 1 .. Len(tokens) + 1 /\ Len(tokens) \in Nat
    BY Landmarks DEF Walked
  <2>. QED  BY <2>1 DEF HasAction
<1>2. PICK e : e = ActionEnd(i)
  OBVIOUS
<1>3. e \in i .. Len(tokens) /\ \A j \in i + 1 .. e : tokens[j].type \in Allowed
  BY <1>1, <1>2, ActionEndIs
<1>4. \A j \in i .. e : j \notin Header /\ j \notin Top /\ j \notin Mark
  BY <1>2 DEF Landmark
<1>5. \A j \in Nat : j < e + 1 => j < n \/ j \in n .. i - 1 \/ j \in i .. e
  BY <1>1, <1>3
<1>6. 1 \in Header \cup Top
  BY DEF Laid
<1>7. ASSUME NEW j \in Top, j < e + 1  PROVE j + 1 \in Header \cup Top
  <2>1. j \in Nat /\ j < n
    BY <1>4, <1>5, <1>7, Landmarks
  <2>. QED  BY <2>1 DEF Laid
<1>8. ASSUME NEW m \in Mark, m < e + 1  PROVE \E h \in Header : m \in MarksOf(h) /\ MarkAt(h + 4)
  <2>1. m \in Nat /\ (m < n \/ m \in n .. i - 1)
    BY <1>4, <1>5, <1>8, Landmarks
  <2>. QED  BY <2>1 DEF Laid
<1>9. ASSUME NEW a \in ActionHead, a < e + 1  PROVE WellBounded(ActionAt(a))
  <2>0. a \in Nat
    BY ActionHeadIs
  <2>1. a < n \/ a = i
    <3>1. CASE \E h \in Header : a = h + 4 /\ ~ MarkAt(h + 4)
      <4>1. PICK h \in Header : a = h + 4 /\ ~ MarkAt(h + 4)
        BY <3>1
      <4>2. h \in Nat /\ h < e + 1
        BY <1>1, <1>3, <1>9, <4>1, Landmarks
      <4>3. h < n
        BY <1>4, <1>5, <4>2
      <4>4. a < n \/ a = n
        BY <4>1, <4>3, HeadsBefore
      <4>5. a = n => n \notin Mark
        BY <4>1 DEF Mark
      <4>. QED  BY <4>4, <4>5
    <3>2. CASE \E m \in Mark : a = m + 2
      <4>1. PICK m \in Mark : a = m + 2
        BY <3>2
      <4>2. m \in Nat /\ m < e + 1
        <5>1. m \in Nat /\ e \in Nat
          BY <1>1, <1>3, Landmarks
        <5>. QED  BY <1>9, <4>1, <5>1
      <4>3. m < n \/ m \in n .. i - 1
        BY <1>4, <1>5, <4>2
      <4>. QED  BY <4>1, <4>2, <4>3, HeadsBefore
    <3>. QED  BY <3>1, <3>2, ActionHeads
  <2>. QED  BY <2>1 DEF Laid, HasAction
<1>10. ASSUME NEW j \in DOMAIN tokens, j < e + 1  PROVE Accounted(j)
  <2>1. j \in Nat /\ (j < n \/ j \in n .. i - 1 \/ j = i \/ j \in i + 1 .. e)
    BY <1>1, <1>3, <1>5, <1>10, TokensAre
  <2>. QED  BY <1>3, <2>1 DEF Laid, Accounted
<1>. QED  BY <1>2, <1>6, <1>7, <1>8, <1>9, <1>10 DEF Laid

(* The row that parse is in when it comes to a further operation.          *)
LEMMA RowOfMark ==
  ASSUME SomeTokens, NEW n, NEW where \in {"row", "more"}, NEW rows, NEW f, Walked(n, where),
         RowsFound(n, where, rows, f), Laid(n, where), CameFrom(n, where), n \in Mark
  PROVE  \E h \in Header : n \in MarksOf(h) /\ MarkAt(h + 4)
<1>1. n \in 1 .. Len(tokens) /\ Len(tokens) \in Nat /\ MarkAt(n)
  BY Landmarks
<1>2. n \notin Header /\ n \notin Top
  BY <1>1, MarkIs DEF Header, Top
<1>3. CASE where = "row"
  <2>1. PICK h : h = n - 4
    OBVIOUS
  <2>2. h \in Header /\ h + 4 = n /\ h \in 1 .. Len(tokens) /\ HeaderAt(h)
    BY <1>1, <1>3, <2>1, Landmarks DEF CameFrom
  <2>3. \A i \in h + 1 .. h + 3 : i \notin Header /\ i \notin Top
    BY <2>2, HeaderIs DEF Header, Top
  <2>4. \A i \in h + 1 .. n : i = n \/ i \in h + 1 .. h + 3
    BY <2>2
  <2>5. n \in MarksOf(h)
    BY <1>1, <1>2, <2>2, <2>3, <2>4, MarksOfIs
  <2>. QED  BY <1>1, <2>2, <2>5
<1>4. CASE where = "more"
  <2>1. PICK h : h = f[Len(rows)]
    OBVIOUS
  <2>2. Len(rows) > 0 /\ (Header \cup Top) \cap h + 1 .. n - 1 = {} /\ MarksTo(h, n) # {}
    BY <1>4, <2>1 DEF RowsFound
  <2>3. h \in Header /\ h \in Nat /\ h < n
    <3>1. Len(rows) \in 1 .. Len(rows)
      <4>1. Len(rows) \in Nat
        BY DEF RowsFound
      <4>. QED  BY <2>2, <4>1
    <3>2. h \in HeadersTo(n)
      BY <2>1, <3>1 DEF RowsFound, InOrder
    <3>. QED  BY <3>2, Landmarks DEF HeadersTo
  <2>4. PICK m \in Mark : m \in MarksOf(h) /\ m < n
    BY <2>2, MarksOfIs DEF MarksTo
  <2>5. PICK g \in Header : m \in MarksOf(g) /\ MarkAt(g + 4)
    BY <2>4 DEF Laid
  <2>6. g = h
    BY <2>3, <2>4, <2>5, OneRow
  <2>7. \A i \in h + 1 .. n : i = n \/ i \in h + 1 .. n - 1
    BY <1>1, <2>3
  <2>8. n \in MarksOf(h)
    BY <1>2, <2>2, <2>3, <2>7, MarksOfIs
  <2>. QED  BY <2>3, <2>5, <2>6, <2>8
<1>. QED  BY <1>3, <1>4

(* At the end of the tokens, a text that has been let through is laid out. *)
LEMMA LaidEnd ==
  ASSUME SomeTokens, NEW where, where # "row", Walked(Len(tokens) + 1, where),
         Laid(Len(tokens) + 1, where)
  PROVE  LaidOut
<1>1. PICK n : n = Len(tokens) + 1
  OBVIOUS
<1>2. /\ Len(tokens) \in Nat /\ n \in Nat /\ DOMAIN tokens = 1 .. Len(tokens)
      /\ Walked(n, where) /\ Laid(n, where)
  BY <1>1, TokensAre
<1>3. /\ \A m \in Mark : m < n
      /\ \A h \in Header : h < n
      /\ \A i \in Top : i < n
  BY <1>1, <1>2, Landmarks
<1>4. 1 \in Beginning
  BY <1>1, <1>2 DEF Laid, Beginning
<1>5. \A i \in Top : i + 1 \in Beginning
  BY <1>1, <1>2, <1>3 DEF Laid, Beginning
<1>6. \A m \in Mark : \E h \in Header : m \in MarksOf(h) /\ MarkAt(h + 4)
  BY <1>2, <1>3 DEF Laid
<1>7. ASSUME NEW a \in ActionHead  PROVE TextFrom(a) # <<>> /\ WellBounded(TextFrom(a))
  <2>1. a < n
    <3>1. CASE \E h \in Header : a = h + 4
      BY <1>2, <1>3, <3>1, HeadsBefore
    <3>2. CASE \E m \in Mark : a = m + 2
      BY <1>2, <1>3, <3>2, HeadsBefore
    <3>. QED  BY <3>1, <3>2, ActionHeads
  <2>2. a \in 1 .. Len(tokens)
    BY <1>1, <1>2, <2>1, ActionHeadIs
  <2>3. WellBounded(ActionAt(a))
    BY <1>2, <2>1 DEF Laid
  <2>4. TextFrom(a) = ActionAt(a)
    BY <1>1, <1>2, <2>1, TextIs
  <2>5. Len(ActionAt(a)) = ActionEnd(a) - a + 1 /\ ActionEnd(a) \in a .. Len(tokens)
    BY <2>2, ActionEndIs
  <2>6. Len(<<>>) = 0
    OBVIOUS
  <2>7. ActionAt(a) # <<>>
    BY <2>2, <2>5, <2>6
  <2>. QED  BY <2>3, <2>4, <2>7
<1>8. ASSUME NEW i \in DOMAIN tokens
      PROVE  \/ tokens[i].type \in Allowed
             \/ i \in ActionHead \cup Top
             \/ \E h \in Header : i \in h .. h + 3
             \/ \E m \in Mark : i \in m .. m + 1
  <2>1. i < n
    BY <1>1, <1>2
  <2>2. Accounted(i)
    BY <1>2, <2>1 DEF Laid
  <2>. QED  BY Zenon, <2>2 DEF Accounted
<1>. QED  BY Zenon, <1>4, <1>5, <1>6, <1>7, <1>8 DEF LaidOut

-----------------------------------------------------------------------------
(* Of the text of a token nothing is changed.                              *)
TextInv ==
  \A k \in DOMAIN tokens : \A p, j, text :
    p = tokens[k].start /\ j = Stop(tokens[k]) /\ text = tokens[k].text
      => text = SubSeq(source, p, j - 1)

LEMMA TextNext == ASSUME TokenInv, TextInv, [Next]_vars  PROVE TextInv'
<1>1. ASSUME NEW j, NEW type, Took(j, type)  PROVE TextInv'
  <2>1. PICK R : tokens \in Seq(R)
    BY DEF TokenInv, PlacesOK
  <2>2. PICK t : t = [type |-> type, text |-> SubSeq(source, place, j - 1),
                      val  |-> ValueOf(SubSeq(source, place, j - 1)),
                      start |-> place, line |-> line_number]
    OBVIOUS
  <2>3. tokens' = Append(tokens, t) /\ source' = source
    BY Zenon, <1>1, <2>2 DEF Took, Token
  <2>4. t.start = place /\ t.text = SubSeq(source, place, j - 1)
    BY <2>2
  <2>5. Stop(t) = j
    <3>1. /\ place \in 1 .. Len(source) /\ Len(source) \in Nat /\ j \in place + 1 .. Len(source) + 1
          /\ source \in Seq(STRING)
      BY <1>1, TextDomain DEF Took, Looking, TokenInv, PlacesOK, TextOK
    <3>2. Len(SubSeq(source, place, j - 1)) = j - place
      BY <3>1
    <3>. QED  BY <2>4, <3>1, <3>2 DEF Stop
  <2>6. DOMAIN tokens' = 1 .. Len(tokens) + 1 /\ Len(tokens) \in Nat /\ DOMAIN tokens = 1 .. Len(tokens)
    BY <2>1, <2>3
  <2>7. ASSUME NEW k \in DOMAIN tokens', NEW p, NEW l, NEW text,
               p = tokens'[k].start, l = tokens'[k].start + Len(tokens'[k].text), text = tokens'[k].text
        PROVE  text = SubSeq(source', p, l - 1)
    <3>1. CASE k = Len(tokens) + 1
      <4>1. tokens'[k] = t
        BY <2>1, <2>3, <3>1
      <4>2. p = place /\ text = SubSeq(source, place, j - 1) /\ l = Stop(t)
        BY Zenon, <2>4, <2>7, <4>1 DEF Stop
      <4>. QED  BY Zenon, <2>3, <2>5, <4>2
    <3>2. CASE k # Len(tokens) + 1
      <4>1. k \in DOMAIN tokens /\ tokens'[k] = tokens[k]
        BY <2>1, <2>3, <2>6, <3>2
      <4>2. text = SubSeq(source, p, l - 1)
        BY Zenon, <2>7, <4>1 DEF TextInv, Stop
      <4>. QED  BY Zenon, <2>3, <4>2
    <3>. QED  BY <3>1, <3>2
  <2>8. \A r : Stop(r)' = r.start + Len(r.text)
    BY Zenon DEF Stop
  <2>. QED  BY Zenon, <2>7, <2>8 DEF TextInv, Stop
<1>2. ASSUME UNCHANGED <<source, tokens>>  PROVE TextInv'
  BY <1>2 DEF TextInv, Stop
<1>3. ASSUME TokenizeStep  PROVE TextInv'
  <2>1. SkipBlank \/ NewLine \/ Comment => UNCHANGED <<source, tokens>>
    BY DEF SkipBlank, NewLine, Comment
  <2>2. \A what : Return(what) => UNCHANGED <<source, tokens>>
    BY DEF Return
  <2>. QED  BY <1>1, <1>2, <1>3, <2>1, <2>2, StepTakes
<1>4. UNCHANGED tokenizerVars => UNCHANGED <<source, tokens>>
  BY DEF tokenizerVars
<1>. QED  BY <1>2, <1>3, <1>4, StepOfTokenizer

-----------------------------------------------------------------------------
(* The texts that begin like an operation. *)
OnText ==
  {u \in Seq(STRING) : Len(u) > 1 /\ u[1] \in Letters /\ Lower[u[1]] = "on" /\ u[2] = SP}

(* Of an operation the token says so. *)
LEMMA OperationText ==
  ASSUME TokenInv, SaysInv, TextInv, NEW k \in DOMAIN tokens, tokens[k].type \in DOMAIN OnX
  PROVE  tokens[k].text \in OnText
<1>1. PICK p, j, type, c, text : /\ p = tokens[k].start /\ j = Stop(tokens[k])
                                 /\ type = tokens[k].type /\ c = Head(tokens[k].text)
                                 /\ text = tokens[k].text
  OBVIOUS
<1>2. Says(p, j, type) /\ Cut(p, j, type) /\ text = SubSeq(source, p, j - 1)
  BY <1>1 DEF SaysInv, TextInv
<1>3. type \in DOMAIN OnX /\ type \notin Literal /\ type # "STRING_LIT" /\ type # "IDENTIFIER"
  BY <1>1, OnXIs, LiteralIs
<1>4. /\ TextOK /\ source \in Seq(STRING) /\ Len(source) \in Nat /\ p \in 1 .. Len(source)
      /\ j \in p + 1 .. Len(source) + 1 /\ p \in Nat /\ j \in Nat
  BY <1>1, TextDomain DEF TokenInv, PlacesOK, TextOK
<1>5. PICK q \in Written : Here(p, q) /\ type = q.type /\ j - p = Len(q.text)
  BY Zenon, <1>2, <1>3 DEF Says
<1>6. PICK t \in DOMAIN Trigger : q = BehindOn(t)
  <2>1. ASSUME NEW w \in DOMAIN OneWord, q = Alone(w)  PROVE FALSE
    <3>1. type = OneWord[w]
      BY Zenon, <1>5, <2>1 DEF Alone
    <3>. QED  BY <1>3, <3>1, OnXIs
  <2>2. ASSUME NEW v \in DOMAIN MouseWord, NEW d \in DOMAIN MouseWord[v], q = OfMouse(v, d)  PROVE FALSE
    <3>1. type = MouseWord[v][d]
      BY Zenon, <1>5, <2>2 DEF OfMouse
    <3>. QED  BY <1>3, <3>1, OnXIs
  <2>3. ASSUME NEW w \in DOMAIN GoesOn \ {"at"}, q = Long(w)  PROVE FALSE
    <3>1. type = GoesOn[w].type
      BY Zenon, <1>5, <2>3 DEF Long
    <3>. QED  BY <1>3, <3>1, OnXIs
  <2>. QED  BY Zenon, <2>1, <2>2, <2>3, WrittenIs
<1>7. Char(p) \in Letters
  BY <1>2, <1>3 DEF Cut
<1>8. Here(p, BehindOn(t)) /\ j - p = Len(BehindOn(t).text)
  BY Zenon, <1>5, <1>6
<1>9. Lower[Char(p)] = "on" /\ Char(p + 1) = SP /\ j - p = 2 + Len(t) /\ Len(t) \in Nat
  BY <1>4, <1>7, <1>8, HereBehindOn
<1>10. /\ text \in Seq(STRING) /\ Len(text) = j - p
       /\ \A i \in 1 .. j - p : text[i] = source[p + i - 1]
  BY <1>2, <1>4
<1>11. Len(text) > 1 /\ text[1] = source[p] /\ text[2] = source[p + 1]
  BY <1>4, <1>9, <1>10
<1>12. source[p] = Char(p) /\ source[p + 1] = Char(p + 1)
  BY <1>4, <1>9, TextDomain
<1>. QED  BY Zenon, <1>1, <1>7, <1>9, <1>10, <1>11, <1>12 DEF OnText

-----------------------------------------------------------------------------
(* What a list begins with, its first part begins with. *)
LEMMA SplitFirst ==
  ASSUME NEW S, NEW list \in Seq(S), list # <<>>, NEW type, list[1].type # type
  PROVE  /\ 1 \in DOMAIN Split(list, type) /\ Split(list, type)[1] \in Seq(S)
         /\ Split(list, type)[1] # <<>> /\ Split(list, type)[1][1] = list[1]
<1>1. PICK C : C = Cuts(list, type)
  OBVIOUS
<1>2. /\ C \subseteq 0 .. Len(list) + 1 /\ Len(list) \in Nat \ {0} /\ 0 \in C /\ 1 \notin C
  BY <1>1 DEF Cuts
<1>3. IsFiniteSet(C) /\ C \subseteq Nat
  <2>1. IsFiniteSet(0 .. Len(list) + 1)
    BY <1>2, FS_Interval
  <2>2. C \subseteq Nat
    BY <1>2
  <2>. QED  BY <1>2, <2>1, <2>2, FS_Subset
<1>4. 1 \in DOMAIN Split(list, type) /\ Split(list, type) \in Seq(Seq(S))
  BY SplitSome
<1>5. 1 \in 1 .. Cardinality(C) - 1 /\ Cardinality(C) \in Nat
  BY <1>1, <1>3, <1>4, FS_CardinalityType DEF Split
<1>6. PICK a, b : a = Nth(C, 0) /\ b = Nth(C, 1)
  OBVIOUS
<1>7. Split(list, type)[1] = SubSeq(list, a + 1, b - 1)
  <2>1. Split(list, type) =
          [n \in 1 .. Cardinality(C) - 1 |-> SubSeq(list, Nth(C, n - 1) + 1, Nth(C, n) - 1)]
    BY Zenon, <1>1 DEF Split
  <2>2. \A n \in 1 .. Cardinality(C) - 1 :
          Split(list, type)[n] = SubSeq(list, Nth(C, n - 1) + 1, Nth(C, n) - 1)
    BY Zenon, <2>1
  <2>3. PICK n : n = 1
    OBVIOUS
  <2>4. n - 1 = 0 /\ n \in 1 .. Cardinality(C) - 1
    BY <1>5, <2>3
  <2>. QED  BY Zenon, <1>6, <2>2, <2>3, <2>4
<1>8. a \in C /\ b \in C /\ a < b
  <2>1. 1 < Cardinality(C) /\ 1 \in Nat \ {0} /\ 1 - 1 = 0
    BY <1>5
  <2>. QED  BY <1>3, <1>6, <2>1, NthNext
<1>9. a = 0
  <2>1. 0 \in Nat /\ 0 < Cardinality(C)
    BY <1>5
  <2>2. Cardinality({d \in C : d < a}) = 0
    BY <1>3, <1>6, <2>1, NthIs
  <2>3. IsFiniteSet({d \in C : d < a})
    BY <1>3, FS_Subset
  <2>4. {d \in C : d < a} = {}
    BY <2>2, <2>3, FS_EmptySet
  <2>5. ~ (0 < a)
    BY <1>2, <2>4
  <2>. QED  BY <1>3, <1>8, <2>5
<1>10. b \in 2 .. Len(list) + 1
  BY <1>2, <1>8, <1>9
<1>11. Split(list, type)[1] = SubSeq(list, 1, b - 1)
  BY <1>7, <1>9
<1>12. Len(SubSeq(list, 1, b - 1)) = b - 1 /\ SubSeq(list, 1, b - 1)[1] = list[1]
  BY <1>2, <1>10
<1>13. SubSeq(list, 1, b - 1) # <<>>
  BY <1>10, <1>12
<1>14. Split(list, type)[1] \in Seq(S)
  <2>1. PICK s \in Seq(Seq(S)) : s = Split(list, type)
    BY <1>4
  <2>2. s[1] \in Seq(S)
    BY <1>4, <2>1
  <2>. QED  BY <2>1, <2>2
<1>. QED  BY Zenon, <1>4, <1>11, <1>12, <1>13, <1>14

(* No key is spelled like this. *)
LEMMA OperationIsNoKey ==
  ASSUME NEW part \in Seq(SpelledToken), part # <<>>, part[1].type \in DOMAIN OnX,
         part[1].text \in OnText
  PROVE  ~ Succeeds(KeyCode(part))
<1>1. PICK s : s = [i \in DOMAIN part |-> part[i].text]
  OBVIOUS
<1>2. /\ Len(s) \in Nat \ {0} /\ DOMAIN s = 1 .. Len(s) /\ DOMAIN part = 1 .. Len(s)
      /\ \A i \in 1 .. Len(s) : s[i] = part[i].text
  BY <1>1
<1>3. \A i \in 1 .. Len(s) : s[i] \in Seq(STRING)
  <2>1. \A t \in SpelledToken : t.text \in Seq(STRING)
    BY DEF SpelledToken
  <2>2. \A i \in 1 .. Len(s) : part[i] \in SpelledToken
    BY <1>2
  <2>. QED  BY <1>2, <2>1, <2>2
<1>4. s[1] \in OnText
  BY <1>2
<1>5. ASSUME NEW u \in OnText, NEW v \in Seq(STRING)  PROVE u \o v \in OnText
  <2>1. /\ u \in Seq(STRING) /\ Len(u) > 1 /\ u[1] \in Letters /\ Lower[u[1]] = "on" /\ u[2] = SP
        /\ Len(u) \in Nat
    BY Zenon, LenProperties DEF OnText
  <2>2. u \o v \in Seq(STRING) /\ Len(u \o v) > 1 /\ (u \o v)[1] = u[1] /\ (u \o v)[2] = u[2]
    BY <2>1
  <2>. QED  BY Zenon, <2>1, <2>2 DEF OnText
<1>6. FlattenSeq(s) \in OnText
  BY <1>2, <1>3, <1>4, <1>5, FlattenFrom
<1>7. Spelling(part) = FlattenSeq(s)
  BY Zenon, <1>1 DEF Spelling
<1>8. Spelling(part) \notin DOMAIN KeyNames
  <2>1. PICK name \in OnText : name = Spelling(part)
    BY Zenon, <1>6, <1>7
  <2>2. Len(name) > 1 /\ name[1] \in Letters /\ Lower[name[1]] = "on" /\ name[2] = " "
    BY Zenon DEF OnText, SP
  <2>. QED  BY Zenon, <2>1, <2>2, KeyNamesAreNoOperations
<1>9. part[1].type # "HEX_LIT"
  BY OnXIs
<1>10. KeyCode(part) = Rejected
  BY <1>8, <1>9 DEF KeyCode
<1>. QED  BY Zenon, <1>10, Failures

(* A list that begins with an operation is no action. *)
LEMMA OperationIsNoAction ==
  ASSUME NEW list \in Seq(SpelledToken), list # <<>>, list[1].type \in DOMAIN OnX,
         list[1].text \in OnText, NEW op
  PROVE  ~ Succeeds(ParseActionList(list, op))
<1>1. ASSUME NEW part \in Seq(SpelledToken), part # <<>>, part[1].type \in DOMAIN OnX,
             part[1].text \in OnText
      PROVE  ~ Succeeds(ParseActionToken(part, op))
  <2>1. part[1].type \notin FirstWord
    BY <1>1, OnXIs DEF FirstWord, KeyWord, LayerWord, BareWord, MoveWord, ScrollWord, ButtonWord
  <2>2. ParseActionToken(part, op) = KeyAction("GENERIC_KEY", part)
    BY <1>1, <2>1, WordCases
  <2>3. part[1].type # "SYM_PLUS"
    BY <1>1, OnXIs
  <2>4. PICK parts : parts = Split(part, "SYM_PLUS")
    OBVIOUS
  <2>5. 1 \in DOMAIN parts /\ parts[1] \in Seq(SpelledToken) /\ parts[1] # <<>> /\ parts[1][1] = part[1]
    BY <1>1, <2>3, <2>4, SplitFirst
  <2>6. ~ Succeeds(KeyCode(parts[1]))
    <3>1. PICK first \in Seq(SpelledToken) : first = parts[1]
      BY <2>5
    <3>2. first # <<>> /\ first[1].type \in DOMAIN OnX /\ first[1].text \in OnText
      BY <1>1, <2>5, <3>1
    <3>. QED  BY <3>1, <3>2, OperationIsNoKey
  <2>7. \/ \A i \in DOMAIN parts : Succeeds(KeyCode(parts[i]))
        \/ ~ Succeeds(KeyAction("GENERIC_KEY", part))
    BY <1>1, <2>4, KeyActionIs
  <2>. QED  BY Zenon, <2>2, <2>5, <2>6, <2>7
<1>2. PICK parts : parts = Split(list, "SYM_COMMA")
  OBVIOUS
<1>3. list[1].type # "SYM_COMMA"
  BY OnXIs
<1>4. 1 \in DOMAIN parts /\ parts[1] \in Seq(SpelledToken) /\ parts[1] # <<>> /\ parts[1][1] = list[1]
  BY <1>2, <1>3, SplitFirst
<1>5. PICK n \in Nat : DOMAIN parts = 1 .. n
  BY <1>2, SplitSome
<1>6. PICK results : results = [i \in DOMAIN parts |-> ParseActionToken(parts[i], op)]
  OBVIOUS
<1>7. ~ Succeeds(results[1]) /\ 1 \in 1 .. n /\ DOMAIN results = 1 .. n
  <2>1. PICK first \in Seq(SpelledToken) : first = parts[1]
    BY <1>4
  <2>2. first # <<>> /\ first[1].type \in DOMAIN OnX /\ first[1].text \in OnText
    BY <1>4, <2>1
  <2>3. ~ Succeeds(ParseActionToken(parts[1], op))
    BY Zenon, <1>1, <2>1, <2>2
  <2>4. results[1] = ParseActionToken(parts[1], op)
    BY <1>4, <1>6
  <2>. QED  BY <1>4, <1>5, <1>6, <2>3, <2>4
<1>8. ~ Succeeds(FirstFailure(results))
  <2>1. PICK i \in 1 .. n : FirstFailure(results) = results[i] /\ ~ Succeeds(results[i])
    BY <1>7, FirstFailureFails
  <2>. QED  BY <2>1
<1>9. ParseActionList(list, op) =
        IF \E i \in DOMAIN results : ~ Succeeds(results[i]) THEN FirstFailure(results)
        ELSE IF Len(results) = 1 THEN results[1]
        ELSE [type |-> "SEQUENCE", sequence |-> results]
  BY <1>2, <1>6 DEF ParseActionList
<1>. QED  BY Zenon, <1>7, <1>8, <1>9

-----------------------------------------------------------------------------
(* What parse_source has bound so far was an action, whether it counted or *)
(* an earlier row had spoken of it.                                        *)
Good(k, f, rows) ==
  \A r \in 1 .. k : \A op \in DOMAIN Given(f[r]) :
    r <= k - Len(rows) + 1 /\ op \notin Left(k, f, rows, r) =>
      Succeeds(ParseActionList(Given(f[r])[op], op))

AllActions ==
  \A h \in Header : \A op \in DOMAIN Given(h) : Succeeds(ParseActionList(Given(h)[op], op))

LEMMA GoodInit ==
  ASSUME NEW f, NEW rows, NEW R, rows \in Seq(R),
         \A r \in 1 .. Len(rows) : rows[r] = [key |-> KeyOf(f[r]), ops |-> Given(f[r])]
  PROVE  Good(Len(rows), f, rows)
<1>1. PICK k \in Nat : k = Len(rows)
  OBVIOUS
<1>2. ASSUME NEW r \in 1 .. k, NEW op \in DOMAIN Given(f[r]), r <= k - Len(rows) + 1
      PROVE  op \in Left(k, f, rows, r)
  <2>1. r = 1 /\ k - Len(rows) = 0 /\ 1 \in 1 .. k
    BY <1>1, <1>2
  <2>2. rows[r] = [key |-> KeyOf(f[r]), ops |-> Given(f[r])]
    BY <1>1
  <2>3. rows[1].ops = Given(f[r])
    BY <2>1, <2>2
  <2>. QED  BY <1>2, <2>1, <2>3 DEF Left
<1>. QED  BY <1>1, <1>2 DEF Good

(* What is to be bound next is what some row of the text gives. *)
LEMMA RestGiven ==
  ASSUME SomeTokens, NEW k, NEW f, NEW rows, Rest(k, f, rows), rows # <<>>, NEW op \in DOMAIN rows[1].ops
  PROVE  LET r == k - Len(rows) + 1
         IN  /\ r \in 1 .. k /\ f[r] \in Header /\ op \in DOMAIN Given(f[r])
             /\ rows[1].ops[op] = Given(f[r])[op]
<1>1. PICK R : rows \in Seq(R)
  BY DEF Rest
<1>2. Len(rows) \in Nat \ {0} /\ 1 \in 1 .. Len(rows)
  BY <1>1
<1>3. k \in Nat /\ Len(rows) <= k /\ \A r \in 1 .. k : f[r] \in Header
  BY DEF Rest, InOrder
<1>4. PICK r : r = k - Len(rows) + 1
  OBVIOUS
<1>5. r \in 1 .. k
  BY <1>2, <1>3, <1>4
<1>6. DOMAIN rows[1].ops \subseteq DOMAIN Given(f[r]) /\ rows[1].ops[op] = Given(f[r])[op]
  BY <1>2, <1>4 DEF Rest
<1>. QED  BY <1>3, <1>4, <1>5, <1>6

LEMMA GoodNext ==
  ASSUME SomeTokens, NEW k, NEW f, NEW rows, Rest(k, f, rows), Good(k, f, rows), rows # <<>>,
         NEW op \in DOMAIN rows[1].ops, Succeeds(ParseActionList(rows[1].ops[op], op)),
         NEW rows2, rows2 = Less(rows, op)
  PROVE  Rest(k, f, rows2) /\ Good(k, f, rows2)
<1>1. /\ Rest(k, f, rows2)
      /\ \A r \in 1 .. k : \A o \in DOMAIN Given(f[r]) :
           r <= k - Len(rows2) + 1 /\ o \notin Left(k, f, rows2, r) =>
             \/ r <= k - Len(rows) + 1 /\ o \notin Left(k, f, rows, r)
             \/ r = k - Len(rows) + 1 /\ o = op
  BY RestNext
<1>2. PICK d : d = k - Len(rows) + 1
  OBVIOUS
<1>3. rows[1].ops[op] = Given(f[d])[op]
  BY <1>2, RestGiven
<1>4. ASSUME NEW r \in 1 .. k, NEW o \in DOMAIN Given(f[r]), r <= k - Len(rows2) + 1,
             o \notin Left(k, f, rows2, r)
      PROVE  Succeeds(ParseActionList(Given(f[r])[o], o))
  <2>1. CASE r <= k - Len(rows) + 1 /\ o \notin Left(k, f, rows, r)
    BY Zenon, <2>1 DEF Good
  <2>2. CASE r = d /\ o = op
    BY Zenon, <1>3, <2>2
  <2>. QED  BY Zenon, <1>1, <1>2, <1>4, <2>1, <2>2
<1>. QED  BY Zenon, <1>1, <1>4 DEF Good

LEMMA GoodAll ==
  ASSUME SomeTokens, NEW k, NEW f, NEW rows, Rest(k, f, rows), Good(k, f, rows), rows = <<>>
  PROVE  AllActions
<1>1. Len(rows) = 0 /\ k \in Nat
  BY DEF Rest, InOrder
<1>2. ASSUME NEW h \in Header, NEW op \in DOMAIN Given(h)  PROVE Succeeds(ParseActionList(Given(h)[op], op))
  <2>1. PICK r \in 1 .. k : f[r] = h
    BY DEF Rest, InOrder
  <2>2. r <= k - Len(rows) + 1 /\ op \notin Left(k, f, rows, r)
    BY <1>1 DEF Left
  <2>. QED  BY Zenon, <1>2, <2>1, <2>2 DEF Good
<1>. QED  BY Zenon, <1>2 DEF AllActions

LEMMA GoodSame ==
  ASSUME UNCHANGED tokens, NEW k, NEW f, NEW rows, Rest(k, f, rows), Good(k, f, rows)
  PROVE  Rest(k, f, rows)' /\ Good(k, f, rows)'
<1>1. Header' = Header /\ (\A h : KeyOf(h)' = KeyOf(h) /\ Given(h)' = Given(h))
  BY TextSame
<1>2. Rest(k, f, rows)'
  BY <1>1 DEF Rest, InOrder
<1>3. \A r : Left(k, f, rows, r)' = Left(k, f, rows, r)
  BY <1>1 DEF Left
<1>4. Good(k, f, rows)'
  BY <1>1, <1>3 DEF Good
<1>. QED  BY <1>2, <1>4

(* What is said of the tokens stays said while they do not change. *)
LEMMA AcceptSame ==
  ASSUME UNCHANGED tokens
  PROVE  /\ \A n, where : (CameFrom(n, where)' <=> CameFrom(n, where)) /\ (Laid(n, where)' <=> Laid(n, where))
         /\ LaidOut' <=> LaidOut
         /\ IsKeymap' <=> IsKeymap
<1>1. /\ Header' = Header /\ Mark' = Mark /\ Top' = Top /\ ActionHead' = ActionHead /\ Landmark' = Landmark
      /\ \A i : ActionEnd(i)' = ActionEnd(i) /\ ActionAt(i)' = ActionAt(i) /\ TextFrom(i)' = TextFrom(i)
      /\ \A h : MarksOf(h)' = MarksOf(h) /\ KeyOf(h)' = KeyOf(h) /\ OpOf(h)' = OpOf(h)
      /\ \A h : Given(h)' = Given(h)
  BY TextSame
<1>2. \A i : (OnXAt(i)' <=> OnXAt(i)) /\ (MarkAt(i)' <=> MarkAt(i))
  BY DEF OnXAt, MarkAt, At
<1>3. \A i : Accounted(i)' <=> Accounted(i)
  BY <1>1 DEF Accounted
<1>4. ASSUME NEW n, NEW where  PROVE CameFrom(n, where)' <=> CameFrom(n, where)
  BY <1>1, <1>2 DEF CameFrom
<1>5. ASSUME NEW n, NEW where  PROVE Laid(n, where)' <=> Laid(n, where)
  BY <1>1, <1>2, <1>3 DEF Laid
<1>6. LaidOut' <=> LaidOut
  BY <1>1, <1>2 DEF LaidOut, Beginning
<1>7. IsKeymap' <=> IsKeymap
  BY <1>1, <1>6 DEF IsKeymap
<1>. QED  BY <1>4, <1>5, <1>6, <1>7

-----------------------------------------------------------------------------
(* What parse has let through is laid out, or it will not let it through;  *)
(* where it stands, it has come to by what it read; and what it refuses is *)
(* no keymap.                                                              *)
Reading ==
  \E n, where : /\ index = n /\ pc = where
                /\ CameFrom(n, where) /\ (Laid(n, where) \/ Doomed)
BindingGood ==
  \E k, f, rows : bindings = rows /\ Rest(k, f, rows) /\ Good(k, f, rows)

AcceptInv ==
  /\ pc # "done" => ~ error
  /\ pc \in {"statement", "row", "more", "bind"} => tokenized = "tokens"
  /\ pc \in {"statement", "row", "more"} => Reading
  /\ pc = "bind" => LaidOut /\ BindingGood
  /\ pc = "done" => IF error THEN tokenized = "message" \/ ~ IsKeymap
                    ELSE tokenized = "tokens" /\ IsKeymap

LEMMA AcceptFail ==
  ASSUME Fail, tokenized = "message" \/ ~ IsKeymap
  PROVE  AcceptInv'
<1>1. UNCHANGED tokens /\ tokenized' = tokenized /\ pc' = "done" /\ error' = TRUE
  BY DEF Fail, tokenizerVars
<1>2. IsKeymap' <=> IsKeymap
  BY <1>1, AcceptSame
<1>. QED  BY <1>1, <1>2 DEF AcceptInv

(* A step of parse, to n2. *)
LEMMA AcceptStep ==
  ASSUME AcceptInv, UNCHANGED <<tokenizerVars, error>>, pc \in {"tokenize", "statement", "row", "more"},
         tokenized = "tokens", NEW n, NEW where \in {"statement", "row", "more"},
         index' = n, pc' = where, CameFrom(n, where), Laid(n, where)
  PROVE  AcceptInv'
<1>1. UNCHANGED tokens /\ tokenized' = tokenized /\ error' = error
  BY DEF tokenizerVars
<1>2. CameFrom(n, where)' /\ Laid(n, where)'
  BY <1>1, AcceptSame
<1>3. Reading'
  BY <1>2 DEF Reading
<1>. QED  BY <1>1, <1>3 DEF AcceptInv

LEMMA AcceptTokenize == ASSUME ParserInv, AcceptInv, Tokenize  PROVE AcceptInv'
BY DEF Tokenize, parserVars, AcceptInv

LEMMA AcceptTokenized == ASSUME ParserInv, AcceptInv, Tokenized  PROVE AcceptInv'
<1>1. SomeTokens /\ Len(tokens) \in Nat
  BY TokensSome, TokensAre DEF ParserInv
<1>2. /\ \A m \in Header \cup Mark \cup Top : ~ (m < 1)
      /\ \A a \in ActionHead : ~ (a < 1)
      /\ \A i \in DOMAIN tokens : ~ (i < 1)
  <2>1. \A m \in Header \cup Mark \cup Top : m \in 1 .. Len(tokens)
    BY <1>1, Landmarks
  <2>2. \A a \in ActionHead : a \in Nat /\ a >= 1
    BY <1>1, ActionHeadIs
  <2>. QED  BY <1>1, <2>1, <2>2, TokensAre
<1>3. CameFrom(1, "statement") /\ Laid(1, "statement")
  BY <1>2 DEF CameFrom, Laid
<1>4. index' = 1 /\ pc' = "statement" /\ UNCHANGED <<tokenizerVars, error>> /\ tokenized = "tokens"
  BY DEF Tokenized, ParserInv
<1>. QED  BY <1>3, <1>4, AcceptStep DEF Tokenized

LEMMA AcceptTopStatement == ASSUME ParserInv, AcceptInv, TopStatement  PROVE AcceptInv'
<1>1. SomeTokens
  BY TokensSome DEF ParserInv
<1>2. /\ TopAt(index) /\ pc \in {"statement", "more"} /\ pc' = "statement" /\ index' = index + 1
      /\ UNCHANGED <<tokenizerVars, error>> /\ tokenized = "tokens"
  BY DEF TopStatement, AtStatement, AcceptInv
<1>3. Parsing /\ ~ Doomed
  BY <1>1, <1>2, DoomedFails DEF ParserInv
<1>4. PICK n, where, rows, f : /\ index = n /\ pc = where /\ bindings = rows
                               /\ Walked(n, where) /\ RowsFound(n, where, rows, f)
  BY <1>3 DEF Parsing
<1>5. Laid(n, where)
  BY <1>2, <1>3, <1>4 DEF AcceptInv, Reading
<1>6. n \in Top /\ n \in Nat
  BY <1>1, <1>2, <1>4, WalkTop, Landmarks
<1>7. Laid(n + 1, "statement")
  BY <1>1, <1>2, <1>4, <1>5, <1>6, LaidTop
<1>8. CameFrom(n + 1, "statement")
  <2>1. n + 1 - 1 = n
    BY <1>6
  <2>. QED  BY <1>6, <2>1 DEF CameFrom
<1>9. PICK n2 : n2 = n + 1
  OBVIOUS
<1>. QED  BY <1>2, <1>4, <1>7, <1>8, <1>9, AcceptStep

LEMMA AcceptRowHeader == ASSUME ParserInv, AcceptInv, RowHeader  PROVE AcceptInv'
<1>1. SomeTokens
  BY TokensSome DEF ParserInv
<1>2. /\ HeaderAt(index) /\ pc \in {"statement", "more"} /\ pc' = "row" /\ index' = index + 4
      /\ UNCHANGED <<tokenizerVars, error>> /\ tokenized = "tokens"
  BY DEF RowHeader, AtStatement, AcceptInv
<1>3. Parsing /\ ~ Doomed
  BY <1>1, <1>2, DoomedFails DEF ParserInv
<1>4. PICK n, where, rows, f : /\ index = n /\ pc = where /\ bindings = rows
                               /\ Walked(n, where) /\ RowsFound(n, where, rows, f)
  BY <1>3 DEF Parsing
<1>5. Laid(n, where)
  BY <1>2, <1>3, <1>4 DEF AcceptInv, Reading
<1>6. n \in Header /\ n \in Nat
  BY <1>1, <1>2, <1>4, WalkHeader, Landmarks
<1>7. Laid(n + 4, "row")
  BY <1>1, <1>2, <1>4, <1>5, <1>6, LaidHeader
<1>8. CameFrom(n + 4, "row")
  <2>1. n + 4 - 4 = n
    BY <1>6
  <2>. QED  BY <1>6, <2>1 DEF CameFrom
<1>9. PICK n2 : n2 = n + 4
  OBVIOUS
<1>. QED  BY <1>2, <1>4, <1>7, <1>8, <1>9, AcceptStep

LEMMA AcceptBadStatement == ASSUME ParserInv, SoundInv, AcceptInv, BadStatement  PROVE AcceptInv'
<1>1. SomeTokens
  BY TokensSome DEF ParserInv
<1>2. /\ pc \in {"statement", "more"} /\ (pc = "more" => ~ OnXAt(index)) /\ index <= Len(tokens)
      /\ ~ TopAt(index) /\ ~ HeaderAt(index) /\ Fail
  BY DEF BadStatement, AtStatement
<1>3. PICK n, where : index = n /\ pc = where /\ CameFrom(n, where)
  BY <1>2 DEF AcceptInv, Reading
<1>4. n \in 1 .. Len(tokens)
  BY <1>1, <1>2, <1>3, TokensAre DEF SoundInv
<1>5. ~ LaidOut
  BY <1>1, <1>2, <1>3, <1>4, RefusedStatement
<1>. QED  BY <1>2, <1>5, AcceptFail DEF IsKeymap

(* The word of an operation that has no colon behind it, where the row's   *)
(* only action should begin. *)
LEMMA RefusedWord ==
  ASSUME TokenInv, SaysInv, TextInv, NEW n \in 1 .. Len(tokens) + 1, CameFrom(n, "row"), OnXAt(n), ~ MarkAt(n)
  PROVE  ~ IsKeymap
<1>. SUFFICES ASSUME IsKeymap  PROVE FALSE
  OBVIOUS
<1>1. SomeTokens /\ tokens \in Seq(SpelledToken)
  BY TokensSome DEF TokenInv
<1>2. LaidOut /\ n - 4 \in Header /\ n \in 1 .. Len(tokens)
      /\ Given(n - 4) = [op \in {"PRESS"} |-> ActionAt(n)]
  BY <1>1, RowWithoutColon DEF IsKeymap
<1>3. PICK list, h : list = ActionAt(n) /\ h = n - 4
  OBVIOUS
<1>4. "PRESS" \in DOMAIN Given(h) /\ Given(h)["PRESS"] = list
  BY <1>2, <1>3
<1>5. Succeeds(ParseActionList(list, "PRESS"))
  BY Zenon, <1>2, <1>3, <1>4 DEF IsKeymap
<1>6. /\ Len(list) = ActionEnd(n) - n + 1 /\ Head(list) = tokens[n]
      /\ ActionEnd(n) \in n .. Len(tokens)
  BY <1>1, <1>2, <1>3, ActionEndIs
<1>7. list \in Seq(SpelledToken) /\ list # <<>> /\ list[1] = tokens[n]
  <2>1. list = SubSeq(tokens, n, ActionEnd(n))
    BY Zenon, <1>3 DEF ActionAt
  <2>2. PICK e : e = ActionEnd(n)
    OBVIOUS
  <2>3. list \in Seq(SpelledToken)
    BY <1>1, <1>2, <1>6, <2>1, <2>2
  <2>4. Len(list) > 0
    BY <1>2, <1>6
  <2>. QED  BY <1>6, <2>3, <2>4
<1>8. tokens[n].type \in DOMAIN OnX /\ n \in DOMAIN tokens
  BY <1>1, <1>2, TokensAre DEF OnXAt
<1>9. tokens[n].text \in OnText
  BY <1>8, OperationText
<1>10. list[1].type \in DOMAIN OnX /\ list[1].text \in OnText
  BY Zenon, <1>7, <1>8, <1>9
<1>. QED  BY <1>5, <1>7, <1>10, OperationIsNoAction

LEMMA AcceptOnOperation ==
  ASSUME ParserInv, SoundInv, SaysInv, TextInv, AcceptInv, OnOperation  PROVE AcceptInv'
<1>1. SomeTokens /\ Len(tokens) \in Nat /\ TokenInv
  BY TokensSome, TokensAre DEF ParserInv
<1>2. pc \in {"row", "more"} /\ OnXAt(index) /\ tokenized = "tokens" /\ ~ Doomed
  BY <1>1, DoomedFails DEF OnOperation, AcceptInv
<1>3. Parsing
  BY <1>2 DEF ParserInv
<1>4. PICK n, where, rows, f : /\ index = n /\ pc = where /\ bindings = rows
                               /\ Walked(n, where) /\ RowsFound(n, where, rows, f)
  BY <1>3 DEF Parsing
<1>5. /\ CameFrom(n, where) /\ Laid(n, where) /\ n \in 1 .. Len(tokens) + 1 /\ n \in Nat
      /\ where \in {"row", "more"} /\ OnXAt(n)
  <2>1. CameFrom(n, where) /\ Laid(n, where)
    BY <1>2, <1>4 DEF AcceptInv, Reading
  <2>. QED  BY <1>1, <1>2, <1>4, <2>1 DEF Walked
<1>6. CASE ~ (At(n + 1, "SYM_COLON") /\ HasAction(n + 2))
  <2>1. Fail
    BY <1>4, <1>6 DEF OnOperation
  <2>2. ASSUME MarkAt(n)  PROVE ~ LaidOut
    <3>1. ~ HasAction(n + 2)
      BY <1>6, <2>2 DEF MarkAt
    <3>. QED  BY <1>1, <1>5, <2>2, <3>1, RefusedOperation
  <2>3. ASSUME ~ MarkAt(n), where = "more"  PROVE ~ LaidOut
    BY <1>1, <1>5, <2>3, RefusedMore
  <2>4. ASSUME ~ MarkAt(n), where = "row"  PROVE ~ IsKeymap
    BY <1>1, <1>5, <2>4, RefusedWord
  <2>5. ~ IsKeymap
    BY <1>5, <2>2, <2>3, <2>4 DEF IsKeymap
  <2>. QED  BY <2>1, <2>5, AcceptFail
<1>7. CASE At(n + 1, "SYM_COLON") /\ HasAction(n + 2)
  <2>1. PICK e : e = ActionEnd(n + 2)
    OBVIOUS
  <2>2. /\ pc' = "more" /\ index' = e + 1 /\ UNCHANGED <<tokenizerVars, error>>
    BY <1>4, <1>7, <2>1, Zenon DEF OnOperation, Operate
  <2>3. n \in Mark /\ n \in 1 .. Len(tokens) /\ MarkAt(n)
    <3>1. n \in DOMAIN tokens /\ MarkAt(n)
      BY <1>1, <1>5, <1>7, TokensAre DEF MarkAt, OnXAt
    <3>. QED  BY <1>1, <3>1, TokensAre DEF Mark
  <2>4. CameFrom(e + 1, "more")
    BY <2>1, <2>3 DEF CameFrom
  <2>5. PICK n2 : n2 = e + 1
    OBVIOUS
  <2>6. CASE MarkAt(n + 2)
    <3>1. n + 2 \in 1 .. Len(tokens)
      BY <1>1, <1>5, <1>7 DEF HasAction
    <3>2. e = n + 2
      BY <1>1, <2>1, <2>6, <3>1, ActionOfMark
    <3>3. n2 \in Nat /\ At(n2, "SYM_COLON")
      <4>1. (n + 2) + 1 = n2 /\ n2 \in Nat
        BY <1>5, <2>5, <3>2
      <4>. QED  BY <2>6, <4>1 DEF MarkAt
    <3>4. UNCHANGED tokens /\ tokenized' = tokenized /\ error' = error
      BY <2>2 DEF tokenizerVars
    <3>5. Doomed'
      BY <2>2, <2>5, <3>3, <3>4 DEF Doomed, At
    <3>6. CameFrom(n2, "more")'
      BY <2>4, <2>5, <3>4, AcceptSame
    <3>7. Reading'
      BY <2>2, <2>5, <3>5, <3>6 DEF Reading
    <3>. QED  BY <1>2, <2>2, <3>4, <3>7 DEF AcceptInv
  <2>7. CASE ~ MarkAt(n + 2)
    <3>1. /\ n + 2 \in ActionHead /\ Landmark \cap n + 2 .. ActionEnd(n + 2) = {}
      BY <1>1, <1>4, <1>5, <1>7, <2>7, WalkOperation
    <3>2. \E h \in Header : n \in MarksOf(h) /\ MarkAt(h + 4)
      BY <1>1, <1>4, <1>5, <2>3, RowOfMark
    <3>3. n \notin Header /\ n \notin Top /\ n + 1 \notin Header /\ n + 1 \notin Top /\ n + 1 \notin Mark
      <4>1. n \in n .. n + 1 /\ n + 1 \in n .. n + 1
        BY <1>5
      <4>2. ~ HeaderAt(n) /\ ~ HeaderAt(n + 1) /\ ~ TopAt(n) /\ ~ TopAt(n + 1) /\ ~ OnXAt(n + 1)
        BY <1>1, <2>3, <4>1, MarkIs
      <4>. QED  BY <4>2 DEF Header, Top, Mark, MarkAt
    <3>4. Accounted(n) /\ Accounted(n + 1)
      <4>1. n \in n .. n + 1 /\ n + 1 \in n .. n + 1
        BY <1>5
      <4>. QED  BY <2>3, <4>1 DEF Accounted
    <3>5. PICK i \in n .. n + 2 : i = n + 2
      BY <1>5
    <3>6. \A j \in n .. i - 1 : j = n \/ j = n + 1
      BY <1>5, <3>5
    <3>7. \A j \in n .. i - 1 :
            /\ j \notin Header /\ j \notin Top /\ Accounted(j)
            /\ j \in Mark => i = j + 2 /\ \E h \in Header : j \in MarksOf(h) /\ MarkAt(h + 4)
      BY Zenon, <3>2, <3>3, <3>4, <3>5, <3>6
    <3>8. i \in ActionHead /\ HasAction(i) /\ Landmark \cap i .. ActionEnd(i) = {}
      BY Zenon, <1>7, <3>1, <3>5
    <3>9. Laid(ActionEnd(i) + 1, "more")
      BY <1>1, <1>4, <1>5, <2>3, <3>7, <3>8, LaidBehind
    <3>10. Laid(n2, "more")
      BY Zenon, <2>1, <2>5, <3>5, <3>9
    <3>11. CameFrom(n2, "more") /\ index' = n2
      BY Zenon, <2>2, <2>4, <2>5
    <3>. QED  BY <1>2, <2>2, <3>10, <3>11, AcceptStep
  <2>. QED  BY <2>6, <2>7
<1>. QED  BY <1>6, <1>7

LEMMA AcceptInline == ASSUME ParserInv, SoundInv, AcceptInv, Inline  PROVE AcceptInv'
<1>1. SomeTokens
  BY TokensSome DEF ParserInv
<1>2. pc = "row" /\ ~ OnXAt(index) /\ tokenized = "tokens" /\ ~ Doomed
  BY DEF Inline, AcceptInv, Doomed
<1>3. Parsing
  BY <1>2 DEF ParserInv
<1>4. PICK n, where, rows, f : /\ index = n /\ pc = where /\ bindings = rows
                               /\ Walked(n, where) /\ RowsFound(n, where, rows, f)
  BY <1>3 DEF Parsing
<1>5. /\ CameFrom(n, "row") /\ Laid(n, "row") /\ Walked(n, "row") /\ n \in 1 .. Len(tokens) + 1 /\ n \in Nat
      /\ ~ OnXAt(n)
  <2>1. CameFrom(n, "row") /\ Laid(n, "row")
    BY <1>2, <1>4 DEF AcceptInv, Reading
  <2>. QED  BY <1>1, <1>2, <1>4, <2>1, TokensAre DEF Walked
<1>6. CASE ~ HasAction(n)
  <2>1. Fail
    BY <1>4, <1>6 DEF Inline
  <2>2. ~ LaidOut
    BY <1>1, <1>5, <1>6, RefusedRow
  <2>. QED  BY <2>1, <2>2, AcceptFail DEF IsKeymap
<1>7. CASE HasAction(n)
  <2>1. PICK e : e = ActionEnd(n)
    OBVIOUS
  <2>2. /\ pc' = "statement" /\ index' = e + 1 /\ UNCHANGED <<tokenizerVars, error>>
    BY <1>4, <1>7, <2>1, Zenon DEF Inline, Operate
  <2>3. n - 4 \in Header /\ n \in ActionHead /\ Landmark \cap n .. ActionEnd(n) = {}
    BY <1>1, <1>5, <1>7, WalkInline
  <2>4. CameFrom(e + 1, "statement")
    <3>1. PICK h \in Header : h = n - 4
      BY <2>3
    <3>2. h + 4 = n
      BY <1>5, <3>1
    <3>. QED  BY <1>5, <2>1, <3>2 DEF CameFrom
  <2>5. Laid(ActionEnd(n) + 1, "statement")
    <3>1. n \in n .. n + 2 /\ n .. n - 1 = {}
      BY <1>5
    <3>. QED  BY <1>1, <1>5, <1>7, <2>3, <3>1, LaidBehind
  <2>6. PICK n2 : n2 = e + 1
    OBVIOUS
  <2>7. index' = n2 /\ CameFrom(n2, "statement") /\ Laid(n2, "statement")
    BY Zenon, <2>1, <2>2, <2>4, <2>5, <2>6
  <2>. QED  BY <1>2, <2>2, <2>7, AcceptStep
<1>. QED  BY <1>6, <1>7

LEMMA AcceptParsed == ASSUME ParserInv, AcceptInv, Parsed  PROVE AcceptInv'
<1>1. SomeTokens /\ Len(tokens) \in Nat
  BY TokensSome, TokensAre DEF ParserInv
<1>2. /\ pc \in {"statement", "more"} /\ index > Len(tokens) /\ pc' = "bind" /\ tokenized = "tokens"
      /\ UNCHANGED <<tokenizerVars, layer, error>> /\ UNCHANGED tokens /\ bindings' = bindings /\ ~ error
  BY DEF Parsed, AtStatement, tokenizerVars, AcceptInv
<1>3. Parsing /\ ~ Doomed
  BY <1>1, <1>2, DoomedFails DEF ParserInv
<1>4. PICK n, where, rows, f : /\ index = n /\ pc = where /\ bindings = rows
                               /\ Walked(n, where) /\ RowsFound(n, where, rows, f)
  BY <1>3 DEF Parsing
<1>5. n = Len(tokens) + 1 /\ where # "row"
  BY <1>1, <1>2, <1>4 DEF Walked
<1>6. Laid(n, where)
  BY <1>2, <1>3, <1>4 DEF AcceptInv, Reading
<1>7. LaidOut
  BY <1>1, <1>4, <1>5, <1>6, LaidEnd
<1>8. /\ InOrder(f, Len(rows), Header)
      /\ \A r \in 1 .. Len(rows) : rows[r] = [key |-> KeyOf(f[r]), ops |-> Given(f[r])]
  BY <1>1, <1>4, <1>5, FoundAll
<1>9. PICK R : rows \in Seq(R)
  BY <1>4 DEF RowsFound
<1>10. Rest(Len(rows), f, rows) /\ Good(Len(rows), f, rows)
  BY <1>1, <1>8, <1>9, BoundInit, GoodInit
<1>11. PICK k : k = Len(rows)
  OBVIOUS
<1>12. Rest(k, f, rows)' /\ Good(k, f, rows)'
  BY <1>2, <1>10, <1>11, GoodSame
<1>13. BindingGood'
  BY <1>2, <1>4, <1>12 DEF BindingGood
<1>14. LaidOut'
  BY <1>2, <1>7, AcceptSame
<1>15. tokenized' = tokenized /\ error' = error
  BY <1>2 DEF tokenizerVars
<1>. QED  BY <1>2, <1>13, <1>14, <1>15 DEF AcceptInv

LEMMA AcceptBindOperation == ASSUME ParserInv, AcceptInv, BindOperation  PROVE AcceptInv'
<1>1. SomeTokens
  BY TokensSome DEF ParserInv
<1>2. PICK op : /\ pc = "bind" /\ bindings # <<>> /\ op \in DOMAIN bindings[1].ops
                /\ Succeeds(ParseActionList(bindings[1].ops[op], op))
                /\ bindings' = Less(bindings, op)
                /\ UNCHANGED <<tokenizerVars, index, pc, error>>
  BY Zenon DEF BindOperation, NextOperation, ParseNext, Without, Less
<1>3. PICK k, f, rows : bindings = rows /\ Rest(k, f, rows) /\ Good(k, f, rows)
  BY <1>2 DEF AcceptInv, BindingGood
<1>4. PICK rows2 : rows2 = Less(rows, op)
  OBVIOUS
<1>5. rows # <<>> /\ op \in DOMAIN rows[1].ops /\ Succeeds(ParseActionList(rows[1].ops[op], op))
  BY <1>2, <1>3
<1>6. Rest(k, f, rows2) /\ Good(k, f, rows2)
  BY <1>1, <1>3, <1>4, <1>5, GoodNext
<1>7. UNCHANGED tokens /\ tokenized' = tokenized /\ error' = error /\ pc' = "bind" /\ bindings' = rows2
  BY <1>2, <1>3, <1>4 DEF tokenizerVars
<1>8. Rest(k, f, rows2)' /\ Good(k, f, rows2)'
  BY <1>6, <1>7, GoodSame
<1>9. BindingGood' /\ LaidOut'
  BY <1>2, <1>7, <1>8, AcceptSame DEF BindingGood, AcceptInv
<1>. QED  BY <1>2, <1>7, <1>9 DEF AcceptInv

LEMMA AcceptBindFails == ASSUME ParserInv, AcceptInv, BindFails  PROVE AcceptInv'
<1>1. SomeTokens
  BY TokensSome DEF ParserInv
<1>2. PICK op : /\ pc = "bind" /\ bindings # <<>> /\ op \in DOMAIN bindings[1].ops
                /\ ParseActionList(bindings[1].ops[op], op).type \in {"REJECTED", "UNDEFINED"} /\ Fail
  BY Zenon DEF BindFails, NextOperation, ParseNext
<1>3. PICK k, f, rows : bindings = rows /\ Rest(k, f, rows) /\ Good(k, f, rows)
  BY <1>2 DEF AcceptInv, BindingGood
<1>4. rows # <<>> /\ op \in DOMAIN rows[1].ops /\ ~ Succeeds(ParseActionList(rows[1].ops[op], op))
  BY <1>2, <1>3 DEF Succeeds
<1>5. PICK r : r = k - Len(rows) + 1
  OBVIOUS
<1>6. f[r] \in Header /\ op \in DOMAIN Given(f[r]) /\ rows[1].ops[op] = Given(f[r])[op]
  BY <1>1, <1>3, <1>4, <1>5, RestGiven
<1>7. ~ IsKeymap
  BY Zenon, <1>4, <1>6 DEF IsKeymap
<1>. QED  BY <1>2, <1>7, AcceptFail

LEMMA AcceptAllBound == ASSUME ParserInv, AcceptInv, AllBound  PROVE AcceptInv'
<1>1. SomeTokens
  BY TokensSome DEF ParserInv
<1>2. /\ pc = "bind" /\ bindings = <<>> /\ pc' = "done" /\ UNCHANGED tokens
      /\ tokenized' = tokenized /\ error' = error
  BY DEF AllBound, tokenizerVars
<1>3. PICK k, f, rows : bindings = rows /\ Rest(k, f, rows) /\ Good(k, f, rows)
  BY <1>2 DEF AcceptInv, BindingGood
<1>4. AllActions
  BY <1>1, <1>2, <1>3, GoodAll
<1>5. IsKeymap
  BY <1>2, <1>4 DEF AcceptInv, IsKeymap, AllActions
<1>6. IsKeymap'
  BY <1>2, <1>5, AcceptSame
<1>. QED  BY <1>2, <1>6 DEF AcceptInv

LEMMA AcceptStutter == ASSUME AcceptInv, UNCHANGED vars  PROVE AcceptInv'
<1>1. /\ UNCHANGED tokens /\ tokenized' = tokenized /\ pc' = pc /\ error' = error
      /\ index' = index /\ bindings' = bindings
  BY DEF vars, parserVars, tokenizerVars
<1>2. (LaidOut' <=> LaidOut) /\ (IsKeymap' <=> IsKeymap)
  BY <1>1, AcceptSame
<1>3. ASSUME Reading  PROVE Reading'
  <2>1. PICK n, where : /\ index = n /\ pc = where
                        /\ CameFrom(n, where) /\ (Laid(n, where) \/ Doomed)
    BY <1>3 DEF Reading
  <2>2. Doomed => Doomed'
    BY <1>1 DEF Doomed, At
  <2>3. CameFrom(n, where)' /\ (Laid(n, where)' \/ Doomed')
    BY <1>1, <2>1, <2>2, AcceptSame
  <2>. QED  BY <1>1, <2>1, <2>3 DEF Reading
<1>4. ASSUME BindingGood  PROVE BindingGood'
  <2>1. PICK k, f, rows : bindings = rows /\ Rest(k, f, rows) /\ Good(k, f, rows)
    BY <1>4 DEF BindingGood
  <2>2. Rest(k, f, rows)' /\ Good(k, f, rows)'
    BY <1>1, <2>1, GoodSame
  <2>. QED  BY <1>1, <2>1, <2>2 DEF BindingGood
<1>. QED  BY <1>1, <1>2, <1>3, <1>4 DEF AcceptInv

LEMMA AcceptNext ==
  ASSUME ParserInv, SoundInv, SaysInv, TextInv, AcceptInv, [Next]_vars  PROVE AcceptInv'
<1>1. CASE TokenizeFails
  BY <1>1, AcceptFail DEF TokenizeFails
<1>2. CASE Halt
  BY <1>2 DEF Halt, AcceptInv, ParserInv, NextOperation
<1>3. CASE UNCHANGED vars
  BY <1>3, AcceptStutter
<1>. QED  BY <1>1, <1>2, <1>3, AcceptTokenize, AcceptTokenized, AcceptTopStatement, AcceptRowHeader,
             AcceptBadStatement, AcceptOnOperation, AcceptInline, AcceptParsed, AcceptBindOperation,
             AcceptBindFails, AcceptAllBound
          DEF Next, Step, Stopped

(* A text of any length is read without an error just when it is one that  *)
(* tokenize can read and a keymap, every action of which is one (tokenize, *)
(* parse, parse_source).                                                   *)
THEOREM AcceptsCorrect == Spec => []AcceptsKeymaps
<1>1. Init => SaysInv /\ TextInv
  BY DEF Init, TokenizerInit, SaysInv, TextInv
<1>2. Init => AcceptInv
  BY DEF Init, AcceptInv
<1>3. /\ ParserInv /\ SoundInv /\ SaysInv /\ TextInv /\ AcceptInv /\ [Next]_vars
      => SaysInv' /\ TextInv' /\ AcceptInv'
  BY SaysNext, TextNext, AcceptNext DEF ParserInv
<1>4. TextRead /\ AcceptInv => AcceptsKeymaps
  BY DEF TextRead, AcceptInv, AcceptsKeymaps
<1>5. Spec => [](ParserInv /\ SoundInv) /\ []TextRead
  BY SoundCorrect, ReadCorrect
<1>. QED  BY <1>1, <1>2, <1>3, <1>4, <1>5, PTL DEF Spec
=============================================================================
