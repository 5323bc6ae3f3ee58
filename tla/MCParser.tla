------------------------------ MODULE MCParser ------------------------------
(***************************************************************************)
(* Keymap files for checking Parser: rows with every kind of action, well  *)
(* formed and not, files of several rows, files with one token of a small  *)
(* keymap left out or replaced; and texts around every phrase, cut short,  *)
(* run into what follows, and with other signs in place of its blanks.     *)
(***************************************************************************)
EXTENDS Parser

CONSTANTS Base, Fn

(* Tokens by the pieces they are written in, with blanks between them. *)
Words(type)   == (CHOOSE q \in Written : q.type = type).text
Decimal       == [n \in 0 .. 1000 |-> IF n < 10 THEN <<ToString(n)>>
                    ELSE IF n < 100 THEN <<ToString(n \div 10), ToString(n % 10)>>
                    ELSE IF n < 1000 THEN <<ToString(n \div 100), ToString((n \div 10) % 10), ToString(n % 10)>>
                    ELSE <<"1", "0", "0", "0">>]
Num(n)        == Decimal[n]
Hex1E0        == <<"0", "x", "1", "e", "0">>
Quoted        == <<"\"", "ab", "\"">>
Row(n)        == <<"R">> \o Decimal[n]
Key(n)        == <<"K">> \o Decimal[n]
Comma         == <<",">>
Plus          == <<"+">>
Colon         == <<":">>
A             == <<"A">>
B             == <<"B">>
Left          == <<"LEFT">>
Shift         == <<"SHIFT">>
FnName        == <<"Fn">>
Unknown       == <<"Zzz">>
Say(list)     == FlattenSeq([i \in DOMAIN list |-> list[i] \o <<" ">>])

Capitals      == ("Press" :> "press") @@ ("Mouse" :> "mouse")
MCHexLetters  == {"A", "B", "ab", "e"}
PhraseWord    ==
  DOMAIN OneWord \cup DOMAIN MouseWord \cup UNION {DOMAIN MouseWord[v] : v \in DOMAIN MouseWord} \cup
  UNION {ToSet(t) : t \in DOMAIN Trigger} \cup UNION {ToSet(<<w>> \o GoesOn[w].rest) : w \in DOMAIN GoesOn}
MCLetters     == (MCHexLetters \cup PhraseWord \cup DOMAIN Capitals \cup
                    {"on", "mouse", "R", "K", "r", "x", "LEFT", "SHIFT", "Fn", "Zzz", "wards"})
                   \ {" ", "-"}
MCLower       == Capitals @@ [w \in MCLetters |-> w]
DigitValue    == [d \in Digit \cup {"e"} |-> IF d = "e" THEN 14
                    ELSE CHOOSE n \in 0 .. 9 : Decimal[n] = <<d>>]
MCValueOf(text) ==
  LET base == IF Len(text) > 1 /\ text[2] = "x" THEN 16 ELSE 10
      next(value, c) == IF c \in DOMAIN DigitValue THEN base * value + DigitValue[c] ELSE value
  IN  FoldLeft(next, 0, text)

MCLayerIds   == {Base, Fn}
MCKeyNames   == (A :> 4) @@ (B :> 5) @@ (Left \o Shift :> 225) @@ (Num(1) :> 30)
MCLayerOf(name)   == IF name = <<<<0, FnName>>>> THEN Fn ELSE Base
MCTypedText(text) == <<97, 98>>

Millisecond == Words("PARAMETER_TIME_MS")
Until       == Words("PARAMETER_UNTIL_RELEASED")
Type        == Words("ACTION_TYPE")
SwitchWord  == Words("ACTION_SWITCH_TO")

Actions ==
  {<<A>>, <<A, Plus, Left, Shift>>, <<A, Comma, B>>, <<Hex1E0>>, <<Num(1)>>,
   <<SwitchWord, FnName>>, <<SwitchWord, FnName, Until>>,
   <<Type, Quoted>>, <<Type, Quoted, Words("PARAMETER_SLOWLY"), A>>,
   <<Type, Quoted, Num(5), Millisecond, Words("PARAMETER_REPEATEDLY")>>,
   <<Words("ACTION_WAIT"), Num(5), Words("PARAMETER_TIME_SEC")>>,
   <<Words("ACTION_WAIT"), Num(5), Words("PARAMETER_TIME_MIN"), Comma, A>>}
    \cup {<<Words(w), A, Plus, B>> : w \in DOMAIN KeyWord}
    \cup {<<Words(w), FnName>> : w \in DOMAIN LayerWord}
    \cup {<<Words(w)>> : w \in DOMAIN BareWord \cup DOMAIN ButtonWord}
    \cup {<<Words(w), Num(100)>> : w \in MoveWord \cup ScrollWord}

BadActions ==
  {<<Unknown>>, <<Hex1E0, A>>, <<A, Plus, Plus, B>>, <<A, Comma>>, <<Plus, A>>,
   <<A, Comma, Comma, B>>, <<A, Plus, Comma, B>>, <<Unknown, Plus, Comma, B>>,
   <<SwitchWord>>, <<SwitchWord, Until>>, <<Type>>, <<Type, A>>,
   <<Type, Quoted, Num(5)>>, <<Type, Quoted, Num(1000), Millisecond>>,
   <<Type, Quoted, Num(5), Millisecond, Words("PARAMETER_QUICKLY")>>,
   <<Type, Quoted, Words("PARAMETER_QUICKLY"), Words("PARAMETER_SLOWLY")>>,
   <<Words("ACTION_WAIT"), Num(5)>>, <<Words("ACTION_WAIT"), Num(1000), Millisecond>>,
   <<Words("ACTION_WAIT"), A, Millisecond>>, <<Words("ACTION_WAIT"), Num(5), A>>}
    \cup {<<Words(w)>> : w \in DOMAIN KeyWord \cup DOMAIN LayerWord}
    \cup {<<Words(w), Plus, A>> : w \in DOMAIN KeyWord}
    \cup {<<Words(w), A>> : w \in DOMAIN BareWord \cup DOMAIN ButtonWord}
    \cup {<<Words(w), n>> : w \in MoveWord \cup ScrollWord, n \in {A, Num(101), Num(1000)}}

Place(row, key)   == <<Row(row), Comma, Key(key), Colon>>
On(op, action)  == <<Words(op), Colon>> \o action
PressHold       == {"OPERATION_PRESS", "OPERATION_HOLD"}
TopWords        == {<<Words(w)>> : w \in TopWord}

OneRow ==
  {Place(0, 1) \o a : a \in Actions \cup BadActions} \cup
  {Place(0, 1) \o On(op, a) : op \in DOMAIN OnX, a \in Actions \cup BadActions}

(* Both operations of a row may be the same one, and fail. *)
Few == {<<A>>, <<B, Comma, A>>, <<Unknown>>, <<A, Comma, Comma, B>>}
TwoOperations ==
  {Place(0, 1) \o On(op1, a1) \o On(op2, a2) :
     op1 \in PressHold, op2 \in PressHold, a1 \in Few, a2 \in Few}

(* The second row speaks of the same key or of another one; 0,13 is 1,1. *)
SmallRows == {<<A>>, <<Unknown>>} \cup
                  {On(op, a) : op \in PressHold, a \in {<<B>>, <<Unknown>>}} \cup
                  {On("OPERATION_HOLD", <<A>>) \o On("OPERATION_PRESS", <<B>>)}
Rows(row, key) == {Place(row, key) \o r : r \in SmallRows}
Files ==
  {<<>>} \cup TopWords
    \cup {t \o r1 \o r2 : t \in TopWords \cup {<<>>}, r1 \in Rows(1, 1), r2 \in Rows(0, 13) \cup Rows(1, 2)}
    \cup {r1 \o t \o r2 : t \in TopWords, r1 \in Rows(1, 1), r2 \in Rows(1, 1)}

(* One token of a small keymap left out, or another in its place. *)
Small == Place(0, 1) \o On("OPERATION_PRESS", <<A, Plus, B>>) \o On("OPERATION_PRESS", <<A, Comma, B>>)
           \o Place(0, 2) \o <<A>> \o <<Words("TOP_BLOCK_OTHER_KEYS")>>
Other == {Row(0), Key(2), Comma, Plus, Colon, A, Quoted, Until, Num(5), Words("OPERATION_HOLD"),
          Words("TOP_BLOCK_OTHER_KEYS")}
Damaged ==
  {SubSeq(Small, 1, i - 1) \o SubSeq(Small, i + 1, Len(Small)) : i \in DOMAIN Small} \cup
  {SubSeq(Small, 1, i) : i \in DOMAIN Small} \cup
  {[Small EXCEPT ![i] = t] : i \in DOMAIN Small, t \in Other}

(* Any three tokens or fewer behind a header, or behind an operation.       *)
Scraps == UNION {[1 .. n -> Other] : n \in 0 .. 3}
Begun  == {Place(0, 1), Place(0, 1) \o On("OPERATION_HOLD", <<A>>)}
Short  == {b \o s : b \in Begun, s \in Scraps}

(* Every phrase, whole or cut short, with something behind it at once; and  *)
(* with something else for its last blank.                                  *)
Phrases == {q.text : q \in Written} \cup
           {<<"at", " ", "human", " ", "speed">>, <<"Press">>, <<"Mouse", " ", "click", " ", "left">>}
Behind  == {<<>>, <<" ">>, <<" ", "A">>, <<"\n", "A">>, <<"wards">>, <<"5">>, <<"-">>, <<"+", "1">>,
            <<"\"", "#", "\"">>, <<"#", "\"">>, <<" ", "on", " ", "press", "A">>}
CutShort   == UNION {{SubSeq(p, 1, n) \o b : n \in DOMAIN p, b \in Behind} : p \in Phrases}
LastBlank(p) == Max({i \in DOMAIN p : p[i] = " "} \cup {0})
OtherBlank == {[p EXCEPT ![LastBlank(p)] = b] \o <<"\n", "A">> :
                 p \in {p \in Phrases : LastBlank(p) > 0}, b \in {"\t", "\n", "+", "5", "#", "\""}}

(* A phrase of the mouse, or a literal, where no token begins. *)
Amid == {f \o p : f \in {<<"ab", "5">>, <<"5">>, <<"ab", "+">>, <<"mouse", " ", "move", " ", "up">>},
                  p \in {<<"mouse", " ", "move", b, "up">> : b \in {"\"", "#", "-"}} \cup
                        {<<"0", "x", "R">>, <<"on", " ", "double", "-", "click">>}}

(* Any three pieces of these. *)
Pieces == {" ", "\n", "#", "\"", "0", "x", "ab", "R", "r", "1", "-", "+", "on", "mouse", "release"}
Jumble == UNION {[1 .. n -> Pieces] : n \in 0 .. 3}

MCSource ==
  {Say(f) : f \in OneRow \cup TwoOperations \cup Files \cup Damaged \cup Short}
    \cup CutShort \cup OtherBlank \cup Amid \cup Jumble
=============================================================================
