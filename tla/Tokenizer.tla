----------------------------- MODULE Tokenizer -----------------------------
(***************************************************************************)
(* tokenize of src/tokenizer.cc: the text of a keymap, from left to right, *)
(* into tokens.                                                            *)
(*                                                                         *)
(* A text is a sequence of pieces: digits, blanks and signs one by one,    *)
(* letters in groups, each the longest there is (`towards' is `to' and     *)
(* `wards', and `towards' is no group).  As the last word of a phrase is   *)
(* the beginning of no other group, to compare pieces is to compare        *)
(* characters.  Texts where a hexadecimal literal runs into a word         *)
(* (0xclick) cannot be cut like this, and are left out.                    *)
(***************************************************************************)
EXTENDS Integers, SequencesExt

CONSTANTS
  Source,       (* the texts of keymap files *)
  Letters,      (* groups of letters *)
  HexLetters,   (* those that are hexadecimal digits *)
  Lower,        (* tolower, for each group *)
  ValueOf(_)    (* the number that a literal spells *)

VARIABLES
  source,       (* the text *)
  place,        (* tokenize's index in it, from 1 *)
  line_number,
  tokens,
  tokenized     (* what tokenize has returned: not yet anything, tokens, a *)
                (* message; or an exception it has thrown                  *)
tokenizerVars == <<source, place, line_number, tokens, tokenized>>

Digit  == {"0", "1", "2", "3", "4", "5", "6", "7", "8", "9"}
Blank  == {" ", "\t"}
Symbol ==
  [c \in {",", "+", ":"} |->
     IF c = "," THEN "SYM_COMMA" ELSE IF c = "+" THEN "SYM_PLUS" ELSE "SYM_COLON"]
AlNum  == Letters \cup Digit

(* What a word alone stands for. *)
OneWord ==
  [press   |-> "ACTION_PRESS",   release |-> "ACTION_RELEASE", click |-> "ACTION_CLICK",
   wait    |-> "ACTION_WAIT",    toggle  |-> "ACTION_TOGGLE",  leave |-> "ACTION_LEAVE",
   type    |-> "ACTION_TYPE",    home    |-> "ACTION_HOME",
   nothing |-> "ACTION_NOTHING", bootloader |-> "ACTION_BOOTLOADER",
   quickly |-> "PARAMETER_QUICKLY", slowly |-> "PARAMETER_SLOWLY",
   repeatedly |-> "PARAMETER_REPEATEDLY",
   ms  |-> "PARAMETER_TIME_MS",  millisecond |-> "PARAMETER_TIME_MS",
   milliseconds |-> "PARAMETER_TIME_MS",
   sec |-> "PARAMETER_TIME_SEC", second |-> "PARAMETER_TIME_SEC",
   seconds |-> "PARAMETER_TIME_SEC",
   min |-> "PARAMETER_TIME_MIN", minute |-> "PARAMETER_TIME_MIN",
   minutes |-> "PARAMETER_TIME_MIN"]

(* What `on' stands for, by what follows its blank. *)
OnWord  == [press |-> "OPERATION_PRESS", click   |-> "OPERATION_CLICK",
            hold  |-> "OPERATION_HOLD",  release |-> "OPERATION_RELEASE"]
DoubleClick == <<"double", "-", "click">>
Trigger ==
  [t \in {<<w>> : w \in DOMAIN OnWord} \cup {DoubleClick} |->
     IF t = DoubleClick THEN "OPERATION_DOUBLE_CLICK" ELSE OnWord[t[1]]]

(* What `mouse' stands for, by the two words that follow it. *)
MouseWord ==
  [move   |-> [up    |-> "ACTION_MOUSE_MOVE_UP",     down  |-> "ACTION_MOUSE_MOVE_DOWN",
               left  |-> "ACTION_MOUSE_MOVE_LEFT",   right |-> "ACTION_MOUSE_MOVE_RIGHT"],
   scroll |-> [up    |-> "ACTION_MOUSE_SCROLL_UP",   down  |-> "ACTION_MOUSE_SCROLL_DOWN",
               left  |-> "ACTION_MOUSE_SCROLL_LEFT", right |-> "ACTION_MOUSE_SCROLL_RIGHT"],
   click  |-> [left  |-> "ACTION_MOUSE_CLICK_LEFT",  right |-> "ACTION_MOUSE_CLICK_RIGHT",
               center    |-> "ACTION_MOUSE_CLICK_CENTER",
               backwards |-> "ACTION_MOUSE_CLICK_BACKWARDS",
               back      |-> "ACTION_MOUSE_CLICK_BACKWARDS",
               forwards  |-> "ACTION_MOUSE_CLICK_FORWARDS"]]

(* What a word stands for if the text goes on like this.  `looks' is how   *)
(* much of the text is compared: of ` human speed' one character.          *)
Phrase(rest, type) == [rest |-> rest, looks |-> Len(rest), type |-> type]
GoesOn ==
  [switch |-> Phrase(<<" ", "to">>, "ACTION_SWITCH_TO"),
   reset  |-> Phrase(<<" ", "keyboard">>, "ACTION_RESET_KEYBOARD"),
   pass   |-> Phrase(<<" ", "through">>, "ACTION_PASS_THROUGH"),
   reload |-> Phrase(<<" ", "key", " ", "maps">>, "ACTION_RELOAD_KEY_MAPS"),
   at     |-> [Phrase(<<" ", "human", " ", "speed">>, "PARAMETER_AT_HUMAN_SPEED")
                 EXCEPT !.looks = 1],
   until  |-> Phrase(<<" ", "released">>, "PARAMETER_UNTIL_RELEASED"),
   other  |-> Phrase(<<" ", "keys", " ", "fall", " ", "through">>, "TOP_OTHER_KEYS_FALL_THROUGH"),
   block  |-> Phrase(<<" ", "other", " ", "keys">>, "TOP_BLOCK_OTHER_KEYS")]

ASSUME PiecesAssumption ==
  /\ Letters \cap (Digit \cup Blank \cup DOMAIN Symbol \cup {"\n", "#", "\"", "-", "NUL"}) = {}
  /\ DOMAIN OneWord \cup DOMAIN GoesOn \cup {"on", "mouse", "R", "K", "x"} \subseteq Letters
  /\ DOMAIN OnWord \cup {"double"} \cup DOMAIN MouseWord \subseteq Letters
  /\ \A v \in DOMAIN MouseWord : DOMAIN MouseWord[v] \subseteq Letters
  /\ HexLetters \subseteq Letters
  /\ Lower \in [Letters -> Letters]

(* The phrases are cut like the texts. *)
ASSUME PhrasesAssumption ==
  \A w \in DOMAIN GoesOn : ToSet(GoesOn[w].rest) \subseteq Letters \cup Blank

(* ReadFile appends what it has read up to a NUL: none is in the text      *)
(* (src/filesystem.cc: out += buffer).                                     *)
ASSUME TextsAssumption ==
  \A text \in Source : text \in Seq(STRING) /\ "NUL" \notin ToSet(text)

(* A std::string ends with a NUL that may be looked at. *)
Char(i) == IF i \in DOMAIN source THEN source[i] ELSE "NUL"
(* Where a run of pieces that starts at i ends: the place behind it. *)
RunEnd(i, pieces) == Min({j \in i .. Len(source) + 1 : Char(j) \notin pieces})
Lowered(i, j) ==
  [k \in 1 .. j - i |-> IF Char(i + k - 1) \in Letters THEN Lower[Char(i + k - 1)]
                        ELSE Char(i + k - 1)]

TokenizerInit ==
  /\ source \in Source
  /\ place = 1 /\ line_number = 1
  /\ tokens = <<>> /\ tokenized = "nothing"

(* The token from here to the place before j. *)
Token(j, type) ==
  /\ tokens' = Append(tokens, [type |-> type, text |-> SubSeq(source, place, j - 1),
                               val  |-> ValueOf(SubSeq(source, place, j - 1)),
                               start |-> place, line |-> line_number])
  /\ place' = j
  /\ UNCHANGED <<source, line_number, tokenized>>

Return(what) == tokenized' = what /\ UNCHANGED <<source, place, line_number, tokens>>

Looking == tokenized = "nothing" /\ place <= Len(source)

SkipBlank ==
  /\ Looking /\ Char(place) \in Blank
  /\ place' = place + 1
  /\ UNCHANGED <<source, line_number, tokens, tokenized>>

(* Mutant: a line ends in two characters. *)
NewLineTakesTwo ==
  /\ Looking /\ Char(place) = "\n"
  /\ place' = place + 2 /\ line_number' = line_number + 1
  /\ UNCHANGED <<source, tokens, tokenized>>

NewLine ==
  /\ Looking /\ Char(place) = "\n"
  /\ place' = place + 1 /\ line_number' = line_number + 1
  /\ UNCHANGED <<source, tokens, tokenized>>

(* Mutant: the end of the line is eaten and not counted. *)
CommentUncounted ==
  /\ Looking /\ Char(place) = "#"
  /\ place' = Min({j \in place .. Len(source) + 1 : Char(j) \in {"\n", "NUL"}}) + 1
  /\ UNCHANGED <<source, line_number, tokens, tokenized>>

(* With the end of its line. *)
Comment ==
  /\ Looking /\ Char(place) = "#"
  /\ place' = Min({j \in place .. Len(source) + 1 : Char(j) \in {"\n", "NUL"}}) + 1
  /\ line_number' = line_number + 1
  /\ UNCHANGED <<source, tokens, tokenized>>

Sign ==
  /\ Looking /\ Char(place) \in DOMAIN Symbol
  /\ Token(place + 1, Symbol[Char(place)])

(* Newlines inside a string are not counted. *)
String ==
  /\ Looking /\ Char(place) = "\""
  /\ LET quotes == {j \in place + 1 .. Len(source) : Char(j) = "\""}
     IN  IF quotes # {} THEN Token(Min(quotes) + 1, "STRING_LIT") ELSE Return("message")

HexDigit == Digit \cup HexLetters
AtHex == Char(place) = "0" /\ Char(place + 1) = "x"

HexLiteral ==
  /\ Looking /\ AtHex
  /\ IF Char(place + 2) \in HexDigit
     THEN Token(RunEnd(place + 2, HexDigit), "HEX_LIT") ELSE Return("message")

Number ==
  /\ Looking /\ Char(place) \in Digit /\ ~ AtHex
  /\ Token(RunEnd(place, Digit), "NUM_LIT")

Unexpected ==
  /\ Looking
  /\ Char(place) \notin AlNum \cup Blank \cup DOMAIN Symbol \cup {"\n", "#", "\""}
  /\ Return("message")

-----------------------------------------------------------------------------
(* Words.  R and K with nothing but digits are rows and keys, and only as  *)
(* capitals; everything else is compared in lower case.                    *)
AtWord  == Looking /\ Char(place) \in Letters
WordEnd == RunEnd(place, AlNum)
Word    == Lowered(place, WordEnd)
AtPlace ==
  /\ AtWord /\ Char(place) \in {"R", "K"} /\ WordEnd > place + 1
  /\ \A i \in place + 1 .. WordEnd - 1 : Char(i) \in Digit

RowOrKey ==
  /\ AtPlace
  /\ Token(WordEnd, IF Char(place) = "R" THEN "ROW_LIT" ELSE "KEY_LIT")

Is(words) == AtWord /\ ~ AtPlace /\ Len(Word) = 1 /\ Word[1] \in words

(* on press, on double-click, ... *)
TriggerEnd == RunEnd(WordEnd + 1, AlNum \cup {"-"})
AtTrigger  == /\ Is({"on"}) /\ Char(WordEnd) = " "
              /\ Lowered(WordEnd + 1, TriggerEnd) \in DOMAIN Trigger
OnTrigger  == AtTrigger /\ Token(TriggerEnd, Trigger[Lowered(WordEnd + 1, TriggerEnd)])

(* mouse move up, ...: what stands between the last two words is passed    *)
(* over unseen.  If nothing does, as the text ends there, the look behind  *)
(* it throws.                                                              *)
VerbEnd   == RunEnd(WordEnd + 1, Letters)
LastEnd   == RunEnd(VerbEnd + 1, Letters)
AtVerb(v) == Is({"mouse"}) /\ Char(WordEnd) = " " /\ Lowered(WordEnd + 1, VerbEnd) = <<v>>
AtMouse(v, d) ==
  AtVerb(v) /\ VerbEnd <= Len(source) /\ Lowered(VerbEnd + 1, LastEnd) = <<d>>

MouseAction ==
  \E v \in DOMAIN MouseWord : \E d \in DOMAIN MouseWord[v] :
    AtMouse(v, d) /\ Token(LastEnd, MouseWord[v][d])
MouseThrows ==
  \E v \in DOMAIN MouseWord : AtVerb(v) /\ VerbEnd > Len(source) /\ Return("exception")

SingleWord == Is(DOMAIN OneWord) /\ Token(WordEnd, OneWord[Word[1]])

Continues ==
  /\ Is(DOMAIN GoesOn)
  /\ Lowered(WordEnd, WordEnd + GoesOn[Word[1]].looks) = GoesOn[Word[1]].rest
LongPhrase ==
  Continues /\ Token(WordEnd + Len(GoesOn[Word[1]].rest), GoesOn[Word[1]].type)

(* Neither a row or key nor one of the words that stand for something. *)
NoKeyword ==
  /\ AtWord /\ ~ AtPlace /\ ~ AtTrigger /\ ~ Is(DOMAIN OneWord) /\ ~ Continues
  /\ ~ \E v \in DOMAIN MouseWord :
         AtVerb(v) /\ (VerbEnd > Len(source) \/ \E d \in DOMAIN MouseWord[v] : AtMouse(v, d))

(* Mutant: the look behind `on' is not taken back. *)
IdentifierKeepsLook ==
  NoKeyword /\ Token(IF Is({"on"}) /\ Char(WordEnd) = " " THEN TriggerEnd ELSE WordEnd, "IDENTIFIER")
Identifier == NoKeyword /\ Token(WordEnd, "IDENTIFIER")

EndOfText == tokenized = "nothing" /\ place > Len(source) /\ Return("tokens")

TokenizeStep ==
  \/ SkipBlank \/ NewLine \/ Comment \/ Sign \/ String \/ HexLiteral \/ Number
  \/ Unexpected \/ RowOrKey \/ OnTrigger \/ MouseAction \/ MouseThrows
  \/ SingleWord \/ LongPhrase \/ Identifier \/ EndOfText
-----------------------------------------------------------------------------
(***************************************************************************)
(* How a text is to be read, piece by piece, when nothing is known of it   *)
(* but where its tokens begin: which of its pieces are in a string, in a   *)
(* comment, blank or text; and what each phrase is when it is written out. *)
(***************************************************************************)
Stop(token) == token.start + Len(token.text)
Returned    == tokenized # "nothing"
InToken(i)  == \E k \in DOMAIN tokens : i \in tokens[k].start .. Stop(tokens[k]) - 1
Begins(i)   == \E k \in DOMAIN tokens : tokens[k].start = i
Inside(i)   == \E k \in DOMAIN tokens : i \in tokens[k].start + 1 .. Stop(tokens[k]) - 1

(* What stands behind `mouse move', whatever it is, if `up' comes next.    *)
BehindMouse(i) ==
  \E v \in DOMAIN MouseWord : \E d \in DOMAIN MouseWord[v] :
    /\ i \in DOMAIN source /\ i > 3 /\ source[i] \notin Letters
    /\ Lowered(i - 3, i) = <<"mouse", " ", v>>
    /\ Lowered(i + 1, RunEnd(i + 1, Letters)) = <<d>>
Swallowed(i) == Begins(i - 3) /\ BehindMouse(i)

KindAfter(last, i) ==
  IF last = "string" THEN IF source[i] = "\"" THEN "closing" ELSE "string"
  ELSE IF last = "comment" /\ source[i] # "\n" THEN "comment"
  ELSE IF source[i] \in Blank \cup {"\n"} THEN "blank"
  ELSE IF source[i] = "\"" /\ ~ Swallowed(i) THEN "string"
  ELSE IF source[i] = "#" /\ ~ Swallowed(i) THEN "comment"
  ELSE "text"
Kinds ==
  LET kind[i \in 0 .. Len(source)] == IF i = 0 THEN "blank" ELSE KindAfter(kind[i - 1], i)
  IN  kind

(* Nothing of a text is read twice, nothing but blanks and comments is     *)
(* left out, and no comment is read: the loops inside tokenize, each with  *)
(* its own idea of where it ends, hand the text on to each other without a *)
(* gap (tokenize).                                                         *)
TokensCoverTheText ==
  Returned =>
  LET kinds == Kinds
  IN  /\ \A k \in 1 .. Len(tokens) - 1 : Stop(tokens[k]) <= tokens[k + 1].start
      /\ \A i \in DOMAIN source : i < place =>
           /\ kinds[i] \in {"text", "string", "closing"} => InToken(i)
           /\ kinds[i] = "comment" => ~ InToken(i)

(* Every phrase as it is written, and what must not follow it at once.     *)
(* "at human speed" is left out: tokenize knows it and never finds it.     *)
Written ==
  {[text |-> <<w>>, type |-> OneWord[w], ends |-> AlNum] : w \in DOMAIN OneWord} \cup
  {[text |-> <<"on", " ">> \o t, type |-> Trigger[t], ends |-> AlNum \cup {"-"}] :
     t \in DOMAIN Trigger} \cup
  (UNION {{[text |-> <<"mouse", " ", v, " ", d>>, type |-> MouseWord[v][d], ends |-> Letters] :
             d \in DOMAIN MouseWord[v]} : v \in DOMAIN MouseWord}) \cup
  {[text |-> <<w>> \o GoesOn[w].rest, type |-> GoesOn[w].type, ends |-> {}] :
     w \in DOMAIN GoesOn \ {"at"}}

Literal == {"STRING_LIT", "NUM_LIT", "HEX_LIT", "ROW_LIT", "KEY_LIT"} \cup
           {Symbol[c] : c \in DOMAIN Symbol}
TypeOfToken == Literal \cup {"IDENTIFIER"} \cup {q.type : q \in Written}

(* A token that is a word is the phrase that begins there, all of it, or   *)
(* else one word: what tokenize has looked at beyond a word and not found  *)
(* to its taste is looked at again (tokenize: old_index).                  *)
TokensSayTheText ==
  Returned => \A k \in DOMAIN tokens : tokens[k].type \notin Literal =>
    LET token == tokens[k]
        word  == Lower[Head(token.text)]
        here  == {q \in Written : /\ word = Head(q.text)
                                  /\ Lowered(token.start, token.start + Len(q.text)) = q.text
                                  /\ Char(token.start + Len(q.text)) \notin q.ends}
    IN  IF here # {} THEN \E q \in here : token.type = q.type /\ Len(token.text) = Len(q.text)
        ELSE IF Swallowed(token.start + 3) THEN Len(token.text) = 5
        ELSE token.type = "IDENTIFIER" /\ Stop(token) = RunEnd(token.start, AlNum)

(* The line of a token, which error messages quote, is the line it is on,  *)
(* but for the newlines inside the tokens before it (tokenize:             *)
(* line_number; errmsg).                                                   *)
LineNumbersRight ==
  Returned => \A k \in DOMAIN tokens :
    tokens[k].line =
      1 + Cardinality({i \in 1 .. tokens[k].start - 1 : source[i] = "\n" /\ ~ InToken(i)})

(* What tokenize takes for an error, seen in the text as a whole. *)
IsText ==
  LET kinds == Kinds
  IN  /\ kinds[Len(source)] # "string"
      /\ \A i \in DOMAIN source : kinds[i] = "text" =>
           \/ source[i] \in AlNum \cup DOMAIN Symbol
           \/ Swallowed(i)
           \/ /\ Begins(i - 3) /\ Lowered(i - 3, i + 2) = <<"on", " ", "double", "-", "click">>
              /\ Char(i + 2) \notin AlNum \cup {"-"}
      /\ ~ \E i \in DOMAIN source :
             /\ kinds[i] = "text" /\ Char(i) = "0" /\ Char(i + 1) = "x"
             /\ Char(i + 2) \notin HexDigit
             /\ ~ Inside(i)
=============================================================================
