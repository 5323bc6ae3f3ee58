----------------------------- MODULE ActionText -----------------------------
(***************************************************************************)
(* From the tokens of one action list of a keymap to a BoundAction: the    *)
(* functions parse_action_token and parse_action_list of src/parser.cc and *)
(* what they call.  Given the tokens they depend on no state.              *)
(*                                                                         *)
(* A token is its type, its text and where it starts, and for those with   *)
(* digits their value.  The name of a key may be spelled in several tokens *)
(* (LEFT ALT is LEFTALT); the name of a layer is all that stands between   *)
(* its first token and its last.                                           *)
(***************************************************************************)
EXTENDS Layer

CONSTANTS
  KeyNames,      (* key_names: the codes, by every way to spell a name       *)
  LayerOf(_),    (* the hash of a layer's name, a text and where its parts are *)
  TypedText(_),  (* what a string literal types, quotes and escapes replaced *)
  MaxNumber      (* std::stoul and std::stol throw above it; their limits    *)
                 (* differ, but nothing here tells them apart                *)

ASSUME KeyNamesAssumption  == \A name \in DOMAIN KeyNames : KeyNames[name] \in Code
ASSUME MaxNumberAssumption == MaxNumber \in Nat /\ MaxNumber >= 100

(***************************************************************************)
(* What a call may come to besides an action: an error message; an         *)
(* exception, which nobody catches; or the undefined behaviour of looking  *)
(* at the first token of an empty list.                                    *)
(***************************************************************************)
Rejected  == [type |-> "REJECTED"]
Thrown    == [type |-> "THROWN"]
Undefined == [type |-> "UNDEFINED"]
Succeeds(result) == result.type \notin {"REJECTED", "THROWN", "UNDEFINED"}

(* The element of a set of numbers that n of the others are less than. *)
Nth(S, n) == CHOOSE c \in S : Cardinality({d \in S : d < c}) = n

(* The loops that split a token list at every token of one type. *)
Cuts(list, type)  == {0, Len(list) + 1} \cup {i \in DOMAIN list : list[i].type = type}
Split(list, type) ==
  [n \in 1 .. Cardinality(Cuts(list, type)) - 1 |->
     SubSeq(list, Nth(Cuts(list, type), n - 1) + 1, Nth(Cuts(list, type), n) - 1)]

(* The first failure among the parts is the failure of the whole. *)
FirstFailure(results) ==
  results[Min({i \in DOMAIN results : ~ Succeeds(results[i])})]

Spelling(list) == FlattenSeq([i \in DOMAIN list |-> list[i].text])
LayerNamed(list) ==
  LayerOf([i \in DOMAIN list |-> <<list[i].start - list[1].start, list[i].text>>])

(* A key is a hexadecimal literal of its own, or a name. *)
KeyCode(part) ==
  CASE part = <<>> -> Undefined
    [] part # <<>> /\ part[1].type = "HEX_LIT" ->
         IF Len(part) = 1 THEN [type |-> "CODE", code |-> part[1].val] ELSE Rejected
    [] part # <<>> /\ part[1].type # "HEX_LIT" ->
         IF Spelling(part) \in DOMAIN KeyNames
         THEN [type |-> "CODE", code |-> KeyNames[Spelling(part)]] ELSE Rejected

KeyAction(class, list) ==
  LET parts == Split(list, "SYM_PLUS")
      codes == [i \in DOMAIN parts |-> KeyCode(parts[i])]
  IN  IF \A i \in DOMAIN codes : Succeeds(codes[i])
      THEN [type |-> class, keycodes |-> [i \in DOMAIN codes |-> codes[i].code]]
      ELSE FirstFailure(codes)

TimeUnit == {"PARAMETER_TIME_MS", "PARAMETER_TIME_SEC", "PARAMETER_TIME_MIN"}

(* parse_time, in front of what is built with the time; times are not kept. *)
WithTime(list, result) ==
  CASE Len(list) # 2 \/ list[1].type # "NUM_LIT" -> Rejected
    [] Len(list) = 2 /\ list[1].type = "NUM_LIT" ->
         IF list[1].val > MaxNumber THEN Thrown
         ELSE IF list[2].type \in TimeUnit THEN result ELSE Rejected

(* "until released" makes a temporary change of layer, on holds only. *)
SwitchTo(list, op) ==
  LET temporary == list # <<>> /\ Last(list).type = "PARAMETER_UNTIL_RELEASED"
      name      == IF temporary THEN Front(list) ELSE list
  IN  IF name = <<>> \/ (temporary /\ op # "HOLD") THEN Rejected
      ELSE [type         |-> IF temporary THEN "TEMPORARY_LAYER" ELSE "SWITCH_TO_LAYER",
            target_layer |-> LayerNamed(name)]

SpeedWord == {"PARAMETER_QUICKLY", "PARAMETER_SLOWLY", "PARAMETER_AT_HUMAN_SPEED"}

(* A quoted text, then in any order a speed and `repeatedly'; tokens that  *)
(* are neither are passed over.                                            *)
TypeText(list) ==
  LET times     == {i \in DOMAIN list : list[i].type \in TimeUnit \cup {"NUM_LIT"}}
      words     == {i \in DOMAIN list : list[i].type \in SpeedWord}
      repeating == \E i \in DOMAIN list : list[i].type = "PARAMETER_REPEATEDLY"
      typer     == [type    |-> IF repeating THEN "STRING_TYPER"
                                ELSE "NON_REPEATING_STRING_TYPER",
                    payload |-> TypedText(list[1].text)]
  IN  IF list = <<>> \/ list[1].type # "STRING_LIT" \/ Cardinality(times) \notin {0, 2} THEN Rejected
      ELSE IF times = {} THEN IF Cardinality(words) <= 1 THEN typer ELSE Rejected
      ELSE WithTime(<<list[Min(times)], list[Max(times)]>>, IF words = {} THEN typer ELSE Rejected)

(* One distance, 0 to 100, which is not kept. *)
Motion(class, up_down, list) ==
  IF Len(list) # 1 \/ list[1].type # "NUM_LIT" THEN Rejected
  ELSE IF list[1].val > MaxNumber THEN Thrown
  ELSE IF list[1].val > 100 THEN Rejected ELSE [type |-> class, up_down |-> up_down]

(* The words that begin an action, and the class each stands for. *)
KeyWord   == [ACTION_PRESS   |-> "PRESS_KEY", ACTION_RELEASE |-> "RELEASE_KEY",
              ACTION_CLICK   |-> "CLICK_KEY"]
LayerWord == [ACTION_TOGGLE  |-> "TOGGLE_LAYER", ACTION_LEAVE |-> "LEAVE_LAYER"]
BareWord  == [ACTION_RESET_KEYBOARD |-> "RESET_KEEB",   ACTION_BOOTLOADER |-> "KEEB_BOOTLOADER",
              ACTION_HOME           |-> "RESET_LAYER",  ACTION_NOTHING    |-> "NOTHINGBURGER",
              ACTION_PASS_THROUGH   |-> "PASS_THROUGH", ACTION_RELOAD_KEY_MAPS |-> "RELOAD_KEYMAP"]
MoveWord   == {"ACTION_MOUSE_MOVE_UP", "ACTION_MOUSE_MOVE_DOWN",
               "ACTION_MOUSE_MOVE_LEFT", "ACTION_MOUSE_MOVE_RIGHT"}
ScrollWord == {"ACTION_MOUSE_SCROLL_UP", "ACTION_MOUSE_SCROLL_DOWN",
               "ACTION_MOUSE_SCROLL_LEFT", "ACTION_MOUSE_SCROLL_RIGHT"}
UpDown     == {"ACTION_MOUSE_MOVE_UP", "ACTION_MOUSE_MOVE_DOWN",
               "ACTION_MOUSE_SCROLL_UP", "ACTION_MOUSE_SCROLL_DOWN"}
ButtonWord == [ACTION_MOUSE_CLICK_LEFT      |-> 0, ACTION_MOUSE_CLICK_RIGHT    |-> 1,
               ACTION_MOUSE_CLICK_CENTER    |-> 2, ACTION_MOUSE_CLICK_BACKWARDS |-> 3,
               ACTION_MOUSE_CLICK_FORWARDS  |-> 4]

(* parse_action_token: an action by its first word, else the keys it names. *)
ParseActionToken(list, op) ==
  LET word == list[1].type
      rest == Tail(list)
  IN  IF list = <<>> THEN Undefined ELSE
      CASE word \in DOMAIN KeyWord ->
             IF rest = <<>> THEN Rejected ELSE KeyAction(KeyWord[word], rest)
        [] word = "ACTION_WAIT"      -> WithTime(rest, [type |-> "DELAY"])
        [] word = "ACTION_SWITCH_TO" -> SwitchTo(rest, op)
        [] word \in DOMAIN LayerWord ->
             IF rest = <<>> THEN Rejected
             ELSE [type |-> LayerWord[word], target_layer |-> LayerNamed(rest)]
        [] word \in DOMAIN BareWord  ->
             IF rest # <<>> THEN Rejected ELSE [type |-> BareWord[word]]
        [] word = "ACTION_TYPE"      -> TypeText(rest)
        [] word \in MoveWord         -> Motion("MOUSE_MOVE", word \in UpDown, rest)
        [] word \in ScrollWord       -> Motion("MOUSE_SCROLL", word \in UpDown, rest)
        [] word \in DOMAIN ButtonWord ->
             IF rest # <<>> THEN Rejected
             ELSE [type |-> "MOUSE_CLICK", button |-> ButtonWord[word]]
        [] OTHER -> KeyAction("GENERIC_KEY", list)

(* parse_action_list: one action, or several in a sequence. *)
ParseActionList(list, op) ==
  LET parts   == Split(list, "SYM_COMMA")
      results == [i \in DOMAIN parts |-> ParseActionToken(parts[i], op)]
  IN  IF \E i \in DOMAIN results : ~ Succeeds(results[i]) THEN FirstFailure(results)
      ELSE IF Len(results) = 1 THEN results[1]
      ELSE [type |-> "SEQUENCE", sequence |-> results]
=============================================================================
