------------------------------- MODULE Parser -------------------------------
(***************************************************************************)
(* The keymap parser, src/parser.cc: parse_source has the text made into   *)
(* tokens, parse turns them into bindings, row by row, and parse_source    *)
(* then gives each binding to the layer.                                   *)
(*                                                                         *)
(* The parser runs once for each keymap file at power-up, and what is in   *)
(* `layer' when it stops becomes a keymap of the board, error or not.      *)
(***************************************************************************)
EXTENDS ActionText, Tokenizer

VARIABLES
  index,             (* parse's place in the tokens, from 1                      *)
  pc,                (* tokenize; statement: at the loop head of parse; row:     *)
                     (* behind a row's header; more: behind an operation of it;  *)
                     (* bind: in the loop of parse_source; done, or halted by an *)
                     (* exception                                                *)
  bindings,          (* of each row its key, and the tokens of each operation    *)
  error,             (* parse_source returns a message                           *)
  layer
parserVars == <<index, pc, bindings, error, layer>>
vars == <<tokenizerVars, parserVars>>

Init ==
  /\ TokenizerInit
  /\ index = 1
  /\ pc = "tokenize"
  /\ bindings = <<>>
  /\ error = FALSE
  /\ layer = EmptyLayer

At(i, type) == i <= Len(tokens) /\ tokens[i].type = type

TopWord == {"TOP_BLOCK_OTHER_KEYS", "TOP_OTHER_KEYS_FALL_THROUGH"}
OnX     == [OPERATION_PRESS |-> "PRESS", OPERATION_CLICK |-> "CLICK",
            OPERATION_HOLD  |-> "HOLD",  OPERATION_DOUBLE_CLICK |-> "DOUBLE_CLICK",
            OPERATION_RELEASE |-> "RELEASE"]
TopAt(i) == i <= Len(tokens) /\ tokens[i].type \in TopWord
OnXAt(i) == i <= Len(tokens) /\ tokens[i].type \in DOMAIN OnX
HeaderAt(i) == /\ At(i, "ROW_LIT")     /\ At(i + 1, "SYM_COMMA")
               /\ At(i + 2, "KEY_LIT") /\ At(i + 3, "SYM_COLON")
RowKey(row, key) == row * 12 + key

(* No key has a name that begins like an operation (key_names). *)
ASSUME KeyNamesAreNoOperations ==
  \A name \in DOMAIN KeyNames :
    ~ (Len(name) > 1 /\ name[1] \in Letters /\ Lower[name[1]] = "on" /\ name[2] = " ")

(***************************************************************************)
(* parse_action: a first token of almost any type, then as many as may be  *)
(* part of an action; the last must not ask for more.                      *)
(***************************************************************************)
Separator == {"SYM_COMMA", "SYM_PLUS"}
FrontDisallowed ==
  Separator \cup SpeedWord \cup
  {"STRING_LIT", "PARAMETER_REPEATEDLY", "PARAMETER_UNTIL_RELEASED"}
Allowed ==
  FrontDisallowed \cup TimeUnit \cup {"NUM_LIT", "HEX_LIT", "IDENTIFIER"} \cup
  {"ACTION_WAIT", "ACTION_SWITCH_TO", "ACTION_TYPE"} \cup DOMAIN KeyWord \cup
  DOMAIN LayerWord \cup DOMAIN BareWord \cup MoveWord \cup ScrollWord \cup DOMAIN ButtonWord

ActionEnd(i) ==
  Min({j \in i .. Len(tokens) : j = Len(tokens) \/ tokens[j + 1].type \notin Allowed})
ActionAt(i) == SubSeq(tokens, i, ActionEnd(i))

(* Mutant: a trailing `,' or `+' goes through. *)
WellBoundedAnyEnd(action) ==
  /\ Head(action).type \notin FrontDisallowed
  /\ \A j \in 1 .. Len(action) - 1 :
       ~ (action[j].type = "SYM_PLUS" /\ action[j + 1].type = "SYM_PLUS")
WellBounded(action) ==
  /\ Head(action).type \notin FrontDisallowed
  /\ Last(action).type \notin Separator
  /\ \A j \in 1 .. Len(action) - 1 :
       ~ (action[j].type = "SYM_PLUS" /\ action[j + 1].type = "SYM_PLUS")

(* An error message: parse_source returns at once.  What parse had found   *)
(* is dropped, what parse_source has bound stays bound.                    *)
Fail ==
  /\ pc' = "done"
  /\ error' = TRUE
  /\ bindings' = <<>>
  /\ UNCHANGED <<tokenizerVars, index, layer>>

Tokenize == pc = "tokenize" /\ TokenizeStep /\ UNCHANGED parserVars

Tokenized ==
  /\ pc = "tokenize" /\ tokenized = "tokens"
  /\ pc' = "statement"
  /\ UNCHANGED <<tokenizerVars, index, bindings, error, layer>>

TokenizeFails == pc = "tokenize" /\ tokenized = "message" /\ Fail

(* The place where a statement may begin: the loop over the operations of  *)
(* the row before has come to its end.                                     *)
AtStatement == pc = "statement" \/ (pc = "more" /\ ~ OnXAt(index))

(* These words set unassigned_keys_fall_through_, which nobody reads. *)
TopStatement ==
  /\ AtStatement /\ TopAt(index)
  /\ pc' = "statement"
  /\ index' = index + 1
  /\ UNCHANGED <<tokenizerVars, bindings, error, layer>>

RowHeader ==
  /\ AtStatement /\ HeaderAt(index)
  /\ pc' = "row"
  /\ index' = index + 4
  /\ bindings' = Append(bindings, [key |-> RowKey(tokens[index].val, tokens[index + 2].val),
                                   ops |-> <<>>])
  /\ UNCHANGED <<tokenizerVars, error, layer>>

(* Also where parse looks at a token behind the last one: only for the     *)
(* line number of its message.                                             *)
BadStatement ==
  /\ AtStatement /\ index <= Len(tokens) /\ ~ TopAt(index) /\ ~ HeaderAt(index)
  /\ Fail

(* The action at i becomes the operation op of the row: the last one that  *)
(* the row gives for op counts.                                            *)
Operate(op, i) ==
  LET n == Len(bindings)
  IN  /\ bindings' = [bindings EXCEPT ![n].ops = With(@, op, ActionAt(i))]
      /\ index' = ActionEnd(i) + 1
      /\ UNCHANGED <<tokenizerVars, error, layer>>

HasAction(i) == i <= Len(tokens) /\ WellBounded(ActionAt(i))

(* Mutant: the colon is passed over unseen. *)
OnOperationAnyColon ==
  /\ pc \in {"row", "more"} /\ OnXAt(index)
  /\ IF HasAction(index + 2)
     THEN pc' = "more" /\ Operate(OnX[tokens[index].type], index + 2)
     ELSE Fail
OnOperation ==
  /\ pc \in {"row", "more"} /\ OnXAt(index)
  /\ IF At(index + 1, "SYM_COLON") /\ HasAction(index + 2)
     THEN pc' = "more" /\ Operate(OnX[tokens[index].type], index + 2)
     ELSE Fail

Inline ==
  /\ pc = "row" /\ ~ OnXAt(index)
  /\ IF HasAction(index) THEN pc' = "statement" /\ Operate("PRESS", index) ELSE Fail

Parsed ==
  /\ AtStatement /\ index > Len(tokens)
  /\ pc' = "bind"
  /\ UNCHANGED <<tokenizerVars, index, bindings, error, layer>>

(* The head of the rows still to be bound, without one operation. *)
Without(op) ==
  IF DOMAIN bindings[1].ops = {op} THEN Tail(bindings)
  ELSE [bindings EXCEPT ![1].ops = Restrict(@, DOMAIN @ \ {op})]

(* The operation op of the first row (operations are in an unordered_map,  *)
(* so it may be any), and what its tokens come to.                         *)
NextOperation(op) == pc = "bind" /\ bindings # <<>> /\ op \in DOMAIN bindings[1].ops
ParseNext(op)     == ParseActionList(bindings[1].ops[op], op)

BindOperation ==
  \E op \in Operation :
    /\ NextOperation(op) /\ Succeeds(ParseNext(op))
    /\ layer' = Bind(layer, bindings[1].key, ParseNext(op), op)
    /\ bindings' = Without(op)
    /\ UNCHANGED <<tokenizerVars, index, pc, error>>

(* Mutant: continue instead of return. *)
BindFailsAndGoesOn ==
  \E op \in Operation :
    /\ NextOperation(op) /\ ParseNext(op).type \in {"REJECTED", "UNDEFINED"}
    /\ bindings' = Without(op)
    /\ UNCHANGED <<tokenizerVars, index, pc, error, layer>>
BindFails ==
  \E op \in Operation :
    /\ NextOperation(op) /\ ParseNext(op).type \in {"REJECTED", "UNDEFINED"}
    /\ Fail

(* An uncaught exception stops the board in main, before any task runs. *)
Halt ==
  /\ \/ pc = "tokenize" /\ tokenized = "exception"
     \/ \E op \in Operation :
          NextOperation(op) /\ ParseNext(op).type \in {"THROWN", "UNDEFINED"}
  /\ pc' = "halted"
  /\ UNCHANGED <<tokenizerVars, index, bindings, error, layer>>

AllBound ==
  /\ pc = "bind" /\ bindings = <<>>
  /\ pc' = "done"
  /\ UNCHANGED <<tokenizerVars, index, bindings, error, layer>>

Stopped == pc \in {"done", "halted"} /\ UNCHANGED vars

Step ==
  \/ Tokenize \/ Tokenized \/ TokenizeFails
  \/ TopStatement \/ RowHeader \/ BadStatement \/ OnOperation \/ Inline \/ Parsed
  \/ BindOperation \/ BindFails \/ Halt \/ AllBound

Next == Step \/ Stopped

Spec == Init /\ [][Next]_vars

(***************************************************************************)
(* What a keymap says, read from the whole text at once: which rows there  *)
(* are, what each gives for which operation, and which texts are keymaps.  *)
(***************************************************************************)
MarkAt(i) == OnXAt(i) /\ At(i + 1, "SYM_COLON")
Header == {i \in DOMAIN tokens : HeaderAt(i)}
Mark   == {i \in DOMAIN tokens : MarkAt(i)}
(* Where an action stands, whatever its first word. *)
ActionHead == {h + 4 : h \in {h \in Header : ~ MarkAt(h + 4)}} \cup {m + 2 : m \in Mark}
Top    == {i \in DOMAIN tokens \ ActionHead : TopAt(i)}
TextFrom(i) ==
  SubSeq(tokens, i, Min({j \in Header \cup Mark \cup Top : j >= i} \cup {Len(tokens) + 1}) - 1)

MarksOf(h) == {m \in Mark : m > h /\ (Header \cup Top) \cap (h + 1 .. m) = {}}
OpOf(m)    == OnX[tokens[m].type]
KeyOf(h)   == RowKey(tokens[h].val, tokens[h + 2].val)
(* A row gives its last text for an operation, or its only one for PRESS. *)
Given(h) ==
  IF MarksOf(h) = {} THEN [op \in {"PRESS"} |-> TextFrom(h + 4)]
  ELSE [op \in {OpOf(m) : m \in MarksOf(h)} |->
          TextFrom(Max({m \in MarksOf(h) : OpOf(m) = op}) + 2)]

(* The keys and operations that some row speaks of. *)
Speaks == UNION {{<<KeyOf(h), op>> : op \in DOMAIN Given(h)} : h \in Header}
FirstRow(b) == Min({h \in Header : KeyOf(h) = b[1] /\ b[2] \in DOMAIN Given(h)})
(* The first row to speak of a key and an operation decides. *)
Meaning ==
  [b \in Speaks |-> ParseActionList(Given(FirstRow(b))[b[2]], b[2])]

Beginning == Header \cup Top \cup {Len(tokens) + 1}
LaidOut ==
  /\ 1 \in Beginning
  /\ \A i \in Top : i + 1 \in Beginning
  /\ \A m \in Mark : \E h \in Header : m \in MarksOf(h) /\ MarkAt(h + 4)
  /\ \A i \in ActionHead : TextFrom(i) # <<>> /\ WellBounded(TextFrom(i))
  /\ \A i \in DOMAIN tokens :
       \/ tokens[i].type \in Allowed
       \/ i \in ActionHead \cup Top
       \/ \E h \in Header : i \in h .. h + 3
       \/ \E m \in Mark : i \in m .. m + 1
IsKeymap ==
  LaidOut /\ \A h \in Header : \A op \in DOMAIN Given(h) :
               Succeeds(ParseActionList(Given(h)[op], op))

(* Types; every token is of a type that the parser knows; and every binding *)
(* sends well-formed messages, which is what the tasks ask of the keymaps  *)
(* they get.                                                               *)
TypeOK ==
  /\ place \in 1 .. Len(source) + 2 /\ line_number \in Nat \ {0}
  /\ tokenized \in {"nothing", "tokens", "message", "exception"}
  /\ \A i \in DOMAIN tokens : tokens[i].type \in TypeOfToken
  /\ index \in 1 .. Len(tokens) + 1
  /\ pc \in {"tokenize", "statement", "row", "more", "bind", "done", "halted"}
  /\ error \in BOOLEAN
  /\ \A b \in DOMAIN layer.bindings :
       /\ b[2] \in Operation
       /\ \A bae \in BoundActionEnqueue :
            ToSet(Enqueue(layer.bindings[b], bae)) \subseteq QueueMessage

(* A keymap that is read without error binds what its text says: the first *)
(* row to speak of an operation of a key decides, within a row the last,   *)
(* and the layer knows whether anything is bound to a hold (parse_source,  *)
(* parse, Layer::Bind).                                                    *)
LayerSaysTheText ==
  pc = "done" /\ ~ error =>
    /\ layer.bindings = Meaning
    /\ layer.on_hold_bound = (\E b \in Speaks : b[2] = "HOLD")

(* At any moment, and so when an error cuts the loop of parse_source short *)
(* and main installs the layer all the same, what is bound is right, and   *)
(* the rows before the last one bound are bound in full.                   *)
RowsInOrder ==
  \A b \in DOMAIN layer.bindings :
    /\ b \in Speaks /\ layer.bindings[b] = Meaning[b]
    /\ \A c \in Speaks : FirstRow(c) < FirstRow(b) => c \in DOMAIN layer.bindings

(* The parser accepts the keymaps and nothing else: tokenize must stop at  *)
(* every text that has no tokens and at no other, and parse must neither   *)
(* lose a token between two loops nor let one go unread.                   *)
AcceptsKeymaps == pc = "done" => (~ error <=> IsText /\ IsKeymap)

(* Only three kinds of text stop the board: a number that std::stoul or    *)
(* std::stol cannot hold; a separator with nothing before it, inside an    *)
(* action, where parse_action does not look for one; and one that ends     *)
(* behind `mouse move', `mouse scroll' or `mouse click'.                   *)
HaltsForAReason ==
  pc = "halted" =>
    \/ \E v \in DOMAIN MouseWord :
         Lowered(Len(source) - 2, Len(source) + 1) = <<"mouse", " ", v>>
    \/ \E i \in DOMAIN tokens :
      \/ tokens[i].type = "NUM_LIT" /\ tokens[i].val > MaxNumber
      \/ /\ tokens[i].type \in Separator \cup DOMAIN KeyWord
         /\ \E separator \in Separator : At(i + 1, separator)
=============================================================================
