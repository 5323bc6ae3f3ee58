# fexware in TLA+

A model of the fexware keyboard firmware (RP2040, FreeRTOS on both cores,
TinyUSB, FatFs): TLA+ modules translated from `src/` and `include/` of the
repository, TLC configurations that check them on small instances, and TLAPS
proofs of the main results for every value of the constants.

## 1. The system

The board reads an 80-position key matrix through two I2C expanders, turns key
edges into actions bound in keymap files, sends what those actions ask for to a
USB host as keyboard and mouse reports, and offers its flash as a USB drive from
which the keymaps are read at power-up.

| Part | Source | State | Operations | Talks to |
|---|---|---|---|---|
| boot | `src/main.cc` 131-247 | `keymap_files`, `layers`, `layer`, `parse_status` | initialise and mount the drive, parse every `.kmf`, create queues and tasks | file system, parser |
| poll-keys task, core 0 | `main.cc` prvPollKeysTask | - | every 10 ms read the expanders, stamp, queue a snapshot | expanders; `xKeyQueue` |
| process-keys task, core 1 | `main.cc` prvProcessKeysTask | `previous`, `timeouts` | per snapshot: scan for holds, scan for edges, call `Layer::Enqueue` | `xKeyQueue`, `layer`, `layers`, `xEventQueue` |
| layer | `src/layer.cc` | bindings, `on_hold_bound_` | Bind, Bound, Enqueue | actions |
| bound actions | `src/actions.cc` | parameters of each action | Enqueue(DO / UNDO): one or more `xQueueSend`s | `xEventQueue` |
| usb-hid task, core 0 | `main.cc` send_hid_report | `keycode`, `modifer`, `mouse_buttons`, `hid_send_complete`, `layer` | every 10 ms take one message and enact it | `xEventQueue`, TinyUSB, watchdog |
| usb-device task, core 0 | `main.cc` prvUsbDeviceTask, `src/tud_usb.c` | TinyUSB's | run TinyUSB and its callbacks | host, `hid_send_complete`, flash cache |
| flash cache | `port/cdc_msc/flash.c`, `src/diskio.c` | `_fl_addr`, `_fl_buf` | read, write, flush, erase of 4 KB sectors | flash; FatFs and the host above it |
| file system | `src/filesystem.cc` | FatFs's | Initialize, Mount, List, ReadFile, ... | FatFs, disk i/o |
| keymap parser, tokenizer | `src/parser.cc`, `src/tokenizer.cc` | local to a call | text to tokens to bindings | layer |
| display, blink tasks | `main.cc` | - | the first is never created; the second blinks | - |
| USB descriptors, FreeRTOS and TinyUSB settings | `third_party/port` | constants | - | - |

Interaction is by two bounded queues and four plain globals. poll-keys sends to
`xKeyQueue` without waiting; process-keys sends to `xEventQueue` and waits ten
ticks at most; nobody looks at the result of a send. `layer` is written on core
0 (usb-hid) and read on core 1 (process-keys) without a lock. `hid_send_complete`
is written by usb-hid and by a callback of usb-device, which has the higher
priority on the same core.

### What is hard, and what makes each part correct

* **usb-hid task.** Callbacks and bus events come between any two of its steps;
  the gate `hid_send_complete` is all that keeps reports in order.  Correct
  means: one report in the endpoint at a time; when the gate is open the host
  knows the keys as they are; the gate opens again.
* **process-keys task.** It decides with one read of `layer`, and enqueues with
  another; its timers live through layer changes, lost snapshots and the wrap of
  the tick count.  Correct means: a timer only for a key that is down; one press
  counts once, as tap or as hold; every press counts; a scan ends.
* **poll-keys task.** A full queue loses edges, a failed I2C read invents some.
  Correct means: later snapshots make up for it.
* **The whole.** Correct means: a keyboard at rest holds no key, in its slots and
  at the host; the host gets to see keys released; sequences type one key after
  the other.
* **Flash cache.** Two users, one sector of cache, flush only at the end of a
  command, power may go at any moment.  Correct means: no write is lost while
  powered; a finished host command is in the flash; a power cut spoils one
  sector at most.
* **Parser.** Two loops share one index over the tokens; actions are only parsed
  once their rows are known; an error keeps what was bound before, and main
  installs the layer all the same.  Correct means: exactly the well-formed texts
  are accepted; a layer says what its text says; after an error what is bound is
  right, row by row.
* **Tokenizer.**  Every kind of token is its own loop or its own comparison, with
  its own idea of where it ends; phrases are looked at and given back.  Correct
  means: nothing of a text is lost or read twice; a word is the longest phrase
  that begins there; the line numbers in messages are right.
* **Boot.**  It writes to the drive at every start, and whatever is on the drive
  decides what it does; the power may go at any moment.  Correct means: the
  keymaps in effect are those on the drive; one status speaks for all of them; a
  start costs no keymap; main gets to an end.

## 2. The modules

| Module | Models |
|---|---|
| `Messages` | `QueueMessage`, one record shape per type; queue capacity |
| `Actions` | every `BoundAction::Enqueue`, as the list of messages it sends |
| `Layer` | `fex::Layer`: Bind keeps the first binding, Bound, Enqueue |
| `PollTask` | the matrix, polling with failed reads, the tick count, `xKeyQueue` |
| `KeyTask` | the process-keys task; EXTENDS PollTask, Layer |
| `HidTask` | send_hid_report, its callback, the bus, the two reboots |
| `Fexware` | INSTANCEs of KeyTask and HidTask over shared queues and `layer` |
| `BlockDevice` | what the drive promises its users (abstract) |
| `FlashCache` | flash.c, disk i/o and the WRITE10 callbacks; implements BlockDevice |
| `Tokenizer` | tokenize: the text of a keymap to tokens |
| `ActionText` | parse_action_token, parse_action_list and what they call: tokens to a `BoundAction` |
| `Parser` | parse and parse_source as a state machine from a text to a layer; what a keymap says, read declaratively; EXTENDS Tokenizer, ActionText |
| `Boot` | main up to the start of the scheduler, with filesystem.cc; EXTENDS FlashCache |
| `StuckKey_proofs` | the proof of `NoStuckKey`, and before it lemmas about presses and the releases that answer them, apart from the firmware; EXTENDS Fexware_proofs |
| `Tokenizer_proofs` | theorems about Tokenizer, in the specification of Parser |
| `Parser_proofs` | theorems about Parser; EXTENDS Tokenizer_proofs |
| other `*_proofs` | theorems about HidTask, KeyTask, Fexware, FlashCache and Boot |
| `MC*` | constants for TLC |

Operators between a `Mutant:` comment and the next definition are not part of
the model: each is a plausible bug in the definition below it, used to confirm
that the property named for it in `PROJECT.json` can fail.

### How the model relates to the code

**HidTask.** `hidPc` is the place in send_hid_report: `sleep` (between two
periods), `delay` (in the vTaskDelay of a DELAY message), `apply` (in the loop
over the codes of a key message, one code a step), `submit` (before
`tud_hid_*_report`).  Each `Take...` action is the branch for one kind of message
with the tests before it; bus events and the callback may come between the
steps.  `Claim` is `hid_send_complete = false`.  `HidSubmit` is TinyUSB's answer:
accepted, or refused off the bus, and the code does not look at which.
`TakeSidewaysScroll` exists because the branch for MOUSE_SCROLL_LEFT_RIGHT tests
for another type (line 592), so the message ends in a keyboard report.
`PressSpills` is the write to `keycode[KEY_ROLL_OVER]` when no slot is free: the
loop ends with `i == 6` and writes behind the array.  That is undefined
behaviour; the model chooses at power-up what lies there (`SpillTargets`:
padding, the modifier byte, or the mouse buttons) and the write lands in it.
`ep` is the IN endpoint; `hostKeys`, `hostMouse` what the host was last told.
Mouse reports carry their buttons; distances are left out.

**KeyTask.** `keyPc` is `receive`, `hold` (first scan) or `edge` (second scan);
`keyPos` counts the 80 positions.  `calls` are the `Layer::Enqueue` calls a scan
step has decided on and `sends` the messages the current call has still to
send.  A scan step reads `layer` to decide, `EnqueueStart` reads it again to look
up the action, as `layers[layer].second.Enqueue` does.  `Send` and `SendTimeout`
are the outcomes of `xQueueSend`.  A layer number without keymap finds an empty
one, as `operator[]` of the map default-constructs it.  `now - timeouts[p]` is
negative across a wrap: `now` is 32 bits, the timers are wider and signed.
`dos` is a history variable: DO calls since the key went down.

**PollTask.** `Poll` covers the ten reads, the stamp and the send.  A failed read
leaves bytes of a local uninitialised: any value (`garbage`).

**Fexware.** All steps interleave; `Reboot` restarts every part at once, after
`watchdog_reboot` has let everything run on for 100 ms, or from the boot ROM.
`lost` records that a full event queue has cost a message, `overrun` that a press
was written over `modifer` or `mouse_buttons`; both are history variables.

**FlashCache.** One action per chunk of a host command (endpoint buffer size),
per disk_write, per erase and program of a flush; `PowerCut` may come between
erase and program.  `written` is a history variable: what
the users have written, or found at power-up.

**Tokenizer.**  A text is a sequence of pieces: signs, blanks and digits one by
one, letters in groups.  A group is cut so that comparing pieces is comparing
characters: `towards` is the pieces `to` and `wards`, as the code finds `switch to`
in `switch towards`.  A step takes one token, one comment or one run of blanks;
`place` and `line_number` are the code's.  Where the code looks ahead and restores
`index`, the operator says what it looked at and `place` stays.  Quirks of the code
are kept: a string may hold newlines, which are not counted; ` human speed` is
compared with one character and never found; behind `mouse move` a place is
passed unseen, so that a text that ends there runs past its end and throws.
`Kinds` is what tokenize is compared with: of which kind each piece of the text is
(text, string, comment, blank), found piece by piece.  Of tokenize it knows only
where tokens begin, as it cannot do without: whether the piece behind `mouse move` is
passed unseen depends on whether a word begins at `mouse`.  `5mouse move#up` is the
number 5 and then the mouse; in `ab5mouse move#up` the letters are the end of an
identifier, and the `#` begins a comment.

**ActionText.**  One operator per case of the switch in parse_action_token.  A
token is its type, its spelling and its number; what the code does with the
wording of messages, times and distances is left out, as nothing branches on
it.  Besides an action a call may come to `Rejected` (an error message),
`Thrown` (`std::stoul` or `std::stol` on a number too large; nothing in the
repository catches it) or `Undefined`: for `A,,B` or `A+,B` the code looks at
the first token of an empty vector, and the model lets that either be rejected
or stop the board.

**Boot.**  `bootPc` is the place in main and Initialize.  FatFs is known by what it
writes: f_mkfs a boot record and an empty root directory, in either order and
then a sync; f_setlabel and AddFile the root directory, then a sync.  Each
`DiskWrite` and each sync is a step, and the steps of the flash cache below
(extended from FlashCache) come before main goes on (`Go`).  The root directory is
one sector and each keymap one; a sector that is torn by a power cut reads as
no directory, or as a text with an error in it.  A layer is known by the text it
was read from, so Parser is not in the state space; `Wrong` and `Halting` are the
texts for which it fails or throws.  `found` is a history variable: the drive as
it was at power-up, which is what its last user had written if that user had
come to the end of its command.

**Parser.**  `index` and `bindings` are parse's locals (from 1, not 0).  `pc` tells
the loop head (`statement`), the place behind a row's header (`row`), the loop
over its operations (`more`), and the loops of parse_source (`bind`).  Each
action takes one statement or one operation, with the parse_action call in it;
every return with a message is `Fail`.  The operations of a row sit in an
unordered_map, so `BindOperation` takes any of them next.  `Meaning` and
`IsKeymap` read the whole text at once, without an index: where headers and
operation words stand, what lies between them, which row is first.

## 3. The runs

Every run is described in `PROJECT.json` too, with the mutants that show that
its properties can fail.

| Run | Bounds | Shows |
|---|---|---|
| `hid_safety` | 2 slots, queue of 1, 12 messages covering every branch | one report at a time (`OneReportInFlight`), the host in step (`HostInSync`), the gate is wedged only by losing the bus (`WedgeOnlyOffBus`) and then for good (`WedgedForGood`) |
| `hid_bool` | the same, 4 messages, fairness | **violated**: a bus reset between the claim and the callback leaves the gate shut though the bus is back |
| `key_safety` | 2 keys, 2 layers with hold bindings (a tap or a hold of key 1 changes the layer) behind a layer without, which is never come back to; hold of 1 tick, ticks mod 3, queues of 1 | timers belong to keys that are down, one DO per press, no hold for a key that was up, and a press is dropped only if it lasts exactly the hold time (`EveryPressCounts`) |
| `key_mixed` | the bounds of `key_safety`, hold bindings in one of the 2 layers only | **violated**: the hold of a key fires with the key up, as a release in the keymap without hold bindings has left its timer |
| `rest_two_keys` | 2 keys with the same letter, one layer, garbage reads, event queue of 2, the modifiers behind the slots; not followed once a message is lost (`NothingLost`), as both properties say nothing then | at rest nothing is held unless a message was lost (`NoStuckKey`); until one is, every press finds a slot, so that nothing is written behind them (`SlotForEveryKey`) |
| `firmware_parts` | letter, layer change and reboot, event queue of 2 | the composition implements the specifications of its parts (`HidTaskSpec`, `KeyTaskSpec`), and `NoStuckKey` across a reboot |
| `firmware_liveness` | one key, one letter, fairness | the gate reopens or the bus is lost, the scan catches up with keys at rest, the host sees them up |
| `firmware_sequence` | a key that types two letters, event queue of 2 | **violated**: a lost RELEASE leaves a letter of a sequence down when the next is pressed |
| `firmware_layer` | tap: letter, hold: change of layer, ticks mod 3 | **violated**: the layer changes between the DO and the UNDO of one tap, and the letter stays down for the host |
| `keymap_parser` | 9000 texts of keymap files: rows with every action, right and wrong; two operations; two rows; one token of a keymap lost or replaced; every three tokens behind a header; every phrase cut short, run into what follows, and with other signs for its blanks; a phrase inside a word | the tokens are those of the text (`TokensCoverTheText`, `TokensSayTheText`, `LineNumbersRight`), accepted texts are the well-formed ones (`AcceptsKeymaps`), a layer says what its text says (`LayerSaysTheText`), an error leaves rows bound in order (`RowsInOrder`), the board stops for three reasons only (`HaltsForAReason`) |
| `storage` | 2 sectors of 2 parts, 2 data values | no write lost, finished commands in the flash, and the refinement of `BlockDevice` |
| `boot` | two keymaps, three texts (right, wrong, throwing), every drive with these; the host edits one sector a start | the keymaps in effect are those on the drive (`KeymapsTakeEffect`), main never reads a sector as it was before its own last write (`NoStaleRead`), the status speaks for all of them (`StatusTellsAll`), a start leaves a named drive alone (`QuietBoot`), a keymap that throws stops every start to come (`HaltsAgain`), main gets to an end (`BootEnds`) |

### Why these bounds are enough

* *Slots.* Two are the least that tell "first free" from "any free" and let a
  third key find none.
* *Event queue.* One message is full as soon as it holds one, so every send
  meets both outcomes; two where the order of messages matters.
* *Keys.* A position interacts with others only through the layer and the
  slots; two suffice for one to act while another is half way.
* *Ticks.* The modulus is over twice the hold time where holds matter, so that taps,
  holds, and differences across a wrap all occur.  With modulus 1 time stands
  still: used where no keymap has hold bindings.  `PollSteps` is one tick: the
  scan sees any delay, as the key queue loses snapshots.
* *Storage.* Two sectors force an eviction, two parts a command that stops
  half way through a sector.
* *Keymaps.* Bindings of two rows meet only in `Bind`, operations of two only in
  one row; both are enumerated with every mix of good and bad.  The loops over
  tokens look one token ahead, so three tokens of any kind behind a header or
  an operation reach every exit of them.
* *Texts.*  What tokenize does at a place depends on the phrase that begins
  there and on the character behind each of its words; every phrase occurs with
  every kind of character there.
* *Drives.*  Every assignment of a boot record or none, a directory or none, and
  a text or none to the four sectors is a first state.  One edit of the host per
  start (`EditBound`) is enough to make a drive wrong, right, or torn, and the
  next start goes on from there: longer histories are sequences of starts.

CHECK_DEADLOCK is never switched off: something can always happen (a parser that
has returned does nothing, for ever).

`NoStuckKey` holds for the keymaps of its runs: those whose release finds the
binding of its press (`NoKeyStuck` below: for all such).  `firmware_layer` shows that it does not hold where a layer
changes in between: a release looks its binding up in the layer current then.
It has two excuses: a message that was lost, and a press that found no slot and
was written over `modifer` or `mouse_buttons`, where no release looks for it.  The
second cannot occur before the first on a board with no more keys than slots:
`SlotForEveryKey`.  `firmware_sequence` shows what a lost message does.

### Fairness

* The usb-hid task is periodic, at the second highest priority of core 0, and
  never blocks but for DELAY: weak fairness of its steps.
* The host polls a mounted, unsuspended device: weak fairness of
  `ReportComplete`.  Mounting, suspending, resuming and resets are promised by
  nobody.
* process-keys runs on core 1 above the blink task and its sends time out: weak
  fairness of its steps.  poll-keys is periodic: weak fairness of `PollStep`.
* main runs alone before the scheduler starts, and flash.c returns: weak fairness
  of `BootStep`.  `BootEnds` does not ask that the power stays: it allows for a
  board that is switched off again and again.

## 4. The proofs

All theorems hold for every value of the constants that meets the named
assumptions of the modules.

**HidTask_proofs.**  `TypeCorrect` is inductive by itself.
`OneReportInFlight` is inductive given the types: it ties the gate to the
endpoint, to `report` and to the place in the code, which is what makes
`ReportComplete` and `HidSubmit` preserve it.  `HostInSync` is inductive given
`OneReportInFlight`: while a message is being applied no report may be on its
way, or the one on its way would be stale on arrival.  Its last two conjuncts
(about the report claimed and the one in the endpoint) are what the first needs
to survive `ReportComplete`.  `WedgeNeedsBusLoss` and `WedgeIsFinal` follow from
one step each under the gate invariant.

**KeyTask_proofs.**  `KeyTypeCorrect` needs that a lookup in any layer gives messages
(`CurrentLayerTypes`).  The invariant for the timers is
`KeyInv == TimersOfDownKeys /\ OneDoPerPress /\ TimersUnused`, where `TimersUnused`
says that no timer runs if no keymap has hold bindings.  `TimersOfDownKeys` speaks
of `Down`, the keys as far as the scan has got, so each edge action has to move
exactly one key.  The three theorems assume `UniformLayers` (every layer has hold
bindings, or none).  Without it they fail: a timer survives a change to a keymap
without hold bindings, whose releases do not clear it (main.cc 474-478), and the
hold fires once a keymap that binds it is current again (431-438), for a key
released long ago: the run `key_mixed`.  The run `key_safety` goes beyond the assumption by one
keymap without hold bindings that is left for good.

`PressIsAnswered`, under the same assumption, adds two facts to `KeyInv`: a key that
is down and has no timer has been answered (`Answered`), and once the first scan has
passed a key its timer is within the hold time (`HoldsTaken`), so that what is not a
tap at its release was a hold before, or lasted exactly the hold time.

**Fexware_proofs.**  A step of the firmware is a step of HidTask or a stutter, and a
step of KeyTask or a stutter.  The first needs one invariant, `SendsSendable`: all
that is on its way to the event queue was asked for by a binding of some keymap,
whatever layer was current when.  The specifications of the parts are those that
the theorems of `HidTask_proofs` and `KeyTask_proofs` start from (with `Sendable` for
`EventMessages`), so what is proved of a part holds in the whole:
`FirmwareHidCorrect` and `FirmwareKeysCorrect` carry the invariants of the parts over.
To cite the theorems of an instance, the assumptions of its module have to be shown:
`SizesAssumption` and `BoardAssumption` of Fexware are those of HidTask and KeyTask.

**StuckKey_proofs.**  `NoStuckKey` says something of the moment at
rest only; the invariant has to speak of every moment before.  `Stream` is all that is
on its way to the reports: the rest of the message being applied, the event queue,
and what process-keys has still to send.  `Covered(A, P, R, H)` says that the places
that hold a code (A) and the presses of it in the stream (P) have each a release of
its own: one in the stream (R), behind the press, or one that a key that is down
will send when it comes up (H).  `Matched` says so for every key, modifier and button,
and `StuckInv` is

    CallsShape /\ FormShape /\ (Intact => Matched)

where `Intact` is `~ lost /\ ~ overrun`, `CallsShape` ties the calls under way to the position the scan has just left
(without it an UNDO could be asked for by a key that never did its DO), and `FormShape`
says what the message being applied looks like at each place in the code.
Counting presses and releases would not do: the slots are shared, a press of a code
that is already held may fill a second slot or be dropped, and a release clears the
first slot it finds, which may be that of another press; `ReleaseTaken` hands the
release of the place that let go to the place it was meant for.  The order matters
too, as a release that overtakes its press is lost: hence the distances from
the end of the stream.  At rest H and R are empty, so A is (`NothingLeft`), and
`HostInSync` makes it true of the host as well.

`NoKeyStuck` has two hypotheses, both about keymaps.  `UniformLayers`, as above.
`LetsGo`: every binding releases what it presses, by a later message of its DO or by
its UNDO, and its UNDO is the same in every layer; the run `firmware_layer` is the
counterexample where it is not.  Nothing is assumed of the byte a press is written
to when no slot is free, which `main.cc` 549-551 leaves to the compiler: as soon as it is
`modifer` or `mouse_buttons`, `overrun` is set and `StuckInv` speaks of shapes only.
`PlainBoardLetsGo` shows what `LetsGo` asks of keymaps: any action of the parser's
but PRESS_KEY will do, and sequences of such, strings of any length included
(`FlattenClosed`, by the least number principle `LeastNat`, as the induction
theorems of the library cannot be used).  The boards of the runs `rest_two_keys`,
`firmware_parts` and `firmware_sequence` meet the three hypotheses of
`PlainBoardNeverSticks` (`UniformLayers`, `SameUndo`, no PRESS_KEY); that of
`firmware_layer` meets all but `SameUndo`.

**FlashCache_proofs.**  `StorageInv` adds to the types and `NoWriteLost` that a sector
is erased only by a flush under way (`ErasedByFlush`) and what a finished command
leaves (`HostDone`).  Under it every step of FlashCache is a step of BlockDevice or
a stutter (`StorageIsDevice`), with the disk as its users see it, cache over
flash, for the abstract disk.

**Boot_proofs.**  A step of Boot is a step of FlashCache or a stutter for it
(`BootStepIsStorageStep`), so `StorageInv` holds under main too, and the flash
implements BlockDevice (`BootIsOnDevice`).  `BootInv` adds to the types what each
place in main may rely on.  It speaks of `Drive`, the drive once the write under way
is done, as that is what the next read of FatFs finds.  `Synced` says that at the
places behind a sync the cache is empty when flash.c has returned, so that main
reads from the flash what was written; `KeymapsKept` that what Initialize does to the
drive leaves the keymaps listed and their sectors as they were found; `LayersSoFar`
that the files parsed so far, and no other, make up `layers` and `parse_status`;
`Quiet` that on a drive that has its name each write is of what is there already, so
that `FlushErases` cannot happen.  `KeymapsTakeEffect`, `StatusTellsAll`, `QuietBoot` and
`HaltsAgain` each follow from these, and `NoStaleRead` from `Synced`.  That the host's last finished command is what
the next start finds rests on `HostReadsBack`.

**Tokenizer_proofs, Parser_proofs.**  For texts of any length, whatever the tables of
words, key names and layer names.  `TextsAssumption` (no NUL in a text) is what ReadFile
guarantees: it appends C strings.  `TokenInv` says where tokenize is: its place and every token
within the text, each token in front of the next and not empty, every newline it has
passed either counted in `line_number` or inside a token.  `LinesCorrect` follows.
`SaysInv` says of each token that it is the phrase written where it begins, and of an
identifier that no phrase is written there.  Each action of tokenize is one family of
phrases (`HereAlone`, `HereBehindOn`, `HereOfMouse`, `HereLong`: what it takes for a phrase of
the family to stand at a place), so that a look ahead that fails and is taken back
(`old_index`) can have missed none of them (`IdentifierSays`).  `SaysCorrect` follows.
`CoverInv`, inductive given these two, says that so far every piece of text and of
strings is in a token and none of a comment is, and that nothing is open where tokenize
looks next.  It speaks of every function `g` that gives each piece its kind (`Reads`),
not of `Kinds`, so that a step need only say what `g` is at the pieces it takes: a
phrase is made of pieces that open nothing (`PlainToken`), a string literal goes from
quote to quote (`QuotedReads`), a comment to the newline (`CommentReads`).  `Kinds`
is such a function (`KindsRead`), and `CoverCorrect` follows.  With `ErrorInv` each message
of tokenize is traced to a place where the text is wrong, and a text read to its
end has none: `ReadCorrect`, which is `AcceptsKeymaps` as far as tokenize is concerned.
The induction over the places of a text is `OneAfterAnother`, by way of the least
number of a set.

The parser's properties compare a loop with a reading of the whole text (`Given`,
`Meaning`), so the invariant relates the two at every place of the loop.
`Walked(n, where)`: what parse has passed over at token n is made of whole headers,
operations and actions, none with a header, an operation or a top-level statement
inside, so that an action ends where `TextFrom` says it does.  `RowsFound`: the rows of
`bindings` are the headers before n in their order, each with what `GivenTo` says of it,
the part of `Given` that stands before n.  At the end of the tokens the two agree
(`FoundAll`).  In the loop of parse_source, `Rest` says that `bindings` is what is left of
the text's rows, and `BoundSoFar` that all that is no longer there is bound, each
binding by the first row that speaks of it.  `on press: on hold: A` needs a case of its
own: parse takes `on hold` for the action of `on press`, so that for one step the
invariant is false; but then it stands at a colon, and an error message is next
(`Doomed`).

`SoundInv` is a second invariant, inductive given `ParserInv`: every row of `bindings` is
made of parts of the text that parse_action has let through (`Part`), every binding is
what parse_action_list makes of such a part, and tokenize throws only where the
text ends behind a mouse's verb (`MouseCut`).  What it is good for rests on lemmas about
the operators of ActionText, for token lists of any length.  `SplitIs` says that the
parts of a list lie between neighbouring cuts.  `ParseListStops` follows each exception
and each look at an empty list back to the token that caused it: an empty part of
a list means two separators in a row, one at an end (which parse_action refuses), or
one behind `press`, `release` or `click`.  With `PartIs` the token is one of the text, which is
`HaltsForAReason`.  `BindingSends` says that what parse_action_list makes of well-typed
tokens sends well-formed messages, which is `TypeOK`.

`AcceptInv` is a third invariant, inductive given the two, and says what the absence of an
error means so far.  `CameFrom(n, where)`: what parse has just read to be at token n.
`Laid(n, where)`: `LaidOut` holds as far as parse has come, every action begun before n
is well bounded, and every token before n is in a row or a statement.  An action
that parse lets through ends just before the next landmark or the end of the tokens
(`LaidAction`), so `Laid` is carried on by each step.  Each refusal is traced to a text
that is no keymap, by the place parse stands at (`RefusedStatement`, `RefusedRow`,
`RefusedMore`, `RefusedOperation`, `RefusedWord`), or to a row whose text is no action;
that in a keymap parse finds there what it looks for follows from `CameFrom` (`LaidNext`).  In the loop of
parse_source, `Good` says that every row and operation bound so far was an action,
so that at the last one `IsKeymap` holds.  One case ties the parser to the tokenizer:
an operation's word without a colon, behind a header, is for parse the text of the
row's press.  That it is no action (`OperationIsNoAction`) is known only from the letters of
the token (`TextInv`, which adds to `SaysInv` where each token's text comes from) and
from the assumption `KeyNamesAreNoOperations`: no name of key_names begins with
`ON` and a blank.  With `ReadCorrect` this is `AcceptsKeymaps` (`AcceptsCorrect`).

`TypesCorrect` has hypotheses about the constants that stand for conversions: a
literal spells a natural number (`ValueOf`), the hash of a layer's name is one of
`LayerIds`, a string literal types a sequence of characters (`NamesOK`).  They
quantify over all texts, so TLC cannot evaluate them as an ASSUME.  `HaltsCorrect`
and `AcceptsCorrect` need none of them.

**Only model-checked:** liveness, which is out of the prover's reach, and
`SlotForEveryKey`, which needs a count of the keys that are down against the slots.
Every other safety property the passing runs check is stated by a theorem.

## 5. What is not modelled, and why

* FatFs, FreeRTOS and TinyUSB are submodules outside the repository: modelled
  from how the code uses them, and marked external.  Of FatFs that means: what
  f_mkfs, f_setlabel and a closed file leave on the drive, and that each ends with
  a sync.  A file over several sectors, the allocation table, and README.txt beyond
  its name are left out.
* Failures of f_unmount, of opening or closing a file that is listed, and file
  names over 254 characters: no drive FatFs mounts is known to lead there.
  EraseAll, FileExists, DeleteFile and flash_erase are not called.
* Hexadecimal literals that run into a word (`0xclick`): they cannot be cut into
  pieces the way Tokenizer's texts are.
* The display task (never created), the blink task, the descriptors and
  configuration headers: no state that anything depends on.
* Code fetched from flash on core 1 while core 0 erases it: interrupts are
  disabled on core 0 only, what core 1 then executes is undefined.
* Distances of mouse moves, durations, printing.
* Hosts see a drive without medium today, as `tud_msc_test_unit_ready_cb` returns
  false; FlashCache models what the callbacks do once a host writes.

Seen while modelling and present in the model without a run of their own:
a press of exactly the hold time is neither a tap (`<`) nor a hold (`>`) and
does nothing (`EveryPressCounts` excludes it by name); a sideways scroll is sent
as a keyboard report, and mouse moves report no button
held, so a drag ends at the first move.

## 6. What is left

1. An abstract keyboard (the bag of keys held) implemented by HidTask.
2. One property of the tasks' sends: the reports a host sees are in the order of
   the messages.
3. Keymaps of several sectors in Boot, with the allocation table.
