------------------------------ MODULE KeyTask -------------------------------
(***************************************************************************)
(* The process-keys task (prvProcessKeysTask, src/main.cc), alone on core  *)
(* 1.  For every snapshot it scans all positions twice: first for keys     *)
(* held long enough, then for keys that moved.  What it finds it enqueues  *)
(* through the current layer.                                              *)
(*                                                                         *)
(* The usb-hid task, on core 0, writes `layer' and empties the event queue *)
(* at any moment, so every read of `layer' is a step of its own: the one   *)
(* that decides what to do, and the one of layers[layer].second.Enqueue.   *)
(***************************************************************************)
EXTENDS PollTask, Layer

CONSTANTS
  keys,              (* the key number of each position *)
  Layers,            (* the parsed keymaps: a function from some of LayerIds *)
  BootLayer,         (* `layer' when the scheduler starts *)
  Hold,              (* pdMS_TO_TICKS(200) *)
  EventQueueLength   (* EVENT_QUEUE_LENGTH *)

ASSUME KeyTaskAssumption ==
  /\ DOMAIN keys = Position
  /\ DOMAIN Layers \subseteq LayerIds /\ BootLayer \in LayerIds
  /\ Hold \in Nat /\ EventQueueLength \in Nat \ {0}

KeyNumber == {keys[p] : p \in Position}

(* What the keymap parser has bound sends messages, and nothing else. *)
ASSUME LayersAssumption ==
  \A l \in DOMAIN Layers :
    /\ Layers[l].on_hold_bound \in BOOLEAN
    /\ \A k \in KeyNumber, op \in {"PRESS", "HOLD"}, bae \in BoundActionEnqueue :
         LayerEnqueue(Layers[l], k, op, bae) \in Seq(QueueMessage)

VARIABLES
  layer,       (* written by the usb-hid task *)
  eventQueue,  (* xEventQueue *)
  keyPc,       (* waiting for a snapshot, or in one of the two scans *)
  keyPos,      (* the position the scan is at *)
  current,     (* the keys down in this snapshot *)
  previous,    (* and in the one before *)
  now,         (* when this snapshot was taken *)
  timeouts,    (* when each key went down, or -1 *)
  calls,       (* Layer::Enqueue calls still to make for this position *)
  sends,       (* messages the current one has still to send *)
  dos          (* history: DO calls made for each position since it went down *)

keyVars   == <<matrix, ticks, keyQueue, keyPc, keyPos, current, previous, now, timeouts,
               calls, sends, dos>>
pollVars  == <<matrix, ticks, keyQueue>>
scanVars  == <<keyQueue, current, previous, now>>
vars      == <<layer, eventQueue, keyVars>>
-----------------------------------------------------------------------------
EnqueueCall == [key : KeyNumber, op : {"PRESS", "HOLD"}, bae : BoundActionEnqueue]

TypeOK ==
  /\ PollTypeOK
  /\ layer \in LayerIds
  /\ eventQueue \in Seq(QueueMessage) /\ Len(eventQueue) <= EventQueueLength
  /\ keyPc \in {"receive", "hold", "edge"}
  /\ keyPos \in 1 .. NumPositions + 1
  /\ current \in SUBSET Position /\ previous \in SUBSET Position
  /\ now \in Tick
  /\ timeouts \in [Position -> Tick \cup {-1}]
  /\ calls \in Seq(EnqueueCall)
  /\ sends \in Seq(QueueMessage)
  /\ dos \in [Position -> Nat]

Init ==
  /\ PollInit
  /\ layer = BootLayer /\ eventQueue = <<>>
  /\ keyPc = "receive" /\ keyPos = 1
  /\ current = {} /\ previous = {} /\ now = 0
  /\ timeouts = [p \in Position |-> -1]
  /\ calls = <<>> /\ sends = <<>>
  /\ dos = [p \in Position |-> 0]

-----------------------------------------------------------------------------
(* layers[layer].second: an unknown layer comes into being, empty. *)
CurrentLayer == IF layer \in DOMAIN Layers THEN Layers[layer] ELSE EmptyLayer

(* The scan goes on once all that its last position called for is sent. *)
At(pc) == keyPc = pc /\ calls = <<>> /\ sends = <<>>

Receive ==
  /\ At("receive") /\ keyQueue # <<>>
  /\ now' = Head(keyQueue).time /\ current' = Head(keyQueue).pressed
  /\ keyQueue' = Tail(keyQueue)
  /\ keyPc' = "hold" /\ keyPos' = 1
  /\ UNCHANGED <<layer, eventQueue, matrix, ticks, previous, timeouts, calls, sends, dos>>

Scan(pc) ==
  /\ At(pc) /\ keyPos \in Position
  /\ keyPos' = keyPos + 1
  /\ UNCHANGED <<layer, eventQueue, pollVars, current, previous, now, keyPc, sends>>

Call(op, bae) == [key |-> keys[keyPos], op |-> op, bae |-> bae]

(* now is unsigned, timeouts signed and wider: across a wrap of the tick   *)
(* count the difference is negative.                                       *)
Since(p) == now - timeouts[p]

HoldDue == /\ Bound(CurrentLayer, keys[keyPos], "HOLD")
           /\ timeouts[keyPos] # -1 /\ Since(keyPos) > Hold

(* Mutant: the timer runs on. *)
HoldFiresAgain ==
  /\ Scan("hold") /\ HoldDue
  /\ calls' = <<Call("HOLD", "DO")>>
  /\ dos' = [dos EXCEPT ![keyPos] = @ + 1]
  /\ UNCHANGED timeouts

HoldFires ==
  /\ Scan("hold") /\ HoldDue
  /\ calls' = <<Call("HOLD", "DO")>>
  /\ timeouts' = [timeouts EXCEPT ![keyPos] = -1]
  /\ dos' = [dos EXCEPT ![keyPos] = @ + 1]

HoldSkips ==
  /\ Scan("hold") /\ ~ HoldDue
  /\ UNCHANGED <<calls, timeouts, dos>>

HoldDone ==
  /\ At("hold") /\ keyPos = NumPositions + 1
  /\ keyPc' = "edge" /\ keyPos' = 1
  /\ UNCHANGED <<layer, eventQueue, pollVars, current, previous, now, timeouts, calls,
                 sends, dos>>

-----------------------------------------------------------------------------
Pressed  == keyPos \in current /\ keyPos \notin previous
Released == keyPos \in previous /\ keyPos \notin current

NoEdge ==
  /\ Scan("edge") /\ ~ Pressed /\ ~ Released
  /\ UNCHANGED <<calls, timeouts, dos>>

(* A layer with a hold binding decides only later what a press means. *)
HoldLayerPress ==
  /\ Scan("edge") /\ Pressed /\ CurrentLayer.on_hold_bound
  /\ timeouts' = [timeouts EXCEPT ![keyPos] = now]
  /\ dos' = [dos EXCEPT ![keyPos] = 0]
  /\ UNCHANGED calls

(* Mutant: a key held across a wrap of the tick count is no tap. *)
TappedUnsigned == timeouts[keyPos] # -1 /\ Since(keyPos) \in 0 .. Hold - 1

Tapped == timeouts[keyPos] # -1 /\ Since(keyPos) < Hold

(* Mutant: the timer of a tapped key runs on. *)
HoldLayerTapKeepsTimer ==
  /\ Scan("edge") /\ Released /\ CurrentLayer.on_hold_bound /\ Tapped
  /\ calls' = <<Call("PRESS", "DO"), Call("PRESS", "UNDO")>>
  /\ dos' = [dos EXCEPT ![keyPos] = @ + 1]
  /\ UNCHANGED timeouts

HoldLayerTap ==
  /\ Scan("edge") /\ Released /\ CurrentLayer.on_hold_bound /\ Tapped
  /\ calls' = <<Call("PRESS", "DO"), Call("PRESS", "UNDO")>>
  /\ timeouts' = [timeouts EXCEPT ![keyPos] = -1]
  /\ dos' = [dos EXCEPT ![keyPos] = @ + 1]

(* Mutant: the timer of a key held too short for HOLD runs on. *)
HoldLayerReleaseKeepsTimer ==
  /\ Scan("edge") /\ Released /\ CurrentLayer.on_hold_bound /\ ~ Tapped
  /\ calls' = <<Call("HOLD", "UNDO")>>
  /\ UNCHANGED <<timeouts, dos>>

(* Mutant: the wrong operation is undone. *)
HoldLayerReleaseOfPress ==
  /\ Scan("edge") /\ Released /\ CurrentLayer.on_hold_bound /\ ~ Tapped
  /\ calls' = <<Call("PRESS", "UNDO")>>
  /\ timeouts' = [timeouts EXCEPT ![keyPos] = -1]
  /\ UNCHANGED dos

HoldLayerRelease ==
  /\ Scan("edge") /\ Released /\ CurrentLayer.on_hold_bound /\ ~ Tapped
  /\ calls' = <<Call("HOLD", "UNDO")>>
  /\ timeouts' = [timeouts EXCEPT ![keyPos] = -1]
  /\ UNCHANGED dos

PlainPress ==
  /\ Scan("edge") /\ Pressed /\ ~ CurrentLayer.on_hold_bound
  /\ calls' = <<Call("PRESS", "DO")>>
  /\ dos' = [dos EXCEPT ![keyPos] = 1]
  /\ UNCHANGED timeouts

PlainRelease ==
  /\ Scan("edge") /\ Released /\ ~ CurrentLayer.on_hold_bound
  /\ calls' = <<Call("PRESS", "UNDO")>>
  /\ UNCHANGED <<timeouts, dos>>

EdgeDone ==
  /\ At("edge") /\ keyPos = NumPositions + 1
  /\ previous' = current
  /\ keyPc' = "receive" /\ keyPos' = 1
  /\ UNCHANGED <<layer, eventQueue, pollVars, current, now, timeouts, calls, sends, dos>>

-----------------------------------------------------------------------------
(* layers[layer].second.Enqueue(...) finds the action, in the layer that   *)
(* is current by now, and starts sending.                                  *)
EnqueueStart ==
  /\ calls # <<>> /\ sends = <<>>
  /\ LET c == Head(calls)
     IN  sends' = LayerEnqueue(CurrentLayer, c.key, c.op, c.bae)
  /\ calls' = Tail(calls)
  /\ UNCHANGED <<layer, eventQueue, pollVars, keyPc, keyPos, current, previous, now,
                 timeouts, dos>>

(* Mutant: a full queue takes the message nevertheless. *)
SendAnyway ==
  /\ sends # <<>>
  /\ eventQueue' = Append(eventQueue, Head(sends))
  /\ sends' = Tail(sends)
  /\ UNCHANGED <<layer, pollVars, keyPc, keyPos, current, previous, now, timeouts, calls, dos>>

(* Mutant: xQueueSendToFront. *)
SendToFront ==
  /\ sends # <<>> /\ HasRoom(eventQueue, EventQueueLength)
  /\ eventQueue' = <<Head(sends)>> \o eventQueue
  /\ sends' = Tail(sends)
  /\ UNCHANGED <<layer, pollVars, keyPc, keyPos, current, previous, now, timeouts, calls, dos>>

Send ==
  /\ sends # <<>> /\ HasRoom(eventQueue, EventQueueLength)
  /\ eventQueue' = Append(eventQueue, Head(sends))
  /\ sends' = Tail(sends)
  /\ UNCHANGED <<layer, pollVars, keyPc, keyPos, current, previous, now, timeouts, calls, dos>>

(* Mutant: portMAX_DELAY for a timeout. *)
SendWaits == sends # <<>> /\ FALSE /\ UNCHANGED vars

(* Ten ticks on a full queue: the message is lost, and nobody is told. *)
SendTimeout ==
  /\ sends # <<>> /\ ~ HasRoom(eventQueue, EventQueueLength)
  /\ sends' = Tail(sends)
  /\ UNCHANGED <<layer, eventQueue, pollVars, keyPc, keyPos, current, previous, now,
                 timeouts, calls, dos>>

-----------------------------------------------------------------------------
EdgeScan == \/ NoEdge \/ HoldLayerPress \/ HoldLayerTap \/ HoldLayerRelease
            \/ PlainPress \/ PlainRelease

KeyStep == \/ Receive \/ HoldFires \/ HoldSkips \/ HoldDone \/ EdgeScan \/ EdgeDone
           \/ EnqueueStart \/ Send \/ SendTimeout

MatrixStep == /\ PollStep \/ (\E p \in Position : KeyMoves(p))
              /\ UNCHANGED <<layer, eventQueue, keyPc, keyPos, current, previous, now,
                             timeouts, calls, sends, dos>>

(* The usb-hid task takes a message; of all it does with it, only a new    *)
(* layer concerns this task.                                               *)
Consumed ==
  /\ eventQueue # <<>>
  /\ eventQueue' = Tail(eventQueue)
  /\ layer' = IF Head(eventQueue).type = "LAYER_SWITCH" THEN Head(eventQueue).layer ELSE layer
  /\ UNCHANGED keyVars

(* A reboot, taken from the event queue by the usb-hid task. *)
Restarted ==
  /\ keyQueue' = <<>> /\ ticks' = 0
  /\ layer' = BootLayer /\ eventQueue' = <<>>
  /\ keyPc' = "receive" /\ keyPos' = 1
  /\ current' = {} /\ previous' = {} /\ now' = 0
  /\ timeouts' = [p \in Position |-> -1]
  /\ calls' = <<>> /\ sends' = <<>>
  /\ dos' = [p \in Position |-> 0]
  /\ UNCHANGED matrix

Next == KeyStep \/ MatrixStep \/ Consumed \/ Restarted

Spec == Init /\ [][Next]_vars
-----------------------------------------------------------------------------
(* While scanning, the keys the scan has passed are as in this snapshot    *)
(* already.                                                                *)
Down == IF keyPc = "edge" THEN {p \in current : p < keyPos} \cup {p \in previous : p >= keyPos}
        ELSE previous

(* Every layer there can be has hold bindings, or none has. *)
HoldKeymaps   == \A l \in LayerIds : l \in DOMAIN Layers /\ Layers[l].on_hold_bound
PlainKeymaps  == \A l \in DOMAIN Layers : ~ Layers[l].on_hold_bound
UniformLayers == HoldKeymaps \/ PlainKeymaps

(* A running hold timer belongs to a key that is down. *)
TimersOfDownKeys == \A p \in Position : timeouts[p] # -1 => p \in Down

(* A press of a key counts at most once, as a tap or as a hold. *)
OneDoPerPress == \A p \in Position : /\ dos[p] <= 1
                                     /\ timeouts[p] # -1 => dos[p] = 0

(* The hold action fires only for a key that was down in the snapshot      *)
(* before, never for one released long ago.                                *)
HoldOnlyWhileDown == [][HoldFires => keyPos \in previous]_vars

(* Wherever a hold decides, the key has a hold binding.  (A comment of the *)
(* code notes that a longer press of any other key is dropped.)            *)
Answerable(p) ==
  \A l \in DOMAIN Layers : Layers[l].on_hold_bound => Bound(Layers[l], keys[p], "HOLD")

(* A key that comes up has been answered, as a tap or as a hold: only the  *)
(* press of exactly the hold time, neither shorter nor longer, is dropped. *)
EveryPressCounts ==
  [][\A p \in Position :
       /\ p \in Down /\ p \notin Down' /\ keyPc' = "edge"
       /\ Answerable(p) /\ (timeouts[p] # -1 => Since(p) # Hold)
       => dos'[p] >= 1]_vars
=============================================================================
