------------------------------ MODULE PollTask ------------------------------
(***************************************************************************)
(* The poll-keys task (prvPollKeysTask, src/main.cc) and the matrix it     *)
(* reads.  Once a period it reads the two I2C expanders, five bytes each,  *)
(* stamps the snapshot with the tick count and queues it.  Snapshots are   *)
(* sets of positions whose (active-low) bit says pressed.                  *)
(***************************************************************************)
EXTENDS Integers, Sequences

CONSTANTS
  NumPositions,    (* 80: ten bytes of eight keys *)
  KeyQueueLength,  (* KEY_QUEUE_LENGTH *)
  TickModulus,     (* TickType_t wraps: 2^32 *)
  PollSteps,       (* ticks from one snapshot to the next *)
  FaultyHalves     (* the expanders whose reads may fail, as sets of positions *)

Position == 1 .. NumPositions
Tick     == 0 .. TickModulus - 1

ASSUME PollAssumption ==
  /\ NumPositions \in Nat \ {0} /\ KeyQueueLength \in Nat \ {0} /\ TickModulus \in Nat \ {0}
  /\ PollSteps \subseteq Nat
  /\ FaultyHalves \subseteq SUBSET Position

VARIABLES
  matrix,    (* the keys that are down *)
  ticks,     (* xTaskGetTickCount() at the latest snapshot *)
  keyQueue   (* xKeyQueue *)

KeyMessage == [pressed : SUBSET Position, time : Tick]

PollTypeOK ==
  /\ matrix \in SUBSET Position
  /\ ticks \in Tick
  /\ keyQueue \in Seq(KeyMessage) /\ Len(keyQueue) <= KeyQueueLength

PollInit == matrix = {} /\ ticks = 0 /\ keyQueue = <<>>

(* A key goes down or up. *)
KeyMoves(p) ==
  /\ matrix' = IF p \in matrix THEN matrix \ {p} ELSE matrix \cup {p}
  /\ UNCHANGED <<ticks, keyQueue>>

(* A failed read leaves its five bytes of the message uninitialised, and   *)
(* its result is not looked at.  A full queue loses the snapshot.          *)
Poll(d, failed, garbage) ==
  LET lost == UNION failed
      key  == [pressed |-> (matrix \ lost) \cup garbage, time |-> (ticks + d) % TickModulus]
  IN  /\ garbage \subseteq lost
      /\ ticks' = key.time
      /\ keyQueue' = IF Len(keyQueue) < KeyQueueLength THEN Append(keyQueue, key) ELSE keyQueue
      /\ UNCHANGED matrix

PollStep ==
  \E d \in PollSteps, failed \in SUBSET FaultyHalves :
    \E garbage \in SUBSET (UNION failed) : Poll(d, failed, garbage)
=============================================================================
