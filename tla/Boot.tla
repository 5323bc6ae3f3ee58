-------------------------------- MODULE Boot --------------------------------
(***************************************************************************)
(* main up to the start of the scheduler (src/main.cc), with the functions *)
(* of src/filesystem.cc that it calls, over the flash and its cache: the   *)
(* drive is mounted, or made anew, and every keymap on it is parsed.  The  *)
(* host edits the drive once the board runs, and the power may go at any   *)
(* moment.                                                                 *)
(*                                                                         *)
(* The drive has a boot record, a root directory and a sector for each     *)
(* keymap.  What FatFs writes when is modelled from the calls; README.txt, *)
(* which nobody reads, is a directory entry only.                          *)
(***************************************************************************)
EXTENDS FlashCache, FiniteSets

CONSTANTS
  Keymap,      (* names of .kmf files *)
  BaseLayer,   (* the one that is in effect first *)
  Readme,      (* README.txt: not a .kmf file *)
  Text,        (* what a keymap file may hold *)
  Wrong,       (* texts for which parse_source returns a message *)
  Halting,     (* texts on which it throws *)
  BootRecord,  (* what makes a drive one that FatFs mounts *)
  BootSector, RootSector,
  SectorOf,    (* where each keymap is *)
  NoLayer      (* 0, the value of `layer' at power-up *)

File      == Keymap \cup {Readme}
Directory == [label : BOOLEAN, files : SUBSET File]

ASSUME DriveAssumption ==
  /\ BaseLayer \in Keymap /\ Readme \notin Keymap /\ NoLayer \notin Keymap
  /\ Wrong \subseteq Text /\ Halting \subseteq Text \ Wrong /\ Erased \notin Text
  /\ BootSector \in Sector /\ RootSector \in Sector \ {BootSector}
  /\ SectorOf \in [Keymap -> Sector \ {BootSector, RootSector}]
  /\ {BootRecord} \cup Directory \cup Text \subseteq Datum

VARIABLES
  bootPc,         (* the place in main and Initialize; running, halted by an *)
                  (* exception, or returned from main                        *)
  fresh,          (* Initialize makes the file system *)
  unformatted,    (* the sectors f_mkfs has still to write *)
  keymap_files,   (* the files main has still to parse *)
  layers, layer,
  parse_status,   (* Success, or the message for a file *)
  found           (* history: the drive at power-up, as its users had left it *)

bootVars == <<bootPc, fresh, unformatted, keymap_files, layers, layer, parse_status>>
allVars  == <<vars, bootVars, found>>

Full(d) == [p \in Part |-> d]

NewDirectory    == [label |-> FALSE, files |-> {}]
Labelled(dir)   == [dir EXCEPT !.label = TRUE]
WithReadme(dir) == [dir EXCEPT !.files = @ \cup {Readme}]

(* What FatFs makes of a drive: of a directory it cannot read, nothing. *)
Mountable(drive) == drive[BootSector] = Full(BootRecord)
Readable(drive)  == \E dir \in Directory : drive[RootSector] = Full(dir)
Root(drive) ==
  IF Readable(drive) THEN CHOOSE dir \in Directory : drive[RootSector] = Full(dir)
  ELSE NewDirectory
Listed(drive) == IF Mountable(drive) THEN Root(drive).files ELSE {}
(* A text that is not whole is wrong: an erased sector has no letters.     *)
(* (Torn inside a comment it would still parse.)                           *)
TextOf(drive, f) ==
  IF \E t \in Text : drive[SectorOf[f]] = Full(t)
  THEN CHOOSE t \in Text : drive[SectorOf[f]] = Full(t) ELSE Erased

(* What the sectors of a drive may hold, whoever wrote it. *)
MayHold(s) ==
  {Erased} \cup CASE s = BootSector -> {BootRecord}
                  [] s = RootSector -> Directory
                  [] OTHER          -> Text

PowerUp ==
  /\ bootPc' = "mount" /\ fresh' = FALSE /\ unformatted' = {} /\ keymap_files' = {}
  /\ layers' = [f \in {} |-> Erased] /\ layer' = NoLayer /\ parse_status' = "Success"

BootInit ==
  /\ flash \in {drive \in [Sector -> {Full(d) : d \in Datum}] :
                  \A s \in Sector : \E d \in MayHold(s) : drive[s] = Full(d)}
  /\ written = flash /\ found = flash
  /\ _fl_addr = NoSector /\ _fl_buf = Blank /\ erased = FALSE
  /\ call = NoCall
  /\ user = "FatFs" /\ chunk = FirstChunk(1) /\ end = 1
  /\ bootPc = "mount" /\ fresh = FALSE /\ unformatted = {} /\ keymap_files = {}
  /\ layers = [f \in {} |-> Erased] /\ layer = NoLayer /\ parse_status = "Success"

(* main goes on from one place to the next when no call of flash.c is in   *)
(* progress.                                                               *)
Go(from, to) == bootPc = from /\ user = "FatFs" /\ call = NoCall /\ bootPc' = to

-----------------------------------------------------------------------------
(* Filesystem::Initialize. *)
MountOk ==
  /\ Mountable(flash) /\ Go("mount", "label")
  /\ UNCHANGED <<vars, fresh, unformatted, keymap_files, layers, layer, parse_status>>

(* Whatever the reason, the drive is made anew. *)
MountFails ==
  /\ ~ Mountable(flash) /\ Go("mount", "mkfs")
  /\ fresh' = TRUE /\ unformatted' = {BootSector, RootSector}
  /\ UNCHANGED <<vars, keymap_files, layers, layer, parse_status>>

(* f_mkfs, in an order of its own. *)
MkfsWrites ==
  \E s \in unformatted :
    /\ Go("mkfs", "mkfs")
    /\ DiskWrite(s, IF s = BootSector THEN BootRecord ELSE NewDirectory)
    /\ unformatted' = unformatted \ {s}
    /\ UNCHANGED <<fresh, keymap_files, layers, layer, parse_status>>

MkfsSyncs ==
  /\ unformatted = {} /\ Go("mkfs", "label") /\ DiskSync
  /\ UNCHANGED <<fresh, unformatted, keymap_files, layers, layer, parse_status>>

(* Mutant: Initialize tries again. *)
MkfsFailsRetries ==
  /\ unformatted = {BootSector, RootSector} /\ Go("mkfs", "mount")
  /\ UNCHANGED <<vars, fresh, unformatted, keymap_files, layers, layer, parse_status>>
(* Initialize returns false: main neither mounts nor lists the drive. *)
MkfsFails ==
  /\ unformatted = {BootSector, RootSector} /\ Go("mkfs", "parse")
  /\ UNCHANGED <<vars, fresh, unformatted, keymap_files, layers, layer, parse_status>>

(* f_setlabel, whose result nobody looks at. *)
SetLabel ==
  /\ Readable(flash) /\ Go("label", "labelled")
  /\ DiskWrite(RootSector, Labelled(Root(flash)))
  /\ UNCHANGED <<fresh, unformatted, keymap_files, layers, layer, parse_status>>

SetLabelFails ==
  /\ ~ Readable(flash) /\ Go("label", "labelled")
  /\ UNCHANGED <<vars, fresh, unformatted, keymap_files, layers, layer, parse_status>>

(* Mutant: the name stays in the cache. *)
SetLabelUnsynced ==
  /\ Go("labelled", IF fresh THEN "readme" ELSE "list") /\ UNCHANGED vars
  /\ UNCHANGED <<fresh, unformatted, keymap_files, layers, layer, parse_status>>

SetLabelSyncs ==
  /\ Go("labelled", IF fresh THEN "readme" ELSE "list") /\ DiskSync
  /\ UNCHANGED <<fresh, unformatted, keymap_files, layers, layer, parse_status>>

(* AddFile of README.txt, on a new drive. *)
AddReadme ==
  /\ Go("readme", "closing")
  /\ DiskWrite(RootSector, WithReadme(Root(flash)))
  /\ UNCHANGED <<fresh, unformatted, keymap_files, layers, layer, parse_status>>

(* Mutant: README.txt is not closed. *)
AddReadmeUnsynced ==
  /\ Go("closing", "list") /\ UNCHANGED vars
  /\ UNCHANGED <<fresh, unformatted, keymap_files, layers, layer, parse_status>>

AddReadmeSyncs ==
  /\ Go("closing", "list") /\ DiskSync
  /\ UNCHANGED <<fresh, unformatted, keymap_files, layers, layer, parse_status>>

-----------------------------------------------------------------------------
(* main. *)
(* Mutant: only the base layer is taken. *)
ListBaseOnly ==
  /\ Go("list", "parse")
  /\ keymap_files' = Listed(flash) \cap {BaseLayer}
  /\ UNCHANGED <<vars, fresh, unformatted, layers, layer, parse_status>>
(* Mutant: a name may end in anything. *)
ListAnyName ==
  /\ Go("list", "parse")
  /\ keymap_files' = Listed(flash)
  /\ UNCHANGED <<vars, fresh, unformatted, layers, layer, parse_status>>
(* Mount, again, and List; then the names that end in .kmf. *)
List ==
  /\ Go("list", "parse")
  /\ keymap_files' = Listed(flash) \cap Keymap
  /\ UNCHANGED <<vars, fresh, unformatted, layers, layer, parse_status>>

(* Mutant: the status is that of the last file. *)
ParseLastStatus(f) ==
  /\ f \in keymap_files /\ Go("parse", "parse")
  /\ TextOf(flash, f) \notin Halting
  /\ parse_status' = IF TextOf(flash, f) \in Wrong \cup {Erased} THEN "message" ELSE "Success"
  /\ layer' = IF f = BaseLayer THEN f ELSE layer
  /\ layers' = [g \in DOMAIN layers \cup {f} |-> IF g = f THEN TextOf(flash, f) ELSE layers[g]]
  /\ keymap_files' = keymap_files \ {f}
  /\ UNCHANGED <<vars, fresh, unformatted>>
(* ReadFile and parse_source.  The layer, which is known here by its text, *)
(* is installed whatever parse_source has returned.                        *)
Parse(f) ==
  /\ f \in keymap_files /\ Go("parse", "parse")
  /\ TextOf(flash, f) \notin Halting
  /\ parse_status' = IF TextOf(flash, f) \in Wrong \cup {Erased} THEN "message" ELSE parse_status
  /\ layer' = IF f = BaseLayer THEN f ELSE layer
  /\ layers' = [g \in DOMAIN layers \cup {f} |-> IF g = f THEN TextOf(flash, f) ELSE layers[g]]
  /\ keymap_files' = keymap_files \ {f}
  /\ UNCHANGED <<vars, fresh, unformatted>>

ParseThrows(f) ==
  /\ f \in keymap_files /\ Go("parse", "halted")
  /\ TextOf(flash, f) \in Halting
  /\ UNCHANGED <<vars, fresh, unformatted, keymap_files, layers, layer, parse_status>>

(* The mutex and the two queues: without memory for them main returns. *)
OutOfMemory ==
  /\ keymap_files = {} /\ Go("parse", "returned")
  /\ UNCHANGED <<vars, fresh, unformatted, keymap_files, layers, layer, parse_status>>

Start ==
  /\ keymap_files = {} /\ Go("parse", "running") /\ StartScheduler
  /\ UNCHANGED <<fresh, unformatted, keymap_files, layers, layer, parse_status>>

-----------------------------------------------------------------------------
(* The flash and the host go on as in FlashCache.  The host knows what a   *)
(* drive looks like; the bound is that it edits one sector per start.      *)
FlashStep == (Flush \/ WriteCached \/ WriteLoads) /\ UNCHANGED bootVars

EditBound == written = found

HostStep ==
  /\ \/ EditBound /\ \E s \in Sector : HostWrites(s, s)
     \/ \E d \in MayHold(chunk.sector) \ {Erased} : Write10(d)
     \/ Write10Complete \/ CommandCut
  /\ UNCHANGED bootVars

(* A host that has come to the end of its commands takes the drive to hold *)
(* what it has written.                                                    *)
PowerCycle ==
  /\ PowerCut /\ PowerUp
  /\ found' = IF user = "ready" /\ call = NoCall THEN written ELSE flash'

Initialize ==
  \/ MountOk \/ MountFails \/ MkfsWrites \/ MkfsSyncs \/ MkfsFails
  \/ SetLabel \/ SetLabelFails \/ SetLabelSyncs \/ AddReadme \/ AddReadmeSyncs
Main ==
  \/ List \/ OutOfMemory \/ Start
  \/ \E f \in Keymap : Parse(f) \/ ParseThrows(f)

BootStep == (Initialize \/ Main \/ FlashStep) /\ UNCHANGED found
BootNext == BootStep \/ (HostStep /\ UNCHANGED found) \/ PowerCycle

BootSpec == BootInit /\ [][BootNext]_allVars
(* Nothing keeps main waiting, and flash.c returns. *)
FairBootSpec == BootSpec /\ WF_allVars(BootStep)
-----------------------------------------------------------------------------
Over == {"running", "halted", "returned"}

BootTypeOK ==
  /\ TypeOK
  /\ bootPc \in {"mount", "mkfs", "label", "labelled", "readme", "closing", "list", "parse"} \cup Over
  /\ fresh \in BOOLEAN /\ unformatted \subseteq {BootSector, RootSector}
  /\ keymap_files \subseteq Keymap
  /\ DOMAIN layers \subseteq Keymap
  /\ \A f \in DOMAIN layers : layers[f] \in Text \cup {Erased}
  /\ layer \in Keymap \cup {NoLayer}
  /\ parse_status \in {"Success", "message"}
  /\ found \in [Sector -> Contents]

(* The keymaps in effect are those that the drive held when the power came *)
(* on, as its last user had written them, all of them and no other; and    *)
(* the base layer is in effect if the drive has one ("power cycle the      *)
(* keyboard for them to take effect", filesystem.cc).                      *)
KeymapsTakeEffect ==
  bootPc = "running" =>
    /\ layers = [f \in Listed(found) \cap Keymap |-> TextOf(found, f)]
    /\ layer = IF BaseLayer \in DOMAIN layers THEN BaseLayer ELSE NoLayer

(* disk_read goes to the flash, past the sector that flash_write keeps in  *)
(* the cache: wherever main reads the drive, each write before it has been *)
(* flushed, so that it reads what was written last and not what the flash  *)
(* held earlier.                                                           *)
NoStaleRead ==
  user = "FatFs" /\ call = NoCall /\ bootPc \in {"mount", "label", "readme", "list", "parse"}
    => flash = written

(* The one status that is kept tells whether every keymap is right         *)
(* (main: parse_status).                                                   *)
StatusTellsAll ==
  bootPc = "running" =>
    (parse_status = "Success" <=>
       \A f \in Listed(found) \cap Keymap : TextOf(found, f) \in Text \ Wrong)

(* To start from a drive that bears its name touches nothing on it, so no  *)
(* power cut before the host comes costs a keymap: the label is written    *)
(* every time, and flash_flush finds nothing new in it.                    *)
QuietBoot ==
  user = "FatFs" /\ Mountable(found) /\ Root(found).label => flash = found

(* A keymap that stops the board stops it at every start to come: the      *)
(* drive is left whole, with its name on it, so that by QuietBoot nothing  *)
(* will ever be written to it again, and it still lists that keymap.  The  *)
(* host does not get to see it: the scheduler never starts.                *)
HaltsAgain ==
  bootPc = "halted" =>
    /\ Root(flash).label /\ _fl_addr = NoSector
    /\ \E f \in Listed(flash) \cap Keymap : TextOf(flash, f) \in Halting

(* However the drive is, main gets to an end, unless the power keeps       *)
(* going: the scheduler runs, an exception stops the board, or main        *)
(* returns.                                                                *)
BootEnds == []<>(bootPc \in Over) \/ []<><<PowerCycle>>_allVars
=============================================================================
