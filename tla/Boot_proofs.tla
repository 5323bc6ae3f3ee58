---------------------------- MODULE Boot_proofs -----------------------------
(***************************************************************************)
(* Proofs about Boot, for every drive and any keymaps: what runs on the    *)
(* board is a behaviour of FlashCache, a start leaves a drive with its     *)
(* name on it alone, and the keymaps in effect, and their status, are      *)
(* those of the drive as it was found.                                     *)
(***************************************************************************)
EXTENDS Boot, FlashCache_proofs

(* The drive once the write in progress is done: what main sees of it. *)
Drive ==
  IF call # NoCall /\ call.op = "write"
  THEN [written EXCEPT ![call.sector] = Overwritten(@, call.parts, call.datum)] ELSE written

(* The keymaps of the drive as it was found. *)
Kept == Listed(found) \cap Keymap

Before  == {"mount", "mkfs", "label", "labelled", "readme", "closing", "list"}
Mounted == {"label", "labelled", "readme", "closing", "list", "parse", "halted", "returned"}

(* FatFs has the drive until the scheduler runs. *)
FatFsBoots == user = "FatFs" <=> bootPc # "running"

(* Where main has written nothing since its last sync, the cache is empty  *)
(* or about to be.                                                         *)
SyncedAt ==
  \/ bootPc \in {"mount", "label", "readme", "list", "parse", "halted", "returned"}
  \/ bootPc = "mkfs" /\ unformatted = {BootSector, RootSector}
Synced == /\ SyncedAt => IF call = NoCall THEN _fl_addr = NoSector ELSE call.op = "flush"
          /\ bootPc = "halted" => call = NoCall

(* What main does to the drive leaves the keymaps where they are. *)
KeymapsKept ==
  /\ bootPc = "mount" => Drive = found
  /\ bootPc = "mkfs"  =>
       /\ ~ Mountable(found)
       /\ IF RootSector \in unformatted THEN BootSector \in unformatted => Drive = found
          ELSE Root(Drive).files = {}
  /\ bootPc \in Mounted =>
       /\ Listed(Drive) \cap Keymap = Kept
       /\ \A f \in Kept : Drive[SectorOf[f]] = found[SectorOf[f]]
  /\ bootPc \in Mounted \ {"label"} => Root(Drive).label \/ Kept = {}

(* So much of the keymaps as has been parsed is in effect. *)
Done == Kept \ keymap_files
LayersSoFar ==
  /\ bootPc \in Before =>
       /\ keymap_files = {} /\ layers = [f \in {} |-> Erased]
       /\ layer = NoLayer /\ parse_status = "Success"
  /\ bootPc \notin Before =>
       /\ keymap_files \subseteq Kept
       /\ layers = [f \in Done |-> TextOf(found, f)]
       /\ layer = IF BaseLayer \in Done THEN BaseLayer ELSE NoLayer
       /\ parse_status = "Success" <=> \A f \in Done : TextOf(found, f) \in Text \ Wrong
  /\ bootPc = "running" => keymap_files = {}
  /\ bootPc = "halted"  => \E f \in keymap_files : TextOf(found, f) \in Halting

(* On a drive with its name on it nothing that is written is new. *)
Named == Mountable(found) /\ Root(found).label
Quiet ==
  user = "FatFs" /\ Named =>
    /\ flash = found /\ written = found /\ Drive = found
    /\ ~ erased /\ ~ fresh /\ bootPc \notin {"mkfs", "readme", "closing"}

BootInv == /\ BootTypeOK /\ StorageInv
           /\ FatFsBoots /\ Synced /\ KeymapsKept /\ LayersSoFar /\ Quiet

-----------------------------------------------------------------------------
(* A drive of whole sectors is read as it was written. *)
LEMMA FullSectors ==
  /\ \A d \in Datum : Full(d) \in Contents
  /\ \A d, e : Full(d) = Full(e) => d = e
  /\ \A c, d : Overwritten(c, Part, d) = Full(d)
<1>1. 1 \in Part
  BY StorageAssumption DEF Part
<1>2. ASSUME NEW d, NEW e, Full(d) = Full(e)  PROVE d = e
  <2>1. Full(d)[1] = d /\ Full(e)[1] = e
    BY <1>1 DEF Full
  <2>. QED  BY <1>2, <2>1
<1>. QED  BY <1>2 DEF Full, Contents, Overwritten

(* A root directory that was written is the root directory. *)
LEMMA RootIs ==
  ASSUME NEW drive, NEW dir \in Directory, drive[RootSector] = Full(dir)
  PROVE  Readable(drive) /\ Root(drive) = dir
<1>1. \A d \in Directory : drive[RootSector] = Full(d) => d = dir
  BY FullSectors
<1>. QED  BY <1>1 DEF Readable, Root

(* Directories are directories, with a label and README.txt added too. *)
LEMMA DirectoryTypes ==
  ASSUME NEW drive
  PROVE  /\ Root(drive) \in Directory
         /\ Readable(drive) => drive[RootSector] = Full(Root(drive))
         /\ ~ Readable(drive) => Root(drive) = NewDirectory
         /\ NewDirectory \in Directory
         /\ Labelled(Root(drive)) \in Directory
         /\ WithReadme(Root(drive)) \in Directory
         /\ Directory \subseteq Datum /\ BootRecord \in Datum
<1>1. NewDirectory \in Directory
  BY DEF Directory, NewDirectory
<1>2. ASSUME NEW dir \in Directory
      PROVE  Labelled(dir) \in Directory /\ WithReadme(dir) \in Directory
  BY DEF Directory, File, Labelled, WithReadme
<1>3. CASE Readable(drive)
  <2>1. Root(drive) \in Directory /\ drive[RootSector] = Full(Root(drive))
    BY <1>3 DEF Readable, Root
  <2>. QED  BY <1>1, <1>2, <1>3, <2>1, DriveAssumption
<1>4. CASE ~ Readable(drive)
  <2>1. Root(drive) = NewDirectory
    BY <1>4 DEF Root
  <2>. QED  BY <1>1, <1>2, <1>4, <2>1, DriveAssumption
<1>. QED  BY <1>3, <1>4

(* What the host writes is data. *)
LEMMA MayHoldTypes == ASSUME NEW s, NEW d \in MayHold(s) PROVE d \in Datum
BY DriveAssumption, StorageAssumption DEF MayHold

-----------------------------------------------------------------------------
(* Every step of main, of the flash, of the host and of the power is one   *)
(* that FlashCache knows.                                                  *)
LEMMA BootStepIsStorageStep ==
  ASSUME BootTypeOK, [BootNext]_allVars  PROVE [Next]_vars
<1>. USE DriveAssumption
<1>1. CASE MountOk \/ MountFails \/ MkfsFails \/ SetLabelFails \/ List \/ OutOfMemory
  BY <1>1 DEF MountOk, MountFails, MkfsFails, SetLabelFails, List, OutOfMemory
<1>2. CASE MkfsWrites
  <2>. PICK s \in unformatted :
         DiskWrite(s, IF s = BootSector THEN BootRecord ELSE NewDirectory)
    BY <1>2 DEF MkfsWrites
  <2>. QED  BY DirectoryTypes DEF BootTypeOK, Next, FatFs
<1>3. CASE SetLabel \/ AddReadme
  BY <1>3, DirectoryTypes DEF SetLabel, AddReadme, Next, FatFs
<1>4. CASE MkfsSyncs \/ SetLabelSyncs \/ AddReadmeSyncs \/ Start
  BY <1>4 DEF MkfsSyncs, SetLabelSyncs, AddReadmeSyncs, Start, Next, FatFs
<1>5. ASSUME NEW f \in Keymap, Parse(f) \/ ParseThrows(f)  PROVE UNCHANGED vars
  BY <1>5 DEF Parse, ParseThrows
<1>6. CASE FlashStep
  BY <1>6 DEF FlashStep, Next
<1>7. CASE HostStep
  BY <1>7, MayHoldTypes DEF HostStep, Next, Host
<1>8. CASE PowerCycle
  BY <1>8 DEF PowerCycle, Next
<1>9. CASE UNCHANGED allVars
  BY <1>9 DEF allVars
<1>. QED  BY <1>1, <1>2, <1>3, <1>4, <1>5, <1>6, <1>7, <1>8, <1>9
          DEF BootNext, BootStep, Initialize, Main

(* A drive the board may find is one that FlashCache may find. *)
LEMMA BootInitIsStorageInit == BootInit => Init
<1>. SUFFICES ASSUME BootInit PROVE Init
  OBVIOUS
<1>1. flash \in [Sector -> Contents]
  <2>. DEFINE Whole == {Full(d) : d \in Datum}
  <2>1. flash \in [Sector -> Whole]
    BY DEF BootInit
  <2>2. Whole \subseteq Contents
    BY FullSectors
  <2>. QED  BY <2>1, <2>2
<1>. QED  BY <1>1 DEF BootInit, Init

-----------------------------------------------------------------------------
(* A file reads as a text, or as none. *)
LEMMA TextTypes ==
  ASSUME NEW drive, NEW f  PROVE TextOf(drive, f) \in Text \cup {Erased}
<1>. QED  BY DEF TextOf

(* The variables of main keep their types. *)
LEMMA BootTypeStep ==
  ASSUME BootTypeOK, [BootNext]_allVars, TypeOK'  PROVE BootTypeOK'
<1>. USE DEF BootTypeOK
<1>0. RootSector \in Sector /\ BootSector \in Sector
  BY DriveAssumption
<1>1. CASE Initialize /\ UNCHANGED found
  BY <1>0, <1>1 DEF Initialize, Go, Over, MountOk, MountFails, MkfsWrites, MkfsSyncs, MkfsFails, SetLabel,
       SetLabelFails, SetLabelSyncs, AddReadme, AddReadmeSyncs
<1>2. CASE (List \/ OutOfMemory \/ Start) /\ UNCHANGED found
  BY <1>2 DEF Go, Over, List, OutOfMemory, Start
<1>3. ASSUME NEW f \in Keymap, Parse(f), UNCHANGED found  PROVE BootTypeOK'
  <2>1. DOMAIN layers' \subseteq Keymap
    BY <1>3 DEF Parse
  <2>2. \A g \in DOMAIN layers' : layers'[g] \in Text \cup {Erased}
    BY <1>3, TextTypes DEF Parse
  <2>. QED  BY <1>3, <2>1, <2>2 DEF Parse, Go
<1>4. ASSUME NEW f \in Keymap, ParseThrows(f), UNCHANGED found  PROVE BootTypeOK'
  BY <1>4 DEF ParseThrows, Go, Over
<1>5. CASE (FlashStep \/ HostStep) /\ UNCHANGED found
  BY <1>5 DEF FlashStep, HostStep, bootVars
<1>6. CASE PowerCycle
  BY <1>6 DEF PowerCycle, PowerUp, TypeOK
<1>7. CASE UNCHANGED allVars
  BY <1>7 DEF allVars, bootVars
<1>. QED  BY <1>1, <1>2, <1>3, <1>4, <1>5, <1>6, <1>7 DEF BootNext, BootStep, Main

(* Every variable of main keeps its type. *)
THEOREM BootTypeCorrect == BootSpec => []BootTypeOK
<1>1. BootInit => BootTypeOK /\ StorageInv
  <2>. SUFFICES ASSUME BootInit PROVE BootTypeOK /\ StorageInv
    OBVIOUS
  <2>1. StorageInv
    BY BootInitIsStorageInit, StorageInit
  <2>. QED  BY <2>1 DEF StorageInv, BootInit, BootTypeOK, TypeOK
<1>2. BootTypeOK /\ StorageInv /\ [BootNext]_allVars => BootTypeOK' /\ StorageInv'
  BY BootStepIsStorageStep, StorageStep, BootTypeStep DEF StorageInv
<1>. QED  BY <1>1, <1>2, PTL DEF BootSpec

(* Under main, the host and the power the drive is what FlashCache says:   *)
(* so it does as BlockDevice promises (filesystem.cc over diskio.c).       *)
THEOREM BootIsOnDevice == BootSpec => DeviceSpec
<1>1. BootInit => Init
  BY BootInitIsStorageInit
<1>2. BootTypeOK /\ [BootNext]_allVars => [Next]_vars
  BY BootStepIsStorageStep
<1>3. BootSpec => Spec
  BY <1>1, <1>2, BootTypeCorrect, PTL DEF BootSpec, Spec
<1>. QED  BY <1>3, StorageIsDevice

-----------------------------------------------------------------------------
(* A write of FatFs changes one sector of the drive main sees, whole. *)
LEMMA DriveWritten ==
  ASSUME StorageInv, NEW s \in Sector, NEW d \in Datum, DiskWrite(s, d)
  PROVE  /\ Drive = written /\ Drive' = [written EXCEPT ![s] = Full(d)]
         /\ UNCHANGED <<cacheVars, written, user>> /\ ~ erased
<1>1. /\ call = NoCall /\ UNCHANGED <<cacheVars, written, user>>
      /\ call' = [op |-> "write", sector |-> s, parts |-> Part, datum |-> d]
  BY DEF DiskWrite, userVars
<1>2. call' # NoCall /\ call'.op = "write"
  BY <1>1, NoCallAssumption DEF WriteCall
<1>3. ~ erased
  BY <1>1 DEF StorageInv, ErasedByFlush, Flushing
<1>. QED  BY <1>1, <1>2, <1>3, FullSectors DEF Drive

(* Nothing else of flash.c changes it. *)
LEMMA DriveSame ==
  ASSUME StorageInv, Flush \/ WriteCached \/ WriteLoads \/ DiskSync \/ StartScheduler
  PROVE  Drive' = Drive
<1>1. CASE FlushSkips \/ FlushErases \/ FlushPrograms
  BY <1>1 DEF FlushSkips, FlushErases, FlushPrograms, Drive
<1>2. CASE FlushReturns
  BY <1>2 DEF FlushReturns, Drive
<1>3. CASE WriteCached \/ WriteLoads
  <2>. PICK s, old : Write(s, old) /\ call # NoCall
    BY <1>3 DEF WriteCached, WriteLoads
  <2>. QED  BY DEF Write, Drive
<1>4. CASE DiskSync
  BY <1>4, CallKinds DEF DiskSync, Drive, FlushCall
<1>5. CASE StartScheduler
  BY <1>5 DEF StartScheduler, Drive
<1>. QED  BY <1>1, <1>2, <1>3, <1>4, <1>5 DEF Flush

(* Where nothing is in the cache FatFs reads what it has written. *)
LEMMA DriveIsFlash ==
  ASSUME StorageInv, call = NoCall
  PROVE  Drive = written /\ (_fl_addr = NoSector => flash = written) /\ ~ erased
<1>1. ASSUME _fl_addr = NoSector  PROVE flash = written
  <2>1. Disk = flash
    BY <1>1, StorageAssumption DEF Disk, StorageInv, TypeOK
  <2>. QED  BY <2>1 DEF StorageInv, NoWriteLost
<1>. QED  BY <1>1 DEF Drive, StorageInv, ErasedByFlush, Flushing

(* A sync at a place where all is synced already, or after a write. *)
LEMMA SyncPending == ASSUME DiskSync PROVE call' # NoCall /\ call'.op = "flush"
BY NoCallAssumption DEF DiskSync, FlushCall

-----------------------------------------------------------------------------
(* What BootInv says besides the types and the storage.  Initialize keeps  *)
(* the keymaps where they are and leaves a named drive alone.              *)
Facts == FatFsBoots /\ Synced /\ KeymapsKept /\ LayersSoFar /\ Quiet

(* A drive that FatFs mounts, and one that it does not. *)
LEMMA MountStep ==
  ASSUME BootInv, MountOk \/ MountFails, UNCHANGED found  PROVE Facts'
<1>. USE DEF BootInv, Go
<1>1. UNCHANGED <<vars, Drive, Kept>> /\ call = NoCall
  BY DEF MountOk, MountFails, Drive, vars, Kept
<1>2. flash = found /\ Drive = found
  BY DriveIsFlash DEF MountOk, MountFails, Synced, SyncedAt, KeymapsKept
<1>3. FatFsBoots' /\ Synced' /\ LayersSoFar'
  BY <1>1 DEF MountOk, MountFails, FatFsBoots, Synced, SyncedAt, LayersSoFar, Before, vars, userVars, cacheVars
<1>4. KeymapsKept'
  BY <1>1, <1>2, DriveAssumption DEF MountOk, MountFails, KeymapsKept, Mounted, Kept
<1>5. Quiet'
  BY <1>1, <1>2 DEF MountOk, MountFails, Quiet, Named, vars, userVars, cacheVars
<1>. QED  BY <1>3, <1>4, <1>5 DEF Facts

(* A drive is made anew only where there was none. *)
LEMMA MkfsStep ==
  ASSUME BootInv, MkfsWrites \/ MkfsSyncs \/ MkfsFails, UNCHANGED found, StorageInv'  PROVE Facts'
<1>. USE DEF BootInv, Go
<1>1. bootPc = "mkfs" /\ ~ Mountable(found) /\ Kept = {} /\ Kept' = {} /\ ~ Named /\ ~ Named'
  BY DEF MkfsWrites, MkfsSyncs, MkfsFails, KeymapsKept, Kept, Listed, Named
<1>2. Quiet'
  BY <1>1 DEF Quiet
<1>3. CASE MkfsWrites
  <2>1. PICK s \in unformatted :
          /\ DiskWrite(s, IF s = BootSector THEN BootRecord ELSE NewDirectory)
          /\ unformatted' = unformatted \ {s}
    BY <1>3 DEF MkfsWrites
  <2>2. s \in {BootSector, RootSector} /\ s \in Sector /\ BootSector # RootSector
    BY DriveAssumption DEF BootTypeOK
  <2>3. CASE s = BootSector
    <3>1. DiskWrite(BootSector, BootRecord)
      BY <2>1, <2>3
    <3>2. Drive = written /\ Drive' = [written EXCEPT ![BootSector] = Full(BootRecord)] /\ UNCHANGED user
      BY <2>2, <2>3, <3>1, DriveWritten, DirectoryTypes
    <3>3. Drive'[RootSector] = Drive[RootSector]
      BY <3>2, DriveAssumption DEF StorageInv, TypeOK
    <3>4. Root(Drive') = Root(Drive)
      BY <3>3 DEF Root, Readable
    <3>5. Root(Drive)' = Root(Drive')
      BY DEF Root, Readable
    <3>. QED  BY <1>1, <1>2, <1>3, <2>1, <2>2, <2>3, <3>2, <3>4, <3>5
              DEF MkfsWrites, Facts, FatFsBoots, Synced, SyncedAt, KeymapsKept, Mounted, LayersSoFar, Before
  <2>4. CASE s = RootSector
    <3>1. DiskWrite(RootSector, NewDirectory)
      BY <2>1, <2>2, <2>4
    <3>2. Drive' = [written EXCEPT ![RootSector] = Full(NewDirectory)] /\ UNCHANGED user
      BY <2>2, <2>4, <3>1, DriveWritten, DirectoryTypes
    <3>3. Drive'[RootSector] = Full(NewDirectory)
      BY <2>2, <2>4, <3>2 DEF StorageInv, TypeOK
    <3>4. Root(Drive').files = {}
      BY <3>3, RootIs, DirectoryTypes DEF NewDirectory
    <3>5. Root(Drive)' = Root(Drive')
      BY DEF Root, Readable
    <3>. QED  BY <1>1, <1>2, <1>3, <2>1, <2>2, <2>4, <3>2, <3>4, <3>5
              DEF MkfsWrites, Facts, FatFsBoots, Synced, SyncedAt, KeymapsKept, Mounted, LayersSoFar, Before
  <2>. QED  BY <2>2, <2>3, <2>4
<1>4. CASE MkfsSyncs
  <2>1. Drive' = Drive /\ UNCHANGED user
    BY <1>4, DriveSame DEF MkfsSyncs, DiskSync, userVars
  <2>2. call' # NoCall /\ call'.op = "flush"
    BY <1>4, SyncPending DEF MkfsSyncs
  <2>3. Listed(Drive)' = {}
    BY <1>1, <1>4, <2>1 DEF MkfsSyncs, KeymapsKept, Listed, Root, Readable, Mountable
  <2>. QED  BY <1>1, <1>2, <1>4, <2>1, <2>2, <2>3
            DEF MkfsSyncs, Facts, FatFsBoots, Synced, SyncedAt, KeymapsKept, Mounted, LayersSoFar, Before
<1>5. CASE MkfsFails
  <2>1. UNCHANGED <<vars, Drive>> /\ Drive = found
    BY <1>1, <1>5, DriveAssumption DEF MkfsFails, Drive, vars, KeymapsKept
  <2>2. Listed(Drive)' = {}
    BY <1>1, <2>1 DEF Listed, Mountable
  <2>3. LayersSoFar'
    BY <1>1, <1>5, DriveAssumption DEF MkfsFails, LayersSoFar, Before, Done
  <2>. QED  BY <1>1, <1>2, <1>5, <2>1, <2>2, <2>3
            DEF MkfsFails, Facts, FatFsBoots, Synced, SyncedAt, KeymapsKept, Mounted, vars, userVars, cacheVars
<1>. QED  BY <1>3, <1>4, <1>5

(* To write the root directory with its keymaps unchanged changes nothing  *)
(* of what is kept.                                                        *)
LEMMA RootWritten ==
  ASSUME BootInv, NEW dir \in Directory, DiskWrite(RootSector, dir), UNCHANGED found,
         bootPc \in Mounted, dir.files \cap Keymap = Root(Drive).files \cap Keymap
  PROVE  /\ Listed(Drive)' \cap Keymap = Kept' /\ Kept' = Kept
         /\ \A f \in Kept : Drive'[SectorOf[f]] = found'[SectorOf[f]]
         /\ Root(Drive)' = dir /\ UNCHANGED user
<1>. USE DEF BootInv
<1>1. Drive = written /\ Drive' = [written EXCEPT ![RootSector] = Full(dir)] /\ UNCHANGED user
  BY DriveWritten, DirectoryTypes, DriveAssumption
<1>2. /\ Drive'[RootSector] = Full(dir) /\ Drive'[BootSector] = Drive[BootSector]
      /\ \A f \in Keymap : Drive'[SectorOf[f]] = Drive[SectorOf[f]]
  BY <1>1, DriveAssumption DEF StorageInv, TypeOK
<1>3. Root(Drive') = dir
  BY <1>2, RootIs
<1>4. Root(Drive)' = dir
  BY <1>3 DEF Root, Readable
<1>5. Listed(Drive)' \cap Keymap = Listed(Drive) \cap Keymap
  BY <1>2, <1>4 DEF Listed, Mountable
<1>6. Kept' = Kept /\ Kept \subseteq Keymap
  BY DEF Kept
<1>. QED  BY <1>1, <1>2, <1>4, <1>5, <1>6 DEF KeymapsKept

(* On a named drive the name is written as it is there. *)
LEMMA LabelIsThere ==
  ASSUME BootInv, Named, flash = found, SetLabel
  PROVE  Drive' = Drive
<1>. USE DEF BootInv
<1>1. Root(flash).label /\ Readable(flash) /\ Root(flash) \in Directory
  BY DirectoryTypes DEF Named, NewDirectory
<1>2. Labelled(Root(flash)) = Root(flash)
  BY <1>1 DEF Labelled, Directory
<1>3. DiskWrite(RootSector, Root(flash))
  BY <1>2 DEF SetLabel
<1>4. Drive = written /\ Drive' = [written EXCEPT ![RootSector] = Full(Root(flash))]
  BY <1>1, <1>3, DriveWritten, DirectoryTypes, DriveAssumption
<1>5. written[RootSector] = Full(Root(flash))
  BY <1>1, DirectoryTypes DEF Quiet, SetLabel, Go
<1>. QED  BY <1>4, <1>5 DEF StorageInv, TypeOK

(* The label goes on the drive that is there. *)
LEMMA LabelStep ==
  ASSUME BootInv, SetLabel \/ SetLabelFails \/ SetLabelSyncs, UNCHANGED found  PROVE Facts'
<1>. USE DEF BootInv, Go
<1>0. Kept' = Kept /\ Named' = Named /\ UNCHANGED <<fresh, unformatted, layers, layer, keymap_files, parse_status>>
  BY DEF SetLabel, SetLabelFails, SetLabelSyncs, Kept, Named
<1>1. LayersSoFar'
  BY <1>0 DEF SetLabel, SetLabelFails, SetLabelSyncs, LayersSoFar, Before
<1>2. CASE SetLabel
  <2>1. bootPc = "label" /\ bootPc' = "labelled" /\ flash = Drive /\ call = NoCall
    BY <1>2, DriveIsFlash DEF SetLabel, Synced, SyncedAt
  <2>2. Labelled(Root(flash)) \in Directory /\ Root(flash) \in Directory
    BY DirectoryTypes
  <2>3. Labelled(Root(flash)).files = Root(flash).files /\ Labelled(Root(flash)).label
    BY <2>2 DEF Labelled, Directory
  <2>4. /\ Listed(Drive)' \cap Keymap = Kept' /\ Root(Drive)'.label /\ UNCHANGED user
        /\ \A f \in Kept' : Drive'[SectorOf[f]] = found'[SectorOf[f]]
    BY <1>0, <1>2, <2>1, <2>2, <2>3, RootWritten DEF SetLabel, Mounted
  <2>5. Quiet'
    <3>. SUFFICES ASSUME user' = "FatFs", Named'
                  PROVE  /\ flash' = found' /\ written' = found' /\ Drive' = found'
                         /\ ~ erased' /\ ~ fresh' /\ bootPc' \notin {"mkfs", "readme", "closing"}
      BY DEF Quiet
    <3>1. flash = found /\ written = found /\ Drive = found /\ ~ erased /\ ~ fresh
      BY <1>0, <1>2, <2>4 DEF Quiet, SetLabel
    <3>2. Drive' = Drive
      BY <1>0, <1>2, <3>1, LabelIsThere
    <3>. QED  BY <1>0, <1>2, <2>1, <3>1, <3>2 DEF SetLabel, DiskWrite, cacheVars
  <2>6. FatFsBoots' /\ Synced'
    BY <1>0, <2>1, <2>4 DEF FatFsBoots, Synced, SyncedAt
  <2>. QED  BY <1>1, <2>1, <2>4, <2>5, <2>6 DEF Facts, KeymapsKept, Mounted
<1>3. CASE SetLabelFails
  <2>1. bootPc = "label" /\ bootPc' = "labelled" /\ flash = Drive /\ call = NoCall /\ UNCHANGED <<vars, Drive>>
    BY <1>3, DriveIsFlash DEF SetLabelFails, Synced, SyncedAt, vars, Drive
  <2>2. Kept = {}
    BY <1>3, <2>1, DirectoryTypes DEF SetLabelFails, KeymapsKept, Mounted, Listed, NewDirectory
  <2>3. Listed(Drive)' = Listed(Drive)
    BY <2>1 DEF Listed, Mountable, Root, Readable
  <2>4. FatFsBoots' /\ Synced'
    BY <1>0, <2>1 DEF FatFsBoots, Synced, SyncedAt, vars, userVars
  <2>5. Quiet'
    BY <1>0, <2>1 DEF Quiet, vars, userVars, cacheVars
  <2>. QED  BY <1>0, <1>1, <2>1, <2>2, <2>3, <2>4, <2>5 DEF Facts, KeymapsKept, Mounted
<1>4. CASE SetLabelSyncs
  <2>1. bootPc = "labelled" /\ bootPc' \in {"readme", "list"} /\ (bootPc' = "readme" => fresh)
    BY <1>4 DEF SetLabelSyncs
  <2>2. Drive' = Drive /\ UNCHANGED <<cacheVars, written, user>>
    BY <1>4, DriveSame DEF SetLabelSyncs, DiskSync, userVars
  <2>3. call' # NoCall /\ call'.op = "flush"
    BY <1>4, SyncPending DEF SetLabelSyncs
  <2>4. Listed(Drive)' = Listed(Drive) /\ Root(Drive)' = Root(Drive)
    BY <2>2 DEF Listed, Mountable, Root, Readable
  <2>5. FatFsBoots' /\ Synced'
    BY <2>1, <2>2, <2>3 DEF FatFsBoots, Synced, SyncedAt
  <2>6. Quiet'
    BY <1>0, <2>1, <2>2 DEF Quiet, cacheVars
  <2>. QED  BY <1>0, <1>1, <2>1, <2>2, <2>4, <2>5, <2>6 DEF Facts, KeymapsKept, Mounted
<1>. QED  BY <1>2, <1>3, <1>4

(* README.txt goes on a drive without keymaps. *)
LEMMA ReadmeStep ==
  ASSUME BootInv, AddReadme \/ AddReadmeSyncs, UNCHANGED found  PROVE Facts'
<1>. USE DEF BootInv, Go
<1>0. Kept' = Kept /\ Named' = Named /\ UNCHANGED <<fresh, unformatted, layers, layer, keymap_files, parse_status>>
  BY DEF AddReadme, AddReadmeSyncs, Kept, Named
<1>1. LayersSoFar'
  BY <1>0 DEF AddReadme, AddReadmeSyncs, LayersSoFar, Before
<1>2. Quiet'
  BY <1>0 DEF AddReadme, AddReadmeSyncs, DiskWrite, DiskSync, userVars, Quiet
<1>3. CASE AddReadme
  <2>1. bootPc = "readme" /\ bootPc' = "closing" /\ flash = Drive /\ call = NoCall
    BY <1>3, DriveIsFlash DEF AddReadme, Synced, SyncedAt
  <2>2. WithReadme(Root(flash)) \in Directory /\ Root(flash) \in Directory
    BY DirectoryTypes
  <2>3. /\ WithReadme(Root(flash)).files \cap Keymap = Root(flash).files \cap Keymap
        /\ WithReadme(Root(flash)).label = Root(flash).label
    BY <2>2, DriveAssumption DEF WithReadme, Directory
  <2>4. /\ Listed(Drive)' \cap Keymap = Kept' /\ Root(Drive)'.label = Root(Drive).label /\ UNCHANGED user
        /\ \A f \in Kept' : Drive'[SectorOf[f]] = found'[SectorOf[f]]
    BY <1>0, <1>3, <2>1, <2>2, <2>3, RootWritten DEF AddReadme, Mounted
  <2>5. FatFsBoots' /\ Synced'
    BY <1>0, <2>1, <2>4 DEF FatFsBoots, Synced, SyncedAt
  <2>. QED  BY <1>0, <1>1, <1>2, <2>1, <2>4, <2>5 DEF Facts, KeymapsKept, Mounted
<1>4. CASE AddReadmeSyncs
  <2>1. bootPc = "closing" /\ bootPc' = "list"
    BY <1>4 DEF AddReadmeSyncs
  <2>2. Drive' = Drive /\ UNCHANGED <<cacheVars, written, user>>
    BY <1>4, DriveSame DEF AddReadmeSyncs, DiskSync, userVars
  <2>3. call' # NoCall /\ call'.op = "flush"
    BY <1>4, SyncPending DEF AddReadmeSyncs
  <2>4. Listed(Drive)' = Listed(Drive) /\ Root(Drive)' = Root(Drive)
    BY <2>2 DEF Listed, Mountable, Root, Readable
  <2>5. FatFsBoots' /\ Synced'
    BY <2>1, <2>2, <2>3 DEF FatFsBoots, Synced, SyncedAt
  <2>. QED  BY <1>0, <1>1, <1>2, <2>1, <2>2, <2>4, <2>5 DEF Facts, KeymapsKept, Mounted
<1>. QED  BY <1>3, <1>4

-----------------------------------------------------------------------------
(* main takes the keymaps from the drive as they were found. *)
LEMMA ListStep ==
  ASSUME BootInv, List, UNCHANGED found  PROVE Facts'
<1>. USE DEF BootInv, Go, List
<1>1. /\ UNCHANGED <<vars, Drive>> /\ bootPc = "list" /\ bootPc' = "parse" /\ flash = Drive
      /\ Kept' = Kept /\ Named' = Named
  BY DriveIsFlash DEF Drive, vars, Kept, Named, Synced, SyncedAt
<1>2. Listed(Drive)' = Listed(Drive) /\ Root(Drive)' = Root(Drive)
  BY <1>1 DEF Listed, Mountable, Root, Readable
<1>3. keymap_files' = Kept
  BY <1>1 DEF KeymapsKept, Mounted
<1>4. LayersSoFar'
  <2>1. Done' = {}
    BY <1>1, <1>3 DEF Done
  <2>2. layers' = [f \in {} |-> Erased] /\ layer' = NoLayer /\ parse_status' = "Success"
    BY <1>1 DEF LayersSoFar, Before
  <2>. QED  BY <1>1, <1>3, <2>1, <2>2 DEF LayersSoFar, Before
<1>5. KeymapsKept'
  BY <1>1, <1>2 DEF KeymapsKept, Mounted
<1>6. FatFsBoots' /\ Synced'
  <2>1. call = NoCall /\ _fl_addr = NoSector
    BY <1>1 DEF Synced, SyncedAt
  <2>. QED  BY <1>1, <2>1 DEF FatFsBoots, Synced, vars, userVars, cacheVars
<1>7. Quiet'
  BY <1>1 DEF Quiet, vars, userVars, cacheVars
<1>. QED  BY <1>4, <1>5, <1>6, <1>7 DEF Facts

(* What main reads while it parses is what was found. *)
LEMMA ParsesFound ==
  ASSUME BootInv, bootPc = "parse", call = NoCall
  PROVE  /\ flash = Drive /\ keymap_files \subseteq Kept
         /\ \A f \in keymap_files : TextOf(flash, f) = TextOf(found, f)
<1>1. flash = Drive
  BY DriveIsFlash DEF BootInv, Synced, SyncedAt
<1>2. keymap_files \subseteq Kept
  BY DEF BootInv, LayersSoFar, Before
<1>3. \A f \in Kept : flash[SectorOf[f]] = found[SectorOf[f]]
  BY <1>1 DEF BootInv, KeymapsKept, Mounted
<1>. QED  BY <1>1, <1>2, <1>3 DEF TextOf

(* The next keymap takes effect beside those before it. *)
LEMMA ParseStep ==
  ASSUME BootInv, NEW f \in Keymap, Parse(f), UNCHANGED found  PROVE Facts'
<1>. USE DEF BootInv, Go, Parse
<1>1. /\ UNCHANGED <<vars, Drive, unformatted, fresh>> /\ bootPc = "parse" /\ bootPc' = "parse" /\ call = NoCall
      /\ Kept' = Kept /\ Named' = Named /\ f \in keymap_files /\ keymap_files' = keymap_files \ {f}
  BY DEF Drive, vars, Kept, Named
<1>2. /\ keymap_files \subseteq Kept /\ TextOf(flash, f) = TextOf(found, f)
      /\ layers = [g \in Done |-> TextOf(found, g)]
      /\ layer = IF BaseLayer \in Done THEN BaseLayer ELSE NoLayer
      /\ parse_status = "Success" <=> \A g \in Done : TextOf(found, g) \in Text \ Wrong
  BY <1>1, ParsesFound DEF LayersSoFar, Before
<1>3. Done' = Done \cup {f}
  BY <1>1, <1>2 DEF Done
<1>4. layers' = [g \in Done' |-> TextOf(found', g)]
  BY <1>2, <1>3
<1>5. layer' = IF BaseLayer \in Done' THEN BaseLayer ELSE NoLayer
  BY <1>2, <1>3
<1>6. parse_status' = "Success" <=> \A g \in Done' : TextOf(found', g) \in Text \ Wrong
  BY <1>2, <1>3, TextTypes, DriveAssumption
<1>7. LayersSoFar'
  BY <1>1, <1>2, <1>4, <1>5, <1>6 DEF LayersSoFar, Before
<1>8. Listed(Drive)' = Listed(Drive) /\ Root(Drive)' = Root(Drive)
  BY <1>1 DEF Listed, Mountable, Root, Readable
<1>9. KeymapsKept'
  BY <1>1, <1>8 DEF KeymapsKept, Mounted
<1>10. FatFsBoots' /\ Synced' /\ Quiet'
  BY <1>1 DEF FatFsBoots, Synced, SyncedAt, Quiet, vars, userVars, cacheVars
<1>. QED  BY <1>7, <1>9, <1>10 DEF Facts

(* main comes to one of its three ends. *)
LEMMA MainEnds ==
  ASSUME BootInv, OutOfMemory \/ Start \/ \E f \in Keymap : ParseThrows(f), UNCHANGED found
  PROVE  Facts'
<1>. USE DEF BootInv, Go
<1>1. /\ bootPc = "parse" /\ bootPc' \in {"running", "returned", "halted"} /\ call = NoCall
      /\ UNCHANGED <<cacheVars, call, written, Drive, fresh, unformatted, keymap_files, layers, layer, parse_status>>
      /\ Kept' = Kept /\ Named' = Named /\ Done' = Done
  BY DEF OutOfMemory, Start, StartScheduler, ParseThrows, Drive, vars, Kept, Named, Done
<1>2. FatFsBoots'
  BY <1>1 DEF OutOfMemory, Start, StartScheduler, ParseThrows, FatFsBoots, vars, userVars
<1>3. Synced'
  BY <1>1 DEF Synced, SyncedAt, cacheVars
<1>4. Listed(Drive)' = Listed(Drive) /\ Root(Drive)' = Root(Drive)
  BY <1>1 DEF Listed, Mountable, Root, Readable
<1>5. KeymapsKept'
  BY <1>1, <1>4 DEF KeymapsKept, Mounted
<1>6. LayersSoFar'
  <2>1. bootPc' = "running" => keymap_files = {}
    BY DEF OutOfMemory, Start, ParseThrows
  <2>2. bootPc' = "halted" => \E f \in keymap_files : TextOf(found, f) \in Halting
    BY <1>1, ParsesFound DEF OutOfMemory, Start, ParseThrows
  <2>. QED  BY <1>1, <2>1, <2>2 DEF LayersSoFar, Before
<1>7. Quiet'
  BY <1>1, <1>2 DEF Quiet, FatFsBoots, cacheVars
<1>. QED  BY <1>2, <1>3, <1>5, <1>6, <1>7 DEF Facts

-----------------------------------------------------------------------------
(* The flash does as main has asked: it finds nothing new on a named drive. *)
LEMMA BootFlashStep ==
  ASSUME BootInv, FlashStep, UNCHANGED found  PROVE Facts'
<1>. USE DEF BootInv
<1>1. /\ UNCHANGED <<bootVars, user>> /\ Drive' = Drive /\ call # NoCall
      /\ Kept' = Kept /\ Named' = Named /\ Done' = Done
  BY DriveSame DEF FlashStep, Flush, FlushSkips, FlushErases, FlushPrograms, FlushReturns, WriteCached,
       WriteLoads, Write, Flushing, userVars, bootVars, Kept, Named, Done, StorageInv, ErasedByFlush
<1>2. Synced'
  <2>1. bootPc' # "halted" /\ SyncedAt' = SyncedAt
    BY <1>1 DEF Synced, SyncedAt, bootVars
  <2>2. SUFFICES ASSUME SyncedAt
                 PROVE  IF call' = NoCall THEN _fl_addr' = NoSector ELSE call'.op = "flush"
    BY <2>1 DEF Synced
  <2>3. call.op = "flush"
    BY <1>1, <2>2 DEF Synced
  <2>4. CASE FlushSkips \/ FlushErases \/ FlushPrograms
    BY <1>1, <2>3, <2>4 DEF FlushSkips, FlushErases, FlushPrograms
  <2>5. CASE FlushReturns
    BY <2>5 DEF FlushReturns, cacheVars
  <2>6. ~ WriteCached /\ ~ WriteLoads
    BY <2>3 DEF WriteCached, WriteLoads, Write
  <2>. QED  BY <2>4, <2>5, <2>6 DEF FlashStep, Flush
<1>3. FatFsBoots' /\ LayersSoFar'
  BY <1>1 DEF FatFsBoots, LayersSoFar, bootVars
<1>4. Listed(Drive)' = Listed(Drive) /\ Root(Drive)' = Root(Drive)
  BY <1>1 DEF Listed, Mountable, Root, Readable
<1>5. KeymapsKept'
  BY <1>1, <1>4 DEF KeymapsKept, bootVars
<1>6. Quiet'
  <2>1. SUFFICES ASSUME user = "FatFs", Named
                 PROVE  flash' = found /\ written' = found /\ ~ erased'
    BY <1>1 DEF Quiet, bootVars
  <2>2. flash = found /\ written = found /\ Drive = found /\ ~ erased
    BY <2>1 DEF Quiet
  <2>3. ~ FlushErases
    BY <2>2, StorageAssumption DEF FlushErases, Flushing, StorageInv, TypeOK, NoWriteLost, Disk
  <2>4. CASE FlushSkips \/ FlushReturns
    BY <2>2, <2>4 DEF FlushSkips, FlushReturns, cacheVars
  <2>5. CASE WriteCached \/ WriteLoads
    <3>1. call' = NoCall /\ UNCHANGED <<flash, erased>>
      BY <2>5 DEF WriteCached, WriteLoads, Write
    <3>2. Drive' = written'
      BY <3>1 DEF Drive
    <3>. QED  BY <1>1, <2>2, <3>1, <3>2
  <2>. QED  BY <2>2, <2>3, <2>4, <2>5 DEF FlashStep, Flush, FlushPrograms
<1>. QED  BY <1>2, <1>3, <1>5, <1>6 DEF Facts

(* The host comes when main is through. *)
LEMMA BootHostStep ==
  ASSUME BootInv, HostStep, UNCHANGED found  PROVE Facts'
<1>. USE DEF BootInv
<1>1. user # "FatFs" /\ user' # "FatFs" /\ UNCHANGED bootVars
  BY DEF HostStep, HostWrites, Write10, Write10Complete, CommandCut
<1>2. bootPc = "running" /\ bootPc' = "running"
  BY <1>1 DEF FatFsBoots, bootVars
<1>3. Done' = Done /\ Kept' = Kept
  BY <1>1 DEF Done, Kept, bootVars
<1>4. LayersSoFar'
  BY <1>1, <1>2, <1>3 DEF LayersSoFar, Before, bootVars
<1>. QED  BY <1>1, <1>2, <1>4 DEF Facts, FatFsBoots, Synced, SyncedAt, KeymapsKept, Mounted, Quiet

(* What the next start finds is what is in the flash, and that is what the *)
(* users have written, if they came to the end of it.                      *)
LEMMA PowerCycleStep ==
  ASSUME BootInv, PowerCycle  PROVE Facts'
<1>. USE DEF BootInv
<1>1. /\ written' = flash' /\ call' = NoCall /\ _fl_addr' = NoSector /\ erased' = FALSE /\ user' = "FatFs"
      /\ bootPc' = "mount" /\ fresh' = FALSE /\ keymap_files' = {} /\ layers' = [f \in {} |-> Erased]
      /\ layer' = NoLayer /\ parse_status' = "Success"
  BY DEF PowerCycle, PowerCut, PowerUp
<1>2. found' = flash'
  <2>1. CASE user = "ready" /\ call = NoCall
    <3>1. flash = written /\ ~ erased
      BY <2>1, DriveIsFlash DEF StorageInv, HostReadsBack, HostDone
    <3>. QED  BY <2>1, <3>1 DEF PowerCycle, PowerCut
  <2>2. CASE ~ (user = "ready" /\ call = NoCall)
    BY <2>2 DEF PowerCycle
  <2>. QED  BY <2>1, <2>2
<1>3. Drive' = found'
  BY <1>1, <1>2 DEF Drive
<1>4. FatFsBoots' /\ Synced' /\ KeymapsKept' /\ LayersSoFar'
  BY <1>1, <1>3 DEF FatFsBoots, Synced, KeymapsKept, Mounted, LayersSoFar, Before
<1>5. Quiet'
  BY <1>1, <1>2, <1>3 DEF Quiet
<1>. QED  BY <1>4, <1>5 DEF Facts

-----------------------------------------------------------------------------
(* Every step of the board, of the host and of the power keeps BootInv. *)
LEMMA BootInvStep == ASSUME BootInv, [BootNext]_allVars  PROVE BootInv'
<1>1. BootTypeOK' /\ StorageInv'
  BY BootStepIsStorageStep, StorageStep, BootTypeStep DEF BootInv, StorageInv
<1>. SUFFICES Facts'
  BY <1>1 DEF BootInv, Facts
<1>2. CASE Initialize /\ UNCHANGED found
  BY <1>1, <1>2, MountStep, MkfsStep, LabelStep, ReadmeStep DEF Initialize
<1>3. CASE Main /\ UNCHANGED found
  BY <1>3, ListStep, ParseStep, MainEnds DEF Main
<1>4. CASE FlashStep /\ UNCHANGED found
  BY <1>4, BootFlashStep
<1>5. CASE HostStep /\ UNCHANGED found
  BY <1>5, BootHostStep
<1>6. CASE PowerCycle
  BY <1>6, PowerCycleStep
<1>7. CASE UNCHANGED allVars
  <2>1. UNCHANGED <<bootVars, cacheVars, call, user, written, found, Drive, Kept, Done, Named>>
    BY <1>7 DEF allVars, bootVars, vars, cacheVars, userVars, Drive, Kept, Done, Named
  <2>2. Listed(Drive)' = Listed(Drive) /\ Root(Drive)' = Root(Drive)
    BY <2>1 DEF Listed, Mountable, Root, Readable
  <2>3. KeymapsKept'
    BY <2>1, <2>2 DEF BootInv, KeymapsKept, bootVars
  <2>4. FatFsBoots' /\ Synced' /\ LayersSoFar' /\ Quiet'
    BY <2>1 DEF BootInv, FatFsBoots, Synced, SyncedAt, LayersSoFar, Quiet, bootVars, cacheVars
  <2>. QED  BY <2>3, <2>4 DEF Facts
<1>. QED  BY <1>2, <1>3, <1>4, <1>5, <1>6, <1>7 DEF BootNext, BootStep

(* So does power-up, on any drive. *)
LEMMA BootInvInit == BootInit => BootInv
<1>. SUFFICES ASSUME BootInit PROVE BootInv
  OBVIOUS
<1>1. StorageInv
  BY BootInitIsStorageInit, StorageInit
<1>2. Drive = written
  BY DEF Drive, BootInit
<1>3. BootTypeOK
  BY <1>1 DEF StorageInv, BootInit, BootTypeOK, TypeOK
<1>4. FatFsBoots /\ Synced /\ KeymapsKept /\ LayersSoFar /\ Quiet
  BY <1>2 DEF BootInit, FatFsBoots, Synced, KeymapsKept, Mounted, LayersSoFar, Before, Quiet
<1>. QED  BY <1>1, <1>3, <1>4 DEF BootInv

(* BootInv is an invariant: what the theorems below follow from. *)
LEMMA BootInvHolds == BootSpec => []BootInv
BY BootInvInit, BootInvStep, PTL DEF BootSpec

(* A power cycle puts the keymaps of the drive in effect, every one of     *)
(* them and no other (main: List, parse_source, the map of layers).        *)
THEOREM KeymapsAreThoseOfTheDrive == BootSpec => []KeymapsTakeEffect
<1>1. BootInv => KeymapsTakeEffect
  <2>. SUFFICES ASSUME BootInv, bootPc = "running"
                PROVE  /\ layers = [f \in Listed(found) \cap Keymap |-> TextOf(found, f)]
                       /\ layer = IF BaseLayer \in DOMAIN layers THEN BaseLayer ELSE NoLayer
    BY DEF KeymapsTakeEffect
  <2>1. Done = Kept
    BY DEF BootInv, LayersSoFar, Done
  <2>. QED  BY <2>1 DEF BootInv, LayersSoFar, Before, Kept
<1>. QED  BY <1>1, BootInvHolds, PTL

(* Main never reads a sector as it was before its own last write, though   *)
(* disk_read does not look into the cache that disk_write leaves it in.    *)
THEOREM MainReadsItsWrites == BootSpec => []NoStaleRead
<1>1. BootInv => NoStaleRead
  <2>. SUFFICES ASSUME BootInv, call = NoCall, bootPc \in {"mount", "label", "readme", "list", "parse"}
                PROVE  flash = written
    BY DEF NoStaleRead
  <2>1. _fl_addr = NoSector
    BY DEF BootInv, Synced, SyncedAt
  <2>. QED  BY <2>1, DriveIsFlash DEF BootInv
<1>. QED  BY <1>1, BootInvHolds, PTL

(* Success means that every keymap of the drive is right, and only that    *)
(* (main: parse_status over all the files).                                *)
THEOREM OneStatusForAll == BootSpec => []StatusTellsAll
<1>1. BootInv => StatusTellsAll
  <2>. SUFFICES ASSUME BootInv, bootPc = "running"
                PROVE  parse_status = "Success" <=>
                         \A f \in Listed(found) \cap Keymap : TextOf(found, f) \in Text \ Wrong
    BY DEF StatusTellsAll
  <2>1. Done = Kept
    BY DEF BootInv, LayersSoFar, Done
  <2>. QED  BY <2>1 DEF BootInv, LayersSoFar, Before, Kept
<1>. QED  BY <1>1, BootInvHolds, PTL

(* A start leaves a drive with its name on it as it is, at every moment    *)
(* of it (Initialize writes the label; flash_flush compares).              *)
THEOREM NamedDriveIsLeftAlone == BootSpec => []QuietBoot
<1>1. BootInv => QuietBoot
  BY DEF BootInv, Quiet, Named, QuietBoot
<1>. QED  BY <1>1, BootInvHolds, PTL

(* The board that a keymap has stopped will be stopped by it again (main:  *)
(* no exception of parse_source is caught).                                *)
THEOREM HaltIsForGood == BootSpec => []HaltsAgain
<1>1. BootInv => HaltsAgain
  <2>. SUFFICES ASSUME BootInv, bootPc = "halted"
                PROVE  /\ Root(flash).label /\ _fl_addr = NoSector
                       /\ \E f \in Listed(flash) \cap Keymap : TextOf(flash, f) \in Halting
    BY DEF HaltsAgain
  <2>1. call = NoCall /\ _fl_addr = NoSector
    BY DEF BootInv, Synced, SyncedAt
  <2>2. flash = Drive
    BY <2>1, DriveIsFlash DEF BootInv
  <2>3. PICK f \in keymap_files : TextOf(found, f) \in Halting
    BY DEF BootInv, LayersSoFar
  <2>4. f \in Kept
    BY <2>3 DEF BootInv, LayersSoFar, Before
  <2>5. f \in Listed(flash) \cap Keymap /\ Root(flash).label /\ flash[SectorOf[f]] = found[SectorOf[f]]
    BY <2>2, <2>4 DEF BootInv, KeymapsKept, Mounted
  <2>6. TextOf(flash, f) = TextOf(found, f)
    BY <2>5 DEF TextOf
  <2>. QED  BY <2>1, <2>3, <2>5, <2>6
<1>. QED  BY <1>1, BootInvHolds, PTL
=============================================================================
