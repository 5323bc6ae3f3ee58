------------------------- MODULE FlashCache_proofs --------------------------
(***************************************************************************)
(* Proofs about FlashCache, for every geometry and all data: no write is   *)
(* lost, a finished command is in the flash, and the cache with the flash  *)
(* behind it implements BlockDevice.                                       *)
(***************************************************************************)
EXTENDS FlashCache, TLAPS

(* A sector is erased only by the call that will program it. *)
ErasedByFlush == erased => Flushing

(* When the host is done nothing is left in the cache, and the only call   *)
(* made while it is done is the flush of the completion callback.          *)
HostDone == user = "ready" => IF call = NoCall THEN _fl_addr = NoSector ELSE call.op = "flush"

StorageInv == TypeOK /\ NoWriteLost /\ ErasedByFlush /\ HostDone

-----------------------------------------------------------------------------
(* Calls are what they look like: a record of one of the two kinds. *)
LEMMA CallKinds ==
  /\ NoCall \notin WriteCall /\ NoCall \notin FlushCall
  /\ \A c \in WriteCall \cup FlushCall : c.op = "write" <=> c \in WriteCall
  /\ \A c \in WriteCall : c.sector \in Sector /\ c.parts \in SUBSET Part /\ c.datum \in Datum
BY NoCallAssumption DEF WriteCall, FlushCall

(* Writing over some parts of a sector leaves a sector. *)
LEMMA OverwrittenType ==
  ASSUME NEW c \in Contents, NEW parts \in SUBSET Part, NEW d \in Datum
  PROVE  Overwritten(c, parts, d) \in Contents
BY DEF Overwritten, Contents

(* An erased sector is a sector. *)
LEMMA BlankType == Blank \in Contents
BY StorageAssumption DEF Blank, Contents

(* The first chunk of a sector, and the one after any chunk, are chunks. *)
LEMMA ChunkTypes ==
  /\ \A s \in Sector : FirstChunk(s) \in [sector : Sector, part : Part]
  /\ TypeOK => NextChunk \in [sector : Sector, part : Part]
<1>1. \A s \in Sector : FirstChunk(s) \in [sector : Sector, part : Part]
  BY StorageAssumption DEF FirstChunk, Part
<1>2. ASSUME TypeOK PROVE NextChunk \in [sector : Sector, part : Part]
  <2>1. CASE chunk.part < NumParts
    BY <1>2, <2>1, StorageAssumption DEF NextChunk, TypeOK, Part
  <2>2. CASE ~ (chunk.part < NumParts) /\ chunk.sector < end
    <3>1. chunk.sector + 1 \in Sector
      BY <1>2, <2>2, StorageAssumption DEF TypeOK, Sector
    <3>. QED  BY <1>1, <2>2, <3>1 DEF NextChunk
  <2>3. CASE ~ (chunk.part < NumParts) /\ ~ (chunk.sector < end)
    BY <1>2, <2>3 DEF NextChunk, TypeOK
  <2>. QED  BY <2>1, <2>2, <2>3
<1>. QED  BY <1>1, <1>2

(* The steps that start or end a call of a user leave flash and cache be. *)
LEMMA UserStep ==
  ASSUME StorageInv, FatFs \/ Host \/ FlushReturns
  PROVE  StorageInv' /\ UNCHANGED <<Disk, _fl_addr>>
<1>. USE DEF StorageInv
<1>1. UNCHANGED <<cacheVars, written>> /\ ~ erased
  <2>1. CASE FatFs
    BY <2>1 DEF FatFs, DiskSync, StartScheduler, DiskWrite, ErasedByFlush, Flushing
  <2>2. CASE Host
    BY <2>2 DEF Host, HostWrites, Write10, Write10Complete, CommandCut, ErasedByFlush, Flushing
  <2>3. CASE FlushReturns
    BY <2>3 DEF FlushReturns, ErasedByFlush, Flushing
  <2>. QED  BY <2>1, <2>2, <2>3
<1>. USE StorageAssumption, CallKinds
<1>2. TypeOK'
  <2>1. ASSUME NEW s \in Sector, NEW d \in Datum, DiskWrite(s, d)  PROVE TypeOK'
    BY <1>1, <2>1 DEF TypeOK, DiskWrite, WriteCall, userVars, cacheVars
  <2>2. ASSUME NEW d \in Datum, Write10(d)  PROVE TypeOK'
    BY <1>1, <2>2, ChunkTypes DEF TypeOK, Write10, WriteCall, cacheVars
  <2>3. ASSUME NEW first \in Sector, NEW last \in Sector, HostWrites(first, last)
        PROVE  TypeOK'
    BY <1>1, <2>3, ChunkTypes DEF TypeOK, HostWrites, cacheVars
  <2>4. CASE DiskSync \/ StartScheduler \/ Write10Complete \/ CommandCut \/ FlushReturns
    BY <1>1, <2>4 DEF TypeOK, DiskSync, StartScheduler, Write10Complete, CommandCut,
                      FlushReturns, FlushCall, userVars, cacheVars
  <2>. QED  BY <2>1, <2>2, <2>3, <2>4 DEF FatFs, Host
<1>3. UNCHANGED <<Disk, _fl_addr>> /\ NoWriteLost'
  BY <1>1 DEF Disk, NoWriteLost, cacheVars
<1>4. ErasedByFlush'
  BY <1>1 DEF ErasedByFlush, cacheVars
<1>5. HostDone'
  <2>1. CASE FatFs
    BY <1>1, <2>1 DEF FatFs, DiskSync, StartScheduler, DiskWrite, HostDone, userVars, cacheVars
  <2>2. CASE Host
    BY <1>1, <2>2 DEF Host, HostWrites, Write10, Write10Complete, CommandCut, HostDone, FlushCall,
                      userVars, cacheVars
  <2>3. CASE FlushReturns
    BY <1>1, <2>3 DEF FlushReturns, HostDone, userVars, cacheVars
  <2>. QED  BY <2>1, <2>2, <2>3
<1>. QED  BY <1>2, <1>3, <1>4, <1>5

(* The steps of a flush write the cache back; the disk does not change. *)
LEMMA FlushStep ==
  ASSUME StorageInv, FlushSkips \/ FlushErases \/ FlushPrograms
  PROVE  StorageInv' /\ UNCHANGED Disk /\ _fl_addr' \in {_fl_addr, NoSector}
<1>. USE DEF StorageInv
<1>1. _fl_addr \in Sector /\ Flushing
  BY DEF FlushSkips, FlushErases, FlushPrograms, ErasedByFlush, Flushing, TypeOK
<1>2. UNCHANGED <<_fl_buf, call, userVars, written>> /\ _fl_addr' \in {_fl_addr, NoSector}
  BY DEF FlushSkips, FlushErases, FlushPrograms
<1>3. TypeOK'
  BY <1>1, <1>2, BlankType DEF FlushSkips, FlushErases, FlushPrograms, TypeOK, userVars
<1>4. UNCHANGED Disk
  <2>1. CASE FlushSkips
    BY <1>1, <2>1, StorageAssumption DEF FlushSkips, Disk, TypeOK
  <2>2. CASE FlushErases
    BY <1>1, <2>2, StorageAssumption DEF FlushErases, Disk, TypeOK
  <2>3. CASE FlushPrograms
    BY <1>1, <2>3, StorageAssumption DEF FlushPrograms, Disk, TypeOK
  <2>. QED  BY <2>1, <2>2, <2>3
<1>5. NoWriteLost'
  BY <1>2, <1>4 DEF NoWriteLost
<1>6. ErasedByFlush'
  BY <1>1 DEF FlushSkips, FlushErases, FlushPrograms, ErasedByFlush, Flushing
<1>7. HostDone'
  BY <1>1, <1>2 DEF HostDone, Flushing, userVars
<1>. QED  BY <1>2, <1>3, <1>4, <1>5, <1>6, <1>7

(* A write that has the cache for itself is a write to the disk. *)
LEMMA WriteStep ==
  ASSUME StorageInv, WriteCached \/ WriteLoads
  PROVE  /\ StorageInv'
         /\ \E s \in Sector, parts \in SUBSET Part, d \in Datum : Device!Write(s, parts, d)
<1>. USE DEF StorageInv
<1>1. PICK s \in Sector : Write(s, Disk[s]) /\ call \in WriteCall /\ _fl_addr \in {s, NoSector}
  <2>1. CASE WriteCached
    BY <2>1, CallKinds DEF WriteCached, Write, Disk, TypeOK
  <2>2. CASE WriteLoads
    BY <2>2, CallKinds, StorageAssumption DEF WriteLoads, Write, Disk, TypeOK
  <2>. QED  BY <2>1, <2>2
<1>2. /\ call.sector = s /\ call.parts \in SUBSET Part /\ call.datum \in Datum
      /\ Disk \in [Sector -> Contents]
  BY <1>1, CallKinds DEF Write, Disk, TypeOK
<1>3. Overwritten(Disk[s], call.parts, call.datum) \in Contents
  BY <1>2, OverwrittenType
<1>4. TypeOK'
  BY <1>1, <1>2, <1>3 DEF Write, TypeOK, NoWriteLost, userVars
<1>5. Disk' = [Disk EXCEPT ![s] = Overwritten(@, call.parts, call.datum)]
  BY <1>1, <1>2, StorageAssumption DEF Write, Disk, TypeOK
<1>6. NoWriteLost'
  BY <1>1, <1>5 DEF Write, NoWriteLost
<1>7. ErasedByFlush' /\ HostDone'
  BY <1>1, CallKinds, StorageAssumption
     DEF Write, ErasedByFlush, Flushing, HostDone, userVars, TypeOK, WriteCall
<1>8. Device!Write(s, call.parts, call.datum)
  BY <1>1, <1>5 DEF Device!Write, Write, Overwritten, Device!Overwritten
<1>. QED  BY <1>2, <1>4, <1>6, <1>7, <1>8

(* A power cut takes the cache, and nothing else. *)
LEMMA PowerCutStep ==
  ASSUME StorageInv, PowerCut
  PROVE  StorageInv' /\ Device!PowerCut
<1>. USE DEF StorageInv
<1>1. /\ _fl_addr' = NoSector /\ call' = NoCall /\ user' = "FatFs" /\ erased' = FALSE
      /\ written' = flash' /\ _fl_buf' = Blank /\ chunk' = FirstChunk(1) /\ end' = 1
  BY DEF PowerCut
<1>2. \/ UNCHANGED flash
      \/ /\ _fl_addr \in Sector
         /\ \E c \in Contents : flash' = [flash EXCEPT ![_fl_addr] = c]
  <2>1. CASE ~ erased
    BY <2>1 DEF PowerCut
  <2>2. CASE erased
    <3>1. _fl_addr \in Sector
      BY <2>2 DEF ErasedByFlush, Flushing, TypeOK
    <3>2. PICK parts \in SUBSET Part :
            flash' = [flash EXCEPT ![_fl_addr] =
                        [p \in Part |-> IF p \in parts THEN _fl_buf[p] ELSE Erased]]
      BY <2>2 DEF PowerCut
    <3>3. [p \in Part |-> IF p \in parts THEN _fl_buf[p] ELSE Erased] \in Contents
      BY StorageAssumption DEF TypeOK, Contents
    <3>. QED  BY <3>1, <3>2, <3>3
  <2>. QED  BY <2>1, <2>2
<1>3. flash' \in [Sector -> Contents]
  BY <1>2 DEF TypeOK
<1>4. 1 \in Sector
  BY StorageAssumption DEF Sector
<1>5. TypeOK'
  BY <1>1, <1>3, <1>4, BlankType, ChunkTypes DEF TypeOK
<1>6. Disk' = flash'
  BY <1>1, <1>3, StorageAssumption DEF Disk
<1>7. NoWriteLost' /\ ErasedByFlush' /\ HostDone'
  BY <1>1, <1>6 DEF NoWriteLost, ErasedByFlush, HostDone
<1>8. Device!PowerCut
  <2>1. \/ Disk' = Disk
        \/ \E s \in Sector, c \in Contents : s = _fl_addr /\ Disk' = [Disk EXCEPT ![s] = c]
    <3>1. CASE _fl_addr \in Sector
      <4>1. PICK c \in Contents : flash' = [flash EXCEPT ![_fl_addr] = c]
        BY <1>2, <3>1 DEF TypeOK
      <4>2. Disk' = [Disk EXCEPT ![_fl_addr] = c]
        BY <1>6, <3>1, <4>1 DEF Disk, TypeOK
      <4>. QED  BY <3>1, <4>2
    <3>2. CASE _fl_addr \notin Sector
      BY <1>2, <1>6, <3>2 DEF Disk, TypeOK
    <3>. QED  BY <3>1, <3>2
  <2>. QED  BY <1>1, <2>1 DEF Device!PowerCut, Device!Contents, Contents
<1>. QED  BY <1>5, <1>7, <1>8

-----------------------------------------------------------------------------
(* The inductive invariant: it holds at power-up and every step keeps it,  *)
(* while the disk does what BlockDevice allows, or nothing.                *)
LEMMA StorageStep ==
  StorageInv /\ [Next]_vars => StorageInv' /\ [Device!Next]_(Device!vars)
<1>. SUFFICES ASSUME StorageInv, [Next]_vars
              PROVE  StorageInv' /\ [Device!Next]_(Device!vars)
  OBVIOUS
<1>1. CASE FatFs \/ Host \/ FlushReturns
  BY <1>1, UserStep DEF Device!vars
<1>2. CASE FlushSkips \/ FlushErases \/ FlushPrograms
  BY <1>2, FlushStep DEF Device!Next, Device!Settle, Device!vars
<1>3. CASE WriteCached \/ WriteLoads
  BY <1>3, WriteStep DEF Device!Next
<1>4. CASE PowerCut
  BY <1>4, PowerCutStep DEF Device!Next
<1>5. CASE UNCHANGED vars
  <2>1. UNCHANGED <<Disk, _fl_addr>>
    BY <1>5 DEF vars, cacheVars, Disk
  <2>2. StorageInv'
    BY <1>5 DEF vars, cacheVars, userVars, StorageInv, TypeOK, NoWriteLost, Disk, ErasedByFlush,
                Flushing, HostDone
  <2>. QED  BY <2>1, <2>2 DEF Device!vars
<1>. QED  BY <1>1, <1>2, <1>3, <1>4, <1>5 DEF Next, Flush

(* At power-up the cache is empty and the disk is the flash. *)
LEMMA StorageInit == Init => StorageInv /\ Device!Init
<1>. SUFFICES ASSUME Init PROVE StorageInv /\ Device!Init
  OBVIOUS
<1>1. 1 \in Sector
  BY StorageAssumption DEF Sector
<1>2. TypeOK
  BY <1>1, BlankType, ChunkTypes DEF Init, TypeOK
<1>3. Disk = flash
  BY <1>2, StorageAssumption DEF Init, Disk, TypeOK
<1>4. NoWriteLost /\ ErasedByFlush /\ HostDone
  BY <1>3 DEF Init, NoWriteLost, ErasedByFlush, HostDone
<1>5. Device!Init
  BY <1>2, <1>3 DEF Init, Device!Init, Device!Contents, TypeOK, Contents
<1>. QED  BY <1>2, <1>4, <1>5 DEF StorageInv

(* Every variable of the storage keeps its type. *)
THEOREM StorageTypeCorrect == Spec => []TypeOK
<1>. QED  BY StorageInit, StorageStep, PTL DEF Spec, StorageInv

(* No write to the drive is lost: each one is in the flash or in the cache *)
(* in front of it (flash_write, flash_flush).                              *)
THEOREM NothingLost == Spec => []NoWriteLost
<1>. QED  BY StorageInit, StorageStep, PTL DEF Spec, StorageInv

(* A host whose command has run to its end has everything in the flash     *)
(* (tud_msc_write10_complete_cb).                                          *)
THEOREM CompleteIsInFlash == Spec => []HostReadsBack
<1>1. StorageInv => HostReadsBack
  <2>. SUFFICES ASSUME StorageInv, user = "ready", call = NoCall PROVE flash = written
    BY DEF HostReadsBack
  <2>1. _fl_addr = NoSector
    BY DEF StorageInv, HostDone
  <2>2. Disk = flash
    BY <2>1, StorageAssumption DEF Disk, StorageInv, TypeOK
  <2>. QED  BY <2>2 DEF StorageInv, NoWriteLost
<1>. QED  BY <1>1, StorageInit, StorageStep, PTL DEF Spec

(* The cache and the flash behind it implement BlockDevice: writes take    *)
(* effect whole and in order, and a power cut costs one sector at most.    *)
THEOREM StorageIsDevice == Spec => DeviceSpec
<1>. QED  BY StorageInit, StorageStep, PTL DEF Spec, DeviceSpec, Device!Spec
=============================================================================
