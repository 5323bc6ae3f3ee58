----------------------------- MODULE FlashCache -----------------------------
(***************************************************************************)
(* The storage below the keymap drive: the one-sector write-back cache in  *)
(* front of the flash (port/cdc_msc/flash.c), and its two users, one after *)
(* the other.  While the board boots FatFs writes whole sectors through    *)
(* diskio.c; once the scheduler runs the host writes through the mass      *)
(* storage callbacks of tud_usb.c, a part of a sector at a time.           *)
(*                                                                         *)
(* Erasing a sector and programming it are two steps: the power may go     *)
(* between them.  Nothing else comes between them, as each user is one     *)
(* task on one core.                                                       *)
(***************************************************************************)
EXTENDS Integers

CONSTANTS
  NumSectors,  (* FATFS_SIZE / SECTOR_SIZE *)
  NumParts,    (* SECTOR_SIZE / CFG_TUD_MSC_EP_BUFSIZE: 8 *)
  Datum,       (* what a part of a sector may hold *)
  Erased,      (* the one all of whose bits are set *)
  NoSector,    (* FLASH_CACHE_INVALID_ADDR *)
  NoCall       (* no call of flash.c in progress *)

Sector == 1 .. NumSectors
Part   == 1 .. NumParts

ASSUME StorageAssumption ==
  /\ NumSectors \in Nat \ {0} /\ NumParts \in Nat \ {0}
  /\ Erased \in Datum /\ NoSector \notin Sector

VARIABLES
  flash,     (* the sectors of the drive *)
  _fl_addr,  (* the sector in the cache *)
  _fl_buf,   (* the cache *)
  erased,    (* flash_flush is between the erase and the program *)
  call,      (* the call of flash_write or flash_flush in progress *)
  user,      (* FatFs, or where the host is in its WRITE10 command *)
  chunk,     (* where the next chunk of that command goes *)
  end,       (* the last sector it goes to *)
  written    (* history: what the users have written, or found at power-up *)

cacheVars == <<flash, _fl_addr, _fl_buf, erased>>
userVars  == <<user, chunk, end>>
vars      == <<cacheVars, call, userVars, written>>

Contents   == [Part -> Datum]
WriteCall  == [op : {"write"}, sector : Sector, parts : SUBSET Part, datum : Datum]
FlushCall  == [op : {"flush"}]
ASSUME NoCallAssumption == NoCall \notin WriteCall \cup FlushCall

TypeOK ==
  /\ flash \in [Sector -> Contents] /\ written \in [Sector -> Contents]
  /\ _fl_addr \in Sector \cup {NoSector}
  /\ _fl_buf \in Contents
  /\ erased \in BOOLEAN
  /\ call \in WriteCall \cup FlushCall \cup {NoCall}
  /\ user \in {"FatFs", "ready", "data", "status", "cut"}
  /\ chunk \in [sector : Sector, part : Part]
  /\ end \in Sector

Blank == [p \in Part |-> Erased]
Overwritten(contents, parts, d) == [p \in Part |-> IF p \in parts THEN d ELSE contents[p]]
FirstChunk(s) == [sector |-> s, part |-> 1]

Init ==
  /\ flash \in [Sector -> Contents] /\ written = flash
  /\ _fl_addr = NoSector /\ _fl_buf = Blank /\ erased = FALSE
  /\ call = NoCall
  /\ user = "FatFs" /\ chunk = FirstChunk(1) /\ end = 1

-----------------------------------------------------------------------------
(* flash_flush, called for its own sake, or by a flash_write that goes to  *)
(* another sector than the one in the cache.                               *)
Flushing ==
  /\ call # NoCall /\ _fl_addr # NoSector
  /\ call.op = "write" => call.sector # _fl_addr

(* The cache holds what the sector holds already. *)
FlushSkips ==
  /\ Flushing /\ ~ erased /\ flash[_fl_addr] = _fl_buf
  /\ _fl_addr' = NoSector
  /\ UNCHANGED <<flash, _fl_buf, erased, call, userVars, written>>

(* Mutant: the erase takes all the sectors of its block with it. *)
FlushErasesBlock ==
  /\ Flushing /\ ~ erased /\ flash[_fl_addr] # _fl_buf
  /\ flash' = [s \in Sector |-> Blank] /\ erased' = TRUE
  /\ UNCHANGED <<_fl_addr, _fl_buf, call, userVars, written>>

(* Mutant: the cache is not compared with the sector. *)
FlushErasesAlways ==
  /\ Flushing /\ ~ erased
  /\ flash' = [flash EXCEPT ![_fl_addr] = Blank] /\ erased' = TRUE
  /\ UNCHANGED <<_fl_addr, _fl_buf, call, userVars, written>>

FlushErases ==
  /\ Flushing /\ ~ erased /\ flash[_fl_addr] # _fl_buf
  /\ flash' = [flash EXCEPT ![_fl_addr] = Blank] /\ erased' = TRUE
  /\ UNCHANGED <<_fl_addr, _fl_buf, call, userVars, written>>

FlushPrograms ==
  /\ erased
  /\ flash' = [flash EXCEPT ![_fl_addr] = _fl_buf] /\ erased' = FALSE
  /\ _fl_addr' = NoSector
  /\ UNCHANGED <<_fl_buf, call, userVars, written>>

(* flash_write, past its flush. *)
Write(s, old) ==
  /\ call.op = "write" /\ call.sector = s
  /\ _fl_addr' = s
  /\ _fl_buf' = Overwritten(old, call.parts, call.datum)
  /\ written' = [written EXCEPT ![s] = Overwritten(@, call.parts, call.datum)]
  /\ call' = NoCall
  /\ UNCHANGED <<flash, erased, userVars>>

WriteCached == call # NoCall /\ _fl_addr # NoSector /\ Write(_fl_addr, _fl_buf)

(* Mutant: the rest of the sector is not read into the cache. *)
WriteWithoutLoad ==
  /\ call # NoCall /\ _fl_addr = NoSector
  /\ \E s \in Sector : Write(s, _fl_buf)

WriteLoads ==
  /\ call # NoCall /\ _fl_addr = NoSector
  /\ \E s \in Sector : Write(s, flash[s])

-----------------------------------------------------------------------------
(* FatFs: disk_write, one sector at a time, and disk_ioctl(CTRL_SYNC).     *)
DiskWrite(s, d) ==
  /\ user = "FatFs" /\ call = NoCall
  /\ call' = [op |-> "write", sector |-> s, parts |-> Part, datum |-> d]
  /\ UNCHANGED <<cacheVars, userVars, written>>

DiskSync ==
  /\ user = "FatFs" /\ call = NoCall
  /\ call' = [op |-> "flush"]
  /\ UNCHANGED <<cacheVars, userVars, written>>

(* Every operation of FatFs that writes ends with a CTRL_SYNC. *)
StartScheduler ==
  /\ user = "FatFs" /\ call = NoCall /\ _fl_addr = NoSector
  /\ user' = "ready"
  /\ UNCHANGED <<cacheVars, call, chunk, end, written>>

(* The host: a WRITE10 command for some sectors in a row. *)
HostWrites(first, last) ==
  /\ user \in {"ready", "cut"} /\ call = NoCall /\ first <= last
  /\ user' = "data" /\ chunk' = FirstChunk(first) /\ end' = last
  /\ UNCHANGED <<cacheVars, call, written>>

(* Mutant: the end of a sector is missed. *)
NextChunkRunsOn == [chunk EXCEPT !.part = @ + 1]

LastChunk == chunk.part = NumParts /\ chunk.sector = end
NextChunk == IF chunk.part < NumParts THEN [chunk EXCEPT !.part = @ + 1]
             ELSE IF chunk.sector < end THEN FirstChunk(chunk.sector + 1)
             ELSE chunk

(* tud_msc_write10_cb, for one endpoint buffer of it. *)
Write10(d) ==
  /\ user = "data" /\ call = NoCall
  /\ call' = [op |-> "write", sector |-> chunk.sector, parts |-> {chunk.part}, datum |-> d]
  /\ chunk' = NextChunk
  /\ user' = IF LastChunk THEN "status" ELSE "data"
  /\ UNCHANGED <<cacheVars, end, written>>

(* Mutant: the callback has nothing to do. *)
Write10CompleteIdle ==
  /\ user = "status" /\ call = NoCall
  /\ user' = "ready"
  /\ UNCHANGED <<cacheVars, call, chunk, end, written>>

(* tud_msc_write10_complete_cb. *)
Write10Complete ==
  /\ user = "status" /\ call = NoCall
  /\ call' = [op |-> "flush"]
  /\ user' = "ready"
  /\ UNCHANGED <<cacheVars, chunk, end, written>>

(* The call of flash_flush is over. *)
FlushReturns ==
  /\ call # NoCall /\ call.op = "flush" /\ _fl_addr = NoSector
  /\ call' = NoCall
  /\ UNCHANGED <<cacheVars, userVars, written>>

(* A bus reset in the middle of a command: the rest of it never comes, and *)
(* nobody flushes the cache.                                               *)
CommandCut ==
  /\ user \in {"data", "status"} /\ call = NoCall
  /\ user' = "cut"
  /\ UNCHANGED <<cacheVars, call, chunk, end, written>>

(* Without power the cache is lost, and a sector on its way to the flash   *)
(* may have got any number of its parts.  RAM starts zeroed; what the      *)
(* cache holds while it is invalid does not matter.                        *)
PowerCut ==
  /\ \/ ~ erased /\ UNCHANGED flash
     \/ /\ erased
        /\ \E parts \in SUBSET Part :
             flash' = [flash EXCEPT ![_fl_addr] =
                         [p \in Part |-> IF p \in parts THEN _fl_buf[p] ELSE Erased]]
  /\ written' = flash'
  /\ _fl_addr' = NoSector /\ _fl_buf' = Blank /\ erased' = FALSE
  /\ call' = NoCall
  /\ user' = "FatFs" /\ chunk' = FirstChunk(1) /\ end' = 1

Flush == FlushSkips \/ FlushErases \/ FlushPrograms \/ FlushReturns

FatFs == DiskSync \/ StartScheduler \/ \E s \in Sector, d \in Datum : DiskWrite(s, d)

Host == \/ \E first, last \in Sector : HostWrites(first, last)
        \/ \E d \in Datum : Write10(d)
        \/ Write10Complete \/ CommandCut

Next == Flush \/ WriteCached \/ WriteLoads \/ FatFs \/ Host \/ PowerCut

Spec == Init /\ [][Next]_vars
-----------------------------------------------------------------------------
(* What a reader would find with the cache taken into account. *)
Disk == [s \in Sector |-> IF s = _fl_addr THEN _fl_buf ELSE flash[s]]

(* Whatever sectors the writes went to, and in which order, each of them   *)
(* is in the flash or, for the cached sector, in the cache.  flash_read    *)
(* looks at the flash alone.                                               *)
NoWriteLost == written = Disk

(* A host whose command has run to its end, tud_msc_write10_complete_cb    *)
(* included, finds everything it has written in the flash, where its reads *)
(* look and no power cut reaches; so does one that follows FatFs.          *)
HostReadsBack == user = "ready" /\ call = NoCall => flash = written

(* The drive behaves as BlockDevice says. *)
Device == INSTANCE BlockDevice WITH disk <- Disk, unsettled <- _fl_addr
DeviceSpec == Device!Spec
=============================================================================
