------------------------------ MODULE AtaDisk ------------------------------
(***************************************************************************)
(* The ATA driver of the kernel (ata.c) against the drives of the          *)
(* simulator (class HDD of sim.hpp), port access by port access, with the  *)
(* machine being switched off at any of them.                              *)
(*                                                                         *)
(* A drive is a state machine behind two ports.  A command to the control  *)
(* port makes it expect the two words of a sector number, after which it   *)
(* takes or gives the words of that sector.  The driver sends exactly one  *)
(* sector and never looks at a status.  The kernel calls it with           *)
(* interrupts off, so one call is in progress at a time, on one of the two *)
(* drives.  SIGINT to the simulator writes the drives' contents to their   *)
(* image files wherever the driver is; an MMU fault of the machine ends    *)
(* the simulator without doing so.                                         *)
(***************************************************************************)
EXTENDS Integers

CONSTANTS
  Devices,        \* the drives: 0 and 1
  SECTORS,        \* sectors of an image
  SECTOR_WORDS,   \* 256
  Words           \* what a word can hold, 0 among them

\* The driver's Sector is an unsigned int of 16 bits: it can name no others.
ASSUME AtaAssumption ==
  /\ 0 \in Devices
  /\ SECTORS \in Nat \ {0} /\ SECTOR_WORDS \in Nat \ {0}
  /\ SECTORS < 65536
  /\ 0 \in Words

READING == 1
WRITING == 2

Sectors == 0 .. SECTORS - 1
Cells == 0 .. SECTORS * SECTOR_WORDS - 1
Buffer == [0 .. SECTOR_WORDS - 1 -> Words]

VARIABLES
  up,     \* the simulator runs
  hdd,    \* cState, cSector and cPos of each drive; cPos counts words here
  data,   \* data of each drive
  image,  \* the image file of each drive
  call,   \* the driver's call in progress: what it does, to which sector of
          \* which drive, the port accesses it has made, and its Buffer
  seen,   \* the sector last read and what the driver found there
  old     \* what the sector of the call in progress held when it began (a ghost)

ataVars == <<up, hdd, data, image, call, seen, old>>

Idle == [op |-> "idle", device |-> 0, sector |-> 0, step |-> 0,
         buf |-> [i \in 0 .. SECTOR_WORDS - 1 |-> 0]]

Fresh == [cState |-> 0, cSector |-> 0, cPos |-> 0]

\* The words of sector s of a drive with contents d.
SectorOf(d, s) == [i \in 0 .. SECTOR_WORDS - 1 |-> d[s * SECTOR_WORDS + i]]

-----------------------------------------------------------------------------
(* The drive                                                               *)

\* Mutant: a command does not start the count anew.
commandKeepsPos(h, cmd) ==
  IF cmd = "reset" THEN Fresh
  ELSE [h EXCEPT !.cState = IF cmd = "read" THEN -READING ELSE -WRITING]

\* A write to the control port.
Command(h, cmd) ==
  IF cmd = "reset" THEN Fresh
  ELSE [h EXCEPT !.cState = IF cmd = "read" THEN -READING ELSE -WRITING,
                 !.cPos = 0]

\* A word written to the data port while the drive expects a sector number.
SectorWord(h, w) ==
  IF h.cPos = 0 THEN [h EXCEPT !.cSector = w * 65536, !.cPos = 1]
  ELSE IF h.cPos = 1
       THEN [h EXCEPT !.cSector = @ + w, !.cPos = 0, !.cState = -h.cState]
       ELSE h

\* The cell a data word goes to or comes from.
Cell(h) == h.cSector * SECTOR_WORDS + h.cPos

\* Mutant: the position moves before the word is stored.
storeAhead(d, w) ==
  IF hdd[d].cPos < SECTOR_WORDS
  THEN /\ data' = [data EXCEPT ![d][Cell(hdd[d]) + 1] = w]
       /\ hdd' = [hdd EXCEPT ![d].cPos = @ + 1]
  ELSE hdd' = [hdd EXCEPT ![d].cState = 0] /\ UNCHANGED data

\* A word written to the data port while the drive takes a sector.
StoreWord(d, w) ==
  IF hdd[d].cPos < SECTOR_WORDS
  THEN /\ data' = [data EXCEPT ![d][Cell(hdd[d])] = w]
       /\ hdd' = [hdd EXCEPT ![d].cPos = @ + 1]
  ELSE hdd' = [hdd EXCEPT ![d].cState = 0] /\ UNCHANGED data

\* A write to the data port of drive d.
DataWrite(d, w) ==
  IF hdd[d].cState < 0
  THEN hdd' = [hdd EXCEPT ![d] = SectorWord(@, w)] /\ UNCHANGED data
  ELSE IF hdd[d].cState = WRITING
       THEN StoreWord(d, w)
       ELSE UNCHANGED <<hdd, data>>

Reads(h) == h.cState = READING /\ h.cPos < SECTOR_WORDS /\ Cell(h) \in Cells

\* A read of the data port: the word, and the drive after it.  A drive that is
\* not reading, or asked for a word past its image, gives 0 and stays.
DataRead(d) == IF Reads(hdd[d]) THEN data[d][Cell(hdd[d])] ELSE 0
AfterRead(h) ==
  IF Reads(h)
  THEN [h EXCEPT !.cPos = @ + 1,
                 !.cState = IF h.cPos + 1 = SECTOR_WORDS THEN 0 ELSE @]
  ELSE h

-----------------------------------------------------------------------------
(* The driver                                                              *)

Begin(op, d, s, buf) ==
  /\ up /\ call = Idle
  /\ call' = [op |-> op, device |-> d, sector |-> s, step |-> 0, buf |-> buf]
  /\ old' = IF s \in Sectors THEN SectorOf(data[d], s) ELSE Idle.buf
  /\ UNCHANGED <<up, hdd, data, image, seen>>

\* The block cache asks for a sector, or gives one to write.  A number past the
\* image is read as zeros; a write there is outside the drive's array, and the
\* runs have none.
ataReadSectorsLBA == \E d \in Devices, s \in 0 .. SECTORS :
                       Begin("read", d, s, Idle.buf)
ataWriteSectorsLBA == \E d \in Devices, s \in Sectors, buf \in Buffer :
                        Begin("write", d, s, buf)

Busy(op) == up /\ call.op \in op

\* outb of the command.
outCommand ==
  /\ Busy({"read", "write"}) /\ call.step = 0
  /\ hdd' = [hdd EXCEPT ![call.device] = Command(@, call.op)]
  /\ call' = [call EXCEPT !.step = 1]
  /\ UNCHANGED <<up, data, image, seen, old>>

\* outb of the two words of the sector number, the high one always 0.
outSector ==
  /\ Busy({"read", "write"}) /\ call.step \in {1, 2}
  /\ DataWrite(call.device, IF call.step = 1 THEN 0 ELSE call.sector % 65536)
  /\ call' = [call EXCEPT !.step = @ + 1]
  /\ UNCHANGED <<up, image, seen, old>>

\* Words of the Buffer already sent or filled.
Moved == IF call.step < 3 THEN 0 ELSE call.step - 3

\* One turn of the driver's loop, which returns after the last one.
ataWriteDataBuffer ==
  /\ Busy({"write"}) /\ call.step >= 3
  /\ DataWrite(call.device, call.buf[Moved])
  /\ call' = IF Moved + 1 = SECTOR_WORDS THEN Idle
             ELSE [call EXCEPT !.step = @ + 1]
  /\ old' = IF Moved + 1 = SECTOR_WORDS THEN Idle.buf ELSE old
  /\ UNCHANGED <<up, image, seen>>

ataReadDataBuffer ==
  /\ Busy({"read"}) /\ call.step >= 3
  /\ LET d == call.device
         filled == [call.buf EXCEPT ![Moved] = DataRead(d)]
     IN /\ hdd' = [hdd EXCEPT ![d] = AfterRead(@)]
        /\ IF Moved + 1 = SECTOR_WORDS
           THEN /\ call' = Idle /\ old' = Idle.buf
                /\ seen' = IF call.sector \in Sectors
                           THEN <<<<d, call.sector>>, filled>> ELSE seen
           ELSE /\ call' = [call EXCEPT !.step = @ + 1, !.buf = filled]
                /\ UNCHANGED <<seen, old>>
  /\ UNCHANGED <<up, data, image>>

-----------------------------------------------------------------------------
(* The simulator                                                           *)

\* SIGINT, between two port accesses: the images are written.
terminate ==
  /\ up
  /\ image' = data /\ up' = FALSE /\ call' = Idle /\ old' = Idle.buf
  /\ UNCHANGED <<hdd, data, seen>>

\* An MMU fault: exit(1) at once.
faultExit ==
  /\ up
  /\ up' = FALSE /\ call' = Idle /\ old' = Idle.buf
  /\ UNCHANGED <<hdd, data, image, seen>>

\* A new simulator reads the images, and the kernel resets both drives.
start ==
  /\ ~up
  /\ up' = TRUE /\ data' = image
  /\ hdd' = [d \in Devices |-> Command(Fresh, "reset")]
  /\ UNCHANGED <<image, call, seen, old>>

AtaInit ==
  /\ up = TRUE /\ call = Idle /\ seen = <<>> /\ old = Idle.buf
  /\ hdd = [d \in Devices |-> Command(Fresh, "reset")]
  /\ data = [d \in Devices |-> [c \in Cells |-> 0]]
  /\ image = data

AtaNext ==
  \/ ataReadSectorsLBA \/ ataWriteSectorsLBA
  \/ outCommand \/ outSector \/ ataWriteDataBuffer \/ ataReadDataBuffer
  \/ terminate \/ faultExit \/ start

AtaSpec == AtaInit /\ [][AtaNext]_ataVars

-----------------------------------------------------------------------------
(* Properties                                                              *)

\* The variables keep their types: in particular a drive never points past the
\* sector it was asked for.
AtaTypeOK ==
  /\ up \in BOOLEAN
  /\ hdd \in [Devices -> [cState : -2 .. 2, cSector : 0 .. SECTORS,
                          cPos : 0 .. SECTOR_WORDS]]
  /\ data \in [Devices -> [Cells -> Words]]
  /\ image \in [Devices -> [Cells -> Words]]
  /\ call \in [op : {"idle", "read", "write"}, device : Devices,
               sector : 0 .. SECTORS, step : 0 .. SECTOR_WORDS + 2, buf : Buffer]
  /\ old \in Buffer

\* The driver and the drive never lose step, although neither looks at the
\* other: at every port access of a write the sector holds the words sent so
\* far and, after them, those it held before.  So a machine switched off
\* there leaves a sector torn at one place and nothing worse.
TornAtOnePlace ==
  up /\ call.op = "write" =>
    SectorOf(data[call.device], call.sector) =
      [i \in 0 .. SECTOR_WORDS - 1 |-> IF i < Moved THEN call.buf[i] ELSE old[i]]

\* At every port access of a call the drive is where the driver takes it to be:
\* it expects the word of the sector number that comes next, or the next word of
\* the sector; what the driver has read so far is what the sector holds.  A drive
\* asked for a sector past its image stays at the start of it.
InStep ==
  /\ call.op = "idle" \/ ~up => call = Idle
  /\ call.op = "write" => call.sector \in Sectors
  /\ call.op # "idle" =>
       LET h == hdd[call.device]
           mode == IF call.op = "read" THEN READING ELSE WRITING
       IN /\ call.step \in {1, 2} => h.cState = -mode /\ h.cPos = call.step - 1
          /\ call.step = 2 => h.cSector = 0
          /\ call.step >= 3 => /\ h.cState = mode /\ h.cSector = call.sector
                              /\ h.cPos = IF call.sector \in Sectors THEN Moved ELSE 0
          /\ call.op = "read" /\ call.sector \in Sectors =>
               \A i \in 0 .. SECTOR_WORDS - 1 :
                 i < Moved => call.buf[i] = SectorOf(data[call.device], call.sector)[i]

\* Drive and driver stay in step word by word, and the drive's position stays
\* inside the sector, across any calls and power cycles.
AtaInv == AtaTypeOK /\ TornAtOnePlace /\ InStep

\* What a sector holds for the kernel: a write counts when it has returned.
Content ==
  [b \in Devices \X Sectors |->
     IF ~up THEN SectorOf(image[b[1]], b[2])
     ELSE IF call.op = "write" /\ b = <<call.device, call.sector>> THEN old
     ELSE SectorOf(data[b[1]], b[2])]

ThePowerDisk == INSTANCE PowerDisk
  WITH Blocks <- Devices \X Sectors, Data <- Buffer, Blank <- Idle.buf,
       content <- Content,
       saved <- [b \in Devices \X Sectors |-> SectorOf(image[b[1]], b[2])]

\* The driver and the drives behave as the disk of module PowerDisk: a read
\* gives the last write to that sector of that drive, whatever call came before
\* it and wherever the machine was switched off.
IsPowerDisk == ThePowerDisk!PSpec

=============================================================================
