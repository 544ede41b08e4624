---------------------------- MODULE DiskProofs -----------------------------
(***************************************************************************)
(* The two ends of the way to the disk.  First the driver and the drives:  *)
(* for every number of drives, sectors and words they stay in step and     *)
(* behave as the disk of module PowerDisk, with the machine switched off   *)
(* at any port access.  Then the file system: on disks, inodes and blocks  *)
(* of every size it never uses a block twice, nor one that is not marked,  *)
(* every file has its blocks, and the programs see the store of module     *)
(* FileStore, after every sequence of calls.                               *)
(***************************************************************************)
EXTENDS AtaDisk, RlFs, FirstFitProofs, TLAPS

Offsets == 0 .. SECTOR_WORDS - 1

\* Contents d of a drive with word i of sector s made w.
Stored(d, s, i, w) == [d EXCEPT ![s * SECTOR_WORDS + i] = w]

-----------------------------------------------------------------------------
(* Cells and sectors                                                       *)

\* Every word of every sector has a cell of its own.
LEMMA CellsApart ==
  ASSUME NEW s \in Sectors, NEW i \in Offsets
  PROVE  /\ s * SECTOR_WORDS + i \in Cells
         /\ \A t \in Sectors, j \in Offsets :
              s * SECTOR_WORDS + i = t * SECTOR_WORDS + j => s = t /\ i = j
<1> DEFINE W == SECTOR_WORDS
<1>0. W \in Nat /\ s \in Nat /\ i \in Nat /\ i < W /\ s + 1 <= SECTORS
  BY AtaAssumption DEF Sectors, Offsets
<1>1. \A a, b \in Nat : a + 1 <= b => a * W + W <= b * W
  <2> SUFFICES ASSUME NEW a \in Nat, NEW b \in Nat, a + 1 <= b
               PROVE  a * W + W <= b * W
    OBVIOUS
  <2> QED
    BY <1>0
<1>2. s * W + W <= SECTORS * W
  BY <1>0, <1>1, AtaAssumption
<1>3. s * W \in Nat /\ SECTORS * W \in Nat
  BY <1>0, AtaAssumption
<1>4. s * W + i \in Cells
  <2> HIDE DEF W
  <2> DEFINE a == s * W
             b == SECTORS * W
  <2>1. a \in Nat /\ b \in Nat /\ a + W <= b
    BY <1>2, <1>3
  <2> HIDE DEF a, b
  <2>2. a + i \in 0 .. b - 1
    BY <2>1, <1>0
  <2> QED
    BY <2>2 DEF Cells, a, b, W
<1>5. ASSUME NEW t \in Sectors, NEW j \in Offsets, s * W + i = t * W + j
      PROVE  s = t /\ i = j
  <2>1. t \in Nat /\ j \in Nat /\ j < W
    BY AtaAssumption DEF Sectors, Offsets
  <2>2. t * W \in Nat
    BY <2>1, <1>0
  <2>3. s + 1 <= t => s * W + W <= t * W
    BY <1>0, <1>1, <2>1
  <2>4. t + 1 <= s => t * W + W <= s * W
    BY <1>0, <1>1, <2>1
  <2>5. ~(s + 1 <= t) /\ ~(t + 1 <= s)
    <3> DEFINE a == s * W
               b == t * W
    <3>1. a \in Nat /\ b \in Nat /\ a + i = b + j
          /\ (s + 1 <= t => a + W <= b) /\ (t + 1 <= s => b + W <= a)
      BY <1>3, <1>5, <2>2, <2>3, <2>4
    <3> HIDE DEF a, b, W
    <3> QED
      BY <3>1, <1>0, <2>1
  <2>6. s = t
    BY <2>5, <2>1, <1>0
  <2> QED
    BY <2>6, <1>5, <1>3, <1>0, <2>1
<1> QED
  BY <1>4, <1>5

\* A sector of a drive is a Buffer.
LEMMA SectorType ==
  ASSUME NEW d \in [Cells -> Words], NEW s \in Sectors
  PROVE  SectorOf(d, s) \in Buffer
BY CellsApart DEF SectorOf, Buffer, Offsets

\* A word stored in a sector changes that word and no other sector.
LEMMA StoreOne ==
  ASSUME NEW d \in [Cells -> Words], NEW s \in Sectors, NEW i \in Offsets, NEW w \in Words
  PROVE  /\ Stored(d, s, i, w) \in [Cells -> Words]
         /\ SectorOf(Stored(d, s, i, w), s) = [SectorOf(d, s) EXCEPT ![i] = w]
         /\ \A t \in Sectors \ {s} : SectorOf(Stored(d, s, i, w), t) = SectorOf(d, t)
<1> DEFINE e == Stored(d, s, i, w)
           c == s * SECTOR_WORDS + i
<1>1. c \in Cells /\ e \in [Cells -> Words] /\ e[c] = w
      /\ \A x \in Cells : x # c => e[x] = d[x]
  BY CellsApart DEF Stored
<1>2. \A t \in Sectors, j \in Offsets :
        /\ t * SECTOR_WORDS + j \in Cells
        /\ t * SECTOR_WORDS + j = c => t = s /\ j = i
  BY CellsApart
<1> HIDE DEF e, c
<1>3. \A t \in Sectors, j \in Offsets :
        SectorOf(e, t)[j] = IF t = s /\ j = i THEN w ELSE SectorOf(d, t)[j]
  <2> SUFFICES ASSUME NEW t \in Sectors, NEW j \in Offsets
               PROVE  SectorOf(e, t)[j] = IF t = s /\ j = i THEN w ELSE SectorOf(d, t)[j]
    OBVIOUS
  <2>1. SectorOf(e, t)[j] = e[t * SECTOR_WORDS + j] /\ SectorOf(d, t)[j] = d[t * SECTOR_WORDS + j]
    BY DEF SectorOf, Offsets
  <2>2. CASE t = s /\ j = i
    BY <1>1, <2>1, <2>2 DEF c
  <2>3. CASE ~(t = s /\ j = i)
    BY <1>1, <1>2, <2>1, <2>3
  <2> QED
    BY <2>2, <2>3
<1>4. \A x : \A t \in Sectors :
        /\ DOMAIN SectorOf(x, t) = Offsets
        /\ SectorOf(x, t) = [j \in Offsets |-> SectorOf(x, t)[j]]
  BY DEF SectorOf, Offsets
<1>5. e \in [Cells -> Words]
  BY <1>1
<1>6. SectorOf(e, s) = [SectorOf(d, s) EXCEPT ![i] = w]
  BY <1>3, <1>4
<1>7. \A t \in Sectors \ {s} : SectorOf(e, t) = SectorOf(d, t)
  BY <1>3, <1>4
<1> QED
  BY <1>5, <1>6, <1>7 DEF e

-----------------------------------------------------------------------------
(* The drive                                                               *)

Drive == [cState : -2 .. 2, cSector : 0 .. SECTORS, cPos : 0 .. SECTOR_WORDS]

ModeOf(op) == IF op = "read" THEN READING ELSE WRITING

\* After a command the drive expects the first word of a sector number.
LEMMA CommandDrive ==
  ASSUME NEW h \in Drive, NEW op \in {"read", "write"}
  PROVE  /\ Command(h, op) \in Drive
         /\ Command(h, op).cState = -ModeOf(op) /\ Command(h, op).cPos = 0
<1>0. 0 \in 0 .. SECTOR_WORDS /\ -ModeOf(op) \in -2 .. 2
  BY AtaAssumption DEF ModeOf, READING, WRITING
<1>1. PICK a \in -2 .. 2, c \in 0 .. SECTOR_WORDS : a = -ModeOf(op) /\ c = 0
  BY <1>0
<1>2. Command(h, op) = [h EXCEPT !.cState = a, !.cPos = c]
  BY <1>1 DEF Command, ModeOf, READING, WRITING
<1>3. Command(h, op) \in Drive /\ Command(h, op).cState = a /\ Command(h, op).cPos = c
  BY <1>2 DEF Drive
<1> QED
  BY <1>1, <1>3

\* The high word of the sector number, which is 0.
LEMMA HighWordDrive ==
  ASSUME NEW h \in Drive, h.cPos = 0
  PROVE  /\ SectorWord(h, 0) \in Drive /\ SectorWord(h, 0).cState = h.cState
         /\ SectorWord(h, 0).cPos = 1 /\ SectorWord(h, 0).cSector = 0
<1>0. 1 \in 0 .. SECTOR_WORDS /\ 0 \in 0 .. SECTORS /\ 0 * 65536 = 0
  BY AtaAssumption
<1>1. PICK b \in 0 .. SECTORS, c \in 0 .. SECTOR_WORDS : b = 0 /\ c = 1
  BY <1>0
<1>2. SectorWord(h, 0) = [h EXCEPT !.cSector = b, !.cPos = c]
  BY <1>0, <1>1 DEF SectorWord
<1>3. /\ SectorWord(h, 0) \in Drive /\ SectorWord(h, 0).cState = h.cState
      /\ SectorWord(h, 0).cSector = b /\ SectorWord(h, 0).cPos = c
  BY <1>2 DEF Drive
<1> QED
  BY <1>1, <1>3

\* The low word: the drive is at the start of the sector.
LEMMA LowWordDrive ==
  ASSUME NEW h \in Drive, NEW s \in 0 .. SECTORS, h.cPos = 1, h.cSector = 0
  PROVE  /\ SectorWord(h, s) \in Drive /\ SectorWord(h, s).cState = -h.cState
         /\ SectorWord(h, s).cPos = 0 /\ SectorWord(h, s).cSector = s
<1>0. 0 \in 0 .. SECTOR_WORDS /\ h.cSector + s = s /\ -h.cState \in -2 .. 2
  BY AtaAssumption DEF Drive
<1>1. PICK a \in -2 .. 2, c \in 0 .. SECTOR_WORDS : a = -h.cState /\ c = 0
  BY <1>0
<1>2. SectorWord(h, s) = [h EXCEPT !.cSector = @ + s, !.cPos = 0, !.cState = -h.cState]
  BY DEF SectorWord
<1>3. SectorWord(h, s) = [h EXCEPT !.cSector = s, !.cPos = c, !.cState = a]
  BY <1>0, <1>1, <1>2
<1>4. /\ SectorWord(h, s) \in Drive /\ SectorWord(h, s).cState = a
      /\ SectorWord(h, s).cSector = s /\ SectorWord(h, s).cPos = c
  BY <1>3 DEF Drive
<1> QED
  BY <1>1, <1>4

-----------------------------------------------------------------------------
(* Steps                                                                   *)

\* What every step has to do: keep the invariant, and be a step of the disk.
Allowed ==
  /\ AtaInv'
  /\ [ThePowerDisk!Use \/ ThePowerDisk!Stop \/ ThePowerDisk!Lose]_(ThePowerDisk!pvars)

\* What block b holds, by the state of the machine.
Holds(b) ==
  IF ~up THEN SectorOf(image[b[1]], b[2])
  ELSE IF call.op = "write" /\ b = <<call.device, call.sector>> THEN old
  ELSE SectorOf(data[b[1]], b[2])

\* The refinement mapping by its values.
LEMMA ContentIs == Content = [b \in Devices \X Sectors |-> Holds(b)]
BY DEF Content, Holds

\* And after a step.
LEMMA ContentIsNext == Content' = [b \in Devices \X Sectors |-> Holds(b)']
BY DEF Content, Holds

\* Nothing the disk shows has changed.
LEMMA QuietAllowed ==
  ASSUME AtaInv', Content' = Content, seen' = seen, image' = image
  PROVE  Allowed
BY DEF Allowed, ThePowerDisk!pvars

\* A call begins.
LEMMA BeginAllowed ==
  ASSUME AtaInv, NEW op \in {"read", "write"}, NEW d \in Devices, NEW s \in 0 .. SECTORS,
         NEW buf \in Buffer, Begin(op, d, s, buf),
         op = "write" => s \in Sectors
  PROVE  Allowed
<1> USE DEF AtaInv, Begin
<1>1. Idle.buf \in Buffer
  BY AtaAssumption DEF Idle, Buffer
<1>2. s \in Sectors => SectorOf(data[d], s) \in Buffer
  BY SectorType DEF AtaTypeOK
<1>3. AtaTypeOK'
  BY <1>1, <1>2, AtaAssumption DEF AtaTypeOK
<1>4. Moved' = 0
  BY DEF Moved
<1>5. TornAtOnePlace'
  <2> SUFFICES ASSUME op = "write"
               PROVE  SectorOf(data[d], s) = [i \in Offsets |-> IF i < 0 THEN buf[i] ELSE old'[i]]
    BY <1>4 DEF TornAtOnePlace, Offsets
  <2>1. old' = SectorOf(data[d], s)
    OBVIOUS
  <2> QED
    BY <2>1 DEF SectorOf, Offsets
<1>6. InStep'
  BY <1>4 DEF InStep
<1>7. Content' = Content
  <2> SUFFICES ASSUME NEW b \in Devices \X Sectors PROVE Holds(b)' = Holds(b)
    BY ContentIs, ContentIsNext
  <2>1. up /\ up' /\ call.op = "idle" /\ data' = data
    BY DEF Idle
  <2>2. b = <<d, s>> => old' = SectorOf(data[b[1]], b[2])
    OBVIOUS
  <2> QED
    BY <2>1, <2>2 DEF Holds
<1> QED
  BY <1>3, <1>5, <1>6, <1>7, QuietAllowed

\* No call in progress.
LEMMA IdleType ==
  /\ Idle \in [op : {"idle", "read", "write"}, device : Devices,
               sector : 0 .. SECTORS, step : 0 .. SECTOR_WORDS + 2, buf : Buffer]
  /\ Idle.op = "idle" /\ Idle.buf \in Buffer
BY AtaAssumption DEF Idle, Buffer

\* The call in progress, and where its drive is.
LEMMA CallType ==
  ASSUME AtaInv, Busy({"read", "write"})
  PROVE  /\ up = TRUE /\ call.op \in {"read", "write"}
         /\ call.device \in Devices /\ call.sector \in 0 .. SECTORS
         /\ call.step \in 0 .. SECTOR_WORDS + 2 /\ call.buf \in Buffer
         /\ hdd[call.device] \in Drive
         /\ data[call.device] \in [Cells -> Words]
         /\ call.op = "write" => call.sector \in Sectors
BY DEF AtaInv, AtaTypeOK, InStep, Busy, Drive

\* The command reaches the drive.
LEMMA CommandAllowed ==
  ASSUME AtaInv, outCommand
  PROVE  Allowed
<1> DEFINE g == Command(hdd[call.device], call.op)
<1>1. /\ up = TRUE /\ call.op \in {"read", "write"} /\ call.device \in Devices
      /\ hdd[call.device] \in Drive
  BY CallType DEF outCommand, Busy
<1>2. g \in Drive /\ g.cState = -ModeOf(call.op) /\ g.cPos = 0
  BY <1>1, CommandDrive
<1>3. /\ hdd' = [hdd EXCEPT ![call.device] = g] /\ call' = [call EXCEPT !.step = 1]
      /\ UNCHANGED <<up, data, image, seen, old>> /\ call.step = 0
  BY DEF outCommand
<1> HIDE DEF g
<1>4. AtaTypeOK'
  <2>1. PICK n \in 0 .. SECTOR_WORDS + 2 : n = 1
    BY AtaAssumption
  <2>2. call' = [call EXCEPT !.step = n]
    BY <1>3, <2>1
  <2>3. /\ hdd' \in [Devices -> Drive] /\ data' = data /\ image' = image
        /\ up' = up /\ old' = old
    BY <1>1, <1>2, <1>3 DEF AtaInv, AtaTypeOK, Drive
  <2> QED
    BY <2>2, <2>3 DEF AtaInv, AtaTypeOK, Drive
<1>5. /\ call'.op = call.op /\ call'.device = call.device /\ call'.sector = call.sector
      /\ call'.step = 1 /\ call'.buf = call.buf
  BY <1>3 DEF AtaInv, AtaTypeOK
<1>6. Moved = 0 /\ Moved' = 0
  BY <1>3, <1>5 DEF Moved
<1>7. TornAtOnePlace'
  BY <1>3, <1>5, <1>6 DEF AtaInv, TornAtOnePlace
<1>8. hdd'[call.device] = g
  BY <1>1, <1>3 DEF AtaInv, AtaTypeOK
<1>9. InStep'
  BY <1>1, <1>2, <1>3, <1>5, <1>6, <1>8 DEF AtaInv, InStep, ModeOf
<1>10. Content' = Content
  BY <1>3, <1>5 DEF Content
<1> QED
  BY <1>3, <1>4, <1>7, <1>9, <1>10, QuietAllowed DEF AtaInv

\* A word of the sector number reaches the drive.
LEMMA SectorAllowed ==
  ASSUME AtaInv, outSector
  PROVE  Allowed
<1> DEFINE w == IF call.step = 1 THEN 0 ELSE call.sector % 65536
           g == SectorWord(hdd[call.device], w)
<1>1. /\ up = TRUE /\ call.op \in {"read", "write"} /\ call.device \in Devices
      /\ call.sector \in 0 .. SECTORS /\ call.step \in {1, 2}
      /\ hdd[call.device] \in Drive
  BY CallType DEF outSector, Busy
<1>2. /\ hdd[call.device].cState = -ModeOf(call.op)
      /\ hdd[call.device].cPos = call.step - 1
      /\ call.step = 2 => hdd[call.device].cSector = 0
  BY <1>1 DEF AtaInv, InStep, ModeOf
<1>3. ModeOf(call.op) \in {1, 2}
  BY DEF ModeOf, READING, WRITING
<1>4. /\ call.step = 1 => g.cState = -ModeOf(call.op) /\ g.cPos = 1 /\ g.cSector = 0
      /\ call.step = 2 => g.cState = ModeOf(call.op) /\ g.cPos = 0 /\ g.cSector = call.sector
      /\ g \in Drive
  <2>1. CASE call.step = 1
    <3>1. w = 0 /\ hdd[call.device].cPos = 0
      BY <1>2, <2>1
    <3> QED
      BY <1>1, <1>2, <2>1, <3>1, HighWordDrive
  <2>2. CASE call.step = 2
    <3>1. /\ w = call.sector /\ hdd[call.device].cPos = 1
          /\ hdd[call.device].cSector = 0 /\ -hdd[call.device].cState = ModeOf(call.op)
      BY <1>1, <1>2, <1>3, <2>2, AtaAssumption
    <3> QED
      BY <1>1, <2>2, <3>1, LowWordDrive
  <2> QED
    BY <1>1, <2>1, <2>2
<1>5. hdd[call.device].cState < 0
  BY <1>2, <1>3
<1>6. /\ hdd' = [hdd EXCEPT ![call.device] = g] /\ call' = [call EXCEPT !.step = @ + 1]
      /\ UNCHANGED <<up, data, image, seen, old>>
  BY <1>5 DEF outSector, DataWrite
<1> HIDE DEF g, w
<1>7. AtaTypeOK'
  <2>1. PICK n \in 0 .. SECTOR_WORDS + 2 : n = call.step + 1
    BY <1>1, AtaAssumption
  <2>2. call' = [call EXCEPT !.step = n]
    BY <1>6, <2>1
  <2>3. /\ hdd' \in [Devices -> Drive] /\ data' = data /\ image' = image
        /\ up' = up /\ old' = old
    BY <1>1, <1>4, <1>6 DEF AtaInv, AtaTypeOK, Drive
  <2> QED
    BY <2>2, <2>3 DEF AtaInv, AtaTypeOK, Drive
<1>8. /\ call'.op = call.op /\ call'.device = call.device /\ call'.sector = call.sector
      /\ call'.step = call.step + 1 /\ call'.buf = call.buf
  BY <1>6 DEF AtaInv, AtaTypeOK
<1>9. Moved = 0 /\ Moved' = 0
  BY <1>1, <1>8 DEF Moved
<1>10. TornAtOnePlace'
  BY <1>6, <1>8, <1>9 DEF AtaInv, TornAtOnePlace
<1>11. hdd'[call.device] = g
  BY <1>1, <1>6 DEF AtaInv, AtaTypeOK
<1>12. InStep'
  BY <1>1, <1>4, <1>6, <1>8, <1>9, <1>11 DEF AtaInv, InStep, ModeOf
<1>13. Content' = Content
  BY <1>6, <1>8 DEF Content
<1> QED
  BY <1>6, <1>7, <1>10, <1>12, <1>13, QuietAllowed DEF AtaInv

\* A word of the Buffer is stored where it belongs; the last one completes the
\* write.
LEMMA WriteAllowed ==
  ASSUME AtaInv, ataWriteDataBuffer
  PROVE  Allowed
<1> DEFINE d == call.device
           s == call.sector
           h == hdd[call.device]
           w == call.buf[Moved]
           e == Stored(data[d], s, Moved, w)
<1>1. /\ up = TRUE /\ call.op = "write" /\ d \in Devices /\ s \in Sectors
      /\ call.step \in 3 .. SECTOR_WORDS + 2 /\ call.buf \in Buffer
      /\ h \in Drive /\ data[d] \in [Cells -> Words]
  BY CallType DEF ataWriteDataBuffer, Busy
<1>2. Moved = call.step - 3 /\ Moved \in Offsets /\ Moved + 1 \in 0 .. SECTOR_WORDS
  BY <1>1, AtaAssumption DEF Moved, Offsets
<1>3. w \in Words
  BY <1>1, <1>2 DEF Buffer, Offsets
<1>4. h.cState = 2 /\ h.cSector = s /\ h.cPos = Moved
  BY <1>1 DEF AtaInv, InStep, WRITING
<1>5. data' = [data EXCEPT ![d] = e] /\ hdd' = [hdd EXCEPT ![d].cPos = Moved + 1]
  <2>1. Cell(h) = s * SECTOR_WORDS + Moved /\ h.cPos < SECTOR_WORDS
    BY <1>2, <1>4, AtaAssumption DEF Cell, Offsets
  <2>2. StoreWord(d, w)
    BY <1>4 DEF ataWriteDataBuffer, DataWrite, WRITING
  <2>3. data' = [data EXCEPT ![d][Cell(h)] = w] /\ hdd' = [hdd EXCEPT ![d].cPos = @ + 1]
    BY <2>1, <2>2 DEF StoreWord
  <2> QED
    BY <1>4, <2>1, <2>3 DEF Stored
<1>6. /\ e \in [Cells -> Words]
      /\ SectorOf(e, s) = [SectorOf(data[d], s) EXCEPT ![Moved] = w]
      /\ \A t \in Sectors \ {s} : SectorOf(e, t) = SectorOf(data[d], t)
  <2>1. PICK x \in [Cells -> Words], y \in Sectors, i \in Offsets, z \in Words :
          x = data[d] /\ y = s /\ i = Moved /\ z = w
    BY <1>1, <1>2, <1>3
  <2>2. e = Stored(x, y, i, z)
    BY <2>1
  <2> HIDE DEF e, d, s, w
  <2>3. /\ e \in [Cells -> Words]
        /\ SectorOf(e, y) = [SectorOf(x, y) EXCEPT ![i] = z]
        /\ \A t \in Sectors \ {y} : SectorOf(e, t) = SectorOf(x, t)
    BY <2>2, StoreOne
  <2> QED
    BY <2>1, <2>3
<1> HIDE DEF e
<1>7. /\ data' \in [Devices -> [Cells -> Words]] /\ data'[d] = e
      /\ \A x \in Devices \ {d} : data'[x] = data[x]
  BY <1>1, <1>5, <1>6 DEF AtaInv, AtaTypeOK
<1>8. hdd' \in [Devices -> Drive] /\ hdd'[d] = [h EXCEPT !.cPos = Moved + 1]
  <2>1. PICK n \in 0 .. SECTOR_WORDS : n = Moved + 1
    BY <1>2
  <2>2. hdd' = [hdd EXCEPT ![d] = [h EXCEPT !.cPos = n]] /\ [h EXCEPT !.cPos = n] \in Drive
    BY <1>1, <1>5, <2>1 DEF Drive
  <2> QED
    BY <1>1, <2>1, <2>2 DEF AtaInv, AtaTypeOK, Drive
<1>9. SectorOf(e, s) = [i \in Offsets |-> IF i < Moved + 1 THEN call.buf[i] ELSE old[i]]
  <2>1. SectorOf(data[d], s) = [i \in Offsets |-> IF i < Moved THEN call.buf[i] ELSE old[i]]
    BY <1>1 DEF AtaInv, TornAtOnePlace, Offsets
  <2>2. \A i \in Offsets : (i < Moved + 1) <=> (i < Moved \/ i = Moved)
    BY <1>2, AtaAssumption DEF Offsets
  <2> QED
    BY <1>2, <1>6, <2>1, <2>2
<1>10. UNCHANGED <<up, image, seen>>
  BY DEF ataWriteDataBuffer
<1> HIDE DEF h, w
<1>11. CASE Moved + 1 # SECTOR_WORDS
  <2>1. call' = [call EXCEPT !.step = @ + 1] /\ old' = old
    BY <1>11 DEF ataWriteDataBuffer
  <2>2. call.step + 1 \in 3 .. SECTOR_WORDS + 2
    BY <1>1, <1>2, <1>11, AtaAssumption
  <2>3. AtaTypeOK'
    <3>1. PICK n \in 0 .. SECTOR_WORDS + 2 : n = call.step + 1
      BY <2>2, AtaAssumption
    <3>2. call' = [call EXCEPT !.step = n]
      BY <2>1, <3>1
    <3> QED
      BY <1>7, <1>8, <1>10, <2>1, <3>2 DEF AtaInv, AtaTypeOK, Drive
  <2>4. /\ call'.op = "write" /\ call'.device = d /\ call'.sector = s
        /\ call'.step = call.step + 1 /\ call'.buf = call.buf
    BY <1>1, <2>1 DEF AtaInv, AtaTypeOK
  <2>5. Moved' = Moved + 1
    BY <1>1, <1>2, <2>2, <2>4 DEF Moved
  <2>6. TornAtOnePlace'
    BY <1>7, <1>9, <2>1, <2>4, <2>5 DEF TornAtOnePlace, Offsets
  <2>7. InStep'
    <3>1. hdd'[d].cState = 2 /\ hdd'[d].cSector = s /\ hdd'[d].cPos = Moved + 1
      BY <1>1, <1>4, <1>8 DEF Drive, h
    <3> QED
      BY <1>1, <1>10, <2>2, <2>4, <2>5, <3>1 DEF InStep, WRITING
  <2>8. Content' = Content
    <3> SUFFICES ASSUME NEW b \in Devices \X Sectors PROVE Holds(b)' = Holds(b)
      BY ContentIs, ContentIsNext
    <3>1. b = <<b[1], b[2]>> /\ b[1] \in Devices /\ b[2] \in Sectors
      OBVIOUS
    <3>2. CASE b = <<d, s>>
      BY <1>1, <1>10, <2>1, <2>4, <3>2 DEF Holds
    <3>3. CASE b # <<d, s>>
      <4>1. SectorOf(data'[b[1]], b[2]) = SectorOf(data[b[1]], b[2])
        BY <1>6, <1>7, <3>1, <3>3
      <4> QED
        BY <1>1, <1>10, <2>4, <3>3, <4>1 DEF Holds
    <3> QED
      BY <3>2, <3>3
  <2> QED
    BY <1>10, <2>3, <2>6, <2>7, <2>8, QuietAllowed DEF AtaInv
<1>12. CASE Moved + 1 = SECTOR_WORDS
  <2>1. call' = Idle /\ old' = Idle.buf
    BY <1>12 DEF ataWriteDataBuffer
  <2>2. AtaTypeOK'
    BY <1>7, <1>8, <1>10, <2>1, IdleType DEF AtaInv, AtaTypeOK, Drive
  <2>3. TornAtOnePlace' /\ InStep'
    BY <2>1, IdleType DEF TornAtOnePlace, InStep
  <2>4. SectorOf(e, s) = call.buf
    <3>1. \A i \in Offsets : i < Moved + 1
      BY <1>12, AtaAssumption DEF Offsets
    <3> QED
      BY <1>1, <1>9, <3>1 DEF Buffer, Offsets
  <2>5. Content' = [Content EXCEPT ![<<d, s>>] = call.buf]
    <3> SUFFICES ASSUME NEW b \in Devices \X Sectors
                 PROVE  Holds(b)' = IF b = <<d, s>> THEN call.buf ELSE Holds(b)
      BY <1>1, ContentIs, ContentIsNext
    <3>1. b = <<b[1], b[2]>> /\ b[1] \in Devices /\ b[2] \in Sectors
      OBVIOUS
    <3>2. Holds(b)' = SectorOf(data'[b[1]], b[2])
      BY <1>1, <1>10, <2>1, IdleType DEF Holds
    <3>3. CASE b = <<d, s>>
      BY <1>7, <2>4, <3>2, <3>3
    <3>4. CASE b # <<d, s>>
      <4>1. SectorOf(data'[b[1]], b[2]) = SectorOf(data[b[1]], b[2])
        BY <1>6, <1>7, <3>1, <3>4
      <4> QED
        BY <1>1, <3>2, <3>4, <4>1 DEF Holds
    <3> QED
      BY <3>3, <3>4
  <2>6. ThePowerDisk!Use
    BY <1>1, <1>10, <2>5 DEF ThePowerDisk!Use, ThePowerDisk!DNext, ThePowerDisk!Put
  <2> QED
    BY <2>2, <2>3, <2>6 DEF Allowed, AtaInv
<1> QED
  BY <1>11, <1>12

\* A word of the sector is read from where the drive is; the last one completes
\* the read, and the Buffer then holds what the sector does.
LEMMA ReadAllowed ==
  ASSUME AtaInv, ataReadDataBuffer
  PROVE  Allowed
<1> DEFINE d == call.device
           s == call.sector
           h == hdd[call.device]
           filled == [call.buf EXCEPT ![Moved] = DataRead(d)]
<1>1. /\ up = TRUE /\ call.op = "read" /\ d \in Devices /\ s \in 0 .. SECTORS
      /\ call.step \in 3 .. SECTOR_WORDS + 2 /\ call.buf \in Buffer
      /\ h \in Drive /\ data[d] \in [Cells -> Words]
  BY CallType DEF ataReadDataBuffer, Busy
<1>2. Moved = call.step - 3 /\ Moved \in Offsets /\ Moved + 1 \in 0 .. SECTOR_WORDS
  BY <1>1, AtaAssumption DEF Moved, Offsets
<1>3. h.cState = 1 /\ h.cSector = s /\ h.cPos = IF s \in Sectors THEN Moved ELSE 0
  BY <1>1 DEF AtaInv, InStep, READING
<1>4. Reads(h) <=> s \in Sectors
  <2>1. CASE s \in Sectors
    BY <1>2, <1>3, <2>1, CellsApart, AtaAssumption DEF Reads, Cell, READING, Offsets
  <2>2. CASE s \notin Sectors
    <3>1. s = SECTORS /\ h.cPos = 0
      BY <1>1, <1>3, <2>2, AtaAssumption DEF Sectors
    <3>2. Cell(h) = SECTORS * SECTOR_WORDS /\ SECTORS * SECTOR_WORDS \in Nat
      BY <1>3, <3>1, AtaAssumption DEF Cell
    <3>3. Cell(h) \notin Cells
      <4> DEFINE n == SECTORS * SECTOR_WORDS
      <4>1. n \in Nat /\ Cell(h) = n
        BY <3>2
      <4> HIDE DEF n
      <4>2. n \notin 0 .. n - 1
        BY <4>1
      <4> QED
        BY <4>1, <4>2 DEF Cells, n
    <3> QED
      BY <2>2, <3>3 DEF Reads
  <2> QED
    BY <2>1, <2>2
<1>5. /\ DataRead(d) \in Words
      /\ s \in Sectors => DataRead(d) = SectorOf(data[d], s)[Moved]
  <2>1. CASE s \in Sectors
    <3>1. DataRead(d) = data[d][s * SECTOR_WORDS + Moved]
      BY <1>3, <1>4, <2>1 DEF DataRead, Cell
    <3> QED
      BY <1>1, <1>2, <2>1, <3>1, CellsApart DEF SectorOf, Offsets
  <2>2. CASE s \notin Sectors
    BY <1>4, <2>2, AtaAssumption DEF DataRead
  <2> QED
    BY <2>1, <2>2
<1>6. filled \in Buffer
  BY <1>1, <1>2, <1>5 DEF Buffer, Offsets
<1>7. s \in Sectors =>
        \A i \in Offsets : i < Moved + 1 => filled[i] = SectorOf(data[d], s)[i]
  <2>1. s \in Sectors => \A i \in Offsets : i < Moved => call.buf[i] = SectorOf(data[d], s)[i]
    BY <1>1 DEF AtaInv, InStep, Offsets
  <2>2. \A i \in Offsets : (i < Moved + 1) <=> (i < Moved \/ i = Moved)
    BY <1>2, AtaAssumption DEF Offsets
  <2>3. DOMAIN call.buf = Offsets
    BY <1>1 DEF Buffer, Offsets
  <2> QED
    BY <1>2, <1>5, <2>1, <2>2, <2>3
<1>8. /\ hdd' = [hdd EXCEPT ![d] = AfterRead(h)]
      /\ UNCHANGED <<up, data, image>>
  BY DEF ataReadDataBuffer
<1>9. /\ AfterRead(h) \in Drive
      /\ s \notin Sectors => AfterRead(h) = h
      /\ s \in Sectors /\ Moved + 1 # SECTOR_WORDS =>
           /\ AfterRead(h).cState = 1 /\ AfterRead(h).cSector = s
           /\ AfterRead(h).cPos = Moved + 1
  <2>1. CASE s \in Sectors
    <3>1. PICK n \in 0 .. SECTOR_WORDS, a \in -2 .. 2 :
            n = Moved + 1 /\ a = IF Moved + 1 = SECTOR_WORDS THEN 0 ELSE 1
      BY <1>2
    <3>2. AfterRead(h) = [h EXCEPT !.cPos = n, !.cState = a]
      BY <1>3, <1>4, <2>1, <3>1 DEF AfterRead
    <3>3. /\ AfterRead(h) \in Drive /\ AfterRead(h).cState = a
          /\ AfterRead(h).cSector = h.cSector /\ AfterRead(h).cPos = n
      <4> HIDE DEF h
      <4> QED
        BY <1>1, <3>2 DEF Drive
    <3> QED
      BY <1>3, <2>1, <3>1, <3>3
  <2>2. CASE s \notin Sectors
    BY <1>1, <1>4, <2>2 DEF AfterRead
  <2> QED
    BY <2>1, <2>2
<1>10. hdd' \in [Devices -> Drive] /\ hdd'[d] = AfterRead(h)
  BY <1>1, <1>8, <1>9 DEF AtaInv, AtaTypeOK, Drive
<1> HIDE DEF h, filled
<1>11. CASE Moved + 1 # SECTOR_WORDS
  <2>1. call' = [call EXCEPT !.step = @ + 1, !.buf = filled] /\ UNCHANGED <<seen, old>>
    BY <1>11 DEF ataReadDataBuffer, filled
  <2>2. call.step + 1 \in 3 .. SECTOR_WORDS + 2
    BY <1>1, <1>2, <1>11, AtaAssumption
  <2>3. AtaTypeOK'
    <3>1. PICK n \in 0 .. SECTOR_WORDS + 2 : n = call.step + 1
      BY <2>2, AtaAssumption
    <3>2. call' = [call EXCEPT !.step = n, !.buf = filled]
      BY <2>1, <3>1
    <3> QED
      BY <1>6, <1>8, <1>10, <2>1, <3>2 DEF AtaInv, AtaTypeOK, Drive
  <2>4. /\ call'.op = "read" /\ call'.device = d /\ call'.sector = s
        /\ call'.step = call.step + 1 /\ call'.buf = filled
    BY <1>1, <2>1 DEF AtaInv, AtaTypeOK
  <2>5. Moved' = Moved + 1
    BY <1>1, <1>2, <2>2, <2>4 DEF Moved
  <2>6. TornAtOnePlace'
    BY <2>4 DEF TornAtOnePlace
  <2>7. InStep'
    <3>1. /\ hdd'[d].cState = 1 /\ hdd'[d].cSector = s
          /\ hdd'[d].cPos = IF s \in Sectors THEN Moved + 1 ELSE 0
      BY <1>3, <1>9, <1>10, <1>11 DEF h
    <3>2. s \in Sectors =>
            \A i \in Offsets : i < Moved' => call'.buf[i] = SectorOf(data'[d], s)[i]
      BY <1>7, <1>8, <2>4, <2>5
    <3> QED
      BY <1>1, <1>8, <2>2, <2>4, <2>5, <3>1, <3>2 DEF InStep, READING, Offsets
  <2>8. Content' = Content
    BY <1>1, <1>8, <2>1, <2>4 DEF Content
  <2> QED
    BY <1>8, <2>1, <2>3, <2>6, <2>7, <2>8, QuietAllowed DEF AtaInv
<1>12. CASE Moved + 1 = SECTOR_WORDS
  <2>1. /\ call' = Idle /\ old' = Idle.buf
        /\ seen' = IF s \in Sectors THEN <<<<d, s>>, filled>> ELSE seen
    BY <1>12 DEF ataReadDataBuffer, filled
  <2>2. AtaTypeOK'
    BY <1>8, <1>10, <2>1, IdleType DEF AtaInv, AtaTypeOK, Drive
  <2>3. TornAtOnePlace' /\ InStep'
    BY <2>1, IdleType DEF TornAtOnePlace, InStep
  <2>4. Content' = Content
    BY <1>1, <1>8, <2>1, IdleType DEF Content
  <2>5. CASE s \in Sectors
    <3>1. filled = SectorOf(data[d], s)
      <4>1. \A i \in Offsets : i < Moved + 1
        BY <1>12, AtaAssumption DEF Offsets
      <4>2. SectorOf(data[d], s) \in Buffer
        BY <1>1, <2>5, SectorType
      <4>3. \A i \in Offsets : filled[i] = SectorOf(data[d], s)[i]
        BY <1>7, <2>5, <4>1
      <4>4. /\ filled = [i \in Offsets |-> filled[i]]
            /\ SectorOf(data[d], s) = [i \in Offsets |-> SectorOf(data[d], s)[i]]
        BY <1>6, <4>2 DEF Buffer, Offsets
      <4> HIDE DEF d, s
      <4> QED
        BY <4>3, <4>4
    <3>2. <<d, s>> \in Devices \X Sectors /\ Content[<<d, s>>] = filled
      BY <1>1, <2>5, <3>1 DEF Content
    <3>3. ThePowerDisk!Get(<<d, s>>)
      BY <2>1, <2>4, <2>5, <3>2 DEF ThePowerDisk!Get
    <3>4. ThePowerDisk!Use
      BY <1>8, <3>2, <3>3 DEF ThePowerDisk!Use, ThePowerDisk!DNext
    <3> QED
      BY <2>2, <2>3, <3>4 DEF Allowed, AtaInv
  <2>6. CASE s \notin Sectors
    BY <1>8, <2>1, <2>2, <2>3, <2>4, <2>6, QuietAllowed DEF AtaInv
  <2> QED
    BY <2>5, <2>6
<1> QED
  BY <1>11, <1>12

\* Between calls, and while the machine is off, drive and driver are in step.
LEMMA QuietInv ==
  ASSUME AtaTypeOK', call' = Idle
  PROVE  AtaInv'
BY IdleType DEF AtaInv, TornAtOnePlace, InStep

\* The image of every block.
Kept == [b \in Devices \X Sectors |-> SectorOf(image[b[1]], b[2])]

\* SIGINT: the images hold everything but the sector being written, which is torn
\* where the driver was.
LEMMA TerminateAllowed ==
  ASSUME AtaInv, terminate
  PROVE  Allowed
<1>1. /\ up = TRUE /\ up' = FALSE /\ image' = data /\ call' = Idle /\ old' = Idle.buf
      /\ UNCHANGED <<hdd, data, seen>>
  BY DEF terminate, AtaInv, AtaTypeOK
<1>2. AtaInv'
  BY <1>1, IdleType, QuietInv DEF AtaInv, AtaTypeOK
<1>3. Content' = Kept'
  BY <1>1 DEF Content, Kept
<1>4. \A b \in Devices \X Sectors : Kept'[b] = SectorOf(data[b[1]], b[2])
  BY <1>1 DEF Kept
<1>5. \A b \in Devices \X Sectors : SectorOf(data[b[1]], b[2]) \in Buffer
  BY SectorType DEF AtaInv, AtaTypeOK
<1>6. PICK x \in Devices \X Sectors :
        \A b \in Devices \X Sectors : b # x => Holds(b) = SectorOf(data[b[1]], b[2])
  <2>1. CASE call.op = "write"
    <3>1. <<call.device, call.sector>> \in Devices \X Sectors
      BY <2>1 DEF AtaInv, AtaTypeOK, InStep
    <3>2. \A b \in Devices \X Sectors :
            b # <<call.device, call.sector>> => Holds(b) = SectorOf(data[b[1]], b[2])
      BY <1>1 DEF Holds
    <3> QED
      BY <3>1, <3>2
  <2>2. CASE call.op # "write"
    <3>1. <<0, 0>> \in Devices \X Sectors
      BY AtaAssumption DEF Sectors
    <3>2. \A b \in Devices \X Sectors : Holds(b) = SectorOf(data[b[1]], b[2])
      BY <1>1, <2>2 DEF Holds
    <3> QED
      BY <3>1, <3>2
  <2> QED
    BY <2>1, <2>2
<1>7. PICK v \in Buffer : v = SectorOf(data[x[1]], x[2])
  BY <1>5
<1>8. Content' = [Content EXCEPT ![x] = v]
  <2>1. \A b \in Devices \X Sectors : Kept'[b] = IF b = x THEN v ELSE Holds(b)
    BY <1>4, <1>6, <1>7
  <2>2. Kept' = [b \in Devices \X Sectors |-> Kept'[b]]
    BY DEF Kept
  <2> QED
    BY <1>3, <2>1, <2>2, ContentIs
<1>9. ThePowerDisk!Stop
  BY <1>1, <1>3, <1>8 DEF ThePowerDisk!Stop, Kept
<1> QED
  BY <1>2, <1>9 DEF Allowed

\* An MMU fault: what was written since the last start is lost.
LEMMA FaultAllowed ==
  ASSUME AtaInv, faultExit
  PROVE  Allowed
<1>1. /\ up' = FALSE /\ call' = Idle /\ old' = Idle.buf
      /\ UNCHANGED <<hdd, data, image, seen>>
  BY DEF faultExit
<1>2. AtaInv'
  BY <1>1, IdleType, QuietInv DEF AtaInv, AtaTypeOK
<1>3. Content' = Kept
  BY <1>1 DEF Content, Kept
<1>4. ThePowerDisk!Lose
  BY <1>1, <1>3 DEF ThePowerDisk!Lose, Kept
<1> QED
  BY <1>2, <1>4 DEF Allowed

\* A drive that has been reset.
LEMMA ResetType == [d \in Devices |-> Command(Fresh, "reset")] \in [Devices -> Drive]
<1>1. Fresh \in Drive
  BY AtaAssumption DEF Fresh, Drive
<1> QED
  BY <1>1 DEF Command

\* The next simulator finds what the images hold.
LEMMA StartAllowed ==
  ASSUME AtaInv, start
  PROVE  Allowed
<1>1. /\ up = FALSE /\ up' = TRUE /\ data' = image
      /\ hdd' = [d \in Devices |-> Command(Fresh, "reset")]
      /\ UNCHANGED <<image, call, seen, old>>
  BY DEF start, AtaInv, AtaTypeOK
<1>2. call = Idle
  BY <1>1 DEF AtaInv, InStep
<1>3. AtaInv'
  BY <1>1, <1>2, ResetType, QuietInv DEF AtaInv, AtaTypeOK, Drive
<1>4. Content' = Content
  BY <1>1, <1>2, IdleType DEF Content
<1> QED
  BY <1>1, <1>3, <1>4, QuietAllowed

\* The first start, with drives of zeros.
LEMMA InitAllowed == AtaInit => AtaInv /\ ThePowerDisk!PInit
<1> SUFFICES ASSUME AtaInit PROVE AtaInv /\ ThePowerDisk!PInit
  OBVIOUS
<1>1. AtaInv
  BY ResetType, IdleType, AtaAssumption
  DEF AtaInit, AtaInv, AtaTypeOK, TornAtOnePlace, InStep, Drive
<1>2. \A d \in Devices, s \in Sectors :
        SectorOf(data[d], s) = Idle.buf /\ SectorOf(image[d], s) = Idle.buf
  <2> SUFFICES ASSUME NEW d \in Devices, NEW s \in Sectors
               PROVE  SectorOf([c \in Cells |-> 0], s) = Idle.buf
    BY DEF AtaInit
  <2>1. \A i \in Offsets : s * SECTOR_WORDS + i \in Cells
    BY CellsApart
  <2> QED
    BY <2>1 DEF SectorOf, Idle, Offsets
<1>3. \A b \in Devices \X Sectors : b[1] \in Devices /\ b[2] \in Sectors
  OBVIOUS
<1>4. /\ Content = [b \in Devices \X Sectors |-> Idle.buf]
      /\ Kept = [b \in Devices \X Sectors |-> Idle.buf]
  BY <1>2, <1>3, IdleType DEF AtaInit, Content, Kept
<1> QED
  BY <1>1, <1>4 DEF AtaInit, Kept, ThePowerDisk!PInit, ThePowerDisk!DInit

\* Every step of the driver, the drives and the simulator.
LEMMA NextAllowed == AtaInv /\ [AtaNext]_ataVars => Allowed
<1> SUFFICES ASSUME AtaInv, [AtaNext]_ataVars PROVE Allowed
  OBVIOUS
<1>1. CASE ataReadSectorsLBA
  <2>1. PICK d \in Devices, s \in 0 .. SECTORS : Begin("read", d, s, Idle.buf)
    BY <1>1 DEF ataReadSectorsLBA
  <2> QED
    BY <2>1, IdleType, BeginAllowed
<1>2. CASE ataWriteSectorsLBA
  <2>1. PICK d \in Devices, s \in Sectors, buf \in Buffer : Begin("write", d, s, buf)
    BY <1>2 DEF ataWriteSectorsLBA
  <2>2. s \in 0 .. SECTORS
    BY AtaAssumption DEF Sectors
  <2> QED
    BY <2>1, <2>2, BeginAllowed
<1>3. CASE UNCHANGED ataVars
  <2>1. Content' = Content /\ seen' = seen /\ image' = image
    BY <1>3 DEF ataVars, Content
  <2>2. AtaInv'
    BY <1>3 DEF ataVars, AtaInv, AtaTypeOK, TornAtOnePlace, InStep, Moved
  <2> QED
    BY <2>1, <2>2, QuietAllowed
<1> QED
  BY <1>1, <1>2, <1>3, CommandAllowed, SectorAllowed, WriteAllowed, ReadAllowed,
     TerminateAllowed, FaultAllowed, StartAllowed DEF AtaNext

-----------------------------------------------------------------------------
(* Theorems                                                                *)

\* The driver and the drive stay in step at every port access: what a write has
\* stored is the words sent so far, what a read has fetched is what the sector
\* holds, and the drive never points past the sector it was asked for.
THEOREM AtaInvariant == AtaSpec => []AtaInv
<1>1. AtaInit => AtaInv
  BY InitAllowed
<1>2. AtaInv /\ [AtaNext]_ataVars => AtaInv'
  BY NextAllowed DEF Allowed
<1> QED
  BY <1>1, <1>2, PTL DEF AtaSpec

\* The driver and the drives implement the disk that survives power cycles.
THEOREM AtaIsPowerDisk == AtaSpec => IsPowerDisk
<1>1. AtaInit => ThePowerDisk!PInit
  BY InitAllowed
<1>2. AtaInv /\ [AtaNext]_ataVars =>
        [ThePowerDisk!Use \/ ThePowerDisk!Stop \/ ThePowerDisk!Lose]_(ThePowerDisk!pvars)
  BY NextAllowed DEF Allowed
<1> QED
  BY <1>1, <1>2, AtaInvariant, PTL DEF AtaSpec, IsPowerDisk, ThePowerDisk!PSpec

-----------------------------------------------------------------------------
(* The file system: its sizes                                              *)

Ks == 0 .. DIRECT_INDEXES_CNT + INDEXES * ENTRIES - 1
Offs == 0 .. (DIRECT_INDEXES_CNT + INDEXES * ENTRIES) * UNITS - 1
IndexSlots == DIRECT_INDEXES_CNT .. DIRECT_INDEXES_CNT + INDEXES - 1
Es == 0 .. ENTRIES - 1
Us == 0 .. UNITS - 1

-----------------------------------------------------------------------------
(* Quotients                                                               *)

\* A number is its quotient and its remainder.
LEMMA Division ==
  ASSUME NEW a \in Nat, NEW d \in Nat \ {0}
  PROVE  /\ a \div d \in Nat /\ a % d \in 0 .. d - 1
         /\ a = d * (a \div d) + (a % d)
<1>1. d \in Int /\ d > 0 /\ a \in Int
  OBVIOUS
<1>2. a = d * (a \div d) + (a % d)
  BY <1>1, Z3
<1>3. a \div d \in Nat /\ a % d \in 0 .. d - 1
  BY <1>1, Z3
<1> QED
  BY <1>2, <1>3

\* Products grow with their factors.
LEMMA Products ==
  ASSUME NEW d \in Nat \ {0}, NEW a \in Nat, NEW b \in Nat, a < b
  PROVE  /\ d * a \in Nat /\ d * b \in Nat /\ d * a + d <= d * b
<1>1. d * a \in Nat /\ d * b \in Nat
  OBVIOUS
<1>2. PICK c \in Nat : b = a + 1 + c
  <2>1. b - a - 1 \in Nat /\ b = a + 1 + (b - a - 1)
    OBVIOUS
  <2> QED
    BY <2>1
<1>3. d * b = d * a + d + d * c /\ d * c \in Nat
  BY <1>2
<1> QED
  BY <1>1, <1>3

\* Numbers with the same quotient and the same remainder are the same, and a
\* number below a multiple has a quotient below the factor.
LEMMA Quotients ==
  ASSUME NEW d \in Nat \ {0}, NEW a \in Nat
  PROVE  /\ \A b \in Nat : a \div d = b \div d /\ a % d = b % d => a = b
         /\ \A m \in Nat : a < d * m => a \div d < m
         /\ \A m \in Nat : (d * m) \div d = m
<1> DEFINE q == a \div d
           r == a % d
<1>1. q \in Nat /\ r \in 0 .. d - 1 /\ a = d * q + r
  BY Division
<1>2. ASSUME NEW b \in Nat, q = b \div d, r = b % d PROVE a = b
  <2>1. b = d * (b \div d) + (b % d)
    BY Division
  <2> QED
    BY <1>1, <1>2, <2>1
<1> HIDE DEF q, r
<1>3. ASSUME NEW m \in Nat, a < d * m PROVE q < m
  <2>1. CASE q < m
    BY <2>1
  <2>2. CASE q = m
    <3>1. d * q = d * m
      BY <2>2
    <3>2. d * q \in Nat
      BY <1>1
    <3> QED
      BY <1>1, <1>3, <3>1, <3>2
  <2>3. CASE m < q
    <3>1. d * m \in Nat /\ d * q \in Nat /\ d * m + d <= d * q
      BY <1>1, <2>3, Products
    <3> QED
      BY <1>1, <1>3, <3>1
  <2> QED
    BY <1>1, <2>1, <2>2, <2>3
<1>4. ASSUME NEW m \in Nat PROVE (d * m) \div d = m
  <2> DEFINE b == d * m
             p == b \div d
             s == b % d
  <2>1. b \in Nat
    OBVIOUS
  <2>2. p \in Nat /\ s \in 0 .. d - 1 /\ b = d * p + s
    <3> HIDE DEF b
    <3> QED
      BY <2>1, Division
  <2> HIDE DEF p, s
  <2>3. CASE p < m
    <3>1. d * p \in Nat /\ b \in Nat /\ d * p + d <= b
      BY <2>2, <2>3, Products
    <3> QED
      BY <2>2, <3>1
  <2>4. CASE m < p
    <3>1. d * p \in Nat /\ b \in Nat /\ b + d <= d * p
      BY <2>2, <2>4, Products
    <3> QED
      BY <2>2, <3>1
  <2> QED
    BY <2>2, <2>3, <2>4 DEF p
<1> QED
  BY <1>2, <1>3, <1>4 DEF q, r

-----------------------------------------------------------------------------
(* Offsets, blocks and places                                              *)

\* Where the number of a block stands: the inode, its slot and, in an index
\* block, the entry.
Place(n, i, e) == <<n, i, e>>
Self(n) == Place(n, -1, -1)
PlaceOf(n, k) == IF IsDirect(k) THEN Place(n, k, -1) ELSE Place(n, SlotOf(k), EntryOf(k))
Free == Place(-1, -1, -1)

LEMMA Sizings ==
  /\ ROOT \in Nat \ {0} /\ BLOCKS \in Nat /\ BLOCKS > ROOT + 1
  /\ UNITS \in Nat \ {0} /\ DIRECT_INDEXES_CNT \in Nat \ {0}
  /\ INDEXES \in Nat /\ ENTRIES \in Nat \ {0}
  /\ INDEXES * ENTRIES \in Nat
<1>1. INDEXES \in Nat /\ ENTRIES \in Nat
  BY RlFsAssumption
<1>2. INDEXES * ENTRIES \in Nat
  BY <1>1
<1> QED
  BY <1>2, RlFsAssumption, Zenon

LEMMA OffsetParts ==
  ASSUME NEW off \in Offs
  PROVE  off \in Nat /\ off \div UNITS \in Ks /\ off % UNITS \in Us
<1> DEFINE m == DIRECT_INDEXES_CNT + INDEXES * ENTRIES
<1>1. UNITS \in Nat \ {0} /\ DIRECT_INDEXES_CNT \in Nat /\ INDEXES \in Nat /\ ENTRIES \in Nat
  BY Sizings
<1>2. m \in Nat
  BY <1>1, Sizings
<1>3. off \in 0 .. m * UNITS - 1
  BY DEF Offs
<1>4. Ks = 0 .. m - 1
  <2> DEFINE p == INDEXES * ENTRIES
  <2>1. Ks = 0 .. DIRECT_INDEXES_CNT + p - 1 /\ m = DIRECT_INDEXES_CNT + p
    BY Zenon DEF Ks
  <2>2. p \in Nat
    BY Sizings
  <2> HIDE DEF p, m
  <2> QED
    BY <1>1, <2>1, <2>2
<1> HIDE DEF m
<1>5. m * UNITS = UNITS * m /\ UNITS * m \in Nat
  BY <1>1, <1>2
<1>6. off \in Nat /\ off < UNITS * m
  BY <1>3, <1>5
<1>7. off \div UNITS < m
  BY <1>1, <1>2, <1>6, Quotients
<1>8. off \div UNITS \in Nat /\ off % UNITS \in 0 .. UNITS - 1
  BY <1>1, <1>6, Division
<1>9. off \div UNITS \in 0 .. m - 1
  BY <1>2, <1>7, <1>8
<1> QED
  BY <1>4, <1>6, <1>8, <1>9 DEF Us

LEMMA OffsetsDown ==
  /\ Offs \subseteq Nat
  /\ \A x \in Offs, y \in Nat : y <= x => y \in Offs
<1> DEFINE m == (DIRECT_INDEXES_CNT + INDEXES * ENTRIES) * UNITS
<1>1. m \in Nat
  <2>1. INDEXES * ENTRIES \in Nat /\ DIRECT_INDEXES_CNT \in Nat /\ UNITS \in Nat
    BY Sizings
  <2>2. \A a \in Nat : (DIRECT_INDEXES_CNT + a) * UNITS \in Nat
    BY <2>1
  <2> QED
    BY <2>1, <2>2, Zenon
<1>2. Offs = 0 .. m - 1
  BY Zenon DEF Offs
<1> HIDE DEF m
<1> QED
  BY <1>1, <1>2

LEMMA OffsetsApart ==
  ASSUME NEW x \in Offs, NEW y \in Offs, x \div UNITS = y \div UNITS, x % UNITS = y % UNITS
  PROVE  x = y
BY OffsetParts, Quotients, Sizings

LEMMA SlotSets ==
  /\ IndexSlots \subseteq Slots /\ Slots \subseteq Nat /\ Es \subseteq Nat /\ Ks \subseteq Nat
  /\ 0 \in Slots \ IndexSlots /\ 0 \in Ks /\ 0 \in Us
<1> DEFINE m == INDEXES * ENTRIES
<1>1. Ks = 0 .. DIRECT_INDEXES_CNT + m - 1
  BY Zenon DEF Ks
<1>2. /\ m \in Nat /\ UNITS \in Nat \ {0} /\ DIRECT_INDEXES_CNT \in Nat \ {0}
      /\ INDEXES \in Nat /\ ENTRIES \in Nat \ {0}
  BY Sizings
<1> HIDE DEF m
<1> QED
  BY <1>1, <1>2 DEF IndexSlots, Slots, Es, Us

\* Every block of an inode has a slot, and one behind the direct ones an entry.
LEMMA BlockPlaces ==
  ASSUME NEW k \in Ks
  PROVE  /\ IsDirect(k) => SlotOf(k) = k /\ k \in Slots \ IndexSlots
         /\ ~IsDirect(k) => SlotOf(k) \in IndexSlots /\ EntryOf(k) \in Es
         /\ SlotOf(k) \in Slots
<1> DEFINE m == INDEXES * ENTRIES
           j == k - DIRECT_INDEXES_CNT
<1>1. /\ DIRECT_INDEXES_CNT \in Nat /\ INDEXES \in Nat /\ ENTRIES \in Nat \ {0}
      /\ m \in Nat
  BY Sizings
<1>5. m = ENTRIES * INDEXES
  BY <1>1
<1>2. k \in 0 .. DIRECT_INDEXES_CNT + m - 1
  BY DEF Ks
<1> HIDE DEF m
<1>3. CASE IsDirect(k)
  BY <1>1, <1>2, <1>3 DEF IsDirect, SlotOf, Slots, IndexSlots
<1>4. CASE ~IsDirect(k)
  <2>1. j \in Nat /\ j < ENTRIES * INDEXES
    BY <1>1, <1>2, <1>4, <1>5 DEF IsDirect
  <2> HIDE DEF j
  <2>2. j \div ENTRIES < INDEXES /\ j \div ENTRIES \in Nat /\ j % ENTRIES \in 0 .. ENTRIES - 1
    BY <1>1, <2>1, Quotients, Division
  <2>3. SlotOf(k) = DIRECT_INDEXES_CNT + (j \div ENTRIES) /\ EntryOf(k) = j % ENTRIES
    BY <1>4 DEF j, SlotOf, EntryOf
  <2> QED
    BY <1>1, <1>4, <2>2, <2>3 DEF IndexSlots, Slots, Es
<1> QED
  BY <1>3, <1>4

\* No two blocks of inodes have the same place.
LEMMA PlacesApart ==
  ASSUME NEW k \in Ks, NEW j \in Ks, NEW n, NEW m, PlaceOf(n, k) = PlaceOf(m, j)
  PROVE  n = m /\ k = j
<1>1. /\ DIRECT_INDEXES_CNT \in Nat /\ ENTRIES \in Nat \ {0} /\ k \in Nat /\ j \in Nat
  BY Sizings, SlotSets
<1>2. /\ IsDirect(k) => PlaceOf(n, k) = Place(n, k, -1)
      /\ ~IsDirect(k) => PlaceOf(n, k) = Place(n, SlotOf(k), EntryOf(k)) /\ EntryOf(k) \in Nat
      /\ IsDirect(j) => PlaceOf(m, j) = Place(m, j, -1)
      /\ ~IsDirect(j) => PlaceOf(m, j) = Place(m, SlotOf(j), EntryOf(j)) /\ EntryOf(j) \in Nat
  BY BlockPlaces, SlotSets DEF PlaceOf
<1>3. CASE IsDirect(k) \/ IsDirect(j)
  BY <1>2, <1>3 DEF Place
<1>4. CASE ~IsDirect(k) /\ ~IsDirect(j)
  <2> DEFINE a == k - DIRECT_INDEXES_CNT
             b == j - DIRECT_INDEXES_CNT
  <2>1. a \in Nat /\ b \in Nat
    BY <1>1, <1>4 DEF IsDirect
  <2>2. n = m /\ SlotOf(k) = SlotOf(j) /\ EntryOf(k) = EntryOf(j)
    BY <1>2, <1>4 DEF Place
  <2>3. /\ SlotOf(k) = DIRECT_INDEXES_CNT + (a \div ENTRIES) /\ EntryOf(k) = a % ENTRIES
        /\ SlotOf(j) = DIRECT_INDEXES_CNT + (b \div ENTRIES) /\ EntryOf(j) = b % ENTRIES
    BY <1>4 DEF SlotOf, EntryOf
  <2> HIDE DEF a, b
  <2>4. a \div ENTRIES \in Nat /\ b \div ENTRIES \in Nat
    BY <1>1, <2>1, Division
  <2>7. \A u, v \in Nat : DIRECT_INDEXES_CNT + u = DIRECT_INDEXES_CNT + v => u = v
    BY <1>1
  <2>5. a \div ENTRIES = b \div ENTRIES /\ a % ENTRIES = b % ENTRIES
    BY <2>2, <2>3, <2>4, <2>7, Zenon
  <2>6. a = b
    BY <1>1, <2>1, <2>5, Quotients
  <2> QED
    BY <1>1, <2>2, <2>6 DEF a, b
<1> QED
  BY <1>3, <1>4

-----------------------------------------------------------------------------
(* What lies on a disk D with the blocks M marked                          *)

Ix(D, n, i) == D[n].index[i]
To(D, b, e) == D[b].to[e]

\* The k-th block of an inode and its units.
At(D, n, k) ==
  IF IsDirect(k) \/ Ix(D, n, SlotOf(k)) = 0 THEN Ix(D, n, SlotOf(k))
  ELSE To(D, Ix(D, n, SlotOf(k)), EntryOf(k))
UnitIn(D, n, off) == UnitsOf(D[At(D, n, off \div UNITS)])[off % UNITS]

IsNode(c) ==
  /\ c = [mode |-> c.mode, size |-> c.size, index |-> c.index]
  /\ c.mode \in {"REG", "DIR", "DEV"} /\ c.size \in Nat /\ c.index \in [Slots -> Blocks]
IsIndex(c) == c = [to |-> c.to] /\ c.to \in [Es -> Blocks]
HasUnits(c) == UnitsOf(c) = [u \in Us |-> UnitsOf(c)[u]]

\* The reserved blocks are marked, and block 0 was never written.
Formatted(M, D) ==
  /\ M \subseteq Blocks /\ 0 .. ROOT \subseteq M
  /\ D = [b \in Blocks |-> D[b]]
  /\ \A b \in Blocks : HasUnits(D[b])
  /\ UnitsOf(D[0]) = [u \in Us |-> Junk]

\* own says for each block where its number stands.  A block that is not marked
\* stands nowhere.
Owned(M, own) ==
  /\ own = [b \in Blocks |-> own[b]]
  /\ \A b \in Blocks : own[b] # Free => b \in M /\ b >= ROOT

\* Inode n and the numbers in it and in its index blocks.
Owns(D, own, n) ==
  /\ IsNode(D[n]) /\ own[n] = Self(n)
  /\ \A i \in Slots : Ix(D, n, i) # 0 => own[Ix(D, n, i)] = Place(n, i, -1)
  /\ \A i \in IndexSlots : Ix(D, n, i) # 0 =>
       /\ IsIndex(D[Ix(D, n, i)])
       /\ \A e \in Es : To(D, Ix(D, n, i), e) # 0 =>
            own[To(D, Ix(D, n, i), e)] = Place(n, i, e)
  /\ D[n].mode = "DEV" => \A i \in Slots : Ix(D, n, i) = 0

\* N are the inodes in use.
Layout(M, D, N, own) ==
  /\ Formatted(M, D) /\ Owned(M, own)
  /\ N \subseteq Blocks /\ ROOT \in N /\ D[ROOT].mode = "DIR"
  /\ \A n \in N : Owns(D, own, n)

\* From D to E inodes get blocks and lose none.
Grows(D, E, N) ==
  \A m \in N :
    /\ E[m].mode = D[m].mode /\ E[m].size = D[m].size
    /\ \A k \in Ks : At(D, m, k) # 0 =>
         At(E, m, k) = At(D, m, k) /\ E[At(D, m, k)] = D[At(D, m, k)]

LEMMA PlacesDiffer ==
  /\ \A n, i, e, m, j, g : Place(n, i, e) = Place(m, j, g) <=> n = m /\ i = j /\ e = g
  /\ \A n \in Nat : \A i, e : Place(n, i, e) # Free
  /\ \A n, m, e : \A i \in Slots : Place(n, i, e) # Self(m)
  /\ \A n \in Nat : Self(n) # Free
<1>1. Slots \subseteq Nat
  BY SlotSets
<1> QED
  BY <1>1 DEF Place, Self, Free

\* The block at a place is owned by it.
LEMMA AtOwned ==
  ASSUME NEW M, NEW D, NEW N, NEW own, Layout(M, D, N, own),
         NEW n \in N, NEW k \in Ks
  PROVE  /\ At(D, n, k) \in Blocks
         /\ At(D, n, k) # 0 => /\ own[At(D, n, k)] = PlaceOf(n, k)
                               /\ Ix(D, n, SlotOf(k)) # 0
         /\ Ix(D, n, SlotOf(k)) \in Blocks
         /\ 0 \in Blocks
<1>1. Owns(D, own, n)
  BY DEF Layout
<1>2. IsDirect(k) => SlotOf(k) = k /\ k \in Slots
  BY BlockPlaces
<1>3. ~IsDirect(k) => SlotOf(k) \in IndexSlots /\ SlotOf(k) \in Slots /\ EntryOf(k) \in Es
  BY BlockPlaces, SlotSets
<1>4. SlotOf(k) \in Slots
  BY <1>2, <1>3
<1>5. Ix(D, n, SlotOf(k)) \in Blocks
  BY <1>1, <1>4 DEF Owns, IsNode, Ix
<1>6. 0 \in Blocks
  BY Sizings DEF Blocks
<1>7. CASE IsDirect(k) \/ Ix(D, n, SlotOf(k)) = 0
  BY <1>1, <1>2, <1>5, <1>6, <1>7 DEF At, PlaceOf, Owns
<1>8. CASE ~IsDirect(k) /\ Ix(D, n, SlotOf(k)) # 0
  <2>1. At(D, n, k) = To(D, Ix(D, n, SlotOf(k)), EntryOf(k))
    BY <1>8 DEF At
  <2>2. IsIndex(D[Ix(D, n, SlotOf(k))])
    BY <1>1, <1>3, <1>8 DEF Owns
  <2>3. At(D, n, k) \in Blocks
    BY <1>3, <1>8, <2>1, <2>2 DEF IsIndex, To
  <2> QED
    BY <1>1, <1>3, <1>5, <1>6, <1>8, <2>1, <2>3 DEF Owns, PlaceOf
<1> QED
  BY <1>7, <1>8

\* Inodes in use are marked and not reserved.
LEMMA Inodes ==
  ASSUME NEW M, NEW D, NEW N, NEW own, Layout(M, D, N, own), NEW n \in N
  PROVE  /\ n \in Nat /\ n \in Blocks /\ n \in M /\ n >= ROOT /\ n # 0
         /\ own[n] = Self(n) /\ own[n] # Free /\ IsNode(D[n]) /\ Owns(D, own, n)
<1>1. Blocks \subseteq Nat /\ ROOT \in Nat \ {0}
  BY Sizings DEF Blocks
<1>2. n \in Blocks /\ own[n] = Self(n) /\ IsNode(D[n]) /\ Owns(D, own, n)
  BY DEF Layout, Owns
<1>3. own[n] # Free
  BY <1>1, <1>2, PlacesDiffer
<1>4. n \in M /\ n >= ROOT
  BY <1>2, <1>3 DEF Layout, Owned
<1> QED
  BY <1>1, <1>2, <1>3, <1>4

\* A block that is not marked is no inode, stands nowhere and is not reserved.
LEMMA FreshBlock ==
  ASSUME NEW M, NEW D, NEW N, NEW own, Layout(M, D, N, own), NEW b \in Blocks \ M
  PROVE  /\ b \in Nat /\ b >= ROOT /\ b # 0 /\ own[b] = Free /\ b \notin N
         /\ ROOT \in Nat \ {0} /\ N \subseteq Nat /\ N \subseteq M /\ 0 \notin N
<1>1. Blocks \subseteq Nat /\ ROOT \in Nat \ {0}
  BY Sizings DEF Blocks
<1>2. own[b] = Free
  BY DEF Layout, Owned
<1>3. b \in Nat /\ b \notin 0 .. ROOT
  BY <1>1 DEF Layout, Formatted
<1>4. \A n \in N : n \in Nat /\ n \in M /\ n # 0
  BY Inodes
<1>5. b >= ROOT /\ b # 0
  BY <1>1, <1>3
<1> QED
  BY <1>1, <1>2, <1>3, <1>4, <1>5

\* E is D when block b was given slot s of inode n, entry e of index block c, when
\* unit r of block b was stored, n got a size and b became an empty inode.
Maps(E) == E = [x \in Blocks |-> E[x]]
SlotSet(D, E, n, s, b) ==
  /\ Maps(E) /\ E[n] = [D[n] EXCEPT !.index = [D[n].index EXCEPT ![s] = b]]
  /\ \A x \in Blocks \ {n, b} : E[x] = D[x]
  /\ s \in IndexSlots => E[b] = Index([e \in Es |-> 0])
  /\ s \notin IndexSlots => E[b] = D[b]
EntrySet(D, E, c, e, b) ==
  /\ Maps(E) /\ E[c] = [D[c] EXCEPT !.to = [D[c].to EXCEPT ![e] = b]]
  /\ \A x \in Blocks \ {c} : E[x] = D[x]
UnitSet(D, E, b, r, v) ==
  /\ Maps(E) /\ E[b] = Units([UnitsOf(D[b]) EXCEPT ![r] = v])
  /\ \A x \in Blocks \ {b} : E[x] = D[x]
SizeSet(D, E, n, s) ==
  /\ Maps(E) /\ E[n] = [D[n] EXCEPT !.size = s]
  /\ \A x \in Blocks \ {n} : E[x] = D[x]
NodeSet(D, E, b, mode) ==
  /\ Maps(E) /\ E[b] = Node(mode, 0)
  /\ \A x \in Blocks \ {b} : E[x] = D[x]
Given(own, b, p) == [own EXCEPT ![b] = p]

\* Inodes N are as they were, and so are their blocks and units.
Untouched(D, E, N) ==
  /\ \A m \in N : E[m] = D[m]
  /\ \A m \in N, k \in Ks : At(E, m, k) = At(D, m, k)
  /\ \A m \in N, x \in Offs : UnitIn(E, m, x) = UnitIn(D, m, x)

\* Inode n gets block b in slot s: a block of its own, or a clear index block.
LEMMA NewSlot ==
  ASSUME NEW M, NEW D, NEW N, NEW own, Layout(M, D, N, own),
         NEW n \in N, D[n].mode # "DEV", NEW s \in Slots, Ix(D, n, s) = 0,
         NEW b \in Blocks \ M,
         NEW E, SlotSet(D, E, n, s, b)
  PROVE  /\ Layout(M \cup {b}, E, N, Given(own, b, Place(n, s, -1)))
         /\ Grows(D, E, N)
         /\ Ix(E, n, s) = b
         /\ \A k \in Ks : SlotOf(k) = s => At(E, n, k) = IF IsDirect(k) THEN b ELSE 0
<1> DEFINE own2 == [own EXCEPT ![b] = Place(n, s, -1)]
<1>0. /\ E = [x \in Blocks |-> E[x]]
      /\ E[n] = [D[n] EXCEPT !.index = [D[n].index EXCEPT ![s] = b]]
      /\ \A x \in Blocks \ {n, b} : E[x] = D[x]
      /\ s \in IndexSlots => E[b] = Index([e \in Es |-> 0])
      /\ s \notin IndexSlots => E[b] = D[b]
  BY DEF SlotSet, Maps
<1>1. /\ b \in Nat /\ b >= ROOT /\ b # 0 /\ own[b] = Free /\ b \notin N
      /\ ROOT \in Nat \ {0} /\ N \subseteq Nat /\ N \subseteq M /\ 0 \notin N
  BY FreshBlock
<1>2. \A m \in N : Owns(D, own, m) /\ m \in Blocks
  BY DEF Layout
<1>3. Formatted(M, D) /\ Owned(M, own) /\ ROOT \in N /\ D[ROOT].mode = "DIR" /\ N \subseteq Blocks
  BY DEF Layout
<1>4. IsNode(D[n])
  BY <1>2 DEF Owns
<1>5. /\ IsNode(E[n]) /\ E[n].mode = D[n].mode /\ E[n].size = D[n].size
      /\ E[n].index = [D[n].index EXCEPT ![s] = b]
  BY <1>0, <1>4 DEF IsNode
<1>6. \A m \in N : IsNode(E[m]) /\ E[m].mode = D[m].mode /\ E[m].size = D[m].size
  BY <1>0, <1>1, <1>2, <1>5 DEF Owns
<1>7. \A m \in N, i \in Slots : Ix(E, m, i) = IF m = n /\ i = s THEN b ELSE Ix(D, m, i)
  <2> SUFFICES ASSUME NEW m \in N, NEW i \in Slots
               PROVE  Ix(E, m, i) = IF m = n /\ i = s THEN b ELSE Ix(D, m, i)
    OBVIOUS
  <2>1. CASE m = n
    BY <1>4, <1>5, <2>1 DEF Ix, IsNode
  <2>2. CASE m # n
    BY <1>0, <1>1, <1>2, <2>2 DEF Ix
  <2> QED
    BY <2>1, <2>2
<1>8. \A x \in Blocks : own[x] # Free => x # b /\ own2[x] = own[x]
  BY <1>1, <1>3 DEF Owned
<1>9. own2[b] = Place(n, s, -1) /\ own2 = [x \in Blocks |-> own2[x]]
  BY <1>3 DEF Owned
<1> HIDE DEF own2
\* What an inode has stays where it is.
<1>10. \A m \in N, i \in Slots :
          Ix(D, m, i) # 0 => /\ Ix(D, m, i) \in Blocks \ {n, b}
                             /\ own[Ix(D, m, i)] = Place(m, i, -1)
                             /\ own2[Ix(D, m, i)] = Place(m, i, -1)
                             /\ E[Ix(D, m, i)] = D[Ix(D, m, i)]
  <2> SUFFICES ASSUME NEW m \in N, NEW i \in Slots, Ix(D, m, i) # 0
               PROVE  /\ Ix(D, m, i) \in Blocks \ {n, b}
                      /\ own[Ix(D, m, i)] = Place(m, i, -1)
                      /\ own2[Ix(D, m, i)] = Place(m, i, -1)
                      /\ E[Ix(D, m, i)] = D[Ix(D, m, i)]
    OBVIOUS
  <2>1. Ix(D, m, i) \in Blocks /\ own[Ix(D, m, i)] = Place(m, i, -1)
    <3>1. Owns(D, own, m)
      BY <1>2
    <3>2. D[m].index \in [Slots -> Blocks] /\ own[Ix(D, m, i)] = Place(m, i, -1)
      BY <3>1 DEF Owns, IsNode
    <3> QED
      BY <3>2 DEF Ix
  <2>2. own[n] = Self(n) /\ Place(m, i, -1) # Self(n) /\ Place(m, i, -1) # Free
    <3>1. own[n] = Self(n)
      BY <1>2 DEF Owns
    <3>2. m \in Nat /\ i \in Slots
      BY <1>1
    <3>3. Place(m, i, -1) # Self(n)
      BY <3>2, PlacesDiffer
    <3>4. Place(m, i, -1) # Free
      BY <3>2, PlacesDiffer
    <3> QED
      BY <3>1, <3>3, <3>4
  <2> QED
    BY <1>0, <1>1, <1>8, <2>1, <2>2
<1>11. IsIndex(Index([e \in Es |-> 0])) /\ \A e \in Es : Index([x \in Es |-> 0]).to[e] = 0
  BY Sizings DEF IsIndex, Index, Blocks
<1>12. Formatted(M \cup {b}, E)
  <2>1. \A x \in Blocks : HasUnits(E[x])
    <3> SUFFICES ASSUME NEW x \in Blocks PROVE HasUnits(E[x])
      OBVIOUS
    <3>1. ASSUME NEW c, "unit" \notin DOMAIN c PROVE HasUnits(c)
      BY <3>1 DEF HasUnits, UnitsOf, Us
    <3>2. "unit" \notin DOMAIN E[n]
      BY <1>5 DEF IsNode
    <3>3. "unit" \notin DOMAIN Index([e \in Es |-> 0])
      BY DEF Index
    <3> QED
      BY <1>0, <1>3, <3>1, <3>2, <3>3 DEF Formatted
  <2>2. 0 \in Blocks \ {n, b}
    BY <1>1, Sizings DEF Blocks
  <2> QED
    BY <1>0, <1>3, <2>1, <2>2 DEF Formatted
<1>13. Owned(M \cup {b}, own2)
  <2>1. \A x \in Blocks : x # b => own2[x] = own[x]
    BY <1>3 DEF Owned, own2
  <2> QED
    BY <1>1, <1>3, <1>9, <2>1 DEF Owned
<1>14. ASSUME NEW m \in N PROVE Owns(E, own2, m)
  <2>1. own2[m] = Self(m)
    <3>1. own[m] = Self(m) /\ own[m] # Free
      BY <1>1, <1>2, PlacesDiffer DEF Owns
    <3> QED
      BY <1>2, <1>8, <3>1
  <2>2. \A i \in Slots : Ix(E, m, i) # 0 => own2[Ix(E, m, i)] = Place(m, i, -1)
    BY <1>7, <1>9, <1>10
  <2>3. ASSUME NEW i \in IndexSlots, Ix(E, m, i) # 0
        PROVE  /\ IsIndex(E[Ix(E, m, i)])
               /\ \A e \in Es : To(E, Ix(E, m, i), e) # 0 =>
                    own2[To(E, Ix(E, m, i), e)] = Place(m, i, e)
    <3>1. i \in Slots
      BY SlotSets
    <3>2. CASE m = n /\ i = s
      BY <1>0, <1>7, <1>11, <2>3, <3>1, <3>2 DEF To
    <3>3. CASE ~(m = n /\ i = s)
      <4>1. Ix(E, m, i) = Ix(D, m, i) /\ Ix(D, m, i) # 0
        BY <1>7, <2>3, <3>1, <3>3
      <4>2. E[Ix(E, m, i)] = D[Ix(D, m, i)]
        BY <1>10, <3>1, <4>1
      <4>3. IsIndex(D[Ix(D, m, i)])
        BY <1>2, <4>1 DEF Owns
      <4>4. \A e \in Es : To(E, Ix(E, m, i), e) = To(D, Ix(D, m, i), e)
        BY <4>2 DEF To
      <4>5. ASSUME NEW e \in Es, To(D, Ix(D, m, i), e) # 0
            PROVE  own2[To(D, Ix(D, m, i), e)] = Place(m, i, e)
        <5>1. own[To(D, Ix(D, m, i), e)] = Place(m, i, e)
          BY <1>2, <4>1, <4>5 DEF Owns
        <5>2. To(D, Ix(D, m, i), e) \in Blocks
          BY <4>3 DEF IsIndex, To
        <5>3. Place(m, i, e) # Free
          BY <1>1, PlacesDiffer
        <5> QED
          BY <1>8, <5>1, <5>2, <5>3
      <4> QED
        BY <4>2, <4>3, <4>4, <4>5
    <3> QED
      BY <3>2, <3>3
  <2>4. E[m].mode = "DEV" => \A i \in Slots : Ix(E, m, i) = 0
    <3>1. m # n \/ E[m].mode # "DEV"
      BY <1>5
    <3>2. E[m].mode = "DEV" => \A i \in Slots : Ix(D, m, i) = 0
      BY <1>2, <1>6 DEF Owns
    <3> QED
      BY <1>7, <3>1, <3>2
  <2> QED
    BY <1>6, <2>1, <2>2, <2>3, <2>4 DEF Owns
<1>15. Layout(M \cup {b}, E, N, own2)
  BY <1>3, <1>6, <1>12, <1>13, <1>14 DEF Layout
<1>16. ASSUME NEW m \in N, NEW k \in Ks, At(D, m, k) # 0
       PROVE  At(E, m, k) = At(D, m, k) /\ E[At(D, m, k)] = D[At(D, m, k)]
  <2>1. /\ At(D, m, k) \in Blocks /\ own[At(D, m, k)] = PlaceOf(m, k)
        /\ Ix(D, m, SlotOf(k)) # 0
    BY <1>16, AtOwned
  <2>2. SlotOf(k) \in Slots
    BY BlockPlaces, SlotSets
  <2>3. Ix(E, m, SlotOf(k)) = Ix(D, m, SlotOf(k)) /\ E[Ix(D, m, SlotOf(k))] = D[Ix(D, m, SlotOf(k))]
    BY <1>7, <1>10, <2>1, <2>2
  <2>4. At(E, m, k) = At(D, m, k)
    BY <2>3 DEF At, To
  <2>5. PlaceOf(m, k) # Free /\ PlaceOf(m, k) # Self(n)
    <3>1. k \in Slots \/ ~IsDirect(k)
      BY BlockPlaces
    <3> QED
      BY <1>1, <2>2, <3>1, PlacesDiffer DEF PlaceOf
  <2>6. At(D, m, k) # b /\ At(D, m, k) # n
    BY <1>1, <1>2, <2>1, <2>5 DEF Owns
  <2> QED
    BY <1>0, <2>1, <2>4, <2>6
<1>17. Grows(D, E, N)
  BY <1>6, <1>16 DEF Grows
<1>18. ASSUME NEW k \in Ks, SlotOf(k) = s
       PROVE  At(E, n, k) = IF IsDirect(k) THEN b ELSE 0
  <2>1. Ix(E, n, s) = b
    BY <1>7
  <2>2. CASE IsDirect(k)
    BY <1>18, <2>1, <2>2 DEF At
  <2>3. CASE ~IsDirect(k)
    <3>1. s \in IndexSlots /\ EntryOf(k) \in Es
      BY <1>18, <2>3, BlockPlaces
    <3>2. To(E, b, EntryOf(k)) = 0
      BY <1>0, <1>11, <3>1 DEF To
    <3> QED
      BY <1>1, <1>18, <2>1, <2>3, <3>2 DEF At
  <2> QED
    BY <2>2, <2>3
<1> QED
  BY <1>7, <1>15, <1>17, <1>18 DEF own2, Given

\* Inode n gets block b in entry e of the index block of slot s.
LEMMA NewEntry ==
  ASSUME NEW M, NEW D, NEW N, NEW own, Layout(M, D, N, own),
         NEW n \in N, D[n].mode # "DEV", NEW s \in IndexSlots, Ix(D, n, s) # 0,
         NEW e \in Es, To(D, Ix(D, n, s), e) = 0,
         NEW b \in Blocks \ M,
         NEW E, EntrySet(D, E, Ix(D, n, s), e, b)
  PROVE  /\ Layout(M \cup {b}, E, N, Given(own, b, Place(n, s, e)))
         /\ Grows(D, E, N)
         /\ \A k \in Ks : ~IsDirect(k) /\ SlotOf(k) = s /\ EntryOf(k) = e => At(E, n, k) = b
<1> DEFINE own2 == [own EXCEPT ![b] = Place(n, s, e)]
           c == Ix(D, n, s)
<1>1. /\ b \in Nat /\ b >= ROOT /\ b # 0 /\ own[b] = Free /\ b \notin N
      /\ ROOT \in Nat \ {0} /\ N \subseteq Nat /\ N \subseteq M /\ 0 \notin N
  BY FreshBlock
<1>2. \A m \in N : Owns(D, own, m) /\ m \in Blocks
  BY DEF Layout
<1>3. Formatted(M, D) /\ Owned(M, own) /\ ROOT \in N /\ D[ROOT].mode = "DIR" /\ N \subseteq Blocks
  BY DEF Layout
<1>4. s \in Slots /\ IndexSlots \subseteq Slots
  BY SlotSets
<1>5. c \in Blocks /\ own[c] = Place(n, s, -1) /\ c # 0 /\ IsIndex(D[c])
  <2>1. Owns(D, own, n)
    BY <1>2
  <2>2. D[n].index \in [Slots -> Blocks] /\ own[c] = Place(n, s, -1) /\ IsIndex(D[c])
    BY <1>4, <2>1 DEF Owns, IsNode
  <2> QED
    BY <1>4, <2>2 DEF Ix
<1> HIDE DEF c
<1>6. /\ E[c] = [D[c] EXCEPT !.to = [D[c].to EXCEPT ![e] = b]]
      /\ \A x \in Blocks \ {c} : E[x] = D[x]
      /\ E = [x \in Blocks |-> E[x]]
  BY DEF c, EntrySet, Maps
<1>7. /\ IsIndex(E[c]) /\ E[c].to = [D[c].to EXCEPT ![e] = b]
  BY <1>5, <1>6 DEF IsIndex
<1>8. \A x \in Blocks : own[x] # Free => x # b /\ own2[x] = own[x]
  BY <1>1, <1>3 DEF Owned
<1>9. own2[b] = Place(n, s, e) /\ own2 = [x \in Blocks |-> own2[x]]
  BY <1>3 DEF Owned
<1>10. \A x \in Blocks : x # b => own2[x] = own[x]
  BY <1>3 DEF Owned
<1> HIDE DEF own2
<1>11. \A m \in N : E[m] = D[m]
  <2> SUFFICES ASSUME NEW m \in N PROVE E[m] = D[m]
    OBVIOUS
  <2>1. own[m] = Self(m) /\ m \in Blocks
    BY <1>2 DEF Owns
  <2>2. m # c
    BY <1>4, <1>5, <2>1, PlacesDiffer
  <2> QED
    BY <1>6, <2>1, <2>2
<1>12. \A m \in N : \A i : Ix(E, m, i) = Ix(D, m, i)
  BY <1>11 DEF Ix
<1>13. ASSUME NEW m \in N, NEW i \in Slots, Ix(D, m, i) # 0
       PROVE  /\ Ix(D, m, i) \in Blocks
              /\ own[Ix(D, m, i)] = Place(m, i, -1)
              /\ own2[Ix(D, m, i)] = Place(m, i, -1)
              /\ Ix(D, m, i) = c => m = n /\ i = s
  <2>1. Owns(D, own, m)
    BY <1>2
  <2>2. D[m].index \in [Slots -> Blocks] /\ own[Ix(D, m, i)] = Place(m, i, -1)
    BY <1>13, <2>1 DEF Owns, IsNode
  <2>3. Ix(D, m, i) \in Blocks
    BY <2>2 DEF Ix
  <2>4. Place(m, i, -1) # Free
    BY <1>1, PlacesDiffer
  <2> QED
    BY <1>5, <1>8, <2>2, <2>3, <2>4, PlacesDiffer
<1>14. Formatted(M \cup {b}, E)
  <2>1. \A x \in Blocks : HasUnits(E[x])
    <3> SUFFICES ASSUME NEW x \in Blocks PROVE HasUnits(E[x])
      OBVIOUS
    <3>1. ASSUME NEW g, "unit" \notin DOMAIN g PROVE HasUnits(g)
      BY <3>1 DEF HasUnits, UnitsOf, Us
    <3>2. "unit" \notin DOMAIN E[c]
      BY <1>7 DEF IsIndex
    <3> QED
      BY <1>3, <1>6, <3>1, <3>2 DEF Formatted
  <2>2. 0 \in Blocks \ {c}
    BY <1>5, Sizings DEF Blocks
  <2> QED
    BY <1>3, <1>6, <2>1, <2>2 DEF Formatted
<1>15. Owned(M \cup {b}, own2)
  BY <1>1, <1>3, <1>9, <1>10 DEF Owned
<1>16. ASSUME NEW m \in N PROVE Owns(E, own2, m)
  <2>1. Owns(D, own, m)
    BY <1>2
  <2>2. own2[m] = Self(m) /\ IsNode(E[m])
    <3>1. own[m] = Self(m) /\ own[m] # Free /\ IsNode(D[m])
      BY <1>1, <2>1, PlacesDiffer DEF Owns
    <3> QED
      BY <1>2, <1>8, <1>11, <3>1
  <2>3. \A i \in Slots : Ix(E, m, i) # 0 => own2[Ix(E, m, i)] = Place(m, i, -1)
    BY <1>12, <1>13
  <2>4. ASSUME NEW i \in IndexSlots, Ix(E, m, i) # 0
        PROVE  /\ IsIndex(E[Ix(E, m, i)])
               /\ \A g \in Es : To(E, Ix(E, m, i), g) # 0 =>
                    own2[To(E, Ix(E, m, i), g)] = Place(m, i, g)
    <3> DEFINE d == Ix(D, m, i)
    <3>1. i \in Slots /\ d # 0 /\ Ix(E, m, i) = d
      BY <1>4, <1>12, <2>4
    <3>2. d \in Blocks /\ (d = c => m = n /\ i = s)
      BY <1>13, <3>1
    <3>3. IsIndex(D[d]) /\ \A g \in Es : To(D, d, g) # 0 => own[To(D, d, g)] = Place(m, i, g)
      BY <2>1, <3>1 DEF Owns
    <3> HIDE DEF d
    <3>4. IsIndex(E[d])
      BY <1>6, <1>7, <3>2, <3>3
    <3>5. ASSUME NEW g \in Es, To(E, d, g) # 0
          PROVE  own2[To(E, d, g)] = Place(m, i, g)
      <4>1. CASE d = c /\ g = e
        <5>1. To(E, d, g) = b
          BY <1>5, <1>7, <4>1 DEF To, IsIndex
        <5> QED
          BY <1>9, <3>2, <4>1, <5>1
      <4>2. CASE ~(d = c /\ g = e)
        <5>1. To(E, d, g) = To(D, d, g)
          <6>1. CASE d = c
            BY <1>5, <1>7, <4>2, <6>1 DEF To, IsIndex
          <6>2. CASE d # c
            BY <1>6, <3>2, <6>2 DEF To
          <6> QED
            BY <6>1, <6>2
        <5>2. own[To(D, d, g)] = Place(m, i, g) /\ To(D, d, g) \in Blocks
          BY <3>3, <3>5, <5>1 DEF IsIndex, To
        <5>3. Place(m, i, g) # Free
          BY <1>1, PlacesDiffer
        <5> QED
          BY <1>8, <5>1, <5>2, <5>3
      <4> QED
        BY <4>1, <4>2
    <3> QED
      BY <3>1, <3>4, <3>5
  <2>5. E[m].mode = "DEV" => \A i \in Slots : Ix(E, m, i) = 0
    BY <1>11, <1>12, <2>1 DEF Owns
  <2> QED
    BY <2>2, <2>3, <2>4, <2>5 DEF Owns
<1>17. Layout(M \cup {b}, E, N, own2)
  BY <1>3, <1>11, <1>14, <1>15, <1>16 DEF Layout
<1>18. ASSUME NEW m \in N, NEW k \in Ks, At(D, m, k) # 0
       PROVE  At(E, m, k) = At(D, m, k) /\ E[At(D, m, k)] = D[At(D, m, k)]
  <2>1. /\ At(D, m, k) \in Blocks /\ own[At(D, m, k)] = PlaceOf(m, k)
        /\ Ix(D, m, SlotOf(k)) # 0
    BY <1>18, AtOwned
  <2>2. At(D, m, k) # c
    <3>1. IsDirect(k) => k # s
      BY BlockPlaces
    <3>2. ~IsDirect(k) => EntryOf(k) # -1
      BY BlockPlaces, SlotSets
    <3>3. PlaceOf(m, k) # Place(n, s, -1)
      BY <3>1, <3>2, PlacesDiffer DEF PlaceOf
    <3> QED
      BY <1>5, <2>1, <3>3
  <2>3. At(E, m, k) = At(D, m, k)
    <3>1. CASE IsDirect(k)
      BY <1>12, <3>1 DEF At
    <3>2. CASE ~IsDirect(k)
      <4> DEFINE d == Ix(D, m, SlotOf(k))
      <4>1. SlotOf(k) \in IndexSlots /\ SlotOf(k) \in Slots /\ EntryOf(k) \in Es
        BY <1>4, <3>2, BlockPlaces
      <4>2. d \in Blocks /\ (d = c => m = n /\ SlotOf(k) = s)
        BY <1>13, <2>1, <4>1
      <4>3. At(D, m, k) = To(D, d, EntryOf(k)) /\ At(E, m, k) = To(E, d, EntryOf(k))
        BY <1>12, <2>1, <3>2 DEF At
      <4> HIDE DEF d
      <4>4. d = c => EntryOf(k) # e
        BY <1>18, <4>3 DEF c
      <4>5. To(E, d, EntryOf(k)) = To(D, d, EntryOf(k))
        <5>1. CASE d = c
          BY <1>5, <1>7, <4>1, <4>4, <5>1 DEF To, IsIndex
        <5>2. CASE d # c
          BY <1>6, <4>2, <5>2 DEF To
        <5> QED
          BY <5>1, <5>2
      <4> QED
        BY <4>3, <4>5
    <3> QED
      BY <3>1, <3>2
  <2> QED
    BY <1>6, <2>1, <2>2, <2>3
<1>19. Grows(D, E, N)
  BY <1>11, <1>18 DEF Grows
<1>20. ASSUME NEW k \in Ks, ~IsDirect(k), SlotOf(k) = s, EntryOf(k) = e
       PROVE  At(E, n, k) = b
  <2>1. At(E, n, k) = To(E, c, e)
    BY <1>5, <1>12, <1>20 DEF At, c
  <2> QED
    BY <1>5, <1>7, <2>1 DEF To, IsIndex
<1> QED
  BY <1>17, <1>19, <1>20 DEF own2, Given

\* Unit off of inode n is stored in the block it lies in: nothing else changes.
LEMMA StoreUnit ==
  ASSUME NEW M, NEW D, NEW N, NEW own, Layout(M, D, N, own),
         NEW n \in N, NEW off \in Offs, At(D, n, off \div UNITS) # 0, NEW v,
         NEW E, UnitSet(D, E, At(D, n, off \div UNITS), off % UNITS, v)
  PROVE  /\ Layout(M, E, N, own)
         /\ \A m \in N : E[m] = D[m]
         /\ \A m \in N, k \in Ks : At(E, m, k) = At(D, m, k)
         /\ \A m \in N, x \in Offs :
              UnitIn(E, m, x) = IF m = n /\ x = off THEN v ELSE UnitIn(D, m, x)
<1> DEFINE q == off \div UNITS
           r == off % UNITS
           b == At(D, n, q)
<1>1. off \in Nat /\ q \in Ks /\ r \in Us
  BY OffsetParts
<1>2. b \in Blocks /\ b # 0 /\ own[b] = PlaceOf(n, q)
  BY <1>1, AtOwned
<1>3. /\ E[b] = Units([UnitsOf(D[b]) EXCEPT ![r] = v])
      /\ \A x \in Blocks \ {b} : E[x] = D[x]
      /\ E = [x \in Blocks |-> E[x]]
  BY DEF UnitSet, Maps
<1>4. \A x \in Offs : x \div UNITS = q /\ x % UNITS = r => x = off
  BY OffsetsApart
<1> HIDE DEF b, q, r
<1>5. \A m \in N : Owns(D, own, m) /\ m \in Blocks /\ m \in Nat
  BY Inodes
<1>6. Formatted(M, D) /\ Owned(M, own) /\ ROOT \in N /\ D[ROOT].mode = "DIR" /\ N \subseteq Blocks
  BY DEF Layout
<1>7. HasUnits(D[b]) /\ DOMAIN UnitsOf(D[b]) = Us
  <2>1. HasUnits(D[b])
    BY <1>2, <1>6 DEF Formatted
  <2> QED
    BY <2>1 DEF HasUnits
<1>8. /\ UnitsOf(E[b]) = [UnitsOf(D[b]) EXCEPT ![r] = v]
      /\ HasUnits(E[b])
  <2>2. ASSUME NEW u PROVE UnitsOf(Units(u)) = u
    BY DEF Units, UnitsOf
  <2>1. UnitsOf(E[b]) = [UnitsOf(D[b]) EXCEPT ![r] = v]
    BY <1>3, <2>2, Zenon
  <2> QED
    BY <1>7, <2>1 DEF HasUnits
\* The block is neither an inode nor an index block.
<1>9. \A m : own[b] # Self(m)
  <2>1. IsDirect(q) => q \in Slots
    BY <1>1, BlockPlaces
  <2>2. ~IsDirect(q) => SlotOf(q) \in Slots
    BY <1>1, BlockPlaces, SlotSets
  <2> QED
    BY <1>2, <2>1, <2>2, PlacesDiffer DEF PlaceOf
<1>10. \A m : \A i \in IndexSlots : own[b] # Place(m, i, -1)
  <2>1. IsDirect(q) => q \notin IndexSlots
    BY <1>1, BlockPlaces
  <2>2. ~IsDirect(q) => EntryOf(q) # -1
    BY <1>1, BlockPlaces, SlotSets
  <2> QED
    BY <1>2, <2>1, <2>2, PlacesDiffer DEF PlaceOf
<1>11. \A m \in N : E[m] = D[m]
  <2> SUFFICES ASSUME NEW m \in N PROVE E[m] = D[m]
    OBVIOUS
  <2>1. own[m] = Self(m) /\ m \in Blocks
    BY <1>5 DEF Owns
  <2> QED
    BY <1>3, <1>9, <2>1
<1>12. \A m \in N : \A i : Ix(E, m, i) = Ix(D, m, i)
  BY <1>11 DEF Ix
<1>13. ASSUME NEW m \in N, NEW i \in IndexSlots, Ix(D, m, i) # 0
       PROVE  E[Ix(D, m, i)] = D[Ix(D, m, i)]
  <2>1. Owns(D, own, m) /\ i \in Slots
    BY <1>5, SlotSets
  <2>2. D[m].index \in [Slots -> Blocks] /\ own[Ix(D, m, i)] = Place(m, i, -1)
    BY <1>13, <2>1 DEF Owns, IsNode
  <2>3. Ix(D, m, i) \in Blocks
    BY <2>1, <2>2 DEF Ix
  <2> QED
    BY <1>3, <1>10, <2>2, <2>3
<1>14. Formatted(M, E)
  <2>1. 0 \in Blocks \ {b}
    BY <1>2, Sizings DEF Blocks
  <2>2. \A x \in Blocks : HasUnits(E[x])
    BY <1>3, <1>6, <1>8 DEF Formatted
  <2> QED
    BY <1>3, <1>6, <2>1, <2>2 DEF Formatted
<1>15. ASSUME NEW m \in N PROVE Owns(E, own, m)
  <2>1. Owns(D, own, m)
    BY <1>5
  <2>2. \A i \in IndexSlots : Ix(E, m, i) # 0 =>
          /\ IsIndex(E[Ix(E, m, i)])
          /\ \A e \in Es : To(E, Ix(E, m, i), e) # 0 =>
               own[To(E, Ix(E, m, i), e)] = Place(m, i, e)
    BY <1>12, <1>13, <2>1 DEF Owns, To
  <2> QED
    BY <1>11, <1>12, <2>1, <2>2 DEF Owns
<1>16. Layout(M, E, N, own)
  BY <1>6, <1>11, <1>14, <1>15 DEF Layout
<1>17. ASSUME NEW m \in N, NEW k \in Ks PROVE At(E, m, k) = At(D, m, k)
  <2>1. ~IsDirect(k) => SlotOf(k) \in IndexSlots
    BY BlockPlaces
  <2> QED
    BY <1>12, <1>13, <2>1 DEF At, To
<1>18. ASSUME NEW m \in N, NEW x \in Offs
       PROVE  UnitIn(E, m, x) = IF m = n /\ x = off THEN v ELSE UnitIn(D, m, x)
  <2> DEFINE k == x \div UNITS
             d == At(D, m, k)
  <2>1. k \in Ks /\ x % UNITS \in Us
    BY OffsetParts
  <2>2. d \in Blocks /\ (d # 0 => own[d] = PlaceOf(m, k)) /\ At(E, m, k) = d
    BY <1>17, <2>1, AtOwned
  <2>3. d = b => m = n /\ k = q
    BY <1>1, <1>2, <2>1, <2>2, PlacesApart
  <2>4. m = n /\ k = q => d = b
    BY DEF b
  <2>5. UnitIn(E, m, x) = UnitsOf(E[d])[x % UNITS] /\ UnitIn(D, m, x) = UnitsOf(D[d])[x % UNITS]
    BY <2>2 DEF UnitIn
  <2>7. k = q /\ x % UNITS = r <=> x = off
    BY <1>4 DEF q, r
  <2> HIDE DEF d, k
  <2>8. CASE d # b
    BY <1>3, <2>2, <2>4, <2>5, <2>7, <2>8
  <2>9. CASE d = b
    BY <1>7, <1>8, <2>1, <2>3, <2>5, <2>7, <2>9
  <2> QED
    BY <2>8, <2>9
<1> QED
  BY <1>11, <1>16, <1>17, <1>18

\* Inodes keep their blocks, and the blocks that stand somewhere what they hold.
SameNodes(D, E, N) ==
  \A m \in N : IsNode(E[m]) /\ E[m].mode = D[m].mode /\ E[m].index = D[m].index
SameRest(D, E, N, own) ==
  \A x \in Blocks \ N : own[x] # Free \/ x = 0 => E[x] = D[x]

\* Whatever happens to blocks that stand nowhere, inodes keep what they have.
LEMMA SameBlocks ==
  ASSUME NEW M, NEW D, NEW N, NEW own, Layout(M, D, N, own), NEW E,
         SameNodes(D, E, N), SameRest(D, E, N, own)
  PROVE  /\ \A m \in N : Owns(E, own, m)
         /\ \A m \in N, k \in Ks : At(E, m, k) = At(D, m, k)
         /\ \A m \in N, x \in Offs : UnitIn(E, m, x) = UnitIn(D, m, x)
<1>1. \A m \in N : Owns(D, own, m) /\ m \in Blocks /\ m \in Nat
  BY Sizings DEF Layout, Blocks
<1>2. \A m \in N : \A i : Ix(E, m, i) = Ix(D, m, i)
  BY DEF Ix, SameNodes
<1>0. /\ \A m \in N : IsNode(E[m]) /\ E[m].mode = D[m].mode /\ E[m].index = D[m].index
      /\ \A x \in Blocks \ N : own[x] # Free \/ x = 0 => E[x] = D[x]
  BY DEF SameNodes, SameRest
<1>3. ASSUME NEW x \in Blocks, NEW m, NEW i \in Slots, NEW e, own[x] = Place(m, i, e), m \in Nat
      PROVE  E[x] = D[x]
  <2>1. own[x] # Free /\ \A n \in N : own[n] # own[x]
    BY <1>1, <1>3, PlacesDiffer DEF Owns
  <2> QED
    BY <1>0, <2>1
<1>4. ASSUME NEW m \in N, NEW i \in IndexSlots, Ix(D, m, i) # 0
      PROVE  E[Ix(D, m, i)] = D[Ix(D, m, i)]
  <2>1. Owns(D, own, m) /\ i \in Slots
    BY <1>1, SlotSets
  <2>2. D[m].index \in [Slots -> Blocks] /\ own[Ix(D, m, i)] = Place(m, i, -1)
    BY <1>4, <2>1 DEF Owns, IsNode
  <2>3. Ix(D, m, i) \in Blocks
    BY <2>1, <2>2 DEF Ix
  <2> QED
    BY <1>1, <1>3, <2>1, <2>2, <2>3
<1>5. ASSUME NEW m \in N PROVE Owns(E, own, m)
  <2>1. Owns(D, own, m)
    BY <1>1
  <2>2. \A i \in IndexSlots : Ix(E, m, i) # 0 =>
          /\ IsIndex(E[Ix(E, m, i)])
          /\ \A e \in Es : To(E, Ix(E, m, i), e) # 0 =>
               own[To(E, Ix(E, m, i), e)] = Place(m, i, e)
    BY <1>2, <1>4, <2>1 DEF Owns, To
  <2> QED
    BY <1>0, <1>2, <2>1, <2>2 DEF Owns
<1>6. ASSUME NEW m \in N, NEW k \in Ks PROVE At(E, m, k) = At(D, m, k)
  <2>1. ~IsDirect(k) => SlotOf(k) \in IndexSlots
    BY BlockPlaces
  <2> QED
    BY <1>2, <1>4, <2>1 DEF At, To
<1>7. ASSUME NEW m \in N, NEW x \in Offs PROVE UnitIn(E, m, x) = UnitIn(D, m, x)
  <2> DEFINE k == x \div UNITS
             d == At(D, m, k)
  <2>1. k \in Ks
    BY OffsetParts
  <2>2. d \in Blocks /\ (d # 0 => own[d] = PlaceOf(m, k)) /\ At(E, m, k) = d
    BY <1>6, <2>1, AtOwned
  <2>3. SlotOf(k) \in Slots /\ \E e : PlaceOf(m, k) = Place(m, SlotOf(k), e)
    <3>1. IsDirect(k) => SlotOf(k) = k /\ SlotOf(k) \in Slots
      BY <2>1, BlockPlaces
    <3>2. ~IsDirect(k) => SlotOf(k) \in Slots
      BY <2>1, BlockPlaces, SlotSets
    <3> QED
      BY <3>1, <3>2 DEF PlaceOf
  <2>4. UnitIn(E, m, x) = UnitsOf(E[d])[x % UNITS] /\ UnitIn(D, m, x) = UnitsOf(D[d])[x % UNITS]
    BY <2>2 DEF UnitIn
  <2> HIDE DEF d, k
  <2>5. CASE d # 0
    BY <1>1, <1>3, <2>2, <2>3, <2>4, <2>5
  <2>6. CASE d = 0
    <3>1. 0 \notin N
      BY Inodes
    <3> QED
      BY <1>0, <2>2, <2>4, <2>6, <3>1
  <2> QED
    BY <2>5, <2>6
<1> QED
  BY <1>5, <1>6, <1>7

\* The size of an inode changes.
LEMMA NewSize ==
  ASSUME NEW M, NEW D, NEW N, NEW own, Layout(M, D, N, own),
         NEW n \in N, NEW s \in Nat,
         NEW E, SizeSet(D, E, n, s)
  PROVE  /\ Layout(M, E, N, own)
         /\ \A m \in N : E[m].mode = D[m].mode /\ E[m].size = IF m = n THEN s ELSE D[m].size
         /\ \A m \in N, k \in Ks : At(E, m, k) = At(D, m, k)
         /\ \A m \in N, x \in Offs : UnitIn(E, m, x) = UnitIn(D, m, x)
<1>0. /\ E = [x \in Blocks |-> E[x]] /\ E[n] = [D[n] EXCEPT !.size = s]
      /\ \A x \in Blocks \ {n} : E[x] = D[x]
  BY DEF SizeSet, Maps
<1>1. \A m \in N : IsNode(D[m]) /\ own[m] = Self(m) /\ m \in Blocks /\ m \in Nat
  BY Sizings DEF Layout, Owns, Blocks
<1>2. IsNode(E[n]) /\ E[n].mode = D[n].mode /\ E[n].index = D[n].index /\ E[n].size = s
  BY <1>0, <1>1 DEF IsNode
<1>3. \A m \in N : /\ IsNode(E[m]) /\ E[m].mode = D[m].mode /\ E[m].index = D[m].index
                   /\ E[m].size = IF m = n THEN s ELSE D[m].size
  BY <1>0, <1>1, <1>2
<1>4. /\ \A m \in N : Owns(E, own, m)
      /\ \A m \in N, k \in Ks : At(E, m, k) = At(D, m, k)
      /\ \A m \in N, x \in Offs : UnitIn(E, m, x) = UnitIn(D, m, x)
  <2>1. SameNodes(D, E, N)
    BY <1>3 DEF SameNodes
  <2>2. SameRest(D, E, N, own)
    BY <1>0 DEF SameRest
  <2> QED
    BY <2>1, <2>2, SameBlocks
<1>5. n # 0
  BY Inodes
<1>6. Formatted(M, E)
  <2>1. ASSUME NEW c, "unit" \notin DOMAIN c PROVE HasUnits(c)
    BY <2>1 DEF HasUnits, UnitsOf, Us
  <2>2. "unit" \notin DOMAIN E[n]
    BY <1>2 DEF IsNode
  <2>3. 0 \in Blocks
    BY Sizings DEF Blocks
  <2> QED
    BY <1>0, <1>5, <2>1, <2>2, <2>3 DEF Layout, Formatted
<1>7. Layout(M, E, N, own)
  BY <1>3, <1>4, <1>6 DEF Layout
<1> QED
  BY <1>3, <1>4, <1>7

\* A marked block that stands nowhere becomes an empty inode.
LEMMA NewNode ==
  ASSUME NEW M, NEW D, NEW N, NEW own, Layout(M, D, N, own),
         NEW b \in M, b > ROOT, own[b] = Free, NEW mode \in {"REG", "DIR", "DEV"},
         NEW E, NodeSet(D, E, b, mode)
  PROVE  Layout(M, E, N \cup {b}, Given(own, b, Self(b))) /\ Untouched(D, E, N)
<1> DEFINE own2 == [own EXCEPT ![b] = Self(b)]
<1>0. /\ E = [x \in Blocks |-> E[x]] /\ E[b] = Node(mode, 0)
      /\ \A x \in Blocks \ {b} : E[x] = D[x]
  BY DEF NodeSet, Maps
<1>1. \A m \in N : /\ IsNode(D[m]) /\ own[m] = Self(m) /\ m \in Blocks /\ m \in Nat
                   /\ Owns(D, own, m)
  BY Sizings DEF Layout, Owns, Blocks
<1>2. \A m \in N : own[m] # Free
  BY <1>1, PlacesDiffer
<1>3. \A m \in N : m # b /\ E[m] = D[m]
  BY <1>0, <1>1, <1>2
<1>4. b \in Blocks /\ b \in Nat /\ b >= ROOT /\ 0 \in Blocks /\ b # 0
  BY Sizings DEF Blocks, Layout, Formatted
<1>5. /\ \A m \in N : Owns(E, own, m)
      /\ \A m \in N, k \in Ks : At(E, m, k) = At(D, m, k)
      /\ \A m \in N, x \in Offs : UnitIn(E, m, x) = UnitIn(D, m, x)
  <2>1. SameNodes(D, E, N)
    BY <1>1, <1>3 DEF SameNodes
  <2>2. SameRest(D, E, N, own)
    BY <1>0, <1>4 DEF SameRest
  <2> QED
    BY <2>1, <2>2, SameBlocks
<1>6. /\ IsNode(E[b]) /\ E[b].mode = mode
      /\ \A i \in Slots : E[b].index[i] = 0
  BY <1>0, <1>4 DEF Node, IsNode
<1>7. Formatted(M, E)
  <2>1. ASSUME NEW c, "unit" \notin DOMAIN c PROVE HasUnits(c)
    BY <2>1 DEF HasUnits, UnitsOf, Us
  <2>2. "unit" \notin DOMAIN E[b]
    BY <1>6 DEF IsNode
  <2> QED
    BY <1>0, <1>4, <2>1, <2>2 DEF Layout, Formatted
<1>8. /\ \A x \in Blocks : own[x] # Free => x # b /\ own2[x] = own[x]
      /\ own2[b] = Self(b) /\ own2 = [x \in Blocks |-> own2[x]]
      /\ \A x \in Blocks : x # b => own2[x] = own[x]
  BY <1>4 DEF Layout, Owned
<1> HIDE DEF own2
<1>9. Owned(M, own2)
  BY <1>4, <1>8 DEF Layout, Owned
<1>10. ASSUME NEW m \in N PROVE Owns(E, own2, m)
  <2>1. Owns(E, own, m) /\ m \in Nat /\ m \in Blocks
    BY <1>1, <1>5
  <2>2. ASSUME NEW i \in Slots, Ix(E, m, i) # 0 PROVE own2[Ix(E, m, i)] = Place(m, i, -1)
    <3>1. Ix(E, m, i) \in Blocks /\ own[Ix(E, m, i)] = Place(m, i, -1)
      BY <2>1, <2>2 DEF Owns, IsNode, Ix
    <3> QED
      BY <1>8, <2>1, <3>1, PlacesDiffer
  <2>3. ASSUME NEW i \in IndexSlots, Ix(E, m, i) # 0,
               NEW e \in Es, To(E, Ix(E, m, i), e) # 0
        PROVE  own2[To(E, Ix(E, m, i), e)] = Place(m, i, e)
    <3>1. IsIndex(E[Ix(E, m, i)]) /\ own[To(E, Ix(E, m, i), e)] = Place(m, i, e)
      BY <2>1, <2>3 DEF Owns
    <3>2. To(E, Ix(E, m, i), e) \in Blocks
      BY <3>1 DEF IsIndex, To
    <3> QED
      BY <1>8, <2>1, <3>1, <3>2, PlacesDiffer
  <2>4. own2[m] = Self(m)
    BY <1>1, <1>3, <1>8
  <2> QED
    BY <2>1, <2>2, <2>3, <2>4 DEF Owns
<1>11. Owns(E, own2, b)
  <2>1. \A i \in Slots : Ix(E, b, i) = 0
    BY <1>6 DEF Ix
  <2> QED
    BY <1>6, <1>8, <2>1, SlotSets DEF Owns
<1>12. Layout(M, E, N \cup {b}, own2)
  BY <1>3, <1>4, <1>7, <1>9, <1>10, <1>11 DEF Layout
<1> QED
  BY <1>3, <1>5, <1>12 DEF own2, Given, Untouched

\* Nothing is freed but what stood in m, and nothing written but m.
Leaves(M, L, D, E, own, m) ==
  /\ L \subseteq M /\ \A b \in M \ L : own[b][1] = m
  /\ Maps(E) /\ HasUnits(E[m])
  /\ \A x \in Blocks \ {m} : E[x] = D[x]

\* Inode m is taken out, and blocks that stood in it become free.
LEMMA DropNode ==
  ASSUME NEW M, NEW D, NEW N, NEW own, Layout(M, D, N, own),
         NEW m \in N, D[m].mode # "DIR",
         NEW L, NEW E, Leaves(M, L, D, E, own, m)
  PROVE  (\E own2 : Layout(L, E, N \ {m}, own2)) /\ Untouched(D, E, N \ {m})
<1> DEFINE own2 == [b \in Blocks |-> IF own[b][1] = m THEN Free ELSE own[b]]
<1>0. /\ L \subseteq M /\ \A b \in M \ L : own[b][1] = m
      /\ E = [x \in Blocks |-> E[x]] /\ HasUnits(E[m])
      /\ \A x \in Blocks \ {m} : E[x] = D[x]
  BY DEF Leaves, Maps
<1>1. /\ Formatted(M, D) /\ Owned(M, own) /\ N \subseteq Blocks /\ ROOT \in N
      /\ D[ROOT].mode = "DIR" /\ m # ROOT
  BY DEF Layout
<1>2. \A n \in N : Owns(D, own, n) /\ own[n] = Self(n) /\ n \in Blocks /\ n \in Nat
  BY Sizings DEF Layout, Owns, Blocks
<1>3. \A n, i, e : Place(n, i, e)[1] = n
  BY DEF Place
<1>4. \A b \in Blocks : own2[b] = IF own[b][1] = m THEN Free ELSE own[b]
  OBVIOUS
<1>5. own2 = [b \in Blocks |-> own2[b]]
  OBVIOUS
<1> HIDE DEF own2
<1>6. Free[1] = -1 /\ m # -1 /\ -1 \notin Nat
  BY <1>2, <1>3 DEF Free
<1>7. Owned(L, own2)
  <2> SUFFICES ASSUME NEW b \in Blocks, own2[b] # Free PROVE b \in L /\ b >= ROOT
    BY <1>5 DEF Owned
  <2>1. own[b] # Free /\ own[b][1] # m
    BY <1>4
  <2> QED
    BY <1>0, <1>1, <2>1 DEF Owned
<1>8. Formatted(L, E)
  <2>1. ASSUME NEW b \in 0 .. ROOT PROVE b \in L
    <3>1. b \in M /\ b \in Blocks /\ ROOT \in Nat
      BY <1>1, Sizings DEF Formatted
    <3>2. CASE b = ROOT
      <4>1. own[b][1] = ROOT
        BY <1>1, <1>2, <1>3, <3>2 DEF Self
      <4> QED
        BY <1>0, <1>1, <3>1, <4>1
    <3>3. CASE b # ROOT
      <4>1. ~(b >= ROOT)
        BY <3>1, <3>3
      <4>2. own[b] = Free
        BY <1>1, <3>1, <4>1 DEF Owned
      <4> QED
        BY <1>0, <1>6, <3>1, <4>2
    <3> QED
      BY <3>2, <3>3
  <2>2. m # 0
    BY Inodes
  <2>3. 0 \in Blocks
    BY Sizings DEF Blocks
  <2> QED
    BY <1>0, <1>1, <2>1, <2>2, <2>3 DEF Formatted
<1>9. ASSUME NEW x \in Blocks, NEW n \in N \ {m}, NEW i, NEW e, own[x] = Place(n, i, e)
      PROVE  own2[x] = Place(n, i, e)
  BY <1>3, <1>4, <1>9
<1>10. ASSUME NEW n \in N \ {m} PROVE Owns(D, own2, n)
  <2>1. Owns(D, own, n) /\ n \in Blocks
    BY <1>2
  <2>2. \A i \in Slots : Ix(D, n, i) # 0 => own2[Ix(D, n, i)] = Place(n, i, -1)
    BY <1>9, <2>1 DEF Owns, IsNode, Ix
  <2>3. ASSUME NEW i \in IndexSlots, Ix(D, n, i) # 0,
               NEW e \in Es, To(D, Ix(D, n, i), e) # 0
        PROVE  own2[To(D, Ix(D, n, i), e)] = Place(n, i, e)
    <3>1. IsIndex(D[Ix(D, n, i)]) /\ own[To(D, Ix(D, n, i), e)] = Place(n, i, e)
      BY <2>1, <2>3 DEF Owns
    <3>2. To(D, Ix(D, n, i), e) \in Blocks
      BY <3>1 DEF IsIndex, To
    <3> QED
      BY <1>9, <3>1, <3>2
  <2>4. own2[n] = Self(n)
    BY <1>2, <1>9 DEF Self
  <2> QED
    BY <2>1, <2>2, <2>3, <2>4 DEF Owns
<1>11. Layout(M, D, N \ {m}, own2)
  <2>1. Owned(M, own2)
    BY <1>0, <1>7 DEF Owned
  <2> QED
    BY <1>1, <1>10, <2>1 DEF Layout
<1>12. \A n \in N \ {m} : E[n] = D[n] /\ IsNode(E[n])
  BY <1>0, <1>2 DEF Owns
<1>16. SameNodes(D, E, N \ {m})
  BY <1>12 DEF SameNodes
<1>13. SameRest(D, E, N \ {m}, own2)
  <2> SUFFICES ASSUME NEW x \in Blocks, own2[x] # Free \/ x = 0 PROVE x # m
    BY <1>0 DEF SameRest
  <2>1. own2[m] = Free
    BY <1>2, <1>3, <1>4 DEF Self
  <2>2. m # 0
    BY Inodes
  <2> QED
    BY <2>1, <2>2
<1>14. /\ \A n \in N \ {m} : Owns(E, own2, n)
       /\ \A n \in N \ {m}, k \in Ks : At(E, n, k) = At(D, n, k)
       /\ \A n \in N \ {m}, x \in Offs : UnitIn(E, n, x) = UnitIn(D, n, x)
  BY <1>11, <1>13, <1>16, SameBlocks
<1>15. Layout(L, E, N \ {m}, own2)
  BY <1>1, <1>7, <1>8, <1>12, <1>14 DEF Layout
<1> QED
  BY <1>12, <1>14, <1>15 DEF Untouched

-----------------------------------------------------------------------------
(* Taking blocks                                                           *)

IsDisk(z) == z = [marked |-> z.marked, kept |-> z.kept, disk |-> z.disk]
Full(z) == Blocks \subseteq z.marked

\* y is disk z after blocks were taken.
Later(z, y) == IsDisk(y) /\ z.marked \subseteq y.marked /\ y.kept = z.kept

\* The disk is laid out: the blocks of own stand where they did, inodes lost none.
Laid(z, N, own) == Layout(z.marked, z.disk, N, own)
Agree(own, own2, M) == \A x \in M : own2[x] = own[x]
Grown(z, own, y, N) ==
  \E own2 : Laid(y, N, own2) /\ Agree(own, own2, z.marked) /\ Grows(z.disk, y.disk, N)

LEMMA LaterTrans ==
  ASSUME NEW x, NEW y, NEW z, Later(x, y), Later(y, z)
  PROVE  Later(x, z)
BY DEF Later

LEMMA LaterFull ==
  ASSUME NEW x, NEW y, Later(x, y), Full(x)
  PROVE  Full(y)
BY DEF Later, Full

LEMMA GrowsTrans ==
  ASSUME NEW D, NEW E, NEW F, NEW N, Grows(D, E, N), Grows(E, F, N)
  PROVE  Grows(D, F, N)
<1> SUFFICES ASSUME NEW m \in N
             PROVE  /\ F[m].mode = D[m].mode /\ F[m].size = D[m].size
                    /\ \A k \in Ks : At(D, m, k) # 0 =>
                         At(F, m, k) = At(D, m, k) /\ F[At(D, m, k)] = D[At(D, m, k)]
  BY DEF Grows
<1>1. /\ E[m].mode = D[m].mode /\ E[m].size = D[m].size
      /\ \A k \in Ks : At(D, m, k) # 0 =>
           At(E, m, k) = At(D, m, k) /\ E[At(D, m, k)] = D[At(D, m, k)]
  BY DEF Grows
<1>2. /\ F[m].mode = E[m].mode /\ F[m].size = E[m].size
      /\ \A k \in Ks : At(E, m, k) # 0 =>
           At(F, m, k) = At(E, m, k) /\ F[At(E, m, k)] = E[At(E, m, k)]
  BY DEF Grows
<1> QED
  BY <1>1, <1>2

LEMMA GrownSelf ==
  ASSUME NEW z, NEW N, NEW own, Laid(z, N, own)
  PROVE  Grown(z, own, z, N)
BY DEF Grown, Agree, Grows

LEMMA FreeBlockIs ==
  ASSUME NEW z, IsDisk(z)
  PROVE  /\ fs_allocBlock(z).blk = fs_findFreeSector(z)
         /\ Later(z, fs_allocBlock(z).z)
         /\ fs_allocBlock(z).z.marked = z.marked \cup {fs_findFreeSector(z)}
         /\ fs_allocBlock(z).z.disk = z.disk
         /\ ~Full(z) => fs_findFreeSector(z) \in Blocks \ z.marked
<1>1. PICK b : b = fs_findFreeSector(z)
  OBVIOUS
<1>2. fs_allocBlock(z) = [z |-> [z EXCEPT !.marked = @ \cup {b}], blk |-> b]
  BY <1>1 DEF fs_allocBlock
<1>3. PICK y : y = [z EXCEPT !.marked = @ \cup {b}]
  OBVIOUS
<1>4. /\ IsDisk(y) /\ y.marked = z.marked \cup {b} /\ y.kept = z.kept /\ y.disk = z.disk
  BY <1>3 DEF IsDisk
<1>5. fs_allocBlock(z).blk = b /\ fs_allocBlock(z).z = y
  BY <1>2, <1>3
<1>6. ASSUME ~Full(z) PROVE b \in Blocks \ z.marked
  <2>1. Blocks \ z.marked \in SUBSET Nat /\ Blocks \ z.marked # {}
    BY <1>6, Sizings DEF Full, Blocks
  <2>2. b = Lowest(Blocks \ z.marked)
    BY <1>1, <1>6 DEF fs_findFreeSector, Full
  <2> QED
    BY <2>1, <2>2, LowestIsLeast
<1> QED
  BY <1>1, <1>4, <1>5, <1>6 DEF Later

\* An index block where it is missing.
LEMMA IndexTaken ==
  ASSUME NEW z, IsDisk(z), NEW n, NEW k
  PROVE  /\ Later(z, WithIndex(z, n, k))
         /\ Ix(z.disk, n, SlotOf(k)) # 0 => WithIndex(z, n, k) = z
         /\ \A N, own : /\ Laid(z, N, own) /\ n \in N /\ z.disk[n].mode # "DEV"
                         /\ k \in Ks /\ ~IsDirect(k) /\ ~Full(WithIndex(z, n, k))
                         => /\ Grown(z, own, WithIndex(z, n, k), N)
                            /\ Ix(WithIndex(z, n, k).disk, n, SlotOf(k)) # 0
<1> DEFINE s == SlotOf(k)
           a == fs_allocBlock(z)
           y == WithIndex(z, n, k)
           zeros == Index([e \in 0 .. ENTRIES - 1 |-> 0])
<1>1. Ix(z.disk, n, s) # 0 => y = z
  BY DEF WithIndex, Ix
<1>2. CASE Ix(z.disk, n, s) # 0
  BY <1>1, <1>2, GrownSelf DEF Later
<1>3. CASE Ix(z.disk, n, s) = 0
  <2>1. PICK b : b = a.blk
    OBVIOUS
  <2>2. PICK x : x = a.z
    OBVIOUS
  <2>3. y = [x EXCEPT !.disk[n].index[s] = b, !.disk[b] = zeros]
    BY <1>3, <2>1, <2>2 DEF WithIndex, Ix
  <2>4. /\ Later(z, x) /\ x.marked = z.marked \cup {b} /\ x.disk = z.disk
        /\ b = fs_findFreeSector(z) /\ (~Full(z) => b \in Blocks \ z.marked)
    BY <2>1, <2>2, FreeBlockIs
  <2> HIDE DEF y, a, zeros, s
  <2>5. PICK w : w = [x EXCEPT !.disk = [x.disk EXCEPT ![n].index[s] = b]]
    OBVIOUS
  <2>6. y = [w EXCEPT !.disk = [w.disk EXCEPT ![b] = zeros]]
    BY <2>3, <2>4, <2>5 DEF Later, IsDisk
  <2>7. /\ IsDisk(w) /\ w.marked = x.marked /\ w.kept = x.kept
        /\ w.disk = [x.disk EXCEPT ![n].index[s] = b]
    BY <2>4, <2>5 DEF Later, IsDisk
  <2>8. /\ IsDisk(y) /\ y.marked = x.marked /\ y.kept = x.kept
        /\ y.disk = [w.disk EXCEPT ![b] = zeros]
    BY <2>6, <2>7 DEF IsDisk
  <2>9. Later(z, y)
    BY <2>4, <2>8 DEF Later
  <2>10. ASSUME NEW N, NEW own, Laid(z, N, own), n \in N, z.disk[n].mode # "DEV",
                k \in Ks, ~IsDirect(k), ~Full(y)
         PROVE  Grown(z, own, y, N) /\ Ix(y.disk, n, s) # 0
    <3>1. Layout(z.marked, z.disk, N, own)
      BY <2>10 DEF Laid
    <3>2. b \in Blocks \ z.marked
      BY <2>4, <2>9, <2>10, LaterFull
    <3>3. s \in IndexSlots /\ s \in Slots
      BY <2>10, BlockPlaces, SlotSets DEF s
    <3>4. /\ n \in Blocks /\ IsNode(z.disk[n]) /\ n # b /\ b # 0
          /\ z.disk = [c \in Blocks |-> z.disk[c]]
      BY <2>10, <3>1, <3>2, Inodes, FreshBlock DEF Layout, Formatted
    <3>5. /\ y.disk = [c \in Blocks |-> y.disk[c]]
          /\ y.disk[b] = zeros
          /\ y.disk[n] = w.disk[n]
          /\ \A c \in Blocks \ {n, b} : y.disk[c] = z.disk[c]
      <4>1. PICK C, D, E : C = w.disk /\ D = z.disk /\ E = y.disk
        OBVIOUS
      <4>2. C = [D EXCEPT ![n].index[s] = b] /\ E = [C EXCEPT ![b] = zeros]
        BY <2>4, <2>7, <2>8, <4>1
      <4>3. D = [c \in Blocks |-> D[c]] /\ n \in Blocks /\ b \in Blocks /\ n # b
        BY <3>2, <3>4, <4>1
      <4>4. C = [c \in Blocks |-> C[c]] /\ \A c \in Blocks \ {n} : C[c] = D[c]
        BY <4>2, <4>3
      <4>5. /\ E = [c \in Blocks |-> E[c]] /\ E[b] = zeros
            /\ \A c \in Blocks \ {b} : E[c] = C[c]
        BY <4>2, <4>3, <4>4
      <4> QED
        BY <4>1, <4>3, <4>4, <4>5
    <3>6. w.disk[n] = [z.disk[n] EXCEPT !.index = [z.disk[n].index EXCEPT ![s] = b]]
      BY <2>4, <2>7, <3>4
    <3>7. zeros = Index([e \in Es |-> 0])
      BY DEF zeros, Es
    <3>8. /\ Layout(z.marked \cup {b}, y.disk, N, Given(own, b, Place(n, s, -1)))
          /\ Grows(z.disk, y.disk, N) /\ Ix(y.disk, n, s) = b
      <4>1. SlotSet(z.disk, y.disk, n, s, b)
        BY <3>3, <3>5, <3>6, <3>7 DEF SlotSet, Maps
      <4>2. Ix(z.disk, n, s) = 0 /\ n \in N /\ z.disk[n].mode # "DEV"
        BY <1>3, <2>10 DEF s
      <4>3. Grows(z.disk, y.disk, N)
        BY <3>1, <3>2, <3>3, <4>1, <4>2, NewSlot
      <4>4. Ix(y.disk, n, s) = b
        BY <3>3, <3>4, <3>5, <3>6 DEF Ix, IsNode
      <4>5. Layout(z.marked \cup {b}, y.disk, N, Given(own, b, Place(n, s, -1)))
        BY <3>1, <3>2, <3>3, <4>1, <4>2, NewSlot
      <4> QED
        BY <4>3, <4>4, <4>5
    <3>9. Laid(y, N, Given(own, b, Place(n, s, -1)))
      BY <2>4, <2>8, <3>8 DEF Laid
    <3>10. Agree(own, Given(own, b, Place(n, s, -1)), z.marked)
      BY <3>1, <3>2 DEF Agree, Layout, Owned, Formatted, Given
    <3> QED
      BY <3>4, <3>8, <3>9, <3>10 DEF Grown
  <2> QED
    BY <1>1, <2>9, <2>10 DEF y, s
<1> QED
  BY <1>2, <1>3

LEMMA GrownTrans ==
  ASSUME NEW x, NEW y, NEW z, NEW N, NEW own, Later(x, y), Grown(x, own, y, N),
         \A own1 : Laid(y, N, own1) => Grown(y, own1, z, N)
  PROVE  Grown(x, own, z, N)
<1>1. PICK own1 : Laid(y, N, own1) /\ Agree(own, own1, x.marked) /\ Grows(x.disk, y.disk, N)
  BY DEF Grown
<1>2. PICK own2 : Laid(z, N, own2) /\ Agree(own1, own2, y.marked) /\ Grows(y.disk, z.disk, N)
  BY <1>1 DEF Grown
<1>3. Grows(x.disk, z.disk, N)
  BY <1>1, <1>2, GrowsTrans
<1>4. Agree(own, own2, x.marked)
  BY <1>1, <1>2 DEF Agree, Later
<1> QED
  BY <1>2, <1>3, <1>4 DEF Grown

\* With disk x the k-th block of inode n is blk, and inodes lost none.
Settles(y, x, blk, n, k) ==
  \A N, own : /\ Laid(y, N, own) /\ n \in N /\ y.disk[n].mode # "DEV"
              /\ k \in Ks /\ ~Full(x)
              => Grown(y, own, x, N) /\ blk = At(x.disk, n, k) /\ blk # 0

\* Disk x is y with a new block, directly or in an index block.
TakesDirect(y, x, n, k) ==
  x = [fs_allocBlock(y).z EXCEPT !.disk[n].index[k] = fs_allocBlock(y).blk]
TakesEntry(y, x, n, k) ==
  x = [fs_allocBlock(y).z EXCEPT
         !.disk[y.disk[n].index[SlotOf(k)]].to[EntryOf(k)] = fs_allocBlock(y).blk]
Lacks(y, n, k) == At(y.disk, n, k) = 0

\* A new direct block.
LEMMA DirectTaken ==
  ASSUME NEW y, IsDisk(y), NEW n, NEW k, IsDirect(k), Lacks(y, n, k),
         NEW x, TakesDirect(y, x, n, k)
  PROVE  /\ Later(y, x)
         /\ Settles(y, x, fs_allocBlock(y).blk, n, k)
<1>1. PICK b : b = fs_allocBlock(y).blk
  OBVIOUS
<1>2. PICK w : w = fs_allocBlock(y).z
  OBVIOUS
<1>3. /\ Later(y, w) /\ w.marked = y.marked \cup {b} /\ w.disk = y.disk
      /\ (~Full(y) => b \in Blocks \ y.marked)
  BY <1>1, <1>2, FreeBlockIs
<1>4. x = [w EXCEPT !.disk[n].index[k] = b]
  BY <1>1, <1>2 DEF TakesDirect
<1>5. x = [w EXCEPT !.disk = [y.disk EXCEPT ![n].index[k] = b]]
  BY <1>3, <1>4
<1>6. /\ IsDisk(x) /\ x.marked = y.marked \cup {b} /\ x.kept = y.kept
      /\ x.disk = [y.disk EXCEPT ![n].index[k] = b]
  BY <1>3, <1>5 DEF Later, IsDisk
<1>7. Later(y, x)
  BY <1>6 DEF Later
<1>8. ASSUME NEW N, NEW own, Laid(y, N, own), n \in N, y.disk[n].mode # "DEV",
             k \in Ks, ~Full(x)
      PROVE  Grown(y, own, x, N) /\ At(x.disk, n, k) = b /\ b # 0
  <2>1. Layout(y.marked, y.disk, N, own)
    BY <1>8 DEF Laid
  <2>2. b \in Blocks \ y.marked
    BY <1>3, <1>7, <1>8, LaterFull
  <2>3. k \in Slots \ IndexSlots /\ Ix(y.disk, n, k) = 0
    BY <1>8, BlockPlaces DEF At, Lacks
  <2>4. /\ n \in Blocks /\ IsNode(y.disk[n]) /\ n # b /\ b # 0
        /\ y.disk = [c \in Blocks |-> y.disk[c]]
    BY <1>8, <2>1, <2>2, Inodes, FreshBlock DEF Layout, Formatted
  <2>5. /\ x.disk = [c \in Blocks |-> x.disk[c]]
        /\ x.disk[n] = [y.disk[n] EXCEPT !.index = [y.disk[n].index EXCEPT ![k] = b]]
        /\ \A c \in Blocks \ {n} : x.disk[c] = y.disk[c]
    BY <1>6, <2>4
  <2>6. SlotSet(y.disk, x.disk, n, k, b)
    BY <2>2, <2>3, <2>4, <2>5 DEF SlotSet, Maps
  <2>7. Layout(y.marked \cup {b}, x.disk, N, Given(own, b, Place(n, k, -1)))
    BY <1>8, <2>1, <2>2, <2>3, <2>6, NewSlot
  <2>8. Grows(y.disk, x.disk, N)
    BY <1>8, <2>1, <2>2, <2>3, <2>6, NewSlot
  <2>9. At(x.disk, n, k) = b
    <3>1. SlotOf(k) = k
      BY <1>8, BlockPlaces
    <3>2. x.disk[n].index[k] = b
      BY <2>3, <2>4, <2>5 DEF IsNode
    <3> QED
      BY <1>8, <3>1, <3>2 DEF At, Ix
  <2>10. Laid(x, N, Given(own, b, Place(n, k, -1)))
    BY <1>6, <2>7 DEF Laid
  <2>11. Agree(own, Given(own, b, Place(n, k, -1)), y.marked)
    BY <2>1, <2>2 DEF Agree, Layout, Owned, Formatted, Given
  <2> QED
    BY <2>4, <2>8, <2>9, <2>10, <2>11 DEF Grown
<1> QED
  BY <1>1, <1>7, <1>8 DEF Settles

\* A new block in an index block.
LEMMA EntryTaken ==
  ASSUME NEW y, IsDisk(y), NEW n, NEW k, ~IsDirect(k), Lacks(y, n, k),
         NEW x, TakesEntry(y, x, n, k)
  PROVE  /\ Later(y, x)
         /\ Ix(y.disk, n, SlotOf(k)) # 0 => Settles(y, x, fs_allocBlock(y).blk, n, k)
<1>1. PICK b : b = fs_allocBlock(y).blk
  OBVIOUS
<1>2. PICK w : w = fs_allocBlock(y).z
  OBVIOUS
<1>3. /\ Later(y, w) /\ w.marked = y.marked \cup {b} /\ w.disk = y.disk
      /\ (~Full(y) => b \in Blocks \ y.marked)
  BY <1>1, <1>2, FreeBlockIs
<1>4. PICK c : c = Ix(y.disk, n, SlotOf(k))
  OBVIOUS
<1>5. PICK e : e = EntryOf(k)
  OBVIOUS
<1>6. x = [w EXCEPT !.disk[c].to[e] = b]
  BY <1>1, <1>2, <1>4, <1>5 DEF Ix, TakesEntry
<1>7. x = [w EXCEPT !.disk = [y.disk EXCEPT ![c].to[e] = b]]
  BY <1>3, <1>6
<1>8. /\ IsDisk(x) /\ x.marked = y.marked \cup {b} /\ x.kept = y.kept
      /\ x.disk = [y.disk EXCEPT ![c].to[e] = b]
  BY <1>3, <1>7 DEF Later, IsDisk
<1>9. Later(y, x)
  BY <1>8 DEF Later
<1>10. ASSUME NEW N, NEW own, Laid(y, N, own), n \in N, y.disk[n].mode # "DEV",
              k \in Ks, ~Full(x), c # 0
       PROVE  Grown(y, own, x, N) /\ At(x.disk, n, k) = b /\ b # 0
  <2>1. Layout(y.marked, y.disk, N, own)
    BY <1>10 DEF Laid
  <2>2. b \in Blocks \ y.marked
    BY <1>3, <1>9, <1>10, LaterFull
  <2>3. SlotOf(k) \in IndexSlots /\ SlotOf(k) \in Slots /\ e \in Es
    BY <1>5, <1>10, BlockPlaces
  <2>4. IsIndex(y.disk[c]) /\ To(y.disk, c, e) = 0 /\ c \in Blocks
    <3>1. Owns(y.disk, own, n)
      BY <1>10, <2>1, Inodes
    <3>2. IsIndex(y.disk[c])
      BY <1>4, <1>10, <2>3, <3>1 DEF Owns
    <3>3. To(y.disk, c, e) = 0
      BY <1>4, <1>5, <1>10 DEF At, Lacks
    <3>4. c \in Blocks
      BY <1>4, <1>10, <2>1, AtOwned
    <3> QED
      BY <3>2, <3>3, <3>4
  <2>5. b # 0 /\ y.disk = [d \in Blocks |-> y.disk[d]]
    <3>1. b # 0
      BY <2>1, <2>2, FreshBlock
    <3> QED
      BY <2>1, <3>1 DEF Layout, Formatted
  <2>6. /\ x.disk = [d \in Blocks |-> x.disk[d]]
        /\ x.disk[c] = [y.disk[c] EXCEPT !.to = [y.disk[c].to EXCEPT ![e] = b]]
        /\ \A d \in Blocks \ {c} : x.disk[d] = y.disk[d]
    <3>1. PICK D : D = y.disk
      OBVIOUS
    <3>2. PICK E : E = x.disk
      OBVIOUS
    <3>3. PICK u : u = [D[c] EXCEPT !.to = [D[c].to EXCEPT ![e] = b]]
      OBVIOUS
    <3>4. E = [D EXCEPT ![c] = u]
      BY <1>8, <3>1, <3>2, <3>3
    <3>5. D = [d \in Blocks |-> D[d]]
      BY <2>5, <3>1
    <3>6. E = [d \in Blocks |-> E[d]] /\ E[c] = u /\ \A d \in Blocks \ {c} : E[d] = D[d]
      BY <2>4, <3>4, <3>5
    <3> QED
      BY <3>1, <3>2, <3>3, <3>6
  <2>7. EntrySet(y.disk, x.disk, Ix(y.disk, n, SlotOf(k)), e, b)
    BY <1>4, <2>6 DEF EntrySet, Maps
  <2>8. Ix(y.disk, n, SlotOf(k)) # 0 /\ To(y.disk, Ix(y.disk, n, SlotOf(k)), e) = 0
    BY <1>4, <1>10, <2>4
  <2>9. Layout(y.marked \cup {b}, x.disk, N, Given(own, b, Place(n, SlotOf(k), e)))
    BY <1>10, <2>1, <2>2, <2>3, <2>7, <2>8, NewEntry
  <2>10. Grows(y.disk, x.disk, N)
    BY <1>10, <2>1, <2>2, <2>3, <2>7, <2>8, NewEntry
  <2>11. At(x.disk, n, k) = b
    <3>1. Owns(y.disk, own, n) /\ Owns(y.disk, own, n) /\ n \in Blocks
      BY <1>10, <2>1, Inodes
    <3>2. own[c] = Place(n, SlotOf(k), -1) /\ own[n] = Self(n)
      BY <1>4, <1>10, <2>3, <3>1 DEF Owns
    <3>3. n # c
      BY <2>3, <3>2, PlacesDiffer
    <3>4. Ix(x.disk, n, SlotOf(k)) = c
      BY <1>4, <2>6, <3>1, <3>3 DEF Ix
    <3>5. To(x.disk, c, e) = b
      BY <2>3, <2>4, <2>6 DEF To, IsIndex
    <3> QED
      BY <1>5, <1>10, <3>4, <3>5 DEF At
  <2>12. Laid(x, N, Given(own, b, Place(n, SlotOf(k), e)))
    BY <1>8, <2>9 DEF Laid
  <2>13. Agree(own, Given(own, b, Place(n, SlotOf(k), e)), y.marked)
    BY <2>1, <2>2 DEF Agree, Layout, Owned, Formatted, Given
  <2> QED
    BY <2>5, <2>10, <2>11, <2>12, <2>13 DEF Grown
<1> QED
  BY <1>1, <1>4, <1>9, <1>10 DEF Settles

\* The block a unit lies in, taken where it is missing.
LEMMA BlockTaken ==
  ASSUME NEW z, IsDisk(z), NEW n, NEW off,
         NEW g, g = getOrAllocBlockByOffset(z, n, off)
  PROVE  /\ Later(z, g.z)
         /\ At(z.disk, n, off \div UNITS) # 0 =>
              g.z = z /\ g.blk = At(z.disk, n, off \div UNITS)
         /\ Settles(z, g.z, g.blk, n, off \div UNITS)
<1>1. PICK k : k = off \div UNITS
  OBVIOUS
<1>2. PICK y : y = IF IsDirect(k) THEN z ELSE WithIndex(z, n, k)
  OBVIOUS
<1>3. PICK a : a = fs_allocBlock(y)
  OBVIOUS
<1>4. PICK x : x = IF IsDirect(k) THEN [a.z EXCEPT !.disk[n].index[k] = a.blk]
                   ELSE [a.z EXCEPT !.disk[y.disk[n].index[SlotOf(k)]].to[EntryOf(k)] = a.blk]
  OBVIOUS
<1>5. \A u : BlockAt(u, n, k) = At(u.disk, n, k)
  BY DEF BlockAt, At, Ix, To
<1>6. At(y.disk, n, k) # 0 => g.z = y /\ g.blk = At(y.disk, n, k)
  BY <1>1, <1>2, <1>5 DEF getOrAllocBlockByOffset
<1>7. At(y.disk, n, k) = 0 => g.z = x /\ g.blk = a.blk
  <2>1. CASE IsDirect(k)
    <3>1. y = z
      BY <1>2, <2>1
    <3>2. BlockAt(z, n, k) = 0 =>
            g = [z |-> [fs_allocBlock(z).z EXCEPT !.disk[n].index[k] = fs_allocBlock(z).blk],
                 blk |-> fs_allocBlock(z).blk]
      BY <1>1, <2>1 DEF getOrAllocBlockByOffset
    <3> QED
      BY <1>3, <1>4, <1>5, <2>1, <3>1, <3>2
  <2>2. CASE ~IsDirect(k)
    <3>1. y = WithIndex(z, n, k)
      BY <1>2, <2>2
    <3>2. PICK v : v = [a.z EXCEPT !.disk[y.disk[n].index[SlotOf(k)]].to[EntryOf(k)] = a.blk]
      OBVIOUS
    <3>3. BlockAt(y, n, k) = 0 => g = [z |-> v, blk |-> a.blk]
      BY <1>1, <1>3, <2>2, <3>1, <3>2 DEF getOrAllocBlockByOffset
    <3>4. x = v
      BY <1>4, <2>2, <3>2
    <3>5. [z |-> v, blk |-> a.blk].z = v /\ [z |-> v, blk |-> a.blk].blk = a.blk
      OBVIOUS
    <3> QED
      BY <1>5, <3>3, <3>4, <3>5, Zenon
  <2> QED
    BY <2>1, <2>2, Zenon
<1>8. /\ Later(z, y)
      /\ At(z.disk, n, k) # 0 => y = z
      /\ \A N, own : /\ Laid(z, N, own) /\ n \in N /\ z.disk[n].mode # "DEV"
                     /\ k \in Ks /\ ~Full(y)
                     => Grown(z, own, y, N) /\ (IsDirect(k) \/ Ix(y.disk, n, SlotOf(k)) # 0)
  <2>1. CASE IsDirect(k)
    BY <1>2, <2>1, GrownSelf DEF Later
  <2>2. CASE ~IsDirect(k)
    <3>1. y = WithIndex(z, n, k)
      BY <1>2, <2>2
    <3>2. At(z.disk, n, k) # 0 => Ix(z.disk, n, SlotOf(k)) # 0
      BY DEF At
    <3> QED
      BY <2>2, <3>1, <3>2, IndexTaken
  <2> QED
    BY <2>1, <2>2
<1>9. IsDisk(y)
  BY <1>8 DEF Later
<1>10. CASE At(y.disk, n, k) # 0
  BY <1>1, <1>6, <1>8, <1>10 DEF Settles
<1>11. CASE At(y.disk, n, k) = 0
  <2>1. g.z = x /\ g.blk = a.blk
    BY <1>7, <1>11
  <2>2. /\ Later(y, x)
        /\ IsDirect(k) \/ Ix(y.disk, n, SlotOf(k)) # 0 => Settles(y, x, a.blk, n, k)
    <3>1. CASE IsDirect(k)
      <4>1. TakesDirect(y, x, n, k) /\ Lacks(y, n, k)
        BY <1>3, <1>4, <1>11, <3>1 DEF TakesDirect, Lacks
      <4> QED
        BY <1>3, <1>9, <3>1, <4>1, DirectTaken
    <3>2. CASE ~IsDirect(k)
      <4>1. TakesEntry(y, x, n, k) /\ Lacks(y, n, k)
        BY <1>3, <1>4, <1>11, <3>2 DEF TakesEntry, Lacks
      <4>2. Later(y, x)
        BY <1>9, <3>2, <4>1, EntryTaken
      <4>3. Ix(y.disk, n, SlotOf(k)) # 0 => Settles(y, x, fs_allocBlock(y).blk, n, k)
        BY <1>9, <3>2, <4>1, EntryTaken
      <4> QED
        BY <1>3, <3>2, <4>2, <4>3
    <3> QED
      BY <3>1, <3>2
  <2>3. Later(z, x)
    BY <1>8, <2>2, LaterTrans
  <2>4. At(z.disk, n, k) = 0
    BY <1>8, <1>11
  <2>5. ASSUME NEW N, NEW own, Laid(z, N, own), n \in N, z.disk[n].mode # "DEV",
               k \in Ks, ~Full(x)
        PROVE  Grown(z, own, x, N) /\ a.blk = At(x.disk, n, k) /\ a.blk # 0
    <3>1. ~Full(y)
      BY <2>2, <2>5, LaterFull
    <3>2. Grown(z, own, y, N) /\ (IsDirect(k) \/ Ix(y.disk, n, SlotOf(k)) # 0)
      BY <1>8, <2>5, <3>1
    <3>3. y.disk[n].mode # "DEV"
      BY <2>5, <3>2 DEF Grown, Grows
    <3>4. \A own1 : Laid(y, N, own1) =>
            Grown(y, own1, x, N) /\ a.blk = At(x.disk, n, k) /\ a.blk # 0
      BY <2>2, <2>5, <3>2, <3>3 DEF Settles
    <3>5. Grown(z, own, x, N)
      BY <1>8, <3>2, <3>4, GrownTrans
    <3>6. \E own1 : Laid(y, N, own1)
      BY <3>2 DEF Grown
    <3> QED
      BY <3>4, <3>5, <3>6
  <2>6. Settles(z, x, a.blk, n, k)
    BY <2>5 DEF Settles
  <2> QED
    BY <1>1, <2>1, <2>3, <2>4, <2>6
<1> QED
  BY <1>10, <1>11

-----------------------------------------------------------------------------
(* Writing                                                                 *)

\* Units that have a block stay when blocks are taken.
LEMMA GrowsUnits ==
  ASSUME NEW D, NEW E, NEW N, Grows(D, E, N), NEW m \in N, NEW x \in Offs,
         At(D, m, x \div UNITS) # 0
  PROVE  UnitIn(E, m, x) = UnitIn(D, m, x)
<1>1. x \div UNITS \in Ks
  BY OffsetParts
<1>2. /\ At(E, m, x \div UNITS) = At(D, m, x \div UNITS)
      /\ E[At(D, m, x \div UNITS)] = D[At(D, m, x \div UNITS)]
  BY <1>1 DEF Grows
<1> QED
  BY <1>2 DEF UnitIn

\* One unit is stored.
Stores(y, z, v) ==
  /\ IsDisk(z) /\ z.marked = y.z.marked /\ z.kept = y.z.kept
  /\ z.disk = [y.z.disk EXCEPT ![y.blk] =
                 Units([UnitsOf(y.z.disk[y.blk]) EXCEPT ![y.off % UNITS] = v])]

\* One step of the loop, over disk z.
StepsBy(y, n, v, z, g) ==
  /\ Stores(y, z, v) /\ g = getOrAllocBlockByOffset(z, n, y.off + 1)
  /\ writeStep(y, n, v).z = g.z /\ writeStep(y, n, v).blk = g.blk
  /\ writeStep(y, n, v).off = y.off + 1

LEMMA WriteStepIs ==
  ASSUME NEW y, IsDisk(y.z), NEW n, NEW v
  PROVE  \E z, g : StepsBy(y, n, v, z, g)
<1>1. PICK z : z = [y.z EXCEPT !.disk[y.blk] =
                      Units([UnitsOf(@) EXCEPT ![y.off % UNITS] = v])]
  OBVIOUS
<1>2. PICK u : u = Units([UnitsOf(y.z.disk[y.blk]) EXCEPT ![y.off % UNITS] = v])
  OBVIOUS
<1>3. z = [y.z EXCEPT !.disk = [y.z.disk EXCEPT ![y.blk] = u]]
  BY <1>1, <1>2
<1>4. /\ IsDisk(z) /\ z.marked = y.z.marked /\ z.kept = y.z.kept
      /\ z.disk = [y.z.disk EXCEPT ![y.blk] = u]
  BY <1>3 DEF IsDisk
<1>5. Stores(y, z, v)
  BY <1>2, <1>4 DEF Stores
<1>6. PICK g : g = getOrAllocBlockByOffset(z, n, y.off + 1)
  OBVIOUS
<1>7. writeStep(y, n, v) = [z |-> g.z, off |-> y.off + 1, blk |-> g.blk]
  BY <1>1, <1>6, Zenon DEF writeStep
<1> QED
  BY <1>5, <1>6, <1>7 DEF StepsBy

\* What a step does whatever lies on the disk.
LEMMA WriteStepLater ==
  ASSUME NEW y, IsDisk(y.z), NEW n, NEW v
  PROVE  Later(y.z, writeStep(y, n, v).z) /\ writeStep(y, n, v).off = y.off + 1
<1>1. PICK z, g : /\ Stores(y, z, v)
                  /\ g = getOrAllocBlockByOffset(z, n, y.off + 1)
                  /\ writeStep(y, n, v).z = g.z
                  /\ writeStep(y, n, v).off = y.off + 1
                  /\ writeStep(y, n, v).blk = g.blk
  BY WriteStepIs DEF StepsBy
<1>2. Later(z, g.z)
  BY <1>1, BlockTaken DEF Stores
<1> QED
  BY <1>1, <1>2 DEF Stores, Later

\* The loop of fs_write.
Writing(f, z, n, off, vals) ==
  /\ f[0].z = getOrAllocBlockByOffset(z, n, off).z
  /\ f[0].blk = getOrAllocBlockByOffset(z, n, off).blk
  /\ f[0].off = off
  /\ \A i \in 0 .. Len(vals) - 1 : f[i + 1] = writeStep(f[i], n, vals[i + 1])

LEMMA WriteIs ==
  ASSUME NEW z, NEW n, NEW off, NEW vals, Len(vals) \in Nat, ~(off > z.disk[n].size)
  PROVE  \E f : /\ Writing(f, z, n, off, vals)
                /\ fs_write(z, n, off, vals) =
                     IF f[Len(vals)].off > z.disk[n].size
                     THEN [f[Len(vals)].z EXCEPT !.disk[n].size = f[Len(vals)].off]
                     ELSE f[Len(vals)].z
<1> DEFINE g == getOrAllocBlockByOffset(z, n, off)
           Start == [z |-> g.z, off |-> off, blk |-> g.blk]
           Of(f, i) == IF i = 0 THEN Start ELSE writeStep(f[i - 1], n, vals[i])
           Solves(f, k) == f = [i \in 0 .. k |-> Of(f, i)]
           G == {k \in 0 .. Len(vals) : \E f : Solves(f, k)}
<1>1. 0 \in G
  <2>1. Solves([i \in 0 .. 0 |-> Start], 0)
    OBVIOUS
  <2>2. \E f : Solves(f, 0)
    BY <2>1
  <2> HIDE DEF Solves
  <2> QED
    BY <2>2
<1>2. ASSUME NEW k \in 0 .. Len(vals) - 1, k \in G PROVE k + 1 \in G
  <2>1. PICK f : Solves(f, k)
    BY <1>2
  <2> HIDE DEF Start
  <2> DEFINE h == [i \in 0 .. k + 1 |-> IF i = k + 1 THEN Of(f, i) ELSE f[i]]
  <2>2. \A i \in 0 .. k + 1 : h[i] = Of(h, i)
    <3> SUFFICES ASSUME NEW i \in 0 .. k + 1 PROVE h[i] = Of(h, i)
      OBVIOUS
    <3>1. CASE i = 0
      BY <2>1, <3>1
    <3>2. CASE i # 0
      <4>1. i - 1 \in 0 .. k /\ i - 1 # k + 1
        BY <3>2
      <4>2. h[i - 1] = f[i - 1]
        BY <4>1
      <4>3. ASSUME i # k + 1 PROVE h[i] = Of(f, i)
        <5>1. i \in 0 .. k
          BY <4>3
        <5>2. f[i] = Of(f, i)
          BY <2>1, <5>1
        <5> QED
          BY <4>3, <5>2
      <4>4. h[i] = Of(f, i)
        BY <4>3
      <4> QED
        BY <3>2, <4>2, <4>4
    <3> QED
      BY <3>1, <3>2
  <2>3. Solves(h, k + 1)
    BY <2>2
  <2>4. \E e : Solves(e, k + 1)
    BY <2>3
  <2> HIDE DEF Solves
  <2> QED
    BY <2>4
<1> HIDE DEF G
<1>3. Len(vals) \in G
  <2>1. \A i \in 0 .. Len(vals) : i \in G
    BY <1>1, <1>2, LoopEnds, Zenon
  <2> QED
    BY <2>1
<1>4. \E f : Solves(f, Len(vals))
  BY <1>3 DEF G
<1> DEFINE c == CHOOSE f : Solves(f, Len(vals))
<1>5. fs_write(z, n, off, vals) =
        IF c[Len(vals)].off > z.disk[n].size
        THEN [c[Len(vals)].z EXCEPT !.disk[n].size = c[Len(vals)].off]
        ELSE c[Len(vals)].z
  BY Zenon DEF fs_write
<1>6. Solves(c, Len(vals))
  BY <1>4
<1> HIDE DEF c
<1>7. \A i \in 0 .. Len(vals) : c[i] = Of(c, i)
  BY <1>6
<1>8. c[0] = Start
  BY <1>7
<1>9. ASSUME NEW i \in 0 .. Len(vals) - 1
      PROVE  c[i + 1] = writeStep(c[i], n, vals[i + 1])
  <2>1. i + 1 \in 0 .. Len(vals) /\ i + 1 # 0 /\ (i + 1) - 1 = i
    OBVIOUS
  <2> QED
    BY <1>7, <2>1
<1>10. Writing(c, z, n, off, vals)
  BY <1>8, <1>9 DEF Writing
<1> QED
  BY <1>5, <1>10

LEMMA WritingLater ==
  ASSUME NEW z, IsDisk(z), NEW n, NEW off \in Nat, NEW vals, Len(vals) \in Nat,
         NEW f, Writing(f, z, n, off, vals)
  PROVE  \A i \in 0 .. Len(vals) : Later(z, f[i].z) /\ f[i].off = off + i
<1> DEFINE G == {i \in 0 .. Len(vals) : Later(z, f[i].z) /\ f[i].off = off + i}
<1>1. 0 \in G
  <2>1. Later(z, f[0].z)
    BY BlockTaken DEF Writing
  <2> QED
    BY <2>1 DEF Writing
<1>2. ASSUME NEW i \in 0 .. Len(vals) - 1, i \in G PROVE i + 1 \in G
  <2>1. f[i + 1] = writeStep(f[i], n, vals[i + 1]) /\ Later(z, f[i].z) /\ f[i].off = off + i
    BY <1>2 DEF Writing
  <2>2. Later(f[i].z, f[i + 1].z) /\ f[i + 1].off = off + i + 1
    BY <2>1, WriteStepLater DEF Later
  <2>3. Later(z, f[i + 1].z)
    BY <2>1, <2>2, LaterTrans
  <2>4. i + 1 \in 0 .. Len(vals) /\ off + i + 1 = off + (i + 1)
    OBVIOUS
  <2> QED
    BY <2>2, <2>3, <2>4
<1>3. \A i \in 0 .. Len(vals) : i \in G
  <2> HIDE DEF G
  <2> QED
    BY <1>1, <1>2, LoopEnds, Zenon
<1> QED
  BY <1>3

\* What i units of vals make of inode n: they are there, and what was mapped
\* stays.
Put(D, E, N, n, off, vals, i) ==
  /\ \A m \in N : E[m].mode = D[m].mode /\ E[m].size = D[m].size
  /\ \A m \in N, k \in Ks : At(D, m, k) # 0 => At(E, m, k) = At(D, m, k)
  /\ \A x \in off .. off + i : At(E, n, x \div UNITS) # 0
  /\ \A m \in N, x \in Offs :
       At(D, m, x \div UNITS) # 0 /\ ~(m = n /\ x \in off .. off + i - 1)
         => UnitIn(E, m, x) = UnitIn(D, m, x)
  /\ \A x \in off .. off + i - 1 : UnitIn(E, n, x) = vals[x - off + 1]

\* The state of the loop after i units.
Putting(z, own, N, n, off, vals, i, y) ==
  \E own2 : /\ Laid(y.z, N, own2) /\ Agree(own, own2, z.marked)
            /\ y.blk = At(y.z.disk, n, (off + i) \div UNITS) /\ y.blk # 0
            /\ Put(z.disk, y.z.disk, N, n, off, vals, i)

\* The units have blocks already.
Mapped(D, n, off, len) == \A x \in off .. off + len : At(D, n, x \div UNITS) # 0

LEMMA GrownStarts ==
  ASSUME NEW z, NEW own, NEW N, NEW n \in N, NEW off \in Offs, NEW vals,
         NEW y, Grown(z, own, y.z, N), y.blk = At(y.z.disk, n, off \div UNITS), y.blk # 0
  PROVE  Putting(z, own, N, n, off, vals, 0, y)
<1>1. PICK own2 : Laid(y.z, N, own2) /\ Agree(own, own2, z.marked) /\ Grows(z.disk, y.z.disk, N)
  BY DEF Grown
<1>2. off \in Nat /\ off + 0 = off /\ \A x : x \notin off .. off + 0 - 1
  BY OffsetParts
<1>3. \A m \in N, x \in Offs : At(z.disk, m, x \div UNITS) # 0
        => UnitIn(y.z.disk, m, x) = UnitIn(z.disk, m, x)
  BY <1>1, GrowsUnits
<1>4. \A x \in off .. off + 0 : At(y.z.disk, n, x \div UNITS) # 0
  <2>1. \A x \in off .. off + 0 : x = off
    BY <1>2
  <2> QED
    BY <2>1
<1>5. Put(z.disk, y.z.disk, N, n, off, vals, 0)
  BY <1>1, <1>2, <1>3, <1>4 DEF Put, Grows
<1> QED
  BY <1>1, <1>2, <1>5 DEF Putting

\* A unit more.
LEMMA PutStep ==
  ASSUME NEW D, NEW E, NEW F, NEW H, NEW N, NEW n \in N, NEW off \in Offs, NEW vals,
         NEW i \in Nat, off + i \in Offs, off + i + 1 \in Offs,
         Put(D, E, N, n, off, vals, i),
         \A m \in N : F[m] = E[m],
         \A m \in N, k \in Ks : At(F, m, k) = At(E, m, k),
         \A m \in N, x \in Offs :
           UnitIn(F, m, x) = IF m = n /\ x = off + i THEN vals[i + 1] ELSE UnitIn(E, m, x),
         Grows(F, H, N), At(H, n, (off + i + 1) \div UNITS) # 0
  PROVE  Put(D, H, N, n, off, vals, i + 1)
<1>0. off \in Nat /\ \A x \in Offs : x \in Nat /\ x \div UNITS \in Ks
  BY OffsetParts
<1>1. \A m \in N : H[m].mode = D[m].mode /\ H[m].size = D[m].size
  BY DEF Grows, Put
<1>2. \A m \in N, k \in Ks : At(D, m, k) # 0 => At(E, m, k) # 0 /\ At(H, m, k) = At(D, m, k)
  BY DEF Grows, Put
<1>3. \A x \in off .. off + i : x \in Offs /\ At(E, n, x \div UNITS) # 0
  <2>1. \A x \in off .. off + i : x \in Offs
    BY <1>0, OffsetsDown
  <2> QED
    BY <2>1 DEF Put
<1>4. \A x \in off .. off + i : At(F, n, x \div UNITS) # 0 /\ At(H, n, x \div UNITS) # 0
  <2> SUFFICES ASSUME NEW x \in off .. off + i
               PROVE  At(F, n, x \div UNITS) # 0 /\ At(H, n, x \div UNITS) # 0
    OBVIOUS
  <2>1. x \div UNITS \in Ks /\ At(E, n, x \div UNITS) # 0
    BY <1>0, <1>3
  <2> QED
    BY <2>1 DEF Grows
<1>5. \A x \in off .. off + (i + 1) : At(H, n, x \div UNITS) # 0
  <2> SUFFICES ASSUME NEW x \in off .. off + (i + 1) PROVE At(H, n, x \div UNITS) # 0
    OBVIOUS
  <2>1. x \in off .. off + i \/ x = off + i + 1
    BY <1>0
  <2> QED
    BY <1>4, <2>1
<1>6. ASSUME NEW m \in N, NEW x \in Offs, At(D, m, x \div UNITS) # 0,
             ~(m = n /\ x \in off .. off + (i + 1) - 1)
      PROVE  UnitIn(H, m, x) = UnitIn(D, m, x)
  <2>1. x \div UNITS \in Ks /\ x \in Nat
    BY <1>0
  <2>2. ~(m = n /\ x \in off .. off + i - 1) /\ ~(m = n /\ x = off + i)
    BY <1>0, <1>6, <2>1
  <2>3. UnitIn(E, m, x) = UnitIn(D, m, x)
    BY <1>6, <2>2 DEF Put
  <2>4. UnitIn(F, m, x) = UnitIn(E, m, x)
    BY <2>2
  <2>5. At(F, m, x \div UNITS) # 0
    BY <1>2, <1>6, <2>1
  <2>6. UnitIn(H, m, x) = UnitIn(F, m, x)
    BY <2>5, GrowsUnits
  <2> QED
    BY <2>3, <2>4, <2>6
<1>7. ASSUME NEW x \in off .. off + (i + 1) - 1
      PROVE  UnitIn(H, n, x) = vals[x - off + 1]
  <2>1. x \in off .. off + i /\ x \in Offs
    <3>1. x \in off .. off + i
      BY <1>0
    <3> QED
      BY <1>3, <3>1
  <2>2. UnitIn(H, n, x) = UnitIn(F, n, x)
    BY <1>4, <2>1, GrowsUnits
  <2>3. CASE x = off + i
    <3>1. x - off + 1 = i + 1
      BY <1>0, <2>3
    <3> QED
      BY <2>1, <2>2, <2>3, <3>1
  <2>4. CASE x # off + i
    <3>1. x \in off .. off + i - 1
      BY <1>0, <2>1, <2>4
    <3>2. UnitIn(E, n, x) = vals[x - off + 1]
      BY <3>1 DEF Put
    <3>3. UnitIn(F, n, x) = UnitIn(E, n, x)
      BY <2>1, <2>4
    <3> QED
      BY <2>2, <3>2, <3>3
  <2> QED
    BY <2>3, <2>4
<1> QED
  BY <1>1, <1>2, <1>5, <1>6, <1>7 DEF Put

\* Nothing but unit x of inode n differs.
Changed(D, E, N, n, x, v) ==
  /\ \A m \in N : E[m] = D[m]
  /\ \A m \in N, k \in Ks : At(E, m, k) = At(D, m, k)
  /\ \A m \in N, w \in Offs :
       UnitIn(E, m, w) = IF m = n /\ w = x THEN v ELSE UnitIn(D, m, w)

\* The disk with the unit stored has the layout it had.
LEMMA StoresUnit ==
  ASSUME NEW y, NEW z, NEW v, Stores(y, z, v), NEW N, NEW own, Laid(y.z, N, own),
         NEW n \in N, NEW x \in Offs, y.off = x,
         y.blk = At(y.z.disk, n, x \div UNITS), y.blk # 0
  PROVE  Laid(z, N, own) /\ Changed(y.z.disk, z.disk, N, n, x, v)
<1>1. PICK D : D = y.z.disk
  OBVIOUS
<1>2. PICK E : E = z.disk
  OBVIOUS
<1>3. PICK M : M = z.marked
  OBVIOUS
<1>4. Layout(M, D, N, own) /\ M = y.z.marked
  BY <1>1, <1>3 DEF Laid, Stores
<1>5. PICK b : b = At(D, n, x \div UNITS)
  OBVIOUS
<1>6. PICK u : u = Units([UnitsOf(D[b]) EXCEPT ![x % UNITS] = v])
  OBVIOUS
<1>7. E = [D EXCEPT ![b] = u]
  BY <1>1, <1>2, <1>5, <1>6 DEF Stores
<1>8. b \in Blocks /\ D = [c \in Blocks |-> D[c]]
  <2>1. b \in Blocks
    BY <1>4, <1>5, OffsetParts, AtOwned
  <2> QED
    BY <1>4, <2>1 DEF Layout, Formatted
<1>9. E = [c \in Blocks |-> E[c]] /\ E[b] = u /\ \A c \in Blocks \ {b} : E[c] = D[c]
  BY <1>7, <1>8
<1>10. UnitSet(D, E, At(D, n, x \div UNITS), x % UNITS, v)
  BY <1>5, <1>6, <1>9 DEF UnitSet, Maps
<1>11. At(D, n, x \div UNITS) # 0
  BY <1>1
<1>12. Layout(M, E, N, own)
  BY <1>4, <1>10, <1>11, StoreUnit
<1>13. \A m \in N : E[m] = D[m]
  BY <1>4, <1>10, <1>11, StoreUnit
<1>14. \A m \in N, k \in Ks : At(E, m, k) = At(D, m, k)
  BY <1>4, <1>10, <1>11, StoreUnit
<1>15. \A m \in N, w \in Offs :
         UnitIn(E, m, w) = IF m = n /\ w = x THEN v ELSE UnitIn(D, m, w)
  BY <1>4, <1>10, <1>11, StoreUnit
<1> QED
  BY <1>1, <1>2, <1>3, <1>12, <1>13, <1>14, <1>15 DEF Laid, Changed

\* One step of the loop.
LEMMA PuttingStep ==
  ASSUME NEW z, NEW own, NEW N, NEW n \in N, z.disk[n].mode # "DEV",
         NEW off \in Offs, NEW vals, NEW i \in Nat, off + i + 1 \in Offs,
         NEW y, Later(z, y.z), y.off = off + i,
         ~Full(y.z) => Putting(z, own, N, n, off, vals, i, y),
         ~Full(writeStep(y, n, vals[i + 1]).z)
  PROVE  Putting(z, own, N, n, off, vals, i + 1, writeStep(y, n, vals[i + 1]))
<1>1. PICK v : v = vals[i + 1]
  OBVIOUS
<1>2. PICK h : h = writeStep(y, n, v)
  OBVIOUS
<1>3. PICK x, g : /\ Stores(y, x, v)
                  /\ g = getOrAllocBlockByOffset(x, n, y.off + 1)
                  /\ h.z = g.z /\ h.blk = g.blk
  BY <1>2, WriteStepIs DEF Later, StepsBy
<1>4. IsDisk(x) /\ x.marked = y.z.marked
  BY <1>3 DEF Stores
<1>5. Later(x, g.z) /\ Settles(x, g.z, g.blk, n, (y.off + 1) \div UNITS)
  <2>1. Later(x, g.z)
    BY <1>3, <1>4, BlockTaken
  <2>2. Settles(x, g.z, g.blk, n, (y.off + 1) \div UNITS)
    BY <1>3, <1>4, BlockTaken
  <2> QED
    BY <2>1, <2>2
<1>6. ~Full(g.z) /\ ~Full(x) /\ ~Full(y.z)
  <2>1. ~Full(g.z)
    BY <1>1, <1>2, <1>3
  <2>2. ~Full(x)
    BY <1>5, <2>1, LaterFull
  <2> QED
    BY <1>4, <2>1, <2>2 DEF Full
<1>7. PICK own2 : /\ Laid(y.z, N, own2) /\ Agree(own, own2, z.marked)
                  /\ y.blk = At(y.z.disk, n, (off + i) \div UNITS) /\ y.blk # 0
                  /\ Put(z.disk, y.z.disk, N, n, off, vals, i)
  BY <1>6 DEF Putting
<1>8. off \in Nat /\ off + i \in Offs /\ off + i + 1 = off + (i + 1)
  BY OffsetsDown
<1> DEFINE o == off + i
<1>20. o \in Offs /\ y.off = o /\ y.blk = At(y.z.disk, n, o \div UNITS) /\ y.blk # 0
  BY <1>7, <1>8
<1> HIDE DEF o
<1>9. Laid(x, N, own2) /\ Changed(y.z.disk, x.disk, N, n, o, v)
  BY <1>3, <1>7, <1>20, StoresUnit
<1>10. \A m \in N : x.disk[m] = y.z.disk[m]
  BY <1>9 DEF Changed
<1>11. \A m \in N, k \in Ks : At(x.disk, m, k) = At(y.z.disk, m, k)
  BY <1>9 DEF Changed
<1>12. \A m \in N, w \in Offs :
         UnitIn(x.disk, m, w) = IF m = n /\ w = off + i THEN vals[i + 1]
                                ELSE UnitIn(y.z.disk, m, w)
  <2>1. \A m \in N, w \in Offs :
          UnitIn(x.disk, m, w) = IF m = n /\ w = o THEN v ELSE UnitIn(y.z.disk, m, w)
    BY <1>9 DEF Changed
  <2> QED
    BY <1>1, <2>1 DEF o
<1>13. x.disk[n].mode # "DEV"
  BY <1>7, <1>10 DEF Put
<1>14. (off + i + 1) \div UNITS \in Ks
  BY OffsetParts
<1>15. /\ Grown(x, own2, g.z, N) /\ g.blk # 0
       /\ g.blk = At(g.z.disk, n, (off + i + 1) \div UNITS)
  BY <1>5, <1>6, <1>9, <1>13, <1>14 DEF Settles
<1>16. PICK own3 : /\ Laid(g.z, N, own3) /\ Agree(own2, own3, x.marked)
                   /\ Grows(x.disk, g.z.disk, N)
  BY <1>15 DEF Grown
<1>17. Agree(own, own3, z.marked)
  BY <1>4, <1>7, <1>16 DEF Agree, Later
<1>18. Put(z.disk, g.z.disk, N, n, off, vals, i + 1)
  BY <1>7, <1>8, <1>10, <1>11, <1>12, <1>15, <1>16, PutStep
<1>19. Putting(z, own, N, n, off, vals, i + 1, h)
  BY <1>3, <1>8, <1>15, <1>16, <1>17, <1>18 DEF Putting
<1> QED
  BY <1>1, <1>2, <1>19

\* The loop puts the units down one after the other.
LEMMA WritePuts ==
  ASSUME NEW z, IsDisk(z), NEW N, NEW own, Laid(z, N, own),
         NEW n \in N, z.disk[n].mode # "DEV", NEW vals, Len(vals) \in Nat,
         NEW off \in Offs, off + Len(vals) \in Offs,
         NEW f, Writing(f, z, n, off, vals)
  PROVE  \A i \in 0 .. Len(vals) : ~Full(f[i].z) => Putting(z, own, N, n, off, vals, i, f[i])
<1> DEFINE G == {i \in 0 .. Len(vals) : ~Full(f[i].z) => Putting(z, own, N, n, off, vals, i, f[i])}
<1>0. off \in Nat
  BY OffsetsDown
<1>1. 0 \in G
  <2>1. PICK g : g = getOrAllocBlockByOffset(z, n, off)
    OBVIOUS
  <2>2. f[0].z = g.z /\ f[0].blk = g.blk
    BY <2>1 DEF Writing
  <2>3. Settles(z, g.z, g.blk, n, off \div UNITS)
    BY <2>1, BlockTaken
  <2>4. off \div UNITS \in Ks
    BY OffsetParts
  <2>5. ASSUME ~Full(f[0].z)
        PROVE  Grown(z, own, f[0].z, N) /\ f[0].blk = At(f[0].z.disk, n, off \div UNITS) /\ f[0].blk # 0
    BY <2>2, <2>3, <2>4, <2>5 DEF Settles
  <2>6. ASSUME ~Full(f[0].z) PROVE Putting(z, own, N, n, off, vals, 0, f[0])
    BY <2>5, <2>6, GrownStarts
  <2> QED
    BY <2>6
<1>2. ASSUME NEW i \in 0 .. Len(vals) - 1, i \in G PROVE i + 1 \in G
  <2>1. f[i + 1] = writeStep(f[i], n, vals[i + 1])
    BY DEF Writing
  <2>2. Later(z, f[i].z) /\ f[i].off = off + i
    <3>1. \A j \in 0 .. Len(vals) : Later(z, f[j].z) /\ f[j].off = off + j
      BY <1>0, WritingLater
    <3>2. i \in 0 .. Len(vals)
      OBVIOUS
    <3> QED
      BY <3>1, <3>2
  <2>3. ~Full(f[i].z) => Putting(z, own, N, n, off, vals, i, f[i])
    BY <1>2
  <2>4. off + i + 1 \in Offs /\ i \in Nat /\ i + 1 \in 0 .. Len(vals)
    BY <1>0, OffsetsDown
  <2>5. ASSUME ~Full(f[i + 1].z) PROVE Putting(z, own, N, n, off, vals, i + 1, f[i + 1])
    BY <2>1, <2>2, <2>3, <2>4, <2>5, PuttingStep
  <2> QED
    BY <2>4, <2>5
<1>3. \A i \in 0 .. Len(vals) : i \in G
  <2> HIDE DEF G
  <2> QED
    BY <1>1, <1>2, LoopEnds, Zenon
<1> QED
  BY <1>3

\* Where every unit has its block the loop takes none.
LEMMA WriteStays ==
  ASSUME NEW z, IsDisk(z), NEW N, NEW own, Laid(z, N, own),
         NEW n \in N, z.disk[n].mode # "DEV", NEW vals, Len(vals) \in Nat,
         NEW off \in Offs, off + Len(vals) \in Offs,
         NEW f, Writing(f, z, n, off, vals),
         ~Full(z), Mapped(z.disk, n, off, Len(vals))
  PROVE  f[Len(vals)].z.marked = z.marked
<1> DEFINE G == {i \in 0 .. Len(vals) : f[i].z.marked = z.marked}
<1>0. off \in Nat
  BY OffsetsDown
<1>1. 0 \in G
  <2>1. PICK g : g = getOrAllocBlockByOffset(z, n, off)
    OBVIOUS
  <2>2. At(z.disk, n, off \div UNITS) # 0
    BY <1>0 DEF Mapped
  <2>3. g.z = z
    BY <2>1, <2>2, BlockTaken
  <2> QED
    BY <2>1, <2>3 DEF Writing
<1>2. ASSUME NEW i \in 0 .. Len(vals) - 1, i \in G PROVE i + 1 \in G
  <2>1. PICK y : y = f[i]
    OBVIOUS
  <2>2. PICK v : v = vals[i + 1]
    OBVIOUS
  <2>3. f[i + 1] = writeStep(y, n, v)
    BY <2>1, <2>2 DEF Writing
  <2>4. Later(z, y.z) /\ y.off = off + i
    <3>1. \A j \in 0 .. Len(vals) : Later(z, f[j].z) /\ f[j].off = off + j
      BY <1>0, WritingLater
    <3>2. i \in 0 .. Len(vals)
      OBVIOUS
    <3> QED
      BY <2>1, <3>1, <3>2
  <2>5. y.z.marked = z.marked /\ ~Full(y.z)
    BY <1>2, <2>1 DEF Full
  <2>6. Putting(z, own, N, n, off, vals, i, y)
    <3>1. \A j \in 0 .. Len(vals) : ~Full(f[j].z) => Putting(z, own, N, n, off, vals, j, f[j])
      BY WritePuts
    <3>2. i \in 0 .. Len(vals)
      OBVIOUS
    <3> QED
      BY <2>1, <2>5, <3>1, <3>2
  <2>7. PICK own2 : /\ Laid(y.z, N, own2)
                    /\ y.blk = At(y.z.disk, n, (off + i) \div UNITS) /\ y.blk # 0
                    /\ Put(z.disk, y.z.disk, N, n, off, vals, i)
    BY <2>6 DEF Putting
  <2>8. PICK x, g : /\ Stores(y, x, v)
                    /\ g = getOrAllocBlockByOffset(x, n, y.off + 1)
                    /\ writeStep(y, n, v).z = g.z
    <3>1. IsDisk(y.z)
      BY <2>4 DEF Later
    <3>2. PICK x, g : StepsBy(y, n, v, x, g)
      BY <3>1, WriteStepIs
    <3> QED
      BY <3>2, Zenon DEF StepsBy
  <2> DEFINE o == off + i
  <2>9. /\ o \in Offs /\ y.off = o /\ y.blk = At(y.z.disk, n, o \div UNITS) /\ y.blk # 0
        /\ o + 1 \in Offs /\ o + 1 \in off .. off + Len(vals)
    BY <1>0, <2>4, <2>7, OffsetsDown
  <2> HIDE DEF o
  <2>10. Laid(x, N, own2) /\ Changed(y.z.disk, x.disk, N, n, o, v)
    BY <2>7, <2>8, <2>9, StoresUnit
  <2>11. At(x.disk, n, (o + 1) \div UNITS) # 0
    <3>1. (o + 1) \div UNITS \in Ks
      BY <2>9, OffsetParts
    <3>2. At(z.disk, n, (o + 1) \div UNITS) # 0
      BY <2>9 DEF Mapped
    <3> QED
      BY <2>7, <2>10, <3>1, <3>2 DEF Put, Changed
  <2>12. g.z = x
    BY <2>8, <2>9, <2>11, BlockTaken DEF Stores
  <2>13. f[i + 1].z.marked = z.marked
    BY <2>3, <2>5, <2>8, <2>12 DEF Stores
  <2> QED
    BY <2>13
<1>3. \A i \in 0 .. Len(vals) : i \in G
  <2> HIDE DEF G
  <2> QED
    BY <1>1, <1>2, LoopEnds, Zenon
<1> QED
  BY <1>3

\* What fs_write makes of inode n: the units are there, the size is no smaller
\* and reaches behind them, and what was mapped stays.
Written(D, E, N, n, off, vals) ==
  /\ \A m \in N : /\ E[m].mode = D[m].mode
                  /\ E[m].size = IF m = n /\ off + Len(vals) > D[n].size THEN off + Len(vals)
                                 ELSE D[m].size
  /\ \A m \in N, k \in Ks : At(D, m, k) # 0 => At(E, m, k) = At(D, m, k)
  /\ \A x \in off .. off + Len(vals) : At(E, n, x \div UNITS) # 0
  /\ \A m \in N, x \in Offs :
       At(D, m, x \div UNITS) # 0 /\ ~(m = n /\ x \in off .. off + Len(vals) - 1)
         => UnitIn(E, m, x) = UnitIn(D, m, x)
  /\ \A x \in off .. off + Len(vals) - 1 : UnitIn(E, n, x) = vals[x - off + 1]

\* The end of fs_write: the size follows.
Sized(y, w, n, s, size) ==
  w = IF s > size THEN [y EXCEPT !.disk[n].size = s] ELSE y

LEMMA SizedIs ==
  ASSUME NEW y, IsDisk(y), NEW w, NEW n, NEW s, NEW size, Sized(y, w, n, s, size)
  PROVE  /\ IsDisk(w) /\ w.marked = y.marked /\ w.kept = y.kept
         /\ s > size => w.disk = [y.disk EXCEPT ![n].size = s]
         /\ ~(s > size) => w.disk = y.disk
<1>1. CASE s > size
  <2>1. w = [y EXCEPT !.disk[n].size = s]
    BY <1>1 DEF Sized
  <2>2. w = [y EXCEPT !.disk = [y.disk EXCEPT ![n].size = s]]
    BY <2>1
  <2> QED
    BY <1>1, <2>2 DEF IsDisk
<1>2. CASE ~(s > size)
  BY <1>2 DEF Sized
<1> QED
  BY <1>1, <1>2

LEMMA WriteLater ==
  ASSUME NEW z, IsDisk(z), NEW n, NEW off \in Nat, NEW vals, Len(vals) \in Nat,
         ~(off > z.disk[n].size)
  PROVE  Later(z, fs_write(z, n, off, vals))
<1>1. PICK f : /\ Writing(f, z, n, off, vals)
               /\ fs_write(z, n, off, vals) =
                    IF f[Len(vals)].off > z.disk[n].size
                    THEN [f[Len(vals)].z EXCEPT !.disk[n].size = f[Len(vals)].off]
                    ELSE f[Len(vals)].z
  BY WriteIs
<1>2. PICK y : y = f[Len(vals)]
  OBVIOUS
<1>3. Later(z, y.z)
  <2>1. \A i \in 0 .. Len(vals) : Later(z, f[i].z) /\ f[i].off = off + i
    BY <1>1, WritingLater
  <2> QED
    BY <1>2, <2>1
<1>4. Sized(y.z, fs_write(z, n, off, vals), n, y.off, z.disk[n].size)
  BY <1>1, <1>2 DEF Sized
<1>5. PICK w : w = fs_write(z, n, off, vals)
  OBVIOUS
<1>6. IsDisk(w) /\ w.marked = y.z.marked /\ w.kept = y.z.kept
  BY <1>3, <1>4, <1>5, SizedIs DEF Later
<1> QED
  BY <1>3, <1>5, <1>6 DEF Later

\* Disk w is z with the units written.
Wrote(z, own, w, N, n, off, vals) ==
  \E own2 : /\ Laid(w, N, own2) /\ Agree(own, own2, z.marked)
            /\ Written(z.disk, w.disk, N, n, off, vals)

\* The loop has put everything down, and the size follows.
LEMMA PutWrites ==
  ASSUME NEW z, NEW own, NEW N, NEW n \in N, NEW off \in Nat, NEW vals, Len(vals) \in Nat,
         off + Len(vals) \in Offs,
         NEW y, IsDisk(y.z), Putting(z, own, N, n, off, vals, Len(vals), y),
         NEW w, Sized(y.z, w, n, off + Len(vals), z.disk[n].size)
  PROVE  Wrote(z, own, w, N, n, off, vals)
<1>1. PICK own2 : /\ Laid(y.z, N, own2) /\ Agree(own, own2, z.marked)
                  /\ Put(z.disk, y.z.disk, N, n, off, vals, Len(vals))
  BY DEF Putting
<1>2. PICK D, E, F, M, s : /\ D = z.disk /\ E = y.z.disk /\ F = w.disk /\ M = w.marked
                           /\ s = off + Len(vals)
  OBVIOUS
<1>3. /\ M = y.z.marked
      /\ s > D[n].size => F = [E EXCEPT ![n].size = s]
      /\ ~(s > D[n].size) => F = E
  <2>1. PICK u, size : u = y.z /\ size = D[n].size
    OBVIOUS
  <2>2. IsDisk(u) /\ Sized(u, w, n, s, size)
    BY <1>2, <2>1
  <2>3. w.marked = u.marked
    BY <2>2, SizedIs
  <2>4. s > size => w.disk = [u.disk EXCEPT ![n].size = s]
    BY <2>2, SizedIs
  <2>5. ~(s > size) => w.disk = u.disk
    BY <2>2, SizedIs
  <2> QED
    BY <1>2, <2>1, <2>3, <2>4, <2>5
<1>4. Layout(M, E, N, own2) /\ Put(D, E, N, n, off, vals, Len(vals))
  BY <1>1, <1>2, <1>3 DEF Laid
<1>5. CASE s > D[n].size
  <2>1. n \in Blocks /\ E = [c \in Blocks |-> E[c]]
    BY <1>4 DEF Layout, Formatted
  <2>2. SizeSet(E, F, n, s)
    BY <1>3, <1>5, <2>1 DEF SizeSet, Maps
  <2>3. s \in Nat
    BY <1>2
  <2>4. Layout(M, F, N, own2)
    BY <1>4, <2>2, <2>3, NewSize
  <2>5. \A m \in N : F[m].mode = E[m].mode /\ F[m].size = IF m = n THEN s ELSE E[m].size
    BY <1>4, <2>2, <2>3, NewSize
  <2>6. \A m \in N, k \in Ks : At(F, m, k) = At(E, m, k)
    BY <1>4, <2>2, <2>3, NewSize
  <2>7. \A m \in N, x \in Offs : UnitIn(F, m, x) = UnitIn(E, m, x)
    BY <1>4, <2>2, <2>3, NewSize
  <2>8. Written(D, F, N, n, off, vals)
    <3>1. \A m \in N : /\ F[m].mode = D[m].mode
                       /\ F[m].size = IF m = n /\ off + Len(vals) > D[n].size THEN off + Len(vals)
                                      ELSE D[m].size
      BY <1>2, <1>4, <1>5, <2>5 DEF Put
    <3>2. \A m \in N, k \in Ks : At(D, m, k) # 0 => At(F, m, k) = At(D, m, k)
      BY <1>4, <2>6 DEF Put
    <3>3. \A x \in off .. off + Len(vals) : x \in Offs
      <4>2. \A x \in off .. off + Len(vals) : x \in Nat /\ x <= off + Len(vals)
        OBVIOUS
      <4> QED
        BY <4>2, OffsetsDown
    <3>4. \A x \in off .. off + Len(vals) : At(F, n, x \div UNITS) # 0
      BY <1>4, <2>6, <3>3, OffsetParts DEF Put
    <3>5. \A m \in N, x \in Offs :
            At(D, m, x \div UNITS) # 0 /\ ~(m = n /\ x \in off .. off + Len(vals) - 1)
              => UnitIn(F, m, x) = UnitIn(D, m, x)
      BY <1>4, <2>7 DEF Put
    <3>6. ASSUME NEW x \in off .. off + Len(vals) - 1 PROVE UnitIn(F, n, x) = vals[x - off + 1]
      <4>1. UnitIn(E, n, x) = vals[x - off + 1]
        BY <1>4 DEF Put
      <4>2. x \in off .. off + Len(vals)
        OBVIOUS
      <4> QED
        BY <2>7, <3>3, <4>1, <4>2
    <3> QED
      BY <3>1, <3>2, <3>4, <3>5, <3>6 DEF Written
  <2> QED
    BY <1>1, <1>2, <2>4, <2>8 DEF Wrote, Laid
<1>6. CASE ~(s > D[n].size)
  <2>1. Written(D, F, N, n, off, vals)
    BY <1>2, <1>3, <1>4, <1>6 DEF Put, Written
  <2> QED
    BY <1>1, <1>2, <1>3, <1>4, <1>6, <2>1 DEF Wrote, Laid
<1> QED
  BY <1>5, <1>6

\* What fs_write does, in room or where nothing has to be taken.
LEMMA WriteDone ==
  ASSUME NEW z, IsDisk(z), NEW N, NEW own, Laid(z, N, own),
         NEW n \in N, z.disk[n].mode # "DEV", NEW off \in Nat, NEW vals, Len(vals) \in Nat,
         ~(off > z.disk[n].size), off + Len(vals) \in Offs,
         NEW w, w = fs_write(z, n, off, vals),
         ~Full(w) \/ (~Full(z) /\ Mapped(z.disk, n, off, Len(vals)))
  PROVE  ~Full(w) /\ Later(z, w) /\ Wrote(z, own, w, N, n, off, vals)
<1>1. PICK f : /\ Writing(f, z, n, off, vals)
               /\ fs_write(z, n, off, vals) =
                    IF f[Len(vals)].off > z.disk[n].size
                    THEN [f[Len(vals)].z EXCEPT !.disk[n].size = f[Len(vals)].off]
                    ELSE f[Len(vals)].z
  BY WriteIs
<1>2. PICK y : y = f[Len(vals)]
  OBVIOUS
<1>3. Later(z, y.z) /\ y.off = off + Len(vals)
  <2>1. \A i \in 0 .. Len(vals) : Later(z, f[i].z) /\ f[i].off = off + i
    BY <1>1, WritingLater
  <2> QED
    BY <1>2, <2>1
<1>4. PICK s, size : s = off + Len(vals) /\ size = z.disk[n].size
  OBVIOUS
<1>5. Sized(y.z, w, n, s, size)
  BY <1>1, <1>2, <1>3, <1>4 DEF Sized
<1>6. w.marked = y.z.marked /\ Later(z, w)
  <2>1. PICK u : u = y.z
    OBVIOUS
  <2>2. IsDisk(w) /\ w.marked = u.marked /\ w.kept = u.kept
    BY <1>3, <1>5, <2>1, SizedIs DEF Later
  <2> QED
    BY <1>3, <2>1, <2>2 DEF Later
<1>7. off \in Offs
  BY OffsetsDown
<1>8. ~Full(y.z)
  <2>1. CASE ~Full(w)
    BY <1>6, <2>1 DEF Full
  <2>2. CASE ~Full(z) /\ Mapped(z.disk, n, off, Len(vals))
    <3>1. y.z.marked = z.marked
      BY <1>1, <1>2, <1>7, <2>2, WriteStays
    <3> QED
      BY <2>2, <3>1 DEF Full
  <2> QED
    BY <2>1, <2>2
<1>9. Putting(z, own, N, n, off, vals, Len(vals), y)
  <2>1. \A i \in 0 .. Len(vals) : ~Full(f[i].z) => Putting(z, own, N, n, off, vals, i, f[i])
    BY <1>1, <1>7, WritePuts
  <2> QED
    BY <1>2, <1>8, <2>1
<1>10. Wrote(z, own, w, N, n, off, vals)
  <2>1. Sized(y.z, w, n, off + Len(vals), z.disk[n].size)
    BY <1>4, <1>5
  <2> QED
    BY <1>3, <1>9, <2>1, PutWrites DEF Later
<1>11. ~Full(w)
  BY <1>6, <1>8 DEF Full
<1> QED
  BY <1>6, <1>10, <1>11

-----------------------------------------------------------------------------
(* What files and directories hold                                         *)

IsEntry(u, K) == u = [name |-> u.name, idx |-> u.idx] /\ (u = Hole \/ u.idx \in K)
IsValue(u) == u = [val |-> u.val]
Bound(mode) == IF mode = "DIR" THEN MaxEntries ELSE MaxSize

\* Files and directories have their blocks, up to the one behind the end, and
\* files hold data.
Shape(D, N) ==
  \A m \in N :
    /\ D[m].mode = "DEV" => D[m].size <= UNITS
    /\ D[m].mode # "DEV" => /\ D[m].size <= Bound(D[m].mode)
                            /\ D[m].size > 0 => Mapped(D, m, 0, D[m].size)
    /\ D[m].mode = "REG" => \A x \in 0 .. D[m].size - 1 : IsValue(UnitIn(D, m, x))

\* Unit x of m is an entry of a directory; the entries name inodes of K, and those
\* of S no more than once.
InDir(D, N, m, x) == m \in N /\ D[m].mode = "DIR" /\ x \in 0 .. D[m].size - 1
Entries(D, N, K) == \A m, x : InDir(D, N, m, x) => IsEntry(UnitIn(D, m, x), K)
Single(D, N, S) ==
  \A m, n, x, y : /\ InDir(D, N, m, x) /\ InDir(D, N, n, y)
                  /\ UnitIn(D, m, x).idx \in S /\ UnitIn(D, n, y).idx = UnitIn(D, m, x).idx
                  => m = n /\ x = y

\* The names of files and directories; every directory names itself and the one
\* it lies in by two others.
Proper == STRING \ {"", ".", ".."}

\* Directory m has inode i under the name.
Link(D, N, m, name, i) ==
  /\ name \in Proper
  /\ \E x : InDir(D, N, m, x) /\ UnitIn(D, m, x).name = name /\ UnitIn(D, m, x).idx = i

\* What inode m shows of itself: its kind, and the data of a file.
View(D, m) ==
  [mode |-> D[m].mode,
   data |-> IF D[m].mode # "REG" THEN <<>>
            ELSE [i \in 1 .. D[m].size |-> UnitIn(D, m, i - 1).val]]

SameViews(D, E, N) == \A m \in N : View(E, m) = View(D, m)
SameLinks(D, E, N) == \A m, name, i : Link(E, N, m, name, i) <=> Link(D, N, m, name, i)

\* Unit off of directory n becomes u, and no other entry changes.
OneEntry(D, E, N, n, off, u) ==
  /\ InDir(E, N, n, off) /\ UnitIn(E, n, off) = u
  /\ \A m, x : ~(m = n /\ x = off) =>
       /\ InDir(E, N, m, x) <=> InDir(D, N, m, x)
       /\ InDir(E, N, m, x) => UnitIn(E, m, x) = UnitIn(D, m, x)

LEMMA Bounds ==
  /\ MaxSize \in Offs /\ MaxEntries \in Offs
  /\ \A mode : Bound(mode) \in Offs /\ Bound(mode) \in Nat
  /\ MaxEntries >= 2
<1> DEFINE m == (DIRECT_INDEXES_CNT + INDEXES * ENTRIES) * UNITS
<1>1. Offs = 0 .. m - 1
  BY Zenon DEF Offs
<1>2. \A b \in {MaxSize, MaxEntries} : b < m
  BY RlFsAssumption, Zenon
<1>3. MaxSize \in Nat /\ MaxEntries \in Nat /\ MaxEntries >= 2
  BY RlFsAssumption, Zenon
<1>4. m \in Nat
  <2>1. INDEXES * ENTRIES \in Nat /\ DIRECT_INDEXES_CNT \in Nat /\ UNITS \in Nat
    BY Sizings
  <2>2. \A a \in Nat : (DIRECT_INDEXES_CNT + a) * UNITS \in Nat
    BY <2>1
  <2> QED
    BY <2>1, <2>2, Zenon
<1> HIDE DEF m
<1> QED
  BY <1>1, <1>2, <1>3, <1>4 DEF Bound

\* A write keeps the shape.
LEMMA WrittenShape ==
  ASSUME NEW M, NEW D, NEW N, NEW own, Layout(M, D, N, own), Shape(D, N),
         NEW n \in N, D[n].mode # "DEV", NEW off \in Nat, off <= D[n].size,
         NEW vals, Len(vals) \in Nat \ {0}, off + Len(vals) <= Bound(D[n].mode),
         D[n].mode = "REG" => \A i \in 1 .. Len(vals) : IsValue(vals[i]),
         NEW E, Written(D, E, N, n, off, vals)
  PROVE  Shape(E, N)
<1> DEFINE end == off + Len(vals)
<1>0. end \in Nat /\ off < end /\ end \in Offs
  <2>1. end \in Nat /\ off < end
    OBVIOUS
  <2> QED
    BY <2>1, Bounds, OffsetsDown
<1>1. \A m \in N : /\ D[m].size \in Nat /\ E[m].mode = D[m].mode
                   /\ E[m].size = IF m = n /\ end > D[n].size THEN end ELSE D[m].size
  BY Inodes DEF Written, IsNode
<1>2. /\ \A m \in N, k \in Ks : At(D, m, k) # 0 => At(E, m, k) = At(D, m, k)
      /\ \A x \in off .. end : At(E, n, x \div UNITS) # 0
      /\ \A m \in N, x \in Offs :
           At(D, m, x \div UNITS) # 0 /\ ~(m = n /\ x \in off .. end - 1)
             => UnitIn(E, m, x) = UnitIn(D, m, x)
      /\ \A x \in off .. end - 1 : UnitIn(E, n, x) = vals[x - off + 1]
  BY DEF Written
<1>9. off + Len(vals) = end
  OBVIOUS
<1> HIDE DEF end
<1>3. \A m \in N : D[m].mode # "DEV" => E[m].size <= Bound(E[m].mode)
  BY <1>1, <1>9 DEF Shape
<1>4. ASSUME NEW m \in N, D[m].mode # "DEV", NEW x \in 0 .. D[m].size, D[m].size > 0
      PROVE  x \in Offs /\ x \div UNITS \in Ks /\ At(D, m, x \div UNITS) # 0
  <2>1. At(D, m, x \div UNITS) # 0
    BY <1>1, <1>4 DEF Shape, Mapped
  <2>2. D[m].size <= Bound(D[m].mode) /\ D[m].size \in Nat
    BY <1>1, <1>4 DEF Shape
  <2>3. x \in Nat /\ x <= Bound(D[m].mode)
    BY <2>2, Bounds
  <2>4. x \in Offs
    BY <2>3, Bounds, OffsetsDown
  <2> QED
    BY <2>1, <2>4, OffsetParts
<1>5. ASSUME NEW m \in N, D[m].mode # "DEV", NEW x \in 0 .. E[m].size, E[m].size > 0
      PROVE  At(E, m, x \div UNITS) # 0
  <2>1. CASE m = n /\ x \in off .. end
    BY <1>2, <2>1
  <2>2. CASE ~(m = n /\ x \in off .. end)
    <3>1. x \in 0 .. D[m].size /\ D[m].size > 0
      <4>1. CASE m = n
        <5>1. x < off \/ x > end
          BY <1>0, <1>1, <2>2, <4>1
        <5> QED
          BY <1>0, <1>1, <4>1, <5>1
      <4>2. CASE m # n
        BY <1>1, <1>5, <4>2
      <4> QED
        BY <4>1, <4>2
    <3> QED
      BY <1>2, <1>4, <1>5, <3>1
  <2> QED
    BY <2>1, <2>2
<1>6. ASSUME NEW m \in N, D[m].mode = "REG", NEW x \in 0 .. E[m].size - 1
      PROVE  IsValue(UnitIn(E, m, x))
  <2>1. CASE m = n /\ x \in off .. end - 1
    <3>1. x - off + 1 \in 1 .. Len(vals)
      BY <1>0, <1>9, <2>1
    <3> QED
      BY <1>2, <1>6, <2>1, <3>1
  <2>2. CASE ~(m = n /\ x \in off .. end - 1)
    <3>1. x \in 0 .. D[m].size - 1
      BY <1>0, <1>1, <2>2
    <3>2. IsValue(UnitIn(D, m, x))
      BY <1>6, <3>1 DEF Shape
    <3>3. x \in 0 .. D[m].size /\ D[m].size > 0 /\ D[m].mode # "DEV"
      BY <1>1, <1>6, <3>1
    <3>4. x \in Offs /\ At(D, m, x \div UNITS) # 0
      BY <1>4, <3>3
    <3> QED
      BY <1>2, <2>2, <3>2, <3>4
  <2> QED
    BY <2>1, <2>2
<1>7. \A m \in N : E[m].mode # "DEV" => (E[m].size > 0 => Mapped(E, m, 0, E[m].size))
  <2> SUFFICES ASSUME NEW m \in N, E[m].mode # "DEV", E[m].size > 0
               PROVE  \A x \in 0 .. 0 + E[m].size : At(E, m, x \div UNITS) # 0
    BY DEF Mapped
  <2>1. 0 + E[m].size = E[m].size /\ D[m].mode # "DEV"
    BY <1>0, <1>1
  <2> QED
    BY <1>5, <2>1
<1>8. \A m \in N : E[m].mode = "DEV" => E[m].size <= UNITS
  BY <1>1 DEF Shape
<1> QED
  BY <1>1, <1>3, <1>6, <1>7, <1>8 DEF Shape

\* After a write an entry is the one written or one that was there.
LEMMA WrittenEntries ==
  ASSUME NEW M, NEW D, NEW N, NEW own, Layout(M, D, N, own), Shape(D, N),
         NEW n \in N, D[n].mode # "DEV", NEW off \in Nat, off <= D[n].size,
         NEW vals, Len(vals) \in Nat \ {0}, NEW E, Written(D, E, N, n, off, vals),
         NEW m, NEW x, InDir(E, N, m, x)
  PROVE  \/ m = n /\ x \in off .. off + Len(vals) - 1 /\ UnitIn(E, m, x) = vals[x - off + 1]
         \/ /\ ~(m = n /\ x \in off .. off + Len(vals) - 1)
            /\ InDir(D, N, m, x) /\ UnitIn(E, m, x) = UnitIn(D, m, x)
<1>1. m \in N /\ E[m].mode = "DIR" /\ x \in 0 .. E[m].size - 1
  BY DEF InDir
<1>2. /\ D[m].size \in Nat /\ D[n].size \in Nat /\ E[m].mode = D[m].mode
      /\ E[m].size = IF m = n /\ off + Len(vals) > D[n].size THEN off + Len(vals) ELSE D[m].size
  BY <1>1, Inodes DEF Written, IsNode
<1>3. CASE m = n /\ x \in off .. off + Len(vals) - 1
  BY <1>3 DEF Written
<1>4. CASE ~(m = n /\ x \in off .. off + Len(vals) - 1)
  <2>1. x \in 0 .. D[m].size - 1 /\ D[m].size > 0
    BY <1>1, <1>2, <1>4
  <2>2. InDir(D, N, m, x)
    BY <1>1, <1>2, <2>1 DEF InDir
  <2>3. Mapped(D, m, 0, D[m].size) /\ D[m].size <= Bound(D[m].mode)
    BY <1>1, <1>2, <2>1 DEF Shape
  <2>4. x \in Offs
    BY <1>2, <2>1, <2>3, Bounds, OffsetsDown
  <2>5. At(D, m, x \div UNITS) # 0
    BY <1>2, <2>1, <2>3 DEF Mapped
  <2> QED
    BY <1>1, <1>4, <2>2, <2>4, <2>5 DEF Written
<1> QED
  BY <1>3, <1>4

\* A write shows in the inode it is made to, when that is a file.
LEMMA WrittenViews ==
  ASSUME NEW M, NEW D, NEW N, NEW own, Layout(M, D, N, own), Shape(D, N),
         NEW n \in N, NEW off \in Nat, NEW vals, Len(vals) \in Nat \ {0},
         NEW E, Written(D, E, N, n, off, vals),
         NEW m \in N, m # n \/ D[n].mode # "REG"
  PROVE  View(E, m) = View(D, m)
<1>1. /\ D[m].size \in Nat /\ E[m].mode = D[m].mode
      /\ m # n => E[m].size = D[m].size
  BY Inodes DEF Written, IsNode
<1>2. CASE D[m].mode # "REG"
  BY <1>1, <1>2 DEF View
<1>3. CASE D[m].mode = "REG"
  <2>1. m # n /\ E[m].size = D[m].size
    BY <1>1, <1>3
  <2>2. ASSUME NEW i \in 1 .. D[m].size PROVE UnitIn(E, m, i - 1) = UnitIn(D, m, i - 1)
    <3>1. D[m].size > 0 /\ i - 1 \in 0 .. 0 + D[m].size /\ i - 1 \in Nat /\ i - 1 <= D[m].size
      BY <1>1
    <3>2. Mapped(D, m, 0, D[m].size) /\ D[m].size <= Bound(D[m].mode)
      BY <1>3, <3>1 DEF Shape
    <3>3. Bound(D[m].mode) \in Offs /\ Bound(D[m].mode) \in Nat
      BY Bounds
    <3>4. i - 1 <= Bound(D[m].mode)
      BY <1>1, <3>1, <3>2, <3>3
    <3>5. i - 1 \in Offs
      BY <3>1, <3>3, <3>4, OffsetsDown
    <3>6. At(D, m, (i - 1) \div UNITS) # 0
      BY <3>1, <3>2 DEF Mapped
    <3> QED
      BY <2>1, <3>5, <3>6 DEF Written
  <2>3. PICK s : s = D[m].size
    OBVIOUS
  <2>4. \A i \in 1 .. s : UnitIn(E, m, i - 1).val = UnitIn(D, m, i - 1).val
    BY <2>2, <2>3
  <2>5. [i \in 1 .. s |-> UnitIn(E, m, i - 1).val] = [i \in 1 .. s |-> UnitIn(D, m, i - 1).val]
    BY <2>4
  <2> QED
    BY <1>1, <2>1, <2>3, <2>5, Zenon DEF View
<1> QED
  BY <1>2, <1>3

\* The disk in order: N are its inodes, own says where its blocks stand, entries
\* name inodes of K, and those of S once.
Tree(z, N, own, K, S) ==
  /\ IsDisk(z) /\ Laid(z, N, own)
  /\ Shape(z.disk, N) /\ Entries(z.disk, N, K) /\ Single(z.disk, N, S)

LEMMA TreeNodes ==
  ASSUME NEW z, NEW N, NEW own, NEW K, NEW S, Tree(z, N, own, K, S), NEW m \in N
  PROVE  /\ m \in Blocks /\ m \in z.marked /\ m \in Nat /\ m # 0 /\ m >= ROOT
         /\ IsNode(z.disk[m]) /\ z.disk[m].size \in Nat
         /\ z.disk[m].mode \in {"REG", "DIR", "DEV"}
<1>1. PICK D : D = z.disk
  OBVIOUS
<1>2. Layout(z.marked, D, N, own)
  BY <1>1 DEF Tree, Laid
<1>3. /\ m \in Blocks /\ m \in z.marked /\ m \in Nat /\ m # 0 /\ m >= ROOT
      /\ IsNode(D[m])
  BY <1>2, Inodes
<1> QED
  BY <1>1, <1>3 DEF IsNode

\* Every entry but unit off of n is one of K2.
Others(D, N, n, off, K2) ==
  \A m, x : InDir(D, N, m, x) /\ ~(m = n /\ x = off) => IsEntry(UnitIn(D, m, x), K2)

\* The inode is not to be named once, or no other entry names it.
Alone(D, N, n, off, i, S) ==
  i \in S => \A m, x : InDir(D, N, m, x) /\ ~(m = n /\ x = off) => UnitIn(D, m, x).idx # i

\* Inodes keep their modes and do not get smaller, and all but n are as before.
Stays(D, E, N, n) ==
  \A m \in N : /\ E[m].mode = D[m].mode /\ E[m].size >= D[m].size
               /\ m # n => E[m].size = D[m].size

\* An entry is written into directory n.
LEMMA EntryWritten ==
  ASSUME NEW z, NEW N, NEW own, NEW K, NEW S, Tree(z, N, own, K, S),
         NEW n \in N, z.disk[n].mode = "DIR", NEW off \in Nat,
         off <= z.disk[n].size, off < MaxEntries,
         NEW u, NEW K2, IsEntry(u, K2), Others(z.disk, N, n, off, K2),
         Alone(z.disk, N, n, off, u.idx, S),
         NEW w, w = fs_write(z, n, off, <<u>>),
         ~Full(w) \/ (~Full(z) /\ Mapped(z.disk, n, off, 1))
  PROVE  /\ ~Full(w) /\ Later(z, w) /\ Stays(z.disk, w.disk, N, n)
         /\ OneEntry(z.disk, w.disk, N, n, off, u) /\ SameViews(z.disk, w.disk, N)
         /\ w.disk[n].size > off
         /\ \E own2 : Tree(w, N, own2, K2, S) /\ Agree(own, own2, z.marked)
<1>1. PICK D, E, vals : D = z.disk /\ E = w.disk /\ vals = <<u>>
  OBVIOUS
<1>2. Len(vals) = 1 /\ vals[1] = u /\ Len(vals) \in Nat \ {0}
  BY <1>1
<1>3. /\ Layout(z.marked, D, N, own) /\ Shape(D, N) /\ Entries(D, N, K) /\ Single(D, N, S)
      /\ IsDisk(z) /\ Laid(z, N, own)
  BY <1>1 DEF Tree, Laid
<1>4. \A m \in N : D[m].size \in Nat
  BY <1>3, Inodes DEF IsNode
<1>5. ~(off > D[n].size) /\ off <= D[n].size /\ D[n].mode # "DEV" /\ D[n].mode = "DIR"
  BY <1>1, <1>4
<1>6. off + Len(vals) \in Offs /\ off + Len(vals) <= Bound(D[n].mode)
  <2>1. MaxEntries \in Offs /\ MaxEntries \in Nat
    BY Bounds, OffsetsDown
  <2>2. off + 1 \in Nat /\ off + 1 <= MaxEntries
    BY <2>1
  <2> QED
    BY <1>2, <1>5, <2>1, <2>2, OffsetsDown DEF Bound
<1>7. ~Full(w) /\ Later(z, w) /\ Wrote(z, own, w, N, n, off, vals)
  <2>1. w = fs_write(z, n, off, vals)
    BY <1>1
  <2>2. ~Full(w) \/ (~Full(z) /\ Mapped(z.disk, n, off, Len(vals)))
    BY <1>2
  <2> QED
    BY <1>1, <1>2, <1>3, <1>5, <1>6, <2>1, <2>2, WriteDone
<1>8. PICK own2 : Laid(w, N, own2) /\ Agree(own, own2, z.marked) /\ Written(D, E, N, n, off, vals)
  BY <1>1, <1>7 DEF Wrote
<1>9. Shape(E, N)
  <2>1. D[n].mode = "REG" => \A i \in 1 .. Len(vals) : IsValue(vals[i])
    BY <1>5
  <2> QED
    BY <1>2, <1>3, <1>5, <1>6, <1>8, <2>1, WrittenShape
<1>10. ASSUME NEW m, NEW x, InDir(E, N, m, x)
       PROVE  \/ m = n /\ x = off /\ UnitIn(E, m, x) = u
              \/ /\ ~(m = n /\ x = off)
                 /\ InDir(D, N, m, x) /\ UnitIn(E, m, x) = UnitIn(D, m, x)
  <2>1. \/ m = n /\ x \in off .. off + Len(vals) - 1 /\ UnitIn(E, m, x) = vals[x - off + 1]
        \/ /\ ~(m = n /\ x \in off .. off + Len(vals) - 1)
           /\ InDir(D, N, m, x) /\ UnitIn(E, m, x) = UnitIn(D, m, x)
    <3>1. Layout(z.marked, D, N, own) /\ Shape(D, N) /\ D[n].mode # "DEV"
      BY <1>3, <1>5
    <3>2. Len(vals) \in Nat \ {0} /\ off <= D[n].size
      BY <1>2, <1>5
    <3>3. Written(D, E, N, n, off, vals) /\ InDir(E, N, m, x)
      BY <1>8, <1>10
    <3> QED
      BY <3>1, <3>2, <3>3, WrittenEntries
  <2>2. \A y : y \in off .. off + Len(vals) - 1 <=> y = off
    BY <1>2
  <2>3. x = off => vals[x - off + 1] = u
    BY <1>2
  <2> QED
    BY <2>1, <2>2, <2>3
<1>11. Entries(E, N, K2)
  BY <1>1, <1>10 DEF Entries, Others
<1>12. Single(E, N, S)
  <2> SUFFICES ASSUME NEW m, NEW p, NEW x, NEW y, InDir(E, N, m, x), InDir(E, N, p, y),
                      UnitIn(E, m, x).idx \in S, UnitIn(E, p, y).idx = UnitIn(E, m, x).idx
               PROVE  m = p /\ x = y
    BY DEF Single
  <2>1. CASE m = n /\ x = off
    BY <1>1, <1>10, <2>1 DEF Alone
  <2>2. CASE p = n /\ y = off
    BY <1>1, <1>10, <2>2 DEF Alone
  <2>3. CASE ~(m = n /\ x = off) /\ ~(p = n /\ y = off)
    BY <1>3, <1>10, <2>3 DEF Single
  <2> QED
    BY <2>1, <2>2, <2>3
<1>13. Tree(w, N, own2, K2, S)
  BY <1>1, <1>7, <1>8, <1>9, <1>11, <1>12 DEF Tree, Later
<1>14. Stays(D, E, N, n) /\ E[n].size > off
  <2>1. \A m \in N : /\ E[m].mode = D[m].mode
                     /\ E[m].size = IF m = n /\ off + 1 > D[n].size THEN off + 1 ELSE D[m].size
    BY <1>2, <1>8 DEF Written
  <2> QED
    BY <1>4, <2>1 DEF Stays
<1>15. OneEntry(D, E, N, n, off, u)
  <2>1. InDir(E, N, n, off) /\ UnitIn(E, n, off) = u
    <3>1. E[n].mode = "DIR" /\ E[n].size \in Nat
      <4>1. w.disk[n].size \in Nat
        BY <1>13, TreeNodes
      <4>2. E[n].mode = D[n].mode
        BY <1>8 DEF Written
      <4> QED
        BY <1>1, <1>5, <4>1, <4>2
    <3>2. off \in 0 .. E[n].size - 1
      BY <1>14, <3>1
    <3>3. InDir(E, N, n, off)
      BY <3>1, <3>2 DEF InDir
    <3> QED
      BY <1>10, <3>3
  <2>2. ASSUME NEW m, NEW x, InDir(D, N, m, x) PROVE InDir(E, N, m, x)
    <3>1. /\ D[m].size \in Nat /\ E[m].mode = D[m].mode /\ E[m].size >= D[m].size
          /\ m \in N /\ D[m].mode = "DIR" /\ x \in 0 .. D[m].size - 1
      BY <1>4, <1>14, <2>2 DEF Stays, InDir
    <3>2. E[m].size \in Nat
      BY <1>1, <1>13, <3>1, TreeNodes
    <3>3. x \in 0 .. E[m].size - 1
      BY <3>1, <3>2
    <3> QED
      BY <3>1, <3>3 DEF InDir
  <2> QED
    BY <1>10, <2>1, <2>2 DEF OneEntry
<1>16. SameViews(D, E, N)
  <2> SUFFICES ASSUME NEW m \in N PROVE View(E, m) = View(D, m)
    BY DEF SameViews
  <2>1. D[n].mode # "REG"
    BY <1>5
  <2>2. Layout(z.marked, D, N, own) /\ Shape(D, N) /\ (m # n \/ D[n].mode # "REG")
    BY <1>3, <2>1
  <2>3. Len(vals) \in Nat \ {0} /\ Written(D, E, N, n, off, vals)
    BY <1>2, <1>8
  <2> QED
    BY <2>2, <2>3, WrittenViews
<1> QED
  BY <1>1, <1>7, <1>8, <1>13, <1>14, <1>15, <1>16

\* The next free block is marked.
LEMMA Allocated ==
  ASSUME NEW z, NEW N, NEW own, NEW K, NEW S, Tree(z, N, own, K, S), ~Full(z)
  PROVE  \E b : /\ b \in Blocks \ z.marked /\ own[b] = Free /\ b \notin N /\ b > ROOT
                /\ fs_allocBlock(z).blk = b
                /\ fs_allocBlock(z).z.disk = z.disk
                /\ Later(z, fs_allocBlock(z).z)
                /\ b \in fs_allocBlock(z).z.marked
                /\ Tree(fs_allocBlock(z).z, N, own, K, S)
<1>1. PICK b : b = fs_findFreeSector(z)
  OBVIOUS
<1>2. PICK y : y = fs_allocBlock(z).z
  OBVIOUS
<1>3. IsDisk(z) /\ Layout(z.marked, z.disk, N, own)
  BY DEF Tree, Laid
<1>4. /\ fs_allocBlock(z).blk = b /\ Later(z, y) /\ y.marked = z.marked \cup {b}
      /\ y.disk = z.disk /\ b \in Blocks \ z.marked
  BY <1>1, <1>2, <1>3, FreeBlockIs
<1>5. own[b] = Free /\ b \notin N
  BY <1>3, <1>4, FreshBlock
<1>6. b > ROOT
  <2>1. b \in Nat /\ b >= ROOT /\ ROOT \in Nat
    BY <1>3, <1>4, FreshBlock
  <2>2. ROOT \in 0 .. ROOT
    BY <2>1
  <2>3. ROOT \in z.marked
    BY <1>3, <2>2 DEF Layout, Formatted
  <2> QED
    BY <1>4, <2>1, <2>3
<1>7. Layout(y.marked, y.disk, N, own)
  BY <1>3, <1>4 DEF Layout, Formatted, Owned
<1>8. Tree(y, N, own, K, S)
  BY <1>4, <1>7 DEF Tree, Laid, Later
<1> QED
  BY <1>2, <1>4, <1>5, <1>6, <1>8

\* Inodes N show the same on both disks.
SameUnits(D, E, N) ==
  /\ \A m \in N : E[m].mode = D[m].mode /\ E[m].size = D[m].size
  /\ \A m \in N, k \in Ks : At(E, m, k) = At(D, m, k)
  /\ \A m \in N, x \in Offs : UnitIn(E, m, x) = UnitIn(D, m, x)

LEMMA SameTrees ==
  ASSUME NEW M, NEW D, NEW N, NEW own, Layout(M, D, N, own), Shape(D, N),
         NEW E, NEW N2, N2 \subseteq N, SameUnits(D, E, N2)
  PROVE  /\ Shape(E, N2)
         /\ \A m, x : InDir(E, N2, m, x) =>
              InDir(D, N, m, x) /\ UnitIn(E, m, x) = UnitIn(D, m, x)
<1>1. \A m \in N : D[m].size \in Nat
  BY Inodes DEF IsNode
<1>2. ASSUME NEW m \in N2, D[m].mode # "DEV", NEW x \in 0 .. D[m].size, D[m].size > 0
      PROVE  x \in Offs /\ At(D, m, x \div UNITS) # 0 /\ At(E, m, x \div UNITS) # 0
  <2>1. At(D, m, x \div UNITS) # 0
    BY <1>1, <1>2 DEF Shape, Mapped
  <2>2. D[m].size <= Bound(D[m].mode) /\ D[m].size \in Nat
    BY <1>1, <1>2 DEF Shape
  <2>3. x \in Nat /\ x <= Bound(D[m].mode)
    BY <2>2, Bounds
  <2>4. x \in Offs
    BY <2>3, Bounds, OffsetsDown
  <2> QED
    BY <2>1, <2>4, OffsetParts DEF SameUnits
<1>3. \A m \in N2 : E[m].mode = D[m].mode /\ E[m].size = D[m].size
  BY DEF SameUnits
<1>4. ASSUME NEW m \in N2, E[m].mode # "DEV"
      PROVE  /\ E[m].size <= Bound(E[m].mode)
             /\ E[m].size > 0 => Mapped(E, m, 0, E[m].size)
  <2>1. E[m].size <= Bound(E[m].mode)
    BY <1>3, <1>4 DEF Shape
  <2>2. ASSUME E[m].size > 0 PROVE \A x \in 0 .. 0 + E[m].size : At(E, m, x \div UNITS) # 0
    <3>1. 0 + E[m].size = E[m].size /\ D[m].mode # "DEV" /\ D[m].size = E[m].size
      BY <1>1, <1>3, <1>4
    <3> QED
      BY <1>2, <2>2, <3>1
  <2> QED
    BY <2>1, <2>2 DEF Mapped
<1>5. ASSUME NEW m \in N2, NEW x \in 0 .. D[m].size - 1, D[m].mode # "DEV"
      PROVE  UnitIn(E, m, x) = UnitIn(D, m, x)
  <2>1. x \in 0 .. D[m].size /\ D[m].size > 0
    BY <1>1, <1>5
  <2> QED
    BY <1>2, <1>5, <2>1 DEF SameUnits
<1>6. \A m \in N2 : E[m].mode = "REG" => \A x \in 0 .. E[m].size - 1 : IsValue(UnitIn(E, m, x))
  BY <1>3, <1>5 DEF Shape
<1>7. \A m \in N2 : E[m].mode = "DEV" => E[m].size <= UNITS
  BY <1>3 DEF Shape
<1>8. Shape(E, N2)
  BY <1>4, <1>6, <1>7 DEF Shape
<1>9. ASSUME NEW m, NEW x, InDir(E, N2, m, x)
      PROVE  InDir(D, N, m, x) /\ UnitIn(E, m, x) = UnitIn(D, m, x)
  <2>1. m \in N2 /\ D[m].mode = "DIR" /\ x \in 0 .. D[m].size - 1
    BY <1>3, <1>9 DEF InDir
  <2>2. InDir(D, N, m, x)
    BY <2>1 DEF InDir
  <2> QED
    BY <1>5, <2>1, <2>2
<1> QED
  BY <1>8, <1>9

\* Inodes that keep their units show what they did, under the same names.
LEMMA SameShown ==
  ASSUME NEW M, NEW D, NEW N, NEW own, Layout(M, D, N, own), Shape(D, N),
         NEW E, NEW N2, N2 \subseteq N, SameUnits(D, E, N2)
  PROVE  SameViews(D, E, N2) /\ SameLinks(D, E, N2)
<1>1. /\ \A m \in N : D[m].size \in Nat
      /\ \A m \in N2 : E[m].mode = D[m].mode /\ E[m].size = D[m].size
      /\ \A m \in N2, x \in Offs : UnitIn(E, m, x) = UnitIn(D, m, x)
  BY Inodes DEF IsNode, SameUnits
<1>2. ASSUME NEW m \in N2, D[m].mode = "REG" PROVE View(E, m) = View(D, m)
  <2>1. PICK t : t = D[m].size
    OBVIOUS
  <2>2. ASSUME NEW i \in 1 .. t PROVE UnitIn(E, m, i - 1) = UnitIn(D, m, i - 1)
    <3>1. m \in N /\ t \in Nat /\ i - 1 \in Nat /\ i - 1 <= t
      BY <1>1, <2>1
    <3>2. t <= Bound(D[m].mode) /\ Bound(D[m].mode) \in Offs /\ Bound(D[m].mode) \in Nat
      BY <1>2, <2>1, <3>1, Bounds DEF Shape
    <3>3. i - 1 \in Offs
      BY <3>1, <3>2, OffsetsDown
    <3> QED
      BY <1>1, <3>3
  <2>3. \A i \in 1 .. t : UnitIn(E, m, i - 1).val = UnitIn(D, m, i - 1).val
    BY <2>2
  <2>4. [i \in 1 .. t |-> UnitIn(E, m, i - 1).val] = [i \in 1 .. t |-> UnitIn(D, m, i - 1).val]
    BY <2>3
  <2>5. E[m].size = t /\ E[m].mode = D[m].mode
    BY <1>1, <2>1
  <2> QED
    BY <2>1, <2>4, <2>5, Zenon DEF View
<1>3. SameViews(D, E, N2)
  <2> SUFFICES ASSUME NEW m \in N2 PROVE View(E, m) = View(D, m)
    BY DEF SameViews
  <2>1. CASE D[m].mode # "REG"
    BY <1>1, <2>1 DEF View
  <2> QED
    BY <1>2, <2>1
<1>4. \A m, x : InDir(E, N2, m, x) => InDir(D, N2, m, x) /\ UnitIn(E, m, x) = UnitIn(D, m, x)
  BY SameTrees DEF InDir
<1>5. \A m, x : InDir(D, N2, m, x) => InDir(E, N2, m, x)
  BY <1>1 DEF InDir
<1>6. SameLinks(D, E, N2)
  BY <1>4, <1>5 DEF SameLinks, Link
<1> QED
  BY <1>3, <1>6

\* What is no directory has no names in it.
LEMMA LinkDirs ==
  ASSUME NEW D, NEW N, NEW b, D[b].mode # "DIR" \/ D[b].size = 0
  PROVE  \A m, name, i : /\ Link(D, N, m, name, i) <=> Link(D, N \ {b}, m, name, i)
                         /\ Link(D, N \cup {b}, m, name, i) <=> Link(D, N, m, name, i)
<1>1. \A x : ~(D[b].mode = "DIR" /\ x \in 0 .. D[b].size - 1)
  <2>1. \A x : x \notin 0 .. 0 - 1
    OBVIOUS
  <2> QED
    BY <2>1
<1>2. \A m, x : /\ InDir(D, N, m, x) <=> InDir(D, N \ {b}, m, x)
                /\ InDir(D, N \cup {b}, m, x) <=> InDir(D, N, m, x)
  BY <1>1 DEF InDir
<1> QED
  BY <1>2 DEF Link

\* An entry behind the others adds its name, if it is one.
LEMMA LinkAdded ==
  ASSUME NEW D, NEW E, NEW N, NEW n, NEW off, NEW u, OneEntry(D, E, N, n, off, u),
         ~InDir(D, N, n, off)
  PROVE  \A m, name, i : Link(E, N, m, name, i) <=>
           \/ Link(D, N, m, name, i)
           \/ name \in Proper /\ m = n /\ name = u.name /\ i = u.idx
<1>1. /\ InDir(E, N, n, off) /\ UnitIn(E, n, off) = u
      /\ \A m, x : ~(m = n /\ x = off) =>
           /\ InDir(E, N, m, x) <=> InDir(D, N, m, x)
           /\ InDir(E, N, m, x) => UnitIn(E, m, x) = UnitIn(D, m, x)
  BY DEF OneEntry
<1>2. \A m, x : InDir(D, N, m, x) => InDir(E, N, m, x) /\ UnitIn(E, m, x) = UnitIn(D, m, x)
  BY <1>1
<1>3. \A m, x : InDir(E, N, m, x) =>
         \/ m = n /\ x = off /\ UnitIn(E, m, x) = u
         \/ InDir(D, N, m, x) /\ UnitIn(E, m, x) = UnitIn(D, m, x)
  BY <1>1
<1> QED
  BY <1>1, <1>2, <1>3 DEF Link

\* An entry without a name takes away what was under it.
LEMMA LinkCleared ==
  ASSUME NEW D, NEW E, NEW N, NEW n, NEW off, NEW u, OneEntry(D, E, N, n, off, u),
         u.name \notin Proper
  PROVE  \A m, name, i :
           /\ Link(E, N, m, name, i) => Link(D, N, m, name, i)
           /\ Link(D, N, m, name, i) /\ i # UnitIn(D, n, off).idx => Link(E, N, m, name, i)
<1>1. /\ InDir(E, N, n, off) /\ UnitIn(E, n, off) = u
      /\ \A m, x : ~(m = n /\ x = off) =>
           /\ InDir(E, N, m, x) <=> InDir(D, N, m, x)
           /\ InDir(E, N, m, x) => UnitIn(E, m, x) = UnitIn(D, m, x)
  BY DEF OneEntry
<1>2. ASSUME NEW m, NEW name, NEW i, Link(E, N, m, name, i) PROVE Link(D, N, m, name, i)
  BY <1>1, <1>2 DEF Link
<1>3. ASSUME NEW m, NEW name, NEW i, Link(D, N, m, name, i), i # UnitIn(D, n, off).idx
      PROVE  Link(E, N, m, name, i)
  BY <1>1, <1>3 DEF Link
<1> QED
  BY <1>2, <1>3

\* The inodes that have one name.
Singles(D, N) == {m \in N : D[m].mode # "DIR"}

\* No entry names a block that is no inode.
LEMMA NoName ==
  ASSUME NEW M, NEW D, NEW N, NEW own, Layout(M, D, N, own), Entries(D, N, N),
         NEW b, b \notin N, b # 0
  PROVE  \A m, x : InDir(D, N, m, x) => UnitIn(D, m, x).idx # b
<1>1. Hole.idx = 0
  BY DEF Hole, Dirent
<1> QED
  BY <1>1 DEF Entries, IsEntry

\* Inode b comes without a name, and nothing else shows.
Unnamed(D, E, N, b) ==
  /\ SameViews(D, E, N)
  /\ \A m, name, i : Link(E, N \cup {b}, m, name, i) <=> Link(D, N, m, name, i)

\* The marked block that the new entry names becomes an inode.
MadeNode(w, y, b, mode) == y = [w EXCEPT !.disk[b] = Node(mode, 0)]

LEMMA NodeMade ==
  ASSUME NEW w, NEW N, NEW own, NEW K, NEW S, Tree(w, N, own, K, S),
         NEW b \in w.marked, b > ROOT, own[b] = Free, b \notin N,
         NEW mode \in {"REG", "DIR", "DEV"},
         NEW y, MadeNode(w, y, b, mode)
  PROVE  /\ \E own2 : Tree(y, N \cup {b}, own2, K, S)
         /\ y.marked = w.marked /\ y.kept = w.kept /\ y.disk[b] = Node(mode, 0)
         /\ \A m \in N : y.disk[m] = w.disk[m]
         /\ Unnamed(w.disk, y.disk, N, b)
<1>1. /\ IsDisk(w) /\ Layout(w.marked, w.disk, N, own) /\ Shape(w.disk, N)
      /\ Entries(w.disk, N, K) /\ Single(w.disk, N, S)
  BY DEF Tree, Laid
<1>2. PICK u : u = Node(mode, 0)
  OBVIOUS
<1>3. y = [w EXCEPT !.disk = [w.disk EXCEPT ![b] = u]]
  BY <1>2 DEF MadeNode
<1>4. /\ IsDisk(y) /\ y.marked = w.marked /\ y.kept = w.kept
      /\ y.disk = [w.disk EXCEPT ![b] = u]
  BY <1>1, <1>3 DEF IsDisk
<1>5. PICK D, E, M : D = w.disk /\ E = y.disk /\ M = w.marked
  OBVIOUS
<1>6. b \in Blocks /\ D = [c \in Blocks |-> D[c]]
  BY <1>1, <1>5 DEF Layout, Formatted
<1>7. E = [c \in Blocks |-> E[c]] /\ E[b] = u /\ \A c \in Blocks \ {b} : E[c] = D[c]
  BY <1>4, <1>5, <1>6
<1>8. NodeSet(D, E, b, mode)
  BY <1>2, <1>7 DEF NodeSet, Maps
<1>9. Layout(M, D, N, own) /\ b \in M
  BY <1>1, <1>5
<1>10. Layout(M, E, N \cup {b}, Given(own, b, Self(b))) /\ Untouched(D, E, N)
  BY <1>8, <1>9, NewNode
<1>11. \A m \in N : E[m] = D[m]
  BY <1>10 DEF Untouched
<1>14. SameUnits(D, E, N)
  BY <1>10 DEF SameUnits, Untouched
<1>15. Shape(D, N)
  BY <1>1, <1>5
<1>16. Shape(E, N)
  BY <1>9, <1>14, <1>15, SameTrees
<1>17. \A m, x : InDir(E, N, m, x) => InDir(D, N, m, x) /\ UnitIn(E, m, x) = UnitIn(D, m, x)
  BY <1>9, <1>14, <1>15, SameTrees
<1>18. E[b].size = 0 /\ E[b].mode = mode
  BY <1>2, <1>7 DEF Node
<1>19. Shape(E, N \cup {b})
  <2>1. UNITS \in Nat /\ Bound(mode) \in Nat
    BY Sizings, Bounds
  <2>2. 0 <= UNITS /\ 0 <= Bound(mode) /\ ~(0 > 0) /\ \A x : x \notin 0 .. 0 - 1
    BY <2>1
  <2> QED
    BY <1>16, <1>18, <2>2 DEF Shape
<1>20. \A m, x : InDir(E, N \cup {b}, m, x) => InDir(E, N, m, x)
  <2>1. \A x : x \notin 0 .. E[b].size - 1
    BY <1>18
  <2> QED
    BY <2>1 DEF InDir
<1>21. Entries(E, N \cup {b}, K)
  BY <1>1, <1>5, <1>17, <1>20 DEF Entries
<1>22. Single(E, N \cup {b}, S)
  BY <1>1, <1>5, <1>17, <1>20 DEF Single
<1>23. Tree(y, N \cup {b}, Given(own, b, Self(b)), K, S)
  BY <1>4, <1>5, <1>10, <1>19, <1>21, <1>22 DEF Tree, Laid
<1>24. SameViews(D, E, N) /\ SameLinks(D, E, N)
  BY <1>9, <1>14, <1>15, SameShown
<1>25. \A m, name, i : Link(E, N \cup {b}, m, name, i) <=> Link(D, N, m, name, i)
  BY <1>18, <1>24, LinkDirs DEF SameLinks
<1> QED
  BY <1>2, <1>4, <1>5, <1>7, <1>11, <1>23, <1>24, <1>25 DEF Unnamed

\* A disk in order with room on it, and the inodes that have one name.
Whole(z, N) == ~Full(z) /\ \E own : Tree(z, N, own, N, Singles(z.disk, N))

\* One name is added, for inode b in directory m; the other inodes show what they
\* did.
Adds(D, E, N, m, name, b) ==
  /\ SameViews(D, E, N)
  /\ \A j, nm, i : Link(E, N \cup {b}, j, nm, i) <=>
       \/ Link(D, N, j, nm, i)
       \/ nm \in Proper /\ j = m /\ nm = name /\ i = b

\* fs_create makes inode b and its entry.
Creates(z, y, N, where, name, b, mode) ==
  /\ b \in Blocks \ N /\ b # 0 /\ y.node = b /\ y.z.disk[b] = Node(mode, 0)
  /\ Later(z, y.z) /\ Stays(z.disk, y.z.disk, N, where) /\ Whole(y.z, N \cup {b})
  /\ Adds(z.disk, y.z.disk, N, where, name, b)

LEMMA CreateIs ==
  ASSUME NEW z, NEW where, z.disk[where].mode = "DIR", NEW name, NEW mode,
         NEW x, x = fs_allocBlock(z).z, NEW b, b = fs_allocBlock(z).blk,
         NEW w, w = fs_write(x, where, z.disk[where].size, <<Dirent(name, b)>>)
  PROVE  /\ MadeNode(w, fs_create(z, where, name, mode).z, b, mode)
         /\ fs_create(z, where, name, mode).node = b
<1>1. PICK u : u = [w EXCEPT !.disk[b] = Node(mode, 0)]
  OBVIOUS
<1>2. fs_create(z, where, name, mode) = [z |-> u, node |-> b]
  BY <1>1, Zenon DEF fs_create
<1> QED
  BY <1>1, <1>2 DEF MadeNode

LEMMA Created ==
  ASSUME NEW z, NEW N, Whole(z, N),
         NEW where \in N, z.disk[where].mode = "DIR", z.disk[where].size < MaxEntries,
         NEW name, NEW mode \in {"REG", "DIR", "DEV"},
         NEW y, y = fs_create(z, where, name, mode), ~Full(y.z)
  PROVE  \E b : Creates(z, y, N, where, name, b, mode)
<1>1. PICK own : Tree(z, N, own, N, Singles(z.disk, N)) /\ ~Full(z)
  BY DEF Whole
<1>2. PICK x, b : /\ b \in Blocks \ z.marked /\ own[b] = Free /\ b \notin N /\ b > ROOT
                  /\ fs_allocBlock(z).blk = b /\ fs_allocBlock(z).z = x
                  /\ x.disk = z.disk /\ Later(z, x) /\ b \in x.marked
                  /\ Tree(x, N, own, N, Singles(z.disk, N))
  BY <1>1, Allocated
<1>3. PICK u, size : u = Dirent(name, b) /\ size = z.disk[where].size
  OBVIOUS
<1>4. PICK w : w = fs_write(x, where, size, <<u>>)
  OBVIOUS
<1>5. MadeNode(w, y.z, b, mode) /\ y.node = b
  BY <1>2, <1>3, <1>4, CreateIs
<1>6. /\ IsDisk(x) /\ Layout(x.marked, x.disk, N, own) /\ Shape(x.disk, N)
      /\ Entries(x.disk, N, N) /\ Single(x.disk, N, Singles(z.disk, N))
  BY <1>2 DEF Tree, Laid
<1>7. size \in Nat /\ ROOT \in Nat /\ b \in Nat
  <2>1. IsNode(x.disk[where])
    BY <1>6, Inodes
  <2> QED
    BY <1>2, <1>3, <2>1, Sizings DEF IsNode, Blocks
<1>8. b # 0 /\ \A m, i : InDir(x.disk, N, m, i) => UnitIn(x.disk, m, i).idx # b
  <2>1. b # 0
    BY <1>2, <1>7
  <2> QED
    BY <1>2, <1>6, <2>1, NoName
<1> DEFINE S == Singles(z.disk, N) \cup (IF mode = "DIR" THEN {} ELSE {b})
<1>9. Tree(x, N, own, N, S)
  <2>1. Single(x.disk, N, S)
    BY <1>6, <1>8 DEF Single
  <2> QED
    BY <1>2, <2>1 DEF Tree
<1> HIDE DEF S
<1>10. IsEntry(u, N \cup {b}) /\ u.idx = b
  BY <1>3 DEF IsEntry, Dirent
<1>11. Others(x.disk, N, where, size, N \cup {b}) /\ Alone(x.disk, N, where, size, u.idx, S)
  BY <1>6, <1>8, <1>10 DEF Entries, Others, Alone, IsEntry
<1>12. Later(x, w)
  <2>1. ~(size > x.disk[where].size) /\ Len(<<u>>) \in Nat
    BY <1>2, <1>3, <1>7
  <2> QED
    BY <1>4, <1>6, <1>7, <2>1, WriteLater
<1>13. ~Full(w)
  <2>1. y.z.marked = w.marked
    BY <1>5, <1>12 DEF MadeNode, Later, IsDisk
  <2> QED
    BY <2>1 DEF Full
<1>14. size <= x.disk[where].size /\ size < MaxEntries /\ x.disk[where].mode = "DIR"
  BY <1>2, <1>3, <1>7
<1>15. /\ Stays(x.disk, w.disk, N, where)
       /\ OneEntry(x.disk, w.disk, N, where, size, u) /\ SameViews(x.disk, w.disk, N)
       /\ \E own2 : Tree(w, N, own2, N \cup {b}, S) /\ Agree(own, own2, x.marked)
  BY <1>4, <1>7, <1>9, <1>10, <1>11, <1>13, <1>14, EntryWritten
<1>16. PICK own2 : Tree(w, N, own2, N \cup {b}, S) /\ Agree(own, own2, x.marked)
  BY <1>15
<1>17. b \in w.marked /\ own2[b] = Free
  BY <1>2, <1>12, <1>16 DEF Later, Agree
<1>18. /\ \E own3 : Tree(y.z, N \cup {b}, own3, N \cup {b}, S)
       /\ y.z.marked = w.marked /\ y.z.kept = w.kept /\ y.z.disk[b] = Node(mode, 0)
       /\ \A m \in N : y.z.disk[m] = w.disk[m]
       /\ Unnamed(w.disk, y.z.disk, N, b)
  <2>1. PICK v : v = y.z
    OBVIOUS
  <2>2. MadeNode(w, v, b, mode) /\ Tree(w, N, own2, N \cup {b}, S)
    BY <1>5, <1>16, <2>1
  <2>3. /\ \E own3 : Tree(v, N \cup {b}, own3, N \cup {b}, S)
        /\ v.marked = w.marked /\ v.kept = w.kept /\ v.disk[b] = Node(mode, 0)
        /\ \A m \in N : v.disk[m] = w.disk[m]
        /\ Unnamed(w.disk, v.disk, N, b)
    <3>1. /\ b \in w.marked /\ b > ROOT /\ own2[b] = Free /\ b \notin N
          /\ mode \in {"REG", "DIR", "DEV"}
      BY <1>2, <1>17
    <3> QED
      BY <2>2, <3>1, NodeMade
  <2> QED
    BY <2>1, <2>3
<1>19. S = Singles(y.z.disk, N \cup {b})
  <2>1. \A m \in N : y.z.disk[m].mode = z.disk[m].mode
    BY <1>2, <1>15, <1>18 DEF Stays
  <2>2. y.z.disk[b].mode = mode
    BY <1>18 DEF Node
  <2> QED
    BY <1>2, <2>1, <2>2 DEF S, Singles
<1>20. Whole(y.z, N \cup {b})
  BY <1>18, <1>19 DEF Whole
<1>21. Stays(z.disk, y.z.disk, N, where)
  BY <1>2, <1>15, <1>18 DEF Stays
<1>22. Later(z, y.z)
  <2>1. IsDisk(y.z)
    BY <1>18 DEF Tree
  <2> QED
    BY <1>2, <1>12, <1>18, <2>1 DEF Later
<1>23. Adds(z.disk, y.z.disk, N, where, name, b)
  <2>1. ~InDir(x.disk, N, where, size)
    BY <1>2, <1>3, <1>7 DEF InDir
  <2>2. \A j, nm, i : Link(w.disk, N, j, nm, i) <=>
          \/ Link(x.disk, N, j, nm, i)
          \/ nm \in Proper /\ j = where /\ nm = u.name /\ i = u.idx
    BY <1>15, <2>1, LinkAdded
  <2>3. u.name = name /\ u.idx = b /\ x.disk = z.disk
    BY <1>2, <1>3 DEF Dirent
  <2>4. SameViews(z.disk, y.z.disk, N)
    BY <1>15, <1>18, <2>3 DEF SameViews, Unnamed
  <2> QED
    BY <1>18, <2>2, <2>3, <2>4 DEF Adds, Unnamed
<1> QED
  BY <1>2, <1>5, <1>8, <1>18, <1>20, <1>21, <1>22, <1>23 DEF Creates

\* A directory gets its two entries.
LEMMA DottedWhole ==
  ASSUME NEW z, NEW N, Whole(z, N), NEW n \in N, z.disk[n].mode = "DIR",
         z.disk[n].size = 0,
         NEW p \in N, z.disk[p].mode = "DIR", NEW w, w = Dotted(z, n, p), ~Full(w)
  PROVE  /\ Whole(w, N) /\ Later(z, w) /\ Stays(z.disk, w.disk, N, n)
         /\ SameViews(z.disk, w.disk, N) /\ SameLinks(z.disk, w.disk, N)
<1>1. PICK own : Tree(z, N, own, N, Singles(z.disk, N))
  BY DEF Whole
<1>2. PICK S : S = Singles(z.disk, N)
  OBVIOUS
<1>3. PICK u, v : u = Dirent(".", n) /\ v = Dirent("..", p)
  OBVIOUS
<1>4. PICK x : x = fs_write(z, n, 0, <<u>>)
  OBVIOUS
<1>5. w = fs_write(x, n, 1, <<v>>)
  BY <1>3, <1>4 DEF Dotted
<1>6. /\ IsEntry(u, N) /\ u.idx = n /\ n \notin S
      /\ IsEntry(v, N) /\ v.idx = p /\ p \notin S
  BY <1>2, <1>3 DEF IsEntry, Dirent, Singles
<1>7. MaxEntries \in Nat /\ MaxEntries >= 2
  BY Bounds, OffsetsDown
<1>8. /\ IsDisk(z) /\ Layout(z.marked, z.disk, N, own) /\ Entries(z.disk, N, N)
      /\ Tree(z, N, own, N, S)
  BY <1>1, <1>2 DEF Tree, Laid
<1>9. z.disk[n].size \in Nat
  BY <1>8, Inodes DEF IsNode
<1>10. Later(z, x)
  <2>1. ~(0 > z.disk[n].size) /\ Len(<<u>>) \in Nat /\ 0 \in Nat
    BY <1>9
  <2> QED
    BY <1>4, <1>8, <2>1, WriteLater
<1>11. PICK D : D = z.disk
  OBVIOUS
<1>12. ASSUME ~Full(x) PROVE /\ Later(z, x) /\ Stays(D, x.disk, N, n) /\ x.disk[n].size > 0
                             /\ OneEntry(D, x.disk, N, n, 0, u) /\ SameViews(D, x.disk, N)
                             /\ \E own2 : Tree(x, N, own2, N, S) /\ Agree(own, own2, z.marked)
  <2>1. 0 \in Nat /\ 0 <= z.disk[n].size /\ 0 < MaxEntries
    BY <1>7, <1>9
  <2>2. Others(z.disk, N, n, 0, N) /\ Alone(z.disk, N, n, 0, u.idx, S)
    BY <1>6, <1>8 DEF Entries, Others, Alone
  <2> QED
    BY <1>4, <1>6, <1>8, <1>11, <1>12, <2>1, <2>2, EntryWritten
<1>13. ~Full(x)
  <2> SUFFICES ASSUME Full(x) PROVE FALSE
    OBVIOUS
  \* On a full disk the second write still writes behind what the first left.
  <2>1. CASE ~(1 > x.disk[n].size)
    <3>1. Len(<<v>>) \in Nat /\ IsDisk(x)
      BY <1>10 DEF Later
    <3>2. Later(x, w)
      BY <1>5, <2>1, <3>1, WriteLater
    <3> QED
      BY <3>2, LaterFull
  <2>2. CASE 1 > x.disk[n].size
    <3>1. w = [x EXCEPT !.kept = @ + 1]
      BY <1>5, <2>2, Zenon DEF fs_write
    <3>2. w.marked = x.marked
      BY <1>10, <3>1 DEF Later, IsDisk
    <3> QED
      BY <3>2 DEF Full
  <2> QED
    BY <2>1, <2>2
<1>14. PICK own2 : Tree(x, N, own2, N, S)
  BY <1>12, <1>13
<1>15. Stays(D, x.disk, N, n) /\ x.disk[n].size > 0 /\ x.disk[n].mode = "DIR"
  BY <1>11, <1>12, <1>13 DEF Stays
<1>16. Layout(x.marked, x.disk, N, own2) /\ Entries(x.disk, N, N)
  BY <1>14 DEF Tree, Laid
<1>17. x.disk[n].size \in Nat
  BY <1>16, Inodes DEF IsNode
<1>18. /\ Later(x, w) /\ Stays(x.disk, w.disk, N, n)
       /\ OneEntry(x.disk, w.disk, N, n, 1, v) /\ SameViews(x.disk, w.disk, N)
       /\ \E own3 : Tree(w, N, own3, N, S) /\ Agree(own2, own3, x.marked)
  <2>1. 1 \in Nat /\ 1 <= x.disk[n].size /\ 1 < MaxEntries
    BY <1>7, <1>15, <1>17
  <2>2. Others(x.disk, N, n, 1, N) /\ Alone(x.disk, N, n, 1, v.idx, S)
    BY <1>6, <1>16 DEF Entries, Others, Alone
  <2> QED
    BY <1>5, <1>6, <1>14, <1>15, <2>1, <2>2, EntryWritten
<1>19. PICK own3 : Tree(w, N, own3, N, S)
  BY <1>18
<1>20. Stays(D, w.disk, N, n)
  <2>2. \A m \in N : D[m].size \in Nat /\ x.disk[m].size \in Nat /\ w.disk[m].size \in Nat
    BY <1>8, <1>11, <1>14, <1>19, TreeNodes
  <2> QED
    BY <1>15, <1>18, <2>2 DEF Stays
<1>21. S = Singles(w.disk, N)
  BY <1>2, <1>11, <1>20 DEF Stays, Singles
<1>22. Later(z, w)
  BY <1>10, <1>18, LaterTrans
<1>23. PICK E, F : E = x.disk /\ F = w.disk
  OBVIOUS
<1>24. OneEntry(D, E, N, n, 0, u) /\ OneEntry(E, F, N, n, 1, v)
  BY <1>12, <1>13, <1>18, <1>23
<1>25. u.name \notin Proper /\ v.name \notin Proper
  BY <1>3 DEF Dirent, Proper
<1>26. \A j, nm, i : Link(E, N, j, nm, i) <=> Link(D, N, j, nm, i)
  <2>1. ~InDir(D, N, n, 0)
    BY <1>11 DEF InDir
  <2> QED
    BY <1>24, <1>25, <2>1, LinkAdded
<1>27. \A j, nm, i : Link(F, N, j, nm, i) <=> Link(E, N, j, nm, i)
  <2>1. ~InDir(E, N, n, 1)
    <3>1. \A y : InDir(E, N, n, y) => y = 0
      <4>1. \A y : ~InDir(D, N, n, y)
        BY <1>11 DEF InDir
      <4> QED
        BY <1>24, <4>1 DEF OneEntry
    <3> QED
      BY <3>1
  <2> QED
    BY <1>24, <1>25, <2>1, LinkAdded
<1>28. SameLinks(D, F, N)
  BY <1>26, <1>27 DEF SameLinks
<1>29. SameViews(D, F, N)
  BY <1>12, <1>13, <1>18, <1>23 DEF SameViews
<1> QED
  BY <1>11, <1>19, <1>20, <1>21, <1>22, <1>23, <1>28, <1>29 DEF Whole

-----------------------------------------------------------------------------
(* Removing                                                                *)

\* The loop of fs_reset.
FreeStep(y, n, off) ==
  LET g == getOrAllocBlockByOffset(y, n, off) IN fs_freeBlock(g.z, g.blk)
Freeing(f, z, n, blocks) ==
  f[0] = z /\ \A k \in 0 .. blocks - 1 : f[k + 1] = FreeStep(f[k], n, k * UNITS)

\* Its end: the index blocks and the inode.
IndexOf(y, n) ==
  {y.disk[n].index[i] : i \in DIRECT_INDEXES_CNT .. DIRECT_INDEXES_CNT + INDEXES - 1}
Dropped(y, n) == fs_freeBlock([y EXCEPT !.marked = @ \ (IndexOf(y, n) \ {0})], n)

LEMMA ResetIs ==
  ASSUME NEW z, NEW n, NEW blocks \in Nat,
         blocks = (z.disk[n].size + UNITS - 1) \div UNITS
  PROVE  \E f : Freeing(f, z, n, blocks) /\ fs_reset(z, n) = Dropped(f[blocks], n)
<1> DEFINE Of(f, k) == IF k = 0 THEN z ELSE FreeStep(f[k - 1], n, (k - 1) * UNITS)
           Solves(f, m) == f = [k \in 0 .. m |-> Of(f, k)]
           G == {m \in 0 .. blocks : \E f : Solves(f, m)}
<1>1. 0 \in G
  <2>1. Solves([i \in 0 .. 0 |-> z], 0)
    OBVIOUS
  <2>2. \E f : Solves(f, 0)
    BY <2>1
  <2> HIDE DEF Solves
  <2> QED
    BY <2>2
<1>2. ASSUME NEW m \in 0 .. blocks - 1, m \in G PROVE m + 1 \in G
  <2>1. PICK f : Solves(f, m)
    BY <1>2
  <2> DEFINE h == [k \in 0 .. m + 1 |-> IF k = m + 1 THEN Of(f, k) ELSE f[k]]
  <2>2. \A k \in 0 .. m + 1 : h[k] = Of(h, k)
    <3> SUFFICES ASSUME NEW k \in 0 .. m + 1 PROVE h[k] = Of(h, k)
      OBVIOUS
    <3>1. CASE k = 0
      BY <2>1, <3>1
    <3>2. CASE k # 0
      <4>1. k - 1 \in 0 .. m /\ k - 1 # m + 1
        BY <3>2
      <4>2. h[k - 1] = f[k - 1]
        BY <4>1
      <4>3. ASSUME k # m + 1 PROVE h[k] = Of(f, k)
        <5>1. k \in 0 .. m
          BY <4>3
        <5>2. f[k] = Of(f, k)
          BY <2>1, <5>1
        <5> QED
          BY <4>3, <5>2
      <4>4. h[k] = Of(f, k)
        BY <4>3
      <4> QED
        BY <3>2, <4>2, <4>4
    <3> QED
      BY <3>1, <3>2
  <2>3. Solves(h, m + 1)
    BY <2>2
  <2>4. \E e : Solves(e, m + 1)
    BY <2>3
  <2> HIDE DEF Solves
  <2> QED
    BY <2>4
<1> HIDE DEF G
<1>3. blocks \in G
  <2>1. \A i \in 0 .. blocks : i \in G
    BY <1>1, <1>2, LoopEnds, Zenon
  <2> QED
    BY <2>1
<1>4. \E f : Solves(f, blocks)
  BY <1>3 DEF G
<1> DEFINE c == CHOOSE f : Solves(f, blocks)
<1>5. fs_reset(z, n) = Dropped(c[blocks], n)
  BY Zenon DEF fs_reset, Dropped, IndexOf, FreeStep
<1>6. Solves(c, blocks)
  BY <1>4
<1> HIDE DEF c
<1>7. \A k \in 0 .. blocks : c[k] = Of(c, k)
  BY <1>6
<1>8. c[0] = z
  BY <1>7
<1>9. ASSUME NEW k \in 0 .. blocks - 1 PROVE c[k + 1] = FreeStep(c[k], n, k * UNITS)
  <2>1. k + 1 \in 0 .. blocks /\ k + 1 # 0 /\ (k + 1) - 1 = k
    OBVIOUS
  <2> QED
    BY <1>7, <2>1
<1> QED
  BY <1>5, <1>8, <1>9 DEF Freeing

\* What the loop leaves: no block but those of n was freed.
Emptied(z, own, n, y) ==
  /\ IsDisk(y) /\ y.kept = z.kept /\ y.marked \subseteq z.marked
  /\ \A b \in z.marked \ y.marked : own[b][1] = n
  /\ Maps(y.disk) /\ HasUnits(y.disk[n])
  /\ \A b \in Blocks \ {n} : y.disk[b] = z.disk[b]
  /\ \A i \in IndexSlots : Ix(y.disk, n, i) = Ix(z.disk, n, i)

LEMMA EmptiedSelf ==
  ASSUME NEW z, IsDisk(z), NEW N, NEW own, Laid(z, N, own), NEW n \in N
  PROVE  Emptied(z, own, n, z)
<1>1. Layout(z.marked, z.disk, N, own)
  BY DEF Laid
<1>2. n \in Blocks
  BY <1>1, Inodes
<1> QED
  BY <1>1, <1>2 DEF Emptied, Layout, Formatted, Maps

LEMMA FreeBlock ==
  ASSUME NEW z, IsDisk(z), NEW b
  PROVE  /\ IsDisk(fs_freeBlock(z, b)) /\ fs_freeBlock(z, b).kept = z.kept
         /\ fs_freeBlock(z, b).disk = z.disk
         /\ fs_freeBlock(z, b).marked = z.marked \ {b}
<1>1. PICK y : y = [z EXCEPT !.marked = @ \ {b}]
  OBVIOUS
<1>2. /\ IsDisk(y) /\ y.kept = z.kept /\ y.disk = z.disk /\ y.marked = z.marked \ {b}
  BY <1>1 DEF IsDisk
<1> QED
  BY <1>1, <1>2 DEF fs_freeBlock

\* The blocks before the end of a file.
LEMMA BlocksBefore ==
  ASSUME NEW size \in Nat, NEW blocks, blocks = (size + UNITS - 1) \div UNITS
  PROVE  /\ blocks \in Nat
         /\ size <= UNITS => blocks < 2
         /\ \A k \in 0 .. blocks - 1 : /\ k * UNITS \in Nat /\ k * UNITS < size
                                       /\ (k * UNITS) \div UNITS = k
<1> DEFINE a == size + UNITS - 1
<1>1. UNITS \in Nat \ {0}
  BY Sizings
<1>2. a \in Nat
  BY <1>1
<1>3. blocks = a \div UNITS
  OBVIOUS
<1> HIDE DEF a
<1>4. blocks \in Nat /\ a = UNITS * blocks + (a % UNITS) /\ a % UNITS \in 0 .. UNITS - 1
  BY <1>1, <1>2, <1>3, Division
<1>5. size <= UNITS => blocks < 2
  <2>1. size <= UNITS => a < UNITS * 2
    BY <1>1 DEF a
  <2> QED
    BY <1>1, <1>2, <1>3, <2>1, Quotients
<1>6. ASSUME NEW k \in 0 .. blocks - 1
      PROVE  k * UNITS \in Nat /\ k * UNITS < size /\ (k * UNITS) \div UNITS = k
  <2>1. k \in Nat /\ k < blocks
    BY <1>4
  <2>2. UNITS * k \in Nat /\ UNITS * blocks \in Nat /\ UNITS * k + UNITS <= UNITS * blocks
    BY <1>1, <1>4, <2>1, Products
  <2>3. k * UNITS = UNITS * k
    BY <1>1, <2>1
  <2>4. (UNITS * k) \div UNITS = k
    BY <1>1, <2>1, Quotients
  <2>5. UNITS * k < size
    <3>1. UNITS * blocks <= a
      BY <1>1, <1>2, <1>4, <2>2
    <3> QED
      BY <1>1, <2>2, <3>1 DEF a
  <2> QED
    BY <2>2, <2>3, <2>4, <2>5
<1> QED
  BY <1>4, <1>5, <1>6

\* A file has all the blocks the loop frees.
LEMMA FileEmptied ==
  ASSUME NEW z, NEW N, NEW own, NEW K, NEW S, Tree(z, N, own, K, S),
         NEW n \in N, z.disk[n].mode = "REG", NEW blocks \in Nat,
         blocks = (z.disk[n].size + UNITS - 1) \div UNITS,
         NEW f, Freeing(f, z, n, blocks)
  PROVE  Emptied(z, own, n, f[blocks])
<1> DEFINE G == {k \in 0 .. blocks : Emptied(z, own, n, f[k]) /\ f[k].disk = z.disk}
<1>1. IsDisk(z) /\ Laid(z, N, own) /\ Layout(z.marked, z.disk, N, own) /\ Shape(z.disk, N)
  BY DEF Tree, Laid
<1>2. 0 \in G
  BY <1>1, EmptiedSelf DEF Freeing
<1>3. ASSUME NEW k \in 0 .. blocks - 1, k \in G PROVE k + 1 \in G
  <2>1. PICK y, off : y = f[k] /\ off = k * UNITS
    OBVIOUS
  <2>2. Emptied(z, own, n, y) /\ y.disk = z.disk
    BY <1>3, <2>1
  <2>3. PICK size : size = z.disk[n].size
    OBVIOUS
  <2>4. size \in Nat
    BY <2>3, TreeNodes
  <2>5. off \in Nat /\ off < size /\ off \div UNITS = k
    BY <2>1, <2>3, <2>4, BlocksBefore
  <2>6. At(z.disk, n, k) # 0 /\ k \in Ks
    <3>1. size > 0 /\ size <= MaxSize /\ Mapped(z.disk, n, 0, size)
      BY <1>1, <2>3, <2>4, <2>5 DEF Shape, Bound
    <3>2. At(z.disk, n, off \div UNITS) # 0
      BY <2>4, <2>5, <3>1 DEF Mapped
    <3>3. MaxSize \in Offs /\ MaxSize \in Nat
      BY Bounds, OffsetsDown
    <3>4. off \in Offs
      BY <2>4, <2>5, <3>1, <3>3, OffsetsDown
    <3> QED
      BY <2>5, <3>2, <3>4, OffsetParts
  <2>7. PICK g : g = getOrAllocBlockByOffset(y, n, off)
    OBVIOUS
  <2>8. g.z = y /\ g.blk = At(z.disk, n, k)
    <3>1. IsDisk(y) /\ At(y.disk, n, off \div UNITS) # 0
      BY <2>2, <2>5, <2>6 DEF Emptied
    <3>2. g.z = y /\ g.blk = At(y.disk, n, off \div UNITS)
      BY <2>7, <3>1, BlockTaken
    <3> QED
      BY <2>2, <2>5, <3>2
  <2>9. PICK b, w : b = g.blk /\ w = f[k + 1]
    OBVIOUS
  <2>10. w = fs_freeBlock(y, b)
    BY <2>1, <2>7, <2>8, <2>9 DEF Freeing, FreeStep
  <2>11. IsDisk(w) /\ w.kept = y.kept /\ w.disk = y.disk /\ w.marked = y.marked \ {b}
    BY <2>2, <2>10, FreeBlock DEF Emptied
  <2>12. own[b][1] = n
    <3>1. own[b] = PlaceOf(n, k)
      BY <1>1, <2>6, <2>8, <2>9, AtOwned
    <3> QED
      BY <3>1 DEF PlaceOf, Place
  <2>13. Emptied(z, own, n, w)
    BY <2>2, <2>11, <2>12 DEF Emptied
  <2>14. k + 1 \in 0 .. blocks
    OBVIOUS
  <2> QED
    BY <2>2, <2>9, <2>11, <2>13, <2>14
<1>4. \A k \in 0 .. blocks : k \in G
  <2> HIDE DEF G
  <2> QED
    BY <1>2, <1>3, LoopEnds, Zenon
<1> QED
  BY <1>4

\* What lies behind the mode of a device reads as one block at most, which is
\* taken and freed again.
LEMMA DeviceEmptied ==
  ASSUME NEW z, NEW N, NEW own, NEW K, NEW S, Tree(z, N, own, K, S), ~Full(z),
         NEW n \in N, z.disk[n].mode = "DEV", NEW blocks \in Nat,
         blocks = (z.disk[n].size + UNITS - 1) \div UNITS,
         NEW f, Freeing(f, z, n, blocks)
  PROVE  Emptied(z, own, n, f[blocks])
<1>1. IsDisk(z) /\ Laid(z, N, own) /\ Layout(z.marked, z.disk, N, own) /\ Shape(z.disk, N)
  BY DEF Tree, Laid
<1>2. blocks = 0 \/ blocks = 1
  <2>1. PICK size : size = z.disk[n].size
    OBVIOUS
  <2>2. size \in Nat /\ size <= UNITS
    BY <1>1, <2>1, TreeNodes DEF Shape
  <2>3. blocks < 2
    BY <2>1, <2>2, BlocksBefore
  <2> QED
    BY <2>3
<1>3. CASE blocks = 0
  BY <1>1, <1>3, EmptiedSelf DEF Freeing
<1>4. CASE blocks = 1
  <2>1. PICK w : w = f[1]
    OBVIOUS
  <2>2. PICK g : g = getOrAllocBlockByOffset(z, n, 0)
    OBVIOUS
  <2>3. w = fs_freeBlock(g.z, g.blk)
    <3>1. 0 \in 0 .. blocks - 1 /\ 0 * UNITS = 0 /\ 0 + 1 = 1
      BY <1>4, Sizings
    <3>2. f[0] = z /\ f[1] = FreeStep(f[0], n, 0)
      BY <3>1 DEF Freeing
    <3> QED
      BY <2>1, <2>2, <3>2 DEF FreeStep
  <2>4. IsDirect(0) /\ 0 \div UNITS = 0
    <3>1. DIRECT_INDEXES_CNT \in Nat \ {0} /\ UNITS \in Nat \ {0}
      BY Sizings
    <3>2. (UNITS * 0) \div UNITS = 0 /\ UNITS * 0 = 0
      BY <3>1, Quotients
    <3> QED
      BY <3>1, <3>2 DEF IsDirect
  <2>5. BlockAt(z, n, 0) = 0
    <3>1. Owns(z.disk, own, n)
      BY <1>1, Inodes
    <3>2. SlotOf(0) = 0 /\ 0 \in Slots
      BY <2>4, SlotSets DEF SlotOf
    <3>3. Ix(z.disk, n, 0) = 0
      BY <3>1, <3>2 DEF Owns
    <3> QED
      BY <2>4, <3>2, <3>3 DEF BlockAt, Ix
  <2>6. PICK x, b : x = fs_allocBlock(z).z /\ b = fs_allocBlock(z).blk
    OBVIOUS
  <2>7. /\ b \in Blocks \ z.marked /\ IsDisk(x) /\ x.kept = z.kept /\ x.disk = z.disk
        /\ x.marked = z.marked \cup {b}
    BY <1>1, <2>6, FreeBlockIs DEF Later
  <2>8. PICK v : v = [x EXCEPT !.disk[n].index[0] = b]
    OBVIOUS
  <2>9. g = [z |-> v, blk |-> b]
    BY <2>2, <2>4, <2>5, <2>6, <2>8 DEF getOrAllocBlockByOffset
  <2>10. v = [x EXCEPT !.disk = [z.disk EXCEPT ![n].index[0] = b]]
    BY <2>7, <2>8
  <2>11. /\ IsDisk(v) /\ v.kept = z.kept /\ v.marked = z.marked \cup {b}
         /\ v.disk = [z.disk EXCEPT ![n].index[0] = b]
    BY <2>7, <2>10 DEF IsDisk
  <2>12. w = fs_freeBlock(v, b)
    BY <2>3, <2>9
  <2>13. IsDisk(w) /\ w.kept = v.kept /\ w.disk = v.disk /\ w.marked = v.marked \ {b}
    BY <2>11, <2>12, FreeBlock
  <2>14. w.marked = z.marked /\ w.kept = z.kept
    BY <2>7, <2>11, <2>13
  <2>15. PICK D, E : D = z.disk /\ E = w.disk
    OBVIOUS
  <2>16. E = [D EXCEPT ![n].index[0] = b]
    BY <2>11, <2>13, <2>15
  <2>17. n \in Blocks /\ IsNode(D[n]) /\ D = [c \in Blocks |-> D[c]]
    BY <1>1, <2>15, Inodes DEF Layout, Formatted
  <2>18. PICK u : u = [D[n] EXCEPT !.index = [D[n].index EXCEPT ![0] = b]]
    OBVIOUS
  <2>19. E = [D EXCEPT ![n] = u]
    BY <2>16, <2>18
  <2>20. Maps(E) /\ E[n] = u /\ \A c \in Blocks \ {n} : E[c] = D[c]
    BY <2>17, <2>19 DEF Maps
  <2>21. u.index = [D[n].index EXCEPT ![0] = b] /\ "unit" \notin DOMAIN u
    BY <2>17, <2>18 DEF IsNode
  <2>22. HasUnits(u)
    BY <2>21 DEF HasUnits, UnitsOf, Us
  <2>23. \A i \in IndexSlots : Ix(E, n, i) = Ix(D, n, i)
    <3>1. 0 \notin IndexSlots /\ IndexSlots \subseteq Slots /\ D[n].index \in [Slots -> Blocks]
      BY <2>17, SlotSets DEF IsNode
    <3> QED
      BY <2>20, <2>21, <3>1 DEF Ix
  <2>24. Emptied(z, own, n, w)
    BY <2>13, <2>14, <2>15, <2>20, <2>22, <2>23 DEF Emptied
  <2> QED
    BY <1>4, <2>1, <2>24
<1> QED
  BY <1>2, <1>3, <1>4

LEMMA DroppedIs ==
  ASSUME NEW y, IsDisk(y), NEW n, NEW w, w = Dropped(y, n)
  PROVE  /\ IsDisk(w) /\ w.kept = y.kept /\ w.disk = y.disk
         /\ w.marked = (y.marked \ (IndexOf(y, n) \ {0})) \ {n}
<1>1. PICK x : x = [y EXCEPT !.marked = @ \ (IndexOf(y, n) \ {0})]
  OBVIOUS
<1>2. /\ IsDisk(x) /\ x.kept = y.kept /\ x.disk = y.disk
      /\ x.marked = y.marked \ (IndexOf(y, n) \ {0})
  BY <1>1 DEF IsDisk
<1>3. w = fs_freeBlock(x, n)
  BY <1>1 DEF Dropped
<1>4. /\ IsDisk(w) /\ w.kept = x.kept /\ w.disk = x.disk /\ w.marked = x.marked \ {n}
  BY <1>2, <1>3, FreeBlock
<1> QED
  BY <1>2, <1>4

\* After fs_reset the inode is gone, and the others are as they were.
LEMMA Removed ==
  ASSUME NEW z, NEW N, NEW own, NEW K, NEW S, Tree(z, N, own, K, S), ~Full(z),
         NEW n \in N, z.disk[n].mode # "DIR", NEW w, w = fs_reset(z, n)
  PROVE  /\ \E own2 : Tree(w, N \ {n}, own2, K, S)
         /\ ~Full(w) /\ w.kept = z.kept /\ Untouched(z.disk, w.disk, N \ {n})
<1>1. /\ IsDisk(z) /\ Layout(z.marked, z.disk, N, own) /\ Shape(z.disk, N)
      /\ Entries(z.disk, N, K) /\ Single(z.disk, N, S)
  BY DEF Tree, Laid
<1>2. PICK size, blocks : size = z.disk[n].size /\ blocks = (size + UNITS - 1) \div UNITS
  OBVIOUS
<1>3. blocks \in Nat
  <2>1. size \in Nat
    BY <1>2, TreeNodes
  <2> QED
    BY <1>2, <2>1, BlocksBefore
<1>4. blocks = (z.disk[n].size + UNITS - 1) \div UNITS
  BY <1>2
<1>5. PICK f : Freeing(f, z, n, blocks) /\ fs_reset(z, n) = Dropped(f[blocks], n)
  BY <1>3, <1>4, ResetIs
<1>6. PICK y : y = f[blocks]
  OBVIOUS
<1>7. Emptied(z, own, n, y)
  <2>1. z.disk[n].mode = "REG" \/ z.disk[n].mode = "DEV"
    BY TreeNodes
  <2>2. CASE z.disk[n].mode = "REG"
    BY <1>3, <1>4, <1>5, <1>6, <2>2, FileEmptied
  <2>3. CASE z.disk[n].mode = "DEV"
    BY <1>3, <1>4, <1>5, <1>6, <2>3, DeviceEmptied
  <2> QED
    BY <2>1, <2>2, <2>3
<1>8. PICK D, E, M, L : D = z.disk /\ E = w.disk /\ M = z.marked /\ L = w.marked
  OBVIOUS
<1>9. /\ IsDisk(w) /\ w.kept = y.kept /\ E = y.disk
      /\ L = (y.marked \ (IndexOf(y, n) \ {0})) \ {n}
  BY <1>5, <1>6, <1>7, <1>8, DroppedIs DEF Emptied
<1>10. Layout(M, D, N, own) /\ D[n].mode # "DIR" /\ Shape(D, N)
  BY <1>1, <1>8
<1>11. Owns(D, own, n) /\ own[n] = Self(n) /\ n \in Blocks
  BY <1>10, Inodes
<1>12. L \subseteq M /\ n \notin L
  BY <1>7, <1>8, <1>9 DEF Emptied
<1>13. \A n2, i, e : Place(n2, i, e)[1] = n2
  BY DEF Place
<1>14. ASSUME NEW b \in M \ L PROVE own[b][1] = n
  <2>1. CASE b \notin y.marked
    BY <1>7, <1>8, <2>1 DEF Emptied
  <2>2. CASE b = n
    BY <1>11, <1>13, <2>2 DEF Self
  <2>3. CASE b \in IndexOf(y, n) \ {0}
    <3>1. PICK i \in IndexSlots : b = Ix(E, n, i)
      BY <1>9, <2>3 DEF IndexOf, IndexSlots, Ix
    <3>2. b = Ix(D, n, i) /\ b # 0 /\ i \in Slots
      BY <1>7, <1>8, <1>9, <2>3, <3>1, SlotSets DEF Emptied
    <3> QED
      BY <1>11, <1>13, <3>2 DEF Owns
  <2> QED
    BY <1>9, <2>1, <2>2, <2>3
<1>15. Leaves(M, L, D, E, own, n)
  BY <1>7, <1>8, <1>9, <1>12, <1>14 DEF Emptied, Leaves
<1>16. (\E own2 : Layout(L, E, N \ {n}, own2)) /\ Untouched(D, E, N \ {n})
  BY <1>10, <1>15, DropNode
<1>17. PICK own2 : Layout(L, E, N \ {n}, own2)
  BY <1>16
<1>18. SameUnits(D, E, N \ {n}) /\ N \ {n} \subseteq N
  BY <1>16 DEF SameUnits, Untouched
<1>19. /\ Shape(E, N \ {n})
       /\ \A m, x : InDir(E, N \ {n}, m, x) =>
            InDir(D, N, m, x) /\ UnitIn(E, m, x) = UnitIn(D, m, x)
  BY <1>10, <1>18, SameTrees
<1>20. Entries(E, N \ {n}, K)
  BY <1>1, <1>8, <1>19 DEF Entries
<1>21. Single(E, N \ {n}, S)
  BY <1>1, <1>8, <1>19 DEF Single
<1>22. Tree(w, N \ {n}, own2, K, S)
  BY <1>8, <1>9, <1>17, <1>19, <1>20, <1>21 DEF Tree, Laid
<1>23. ~Full(w)
  BY <1>8, <1>11, <1>12 DEF Full
<1>24. w.kept = z.kept
  BY <1>7, <1>9 DEF Emptied
<1> QED
  BY <1>8, <1>16, <1>22, <1>23, <1>24

\* Inodes keep their modes and do not get smaller.
Keeps(z, w, N) ==
  \A m \in N : w.disk[m].mode = z.disk[m].mode /\ w.disk[m].size >= z.disk[m].size

\* The units of directory p that name n.
NamesOf(D, p, n) == {off \in 0 .. D[p].size - 1 : UnitIn(D, p, off).idx = n}

\* The two writes of sys_unlink: w is z after inode n was freed and its first
\* entry in p cleared.
Unlinks(z, n, p, w) ==
  /\ z.disk[n].mode # "DIR" /\ z.disk[p].mode = "DIR" /\ NamesOf(z.disk, p, n) # {}
  /\ \E off : /\ off = Lowest(NamesOf(z.disk, p, n))
             /\ w = fs_write(fs_reset(z, n), p, off, <<Hole>>)

\* Names of other inodes stay, and none is new; the other inodes show what they
\* did.
Loses(D, E, N, n) ==
  /\ SameViews(D, E, N \ {n})
  /\ \A m, name, i :
       /\ Link(E, N \ {n}, m, name, i) => Link(D, N, m, name, i)
       /\ Link(D, N, m, name, i) /\ i # n => Link(E, N \ {n}, m, name, i)

\* The inode is gone and so is the entry that named it.
LEMMA Unlinked ==
  ASSUME NEW z, NEW N, Whole(z, N), NEW n \in N, NEW p \in N,
         NEW w, Unlinks(z, n, p, w)
  PROVE  /\ Whole(w, N \ {n}) /\ w.kept = z.kept /\ Keeps(z, w, N \ {n})
         /\ Loses(z.disk, w.disk, N, n)
<1> PICK off : off = Lowest(NamesOf(z.disk, p, n)) /\ w = fs_write(fs_reset(z, n), p, off, <<Hole>>)
  BY DEF Unlinks
<1> z.disk[n].mode # "DIR" /\ z.disk[p].mode = "DIR" /\ NamesOf(z.disk, p, n) # {}
  BY DEF Unlinks
<1>1. PICK own : Tree(z, N, own, N, Singles(z.disk, N)) /\ ~Full(z)
  BY DEF Whole
<1>2. PICK S, y : S = Singles(z.disk, N) /\ y = fs_reset(z, n)
  OBVIOUS
<1>3. /\ \E own2 : Tree(y, N \ {n}, own2, N, S)
      /\ ~Full(y) /\ y.kept = z.kept /\ Untouched(z.disk, y.disk, N \ {n})
  <2>1. Tree(z, N, own, N, S) /\ ~Full(z) /\ y = fs_reset(z, n)
    BY <1>1, <1>2
  <2> QED
    BY <2>1, Removed
<1>4. PICK own2 : Tree(y, N \ {n}, own2, N, S)
  BY <1>3
<1>5. /\ IsDisk(y) /\ Shape(y.disk, N \ {n}) /\ Entries(y.disk, N \ {n}, N)
      /\ Single(y.disk, N \ {n}, S)
  BY <1>4 DEF Tree
<1>6. off \in NamesOf(z.disk, p, n)
  <2>1. NamesOf(z.disk, p, n) \in SUBSET Nat
    BY DEF NamesOf
  <2> QED
    BY <2>1, LowestIsLeast
<1>7. PICK size : size = z.disk[p].size
  OBVIOUS
<1>8. p \in N \ {n} /\ y.disk[p] = z.disk[p] /\ n \in S /\ 0 \notin N
  <2>1. p # n
    OBVIOUS
  <2>2. 0 \notin N
    BY <1>1, TreeNodes
  <2> QED
    BY <1>2, <1>3, <2>1, <2>2 DEF Untouched, Singles
<1>9. /\ size \in Nat /\ y.disk[p].mode = "DIR" /\ y.disk[p].size = size
      /\ size <= MaxEntries /\ off \in 0 .. size - 1 /\ MaxEntries \in Nat
  <2>1. size \in Nat
    BY <1>1, <1>7, TreeNodes
  <2>2. y.disk[p].size <= Bound(y.disk[p].mode)
    BY <1>5, <1>8 DEF Shape
  <2>3. MaxEntries \in Nat
    BY Bounds, OffsetsDown
  <2> QED
    BY <1>6, <1>7, <1>8, <2>1, <2>2, <2>3 DEF NamesOf, Bound
<1>10. UnitIn(y.disk, p, off).idx = n /\ InDir(y.disk, N \ {n}, p, off)
  <2>1. off \in Offs
    <3>1. off \in Nat /\ off <= MaxEntries
      BY <1>9
    <3> QED
      BY <3>1, Bounds, OffsetsDown
  <2>2. UnitIn(y.disk, p, off) = UnitIn(z.disk, p, off)
    BY <1>3, <1>8, <2>1 DEF Untouched
  <2> QED
    BY <1>6, <1>8, <1>9, <2>2 DEF NamesOf, InDir
<1>11. Others(y.disk, N \ {n}, p, off, N \ {n})
  <2> SUFFICES ASSUME NEW m, NEW x, InDir(y.disk, N \ {n}, m, x), ~(m = p /\ x = off)
               PROVE  IsEntry(UnitIn(y.disk, m, x), N \ {n})
    BY DEF Others
  <2>1. IsEntry(UnitIn(y.disk, m, x), N)
    BY <1>5 DEF Entries
  <2>2. UnitIn(y.disk, m, x).idx # n
    <3> SUFFICES ASSUME UnitIn(y.disk, m, x).idx = n PROVE FALSE
      OBVIOUS
    <3>1. PICK E, N2 : E = y.disk /\ N2 = N \ {n}
      OBVIOUS
    <3>2. /\ InDir(E, N2, m, x) /\ InDir(E, N2, p, off) /\ n \in S
          /\ UnitIn(E, m, x).idx = n /\ UnitIn(E, p, off).idx = n /\ Single(E, N2, S)
      BY <1>5, <1>8, <1>10, <3>1
    <3>3. m = p /\ x = off
      BY <3>2 DEF Single
    <3> QED
      BY <3>3
  <2> QED
    BY <2>1, <2>2 DEF IsEntry
<1>12. IsEntry(Hole, N \ {n}) /\ Alone(y.disk, N \ {n}, p, off, Hole.idx, S)
  <2>1. Hole.idx = 0 /\ IsEntry(Hole, N \ {n})
    BY DEF Hole, Dirent, IsEntry
  <2> QED
    BY <1>2, <1>8, <2>1 DEF Alone, Singles
<1>13. Mapped(y.disk, p, off, 1)
  <2>1. size > 0 /\ \A x \in off .. off + 1 : x \in 0 .. 0 + size
    BY <1>9
  <2>2. Mapped(y.disk, p, 0, size)
    BY <1>5, <1>8, <1>9, <2>1 DEF Shape
  <2> QED
    BY <2>1, <2>2 DEF Mapped
<1>14. off \in Nat /\ off <= y.disk[p].size /\ off < MaxEntries
  BY <1>9
<1>15. w = fs_write(y, p, off, <<Hole>>)
  BY <1>2
<1>16. /\ ~Full(w) /\ Later(y, w) /\ Stays(y.disk, w.disk, N \ {n}, p)
       /\ OneEntry(y.disk, w.disk, N \ {n}, p, off, Hole)
       /\ SameViews(y.disk, w.disk, N \ {n})
       /\ \E own3 : Tree(w, N \ {n}, own3, N \ {n}, S) /\ Agree(own2, own3, y.marked)
  <2>1. PICK N2, u : N2 = N \ {n} /\ u = Hole
    OBVIOUS
  <2>2. /\ Tree(y, N2, own2, N, S) /\ p \in N2 /\ y.disk[p].mode = "DIR"
        /\ off \in Nat /\ off <= y.disk[p].size /\ off < MaxEntries
    BY <1>4, <1>8, <1>9, <1>14, <2>1
  <2>3. /\ IsEntry(u, N2) /\ Others(y.disk, N2, p, off, N2)
        /\ Alone(y.disk, N2, p, off, u.idx, S)
    BY <1>11, <1>12, <2>1
  <2>4. w = fs_write(y, p, off, <<u>>) /\ ~Full(y) /\ Mapped(y.disk, p, off, 1)
    BY <1>3, <1>13, <1>15, <2>1
  <2>5. /\ ~Full(w) /\ Later(y, w) /\ Stays(y.disk, w.disk, N2, p)
        /\ OneEntry(y.disk, w.disk, N2, p, off, u) /\ SameViews(y.disk, w.disk, N2)
        /\ \E own3 : Tree(w, N2, own3, N2, S) /\ Agree(own2, own3, y.marked)
    BY <2>2, <2>3, <2>4, EntryWritten
  <2> QED
    BY <2>1, <2>5
<1>17. PICK own3 : Tree(w, N \ {n}, own3, N \ {n}, S)
  BY <1>16
<1>18. Keeps(z, w, N \ {n})
  BY <1>3, <1>16 DEF Untouched, Stays, Keeps
<1>19. Singles(w.disk, N \ {n}) \subseteq S
  BY <1>2, <1>18 DEF Singles, Keeps
<1>20. Tree(w, N \ {n}, own3, N \ {n}, Singles(w.disk, N \ {n}))
  BY <1>17, <1>19 DEF Tree, Single
<1>21. PICK D, E, F, N2 : D = z.disk /\ E = y.disk /\ F = w.disk /\ N2 = N \ {n}
  OBVIOUS
<1>22. SameViews(D, E, N2) /\ SameLinks(D, E, N2)
  <2>1. Layout(z.marked, D, N, own) /\ Shape(D, N)
    BY <1>1, <1>21 DEF Tree, Laid
  <2>2. N2 \subseteq N /\ SameUnits(D, E, N2)
    BY <1>3, <1>21 DEF SameUnits, Untouched
  <2> QED
    BY <2>1, <2>2, SameShown
<1>23. \A m, name, i : Link(D, N, m, name, i) <=> Link(E, N2, m, name, i)
  <2>1. D[n].mode # "DIR"
    BY <1>21
  <2>2. \A m, name, i : Link(D, N, m, name, i) <=> Link(D, N \ {n}, m, name, i)
    BY <2>1, LinkDirs
  <2> QED
    BY <1>21, <1>22, <2>2 DEF SameLinks
<1>24. OneEntry(E, F, N2, p, off, Hole) /\ Hole.name \notin Proper /\ UnitIn(E, p, off).idx = n
  <2>1. Hole.name \notin Proper
    BY DEF Hole, Dirent, Proper
  <2> QED
    BY <1>10, <1>16, <1>21, <2>1
<1>25. \A m, name, i :
         /\ Link(F, N2, m, name, i) => Link(E, N2, m, name, i)
         /\ Link(E, N2, m, name, i) /\ i # n => Link(F, N2, m, name, i)
  BY <1>24, LinkCleared
<1>26. SameViews(D, F, N2)
  BY <1>16, <1>21, <1>22 DEF SameViews
<1>27. Loses(D, F, N, n)
  BY <1>21, <1>23, <1>25, <1>26 DEF Loses
<1> QED
  BY <1>3, <1>16, <1>18, <1>20, <1>21, <1>27 DEF Whole, Later

-----------------------------------------------------------------------------
(* Looking up                                                              *)

\* The names on paths.
Names == STRING \ {""}

LEMMA HoleNameless ==
  Hole.name \notin Names
BY DEF Hole, Dirent, Names

\* The entries with a name lie in directories and name inodes.
LEMMA NamedIs ==
  ASSUME NEW z, NEW N, NEW own, NEW S, Tree(z, N, own, N, S), NEW n \in N,
         NEW name \in Names, NEW off \in Named(z, n, name)
  PROVE  /\ z.disk[n].mode = "DIR" /\ off \in 0 .. z.disk[n].size - 1 /\ off \in Nat
         /\ UnitAt(z, n, off) = UnitIn(z.disk, n, off)
         /\ UnitIn(z.disk, n, off).idx \in N
<1>1. PICK D : D = z.disk
  OBVIOUS
<1>2. Layout(z.marked, D, N, own) /\ Shape(D, N) /\ Entries(D, N, N)
  BY <1>1 DEF Tree, Laid
<1>3. D[n].size \in Nat /\ D[n].mode \in {"REG", "DIR", "DEV"}
  BY <1>1, TreeNodes
<1>4. UnitAt(z, n, off) = UnitIn(D, n, off)
  BY <1>1 DEF UnitAt, UnitIn, BlockAt, At, Ix, To
<1>5. PICK u : u = UnitIn(D, n, off)
  OBVIOUS
<1>6. off \in 0 .. D[n].size - 1 /\ "name" \in DOMAIN u /\ u.name = name
  BY <1>1, <1>4, <1>5 DEF Named
<1>7. off \in Nat
  BY <1>3, <1>6
<1>8. D[n].mode # "REG"
  <2> SUFFICES ASSUME D[n].mode = "REG" PROVE FALSE
    OBVIOUS
  <2>1. IsValue(u)
    BY <1>2, <1>5, <1>6 DEF Shape
  <2>2. DOMAIN [val |-> u.val] = {"val"}
    OBVIOUS
  <2> QED
    BY <1>6, <2>1, <2>2 DEF IsValue
<1>9. D[n].mode # "DEV"
  <2> SUFFICES ASSUME D[n].mode = "DEV" PROVE FALSE
    OBVIOUS
  <2>1. UNITS \in Nat \ {0}
    BY Sizings
  <2>2. off < UNITS * 1
    <3>1. D[n].size <= UNITS
      BY <1>2 DEF Shape
    <3> QED
      BY <1>3, <1>6, <1>7, <2>1, <3>1
  <2>3. off \div UNITS < 1 /\ off \div UNITS \in Nat /\ off % UNITS \in Us
    BY <1>7, <2>1, <2>2, Quotients, Division DEF Us
  <2>4. off \div UNITS = 0
    BY <2>3
  <2>5. At(D, n, 0) = 0
    <3>1. SlotOf(0) \in Slots
      BY BlockPlaces, SlotSets
    <3>2. Owns(D, own, n)
      BY <1>2, Inodes
    <3>3. Ix(D, n, SlotOf(0)) = 0
      BY <3>1, <3>2 DEF Owns
    <3> QED
      BY <3>3 DEF At
  <2>6. u = Junk
    BY <1>2, <1>5, <2>3, <2>4, <2>5 DEF UnitIn, Layout, Formatted
  <2>7. DOMAIN Junk = {"junk"}
    BY DEF Junk
  <2> QED
    BY <1>6, <2>6, <2>7
<1>10. D[n].mode = "DIR"
  BY <1>3, <1>8, <1>9
<1>11. u.idx \in N
  <2>1. IsEntry(u, N)
    BY <1>2, <1>5, <1>6, <1>10 DEF Entries, InDir
  <2>2. u # Hole
    BY <1>6, HoleNameless
  <2> QED
    BY <2>1, <2>2 DEF IsEntry
<1> QED
  BY <1>1, <1>4, <1>5, <1>6, <1>7, <1>10, <1>11

\* The loop of fs_lookup.
Looking(f, z, path) ==
  /\ f[0] = [rv |-> "OK", parent |-> ROOT, node |-> ROOT]
  /\ \A i \in 0 .. Len(path) - 1 : f[i + 1] = Step(z, f[i], path[i + 1])

LEMMA LookupIs ==
  ASSUME NEW z, NEW path, Len(path) \in Nat
  PROVE  \E f : Looking(f, z, path) /\ fs_lookup(z, path) = f[Len(path)]
<1> DEFINE Start == [rv |-> "OK", parent |-> ROOT, node |-> ROOT]
           Of(f, i) == IF i = 0 THEN Start ELSE Step(z, f[i - 1], path[i])
           Solves(f, k) == f = [i \in 0 .. k |-> Of(f, i)]
           G == {k \in 0 .. Len(path) : \E f : Solves(f, k)}
<1>1. 0 \in G
  <2>1. Solves([i \in 0 .. 0 |-> Start], 0)
    OBVIOUS
  <2>2. \E f : Solves(f, 0)
    BY <2>1
  <2> HIDE DEF Solves
  <2> QED
    BY <2>2
<1>2. ASSUME NEW k \in 0 .. Len(path) - 1, k \in G PROVE k + 1 \in G
  <2>1. PICK f : Solves(f, k)
    BY <1>2
  <2> HIDE DEF Start
  <2> DEFINE h == [i \in 0 .. k + 1 |-> IF i = k + 1 THEN Of(f, i) ELSE f[i]]
  <2>2. \A i \in 0 .. k + 1 : h[i] = Of(h, i)
    <3> SUFFICES ASSUME NEW i \in 0 .. k + 1 PROVE h[i] = Of(h, i)
      OBVIOUS
    <3>1. CASE i = 0
      BY <2>1, <3>1
    <3>2. CASE i # 0
      <4>1. i - 1 \in 0 .. k /\ i - 1 # k + 1
        BY <3>2
      <4>2. h[i - 1] = f[i - 1]
        BY <4>1
      <4>3. ASSUME i # k + 1 PROVE h[i] = Of(f, i)
        <5>1. i \in 0 .. k
          BY <4>3
        <5>2. f[i] = Of(f, i)
          BY <2>1, <5>1
        <5> QED
          BY <4>3, <5>2
      <4>4. h[i] = Of(f, i)
        BY <4>3
      <4> QED
        BY <3>2, <4>2, <4>4
    <3> QED
      BY <3>1, <3>2
  <2>3. Solves(h, k + 1)
    BY <2>2
  <2>4. \E e : Solves(e, k + 1)
    BY <2>3
  <2> HIDE DEF Solves
  <2> QED
    BY <2>4
<1> HIDE DEF G
<1>3. Len(path) \in G
  <2>1. \A i \in 0 .. Len(path) : i \in G
    BY <1>1, <1>2, LoopEnds, Zenon
  <2> QED
    BY <2>1
<1>4. \E f : Solves(f, Len(path))
  BY <1>3 DEF G
<1> DEFINE c == CHOOSE f : Solves(f, Len(path))
<1>5. fs_lookup(z, path) = c[Len(path)]
  BY Zenon DEF fs_lookup
<1>6. Solves(c, Len(path))
  BY <1>4
<1> HIDE DEF c
<1>7. \A i \in 0 .. Len(path) : c[i] = Of(c, i)
  BY <1>6
<1>8. c[0] = Start
  BY <1>7
<1>9. ASSUME NEW i \in 0 .. Len(path) - 1 PROVE c[i + 1] = Step(z, c[i], path[i + 1])
  <2>1. i + 1 \in 0 .. Len(path) /\ i + 1 # 0 /\ (i + 1) - 1 = i
    OBVIOUS
  <2> QED
    BY <1>7, <2>1
<1> QED
  BY <1>5, <1>8, <1>9 DEF Looking

\* What a lookup finds: inodes, and one that is no directory by its entry.
Finds(z, N, r) ==
  /\ r = [rv |-> r.rv, parent |-> r.parent, node |-> r.node]
  /\ r.node \in N /\ r.parent \in N
  /\ r.rv = "OK" /\ z.disk[r.node].mode # "DIR" =>
       z.disk[r.parent].mode = "DIR" /\ NamesOf(z.disk, r.parent, r.node) # {}

LEMMA StepFinds ==
  ASSUME NEW z, NEW N, NEW own, NEW S, Tree(z, N, own, N, S),
         NEW r, Finds(z, N, r), NEW name \in Names
  PROVE  Finds(z, N, Step(z, r, name))
<1>1. CASE r.rv # "OK"
  <2>1. PICK q : q = [r EXCEPT !.rv = "NO_DIR"]
    OBVIOUS
  <2>2. Step(z, r, name) = q
    BY <1>1, <2>1 DEF Step
  <2>3. q.node = r.node /\ q.parent = r.parent /\ q.rv # "OK"
    BY <1>1, <2>1 DEF Finds
  <2>4. q = [rv |-> q.rv, parent |-> q.parent, node |-> q.node]
    BY <2>1 DEF Finds
  <2> QED
    BY <2>2, <2>3, <2>4 DEF Finds
<1>2. CASE r.rv = "OK" /\ Named(z, r.node, name) = {}
  BY <1>2 DEF Step, Finds
<1>3. CASE r.rv = "OK" /\ Named(z, r.node, name) # {}
  <2>1. PICK n, off : n = r.node /\ off = Lowest(Named(z, n, name))
    OBVIOUS
  <2>2. n \in N
    BY <2>1 DEF Finds
  <2>3. off \in Named(z, n, name)
    <3>1. Named(z, n, name) \in SUBSET Nat
      BY <2>2, NamedIs
    <3> QED
      BY <1>3, <2>1, <3>1, LowestIsLeast
  <2>4. /\ z.disk[n].mode = "DIR" /\ off \in 0 .. z.disk[n].size - 1
        /\ UnitAt(z, n, off) = UnitIn(z.disk, n, off)
        /\ UnitIn(z.disk, n, off).idx \in N
    BY <2>2, <2>3, NamedIs
  <2>5. PICK m : m = UnitIn(z.disk, n, off).idx
    OBVIOUS
  <2>6. off \in NamesOf(z.disk, n, m)
    BY <2>4, <2>5 DEF NamesOf
  <2>7. Step(z, r, name) = [rv |-> "OK", parent |-> n, node |-> m]
    BY <1>3, <2>1, <2>4, <2>5 DEF Step
  <2> QED
    BY <2>2, <2>4, <2>5, <2>6, <2>7 DEF Finds
<1> QED
  BY <1>1, <1>2, <1>3

LEMMA LookupFinds ==
  ASSUME NEW z, NEW N, Whole(z, N), NEW path \in Paths
  PROVE  Finds(z, N, fs_lookup(z, path))
<1>1. PICK own : Tree(z, N, own, N, Singles(z.disk, N))
  BY DEF Whole
<1>2. PICK S : S = Singles(z.disk, N)
  OBVIOUS
<1>3. path \in Seq(Names)
  BY RlFsAssumption, Zenon DEF Names
<1>4. Len(path) \in Nat /\ \A i \in 1 .. Len(path) : path[i] \in Names
  BY <1>3
<1>5. PICK f : Looking(f, z, path) /\ fs_lookup(z, path) = f[Len(path)]
  BY <1>4, LookupIs
<1> DEFINE G == {i \in 0 .. Len(path) : Finds(z, N, f[i])}
<1>6. 0 \in G
  <2>1. ROOT \in N /\ z.disk[ROOT].mode = "DIR"
    BY <1>1 DEF Tree, Laid, Layout
  <2>2. Finds(z, N, [rv |-> "OK", parent |-> ROOT, node |-> ROOT])
    BY <2>1 DEF Finds
  <2> QED
    BY <1>4, <1>5, <2>2 DEF Looking
<1>7. ASSUME NEW i \in 0 .. Len(path) - 1, i \in G PROVE i + 1 \in G
  <2>1. i + 1 \in 1 .. Len(path) /\ i + 1 \in 0 .. Len(path)
    BY <1>4
  <2>2. f[i + 1] = Step(z, f[i], path[i + 1]) /\ path[i + 1] \in Names
    BY <1>4, <1>5, <2>1 DEF Looking
  <2>3. Tree(z, N, own, N, S) /\ Finds(z, N, f[i])
    BY <1>1, <1>2, <1>7
  <2>4. Finds(z, N, f[i + 1])
    BY <2>2, <2>3, StepFinds
  <2> QED
    BY <2>1, <2>4
<1>8. \A i \in 0 .. Len(path) : i \in G
  <2> HIDE DEF G
  <2> QED
    BY <1>4, <1>6, <1>7, LoopEnds, Zenon
<1> QED
  BY <1>4, <1>5, <1>8

-----------------------------------------------------------------------------
(* The tree                                                                 *)

\* Below an inode lie inodes.
Below(z, S, name) == UNION {{UnitAt(z, n, off).idx : off \in Named(z, n, name)} : n \in S}

LEMMA BelowIn ==
  ASSUME NEW z, NEW N, NEW own, NEW K, Tree(z, N, own, N, K), NEW S, S \subseteq N,
         NEW name \in Names
  PROVE  Below(z, S, name) \subseteq N
<1> SUFFICES ASSUME NEW x \in Below(z, S, name) PROVE x \in N
  OBVIOUS
<1>1. PICK n \in S : \E off \in Named(z, n, name) : x = UnitAt(z, n, off).idx
  BY DEF Below
<1>2. PICK off \in Named(z, n, name) : x = UnitAt(z, n, off).idx
  BY <1>1
<1>3. n \in N
  OBVIOUS
<1>4. UnitAt(z, n, off) = UnitIn(z.disk, n, off) /\ UnitIn(z.disk, n, off).idx \in N
  BY <1>2, <1>3, NamedIs
<1> QED
  BY <1>2, <1>4

\* The inodes a path leads to on disk z.
Reached(z, path) ==
  LET below(n, name) == {UnitAt(z, n, off).idx : off \in Named(z, n, name)}
      at[i \in 0 .. Len(path)] ==
        IF i = 0 THEN {ROOT} ELSE UNION {below(n, path[i]) : n \in at[i - 1]}
  IN at[Len(path)]

\* Its loop.
Descends(f, z, path) ==
  /\ f[0] = {ROOT}
  /\ \A i \in 0 .. Len(path) - 1 : f[i + 1] = Below(z, f[i], path[i + 1])

LEMMA ReachedIs ==
  ASSUME NEW z, NEW path, Len(path) \in Nat
  PROVE  \E f : Descends(f, z, path) /\ Reached(z, path) = f[Len(path)]
<1> DEFINE Deeper(f, i) == UNION {{UnitAt(z, n, off).idx : off \in Named(z, n, path[i])}
                                    : n \in f[i - 1]}
           Of(f, i) == IF i = 0 THEN {ROOT} ELSE Deeper(f, i)
           Solves(f, k) == f = [i \in 0 .. k |-> Of(f, i)]
           G == {k \in 0 .. Len(path) : \E f : Solves(f, k)}
<1>1. 0 \in G
  <2>1. Solves([i \in 0 .. 0 |-> {ROOT}], 0)
    OBVIOUS
  <2>2. \E f : Solves(f, 0)
    BY <2>1
  <2> HIDE DEF Solves
  <2> QED
    BY <2>2
<1>2. ASSUME NEW k \in 0 .. Len(path) - 1, k \in G PROVE k + 1 \in G
  <2>1. PICK f : Solves(f, k)
    BY <1>2
  <2> DEFINE h == [i \in 0 .. k + 1 |-> IF i = k + 1 THEN Of(f, i) ELSE f[i]]
  <2>2. \A i \in 0 .. k + 1 : h[i] = Of(h, i)
    <3> SUFFICES ASSUME NEW i \in 0 .. k + 1 PROVE h[i] = Of(h, i)
      OBVIOUS
    <3>1. CASE i = 0
      <4>1. f[0] = {ROOT}
        BY <2>1
      <4>2. h[0] = {ROOT}
        BY <4>1
      <4> QED
        BY <3>1, <4>2
    <3>2. CASE i # 0
      <4>1. i - 1 \in 0 .. k /\ i - 1 # k + 1
        BY <3>2
      <4>2. h[i - 1] = f[i - 1]
        BY <4>1
      <4>3. Deeper(h, i) = Deeper(f, i)
        BY <4>2
      <4> HIDE DEF Deeper
      <4>4. ASSUME i # k + 1 PROVE h[i] = Of(f, i)
        <5>1. i \in 0 .. k
          BY <4>4
        <5>2. f[i] = Of(f, i)
          BY <2>1, <5>1
        <5> QED
          BY <4>4, <5>2
      <4>5. h[i] = Of(f, i)
        BY <4>4
      <4> QED
        BY <3>2, <4>3, <4>5
    <3> QED
      BY <3>1, <3>2
  <2>3. Solves(h, k + 1)
    <3> HIDE DEF Of
    <3> QED
      BY <2>2
  <2>4. \E e : Solves(e, k + 1)
    BY <2>3
  <2> HIDE DEF Solves
  <2> QED
    BY <2>4
<1> HIDE DEF G
<1>3. Len(path) \in G
  <2>1. \A i \in 0 .. Len(path) : i \in G
    BY <1>1, <1>2, LoopEnds, Zenon
  <2> QED
    BY <2>1
<1>4. \E f : Solves(f, Len(path))
  BY <1>3 DEF G
<1> DEFINE c == CHOOSE f : Solves(f, Len(path))
<1>5. Reached(z, path) = c[Len(path)]
  BY Zenon DEF Reached
<1>6. Solves(c, Len(path))
  BY <1>4
<1> HIDE DEF c
<1>7. \A i \in 0 .. Len(path) : c[i] = Of(c, i)
  <2> HIDE DEF Of
  <2> QED
    BY <1>6
<1>8. c[0] = {ROOT}
  <2>1. 0 \in 0 .. Len(path)
    OBVIOUS
  <2> HIDE DEF Deeper
  <2> QED
    BY <1>7, <2>1
<1>9. ASSUME NEW i \in 0 .. Len(path) - 1 PROVE c[i + 1] = Below(z, c[i], path[i + 1])
  <2>1. i + 1 \in 0 .. Len(path) /\ i + 1 # 0 /\ (i + 1) - 1 = i
    OBVIOUS
  <2>2. c[i + 1] = Deeper(c, i + 1)
    <3> HIDE DEF Deeper
    <3> QED
      BY <1>7, <2>1
  <2> QED
    BY <2>1, <2>2 DEF Below
<1> QED
  BY <1>5, <1>8, <1>9 DEF Descends

\* at says for each inode the path it lies on: every name leads one step down,
\* and every inode but the root has one.
PlainPaths == Paths \subseteq Seq(Proper) \ {<<>>}
Rooted(D, N, at) ==
  /\ at = [n \in N |-> at[n]] /\ at[ROOT] = <<>>
  /\ \A n \in N \ {ROOT} : at[n] \in Paths
  /\ \A m, n \in N : at[m] = at[n] => m = n
  /\ \A m, name, i : Link(D, N, m, name, i) => at[i] = Append(at[m], name)
  /\ \A n \in N \ {ROOT} : \E m, name : Link(D, N, m, name, n)

\* Sequences and the names behind them.
LEMMA AppendSome ==
  ASSUME NEW T, NEW p \in Seq(T), NEW a \in T
  PROVE  Append(p, a) \in Seq(T) /\ Append(p, a) # <<>>
<1>1. Len(Append(p, a)) = Len(p) + 1 /\ Len(<<>>) = 0 /\ Len(p) \in Nat
  OBVIOUS
<1> QED
  BY <1>1

LEMMA AppendApart ==
  ASSUME NEW T, NEW p \in Seq(T), NEW q \in Seq(T), NEW a \in T, NEW b \in T,
         Append(p, a) = Append(q, b)
  PROVE  p = q /\ a = b
<1>1. Len(Append(p, a)) = Len(p) + 1 /\ Len(Append(q, b)) = Len(q) + 1
  OBVIOUS
<1>2. Len(p) = Len(q) /\ Len(p) \in Nat
  BY <1>1
<1>3. \A i \in 1 .. Len(p) : Append(p, a)[i] = p[i] /\ Append(q, b)[i] = q[i]
  BY <1>2
<1>4. Append(p, a)[Len(p) + 1] = a /\ Append(q, b)[Len(p) + 1] = b
  BY <1>2
<1>5. \A i \in 1 .. Len(p) : p[i] = q[i]
  BY <1>3
<1>6. p = q
  BY <1>2, <1>5
<1> QED
  BY <1>4, <1>6

\* Names lead from directories to inodes.
LEMMA LinkNodes ==
  ASSUME NEW z, NEW N, NEW own, NEW S, Tree(z, N, own, N, S),
         NEW m, NEW name, NEW i, Link(z.disk, N, m, name, i)
  PROVE  m \in N /\ z.disk[m].mode = "DIR" /\ name \in Proper /\ i \in N
<1>1. PICK D : D = z.disk
  OBVIOUS
<1>2. PICK x : InDir(D, N, m, x) /\ UnitIn(D, m, x).name = name /\ UnitIn(D, m, x).idx = i
  BY <1>1 DEF Link
<1>3. name \in Proper
  BY DEF Link
<1>4. PICK u : u = UnitIn(D, m, x)
  OBVIOUS
<1>5. IsEntry(u, N)
  BY <1>1, <1>2, <1>4 DEF Tree, Entries
<1>6. u # Hole
  <2>1. Hole.name \notin Proper
    BY DEF Hole, Dirent, Proper
  <2> QED
    BY <1>2, <1>3, <1>4, <2>1
<1>7. i \in N
  BY <1>2, <1>4, <1>5, <1>6 DEF IsEntry
<1> QED
  BY <1>1, <1>2, <1>3, <1>7 DEF InDir

\* Where a name leads from inode n.
LEMMA NamedLinks ==
  ASSUME NEW z, NEW N, NEW own, NEW S, Tree(z, N, own, N, S), NEW n \in N, NEW name \in Proper
  PROVE  /\ \A off \in Named(z, n, name) : Link(z.disk, N, n, name, UnitAt(z, n, off).idx)
         /\ \A i : Link(z.disk, N, n, name, i) =>
              \E off \in Named(z, n, name) : UnitAt(z, n, off).idx = i
<1>1. PICK D : D = z.disk
  OBVIOUS
<1>2. \A off : UnitAt(z, n, off) = UnitIn(D, n, off)
  BY <1>1 DEF UnitAt, UnitIn, BlockAt, At, Ix, To
<1>3. name \in Names
  BY DEF Names, Proper
<1>4. ASSUME NEW off \in Named(z, n, name)
      PROVE  Link(D, N, n, name, UnitAt(z, n, off).idx)
  <2>1. D[n].mode = "DIR" /\ off \in 0 .. D[n].size - 1
    BY <1>1, <1>3, NamedIs
  <2>2. UnitIn(D, n, off).name = name
    BY <1>2 DEF Named
  <2>3. InDir(D, N, n, off)
    BY <2>1 DEF InDir
  <2> QED
    BY <1>2, <2>2, <2>3 DEF Link
<1>5. ASSUME NEW i, Link(D, N, n, name, i)
      PROVE  \E off \in Named(z, n, name) : UnitAt(z, n, off).idx = i
  <2>1. PICK x : InDir(D, N, n, x) /\ UnitIn(D, n, x).name = name /\ UnitIn(D, n, x).idx = i
    BY <1>5 DEF Link
  <2>2. PICK u : u = UnitIn(D, n, x)
    OBVIOUS
  <2>3. IsEntry(u, N)
    BY <1>1, <2>1, <2>2 DEF Tree, Entries
  <2>4. "name" \in DOMAIN u
    <3>1. DOMAIN [name |-> u.name, idx |-> u.idx] = {"name", "idx"}
      OBVIOUS
    <3> QED
      BY <2>3, <3>1 DEF IsEntry
  <2>5. x \in 0 .. z.disk[n].size - 1
    BY <1>1, <2>1 DEF InDir
  <2>6. x \in Named(z, n, name)
    BY <1>2, <2>1, <2>2, <2>4, <2>5 DEF Named
  <2> QED
    BY <1>2, <2>1, <2>6
<1> QED
  BY <1>1, <1>4, <1>5

\* Paths are sequences of names, and so is where an inode lies.
LEMMA Places ==
  ASSUME PlainPaths, NEW D, NEW N, NEW at, Rooted(D, N, at), NEW n \in N
  PROVE  /\ at[n] \in Seq(Proper) /\ (at[n] = <<>> => n = ROOT)
         /\ n # ROOT => at[n] \in Paths
<1>1. <<>> \in Seq(Proper)
  OBVIOUS
<1> QED
  BY <1>1 DEF PlainPaths, Rooted

\* One step down.
LEMMA BelowPlace ==
  ASSUME PlainPaths, NEW z, NEW N, NEW own, NEW S, Tree(z, N, own, N, S),
         NEW at, Rooted(z.disk, N, at), NEW p \in Seq(Proper), NEW name \in Proper
  PROVE  Below(z, {n \in N : at[n] = p}, name) = {n \in N : at[n] = Append(p, name)}
<1>1. PICK D, H : D = z.disk /\ H = {n \in N : at[n] = p}
  OBVIOUS
<1>2. ASSUME NEW i \in Below(z, H, name) PROVE i \in N /\ at[i] = Append(p, name)
  <2>1. PICK n \in H : \E off \in Named(z, n, name) : i = UnitAt(z, n, off).idx
    BY <1>2 DEF Below
  <2>2. n \in N /\ at[n] = p
    BY <1>1, <2>1
  <2>3. Link(D, N, n, name, i)
    BY <1>1, <2>1, <2>2, NamedLinks
  <2>4. i \in N
    BY <1>1, <2>3, LinkNodes
  <2>5. at[i] = Append(at[n], name)
    BY <1>1, <2>3 DEF Rooted
  <2> QED
    BY <2>2, <2>4, <2>5
<1>3. ASSUME NEW i \in N, at[i] = Append(p, name) PROVE i \in Below(z, H, name)
  <2>1. Append(p, name) # <<>>
    BY AppendSome
  <2>2. i # ROOT
    BY <1>3, <2>1 DEF Rooted
  <2>3. PICK m, nm : Link(D, N, m, nm, i)
    BY <1>1, <2>2 DEF Rooted
  <2>4. m \in N /\ nm \in Proper
    BY <1>1, <2>3, LinkNodes
  <2>5. at[m] \in Seq(Proper)
    BY <2>4, Places
  <2>6. at[i] = Append(at[m], nm)
    BY <1>1, <2>3 DEF Rooted
  <2>7. at[m] = p /\ nm = name
    <3>1. PICK q : q = at[m]
      OBVIOUS
    <3>2. q \in Seq(Proper) /\ nm \in Proper /\ Append(q, nm) = Append(p, name)
      BY <1>3, <2>4, <2>5, <2>6, <3>1
    <3>3. q = p /\ nm = name
      BY <3>2, AppendApart
    <3> QED
      BY <3>1, <3>3
  <2>8. m \in H /\ Link(D, N, m, name, i)
    BY <1>1, <2>3, <2>4, <2>7
  <2>9. PICK off \in Named(z, m, name) : UnitAt(z, m, off).idx = i
    BY <1>1, <2>4, <2>8, NamedLinks
  <2> QED
    BY <2>8, <2>9 DEF Below
<1> QED
  BY <1>1, <1>2, <1>3

\* A path leads to the inode that lies on it.
LEMMA ReachedPlace ==
  ASSUME PlainPaths, NEW z, NEW N, NEW own, NEW S, Tree(z, N, own, N, S),
         NEW at, Rooted(z.disk, N, at), NEW path \in Seq(Proper)
  PROVE  Reached(z, path) = {n \in N : at[n] = path}
<1>1. Len(path) \in Nat /\ \A i \in 1 .. Len(path) : path[i] \in Proper
  OBVIOUS
<1>2. PICK f : Descends(f, z, path) /\ Reached(z, path) = f[Len(path)]
  BY <1>1, ReachedIs
<1> DEFINE G == {i \in 0 .. Len(path) : f[i] = {n \in N : at[n] = SubSeq(path, 1, i)}}
<1>3. 0 \in G
  <2>1. SubSeq(path, 1, 0) = <<>>
    OBVIOUS
  <2>2. ROOT \in N /\ at[ROOT] = <<>>
    BY DEF Tree, Laid, Layout, Rooted
  <2>3. {n \in N : at[n] = <<>>} = {ROOT}
    BY <2>2, Places
  <2>4. 0 \in 0 .. Len(path) /\ f[0] = {ROOT}
    BY <1>1, <1>2 DEF Descends
  <2> QED
    BY <2>1, <2>3, <2>4
<1>4. ASSUME NEW i \in 0 .. Len(path) - 1, i \in G PROVE i + 1 \in G
  <2>1. i + 1 \in 1 .. Len(path) /\ i + 1 \in 0 .. Len(path)
    BY <1>1
  <2>2. f[i + 1] = Below(z, f[i], path[i + 1]) /\ path[i + 1] \in Proper
    BY <1>1, <1>2, <2>1 DEF Descends
  <2>3. PICK p, name : p = SubSeq(path, 1, i) /\ name = path[i + 1]
    OBVIOUS
  <2>4. p \in Seq(Proper) /\ SubSeq(path, 1, i + 1) = Append(p, name)
    BY <1>1, <2>1, <2>3
  <2>5. f[i] = {n \in N : at[n] = p}
    BY <1>4, <2>3
  <2>6. f[i + 1] = {n \in N : at[n] = Append(p, name)}
    <3>1. name \in Proper
      BY <2>2, <2>3
    <3>2. Below(z, {n \in N : at[n] = p}, name) = {n \in N : at[n] = Append(p, name)}
      BY <2>4, <3>1, BelowPlace
    <3> QED
      BY <2>2, <2>3, <2>5, <3>2
  <2> QED
    BY <2>1, <2>4, <2>6
<1>5. \A i \in 0 .. Len(path) : i \in G
  <2> HIDE DEF G
  <2> QED
    BY <1>1, <1>3, <1>4, LoopEnds, Zenon
<1>6. SubSeq(path, 1, Len(path)) = path
  OBVIOUS
<1> QED
  BY <1>1, <1>2, <1>5, <1>6

\* What a lookup has found after i names of a path.
Leads(N, at, path, i, r) ==
  /\ r.rv = "OK" => at[r.node] = SubSeq(path, 1, i)
  /\ r.rv = "NO_FILE" => /\ i > 0 /\ at[r.parent] = SubSeq(path, 1, i - 1)
                         /\ \A n \in N : at[n] # SubSeq(path, 1, i)

LEMMA StepLeads ==
  ASSUME PlainPaths, NEW z, NEW N, NEW own, NEW S, Tree(z, N, own, N, S),
         NEW at, Rooted(z.disk, N, at), NEW path \in Seq(Proper),
         NEW i \in 0 .. Len(path) - 1, NEW r, Finds(z, N, r), Leads(N, at, path, i, r)
  PROVE  Leads(N, at, path, i + 1, Step(z, r, path[i + 1]))
<1>1. PICK D, name, p : D = z.disk /\ name = path[i + 1] /\ p = SubSeq(path, 1, i)
  OBVIOUS
<1>2. /\ name \in Proper /\ p \in Seq(Proper) /\ SubSeq(path, 1, i + 1) = Append(p, name)
      /\ i + 1 > 0 /\ (i + 1) - 1 = i
  BY <1>1
<1>3. CASE r.rv # "OK"
  <2>1. PICK q : q = [r EXCEPT !.rv = "NO_DIR"]
    OBVIOUS
  <2>2. Step(z, r, name) = q
    BY <1>3, <2>1 DEF Step
  <2>3. q.rv = "NO_DIR"
    BY <2>1 DEF Finds
  <2> QED
    BY <1>1, <2>2, <2>3 DEF Leads
<1>4. ASSUME r.rv = "OK" PROVE r.node \in N /\ at[r.node] = p
  BY <1>1, <1>4 DEF Leads, Finds
<1>5. CASE r.rv = "OK" /\ Named(z, r.node, name) = {}
  <2>1. PICK q, n : q = Step(z, r, name) /\ n = r.node
    OBVIOUS
  <2>2. q.rv = "NO_FILE" /\ q.parent = n
    BY <1>5, <2>1 DEF Step
  <2>3. n \in N /\ at[n] = p
    BY <1>4, <1>5, <2>1
  <2>4. \A m \in N : at[m] = p => m = n
    BY <2>3 DEF Rooted
  <2>5. Below(z, {m \in N : at[m] = p}, name) = {}
    BY <1>5, <2>1, <2>4 DEF Below
  <2>6. {m \in N : at[m] = Append(p, name)} = {}
    <3>1. Below(z, {m \in N : at[m] = p}, name) = {m \in N : at[m] = Append(p, name)}
      <4>1. p \in Seq(Proper) /\ name \in Proper
        BY <1>2
      <4> QED
        BY <4>1, BelowPlace
    <3> QED
      BY <2>5, <3>1
  <2> QED
    BY <1>1, <1>2, <2>1, <2>2, <2>3, <2>6 DEF Leads
<1>6. CASE r.rv = "OK" /\ Named(z, r.node, name) # {}
  <2>1. PICK n, off : n = r.node /\ off = Lowest(Named(z, n, name))
    OBVIOUS
  <2>2. n \in N /\ at[n] = p /\ name \in Names
    BY <1>2, <1>4, <1>6, <2>1 DEF Names, Proper
  <2>3. off \in Named(z, n, name)
    <3>1. Named(z, n, name) \in SUBSET Nat
      BY <2>2, NamedIs
    <3> QED
      BY <1>6, <2>1, <3>1, LowestIsLeast
  <2>4. PICK m : m = UnitAt(z, n, off).idx
    OBVIOUS
  <2>5. Link(D, N, n, name, m)
    BY <1>1, <1>2, <2>2, <2>3, <2>4, NamedLinks
  <2>6. at[m] = Append(p, name)
    <3>1. \A j, nm, i2 : Link(D, N, j, nm, i2) => at[i2] = Append(at[j], nm)
      BY <1>1 DEF Rooted
    <3> QED
      BY <2>2, <2>5, <3>1
  <2>7. PICK q : q = Step(z, r, name)
    OBVIOUS
  <2>8. q.rv = "OK" /\ q.node = m
    BY <1>6, <2>1, <2>4, <2>7 DEF Step
  <2> QED
    BY <1>1, <1>2, <2>6, <2>7, <2>8 DEF Leads
<1> QED
  BY <1>1, <1>3, <1>5, <1>6

\* A lookup finds the inode on the path, or the directory it would lie in.
LEMMA LookupLeads ==
  ASSUME PlainPaths, NEW z, NEW N, NEW own, NEW S, Tree(z, N, own, N, S),
         NEW at, Rooted(z.disk, N, at), NEW path \in Paths
  PROVE  Leads(N, at, path, Len(path), fs_lookup(z, path))
<1>1. path \in Seq(Proper) /\ Len(path) \in Nat /\ \A i \in 1 .. Len(path) : path[i] \in Names
  <2>1. path \in Seq(Proper)
    BY DEF PlainPaths
  <2>2. Proper \subseteq Names
    BY Zenon DEF Proper, Names
  <2>3. Len(path) \in Nat /\ \A i \in 1 .. Len(path) : path[i] \in Proper
    BY <2>1
  <2> QED
    BY <2>1, <2>2, <2>3
<1>2. PICK f : Looking(f, z, path) /\ fs_lookup(z, path) = f[Len(path)]
  BY <1>1, LookupIs
<1> DEFINE G == {i \in 0 .. Len(path) : Finds(z, N, f[i]) /\ Leads(N, at, path, i, f[i])}
<1>3. 0 \in G
  <2>1. PICK r : r = [rv |-> "OK", parent |-> ROOT, node |-> ROOT]
    OBVIOUS
  <2>2. ROOT \in N /\ z.disk[ROOT].mode = "DIR" /\ at[ROOT] = SubSeq(path, 1, 0)
    BY DEF Tree, Laid, Layout, Rooted
  <2>3. Finds(z, N, r)
    BY <2>1, <2>2 DEF Finds
  <2>4. Leads(N, at, path, 0, r)
    BY <2>1, <2>2 DEF Leads
  <2> QED
    BY <1>1, <1>2, <2>1, <2>3, <2>4 DEF Looking
<1>4. ASSUME NEW i \in 0 .. Len(path) - 1, i \in G PROVE i + 1 \in G
  <2>1. i + 1 \in 1 .. Len(path) /\ i + 1 \in 0 .. Len(path)
    BY <1>1
  <2>2. f[i + 1] = Step(z, f[i], path[i + 1]) /\ path[i + 1] \in Names
    BY <1>1, <1>2, <2>1 DEF Looking
  <2>3. PICK r : r = f[i]
    OBVIOUS
  <2>4. Finds(z, N, r) /\ Leads(N, at, path, i, r)
    BY <1>4, <2>3
  <2>5. Finds(z, N, Step(z, r, path[i + 1]))
    BY <2>2, <2>4, StepFinds
  <2>6. Leads(N, at, path, i + 1, Step(z, r, path[i + 1]))
    BY <1>1, <2>4, StepLeads
  <2> QED
    BY <2>1, <2>2, <2>3, <2>5, <2>6
<1>5. \A i \in 0 .. Len(path) : i \in G
  <2> HIDE DEF G
  <2> QED
    BY <1>1, <1>3, <1>4, LoopEnds, Zenon
<1> QED
  BY <1>1, <1>2, <1>5

\* A path is a name in the directory before it.
LEMMA PathParts ==
  ASSUME PlainPaths, NEW path \in Paths
  PROVE  /\ Len(path) \in Nat \ {0} /\ SubSeq(path, 1, Len(path)) = path
         /\ NameOf(path) \in Proper /\ SubSeq(path, 1, Len(path) - 1) \in Seq(Proper)
         /\ path = Append(SubSeq(path, 1, Len(path) - 1), NameOf(path))
         /\ SubSeq(path, 1, Len(path) - 1) = <<>> => Len(path) = 1
<1>1. path \in Seq(Proper) /\ path # <<>>
  BY DEF PlainPaths
<1>2. Len(path) \in Nat \ {0}
  BY <1>1
<1>3. PICK n : n = Len(path) - 1
  OBVIOUS
<1>4. n \in Nat /\ n + 1 = Len(path) /\ n + 1 \in 1 .. Len(path)
  BY <1>2, <1>3
<1>5. /\ SubSeq(path, 1, n) \in Seq(Proper) /\ Len(SubSeq(path, 1, n)) = n
      /\ SubSeq(path, 1, n + 1) = path
  BY <1>1, <1>4
<1>6. SubSeq(path, 1, n + 1) = Append(SubSeq(path, 1, n), path[n + 1])
  BY <1>1, <1>4
<1>7. path[n + 1] \in Proper
  BY <1>1, <1>4
<1>8. SubSeq(path, 1, n) = <<>> => Len(path) = 1
  <2>1. Len(<<>>) = 0
    OBVIOUS
  <2> QED
    BY <1>4, <1>5, <2>1
<1> QED
  BY <1>2, <1>3, <1>4, <1>5, <1>6, <1>7, <1>8 DEF NameOf

-----------------------------------------------------------------------------
(* A new disk                                                              *)

\* The disk before the root has its entries.
Unlinked0 ==
  [marked |-> 0 .. ROOT, kept |-> 0,
   disk |-> [b \in Blocks |-> IF b = ROOT THEN Node("DIR", 2)
                              ELSE Units([u \in 0 .. UNITS - 1 |-> Junk])]]

LEMMA NewDisk ==
  \E own : /\ Laid(Unlinked0, {ROOT}, own) /\ IsDisk(Unlinked0) /\ Unlinked0.kept = 0
           /\ Unlinked0.disk[ROOT].size = 2 /\ Unlinked0.disk[ROOT].mode = "DIR"
<1>1. PICK D, M : /\ D = Unlinked0.disk /\ M = Unlinked0.marked
  OBVIOUS
<1>2. /\ M = 0 .. ROOT
      /\ D = [b \in Blocks |-> IF b = ROOT THEN Node("DIR", 2)
                               ELSE Units([u \in 0 .. UNITS - 1 |-> Junk])]
      /\ IsDisk(Unlinked0) /\ Unlinked0.kept = 0
  BY <1>1 DEF Unlinked0, IsDisk
<1>3. ROOT \in Nat \ {0} /\ ROOT \in Blocks /\ 0 \in Blocks /\ 0 .. ROOT \subseteq Blocks
  BY Sizings DEF Blocks
<1>4. PICK j : j = Units([u \in Us |-> Junk])
  OBVIOUS
<1>5. /\ D[ROOT] = Node("DIR", 2) /\ \A b \in Blocks \ {ROOT} : D[b] = j
      /\ D = [b \in Blocks |-> D[b]]
  BY <1>2, <1>3, <1>4 DEF Us
<1>6. UnitsOf(j) = [u \in Us |-> Junk] /\ HasUnits(j)
  BY <1>4 DEF UnitsOf, Units, HasUnits
<1>7. /\ IsNode(D[ROOT]) /\ D[ROOT].size = 2 /\ D[ROOT].mode = "DIR"
      /\ \A i \in Slots : D[ROOT].index[i] = 0
      /\ "unit" \notin DOMAIN D[ROOT]
  BY <1>3, <1>5 DEF IsNode, Node
<1>8. HasUnits(D[ROOT])
  BY <1>7 DEF HasUnits, UnitsOf, Us
<1>9. Formatted(M, D)
  BY <1>2, <1>3, <1>5, <1>6, <1>8 DEF Formatted
<1> DEFINE own == [b \in Blocks |-> IF b = ROOT THEN Self(ROOT) ELSE Free]
<1>10. own = [b \in Blocks |-> own[b]] /\ \A b \in Blocks : own[b] # Free => b = ROOT
  OBVIOUS
<1>11. own[ROOT] = Self(ROOT)
  BY <1>3
<1> HIDE DEF own
<1>12. Owned(M, own)
  BY <1>2, <1>3, <1>10 DEF Owned
<1>13. Owns(D, own, ROOT)
  <2>1. \A i \in Slots : Ix(D, ROOT, i) = 0
    BY <1>7 DEF Ix
  <2> QED
    BY <1>7, <1>11, <2>1, SlotSets DEF Owns
<1>14. Layout(M, D, {ROOT}, own)
  BY <1>3, <1>7, <1>9, <1>12, <1>13 DEF Layout
<1> QED
  BY <1>1, <1>2, <1>7, <1>14 DEF Laid

\* What fs_mkfs leaves is in order.
LEMMA MkfsWhole ==
  ASSUME ~Full(fs_mkfs)
  PROVE  /\ Whole(fs_mkfs, {ROOT}) /\ fs_mkfs.kept = 0
         /\ \A m, name, i : ~Link(fs_mkfs.disk, {ROOT}, m, name, i)
<1>1. PICK z, N : z = Unlinked0 /\ N = {ROOT}
  OBVIOUS
<1>2. PICK own : /\ Laid(z, N, own) /\ IsDisk(z) /\ z.kept = 0
                 /\ z.disk[ROOT].size = 2 /\ z.disk[ROOT].mode = "DIR"
  BY <1>1, NewDisk
<1>3. PICK u, v : u = Dirent(".", ROOT) /\ v = Dirent("..", ROOT)
  OBVIOUS
<1>4. PICK x, w : x = fs_write(z, ROOT, 0, <<u>>) /\ w = fs_write(x, ROOT, 1, <<v>>)
  OBVIOUS
<1>5. fs_mkfs = w
  BY <1>1, <1>3, <1>4 DEF fs_mkfs, Dotted, Unlinked0
<1>6. /\ Len(<<u>>) = 1 /\ Len(<<v>>) = 1 /\ <<u>>[1] = u /\ <<v>>[1] = v
      /\ IsEntry(u, N) /\ IsEntry(v, N)
  BY <1>1, <1>3 DEF IsEntry, Dirent
<1>7. 0 \in Offs /\ 1 \in Offs /\ 2 \in Offs /\ 2 <= MaxEntries
  <2>1. MaxEntries \in Offs /\ MaxEntries \in Nat /\ MaxEntries >= 2
    BY Bounds, OffsetsDown
  <2> QED
    BY <2>1, OffsetsDown
<1>8. PICK s, t : s = <<u>> /\ t = <<v>>
  OBVIOUS
<1>9. Later(z, x)
  <2>1. ~(0 > z.disk[ROOT].size) /\ Len(s) \in Nat
    BY <1>2, <1>6, <1>8
  <2>2. x = fs_write(z, ROOT, 0, s)
    BY <1>4, <1>8
  <2> QED
    BY <1>2, <2>1, <2>2, WriteLater
<1>10. ~Full(x)
  <2> SUFFICES ASSUME Full(x) PROVE FALSE
    OBVIOUS
  <2>1. CASE ~(1 > x.disk[ROOT].size)
    <3>1. Len(t) \in Nat /\ IsDisk(x) /\ w = fs_write(x, ROOT, 1, t)
      BY <1>4, <1>6, <1>8, <1>9 DEF Later
    <3>2. Later(x, w)
      BY <2>1, <3>1, WriteLater
    <3> QED
      BY <1>5, <3>2, LaterFull
  <2>2. CASE 1 > x.disk[ROOT].size
    <3>1. w = [x EXCEPT !.kept = @ + 1]
      BY <1>4, <2>2, Zenon DEF fs_write
    <3>2. w.marked = x.marked
      BY <1>9, <3>1 DEF Later, IsDisk
    <3> QED
      BY <1>5, <3>2 DEF Full
  <2> QED
    BY <2>1, <2>2
<1>11. ROOT \in N /\ \A m \in N : m = ROOT
  BY <1>1
<1>12. Wrote(z, own, x, N, ROOT, 0, s)
  <2>1. /\ ~(0 > z.disk[ROOT].size) /\ Len(s) \in Nat /\ 0 + Len(s) \in Offs
        /\ z.disk[ROOT].mode # "DEV" /\ x = fs_write(z, ROOT, 0, s)
    BY <1>2, <1>4, <1>6, <1>7, <1>8
  <2> QED
    BY <1>2, <1>10, <1>11, <2>1, WriteDone
<1>13. PICK D, E, F : D = z.disk /\ E = x.disk /\ F = w.disk
  OBVIOUS
<1>14. PICK own1 : Laid(x, N, own1) /\ Written(D, E, N, ROOT, 0, s)
  BY <1>12, <1>13 DEF Wrote
<1>15. /\ E[ROOT].size = 2 /\ E[ROOT].mode = "DIR"
       /\ \A i \in 0 .. 1 : At(E, ROOT, i \div UNITS) # 0
       /\ UnitIn(E, ROOT, 0) = u
  <2>1. 0 + Len(s) = 1 /\ 0 - 0 + 1 = 1 /\ 0 \in 0 .. 0 + Len(s) - 1 /\ s[1] = u
    BY <1>6, <1>8
  <2>2. E[ROOT].size = 2 /\ E[ROOT].mode = "DIR"
    <3>1. D[ROOT].size = 2 /\ D[ROOT].mode = "DIR" /\ ROOT \in N
      BY <1>2, <1>11, <1>13
    <3>2. /\ E[ROOT].mode = D[ROOT].mode
          /\ E[ROOT].size = IF ROOT = ROOT /\ 0 + Len(s) > D[ROOT].size THEN 0 + Len(s)
                            ELSE D[ROOT].size
      BY <1>14, <3>1 DEF Written
    <3>3. \A a, b, c : a = 1 /\ b = 2 /\ c = (IF ROOT = ROOT /\ a > b THEN a ELSE b) => c = 2
      OBVIOUS
    <3> HIDE DEF Written
    <3>4. E[ROOT].size = 2
      BY <2>1, <3>1, <3>2, <3>3, Zenon
    <3> QED
      BY <3>1, <3>2, <3>4
  <2>3. \A i \in 0 .. 1 : At(E, ROOT, i \div UNITS) # 0
    BY <1>14, <2>1 DEF Written
  <2>4. UnitIn(E, ROOT, 0) = s[0 - 0 + 1]
    BY <1>14, <2>1 DEF Written
  <2> QED
    BY <2>1, <2>2, <2>3, <2>4
<1>16. Wrote(x, own1, w, N, ROOT, 1, t) /\ Later(x, w)
  <2>1. /\ ~(1 > x.disk[ROOT].size) /\ Len(t) \in Nat /\ 1 + Len(t) \in Offs
        /\ x.disk[ROOT].mode # "DEV" /\ w = fs_write(x, ROOT, 1, t)
    BY <1>4, <1>6, <1>7, <1>8, <1>13, <1>15
  <2>2. IsDisk(x) /\ ~Full(w)
    BY <1>5, <1>9 DEF Later
  <2> QED
    BY <1>11, <1>14, <2>1, <2>2, WriteDone
<1>17. PICK own2 : Laid(w, N, own2) /\ Written(E, F, N, ROOT, 1, t)
  BY <1>13, <1>16 DEF Wrote
<1>18. /\ F[ROOT].size = 2 /\ F[ROOT].mode = "DIR"
       /\ \A i \in 0 .. 2 : At(F, ROOT, i \div UNITS) # 0
       /\ UnitIn(F, ROOT, 0) = u /\ UnitIn(F, ROOT, 1) = v
  <2>1. /\ 1 + Len(t) = 2 /\ 1 - 1 + 1 = 1 /\ 1 \in 1 .. 1 + Len(t) - 1 /\ t[1] = v
        /\ 0 \notin 1 .. 1 + Len(t) - 1
    BY <1>6, <1>8
  <2>2. F[ROOT].size = 2 /\ F[ROOT].mode = "DIR"
    BY <1>11, <1>15, <1>17, <2>1 DEF Written
  <2>3. 0 \div UNITS \in Ks
    BY <1>7, OffsetParts
  <2>4. At(F, ROOT, 0 \div UNITS) # 0
    <3>1. At(E, ROOT, 0 \div UNITS) # 0
      BY <1>15
    <3> QED
      BY <1>11, <1>17, <2>3, <3>1 DEF Written
  <2>5. \A i \in 1 .. 2 : At(F, ROOT, i \div UNITS) # 0
    BY <1>17, <2>1 DEF Written
  <2>6. \A i \in 0 .. 2 : At(F, ROOT, i \div UNITS) # 0
    <3>1. \A i \in 0 .. 2 : i = 0 \/ i \in 1 .. 2
      OBVIOUS
    <3> QED
      BY <2>4, <2>5, <3>1
  <2>7. UnitIn(F, ROOT, 0) = UnitIn(E, ROOT, 0)
    <3>1. At(E, ROOT, 0 \div UNITS) # 0
      BY <1>15
    <3> QED
      BY <1>7, <1>11, <1>17, <2>1, <3>1 DEF Written
  <2>8. UnitIn(F, ROOT, 1) = t[1 - 1 + 1]
    BY <1>17, <2>1 DEF Written
  <2> QED
    BY <1>15, <2>1, <2>2, <2>6, <2>7, <2>8
<1>19. Shape(F, N)
  <2>1. Mapped(F, ROOT, 0, 2)
    <3>1. 0 + 2 = 2
      OBVIOUS
    <3> QED
      BY <1>18, <3>1 DEF Mapped
  <2> QED
    BY <1>7, <1>11, <1>18, <2>1 DEF Shape, Bound
<1>20. /\ Entries(F, N, N)
       /\ \A m, i : InDir(F, N, m, i) => UnitIn(F, m, i) \in {u, v}
  <2> SUFFICES ASSUME NEW m, NEW i, InDir(F, N, m, i)
               PROVE  IsEntry(UnitIn(F, m, i), N) /\ UnitIn(F, m, i) \in {u, v}
    BY DEF Entries
  <2>1. m = ROOT /\ i \in 0 .. 1
    BY <1>11, <1>18 DEF InDir
  <2>2. i = 0 \/ i = 1
    BY <2>1
  <2> QED
    BY <1>6, <1>18, <2>1, <2>2
<1>21. Single(F, N, Singles(F, N))
  BY <1>11, <1>18 DEF Single, Singles
<1>22. Tree(w, N, own2, N, Singles(w.disk, N))
  BY <1>13, <1>16, <1>17, <1>19, <1>20, <1>21 DEF Tree, Later
<1>23. w.kept = 0
  BY <1>2, <1>9, <1>16 DEF Later
<1>24. \A m, name, i : ~Link(F, N, m, name, i)
  <2>1. u.name \notin Proper /\ v.name \notin Proper
    BY <1>3 DEF Dirent, Proper
  <2> QED
    BY <1>20, <2>1 DEF Link
<1> QED
  BY <1>1, <1>5, <1>13, <1>22, <1>23, <1>24 DEF Whole

-----------------------------------------------------------------------------
(* The calls                                                               *)

\* A file shows what was written over what it held.
Plainly(vals) == [i \in 1 .. Len(vals) |-> vals[i].val]
Overwrites(D, E, n, off, vals) ==
  View(E, n) = [mode |-> "REG", data |-> Store!Overlaid(View(D, n).data, off, Plainly(vals))]

LEMMA FileView ==
  ASSUME NEW M, NEW D, NEW N, NEW own, Layout(M, D, N, own), Shape(D, N),
         NEW n \in N, D[n].mode = "REG", NEW off \in Nat, off <= D[n].size,
         NEW vals, Len(vals) \in Nat \ {0}, NEW E, Written(D, E, N, n, off, vals)
  PROVE  Overwrites(D, E, n, off, vals)
<1>1. PICK size, len, t : /\ size = D[n].size /\ len = Len(vals)
                          /\ t = IF off + len > size THEN off + len ELSE size
  OBVIOUS
<1>2. size \in Nat /\ len \in Nat \ {0} /\ off <= size /\ t \in Nat
  <2>1. size \in Nat
    BY <1>1, Inodes DEF IsNode
  <2> QED
    BY <1>1, <2>1
<1>3. E[n].mode = "REG" /\ E[n].size = t
  BY <1>1 DEF Written
<1>4. PICK d, g : d = View(D, n).data /\ g = Plainly(vals)
  OBVIOUS
<1>5. d = [i \in 1 .. size |-> UnitIn(D, n, i - 1).val]
  BY <1>1, <1>4 DEF View
<1>6. Len(d) = size /\ Len(g) = len /\ \A i \in 1 .. len : g[i] = vals[i].val
  BY <1>1, <1>2, <1>4, <1>5 DEF Plainly
<1>7. ASSUME NEW i \in 1 .. t
      PROVE  UnitIn(E, n, i - 1).val = IF i \in off + 1 .. off + len THEN g[i - off] ELSE d[i]
  <2>1. CASE i \in off + 1 .. off + len
    <3>1. /\ i - 1 \in off .. off + Len(vals) - 1 /\ (i - 1) - off + 1 = i - off
          /\ i - off \in 1 .. len
      BY <1>1, <1>2, <2>1
    <3>2. UnitIn(E, n, i - 1) = vals[(i - 1) - off + 1]
      BY <3>1 DEF Written
    <3> QED
      BY <1>6, <2>1, <3>1, <3>2
  <2>2. CASE i \notin off + 1 .. off + len
    <3>1. /\ i \in 1 .. size /\ i - 1 \notin off .. off + Len(vals) - 1
          /\ i - 1 \in Nat /\ i - 1 <= size /\ i - 1 \in 0 .. 0 + size /\ size > 0
      BY <1>1, <1>2, <2>2
    <3>2. Mapped(D, n, 0, size) /\ size <= Bound(D[n].mode)
      BY <1>1, <3>1 DEF Shape
    <3>3. Bound(D[n].mode) \in Offs /\ Bound(D[n].mode) \in Nat
      BY Bounds
    <3>4. i - 1 <= Bound(D[n].mode)
      BY <1>2, <3>1, <3>2, <3>3
    <3>5. i - 1 \in Offs
      BY <3>1, <3>3, <3>4, OffsetsDown
    <3>6. At(D, n, (i - 1) \div UNITS) # 0
      BY <3>1, <3>2 DEF Mapped
    <3>7. UnitIn(E, n, i - 1) = UnitIn(D, n, i - 1)
      BY <3>1, <3>5, <3>6 DEF Written
    <3> QED
      BY <1>5, <2>2, <3>1, <3>7
  <2> QED
    BY <2>1, <2>2
<1>8. [i \in 1 .. t |-> UnitIn(E, n, i - 1).val]
        = [i \in 1 .. t |-> IF i \in off + 1 .. off + len THEN g[i - off] ELSE d[i]]
  BY <1>7
<1>9. Store!Overlaid(d, off, g)
        = [i \in 1 .. t |-> IF i \in off + 1 .. off + len THEN g[i - off] ELSE d[i]]
  <2>1. (IF size > off + len THEN size ELSE off + len) = t
    <3>1. t = IF off + len > size THEN off + len ELSE size
      BY <1>1
    <3> QED
      BY <1>2, <3>1
  <2>2. Len(d) = size /\ Len(g) = len
    BY <1>6
  <2> QED
    BY <2>1, <2>2, Zenon DEF Store!Overlaid
<1>10. View(E, n) = [mode |-> "REG", data |-> [i \in 1 .. t |-> UnitIn(E, n, i - 1).val]]
  BY <1>3, Zenon DEF View
<1> QED
  BY <1>4, <1>8, <1>9, <1>10, Zenon DEF Overwrites

\* Data is written to a file.
FileWrite(z, n, off, vals, w) ==
  /\ z.disk[n].mode = "REG" /\ off \in Nat /\ off <= z.disk[n].size
  /\ Len(vals) \in Nat \ {0} /\ off + Len(vals) <= MaxSize
  /\ \A i \in 1 .. Len(vals) : IsValue(vals[i])
  /\ w = fs_write(z, n, off, vals) /\ ~Full(w)

LEMMA FileWritten ==
  ASSUME NEW z, NEW N, Whole(z, N), NEW n \in N, NEW off, NEW vals, NEW w,
         FileWrite(z, n, off, vals, w)
  PROVE  /\ Whole(w, N) /\ Keeps(z, w, N) /\ w.kept = z.kept
         /\ w.disk[n].size >= off + Len(vals)
         /\ SameLinks(z.disk, w.disk, N) /\ SameViews(z.disk, w.disk, N \ {n})
         /\ Overwrites(z.disk, w.disk, n, off, vals)
<1>0. /\ z.disk[n].mode = "REG" /\ off \in Nat /\ off <= z.disk[n].size
      /\ Len(vals) \in Nat \ {0} /\ off + Len(vals) <= MaxSize
      /\ \A i \in 1 .. Len(vals) : IsValue(vals[i])
      /\ w = fs_write(z, n, off, vals) /\ ~Full(w)
  BY DEF FileWrite
<1> USE <1>0
<1>1. PICK own : Tree(z, N, own, N, Singles(z.disk, N))
  BY DEF Whole
<1>2. PICK D, E : D = z.disk /\ E = w.disk
  OBVIOUS
<1>3. /\ Layout(z.marked, D, N, own) /\ Shape(D, N) /\ Entries(D, N, N)
      /\ Single(D, N, Singles(D, N)) /\ IsDisk(z) /\ Laid(z, N, own)
  BY <1>1, <1>2 DEF Tree, Laid
<1>4. \A m \in N : D[m].size \in Nat
  BY <1>3, Inodes DEF IsNode
<1>5. ~(off > D[n].size) /\ off <= D[n].size /\ D[n].mode # "DEV" /\ D[n].mode = "REG"
  BY <1>2, <1>4
<1>6. off + Len(vals) \in Offs /\ off + Len(vals) <= Bound(D[n].mode)
  <2>1. MaxSize \in Offs
    BY Bounds
  <2>2. off + Len(vals) \in Nat
    OBVIOUS
  <2> QED
    BY <1>5, <2>1, <2>2, OffsetsDown DEF Bound
<1>7. ~Full(w) /\ Later(z, w) /\ Wrote(z, own, w, N, n, off, vals)
  <2>1. Len(vals) \in Nat /\ z.disk[n].mode # "DEV" /\ ~(off > z.disk[n].size)
    BY <1>2, <1>5
  <2> QED
    BY <1>3, <1>6, <2>1, WriteDone
<1>8. PICK own2 : Laid(w, N, own2) /\ Written(D, E, N, n, off, vals)
  BY <1>2, <1>7 DEF Wrote
<1>9. Shape(E, N)
  BY <1>3, <1>5, <1>6, <1>8, WrittenShape
<1>10. ASSUME NEW m, NEW x, InDir(E, N, m, x)
       PROVE  InDir(D, N, m, x) /\ UnitIn(E, m, x) = UnitIn(D, m, x)
  <2>1. m # n
    BY <1>5, <1>8, <1>10 DEF InDir, Written
  <2> QED
    BY <1>3, <1>5, <1>8, <1>10, <2>1, WrittenEntries
<1>11. Entries(E, N, N)
  BY <1>3, <1>10 DEF Entries
<1>12. Single(E, N, Singles(D, N))
  BY <1>3, <1>10 DEF Single
<1>13. Singles(E, N) = Singles(D, N)
  BY <1>8 DEF Written, Singles
<1>14. Tree(w, N, own2, N, Singles(E, N))
  BY <1>2, <1>7, <1>8, <1>9, <1>11, <1>12, <1>13 DEF Tree, Later
<1>15. Whole(w, N)
  BY <1>2, <1>7, <1>14 DEF Whole
<1>16. \A m \in N : E[m].mode = D[m].mode /\ E[m].size >= D[m].size
  <2>1. \A m \in N : /\ E[m].mode = D[m].mode
                     /\ E[m].size = IF m = n /\ off + Len(vals) > D[n].size THEN off + Len(vals)
                                    ELSE D[m].size
    BY <1>8 DEF Written
  <2> QED
    BY <1>4, <2>1
<1>17. E[n].size >= off + Len(vals)
  <2>1. E[n].size = IF n = n /\ off + Len(vals) > D[n].size THEN off + Len(vals) ELSE D[n].size
    BY <1>8 DEF Written
  <2> QED
    BY <1>4, <2>1
<1>18. \A m, x : InDir(D, N, m, x) => InDir(E, N, m, x)
  <2> SUFFICES ASSUME NEW m, NEW x, InDir(D, N, m, x) PROVE InDir(E, N, m, x)
    OBVIOUS
  <2>1. m \in N /\ D[m].mode = "DIR" /\ x \in 0 .. D[m].size - 1 /\ m # n
    BY <1>5 DEF InDir
  <2>2. E[m].mode = D[m].mode /\ E[m].size = D[m].size
    BY <1>8, <2>1 DEF Written
  <2> QED
    BY <2>1, <2>2 DEF InDir
<1>19. SameLinks(D, E, N)
  BY <1>10, <1>18 DEF SameLinks, Link
<1>20. SameViews(D, E, N \ {n})
  <2> SUFFICES ASSUME NEW m \in N, m # n PROVE View(E, m) = View(D, m)
    BY DEF SameViews
  <2>1. Layout(z.marked, D, N, own) /\ Shape(D, N) /\ (m # n \/ D[n].mode # "REG")
    BY <1>3
  <2> QED
    BY <1>8, <2>1, WrittenViews
<1>21. Overwrites(D, E, n, off, vals)
  BY <1>3, <1>5, <1>8, FileView
<1> QED
  BY <1>2, <1>7, <1>15, <1>16, <1>17, <1>19, <1>20, <1>21 DEF Keeps, Later

-----------------------------------------------------------------------------
(* What the programs see of disk z                                           *)

ShownOn(z, p) ==
  LET at(n) == [mode |-> z.disk[n].mode,
                data |-> IF z.disk[n].mode # "REG" THEN <<>>
                         ELSE [i \in 1 .. z.disk[n].size |-> UnitAt(z, n, i - 1).val]]
      shown[S \in SUBSET Blocks] ==
        IF S = {} THEN [mode |-> "none", data |-> <<>>] ELSE at(CHOOSE n \in S : TRUE)
  IN shown[Reached(z, p)]
Seen(z) == [p \in Paths |-> ShownOn(z, p)]

\* Every inode shows on its path, and nothing shows on the others.
Shows(s, D, N, at) ==
  /\ s = [p \in Paths |-> s[p]]
  /\ \A n \in N : at[n] \in Paths => s[at[n]] = View(D, n)
  /\ \A p \in Paths : (\A n \in N : at[n] # p) => s[p] = Store!Absent

LEMMA SeenShows ==
  ASSUME PlainPaths, NEW z, NEW N, NEW own, NEW S, Tree(z, N, own, N, S),
         NEW at, Rooted(z.disk, N, at)
  PROVE  Shows(Seen(z), z.disk, N, at)
<1>1. PICK s : s = Seen(z)
  OBVIOUS
<1>2. s = [p \in Paths |-> s[p]] /\ \A p \in Paths : s[p] = ShownOn(z, p)
  BY <1>1 DEF Seen
<1>3. N \subseteq Blocks
  BY TreeNodes
<1> DEFINE V(n) == [mode |-> z.disk[n].mode,
                    data |-> IF z.disk[n].mode # "REG" THEN <<>>
                             ELSE [i \in 1 .. z.disk[n].size |-> UnitAt(z, n, i - 1).val]]
           shown == [T \in SUBSET Blocks |->
                      IF T = {} THEN [mode |-> "none", data |-> <<>>] ELSE V(CHOOSE n \in T : TRUE)]
<1>4. \A p : ShownOn(z, p) = shown[Reached(z, p)]
  BY Zenon DEF ShownOn
<1>5. \A n : V(n) = View(z.disk, n)
  <2>1. \A n, off : UnitAt(z, n, off) = UnitIn(z.disk, n, off)
    BY DEF UnitAt, UnitIn, BlockAt, At, Ix, To
  <2> QED
    BY <2>1, Zenon DEF View
<1> HIDE DEF V
<1>6. shown[{}] = Store!Absent
  BY DEF Store!Absent
<1>7. ASSUME NEW n \in N PROVE shown[{n}] = V(n)
  <2>1. (CHOOSE m \in {n} : TRUE) = n
    OBVIOUS
  <2>2. {n} \in SUBSET Blocks /\ {n} # {}
    BY <1>3
  <2> QED
    BY <2>1, <2>2
<1> HIDE DEF shown
<1>8. ASSUME NEW p \in Paths PROVE Reached(z, p) = {n \in N : at[n] = p}
  <2>1. p \in Seq(Proper)
    BY DEF PlainPaths
  <2> QED
    BY <2>1, ReachedPlace
<1>9. ASSUME NEW n \in N, at[n] \in Paths PROVE s[at[n]] = View(z.disk, n)
  <2>1. {m \in N : at[m] = at[n]} = {n}
    BY DEF Rooted
  <2> QED
    BY <1>2, <1>4, <1>5, <1>7, <1>8, <1>9, <2>1
<1>10. ASSUME NEW p \in Paths, \A n \in N : at[n] # p PROVE s[p] = Store!Absent
  <2>1. {m \in N : at[m] = p} = {}
    BY <1>10
  <2> QED
    BY <1>2, <1>4, <1>6, <1>8, <2>1
<1> QED
  BY <1>1, <1>2, <1>9, <1>10 DEF Shows

\* A call of the store, or none.
Calls(s, t) == s = t \/ Store!Call(s, t)

LEMMA MadeCall ==
  ASSUME PlainPaths, NEW D, NEW E, NEW N, NEW b, b \notin N, ROOT \in N,
         NEW at, Rooted(D, N, at), NEW at2, Rooted(E, N \cup {b}, at2),
         \A n \in N : at2[n] = at[n],
         NEW path \in Paths, at2[b] = path, SameViews(D, E, N),
         NEW m \in N, at[m] = SubSeq(path, 1, Len(path) - 1), D[m].mode = "DIR",
         View(E, b).mode # "none", View(E, b).data = <<>>,
         NEW s, Shows(s, D, N, at), NEW t, Shows(t, E, N \cup {b}, at2)
  PROVE  Calls(s, t)
<1>1. \A n \in N : at[n] # path
  BY DEF Rooted
<1>2. s[path] = Store!Absent /\ t[path] = View(E, b)
  BY <1>1 DEF Shows
<1>3. Store!HasParent(s, path)
  <2>1. CASE m = ROOT
    <3>1. SubSeq(path, 1, Len(path) - 1) = <<>>
      BY <2>1 DEF Rooted
    <3> QED
      BY <3>1, PathParts DEF Store!HasParent
  <2>2. CASE m # ROOT
    <3>1. at[m] \in Paths
      BY <2>2, Places
    <3>2. s[at[m]] = View(D, m)
      BY <3>1 DEF Shows
    <3>3. View(D, m).mode = "DIR"
      BY DEF View
    <3> QED
      BY <3>2, <3>3 DEF Store!HasParent
  <2> QED
    BY <2>1, <2>2
<1>4. ASSUME NEW q \in Paths, q # path PROVE t[q] = s[q]
  <2>1. CASE \E n \in N : at[n] = q
    <3>1. PICK n \in N : at[n] = q
      BY <2>1
    <3>2. s[q] = View(D, n) /\ t[q] = View(E, n)
      BY <3>1 DEF Shows
    <3> QED
      BY <3>2 DEF SameViews
  <2>2. CASE \A n \in N : at[n] # q
    <3>1. s[q] = Store!Absent
      BY <2>2 DEF Shows
    <3>2. \A n \in N \cup {b} : at2[n] # q
      BY <1>4, <2>2
    <3>3. t[q] = Store!Absent
      BY <3>2 DEF Shows
    <3> QED
      BY <3>1, <3>3
  <2> QED
    BY <2>1, <2>2
<1>5. Store!Make(s, path, t[path])
  BY <1>2, <1>3 DEF Store!Make
<1> QED
  BY <1>4, <1>5 DEF Calls, Store!Call

LEMMA RemovedCall ==
  ASSUME PlainPaths, NEW D, NEW E, NEW N, NEW n \in N, NEW at, Rooted(D, N, at),
         NEW at2, \A m \in N \ {n} : at2[m] = at[m],
         at[n] \in Paths, SameViews(D, E, N \ {n}), D[n].mode \in {"REG", "DEV"},
         NEW s, Shows(s, D, N, at), NEW t, Shows(t, E, N \ {n}, at2)
  PROVE  Calls(s, t)
<1>1. PICK path : path = at[n]
  OBVIOUS
<1>2. \A m \in N \ {n} : at2[m] # path
  BY <1>1 DEF Rooted
<1>3. s[path] = View(D, n) /\ t[path] = Store!Absent
  BY <1>1, <1>2 DEF Shows
<1>4. ASSUME NEW q \in Paths, q # path PROVE t[q] = s[q]
  <2>1. CASE \E m \in N : at[m] = q
    <3>1. PICK m \in N : at[m] = q
      BY <2>1
    <3>2. m \in N \ {n} /\ at2[m] = q
      BY <1>1, <1>4, <3>1
    <3>3. s[q] = View(D, m) /\ t[q] = View(E, m)
      BY <3>1, <3>2 DEF Shows
    <3> QED
      BY <3>2, <3>3 DEF SameViews
  <2>2. CASE \A m \in N : at[m] # q
    <3>1. s[q] = Store!Absent
      BY <2>2 DEF Shows
    <3>2. \A m \in N \ {n} : at2[m] # q
      BY <2>2
    <3>3. t[q] = Store!Absent
      BY <3>2 DEF Shows
    <3> QED
      BY <3>1, <3>3
  <2> QED
    BY <2>1, <2>2
<1>5. Store!Remove(s, path, t[path])
  BY <1>3 DEF Store!Remove, View
<1>6. path \in Paths
  BY <1>1
<1> QED
  BY <1>4, <1>5, <1>6 DEF Calls, Store!Call

LEMMA WroteCall ==
  ASSUME PlainPaths, NEW D, NEW E, NEW N, NEW n \in N, NEW at, Rooted(D, N, at),
         at[n] \in Paths, SameViews(D, E, N \ {n}), D[n].mode = "REG",
         NEW off \in Nat, D[n].size \in Nat, off <= D[n].size, NEW len \in Sizes, len \in Nat, NEW v \in Vals,
         Overwrites(D, E, n, off, [i \in 1 .. len |-> Value(v)]),
         NEW s, Shows(s, D, N, at), NEW t, Shows(t, E, N, at)
  PROVE  Calls(s, t)
<1>1. PICK path, vals : path = at[n] /\ vals = [i \in 1 .. len |-> Value(v)]
  OBVIOUS
<1>2. path \in Paths /\ s[path] = View(D, n) /\ t[path] = View(E, n)
  BY <1>1 DEF Shows
<1>3. \A q \in Paths \ {path} : t[q] = s[q]
  <2> SUFFICES ASSUME NEW q \in Paths, q # path PROVE t[q] = s[q]
    OBVIOUS
  <2>1. CASE \E m \in N : at[m] = q
    <3>1. PICK m \in N : at[m] = q
      BY <2>1
    <3>2. m \in N \ {n}
      BY <1>1, <3>1
    <3>3. s[q] = View(D, m) /\ t[q] = View(E, m)
      BY <3>1 DEF Shows
    <3> QED
      BY <3>2, <3>3 DEF SameViews
  <2>2. CASE \A m \in N : at[m] # q
    BY <2>2 DEF Shows
  <2> QED
    BY <2>1, <2>2
<1>4. Plainly(vals) = [i \in 1 .. len |-> v]
  <2>1. Len(vals) = len /\ \A i \in 1 .. len : vals[i].val = v
    BY <1>1 DEF Value
  <2>2. [i \in 1 .. len |-> vals[i].val] = [i \in 1 .. len |-> v]
    BY <2>1
  <2> QED
    BY <2>1, <2>2, Zenon DEF Plainly
<1>5. PICK d : d = View(D, n).data
  OBVIOUS
<1>6. Len(d) = D[n].size /\ off \in 0 .. Len(d)
  <2>1. d = [i \in 1 .. D[n].size |-> UnitIn(D, n, i - 1).val]
    BY <1>5 DEF View
  <2>2. Len(d) = D[n].size
    BY <2>1
  <2> QED
    BY <2>2
<1>7. View(E, n) = [mode |-> "REG", data |-> Store!Overlaid(d, off, [i \in 1 .. len |-> v])]
  BY <1>1, <1>4, <1>5, Zenon DEF Overwrites
<1>8. View(D, n).mode = "REG"
  BY DEF View
<1>9. Store!Write(s, path, t[path])
  <2>1. /\ s[path].mode = "REG" /\ t[path].mode = "REG" /\ off \in 0 .. Len(s[path].data)
        /\ t[path].data = Store!Overlaid(s[path].data, off, [i \in 1 .. len |-> v])
    BY <1>2, <1>5, <1>6, <1>7, <1>8
  <2> QED
    BY <2>1, Zenon DEF Store!Write
<1> QED
  BY <1>2, <1>3, <1>9 DEF Calls, Store!Call

\* The inodes of N form a tree, if programs name no file by two names; and what
\* a call makes of the disk is a call of the store.
Placed(z, N) == PlainPaths => \E at : Rooted(z.disk, N, at)
Stepped(z, w) == PlainPaths => Calls(Seen(z), Seen(w))

LEMMA AddsThen ==
  ASSUME NEW D, NEW E, NEW F, NEW N, NEW m, NEW name, NEW b, Adds(D, E, N, m, name, b),
         SameViews(E, F, N \cup {b}), SameLinks(E, F, N \cup {b})
  PROVE  Adds(D, F, N, m, name, b)
<1>1. SameViews(D, F, N)
  BY DEF Adds, SameViews
<1> QED
  BY <1>1 DEF Adds, SameLinks

\* at with inode b on the path.
Extended(at, at2, N, b, path) == at2 = [n \in N \cup {b} |-> IF n = b THEN path ELSE at[n]]

\* A new inode lies on the path that was looked up in vain.
LEMMA MadeRooted ==
  ASSUME PlainPaths, NEW z, NEW N, NEW own, NEW S, Tree(z, N, own, N, S),
         NEW D, D = z.disk, NEW at, Rooted(D, N, at), NEW path \in Paths,
         NEW m \in N, at[m] = SubSeq(path, 1, Len(path) - 1), \A n \in N : at[n] # path,
         NEW name, name = NameOf(path), NEW b, b \notin N, NEW E, Adds(D, E, N, m, name, b),
         NEW at2, Extended(at, at2, N, b, path)
  PROVE  Rooted(E, N \cup {b}, at2)
<1>1. D = z.disk /\ name = NameOf(path)
  OBVIOUS
<1>2. at[m] = SubSeq(path, 1, Len(path) - 1) /\ \A n \in N : at[n] # path
  OBVIOUS
<1>3. name \in Proper /\ path = Append(at[m], name)
  BY <1>1, <1>2, PathParts
<1>4. ROOT \in N /\ at[ROOT] = <<>>
  BY DEF Tree, Laid, Layout, Rooted
<1>5. at2[b] = path /\ \A n \in N : at2[n] = at[n]
  BY DEF Extended
<1>6. at2 = [n \in N \cup {b} |-> at2[n]]
  BY DEF Extended
<1> HIDE DEF Rooted
<1>7. \A j, nm, i : Link(E, N \cup {b}, j, nm, i) <=>
        \/ Link(D, N, j, nm, i)
        \/ nm \in Proper /\ j = m /\ nm = name /\ i = b
  BY <1>1 DEF Adds
<1>8. ASSUME NEW j, NEW nm, NEW i, Link(E, N \cup {b}, j, nm, i)
      PROVE  at2[i] = Append(at2[j], nm)
  <2>1. CASE Link(D, N, j, nm, i)
    <3>1. j \in N /\ i \in N
      BY <1>1, <2>1, LinkNodes
    <3>2. at[i] = Append(at[j], nm)
      BY <1>1, <2>1 DEF Rooted
    <3> QED
      BY <1>5, <3>1, <3>2
  <2>2. CASE j = m /\ nm = name /\ i = b
    <3>1. at2[j] = at[m]
      BY <1>1, <1>5, <2>2
    <3> QED
      BY <1>3, <1>5, <2>2, <3>1
  <2>3. Link(D, N, j, nm, i) \/ (j = m /\ nm = name /\ i = b)
    BY <1>7, <1>8
  <2> QED
    BY <2>1, <2>2, <2>3
<1>9. ASSUME NEW i \in (N \cup {b}) \ {ROOT} PROVE \E j, nm : Link(E, N \cup {b}, j, nm, i)
  <2>1. CASE i = b
    BY <1>3, <1>7, <2>1
  <2>2. CASE i # b
    <3>1. \E j, nm : Link(D, N, j, nm, i)
      BY <1>1, <2>2 DEF Rooted
    <3> QED
      BY <1>7, <3>1
  <2> QED
    BY <2>1, <2>2
<1>10. \A i \in (N \cup {b}) \ {ROOT} : at2[i] \in Paths
  BY <1>5, Places
<1>11. \A i, j \in N \cup {b} : at2[i] = at2[j] => i = j
  <2>1. \A i, j \in N : at[i] = at[j] => i = j
    BY DEF Rooted
  <2> QED
    BY <1>2, <1>5, <2>1
<1>12. at2[ROOT] = <<>>
  BY <1>4, <1>5
<1>13. Rooted(E, N \cup {b}, at2)
  BY <1>6, <1>8, <1>9, <1>10, <1>11, <1>12 DEF Rooted
<1> QED
  BY <1>13

LEMMA MadeStep ==
  ASSUME NEW z, NEW N, Whole(z, N), Placed(z, N), NEW path \in Paths,
         NEW r, r = fs_lookup(z, path), r.rv = "NO_FILE", r.parent \in N,
         z.disk[r.parent].mode = "DIR", NEW b, b \notin N, NEW w, Whole(w, N \cup {b}),
         Adds(z.disk, w.disk, N, r.parent, NameOf(path), b),
         View(w.disk, b).mode # "none", View(w.disk, b).data = <<>>
  PROVE  Placed(w, N \cup {b}) /\ Stepped(z, w)
<1> SUFFICES ASSUME PlainPaths
             PROVE  (\E at : Rooted(w.disk, N \cup {b}, at)) /\ Calls(Seen(z), Seen(w))
  BY DEF Placed, Stepped
<1>1. PICK own, S : Tree(z, N, own, N, S)
  BY DEF Whole
<1>2. PICK own2, S2 : Tree(w, N \cup {b}, own2, N \cup {b}, S2)
  BY DEF Whole
<1>3. PICK at : Rooted(z.disk, N, at)
  BY DEF Placed
<1>4. Leads(N, at, path, Len(path), r)
  BY <1>1, <1>3, LookupLeads
<1>5. PICK at2 : Extended(at, at2, N, b, path)
  BY DEF Extended
<1>6. Rooted(w.disk, N \cup {b}, at2) /\ at[r.parent] = SubSeq(path, 1, Len(path) - 1)
  <2>1. PICK D, E, m, name : /\ D = z.disk /\ E = w.disk /\ m = r.parent
                             /\ name = NameOf(path)
    OBVIOUS
  <2>2. at[m] = SubSeq(path, 1, Len(path) - 1) /\ \A n \in N : at[n] # path
    BY <1>4, <2>1, PathParts DEF Leads
  <2>3. Adds(D, E, N, m, name, b) /\ Rooted(D, N, at) /\ m \in N
    BY <1>3, <2>1
  <2>4. Rooted(E, N \cup {b}, at2)
    BY <1>1, <1>5, <2>1, <2>2, <2>3, MadeRooted
  <2> QED
    BY <2>1, <2>2, <2>4
<1>7. PICK s, t, D, E, N2 : /\ s = Seen(z) /\ t = Seen(w) /\ D = z.disk /\ E = w.disk
                            /\ N2 = N \cup {b}
  OBVIOUS
<1>8. Shows(s, D, N, at)
  BY <1>1, <1>3, <1>7, SeenShows
<1>9. Shows(t, E, N2, at2)
  BY <1>2, <1>6, <1>7, SeenShows
<1>10. at2[b] = path /\ \A n \in N : at2[n] = at[n]
  BY <1>5 DEF Extended
<1>11. ROOT \in N /\ SameViews(D, E, N)
  BY <1>1, <1>7 DEF Tree, Laid, Layout, Adds
<1>12. Calls(s, t)
  BY <1>3, <1>6, <1>7, <1>8, <1>9, <1>10, <1>11, MadeCall
<1> QED
  BY <1>6, <1>7, <1>12

LEMMA RemovedStep ==
  ASSUME NEW z, NEW N, Whole(z, N), Placed(z, N), NEW path \in Paths,
         NEW r, r = fs_lookup(z, path), r.rv = "OK", NEW n \in N, n = r.node,
         z.disk[n].mode # "DIR", NEW w, Whole(w, N \ {n}), Loses(z.disk, w.disk, N, n)
  PROVE  Placed(w, N \ {n}) /\ Stepped(z, w)
<1> SUFFICES ASSUME PlainPaths
             PROVE  (\E at : Rooted(w.disk, N \ {n}, at)) /\ Calls(Seen(z), Seen(w))
  BY DEF Placed, Stepped
<1>1. PICK own, S : Tree(z, N, own, N, S)
  BY DEF Whole
<1>2. PICK own2, S2 : Tree(w, N \ {n}, own2, N \ {n}, S2)
  BY DEF Whole
<1>3. PICK at : Rooted(z.disk, N, at)
  BY DEF Placed
<1>4. at[n] = path
  <2>1. Leads(N, at, path, Len(path), r)
    BY <1>1, <1>3, LookupLeads
  <2> QED
    BY <2>1, PathParts DEF Leads
<1>5. PICK D, E, N2 : D = z.disk /\ E = w.disk /\ N2 = N \ {n}
  OBVIOUS
<1>6. PICK at2 : at2 = [m \in N2 |-> at[m]]
  OBVIOUS
<1>7. /\ at2 = [m \in N2 |-> at2[m]] /\ \A m \in N2 : at2[m] = at[m]
  BY <1>6
<1>8. /\ ROOT \in N2 /\ at[ROOT] = <<>> /\ \A m \in N \ {ROOT} : at[m] \in Paths
      /\ \A i, j \in N : at[i] = at[j] => i = j
      /\ \A j, name, i : Link(D, N, j, name, i) => at[i] = Append(at[j], name)
      /\ \A i \in N \ {ROOT} : \E j, name : Link(D, N, j, name, i)
  <2>1. ROOT \in N2
    BY <1>2, <1>5 DEF Tree, Laid, Layout
  <2> QED
    BY <1>3, <1>5, <2>1 DEF Rooted
<1>9. \A j, name, i : /\ Link(E, N2, j, name, i) => Link(D, N, j, name, i)
                      /\ Link(D, N, j, name, i) /\ i # n => Link(E, N2, j, name, i)
  BY <1>5 DEF Loses
<1>10. ASSUME NEW j, NEW name, NEW i, Link(E, N2, j, name, i)
       PROVE  at2[i] = Append(at2[j], name)
  <2>1. j \in N2 /\ i \in N2
    BY <1>2, <1>5, <1>10, LinkNodes
  <2>2. at[i] = Append(at[j], name)
    BY <1>8, <1>9, <1>10
  <2> QED
    BY <1>7, <2>1, <2>2
<1>11. \A i \in N2 \ {ROOT} : \E j, name : Link(E, N2, j, name, i)
  BY <1>5, <1>8, <1>9
<1>12. Rooted(E, N2, at2)
  <2>1. at2[ROOT] = <<>>
    BY <1>7, <1>8
  <2>2. \A m \in N2 \ {ROOT} : at2[m] \in Paths
    BY <1>5, <1>7, <1>8
  <2>3. ASSUME NEW i \in N2, NEW j \in N2, at2[i] = at2[j] PROVE i = j
    <3>1. at[i] = at[j] /\ i \in N /\ j \in N
      BY <1>5, <1>7, <2>3
    <3> QED
      BY <1>8, <3>1
  <2> QED
    BY <1>7, <1>10, <1>11, <2>1, <2>2, <2>3 DEF Rooted
<1>13. PICK s, t : s = Seen(z) /\ t = Seen(w)
  OBVIOUS
<1>14. Shows(s, D, N, at)
  BY <1>1, <1>3, <1>5, <1>13, SeenShows
<1>15. Shows(t, E, N2, at2)
  BY <1>2, <1>5, <1>12, <1>13, SeenShows
<1>16. D[n].mode \in {"REG", "DEV"}
  BY <1>1, <1>5, TreeNodes
<1>17. SameViews(D, E, N2)
  BY <1>5 DEF Loses
<1>18. Calls(s, t)
  BY <1>3, <1>4, <1>5, <1>7, <1>14, <1>15, <1>16, <1>17, RemovedCall
<1> QED
  BY <1>5, <1>12, <1>13, <1>18

LEMMA WroteStep ==
  ASSUME NEW z, NEW N, Whole(z, N), Placed(z, N), NEW n \in N, z.disk[n].mode = "REG",
         NEW off \in Nat, off <= z.disk[n].size, NEW len \in Sizes, len \in Nat, NEW v \in Vals,
         NEW w, Whole(w, N), SameLinks(z.disk, w.disk, N), SameViews(z.disk, w.disk, N \ {n}),
         Overwrites(z.disk, w.disk, n, off, [i \in 1 .. len |-> Value(v)])
  PROVE  Placed(w, N) /\ Stepped(z, w)
<1> SUFFICES ASSUME PlainPaths
             PROVE  (\E at : Rooted(w.disk, N, at)) /\ Calls(Seen(z), Seen(w))
  BY DEF Placed, Stepped
<1>1. PICK own, S, own2, S2 : Tree(z, N, own, N, S) /\ Tree(w, N, own2, N, S2)
  BY DEF Whole
<1>2. PICK at : Rooted(z.disk, N, at)
  BY DEF Placed
<1>3. PICK D, E : D = z.disk /\ E = w.disk
  OBVIOUS
<1>4. Rooted(E, N, at)
  BY <1>2, <1>3 DEF Rooted, SameLinks
<1>5. at[n] \in Paths
  <2>1. D[ROOT].mode = "DIR"
    BY <1>1, <1>3 DEF Tree, Laid, Layout
  <2> QED
    BY <1>2, <1>3, <2>1, Places
<1>6. PICK s, t : s = Seen(z) /\ t = Seen(w)
  OBVIOUS
<1>7. Shows(s, D, N, at)
  BY <1>1, <1>2, <1>3, <1>6, SeenShows
<1>8. Shows(t, E, N, at)
  BY <1>1, <1>3, <1>4, <1>6, SeenShows
<1>9. D[n].size \in Nat
  BY <1>1, <1>3, TreeNodes
<1>10. Calls(s, t)
  BY <1>2, <1>3, <1>5, <1>7, <1>8, <1>9, WroteCall
<1> QED
  BY <1>3, <1>4, <1>6, <1>10

\* FILE F stands on an inode of N, at a position inside it.
Stands(F, z, N) ==
  /\ F = [node |-> F.node, size |-> F.size, pos |-> F.pos]
  /\ F.node \in N /\ F.size \in Nat /\ F.pos \in Nat
  /\ z.disk[F.node].mode # "DEV" =>
       F.pos <= z.disk[F.node].size /\ F.size <= z.disk[F.node].size
  /\ z.disk[F.node].mode = "DEV" => F.pos <= 1
Stand(g, z, N) ==
  /\ g = [f \in FILEs |-> g[f]]
  /\ \A f \in FILEs : g[f] = NoFile \/ Stands(g[f], z, N)

\* FILEs stay where they stand when their inodes do.
LEMMA StandKept ==
  ASSUME NEW z, NEW N, Whole(z, N), NEW w, NEW N2, Whole(w, N2), Keeps(z, w, N \cap N2),
         NEW g, Stand(g, z, N), \A f \in FILEs : g[f] = NoFile \/ g[f].node \in N2
  PROVE  Stand(g, w, N2)
<1>1. PICK own, own2, S, S2 : Tree(z, N, own, N, S) /\ Tree(w, N2, own2, N2, S2)
  BY DEF Whole
<1>2. ASSUME NEW f \in FILEs, g[f] # NoFile PROVE Stands(g[f], w, N2)
  <2>1. Stands(g[f], z, N) /\ g[f].node \in N \cap N2
    BY <1>2 DEF Stand, Stands
  <2>2. PICK m, F : m = g[f].node /\ F = g[f]
    OBVIOUS
  <2>3. z.disk[m].size \in Nat /\ w.disk[m].size \in Nat
    BY <1>1, <2>1, <2>2, TreeNodes
  <2>4. w.disk[m].mode = z.disk[m].mode /\ w.disk[m].size >= z.disk[m].size
    BY <2>1, <2>2 DEF Keeps
  <2>5. F.node = m /\ F.pos \in Nat /\ F.size \in Nat /\ (z.disk[m].mode = "DEV" => F.pos <= 1)
    BY <2>1, <2>2 DEF Stands
  <2>6. ASSUME w.disk[m].mode # "DEV" PROVE F.pos <= w.disk[m].size /\ F.size <= w.disk[m].size
    <3>1. F.pos <= z.disk[m].size /\ F.size <= z.disk[m].size
      BY <2>1, <2>2, <2>4, <2>6 DEF Stands
    <3> QED
      BY <2>3, <2>4, <2>5, <3>1
  <2> QED
    BY <2>1, <2>2, <2>4, <2>5, <2>6 DEF Stands
<1> QED
  BY <1>2 DEF Stand

\* The FILEs stand on inodes of a disk in order, which form a tree, and no call
\* kept a buffer.
FsInv ==
  fs.kept = 0 /\ \E N : Whole(fs, N) /\ Stand(files, fs, N) /\ Placed(fs, N)

\* What is not touched shows what it did.
LEMMA SameStep ==
  ASSUME NEW z, NEW w, w = z
  PROVE  Stepped(z, w)
BY DEF Stepped, Calls

\* A new inode shows that it is there, and nothing else.
LEMMA NewView ==
  ASSUME NEW E, NEW b, NEW mode \in {"REG", "DIR", "DEV"}, E[b] = Node(mode, 0)
  PROVE  View(E, b).mode # "none" /\ View(E, b).data = <<>>
<1>1. E[b].mode = mode /\ E[b].size = 0
  BY DEF Node
<1>2. View(E, b).mode = mode
  BY <1>1 DEF View
<1>3. View(E, b).data = <<>>
  BY <1>1 DEF View
<1> QED
  BY <1>2, <1>3

\* A call that leaves the FILEs where they are.
LEMMA DiskCall ==
  ASSUME NEW N, Whole(fs, N), Stand(files, fs, N), fs.kept = 0,
         NEW N2, Whole(fs', N2), Placed(fs', N2), Keeps(fs, fs', N \cap N2), fs'.kept = 0,
         \A f \in FILEs : files[f] = NoFile \/ files[f].node \in N2, files' = files
  PROVE  FsInv'
<1>1. Stand(files, fs', N2)
  BY StandKept
<1> QED
  BY <1>1 DEF FsInv

\* A FILE is set down.
FileSet(g, h, f, F) == h = [g EXCEPT ![f] = F]

LEMMA FileCall ==
  ASSUME NEW z, NEW N, NEW g, Stand(g, z, N), NEW f \in FILEs,
         NEW F, F = NoFile \/ Stands(F, z, N), NEW h, FileSet(g, h, f, F)
  PROVE  Stand(h, z, N)
BY DEF Stand, FileSet

\* A free FILE is taken for an inode.
LEMMA OpenedKeeps ==
  ASSUME NEW z, NEW N, Whole(z, N), Placed(z, N), z.kept = 0, Stand(files, z, N), OpenOn(0) # {},
         NEW n \in N, NEW mode, mode # {"WRONLY"}, Opened(z, n, mode)
  PROVE  FsInv'
<1>1. PICK own, S : Tree(z, N, own, N, S)
  BY DEF Whole
<1>2. PICK s, f, F : /\ s = IF z.disk[n].mode = "DEV" THEN 1 ELSE z.disk[n].size
                     /\ f = Lowest(OpenOn(0))
                     /\ F = [node |-> n, size |-> s, pos |-> IF "APPEND" \in mode THEN s ELSE 0]
  OBVIOUS
<1>3. z.disk[n].size \in Nat
  BY <1>1, TreeNodes
<1>4. s \in Nat /\ (z.disk[n].mode # "DEV" => s = z.disk[n].size) /\ (z.disk[n].mode = "DEV" => s = 1)
  BY <1>2, <1>3
<1>5. Stands(F, z, N)
  BY <1>2, <1>3, <1>4 DEF Stands
<1>6. f \in FILEs
  <2>1. OpenOn(0) \in SUBSET Nat /\ OpenOn(0) \subseteq FILEs
    BY DEF OpenOn, FILEs
  <2> QED
    BY <1>2, <2>1, LowestIsLeast
<1>7. fs' = z /\ FileSet(files, files', f, F)
  BY <1>2 DEF Opened, FileSet
<1>8. Stand(files', z, N)
  BY <1>5, <1>6, <1>7, FileCall
<1> QED
  BY <1>7, <1>8 DEF FsInv

LEMMA RoomLeft ==
  ASSUME Abuses = {}, NEW z, Room(z)
  PROVE  ~Full(z)
BY DEF Room, Full

\* Where a path leads, when the programs name nothing below files.
LEMMA SoundLookup ==
  ASSUME Abuses = {}, NEW N, Whole(fs, N), NEW path \in Paths,
         NEW r, r = fs_lookup(fs, path), Sound(r)
  PROVE  /\ r.node \in N /\ r.parent \in N /\ fs.disk[r.parent].mode = "DIR"
         /\ fs.disk[r.parent].size \in Nat
         /\ r.rv = "OK" /\ fs.disk[r.node].mode # "DIR" =>
              NamesOf(fs.disk, r.parent, r.node) # {}
<1>1. Finds(fs, N, r)
  BY LookupFinds
<1>2. PICK own, S : Tree(fs, N, own, N, S)
  BY DEF Whole
<1>3. fs.disk[r.parent].size \in Nat
  BY <1>1, <1>2, TreeNodes DEF Finds
<1> QED
  BY <1>1, <1>3 DEF Finds, Sound

\* After fs_create the FILEs stand as before, and the new inode is there.
LEMMA CreatedStands ==
  ASSUME NEW N, Whole(fs, N), Stand(files, fs, N), fs.kept = 0,
         NEW where \in N, fs.disk[where].mode = "DIR", fs.disk[where].size < MaxEntries,
         NEW name, NEW mode \in {"REG", "DIR", "DEV"},
         NEW y, y = fs_create(fs, where, name, mode), ~Full(y.z)
  PROVE  \E b : /\ b \notin N /\ b # 0 /\ y.node = b /\ y.z.disk[b] = Node(mode, 0)
                /\ Whole(y.z, N \cup {b}) /\ Keeps(fs, y.z, N) /\ y.z.kept = 0
                /\ Stand(files, y.z, N \cup {b})
                /\ Adds(fs.disk, y.z.disk, N, where, name, b)
<1>1. PICK b : Creates(fs, y, N, where, name, b, mode)
  BY Created
<1>2. Keeps(fs, y.z, N)
  BY <1>1 DEF Creates, Stays, Keeps
<1>3. N \cap (N \cup {b}) = N
  OBVIOUS
<1>4. \A f \in FILEs : files[f] = NoFile \/ files[f].node \in N \cup {b}
  BY DEF Stand, Stands
<1>5. Whole(y.z, N \cup {b}) /\ Keeps(fs, y.z, N \cap (N \cup {b}))
  BY <1>1, <1>2, <1>3 DEF Creates
<1>6. Stand(files, y.z, N \cup {b})
  BY <1>4, <1>5, StandKept
<1> QED
  BY <1>1, <1>2, <1>5, <1>6 DEF Creates, Later

LEMMA OpenKeeps ==
  ASSUME Abuses = {}, FsInv, NEW path \in Paths, NEW mode \in Modes, k_open(path, mode)
  PROVE  FsInv' /\ Stepped(fs, fs')
<1>1. PICK N : Whole(fs, N) /\ Stand(files, fs, N) /\ Placed(fs, N) /\ fs.kept = 0
  BY DEF FsInv
<1>2. PICK r, name : r = fs_lookup(fs, path) /\ name = NameOf(path)
  OBVIOUS
<1>3. PICK made : made = fs_create(fs, r.parent, name, "REG")
  OBVIOUS
<1>4. /\ OpenOn(0) # {} /\ Sound(r) /\ mode # {"WRONLY"}
      /\ \/ r.rv = "OK" /\ Opened(fs, r.node, mode)
         \/ /\ r.rv = "NO_FILE" /\ Fits(r.parent) /\ Room(made.z)
            /\ Opened(made.z, made.node, mode)
         \/ UNCHANGED <<fs, files>>
  BY <1>2, <1>3 DEF k_open
<1>5. /\ r.node \in N /\ r.parent \in N /\ fs.disk[r.parent].mode = "DIR"
  BY <1>1, <1>2, <1>4, SoundLookup
<1>6. CASE Opened(fs, r.node, mode)
  <2>1. FsInv'
    BY <1>1, <1>4, <1>5, <1>6, OpenedKeeps
  <2>2. fs' = fs
    BY <1>4, <1>6 DEF Opened
  <2> QED
    BY <2>1, <2>2, SameStep
<1>7. CASE /\ r.rv = "NO_FILE" /\ Fits(r.parent) /\ Room(made.z)
           /\ Opened(made.z, made.node, mode)
  <2>1. ~Full(made.z) /\ fs.disk[r.parent].size < MaxEntries
    BY <1>7, RoomLeft DEF Fits
  <2>2. PICK where : where = r.parent
    OBVIOUS
  <2>3. PICK b : /\ made.node = b /\ Whole(made.z, N \cup {b}) /\ made.z.kept = 0
                 /\ b \notin N /\ made.z.disk[b] = Node("REG", 0)
                 /\ Stand(files, made.z, N \cup {b})
                 /\ Adds(fs.disk, made.z.disk, N, where, name, b)
    <3>1. "REG" \in {"REG", "DIR", "DEV"}
      OBVIOUS
    <3>2. made = fs_create(fs, where, name, "REG") /\ where \in N
      BY <1>3, <1>5, <2>2
    <3>3. fs.disk[where].mode = "DIR" /\ fs.disk[where].size < MaxEntries
      BY <1>5, <2>1, <2>2
    <3> QED
      BY <1>1, <2>1, <3>1, <3>2, <3>3, CreatedStands
  <2>4. b \in N \cup {b} /\ Opened(made.z, b, mode)
    BY <1>7, <2>3
  <2>5. PICK z, w : z = fs /\ w = made.z
    OBVIOUS
  <2>6. Placed(w, N \cup {b}) /\ Stepped(z, w)
    <3>1. View(w.disk, b).mode # "none" /\ View(w.disk, b).data = <<>>
      BY <2>3, <2>5, NewView
    <3>2. /\ Whole(z, N) /\ Placed(z, N) /\ r = fs_lookup(z, path) /\ r.rv = "NO_FILE"
          /\ r.parent \in N /\ z.disk[r.parent].mode = "DIR" /\ b \notin N
          /\ Whole(w, N \cup {b}) /\ Adds(z.disk, w.disk, N, r.parent, NameOf(path), b)
      BY <1>1, <1>2, <1>5, <1>7, <2>2, <2>3, <2>5
    <3> QED
      BY <3>1, <3>2, MadeStep
  <2>7. FsInv'
    BY <1>4, <2>3, <2>4, <2>5, <2>6, OpenedKeeps
  <2>8. fs' = w
    BY <1>4, <2>4, <2>5 DEF Opened
  <2> QED
    BY <2>5, <2>6, <2>7, <2>8
<1>8. CASE UNCHANGED <<fs, files>>
  BY <1>1, <1>8, SameStep DEF FsInv
<1> QED
  BY <1>4, <1>6, <1>7, <1>8

LEMMA CloseKeeps ==
  ASSUME FsInv, NEW f \in FILEs, k_close(f)
  PROVE  FsInv' /\ Stepped(fs, fs')
<1>1. PICK N : Whole(fs, N) /\ Stand(files, fs, N) /\ Placed(fs, N) /\ fs.kept = 0
  BY DEF FsInv
<1>2. fs' = fs /\ FileSet(files, files', f, NoFile)
  BY DEF k_close, FileSet
<1>3. Stand(files', fs, N)
  BY <1>1, <1>2, FileCall
<1> QED
  BY <1>1, <1>2, <1>3, SameStep DEF FsInv

LEMMA UnlinkKeeps ==
  ASSUME Abuses = {}, FsInv, NEW path \in Paths, k_unlink(path)
  PROVE  FsInv' /\ Stepped(fs, fs')
<1>1. PICK N : Whole(fs, N) /\ Stand(files, fs, N) /\ Placed(fs, N) /\ fs.kept = 0
  BY DEF FsInv
<1>2. PICK r, n, p : r = fs_lookup(fs, path) /\ n = r.node /\ p = r.parent
  OBVIOUS
<1>3. PICK off : off = Lowest({x \in 0 .. fs.disk[p].size - 1 : UnitAt(fs, p, x).idx = n})
  OBVIOUS
<1>4. /\ Sound(r) /\ r.rv = "OK" /\ fs.disk[n].mode # "DIR" /\ OpenOn(n) = {}
      /\ fs' = fs_write(fs_reset(fs, n), p, off, <<Hole>>)
      /\ files' = files
  BY <1>2, <1>3 DEF k_unlink
<1>5. n \in N /\ p \in N /\ fs.disk[p].mode = "DIR" /\ NamesOf(fs.disk, p, n) # {}
  BY <1>1, <1>2, <1>4, SoundLookup
<1>6. off = Lowest(NamesOf(fs.disk, p, n))
  <2>1. \A x : UnitAt(fs, p, x) = UnitIn(fs.disk, p, x)
    BY DEF UnitAt, UnitIn, BlockAt, At, Ix, To
  <2>2. NamesOf(fs.disk, p, n) = {x \in 0 .. fs.disk[p].size - 1 : UnitAt(fs, p, x).idx = n}
    BY <2>1 DEF NamesOf
  <2> QED
    BY <1>3, <2>2
<1>7. /\ Whole(fs', N \ {n}) /\ fs'.kept = fs.kept /\ Keeps(fs, fs', N \ {n})
      /\ Placed(fs', N \ {n}) /\ Stepped(fs, fs')
  <2>1. PICK z, w : z = fs /\ w = fs'
    OBVIOUS
  <2>2. /\ Whole(z, N) /\ n \in N /\ z.disk[n].mode # "DIR"
        /\ p \in N /\ z.disk[p].mode = "DIR" /\ NamesOf(z.disk, p, n) # {}
    BY <1>1, <1>4, <1>5, <2>1
  <2>3. w = fs_write(fs_reset(z, n), p, off, <<Hole>>) /\ off = Lowest(NamesOf(z.disk, p, n))
    BY <1>4, <1>6, <2>1
  <2>4. Unlinks(z, n, p, w)
    BY <2>2, <2>3, Zenon DEF Unlinks
  <2>5. /\ Whole(w, N \ {n}) /\ w.kept = z.kept /\ Keeps(z, w, N \ {n})
        /\ Loses(z.disk, w.disk, N, n)
    BY <2>2, <2>4, Unlinked
  <2>6. Placed(w, N \ {n}) /\ Stepped(z, w)
    <3>1. Placed(z, N) /\ r = fs_lookup(z, path) /\ r.rv = "OK" /\ n = r.node
      BY <1>1, <1>2, <1>4, <2>1
    <3> QED
      BY <2>2, <2>5, <3>1, RemovedStep
  <2> QED
    BY <2>1, <2>5, <2>6
<1>8. N \cap (N \ {n}) = N \ {n}
  OBVIOUS
<1>9. \A f \in FILEs : files[f] = NoFile \/ files[f].node \in N \ {n}
  BY <1>1, <1>4 DEF Stand, Stands, OpenOn
<1> QED
  BY <1>1, <1>4, <1>7, <1>8, <1>9, DiskCall

\* Writing never makes room.
LEMMA WriteFull ==
  ASSUME NEW z, IsDisk(z), Full(z), NEW n, NEW off \in Nat, NEW u,
         NEW w, w = fs_write(z, n, off, <<u>>)
  PROVE  IsDisk(w) /\ Full(w)
<1>1. CASE ~(off > z.disk[n].size)
  <2>1. PICK vals : vals = <<u>>
    OBVIOUS
  <2>2. Len(vals) \in Nat
    BY <2>1
  <2>3. Later(z, w)
    BY <1>1, <2>1, <2>2, WriteLater
  <2> QED
    BY <2>3, LaterFull DEF Later
<1>2. CASE off > z.disk[n].size
  <2>1. w = [z EXCEPT !.kept = @ + 1]
    BY <1>2, Zenon DEF fs_write
  <2> QED
    BY <2>1 DEF IsDisk, Full
<1> QED
  BY <1>1, <1>2

LEMMA CreatedDisk ==
  ASSUME NEW z, IsDisk(z), NEW where, z.disk[where].mode = "DIR", z.disk[where].size \in Nat,
         NEW name, NEW mode, NEW y, y = fs_create(z, where, name, mode)
  PROVE  IsDisk(y.z)
<1>1. PICK x, b, u, size : /\ x = fs_allocBlock(z).z /\ b = fs_allocBlock(z).blk
                           /\ u = Dirent(name, b) /\ size = z.disk[where].size
  OBVIOUS
<1>2. PICK w : w = fs_write(x, where, size, <<u>>)
  OBVIOUS
<1>3. MadeNode(w, y.z, b, mode)
  BY <1>1, <1>2, CreateIs
<1>4. IsDisk(x) /\ x.disk = z.disk
  BY <1>1, FreeBlockIs DEF Later
<1>5. IsDisk(w)
  <2>1. PICK vals : vals = <<u>>
    OBVIOUS
  <2>2. Len(vals) \in Nat /\ size \in Nat /\ ~(size > x.disk[where].size)
    BY <1>1, <1>4, <2>1
  <2> QED
    BY <1>2, <1>4, <2>1, <2>2, WriteLater DEF Later
<1> QED
  BY <1>3, <1>5 DEF MadeNode, IsDisk

LEMMA MkdirKeeps ==
  ASSUME Abuses = {}, FsInv, NEW path \in Paths, k_mkdir(path)
  PROVE  FsInv' /\ Stepped(fs, fs')
<1>1. PICK N : Whole(fs, N) /\ Stand(files, fs, N) /\ Placed(fs, N) /\ fs.kept = 0
  BY DEF FsInv
<1>2. PICK r, name, where : r = fs_lookup(fs, path) /\ name = NameOf(path) /\ where = r.parent
  OBVIOUS
<1>3. PICK made : made = fs_create(fs, where, name, "DIR")
  OBVIOUS
<1>4. /\ Sound(r) /\ r.rv = "NO_FILE" /\ Fits(where) /\ fs' = Dotted(made.z, made.node, where)
      /\ Room(fs') /\ files' = files
  BY <1>2, <1>3 DEF k_mkdir
<1>5. /\ where \in N /\ fs.disk[where].mode = "DIR" /\ fs.disk[where].size < MaxEntries
      /\ fs.disk[where].size \in Nat
  BY <1>1, <1>2, <1>4, SoundLookup DEF Fits
<1>6. PICK w : w = fs'
  OBVIOUS
<1>7. ~Full(w)
  BY <1>4, <1>6, RoomLeft
<1>8. CASE Full(made.z)
  \* On a full disk the new directory stays without its entries.
  <2>1. IsDisk(made.z)
    BY <1>1, <1>3, <1>5, CreatedDisk DEF Whole, Tree
  <2>2. PICK x : x = fs_write(made.z, made.node, 0, <<Dirent(".", made.node)>>)
    OBVIOUS
  <2>3. IsDisk(x) /\ Full(x)
    BY <1>8, <2>1, <2>2, WriteFull
  <2>4. w = fs_write(x, made.node, 1, <<Dirent("..", where)>>)
    BY <1>4, <1>6, <2>2 DEF Dotted
  <2> QED
    BY <1>7, <2>3, <2>4, WriteFull
<1>9. CASE ~Full(made.z)
  <2>1. "DIR" \in {"REG", "DIR", "DEV"}
    OBVIOUS
  <2>2. PICK b : /\ b \notin N /\ made.node = b /\ made.z.disk[b] = Node("DIR", 0)
                 /\ Whole(made.z, N \cup {b}) /\ Keeps(fs, made.z, N) /\ made.z.kept = 0
                 /\ Stand(files, made.z, N \cup {b})
                 /\ Adds(fs.disk, made.z.disk, N, where, name, b)
    BY <1>1, <1>3, <1>5, <1>9, <2>1, CreatedStands
  <2>3. PICK x, N2 : x = made.z /\ N2 = N \cup {b}
    OBVIOUS
  <2>4. b \in N2 /\ where \in N2 /\ x.disk[b].mode = "DIR" /\ x.disk[where].mode = "DIR"
    BY <1>5, <2>2, <2>3 DEF Keeps, Node
  <2>5. w = Dotted(x, b, where)
    BY <1>4, <1>6, <2>2, <2>3
  <2>6. /\ Whole(w, N2) /\ Later(x, w) /\ Stays(x.disk, w.disk, N2, b)
        /\ SameViews(x.disk, w.disk, N2) /\ SameLinks(x.disk, w.disk, N2)
    <3>1. x.disk[b].size = 0 /\ Whole(x, N2)
      BY <2>2, <2>3 DEF Node
    <3> QED
      BY <1>7, <2>4, <2>5, <3>1, DottedWhole
  <2>7. Keeps(x, w, N2 \cap N2)
    BY <2>6 DEF Keeps, Stays
  <2>8. \A f \in FILEs : files[f] = NoFile \/ files[f].node \in N2
    BY <2>2, <2>3 DEF Stand, Stands
  <2>9. Stand(files, w, N2)
    BY <2>2, <2>3, <2>6, <2>7, <2>8, StandKept
  <2>10. w.kept = 0
    BY <2>2, <2>3, <2>6 DEF Later
  <2>11. PICK z : z = fs
    OBVIOUS
  <2>12. Placed(w, N2) /\ Stepped(z, w)
    <3>1. Adds(z.disk, w.disk, N, where, name, b)
      BY <2>2, <2>3, <2>6, <2>11, AddsThen
    <3>2. View(w.disk, b).mode # "none" /\ View(w.disk, b).data = <<>>
      <4>1. View(x.disk, b).mode # "none" /\ View(x.disk, b).data = <<>>
        BY <2>2, <2>3, NewView
      <4> QED
        BY <2>4, <2>6, <4>1 DEF SameViews
    <3>3. /\ Whole(z, N) /\ Placed(z, N) /\ r = fs_lookup(z, path) /\ r.rv = "NO_FILE"
          /\ r.parent \in N /\ z.disk[r.parent].mode = "DIR" /\ b \notin N
          /\ Whole(w, N \cup {b}) /\ Adds(z.disk, w.disk, N, r.parent, NameOf(path), b)
      BY <1>1, <1>2, <1>4, <1>5, <2>2, <2>3, <2>6, <2>11, <3>1
    <3> QED
      BY <2>3, <3>2, <3>3, MadeStep
  <2> QED
    BY <1>4, <1>6, <2>6, <2>9, <2>10, <2>11, <2>12 DEF FsInv
<1> QED
  BY <1>8, <1>9

LEMMA MknodKeeps ==
  ASSUME Abuses = {}, FsInv, NEW path \in Paths, k_mknod(path)
  PROVE  FsInv' /\ Stepped(fs, fs')
<1>1. PICK N : Whole(fs, N) /\ Stand(files, fs, N) /\ Placed(fs, N) /\ fs.kept = 0
  BY DEF FsInv
<1>2. PICK r, name, where : r = fs_lookup(fs, path) /\ name = NameOf(path) /\ where = r.parent
  OBVIOUS
<1>3. PICK made : made = fs_create(fs, where, name, "DEV")
  OBVIOUS
<1>4. /\ Sound(r) /\ r.rv = "NO_FILE" /\ Fits(where)
      /\ fs' = [made.z EXCEPT !.disk[made.node].size = UNITS]
      /\ Room(made.z) /\ files' = files
  BY <1>2, <1>3 DEF k_mknod
<1>5. /\ where \in N /\ fs.disk[where].mode = "DIR" /\ fs.disk[where].size < MaxEntries
  BY <1>1, <1>2, <1>4, SoundLookup DEF Fits
<1>6. ~Full(made.z) /\ "DEV" \in {"REG", "DIR", "DEV"}
  BY <1>4, RoomLeft
<1>7. PICK b : /\ b \notin N /\ b # 0 /\ made.node = b /\ made.z.disk[b] = Node("DEV", 0)
               /\ Whole(made.z, N \cup {b}) /\ Keeps(fs, made.z, N) /\ made.z.kept = 0
               /\ Stand(files, made.z, N \cup {b})
               /\ Adds(fs.disk, made.z.disk, N, where, name, b)
  BY <1>1, <1>3, <1>5, <1>6, CreatedStands
<1>8. PICK x, N2, w : x = made.z /\ N2 = N \cup {b} /\ w = fs'
  OBVIOUS
<1>9. PICK own : Tree(x, N2, own, N2, Singles(x.disk, N2))
  BY <1>7, <1>8 DEF Whole
<1>10. PICK D, E : D = x.disk /\ E = w.disk
  OBVIOUS
<1>11. /\ IsDisk(x) /\ Layout(x.marked, D, N2, own) /\ Shape(D, N2) /\ Entries(D, N2, N2)
       /\ Single(D, N2, Singles(D, N2)) /\ ~Full(x)
  BY <1>7, <1>8, <1>9, <1>10 DEF Tree, Laid, Whole
<1>12. b \in N2 /\ b \in Blocks /\ Maps(D) /\ D[b] = Node("DEV", 0)
  <2>1. b \in N2 /\ D[b] = Node("DEV", 0)
    BY <1>7, <1>8, <1>10
  <2> QED
    BY <1>11, <2>1 DEF Layout, Formatted, Maps
<1>13. /\ IsDisk(w) /\ w.marked = x.marked /\ w.kept = x.kept
       /\ E = [D EXCEPT ![b].size = UNITS]
  BY <1>4, <1>7, <1>8, <1>10, <1>11 DEF IsDisk
<1>14. SizeSet(D, E, b, UNITS)
  BY <1>12, <1>13 DEF SizeSet, Maps
<1>15. UNITS \in Nat
  BY Sizings
<1>16. /\ Layout(x.marked, E, N2, own)
       /\ \A m \in N2 : E[m].mode = D[m].mode /\ E[m].size = IF m = b THEN UNITS ELSE D[m].size
       /\ \A m \in N2, k \in Ks : At(E, m, k) = At(D, m, k)
       /\ \A m \in N2, y \in Offs : UnitIn(E, m, y) = UnitIn(D, m, y)
  BY <1>11, <1>12, <1>14, <1>15, NewSize
<1>17. D[b].mode = "DEV" /\ E[b].mode = "DEV" /\ E[b].size = UNITS
  BY <1>12, <1>16 DEF Node
<1>18. PICK N3 : N3 = N2 \ {b}
  OBVIOUS
<1>19. SameUnits(D, E, N3) /\ N3 \subseteq N2
  BY <1>16, <1>18 DEF SameUnits
<1>20. /\ Shape(E, N3)
       /\ \A m, y : InDir(E, N3, m, y) => InDir(D, N2, m, y) /\ UnitIn(E, m, y) = UnitIn(D, m, y)
  BY <1>11, <1>19, SameTrees
<1>21. \A m, y : InDir(E, N2, m, y) => InDir(E, N3, m, y)
  BY <1>17, <1>18 DEF InDir
<1>22. Shape(E, N2)
  <2>1. UNITS <= UNITS
    BY <1>15
  <2> QED
    BY <1>17, <1>18, <1>20, <2>1 DEF Shape
<1>23. Entries(E, N2, N2) /\ Single(E, N2, Singles(D, N2))
  BY <1>11, <1>20, <1>21 DEF Entries, Single
<1>24. Singles(E, N2) = Singles(D, N2)
  BY <1>16 DEF Singles
<1>25. Whole(w, N2)
  BY <1>10, <1>11, <1>13, <1>16, <1>22, <1>23, <1>24 DEF Whole, Tree, Laid, Full
<1>26. Keeps(fs, w, N)
  <2>1. \A m \in N : E[m].mode = D[m].mode /\ E[m].size = D[m].size
    BY <1>7, <1>8, <1>16
  <2> QED
    BY <1>7, <1>8, <1>10, <2>1 DEF Keeps
<1>27. N \cap N2 = N
  BY <1>8
<1>28. \A f \in FILEs : files[f] = NoFile \/ files[f].node \in N2
  BY <1>7, <1>8 DEF Stand, Stands
<1>29. w.kept = 0
  BY <1>7, <1>8, <1>13
<1>30. SameViews(D, E, N2) /\ SameLinks(D, E, N2)
  <2>1. SameViews(D, E, N3) /\ SameLinks(D, E, N3)
    BY <1>11, <1>19, SameShown
  <2>2. View(E, b) = View(D, b)
    BY <1>17 DEF View
  <2>3. SameViews(D, E, N2)
    BY <1>18, <2>1, <2>2 DEF SameViews
  <2>4. \A m, nm, i : Link(D, N2, m, nm, i) <=> Link(D, N3, m, nm, i)
    BY <1>17, <1>18, LinkDirs
  <2>5. \A m, nm, i : Link(E, N2, m, nm, i) <=> Link(E, N3, m, nm, i)
    BY <1>17, <1>18, LinkDirs
  <2> QED
    BY <2>1, <2>3, <2>4, <2>5 DEF SameLinks
<1>31. PICK z : z = fs
  OBVIOUS
<1>32. Placed(w, N2) /\ Stepped(z, w)
  <2>1. Adds(z.disk, w.disk, N, where, name, b)
    <3>1. SameViews(D, E, N \cup {b}) /\ SameLinks(D, E, N \cup {b}) /\ Adds(z.disk, D, N, where, name, b)
      BY <1>7, <1>8, <1>10, <1>30, <1>31
    <3> QED
      BY <1>10, <3>1, AddsThen
  <2>2. View(w.disk, b).mode # "none" /\ View(w.disk, b).data = <<>>
    <3>1. View(D, b).mode # "none" /\ View(D, b).data = <<>>
      BY <1>12, NewView
    <3> QED
      BY <1>10, <1>12, <1>30, <3>1 DEF SameViews
  <2>3. /\ Whole(z, N) /\ Placed(z, N) /\ r = fs_lookup(z, path) /\ r.rv = "NO_FILE"
        /\ r.parent \in N /\ z.disk[r.parent].mode = "DIR" /\ b \notin N
        /\ Whole(w, N \cup {b}) /\ Adds(z.disk, w.disk, N, r.parent, NameOf(path), b)
    BY <1>1, <1>2, <1>4, <1>5, <1>7, <1>8, <1>25, <1>31, <2>1
  <2> QED
    BY <1>8, <2>2, <2>3, MadeStep
<1> QED
  BY <1>1, <1>4, <1>8, <1>25, <1>26, <1>27, <1>28, <1>29, <1>31, <1>32, DiskCall

\* The position of an open FILE moves, to a place inside its file.
PosSet(g, h, f, p) == h = [g EXCEPT ![f] = [g[f] EXCEPT !.pos = p]]

LEMMA PosCall ==
  ASSUME NEW z, NEW N, NEW g, Stand(g, z, N), NEW f \in FILEs, g[f] # NoFile,
         NEW p \in Nat, z.disk[g[f].node].mode # "DEV", p <= z.disk[g[f].node].size,
         NEW h, PosSet(g, h, f, p)
  PROVE  Stand(h, z, N)
<1>1. PICK F, H : F = g[f] /\ H = [F EXCEPT !.pos = p]
  OBVIOUS
<1>2. Stands(F, z, N)
  BY <1>1 DEF Stand
<1>3. F = [node |-> F.node, size |-> F.size, pos |-> F.pos]
  BY <1>2 DEF Stands
<1>4. H = [node |-> F.node, size |-> F.size, pos |-> p]
  BY <1>1, <1>3
<1>5. H.node = F.node /\ H.size = F.size /\ H.pos = p
  BY <1>4
<1>6. Stands(H, z, N)
  BY <1>1, <1>2, <1>4, <1>5 DEF Stands
<1>7. FileSet(g, h, f, H)
  BY <1>1 DEF PosSet, FileSet
<1> QED
  BY <1>6, <1>7, FileCall

\* Where an open FILE stands.
LEMMA FileStands ==
  ASSUME NEW z, NEW N, Whole(z, N), NEW g, Stand(g, z, N), NEW f \in FILEs, g[f] # NoFile,
         NEW n, n = g[f].node, NEW size, size = z.disk[n].size
  PROVE  /\ n \in N /\ size \in Nat /\ g[f].pos \in Nat /\ g[f].size \in Nat
         /\ z.disk[n].mode # "DEV" => g[f].pos <= size /\ g[f].size <= size
<1>1. PICK own, S : Tree(z, N, own, N, S)
  BY DEF Whole
<1>2. Stands(g[f], z, N)
  BY DEF Stand
<1>3. n \in N
  BY <1>2 DEF Stands
<1>4. z.disk[n].size \in Nat
  BY <1>1, <1>3, TreeNodes
<1> QED
  BY <1>2, <1>3, <1>4 DEF Stands

\* A call that moves the position of a FILE and leaves the disk.
LEMMA PosKeeps ==
  ASSUME NEW N, Whole(fs, N), Stand(files, fs, N), Placed(fs, N), fs.kept = 0,
         NEW f \in FILEs, files[f] # NoFile, NEW p \in Nat,
         fs.disk[files[f].node].mode # "DEV", p <= fs.disk[files[f].node].size,
         PosSet(files, files', f, p), fs' = fs
  PROVE  FsInv' /\ Stepped(fs, fs')
<1>1. Stand(files', fs, N)
  BY PosCall
<1> QED
  BY <1>1, SameStep DEF FsInv

LEMMA WriteKeeps ==
  ASSUME Abuses = {}, FsInv, NEW f \in FILEs, NEW n \in Sizes, NEW v \in Vals,
         k_write(f, n, v)
  PROVE  FsInv' /\ Stepped(fs, fs')
<1>1. PICK N : Whole(fs, N) /\ Stand(files, fs, N) /\ Placed(fs, N) /\ fs.kept = 0
  BY DEF FsInv
<1>2. PICK m, pos, size : m = files[f].node /\ pos = files[f].pos /\ size = fs.disk[m].size
  OBVIOUS
<1>3. PICK vals : vals = [i \in 1 .. n |-> Value(v)]
  OBVIOUS
<1>4. /\ files[f] # NoFile /\ pos + n <= MaxSize /\ fs.disk[m].mode = "REG"
      /\ fs' = fs_write(fs, m, pos, vals) /\ Room(fs')
      /\ files' = IF pos > size THEN files ELSE [files EXCEPT ![f].pos = @ + n]
  BY <1>2, <1>3 DEF k_write, Plain
<1>5. m \in N /\ size \in Nat /\ pos \in Nat /\ pos <= size
  BY <1>1, <1>2, <1>4, FileStands
<1>6. n \in Nat \ {0}
  BY RlFsAssumption, Zenon
<1>7. Len(vals) = n /\ \A i \in 1 .. Len(vals) : IsValue(vals[i])
  BY <1>3, <1>6 DEF Value, IsValue
<1>8. PICK w : w = fs'
  OBVIOUS
<1>9. ~Full(w)
  BY <1>4, <1>8, RoomLeft
<1>10. /\ Whole(w, N) /\ Keeps(fs, w, N) /\ w.kept = fs.kept
       /\ w.disk[m].size >= pos + Len(vals)
       /\ SameLinks(fs.disk, w.disk, N) /\ SameViews(fs.disk, w.disk, N \ {m})
       /\ Overwrites(fs.disk, w.disk, m, pos, vals)
  <2>1. PICK z : z = fs
    OBVIOUS
  <2>2. FileWrite(z, m, pos, vals, w)
    BY <1>2, <1>3, <1>4, <1>5, <1>6, <1>7, <1>8, <1>9, <2>1 DEF FileWrite
  <2>3. Whole(z, N) /\ m \in N
    BY <1>1, <1>5, <2>1
  <2>4. /\ Whole(w, N) /\ Keeps(z, w, N) /\ w.kept = z.kept
        /\ w.disk[m].size >= pos + Len(vals)
        /\ SameLinks(z.disk, w.disk, N) /\ SameViews(z.disk, w.disk, N \ {m})
        /\ Overwrites(z.disk, w.disk, m, pos, vals)
    BY <2>2, <2>3, FileWritten
  <2> QED
    BY <2>1, <2>4
<1>11. Stand(files, w, N)
  <2>1. N \cap N = N /\ \A j \in FILEs : files[j] = NoFile \/ files[j].node \in N
    BY <1>1 DEF Stand, Stands
  <2> QED
    BY <1>1, <1>10, <2>1, StandKept
<1>12. PosSet(files, files', f, pos + n)
  <2>1. files' = [files EXCEPT ![f].pos = @ + n]
    BY <1>4, <1>5
  <2> QED
    BY <1>2, <2>1 DEF PosSet
<1>13. pos + n \in Nat /\ pos + n <= w.disk[m].size
  <2>1. w.disk[m].size \in Nat
    BY <1>5, <1>10, TreeNodes DEF Whole
  <2> QED
    BY <1>5, <1>6, <1>7, <1>10, <2>1
<1>14. Stand(files', w, N)
  <2>1. files[f].node = m /\ w.disk[m].mode # "DEV"
    BY <1>2, <1>4, <1>5, <1>10 DEF Keeps
  <2> QED
    BY <1>4, <1>11, <1>12, <1>13, <2>1, PosCall
<1>15. PICK z : z = fs
  OBVIOUS
<1>16. Placed(w, N) /\ Stepped(z, w)
  <2>1. /\ Whole(z, N) /\ Placed(z, N) /\ z.disk[m].mode = "REG" /\ pos <= z.disk[m].size
        /\ n \in Nat /\ pos \in Nat /\ m \in N
    BY <1>1, <1>2, <1>4, <1>5, <1>6, <1>15
  <2>2. /\ Whole(w, N) /\ SameLinks(z.disk, w.disk, N) /\ SameViews(z.disk, w.disk, N \ {m})
        /\ Overwrites(z.disk, w.disk, m, pos, [i \in 1 .. n |-> Value(v)])
    BY <1>3, <1>10, <1>15
  <2> QED
    BY <2>1, <2>2, WroteStep
<1> QED
  BY <1>1, <1>8, <1>10, <1>14, <1>15, <1>16 DEF FsInv

LEMMA ReadKeeps ==
  ASSUME FsInv, NEW f \in FILEs, NEW n \in Sizes, k_read(f, n)
  PROVE  FsInv' /\ Stepped(fs, fs')
<1>1. PICK N : Whole(fs, N) /\ Stand(files, fs, N) /\ Placed(fs, N) /\ fs.kept = 0
  BY DEF FsInv
<1>2. PICK m, pos, size : m = files[f].node /\ pos = files[f].pos /\ size = fs.disk[m].size
  OBVIOUS
<1>3. PICK count : count = ReadCount(f, n)
  OBVIOUS
<1>4. /\ files[f] # NoFile /\ fs.disk[m].mode # "DEV"
      /\ files' = [files EXCEPT ![f].pos = @ + count]
      /\ fs' = IF pos > size THEN [fs EXCEPT !.kept = @ + 1] ELSE fs
  BY <1>2, <1>3 DEF k_read, Plain
<1>5. /\ m \in N /\ size \in Nat /\ pos \in Nat /\ pos <= size
      /\ files[f].size \in Nat /\ files[f].size <= size
  BY <1>1, <1>2, <1>4, FileStands
<1>6. n \in Nat /\ SIZE_RANGE \in Nat \ {0}
  <2>1. MaxSize \in Offs
    BY Bounds
  <2>2. MaxSize \in Nat
    BY <2>1, OffsetsDown
  <2>3. MaxSize < SIZE_RANGE /\ SIZE_RANGE \in Nat /\ n \in Nat \ {0}
    BY RlFsAssumption, Zenon
  <2> QED
    BY <2>2, <2>3
<1>7. PICK s, want : /\ s = files[f].size
                     /\ want = IF n + pos > s THEN (s - pos) % SIZE_RANGE ELSE n
  OBVIOUS
<1>8. want \in Nat
  <2>1. s - pos \in Int
    BY <1>5, <1>7
  <2>2. (s - pos) % SIZE_RANGE \in Nat
    BY <1>6, <2>1
  <2> QED
    BY <1>6, <1>7, <2>2
<1>9. count = fs_read(fs, m, pos, want)
  BY <1>2, <1>3, <1>7 DEF ReadCount
<1>10. count \in Nat /\ pos + count <= size
  <2>1. count = IF size - pos < 0 THEN 0 ELSE IF want > size - pos THEN size - pos ELSE want
    BY <1>2, <1>9 DEF fs_read
  <2> QED
    BY <1>5, <1>8, <2>1
<1>11. fs' = fs
  BY <1>4, <1>5
<1>12. PosSet(files, files', f, pos + count)
  BY <1>2, <1>4 DEF PosSet
<1>13. pos + count \in Nat
  BY <1>5, <1>10
<1> QED
  BY <1>1, <1>2, <1>4, <1>10, <1>11, <1>12, <1>13, PosKeeps

LEMMA SeekKeeps ==
  ASSUME FsInv, NEW f \in FILEs, NEW pos \in Nat, k_seek(f, pos)
  PROVE  FsInv' /\ Stepped(fs, fs')
<1>1. PICK N : Whole(fs, N) /\ Stand(files, fs, N) /\ Placed(fs, N) /\ fs.kept = 0
  BY DEF FsInv
<1>2. PICK p : p = IF files[f].size < pos THEN files[f].size ELSE pos
  OBVIOUS
<1>3. files[f] # NoFile /\ fs' = fs /\ PosSet(files, files', f, p)
  BY <1>2 DEF k_seek, Plain, PosSet
<1>4. PICK m, size : m = files[f].node /\ size = fs.disk[m].size
  OBVIOUS
<1>5. /\ files[f].size \in Nat /\ size \in Nat /\ fs.disk[m].mode # "DEV"
      /\ files[f].size <= size
  <2>1. fs.disk[m].mode # "DEV"
    BY <1>4 DEF k_seek, Plain
  <2> QED
    BY <1>1, <1>3, <1>4, <2>1, FileStands
<1>6. p \in Nat /\ p <= size
  BY <1>2, <1>5
<1> QED
  BY <1>1, <1>3, <1>4, <1>5, <1>6, PosKeeps

LEMMA ReaddirKeeps ==
  ASSUME FsInv, NEW f \in FILEs, k_readdir(f)
  PROVE  FsInv' /\ Stepped(fs, fs')
<1>1. PICK N : Whole(fs, N) /\ Stand(files, fs, N) /\ Placed(fs, N) /\ fs.kept = 0
  BY DEF FsInv
<1>2. PICK m, pos, size, s : /\ m = files[f].node /\ pos = files[f].pos
                             /\ size = fs.disk[m].size /\ s = files[f].size
  OBVIOUS
<1>3. PICK entries : entries = {off \in pos .. s - 1 : UnitAt(fs, m, off).idx # 0}
  OBVIOUS
<1>4. PICK p : p = IF pos >= s THEN pos ELSE IF entries = {} THEN s ELSE Lowest(entries) + 1
  OBVIOUS
<1>5. /\ files[f] # NoFile /\ fs.disk[m].mode = "DIR" /\ fs' = fs
      /\ PosSet(files, files', f, p)
  BY <1>2, <1>3, <1>4 DEF k_readdir, PosSet
<1>6. /\ size \in Nat /\ pos \in Nat /\ pos <= size /\ s \in Nat /\ s <= size
  BY <1>1, <1>2, <1>5, FileStands
<1>7. ASSUME entries # {} PROVE Lowest(entries) \in pos .. s - 1
  <2>1. entries \in SUBSET Nat /\ entries \subseteq pos .. s - 1
    BY <1>3, <1>6
  <2> QED
    BY <1>7, <2>1, LowestIsLeast
<1>8. p \in Nat /\ p <= size
  <2>1. CASE pos >= s
    BY <1>4, <1>6, <2>1
  <2>2. CASE ~(pos >= s) /\ entries = {}
    BY <1>4, <1>6, <2>2
  <2>3. CASE ~(pos >= s) /\ entries # {}
    BY <1>4, <1>6, <1>7, <2>3
  <2> QED
    BY <2>1, <2>2, <2>3
<1> QED
  BY <1>1, <1>2, <1>5, <1>8, PosKeeps

\* A new disk holds the root alone.
LEMMA FsInvStarts ==
  ASSUME Abuses = {}, Init
  PROVE  FsInv /\ (PlainPaths => Rooted(fs.disk, {ROOT}, [n \in {ROOT} |-> <<>>]))
<1>1. ~Full(fs_mkfs)
  BY DiskAssumption, RoomLeft
<1>2. PICK z : z = fs_mkfs
  OBVIOUS
<1>3. Whole(z, {ROOT}) /\ z.kept = 0 /\ \A m, name, i : ~Link(z.disk, {ROOT}, m, name, i)
  BY <1>1, <1>2, MkfsWhole
<1>4. fs = z /\ Stand(files, fs, {ROOT})
  BY <1>2 DEF Init, Stand
<1>5. PICK at : at = [n \in {ROOT} |-> <<>>]
  OBVIOUS
<1>6. Rooted(z.disk, {ROOT}, at)
  <2>1. at[ROOT] = <<>> /\ at = [n \in {ROOT} |-> at[n]]
    BY <1>5
  <2> QED
    BY <1>3, <2>1 DEF Rooted
<1> QED
  BY <1>3, <1>4, <1>5, <1>6 DEF FsInv, Placed

\* Every step keeps the invariant, and is a call of the store or shows nothing.
LEMMA FsInvStep ==
  ASSUME Abuses = {}, FsInv, [Next]_vars
  PROVE  FsInv' /\ Stepped(fs, fs')
<1>1. CASE \E path \in Paths, mode \in Modes : k_open(path, mode)
  BY <1>1, OpenKeeps
<1>2. CASE \E path \in Paths : k_unlink(path) \/ k_mkdir(path) \/ k_mknod(path)
  BY <1>2, UnlinkKeeps, MkdirKeeps, MknodKeeps
<1>3. CASE \E f \in FILEs : k_close(f) \/ k_readdir(f)
  BY <1>3, CloseKeeps, ReaddirKeeps
<1>4. CASE \E f \in FILEs, pos \in 0 .. MaxSize : k_seek(f, pos)
  BY <1>4, SeekKeeps
<1>5. CASE \E f \in FILEs, n \in Sizes : k_read(f, n)
  BY <1>5, ReadKeeps
<1>6. CASE \E f \in FILEs, n \in Sizes, v \in Vals : k_write(f, n, v)
  BY <1>6, WriteKeeps
<1>7. CASE (\E f \in FILEs : blkdev_write(f)) \/ UNCHANGED vars
  <2>1. UNCHANGED <<fs, files>>
    BY <1>7 DEF blkdev_write, vars
  <2> QED
    BY <2>1, SameStep DEF FsInv
<1> QED
  BY <1>1, <1>2, <1>3, <1>4, <1>5, <1>6, <1>7 DEF Next, FsCall

LEMMA FsInvHolds ==
  ASSUME Abuses = {}
  PROVE  Spec => []FsInv
<1>1. Init => FsInv
  BY FsInvStarts
<1>2. FsInv /\ [Next]_vars => FsInv'
  BY FsInvStep
<1> QED
  BY <1>1, <1>2, PTL DEF Spec

-----------------------------------------------------------------------------
(* What the calls leave                                                    *)

\* The inodes a path leads to are those the descent reaches.
LEMMA NodesAtIs ==
  ASSUME NEW path
  PROVE  NodesAt(path) = Reached(fs, path)
BY Zenon DEF NodesAt, Reached

\* The inodes of the tree are inodes of the layout.
LEMMA NodesIn ==
  ASSUME NEW N, Whole(fs, N)
  PROVE  Nodes \subseteq N
<1>1. PICK own, S : Tree(fs, N, own, N, S)
  BY DEF Whole
<1>2. ASSUME NEW path \in Seq(Names) PROVE NodesAt(path) \subseteq N
  <2>1. Len(path) \in Nat /\ \A i \in 1 .. Len(path) : path[i] \in Names
    OBVIOUS
  <2>2. PICK f : Descends(f, fs, path) /\ NodesAt(path) = f[Len(path)]
    <3>1. \E f : Descends(f, fs, path) /\ Reached(fs, path) = f[Len(path)]
      BY <2>1, ReachedIs
    <3> QED
      BY <3>1, NodesAtIs
  <2> DEFINE G == {i \in 0 .. Len(path) : f[i] \subseteq N}
  <2>3. 0 \in G
    <3>1. ROOT \in N
      BY <1>1 DEF Tree, Laid, Layout
    <3> QED
      BY <2>1, <2>2, <3>1 DEF Descends
  <2>4. ASSUME NEW i \in 0 .. Len(path) - 1, i \in G PROVE i + 1 \in G
    <3>1. i + 1 \in 1 .. Len(path) /\ i + 1 \in 0 .. Len(path)
      BY <2>1
    <3>2. f[i + 1] = Below(fs, f[i], path[i + 1]) /\ path[i + 1] \in Names
      BY <2>1, <2>2, <3>1 DEF Descends
    <3>3. f[i] \subseteq N
      BY <2>4
    <3>4. f[i + 1] \subseteq N
      BY <1>1, <3>2, <3>3, BelowIn
    <3> QED
      BY <3>1, <3>4
  <2>5. \A i \in 0 .. Len(path) : i \in G
    <3> HIDE DEF G
    <3> QED
      BY <2>1, <2>3, <2>4, LoopEnds, Zenon
  <2> QED
    BY <2>1, <2>2, <2>5
<1>3. Present \subseteq Seq(Names)
  <2>1. Paths \subseteq Seq(Names)
    BY RlFsAssumption, Zenon DEF Names
  <2>2. Present \subseteq {<<>>} \cup Paths
    BY Zenon DEF Present
  <2>3. <<>> \in Seq(Names)
    OBVIOUS
  <2> QED
    BY <2>1, <2>2, <2>3
<1> QED
  BY <1>2, <1>3 DEF Nodes

\* The use a block has, by the place where its number stands.
UseAt(p) ==
  IF p[2] = -1 THEN <<p[1]>> ELSE IF p[3] = -1 THEN <<p[1], p[2]>> ELSE <<p[1], p[2], p[3]>>
ClaimOn(own, b) == [of |-> UseAt(own[b]), blk |-> b]

\* A block claimed in the tree stands where the claim says, marked.
LEMMA ClaimIs ==
  ASSUME NEW N, NEW own, NEW S, Tree(fs, N, own, N, S), Nodes \subseteq N, NEW c \in Claims
  PROVE  /\ c.blk \in Blocks /\ c = ClaimOn(own, c.blk)
         /\ c.blk \in fs.marked /\ c.blk >= ROOT
<1>1. PICK D : D = fs.disk
  OBVIOUS
<1>2. Layout(fs.marked, D, N, own)
  BY <1>1 DEF Tree, Laid
<1>3. PICK n \in Nodes :
        \/ c = [of |-> <<n>>, blk |-> n]
        \/ \E i \in Slots : Ix(D, n, i) # 0 /\ c = [of |-> <<n, i>>, blk |-> Ix(D, n, i)]
        \/ \E i \in Slots, e \in Es :
             /\ i >= DIRECT_INDEXES_CNT /\ Ix(D, n, i) # 0 /\ To(D, Ix(D, n, i), e) # 0
             /\ c = [of |-> <<n, i, e>>, blk |-> To(D, Ix(D, n, i), e)]
  <2> DEFINE Entry(n, i) == {[of |-> <<n, i, e>>, blk |-> fs.disk[fs.disk[n].index[i]].to[e]]
                               : e \in {e \in 0 .. ENTRIES - 1 : fs.disk[fs.disk[n].index[i]].to[e] # 0}}
             Self1(n) == {[of |-> <<n>>, blk |-> n]}
             Slot(n) == {[of |-> <<n, i>>, blk |-> fs.disk[n].index[i]]
                           : i \in {i \in Slots : fs.disk[n].index[i] # 0}}
             Deep(n) == UNION {Entry(n, i) : i \in {i \in Slots : i >= DIRECT_INDEXES_CNT
                                                                 /\ fs.disk[n].index[i] # 0}}
             All(n) == Self1(n) \cup Slot(n) \cup Deep(n)
  <2>1. Claims = UNION {All(n) : n \in Nodes}
    BY DEF Claims
  <2>2. PICK n \in Nodes : c \in All(n)
    <3> HIDE DEF All
    <3> QED
      BY <2>1
  <2>3. CASE c \in Self1(n)
    BY <2>3
  <2>4. CASE c \in Slot(n)
    BY <1>1, <2>4 DEF Ix
  <2>5. CASE c \in Deep(n)
    <3>1. PICK i \in Slots : i >= DIRECT_INDEXES_CNT /\ fs.disk[n].index[i] # 0 /\ c \in Entry(n, i)
      <4> HIDE DEF Entry
      <4> QED
        BY <2>5
    <3> QED
      BY <1>1, <3>1 DEF Ix, To, Es
  <2> QED
    BY <2>2, <2>3, <2>4, <2>5
<1>4. /\ n \in N /\ n \in Nat /\ n \in Blocks /\ own[n] = Self(n) /\ Owns(D, own, n)
  BY <1>2, <1>3, Inodes
<1>5. \A i, e : i \in Slots => i # -1 /\ (e \in Es => e # -1)
  BY Sizings, SlotSets DEF Slots, Es
<1>6. ASSUME NEW b \in Blocks, own[b] # Free PROVE b \in fs.marked /\ b >= ROOT
  BY <1>2, <1>6 DEF Layout, Owned
<1>7. CASE c = [of |-> <<n>>, blk |-> n]
  <2>1. own[n] # Free
    BY <1>4, PlacesDiffer
  <2>2. UseAt(own[n]) = <<n>>
    BY <1>4 DEF UseAt, Self, Place
  <2> QED
    BY <1>4, <1>6, <1>7, <2>1, <2>2 DEF ClaimOn
<1>8. CASE \E i \in Slots : Ix(D, n, i) # 0 /\ c = [of |-> <<n, i>>, blk |-> Ix(D, n, i)]
  <2>1. PICK i \in Slots : Ix(D, n, i) # 0 /\ c = [of |-> <<n, i>>, blk |-> Ix(D, n, i)]
    BY <1>8
  <2>2. PICK b : b = Ix(D, n, i)
    OBVIOUS
  <2>3. own[b] = Place(n, i, -1) /\ b \in Blocks
    BY <1>4, <2>1, <2>2 DEF Owns, IsNode, Ix
  <2>4. own[b] # Free /\ UseAt(own[b]) = <<n, i>>
    BY <1>4, <1>5, <2>3, PlacesDiffer DEF UseAt, Place
  <2>5. c = [of |-> <<n, i>>, blk |-> b]
    BY <2>1, <2>2
  <2> QED
    BY <1>6, <2>3, <2>4, <2>5 DEF ClaimOn
<1>9. CASE \E i \in Slots, e \in Es :
             /\ i >= DIRECT_INDEXES_CNT /\ Ix(D, n, i) # 0 /\ To(D, Ix(D, n, i), e) # 0
             /\ c = [of |-> <<n, i, e>>, blk |-> To(D, Ix(D, n, i), e)]
  <2>1. PICK i \in Slots, e \in Es :
             /\ i >= DIRECT_INDEXES_CNT /\ Ix(D, n, i) # 0 /\ To(D, Ix(D, n, i), e) # 0
             /\ c = [of |-> <<n, i, e>>, blk |-> To(D, Ix(D, n, i), e)]
    BY <1>9
  <2>2. PICK b : b = To(D, Ix(D, n, i), e)
    OBVIOUS
  <2>3. i \in IndexSlots
    BY <2>1, Sizings DEF Slots, IndexSlots
  <2>4. own[b] = Place(n, i, e) /\ b \in Blocks
    BY <1>4, <2>1, <2>2, <2>3 DEF Owns, IsIndex, To
  <2>5. own[b] # Free /\ UseAt(own[b]) = <<n, i, e>>
    BY <1>4, <1>5, <2>4, PlacesDiffer DEF UseAt, Place
  <2>6. c = [of |-> <<n, i, e>>, blk |-> b]
    BY <2>1, <2>2
  <2> QED
    BY <1>6, <2>4, <2>5, <2>6 DEF ClaimOn
<1> QED
  BY <1>3, <1>7, <1>8, <1>9

\* Records as many as the blocks they stand on.
LEMMA ClaimsCounted ==
  ASSUME NEW C, NEW own, NEW B, IsFiniteSet(B),
         \A c \in C : c.blk \in B /\ c = ClaimOn(own, c.blk)
  PROVE  Cardinality({c.blk : c \in C}) = Cardinality(C)
<1> DEFINE T == {c.blk : c \in C}
           f == [b \in T |-> ClaimOn(own, b)]
<1>1. IsFiniteSet(T)
  <2>1. T \in SUBSET B
    OBVIOUS
  <2> QED
    BY <2>1, FS_Subset
<1>2. \A b \in T : ClaimOn(own, b) \in C /\ ClaimOn(own, b).blk = b
  BY DEF ClaimOn
<1>3. f \in Bijection(T, C)
  <2>1. f \in [T -> C]
    BY <1>2
  <2>2. \A a, b \in T : f[a] = f[b] => a = b
    BY <1>2
  <2>3. \A c \in C : \E b \in T : f[b] = c
    OBVIOUS
  <2> QED
    BY <2>1, <2>2, <2>3 DEF Bijection, Injection, Surjection, IsInjective
<1>4. ExistsBijection(T, C)
  BY <1>3 DEF ExistsBijection
<1> HIDE DEF T
<1>5. Cardinality(C) = Cardinality(T)
  BY <1>1, <1>4, FS_Bijection
<1> QED
  BY <1>5 DEF T

LEMMA BlocksFinite ==
  IsFiniteSet(Blocks)
<1>1. BLOCKS \in Nat
  BY RlFsAssumption, Zenon
<1>2. BLOCKS - 1 \in Int
  BY <1>1
<1> QED
  BY <1>2, FS_Interval DEF Blocks

\* The disk as the invariant leaves it, seen from the tree.
LEMMA TreeHolds ==
  ASSUME FsInv
  PROVE  \E N, own : Tree(fs, N, own, N, Singles(fs.disk, N)) /\ Nodes \subseteq N
BY NodesIn DEF FsInv, Whole

-----------------------------------------------------------------------------
(* The theorems: programs that only write where they may, on disks of every  *)
(* size, and every sequence of calls.                                        *)

\* Positions never run ahead of their files, so that no call of fs_read or
\* fs_write returns with an inode's buffer in its hands: no call on a file, a
\* directory or a name keeps a buffer, whatever is written to block devices in
\* between, where each blkdev_write() keeps one.
THEOREM BuffersReturned ==
  ASSUME Abuses = {}
  PROVE  Spec => []FileCallsKeepNone
<1>1. FsInv => FileCallsKeepNone
  BY DEF FsInv, FileCallsKeepNone
<1>2. Spec => []FsInv
  BY FsInvHolds
<1> QED
  BY <1>1, <1>2, PTL

\* The bits fs_allocBlock and fs_freeBlock set and clear cover what the tree uses.
THEOREM UsedStaysMarked ==
  ASSUME Abuses = {}
  PROVE  Spec => []UsedIsMarked
<1>1. FsInv => UsedIsMarked
  BY TreeHolds, ClaimIs DEF UsedIsMarked
<1>2. Spec => []FsInv
  BY FsInvHolds
<1> QED
  BY <1>1, <1>2, PTL

\* fs_allocBlock, fs_reset and fs_create never put two things on one block.
THEOREM BlocksStayPrivate ==
  ASSUME Abuses = {}
  PROVE  Spec => []BlocksPrivate
<1>1. ASSUME FsInv PROVE BlocksPrivate
  <2>1. PICK N, own : Tree(fs, N, own, N, Singles(fs.disk, N)) /\ Nodes \subseteq N
    BY <1>1, TreeHolds
  <2>2. PICK C : C = Claims
    OBVIOUS
  <2>3. \A c \in C : c.blk \in Blocks /\ c = ClaimOn(own, c.blk)
    BY <2>1, <2>2, ClaimIs
  <2>4. Cardinality({c.blk : c \in C}) = Cardinality(C)
    BY <2>3, BlocksFinite, ClaimsCounted
  <2> QED
    BY <2>2, <2>4 DEF BlocksPrivate
<1>2. Spec => []FsInv
  BY FsInvHolds
<1> QED
  BY <1>1, <1>2, PTL

\* Whatever was written and removed, fs_read finds each unit of a file or
\* directory in a block that was written for it.
THEOREM FilesStayMapped ==
  ASSUME Abuses = {}
  PROVE  Spec => []FilesMapped
<1>1. ASSUME FsInv PROVE FilesMapped
  <2>1. PICK N, own : Tree(fs, N, own, N, Singles(fs.disk, N)) /\ Nodes \subseteq N
    BY <1>1, TreeHolds
  <2>2. PICK D : D = fs.disk
    OBVIOUS
  <2>3. Shape(D, N) /\ Entries(D, N, N)
    BY <2>1, <2>2 DEF Tree
  <2> SUFFICES ASSUME NEW n \in Nodes, fs.disk[n].mode # "DEV",
                      NEW off \in 0 .. fs.disk[n].size - 1
               PROVE  BlockAt(fs, n, off \div UNITS) # 0 /\ UnitAt(fs, n, off) # Junk
    BY DEF FilesMapped
  <2>4. n \in N /\ D[n].mode \in {"REG", "DIR"} /\ D[n].size \in Nat /\ off \in 0 .. D[n].size - 1
    BY <2>1, <2>2, TreeNodes
  <2>5. At(D, n, off \div UNITS) # 0
    <3>1. Mapped(D, n, 0, D[n].size)
      BY <2>3, <2>4 DEF Shape
    <3>2. off \in 0 .. 0 + D[n].size
      BY <2>4
    <3> QED
      BY <3>1, <3>2 DEF Mapped
  <2>6. PICK u : u = UnitIn(D, n, off)
    OBVIOUS
  <2>7. u # Junk
    <3>1. DOMAIN Junk = {"junk"} /\ DOMAIN Hole = {"name", "idx"}
      BY DEF Junk, Hole, Dirent
    <3>2. IsValue(u) => u # Junk
      <4>1. DOMAIN [val |-> u.val] = {"val"}
        OBVIOUS
      <4> QED
        BY <3>1, <4>1 DEF IsValue
    <3>3. IsEntry(u, N) => u # Junk
      <4>1. DOMAIN [name |-> u.name, idx |-> u.idx] = {"name", "idx"}
        OBVIOUS
      <4> QED
        BY <3>1, <4>1 DEF IsEntry
    <3>4. IsValue(u) \/ IsEntry(u, N)
      BY <2>3, <2>4, <2>6 DEF Shape, Entries, InDir
    <3> QED
      BY <3>2, <3>3, <3>4
  <2>8. BlockAt(fs, n, off \div UNITS) = At(D, n, off \div UNITS)
    BY <2>2 DEF BlockAt, At, Ix, To
  <2>9. UnitAt(fs, n, off) = UnitIn(D, n, off)
    BY <2>2 DEF UnitAt, UnitIn, BlockAt, At, Ix, To
  <2> QED
    BY <2>5, <2>6, <2>7, <2>8, <2>9
<1>2. Spec => []FsInv
  BY FsInvHolds
<1> QED
  BY <1>1, <1>2, PTL

-----------------------------------------------------------------------------
(* The tree of names, and what the programs see of it, when no path leads    *)
(* through "." or "..", which would be a second name of a directory.         *)

\* The paths of the tree and its inodes are as many.
LEMMA PathsPlaced ==
  ASSUME PlainPaths, NEW N, NEW own, NEW S, Tree(fs, N, own, N, S),
         NEW at, Rooted(fs.disk, N, at)
  PROVE  /\ Nodes = N /\ \A p \in Present : \E n \in N : NodesAt(p) = {n}
         /\ Cardinality(Nodes) = Cardinality(Present)
<1>1. ASSUME NEW p \in Seq(Proper) PROVE NodesAt(p) = {n \in N : at[n] = p}
  BY NodesAtIs, ReachedPlace
<1>2. PICK P : P = Present
  OBVIOUS
<1>3. ROOT \in N /\ at[ROOT] = <<>> /\ \A m, n \in N : at[m] = at[n] => m = n
  BY DEF Tree, Laid, Layout, Rooted
<1>4. <<>> \in P /\ P \subseteq Seq(Proper) /\ \A p \in P : p = <<>> \/ (p \in Paths /\ NodesAt(p) # {})
  <2>1. Paths \subseteq Seq(Proper) /\ <<>> \in Seq(Proper)
    BY DEF PlainPaths
  <2>2. \A p : p \in P <=> (p = <<>> \/ (p \in Paths /\ NodesAt(p) # {}))
    BY <1>2, Zenon DEF Present
  <2> QED
    BY <2>1, <2>2
<1>5. ASSUME NEW n \in N PROVE NodesAt(at[n]) = {n} /\ at[n] \in P
  <2>1. at[n] \in Seq(Proper) /\ (n # ROOT => at[n] \in Paths)
    BY Places
  <2>2. NodesAt(at[n]) = {n}
    <3>1. NodesAt(at[n]) = {m \in N : at[m] = at[n]}
      BY <1>1, <2>1
    <3> QED
      BY <1>3, <3>1
  <2>3. at[n] = <<>> \/ (at[n] \in Paths /\ NodesAt(at[n]) # {})
    BY <1>3, <2>1, <2>2
  <2> QED
    BY <1>2, <2>2, <2>3, Zenon DEF Present
<1>6. ASSUME NEW p \in P PROVE \E n \in N : at[n] = p
  <2>1. NodesAt(p) = {n \in N : at[n] = p}
    BY <1>1, <1>4
  <2> QED
    BY <1>3, <1>4, <2>1
<1>7. \A p \in P : \E n \in N : NodesAt(p) = {n}
  BY <1>5, <1>6
<1>8. Nodes = N
  <2>1. \A n : n \in Nodes <=> \E p \in P : n \in NodesAt(p)
    BY <1>2, Zenon DEF Nodes
  <2>2. \A n \in N : n \in Nodes
    BY <1>5, <2>1
  <2>3. ASSUME NEW n \in Nodes PROVE n \in N
    <3>1. PICK p \in P : n \in NodesAt(p)
      BY <2>1
    <3> QED
      BY <1>1, <1>4, <3>1
  <2> QED
    BY <2>2, <2>3
<1>9. Cardinality(P) = Cardinality(N)
  <2>1. IsFiniteSet(N)
    <3>1. N \subseteq Blocks
      BY TreeNodes
    <3> QED
      BY <3>1, BlocksFinite, FS_Subset
  <2>2. at \in Bijection(N, P)
    <3>1. at \in [N -> P]
      <4>1. at = [n \in N |-> at[n]]
        BY DEF Rooted
      <4> QED
        BY <1>5, <4>1
    <3> QED
      BY <1>3, <1>6, <3>1 DEF Bijection, Injection, Surjection, IsInjective
  <2>3. ExistsBijection(N, P)
    BY <2>2 DEF ExistsBijection
  <2> QED
    BY <2>1, <2>3, FS_Bijection
<1> QED
  BY <1>2, <1>7, <1>8, <1>9

\* What writes to block devices keep is counted up to the bound.
LEMMA BlkdevCounted ==
  Spec => [](blkdev \in 0 .. MaxBlkdev)
<1>1. MaxBlkdev \in Nat
  BY RlFsAssumption, Zenon
<1>2. Init => blkdev \in 0 .. MaxBlkdev
  BY <1>1 DEF Init
<1>3. blkdev \in 0 .. MaxBlkdev /\ [Next]_vars => (blkdev \in 0 .. MaxBlkdev)'
  <2> SUFFICES ASSUME blkdev \in 0 .. MaxBlkdev, [Next]_vars
               PROVE  blkdev' \in 0 .. MaxBlkdev
    OBVIOUS
  <2>1. blkdev' = blkdev \/ (blkdev < MaxBlkdev /\ blkdev' = blkdev + 1)
    BY Zenon DEF Next, blkdev_write, vars
  <2> QED
    BY <1>1, <2>1
<1> QED
  BY <1>2, <1>3, PTL DEF Spec

\* Names stay in use once, inodes stay of a kind and of a size, and FILEs on them,
\* after any creations, writes and removals.
THEOREM TreeStaysSound ==
  ASSUME Abuses = {}, PlainPaths
  PROVE  Spec => []TreeSound
<1>1. ASSUME FsInv, blkdev \in 0 .. MaxBlkdev PROVE TreeSound
  <2>1. PICK N : Whole(fs, N) /\ Stand(files, fs, N) /\ Placed(fs, N) /\ fs.kept = 0
    BY <1>1 DEF FsInv
  <2>2. PICK own : Tree(fs, N, own, N, Singles(fs.disk, N))
    BY <2>1 DEF Whole
  <2>3. PICK at : Rooted(fs.disk, N, at)
    BY <2>1 DEF Placed
  <2>4. /\ Nodes = N /\ \A p \in Present : \E n \in N : NodesAt(p) = {n}
        /\ Cardinality(Nodes) = Cardinality(Present)
    BY <2>2, <2>3, PathsPlaced
  <2>5. OneNode
    BY <2>4, FS_Singleton DEF OneNode
  <2>6. PICK D : D = fs.disk
    OBVIOUS
  <2>7. MaxSize \in Nat /\ MaxEntries \in Nat /\ MaxEntries >= 2
    BY RlFsAssumption, Zenon
  <2>8. ASSUME NEW n \in N
        PROVE  /\ DOMAIN D[n] = {"mode", "size", "index"} /\ D[n].mode \in {"REG", "DIR", "DEV"}
               /\ D[n].size \in 0 .. MaxSize \cup 0 .. MaxEntries \cup 0 .. UNITS
               /\ D[n].mode # "DEV" => D[n].size <= Bound(D[n].mode)
    <3>1. IsNode(D[n]) /\ D[n].size \in Nat /\ D[n].mode \in {"REG", "DIR", "DEV"} /\ Shape(D, N)
      BY <2>2, <2>6, TreeNodes DEF Tree
    <3>2. DOMAIN D[n] = {"mode", "size", "index"}
      <4>1. D[n] = [mode |-> D[n].mode, size |-> D[n].size, index |-> D[n].index]
        BY <3>1 DEF IsNode
      <4>2. DOMAIN [mode |-> D[n].mode, size |-> D[n].size, index |-> D[n].index]
              = {"mode", "size", "index"}
        OBVIOUS
      <4> QED
        BY <4>1, <4>2
    <3>3. /\ D[n].mode = "DEV" => D[n].size <= UNITS
          /\ D[n].mode # "DEV" => D[n].size <= Bound(D[n].mode)
      BY <3>1 DEF Shape
    <3> QED
      BY <3>1, <3>2, <3>3, <2>7, Sizings DEF Bound
  <2>9. fs.marked \subseteq Blocks /\ DOMAIN fs.disk = Blocks /\ fs.kept \in Nat
    <3>1. Formatted(fs.marked, fs.disk)
      BY <2>2 DEF Tree, Laid, Layout
    <3> QED
      BY <2>1, <3>1 DEF Formatted
  <2>10. ASSUME NEW f \in FILEs, files[f] # NoFile
        PROVE  files[f].node \in N /\ files[f].pos \in 0 .. MaxSize \cup 0 .. MaxEntries
    <3>1. PICK F, n : F = files[f] /\ n = F.node
      OBVIOUS
    <3>2. Stands(F, fs, N)
      BY <2>1, <2>10, <3>1 DEF Stand
    <3>3. /\ n \in N /\ F.pos \in Nat /\ (D[n].mode # "DEV" => F.pos <= D[n].size)
          /\ (D[n].mode = "DEV" => F.pos <= 1)
      BY <2>6, <3>1, <3>2 DEF Stands
    <3>4. D[n].size \in Nat
      BY <2>2, <2>6, <3>3, TreeNodes
    <3>5. (D[n].mode # "DEV" => F.pos <= Bound(D[n].mode))
      BY <2>8, <2>7, <3>3, <3>4 DEF Bound
    <3> QED
      BY <2>7, <3>1, <3>3, <3>5 DEF Bound
  <2> QED
    BY <1>1, <2>4, <2>5, <2>6, <2>8, <2>9, <2>10 DEF TreeSound, FsTypeOK
<1>2. Spec => []FsInv
  BY FsInvHolds
<1> QED
  BY <1>1, <1>2, BlkdevCounted, PTL

\* The programs see what the disk shows.
LEMMA ShownIs ==
  /\ \A p : Shown(p) = ShownOn(fs, p)
  /\ \A p : Shown(p)' = ShownOn(fs', p)
<1>1. \A p : Shown(p) = ShownOn(fs, p)
  BY Zenon DEF Shown, ShownOn, NodesAt, Reached
<1>2. \A p : Shown(p)' = ShownOn(fs', p)
  BY Zenon DEF Shown, ShownOn, NodesAt, Reached, UnitAt, UnitsOf, BlockAt, Named
<1> QED
  BY <1>1, <1>2

\* The file system is a store of files that do not touch each other: every call
\* changes what one path shows, as the store would, or nothing.
THEOREM FilesAreAStore ==
  ASSUME Abuses = {}, PlainPaths
  PROVE  Spec => IsFileStore
<1>1. Init => Store!Init
  <2> SUFFICES ASSUME Init PROVE Store!Init
    OBVIOUS
  <2>1. PICK z, N, at : z = fs /\ N = {ROOT} /\ at = [n \in {ROOT} |-> <<>>]
    OBVIOUS
  <2>2. Rooted(z.disk, N, at)
    BY <2>1, FsInvStarts
  <2>3. PICK own : Tree(z, N, own, N, Singles(z.disk, N))
    <3>1. ~Full(fs_mkfs)
      BY DiskAssumption, RoomLeft
    <3> QED
      BY <2>1, <3>1, MkfsWhole DEF Init, Whole
  <2>4. Shows(Seen(z), z.disk, N, at)
    BY <2>2, <2>3, SeenShows
  <2>5. \A p \in Paths : p # <<>>
    BY DEF PlainPaths
  <2>6. \A p \in Paths : Seen(z)[p] = Store!Absent
    BY <2>1, <2>4, <2>5 DEF Shows
  <2>7. \A p \in Paths : Shown(p) = Store!Absent
    BY <2>1, <2>6, ShownIs DEF Seen
  <2>8. [p \in Paths |-> Shown(p)] = [p \in Paths |-> Store!Absent]
    BY <2>7
  <2> QED
    BY <2>8, Zenon DEF Store!Init
<1>2. FsInv /\ [Next]_vars => Store!Next
  <2> SUFFICES ASSUME FsInv, [Next]_vars PROVE Store!Next
    OBVIOUS
  <2>1. Calls(Seen(fs), Seen(fs'))
    BY FsInvStep DEF Stepped
  <2>2. [p \in Paths |-> Shown(p)] = Seen(fs)
    BY ShownIs, Zenon DEF Seen
  <2>3. [p \in Paths |-> Shown(p)]' = Seen(fs')
    BY ShownIs, Zenon DEF Seen
  <2> QED
    BY <2>1, <2>2, <2>3, Zenon DEF Calls, Store!Next
<1>3. Spec => []FsInv
  BY FsInvHolds
<1> QED
  BY <1>1, <1>2, <1>3, PTL DEF Spec, IsFileStore, Store!Spec

=============================================================================
