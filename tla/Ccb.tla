-------------------------------- MODULE Ccb --------------------------------
(***************************************************************************)
(* The channel control block of a disk file, and what binary and ASCII     *)
(* I/O share: the one-sector buffer with its label and dirty bit, _blkio,  *)
(* the high water mark, the arithmetic of lseek, and __chinit.             *)
(*                                                                         *)
(* BDOS is external: a sector that was never written cannot be read, a     *)
(* sector may refuse to be written, and nothing else fails.                *)
(***************************************************************************)
EXTENDS Integers, Sequences

CONSTANTS
  SECSIZ,      \* bytes in a sector (128)
  Byte,        \* the bytes that matter, 0 among them
  None,        \* the byte at an offset the file does not have
  MaxSector,   \* bound: sectors of the file
  ReadSizes,   \* bound: byte counts of reads
  Data,        \* bound: what the program writes, sequences of bytes
  Seeks,       \* bound: the <<offs, sense>> of its lseek calls
  Modes,       \* bound: the modes it opens the file with
  Stats,       \* does it call fstat?
  Faults       \* the sets of sectors BDOS may refuse to write during a call

READ  == 0
WRITE == 1
Failure == -1

ASSUME CcbAssumption ==
  /\ SECSIZ \in Nat \ {0} /\ MaxSector \in Nat
  /\ Byte \subseteq Nat /\ 0 \in Byte /\ None \notin Byte
  /\ ReadSizes \subseteq Nat
  /\ Data \subseteq Seq(Byte)
  /\ Seeks \subseteq Int \X Int
  /\ Modes \subseteq {READ, WRITE}
  /\ Stats \in BOOLEAN
  /\ \A bad \in Faults : bad \subseteq Nat

Flag   == {"OPENED", "ISREAD", "ATEOF", "DIRTY"}
Sector == [0 .. SECSIZ - 1 -> Byte]
Zeros  == [i \in 0 .. SECSIZ - 1 |-> 0]
FCB    == [flags : SUBSET Flag, offset : Nat \cup {-1}, sector : Nat \cup {-1},
           hiwater : Nat, buffer : Sector]

Least(a, b)    == IF a <= b THEN a ELSE b
Greatest(a, b) == IF a >= b THEN a ELSE b

VARIABLES fp,    \* the CCB of the channel
          disk,  \* the sectors of the file that were written
          io     \* the last call: what it was asked and what it answered

vars == <<fp, disk, io>>

-----------------------------------------------------------------------------
(* Sectors on the disk, and _blkio. *)

PutSector(d, s, sec) ==
  [t \in DOMAIN d \cup {s} |-> IF t = s THEN sec ELSE d[t]]

LastSector(d) == CHOOSE s \in DOMAIN d : \A t \in DOMAIN d : t <= s

-----------------------------------------------------------------------------
(* A call in progress: the CCB and the disk as it leaves them, the bytes   *)
(* it has moved, the count still to move, and whether it has returned.     *)

Begin(n) == [fp |-> fp, disk |-> disk, moved |-> <<>>, left |-> n, done |-> FALSE, ok |-> TRUE]

(* Mutant: a failed flush clears the dirty bit all the same. *)
Fail_DropsDirty(c) == [c EXCEPT !.done = TRUE, !.ok = FALSE, !.fp.flags = @ \ {"DIRTY"}]

Fail(c)   == [c EXCEPT !.done = TRUE, !.ok = FALSE]
Return(c) == [c EXCEPT !.done = TRUE]

(* Writing a dirty buffer out, when BDOS allows it. *)
Dirty(c) == "DIRTY" \in c.fp.flags
CanFlush(c, bad) == Dirty(c) => c.fp.sector \notin bad

(* Mutant: the dirty bit is not tested. *)
FlushedDisk_Always(c) == PutSector(c.disk, c.fp.sector, c.fp.buffer)

FlushedDisk(c) == IF Dirty(c) THEN PutSector(c.disk, c.fp.sector, c.fp.buffer) ELSE c.disk
Flush(c) == [c EXCEPT !.disk = FlushedDisk(c), !.fp.flags = @ \ {"DIRTY"}]

(* Mutant: the buffer keeps its old label. *)
Load_NoLabel(c, s) == [c EXCEPT !.fp.buffer = c.disk[s]]

(* The sector s read into the buffer, and the buffer labelled. *)
Load(c, s) == [c EXCEPT !.fp.buffer = c.disk[s], !.fp.sector = s]

(* Mutant: the high water mark stays. *)
RaiseHiwater_Never(c) == c

RaiseHiwater(c) == [c EXCEPT !.fp.hiwater = Greatest(c.fp.hiwater, c.fp.offset)]

-----------------------------------------------------------------------------
(* lseek's arithmetic for the senses 0, 1 and 2; another is EINVAL and     *)
(* moves nothing.                                                          *)
Senses == {0, 1, 2}
Target(f, offs, sense) == CASE sense = 0 -> offs
                            [] sense = 1 -> f.offset + offs
                            [] sense = 2 -> f.hiwater + offs

(* Mutant: the end of file stays set. *)
MovedTo_KeepsEof(f, to) == [f EXCEPT !.offset = IF to < 0 THEN -1 ELSE to]

MovedTo(f, to) == [f EXCEPT !.offset = IF to < 0 THEN -1 ELSE to, !.flags = @ \ {"ATEOF"}]

(* Mutant: the flags are not cleared. *)
Chinit_KeepsFlags(f) == [f EXCEPT !.offset = 0, !.sector = -1, !.hiwater = 0]

(* __chinit leaves the buffer alone. *)
Chinit(f) == [f EXCEPT !.flags = {}, !.offset = 0, !.sector = -1, !.hiwater = 0]

(* The flags _open and _creat give a file. *)
ModeFlags(mode) == {"OPENED"} \cup (IF mode = READ THEN {"ISREAD"} ELSE {})

IsOpen == "OPENED" \in fp.flags

(* Mutant: the access is not checked. *)
Refused_Never == FALSE

(* write.c: a channel opened for reading is not written. *)
Refused == "ISREAD" \in fp.flags

-----------------------------------------------------------------------------
(* Properties of the buffer that hold of both kinds of file. *)

(* Every variable keeps its type (osif.h: struct ccb). *)
DiskOK(d) == /\ DOMAIN d \subseteq Nat
             /\ d = [s \in DOMAIN d |-> d[s]]
             /\ \A s \in DOMAIN d : d[s] \in Sector
TypeOK == fp \in FCB /\ DiskOK(disk)

(* A dirty buffer always belongs somewhere: it is labelled with a sector   *)
(* of the file, on a channel that is open and may be written.  The flag,   *)
(* the label and the access are set at different places of the readers,    *)
(* the writers and lseek, each of which writes the buffer out on trust.    *)
DirtyOwned == "DIRTY" \in fp.flags => /\ fp.sector \in Nat
                                      /\ IsOpen
                                      /\ "ISREAD" \notin fp.flags

(* The sectors above the high water mark do not exist: the writers start   *)
(* one there without reading it (writebin.c:58, writeasc.c:59), and would  *)
(* wipe out what it held.                                                  *)
HiwaterCovers ==
  IsOpen => \A s \in DOMAIN disk \cup (IF "DIRTY" \in fp.flags THEN {fp.sector} ELSE {}) :
              s <= (fp.hiwater - 1) \div SECSIZ

(* osif.h:77, "Sector currently in buffer": a clean buffer holds what the  *)
(* disk has of the sector it is labelled with.                             *)
BufferCoherent ==
  IsOpen /\ fp.sector >= 0 /\ "DIRTY" \notin fp.flags
    => fp.sector \in DOMAIN disk /\ disk[fp.sector] = fp.buffer

(* The file as the channel shows it: the dirty buffer over the disk. *)
Shown(i) == LET s == i \div SECSIZ
            IN  IF "DIRTY" \in fp.flags /\ fp.sector = s THEN fp.buffer[i % SECSIZ]
                ELSE IF s \in DOMAIN disk THEN disk[s][i % SECSIZ]
                ELSE None
Offset == 0 .. SECSIZ * MaxSector - 1
=============================================================================
