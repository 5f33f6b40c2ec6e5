------------------------------ MODULE BinFile ------------------------------
(***************************************************************************)
(* Binary disk I/O on one channel: _rdbin, _wrtbin, lseek, _filesz, fstat, *)
(* and what open, creat and close do to the buffer.  The buffer of the CCB *)
(* holds one sector of the file; requests that cover whole sectors go past *)
(* it, straight between the caller's memory and the disk.                  *)
(*                                                                         *)
(* Each call is one step: CP/M runs nothing else meanwhile.  FILSIZ counts *)
(* up to the last sector written.                                          *)
(***************************************************************************)
EXTENDS Ccb

CONSTANTS
  UWord        \* values of a UWORD (65536)

ASSUME BinFileAssumption == UWord \in Nat \ {0}

-----------------------------------------------------------------------------
(* _blkio, for several sectors. *)

(* Mutant: every sector gets the first bytes. *)
PutSectors_First(d, s, n, src) ==
  [t \in DOMAIN d \cup (s .. s + n - 1) |->
     IF t \in s .. s + n - 1 THEN [i \in 0 .. SECSIZ - 1 |-> src[i + 1]] ELSE d[t]]

(* n sectors from s on, out of the bytes src[1], src[2], ...               *)
PutSectors(d, s, n, src) ==
  [t \in DOMAIN d \cup (s .. s + n - 1) |->
     IF t \in s .. s + n - 1
     THEN [i \in 0 .. SECSIZ - 1 |-> src[(t - s) * SECSIZ + i + 1]]
     ELSE d[t]]

(* _blkio goes sector by sector and stops at the first BDOS refuses: how   *)
(* many of the n from s on does it transfer, when "good" are those it can? *)
Transferred(s, n, good) ==
  CHOOSE k \in 0 .. n : /\ s .. s + k - 1 \subseteq good
                        /\ k = n \/ s + k \notin good

(* The k bytes of a sector from position p on. *)
Bytes(sec, p, k) == [j \in 1 .. k |-> sec[p + j - 1]]

(* n sectors of the disk, as bytes. *)
DiskBytes(d, s, n) ==
  [j \in 1 .. n * SECSIZ |-> d[s + (j - 1) \div SECSIZ][(j - 1) % SECSIZ]]

-----------------------------------------------------------------------------
(* _rdbin: up to a sector boundary through the buffer, then whole sectors  *)
(* straight to the caller, then the rest through the buffer.               *)

(* Mutant: the offset stays. *)
Take_Stays(c, p) ==
  LET k == Least(c.left, SECSIZ - p)
  IN  [c EXCEPT !.moved = @ \o Bytes(c.fp.buffer, p, k), !.left = @ - k]

(* Bytes out of the buffer, from its position p on.                        *)
Take(c, p) ==
  LET k == Least(c.left, SECSIZ - p)
  IN  [c EXCEPT !.moved = @ \o Bytes(c.fp.buffer, p, k),
                !.fp.offset = @ + k,
                !.left = @ - k]

ReadHead(c, bad) ==
  LET s == c.fp.offset \div SECSIZ
      p == c.fp.offset % SECSIZ
      Got(d) == LET t == Take(d, p)
                IN  IF t.left = 0 THEN Return(RaiseHiwater(t)) ELSE t
  IN  IF p = 0                        THEN c
      ELSE IF c.fp.sector = s         THEN Got(c)
      ELSE IF ~CanFlush(c, bad)       THEN Fail(c)
      ELSE IF s \notin DOMAIN FlushedDisk(c) THEN Fail(Flush(c))
      ELSE Got(Load(Flush(c), s))

ReadDirect(c) ==
  LET s == c.fp.offset \div SECSIZ
      nsector == c.left \div SECSIZ
      i == Transferred(s, nsector, DOMAIN c.disk)
      t == RaiseHiwater([c EXCEPT !.moved = @ \o DiskBytes(c.disk, s, i),
                                  !.fp.offset = @ + i * SECSIZ,
                                  !.left = @ - i * SECSIZ])
  IN  IF c.done            THEN c
      ELSE IF i # nsector  THEN Return([t EXCEPT !.fp.flags = @ \cup {"ATEOF"}])
      ELSE IF t.left = 0   THEN Return(t)
      ELSE t

(* Mutant: a sector that is not there is an error, not the end of file. *)
ReadTail_Error(c, bad) ==
  LET s == c.fp.offset \div SECSIZ
      f == Flush(c)
  IN  IF c.done THEN c
      ELSE IF ~CanFlush(c, bad) \/ s \notin DOMAIN f.disk THEN Fail(c)
      ELSE Return(RaiseHiwater(Take(Load(f, s), 0)))

ReadTail(c, bad) ==
  LET s == c.fp.offset \div SECSIZ
      f == Flush(c)
  IN  IF c.done                  THEN c
      ELSE IF ~CanFlush(c, bad)  THEN Fail(c)
      ELSE IF s \notin DOMAIN f.disk
           THEN Return([f EXCEPT !.fp.flags = @ \cup {"ATEOF"}])
      ELSE Return(RaiseHiwater(Take(Load(f, s), 0)))

(* The parts one after the other, as sets of one, for TLC to compute once. *)
RdBin(n, bad) ==
  LET head   == {ReadHead(Begin(n), bad)}
      direct == {ReadDirect(c) : c \in head}
  IN  CHOOSE c \in {ReadTail(d, bad) : d \in direct} : TRUE

-----------------------------------------------------------------------------
(* _wrtbin.  Its counters are UWORDs; xsector is kept apart from the       *)
(* offset, as in the code.  "sent" is how far the pointer to the caller's  *)
(* data has moved.                                                         *)

U(x) == x % UWord

BeginWrite(data) ==
  [fp |-> fp, disk |-> disk, data |-> data, sent |-> 0, left |-> Len(data),
   xsector |-> U(fp.offset \div SECSIZ), done |-> FALSE, ok |-> TRUE]

(* Mutant: OFFSECT >= HIWSECT. *)
AboveHiwater_Equal(c) == c.fp.offset \div SECSIZ >= (c.fp.hiwater - 1) \div SECSIZ

(* OFFSECT > HIWSECT: is the current sector above the high water mark?     *)
AboveHiwater(c) == c.fp.offset \div SECSIZ > (c.fp.hiwater - 1) \div SECSIZ

(* The buffer gets the sector xsector: zeros, or what the disk has of it.  *)
Label(c)     == [c EXCEPT !.fp.flags = @ \ {"DIRTY"}, !.fp.sector = c.xsector]
Zeroed(c)    == [c EXCEPT !.fp.buffer = Zeros]
Preread(c)   == [c EXCEPT !.fp.buffer = c.disk[c.xsector]]

WriteLabel(c, bad) ==
  LET f == [c EXCEPT !.disk = FlushedDisk(c)]
  IN  IF c.fp.sector = c.xsector  THEN c
      ELSE IF ~CanFlush(c, bad)   THEN Fail(c)
      ELSE IF AboveHiwater(c)     THEN Label(Zeroed(f))
      ELSE IF c.xsector \notin DOMAIN f.disk THEN Fail(f)
      ELSE Label(Preread(f))

(* Mutant: the pointer to the caller's data stays. *)
Give_Unmoved(c, p, n) ==
  [c EXCEPT !.fp.buffer = [i \in 0 .. SECSIZ - 1 |->
                             IF i \in p .. p + n - 1 THEN c.data[c.sent + i - p + 1] ELSE @[i]],
            !.fp.offset = @ + n,
            !.left = @ - n]

(* n bytes of the caller into the buffer at p; the buffer has no more room *)
(* than SECSIZ - p, and what would go past it is not part of the model.    *)
Give(c, p, n) ==
  [c EXCEPT !.fp.buffer = [i \in 0 .. SECSIZ - 1 |->
                             IF i \in p .. p + n - 1 THEN c.data[c.sent + i - p + 1] ELSE @[i]],
            !.fp.offset = @ + n,
            !.sent = @ + n,
            !.left = @ - n]

(* How much goes through the buffer first: nothing when an aligned request *)
(* has whole sectors to move.                                              *)
Buffered(c, p) == IF SECSIZ - p > c.left THEN c.left
                  ELSE IF p = 0 THEN 0
                  ELSE SECSIZ - p

WriteHead(c, bad) ==
  LET p   == c.fp.offset % SECSIZ
      nbs == Buffered(c, p)
      g   == Give(c, p, nbs)
  IN  IF c.done \/ nbs = 0       THEN c
      ELSE IF p + nbs # SECSIZ
           THEN [g EXCEPT !.fp.flags = @ \cup {"DIRTY"}, !.fp.sector = c.xsector]
      ELSE IF c.xsector \in bad  THEN Fail(g)
      ELSE [g EXCEPT !.disk = PutSector(c.disk, c.xsector, g.fp.buffer),
                     !.fp.flags = @ \ {"DIRTY"}, !.fp.sector = -1,
                     !.xsector = U(@ + 1)]

(* Whole sectors go from the caller's data to the disk; the buffer is left *)
(* as it is.                                                               *)
WriteDirect(c, bad) ==
  LET nsector == U(c.left \div SECSIZ)
      k   == Transferred(c.xsector, nsector, Nat \ bad)
      nbs == U(nsector * SECSIZ)
      d   == [c EXCEPT !.disk = PutSectors(@, c.xsector, k,
                                  [j \in 1 .. k * SECSIZ |-> c.data[c.sent + j]])]
  IN  IF c.done \/ c.left < SECSIZ THEN c
      ELSE IF k # nsector          THEN Fail(d)
      ELSE [d EXCEPT !.fp.offset = @ + nbs, !.sent = @ + nbs, !.left = @ - nbs,
                     !.xsector = U(@ + nsector)]

WriteTail(c) ==
  LET Last(d) == [Give(d, 0, d.left) EXCEPT !.fp.flags = @ \cup {"DIRTY"},
                                            !.fp.sector = c.xsector]
  IN  IF c.done \/ c.left = 0  THEN c
      ELSE IF AboveHiwater(c)  THEN Last(Zeroed(c))
      ELSE IF c.xsector \notin DOMAIN c.disk THEN Fail(c)
      ELSE Last(Preread(c))

WriteEnd(c) == IF c.done THEN c ELSE RaiseHiwater(Return(c))

WrtBin(data, bad) ==
  LET labelled == {WriteLabel(BeginWrite(data), bad)}
      head     == {WriteHead(c, bad) : c \in labelled}
      direct   == {WriteDirect(c, bad) : c \in head}
      tail     == {WriteTail(c) : c \in direct}
  IN  CHOOSE c \in {WriteEnd(d) : d \in tail} : TRUE

-----------------------------------------------------------------------------
(* _filesz: the hiwater mark while the buffer is dirty, else what BDOS     *)
(* says.  It moves the offset there and leaves ATEOF set.                  *)
FileSize(f, d) ==
  IF "DIRTY" \in f.flags THEN f.hiwater
  ELSE IF DOMAIN d = {} THEN 0
  ELSE SECSIZ * (1 + LastSector(d))

Filesz(f, d) == LET size == FileSize(f, d)
                IN  [f EXCEPT !.offset = size, !.hiwater = size, !.flags = @ \cup {"ATEOF"}]

Seeked(f, d, offs, sense) ==
  LET g == IF sense = 2 THEN Filesz(f, d) ELSE f
  IN  MovedTo(g, Target(g, offs, sense))

-----------------------------------------------------------------------------
(* The calls.  Those on a channel that is not open answer EBADF and change *)
(* nothing (module Channels).                                              *)

Answer(op, n, ret, data) == io' = [op |-> op, n |-> n, ret |-> ret, data |-> data]

Read(n, bad) ==
  /\ IsOpen
  /\ IF "ATEOF" \in fp.flags
     THEN Answer("read", n, 0, <<>>) /\ UNCHANGED <<fp, disk>>
     ELSE \E c \in {RdBin(n, bad)} :
              /\ fp' = c.fp
              /\ disk' = c.disk
              /\ IF c.ok THEN Answer("read", n, Len(c.moved), c.moved)
                         ELSE Answer("read", n, Failure, <<>>)

(* The caller's data ends within the bound on the file.                    *)
Fits(n) == fp.offset + n <= SECSIZ * MaxSector

Write(data, bad) ==
  /\ IsOpen
  /\ Fits(Len(data))
  /\ IF data = <<>> THEN Answer("write", 0, 0, data) /\ UNCHANGED <<fp, disk>>
     ELSE IF Refused
          THEN Answer("write", Len(data), Failure, data) /\ UNCHANGED <<fp, disk>>
     ELSE \E c \in {WrtBin(data, bad)} :
              /\ fp' = c.fp
              /\ disk' = c.disk
              /\ Answer("write", Len(data), IF c.ok THEN U(c.sent) ELSE Failure, data)

LSeek(offs, sense) ==
  /\ IsOpen
  /\ fp' = IF sense \in Senses THEN Seeked(fp, disk, offs, sense) ELSE fp
  /\ fp'.offset <= SECSIZ * MaxSector
  /\ Answer("lseek", 0, IF sense \in Senses THEN fp'.offset ELSE Failure, <<>>)
  /\ UNCHANGED disk

(* fstat puts the offset back; it answers st_size. *)
FStat ==
  /\ Stats
  /\ IsOpen
  /\ fp' = [Filesz(fp, disk) EXCEPT !.offset = fp.offset]
  /\ Answer("fstat", 0, FileSize(fp, disk), <<>>)
  /\ UNCHANGED disk

(* _open of a file that exists: __chinit, then lseek to the end and back.  *)
Open(mode) ==
  LET f == [Chinit(fp) EXCEPT !.flags = ModeFlags(mode)]
  IN  /\ ~IsOpen
      /\ fp' = Seeked(Seeked(f, disk, 0, 2), disk, 0, 0)
      /\ Answer("open", 0, 0, <<>>)
      /\ UNCHANGED disk

(* creatb: BDOS deletes the file and makes an empty one. *)
Creat ==
  /\ ~IsOpen
  /\ fp' = [Chinit(fp) EXCEPT !.flags = ModeFlags(WRITE)]
  /\ disk' = [s \in {} |-> Zeros]
  /\ Answer("creat", 0, 0, <<>>)

(* close frees the channel also when its last write fails. *)
Close(bad) ==
  LET c == Begin(0)
  IN  /\ IsOpen
      /\ fp' = Chinit(fp)
      /\ disk' = IF CanFlush(c, bad) THEN FlushedDisk(c) ELSE disk
      /\ Answer("close", 0, IF CanFlush(c, bad) THEN 0 ELSE Failure, <<>>)

(* At the start the file exists and is empty. *)
Init ==
  /\ fp = [flags |-> {}, offset |-> 0, sector |-> -1, hiwater |-> 0, buffer |-> Zeros]
  /\ disk = [s \in {} |-> Zeros]
  /\ io = [op |-> "none", n |-> 0, ret |-> 0, data |-> <<>>]

Next == \/ \E bad \in Faults : \/ \E n \in ReadSizes : Read(n, bad)
                               \/ \E data \in Data : Write(data, bad)
                               \/ Close(bad)
        \/ \E seek \in Seeks : LSeek(seek[1], seek[2])
        \/ FStat
        \/ \E mode \in Modes : Open(mode)
        \/ Creat

Spec == Init /\ [][Next]_vars

-----------------------------------------------------------------------------
(* Properties. *)

(* Which bytes the step may change: those a write was asked to replace,    *)
(* all of them when the file is made anew, and those of the dirty buffer   *)
(* when close answers that it could not write it.                          *)
Touched ==
  CASE io'.op = "write" -> fp.offset .. fp.offset + io'.n - 1
    [] io'.op = "creat" -> Offset
    [] io'.op = "close" /\ io'.ret = Failure -> {i \in Offset : i \div SECSIZ = fp.sector}
    [] OTHER            -> {}

Kept(offsets) ==
  \A i \in offsets \ Touched : Shown(i) # None => (Shown(i))' = Shown(i)

(* What a dirty buffer holds is never dropped: it stays in the buffer, or  *)
(* reaches the disk, or close answers that it did not.  The buffer is      *)
(* written out by calls that are about something else, and each has a path *)
(* where BDOS refuses.                                                     *)
DirtyKept ==
  [][IsOpen /\ "DIRTY" \in fp.flags
       => Kept({i \in Offset : i \div SECSIZ = fp.sector})]_vars

(* A channel opened for reading never changes the disk, not even by        *)
(* flushing a buffer (write.c:49 is the only test of ISREAD).              *)
ReadOnlyKept == [][IsOpen /\ "ISREAD" \in fp.flags => disk' = disk]_vars

(* read.c:7, a read delivers the bytes of the file: those the program      *)
(* wrote last, at the offset it was at.  For a program that never writes a *)
(* whole sector, so that all it writes goes through the buffer, they are   *)
(* what Shown says: the bytes of the dirty buffer, laid over the disk.     *)
ReadsWhatIsThere ==
  [][io'.op = "read" =>
       \A j \in 1 .. Len(io'.data) : /\ fp.offset + j - 1 \in Offset
                                     /\ io'.data[j] = Shown(fp.offset + j - 1)]_vars

(* The file behind the sectors: with the buffer laid over the disk a       *)
(* binary channel is a sequence of bytes with an offset.                   *)
BF == INSTANCE ByteFile WITH
        Length  <- SECSIZ * MaxSector,
        Size    <- ReadSizes,
        content <- [i \in Offset |-> Shown(i)],
        pos     <- fp.offset,
        eof     <- "ATEOF" \in fp.flags,
        high    <- fp.hiwater,
        readonly <- "ISREAD" \in fp.flags
ImplementsByteFile == BF!Spec
=============================================================================
