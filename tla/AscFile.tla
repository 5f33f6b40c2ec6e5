------------------------------ MODULE AscFile ------------------------------
(***************************************************************************)
(* ASCII disk I/O on one channel: _rdasc, _wrtasc, the part of _filesz     *)
(* that looks for the end of the text, and the ^Z that close writes.       *)
(* Everything goes through the buffer, a character at a time.  A sector    *)
(* above the high water mark is started with whatever the buffer holds,    *)
(* and the text on the disk has no end until close marks it.               *)
(***************************************************************************)
EXTENDS Ccb, SequencesExt, FiniteSets

CONSTANTS
  CR, LF, EOFCHAR,  \* return, newline and ^Z
  Rewinds           \* does the program go back, or read, in a file it is writing?

ASSUME AscFileAssumption == {CR, LF, EOFCHAR} \subseteq Byte /\ Rewinds \in BOOLEAN

-----------------------------------------------------------------------------
(* _rdasc, one sector of it at a time. *)

(* "All Return chars are eliminated (and not counted) from input."         *)
Kept(text) == SelectSeq(text, LAMBDA c : c # CR)

(* The characters of the buffer from p up to q, q excluded. *)
InBuffer(f, p, q) == [j \in 1 .. q - p |-> f.buffer[p + j - 1]]

(* On to the end of the sector, a ^Z, or the last character asked for.     *)
Scan(c) ==
  LET p == c.fp.offset % SECSIZ
      Got(q)   == Kept(InBuffer(c.fp, p, q))
      Stops(q) == q = SECSIZ \/ c.fp.buffer[q] = EOFCHAR \/ Len(Got(q)) = c.left
      q == CHOOSE q \in p .. SECSIZ : Stops(q) /\ \A r \in p .. q - 1 : ~Stops(r)
      t == [c EXCEPT !.moved = @ \o Got(q),
                     !.left = @ - Len(Got(q)),
                     !.fp.offset = @ + (q - p)]
  IN  IF t.left > 0 /\ q < SECSIZ
      THEN Return(RaiseHiwater([t EXCEPT !.fp.flags = @ \cup {"ATEOF"}]))
      ELSE t

ReadSector(c, bad) ==
  LET s == c.fp.offset \div SECSIZ
  IN  IF c.done                 THEN c
      ELSE IF c.left = 0        THEN Return(RaiseHiwater(c))
      ELSE IF c.fp.sector = s   THEN Scan(c)
      ELSE IF ~CanFlush(c, bad) THEN Fail(c)
      ELSE IF s \notin DOMAIN FlushedDisk(c)
           THEN Return([Flush(c) EXCEPT !.fp.flags = @ \cup {"ATEOF"}])
      ELSE Scan(Load(Flush(c), s))

(* Enough rounds for the whole file and the end of the loop. *)
Rounds == MaxSector + 3

RdAsc(n, bad) ==
  LET C[k \in 0 .. Rounds] == IF k = 0 THEN Begin(n) ELSE ReadSector(C[k - 1], bad)
  IN  C[Rounds]

-----------------------------------------------------------------------------
(* _wrtasc.  What it puts on the disk: the caller's characters (own) and   *)
(* the returns it inserts.                                                 *)

NeedsReturn(data, j) == data[j] = LF /\ (j = 1 \/ data[j - 1] # CR)

Stream(data) ==
  FlattenSeq([j \in 1 .. Len(data) |->
    LET c == [char |-> data[j], own |-> TRUE]
    IN  IF NeedsReturn(data, j) THEN <<[char |-> CR, own |-> FALSE], c>> ELSE <<c>>])

(* "at" characters of the stream are in the file, or in the buffer. *)
BeginWrite(f, data) ==
  [fp |-> f, disk |-> disk, src |-> Stream(data), at |-> 0, done |-> FALSE, ok |-> TRUE,
   ret |-> 0]

(* How many of the caller's characters are among the first k? *)
Consumed(src, k) == Cardinality({j \in 1 .. k : src[j].own})

(* Mutant: one sector too far. *)
BelowHiwater_Less(c) == c.fp.offset \div SECSIZ < (c.fp.hiwater - 1) \div SECSIZ

BelowHiwater(c) == c.fp.offset \div SECSIZ <= (c.fp.hiwater - 1) \div SECSIZ

(* Mutant: the first character of this sector counts as written. *)
WrittenBefore_Ahead(c) == Consumed(c.src, c.at + 1)

(* written - xbytes: the count up to the current sector. *)
WrittenBefore(c) == Consumed(c.src, c.at)

(* Characters into the buffer up to its end.  A full buffer is written and *)
(* keeps the dirty bit it had; a sector BDOS refuses, such as the one      *)
(* before the first, ends the call with the count up to that sector.       *)
Fill(c, bad) ==
  LET s == c.fp.offset \div SECSIZ
      p == c.fp.offset % SECSIZ
      k == Least(SECSIZ - p, Len(c.src) - c.at)
      g == [c EXCEPT !.fp.buffer = [i \in 0 .. SECSIZ - 1 |->
                                      IF i \in p .. p + k - 1 THEN c.src[c.at + i - p + 1].char
                                      ELSE @[i]],
                     !.fp.offset = @ + k,
                     !.at = @ + k]
      End(d) == IF d.at = Len(d.src)
                THEN Return(RaiseHiwater([d EXCEPT !.ret = Consumed(d.src, d.at)]))
                ELSE d
  IN  IF p + k < SECSIZ THEN End([g EXCEPT !.fp.flags = @ \cup {"DIRTY"}])
      ELSE IF s \in bad \/ s < 0 THEN Return([g EXCEPT !.ret = WrittenBefore(c)])
      ELSE End([g EXCEPT !.disk = PutSector(@, s, g.fp.buffer)])

WriteSector(c, bad) ==
  LET s == c.fp.offset \div SECSIZ
      f == Flush(c)
  IN  IF c.done                 THEN c
      ELSE IF c.fp.sector = s   THEN Fill(c, bad)
      ELSE IF ~CanFlush(c, bad) THEN Fail(c)
      ELSE IF ~BelowHiwater(f)  THEN Fill([f EXCEPT !.fp.sector = s], bad)
      ELSE IF s \notin DOMAIN f.disk THEN Fail(f)
      ELSE Fill(Load(f, s), bad)

WrtAsc(f, data, bad) ==
  LET C[k \in 0 .. Rounds] == IF k = 0 THEN BeginWrite(f, data) ELSE WriteSector(C[k - 1], bad)
  IN  C[Rounds]

-----------------------------------------------------------------------------
(* Where in a sector does the text end? *)
TextEnd(sec) == CHOOSE p \in 0 .. SECSIZ : /\ p = SECSIZ \/ sec[p] = EOFCHAR
                                           /\ \A q \in 0 .. p - 1 : sec[q] # EOFCHAR

(* _filesz: the high water mark while the buffer is dirty; else the last   *)
(* sector is brought into the buffer and searched for a ^Z.                *)
SizedAs(f, size) ==
  [f EXCEPT !.offset = size, !.hiwater = size, !.flags = @ \cup {"ATEOF"}]

Filesz(f, d) ==
  IF "DIRTY" \in f.flags  THEN SizedAs(f, f.hiwater)
  ELSE IF DOMAIN d = {}   THEN SizedAs(f, 0)
  ELSE LET s == LastSector(d)
           g == IF f.sector = s THEN f ELSE [f EXCEPT !.buffer = d[s], !.sector = s]
       IN  SizedAs(g, s * SECSIZ + TextEnd(g.buffer))

Seeked(f, d, offs, sense) ==
  LET g == IF sense = 2 THEN Filesz(f, d) ELSE f
  IN  MovedTo(g, Target(g, offs, sense))

-----------------------------------------------------------------------------
(* The calls. *)

Answer(op, n, ret, data) == io' = [op |-> op, n |-> n, ret |-> ret, data |-> data]

Read(n, bad) ==
  /\ IsOpen
  /\ Rewinds \/ Refused
  /\ IF "ATEOF" \in fp.flags
     THEN Answer("read", n, 0, <<>>) /\ UNCHANGED <<fp, disk>>
     ELSE LET c == RdAsc(n, bad)
          IN  /\ fp' = c.fp
              /\ disk' = c.disk
              /\ IF c.ok THEN Answer("read", n, Len(c.moved), c.moved)
                         ELSE Answer("read", n, Failure, <<>>)

(* The text, and the ^Z of close behind it, end within the bound. *)
Fits(data) == fp.offset + Len(Stream(data)) < SECSIZ * MaxSector

Write(data, bad) ==
  /\ IsOpen
  /\ Fits(data)
  /\ IF data = <<>> THEN Answer("write", 0, 0, data) /\ UNCHANGED <<fp, disk>>
     ELSE IF Refused
          THEN Answer("write", Len(data), Failure, data) /\ UNCHANGED <<fp, disk>>
     ELSE LET c == WrtAsc(fp, data, bad)
          IN  /\ fp' = c.fp
              /\ disk' = c.disk
              /\ Answer("write", Len(data), IF c.ok THEN c.ret ELSE Failure, data)

LSeek(offs, sense) ==
  /\ IsOpen
  /\ Rewinds \/ Refused \/ sense = 2
  /\ fp' = IF sense \in Senses THEN Seeked(fp, disk, offs, sense) ELSE fp
  /\ Answer("lseek", sense, IF sense \in Senses THEN fp'.offset ELSE Failure, <<>>)
  /\ UNCHANGED disk

FStat ==
  /\ Stats
  /\ IsOpen
  /\ fp' = [Filesz(fp, disk) EXCEPT !.offset = fp.offset]
  /\ Answer("fstat", 0, Filesz(fp, disk).offset, <<>>)
  /\ UNCHANGED disk

Open(mode) ==
  LET f == [Chinit(fp) EXCEPT !.flags = ModeFlags(mode)]
  IN  /\ ~IsOpen
      /\ fp' = Seeked(Seeked(f, disk, 0, 2), disk, 0, 0)
      /\ Answer("open", 0, 0, <<>>)
      /\ UNCHANGED disk

Creat ==
  /\ ~IsOpen
  /\ fp' = [Chinit(fp) EXCEPT !.flags = ModeFlags(WRITE)]
  /\ disk' = [s \in {} |-> Zeros]
  /\ Answer("creat", 0, 0, <<>>)

(* "Have we been seeking?": to the end of the text. *)
AtEnd(f) == IF f.offset < f.hiwater THEN Seeked(f, disk, 0, 2) ELSE f

(* close marks the end of the text, unless the channel is for reading; the *)
(* answer of that write is ignored.                                        *)
Marked(bad) == IF Refused THEN Begin(0) ELSE WrtAsc(AtEnd(fp), <<EOFCHAR>>, bad)

Close(bad) ==
  LET c == Marked(bad)
  IN  /\ IsOpen
      /\ fp' = Chinit(c.fp)
      /\ disk' = IF CanFlush(c, bad) THEN FlushedDisk(c) ELSE c.disk
      /\ Answer("close", 0, IF CanFlush(c, bad) THEN 0 ELSE Failure, <<>>)

(* At the start the file exists and is empty. *)
Init ==
  /\ fp = [flags |-> {}, offset |-> 0, sector |-> -1, hiwater |-> 0, buffer |-> Zeros]
  /\ disk = [s \in {} |-> Zeros]
  /\ io = [op |-> "none", n |-> 0, ret |-> 0, data |-> <<>>]

Next == \/ \E bad \in Faults : \/ \E n \in ReadSizes : Read(n, bad)
                               \/ \E data \in Data : Write(data, bad)
                               \/ Close(bad)
        \/ \E seek \in Seeks : LSeek(seek[1], seek[2])
        \/ FStat
        \/ \E mode \in Modes : Open(mode)
        \/ Creat

Spec == Init /\ [][Next]_vars

-----------------------------------------------------------------------------
(* Properties. *)

(* What write answers is what is in the file: of the caller's characters,  *)
(* returns inserted in front of newlines, so many and in this order, also  *)
(* when BDOS refuses a sector on the way.                                  *)
CountedIsWritten ==
  [][io'.op = "write" /\ io'.ret > 0 =>
       LET src == Stream(io'.data)
       IN  \A j \in 1 .. Len(src), i \in Offset :
             /\ i = fp.offset + j - 1
             /\ Consumed(src, j) <= io'.ret /\ src[j].own
             => (Shown(i))' = src[j].char]_vars

(* What a dirty buffer holds is never dropped by a call about something    *)
(* else: it stays, or reaches the disk, or close answers that it did not.  *)
Touched ==
  CASE io'.op = "write" -> {i \in Offset : i >= fp.offset}
    [] io'.op = "close" -> {i \in Offset : i >= fp.hiwater \/ io'.ret = Failure}
    [] OTHER            -> {}
DirtyKept ==
  [][IsOpen /\ "DIRTY" \in fp.flags =>
       \A i \in Offset \ Touched : i \div SECSIZ = fp.sector => (Shown(i))' = Shown(i)]_vars

(* lseek.c:23, "2 => From the end of the file": a seek to the end finds    *)
(* the end of the text as it was written, and close marks it there.        *)
SeekEndAtEnd ==
  [][io'.op = "lseek" /\ io'.n = 2 => fp'.offset <= fp.hiwater]_vars

(* The text behind the sectors: up to the high water mark while the file   *)
(* is open, up to the first ^Z, or all of it, when it is closed.           *)
Size == SECSIZ * Cardinality(DOMAIN disk)
Closed == CHOOSE i \in 0 .. Size : /\ i = Size \/ Shown(i) = EOFCHAR
                                   /\ \A j \in 0 .. i - 1 : Shown(j) # EOFCHAR
End == IF IsOpen THEN fp.hiwater ELSE Closed

TF == INSTANCE TextFile WITH
        Size    <- ReadSizes,
        content <- [i \in 1 .. End |-> Shown(i - 1)],
        pos     <- fp.offset,
        eof     <- "ATEOF" \in fp.flags
ImplementsTextFile == TF!Spec
=============================================================================
