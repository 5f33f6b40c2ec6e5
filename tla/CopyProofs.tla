----------------------------- MODULE CopyProofs ------------------------------
(***************************************************************************)
(* The test program copies its file, whatever its chunks and whichever     *)
(* sectors BDOS refuses: TypeOK, AssertionsHold, Copied and SourceKept.    *)
(*                                                                         *)
(* What the calls do is proved in BinProofs.  It is used three             *)
(* times, for the reader of the file and for the writers of a new file and *)
(* of the same; the first part says that the calls of Copy are the calls   *)
(* that module is about.  CopyInv then says where the program is.          *)
(***************************************************************************)
EXTENDS Copy, TLAPS

SrcP == INSTANCE BinProofs WITH
          fp <- sfp, disk <- sdisk, io <- sio, seeks <- FALSE,
          ReadSizes <- Chunks, Data <- {}, Seeks <- {}, Modes <- {READ, WRITE},
          Stats <- TRUE
NewP == INSTANCE BinProofs WITH
          fp <- dfp, disk <- ddisk, io <- dio, seeks <- FALSE,
          ReadSizes <- Chunks, Data <- {}, Seeks <- {}, Modes <- {READ, WRITE},
          Stats <- TRUE
SameP == INSTANCE BinProofs WITH
          fp <- dfp, disk <- sdisk, io <- dio, seeks <- FALSE,
          ReadSizes <- Chunks, Data <- {}, Seeks <- {}, Modes <- {READ, WRITE},
          Stats <- TRUE

-----------------------------------------------------------------------------
(* The helpers of a read.                                                   *)
LEMMA SrcReadParts ==
  /\ \A c : Src!Fail(c) = SrcP!Fail(c)
  /\ \A c : Src!Return(c) = SrcP!Return(c)
  /\ \A c : Src!RaiseHiwater(c) = SrcP!RaiseHiwater(c)
  /\ \A c : Src!FlushedDisk(c) = SrcP!FlushedDisk(c)
  /\ \A c : Src!Flush(c) = SrcP!Flush(c)
  /\ \A c, bad : Src!CanFlush(c, bad) = SrcP!CanFlush(c, bad)
  /\ \A c, s : Src!Load(c, s) = SrcP!Load(c, s)
  /\ \A c, p : Src!Take(c, p) = SrcP!Take(c, p)
  /\ \A s, n, good : Src!Transferred(s, n, good) = SrcP!Transferred(s, n, good)
  /\ \A d, s, n : Src!DiskBytes(d, s, n) = SrcP!DiskBytes(d, s, n)
BY DEF Src!Fail, Src!Return, Src!RaiseHiwater, Src!Greatest, Src!FlushedDisk,
  Src!Dirty, Src!PutSector, Src!Flush, Src!CanFlush, Src!Load, Src!Take,
  Src!Least, Src!Bytes, Src!Transferred, Src!DiskBytes, SrcP!Fail, SrcP!Return,
  SrcP!RaiseHiwater, SrcP!Greatest, SrcP!FlushedDisk, SrcP!Dirty,
  SrcP!PutSector, SrcP!Flush, SrcP!CanFlush, SrcP!Load, SrcP!Take, SrcP!Least,
  SrcP!Bytes, SrcP!Transferred, SrcP!DiskBytes

LEMMA SrcReadHead == \A c, bad : Src!ReadHead(c, bad) = SrcP!ReadHead(c, bad)
BY SrcReadParts DEF Src!ReadHead, SrcP!ReadHead

LEMMA SrcReadDirect == \A c : Src!ReadDirect(c) = SrcP!ReadDirect(c)
<1> TAKE c
<1> DEFINE s == c.fp.offset \div SECSIZ
           n == c.left \div SECSIZ
           i == Src!Transferred(s, n, DOMAIN c.disk)
           m == [c EXCEPT !.moved = @ \o Src!DiskBytes(c.disk, s, i), !.fp.offset = @ + i * SECSIZ,
                          !.left = @ - i * SECSIZ]
           t == Src!RaiseHiwater(m)
           j == SrcP!Transferred(s, n, DOMAIN c.disk)
           o == [c EXCEPT !.moved = @ \o SrcP!DiskBytes(c.disk, s, j), !.fp.offset = @ + j * SECSIZ,
                          !.left = @ - j * SECSIZ]
           u == SrcP!RaiseHiwater(o)
<1>1. Src!ReadDirect(c) =
        IF c.done THEN c
        ELSE IF i # n THEN Src!Return([t EXCEPT !.fp.flags = @ \cup {"ATEOF"}])
        ELSE IF t.left = 0 THEN Src!Return(t)
        ELSE t
  BY DEF Src!ReadDirect
<1>2. SrcP!ReadDirect(c) =
        IF c.done THEN c
        ELSE IF j # n THEN SrcP!Return([u EXCEPT !.fp.flags = @ \cup {"ATEOF"}])
        ELSE IF u.left = 0 THEN SrcP!Return(u)
        ELSE u
  BY DEF SrcP!ReadDirect
<1>3. i = j
  BY SrcReadParts
<1>4. Src!DiskBytes(c.disk, s, i) = SrcP!DiskBytes(c.disk, s, j)
  BY <1>3, SrcReadParts
<1>5. m = o
  BY <1>3, <1>4
<1>6. t = u
  BY <1>5, SrcReadParts
<1> HIDE DEF s, n, i, m, t, j, o, u
<1> QED
  BY <1>1, <1>2, <1>3, <1>6, SrcReadParts

LEMMA SrcReadTail == \A c, bad : Src!ReadTail(c, bad) = SrcP!ReadTail(c, bad)
BY SrcReadParts DEF Src!ReadTail, SrcP!ReadTail

(* lseek and _filesz, and a CCB that is initialised.                        *)
LEMMA SrcSeeked ==
  /\ \A f, d, offs, sense : Src!Seeked(f, d, offs, sense) = SrcP!Seeked(f, d, offs, sense)
  /\ \A f, d : Src!Filesz(f, d) = SrcP!Filesz(f, d)
  /\ \A f, d : Src!FileSize(f, d) = SrcP!FileSize(f, d)
  /\ \A f : Src!Chinit(f) = SrcP!Chinit(f)
  /\ \A mode : Src!ModeFlags(mode) = SrcP!ModeFlags(mode)
BY DEF Src!Seeked, Src!Filesz, Src!FileSize, Src!LastSector, Src!MovedTo,
  Src!Target, Src!Chinit, Src!ModeFlags, Src!READ, Src!WRITE, Src!Zeros,
  SrcP!Seeked, SrcP!Filesz, SrcP!FileSize, SrcP!LastSector, SrcP!MovedTo,
  SrcP!Target, SrcP!Chinit, SrcP!ModeFlags, SrcP!READ, SrcP!WRITE, SrcP!Zeros

(* The calls on fd. *)
LEMMA SrcReads == \A n : Src!Read(n, {}) <=> SrcP!Read(n, {})
<1> TAKE n
<1>1. Src!RdBin(n, {}) = Src!ReadTail(Src!ReadDirect(Src!ReadHead(Src!Begin(n), {})), {})
  BY DEF Src!RdBin
<1>2. SrcP!RdBin(n, {}) = SrcP!ReadTail(SrcP!ReadDirect(SrcP!ReadHead(SrcP!Begin(n), {})), {})
  BY DEF SrcP!RdBin
<1>3. Src!Begin(n) = SrcP!Begin(n)
  BY DEF Src!Begin, SrcP!Begin
<1>4. Src!RdBin(n, {}) = SrcP!RdBin(n, {})
  BY <1>1, <1>2, <1>3, SrcReadHead, SrcReadDirect, SrcReadTail
<1> QED
  BY <1>4 DEF Src!Read, SrcP!Read, Src!IsOpen, SrcP!IsOpen, Src!Answer, SrcP!Answer, Src!Failure, SrcP!Failure

LEMMA SrcSeeks == \A sense : Src!LSeek(0, sense) <=> SrcP!LSeek(0, sense)
BY SrcSeeked DEF Src!LSeek, Src!Senses, Src!Answer, Src!Failure, Src!IsOpen,
  SrcP!LSeek, SrcP!Senses, SrcP!Answer, SrcP!Failure, SrcP!IsOpen

LEMMA SrcStats == Src!FStat <=> SrcP!FStat
BY SrcSeeked DEF Src!FStat, Src!Answer, Src!IsOpen, SrcP!FStat, SrcP!Answer,
  SrcP!IsOpen

LEMMA SrcOpens == Src!Open(READ) <=> SrcP!Open(READ)
BY SrcSeeked DEF Src!Open, Src!Answer, Src!IsOpen, SrcP!Open, SrcP!Answer,
  SrcP!IsOpen

LEMMA SrcCloses == Src!Close({}) <=> SrcP!Close({})
BY SrcReadParts, SrcSeeked DEF Src!Close, Src!Begin, Src!Answer, Src!IsOpen,
  Src!Failure, SrcP!Close, SrcP!Begin, SrcP!Answer, SrcP!IsOpen, SrcP!Failure

(* The helpers of a write.                                                  *)
LEMMA NewWriteParts ==
  /\ \A c : New!Fail(c) = NewP!Fail(c)
  /\ \A c : New!Return(c) = NewP!Return(c)
  /\ \A c : New!RaiseHiwater(c) = NewP!RaiseHiwater(c)
  /\ \A c : New!FlushedDisk(c) = NewP!FlushedDisk(c)
  /\ \A c, bad : New!CanFlush(c, bad) = NewP!CanFlush(c, bad)
  /\ \A s, n, good : New!Transferred(s, n, good) = NewP!Transferred(s, n, good)
  /\ \A d, s, n, b : New!PutSectors(d, s, n, b) = NewP!PutSectors(d, s, n, b)
  /\ \A d, s, sec : New!PutSector(d, s, sec) = NewP!PutSector(d, s, sec)
  /\ \A x : New!U(x) = NewP!U(x)
  /\ \A c : New!AboveHiwater(c) = NewP!AboveHiwater(c)
  /\ \A c : New!Label(c) = NewP!Label(c)
  /\ \A c : New!Zeroed(c) = NewP!Zeroed(c)
  /\ \A c : New!Preread(c) = NewP!Preread(c)
  /\ \A c, p, n : New!Give(c, p, n) = NewP!Give(c, p, n)
  /\ \A c, p : New!Buffered(c, p) = NewP!Buffered(c, p)
BY DEF New!Fail, New!Return, New!RaiseHiwater, New!Greatest, New!FlushedDisk,
  New!Dirty, New!PutSector, New!CanFlush, New!Transferred, New!PutSectors,
  New!U, New!AboveHiwater, New!Label, New!Zeroed, New!Zeros, New!Preread,
  New!Give, New!Buffered, NewP!Fail, NewP!Return, NewP!RaiseHiwater,
  NewP!Greatest, NewP!FlushedDisk, NewP!Dirty, NewP!PutSector, NewP!CanFlush,
  NewP!Transferred, NewP!PutSectors, NewP!U, NewP!AboveHiwater, NewP!Label,
  NewP!Zeroed, NewP!Zeros, NewP!Preread, NewP!Give, NewP!Buffered

LEMMA NewWriteLabel == \A c, bad : New!WriteLabel(c, bad) = NewP!WriteLabel(c, bad)
BY NewWriteParts DEF New!WriteLabel, NewP!WriteLabel

LEMMA NewWriteHead == \A c, bad : New!WriteHead(c, bad) = NewP!WriteHead(c, bad)
BY SMTT(60) DEF New!Fail, New!PutSector, New!U, New!Give, New!Buffered,
  New!WriteHead, NewP!Fail, NewP!PutSector, NewP!U, NewP!Give, NewP!Buffered,
  NewP!WriteHead

LEMMA NewWriteDirect == \A c, bad : New!WriteDirect(c, bad) = NewP!WriteDirect(c, bad)
BY SMTT(60) DEF New!Fail, New!Transferred, New!PutSectors, New!U,
  New!WriteDirect, NewP!Fail, NewP!Transferred, NewP!PutSectors, NewP!U,
  NewP!WriteDirect

LEMMA NewWriteTail == \A c : New!WriteTail(c) = NewP!WriteTail(c)
BY DEF New!Fail, New!AboveHiwater, New!Zeroed, New!Zeros, New!Preread,
  New!Give, New!WriteTail, NewP!Fail, NewP!AboveHiwater, NewP!Zeroed,
  NewP!Zeros, NewP!Preread, NewP!Give, NewP!WriteTail

LEMMA NewWriteEnd == \A c : New!WriteEnd(c) = NewP!WriteEnd(c)
BY NewWriteParts DEF New!WriteEnd, NewP!WriteEnd

(* lseek and _filesz, and a CCB that is initialised.                        *)
LEMMA NewSeeked ==
  /\ \A f, d, offs, sense : New!Seeked(f, d, offs, sense) = NewP!Seeked(f, d, offs, sense)
  /\ \A f, d : New!Filesz(f, d) = NewP!Filesz(f, d)
  /\ \A f, d : New!FileSize(f, d) = NewP!FileSize(f, d)
  /\ \A f : New!Chinit(f) = NewP!Chinit(f)
  /\ \A mode : New!ModeFlags(mode) = NewP!ModeFlags(mode)
BY DEF New!Seeked, New!Filesz, New!FileSize, New!LastSector, New!MovedTo,
  New!Target, New!Chinit, New!ModeFlags, New!READ, New!WRITE, New!Zeros,
  NewP!Seeked, NewP!Filesz, NewP!FileSize, NewP!LastSector, NewP!MovedTo,
  NewP!Target, NewP!Chinit, NewP!ModeFlags, NewP!READ, NewP!WRITE, NewP!Zeros

(* The calls on fd2, a file just created. *)
LEMMA NewWrites == \A data, bad : New!Write(data, bad) <=> NewP!Write(data, bad)
<1> TAKE data, bad
<1>1. New!WrtBin(data, bad) =
        New!WriteEnd(New!WriteTail(New!WriteDirect(
          New!WriteHead(New!WriteLabel(New!BeginWrite(data), bad), bad), bad)))
  BY DEF New!WrtBin
<1>2. NewP!WrtBin(data, bad) =
        NewP!WriteEnd(NewP!WriteTail(NewP!WriteDirect(
          NewP!WriteHead(NewP!WriteLabel(NewP!BeginWrite(data), bad), bad), bad)))
  BY DEF NewP!WrtBin
<1>3. New!BeginWrite(data) = NewP!BeginWrite(data)
  BY NewWriteParts DEF New!BeginWrite, NewP!BeginWrite
<1>4. New!WrtBin(data, bad) = NewP!WrtBin(data, bad)
  BY <1>1, <1>2, <1>3, NewWriteLabel, NewWriteHead, NewWriteDirect, NewWriteTail, NewWriteEnd
<1>5. \A x : New!U(x) = NewP!U(x)
  BY NewWriteParts
<1>6. /\ New!IsOpen <=> NewP!IsOpen
      /\ New!Refused <=> NewP!Refused
      /\ \A x : New!Fits(x) <=> NewP!Fits(x)
      /\ \A op, x, ret, b : New!Answer(op, x, ret, b) <=> NewP!Answer(op, x, ret, b)
  BY DEF New!IsOpen, New!Refused, New!Fits, New!Answer, NewP!IsOpen,
  NewP!Refused, NewP!Fits, NewP!Answer
<1> QED
  BY <1>4, <1>5, <1>6 DEF New!Write, New!Failure, NewP!Write, NewP!Failure

LEMMA NewTells == New!LSeek(0, 1) <=> NewP!LSeek(0, 1)
BY NewSeeked DEF New!LSeek, New!Senses, New!Answer, New!Failure, New!IsOpen,
  NewP!LSeek, NewP!Senses, NewP!Answer, NewP!Failure, NewP!IsOpen

LEMMA NewOpens == New!Open(READ) <=> NewP!Open(READ)
BY NewSeeked DEF New!Open, New!Answer, New!IsOpen, NewP!Open,
  NewP!Answer, NewP!IsOpen

LEMMA NewCreates == New!Creat <=> NewP!Creat
BY NewSeeked DEF New!Creat, New!Answer, New!IsOpen, New!WRITE, New!Zeros,
  NewP!Creat, NewP!Answer, NewP!IsOpen, NewP!WRITE, NewP!Zeros

LEMMA NewCloses == \A bad : New!Close(bad) <=> NewP!Close(bad)
BY NewWriteParts, NewSeeked DEF New!Close, New!Begin, New!Answer, New!IsOpen,
  New!Failure, NewP!Close, NewP!Begin, NewP!Answer, NewP!IsOpen, NewP!Failure

(* The helpers of a write.                                                  *)
LEMMA SameWriteParts ==
  /\ \A c : Same!Fail(c) = SameP!Fail(c)
  /\ \A c : Same!Return(c) = SameP!Return(c)
  /\ \A c : Same!RaiseHiwater(c) = SameP!RaiseHiwater(c)
  /\ \A c : Same!FlushedDisk(c) = SameP!FlushedDisk(c)
  /\ \A c, bad : Same!CanFlush(c, bad) = SameP!CanFlush(c, bad)
  /\ \A s, n, good : Same!Transferred(s, n, good) = SameP!Transferred(s, n, good)
  /\ \A d, s, n, b : Same!PutSectors(d, s, n, b) = SameP!PutSectors(d, s, n, b)
  /\ \A d, s, sec : Same!PutSector(d, s, sec) = SameP!PutSector(d, s, sec)
  /\ \A x : Same!U(x) = SameP!U(x)
  /\ \A c : Same!AboveHiwater(c) = SameP!AboveHiwater(c)
  /\ \A c : Same!Label(c) = SameP!Label(c)
  /\ \A c : Same!Zeroed(c) = SameP!Zeroed(c)
  /\ \A c : Same!Preread(c) = SameP!Preread(c)
  /\ \A c, p, n : Same!Give(c, p, n) = SameP!Give(c, p, n)
  /\ \A c, p : Same!Buffered(c, p) = SameP!Buffered(c, p)
BY DEF Same!Fail, Same!Return, Same!RaiseHiwater, Same!Greatest,
  Same!FlushedDisk, Same!Dirty, Same!PutSector, Same!CanFlush,
  Same!Transferred, Same!PutSectors, Same!U, Same!AboveHiwater, Same!Label,
  Same!Zeroed, Same!Zeros, Same!Preread, Same!Give, Same!Buffered, SameP!Fail,
  SameP!Return, SameP!RaiseHiwater, SameP!Greatest, SameP!FlushedDisk,
  SameP!Dirty, SameP!PutSector, SameP!CanFlush, SameP!Transferred,
  SameP!PutSectors, SameP!U, SameP!AboveHiwater, SameP!Label, SameP!Zeroed,
  SameP!Zeros, SameP!Preread, SameP!Give, SameP!Buffered

LEMMA SameWriteLabel == \A c, bad : Same!WriteLabel(c, bad) = SameP!WriteLabel(c, bad)
BY SameWriteParts DEF Same!WriteLabel, SameP!WriteLabel

LEMMA SameWriteHead == \A c, bad : Same!WriteHead(c, bad) = SameP!WriteHead(c, bad)
BY SMTT(60) DEF Same!Fail, Same!PutSector, Same!U, Same!Give, Same!Buffered,
  Same!WriteHead, SameP!Fail, SameP!PutSector, SameP!U, SameP!Give,
  SameP!Buffered, SameP!WriteHead

LEMMA SameWriteDirect == \A c, bad : Same!WriteDirect(c, bad) = SameP!WriteDirect(c, bad)
BY SMTT(60) DEF Same!Fail, Same!Transferred, Same!PutSectors, Same!U,
  Same!WriteDirect, SameP!Fail, SameP!Transferred, SameP!PutSectors, SameP!U,
  SameP!WriteDirect

LEMMA SameWriteTail == \A c : Same!WriteTail(c) = SameP!WriteTail(c)
BY DEF Same!Fail, Same!AboveHiwater, Same!Zeroed, Same!Zeros, Same!Preread,
  Same!Give, Same!WriteTail, SameP!Fail, SameP!AboveHiwater, SameP!Zeroed,
  SameP!Zeros, SameP!Preread, SameP!Give, SameP!WriteTail

LEMMA SameWriteEnd == \A c : Same!WriteEnd(c) = SameP!WriteEnd(c)
BY SameWriteParts DEF Same!WriteEnd, SameP!WriteEnd

(* lseek and _filesz, and a CCB that is initialised.                        *)
LEMMA SameSeeked ==
  /\ \A f, d, offs, sense : Same!Seeked(f, d, offs, sense) = SameP!Seeked(f, d, offs, sense)
  /\ \A f, d : Same!Filesz(f, d) = SameP!Filesz(f, d)
  /\ \A f, d : Same!FileSize(f, d) = SameP!FileSize(f, d)
  /\ \A f : Same!Chinit(f) = SameP!Chinit(f)
  /\ \A mode : Same!ModeFlags(mode) = SameP!ModeFlags(mode)
BY DEF Same!Seeked, Same!Filesz, Same!FileSize, Same!LastSector,
  Same!MovedTo, Same!Target, Same!Chinit, Same!ModeFlags, Same!READ,
  Same!WRITE, Same!Zeros, SameP!Seeked, SameP!Filesz, SameP!FileSize,
  SameP!LastSector, SameP!MovedTo, SameP!Target, SameP!Chinit, SameP!ModeFlags,
  SameP!READ, SameP!WRITE, SameP!Zeros

(* The calls on fd2, the file itself. *)
LEMMA SameWrites == \A data, bad : Same!Write(data, bad) <=> SameP!Write(data, bad)
<1> TAKE data, bad
<1>1. Same!WrtBin(data, bad) =
        Same!WriteEnd(Same!WriteTail(Same!WriteDirect(
          Same!WriteHead(Same!WriteLabel(Same!BeginWrite(data), bad), bad), bad)))
  BY DEF Same!WrtBin
<1>2. SameP!WrtBin(data, bad) =
        SameP!WriteEnd(SameP!WriteTail(SameP!WriteDirect(
          SameP!WriteHead(SameP!WriteLabel(SameP!BeginWrite(data), bad), bad), bad)))
  BY DEF SameP!WrtBin
<1>3. Same!BeginWrite(data) = SameP!BeginWrite(data)
  BY SameWriteParts DEF Same!BeginWrite, SameP!BeginWrite
<1>4. Same!WrtBin(data, bad) = SameP!WrtBin(data, bad)
  BY <1>1, <1>2, <1>3, SameWriteLabel, SameWriteHead, SameWriteDirect, SameWriteTail, SameWriteEnd
<1>5. \A x : Same!U(x) = SameP!U(x)
  BY SameWriteParts
<1>6. /\ Same!IsOpen <=> SameP!IsOpen
      /\ Same!Refused <=> SameP!Refused
      /\ \A x : Same!Fits(x) <=> SameP!Fits(x)
      /\ \A op, x, ret, b : Same!Answer(op, x, ret, b) <=> SameP!Answer(op, x, ret, b)
  BY DEF Same!IsOpen, Same!Refused, Same!Fits, Same!Answer, SameP!IsOpen,
  SameP!Refused, SameP!Fits, SameP!Answer
<1> QED
  BY <1>4, <1>5, <1>6 DEF Same!Write, Same!Failure, SameP!Write, SameP!Failure

LEMMA SameTells == Same!LSeek(0, 1) <=> SameP!LSeek(0, 1)
BY SameSeeked DEF Same!LSeek, Same!Senses, Same!Answer, Same!Failure,
  Same!IsOpen, SameP!LSeek, SameP!Senses, SameP!Answer, SameP!Failure,
  SameP!IsOpen

LEMMA SameOpens == Same!Open(WRITE) <=> SameP!Open(WRITE)
BY SameSeeked DEF Same!Open, Same!Answer, Same!IsOpen, SameP!Open,
  SameP!Answer, SameP!IsOpen

LEMMA SameCloses == \A bad : Same!Close(bad) <=> SameP!Close(bad)
BY SameWriteParts, SameSeeked DEF Same!Close, Same!Begin, Same!Answer,
  Same!IsOpen, Same!Failure, SameP!Close, SameP!Begin, SameP!Answer,
  SameP!IsOpen, SameP!Failure

-----------------------------------------------------------------------------
(* Where the program is.  The file has n sectors. *)

(* What never changes: the file, and how it is copied. *)
Settings(n) == /\ SrcP!Image(orig, n) /\ sdisk = orig
               /\ target \in {"new", "there", "same"} /\ chunk \in Chunks

Counters(n) == /\ count \in 0 .. SECSIZ * n /\ count2 \in 0 .. SECSIZ * n
               /\ buf \in Seq(Byte) /\ Len(buf) <= chunk

(* fd: opened, and where in the file. *)
Fd(n) ==
  /\ sfp \in SrcP!FCB
  /\ pc = "open" => sfp.flags = {} /\ count = 0
  /\ pc \notin {"open", "done", "abort"} => SrcP!Reader(sfp, orig, n)
  /\ pc \in {"count", "read", "write"} => SrcP!EndKnown(sfp, n)
  /\ pc = "count" => count = sfp.offset
  /\ pc = "cur" => sfp.offset = SECSIZ * n
  /\ pc \notin {"open", "count"} => count = SECSIZ * n

Writing == {"rewind", "read", "write", "told", "close2"}

(* How fd2 is open: a writer of the new file, or one of the file itself,   *)
(* which it leaves as it is; or a reader of the file that was there.       *)
OpenAs(f, d, n) ==
  /\ target = "new"   => NewP!Writer(f, d, orig, n)
  /\ target = "there" => {"OPENED", "ISREAD"} \subseteq f.flags
  /\ target = "same"  => SameP!Writer(f, orig, orig, n) /\ SameP!Onto(f, orig, orig, n)

(* It is as far as the counter says; when the file was there it is never   *)
(* written to.                                                             *)
Fd2(n) ==
  /\ dfp \in SrcP!FCB
  /\ pc \in {"open", "count", "cur", "set", "end", "stat", "create"}
       => dfp.flags = {} /\ NewP!DiskOK(ddisk) /\ NewP!Bounded(ddisk)
  /\ pc \in Writing => dfp.offset = count2 /\ OpenAs(dfp, ddisk, n)
  /\ pc \notin Writing \cup {"close", "done", "abort"} => count2 = 0
  /\ pc = "rewind" => count2 = 0
  /\ pc \in {"told", "close2"} => count2 = SECSIZ * n
  /\ target = "there" => /\ pc \notin {"told", "close2", "close", "done"}
                         /\ pc \in {"read", "write"} => count2 = 0
  /\ pc \in {"close", "done"} /\ target # "same" /\ dio.ret # -1 => ddisk = orig
  /\ pc = "abort" => dio.op = "write" /\ dio.ret = -1 /\ (target = "there" \/ refused # {})

(* What has been read and not yet written. *)
Between(n) ==
  /\ pc = "read" => sfp.offset = count2
  /\ pc = "write" => /\ sfp.offset = count2 + Len(buf)
                     /\ SrcP!Excerpt(buf, orig, n, count2)

Places == {"open", "count", "cur", "set", "end", "stat", "create", "rewind", "read", "write",
           "told", "close2", "close", "done", "abort"}

CopyAt(n) == /\ Settings(n) /\ Counters(n) /\ Fd(n) /\ Fd2(n) /\ Between(n)
             /\ pc \in Places

CopyInv == \E n \in 1 .. MaxSector : CopyAt(n)

-----------------------------------------------------------------------------
(* The three users of BinProofs agree on what they speak of.               *)

(* What Ccb and BinFile assume of their constants holds of the three.     *)
LEMMA Instances == /\ SrcP!CcbAssumption /\ SrcP!BinFileAssumption
                   /\ NewP!CcbAssumption /\ NewP!BinFileAssumption
                   /\ SameP!CcbAssumption /\ SameP!BinFileAssumption
BY CopyAssumption DEF READ, WRITE,
     SrcP!CcbAssumption, SrcP!BinFileAssumption, SrcP!READ, SrcP!WRITE,
     NewP!CcbAssumption, NewP!BinFileAssumption, NewP!READ, NewP!WRITE,
     SameP!CcbAssumption, SameP!BinFileAssumption, SameP!READ, SameP!WRITE

LEMMA SameCcb == /\ Src!FCB = SrcP!FCB /\ New!FCB = SrcP!FCB
                 /\ NewP!FCB = SrcP!FCB /\ SameP!FCB = SrcP!FCB
BY DEF Src!FCB, New!FCB, SrcP!FCB, NewP!FCB, SameP!FCB,
       Src!Flag, New!Flag, SrcP!Flag, NewP!Flag, SameP!Flag,
       Src!Sector, New!Sector, SrcP!Sector, NewP!Sector, SameP!Sector

LEMMA SameImage ==
  ASSUME NEW n
  PROVE  /\ SrcP!Image(orig, n) => NewP!Image(orig, n) /\ SameP!Image(orig, n)
         /\ \A x : SrcP!Excerpt(buf, orig, n, x)
                     => NewP!Excerpt(buf, orig, n, x) /\ SameP!Excerpt(buf, orig, n, x)
BY DEF SrcP!Image, NewP!Image, SameP!Image, SrcP!Sector, NewP!Sector, SameP!Sector,
       SrcP!Excerpt, NewP!Excerpt, SameP!Excerpt, SrcP!ByteOf, NewP!ByteOf, SameP!ByteOf

LEMMA SameShut ==
  ASSUME dfp \in SrcP!FCB, dfp.flags = {}
  PROVE  NewP!Shut(dfp) /\ SameP!Shut(dfp)
BY SameCcb DEF NewP!Shut, SameP!Shut

LEMMA FileLength ==
  ASSUME NEW n, Settings(n)
  PROVE  /\ n \in Nat /\ SECSIZ * n \in Nat /\ SECSIZ * n > 0
         /\ SECSIZ * n <= SECSIZ * MaxSector /\ SECSIZ * MaxSector \in Nat
         /\ chunk \in Nat \ {0}
<1>1. SECSIZ * MaxSector \in Nat
  BY CopyAssumption
<1>2. chunk \in Nat \ {0}
  BY CopyAssumption DEF Settings
<1> QED
  BY <1>1, <1>2, Instances, SrcP!ImageFits DEF Settings

LEMMA ReaderIn ==
  ASSUME NEW n, NEW f, SrcP!Reader(f, orig, n)
  PROVE  f \in SrcP!FCB /\ f.offset \in 0 .. SECSIZ * n
BY DEF SrcP!Reader

-----------------------------------------------------------------------------
(* The steps on fd. *)

LEMMA FdReads ==
  ASSUME NEW n, CopyAt(n), pc \notin {"open", "done", "abort"}
  PROVE  SrcP!ReadsImage(orig, n)
BY DEF CopyAt, Settings, Fd, SrcP!ReadsImage

(* A step that leaves fd2 and the settings alone. *)
LEMMA FdOnly ==
  ASSUME NEW n, CopyAt(n), KeepSettings, UNCHANGED dst, sdisk' = orig
  PROVE  /\ Settings(n)' /\ dfp' = dfp /\ ddisk' = ddisk /\ dio' = dio
         /\ target' = target /\ orig' = orig /\ chunk' = chunk
BY DEF CopyAt, Settings, KeepSettings, dst

LEMMA OpenSourceStep ==
  ASSUME NEW n, CopyAt(n), OpenSource
  PROVE  CopyAt(n)'
<1>1. /\ pc = "open" /\ pc' = "count" /\ KeepSettings /\ UNCHANGED dst
      /\ count' = count /\ count2' = count2 /\ buf' = buf /\ Src!Open(READ)
  BY DEF OpenSource, OnSrc
<1>2. SrcP!Shut(sfp) /\ SrcP!Image(orig, n) /\ sdisk = orig
  BY <1>1 DEF CopyAt, Settings, Fd, SrcP!Shut
<1>3. SrcP!Open(SrcP!READ)
  BY <1>1, SrcOpens DEF READ, SrcP!READ
<1>4. sdisk' = orig /\ SrcP!Reader(sfp', orig, n) /\ SrcP!EndKnown(sfp', n) /\ sfp'.offset = 0
  BY <1>2, <1>3, Instances, SrcP!ReaderOpens
<1>5. Settings(n)' /\ dfp' = dfp /\ ddisk' = ddisk /\ dio' = dio /\ target' = target /\ orig' = orig
  BY <1>1, <1>4, FdOnly
<1>6. Counters(n)'
  BY <1>1, <1>5 DEF CopyAt, Counters, KeepSettings
<1>7. Fd(n)'
  BY <1>1, <1>4, <1>5, ReaderIn DEF CopyAt, Fd
<1>8. Fd2(n)'
  BY <1>1, <1>5 DEF CopyAt, Fd2, Writing, NewP!DiskOK, NewP!Bounded
<1>9. Between(n)' /\ pc' \in Places
  BY <1>1 DEF Between, Places
<1> QED
  BY <1>5, <1>6, <1>7, <1>8, <1>9 DEF CopyAt

(* What a read of fd delivers. *)
LEMMA FdRead ==
  ASSUME NEW n, CopyAt(n), pc \in {"count", "read"}, Src!Read(chunk, {})
  PROVE  \E k \in 0 .. chunk : SrcP!ReadOf(orig, n, k)
<1>1. SrcP!ReadsImage(orig, n) /\ SrcP!EndKnown(sfp, n)
  BY FdReads DEF CopyAt, Fd
<1>2. SrcP!Read(chunk, {})
  BY SrcReads
<1>3. chunk \in Nat \ {0}
  BY FileLength DEF CopyAt
<1> QED
  BY <1>1, <1>2, <1>3, Instances, SrcP!ReaderReads

LEMMA CountStep ==
  ASSUME NEW n, CopyAt(n), Count
  PROVE  CopyAt(n)'
<1>1. /\ pc = "count" /\ KeepSettings /\ UNCHANGED dst /\ Src!Read(chunk, {})
      /\ count2' = count2 /\ buf' = buf
      /\ IF sio'.ret > 0 THEN pc' = "count" /\ count' = count + sio'.ret
                         ELSE Assert(count > 0, "cur") /\ count' = count
  BY DEF Count, OnSrc
<1>2. PICK k \in 0 .. chunk : SrcP!ReadOf(orig, n, k)
  BY <1>1, FdRead
<1>3. /\ sio'.ret = k /\ sfp'.offset = sfp.offset + k /\ (k = 0 <=> sfp.offset = SECSIZ * n)
      /\ sdisk' = orig /\ SrcP!Reader(sfp', orig, n) /\ SrcP!EndKnown(sfp', n)
  BY <1>2 DEF SrcP!ReadOf
<1>4. /\ Settings(n)' /\ dfp' = dfp /\ ddisk' = ddisk /\ dio' = dio
      /\ target' = target /\ orig' = orig /\ chunk' = chunk
  BY <1>1, <1>3, FdOnly
<1>5. /\ SECSIZ * n \in Nat /\ SECSIZ * n > 0 /\ chunk \in Nat /\ k \in Nat
  BY FileLength DEF CopyAt
<1>6. /\ count = sfp.offset /\ count \in Nat
      /\ sfp' \in SrcP!FCB /\ sfp'.offset \in 0 .. SECSIZ * n
  BY <1>1, <1>3, <1>4, ReaderIn DEF CopyAt, Fd, Counters
<1>7. CASE k = 0
  <2>1. pc' = "cur" /\ count' = count /\ count = SECSIZ * n /\ sfp'.offset = SECSIZ * n
    BY <1>1, <1>3, <1>5, <1>6, <1>7 DEF Assert
  <2>2. Counters(n)'
    BY <1>1, <1>4, <2>1 DEF CopyAt, Counters
  <2>3. Fd(n)'
    BY <1>3, <1>4, <1>6, <2>1 DEF Fd
  <2>4. Fd2(n)'
    BY <1>1, <1>4, <2>1 DEF CopyAt, Fd2, Writing, NewP!DiskOK, NewP!Bounded
  <2>5. Between(n)' /\ pc' \in Places
    BY <2>1 DEF Between, Places
  <2> QED
    BY <1>4, <2>2, <2>3, <2>4, <2>5 DEF CopyAt
<1>8. CASE k # 0
  <2>1. pc' = "count" /\ count' = sfp'.offset
    BY <1>1, <1>3, <1>5, <1>6, <1>8
  <2>2. Counters(n)'
    BY <1>1, <1>4, <1>6, <2>1 DEF CopyAt, Counters
  <2>3. Fd(n)'
    BY <1>3, <1>4, <1>6, <2>1 DEF Fd
  <2>4. Fd2(n)'
    BY <1>1, <1>4, <2>1 DEF CopyAt, Fd2, Writing, NewP!DiskOK, NewP!Bounded
  <2>5. Between(n)' /\ pc' \in Places
    BY <2>1 DEF Between, Places
  <2> QED
    BY <1>4, <2>2, <2>3, <2>4, <2>5 DEF CopyAt
<1> QED
  BY <1>7, <1>8

(* A step of fd between the two loops, which finds what it asserts.        *)
Looking == {"cur", "set", "end", "stat"}

LEMMA LookStep ==
  ASSUME NEW n, CopyAt(n), pc \in Looking, KeepSettings, UNCHANGED dst,
         count' = count, count2' = count2, buf' = buf,
         sdisk' = orig, SrcP!Reader(sfp', orig, n),
         pc' \in {"set", "end", "stat", "create"}
  PROVE  CopyAt(n)'
<1>1. /\ Settings(n)' /\ dfp' = dfp /\ ddisk' = ddisk /\ dio' = dio
      /\ target' = target /\ orig' = orig /\ chunk' = chunk
  BY FdOnly
<1>2. Counters(n)'
  BY <1>1 DEF CopyAt, Counters
<1>3. Fd(n)'
  BY <1>1, ReaderIn DEF CopyAt, Fd, Looking
<1>4. Fd2(n)'
  BY <1>1 DEF CopyAt, Fd2, Writing, Looking, NewP!DiskOK, NewP!Bounded
<1>5. Between(n)' /\ pc' \in Places
  BY DEF Between, Places
<1> QED
  BY <1>1, <1>2, <1>3, <1>4, <1>5 DEF CopyAt

(* lseek does not move a file: its answer is the offset, the beginning or  *)
(* the end.                                                                *)
LEMMA SeekStep ==
  ASSUME NEW n, CopyAt(n), NEW at \in {"cur", "set", "end"}, NEW sense \in {0, 1, 2}, NEW want,
         NEW next \in {"set", "end", "stat"}, SeekTo(at, 0, sense, want, next),
         want = CASE sense = 0 -> 0 [] sense = 1 -> sfp.offset [] sense = 2 -> SECSIZ * n
  PROVE  CopyAt(n)'
<1>1. /\ pc = at /\ KeepSettings /\ UNCHANGED dst /\ Src!LSeek(0, sense)
      /\ count' = count /\ count2' = count2 /\ buf' = buf
      /\ Assert(sio'.ret = want, next)
  BY DEF SeekTo, OnSrc
<1>2. SrcP!ReadsImage(orig, n) /\ SrcP!LSeek(0, sense) /\ sense \in SrcP!Senses
  BY <1>1, FdReads, SrcSeeks DEF SrcP!Senses
<1>3. sio'.ret = want /\ sdisk' = orig /\ SrcP!Reader(sfp', orig, n)
  BY <1>2, Instances, SrcP!ReaderSeeks
<1>4. pc' = next
  BY <1>1, <1>3 DEF Assert
<1> QED
  BY <1>1, <1>3, <1>4, LookStep DEF Looking

LEMMA LookAtStep ==
  ASSUME NEW n, CopyAt(n), LookAt
  PROVE  CopyAt(n)'
<1>1. CASE SeekTo("cur", 0, 1, count, "set")
  <2>1. pc = "cur"
    BY <1>1 DEF SeekTo, OnSrc
  <2>2. count = sfp.offset
    BY <2>1 DEF CopyAt, Fd
  <2> QED
    BY <1>1, <2>2, SeekStep
<1>2. CASE SeekTo("set", 0, 0, 0, "end")
  BY <1>2, SeekStep
<1>3. CASE SeekTo("end", 0, 2, count, "stat")
  <2>1. pc = "end"
    BY <1>3 DEF SeekTo, OnSrc
  <2>2. count = SECSIZ * n
    BY <2>1 DEF CopyAt, Fd
  <2> QED
    BY <1>3, <2>2, SeekStep
<1> QED
  BY <1>1, <1>2, <1>3 DEF LookAt

LEMMA StatStep ==
  ASSUME NEW n, CopyAt(n), Stat
  PROVE  CopyAt(n)'
<1>1. /\ pc = "stat" /\ KeepSettings /\ UNCHANGED dst /\ Src!FStat
      /\ count' = count /\ count2' = count2 /\ buf' = buf
      /\ Assert(sio'.ret = count, "create")
  BY DEF Stat, OnSrc
<1>2. SrcP!ReadsImage(orig, n) /\ SrcP!FStat
  BY <1>1, FdReads, SrcStats
<1>3. sio'.ret = SECSIZ * n /\ sdisk' = orig /\ SrcP!Reader(sfp', orig, n)
  BY <1>2, Instances, SrcP!ReaderStats
<1>4. count = SECSIZ * n
  BY <1>1 DEF CopyAt, Fd
<1>5. pc' = "create"
  BY <1>1, <1>3, <1>4 DEF Assert
<1> QED
  BY <1>1, <1>3, <1>5, LookStep DEF Looking

-----------------------------------------------------------------------------
(* The copy. *)

LEMMA RewindStep ==
  ASSUME NEW n, CopyAt(n), Rewind
  PROVE  CopyAt(n)'
<1>1. /\ pc = "rewind" /\ pc' = "read" /\ KeepSettings /\ UNCHANGED dst /\ Src!LSeek(0, 0)
      /\ count' = count /\ count2' = count2 /\ buf' = buf
  BY DEF Rewind, OnSrc
<1>2. SrcP!ReadsImage(orig, n) /\ SrcP!LSeek(0, 0) /\ 0 \in SrcP!Senses
  BY <1>1, FdReads, SrcSeeks DEF SrcP!Senses
<1>3. sfp'.offset = 0 /\ sdisk' = orig /\ SrcP!Reader(sfp', orig, n) /\ SrcP!EndKnown(sfp', n)
  BY <1>2, Instances, SrcP!ReaderSeeks
<1>4. /\ Settings(n)' /\ dfp' = dfp /\ ddisk' = ddisk
      /\ orig' = orig /\ chunk' = chunk /\ target' = target
  BY <1>1, <1>3, FdOnly
<1>5. Counters(n)'
  BY <1>1, <1>4 DEF CopyAt, Counters
<1>6. Fd(n)'
  BY <1>1, <1>3, <1>4, ReaderIn DEF CopyAt, Fd
<1>7. Fd2(n)'
  BY <1>1, <1>4 DEF CopyAt, Fd2, Writing, OpenAs
<1>8. Between(n)' /\ pc' \in Places
  BY <1>1, <1>3 DEF CopyAt, Fd2, Between, Places
<1> QED
  BY <1>4, <1>5, <1>6, <1>7, <1>8 DEF CopyAt

(* A chunk that was read is an excerpt of the file, where fd2 is.          *)
LEMMA CopyReadStep ==
  ASSUME NEW n, CopyAt(n), CopyRead
  PROVE  CopyAt(n)'
<1>1. /\ pc = "read" /\ KeepSettings /\ UNCHANGED dst /\ Src!Read(chunk, {})
      /\ count' = count /\ count2' = count2
      /\ buf' = IF sio'.ret > 0 THEN sio'.data ELSE buf
      /\ pc' = IF sio'.ret = 0 THEN "told" ELSE "write"
  BY DEF CopyRead, OnSrc
<1>2. PICK k \in 0 .. chunk : SrcP!ReadOf(orig, n, k)
  BY <1>1, FdRead
<1>3. /\ sio'.ret = k /\ sfp'.offset = sfp.offset + k /\ (k = 0 <=> sfp.offset = SECSIZ * n)
      /\ sdisk' = orig /\ SrcP!Reader(sfp', orig, n) /\ SrcP!EndKnown(sfp', n)
  BY <1>2 DEF SrcP!ReadOf
<1>4. /\ sio'.data \in Seq(Byte) /\ Len(sio'.data) = k
      /\ \A j \in 1 .. k : sio'.data[j] = SrcP!ByteOf(orig, (sfp.offset + j) - 1)
  BY <1>2 DEF SrcP!ReadOf
<1>5. /\ Settings(n)' /\ dfp' = dfp /\ ddisk' = ddisk
      /\ orig' = orig /\ chunk' = chunk /\ target' = target
  BY <1>1, <1>3, FdOnly
<1>6. SECSIZ * n \in Nat /\ chunk \in Nat /\ k \in Nat /\ k <= chunk
  BY FileLength DEF CopyAt
<1>7. /\ sfp.offset = count2 /\ count2 \in Nat
      /\ sfp' \in SrcP!FCB /\ sfp'.offset \in 0 .. SECSIZ * n
  BY <1>1, <1>3, ReaderIn, <1>6 DEF CopyAt, Between, Counters
<1>8. CASE k = 0
  <2>1. pc' = "told" /\ buf' = buf /\ count2 = SECSIZ * n
    BY <1>1, <1>3, <1>7, <1>8
  <2>2. Counters(n)'
    BY <1>1, <1>5, <2>1 DEF CopyAt, Counters
  <2>3. Fd(n)'
    BY <1>1, <1>3, <1>5, <1>7, <2>1 DEF CopyAt, Fd
  <2>4. target # "there"
    <3>1. SECSIZ * n > 0
      BY FileLength DEF CopyAt
    <3> QED
      BY <1>1, <2>1, <3>1 DEF CopyAt, Fd2
  <2>5. Fd2(n)'
    BY <1>1, <1>5, <2>1, <2>4 DEF CopyAt, Fd2, Writing, OpenAs
  <2>6. Between(n)' /\ pc' \in Places
    BY <2>1 DEF Between, Places
  <2> QED
    BY <1>5, <2>2, <2>3, <2>5, <2>6 DEF CopyAt
<1>9. CASE k # 0
  <2>1. pc' = "write" /\ buf' = sio'.data /\ Len(buf') = k
    BY <1>1, <1>3, <1>4, <1>6, <1>9
  <2>2. Counters(n)'
    BY <1>1, <1>4, <1>5, <1>6, <2>1 DEF CopyAt, Counters
  <2>3. Fd(n)'
    BY <1>1, <1>3, <1>5, <1>7, <2>1 DEF CopyAt, Fd
  <2>4. Fd2(n)'
    BY <1>1, <1>5, <2>1 DEF CopyAt, Fd2, Writing, OpenAs
  <2>5. SrcP!Excerpt(buf', orig', n, count2')
    <3>1. count2 + k <= SECSIZ * n
      BY <1>3, <1>6, <1>7
    <3>2. buf' # <<>>
      BY <1>9, <2>1
    <3> QED
      BY <1>1, <1>4, <1>5, <1>7, <2>1, <3>1, <3>2 DEF SrcP!Excerpt
  <2>6. Between(n)' /\ pc' \in Places
    BY <1>1, <1>3, <1>7, <2>1, <2>5 DEF Between, Places
  <2> QED
    BY <1>5, <2>2, <2>3, <2>4, <2>6 DEF CopyAt
<1> QED
  BY <1>8, <1>9

-----------------------------------------------------------------------------
(* The steps on fd2, in the new file or in the file itself. *)

(* A step that leaves fd and the file alone. *)
LEMMA Fd2Only ==
  ASSUME NEW n, CopyAt(n), KeepSettings, UNCHANGED <<sfp, sio>>, sdisk' = orig
  PROVE  /\ Settings(n)' /\ sfp' = sfp /\ target' = target /\ orig' = orig /\ chunk' = chunk
BY DEF CopyAt, Settings, KeepSettings

LEMMA OpenTargetStep ==
  ASSUME NEW n, CopyAt(n), OpenTarget
  PROVE  CopyAt(n)'
<1>1. /\ pc = "create" /\ pc' = "rewind" /\ KeepSettings /\ UNCHANGED <<sfp, sio>>
      /\ count' = count /\ count2' = count2 /\ buf' = buf
      /\ target = "new" => sdisk' = sdisk /\ New!Creat
      /\ target = "there" => sdisk' = sdisk /\ New!Open(READ)
      /\ target = "same" => ddisk' = ddisk /\ Same!Open(WRITE)
  BY DEF OpenTarget, OnDst
<1>2. /\ NewP!Image(orig, n) /\ SameP!Image(orig, n) /\ sdisk = orig
      /\ NewP!Shut(dfp) /\ SameP!Shut(dfp) /\ NewP!DiskOK(ddisk) /\ NewP!Bounded(ddisk)
      /\ target \in {"new", "there", "same"}
  BY <1>1, SameImage, SameShut DEF CopyAt, Settings, Fd2
<1>3. sdisk' = orig /\ dfp'.offset = 0 /\ dfp' \in SrcP!FCB /\ OpenAs(dfp', ddisk', n)
  <2>1. CASE target = "new"
    <3>1. NewP!Creat
      BY <1>1, <2>1, NewCreates
    <3>2. NewP!Writer(dfp', ddisk', orig, n) /\ dfp'.offset = 0
      BY <1>2, <3>1, Instances, NewP!WriterCreates
    <3>3. dfp' \in SrcP!FCB
      BY <3>2, SameCcb DEF NewP!Writer
    <3> QED
      BY <1>1, <1>2, <2>1, <3>2, <3>3 DEF OpenAs
  <2>2. CASE target = "there"
    <3>1. NewP!Open(NewP!READ)
      BY <1>1, <2>2, NewOpens DEF READ, NewP!READ
    <3>2. dfp' \in NewP!FCB /\ {"OPENED", "ISREAD"} \subseteq dfp'.flags /\ dfp'.offset = 0
      BY <1>2, <3>1, Instances, NewP!ReadOnlyOpens
    <3> QED
      BY <1>1, <1>2, <2>2, <3>2, SameCcb DEF OpenAs
  <2>3. CASE target = "same"
    <3>1. SameP!Open(SameP!WRITE)
      BY <1>1, <2>3, SameOpens DEF WRITE, SameP!WRITE
    <3>2. SameP!Writer(dfp', sdisk', orig, n) /\ SameP!Onto(dfp', sdisk', orig, n) /\ dfp'.offset = 0
      BY <1>2, <3>1, Instances, SameP!WriterOpens
    <3>3. sdisk' = orig
      BY <3>2 DEF SameP!Onto
    <3>4. dfp' \in SrcP!FCB
      BY <3>2, SameCcb DEF SameP!Writer
    <3> QED
      BY <2>3, <3>2, <3>3, <3>4 DEF OpenAs
  <2> QED
    BY <1>2, <2>1, <2>2, <2>3
<1>4. Settings(n)' /\ sfp' = sfp /\ target' = target /\ orig' = orig /\ chunk' = chunk
  BY <1>1, <1>3, Fd2Only
<1>5. Counters(n)'
  BY <1>1, <1>4 DEF CopyAt, Counters
<1>6. Fd(n)'
  BY <1>1, <1>4 DEF CopyAt, Fd
<1>7. Fd2(n)'
  BY <1>1, <1>3, <1>4 DEF CopyAt, Fd2, Writing, OpenAs
<1>8. Between(n)' /\ pc' \in Places
  BY <1>1 DEF Between, Places
<1> QED
  BY <1>4, <1>5, <1>6, <1>7, <1>8 DEF CopyAt

(* The counters of _wrtbin are UWORDs: no file has more sectors, and no    *)
(* chunk more bytes, than one of them counts.                              *)
CopyFits == MaxSector < UWord /\ \A m \in Chunks : m < UWord

LEMMA BufWrites ==
  ASSUME NEW n, CopyAt(n), CopyFits, pc = "write"
  PROVE  /\ target = "new" => NewP!WritesImage(buf, orig, n)
         /\ target = "same" => SameP!OntoImage(buf, orig, n)
         /\ buf # <<>> /\ Len(buf) \in Nat /\ count2 + Len(buf) <= SECSIZ * n
<1>1. MaxSector < UWord /\ Len(buf) < UWord /\ Len(buf) \in Nat
  <2>1. buf \in Seq(Byte) /\ Len(buf) <= chunk /\ chunk \in Chunks
    BY DEF CopyAt, Counters, Settings
  <2>2. Len(buf) \in Nat /\ chunk \in Nat /\ UWord \in Nat /\ chunk < UWord
    BY <2>1, CopyAssumption DEF CopyFits
  <2> QED
    BY <2>1, <2>2 DEF CopyFits
<1>2. /\ NewP!Image(orig, n) /\ SameP!Image(orig, n) /\ sdisk = orig
      /\ SrcP!Excerpt(buf, orig, n, count2) /\ dfp.offset = count2
  BY SameImage DEF CopyAt, Settings, Between, Fd2, Writing
<1>3. NewP!Excerpt(buf, orig, n, dfp.offset) /\ SameP!Excerpt(buf, orig, n, dfp.offset)
  BY <1>2, SameImage
<1>4. ASSUME target = "new" PROVE NewP!WritesImage(buf, orig, n)
  <2>1. NewP!Writer(dfp, ddisk, orig, n)
    BY <1>4 DEF CopyAt, Fd2, Writing, OpenAs
  <2> QED
    BY <1>1, <1>2, <1>3, <2>1 DEF NewP!WritesImage
<1>5. ASSUME target = "same" PROVE SameP!OntoImage(buf, orig, n)
  <2>1. SameP!Writer(dfp, sdisk, orig, n) /\ SameP!Onto(dfp, sdisk, orig, n)
    BY <1>2, <1>5 DEF CopyAt, Fd2, Writing, OpenAs
  <2> QED
    BY <1>1, <1>2, <1>3, <2>1 DEF SameP!OntoImage, SameP!WritesImage
<1>6. buf # <<>> /\ count2 + Len(buf) <= SECSIZ * n
  BY <1>2 DEF SrcP!Excerpt
<1> QED
  BY <1>1, <1>4, <1>5, <1>6

(* A write that fails aborts the program, and has not harmed the file.  It *)
(* fails for one of the two reasons.                                       *)
LEMMA CopyWrites ==
  ASSUME NEW n, CopyAt(n), CopyFits, CopyWrite
  PROVE  /\ sdisk' = orig /\ dfp' \in SrcP!FCB
         /\ dio'.op = "write" /\ dio'.ret \in {Len(buf), -1}
         /\ dio'.ret # -1 => /\ dfp'.offset = dfp.offset + Len(buf)
                             /\ OpenAs(dfp', ddisk', n) /\ target # "there"
         /\ dio'.ret = -1 => target = "there" \/ refused' # {}
<1>1. /\ pc = "write" /\ target \in {"new", "there", "same"} /\ sdisk = orig
      /\ target # "same" => sdisk' = sdisk
  BY DEF CopyWrite, OnDst, CopyAt, Settings
<1>2. PICK bad \in Faults :
        /\ IF target = "same" THEN Same!Write(buf, bad) ELSE New!Write(buf, bad)
        /\ refused' = bad
  BY DEF CopyWrite
<1>3. CASE target = "new"
  <2>1. NewP!WritesImage(buf, orig, n) /\ NewP!Write(buf, bad)
    BY <1>1, <1>2, <1>3, BufWrites, NewWrites
  <2>2. /\ dfp' \in NewP!FCB /\ dio'.op = "write" /\ dio'.ret \in {Len(buf), NewP!Failure}
        /\ dio'.ret # NewP!Failure => /\ NewP!Writer(dfp', ddisk', orig, n)
                                      /\ dfp'.offset = dfp.offset + Len(buf)
    BY <2>1, Instances, NewP!WriterWrites
  <2>3. bad = {} => dio'.ret # NewP!Failure
    BY <2>1, Instances, NewP!WriterGoesOn
  <2> QED
    BY <1>1, <1>2, <1>3, <2>2, <2>3, SameCcb DEF NewP!Failure, OpenAs
<1>4. CASE target = "there"
  <2>1. "ISREAD" \in dfp.flags /\ dfp \in SrcP!FCB /\ buf # <<>>
    BY <1>1, <1>4, BufWrites DEF CopyAt, Fd2, Writing, OpenAs
  <2>2. NewP!Write(buf, bad)
    BY <1>2, <1>4, NewWrites
  <2>3. dfp' = dfp /\ dio'.op = "write" /\ dio'.ret = NewP!Failure
    BY <2>1, <2>2, Instances, NewP!ReadOnlyWrites
  <2> QED
    BY <1>1, <1>4, <2>1, <2>3 DEF NewP!Failure
<1>5. CASE target = "same"
  <2>1. SameP!OntoImage(buf, orig, n) /\ SameP!Write(buf, bad)
    BY <1>1, <1>2, <1>5, BufWrites, SameWrites
  <2>2. SameP!WritesImage(buf, orig, n)
    BY <2>1 DEF SameP!OntoImage
  <2>3. /\ dfp' \in SameP!FCB /\ dio'.op = "write" /\ dio'.ret \in {Len(buf), SameP!Failure}
        /\ dio'.ret # SameP!Failure => /\ SameP!Writer(dfp', sdisk', orig, n)
                                       /\ dfp'.offset = dfp.offset + Len(buf)
    BY <2>1, <2>2, Instances, SameP!WriterWrites
  <2>4. sdisk' = orig /\ (dio'.ret # SameP!Failure => SameP!Onto(dfp', sdisk', orig, n))
    BY <2>1, Instances, SameP!WriterOverwrites
  <2>5. bad = {} => dio'.ret # SameP!Failure
    BY <2>1, <2>2, Instances, SameP!WriterGoesOn
  <2> QED
    BY <1>2, <1>5, <2>3, <2>4, <2>5, SameCcb DEF SameP!Failure, OpenAs
<1> QED
  BY <1>1, <1>3, <1>4, <1>5

LEMMA CopyWriteStep ==
  ASSUME NEW n, CopyAt(n), CopyFits, CopyWrite
  PROVE  CopyAt(n)'
<1>1. /\ pc = "write" /\ KeepSettings /\ UNCHANGED <<sfp, sio>>
      /\ count2' = count2 + Len(buf) /\ count' = count /\ buf' = buf
      /\ Assert(dio'.ret >= 0, "read")
  BY DEF CopyWrite, OnDst
<1>2. /\ sdisk' = orig /\ dfp' \in SrcP!FCB
      /\ dio'.op = "write" /\ dio'.ret \in {Len(buf), -1}
      /\ dio'.ret # -1 => /\ dfp'.offset = dfp.offset + Len(buf)
                          /\ OpenAs(dfp', ddisk', n) /\ target # "there"
      /\ dio'.ret = -1 => target = "there" \/ refused' # {}
  BY CopyWrites
<1>3. Len(buf) \in Nat /\ count2 + Len(buf) <= SECSIZ * n
  BY <1>1, BufWrites
<1>4. Settings(n)' /\ sfp' = sfp /\ target' = target /\ orig' = orig /\ chunk' = chunk
  BY <1>1, <1>2, Fd2Only
<1>5. Counters(n)'
  <2>1. SECSIZ * n \in Nat
    BY FileLength DEF CopyAt
  <2>2. count2' \in 0 .. SECSIZ * n
    BY <1>1, <1>3, <2>1 DEF CopyAt, Counters
  <2> QED
    BY <1>1, <1>4, <2>2 DEF CopyAt, Counters
<1>6. pc' \in {"read", "abort"} /\ (pc' = "read" <=> dio'.ret # -1)
  BY <1>1, <1>2, <1>3 DEF Assert
<1>7. Fd(n)'
  BY <1>1, <1>4, <1>6 DEF CopyAt, Fd
<1>8. Fd2(n)'
  <2>1. pc' = "read" => dfp'.offset = count2'
    BY <1>1, <1>2, <1>6 DEF CopyAt, Fd2, Writing
  <2> QED
    BY <1>2, <1>4, <1>6, <2>1 DEF Fd2, Writing, OpenAs
<1>9. Between(n)' /\ pc' \in Places
  BY <1>1, <1>4, <1>6 DEF CopyAt, Between, Places
<1> QED
  BY <1>4, <1>5, <1>7, <1>8, <1>9 DEF CopyAt

LEMMA ToldStep ==
  ASSUME NEW n, CopyAt(n), Told
  PROVE  CopyAt(n)'
<1>1. /\ pc = "told" /\ KeepSettings /\ UNCHANGED <<sfp, sio>>
      /\ count' = count /\ count2' = count2 /\ buf' = buf
      /\ Assert(count2 = dio'.ret /\ count2 = count, "close2")
      /\ target # "same" => sdisk' = sdisk /\ New!LSeek(0, 1)
      /\ target = "same" => ddisk' = ddisk /\ Same!LSeek(0, 1)
  BY DEF Told, OnDst
<1>2. /\ NewP!Image(orig, n) /\ SameP!Image(orig, n) /\ sdisk = orig
      /\ dfp.offset = count2 /\ count2 = SECSIZ * n /\ count = SECSIZ * n
      /\ target \in {"new", "same"} /\ OpenAs(dfp, ddisk, n)
  BY <1>1, SameImage DEF CopyAt, Settings, Fd, Fd2, Writing
<1>3. /\ sdisk' = orig /\ dio'.ret = dfp.offset /\ dfp'.offset = dfp.offset /\ dfp' \in SrcP!FCB
      /\ OpenAs(dfp', ddisk', n)
  <2>1. CASE target = "new"
    <3>1. NewP!LSeek(0, 1) /\ NewP!Writer(dfp, ddisk, orig, n)
      BY <1>1, <1>2, <2>1, NewTells DEF OpenAs
    <3>2. /\ dio'.ret = dfp.offset /\ dfp'.offset = dfp.offset
          /\ NewP!Writer(dfp', ddisk', orig, n)
      BY <1>2, <3>1, Instances, NewP!WriterTells
    <3>3. dfp' \in SrcP!FCB
      BY <3>2, SameCcb DEF NewP!Writer
    <3> QED
      BY <1>1, <1>2, <2>1, <3>2, <3>3 DEF OpenAs
  <2>2. CASE target = "same"
    <3>1. /\ SameP!LSeek(0, 1)
          /\ SameP!Writer(dfp, sdisk, orig, n) /\ SameP!Onto(dfp, sdisk, orig, n)
      BY <1>1, <1>2, <2>2, SameTells DEF OpenAs
    <3>2. /\ dio'.ret = dfp.offset /\ dfp'.offset = dfp.offset /\ sdisk' = sdisk
          /\ SameP!Writer(dfp', sdisk', orig, n) /\ SameP!Onto(dfp', sdisk', orig, n)
      BY <1>2, <3>1, Instances, SameP!WriterTells
    <3>3. dfp' \in SrcP!FCB
      BY <3>2, SameCcb DEF SameP!Writer
    <3> QED
      BY <1>2, <2>2, <3>2, <3>3 DEF OpenAs
  <2> QED
    BY <1>2, <2>1, <2>2
<1>4. Settings(n)' /\ sfp' = sfp /\ target' = target /\ orig' = orig /\ chunk' = chunk
  BY <1>1, <1>3, Fd2Only
<1>5. pc' = "close2"
  BY <1>1, <1>2, <1>3 DEF Assert
<1>6. Counters(n)'
  BY <1>1, <1>4 DEF CopyAt, Counters
<1>7. Fd(n)'
  BY <1>1, <1>4, <1>5 DEF CopyAt, Fd
<1>8. Fd2(n)'
  BY <1>1, <1>2, <1>3, <1>4, <1>5 DEF Fd2, Writing, OpenAs
<1>9. Between(n)' /\ pc' \in Places
  BY <1>5 DEF Between, Places
<1> QED
  BY <1>4, <1>6, <1>7, <1>8, <1>9 DEF CopyAt

LEMMA CloseTargetStep ==
  ASSUME NEW n, CopyAt(n), CloseTarget
  PROVE  CopyAt(n)'
<1>1. /\ pc = "close2" /\ pc' = "close" /\ KeepSettings /\ UNCHANGED <<sfp, sio>>
      /\ count' = count /\ count2' = count2 /\ buf' = buf
      /\ target # "same" => sdisk' = sdisk
  BY DEF CloseTarget, OnDst
<1>2. PICK bad \in Faults : IF target = "same" THEN Same!Close(bad) ELSE New!Close(bad)
  BY DEF CloseTarget
<1>3. /\ NewP!Image(orig, n) /\ SameP!Image(orig, n) /\ sdisk = orig
      /\ dfp.offset = SECSIZ * n /\ target \in {"new", "same"}
      /\ target = "new" => NewP!Writer(dfp, ddisk, orig, n)
      /\ target = "same" => SameP!Writer(dfp, sdisk, orig, n) /\ SameP!Onto(dfp, sdisk, orig, n)
  BY <1>1, SameImage DEF CopyAt, Settings, Fd, Fd2, Writing, OpenAs
<1>4. /\ sdisk' = orig /\ dfp' \in SrcP!FCB
      /\ target = "new" /\ dio'.ret # -1 => ddisk' = orig
  <2>1. CASE target = "new"
    <3>1. NewP!Close(bad)
      BY <1>2, <2>1, NewCloses
    <3>2. dfp' \in NewP!FCB /\ (dio'.ret # NewP!Failure => ddisk' = orig)
      BY <1>3, <2>1, <3>1, Instances, NewP!WriterCloses
    <3> QED
      BY <1>1, <1>3, <2>1, <3>2, SameCcb DEF NewP!Failure
  <2>2. CASE target = "same"
    <3>1. SameP!Close(bad)
      BY <1>2, <2>2, SameCloses
    <3>2. dfp' \in SameP!FCB /\ sdisk' = orig
      BY <1>3, <2>2, <3>1, Instances, SameP!WriterCloses
    <3> QED
      BY <2>2, <3>2, SameCcb
  <2> QED
    BY <1>3, <2>1, <2>2
<1>5. Settings(n)' /\ sfp' = sfp /\ target' = target /\ orig' = orig /\ chunk' = chunk
  BY <1>1, <1>4, Fd2Only
<1>6. Counters(n)'
  BY <1>1, <1>5 DEF CopyAt, Counters
<1>7. Fd(n)'
  BY <1>1, <1>5 DEF CopyAt, Fd
<1>8. Fd2(n)'
  BY <1>1, <1>3, <1>4, <1>5 DEF Fd2, Writing
<1>9. Between(n)' /\ pc' \in Places
  BY <1>1 DEF Between, Places
<1> QED
  BY <1>5, <1>6, <1>7, <1>8, <1>9 DEF CopyAt

LEMMA CloseSourceStep ==
  ASSUME NEW n, CopyAt(n), CloseSource
  PROVE  CopyAt(n)'
<1>1. /\ pc = "close" /\ pc' = "done" /\ KeepSettings /\ UNCHANGED dst /\ Src!Close({})
      /\ count' = count /\ count2' = count2 /\ buf' = buf
  BY DEF CloseSource, OnSrc
<1>2. SrcP!ReadsImage(orig, n) /\ SrcP!Close({})
  BY <1>1, FdReads, SrcCloses
<1>3. sdisk' = orig /\ sfp' \in SrcP!FCB
  BY <1>2, Instances, SrcP!ReaderCloses
<1>4. /\ Settings(n)' /\ dfp' = dfp /\ ddisk' = ddisk /\ dio' = dio
      /\ orig' = orig /\ chunk' = chunk /\ target' = target
  BY <1>1, <1>3, FdOnly
<1>5. Counters(n)'
  BY <1>1, <1>4 DEF CopyAt, Counters
<1>6. Fd(n)'
  BY <1>1, <1>3 DEF CopyAt, Fd
<1>7. Fd2(n)'
  BY <1>1, <1>4 DEF CopyAt, Fd2, Writing
<1>8. Between(n)' /\ pc' \in Places
  BY <1>1 DEF Between, Places
<1> QED
  BY <1>4, <1>5, <1>6, <1>7, <1>8 DEF CopyAt

-----------------------------------------------------------------------------
(* CopyInv is inductive. *)

LEMMA CopyInit == Init => CopyInv
<1> SUFFICES ASSUME Init PROVE CopyInv
  OBVIOUS
<1>1. PICK n \in 1 .. MaxSector : orig \in [0 .. n - 1 -> Src!Sector]
  BY DEF Init
<1>2. SrcP!Image(orig, n)
  BY <1>1, CopyAssumption DEF SrcP!Image, Src!Sector, SrcP!Sector
<1>3. Closed \in SrcP!FCB /\ Closed.flags = {}
  BY CopyAssumption DEF Closed, Src!Zeros, SrcP!FCB, SrcP!Flag, SrcP!Sector
<1>4. Settings(n)
  BY <1>2 DEF Init, Settings
<1>5. SECSIZ * n \in Nat /\ chunk \in Nat
  BY <1>4, FileLength
<1>6. Counters(n)
  BY <1>5 DEF Init, Counters
<1>7. Fd(n)
  BY <1>3 DEF Init, Fd
<1>8. NewP!DiskOK(ddisk) /\ NewP!Bounded(ddisk)
  <2>1. PICK m \in Nat : ddisk = [s \in 0 .. m - 1 |-> Src!Zeros]
    BY CopyAssumption DEF Init
  <2>2. Src!Zeros \in NewP!Sector
    BY CopyAssumption DEF Src!Zeros, NewP!Sector
  <2>3. DOMAIN ddisk = 0 .. m - 1 /\ \A s \in DOMAIN ddisk : ddisk[s] = Src!Zeros
    BY <2>1
  <2>4. DOMAIN ddisk \subseteq Nat /\ \A s \in DOMAIN ddisk : s <= m
    BY <2>3
  <2> QED
    BY <2>1, <2>2, <2>3, <2>4 DEF NewP!DiskOK, NewP!Bounded
<1>9. Fd2(n)
  BY <1>3, <1>8 DEF Init, Fd2, Writing
<1>10. Between(n) /\ pc \in Places
  BY DEF Init, Between, Places
<1> QED
  BY <1>4, <1>6, <1>7, <1>9, <1>10 DEF CopyInv, CopyAt

LEMMA CopyNext ==
  ASSUME CopyInv, CopyFits, [Next]_vars
  PROVE  CopyInv'
<1>1. PICK n \in 1 .. MaxSector : CopyAt(n)
  BY DEF CopyInv
<1>2. CASE Next
  BY <1>1, <1>2, OpenSourceStep, CountStep, LookAtStep, StatStep, OpenTargetStep, RewindStep,
     CopyReadStep, CopyWriteStep, ToldStep, CloseTargetStep, CloseSourceStep DEF Next, CopyInv
<1>3. CASE UNCHANGED vars
  <2>1. CopyAt(n)'
    BY <1>1, <1>3 DEF vars, src, dst, CopyAt, Settings, Counters, Fd, Fd2, Writing, OpenAs, Between
  <2> QED
    BY <2>1 DEF CopyInv
<1> QED
  BY <1>2, <1>3

LEMMA CopyInvHolds == CopyFits => (Spec => []CopyInv)
<1> SUFFICES ASSUME CopyFits PROVE Spec => []CopyInv
  OBVIOUS
<1>1. CopyInv /\ [Next]_vars => CopyInv'
  BY CopyNext
<1> QED
  BY <1>1, CopyInit, PTL DEF Spec

-----------------------------------------------------------------------------
(* The theorems. *)

(* main.c:46-91: the counters count bytes of the file, the buffer is one a *)
(* read may have filled, and both CCBs are CCBs.                           *)
THEOREM CopyTypeThm == CopyFits => (Spec => []TypeOK)
<1>1. CopyInv => TypeOK
  <2> SUFFICES ASSUME NEW n, CopyAt(n) PROVE TypeOK
    BY DEF CopyInv
  <2>1. SECSIZ * n \in Nat /\ SECSIZ * MaxSector \in Nat /\ SECSIZ * n <= SECSIZ * MaxSector
    BY FileLength DEF CopyAt
  <2>2. count \in 0 .. SECSIZ * MaxSector /\ count2 \in 0 .. SECSIZ * MaxSector
    BY <2>1 DEF CopyAt, Counters
  <2> QED
    BY <2>2, SameCcb DEF TypeOK, CopyAt, Fd, Fd2, Counters
<1> QED
  BY <1>1, CopyInvHolds, PTL

(* main.c:56-86: no assertion of the test program fails, whatever the file *)
(* and the chunks, but that of a write (main.c:82): because README.TX2 was *)
(* there and open.c:86 gives no channel to write it, or because BDOS was   *)
(* to refuse a sector.                                                     *)
THEOREM AssertionsThm == CopyFits => (Spec => []AssertionsHold)
<1>1. CopyInv => AssertionsHold
  BY DEF CopyInv, CopyAt, Fd2, AssertionsHold
<1> QED
  BY <1>1, CopyInvHolds, PTL

(* main.c:77-91: when the program is done the copy is the file, unless the *)
(* last close failed.                                                      *)
THEOREM CopiedThm == CopyFits => (Spec => []Copied)
<1>1. CopyInv => Copied
  BY DEF CopyInv, CopyAt, Settings, Fd2, Copied
<1> QED
  BY <1>1, CopyInvHolds, PTL

(* The file that is read stays as it was, also when it is copied onto      *)
(* itself through the other channel, and whenever the program is aborted.  *)
THEOREM SourceKeptThm == CopyFits => (Spec => []SourceKept)
<1>1. CopyInv => SourceKept
  BY DEF CopyInv, CopyAt, Settings, SourceKept
<1> QED
  BY <1>1, CopyInvHolds, PTL
=============================================================================
