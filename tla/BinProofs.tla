------------------------------ MODULE BinProofs ------------------------------
(***************************************************************************)
(* Proofs about BinFile, for every sector size, bound, set of requests and *)
(* set of faults.  The inductive invariant joins the types with            *)
(* DirtyOwned: that a dirty buffer has a label is what makes writing it    *)
(* out leave a disk behind, and that no read-only channel is dirty is what *)
(* makes a flush harmless there.                                           *)
(*                                                                         *)
(* A call is a chain of parts on the call in progress.  ReadCall and       *)
(* WriteCall say what holds of it between any two parts; there is a lemma  *)
(* per part.                                                               *)
(*                                                                         *)
(* The second part is about what the calls do to every byte of the file:   *)
(* DirtyKept, and the result of a read and of a write, byte by byte, that  *)
(* it rests on.  A byte is followed through the parts of a call.  Same     *)
(* says of a read that all bytes show as before.  Of a write, Labelled,    *)
(* Headed, Directed and Written say after each part how far it is and what *)
(* is in the buffer, LabelledAt and ByteOK what has become of one byte;    *)
(* Outcome and ByteResult say it of the whole call.                        *)
(*                                                                         *)
(* The third part is about the programs of BinPrograms, which see a file   *)
(* of bytes: HiwaterCovers, SeeksCoherent, and the refinement of ByteFile. *)
(* TwoInv is their inductive invariant: IInv; Calm, that the buffer and    *)
(* the offset stay in the file (InFile), that a labelled buffer shows what *)
(* is there of its sector, or a program that does not seek has passed that *)
(* sector for good (Fresh), and that what such a program has left dirty    *)
(* lies before its offset (Trails); Marked, that no byte lies above the    *)
(* high water mark; and MarkEnds, that a mark in the middle of a sector    *)
(* stands behind a byte.  The lemmas go part by part through a read and a  *)
(* write: where it is (Lands), what it has moved (Reading, Count), where   *)
(* it leaves the mark (Ended), why a write fails (Gap), and that it is a   *)
(* step of ByteFile.                                                       *)
(***************************************************************************)
EXTENDS BinPrograms, Arithmetic

-----------------------------------------------------------------------------
(* Arithmetic. *)

LEMMA SectorArithmetic ==
  ASSUME NEW x \in Int
  PROVE  /\ x \div SECSIZ \in Int
         /\ x % SECSIZ \in 0 .. SECSIZ - 1
         /\ SECSIZ * (x \div SECSIZ) + (x % SECSIZ) = x
         /\ x >= 0 => x \div SECSIZ \in Nat
<1>1. SECSIZ \in Nat \ {0}
  BY CcbAssumption
<1> QED
  BY <1>1, Division

LEMMA WholeSectors ==
  ASSUME NEW x \in Nat
  PROVE  x \div SECSIZ \in Nat /\ (x \div SECSIZ) * SECSIZ <= x
<1>1. SECSIZ \in Nat
  BY CcbAssumption
<1>2. x \div SECSIZ \in Nat /\ SECSIZ * (x \div SECSIZ) <= x
  BY <1>1, SectorArithmetic
<1>3. SECSIZ * (x \div SECSIZ) = (x \div SECSIZ) * SECSIZ
  BY <1>1, <1>2
<1> QED
  BY <1>2, <1>3

(* What fits in a UWORD is at most what it was before. *)
LEMMA UType ==
  ASSUME NEW x \in Int
  PROVE  U(x) \in Nat /\ (x >= 0 => U(x) <= x)
<1> UWord \in Nat \ {0}
  BY BinFileAssumption
<1> QED
  BY DEF U

(* _blkio stops at the first sector it cannot transfer, and there always   *)
(* is a place where it stops.                                              *)
LEMMA TransferredStops ==
  ASSUME NEW s \in Int, NEW n \in Nat, NEW good
  PROVE  LET k == Transferred(s, n, good)
         IN  /\ k \in 0 .. n
             /\ s .. s + k - 1 \subseteq good
             /\ k = n \/ s + k \notin good
<1> DEFINE Stop == {k \in 0 .. n : k = n \/ s + k \notin good}
<1>1. Stop \in SUBSET Nat /\ n \in Stop
  OBVIOUS
<1>2. PICK m \in Stop : \A k \in Stop : m <= k
  <2> HIDE DEF Stop
  <2> QED
    BY <1>1, SmallestElement
<1>3. ASSUME NEW t \in s .. s + m - 1
      PROVE  t \in good
  <2>1. t - s \in 0 .. n /\ t - s < m /\ s + (t - s) = t
    BY <1>1
  <2>2. t - s \notin Stop
    BY <1>1, <1>2, <2>1
  <2> QED
    BY <2>1, <2>2
<1>4. \E k \in 0 .. n : s .. s + k - 1 \subseteq good /\ (k = n \/ s + k \notin good)
  BY <1>3
<1> QED
  BY <1>4 DEF Transferred

-----------------------------------------------------------------------------
(* The disk. *)

(* The disk has only finitely many sectors. *)
Bounded(d) == \E b \in Nat : \A s \in DOMAIN d : s <= b

LEMMA PutSectorType ==
  ASSUME NEW d, DiskOK(d), Bounded(d), NEW s \in Nat, NEW sec \in Sector
  PROVE  DiskOK(PutSector(d, s, sec)) /\ Bounded(PutSector(d, s, sec))
<1>1. DiskOK(PutSector(d, s, sec))
  BY DEF DiskOK, PutSector
<1>2. PICK b \in Nat : \A t \in DOMAIN d : t <= b
  BY DEF Bounded
<1>3. DOMAIN d \subseteq Nat
  BY DEF DiskOK
<1>4. \A t \in DOMAIN d \cup {s} : t <= b + s
  BY <1>2, <1>3
<1>5. DOMAIN PutSector(d, s, sec) = DOMAIN d \cup {s}
  BY DEF PutSector
<1> QED
  BY <1>1, <1>4, <1>5 DEF Bounded

(* A disk with sectors has a last one. *)
LEMMA LastSectorType ==
  ASSUME NEW d, DOMAIN d \subseteq Nat, DOMAIN d # {}, Bounded(d)
  PROVE  LastSector(d) \in DOMAIN d /\ \A t \in DOMAIN d : t <= LastSector(d)
<1>1. \E s \in DOMAIN d : \A t \in DOMAIN d : t <= s
  BY GreatestElement DEF Bounded
<1> QED
  BY <1>1 DEF LastSector

LEMMA PutSectorsType ==
  ASSUME NEW d, DiskOK(d), Bounded(d), NEW s \in Nat, NEW n \in Nat,
         NEW src, \A j \in 1 .. n * SECSIZ : src[j] \in Byte
  PROVE  /\ DiskOK(PutSectors(d, s, n, src))
         /\ Bounded(PutSectors(d, s, n, src))
<1>0. SECSIZ \in Nat \ {0} /\ DOMAIN d \subseteq Nat
  BY CcbAssumption DEF DiskOK
<1>1. ASSUME NEW t \in s .. s + n - 1, NEW i \in 0 .. SECSIZ - 1
      PROVE  (t - s) * SECSIZ + i + 1 \in 1 .. n * SECSIZ
  <2>1. t - s \in Nat /\ t - s <= n - 1
    OBVIOUS
  <2>2. ASSUME NEW a \in Nat, a <= n - 1
        PROVE  a * SECSIZ + i + 1 \in 1 .. n * SECSIZ
    <3>1. a * SECSIZ \in Nat /\ n * SECSIZ \in Nat
      BY <1>0
    <3>2. a * SECSIZ + SECSIZ <= n * SECSIZ
      <4>1. (a + 1) * SECSIZ <= n * SECSIZ
        BY <1>0, <2>2
      <4> QED
        BY <1>0, <4>1
    <3> QED
      BY <1>0, <3>1, <3>2
  <2> QED
    BY <2>1, <2>2
<1> DEFINE D == DOMAIN d \cup (s .. s + n - 1)
           put(t) == [i \in 0 .. SECSIZ - 1 |-> src[(t - s) * SECSIZ + i + 1]]
<1>2. ASSUME NEW t \in s .. s + n - 1
      PROVE  put(t) \in Sector
  BY <1>1 DEF Sector
<1>3. D \subseteq Nat
  BY <1>0
<1>4. /\ DOMAIN PutSectors(d, s, n, src) = D
      /\ PutSectors(d, s, n, src) = [t \in D |-> PutSectors(d, s, n, src)[t]]
      /\ \A t \in D : PutSectors(d, s, n, src)[t] = IF t \in s .. s + n - 1 THEN put(t) ELSE d[t]
  BY DEF PutSectors
<1>5. \A t \in D : PutSectors(d, s, n, src)[t] \in Sector
  <2> HIDE DEF put
  <2> QED
    BY <1>2, <1>4 DEF DiskOK
<1>6. PICK b \in Nat : \A t \in DOMAIN d : t <= b
  BY DEF Bounded
<1>7. \A t \in D : t <= b + s + n
  BY <1>0, <1>6
<1> HIDE DEF D
<1>8. Bounded(PutSectors(d, s, n, src))
  <2>1. DOMAIN PutSectors(d, s, n, src) = D
    BY <1>4
  <2>2. b + s + n \in Nat
    OBVIOUS
  <2> QED
    BY <2>1, <2>2, <1>7 DEF Bounded
<1> QED
  BY <1>3, <1>4, <1>5, <1>8 DEF DiskOK

-----------------------------------------------------------------------------
(* The call in progress. *)

Access(f) == f.flags \cap {"OPENED", "ISREAD"}

(* DirtyOwned, of any CCB. *)
Owned(f) == "DIRTY" \in f.flags => /\ f.sector \in Nat
                                   /\ "OPENED" \in f.flags
                                   /\ "ISREAD" \notin f.flags

(* What every part of a call keeps: types, ownership of the dirty buffer,  *)
(* the access, and the disk of a channel that may not be written.          *)
Sound(f, d) == /\ f \in FCB /\ Owned(f) /\ Access(f) = Access(fp)
               /\ DiskOK(d) /\ Bounded(d)
               /\ Refused => d = disk

IInv == TypeOK /\ DirtyOwned /\ Bounded(disk)

LEMMA SoundStart == IInv => Sound(fp, disk)
BY DEF IInv, TypeOK, DirtyOwned, IsOpen, Sound, Owned

(* Changes of the CCB that need no more than a look at the types. *)
LEMMA SoundChange ==
  ASSUME NEW f, NEW d, Sound(f, d)
  PROVE  /\ \A x \in Nat \cup {-1} : Sound([f EXCEPT !.offset = x], d)
         /\ \A x \in Nat : Sound([f EXCEPT !.hiwater = x], d)
         /\ Sound([f EXCEPT !.flags = @ \cup {"ATEOF"}], d)
         /\ Sound([f EXCEPT !.flags = @ \ {"ATEOF"}], d)
         /\ Sound([f EXCEPT !.flags = @ \ {"DIRTY"}], d)
<1>0. f \in FCB
  BY DEF Sound
<1>1. ASSUME NEW x \in Nat \cup {-1} PROVE Sound([f EXCEPT !.offset = x], d)
  BY <1>0 DEF Sound, FCB, Owned, Access
<1>2. ASSUME NEW x \in Nat PROVE Sound([f EXCEPT !.hiwater = x], d)
  BY <1>0 DEF Sound, FCB, Owned, Access
<1>3. Sound([f EXCEPT !.flags = @ \cup {"ATEOF"}], d)
  BY <1>0 DEF Sound, FCB, Owned, Access, Flag
<1>4. Sound([f EXCEPT !.flags = @ \ {"ATEOF"}], d)
  BY <1>0 DEF Sound, FCB, Owned, Access, Flag
<1>5. Sound([f EXCEPT !.flags = @ \ {"DIRTY"}], d)
  BY <1>0 DEF Sound, FCB, Owned, Access, Flag
<1> QED
  BY <1>1, <1>2, <1>3, <1>4, <1>5

(* A dirty buffer can be written out: it has a label.                      *)
LEMMA SoundFlush ==
  ASSUME NEW c, Sound(c.fp, c.disk)
  PROVE  Sound(c.fp, FlushedDisk(c))
<1>1. CASE ~Dirty(c)
  BY <1>1 DEF FlushedDisk
<1>2. CASE Dirty(c)
  <2>1. c.fp.sector \in Nat /\ c.fp.buffer \in Sector
    BY <1>2 DEF Sound, Owned, Dirty, FCB
  <2>2. ~Refused
    BY <1>2 DEF Sound, Owned, Dirty, Access, Refused
  <2>3. DiskOK(c.disk) /\ Bounded(c.disk)
    BY DEF Sound
  <2>4. FlushedDisk(c) = PutSector(c.disk, c.fp.sector, c.fp.buffer)
    BY <1>2 DEF FlushedDisk
  <2>5. DiskOK(FlushedDisk(c)) /\ Bounded(FlushedDisk(c))
    BY <2>1, <2>3, <2>4, PutSectorType
  <2> QED
    BY <2>2, <2>5 DEF Sound
<1> QED
  BY <1>1, <1>2

(* The buffer takes another sector when it is not dirty.                   *)
LEMMA SoundLoad ==
  ASSUME NEW f, NEW d, Sound(f, d), "DIRTY" \notin f.flags,
         NEW s \in Nat, NEW sec \in Sector
  PROVE  Sound([f EXCEPT !.buffer = sec, !.sector = s], d)
BY DEF Sound, FCB, Owned, Access

ReadCall(c) ==
  /\ c \in [fp : FCB, disk : {c.disk}, moved : {c.moved}, left : Nat,
            done : BOOLEAN, ok : BOOLEAN]
  /\ Sound(c.fp, c.disk)

LEMMA ReadBegins ==
  ASSUME IInv, NEW n \in Nat
  PROVE  ReadCall(Begin(n))
BY SoundStart DEF ReadCall, Begin, Sound

LEMMA ReadEnds ==
  ASSUME NEW c, ReadCall(c)
  PROVE  /\ ReadCall(Fail(c)) /\ ReadCall(Return(c))
         /\ ReadCall(RaiseHiwater(c))
         /\ ReadCall([c EXCEPT !.fp.flags = @ \cup {"ATEOF"}])
<1>1. ReadCall(Fail(c)) /\ ReadCall(Return(c))
  BY DEF ReadCall, Fail, Return
<1>2. Greatest(c.fp.hiwater, c.fp.offset) \in Nat
  BY DEF ReadCall, FCB, Greatest
<1>3. /\ Sound([c.fp EXCEPT !.hiwater = Greatest(c.fp.hiwater, c.fp.offset)], c.disk)
      /\ Sound([c.fp EXCEPT !.flags = @ \cup {"ATEOF"}], c.disk)
  BY <1>2, SoundChange DEF ReadCall
<1>4. ReadCall(RaiseHiwater(c))
  BY <1>3 DEF ReadCall, RaiseHiwater, Sound
<1>5. ReadCall([c EXCEPT !.fp.flags = @ \cup {"ATEOF"}])
  BY <1>3 DEF ReadCall, Sound
<1> QED
  BY <1>1, <1>4, <1>5

LEMMA ReadFlushed ==
  ASSUME NEW c, ReadCall(c)
  PROVE  /\ ReadCall(Flush(c))
         /\ "DIRTY" \notin Flush(c).fp.flags
         /\ Flush(c).disk = FlushedDisk(c)
         /\ Flush(c).fp.offset = c.fp.offset
<1>1. Sound([c.fp EXCEPT !.flags = @ \ {"DIRTY"}], FlushedDisk(c))
  BY SoundFlush, SoundChange DEF ReadCall
<1>2. /\ Flush(c).fp = [c.fp EXCEPT !.flags = @ \ {"DIRTY"}]
      /\ Flush(c).disk = FlushedDisk(c)
      /\ Flush(c).moved = c.moved
  BY DEF ReadCall, Flush, FCB
<1>3. Flush(c) \in [fp : FCB, disk : {FlushedDisk(c)}, moved : {c.moved}, left : Nat,
                    done : BOOLEAN, ok : BOOLEAN]
  BY <1>1 DEF ReadCall, Flush, Sound
<1>4. Flush(c).fp.flags = c.fp.flags \ {"DIRTY"} /\ Flush(c).fp.offset = c.fp.offset
  BY <1>2 DEF ReadCall, FCB
<1>5. ReadCall(Flush(c))
  BY <1>1, <1>2, <1>3 DEF ReadCall
<1> QED
  BY <1>2, <1>4, <1>5

LEMMA ReadLoaded ==
  ASSUME NEW c, ReadCall(c), "DIRTY" \notin c.fp.flags, NEW s \in DOMAIN c.disk
  PROVE  ReadCall(Load(c, s))
<1>1. s \in Nat /\ c.disk[s] \in Sector
  BY DEF ReadCall, Sound, DiskOK
<1>2. Sound([c.fp EXCEPT !.buffer = c.disk[s], !.sector = s], c.disk)
  BY <1>1, SoundLoad DEF ReadCall
<1>3. /\ Load(c, s).fp = [c.fp EXCEPT !.buffer = c.disk[s], !.sector = s]
      /\ Load(c, s).disk = c.disk
      /\ Load(c, s).moved = c.moved
  BY DEF ReadCall, Load, FCB
<1>4. Load(c, s) \in [fp : FCB, disk : {c.disk}, moved : {c.moved}, left : Nat,
                      done : BOOLEAN, ok : BOOLEAN]
  BY <1>1 DEF ReadCall, Load, FCB
<1> QED
  BY <1>2, <1>3, <1>4 DEF ReadCall

(* k bytes to the caller, wherever they come from. *)
LEMMA ReadMoved ==
  ASSUME NEW c, ReadCall(c), NEW k \in Nat, k <= c.left, NEW bytes
  PROVE  ReadCall([c EXCEPT !.moved = @ \o bytes, !.fp.offset = @ + k, !.left = @ - k])
<1> DEFINE t == [c EXCEPT !.moved = @ \o bytes, !.fp.offset = @ + k, !.left = @ - k]
<1>1. c.fp.offset + k \in Nat \cup {-1} /\ c.left - k \in Nat
  BY DEF ReadCall, FCB
<1>2. Sound([c.fp EXCEPT !.offset = c.fp.offset + k], c.disk)
  BY <1>1, SoundChange DEF ReadCall
<1>3. /\ t.fp = [c.fp EXCEPT !.offset = c.fp.offset + k]
      /\ t.disk = c.disk
      /\ t.moved = c.moved \o bytes
  BY DEF ReadCall, FCB
<1>4. t \in [fp : FCB, disk : {c.disk}, moved : {c.moved \o bytes}, left : Nat,
             done : BOOLEAN, ok : BOOLEAN]
  BY <1>1 DEF ReadCall, FCB
<1> QED
  BY <1>2, <1>3, <1>4 DEF ReadCall

LEMMA ReadTaken ==
  ASSUME NEW c, ReadCall(c), NEW p \in 0 .. SECSIZ - 1
  PROVE  ReadCall(Take(c, p))
<1>0. c.left \in Nat
  BY DEF ReadCall
<1>1. Least(c.left, SECSIZ - p) \in Nat /\ Least(c.left, SECSIZ - p) <= c.left
  BY <1>0, CcbAssumption DEF Least
<1> QED
  BY <1>1, ReadMoved DEF Take

-----------------------------------------------------------------------------
(* The parts of _rdbin. *)

LEMMA ReadHeadSound ==
  ASSUME NEW c, ReadCall(c), NEW bad
  PROVE  ReadCall(ReadHead(c, bad))
<1> DEFINE s == c.fp.offset \div SECSIZ
           p == c.fp.offset % SECSIZ
           Got(d) == LET t == Take(d, p)
                     IN  IF t.left = 0 THEN Return(RaiseHiwater(t)) ELSE t
<1>1. p \in 0 .. SECSIZ - 1
  BY SectorArithmetic DEF ReadCall, FCB
<1>2. ASSUME NEW d, ReadCall(d) PROVE ReadCall(Got(d))
  <2>1. ReadCall(Take(d, p))
    BY <1>1, <1>2, ReadTaken
  <2> QED
    BY <2>1, ReadEnds
<1>3. CASE p = 0
  BY <1>3 DEF ReadHead
<1>4. CASE p # 0 /\ c.fp.sector = s
  <2>1. ReadHead(c, bad) = Got(c)
    BY <1>4 DEF ReadHead
  <2> QED
    BY <1>2, <2>1
<1>5. CASE p # 0 /\ c.fp.sector # s /\ ~CanFlush(c, bad)
  <2>1. ReadHead(c, bad) = Fail(c)
    BY <1>5 DEF ReadHead
  <2> QED
    BY <2>1, ReadEnds
<1>6. CASE p # 0 /\ c.fp.sector # s /\ CanFlush(c, bad) /\ s \notin DOMAIN FlushedDisk(c)
  <2>1. ReadHead(c, bad) = Fail(Flush(c))
    BY <1>6 DEF ReadHead
  <2> QED
    BY <2>1, ReadFlushed, ReadEnds
<1>7. CASE p # 0 /\ c.fp.sector # s /\ CanFlush(c, bad) /\ s \in DOMAIN FlushedDisk(c)
  <2>1. ReadHead(c, bad) = Got(Load(Flush(c), s))
    BY <1>7 DEF ReadHead
  <2>2. ReadCall(Load(Flush(c), s))
    BY <1>7, ReadFlushed, ReadLoaded
  <2> QED
    BY <1>2, <2>1, <2>2
<1> QED
  BY <1>3, <1>4, <1>5, <1>6, <1>7

LEMMA ReadDirectSound ==
  ASSUME NEW c, ReadCall(c)
  PROVE  ReadCall(ReadDirect(c))
<1> DEFINE s == c.fp.offset \div SECSIZ
           nsector == c.left \div SECSIZ
           i == Transferred(s, nsector, DOMAIN c.disk)
           m == [c EXCEPT !.moved = @ \o DiskBytes(c.disk, s, i),
                          !.fp.offset = @ + i * SECSIZ,
                          !.left = @ - i * SECSIZ]
           t == RaiseHiwater(m)
<1>1. s \in Int /\ nsector \in Nat /\ nsector * SECSIZ <= c.left
  <2>1. c.fp.offset \in Int /\ c.left \in Nat
    BY DEF ReadCall, FCB
  <2> QED
    BY <2>1, SectorArithmetic, WholeSectors
<1>2. i \in 0 .. nsector
  BY <1>1, TransferredStops
<1>3. i * SECSIZ \in Nat /\ i * SECSIZ <= c.left
  <2> HIDE DEF i, nsector
  <2>1. SECSIZ \in Nat /\ c.left \in Nat
    BY CcbAssumption DEF ReadCall
  <2>2. i * SECSIZ <= nsector * SECSIZ
    BY <1>1, <1>2, <2>1
  <2> QED
    BY <1>1, <1>2, <2>1, <2>2
<1>4. ReadCall(t)
  <2>1. ReadCall(m)
    BY <1>3, ReadMoved
  <2> QED
    BY <2>1, ReadEnds
<1>5. ReadDirect(c) = IF c.done            THEN c
                      ELSE IF i # nsector  THEN Return([t EXCEPT !.fp.flags = @ \cup {"ATEOF"}])
                      ELSE IF t.left = 0   THEN Return(t)
                      ELSE t
  BY DEF ReadDirect
<1> HIDE DEF i, nsector, t
<1> QED
  BY <1>4, <1>5, ReadEnds

LEMMA ReadTailSound ==
  ASSUME NEW c, ReadCall(c), NEW bad
  PROVE  ReadCall(ReadTail(c, bad))
<1> DEFINE s == c.fp.offset \div SECSIZ
           f == Flush(c)
<1>1. ReadCall(f) /\ "DIRTY" \notin f.fp.flags
  BY ReadFlushed
<1>2. 0 \in 0 .. SECSIZ - 1
  BY CcbAssumption
<1>3. ASSUME s \in DOMAIN f.disk
      PROVE  ReadCall(RaiseHiwater(Take(Load(f, s), 0)))
  BY <1>1, <1>2, <1>3, ReadLoaded, ReadTaken, ReadEnds
<1>4. ReadTail(c, bad) = IF c.done                  THEN c
                         ELSE IF ~CanFlush(c, bad)  THEN Fail(c)
                         ELSE IF s \notin DOMAIN f.disk
                              THEN Return([f EXCEPT !.fp.flags = @ \cup {"ATEOF"}])
                         ELSE Return(RaiseHiwater(Take(Load(f, s), 0)))
  BY DEF ReadTail
<1> HIDE DEF f, s
<1> QED
  BY <1>1, <1>3, <1>4, ReadEnds

LEMMA RdBinSound ==
  ASSUME IInv, NEW n \in Nat, NEW bad
  PROVE  LET c == RdBin(n, bad) IN Sound(c.fp, c.disk)
<1>1. ReadCall(ReadHead(Begin(n), bad))
  BY ReadBegins, ReadHeadSound
<1>2. ReadCall(ReadDirect(ReadHead(Begin(n), bad)))
  BY <1>1, ReadDirectSound
<1>3. ReadCall(ReadTail(ReadDirect(ReadHead(Begin(n), bad)), bad))
  BY <1>2, ReadTailSound
<1>4. RdBin(n, bad) = ReadTail(ReadDirect(ReadHead(Begin(n), bad)), bad)
  BY DEF RdBin
<1> QED
  BY <1>3, <1>4 DEF ReadCall

-----------------------------------------------------------------------------
(* The parts of _wrtbin. *)

WriteCall(c) ==
  /\ c \in [fp : FCB, disk : {c.disk}, data : Seq(Byte), sent : Nat, left : Nat,
            xsector : Nat, done : BOOLEAN, ok : BOOLEAN]
  /\ Sound(c.fp, c.disk)
  /\ c.sent + c.left = Len(c.data)
  /\ "OPENED" \in c.fp.flags /\ "ISREAD" \notin c.fp.flags /\ ~Refused

LEMMA WriteBegins ==
  ASSUME IInv, IsOpen, ~Refused, NEW data \in Seq(Byte)
  PROVE  WriteCall(BeginWrite(data))
<1>1. Sound(fp, disk) /\ fp \in FCB
  BY SoundStart DEF Sound
<1>2. U(fp.offset \div SECSIZ) \in Nat
  <2>1. fp.offset \in Int
    BY <1>1 DEF FCB
  <2>2. fp.offset \div SECSIZ \in Int
    BY <2>1, SectorArithmetic
  <2> QED
    BY <2>2, UType
<1> QED
  BY <1>1, <1>2 DEF WriteCall, BeginWrite, IsOpen, Refused

LEMMA WriteEnds ==
  ASSUME NEW c, WriteCall(c)
  PROVE  WriteCall(Fail(c)) /\ WriteCall(Return(c)) /\ WriteCall(RaiseHiwater(c))
<1>1. WriteCall(Fail(c)) /\ WriteCall(Return(c))
  BY DEF WriteCall, Fail, Return
<1>2. Greatest(c.fp.hiwater, c.fp.offset) \in Nat
  BY DEF WriteCall, FCB, Greatest
<1>3. Sound([c.fp EXCEPT !.hiwater = Greatest(c.fp.hiwater, c.fp.offset)], c.disk)
  BY <1>2, SoundChange DEF WriteCall
<1>4. WriteCall(RaiseHiwater(c))
  BY <1>3 DEF WriteCall, RaiseHiwater, Sound, FCB
<1> QED
  BY <1>1, <1>4

(* The buffer is filled, whatever its label says. *)
LEMMA WriteFilled ==
  ASSUME NEW c, WriteCall(c)
  PROVE  /\ WriteCall(Zeroed(c))
         /\ c.xsector \in DOMAIN c.disk => WriteCall(Preread(c))
<1>1. ASSUME NEW sec \in Sector
      PROVE  WriteCall([c EXCEPT !.fp.buffer = sec])
  <2>1. Sound([c.fp EXCEPT !.buffer = sec], c.disk)
    BY DEF WriteCall, Sound, FCB, Owned, Access
  <2> QED
    BY <2>1 DEF WriteCall, FCB
<1>2. Zeros \in Sector
  BY CcbAssumption DEF Zeros, Sector
<1>3. c.xsector \in DOMAIN c.disk => c.disk[c.xsector] \in Sector
  BY DEF WriteCall, Sound, DiskOK
<1> QED
  BY <1>1, <1>2, <1>3 DEF Zeroed, Preread

(* It gets a label, clean or dirty. *)
LEMMA WriteLabelled ==
  ASSUME NEW c, WriteCall(c), NEW x \in Nat
  PROVE  /\ WriteCall([c EXCEPT !.fp.flags = @ \ {"DIRTY"}, !.fp.sector = x])
         /\ WriteCall([c EXCEPT !.fp.flags = @ \cup {"DIRTY"}, !.fp.sector = x])
<1>1. ASSUME NEW fl \in {c.fp.flags \ {"DIRTY"}, c.fp.flags \cup {"DIRTY"}}
      PROVE  WriteCall([c EXCEPT !.fp.flags = fl, !.fp.sector = x])
  <2>0. fl \subseteq Flag /\ "OPENED" \in fl /\ "ISREAD" \notin fl
    BY DEF WriteCall, FCB, Flag
  <2>1. Sound([c.fp EXCEPT !.flags = fl, !.sector = x], c.disk)
    BY <2>0 DEF WriteCall, Sound, FCB, Owned, Access
  <2>2. /\ [c EXCEPT !.fp.flags = fl, !.fp.sector = x].fp = [c.fp EXCEPT !.flags = fl, !.sector = x]
        /\ [c EXCEPT !.fp.flags = fl, !.fp.sector = x].disk = c.disk
    BY DEF WriteCall, FCB
  <2> QED
    BY <2>0, <2>1, <2>2 DEF WriteCall, FCB
<1> QED
  BY <1>1

(* The caller's bytes are there to be taken, and they are bytes. *)
LEMMA WriteGiven ==
  ASSUME NEW c, WriteCall(c), NEW p \in 0 .. SECSIZ - 1, NEW n \in Nat, n <= c.left
  PROVE  WriteCall(Give(c, p, n)) /\ Give(c, p, n).xsector = c.xsector
<1> DEFINE sec == [i \in 0 .. SECSIZ - 1 |->
                     IF i \in p .. p + n - 1 THEN c.data[c.sent + i - p + 1] ELSE c.fp.buffer[i]]
           t == Give(c, p, n)
<1>1. sec \in Sector
  <2>1. ASSUME NEW i \in 0 .. SECSIZ - 1, i \in p .. p + n - 1
        PROVE  c.data[c.sent + i - p + 1] \in Byte
    <3>1. c.sent + i - p + 1 \in 1 .. Len(c.data)
      BY <2>1, CcbAssumption DEF WriteCall
    <3> QED
      BY <3>1 DEF WriteCall
  <2>2. \A i \in 0 .. SECSIZ - 1 : c.fp.buffer[i] \in Byte
    BY DEF WriteCall, FCB, Sector
  <2> QED
    BY <2>1, <2>2 DEF Sector
<1>2. c.fp.offset + n \in Nat \cup {-1}
  BY DEF WriteCall, FCB
<1>3. Sound([c.fp EXCEPT !.buffer = sec, !.offset = c.fp.offset + n], c.disk)
  <2> HIDE DEF sec
  <2> QED
    BY <1>1, <1>2 DEF WriteCall, Sound, FCB, Owned, Access
<1>4. t = [c EXCEPT !.fp.buffer = sec, !.fp.offset = @ + n, !.sent = @ + n, !.left = @ - n]
  BY DEF Give
<1>5. c.sent + n \in Nat /\ c.left - n \in Nat /\ (c.sent + n) + (c.left - n) = Len(c.data)
  BY DEF WriteCall
<1> HIDE DEF sec, t
<1>6. /\ t.fp = [c.fp EXCEPT !.buffer = sec, !.offset = c.fp.offset + n]
      /\ t.disk = c.disk /\ t.data = c.data
      /\ t.sent = c.sent + n /\ t.left = c.left - n /\ t.xsector = c.xsector
  BY <1>4 DEF WriteCall, FCB
<1>7. t \in [fp : FCB, disk : {c.disk}, data : Seq(Byte), sent : Nat, left : Nat,
             xsector : Nat, done : BOOLEAN, ok : BOOLEAN]
  BY <1>1, <1>2, <1>4, <1>5 DEF WriteCall, FCB
<1>8. t.fp.flags = c.fp.flags
  BY <1>6 DEF WriteCall, FCB
<1> QED
  BY <1>3, <1>5, <1>6, <1>7, <1>8 DEF WriteCall, t

LEMMA WriteLabelSound ==
  ASSUME NEW c, WriteCall(c), NEW bad
  PROVE  WriteCall(WriteLabel(c, bad))
<1> DEFINE f == [c EXCEPT !.disk = FlushedDisk(c)]
<1>1. WriteCall(f) /\ f.xsector = c.xsector
  <2>1. Sound(c.fp, FlushedDisk(c))
    BY SoundFlush DEF WriteCall
  <2>2. f.fp = c.fp /\ f.disk = FlushedDisk(c) /\ f.xsector = c.xsector
    BY DEF WriteCall
  <2> QED
    BY <2>1, <2>2 DEF WriteCall
<1>2. ASSUME NEW d, WriteCall(d) PROVE WriteCall(Label(d))
  <2>1. d.xsector \in Nat
    BY <1>2 DEF WriteCall
  <2> QED
    BY <1>2, <2>1, WriteLabelled DEF Label
<1>3. WriteCall(Label(Zeroed(f)))
  BY <1>1, <1>2, WriteFilled
<1>4. c.xsector \in DOMAIN f.disk => WriteCall(Label(Preread(f)))
  BY <1>1, <1>2, WriteFilled
<1>5. WriteLabel(c, bad) = IF c.fp.sector = c.xsector  THEN c
                           ELSE IF ~CanFlush(c, bad)   THEN Fail(c)
                           ELSE IF AboveHiwater(c)     THEN Label(Zeroed(f))
                           ELSE IF c.xsector \notin DOMAIN f.disk THEN Fail(f)
                           ELSE Label(Preread(f))
  BY DEF WriteLabel
<1> HIDE DEF f
<1> QED
  BY <1>1, <1>3, <1>4, <1>5, WriteEnds

(* The full buffer goes to the disk at once, and loses its label. *)
LEMMA WritePut ==
  ASSUME NEW c, WriteCall(c), NEW s \in Nat
  PROVE  WriteCall([c EXCEPT !.disk = PutSector(c.disk, s, c.fp.buffer),
                             !.fp.flags = @ \ {"DIRTY"}, !.fp.sector = -1,
                             !.xsector = U(@ + 1)])
<1> DEFINE d == PutSector(c.disk, s, c.fp.buffer)
           t == [c EXCEPT !.disk = d, !.fp.flags = @ \ {"DIRTY"}, !.fp.sector = -1,
                          !.xsector = U(@ + 1)]
<1>1. DiskOK(d) /\ Bounded(d)
  BY PutSectorType DEF WriteCall, Sound, FCB
<1>2. U(c.xsector + 1) \in Nat
  <2>1. c.xsector + 1 \in Int
    BY DEF WriteCall
  <2> QED
    BY <2>1, UType
<1> HIDE DEF d
<1>3. Sound([c.fp EXCEPT !.flags = @ \ {"DIRTY"}, !.sector = -1], d)
  BY <1>1 DEF WriteCall, Sound, FCB, Owned, Access
<1>4. /\ t.fp = [c.fp EXCEPT !.flags = @ \ {"DIRTY"}, !.sector = -1]
      /\ t.disk = d /\ t.data = c.data /\ t.sent = c.sent /\ t.left = c.left
  BY DEF WriteCall, FCB
<1>5. t \in [fp : FCB, disk : {d}, data : Seq(Byte), sent : Nat, left : Nat,
             xsector : Nat, done : BOOLEAN, ok : BOOLEAN]
  BY <1>2 DEF WriteCall, FCB
<1>6. t.fp.flags = c.fp.flags \ {"DIRTY"}
  BY <1>4 DEF WriteCall, FCB
<1>7. WriteCall(t)
  <2> HIDE DEF t
  <2> QED
    BY <1>3, <1>4, <1>5, <1>6 DEF WriteCall
<1> QED
  BY <1>7 DEF d

LEMMA WriteHeadSound ==
  ASSUME NEW c, WriteCall(c), NEW bad
  PROVE  WriteCall(WriteHead(c, bad))
<1> DEFINE p   == c.fp.offset % SECSIZ
           nbs == Buffered(c, p)
           g   == Give(c, p, nbs)
<1>1. p \in 0 .. SECSIZ - 1 /\ c.left \in Nat /\ c.xsector \in Nat
  BY SectorArithmetic DEF WriteCall, FCB
<1>2. nbs \in Nat /\ nbs <= c.left
  <2> HIDE DEF p
  <2> QED
    BY <1>1, CcbAssumption DEF Buffered
<1> HIDE DEF p, nbs
<1>3. WriteCall(g) /\ g.xsector = c.xsector
  BY <1>1, <1>2, WriteGiven
<1>4. g.disk = c.disk
  BY DEF WriteCall, Give
<1>5. WriteHead(c, bad) =
        IF c.done \/ nbs = 0       THEN c
        ELSE IF p + nbs # SECSIZ
             THEN [g EXCEPT !.fp.flags = @ \cup {"DIRTY"}, !.fp.sector = c.xsector]
        ELSE IF c.xsector \in bad  THEN Fail(g)
        ELSE [g EXCEPT !.disk = PutSector(c.disk, c.xsector, g.fp.buffer),
                       !.fp.flags = @ \ {"DIRTY"}, !.fp.sector = -1,
                       !.xsector = U(@ + 1)]
  BY DEF WriteHead, p, nbs
<1> HIDE DEF g
<1>6. WriteCall([g EXCEPT !.fp.flags = @ \cup {"DIRTY"}, !.fp.sector = c.xsector])
  BY <1>1, <1>3, WriteLabelled
<1>7. WriteCall([g EXCEPT !.disk = PutSector(c.disk, c.xsector, g.fp.buffer),
                          !.fp.flags = @ \ {"DIRTY"}, !.fp.sector = -1,
                          !.xsector = U(@ + 1)])
  BY <1>1, <1>3, <1>4, WritePut
<1>8. WriteCall(Fail(g))
  BY <1>3, WriteEnds
<1> QED
  BY <1>5, <1>6, <1>7, <1>8

LEMMA WriteDirectSound ==
  ASSUME NEW c, WriteCall(c), NEW bad
  PROVE  WriteCall(WriteDirect(c, bad))
<1> DEFINE nsector == U(c.left \div SECSIZ)
           k   == Transferred(c.xsector, nsector, Nat \ bad)
           nbs == U(nsector * SECSIZ)
           src == [j \in 1 .. k * SECSIZ |-> c.data[c.sent + j]]
           put == PutSectors(c.disk, c.xsector, k, src)
           d   == [c EXCEPT !.disk = put]
           e   == [d EXCEPT !.fp.offset = @ + nbs, !.sent = @ + nbs, !.left = @ - nbs,
                            !.xsector = U(@ + nsector)]
<1>0. /\ c.xsector \in Nat /\ c.left \in Nat /\ c.sent \in Nat
      /\ c.data \in Seq(Byte) /\ c.sent + c.left = Len(c.data)
      /\ SECSIZ \in Nat /\ c.fp.offset \in Nat \cup {-1}
  BY CcbAssumption DEF WriteCall, FCB
<1>1. nsector \in Nat /\ nsector * SECSIZ \in Nat /\ nsector * SECSIZ <= c.left
  <2>1. /\ c.left \div SECSIZ \in Nat /\ (c.left \div SECSIZ) * SECSIZ <= c.left
    BY <1>0, WholeSectors
  <2>2. nsector \in Nat /\ nsector <= c.left \div SECSIZ
    BY <2>1, UType
  <2> HIDE DEF nsector
  <2>3. /\ nsector * SECSIZ \in Nat /\ (c.left \div SECSIZ) * SECSIZ \in Nat
        /\ nsector * SECSIZ <= (c.left \div SECSIZ) * SECSIZ
    BY <1>0, <2>1, <2>2, Multiples
  <2> QED
    BY <1>0, <2>1, <2>2, <2>3
<1>2. nbs \in Nat /\ nbs <= c.left
  <2>1. nbs \in Nat /\ nbs <= nsector * SECSIZ
    <3> HIDE DEF nsector
    <3> QED
      BY <1>1, UType
  <2> QED
    BY <1>0, <1>1, <2>1
<1>3. k \in Nat /\ k * SECSIZ <= c.left /\ k * SECSIZ \in Nat
  <2>1. k \in 0 .. nsector
    <3> HIDE DEF nsector
    <3> QED
      BY <1>0, <1>1, TransferredStops
  <2> HIDE DEF k, nsector
  <2>2. k * SECSIZ <= nsector * SECSIZ /\ k * SECSIZ \in Nat
    BY <1>0, <1>1, <2>1
  <2> QED
    BY <1>0, <1>1, <2>1, <2>2
<1> HIDE DEF nsector, k, nbs
<1>4. \A j \in 1 .. k * SECSIZ : src[j] \in Byte
  <2>1. \A j \in 1 .. k * SECSIZ : c.sent + j \in 1 .. Len(c.data)
    BY <1>0, <1>3
  <2> QED
    BY <1>0, <2>1
<1> HIDE DEF src
<1>5. DiskOK(put) /\ Bounded(put)
  BY <1>0, <1>3, <1>4, PutSectorsType DEF WriteCall, Sound
<1> HIDE DEF put
<1>6. WriteCall(d)
  <2>1. Sound(c.fp, put)
    BY <1>5 DEF WriteCall, Sound
  <2> QED
    BY <2>1 DEF WriteCall
<1>7. d.xsector = c.xsector /\ d.fp = c.fp /\ d.left = c.left /\ d.sent = c.sent
  BY DEF WriteCall
<1> HIDE DEF d
<1>8. WriteCall(e)
  <2>1. U(d.xsector + nsector) \in Nat
    <3>1. d.xsector + nsector \in Int
      BY <1>0, <1>1, <1>7
    <3> QED
      BY <3>1, UType
  <2>2. /\ d.fp.offset + nbs \in Nat \cup {-1} /\ d.left - nbs \in Nat /\ d.sent + nbs \in Nat
        /\ (d.sent + nbs) + (d.left - nbs) = Len(d.data)
    <3>1. d.fp.offset \in Nat \cup {-1} /\ d.left \in Nat /\ d.sent \in Nat /\ nbs <= d.left
      BY <1>0, <1>2, <1>7
    <3>2. d.sent + d.left = Len(d.data)
      BY <1>6 DEF WriteCall
    <3> QED
      BY <1>2, <3>1, <3>2
  <2>3. Sound([d.fp EXCEPT !.offset = d.fp.offset + nbs], d.disk)
    BY <1>6, <2>2, SoundChange DEF WriteCall
  <2>4. /\ e.fp = [d.fp EXCEPT !.offset = d.fp.offset + nbs]
        /\ e.disk = d.disk /\ e.data = d.data /\ e.sent = d.sent + nbs /\ e.left = d.left - nbs
    BY <1>6 DEF WriteCall, FCB
  <2>5. e \in [fp : FCB, disk : {d.disk}, data : Seq(Byte), sent : Nat, left : Nat,
               xsector : Nat, done : BOOLEAN, ok : BOOLEAN]
    BY <1>6, <2>1, <2>2 DEF WriteCall, FCB
  <2>6. e.fp.flags = d.fp.flags
    BY <1>6, <2>4 DEF WriteCall, FCB
  <2> HIDE DEF e
  <2> QED
    BY <1>6, <2>2, <2>3, <2>4, <2>5, <2>6 DEF WriteCall
<1>9. WriteDirect(c, bad) = IF c.done \/ c.left < SECSIZ THEN c
                            ELSE IF k # nsector          THEN Fail(d)
                            ELSE e
  BY DEF WriteDirect, nsector, k, nbs, src, put, d
<1> HIDE DEF e
<1> QED
  BY <1>6, <1>8, <1>9, WriteEnds

LEMMA WriteTailSound ==
  ASSUME NEW c, WriteCall(c)
  PROVE  WriteCall(WriteTail(c))
<1> DEFINE Last(d) == [Give(d, 0, d.left) EXCEPT !.fp.flags = @ \cup {"DIRTY"},
                                                 !.fp.sector = c.xsector]
<1>1. ASSUME NEW d, WriteCall(d) PROVE WriteCall(Last(d))
  <2>1. 0 \in 0 .. SECSIZ - 1 /\ d.left \in Nat /\ c.xsector \in Nat
    BY <1>1, CcbAssumption DEF WriteCall
  <2>2. WriteCall(Give(d, 0, d.left))
    BY <1>1, <2>1, WriteGiven
  <2> QED
    BY <2>1, <2>2, WriteLabelled
<1>2. WriteCall(Last(Zeroed(c))) /\ (c.xsector \in DOMAIN c.disk => WriteCall(Last(Preread(c))))
  BY <1>1, WriteFilled
<1>3. WriteTail(c) = IF c.done \/ c.left = 0  THEN c
                     ELSE IF AboveHiwater(c)  THEN Last(Zeroed(c))
                     ELSE IF c.xsector \notin DOMAIN c.disk THEN Fail(c)
                     ELSE Last(Preread(c))
  BY DEF WriteTail
<1> HIDE DEF Last
<1> QED
  BY <1>2, <1>3, WriteEnds

LEMMA WrtBinSound ==
  ASSUME IInv, IsOpen, ~Refused, NEW data \in Seq(Byte), NEW bad
  PROVE  LET c == WrtBin(data, bad) IN Sound(c.fp, c.disk)
<1>1. WriteCall(WriteLabel(BeginWrite(data), bad))
  BY WriteBegins, WriteLabelSound
<1>2. WriteCall(WriteHead(WriteLabel(BeginWrite(data), bad), bad))
  BY <1>1, WriteHeadSound
<1>3. WriteCall(WriteTail(WriteDirect(WriteHead(WriteLabel(BeginWrite(data), bad), bad), bad)))
  BY <1>2, WriteDirectSound, WriteTailSound
<1> DEFINE tail == WriteTail(WriteDirect(WriteHead(WriteLabel(BeginWrite(data), bad), bad), bad))
<1>4. WriteCall(WriteEnd(tail))
  BY <1>3, WriteEnds DEF WriteEnd
<1>5. WrtBin(data, bad) = WriteEnd(tail)
  BY DEF WrtBin
<1> QED
  BY <1>4, <1>5 DEF WriteCall

-----------------------------------------------------------------------------
(* _filesz and lseek move the offset and the high water mark, and nothing  *)
(* else but ATEOF.                                                         *)

Moved(f, g) == /\ g \in FCB
               /\ g.flags \ {"ATEOF"} = f.flags \ {"ATEOF"}
               /\ g.sector = f.sector

LEMMA FileSizeType ==
  ASSUME NEW f \in FCB, NEW d, DiskOK(d), Bounded(d)
  PROVE  FileSize(f, d) \in Nat
<1>1. CASE "DIRTY" \in f.flags
  BY <1>1 DEF FileSize, FCB
<1>2. CASE "DIRTY" \notin f.flags /\ DOMAIN d = {}
  BY <1>2 DEF FileSize
<1>3. CASE "DIRTY" \notin f.flags /\ DOMAIN d # {}
  <2>1. LastSector(d) \in Nat
    BY <1>3, LastSectorType DEF DiskOK
  <2>2. SECSIZ * (1 + LastSector(d)) \in Nat
    BY <2>1, CcbAssumption
  <2> QED
    BY <1>3, <2>2 DEF FileSize
<1> QED
  BY <1>1, <1>2, <1>3

LEMMA FileszMoves ==
  ASSUME NEW f \in FCB, NEW d, DiskOK(d), Bounded(d)
  PROVE  Moved(f, Filesz(f, d))
<1> DEFINE size == FileSize(f, d)
<1>1. size \in Nat
  BY FileSizeType
<1>2. Filesz(f, d) = [f EXCEPT !.offset = size, !.hiwater = size, !.flags = @ \cup {"ATEOF"}]
  BY DEF Filesz
<1> HIDE DEF size
<1> QED
  BY <1>1, <1>2 DEF Moved, FCB, Flag

LEMMA SeekMoves ==
  ASSUME NEW f \in FCB, NEW d, DiskOK(d), Bounded(d), NEW offs \in Int, NEW sense \in Senses
  PROVE  Moved(f, Seeked(f, d, offs, sense))
<1> DEFINE g == IF sense = 2 THEN Filesz(f, d) ELSE f
           to == Target(g, offs, sense)
<1>1. Moved(f, g)
  BY FileszMoves DEF Moved
<1>2. Seeked(f, d, offs, sense) = MovedTo(g, to)
  BY DEF Seeked
<1> HIDE DEF g
<1>3. to \in Int
  BY <1>1 DEF Target, Senses, Moved, FCB
<1> HIDE DEF to
<1>4. (IF to < 0 THEN -1 ELSE to) \in Nat \cup {-1}
  BY <1>3
<1>5. Moved(g, MovedTo(g, to))
  BY <1>1, <1>4 DEF MovedTo, Moved, FCB, Flag
<1> QED
  BY <1>1, <1>2, <1>5 DEF Moved

LEMMA MovedOwned ==
  ASSUME NEW f, NEW g, Moved(f, g), Owned(f)
  PROVE  Owned(g)
<1>1. \A x \in {"DIRTY", "OPENED", "ISREAD"} : x \in g.flags <=> x \in f.flags
  BY DEF Moved
<1> QED
  BY <1>1 DEF Moved, Owned

-----------------------------------------------------------------------------
(* The calls.  Each keeps the invariant, and the disk when the channel was *)
(* opened for reading.                                                     *)

LEMMA InvInit == Init => IInv
<1> SUFFICES ASSUME Init PROVE IInv
  OBVIOUS
<1>1. Zeros \in Sector
  BY CcbAssumption DEF Zeros, Sector
<1>2. fp \in FCB /\ DirtyOwned
  BY <1>1 DEF Init, FCB, DirtyOwned
<1>3. DiskOK(disk) /\ Bounded(disk)
  BY DEF Init, DiskOK, Bounded
<1> QED
  BY <1>2, <1>3 DEF IInv, TypeOK

StepOK == /\ IInv'
          /\ IsOpen /\ "ISREAD" \in fp.flags => disk' = disk

LEMMA OwnedStep ==
  ASSUME fp' \in FCB, Owned(fp'), DiskOK(disk'), Bounded(disk')
  PROVE  IInv'
BY DEF IInv, TypeOK, DirtyOwned, IsOpen, Owned, DiskOK, Bounded, FCB, Sector, Flag

LEMMA SoundStep ==
  ASSUME Sound(fp', disk')
  PROVE  StepOK
BY OwnedStep DEF Sound, StepOK, Refused

LEMMA SameStep ==
  ASSUME IInv, UNCHANGED <<fp, disk>>
  PROVE  StepOK
BY SoundStart, SoundStep

LEMMA ReadStep ==
  ASSUME IInv, NEW n \in ReadSizes, NEW bad, Read(n, bad)
  PROVE  StepOK
<1>1. CASE "ATEOF" \in fp.flags
  BY <1>1, SameStep DEF Read
<1>2. CASE "ATEOF" \notin fp.flags
  <2>1. fp' = RdBin(n, bad).fp /\ disk' = RdBin(n, bad).disk
    BY <1>2 DEF Read
  <2>2. n \in Nat
    BY CcbAssumption
  <2> QED
    BY <2>1, <2>2, RdBinSound, SoundStep
<1> QED
  BY <1>1, <1>2

LEMMA WriteStep ==
  ASSUME IInv, NEW data \in Data, NEW bad, Write(data, bad)
  PROVE  StepOK
<1>1. CASE data = <<>> \/ Refused
  BY <1>1, SameStep DEF Write
<1>2. CASE data # <<>> /\ ~Refused
  <2>1. fp' = WrtBin(data, bad).fp /\ disk' = WrtBin(data, bad).disk /\ IsOpen
    BY <1>2 DEF Write
  <2>2. data \in Seq(Byte)
    BY CcbAssumption
  <2> QED
    BY <1>2, <2>1, <2>2, WrtBinSound, SoundStep
<1> QED
  BY <1>1, <1>2

LEMMA MovedStep ==
  ASSUME IInv, Moved(fp, fp'), disk' = disk
  PROVE  StepOK
<1>1. Owned(fp) /\ DiskOK(disk) /\ Bounded(disk)
  BY SoundStart DEF Sound
<1>2. Owned(fp') /\ fp' \in FCB
  BY <1>1, MovedOwned DEF Moved
<1> QED
  BY <1>1, <1>2, OwnedStep DEF StepOK

LEMMA LSeekStep ==
  ASSUME IInv, NEW seek \in Seeks, LSeek(seek[1], seek[2])
  PROVE  StepOK
<1>1. seek[1] \in Int
  BY CcbAssumption
<1>2. CASE seek[2] \in Senses
  <2>1. Moved(fp, fp') /\ disk' = disk
    BY <1>1, <1>2, SeekMoves DEF LSeek, IInv, TypeOK
  <2> QED
    BY <2>1, MovedStep
<1>3. CASE seek[2] \notin Senses
  BY <1>3, SameStep DEF LSeek
<1> QED
  BY <1>2, <1>3

LEMMA FStatStep ==
  ASSUME IInv, FStat
  PROVE  StepOK
<1>1. Moved(fp, Filesz(fp, disk)) /\ fp \in FCB
  BY FileszMoves DEF IInv, TypeOK
<1>2. fp' = [Filesz(fp, disk) EXCEPT !.offset = fp.offset] /\ disk' = disk
  BY DEF FStat
<1>3. Moved(fp, fp')
  BY <1>1, <1>2 DEF Moved, FCB
<1> QED
  BY <1>2, <1>3, MovedStep

LEMMA OpenStep ==
  ASSUME IInv, NEW mode, Open(mode)
  PROVE  StepOK
<1> DEFINE f == [Chinit(fp) EXCEPT !.flags = ModeFlags(mode)]
           g == Seeked(f, disk, 0, 2)
<1>1. DiskOK(disk) /\ Bounded(disk) /\ fp \in FCB
  BY DEF IInv, TypeOK
<1>2. f \in FCB /\ Owned(f)
  BY <1>1 DEF Chinit, ModeFlags, FCB, Flag, Owned
<1>3. fp' = Seeked(g, disk, 0, 0) /\ disk' = disk /\ ~IsOpen
  BY DEF Open
<1> HIDE DEF f
<1>4. Moved(f, g)
  BY <1>1, <1>2, SeekMoves DEF Senses
<1>5. Owned(g) /\ g \in FCB
  BY <1>2, <1>4, MovedOwned DEF Moved
<1> HIDE DEF g
<1>6. Moved(g, fp')
  BY <1>1, <1>3, <1>5, SeekMoves DEF Senses
<1>7. Owned(fp') /\ fp' \in FCB
  BY <1>5, <1>6, MovedOwned DEF Moved
<1> QED
  BY <1>1, <1>3, <1>7, OwnedStep DEF StepOK

LEMMA CreatStep ==
  ASSUME IInv, Creat
  PROVE  StepOK
<1>1. fp \in FCB
  BY DEF IInv, TypeOK
<1>2. fp' \in FCB /\ Owned(fp') /\ ~IsOpen
  BY <1>1 DEF Creat, Chinit, ModeFlags, FCB, Flag, Owned, READ, WRITE
<1>3. DiskOK(disk') /\ Bounded(disk')
  BY DEF Creat, DiskOK, Bounded
<1> QED
  BY <1>2, <1>3, OwnedStep DEF StepOK

LEMMA CloseStep ==
  ASSUME IInv, NEW bad, Close(bad)
  PROVE  StepOK
<1>1. Begin(0).fp = fp /\ Begin(0).disk = disk
  BY DEF Begin
<1>2. Sound(fp, disk) /\ Sound(fp, FlushedDisk(Begin(0)))
  BY <1>1, SoundStart, SoundFlush
<1>3. fp' \in FCB /\ Owned(fp')
  BY <1>2 DEF Close, Chinit, Sound, FCB, Owned
<1>4. disk' \in {disk, FlushedDisk(Begin(0))}
  BY DEF Close
<1>5. Sound(fp, disk')
  BY <1>2, <1>4
<1> QED
  BY <1>3, <1>5, OwnedStep DEF StepOK, Sound, Refused

LEMMA NextStep == IInv /\ [Next]_vars => StepOK
<1> SUFFICES ASSUME IInv, [Next]_vars PROVE StepOK
  OBVIOUS
<1>1. CASE Next
  BY <1>1, ReadStep, WriteStep, CloseStep, LSeekStep, FStatStep, OpenStep, CreatStep DEF Next
<1>2. CASE UNCHANGED vars
  BY <1>2, SameStep DEF vars
<1> QED
  BY <1>1, <1>2

-----------------------------------------------------------------------------
(* The theorems. *)

(* Every field keeps its type through every call (osif.h: struct ccb): the *)
(* offset is never below -1, the label is -1 or a sector, and the buffer   *)
(* and the sectors on the disk hold bytes the program wrote or zeros.      *)
THEOREM TypeThm == Spec => []TypeOK
<1>1. IInv /\ [Next]_vars => IInv'
  BY NextStep DEF StepOK
<1>2. IInv => TypeOK
  BY DEF IInv
<1> QED
  BY InvInit, <1>1, <1>2, PTL DEF Spec

(* A dirty buffer is always labelled with a sector, on a channel that is   *)
(* open and may be written, whichever sectors BDOS refuses and wherever    *)
(* _rdbin, _wrtbin, lseek and close return early.                          *)
THEOREM DirtyOwnedThm == Spec => []DirtyOwned
<1>1. IInv /\ [Next]_vars => IInv'
  BY NextStep DEF StepOK
<1>2. IInv => DirtyOwned
  BY DEF IInv
<1> QED
  BY InvInit, <1>1, <1>2, PTL DEF Spec

(* No call on a channel opened for reading changes the disk.               *)
THEOREM ReadOnlyThm == Spec => ReadOnlyKept
<1>1. IInv /\ [Next]_vars => IInv'
  BY NextStep DEF StepOK
<1>2. IInv /\ [Next]_vars => [IsOpen /\ "ISREAD" \in fp.flags => disk' = disk]_vars
  BY NextStep DEF StepOK
<1> QED
  BY InvInit, <1>1, <1>2, PTL DEF Spec, ReadOnlyKept

-----------------------------------------------------------------------------
(* A UWORD counts the bytes of any one write, and the sectors of the file: *)
(* the counters of _wrtbin do not wrap (writebin.c:43).                    *)
FitsUWord == MaxSector < UWord /\ \A data \in Data : Len(data) < UWord

-----------------------------------------------------------------------------
(* Offsets, by their sectors. *)

(* The offset x, by its sector and its place in it. *)
LEMMA Place ==
  ASSUME NEW x \in Int
  PROVE  \E q \in Int, r \in 0 .. SECSIZ - 1 :
           q = x \div SECSIZ /\ r = x % SECSIZ /\ x = (SECSIZ * q) + r
<1>1. SECSIZ \in Nat \ {0}
  BY CcbAssumption
<1> QED
  BY <1>1, Parts

LEMMA PlaceOf ==
  ASSUME NEW q \in Int, NEW r \in 0 .. SECSIZ - 1, NEW x, x = (SECSIZ * q) + r
  PROVE  x \div SECSIZ = q /\ x % SECSIZ = r
<1>1. SECSIZ \in Nat \ {0}
  BY CcbAssumption
<1> QED
  BY <1>1, Quotient

(* Steps within a sector, and over whole sectors. *)
LEMMA Within ==
  ASSUME NEW x \in Int, NEW t \in Int, (x % SECSIZ) + t \in 0 .. SECSIZ - 1
  PROVE  (x + t) \div SECSIZ = x \div SECSIZ /\ (x + t) % SECSIZ = (x % SECSIZ) + t
<1>1. SECSIZ \in Nat \ {0}
  BY CcbAssumption
<1> QED
  BY <1>1, Inside

LEMMA SectorsOn ==
  ASSUME NEW x \in Int, NEW k \in Int
  PROVE  /\ (x + k * SECSIZ) \div SECSIZ = (x \div SECSIZ) + k
         /\ (x + k * SECSIZ) % SECSIZ = x % SECSIZ
<1>1. SECSIZ \in Nat \ {0}
  BY CcbAssumption
<1>2. PICK y \in Int : y = x + k * SECSIZ
  BY <1>1
<1>3. y = x + (SECSIZ * k)
  BY <1>1, <1>2
<1>4. y \div SECSIZ = (x \div SECSIZ) + k /\ y % SECSIZ = x % SECSIZ
  BY <1>1, <1>3, Further
<1> QED
  BY <1>2, <1>4

(* Of two offsets the one in the earlier sector is smaller. *)
LEMMA Order ==
  ASSUME NEW x \in Int, NEW y \in Int
  PROVE  /\ x \div SECSIZ < y \div SECSIZ => x < y
         /\ x <= y => x \div SECSIZ <= y \div SECSIZ
<1>1. SECSIZ \in Nat \ {0}
  BY CcbAssumption
<1> QED
  BY <1>1, InOrder

(* An offset in the sector of another lies as far from it as their places. *)
LEMMA SameSector ==
  ASSUME NEW x \in Int, NEW y \in Int, x \div SECSIZ = y \div SECSIZ
  PROVE  x - y = (x % SECSIZ) - (y % SECSIZ)
<1>1. SECSIZ \in Nat \ {0}
  BY CcbAssumption
<1> QED
  BY <1>1, SameBlock

(* k sectors from an aligned offset on, and the offsets in them. *)
LEMMA Run ==
  ASSUME NEW x \in Int, x % SECSIZ = 0, NEW q, q = x \div SECSIZ,
         NEW k \in Nat, NEW e, e = x + k * SECSIZ,
         NEW i \in Int, NEW s, s = i \div SECSIZ
  PROVE  /\ s \in q .. q + k - 1 <=> i \in x .. e - 1
         /\ ((s - q) * SECSIZ) + (i % SECSIZ) + 1 = i - x + 1
<1>0. SECSIZ \in Nat \ {0} /\ e \in Int
  BY CcbAssumption
<1>1. q \in Int /\ x = SECSIZ * q
  BY <1>0, Division
<1>2. PICK t \in 0 .. SECSIZ - 1 : s \in Int /\ t = i % SECSIZ /\ i = (SECSIZ * s) + t
  BY Place
<1>4. e \div SECSIZ = q + k /\ e % SECSIZ = 0
  BY <1>1, SectorsOn
<1>5. i < x <=> s < q
  <2>1. s < q => i < x
    BY <1>1, <1>2, Order
  <2>2. s = q => i >= x
    BY <1>0, <1>2, <1>1
  <2>3. s > q => i > x
    BY <1>1, <1>2, Order
  <2> QED
    BY <1>1, <1>2, <2>1, <2>2, <2>3
<1>6. i < e <=> s < q + k
  <2>1. s < q + k => i < e
    BY <1>0, <1>1, <1>2, <1>4, Order
  <2>2. ASSUME s = q + k PROVE i >= e
    <3>1. i \div SECSIZ = e \div SECSIZ
      BY <1>2, <1>4, <2>2
    <3>2. i - e = (i % SECSIZ) - (e % SECSIZ)
      BY <1>0, <3>1, SameSector
    <3> QED
      BY <1>0, <1>2, <1>4, <3>2
  <2>3. s > q + k => i > e
    BY <1>0, <1>1, <1>2, <1>4, Order
  <2> QED
    BY <1>0, <1>1, <1>2, <2>1, <2>2, <2>3
<1>7. ((s - q) * SECSIZ) + t = i - x
  <2>1. (s - q) * SECSIZ = (SECSIZ * s) - (SECSIZ * q)
    BY <1>0, <1>1, <1>2
  <2> QED
    BY <1>0, <1>1, <1>2, <2>1
<1>8. s \in q .. q + k - 1 <=> i \in x .. e - 1
  BY <1>0, <1>1, <1>2, <1>5, <1>6
<1>9. ((s - q) * SECSIZ) + (i % SECSIZ) + 1 = i - x + 1
  <2>1. (s - q) * SECSIZ \in Int
    BY <1>0, <1>1, <1>2
  <2> QED
    BY <1>2, <1>7, <2>1
<1> QED
  BY <1>8, <1>9

-----------------------------------------------------------------------------
(* UWORDs that do not wrap. *)

LEMMA UExact ==
  ASSUME NEW x \in Nat, x < UWord
  PROVE  U(x) = x
<1>1. UWord \in Nat \ {0}
  BY BinFileAssumption
<1>2. x = (UWord * 0) + x /\ x \in 0 .. UWord - 1
  BY <1>1
<1> QED
  BY <1>1, <1>2, Quotient DEF U

LEMMA UMinusOne == U(-1) = UWord - 1
<1>1. UWord \in Nat \ {0}
  BY BinFileAssumption
<1>2. PICK x \in Int, q \in Int, r \in 0 .. UWord - 1 : x = -1 /\ q = -1 /\ r = UWord - 1
  BY <1>1
<1>3. x = (UWord * q) + r
  BY <1>1, <1>2
<1>4. x % UWord = r
  BY <1>1, <1>3, Quotient
<1> QED
  BY <1>2, <1>4 DEF U

LEMMA UAdds ==
  ASSUME NEW a \in Int, NEW n \in Int
  PROVE  U(U(a) + n) = U(a + n)
<1>0. UWord \in Nat \ {0}
  BY BinFileAssumption
<1>1. PICK k \in Int, u \in 0 .. UWord - 1 : k = a \div UWord /\ u = a % UWord /\ a = (UWord * k) + u
  BY <1>0, Parts
<1>2. PICK x \in Int : x = u + n
  BY <1>0
<1>3. PICK y \in Int : y = a + n
  OBVIOUS
<1>4. y = x + (UWord * k)
  BY <1>0, <1>1, <1>2, <1>3
<1>5. y % UWord = x % UWord
  BY <1>0, <1>4, Further
<1> QED
  BY <1>1, <1>2, <1>3, <1>5 DEF U

-----------------------------------------------------------------------------
(* The byte a CCB and a disk show at an offset: Shown, of any of them.     *)
At(f, d, i) ==
  LET s == i \div SECSIZ
  IN  IF "DIRTY" \in f.flags /\ f.sector = s THEN f.buffer[i % SECSIZ]
      ELSE IF s \in DOMAIN d THEN d[s][i % SECSIZ]
      ELSE None

LEMMA ShownAt ==
  ASSUME NEW i
  PROVE  Shown(i) = At(fp, disk, i)
BY DEF Shown, At

LEMMA ShownAtNext ==
  ASSUME NEW CONSTANT i
  PROVE  (Shown(i))' = At(fp', disk', i)
BY DEF Shown, At

(* What shows depends on the label, the buffer and the dirty bit only. *)
Alike(f, g) == /\ f.sector = g.sector /\ f.buffer = g.buffer
               /\ "DIRTY" \in f.flags <=> "DIRTY" \in g.flags

LEMMA AlikeAt ==
  ASSUME NEW f, NEW g, Alike(f, g), NEW d, NEW i
  PROVE  At(f, d, i) = At(g, d, i)
BY DEF Alike, At

(* Written out, a dirty buffer shows as before. *)
LEMMA FlushedAt ==
  ASSUME NEW c, Sound(c.fp, c.disk), NEW i \in Nat,
         NEW g, "DIRTY" \notin g.flags
  PROVE  At(g, FlushedDisk(c), i) = At(c.fp, c.disk, i)
<1>1. CASE ~Dirty(c)
  BY <1>1 DEF FlushedDisk, Dirty, At
<1>2. CASE Dirty(c)
  BY <1>2 DEF FlushedDisk, Dirty, At, PutSector
<1> QED
  BY <1>1, <1>2

-----------------------------------------------------------------------------
(* A dirty buffer holds a sector that the high water mark covers.  (After  *)
(* a seek to -1 the label is the UWORD of -1, and no sector of the file.)  *)
Covered(f) ==
  "DIRTY" \in f.flags /\ f.sector < MaxSector => f.sector <= (f.hiwater - 1) \div SECSIZ

LEMMA CoveredHigher ==
  ASSUME NEW f \in FCB, Covered(f), NEW g \in FCB, Alike(g, f), g.hiwater >= f.hiwater
  PROVE  Covered(g)
<1>1. PICK a \in Nat, b \in Nat : a = f.hiwater /\ b = g.hiwater
  BY DEF FCB
<1>2. /\ (a - 1) \div SECSIZ \in Int /\ (b - 1) \div SECSIZ \in Int
      /\ (a - 1) \div SECSIZ <= (b - 1) \div SECSIZ
  <2>1. a - 1 \in Int /\ b - 1 \in Int /\ a - 1 <= b - 1
    BY <1>1
  <2> QED
    BY <2>1, Order, SectorArithmetic
<1>3. f.sector \in Int /\ g.sector = f.sector
  BY DEF FCB, Alike
<1> QED
  BY <1>1, <1>2, <1>3 DEF Covered, Alike

(* The reading calls show the same bytes after any part of them. *)

Same(c) == /\ Covered(c.fp)
           /\ \A i \in Nat : At(c.fp, c.disk, i) = Shown(i)

LEMMA SameAlike ==
  ASSUME NEW c, c.fp \in FCB, Same(c),
         NEW t, t.fp \in FCB, t.disk = c.disk, Alike(t.fp, c.fp), t.fp.hiwater >= c.fp.hiwater
  PROVE  Same(t)
BY AlikeAt, CoveredHigher DEF Same

LEMMA SameEnds ==
  ASSUME NEW c, ReadCall(c), Same(c)
  PROVE  /\ Same(Fail(c)) /\ Same(Return(c)) /\ Same(RaiseHiwater(c))
         /\ Same([c EXCEPT !.fp.flags = @ \cup {"ATEOF"}])
<1>1. /\ Fail(c).fp = c.fp /\ Fail(c).disk = c.disk
      /\ Return(c).fp = c.fp /\ Return(c).disk = c.disk
  BY DEF ReadCall, Fail, Return
<1>2. RaiseHiwater(c).disk = c.disk /\ Alike(RaiseHiwater(c).fp, c.fp)
  BY DEF ReadCall, RaiseHiwater, Alike, FCB
<1>3. LET t == [c EXCEPT !.fp.flags = @ \cup {"ATEOF"}]
      IN  t.disk = c.disk /\ Alike(t.fp, c.fp)
  BY DEF ReadCall, Alike, FCB
<1>4. Alike(c.fp, c.fp)
  BY DEF Alike
<1>5. /\ c.fp \in FCB /\ c.fp.hiwater >= c.fp.hiwater
      /\ RaiseHiwater(c).fp \in FCB /\ RaiseHiwater(c).fp.hiwater >= c.fp.hiwater
  BY ReadEnds DEF ReadCall, RaiseHiwater, FCB, Greatest
<1>6. LET t == [c EXCEPT !.fp.flags = @ \cup {"ATEOF"}]
      IN  t.fp \in FCB /\ t.fp.hiwater >= c.fp.hiwater
  BY DEF ReadCall, FCB, Flag
<1> QED
  BY <1>1, <1>2, <1>3, <1>4, <1>5, <1>6, SameAlike

LEMMA SameFlushed ==
  ASSUME NEW c, ReadCall(c), Same(c)
  PROVE  Same(Flush(c))
<1>1. "DIRTY" \notin Flush(c).fp.flags /\ Flush(c).disk = FlushedDisk(c)
  BY ReadFlushed
<1> QED
  BY <1>1, FlushedAt DEF Same, Covered, ReadCall

LEMMA SameLoaded ==
  ASSUME NEW c, ReadCall(c), Same(c), "DIRTY" \notin c.fp.flags, NEW s \in DOMAIN c.disk
  PROVE  Same(Load(c, s))
<1>1. /\ Load(c, s).fp.flags = c.fp.flags
      /\ Load(c, s).disk = c.disk
  BY DEF ReadCall, Load, FCB
<1> QED
  BY <1>1 DEF Same, Covered, At

LEMMA SameMoved ==
  ASSUME NEW c, ReadCall(c), Same(c), NEW k \in Nat, NEW bytes
  PROVE  Same([c EXCEPT !.moved = @ \o bytes, !.fp.offset = @ + k, !.left = @ - k])
<1> DEFINE t == [c EXCEPT !.moved = @ \o bytes, !.fp.offset = @ + k, !.left = @ - k]
<1>1. t.disk = c.disk /\ Alike(t.fp, c.fp)
  BY DEF ReadCall, Alike, FCB
<1>2. c.fp \in FCB /\ t.fp \in FCB /\ t.fp.hiwater >= c.fp.hiwater
  BY DEF ReadCall, FCB
<1> QED
  BY <1>1, <1>2, SameAlike

LEMMA SameTaken ==
  ASSUME NEW c, ReadCall(c), Same(c), NEW p \in 0 .. SECSIZ - 1
  PROVE  Same(Take(c, p))
<1>1. Least(c.left, SECSIZ - p) \in Nat
  BY CcbAssumption DEF ReadCall, Least
<1> QED
  BY <1>1, SameMoved DEF Take

LEMMA ReadHeadSame ==
  ASSUME NEW c, ReadCall(c), Same(c), NEW bad
  PROVE  Same(ReadHead(c, bad))
<1> DEFINE s == c.fp.offset \div SECSIZ
           p == c.fp.offset % SECSIZ
           Got(d) == LET t == Take(d, p)
                     IN  IF t.left = 0 THEN Return(RaiseHiwater(t)) ELSE t
<1>1. p \in 0 .. SECSIZ - 1
  BY SectorArithmetic DEF ReadCall, FCB
<1>2. ASSUME NEW d, ReadCall(d), Same(d) PROVE Same(Got(d))
  <2>1. ReadCall(Take(d, p)) /\ Same(Take(d, p))
    BY <1>1, <1>2, ReadTaken, SameTaken
  <2> QED
    BY <2>1, SameEnds, ReadEnds
<1>3. ReadCall(Flush(c)) /\ Same(Flush(c)) /\ "DIRTY" \notin Flush(c).fp.flags
  BY ReadFlushed, SameFlushed
<1>4. s \in DOMAIN Flush(c).disk => ReadCall(Load(Flush(c), s)) /\ Same(Load(Flush(c), s))
  BY <1>3, ReadLoaded, SameLoaded
<1>5. Flush(c).disk = FlushedDisk(c)
  BY ReadFlushed
<1>6. ReadHead(c, bad) =
        IF p = 0                        THEN c
        ELSE IF c.fp.sector = s         THEN Got(c)
        ELSE IF ~CanFlush(c, bad)       THEN Fail(c)
        ELSE IF s \notin DOMAIN FlushedDisk(c) THEN Fail(Flush(c))
        ELSE Got(Load(Flush(c), s))
  BY DEF ReadHead
<1> HIDE DEF Got, s, p
<1> QED
  BY <1>2, <1>3, <1>4, <1>5, <1>6, SameEnds

LEMMA ReadDirectCount ==
  ASSUME NEW c, ReadCall(c)
  PROVE  LET i == Transferred(c.fp.offset \div SECSIZ, c.left \div SECSIZ, DOMAIN c.disk)
         IN  i \in Nat /\ i * SECSIZ \in Nat /\ i * SECSIZ <= c.left
<1> DEFINE s == c.fp.offset \div SECSIZ
           n == c.left \div SECSIZ
           i == Transferred(s, n, DOMAIN c.disk)
<1>1. c.fp.offset \in Int /\ c.left \in Nat /\ SECSIZ \in Nat
  BY CcbAssumption DEF ReadCall, FCB
<1>2. s \in Int /\ n \in Nat /\ n * SECSIZ <= c.left
  BY <1>1, SectorArithmetic, WholeSectors
<1> HIDE DEF s, n
<1>3. i \in 0 .. n
  BY <1>2, TransferredStops
<1> HIDE DEF i
<1>4. i * SECSIZ <= n * SECSIZ /\ i * SECSIZ \in Nat /\ n * SECSIZ \in Nat
  BY <1>1, <1>2, <1>3, Multiples
<1>5. i \in Nat /\ i * SECSIZ \in Nat /\ i * SECSIZ <= c.left
  BY <1>1, <1>2, <1>3, <1>4
<1> QED
  BY <1>5 DEF i, s, n

LEMMA ReadDirectSame ==
  ASSUME NEW c, ReadCall(c), Same(c)
  PROVE  Same(ReadDirect(c))
<1> DEFINE i == Transferred(c.fp.offset \div SECSIZ, c.left \div SECSIZ, DOMAIN c.disk)
           m == [c EXCEPT !.moved = @ \o DiskBytes(c.disk, c.fp.offset \div SECSIZ, i),
                          !.fp.offset = @ + i * SECSIZ,
                          !.left = @ - i * SECSIZ]
           t == RaiseHiwater(m)
<1>1. ReadCall(m) /\ Same(m)
  <2>1. i * SECSIZ \in Nat /\ i * SECSIZ <= c.left
    BY ReadDirectCount
  <2> QED
    BY <2>1, ReadMoved, SameMoved
<1>2. ReadCall(t) /\ Same(t)
  BY <1>1, ReadEnds, SameEnds
<1>3. ReadDirect(c) = IF c.done            THEN c
                      ELSE IF i # c.left \div SECSIZ
                           THEN Return([t EXCEPT !.fp.flags = @ \cup {"ATEOF"}])
                      ELSE IF t.left = 0   THEN Return(t)
                      ELSE t
  BY DEF ReadDirect
<1> HIDE DEF t
<1> QED
  BY <1>2, <1>3, ReadEnds, SameEnds

LEMMA ReadTailSame ==
  ASSUME NEW c, ReadCall(c), Same(c), NEW bad
  PROVE  Same(ReadTail(c, bad))
<1> DEFINE s == c.fp.offset \div SECSIZ
           f == Flush(c)
<1>1. ReadCall(f) /\ "DIRTY" \notin f.fp.flags /\ Same(f)
  BY ReadFlushed, SameFlushed
<1>2. 0 \in 0 .. SECSIZ - 1
  BY CcbAssumption
<1>3. ASSUME s \in DOMAIN f.disk
      PROVE  Same(Return(RaiseHiwater(Take(Load(f, s), 0))))
  <2>1. ReadCall(Load(f, s)) /\ Same(Load(f, s))
    BY <1>1, <1>3, ReadLoaded, SameLoaded
  <2>2. ReadCall(Take(Load(f, s), 0)) /\ Same(Take(Load(f, s), 0))
    BY <1>2, <2>1, ReadTaken, SameTaken
  <2> QED
    BY <2>2, ReadEnds, SameEnds
<1>4. ReadTail(c, bad) = IF c.done                  THEN c
                         ELSE IF ~CanFlush(c, bad)  THEN Fail(c)
                         ELSE IF s \notin DOMAIN f.disk
                              THEN Return([f EXCEPT !.fp.flags = @ \cup {"ATEOF"}])
                         ELSE Return(RaiseHiwater(Take(Load(f, s), 0)))
  BY DEF ReadTail
<1> HIDE DEF f, s
<1> QED
  BY <1>1, <1>3, <1>4, ReadEnds, SameEnds

LEMMA RdBinSame ==
  ASSUME IInv, Covered(fp), NEW n \in Nat, NEW bad
  PROVE  Same(RdBin(n, bad))
<1>1. ReadCall(Begin(n)) /\ Same(Begin(n))
  BY ReadBegins, ShownAt DEF Begin, Same
<1>2. ReadCall(ReadHead(Begin(n), bad)) /\ Same(ReadHead(Begin(n), bad))
  BY <1>1, ReadHeadSound, ReadHeadSame
<1>3. LET d == ReadDirect(ReadHead(Begin(n), bad)) IN ReadCall(d) /\ Same(d)
  BY <1>2, ReadDirectSound, ReadDirectSame
<1>4. Same(ReadTail(ReadDirect(ReadHead(Begin(n), bad)), bad))
  BY <1>3, ReadTailSame
<1>5. RdBin(n, bad) = ReadTail(ReadDirect(ReadHead(Begin(n), bad)), bad)
  BY DEF RdBin
<1> QED
  BY <1>4, <1>5

-----------------------------------------------------------------------------
(* A write that is carried out, and what is known of it between any two    *)
(* parts: how far it is, and why the buffer is labelled as it is.          *)

Writes(data) == /\ IInv /\ IsOpen /\ ~Refused
                /\ data \in Seq(Byte) /\ data # <<>> /\ Fits(Len(data))
                /\ MaxSector < UWord /\ Len(data) < UWord

Progress(c, data) ==
  /\ WriteCall(c) /\ c.data = data
  /\ c.fp.hiwater = fp.hiwater
  /\ c.fp.offset = fp.offset + c.sent
  /\ "ATEOF" \in c.fp.flags <=> "ATEOF" \in fp.flags
  /\ c.done <=> ~c.ok

OldDirty(c) == "DIRTY" \in c.fp.flags => "DIRTY" \in fp.flags /\ fp.sector = c.fp.sector

(* The buffer holds the last bytes, is empty, or has been passed over.     *)
Filled(c) == /\ c.left = 0 /\ "DIRTY" \in c.fp.flags
             /\ c.fp.sector = U((c.fp.offset - 1) \div SECSIZ)
Put(c)    == "DIRTY" \notin c.fp.flags /\ c.fp.sector = -1
Passed(c) == /\ fp.offset % SECSIZ = 0 /\ c.fp.sector = U(fp.offset \div SECSIZ)
             /\ OldDirty(c)

AtSector(c) == c.xsector = U(c.fp.offset \div SECSIZ)
AtStart(c)  == AtSector(c) /\ c.fp.offset % SECSIZ = 0

(* It has bytes left for a sector that is not there, below the high water  *)
(* mark.                                                                   *)
Gap(c) == /\ AtSector(c) /\ c.xsector \notin DOMAIN c.disk /\ c.left > 0
          /\ c.fp.offset \div SECSIZ <= (fp.hiwater - 1) \div SECSIZ

(* A call that has ended before it was done.  When BDOS refuses nothing,   *)
(* it is because of such a gap.                                            *)
Broken(c, bad) ==
  /\ OldDirty(c)
  /\ bad = {} => /\ Gap(c)
                 /\ \/ c.fp = fp /\ c.fp.sector # c.xsector
                    \/ Put(c)
                    \/ Passed(c) /\ c.sent >= SECSIZ

Labelled(c, data, bad) ==
  /\ Progress(c, data)
  /\ c.sent = 0
  /\ IF c.done THEN Broken(c, bad)
     ELSE AtSector(c) /\ c.fp.sector = c.xsector /\ OldDirty(c)

Headed(c, data, bad) ==
  /\ Progress(c, data)
  /\ IF c.done THEN Broken(c, bad)
     ELSE \/ Filled(c)
          \/ AtStart(c) /\ Put(c)
          \/ AtStart(c) /\ Passed(c) /\ c.sent = 0 /\ c.left >= SECSIZ

Directed(c, data, bad) ==
  /\ Progress(c, data)
  /\ IF c.done THEN Broken(c, bad)
     ELSE \/ Filled(c)
          \/ AtStart(c) /\ c.left < SECSIZ /\ Put(c)
          \/ AtStart(c) /\ c.left < SECSIZ /\ Passed(c) /\ c.sent >= SECSIZ

Written(c, data, bad) ==
  /\ Progress(c, data)
  /\ IF c.done THEN Broken(c, bad)
     ELSE c.left = 0 /\ (Filled(c) \/ Put(c) \/ (Passed(c) /\ c.sent >= SECSIZ))

-----------------------------------------------------------------------------
(* The fields that the parts of a write change. *)

LEMMA WriteFields ==
  ASSUME NEW c, WriteCall(c)
  PROVE  /\ c.fp \in FCB /\ c.fp.buffer \in Sector /\ c.fp.sector \in Nat \cup {-1}
         /\ c.fp.offset \in Nat \cup {-1} /\ c.fp.hiwater \in Nat
         /\ c.sent \in Nat /\ c.left \in Nat /\ c.sent + c.left = Len(c.data)
         /\ c.xsector \in Nat /\ c.data \in Seq(Byte)
         /\ c.done \in BOOLEAN /\ c.ok \in BOOLEAN
         /\ Sound(c.fp, c.disk)
BY DEF WriteCall, FCB

LEMMA FailFields ==
  ASSUME NEW c, WriteCall(c)
  PROVE  /\ Fail(c).fp = c.fp /\ Fail(c).disk = c.disk /\ Fail(c).data = c.data
         /\ Fail(c).sent = c.sent /\ Fail(c).left = c.left /\ Fail(c).xsector = c.xsector
         /\ Fail(c).done = TRUE /\ Fail(c).ok = FALSE
BY DEF WriteCall, Fail

(* A sector that the writers do not take for a new one. *)
LEMMA BelowMark ==
  ASSUME NEW c, WriteCall(c), c.fp.hiwater = fp.hiwater, ~AboveHiwater(c)
  PROVE  c.fp.offset \div SECSIZ <= (fp.hiwater - 1) \div SECSIZ
<1>1. c.fp.offset \in Int /\ fp.hiwater \in Nat
  BY WriteFields
<1>2. PICK w \in Int : w = fp.hiwater - 1
  BY <1>1
<1>3. c.fp.offset \div SECSIZ \in Int /\ w \div SECSIZ \in Int
  BY <1>1, SectorArithmetic
<1>4. ~(c.fp.offset \div SECSIZ > w \div SECSIZ)
  BY <1>2 DEF AboveHiwater
<1> QED
  BY <1>2, <1>3, <1>4

LEMMA GiveFields ==
  ASSUME NEW c, WriteCall(c), NEW p, NEW n, NEW g, g = Give(c, p, n)
  PROVE  /\ g.fp.flags = c.fp.flags /\ g.fp.sector = c.fp.sector
         /\ g.fp.hiwater = c.fp.hiwater /\ g.fp.offset = c.fp.offset + n
         /\ \A i \in 0 .. SECSIZ - 1 :
              g.fp.buffer[i] = IF i \in p .. p + n - 1 THEN c.data[c.sent + i - p + 1]
                               ELSE c.fp.buffer[i]
         /\ g.disk = c.disk /\ g.data = c.data /\ g.xsector = c.xsector
         /\ g.sent = c.sent + n /\ g.left = c.left - n
         /\ g.done = c.done /\ g.ok = c.ok
BY DEF WriteCall, FCB, Give

Dirtied(c, x) == [c EXCEPT !.fp.flags = @ \cup {"DIRTY"}, !.fp.sector = x]

LEMMA DirtiedFields ==
  ASSUME NEW c, WriteCall(c), NEW x, NEW g, g = Dirtied(c, x)
  PROVE  /\ "DIRTY" \in g.fp.flags /\ g.fp.sector = x
         /\ "ATEOF" \in g.fp.flags <=> "ATEOF" \in c.fp.flags
         /\ g.fp.hiwater = c.fp.hiwater /\ g.fp.offset = c.fp.offset
         /\ g.fp.buffer = c.fp.buffer
         /\ g.disk = c.disk /\ g.data = c.data /\ g.xsector = c.xsector
         /\ g.sent = c.sent /\ g.left = c.left
         /\ g.done = c.done /\ g.ok = c.ok
BY DEF WriteCall, FCB, Dirtied

Stored(c, d, x) ==
  [c EXCEPT !.disk = d, !.fp.flags = @ \ {"DIRTY"}, !.fp.sector = -1, !.xsector = x]

LEMMA StoredFields ==
  ASSUME NEW c, WriteCall(c), NEW d, NEW x, NEW g, g = Stored(c, d, x)
  PROVE  /\ "DIRTY" \notin g.fp.flags /\ g.fp.sector = -1
         /\ "ATEOF" \in g.fp.flags <=> "ATEOF" \in c.fp.flags
         /\ g.fp.hiwater = c.fp.hiwater /\ g.fp.offset = c.fp.offset
         /\ g.fp.buffer = c.fp.buffer
         /\ g.disk = d /\ g.data = c.data /\ g.xsector = x
         /\ g.sent = c.sent /\ g.left = c.left
         /\ g.done = c.done /\ g.ok = c.ok
BY DEF WriteCall, FCB, Stored

(* The buffer is brought in, and labelled clean. *)
LEMMA LabelFields ==
  ASSUME NEW f, WriteCall(f), NEW sec,
         NEW h, h = [f EXCEPT !.fp.buffer = sec],
         NEW g, g = Label(h)
  PROVE  /\ "DIRTY" \notin g.fp.flags /\ g.fp.sector = f.xsector
         /\ "ATEOF" \in g.fp.flags <=> "ATEOF" \in f.fp.flags
         /\ g.fp.hiwater = f.fp.hiwater /\ g.fp.offset = f.fp.offset
         /\ g.fp.buffer = sec
         /\ g.disk = f.disk /\ g.data = f.data /\ g.xsector = f.xsector
         /\ g.sent = f.sent /\ g.left = f.left
         /\ g.done = f.done /\ g.ok = f.ok
BY DEF WriteCall, FCB, Label

-----------------------------------------------------------------------------
(* The parts of a write, how far they get. *)

LEMMA WriteLabelGoes ==
  ASSUME NEW data, Writes(data), NEW bad
  PROVE  Labelled(WriteLabel(BeginWrite(data), bad), data, bad)
<1> DEFINE c == BeginWrite(data)
           f == [c EXCEPT !.disk = FlushedDisk(c)]
           l == WriteLabel(c, bad)
<1>1. WriteCall(c) /\ WriteCall(l)
  BY WriteBegins, WriteLabelSound DEF Writes
<1>2. /\ c.fp = fp /\ c.disk = disk /\ c.data = data /\ c.sent = 0 /\ c.left = Len(data)
      /\ c.xsector = U(fp.offset \div SECSIZ) /\ c.done = FALSE /\ c.ok = TRUE
  BY DEF BeginWrite
<1>3. f.fp = c.fp /\ f.xsector = c.xsector /\ f.disk = FlushedDisk(c) /\ WriteCall(f)
  <2>1. Sound(c.fp, FlushedDisk(c))
    BY <1>1, SoundFlush DEF WriteCall
  <2> QED
    BY <1>1, <2>1 DEF WriteCall
<1>4. l = IF c.fp.sector = c.xsector  THEN c
          ELSE IF ~CanFlush(c, bad)   THEN Fail(c)
          ELSE IF AboveHiwater(c)     THEN Label(Zeroed(f))
          ELSE IF c.xsector \notin DOMAIN f.disk THEN Fail(f)
          ELSE Label(Preread(f))
  BY DEF WriteLabel
<1>5. fp.offset \in Int /\ fp.offset = fp.offset + 0
  BY <1>1, <1>2, WriteFields
<1>9. Zeroed(f) = [f EXCEPT !.fp.buffer = Zeros]
      /\ Preread(f) = [f EXCEPT !.fp.buffer = f.disk[f.xsector]]
  BY DEF Zeroed, Preread
<1>f. f = [c EXCEPT !.disk = FlushedDisk(c)]
  OBVIOUS
<1> HIDE DEF c, l, f
<1>6. ASSUME c.fp.sector = c.xsector PROVE Labelled(l, data, bad)
  <2>1. l = c
    BY <1>4, <1>6
  <2> QED
    BY <1>1, <1>2, <1>5, <1>6, <2>1 DEF Labelled, Progress, AtSector, OldDirty
<1>7. ASSUME NEW g \in {c, f}, l = Fail(g),
             bad = {} => /\ c.fp.sector # c.xsector /\ ~AboveHiwater(c)
                         /\ c.xsector \notin DOMAIN g.disk
      PROVE  Labelled(l, data, bad)
  <2>1. WriteCall(g) /\ g.fp = fp /\ g.data = data /\ g.sent = 0 /\ g.xsector = c.xsector
        /\ g.left = Len(data)
    BY <1>1, <1>2, <1>3, <1>f DEF WriteCall
  <2>2. /\ l.fp = fp /\ l.data = data /\ l.sent = 0 /\ l.done /\ l.ok = FALSE
        /\ l.xsector = c.xsector /\ l.disk = g.disk /\ l.left = Len(data)
    BY <1>7, <2>1, FailFields
  <2>3. Len(data) > 0
    BY DEF Writes
  <2>4. bad = {} => Gap(l) /\ l.fp.sector # l.xsector
    <3>1. ~AboveHiwater(c) => c.fp.offset \div SECSIZ <= (fp.hiwater - 1) \div SECSIZ
      BY <1>1, <1>2, BelowMark
    <3> QED
      BY <1>2, <1>7, <2>2, <2>3, <3>1 DEF Gap, AtSector
  <2> QED
    BY <1>1, <1>5, <2>2, <2>4 DEF Labelled, Progress, Broken, OldDirty
<1>8. ASSUME NEW sec, NEW h, h = [f EXCEPT !.fp.buffer = sec], l = Label(h)
      PROVE  Labelled(l, data, bad)
  <2>1. /\ "DIRTY" \notin l.fp.flags /\ l.fp.sector = f.xsector
        /\ "ATEOF" \in l.fp.flags <=> "ATEOF" \in f.fp.flags
        /\ l.fp.hiwater = f.fp.hiwater /\ l.fp.offset = f.fp.offset
        /\ l.data = f.data /\ l.xsector = f.xsector /\ l.sent = f.sent
        /\ l.done = f.done /\ l.ok = f.ok
    BY <1>3, <1>8, LabelFields
  <2>2. f.data = data /\ f.sent = 0 /\ f.done = FALSE /\ f.ok = TRUE
    BY <1>1, <1>2, <1>f DEF WriteCall
  <2> QED
    BY <1>1, <1>2, <1>3, <1>5, <2>1, <2>2 DEF Labelled, Progress, AtSector, OldDirty
<1>10. Labelled(l, data, bad)
  <2>1. ASSUME c.fp.sector # c.xsector, ~CanFlush(c, bad) PROVE Labelled(l, data, bad)
    <3>1. l = Fail(c) /\ bad # {}
      BY <1>4, <2>1 DEF CanFlush
    <3> QED
      BY <1>7, <3>1
  <2>2. ASSUME c.fp.sector # c.xsector, CanFlush(c, bad), ~AboveHiwater(c),
               c.xsector \notin DOMAIN f.disk
        PROVE  Labelled(l, data, bad)
    <3>1. l = Fail(f)
      BY <1>4, <2>2
    <3> QED
      BY <1>7, <2>2, <3>1
  <2> QED
    BY <1>4, <1>6, <1>8, <1>9, <2>1, <2>2
<1> QED
  BY <1>10 DEF l, c

(* The first byte of the next sector. *)
LEMMA NextSector ==
  ASSUME NEW x \in Int, NEW y, y = x + (SECSIZ - (x % SECSIZ))
  PROVE  y \div SECSIZ = (x \div SECSIZ) + 1 /\ y % SECSIZ = 0
<1>1. PICK q \in Int, r \in 0 .. SECSIZ - 1 :
        q = x \div SECSIZ /\ r = x % SECSIZ /\ x = (SECSIZ * q) + r
  BY Place
<1>2. PICK m \in Int : m = q + 1
  OBVIOUS
<1>3. SECSIZ * m = (SECSIZ * q) + SECSIZ /\ SECSIZ * q \in Int /\ SECSIZ \in Nat \ {0}
  BY <1>2, CcbAssumption
<1>4. y = (SECSIZ * m) + 0 /\ 0 \in 0 .. SECSIZ - 1
  BY <1>1, <1>3
<1>5. y \div SECSIZ = m /\ y % SECSIZ = 0
  BY <1>4, PlaceOf
<1> QED
  BY <1>1, <1>2, <1>5

LEMMA WriteHeadGoes ==
  ASSUME NEW data, Writes(data), NEW bad, NEW c, Labelled(c, data, bad)
  PROVE  Headed(WriteHead(c, bad), data, bad)
<1> DEFINE p   == c.fp.offset % SECSIZ
           nbs == Buffered(c, p)
           g   == Give(c, p, nbs)
           h   == WriteHead(c, bad)
<1>1. WriteCall(c) /\ Progress(c, data) /\ c.data = data /\ WriteCall(h)
  BY WriteHeadSound DEF Labelled, Progress
<1>2. /\ c.sent \in Nat /\ c.left \in Nat /\ c.sent + c.left = Len(data)
      /\ c.fp.offset \in Int /\ fp.offset \in Int /\ Len(data) > 0
      /\ c.xsector \in Nat
  <2>1. Len(data) > 0 /\ fp.offset \in Int
    BY DEF Writes, IInv, TypeOK, FCB
  <2> QED
    BY <1>1, <2>1, WriteFields
<1>3. SECSIZ \in Nat \ {0} /\ p \in 0 .. SECSIZ - 1
  BY <1>2, SectorArithmetic, CcbAssumption
<1>4. /\ nbs \in Nat /\ nbs <= c.left /\ p + nbs <= SECSIZ
      /\ p + nbs # SECSIZ /\ nbs # 0 => nbs = c.left
      /\ nbs = 0 => c.left = 0 \/ (p = 0 /\ c.left >= SECSIZ)
  <2> HIDE DEF p
  <2> QED
    BY <1>2, <1>3 DEF Buffered
<1>p. p = c.fp.offset % SECSIZ
  OBVIOUS
<1> HIDE DEF p, nbs
<1>5. WriteCall(g)
  BY <1>1, <1>3, <1>4, WriteGiven
<1>g. g = Give(c, p, nbs)
  OBVIOUS
<1> HIDE DEF g
<1>6. /\ g.fp.flags = c.fp.flags /\ g.fp.sector = c.fp.sector
      /\ g.fp.hiwater = c.fp.hiwater /\ g.fp.offset = c.fp.offset + nbs
      /\ g.data = c.data /\ g.xsector = c.xsector
      /\ g.sent = c.sent + nbs /\ g.left = c.left - nbs
      /\ g.done = c.done /\ g.ok = c.ok
  BY <1>1, <1>g DEF WriteCall, FCB, Give
<1>7. h = IF c.done \/ nbs = 0       THEN c
          ELSE IF p + nbs # SECSIZ
               THEN [g EXCEPT !.fp.flags = @ \cup {"DIRTY"}, !.fp.sector = c.xsector]
          ELSE IF c.xsector \in bad  THEN Fail(g)
          ELSE [g EXCEPT !.disk = PutSector(c.disk, c.xsector, g.fp.buffer),
                         !.fp.flags = @ \ {"DIRTY"}, !.fp.sector = -1,
                         !.xsector = U(@ + 1)]
  BY DEF WriteHead, p, nbs, g
<1> HIDE DEF h
<1>8. ASSUME c.done
      PROVE  Headed(h, data, bad)
  <2>1. h = c
    BY <1>7, <1>8
  <2> QED
    BY <1>8, <2>1 DEF Labelled, Headed
<1>9. ASSUME ~c.done
      PROVE  /\ AtSector(c) /\ c.sent = 0 /\ c.fp.sector = c.xsector /\ OldDirty(c)
             /\ c.fp.offset = fp.offset /\ c.ok /\ c.left > 0
  <2>1. AtSector(c) /\ c.sent = 0 /\ c.fp.sector = c.xsector /\ OldDirty(c)
    BY <1>9 DEF Labelled
  <2> QED
    BY <1>1, <1>2, <1>9, <2>1 DEF Progress
<1>10. ASSUME ~c.done /\ nbs = 0
      PROVE  Headed(h, data, bad)
  <2>1. h = c /\ p = 0 /\ c.left >= SECSIZ
    BY <1>4, <1>7, <1>9, <1>10, <1>2
  <2>2. Passed(c)
    BY <1>9, <1>10, <2>1, <1>p DEF Passed, AtSector
  <2>3. AtStart(c)
    BY <1>9, <1>10, <2>1, <1>p DEF AtStart
  <2> QED
    BY <1>1, <1>9, <1>10, <2>1, <2>2, <2>3 DEF Headed
<1>11. ASSUME ~c.done /\ nbs # 0 /\ p + nbs # SECSIZ
      PROVE  Headed(h, data, bad)
  <2>1. h = [g EXCEPT !.fp.flags = @ \cup {"DIRTY"}, !.fp.sector = c.xsector]
    BY <1>7, <1>11
  <2>2. /\ "DIRTY" \in h.fp.flags /\ h.fp.sector = c.xsector
        /\ "ATEOF" \in h.fp.flags <=> "ATEOF" \in g.fp.flags
        /\ h.fp.hiwater = g.fp.hiwater /\ h.fp.offset = g.fp.offset
        /\ h.data = g.data /\ h.sent = g.sent /\ h.left = g.left
        /\ h.done = g.done /\ h.ok = g.ok
    BY <1>5, <2>1 DEF WriteCall, FCB
  <2>3. Progress(h, data)
    BY <1>1, <1>2, <1>4, <1>6, <2>2 DEF Progress
  <2>4. PICK t \in Int : t = nbs - 1
    BY <1>4
  <2>5. (c.fp.offset % SECSIZ) + t \in 0 .. SECSIZ - 1
    BY <1>2, <1>3, <1>4, <1>11, <2>4, <1>p
  <2>6. (c.fp.offset + t) \div SECSIZ = c.fp.offset \div SECSIZ
    BY <1>2, <2>5, Within
  <2>7. h.fp.offset - 1 = c.fp.offset + t
    <3>1. h.fp.offset = c.fp.offset + nbs
      BY <1>6, <2>2
    <3>2. PICK o \in Int : o = c.fp.offset
      BY <1>2
    <3>3. nbs \in Nat
      BY <1>4
    <3>4. (o + nbs) - 1 = o + t
      BY <2>4, <3>3
    <3> QED
      BY <3>1, <3>2, <3>4
  <2>8. Filled(h)
    <3>1. h.left = 0
      BY <1>2, <1>4, <1>6, <1>11, <2>2
    <3>2. h.fp.sector = U((h.fp.offset - 1) \div SECSIZ)
      BY <1>9, <1>11, <2>2, <2>6, <2>7 DEF AtSector
    <3> QED
      BY <2>2, <3>1, <3>2 DEF Filled
  <2> QED
    BY <1>6, <1>11, <2>2, <2>3, <2>8 DEF Headed
<1>12. ASSUME ~c.done /\ nbs # 0 /\ p + nbs = SECSIZ /\ c.xsector \in bad
      PROVE  Headed(h, data, bad)
  <2>1. h = Fail(g)
    BY <1>7, <1>12
  <2>2. h.fp = g.fp /\ h.data = g.data /\ h.sent = g.sent /\ h.done = TRUE /\ h.ok = FALSE
    BY <1>5, <2>1, FailFields
  <2>3. Progress(h, data)
    BY <1>1, <1>2, <1>4, <1>6, <2>2 DEF Progress
  <2>4. OldDirty(h)
    BY <1>6, <1>9, <1>12, <2>2 DEF OldDirty
  <2> QED
    BY <1>12, <2>2, <2>3, <2>4 DEF Headed, Broken
<1>13. ASSUME ~c.done /\ nbs # 0 /\ p + nbs = SECSIZ /\ c.xsector \notin bad
      PROVE  Headed(h, data, bad)
  <2>1. PICK x : x = U(g.xsector + 1)
    OBVIOUS
  <2>2. h = [g EXCEPT !.disk = PutSector(c.disk, c.xsector, g.fp.buffer),
                      !.fp.flags = @ \ {"DIRTY"}, !.fp.sector = -1, !.xsector = x]
    BY <1>7, <1>13, <2>1
  <2>3. /\ "DIRTY" \notin h.fp.flags /\ h.fp.sector = -1
        /\ "ATEOF" \in h.fp.flags <=> "ATEOF" \in g.fp.flags
        /\ h.fp.hiwater = g.fp.hiwater /\ h.fp.offset = g.fp.offset
        /\ h.data = g.data /\ h.xsector = x /\ h.sent = g.sent /\ h.left = g.left
        /\ h.done = g.done /\ h.ok = g.ok
    BY <1>5, <2>2 DEF WriteCall, FCB
  <2>4. Progress(h, data)
    <3>1. /\ h.fp.hiwater = fp.hiwater /\ h.data = data
          /\ "ATEOF" \in h.fp.flags <=> "ATEOF" \in fp.flags
          /\ h.done <=> ~h.ok
      BY <1>1, <1>6, <2>3 DEF Progress
    <3>2. h.fp.offset = fp.offset + h.sent
      <4>1. /\ h.fp.offset = c.fp.offset + nbs /\ h.sent = c.sent + nbs
            /\ c.fp.offset = fp.offset + c.sent
        BY <1>1, <1>6, <2>3 DEF Progress
      <4>2. (fp.offset + c.sent) + nbs = fp.offset + (c.sent + nbs)
        BY <1>2, <1>4
      <4> QED
        BY <4>1, <4>2
    <3> QED
      BY <1>1, <3>1, <3>2 DEF Progress
  <2>5. h.fp.offset = c.fp.offset + (SECSIZ - (c.fp.offset % SECSIZ))
    <3>1. h.fp.offset = c.fp.offset + nbs
      BY <1>6, <2>3
    <3>2. nbs = SECSIZ - p
      BY <1>3, <1>4, <1>13
    <3> QED
      BY <3>1, <3>2, <1>p
  <2>6. h.fp.offset \div SECSIZ = (c.fp.offset \div SECSIZ) + 1 /\ h.fp.offset % SECSIZ = 0
    BY <1>2, <2>5, NextSector
  <2>7. x = U((c.fp.offset \div SECSIZ) + 1)
    <3>1. c.fp.offset \div SECSIZ \in Int
      BY <1>2, SectorArithmetic
    <3>2. g.xsector = U(c.fp.offset \div SECSIZ)
      BY <1>6, <1>9, <1>13 DEF AtSector
    <3>3. U(U(c.fp.offset \div SECSIZ) + 1) = U((c.fp.offset \div SECSIZ) + 1)
      BY <3>1, UAdds
    <3> QED
      BY <2>1, <3>2, <3>3
  <2>8. AtStart(h) /\ Put(h)
    BY <2>3, <2>6, <2>7 DEF AtStart, AtSector, Put
  <2> QED
    BY <1>6, <1>13, <2>3, <2>4, <2>8 DEF Headed
<1>14. Headed(h, data, bad)
  BY <1>8, <1>10, <1>11, <1>12, <1>13
<1> QED
  BY <1>14 DEF h

(* The whole sectors of a request: none is left over, and nothing wraps.   *)
LEMMA WholeRequest ==
  ASSUME NEW x \in Nat, x < UWord, NEW n, n = U(x \div SECSIZ)
  PROVE  /\ n \in Nat /\ n = x \div SECSIZ /\ n * SECSIZ \in Nat
         /\ U(n * SECSIZ) = n * SECSIZ /\ n * SECSIZ <= x /\ x - n * SECSIZ < SECSIZ
         /\ x >= SECSIZ => n >= 1 /\ n * SECSIZ >= SECSIZ
<1>0. SECSIZ \in Nat \ {0} /\ UWord \in Nat
  BY CcbAssumption, BinFileAssumption
<1>1. PICK q \in Int, r \in 0 .. SECSIZ - 1 :
        q = x \div SECSIZ /\ r = x % SECSIZ /\ x = (SECSIZ * q) + r
  BY Place
<1>2. q \in Nat
  BY <1>1, WholeSectors
<1>3. q * SECSIZ = SECSIZ * q /\ q * SECSIZ \in Nat
  BY <1>0, <1>2
<1>4. q <= x
  <2>1. q = 0 \/ q * SECSIZ >= q
    BY <1>0, <1>2
  <2> QED
    BY <1>0, <1>1, <1>2, <1>3, <2>1
<1>5. n = q
  BY <1>0, <1>1, <1>2, <1>4, UExact
<1>6. q * SECSIZ <= x /\ x - q * SECSIZ < SECSIZ
  BY <1>0, <1>1, <1>3
<1>7. U(q * SECSIZ) = q * SECSIZ
  <2>1. q * SECSIZ < UWord
    BY <1>0, <1>3, <1>6
  <2> QED
    BY <1>3, <2>1, UExact
<1>8. x >= SECSIZ => q >= 1 /\ q * SECSIZ >= SECSIZ
  <2>1. q = 0 => q * SECSIZ = 0
    BY <1>0
  <2>2. q >= 1 => q * SECSIZ >= SECSIZ
    BY <1>0, <1>2
  <2> QED
    BY <1>0, <1>2, <1>6, <2>1, <2>2
<1> QED
  BY <1>1, <1>2, <1>3, <1>5, <1>6, <1>7, <1>8

(* What the whole sectors of a write change: n were asked for, BDOS takes  *)
(* k of them.                                                              *)
DirectStep(c, h, n, k, bad) ==
  /\ n >= 1 /\ n * SECSIZ \in Nat /\ n * SECSIZ >= SECSIZ
  /\ n * SECSIZ <= c.left /\ c.left - n * SECSIZ < SECSIZ
  /\ h.disk = PutSectors(c.disk, c.xsector, k,
                         [j \in 1 .. k * SECSIZ |-> c.data[c.sent + j]])
  /\ h.data = c.data
  /\ IF k # n
     THEN /\ bad # {} /\ h.fp = c.fp /\ h.sent = c.sent /\ h.left = c.left
          /\ h.done = TRUE /\ h.ok = FALSE
     ELSE /\ h.fp.flags = c.fp.flags /\ h.fp.sector = c.fp.sector
          /\ h.fp.buffer = c.fp.buffer /\ h.fp.hiwater = c.fp.hiwater
          /\ h.fp.offset = c.fp.offset + n * SECSIZ
          /\ h.sent = c.sent + n * SECSIZ /\ h.left = c.left - n * SECSIZ
          /\ h.xsector = U(c.xsector + n)
          /\ h.done = FALSE /\ h.ok = c.ok

LEMMA DirectSteps ==
  ASSUME NEW c, WriteCall(c), NEW bad, ~c.done, c.left >= SECSIZ, Len(c.data) < UWord,
         NEW h, h = WriteDirect(c, bad)
  PROVE  \E n \in Nat : \E k \in 0 .. n : DirectStep(c, h, n, k, bad)
<1> DEFINE n   == U(c.left \div SECSIZ)
           k   == Transferred(c.xsector, n, Nat \ bad)
           b   == U(n * SECSIZ)
           put == PutSectors(c.disk, c.xsector, k, [j \in 1 .. k * SECSIZ |-> c.data[c.sent + j]])
           d   == [c EXCEPT !.disk = put]
<1>1. c.left \in Nat /\ c.left < UWord /\ c.xsector \in Nat
  BY WriteFields, BinFileAssumption
<1>2. /\ n \in Nat /\ n * SECSIZ \in Nat
      /\ U(n * SECSIZ) = n * SECSIZ /\ n * SECSIZ <= c.left /\ c.left - n * SECSIZ < SECSIZ
      /\ n >= 1 /\ n * SECSIZ >= SECSIZ
  BY <1>1, WholeRequest
<1>3. b = n * SECSIZ
  BY <1>2
<1>10. h = IF c.done \/ c.left < SECSIZ THEN c
           ELSE IF k # n THEN Fail(d)
           ELSE [d EXCEPT !.fp.offset = @ + b, !.sent = @ + b, !.left = @ - b,
                          !.xsector = U(@ + n)]
  BY DEF WriteDirect
<1> HIDE DEF n
<1>5. k \in 0 .. n /\ (k = n \/ c.xsector + k \notin Nat \ bad)
  BY <1>1, <1>2, TransferredStops
<1>7. put = PutSectors(c.disk, c.xsector, k, [j \in 1 .. k * SECSIZ |-> c.data[c.sent + j]])
  OBVIOUS
<1> HIDE DEF k, b, put
<1>6. k # n => bad # {}
  BY <1>1, <1>2, <1>5
<1>11. /\ d.fp = c.fp /\ d.disk = put /\ d.data = c.data /\ d.sent = c.sent /\ d.left = c.left
       /\ d.xsector = c.xsector /\ d.done = c.done /\ d.ok = c.ok
       /\ d \in [fp : FCB, disk : {put}, data : Seq(Byte), sent : Nat, left : Nat,
                  xsector : Nat, done : BOOLEAN, ok : BOOLEAN]
  BY DEF WriteCall
<1>4. c.left \in Nat /\ SECSIZ \in Nat /\ ~(c.left < SECSIZ)
  BY <1>1, CcbAssumption
<1> HIDE DEF d
<1>12. ASSUME k # n PROVE DirectStep(c, h, n, k, bad)
  <2>1. /\ h.fp = c.fp /\ h.sent = c.sent /\ h.left = c.left /\ h.disk = put
        /\ h.data = c.data /\ h.done = TRUE /\ h.ok = FALSE
    BY <1>4, <1>10, <1>11, <1>12 DEF Fail
  <2> QED
    BY <1>2, <1>6, <1>7, <1>12, <2>1 DEF DirectStep
<1>13. ASSUME k = n PROVE DirectStep(c, h, n, k, bad)
  <2>1. /\ h.fp.flags = c.fp.flags /\ h.fp.sector = c.fp.sector
        /\ h.fp.buffer = c.fp.buffer /\ h.fp.hiwater = c.fp.hiwater
        /\ h.fp.offset = c.fp.offset + b
        /\ h.sent = c.sent + b /\ h.left = c.left - b
        /\ h.xsector = U(c.xsector + n) /\ h.disk = put /\ h.data = c.data
        /\ h.done = c.done /\ h.ok = c.ok
    BY <1>4, <1>10, <1>11, <1>13 DEF FCB
  <2>2. c.done = FALSE
    BY WriteFields
  <2> QED
    BY <1>2, <1>3, <1>7, <1>13, <2>1, <2>2 DEF DirectStep
<1> QED
  BY <1>2, <1>5, <1>12, <1>13

LEMMA WriteDirectGoes ==
  ASSUME NEW data, Writes(data), NEW bad, NEW c, WriteCall(c), Headed(c, data, bad)
  PROVE  Directed(WriteDirect(c, bad), data, bad)
<1> DEFINE h == WriteDirect(c, bad)
<1>1. WriteCall(h) /\ Progress(c, data) /\ c.data = data /\ Len(c.data) < UWord
  BY WriteDirectSound DEF Headed, Progress, Writes
<1>2. c.left \in Nat /\ SECSIZ \in Nat \ {0} /\ c.fp.offset \in Int /\ c.sent \in Nat
      /\ fp.offset \in Int
  <2>1. fp.offset \in Int
    BY DEF Writes, IInv, TypeOK, FCB
  <2> QED
    BY <2>1, WriteFields, CcbAssumption
<1>3. h = WriteDirect(c, bad)
  OBVIOUS
<1> HIDE DEF h
<1>4. ASSUME c.done \/ c.left < SECSIZ PROVE Directed(h, data, bad)
  <2>1. h = c
    BY <1>3, <1>4 DEF WriteDirect
  <2> QED
    BY <1>2, <1>4, <2>1 DEF Headed, Directed
<1>5. ASSUME ~c.done, c.left >= SECSIZ PROVE Directed(h, data, bad)
  <2>0. PICK n \in Nat : \E k \in 0 .. n : DirectStep(c, h, n, k, bad)
    BY <1>1, <1>3, <1>5, DirectSteps
  <2>1. PICK k \in 0 .. n : DirectStep(c, h, n, k, bad)
    BY <2>0
  <2>2. AtStart(c) /\ (Put(c) \/ (Passed(c) /\ c.sent = 0))
    BY <1>2, <1>5 DEF Headed, Filled
  <2>3. ASSUME k # n PROVE Directed(h, data, bad)
    <3>1. h.fp = c.fp /\ h.sent = c.sent /\ h.done = TRUE /\ h.ok = FALSE /\ bad # {} /\ h.data = c.data
      BY <2>1, <2>3 DEF DirectStep
    <3>2. OldDirty(h)
      BY <2>2, <3>1 DEF OldDirty, Put, Passed
    <3> QED
      BY <1>1, <3>1, <3>2 DEF Directed, Broken, Progress
  <2>4. ASSUME k = n PROVE Directed(h, data, bad)
    <3>1. PICK b \in Nat : b = n * SECSIZ
      BY <2>1 DEF DirectStep
    <3>2. /\ h.fp.flags = c.fp.flags /\ h.fp.sector = c.fp.sector /\ h.fp.hiwater = c.fp.hiwater
          /\ h.fp.offset = c.fp.offset + b /\ h.sent = c.sent + b /\ h.left = c.left - b
          /\ h.xsector = U(c.xsector + n) /\ h.done = FALSE /\ h.ok = c.ok /\ h.data = c.data
          /\ b >= SECSIZ /\ c.left - b < SECSIZ
      BY <2>1, <2>4, <3>1 DEF DirectStep
    <3>3. c.fp.offset = fp.offset + c.sent /\ c.fp.hiwater = fp.hiwater /\ (~c.ok => c.done)
      BY <1>1 DEF Progress
    <3>4. h.fp.offset = fp.offset + h.sent
      <4>1. (fp.offset + c.sent) + b = fp.offset + (c.sent + b)
        BY <1>2
      <4> QED
        BY <3>2, <3>3, <4>1
    <3>5. Progress(h, data)
      BY <1>1, <1>5, <3>2, <3>3, <3>4 DEF Progress
    <3>6. /\ (c.fp.offset + b) \div SECSIZ = (c.fp.offset \div SECSIZ) + n
          /\ (c.fp.offset + b) % SECSIZ = c.fp.offset % SECSIZ
          /\ c.fp.offset \div SECSIZ \in Int
      <4>1. PICK o \in Int : o = c.fp.offset
        BY <1>2
      <4>2. /\ (o + n * SECSIZ) \div SECSIZ = (o \div SECSIZ) + n
            /\ (o + n * SECSIZ) % SECSIZ = o % SECSIZ
        BY SectorsOn
      <4> QED
        BY <3>1, <4>1, <4>2, SectorArithmetic
    <3>7. U(c.xsector + n) = U((c.fp.offset \div SECSIZ) + n)
      BY <2>2, <3>6, UAdds DEF AtStart, AtSector
    <3>8. AtStart(h)
      BY <2>2, <3>2, <3>6, <3>7 DEF AtStart, AtSector
    <3>9. h.left < SECSIZ /\ h.sent >= SECSIZ
      BY <1>2, <3>2
    <3>10. Put(h) \/ Passed(h)
      BY <2>2, <3>2 DEF Put, Passed, OldDirty
    <3> QED
      BY <3>2, <3>5, <3>8, <3>9, <3>10 DEF Directed
  <2> QED
    BY <2>3, <2>4
<1>6. Directed(h, data, bad)
  BY <1>2, <1>4, <1>5
<1> QED
  BY <1>6 DEF h

(* The buffer filled with other bytes. *)
Filling(c, d, sec) ==
  /\ WriteCall(d)
  /\ d.fp.flags = c.fp.flags /\ d.fp.sector = c.fp.sector /\ d.fp.buffer = sec
  /\ d.fp.hiwater = c.fp.hiwater /\ d.fp.offset = c.fp.offset
  /\ d.disk = c.disk /\ d.data = c.data /\ d.sent = c.sent /\ d.left = c.left
  /\ d.xsector = c.xsector /\ d.done = c.done /\ d.ok = c.ok

LEMMA FillingFields ==
  ASSUME NEW c, WriteCall(c)
  PROVE  /\ Filling(c, Zeroed(c), Zeros)
         /\ c.xsector \in DOMAIN c.disk => Filling(c, Preread(c), c.disk[c.xsector])
<1>1. ASSUME NEW sec, NEW d, d = [c EXCEPT !.fp.buffer = sec], WriteCall(d)
      PROVE  Filling(c, d, sec)
  BY <1>1 DEF WriteCall, FCB, Filling
<1> QED
  BY <1>1, WriteFilled DEF Zeroed, Preread

(* The rest of a write, in the buffer. *)
Rest(c, d) ==
  [Give(d, 0, d.left) EXCEPT !.fp.flags = @ \cup {"DIRTY"}, !.fp.sector = c.xsector]

LEMMA RestFields ==
  ASSUME NEW c, NEW d, NEW sec, Filling(c, d, sec), NEW l, l = Rest(c, d)
  PROVE  /\ "DIRTY" \in l.fp.flags /\ l.fp.sector = c.xsector
         /\ "ATEOF" \in l.fp.flags <=> "ATEOF" \in c.fp.flags
         /\ l.fp.hiwater = c.fp.hiwater /\ l.fp.offset = c.fp.offset + c.left
         /\ \A i \in 0 .. SECSIZ - 1 :
              l.fp.buffer[i] = IF i \in 0 .. 0 + c.left - 1 THEN c.data[c.sent + i - 0 + 1]
                               ELSE sec[i]
         /\ l.data = c.data /\ l.sent = c.sent + c.left /\ l.left = c.left - c.left
         /\ l.disk = c.disk /\ l.done = c.done /\ l.ok = c.ok
<1>1. PICK g : g = Give(d, 0, d.left)
  OBVIOUS
<1>2. WriteCall(d) /\ WriteCall(g)
  <2>1. WriteCall(d) /\ d.left \in Nat /\ 0 \in 0 .. SECSIZ - 1
    BY WriteFields, CcbAssumption DEF Filling
  <2> QED
    BY <1>1, <2>1, WriteGiven
<1>3. /\ g.fp.flags = d.fp.flags /\ g.fp.sector = d.fp.sector
      /\ g.fp.hiwater = d.fp.hiwater /\ g.fp.offset = d.fp.offset + d.left
      /\ \A i \in 0 .. SECSIZ - 1 :
           g.fp.buffer[i] = IF i \in 0 .. 0 + d.left - 1 THEN d.data[d.sent + i - 0 + 1]
                            ELSE d.fp.buffer[i]
      /\ g.disk = d.disk /\ g.data = d.data /\ g.xsector = d.xsector
      /\ g.sent = d.sent + d.left /\ g.left = d.left - d.left
      /\ g.done = d.done /\ g.ok = d.ok
  BY <1>1, <1>2, GiveFields
<1>w. WriteCall(g)
  BY <1>2
<1>4. l = Dirtied(g, c.xsector)
  BY <1>1 DEF Rest, Dirtied
<1>6. /\ "DIRTY" \in l.fp.flags /\ l.fp.sector = c.xsector
      /\ "ATEOF" \in l.fp.flags <=> "ATEOF" \in g.fp.flags
      /\ l.fp.hiwater = g.fp.hiwater /\ l.fp.offset = g.fp.offset /\ l.fp.buffer = g.fp.buffer
      /\ l.data = g.data /\ l.sent = g.sent /\ l.left = g.left
      /\ l.disk = g.disk /\ l.done = g.done /\ l.ok = g.ok
  BY <1>w, <1>4, DirtiedFields
<1> QED
  BY <1>3, <1>6 DEF Filling

LEMMA WriteTailGoes ==
  ASSUME NEW data, Writes(data), NEW bad, NEW c, WriteCall(c), Directed(c, data, bad)
  PROVE  Written(WriteTail(c), data, bad)
<1> DEFINE h == WriteTail(c)
<1>1. WriteCall(h) /\ Progress(c, data) /\ c.data = data
  BY WriteTailSound DEF Directed, Progress
<1>2. c.left \in Nat /\ SECSIZ \in Nat \ {0} /\ c.fp.offset \in Int /\ c.sent \in Nat
      /\ fp.offset \in Int
  <2>1. fp.offset \in Int
    BY DEF Writes, IInv, TypeOK, FCB
  <2> QED
    BY <2>1, WriteFields, CcbAssumption
<1>3. h = IF c.done \/ c.left = 0  THEN c
          ELSE IF AboveHiwater(c)  THEN Rest(c, Zeroed(c))
          ELSE IF c.xsector \notin DOMAIN c.disk THEN Fail(c)
          ELSE Rest(c, Preread(c))
  BY DEF WriteTail, Rest
<1>4. /\ Filling(c, Zeroed(c), Zeros)
      /\ c.xsector \in DOMAIN c.disk => Filling(c, Preread(c), c.disk[c.xsector])
  BY FillingFields
<1>5. ASSUME NEW sec, NEW d, Filling(c, d, sec), NEW l, l = Rest(c, d)
      PROVE  /\ "DIRTY" \in l.fp.flags /\ l.fp.sector = c.xsector
             /\ "ATEOF" \in l.fp.flags <=> "ATEOF" \in c.fp.flags
             /\ l.fp.hiwater = c.fp.hiwater /\ l.fp.offset = c.fp.offset + c.left
             /\ l.data = c.data /\ l.sent = c.sent + c.left /\ l.left = c.left - c.left
             /\ l.done = c.done /\ l.ok = c.ok
  BY <1>5, RestFields
<1> HIDE DEF h
<1>6. ASSUME c.done PROVE Written(h, data, bad)
  <2>1. h = c
    BY <1>3, <1>6
  <2> QED
    BY <1>6, <2>1 DEF Directed, Written
<1>7. ASSUME ~c.done, c.left = 0 PROVE Written(h, data, bad)
  <2>1. h = c
    BY <1>3, <1>7
  <2> QED
    BY <1>7, <2>1 DEF Directed, Written
<1>8. ASSUME ~c.done, c.left # 0
      PROVE  /\ AtStart(c) /\ c.left < SECSIZ /\ c.left > 0
             /\ Put(c) \/ (Passed(c) /\ c.sent >= SECSIZ)
             /\ c.ok /\ c.fp.hiwater = fp.hiwater /\ c.fp.offset = fp.offset + c.sent
  <2>1. c.left > 0
    BY <1>2, <1>8
  <2> QED
    BY <1>1, <1>8, <2>1 DEF Directed, Filled, Progress
<1>9. ASSUME ~c.done, c.left # 0, ~AboveHiwater(c), c.xsector \notin DOMAIN c.disk, h = Fail(c)
      PROVE  Written(h, data, bad)
  <2>1. /\ h.fp = c.fp /\ h.data = c.data /\ h.sent = c.sent /\ h.done = TRUE /\ h.ok = FALSE
        /\ h.xsector = c.xsector /\ h.disk = c.disk /\ h.left = c.left
    BY <1>9, FailFields
  <2>2. OldDirty(h) /\ (Put(h) \/ (Passed(h) /\ h.sent >= SECSIZ))
    BY <1>8, <1>9, <2>1 DEF Put, Passed, OldDirty
  <2>3. Gap(h)
    <3>1. c.fp.offset \div SECSIZ <= (fp.hiwater - 1) \div SECSIZ
      BY <1>8, <1>9, BelowMark
    <3> QED
      BY <1>8, <1>9, <2>1, <3>1 DEF Gap, AtStart, AtSector
  <2> QED
    BY <1>1, <2>1, <2>2, <2>3 DEF Written, Broken, Progress
<1>10. ASSUME ~c.done, c.left # 0, NEW sec, NEW d, Filling(c, d, sec), h = Rest(c, d)
       PROVE  Written(h, data, bad)
  <2>1. /\ "DIRTY" \in h.fp.flags /\ h.fp.sector = c.xsector
        /\ "ATEOF" \in h.fp.flags <=> "ATEOF" \in c.fp.flags
        /\ h.fp.hiwater = c.fp.hiwater /\ h.fp.offset = c.fp.offset + c.left
        /\ h.data = c.data /\ h.sent = c.sent + c.left /\ h.left = c.left - c.left
        /\ h.done = c.done /\ h.ok = c.ok
    BY <1>5, <1>10
  <2>2. PICK a \in Int, b \in Int, n \in Nat, o \in Int, t \in Int :
          a = fp.offset /\ b = c.sent /\ n = c.left /\ o = c.fp.offset /\ t = n - 1
    BY <1>2
  <2>3. o = a + b /\ n > 0 /\ n < SECSIZ
    BY <1>8, <1>10, <2>2
  <2>4. h.fp.offset = fp.offset + h.sent /\ h.left = 0 /\ h.fp.offset - 1 = o + t
    <3>1. o + n = a + (b + n) /\ n - n = 0 /\ (o + n) - 1 = o + t
      BY <2>2, <2>3
    <3> QED
      BY <2>1, <2>2, <3>1
  <2>5. Progress(h, data)
    BY <1>1, <1>8, <1>10, <2>1, <2>4 DEF Progress
  <2>6. (o + t) \div SECSIZ = o \div SECSIZ
    <3>1. o % SECSIZ = 0
      BY <1>8, <1>10, <2>2 DEF AtStart
    <3>2. (o % SECSIZ) + t \in 0 .. SECSIZ - 1
      BY <1>2, <2>2, <2>3, <3>1
    <3> QED
      BY <3>2, Within
  <2>7. h.fp.sector = U((h.fp.offset - 1) \div SECSIZ)
    BY <1>8, <1>10, <2>1, <2>2, <2>4, <2>6 DEF AtStart, AtSector
  <2> QED
    BY <1>10, <2>1, <2>4, <2>5, <2>7 DEF Written, Filled
<1>11. Written(h, data, bad)
  BY <1>3, <1>4, <1>6, <1>7, <1>9, <1>10
<1> QED
  BY <1>11 DEF h

-----------------------------------------------------------------------------
(* The sector of an offset in xsector, and the bytes of the file.          *)

(* The file has MaxSector sectors. *)
LEMMA OffsetPlace ==
  ASSUME NEW i \in Offset
  PROVE  /\ i \in Nat /\ i \div SECSIZ \in 0 .. MaxSector - 1
         /\ i % SECSIZ \in 0 .. SECSIZ - 1
<1>1. SECSIZ \in Nat \ {0} /\ MaxSector \in Nat /\ SECSIZ * MaxSector \in Nat
  BY CcbAssumption
<1>2. i \in Nat /\ i < SECSIZ * MaxSector
  BY <1>1 DEF Offset
<1>3. i \div SECSIZ \in Nat /\ i % SECSIZ \in 0 .. SECSIZ - 1
  BY <1>2, SectorArithmetic
<1>4. PICK e \in Int : e = (SECSIZ * MaxSector) + 0
  BY <1>1
<1>5. e \div SECSIZ = MaxSector /\ e % SECSIZ = 0
  BY <1>1, <1>4, PlaceOf
<1>6. i \div SECSIZ # MaxSector
  <2> SUFFICES ASSUME i \div SECSIZ = e \div SECSIZ PROVE FALSE
    BY <1>5
  <2>1. i - e = (i % SECSIZ) - (e % SECSIZ)
    BY <1>2, SameSector
  <2> QED
    BY <1>1, <1>2, <1>3, <1>4, <1>5, <2>1
<1>7. i \div SECSIZ <= MaxSector
  BY <1>1, <1>2, <1>4, <1>5, Order
<1> QED
  BY <1>1, <1>2, <1>3, <1>6, <1>7

LEMMA BeforeFirst == (-1) \div SECSIZ = -1
<1>1. PICK x \in Int, q \in Int, r \in 0 .. SECSIZ - 1 : x = -1 /\ q = -1 /\ r = SECSIZ - 1
  BY CcbAssumption
<1>2. x = (SECSIZ * q) + r
  BY <1>1, CcbAssumption
<1> QED
  BY <1>1, <1>2, PlaceOf

LEMMA SectorsFit ==
  ASSUME MaxSector < UWord, NEW x \in Nat \cup {-1}, x <= SECSIZ * MaxSector
  PROVE  /\ x >= 0 => U(x \div SECSIZ) = x \div SECSIZ
         /\ \A i \in Offset : U(x \div SECSIZ) = i \div SECSIZ <=> x \div SECSIZ = i \div SECSIZ
         /\ x = -1 => \A i \in Offset : i \div SECSIZ < U(x \div SECSIZ)
<1>1. SECSIZ \in Nat \ {0} /\ MaxSector \in Nat /\ SECSIZ * MaxSector \in Nat /\ UWord \in Nat
  BY CcbAssumption, BinFileAssumption
<1>2. PICK e \in Int : e = (SECSIZ * MaxSector) + 0
  BY <1>1
<1>3. e \div SECSIZ = MaxSector
  BY <1>1, <1>2, PlaceOf
<1>4. ASSUME x >= 0 PROVE U(x \div SECSIZ) = x \div SECSIZ
  <2>1. x \div SECSIZ \in Nat /\ x \div SECSIZ <= MaxSector
    BY <1>1, <1>2, <1>3, <1>4, Order, SectorArithmetic
  <2> QED
    BY <1>1, <2>1, UExact
<1>5. ASSUME x = -1 PROVE x \div SECSIZ = -1
  BY <1>5, BeforeFirst
<1>6. ASSUME x = -1, NEW i \in Offset
      PROVE  i \div SECSIZ < U(x \div SECSIZ) /\ x \div SECSIZ # i \div SECSIZ
  <2>1. i \div SECSIZ \in 0 .. MaxSector - 1
    BY OffsetPlace
  <2>2. U(x \div SECSIZ) = UWord - 1
    BY <1>5, <1>6, UMinusOne
  <2> QED
    BY <1>1, <1>5, <1>6, <2>1, <2>2
<1>7. ASSUME NEW i \in Offset
      PROVE  U(x \div SECSIZ) = i \div SECSIZ <=> x \div SECSIZ = i \div SECSIZ
  <2>1. CASE x >= 0
    BY <1>4, <2>1
  <2>2. CASE x = -1
    <3>1. i \div SECSIZ \in Int /\ U(x \div SECSIZ) \in Int
      BY <1>5, <2>2, OffsetPlace, UType
    <3> QED
      BY <1>6, <2>2, <3>1
  <2> QED
    BY <2>1, <2>2
<1> QED
  BY <1>4, <1>6, <1>7

-----------------------------------------------------------------------------
(* One byte of the file during a write.                                    *)

Here(c, i) == At(c.fp, c.disk, i)

(* A write of data, and a byte of which the writers can know that it is    *)
(* there: below the high water mark, and in the buffer if that is labelled *)
(* with the first sector of the write.                                     *)
Orderly(data, i) ==
  /\ Writes(data) /\ i \in Offset
  /\ Shown(i) # None => i \div SECSIZ <= (fp.hiwater - 1) \div SECSIZ
  /\ fp.sector = i \div SECSIZ /\ fp.sector = U(fp.offset \div SECSIZ)
       => fp.buffer[i % SECSIZ] = Shown(i)

InRange(data, i) == i \in fp.offset .. fp.offset + Len(data) - 1

(* The label of the buffer is right when the bytes of the caller come in.  *)
LabelledAt(c, i) ==
  /\ Here(c, i) = Shown(i)
  /\ ~c.done /\ c.xsector = i \div SECSIZ
       => c.fp.buffer[i % SECSIZ] = Shown(i) \/ Shown(i) = None

LEMMA WriteLabelBytes ==
  ASSUME NEW data, NEW i, Orderly(data, i), NEW bad
  PROVE  LabelledAt(WriteLabel(BeginWrite(data), bad), i)
<1> DEFINE c == BeginWrite(data)
           f == [c EXCEPT !.disk = FlushedDisk(c)]
           l == WriteLabel(c, bad)
<1>1. WriteCall(c) /\ Writes(data) /\ i \in Nat
  BY WriteBegins, OffsetPlace DEF Writes, Orderly
<1>2. /\ c.fp = fp /\ c.disk = disk
      /\ c.xsector = U(fp.offset \div SECSIZ) /\ c.done = FALSE
  BY DEF BeginWrite
<1>3. f.fp = c.fp /\ f.xsector = c.xsector /\ f.disk = FlushedDisk(c) /\ WriteCall(f)
  <2>1. Sound(c.fp, FlushedDisk(c))
    BY <1>1, SoundFlush DEF WriteCall
  <2> QED
    BY <1>1, <2>1 DEF WriteCall
<1>4. l = IF c.fp.sector = c.xsector  THEN c
          ELSE IF ~CanFlush(c, bad)   THEN Fail(c)
          ELSE IF AboveHiwater(c)     THEN Label(Zeroed(f))
          ELSE IF c.xsector \notin DOMAIN f.disk THEN Fail(f)
          ELSE Label(Preread(f))
  BY DEF WriteLabel
<1>5. /\ Filling(f, Zeroed(f), Zeros)
      /\ f.xsector \in DOMAIN f.disk => Filling(f, Preread(f), f.disk[f.xsector])
  BY <1>3, FillingFields
<1> HIDE DEF c, l, f
<1>6. Here(c, i) = Shown(i)
  BY <1>2, ShownAt DEF Here
<1>7. \A g : "DIRTY" \notin g.flags => At(g, FlushedDisk(c), i) = Shown(i)
  BY <1>1, <1>6, FlushedAt, WriteFields DEF Here
<1>8. ASSUME c.fp.sector = c.xsector PROVE LabelledAt(l, i)
  <2>1. l = c
    BY <1>4, <1>8
  <2> QED
    BY <1>2, <1>6, <1>8, <2>1 DEF LabelledAt, Orderly
<1>9. ASSUME l = Fail(c) PROVE LabelledAt(l, i)
  BY <1>1, <1>6, <1>9, FailFields DEF LabelledAt, Here
<1>10. ASSUME l = Fail(f) PROVE LabelledAt(l, i)
  <2>1. Here(l, i) = At(c.fp, FlushedDisk(c), i)
    BY <1>3, <1>10, FailFields DEF Here
  <2>2. At(c.fp, FlushedDisk(c), i) = At(c.fp, c.disk, i)
    BY <1>1 DEF At, FlushedDisk, Dirty, PutSector
  <2> QED
    BY <1>3, <1>6, <1>10, <2>1, <2>2, FailFields DEF LabelledAt, Here
<1>11. ASSUME NEW sec, NEW h, Filling(f, h, sec), l = Label(h)
       PROVE  /\ "DIRTY" \notin l.fp.flags /\ l.xsector = c.xsector /\ l.fp.buffer = sec
              /\ Here(l, i) = Shown(i)
  <2>1. /\ "DIRTY" \notin l.fp.flags /\ l.xsector = h.xsector /\ l.fp.buffer = h.fp.buffer
        /\ l.disk = h.disk
    BY <1>11 DEF Filling, WriteCall, FCB, Label
  <2> QED
    BY <1>3, <1>7, <1>11, <2>1 DEF Filling, Here
<1>12. ASSUME AboveHiwater(c), l = Label(Zeroed(f)) PROVE LabelledAt(l, i)
  <2>1. l.xsector = c.xsector /\ Here(l, i) = Shown(i)
    BY <1>5, <1>11, <1>12
  <2>2. ASSUME c.xsector = i \div SECSIZ PROVE Shown(i) = None
    <3>1. /\ MaxSector < UWord /\ fp.offset \in Nat \cup {-1} /\ fp.hiwater \in Nat
          /\ fp.offset <= SECSIZ * MaxSector
      <4>1. Fits(Len(data)) /\ MaxSector < UWord /\ Len(data) \in Nat
        BY <1>1 DEF Writes
      <4>2. fp.offset \in Nat \cup {-1} /\ fp.hiwater \in Nat
        BY <1>1, <1>2, WriteFields
      <4>3. SECSIZ * MaxSector \in Int
        BY CcbAssumption
      <4> QED
        BY <4>1, <4>2, <4>3 DEF Fits
    <3>2. fp.offset \div SECSIZ = i \div SECSIZ
      BY <1>2, <2>2, <3>1, SectorsFit DEF Orderly
    <3>3. fp.offset \div SECSIZ > (fp.hiwater - 1) \div SECSIZ
      BY <1>2, <1>12 DEF AboveHiwater
    <3>4. fp.offset \div SECSIZ \in Int /\ (fp.hiwater - 1) \div SECSIZ \in Int
      <4>1. fp.offset \in Int /\ fp.hiwater - 1 \in Int
        BY <3>1
      <4> QED
        BY <4>1, SectorArithmetic
    <3> QED
      BY <3>2, <3>3, <3>4 DEF Orderly
  <2> QED
    BY <2>1, <2>2 DEF LabelledAt
<1>13. ASSUME c.xsector \in DOMAIN f.disk, l = Label(Preread(f)) PROVE LabelledAt(l, i)
  <2>1. /\ "DIRTY" \notin l.fp.flags /\ l.xsector = c.xsector /\ l.fp.buffer = f.disk[f.xsector]
        /\ Here(l, i) = Shown(i)
    BY <1>3, <1>5, <1>11, <1>13
  <2>2. ASSUME c.xsector = i \div SECSIZ PROVE l.fp.buffer[i % SECSIZ] = Shown(i)
    <3>1. At(l.fp, FlushedDisk(c), i) = Shown(i)
      BY <1>7, <2>1
    <3> QED
      BY <1>3, <1>13, <2>1, <2>2, <3>1 DEF At
  <2> QED
    BY <2>1, <2>2 DEF LabelledAt
<1>14. LabelledAt(l, i)
  BY <1>3, <1>4, <1>8, <1>9, <1>10, <1>12, <1>13
<1> QED
  BY <1>14 DEF l, c

(* Outside its range a write leaves a byte as it is, or brings a byte of   *)
(* padding into being, in a sector it has put bytes into.                  *)
Spared(c, i) ==
  \/ Here(c, i) = Shown(i)
  \/ /\ Shown(i) = None /\ Here(c, i) \in Byte
     /\ c.sent > 0 /\ i \div SECSIZ <= (c.fp.offset - 1) \div SECSIZ

(* In its range it has replaced the bytes it has passed, and when BDOS     *)
(* refuses a sector perhaps some more, or not all of them.                 *)
Replaced(c, data, i, bad) ==
  LET b == data[i - fp.offset + 1]
  IN  /\ Here(c, i) \in {Shown(i), b}
      /\ ~c.done \/ bad = {} => Here(c, i) = IF i < c.fp.offset THEN b ELSE Shown(i)

(* The whole sectors of a request do not go past a dirty buffer that holds *)
(* the first of them.                                                      *)
Apart(data) ==
  ~ (/\ "DIRTY" \in fp.flags /\ fp.sector = U(fp.offset \div SECSIZ)
     /\ fp.offset % SECSIZ = 0 /\ Len(data) >= SECSIZ)

ByteOK(c, data, i, bad) ==
  /\ ~InRange(data, i) => Spared(c, i)
  /\ InRange(data, i) /\ fp.offset >= 0 /\ Apart(data) => Replaced(c, data, i, bad)

LEMMA WritesFit ==
  ASSUME NEW data, Writes(data)
  PROVE  /\ MaxSector < UWord /\ fp.offset \in Nat \cup {-1} /\ fp.hiwater \in Nat
         /\ Len(data) \in Nat /\ Len(data) > 0 /\ Len(data) < UWord
         /\ fp.offset + Len(data) <= SECSIZ * MaxSector /\ SECSIZ * MaxSector \in Nat
<1>1. fp.offset \in Nat \cup {-1} /\ fp.hiwater \in Nat
  BY DEF Writes, IInv, TypeOK, FCB
<1>2. data \in Seq(Byte) /\ data # <<>> /\ MaxSector < UWord /\ Len(data) < UWord
      /\ fp.offset + Len(data) <= SECSIZ * MaxSector
  BY DEF Writes, Fits
<1>3. Len(data) \in Nat /\ Len(data) > 0
  BY <1>2
<1>4. SECSIZ * MaxSector \in Nat
  BY CcbAssumption
<1> QED
  BY <1>1, <1>2, <1>3, <1>4

(* What goes through the buffer first, and what becomes of the buffer. *)
HeadStep(c, h, n, bad) ==
  /\ n > 0 /\ n <= c.left /\ (c.fp.offset % SECSIZ) + n <= SECSIZ
  /\ n = c.left \/ (c.fp.offset % SECSIZ) + n = SECSIZ
  /\ h.data = c.data /\ h.sent = c.sent + n /\ h.fp.offset = c.fp.offset + n
  /\ \A j \in 0 .. SECSIZ - 1 :
       h.fp.buffer[j] = IF j \in (c.fp.offset % SECSIZ) .. (c.fp.offset % SECSIZ) + n - 1
                        THEN c.data[c.sent + j - (c.fp.offset % SECSIZ) + 1]
                        ELSE c.fp.buffer[j]
  /\ \/ "DIRTY" \in h.fp.flags /\ h.fp.sector = c.xsector /\ h.disk = c.disk
     \/ "DIRTY" \notin h.fp.flags /\ h.disk = PutSector(c.disk, c.xsector, h.fp.buffer)
     \/ /\ bad # {} /\ h.done
        /\ h.fp.flags = c.fp.flags /\ h.fp.sector = c.fp.sector /\ h.disk = c.disk

LEMMA HeadSteps ==
  ASSUME NEW c, WriteCall(c), ~c.done, c.left > 0, NEW bad, NEW h, h = WriteHead(c, bad)
  PROVE  \/ h = c /\ c.fp.offset % SECSIZ = 0 /\ c.left >= SECSIZ
         \/ \E n \in Nat : HeadStep(c, h, n, bad)
<1> DEFINE p   == c.fp.offset % SECSIZ
           nbs == Buffered(c, p)
           g   == Give(c, p, nbs)
<1>2. c.left \in Nat /\ c.fp.offset \in Int
  BY WriteFields
<1>3. SECSIZ \in Nat \ {0} /\ p \in 0 .. SECSIZ - 1
  BY <1>2, SectorArithmetic, CcbAssumption
<1>4. /\ nbs \in Nat /\ nbs <= c.left /\ p + nbs <= SECSIZ
      /\ nbs = c.left \/ p + nbs = SECSIZ \/ nbs = 0
      /\ nbs = 0 => p = 0 /\ c.left >= SECSIZ
  <2> HIDE DEF p
  <2> QED
    BY <1>2, <1>3 DEF Buffered
<1>p. p = c.fp.offset % SECSIZ
  OBVIOUS
<1> HIDE DEF p, nbs
<1>g. g = Give(c, p, nbs)
  OBVIOUS
<1>7. h = IF c.done \/ nbs = 0       THEN c
          ELSE IF p + nbs # SECSIZ THEN Dirtied(g, c.xsector)
          ELSE IF c.xsector \in bad  THEN Fail(g)
          ELSE [g EXCEPT !.disk = PutSector(c.disk, c.xsector, g.fp.buffer),
                         !.fp.flags = @ \ {"DIRTY"}, !.fp.sector = -1,
                         !.xsector = U(@ + 1)]
  BY DEF WriteHead, p, nbs, g, Dirtied
<1> HIDE DEF g
<1>5. WriteCall(g)
  BY <1>3, <1>4, <1>g, WriteGiven
<1>6. /\ g.fp.flags = c.fp.flags /\ g.fp.sector = c.fp.sector
      /\ g.fp.offset = c.fp.offset + nbs
      /\ \A j \in 0 .. SECSIZ - 1 :
           g.fp.buffer[j] = IF j \in p .. p + nbs - 1 THEN c.data[c.sent + j - p + 1]
                            ELSE c.fp.buffer[j]
      /\ g.data = c.data /\ g.xsector = c.xsector /\ g.disk = c.disk
      /\ g.sent = c.sent + nbs /\ g.left = c.left - nbs
  BY <1>g, GiveFields
<1>8. CASE nbs = 0
  BY <1>4, <1>7, <1>8, <1>p
<1>9. ASSUME nbs # 0,
             h.fp.buffer = g.fp.buffer, h.data = g.data, h.sent = g.sent,
             h.fp.offset = g.fp.offset,
             \/ "DIRTY" \in h.fp.flags /\ h.fp.sector = c.xsector /\ h.disk = c.disk
             \/ "DIRTY" \notin h.fp.flags /\ h.disk = PutSector(c.disk, c.xsector, h.fp.buffer)
             \/ /\ bad # {} /\ h.done
                /\ h.fp.flags = g.fp.flags /\ h.fp.sector = g.fp.sector /\ h.disk = c.disk
      PROVE  HeadStep(c, h, nbs, bad)
  <2>1. nbs > 0 /\ (nbs = c.left \/ p + nbs = SECSIZ)
    BY <1>4, <1>9
  <2> QED
    BY <1>4, <1>6, <1>9, <1>p, <2>1 DEF HeadStep
<1>10. ASSUME nbs # 0, p + nbs # SECSIZ PROVE HeadStep(c, h, nbs, bad)
  <2>1. h = Dirtied(g, c.xsector)
    BY <1>7, <1>10
  <2>2. /\ "DIRTY" \in h.fp.flags /\ h.fp.sector = c.xsector /\ h.fp.offset = g.fp.offset
        /\ h.fp.buffer = g.fp.buffer /\ h.disk = g.disk /\ h.data = g.data /\ h.sent = g.sent
    BY <1>5, <2>1, DirtiedFields
  <2> QED
    BY <1>6, <1>9, <1>10, <2>2
<1>11. ASSUME nbs # 0, p + nbs = SECSIZ, c.xsector \in bad PROVE HeadStep(c, h, nbs, bad)
  <2>1. h = Fail(g)
    BY <1>7, <1>11
  <2>2. h.fp = g.fp /\ h.disk = g.disk /\ h.data = g.data /\ h.sent = g.sent /\ h.done = TRUE
    BY <1>5, <2>1, FailFields
  <2> QED
    BY <1>6, <1>9, <1>11, <2>2
<1>12. ASSUME nbs # 0, p + nbs = SECSIZ, c.xsector \notin bad PROVE HeadStep(c, h, nbs, bad)
  <2>0. PICK d, x : d = PutSector(c.disk, c.xsector, g.fp.buffer) /\ x = U(g.xsector + 1)
    OBVIOUS
  <2>1. h = Stored(g, d, x)
    BY <1>7, <1>12, <2>0 DEF Stored
  <2>2. /\ "DIRTY" \notin h.fp.flags /\ h.fp.offset = g.fp.offset
        /\ h.fp.buffer = g.fp.buffer /\ h.disk = d
        /\ h.data = g.data /\ h.sent = g.sent
    BY <1>5, <2>1, StoredFields
  <2> QED
    BY <1>9, <1>12, <2>0, <2>2
<1> QED
  BY <1>4, <1>8, <1>10, <1>11, <1>12

LEMMA WriteHeadBytes ==
  ASSUME NEW data, NEW i, Orderly(data, i), NEW bad,
         NEW c, WriteCall(c), Labelled(c, data, bad), LabelledAt(c, i)
  PROVE  ByteOK(WriteHead(c, bad), data, i, bad)
<1>1. PICK h : h = WriteHead(c, bad)
  OBVIOUS
<1>2. PICK o : o = fp.offset
  OBVIOUS
<1>3. /\ o \in Nat \cup {-1} /\ o \in Int /\ Len(data) \in Nat /\ Len(data) > 0
      /\ o <= SECSIZ * MaxSector /\ MaxSector < UWord
      /\ i \in Int /\ i \in Offset
  <2>1. Writes(data) /\ i \in Offset
    BY DEF Orderly
  <2> QED
    BY <1>2, <2>1, WritesFit, OffsetPlace
<1>4. /\ c.sent = 0 /\ c.fp.offset = o /\ c.data = data /\ c.left = Len(data)
      /\ Here(c, i) = Shown(i)
  <2>1. /\ c.sent = 0 /\ c.fp.offset = fp.offset + c.sent /\ c.data = data
        /\ Here(c, i) = Shown(i)
    BY DEF Labelled, Progress, LabelledAt
  <2>2. c.sent + c.left = Len(c.data) /\ c.left \in Nat
    BY WriteFields
  <2> QED
    BY <1>2, <1>3, <2>1, <2>2
<1>5. InRange(data, i) <=> i \in o .. o + Len(data) - 1
  BY <1>2 DEF InRange
<1>6. CASE h = c
  <2>1. Spared(c, i)
    BY <1>4 DEF Spared
  <2>2. InRange(data, i) => Replaced(c, data, i, bad)
    BY <1>3, <1>4, <1>5 DEF Replaced
  <2> QED
    BY <1>1, <1>6, <2>1, <2>2 DEF ByteOK
<1>7. ASSUME NEW n \in Nat, HeadStep(c, h, n, bad), ~c.done
      PROVE  ByteOK(h, data, i, bad)
  <2> DEFINE b == data[i - fp.offset + 1]
  <2>1. PICK s \in Int, r \in 0 .. SECSIZ - 1, p \in 0 .. SECSIZ - 1 :
          s = i \div SECSIZ /\ r = i % SECSIZ /\ p = o % SECSIZ
    <3>1. i % SECSIZ \in 0 .. SECSIZ - 1 /\ o % SECSIZ \in 0 .. SECSIZ - 1 /\ i \div SECSIZ \in Int
      BY <1>3, SectorArithmetic
    <3> QED
      BY <3>1
  <2>2. SECSIZ \in Nat \ {0} /\ s \in Int
    BY <1>3, <2>1, CcbAssumption, SectorArithmetic
  <2>3. c.xsector = s <=> o \div SECSIZ = s
    BY <1>3, <1>4, <1>7, <2>1, SectorsFit DEF Labelled, AtSector
  <2>4. o \div SECSIZ = s => i - o = r - p
    BY <1>3, <2>1, SameSector
  <2>5. /\ n > 0 /\ n <= Len(data) /\ p + n <= SECSIZ
        /\ n = Len(data) \/ p + n = SECSIZ
        /\ h.fp.offset = o + n /\ h.sent = n
    <3>1. 0 + n = n
      OBVIOUS
    <3> QED
      BY <1>4, <1>7, <2>1, <3>1 DEF HeadStep
  <2>6. i \in o .. o + n - 1 => o \div SECSIZ = s
    <3> SUFFICES ASSUME i \in o .. o + n - 1 PROVE o \div SECSIZ = s
      OBVIOUS
    <3>1. PICK t \in Int : t = i - o
      BY <1>3
    <3>2. p + t \in 0 .. SECSIZ - 1 /\ o + t = i
      BY <1>3, <2>2, <2>5, <3>1
    <3>3. (o + t) \div SECSIZ = o \div SECSIZ
      BY <1>3, <2>1, <3>2, Within
    <3> QED
      BY <2>1, <3>2, <3>3
  <2>7. (h.fp.offset - 1) \div SECSIZ = o \div SECSIZ
    <3>1. PICK t \in Int : t = n - 1
      OBVIOUS
    <3>2. p + t \in 0 .. SECSIZ - 1 /\ o + t = (o + n) - 1
      BY <1>3, <2>2, <2>5, <3>1
    <3>3. (o + t) \div SECSIZ = o \div SECSIZ
      BY <1>3, <2>1, <3>2, Within
    <3> QED
      BY <2>5, <3>2, <3>3
  <2>8. o \div SECSIZ = s => h.fp.buffer[r] = IF i \in o .. o + n - 1 THEN b ELSE c.fp.buffer[r]
    <3> SUFFICES ASSUME i - o = r - p
                 PROVE  h.fp.buffer[r] = IF i \in o .. o + n - 1 THEN b ELSE c.fp.buffer[r]
      BY <2>4
    <3>1. h.fp.buffer[r] = IF r \in p .. p + n - 1 THEN data[0 + r - p + 1] ELSE c.fp.buffer[r]
      BY <1>4, <1>7, <2>1 DEF HeadStep
    <3>2. r \in p .. p + n - 1 <=> i \in o .. o + n - 1
      BY <1>3, <2>2
    <3>3. 0 + r - p + 1 = i - o + 1
      BY <1>3, <2>2
    <3> QED
      BY <1>2, <3>1, <3>2, <3>3
  <2>9. \/ s = c.xsector /\ Here(h, i) = h.fp.buffer[r]
        \/ /\ s # c.xsector \/ (bad # {} /\ h.done)
           /\ Here(h, i) = Here(c, i)
    <3>1. c.fp.sector = c.xsector
      BY <1>7 DEF Labelled
    <3>2. CASE "DIRTY" \in h.fp.flags /\ h.fp.sector = c.xsector /\ h.disk = c.disk
      BY <2>1, <3>1, <3>2 DEF Here, At
    <3>3. CASE "DIRTY" \notin h.fp.flags /\ h.disk = PutSector(c.disk, c.xsector, h.fp.buffer)
      BY <2>1, <3>1, <3>3 DEF Here, At, PutSector
    <3>4. CASE /\ bad # {} /\ h.done
               /\ h.fp.flags = c.fp.flags /\ h.fp.sector = c.fp.sector /\ h.disk = c.disk
      BY <2>1, <3>1, <3>4 DEF Here, At
    <3> QED
      BY <1>7, <3>2, <3>3, <3>4 DEF HeadStep
  <2> HIDE DEF b
  <2>10. ASSUME s = c.xsector, Here(h, i) = h.fp.buffer[r], i \in o .. o + n - 1
         PROVE  ByteOK(h, data, i, bad)
    <3>1. Here(h, i) = b
      BY <2>3, <2>8, <2>10
    <3>2. InRange(data, i) /\ i < h.fp.offset
      BY <1>3, <1>5, <2>5, <2>10
    <3> QED
      BY <3>1, <3>2 DEF ByteOK, Replaced, b
  <2>11. ASSUME s = c.xsector, Here(h, i) = h.fp.buffer[r], i \notin o .. o + n - 1
         PROVE  ByteOK(h, data, i, bad)
    <3>1. Here(h, i) = c.fp.buffer[r]
      BY <2>3, <2>8, <2>11
    <3>2. ~InRange(data, i)
      <4> SUFFICES ASSUME i \in o .. o + Len(data) - 1 PROVE FALSE
        BY <1>5
      <4>1. i >= o + n /\ p + n = SECSIZ
        BY <1>3, <2>5, <2>11
      <4>2. i - o = r - p
        BY <2>3, <2>4, <2>11
      <4> QED
        BY <1>3, <2>2, <4>1, <4>2
    <3>3. c.fp.buffer[r] = Shown(i) \/ Shown(i) = None
      BY <1>7, <2>1, <2>11 DEF LabelledAt
    <3>4. c.fp.buffer[r] \in Byte
      BY WriteFields DEF Sector
    <3>5. i \div SECSIZ <= (h.fp.offset - 1) \div SECSIZ
      BY <2>1, <2>2, <2>3, <2>7, <2>11
    <3>6. Spared(h, i)
      BY <2>5, <3>1, <3>3, <3>4, <3>5 DEF Spared
    <3> QED
      BY <3>2, <3>6 DEF ByteOK
  <2>12. ASSUME s # c.xsector \/ (bad # {} /\ h.done), Here(h, i) = Here(c, i)
         PROVE  ByteOK(h, data, i, bad)
    <3>1. Spared(h, i)
      BY <1>4, <2>12 DEF Spared
    <3>2. ASSUME InRange(data, i) PROVE Replaced(h, data, i, bad)
      <4>1. ~h.done \/ bad = {} => ~ (i < h.fp.offset)
        <5> SUFFICES ASSUME ~h.done \/ bad = {} PROVE ~ (i < h.fp.offset)
          OBVIOUS
        <5>1. i \notin o .. o + n - 1
          BY <2>3, <2>6, <2>12
        <5> QED
          BY <1>3, <1>5, <2>5, <3>2, <5>1
      <4> QED
        BY <1>4, <2>12, <4>1 DEF Replaced
    <3> QED
      BY <3>1, <3>2 DEF ByteOK
  <2> QED
    BY <2>9, <2>10, <2>11, <2>12
<1>8. ASSUME c.done PROVE h = c
  BY <1>1, <1>8 DEF WriteHead
<1>9. CASE ~c.done
  BY <1>1, <1>3, <1>4, <1>6, <1>7, <1>9, HeadSteps
<1> QED
  BY <1>6, <1>8, <1>9

(* A byte of the disk after sectors from xs on were put there: xs is the   *)
(* sector of the aligned offset x, or lies above every sector of the file. *)
Span(x, k) == x .. (x + k * SECSIZ) - 1

Placed(x, k, xs, i) == \/ x % SECSIZ = 0 /\ xs = x \div SECSIZ
                       \/ i \div SECSIZ < xs /\ i \notin Span(x, k)

LEMMA PutSectorsAt ==
  ASSUME NEW d, NEW xs \in Nat, NEW k \in Nat, NEW src, NEW x \in Int, NEW i \in Nat,
         Placed(x, k, xs, i),
         NEW p, p = PutSectors(d, xs, k, src), NEW f
  PROVE  At(f, p, i) = IF "DIRTY" \in f.flags /\ f.sector = i \div SECSIZ THEN At(f, d, i)
                       ELSE IF i \in Span(x, k) THEN src[i - x + 1]
                       ELSE At(f, d, i)
<1>e. PICK e : e = x + k * SECSIZ
  OBVIOUS
<1>s. Span(x, k) = x .. e - 1
  BY <1>e DEF Span
<1>0. \/ x % SECSIZ = 0 /\ xs = x \div SECSIZ
      \/ i \div SECSIZ < xs /\ i \notin x .. e - 1
  BY <1>s DEF Placed
<1>1. PICK s \in Int, r \in 0 .. SECSIZ - 1 : s = i \div SECSIZ /\ r = i % SECSIZ
  <2>1. i \div SECSIZ \in Int /\ i % SECSIZ \in 0 .. SECSIZ - 1
    BY SectorArithmetic
  <2> QED
    BY <2>1
<1>2. s \in xs .. xs + k - 1 <=> i \in x .. e - 1
  <2>1. CASE x % SECSIZ = 0 /\ xs = x \div SECSIZ
    BY <1>1, <1>e, <2>1, Run
  <2>2. CASE i \div SECSIZ < xs /\ i \notin x .. e - 1
    BY <1>1, <2>2
  <2> QED
    BY <1>0, <2>1, <2>2
<1>3. i \in x .. e - 1 => ((s - xs) * SECSIZ) + r + 1 = i - x + 1
  <2>1. CASE x % SECSIZ = 0 /\ xs = x \div SECSIZ
    BY <1>1, <1>e, <2>1, Run
  <2>2. CASE i \div SECSIZ < xs /\ i \notin x .. e - 1
    BY <2>2
  <2> QED
    BY <1>0, <2>1, <2>2
<1>4. /\ s \in DOMAIN p <=> s \in DOMAIN d \/ s \in xs .. xs + k - 1
      /\ s \in xs .. xs + k - 1 => p[s][r] = src[((s - xs) * SECSIZ) + r + 1]
      /\ s \notin xs .. xs + k - 1 /\ s \in DOMAIN d => p[s] = d[s]
  BY DEF PutSectors
<1> QED
  BY <1>1, <1>2, <1>3, <1>4, <1>s DEF At

(* Where a request that fits has got to fits as well. *)
LEMMA GotTo ==
  ASSUME NEW o \in Nat \cup {-1}, NEW l \in Nat, NEW u \in Nat, NEW n \in Nat, NEW m \in Nat,
         u + n = l, o + l <= m
  PROVE  o + u \in Nat \cup {-1} /\ o + u <= m
OBVIOUS

LEMMA WriteDirectBytes ==
  ASSUME NEW data, NEW i, Orderly(data, i), NEW bad,
         NEW c, WriteCall(c), Headed(c, data, bad), ByteOK(c, data, i, bad)
  PROVE  ByteOK(WriteDirect(c, bad), data, i, bad)
<1>1. PICK h : h = WriteDirect(c, bad)
  OBVIOUS
<1>2. PICK o, x : o = fp.offset /\ x = c.fp.offset
  OBVIOUS
<1>3. /\ o \in Nat \cup {-1} /\ Len(data) \in Nat /\ Len(data) < UWord
      /\ o + Len(data) <= SECSIZ * MaxSector /\ MaxSector < UWord /\ SECSIZ * MaxSector \in Nat
      /\ i \in Nat /\ i \in Offset /\ SECSIZ \in Nat \ {0}
  <2>1. Writes(data) /\ i \in Offset
    BY DEF Orderly
  <2> QED
    BY <1>2, <2>1, WritesFit, OffsetPlace, CcbAssumption
<1>4. /\ c.sent \in Nat /\ c.left \in Nat /\ c.sent + c.left = Len(data)
      /\ x = o + c.sent /\ c.data = data /\ c.xsector \in Nat
  BY <1>2, WriteFields DEF Headed, Progress
<1>x. x \in Int
  BY <1>3, <1>4
<1>5. InRange(data, i) <=> i \in o .. o + Len(data) - 1
  BY <1>2 DEF InRange
<1>6. ASSUME c.done \/ c.left < SECSIZ PROVE h = c
  BY <1>1, <1>6 DEF WriteDirect
<1>7. ASSUME ~c.done, c.left >= SECSIZ,
             NEW n \in Nat, NEW k \in 0 .. n, DirectStep(c, h, n, k, bad)
      PROVE  ByteOK(h, data, i, bad)
  <2>1. AtStart(c) /\ (Put(c) \/ Passed(c))
    BY <1>3, <1>4, <1>7 DEF Headed, Filled
  <2>2. PICK e, w, m, src : /\ e = x + k * SECSIZ /\ w = n * SECSIZ /\ m = k * SECSIZ
                         /\ src = [j \in 1 .. k * SECSIZ |-> c.data[c.sent + j]]
    OBVIOUS
  <2>3. /\ e \in Int /\ w \in Nat /\ m \in Nat /\ e = x + m /\ m <= w /\ w <= c.left
        /\ k = n => m = w
    <3>1. k * SECSIZ \in Nat /\ n * SECSIZ \in Nat /\ k * SECSIZ <= n * SECSIZ
      BY <1>3, Multiples
    <3>2. n * SECSIZ <= c.left
      BY <1>7 DEF DirectStep
    <3> QED
      BY <1>x, <2>2, <3>1, <3>2
  <2>4. /\ h.fp.flags = c.fp.flags /\ h.fp.sector = c.fp.sector /\ h.fp.buffer = c.fp.buffer
        /\ h.disk = PutSectors(c.disk, c.xsector, k, src)
        /\ k # n => bad # {} /\ h.done /\ h.sent = c.sent /\ h.fp.offset = x
        /\ k = n => h.sent = c.sent + w /\ h.fp.offset = x + w
    BY <1>2, <1>7, <2>2 DEF DirectStep
  <2>5. \/ x % SECSIZ = 0 /\ c.xsector = x \div SECSIZ
        \/ i \div SECSIZ < c.xsector /\ ~(i \in x .. e - 1 /\ o >= 0)
    <3>1. x \in Nat \cup {-1} /\ x <= SECSIZ * MaxSector
      <4>1. PICK l, u, t, z : l = Len(data) /\ u = c.sent /\ t = c.left /\ z = SECSIZ * MaxSector
        OBVIOUS
      <4>2. o \in Nat \cup {-1} /\ l \in Nat /\ z \in Nat /\ o + l <= z
        BY <1>3, <4>1
      <4>3. u \in Nat /\ t \in Nat /\ u + t = l /\ x = o + u
        BY <1>4, <4>1
      <4>4. o + u \in Nat \cup {-1} /\ o + u <= z
        BY <4>2, <4>3, GotTo
      <4> QED
        BY <4>1, <4>3, <4>4
    <3>2. x % SECSIZ = 0 /\ c.xsector = U(x \div SECSIZ)
      BY <1>2, <2>1 DEF AtStart, AtSector
    <3>3. CASE x >= 0
      BY <1>3, <3>1, <3>2, <3>3, SectorsFit
    <3>4. CASE x = -1
      <4>1. i \div SECSIZ < c.xsector
        BY <1>3, <3>1, <3>2, <3>4, SectorsFit
      <4>2. o < 0
        BY <1>3, <1>4, <3>4
      <4> QED
        BY <1>3, <4>1, <4>2
    <3> QED
      BY <3>1, <3>3, <3>4
  <2>6. i \in x .. e - 1 => InRange(data, i)
    <3>1. PICK l \in Nat, u \in Nat, z \in Int :
            l = c.left /\ u = c.sent /\ z = o + Len(data) /\ z = x + l /\ o <= x
      <4>1. PICK l \in Nat, u \in Nat : l = c.left /\ u = c.sent
        BY <1>4
      <4>2. o \in Int /\ u + l = Len(data) /\ x = o + u
        BY <1>3, <1>4, <4>1
      <4>3. o + (u + l) = x + l /\ o + (u + l) \in Int /\ o <= x
        BY <4>2
      <4> QED
        BY <4>1, <4>2, <4>3
    <3> QED
      BY <1>3, <1>x, <1>5, <2>3, <3>1
  <2>7. ASSUME ~InRange(data, i) PROVE ByteOK(h, data, i, bad)
    <3>1. Here(h, i) = Here(c, i)
      <4>1. \/ x % SECSIZ = 0 /\ c.xsector = x \div SECSIZ
            \/ i \div SECSIZ < c.xsector /\ i \notin x .. e - 1
        BY <2>5, <2>6, <2>7
      <4>2. x \in Int /\ k \in Nat
        BY <1>3, <1>4
      <4>3. At(h.fp, h.disk, i) = IF "DIRTY" \in h.fp.flags /\ h.fp.sector = i \div SECSIZ
                                  THEN At(h.fp, c.disk, i)
                                  ELSE IF i \in x .. e - 1 THEN src[i - x + 1]
                                  ELSE At(h.fp, c.disk, i)
        <5>1. e = x + k * SECSIZ /\ h.disk = PutSectors(c.disk, c.xsector, k, src)
              /\ c.xsector \in Nat /\ i \in Nat
          BY <1>3, <1>4, <2>2, <2>4
        <5>2. Span(x, k) = x .. e - 1 /\ Placed(x, k, c.xsector, i)
          BY <4>1, <5>1 DEF Span, Placed
        <5> QED
          BY <4>2, <5>1, <5>2, PutSectorsAt
      <4> QED
        BY <2>4, <2>6, <2>7, <4>3 DEF Here, At
    <3>2. Spared(c, i)
      BY <2>7 DEF ByteOK
    <3>3. h.fp.offset \in Int /\ x <= h.fp.offset /\ h.sent >= c.sent /\ h.sent \in Nat /\ x \in Int
      <4>1. x <= x + w /\ x + w \in Int /\ c.sent + w >= c.sent /\ c.sent + w \in Nat /\ c.sent >= c.sent
        BY <1>4, <1>x, <2>3
      <4> QED
        BY <1>4, <1>x, <2>4, <4>1
    <3>4. (x - 1) \div SECSIZ <= (h.fp.offset - 1) \div SECSIZ
          /\ (x - 1) \div SECSIZ \in Int /\ (h.fp.offset - 1) \div SECSIZ \in Int
          /\ i \div SECSIZ \in Int
      <4>1. PICK a \in Int, b \in Int : a = x - 1 /\ b = h.fp.offset - 1 /\ a <= b
        BY <3>3
      <4> QED
        <5>1. a \div SECSIZ <= b \div SECSIZ /\ a \div SECSIZ \in Int /\ b \div SECSIZ \in Int
          BY <4>1, Order, SectorArithmetic
        <5> QED
          BY <1>3, <4>1, <5>1, SectorArithmetic
    <3>5. Spared(h, i)
      BY <1>2, <1>4, <3>1, <3>2, <3>3, <3>4 DEF Spared
    <3> QED
      BY <2>7, <3>5 DEF ByteOK
  <2>8. ASSUME InRange(data, i), o >= 0, Apart(data) PROVE Replaced(h, data, i, bad)
    <3> DEFINE b == data[i - fp.offset + 1]
    <3>1. "DIRTY" \notin c.fp.flags
      <4>1. CASE Put(c)
        BY <4>1 DEF Put
      <4>2. CASE Passed(c)
        <5>1. Len(data) >= SECSIZ
          BY <1>3, <1>4, <1>7
        <5> QED
          BY <2>8, <4>2, <5>1 DEF Passed, OldDirty, Apart
      <4> QED
        BY <2>1, <4>1, <4>2
    <3>2. Here(h, i) = IF i \in x .. e - 1 THEN src[i - x + 1] ELSE Here(c, i)
      <4>1. \/ x % SECSIZ = 0 /\ c.xsector = x \div SECSIZ
            \/ i \div SECSIZ < c.xsector /\ i \notin x .. e - 1
        BY <2>5, <2>8
      <4>2. x \in Int /\ k \in Nat
        BY <1>3, <1>4
      <4>3. At(h.fp, h.disk, i) = IF "DIRTY" \in h.fp.flags /\ h.fp.sector = i \div SECSIZ
                                  THEN At(h.fp, c.disk, i)
                                  ELSE IF i \in x .. e - 1 THEN src[i - x + 1]
                                  ELSE At(h.fp, c.disk, i)
        <5>1. e = x + k * SECSIZ /\ h.disk = PutSectors(c.disk, c.xsector, k, src)
              /\ c.xsector \in Nat /\ i \in Nat
          BY <1>3, <1>4, <2>2, <2>4
        <5>2. Span(x, k) = x .. e - 1 /\ Placed(x, k, c.xsector, i)
          BY <4>1, <5>1 DEF Span, Placed
        <5> QED
          BY <4>2, <5>1, <5>2, PutSectorsAt
      <4>4. At(h.fp, c.disk, i) = At(c.fp, c.disk, i)
        BY <2>4 DEF At
      <4> QED
        BY <2>4, <3>1, <4>3, <4>4 DEF Here
    <3>3. i \in x .. e - 1 => src[i - x + 1] = b
      <4> SUFFICES ASSUME i \in x .. e - 1 PROVE src[i - x + 1] = b
        OBVIOUS
      <4>1. i - x + 1 \in 1 .. k * SECSIZ
        <5>1. i - x + 1 \in 1 .. m
          BY <1>3, <1>x, <2>3
        <5> QED
          BY <2>2, <5>1
      <4>2. c.sent + (i - x + 1) = i - o + 1
        BY <1>3, <1>4
      <4> QED
        BY <1>2, <1>4, <2>2, <4>1, <4>2
    <3> HIDE DEF b
    <3>4. /\ Here(c, i) \in {Shown(i), b}
          /\ Here(c, i) = IF i < x THEN b ELSE Shown(i)
      BY <1>2, <1>7, <2>8 DEF ByteOK, Replaced, b
    <3>5. Here(h, i) \in {Shown(i), b}
      BY <3>2, <3>3, <3>4
    <3>6. ASSUME ~h.done \/ bad = {} PROVE Here(h, i) = IF i < h.fp.offset THEN b ELSE Shown(i)
      <4>1. h.fp.offset = e
        BY <2>3, <2>4, <3>6
      <4>2. x \in Int /\ x <= e
        BY <1>3, <1>4, <2>2, <2>3
      <4> QED
        BY <1>3, <2>3, <3>2, <3>3, <3>4, <4>1, <4>2
    <3> QED
      BY <3>5, <3>6 DEF Replaced, b
  <2> QED
    BY <1>2, <2>7, <2>8 DEF ByteOK
<1>8. ASSUME ~c.done, c.left >= SECSIZ PROVE ByteOK(h, data, i, bad)
  <2>1. Len(c.data) < UWord
    BY <1>3, <1>4
  <2>2. PICK n \in Nat : \E k \in 0 .. n : DirectStep(c, h, n, k, bad)
    BY <1>1, <1>8, <2>1, DirectSteps
  <2> QED
    BY <1>7, <1>8, <2>2
<1>9. c.done \/ c.left < SECSIZ \/ (~c.done /\ c.left >= SECSIZ)
  BY <1>3, <1>4
<1> QED
  BY <1>1, <1>6, <1>8, <1>9

(* A byte spared stays so while the call goes on. *)
LEMMA SparedOn ==
  ASSUME NEW c, NEW h, NEW i \in Nat, Spared(c, i), Here(h, i) = Here(c, i),
         c.sent \in Nat, h.sent \in Nat, c.sent <= h.sent,
         c.fp.offset \in Int, h.fp.offset \in Int, c.fp.offset <= h.fp.offset
  PROVE  Spared(h, i)
<1>1. PICK a \in Int, b \in Int : a = c.fp.offset - 1 /\ b = h.fp.offset - 1 /\ a <= b
  OBVIOUS
<1>2. /\ a \div SECSIZ <= b \div SECSIZ
      /\ a \div SECSIZ \in Int /\ b \div SECSIZ \in Int /\ i \div SECSIZ \in Int
  <2>1. i \in Int /\ a \div SECSIZ <= b \div SECSIZ
    BY <1>1, Order
  <2> QED
    BY <2>1, SectorArithmetic
<1> QED
  BY <1>1, <1>2 DEF Spared

LEMMA WriteTailBytes ==
  ASSUME NEW data, NEW i, Orderly(data, i), NEW bad,
         NEW c, WriteCall(c), Directed(c, data, bad), ByteOK(c, data, i, bad)
  PROVE  ByteOK(WriteTail(c), data, i, bad)
<1>1. PICK h : h = WriteTail(c)
  OBVIOUS
<1>2. PICK o, x, n, u : o = fp.offset /\ x = c.fp.offset /\ n = c.left /\ u = c.sent
  OBVIOUS
<1>3. /\ o \in Nat \cup {-1} /\ Len(data) \in Nat
      /\ o + Len(data) <= SECSIZ * MaxSector /\ MaxSector < UWord /\ SECSIZ * MaxSector \in Nat
      /\ i \in Nat /\ i \in Int /\ i \in Offset /\ SECSIZ \in Nat \ {0}
  <2>1. Writes(data) /\ i \in Offset
    BY DEF Orderly
  <2> QED
    BY <1>2, <2>1, WritesFit, OffsetPlace, CcbAssumption
<1>4. /\ u \in Nat /\ n \in Nat /\ u + n = Len(data)
      /\ x = o + u /\ c.data = data /\ c.xsector \in Nat
      /\ c.fp.hiwater = fp.hiwater
  BY <1>2, WriteFields DEF Directed, Progress
<1>x. x \in Int /\ o \in Int /\ x + n = o + Len(data) /\ o <= x
  <2>1. o + (u + n) = (o + u) + n /\ o + u \in Int /\ o \in Int
    BY <1>3, <1>4
  <2> QED
    BY <1>4, <2>1
<1>5. InRange(data, i) <=> i \in o .. o + Len(data) - 1
  BY <1>2 DEF InRange
<1>6. ASSUME c.done \/ n = 0 PROVE h = c
  BY <1>1, <1>2, <1>6 DEF WriteTail
<1>7. ASSUME h = Fail(c), ~c.done PROVE ByteOK(h, data, i, bad)
  <2>1. h.fp = c.fp /\ h.disk = c.disk /\ h.sent = c.sent
    BY <1>7, FailFields
  <2> QED
    BY <1>7, <2>1 DEF ByteOK, Spared, Replaced, Here
<1>8. ASSUME ~c.done, n # 0, NEW sec, NEW d, Filling(c, d, sec), h = Rest(c, d),
             \/ AboveHiwater(c) /\ sec = Zeros
             \/ c.xsector \in DOMAIN c.disk /\ sec = c.disk[c.xsector]
      PROVE  ByteOK(h, data, i, bad)
  <2>1. AtStart(c) /\ n < SECSIZ /\ n > 0 /\ (Put(c) \/ (Passed(c) /\ u >= SECSIZ))
    BY <1>2, <1>4, <1>8 DEF Directed, Filled
  <2>2. PICK s \in Int, r \in 0 .. SECSIZ - 1 : s = i \div SECSIZ /\ r = i % SECSIZ
    <3>1. i \div SECSIZ \in Int /\ i % SECSIZ \in 0 .. SECSIZ - 1
      BY <1>3, SectorArithmetic
    <3> QED
      BY <3>1
  <2>3. /\ "DIRTY" \in h.fp.flags /\ h.fp.sector = c.xsector /\ h.disk = c.disk
        /\ h.fp.offset = x + n /\ h.sent = u + n
        /\ h.fp.buffer[r] = IF r \in 0 .. 0 + n - 1 THEN data[u + r - 0 + 1] ELSE sec[r]
    <3>1. /\ "DIRTY" \in h.fp.flags /\ h.fp.sector = c.xsector /\ h.disk = c.disk
          /\ h.fp.offset = c.fp.offset + c.left /\ h.sent = c.sent + c.left
          /\ h.fp.buffer[r] = IF r \in 0 .. 0 + c.left - 1 THEN c.data[c.sent + r - 0 + 1] ELSE sec[r]
      BY <1>8, RestFields
    <3> QED
      BY <1>2, <1>4, <3>1
  <2>4. x % SECSIZ = 0 /\ c.xsector = U(x \div SECSIZ)
    BY <1>2, <2>1 DEF AtStart, AtSector
  <2>5. c.xsector = s <=> x \div SECSIZ = s
    <3>1. x \in Nat \cup {-1} /\ x <= SECSIZ * MaxSector
      <4>1. PICK l, m : l = Len(data) /\ m = SECSIZ * MaxSector
        OBVIOUS
      <4>2. o \in Nat \cup {-1} /\ l \in Nat /\ m \in Nat /\ o + l <= m
        BY <1>3, <4>1
      <4>3. u \in Nat /\ n \in Nat /\ u + n = l /\ x = o + u
        BY <1>4, <4>1
      <4>4. o + u \in Nat \cup {-1} /\ o + u <= m
        BY <4>2, <4>3, GotTo
      <4> QED
        BY <4>1, <4>3, <4>4
    <3> QED
      BY <1>3, <2>2, <2>4, <3>1, SectorsFit
  <2>6. x \div SECSIZ = s => i = x + r
    <3> SUFFICES ASSUME x \div SECSIZ = s PROVE i = x + r
      OBVIOUS
    <3>1. i - x = (i % SECSIZ) - (x % SECSIZ)
      BY <1>3, <1>x, <2>2, SameSector
    <3> QED
      BY <1>3, <1>x, <2>2, <2>4, <3>1
  <2>7. i \in x .. x + n - 1 => x \div SECSIZ = s
    <3> SUFFICES ASSUME i \in x .. x + n - 1 PROVE x \div SECSIZ = s
      OBVIOUS
    <3>1. PICK t \in Int : t = i - x
      BY <1>3, <1>x
    <3>2. (x % SECSIZ) + t \in 0 .. SECSIZ - 1 /\ x + t = i
      BY <1>3, <1>4, <1>x, <2>1, <2>4, <3>1
    <3> QED
      BY <1>x, <2>2, <3>2, Within
  <2>8. ((x + n) - 1) \div SECSIZ = x \div SECSIZ
    <3>1. PICK t \in Int : t = n - 1
      BY <1>4
    <3>2. (x % SECSIZ) + t \in 0 .. SECSIZ - 1 /\ x + t = (x + n) - 1
      BY <1>3, <1>4, <1>x, <2>1, <2>4, <3>1
    <3> QED
      BY <1>x, <3>2, Within
  <2>9. Here(h, i) = IF c.xsector = s THEN h.fp.buffer[r] ELSE At([flags |-> {}], c.disk, i)
    BY <2>2, <2>3 DEF Here, At
  <2>10. ~("DIRTY" \in c.fp.flags /\ c.fp.sector = s) => At([flags |-> {}], c.disk, i) = Here(c, i)
    BY <2>2 DEF Here, At
  <2>11. ASSUME ~InRange(data, i) PROVE Spared(h, i)
    <3>1. Spared(c, i)
      BY <2>11 DEF ByteOK
    <3>2. ~("DIRTY" \in c.fp.flags /\ c.fp.sector = s)
      <4> SUFFICES ASSUME "DIRTY" \in c.fp.flags, c.fp.sector = s PROVE FALSE
        OBVIOUS
      <4>1. o % SECSIZ = 0 /\ U(o \div SECSIZ) = s /\ u >= SECSIZ
        BY <1>2, <2>1 DEF Put, Passed
      <4>2. o <= SECSIZ * MaxSector
        BY <1>3
      <4>3. o \div SECSIZ = s
        BY <1>3, <2>2, <4>1, <4>2, SectorsFit
      <4>4. i - o = (i % SECSIZ) - (o % SECSIZ)
        BY <1>3, <1>x, <2>2, <4>3, SameSector
      <4>5. i >= o /\ i < o + u
        BY <1>3, <1>x, <1>4, <2>2, <4>1, <4>4
      <4>6. i \in o .. o + Len(data) - 1
        <5>1. PICK l \in Nat : l = Len(data) /\ u <= l
          BY <1>3, <1>4
        <5>2. i \in Int /\ o \in Int /\ u \in Nat
          BY <1>3, <1>4, <1>x
        <5>3. i \in o .. o + l - 1
          BY <4>5, <5>1, <5>2
        <5> QED
          BY <5>1, <5>3
      <4> QED
        BY <1>5, <2>11, <4>6
    <3>3. /\ c.sent \in Nat /\ h.sent \in Nat /\ c.sent <= h.sent /\ h.sent > 0
          /\ c.fp.offset \in Int /\ h.fp.offset \in Int /\ c.fp.offset <= h.fp.offset
      <4>1. u + n \in Nat /\ u <= u + n /\ u + n > 0 /\ x + n \in Int /\ x <= x + n
        BY <1>4, <1>x, <2>1
      <4> QED
        BY <1>2, <1>4, <1>x, <2>3, <4>1
    <3>4. ASSUME Here(h, i) = Here(c, i) PROVE Spared(h, i)
      BY <1>3, <3>1, <3>3, <3>4, SparedOn
    <3>5. ASSUME c.xsector = s PROVE Spared(h, i)
      <4>1. Here(h, i) = sec[r]
        <5>1. ~ (r \in 0 .. 0 + n - 1)
          <6>1. i = x + r
            BY <2>5, <2>6, <3>5
          <6> QED
            BY <1>3, <1>4, <1>5, <1>x, <2>11, <6>1
        <5> QED
          BY <2>3, <2>9, <3>5, <5>1
      <4>2. CASE AboveHiwater(c) /\ sec = Zeros
        <5>1. Here(h, i) \in Byte
          BY <4>1, <4>2, CcbAssumption DEF Zeros
        <5>2. x \div SECSIZ > (fp.hiwater - 1) \div SECSIZ
          BY <1>2, <1>4, <4>2 DEF AboveHiwater
        <5>3. Shown(i) = None
          <6>1. s > (fp.hiwater - 1) \div SECSIZ /\ (fp.hiwater - 1) \div SECSIZ \in Int
            <7>1. fp.hiwater \in Nat
              BY WritesFit DEF Orderly
            <7>2. fp.hiwater - 1 \in Int
              BY <7>1
            <7> QED
              BY <2>5, <3>5, <5>2, <7>2, SectorArithmetic
          <6> QED
            BY <2>2, <6>1 DEF Orderly
        <5>4. i \div SECSIZ <= (h.fp.offset - 1) \div SECSIZ
          BY <2>2, <2>3, <2>5, <2>8, <3>5
        <5> QED
          BY <3>3, <5>1, <5>3, <5>4 DEF Spared
      <4>3. CASE c.xsector \in DOMAIN c.disk /\ sec = c.disk[c.xsector]
        <5>1. Here(h, i) = Here(c, i)
          BY <2>2, <3>2, <3>5, <4>1, <4>3 DEF Here, At
        <5> QED
          BY <3>4, <5>1
      <4> QED
        BY <1>8, <4>2, <4>3
    <3> QED
      BY <2>9, <2>10, <3>2, <3>4, <3>5
  <2>12. ASSUME InRange(data, i), o >= 0, Apart(data) PROVE Replaced(h, data, i, bad)
    <3> DEFINE b == data[i - fp.offset + 1]
    <3>1. "DIRTY" \notin c.fp.flags
      <4>1. CASE Put(c)
        BY <4>1 DEF Put
      <4>2. CASE Passed(c) /\ u >= SECSIZ
        <5>1. Len(data) >= SECSIZ
          BY <1>3, <1>4, <4>2
        <5> QED
          BY <2>12, <4>2, <5>1 DEF Passed, OldDirty, Apart
      <4> QED
        BY <2>1, <4>1, <4>2
    <3>2. i < x + n
      BY <1>3, <1>5, <1>x, <2>12
    <3>3. ASSUME c.xsector = s PROVE Here(h, i) = b
      <4>1. i = x + r
        BY <2>5, <2>6, <3>3
      <4>2. r \in 0 .. 0 + n - 1
        BY <1>3, <1>4, <1>x, <2>2, <3>2, <4>1
      <4>3. u + r - 0 + 1 = i - o + 1
        BY <1>3, <1>4, <1>x, <4>1
      <4> QED
        BY <1>2, <2>3, <2>9, <3>3, <4>2, <4>3
    <3> HIDE DEF b
    <3>4. ASSUME c.xsector # s PROVE Here(h, i) = b
      <4>1. Here(c, i) = IF i < x THEN b ELSE Shown(i)
        BY <1>2, <1>8, <2>12 DEF ByteOK, Replaced, b
      <4>2. i < x
        <5>1. ~ (i \in x .. x + n - 1)
          BY <2>5, <2>7, <3>4
        <5> QED
          BY <1>3, <1>4, <1>x, <3>2, <5>1
      <4> QED
        BY <2>9, <2>10, <3>1, <3>4, <4>1, <4>2
    <3>5. Here(h, i) = b
      BY <3>3, <3>4
    <3> QED
      BY <2>3, <3>2, <3>5 DEF Replaced, b
  <2> QED
    BY <1>2, <2>11, <2>12 DEF ByteOK
<1>9. ASSUME ~c.done, n # 0 PROVE ByteOK(h, data, i, bad)
  <2>1. h = IF AboveHiwater(c)  THEN Rest(c, Zeroed(c))
            ELSE IF c.xsector \notin DOMAIN c.disk THEN Fail(c)
            ELSE Rest(c, Preread(c))
    BY <1>1, <1>2, <1>9 DEF WriteTail, Rest
  <2>2. /\ Filling(c, Zeroed(c), Zeros)
        /\ c.xsector \in DOMAIN c.disk => Filling(c, Preread(c), c.disk[c.xsector])
    BY FillingFields
  <2> QED
    BY <1>7, <1>8, <1>9, <2>1, <2>2
<1> QED
  BY <1>1, <1>6, <1>9

-----------------------------------------------------------------------------
(* The whole of a write. *)

(* How far a write gets, and what it leaves in the buffer. *)
Outcome(c, data, bad) ==
  /\ WriteCall(c) /\ c.data = data /\ c.fp.offset = fp.offset + c.sent
  /\ c.sent <= Len(data)
  /\ "ATEOF" \in c.fp.flags <=> "ATEOF" \in fp.flags
  /\ IF c.ok THEN /\ c.sent = Len(data)
                  /\ c.fp.hiwater = Greatest(fp.hiwater, c.fp.offset)
                  /\ Filled(c) \/ Put(c) \/ (Passed(c) /\ c.sent >= SECSIZ)
              ELSE c.fp.hiwater = fp.hiwater /\ Broken(c, bad)

(* What it does to a byte in its range. *)
Delivered(c, data, i, bad) ==
  LET b == data[i - fp.offset + 1]
  IN  /\ Here(c, i) \in {Shown(i), b}
      /\ c.ok \/ bad = {} => Here(c, i) = IF i < c.fp.offset THEN b ELSE Shown(i)

ByteResult(c, data, i, bad) ==
  /\ ~InRange(data, i) => Spared(c, i)
  /\ InRange(data, i) /\ fp.offset >= 0 /\ Apart(data) => Delivered(c, data, i, bad)

LEMMA WriteEndFields ==
  ASSUME NEW c, WriteCall(c), ~c.done, NEW h, h = WriteEnd(c)
  PROVE  /\ h.disk = c.disk /\ h.fp.flags = c.fp.flags /\ h.fp.sector = c.fp.sector
         /\ h.fp.buffer = c.fp.buffer /\ h.fp.offset = c.fp.offset
         /\ h.fp.hiwater = Greatest(c.fp.hiwater, c.fp.offset)
         /\ h.data = c.data /\ h.sent = c.sent /\ h.left = c.left /\ h.ok = c.ok
<1>1. h = RaiseHiwater(Return(c))
  BY DEF WriteEnd
<1>2. PICK g : g = Return(c)
  OBVIOUS
<1>3. WriteCall(g)
  BY <1>2, WriteEnds
<1>4. /\ g.disk = c.disk /\ g.fp = c.fp /\ g.data = c.data /\ g.sent = c.sent
      /\ g.left = c.left /\ g.ok = c.ok
  BY <1>2 DEF Return, WriteCall
<1>5. /\ h.disk = g.disk /\ h.fp.flags = g.fp.flags /\ h.fp.sector = g.fp.sector
      /\ h.fp.buffer = g.fp.buffer /\ h.fp.offset = g.fp.offset
      /\ h.fp.hiwater = Greatest(g.fp.hiwater, g.fp.offset)
      /\ h.data = g.data /\ h.sent = g.sent /\ h.left = g.left /\ h.ok = g.ok
  BY <1>1, <1>2, <1>3 DEF RaiseHiwater, WriteCall, FCB
<1> QED
  BY <1>4, <1>5

LEMMA WrtBinOutcome ==
  ASSUME NEW data, Writes(data), NEW bad
  PROVE  /\ Outcome(WrtBin(data, bad), data, bad)
         /\ \A i : Orderly(data, i) => ByteResult(WrtBin(data, bad), data, i, bad)
<1>1. PICK a, b, d, e, h :
        /\ a = WriteLabel(BeginWrite(data), bad) /\ b = WriteHead(a, bad)
        /\ d = WriteDirect(b, bad) /\ e = WriteTail(d) /\ h = WriteEnd(e)
  OBVIOUS
<1>2. WrtBin(data, bad) = h
  BY <1>1 DEF WrtBin
<1>3. WriteCall(a) /\ WriteCall(b) /\ WriteCall(d) /\ WriteCall(e)
  <2>1. WriteCall(a)
    BY <1>1, WriteBegins, WriteLabelSound DEF Writes
  <2>2. WriteCall(b)
    BY <1>1, <2>1, WriteHeadSound
  <2>3. WriteCall(d)
    BY <1>1, <2>2, WriteDirectSound
  <2> QED
    BY <1>1, <2>1, <2>2, <2>3, WriteTailSound
<1>4. Labelled(a, data, bad) /\ Headed(b, data, bad) /\ Directed(d, data, bad)
      /\ Written(e, data, bad)
  <2>1. Labelled(a, data, bad)
    BY <1>1, WriteLabelGoes
  <2>2. Headed(b, data, bad)
    BY <1>1, <2>1, WriteHeadGoes
  <2>3. Directed(d, data, bad)
    BY <1>1, <1>3, <2>2, WriteDirectGoes
  <2> QED
    BY <1>1, <1>3, <2>1, <2>2, <2>3, WriteTailGoes
<1>5. WriteCall(h)
  BY <1>1, <1>3, WriteEnds DEF WriteEnd
<1>6. /\ e.fp.offset = fp.offset + e.sent /\ e.fp.hiwater = fp.hiwater /\ e.data = data
      /\ "ATEOF" \in e.fp.flags <=> "ATEOF" \in fp.flags
      /\ e.done <=> ~e.ok
      /\ e.sent \in Nat /\ e.left \in Nat /\ e.sent + e.left = Len(data)
  BY <1>3, <1>4, WriteFields DEF Written, Progress
<1>7. CASE e.done
  <2>1. h = e
    BY <1>1, <1>7 DEF WriteEnd
  <2>2. Outcome(h, data, bad)
    BY <1>4, <1>5, <1>6, <1>7, <2>1 DEF Outcome, Written
  <2>3. ASSUME NEW i, ByteOK(e, data, i, bad) PROVE ByteResult(h, data, i, bad)
    BY <1>6, <1>7, <2>1, <2>3 DEF ByteOK, ByteResult, Replaced, Delivered
  <2> QED
    BY <1>1, <1>2, <1>3, <1>4, <2>2, <2>3,
       WriteLabelBytes, WriteHeadBytes, WriteDirectBytes, WriteTailBytes
<1>8. CASE ~e.done
  <2>1. /\ h.disk = e.disk /\ h.fp.flags = e.fp.flags /\ h.fp.sector = e.fp.sector
        /\ h.fp.buffer = e.fp.buffer /\ h.fp.offset = e.fp.offset
        /\ h.fp.hiwater = Greatest(e.fp.hiwater, e.fp.offset)
        /\ h.data = e.data /\ h.sent = e.sent /\ h.left = e.left /\ h.ok = e.ok
    BY <1>1, <1>3, <1>8, WriteEndFields
  <2>2. e.left = 0 /\ (Filled(e) \/ Put(e) \/ (Passed(e) /\ e.sent >= SECSIZ))
    BY <1>4, <1>8 DEF Written
  <2>3. Filled(h) \/ Put(h) \/ (Passed(h) /\ h.sent >= SECSIZ)
    BY <2>1, <2>2 DEF Filled, Put, Passed, OldDirty
  <2>4. e.sent = Len(data) /\ e.ok
    BY <1>3, <1>6, <1>8, <2>2, WriteFields
  <2>5. Outcome(h, data, bad)
    BY <1>5, <1>6, <1>8, <2>1, <2>3, <2>4 DEF Outcome
  <2>6. ASSUME NEW i, ByteOK(e, data, i, bad) PROVE ByteResult(h, data, i, bad)
    <3>1. Here(h, i) = Here(e, i)
      BY <2>1, AlikeAt DEF Here, Alike
    <3> QED
      BY <1>8, <2>1, <2>6, <3>1 DEF ByteOK, ByteResult, Replaced, Delivered, Spared
  <2> QED
    BY <1>1, <1>2, <1>3, <1>4, <2>5, <2>6,
       WriteLabelBytes, WriteHeadBytes, WriteDirectBytes, WriteTailBytes
<1> QED
  BY <1>7, <1>8

-----------------------------------------------------------------------------
(* DirtyKept.  What makes it inductive is that the high water mark covers  *)
(* the dirty buffer: _wrtbin takes a sector above the mark for a new one.  *)

BytesInv == IInv /\ Covered(fp)

Labels == {i \in Offset : i \div SECSIZ = fp.sector}

BytesOK == /\ Covered(fp')
           /\ IsOpen /\ "DIRTY" \in fp.flags => Kept(Labels)

LEMMA OffsetNat == Offset \subseteq Nat
BY CcbAssumption DEF Offset

LEMMA BytesSame ==
  ASSUME Covered(fp'), \A i \in Nat : At(fp', disk', i) = Shown(i)
  PROVE  BytesOK
<1>1. ASSUME NEW i \in Labels PROVE (Shown(i))' = Shown(i)
  <2>1. At(fp', disk', i) = Shown(i)
    BY OffsetNat DEF Labels
  <2>2. (Shown(i))' = At(fp', disk', i)
    BY DEF Shown, At
  <2> QED
    BY <2>1, <2>2
<1>2. Kept(Labels)
  BY <1>1 DEF Kept
<1> QED
  BY <1>2 DEF BytesOK

(* A step of the CCB alone, which moves the mark of no dirty buffer. *)
LEMMA BytesMoved ==
  ASSUME BytesInv, fp' \in FCB, Alike(fp', fp), disk' = disk,
         "DIRTY" \in fp.flags => fp'.hiwater = fp.hiwater
  PROVE  BytesOK
<1>1. Covered(fp')
  BY DEF BytesInv, Covered, Alike
<1>2. \A i \in Nat : At(fp', disk', i) = Shown(i)
  BY AlikeAt, ShownAt
<1> QED
  BY <1>1, <1>2, BytesSame

LEMMA BytesStill ==
  ASSUME BytesInv, UNCHANGED <<fp, disk>>
  PROVE  BytesOK
BY BytesMoved DEF BytesInv, IInv, TypeOK, Alike

(* _filesz of a dirty buffer is the mark itself. *)
LEMMA FileszAlike ==
  ASSUME NEW f \in FCB, NEW d, DiskOK(d), Bounded(d)
  PROVE  /\ Filesz(f, d) \in FCB /\ Alike(Filesz(f, d), f)
         /\ "DIRTY" \in f.flags => Filesz(f, d).hiwater = f.hiwater
<1>1. Filesz(f, d) \in FCB
  BY FileszMoves DEF Moved
<1>2. PICK size : size = FileSize(f, d)
  OBVIOUS
<1>3. Filesz(f, d) = [f EXCEPT !.offset = size, !.hiwater = size, !.flags = @ \cup {"ATEOF"}]
  BY <1>2 DEF Filesz
<1>4. Alike(Filesz(f, d), f)
  BY <1>3 DEF FCB, Alike
<1>5. "DIRTY" \in f.flags => Filesz(f, d).hiwater = f.hiwater
  BY <1>2, <1>3 DEF FCB, FileSize
<1> QED
  BY <1>1, <1>4, <1>5

LEMMA SeekAlike ==
  ASSUME NEW f \in FCB, NEW d, DiskOK(d), Bounded(d), NEW offs \in Int, NEW sense \in Senses
  PROVE  /\ Seeked(f, d, offs, sense) \in FCB /\ Alike(Seeked(f, d, offs, sense), f)
         /\ "DIRTY" \in f.flags => Seeked(f, d, offs, sense).hiwater = f.hiwater
<1>1. PICK g : g = IF sense = 2 THEN Filesz(f, d) ELSE f
  OBVIOUS
<1>2. g \in FCB /\ Alike(g, f) /\ ("DIRTY" \in f.flags => g.hiwater = f.hiwater)
  BY <1>1, FileszAlike DEF Alike
<1>3. PICK to : to = Target(g, offs, sense)
  OBVIOUS
<1>4. PICK h : h = Seeked(f, d, offs, sense)
  OBVIOUS
<1>5. h = MovedTo(g, to)
  BY <1>1, <1>3, <1>4 DEF Seeked
<1>6. h.sector = g.sector /\ h.buffer = g.buffer /\ h.hiwater = g.hiwater
      /\ h.flags = g.flags \ {"ATEOF"}
  BY <1>2, <1>5 DEF MovedTo, FCB
<1>7. h \in FCB
  BY <1>4, SeekMoves DEF Moved
<1> QED
  BY <1>2, <1>4, <1>6, <1>7 DEF Alike

LEMMA BytesRead ==
  ASSUME BytesInv, NEW n \in ReadSizes, NEW bad, Read(n, bad)
  PROVE  BytesOK
<1>1. CASE "ATEOF" \in fp.flags
  BY <1>1, BytesStill DEF Read
<1>2. CASE "ATEOF" \notin fp.flags
  <2>1. fp' = RdBin(n, bad).fp /\ disk' = RdBin(n, bad).disk
    BY <1>2 DEF Read
  <2>2. Same(RdBin(n, bad))
    <3>1. n \in Nat
      BY CcbAssumption
    <3> QED
      BY <3>1, RdBinSame DEF BytesInv
  <2> QED
    BY <2>1, <2>2, BytesSame DEF Same
<1> QED
  BY <1>1, <1>2

LEMMA BytesLSeek ==
  ASSUME BytesInv, NEW seek \in Seeks, LSeek(seek[1], seek[2])
  PROVE  BytesOK
<1>1. seek[1] \in Int /\ fp \in FCB /\ DiskOK(disk) /\ Bounded(disk)
  BY CcbAssumption DEF BytesInv, IInv, TypeOK
<1>2. CASE seek[2] \in Senses
  <2>1. fp' = Seeked(fp, disk, seek[1], seek[2]) /\ disk' = disk
    BY <1>2 DEF LSeek
  <2> QED
    BY <1>1, <1>2, <2>1, SeekAlike, BytesMoved
<1>3. CASE seek[2] \notin Senses
  BY <1>3, BytesStill DEF LSeek
<1> QED
  BY <1>2, <1>3

LEMMA BytesFStat ==
  ASSUME BytesInv, FStat
  PROVE  BytesOK
<1>1. PICK g : g = Filesz(fp, disk)
  OBVIOUS
<1>2. g \in FCB /\ Alike(g, fp) /\ ("DIRTY" \in fp.flags => g.hiwater = fp.hiwater) /\ fp \in FCB
  BY <1>1, FileszAlike DEF BytesInv, IInv, TypeOK
<1>3. fp' = [g EXCEPT !.offset = fp.offset] /\ disk' = disk
  BY <1>1 DEF FStat
<1>4. fp' \in FCB /\ Alike(fp', fp) /\ fp'.hiwater = g.hiwater
  BY <1>2, <1>3 DEF FCB, Alike
<1> QED
  BY <1>2, <1>3, <1>4, BytesMoved

(* A channel that was not open has no dirty buffer before, nor after. *)
LEMMA BytesOpen ==
  ASSUME BytesInv, NEW mode, Open(mode) \/ Creat
  PROVE  BytesOK
<1>1. ~IsOpen /\ fp \in FCB /\ DiskOK(disk) /\ Bounded(disk)
  BY DEF BytesInv, IInv, TypeOK, Open, Creat
<1>2. "DIRTY" \notin fp'.flags
  <2>1. CASE Creat
    BY <1>1, <2>1 DEF Creat, Chinit, ModeFlags, FCB
  <2>2. CASE Open(mode)
    <3>1. PICK f : f = [Chinit(fp) EXCEPT !.flags = ModeFlags(mode)]
      OBVIOUS
    <3>2. f \in FCB /\ "DIRTY" \notin f.flags
      BY <1>1, <3>1 DEF Chinit, ModeFlags, FCB, Flag
    <3>3. PICK g : g = Seeked(f, disk, 0, 2)
      OBVIOUS
    <3>0. 0 \in Int /\ 0 \in Senses /\ 2 \in Senses
      BY DEF Senses
    <3>4. g \in FCB /\ "DIRTY" \notin g.flags
      BY <1>1, <3>0, <3>2, <3>3, SeekAlike DEF Alike
    <3>5. fp' = Seeked(g, disk, 0, 0)
      BY <2>2, <3>1, <3>3 DEF Open
    <3> QED
      BY <1>1, <3>0, <3>4, <3>5, SeekAlike DEF Alike
  <2> QED
    BY <2>1, <2>2
<1> QED
  BY <1>1, <1>2 DEF BytesOK, Covered

LEMMA BytesClose ==
  ASSUME BytesInv, NEW bad, Close(bad)
  PROVE  BytesOK
<1>1. PICK c : c = Begin(0)
  OBVIOUS
<1>2. c.fp = fp /\ c.disk = disk /\ fp \in FCB /\ Sound(c.fp, c.disk)
  BY <1>1, SoundStart DEF BytesInv, IInv, TypeOK, Begin
<1>3. "DIRTY" \notin fp'.flags /\ io'.op = "close"
  BY <1>2 DEF Close, Chinit, FCB, Answer
<1>4. CASE CanFlush(c, bad)
  <2>1. disk' = FlushedDisk(c)
    BY <1>1, <1>4 DEF Close
  <2>2. \A i \in Nat : At(fp', disk', i) = Shown(i)
    BY <1>2, <1>3, <2>1, FlushedAt, ShownAt
  <2> QED
    BY <1>3, <2>2, BytesSame DEF Covered
<1>5. CASE ~CanFlush(c, bad)
  <2>1. io'.ret = Failure
    BY <1>1, <1>5 DEF Close, Answer
  <2>2. Touched = Labels
    BY <1>3, <2>1 DEF Touched, Labels
  <2> QED
    BY <1>3, <2>2 DEF BytesOK, Covered, Kept
<1> QED
  BY <1>4, <1>5

LEMMA CoveredOutcome ==
  ASSUME NEW data, Writes(data), Covered(fp), NEW bad, NEW c, Outcome(c, data, bad)
  PROVE  Covered(c.fp)
<1>1. fp \in FCB /\ c.fp \in FCB
  BY DEF Outcome, WriteCall, Writes, IInv, TypeOK
<1>2. CASE OldDirty(c) /\ c.fp.hiwater >= fp.hiwater
  <2>1. PICK a \in Nat, b \in Nat : a = fp.hiwater /\ b = c.fp.hiwater
    BY <1>1 DEF FCB
  <2>2. /\ (a - 1) \div SECSIZ \in Int /\ (b - 1) \div SECSIZ \in Int
        /\ (a - 1) \div SECSIZ <= (b - 1) \div SECSIZ
    <3>1. a - 1 \in Int /\ b - 1 \in Int /\ a - 1 <= b - 1
      BY <1>2, <2>1
    <3> QED
      BY <3>1, Order, SectorArithmetic
  <2>3. fp.sector \in Int
    BY <1>1 DEF FCB
  <2> QED
    BY <1>2, <2>1, <2>2, <2>3 DEF Covered, OldDirty
<1>3. CASE c.ok /\ Filled(c)
  <2>0. fp.offset \in Int /\ c.fp.offset \in Int /\ c.fp.hiwater \in Nat
    BY <1>1 DEF FCB
  <2>1. PICK a \in Int, x \in Int, b \in Nat : a = fp.offset /\ b = c.fp.hiwater /\ x = c.fp.offset - 1
    BY <2>0
  <2>2. x \in Nat \cup {-1} /\ x <= SECSIZ * MaxSector /\ x <= b - 1
    <3>1. PICK o \in Int, n \in Nat : o = c.fp.offset /\ n = Len(data)
      BY <2>0, WritesFit
    <3>2. n > 0 /\ a \in Nat \cup {-1} /\ a + n <= SECSIZ * MaxSector /\ SECSIZ * MaxSector \in Nat
      BY <2>1, <3>1, WritesFit
    <3>3. o = a + n
      BY <1>3, <2>1, <3>1 DEF Outcome
    <3>4. b >= o
      BY <1>1, <1>3, <2>1, <3>1 DEF Outcome, FCB, Greatest
    <3>5. x = o - 1
      BY <2>1, <3>1
    <3>6. PICK m \in Nat : m = SECSIZ * MaxSector
      BY <3>2
    <3> QED
      BY <3>2, <3>3, <3>4, <3>5, <3>6
  <2>3. c.fp.sector = U(x \div SECSIZ)
    BY <1>3, <2>1 DEF Filled
  <2>4. CASE x = -1
    <3>1. MaxSector \in Nat /\ UWord \in Nat /\ MaxSector < UWord
      BY CcbAssumption, BinFileAssumption, WritesFit
    <3>2. c.fp.sector = UWord - 1
      BY <2>3, <2>4, BeforeFirst, UMinusOne
    <3> QED
      BY <3>1, <3>2 DEF Covered
  <2>5. CASE x # -1
    <3>1. c.fp.sector = x \div SECSIZ
      BY <2>2, <2>3, <2>5, SectorsFit, WritesFit
    <3>2. x \div SECSIZ <= (b - 1) \div SECSIZ
      BY <2>2, Order
    <3> QED
      BY <2>1, <3>1, <3>2 DEF Covered
  <2> QED
    BY <2>4, <2>5
<1>4. CASE c.ok /\ Put(c)
  BY <1>4 DEF Put, Covered
<1>5. c.fp.hiwater >= fp.hiwater
  BY <1>1 DEF Outcome, FCB, Greatest
<1>6. CASE c.ok /\ Passed(c)
  BY <1>2, <1>5, <1>6 DEF Passed
<1>7. CASE ~c.ok
  BY <1>2, <1>5, <1>7 DEF Outcome, Broken
<1> QED
  BY <1>3, <1>4, <1>6, <1>7 DEF Outcome

(* The bytes of a dirty buffer are there, and known to be. *)
LEMMA DirtyOrderly ==
  ASSUME BytesInv, "DIRTY" \in fp.flags, NEW data, Writes(data), NEW i \in Labels
  PROVE  Orderly(data, i) /\ Shown(i) # None
<1>1. i \in Offset /\ i \div SECSIZ = fp.sector
  BY DEF Labels
<1>2. Shown(i) = fp.buffer[i % SECSIZ]
  BY <1>1 DEF Shown
<1>3. i % SECSIZ \in 0 .. SECSIZ - 1 /\ i \div SECSIZ \in 0 .. MaxSector - 1
  BY <1>1, OffsetPlace
<1>4. Shown(i) \in Byte
  BY <1>2, <1>3 DEF BytesInv, IInv, TypeOK, FCB, Sector
<1>5. fp.sector < MaxSector
  BY <1>1, <1>3, CcbAssumption
<1>6. i \div SECSIZ <= (fp.hiwater - 1) \div SECSIZ
  BY <1>1, <1>5 DEF BytesInv, Covered
<1> QED
  BY <1>1, <1>2, <1>4, <1>6, CcbAssumption DEF Orderly

LEMMA BytesWrite ==
  ASSUME FitsUWord, BytesInv, NEW data \in Data, NEW bad, Write(data, bad)
  PROVE  BytesOK
<1>1. CASE data = <<>> \/ Refused
  BY <1>1, BytesStill DEF Write
<1>2. CASE data # <<>> /\ ~Refused
  <2>1. PICK c : c = WrtBin(data, bad)
    OBVIOUS
  <2>2. fp' = c.fp /\ disk' = c.disk /\ io'.op = "write" /\ io'.n = Len(data)
    BY <1>2, <2>1 DEF Write, Answer
  <2>3. Writes(data)
    BY <1>2, CcbAssumption DEF Writes, Write, FitsUWord, BytesInv
  <2>4. Outcome(c, data, bad) /\ \A i : Orderly(data, i) => ByteResult(c, data, i, bad)
    BY <2>1, <2>3, WrtBinOutcome
  <2>5. Covered(fp')
    BY <2>2, <2>3, <2>4, CoveredOutcome DEF BytesInv
  <2>6. ASSUME "DIRTY" \in fp.flags, NEW i \in Labels \ Touched
        PROVE  (Shown(i))' = Shown(i)
    <3>1. ByteResult(c, data, i, bad) /\ Shown(i) # None
      BY <2>3, <2>4, <2>6, DirtyOrderly
    <3>2. ~InRange(data, i)
      BY <2>2, <2>6 DEF Touched, InRange
    <3>3. Here(c, i) = Shown(i)
      BY <3>1, <3>2 DEF ByteResult, Spared
    <3>4. (Shown(i))' = At(fp', disk', i)
      BY DEF Shown, At
    <3> QED
      BY <2>2, <3>3, <3>4 DEF Here
  <2> QED
    BY <2>5, <2>6 DEF BytesOK, Kept
<1> QED
  BY <1>1, <1>2

LEMMA BytesNext == FitsUWord /\ BytesInv /\ [Next]_vars => BytesOK
<1> SUFFICES ASSUME FitsUWord, BytesInv, [Next]_vars PROVE BytesOK
  OBVIOUS
<1>1. CASE Next
  BY <1>1, BytesRead, BytesWrite, BytesClose, BytesLSeek, BytesFStat, BytesOpen DEF Next
<1>2. CASE UNCHANGED vars
  BY <1>2, BytesStill DEF vars
<1> QED
  BY <1>1, <1>2

(* What a dirty buffer holds is never dropped, by any call, whichever      *)
(* sectors BDOS refuses during it: every byte of it that the call was not  *)
(* asked to replace shows afterwards as before.  Of the writers this is so *)
(* as long as their UWORDs do not wrap.                                    *)
THEOREM DirtyKeptThm == FitsUWord => (Spec => DirtyKept)
<1> SUFFICES ASSUME FitsUWord PROVE Spec => DirtyKept
  OBVIOUS
<1>1. Init => BytesInv
  BY InvInit DEF BytesInv, Init, Covered
<1>2. BytesInv /\ [Next]_vars => BytesInv'
  BY NextStep, BytesNext DEF BytesInv, StepOK, BytesOK, Covered
<1>3. BytesInv /\ [Next]_vars
      => [IsOpen /\ "DIRTY" \in fp.flags => Kept({i \in Offset : i \div SECSIZ = fp.sector})]_vars
  BY BytesNext DEF BytesOK, Labels
<1> QED
  BY <1>1, <1>2, <1>3, PTL DEF Spec, DirtyKept

-----------------------------------------------------------------------------
(* The sectors of the file. *)

Sectors == 0 .. MaxSector - 1

LEMMA InOffset ==
  ASSUME NEW x \in Nat
  PROVE  /\ x < SECSIZ * MaxSector => x \in Offset /\ x \div SECSIZ \in Sectors
         /\ x \div SECSIZ \in Sectors => x \in Offset
<1>1. SECSIZ \in Nat \ {0} /\ MaxSector \in Nat /\ SECSIZ * MaxSector \in Nat
  BY CcbAssumption
<1>2. x < SECSIZ * MaxSector => x \in Offset
  BY <1>1 DEF Offset
<1>3. x \in Offset => x \div SECSIZ \in Sectors
  BY OffsetPlace DEF Sectors
<1>4. ASSUME x \div SECSIZ \in Sectors PROVE x \in Offset
  <2>1. PICK e \in Int : e = (SECSIZ * MaxSector) + 0
    BY <1>1
  <2>2. e \div SECSIZ = MaxSector
    BY <1>1, <2>1, PlaceOf
  <2>3. x \div SECSIZ < e \div SECSIZ
    BY <1>1, <1>4, <2>2 DEF Sectors
  <2>4. x < e
    BY <2>1, <2>3, Order
  <2> QED
    BY <1>1, <1>2, <2>1, <2>4
<1> QED
  BY <1>2, <1>3, <1>4

(* An offset lies before a boundary when its sector does. *)
LEMMA BeforeBoundary ==
  ASSUME NEW x \in Int, NEW e \in Int, e % SECSIZ = 0
  PROVE  x < e <=> x \div SECSIZ < e \div SECSIZ
<1>1. PICK q \in Int, r \in 0 .. SECSIZ - 1 : q = x \div SECSIZ /\ r = x % SECSIZ
  BY SectorArithmetic
<1>2. PICK n \in Int : n = e \div SECSIZ
  BY SectorArithmetic
<1>3. q < n => x < e
  BY <1>1, <1>2, Order
<1>4. n < q => e < x
  BY <1>1, <1>2, Order
<1>5. q = n => x >= e
  <2> SUFFICES ASSUME q = n PROVE x >= e
    OBVIOUS
  <2>1. x - e = r - 0
    BY <1>1, <1>2, SameSector
  <2> QED
    BY <1>1, <2>1
<1> QED
  BY <1>1, <1>2, <1>3, <1>4, <1>5

(* An offset is in the first n sectors when its sector is. *)
LEMMA InSectors ==
  ASSUME NEW n \in Nat, NEW x \in Int
  PROVE  /\ SECSIZ * n \in Nat
         /\ x < SECSIZ * n <=> x \div SECSIZ < n
         /\ x >= 0 <=> x \div SECSIZ >= 0
         /\ (SECSIZ * n) \div SECSIZ = n /\ (SECSIZ * n) % SECSIZ = 0
<1>1. SECSIZ \in Nat \ {0} /\ SECSIZ * n \in Nat
  BY CcbAssumption
<1>2. PICK e \in Int : e = (SECSIZ * n) + 0
  BY <1>1
<1>3. e \div SECSIZ = n /\ e % SECSIZ = 0 /\ e = SECSIZ * n
  <2>1. n \in Int /\ 0 \in 0 .. SECSIZ - 1
    BY <1>1
  <2>2. e \div SECSIZ = n /\ e % SECSIZ = 0
    BY <1>2, <2>1, PlaceOf
  <2> QED
    BY <1>1, <1>2, <2>2
<1>4. PICK q \in Int, r \in 0 .. SECSIZ - 1 : q = x \div SECSIZ /\ r = x % SECSIZ
  BY SectorArithmetic
<1>5. x < e <=> q < n
  BY <1>2, <1>3, <1>4, BeforeBoundary
<1>6. x >= 0 <=> q >= 0
  <2>1. PICK z \in Int : z = 0
    OBVIOUS
  <2>2. z \div SECSIZ = 0 /\ z % SECSIZ = 0
    <3>1. z = (SECSIZ * 0) + 0 /\ 0 \in 0 .. SECSIZ - 1
      BY <1>1, <2>1
    <3> QED
      BY <3>1, PlaceOf
  <2>3. x < z <=> q < 0
    BY <1>4, <2>1, <2>2, BeforeBoundary
  <2> QED
    BY <1>4, <2>1, <2>3
<1> QED
  BY <1>1, <1>3, <1>4, <1>5, <1>6

(* k whole sectors that end within the file. *)
LEMMA RunInFile ==
  ASSUME NEW x \in Nat, NEW k \in Nat, x + k * SECSIZ <= SECSIZ * MaxSector
  PROVE  (x \div SECSIZ) .. (x \div SECSIZ) + k - 1 \subseteq Sectors
<1>1. SECSIZ \in Nat \ {0} /\ MaxSector \in Nat /\ SECSIZ * MaxSector \in Nat
  BY CcbAssumption
<1>2. PICK e \in Int : e = (SECSIZ * MaxSector) + 0
  BY <1>1
<1>3. e \div SECSIZ = MaxSector
  BY <1>1, <1>2, PlaceOf
<1>4. PICK y \in Int : y = x + k * SECSIZ
  BY <1>1
<1>5. y \div SECSIZ = (x \div SECSIZ) + k
  BY <1>4, SectorsOn
<1>6. y \div SECSIZ <= e \div SECSIZ
  BY <1>1, <1>2, <1>4, Order
<1>7. x \div SECSIZ \in Nat
  BY SectorArithmetic
<1> QED
  BY <1>1, <1>3, <1>5, <1>6, <1>7 DEF Sectors

(* What a write has done to the disk reaches no further than the file. *)
WriteLands(data, c) == /\ Writes(data) /\ fp.offset >= 0 /\ fp.sector < MaxSector
                       /\ DOMAIN disk \subseteq Sectors
                       /\ DOMAIN c.disk \subseteq Sectors

LEMMA LabelLands ==
  ASSUME NEW data, WriteLands(data, BeginWrite(data)), NEW bad
  PROVE  WriteLands(data, WriteLabel(BeginWrite(data), bad))
<1> DEFINE c == BeginWrite(data)
           f == [c EXCEPT !.disk = FlushedDisk(c)]
           l == WriteLabel(c, bad)
<1>1. c.fp = fp /\ c.disk = disk /\ WriteCall(c)
  BY WriteBegins DEF BeginWrite, WriteLands, Writes
<1>2. f.disk = FlushedDisk(c) /\ f.fp = c.fp
  BY <1>1 DEF WriteCall
<1>3. l = IF c.fp.sector = c.xsector  THEN c
          ELSE IF ~CanFlush(c, bad)   THEN Fail(c)
          ELSE IF AboveHiwater(c)     THEN Label(Zeroed(f))
          ELSE IF c.xsector \notin DOMAIN f.disk THEN Fail(f)
          ELSE Label(Preread(f))
  BY DEF WriteLabel
<1>4. /\ Fail(c).disk = c.disk /\ Fail(f).disk = f.disk
      /\ Label(Zeroed(f)).disk = f.disk /\ Label(Preread(f)).disk = f.disk
  BY <1>1 DEF WriteCall, Fail, Label, Zeroed, Preread
<1>5. DOMAIN FlushedDisk(c) \subseteq Sectors
  <2>1. Dirty(c) => fp.sector \in Nat
    BY <1>1 DEF WriteLands, Writes, IInv, DirtyOwned, Dirty
  <2>2. Dirty(c) => fp.sector \in Sectors
    BY <2>1, CcbAssumption DEF WriteLands, Sectors
  <2> QED
    BY <1>1, <2>2 DEF FlushedDisk, PutSector, WriteLands
<1> HIDE DEF l, f
<1>6. l.disk \in {c.disk, FlushedDisk(c)}
  BY <1>2, <1>3, <1>4
<1>7. DOMAIN l.disk \subseteq Sectors
  BY <1>1, <1>5, <1>6 DEF WriteLands
<1>8. WriteLands(data, l)
  BY <1>7 DEF WriteLands
<1> QED
  BY <1>8 DEF l

LEMMA HeadLands ==
  ASSUME NEW data, NEW c, WriteLands(data, c), NEW bad, Labelled(c, data, bad)
  PROVE  WriteLands(data, WriteHead(c, bad))
<1>1. PICK h : h = WriteHead(c, bad)
  OBVIOUS
<1>2. Writes(data) /\ Progress(c, data) /\ WriteCall(c) /\ c.sent = 0
  BY DEF WriteLands, Labelled, Progress
<1>3. CASE c.done
  BY <1>1, <1>3 DEF WriteHead
<1>4. CASE ~c.done
  <2>1. /\ c.left = Len(data) /\ c.left > 0 /\ c.fp.offset = fp.offset /\ fp.offset \in Nat
        /\ fp.offset < SECSIZ * MaxSector
    <3>1. PICK o \in Nat, n \in Nat : o = fp.offset /\ n = Len(data) /\ n > 0
                                      /\ o + n <= SECSIZ * MaxSector
      BY <1>2, WritesFit DEF WriteLands
    <3>2. SECSIZ * MaxSector \in Nat
      BY CcbAssumption
    <3>3. o < SECSIZ * MaxSector
      BY <3>1, <3>2
    <3>4. c.left = n /\ c.fp.offset = o
      <4>1. c.sent + c.left = n /\ c.left \in Nat /\ c.fp.offset = o + c.sent
        BY <1>2, <3>1, WriteFields DEF Progress
      <4> QED
        BY <1>2, <3>1, <4>1
    <3> QED
      BY <3>1, <3>3, <3>4
  <2>2. c.xsector = U(fp.offset \div SECSIZ)
    BY <1>4, <2>1 DEF Labelled, AtSector
  <2>3. c.xsector \in Sectors
    <3>1. U(fp.offset \div SECSIZ) = fp.offset \div SECSIZ
      BY <1>2, <2>1, SectorsFit, WritesFit, CcbAssumption
    <3> QED
      BY <2>1, <2>2, <3>1, InOffset
  <2>4. h = c \/ \E n \in Nat : HeadStep(c, h, n, bad)
    BY <1>1, <1>2, <1>4, <2>1, HeadSteps
  <2>5. h.disk = c.disk \/ \E sec : h.disk = PutSector(c.disk, c.xsector, sec)
    BY <2>4 DEF HeadStep
  <2>6. DOMAIN h.disk \subseteq Sectors
    BY <2>3, <2>5 DEF WriteLands, PutSector
  <2> QED
    BY <1>1, <2>6 DEF WriteLands
<1> QED
  BY <1>3, <1>4

LEMMA DirectLands ==
  ASSUME NEW data, NEW c, WriteLands(data, c), NEW bad, WriteCall(c), Headed(c, data, bad)
  PROVE  WriteLands(data, WriteDirect(c, bad))
<1>1. PICK h : h = WriteDirect(c, bad)
  OBVIOUS
<1>2. Writes(data) /\ Progress(c, data)
  BY DEF WriteLands, Headed
<1>3. CASE c.done \/ c.left < SECSIZ
  BY <1>1, <1>3 DEF WriteDirect
<1>4. CASE ~c.done /\ ~(c.left < SECSIZ)
  <2>0. c.left \in Nat /\ SECSIZ \in Nat \ {0} /\ c.left >= SECSIZ /\ Len(c.data) < UWord
    BY <1>2, <1>4, WriteFields, CcbAssumption DEF Progress, Writes
  <2>1. PICK n \in Nat : \E k \in 0 .. n : DirectStep(c, h, n, k, bad)
    BY <1>1, <1>4, <2>0, DirectSteps
  <2>2. PICK k \in 0 .. n : DirectStep(c, h, n, k, bad)
    BY <2>1
  <2>3. AtStart(c)
    BY <1>4, <2>0 DEF Headed, Filled
  <2>4. PICK x \in Nat : x = c.fp.offset /\ x + c.left <= SECSIZ * MaxSector
    <3>1. PICK o \in Nat, s \in Nat, m \in Nat :
            /\ o = fp.offset /\ s = c.sent /\ m = c.left /\ s + m = Len(data)
            /\ c.fp.offset = o + s /\ o + Len(data) <= SECSIZ * MaxSector
      BY <1>2, WriteFields, WritesFit DEF Progress, WriteLands
    <3>2. (o + s) + m = o + (s + m) /\ o + s \in Nat
      OBVIOUS
    <3> QED
      BY <3>1, <3>2
  <2>5. x + k * SECSIZ <= SECSIZ * MaxSector /\ k \in Nat /\ x <= SECSIZ * MaxSector
    <3>1. k * SECSIZ \in Nat /\ k * SECSIZ <= n * SECSIZ /\ n * SECSIZ \in Nat
      BY <2>0, Multiples
    <3>2. n * SECSIZ <= c.left
      BY <2>2 DEF DirectStep
    <3>3. SECSIZ * MaxSector \in Nat
      BY CcbAssumption
    <3>4. PICK a \in Nat, b \in Nat, m \in Nat, e \in Nat :
            a = k * SECSIZ /\ b = n * SECSIZ /\ m = c.left /\ e = SECSIZ * MaxSector
      BY <2>0, <3>1, <3>3
    <3>5. x + a <= e /\ x <= e
      BY <2>4, <3>1, <3>2, <3>4
    <3> QED
      BY <3>4, <3>5
  <2>6. c.xsector = x \div SECSIZ
    BY <1>2, <2>3, <2>4, <2>5, SectorsFit, WritesFit DEF AtStart, AtSector
  <2>7. c.xsector .. c.xsector + k - 1 \subseteq Sectors
    BY <2>5, <2>6, RunInFile
  <2>8. DOMAIN h.disk = DOMAIN c.disk \cup (c.xsector .. c.xsector + k - 1)
    BY <2>2 DEF DirectStep, PutSectors
  <2> QED
    BY <1>1, <2>7, <2>8 DEF WriteLands
<1> QED
  BY <1>3, <1>4

(* The sectors of a write are sectors of the file. *)
LEMMA WrtBinLands ==
  ASSUME NEW data, Writes(data), fp.offset >= 0, fp.sector < MaxSector,
         DOMAIN disk \subseteq Sectors, NEW bad
  PROVE  DOMAIN WrtBin(data, bad).disk \subseteq Sectors
<1>1. PICK a, b, d, e, h :
        /\ a = WriteLabel(BeginWrite(data), bad) /\ b = WriteHead(a, bad)
        /\ d = WriteDirect(b, bad) /\ e = WriteTail(d) /\ h = WriteEnd(e)
  OBVIOUS
<1>2. WrtBin(data, bad) = h
  BY <1>1 DEF WrtBin
<1>3. WriteLands(data, BeginWrite(data))
  BY DEF WriteLands, BeginWrite
<1>4. WriteLands(data, a) /\ Labelled(a, data, bad)
  BY <1>1, <1>3, LabelLands, WriteLabelGoes
<1>5. WriteLands(data, b) /\ Headed(b, data, bad) /\ WriteCall(b)
  BY <1>1, <1>4, HeadLands, WriteHeadGoes DEF Headed, Progress
<1>6. WriteLands(data, d) /\ WriteCall(d)
  BY <1>1, <1>5, DirectLands, WriteDirectSound
<1>7. e.disk = d.disk
  <2>1. e = IF d.done \/ d.left = 0  THEN d
            ELSE IF AboveHiwater(d)  THEN Rest(d, Zeroed(d))
            ELSE IF d.xsector \notin DOMAIN d.disk THEN Fail(d)
            ELSE Rest(d, Preread(d))
    BY <1>1 DEF WriteTail, Rest
  <2>2. Filling(d, Zeroed(d), Zeros)
        /\ (d.xsector \in DOMAIN d.disk => Filling(d, Preread(d), d.disk[d.xsector]))
    BY <1>6, FillingFields
  <2>3. \A g, sec : Filling(d, g, sec) => Rest(d, g).disk = d.disk
    BY RestFields
  <2>4. Fail(d).disk = d.disk
    BY <1>6, FailFields
  <2> QED
    BY <2>1, <2>2, <2>3, <2>4
<1>8. h.disk = e.disk
  <2>1. WriteCall(e)
    BY <1>1, <1>6, WriteTailSound
  <2> QED
    BY <1>1, <2>1, WriteEndFields DEF WriteEnd
<1> QED
  BY <1>2, <1>6, <1>7, <1>8 DEF WriteLands

-----------------------------------------------------------------------------
(* What holds of the CCB and the disk between two parts of a read, and     *)
(* between two calls.                                                      *)

InFile(f, d) == /\ f.offset \in 0 .. SECSIZ * MaxSector
                /\ f.sector < MaxSector
                /\ DOMAIN d \subseteq Sectors

(* The buffer shows the sector it is labelled with, or the program has     *)
(* passed that sector for good.                                            *)
Holds(f, d) == \A i \in Offset : i \div SECSIZ = f.sector => f.buffer[i % SECSIZ] = At(f, d, i)
Behind(f) == ~seeks /\ f.offset >= SECSIZ * (f.sector + 1)
Fresh(f, d) == f.sector >= 0 => Holds(f, d) \/ Behind(f)

(* Without a seek what is dirty lies before the offset. *)
Trails(f) == ~seeks /\ "DIRTY" \in f.flags => SECSIZ * f.sector < f.offset

Calm(f, d) == InFile(f, d) /\ Fresh(f, d) /\ Trails(f)

LEMMA CalmOn ==
  ASSUME NEW f \in FCB, NEW d, Calm(f, d), NEW g \in FCB, Alike(g, f),
         g.offset >= f.offset, g.offset <= SECSIZ * MaxSector
  PROVE  Calm(g, d)
<1>1. SECSIZ * MaxSector \in Nat /\ SECSIZ \in Nat
  BY CcbAssumption
<1>2. f.sector \in Int /\ f.offset \in Int /\ g.offset \in Int
  BY DEF FCB
<1>3. PICK s \in Int, x \in Int, y \in Int, e \in Nat :
        s = f.sector /\ x = f.offset /\ y = g.offset /\ e = SECSIZ * MaxSector
  BY <1>1, <1>2
<1>4. SECSIZ * s \in Int /\ SECSIZ * (s + 1) \in Int
  BY <1>1
<1>5. PICK a \in Int, b \in Int : a = SECSIZ * s /\ b = SECSIZ * (s + 1)
  BY <1>4
<1>6. x \in 0 .. e /\ x <= y /\ y <= e
  BY <1>3 DEF Calm, InFile
<1>7. y \in 0 .. e /\ (x >= b => y >= b) /\ (a < x => a < y)
  BY <1>6
<1>8. InFile(g, d)
  BY <1>3, <1>7 DEF Calm, InFile, Alike
<1>9. Holds(f, d) => Holds(g, d)
  BY AlikeAt DEF Holds, Alike
<1>10. Behind(f) => Behind(g)
  BY <1>3, <1>5, <1>7 DEF Behind, Alike
<1>11. Trails(g)
  BY <1>3, <1>5, <1>7 DEF Calm, Trails, Alike
<1> QED
  BY <1>8, <1>9, <1>10, <1>11 DEF Calm, Fresh, Alike

(* A dirty buffer shows its sector. *)
LEMMA DirtyHolds ==
  ASSUME NEW f, NEW d, "DIRTY" \in f.flags
  PROVE  Holds(f, d)
BY DEF Holds, At

LEMMA CalmFlushed ==
  ASSUME NEW c, ReadCall(c), Calm(c.fp, c.disk)
  PROVE  Calm(Flush(c).fp, Flush(c).disk)
<1>1. PICK g, d : g = Flush(c).fp /\ d = FlushedDisk(c)
  OBVIOUS
<1>2. /\ g.offset = c.fp.offset /\ g.sector = c.fp.sector /\ g.buffer = c.fp.buffer
      /\ "DIRTY" \notin g.flags /\ Flush(c).disk = d
  BY <1>1 DEF Flush, ReadCall, FCB
<1>3. c.fp.sector \in Nat \cup {-1} /\ Sound(c.fp, c.disk) /\ (Dirty(c) => c.fp.sector \in Nat)
  BY DEF ReadCall, FCB, Sound, Owned, Dirty
<1>4. InFile(g, d)
  <2>1. Dirty(c) => c.fp.sector \in Sectors
    BY <1>3, CcbAssumption DEF Calm, InFile, Sectors
  <2> QED
    BY <1>1, <1>2, <2>1 DEF Calm, InFile, FlushedDisk, PutSector
<1>5. Holds(c.fp, c.disk) => Holds(g, d)
  <2>1. \A i \in Offset : At(g, d, i) = At(c.fp, c.disk, i)
    BY <1>1, <1>2, <1>3, FlushedAt, OffsetNat
  <2> QED
    BY <1>2, <2>1 DEF Holds
<1>6. Behind(c.fp) => Behind(g)
  BY <1>2 DEF Behind
<1> QED
  BY <1>1, <1>2, <1>4, <1>5, <1>6 DEF Calm, Fresh, Trails

LEMMA CalmLoaded ==
  ASSUME NEW c, ReadCall(c), Calm(c.fp, c.disk), "DIRTY" \notin c.fp.flags,
         NEW s \in DOMAIN c.disk
  PROVE  Calm(Load(c, s).fp, Load(c, s).disk) /\ Holds(Load(c, s).fp, Load(c, s).disk)
<1>1. PICK g : g = Load(c, s).fp
  OBVIOUS
<1>2. /\ g.offset = c.fp.offset /\ g.sector = s /\ g.buffer = c.disk[s]
      /\ "DIRTY" \notin g.flags /\ Load(c, s).disk = c.disk
  BY <1>1 DEF Load, ReadCall, FCB
<1>3. s \in Nat /\ s < MaxSector
  BY CcbAssumption DEF Calm, InFile, Sectors
<1>4. InFile(g, c.disk)
  BY <1>2, <1>3 DEF Calm, InFile
<1>5. Holds(g, c.disk)
  BY <1>2 DEF Holds, At
<1> QED
  BY <1>1, <1>2, <1>4, <1>5 DEF Calm, Fresh, Trails

-----------------------------------------------------------------------------
(* A read of n bytes, while BDOS refuses nothing. *)

Missing(x) == x \notin Offset \/ Shown(x) = None

(* The bytes from the old offset on, as they show. *)
Delivers(m) ==
  /\ m \in Seq(Byte)
  /\ \A j \in 1 .. Len(m) : LET i == (fp.offset + j) - 1
                            IN  i \in Offset /\ m[j] = Shown(i)

Reads(n) == /\ IInv /\ Covered(fp) /\ Calm(fp, disk)
            /\ n \in Nat /\ "ATEOF" \notin fp.flags

(* How far it is: the bytes delivered and those still to deliver.          *)
Count(c, n) ==
  /\ Delivers(c.moved)
  /\ c.fp.offset = fp.offset + Len(c.moved) /\ Len(c.moved) + c.left = n
  /\ c.fp.hiwater >= fp.hiwater

(* It ends when all are delivered, or at a byte that is not there; and it  *)
(* fails only before it has delivered any.                                 *)
Ending(c) ==
  /\ c.ok => c.left = 0 \/ Missing(c.fp.offset)
  /\ ~c.ok => c.moved = <<>> /\ Missing(fp.offset)
  /\ "ATEOF" \in c.fp.flags => c.ok /\ c.left > 0

Reading(c, n) ==
  /\ ReadCall(c) /\ Same(c) /\ Calm(c.fp, c.disk) /\ Count(c, n)
  /\ IF c.done THEN Ending(c) ELSE c.ok /\ "ATEOF" \notin c.fp.flags

LEMMA ReadingBegins ==
  ASSUME NEW n, Reads(n)
  PROVE  Reading(Begin(n), n)
<1>1. PICK c : c = Begin(n)
  OBVIOUS
<1>2. /\ c.fp = fp /\ c.disk = disk /\ c.moved = <<>> /\ c.left = n
      /\ c.done = FALSE /\ c.ok = TRUE
  BY <1>1 DEF Begin
<1>3. ReadCall(c)
  BY <1>1, ReadBegins DEF Reads
<1>4. Same(c)
  BY <1>2, ShownAt DEF Same, Reads
<1>5. Count(c, n)
  <2>1. fp.offset \in Int /\ fp.hiwater \in Nat
    BY DEF Reads, IInv, TypeOK, FCB
  <2>2. Delivers(c.moved) /\ Len(c.moved) = 0
    BY <1>2 DEF Delivers
  <2> QED
    BY <1>2, <2>1, <2>2 DEF Count, Reads
<1> QED
  BY <1>1, <1>2, <1>3, <1>4, <1>5 DEF Reading, Reads

LEMMA SeqOf ==
  ASSUME NEW S, NEW k \in Nat, NEW b \in [1 .. k -> S]
  PROVE  b \in Seq(S) /\ Len(b) = k
OBVIOUS

(* k more bytes. *)
Continues(c, b, k) ==
  /\ b \in Seq(Byte) /\ k \in Nat /\ Len(b) = k /\ k <= c.left
  /\ \A j \in 1 .. k : LET i == (c.fp.offset + j) - 1
                       IN  i \in Offset /\ b[j] = Shown(i)
  /\ c.fp.offset + k <= SECSIZ * MaxSector

Carried(c, b, k) == [c EXCEPT !.moved = @ \o b, !.fp.offset = @ + k, !.left = @ - k]

LEMMA CarriedFields ==
  ASSUME NEW c, ReadCall(c), NEW b, NEW k, NEW t, t = Carried(c, b, k)
  PROVE  /\ Alike(t.fp, c.fp) /\ t.fp.flags = c.fp.flags /\ t.fp.hiwater = c.fp.hiwater
         /\ t.fp.offset = c.fp.offset + k /\ t.disk = c.disk
         /\ t.moved = c.moved \o b /\ t.left = c.left - k /\ t.done = c.done /\ t.ok = c.ok
BY DEF ReadCall, FCB, Carried, Alike

LEMMA DeliversMore ==
  ASSUME NEW c, NEW n, ReadCall(c), Count(c, n), fp.offset \in Int, NEW b, NEW k, Continues(c, b, k)
  PROVE  Delivers(c.moved \o b) /\ Len(c.moved \o b) = Len(c.moved) + k
<1>1. PICK m : m = c.moved
  OBVIOUS
<1>2. PICK x \in Int : x = fp.offset
  OBVIOUS
<1>3. m \in Seq(Byte) /\ Len(m) \in Nat /\ b \in Seq(Byte) /\ k \in Nat /\ Len(b) = k
  BY <1>1 DEF Count, Delivers, Continues
<1>4. /\ m \o b \in Seq(Byte) /\ Len(m \o b) = Len(m) + k
      /\ \A j \in 1 .. Len(m) : (m \o b)[j] = m[j]
      /\ \A j \in 1 .. k : (m \o b)[Len(m) + j] = b[j]
  BY <1>3
<1>5. c.fp.offset = x + Len(m)
  BY <1>1, <1>2 DEF Count
<1>6. ASSUME NEW j \in 1 .. Len(m) + k
      PROVE  (x + j) - 1 \in Offset /\ (m \o b)[j] = Shown((x + j) - 1)
  <2>1. CASE j \in 1 .. Len(m)
    BY <1>1, <1>2, <1>4, <2>1 DEF Count, Delivers
  <2>2. CASE j \notin 1 .. Len(m)
    <3>1. PICK l \in Nat : l = Len(m)
      BY <1>3
    <3>2. PICK t \in 1 .. k : j = l + t
      <4>1. j - l \in 1 .. k /\ j = l + (j - l)
        BY <1>3, <2>2, <3>1
      <4> QED
        BY <4>1
    <3>3. (x + j) - 1 = ((x + l) + t) - 1
      BY <3>1, <3>2
    <3>4. ((c.fp.offset + t) - 1) \in Offset /\ b[t] = Shown((c.fp.offset + t) - 1)
      BY <3>2 DEF Continues
    <3> QED
      BY <1>4, <1>5, <3>1, <3>2, <3>3, <3>4
  <2> QED
    BY <2>1, <2>2
<1> QED
  BY <1>1, <1>2, <1>4, <1>6 DEF Delivers

LEMMA ReadFields ==
  ASSUME NEW c, ReadCall(c)
  PROVE  /\ c.fp \in FCB /\ c.fp.offset \in Int /\ c.fp.hiwater \in Nat /\ c.fp.sector \in Int
         /\ c.left \in Nat /\ c.done \in BOOLEAN /\ c.ok \in BOOLEAN
         /\ DiskOK(c.disk) /\ c.fp.buffer \in Sector
BY DEF ReadCall, FCB, Sound

LEMMA Sums ==
  ASSUME NEW x \in Int, NEW y \in Int, NEW l \in Nat, NEW m \in Nat, NEW k \in Nat, NEW n \in Nat
  PROVE  /\ y + k >= y
         /\ y = x + l => y + k = x + (l + k)
         /\ l + m = n => (l + k) + (m - k) = n
OBVIOUS

LEMMA ReadingCarried ==
  ASSUME NEW c, NEW n \in Nat, Reading(c, n), ~c.done, fp.offset \in Int, fp.hiwater \in Nat,
         NEW b, NEW k \in Nat, Continues(c, b, k)
  PROVE  Reading(Carried(c, b, k), n)
<1>1. PICK t : t = Carried(c, b, k)
  OBVIOUS
<1>2. ReadCall(c) /\ Same(c) /\ Calm(c.fp, c.disk) /\ Count(c, n) /\ k \in Nat /\ k <= c.left
  BY DEF Reading, Continues
<1>3. /\ Alike(t.fp, c.fp) /\ t.fp.flags = c.fp.flags /\ t.fp.hiwater = c.fp.hiwater
      /\ t.fp.offset = c.fp.offset + k /\ t.disk = c.disk
      /\ t.moved = c.moved \o b /\ t.left = c.left - k /\ t.done = c.done /\ t.ok = c.ok
  BY <1>1, <1>2, CarriedFields
<1>4. ReadCall(t)
  BY <1>1, <1>2, ReadMoved DEF Carried
<1>5. Same(t)
  BY <1>1, <1>2, SameMoved DEF Carried
<1>6. Delivers(t.moved) /\ Len(t.moved) = Len(c.moved) + k
  BY <1>2, <1>3, DeliversMore
<1>7. PICK x \in Int, y \in Int, l \in Nat, m \in Nat, h \in Nat :
        /\ x = fp.offset /\ y = c.fp.offset /\ l = Len(c.moved) /\ m = c.left /\ h = c.fp.hiwater
  <2>1. c.fp.offset \in Int /\ c.left \in Nat /\ c.fp.hiwater \in Nat
    BY <1>2, ReadFields
  <2>2. Len(c.moved) \in Nat
    BY <1>2 DEF Count, Delivers
  <2> QED
    BY <2>1, <2>2
<1>8. y + k >= y /\ (y = x + l => y + k = x + (l + k)) /\ (l + m = n => (l + k) + (m - k) = n)
  BY Sums
<1>9. Calm(t.fp, t.disk)
  <2>1. t.fp.offset >= c.fp.offset /\ t.fp.offset <= SECSIZ * MaxSector
    BY <1>3, <1>7, <1>8 DEF Continues
  <2>2. c.fp \in FCB /\ t.fp \in FCB
    BY <1>2, <1>4, ReadFields
  <2> QED
    BY <1>2, <1>3, <2>1, <2>2, CalmOn
<1>10. Count(t, n)
  BY <1>2, <1>3, <1>6, <1>7, <1>8 DEF Count
<1> QED
  BY <1>1, <1>3, <1>4, <1>5, <1>9, <1>10 DEF Reading

LEMMA RaisedFields ==
  ASSUME NEW c, ReadCall(c), NEW t, t = RaiseHiwater(c)
  PROVE  /\ Alike(t.fp, c.fp) /\ t.fp.flags = c.fp.flags /\ t.fp.hiwater >= c.fp.hiwater
         /\ t.fp.offset = c.fp.offset /\ t.disk = c.disk
         /\ t.moved = c.moved /\ t.left = c.left /\ t.done = c.done /\ t.ok = c.ok
BY DEF ReadCall, FCB, RaiseHiwater, Alike, Greatest

LEMMA ReadingRaised ==
  ASSUME NEW c, NEW n, Reading(c, n), ~c.done, fp.hiwater \in Nat
  PROVE  Reading(RaiseHiwater(c), n)
<1>1. PICK t : t = RaiseHiwater(c)
  OBVIOUS
<1>2. ReadCall(c) /\ Same(c) /\ Calm(c.fp, c.disk) /\ Count(c, n)
  BY DEF Reading
<1>3. /\ Alike(t.fp, c.fp) /\ t.fp.flags = c.fp.flags /\ t.fp.hiwater >= c.fp.hiwater
      /\ t.fp.offset = c.fp.offset /\ t.disk = c.disk
      /\ t.moved = c.moved /\ t.left = c.left /\ t.done = c.done /\ t.ok = c.ok
  BY <1>1, <1>2, RaisedFields
<1>4. ReadCall(t) /\ Same(t)
  BY <1>1, <1>2, ReadEnds, SameEnds
<1>5. /\ c.fp \in FCB /\ t.fp \in FCB /\ c.fp.offset \in Int
      /\ c.fp.hiwater \in Nat /\ t.fp.hiwater \in Nat
  BY <1>2, <1>4, ReadFields
<1>6. Calm(t.fp, t.disk)
  <2>1. t.fp.offset >= c.fp.offset /\ t.fp.offset <= SECSIZ * MaxSector
    BY <1>2, <1>3, <1>5, CcbAssumption DEF Calm, InFile
  <2> QED
    BY <1>2, <1>3, <1>5, <2>1, CalmOn
<1>7. Count(t, n)
  BY <1>2, <1>3, <1>5 DEF Count
<1> QED
  BY <1>1, <1>3, <1>4, <1>6, <1>7 DEF Reading

(* The ways it ends. *)
LEMMA ReadingReturns ==
  ASSUME NEW c, NEW n, Reading(c, n), ~c.done, c.left = 0
  PROVE  Reading(Return(c), n)
<1>1. PICK t : t = Return(c)
  OBVIOUS
<1>2. ReadCall(c) /\ Same(c) /\ Calm(c.fp, c.disk) /\ Count(c, n) /\ c.ok /\ "ATEOF" \notin c.fp.flags
  BY DEF Reading
<1>3. /\ t.fp = c.fp /\ t.disk = c.disk /\ t.moved = c.moved /\ t.left = c.left
      /\ t.done = TRUE /\ t.ok = c.ok
  BY <1>1, <1>2 DEF ReadCall, Return
<1>4. ReadCall(t) /\ Same(t)
  BY <1>1, <1>2, ReadEnds, SameEnds
<1>5. Count(t, n) /\ Ending(t)
  BY <1>2, <1>3 DEF Count, Ending
<1> QED
  BY <1>1, <1>2, <1>3, <1>4, <1>5 DEF Reading

LEMMA ReadingFails ==
  ASSUME NEW c, NEW n, Reading(c, n), ~c.done, c.moved = <<>>, Missing(fp.offset)
  PROVE  Reading(Fail(c), n)
<1>1. PICK t : t = Fail(c)
  OBVIOUS
<1>2. ReadCall(c) /\ Same(c) /\ Calm(c.fp, c.disk) /\ Count(c, n) /\ "ATEOF" \notin c.fp.flags
  BY DEF Reading
<1>3. /\ t.fp = c.fp /\ t.disk = c.disk /\ t.moved = c.moved /\ t.left = c.left
      /\ t.done = TRUE /\ t.ok = FALSE
  BY <1>1, <1>2 DEF ReadCall, Fail
<1>4. ReadCall(t) /\ Same(t)
  BY <1>1, <1>2, ReadEnds, SameEnds
<1>5. Count(t, n) /\ Ending(t)
  BY <1>2, <1>3 DEF Count, Ending
<1> QED
  BY <1>1, <1>2, <1>3, <1>4, <1>5 DEF Reading

AtEof(c) == [c EXCEPT !.fp.flags = @ \cup {"ATEOF"}]

LEMMA ReadingAtEof ==
  ASSUME NEW c, NEW n, Reading(c, n), ~c.done, c.left > 0, Missing(c.fp.offset)
  PROVE  Reading(Return(AtEof(c)), n)
<1>1. PICK e : e = AtEof(c)
  OBVIOUS
<1>2. PICK t : t = Return(e)
  OBVIOUS
<1>3. ReadCall(c) /\ Same(c) /\ Calm(c.fp, c.disk) /\ Count(c, n) /\ c.ok
  BY DEF Reading
<1>4. /\ Alike(e.fp, c.fp) /\ e.fp.hiwater = c.fp.hiwater /\ e.fp.offset = c.fp.offset
      /\ e.disk = c.disk /\ e.moved = c.moved /\ e.left = c.left /\ e.ok = c.ok
  BY <1>1, <1>3 DEF ReadCall, FCB, AtEof, Alike
<1>5. ReadCall(e) /\ Same(e)
  BY <1>1, <1>3, ReadEnds, SameEnds DEF AtEof
<1>6. /\ t.fp = e.fp /\ t.disk = e.disk /\ t.moved = e.moved /\ t.left = e.left
      /\ t.done = TRUE /\ t.ok = e.ok
  BY <1>2, <1>5 DEF ReadCall, Return
<1>7. ReadCall(t) /\ Same(t)
  BY <1>2, <1>5, ReadEnds, SameEnds
<1>8. Calm(t.fp, t.disk)
  <2>1. c.fp \in FCB /\ t.fp \in FCB /\ c.fp.offset \in Int
    BY <1>3, <1>7, ReadFields
  <2>2. t.fp.offset >= c.fp.offset /\ t.fp.offset <= SECSIZ * MaxSector
    BY <1>3, <1>4, <1>6, <2>1, CcbAssumption DEF Calm, InFile
  <2> QED
    BY <1>3, <1>4, <1>6, <2>1, <2>2, CalmOn
<1>9. Count(t, n)
  BY <1>3, <1>4, <1>6 DEF Count
<1>10. Ending(t)
  BY <1>3, <1>4, <1>6 DEF Ending
<1> QED
  BY <1>1, <1>2, <1>6, <1>7, <1>8, <1>9, <1>10 DEF Reading

LEMMA ReadingFlushed ==
  ASSUME NEW c, NEW n, Reading(c, n), ~c.done
  PROVE  Reading(Flush(c), n)
<1>1. PICK t : t = Flush(c)
  OBVIOUS
<1>2. ReadCall(c) /\ Same(c) /\ Calm(c.fp, c.disk) /\ Count(c, n) /\ c.ok /\ "ATEOF" \notin c.fp.flags
  BY DEF Reading
<1>3. /\ t.fp.hiwater = c.fp.hiwater /\ t.fp.offset = c.fp.offset
      /\ t.fp.flags = c.fp.flags \ {"DIRTY"}
      /\ t.moved = c.moved /\ t.left = c.left /\ t.done = c.done /\ t.ok = c.ok
  BY <1>1, <1>2 DEF ReadCall, FCB, Flush
<1>4. ReadCall(t) /\ Same(t) /\ Calm(t.fp, t.disk)
  BY <1>1, <1>2, ReadFlushed, SameFlushed, CalmFlushed
<1>5. Count(t, n)
  BY <1>2, <1>3 DEF Count
<1> QED
  BY <1>1, <1>2, <1>3, <1>4, <1>5 DEF Reading

LEMMA ReadingLoaded ==
  ASSUME NEW c, NEW n, Reading(c, n), ~c.done, "DIRTY" \notin c.fp.flags, NEW s \in DOMAIN c.disk
  PROVE  /\ Reading(Load(c, s), n) /\ Holds(Load(c, s).fp, Load(c, s).disk)
         /\ Load(c, s).fp.sector = s /\ Load(c, s).fp.offset = c.fp.offset
         /\ Load(c, s).left = c.left /\ Load(c, s).done = c.done
<1>1. PICK t : t = Load(c, s)
  OBVIOUS
<1>2. ReadCall(c) /\ Same(c) /\ Calm(c.fp, c.disk) /\ Count(c, n) /\ c.ok /\ "ATEOF" \notin c.fp.flags
  BY DEF Reading
<1>3. /\ t.fp.hiwater = c.fp.hiwater /\ t.fp.offset = c.fp.offset /\ t.fp.sector = s
      /\ t.fp.flags = c.fp.flags
      /\ t.moved = c.moved /\ t.left = c.left /\ t.done = c.done /\ t.ok = c.ok
  BY <1>1, <1>2 DEF ReadCall, FCB, Load
<1>4. ReadCall(t) /\ Same(t) /\ Calm(t.fp, t.disk) /\ Holds(t.fp, t.disk)
  BY <1>1, <1>2, ReadLoaded, SameLoaded, CalmLoaded
<1>5. Count(t, n)
  BY <1>2, <1>3 DEF Count
<1> QED
  BY <1>1, <1>2, <1>3, <1>4, <1>5 DEF Reading

-----------------------------------------------------------------------------
(* Bytes out of the buffer: all that are left, or up to the next sector.   *)

Room(x) == SECSIZ - (x % SECSIZ)

Taken(c, t, n, x) == /\ Reading(t, n) /\ t.done = FALSE
                     /\ t.left = c.left - Least(c.left, Room(x))
                     /\ t.fp.offset = x + Least(c.left, Room(x))

LEMMA ReadingTaken ==
  ASSUME NEW c, NEW n \in Nat, Reading(c, n), ~c.done, fp.offset \in Int, fp.hiwater \in Nat,
         NEW x \in Int, x = c.fp.offset, c.fp.sector = x \div SECSIZ, Holds(c.fp, c.disk),
         NEW p, p = x % SECSIZ, NEW t, t = Take(c, p)
  PROVE  Taken(c, t, n, x)
<1>1. PICK k : k = Least(c.left, SECSIZ - p)
  OBVIOUS
<1>2. PICK b : b = Bytes(c.fp.buffer, p, k)
  OBVIOUS
<1>3. /\ ReadCall(c) /\ Same(c) /\ Calm(c.fp, c.disk) /\ c.done = FALSE
      /\ SECSIZ \in Nat \ {0} /\ SECSIZ * MaxSector \in Nat /\ MaxSector \in Nat
  BY ReadFields, CcbAssumption DEF Reading
<1>4. PICK m \in Nat, e \in Nat : m = c.left /\ e = SECSIZ * MaxSector
  BY <1>3, ReadFields
<1>5. x \in 0 .. e /\ p \in 0 .. SECSIZ - 1
  BY <1>3, <1>4, SectorArithmetic DEF Calm, InFile
<1>6. k \in Nat /\ k <= m /\ p + k <= SECSIZ
  BY <1>1, <1>3, <1>4, <1>5 DEF Least
<1>7. c.fp.buffer \in Sector
  BY <1>3, ReadFields
<1>8. ASSUME NEW j \in 1 .. k
      PROVE  /\ (x + j) - 1 \in Offset /\ c.fp.buffer[p + (j - 1)] = Shown((x + j) - 1)
             /\ c.fp.buffer[p + (j - 1)] \in Byte
  <2>1. PICK i \in Int : i = (x + j) - 1
    BY <1>5
  <2>2. i = x + (j - 1) /\ i \in Nat /\ p + (j - 1) \in 0 .. SECSIZ - 1 /\ j - 1 \in Int
    BY <1>3, <1>5, <1>6, <2>1
  <2>3. i \div SECSIZ = c.fp.sector /\ i % SECSIZ = p + (j - 1)
    BY <1>4, <2>2, Within
  <2>4. i \in Offset
    <3>1. c.fp.sector \in Int /\ c.fp.sector < MaxSector
      BY <1>3, ReadFields DEF Calm, InFile
    <3>2. i \div SECSIZ \in Nat
      BY <2>2, SectorArithmetic
    <3>3. i \div SECSIZ \in Sectors
      BY <1>3, <2>3, <3>1, <3>2 DEF Sectors
    <3> QED
      BY <2>2, <3>3, InOffset
  <2>5. Shown(i) = At(c.fp, c.disk, i)
    BY <1>3, <2>2 DEF Same
  <2>6. c.fp.buffer[p + (j - 1)] = At(c.fp, c.disk, i)
    BY <2>3, <2>4 DEF Holds
  <2>7. c.fp.buffer[p + (j - 1)] \in Byte
    BY <1>7, <2>2 DEF Sector
  <2> QED
    BY <2>1, <2>4, <2>5, <2>6, <2>7
<1>9. Continues(c, b, k)
  <2>1. b = [j \in 1 .. k |-> c.fp.buffer[p + (j - 1)]]
    BY <1>2 DEF Bytes
  <2>2. b \in Seq(Byte) /\ Len(b) = k /\ \A j \in 1 .. k : b[j] = c.fp.buffer[p + (j - 1)]
    <3>1. b \in [1 .. k -> Byte] /\ \A j \in 1 .. k : b[j] = c.fp.buffer[p + (j - 1)]
      BY <1>8, <2>1
    <3> QED
      BY <1>6, <3>1, SeqOf
  <2>3. x + k <= e
    <3>1. CASE k = 0
      BY <1>5, <3>1
    <3>2. CASE k # 0
      <4>1. k \in 1 .. k
        BY <1>6, <3>2
      <4>2. (x + k) - 1 \in Offset
        BY <1>8, <4>1
      <4> QED
        BY <1>3, <1>4, <1>5, <1>6, <4>2 DEF Offset
    <3> QED
      BY <3>1, <3>2
  <2> QED
    BY <1>4, <1>6, <1>8, <2>2, <2>3 DEF Continues
<1>10. t = Carried(c, b, k)
  BY <1>1, <1>2 DEF Take, Carried
<1>11. Reading(t, n)
  BY <1>6, <1>9, <1>10, ReadingCarried
<1>12. t.done = c.done /\ t.left = c.left - k /\ t.fp.offset = c.fp.offset + k
  BY <1>3, <1>10, CarriedFields
<1> QED
  BY <1>1, <1>3, <1>11, <1>12 DEF Room, Taken

-----------------------------------------------------------------------------
(* The parts of _rdbin. *)

(* Up to a sector boundary. *)
HeadRead(c, n) ==
  /\ Reading(c, n)
  /\ ~c.done => /\ c.fp.offset % SECSIZ = 0
                /\ c.left = IF fp.offset % SECSIZ = 0 THEN n ELSE n - Room(fp.offset)

Got(d, p) == LET t == Take(d, p)
             IN  IF t.left = 0 THEN Return(RaiseHiwater(t)) ELSE t

LEMMA ReadHeadGot ==
  ASSUME NEW n, Reads(n), NEW p, p = fp.offset % SECSIZ, p # 0,
         NEW d, Reading(d, n), ~d.done, d.fp.sector = fp.offset \div SECSIZ,
         Holds(d.fp, d.disk), d.fp.offset = fp.offset, d.left = n
  PROVE  HeadRead(Got(d, p), n)
<1>1. n \in Nat /\ fp.offset \in Int /\ fp.hiwater \in Nat
  BY DEF Reads, IInv, TypeOK, FCB
<1>2. PICK t : t = Take(d, p)
  OBVIOUS
<1>3. PICK k : k = Least(n, Room(fp.offset))
  OBVIOUS
<1>4. Reading(t, n) /\ t.done = FALSE /\ t.left = n - k /\ t.fp.offset = fp.offset + k
  <2>1. PICK x \in Int : x = fp.offset
    BY <1>1
  <2>2. x = d.fp.offset /\ d.fp.sector = x \div SECSIZ /\ p = x % SECSIZ
    BY <2>1
  <2>3. Taken(d, t, n, x)
    BY <1>1, <1>2, <2>2, ReadingTaken
  <2> QED
    BY <1>3, <2>1, <2>3 DEF Taken
<1>5. CASE t.left = 0
  <2>1. PICK u : u = RaiseHiwater(t)
    OBVIOUS
  <2>2. Reading(u, n)
    BY <1>1, <1>4, <2>1, ReadingRaised
  <2>3. u.done = FALSE /\ u.left = 0
    BY <1>4, <1>5, <2>1, RaisedFields DEF Reading
  <2>4. Reading(Return(u), n)
    BY <2>2, <2>3, ReadingReturns
  <2>5. Return(u).done
    BY <2>2 DEF Return, Reading, ReadCall
  <2> QED
    BY <1>2, <1>5, <2>1, <2>4, <2>5 DEF HeadRead, Got
<1>6. CASE t.left # 0
  <2>1. PICK x \in Int, r \in Int : x = fp.offset /\ r = Room(x)
    <3>1. PICK x \in Int : x = fp.offset
      BY <1>1
    <3>2. Room(x) \in Int
      BY <3>1, SectorArithmetic, CcbAssumption DEF Room
    <3> QED
      BY <3>1, <3>2
  <2>2. k = r
    BY <1>1, <1>3, <1>4, <1>6, <2>1 DEF Least
  <2>3. t.fp.offset = x + (SECSIZ - (x % SECSIZ))
    BY <1>4, <2>1, <2>2 DEF Room
  <2>4. t.fp.offset % SECSIZ = 0
    BY <2>1, <2>3, NextSector
  <2> QED
    BY <1>2, <1>4, <1>6, <2>1, <2>2, <2>4 DEF HeadRead, Got
<1> QED
  BY <1>5, <1>6

LEMMA ReadHeadReads ==
  ASSUME NEW n, Reads(n)
  PROVE  HeadRead(ReadHead(Begin(n), {}), n)
<1>1. PICK c : c = Begin(n)
  OBVIOUS
<1>2. /\ c.fp = fp /\ c.disk = disk /\ c.moved = <<>> /\ c.left = n
      /\ c.done = FALSE /\ c.ok = TRUE
  BY <1>1 DEF Begin
<1>3. Reading(c, n)
  BY <1>1, ReadingBegins
<1>4. PICK s, p : s = fp.offset \div SECSIZ /\ p = fp.offset % SECSIZ
  OBVIOUS
<1>5. /\ SECSIZ \in Nat \ {0} /\ fp \in FCB /\ fp.offset \in Nat /\ fp.hiwater \in Nat
      /\ n \in Nat /\ s \in Nat /\ p \in 0 .. SECSIZ - 1
  <2>1. fp \in FCB /\ fp.hiwater \in Nat /\ n \in Nat
    BY DEF Reads, IInv, TypeOK, FCB
  <2>2. fp.offset \in Nat
    BY CcbAssumption DEF Reads, Calm, InFile
  <2>3. PICK x \in Nat : x = fp.offset
    BY <2>2
  <2>4. s \in Nat /\ p \in 0 .. SECSIZ - 1
    BY <1>4, <2>3, SectorArithmetic
  <2> QED
    BY <2>1, <2>2, <2>4, CcbAssumption
<1>6. ReadHead(c, {}) = IF p = 0 THEN c
                        ELSE IF c.fp.sector = s THEN Got(c, p)
                        ELSE IF ~CanFlush(c, {}) THEN Fail(c)
                        ELSE IF s \notin DOMAIN FlushedDisk(c) THEN Fail(Flush(c))
                        ELSE Got(Load(Flush(c), s), p)
  BY <1>2, <1>4 DEF ReadHead, Got
<1>7. CASE p = 0
  BY <1>1, <1>2, <1>3, <1>4, <1>6, <1>7 DEF HeadRead
<1>8. CASE p # 0 /\ c.fp.sector = s
  <2>1. Holds(fp, disk)
    <3>1. CASE Behind(fp)
      <4>1. PICK x \in Nat, q \in Int, r \in 0 .. SECSIZ - 1 :
              x = fp.offset /\ q = s /\ r = p /\ x = (SECSIZ * q) + r
        <5>1. PICK x \in Int : x = fp.offset
          BY <1>5
        <5>2. PICK q \in Int, r \in 0 .. SECSIZ - 1 :
                q = x \div SECSIZ /\ r = x % SECSIZ /\ x = (SECSIZ * q) + r
          BY <5>1, Place
        <5>3. q = s /\ r = p
          BY <1>4, <5>1, <5>2
        <5> QED
          BY <1>5, <5>1, <5>2, <5>3
      <4>2. x >= SECSIZ * (q + 1)
        BY <1>2, <1>8, <3>1, <4>1 DEF Behind
      <4>3. SECSIZ * (q + 1) = (SECSIZ * q) + SECSIZ
        BY <1>5, <4>1
      <4>4. PICK a \in Int : a = SECSIZ * q
        BY <1>5, <4>1
      <4> QED
        BY <1>5, <4>1, <4>2, <4>3, <4>4
    <3>2. CASE ~Behind(fp)
      BY <1>2, <1>5, <1>8, <3>2 DEF Reads, Calm, Fresh
    <3> QED
      BY <3>1, <3>2
  <2> QED
    BY <1>1, <1>2, <1>3, <1>4, <1>6, <1>8, <2>1, ReadHeadGot
<1>9. CASE p # 0 /\ c.fp.sector # s
  <2>1. CanFlush(c, {})
    BY DEF CanFlush
  <2>2. PICK f : f = Flush(c)
    OBVIOUS
  <2>3. ReadCall(c)
    BY <1>3 DEF Reading
  <2>4. Reading(f, n) /\ "DIRTY" \notin f.fp.flags /\ f.disk = FlushedDisk(c)
    BY <1>2, <1>3, <2>2, <2>3, ReadingFlushed, ReadFlushed
  <2>5. f.done = FALSE /\ f.left = n /\ f.moved = <<>> /\ f.fp.offset = fp.offset
    BY <1>2, <2>2, <2>3 DEF Flush, ReadCall, FCB
  <2>6. CASE s \notin DOMAIN f.disk
    <3>1. At(f.fp, f.disk, fp.offset) = None
      BY <1>4, <2>4, <2>6 DEF At
    <3>2. Missing(fp.offset)
      BY <1>5, <2>4, <3>1 DEF Missing, Reading, Same
    <3>3. Reading(Fail(f), n)
      BY <2>4, <2>5, <3>2, ReadingFails
    <3>4. Fail(f).done
      BY <2>4 DEF Fail, Reading, ReadCall
    <3> QED
      BY <1>1, <1>6, <1>9, <2>1, <2>2, <2>4, <2>6, <3>3, <3>4 DEF HeadRead
  <2>7. CASE s \in DOMAIN f.disk
    <3>1. PICK d : d = Load(f, s)
      OBVIOUS
    <3>2. /\ Reading(d, n) /\ Holds(d.fp, d.disk) /\ d.fp.sector = s
          /\ d.fp.offset = fp.offset /\ d.left = n /\ d.done = FALSE
      BY <2>4, <2>5, <2>7, <3>1, ReadingLoaded
    <3> QED
      BY <1>1, <1>4, <1>6, <1>9, <2>1, <2>2, <2>4, <2>7, <3>1, <3>2, ReadHeadGot
  <2> QED
    BY <2>6, <2>7
<1> QED
  BY <1>7, <1>8, <1>9

(* Whole sectors: what they deliver is on the disk, and no dirty buffer    *)
(* lies over it.                                                           *)
Uncovered(c) ==
  c.left >= SECSIZ => \/ "DIRTY" \notin c.fp.flags
                      \/ c.fp.sector < c.fp.offset \div SECSIZ

LEMMA HeadUncovers ==
  ASSUME NEW n, Reads(n), seeks => ~Bypasses(n), NEW c, HeadRead(c, n), ~c.done
  PROVE  Uncovered(c)
<1>1. CASE seeks
  <2>1. SECSIZ \in Nat \ {0} /\ n \in Nat
    BY CcbAssumption DEF Reads
  <2>2. PICK p \in Int : p = fp.offset % SECSIZ
    <3>1. fp.offset \in Int
      BY DEF Reads, IInv, TypeOK, FCB
    <3>2. PICK x \in Int : x = fp.offset
      BY <3>1
    <3> QED
      BY <3>2, SectorArithmetic
  <2>3. n < SECSIZ + (IF p = 0 THEN 0 ELSE SECSIZ - p)
    BY <1>1, <2>1, <2>2 DEF Bypasses
  <2>4. c.left = IF p = 0 THEN n ELSE n - (SECSIZ - p)
    BY <2>2 DEF HeadRead, Room
  <2>5. c.left < SECSIZ
    BY <2>1, <2>2, <2>3, <2>4
  <2> QED
    BY <2>1, <2>5, ReadFields DEF Uncovered, HeadRead, Reading
<1>2. CASE ~seeks /\ "DIRTY" \in c.fp.flags
  <2>1. ReadCall(c) /\ Calm(c.fp, c.disk) /\ c.fp.offset % SECSIZ = 0
    BY DEF HeadRead, Reading
  <2>2. PICK x \in Int, y \in Int : x = c.fp.offset /\ y = c.fp.sector
    BY <2>1, ReadFields
  <2>3. PICK q \in Int, r \in 0 .. SECSIZ - 1 :
          q = x \div SECSIZ /\ r = x % SECSIZ /\ x = (SECSIZ * q) + r
    BY Place
  <2>4. PICK z \in Int : z = (SECSIZ * y) + 0
    BY CcbAssumption
  <2>5. z \div SECSIZ = y /\ 0 \in 0 .. SECSIZ - 1
    <3>1. 0 \in 0 .. SECSIZ - 1
      BY CcbAssumption
    <3> QED
      BY <2>4, <3>1, PlaceOf
  <2>6. SECSIZ * y < x
    BY <1>2, <2>1, <2>2 DEF Calm, Trails
  <2>7. z < x
    <3>1. SECSIZ * y \in Int
      BY CcbAssumption
    <3> QED
      BY <2>4, <2>6, <3>1
  <2>8. y <= q
    BY <2>3, <2>5, <2>7, Order
  <2>9. y # q
    <3>1. r = 0
      BY <2>1, <2>2, <2>3
    <3> QED
      BY <2>3, <2>4, <2>7, <3>1
  <2> QED
    BY <2>2, <2>3, <2>8, <2>9 DEF Uncovered
<1> QED
  BY <1>1, <1>2 DEF Uncovered

LEMMA DirectContinues ==
  ASSUME NEW n, Reads(n), NEW c, Reading(c, n), Uncovered(c),
         NEW x \in Int, x = c.fp.offset, x % SECSIZ = 0, NEW s, s = x \div SECSIZ,
         NEW i \in Nat, i * SECSIZ <= c.left, s .. s + i - 1 \subseteq DOMAIN c.disk
  PROVE  Continues(c, DiskBytes(c.disk, s, i), i * SECSIZ)
<1>1. PICK d : d = c.disk
  OBVIOUS
<1>2. /\ ReadCall(c) /\ Same(c) /\ Calm(c.fp, d) /\ DiskOK(d)
      /\ SECSIZ \in Nat \ {0} /\ SECSIZ * MaxSector \in Nat /\ s \in Int /\ i * SECSIZ \in Nat
  BY <1>1, ReadFields, SectorArithmetic, CcbAssumption DEF Reading
<1>3. PICK m \in Nat, e \in Nat, k \in Nat : m = c.left /\ e = SECSIZ * MaxSector /\ k = i * SECSIZ
  BY <1>2, ReadFields
<1>4. x \in 0 .. e /\ k <= m
  BY <1>2, <1>3 DEF Calm, InFile
<1>5. PICK b : b = [j \in 1 .. k |-> d[s + (j - 1) \div SECSIZ][(j - 1) % SECSIZ]]
  OBVIOUS
<1>6. b = DiskBytes(d, s, i)
  BY <1>3, <1>5 DEF DiskBytes
<1>7. ASSUME NEW j \in 1 .. k
      PROVE  (x + j) - 1 \in Offset /\ b[j] = Shown((x + j) - 1) /\ b[j] \in Byte
  <2>1. PICK h \in Int : h = j - 1
    OBVIOUS
  <2>2. PICK q \in Int, r \in 0 .. SECSIZ - 1 :
          q = h \div SECSIZ /\ r = h % SECSIZ /\ h = (SECSIZ * q) + r
    BY Place
  <2>3. PICK y \in Int : y = (x + j) - 1
    BY <1>4
  <2>4. y = h + s * SECSIZ
    <3>1. PICK a \in Int, z \in 0 .. SECSIZ - 1 :
            a = x \div SECSIZ /\ z = x % SECSIZ /\ x = (SECSIZ * a) + z
      BY Place
    <3>2. x = s * SECSIZ
      BY <1>2, <3>1
    <3>3. s * SECSIZ \in Int
      BY <1>2
    <3> QED
      BY <2>1, <2>3, <3>2, <3>3
  <2>5. y \div SECSIZ = q + s /\ y % SECSIZ = r
    BY <1>2, <2>2, <2>4, SectorsOn
  <2>6. q \in 0 .. i - 1
    <3>1. PICK z \in Int : z = (SECSIZ * i) + 0
      BY <1>2
    <3>2. z \div SECSIZ = i
      <4>1. 0 \in 0 .. SECSIZ - 1
        BY <1>2
      <4> QED
        BY <3>1, <4>1, PlaceOf
    <3>3. h < z /\ h >= 0
      BY <1>2, <1>3, <2>1, <3>1
    <3>4. q >= 0
      BY <2>2, <3>3, SectorArithmetic
    <3>5. q <= i
      BY <2>2, <3>2, <3>3, Order
    <3>6. q # i
      BY <2>2, <3>1, <3>3, <1>2
    <3> QED
      BY <3>4, <3>5, <3>6
  <2>7. q + s \in DOMAIN d /\ q + s = s + q
    <3>1. q + s \in s .. s + i - 1 /\ q + s = s + q
      BY <1>2, <2>6
    <3> QED
      BY <1>1, <3>1
  <2>8. b[j] = d[q + s][r]
    BY <1>5, <2>1, <2>2, <2>7
  <2>9. y \in Offset
    <3>1. q + s \in Sectors
      BY <1>2, <2>7 DEF Calm, InFile
    <3>2. y \in Nat
      BY <1>4, <2>3
    <3> QED
      BY <2>5, <3>1, <3>2, InOffset
  <2>10. ~("DIRTY" \in c.fp.flags /\ c.fp.sector = q + s)
    <3>1. m >= SECSIZ
      <4>1. i >= 1
        BY <2>6
      <4>2. 1 * SECSIZ <= i * SECSIZ
        BY <1>2, <4>1, Multiples
      <4> QED
        BY <1>2, <1>3, <1>4, <4>2
    <3> QED
      BY <1>2, <1>3, <2>6, <3>1 DEF Uncovered
  <2>11. At(c.fp, d, y) = d[q + s][r]
    BY <2>5, <2>7, <2>10 DEF At
  <2>12. Shown(y) = At(c.fp, d, y)
    BY <1>1, <1>2, <2>9, OffsetNat DEF Same
  <2>13. d[q + s][r] \in Byte
    BY <1>2, <2>7 DEF DiskOK, Sector
  <2> QED
    BY <2>3, <2>8, <2>9, <2>11, <2>12, <2>13
<1>8. b \in Seq(Byte) /\ Len(b) = k
  <2>1. b \in [1 .. k -> Byte]
    BY <1>5, <1>7
  <2> QED
    BY <2>1, SeqOf
<1>9. x + k <= e
  <2>1. CASE k = 0
    BY <1>4, <2>1
  <2>2. CASE k # 0
    <3>1. k \in 1 .. k
      BY <2>2
    <3>2. (x + k) - 1 \in Offset
      BY <1>7, <3>1
    <3> QED
      BY <1>3, <1>4, <3>2 DEF Offset
  <2> QED
    BY <2>1, <2>2
<1> QED
  BY <1>1, <1>3, <1>4, <1>6, <1>7, <1>8, <1>9 DEF Continues

(* What is left then is less than a sector, from a boundary on. *)
DirectRead(c, n) ==
  /\ Reading(c, n)
  /\ ~c.done => c.fp.offset % SECSIZ = 0 /\ c.left > 0 /\ c.left < SECSIZ

(* So many whole sectors, none of them asked for when the request goes     *)
(* through the buffer.                                                     *)
LEMMA Whole ==
  ASSUME NEW m \in Nat, NEW w, w = m \div SECSIZ
  PROVE  /\ w \in Nat /\ w * SECSIZ \in Nat /\ w * SECSIZ <= m
         /\ m - w * SECSIZ < SECSIZ /\ (w > 0 => m >= SECSIZ)
<1>1. SECSIZ \in Nat \ {0}
  BY CcbAssumption
<1>2. PICK q \in Int, r \in 0 .. SECSIZ - 1 :
        q = m \div SECSIZ /\ r = m % SECSIZ /\ m = (SECSIZ * q) + r
  BY Place
<1>3. w \in Nat /\ w * SECSIZ \in Nat /\ w * SECSIZ <= m
  <2>1. w \in Nat /\ w * SECSIZ <= m
    BY WholeSectors
  <2> QED
    BY <1>1, <2>1
<1>4. m - w * SECSIZ < SECSIZ
  <2>1. w * SECSIZ = SECSIZ * q
    BY <1>1, <1>2, <1>3
  <2>2. PICK z \in Int : z = SECSIZ * q
    BY <1>1
  <2> QED
    BY <1>1, <1>2, <2>1, <2>2
<1>5. w > 0 => m >= SECSIZ
  <2>1. w > 0 => 1 * SECSIZ <= w * SECSIZ
    BY <1>1, <1>3, Multiples
  <2> QED
    BY <1>1, <1>3, <2>1
<1> QED
  BY <1>3, <1>4, <1>5

LEMMA ReadDirectReads ==
  ASSUME NEW n, Reads(n), seeks => ~Bypasses(n), NEW c, HeadRead(c, n)
  PROVE  DirectRead(ReadDirect(c), n)
<1>1. CASE c.done
  BY <1>1 DEF ReadDirect, HeadRead, DirectRead
<1>2. CASE ~c.done
  <2>1. /\ Reading(c, n) /\ ReadCall(c) /\ Calm(c.fp, c.disk) /\ Uncovered(c)
        /\ SECSIZ \in Nat \ {0} /\ n \in Nat /\ fp.offset \in Int /\ fp.hiwater \in Nat
    <3>1. fp.offset \in Int /\ fp.hiwater \in Nat /\ n \in Nat
      BY DEF Reads, IInv, TypeOK, FCB
    <3> QED
      BY <1>2, <3>1, HeadUncovers, CcbAssumption DEF HeadRead, Reading
  <2>2. PICK x \in Int, m \in Nat : x = c.fp.offset /\ m = c.left
    BY <2>1, ReadFields
  <2>3. x % SECSIZ = 0
    BY <1>2, <2>2 DEF HeadRead
  <2>4. PICK s \in Int : s = x \div SECSIZ
    BY SectorArithmetic
  <2>5. PICK w : w = m \div SECSIZ
    OBVIOUS
  <2>6. /\ w \in Nat /\ w * SECSIZ \in Nat /\ w * SECSIZ <= m /\ m - w * SECSIZ < SECSIZ
        /\ w > 0 => m >= SECSIZ
    BY <2>5, Whole
  <2>7. PICK i : i = Transferred(s, w, DOMAIN c.disk)
    OBVIOUS
  <2>8. /\ i \in 0 .. w /\ s .. s + i - 1 \subseteq DOMAIN c.disk
        /\ i = w \/ s + i \notin DOMAIN c.disk
    BY <2>6, <2>7, TransferredStops
  <2>9. i \in Nat /\ i * SECSIZ \in Nat /\ i * SECSIZ <= w * SECSIZ
    BY <2>1, <2>6, <2>8, Multiples
  <2>10. PICK k \in Nat, u \in Nat : k = i * SECSIZ /\ u = w * SECSIZ
    BY <2>6, <2>9
  <2>11. k <= m
    BY <2>6, <2>9, <2>10
  <2>12. PICK b : b = DiskBytes(c.disk, s, i)
    OBVIOUS
  <2>13. Continues(c, b, k)
    BY <2>1, <2>2, <2>3, <2>4, <2>8, <2>9, <2>10, <2>11, <2>12, DirectContinues
  <2>14. PICK g : g = Carried(c, b, k)
    OBVIOUS
  <2>15. PICK t : t = RaiseHiwater(g)
    OBVIOUS
  <2>16. ReadDirect(c) = IF i # w THEN Return(AtEof(t)) ELSE IF t.left = 0 THEN Return(t) ELSE t
    BY <1>2, <2>2, <2>4, <2>5, <2>7, <2>10, <2>12, <2>14, <2>15
       DEF ReadDirect, Carried, AtEof
  <2>17. Reading(g, n)
    BY <1>2, <2>1, <2>10, <2>13, <2>14, ReadingCarried
  <2>18. /\ g.fp.offset = x + k /\ g.left = m - k /\ g.done = c.done
         /\ Alike(g.fp, c.fp) /\ g.disk = c.disk
    BY <2>1, <2>2, <2>14, CarriedFields
  <2>19. Reading(t, n)
    BY <1>2, <2>1, <2>15, <2>17, <2>18, ReadingRaised
  <2>20. /\ t.fp.offset = x + k /\ t.left = m - k /\ ~t.done
         /\ Alike(t.fp, g.fp) /\ t.disk = c.disk
    BY <1>2, <2>15, <2>17, <2>18, RaisedFields DEF Reading
  <2>21. CASE i # w
    <3>1. t.left > 0
      <4>1. (i + 1) * SECSIZ <= w * SECSIZ
        <5>1. i + 1 \in Nat /\ i + 1 <= w
          BY <2>6, <2>8, <2>9, <2>21
        <5> QED
          BY <2>1, <2>6, <5>1, Multiples
      <4>2. (i + 1) * SECSIZ = i * SECSIZ + SECSIZ
        BY <2>1, <2>9
      <4>3. k + SECSIZ <= u
        BY <2>10, <4>1, <4>2
      <4> QED
        BY <2>1, <2>6, <2>10, <2>20, <4>3
    <3>2. PICK y \in Int : y = x + k
      OBVIOUS
    <3>3. y \div SECSIZ = s + i
      <4>1. y \div SECSIZ = (x \div SECSIZ) + i
        BY <2>9, <2>10, <3>2, SectorsOn
      <4> QED
        BY <2>4, <4>1
    <3>4. ~("DIRTY" \in t.fp.flags /\ t.fp.sector = s + i)
      <4>1. m >= SECSIZ
        BY <2>6, <2>8, <2>21
      <4>2. "DIRTY" \notin c.fp.flags \/ c.fp.sector < s
        BY <2>2, <2>4, <4>1, <2>1 DEF Uncovered
      <4>3. c.fp.sector \in Int
        BY <2>1, ReadFields
      <4> QED
        BY <2>9, <2>18, <2>20, <4>2, <4>3 DEF Alike
    <3>5. At(t.fp, t.disk, y) = None
      BY <2>8, <2>20, <2>21, <3>3, <3>4 DEF At
    <3>6. Missing(y)
      BY <2>19, <3>5, OffsetNat DEF Reading, Same, Missing
    <3>7. Reading(Return(AtEof(t)), n)
      BY <2>19, <2>20, <3>1, <3>2, <3>6, ReadingAtEof
    <3>8. Return(AtEof(t)).done
      BY <2>19 DEF Return, AtEof, Reading, ReadCall
    <3> QED
      BY <2>16, <2>21, <3>7, <3>8 DEF DirectRead
  <2>22. CASE i = w /\ t.left = 0
    <3>1. Reading(Return(t), n)
      BY <2>19, <2>20, <2>22, ReadingReturns
    <3>2. Return(t).done
      BY <2>19 DEF Return, Reading, ReadCall
    <3> QED
      BY <2>16, <2>22, <3>1, <3>2 DEF DirectRead
  <2>23. CASE i = w /\ t.left # 0
    <3>1. t.left > 0 /\ t.left < SECSIZ
      BY <2>6, <2>10, <2>11, <2>20, <2>23
    <3>2. (x + i * SECSIZ) % SECSIZ = x % SECSIZ
      BY <2>9, SectorsOn
    <3>3. t.fp.offset % SECSIZ = 0
      BY <2>3, <2>10, <2>20, <3>2
    <3> QED
      BY <2>16, <2>19, <2>23, <3>1, <3>3 DEF DirectRead
  <2> QED
    BY <2>21, <2>22, <2>23
<1> QED
  BY <1>1, <1>2

LEMMA ReadTailReads ==
  ASSUME NEW n, Reads(n), NEW c, DirectRead(c, n)
  PROVE  Reading(ReadTail(c, {}), n) /\ ReadTail(c, {}).done
<1>1. CASE c.done
  BY <1>1 DEF ReadTail, DirectRead
<1>2. CASE ~c.done
  <2>1. /\ Reading(c, n) /\ ReadCall(c) /\ SECSIZ \in Nat \ {0} /\ n \in Nat
        /\ fp.offset \in Int /\ fp.hiwater \in Nat
    <3>1. fp.offset \in Int /\ fp.hiwater \in Nat /\ n \in Nat
      BY DEF Reads, IInv, TypeOK, FCB
    <3> QED
      BY <3>1, CcbAssumption DEF DirectRead, Reading
  <2>2. PICK x \in Int, m \in Nat : x = c.fp.offset /\ m = c.left
    BY <2>1, ReadFields
  <2>3. x % SECSIZ = 0 /\ m > 0 /\ m < SECSIZ
    BY <1>2, <2>2 DEF DirectRead
  <2>4. PICK s \in Int : s = x \div SECSIZ
    BY SectorArithmetic
  <2>5. PICK f : f = Flush(c)
    OBVIOUS
  <2>6. Reading(f, n) /\ "DIRTY" \notin f.fp.flags
    BY <1>2, <2>1, <2>5, ReadingFlushed, ReadFlushed
  <2>7. ~f.done /\ f.left = m /\ f.fp.offset = x
    BY <1>2, <2>1, <2>2, <2>5 DEF Flush, ReadCall, FCB
  <2>8. ReadTail(c, {}) = IF s \notin DOMAIN f.disk THEN Return(AtEof(f))
                          ELSE Return(RaiseHiwater(Take(Load(f, s), 0)))
    BY <1>2, <2>2, <2>4, <2>5 DEF ReadTail, CanFlush, AtEof
  <2>9. CASE s \notin DOMAIN f.disk
    <3>1. At(f.fp, f.disk, x) = None
      BY <2>4, <2>6, <2>9 DEF At
    <3>2. Missing(x)
      BY <2>6, <3>1, OffsetNat DEF Missing, Reading, Same
    <3>3. Reading(Return(AtEof(f)), n)
      BY <2>3, <2>6, <2>7, <3>2, ReadingAtEof
    <3>4. Return(AtEof(f)).done
      BY <2>6 DEF Return, AtEof, Reading, ReadCall
    <3> QED
      BY <2>8, <2>9, <3>3, <3>4
  <2>10. CASE s \in DOMAIN f.disk
    <3>1. PICK d : d = Load(f, s)
      OBVIOUS
    <3>2. /\ Reading(d, n) /\ Holds(d.fp, d.disk) /\ d.fp.sector = s
          /\ d.fp.offset = x /\ d.left = m /\ ~d.done
      BY <2>6, <2>7, <2>10, <3>1, ReadingLoaded
    <3>3. PICK t : t = Take(d, 0)
      OBVIOUS
    <3>4. Taken(d, t, n, x)
      BY <2>1, <2>3, <2>4, <3>2, <3>3, ReadingTaken
    <3>5. Reading(t, n) /\ ~t.done /\ t.left = 0
      <4>1. Room(x) = SECSIZ
        BY <2>1, <2>3 DEF Room
      <4> QED
        BY <2>1, <2>3, <3>2, <3>4, <4>1 DEF Taken, Least
    <3>6. PICK u : u = RaiseHiwater(t)
      OBVIOUS
    <3>7. Reading(u, n) /\ ~u.done /\ u.left = 0
      <4>1. u.done = t.done /\ u.left = t.left
        BY <3>5, <3>6, RaisedFields DEF Reading
      <4> QED
        BY <2>1, <3>5, <3>6, <4>1, ReadingRaised
    <3>8. Reading(Return(u), n)
      BY <3>7, ReadingReturns
    <3>9. Return(u).done
      BY <3>7 DEF Return, Reading, ReadCall
    <3> QED
      BY <2>8, <2>10, <3>1, <3>3, <3>6, <3>8, <3>9
  <2> QED
    BY <2>9, <2>10
<1> QED
  BY <1>1, <1>2

LEMMA RdBinReads ==
  ASSUME NEW n, Reads(n), seeks => ~Bypasses(n)
  PROVE  Reading(RdBin(n, {}), n) /\ RdBin(n, {}).done
<1>1. PICK a, b, d : a = ReadHead(Begin(n), {}) /\ b = ReadDirect(a) /\ d = ReadTail(b, {})
  OBVIOUS
<1>2. RdBin(n, {}) = d
  BY <1>1 DEF RdBin
<1>3. HeadRead(a, n)
  BY <1>1, ReadHeadReads
<1>4. DirectRead(b, n)
  BY <1>1, <1>3, ReadDirectReads
<1> QED
  BY <1>1, <1>2, <1>4, ReadTailReads

-----------------------------------------------------------------------------
(* Where a read leaves the high water mark: no lower than the offset, and  *)
(* where it was when the read fails.  A read that has delivered too little *)
(* says so.                                                                *)
Ended(c) ==
  IF c.ok THEN /\ c.fp.hiwater = Greatest(fp.hiwater, c.fp.offset)
               /\ c.left > 0 => "ATEOF" \in c.fp.flags
          ELSE c.fp.hiwater = fp.hiwater

HeadMark(c)   == IF c.done THEN Ended(c) ELSE c.ok /\ c.fp.hiwater = fp.hiwater
DirectMark(c) == IF c.done THEN Ended(c)
                 ELSE c.ok /\ c.fp.hiwater = Greatest(fp.hiwater, c.fp.offset)

(* The parts that leave the mark alone. *)
LEMMA FlushMark ==
  ASSUME NEW c, ReadCall(c), NEW f, f = Flush(c)
  PROVE  /\ f.fp.hiwater = c.fp.hiwater /\ f.fp.offset = c.fp.offset
         /\ f.left = c.left /\ f.ok = c.ok /\ f.done = c.done
BY DEF ReadCall, FCB, Flush

LEMMA LoadMark ==
  ASSUME NEW c, ReadCall(c), NEW s, NEW d, d = Load(c, s)
  PROVE  /\ d.fp.hiwater = c.fp.hiwater /\ d.fp.offset = c.fp.offset
         /\ d.left = c.left /\ d.ok = c.ok /\ d.done = c.done
BY DEF ReadCall, FCB, Load

LEMMA TakeMark ==
  ASSUME NEW c, ReadCall(c), NEW p \in 0 .. SECSIZ - 1, NEW t, t = Take(c, p)
  PROVE  \E k \in Nat : /\ k = Least(c.left, SECSIZ - p)
                        /\ t.fp.hiwater = c.fp.hiwater /\ t.fp.offset = c.fp.offset + k
                        /\ t.left = c.left - k /\ t.ok = c.ok /\ t.done = c.done
<1>1. c.left \in Nat
  BY DEF ReadCall
<1>2. PICK k \in Nat : k = Least(c.left, SECSIZ - p)
  BY <1>1, CcbAssumption DEF Least
<1>3. t = [c EXCEPT !.moved = @ \o Bytes(c.fp.buffer, p, k), !.fp.offset = @ + k, !.left = @ - k]
  BY <1>2 DEF Take
<1> QED
  BY <1>2, <1>3 DEF ReadCall, FCB

LEMMA RaiseMark ==
  ASSUME NEW c, ReadCall(c), NEW t, t = RaiseHiwater(c)
  PROVE  /\ t.fp.hiwater = Greatest(c.fp.hiwater, c.fp.offset)
         /\ t.fp.offset = c.fp.offset /\ t.left = c.left /\ t.ok = c.ok /\ t.done = c.done
BY DEF ReadCall, FCB, RaiseHiwater

LEMMA ReturnMark ==
  ASSUME NEW c, ReadCall(c), NEW t, t = Return(c)
  PROVE  t.fp = c.fp /\ t.left = c.left /\ t.ok = c.ok /\ t.done = TRUE
BY DEF ReadCall, Return

LEMMA FailMark ==
  ASSUME NEW c, ReadCall(c), NEW t, t = Fail(c)
  PROVE  t.fp = c.fp /\ t.ok = FALSE /\ t.done = TRUE
BY DEF ReadCall, Fail

LEMMA ReadHeadMark ==
  ASSUME NEW n, Reads(n)
  PROVE  HeadMark(ReadHead(Begin(n), {}))
<1>1. PICK c : c = Begin(n)
  OBVIOUS
<1>2. /\ c.fp = fp /\ c.disk = disk /\ c.left = n /\ c.done = FALSE /\ c.ok = TRUE
  BY <1>1 DEF Begin
<1>3. ReadCall(c)
  BY <1>1, ReadBegins DEF Reads
<1>4. PICK s, p : s = fp.offset \div SECSIZ /\ p = fp.offset % SECSIZ
  OBVIOUS
<1>5. p \in 0 .. SECSIZ - 1
  <2>1. fp.offset \in Int
    BY DEF Reads, IInv, TypeOK, FCB
  <2> QED
    BY <1>4, <2>1, SectorArithmetic
<1>6. PICK f : f = Flush(c)
  OBVIOUS
<1>7. ReadCall(f) /\ "DIRTY" \notin f.fp.flags /\ f.disk = FlushedDisk(c)
      /\ f.fp.hiwater = fp.hiwater /\ f.ok = TRUE /\ f.done = FALSE
  BY <1>2, <1>3, <1>6, ReadFlushed, FlushMark
<1>8. ReadHead(c, {}) = IF p = 0 THEN c
                        ELSE IF c.fp.sector = s THEN Got(c, p)
                        ELSE IF s \notin DOMAIN FlushedDisk(c) THEN Fail(f)
                        ELSE Got(Load(f, s), p)
  BY <1>2, <1>4, <1>6 DEF ReadHead, Got, CanFlush
<1>9. ASSUME NEW d, ReadCall(d), d.fp.hiwater = fp.hiwater, d.ok = TRUE, d.done = FALSE
      PROVE  HeadMark(Got(d, p))
  <2>1. PICK t : t = Take(d, p)
    OBVIOUS
  <2>2. ReadCall(t) /\ t.fp.hiwater = fp.hiwater /\ t.ok = TRUE /\ t.done = FALSE
    BY <1>5, <1>9, <2>1, ReadTaken, TakeMark
  <2>3. PICK u : u = RaiseHiwater(t)
    OBVIOUS
  <2>4. PICK v : v = Return(u)
    OBVIOUS
  <2>5. ReadCall(u) /\ u.fp.hiwater = Greatest(fp.hiwater, u.fp.offset)
        /\ u.left = t.left /\ u.ok = TRUE
    BY <2>2, <2>3, ReadEnds, RaiseMark
  <2>6. v.fp = u.fp /\ v.left = t.left /\ v.ok = TRUE /\ v.done = TRUE
    BY <2>4, <2>5, ReturnMark
  <2>7. Got(d, p) = IF t.left = 0 THEN v ELSE t
    BY <2>1, <2>3, <2>4 DEF Got
  <2>8. CASE t.left = 0
    BY <2>5, <2>6, <2>7, <2>8 DEF HeadMark, Ended
  <2>9. CASE t.left # 0
    BY <2>2, <2>7, <2>9 DEF HeadMark
  <2> QED
    BY <2>8, <2>9
<1>10. CASE p = 0
  BY <1>1, <1>2, <1>8, <1>10 DEF HeadMark
<1>11. CASE p # 0 /\ c.fp.sector = s
  BY <1>1, <1>2, <1>3, <1>8, <1>9, <1>11
<1>12. CASE p # 0 /\ c.fp.sector # s /\ s \notin DOMAIN f.disk
  <2>1. Fail(f).fp = f.fp /\ Fail(f).ok = FALSE /\ Fail(f).done = TRUE
    BY <1>7, FailMark
  <2> QED
    BY <1>1, <1>7, <1>8, <1>12, <2>1 DEF HeadMark, Ended
<1>13. CASE p # 0 /\ c.fp.sector # s /\ s \in DOMAIN f.disk
  <2>1. PICK d : d = Load(f, s)
    OBVIOUS
  <2>2. ReadCall(d) /\ d.fp.hiwater = fp.hiwater /\ d.ok = TRUE /\ d.done = FALSE
    BY <1>7, <1>13, <2>1, ReadLoaded, LoadMark
  <2> QED
    BY <1>1, <1>7, <1>8, <1>9, <1>13, <2>1, <2>2
<1> QED
  BY <1>10, <1>11, <1>12, <1>13

LEMMA ReadDirectMark ==
  ASSUME NEW n, Reads(n), NEW c, HeadRead(c, n), HeadMark(c)
  PROVE  DirectMark(ReadDirect(c))
<1>1. CASE c.done
  BY <1>1 DEF ReadDirect, HeadMark, DirectMark
<1>2. CASE ~c.done
  <2>1. /\ ReadCall(c) /\ c.ok /\ c.fp.hiwater = fp.hiwater /\ c.fp.offset % SECSIZ = 0
        /\ SECSIZ \in Nat \ {0} /\ c.left \in Nat
    BY <1>2, CcbAssumption DEF HeadRead, HeadMark, Reading, ReadCall
  <2>2. PICK x \in Int, m \in Nat : x = c.fp.offset /\ m = c.left
    BY <2>1, ReadFields
  <2>3. PICK s \in Int : s = x \div SECSIZ
    BY SectorArithmetic
  <2>4. PICK w : w = m \div SECSIZ
    OBVIOUS
  <2>5. w \in Nat /\ w * SECSIZ \in Nat /\ w * SECSIZ <= m
    BY <2>4, Whole
  <2>6. PICK i : i = Transferred(s, w, DOMAIN c.disk)
    OBVIOUS
  <2>7. i \in 0 .. w
    BY <2>5, <2>6, TransferredStops
  <2>8. i \in Nat /\ i * SECSIZ \in Nat /\ i * SECSIZ <= w * SECSIZ
    BY <2>1, <2>5, <2>7, Multiples
  <2>9. PICK k \in Nat, u \in Nat : k = i * SECSIZ /\ u = w * SECSIZ
    BY <2>5, <2>8
  <2>10. k <= m
    BY <2>5, <2>8, <2>9
  <2>11. PICK b : b = DiskBytes(c.disk, s, i)
    OBVIOUS
  <2>12. PICK g : g = Carried(c, b, k)
    OBVIOUS
  <2>13. PICK t : t = RaiseHiwater(g)
    OBVIOUS
  <2>14. ReadDirect(c) = IF i # w THEN Return(AtEof(t)) ELSE IF t.left = 0 THEN Return(t) ELSE t
    BY <1>2, <2>2, <2>3, <2>4, <2>6, <2>9, <2>11, <2>12, <2>13
       DEF ReadDirect, Carried, AtEof
  <2>15. ReadCall(g)
    BY <2>1, <2>2, <2>10, <2>12, ReadMoved DEF Carried
  <2>16. g.fp.hiwater = fp.hiwater /\ g.fp.offset = x + k /\ g.ok = TRUE /\ g.done = FALSE
    BY <1>2, <2>1, <2>2, <2>12 DEF Carried, ReadCall, FCB
  <2>17. /\ ReadCall(t) /\ t.fp.hiwater = Greatest(fp.hiwater, t.fp.offset)
         /\ t.fp.offset = x + k /\ t.ok = TRUE /\ t.done = FALSE
    BY <2>13, <2>15, <2>16, ReadEnds, RaiseMark
  <2>19. CASE i # w
    <3>1. PICK e : e = AtEof(t)
      OBVIOUS
    <3>2. /\ ReadCall(e) /\ e.fp.hiwater = t.fp.hiwater /\ e.fp.offset = t.fp.offset
          /\ "ATEOF" \in e.fp.flags /\ e.ok = TRUE
      BY <2>17, <3>1, ReadEnds DEF AtEof, ReadCall, FCB
    <3>3. Return(e).fp = e.fp /\ Return(e).ok = TRUE /\ Return(e).done = TRUE
      BY <3>2, ReturnMark
    <3> QED
      BY <2>14, <2>17, <2>19, <3>1, <3>2, <3>3 DEF DirectMark, Ended
  <2>20. CASE i = w /\ t.left = 0
    <3>1. Return(t).fp = t.fp /\ Return(t).left = 0 /\ Return(t).ok = TRUE /\ Return(t).done = TRUE
      BY <2>17, <2>20, ReturnMark
    <3> QED
      BY <2>14, <2>17, <2>20, <3>1 DEF DirectMark, Ended
  <2>21. CASE i = w /\ t.left # 0
    BY <2>14, <2>17, <2>21 DEF DirectMark
  <2> QED
    BY <2>19, <2>20, <2>21
<1> QED
  BY <1>1, <1>2

LEMMA ReadTailMark ==
  ASSUME NEW n, Reads(n), NEW c, DirectRead(c, n), DirectMark(c)
  PROVE  Ended(ReadTail(c, {}))
<1>1. CASE c.done
  BY <1>1 DEF ReadTail, DirectMark
<1>2. CASE ~c.done
  <2>1. /\ ReadCall(c) /\ c.ok /\ SECSIZ \in Nat \ {0} /\ fp.hiwater \in Nat
        /\ c.fp.hiwater = Greatest(fp.hiwater, c.fp.offset)
        /\ c.fp.offset % SECSIZ = 0 /\ c.left > 0 /\ c.left < SECSIZ
    <3>1. fp.hiwater \in Nat
      BY DEF Reads, IInv, TypeOK, FCB
    <3> QED
      BY <1>2, <3>1, CcbAssumption DEF DirectRead, DirectMark, Reading
  <2>2. PICK x \in Int, m \in Nat : x = c.fp.offset /\ m = c.left
    BY <2>1, ReadFields
  <2>3. PICK s : s = x \div SECSIZ
    OBVIOUS
  <2>4. PICK f : f = Flush(c)
    OBVIOUS
  <2>5. /\ ReadCall(f) /\ "DIRTY" \notin f.fp.flags
        /\ f.fp.hiwater = Greatest(fp.hiwater, x) /\ f.fp.offset = x
        /\ f.left = m /\ f.ok = TRUE
    BY <2>1, <2>2, <2>4, ReadFlushed, FlushMark
  <2>6. ReadTail(c, {}) = IF s \notin DOMAIN f.disk THEN Return(AtEof(f))
                          ELSE Return(RaiseHiwater(Take(Load(f, s), 0)))
    BY <1>2, <2>2, <2>3, <2>4 DEF ReadTail, CanFlush, AtEof
  <2>7. CASE s \notin DOMAIN f.disk
    <3>1. PICK e : e = AtEof(f)
      OBVIOUS
    <3>2. /\ ReadCall(e) /\ e.fp.hiwater = f.fp.hiwater /\ e.fp.offset = f.fp.offset
          /\ "ATEOF" \in e.fp.flags /\ e.ok = TRUE
      BY <2>5, <3>1, ReadEnds DEF AtEof, ReadCall, FCB
    <3>3. Return(e).fp = e.fp /\ Return(e).ok = TRUE
      BY <3>2, ReturnMark
    <3> QED
      BY <2>1, <2>2, <2>5, <2>6, <2>7, <3>1, <3>2, <3>3 DEF Ended
  <2>8. CASE s \in DOMAIN f.disk
    <3>1. PICK d : d = Load(f, s)
      OBVIOUS
    <3>2. /\ ReadCall(d) /\ d.fp.hiwater = Greatest(fp.hiwater, x) /\ d.fp.offset = x
          /\ d.left = m /\ d.ok = TRUE
      BY <2>5, <2>8, <3>1, ReadLoaded, LoadMark
    <3>3. PICK t : t = Take(d, 0)
      OBVIOUS
    <3>4. /\ ReadCall(t) /\ t.fp.hiwater = Greatest(fp.hiwater, x) /\ t.fp.offset = x + m
          /\ t.left = 0 /\ t.ok = TRUE
      <4>1. 0 \in 0 .. SECSIZ - 1 /\ Least(m, SECSIZ - 0) = m
        BY <2>1, <2>2 DEF Least
      <4>2. PICK k \in Nat : /\ k = Least(d.left, SECSIZ - 0)
                             /\ t.fp.hiwater = d.fp.hiwater /\ t.fp.offset = d.fp.offset + k
                             /\ t.left = d.left - k /\ t.ok = d.ok
        BY <3>2, <3>3, <4>1, TakeMark
      <4>3. ReadCall(t)
        BY <3>2, <3>3, <4>1, ReadTaken
      <4>4. k = m /\ m - m = 0
        BY <3>2, <4>1, <4>2
      <4> QED
        BY <3>2, <4>2, <4>3, <4>4
    <3>5. PICK u : u = RaiseHiwater(t)
      OBVIOUS
    <3>6. /\ ReadCall(u) /\ u.fp.hiwater = Greatest(Greatest(fp.hiwater, x), x + m)
          /\ u.fp.offset = x + m /\ u.left = 0 /\ u.ok = TRUE
      BY <3>4, <3>5, ReadEnds, RaiseMark
    <3>7. Greatest(Greatest(fp.hiwater, x), x + m) = Greatest(fp.hiwater, x + m)
      BY <2>1 DEF Greatest
    <3>8. Return(u).fp = u.fp /\ Return(u).left = 0 /\ Return(u).ok = TRUE
      BY <3>6, ReturnMark
    <3> QED
      BY <2>6, <2>8, <3>1, <3>3, <3>5, <3>6, <3>7, <3>8 DEF Ended
  <2> QED
    BY <2>7, <2>8
<1> QED
  BY <1>1, <1>2

LEMMA RdBinMark ==
  ASSUME NEW n, Reads(n), seeks => ~Bypasses(n)
  PROVE  Ended(RdBin(n, {}))
<1>1. PICK a, b, d : a = ReadHead(Begin(n), {}) /\ b = ReadDirect(a) /\ d = ReadTail(b, {})
  OBVIOUS
<1>2. RdBin(n, {}) = d
  BY <1>1 DEF RdBin
<1>3. HeadRead(a, n) /\ HeadMark(a)
  BY <1>1, ReadHeadReads, ReadHeadMark
<1>4. DirectRead(b, n) /\ DirectMark(b)
  BY <1>1, <1>3, ReadDirectReads, ReadDirectMark
<1> QED
  BY <1>1, <1>2, <1>4, ReadTailMark

(* A read that begins inside a sector needs that sector. *)
LEMMA ReadInto ==
  ASSUME NEW n, Reads(n), fp.offset % SECSIZ # 0, NEW c, c = RdBin(n, {}), c.ok
  PROVE  fp.offset - 1 \in Offset /\ Shown(fp.offset - 1) # None
<1>1. SECSIZ \in Nat \ {0} /\ SECSIZ * MaxSector \in Nat /\ fp.buffer \in Sector /\ DiskOK(disk)
      /\ None \notin Byte
  BY CcbAssumption DEF Reads, IInv, TypeOK, FCB
<1>2. PICK x \in Int : x = fp.offset /\ x \in Nat /\ x <= SECSIZ * MaxSector
  BY <1>1 DEF Reads, Calm, InFile
<1>3. PICK s \in Int, p \in 0 .. SECSIZ - 1 :
        s = x \div SECSIZ /\ p = x % SECSIZ /\ x = (SECSIZ * s) + p
  BY Place
<1>4. s \in Nat /\ p # 0
  BY <1>2, <1>3, SectorArithmetic
<1>5. PICK i \in Int, r \in 0 .. SECSIZ - 1 : i = x - 1 /\ r = p - 1
  BY <1>1, <1>4
<1>6. i \div SECSIZ = s /\ i % SECSIZ = r
  <2>1. i = (SECSIZ * s) + r
    <3>1. PICK a \in Int : a = SECSIZ * s
      BY <1>1
    <3>2. x = a + p /\ p \in Int
      BY <1>1, <1>3, <3>1
    <3>3. i = a + (p - 1)
      BY <1>2, <1>5, <3>1, <3>2
    <3> QED
      BY <1>5, <3>1, <3>3
  <2> QED
    BY <2>1, PlaceOf
<1>7. i \in Offset
  <2>1. PICK a \in Nat : a = SECSIZ * s
    BY <1>1, <1>4
  <2>2. x >= p /\ p >= 1
    BY <1>1, <1>3, <1>4, <2>1
  <2>3. i \in 0 .. SECSIZ * MaxSector - 1
    BY <1>1, <1>2, <1>5, <2>2
  <2> QED
    BY <2>3 DEF Offset
<1>8. CASE fp.sector = s
  <2>1. ~Behind(fp)
    <3>1. SECSIZ * (s + 1) = (SECSIZ * s) + SECSIZ
      BY <1>1
    <3>2. PICK a \in Int : a = SECSIZ * s
      BY <1>1
    <3>3. ~(x >= SECSIZ * (s + 1))
      BY <1>1, <1>3, <3>1, <3>2
    <3> QED
      BY <1>2, <1>8, <3>3 DEF Behind
  <2>2. Holds(fp, disk)
    BY <1>4, <1>8, <2>1 DEF Reads, Calm, Fresh
  <2>3. Shown(i) = fp.buffer[r]
    BY <1>6, <1>7, <1>8, <2>2, ShownAt DEF Holds
  <2>4. fp.buffer[r] \in Byte
    BY <1>1 DEF Sector
  <2> QED
    BY <1>1, <1>2, <1>5, <1>7, <2>3, <2>4
<1>9. CASE fp.sector # s /\ s \in DOMAIN FlushedDisk(Begin(n))
  <2>1. s \in DOMAIN disk
    BY <1>9 DEF FlushedDisk, PutSector, Begin
  <2>2. Shown(i) = disk[s][r]
    BY <1>6, <1>9, <2>1 DEF Shown
  <2>3. disk[s][r] \in Byte
    BY <1>1, <2>1 DEF DiskOK, Sector
  <2> QED
    BY <1>1, <1>2, <1>5, <1>7, <2>2, <2>3
<1>10. CASE fp.sector # s /\ s \notin DOMAIN FlushedDisk(Begin(n))
  <2>1. PICK b : b = Begin(n)
    OBVIOUS
  <2>2. ReadCall(b) /\ b.fp = fp
    BY <2>1, ReadBegins DEF Reads, Begin
  <2>3. PICK f, a : f = Flush(b) /\ a = Fail(f)
    OBVIOUS
  <2>4. a.done = TRUE /\ a.ok = FALSE
    BY <2>2, <2>3, ReadFlushed, FailMark
  <2>5. ReadHead(b, {}) = a
    BY <1>2, <1>3, <1>4, <1>10, <2>1, <2>2, <2>3 DEF ReadHead, CanFlush
  <2>6. ReadDirect(a) = a /\ ReadTail(a, {}) = a
    BY <2>4 DEF ReadDirect, ReadTail
  <2>7. RdBin(n, {}) = ReadTail(ReadDirect(ReadHead(b, {})), {})
    BY <2>1 DEF RdBin
  <2> QED
    BY <2>4, <2>5, <2>6, <2>7
<1> QED
  BY <1>8, <1>9, <1>10

-----------------------------------------------------------------------------
(* The calls as those of a file of bytes: what each of them must have      *)
(* done.                                                                   *)

SameBytes  == \A i \in Offset : At(fp', disk', i) = Shown(i)
NowEof     == "ATEOF" \in fp'.flags
SameEof    == NowEof <=> "ATEOF" \in fp.flags
SameAccess == "ISREAD" \in fp'.flags <=> "ISREAD" \in fp.flags
SameMark   == fp'.hiwater = fp.hiwater

LEMMA Contents ==
  /\ \A i \in Offset : [j \in Offset |-> Shown(j)][i] = Shown(i)
  /\ \A i \in Offset : ([j \in Offset |-> Shown(j)])'[i] = At(fp', disk', i)
  /\ SameBytes => ([j \in Offset |-> Shown(j)])' = [j \in Offset |-> Shown(j)]
<1>1. ([j \in Offset |-> Shown(j)])' = [j \in Offset |-> At(fp', disk', j)]
  BY DEF Shown, At, Offset
<1> QED
  BY <1>1 DEF SameBytes

LEMMA BytePlaces ==
  /\ BF!Offset = Offset /\ BF!Failure = Failure
  /\ BF!Empty = [i \in Offset |-> None]
BY DEF BF!Offset, Offset, BF!Failure, Failure, BF!Empty

LEMMA ByteReads ==
  ASSUME NEW n \in ReadSizes, fp.offset \in Nat, NEW m, Delivers(m), Len(m) <= n,
         Len(m) < n => "ATEOF" \in fp.flags \/ Missing(fp.offset + Len(m)),
         Answer("read", n, Len(m), m), fp'.offset = fp.offset + Len(m),
         NowEof <=> "ATEOF" \in fp.flags \/ Len(m) < n,
         fp'.hiwater = IF "ATEOF" \in fp.flags THEN fp.hiwater
                       ELSE Greatest(fp.hiwater, fp'.offset),
         SameAccess, SameBytes
  PROVE  BF!Next
<1>1. PICK k : k = Len(m)
  OBVIOUS
<1>2. PICK o \in Nat : o = fp.offset
  OBVIOUS
<1>3. n \in Nat /\ k \in 0 .. n /\ m \in Seq(Byte)
  BY <1>1, CcbAssumption DEF Delivers
<1>4. \A i \in o .. o + k - 1 : i \in Offset /\ Shown(i) # None
  <2>1. SUFFICES ASSUME NEW i \in o .. o + k - 1 PROVE i \in Offset /\ Shown(i) # None
    OBVIOUS
  <2>2. PICK j \in 1 .. k : i = (o + j) - 1
    <3>1. (i - o) + 1 \in 1 .. k /\ i = (o + ((i - o) + 1)) - 1
      BY <1>3
    <3> QED
      BY <3>1
  <2>3. i \in Offset /\ m[j] = Shown(i)
    BY <1>1, <1>2, <2>2 DEF Delivers
  <2>4. m[j] \in Byte
    BY <1>1, <1>3, <2>2
  <2> QED
    BY <2>3, <2>4, CcbAssumption
<1>5. m = [j \in 1 .. k |-> [i \in Offset |-> Shown(i)][o + j - 1]]
  <2>1. m = [j \in 1 .. k |-> m[j]]
    BY <1>1, <1>3
  <2>2. \A j \in 1 .. k : m[j] = [i \in Offset |-> Shown(i)][o + j - 1]
    <3>1. \A j \in 1 .. k : (o + j) - 1 = o + j - 1
      BY <1>3
    <3> QED
      BY <1>1, <1>2, <3>1 DEF Delivers
  <2> QED
    BY <2>1, <2>2
<1>6. BF!Read(n)
  <2>1. /\ fp.offset >= 0
        /\ \A i \in fp.offset .. fp.offset + k - 1 :
             i \in BF!Offset /\ [j \in Offset |-> Shown(j)][i] # None
    BY <1>2, <1>4 DEF BF!Offset, Offset
  <2>2. k < n => \/ "ATEOF" \in fp.flags \/ fp.offset + k \notin BF!Offset
                 \/ [j \in Offset |-> Shown(j)][fp.offset + k] = None
    BY <1>1 DEF Missing, BF!Offset, Offset
  <2>3. io' = BF!Call("read", n, k, [j \in 1 .. k |-> [i \in Offset |-> Shown(i)][fp.offset + j - 1]])
    BY <1>1, <1>2, <1>5 DEF Answer, BF!Call
  <2>4. fp'.offset = fp.offset + k
    BY <1>1
  <2>5. ("ATEOF" \in fp'.flags) = ("ATEOF" \in fp.flags \/ k < n)
    BY <1>1 DEF NowEof
  <2>6. fp'.hiwater = IF "ATEOF" \in fp.flags THEN fp.hiwater
                      ELSE BF!Highest(fp.hiwater, fp'.offset)
    BY DEF BF!Highest, Greatest
  <2>7. ("ISREAD" \in fp'.flags) = ("ISREAD" \in fp.flags)
    BY DEF SameAccess
  <2> QED
    BY <1>3, <2>1, <2>2, <2>3, <2>4, <2>5, <2>6, <2>7, Contents DEF BF!Read
<1> QED
  BY <1>6 DEF BF!Next

LEMMA ByteReadFails ==
  ASSUME NEW n \in ReadSizes, Missing(fp.offset), Answer("read", n, Failure, <<>>),
         fp'.offset = fp.offset, SameEof, SameMark, SameAccess, SameBytes
  PROVE  BF!Next
<1>1. fp.offset \notin BF!Offset \/ [j \in Offset |-> Shown(j)][fp.offset] = None
  BY DEF Missing, BF!Offset, Offset
<1>2. BF!ReadFails(n)
  BY <1>1, Contents
     DEF BF!ReadFails, BF!Call, BF!Failure, Answer, Failure, SameEof, NowEof, SameMark, SameAccess
<1> QED
  BY <1>2 DEF BF!Next

(* The bytes outside the range of a write. *)
Untouched(o, n) == \A i \in Offset \ (o .. o + n - 1) :
  \/ At(fp', disk', i) = Shown(i)
  \/ Shown(i) = None /\ At(fp', disk', i) \in Byte

LEMMA ByteOnlyIn ==
  ASSUME NEW n, Untouched(fp.offset, n)
  PROVE  BF!OnlyIn(fp.offset .. fp.offset + n - 1)
BY Contents, BytePlaces DEF BF!OnlyIn, Untouched

(* The first k bytes of the data are in the file.                          *)
LEMMA ByteReplaced ==
  ASSUME NEW data, NEW k \in Nat, fp.offset \in Nat, fp'.offset = fp.offset + k,
         Untouched(fp.offset, k),
         \A j \in 1 .. k : LET i == (fp.offset + j) - 1
                           IN  i \in Offset /\ At(fp', disk', i) = data[j]
  PROVE  BF!Replaced(data, k)
<1>1. BF!OnlyIn(fp.offset .. fp.offset + k - 1)
  BY ByteOnlyIn
<1>2. \A j \in 1 .. k : ([i \in Offset |-> Shown(i)])'[fp.offset + j - 1] = data[j]
  <2>1. \A j \in 1 .. k : (fp.offset + j) - 1 = fp.offset + j - 1
    OBVIOUS
  <2> QED
    BY <2>1, Contents
<1> QED
  BY <1>1, <1>2 DEF BF!Replaced

LEMMA ByteWrites ==
  ASSUME NEW data \in Data, data \in Seq(Byte), fp.offset \in Nat, Fits(Len(data)),
         data = <<>> \/ "ISREAD" \notin fp.flags,
         Answer("write", Len(data), Len(data), data), fp'.offset = fp.offset + Len(data),
         fp'.hiwater = IF data = <<>> THEN fp.hiwater ELSE Greatest(fp.hiwater, fp'.offset),
         SameEof, SameAccess,
         Untouched(fp.offset, Len(data)),
         \A j \in 1 .. Len(data) : LET i == (fp.offset + j) - 1
                                   IN  i \in Offset /\ At(fp', disk', i) = data[j]
  PROVE  BF!Next
<1>1. io' = BF!Call("write", Len(data), Len(data), data)
  BY DEF Answer, BF!Call
<1>2. fp.offset + Len(data) <= SECSIZ * MaxSector
  BY DEF Fits
<1>3. BF!Replaced(data, Len(data))
  BY ByteReplaced
<1>4. fp'.hiwater = IF data = <<>> THEN fp.hiwater ELSE BF!Highest(fp.hiwater, fp'.offset)
  BY DEF BF!Highest, Greatest
<1>5. BF!Write(data)
  BY <1>1, <1>2, <1>3, <1>4 DEF BF!Write, SameEof, NowEof, SameAccess
<1> QED
  BY <1>5 DEF BF!Next

LEMMA ByteRefused ==
  ASSUME NEW data \in Data, data # <<>>, "ISREAD" \in fp.flags,
         Answer("write", Len(data), Failure, data),
         fp'.offset = fp.offset, SameEof, SameMark, SameAccess, SameBytes
  PROVE  BF!Next
<1>1. BF!WriteRefused(data)
  BY Contents
     DEF BF!WriteRefused, BF!Call, BF!Failure, Answer, Failure, SameEof, NowEof, SameMark, SameAccess
<1> QED
  BY <1>1 DEF BF!Next

LEMMA ByteWriteFails ==
  ASSUME NEW data \in Data, fp.offset \in Nat, "ISREAD" \notin fp.flags,
         Answer("write", Len(data), Failure, data),
         NEW k \in 0 .. Len(data) - 1, fp'.offset = fp.offset + k,
         fp.offset + k \in Offset, fp.offset + k < fp.hiwater, Shown(fp.offset + k) = None,
         SameEof, SameMark, SameAccess,
         Untouched(fp.offset, k),
         \A j \in 1 .. k : LET i == (fp.offset + j) - 1
                           IN  i \in Offset /\ At(fp', disk', i) = data[j]
  PROVE  BF!Next
<1>1. io' = BF!Call("write", Len(data), BF!Failure, data)
  BY BytePlaces DEF Answer, BF!Call
<1>2. fp.offset + k \in BF!Offset /\ [i \in Offset |-> Shown(i)][fp.offset + k] = None
  BY BytePlaces
<1>3. BF!Replaced(data, k)
  <2>1. k \in Nat
    OBVIOUS
  <2> QED
    BY <2>1, ByteReplaced
<1>4. BF!WriteFails(data)
  BY <1>1, <1>2, <1>3 DEF BF!WriteFails, SameEof, NowEof, SameMark, SameAccess
<1> QED
  BY <1>4 DEF BF!Next

LEMMA ByteSeeks ==
  ASSUME NEW seek \in Seeks, NEW base \in BF!Bases(seek[2]), fp'.offset = base + seek[1],
         fp'.hiwater = IF seek[2] = 2 THEN base ELSE fp.hiwater,
         fp'.offset \in 0 .. SECSIZ * MaxSector, ~NowEof, SameAccess, SameBytes,
         Answer("lseek", 0, fp'.offset, <<>>)
  PROVE  BF!Next
<1>1. BF!Seek(seek[1], seek[2])
  BY Contents DEF BF!Seek, BF!Call, Answer, NowEof, SameAccess
<1> QED
  BY <1>1 DEF BF!Next

LEMMA ByteSeekFails ==
  ASSUME NEW seek \in Seeks, seek[2] \notin Senses,
         fp'.offset = fp.offset, SameEof, SameMark, SameAccess, SameBytes,
         Answer("lseek", 0, Failure, <<>>)
  PROVE  BF!Next
<1>1. BF!SeekFails(seek[2])
  BY Contents
     DEF BF!SeekFails, BF!Call, BF!Failure, Answer, Failure, SameEof, NowEof, SameMark, SameAccess,
         Senses
<1> QED
  BY <1>1 DEF BF!Next

(* There is one place where the last byte ends. *)
LEMMA ByteEnd ==
  ASSUME NEW e \in 0 .. SECSIZ * MaxSector,
         \A i \in Offset : i >= e => Shown(i) = None,
         e = 0 \/ (e - 1 \in Offset /\ Shown(e - 1) # None)
  PROVE  BF!End = e
<1> DEFINE bytes == [i \in Offset |-> Shown(i)]
           IsEnd(x) == /\ \A i \in Offset : i >= x => bytes[i] = None
                       /\ x = 0 \/ bytes[x - 1] # None
<1>1. BF!End = CHOOSE x \in 0 .. SECSIZ * MaxSector : IsEnd(x)
  BY DEF BF!End, BF!Offset, Offset
<1>2. IsEnd(e)
  OBVIOUS
<1>3. SECSIZ * MaxSector \in Nat
  BY CcbAssumption
<1>4. ASSUME NEW x \in 0 .. SECSIZ * MaxSector, IsEnd(x) PROVE x = e
  <2>1. CASE x < e
    <3>1. e - 1 \in Offset /\ e - 1 >= x /\ bytes[e - 1] # None
      BY <1>3, <2>1
    <3> QED
      BY <1>4, <3>1
  <2>2. CASE x > e
    <3>1. x - 1 \in Offset /\ x - 1 >= e
      BY <1>3, <2>2 DEF Offset
    <3>2. bytes[x - 1] = None /\ x # 0
      BY <1>2, <1>3, <2>2, <3>1
    <3> QED
      BY <1>4, <3>2
  <2> QED
    BY <1>3, <2>1, <2>2
<1> HIDE DEF IsEnd
<1> QED
  BY <1>1, <1>2, <1>4

LEMMA ByteOpens ==
  ASSUME fp'.offset = 0, fp'.hiwater = BF!End, ~NowEof, SameBytes,
         Answer("open", 0, 0, <<>>)
  PROVE  BF!Next
<1>1. ("ISREAD" \in fp'.flags) \in BOOLEAN
  OBVIOUS
<1>2. BF!Open
  BY <1>1, Contents DEF BF!Open, BF!Call, Answer, NowEof
<1> QED
  BY <1>2 DEF BF!Next

LEMMA ByteCloses ==
  ASSUME fp'.offset = 0, fp'.hiwater = 0, ~NowEof, "ISREAD" \notin fp'.flags, SameBytes,
         Answer("close", 0, 0, <<>>)
  PROVE  BF!Next
<1>1. BF!Close
  BY Contents DEF BF!Close, BF!Call, Answer, NowEof
<1> QED
  BY <1>1 DEF BF!Next

LEMMA ByteCreates ==
  ASSUME fp'.offset = 0, fp'.hiwater = 0, ~NowEof, "ISREAD" \notin fp'.flags,
         \A i \in Offset : At(fp', disk', i) = None,
         Answer("creat", 0, 0, <<>>)
  PROVE  BF!Next
<1>1. ([i \in Offset |-> Shown(i)])' = [i \in Offset |-> None]
  BY DEF Shown, At, Offset
<1>2. BF!Create
  BY <1>1, BytePlaces DEF BF!Create, BF!Call, Answer, NowEof
<1> QED
  BY <1>2 DEF BF!Next

-----------------------------------------------------------------------------
(* The invariant of the two kinds of programs. *)

(* Every byte that is there lies below the high water mark. *)
Marked(f, d) ==
  "OPENED" \in f.flags =>
    \A i \in Offset : At(f, d, i) # None => i \div SECSIZ <= (f.hiwater - 1) \div SECSIZ

(* A mark in the middle of a sector stands behind a byte that is there. *)
MarkEnds(f, d) ==
  f.hiwater % SECSIZ # 0 => f.hiwater - 1 \in Offset /\ At(f, d, f.hiwater - 1) # None

TwoInv == IInv /\ Calm(fp, disk) /\ Marked(fp, disk) /\ MarkEnds(fp, disk)

TwoOK == TwoInv' /\ BF!Next

LEMMA TwoTypes ==
  ASSUME TwoInv
  PROVE  /\ fp \in FCB /\ fp.offset \in Nat /\ fp.hiwater \in Nat /\ fp.sector \in Int
         /\ fp.sector < MaxSector /\ fp.offset <= SECSIZ * MaxSector
         /\ SECSIZ \in Nat \ {0} /\ MaxSector \in Nat /\ SECSIZ * MaxSector \in Nat
         /\ DiskOK(disk) /\ Bounded(disk) /\ fp.buffer \in Sector
         /\ fp.flags \subseteq Flag
<1>1. SECSIZ \in Nat \ {0} /\ MaxSector \in Nat /\ SECSIZ * MaxSector \in Nat
  BY CcbAssumption
<1>2. fp \in FCB /\ DiskOK(disk) /\ Bounded(disk)
  BY DEF TwoInv, IInv, TypeOK
<1>3. /\ fp.hiwater \in Nat /\ fp.sector \in Int /\ fp.buffer \in Sector /\ fp.flags \subseteq Flag
  BY <1>2 DEF FCB
<1>4. /\ fp.offset \in Nat /\ fp.sector < MaxSector /\ fp.offset <= SECSIZ * MaxSector
  BY <1>1 DEF TwoInv, Calm, InFile
<1> QED
  BY <1>1, <1>2, <1>3, <1>4

(* The first byte of a sector of the file. *)
LEMMA FirstByte ==
  ASSUME NEW s \in Sectors
  PROVE  \E i \in Offset : i \div SECSIZ = s /\ i % SECSIZ \in 0 .. SECSIZ - 1
<1>1. SECSIZ \in Nat \ {0} /\ MaxSector \in Nat /\ s \in Nat
  BY CcbAssumption DEF Sectors
<1>2. PICK i \in Int : i = (SECSIZ * s) + 0 /\ i >= 0
  BY <1>1
<1>3. i \div SECSIZ = s /\ i % SECSIZ = 0
  <2>1. 0 \in 0 .. SECSIZ - 1
    BY <1>1
  <2> QED
    BY <1>1, <1>2, <2>1, PlaceOf
<1>4. i \in Offset
  BY <1>2, <1>3, InOffset
<1> QED
  BY <1>1, <1>3, <1>4

(* A dirty buffer is there, so the mark covers it.                         *)
LEMMA TwoCovered ==
  ASSUME TwoInv
  PROVE  Covered(fp)
<1> SUFFICES ASSUME "DIRTY" \in fp.flags
             PROVE  fp.sector <= (fp.hiwater - 1) \div SECSIZ
  BY DEF Covered
<1>1. "OPENED" \in fp.flags /\ fp.sector \in Sectors
  BY TwoTypes, CcbAssumption DEF TwoInv, IInv, DirtyOwned, IsOpen, Sectors
<1>2. PICK i \in Offset : i \div SECSIZ = fp.sector /\ i % SECSIZ \in 0 .. SECSIZ - 1
  BY <1>1, FirstByte
<1>3. At(fp, disk, i) = fp.buffer[i % SECSIZ] /\ fp.buffer[i % SECSIZ] \in Byte
  BY <1>2, TwoTypes DEF At, Sector
<1>4. At(fp, disk, i) # None
  BY <1>3, CcbAssumption
<1> QED
  BY <1>1, <1>2, <1>4 DEF TwoInv, Marked

LEMMA CalmNext ==
  ASSUME seeks' = seeks, Calm(fp', disk')
  PROVE  (Calm(fp, disk))'
BY DEF Calm, InFile, Fresh, Holds, Behind, Trails, At, Offset, Sectors

LEMMA TwoNextInv ==
  ASSUME seeks' = seeks, IInv', Calm(fp', disk'), Marked(fp', disk'), MarkEnds(fp', disk')
  PROVE  TwoInv'
<1>1. (Calm(fp, disk))'
  BY CalmNext
<1>2. (MarkEnds(fp, disk))'
  BY DEF MarkEnds, At, Offset
<1> QED
  BY <1>1, <1>2 DEF TwoInv, Marked, At, Offset

(* The mark stays, and no byte is lost. *)
LEMMA MarkStays ==
  ASSUME NEW f, NEW d, MarkEnds(f, d), NEW g, NEW e, g.hiwater = f.hiwater,
         \A i \in Offset : At(f, d, i) # None => At(g, e, i) # None
  PROVE  MarkEnds(g, e)
BY DEF MarkEnds

LEMMA NoMark == 0 % SECSIZ = 0
<1>1. PICK q \in Int, r \in 0 .. SECSIZ - 1, x \in Int : q = 0 /\ r = 0 /\ x = (SECSIZ * q) + r
  BY CcbAssumption
<1>2. x = 0
  BY <1>1, CcbAssumption
<1> QED
  BY <1>1, <1>2, PlaceOf

(* The same bytes, below a mark that is no lower. *)
LEMMA MarkedOn ==
  ASSUME TwoInv, SameBytes, "OPENED" \in fp.flags, fp'.hiwater \in Nat, fp'.hiwater >= fp.hiwater
  PROVE  Marked(fp', disk')
<1> SUFFICES ASSUME NEW i \in Offset, At(fp', disk', i) # None
             PROVE  i \div SECSIZ <= (fp'.hiwater - 1) \div SECSIZ
  BY DEF Marked
<1>1. At(fp, disk, i) # None
  BY ShownAt DEF SameBytes
<1>2. i \div SECSIZ <= (fp.hiwater - 1) \div SECSIZ
  BY <1>1 DEF TwoInv, Marked
<1>3. PICK x \in Int, y \in Int : x = fp.hiwater - 1 /\ y = fp'.hiwater - 1 /\ x <= y
  BY TwoTypes
<1>4. x \div SECSIZ <= y \div SECSIZ
  BY <1>3, Order
<1>5. x \div SECSIZ \in Int /\ y \div SECSIZ \in Int /\ i \div SECSIZ \in Int
  <2>1. i \in Int
    BY OffsetNat
  <2> QED
    BY <2>1, SectorArithmetic
<1> QED
  BY <1>2, <1>3, <1>4, <1>5

LEMMA StillTwo ==
  ASSUME TwoInv, UNCHANGED <<fp, disk, seeks>>
  PROVE  TwoInv' /\ SameBytes /\ SameEof /\ SameMark /\ SameAccess
<1>1. TwoInv'
  BY DEF TwoInv, IInv, TypeOK, FCB, Flag, Sector, DiskOK, DirtyOwned, IsOpen, Bounded, Calm, InFile,
         Fresh, Holds, Behind, Trails, At, Offset, Sectors, Marked, MarkEnds
<1> QED
  BY <1>1, ShownAt DEF SameBytes, NowEof, SameEof, SameMark, SameAccess

-----------------------------------------------------------------------------
(* The calls. *)

LEMMA TwoRead ==
  ASSUME TwoInv, NEW n \in ReadSizes, seeks => ~Bypasses(n), Read(n, {}), UNCHANGED seeks
  PROVE  TwoOK
<1>1. n \in Nat /\ "OPENED" \in fp.flags
  BY CcbAssumption DEF Read, IsOpen
<1>2. CASE "ATEOF" \in fp.flags
  <2>1. Answer("read", n, 0, <<>>) /\ UNCHANGED <<fp, disk, seeks>>
    BY <1>2 DEF Read
  <2>2. TwoInv' /\ SameBytes /\ SameEof /\ SameMark /\ SameAccess
    BY <2>1, StillTwo
  <2>3. PICK m : m = <<>>
    OBVIOUS
  <2>4. Delivers(m) /\ Len(m) = 0
    BY <2>3 DEF Delivers
  <2>5. BF!Next
    <3>1. Answer("read", n, Len(m), m) /\ fp'.offset = fp.offset + Len(m) /\ Len(m) <= n
      BY <1>1, <2>1, <2>3, <2>4, TwoTypes
    <3>2. NowEof <=> "ATEOF" \in fp.flags \/ Len(m) < n
      BY <1>2, <2>2 DEF SameEof
    <3>3. fp'.hiwater = IF "ATEOF" \in fp.flags THEN fp.hiwater
                        ELSE Greatest(fp.hiwater, fp'.offset)
      BY <1>2, <2>2 DEF SameMark
    <3> QED
      BY <1>2, <2>2, <2>4, <3>1, <3>2, <3>3, TwoTypes, ByteReads
  <2> QED
    BY <2>2, <2>5 DEF TwoOK
<1>3. CASE "ATEOF" \notin fp.flags
  <2>1. PICK c : /\ c = RdBin(n, {}) /\ fp' = c.fp /\ disk' = c.disk
                 /\ Answer("read", n, IF c.ok THEN Len(c.moved) ELSE Failure,
                                      IF c.ok THEN c.moved ELSE <<>>)
    BY <1>3 DEF Read
  <2>2. Reads(n)
    BY <1>1, <1>3, TwoCovered DEF Reads, TwoInv
  <2>3. Reading(c, n) /\ c.done /\ Ended(c)
    BY <2>1, <2>2, RdBinReads, RdBinMark
  <2>4. /\ ReadCall(c) /\ Same(c) /\ Calm(c.fp, c.disk) /\ Count(c, n) /\ Ending(c)
    BY <2>3 DEF Reading
  <2>5. IInv'
    BY ReadStep DEF TwoInv, StepOK
  <2>6. SameBytes
    BY <2>1, <2>4, OffsetNat DEF SameBytes, Same
  <2>7. SameAccess
    <3>1. Access(c.fp) = Access(fp)
      BY <2>4 DEF ReadCall, Sound
    <3> QED
      BY <2>1, <3>1 DEF Access, SameAccess
  <2>8. PICK m : m = c.moved
    OBVIOUS
  <2>9. /\ Delivers(m) /\ Len(m) \in Nat /\ c.left \in Nat
        /\ fp'.offset = fp.offset + Len(m) /\ Len(m) + c.left = n
    BY <2>1, <2>4, <2>8, ReadFields DEF Count, Delivers
  <2>10. MarkEnds(fp', disk')
    <3>1. PICK g : g = fp'
      OBVIOUS
    <3>2. CASE g.hiwater = fp.hiwater
      <4>1. \A i \in Offset : At(fp, disk, i) # None => At(g, disk', i) # None
        BY <2>6, <3>1, ShownAt DEF SameBytes
      <4> QED
        BY <3>1, <3>2, <4>1, MarkStays DEF TwoInv
    <3>3. CASE g.hiwater # fp.hiwater
      <4>1. c.ok /\ g.hiwater = g.offset /\ g.offset > fp.hiwater
        BY <2>1, <2>3, <2>9, <3>1, <3>3, TwoTypes DEF Ended, Greatest
      <4>2. PICK y \in Nat, k \in Nat : y = g.offset /\ k = Len(m) /\ y = fp.offset + k /\ y > 0
        <5>1. PICK o \in Nat, k \in Nat, h \in Nat :
                o = fp.offset /\ k = Len(m) /\ h = fp.hiwater
          BY <2>9, TwoTypes
        <5>2. g.offset = o + k /\ g.offset > h
          BY <2>9, <3>1, <4>1, <5>1
        <5>3. PICK y \in Nat : y = g.offset
          BY <5>1, <5>2
        <5> QED
          BY <5>1, <5>2, <5>3
      <4>3. CASE k = 0
        <5>1. fp.offset = y
          BY <4>2, <4>3, TwoTypes
        <5>2. y % SECSIZ # 0 => y - 1 \in Offset /\ Shown(y - 1) # None
          BY <2>1, <2>2, <4>1, <5>1, ReadInto
        <5> QED
          BY <2>6, <3>1, <4>1, <4>2, <5>2 DEF MarkEnds, SameBytes
      <4>4. CASE k > 0
        <5>1. (fp.offset + k) - 1 = y - 1 /\ k \in 1 .. Len(m)
          BY <4>2, <4>4, TwoTypes
        <5>2. y - 1 \in Offset /\ m[k] = Shown(y - 1) /\ m[k] \in Byte
          BY <2>9, <5>1 DEF Delivers
        <5>3. Shown(y - 1) # None
          BY <5>2, CcbAssumption
        <5> QED
          BY <2>6, <3>1, <4>1, <4>2, <5>2, <5>3 DEF MarkEnds, SameBytes
      <4> QED
        BY <4>2, <4>3, <4>4
    <3> QED
      BY <3>2, <3>3
  <2>11. TwoInv'
    <3>1. fp'.hiwater \in Nat /\ fp'.hiwater >= fp.hiwater
      BY <2>1, <2>4, ReadFields DEF Count
    <3>2. Marked(fp', disk')
      BY <1>1, <2>6, <3>1, MarkedOn
    <3> QED
      BY <2>1, <2>4, <2>5, <2>10, <3>2, TwoNextInv
  <2>12. CASE c.ok
    <3>1. Answer("read", n, Len(m), m)
      BY <2>1, <2>8, <2>12
    <3>2. Len(m) <= n /\ (Len(m) < n <=> c.left > 0)
      BY <1>1, <2>9
    <3>3. Len(m) < n => Missing(fp.offset + Len(m))
      BY <2>1, <2>4, <2>9, <2>12, <3>2 DEF Ending
    <3>4. NowEof <=> "ATEOF" \in fp.flags \/ Len(m) < n
      BY <1>3, <2>1, <2>3, <2>4, <2>12, <3>2 DEF Ending, Ended, NowEof
    <3>5. fp'.hiwater = IF "ATEOF" \in fp.flags THEN fp.hiwater
                        ELSE Greatest(fp.hiwater, fp'.offset)
      BY <1>3, <2>1, <2>3, <2>12 DEF Ended
    <3>6. BF!Next
      BY <2>6, <2>7, <2>9, <3>1, <3>2, <3>3, <3>4, <3>5, TwoTypes, ByteReads
    <3> QED
      BY <2>11, <3>6 DEF TwoOK
  <2>13. CASE ~c.ok
    <3>1. Answer("read", n, Failure, <<>>)
      BY <2>1, <2>13
    <3>2. Missing(fp.offset) /\ m = <<>> /\ SameEof
      BY <1>3, <2>1, <2>4, <2>8, <2>13 DEF Ending, NowEof, SameEof
    <3>3. fp'.offset = fp.offset
      BY <2>9, <3>2, TwoTypes
    <3>4. SameMark
      BY <2>1, <2>3, <2>13 DEF Ended, SameMark
    <3>5. BF!Next
      BY <2>6, <2>7, <3>1, <3>2, <3>3, <3>4, ByteReadFails
    <3> QED
      BY <2>11, <3>5 DEF TwoOK
  <2> QED
    BY <2>12, <2>13
<1> QED
  BY <1>2, <1>3

(* What BDOS says the size is covers the disk. *)
LEMMA SizeCovers ==
  ASSUME NEW f, "DIRTY" \notin f.flags, NEW d, DiskOK(d), Bounded(d),
         NEW i, At(f, d, i) # None
  PROVE  i \div SECSIZ <= (FileSize(f, d) - 1) \div SECSIZ
<1>1. PICK s : s = i \div SECSIZ /\ s \in DOMAIN d
  BY DEF At
<1>2. DOMAIN d # {} /\ DOMAIN d \subseteq Nat
  BY <1>1 DEF DiskOK
<1>3. PICK l \in Nat : l = LastSector(d) /\ s <= l
  BY <1>1, <1>2, LastSectorType
<1>4. FileSize(f, d) = SECSIZ * (1 + l)
  BY <1>2, <1>3 DEF FileSize
<1>5. SECSIZ \in Nat \ {0}
  BY CcbAssumption
<1>6. PICK r \in 0 .. SECSIZ - 1 : r = SECSIZ - 1
  BY <1>5
<1>7. PICK x \in Int : x = (SECSIZ * l) + r
  BY <1>5
<1>8. x = FileSize(f, d) - 1
  <2>1. SECSIZ * (1 + l) = SECSIZ + (SECSIZ * l)
    BY <1>5
  <2>2. PICK y \in Int : y = SECSIZ * l
    BY <1>5
  <2> QED
    BY <1>4, <1>5, <1>6, <1>7, <2>1, <2>2
<1>9. x \div SECSIZ = l
  BY <1>6, <1>7, PlaceOf
<1> QED
  BY <1>1, <1>3, <1>8, <1>9

(* It is where the last byte of the file ends. *)
LEMMA SizeIsEnd ==
  ASSUME TwoInv, "DIRTY" \notin fp.flags, NEW f, "DIRTY" \notin f.flags
  PROVE  FileSize(f, disk) = BF!End /\ FileSize(f, disk) % SECSIZ = 0
<1>1. SECSIZ \in Nat \ {0} /\ MaxSector \in Nat /\ SECSIZ * MaxSector \in Nat
  BY TwoTypes
<1>2. CASE DOMAIN disk = {}
  <2>1. PICK e \in 0 .. SECSIZ * MaxSector : e = 0
    BY <1>1
  <2>2. \A i \in Offset : Shown(i) = None
    BY <1>2 DEF Shown
  <2>3. BF!End = e
    BY <2>1, <2>2, ByteEnd
  <2> QED
    BY <1>2, <2>1, <2>3, NoMark DEF FileSize
<1>3. CASE DOMAIN disk # {}
  <2>1. DOMAIN disk \subseteq Sectors /\ DOMAIN disk \subseteq Nat /\ DiskOK(disk) /\ Bounded(disk)
    BY TwoTypes DEF TwoInv, Calm, InFile, DiskOK
  <2>2. PICK l \in Nat : l = LastSector(disk) /\ l \in DOMAIN disk /\ \A t \in DOMAIN disk : t <= l
    BY <1>3, <2>1, LastSectorType
  <2>3. PICK n \in Nat : n = 1 + l /\ n <= MaxSector
    BY <1>1, <2>1, <2>2 DEF Sectors
  <2>4. PICK e \in Nat : e = SECSIZ * n
    BY <1>1
  <2>5. FileSize(f, disk) = e
    BY <1>3, <2>2, <2>3, <2>4 DEF FileSize
  <2>6. e % SECSIZ = 0
    <3>1. 0 \in Int
      OBVIOUS
    <3> QED
      BY <2>4, <3>1, InSectors
  <2>7. e \in 0 .. SECSIZ * MaxSector
    <3>1. n * SECSIZ <= MaxSector * SECSIZ
      BY <1>1, <2>3, Multiples
    <3> QED
      BY <1>1, <2>4, <3>1
  <2>8. ASSUME NEW i \in Offset, i >= e PROVE Shown(i) = None
    <3>1. i \in Int /\ ~(i < e)
      BY <2>4, <2>8, OffsetNat
    <3>2. ~(i \div SECSIZ < n)
      BY <2>4, <3>1, InSectors
    <3>3. i \div SECSIZ \notin DOMAIN disk
      <4>1. i \div SECSIZ \in Int
        BY <3>1, SectorArithmetic
      <4> QED
        BY <2>2, <2>3, <3>2, <4>1
    <3> QED
      BY <3>3 DEF Shown
  <2>9. e - 1 \in Offset /\ Shown(e - 1) # None
    <3>1. PICK x \in Int, b \in Int : x = e - 1 /\ b = SECSIZ * l
      BY <1>1
    <3>2. e = b + SECSIZ /\ b >= 0
      <4>1. SECSIZ * (1 + l) = SECSIZ + (SECSIZ * l)
        BY <1>1
      <4>2. SECSIZ * l >= 0
        BY <1>1
      <4> QED
        BY <1>1, <2>3, <2>4, <3>1, <4>1, <4>2
    <3>3. x < e /\ ~(x < b) /\ x \in 0 .. SECSIZ * MaxSector - 1
      BY <1>1, <2>7, <3>1, <3>2
    <3>4. x \div SECSIZ < n /\ ~(x \div SECSIZ < l)
      BY <2>4, <3>1, <3>3, InSectors
    <3>5. x \div SECSIZ = l /\ x % SECSIZ \in 0 .. SECSIZ - 1
      <4>1. x \div SECSIZ \in Int /\ x % SECSIZ \in 0 .. SECSIZ - 1
        BY SectorArithmetic
      <4> QED
        BY <2>3, <3>4, <4>1
    <3>6. Shown(x) = disk[l][x % SECSIZ] /\ disk[l][x % SECSIZ] \in Byte
      BY <2>1, <2>2, <3>5 DEF Shown, DiskOK, Sector
    <3> QED
      BY <3>1, <3>3, <3>6, CcbAssumption DEF Offset
  <2>10. BF!End = e
    BY <2>7, <2>8, <2>9, ByteEnd
  <2> QED
    BY <2>5, <2>6, <2>10
<1> QED
  BY <1>2, <1>3

(* What lseek counts from. *)
SeekBase(f, d, sense) == CASE sense = 0 -> 0
                           [] sense = 1 -> f.offset
                           [] sense = 2 -> FileSize(f, d)

LEMMA SeekFields ==
  ASSUME NEW f \in FCB, NEW d, DiskOK(d), Bounded(d), NEW offs \in Int, NEW sense \in Senses,
         NEW g, g = Seeked(f, d, offs, sense)
  PROVE  /\ g \in FCB /\ Alike(g, f) /\ "ATEOF" \notin g.flags
         /\ "OPENED" \in g.flags <=> "OPENED" \in f.flags
         /\ "ISREAD" \in g.flags <=> "ISREAD" \in f.flags
         /\ g.hiwater = IF sense = 2 THEN FileSize(f, d) ELSE f.hiwater
         /\ "DIRTY" \in f.flags => g.hiwater = f.hiwater
         /\ g.offset >= 0 => g.offset = SeekBase(f, d, sense) + offs
         /\ sense = 0 /\ offs = 0 => g.offset = 0
<1>1. g \in FCB /\ Alike(g, f) /\ ("DIRTY" \in f.flags => g.hiwater = f.hiwater)
  BY SeekAlike
<1>2. FileSize(f, d) \in Nat
  BY FileSizeType
<1>3. PICK h : h = IF sense = 2 THEN Filesz(f, d) ELSE f
  OBVIOUS
<1>4. /\ h \in FCB /\ h.flags \ {"ATEOF"} = f.flags \ {"ATEOF"}
      /\ h.hiwater = IF sense = 2 THEN FileSize(f, d) ELSE f.hiwater
  BY <1>2, <1>3 DEF Filesz, FCB, Flag
<1>5. g = MovedTo(h, Target(h, offs, sense))
  BY <1>3 DEF Seeked
<1>6. g.flags = h.flags \ {"ATEOF"} /\ g.hiwater = h.hiwater
      /\ g.offset = IF Target(h, offs, sense) < 0 THEN -1 ELSE Target(h, offs, sense)
  BY <1>4, <1>5 DEF MovedTo, FCB
<1>7. sense = 0 /\ offs = 0 => g.offset = 0
  BY <1>6 DEF Target
<1>8. /\ "ATEOF" \notin g.flags
      /\ "OPENED" \in g.flags <=> "OPENED" \in f.flags
      /\ "ISREAD" \in g.flags <=> "ISREAD" \in f.flags
  BY <1>4, <1>6
<1>9. Target(h, offs, sense) = SeekBase(f, d, sense) + offs
  <2>1. sense = 0 => Target(h, offs, sense) = 0 + offs
    BY DEF Target
  <2>2. sense = 1 => h = f
    BY <1>3
  <2> QED
    BY <1>4, <2>1, <2>2 DEF Target, SeekBase, Senses
<1>10. g.offset >= 0 => g.offset = SeekBase(f, d, sense) + offs
  <2>1. CASE Target(h, offs, sense) < 0
    BY <1>6, <2>1
  <2>2. CASE ~(Target(h, offs, sense) < 0)
    BY <1>6, <1>9, <2>2
  <2> QED
    BY <2>1, <2>2
<1> QED
  BY <1>1, <1>4, <1>6, <1>7, <1>8, <1>10

LEMMA TwoLSeek ==
  ASSUME TwoInv, seeks, NEW seek \in Seeks, LSeek(seek[1], seek[2]), fp'.offset >= 0,
         UNCHANGED seeks
  PROVE  TwoOK
<1>1. PICK offs \in Int, sense \in Int : offs = seek[1] /\ sense = seek[2]
  BY CcbAssumption
<1>2. LSeek(offs, sense) /\ disk' = disk /\ "OPENED" \in fp.flags
  BY <1>1 DEF LSeek, IsOpen
<1>3. CASE sense \notin Senses
  <2>1. UNCHANGED <<fp, disk, seeks>> /\ Answer("lseek", 0, Failure, <<>>)
    BY <1>2, <1>3 DEF LSeek
  <2>2. TwoInv' /\ SameBytes /\ SameEof /\ SameMark /\ SameAccess
    BY <2>1, StillTwo
  <2>3. BF!Next
    BY <1>1, <1>3, <2>1, <2>2, ByteSeekFails
  <2> QED
    BY <2>2, <2>3 DEF TwoOK
<1>4. CASE sense \in Senses
  <2>1. /\ fp' = Seeked(fp, disk, offs, sense) /\ fp'.offset <= SECSIZ * MaxSector
        /\ Answer("lseek", 0, fp'.offset, <<>>)
    BY <1>2, <1>4 DEF LSeek
  <2>2. PICK g : g = fp'
    OBVIOUS
  <2>3. /\ g \in FCB /\ Alike(g, fp) /\ "ATEOF" \notin g.flags
        /\ "ISREAD" \in g.flags <=> "ISREAD" \in fp.flags
        /\ g.hiwater = IF sense = 2 THEN FileSize(fp, disk) ELSE fp.hiwater
        /\ "DIRTY" \in fp.flags => g.hiwater = fp.hiwater
        /\ g.offset >= 0 => g.offset = SeekBase(fp, disk, sense) + offs
    BY <1>4, <2>1, <2>2, TwoTypes, SeekFields
  <2>4. SameBytes
    BY <1>2, <2>2, <2>3, AlikeAt, ShownAt DEF SameBytes
  <2>5. fp'.offset \in 0 .. SECSIZ * MaxSector
    <3>1. g.offset \in Int
      BY <2>3 DEF FCB
    <3> QED
      BY <2>1, <2>2, <3>1, TwoTypes
  <2>6. IInv'
    BY LSeekStep DEF TwoInv, StepOK
  <2>7. Calm(fp', disk')
    <3>1. InFile(g, disk)
      BY <2>2, <2>3, <2>5 DEF TwoInv, Calm, InFile, Alike
    <3>2. Holds(fp, disk) => Holds(g, disk)
      BY <2>3, AlikeAt DEF Holds, Alike
    <3>3. Fresh(g, disk) /\ Trails(g)
      BY <2>3, <3>2 DEF TwoInv, Calm, Fresh, Behind, Trails, Alike
    <3> QED
      BY <1>2, <2>2, <3>1, <3>3 DEF Calm
  <2>8. Marked(fp', disk')
    <3>1. CASE g.hiwater = fp.hiwater
      BY <1>2, <2>2, <2>4, <3>1, TwoTypes, MarkedOn
    <3>2. CASE "DIRTY" \notin fp.flags /\ g.hiwater = FileSize(fp, disk)
      <4>1. \A i \in Offset : At(g, disk, i) # None
                              => i \div SECSIZ <= (FileSize(fp, disk) - 1) \div SECSIZ
        BY <2>3, <3>2, AlikeAt, SizeCovers, TwoTypes
      <4> QED
        BY <1>2, <2>2, <3>2, <4>1 DEF Marked
    <3> QED
      BY <2>3, <3>1, <3>2
  <2>9. MarkEnds(fp', disk')
    <3>1. CASE g.hiwater = fp.hiwater
      <4>1. \A i \in Offset : At(fp, disk, i) # None => At(g, disk', i) # None
        BY <2>2, <2>4, ShownAt DEF SameBytes
      <4> QED
        BY <2>2, <3>1, <4>1, MarkStays DEF TwoInv
    <3>2. CASE "DIRTY" \notin fp.flags /\ g.hiwater = FileSize(fp, disk)
      BY <2>2, <3>2, SizeIsEnd DEF MarkEnds
    <3> QED
      BY <2>3, <3>1, <3>2
  <2>10. TwoInv'
    BY <2>6, <2>7, <2>8, <2>9, TwoNextInv
  <2>11. PICK base : base = SeekBase(fp, disk, sense)
    OBVIOUS
  <2>12. base \in BF!Bases(sense)
    <3>1. sense = 2 => base = fp.hiwater \/ base = BF!End
      <4>1. "DIRTY" \in fp.flags => FileSize(fp, disk) = fp.hiwater
        BY DEF FileSize
      <4>2. sense = 2 => base = FileSize(fp, disk)
        BY <2>11 DEF SeekBase
      <4> QED
        BY <4>1, <4>2, SizeIsEnd
    <3>2. sense = 2 => base \in BF!Bases(sense)
      BY <3>1 DEF BF!Bases
    <3>3. sense = 0 \/ sense = 1 => base \in BF!Bases(sense)
      BY <2>11 DEF BF!Bases, SeekBase
    <3> QED
      BY <1>4, <3>2, <3>3 DEF Senses
  <2>13. fp'.hiwater = IF sense = 2 THEN base ELSE fp.hiwater
    BY <2>2, <2>3, <2>11 DEF SeekBase
  <2>14. fp'.offset = base + offs /\ ~NowEof /\ SameAccess
    BY <2>2, <2>3, <2>11 DEF NowEof, SameAccess
  <2>15. BF!Next
    BY <1>1, <2>1, <2>4, <2>5, <2>12, <2>13, <2>14, ByteSeeks
  <2> QED
    BY <2>10, <2>15 DEF TwoOK
<1> QED
  BY <1>3, <1>4

LEMMA TwoOpen ==
  ASSUME TwoInv, NEW mode, Open(mode), UNCHANGED seeks
  PROVE  TwoOK
<1>1. PICK f : f = [Chinit(fp) EXCEPT !.flags = ModeFlags(mode)]
  OBVIOUS
<1>2. PICK g : g = Seeked(f, disk, 0, 2)
  OBVIOUS
<1>3. PICK h : h = Seeked(g, disk, 0, 0)
  OBVIOUS
<1>4. /\ fp' = h /\ disk' = disk /\ Answer("open", 0, 0, <<>>) /\ "OPENED" \notin fp.flags
  BY <1>1, <1>2, <1>3 DEF Open, IsOpen
<1>5. f \in FCB /\ "DIRTY" \notin f.flags /\ f.sector = -1
  BY <1>1, TwoTypes DEF Chinit, ModeFlags, FCB, Flag
<1>6. /\ g \in FCB /\ Alike(g, f) /\ g.hiwater = FileSize(f, disk)
  <2>1. PICK offs \in Int, sense \in Senses : offs = 0 /\ sense = 2
    BY DEF Senses
  <2>2. g = Seeked(f, disk, offs, sense)
    BY <1>2, <2>1
  <2> QED
    BY <1>5, <2>1, <2>2, TwoTypes, SeekFields
<1>7. /\ h \in FCB /\ Alike(h, g) /\ "ATEOF" \notin h.flags /\ h.offset = 0
      /\ h.hiwater = g.hiwater
  <2>1. PICK offs \in Int, sense \in Senses : offs = 0 /\ sense = 0
    BY DEF Senses
  <2>2. h = Seeked(g, disk, offs, sense)
    BY <1>3, <2>1
  <2> QED
    BY <1>6, <2>1, <2>2, TwoTypes, SeekFields
<1>8. FileSize(g, disk) = FileSize(f, disk)
  BY <1>5, <1>6 DEF FileSize, Alike
<1>9. /\ h.hiwater = FileSize(h, disk) /\ "DIRTY" \notin h.flags /\ h.sector = -1
  BY <1>5, <1>6, <1>7, <1>8 DEF FileSize, Alike
<1>10. SameBytes
  <2>1. "DIRTY" \notin fp.flags
    BY <1>4 DEF TwoInv, IInv, DirtyOwned, IsOpen
  <2> QED
    BY <1>4, <1>9, <2>1 DEF SameBytes, Shown, At
<1>11. IInv'
  BY OpenStep DEF TwoInv, StepOK
<1>12. Calm(fp', disk')
  <2>1. InFile(h, disk)
    BY <1>7, <1>9, TwoTypes DEF TwoInv, Calm, InFile
  <2> QED
    BY <1>4, <1>9, <2>1 DEF Calm, Fresh, Trails
<1>13. Marked(fp', disk')
  BY <1>4, <1>9, SizeCovers, TwoTypes DEF Marked
<1>14. FileSize(f, disk) = BF!End /\ FileSize(f, disk) % SECSIZ = 0
  <2>1. "DIRTY" \notin fp.flags
    BY <1>4 DEF TwoInv, IInv, DirtyOwned, IsOpen
  <2> QED
    BY <1>5, <2>1, SizeIsEnd
<1>15. MarkEnds(fp', disk')
  BY <1>4, <1>6, <1>7, <1>14 DEF MarkEnds
<1>16. TwoInv'
  BY <1>11, <1>12, <1>13, <1>15, TwoNextInv
<1>17. BF!Next
  BY <1>4, <1>6, <1>7, <1>10, <1>14, ByteOpens DEF NowEof
<1> QED
  BY <1>16, <1>17 DEF TwoOK

LEMMA TwoCreat ==
  ASSUME TwoInv, Creat, UNCHANGED seeks
  PROVE  TwoOK
<1>1. PICK h : h = fp'
  OBVIOUS
<1>2. /\ h.offset = 0 /\ h.sector = -1 /\ h.hiwater = 0
      /\ "DIRTY" \notin h.flags /\ "ATEOF" \notin h.flags /\ "ISREAD" \notin h.flags
      /\ DOMAIN disk' = {} /\ Answer("creat", 0, 0, <<>>)
  BY <1>1, TwoTypes DEF Creat, Chinit, ModeFlags, FCB, READ, WRITE
<1>3. \A i \in Offset : At(h, disk', i) = None
  BY <1>2 DEF At
<1>4. IInv'
  BY CreatStep DEF TwoInv, StepOK
<1>5. Calm(fp', disk') /\ Marked(fp', disk') /\ MarkEnds(fp', disk')
  <2>1. InFile(h, disk')
    BY <1>2, TwoTypes DEF InFile
  <2> QED
    BY <1>1, <1>2, <1>3, <2>1, NoMark DEF Calm, Fresh, Trails, Marked, MarkEnds
<1>6. TwoInv'
  BY <1>4, <1>5, TwoNextInv
<1>7. BF!Next
  BY <1>1, <1>2, <1>3, ByteCreates DEF NowEof
<1> QED
  BY <1>6, <1>7 DEF TwoOK

LEMMA TwoClose ==
  ASSUME TwoInv, Close({}), UNCHANGED seeks
  PROVE  TwoOK
<1>1. PICK c : c = Begin(0)
  OBVIOUS
<1>2. c.fp = fp /\ c.disk = disk /\ ReadCall(c)
  <2>1. IInv /\ 0 \in Nat
    BY DEF TwoInv
  <2> QED
    BY <1>1, <2>1, ReadBegins DEF Begin
<1>3. fp' = Chinit(fp) /\ disk' = FlushedDisk(c) /\ Answer("close", 0, 0, <<>>)
  BY <1>1 DEF Close, CanFlush
<1>4. PICK h : h = fp'
  OBVIOUS
<1>5. h.offset = 0 /\ h.sector = -1 /\ h.hiwater = 0 /\ h.flags = {}
  BY <1>3, <1>4, TwoTypes DEF Chinit, FCB
<1>6. SameBytes
  <2>1. Sound(c.fp, c.disk)
    BY <1>2 DEF ReadCall
  <2>2. \A i \in Offset : At(h, FlushedDisk(c), i) = At(c.fp, c.disk, i)
    BY <1>5, <2>1, FlushedAt, OffsetNat
  <2> QED
    BY <1>2, <1>3, <1>4, <2>2, ShownAt DEF SameBytes
<1>7. IInv'
  BY CloseStep DEF TwoInv, StepOK
<1>8. Calm(fp', disk') /\ Marked(fp', disk') /\ MarkEnds(fp', disk')
  <2>1. Calm(Flush(c).fp, Flush(c).disk) /\ Flush(c).disk = FlushedDisk(c)
    BY <1>2, CalmFlushed, ReadFlushed DEF TwoInv
  <2>2. InFile(h, disk')
    BY <1>3, <1>5, <2>1, TwoTypes DEF Calm, InFile
  <2> QED
    BY <1>4, <1>5, <2>2, NoMark DEF Calm, Fresh, Trails, Marked, MarkEnds
<1>9. TwoInv'
  BY <1>7, <1>8, TwoNextInv
<1>10. BF!Next
  BY <1>3, <1>4, <1>5, <1>6, ByteCloses DEF NowEof
<1> QED
  BY <1>9, <1>10 DEF TwoOK

-----------------------------------------------------------------------------
(* A write by one of the two kinds of programs. *)

TwoWrites(data) == /\ TwoInv /\ Writes(data)
                   /\ seeks => ~Bypasses(Len(data))

LEMMA TwoOrderly ==
  ASSUME NEW data, TwoWrites(data), NEW i \in Offset
  PROVE  Orderly(data, i)
<1>1. TwoInv /\ Writes(data)
  BY DEF TwoWrites
<1>2. Shown(i) # None => i \div SECSIZ <= (fp.hiwater - 1) \div SECSIZ
  BY <1>1, ShownAt DEF TwoInv, Marked, Writes, IsOpen
<1>3. ASSUME fp.sector = i \div SECSIZ, fp.sector = U(fp.offset \div SECSIZ)
      PROVE  fp.buffer[i % SECSIZ] = Shown(i)
  <2>1. i \in Nat /\ i \div SECSIZ \in Nat /\ SECSIZ \in Nat \ {0}
    BY OffsetPlace, CcbAssumption
  <2>2. PICK x \in Int : /\ x = fp.offset /\ x \in Nat
                     /\ x <= SECSIZ * MaxSector /\ MaxSector < UWord
    BY <1>1, TwoTypes, WritesFit
  <2>3. PICK q \in Int, r \in 0 .. SECSIZ - 1 :
          q = x \div SECSIZ /\ r = x % SECSIZ /\ x = (SECSIZ * q) + r
    BY Place
  <2>4. fp.sector = q
    BY <1>3, <2>2, <2>3, SectorsFit
  <2>5. ~Behind(fp)
    <3>1. SECSIZ * (q + 1) = (SECSIZ * q) + SECSIZ
      BY <2>1
    <3>2. PICK a \in Int : a = SECSIZ * q
      BY <2>1
    <3>3. ~(x >= SECSIZ * (q + 1))
      BY <2>1, <2>3, <3>1, <3>2
    <3> QED
      BY <2>2, <2>4, <3>3 DEF Behind
  <2>6. Holds(fp, disk)
    BY <1>1, <1>3, <2>1, <2>5 DEF TwoInv, Calm, Fresh
  <2> QED
    BY <1>3, <2>6, ShownAt DEF Holds
<1> QED
  BY <1>1, <1>2, <1>3 DEF Orderly

LEMMA TwoApart ==
  ASSUME NEW data, TwoWrites(data)
  PROVE  Apart(data)
<1>1. TwoInv /\ Writes(data) /\ Len(data) \in Nat
  BY WritesFit DEF TwoWrites
<1> SUFFICES ASSUME "DIRTY" \in fp.flags, fp.sector = U(fp.offset \div SECSIZ),
                    fp.offset % SECSIZ = 0, Len(data) >= SECSIZ
             PROVE  FALSE
  BY DEF Apart
<1>2. CASE seeks
  <2>1. SECSIZ \in Nat \ {0}
    BY CcbAssumption
  <2> QED
    BY <1>1, <1>2, <2>1 DEF TwoWrites, Bypasses
<1>3. CASE ~seeks
  <2>1. SECSIZ \in Nat \ {0}
    BY CcbAssumption
  <2>2. PICK x \in Int : /\ x = fp.offset /\ x \in Nat
                     /\ x <= SECSIZ * MaxSector /\ MaxSector < UWord
    BY <1>1, TwoTypes, WritesFit
  <2>3. PICK q \in Int, r \in 0 .. SECSIZ - 1 :
          q = x \div SECSIZ /\ r = x % SECSIZ /\ x = (SECSIZ * q) + r
    BY Place
  <2>4. fp.sector = q /\ r = 0
    BY <2>2, <2>3, SectorsFit
  <2>5. SECSIZ * q < x
    BY <1>1, <1>3, <2>2, <2>4 DEF TwoInv, Calm, Trails
  <2> QED
    BY <2>1, <2>3, <2>4, <2>5
<1> QED
  BY <1>2, <1>3

(* What a write leaves in the buffer of these programs: its last bytes,    *)
(* nothing, or a sector that a straight program has passed.                *)
LeftBehind(c) == \/ "DIRTY" \in c.fp.flags /\ c.sent > 0 /\ Filled(c)
                 \/ Put(c)
                 \/ /\ ~seeks /\ "DIRTY" \notin c.fp.flags
                    /\ c.sent >= SECSIZ /\ c.fp.sector = fp.offset \div SECSIZ

LEMMA PassedBehind ==
  ASSUME NEW data, TwoWrites(data), NEW c, Passed(c), c.sent \in Nat, c.sent >= SECSIZ,
         c.sent <= Len(data)
  PROVE  LeftBehind(c)
<1>1. TwoInv /\ Writes(data) /\ Len(data) \in Nat /\ SECSIZ \in Nat \ {0} /\ Len(data) >= SECSIZ
  BY WritesFit, CcbAssumption DEF TwoWrites
<1>2. ~seeks
  BY <1>1 DEF TwoWrites, Bypasses, Passed
<1>3. "DIRTY" \notin c.fp.flags
  BY <1>1, TwoApart DEF Passed, OldDirty, Apart
<1>4. c.fp.sector = fp.offset \div SECSIZ
  <2>1. PICK x \in Nat : x = fp.offset /\ x <= SECSIZ * MaxSector /\ MaxSector < UWord
    BY <1>1, TwoTypes, WritesFit
  <2>2. U(x \div SECSIZ) = x \div SECSIZ
    BY <2>1, SectorsFit
  <2> QED
    BY <2>1, <2>2 DEF Passed
<1> QED
  BY <1>2, <1>3, <1>4 DEF LeftBehind

LEMMA LeftCalm ==
  ASSUME NEW data, TwoWrites(data), NEW c, WriteCall(c), c.fp.offset = fp.offset + c.sent,
         c.sent <= Len(data), LeftBehind(c), DOMAIN c.disk \subseteq Sectors
  PROVE  Calm(c.fp, c.disk)
<1>1. TwoInv /\ Writes(data) /\ SECSIZ \in Nat \ {0} /\ MaxSector \in Nat
  BY CcbAssumption DEF TwoWrites
<1>2. PICK o \in Int, n \in Nat, l \in Nat, e \in Nat :
        /\ o = fp.offset /\ n = c.sent /\ l = Len(data) /\ e = SECSIZ * MaxSector
        /\ o \in Nat /\ o + l <= e /\ MaxSector < UWord
  BY <1>1, TwoTypes, WriteFields, WritesFit
<1>3. PICK y \in Int : y = o + n
  OBVIOUS
<1>4. y = c.fp.offset /\ y \in 0 .. e
  BY <1>2, <1>3
<1>5. CASE "DIRTY" \in c.fp.flags /\ c.sent > 0 /\ Filled(c)
  <2>1. PICK z \in Int : z = y - 1
    OBVIOUS
  <2>2. z \in Nat /\ z < e /\ z <= e
    BY <1>2, <1>3, <1>4, <1>5, <2>1
  <2>3. PICK q \in Int, r \in 0 .. SECSIZ - 1 :
          q = z \div SECSIZ /\ r = z % SECSIZ /\ z = (SECSIZ * q) + r
    BY Place
  <2>4. c.fp.sector = q /\ q \in Sectors
    <3>1. U(z \div SECSIZ) = z \div SECSIZ
      BY <1>2, <2>2, SectorsFit
    <3>2. q \in Sectors
      BY <1>2, <2>2, <2>3, InOffset
    <3> QED
      BY <1>4, <1>5, <2>1, <2>3, <3>1, <3>2 DEF Filled
  <2>5. SECSIZ * c.fp.sector < c.fp.offset
    <3>1. PICK a \in Int : a = SECSIZ * q
      BY <1>1
    <3>2. a < y
      BY <1>1, <2>1, <2>3, <3>1
    <3> QED
      BY <1>4, <2>4, <3>1, <3>2
  <2>6. Holds(c.fp, c.disk)
    BY <1>5, DirtyHolds
  <2>7. InFile(c.fp, c.disk)
    BY <1>1, <1>2, <1>4, <2>4 DEF InFile, Sectors
  <2> QED
    BY <2>5, <2>6, <2>7 DEF Calm, Fresh, Trails
<1>6. CASE Put(c)
  <2>1. InFile(c.fp, c.disk)
    BY <1>1, <1>2, <1>4, <1>6 DEF InFile, Put
  <2> QED
    BY <1>6, <2>1 DEF Calm, Fresh, Trails, Put
<1>7. CASE /\ ~seeks /\ "DIRTY" \notin c.fp.flags
           /\ c.sent >= SECSIZ /\ c.fp.sector = fp.offset \div SECSIZ
  <2>1. o < e
    BY <1>1, <1>2, <1>7
  <2>2. PICK q \in Int, r \in 0 .. SECSIZ - 1 :
          q = o \div SECSIZ /\ r = o % SECSIZ /\ o = (SECSIZ * q) + r
    BY Place
  <2>3. c.fp.sector = q /\ q \in Sectors
    BY <1>2, <1>7, <2>1, <2>2, InOffset
  <2>4. Behind(c.fp)
    <3>1. SECSIZ * (q + 1) = (SECSIZ * q) + SECSIZ
      BY <1>1
    <3>2. PICK a \in Int : a = SECSIZ * q
      BY <1>1
    <3>3. n >= SECSIZ
      BY <1>2, <1>7
    <3>4. y >= a + SECSIZ
      BY <1>1, <1>3, <2>2, <3>2, <3>3
    <3> QED
      BY <1>4, <1>7, <2>3, <3>1, <3>2, <3>4 DEF Behind
  <2>5. InFile(c.fp, c.disk)
    <3>1. q < MaxSector
      BY <1>1, <2>3 DEF Sectors
    <3> QED
      BY <1>2, <1>4, <2>3, <3>1 DEF InFile
  <2> QED
    BY <1>7, <2>4, <2>5 DEF Calm, Fresh, Trails
<1> QED
  BY <1>5, <1>6, <1>7 DEF LeftBehind

(* How a write that BDOS does not disturb ends for them. *)
LEMMA TwoWritten ==
  ASSUME NEW data, TwoWrites(data), NEW c, c = WrtBin(data, {})
  PROVE  /\ Outcome(c, data, {}) /\ DOMAIN c.disk \subseteq Sectors
         /\ \A i \in Offset : ByteResult(c, data, i, {})
         /\ c.ok => LeftBehind(c)
         /\ ~c.ok => Gap(c) /\ ((c.fp = fp /\ c.fp.sector # c.xsector) \/ LeftBehind(c))
<1>1. TwoInv /\ Writes(data)
  BY DEF TwoWrites
<1>2. Outcome(c, data, {}) /\ \A i \in Offset : ByteResult(c, data, i, {})
  BY <1>1, TwoOrderly, WrtBinOutcome
<1>3. DOMAIN c.disk \subseteq Sectors
  <2>1. fp.offset >= 0 /\ fp.sector < MaxSector /\ DOMAIN disk \subseteq Sectors
    BY <1>1, TwoTypes DEF TwoInv, Calm, InFile
  <2> QED
    BY <1>1, <2>1, WrtBinLands
<1>4. c.sent \in Nat /\ c.sent <= Len(data) /\ Len(data) \in Nat /\ Len(data) > 0
  BY <1>1, <1>2, WriteFields, WritesFit DEF Outcome
<1>5. c.ok => LeftBehind(c)
  <2>1. c.ok => c.sent > 0 /\ (Filled(c) \/ Put(c) \/ (Passed(c) /\ c.sent >= SECSIZ))
    BY <1>2, <1>4 DEF Outcome
  <2>2. Filled(c) => "DIRTY" \in c.fp.flags
    BY DEF Filled
  <2>3. Passed(c) /\ c.sent >= SECSIZ => LeftBehind(c)
    BY <1>4, PassedBehind
  <2> QED
    BY <2>1, <2>2, <2>3 DEF LeftBehind
<1>6. ~c.ok => Gap(c) /\ ((c.fp = fp /\ c.fp.sector # c.xsector) \/ LeftBehind(c))
  <2>1. ~c.ok => /\ Gap(c)
                 /\ \/ c.fp = fp /\ c.fp.sector # c.xsector
                    \/ Put(c) \/ (Passed(c) /\ c.sent >= SECSIZ)
    BY <1>2 DEF Outcome, Broken
  <2>2. Passed(c) /\ c.sent >= SECSIZ => LeftBehind(c)
    BY <1>4, PassedBehind
  <2> QED
    BY <2>1, <2>2 DEF LeftBehind
<1> QED
  BY <1>2, <1>3, <1>5, <1>6

LEMMA TwoWriteFp ==
  ASSUME NEW data, TwoWrites(data), NEW c, c = WrtBin(data, {}), c.fp = fp, ~c.ok
  PROVE  \A i \in Offset : At(fp, c.disk, i) = Shown(i)
<1>1. TwoInv /\ Writes(data) /\ fp.offset \in Nat
  BY TwoTypes DEF TwoWrites
<1>2. Outcome(c, data, {}) /\ \A i \in Offset : ByteResult(c, data, i, {})
  BY TwoWritten
<1>3. c.sent = 0
  <2>1. c.sent \in Nat /\ fp.offset = fp.offset + c.sent
    BY <1>2, WriteFields DEF Outcome
  <2> QED
    BY <1>1, <2>1
<1> SUFFICES ASSUME NEW i \in Offset PROVE Here(c, i) = Shown(i)
  BY DEF Here
<1>4. CASE ~InRange(data, i)
  BY <1>2, <1>3, <1>4 DEF ByteResult, Spared
<1>5. CASE InRange(data, i)
  <2>1. Delivered(c, data, i, {})
    BY <1>1, <1>2, <1>5, TwoApart DEF ByteResult
  <2>2. ~(i < fp.offset)
    BY <1>1, <1>5, OffsetNat, WritesFit DEF InRange
  <2> QED
    BY <2>1, <2>2 DEF Delivered
<1> QED
  BY <1>4, <1>5

(* Every byte that is there after it lies below the mark it leaves. *)
LEMMA TwoWriteMarks ==
  ASSUME NEW data, TwoWrites(data), NEW c, c = WrtBin(data, {})
  PROVE  Marked(c.fp, c.disk)
<1>1. TwoInv /\ Writes(data) /\ "OPENED" \in fp.flags
  BY DEF TwoWrites, Writes, IsOpen
<1>2. Outcome(c, data, {}) /\ \A i \in Offset : ByteResult(c, data, i, {})
  BY TwoWritten
<1>3. PICK h \in Nat, g \in Nat : h = fp.hiwater /\ g = c.fp.hiwater
  <2>1. fp.hiwater \in Nat
    BY <1>1, TwoTypes
  <2>2. c.fp.hiwater \in Nat
    BY <1>2, WriteFields DEF Outcome
  <2> QED
    BY <2>1, <2>2
<1>4. PICK o \in Int, n \in Nat, l \in Nat :
        o = fp.offset /\ n = c.sent /\ l = Len(data) /\ o \in Nat /\ n <= l
  <2>1. fp.offset \in Nat
    BY <1>1, TwoTypes
  <2>2. Len(data) \in Nat
    BY <1>1, WritesFit
  <2>3. c.sent \in Nat /\ c.sent <= Len(data)
    BY <1>2, WriteFields DEF Outcome
  <2> QED
    BY <2>1, <2>2, <2>3
<1>5. PICK y \in Int : y = c.fp.offset /\ y = o + n
  BY <1>2, <1>4 DEF Outcome
<1>6. PICK mark \in Int : mark = (h - 1) \div SECSIZ
  <2>1. h - 1 \in Int
    OBVIOUS
  <2> QED
    BY <2>1, SectorArithmetic
<1>7. \A i \in Offset : Shown(i) # None => i \div SECSIZ <= mark
  BY <1>1, <1>3, <1>6, ShownAt DEF TwoInv, Marked
<1> SUFFICES ASSUME NEW i \in Offset, Here(c, i) # None
             PROVE  i \div SECSIZ <= (g - 1) \div SECSIZ
  BY <1>3 DEF Marked, Here
<1>8. i \in Int /\ i \div SECSIZ \in Int /\ (g - 1) \div SECSIZ \in Int /\ y - 1 \in Int
      /\ (y - 1) \div SECSIZ \in Int /\ y \div SECSIZ \in Int
  <2>1. i \in Int /\ g - 1 \in Int /\ y - 1 \in Int
    BY OffsetNat
  <2> QED
    BY <2>1, SectorArithmetic
<1>9. \/ Shown(i) # None
      \/ i \div SECSIZ <= (y - 1) \div SECSIZ
  <2>1. CASE ~InRange(data, i)
    BY <1>2, <1>5, <2>1 DEF ByteResult, Spared
  <2>2. CASE InRange(data, i)
    <3>1. Delivered(c, data, i, {})
      BY <1>1, <1>2, <1>4, <2>2, TwoApart DEF ByteResult
    <3>2. CASE i < y
      <4>1. i <= y - 1
        BY <1>8, <3>2
      <4> QED
        BY <1>8, <4>1, Order
    <3>3. CASE ~(i < y)
      BY <1>5, <3>1, <3>3 DEF Delivered
    <3> QED
      BY <3>2, <3>3
  <2> QED
    BY <2>1, <2>2
<1>10. CASE c.ok
  <2>1. h <= g /\ y <= g
    BY <1>2, <1>3, <1>4, <1>5, <1>10 DEF Outcome, Greatest
  <2>2. PICK a \in Int, b \in Int, d \in Int : a = h - 1 /\ b = y - 1 /\ d = g - 1
    OBVIOUS
  <2>3. a <= d /\ b <= d
    BY <2>1, <2>2
  <2>4. a \div SECSIZ <= d \div SECSIZ /\ b \div SECSIZ <= d \div SECSIZ
    BY <2>3, Order
  <2> QED
    BY <1>6, <1>7, <1>8, <1>9, <2>2, <2>4
<1>11. CASE ~c.ok
  <2>1. g = h
    BY <1>2, <1>3, <1>11 DEF Outcome
  <2>2. CASE c.fp = fp
    BY <1>6, <1>7, <1>11, <2>1, <2>2, TwoWriteFp DEF Here
  <2>3. CASE c.fp.offset \div SECSIZ <= (fp.hiwater - 1) \div SECSIZ
    <3>1. y \div SECSIZ <= mark
      BY <1>3, <1>5, <1>6, <2>3
    <3>2. (y - 1) \div SECSIZ <= y \div SECSIZ
      <4>1. PICK b \in Int : b = y - 1 /\ b <= y
        OBVIOUS
      <4> QED
        BY <4>1, Order
    <3> QED
      BY <1>6, <1>7, <1>8, <1>9, <2>1, <3>1, <3>2
  <2> QED
    BY <1>11, <2>2, <2>3, TwoWritten DEF Gap
<1> QED
  BY <1>10, <1>11

LEMMA TwoWriteCalms ==
  ASSUME NEW data, TwoWrites(data), NEW c, c = WrtBin(data, {})
  PROVE  Calm(c.fp, c.disk)
<1>1. TwoInv /\ WriteCall(c) /\ c.fp.offset = fp.offset + c.sent /\ c.sent <= Len(data)
      /\ DOMAIN c.disk \subseteq Sectors
  BY TwoWritten DEF TwoWrites, Outcome
<1>2. CASE LeftBehind(c)
  BY <1>1, <1>2, LeftCalm
<1>3. CASE c.fp = fp /\ ~c.ok
  <2>1. \A i \in Offset : At(fp, c.disk, i) = At(fp, disk, i)
    BY <1>3, TwoWriteFp, ShownAt
  <2>2. Holds(fp, disk) => Holds(fp, c.disk)
    BY <2>1 DEF Holds
  <2> QED
    BY <1>1, <1>3, <2>2 DEF TwoInv, Calm, InFile, Fresh
<1> QED
  BY <1>2, <1>3, TwoWritten

(* A write loses no byte of the file.                                      *)
LEMMA WriteKeeps ==
  ASSUME NEW data, Writes(data), fp.offset >= 0, Apart(data), NEW c, NEW bad,
         NEW i \in Offset, ByteResult(c, data, i, bad), Shown(i) # None
  PROVE  Here(c, i) # None
<1>1. CASE ~InRange(data, i)
  BY <1>1 DEF ByteResult, Spared
<1>2. CASE InRange(data, i)
  <2>1. Delivered(c, data, i, bad)
    BY <1>2 DEF ByteResult
  <2>2. PICK j : j = i - fp.offset + 1 /\ Here(c, i) \in {Shown(i), data[j]}
    BY <2>1 DEF Delivered
  <2>3. j \in 1 .. Len(data)
    <3>1. PICK o \in Nat, l \in Nat, x \in Nat : o = fp.offset /\ l = Len(data) /\ x = i
      BY WritesFit, OffsetNat
    <3>2. x \in o .. o + l - 1
      BY <1>2, <3>1 DEF InRange
    <3>3. x - o + 1 \in 1 .. l
      BY <3>1, <3>2
    <3> QED
      BY <2>2, <3>1, <3>3
  <2>4. data[j] \in Byte
    BY <2>3 DEF Writes
  <2> QED
    BY <2>2, <2>4, CcbAssumption
<1> QED
  BY <1>1, <1>2

(* A raised mark stands behind the last byte of the data. *)
LEMMA WriteMarkEnds ==
  ASSUME NEW data, Writes(data), fp.offset >= 0, Apart(data), MarkEnds(fp, disk),
         NEW c, NEW bad, Outcome(c, data, bad), \A i \in Offset : ByteResult(c, data, i, bad)
  PROVE  MarkEnds(c.fp, c.disk)
<1>1. CASE c.fp.hiwater = fp.hiwater
  <2>1. \A i \in Offset : At(fp, disk, i) # None => At(c.fp, c.disk, i) # None
    BY WriteKeeps, ShownAt DEF Here
  <2> QED
    BY <1>1, <2>1, MarkStays
<1>2. CASE c.fp.hiwater # fp.hiwater
  <2>1. c.ok /\ c.sent = Len(data) /\ c.fp.hiwater = c.fp.offset /\ c.fp.offset = fp.offset + c.sent
    BY <1>2 DEF Outcome, Greatest
  <2>2. PICK o \in Nat, l \in Nat, e \in Nat : /\ o = fp.offset /\ l = Len(data)
                                      /\ e = SECSIZ * MaxSector
                                      /\ l > 0 /\ o + l <= e
    BY WritesFit
  <2>3. PICK i \in Nat : i = (o + l) - 1
    BY <2>2
  <2>4. i \in Offset /\ InRange(data, i) /\ i = c.fp.hiwater - 1 /\ i < c.fp.offset
    <3>1. i \in 0 .. e - 1 /\ i \in o .. o + l - 1 /\ i < o + l
      BY <2>2, <2>3
    <3> QED
      BY <2>1, <2>2, <2>3, <3>1 DEF Offset, InRange
  <2>5. i - fp.offset + 1 = l
    <3>1. i - o + 1 = l
      BY <2>3
    <3> QED
      BY <2>2, <3>1
  <2>6. Here(c, i) = data[l]
    BY <2>1, <2>4, <2>5 DEF ByteResult, Delivered
  <2>7. data[l] \in Byte
    BY <2>2 DEF Writes
  <2> QED
    BY <2>4, <2>6, <2>7, CcbAssumption DEF MarkEnds, Here
<1> QED
  BY <1>1, <1>2

(* A write fails only where it meets a hole: a byte that is not there,     *)
(* below the mark.                                                         *)
LEMMA TwoHole ==
  ASSUME NEW data, TwoWrites(data), NEW c, c = WrtBin(data, {}), ~c.ok
  PROVE  /\ c.sent \in 0 .. Len(data) - 1 /\ c.fp.offset \in Offset
         /\ c.fp.offset < fp.hiwater /\ Shown(c.fp.offset) = None
<1>1. TwoInv /\ Writes(data) /\ Apart(data) /\ fp.offset >= 0
  BY TwoApart, TwoTypes DEF TwoWrites
<1>2. /\ Outcome(c, data, {}) /\ \A i \in Offset : ByteResult(c, data, i, {})
      /\ Gap(c) /\ ((c.fp = fp /\ c.fp.sector # c.xsector) \/ LeftBehind(c))
  BY TwoWritten
<1>3. PICK o \in Nat, n \in Nat, l \in Nat, e \in Nat, h \in Nat :
        /\ o = fp.offset /\ n = c.sent /\ l = Len(data) /\ e = SECSIZ * MaxSector
        /\ h = fp.hiwater /\ n < l /\ o + l <= e /\ MaxSector < UWord
  <2>1. /\ fp.offset \in Nat /\ fp.hiwater \in Nat /\ Len(data) \in Nat
        /\ SECSIZ * MaxSector \in Nat /\ fp.offset + Len(data) <= SECSIZ * MaxSector
        /\ MaxSector < UWord
    BY <1>1, WritesFit, TwoTypes
  <2>2. /\ c.sent \in Nat /\ c.left \in Nat /\ c.sent + c.left = Len(data) /\ c.left > 0
    BY <1>2, WriteFields DEF Outcome, Gap
  <2>3. c.sent < Len(data)
    BY <2>1, <2>2
  <2> QED
    BY <2>1, <2>2, <2>3
<1>4. PICK i \in Int : i = c.fp.offset /\ i = o + n
  BY <1>2, <1>3 DEF Outcome
<1>5. i \in Nat /\ i \in 0 .. e - 1 /\ i \in o .. o + l - 1 /\ i <= e /\ n \in 0 .. l - 1
  <2>1. n < l /\ o + l <= e /\ i = o + n
    BY <1>3, <1>4
  <2> QED
    BY <2>1
<1>6. i \in Offset /\ InRange(data, i)
  BY <1>3, <1>5 DEF Offset, InRange
<1>7. PICK q \in Int : q = i \div SECSIZ
  BY SectorArithmetic
<1>8. c.xsector = q /\ q \notin DOMAIN c.disk
  <2>1. c.xsector = U(i \div SECSIZ)
    BY <1>2, <1>4 DEF Gap, AtSector
  <2>2. U(i \div SECSIZ) = i \div SECSIZ
    BY <1>3, <1>5, SectorsFit
  <2> QED
    BY <1>2, <1>7, <2>1, <2>2 DEF Gap
<1>9. ~("DIRTY" \in c.fp.flags /\ c.fp.sector = q)
  <2>1. ~Filled(c)
    BY <1>2 DEF Gap, Filled
  <2> QED
    BY <1>2, <1>8, <2>1 DEF LeftBehind, Put
<1>10. ASSUME NEW j, j \div SECSIZ = q PROVE Here(c, j) = None
  BY <1>8, <1>9, <1>10 DEF Here, At
<1>11. Shown(i) = None
  <2>1. Delivered(c, data, i, {})
    BY <1>1, <1>2, <1>6 DEF ByteResult
  <2>2. ~(i < c.fp.offset)
    BY <1>4
  <2>3. Here(c, i) = Shown(i)
    BY <2>1, <2>2 DEF Delivered
  <2> QED
    BY <1>7, <1>10, <2>3
<1>12. i < h
  <2> SUFFICES ASSUME i >= h PROVE FALSE
    BY <1>3, <1>4
  <2>1. PICK z \in Int : z = h - 1 /\ z <= h /\ z <= i
    OBVIOUS
  <2>2. z \div SECSIZ \in Int /\ h \div SECSIZ \in Int /\ h % SECSIZ \in Int /\ z % SECSIZ \in Nat
    <3>1. h \in Int
      OBVIOUS
    <3> QED
      BY <2>1, <3>1, SectorArithmetic
  <2>3. q <= z \div SECSIZ
    BY <1>2, <1>3, <1>4, <1>7, <2>1 DEF Gap
  <2>4. z \div SECSIZ <= h \div SECSIZ /\ h \div SECSIZ <= q
    BY <1>3, <1>7, <2>1, Order
  <2>5. z \div SECSIZ = q /\ h \div SECSIZ = z \div SECSIZ
    BY <1>7, <2>2, <2>3, <2>4
  <2>6. h - z = (h % SECSIZ) - (z % SECSIZ)
    <3>1. h \in Int
      OBVIOUS
    <3> QED
      BY <2>5, <3>1, SameSector
  <2>7. h % SECSIZ # 0
    BY <1>3, <2>1, <2>2, <2>6
  <2>8. z \in Offset /\ Shown(z) # None
    BY <1>1, <1>3, <2>1, <2>7, ShownAt DEF TwoInv, MarkEnds
  <2> QED
    BY <1>1, <1>2, <1>10, <2>5, <2>8, WriteKeeps
<1> QED
  BY <1>3, <1>4, <1>5, <1>6, <1>11, <1>12

(* As a write of the file of bytes. *)
LEMMA TwoWriteBytes ==
  ASSUME NEW data \in Data, TwoWrites(data), NEW c, c = WrtBin(data, {}),
         fp' = c.fp, disk' = c.disk,
         Answer("write", Len(data), IF c.ok THEN U(c.sent) ELSE Failure, data)
  PROVE  BF!Next
<1>1. TwoInv /\ Writes(data) /\ data \in Seq(Byte)
  BY DEF TwoWrites, Writes
<1>2. Outcome(c, data, {}) /\ \A i \in Offset : ByteResult(c, data, i, {})
  BY TwoWritten
<1>3. PICK o \in Int, n \in Nat, l \in Nat, e \in Nat :
        /\ o = fp.offset /\ n = c.sent /\ l = Len(data) /\ e = SECSIZ * MaxSector
        /\ o \in Nat /\ n <= l /\ o + l <= e /\ l < UWord
  <2>1. fp.offset \in Nat
    BY <1>1, TwoTypes
  <2>2. /\ Len(data) \in Nat /\ SECSIZ * MaxSector \in Nat
        /\ fp.offset + Len(data) <= SECSIZ * MaxSector /\ Len(data) < UWord
    BY <1>1, WritesFit
  <2>3. c.sent \in Nat /\ c.sent <= Len(data)
    BY <1>2, WriteFields DEF Outcome
  <2> QED
    BY <2>1, <2>2, <2>3
<1>4. fp'.offset = o + n /\ SameEof /\ SameAccess /\ "ISREAD" \notin fp.flags
  <2>1. "ISREAD" \notin fp.flags
    BY <1>1 DEF Writes, Refused
  <2>2. "ISREAD" \notin c.fp.flags
    BY <1>2 DEF Outcome, WriteCall
  <2> QED
    BY <1>2, <1>3, <2>1, <2>2 DEF Outcome, NowEof, SameEof, SameAccess
<1>5. ASSUME NEW i \in Offset, ~InRange(data, i)
      PROVE  \/ At(fp', disk', i) = Shown(i)
             \/ Shown(i) = None /\ At(fp', disk', i) \in Byte
  BY <1>2, <1>5 DEF ByteResult, Spared, Here
<1>6. ASSUME NEW i \in Offset, InRange(data, i)
      PROVE  Here(c, i) = IF i < c.fp.offset THEN data[i - fp.offset + 1] ELSE Shown(i)
  <2>1. Delivered(c, data, i, {})
    BY <1>1, <1>2, <1>3, <1>6, TwoApart DEF ByteResult
  <2> QED
    BY <2>1 DEF Delivered
<1>7. ASSUME NEW j \in 1 .. n
      PROVE  (o + j) - 1 \in Offset /\ At(fp', disk', (o + j) - 1) = data[j]
  <2>1. PICK i \in Int : i = (o + j) - 1
    OBVIOUS
  <2>2. i \in 0 .. e - 1 /\ i \in o .. o + l - 1 /\ i < o + n /\ i - o + 1 = j
    <3>1. n <= l /\ o + l <= e /\ o \in Nat
      BY <1>3
    <3> QED
      BY <2>1, <3>1
  <2>3. i \in Offset /\ InRange(data, i) /\ i < c.fp.offset
    BY <1>2, <1>3, <2>2 DEF Offset, InRange, Outcome
  <2> QED
    BY <1>3, <1>6, <2>1, <2>2, <2>3 DEF Here
<1>8. CASE c.ok
  <2>1. n = l /\ U(c.sent) = l
    BY <1>2, <1>3, <1>8, UExact DEF Outcome
  <2>2. Answer("write", Len(data), Len(data), data) /\ fp'.offset = fp.offset + Len(data)
    BY <1>3, <1>4, <1>8, <2>1
  <2>3. \A j \in 1 .. Len(data) : LET i == (fp.offset + j) - 1
                                  IN  i \in Offset /\ At(fp', disk', i) = data[j]
    BY <1>3, <1>7, <2>1
  <2>4. Untouched(fp.offset, Len(data))
    BY <1>5 DEF Untouched, InRange
  <2>5. fp'.hiwater = IF data = <<>> THEN fp.hiwater ELSE Greatest(fp.hiwater, fp'.offset)
    BY <1>1, <1>2, <1>8 DEF Outcome, Writes
  <2> QED
    BY <1>1, <1>3, <1>4, <2>2, <2>3, <2>4, <2>5, ByteWrites DEF Writes
<1>9. CASE ~c.ok
  <2>1. Answer("write", Len(data), Failure, data)
    BY <1>9
  <2>2. /\ n \in 0 .. Len(data) - 1 /\ fp.offset + n = c.fp.offset
        /\ fp.offset + n \in Offset /\ fp.offset + n < fp.hiwater /\ Shown(fp.offset + n) = None
    BY <1>2, <1>3, <1>9, TwoHole DEF Outcome
  <2>3. Untouched(fp.offset, n)
    <3> SUFFICES ASSUME NEW i \in Offset, i \notin fp.offset .. fp.offset + n - 1
                 PROVE  \/ At(fp', disk', i) = Shown(i)
                        \/ Shown(i) = None /\ At(fp', disk', i) \in Byte
      BY DEF Untouched
    <3>1. CASE InRange(data, i)
      <4>1. PICK x \in Int : x = i
        BY OffsetNat
      <4>2. ~(x < o + n)
        BY <1>3, <3>1, <4>1 DEF InRange
      <4> QED
        BY <1>3, <1>6, <2>2, <3>1, <4>1, <4>2 DEF Here
    <3> QED
      BY <1>5, <3>1
  <2>4. SameMark
    BY <1>2, <1>9 DEF Outcome, SameMark
  <2>5. \A j \in 1 .. n : LET i == (fp.offset + j) - 1
                          IN  i \in Offset /\ At(fp', disk', i) = data[j]
    BY <1>3, <1>7
  <2>6. fp'.offset = fp.offset + n /\ fp.offset \in Nat
    BY <1>3, <1>4
  <2> QED
    BY <1>4, <2>1, <2>2, <2>3, <2>4, <2>5, <2>6, ByteWriteFails
<1> QED
  BY <1>8, <1>9

LEMMA TwoWrite ==
  ASSUME FitsUWord, TwoInv, NEW data \in Data, seeks => ~Bypasses(Len(data)),
         Write(data, {}), UNCHANGED seeks
  PROVE  TwoOK
<1>1. data \in Seq(Byte) /\ Len(data) \in Nat /\ fp.offset \in Nat /\ Fits(Len(data))
      /\ "OPENED" \in fp.flags
  BY TwoTypes, CcbAssumption DEF Write, IsOpen
<1>2. CASE data = <<>>
  <2>1. /\ UNCHANGED <<fp, disk, seeks>> /\ Len(data) = 0
        /\ Answer("write", Len(data), Len(data), data)
    BY <1>2 DEF Write
  <2>2. TwoInv' /\ SameBytes /\ SameEof /\ SameMark /\ SameAccess
    BY <2>1, StillTwo
  <2>3. BF!Next
    <3>1. Untouched(fp.offset, Len(data))
      BY <2>2 DEF Untouched, SameBytes
    <3>2. fp'.offset = fp.offset + Len(data)
      BY <1>1, <2>1
    <3>3. 1 .. Len(data) = {}
      BY <2>1
    <3>4. \A j \in 1 .. Len(data) : LET i == (fp.offset + j) - 1
                                    IN  i \in Offset /\ At(fp', disk', i) = data[j]
      BY <3>3
    <3> QED
      BY <1>1, <1>2, <2>1, <2>2, <3>1, <3>2, <3>4, ByteWrites DEF SameMark
  <2> QED
    BY <2>2, <2>3 DEF TwoOK
<1>3. CASE data # <<>> /\ Refused
  <2>1. UNCHANGED <<fp, disk, seeks>> /\ Answer("write", Len(data), Failure, data)
    BY <1>3 DEF Write
  <2>2. TwoInv' /\ SameBytes /\ SameEof /\ SameMark /\ SameAccess
    BY <2>1, StillTwo
  <2>3. BF!Next
    BY <1>3, <2>1, <2>2, ByteRefused DEF Refused
  <2> QED
    BY <2>2, <2>3 DEF TwoOK
<1>4. CASE data # <<>> /\ ~Refused
  <2>1. PICK c : /\ c = WrtBin(data, {}) /\ fp' = c.fp /\ disk' = c.disk
                 /\ Answer("write", Len(data), IF c.ok THEN U(c.sent) ELSE Failure, data)
    BY <1>4 DEF Write
  <2>2. TwoWrites(data)
    BY <1>1, <1>4 DEF TwoWrites, Writes, TwoInv, IsOpen, FitsUWord
  <2>3. IInv'
    BY WriteStep DEF TwoInv, StepOK
  <2>4. MarkEnds(c.fp, c.disk)
    <3>1. Writes(data) /\ Apart(data)
      BY <2>2, TwoApart DEF TwoWrites
    <3>2. Outcome(c, data, {}) /\ \A i \in Offset : ByteResult(c, data, i, {})
      BY <2>1, <2>2, TwoWritten
    <3> QED
      BY <1>1, <3>1, <3>2, WriteMarkEnds DEF TwoInv
  <2>5. TwoInv'
    BY <2>1, <2>2, <2>3, <2>4, TwoWriteMarks, TwoWriteCalms, TwoNextInv
  <2>6. BF!Next
    BY <2>1, <2>2, TwoWriteBytes
  <2> QED
    BY <2>5, <2>6 DEF TwoOK
<1> QED
  BY <1>2, <1>3, <1>4

-----------------------------------------------------------------------------
(* The theorems. *)

LEMMA TwoBegins == TwoInit => TwoInv /\ BF!Init
<1> SUFFICES ASSUME TwoInit PROVE TwoInv /\ BF!Init
  OBVIOUS
<1>1. /\ fp.flags = {} /\ fp.offset = 0 /\ fp.sector = -1 /\ fp.hiwater = 0
      /\ DOMAIN disk = {} /\ io = [op |-> "none", n |-> 0, ret |-> 0, data |-> <<>>]
  BY DEF TwoInit, Init
<1>2. IInv
  BY InvInit DEF TwoInit
<1>3. Calm(fp, disk) /\ Marked(fp, disk) /\ MarkEnds(fp, disk)
  <2>1. SECSIZ * MaxSector \in Nat /\ MaxSector \in Nat
    BY CcbAssumption
  <2>2. InFile(fp, disk)
    BY <1>1, <2>1 DEF InFile
  <2> QED
    BY <1>1, <2>2, NoMark DEF Calm, Fresh, Trails, Marked, MarkEnds
<1>4. [i \in Offset |-> Shown(i)] = BF!Empty
  BY <1>1, BytePlaces DEF Shown
<1>5. BF!Init
  BY <1>1, <1>4 DEF BF!Init, BF!Call
<1> QED
  BY <1>2, <1>3, <1>5 DEF TwoInv

LEMMA TwoSteps ==
  FitsUWord /\ TwoInv /\ [TwoNext]_<<vars, seeks>> => TwoInv' /\ [BF!Next]_(BF!vars)
<1> SUFFICES ASSUME FitsUWord, TwoInv, [TwoNext]_<<vars, seeks>>
             PROVE  TwoInv' /\ [BF!Next]_(BF!vars)
  OBVIOUS
<1>1. CASE UNCHANGED <<vars, seeks>>
  <2>1. UNCHANGED <<fp, disk, seeks, io>>
    BY <1>1 DEF vars
  <2>2. TwoInv' /\ SameBytes /\ SameEof /\ SameMark /\ SameAccess
    BY <2>1, StillTwo
  <2>3. UNCHANGED BF!vars
    BY <2>1, <2>2, Contents DEF BF!vars, NowEof, SameEof, SameMark, SameAccess
  <2> QED
    BY <2>2, <2>3
<1>2. CASE TwoNext
  <2>0. UNCHANGED seeks
    BY <1>2 DEF TwoNext
  <2>1. CASE seeks /\ Seeking
    <3>1. CASE \E n \in ReadSizes : ~Bypasses(n) /\ Read(n, {})
      BY <2>0, <3>1, TwoRead DEF TwoOK
    <3>2. CASE \E data \in Data : ~Bypasses(Len(data)) /\ Write(data, {})
      BY <2>0, <3>2, TwoWrite DEF TwoOK
    <3>3. CASE \E seek \in Seeks : LSeek(seek[1], seek[2]) /\ fp'.offset >= 0
      BY <2>0, <2>1, <3>3, TwoLSeek DEF TwoOK
    <3> QED
      BY <2>1, <3>1, <3>2, <3>3 DEF Seeking
  <2>2. CASE ~seeks /\ Straight
    <3>1. CASE \E n \in ReadSizes : Read(n, {})
      BY <2>0, <2>2, <3>1, TwoRead DEF TwoOK
    <3>2. CASE \E data \in Data : Write(data, {})
      BY <2>0, <2>2, <3>2, TwoWrite DEF TwoOK
    <3> QED
      BY <2>2, <3>1, <3>2 DEF Straight
  <2>3. CASE Both
    <3>1. CASE Close({})
      BY <2>0, <3>1, TwoClose DEF TwoOK
    <3>2. CASE \E mode \in Modes : Open(mode)
      BY <2>0, <3>2, TwoOpen DEF TwoOK
    <3>3. CASE Creat
      BY <2>0, <3>3, TwoCreat DEF TwoOK
    <3> QED
      BY <2>3, <3>1, <3>2, <3>3 DEF Both
  <2> QED
    BY <1>2, <2>1, <2>2, <2>3 DEF TwoNext
<1> QED
  BY <1>1, <1>2

(* The high water mark covers what exists. *)
LEMMA TwoHiwater == TwoInv => HiwaterCovers
<1> SUFFICES ASSUME TwoInv, IsOpen,
                    NEW s \in DOMAIN disk \cup (IF "DIRTY" \in fp.flags THEN {fp.sector} ELSE {})
             PROVE  s <= (fp.hiwater - 1) \div SECSIZ
  BY DEF HiwaterCovers
<1>1. CASE "DIRTY" \in fp.flags /\ s = fp.sector
  BY <1>1, TwoCovered, TwoTypes DEF Covered
<1>2. CASE s \in DOMAIN disk /\ ~("DIRTY" \in fp.flags /\ s = fp.sector)
  <2>1. s \in Sectors
    BY <1>2 DEF TwoInv, Calm, InFile
  <2>2. PICK i \in Offset : i \div SECSIZ = s /\ i % SECSIZ \in 0 .. SECSIZ - 1
    BY <2>1, FirstByte
  <2>3. At(fp, disk, i) = disk[s][i % SECSIZ] /\ disk[s][i % SECSIZ] \in Byte
    BY <1>2, <2>2, TwoTypes DEF At, DiskOK, Sector
  <2>4. At(fp, disk, i) # None
    BY <2>3, CcbAssumption
  <2> QED
    BY <2>2, <2>4 DEF TwoInv, Marked, IsOpen
<1> QED
  BY <1>1, <1>2

LEMMA TwoCoherent == TwoInv => SeeksCoherent
<1> SUFFICES ASSUME TwoInv, seeks, IsOpen, fp.sector >= 0, "DIRTY" \notin fp.flags
             PROVE  fp.sector \in DOMAIN disk /\ disk[fp.sector] = fp.buffer
  BY DEF SeeksCoherent, BufferCoherent
<1>1. Holds(fp, disk)
  BY DEF TwoInv, Calm, Fresh, Behind
<1>2. PICK s \in Sectors : s = fp.sector
  BY TwoTypes DEF Sectors
<1>3. s \in DOMAIN disk
  <2>1. PICK i \in Offset : i \div SECSIZ = s /\ i % SECSIZ \in 0 .. SECSIZ - 1
    BY FirstByte
  <2>2. At(fp, disk, i) = fp.buffer[i % SECSIZ] /\ fp.buffer[i % SECSIZ] \in Byte
    BY <1>1, <1>2, <2>1, TwoTypes DEF Holds, Sector
  <2> QED
    BY <1>2, <2>1, <2>2, CcbAssumption DEF At
<1>4. ASSUME NEW r \in 0 .. SECSIZ - 1
      PROVE  disk[s][r] = fp.buffer[r]
  <2>1. SECSIZ \in Nat \ {0} /\ s \in Nat
    BY <1>2, CcbAssumption DEF Sectors
  <2>2. PICK q \in Int : q = s
    BY <2>1
  <2>3. PICK i \in Int : i = (SECSIZ * q) + r /\ i >= 0
    <3>1. PICK a \in Nat : a = SECSIZ * q
      BY <2>1, <2>2
    <3>2. a + r \in Int /\ a + r >= 0
      BY <2>1, <3>1
    <3> QED
      BY <3>1, <3>2
  <2>4. i \div SECSIZ = s /\ i % SECSIZ = r
    <3>1. i \div SECSIZ = q /\ i % SECSIZ = r
      BY <2>3, PlaceOf
    <3> QED
      BY <2>2, <3>1
  <2>5. i \in Offset
    BY <1>2, <2>3, <2>4, InOffset
  <2> QED
    BY <1>1, <1>2, <1>3, <2>4, <2>5 DEF Holds, At
<1>5. disk[s] \in Sector /\ fp.buffer \in Sector
  BY <1>3, TwoTypes DEF DiskOK
<1>6. disk[s] = fp.buffer
  <2>1. PICK f, g, places : f = disk[s] /\ g = fp.buffer /\ places = 0 .. SECSIZ - 1
    OBVIOUS
  <2>2. f \in [places -> Byte] /\ g \in [places -> Byte]
    BY <1>5, <2>1 DEF Sector
  <2>3. \A r \in places : f[r] = g[r]
    BY <1>4, <2>1
  <2>4. f = g
    BY <2>2, <2>3
  <2> QED
    BY <2>1, <2>4
<1> QED
  BY <1>2, <1>3, <1>6

LEMMA TwoInvariant == FitsUWord => (TwoSpec => []TwoInv)
<1> SUFFICES ASSUME FitsUWord PROVE TwoSpec => []TwoInv
  OBVIOUS
<1>1. TwoInit => TwoInv
  BY TwoBegins
<1>2. TwoInv /\ [TwoNext]_<<vars, seeks>> => TwoInv'
  BY TwoSteps
<1> QED
  BY <1>1, <1>2, PTL DEF TwoSpec

(* However a program of either kind mixes its calls, the high water mark   *)
(* covers every sector of the file: the writers start a sector above it    *)
(* without reading it (writebin.c:58).                                     *)
THEOREM HiwaterThm == FitsUWord => (TwoSpec => []HiwaterCovers)
BY TwoInvariant, TwoHiwater, PTL

(* A clean buffer of a program that seeks, and keeps whole sectors out of  *)
(* its requests, holds what the disk has of its sector (osif.h:77).        *)
THEOREM CoherentThm == FitsUWord => (TwoSpec => []SeeksCoherent)
BY TwoInvariant, TwoCoherent, PTL

(* With sectors, buffer, flushes and the UWORDs of the writers, the        *)
(* channel is the file of bytes of ByteFile for programs of both kinds:    *)
(* each call of read.c, write.c, lseek.c, open.c, close.c and creat.c is a *)
(* step of it.  In particular a write fails only on a channel opened to be *)
(* read (write.c:49) or at a hole below the high water mark                *)
(* (writebin.c:60), and a seek lands where its sense and offset say.       *)
(* Nothing is said of programs that seek and move whole sectors, of        *)
(* sectors BDOS refuses, and of fstat.                                     *)
THEOREM ByteFileThm == FitsUWord => (TwoSpec => ImplementsByteFile)
<1> SUFFICES ASSUME FitsUWord PROVE TwoSpec => ImplementsByteFile
  OBVIOUS
<1>1. TwoInit => BF!Init
  BY TwoBegins
<1>2. TwoInv /\ [TwoNext]_<<vars, seeks>> => [BF!Next]_(BF!vars)
  BY TwoSteps
<1> QED
  BY <1>1, <1>2, TwoInvariant, PTL DEF TwoSpec, ImplementsByteFile, BF!Spec

-----------------------------------------------------------------------------
(***************************************************************************)
(* A file read from its beginning to its end, and a file written from its  *)
(* beginning with the bytes of another: what every call of the two leaves  *)
(* in the buffer and on the disk.                                          *)
(*                                                                         *)
(* "image" is the file that is read, n its sectors.  The reader's buffer   *)
(* is never dirty, and holds the sector it is labelled with.  The writer's *)
(* is dirty exactly in the middle of a sector, which it is then labelled   *)
(* with; "all" says that the disk it writes to has the image already.      *)
(***************************************************************************)
Image(image, n) == n \in Nat \ {0} /\ n <= MaxSector /\ image \in [0 .. n - 1 -> Sector]

(* The byte of the image at an offset. *)
ByteOf(image, i) == image[i \div SECSIZ][i % SECSIZ]

LEMMA ImageFits ==
  ASSUME NEW image, NEW n, Image(image, n)
  PROVE  /\ n \in Nat /\ SECSIZ * n \in Nat /\ SECSIZ * n <= SECSIZ * MaxSector
         /\ SECSIZ * n > 0 /\ DOMAIN image = 0 .. n - 1
         /\ \A s \in 0 .. n - 1 : image[s] \in Sector
         /\ DiskOK(image) /\ Bounded(image) /\ DOMAIN image \subseteq Sectors
<1>1. n \in Nat \ {0} /\ n <= MaxSector /\ SECSIZ \in Nat \ {0} /\ MaxSector \in Nat
  BY CcbAssumption DEF Image
<1>2. SECSIZ * n \in Nat /\ SECSIZ * n <= SECSIZ * MaxSector /\ SECSIZ * n > 0
  <2>1. n * SECSIZ \in Nat /\ n * SECSIZ <= MaxSector * SECSIZ
    BY <1>1, Multiples
  <2>2. SECSIZ * n = n * SECSIZ /\ SECSIZ * MaxSector = MaxSector * SECSIZ
    BY <1>1
  <2>3. SECSIZ * n > 0
    BY <1>1
  <2> QED
    BY <2>1, <2>2, <2>3
<1>3. DOMAIN image = 0 .. n - 1 /\ \A s \in 0 .. n - 1 : image[s] \in Sector
  BY DEF Image
<1>4. image = [s \in DOMAIN image |-> image[s]]
  BY DEF Image
<1>5. DiskOK(image)
  BY <1>1, <1>3, <1>4 DEF DiskOK
<1>6. Bounded(image) /\ DOMAIN image \subseteq Sectors
  BY <1>1, <1>3 DEF Bounded, Sectors
<1> QED
  BY <1>1, <1>2, <1>3, <1>5, <1>6

-----------------------------------------------------------------------------
(* A read of a clean buffer that holds the sector it is labelled with      *)
(* leaves it so, and writes nothing.                                       *)

Held(f, d) == /\ "DIRTY" \notin f.flags
              /\ f.sector >= 0 => f.sector \in DOMAIN d /\ f.buffer = d[f.sector]

Clean(c, d) == ReadCall(c) /\ Held(c.fp, d) /\ c.disk = d /\ c.ok

LEMMA CleanOn ==
  ASSUME NEW c, NEW d, Clean(c, d),
         NEW t, ReadCall(t), t.disk = c.disk, Alike(t.fp, c.fp), t.ok = c.ok
  PROVE  Clean(t, d)
BY DEF Clean, Held, Alike

LEMMA CleanEnds ==
  ASSUME NEW c, NEW d, Clean(c, d)
  PROVE  /\ Clean(Return(c), d) /\ Clean(RaiseHiwater(c), d)
         /\ Clean([c EXCEPT !.fp.flags = @ \cup {"ATEOF"}], d)
<1>1. ReadCall(c)
  BY DEF Clean
<1>2. /\ Return(c).fp = c.fp /\ Return(c).disk = c.disk /\ Return(c).ok = c.ok
      /\ RaiseHiwater(c).disk = c.disk /\ RaiseHiwater(c).ok = c.ok
      /\ RaiseHiwater(c).fp = [c.fp EXCEPT !.hiwater = Greatest(c.fp.hiwater, c.fp.offset)]
      /\ [c EXCEPT !.fp.flags = @ \cup {"ATEOF"}].disk = c.disk
      /\ [c EXCEPT !.fp.flags = @ \cup {"ATEOF"}].ok = c.ok
      /\ [c EXCEPT !.fp.flags = @ \cup {"ATEOF"}].fp
           = [c.fp EXCEPT !.flags = @ \cup {"ATEOF"}]
  BY <1>1 DEF ReadCall, Return, RaiseHiwater
<1>3. /\ Alike(Return(c).fp, c.fp) /\ Alike(RaiseHiwater(c).fp, c.fp)
      /\ Alike([c EXCEPT !.fp.flags = @ \cup {"ATEOF"}].fp, c.fp)
  BY <1>1, <1>2 DEF ReadCall, FCB, Alike
<1> QED
  BY <1>1, <1>2, <1>3, ReadEnds, CleanOn

LEMMA CleanFlushed ==
  ASSUME NEW c, NEW d, Clean(c, d)
  PROVE  /\ FlushedDisk(c) = d /\ Flush(c).disk = d /\ Clean(Flush(c), d)
         /\ Flush(c).fp.offset = c.fp.offset /\ \A bad : CanFlush(c, bad)
<1>1. ReadCall(c) /\ "DIRTY" \notin c.fp.flags /\ c.disk = d
  BY DEF Clean, Held
<1>2. FlushedDisk(c) = d /\ \A bad : CanFlush(c, bad)
  BY <1>1 DEF FlushedDisk, Dirty, CanFlush
<1>3. Flush(c).disk = d /\ Flush(c).ok = c.ok /\ Alike(Flush(c).fp, c.fp)
  BY <1>1, <1>2 DEF Flush, ReadCall, FCB, Alike
<1>4. ReadCall(Flush(c)) /\ Flush(c).fp.offset = c.fp.offset
  BY <1>1, ReadFlushed
<1>5. Clean(Flush(c), d)
  BY <1>1, <1>3, <1>4, CleanOn
<1> QED
  BY <1>2, <1>3, <1>4, <1>5

LEMMA CleanLoaded ==
  ASSUME NEW c, NEW d, Clean(c, d), NEW s \in DOMAIN d
  PROVE  Clean(Load(c, s), d)
<1>1. ReadCall(c) /\ "DIRTY" \notin c.fp.flags /\ c.disk = d
  BY DEF Clean, Held
<1>2. ReadCall(Load(c, s))
  BY <1>1, ReadLoaded
<1>3. /\ Load(c, s).disk = d /\ Load(c, s).ok = c.ok
      /\ Load(c, s).fp.flags = c.fp.flags
      /\ Load(c, s).fp.sector = s /\ Load(c, s).fp.buffer = d[s]
  BY <1>1 DEF Load, ReadCall, FCB
<1> QED
  BY <1>2, <1>3 DEF Clean, Held

LEMMA CleanMoved ==
  ASSUME NEW c, NEW d, Clean(c, d), NEW k \in Nat, k <= c.left, NEW bytes
  PROVE  Clean([c EXCEPT !.moved = @ \o bytes, !.fp.offset = @ + k, !.left = @ - k], d)
<1> DEFINE t == [c EXCEPT !.moved = @ \o bytes, !.fp.offset = @ + k, !.left = @ - k]
<1>1. ReadCall(c)
  BY DEF Clean
<1>2. ReadCall(t)
  BY <1>1, ReadMoved
<1>3. t.disk = c.disk /\ t.ok = c.ok /\ Alike(t.fp, c.fp)
  BY <1>1 DEF ReadCall, FCB, Alike
<1> QED
  BY <1>2, <1>3, CleanOn

LEMMA CleanTaken ==
  ASSUME NEW c, NEW d, Clean(c, d), NEW p \in 0 .. SECSIZ - 1
  PROVE  Clean(Take(c, p), d)
<1>1. Least(c.left, SECSIZ - p) \in Nat /\ Least(c.left, SECSIZ - p) <= c.left
  BY CcbAssumption DEF Clean, ReadCall, Least
<1> QED
  BY <1>1, CleanMoved DEF Take

LEMMA CleanHead ==
  ASSUME NEW c, NEW d, Clean(c, d), NEW bad,
         c.fp.offset % SECSIZ = 0 \/ c.fp.offset \div SECSIZ \in DOMAIN d
  PROVE  Clean(ReadHead(c, bad), d)
<1>1. PICK s, p : s = c.fp.offset \div SECSIZ /\ p = c.fp.offset % SECSIZ
  OBVIOUS
<1>2. p \in 0 .. SECSIZ - 1
  BY <1>1, SectorArithmetic DEF Clean, ReadCall, FCB
<1>3. ASSUME NEW g, Clean(g, d) PROVE Clean(Got(g, p), d)
  <2>1. Clean(Take(g, p), d)
    BY <1>2, <1>3, CleanTaken
  <2> QED
    BY <2>1, CleanEnds DEF Got
<1>4. FlushedDisk(c) = d /\ CanFlush(c, bad) /\ Clean(Flush(c), d)
  BY CleanFlushed
<1>5. s \in DOMAIN d => Clean(Load(Flush(c), s), d)
  BY <1>4, CleanLoaded
<1>6. ReadHead(c, bad) =
        IF p = 0                        THEN c
        ELSE IF c.fp.sector = s         THEN Got(c, p)
        ELSE IF ~CanFlush(c, bad)       THEN Fail(c)
        ELSE IF s \notin DOMAIN FlushedDisk(c) THEN Fail(Flush(c))
        ELSE Got(Load(Flush(c), s), p)
  BY <1>1 DEF ReadHead, Got
<1> QED
  BY <1>1, <1>3, <1>4, <1>5, <1>6

LEMMA CleanDirect ==
  ASSUME NEW c, NEW d, Clean(c, d)
  PROVE  Clean(ReadDirect(c), d)
<1> DEFINE i == Transferred(c.fp.offset \div SECSIZ, c.left \div SECSIZ, DOMAIN c.disk)
           m == [c EXCEPT !.moved = @ \o DiskBytes(c.disk, c.fp.offset \div SECSIZ, i),
                          !.fp.offset = @ + i * SECSIZ,
                          !.left = @ - i * SECSIZ]
           t == RaiseHiwater(m)
<1>1. Clean(m, d)
  <2>1. i * SECSIZ \in Nat /\ i * SECSIZ <= c.left
    BY ReadDirectCount DEF Clean
  <2> QED
    BY <2>1, CleanMoved
<1>2. Clean(t, d)
  BY <1>1, CleanEnds
<1>3. ReadDirect(c) = IF c.done            THEN c
                      ELSE IF i # c.left \div SECSIZ
                           THEN Return([t EXCEPT !.fp.flags = @ \cup {"ATEOF"}])
                      ELSE IF t.left = 0   THEN Return(t)
                      ELSE t
  BY DEF ReadDirect
<1> HIDE DEF t
<1> QED
  BY <1>2, <1>3, CleanEnds

LEMMA CleanTail ==
  ASSUME NEW c, NEW d, Clean(c, d), NEW bad
  PROVE  Clean(ReadTail(c, bad), d)
<1>1. PICK s, f : s = c.fp.offset \div SECSIZ /\ f = Flush(c)
  OBVIOUS
<1>2. Clean(f, d) /\ CanFlush(c, bad) /\ f.disk = d
  BY <1>1, CleanFlushed
<1>3. ASSUME s \in DOMAIN d
      PROVE  Clean(Return(RaiseHiwater(Take(Load(f, s), 0))), d)
  <2>1. Clean(Load(f, s), d)
    BY <1>2, <1>3, CleanLoaded
  <2>2. 0 \in 0 .. SECSIZ - 1
    BY CcbAssumption
  <2>3. Clean(Take(Load(f, s), 0), d)
    BY <2>1, <2>2, CleanTaken
  <2> QED
    BY <2>3, CleanEnds
<1>4. ReadTail(c, bad) = IF c.done                  THEN c
                         ELSE IF ~CanFlush(c, bad)  THEN Fail(c)
                         ELSE IF s \notin DOMAIN f.disk
                              THEN Return([f EXCEPT !.fp.flags = @ \cup {"ATEOF"}])
                         ELSE Return(RaiseHiwater(Take(Load(f, s), 0)))
  BY <1>1 DEF ReadTail
<1> QED
  BY <1>2, <1>3, <1>4, CleanEnds

LEMMA CleanRdBin ==
  ASSUME IInv, Held(fp, disk), NEW n \in Nat, NEW bad,
         fp.offset % SECSIZ = 0 \/ fp.offset \div SECSIZ \in DOMAIN disk
  PROVE  Clean(RdBin(n, bad), disk)
<1>1. Clean(Begin(n), disk) /\ Begin(n).fp = fp
  <2>1. ReadCall(Begin(n))
    BY ReadBegins
  <2> QED
    BY <2>1 DEF Begin, Clean
<1>2. Clean(ReadHead(Begin(n), bad), disk)
  BY <1>1, CleanHead
<1>3. Clean(ReadDirect(ReadHead(Begin(n), bad)), disk)
  BY <1>2, CleanDirect
<1>4. Clean(ReadTail(ReadDirect(ReadHead(Begin(n), bad)), bad), disk)
  BY <1>3, CleanTail
<1>5. RdBin(n, bad) = ReadTail(ReadDirect(ReadHead(Begin(n), bad)), bad)
  BY DEF RdBin
<1> QED
  BY <1>4, <1>5

-----------------------------------------------------------------------------
(* The reader. *)

Reader(f, image, n) ==
  /\ f \in FCB /\ {"OPENED", "ISREAD"} \subseteq f.flags
  /\ Held(f, image)
  /\ f.offset \in 0 .. SECSIZ * n

(* It has met the end of the file only there. *)
EndKnown(f, n) == "ATEOF" \in f.flags => f.offset = SECSIZ * n

ReadsImage(image, n) == Image(image, n) /\ disk = image /\ Reader(fp, image, n)

LEMMA ReaderTypes ==
  ASSUME NEW image, NEW n, ReadsImage(image, n), ~seeks
  PROVE  /\ IInv /\ Covered(fp) /\ Calm(fp, disk)
         /\ fp.offset \in Nat /\ fp.hiwater \in Nat /\ "DIRTY" \notin fp.flags
<1>1. /\ fp \in FCB /\ "DIRTY" \notin fp.flags /\ fp.offset \in 0 .. SECSIZ * n
      /\ fp.sector >= 0 => fp.sector \in DOMAIN disk /\ fp.buffer = disk[fp.sector]
      /\ disk = image
  BY DEF ReadsImage, Reader, Held
<1>2. /\ DiskOK(disk) /\ Bounded(disk) /\ DOMAIN disk \subseteq Sectors
      /\ SECSIZ * n \in Nat /\ SECSIZ * n <= SECSIZ * MaxSector
  BY <1>1, ImageFits DEF ReadsImage
<1>3. fp.offset \in Nat /\ fp.hiwater \in Nat /\ fp.sector \in Nat \cup {-1}
  BY <1>1, <1>2 DEF FCB
<1>4. IInv /\ Covered(fp)
  BY <1>1, <1>2 DEF IInv, TypeOK, DirtyOwned, Covered
<1>5. InFile(fp, disk)
  <2>1. fp.offset \in 0 .. SECSIZ * MaxSector
    BY <1>1, <1>2, CcbAssumption
  <2>2. fp.sector < MaxSector
    BY <1>1, <1>2, <1>3, CcbAssumption DEF Sectors
  <2> QED
    BY <1>2, <2>1, <2>2 DEF InFile
<1>6. Fresh(fp, disk)
  BY <1>1 DEF Fresh, Holds, At
<1>7. Trails(fp)
  BY <1>1 DEF Trails
<1> QED
  BY <1>1, <1>3, <1>4, <1>5, <1>6, <1>7 DEF Calm

(* What the reader sees is the image, and nothing behind it. *)
LEMMA ReaderSees ==
  ASSUME NEW image, NEW n, ReadsImage(image, n), NEW i \in Nat
  PROVE  /\ i < SECSIZ * n => Shown(i) = ByteOf(image, i) /\ Shown(i) \in Byte /\ i \in Offset
         /\ i >= SECSIZ * n => Shown(i) = None
<1>1. /\ "DIRTY" \notin fp.flags /\ disk = image /\ Image(image, n)
  BY DEF ReadsImage, Reader, Held
<1>2. /\ n \in Nat /\ SECSIZ * n \in Nat /\ SECSIZ * n <= SECSIZ * MaxSector
      /\ DOMAIN image = 0 .. n - 1 /\ \A s \in 0 .. n - 1 : image[s] \in Sector
  BY <1>1, ImageFits
<1>3. PICK s \in Int, r \in 0 .. SECSIZ - 1 : s = i \div SECSIZ /\ r = i % SECSIZ
  BY SectorArithmetic
<1>4. s \in Nat /\ (i < SECSIZ * n <=> s < n)
  BY <1>2, <1>3, InSectors
<1>5. Shown(i) = IF s \in DOMAIN image THEN image[s][r] ELSE None
  BY <1>1, <1>3 DEF Shown
<1>6. ASSUME i < SECSIZ * n
      PROVE  Shown(i) = ByteOf(image, i) /\ Shown(i) \in Byte /\ i \in Offset
  <2>1. s \in 0 .. n - 1
    BY <1>2, <1>4, <1>6
  <2>2. Shown(i) = image[s][r] /\ image[s] \in Sector
    BY <1>2, <1>5, <2>1
  <2>3. i \in Offset
    <3>1. SECSIZ * MaxSector \in Nat
      BY CcbAssumption
    <3>2. i < SECSIZ * MaxSector
      BY <1>2, <1>6, <3>1
    <3> QED
      BY <3>2, InOffset
  <2> QED
    BY <1>3, <2>2, <2>3 DEF ByteOf, Sector
<1>7. ASSUME i >= SECSIZ * n PROVE Shown(i) = None
  BY <1>2, <1>4, <1>5, <1>7
<1> QED
  BY <1>6, <1>7

(* A read of m bytes delivers what there is, k of them. *)
ReadOf(image, n, k) ==
  /\ io'.ret = k /\ io'.data \in Seq(Byte) /\ Len(io'.data) = k
  /\ \A j \in 1 .. k : io'.data[j] = ByteOf(image, (fp.offset + j) - 1)
  /\ fp'.offset = fp.offset + k
  /\ k = 0 <=> fp.offset = SECSIZ * n
  /\ disk' = image /\ Reader(fp', image, n) /\ EndKnown(fp', n)

LEMMA ReaderAtEnd ==
  ASSUME NEW image, NEW n, ReadsImage(image, n), ~seeks, EndKnown(fp, n), "ATEOF" \in fp.flags,
         NEW m, Read(m, {})
  PROVE  ReadOf(image, n, 0)
<1>1. Answer("read", m, 0, <<>>) /\ UNCHANGED <<fp, disk>>
  BY DEF Read
<1>2. fp.offset = SECSIZ * n /\ fp.offset \in Nat
  BY ReaderTypes DEF EndKnown
<1>3. io'.ret = 0 /\ io'.data = <<>>
  BY <1>1 DEF Answer
<1>4. io'.data \in Seq(Byte) /\ Len(io'.data) = 0
  BY <1>3
<1>5. fp'.offset = fp.offset + 0
  BY <1>1, <1>2
<1> QED
  BY <1>1, <1>2, <1>3, <1>4, <1>5 DEF ReadOf, ReadsImage, EndKnown

LEMMA ReaderReads ==
  ASSUME NEW image, NEW n, ReadsImage(image, n), ~seeks, EndKnown(fp, n),
         NEW m \in Nat \ {0}, Read(m, {})
  PROVE  \E k \in 0 .. m : ReadOf(image, n, k)
<1>1. CASE "ATEOF" \in fp.flags
  <2>1. 0 \in 0 .. m
    OBVIOUS
  <2> QED
    BY <1>1, <2>1, ReaderAtEnd
<1>2. CASE "ATEOF" \notin fp.flags
  <2>0. /\ IInv /\ Covered(fp) /\ Calm(fp, disk)
        /\ fp.offset \in Nat /\ fp.hiwater \in Nat /\ "DIRTY" \notin fp.flags
    BY ReaderTypes
  <2>1. PICK c : /\ c = RdBin(m, {}) /\ fp' = c.fp /\ disk' = c.disk
                 /\ Answer("read", m, IF c.ok THEN Len(c.moved) ELSE Failure,
                                      IF c.ok THEN c.moved ELSE <<>>)
    BY <1>2 DEF Read
  <2>2. PICK e, x : e = SECSIZ * n /\ x = fp.offset
    OBVIOUS
  <2>3. e \in Nat /\ x \in 0 .. e /\ n \in Nat /\ disk = image /\ DOMAIN disk = 0 .. n - 1
    BY <2>2, ImageFits DEF ReadsImage, Reader
  <2>4. Reading(c, m) /\ c.done
    <3>1. Reads(m)
      BY <1>2, <2>0 DEF Reads
    <3> QED
      BY <2>1, <3>1, RdBinReads
  <2>5. Clean(c, disk)
    <3>1. Held(fp, disk)
      BY <2>3 DEF ReadsImage, Reader
    <3>2. fp.offset % SECSIZ = 0 \/ fp.offset \div SECSIZ \in DOMAIN disk
      <4>1. x < e <=> x \div SECSIZ < n
        BY <2>2, <2>3, InSectors
      <4>2. x \div SECSIZ \in Nat /\ e % SECSIZ = 0
        <5>1. x \in Int /\ x >= 0
          BY <2>3
        <5>2. x \div SECSIZ \in Nat
          BY <5>1, SectorArithmetic
        <5>3. e % SECSIZ = 0
          BY <2>2, <2>3, <5>1, InSectors
        <5> QED
          BY <5>2, <5>3
      <4>3. CASE x < e
        BY <2>2, <2>3, <4>1, <4>2, <4>3
      <4>4. CASE x = e
        BY <2>2, <4>2, <4>4
      <4> QED
        BY <2>3, <4>3, <4>4
    <3> QED
      BY <2>0, <2>1, <3>1, <3>2, CleanRdBin
  <2>6. PICK b, k : b = c.moved /\ k = Len(b)
    OBVIOUS
  <2>7. /\ ReadCall(c) /\ Delivers(b) /\ Ending(c) /\ c.ok
        /\ c.fp.offset = x + k /\ k + c.left = m /\ c.left \in Nat
    BY <2>2, <2>4, <2>5, <2>6, ReadFields DEF Reading, Count, Clean
  <2>8. b \in Seq(Byte) /\ k \in Nat /\ k <= m
    BY <2>6, <2>7 DEF Delivers
  <2>9. ASSUME NEW j \in 1 .. k
        PROVE  b[j] = ByteOf(image, (x + j) - 1) /\ (x + j) - 1 < e
    <3>1. PICK i : i = (x + j) - 1
      OBVIOUS
    <3>2. b[j] = Shown(i) /\ b[j] \in Byte
      BY <2>2, <2>6, <2>7, <2>8, <3>1 DEF Delivers
    <3>3. i \in Nat
      BY <2>3, <2>8, <3>1
    <3>4. Shown(i) # None
      BY <3>2, CcbAssumption
    <3>5. i < e
      BY <2>2, <2>3, <3>3, <3>4, ReaderSees
    <3> QED
      BY <2>2, <3>1, <3>2, <3>3, <3>5, ReaderSees
  <2>10. x + k <= e
    <3>1. CASE k = 0
      BY <2>3, <3>1
    <3>2. CASE k > 0
      <4>1. (x + k) - 1 < e
        BY <2>8, <2>9, <3>2
      <4> QED
        BY <2>3, <2>8, <4>1
    <3> QED
      BY <2>8, <3>1, <3>2
  <2>11. c.left > 0 => x + k = e
    <3> SUFFICES ASSUME c.left > 0 PROVE x + k = e
      OBVIOUS
    <3>1. Missing(x + k)
      <4>1. c.left # 0
        BY <2>7
      <4> QED
        BY <2>7, <4>1 DEF Ending
    <3>2. x + k \in Nat
      BY <2>3, <2>8
    <3>3. ~ (x + k < e)
      BY <2>2, <3>1, <3>2, ReaderSees, CcbAssumption DEF Missing
    <3> QED
      BY <2>3, <2>10, <3>2, <3>3
  <2>12. k = 0 <=> x = e
    BY <2>3, <2>7, <2>8, <2>10, <2>11
  <2>13. disk' = image /\ Held(fp', image) /\ fp' \in FCB
    BY <2>1, <2>3, <2>5 DEF Clean, ReadCall
  <2>14. Reader(fp', image, n)
    <3>1. {"OPENED", "ISREAD"} \subseteq fp'.flags
      <4>1. Access(c.fp) = Access(fp)
        BY <2>7 DEF ReadCall, Sound
      <4>2. {"OPENED", "ISREAD"} \subseteq fp.flags
        BY DEF ReadsImage, Reader
      <4> QED
        BY <2>1, <4>1, <4>2 DEF Access
    <3>2. x + k \in 0 .. e
      BY <2>3, <2>8, <2>10
    <3> QED
      BY <2>1, <2>2, <2>7, <2>13, <3>1, <3>2 DEF Reader
  <2>15. EndKnown(fp', n)
    BY <2>1, <2>2, <2>7, <2>11 DEF EndKnown, Ending
  <2>16. io'.ret = k /\ io'.data = b
    BY <2>1, <2>6, <2>7 DEF Answer
  <2>17. ReadOf(image, n, k)
    BY <2>1, <2>2, <2>6, <2>7, <2>8, <2>9, <2>12, <2>13, <2>14, <2>15, <2>16 DEF ReadOf
  <2> QED
    BY <2>8, <2>17
<1> QED
  BY <1>1, <1>2

-----------------------------------------------------------------------------
(* The other calls of the reader. *)

LEMMA ImageSize ==
  ASSUME NEW image, NEW n, Image(image, n), NEW f, "DIRTY" \notin f.flags
  PROVE  FileSize(f, image) = SECSIZ * n
<1>1. /\ n \in Nat /\ DOMAIN image = 0 .. n - 1 /\ DOMAIN image \subseteq Nat /\ n > 0
      /\ Bounded(image)
  BY ImageFits DEF Image, DiskOK
<1>2. n - 1 \in DOMAIN image
  BY <1>1
<1>3. PICK l : l = LastSector(image)
  OBVIOUS
<1>4. l \in DOMAIN image /\ \A t \in DOMAIN image : t <= l
  <2>1. DOMAIN image # {}
    BY <1>2
  <2> QED
    BY <1>1, <1>3, <2>1, LastSectorType
<1>5. l = n - 1
  <2>1. l \in 0 .. n - 1 /\ n - 1 <= l
    BY <1>1, <1>2, <1>4
  <2> QED
    BY <1>1, <2>1
<1>6. 1 + l = n
  BY <1>1, <1>5
<1> QED
  BY <1>2, <1>3, <1>6 DEF FileSize

(* What lseek and _filesz leave of a clean buffer. *)
LEMMA ReaderMoved ==
  ASSUME NEW image, NEW n, NEW f, Reader(f, image, n),
         NEW g \in FCB, Moved(f, g), Alike(g, f), g.offset \in 0 .. SECSIZ * n
  PROVE  Reader(g, image, n)
BY DEF Reader, Held, Moved, Alike

LEMMA ReaderSeeks ==
  ASSUME NEW image, NEW n, ReadsImage(image, n), NEW sense \in Senses, LSeek(0, sense)
  PROVE  /\ io'.ret = CASE sense = 0 -> 0 [] sense = 1 -> fp.offset [] sense = 2 -> SECSIZ * n
         /\ fp'.offset = io'.ret
         /\ disk' = image /\ Reader(fp', image, n) /\ EndKnown(fp', n)
<1>1. /\ Image(image, n) /\ disk = image /\ Reader(fp, image, n)
      /\ fp \in FCB /\ "DIRTY" \notin fp.flags /\ fp.offset \in 0 .. SECSIZ * n
  BY DEF ReadsImage, Reader, Held
<1>2. PICK e \in Nat : e = SECSIZ * n
  BY <1>1, ImageFits
<1>3. DiskOK(disk) /\ Bounded(disk)
  BY <1>1, ImageFits
<1>0. PICK zero \in Int : zero = 0
  OBVIOUS
<1>4. PICK g : g = Seeked(fp, disk, zero, sense)
  OBVIOUS
<1>5. fp' = g /\ disk' = image /\ io'.ret = g.offset
  BY <1>0, <1>1, <1>4 DEF LSeek, Answer
<1>6. /\ g \in FCB /\ Alike(g, fp) /\ "ATEOF" \notin g.flags
  BY <1>1, <1>3, <1>4, SeekFields
<1>7. Moved(fp, g)
  BY <1>1, <1>3, <1>4, SeekMoves
<1>8. g.offset = CASE sense = 0 -> 0 [] sense = 1 -> fp.offset [] sense = 2 -> e
  <2>1. PICK h : h = IF sense = 2 THEN Filesz(fp, disk) ELSE fp
    OBVIOUS
  <2>2. FileSize(fp, disk) = e
    BY <1>1, <1>2, ImageSize
  <2>3. h \in FCB /\ h.hiwater = IF sense = 2 THEN e ELSE fp.hiwater
    BY <1>1, <1>2, <2>1, <2>2 DEF Filesz, FCB, Flag
  <2>4. sense # 2 => h = fp
    BY <2>1
  <2>5. PICK t : t = Target(h, 0, sense)
    OBVIOUS
  <2>6. t = CASE sense = 0 -> 0 [] sense = 1 -> fp.offset + 0 [] sense = 2 -> e + 0
    BY <2>3, <2>4, <2>5 DEF Target, Senses
  <2>7. t = CASE sense = 0 -> 0 [] sense = 1 -> fp.offset [] sense = 2 -> e
    <3>1. fp.offset \in Nat
      BY <1>1, <1>2
    <3> QED
      BY <1>2, <2>6, <3>1 DEF Senses
  <2>8. t \in Nat
    BY <1>1, <1>2, <2>7 DEF Senses
  <2>9. g = MovedTo(h, t)
    BY <1>0, <1>4, <2>1, <2>5 DEF Seeked
  <2>10. g.offset = t
    BY <2>3, <2>8, <2>9 DEF MovedTo, FCB
  <2> QED
    BY <2>7, <2>10
<1>9. g.offset \in 0 .. e
  BY <1>1, <1>2, <1>8 DEF Senses
<1>10. Reader(g, image, n)
  BY <1>1, <1>2, <1>6, <1>7, <1>9, ReaderMoved
<1> QED
  BY <1>2, <1>5, <1>6, <1>8, <1>10 DEF EndKnown

LEMMA ReaderStats ==
  ASSUME NEW image, NEW n, ReadsImage(image, n), FStat
  PROVE  /\ io'.ret = SECSIZ * n
         /\ disk' = image /\ Reader(fp', image, n) /\ fp'.offset = fp.offset
<1>1. /\ Image(image, n) /\ disk = image /\ Reader(fp, image, n)
      /\ fp \in FCB /\ "DIRTY" \notin fp.flags /\ fp.offset \in 0 .. SECSIZ * n
  BY DEF ReadsImage, Reader, Held
<1>2. DiskOK(disk) /\ Bounded(disk)
  BY <1>1, ImageFits
<1>3. PICK h, g : h = Filesz(fp, disk) /\ g = [h EXCEPT !.offset = fp.offset]
  OBVIOUS
<1>4. h \in FCB /\ Alike(h, fp) /\ Moved(fp, h)
  BY <1>1, <1>2, <1>3, FileszAlike, FileszMoves
<1>5. fp.offset \in Nat
  BY <1>1, ImageFits
<1>6. /\ g \in FCB /\ g.offset = fp.offset /\ g.flags = h.flags
      /\ g.sector = h.sector /\ g.buffer = h.buffer
  BY <1>3, <1>4, <1>5 DEF FCB
<1>7. Alike(g, fp) /\ Moved(fp, g)
  BY <1>4, <1>6 DEF Alike, Moved
<1>8. Reader(g, image, n)
  BY <1>1, <1>6, <1>7, ReaderMoved
<1>9. fp' = g /\ disk' = disk /\ io'.ret = FileSize(fp, disk)
  BY <1>3 DEF FStat, Answer
<1> QED
  BY <1>1, <1>6, <1>8, <1>9, ImageSize

LEMMA ReaderCloses ==
  ASSUME NEW image, NEW n, ReadsImage(image, n), NEW bad, Close(bad)
  PROVE  disk' = image /\ fp' \in FCB
<1>1. disk = image /\ fp \in FCB /\ "DIRTY" \notin fp.flags
  BY DEF ReadsImage, Reader, Held
<1>2. FlushedDisk(Begin(0)) = image
  BY <1>1 DEF FlushedDisk, Dirty, Begin
<1>3. disk' = image /\ fp' = Chinit(fp)
  BY <1>1, <1>2 DEF Close
<1> QED
  BY <1>1, <1>3 DEF Chinit, FCB, Flag

(* A channel that is not open, as __chinit leaves it. *)
Shut(f) == f \in FCB /\ f.flags = {}

(* _open of a file of n sectors. *)
Opened(g, mode, size) ==
  /\ g \in FCB /\ g.flags = ModeFlags(mode)
  /\ g.offset = 0 /\ g.sector = -1 /\ g.hiwater = size

LEMMA OpensImage ==
  ASSUME NEW image, NEW n, Image(image, n), disk = image, Shut(fp),
         NEW mode \in {READ, WRITE}, Open(mode)
  PROVE  disk' = image /\ Opened(fp', mode, SECSIZ * n)
<1>1. DiskOK(disk) /\ Bounded(disk)
  BY ImageFits
<1>2. PICK f : f = [Chinit(fp) EXCEPT !.flags = ModeFlags(mode)]
  OBVIOUS
<1>3. PICK g, h : g = Seeked(f, disk, 0, 2) /\ h = Seeked(g, disk, 0, 0)
  OBVIOUS
<1>4. fp' = h /\ disk' = disk
  BY <1>2, <1>3 DEF Open
<1>5. f \in FCB /\ f.flags = ModeFlags(mode) /\ f.sector = -1
  BY <1>2 DEF Chinit, ModeFlags, FCB, Flag, Shut
<1>6. "DIRTY" \notin ModeFlags(mode) /\ "ATEOF" \notin ModeFlags(mode)
  BY DEF ModeFlags
<1>7. PICK zero \in Int, end \in Senses, start \in Senses : zero = 0 /\ end = 2 /\ start = 0
  BY DEF Senses
<1>8. /\ g \in FCB /\ Alike(g, f) /\ Moved(f, g) /\ "ATEOF" \notin g.flags
      /\ g.hiwater = FileSize(f, disk)
  BY <1>1, <1>3, <1>5, <1>7, SeekFields, SeekMoves
<1>9. /\ h \in FCB /\ Alike(h, g) /\ Moved(g, h) /\ "ATEOF" \notin h.flags /\ h.offset = 0
      /\ h.hiwater \in {g.hiwater, FileSize(g, disk)}
  BY <1>1, <1>3, <1>7, <1>8, SeekFields, SeekMoves
<1>10. h.flags = ModeFlags(mode) /\ h.sector = -1
  BY <1>5, <1>6, <1>8, <1>9 DEF Moved
<1>11. FileSize(f, disk) = SECSIZ * n /\ FileSize(g, disk) = SECSIZ * n
  BY <1>5, <1>6, <1>8, ImageSize DEF Alike
<1> QED
  BY <1>4, <1>8, <1>9, <1>10, <1>11 DEF Opened

LEMMA ReaderOpens ==
  ASSUME NEW image, NEW n, Image(image, n), disk = image, Shut(fp), Open(READ)
  PROVE  disk' = image /\ Reader(fp', image, n) /\ EndKnown(fp', n) /\ fp'.offset = 0
<1>1. PICK mode \in {READ, WRITE} : mode = READ
  OBVIOUS
<1>2. disk' = image /\ Opened(fp', mode, SECSIZ * n)
  BY <1>1, OpensImage
<1>3. SECSIZ * n \in Nat
  BY ImageFits
<1>4. 0 \in 0 .. SECSIZ * n
  BY <1>3
<1> QED
  BY <1>1, <1>2, <1>4 DEF Opened, Reader, Held, EndKnown, ModeFlags

-----------------------------------------------------------------------------
(* A disk that shows the image is the image. *)

(* The byte there is at an offset. *)
ImageAt(image, n, i) == IF i < SECSIZ * n THEN ByteOf(image, i) ELSE None

LEMMA DiskIsImage ==
  ASSUME NEW image, NEW n, Image(image, n), NEW d, DiskOK(d), DOMAIN d \subseteq Sectors,
         NEW f, "DIRTY" \notin f.flags,
         \A i \in Offset : At(f, d, i) = ImageAt(image, n, i)
  PROVE  d = image
<1>1. /\ n \in Nat /\ n <= MaxSector /\ MaxSector \in Nat /\ SECSIZ \in Nat \ {0}
      /\ DOMAIN image = 0 .. n - 1 /\ \A s \in 0 .. n - 1 : image[s] \in Sector
      /\ DiskOK(image)
  BY ImageFits, CcbAssumption DEF Image
<1>2. ASSUME NEW s \in Sectors, NEW r \in 0 .. SECSIZ - 1
      PROVE  /\ s \in DOMAIN d <=> s \in 0 .. n - 1
             /\ s \in DOMAIN d => d[s][r] = image[s][r]
  <2>1. s \in Int /\ s >= 0
    BY <1>1 DEF Sectors
  <2>2. PICK i \in Int : i = (SECSIZ * s) + r
    BY <1>1, <2>1
  <2>3. i \div SECSIZ = s /\ i % SECSIZ = r
    BY <2>1, <2>2, PlaceOf
  <2>4. i >= 0 /\ (i < SECSIZ * n <=> s < n)
    BY <1>1, <2>1, <2>3, InSectors
  <2>5. i \in Offset
    <3>1. i \in Nat
      BY <2>4
    <3> QED
      BY <2>3, <3>1, InOffset
  <2>6. At(f, d, i) = ImageAt(image, n, i)
    BY <2>5
  <2>7. At(f, d, i) = IF s \in DOMAIN d THEN d[s][r] ELSE None
    BY <2>3 DEF At
  <2>8. ImageAt(image, n, i) = IF s < n THEN image[s][r] ELSE None
    BY <2>3, <2>4 DEF ImageAt, ByteOf
  <2>9. s < n <=> s \in 0 .. n - 1
    BY <1>1, <2>1
  <2>10. s \in DOMAIN d => d[s][r] # None
    BY CcbAssumption DEF DiskOK, Sector
  <2>11. s < n => image[s][r] # None
    BY <1>1, <2>9, CcbAssumption DEF Sector
  <2> QED
    BY <2>6, <2>7, <2>8, <2>9, <2>10, <2>11
<1>3. 0 \in 0 .. SECSIZ - 1 /\ 0 .. n - 1 \subseteq Sectors
  BY <1>1 DEF Sectors
<1>4. DOMAIN d = DOMAIN image
  BY <1>1, <1>2, <1>3
<1>5. ASSUME NEW s \in DOMAIN d PROVE d[s] = image[s]
  <2>1. s \in Sectors /\ d[s] \in Sector /\ image[s] \in Sector
    BY <1>1, <1>4 DEF DiskOK
  <2>2. PICK a \in Sector, b \in Sector : a = d[s] /\ b = image[s]
    BY <2>1
  <2>3. \A r \in 0 .. SECSIZ - 1 : a[r] = b[r]
    BY <1>2, <2>1, <2>2
  <2>4. a = b
    <3>1. a = [r \in 0 .. SECSIZ - 1 |-> a[r]] /\ b = [r \in 0 .. SECSIZ - 1 |-> b[r]]
      BY DEF Sector
    <3> QED
      BY <2>3, <3>1
  <2> QED
    BY <2>2, <2>4
<1>6. d = [s \in DOMAIN d |-> d[s]] /\ image = [s \in DOMAIN image |-> image[s]]
  BY <1>1 DEF DiskOK
<1> QED
  BY <1>4, <1>5, <1>6

(* And the image shows itself. *)
LEMMA ImageShows ==
  ASSUME NEW image, NEW n, Image(image, n), NEW f, "DIRTY" \notin f.flags, NEW i \in Offset
  PROVE  At(f, image, i) = ImageAt(image, n, i)
<1>1. n \in Nat /\ DOMAIN image = 0 .. n - 1
  BY ImageFits
<1>2. i \in Int /\ i \div SECSIZ \in Nat
  BY OffsetPlace
<1>3. i < SECSIZ * n <=> i \div SECSIZ < n
  BY <1>1, <1>2, InSectors
<1>4. i < SECSIZ * n <=> i \div SECSIZ \in DOMAIN image
  BY <1>1, <1>2, <1>3
<1> QED
  BY <1>4 DEF At, ImageAt, ByteOf

-----------------------------------------------------------------------------
(* The writer: a straight program of BinPrograms, which has written the    *)
(* first bytes of the image, and none behind it.  Its file has no hole.    *)

Solid(f, d) == \A i \in Offset : i < f.hiwater => At(f, d, i) # None

Writer(f, d, image, n) ==
  /\ f \in FCB /\ Owned(f) /\ DiskOK(d) /\ Bounded(d)
  /\ "OPENED" \in f.flags /\ "ISREAD" \notin f.flags
  /\ Calm(f, d) /\ Marked(f, d) /\ Solid(f, d)
  /\ f.offset <= SECSIZ * n /\ f.hiwater <= SECSIZ * n
  /\ \A i \in Offset : i < f.offset => At(f, d, i) = ByteOf(image, i)

(* It writes onto the image itself, which shows all the time.              *)
Onto(f, d, image, n) ==
  d = image /\ \A i \in Offset : At(f, d, i) = ImageAt(image, n, i)

(* Bytes of the image from an offset on. *)
Excerpt(data, image, n, x) ==
  /\ data \in Seq(Byte) /\ data # <<>> /\ x + Len(data) <= SECSIZ * n
  /\ \A j \in 1 .. Len(data) : data[j] = ByteOf(image, (x + j) - 1)

WritesImage(data, image, n) ==
  /\ ~seeks /\ MaxSector < UWord
  /\ Image(image, n) /\ Writer(fp, disk, image, n)
  /\ Excerpt(data, image, n, fp.offset) /\ Len(data) < UWord

LEMMA WriterIsTwo ==
  ASSUME NEW image, NEW n, Image(image, n), Writer(fp, disk, image, n)
  PROVE  TwoInv /\ IsOpen /\ ~Refused
<1>1. IInv /\ Calm(fp, disk) /\ Marked(fp, disk) /\ IsOpen /\ ~Refused
  BY DEF Writer, IInv, TypeOK, DirtyOwned, Owned, IsOpen, Refused
<1>2. MarkEnds(fp, disk)
  <2> SUFFICES ASSUME fp.hiwater % SECSIZ # 0
               PROVE  fp.hiwater - 1 \in Offset /\ At(fp, disk, fp.hiwater - 1) # None
    BY DEF MarkEnds
  <2>1. PICK h \in Nat, e \in Nat : h = fp.hiwater /\ e = SECSIZ * MaxSector /\ h <= e
    <3>1. fp.hiwater \in Nat /\ fp.hiwater <= SECSIZ * n
      BY DEF Writer, FCB
    <3>2. SECSIZ * n \in Nat /\ SECSIZ * MaxSector \in Nat /\ SECSIZ * n <= SECSIZ * MaxSector
      BY ImageFits, CcbAssumption
    <3>3. fp.hiwater <= SECSIZ * MaxSector
      BY <3>1, <3>2
    <3> QED
      BY <3>1, <3>2, <3>3
  <2>2. h # 0
    BY <2>1, NoMark
  <2>3. h - 1 \in 0 .. e - 1 /\ h - 1 < h
    BY <2>1, <2>2
  <2> QED
    BY <2>1, <2>3 DEF Writer, Solid, Offset
<1> QED
  BY <1>1, <1>2 DEF TwoInv

(* A byte of the image is there. *)
LEMMA ImageByte ==
  ASSUME NEW image, NEW n, Image(image, n), NEW i \in Nat, i < SECSIZ * n
  PROVE  ByteOf(image, i) # None
<1>1. n \in Nat /\ i \in Int /\ i >= 0
  BY DEF Image
<1>2. i \div SECSIZ \in Nat /\ i % SECSIZ \in 0 .. SECSIZ - 1
  BY <1>1, SectorArithmetic
<1>3. i \div SECSIZ < n
  BY <1>1, InSectors
<1>4. i \div SECSIZ \in 0 .. n - 1
  BY <1>1, <1>2, <1>3
<1>5. image[i \div SECSIZ] \in Sector
  BY <1>4 DEF Image
<1> QED
  BY <1>2, <1>5, CcbAssumption DEF ByteOf, Sector

LEMMA ImageWrites ==
  ASSUME NEW data, NEW image, NEW n, WritesImage(data, image, n)
  PROVE  /\ TwoWrites(data) /\ n \in Nat /\ SECSIZ * n \in Nat
         /\ fp.offset \in Nat /\ fp.hiwater \in Nat /\ Len(data) \in Nat
         /\ fp.offset <= SECSIZ * n /\ fp.hiwater <= SECSIZ * n
         /\ fp.offset + Len(data) <= SECSIZ * n /\ SECSIZ * n <= SECSIZ * MaxSector
         /\ SECSIZ * MaxSector \in Nat
<1>1. TwoInv /\ IsOpen /\ ~Refused
  BY WriterIsTwo DEF WritesImage
<1>2. /\ n \in Nat /\ SECSIZ * n \in Nat /\ SECSIZ * n <= SECSIZ * MaxSector
      /\ SECSIZ * MaxSector \in Nat
  BY <1>1, ImageFits, TwoTypes DEF WritesImage
<1>3. fp.offset \in Nat /\ fp.hiwater \in Nat
  BY <1>1, TwoTypes
<1>4. data \in Seq(Byte) /\ data # <<>> /\ Len(data) \in Nat
  BY DEF WritesImage, Excerpt
<1>5. /\ fp.offset + Len(data) <= SECSIZ * n
      /\ fp.offset <= SECSIZ * n /\ fp.hiwater <= SECSIZ * n
  BY DEF WritesImage, Excerpt, Writer
<1>6. Fits(Len(data))
  BY <1>2, <1>3, <1>4, <1>5 DEF Fits
<1>7. Writes(data)
  BY <1>1, <1>4, <1>6 DEF Writes, TwoInv, WritesImage
<1>8. TwoWrites(data)
  BY <1>1, <1>7 DEF TwoWrites, WritesImage
<1> QED
  BY <1>2, <1>3, <1>4, <1>5, <1>8

(* A byte of the range is the byte of the image. *)
LEMMA ExcerptByte ==
  ASSUME NEW data, NEW image, NEW n, WritesImage(data, image, n), NEW i \in Nat, InRange(data, i)
  PROVE  data[i - fp.offset + 1] = ByteOf(image, i) /\ i < SECSIZ * n
<1>1. PICK x \in Nat, l \in Nat, e \in Nat :
        x = fp.offset /\ l = Len(data) /\ e = SECSIZ * n /\ x + l <= e
  BY ImageWrites
<1>2. PICK j : j = i - x + 1
  OBVIOUS
<1>3. j \in 1 .. l /\ (x + j) - 1 = i /\ i < e
  <2>1. i \in x .. x + l - 1
    BY <1>1 DEF InRange
  <2>2. i >= x /\ i <= x + l - 1 /\ x + l <= e
    BY <1>1, <2>1
  <2> QED
    BY <1>2, <2>2
<1>4. data[j] = ByteOf(image, (x + j) - 1)
  BY <1>1, <1>3 DEF WritesImage, Excerpt
<1> QED
  BY <1>1, <1>2, <1>3, <1>4

(* How a write of it ends, whichever sectors BDOS refuses. *)
LEMMA ImageWritten ==
  ASSUME NEW data, NEW image, NEW n, WritesImage(data, image, n), NEW bad, Write(data, bad)
  PROVE  \E c : /\ c = WrtBin(data, bad) /\ fp' = c.fp /\ disk' = c.disk
                /\ io'.op = "write" /\ io'.ret = IF c.ok THEN Len(data) ELSE Failure
                /\ Outcome(c, data, bad) /\ \A i \in Offset : ByteResult(c, data, i, bad)
                /\ DOMAIN c.disk \subseteq Sectors
<1>1. TwoWrites(data) /\ TwoInv /\ Writes(data)
  BY ImageWrites DEF TwoWrites
<1>2. PICK c : /\ c = WrtBin(data, bad) /\ fp' = c.fp /\ disk' = c.disk
               /\ Answer("write", Len(data), IF c.ok THEN U(c.sent) ELSE Failure, data)
  BY <1>1 DEF Write, Writes
<1>3. Outcome(c, data, bad) /\ \A i \in Offset : ByteResult(c, data, i, bad)
  BY <1>1, <1>2, TwoOrderly, WrtBinOutcome
<1>4. DOMAIN c.disk \subseteq Sectors
  <2>1. fp.offset >= 0 /\ fp.sector < MaxSector /\ DOMAIN disk \subseteq Sectors
    BY <1>1, TwoTypes DEF TwoInv, Calm, InFile
  <2> QED
    BY <1>1, <1>2, <2>1, WrtBinLands
<1>5. c.ok => U(c.sent) = Len(data)
  BY <1>3, ImageWrites, UExact DEF Outcome, WritesImage
<1> QED
  BY <1>2, <1>3, <1>4, <1>5 DEF Answer

LEMMA WriterMarks ==
  ASSUME NEW data, NEW image, NEW n, WritesImage(data, image, n), NEW bad,
         NEW c, c.ok, Outcome(c, data, bad), \A i \in Offset : ByteResult(c, data, i, bad)
  PROVE  Marked(c.fp, c.disk)
<1>1. TwoWrites(data) /\ TwoInv /\ Writes(data) /\ "OPENED" \in fp.flags
  BY ImageWrites DEF TwoWrites, Writes, IsOpen
<1>2. PICK h \in Nat, g \in Nat, y \in Nat : /\ h = fp.hiwater /\ g = c.fp.hiwater /\ y = c.fp.offset
                                          /\ g = Greatest(h, y)
  <2>1. c.fp.hiwater \in Nat /\ c.sent \in Nat /\ c.fp.offset = fp.offset + c.sent
    BY WriteFields DEF Outcome
  <2>2. fp.offset \in Nat /\ fp.hiwater \in Nat
    BY ImageWrites
  <2>3. c.fp.offset \in Nat
    BY <2>1, <2>2
  <2> QED
    BY <2>1, <2>2, <2>3 DEF Outcome
<1>3. h <= g /\ y <= g
  BY <1>2 DEF Greatest
<1> SUFFICES ASSUME NEW i \in Offset, Here(c, i) # None
             PROVE  i \div SECSIZ <= (g - 1) \div SECSIZ
  BY <1>2 DEF Marked, Here
<1>4. PICK a \in Int, b \in Int, d \in Int : a = h - 1 /\ b = y - 1 /\ d = g - 1
  OBVIOUS
<1>5. a <= d /\ b <= d
  BY <1>3, <1>4
<1>6. a \div SECSIZ <= d \div SECSIZ /\ b \div SECSIZ <= d \div SECSIZ
  BY <1>5, Order
<1>7. i \in Int /\ i \div SECSIZ \in Int /\ a \div SECSIZ \in Int /\ b \div SECSIZ \in Int
      /\ d \div SECSIZ \in Int
  <2>1. i \in Int
    BY OffsetNat
  <2> QED
    BY <2>1, SectorArithmetic
<1>8. Shown(i) # None => i \div SECSIZ <= a \div SECSIZ
  BY <1>1, <1>2, <1>4, ShownAt DEF TwoInv, Marked
<1>9. CASE ~InRange(data, i)
  <2>1. Here(c, i) = Shown(i) \/ i \div SECSIZ <= b \div SECSIZ
    BY <1>2, <1>4, <1>9 DEF ByteResult, Spared
  <2> QED
    BY <1>4, <1>6, <1>7, <1>8, <2>1
<1>10. CASE InRange(data, i)
  <2>1. i <= b
    <3>1. PICK x \in Nat, l \in Nat : x = fp.offset /\ l = Len(data)
      BY ImageWrites
    <3>2. y = x + l
      BY <1>2, <3>1 DEF Outcome
    <3>3. i \in x .. x + l - 1
      BY <1>10, <3>1 DEF InRange
    <3> QED
      BY <1>4, <1>7, <3>2, <3>3
  <2>2. i \div SECSIZ <= b \div SECSIZ
    BY <1>7, <2>1, Order
  <2> QED
    BY <1>4, <1>6, <1>7, <2>2
<1> QED
  BY <1>9, <1>10

LEMMA WriterCalm ==
  ASSUME NEW data, NEW image, NEW n, WritesImage(data, image, n), NEW bad,
         NEW c, c.ok, Outcome(c, data, bad), DOMAIN c.disk \subseteq Sectors
  PROVE  Calm(c.fp, c.disk)
<1>1. TwoWrites(data) /\ Writes(data)
  BY ImageWrites DEF TwoWrites
<1>2. /\ WriteCall(c) /\ c.fp.offset = fp.offset + c.sent /\ c.sent <= Len(data)
      /\ c.sent \in Nat /\ c.sent > 0
      /\ Filled(c) \/ Put(c) \/ (Passed(c) /\ c.sent >= SECSIZ)
  BY <1>1, WriteFields, WritesFit DEF Outcome
<1>3. LeftBehind(c)
  <2>1. Passed(c) /\ c.sent >= SECSIZ => LeftBehind(c)
    BY <1>1, <1>2, PassedBehind
  <2>2. Filled(c) => "DIRTY" \in c.fp.flags
    BY DEF Filled
  <2> QED
    BY <1>2, <2>1, <2>2 DEF LeftBehind
<1> QED
  BY <1>1, <1>2, <1>3, LeftCalm

LEMMA WriterBytes ==
  ASSUME NEW data, NEW image, NEW n, WritesImage(data, image, n), NEW bad,
         NEW c, c.ok, Outcome(c, data, bad), NEW i \in Offset, ByteResult(c, data, i, bad),
         i < c.fp.offset
  PROVE  At(c.fp, c.disk, i) = ByteOf(image, i)
<1>1. TwoWrites(data) /\ i \in Nat
  BY ImageWrites, OffsetNat
<1>2. CASE InRange(data, i)
  <2>1. Delivered(c, data, i, bad)
    BY <1>1, <1>2, ImageWrites, TwoApart DEF ByteResult
  <2> QED
    BY <1>1, <1>2, <2>1, ExcerptByte DEF Delivered, Here
<1>3. CASE ~InRange(data, i)
  <2>1. i < fp.offset
    <3>1. c.fp.offset = fp.offset + Len(data)
      BY DEF Outcome
    <3>2. fp.offset \in Nat /\ Len(data) \in Nat
      BY ImageWrites
    <3> QED
      BY <1>1, <1>3, <3>1, <3>2 DEF InRange
  <2>2. Shown(i) = ByteOf(image, i)
    BY <2>1, ShownAt DEF WritesImage, Writer
  <2>3. ByteOf(image, i) # None
    <3>1. i < SECSIZ * n
      BY <1>1, <2>1, ImageWrites
    <3> QED
      BY <1>1, <3>1, ImageByte DEF WritesImage
  <2> QED
    BY <1>3, <2>2, <2>3 DEF ByteResult, Spared, Here
<1> QED
  BY <1>2, <1>3

(* A write that is not refused has taken the writer so much further. *)
LEMMA WriterWrites ==
  ASSUME NEW data, NEW image, NEW n, WritesImage(data, image, n), NEW bad, Write(data, bad)
  PROVE  /\ fp' \in FCB /\ io'.op = "write" /\ io'.ret \in {Len(data), Failure}
         /\ io'.ret # Failure => /\ Writer(fp', disk', image, n)
                                 /\ fp'.offset = fp.offset + Len(data)
<1>1. PICK c : /\ c = WrtBin(data, bad) /\ fp' = c.fp /\ disk' = c.disk
               /\ io'.op = "write" /\ io'.ret = IF c.ok THEN Len(data) ELSE Failure
               /\ Outcome(c, data, bad) /\ \A i \in Offset : ByteResult(c, data, i, bad)
               /\ DOMAIN c.disk \subseteq Sectors
  BY ImageWritten
<1>2. /\ c.fp \in FCB /\ Owned(c.fp) /\ DiskOK(c.disk) /\ Bounded(c.disk)
      /\ "OPENED" \in c.fp.flags /\ "ISREAD" \notin c.fp.flags
  BY <1>1 DEF Outcome, WriteCall, Sound
<1>3. ASSUME c.ok
      PROVE  Writer(c.fp, c.disk, image, n) /\ c.fp.offset = fp.offset + Len(data)
  <2>1. c.fp.offset = fp.offset + Len(data) /\ c.fp.hiwater = Greatest(fp.hiwater, c.fp.offset)
    BY <1>1, <1>3 DEF Outcome
  <2>2. c.fp.offset <= SECSIZ * n /\ c.fp.hiwater <= SECSIZ * n
    BY <2>1, ImageWrites DEF Greatest
  <2>3. Calm(c.fp, c.disk) /\ Marked(c.fp, c.disk)
    BY <1>1, <1>3, WriterCalm, WriterMarks
  <2>4. \A i \in Offset : i < c.fp.offset => At(c.fp, c.disk, i) = ByteOf(image, i)
    BY <1>1, <1>3, WriterBytes
  <2>5. Solid(c.fp, c.disk)
    <3> SUFFICES ASSUME NEW i \in Offset, i < c.fp.hiwater PROVE Here(c, i) # None
      BY DEF Solid, Here
    <3>1. i \in Nat /\ Image(image, n) /\ TwoWrites(data)
      BY ImageWrites, OffsetNat DEF WritesImage
    <3>2. CASE i < fp.hiwater
      <4>1. Shown(i) # None
        BY <3>2, ShownAt DEF WritesImage, Writer, Solid
      <4>2. Writes(data) /\ fp.offset >= 0 /\ Apart(data)
        BY <3>1, ImageWrites, TwoApart DEF TwoWrites
      <4> QED
        BY <1>1, <4>1, <4>2, WriteKeeps
    <3>3. CASE ~(i < fp.hiwater)
      <4>1. i < c.fp.offset
        BY <2>1, <3>3 DEF Greatest
      <4>2. i < SECSIZ * n
        <5>1. PICK y \in Nat, l \in Nat, e \in Nat :
                y = fp.offset /\ l = Len(data) /\ e = SECSIZ * n /\ y + l <= e
          BY ImageWrites
        <5> QED
          BY <2>1, <3>1, <4>1, <5>1
      <4> QED
        BY <2>4, <3>1, <4>1, <4>2, ImageByte DEF Here
    <3> QED
      BY <3>2, <3>3
  <2> QED
    BY <1>2, <2>1, <2>2, <2>3, <2>4, <2>5 DEF Writer
<1> QED
  BY <1>1, <1>2, <1>3

(* It fails only where BDOS refuses a sector. *)
LEMMA WriterGoesOn ==
  ASSUME NEW data, NEW image, NEW n, WritesImage(data, image, n), Write(data, {})
  PROVE  io'.ret # Failure
<1>1. PICK c : /\ c = WrtBin(data, {}) /\ io'.ret = IF c.ok THEN Len(data) ELSE Failure
  BY ImageWritten
<1>2. TwoWrites(data) /\ Len(data) \in Nat
  BY ImageWrites
<1>3. c.ok
  <2> SUFFICES ASSUME ~c.ok PROVE FALSE
    OBVIOUS
  <2>1. c.fp.offset \in Offset /\ c.fp.offset < fp.hiwater /\ Shown(c.fp.offset) = None
    BY <1>1, <1>2, TwoHole
  <2> QED
    BY <2>1, ShownAt DEF WritesImage, Writer, Solid
<1> QED
  BY <1>1, <1>2, <1>3 DEF Failure

-----------------------------------------------------------------------------
(* The writer onto the image itself: the disk stays the image after every  *)
(* part of a write, so that it is the image wherever BDOS makes it end.    *)

OntoImage(data, image, n) == WritesImage(data, image, n) /\ Onto(fp, disk, image, n)

Shows(c, image, n) == \A i \in Offset : Here(c, i) = ImageAt(image, n, i)

(* Spared or replaced, a byte of the image stays what it is. *)
LEMMA OntoByte ==
  ASSUME NEW data, NEW image, NEW n, OntoImage(data, image, n), NEW i \in Offset,
         NEW c, c.fp.offset = fp.offset + c.sent, c.sent \in Nat, c.sent <= Len(data),
         ~InRange(data, i) => Spared(c, i),
         InRange(data, i) => Here(c, i) \in {Shown(i), data[i - fp.offset + 1]}
  PROVE  Here(c, i) = ImageAt(image, n, i)
<1>1. WritesImage(data, image, n) /\ Shown(i) = ImageAt(image, n, i) /\ i \in Nat
  BY ShownAt, OffsetNat DEF OntoImage, Onto
<1>2. PICK e \in Nat : e = SECSIZ * n /\ n \in Nat
  BY <1>1, ImageWrites
<1>3. CASE InRange(data, i)
  BY <1>1, <1>3, ExcerptByte DEF ImageAt
<1>4. CASE ~InRange(data, i)
  <2> SUFFICES ASSUME Shown(i) = None, c.sent > 0, i \div SECSIZ <= (c.fp.offset - 1) \div SECSIZ
               PROVE  FALSE
    BY <1>1, <1>4 DEF Spared
  <2>1. ~(i < e)
    <3> SUFFICES ASSUME i < e PROVE FALSE
      OBVIOUS
    <3>1. i \div SECSIZ \in 0 .. n - 1 /\ i % SECSIZ \in 0 .. SECSIZ - 1
      BY <1>1, <1>2, InSectors, SectorArithmetic
    <3>2. image[i \div SECSIZ] \in Sector
      BY <1>1, <3>1 DEF WritesImage, Image
    <3>3. ByteOf(image, i) # None
      BY <3>1, <3>2, CcbAssumption DEF ByteOf, Sector
    <3> QED
      BY <1>1, <1>2, <3>3 DEF ImageAt
  <2>2. PICK y \in Int : y = c.fp.offset - 1 /\ y < e
    <3>1. fp.offset \in Nat /\ Len(data) \in Nat /\ fp.offset + Len(data) <= SECSIZ * n
      BY <1>1, ImageWrites
    <3> QED
      BY <1>2, <3>1
  <2>3. y \div SECSIZ < n /\ ~(i \div SECSIZ < n)
    BY <1>1, <1>2, <2>1, <2>2, InSectors
  <2>4. y \div SECSIZ \in Int /\ i \div SECSIZ \in Int
    BY <1>1, <2>2, SectorArithmetic
  <2> QED
    BY <1>2, <2>2, <2>3, <2>4
<1> QED
  BY <1>3, <1>4

(* When the buffer is not dirty what shows is the disk. *)
LEMMA OntoClean ==
  ASSUME NEW data, NEW image, NEW n, OntoImage(data, image, n), NEW c, WriteCall(c),
         Shows(c, image, n), DOMAIN c.disk \subseteq Sectors, "DIRTY" \notin c.fp.flags
  PROVE  c.disk = image
<1>1. Image(image, n) /\ DiskOK(c.disk)
  BY DEF OntoImage, WritesImage, WriteCall, Sound
<1>2. \A i \in Offset : At(c.fp, c.disk, i) = ImageAt(image, n, i)
  BY DEF Shows, Here
<1> QED
  BY <1>1, <1>2, DiskIsImage

(* Writing out the dirty buffer leaves the image, too. *)
LEMMA OntoFlushed ==
  ASSUME NEW image, NEW n, Image(image, n), Writer(fp, disk, image, n), Onto(fp, disk, image, n),
         NEW c, c.fp = fp, c.disk = disk
  PROVE  FlushedDisk(c) = image
<1>1. /\ Sound(fp, disk) /\ Sound(c.fp, c.disk)
      /\ "DIRTY" \in fp.flags => fp.sector \in Sectors
  <2>1. TwoInv
    BY WriterIsTwo
  <2>2. Sound(fp, disk)
    BY <2>1, SoundStart DEF TwoInv
  <2>3. fp.sector < MaxSector /\ ("DIRTY" \in fp.flags => fp.sector \in Nat) /\ MaxSector \in Nat
    BY <2>1, TwoTypes DEF TwoInv, IInv, DirtyOwned
  <2> QED
    BY <2>2, <2>3 DEF Sectors
<1>2. PICK g : g = Chinit(fp)
  OBVIOUS
<1>3. "DIRTY" \notin g.flags
  BY <1>1, <1>2 DEF Chinit, Sound, FCB
<1>4. DiskOK(FlushedDisk(c))
  <2>1. Sound(c.fp, FlushedDisk(c))
    BY <1>1, SoundFlush
  <2> QED
    BY <2>1 DEF Sound
<1>5. DOMAIN FlushedDisk(c) \subseteq Sectors
  <2>1. DOMAIN disk \subseteq Sectors
    BY DEF Writer, Calm, InFile
  <2>2. DOMAIN PutSector(disk, fp.sector, fp.buffer) = DOMAIN disk \cup {fp.sector}
    BY DEF PutSector
  <2>3. FlushedDisk(c) = IF "DIRTY" \in fp.flags THEN PutSector(disk, fp.sector, fp.buffer)
                         ELSE disk
    BY DEF FlushedDisk, Dirty
  <2> QED
    BY <1>1, <2>1, <2>2, <2>3
<1>6. \A i \in Offset : At(g, FlushedDisk(c), i) = ImageAt(image, n, i)
  <2>1. \A i \in Offset : At(g, FlushedDisk(c), i) = At(fp, disk, i)
    BY <1>1, <1>3, FlushedAt, OffsetNat
  <2> QED
    BY <2>1 DEF Onto
<1> QED
  BY <1>3, <1>4, <1>5, <1>6, DiskIsImage

(* The parts of the write. *)
OntoPart(c, image, n) == Shows(c, image, n) /\ c.disk = image

LEMMA OntoLabel ==
  ASSUME NEW data, NEW image, NEW n, OntoImage(data, image, n), NEW bad,
         NEW c, c = WriteLabel(BeginWrite(data), bad)
  PROVE  OntoPart(c, image, n)
<1>1. TwoWrites(data) /\ Writes(data)
  BY ImageWrites DEF OntoImage, TwoWrites
<1>2. Shows(c, image, n)
  <2>1. \A i \in Offset : LabelledAt(c, i)
    BY <1>1, TwoOrderly, WriteLabelBytes
  <2> QED
    BY <2>1, ShownAt DEF LabelledAt, Shows, OntoImage, Onto
<1>3. PICK b, f : b = BeginWrite(data) /\ f = [b EXCEPT !.disk = FlushedDisk(b)]
  OBVIOUS
<1>4. WriteCall(b) /\ b.fp = fp /\ b.disk = disk
  <2>1. WriteCall(BeginWrite(data))
    BY <1>1, WriteBegins DEF Writes
  <2> QED
    BY <1>3, <2>1 DEF BeginWrite
<1>5. disk = image /\ FlushedDisk(b) = image
  BY <1>4, OntoFlushed DEF OntoImage, Onto, WritesImage
<1>6. f.disk = image
  BY <1>3, <1>4, <1>5 DEF WriteCall
<1>7. /\ c = b \/ c = Fail(b) \/ c = Label(Zeroed(f)) \/ c = Fail(f) \/ c = Label(Preread(f))
  BY <1>3 DEF WriteLabel
<1>8. Fail(b).disk = b.disk /\ Fail(f).disk = f.disk
  BY <1>3, <1>4 DEF Fail, WriteCall
<1>9. Label(Zeroed(f)).disk = f.disk /\ Label(Preread(f)).disk = f.disk
  BY <1>3, <1>4 DEF Label, Zeroed, Preread, WriteCall
<1> QED
  BY <1>2, <1>4, <1>5, <1>6, <1>7, <1>8, <1>9 DEF OntoPart

LEMMA OntoShows ==
  ASSUME NEW data, NEW image, NEW n, OntoImage(data, image, n), NEW bad,
         NEW h, WriteCall(h), Progress(h, data), \A i \in Offset : ByteOK(h, data, i, bad)
  PROVE  Shows(h, image, n)
<1>1. TwoWrites(data) /\ fp.offset \in Nat
  BY ImageWrites DEF OntoImage
<1>2. /\ h.fp.offset = fp.offset + h.sent /\ h.sent \in Nat /\ h.sent <= Len(data)
  BY WriteFields DEF Progress
<1>3. ASSUME NEW i \in Offset PROVE Here(h, i) = ImageAt(image, n, i)
  <2>1. ByteOK(h, data, i, bad)
    OBVIOUS
  <2>2. ~InRange(data, i) => Spared(h, i)
    BY <2>1 DEF ByteOK
  <2>3. InRange(data, i) => Here(h, i) \in {Shown(i), data[i - fp.offset + 1]}
    BY <1>1, <2>1, TwoApart DEF ByteOK, Replaced
  <2> QED
    BY <1>2, <2>2, <2>3, OntoByte
<1> QED
  BY <1>3 DEF Shows

LEMMA OntoHead ==
  ASSUME NEW data, NEW image, NEW n, OntoImage(data, image, n), NEW bad,
         NEW c, WriteCall(c), Labelled(c, data, bad), WriteLands(data, c),
         \A i \in Offset : LabelledAt(c, i), OntoPart(c, image, n),
         NEW h, h = WriteHead(c, bad)
  PROVE  OntoPart(h, image, n)
<1>1. TwoWrites(data) /\ Writes(data) /\ Len(data) > 0
  BY ImageWrites, WritesFit DEF OntoImage, TwoWrites
<1>2. WriteCall(h) /\ Headed(h, data, bad)
  BY <1>1, WriteHeadSound, WriteHeadGoes
<1>3. Shows(h, image, n)
  <2>1. \A i \in Offset : ByteOK(h, data, i, bad)
    BY <1>1, TwoOrderly, WriteHeadBytes
  <2> QED
    BY <1>2, <2>1, OntoShows DEF Headed
<1>4. DOMAIN h.disk \subseteq Sectors
  BY HeadLands DEF WriteLands
<1>5. h.disk = c.disk \/ "DIRTY" \notin h.fp.flags
  <2>1. CASE c.done
    BY <2>1 DEF WriteHead
  <2>2. CASE ~c.done
    <3>1. c.left > 0
      <4>1. c.sent = 0 /\ c.data = data /\ c.sent + c.left = Len(c.data) /\ c.left \in Nat
        BY WriteFields DEF Labelled, Progress
      <4> QED
        BY <1>1, <4>1
    <3>2. h = c \/ \E k \in Nat : HeadStep(c, h, k, bad)
      BY <2>2, <3>1, HeadSteps
    <3> QED
      BY <3>2 DEF HeadStep
  <2> QED
    BY <2>1, <2>2
<1>6. "DIRTY" \notin h.fp.flags => h.disk = image
  BY <1>2, <1>3, <1>4, OntoClean
<1> QED
  BY <1>3, <1>5, <1>6 DEF OntoPart

LEMMA OntoDirect ==
  ASSUME NEW data, NEW image, NEW n, OntoImage(data, image, n), NEW bad,
         NEW c, WriteCall(c), Headed(c, data, bad), WriteLands(data, c),
         \A i \in Offset : ByteOK(c, data, i, bad), OntoPart(c, image, n),
         NEW h, h = WriteDirect(c, bad)
  PROVE  OntoPart(h, image, n)
<1>1. TwoWrites(data) /\ Writes(data) /\ Len(data) < UWord
  BY ImageWrites DEF OntoImage, WritesImage, TwoWrites
<1>2. WriteCall(h) /\ Directed(h, data, bad)
  BY <1>1, WriteDirectSound, WriteDirectGoes
<1>3. Shows(h, image, n)
  <2>1. \A i \in Offset : ByteOK(h, data, i, bad)
    BY <1>1, TwoOrderly, WriteDirectBytes
  <2> QED
    BY <1>2, <2>1, OntoShows DEF Directed
<1>4. DOMAIN h.disk \subseteq Sectors
  BY DirectLands DEF WriteLands
<1>5. h.disk = c.disk \/ "DIRTY" \notin h.fp.flags
  <2>1. CASE c.done \/ c.left < SECSIZ
    BY <2>1 DEF WriteDirect
  <2>2. CASE ~(c.done \/ c.left < SECSIZ)
    <3>1. ~c.done /\ c.left >= SECSIZ /\ SECSIZ \in Nat \ {0} /\ c.left \in Nat
      BY <2>2, WriteFields, CcbAssumption
    <3>2. "DIRTY" \notin c.fp.flags
      <4>1. Put(c) \/ Passed(c)
        BY <3>1 DEF Headed, Filled
      <4>2. Apart(data) /\ Len(data) >= SECSIZ
        <5>1. c.data = data /\ c.sent + c.left = Len(c.data) /\ c.sent \in Nat
          BY WriteFields DEF Headed, Progress
        <5> QED
          BY <1>1, <3>1, <5>1, TwoApart
      <4> QED
        BY <4>1, <4>2 DEF Put, Passed, OldDirty, Apart
    <3>3. Len(c.data) < UWord
      BY <1>1 DEF Headed, Progress
    <3>4. \E k \in Nat : \E t \in 0 .. k : DirectStep(c, h, k, t, bad)
      BY <3>1, <3>3, DirectSteps
    <3>5. h.fp.flags = c.fp.flags
      BY <3>4 DEF DirectStep
    <3> QED
      BY <3>2, <3>5
  <2> QED
    BY <2>1, <2>2
<1>6. "DIRTY" \notin h.fp.flags => h.disk = image
  BY <1>2, <1>3, <1>4, OntoClean
<1> QED
  BY <1>3, <1>5, <1>6 DEF OntoPart

(* The tail of a write only fills the buffer. *)
LEMMA TailDisk ==
  ASSUME NEW c, WriteCall(c)
  PROVE  WriteEnd(WriteTail(c)).disk = c.disk
<1>1. ASSUME NEW d \in {Zeroed(c), Preread(c)} PROVE Rest(c, d).disk = c.disk
  BY DEF Rest, Give, Zeroed, Preread, WriteCall
<1>2. \/ WriteTail(c) = c \/ WriteTail(c) = Fail(c)
      \/ \E d \in {Zeroed(c), Preread(c)} : WriteTail(c) = Rest(c, d)
  BY DEF WriteTail, Rest
<1>3. WriteTail(c).disk = c.disk
  <2>1. Fail(c).disk = c.disk
    BY FailFields
  <2> QED
    BY <1>1, <1>2, <2>1
<1>4. WriteCall(WriteTail(c))
  BY WriteTailSound
<1>5. WriteEnd(WriteTail(c)).disk = WriteTail(c).disk
  BY <1>4, WriteEndFields DEF WriteEnd
<1> QED
  BY <1>3, <1>5

LEMMA WrtBinOnto ==
  ASSUME NEW data, NEW image, NEW n, OntoImage(data, image, n), NEW bad
  PROVE  WrtBin(data, bad).disk = image
<1>1. PICK a, b, d :
        /\ a = WriteLabel(BeginWrite(data), bad) /\ b = WriteHead(a, bad)
        /\ d = WriteDirect(b, bad)
  OBVIOUS
<1>2. WrtBin(data, bad) = WriteEnd(WriteTail(d))
  BY <1>1 DEF WrtBin
<1>3. TwoWrites(data) /\ TwoInv /\ Writes(data)
  BY ImageWrites DEF OntoImage, TwoWrites
<1>4. WriteCall(a) /\ WriteCall(b) /\ WriteCall(d)
  <2>1. WriteCall(a)
    BY <1>1, <1>3, WriteBegins, WriteLabelSound DEF Writes
  <2>2. WriteCall(b)
    BY <1>1, <2>1, WriteHeadSound
  <2> QED
    BY <1>1, <2>1, <2>2, WriteDirectSound
<1>5. Labelled(a, data, bad) /\ Headed(b, data, bad)
  BY <1>1, <1>3, <1>4, WriteLabelGoes, WriteHeadGoes
<1>6. WriteLands(data, a) /\ WriteLands(data, b)
  <2>1. fp.offset >= 0 /\ fp.sector < MaxSector /\ DOMAIN disk \subseteq Sectors
    BY <1>3, TwoTypes DEF TwoInv, Calm, InFile
  <2>2. WriteLands(data, BeginWrite(data))
    BY <1>3, <2>1 DEF WriteLands, BeginWrite
  <2>3. WriteLands(data, a)
    BY <1>1, <2>2, LabelLands
  <2> QED
    BY <1>1, <1>5, <2>3, HeadLands
<1>7. \A i \in Offset : LabelledAt(a, i) /\ ByteOK(b, data, i, bad)
  <2>1. \A i \in Offset : LabelledAt(a, i)
    BY <1>1, <1>3, TwoOrderly, WriteLabelBytes
  <2> QED
    BY <1>1, <1>3, <1>4, <1>5, <2>1, TwoOrderly, WriteHeadBytes
<1>8. OntoPart(a, image, n)
  BY <1>1, OntoLabel
<1>9. OntoPart(b, image, n)
  BY <1>1, <1>4, <1>5, <1>6, <1>7, <1>8, OntoHead
<1>10. OntoPart(d, image, n)
  BY <1>1, <1>4, <1>5, <1>6, <1>7, <1>9, OntoDirect
<1> QED
  BY <1>2, <1>4, <1>10, TailDisk DEF OntoPart

LEMMA WriterOverwrites ==
  ASSUME NEW data, NEW image, NEW n, OntoImage(data, image, n), NEW bad, Write(data, bad)
  PROVE  disk' = image /\ (io'.ret # Failure => Onto(fp', disk', image, n))
<1>1. WritesImage(data, image, n) /\ TwoWrites(data)
  BY ImageWrites DEF OntoImage
<1>2. PICK c : /\ c = WrtBin(data, bad) /\ fp' = c.fp /\ disk' = c.disk
               /\ io'.op = "write" /\ io'.ret = IF c.ok THEN Len(data) ELSE Failure
               /\ Outcome(c, data, bad) /\ \A i \in Offset : ByteResult(c, data, i, bad)
               /\ DOMAIN c.disk \subseteq Sectors
  BY <1>1, ImageWritten
<1>3. c.disk = image
  BY <1>2, WrtBinOnto
<1>4. ASSUME NEW i \in Offset PROVE Here(c, i) = ImageAt(image, n, i)
  <2>1. /\ c.fp.offset = fp.offset + c.sent /\ c.sent \in Nat /\ c.sent <= Len(data)
    BY <1>2, WriteFields DEF Outcome
  <2>2. ~InRange(data, i) => Spared(c, i)
    BY <1>2 DEF ByteResult
  <2>3. InRange(data, i) => Here(c, i) \in {Shown(i), data[i - fp.offset + 1]}
    BY <1>1, <1>2, ImageWrites, TwoApart DEF ByteResult, Delivered
  <2> QED
    BY <2>1, <2>2, <2>3, OntoByte
<1> QED
  BY <1>2, <1>3, <1>4 DEF Onto, Here

-----------------------------------------------------------------------------
(* The other calls of the writer. *)

(* A CCB just opened or created, over a disk below its mark. *)
LEMMA WriterBegins ==
  ASSUME NEW image, NEW n, Image(image, n), NEW size \in Nat, size <= SECSIZ * n,
         NEW f, Opened(f, WRITE, size),
         NEW d, DiskOK(d), Bounded(d), DOMAIN d \subseteq Sectors, Marked(f, d), Solid(f, d)
  PROVE  Writer(f, d, image, n)
<1>1. /\ f \in FCB /\ f.offset = 0 /\ f.sector = -1 /\ f.hiwater = size
      /\ f.flags = {"OPENED"}
  BY DEF Opened, ModeFlags, READ, WRITE
<1>2. SECSIZ * n \in Nat /\ SECSIZ * MaxSector \in Nat /\ MaxSector \in Nat
  BY ImageFits, CcbAssumption
<1>3. Calm(f, d)
  <2>1. InFile(f, d)
    BY <1>1, <1>2 DEF InFile
  <2> QED
    BY <1>1, <2>1 DEF Calm, Fresh, Trails
<1>4. Owned(f) /\ f.offset <= SECSIZ * n
  BY <1>1, <1>2 DEF Owned
<1>5. \A i \in Offset : ~(i < f.offset)
  BY <1>1, OffsetNat
<1> QED
  BY <1>1, <1>3, <1>4, <1>5 DEF Writer

LEMMA WriterOpens ==
  ASSUME NEW image, NEW n, Image(image, n), disk = image, Shut(fp), Open(WRITE)
  PROVE  Writer(fp', disk', image, n) /\ Onto(fp', disk', image, n) /\ fp'.offset = 0
<1>1. PICK mode \in {READ, WRITE} : mode = WRITE
  OBVIOUS
<1>2. disk' = image /\ Opened(fp', mode, SECSIZ * n)
  BY <1>1, OpensImage
<1>3. /\ DiskOK(image) /\ Bounded(image) /\ DOMAIN image \subseteq Sectors /\ SECSIZ * n \in Nat
  BY ImageFits
<1>4. "DIRTY" \notin fp'.flags /\ fp'.offset = 0 /\ fp'.hiwater = SECSIZ * n
  BY <1>2 DEF Opened, ModeFlags
<1>5. Marked(fp', image)
  <2>1. FileSize(fp', image) = fp'.hiwater
    BY <1>4, ImageSize
  <2> QED
    BY <1>3, <1>4, <2>1, SizeCovers DEF Marked
<1>6. Solid(fp', image)
  <2> SUFFICES ASSUME NEW i \in Offset, i < SECSIZ * n PROVE At(fp', image, i) # None
    BY <1>4 DEF Solid
  <2>1. At(fp', image, i) = ByteOf(image, i)
    BY <1>4, ImageShows DEF ImageAt
  <2> QED
    BY <2>1, ImageByte, OffsetNat
<1>7. Writer(fp', image, image, n)
  BY <1>1, <1>2, <1>3, <1>5, <1>6, WriterBegins
<1> QED
  BY <1>2, <1>4, <1>7, ImageShows DEF Onto

LEMMA WriterCreates ==
  ASSUME NEW image, NEW n, Image(image, n), Shut(fp), Creat
  PROVE  Writer(fp', disk', image, n) /\ fp'.offset = 0
<1>1. Opened(fp', WRITE, 0)
  BY DEF Creat, Shut, Opened, Chinit, ModeFlags, FCB, Flag, READ, WRITE
<1>2. DOMAIN disk' = {} /\ DiskOK(disk') /\ Bounded(disk')
  BY DEF Creat, DiskOK, Bounded
<1>3. Marked(fp', disk')
  <2>1. "DIRTY" \notin fp'.flags
    BY <1>1 DEF Opened, ModeFlags
  <2> QED
    BY <1>2, <2>1 DEF Marked, At
<1>4. 0 \in Nat /\ 0 <= SECSIZ * n
  BY ImageFits
<1>5. Solid(fp', disk')
  BY <1>1, OffsetNat DEF Solid, Opened
<1> QED
  BY <1>1, <1>2, <1>3, <1>4, <1>5, WriterBegins DEF Opened

LEMMA WriterTells ==
  ASSUME NEW image, NEW n, Image(image, n), Writer(fp, disk, image, n), LSeek(0, 1)
  PROVE  /\ io'.ret = fp.offset /\ fp'.offset = fp.offset /\ disk' = disk
         /\ Writer(fp', disk', image, n)
         /\ Onto(fp, disk, image, n) => Onto(fp', disk', image, n)
<1>1. PICK g : g = Seeked(fp, disk, 0, 1)
  OBVIOUS
<1>2. TwoInv
  BY WriterIsTwo
<1>3. fp \in FCB /\ fp.offset \in Nat
  BY <1>2, TwoTypes
<1>4. g = [fp EXCEPT !.offset = fp.offset, !.flags = @ \ {"ATEOF"}]
  <2>1. Target(fp, 0, 1) = fp.offset
    <3>1. Target(fp, 0, 1) = fp.offset + 0
      BY DEF Target
    <3> QED
      BY <1>3, <3>1
  <2>2. ~(fp.offset < 0)
    BY <1>3
  <2>3. g = MovedTo(fp, Target(fp, 0, 1))
    BY <1>1 DEF Seeked
  <2>4. g = MovedTo(fp, fp.offset)
    BY <2>1, <2>3
  <2> QED
    BY <2>2, <2>4 DEF MovedTo
<1>5. /\ g \in FCB /\ g.offset = fp.offset /\ g.sector = fp.sector /\ g.buffer = fp.buffer
      /\ g.hiwater = fp.hiwater /\ g.flags = fp.flags \ {"ATEOF"}
  BY <1>3, <1>4 DEF FCB, Flag
<1>6. fp' = g /\ disk' = disk /\ io'.ret = fp.offset
  BY <1>1, <1>5 DEF LSeek, Answer, Senses
<1>7. Alike(g, fp)
  BY <1>5 DEF Alike
<1>8. \A i : At(g, disk, i) = At(fp, disk, i)
  BY <1>7, AlikeAt
<1>9. Calm(g, disk)
  <2>1. g.offset >= fp.offset /\ g.offset <= SECSIZ * MaxSector
    BY <1>2, <1>3, <1>5, TwoTypes
  <2> QED
    BY <1>2, <1>3, <1>5, <1>7, <2>1, CalmOn DEF TwoInv
<1>10. Marked(g, disk) /\ Solid(g, disk) /\ Owned(g)
  BY <1>5, <1>8 DEF Writer, Marked, Solid, Owned
<1>11. Writer(g, disk, image, n)
  BY <1>5, <1>8, <1>9, <1>10 DEF Writer
<1> QED
  BY <1>5, <1>6, <1>8, <1>11 DEF Onto

(* A disk that shows the whole image, and no byte above the mark. *)
LEMMA WriterDone ==
  ASSUME NEW image, NEW n, Image(image, n), Writer(fp, disk, image, n),
         fp.offset = SECSIZ * n
  PROVE  \A i \in Offset : At(fp, disk, i) = ImageAt(image, n, i)
<1>1. TwoInv /\ "OPENED" \in fp.flags /\ fp.hiwater \in Nat /\ fp.hiwater <= SECSIZ * n
  BY WriterIsTwo, TwoTypes DEF Writer
<1>2. n \in Nat /\ SECSIZ * n \in Nat
  BY ImageFits
<1> SUFFICES ASSUME NEW i \in Offset, ~(i < SECSIZ * n), At(fp, disk, i) # None
             PROVE  FALSE
  BY DEF Writer, ImageAt
<1>3. i \in Nat
  BY OffsetNat
<1>4. i \div SECSIZ <= (fp.hiwater - 1) \div SECSIZ
  BY <1>1 DEF TwoInv, Marked
<1>5. PICK y \in Int : y = fp.hiwater - 1 /\ y < SECSIZ * n
  BY <1>1, <1>2
<1>6. y \div SECSIZ < n /\ ~(i \div SECSIZ < n)
  BY <1>2, <1>3, <1>5, InSectors
<1>7. y \div SECSIZ \in Int /\ i \div SECSIZ \in Int
  BY <1>3, <1>5, SectorArithmetic
<1> QED
  BY <1>2, <1>4, <1>5, <1>6, <1>7

LEMMA WriterCloses ==
  ASSUME NEW image, NEW n, Image(image, n), Writer(fp, disk, image, n), NEW bad, Close(bad)
  PROVE  /\ fp' \in FCB /\ io'.op = "close"
         /\ Onto(fp, disk, image, n) => disk' = image
         /\ fp.offset = SECSIZ * n /\ io'.ret # Failure => disk' = image
<1>1. PICK c : c = Begin(0)
  OBVIOUS
<1>2. TwoInv /\ fp \in FCB /\ fp.flags \subseteq Flag
  BY WriterIsTwo, TwoTypes
<1>3. c.fp = fp /\ c.disk = disk /\ ReadCall(c)
  <2>1. IInv /\ 0 \in Nat
    BY <1>2 DEF TwoInv
  <2> QED
    BY <1>1, <2>1, ReadBegins DEF Begin
<1>4. /\ fp' = Chinit(fp) /\ disk' = IF CanFlush(c, bad) THEN FlushedDisk(c) ELSE disk
      /\ io'.op = "close" /\ io'.ret = IF CanFlush(c, bad) THEN 0 ELSE Failure
  BY <1>1 DEF Close, Answer
<1>5. fp' \in FCB /\ "DIRTY" \notin fp'.flags
  BY <1>2, <1>4 DEF Chinit, FCB, Flag
<1>6. Onto(fp, disk, image, n) => disk' = image
  BY <1>3, <1>4, OntoFlushed DEF Onto
<1>7. ASSUME fp.offset = SECSIZ * n, io'.ret # Failure PROVE disk' = image
  <2>1. disk' = FlushedDisk(c)
    BY <1>4, <1>7
  <2>2. Calm(Flush(c).fp, Flush(c).disk) /\ Flush(c).disk = FlushedDisk(c) /\ Sound(c.fp, c.disk)
    BY <1>2, <1>3, CalmFlushed, ReadFlushed DEF TwoInv, ReadCall
  <2>3. DiskOK(FlushedDisk(c)) /\ DOMAIN FlushedDisk(c) \subseteq Sectors
    BY <2>2, SoundFlush DEF Calm, InFile, Sound
  <2>4. PICK h : h = fp'
    OBVIOUS
  <2>5. \A i \in Offset : At(h, FlushedDisk(c), i) = ImageAt(image, n, i)
    <3>1. \A i \in Offset : At(h, FlushedDisk(c), i) = At(c.fp, c.disk, i)
      BY <1>5, <2>2, <2>4, FlushedAt, OffsetNat
    <3> QED
      BY <1>3, <1>7, <3>1, WriterDone
  <2> QED
    BY <1>5, <2>1, <2>3, <2>4, <2>5, DiskIsImage
<1> QED
  BY <1>4, <1>5, <1>6, <1>7
-----------------------------------------------------------------------------
(* A channel that open has made of a file that was there.                  *)

LEMMA ReadOnlyOpens ==
  ASSUME DiskOK(disk), Bounded(disk), Shut(fp), Open(READ)
  PROVE  /\ fp' \in FCB /\ {"OPENED", "ISREAD"} \subseteq fp'.flags /\ fp'.offset = 0
         /\ disk' = disk
<1>1. PICK f : f = [Chinit(fp) EXCEPT !.flags = ModeFlags(READ)]
  OBVIOUS
<1>2. PICK g, h : g = Seeked(f, disk, 0, 2) /\ h = Seeked(g, disk, 0, 0)
  OBVIOUS
<1>3. fp' = h /\ disk' = disk
  BY <1>1, <1>2 DEF Open
<1>4. f \in FCB /\ {"OPENED", "ISREAD"} \subseteq f.flags
  BY <1>1 DEF Chinit, ModeFlags, FCB, Flag, Shut
<1>5. PICK zero \in Int, end \in Senses, start \in Senses : zero = 0 /\ end = 2 /\ start = 0
  BY DEF Senses
<1>6. g \in FCB /\ {"OPENED", "ISREAD"} \subseteq g.flags
  BY <1>2, <1>4, <1>5, SeekFields
<1>7. h \in FCB /\ {"OPENED", "ISREAD"} \subseteq h.flags /\ h.offset = 0
  BY <1>2, <1>5, <1>6, SeekFields
<1> QED
  BY <1>3, <1>7

LEMMA ReadOnlyWrites ==
  ASSUME "ISREAD" \in fp.flags, NEW data, data # <<>>, NEW bad, Write(data, bad)
  PROVE  fp' = fp /\ disk' = disk /\ io'.op = "write" /\ io'.ret = Failure
BY DEF Write, Refused, Answer
=============================================================================
