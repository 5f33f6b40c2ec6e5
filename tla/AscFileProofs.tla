---------------------------- MODULE AscFileProofs ----------------------------
(***************************************************************************)
(* Proofs about AscFile, for every sector size, bound, set of requests and *)
(* set of faults: its types, that a dirty buffer belongs somewhere and is  *)
(* not dropped, and that what a write counts is in the file.               *)
(*                                                                         *)
(* Both _rdasc and _wrtasc are rounds of a loop, a sector a round.         *)
(* ReadCall and WriteCall say what holds between two rounds; there is a    *)
(* lemma per way through a round (Fill is the hard one), and one that      *)
(* takes them through all rounds.                                          *)
(***************************************************************************)
EXTENDS AscFile, Arithmetic, SequenceTheorems, FiniteSetTheorems

-----------------------------------------------------------------------------
(* Offsets, by their sectors. *)

LEMMA Place ==
  ASSUME NEW x \in Int
  PROVE  \E q \in Int, r \in 0 .. SECSIZ - 1 :
           q = x \div SECSIZ /\ r = x % SECSIZ /\ x = (SECSIZ * q) + r
<1>1. SECSIZ \in Nat \ {0}
  BY CcbAssumption
<1> QED
  BY <1>1, Parts

(* A sector, and the one before the first. *)
LEMMA SectorOf ==
  ASSUME NEW o \in Nat \cup {-1}
  PROVE  /\ o \div SECSIZ \in Nat \cup {-1}
         /\ o \in Nat => o \div SECSIZ \in Nat
         /\ o = -1 => o % SECSIZ = SECSIZ - 1
         /\ o % SECSIZ \in 0 .. SECSIZ - 1
<1>0. SECSIZ \in Nat \ {0}
  BY CcbAssumption
<1>1. CASE o \in Nat
  <2>1. PICK x \in Int : x = o /\ x >= 0
    BY <1>1
  <2>2. x \div SECSIZ \in Int /\ x \div SECSIZ >= 0 /\ x % SECSIZ \in 0 .. SECSIZ - 1
    BY <1>0, <2>1, Division
  <2> QED
    BY <1>1, <2>1, <2>2
<1>2. CASE o = -1
  <2>1. PICK r \in 0 .. SECSIZ - 1 : r = SECSIZ - 1
    BY <1>0
  <2>2. -1 = (SECSIZ * (-1)) + r
    BY <1>0, <2>1
  <2>3. PICK q \in Int : q = -1
    OBVIOUS
  <2>4. o = (SECSIZ * q) + r
    BY <1>2, <2>2, <2>3
  <2>5. o \div SECSIZ = q /\ o % SECSIZ = r
    BY <1>0, <2>4, Quotient
  <2> QED
    BY <1>0, <1>2, <2>1, <2>3, <2>5
<1> QED
  BY <1>1, <1>2

(* k offsets from o on that do not leave its sector: where they are in it. *)
LEMMA Excerpt ==
  ASSUME NEW o \in Int, NEW k \in Int, (o % SECSIZ) + k <= SECSIZ, NEW i \in Int
  PROVE  /\ i \in o .. o + k - 1 => i \div SECSIZ = o \div SECSIZ
         /\ i \div SECSIZ = o \div SECSIZ => /\ i - o = (i % SECSIZ) - (o % SECSIZ)
                                             /\ i % SECSIZ \in 0 .. SECSIZ - 1
<1>0. SECSIZ \in Nat \ {0}
  BY CcbAssumption
<1>1. ASSUME i \in o .. o + k - 1 PROVE i \div SECSIZ = o \div SECSIZ
  <2>1. PICK t \in Int : t = i - o
    OBVIOUS
  <2>2. o % SECSIZ \in 0 .. SECSIZ - 1
    BY <1>0, Division
  <2>3. (o % SECSIZ) + t \in 0 .. SECSIZ - 1 /\ o + t = i
    BY <1>0, <1>1, <2>1, <2>2
  <2> QED
    BY <1>0, <2>3, Inside
<1>2. ASSUME i \div SECSIZ = o \div SECSIZ PROVE i - o = (i % SECSIZ) - (o % SECSIZ)
  BY <1>0, <1>2, SameBlock
<1>3. i % SECSIZ \in 0 .. SECSIZ - 1
  BY <1>0, Division
<1> QED
  BY <1>1, <1>2, <1>3

(* Behind the last place of a sector comes the first of the next. *)
LEMMA NextSector ==
  ASSUME NEW o \in Int, NEW k \in Int, (o % SECSIZ) + k = SECSIZ
  PROVE  (o + k) % SECSIZ = 0
<1>0. SECSIZ \in Nat \ {0}
  BY CcbAssumption
<1>1. PICK q \in Int, r \in 0 .. SECSIZ - 1 :
        q = o \div SECSIZ /\ r = o % SECSIZ /\ o = (SECSIZ * q) + r
  BY Place
<1>2. PICK y \in Int : y = o + k
  OBVIOUS
<1>3. PICK m \in Int : m = q + 1
  OBVIOUS
<1>4. SECSIZ * m = (SECSIZ * q) + SECSIZ
  BY <1>0, <1>3
<1>5. y = (SECSIZ * m) + 0
  <2>1. SECSIZ * q \in Int
    BY <1>0
  <2> QED
    BY <1>0, <1>1, <1>2, <1>4, <2>1
<1>6. y % SECSIZ = 0
  <2>1. 0 \in 0 .. SECSIZ - 1
    BY <1>0
  <2> QED
    BY <1>0, <1>5, <2>1, Quotient
<1> QED
  BY <1>2, <1>6

-----------------------------------------------------------------------------
(* The disk, and the bytes of the file. *)

(* The disk has only finitely many sectors. *)
Bounded(d) == \E b \in Nat : \A s \in DOMAIN d : s <= b

LEMMA PutSectorType ==
  ASSUME NEW d, DiskOK(d), Bounded(d), NEW s \in Nat, NEW sec \in Sector
  PROVE  DiskOK(PutSector(d, s, sec)) /\ Bounded(PutSector(d, s, sec))
<1>1. DiskOK(PutSector(d, s, sec))
  BY DEF DiskOK, PutSector
<1>2. PICK b \in Nat : \A t \in DOMAIN d : t <= b
  BY DEF Bounded
<1>3. DOMAIN d \subseteq Nat
  BY DEF DiskOK
<1>4. \A t \in DOMAIN d \cup {s} : t <= b + s
  BY <1>2, <1>3
<1>5. DOMAIN PutSector(d, s, sec) = DOMAIN d \cup {s}
  BY DEF PutSector
<1> QED
  BY <1>1, <1>4, <1>5 DEF Bounded

(* A disk with sectors has a last one. *)
LEMMA LastSectorType ==
  ASSUME NEW d, DOMAIN d \subseteq Nat, DOMAIN d # {}, Bounded(d)
  PROVE  LastSector(d) \in DOMAIN d
<1>1. \E s \in DOMAIN d : \A t \in DOMAIN d : t <= s
  BY GreatestElement DEF Bounded
<1> QED
  BY <1>1 DEF LastSector

(* Shown, of any CCB and disk. *)
Shows(f, d, i) ==
  LET s == i \div SECSIZ
  IN  IF "DIRTY" \in f.flags /\ f.sector = s THEN f.buffer[i % SECSIZ]
      ELSE IF s \in DOMAIN d THEN d[s][i % SECSIZ]
      ELSE None

LEMMA ShownIsShows == \A i : Shown(i) = Shows(fp, disk, i)
BY DEF Shown, Shows

-----------------------------------------------------------------------------
(* The call in progress. *)

(* DirtyOwned, of any CCB. *)
Owned(f) == "DIRTY" \in f.flags => /\ f.sector \in Nat
                                   /\ "OPENED" \in f.flags
                                   /\ "ISREAD" \notin f.flags

Sound(f, d) == f \in FCB /\ Owned(f) /\ DiskOK(d) /\ Bounded(d)

IInv == TypeOK /\ DirtyOwned /\ Bounded(disk)

LEMMA SoundStart == IInv <=> Sound(fp, disk)
BY DEF IInv, TypeOK, DirtyOwned, IsOpen, Sound, Owned

(* A dirty buffer can be written out: it has a label. *)
LEMMA FlushedSound ==
  ASSUME NEW c, Sound(c.fp, c.disk)
  PROVE  DiskOK(FlushedDisk(c)) /\ Bounded(FlushedDisk(c))
<1>1. CASE ~Dirty(c)
  BY <1>1 DEF FlushedDisk, Sound
<1>2. CASE Dirty(c)
  <2>1. c.fp.sector \in Nat /\ c.fp.buffer \in Sector /\ DiskOK(c.disk) /\ Bounded(c.disk)
    BY <1>2 DEF Sound, Owned, Dirty, FCB
  <2>2. FlushedDisk(c) = PutSector(c.disk, c.fp.sector, c.fp.buffer)
    BY <1>2 DEF FlushedDisk
  <2> QED
    BY <2>1, <2>2, PutSectorType
<1> QED
  BY <1>1, <1>2

(* What is written out shows as it did in the buffer; the flags but DIRTY,  *)
(* the label and the buffer of a clean CCB do not matter.                   *)
LEMMA FlushedShows ==
  ASSUME NEW c, Sound(c.fp, c.disk), NEW g, "DIRTY" \notin g.flags, NEW i
  PROVE  Shows(g, FlushedDisk(c), i) = Shows(c.fp, c.disk, i)
BY DEF Shows, FlushedDisk, Dirty, PutSector


-----------------------------------------------------------------------------
(* The rounds of _rdasc. *)

(* Every byte shows as it did when the call began. *)
ReadCall(c) ==
  /\ c \in [fp : FCB, disk : {c.disk}, moved : {c.moved}, left : {c.left},
            done : {c.done}, ok : {c.ok}]
  /\ Sound(c.fp, c.disk)
  /\ \A i \in Nat : Shows(c.fp, c.disk, i) = Shown(i)

LEMMA ReadBegins ==
  ASSUME IInv, NEW n
  PROVE  ReadCall(Begin(n))
BY SoundStart, ShownIsShows DEF ReadCall, Begin, Sound

(* Changes of the CCB that move no byte. *)
SameBytes(f, g) == /\ g.flags \cap {"OPENED", "ISREAD", "DIRTY"} = f.flags \cap {"OPENED", "ISREAD", "DIRTY"}
                   /\ g.sector = f.sector /\ g.buffer = f.buffer

LEMMA SameBytesSound ==
  ASSUME NEW f, NEW g \in FCB, NEW d, SameBytes(f, g), Sound(f, d)
  PROVE  Sound(g, d) /\ \A i : Shows(g, d, i) = Shows(f, d, i)
<1>1. \A x \in {"OPENED", "ISREAD", "DIRTY"} : x \in g.flags <=> x \in f.flags
  BY DEF SameBytes
<1>2. g.sector = f.sector /\ g.buffer = f.buffer
  BY DEF SameBytes
<1>3. Sound(g, d)
  BY <1>1, <1>2 DEF Sound, Owned
<1>4. \A i : Shows(g, d, i) = Shows(f, d, i)
  BY <1>1, <1>2 DEF Shows
<1> QED
  BY <1>3, <1>4

LEMMA ReadMoves ==
  ASSUME NEW c, ReadCall(c), NEW g \in FCB, SameBytes(c.fp, g), NEW e,
         e \in [fp : {g}, disk : {c.disk}, moved : {e.moved}, left : {e.left}, done : {e.done}, ok : {e.ok}]
  PROVE  ReadCall(e)
<1>1. e.fp = g /\ e.disk = c.disk
  OBVIOUS
<1>2. Sound(g, c.disk) /\ \A i : Shows(g, c.disk, i) = Shows(c.fp, c.disk, i)
  BY SameBytesSound DEF ReadCall
<1>3. e \in [fp : FCB, disk : {e.disk}, moved : {e.moved}, left : {e.left}, done : {e.done}, ok : {e.ok}]
  BY <1>1
<1> QED
  BY <1>1, <1>2, <1>3 DEF ReadCall

LEMMA ReadEnds ==
  ASSUME NEW c, ReadCall(c)
  PROVE  /\ ReadCall(Fail(c)) /\ ReadCall(Return(c)) /\ ReadCall(RaiseHiwater(c))
         /\ ReadCall([c EXCEPT !.fp.flags = @ \cup {"ATEOF"}])
<1>0. c.fp \in FCB
  BY DEF ReadCall
<1>1. ReadCall(Fail(c)) /\ ReadCall(Return(c))
  BY DEF ReadCall, Fail, Return
<1>2. ReadCall(RaiseHiwater(c))
  <2> DEFINE g == [c.fp EXCEPT !.hiwater = Greatest(c.fp.hiwater, c.fp.offset)]
  <2>1. Greatest(c.fp.hiwater, c.fp.offset) \in Nat
    BY <1>0 DEF FCB, Greatest
  <2>2. g \in FCB /\ SameBytes(c.fp, g)
    BY <1>0, <2>1 DEF FCB, SameBytes
  <2>3. RaiseHiwater(c) \in [fp : {g}, disk : {c.disk}, moved : {c.moved}, left : {c.left},
                             done : {c.done}, ok : {c.ok}]
    BY DEF RaiseHiwater, ReadCall
  <2> HIDE DEF g
  <2> QED
    BY <2>2, <2>3, ReadMoves
<1>3. ReadCall([c EXCEPT !.fp.flags = @ \cup {"ATEOF"}])
  <2> DEFINE g == [c.fp EXCEPT !.flags = @ \cup {"ATEOF"}]
             e == [c EXCEPT !.fp.flags = @ \cup {"ATEOF"}]
  <2>1. g \in FCB /\ SameBytes(c.fp, g)
    BY <1>0 DEF FCB, Flag, SameBytes
  <2>2. e \in [fp : {g}, disk : {c.disk}, moved : {c.moved}, left : {c.left},
               done : {c.done}, ok : {c.ok}]
    BY DEF ReadCall
  <2> HIDE DEF g, e
  <2>3. ReadCall(e)
    BY <2>1, <2>2, ReadMoves
  <2> QED
    BY <2>3 DEF e
<1> QED
  BY <1>1, <1>2, <1>3

LEMMA ReadFlushed ==
  ASSUME NEW c, ReadCall(c)
  PROVE  /\ ReadCall(Flush(c))
         /\ "DIRTY" \notin Flush(c).fp.flags
         /\ Flush(c).disk = FlushedDisk(c)
         /\ Flush(c).fp.offset = c.fp.offset
<1>0. c.fp \in FCB /\ Sound(c.fp, c.disk)
  BY DEF ReadCall
<1> DEFINE g == [c.fp EXCEPT !.flags = @ \ {"DIRTY"}]
<1>1. g \in FCB /\ Owned(g) /\ "DIRTY" \notin g.flags /\ g.offset = c.fp.offset
  BY <1>0 DEF FCB, Owned
<1>2. Flush(c).fp = g /\ Flush(c).disk = FlushedDisk(c)
  BY DEF Flush, ReadCall
<1>3. Flush(c) \in [fp : {g}, disk : {FlushedDisk(c)}, moved : {c.moved}, left : {c.left},
                    done : {c.done}, ok : {c.ok}]
  BY DEF Flush, ReadCall
<1>4. Flush(c) \in [fp : FCB, disk : {Flush(c).disk}, moved : {Flush(c).moved}, left : {Flush(c).left},
                    done : {Flush(c).done}, ok : {Flush(c).ok}]
  <2> HIDE DEF g
  <2> QED
    BY <1>1, <1>3
<1> HIDE DEF g
<1>5. Sound(g, FlushedDisk(c))
  BY <1>0, <1>1, FlushedSound DEF Sound
<1>6. \A i \in Nat : Shows(g, FlushedDisk(c), i) = Shown(i)
  BY <1>0, <1>1, FlushedShows DEF ReadCall
<1>7. ReadCall(Flush(c))
  BY <1>2, <1>4, <1>5, <1>6 DEF ReadCall
<1> QED
  BY <1>1, <1>2, <1>7

(* A clean buffer takes another sector. *)
Holding(f, s, sec) == [f EXCEPT !.buffer = sec, !.sector = s]

LEMMA CleanLoad ==
  ASSUME NEW f, NEW d, Sound(f, d), "DIRTY" \notin f.flags, NEW s \in Nat \cup {-1}, NEW sec \in Sector,
         NEW g, g = Holding(f, s, sec)
  PROVE  Sound(g, d) /\ g.flags = f.flags /\ g.offset = f.offset /\ g.sector = s
         /\ \A i : Shows(g, d, i) = Shows(f, d, i)
<1>1. g \in FCB /\ g.flags = f.flags /\ g.offset = f.offset /\ g.sector = s
  BY DEF Sound, FCB, Holding
<1>2. Sound(g, d)
  BY <1>1 DEF Sound, Owned
<1>3. \A i : Shows(g, d, i) = Shows(f, d, i)
  BY <1>1 DEF Shows
<1> QED
  BY <1>1, <1>2, <1>3

LEMMA ReadLoaded ==
  ASSUME NEW c, ReadCall(c), "DIRTY" \notin c.fp.flags, NEW s \in DOMAIN c.disk
  PROVE  ReadCall(Load(c, s))
<1>0. s \in Nat /\ c.disk[s] \in Sector /\ Sound(c.fp, c.disk)
  BY DEF ReadCall, Sound, DiskOK
<1>1. PICK g : g = Holding(c.fp, s, c.disk[s])
  OBVIOUS
<1>2. Sound(g, c.disk) /\ \A i : Shows(g, c.disk, i) = Shows(c.fp, c.disk, i)
  BY <1>0, <1>1, CleanLoad
<1>3. Load(c, s).fp = g /\ Load(c, s).disk = c.disk
  BY <1>1 DEF Load, ReadCall, Holding
<1>4. Load(c, s) \in [fp : {g}, disk : {c.disk}, moved : {c.moved}, left : {c.left},
                      done : {c.done}, ok : {c.ok}]
  BY <1>1 DEF Load, ReadCall, Holding
<1>5. g \in FCB
  BY <1>2 DEF Sound
<1>6. Load(c, s) \in [fp : FCB, disk : {Load(c, s).disk}, moved : {Load(c, s).moved}, left : {Load(c, s).left},
                      done : {Load(c, s).done}, ok : {Load(c, s).ok}]
  BY <1>4, <1>5
<1> QED
  BY <1>2, <1>3, <1>6 DEF ReadCall


(* Where a round stops. *)
LEMMA ScanIs ==
  ASSUME NEW c, ReadCall(c)
  PROVE  \E k \in Nat : \E bytes :
           LET t == [c EXCEPT !.moved = @ \o bytes, !.left = @ - Len(bytes), !.fp.offset = @ + k]
           IN  Scan(c) \in {t, Return(RaiseHiwater([t EXCEPT !.fp.flags = @ \cup {"ATEOF"}]))}
<1> DEFINE p == c.fp.offset % SECSIZ
           Got(q)   == Kept(InBuffer(c.fp, p, q))
           Stops(q) == q = SECSIZ \/ c.fp.buffer[q] = EOFCHAR \/ Len(Got(q)) = c.left
           A == {q \in p .. SECSIZ : Stops(q)}
           q == CHOOSE q \in p .. SECSIZ : Stops(q) /\ \A r \in p .. q - 1 : ~Stops(r)
<1>1. p \in 0 .. SECSIZ - 1 /\ SECSIZ \in Nat \ {0}
  BY SectorOf, CcbAssumption DEF ReadCall, FCB
<1>2. q \in p .. SECSIZ
  <2>1. SECSIZ \in A /\ A \subseteq Nat
    <3> HIDE DEF p
    <3> QED
      BY <1>1
  <2>2. PICK m \in A : \A x \in A : m <= x
    <3> HIDE DEF A
    <3> QED
      BY <2>1, SmallestElement
  <2>3. ASSUME NEW r \in p .. m - 1 PROVE ~Stops(r)
    <3> HIDE DEF Stops, p
    <3>1. m \in p .. SECSIZ
      BY <2>2
    <3>2. r \in p .. SECSIZ /\ ~(m <= r)
      BY <1>1, <3>1
    <3> QED
      BY <2>2, <3>2
  <2>4. m \in p .. SECSIZ /\ Stops(m)
    <3> HIDE DEF Stops, p
    <3> QED
      BY <2>2
  <2> HIDE DEF Stops, p
  <2> QED
    BY <2>3, <2>4
<1> DEFINE t == [c EXCEPT !.moved = @ \o Got(q), !.left = @ - Len(Got(q)), !.fp.offset = @ + (q - p)]
<1>3. Scan(c) \in {t, Return(RaiseHiwater([t EXCEPT !.fp.flags = @ \cup {"ATEOF"}]))}
  BY DEF Scan
<1>4. q - p \in Nat
  <2> HIDE DEF p, q
  <2> QED
    BY <1>1, <1>2
<1> DEFINE bytes == Got(q)
           k == q - p
<1> HIDE DEF q, p, Got
<1> QED
  BY <1>3, <1>4

LEMMA ScanSound ==
  ASSUME NEW c, ReadCall(c)
  PROVE  ReadCall(Scan(c))
<1>0. PICK k \in Nat : \E bytes :
        LET t == [c EXCEPT !.moved = @ \o bytes, !.left = @ - Len(bytes), !.fp.offset = @ + k]
        IN  Scan(c) \in {t, Return(RaiseHiwater([t EXCEPT !.fp.flags = @ \cup {"ATEOF"}]))}
  BY ScanIs
<1>1. PICK bytes :
        LET t == [c EXCEPT !.moved = @ \o bytes, !.left = @ - Len(bytes), !.fp.offset = @ + k]
        IN  Scan(c) \in {t, Return(RaiseHiwater([t EXCEPT !.fp.flags = @ \cup {"ATEOF"}]))}
  BY <1>0
<1> DEFINE t == [c EXCEPT !.moved = @ \o bytes, !.left = @ - Len(bytes), !.fp.offset = @ + k]
           g == [c.fp EXCEPT !.offset = @ + k]
<1>2. g \in FCB /\ SameBytes(c.fp, g)
  BY DEF ReadCall, FCB, SameBytes
<1>3. t \in [fp : {g}, disk : {c.disk}, moved : {t.moved}, left : {t.left}, done : {t.done}, ok : {t.ok}]
  BY DEF ReadCall
<1>4. ReadCall(t)
  <2> HIDE DEF t, g
  <2> QED
    BY <1>2, <1>3, ReadMoves
<1>5. Scan(c) \in {t, Return(RaiseHiwater([t EXCEPT !.fp.flags = @ \cup {"ATEOF"}]))}
  BY <1>1
<1> HIDE DEF t
<1> QED
  BY <1>4, <1>5, ReadEnds

LEMMA ReadSectorSound ==
  ASSUME NEW c, ReadCall(c), NEW bad
  PROVE  ReadCall(ReadSector(c, bad))
<1> DEFINE s == c.fp.offset \div SECSIZ
<1>1. ReadCall(Flush(c)) /\ "DIRTY" \notin Flush(c).fp.flags /\ Flush(c).disk = FlushedDisk(c)
  BY ReadFlushed
<1>2. ReadCall([Flush(c) EXCEPT !.fp.flags = @ \cup {"ATEOF"}])
  BY <1>1, ReadEnds
<1>3. s \in DOMAIN FlushedDisk(c) => ReadCall(Load(Flush(c), s))
  BY <1>1, ReadLoaded
<1>4. ReadSector(c, bad) = IF c.done                 THEN c
                           ELSE IF c.left = 0        THEN Return(RaiseHiwater(c))
                           ELSE IF c.fp.sector = s   THEN Scan(c)
                           ELSE IF ~CanFlush(c, bad) THEN Fail(c)
                           ELSE IF s \notin DOMAIN FlushedDisk(c)
                                THEN Return([Flush(c) EXCEPT !.fp.flags = @ \cup {"ATEOF"}])
                           ELSE Scan(Load(Flush(c), s))
  BY DEF ReadSector
<1> HIDE DEF s
<1> QED
  BY <1>1, <1>2, <1>3, <1>4, ReadEnds, ScanSound


(* The rounds of RdAsc, as in its definition. *)
Reading(n, bad) ==
  CHOOSE C : C = [k \in 0 .. Rounds |-> IF k = 0 THEN Begin(n) ELSE ReadSector(C[k - 1], bad)]

LEMMA RdAscIs == ASSUME NEW n, NEW bad PROVE RdAsc(n, bad) = Reading(n, bad)[Rounds]
BY DEF RdAsc, Reading

LEMMA ReadingIs ==
  ASSUME NEW n, NEW bad
  PROVE  /\ Reading(n, bad)[0] = Begin(n)
         /\ \A k \in 1 .. Rounds : Reading(n, bad)[k] = ReadSector(Reading(n, bad)[k - 1], bad)
<1> DEFINE b == Begin(n)
           Is(F, m) == F = [k \in 0 .. m |-> IF k = 0 THEN b ELSE ReadSector(F[k - 1], bad)]
           S == {m \in 0 .. Rounds : \E F : Is(F, m)}
<1>0. Rounds \in Nat
  BY CcbAssumption DEF Rounds
<1>1. 0 \in S
  <2>1. PICK F : Is(F, 0)
    <3>1. Is([k \in 0 .. 0 |-> b], 0)
      OBVIOUS
    <3> QED
      BY <3>1
  <2>2. 0 \in 0 .. Rounds
    BY <1>0
  <2> HIDE DEF Is
  <2> QED
    BY <2>1, <2>2
<1>2. ASSUME NEW m \in 0 .. Rounds - 1, m \in S PROVE m + 1 \in S
  <2>1. PICK F : Is(F, m)
    BY <1>2
  <2> DEFINE h == [k \in 0 .. m + 1 |-> IF k <= m THEN F[k] ELSE ReadSector(F[m], bad)]
  <2>2. ASSUME NEW k \in 0 .. m + 1
        PROVE  h[k] = IF k = 0 THEN b ELSE ReadSector(h[k - 1], bad)
    <3>1. CASE k = 0
      BY <2>1, <3>1
    <3>2. CASE k \in 1 .. m
      <4>1. k - 1 \in 0 .. m /\ k \in 0 .. m
        BY <3>2
      <4>2. h[k] = F[k] /\ h[k - 1] = F[k - 1]
        BY <3>2, <4>1
      <4>3. F[k] = IF k = 0 THEN b ELSE ReadSector(F[k - 1], bad)
        BY <2>1, <4>1
      <4> QED
        BY <4>2, <4>3
    <3>3. CASE k = m + 1
      BY <3>3
    <3> QED
      BY <3>1, <3>2, <3>3
  <2>3. h = [k \in 0 .. m + 1 |-> h[k]]
    OBVIOUS
  <2> HIDE DEF h
  <2>4. Is(h, m + 1)
    <3> HIDE DEF b
    <3> QED
      BY <2>2, <2>3
  <2>5. m + 1 \in 0 .. Rounds
    BY <1>0
  <2> QED
    BY <2>4, <2>5
<1>3. \A m \in 0 .. Rounds : m \in S
  <2> HIDE DEF S
  <2> QED
    BY <1>0, <1>1, <1>2, UpTo
<1>4. PICK F : Is(F, Rounds)
  BY <1>0, <1>3
<1>5. Reading(n, bad) = [k \in 0 .. Rounds |-> IF k = 0 THEN b ELSE ReadSector(Reading(n, bad)[k - 1], bad)]
  BY <1>4 DEF Reading
<1>6. PICK C : C = Reading(n, bad)
  OBVIOUS
<1>7. C = [k \in 0 .. Rounds |-> IF k = 0 THEN b ELSE ReadSector(C[k - 1], bad)]
  BY <1>5, <1>6
<1>8. C[0] = b /\ \A k \in 1 .. Rounds : C[k] = ReadSector(C[k - 1], bad)
  BY <1>0, <1>7
<1> QED
  BY <1>6, <1>8 DEF b

LEMMA RdAscSound ==
  ASSUME IInv, NEW n, NEW bad
  PROVE  ReadCall(RdAsc(n, bad))
<1>1. PICK C : C = Reading(n, bad)
  OBVIOUS
<1> DEFINE S == {k \in Nat : ReadCall(C[k])}
<1>2. Rounds \in Nat
  BY CcbAssumption DEF Rounds
<1>3. 0 \in S
  BY <1>1, ReadingIs, ReadBegins
<1>4. ASSUME NEW k \in 0 .. Rounds - 1, k \in S PROVE k + 1 \in S
  <2>1. k + 1 \in 1 .. Rounds /\ (k + 1) - 1 = k /\ k + 1 \in Nat /\ ReadCall(C[k])
    BY <1>2, <1>4
  <2>2. C[k + 1] = ReadSector(C[k], bad)
    BY <1>1, <2>1, ReadingIs
  <2>3. ReadCall(ReadSector(C[k], bad))
    BY <2>1, ReadSectorSound
  <2> QED
    BY <2>1, <2>2, <2>3
<1>5. \A k \in 0 .. Rounds : k \in S
  <2> HIDE DEF S
  <2> QED
    BY <1>2, <1>3, <1>4, UpTo
<1>6. ReadCall(C[Rounds])
  BY <1>2, <1>5
<1> QED
  BY <1>1, <1>6, RdAscIs


-----------------------------------------------------------------------------
(* What _wrtasc puts on the disk. *)

Items == [char : Byte, own : BOOLEAN]

(* The part of the stream that character j of the data makes. *)
Pieces(data) ==
  [j \in 1 .. Len(data) |->
    LET c == [char |-> data[j], own |-> TRUE]
    IN  IF NeedsReturn(data, j) THEN <<[char |-> CR, own |-> FALSE], c>> ELSE <<c>>]

(* The rounds of FlattenSeq, as in its definition. *)
Flattening(seqs) ==
  CHOOSE F : F = [i \in 1 .. Len(seqs) |->
                    IF i = 1 THEN seqs[i] ELSE F[i - 1] \o seqs[i]]

LEMMA StreamIs ==
  ASSUME NEW data
  PROVE  Stream(data) = LET seqs == Pieces(data)
                        IN  IF Len(seqs) = 0 THEN seqs ELSE Flattening(seqs)[Len(seqs)]
BY DEF Stream, Pieces, FlattenSeq, Flattening

LEMMA FlatteningIs ==
  ASSUME NEW N \in Nat \ {0}, NEW seqs \in [1 .. N -> Seq(Items)], Len(seqs) = N
  PROVE  /\ Flattening(seqs)[1] = seqs[1]
         /\ \A i \in 2 .. N : Flattening(seqs)[i] = Flattening(seqs)[i - 1] \o seqs[i]
<1> DEFINE Is(F, m) == F = [i \in 1 .. m |-> IF i = 1 THEN seqs[i] ELSE F[i - 1] \o seqs[i]]
           S == {m \in 0 .. N : \E F : Is(F, m)}
<1>1. 0 \in S
  <2>1. PICK F : F = [i \in 1 .. 0 |-> seqs[i]]
    OBVIOUS
  <2>2. Is(F, 0)
    BY <2>1
  <2> HIDE DEF Is
  <2> QED
    BY <2>2
<1>2. ASSUME NEW m \in 0 .. N - 1, m \in S PROVE m + 1 \in S
  <2>1. PICK F : Is(F, m)
    BY <1>2
  <2> DEFINE h == [i \in 1 .. m + 1 |-> IF i <= m THEN F[i] ELSE IF i = 1 THEN seqs[1] ELSE F[m] \o seqs[i]]
  <2>2. ASSUME NEW i \in 1 .. m + 1
        PROVE  h[i] = IF i = 1 THEN seqs[i] ELSE h[i - 1] \o seqs[i]
    <3>1. CASE i = 1
      BY <2>1, <3>1
    <3>2. CASE i \in 2 .. m
      <4>1. i - 1 \in 1 .. m /\ i \in 1 .. m /\ i # 1
        BY <3>2
      <4>2. h[i] = F[i] /\ h[i - 1] = F[i - 1]
        BY <3>2, <4>1
      <4>3. F[i] = F[i - 1] \o seqs[i]
        BY <2>1, <4>1
      <4> QED
        BY <4>1, <4>2, <4>3
    <3>3. CASE i = m + 1 /\ i # 1
      <4>1. i - 1 = m /\ m \in 1 .. m + 1 /\ m <= m /\ ~(i <= m)
        BY <3>3
      <4>2. h[i] = F[m] \o seqs[i]
        BY <3>3, <4>1
      <4>3. h[m] = F[m]
        BY <4>1
      <4> HIDE DEF h
      <4> QED
        BY <3>3, <4>1, <4>2, <4>3
    <3> QED
      BY <3>1, <3>2, <3>3
  <2>3. h = [i \in 1 .. m + 1 |-> h[i]]
    OBVIOUS
  <2> HIDE DEF h
  <2>4. Is(h, m + 1)
    BY <2>2, <2>3
  <2>5. m + 1 \in 0 .. N
    OBVIOUS
  <2> HIDE DEF Is
  <2> QED
    BY <2>4, <2>5
<1>3. \A m \in 0 .. N : m \in S
  <2> HIDE DEF S
  <2> QED
    BY <1>1, <1>2, UpTo
<1>4. PICK F : Is(F, N)
  <2>1. N \in S
    <3>1. N \in 0 .. N
      OBVIOUS
    <3> HIDE DEF S
    <3> QED
      BY <1>3, <3>1
  <2> HIDE DEF Is
  <2> QED
    BY <2>1
<1>5. PICK C : C = Flattening(seqs)
  OBVIOUS
<1>6. C = [i \in 1 .. N |-> IF i = 1 THEN seqs[i] ELSE C[i - 1] \o seqs[i]]
  BY <1>4, <1>5 DEF Flattening
<1>7. ASSUME NEW i \in 1 .. N PROVE C[i] = IF i = 1 THEN seqs[i] ELSE C[i - 1] \o seqs[i]
  BY <1>6
<1>8. 1 \in 1 .. N /\ \A i \in 2 .. N : i \in 1 .. N /\ i # 1
  OBVIOUS
<1> QED
  BY <1>5, <1>7, <1>8

(* There is something to write, and it is bytes. *)
LEMMA StreamType ==
  ASSUME NEW data \in Seq(Byte), data # <<>>
  PROVE  Stream(data) \in Seq(Items) /\ Len(Stream(data)) >= 1
<1> DEFINE N == Len(data)
           seqs == Pieces(data)
           F == Flattening(seqs)
           S == {m \in Nat : m # 0 => F[m] \in Seq(Items) /\ Len(F[m]) >= 1}
<1>1. N \in Nat \ {0}
  BY EmptySeq, LenProperties
<1>2. ASSUME NEW j \in 1 .. N PROVE seqs[j] \in Seq(Items) /\ Len(seqs[j]) >= 1
  <2>1. data[j] \in Byte /\ CR \in Byte
    BY ElementOfSeq, AscFileAssumption
  <2>2. PICK c : c = [char |-> data[j], own |-> TRUE]
    OBVIOUS
  <2>3. PICK r : r = [char |-> CR, own |-> FALSE]
    OBVIOUS
  <2>4. c \in Items /\ r \in Items
    BY <2>1, <2>2, <2>3 DEF Items
  <2>5. seqs[j] \in {<<r, c>>, <<c>>}
    BY <2>2, <2>3 DEF Pieces
  <2> HIDE DEF seqs
  <2>6. CASE seqs[j] = <<r, c>>
    BY <2>4, <2>6
  <2>7. CASE seqs[j] = <<c>>
    BY <2>4, <2>7
  <2> QED
    BY <2>5, <2>6, <2>7
<1>3. seqs \in [1 .. N -> Seq(Items)] /\ Len(seqs) = N
  <2>1. seqs = [j \in 1 .. N |-> seqs[j]]
    BY DEF Pieces
  <2> HIDE DEF seqs
  <2>2. seqs \in [1 .. N -> Seq(Items)]
    BY <1>2, <2>1
  <2> HIDE DEF N
  <2> QED
    BY <1>1, <2>2
<1> HIDE DEF seqs
<1>4. F[1] = seqs[1] /\ \A i \in 2 .. N : F[i] = F[i - 1] \o seqs[i]
  <2> HIDE DEF N
  <2> QED
    BY <1>1, <1>3, FlatteningIs
<1> HIDE DEF F
<1>5. 0 \in S
  OBVIOUS
<1>6. ASSUME NEW m \in 0 .. N - 1, m \in S PROVE m + 1 \in S
  <2>0. m + 1 \in 1 .. N /\ m + 1 \in Nat /\ seqs[m + 1] \in Seq(Items) /\ Len(seqs[m + 1]) >= 1
    BY <1>1, <1>2
  <2>1. CASE m = 0
    BY <1>4, <2>0, <2>1
  <2>2. CASE m # 0
    <3>1. F[m] \in Seq(Items) /\ Len(F[m]) >= 1
      BY <1>6, <2>2
    <3>2. m + 1 \in 2 .. N /\ (m + 1) - 1 = m
      BY <1>1, <2>0, <2>2
    <3>3. F[m + 1] = F[m] \o seqs[m + 1]
      BY <1>4, <3>2
    <3>4. F[m + 1] \in Seq(Items) /\ Len(F[m + 1]) = Len(F[m]) + Len(seqs[m + 1])
      BY <2>0, <3>1, <3>3, ConcatProperties
    <3>5. Len(F[m]) \in Nat /\ Len(seqs[m + 1]) \in Nat
      BY <2>0, <3>1, LenProperties
    <3>6. PICK x \in Nat, y \in Nat : x = Len(F[m]) /\ y = Len(seqs[m + 1])
      BY <3>5
    <3>7. x >= 1 /\ Len(F[m + 1]) = x + y
      BY <3>1, <3>4, <3>6
    <3>8. Len(F[m + 1]) >= 1
      BY <3>7
    <3> QED
      BY <2>0, <3>4, <3>8
  <2> QED
    BY <2>1, <2>2
<1>7. \A m \in 0 .. N : m \in S
  <2> HIDE DEF S, N
  <2> QED
    BY <1>1, <1>5, <1>6, UpTo
<1>8. F[N] \in Seq(Items) /\ Len(F[N]) >= 1
  <2>1. N \in 0 .. N /\ N # 0
    BY <1>1
  <2> HIDE DEF N
  <2> QED
    BY <1>7, <2>1
<1>9. Stream(data) = F[N]
  BY <1>1, <1>3, StreamIs DEF F, seqs
<1> QED
  BY <1>8, <1>9

(* The caller's characters among the first k of the stream. *)
LEMMA ConsumedIs ==
  ASSUME NEW src, NEW k \in Nat
  PROVE  /\ Consumed(src, k) \in Nat
         /\ Consumed(src, 0) = 0
         /\ \A j \in Nat : k < j /\ src[j].own => Consumed(src, k) < Consumed(src, j)
<1> DEFINE Own(m) == {j \in 1 .. m : src[j].own}
<1>1. ASSUME NEW m \in Nat PROVE IsFiniteSet(Own(m)) /\ Cardinality(Own(m)) \in Nat
  <2>1. IsFiniteSet(1 .. m)
    BY FS_Interval
  <2>2. IsFiniteSet(Own(m))
    BY <2>1, FS_Subset
  <2> QED
    BY <2>2, FS_CardinalityType
<1>2. Own(0) = {}
  OBVIOUS
<1>3. Cardinality({}) = 0
  BY FS_EmptySet
<1>4. ASSUME NEW j \in Nat, k < j, src[j].own PROVE Cardinality(Own(k)) < Cardinality(Own(j))
  <2>1. Own(k) \cup {j} \subseteq Own(j) /\ j \notin Own(k)
    BY <1>4
  <2> HIDE DEF Own
  <2>2. Cardinality(Own(k) \cup {j}) = Cardinality(Own(k)) + 1
    BY <1>1, <2>1, FS_AddElement
  <2>3. Cardinality(Own(k) \cup {j}) <= Cardinality(Own(j))
    BY <1>1, <2>1, FS_Subset
  <2>4. Cardinality(Own(k)) \in Nat /\ Cardinality(Own(j)) \in Nat
    BY <1>1
  <2> QED
    BY <2>2, <2>3, <2>4
<1> QED
  BY <1>1, <1>2, <1>3, <1>4 DEF Consumed


-----------------------------------------------------------------------------
(* The rounds of _wrtasc. *)

Writable(f) == "OPENED" \in f.flags /\ "ISREAD" \notin f.flags

(* The call goes on: the offset is where the stream is, at the beginning   *)
(* of the call or of a sector.                                             *)
Ongoing(c, f) ==
  /\ c.ok /\ c.ret = 0
  /\ c.at < Len(c.src)
  /\ c.fp.offset = f.offset + c.at
  /\ c.at # 0 => c.fp.offset % SECSIZ = 0
  /\ c.at = 0 /\ "DIRTY" \in f.flags /\ f.sector = f.offset \div SECSIZ
       => "DIRTY" \in c.fp.flags /\ c.fp.sector = f.sector

(* These characters of the stream are in the file. *)
Arrived(c, j) == IF c.done THEN c.src[j].own /\ Consumed(c.src, j) <= c.ret ELSE j <= c.at

Counted(c, f) ==
  \A j \in 1 .. Len(c.src), i \in Nat :
    i = f.offset + j - 1 /\ Arrived(c, j) => Shows(c.fp, c.disk, i) = c.src[j].char

(* What was dirty before the place of the write. *)
Ahead(f, i) == "DIRTY" \in f.flags /\ i < f.offset /\ i \div SECSIZ = f.sector

WriteCall(c, f, d) ==
  /\ c \in [fp : FCB, disk : {c.disk}, src : Seq(Items), at : {c.at}, done : BOOLEAN,
            ok : BOOLEAN, ret : Nat]
  /\ c.at \in 0 .. Len(c.src)
  /\ Sound(c.fp, c.disk) /\ Writable(c.fp)
  /\ ~c.done => Ongoing(c, f)
  /\ Counted(c, f)
  /\ \A i \in Nat : Ahead(f, i) => Shows(c.fp, c.disk, i) = Shows(f, d, i)

(* Another CCB and disk that show the same bytes. *)
LEMMA WriteMoves ==
  ASSUME NEW f, NEW d, NEW c, WriteCall(c, f, d), ~c.done,
         NEW g \in FCB, NEW e, Sound(g, e), Writable(g), g.offset = c.fp.offset,
         \A i \in Nat : Shows(g, e, i) = Shows(c.fp, c.disk, i),
         c.at = 0 => ~("DIRTY" \in f.flags /\ f.sector = f.offset \div SECSIZ),
         NEW n, n \in [fp : {g}, disk : {e}, src : {c.src}, at : {c.at}, done : {FALSE},
                       ok : {c.ok}, ret : {c.ret}]
  PROVE  WriteCall(n, f, d)
<1>1. /\ n.fp = g /\ n.disk = e /\ n.src = c.src /\ n.at = c.at /\ ~n.done
      /\ n.ok = c.ok /\ n.ret = c.ret
  OBVIOUS
<1>2. n \in [fp : FCB, disk : {n.disk}, src : Seq(Items), at : {n.at}, done : BOOLEAN,
             ok : BOOLEAN, ret : Nat]
  <2>1. c.src \in Seq(Items) /\ c.ok \in BOOLEAN /\ c.ret \in Nat
    BY DEF WriteCall
  <2> QED
    BY <1>1, <2>1
<1>3. n.at \in 0 .. Len(n.src)
  BY <1>1 DEF WriteCall
<1>4. Ongoing(n, f)
  BY <1>1 DEF WriteCall, Ongoing
<1>5. Counted(n, f)
  <2>1. \A j \in 1 .. Len(c.src), i \in Nat :
          i = f.offset + j - 1 /\ j <= c.at => Shows(c.fp, c.disk, i) = c.src[j].char
    BY DEF WriteCall, Counted, Arrived
  <2> QED
    BY <1>1, <2>1 DEF Counted, Arrived
<1>6. \A i \in Nat : Ahead(f, i) => Shows(n.fp, n.disk, i) = Shows(f, d, i)
  BY <1>1 DEF WriteCall
<1> QED
  BY <1>1, <1>2, <1>3, <1>4, <1>5, <1>6 DEF WriteCall

LEMMA WriteFails ==
  ASSUME NEW f, NEW d, NEW c, WriteCall(c, f, d), ~c.done
  PROVE  WriteCall(Fail(c), f, d)
<1> DEFINE n == Fail(c)
<1>1. /\ n.fp = c.fp /\ n.disk = c.disk /\ n.src = c.src /\ n.at = c.at /\ n.done
      /\ n.ok = FALSE /\ n.ret = 0
  BY DEF WriteCall, Fail, Ongoing
<1>2. n \in [fp : FCB, disk : {n.disk}, src : Seq(Items), at : {n.at}, done : BOOLEAN,
             ok : BOOLEAN, ret : Nat]
  BY DEF WriteCall, Fail
<1> HIDE DEF n
<1>3. Counted(n, f)
  <2>1. \A j \in 1 .. Len(c.src) : ~(c.src[j].own /\ Consumed(c.src, j) <= 0)
    <3> SUFFICES ASSUME NEW j \in 1 .. Len(c.src), c.src[j].own PROVE ~(Consumed(c.src, j) <= 0)
      OBVIOUS
    <3>1. 0 \in Nat /\ j \in Nat /\ 0 < j
      BY LenProperties DEF WriteCall
    <3>2. Consumed(c.src, 0) = 0 /\ Consumed(c.src, 0) < Consumed(c.src, j)
      BY <3>1, ConsumedIs
    <3>3. Consumed(c.src, j) \in Nat
      BY <3>1, ConsumedIs
    <3> QED
      BY <3>2, <3>3
  <2> QED
    BY <1>1, <2>1 DEF Counted, Arrived
<1> QED
  BY <1>1, <1>2, <1>3 DEF WriteCall, n


(* The buffer belongs to another sector: what it held is written out, and  *)
(* it takes the one that is written next, or its label.                    *)
LEMMA WriteFlushed ==
  ASSUME NEW f, NEW d, NEW c, WriteCall(c, f, d), ~c.done,
         c.fp.sector # c.fp.offset \div SECSIZ, f.offset \in Int
  PROVE  /\ WriteCall(Flush(c), f, d) /\ ~Flush(c).done
         /\ Flush(c).fp.offset = c.fp.offset /\ Flush(c).disk = FlushedDisk(c)
         /\ "DIRTY" \notin Flush(c).fp.flags
         /\ Flush(c).at = 0 => ~("DIRTY" \in f.flags /\ f.sector = f.offset \div SECSIZ)
<1> DEFINE g == [c.fp EXCEPT !.flags = @ \ {"DIRTY"}]
           n == Flush(c)
<1>1. c.fp \in FCB /\ Sound(c.fp, c.disk) /\ Writable(c.fp)
  BY DEF WriteCall
<1>2. /\ g \in FCB /\ Owned(g) /\ "DIRTY" \notin g.flags /\ g.offset = c.fp.offset
      /\ Writable(g)
  BY <1>1 DEF FCB, Owned, Writable
<1>3. Sound(g, FlushedDisk(c))
  <2> HIDE DEF g
  <2> QED
    BY <1>1, <1>2, FlushedSound DEF Sound
<1>4. \A i \in Nat : Shows(g, FlushedDisk(c), i) = Shows(c.fp, c.disk, i)
  <2> HIDE DEF g
  <2> QED
    BY <1>1, <1>2, FlushedShows
<1>5. c.at = 0 => ~("DIRTY" \in f.flags /\ f.sector = f.offset \div SECSIZ)
  <2> SUFFICES ASSUME c.at = 0, "DIRTY" \in f.flags, f.sector = f.offset \div SECSIZ PROVE FALSE
    OBVIOUS
  <2>1. c.fp.offset = f.offset + 0 /\ c.fp.sector = f.sector
    BY DEF WriteCall, Ongoing
  <2> QED
    BY <2>1
<1>6. n \in [fp : {g}, disk : {FlushedDisk(c)}, src : {c.src}, at : {c.at}, done : {FALSE},
             ok : {c.ok}, ret : {c.ret}]
  BY DEF Flush, WriteCall
<1>7. n.fp = g /\ n.disk = FlushedDisk(c) /\ n.at = c.at /\ ~n.done
  <2> HIDE DEF n, g
  <2> QED
    BY <1>6
<1>8. WriteCall(n, f, d)
  <2> HIDE DEF n, g
  <2> QED
    BY <1>2, <1>3, <1>4, <1>5, <1>6, WriteMoves
<1> HIDE DEF g
<1> QED
  BY <1>2, <1>5, <1>7, <1>8

LEMMA WriteLoaded ==
  ASSUME NEW f, NEW d, NEW c, WriteCall(c, f, d), ~c.done, "DIRTY" \notin c.fp.flags,
         c.at = 0 => ~("DIRTY" \in f.flags /\ f.sector = f.offset \div SECSIZ),
         NEW s \in Nat \cup {-1}
  PROVE  /\ WriteCall([c EXCEPT !.fp.sector = s], f, d)
         /\ s \in DOMAIN c.disk => WriteCall(Load(c, s), f, d)
<1>1. Sound(c.fp, c.disk) /\ Writable(c.fp) /\ c.fp.buffer \in Sector
  BY DEF WriteCall, FCB
<1>2. ASSUME NEW sec \in Sector, NEW n,
             n \in [fp : {Holding(c.fp, s, sec)}, disk : {c.disk}, src : {c.src}, at : {c.at},
                    done : {FALSE}, ok : {c.ok}, ret : {c.ret}]
      PROVE  WriteCall(n, f, d)
  <2>1. PICK g : g = Holding(c.fp, s, sec)
    OBVIOUS
  <2>2. Sound(g, c.disk) /\ g.flags = c.fp.flags /\ g.offset = c.fp.offset
    BY <1>1, <2>1, CleanLoad
  <2>3. \A i \in Nat : Shows(g, c.disk, i) = Shows(c.fp, c.disk, i)
    BY <1>1, <2>1, CleanLoad
  <2>4. g \in FCB /\ Writable(g)
    BY <1>1, <2>2 DEF Sound, Writable
  <2> QED
    BY <1>2, <2>1, <2>2, <2>3, <2>4, WriteMoves
<1>3. WriteCall([c EXCEPT !.fp.sector = s], f, d)
  <2> DEFINE n == [c EXCEPT !.fp.sector = s]
  <2>1. Holding(c.fp, s, c.fp.buffer) = [c.fp EXCEPT !.sector = s]
    BY <1>1 DEF Holding, Sound, FCB
  <2>2. n \in [fp : {[c.fp EXCEPT !.sector = s]}, disk : {c.disk}, src : {c.src}, at : {c.at},
               done : {FALSE}, ok : {c.ok}, ret : {c.ret}]
    BY DEF WriteCall
  <2> HIDE DEF n
  <2>3. WriteCall(n, f, d)
    BY <1>1, <1>2, <2>1, <2>2
  <2> QED
    BY <2>3 DEF n
<1>4. ASSUME s \in DOMAIN c.disk PROVE WriteCall(Load(c, s), f, d)
  <2> DEFINE n == Load(c, s)
  <2>1. c.disk[s] \in Sector
    BY <1>1, <1>4 DEF Sound, DiskOK
  <2>2. n \in [fp : {Holding(c.fp, s, c.disk[s])}, disk : {c.disk}, src : {c.src}, at : {c.at},
               done : {FALSE}, ok : {c.ok}, ret : {c.ret}]
    BY DEF WriteCall, Load, Holding
  <2> HIDE DEF n
  <2>3. WriteCall(n, f, d)
    BY <1>2, <2>1, <2>2
  <2> QED
    BY <2>3 DEF n
<1> QED
  BY <1>3, <1>4


(* A sector is filled: what the buffer holds then. *)
Room(c) == Least(SECSIZ - (c.fp.offset % SECSIZ), Len(c.src) - c.at)

Mixed(c) ==
  LET p == c.fp.offset % SECSIZ
  IN  [i \in 0 .. SECSIZ - 1 |-> IF i \in p .. p + Room(c) - 1
                                 THEN c.src[c.at + i - p + 1].char ELSE c.fp.buffer[i]]

LEMMA RoomIs ==
  ASSUME NEW f, NEW d, NEW c, WriteCall(c, f, d), ~c.done
  PROVE  /\ Room(c) \in Nat \ {0} /\ c.fp.offset \in Int
         /\ Len(c.src) \in Nat /\ c.at \in Nat
         /\ c.fp.offset % SECSIZ \in 0 .. SECSIZ - 1
         /\ (c.fp.offset % SECSIZ) + Room(c) <= SECSIZ
         /\ c.at + Room(c) \in 0 .. Len(c.src)
         /\ (c.fp.offset % SECSIZ) + Room(c) < SECSIZ
              => c.at + Room(c) = Len(c.src) /\ c.fp.offset \div SECSIZ \in Nat
         /\ Mixed(c) \in Sector
<1>0. SECSIZ \in Nat \ {0} /\ c.fp.offset \in Nat \cup {-1} /\ c.src \in Seq(Items)
  BY CcbAssumption DEF WriteCall, FCB
<1>1. PICK p \in 0 .. SECSIZ - 1 : p = c.fp.offset % SECSIZ
  BY <1>0, SectorOf
<1>2. PICK l \in Nat : l = Len(c.src)
  BY <1>0, LenProperties
<1>3. PICK a \in 0 .. l : a = c.at /\ a < l
  BY <1>2 DEF WriteCall, Ongoing
<1>4. PICK k \in Nat : k = Room(c) /\ k = Least(SECSIZ - p, l - a)
  <2>1. Least(SECSIZ - p, l - a) \in Nat
    BY <1>0, <1>3 DEF Least
  <2> QED
    BY <1>1, <1>2, <1>3, <2>1 DEF Room
<1>5. k # 0 /\ p + k <= SECSIZ /\ a + k \in 0 .. l /\ (p + k < SECSIZ => a + k = l)
  BY <1>0, <1>3, <1>4 DEF Least
<1>6. p + k < SECSIZ => c.fp.offset \div SECSIZ \in Nat
  <2>1. CASE c.fp.offset = -1
    <3>1. p = SECSIZ - 1
      BY <1>0, <1>1, <2>1, SectorOf
    <3> QED
      BY <1>0, <1>5, <3>1
  <2>2. CASE c.fp.offset \in Nat
    BY <1>0, <2>2, SectorOf
  <2> QED
    BY <1>0, <2>1, <2>2
<1>7. Mixed(c) \in Sector
  <2>1. ASSUME NEW i \in p .. p + k - 1 PROVE c.src[a + i - p + 1].char \in Byte
    <3>1. a + i - p + 1 \in 1 .. Len(c.src)
      BY <1>2, <1>5
    <3>2. c.src[a + i - p + 1] \in Items
      BY <1>0, <3>1, ElementOfSeq
    <3> QED
      BY <3>2 DEF Items
  <2>2. c.fp.buffer \in [0 .. SECSIZ - 1 -> Byte]
    BY DEF WriteCall, FCB, Sector
  <2>3. Mixed(c) = [i \in 0 .. SECSIZ - 1 |-> IF i \in p .. p + k - 1
                                 THEN c.src[a + i - p + 1].char ELSE c.fp.buffer[i]]
    BY <1>1, <1>3, <1>4 DEF Mixed
  <2> QED
    BY <2>1, <2>2, <2>3 DEF Sector
<1>8. c.fp.offset \in Int /\ k \in Nat \ {0} /\ a \in Nat
  BY <1>0, <1>5
<1> QED
  BY <1>1, <1>2, <1>3, <1>4, <1>5, <1>6, <1>7, <1>8

(* How a call is left: flags, disk, whether it returned, what it answers.  *)
Outcome(e, c, flags, dsk, done, ret) ==
  /\ e.fp \in [flags : {flags}, offset : {c.fp.offset + Room(c)}, sector : {c.fp.sector},
               hiwater : Nat, buffer : {Mixed(c)}]
  /\ e \in [fp : {e.fp}, disk : {dsk}, src : {c.src}, at : {c.at + Room(c)}, done : {done},
            ok : {TRUE}, ret : {ret}]

(* The sector is not full: the text ends in it. *)
Partial(e, c) ==
  /\ (c.fp.offset % SECSIZ) + Room(c) < SECSIZ
  /\ Outcome(e, c, c.fp.flags \cup {"DIRTY"}, c.disk, TRUE, Consumed(c.src, Len(c.src)))

(* It is full, and BDOS refuses it. *)
Rejected(e, c) ==
  /\ (c.fp.offset % SECSIZ) + Room(c) = SECSIZ
  /\ Outcome(e, c, c.fp.flags, c.disk, TRUE, Consumed(c.src, c.at))

(* It is full, and on the disk. *)
Full(e, c) ==
  LET s    == c.fp.offset \div SECSIZ
      last == c.at + Room(c) = Len(c.src)
  IN  /\ (c.fp.offset % SECSIZ) + Room(c) = SECSIZ
      /\ s \in Nat
      /\ Outcome(e, c, c.fp.flags, PutSector(c.disk, s, Mixed(c)), last,
                 IF last THEN Consumed(c.src, Len(c.src)) ELSE 0)

LEMMA FillIs ==
  ASSUME NEW f, NEW d, NEW c, WriteCall(c, f, d), ~c.done, NEW bad
  PROVE  Partial(Fill(c, bad), c) \/ Rejected(Fill(c, bad), c) \/ Full(Fill(c, bad), c)
<1> DEFINE s == c.fp.offset \div SECSIZ
           p == c.fp.offset % SECSIZ
           k == Room(c)
           g == [c EXCEPT !.fp.buffer = Mixed(c), !.fp.offset = @ + k, !.at = @ + k]
           h == [c EXCEPT !.fp.buffer = Mixed(c), !.fp.offset = @ + k, !.at = @ + k,
                          !.fp.flags = @ \cup {"DIRTY"}]
           w == [c EXCEPT !.fp.buffer = Mixed(c), !.fp.offset = @ + k, !.at = @ + k,
                          !.disk = PutSector(@, s, Mixed(c))]
           Ended(x) == IF x.at = Len(x.src)
                     THEN Return(RaiseHiwater([x EXCEPT !.ret = Consumed(x.src, x.at)]))
                     ELSE x
<1>1. Fill(c, bad) = IF p + k < SECSIZ THEN Ended(h)
                     ELSE IF s \in bad \/ s < 0 THEN Return([g EXCEPT !.ret = Consumed(c.src, c.at)])
                     ELSE Ended(w)
  BY DEF Fill, Room, Mixed, WrittenBefore, WriteCall, FCB
<1>2. /\ c \in [fp : FCB, disk : {c.disk}, src : {c.src}, at : {c.at}, done : {FALSE}, ok : {TRUE}, ret : {0}]
      /\ c.fp \in [flags : {c.fp.flags}, offset : {c.fp.offset}, sector : {c.fp.sector},
                   hiwater : Nat, buffer : {c.fp.buffer}]
  BY DEF WriteCall, Ongoing, FCB
<1>3. k \in Nat /\ p + k <= SECSIZ /\ c.fp.offset \in Int /\ p \in Nat
  BY RoomIs
<1>4. SECSIZ \in Nat \ {0} /\ s \in Nat \cup {-1}
  <2>1. c.fp.offset \in Nat \cup {-1}
    BY DEF WriteCall, FCB
  <2> QED
    BY <2>1, CcbAssumption, SectorOf
<1> HIDE DEF k, p
<1>5. ASSUME NEW fl, NEW dsk, NEW x,
             x.fp \in [flags : {fl}, offset : {c.fp.offset + k}, sector : {c.fp.sector},
                       hiwater : Nat, buffer : {Mixed(c)}],
             x \in [fp : {x.fp}, disk : {dsk}, src : {c.src}, at : {c.at + k}, done : {FALSE},
                    ok : {TRUE}, ret : {0}]
      PROVE  /\ c.at + k = Len(c.src) => Outcome(Ended(x), c, fl, dsk, TRUE, Consumed(c.src, Len(c.src)))
             /\ c.at + k # Len(c.src) => Outcome(Ended(x), c, fl, dsk, FALSE, 0)
  <2>1. CASE c.at + k = Len(c.src)
    <3> DEFINE y == Ended(x)
    <3>1. y = Return(RaiseHiwater([x EXCEPT !.ret = Consumed(x.src, x.at)]))
      BY <1>5, <2>1
    <3>2. PICK v : v = [x EXCEPT !.ret = Consumed(x.src, x.at)]
      OBVIOUS
    <3>3. v \in [fp : {x.fp}, disk : {dsk}, src : {c.src}, at : {c.at + k}, done : {FALSE},
                    ok : {TRUE}, ret : {Consumed(c.src, Len(c.src))}]
      BY <1>5, <2>1, <3>2
    <3>4. PICK m \in Nat : m = Greatest(v.fp.hiwater, v.fp.offset)
      <4>1. v.fp.hiwater \in Nat /\ v.fp.offset \in Int
        BY <1>3, <1>5, <3>3
      <4>2. Greatest(v.fp.hiwater, v.fp.offset) \in Nat
        BY <4>1 DEF Greatest
      <4> QED
        BY <4>2
    <3>5. PICK q : q = [v.fp EXCEPT !.hiwater = m]
      OBVIOUS
    <3>6. q \in [flags : {fl}, offset : {c.fp.offset + k}, sector : {c.fp.sector},
                  hiwater : Nat, buffer : {Mixed(c)}]
      <4>1. v.fp \in [flags : {fl}, offset : {c.fp.offset + k}, sector : {c.fp.sector},
                       hiwater : Nat, buffer : {Mixed(c)}]
        BY <1>5, <3>3
      <4> QED
        BY <3>5, <4>1
    <3>7. RaiseHiwater(v) = [v EXCEPT !.fp = q]
      BY <3>3, <3>4, <3>5 DEF RaiseHiwater
    <3>8. y \in [fp : {q}, disk : {dsk}, src : {c.src}, at : {c.at + k}, done : {TRUE},
                 ok : {TRUE}, ret : {Consumed(c.src, Len(c.src))}]
      <4>1. y = [[v EXCEPT !.fp = q] EXCEPT !.done = TRUE]
        BY <3>1, <3>2, <3>7 DEF Return
      <4> HIDE DEF y
      <4> QED
        BY <3>3, <4>1
    <3>9. y.fp = q
      <4> HIDE DEF y
      <4> QED
        BY <3>8
    <3> HIDE DEF y
    <3>10. Outcome(y, c, fl, dsk, TRUE, Consumed(c.src, Len(c.src)))
      BY <3>6, <3>8, <3>9 DEF Outcome, k
    <3> QED
      BY <2>1, <3>10 DEF y
  <2>2. CASE c.at + k # Len(c.src)
    <3>1. Ended(x) = x
      BY <1>5, <2>2
    <3>2. Outcome(x, c, fl, dsk, FALSE, 0)
      BY <1>5 DEF Outcome, k
    <3> HIDE DEF Ended
    <3> QED
      BY <2>2, <3>1, <3>2
  <2> QED
    BY <2>1, <2>2
<1>6. CASE p + k < SECSIZ
  <2>1. c.at + k = Len(c.src)
    BY <1>6, RoomIs DEF k, p
  <2>2. h.fp \in [flags : {c.fp.flags \cup {"DIRTY"}}, offset : {c.fp.offset + k},
                  sector : {c.fp.sector}, hiwater : Nat, buffer : {Mixed(c)}]
    BY <1>2
  <2>3. h \in [fp : {h.fp}, disk : {c.disk}, src : {c.src}, at : {c.at + k}, done : {FALSE},
               ok : {TRUE}, ret : {0}]
    BY <1>2
  <2> HIDE DEF h
  <2>4. Outcome(Ended(h), c, c.fp.flags \cup {"DIRTY"}, c.disk, TRUE, Consumed(c.src, Len(c.src)))
    <3> HIDE DEF Ended
    <3> QED
      BY <1>5, <2>1, <2>2, <2>3
  <2> HIDE DEF Ended
  <2>5. Fill(c, bad) = Ended(h)
    BY <1>1, <1>6
  <2> QED
    BY <1>6, <2>4, <2>5 DEF Partial, k, p
<1>7. CASE p + k = SECSIZ /\ (s \in bad \/ s < 0)
  <2>1. Fill(c, bad) = Return([g EXCEPT !.ret = Consumed(c.src, c.at)])
    <3> HIDE DEF g, Ended
    <3> QED
      BY <1>1, <1>4, <1>7
  <2>2. g.fp \in [flags : {c.fp.flags}, offset : {c.fp.offset + k},
                  sector : {c.fp.sector}, hiwater : Nat, buffer : {Mixed(c)}]
    BY <1>2
  <2>3. g \in [fp : {g.fp}, disk : {c.disk}, src : {c.src}, at : {c.at + k}, done : {FALSE},
               ok : {TRUE}, ret : {0}]
    BY <1>2
  <2> HIDE DEF g
  <2>4. PICK x : x = Return([g EXCEPT !.ret = Consumed(c.src, c.at)])
    OBVIOUS
  <2>5. x \in [fp : {g.fp}, disk : {c.disk}, src : {c.src}, at : {c.at + k}, done : {TRUE},
               ok : {TRUE}, ret : {Consumed(c.src, c.at)}]
    BY <2>3, <2>4 DEF Return
  <2>6. x.fp = g.fp
    BY <2>5
  <2>7. Outcome(x, c, c.fp.flags, c.disk, TRUE, Consumed(c.src, c.at))
    BY <2>2, <2>5, <2>6 DEF Outcome, k
  <2> QED
    BY <1>7, <2>1, <2>4, <2>7 DEF Rejected, k, p
<1>8. CASE p + k = SECSIZ /\ ~(s \in bad \/ s < 0)
  <2>1. Fill(c, bad) = Ended(w)
    <3> HIDE DEF w, Ended
    <3> QED
      BY <1>1, <1>4, <1>8
  <2>2. w.fp \in [flags : {c.fp.flags}, offset : {c.fp.offset + k},
                  sector : {c.fp.sector}, hiwater : Nat, buffer : {Mixed(c)}]
    BY <1>2
  <2>3. w \in [fp : {w.fp}, disk : {PutSector(c.disk, s, Mixed(c))}, src : {c.src},
               at : {c.at + k}, done : {FALSE}, ok : {TRUE}, ret : {0}]
    BY <1>2
  <2>4. s \in Nat
    BY <1>4, <1>8
  <2> HIDE DEF w, Ended
  <2>5. CASE c.at + k = Len(c.src)
    <3>1. Outcome(Ended(w), c, c.fp.flags, PutSector(c.disk, s, Mixed(c)), TRUE,
                  Consumed(c.src, Len(c.src)))
      BY <1>5, <2>2, <2>3, <2>5
    <3> QED
      BY <1>8, <2>1, <2>4, <2>5, <3>1 DEF Full, k, p
  <2>6. CASE c.at + k # Len(c.src)
    <3>1. Outcome(Ended(w), c, c.fp.flags, PutSector(c.disk, s, Mixed(c)), FALSE, 0)
      BY <1>5, <2>2, <2>3, <2>6
    <3> QED
      BY <1>8, <2>1, <2>4, <2>6, <3>1 DEF Full, k, p
  <2> QED
    BY <2>5, <2>6
<1> QED
  BY <1>3, <1>4, <1>6, <1>7, <1>8


LEMMA MixedIs ==
  ASSUME NEW f, NEW d, NEW c, WriteCall(c, f, d), ~c.done, NEW i \in Nat
  PROVE  LET o == c.fp.offset
             k == Room(c)
         IN  /\ i \in o .. o + k - 1 => /\ i \div SECSIZ = o \div SECSIZ
                                        /\ Mixed(c)[i % SECSIZ] = c.src[c.at + i - o + 1].char
             /\ i \div SECSIZ = o \div SECSIZ /\ i \notin o .. o + k - 1
                  => Mixed(c)[i % SECSIZ] = c.fp.buffer[i % SECSIZ]
<1>1. PICK o \in Int, k \in Nat : o = c.fp.offset /\ k = Room(c)
  BY RoomIs
<1>2. PICK p \in Int : p = o % SECSIZ /\ p + k <= SECSIZ
  BY <1>1, RoomIs
<1>3. PICK m \in Int : m = i % SECSIZ
  BY CcbAssumption
<1>4. i \in o .. o + k - 1 => i \div SECSIZ = o \div SECSIZ
  BY <1>1, <1>2, Excerpt
<1>5. i \div SECSIZ = o \div SECSIZ => i - o = m - p /\ m \in 0 .. SECSIZ - 1
  BY <1>1, <1>2, <1>3, Excerpt
<1>6. PICK a \in Nat : a = c.at
  BY RoomIs
<1>7. m \in 0 .. SECSIZ - 1 => Mixed(c)[m] = IF m \in p .. p + k - 1
                                             THEN c.src[a + m - p + 1].char ELSE c.fp.buffer[m]
  BY <1>1, <1>2, <1>6 DEF Mixed
<1>8. ASSUME i \div SECSIZ = o \div SECSIZ
      PROVE  Mixed(c)[m] = IF i \in o .. o + k - 1
                           THEN c.src[a + i - o + 1].char ELSE c.fp.buffer[m]
  <2>1. m \in p .. p + k - 1 <=> i \in o .. o + k - 1
    BY <1>1, <1>2, <1>3, <1>5, <1>8
  <2>2. a + m - p + 1 = a + i - o + 1
    BY <1>1, <1>2, <1>3, <1>5, <1>6, <1>8
  <2> QED
    BY <1>5, <1>7, <1>8, <2>1, <2>2
<1> QED
  BY <1>1, <1>3, <1>4, <1>6, <1>8

LEMMA FillSound ==
  ASSUME NEW f, NEW d, NEW c, WriteCall(c, f, d), ~c.done,
         c.fp.sector = c.fp.offset \div SECSIZ,
         NEW e, Partial(e, c) \/ Rejected(e, c) \/ Full(e, c)
  PROVE  /\ e.fp \in FCB /\ Sound(e.fp, e.disk) /\ Writable(e.fp)
         /\ \A i \in Nat :
              \/ i \div SECSIZ # c.fp.sector
              \/ "DIRTY" \in c.fp.flags /\ i \notin c.fp.offset .. c.fp.offset + Room(c) - 1
              => Shows(e.fp, e.disk, i) = Shows(c.fp, c.disk, i)
         /\ Partial(e, c) \/ Full(e, c)
              => \A i \in Nat : i \in c.fp.offset .. c.fp.offset + Room(c) - 1
                   => Shows(e.fp, e.disk, i) = c.src[c.at + i - c.fp.offset + 1].char
<1> DEFINE s == c.fp.offset \div SECSIZ
<1>1. /\ c.fp \in FCB /\ Sound(c.fp, c.disk) /\ Writable(c.fp)
      /\ Mixed(c) \in Sector /\ c.fp.offset \in Nat \cup {-1}
  BY RoomIs DEF WriteCall, FCB
<1>2. PICK n \in Nat \cup {-1} : n = c.fp.offset + Room(c)
  <2>1. PICK k \in Nat \ {0} : k = Room(c)
    BY RoomIs
  <2>2. c.fp.offset + k \in Nat
    BY <1>1, <2>1
  <2> QED
    BY <2>1, <2>2
<1>3. /\ e.fp.sector = s /\ e.fp.buffer = Mixed(c) /\ e.fp.offset = n /\ e.fp.hiwater \in Nat
      /\ e.fp = [flags |-> e.fp.flags, offset |-> e.fp.offset, sector |-> e.fp.sector,
                 hiwater |-> e.fp.hiwater, buffer |-> e.fp.buffer]
      /\ Partial(e, c) => e.fp.flags = c.fp.flags \cup {"DIRTY"} /\ e.disk = c.disk /\ s \in Nat
      /\ Rejected(e, c) => e.fp.flags = c.fp.flags /\ e.disk = c.disk
      /\ Full(e, c) => e.fp.flags = c.fp.flags /\ e.disk = PutSector(c.disk, s, Mixed(c)) /\ s \in Nat
  BY <1>2, RoomIs DEF Partial, Rejected, Full, Outcome
<1>4. /\ e.fp.flags \in {c.fp.flags, c.fp.flags \cup {"DIRTY"}}
      /\ s \in Nat \cup {-1}
  BY <1>1, <1>3 DEF FCB
<1>5. e.fp \in FCB
  <2>1. e.fp.flags \subseteq Flag
    BY <1>1, <1>4 DEF FCB, Flag
  <2> HIDE DEF s
  <2> QED
    BY <1>1, <1>2, <1>3, <1>4, <2>1 DEF FCB
<1>6. Writable(e.fp)
  BY <1>1, <1>4 DEF Writable
<1>7. Owned(e.fp)
  <2> SUFFICES ASSUME "DIRTY" \in e.fp.flags PROVE e.fp.sector \in Nat
    BY <1>6 DEF Owned, Writable
  <2>1. CASE Partial(e, c) \/ Full(e, c)
    BY <1>3, <2>1
  <2>2. CASE Rejected(e, c)
    BY <1>1, <1>3, <2>2 DEF Sound, Owned
  <2> QED
    BY <2>1, <2>2
<1>8. Sound(e.fp, e.disk)
  <2>1. DiskOK(c.disk) /\ Bounded(c.disk)
    BY <1>1 DEF Sound
  <2>2. s \in Nat => DiskOK(PutSector(c.disk, s, Mixed(c))) /\ Bounded(PutSector(c.disk, s, Mixed(c)))
    BY <1>1, <2>1, PutSectorType
  <2> HIDE DEF s
  <2> QED
    BY <1>3, <1>5, <1>7, <2>1, <2>2 DEF Sound
<1>9. ASSUME NEW i \in Nat
      PROVE  /\ i \div SECSIZ # s => Shows(e.fp, e.disk, i) = Shows(c.fp, c.disk, i)
             /\ i \div SECSIZ = s /\ ("DIRTY" \in c.fp.flags \/ Partial(e, c) \/ Full(e, c))
                  => Shows(e.fp, e.disk, i) = Mixed(c)[i % SECSIZ]
             /\ i \div SECSIZ = s /\ "DIRTY" \in c.fp.flags
                  => Shows(c.fp, c.disk, i) = c.fp.buffer[i % SECSIZ]
  <2> HIDE DEF s
  <2>0. c.fp.sector = s
    BY DEF s
  <2>1. CASE Partial(e, c)
    BY <1>3, <2>0, <2>1 DEF Shows
  <2>2. CASE Rejected(e, c) /\ ~Partial(e, c) /\ ~Full(e, c)
    BY <1>3, <2>0, <2>2 DEF Shows
  <2>3. CASE Full(e, c)
    BY <1>3, <2>0, <2>3 DEF Shows, PutSector
  <2> QED
    BY <2>1, <2>2, <2>3
<1>10. ASSUME NEW i \in Nat,
              \/ i \div SECSIZ # s
              \/ "DIRTY" \in c.fp.flags /\ i \notin c.fp.offset .. c.fp.offset + Room(c) - 1
       PROVE  Shows(e.fp, e.disk, i) = Shows(c.fp, c.disk, i)
  <2>1. i \div SECSIZ = s /\ i \notin c.fp.offset .. c.fp.offset + Room(c) - 1
          => Mixed(c)[i % SECSIZ] = c.fp.buffer[i % SECSIZ]
    BY MixedIs
  <2> HIDE DEF s
  <2> QED
    BY <1>9, <1>10, <2>1
<1>11. ASSUME Partial(e, c) \/ Full(e, c), NEW i \in Nat, i \in c.fp.offset .. c.fp.offset + Room(c) - 1
       PROVE  Shows(e.fp, e.disk, i) = c.src[c.at + i - c.fp.offset + 1].char
  <2>1. i \div SECSIZ = s /\ Mixed(c)[i % SECSIZ] = c.src[c.at + i - c.fp.offset + 1].char
    BY <1>11, MixedIs
  <2> HIDE DEF s
  <2> QED
    BY <1>9, <1>11, <2>1
<1> QED
  BY <1>5, <1>6, <1>8, <1>10, <1>11


LEMMA FillKeeps ==
  ASSUME NEW f, NEW d, NEW c, WriteCall(c, f, d), ~c.done, f.offset \in Int,
         c.fp.sector = c.fp.offset \div SECSIZ,
         NEW e, Partial(e, c) \/ Rejected(e, c) \/ Full(e, c)
  PROVE  WriteCall(e, f, d)
<1> DEFINE s == c.fp.offset \div SECSIZ
<1>1. PICK o \in Int, k \in Nat \ {0}, a \in Nat, l \in Nat, b \in Int :
        /\ o = c.fp.offset /\ k = Room(c) /\ a = c.at /\ l = Len(c.src) /\ b = f.offset
        /\ a + k \in 0 .. l
  BY RoomIs
<1>2. /\ o = b + a /\ (a # 0 => o % SECSIZ = 0) /\ c.ok = TRUE /\ c.ret = 0
      /\ a = 0 /\ "DIRTY" \in f.flags /\ f.sector = s => "DIRTY" \in c.fp.flags
  BY <1>1 DEF WriteCall, Ongoing
<1>3. /\ e.fp \in FCB /\ Sound(e.fp, e.disk) /\ Writable(e.fp)
      /\ \A i \in Nat : \/ i \div SECSIZ # s
                        \/ "DIRTY" \in c.fp.flags /\ i \notin o .. o + k - 1
                        => Shows(e.fp, e.disk, i) = Shows(c.fp, c.disk, i)
      /\ Partial(e, c) \/ Full(e, c)
           => \A i \in Nat : i \in o .. o + k - 1
                => Shows(e.fp, e.disk, i) = c.src[a + i - o + 1].char
  <2>1. e.fp \in FCB /\ Sound(e.fp, e.disk) /\ Writable(e.fp)
    BY FillSound
  <2>2. ASSUME NEW i \in Nat,
               \/ i \div SECSIZ # s
               \/ "DIRTY" \in c.fp.flags /\ i \notin o .. o + k - 1
        PROVE  Shows(e.fp, e.disk, i) = Shows(c.fp, c.disk, i)
    <3>1. \/ i \div SECSIZ # c.fp.sector
          \/ "DIRTY" \in c.fp.flags /\ i \notin c.fp.offset .. c.fp.offset + Room(c) - 1
      BY <1>1, <2>2
    <3> HIDE DEF s
    <3> QED
      BY <3>1, FillSound
  <2>3. ASSUME Partial(e, c) \/ Full(e, c), NEW i \in Nat, i \in o .. o + k - 1
        PROVE  Shows(e.fp, e.disk, i) = c.src[a + i - o + 1].char
    <3>1. i \in c.fp.offset .. c.fp.offset + Room(c) - 1
      BY <1>1, <2>3
    <3>2. Shows(e.fp, e.disk, i) = c.src[c.at + i - c.fp.offset + 1].char
      BY <2>3, <3>1, FillSound
    <3> QED
      BY <1>1, <3>2
  <2> HIDE DEF s
  <2> QED
    BY <2>1, <2>2, <2>3
<1>4. /\ e.src = c.src /\ e.at = a + k /\ e.ok = TRUE /\ e.fp.offset = o + k
      /\ Partial(e, c)  => e.done = TRUE /\ e.ret = Consumed(c.src, l) /\ a + k = l
      /\ Rejected(e, c) => e.done = TRUE /\ e.ret = Consumed(c.src, a)
      /\ Full(e, c) => /\ e.done = (a + k = l)
                       /\ e.ret = IF a + k = l THEN Consumed(c.src, l) ELSE 0
                       /\ (o % SECSIZ) + k = SECSIZ
  <2>1. /\ e.src = c.src /\ e.at = c.at + Room(c) /\ e.ok = TRUE
        /\ e.fp.offset = c.fp.offset + Room(c)
    BY DEF Partial, Rejected, Full, Outcome
  <2>2. Partial(e, c) => /\ e.done = TRUE /\ e.ret = Consumed(c.src, Len(c.src))
                         /\ c.at + Room(c) = Len(c.src)
    <3>1. Partial(e, c) => (c.fp.offset % SECSIZ) + Room(c) < SECSIZ
      BY DEF Partial
    <3>2. (c.fp.offset % SECSIZ) + Room(c) < SECSIZ => c.at + Room(c) = Len(c.src)
      BY RoomIs
    <3>3. Partial(e, c) => e.done = TRUE /\ e.ret = Consumed(c.src, Len(c.src))
      BY DEF Partial, Outcome
    <3> QED
      BY <3>1, <3>2, <3>3
  <2>3. Rejected(e, c) => e.done = TRUE /\ e.ret = Consumed(c.src, c.at)
    BY DEF Rejected, Outcome
  <2>4. Full(e, c) => /\ e.done = (c.at + Room(c) = Len(c.src))
                      /\ e.ret = IF c.at + Room(c) = Len(c.src) THEN Consumed(c.src, Len(c.src)) ELSE 0
                      /\ (c.fp.offset % SECSIZ) + Room(c) = SECSIZ
    BY DEF Full, Outcome
  <2> QED
    BY <1>1, <2>1, <2>2, <2>3, <2>4
<1>5. Consumed(c.src, l) \in Nat /\ Consumed(c.src, a) \in Nat
  BY <1>1, ConsumedIs
<1>6. e \in [fp : FCB, disk : {e.disk}, src : Seq(Items), at : {e.at}, done : BOOLEAN,
             ok : BOOLEAN, ret : Nat]
  <2>1. e = [fp |-> e.fp, disk |-> e.disk, src |-> e.src, at |-> e.at, done |-> e.done,
             ok |-> e.ok, ret |-> e.ret]
    BY DEF Partial, Rejected, Full, Outcome
  <2>2. c.src \in Seq(Items)
    BY DEF WriteCall
  <2>3. e.done \in BOOLEAN /\ e.ret \in Nat
    <3>1. 0 \in Nat
      OBVIOUS
    <3>2. CASE a + k = l
      BY <1>4, <1>5, <3>2
    <3>3. CASE a + k # l
      BY <1>4, <1>5, <3>1, <3>3
    <3> QED
      BY <3>2, <3>3
  <2> QED
    BY <1>3, <1>4, <2>1, <2>2, <2>3
<1>7. e.at \in 0 .. Len(e.src)
  BY <1>1, <1>4
<1>8. ASSUME ~e.done PROVE Ongoing(e, f)
  <2>1. Full(e, c) /\ a + k # l /\ (o % SECSIZ) + k = SECSIZ /\ e.ret = 0
    BY <1>4, <1>8
  <2>2. (o + k) % SECSIZ = 0
    BY <2>1, NextSector
  <2>3. a + k < l /\ a + k # 0 /\ o + k = b + (a + k)
    <3>1. a + k \in 0 .. l /\ a + k # l /\ o = b + a
      BY <1>1, <1>2, <2>1
    <3>2. k \in Nat \ {0} /\ a \in Nat /\ l \in Nat /\ b \in Int
      OBVIOUS
    <3> QED
      BY ONLY <3>1, <3>2
  <2> QED
    BY <1>1, <1>4, <2>1, <2>2, <2>3 DEF Ongoing
(* Bytes before o are not in the sector, but for those of a dirty buffer.  *)
<1>9. ASSUME NEW i \in Nat, i < o, i \div SECSIZ = s
      PROVE  a = 0
  <2> SUFFICES ASSUME a # 0 PROVE FALSE
    OBVIOUS
  <2>1. o % SECSIZ = 0 /\ o \div SECSIZ = s
    BY <1>1, <1>2
  <2>2. PICK m \in Int : m = i % SECSIZ
    BY CcbAssumption
  <2>3. (o % SECSIZ) + 0 <= SECSIZ
    BY <2>1, CcbAssumption
  <2>4. i - o = (i % SECSIZ) - (o % SECSIZ) /\ i % SECSIZ \in 0 .. SECSIZ - 1
    BY <1>9, <2>1, <2>3, Excerpt
  <2>5. i - o = m - 0 /\ m >= 0
    BY <2>1, <2>2, <2>4
  <2> QED
    BY <1>9, <2>5
<1>10. \A i \in Nat : Ahead(f, i) => Shows(e.fp, e.disk, i) = Shows(f, d, i)
  <2> SUFFICES ASSUME NEW i \in Nat, Ahead(f, i) PROVE Shows(e.fp, e.disk, i) = Shows(f, d, i)
    OBVIOUS
  <2>1. "DIRTY" \in f.flags /\ i < b /\ i \div SECSIZ = f.sector /\ i < o
    BY <1>1, <1>2 DEF Ahead
  <2>2. Shows(c.fp, c.disk, i) = Shows(f, d, i)
    BY DEF WriteCall
  <2>3. i \div SECSIZ = s => "DIRTY" \in c.fp.flags /\ i \notin o .. o + k - 1
    BY <1>2, <1>9, <2>1
  <2> HIDE DEF s
  <2> QED
    BY <1>3, <2>2, <2>3
<1>11. Counted(e, f)
  <2> SUFFICES ASSUME NEW j \in 1 .. l, NEW i \in Nat, i = b + j - 1, Arrived(e, j)
               PROVE  Shows(e.fp, e.disk, i) = c.src[j].char
    BY <1>1, <1>4 DEF Counted
  <2>1. CASE j <= a
    <3>1. i < o /\ a # 0
      BY <1>2, <2>1
    <3>2. i \div SECSIZ # s
      BY <1>9, <3>1
    <3>3. Shows(c.fp, c.disk, i) = c.src[j].char
      BY <1>1, <2>1 DEF WriteCall, Counted, Arrived
    <3> HIDE DEF s
    <3> QED
      BY <1>3, <3>2, <3>3
  <2>2. CASE j > a /\ j <= a + k /\ (Partial(e, c) \/ Full(e, c))
    <3>1. i \in o .. o + k - 1 /\ a + i - o + 1 = j
      BY <1>2, <2>2
    <3> QED
      BY <1>3, <2>2, <3>1
  <2>3. CASE j > a /\ Rejected(e, c) /\ ~Partial(e, c) /\ ~Full(e, c)
    <3>1. c.src[j].own /\ Consumed(c.src, j) <= Consumed(c.src, a)
      BY <1>4, <2>3 DEF Arrived
    <3>2. j \in Nat /\ a < j
      BY <2>3
    <3>3. Consumed(c.src, a) < Consumed(c.src, j) /\ Consumed(c.src, j) \in Nat
      BY <3>1, <3>2, ConsumedIs
    <3> QED
      BY <1>5, <3>1, <3>3
  <2>4. CASE j > a + k /\ (Partial(e, c) \/ Full(e, c))
    <3>1. Full(e, c) /\ a + k # l
      BY <1>4, <2>4
    <3>2. ~e.done
      BY <1>4, <3>1
    <3> QED
      BY <1>4, <2>4, <3>2 DEF Arrived
  <2> QED
    BY <2>1, <2>2, <2>3, <2>4
<1> QED
  BY <1>3, <1>6, <1>7, <1>8, <1>10, <1>11 DEF WriteCall

LEMMA WriteSectorKeeps ==
  ASSUME NEW f, NEW d, NEW c, WriteCall(c, f, d), f.offset \in Int, NEW bad
  PROVE  WriteCall(WriteSector(c, bad), f, d) /\ WriteSector(c, bad).src = c.src
<1> DEFINE s == c.fp.offset \div SECSIZ
           g == Flush(c)
<1>1. CASE c.done
  BY <1>1 DEF WriteSector
<1>2. CASE ~c.done /\ c.fp.sector = s
  <2>1. PICK e : e = Fill(c, bad)
    OBVIOUS
  <2>2. Partial(e, c) \/ Rejected(e, c) \/ Full(e, c)
    BY <1>2, <2>1, FillIs
  <2>3. WriteCall(e, f, d) /\ e.src = c.src
    BY <1>2, <2>2, FillKeeps DEF Partial, Rejected, Full, Outcome
  <2> QED
    BY <1>2, <2>1, <2>3 DEF WriteSector
<1>3. CASE ~c.done /\ c.fp.sector # s
  <2>1. s \in Nat \cup {-1}
    <3>1. c.fp.offset \in Nat \cup {-1}
      BY DEF WriteCall, FCB
    <3> QED
      BY <3>1, SectorOf
  <2>2. /\ WriteCall(g, f, d) /\ ~g.done /\ g.fp.offset = c.fp.offset
        /\ "DIRTY" \notin g.fp.flags
        /\ g.at = 0 => ~("DIRTY" \in f.flags /\ f.sector = f.offset \div SECSIZ)
        /\ g.src = c.src
    <3>1. g.src = c.src
      BY DEF Flush, WriteCall
    <3> HIDE DEF g
    <3> QED
      BY <1>3, <3>1, WriteFlushed DEF g
  <2>3. WriteSector(c, bad) = IF ~CanFlush(c, bad) THEN Fail(c)
                              ELSE IF ~BelowHiwater(g)  THEN Fill([g EXCEPT !.fp.sector = s], bad)
                              ELSE IF s \notin DOMAIN g.disk THEN Fail(g)
                              ELSE Fill(Load(g, s), bad)
    BY <1>3 DEF WriteSector
  <2> HIDE DEF g, s
  <2>4. /\ WriteCall(Fail(c), f, d) /\ WriteCall(Fail(g), f, d)
        /\ Fail(c).src = c.src /\ Fail(g).src = c.src
    <3>1. ASSUME NEW x, WriteCall(x, f, d) PROVE Fail(x).src = x.src
      BY <3>1 DEF Fail, WriteCall
    <3> QED
      BY <1>3, <2>2, <3>1, WriteFails
  <2>5. ASSUME NEW x, WriteCall(x, f, d), ~x.done, x.fp.sector = s, x.fp.offset = c.fp.offset,
             x.src = c.src
        PROVE  WriteCall(Fill(x, bad), f, d) /\ Fill(x, bad).src = c.src
    <3>1. PICK e : e = Fill(x, bad)
      OBVIOUS
    <3>2. Partial(e, x) \/ Rejected(e, x) \/ Full(e, x)
      BY <2>5, <3>1, FillIs
    <3>3. x.fp.sector = x.fp.offset \div SECSIZ
      BY <2>5 DEF s
    <3>4. e.src = c.src
      BY <2>5, <3>2 DEF Partial, Rejected, Full, Outcome
    <3> QED
      BY <2>5, <3>1, <3>2, <3>3, <3>4, FillKeeps
  <2>6. /\ WriteCall(Fill([g EXCEPT !.fp.sector = s], bad), f, d)
        /\ Fill([g EXCEPT !.fp.sector = s], bad).src = c.src
    <3> DEFINE x == [g EXCEPT !.fp.sector = s]
    <3>1. WriteCall(x, f, d)
      BY <2>1, <2>2, WriteLoaded
    <3>2. ~x.done /\ x.fp.sector = s /\ x.fp.offset = c.fp.offset /\ x.src = c.src
      BY <2>2 DEF WriteCall, FCB
    <3> HIDE DEF x
    <3>3. WriteCall(Fill(x, bad), f, d) /\ Fill(x, bad).src = c.src
      BY <2>5, <3>1, <3>2
    <3> QED
      BY <3>3 DEF x
  <2>7. ASSUME s \in DOMAIN g.disk
        PROVE  /\ WriteCall(Fill(Load(g, s), bad), f, d)
               /\ Fill(Load(g, s), bad).src = c.src
    <3> DEFINE x == Load(g, s)
    <3>1. WriteCall(x, f, d)
      BY <2>1, <2>2, <2>7, WriteLoaded
    <3>2. ~x.done /\ x.fp.sector = s /\ x.fp.offset = c.fp.offset /\ x.src = c.src
      BY <2>2 DEF WriteCall, FCB, Load
    <3> HIDE DEF x
    <3>3. WriteCall(Fill(x, bad), f, d) /\ Fill(x, bad).src = c.src
      BY <2>5, <3>1, <3>2
    <3> QED
      BY <3>3 DEF x
  <2> QED
    BY <2>3, <2>4, <2>6, <2>7
<1> QED
  BY <1>1, <1>2, <1>3


(* The rounds of WrtAsc, as in its definition. *)
Writing(f, data, bad) ==
  CHOOSE C : C = [k \in 0 .. Rounds |-> IF k = 0 THEN BeginWrite(f, data) ELSE WriteSector(C[k - 1], bad)]

LEMMA WrtAscIs == ASSUME NEW f, NEW data, NEW bad PROVE WrtAsc(f, data, bad) = Writing(f, data, bad)[Rounds]
BY DEF WrtAsc, Writing

LEMMA WritingIs ==
  ASSUME NEW f, NEW data, NEW bad
  PROVE  /\ Writing(f, data, bad)[0] = BeginWrite(f, data)
         /\ \A k \in 1 .. Rounds : Writing(f, data, bad)[k] = WriteSector(Writing(f, data, bad)[k - 1], bad)
<1> DEFINE b == BeginWrite(f, data)
           Is(F, m) == F = [k \in 0 .. m |-> IF k = 0 THEN b ELSE WriteSector(F[k - 1], bad)]
           S == {m \in 0 .. Rounds : \E F : Is(F, m)}
<1>0. Rounds \in Nat
  BY CcbAssumption DEF Rounds
<1>1. 0 \in S
  <2>1. PICK F : Is(F, 0)
    <3>1. Is([k \in 0 .. 0 |-> b], 0)
      OBVIOUS
    <3> QED
      BY <3>1
  <2>2. 0 \in 0 .. Rounds
    BY <1>0
  <2> HIDE DEF Is
  <2> QED
    BY <2>1, <2>2
<1>2. ASSUME NEW m \in 0 .. Rounds - 1, m \in S PROVE m + 1 \in S
  <2>1. PICK F : Is(F, m)
    BY <1>2
  <2> DEFINE h == [k \in 0 .. m + 1 |-> IF k <= m THEN F[k] ELSE WriteSector(F[m], bad)]
  <2>2. ASSUME NEW k \in 0 .. m + 1
        PROVE  h[k] = IF k = 0 THEN b ELSE WriteSector(h[k - 1], bad)
    <3>1. CASE k = 0
      BY <2>1, <3>1
    <3>2. CASE k \in 1 .. m
      <4>1. k - 1 \in 0 .. m /\ k \in 0 .. m
        BY <3>2
      <4>2. h[k] = F[k] /\ h[k - 1] = F[k - 1]
        BY <3>2, <4>1
      <4>3. F[k] = IF k = 0 THEN b ELSE WriteSector(F[k - 1], bad)
        BY <2>1, <4>1
      <4> QED
        BY <4>2, <4>3
    <3>3. CASE k = m + 1
      BY <3>3
    <3> QED
      BY <3>1, <3>2, <3>3
  <2>3. h = [k \in 0 .. m + 1 |-> h[k]]
    OBVIOUS
  <2> HIDE DEF h
  <2>4. Is(h, m + 1)
    <3> HIDE DEF b
    <3> QED
      BY <2>2, <2>3
  <2>5. m + 1 \in 0 .. Rounds
    BY <1>0
  <2> QED
    BY <2>4, <2>5
<1>3. \A m \in 0 .. Rounds : m \in S
  <2> HIDE DEF S
  <2> QED
    BY <1>0, <1>1, <1>2, UpTo
<1>4. PICK F : Is(F, Rounds)
  BY <1>0, <1>3
<1>5. Writing(f, data, bad) = [k \in 0 .. Rounds |-> IF k = 0 THEN b ELSE WriteSector(Writing(f, data, bad)[k - 1], bad)]
  BY <1>4 DEF Writing
<1>6. PICK C : C = Writing(f, data, bad)
  OBVIOUS
<1>7. C = [k \in 0 .. Rounds |-> IF k = 0 THEN b ELSE WriteSector(C[k - 1], bad)]
  BY <1>5, <1>6
<1>8. C[0] = b /\ \A k \in 1 .. Rounds : C[k] = WriteSector(C[k - 1], bad)
  BY <1>0, <1>7
<1> QED
  BY <1>6, <1>8 DEF b

LEMMA WriteBegins ==
  ASSUME NEW f \in FCB, Sound(f, disk), Writable(f), NEW data \in Seq(Byte), data # <<>>
  PROVE  WriteCall(BeginWrite(f, data), f, disk)
<1> DEFINE c == BeginWrite(f, data)
<1>1. PICK src : src = Stream(data)
  OBVIOUS
<1>2. src \in Seq(Items) /\ Len(src) >= 1 /\ Len(src) \in Nat
  BY <1>1, StreamType, LenProperties
<1>3. c = [fp |-> f, disk |-> disk, src |-> src, at |-> 0, done |-> FALSE, ok |-> TRUE, ret |-> 0]
  BY <1>1 DEF BeginWrite
<1> HIDE DEF c
<1>4. /\ c.fp = f /\ c.disk = disk /\ c.src = src /\ c.at = 0 /\ c.done = FALSE /\ c.ok = TRUE
      /\ c.ret = 0
  BY <1>3
<1>5. c \in [fp : FCB, disk : {c.disk}, src : Seq(Items), at : {c.at}, done : BOOLEAN,
             ok : BOOLEAN, ret : Nat]
  BY <1>2, <1>3
<1>6. Ongoing(c, f)
  <2>1. f.offset \in Int /\ f.offset = f.offset + 0
    BY DEF FCB
  <2>2. 0 < Len(src)
    BY <1>2
  <2> QED
    BY <1>4, <2>1, <2>2 DEF Ongoing
<1>7. Counted(c, f)
  <2>1. \A j \in 1 .. Len(src) : ~(j <= 0)
    BY <1>2
  <2> QED
    BY <1>4, <2>1 DEF Counted, Arrived
<1>8. 0 \in 0 .. Len(src)
  BY <1>2
<1>9. WriteCall(c, f, disk)
  BY <1>4, <1>5, <1>6, <1>7, <1>8 DEF WriteCall
<1> QED
  BY <1>9 DEF c

LEMMA WrtAscKeeps ==
  ASSUME NEW f \in FCB, Sound(f, disk), Writable(f), NEW data \in Seq(Byte), data # <<>>, NEW bad
  PROVE  WriteCall(WrtAsc(f, data, bad), f, disk) /\ WrtAsc(f, data, bad).src = Stream(data)
<1>1. PICK C : C = Writing(f, data, bad)
  OBVIOUS
<1> DEFINE S == {k \in Nat : WriteCall(C[k], f, disk) /\ C[k].src = Stream(data)}
<1>2. Rounds \in Nat /\ f.offset \in Int
  BY CcbAssumption DEF Rounds, FCB
<1>3. 0 \in S
  <2>1. C[0] = BeginWrite(f, data) /\ BeginWrite(f, data).src = Stream(data)
    BY <1>1, WritingIs DEF BeginWrite
  <2> QED
    BY <2>1, WriteBegins
<1>4. ASSUME NEW k \in 0 .. Rounds - 1, k \in S PROVE k + 1 \in S
  <2>1. k + 1 \in 1 .. Rounds /\ (k + 1) - 1 = k /\ k + 1 \in Nat /\ WriteCall(C[k], f, disk)
        /\ C[k].src = Stream(data)
    BY <1>2, <1>4
  <2>2. C[k + 1] = WriteSector(C[k], bad)
    BY <1>1, <2>1, WritingIs
  <2>3. WriteCall(WriteSector(C[k], bad), f, disk) /\ WriteSector(C[k], bad).src = C[k].src
    BY <1>2, <2>1, WriteSectorKeeps
  <2> QED
    BY <2>1, <2>2, <2>3
<1>5. \A k \in 0 .. Rounds : k \in S
  <2> HIDE DEF S
  <2> QED
    BY <1>2, <1>3, <1>4, UpTo
<1>6. WriteCall(C[Rounds], f, disk) /\ C[Rounds].src = Stream(data)
  BY <1>2, <1>5
<1> QED
  BY <1>1, <1>6, WrtAscIs


-----------------------------------------------------------------------------
(* lseek, and the search for the end of the text. *)

LEMMA TextEndType ==
  ASSUME NEW sec
  PROVE  TextEnd(sec) \in 0 .. SECSIZ
<1> DEFINE Ends(p) == p = SECSIZ \/ sec[p] = EOFCHAR
           A == {p \in 0 .. SECSIZ : Ends(p)}
<1>1. SECSIZ \in A /\ A \subseteq Nat
  BY CcbAssumption
<1>2. PICK m \in A : \A x \in A : m <= x
  <2> HIDE DEF A
  <2> QED
    BY <1>1, SmallestElement
<1>3. ASSUME NEW q \in 0 .. m - 1 PROVE sec[q] # EOFCHAR
  <2>1. m \in 0 .. SECSIZ
    BY <1>2
  <2>2. q \in 0 .. SECSIZ /\ ~(m <= q)
    BY <2>1, CcbAssumption
  <2>3. q \notin A
    <3> HIDE DEF A
    <3> QED
      BY <1>2, <2>2
  <2> QED
    BY <2>2, <2>3
<1>4. m \in 0 .. SECSIZ /\ (m = SECSIZ \/ sec[m] = EOFCHAR)
  BY <1>2
<1> QED
  BY <1>3, <1>4 DEF TextEnd

(* g shows the bytes of f; a dirty buffer stays where it is. *)
Same(f, g, d) ==
  /\ g \in FCB /\ Sound(g, d)
  /\ \A i : Shows(g, d, i) = Shows(f, d, i)
  /\ g.flags \cap {"OPENED", "ISREAD", "DIRTY"} = f.flags \cap {"OPENED", "ISREAD", "DIRTY"}
  /\ "DIRTY" \in f.flags => g.sector = f.sector

LEMMA SameSteps ==
  ASSUME NEW f, NEW g, NEW h, NEW d, Same(f, g, d), Same(g, h, d)
  PROVE  Same(f, h, d)
BY DEF Same

LEMMA SizedSame ==
  ASSUME NEW f \in FCB, NEW d, Sound(f, d), NEW n \in Nat
  PROVE  Same(f, SizedAs(f, n), d) /\ SizedAs(f, n).offset = n /\ SizedAs(f, n).hiwater = n
<1>1. PICK g : g = SizedAs(f, n)
  OBVIOUS
<1>2. g \in FCB /\ SameBytes(f, g) /\ g.offset = n /\ g.hiwater = n
  BY <1>1 DEF SizedAs, FCB, Flag, SameBytes
<1> QED
  BY <1>1, <1>2, SameBytesSound DEF Same, SameBytes

LEMMA FileszSame ==
  ASSUME NEW f \in FCB, NEW d, Sound(f, d)
  PROVE  Same(f, Filesz(f, d), d)
<1>1. CASE "DIRTY" \in f.flags
  <2>1. f.hiwater \in Nat
    BY DEF FCB
  <2> QED
    BY <1>1, <2>1, SizedSame DEF Filesz
<1>2. CASE "DIRTY" \notin f.flags /\ DOMAIN d = {}
  BY <1>2, SizedSame DEF Filesz
<1>3. CASE "DIRTY" \notin f.flags /\ DOMAIN d # {}
  <2>1. PICK s : s = LastSector(d)
    OBVIOUS
  <2>2. s \in DOMAIN d /\ s \in Nat /\ d[s] \in Sector
    BY <1>3, <2>1, LastSectorType DEF Sound, DiskOK
  <2>3. PICK g : g = IF f.sector = s THEN f ELSE [f EXCEPT !.buffer = d[s], !.sector = s]
    OBVIOUS
  <2>4. Same(f, g, d)
    <3>1. CASE f.sector = s
      BY <2>3, <3>1 DEF Same
    <3>2. CASE f.sector # s
      <4>1. g = Holding(f, s, d[s])
        BY <2>3, <3>2 DEF Holding
      <4>2. Sound(g, d) /\ g.flags = f.flags /\ \A i : Shows(g, d, i) = Shows(f, d, i)
        BY <1>3, <2>2, <4>1, CleanLoad
      <4> QED
        BY <1>3, <4>2 DEF Same, Sound
    <3> QED
      BY <3>1, <3>2
  <2>5. PICK n \in Nat : n = (s * SECSIZ) + TextEnd(g.buffer)
    <3>1. PICK e \in 0 .. SECSIZ : e = TextEnd(g.buffer)
      BY TextEndType
    <3>2. PICK m \in Nat : m = s * SECSIZ
      <4>1. s * SECSIZ \in Nat
        BY <2>2, CcbAssumption, Multiples
      <4> QED
        BY <4>1
    <3>3. m + e \in Nat
      BY <3>2, CcbAssumption
    <3> QED
      BY <3>1, <3>2, <3>3
  <2>6. Filesz(f, d) = SizedAs(g, n)
    BY <1>3, <2>1, <2>3, <2>5 DEF Filesz
  <2>7. Same(g, SizedAs(g, n), d)
    BY <2>4, SizedSame DEF Same
  <2> QED
    BY <2>4, <2>6, <2>7, SameSteps
<1> QED
  BY <1>1, <1>2, <1>3

LEMMA MovedToSame ==
  ASSUME NEW f \in FCB, NEW d, Sound(f, d), NEW to \in Int
  PROVE  Same(f, MovedTo(f, to), d) /\ (to \in Nat => MovedTo(f, to).offset = to)
<1>1. PICK g : g = MovedTo(f, to)
  OBVIOUS
<1>2. g \in FCB /\ SameBytes(f, g) /\ (to \in Nat => g.offset = to)
  <2>1. PICK n \in Nat \cup {-1} : n = IF to < 0 THEN -1 ELSE to
    <3>1. (IF to < 0 THEN -1 ELSE to) \in Nat \cup {-1}
      OBVIOUS
    <3> QED
      BY <3>1
  <2>2. g = [f EXCEPT !.offset = n, !.flags = @ \ {"ATEOF"}]
    BY <1>1, <2>1 DEF MovedTo
  <2>3. to \in Nat => n = to
    BY <2>1
  <2> QED
    BY <2>2, <2>3 DEF FCB, SameBytes
<1> QED
  BY <1>1, <1>2, SameBytesSound DEF Same, SameBytes

LEMMA SeekedSame ==
  ASSUME NEW f \in FCB, NEW d, Sound(f, d), NEW offs \in Int, NEW sense \in Senses
  PROVE  Same(f, Seeked(f, d, offs, sense), d)
<1>1. PICK g : g = IF sense = 2 THEN Filesz(f, d) ELSE f
  OBVIOUS
<1>2. Same(f, g, d)
  <2>1. Same(f, f, d)
    BY DEF Same
  <2> QED
    BY <1>1, <2>1, FileszSame
<1>3. PICK to \in Int : to = Target(g, offs, sense)
  <2>1. g.offset \in Int /\ g.hiwater \in Int
    BY <1>2 DEF Same, FCB
  <2>2. Target(g, offs, sense) \in Int
    BY <2>1 DEF Target, Senses
  <2> QED
    BY <2>2
<1>4. Same(g, MovedTo(g, to), d)
  BY <1>2, MovedToSame DEF Same
<1>5. Seeked(f, d, offs, sense) = MovedTo(g, to)
  BY <1>1, <1>3 DEF Seeked
<1> QED
  BY <1>2, <1>4, <1>5, SameSteps

(* A dirty buffer reaches no further than the high water mark that close   *)
(* goes to.                                                                *)
LEMMA AtEndSame ==
  ASSUME IInv
  PROVE  /\ Same(fp, AtEnd(fp), disk)
         /\ "DIRTY" \in fp.flags => AtEnd(fp).offset >= fp.hiwater
<1>1. fp \in FCB /\ Sound(fp, disk)
  BY SoundStart DEF Sound
<1>2. Same(fp, fp, disk) /\ Same(fp, Seeked(fp, disk, 0, 2), disk)
  <2>1. Same(fp, fp, disk)
    BY <1>1 DEF Same
  <2>2. 0 \in Int /\ 2 \in Senses
    BY DEF Senses
  <2> QED
    BY <1>1, <2>1, <2>2, SeekedSame
<1>3. Same(fp, AtEnd(fp), disk)
  BY <1>2 DEF AtEnd
<1>4. ASSUME "DIRTY" \in fp.flags PROVE AtEnd(fp).offset >= fp.hiwater
  <2>1. CASE fp.offset < fp.hiwater
    <3>1. PICK n \in Nat : n = fp.hiwater
      BY <1>1 DEF FCB
    <3>2. PICK g : g = SizedAs(fp, n)
      OBVIOUS
    <3>3. g \in FCB /\ Sound(g, disk) /\ g.hiwater = n
      BY <1>1, <3>2, SizedSame DEF Same
    <3>4. AtEnd(fp) = MovedTo(g, n)
      <4>1. Filesz(fp, disk) = g
        BY <1>4, <3>1, <3>2 DEF Filesz
      <4>2. Target(g, 0, 2) = n
        BY <3>3 DEF Target
      <4> QED
        BY <2>1, <4>1, <4>2 DEF AtEnd, Seeked
    <3>5. MovedTo(g, n).offset = n
      BY <3>3, MovedToSame
    <3> QED
      BY <3>1, <3>4, <3>5
  <2>2. CASE ~(fp.offset < fp.hiwater)
    <3>1. fp.offset \in Int /\ fp.hiwater \in Int
      BY <1>1 DEF FCB
    <3> QED
      BY <2>2, <3>1 DEF AtEnd
  <2> QED
    BY <2>1, <2>2
<1> QED
  BY <1>3, <1>4


-----------------------------------------------------------------------------
(* The steps. *)

(* What a step preserves, and what it does with the bytes. *)
KeptStep == IsOpen /\ "DIRTY" \in fp.flags =>
              \A i \in Offset \ Touched : i \div SECSIZ = fp.sector => (Shown(i))' = Shown(i)

CountedStep == io'.op = "write" /\ io'.ret > 0 =>
                 LET src == Stream(io'.data)
                 IN  \A j \in 1 .. Len(src), i \in Offset :
                       /\ i = fp.offset + j - 1
                       /\ Consumed(src, j) <= io'.ret /\ src[j].own
                       => (Shown(i))' = src[j].char

StepOK == IInv' /\ KeptStep /\ CountedStep

LEMMA InOffset == \A i \in Offset : i \in Nat
BY DEF Offset

LEMMA NextSound ==
  /\ Sound(fp', disk') => IInv'
  /\ \A i : (Shown(i))' = Shows(fp', disk', i)
  /\ \A i : Shown(i) = Shows(fp, disk, i)
BY DEF IInv, TypeOK, DirtyOwned, IsOpen, Sound, Owned, Shown, Shows

(* A call that is not a write, and moves no byte. *)
LEMMA ShownStep ==
  ASSUME Sound(fp', disk'), io'.op # "write", \A i \in Nat : Shows(fp', disk', i) = Shown(i)
  PROVE  StepOK
<1>1. KeptStep
  BY NextSound, InOffset DEF KeptStep
<1>2. CountedStep
  BY DEF CountedStep
<1> QED
  BY <1>1, <1>2, NextSound DEF StepOK

LEMMA SameStep ==
  ASSUME IInv, fp' = fp, disk' = disk, io'.op = "write" => ~(io'.ret > 0)
  PROVE  StepOK
<1>1. Sound(fp', disk')
  BY SoundStart
<1>2. KeptStep
  BY NextSound DEF KeptStep
<1>3. CountedStep
  BY DEF CountedStep
<1> QED
  BY <1>1, <1>2, <1>3, NextSound DEF StepOK

LEMMA ReadStep ==
  ASSUME IInv, NEW n, NEW bad, Read(n, bad)
  PROVE  StepOK
<1>1. io'.op = "read"
  BY DEF Read, Answer
<1>2. CASE "ATEOF" \in fp.flags
  BY <1>1, <1>2, SameStep DEF Read
<1>3. CASE "ATEOF" \notin fp.flags
  <2>1. PICK c : c = RdAsc(n, bad)
    OBVIOUS
  <2>2. fp' = c.fp /\ disk' = c.disk
    BY <1>3, <2>1 DEF Read
  <2>3. ReadCall(c)
    BY <2>1, RdAscSound
  <2>4. Sound(c.fp, c.disk) /\ \A i \in Nat : Shows(c.fp, c.disk, i) = Shown(i)
    BY <2>3 DEF ReadCall
  <2> QED
    BY <1>1, <2>2, <2>4, ShownStep
<1> QED
  BY <1>2, <1>3

LEMMA WriteStep ==
  ASSUME IInv, NEW data \in Data, NEW bad, Write(data, bad)
  PROVE  StepOK
<1>1. io'.op = "write" /\ io'.data = data
  <2>1. data = <<>> => io'.op = "write" /\ io'.data = data
    BY DEF Write, Answer
  <2>2. data # <<>> => io'.op = "write" /\ io'.data = data
    BY DEF Write, Answer
  <2> QED
    BY <2>1, <2>2
<1>2. CASE data = <<>> \/ Refused
  <2>1. fp' = fp /\ disk' = disk /\ io'.ret \in {0, -1}
    BY <1>2 DEF Write, Answer, Failure
  <2> QED
    BY <2>1, SameStep
<1>3. CASE data # <<>> /\ ~Refused
  <2>1. PICK c : c = WrtAsc(fp, data, bad)
    OBVIOUS
  <2>2. fp' = c.fp /\ disk' = c.disk /\ io'.ret = IF c.ok THEN c.ret ELSE Failure
    BY <1>3, <2>1 DEF Write, Answer
  <2>3. Writable(fp) /\ fp \in FCB /\ Sound(fp, disk) /\ data \in Seq(Byte)
    BY <1>3, SoundStart, CcbAssumption DEF Write, IsOpen, Refused, Writable, Sound
  <2>4. WriteCall(c, fp, disk) /\ c.src = Stream(data)
    BY <1>3, <2>1, <2>3, WrtAscKeeps
  <2>5. Sound(c.fp, c.disk)
    BY <2>4 DEF WriteCall
  <2>6. KeptStep
    <3> SUFFICES ASSUME "DIRTY" \in fp.flags, NEW i \in Offset, i \notin Touched,
                        i \div SECSIZ = fp.sector
                 PROVE  Shows(fp', disk', i) = Shows(fp, disk, i)
      BY NextSound DEF KeptStep
    <3>1. i \in Nat /\ ~(i >= fp.offset)
      BY <1>1, InOffset DEF Touched
    <3>2. fp.offset \in Int
      BY <2>3 DEF FCB
    <3>3. Ahead(fp, i)
      BY <3>1, <3>2 DEF Ahead
    <3> QED
      BY <2>2, <2>4, <3>1, <3>3 DEF WriteCall
  <2>7. CountedStep
    <3> SUFFICES ASSUME io'.ret > 0, NEW j \in 1 .. Len(c.src), NEW i \in Offset,
                        i = fp.offset + j - 1, Consumed(c.src, j) <= io'.ret, c.src[j].own
                 PROVE  Shows(fp', disk', i) = c.src[j].char
      BY <1>1, <2>4, NextSound DEF CountedStep
    <3>1. c.ok /\ io'.ret = c.ret
      BY <2>2 DEF Failure
    <3>2. c.done
      <4>1. c.done \in BOOLEAN /\ (~c.done => c.ret = 0)
        BY <2>4 DEF WriteCall, Ongoing
      <4> QED
        BY <3>1, <4>1
    <3>3. Arrived(c, j)
      BY <3>1, <3>2 DEF Arrived
    <3>4. i \in Nat
      BY InOffset
    <3> QED
      BY <2>2, <2>4, <3>3, <3>4 DEF WriteCall, Counted
  <2> QED
    BY <2>2, <2>5, <2>6, <2>7, NextSound DEF StepOK
<1> QED
  BY <1>2, <1>3

LEMMA LSeekStep ==
  ASSUME IInv, NEW seek \in Seeks, LSeek(seek[1], seek[2])
  PROVE  StepOK
<1>1. seek[1] \in Int /\ io'.op = "lseek" /\ disk' = disk
  BY CcbAssumption DEF LSeek, Answer
<1>2. Sound(fp, disk) /\ fp \in FCB
  BY SoundStart DEF Sound
<1>3. CASE seek[2] \in Senses
  <2>1. fp' = Seeked(fp, disk, seek[1], seek[2])
    BY <1>3 DEF LSeek
  <2>2. Same(fp, fp', disk)
    BY <1>1, <1>2, <1>3, <2>1, SeekedSame
  <2> QED
    BY <1>1, <2>2, ShownStep, ShownIsShows DEF Same
<1>4. CASE seek[2] \notin Senses
  BY <1>1, <1>4, SameStep DEF LSeek
<1> QED
  BY <1>3, <1>4

LEMMA FStatStep ==
  ASSUME IInv, FStat
  PROVE  StepOK
<1>1. Sound(fp, disk) /\ fp \in FCB
  BY SoundStart DEF Sound
<1>2. PICK g : g = Filesz(fp, disk)
  OBVIOUS
<1>3. Same(fp, g, disk)
  BY <1>1, <1>2, FileszSame
<1>4. fp' = [g EXCEPT !.offset = fp.offset] /\ disk' = disk /\ io'.op = "fstat"
  BY <1>2 DEF FStat, Answer
<1>5. fp' \in FCB /\ SameBytes(g, fp')
  BY <1>1, <1>3, <1>4 DEF Same, FCB, SameBytes
<1>6. Sound(fp', disk) /\ \A i : Shows(fp', disk, i) = Shows(g, disk, i)
  BY <1>3, <1>5, SameBytesSound DEF Same
<1> QED
  BY <1>3, <1>4, <1>6, ShownStep, ShownIsShows DEF Same

LEMMA CleanOpen ==
  ASSUME fp \in FCB, NEW mode
  PROVE  LET f == [Chinit(fp) EXCEPT !.flags = ModeFlags(mode)]
         IN  f \in FCB /\ "DIRTY" \notin f.flags /\ Owned(f)
BY DEF Chinit, ModeFlags, FCB, Flag, Owned

LEMMA OpenStep ==
  ASSUME IInv, NEW mode, Open(mode)
  PROVE  StepOK
<1>1. PICK f : f = [Chinit(fp) EXCEPT !.flags = ModeFlags(mode)]
  OBVIOUS
<1>2. f \in FCB /\ "DIRTY" \notin f.flags /\ Sound(f, disk)
  BY <1>1, CleanOpen, SoundStart DEF Sound
<1>3. PICK g : g = Seeked(f, disk, 0, 2)
  OBVIOUS
<1>4. 0 \in Int /\ 0 \in Senses /\ 2 \in Senses
  BY DEF Senses
<1>5. Same(f, g, disk) /\ Same(g, Seeked(g, disk, 0, 0), disk)
  <2>1. Same(f, g, disk)
    BY <1>2, <1>3, <1>4, SeekedSame
  <2> QED
    BY <1>4, <2>1, SeekedSame DEF Same
<1>6. fp' = Seeked(g, disk, 0, 0) /\ disk' = disk /\ ~IsOpen /\ io'.op = "open"
  BY <1>1, <1>3 DEF Open, Answer
<1>7. Sound(fp', disk')
  BY <1>5, <1>6 DEF Same
<1>8. KeptStep /\ CountedStep
  BY <1>6 DEF KeptStep, CountedStep
<1> QED
  BY <1>7, <1>8, NextSound DEF StepOK

LEMMA CreatStep ==
  ASSUME IInv, Creat
  PROVE  StepOK
<1>1. fp \in FCB
  BY DEF IInv, TypeOK
<1>2. fp' = [Chinit(fp) EXCEPT !.flags = ModeFlags(WRITE)] /\ ~IsOpen /\ io'.op = "creat"
  BY DEF Creat, Answer
<1>3. fp' \in FCB /\ Owned(fp')
  BY <1>1, <1>2, CleanOpen
<1>4. DiskOK(disk') /\ Bounded(disk')
  BY DEF Creat, DiskOK, Bounded
<1>5. Sound(fp', disk')
  BY <1>3, <1>4 DEF Sound
<1>6. KeptStep /\ CountedStep
  BY <1>2 DEF KeptStep, CountedStep
<1> QED
  BY <1>5, <1>6, NextSound DEF StepOK

LEMMA CloseStep ==
  ASSUME IInv, NEW bad, Close(bad)
  PROVE  StepOK
<1>1. PICK c : c = Marked(bad)
  OBVIOUS
<1>2. /\ fp' = Chinit(c.fp) /\ disk' = IF CanFlush(c, bad) THEN FlushedDisk(c) ELSE c.disk
      /\ io'.op = "close" /\ io'.ret = IF CanFlush(c, bad) THEN 0 ELSE Failure
      /\ IsOpen
  BY <1>1 DEF Close, Answer
<1>3. /\ Sound(c.fp, c.disk)
      /\ "DIRTY" \in fp.flags => \A i \in Nat : i < fp.hiwater /\ i \div SECSIZ = fp.sector
                                   => Shows(c.fp, c.disk, i) = Shows(fp, disk, i)
  <2>1. CASE Refused
    <3>1. c.fp = fp /\ c.disk = disk
      BY <1>1, <2>1 DEF Marked, Begin
    <3> QED
      BY <3>1, SoundStart
  <2>2. CASE ~Refused
    <3>1. PICK g : g = AtEnd(fp)
      OBVIOUS
    <3>2. Same(fp, g, disk) /\ ("DIRTY" \in fp.flags => g.offset >= fp.hiwater)
      BY <3>1, AtEndSame
    <3>3. Writable(g)
      <4>1. \A x \in {"OPENED", "ISREAD", "DIRTY"} : x \in g.flags <=> x \in fp.flags
        BY <3>2 DEF Same
      <4> QED
        BY <1>2, <2>2, <4>1 DEF Writable, IsOpen, Refused
    <3>4. PICK data : data = <<EOFCHAR>>
      OBVIOUS
    <3>5. data \in Seq(Byte) /\ data # <<>>
      BY <3>4, AscFileAssumption
    <3>6. WriteCall(c, g, disk)
      <4>1. c = WrtAsc(g, data, bad)
        BY <1>1, <2>2, <3>1, <3>4 DEF Marked
      <4> QED
        BY <3>2, <3>3, <3>5, <4>1, WrtAscKeeps DEF Same
    <3>7. ASSUME "DIRTY" \in fp.flags, NEW i \in Nat, i < fp.hiwater, i \div SECSIZ = fp.sector
          PROVE  Shows(c.fp, c.disk, i) = Shows(fp, disk, i)
      <4>1. "DIRTY" \in g.flags /\ g.sector = fp.sector /\ g.offset >= fp.hiwater
        BY <3>2, <3>7 DEF Same
      <4>2. fp.hiwater \in Int /\ g.offset \in Int
        BY <3>2, SoundStart DEF Same, Sound, FCB
      <4>3. Ahead(g, i)
        BY <3>7, <4>1, <4>2 DEF Ahead
      <4>4. Shows(c.fp, c.disk, i) = Shows(g, disk, i)
        BY <3>6, <4>3 DEF WriteCall
      <4> QED
        BY <3>2, <4>4 DEF Same
    <3> QED
      BY <3>6, <3>7 DEF WriteCall
  <2> QED
    BY <2>1, <2>2
<1>4. fp' \in FCB /\ Owned(fp') /\ "DIRTY" \notin fp'.flags
  BY <1>2, <1>3 DEF Chinit, Sound, FCB, Owned
<1>5. DiskOK(disk') /\ Bounded(disk')
  BY <1>2, <1>3, FlushedSound DEF Sound
<1>6. KeptStep
  <2> SUFFICES ASSUME "DIRTY" \in fp.flags, NEW i \in Offset, i \notin Touched,
                      i \div SECSIZ = fp.sector
               PROVE  Shows(fp', disk', i) = Shows(fp, disk, i)
    BY NextSound DEF KeptStep
  <2>1. i \in Nat /\ ~(i >= fp.hiwater) /\ io'.ret # Failure
    BY <1>2, InOffset DEF Touched
  <2>2. disk' = FlushedDisk(c)
    BY <1>2, <2>1
  <2>3. Shows(fp', disk', i) = Shows(c.fp, c.disk, i)
    BY <1>3, <1>4, <2>2, FlushedShows
  <2>4. i < fp.hiwater
    <3>1. fp.hiwater \in Int
      BY SoundStart DEF Sound, FCB
    <3> QED
      BY <2>1, <3>1
  <2> QED
    BY <1>3, <2>1, <2>3, <2>4
<1>7. CountedStep
  BY <1>2 DEF CountedStep
<1> QED
  BY <1>4, <1>5, <1>6, <1>7, NextSound DEF StepOK, Sound

LEMMA NextStep == IInv /\ Next => StepOK
BY ReadStep, WriteStep, CloseStep, LSeekStep, FStatStep, OpenStep, CreatStep DEF Next

LEMMA Inductive == IInv /\ [Next]_vars => IInv'
<1> SUFFICES ASSUME IInv, [Next]_vars PROVE IInv'
  OBVIOUS
<1>1. CASE Next
  BY <1>1, NextStep DEF StepOK
<1>2. CASE UNCHANGED vars
  <2>1. Sound(fp', disk')
    BY <1>2, SoundStart DEF vars
  <2> QED
    BY <2>1, NextSound
<1> QED
  BY <1>1, <1>2

LEMMA InvInit == Init => IInv
<1> SUFFICES ASSUME Init PROVE IInv
  OBVIOUS
<1>1. Zeros \in Sector
  BY CcbAssumption DEF Zeros, Sector
<1>2. fp \in FCB /\ "DIRTY" \notin fp.flags
  BY <1>1 DEF Init, FCB, Flag
<1>3. DiskOK(disk) /\ Bounded(disk)
  BY DEF Init, DiskOK, Bounded
<1> QED
  BY <1>2, <1>3, SoundStart DEF Sound, Owned

-----------------------------------------------------------------------------
(* The theorems. *)

(* The CCB and the disk keep their types: every buffer that is read or     *)
(* filled is a whole sector, and what lseek and the search for a ^Z leave  *)
(* in the offset and the high water mark are numbers of bytes.             *)
THEOREM AscTypeThm == Spec => []TypeOK
<1>1. IInv => TypeOK
  BY DEF IInv
<1> QED
  BY InvInit, Inductive, <1>1, PTL DEF Spec

(* A dirty buffer is always labelled with a sector, on a channel that is   *)
(* open and may be written, also when the program goes to an offset before *)
(* the first, and whichever sectors BDOS refuses.                          *)
THEOREM AscDirtyOwnedThm == Spec => []DirtyOwned
<1>1. IInv => DirtyOwned
  BY DEF IInv
<1> QED
  BY InvInit, Inductive, <1>1, PTL DEF Spec

(* What a dirty buffer holds is not dropped by a call about something      *)
(* else: by a read or a write that takes the buffer for another sector, by *)
(* the write of the ^Z in close, or when BDOS refuses a sector.            *)
THEOREM AscDirtyKeptThm == Spec => DirtyKept
<1>1. IInv /\ [Next]_vars
      => [IsOpen /\ "DIRTY" \in fp.flags =>
            \A i \in Offset \ Touched : i \div SECSIZ = fp.sector => (Shown(i))' = Shown(i)]_vars
  BY NextStep DEF StepOK, KeptStep
<1> QED
  BY InvInit, Inductive, <1>1, PTL DEF Spec, DirtyKept

(* What write answers is what is in the file: so many of the caller's      *)
(* characters, each at its offset behind the returns that were inserted    *)
(* before it, also when the call ends early at a sector BDOS refuses.      *)
THEOREM AscCountedThm == Spec => CountedIsWritten
<1>1. IInv /\ [Next]_vars
      => [io'.op = "write" /\ io'.ret > 0 =>
            LET src == Stream(io'.data)
            IN  \A j \in 1 .. Len(src), i \in Offset :
                  /\ i = fp.offset + j - 1
                  /\ Consumed(src, j) <= io'.ret /\ src[j].own
                  => (Shown(i))' = src[j].char]_vars
  BY NextStep DEF StepOK, CountedStep
<1> QED
  BY InvInit, Inductive, <1>1, PTL DEF Spec, CountedIsWritten
=============================================================================
