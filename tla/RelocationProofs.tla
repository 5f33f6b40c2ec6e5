-------------------------- MODULE RelocationProofs --------------------------
(***************************************************************************)
(* The pointers of a program are the ones that are relocated, for every    *)
(* ELF file and every image: TypeOK, TableFills and PointersMoved; and     *)
(* cpm.py writes back what it reads: SavedAsLoaded.                        *)
(*                                                                         *)
(* Both converters make a table that holds what they kept (Holds), gap by  *)
(* gap or relocation by relocation, and what is read of a table is what it *)
(* has at its words, in their order (Decoded, by induction over them).     *)
(***************************************************************************)
EXTENDS Relocation, Arithmetic, SequenceTheorems

Words == Size \div 2
Table == Seq(0 .. 7)

(* The word of a table a relocation begins at. *)
FirstWord(r) == r.offset \div 2 + 1

(* The table has r, and at its i-th word there is a part of r. *)
Has(t, r) == /\ r.size = 32 => t[FirstWord(r)] = UPPER
             /\ t[TypeWord(r)] = r.type
PartOf(t, i, r) == \/ r.size = 32 /\ i = FirstWord(r) /\ t[i] = UPPER
                   \/ i = TypeWord(r) /\ t[i] = r.type

(* It has the first n of rs, and nothing else. *)
Holds(t, rs, n) == /\ \A k \in 1 .. n : Has(t, rs[k])
                   /\ \A i \in 1 .. Len(t) : t[i] # ABSOLUTE => \E k \in 1 .. n : PartOf(t, i, rs[k])

-----------------------------------------------------------------------------
(* The invariant. *)

FromElf(g, e) == /\ Pointer(e)
                 /\ g.offset = e.offset /\ g.size = 32 /\ g.type = SegmentOf(e.target)
                 /\ e.target <= Size + BssSize
                 /\ ~WeakAtZero(e)

(* How many relocations of the ELF file it has been through. *)
Through == IF phase = "scan" THEN at ELSE Len(elf)

FourApart(rs) == \A i, j \in 1 .. Len(rs) :
                   i < j => \/ rs[i].offset + 4 <= rs[j].offset
                            \/ rs[j].offset + 4 <= rs[i].offset

Kept ==
  /\ elf \in Elfs
  /\ \A i \in 1 .. Len(got) : \E j \in 1 .. Through : FromElf(got[i], elf[j])
  /\ phase # "error" =>
       \A j \in 1 .. Through : Pointer(elf[j]) /\ ~WeakAtZero(elf[j]) =>
         \E i \in 1 .. Len(got) : FromElf(got[i], elf[j])
  /\ FourApart(got) /\ \A i \in 1 .. Len(got) : got[i].offset % 2 = 0

Scanning == phase = "scan" => at \in 0 .. Len(elf) /\ table = <<>>

(* The table up to the last relocation that is written. *)
Writing ==
  phase = "write" =>
    /\ tool = "elf2cpm68k" /\ Sorted /\ at \in 0 .. Len(got)
    /\ InImage => /\ Holds(table, got, at)
                  /\ \A k \in 1 .. at : got[k].offset + 4 <= 2 * Len(table)
                  /\ 2 * Len(table) = IF at = 0 THEN 0 ELSE got[at].offset + 4

Whole ==
  phase \in {"written", "loaded"} /\ got # <<>> /\ InImage =>
    Len(table) = Words /\ Holds(table, got, Len(got))

ReadBack ==
  /\ phase = "loaded" =>
       \/ ~HasRelocs /\ loaded = <<>>
       \/ /\ HasRelocs
          /\ Words <= Len(table) /\ loaded = Decode(SubSeq(table, 1, Words)).relocs
  /\ SavedAsLoaded

RelocInv == /\ TypeOK /\ InArray
            /\ tool \in Converter => Kept /\ Scanning /\ Writing /\ Whole
            /\ tool = "other" => got = <<>> /\ phase \notin {"scan", "write"}
            /\ ReadBack

-----------------------------------------------------------------------------
(* What a recursion of the model computes, prefix by prefix. *)

Deco == [relocs : Seq(Reloc), ok : BOOLEAN, offset : Nat, upper : BOOLEAN]
Good == {d \in Deco : d.upper => d.offset >= 2}

(* The rounds of Decode, as in its definition. *)
Decoding(t) ==
  CHOOSE D : D = [i \in 0 .. Len(t) |->
                    IF i = 0 THEN [relocs |-> <<>>, ok |-> TRUE, offset |-> 0, upper |-> FALSE]
                    ELSE DecodeWord(D[i - 1], t[i])]

(* And those of Encode. *)
Encoding(rs) ==
  CHOOSE E : E = [k \in 0 .. Len(rs) |->
                    IF k = 0 THEN Zeros(Size \div 2) ELSE EncodeReloc(E[k - 1], rs[k])]

LEMMA DecodeIsDecoding == ASSUME NEW t PROVE Decode(t) = Decoding(t)[Len(t)]
BY DEF Decode, Decoding

LEMMA EncodeIsEncoding == ASSUME NEW rs PROVE Encode(rs) = Encoding(rs)[Len(rs)]
BY DEF Encode, Encoding

(* What is read when the word of a segment comes. *)
Now(d, word) == [offset |-> PlaceOf(d), type |-> word, size |-> IF d.upper THEN 32 ELSE 16]

(* A word of a table is decoded. *)
LEMMA DecodeWordIs ==
  ASSUME NEW d \in Good, NEW word \in 0 .. 7
  PROVE  /\ DecodeWord(d, word) \in Good
         /\ DecodeWord(d, word).offset = d.offset + 2
         /\ DecodeWord(d, word).upper <=> word = UPPER
         /\ word \notin Segment => DecodeWord(d, word).relocs = d.relocs
         /\ word \in Segment => DecodeWord(d, word).relocs = Append(d.relocs, Now(d, word))
<1> DEFINE c == DecodeWord(d, word)
           r == Now(d, word)
           o == d.ok /\ word \in Segment \cup {ABSOLUTE, INSTRUCTION, UPPER}
<1>2. /\ d.relocs \in Seq(Reloc) /\ d.ok \in BOOLEAN /\ d.offset \in Nat /\ d.upper \in BOOLEAN
      /\ d.upper => d.offset >= 2
  BY DEF Good, Deco
<1>3. c = [relocs |-> IF word \notin Segment THEN d.relocs ELSE Append(d.relocs, r),
           ok |-> o, offset |-> d.offset + 2, upper |-> (word = UPPER)]
  BY DEF DecodeWord, Now
<1>4. PlaceOf(d) \in Nat
  BY <1>2 DEF PlaceOf
<1>5. word \in Segment => r \in Reloc
  BY <1>4 DEF Reloc, Now
<1>6. (IF word \notin Segment THEN d.relocs ELSE Append(d.relocs, r)) \in Seq(Reloc)
  BY <1>2, <1>5
<1>7. o \in BOOLEAN
  OBVIOUS
<1>8. d.offset + 2 \in Nat /\ d.offset + 2 >= 2
  BY <1>2
<1>9. c \in Deco
  <2> HIDE DEF r, o, c
  <2> QED
    BY <1>3, <1>6, <1>7, <1>8 DEF Deco
<1>10. c.offset = d.offset + 2 /\ (c.upper <=> word = UPPER)
       /\ c.relocs = IF word \notin Segment THEN d.relocs ELSE Append(d.relocs, r)
  <2> HIDE DEF r, o, c
  <2> QED
    BY <1>3
<1>11. c \in Good
  <2> HIDE DEF c
  <2> QED
    BY <1>8, <1>9, <1>10 DEF Good
<1> QED
  BY <1>10, <1>11

LEMMA DecodingIs ==
  ASSUME NEW t \in Table
  PROVE  /\ Decoding(t)[0] = [relocs |-> <<>>, ok |-> TRUE, offset |-> 0, upper |-> FALSE]
         /\ \A i \in 1 .. Len(t) : Decoding(t)[i] = DecodeWord(Decoding(t)[i - 1], t[i])
         /\ \A i \in 0 .. Len(t) : Decoding(t)[i] \in Good
<1> DEFINE b == [relocs |-> <<>>, ok |-> TRUE, offset |-> 0, upper |-> FALSE]
           G == [p \in Good \X (1 .. Len(t)) |-> DecodeWord(p[1], t[p[2]])]
<1>1. Len(t) \in Nat /\ \A i \in 1 .. Len(t) : t[i] \in 0 .. 7
  BY DEF Table
<1>2. b \in Good
  <2>1. <<>> \in Seq(Reloc) /\ TRUE \in BOOLEAN /\ FALSE \in BOOLEAN /\ 0 \in Nat
    OBVIOUS
  <2>2. b \in Deco /\ b.upper = FALSE
    BY <2>1 DEF Deco
  <2> QED
    BY <2>2 DEF Good
<1>3. G \in [Good \X (1 .. Len(t)) -> Good]
  <2>1. ASSUME NEW p \in Good \X (1 .. Len(t)) PROVE DecodeWord(p[1], t[p[2]]) \in Good
    BY <1>1, DecodeWordIs
  <2> QED
    BY <2>1
<1>4. \A d \in Good : \A i \in 1 .. Len(t) : G[<<d, i>>] = DecodeWord(d, t[i])
  OBVIOUS
<1> HIDE DEF b, G
<1>5. PICK f : Steps(f, Good, b, Len(t), G)
  BY <1>1, <1>2, <1>3, SomeSteps
<1>6. f = [i \in 0 .. Len(t) |-> f[i]] /\ \A i \in 0 .. Len(t) : f[i] \in Good
  BY <1>5 DEF Steps
<1>7. ASSUME NEW i \in 0 .. Len(t) PROVE f[i] = IF i = 0 THEN b ELSE DecodeWord(f[i - 1], t[i])
  <2>1. i # 0 => i \in 1 .. Len(t) /\ i - 1 \in 0 .. Len(t)
    BY <1>1
  <2> QED
    BY <1>4, <1>5, <1>6, <2>1 DEF Steps
<1>8. f = [i \in 0 .. Len(t) |-> IF i = 0 THEN b ELSE DecodeWord(f[i - 1], t[i])]
  BY <1>6, <1>7
<1>9. Decoding(t) = [i \in 0 .. Len(t) |-> IF i = 0 THEN b
                                           ELSE DecodeWord(Decoding(t)[i - 1], t[i])]
  BY <1>8 DEF Decoding, b
<1>10. PICK D : D = Decoding(t)
  OBVIOUS
<1>11. D = [i \in 0 .. Len(t) |-> IF i = 0 THEN b ELSE DecodeWord(D[i - 1], t[i])]
  BY <1>9, <1>10
<1>12. D[0] = b /\ \A i \in 1 .. Len(t) : D[i] = DecodeWord(D[i - 1], t[i])
  BY <1>1, <1>11
<1>13. \A i \in 1 .. Len(t) : D[i - 1] \in Good => D[i] = G[<<D[i - 1], i>>]
  BY <1>4, <1>12
<1>14. \A i \in 0 .. Len(t) : D[i] \in Good
  BY <1>1, <1>2, <1>3, <1>12, <1>13, StepsOf
<1> QED
  BY <1>10, <1>12, <1>14 DEF b

-----------------------------------------------------------------------------
(* The table of an image. *)
Image == [1 .. Words -> 0 .. 7]

LEMMA WordsIs == Words \in Nat /\ Size \in Nat /\ 2 * Words = Size
<1>1. Size \in Nat /\ Size % 2 = 0
  BY RelocationAssumption DEF Size
<1> QED
  BY <1>1 DEF Words

LEMMA ImageIs ==
  ASSUME NEW t \in Image
  PROVE  t \in Table /\ Len(t) = Words
BY WordsIs DEF Image, Table

LEMMA NoneEncoded == Zeros(Size \div 2) \in Image /\ \A i \in 1 .. Words : Zeros(Size \div 2)[i] = ABSOLUTE
BY WordsIs DEF Zeros, Image, Words, ABSOLUTE

(* A relocation is encoded. *)
LEMMA EncodeRelocIs ==
  ASSUME NEW t \in Image, NEW r \in Reloc
  PROVE  /\ EncodeReloc(t, r) \in Image
         /\ \A i \in 1 .. Words : EncodeReloc(t, r)[i] =
              IF i = TypeWord(r) THEN r.type
              ELSE IF r.size = 32 /\ i = FirstWord(r) THEN UPPER ELSE t[i]
<1> DEFINE u == IF r.size = 32 THEN [t EXCEPT ![FirstWord(r)] = UPPER] ELSE t
           v == [u EXCEPT ![TypeWord(r)] = r.type]
<1>1. UPPER \in 0 .. 7 /\ r.type \in 0 .. 7
  BY DEF UPPER, Reloc, Segment, DATA, TEXT, BSS
<1>2. u \in Image /\ \A i \in 1 .. Words :
                       u[i] = IF r.size = 32 /\ i = FirstWord(r) THEN UPPER ELSE t[i]
  BY <1>1 DEF Image
<1>3. v \in Image /\ \A i \in 1 .. Words : v[i] = IF i = TypeWord(r) THEN r.type ELSE u[i]
  <2> HIDE DEF u
  <2> QED
    BY <1>1, <1>2 DEF Image
<1>4. EncodeReloc(t, r) = v
  BY DEF EncodeReloc, FirstWord
<1> QED
  <2> HIDE DEF u, v
  <2> QED
    BY <1>2, <1>3, <1>4

LEMMA EncodingIs ==
  ASSUME NEW rs \in Seq(Reloc)
  PROVE  /\ Encoding(rs)[0] = Zeros(Size \div 2)
         /\ \A k \in 1 .. Len(rs) : Encoding(rs)[k] = EncodeReloc(Encoding(rs)[k - 1], rs[k])
         /\ \A k \in 0 .. Len(rs) : Encoding(rs)[k] \in Image
<1> DEFINE b == Zeros(Size \div 2)
           G == [p \in Image \X (1 .. Len(rs)) |-> EncodeReloc(p[1], rs[p[2]])]
<1>1. Len(rs) \in Nat /\ \A k \in 1 .. Len(rs) : rs[k] \in Reloc
  OBVIOUS
<1>2. b \in Image
  BY NoneEncoded
<1>3. G \in [Image \X (1 .. Len(rs)) -> Image]
  <2>1. ASSUME NEW p \in Image \X (1 .. Len(rs)) PROVE EncodeReloc(p[1], rs[p[2]]) \in Image
    BY <1>1, EncodeRelocIs
  <2> QED
    BY <2>1
<1>4. \A t \in Image : \A k \in 1 .. Len(rs) : G[<<t, k>>] = EncodeReloc(t, rs[k])
  OBVIOUS
<1> HIDE DEF b, G
<1>5. PICK f : Steps(f, Image, b, Len(rs), G)
  BY <1>1, <1>2, <1>3, SomeSteps
<1>6. f = [k \in 0 .. Len(rs) |-> f[k]] /\ \A k \in 0 .. Len(rs) : f[k] \in Image
  BY <1>5 DEF Steps
<1>7. ASSUME NEW k \in 0 .. Len(rs) PROVE f[k] = IF k = 0 THEN b ELSE EncodeReloc(f[k - 1], rs[k])
  <2>1. k # 0 => k \in 1 .. Len(rs) /\ k - 1 \in 0 .. Len(rs)
    BY <1>1
  <2> QED
    BY <1>4, <1>5, <1>6, <2>1 DEF Steps
<1>8. f = [k \in 0 .. Len(rs) |-> IF k = 0 THEN b ELSE EncodeReloc(f[k - 1], rs[k])]
  BY <1>6, <1>7
<1>9. Encoding(rs) = [k \in 0 .. Len(rs) |-> IF k = 0 THEN b
                                             ELSE EncodeReloc(Encoding(rs)[k - 1], rs[k])]
  BY <1>8 DEF Encoding, b
<1>10. PICK E : E = Encoding(rs)
  OBVIOUS
<1>11. E = [k \in 0 .. Len(rs) |-> IF k = 0 THEN b ELSE EncodeReloc(E[k - 1], rs[k])]
  BY <1>9, <1>10
<1>12. E[0] = b /\ \A k \in 1 .. Len(rs) : E[k] = EncodeReloc(E[k - 1], rs[k])
  BY <1>1, <1>11
<1>13. \A k \in 1 .. Len(rs) : E[k - 1] \in Image => E[k] = G[<<E[k - 1], k>>]
  BY <1>4, <1>12
<1>14. \A k \in 0 .. Len(rs) : E[k] \in Image
  BY <1>1, <1>2, <1>3, <1>12, <1>13, StepsOf
<1> QED
  BY <1>10, <1>12, <1>14 DEF b

-----------------------------------------------------------------------------
(* Where a relocation is. *)
LEMMA Places ==
  ASSUME NEW r \in Reloc, r.offset % 2 = 0
  PROVE  /\ FirstWord(r) \in Nat \ {0} /\ TypeWord(r) \in Nat \ {0}
         /\ r.offset = 2 * (FirstWord(r) - 1)
         /\ r.size = 32 => TypeWord(r) = FirstWord(r) + 1
         /\ r.size # 32 => TypeWord(r) = FirstWord(r)
         /\ InTable(r) <=> TypeWord(r) <= Words
<1>1. r.offset \in Nat /\ r.size \in {16, 32}
  BY DEF Reloc
<1>2. PICK m \in Nat : m = r.offset \div 2 /\ r.offset = 2 * m
  BY <1>1
<1>3. FirstWord(r) = m + 1 /\ TypeWord(r) = m + IF r.size = 32 THEN 2 ELSE 1
  BY <1>2 DEF FirstWord, TypeWord
<1>4. InTable(r) <=> 2 * m + (IF r.size = 32 THEN 4 ELSE 2) <= 2 * Words
  BY <1>2, WordsIs DEF InTable
<1>5. CASE r.size = 32
  <2>1. InTable(r) <=> m + 2 <= Words
    BY <1>4, <1>5, WordsIs
  <2>2. FirstWord(r) = m + 1 /\ TypeWord(r) = m + 2
    BY <1>3, <1>5
  <2>3. FirstWord(r) \in Nat \ {0} /\ TypeWord(r) \in Nat \ {0}
    BY <2>2
  <2>4. r.offset = 2 * (FirstWord(r) - 1) /\ TypeWord(r) = FirstWord(r) + 1
    <3>1. (m + 1) - 1 = m /\ m + 2 = m + 1 + 1
      OBVIOUS
    <3>2. r.offset = 2 * m
      BY <1>2
    <3> QED
      BY ONLY <2>2, <3>1, <3>2
  <2> QED
    BY <1>5, <2>1, <2>2, <2>3, <2>4
<1>6. CASE r.size # 32
  <2>1. InTable(r) <=> m + 1 <= Words
    BY <1>4, <1>6, WordsIs
  <2>2. FirstWord(r) = m + 1 /\ TypeWord(r) = m + 1
    BY <1>3, <1>6
  <2>3. FirstWord(r) \in Nat \ {0} /\ TypeWord(r) \in Nat \ {0}
    BY <2>2
  <2>4. r.offset = 2 * (FirstWord(r) - 1) /\ TypeWord(r) = FirstWord(r) + 0
    <3>1. (m + 1) - 1 = m /\ m + 1 = m + 1 + 0
      OBVIOUS
    <3>2. r.offset = 2 * m
      BY <1>2
    <3> QED
      BY ONLY <2>2, <3>1, <3>2
  <2> QED
    BY <1>6, <2>1, <2>2, <2>3, <2>4
<1> QED
  BY <1>5, <1>6

(* No two of them are at the same word. *)
Disjoint(rs) ==
  \A k, l \in 1 .. Len(rs) : k # l =>
    /\ TypeWord(rs[k]) # TypeWord(rs[l])
    /\ rs[k].size = 32 => FirstWord(rs[k]) # TypeWord(rs[l])

Fits(rs) == \A k \in 1 .. Len(rs) : rs[k].offset % 2 = 0 /\ InTable(rs[k])

LEMMA HoldsMore ==
  ASSUME NEW rs \in Seq(Reloc), Disjoint(rs), Fits(rs),
         NEW t \in Image, NEW n \in 0 .. Len(rs) - 1, Holds(t, rs, n)
  PROVE  Holds(EncodeReloc(t, rs[n + 1]), rs, n + 1)
<1>1. PICK r \in Reloc : r = rs[n + 1] /\ r.offset % 2 = 0 /\ InTable(r)
  BY DEF Fits
<1>2. PICK u \in Image : u = EncodeReloc(t, r)
  BY EncodeRelocIs
<1>3. /\ Len(t) = Words /\ Len(u) = Words /\ n + 1 \in 1 .. Len(rs) /\ n \in Nat
  BY <1>2, ImageIs
<1>4. \A i \in 1 .. Words : u[i] = IF i = TypeWord(r) THEN r.type
                                   ELSE IF r.size = 32 /\ i = FirstWord(r) THEN UPPER ELSE t[i]
  BY <1>2, EncodeRelocIs
<1>5. /\ TypeWord(r) \in 1 .. Words
      /\ r.size = 32 => FirstWord(r) \in 1 .. Words /\ FirstWord(r) # TypeWord(r)
  BY <1>1, Places, WordsIs
<1>6. Has(u, r)
  BY <1>4, <1>5 DEF Has
<1>7. ASSUME NEW k \in 1 .. n PROVE Has(u, rs[k])
  <2>1. k \in 1 .. Len(rs) /\ k # n + 1
    BY <1>3
  <2>2. PICK q \in Reloc : q = rs[k] /\ q.offset % 2 = 0 /\ InTable(q)
    BY <2>1 DEF Fits
  <2>3. /\ TypeWord(q) \in 1 .. Words
        /\ q.size = 32 => FirstWord(q) \in 1 .. Words
    BY <2>2, Places, WordsIs
  <2>4. /\ TypeWord(q) # TypeWord(r)
        /\ q.size = 32 => FirstWord(q) # TypeWord(r)
        /\ r.size = 32 => FirstWord(r) # TypeWord(q)
    BY <1>1, <1>3, <2>1, <2>2 DEF Disjoint
  <2>5. q.size = 32 /\ r.size = 32 => FirstWord(q) # FirstWord(r)
    BY <1>1, <2>2, <2>4, Places
  <2>6. Has(t, q)
    BY <2>2 DEF Holds
  <2> QED
    BY <1>4, <2>2, <2>3, <2>4, <2>5, <2>6 DEF Has
<1>8. ASSUME NEW i \in 1 .. Words, u[i] # ABSOLUTE
      PROVE  \E k \in 1 .. n + 1 : PartOf(u, i, rs[k])
  <2>1. CASE i = TypeWord(r) \/ (r.size = 32 /\ i = FirstWord(r))
    <3>1. PartOf(u, i, r)
      BY <1>4, <1>5, <2>1 DEF PartOf
    <3> QED
      BY <1>1, <1>3, <3>1
  <2>2. CASE ~(i = TypeWord(r) \/ (r.size = 32 /\ i = FirstWord(r)))
    <3>1. u[i] = t[i]
      BY <1>4, <2>2
    <3>2. PICK k \in 1 .. n : PartOf(t, i, rs[k])
      BY <1>3, <1>8, <3>1 DEF Holds
    <3>3. PartOf(u, i, rs[k]) /\ k \in 1 .. n + 1
      BY <1>3, <3>1, <3>2 DEF PartOf
    <3> QED
      BY <3>3
  <2> QED
    BY <2>1, <2>2
<1>9. ASSUME NEW k \in 1 .. n + 1 PROVE Has(u, rs[k])
  <2>1. k \in 1 .. n \/ k = n + 1
    BY <1>3
  <2> QED
    BY <1>1, <1>6, <1>7, <2>1
<1> QED
  BY <1>1, <1>2, <1>3, <1>8, <1>9 DEF Holds

(* cpm.py: the table has the relocations, and nothing else. *)
LEMMA Encoded ==
  ASSUME NEW rs \in Seq(Reloc), Disjoint(rs), Fits(rs)
  PROVE  Encode(rs) \in Image /\ Holds(Encode(rs), rs, Len(rs))
<1> DEFINE E == Encoding(rs)
           S == {n \in Nat : Holds(E[n], rs, n)}
<1>1. /\ E[0] = Zeros(Size \div 2)
      /\ \A k \in 1 .. Len(rs) : E[k] = EncodeReloc(E[k - 1], rs[k])
      /\ \A k \in 0 .. Len(rs) : E[k] \in Image
  BY EncodingIs
<1>2. 0 \in S
  <2>1. \A i \in 1 .. Len(E[0]) : E[0][i] = ABSOLUTE
    BY <1>1, NoneEncoded, ImageIs
  <2>2. Holds(E[0], rs, 0)
    BY <2>1 DEF Holds
  <2> QED
    BY <2>2
<1>3. ASSUME NEW n \in 0 .. Len(rs) - 1, n \in S PROVE n + 1 \in S
  <2>1. n + 1 \in 1 .. Len(rs) /\ (n + 1) - 1 = n /\ n \in 0 .. Len(rs) /\ n + 1 \in Nat
    OBVIOUS
  <2>2. E[n] \in Image /\ E[n + 1] = EncodeReloc(E[n], rs[n + 1])
    BY <1>1, <2>1
  <2>3. Holds(E[n + 1], rs, n + 1)
    BY <1>3, <2>2, HoldsMore
  <2> QED
    BY <2>1, <2>3
<1>4. \A n \in 0 .. Len(rs) : n \in S
  <2> HIDE DEF S, E
  <2>1. Len(rs) \in Nat
    OBVIOUS
  <2> QED
    BY <1>2, <1>3, <2>1, UpTo
<1>5. Len(rs) \in 0 .. Len(rs)
  OBVIOUS
<1> QED
  BY <1>1, <1>4, <1>5, EncodeIsEncoding

-----------------------------------------------------------------------------
(* cpm.py reads what the table has, in its order. *)

Upper(t, j) == j > 1 /\ t[j - 1] = UPPER

(* What is read at the j-th word of t. *)
RelocAt(t, j) == [offset |-> IF Upper(t, j) THEN 2 * (j - 2) ELSE 2 * (j - 1),
                  type |-> t[j], size |-> IF Upper(t, j) THEN 32 ELSE 16]

LEMMA RelocAtIs ==
  ASSUME NEW t \in Table, NEW j \in 1 .. Len(t), t[j] \in Segment
  PROVE  /\ RelocAt(t, j) \in Reloc /\ RelocAt(t, j).offset % 2 = 0
         /\ TypeWord(RelocAt(t, j)) = j
         /\ RelocAt(t, j).type = t[j]
         /\ RelocAt(t, j).size = 32 => j > 1 /\ t[j - 1] = UPPER /\ FirstWord(RelocAt(t, j)) = j - 1
         /\ RelocAt(t, j).size # 32 => ~Upper(t, j)
<1>1. CASE Upper(t, j)
  <2>1. PICK m \in Nat : m = j - 2 /\ j = m + 2
    <3>1. j - 2 \in Nat /\ j = (j - 2) + 2
      BY <1>1 DEF Upper
    <3> QED
      BY <3>1
  <2>2. RelocAt(t, j) = [offset |-> 2 * m, type |-> t[j], size |-> 32]
    BY <1>1, <2>1 DEF RelocAt
  <2>3. 2 * m \in Nat /\ (2 * m) % 2 = 0 /\ (2 * m) \div 2 = m
    BY <2>1
  <2>4. RelocAt(t, j) \in Reloc /\ RelocAt(t, j).offset = 2 * m /\ RelocAt(t, j).size = 32
    BY <2>2, <2>3 DEF Reloc
  <2>5. TypeWord(RelocAt(t, j)) = m + 2 /\ FirstWord(RelocAt(t, j)) = m + 1
    BY <2>3, <2>4 DEF TypeWord, FirstWord
  <2> QED
    BY <1>1, <2>1, <2>2, <2>3, <2>4, <2>5 DEF Upper
<1>2. CASE ~Upper(t, j)
  <2>1. PICK m \in Nat : m = j - 1 /\ j = m + 1
    OBVIOUS
  <2>2. RelocAt(t, j) = [offset |-> 2 * m, type |-> t[j], size |-> 16]
    BY <1>2, <2>1 DEF RelocAt
  <2>3. 2 * m \in Nat /\ (2 * m) % 2 = 0 /\ (2 * m) \div 2 = m
    BY <2>1
  <2>4. RelocAt(t, j) \in Reloc /\ RelocAt(t, j).offset = 2 * m /\ RelocAt(t, j).size = 16
    BY <2>2, <2>3 DEF Reloc
  <2>5. TypeWord(RelocAt(t, j)) = m + 1
    BY <2>3, <2>4 DEF TypeWord
  <2> QED
    BY <1>2, <2>1, <2>2, <2>3, <2>4, <2>5
<1> QED
  BY <1>1, <1>2

(* After i words. *)
DecodingTo(t, i) == /\ Decoding(t)[i].offset = 2 * i
                    /\ Decoding(t)[i].upper <=> Upper(t, i + 1)

(* One word more. *)
LEMMA DecodingMore ==
  ASSUME NEW t \in Table, NEW i \in 0 .. Len(t) - 1, DecodingTo(t, i)
  PROVE  /\ DecodingTo(t, i + 1)
         /\ t[i + 1] \notin Segment => Decoding(t)[i + 1].relocs = Decoding(t)[i].relocs
         /\ t[i + 1] \in Segment =>
              Decoding(t)[i + 1].relocs = Append(Decoding(t)[i].relocs, RelocAt(t, i + 1))
<1>1. PICK d \in Good : d = Decoding(t)[i] /\ Decoding(t)[i + 1] = DecodeWord(d, t[i + 1])
  <2>1. i \in 0 .. Len(t) /\ i + 1 \in 1 .. Len(t) /\ (i + 1) - 1 = i
    OBVIOUS
  <2> QED
    BY <2>1, DecodingIs
<1>2. PICK w \in 0 .. 7 : w = t[i + 1]
  BY DEF Table
<1>3. /\ DecodeWord(d, w).offset = d.offset + 2
      /\ DecodeWord(d, w).upper <=> w = UPPER
      /\ w \notin Segment => DecodeWord(d, w).relocs = d.relocs
      /\ w \in Segment => DecodeWord(d, w).relocs = Append(d.relocs, Now(d, w))
  BY DecodeWordIs
<1>4. d.offset = 2 * i /\ (d.upper <=> Upper(t, i + 1)) /\ i \in Nat
  BY <1>1 DEF DecodingTo
<1>5. d.offset + 2 = 2 * (i + 1) /\ 2 * ((i + 1) - 1) = 2 * i /\ 2 * ((i + 1) - 2) = 2 * i - 2
  BY <1>4
<1>6. Upper(t, i + 2) <=> w = UPPER
  <2>1. i + 2 > 1 /\ (i + 2) - 1 = i + 1
    BY <1>4
  <2> QED
    BY <1>2, <2>1 DEF Upper
<1>7. Now(d, w) = RelocAt(t, i + 1)
  <2>1. CASE d.upper
    BY <1>2, <1>4, <1>5, <2>1 DEF RelocAt, Now, PlaceOf
  <2>2. CASE ~d.upper
    BY <1>2, <1>4, <1>5, <2>2 DEF RelocAt, Now, PlaceOf
  <2> QED
    BY <2>1, <2>2
<1>8. DecodingTo(t, i + 1)
  <2>1. (i + 1) + 1 = i + 2
    BY <1>4
  <2> QED
    BY <1>1, <1>2, <1>3, <1>5, <1>6, <2>1 DEF DecodingTo
<1> QED
  BY <1>1, <1>2, <1>3, <1>7, <1>8

LEMMA DecodingAt ==
  ASSUME NEW t \in Table
  PROVE  \A i \in 0 .. Len(t) : DecodingTo(t, i)
<1> DEFINE S == {n \in Nat : DecodingTo(t, n)}
<1>1. 0 \in S
  <2>1. ~Upper(t, 0 + 1)
    BY DEF Upper
  <2>2. Decoding(t)[0].offset = 0 /\ Decoding(t)[0].upper = FALSE
    BY DecodingIs
  <2>3. DecodingTo(t, 0)
    BY <2>1, <2>2 DEF DecodingTo
  <2> QED
    BY <2>3
<1>2. ASSUME NEW n \in 0 .. Len(t) - 1, n \in S PROVE n + 1 \in S
  <2>1. DecodingTo(t, n + 1)
    BY <1>2, DecodingMore
  <2> QED
    BY <2>1
<1>3. \A n \in 0 .. Len(t) : n \in S
  <2>1. Len(t) \in Nat
    BY DEF Table
  <2> HIDE DEF S
  <2> QED
    BY <1>1, <1>2, <2>1, UpTo
<1> QED
  BY <1>3

(* The first i words of t have been read: rs is what there is at them, in  *)
(* their order.                                                            *)
ReadOf(t, rs, i) ==
  /\ \A k \in 1 .. Len(rs) : \E j \in 1 .. i : t[j] \in Segment /\ rs[k] = RelocAt(t, j)
  /\ \A j \in 1 .. i : t[j] \in Segment => \E k \in 1 .. Len(rs) : rs[k] = RelocAt(t, j)
  /\ \A k, l \in 1 .. Len(rs) : k < l => TypeWord(rs[k]) < TypeWord(rs[l])

LEMMA ReadMore ==
  ASSUME NEW t \in Table, NEW i \in 0 .. Len(t) - 1, NEW rs \in Seq(Reloc), ReadOf(t, rs, i),
         t[i + 1] \in Segment
  PROVE  ReadOf(t, Append(rs, RelocAt(t, i + 1)), i + 1)
<1>1. PICK r \in Reloc : r = RelocAt(t, i + 1) /\ TypeWord(r) = i + 1
  <2>1. i + 1 \in 1 .. Len(t)
    OBVIOUS
  <2> QED
    BY <2>1, RelocAtIs
<1>2. PICK n \in Nat, v \in Seq(Reloc) :
        /\ n = Len(rs) /\ v = Append(rs, r) /\ Len(v) = n + 1 /\ v[n + 1] = r
        /\ \A k \in 1 .. n : v[k] = rs[k]
  <2>1. Len(rs) \in Nat /\ Append(rs, r) \in Seq(Reloc) /\ Len(Append(rs, r)) = Len(rs) + 1
    OBVIOUS
  <2>2. Append(rs, r)[Len(rs) + 1] = r /\ \A k \in 1 .. Len(rs) : Append(rs, r)[k] = rs[k]
    OBVIOUS
  <2> QED
    BY <2>1, <2>2
<1>3. i \in Nat /\ i + 1 \in 1 .. i + 1 /\ \A j \in 1 .. i : j \in 1 .. i + 1 /\ j < i + 1
  OBVIOUS
<1>4. \A k \in 1 .. n + 1 : k \in 1 .. n \/ k = n + 1
  OBVIOUS
<1>5. \A k \in 1 .. n : k \in 1 .. n + 1 /\ ~(n + 1 < k)
  OBVIOUS
<1>6. n + 1 \in 1 .. n + 1
  OBVIOUS
<1>7. ASSUME NEW k \in 1 .. n
      PROVE  \E j \in 1 .. i : t[j] \in Segment /\ rs[k] = RelocAt(t, j) /\ TypeWord(rs[k]) = j
  <2>1. PICK j \in 1 .. i : t[j] \in Segment /\ rs[k] = RelocAt(t, j)
    BY <1>2 DEF ReadOf
  <2>2. j \in 1 .. Len(t)
    BY DEF Table
  <2>3. TypeWord(RelocAt(t, j)) = j
    BY <2>1, <2>2, RelocAtIs
  <2> QED
    BY <2>1, <2>3
<1>8. ASSUME NEW k \in 1 .. n + 1
      PROVE  \E j \in 1 .. i + 1 : t[j] \in Segment /\ v[k] = RelocAt(t, j)
  <2>1. CASE k \in 1 .. n
    BY <1>2, <1>3, <1>7, <2>1
  <2>2. CASE k = n + 1
    BY <1>1, <1>2, <1>3, <2>2
  <2> QED
    BY <1>4, <2>1, <2>2
<1>9. ASSUME NEW j \in 1 .. i + 1, t[j] \in Segment
      PROVE  \E k \in 1 .. n + 1 : v[k] = RelocAt(t, j)
  <2>1. CASE j \in 1 .. i
    <3>1. PICK k \in 1 .. n : rs[k] = RelocAt(t, j)
      BY <1>2, <1>9, <2>1 DEF ReadOf
    <3> QED
      BY <1>2, <1>5, <3>1
  <2>2. CASE j = i + 1
    BY <1>1, <1>2, <1>6, <2>2
  <2> QED
    BY <2>1, <2>2
<1>10. ASSUME NEW k \in 1 .. n + 1, NEW l \in 1 .. n + 1, k < l
       PROVE  TypeWord(v[k]) < TypeWord(v[l])
  <2>1. k \in 1 .. n
    BY <1>10
  <2>2. CASE l \in 1 .. n
    <3>1. TypeWord(rs[k]) < TypeWord(rs[l])
      BY <1>2, <1>10, <2>1, <2>2 DEF ReadOf
    <3> QED
      BY <1>2, <2>1, <2>2, <3>1
  <2>3. CASE l = n + 1
    BY <1>1, <1>2, <1>3, <1>7, <2>1, <2>3
  <2> QED
    BY <1>4, <2>2, <2>3
<1> QED
  BY <1>1, <1>2, <1>8, <1>9, <1>10 DEF ReadOf

(* cpm.py reads all there is. *)
LEMMA Decoded ==
  ASSUME NEW t \in Table
  PROVE  Decode(t).relocs \in Seq(Reloc) /\ ReadOf(t, Decode(t).relocs, Len(t))
<1> DEFINE D == Decoding(t)
           S == {n \in Nat : ReadOf(t, D[n].relocs, n)}
<1>1. Len(t) \in Nat
  BY DEF Table
<1>2. \A n \in 0 .. Len(t) : D[n].relocs \in Seq(Reloc)
  BY DecodingIs DEF Good, Deco
<1>3. 0 \in S
  <2>1. D[0].relocs = <<>>
    BY DecodingIs
  <2>2. ReadOf(t, <<>>, 0)
    BY DEF ReadOf
  <2> QED
    BY <2>1, <2>2
<1>4. ASSUME NEW n \in 0 .. Len(t) - 1, n \in S PROVE n + 1 \in S
  <2>1. n \in 0 .. Len(t) /\ n + 1 \in Nat
    BY <1>1
  <2>2. PICK rs \in Seq(Reloc) : rs = D[n].relocs /\ ReadOf(t, rs, n)
    BY <1>2, <1>4, <2>1
  <2>3. DecodingTo(t, n)
    BY <2>1, DecodingAt
  <2>4. CASE t[n + 1] \in Segment
    <3>1. D[n + 1].relocs = Append(rs, RelocAt(t, n + 1))
      BY <2>2, <2>3, <2>4, DecodingMore
    <3>2. ReadOf(t, Append(rs, RelocAt(t, n + 1)), n + 1)
      BY <2>2, <2>4, ReadMore
    <3> QED
      BY <2>1, <3>1, <3>2
  <2>5. CASE t[n + 1] \notin Segment
    <3>1. D[n + 1].relocs = rs
      BY <2>2, <2>3, <2>5, DecodingMore
    <3>2. \A j \in 1 .. n + 1 : t[j] \in Segment => j \in 1 .. n
      BY <2>1, <2>5
    <3>3. \A j \in 1 .. n : j \in 1 .. n + 1
      BY <2>1
    <3>4. ReadOf(t, rs, n + 1)
      BY <2>2, <3>2, <3>3 DEF ReadOf
    <3> QED
      BY <2>1, <3>1, <3>4
  <2> QED
    BY <2>4, <2>5
<1>5. \A n \in 0 .. Len(t) : n \in S
  <2> HIDE DEF S, D
  <2> QED
    BY <1>1, <1>3, <1>4, UpTo
<1>6. Len(t) \in 0 .. Len(t)
  BY <1>1
<1> QED
  BY <1>2, <1>5, <1>6, DecodeIsDecoding

(* What is read of two tables that have the same relocations is the same.  *)
LEMMA SameRead ==
  ASSUME NEW t \in Table, NEW u \in Table, Len(u) = Len(t),
         \A i \in 1 .. Len(t) : /\ t[i] \in Segment <=> u[i] \in Segment
                                /\ t[i] \in Segment => RelocAt(t, i) = RelocAt(u, i)
  PROVE  Decode(t).relocs = Decode(u).relocs
<1> DEFINE S == {n \in Nat : Decoding(t)[n].relocs = Decoding(u)[n].relocs}
<1>1. Len(t) \in Nat
  BY DEF Table
<1>2. 0 \in S
  BY DecodingIs
<1>3. ASSUME NEW n \in 0 .. Len(t) - 1, n \in S PROVE n + 1 \in S
  <2>1. n \in 0 .. Len(t) /\ n + 1 \in Nat /\ n + 1 \in 1 .. Len(t) /\ n \in 0 .. Len(u) - 1
    BY <1>1
  <2>2. DecodingTo(t, n) /\ DecodingTo(u, n)
    BY <2>1, DecodingAt
  <2>3. PICK rs : rs = Decoding(t)[n].relocs /\ rs = Decoding(u)[n].relocs
    BY <1>3
  <2>4. CASE t[n + 1] \in Segment
    <3>1. Decoding(t)[n + 1].relocs = Append(rs, RelocAt(t, n + 1))
      BY <2>2, <2>3, <2>4, DecodingMore
    <3>2. u[n + 1] \in Segment /\ RelocAt(t, n + 1) = RelocAt(u, n + 1)
      BY <2>1, <2>4
    <3>3. Decoding(u)[n + 1].relocs = Append(rs, RelocAt(u, n + 1))
      BY <2>1, <2>2, <2>3, <3>2, DecodingMore
    <3> QED
      BY <2>1, <3>1, <3>2, <3>3
  <2>5. CASE t[n + 1] \notin Segment
    <3>1. Decoding(t)[n + 1].relocs = rs
      BY <2>2, <2>3, <2>5, DecodingMore
    <3>2. u[n + 1] \notin Segment
      BY <2>1, <2>5
    <3>3. Decoding(u)[n + 1].relocs = rs
      BY <2>1, <2>2, <2>3, <3>2, DecodingMore
    <3> QED
      BY <2>1, <3>1, <3>3
  <2> QED
    BY <2>4, <2>5
<1>4. \A n \in 0 .. Len(t) : n \in S
  <2> HIDE DEF S
  <2> QED
    BY <1>1, <1>2, <1>3, UpTo
<1>5. Len(t) \in S
  BY <1>1, <1>4
<1> QED
  BY <1>5, DecodeIsDecoding

(* What has been read fits into the image, no two at the same word.        *)
LEMMA ReadFits ==
  ASSUME NEW t \in Table, NEW rs \in Seq(Reloc), Len(t) = Words, ReadOf(t, rs, Words)
  PROVE  Disjoint(rs) /\ Fits(rs)
<1>1. ASSUME NEW k \in 1 .. Len(rs)
      PROVE  /\ TypeWord(rs[k]) \in 1 .. Words /\ t[TypeWord(rs[k])] \in Segment
             /\ rs[k] = RelocAt(t, TypeWord(rs[k]))
  <2>1. PICK j \in 1 .. Words : t[j] \in Segment /\ rs[k] = RelocAt(t, j)
    BY DEF ReadOf
  <2>2. TypeWord(RelocAt(t, j)) = j
    BY <2>1, RelocAtIs
  <2> QED
    BY <2>1, <2>2
<1>2. ASSUME NEW k \in 1 .. Len(rs), NEW l \in 1 .. Len(rs), k # l
      PROVE  /\ TypeWord(rs[k]) # TypeWord(rs[l])
             /\ rs[k].size = 32 => FirstWord(rs[k]) # TypeWord(rs[l])
  <2>1. k < l \/ l < k
    BY <1>2
  <2>2. TypeWord(rs[k]) < TypeWord(rs[l]) \/ TypeWord(rs[l]) < TypeWord(rs[k])
    BY <2>1 DEF ReadOf
  <2>3. PICK i \in 1 .. Words : i = TypeWord(rs[k]) /\ t[i] \in Segment /\ rs[k] = RelocAt(t, i)
    BY <1>1
  <2>4. PICK j \in 1 .. Words : j = TypeWord(rs[l]) /\ t[j] \in Segment
    BY <1>1
  <2>5. i # j
    BY <2>2, <2>3, <2>4
  <2>6. ASSUME rs[k].size = 32 PROVE FirstWord(rs[k]) # TypeWord(rs[l])
    <3>1. FirstWord(rs[k]) = i - 1 /\ t[i - 1] = UPPER
      BY <2>3, <2>6, RelocAtIs
    <3>2. UPPER \notin Segment
      BY DEF UPPER, Segment, DATA, TEXT, BSS
    <3> QED
      BY <2>4, <3>1, <3>2
  <2> QED
    BY <2>3, <2>4, <2>5, <2>6
<1>3. ASSUME NEW k \in 1 .. Len(rs) PROVE rs[k].offset % 2 = 0 /\ InTable(rs[k])
  <2>1. PICK i \in 1 .. Words : i = TypeWord(rs[k]) /\ t[i] \in Segment /\ rs[k] = RelocAt(t, i)
    BY <1>1
  <2>2. rs[k] \in Reloc /\ rs[k].offset % 2 = 0
    BY <2>1, RelocAtIs
  <2>3. i <= Words
    BY WordsIs
  <2> QED
    BY <2>1, <2>2, <2>3, Places
<1> QED
  BY <1>2, <1>3 DEF Disjoint, Fits

(* Read, written and read again.                                           *)
LEMMA ReadAgain ==
  ASSUME NEW t \in Table, Len(t) = Words
  PROVE  Decode(Encode(Decode(t).relocs)).relocs = Decode(t).relocs
<1>1. PICK rs \in Seq(Reloc) : rs = Decode(t).relocs /\ ReadOf(t, rs, Words)
  BY Decoded
<1>2. Disjoint(rs) /\ Fits(rs)
  BY <1>1, ReadFits
<1>3. PICK u \in Image : u = Encode(rs) /\ Holds(u, rs, Len(rs))
  BY <1>2, Encoded
<1>4. u \in Table /\ Len(u) = Words /\ Words \in Nat
  BY ImageIs, WordsIs
<1>5. ABSOLUTE \notin Segment /\ UPPER \notin Segment /\ UPPER # ABSOLUTE
  BY DEF ABSOLUTE, UPPER, Segment, DATA, TEXT, BSS
(* The word of a relocation that was read, and what is before it. *)
<1>6. ASSUME NEW k \in 1 .. Len(rs)
      PROVE  \E j \in 1 .. Words :
               /\ t[j] \in Segment /\ rs[k] = RelocAt(t, j) /\ rs[k].type = t[j]
               /\ TypeWord(rs[k]) = j /\ (rs[k].size = 32 <=> Upper(t, j))
               /\ rs[k].size = 32 => FirstWord(rs[k]) = j - 1
  <2>1. PICK j \in 1 .. Words : t[j] \in Segment /\ rs[k] = RelocAt(t, j)
    BY <1>1 DEF ReadOf
  <2> QED
    BY <2>1, RelocAtIs DEF Upper
<1>7. ASSUME NEW i \in 1 .. Words, t[i] \in Segment
      PROVE  u[i] = t[i] /\ (Upper(t, i) => Upper(u, i))
  <2>1. PICK k \in 1 .. Len(rs) : rs[k] = RelocAt(t, i)
    BY <1>1, <1>7 DEF ReadOf
  <2>2. /\ TypeWord(rs[k]) = i /\ rs[k].type = t[i]
        /\ rs[k].size = 32 => FirstWord(rs[k]) = i - 1
        /\ Upper(t, i) => rs[k].size = 32
    BY <1>7, <2>1, RelocAtIs
  <2>3. Has(u, rs[k])
    BY <1>3 DEF Holds
  <2> QED
    BY <2>2, <2>3 DEF Has, Upper
<1>8. ASSUME NEW i \in 1 .. Words, u[i] \in Segment
      PROVE  t[i] \in Segment
  <2>1. PICK k \in 1 .. Len(rs) : PartOf(u, i, rs[k])
    BY <1>3, <1>4, <1>5, <1>8 DEF Holds
  <2>2. i = TypeWord(rs[k])
    BY <1>5, <1>8, <2>1 DEF PartOf
  <2> QED
    BY <1>6, <2>2
<1>9. ASSUME NEW i \in 1 .. Words, t[i] \in Segment, Upper(u, i)
      PROVE  Upper(t, i)
  <2>1. PICK h \in 1 .. Words : h = i - 1 /\ u[h] = UPPER /\ i = h + 1 /\ i > 1
    <3>1. i > 1 /\ i - 1 \in 1 .. Words /\ u[i - 1] = UPPER /\ i = (i - 1) + 1
      BY <1>4, <1>9 DEF Upper
    <3> QED
      BY <3>1
  <2>2. PICK k \in 1 .. Len(rs) : PartOf(u, h, rs[k])
    BY <1>3, <1>4, <1>5, <2>1 DEF Holds
  <2>3. PICK j \in 1 .. Words :
               /\ t[j] \in Segment /\ rs[k].type = t[j]
               /\ TypeWord(rs[k]) = j /\ (rs[k].size = 32 <=> Upper(t, j))
               /\ rs[k].size = 32 => FirstWord(rs[k]) = j - 1
    BY <1>6
  <2>4. rs[k].size = 32 /\ h = FirstWord(rs[k])
    BY <1>5, <2>1, <2>2, <2>3 DEF PartOf
  <2>5. j = i
    BY <2>1, <2>3, <2>4
  <2> QED
    BY <2>3, <2>4, <2>5
<1>10. ASSUME NEW i \in 1 .. Words
       PROVE  /\ t[i] \in Segment <=> u[i] \in Segment
              /\ t[i] \in Segment => RelocAt(t, i) = RelocAt(u, i)
  <2>1. t[i] \in Segment => u[i] = t[i] /\ (Upper(t, i) <=> Upper(u, i))
    BY <1>7, <1>9
  <2> QED
    BY <1>8, <2>1 DEF RelocAt
<1> QED
  BY <1>1, <1>3, <1>4, <1>10, SameRead

-----------------------------------------------------------------------------
(* elf2cpm68k fills the table up gap by gap. *)

LEMMA ZerosBehind ==
  ASSUME NEW t \in Table, NEW g \in Nat
  PROVE  /\ t \o Zeros(g) \in Table /\ Len(t \o Zeros(g)) = Len(t) + g
         /\ \A i \in 1 .. Len(t) : (t \o Zeros(g))[i] = t[i]
         /\ \A i \in Len(t) + 1 .. Len(t) + g : (t \o Zeros(g))[i] = ABSOLUTE
<1>1. Len(t) \in Nat /\ t \in Seq(0 .. 7)
  BY DEF Table
<1>2. Zeros(g) \in Seq(0 .. 7) /\ Len(Zeros(g)) = g /\ \A i \in 1 .. g : Zeros(g)[i] = ABSOLUTE
  BY DEF Zeros, ABSOLUTE
<1>3. /\ t \o Zeros(g) \in Seq(0 .. 7) /\ Len(t \o Zeros(g)) = Len(t) + g
      /\ \A i \in 1 .. Len(t) + g :
           (t \o Zeros(g))[i] = IF i <= Len(t) THEN t[i] ELSE Zeros(g)[i - Len(t)]
  BY <1>1, <1>2, ConcatProperties
<1>4. \A i \in 1 .. Len(t) : i \in 1 .. Len(t) + g /\ i <= Len(t)
  BY <1>1
<1>5. \A i \in Len(t) + 1 .. Len(t) + g :
        i \in 1 .. Len(t) + g /\ ~(i <= Len(t)) /\ i - Len(t) \in 1 .. g
  BY <1>1
<1> QED
  BY <1>2, <1>3, <1>4, <1>5 DEF Table

LEMMA PointerBehind ==
  ASSUME NEW t \in Table, NEW y \in 0 .. 7
  PROVE  /\ t \o <<UPPER, y>> \in Table /\ Len(t \o <<UPPER, y>>) = Len(t) + 2
         /\ \A i \in 1 .. Len(t) : (t \o <<UPPER, y>>)[i] = t[i]
         /\ (t \o <<UPPER, y>>)[Len(t) + 1] = UPPER /\ (t \o <<UPPER, y>>)[Len(t) + 2] = y
<1>1. Len(t) \in Nat /\ t \in Seq(0 .. 7)
  BY DEF Table
<1>2. PICK p \in Seq(0 .. 7) : p = <<UPPER, y>> /\ Len(p) = 2 /\ p[1] = UPPER /\ p[2] = y
  <2>1. UPPER \in 0 .. 7
    BY DEF UPPER
  <2>2. <<UPPER, y>> \in Seq(0 .. 7)
    BY <2>1
  <2> QED
    BY <2>2
<1>3. /\ t \o p \in Seq(0 .. 7) /\ Len(t \o p) = Len(t) + 2
      /\ \A i \in 1 .. Len(t) + 2 : (t \o p)[i] = IF i <= Len(t) THEN t[i] ELSE p[i - Len(t)]
  BY <1>1, <1>2, ConcatProperties
<1>4. \A i \in 1 .. Len(t) : i \in 1 .. Len(t) + 2 /\ i <= Len(t)
  BY <1>1
<1>5. /\ Len(t) + 1 \in 1 .. Len(t) + 2 /\ ~(Len(t) + 1 <= Len(t)) /\ (Len(t) + 1) - Len(t) = 1
      /\ Len(t) + 2 \in 1 .. Len(t) + 2 /\ ~(Len(t) + 2 <= Len(t)) /\ (Len(t) + 2) - Len(t) = 2
  BY <1>1
<1> QED
  BY <1>2, <1>3, <1>4, <1>5 DEF Table

(* A pointer is written behind a gap. *)
LEMMA HoldsBehind ==
  ASSUME NEW rs \in Seq(Reloc), NEW n \in 0 .. Len(rs) - 1,
         \A k \in 1 .. n + 1 : rs[k].size = 32 /\ rs[k].offset % 2 = 0,
         NEW t \in Table, Holds(t, rs, n),
         \A k \in 1 .. n : rs[k].offset + 4 <= 2 * Len(t),
         NEW g \in Nat, rs[n + 1].offset = 2 * (Len(t) + g)
  PROVE  LET u == (t \o Zeros(g)) \o <<UPPER, rs[n + 1].type>>
         IN  /\ u \in Table /\ Len(u) = Len(t) + g + 2
             /\ Holds(u, rs, n + 1)
             /\ \A k \in 1 .. n + 1 : rs[k].offset + 4 <= 2 * Len(u)
<1>1. PICK r \in Reloc, l \in Nat :
        r = rs[n + 1] /\ l = Len(t) /\ r.size = 32 /\ r.offset = 2 * (l + g) /\ r.type \in 0 .. 7
  <2>1. rs[n + 1] \in Reloc /\ Len(t) \in Nat
    BY DEF Table
  <2>2. rs[n + 1].type \in 0 .. 7
    BY <2>1 DEF Reloc, Segment, DATA, TEXT, BSS
  <2>3. n + 1 \in 1 .. n + 1
    OBVIOUS
  <2> QED
    BY <2>1, <2>2, <2>3
<1>2. PICK v \in Table : /\ v = t \o Zeros(g) /\ Len(v) = l + g
                         /\ \A i \in 1 .. l : v[i] = t[i]
                         /\ \A i \in l + 1 .. l + g : v[i] = ABSOLUTE
  BY <1>1, ZerosBehind
<1>3. PICK u \in Table : /\ u = v \o <<UPPER, r.type>> /\ Len(u) = (l + g) + 2
                         /\ \A i \in 1 .. l + g : u[i] = v[i]
                         /\ u[(l + g) + 1] = UPPER /\ u[(l + g) + 2] = r.type
  <2>1. r.type \in 0 .. 7 /\ Len(v) = l + g
    BY <1>1, <1>2
  <2>2. /\ v \o <<UPPER, r.type>> \in Table /\ Len(v \o <<UPPER, r.type>>) = Len(v) + 2
        /\ \A i \in 1 .. Len(v) : (v \o <<UPPER, r.type>>)[i] = v[i]
        /\ (v \o <<UPPER, r.type>>)[Len(v) + 1] = UPPER
        /\ (v \o <<UPPER, r.type>>)[Len(v) + 2] = r.type
    BY <2>1, PointerBehind
  <2> QED
    BY ONLY <2>1, <2>2
<1>4. \A i \in 1 .. l : i \in 1 .. l + g /\ u[i] = t[i]
  <2>1. \A i \in 1 .. l : i \in 1 .. l + g
    OBVIOUS
  <2> QED
    BY ONLY <1>2, <1>3, <2>1
<1>5. FirstWord(r) = (l + g) + 1 /\ TypeWord(r) = (l + g) + 2
  <2>1. l + g \in Nat /\ (2 * (l + g)) \div 2 = l + g
    OBVIOUS
  <2> QED
    BY <1>1, <2>1 DEF FirstWord, TypeWord
<1>6. Has(u, r)
  BY <1>3, <1>5 DEF Has
<1>7. ASSUME NEW k \in 1 .. n PROVE Has(u, rs[k]) /\ rs[k].offset + 4 <= 2 * ((l + g) + 2)
  <2>1. k \in 1 .. Len(rs) /\ k \in 1 .. n + 1
    OBVIOUS
  <2>2. PICK q \in Reloc : q = rs[k] /\ q.size = 32 /\ q.offset % 2 = 0 /\ q.offset + 4 <= 2 * l
    BY <1>1, <2>1
  <2>3. PICK h \in Nat : h = q.offset \div 2 /\ q.offset = 2 * h
    <3>1. q.offset \in Nat
      BY DEF Reloc
    <3>2. q.offset = 2 * (q.offset \div 2) /\ q.offset \div 2 \in Nat
      BY ONLY <2>2, <3>1
    <3> QED
      BY ONLY <3>2
  <2>4. FirstWord(q) = h + 1 /\ TypeWord(q) = h + 2
    BY <2>2, <2>3 DEF FirstWord, TypeWord
  <2>5. h + 1 \in 1 .. l /\ h + 2 \in 1 .. l
    BY ONLY <2>2, <2>3, h \in Nat, l \in Nat
  <2>6. Has(t, q)
    BY <2>2 DEF Holds
  <2>7. Has(u, q)
    BY <1>4, <2>4, <2>5, <2>6 DEF Has
  <2> QED
    BY <2>2, <2>3, <2>7
<1>8. ASSUME NEW i \in 1 .. (l + g) + 2, u[i] # ABSOLUTE
      PROVE  \E k \in 1 .. n + 1 : PartOf(u, i, rs[k])
  <2>1. CASE i \in 1 .. l
    <3>1. PICK k \in 1 .. n : PartOf(t, i, rs[k])
      BY <1>1, <1>4, <1>8, <2>1 DEF Holds
    <3>2. k \in 1 .. n + 1 /\ PartOf(u, i, rs[k])
      BY <1>4, <2>1, <3>1 DEF PartOf
    <3> QED
      BY <3>2
  <2>2. CASE i \in l + 1 .. l + g
    <3>1. u[i] = ABSOLUTE
      BY <1>2, <1>3, <2>2
    <3> QED
      BY <1>8, <3>1
  <2>3. CASE i = (l + g) + 1 \/ i = (l + g) + 2
    <3>1. PartOf(u, i, r)
      BY <1>1, <1>3, <1>5, <2>3 DEF PartOf
    <3>2. n + 1 \in 1 .. n + 1
      OBVIOUS
    <3> QED
      BY <1>1, <3>1, <3>2
  <2> QED
    BY <2>1, <2>2, <2>3
<1>9. ASSUME NEW k \in 1 .. n + 1 PROVE Has(u, rs[k]) /\ rs[k].offset + 4 <= 2 * ((l + g) + 2)
  <2>1. CASE k \in 1 .. n
    BY <1>7, <2>1
  <2>2. CASE k = n + 1
    BY <1>1, <1>6, <2>2
  <2> QED
    BY <2>1, <2>2
<1>10. Holds(u, rs, n + 1)
  BY <1>3, <1>8, <1>9 DEF Holds
<1>11. u = (t \o Zeros(g)) \o <<UPPER, rs[n + 1].type>> /\ (l + g) + 2 = Len(t) + g + 2
  BY <1>1, <1>2, <1>3
<1> QED
  BY <1>3, <1>9, <1>10, <1>11

(* Zeros are. *)
LEMMA HoldsPadded ==
  ASSUME NEW rs \in Seq(Reloc), NEW n \in 0 .. Len(rs),
         \A k \in 1 .. n : rs[k].size = 32 /\ rs[k].offset % 2 = 0,
         NEW t \in Table, Holds(t, rs, n),
         \A k \in 1 .. n : rs[k].offset + 4 <= 2 * Len(t),
         NEW g \in Nat
  PROVE  Holds(t \o Zeros(g), rs, n)
<1>1. PICK l \in Nat, v \in Table : /\ l = Len(t) /\ v = t \o Zeros(g) /\ Len(v) = l + g
                                    /\ \A i \in 1 .. l : v[i] = t[i]
                                    /\ \A i \in l + 1 .. l + g : v[i] = ABSOLUTE
  <2>1. Len(t) \in Nat
    BY DEF Table
  <2> QED
    BY <2>1, ZerosBehind
<1>2. ASSUME NEW k \in 1 .. n PROVE Has(v, rs[k])
  <2>1. PICK q \in Reloc : q = rs[k] /\ q.size = 32 /\ q.offset % 2 = 0 /\ q.offset + 4 <= 2 * l
    BY <1>1
  <2>2. PICK h \in Nat : h = q.offset \div 2 /\ q.offset = 2 * h
    <3>1. q.offset \in Nat
      BY DEF Reloc
    <3> QED
      BY <2>1, <3>1
  <2>3. FirstWord(q) = h + 1 /\ TypeWord(q) = h + 2
    BY <2>1, <2>2 DEF FirstWord, TypeWord
  <2>4. h + 1 \in 1 .. l /\ h + 2 \in 1 .. l
    BY <2>1, <2>2
  <2>5. Has(t, q)
    BY <2>1 DEF Holds
  <2>6. Has(v, q)
    BY <1>1, <2>3, <2>4, <2>5 DEF Has
  <2> QED
    BY <2>1, <2>6
<1>3. ASSUME NEW i \in 1 .. l + g, v[i] # ABSOLUTE
      PROVE  \E k \in 1 .. n : PartOf(v, i, rs[k])
  <2>1. i \in 1 .. l \/ i \in l + 1 .. l + g
    OBVIOUS
  <2>2. i \in 1 .. l /\ v[i] = t[i]
    BY <1>1, <1>3, <2>1
  <2>3. PICK k \in 1 .. n : PartOf(t, i, rs[k])
    BY <1>1, <1>3, <2>2 DEF Holds
  <2> QED
    BY <2>2, <2>3 DEF PartOf
<1> QED
  BY <1>1, <1>2, <1>3 DEF Holds

-----------------------------------------------------------------------------
(* The invariant holds. *)

LEMMA SegmentOfIs == \A x : SegmentOf(x) \in Segment
BY DEF SegmentOf, SegmentC, SegmentPy, Segment

(* What is kept is kept by a step that reads no relocation. *)
LEMMA KeptOn ==
  ASSUME Kept, tool' = tool, elf' = elf, got' = got,
         Through \in Nat, Through' \in Nat, Through <= Through',
         phase' # "error" => phase # "error" /\ Through' = Through
  PROVE  Kept'
<1>0. \A e : WeakAtZero(e)' <=> WeakAtZero(e)
  BY DEF WeakAtZero
<1>1. \A g, e : FromElf(g, e)' <=> FromElf(g, e)
  BY DEF FromElf, WeakAtZero, SegmentOf
<1>2. \A j \in 1 .. Through : j \in 1 .. Through'
  OBVIOUS
<1>3. elf' \in Elfs /\ FourApart(got)' /\ \A i \in 1 .. Len(got') : got'[i].offset % 2 = 0
  BY DEF Kept, FourApart
<1>4. \A i \in 1 .. Len(got') : \E j \in 1 .. Through' : FromElf(got[i], elf[j])'
  BY <1>1, <1>2 DEF Kept
<1>5. phase' # "error" =>
       \A j \in 1 .. Through' : Pointer(elf'[j]) /\ ~WeakAtZero(elf[j])' =>
         \E i \in 1 .. Len(got') : FromElf(got[i], elf[j])'
  BY <1>0, <1>1 DEF Kept
<1> QED
  BY <1>3, <1>4, <1>5 DEF Kept

(* What is passed over is no pointer, or one to a weak symbol at 0. *)
LEMMA PassedIs ==
  ASSUME tool \in Converter, NEW r \in Entry, Passes(r)
  PROVE  ~Pointer(r) \/ WeakAtZero(r)
BY DEF Passes, PassesC, PassesPy, Pointer, WeakAtZero, NullWeak, Converter

LEMMA TakenIs ==
  ASSUME tool \in Converter, NEW r \in Entry, ~Passes(r), Takes(r)
  PROVE  FromElf([offset |-> r.offset, type |-> SegmentOf(r.target), size |-> 32], r)
<1>1. r.alloc /\ r.kind = "32" /\ r.target <= Size + BssSize
  BY DEF Passes, PassesC, PassesPy, Takes, TakesC, TakesPy
<1>2. ~WeakAtZero(r)
  BY DEF Passes, PassesC, NullWeak, WeakAtZero
<1> QED
  BY <1>1, <1>2 DEF FromElf, Pointer

LEMMA KeptScan ==
  ASSUME TypeOK, tool \in Converter, Kept, Scanning, Scan, phase' # "error"
  PROVE  Kept'
<1>1. PICK n \in Nat, r \in Entry :
        /\ n = at /\ n < Len(elf) /\ r = elf[n + 1]
        /\ n + 1 \in 1 .. Len(elf) /\ phase = "scan" /\ Through = n
  <2>1. phase = "scan" /\ at < Len(elf) /\ at \in 0 .. Len(elf) /\ elf \in Seq(Entry)
    BY DEF Scan, Scanning, TypeOK
  <2>2. at \in Nat /\ at + 1 \in 1 .. Len(elf)
    BY <2>1
  <2>3. elf[at + 1] \in Entry /\ Through = at
    BY <2>1, <2>2 DEF Through
  <2> QED
    BY <2>1, <2>2, <2>3
<1>2. tool' = tool /\ elf' = elf /\ phase' = phase /\ at' = n + 1 /\ Through' = n + 1
  BY <1>1 DEF Scan, Stop, Through
<1>3. \A g, e : FromElf(g, e)' <=> FromElf(g, e)
  BY <1>2 DEF FromElf, SegmentOf, WeakAtZero
<1>0. \A e : WeakAtZero(e)' <=> WeakAtZero(e)
  BY <1>2 DEF WeakAtZero
<1>4. \A j \in 1 .. n : j \in 1 .. n + 1
  OBVIOUS
<1>5. n + 1 \in 1 .. n + 1 /\ \A j \in 1 .. n + 1 : j \in 1 .. n \/ j = n + 1
  OBVIOUS
<1>6. /\ \A i \in 1 .. Len(got) : \E j \in 1 .. n : FromElf(got[i], elf[j])
      /\ \A j \in 1 .. n : Pointer(elf[j]) /\ ~WeakAtZero(elf[j]) =>
           \E i \in 1 .. Len(got) : FromElf(got[i], elf[j])
      /\ elf \in Elfs /\ FourApart(got) /\ \A i \in 1 .. Len(got) : got[i].offset % 2 = 0
  BY <1>1 DEF Kept
<1>7. CASE Passes(r)
  <2>1. got' = got
    BY <1>1, <1>7 DEF Scan
  <2>2. ~Pointer(r) \/ WeakAtZero(r)
    BY <1>7, PassedIs
  <2>3. \A i \in 1 .. Len(got) : \E j \in 1 .. n + 1 : FromElf(got[i], elf[j])
    BY <1>4, <1>6
  <2>4. \A j \in 1 .. n + 1 : Pointer(elf[j]) /\ ~WeakAtZero(elf[j]) =>
          \E i \in 1 .. Len(got) : FromElf(got[i], elf[j])
    BY <1>1, <1>5, <1>6, <2>2
  <2>5. FourApart(got)'
    BY <1>6, <2>1 DEF FourApart
  <2> QED
    BY <1>0, <1>2, <1>3, <1>6, <2>1, <2>3, <2>4, <2>5 DEF Kept
<1>8. CASE ~Passes(r)
  <2> DEFINE g == [offset |-> r.offset, type |-> SegmentOf(r.target), size |-> 32]
  <2>1. Takes(r) /\ got' = Append(got, g)
    BY <1>1, <1>2, <1>8 DEF Scan, Stop
  <2>2. FromElf(g, r)
    BY <1>8, <2>1, TakenIs
  <2>3. g.offset = r.offset /\ r.alloc
    BY <2>2 DEF FromElf, Pointer
  <2> HIDE DEF g
  <2>4. PICK m \in Nat : /\ m = Len(got) /\ Len(got') = m + 1 /\ got'[m + 1] = g
                         /\ \A i \in 1 .. m : got'[i] = got[i]
    <3>1. got \in Seq(Reloc)
      BY DEF TypeOK
    <3>2. Len(got) \in Nat /\ Len(Append(got, g)) = Len(got) + 1
          /\ Append(got, g)[Len(got) + 1] = g
          /\ \A i \in 1 .. Len(got) : Append(got, g)[i] = got[i]
      BY <3>1
    <3> QED
      BY <2>1, <3>2
  <2>5. m + 1 \in 1 .. m + 1 /\ (\A i \in 1 .. m : i \in 1 .. m + 1)
        /\ \A i \in 1 .. m + 1 : i \in 1 .. m \/ i = m + 1
    OBVIOUS
  <2>6. \A i \in 1 .. m + 1 : \E j \in 1 .. n + 1 : FromElf(got'[i], elf[j])
    <3> TAKE i \in 1 .. m + 1
    <3>1. CASE i \in 1 .. m
      BY <1>4, <1>6, <2>4, <3>1
    <3>2. CASE i = m + 1
      BY <1>1, <1>5, <2>2, <2>4, <3>2
    <3> QED
      BY <2>5, <3>1, <3>2
  <2>7. \A j \in 1 .. n + 1 : Pointer(elf[j]) /\ ~WeakAtZero(elf[j]) =>
          \E i \in 1 .. m + 1 : FromElf(got'[i], elf[j])
    <3> SUFFICES ASSUME NEW j \in 1 .. n + 1, Pointer(elf[j]), ~WeakAtZero(elf[j])
                 PROVE  \E i \in 1 .. m + 1 : FromElf(got'[i], elf[j])
      OBVIOUS
    <3>1. CASE j \in 1 .. n
      BY <1>6, <2>4, <2>5, <3>1
    <3>2. CASE j = n + 1
      BY <1>1, <2>2, <2>4, <2>5, <3>2
    <3> QED
      BY <1>5, <3>1, <3>2
  <2>8. r.offset \in Nat /\ r.offset % 2 = 0
    <3>1. elf \in Elfs /\ n + 1 \in DOMAIN elf
      BY <1>1, <1>6 DEF TypeOK
    <3> QED
      BY <1>1, <3>1, RelocationAssumption DEF Entry
  <2>9. ASSUME NEW i \in 1 .. m
        PROVE  got[i].offset + 4 <= g.offset \/ g.offset + 4 <= got[i].offset
    <3>1. PICK j \in 1 .. n : FromElf(got[i], elf[j])
      BY <1>6, <2>4
    <3>2. got[i].offset = elf[j].offset /\ elf[j].alloc
      BY <3>1 DEF FromElf, Pointer
    <3>3. elf \in Elfs /\ n + 1 \in DOMAIN elf /\ j \in 1 .. (n + 1) - 1
      BY <1>1, <1>6 DEF TypeOK
    <3>4. \/ elf[n + 1].offset >= elf[j].offset + 4
          \/ elf[j].offset >= elf[n + 1].offset + 4
      BY <1>1, <2>3, <3>2, <3>3, RelocationAssumption
    <3>5. elf[j].offset \in Nat
      <4>1. j \in 1 .. Len(elf) /\ elf \in Seq(Entry)
        BY <1>1 DEF TypeOK
      <4>2. elf[j] \in Entry
        BY <4>1
      <4> QED
        BY <4>2 DEF Entry
    <3> QED
      BY <1>1, <2>3, <2>8, <3>2, <3>4, <3>5
  <2>10. ASSUME NEW i \in 1 .. m + 1, NEW k \in 1 .. m + 1, i < k
         PROVE  got'[i].offset + 4 <= got'[k].offset \/ got'[k].offset + 4 <= got'[i].offset
    <3>1. i \in 1 .. m
      BY <2>10
    <3>2. CASE k \in 1 .. m
      BY <1>6, <2>4, <2>10, <3>1, <3>2 DEF FourApart
    <3>3. CASE k = m + 1
      BY <2>4, <2>9, <3>1, <3>3
    <3> QED
      BY <2>5, <3>2, <3>3
  <2>11. FourApart(got)'
    BY <2>4, <2>10 DEF FourApart
  <2>12. \A i \in 1 .. m + 1 : got'[i].offset % 2 = 0
    BY <1>6, <2>3, <2>4, <2>5, <2>8
  <2> QED
    BY <1>0, <1>2, <1>3, <1>6, <2>4, <2>6, <2>7, <2>11, <2>12 DEF Kept
<1> QED
  BY <1>7, <1>8

(* The relocations that are kept go into the table side by side. *)
LEMMA KeptFits ==
  ASSUME TypeOK, tool \in Converter, Kept, InImage
  PROVE  /\ Disjoint(got) /\ Fits(got)
         /\ \A k \in 1 .. Len(got) : got[k] \in Reloc /\ got[k].size = 32 /\ got[k].offset % 2 = 0
<1>1. ASSUME NEW k \in 1 .. Len(got)
      PROVE  /\ got[k] \in Reloc /\ got[k].size = 32 /\ got[k].offset % 2 = 0 /\ InTable(got[k])
             /\ got[k].offset \in Nat
             /\ TypeWord(got[k]) = got[k].offset \div 2 + 2
             /\ FirstWord(got[k]) = got[k].offset \div 2 + 1
  <2>1. got[k] \in Reloc /\ got[k].offset % 2 = 0 /\ k \in DOMAIN got
    BY DEF TypeOK, Kept
  <2>2. got[k].size = 32
    BY DEF Kept, FromElf
  <2>3. InTable(got[k])
    BY <2>1 DEF InImage
  <2> QED
    BY <2>1, <2>2, <2>3 DEF Reloc, TypeWord, FirstWord
<1>2. ASSUME NEW k \in 1 .. Len(got), NEW l \in 1 .. Len(got), k # l
      PROVE  TypeWord(got[k]) # TypeWord(got[l]) /\ FirstWord(got[k]) # TypeWord(got[l])
  <2>1. PICK a \in Nat, b \in Nat :
          /\ a = got[k].offset \div 2 /\ b = got[l].offset \div 2
          /\ got[k].offset = 2 * a /\ got[l].offset = 2 * b
    <3>1. /\ got[k].offset \in Nat /\ got[k].offset % 2 = 0
          /\ got[l].offset \in Nat /\ got[l].offset % 2 = 0
      BY <1>1
    <3>2. /\ got[k].offset \div 2 \in Nat /\ got[k].offset = 2 * (got[k].offset \div 2)
          /\ got[l].offset \div 2 \in Nat /\ got[l].offset = 2 * (got[l].offset \div 2)
      BY ONLY <3>1
    <3> QED
      BY ONLY <3>2
  <2>2. k < l \/ l < k
    BY <1>2
  <2>3. 2 * a + 4 <= 2 * b \/ 2 * b + 4 <= 2 * a
    BY <2>1, <2>2 DEF Kept, FourApart
  <2>4. a + 2 <= b \/ b + 2 <= a
    BY ONLY <2>3, a \in Nat, b \in Nat
  <2>5. a + 2 # b + 2 /\ a + 1 # b + 2
    BY ONLY <2>4, a \in Nat, b \in Nat
  <2>6. TypeWord(got[k]) = a + 2 /\ FirstWord(got[k]) = a + 1 /\ TypeWord(got[l]) = b + 2
    BY <1>1, <2>1
  <2> QED
    BY ONLY <2>5, <2>6
<1> QED
  BY <1>1, <1>2 DEF Disjoint, Fits

LEMMA GapIs ==
  ASSUME NEW next \in Nat, NEW l \in Nat, l = Len(table)
  PROVE  /\ Gap(next) \in Nat
         /\ 2 * l <= next /\ next <= Size /\ next % 2 = 0 => next = 2 * (l + Gap(next))
<1>1. UInt32 \in Nat /\ UInt32 > 0 /\ Size < UInt32 /\ Size \in Nat
  BY RelocationAssumption, WordsIs
<1>2. Gap(next) \in Nat
  BY <1>1 DEF Gap
<1>3. ASSUME 2 * l <= next, next <= Size, next % 2 = 0 PROVE next = 2 * (l + Gap(next))
  <2>1. PICK m \in Nat : next = 2 * m
    BY <1>3
  <2>2. next - 2 * l \in 0 .. UInt32 - 1
    BY <1>1, <1>3
  <2>3. (next - 2 * l) % UInt32 = next - 2 * l
    BY <1>1, <2>2
  <2>4. next - 2 * l = 2 * (m - l)
    BY <2>1
  <2>5. (2 * (m - l)) \div 2 = m - l
    OBVIOUS
  <2>6. Gap(next) = m - l
    BY <2>3, <2>4, <2>5 DEF Gap
  <2> QED
    BY <2>1, <2>6
<1> QED
  BY <1>2, <1>3

LEMMA WritingMore ==
  ASSUME TypeOK, tool \in Converter, Kept, Writing, WriteReloc
  PROVE  Writing' /\ table' \in Table
<1>1. /\ phase = "write" /\ phase' = phase /\ tool' = tool /\ got' = got /\ at' = at + 1
      /\ tool = "elf2cpm68k" /\ Sorted /\ at \in 0 .. Len(got) /\ at < Len(got)
  BY DEF WriteReloc, Writing
<1>2. PICK n \in Nat, l \in Nat, r \in Reloc :
        /\ n = at /\ l = Len(table) /\ r = got[n + 1] /\ n \in 0 .. Len(got) - 1
        /\ n + 1 \in 1 .. Len(got)
  <2>1. got \in Seq(Reloc) /\ Len(got) \in Nat /\ Len(table) \in Nat
    BY DEF TypeOK
  <2>2. at \in Nat /\ at \in 0 .. Len(got) - 1 /\ at + 1 \in 1 .. Len(got)
    BY <1>1, <2>1
  <2>3. got[at + 1] \in Reloc
    BY <2>1, <2>2
  <2> QED
    BY <2>1, <2>2, <2>3
<1>3. table \in Table /\ got \in Seq(Reloc)
  BY DEF TypeOK, Table
<1>4. table' = (table \o Zeros(Gap(r.offset))) \o <<UPPER, r.type>>
  BY <1>1, <1>2 DEF WriteReloc
<1>5. r.offset \in Nat /\ r.type \in 0 .. 7
  BY DEF Reloc, Segment, DATA, TEXT, BSS
<1>6. PICK g \in Nat : g = Gap(r.offset)
  BY <1>2, <1>5, GapIs
<1>7. table' \in Table
  BY <1>3, <1>4, <1>5, <1>6, ZerosBehind, PointerBehind
<1>8. ASSUME InImage
      PROVE  /\ Holds(table', got, n + 1)
             /\ \A k \in 1 .. n + 1 : got[k].offset + 4 <= 2 * Len(table')
             /\ 2 * Len(table') = r.offset + 4
  <2>1. \A k \in 1 .. Len(got) : got[k] \in Reloc /\ got[k].size = 32 /\ got[k].offset % 2 = 0
    BY <1>8, KeptFits
  <2>2. /\ Holds(table, got, n) /\ \A k \in 1 .. n : got[k].offset + 4 <= 2 * l
        /\ 2 * l = IF n = 0 THEN 0 ELSE got[n].offset + 4
    BY <1>1, <1>2, <1>8 DEF Writing
  <2>3. 2 * l <= r.offset
    <3>1. CASE n = 0
      BY <1>5, <2>2, <3>1
    <3>2. CASE n # 0
      <4>1. n \in 1 .. Len(got) /\ n + 1 \in 2 .. Len(got) /\ (n + 1) - 1 = n /\ n < n + 1
        BY <1>2, <3>2
      <4>2. got[n].offset <= r.offset
        BY <1>1, <1>2, <4>1 DEF Sorted
      <4>3. got[n].offset + 4 <= r.offset \/ r.offset + 4 <= got[n].offset
        BY <1>2, <4>1 DEF Kept, FourApart
      <4>4. got[n].offset \in Nat
        BY <2>1, <4>1 DEF Reloc
      <4>5. 2 * l = got[n].offset + 4
        BY <2>2, <3>2
      <4> QED
        BY ONLY <1>5, <4>2, <4>3, <4>4, <4>5
    <3> QED
      BY <3>1, <3>2
  <2>4. r.offset % 2 = 0 /\ r.size = 32 /\ InTable(r)
    <3>1. n + 1 \in DOMAIN got
      BY <1>2, <1>3
    <3> QED
      BY <1>2, <1>8, <2>1, <3>1 DEF InImage
  <2>5. r.offset <= Size
    BY <1>5, <2>4, WordsIs DEF InTable
  <2>6. r.offset = 2 * (l + g)
    BY <1>2, <1>5, <1>6, <2>3, <2>4, <2>5, GapIs
  <2>7. \A k \in 1 .. n + 1 : got[k].size = 32 /\ got[k].offset % 2 = 0
    BY <1>2, <2>1
  <2>8. /\ Len(table') = Len(table) + g + 2
        /\ Holds(table', got, n + 1)
        /\ \A k \in 1 .. n + 1 : got[k].offset + 4 <= 2 * Len(table')
    <3>1. /\ table' = (table \o Zeros(g)) \o <<UPPER, got[n + 1].type>>
          /\ got[n + 1].offset = 2 * (Len(table) + g)
          /\ \A k \in 1 .. n : got[k].offset + 4 <= 2 * Len(table)
          /\ Holds(table, got, n)
      BY <1>2, <1>4, <1>6, <2>2, <2>6
    <3> QED
      BY ONLY <1>2, <1>3, <2>7, <3>1, g \in Nat, HoldsBehind
  <2>9. 2 * Len(table') = r.offset + 4
    BY <1>2, <2>6, <2>8
  <2> QED
    BY <2>8, <2>9
<1>9. Sorted' /\ (InImage' <=> InImage)
  BY <1>1 DEF Sorted, InImage
<1>10. at' \in 0 .. Len(got') /\ at' = n + 1 /\ at' # 0
  BY <1>1, <1>2
<1> QED
  BY <1>1, <1>2, <1>7, <1>8, <1>9, <1>10 DEF Writing

LEMMA Filled ==
  ASSUME TypeOK, tool \in Converter, Kept, Writing, PadToEnd
  PROVE  Whole' /\ table' \in Table
<1>1. /\ phase = "write" /\ phase' = "written" /\ tool' = tool /\ got' = got
      /\ at = Len(got) /\ table' = table \o Zeros(Gap(Size))
  BY DEF PadToEnd
<1>2. table \in Table /\ Len(table) \in Nat /\ got \in Seq(Reloc) /\ Len(got) \in Nat
  BY DEF TypeOK, Table
<1>3. PICK l \in Nat, g \in Nat : l = Len(table) /\ g = Gap(Size)
  BY <1>2, WordsIs, GapIs
<1>4. table' \in Table /\ Len(table') = l + g
  BY <1>1, <1>2, <1>3, ZerosBehind
<1>5. ASSUME InImage, got # <<>>
      PROVE  Len(table') = Words /\ Holds(table', got, Len(got))
  <2>1. \A k \in 1 .. Len(got) : got[k] \in Reloc /\ got[k].size = 32 /\ got[k].offset % 2 = 0
    BY <1>5, KeptFits
  <2>2. Len(got) # 0 /\ Len(got) \in DOMAIN got
    BY <1>2, <1>5
  <2>3. /\ Holds(table, got, Len(got)) /\ 2 * l = got[Len(got)].offset + 4
        /\ \A k \in 1 .. Len(got) : got[k].offset + 4 <= 2 * Len(table)
    BY <1>1, <1>3, <1>5, <2>2 DEF Writing
  <2>4. PICK r \in Reloc : r = got[Len(got)] /\ r.size = 32 /\ InTable(r)
    BY <1>2, <1>5, <2>1, <2>2 DEF InImage
  <2>5. 2 * l <= Size
    BY <2>3, <2>4 DEF InTable
  <2>6. Size = 2 * (l + g)
    <3>1. Size \in Nat /\ Size <= Size /\ Size % 2 = 0
      BY WordsIs, RelocationAssumption
    <3> QED
      BY ONLY <1>3, <2>5, <3>1, GapIs
  <2>7. Words = l + g
    BY <2>6, WordsIs
  <2>8. Holds(table \o Zeros(g), got, Len(got))
    <3>1. Len(got) \in 0 .. Len(got)
      BY <1>2
    <3> QED
      BY ONLY <1>2, <2>1, <2>3, <3>1, g \in Nat, HoldsPadded
  <2> QED
    BY <1>1, <1>3, <1>4, <2>7, <2>8
<1>6. InImage' <=> InImage
  BY <1>1 DEF InImage
<1> QED
  BY <1>1, <1>4, <1>5, <1>6 DEF Whole

(* Nothing is read of an empty table. *)
LEMMA NothingRead == Decode(<<>>).relocs = <<>>
<1>1. <<>> \in Table /\ Len(<<>>) = 0
  BY DEF Table
<1> QED
  BY <1>1, DecodingIs, DecodeIsDecoding

LEMMA SavedTable ==
  ASSUME NEW rs \in Seq(Reloc)
  PROVE  (IF rs = <<>> THEN <<>> ELSE Encode(rs)) \in Table
<1>1. Encode(rs) \in Image
  BY EncodingIs, EncodeIsEncoding
<1> QED
  BY <1>1, ImageIs DEF Table

LEMMA SavePyKeeps ==
  ASSUME TypeOK, tool \in Converter, Kept, SavePy, phase' # "error"
  PROVE  Whole' /\ table' \in Table
<1>1. /\ \A j \in DOMAIN got : InTable(got[j])
      /\ got' = got /\ table' = IF got = <<>> THEN <<>> ELSE Encode(got)
  BY DEF SavePy, Saved, Stop
<1>2. got \in Seq(Reloc)
  BY DEF TypeOK
<1>3. InImage
  BY <1>1 DEF InImage
<1>4. Disjoint(got) /\ Fits(got)
  BY <1>3, KeptFits
<1>5. Encode(got) \in Image /\ Holds(Encode(got), got, Len(got))
  BY <1>2, <1>4, Encoded
<1>6. Len(Encode(got)) = Words
  BY <1>5, ImageIs
<1>7. table' \in Table
  BY <1>1, <1>2, SavedTable
<1> QED
  BY <1>1, <1>5, <1>6, <1>7 DEF Whole

-----------------------------------------------------------------------------
LEMMA RelocInit == Init => RelocInv
<1> SUFFICES ASSUME Init PROVE RelocInv
  OBVIOUS
<1>1. at = 0 /\ got = <<>> /\ loaded = <<>> /\ got \in Seq(Reloc) /\ Len(got) = 0
  BY DEF Init
<1>2. CASE tool \in Converter
  <2>1. elf \in Elfs /\ phase = "scan" /\ table = <<>> /\ elf \in Seq(Entry) /\ Len(elf) \in Nat
    BY <1>2, RelocationAssumption DEF Init, Converter
  <2>2. TypeOK /\ InArray
    BY <1>1, <1>2, <2>1, RelocationAssumption DEF TypeOK, InArray
  <2>3. Kept
    BY <1>1, <2>1 DEF Kept, FourApart, Through
  <2>4. Scanning /\ Writing /\ Whole /\ ReadBack
    BY <1>1, <2>1 DEF Scanning, Writing, Whole, ReadBack, SavedAsLoaded
  <2> QED
    BY <1>2, <2>2, <2>3, <2>4 DEF RelocInv, Converter
<1>3. CASE tool = "other"
  <2>1. elf = <<>> /\ phase = "written" /\ table \in Seq(0 .. 7)
    BY <1>3, RelocationAssumption DEF Init, Converter
  <2>2. TypeOK /\ InArray
    BY <1>1, <1>3, <2>1 DEF TypeOK, InArray
  <2> QED
    BY <1>1, <1>3, <2>1, <2>2 DEF RelocInv, ReadBack, SavedAsLoaded, Converter
<1> QED
  BY <1>2, <1>3 DEF Init

LEMMA RelocIdle == RelocInv /\ UNCHANGED vars => RelocInv'
<1> SUFFICES ASSUME RelocInv, UNCHANGED vars PROVE RelocInv'
  OBVIOUS
<1>1. tool' = tool /\ elf' = elf /\ phase' = phase /\ at' = at /\ got' = got /\ table' = table
      /\ loaded' = loaded
  BY DEF vars
<1>2. TypeOK' /\ InArray' /\ ReadBack'
  BY <1>1 DEF RelocInv, TypeOK, InArray, ReadBack, HasRelocs, SavedAsLoaded
<1>3. tool \in Converter => Kept' /\ Scanning' /\ Writing' /\ Whole'
  BY <1>1 DEF RelocInv, Kept, FourApart, Through, FromElf, WeakAtZero, SegmentOf, Scanning,
              Writing, Sorted, InImage, Whole
<1> QED
  BY <1>1, <1>2, <1>3 DEF RelocInv

(* A tool that stops leaves everything as it is. *)
LEMMA RelocStop == RelocInv /\ Stop => RelocInv'
<1> SUFFICES ASSUME RelocInv, Stop PROVE RelocInv'
  OBVIOUS
<1>1. tool' = tool /\ elf' = elf /\ phase' = "error" /\ at' = at /\ got' = got /\ table' = table
      /\ loaded' = loaded
  BY DEF Stop
<1>2. TypeOK' /\ InArray' /\ ReadBack'
  BY <1>1 DEF RelocInv, TypeOK, InArray, ReadBack, SavedAsLoaded
<1>3. ASSUME tool \in Converter PROVE Kept'
  <2>1. Len(elf) \in Nat /\ Kept /\ Through' = Len(elf)
    BY <1>1, <1>3 DEF RelocInv, TypeOK, InArray, Through
  <2>2. Through \in Nat /\ Through <= Len(elf)
    BY <1>3, <2>1 DEF RelocInv, Scanning, Through
  <2> QED
    BY <1>1, <2>1, <2>2, KeptOn
<1>4. Scanning' /\ Writing' /\ Whole'
  BY <1>1 DEF Scanning, Writing, Whole
<1> QED
  BY <1>1, <1>2, <1>3, <1>4 DEF RelocInv

LEMMA RelocScan == RelocInv /\ Scan => RelocInv'
<1> SUFFICES ASSUME RelocInv, Scan PROVE RelocInv'
  OBVIOUS
<1>1. /\ TypeOK /\ InArray /\ tool \in Converter /\ phase = "scan" /\ at < Len(elf) /\ Kept /\ Scanning
      /\ tool # "other"
  BY DEF RelocInv, Scan, Converter
<1>2. CASE Stop
  BY <1>2, RelocStop
<1>3. CASE ~Stop
  <2>1. /\ tool' = tool /\ elf' = elf /\ phase' = phase /\ table' = table /\ loaded' = loaded
        /\ at' = at + 1
        /\ \/ got' = got
           \/ /\ got' = Append(got, [offset |-> elf[at + 1].offset,
                                     type |-> SegmentOf(elf[at + 1].target), size |-> 32])
              /\ Takes(elf[at + 1])
    BY <1>1, <1>3 DEF Scan
  <2>2. Len(elf) \in Nat /\ at \in 0 .. Len(elf) /\ at + 1 \in 0 .. Len(elf) /\ elf[at + 1] \in Entry
    BY <1>1 DEF Scanning, TypeOK, InArray
  <2>3. got' \in Seq(Reloc) /\ (tool' = "elf2cpm68k" => Len(got') < MAX_RELOCS)
    <3>1. CASE got' = got
      BY <2>1, <3>1, <1>1 DEF TypeOK, InArray
    <3>2. CASE got' # got
      <4> DEFINE g == [offset |-> elf[at + 1].offset, type |-> SegmentOf(elf[at + 1].target),
                       size |-> 32]
      <4>1. elf[at + 1].offset \in Nat
        BY <2>2 DEF Entry
      <4>2. g \in Reloc
        BY <4>1, SegmentOfIs DEF Reloc
      <4>3. got' = Append(got, g) /\ Takes(elf[at + 1])
        BY <2>1, <3>2
      <4>4. got \in Seq(Reloc) /\ Len(got) \in Nat
        BY <1>1 DEF TypeOK, InArray
      <4> HIDE DEF g
      <4>5. got' \in Seq(Reloc) /\ Len(got') = Len(got) + 1
        BY <4>2, <4>3, <4>4
      <4>6. tool = "elf2cpm68k" => ~(Len(got) + 1 >= MAX_RELOCS)
        BY <4>3 DEF Takes, TakesC, Full
      <4>7. MAX_RELOCS \in Nat
        BY RelocationAssumption
      <4> QED
        BY <2>1, <4>4, <4>5, <4>6, <4>7
    <3> QED
      BY <3>1, <3>2
  <2>4. TypeOK' /\ InArray'
    BY <1>1, <2>1, <2>3 DEF TypeOK, InArray
  <2>5. Kept'
    BY <1>1, <2>1, KeptScan
  <2>6. Scanning' /\ Writing' /\ Whole' /\ ReadBack'
    BY <1>1, <2>1, <2>2 DEF Scanning, Writing, Whole, ReadBack, SavedAsLoaded
  <2> QED
    BY <1>1, <2>1, <2>4, <2>5, <2>6 DEF RelocInv
<1> QED
  BY <1>2, <1>3

LEMMA RelocCheckSorted == RelocInv /\ CheckSorted => RelocInv'
<1> SUFFICES ASSUME RelocInv, CheckSorted PROVE RelocInv'
  OBVIOUS
<1>1. /\ TypeOK /\ InArray /\ tool \in Converter /\ phase = "scan" /\ at = Len(elf) /\ Kept /\ Scanning
      /\ tool = "elf2cpm68k" /\ Len(elf) \in Nat
  BY DEF RelocInv, CheckSorted, Converter, TypeOK, InArray
<1>2. CASE Stop
  BY <1>2, RelocStop
<1>3. CASE ~Stop
  <2>1. /\ tool' = tool /\ elf' = elf /\ phase' = "write" /\ table' = table /\ loaded' = loaded
        /\ at' = 0 /\ got' = got /\ Sorted
    BY <1>3 DEF CheckSorted
  <2>2. TypeOK' /\ InArray'
    BY <1>1, <2>1 DEF TypeOK, InArray
  <2>3. Kept'
    <3>1. Through = Len(elf) /\ Through' = Len(elf)
      BY <1>1, <2>1 DEF Through
    <3> QED
      BY <1>1, <2>1, <3>1, KeptOn
  <2>4. Writing'
    <3>1. table' = <<>> /\ Len(table') = 0 /\ Len(got') \in Nat
      BY <1>1, <2>1 DEF Scanning, TypeOK, InArray
    <3>2. Holds(table', got', 0)
      BY <3>1 DEF Holds
    <3>3. Sorted'
      BY <2>1 DEF Sorted
    <3>4. at' \in 0 .. Len(got')
      BY <2>1, <3>1
    <3>5. 2 * Len(table') = 0
      BY <3>1
    <3> QED
      BY <1>1, <2>1, <3>2, <3>3, <3>4, <3>5 DEF Writing
  <2>5. Scanning' /\ Whole' /\ ReadBack'
    BY <2>1 DEF Scanning, Whole, ReadBack, SavedAsLoaded
  <2> QED
    BY <1>1, <2>1, <2>2, <2>3, <2>4, <2>5 DEF RelocInv
<1> QED
  BY <1>2, <1>3

LEMMA RelocWriteReloc == RelocInv /\ WriteReloc => RelocInv'
<1> SUFFICES ASSUME RelocInv, WriteReloc PROVE RelocInv'
  OBVIOUS
<1>1. /\ phase = "write" /\ phase' = phase /\ tool' = tool /\ elf' = elf /\ got' = got
      /\ loaded' = loaded
  BY DEF WriteReloc
<1>2. TypeOK /\ InArray /\ tool \in Converter /\ Kept /\ Writing /\ tool # "other"
  BY <1>1 DEF RelocInv, TypeOK, InArray, Converter
<1>3. Writing' /\ table' \in Seq(0 .. 7)
  BY <1>2, WritingMore DEF Table
<1>4. TypeOK' /\ InArray'
  BY <1>1, <1>2, <1>3 DEF TypeOK, InArray
<1>5. Kept'
  <2>1. Through = Len(elf) /\ Through' = Len(elf) /\ Len(elf) \in Nat
    BY <1>1, <1>2 DEF Through, TypeOK, InArray
  <2> QED
    BY <1>1, <1>2, <2>1, KeptOn
<1>6. Scanning' /\ Whole' /\ ReadBack'
  BY <1>1 DEF Scanning, Whole, ReadBack, SavedAsLoaded
<1> QED
  BY <1>1, <1>2, <1>3, <1>4, <1>5, <1>6 DEF RelocInv

LEMMA RelocPadToEnd == RelocInv /\ PadToEnd => RelocInv'
<1> SUFFICES ASSUME RelocInv, PadToEnd PROVE RelocInv'
  OBVIOUS
<1>1. /\ phase = "write" /\ phase' = "written" /\ tool' = tool /\ elf' = elf /\ got' = got
      /\ loaded' = loaded
  BY DEF PadToEnd
<1>2. TypeOK /\ InArray /\ tool \in Converter /\ Kept /\ Writing /\ tool # "other"
  BY <1>1 DEF RelocInv, TypeOK, InArray, Converter
<1>3. Whole' /\ table' \in Seq(0 .. 7)
  BY <1>2, Filled DEF Table
<1>4. TypeOK' /\ InArray'
  BY <1>1, <1>2, <1>3 DEF TypeOK, InArray
<1>5. Kept'
  <2>1. Through = Len(elf) /\ Through' = Len(elf) /\ Len(elf) \in Nat
    BY <1>1, <1>2 DEF Through, TypeOK, InArray
  <2> QED
    BY <1>1, <1>2, <2>1, KeptOn
<1>6. Scanning' /\ Writing' /\ ReadBack'
  BY <1>1 DEF Scanning, Writing, ReadBack, SavedAsLoaded
<1> QED
  BY <1>1, <1>2, <1>3, <1>4, <1>5, <1>6 DEF RelocInv

LEMMA RelocSavePy == RelocInv /\ SavePy => RelocInv'
<1> SUFFICES ASSUME RelocInv, SavePy PROVE RelocInv'
  OBVIOUS
<1>1. /\ TypeOK /\ InArray /\ tool \in Converter /\ phase = "scan" /\ at = Len(elf) /\ Kept
      /\ tool # "other" /\ Len(elf) \in Nat
  BY DEF RelocInv, SavePy, Converter, TypeOK, InArray
<1>2. CASE Stop
  BY <1>2, RelocStop
<1>3. CASE ~Stop
  <2>1. /\ tool' = tool /\ elf' = elf /\ phase' = "written" /\ at' = at /\ got' = got
        /\ loaded' = loaded
    BY <1>3 DEF SavePy, Saved
  <2>2. Whole' /\ table' \in Seq(0 .. 7)
    BY <1>1, <2>1, SavePyKeeps DEF Table
  <2>3. TypeOK' /\ InArray'
    BY <1>1, <2>1, <2>2 DEF TypeOK, InArray
  <2>4. Kept'
    <3>1. Through = Len(elf) /\ Through' = Len(elf)
      BY <1>1, <2>1 DEF Through
    <3> QED
      BY <1>1, <2>1, <3>1, KeptOn
  <2>5. Scanning' /\ Writing' /\ ReadBack'
    BY <2>1 DEF Scanning, Writing, ReadBack, SavedAsLoaded
  <2> QED
    BY <1>1, <2>1, <2>2, <2>3, <2>4, <2>5 DEF RelocInv
<1> QED
  BY <1>2, <1>3

LEMMA RelocLoad == RelocInv /\ Load => RelocInv'
<1> SUFFICES ASSUME RelocInv, Load PROVE RelocInv'
  OBVIOUS
<1>1. TypeOK /\ InArray /\ phase = "written" /\ table \in Table
  BY DEF RelocInv, Load, TypeOK, InArray, Table
<1>2. CASE Stop
  BY <1>2, RelocStop
<1>3. CASE ~Stop
  <2>1. /\ tool' = tool /\ elf' = elf /\ phase' = "loaded" /\ at' = at /\ got' = got /\ table' = table
        /\ \/ ~HasRelocs /\ loaded' = <<>>
           \/ /\ HasRelocs
              /\ 2 * Len(table) >= Size /\ loaded' = Decode(SubSeq(table, 1, Words)).relocs
    BY <1>3 DEF Load, Words
  <2>2. 2 * Len(table) >= Size => Words <= Len(table) /\ SubSeq(table, 1, Words) \in Table
    <3>1. Len(table) \in Nat
      BY <1>1 DEF Table
    <3>2. 2 * Len(table) >= Size => Words <= Len(table)
      BY <3>1, WordsIs
    <3>3. Words <= Len(table) => SubSeq(table, 1, Words) \in Seq(0 .. 7)
      BY <1>1, <3>1, WordsIs DEF Table
    <3> QED
      BY <3>2, <3>3 DEF Table
  <2>3. loaded' \in Seq(Reloc)
    <3>1. CASE loaded' = <<>>
      BY <3>1
    <3>2. CASE loaded' # <<>>
      <4>1. SubSeq(table, 1, Words) \in Table /\ loaded' = Decode(SubSeq(table, 1, Words)).relocs
        BY <2>1, <2>2, <3>2
      <4> QED
        BY <4>1, Decoded
    <3> QED
      BY <3>1, <3>2
  <2>4. TypeOK' /\ InArray'
    BY <1>1, <2>1, <2>3 DEF TypeOK, InArray
  <2>5. ReadBack'
    BY <2>1, <2>2 DEF ReadBack, HasRelocs, SavedAsLoaded
  <2>6. ASSUME tool \in Converter PROVE Kept'
    <3>1. Through = Len(elf) /\ Through' = Len(elf) /\ Len(elf) \in Nat
      BY <1>1, <2>1 DEF Through, TypeOK, InArray
    <3> QED
      BY <1>1, <2>1, <2>6, <3>1, KeptOn DEF RelocInv
  <2>7. tool \in Converter => Scanning' /\ Writing' /\ Whole'
    BY <1>1, <2>1 DEF RelocInv, Scanning, Writing, Whole, InImage
  <2> QED
    BY <2>1, <2>4, <2>5, <2>6, <2>7 DEF RelocInv
<1> QED
  BY <1>2, <1>3

LEMMA RelocSave == RelocInv /\ Save => RelocInv'
<1> SUFFICES ASSUME RelocInv, Save PROVE RelocInv'
  OBVIOUS
<1>1. /\ TypeOK /\ InArray /\ phase = "loaded" /\ phase' = "saved"
      /\ table \in Table /\ loaded \in Seq(Reloc)
      /\ tool' = tool /\ elf' = elf /\ at' = at /\ got' = got /\ loaded' = loaded
      /\ table' = IF loaded = <<>> THEN <<>> ELSE Encode(loaded)
  BY DEF RelocInv, Save, Saved, TypeOK, InArray, Table
<1>2. table' \in Seq(0 .. 7)
  BY <1>1, SavedTable DEF Table
<1>3. TypeOK' /\ InArray'
  BY <1>1, <1>2 DEF TypeOK, InArray
<1>4. Decode(table').relocs = loaded
  <2>1. CASE loaded = <<>>
    BY <1>1, <2>1, NothingRead
  <2>2. CASE loaded # <<>>
    <3>1. Words <= Len(table) /\ loaded = Decode(SubSeq(table, 1, Words)).relocs
      BY <1>1, <2>2 DEF RelocInv, ReadBack
    <3>2. Len(table) \in Nat /\ table \in Seq(0 .. 7)
      BY <1>1 DEF Table
    <3>3. SubSeq(table, 1, Words) \in Seq(0 .. 7) /\ Len(SubSeq(table, 1, Words)) = Words
      BY <3>1, <3>2, WordsIs
    <3>4. table' = Encode(loaded)
      BY <1>1, <2>2
    <3> QED
      BY <3>1, <3>3, <3>4, ReadAgain DEF Table
  <2> QED
    BY <2>1, <2>2
<1>5. ReadBack'
  BY <1>1, <1>4 DEF ReadBack, SavedAsLoaded
<1>6. ASSUME tool \in Converter PROVE Kept'
  <2>1. Through = Len(elf) /\ Through' = Len(elf) /\ Len(elf) \in Nat
    BY <1>1 DEF Through, TypeOK, InArray
  <2> QED
    BY <1>1, <1>6, <2>1, KeptOn DEF RelocInv
<1>7. Scanning' /\ Writing' /\ Whole'
  BY <1>1 DEF Scanning, Writing, Whole
<1> QED
  BY <1>1, <1>3, <1>5, <1>6, <1>7 DEF RelocInv

LEMMA RelocNext == RelocInv /\ [Next]_vars => RelocInv'
BY RelocScan, RelocCheckSorted, RelocWriteReloc, RelocPadToEnd, RelocSavePy, RelocLoad, RelocSave,
   RelocIdle DEF Next

LEMMA RelocAlways == Spec => []RelocInv
BY RelocInit, RelocNext, PTL DEF Spec

-----------------------------------------------------------------------------
(* What the invariant says. *)

LEMMA TableIsFull == RelocInv => TableFills
<1> SUFFICES ASSUME RelocInv, phase = "written", got # <<>>, InImage
             PROVE  2 * Len(table) = Size
  BY DEF TableFills
<1>1. Whole
  BY DEF RelocInv, TypeOK
<1> QED
  BY <1>1, WordsIs DEF Whole

LEMMA SegmentAround ==
  ASSUME NEW e \in Entry, e.target <= Size + BssSize
  PROVE  SegmentOf(e.target) \in Around(e.target) \/ PastTheText(e)
<1>1. PICK x \in Nat : x = e.target /\ x <= Size + BssSize
  BY DEF Entry
<1>2. /\ TextSize \in Nat /\ DataStart \in Nat /\ DataSize \in Nat /\ BssSize \in Nat
      /\ TextSize <= DataStart /\ Size = DataStart + DataSize
  BY RelocationAssumption DEF Size
<1>3. TEXT \in Segment /\ DATA \in Segment /\ BSS \in Segment /\ TEXT # DATA /\ TEXT # BSS
      /\ DATA # BSS
  BY DEF Segment, TEXT, DATA, BSS
<1>4. CASE x < DataStart
  <2>1. TEXT \in Around(x)
    BY <1>2, <1>3, <1>4 DEF Around
  <2>2. SegmentC(x) = TEXT \/ x \in TextSize .. DataStart - 1
    BY <1>2, <1>4 DEF SegmentC
  <2>3. SegmentPy(x) = TEXT
    BY <1>4 DEF SegmentPy
  <2> QED
    BY <1>1, <2>1, <2>2, <2>3 DEF SegmentOf, PastTheText
<1>5. CASE x \in DataStart .. Size - 1
  <2>1. DATA \in Around(x)
    BY <1>2, <1>3, <1>5 DEF Around
  <2>2. SegmentC(x) = DATA /\ SegmentPy(x) = DATA
    BY <1>2, <1>5 DEF SegmentC, SegmentPy
  <2> QED
    BY <1>1, <2>1, <2>2 DEF SegmentOf
<1>6. CASE x = Size
  <2>1. DATA \in Around(x) /\ BSS \in Around(x)
    BY <1>2, <1>3, <1>6 DEF Around
  <2>2. SegmentC(x) = DATA /\ SegmentPy(x) = BSS
    BY <1>2, <1>6 DEF SegmentC, SegmentPy
  <2> QED
    BY <1>1, <2>1, <2>2 DEF SegmentOf
<1>7. CASE x > Size
  <2>1. BSS \in Around(x)
    BY <1>1, <1>2, <1>3, <1>7 DEF Around
  <2>2. SegmentC(x) = BSS /\ SegmentPy(x) = BSS
    BY <1>2, <1>7 DEF SegmentC, SegmentPy
  <2> QED
    BY <1>1, <2>1, <2>2 DEF SegmentOf
<1> QED
  BY <1>2, <1>4, <1>5, <1>6, <1>7

LEMMA AllMoved == RelocInv => PointersMoved
<1> SUFFICES ASSUME RelocInv, tool # "other", phase = "loaded", InImage
             PROVE  /\ \A i \in DOMAIN loaded :
                         \E j \in DOMAIN elf :
                            /\ Pointer(elf[j]) /\ elf[j].offset = loaded[i].offset
                            /\ tool = "elf2cpm68k" => ~elf[j].undef
                    /\ \A j \in DOMAIN elf : Pointer(elf[j]) /\ ~elf[j].undef /\ ~WeakAtZero(elf[j]) =>
                         \E i \in DOMAIN loaded :
                            /\ loaded[i].offset = elf[j].offset
                            /\ loaded[i].size = 32
                            /\ \/ loaded[i].type \in Around(elf[j].target)
                               \/ PastTheText(elf[j])
  BY DEF PointersMoved
<1>1. TypeOK /\ tool \in Converter /\ Kept /\ Whole /\ ReadBack
  BY DEF RelocInv, TypeOK
<1>2. /\ elf \in Seq(Entry) /\ got \in Seq(Reloc) /\ loaded \in Seq(Reloc) /\ table \in Table
      /\ Through = Len(elf) /\ DOMAIN elf = 1 .. Len(elf) /\ DOMAIN loaded = 1 .. Len(loaded)
  BY <1>1 DEF TypeOK, Table, Through
<1>3. /\ \A i \in 1 .. Len(got) : \E j \in 1 .. Len(elf) : FromElf(got[i], elf[j])
      /\ \A j \in 1 .. Len(elf) : Pointer(elf[j]) /\ ~WeakAtZero(elf[j]) =>
           \E i \in 1 .. Len(got) : FromElf(got[i], elf[j])
  BY <1>1, <1>2 DEF Kept
<1>4. CASE got = <<>>
  <2>1. loaded = <<>>
    BY <1>1, <1>4 DEF ReadBack, HasRelocs, Converter
  <2>2. Len(got) = 0 /\ DOMAIN loaded = {}
    BY <1>4, <2>1
  <2> QED
    BY <1>2, <1>3, <2>2
<1>5. CASE got # <<>>
  <2>1. Len(table) = Words /\ Holds(table, got, Len(got))
    BY <1>1, <1>5 DEF Whole
  <2>2. loaded = Decode(SubSeq(table, 1, Words)).relocs
    BY <1>1, <1>5 DEF ReadBack, HasRelocs
  <2>3. SubSeq(table, 1, Words) = table
    BY <1>2, <2>1 DEF Table
  <2>4. ReadOf(table, loaded, Words)
    BY <1>2, <2>1, <2>2, <2>3, Decoded
  <2>5. UPPER \notin Segment /\ ABSOLUTE \notin Segment
    BY DEF UPPER, ABSOLUTE, Segment, DATA, TEXT, BSS
  <2>6. \A k \in 1 .. Len(got) :
          /\ got[k] \in Reloc /\ got[k].size = 32 /\ got[k].offset % 2 = 0 /\ InTable(got[k])
    BY <1>1, KeptFits DEF Fits
(* A relocation that is loaded is one that was kept. *)
  <2>7. ASSUME NEW i \in 1 .. Len(loaded)
        PROVE  \E k \in 1 .. Len(got) : got[k].offset = loaded[i].offset
    <3>1. PICK j \in 1 .. Words : table[j] \in Segment /\ loaded[i] = RelocAt(table, j)
      BY <2>4 DEF ReadOf
    <3>2. PICK k \in 1 .. Len(got) : PartOf(table, j, got[k])
      BY <2>1, <2>5, <3>1 DEF Holds
    <3>3. j = TypeWord(got[k])
      BY <2>5, <3>1, <3>2 DEF PartOf
    <3>4. PICK f \in Nat : /\ f = FirstWord(got[k]) /\ j = f + 1 /\ f # 0
                           /\ got[k].offset = 2 * (f - 1)
      BY <2>6, <3>3, Places
    <3>5. table[f] = UPPER
      BY <2>1, <2>6, <3>4 DEF Holds, Has
    <3>6. Upper(table, j)
      <4>1. j > 1 /\ j - 1 = f
        BY <3>4
      <4> QED
        BY <3>5, <4>1 DEF Upper
    <3>7. loaded[i].offset = 2 * (j - 2)
      BY <3>1, <3>6 DEF RelocAt
    <3>8. j - 2 = f - 1
      BY <3>4
    <3> QED
      BY <3>4, <3>7, <3>8
(* And the other way round. *)
  <2>8. ASSUME NEW k \in 1 .. Len(got)
        PROVE  \E i \in 1 .. Len(loaded) : loaded[i] = got[k]
    <3>1. PICK j \in 1 .. Words, f \in Nat :
            /\ j = TypeWord(got[k]) /\ f = FirstWord(got[k]) /\ j = f + 1 /\ f # 0
            /\ got[k].offset = 2 * (f - 1)
      <4>1. got[k] \in Reloc /\ got[k].offset % 2 = 0 /\ got[k].size = 32 /\ InTable(got[k])
        BY <2>6
      <4>2. /\ FirstWord(got[k]) \in Nat \ {0} /\ TypeWord(got[k]) \in Nat \ {0}
            /\ got[k].offset = 2 * (FirstWord(got[k]) - 1)
            /\ TypeWord(got[k]) = FirstWord(got[k]) + 1 /\ TypeWord(got[k]) <= Words
        BY ONLY <4>1, Places
      <4>3. TypeWord(got[k]) \in 1 .. Words
        BY <4>2, WordsIs
      <4> QED
        BY <4>2, <4>3
    <3>2. table[f] = UPPER /\ table[j] = got[k].type
      BY <2>1, <2>6, <3>1 DEF Holds, Has
    <3>3. table[j] \in Segment
      BY <2>6, <3>2 DEF Reloc
    <3>4. PICK i \in 1 .. Len(loaded) : loaded[i] = RelocAt(table, j)
      BY <2>4, <3>3 DEF ReadOf
    <3>5. Upper(table, j) /\ j - 2 = f - 1
      <4>1. j > 1 /\ j - 1 = f /\ j - 2 = f - 1
        BY <3>1
      <4> QED
        BY <3>2, <4>1 DEF Upper
    <3>6. loaded[i] = [offset |-> 2 * (f - 1), type |-> got[k].type, size |-> 32]
      BY <3>2, <3>4, <3>5 DEF RelocAt
    <3>7. got[k] = [offset |-> got[k].offset, type |-> got[k].type, size |-> got[k].size]
      BY <2>6 DEF Reloc
    <3> QED
      BY <2>6, <3>1, <3>6, <3>7
  <2>9. ASSUME NEW i \in DOMAIN loaded
        PROVE  \E j \in DOMAIN elf : /\ Pointer(elf[j]) /\ elf[j].offset = loaded[i].offset
                                     /\ tool = "elf2cpm68k" => ~elf[j].undef
    <3>1. PICK k \in 1 .. Len(got) : got[k].offset = loaded[i].offset
      BY <1>2, <2>7
    <3>2. PICK j \in 1 .. Len(elf) : FromElf(got[k], elf[j])
      BY <1>3
    <3>3. tool = "elf2cpm68k" => ~elf[j].undef
      <4>1. elf \in Elfs /\ j \in DOMAIN elf
        BY <1>1, <1>2 DEF Kept
      <4>2. elf[j].undef => elf[j].weak /\ elf[j].target = 0
        BY <4>1, RelocationAssumption
      <4> QED
        BY <3>2, <4>2 DEF FromElf, WeakAtZero
    <3> QED
      BY <1>2, <3>1, <3>2, <3>3 DEF FromElf
  <2>10. ASSUME NEW j \in DOMAIN elf, Pointer(elf[j]), ~WeakAtZero(elf[j])
         PROVE  \E i \in DOMAIN loaded : /\ loaded[i].offset = elf[j].offset
                                         /\ loaded[i].size = 32
                                         /\ \/ loaded[i].type \in Around(elf[j].target)
                                            \/ PastTheText(elf[j])
    <3>1. PICK k \in 1 .. Len(got) : FromElf(got[k], elf[j])
      BY <1>2, <1>3, <2>10
    <3>2. PICK i \in 1 .. Len(loaded) : loaded[i] = got[k]
      BY <2>8
    <3>3. elf[j] \in Entry
      BY <1>2
    <3>4. /\ got[k].offset = elf[j].offset /\ got[k].size = 32
          /\ got[k].type = SegmentOf(elf[j].target) /\ elf[j].target <= Size + BssSize
      BY <3>1 DEF FromElf
    <3> QED
      BY <1>2, <3>2, <3>3, <3>4, SegmentAround
  <2> QED
    BY <2>9, <2>10
<1> QED
  BY <1>4, <1>5

(* Every variable of a conversion keeps its type.                          *)
THEOREM RelocationTypeThm == Spec => []TypeOK
<1>1. RelocInv => TypeOK
  BY DEF RelocInv
<1> QED
  BY <1>1, RelocAlways, PTL

(* elf2cpm68k stays within its array, however many relocations there are   *)
(* (elf2cpm68k.c:312).                                                     *)
THEOREM InArrayThm == Spec => []InArray
<1>1. RelocInv => InArray
  BY DEF RelocInv
<1> QED
  BY <1>1, RelocAlways, PTL

(* The table has a word for every word of text and data, with either       *)
(* converter and whatever is relocated in the image (write_cpm_relocs,     *)
(* CPMFile._encodeRelocs).                                                 *)
THEOREM TableFillsThm == Spec => []TableFills
BY TableIsFull, RelocAlways, PTL

(* What is loaded relocates the pointers of the ELF file and nothing else, *)
(* each against a segment it points into or to the end of, but for what    *)
(* WeakAtZero and PastTheText say of elf2cpm68k, and for the undefined     *)
(* weak symbols elf2cpm.py relocates.                                      *)
THEOREM PointersMovedThm == Spec => []PointersMoved
BY AllMoved, RelocAlways, PTL

(* cpm.py writes back what it has read of any table.                       *)
THEOREM SavedAsLoadedThm == Spec => []SavedAsLoaded
<1>1. RelocInv => SavedAsLoaded
  BY DEF RelocInv, ReadBack
<1> QED
  BY <1>1, RelocAlways, PTL
=============================================================================
