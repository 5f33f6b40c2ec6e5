---------------------------- MODULE Relocation ----------------------------
(***************************************************************************)
(* From the relocations of an ELF executable to those of a CP/M-68K        *)
(* command file: the two converters, elf2cpm68k and elf2cpm.py (with       *)
(* elf.py), and cpm.py, which reads and writes command files.              *)
(*                                                                         *)
(* The relocation table of a command file has one word for every word of   *)
(* text and data: a pointer of 32 bits has UPPER and then the segment it   *)
(* points to, one of 16 bits the segment alone.  Addresses are even, the   *)
(* field a relocation is for holds what the linker says it does, fields do *)
(* not overlap, and what the linker leaves undefined is weak.              *)
(***************************************************************************)
EXTENDS Integers, Sequences

CONSTANTS
  TextSize,    \* bytes of text in the ELF file (text_filesize)
  DataStart,   \* address of the data, after the padding (data_vmaddr)
  DataSize,    \* bytes of data (data_filesize)
  BssSize,     \* bytes of bss behind the data (bss_memsize)
  MAX_RELOCS,  \* places in elf2cpm68k's array (5000)
  MaxProgram,  \* addresses from here on leave no room for the type (2^28)
  UInt32,      \* values of a uint32_t (2^32)
  Elfs,        \* bound: the relocations of the ELF files, sequences of them
  Tables       \* bound: relocation tables of command files made elsewhere

Size == DataStart + DataSize
Kind == {"32", "16", "PC32", "PC16", "NONE"}
Entry == [offset : Nat, target : Nat, kind : Kind, weak : BOOLEAN, undef : BOOLEAN, alloc : BOOLEAN]

ASSUME RelocationAssumption ==
  /\ TextSize \in Nat /\ DataStart \in Nat /\ DataSize \in Nat /\ BssSize \in Nat
  /\ TextSize <= DataStart
  /\ MAX_RELOCS \in Nat \ {0} /\ MaxProgram \in Nat /\ UInt32 \in Nat
  /\ Size % 2 = 0 /\ Size < UInt32
  /\ Elfs \subseteq Seq(Entry) /\ Tables \subseteq Seq(0 .. 7)
  /\ \A e \in Elfs : \A j \in DOMAIN e :
       /\ e[j].offset % 2 = 0
       /\ e[j].undef => e[j].weak /\ e[j].target = 0
       /\ \A k \in 1 .. j - 1 : \/ ~e[j].alloc \/ ~e[k].alloc
                                \/ e[j].offset >= e[k].offset + 4
                                \/ e[k].offset >= e[j].offset + 4

(* The words of a table. *)
ABSOLUTE == 0
DATA == 1
TEXT == 2
BSS == 3
UPPER == 5
INSTRUCTION == 7
Segment == {DATA, TEXT, BSS}
Reloc == [offset : Nat, type : Segment, size : {16, 32}]

VARIABLES tool,   \* who makes the command file
          elf,    \* the relocations of the ELF file
          phase,  \* what the tool is about
          at,     \* how many of them it has been through, or written
          got,    \* the relocations it keeps (rel_data)
          table,  \* the relocation table of the command file
          loaded  \* what cpm.py reads out of it

vars == <<tool, elf, phase, at, got, table, loaded>>

Zeros(n) == [i \in 1 .. n |-> ABSOLUTE]

-----------------------------------------------------------------------------
(* cpm.py: a table to relocations, and back. *)

(* Mutant: a pointer is said to start at its second word. *)
PlaceOf_Second(d) == d.offset

(* Mutant: whatever is relocated is said to have begun a word before. *)
PlaceOf_Always(d) == d.offset - 2

PlaceOf(d) == IF d.upper THEN d.offset - 2 ELSE d.offset

DecodeWord(d, word) ==
  [relocs |-> IF word \notin Segment THEN d.relocs
              ELSE Append(d.relocs, [offset |-> PlaceOf(d), type |-> word,
                                     size |-> IF d.upper THEN 32 ELSE 16]),
   ok     |-> d.ok /\ word \in Segment \cup {ABSOLUTE, INSTRUCTION, UPPER},
   offset |-> d.offset + 2,
   upper  |-> word = UPPER]

Decode(t) ==
  LET D[i \in 0 .. Len(t)] ==
        IF i = 0 THEN [relocs |-> <<>>, ok |-> TRUE, offset |-> 0, upper |-> FALSE]
        ELSE DecodeWord(D[i - 1], t[i])
  IN  D[Len(t)]

(* Mutant: the segment goes where UPPER went. *)
TypeWord_Same(r) == r.offset \div 2 + 1

(* Where in the table the segment of r goes: behind UPPER, if there is one.*)
TypeWord(r) == r.offset \div 2 + (IF r.size = 32 THEN 2 ELSE 1)

InTable(r) == r.offset + (IF r.size = 32 THEN 4 ELSE 2) <= Size

EncodeReloc(t, r) ==
  LET u == IF r.size = 32 THEN [t EXCEPT ![r.offset \div 2 + 1] = UPPER] ELSE t
  IN  [u EXCEPT ![TypeWord(r)] = r.type]

Encode(relocs) ==
  LET E[k \in 0 .. Len(relocs)] ==
        IF k = 0 THEN Zeros(Size \div 2) ELSE EncodeReloc(E[k - 1], relocs[k])
  IN  E[Len(relocs)]

-----------------------------------------------------------------------------
(* elf2cpm68k. *)

NullWeak(r) == r.target = 0 /\ r.weak

(* What the pointer refers to.  What is neither text nor data is bss, the  *)
(* padding between them included.                                          *)
SegmentC(target) == IF target < TextSize THEN TEXT
                    ELSE IF target \in DataStart .. Size THEN DATA
                    ELSE BSS

(* Mutant: the array is taken to be big enough. *)
Full_Never == FALSE

Full == Len(got) + 1 >= MAX_RELOCS

PassesC(r) == ~r.alloc \/ NullWeak(r) \/ r.kind \in {"PC32", "NONE"}
TakesC(r)  == /\ r.kind = "32" /\ ~Full
              /\ r.target <= Size + BssSize
              /\ r.offset < MaxProgram

(* Mutant: the order is not looked at. *)
Sorted_Any == TRUE

(* "relocations not sorted" *)
Sorted == \A j \in 2 .. Len(got) : got[j - 1].offset <= got[j].offset

(* write_cpm_relocs counts the bytes up to the next relocation in unsigned *)
(* arithmetic; current_vma is the bytes of the table written so far.       *)
Gap(next) == ((next - 2 * Len(table)) % UInt32) \div 2

-----------------------------------------------------------------------------
(* elf2cpm.py.  Its text reaches up to the data. *)

SegmentPy(target) == IF target < DataStart THEN TEXT
                     ELSE IF target < Size THEN DATA
                     ELSE BSS

PassesPy(r) == ~r.alloc \/ (r.offset < Size /\ r.kind \in {"PC32", "PC16", "NONE"})
TakesPy(r)  == r.offset < Size /\ r.kind = "32" /\ r.target <= Size + BssSize

-----------------------------------------------------------------------------
(* The steps of a conversion. *)

Stop == phase' = "error" /\ UNCHANGED <<tool, elf, at, got, table, loaded>>

(* What the converter at work does with a relocation. *)
Converter == {"elf2cpm68k", "elf2cpm.py"}
Passes(r) == IF tool = "elf2cpm68k" THEN PassesC(r) ELSE PassesPy(r)
Takes(r)  == IF tool = "elf2cpm68k" THEN TakesC(r) ELSE TakesPy(r)
SegmentOf(target) == IF tool = "elf2cpm68k" THEN SegmentC(target) ELSE SegmentPy(target)

(* One relocation of the ELF file: passed over, kept, or an error. *)
Scan ==
  LET r == elf[at + 1]
  IN  /\ tool \in Converter /\ phase = "scan" /\ at < Len(elf)
      /\ \/ /\ Passes(r)
            /\ at' = at + 1
            /\ UNCHANGED <<tool, elf, phase, got, table, loaded>>
         \/ /\ ~Passes(r) /\ Takes(r)
            /\ got' = Append(got, [offset |-> r.offset, type |-> SegmentOf(r.target),
                                   size |-> 32])
            /\ at' = at + 1
            /\ UNCHANGED <<tool, elf, phase, table, loaded>>
         \/ ~Passes(r) /\ ~Takes(r) /\ Stop

CheckSorted ==
  /\ tool = "elf2cpm68k" /\ phase = "scan" /\ at = Len(elf)
  /\ \/ /\ Sorted
        /\ phase' = "write" /\ at' = 0
        /\ UNCHANGED <<tool, elf, got, table, loaded>>
     \/ ~Sorted /\ Stop

WriteReloc ==
  /\ phase = "write" /\ at < Len(got)
  /\ LET r == got[at + 1]
     IN  table' = table \o Zeros(Gap(r.offset)) \o <<UPPER, r.type>>
  /\ at' = at + 1
  /\ UNCHANGED <<tool, elf, phase, got, loaded>>

(* The table is padded to the end of the data, also when it has nothing. *)
PadToEnd ==
  /\ phase = "write" /\ at = Len(got)
  /\ table' = table \o Zeros(Gap(Size))
  /\ phase' = "written"
  /\ UNCHANGED <<tool, elf, at, got, loaded>>

(* save: no relocations, no table. *)
Saved(relocs) == /\ table' = IF relocs = <<>> THEN <<>> ELSE Encode(relocs)
                 /\ UNCHANGED <<tool, elf, at, got, loaded>>

SavePy ==
  /\ tool = "elf2cpm.py" /\ phase = "scan" /\ at = Len(elf)
  /\ \/ (\A j \in DOMAIN got : InTable(got[j])) /\ phase' = "written" /\ Saved(got)
     \/ (\E j \in DOMAIN got : ~InTable(got[j])) /\ Stop

(* cpm.py reads the file; the header says whether it has relocations. *)
HasRelocs == tool = "other" \/ got # <<>>
Load ==
  LET d == Decode(SubSeq(table, 1, Size \div 2))
  IN  /\ phase = "written"
      /\ \/ /\ ~HasRelocs
            /\ phase' = "loaded" /\ loaded' = <<>>
            /\ UNCHANGED <<tool, elf, at, got, table>>
         \/ /\ HasRelocs /\ 2 * Len(table) >= Size /\ d.ok
            /\ phase' = "loaded" /\ loaded' = d.relocs
            /\ UNCHANGED <<tool, elf, at, got, table>>
         \/ HasRelocs /\ ~(2 * Len(table) >= Size /\ d.ok) /\ Stop

(* And writes what it has read. *)
Save == phase = "loaded" /\ phase' = "saved" /\ Saved(loaded)

Init ==
  /\ at = 0 /\ got = <<>> /\ loaded = <<>>
  /\ \/ /\ tool \in Converter /\ elf \in Elfs
        /\ phase = "scan" /\ table = <<>>
     \/ /\ tool = "other" /\ elf = <<>>
        /\ phase = "written" /\ table \in Tables

Next == \/ Scan
        \/ CheckSorted \/ WriteReloc \/ PadToEnd
        \/ SavePy
        \/ Load \/ Save

Spec == Init /\ [][Next]_vars

-----------------------------------------------------------------------------
(* Properties. *)

(* Every variable keeps its type: what cpm.py reads lies in the image. *)
TypeOK == /\ tool \in Converter \cup {"other"}
          /\ elf \in Seq(Entry) /\ got \in Seq(Reloc) /\ loaded \in Seq(Reloc)
          /\ table \in Seq(0 .. 7)
          /\ phase \in {"scan", "write", "written", "loaded", "saved", "error"}

(* elf2cpm68k.c:312: elf2cpm68k stays within its array. *)
InArray == tool = "elf2cpm68k" => Len(got) < MAX_RELOCS

(* The fields that are relocated lie in the image, as a linker's do.  Only *)
(* elf2cpm.py looks; elf2cpm68k makes a huge table of one that does not.   *)
InImage == \A j \in DOMAIN got : InTable(got[j])

(* The table has a word for every word of text and data: the loader finds  *)
(* it by these sizes (cpm.py:103).  elf2cpm68k fills it up gap by gap, and *)
(* a gap that is negative is a huge number.                                *)
TableFills ==
  phase = "written" /\ got # <<>> /\ InImage => 2 * Len(table) = Size

(* The segments that reach from an address at or below a target to one at  *)
(* or above it: a pointer may be to the end of what it points into.        *)
Around(target) == {s \in Segment :
  CASE s = TEXT -> target <= DataStart
    [] s = DATA -> target \in DataStart .. Size
    [] s = BSS  -> target \in Size .. Size + BssSize}

Pointer(r) == r.alloc /\ r.kind = "32"

(* Where elf2cpm68k does not do what it should: it takes any weak symbol   *)
(* at 0 for an undefined one, also one that is defined there               *)
(* (elf2cpm68k.c:305); and it says of a pointer into the padding behind    *)
(* the text, or to the end of a text that is padded, that it is one into   *)
(* the bss (elf2cpm68k.c:328).                                             *)
WeakAtZero(r)  == tool = "elf2cpm68k" /\ r.weak /\ r.target = 0
PastTheText(r) == tool = "elf2cpm68k" /\ r.target \in TextSize .. DataStart - 1

(* What is loaded relocates the pointers of the ELF file, all of them and  *)
(* nothing else, each against the segment it points into or to the end of; *)
(* where two meet, either will do.  A reference to a weak symbol that is   *)
(* not defined stays null (elf2cpm68k.c:304).  Excepted are elf2cpm68k's   *)
(* pointers to a weak symbol defined at 0, which it does not relocate, and *)
(* the segment of those past the text; and that elf2cpm.py relocates what  *)
(* is undefined too.                                                       *)
PointersMoved ==
  tool # "other" /\ phase = "loaded" /\ InImage =>
    /\ \A i \in DOMAIN loaded :
         \E j \in DOMAIN elf : /\ Pointer(elf[j]) /\ elf[j].offset = loaded[i].offset
                               /\ tool = "elf2cpm68k" => ~elf[j].undef
    /\ \A j \in DOMAIN elf : Pointer(elf[j]) /\ ~elf[j].undef /\ ~WeakAtZero(elf[j]) =>
         \E i \in DOMAIN loaded : /\ loaded[i].offset = elf[j].offset
                                  /\ loaded[i].size = 32
                                  /\ \/ loaded[i].type \in Around(elf[j].target)
                                     \/ PastTheText(elf[j])

(* What cpm.py reads of any command file it writes back: the table it      *)
(* saves is read as the same relocations.                                  *)
SavedAsLoaded == phase = "saved" => Decode(table).relocs = loaded
=============================================================================
