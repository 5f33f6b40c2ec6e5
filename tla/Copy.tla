-------------------------------- MODULE Copy --------------------------------
(***************************************************************************)
(* Two channels at once: a program that copies a file.  It is the binary   *)
(* part of the repository's test program (src/main.c:46-91), with its     *)
(* assertions, over two instances of BinFile: it counts the bytes of a     *)
(* file, looks at its size in three ways, and copies it.                   *)
(*                                                                         *)
(* The test program reads one byte at a time into README.TX2, which may be *)
(* there already.  Here it may also read larger chunks, and write them     *)
(* back into the same file, opened by _open to be written: two buffers and *)
(* two high water marks over one disk.                                     *)
(***************************************************************************)
EXTENDS Integers, Sequences

CONSTANTS SECSIZ, UWord, Byte, None, MaxSector,  \* see Ccb and BinFile
          Chunks,   \* how many bytes the program asks for in a read
          Faults    \* the sets of sectors BDOS may refuse to write during a call

READ  == 0
WRITE == 1

(* What the program asks for, and what Ccb and BinFile assume.             *)
ASSUME CopyAssumption ==
  /\ SECSIZ \in Nat \ {0} /\ UWord \in Nat \ {0} /\ MaxSector \in Nat
  /\ Byte \subseteq Nat /\ 0 \in Byte /\ None \notin Byte
  /\ Chunks \subseteq Nat \ {0}
  /\ \A bad \in Faults : bad \subseteq Nat

VARIABLES pc,      \* what the program does next
          chunk,   \* one of Chunks
          target,  \* "new": to a file just created, "there": to one that
                   \* existed, "same": onto itself
          orig,    \* the sectors of the file when the program started
          count, count2, \* its counters
          buf,     \* what its last read delivered
          sfp, sdisk, sio,  \* fd: CCB, disk and last call
          dfp, ddisk, dio,  \* fd2: the same, ddisk being README.TX2
          refused  \* history: what BDOS was to refuse in the last write

src == <<sfp, sdisk, sio>>
dst == <<dfp, ddisk, dio>>
vars == <<pc, chunk, target, orig, count, count2, buf, src, dst, refused>>

Src == INSTANCE BinFile WITH
         fp <- sfp, disk <- sdisk, io <- sio,
         ReadSizes <- Chunks, Data <- {}, Seeks <- {}, Modes <- {READ, WRITE},
         Stats <- TRUE
New == INSTANCE BinFile WITH
         fp <- dfp, disk <- ddisk, io <- dio,
         ReadSizes <- Chunks, Data <- {}, Seeks <- {}, Modes <- {READ, WRITE},
         Stats <- TRUE
Same == INSTANCE BinFile WITH
         fp <- dfp, disk <- sdisk, io <- dio,
         ReadSizes <- Chunks, Data <- {}, Seeks <- {}, Modes <- {READ, WRITE},
         Stats <- TRUE

-----------------------------------------------------------------------------
(* assert: the program goes on, or is aborted without closing anything.    *)
Assert(ok, next) == pc' = IF ok THEN next ELSE "abort"

KeepSettings == UNCHANGED <<chunk, target, orig>>

(* Steps on fd alone, and on fd2 alone.                                    *)
OnSrc(at) == pc = at /\ KeepSettings /\ UNCHANGED <<dst, refused>>
OnDst(at) == /\ pc = at
             /\ KeepSettings
             /\ UNCHANGED <<sfp, sio>>
             /\ IF target = "same" THEN UNCHANGED ddisk ELSE UNCHANGED sdisk

OpenSource == /\ OnSrc("open")
              /\ Src!Open(READ)
              /\ pc' = "count"
              /\ UNCHANGED <<count, count2, buf>>

(* while (read(fd, ...)) count++; assert(count > 0)                        *)
Count == /\ OnSrc("count")
         /\ Src!Read(chunk, {})
         /\ IF sio'.ret > 0
            THEN pc' = "count" /\ count' = count + sio'.ret
            ELSE Assert(count > 0, "cur") /\ UNCHANGED count
         /\ UNCHANGED <<count2, buf>>

(* loc = lseek(fd, offs, sense); assert(loc == want)                       *)
SeekTo(at, offs, sense, want, next) ==
  /\ OnSrc(at)
  /\ Src!LSeek(offs, sense)
  /\ Assert(sio'.ret = want, next)
  /\ UNCHANGED <<count, count2, buf>>

LookAt == \/ SeekTo("cur", 0, 1, count, "set")
          \/ SeekTo("set", 0, 0, 0, "end")
          \/ SeekTo("end", 0, 2, count, "stat")

(* fstat(fd, &st); assert(st.st_size == count)                             *)
Stat == /\ OnSrc("stat")
        /\ Src!FStat
        /\ Assert(sio'.ret = count, "create")
        /\ UNCHANGED <<count, count2, buf>>

(* open(..., O_RDWR | O_CREAT | O_BINARY) creates a file that is not       *)
(* there.  One that is there it opens to be read, whatever the flags say   *)
(* (open.c:86).                                                            *)
OpenTarget == /\ OnDst("create")
              /\ CASE target = "new"   -> New!Creat
                   [] target = "there" -> New!Open(READ)
                   [] target = "same"  -> Same!Open(WRITE)
              /\ pc' = "rewind"
              /\ UNCHANGED <<count, count2, buf, refused>>

(* lseek(fd, 0, SEEK_SET): what it answers is not looked at. *)
Rewind == /\ OnSrc("rewind")
          /\ Src!LSeek(0, 0)
          /\ pc' = "read"
          /\ UNCHANGED <<count, count2, buf>>

(* while (read(fd, ...)): a read that fails does not end the loop, and     *)
(* leaves the buffer as it was.                                            *)
CopyRead == /\ OnSrc("read")
            /\ Src!Read(chunk, {})
            /\ buf' = IF sio'.ret > 0 THEN sio'.data ELSE buf
            /\ pc' = IF sio'.ret = 0 THEN "told" ELSE "write"
            /\ UNCHANGED <<count, count2>>

(* ret = write(fd2, ...); assert(ret >= 0); count2++                       *)
CopyWrite == /\ OnDst("write")
             /\ \E bad \in Faults :
                  /\ IF target = "same" THEN Same!Write(buf, bad) ELSE New!Write(buf, bad)
                  /\ refused' = bad
             /\ Assert(dio'.ret >= 0, "read")
             /\ count2' = count2 + Len(buf)
             /\ UNCHANGED <<count, buf>>

(* assert(count2 == lseek(fd2, 0, SEEK_CUR)); assert(count2 == count)      *)
Told == /\ OnDst("told")
        /\ IF target = "same" THEN Same!LSeek(0, 1) ELSE New!LSeek(0, 1)
        /\ Assert(count2 = dio'.ret /\ count2 = count, "close2")
        /\ UNCHANGED <<count, count2, buf, refused>>

(* What close answers is not looked at either. *)
CloseTarget == /\ OnDst("close2")
               /\ \E bad \in Faults : IF target = "same" THEN Same!Close(bad) ELSE New!Close(bad)
               /\ pc' = "close"
               /\ UNCHANGED <<count, count2, buf, refused>>

CloseSource == /\ OnSrc("close")
               /\ Src!Close({})
               /\ pc' = "done"
               /\ UNCHANGED <<count, count2, buf>>

-----------------------------------------------------------------------------
Closed == [flags |-> {}, offset |-> 0, sector |-> -1, hiwater |-> 0, buffer |-> Src!Zeros]

(* A file has whole sectors; the program expects README.TXT to have one at *)
(* least.  The bytes of a README.TX2 that is there are never looked at.    *)
Init == /\ pc = "open"
        /\ chunk \in Chunks
        /\ target \in {"new", "there", "same"}
        /\ orig \in UNION {[0 .. n - 1 -> Src!Sector] : n \in 1 .. MaxSector}
        /\ count = 0 /\ count2 = 0 /\ buf = <<>>
        /\ sfp = Closed /\ dfp = Closed
        /\ sdisk = orig
        /\ \E n \in IF target = "there" THEN 0 .. MaxSector ELSE {0} :
             ddisk = [s \in 0 .. n - 1 |-> Src!Zeros]
        /\ sio = [op |-> "none", n |-> 0, ret |-> 0, data |-> <<>>]
        /\ dio = sio
        /\ refused = {}

Next == \/ OpenSource \/ Count \/ LookAt \/ Stat
        \/ OpenTarget \/ Rewind \/ CopyRead \/ CopyWrite \/ Told
        \/ CloseTarget \/ CloseSource

(* The program is the only one that runs, and every call returns.          *)
Spec == Init /\ [][Next]_vars /\ WF_vars(Next)

-----------------------------------------------------------------------------
(* Properties. *)

(* The counters count bytes of the file, the buffer is what a read can     *)
(* deliver, and both CCBs are CCBs.                                        *)
TypeOK == /\ sfp \in Src!FCB /\ dfp \in New!FCB
          /\ {count, count2} \subseteq 0 .. SECSIZ * MaxSector
          /\ buf \in Seq(Byte) /\ Len(buf) <= chunk

(* main.c:56-86: the assertions of the test program hold, however large    *)
(* its chunks are: reading, the offset, the end and fstat agree on the     *)
(* length of a file.  Only a write ever aborts it (main.c:82), and only    *)
(* for one of two reasons: README.TX2 was there already, so that fd2 is    *)
(* open to be read (open.c:86), or BDOS refused a sector.                  *)
AssertionsHold == pc = "abort" => /\ dio.op = "write" /\ dio.ret = -1
                                  /\ target = "there" \/ refused # {}

(* When the program has ended the target has the bytes of the file, to the *)
(* last one: no buffer of the two channels dropped or doubled anything,    *)
(* also when both are over the same file.  The exception is a last close   *)
(* that failed, which main.c:89 does not look at.                         *)
Copied == pc = "done" /\ dio.ret # -1
            => (IF target = "same" THEN sdisk ELSE ddisk) = orig

(* Until then a file that is copied onto itself loses nothing either: each *)
(* byte on the disk is the one it was, at every moment the program may be  *)
(* aborted.                                                                *)
SourceKept == sdisk = orig

(* The loops end: every read moves on, and at the end of the file answers  *)
(* 0, which the second loop needs (it takes -1 for a byte).                *)
Terminates == <>(pc \in {"done", "abort"})
=============================================================================
