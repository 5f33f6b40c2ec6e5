------------------------------ MODULE ByteFile ------------------------------
(***************************************************************************)
(* What read.c, write.c and lseek.c promise of a binary file: "any         *)
(* arbitrary number of bytes" moves between the caller and "any arbitrary  *)
(* offset", with no trace of sectors, buffers or flushes.                  *)
(*                                                                         *)
(* CP/M counts files in whole sectors, so a write may also bring into      *)
(* being bytes nobody wrote (padding): they are the one thing a write may  *)
(* change outside its range.                                               *)
(*                                                                         *)
(* The promise has one exception, which the bytes alone do not explain: a  *)
(* write that meets a hole below the high water mark fails.  So the mark   *)
(* is part of the file a program sees.                                     *)
(***************************************************************************)
EXTENDS Integers, Sequences

CONSTANTS Byte,    \* what a byte of the file can be
          None,    \* the byte at an offset the file does not have
          Length,  \* offsets are 0 .. Length - 1
          Size,    \* the byte counts of reads
          Data,    \* what the caller writes: sequences of bytes
          Seeks    \* the <<offs, sense>> of its seeks

VARIABLES content,  \* the byte at each offset
          pos,      \* the current offset
          eof,      \* has a read met the end of the file since the last seek?
          high,     \* the mark: how far reads, writes and seeks to the end went
          readonly, \* was it opened to be read?
          io        \* the last call: what it was asked and what it answered

vars == <<content, pos, eof, high, readonly, io>>

Offset  == 0 .. Length - 1
Failure == -1

Call(op, n, ret, data) == [op |-> op, n |-> n, ret |-> ret, data |-> data]
Empty == [i \in Offset |-> None]

(* Where the last byte of the file ends. *)
End == CHOOSE e \in 0 .. Length : /\ \A i \in Offset : i >= e => content[i] = None
                                  /\ e = 0 \/ content[e - 1] # None

Highest(a, b) == IF a >= b THEN a ELSE b

Init == /\ content = Empty
        /\ pos = 0
        /\ eof = FALSE
        /\ high = 0
        /\ readonly = FALSE
        /\ io = Call("none", 0, 0, <<>>)

(* The first k bytes at pos are delivered; fewer than were asked for only  *)
(* where the file has no byte, or when the end was met before.             *)
Read(n) == \E k \in 0 .. n :
  /\ pos >= 0
  /\ pos' = pos + k
  /\ io' = Call("read", n, k, [j \in 1 .. k |-> content[pos + j - 1]])
  /\ \A i \in pos .. pos + k - 1 : i \in Offset /\ content[i] # None
  /\ k < n => eof \/ pos + k \notin Offset \/ content[pos + k] = None
  /\ eof' = (eof \/ k < n)
  /\ high' = IF eof THEN high ELSE Highest(high, pos')
  /\ UNCHANGED <<content, readonly>>

(* A read may also fail where the file has no byte. *)
ReadFails(n) ==
  /\ io' = Call("read", n, Failure, <<>>)
  /\ pos \notin Offset \/ content[pos] = None
  /\ UNCHANGED <<content, pos, eof, high, readonly>>

(* Outside its range a write changes nothing, or brings padding into being. *)
OnlyIn(range) == \A i \in Offset \ range :
  content'[i] = content[i] \/ (content[i] = None /\ content'[i] \in Byte)

(* The first k bytes of the data are in the file, and the offset is behind *)
(* them.                                                                   *)
Replaced(data, k) ==
  /\ OnlyIn(pos .. pos + k - 1)
  /\ \A j \in 1 .. k : content'[pos + j - 1] = data[j]
  /\ pos' = pos + k

Write(data) ==
  /\ io' = Call("write", Len(data), Len(data), data)
  /\ data = <<>> \/ ~readonly
  /\ pos + Len(data) <= Length
  /\ Replaced(data, Len(data))
  /\ high' = IF data = <<>> THEN high ELSE Highest(high, pos')
  /\ UNCHANGED <<eof, readonly>>

(* A write to a file opened to be read does nothing. *)
WriteRefused(data) ==
  /\ io' = Call("write", Len(data), Failure, data)
  /\ readonly /\ data # <<>>
  /\ UNCHANGED <<content, pos, eof, high, readonly>>

(* A write fails at a hole: a byte the file does not have, below the mark. *)
(* It has replaced those before it.                                        *)
WriteFails(data) == \E k \in 0 .. Len(data) - 1 :
  /\ io' = Call("write", Len(data), Failure, data)
  /\ ~readonly
  /\ pos + k \in Offset /\ pos + k < high /\ content[pos + k] = None
  /\ Replaced(data, k)
  /\ UNCHANGED <<eof, high, readonly>>

(* The end of the file is the mark while a write has not reached the disk, *)
(* and where the last byte ends when all have; the mark is moved there.    *)
Bases(sense) == CASE sense = 0 -> {0}
                  [] sense = 1 -> {pos}
                  [] sense = 2 -> {high, End}
                  [] OTHER     -> {}

Seek(offs, sense) ==
  /\ io' = Call("lseek", 0, pos', <<>>)
  /\ \E base \in Bases(sense) : /\ pos' = base + offs
                               /\ high' = IF sense = 2 THEN base ELSE high
  /\ pos' \in 0 .. Length
  /\ eof' = FALSE
  /\ UNCHANGED <<content, readonly>>

(* A seek in no sense there is fails and moves nothing. *)
SeekFails(sense) == /\ io' = Call("lseek", 0, Failure, <<>>)
                    /\ sense \notin {0, 1, 2}
                    /\ UNCHANGED <<content, pos, eof, high, readonly>>

Create == /\ io' = Call("creat", 0, 0, <<>>)
          /\ content' = Empty
          /\ pos' = 0
          /\ eof' = FALSE
          /\ high' = 0
          /\ readonly' = FALSE

(* The contents outlive the descriptor, and an open puts the mark at their *)
(* end.                                                                    *)
Open == /\ io' = Call("open", 0, 0, <<>>)
        /\ pos' = 0
        /\ eof' = FALSE
        /\ high' = End
        /\ readonly' \in BOOLEAN
        /\ UNCHANGED content

Close == /\ io' = Call("close", 0, 0, <<>>)
         /\ pos' = 0
         /\ eof' = FALSE
         /\ high' = 0
         /\ readonly' = FALSE
         /\ UNCHANGED content

Next == \/ \E n \in Size : Read(n) \/ ReadFails(n)
        \/ \E data \in Data : Write(data) \/ WriteRefused(data) \/ WriteFails(data)
        \/ \E seek \in Seeks : Seek(seek[1], seek[2]) \/ SeekFails(seek[2])
        \/ Create \/ Open \/ Close

Spec == Init /\ [][Next]_vars
=============================================================================
