------------------------------ MODULE TextFile ------------------------------
(***************************************************************************)
(* What opena, creata, read, write and close promise of a text file: lines *)
(* end in one newline for the program and in return and newline on the     *)
(* disk, returns are not seen by readers, and the text ends where the last *)
(* writer left it.  No sectors, no buffer and no ^Z.                       *)
(***************************************************************************)
EXTENDS Integers, Sequences, SequencesExt

CONSTANTS CR, LF,  \* return and newline
          Size,    \* the byte counts of reads
          Data     \* what the program writes: sequences of characters

VARIABLES content,  \* the characters on the disk, returns included
          pos,      \* the current offset
          eof,      \* has a read met the end of the text since the last seek?
          io        \* the last call: what it was asked and what it answered

vars == <<content, pos, eof, io>>

Failure == -1
Call(op, n, ret, data) == [op |-> op, n |-> n, ret |-> ret, data |-> data]

(* A return before every newline that does not follow one. *)
Lined(data) ==
  FlattenSeq([j \in 1 .. Len(data) |->
    IF data[j] = LF /\ (j = 1 \/ data[j - 1] # CR) THEN <<CR, LF>> ELSE <<data[j]>>])

NoReturns(text) == SelectSeq(text, LAMBDA c : c # CR)

(* src laid over the text from p on. *)
Overlay(text, p, src) ==
  SubSeq(text, 1, p) \o src \o SubSeq(text, p + Len(src) + 1, Len(text))

Init == /\ content = <<>>
        /\ pos = 0
        /\ eof = FALSE
        /\ io = Call("none", 0, 0, <<>>)

(* A read delivers n characters and stops behind the last of them, or all  *)
(* there are.                                                              *)
Read(n) == \E to \in pos .. Len(content) :
  LET got == NoReturns(SubSeq(content, pos + 1, to))
  IN  /\ ~eof
      /\ \/ Len(got) = n /\ (to = pos \/ content[to] # CR)
         \/ Len(got) < n /\ to = Len(content)
      /\ io' = Call("read", n, Len(got), got)
      /\ pos' = to
      /\ eof' = (Len(got) < n)
      /\ UNCHANGED content

ReadAtEof(n) == /\ eof
                /\ io' = Call("read", n, 0, <<>>)
                /\ UNCHANGED <<content, pos, eof>>

Write(data) ==
  /\ content' = Overlay(content, pos, Lined(data))
  /\ pos' = pos + Len(Lined(data))
  /\ io' = Call("write", Len(data), Len(data), data)
  /\ UNCHANGED eof

Refuse(data) == /\ io' = Call("write", Len(data), Failure, data)
                /\ UNCHANGED <<content, pos, eof>>

(* To the beginning or to the end of the text. *)
Seek(sense) == /\ pos' = IF sense = 2 THEN Len(content) ELSE 0
               /\ eof' = FALSE
               /\ io' = Call("lseek", sense, pos', <<>>)
               /\ UNCHANGED content

Create == /\ content' = <<>>
          /\ pos' = 0
          /\ eof' = FALSE
          /\ io' = Call("creat", 0, 0, <<>>)

(* The text outlives the descriptor. *)
Reopen == /\ pos' = 0
          /\ eof' = FALSE
          /\ io' \in {Call(op, 0, 0, <<>>) : op \in {"open", "close"}}
          /\ UNCHANGED content

Next == \/ \E n \in Size : Read(n) \/ ReadAtEof(n)
        \/ \E data \in Data : Write(data) \/ Refuse(data)
        \/ \E sense \in {0, 2} : Seek(sense)
        \/ Create
        \/ Reopen

Spec == Init /\ [][Next]_vars
=============================================================================
