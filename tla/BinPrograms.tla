---------------------------- MODULE BinPrograms -----------------------------
(***************************************************************************)
(* The programs for which a binary channel is a file of bytes: those that  *)
(* seek, and move what goes through the buffer; and those that move any    *)
(* number of bytes, and never seek.                                        *)
(***************************************************************************)
EXTENDS BinFile

VARIABLE seeks   \* which of the two kinds of programs is it?

(* A request that covers a whole sector goes past the buffer.              *)
Bypasses(n) == LET p == fp.offset % SECSIZ
               IN  n >= SECSIZ + (IF p = 0 THEN 0 ELSE SECSIZ - p)

(* It looks at what lseek answers, and goes on only where there is a file. *)
Seeking == \/ \E n \in ReadSizes : ~Bypasses(n) /\ Read(n, {})
           \/ \E data \in Data : ~Bypasses(Len(data)) /\ Write(data, {})
           \/ \E seek \in Seeks : LSeek(seek[1], seek[2]) /\ fp'.offset >= 0

Straight == \/ \E n \in ReadSizes : Read(n, {})
            \/ \E data \in Data : Write(data, {})

Both == Close({}) \/ (\E mode \in Modes : Open(mode)) \/ Creat

TwoInit == Init /\ seeks \in BOOLEAN
TwoNext == /\ \/ seeks /\ Seeking
              \/ ~seeks /\ Straight
              \/ Both
           /\ UNCHANGED seeks
TwoSpec == TwoInit /\ [][TwoNext]_<<vars, seeks>>

-----------------------------------------------------------------------------
(* Properties, with those of Ccb and BinFile. *)

(* osif.h:77, "Sector currently in buffer", of every program that keeps    *)
(* whole sectors out of its requests: a clean buffer holds what the disk   *)
(* has of the sector it is labelled with.                                  *)
SeeksCoherent == seeks => BufferCoherent
=============================================================================
