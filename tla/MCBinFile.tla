----------------------------- MODULE MCBinFile -----------------------------
(* Values for the runs of BinFile: the data a program writes and the       *)
(* places it seeks to.                                                     *)
EXTENDS BinFile

(* Every sequence of at most k bytes. *)
UpTo(k) == UNION {[1 .. n -> Byte] : n \in 0 .. k}

(* Runs of alternating bytes, of at most k of them. *)
Patterns(k) == {[j \in 1 .. n |-> (j + a) % 2] : n \in 0 .. k, a \in 0 .. 1}

Data2 == UpTo(2) \ {<<>>, <<0, 0>>}
Data5 == Patterns(5)
Alt4  == {[j \in 1 .. n |-> j % 2] : n \in {1, 3, 4}} \cup {<<0>>}

(* Less than a sector at a time: every write goes through the buffer. *)
Single == {<<b>> : b \in Byte}

(* To every offset of the file, one byte on, back one, and to its end. *)
AllSeeks == {<<o, 0>> : o \in 0 .. SECSIZ * MaxSector}
              \cup {<<1, 1>>, <<-1, 1>>, <<0, 2>>, <<0, 3>>}
BackAndForth == {<<-1, 1>>, <<1, 1>>, <<0, 2>>}
Rewind    == {<<0, 0>>}

NoFaults  == {{}}
FirstTwo  == {{}, {0}, {1}}
=============================================================================
