--------------------------- MODULE MCRelocation ---------------------------
(* Values for the runs of Relocation: small ELF files, and every table of  *)
(* a small image.                                                          *)
EXTENDS Relocation

Abs(offset, target) ==
  [offset |-> offset, target |-> target, kind |-> "32", weak |-> FALSE, undef |-> FALSE,
   alloc |-> TRUE]

(* Pointers to the beginning, the end and the middle of every segment, a   *)
(* target too far, fields that reach or lie beyond the image, weak symbols *)
(* undefined and defined, at 0 and elsewhere, and relocations that are     *)
(* none.                                                                   *)
Entries ==
  {Abs(o, t) : o \in {0, 2, 4, 8}, t \in {0, 4, 6, 8, 12, 14, 16, 18}}
  \cup {Abs(o, 0) : o \in {10, 12, 16}}
  \cup {[Abs(o, 0) EXCEPT !.weak = TRUE, !.undef = u] : o \in {0, 4}, u \in BOOLEAN}
  \cup {[Abs(o, 4) EXCEPT !.weak = TRUE] : o \in {0, 4}}
  \cup {[Abs(o, 4) EXCEPT !.kind = k] : o \in {0, 4}, k \in Kind}
  \cup {[Abs(o, 0) EXCEPT !.alloc = FALSE] : o \in {0, 4}}

Apart(e) == \A j, k \in DOMAIN e : \/ j = k \/ ~e[j].alloc \/ ~e[k].alloc
                                   \/ e[j].offset - e[k].offset \notin -3 .. 3
Upto2 == UNION {[1 .. n -> Entries] : n \in 0 .. 2}

(* More relocations than the array has places for, in order and not. *)
Long == {<<Abs(0, 0), Abs(4, 8), Abs(8, 14)>>, <<Abs(4, 8), Abs(0, 0), Abs(8, 14)>>}

MCElfs == {e \in Upto2 \cup Long : Apart(e)}

MCTables == [1 .. 6 -> {0, 2, 3, 5, 7}] \cup {<<1, 5, 1, 0, 4, 0>>, <<0, 1>>}
=============================================================================
