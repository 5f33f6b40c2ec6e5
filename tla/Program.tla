------------------------------ MODULE Program -------------------------------
(***************************************************************************)
(* A program on CP/M: its command tail becomes argv (Args), for which      *)
(* memory is asked of sbrk (Heap); main gives the arguments to calls that  *)
(* take the name of a file (FileName, UserArea), and asks for memory.      *)
(***************************************************************************)
EXTENDS Args, FileName, UserArea

CONSTANTS Worked,   \* bound: the lines with which main calls with its arguments
          Hungry    \* bound: those with which it asks for memory

vars == <<heapVars, argsVars, areaVars>>

(* What the i-th argument parses into. *)
P(i) == ParseFn(Argv[i])
Arg  == 2 .. Len(argv)

Parses == ArgsNext /\ UNCHANGED areaVars

(* The calls of main: any of them, with any of its arguments.              *)
Given == Parsed \cap {P(i) : i \in Arg}

MainCalls ==
  /\ pc = "main" /\ typed \in Worked
  /\ \E c \in Channel, p, q \in Given : Call(c, p, q)
  /\ UNCHANGED <<heapVars, argsVars>>

MainAsksMemory ==
  /\ pc = "main" /\ typed \in Hungry
  /\ HeapNext
  /\ UNCHANGED <<argsVars, areaVars>>

(* exit closes nothing. *)
Exit == /\ pc = "main"
        /\ pc' = "done"
        /\ UNCHANGED <<heapVars, areaVars, typed, tail, cp, argv>>

Init == ArgsInit /\ AreaInit
Next == Parses \/ MainCalls \/ MainAsksMemory \/ Exit
Spec == Init /\ [][Next]_vars

-----------------------------------------------------------------------------
(* Properties. *)

(* Every variable keeps its type, and the arguments point into the tail.   *)
TypeOK == /\ HeapTypeOK /\ AreaTypeOK
          /\ cp \in 1 .. Len(tail) + 2
          /\ \A i \in DOMAIN argv : argv[i] \in 0 .. Len(tail) + 1

(* parsefn.c:22, "#d:filename.typ;passwd": a name that the grammar has is  *)
(* accepted, its fields cut and filled as the grammar says - unless it has *)
(* a password the code does not see.  What is accepted is a name of the    *)
(* grammar - unless it has such a semicolon, a user number of three digits *)
(* or more, or a drive below "A" (Clear).                                  *)
NamesRead ==
  pc = "main" => \A i \in Arg :
    /\ \A r \in Readings(Argv[i]) : Seen(Argv[i], r) => P(i) = Fields(Argv[i], r)
    /\ Clear(Argv[i]) /\ P(i).ok => Readings(Argv[i]) # {}
=============================================================================
