------------------------------ MODULE FdTable ------------------------------
(***************************************************************************)
(* What the channel layer promises its callers: a table of file            *)
(* descriptors.  An open answers a descriptor nobody holds and binds it;   *)
(* a close unbinds exactly the descriptor it was given, whatever it        *)
(* answers; every other call, and every call that fails, leaves all the    *)
(* bindings of the others alone.                                           *)
(*                                                                         *)
(* A binding is what a descriptor stands for: the file and the access      *)
(* flags it was opened with.                                               *)
(***************************************************************************)
EXTENDS Integers

CONSTANTS Fd,       \* the descriptors
          Binding,  \* what a descriptor can stand for
          Closed    \* the binding of a descriptor nobody holds

VARIABLES table,    \* Fd -> Binding or Closed
          ret       \* what the last call answered

vars == <<table, ret>>

Failure == -1
Success == 0

(* The C start-up code binds descriptors before main runs. *)
Init == /\ table \in [Fd -> Binding \cup {Closed}]
        /\ ret \in {Success, Failure} \cup Fd

Open(fd) == /\ table[fd] = Closed
            /\ table'[fd] \in Binding
            /\ table' = [table EXCEPT ![fd] = table'[fd]]
            /\ ret' = fd

Close(fd) == /\ table[fd] # Closed
             /\ table' = [table EXCEPT ![fd] = Closed]
             /\ ret' \in {Success, Failure}

(* A failed call, or a call that concerns no descriptor. *)
Other == /\ ret' \in {Success, Failure}
         /\ UNCHANGED table

Next == \/ \E fd \in Fd : Open(fd) \/ Close(fd)
        \/ Other

Spec == Init /\ [][Next]_vars
=============================================================================
