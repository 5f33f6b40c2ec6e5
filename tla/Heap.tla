-------------------------------- MODULE Heap --------------------------------
(***************************************************************************)
(* The heap under the stack: sbrk and brk.  The break is an address, of a  *)
(* fixed width; brk makes it even and keeps it away from the stack.        *)
(*                                                                         *)
(* Three of the variables are histories.  "held" are the addresses the     *)
(* program was given and has not given back.  "last" says what the last    *)
(* call gave it, and where the stack was.  "astray" says which requests    *)
(* that brk should not accept it has accepted: one for a break "below"     *)
(* _end, which gives back memory that was never given, and one for the     *)
(* "top" address, the only one whose rounding wraps (to 0).                *)
(***************************************************************************)
EXTENDS Integers

CONSTANTS
  Half,    \* half the number of addresses (2^31)
  End,     \* _end, where the program and its bss end
  Gap,     \* what brk keeps free below the stack (512)
  Stacks,  \* where the stack may be during a call
  Incrs,   \* bound: the increments asked of sbrk
  Breaks   \* bound: the addresses given to brk

AddrSize == 2 * Half

(* The memory of a 68000 is in the lower half of the addresses, and        *)
(* ptrdiff_t is signed.                                                    *)
ASSUME HeapAssumption ==
  /\ Half \in Nat \ {0} /\ Gap \in Nat
  /\ End \in 0 .. Half - 1
  /\ Stacks \subseteq 0 .. Half - 1
  /\ Incrs \subseteq -Half .. Half - 1
  /\ Breaks \subseteq 0 .. AddrSize - 1

VARIABLES brk,   \* _brk
          held,
          last,
          astray

heapVars == <<brk, held, last, astray>>

Refusal == -1

-----------------------------------------------------------------------------
Addr(x) == x % AddrSize

(* Mutant: rounded down. *)
Rounded_Down(a) == a - (a % 2)

(* "address must be even" *)
Rounded(a) == Addr(a + (a % 2))

(* "keep a small buffer between heap and stack" *)
TooHigh(a, sp) == sp < a \/ sp - a < Gap

Refuse(sp) == /\ last' = [sp |-> sp, ret |-> Refusal, got |-> {}]
              /\ UNCHANGED <<brk, held, astray>>

(* The history after the break was moved to "to".                          *)
Strayed(to) == astray \cup (IF to < End THEN {"below"} ELSE {})
                      \cup (IF to = AddrSize - 1 THEN {"top"} ELSE {})

(* sbrk answers where the break was. *)
Answer(old, new) == old

Sbrk(incr, sp) ==
  LET new == Rounded(Addr(brk + incr))
      ret == Answer(brk, new)
      got == ret .. ret + incr - 1
  IN  \/ TooHigh(new, sp) /\ Refuse(sp)
      \/ /\ ~TooHigh(new, sp)
         /\ brk' = new
         /\ held' = {a \in held : incr < 0 => a < brk + incr} \cup got
         /\ last' = [sp |-> sp, ret |-> ret, got |-> got]
         /\ astray' = Strayed(brk + incr)

Brk(to, sp) ==
  LET new == Rounded(to)
      got == brk .. to - 1
  IN  \/ TooHigh(new, sp) /\ Refuse(sp)
      \/ /\ ~TooHigh(new, sp)
         /\ brk' = new
         /\ held' = {a \in held : a < to} \cup got
         /\ last' = [sp |-> sp, ret |-> new, got |-> got]
         /\ astray' = Strayed(to)

HeapInit == /\ brk = End /\ held = {} /\ astray = {}
            /\ last = [sp |-> 0, ret |-> End, got |-> {}]

HeapNext == \E sp \in Stacks : \/ \E incr \in Incrs : Sbrk(incr, sp)
                               \/ \E to \in Breaks : Brk(to, sp)

HeapSpec == HeapInit /\ [][HeapNext]_heapVars

-----------------------------------------------------------------------------
(* Properties. *)

HeapTypeOK == /\ brk \in 0 .. Half - 1
              /\ held \subseteq 0 .. AddrSize - 1
              /\ astray \subseteq {"below", "top"}

(* sbrk.c:34: what a call gives the program overlaps nothing it was given  *)
(* before and still holds, nor the stack and the buffer kept below it,     *)
(* until a request for the top address was accepted (sbrk.c:30-36); and    *)
(* never the program itself, until one for a break below _end was          *)
(* accepted too.  The break is rounded, compared and answered in two       *)
(* functions, and the rounding must go the right way for the next call.    *)
GrantsApart ==
  [][/\ "top" \notin astray' =>
          /\ last'.got \cap held = {}
          /\ \A a \in last'.got : a + Gap < last'.sp
     /\ astray' = {} => \A a \in last'.got : a >= End]_heapVars
=============================================================================
