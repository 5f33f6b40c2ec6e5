-------------------------------- MODULE Args --------------------------------
(***************************************************************************)
(* The command tail into argv: parse_args and add_arg, one step for each   *)
(* round of the loop.  An argument is a pointer into the tail, in which    *)
(* the character behind it is overwritten with a NUL; argv grows with      *)
(* realloc, which may ask sbrk for memory.  A character is its code.       *)
(*                                                                         *)
(* "typed" is a history: the words the tail was written from.              *)
(***************************************************************************)
EXTENDS Heap, Sequences

CONSTANTS
  TailMax,   \* length of a tail (126)
  ProgName,  \* "program", which stands for the name of the program
  Grows,     \* what realloc asks of sbrk
  Lines      \* bound: command lines, sequences of Word

Blanks == 9 .. 13 \cup {32}
Quotes == {34, 39}

(* BDOS ends a line at either: they are not in it. *)
LineEnds == {10, 13}

(* A word, the quote around it (0: none), and how many blanks are behind   *)
(* it; -1 when the quote is not closed.                                    *)
Word == [word : Seq(Nat), quote : {0} \cup Quotes, gap : Nat \cup {-1}]

ASSUME ArgsAssumption ==
  /\ TailMax \in Nat /\ Grows \subseteq Incrs /\ \A g \in Grows : g > 0
  /\ Lines \subseteq Seq(Word)
  /\ \A l \in Lines : \A k \in DOMAIN l : \A i \in DOMAIN l[k].word : l[k].word[i] \notin LineEnds

VARIABLES typed, tail,
          cp,    \* how far parse_args is
          argv,  \* pointers to the arguments, 0 for ProgName
          pc     \* "start", "args", then "main", "done"; or "exit", or "wild"

argsVars == <<typed, tail, cp, argv, pc>>

-----------------------------------------------------------------------------
CharAt(p) == IF p <= Len(tail) THEN tail[p] ELSE 0

(* The first place from p on that has one of the characters. *)
NextOf(p, chars) == CHOOSE q \in p .. Len(tail) + 1 :
                     CharAt(q) \in chars /\ \A r \in p .. q - 1 : CharAt(r) \notin chars

(* The string at a pointer. *)
String(p) == IF p = 0 THEN ProgName ELSE SubSeq(tail, p, NextOf(p, {0}) - 1)
Argv == [i \in DOMAIN argv |-> String(argv[i])]

Erased(p) == [i \in DOMAIN tail |-> IF i = p THEN 0 ELSE tail[i]]

(* newlib's realloc finds the room, or asks sbrk for more.                 *)
Realloc == \/ UNCHANGED heapVars
           \/ \E sp \in Stacks, incr \in Grows : Sbrk(incr, sp)

(* When realloc answers NULL the pointer is written all the same, to an    *)
(* address near 0: what the program does then is anybody's guess.          *)
AddArg(p, next) ==
  /\ Realloc
  /\ IF last'.ret = Refusal THEN pc' = "wild" ELSE pc' = next
  /\ argv' = Append(argv, p)
  /\ UNCHANGED typed

Start ==
  /\ pc = "start"
  /\ AddArg(0, "args")
  /\ tail' = SubSeq(tail, 1, IF Len(tail) > TailMax THEN TailMax ELSE Len(tail))
  /\ UNCHANGED cp

SkipBlank ==
  /\ pc = "args"
  /\ CharAt(cp) \in Blanks
  /\ cp' = cp + 1
  /\ UNCHANGED <<typed, tail, argv, pc, heapVars>>

(* Up to the same quote again; what follows it need not be a blank.        *)
QuotedArg ==
  /\ pc = "args"
  /\ CharAt(cp) \in Quotes
  /\ \E ep \in cp + 1 .. Len(tail) :
       /\ ep = NextOf(cp + 1, {CharAt(cp)} \cup {0})
       /\ tail' = Erased(ep)
       /\ AddArg(cp + 1, "args")
       /\ cp' = ep + 1

Unterminated ==
  /\ pc = "args"
  /\ CharAt(cp) \in Quotes
  /\ NextOf(cp + 1, {CharAt(cp)} \cup {0}) > Len(tail)
  /\ pc' = "exit"
  /\ UNCHANGED <<typed, tail, cp, argv, heapVars>>

(* Mutant: on with the blank, which is a NUL by now. *)
After_Same(ep) == ep

(* Behind the blank, unless the tail ended. *)
After(ep) == IF ep > Len(tail) THEN ep ELSE ep + 1

BareArg ==
  /\ pc = "args"
  /\ CharAt(cp) \notin Blanks \cup Quotes \cup {0}
  /\ LET ep == NextOf(cp + 1, Blanks \cup {0})
     IN  /\ tail' = Erased(ep)
         /\ cp' = After(ep)
  /\ AddArg(cp, "args")

ArgsDone ==
  /\ pc = "args"
  /\ CharAt(cp) = 0
  /\ pc' = "main"
  /\ UNCHANGED <<typed, tail, cp, argv, heapVars>>

ArgsNext == Start \/ SkipBlank \/ QuotedArg \/ Unterminated \/ BareArg \/ ArgsDone

-----------------------------------------------------------------------------
(* The line as it was typed: each word with or without quotes around it,   *)
(* and blanks behind it.  The last quote may be missing: gap -1.           *)
Quoted(w) == IF w.quote = 0 THEN w.word
             ELSE <<w.quote>> \o w.word \o (IF w.gap < 0 THEN <<>> ELSE <<w.quote>>)
Written(line) ==
  LET W[k \in 0 .. Len(line)] ==
        IF k = 0 THEN <<>>
        ELSE W[k - 1] \o Quoted(line[k]) \o [i \in 1 .. line[k].gap |-> 32]
  IN  W[Len(line)]

(* Words that mean what they look like.  *)
WellTyped(line) ==
  \A k \in DOMAIN line :
    LET w == line[k].word
    IN  IF line[k].quote = 0
        THEN /\ w # <<>> /\ w[1] \notin Quotes
             /\ \A i \in DOMAIN w : w[i] \notin Blanks \cup {0}
             /\ line[k].gap >= (IF k = Len(line) THEN 0 ELSE 1)
        ELSE /\ \A i \in DOMAIN w : w[i] \notin {line[k].quote, 0}
             /\ line[k].gap < 0 => k = Len(line)

Unclosed(line) == line # <<>> /\ line[Len(line)].gap < 0

ArgsInit ==
  /\ HeapInit
  /\ typed \in Lines /\ WellTyped(typed)
  /\ tail = Written(typed)
  /\ cp = 1 /\ argv = <<>> /\ pc = "start"

-----------------------------------------------------------------------------
(* Properties. *)

(* _main.c:71-119: a program gets exactly the words that were typed, with  *)
(* their blanks and the other kind of quote, empty ones too, however they  *)
(* were quoted and run together; and is refused only for a quote that is   *)
(* not closed.  The arguments lie in the tail that is overwritten while    *)
(* later ones are looked for.  A tail that is too long is cut.             *)
ArgvAsTyped ==
  Len(Written(typed)) <= TailMax =>
    /\ pc = "main" => /\ Argv = <<ProgName>> \o [k \in DOMAIN typed |-> typed[k].word]
                      /\ ~Unclosed(typed)
    /\ pc = "exit" => Unclosed(typed)
=============================================================================
