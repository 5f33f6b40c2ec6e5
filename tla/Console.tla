------------------------------ MODULE Console ------------------------------
(***************************************************************************)
(* The character devices: a line from the keyboard (_ttyin) and output to  *)
(* the console and the printer (_wrtchr, _ttyout, _lstout), on the         *)
(* channels that are open to them.                                         *)
(*                                                                         *)
(* BDOS is external: CONBUF takes keys up to Enter or a full buffer, CONIN *)
(* takes one key, C_WRITESTR prints up to a dollar sign.  No code sets     *)
(* ISSPTTY, so raw input and tab expansion are never reached.              *)
(***************************************************************************)
EXTENDS Integers, Sequences, SequencesExt

CONSTANTS
  UWord,      \* values of a UWORD (65536)
  SECSIZ,     \* size of the output buffer of _wrtchr (128)
  Bytesized,  \* the biggest line from the terminal (255)
  Char, CR, LF, EOFCHAR, DOLLAR,
  In, Out, Lst,  \* stdin, stdout and a channel open to LST:
  Scripts,    \* bound: what the user types, one sequence of keys per behaviour
  ReadSizes,  \* bound: byte counts of reads
  Data        \* bound: what the program writes

ASSUME ConsoleAssumption ==
  /\ UWord \in Nat \ {0}
  /\ SECSIZ \in Nat /\ SECSIZ >= 3 /\ Bytesized \in Nat \ {0}
  /\ {CR, LF, EOFCHAR, DOLLAR} \subseteq Char /\ LF \notin {CR, EOFCHAR}
  /\ Scripts \subseteq Seq(Char \ {LF}) /\ Data \subseteq Seq(Char)
  /\ ReadSizes \subseteq Nat \ {0}

Chan    == {In, Out, Lst}
Flag    == {"ISTTY", "ISLPT", "ISREAD", "ATEOF"}
Failure == -1

VARIABLES keys,     \* what the user has still to type
          seen,     \* what BDOS has taken of it
          got,      \* what the program has read
          plugged,  \* where in it _ttyin broke a line that was longer than its buffer
          flags,    \* of the channels
          io        \* the last call: what it was asked, answered and put out

vars == <<keys, seen, got, plugged, flags, io>>

-----------------------------------------------------------------------------
(* BDOS.  A line of n keys, or the keys before Enter when there are fewer; *)
(* until then the program waits.                                           *)

NoReturn(line) == \A i \in DOMAIN line : line[i] # CR
First(k)       == SubSeq(keys, 1, k)

(* CONBUF answers k characters and takes "taken" keys.                     *)
Conbuf(n, k, taken) ==
  /\ k \in 0 .. n
  /\ taken = (IF k < n THEN k + 1 ELSE k)
  /\ taken <= Len(keys)
  /\ NoReturn(First(k))
  /\ k < n => keys[taken] = CR

(* C_WRITESTR prints from i up to the next dollar sign.                    *)
WriteStr(s, i) ==
  LET j == CHOOSE j \in i .. Len(s) : s[j] = DOLLAR /\ \A k \in i .. j - 1 : s[k] # DOLLAR
  IN  SubSeq(s, i, j - 1)

-----------------------------------------------------------------------------
(* _ttyin.  A request of one byte takes one key, Enter being an empty line.*)

Nbs(n) == IF n < Bytesized THEN n ELSE Bytesized

Line(n, k, taken) ==
  IF Nbs(n) = 1 THEN /\ taken = 1
                     /\ keys # <<>>
                     /\ k = IF keys[1] = CR THEN 0 ELSE 1
                ELSE Conbuf(Nbs(n), k, taken)

EofAt(line) == {i \in DOMAIN line : line[i] = EOFCHAR}

(* Mutant: ^Z is a character like the others. *)
UpToEof_All(line) == line

UpToEof(line) ==
  IF EofAt(line) = {} THEN line
  ELSE SubSeq(line, 1, (CHOOSE i \in EofAt(line) : \A j \in EofAt(line) : i <= j) - 1)

(* Mutant: a newline after every line. *)
NewlineDue_Always(n, line) == TRUE

(* "Terminate on count?  No, plug in newline." *)
NewlineDue(n, line) == Len(line) < n

Delivered(n, line) ==
  IF EofAt(line) = {} /\ NewlineDue(n, line) THEN Append(UpToEof(line), LF) ELSE UpToEof(line)

TtyIn(ch, n) == \E taken \in 0 .. Len(keys), k \in 0 .. Len(keys) :
  LET line == First(k)
      data == Delivered(n, line)
  IN  /\ Line(n, k, taken)
      /\ keys' = SubSeq(keys, taken + 1, Len(keys))
      /\ seen' = seen \o First(taken)
      /\ got' = got \o data
      /\ plugged' = IF k = Nbs(n) /\ k < n /\ EofAt(line) = {}
                    THEN plugged \cup {Len(got')} ELSE plugged
      /\ flags' = IF EofAt(line) = {} THEN flags
                  ELSE [flags EXCEPT ![ch] = @ \cup {"ATEOF"}]
      /\ io' = [op |-> "read", ret |-> Len(data), data |-> data,
                out |-> IF k < Nbs(n) THEN <<LF>> ELSE <<>>]

-----------------------------------------------------------------------------
(* _ttyout: the characters of cp with a dollar sign behind them, the dollar*)
(* signs among them put out one by one.  Behind a full chunk that dollar   *)
(* sign lies one past the array; what it spoils there is not modelled.     *)

(* Mutant: the rest of the string starts with the dollar sign. *)
Restart_Same(ii) == ii

Restart(ii) == ii + 1

TtyOut(cp) ==
  LET s == Append(cp, DOLLAR)
      Part(i) == IF s[i] = DOLLAR THEN <<>> ELSE WriteStr(s, i)
      Checked(t, ii) == IF s[ii] = DOLLAR
                        THEN [out |-> Append(t.out \o Part(t.from), DOLLAR), from |-> Restart(ii)]
                        ELSE t
      T[ii \in 0 .. Len(cp)] == IF ii = 0 THEN [out |-> <<>>, from |-> 1]
                                ELSE Checked(T[ii - 1], ii)
      t == T[Len(cp)]
  IN  IF t.from = Len(cp) + 1 THEN t.out ELSE t.out \o WriteStr(s, t.from)

(* _lstout puts characters out one by one. *)
FnOut(ch, cp) == IF "ISTTY" \in flags[ch] THEN TtyOut(cp) ELSE cp

(* _wrtchr: cp has SECSIZ - 1 places for characters; it is put out when    *)
(* the next one, with the return a newline needs in front, does not fit.   *)
(* What is left to put out is counted in a UWORD: of a text that is longer *)
(* only the rest, and nothing of one of 65536 characters.                  *)
Coded(c) == IF c = LF THEN <<CR, LF>> ELSE <<c>>

PutOut(w, ch) == [cp |-> <<>>, out |-> w.out \o FnOut(ch, w.cp)]

Put(w, c, ch) ==
  LET v == IF Len(w.cp) + Len(Coded(c)) <= SECSIZ - 1 THEN w ELSE PutOut(w, ch)
  IN  [v EXCEPT !.cp = @ \o Coded(c)]

WrtChr(ch, data) ==
  LET nbs == Len(data) % UWord
      W[k \in 0 .. nbs] == IF k = 0 THEN [cp |-> <<>>, out |-> <<>>]
                           ELSE Put(W[k - 1], data[k], ch)
  IN  PutOut(W[nbs], ch)

-----------------------------------------------------------------------------
(* The calls. *)

Answer(op, ret, data, out) == io' = [op |-> op, ret |-> ret, data |-> data, out |-> out]

Read(ch, n) ==
  IF "ATEOF" \in flags[ch]
  THEN /\ Answer("read", 0, <<>>, <<>>)
       /\ UNCHANGED <<keys, seen, got, plugged, flags>>
  ELSE IF "ISLPT" \in flags[ch]
  THEN /\ Answer("read", Failure, <<>>, <<>>)
       /\ UNCHANGED <<keys, seen, got, plugged, flags>>
  ELSE TtyIn(ch, n)

Write(ch, data) ==
  LET w == WrtChr(ch, data)
  IN  /\ IF data = <<>> THEN Answer("write", 0, data, <<>>)
         ELSE IF "ISREAD" \in flags[ch]
         THEN Answer("refused", Failure, data, <<>>)
         ELSE Answer("write", Len(data), data, w.out)
      /\ UNCHANGED <<keys, seen, got, plugged, flags>>

(* A seek moves nothing on a device, but it clears ATEOF. *)
LSeek(ch) == /\ flags' = [flags EXCEPT ![ch] = @ \ {"ATEOF"}]
             /\ Answer("lseek", 0, <<>>, <<>>)
             /\ UNCHANGED <<keys, seen, got, plugged>>

Init == /\ keys \in Scripts
        /\ seen = <<>> /\ got = <<>> /\ plugged = {}
        /\ flags = [ch \in Chan |-> CASE ch = In  -> {"ISTTY", "ISREAD"}
                                      [] ch = Out -> {"ISTTY"}
                                      [] ch = Lst -> {"ISLPT"}]
        /\ io = [op |-> "none", ret |-> 0, data |-> <<>>, out |-> <<>>]

Next == \E ch \in Chan : \/ \E n \in ReadSizes : Read(ch, n)
                         \/ \E data \in Data : Write(ch, data)
                         \/ LSeek(ch)

Spec == Init /\ [][Next]_vars

-----------------------------------------------------------------------------
(* Properties. *)

(* Every variable keeps its type; neither a return nor a ^Z is delivered. *)
TypeOK == /\ keys \in Seq(Char) /\ seen \in Seq(Char)
          /\ got \in Seq(Char \ {CR, EOFCHAR})
          /\ plugged \subseteq DOMAIN got
          /\ flags \in [Chan -> SUBSET Flag]

(* Until a ^Z is typed the program reads what the user types, Enter as a   *)
(* newline, however the lines fall on the requests: nothing is lost        *)
(* between two reads, and no newline is made up but where a line was       *)
(* longer than the buffer of _ttyin.                                       *)
AsNewline(text) == [i \in DOMAIN text |-> IF text[i] = CR THEN LF ELSE text[i]]
Unplugged ==
  LET U[i \in 0 .. Len(got)] == IF i = 0 THEN <<>> ELSE
                                IF i \in plugged THEN U[i - 1] ELSE Append(U[i - 1], got[i])
  IN  U[Len(got)]
InputKept == EofAt(seen) = {} => Unplugged = AsNewline(seen)

(* What write puts out is what it was given with a return in front of      *)
(* every newline, wherever the chunks of _wrtchr meet and wherever the     *)
(* dollar signs are (the console prints up to one).  That is all of a text *)
(* that a UWORD can count.  Of a longer one write puts out only what is    *)
(* left of its length modulo 65536 (wrtchr.c:59), and answers that it has  *)
(* written all: README, section 4.                                         *)
OutputLined ==
  io.op = "write" =>
    io.out = FlattenSeq([i \in 1 .. Len(io.data) % UWord |-> Coded(io.data[i])])
=============================================================================
