------------------------------ MODULE ParseFn -------------------------------
(***************************************************************************)
(* A file name into the fields of an FCB: _parsefn, get_token, stuff_drive *)
(* and _strcpy.  A character is its code; a name is the sequence of its    *)
(* characters without the NUL behind them.                                 *)
(***************************************************************************)
EXTENDS Integers, Sequences

CONSTANTS
  NameLen, TypeLen, PassLen,  \* of the fields of the FCB (8, 3, 8)
  TokLen                      \* of a token (32)

(* A token has room for what may stand in front of a colon, "15o". *)
ASSUME ParseFnAssumption ==
  {NameLen, TypeLen, PassLen, TokLen} \subseteq Nat \ {0} /\ TokLen > 2

Space == 32
Star == 42
Dot == 46
Colon == 58
Semicolon == 59
Question == 63
Digit == 48 .. 57
EndOfName == {0, 10, 13}
Delim == {60, 62, Dot, 44, 61, Colon, 124, 91, 93, Star, 10, 13}

Upper(c) == IF c \in 97 .. 122 THEN c - 32 ELSE c
At(s, p) == IF p <= Len(s) THEN s[p] ELSE 0

(* The signed types of portab.h. *)
BYTE(x) == ((x + 128) % 256) - 128
WORD(x) == ((x + 32768) % 65536) - 32768

-----------------------------------------------------------------------------
(* get_token: where the token that begins at p ends. *)
TokEnd(s, p) ==
  LET Stops(q) == At(s, q) \in Delim \cup {0} \/ q = p + TokLen
  IN  CHOOSE q \in p .. Len(s) + 1 : Stops(q) /\ \A r \in p .. q - 1 : ~Stops(r)

(* _strcpy of a token into a field of n characters that was filled before. *)
Field(tok, fill, n) == [i \in 1 .. n |-> IF i <= Len(tok) THEN Upper(tok[i]) ELSE fill]

-----------------------------------------------------------------------------
(* stuff_drive: a user number, of which one more is kept in a byte, and a  *)
(* drive letter; either may be missing.                                    *)
Digits(tok) == CHOOSE k \in 0 .. Len(tok) : /\ \A i \in 1 .. k : tok[i] \in Digit
                                            /\ At(tok, k + 1) \notin Digit

Number(tok) ==
  LET N[k \in 0 .. Len(tok)] == IF k = 0 THEN 0 ELSE WORD(10 * N[k - 1] + tok[k] - 48)
  IN  N[Digits(tok)]

(* Mutant: the user number as it is. *)
UserCode_Plain(tok) == IF Digits(tok) = 0 THEN 0 ELSE BYTE(Number(tok))

UserCode(tok)  == IF Digits(tok) = 0 THEN 0 ELSE BYTE(Number(tok) + 1)
DriveCode(tok) == IF Digits(tok) = Len(tok) THEN 0 ELSE BYTE(Upper(tok[Digits(tok) + 1]) - 64)

StuffDrive(tok) ==
  [ok    |-> Len(tok) <= Digits(tok) + 1 /\ UserCode(tok) <= 16 /\ DriveCode(tok) <= 15,
   fuser |-> UserCode(tok),
   drive |-> DriveCode(tok)]

NoDrive == [ok |-> TRUE, fuser |-> 0, drive |-> 0]

-----------------------------------------------------------------------------
(* _parsefn.  A name or a type: a token, and a star behind it that fills   *)
(* the rest of the field.                                                  *)
Part(s, p, n) ==
  LET e    == TokEnd(s, p)
      star == At(s, e) = Star
  IN  [field |-> Field(SubSeq(s, p, e - 1), IF star THEN Question ELSE Space, n),
       next  |-> IF star THEN e + 1 ELSE e]

ParseFn(s) ==
  LET colon == At(s, TokEnd(s, 1)) = Colon
      spec  == IF colon THEN StuffDrive(SubSeq(s, 1, TokEnd(s, 1) - 1)) ELSE NoDrive
      name  == Part(s, IF colon THEN TokEnd(s, 1) + 1 ELSE 1, NameLen)
      type  == IF At(s, name.next) = Dot THEN Part(s, name.next + 1, TypeLen)
               ELSE [field |-> Field(<<>>, Space, TypeLen), next |-> name.next]
      pass  == At(s, type.next) = Semicolon
      end   == IF pass THEN TokEnd(s, type.next + 1) ELSE type.next
  IN  [ok     |-> spec.ok /\ At(s, end) \in EndOfName,
       fuser  |-> spec.fuser,
       drive  |-> spec.drive,
       name   |-> name.field \o type.field,
       passwd |-> Field(IF pass THEN SubSeq(s, type.next + 1, end - 1) ELSE <<>>, 0, PassLen)]
=============================================================================
