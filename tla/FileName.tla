------------------------------ MODULE FileName ------------------------------
(***************************************************************************)
(* What a file name is, as a grammar: the reference ParseFn is checked     *)
(* against.  "#d:filename.typ;passwd" (parsefn.c:22), where the number and *)
(* the letter in front of the colon, the type and the password may be      *)
(* missing, and a star stands for the rest of the name or the type.        *)
(* A semicolon is in no name and in no type: it begins the password.       *)
(***************************************************************************)
EXTENDS ParseFn

Letter == 65 .. 90 \cup 97 .. 122

IsToken(w) == Len(w) <= TokLen /\ \A i \in DOMAIN w : w[i] \notin Delim \cup {0, Semicolon}
HasStar(w) == w # <<>> /\ w[Len(w)] = Star
Bare(w)    == IF HasStar(w) THEN SubSeq(w, 1, Len(w) - 1) ELSE w
IsPart(w)  == IsToken(Bare(w))

(* In front of the colon: up to two digits and a letter, in this order.    *)
Value(w) == IF Len(w) = 1 THEN w[1] - 48 ELSE 10 * (w[1] - 48) + w[2] - 48
HasLetter(w) == w # <<>> /\ w[Len(w)] \in Letter
UserPart(w)  == IF HasLetter(w) THEN SubSeq(w, 1, Len(w) - 1) ELSE w
UserOf(w)    == IF UserPart(w) = <<>> THEN 0 ELSE 1 + Value(UserPart(w))
DriveOf(w)   == IF HasLetter(w) THEN 1 + ((w[Len(w)] - 65) % 32) ELSE 0
IsSpec(w)    == /\ Len(UserPart(w)) <= 2
                /\ \A i \in DOMAIN UserPart(w) : UserPart(w)[i] \in Digit
                /\ UserOf(w) <= 16
                /\ DriveOf(w) <= 15   \* up to O: the code refuses P

(* A way to read the name n: the places of the colon, of the dot and of    *)
(* the semicolon, 0 where there is none.                                   *)
Prefix(n, r) == SubSeq(n, 1, r.colon - 1)
BodyEnd(n, r) == IF r.semi = 0 THEN Len(n) ELSE r.semi - 1
Name(n, r) == SubSeq(n, r.colon + 1, IF r.dot = 0 THEN BodyEnd(n, r) ELSE r.dot - 1)
Type(n, r) == IF r.dot = 0 THEN <<>> ELSE SubSeq(n, r.dot + 1, BodyEnd(n, r))
Pass(n, r) == IF r.semi = 0 THEN <<>> ELSE SubSeq(n, r.semi + 1, Len(n))
Last(n, r) == IF r.dot = 0 THEN Name(n, r) ELSE Type(n, r)

Reads(n, r) ==
  /\ r.colon # 0 => n[r.colon] = Colon /\ IsSpec(Prefix(n, r))
  /\ r.dot # 0   => n[r.dot] = Dot /\ r.dot > r.colon
  /\ r.semi # 0  => /\ n[r.semi] = Semicolon
                    /\ r.semi > r.colon /\ r.semi > r.dot
                    /\ IsToken(Pass(n, r))
  /\ IsPart(Name(n, r)) /\ IsPart(Type(n, r))

Readings(n) ==
  LET place == 0 .. Len(n)
  IN  {r \in [colon : place, dot : place, semi : place] : Reads(n, r)}

(* What the FCB should hold.  *)
Padded(w, n) == Field(Bare(w), IF HasStar(w) THEN Question ELSE Space, n)
Fields(n, r) == [ok     |-> TRUE,
                 fuser  |-> UserOf(Prefix(n, r)),
                 drive  |-> DriveOf(Prefix(n, r)),
                 name   |-> Padded(Name(n, r), NameLen) \o Padded(Type(n, r), TypeLen),
                 passwd |-> Field(Pass(n, r), 0, PassLen)]

(* The code does not do all that the grammar says.                         *)
(*                                                                         *)
(* It sees a semicolon only where a token has ended before it: behind a    *)
(* star, or when the name or type has the full length of a token.          *)
(* Elsewhere it takes the semicolon and the password for more of the name  *)
(* ("A;b").                                                                *)
Seen(n, r) == r.semi # 0 => HasStar(Last(n, r)) \/ Len(Last(n, r)) = TokLen

(* And it accepts names that the grammar has not: with such a semicolon,   *)
(* with a user number of three or more digits, which may wrap around a     *)
(* byte ("255:X"), or with a character below "A" for a drive ("1?:X").     *)
Clear(n) ==
  /\ \A k \in DOMAIN n : n[k] = Semicolon => k > 1 /\ n[k - 1] = Star
  /\ \A c \in DOMAIN n : n[c] = Colon =>
       /\ \A i \in 1 .. c - 1 : n[i] \in Digit \cup Letter \cup Delim
       /\ c > 3 => \E i \in 1 .. 3 : n[i] \notin Digit
=============================================================================
