---------------------------- MODULE ProgramProofs ----------------------------
(***************************************************************************)
(* A program, from its command tail to its end, and the two components it  *)
(* calls on the way.                                                       *)
(*                                                                         *)
(* The command tail: a program gets the words that were typed (ArgvAsTyped)*)
(* for every line, however long its words and many its blanks, and every   *)
(* heap.  The line is laid out in the tail (Layout, by induction over its  *)
(* words); ReadTo says how far parse_args has come in it.                  *)
(*                                                                         *)
(* File names: what the grammar reads is accepted and means what it says,  *)
(* what is accepted it reads (NamesRead, which names the exceptions), for  *)
(* all names and field widths.                                             *)
(*                                                                         *)
(* The heap: what it gives out never overlaps, for every address width,    *)
(* _end, gap, position of the stack and sequence of requests.  The user    *)
(* areas: every call works in the area its names say and comes back to the *)
(* program's, for every number of areas and channels, every directory, set *)
(* of names and sequence of calls.  The program uses both only by their    *)
(* calls: what is proved of them holds of it.                              *)
(***************************************************************************)
EXTENDS Program, Arithmetic, SequenceTheorems

-----------------------------------------------------------------------------
(* The line in the tail. *)

(* Two sequences, one behind the other.                                  *)
LEMMA Joined ==
  ASSUME NEW x \in Seq(Nat), NEW y \in Seq(Nat)
  PROVE  /\ x \o y \in Seq(Nat) /\ Len(x \o y) = Len(x) + Len(y)
         /\ \A i \in 1 .. Len(x) : (x \o y)[i] = x[i]
         /\ \A i \in 1 .. Len(y) : (x \o y)[Len(x) + i] = y[i]
<1>1. Len(x) \in Nat /\ Len(y) \in Nat
  OBVIOUS
<1>2. \A i \in 1 .. Len(x) + Len(y) : (x \o y)[i] = IF i <= Len(x) THEN x[i] ELSE y[i - Len(x)]
  BY ConcatProperties
<1>3. ASSUME NEW i \in 1 .. Len(x) PROVE (x \o y)[i] = x[i]
  <2>1. i \in 1 .. Len(x) + Len(y) /\ i <= Len(x)
    BY <1>1
  <2> QED
    BY <1>2, <2>1
<1>4. ASSUME NEW i \in 1 .. Len(y) PROVE (x \o y)[Len(x) + i] = y[i]
  <2>1. /\ Len(x) + i \in 1 .. Len(x) + Len(y) /\ ~(Len(x) + i <= Len(x))
        /\ (Len(x) + i) - Len(x) = i
    BY <1>1
  <2> QED
    BY <1>2, <2>1
<1> QED
  BY <1>3, <1>4, ConcatProperties

(* The quote before a word, the one behind it, the blanks, all of it.      *)
Lead(w)  == IF w.quote = 0 THEN 0 ELSE 1
Trail(w) == IF w.quote = 0 \/ w.gap < 0 THEN 0 ELSE 1
Spaces(w) == IF w.gap < 0 THEN 0 ELSE w.gap
Size(w)  == Lead(w) + Len(w.word) + Trail(w) + Spaces(w)

(* A word that lies in t behind its first b characters. *)
Laid(t, b, w) ==
  /\ b + Size(w) <= Len(t)
  /\ w.quote # 0 => t[b + 1] = w.quote
  /\ \A i \in 1 .. Len(w.word) : t[b + Lead(w) + i] = w.word[i]
  /\ w.quote # 0 /\ w.gap >= 0 => t[b + Len(w.word) + 2] = w.quote
  /\ \A i \in (b + Size(w) - Spaces(w)) + 1 .. b + Size(w) : t[i] = 32

LEMMA SizeType ==
  ASSUME NEW w \in Word
  PROVE  /\ Len(w.word) \in Nat /\ Lead(w) \in {0, 1} /\ Trail(w) \in {0, 1}
         /\ Spaces(w) \in Nat /\ Size(w) \in Nat
         /\ Size(w) - Spaces(w) = Lead(w) + Len(w.word) + Trail(w)
<1>1. w.word \in Seq(Nat) /\ w.gap \in Nat \cup {-1}
  BY DEF Word
<1>2. Len(w.word) \in Nat
  BY <1>1
<1>3. Lead(w) \in {0, 1} /\ Trail(w) \in {0, 1} /\ Spaces(w) \in Nat
  BY <1>1 DEF Lead, Trail, Spaces
<1> QED
  BY <1>2, <1>3 DEF Size

Behind(s, w) == s \o Quoted(w) \o [i \in 1 .. w.gap |-> 32]

(* A word with its quotes.                                               *)
LEMMA QuotedIs ==
  ASSUME NEW w \in Word
  PROVE  /\ Quoted(w) \in Seq(Nat) /\ Len(Quoted(w)) = Lead(w) + Len(w.word) + Trail(w)
         /\ w.quote # 0 => Quoted(w)[1] = w.quote
         /\ \A i \in 1 .. Len(w.word) : Quoted(w)[Lead(w) + i] = w.word[i]
         /\ w.quote # 0 /\ w.gap >= 0 => Quoted(w)[Len(w.word) + 2] = w.quote
<1>1. w.word \in Seq(Nat) /\ w.quote \in Nat /\ w.gap \in Nat \cup {-1}
  BY DEF Word, Quotes
<1>2. CASE w.quote = 0
  BY <1>1, <1>2 DEF Quoted, Lead, Trail
<1>3. CASE w.quote # 0 /\ w.gap < 0
  BY <1>1, <1>3 DEF Quoted, Lead, Trail
<1>4. CASE w.quote # 0 /\ w.gap >= 0
  <2>1. PICK x \in Seq(Nat) : x = <<w.quote>> /\ Len(x) = 1 /\ x[1] = w.quote
    <3>1. <<w.quote>> \in Seq(Nat) /\ Len(<<w.quote>>) = 1 /\ <<w.quote>>[1] = w.quote
      BY <1>1
    <3> QED
      BY <3>1
  <2>2. PICK n \in Nat : n = Len(w.word)
    BY <1>1
  <2>3. PICK u \in Seq(Nat) : /\ u = x \o w.word /\ Len(u) = 1 + n /\ u[1] = w.quote
                              /\ \A i \in 1 .. n : u[1 + i] = w.word[i]
    <3>1. (x \o w.word)[1] = x[1]
      BY <1>1, <2>1, Joined
    <3>2. /\ x \o w.word \in Seq(Nat) /\ Len(x \o w.word) = Len(x) + Len(w.word)
          /\ \A i \in 1 .. Len(w.word) : (x \o w.word)[Len(x) + i] = w.word[i]
      BY <1>1, Joined
    <3> QED
      BY <2>1, <2>2, <3>1, <3>2
  <2>4. PICK v \in Seq(Nat) : /\ v = u \o x /\ Len(v) = 2 + n /\ v[2 + n] = w.quote
                              /\ \A i \in 1 .. 1 + n : v[i] = u[i]
    <3>1. Len(u \o x) = 2 + n /\ u \o x \in Seq(Nat)
      BY <2>1, <2>2, <2>3, Joined
    <3>2. 1 \in 1 .. Len(x) /\ Len(u) + 1 = 2 + n
      BY <2>1, <2>2, <2>3
    <3>3. (u \o x)[Len(u) + 1] = x[1]
      BY <3>2, Joined
    <3>4. (u \o x)[2 + n] = w.quote
      BY <2>1, <3>2, <3>3
    <3>5. \A i \in 1 .. 1 + n : (u \o x)[i] = u[i]
      BY <2>3, Joined
    <3> QED
      BY <3>1, <3>4, <3>5
  <2>5. Quoted(w) = v
    <3>1. Quoted(w) = <<w.quote>> \o w.word \o <<w.quote>>
      <4>1. w.quote # 0 /\ ~(w.gap < 0)
        BY <1>1, <1>4
      <4> QED
        BY <4>1, Zenon DEF Quoted
    <3> QED
      BY <2>1, <2>3, <2>4, <3>1
  <2>6. Lead(w) = 1 /\ Trail(w) = 1
    BY <1>1, <1>4 DEF Lead, Trail
  <2>7. ASSUME NEW i \in 1 .. n PROVE v[1 + i] = w.word[i]
    <3>1. 1 + i \in 1 .. 1 + n
      BY <2>2
    <3> QED
      BY <2>3, <2>4, <3>1
  <2>8. v[1] = w.quote /\ Len(v) = 1 + n + 1 /\ v[n + 2] = w.quote
    BY <2>2, <2>3, <2>4
  <2> QED
    BY <2>2, <2>5, <2>6, <2>7, <2>8
<1> QED
  BY <1>1, <1>2, <1>3, <1>4

(* A word written behind s lies in the result; s stays as it was.        *)
LEMMA BehindIs ==
  ASSUME NEW s \in Seq(Nat), NEW w \in Word
  PROVE  /\ Behind(s, w) \in Seq(Nat) /\ Len(Behind(s, w)) = Len(s) + Size(w)
         /\ \A i \in 1 .. Len(s) : Behind(s, w)[i] = s[i]
         /\ Laid(Behind(s, w), Len(s), w)
<1>1. PICK q \in Seq(Nat) : /\ q = Quoted(w)
                            /\ Len(q) = Lead(w) + Len(w.word) + Trail(w)
                            /\ w.quote # 0 => q[1] = w.quote
                            /\ \A i \in 1 .. Len(w.word) : q[Lead(w) + i] = w.word[i]
                            /\ w.quote # 0 /\ w.gap >= 0 => q[Len(w.word) + 2] = w.quote
  BY QuotedIs
<1>2. PICK z \in Seq(Nat) : z = [i \in 1 .. w.gap |-> 32] /\ Len(z) = Spaces(w)
  <2>1. CASE w.gap \in Nat
    <3>1. [i \in 1 .. w.gap |-> 32] \in Seq(Nat) /\ Len([i \in 1 .. w.gap |-> 32]) = w.gap
      BY <2>1
    <3> QED
      BY <2>1, <3>1 DEF Spaces
  <2>2. CASE w.gap = -1
    <3>1. [i \in 1 .. w.gap |-> 32] = <<>> /\ <<>> \in Seq(Nat) /\ Len(<<>>) = 0
      BY <2>2
    <3>2. Spaces(w) = 0
      BY <2>2 DEF Spaces
    <3> QED
      BY <3>1, <3>2
  <2>3. w.gap \in Nat \cup {-1}
    BY DEF Word
  <2> QED
    BY <2>1, <2>2, <2>3
<1>3. \A i \in 1 .. Len(z) : z[i] = 32
  <2> TAKE i \in 1 .. Len(z)
  <2>1. i \in 1 .. w.gap
    <3>1. w.gap \in Nat \cup {-1}
      BY DEF Word
    <3>2. (w.gap < 0 /\ Spaces(w) = 0) \/ Spaces(w) = w.gap
      BY DEF Spaces
    <3>3. CASE Spaces(w) = 0
      <4>1. Len(z) = 0
        BY <1>2, <3>3
      <4> QED
        BY <4>1
    <3> QED
      BY <1>2, <3>2, <3>3
  <2> QED
    BY <1>2, <2>1
<1>13. PICK r \in Seq(Nat) : /\ r = s \o q /\ Len(r) = Len(s) + Len(q)
                             /\ \A i \in 1 .. Len(s) : r[i] = s[i]
                             /\ \A i \in 1 .. Len(q) : r[Len(s) + i] = q[i]
  BY Joined
<1>4. PICK t \in Seq(Nat) : /\ t = r \o z /\ Len(t) = Len(r) + Len(z)
                            /\ \A i \in 1 .. Len(r) : t[i] = r[i]
                            /\ \A i \in 1 .. Len(z) : t[Len(r) + i] = z[i]
  BY Joined
<1>14. t = Behind(s, w)
  BY <1>1, <1>2, <1>4, <1>13 DEF Behind
<1>15. Len(s) \in Nat /\ Len(q) \in Nat /\ Len(z) \in Nat
  OBVIOUS
<1>5. /\ Len(t) = Len(s) + Len(q) + Len(z)
      /\ \A i \in 1 .. Len(s) : t[i] = s[i]
      /\ \A i \in 1 .. Len(q) : t[Len(s) + i] = q[i]
      /\ \A i \in 1 .. Len(z) : t[Len(s) + Len(q) + i] = z[i]
  <2>1. ASSUME NEW i \in 1 .. Len(q) PROVE t[Len(s) + i] = q[i]
    <3>1. Len(s) + i \in 1 .. Len(r)
      BY <1>13, <1>15
    <3> QED
      BY <1>4, <1>13, <3>1
  <2> QED
    BY <1>4, <1>13, <1>15, <2>1
<1>6. PICK m \in Nat, a \in Nat, e \in Nat, g \in Nat, b \in Nat :
        m = Len(w.word) /\ a = Lead(w) /\ e = Trail(w) /\ g = Spaces(w) /\ b = Len(s)
  BY <1>15, SizeType
<1>7. Size(w) = a + m + e + g /\ Len(q) = a + m + e /\ Len(z) = g
  BY <1>1, <1>2, <1>6 DEF Size
<1>8. w.quote # 0 => t[b + 1] = w.quote /\ a = 1
  <2> HAVE w.quote # 0
  <2>1. a = 1
    BY <1>6 DEF Lead
  <2>2. 1 \in 1 .. Len(q)
    BY <1>6, <1>7, <2>1
  <2>3. t[Len(s) + 1] = q[1]
    BY <1>5, <2>2
  <2> QED
    BY <1>1, <1>6, <2>1, <2>3
<1>9. \A i \in 1 .. m : t[b + a + i] = w.word[i]
  <2> TAKE i \in 1 .. m
  <2>1. a + i \in 1 .. Len(q)
    <3>1. i \in Nat /\ 1 <= i /\ i <= m
      OBVIOUS
    <3>2. a + i \in Nat /\ 1 <= a + i /\ a + i <= a + m + e
      BY <3>1
    <3> QED
      BY <1>7, <3>2
  <2>2. t[b + (a + i)] = q[a + i]
    BY <1>5, <1>6, <2>1
  <2>4. i \in Nat /\ b + (a + i) = b + a + i
    OBVIOUS
  <2> QED
    BY <1>1, <1>6, <2>2, <2>4
<1>10. w.quote # 0 /\ w.gap >= 0 => t[b + m + 2] = w.quote
  <2> HAVE w.quote # 0 /\ w.gap >= 0
  <2>1. a = 1 /\ e = 1
    BY <1>6 DEF Lead, Trail, Word
  <2>2. m + 2 \in 1 .. Len(q) /\ b + (m + 2) = b + m + 2
    BY <1>6, <1>7, <2>1
  <2> QED
    BY <1>1, <1>5, <1>6, <2>2
<1>11. \A i \in (b + Size(w) - g) + 1 .. b + Size(w) : t[i] = 32
  <2> TAKE i \in (b + Size(w) - g) + 1 .. b + Size(w)
  <2>1. i \in (b + (a + m + e + g) - g) + 1 .. b + (a + m + e + g)
    BY <1>7
  <2>2. PICK d \in 1 .. g : b + (a + m + e) + d = i
    <3>1. i - (b + a + m + e) \in 1 .. g /\ b + (a + m + e) + (i - (b + a + m + e)) = i
      BY <2>1
    <3> QED
      BY <3>1
  <2>3. d \in 1 .. Len(z)
    BY <1>7
  <2>4. t[Len(s) + Len(q) + d] = z[d] /\ z[d] = 32
    BY <1>3, <1>5, <2>3
  <2> QED
    BY <1>6, <1>7, <2>2, <2>4
<1>12. Laid(t, b, w)
  <2>1. b + Size(w) <= Len(t)
    <3>1. Len(t) = b + (a + m + e) + g
      BY <1>5, <1>6, <1>7
    <3>2. b + (a + m + e + g) <= b + (a + m + e) + g
      OBVIOUS
    <3> QED
      BY <1>7, <3>1, <3>2
  <2>2. /\ \A i \in 1 .. Len(w.word) : t[b + Lead(w) + i] = w.word[i]
        /\ w.quote # 0 /\ w.gap >= 0 => t[b + Len(w.word) + 2] = w.quote
        /\ \A i \in (b + Size(w) - Spaces(w)) + 1 .. b + Size(w) : t[i] = 32
    BY <1>6, <1>9, <1>10, <1>11
  <2> QED
    BY <1>8, <2>1, <2>2 DEF Laid
<1> QED
  <2>1. Len(t) = Len(s) + Size(w)
    BY <1>5, <1>6, <1>7
  <2> QED
    BY <1>5, <1>6, <1>12, <1>14, <2>1

(* A word stays where it is when more is written behind.                 *)
LEMMA LaidOn ==
  ASSUME NEW s \in Seq(Nat), NEW t \in Seq(Nat), Len(s) <= Len(t),
         \A i \in 1 .. Len(s) : t[i] = s[i],
         NEW b \in Nat, NEW w \in Word, Laid(s, b, w)
  PROVE  Laid(t, b, w)
<1>1. PICK m \in Nat, a \in Nat, e \in Nat, g \in Nat :
        m = Len(w.word) /\ a = Lead(w) /\ e = Trail(w) /\ g = Spaces(w)
  BY SizeType
<1>2. Size(w) = a + m + e + g /\ Len(s) \in Nat /\ Len(t) \in Nat
  BY <1>1 DEF Size
<1>3. b + (a + m + e + g) <= Len(s)
  BY <1>2 DEF Laid
<1>4. w.quote # 0 => t[b + 1] = w.quote
  <2> HAVE w.quote # 0
  <2>1. a = 1
    BY <1>1 DEF Lead
  <2> QED
    BY <1>1, <1>2, <1>3, <2>1 DEF Laid
<1>5. ASSUME NEW i \in 1 .. m PROVE t[b + a + i] = w.word[i]
  <2>1. b + a + i \in 1 .. Len(s)
    BY <1>2, <1>3
  <2> QED
    BY <1>1, <2>1 DEF Laid
<1>6. w.quote # 0 /\ w.gap >= 0 => t[b + m + 2] = w.quote
  <2> HAVE w.quote # 0 /\ w.gap >= 0
  <2>1. a = 1 /\ e = 1
    BY <1>1 DEF Lead, Trail, Word
  <2> QED
    <3>1. b + m + 2 \in 1 .. Len(s)
      BY <1>2, <1>3, <2>1
    <3> QED
      BY <1>1, <3>1 DEF Laid
<1>7. ASSUME NEW i \in (b + Size(w) - g) + 1 .. b + Size(w) PROVE t[i] = 32
  <2>1. i \in (b + a + m + e) + 1 .. b + a + m + e + g
    BY ONLY <1>2, i \in (b + Size(w) - g) + 1 .. b + Size(w),
            b \in Nat, a \in Nat, m \in Nat, e \in Nat, g \in Nat
  <2>2. i \in 1 .. Len(s)
    BY ONLY <1>2, <1>3, <2>1, b \in Nat, a \in Nat, m \in Nat, e \in Nat, g \in Nat
  <2> QED
    BY <1>1, <2>2 DEF Laid
<1>8. b + Size(w) <= Len(t)
  <2>1. Len(s) <= Len(t)
    OBVIOUS
  <2> QED
    BY ONLY <1>2, <1>3, <2>1, b \in Nat, a \in Nat, m \in Nat, e \in Nat, g \in Nat
<1>9. \A i \in 1 .. Len(w.word) : t[b + Lead(w) + i] = w.word[i]
  BY ONLY <1>1, <1>5
<1>10. w.quote # 0 /\ w.gap >= 0 => t[b + Len(w.word) + 2] = w.quote
  BY ONLY <1>1, <1>6
<1>11. \A i \in (b + Size(w) - Spaces(w)) + 1 .. b + Size(w) : t[i] = 32
  BY ONLY <1>1, <1>7
<1> QED
  BY ONLY <1>4, <1>8, <1>9, <1>10, <1>11 DEF Laid

(* The tail after k words, as in Written. *)
Texts(line) ==
  CHOOSE f : f = [k \in 0 .. Len(line) |->
                    IF k = 0 THEN <<>>
                    ELSE f[k - 1] \o Quoted(line[k]) \o [i \in 1 .. line[k].gap |-> 32]]

(* Where the k-th word ends, with its blanks. *)
Ends(line) == [k \in 0 .. Len(line) |-> Len(Texts(line)[k])]

WrittenTo(f, line, m) == /\ f \in [0 .. m -> Seq(Nat)] /\ f[0] = <<>>
                         /\ \A k \in 1 .. m : f[k] = Behind(f[k - 1], line[k])

(* The recursion of Written has a solution: prefix by prefix.            *)
LEMMA SomeTexts ==
  ASSUME NEW line \in Seq(Word)
  PROVE  \E f : WrittenTo(f, line, Len(line))
<1> DEFINE S == {m \in Nat : m <= Len(line) => \E f : WrittenTo(f, line, m)}
<1>1. 0 \in S
  <2>1. WrittenTo([k \in 0 .. 0 |-> <<>>], line, 0)
    BY DEF WrittenTo
  <2> QED
    BY <2>1
<1>2. ASSUME NEW m \in 0 .. Len(line) - 1, m \in S PROVE m + 1 \in S
  <2>1. m \in Nat /\ m + 1 \in 1 .. Len(line) /\ m <= Len(line)
    OBVIOUS
  <2>2. PICK f : WrittenTo(f, line, m)
    BY <1>2, <2>1
  <2>3. line[m + 1] \in Word /\ f[m] \in Seq(Nat)
    BY <2>1, <2>2 DEF WrittenTo
  <2>4. Behind(f[m], line[m + 1]) \in Seq(Nat)
    BY <2>3, BehindIs
  <2> DEFINE h == [k \in 0 .. m + 1 |-> IF k <= m THEN f[k] ELSE Behind(f[m], line[m + 1])]
  <2>5. h \in [0 .. m + 1 -> Seq(Nat)]
    BY <2>1, <2>2, <2>4 DEF WrittenTo
  <2>6. h[0] = <<>>
    BY <2>1, <2>2 DEF WrittenTo
  <2>7. ASSUME NEW k \in 1 .. m + 1 PROVE h[k] = Behind(h[k - 1], line[k])
    <3>1. CASE k <= m
      <4>1. h[k] = f[k] /\ h[k - 1] = f[k - 1] /\ k \in 1 .. m
        BY <2>1, <3>1
      <4> QED
        BY <2>2, <4>1 DEF WrittenTo
    <3>2. CASE k = m + 1
      <4>1. h[k] = Behind(f[m], line[m + 1]) /\ h[k - 1] = f[m]
        BY <2>1, <3>2
      <4> QED
        BY <3>2, <4>1
    <3> QED
      BY <2>1, <3>1, <3>2
  <2>8. WrittenTo(h, line, m + 1)
    BY <2>5, <2>6, <2>7 DEF WrittenTo
  <2> QED
    BY <2>1, <2>8
<1>3. Len(line) \in Nat
  OBVIOUS
<1>4. \A m \in 0 .. Len(line) : m \in S
  <2> HIDE DEF S
  <2> QED
    BY <1>1, <1>2, <1>3, UpTo
<1>5. Len(line) \in S
  BY <1>3, <1>4
<1> QED
  BY <1>3, <1>5

(* So the tail is the last of the texts.                                 *)
LEMMA TextsAre ==
  ASSUME NEW line \in Seq(Word)
  PROVE  WrittenTo(Texts(line), line, Len(line)) /\ Written(line) = Texts(line)[Len(line)]
<1>1. PICK f : WrittenTo(f, line, Len(line))
  BY SomeTexts
<1>2. f = [k \in 0 .. Len(line) |-> f[k]] /\ f[0] = <<>>
  BY <1>1 DEF WrittenTo
<1>3. ASSUME NEW k \in 0 .. Len(line)
      PROVE  f[k] = IF k = 0 THEN <<>>
                    ELSE f[k - 1] \o Quoted(line[k]) \o [i \in 1 .. line[k].gap |-> 32]
  <2>1. k # 0 => k \in 1 .. Len(line)
    OBVIOUS
  <2> QED
    BY <1>1, <1>2, <2>1 DEF WrittenTo, Behind
<1>4. f = [k \in 0 .. Len(line) |->
             IF k = 0 THEN <<>>
             ELSE f[k - 1] \o Quoted(line[k]) \o [i \in 1 .. line[k].gap |-> 32]]
  BY <1>2, <1>3
<1>5. Texts(line) = [k \in 0 .. Len(line) |->
             IF k = 0 THEN <<>>
             ELSE Texts(line)[k - 1] \o Quoted(line[k]) \o [i \in 1 .. line[k].gap |-> 32]]
  BY <1>4 DEF Texts
<1>6. PICK h : h = Texts(line)
  OBVIOUS
<1>7. h = [k \in 0 .. Len(line) |-> IF k = 0 THEN <<>> ELSE Behind(h[k - 1], line[k])]
  BY <1>5, <1>6 DEF Behind
<1>8. Len(line) \in Nat /\ h[0] = <<>>
  BY <1>7
<1>9. \A k \in 1 .. Len(line) : h[k] = Behind(h[k - 1], line[k])
  BY <1>7
<1> DEFINE S == {m \in Nat : m <= Len(line) => h[m] \in Seq(Nat)}
<1>10. \A m \in 0 .. Len(line) : m \in S
  <2>1. 0 \in S
    <3>1. <<>> \in Seq(Nat)
      OBVIOUS
    <3> QED
      BY <1>8, <3>1
  <2>2. ASSUME NEW m \in 0 .. Len(line) - 1, m \in S PROVE m + 1 \in S
    <3>1. m \in Nat /\ m <= Len(line) /\ m + 1 \in 1 .. Len(line) /\ (m + 1) - 1 = m
      BY <1>8
    <3>2. h[m] \in Seq(Nat) /\ line[m + 1] \in Word
      BY <2>2, <3>1
    <3>3. h[m + 1] = Behind(h[m], line[m + 1])
      BY <1>9, <3>1
    <3>4. Behind(h[m], line[m + 1]) \in Seq(Nat)
      BY <3>2, BehindIs
    <3> QED
      BY <3>1, <3>3, <3>4
  <2> HIDE DEF S
  <2> QED
    BY <1>8, <2>1, <2>2, UpTo
<1>11. h \in [0 .. Len(line) -> Seq(Nat)]
  BY <1>7, <1>10
<1>12. Written(line) = Texts(line)[Len(line)]
  BY DEF Written, Texts
<1> QED
  BY <1>6, <1>8, <1>9, <1>11, <1>12 DEF WrittenTo

(* Every word of the line lies in the tail, one behind the other. *)
LEMMA Layout ==
  ASSUME NEW line \in Seq(Word)
  PROVE  /\ Written(line) \in Seq(Nat) /\ Ends(line) \in [0 .. Len(line) -> Nat]
         /\ Ends(line)[0] = 0 /\ Ends(line)[Len(line)] = Len(Written(line))
         /\ \A k \in 1 .. Len(line) : /\ Ends(line)[k] = Ends(line)[k - 1] + Size(line[k])
                                      /\ Laid(Written(line), Ends(line)[k - 1], line[k])
<1>1. PICK N \in Nat : N = Len(line)
  OBVIOUS
<1>2. PICK f : f = Texts(line)
  OBVIOUS
<1>3. /\ f \in [0 .. N -> Seq(Nat)] /\ f[0] = <<>> /\ Written(line) = f[N]
      /\ \A k \in 1 .. N : f[k] = Behind(f[k - 1], line[k])
  BY <1>1, <1>2, TextsAre DEF WrittenTo
<1>4. PICK e \in [0 .. N -> Nat] : e = [k \in 0 .. N |-> Len(f[k])]
  <2>1. \A k \in 0 .. N : Len(f[k]) \in Nat
    BY <1>3
  <2> QED
    BY <2>1
<1>5. e = Ends(line)
  BY <1>1, <1>2, <1>4 DEF Ends
<1>6. ASSUME NEW k \in 1 .. N
      PROVE  /\ k - 1 \in 0 .. N /\ k \in 0 .. N /\ line[k] \in Word
             /\ f[k - 1] \in Seq(Nat) /\ f[k] \in Seq(Nat)
             /\ e[k - 1] = Len(f[k - 1]) /\ e[k] = Len(f[k])
             /\ Len(f[k]) = Len(f[k - 1]) + Size(line[k])
             /\ \A i \in 1 .. Len(f[k - 1]) : f[k][i] = f[k - 1][i]
             /\ Laid(f[k], Len(f[k - 1]), line[k])
  <2>1. k - 1 \in 0 .. N /\ k \in 0 .. N
    OBVIOUS
  <2>2. line[k] \in Word /\ f[k - 1] \in Seq(Nat) /\ f[k] \in Seq(Nat)
    <3>1. f[k - 1] \in Seq(Nat) /\ f[k] \in Seq(Nat)
      BY <1>3, <2>1
    <3>2. line[k] \in Word
      BY <1>1
    <3> QED
      BY <3>1, <3>2
  <2>3. f[k] = Behind(f[k - 1], line[k])
    BY <1>3
  <2>4. e[k - 1] = Len(f[k - 1]) /\ e[k] = Len(f[k])
    BY <1>4, <2>1
  <2>5. PICK t \in Seq(Nat), w \in Word : t = f[k - 1] /\ w = line[k]
    BY <2>2
  <2>6. /\ Len(Behind(t, w)) = Len(t) + Size(w)
        /\ \A i \in 1 .. Len(t) : Behind(t, w)[i] = t[i]
        /\ Laid(Behind(t, w), Len(t), w)
    BY BehindIs
  <2> QED
    BY <2>1, <2>2, <2>3, <2>4, <2>5, <2>6
<1> DEFINE S == {m \in Nat : m <= N => \A k \in 1 .. m : Laid(f[m], e[k - 1], line[k])}
<1>7. \A m \in 0 .. N : m \in S
  <2>1. 0 \in S
    OBVIOUS
  <2>2. ASSUME NEW m \in 0 .. N - 1, m \in S PROVE m + 1 \in S
    <3>1. m \in Nat /\ m <= N /\ m + 1 \in Nat /\ m + 1 \in 1 .. N /\ (m + 1) - 1 = m /\ m \in 0 .. N
      BY <1>1
    <3>2. ASSUME NEW k \in 1 .. m + 1 PROVE Laid(f[m + 1], e[k - 1], line[k])
      <4>1. CASE k = m + 1
        BY <1>6, <3>1, <4>1
      <4>2. CASE k \in 1 .. m
        <5>1. Laid(f[m], e[k - 1], line[k])
          BY <2>2, <3>1, <4>2
        <5>2. line[k] \in Word /\ e[k - 1] \in Nat
          <6>1. k \in 1 .. N /\ k - 1 \in 0 .. N
            BY <3>1, <4>2
          <6> QED
            BY <1>4, <1>6, <6>1
        <5>3. /\ f[m] \in Seq(Nat) /\ f[m + 1] \in Seq(Nat)
              /\ Len(f[m + 1]) = Len(f[m]) + Size(line[m + 1]) /\ line[m + 1] \in Word
              /\ \A i \in 1 .. Len(f[m]) : f[m + 1][i] = f[m][i]
          BY <1>6, <3>1
        <5>4. Len(f[m]) <= Len(f[m + 1])
          <6>1. Size(line[m + 1]) \in Nat
            BY <5>3, SizeType
          <6>2. Len(f[m]) \in Nat
            BY <5>3
          <6> QED
            BY <5>3, <6>1, <6>2
        <5>5. PICK t \in Seq(Nat), u \in Seq(Nat), w \in Word, b \in Nat :
                t = f[m] /\ u = f[m + 1] /\ w = line[k] /\ b = e[k - 1]
          BY <5>2, <5>3
        <5>6. Laid(t, b, w) /\ Len(t) <= Len(u) /\ \A i \in 1 .. Len(t) : u[i] = t[i]
          BY <5>1, <5>3, <5>4, <5>5
        <5>7. Laid(u, b, w)
          BY <5>6, LaidOn
        <5> QED
          BY <5>5, <5>7
      <4> QED
        BY <3>1, <4>1, <4>2
    <3> QED
      BY <3>1, <3>2
  <2> HIDE DEF S
  <2> QED
    BY <1>1, <2>1, <2>2, UpTo
<1>8. \A k \in 1 .. N : Laid(f[N], e[k - 1], line[k])
  <2>1. N \in S
    BY <1>1, <1>7
  <2> QED
    BY <1>1, <2>1
<1>9. \A k \in 1 .. N : e[k] = e[k - 1] + Size(line[k])
  BY <1>6
<1>10. e[0] = 0 /\ e[N] = Len(f[N])
  <2>1. 0 \in 0 .. N /\ N \in 0 .. N
    BY <1>1
  <2> QED
    BY <1>3, <1>4, <2>1
<1>11. f[N] \in Seq(Nat)
  BY <1>1, <1>3
<1> QED
  BY <1>1, <1>3, <1>5, <1>8, <1>9, <1>10, <1>11

(* Where the k-th word begins, behind its quote. *)
Starts(line, k) == Ends(line)[k - 1] + Lead(line[k]) + 1
Letters(line, k) == Len(line[k].word)

(* The k-th of them: n letters behind b characters of T, with s blanks.    *)
Place(line, k, b, n, s, z, T) ==
  /\ b = Ends(line)[k - 1] /\ n = Letters(line, k) /\ z = Len(T) /\ T = Written(line)
  /\ s = Spaces(line[k]) /\ line[k] \in Word /\ k - 1 \in 0 .. Len(line)
  /\ Starts(line, k) = b + Lead(line[k]) + 1
  /\ Ends(line)[k] = b + Lead(line[k]) + n + Trail(line[k]) + s
  /\ b + Lead(line[k]) + n + Trail(line[k]) + s <= z
  /\ line[k].quote # 0 => T[b + 1] = line[k].quote
  /\ \A i \in 1 .. n : T[b + Lead(line[k]) + i] = line[k].word[i]
  /\ line[k].quote # 0 /\ line[k].gap >= 0 => T[b + n + 2] = line[k].quote
  /\ \A i \in (b + Lead(line[k]) + n + Trail(line[k])) + 1
              .. b + Lead(line[k]) + n + Trail(line[k]) + s : T[i] = 32

(* Every word has its place.                                             *)
LEMMA Placed ==
  ASSUME NEW line \in Seq(Word), NEW k \in 1 .. Len(line)
  PROVE  \E b, n, s, z \in Nat, T \in Seq(Nat) : Place(line, k, b, n, s, z, T)
<1>1. PICK N \in Nat : N = Len(line) /\ k - 1 \in 0 .. N /\ k \in 0 .. N
  OBVIOUS
<1>2. PICK T \in Seq(Nat), z \in Nat : T = Written(line) /\ z = Len(T)
  BY Layout
<1>3. PICK w \in Word : w = line[k]
  BY <1>1
<1>4. PICK b \in Nat : b = Ends(line)[k - 1]
  BY <1>1, Layout
<1>5. Ends(line)[k] = b + Size(w) /\ Laid(T, b, w)
  BY <1>1, <1>2, <1>3, <1>4, Layout
<1>6. PICK n \in Nat, a \in Nat, e \in Nat, s \in Nat :
        n = Len(w.word) /\ a = Lead(w) /\ e = Trail(w) /\ s = Spaces(w)
  BY SizeType
<1>7. /\ b + Size(w) = b + a + n + e + s
      /\ b + Size(w) - s = b + a + n + e
  BY <1>6 DEF Size
<1>8. /\ b + a + n + e + s <= z
      /\ w.quote # 0 => T[b + 1] = w.quote
      /\ \A i \in 1 .. n : T[b + a + i] = w.word[i]
      /\ w.quote # 0 /\ w.gap >= 0 => T[b + n + 2] = w.quote
      /\ \A i \in (b + a + n + e) + 1 .. b + a + n + e + s : T[i] = 32
  <2>1. Laid(T, b, w)
    BY <1>5
  <2> QED
    BY <1>2, <1>6, <1>7, <2>1 DEF Laid
<1>9. Starts(line, k) = b + a + 1 /\ n = Letters(line, k)
  BY <1>3, <1>4, <1>6 DEF Starts, Letters
<1>10. Ends(line)[k] = b + a + n + e + s
  BY <1>5, <1>7
<1>11. /\ b + Lead(line[k]) + n + Trail(line[k]) + s <= z
       /\ line[k].quote # 0 => T[b + 1] = line[k].quote
       /\ \A i \in 1 .. n : T[b + Lead(line[k]) + i] = line[k].word[i]
       /\ line[k].quote # 0 /\ line[k].gap >= 0 => T[b + n + 2] = line[k].quote
       /\ \A i \in (b + Lead(line[k]) + n + Trail(line[k])) + 1
                   .. b + Lead(line[k]) + n + Trail(line[k]) + s : T[i] = 32
  BY <1>3, <1>6, <1>8
<1>12. /\ Starts(line, k) = b + Lead(line[k]) + 1
       /\ Ends(line)[k] = b + Lead(line[k]) + n + Trail(line[k]) + s
       /\ s = Spaces(line[k]) /\ line[k] \in Word /\ n = Letters(line, k)
  BY <1>3, <1>6, <1>9, <1>10
<1>13. k - 1 \in 0 .. Len(line)
  BY <1>1
<1>14. Place(line, k, b, n, s, z, T)
  BY <1>2, <1>4, <1>11, <1>12, <1>13 DEF Place
<1> QED
  BY <1>14

(* The numbers of a place.                                               *)
LEMMA Edges ==
  ASSUME NEW line \in Seq(Word), NEW k \in 1 .. Len(line)
  PROVE  /\ line[k] \in Word /\ line[k].word \in Seq(Nat) /\ line[k].gap \in Nat \cup {-1}
         /\ Lead(line[k]) \in {0, 1} /\ Trail(line[k]) \in {0, 1}
         /\ Spaces(line[k]) \in Nat /\ Letters(line, k) \in Nat
         /\ Starts(line, k) \in Nat /\ Starts(line, k) >= 1
<1>1. PICK w \in Word : w = line[k]
  OBVIOUS
<1>2. /\ Lead(w) \in {0, 1} /\ Trail(w) \in {0, 1} /\ Spaces(w) \in Nat
      /\ Len(w.word) \in Nat /\ w.word \in Seq(Nat) /\ w.gap \in Nat \cup {-1}
  BY SizeType DEF Word
<1>3. Ends(line)[k - 1] \in Nat
  <2>1. k - 1 \in 0 .. Len(line)
    OBVIOUS
  <2> QED
    BY <2>1, Layout
<1>4. Starts(line, k) \in Nat /\ Starts(line, k) >= 1
  BY <1>1, <1>2, <1>3 DEF Starts
<1> QED
  BY <1>1, <1>2, <1>4 DEF Letters

-----------------------------------------------------------------------------
(* How far parse_args is. *)

(* The j-th word has an argument, a string with its letters.  t is the     *)
(* tail, c where parse_args is in it, and a argv.                          *)
Got(line, t, c, a, j) ==
  /\ line[j].gap >= 0
  /\ a[j + 1] = Starts(line, j)
  /\ Starts(line, j) + Letters(line, j) <= c
  /\ \A i \in 1 .. Letters(line, j) : t[Starts(line, j) - 1 + i] = line[j].word[i]
  /\ Starts(line, j) + Letters(line, j) <= Len(t) => t[Starts(line, j) + Letters(line, j)] = 0

(* The first k words have been read, and nothing behind c has been erased. *)
ReadTo(line, t, c, a, k) ==
  /\ k \in 0 .. Len(line)
  /\ c \in 1 .. Ends(line)[k] + 1
  /\ Len(t) = Len(Written(line))
  /\ \A i \in c .. Len(t) : t[i] = Written(line)[i]
  /\ \A i \in c .. Ends(line)[k] : Written(line)[i] = 32
  /\ Len(a) = k + 1 /\ a[1] = 0
  /\ \A j \in 1 .. k : Got(line, t, c, a, j)

(* What is erased from c on harms no argument before. *)
LEMMA GotStays ==
  ASSUME NEW line \in Seq(Word), NEW j \in 1 .. Len(line), NEW t, NEW u, NEW a, NEW v,
         NEW c \in Nat, NEW d \in Nat, NEW p \in Nat,
         Len(t) = Len(Written(line)), Len(u) = Len(t), c <= d, c <= p,
         \A i \in 1 .. Len(t) : u[i] = IF i = p THEN 0 ELSE t[i],
         v[j + 1] = a[j + 1], Got(line, t, c, a, j)
  PROVE  Got(line, u, d, v, j)
<1>1. PICK b \in Nat, n \in Nat, s \in Nat, z \in Nat, T \in Seq(Nat) :
        Place(line, j, b, n, s, z, T)
  BY Placed
<1>2. /\ n = Letters(line, j) /\ z = Len(t) /\ line[j] \in Word
      /\ Starts(line, j) = b + Lead(line[j]) + 1
      /\ b + Lead(line[j]) + n + Trail(line[j]) + s <= z
  BY <1>1 DEF Place
<1>3. PICK x \in Nat, l \in Nat : x = Starts(line, j) /\ l = Lead(line[j]) /\ x = b + l + 1
  <2>1. Lead(line[j]) \in Nat /\ Starts(line, j) \in Nat
    <3>1. Lead(line[j]) \in {0, 1} /\ Starts(line, j) \in Nat
      BY Edges, Zenon
    <3> QED
      BY <3>1
  <2> QED
    BY <1>2, <2>1
<1>4. x + n <= z + 1
  <2>1. PICK r \in Nat : r = Trail(line[j])
    BY Edges
  <2>2. b + l + n + r + s <= z
    BY <1>2, <1>3, <2>1
  <2>3. x = b + l + 1
    BY <1>3
  <2> QED
    BY <2>2, <2>3
<1>5. /\ a[j + 1] = x /\ x + n <= c /\ \A i \in 1 .. n : t[x - 1 + i] = line[j].word[i]
      /\ x + n <= z => t[x + n] = 0
  BY <1>2, <1>3 DEF Got
<1>6. \A i \in 1 .. n : u[x - 1 + i] = line[j].word[i]
  <2> TAKE i \in 1 .. n
  <2>1. x - 1 + i \in 1 .. z /\ x - 1 + i # p
    <3>1. x = b + l + 1 /\ x + n <= c /\ x + n <= z + 1
      BY <1>3, <1>4, <1>5
    <3> QED
      BY ONLY <3>1, c <= p, i \in 1 .. n, x \in Nat, n \in Nat, z \in Nat, c \in Nat, p \in Nat,
              b \in Nat, l \in Nat
  <2> QED
    BY <1>2, <1>5, <2>1
<1>7. x + n <= z => u[x + n] = 0
  <2> HAVE x + n <= z
  <2>1. x + n \in 1 .. z
    BY <1>3
  <2> QED
    BY <1>2, <1>5, <2>1
<1>8. x + n <= d
  BY <1>5
<1>9. line[j].gap >= 0
  BY DEF Got
<1> QED
  BY <1>2, <1>3, <1>5, <1>6, <1>7, <1>8, <1>9 DEF Got

(* A blank is skipped. *)
LEMMA GoesOn ==
  ASSUME NEW line \in Seq(Word), NEW t, NEW c, NEW a, NEW k,
         ReadTo(line, t, c, a, k), c <= Ends(line)[k]
  PROVE  ReadTo(line, t, c + 1, a, k)
<1>1. PICK N \in Nat, e \in Nat, z \in Nat :
        N = Len(line) /\ k \in 0 .. N /\ e = Ends(line)[k] /\ z = Len(t) /\ z = Len(Written(line))
  <2>1. Ends(line)[k] \in Nat /\ Len(Written(line)) \in Nat /\ Len(line) \in Nat
    BY Layout DEF ReadTo
  <2> QED
    BY <2>1 DEF ReadTo
<1>2. c \in Nat /\ c + 1 \in 1 .. e + 1 /\ c <= c + 1
  BY <1>1 DEF ReadTo
<1>3. \A i \in c + 1 .. z : i \in c .. z
  BY <1>1, <1>2
<1>4. \A i \in c + 1 .. e : i \in c .. e
  BY <1>1, <1>2
<1>5. ASSUME NEW j \in 1 .. k PROVE Got(line, t, c + 1, a, j)
  <2>1. Got(line, t, c, a, j) /\ j \in 1 .. Len(line)
    BY <1>1 DEF ReadTo
  <2>2. Starts(line, j) + Letters(line, j) <= c + 1
    <3>1. Starts(line, j) + Letters(line, j) \in Nat
      <4>1. Starts(line, j) \in Nat /\ Letters(line, j) \in Nat
        BY <2>1, Edges
      <4> QED
        BY <4>1
    <3> QED
      BY <1>2, <2>1, <3>1 DEF Got
  <2> QED
    BY <2>1, <2>2 DEF Got
<1> QED
  BY <1>1, <1>2, <1>3, <1>4, <1>5 DEF ReadTo

(* The k-th word, which begins at c, is cut at p, behind its letters; d is *)
(* where parse_args goes on.                                               *)
Cuts(line, k, t, u, c, p, d) ==
  /\ c = Ends(line)[k - 1] + 1
  /\ line[k].gap >= 0
  /\ line[k].quote = 0 /\ line[k].gap = 0 => k = Len(line)
  /\ p = Starts(line, k) + Letters(line, k)
  /\ d = IF p > Len(t) THEN p ELSE p + 1
  /\ Len(u) = Len(t) /\ \A i \in 1 .. Len(t) : u[i] = IF i = p THEN 0 ELSE t[i]

(* It gets an argument. *)
LEMMA GotNext ==
  ASSUME NEW line \in Seq(Word), NEW t, NEW u, NEW c \in Nat, NEW a \in Seq(Nat), NEW k \in Nat,
         NEW p \in Nat, NEW d \in Nat,
         ReadTo(line, t, c, a, k), k < Len(line), Cuts(line, k + 1, t, u, c, p, d)
  PROVE  ReadTo(line, u, d, Append(a, Starts(line, k + 1)), k + 1)
<1> DEFINE v == Append(a, Starts(line, k + 1))
<1>1. PICK N \in Nat : /\ N = Len(line) /\ k \in 0 .. N /\ k \in Nat
                       /\ k + 1 \in 1 .. N /\ (k + 1) - 1 = k
  <2>1. Len(line) \in Nat
    OBVIOUS
  <2> QED
    BY <2>1 DEF ReadTo
<1>2. PICK b \in Nat, n \in Nat, s \in Nat, z \in Nat, T \in Seq(Nat) :
        Place(line, k + 1, b, n, s, z, T)
  BY <1>1, Placed
<1>3. /\ b = Ends(line)[k] /\ n = Letters(line, k + 1) /\ z = Len(T) /\ T = Written(line)
      /\ s = Spaces(line[k + 1]) /\ Len(t) = z /\ Len(u) = z
  BY <1>1, <1>2 DEF Place, ReadTo, Cuts
<1>4. PICK w \in Word : /\ w = line[k + 1] /\ w.gap \in Nat /\ s = w.gap
  <2>1. line[k + 1] \in Word /\ line[k + 1].gap \in Nat \cup {-1}
    BY <1>1, Edges
  <2>2. line[k + 1].gap \in Nat
    BY <2>1 DEF Cuts
  <2>3. s = line[k + 1].gap
    BY <1>3, <2>2 DEF Spaces
  <2> QED
    BY <2>1, <2>2, <2>3
<1>5. PICK l \in Nat, r \in Nat : /\ l = Lead(w) /\ r = Trail(w)
                                  /\ (w.quote # 0 /\ l = 1 /\ r = 1) \/ (w.quote = 0 /\ l = 0 /\ r = 0)
  <2>1. ~(w.gap < 0)
    BY <1>4
  <2> QED
    BY <2>1 DEF Lead, Trail
<1>6. /\ Starts(line, k + 1) = b + l + 1
      /\ Ends(line)[k + 1] = b + l + n + r + s
      /\ b + l + n + r + s <= z
  BY <1>2, <1>4, <1>5 DEF Place
<1>7. /\ \A i \in 1 .. n : T[b + l + i] = w.word[i]
      /\ \A i \in (b + l + n + r) + 1 .. b + l + n + r + s : T[i] = 32
  BY <1>2, <1>4, <1>5 DEF Place
<1>8. p = b + l + n + 1 /\ c = b + 1 /\ c <= p
  <2>1. p = Starts(line, k + 1) + n /\ c = b + 1
    BY <1>1, <1>3 DEF Cuts
  <2>2. p = b + l + 1 + n
    BY <1>6, <2>1
  <2>3. c = b + 1
    BY <2>1
  <2> QED
    BY ONLY <2>2, <2>3, b \in Nat, l \in Nat, n \in Nat
<1>18. (p > z /\ d = p) \/ (p <= z /\ d = p + 1)
  BY <1>3 DEF Cuts
<1>9. p <= d /\ d <= b + l + n + r + s + 1 /\ b + l + n + r + 1 <= d
  <2>1. CASE w.quote # 0
    <3>1. l = 1 /\ r = 1 /\ p = b + n + 2 /\ p <= z
      <4>1. l = 1 /\ r = 1
        BY <1>5, <2>1
      <4>2. b + 1 + n + 1 + s <= z /\ p = b + 1 + n + 1
        BY <1>6, <1>8, <4>1
      <4> QED
        BY <4>1, <4>2
    <3> QED
      BY <1>18, <3>1
  <2>2. CASE w.quote = 0 /\ s = 0
    <3>1. k + 1 = N
      BY <1>1, <1>4, <2>2 DEF Cuts
    <3>2. z = b + l + n + r + s
      BY <1>1, <1>3, <1>6, <3>1, Layout
    <3>3. l = 0 /\ r = 0 /\ p = z + 1 /\ d = p
      BY <1>5, <1>8, <1>18, <2>2, <3>2
    <3> QED
      BY <2>2, <3>2, <3>3
  <2>3. CASE w.quote = 0 /\ s # 0
    <3>1. l = 0 /\ r = 0 /\ p = b + n + 1 /\ p <= z
      BY <1>5, <1>6, <1>8, <2>3
    <3> QED
      BY <1>18, <2>3, <3>1
  <2> QED
    BY <2>1, <2>2, <2>3
<1>10. c <= d
  BY <1>8, <1>9
<1>19. \A i \in 1 .. z : u[i] = IF i = p THEN 0 ELSE t[i]
  BY <1>3 DEF Cuts
<1>11. \A i \in c .. z : t[i] = T[i]
  BY <1>3 DEF ReadTo
<1>12. \A i \in d .. Len(u) : u[i] = T[i]
  <2> TAKE i \in d .. Len(u)
  <2>1. i \in Nat /\ d <= i /\ i <= z
    BY <1>3, <1>9
  <2>2. i # p /\ i \in 1 .. z /\ i \in c .. z
    BY <1>10, <1>18, <2>1
  <2> QED
    BY <1>3, <1>11, <1>19, <2>2
<1>13. \A i \in d .. Ends(line)[k + 1] : T[i] = 32
  <2> TAKE i \in d .. Ends(line)[k + 1]
  <2>1. i \in (b + l + n + r) + 1 .. b + l + n + r + s
    BY <1>6, <1>9
  <2> QED
    BY <1>7, <2>1
<1>14. /\ Len(a) = k + 1 /\ Len(v) = k + 2 /\ v[1] = 0 /\ v[k + 2] = Starts(line, k + 1)
       /\ \A j \in 1 .. k : v[j + 1] = a[j + 1]
  <2>1. Len(a) = k + 1 /\ a[1] = 0 /\ Starts(line, k + 1) \in Nat
    BY <1>6 DEF ReadTo
  <2>2. \A j \in 1 .. k : j + 1 \in 1 .. Len(a)
    BY <1>1, <2>1
  <2>3. 1 \in 1 .. Len(a) /\ Len(a) + 1 = k + 2
    BY <1>1, <2>1
  <2>4. /\ Len(v) = Len(a) + 1 /\ v[Len(a) + 1] = Starts(line, k + 1)
        /\ \A i \in 1 .. Len(a) : v[i] = a[i]
    BY <2>1
  <2> HIDE DEF v
  <2> QED
    BY <2>1, <2>2, <2>3, <2>4
<1>15. ASSUME NEW j \in 1 .. k PROVE Got(line, u, d, v, j)
  <2>1. Got(line, t, c, a, j) /\ j \in 1 .. Len(line)
    BY <1>1 DEF ReadTo
  <2>2. v[j + 1] = a[j + 1] /\ Len(t) = Len(Written(line))
    BY <1>3, <1>14
  <2>3. Len(u) = Len(t) /\ \A i \in 1 .. Len(t) : u[i] = IF i = p THEN 0 ELSE t[i]
    BY DEF Cuts
  <2> HIDE DEF v
  <2> QED
    <3>1. /\ j \in 1 .. Len(line) /\ Len(t) = Len(Written(line)) /\ Len(u) = Len(t)
          /\ c <= d /\ c <= p /\ \A i \in 1 .. Len(t) : u[i] = IF i = p THEN 0 ELSE t[i]
          /\ v[j + 1] = a[j + 1] /\ Got(line, t, c, a, j)
      BY <1>8, <1>10, <2>1, <2>2, <2>3
    <3> QED
      BY ONLY line \in Seq(Word), c \in Nat, d \in Nat, p \in Nat, <3>1, GotStays, ZenonT(60)
<1>16. Got(line, u, d, v, k + 1)
  <2>1. ASSUME NEW i \in 1 .. n PROVE u[Starts(line, k + 1) - 1 + i] = w.word[i]
    <3>1. i \in Nat /\ 1 <= i /\ i <= n
      OBVIOUS
    <3>2. /\ Starts(line, k + 1) - 1 + i = b + l + i /\ b + l + i \in 1 .. z /\ b + l + i \in c .. z
          /\ b + l + i # p
      BY <1>6, <1>8, <3>1
    <3>3. u[b + l + i] = T[b + l + i] /\ T[b + l + i] = w.word[i]
      BY <1>7, <1>11, <1>19, <3>2
    <3> QED
      BY <3>2, <3>3
  <2>2. p <= Len(u) => u[p] = 0
    <3> HAVE p <= Len(u)
    <3>1. p \in 1 .. z
      BY <1>3, <1>8
    <3> QED
      BY <1>19, <3>1
  <2>3. v[(k + 1) + 1] = Starts(line, k + 1)
    BY <1>1, <1>14
  <2> HIDE DEF v
  <2> QED
    BY <1>3, <1>4, <1>9, <2>1, <2>2, <2>3 DEF Got, Cuts
<1>17. d \in 1 .. Ends(line)[k + 1] + 1
  BY <1>6, <1>9
<1> QED
  <2>1. ASSUME NEW j \in 1 .. k + 1 PROVE Got(line, u, d, v, j)
    <3>1. j \in 1 .. k \/ j = k + 1
      BY <1>1
    <3> QED
      BY <1>15, <1>16, <3>1
  <2>2. Len(v) = (k + 1) + 1 /\ k + 1 \in 0 .. Len(line)
    BY <1>1, <1>14
  <2> HIDE DEF v
  <2>3. ReadTo(line, u, d, v, k + 1)
    BY <1>3, <1>12, <1>13, <1>14, <1>17, <2>1, <2>2 DEF ReadTo
  <2> QED
    BY <2>3 DEF v

-----------------------------------------------------------------------------
(* The characters of the tail. *)

(* NextOf is the first of its characters.                                *)
LEMMA NextOfIs ==
  ASSUME tail \in Seq(Nat), NEW p \in Nat, NEW chars, NEW q \in p .. Len(tail) + 1,
         CharAt(q) \in chars, \A r \in p .. q - 1 : CharAt(r) \notin chars
  PROVE  NextOf(p, chars) = q
<1> DEFINE Q(x) == CharAt(x) \in chars /\ \A r \in p .. x - 1 : CharAt(r) \notin chars
<1>1. PICK z \in Nat : z = Len(tail)
  OBVIOUS
<1>2. PICK x \in p .. z + 1 : x = NextOf(p, chars) /\ Q(x)
  <2>1. q \in p .. z + 1 /\ Q(q)
    BY <1>1
  <2> DEFINE y == CHOOSE x \in p .. z + 1 : Q(x)
  <2>2. y \in p .. z + 1 /\ Q(y)
    <3> HIDE DEF Q
    <3> QED
      BY <2>1
  <2>3. y = NextOf(p, chars)
    BY <1>1 DEF NextOf
  <2> QED
    BY <2>2, <2>3
<1>3. q \in Nat /\ x \in Nat /\ p <= q /\ p <= x
  BY <1>1
<1>4. ~(x < q)
  <2> SUFFICES ASSUME x < q PROVE FALSE
    OBVIOUS
  <2>1. x \in p .. q - 1
    BY <1>3
  <2> QED
    BY <1>2, <2>1
<1>5. ~(q < x)
  <2> SUFFICES ASSUME q < x PROVE FALSE
    OBVIOUS
  <2>1. q \in p .. x - 1
    BY <1>3
  <2> QED
    BY <1>2, <2>1
<1>6. x = q
  BY <1>3, <1>4, <1>5
<1> QED
  BY <1>2, <1>6

(* There is always one: the end of the tail is a NUL. *)
LEMMA NextOfSome ==
  ASSUME tail \in Seq(Nat), NEW p \in 1 .. Len(tail) + 1, NEW chars, 0 \in chars
  PROVE  /\ NextOf(p, chars) \in p .. Len(tail) + 1
         /\ \A r \in p .. NextOf(p, chars) - 1 : CharAt(r) \notin chars
<1> DEFINE A == {x \in p .. Len(tail) + 1 : CharAt(x) \in chars}
<1>1. PICK z \in Nat : z = Len(tail) /\ p \in Nat /\ p <= z + 1
  OBVIOUS
<1>2. z + 1 \in A
  BY <1>1 DEF CharAt
<1>3. A \subseteq Nat
  BY <1>1
<1>4. PICK q \in A : \A x \in A : q <= x
  <2> HIDE DEF A
  <2> QED
    BY <1>2, <1>3, SmallestElement
<1>5. q \in p .. Len(tail) + 1 /\ CharAt(q) \in chars
  OBVIOUS
<1>6. ASSUME NEW r \in p .. q - 1 PROVE CharAt(r) \notin chars
  <2>1. r \in p .. Len(tail) + 1 /\ ~(q <= r)
    BY <1>1, <1>5
  <2> QED
    BY <1>4, <2>1
<1> HIDE DEF A
<1> QED
  BY <1>1, <1>5, <1>6, NextOfIs

(* The character a word begins with, with its quote. *)
First(w) == IF w.quote = 0 THEN w.word[1] ELSE w.quote

(* A word begins with a quote, or with a letter that is neither quote nor blank. *)
LEMMA FirstIs ==
  ASSUME NEW line \in Seq(Word), WellTyped(line), NEW k \in 1 .. Len(line)
  PROVE  /\ First(line[k]) \notin Blanks \cup {0}
         /\ First(line[k]) \in Quotes <=> line[k].quote # 0
         /\ line[k].quote = 0 => Letters(line, k) >= 1
<1>1. line[k].quote \in {0} \cup Quotes /\ line[k].word \in Seq(Nat) /\ k \in DOMAIN line
  <2>1. line[k] \in Word /\ k \in DOMAIN line
    OBVIOUS
  <2> QED
    BY <2>1 DEF Word
<1>2. CASE line[k].quote = 0
  <2>1. /\ line[k].word # <<>> /\ line[k].word[1] \notin Quotes
        /\ \A i \in DOMAIN line[k].word : line[k].word[i] \notin Blanks \cup {0}
    BY <1>1, <1>2 DEF WellTyped
  <2>2. 1 \in DOMAIN line[k].word /\ Len(line[k].word) >= 1
    BY <1>1, <2>1
  <2> QED
    BY <1>2, <2>1, <2>2 DEF First, Letters
<1>3. CASE line[k].quote # 0
  BY <1>1, <1>3 DEF First, Quotes, Blanks
<1> QED
  BY <1>2, <1>3

(* Blanks behind a word, then the next word or the end. *)
LEMMA AtChar ==
  ASSUME typed \in Seq(Word), tail \in Seq(Nat), WellTyped(typed),
         NEW k, ReadTo(typed, tail, cp, argv, k)
  PROVE  /\ k \in 0 .. Len(typed) /\ Ends(typed)[k] \in Nat /\ cp \in Nat
         /\ \/ cp <= Ends(typed)[k] /\ CharAt(cp) = 32
            \/ cp = Ends(typed)[k] + 1 /\ k = Len(typed) /\ CharAt(cp) = 0
            \/ cp = Ends(typed)[k] + 1 /\ k < Len(typed) /\ CharAt(cp) = First(typed[k + 1])
<1>1. PICK N \in Nat, e \in Nat, z \in Nat, T \in Seq(Nat) :
        /\ N = Len(typed) /\ k \in 0 .. N /\ e = Ends(typed)[k] /\ z = Len(tail)
        /\ T = Written(typed) /\ Len(T) = z
  <2>1. k \in 0 .. Len(typed) /\ Len(tail) = Len(Written(typed))
    BY DEF ReadTo
  <2>2. Len(typed) \in Nat /\ Ends(typed)[k] \in Nat /\ Written(typed) \in Seq(Nat)
    BY <2>1, Layout
  <2>3. Len(tail) \in Nat
    OBVIOUS
  <2> QED
    BY <2>1, <2>2, <2>3
<1>2. cp \in 1 .. e + 1 /\ cp \in Nat
  BY <1>1 DEF ReadTo
<1>3. \A i \in cp .. z : tail[i] = T[i]
  BY <1>1 DEF ReadTo
<1>4. \A i \in cp .. e : T[i] = 32
  BY <1>1 DEF ReadTo
<1>5. e <= z
  <2>1. CASE k = 0
    BY <1>1, <2>1, Layout
  <2>2. CASE k # 0
    <3>1. k \in 1 .. Len(typed)
      BY <1>1, <2>2
    <3>2. PICK b \in Nat, n \in Nat, s \in Nat, y \in Nat, X \in Seq(Nat) :
            Place(typed, k, b, n, s, y, X)
      BY <3>1, Placed
    <3>3. PICK m \in Nat : m = Ends(typed)[k] /\ m <= y /\ y = Len(X) /\ X = Written(typed)
      BY <1>1, <3>2 DEF Place
    <3> QED
      BY <1>1, <3>3
  <2> QED
    BY <2>1, <2>2
<1>6. CASE cp <= e
  <2>1. cp \in cp .. z /\ cp \in cp .. e /\ cp <= z
    BY <1>2, <1>5, <1>6
  <2>2. CharAt(cp) = 32
    BY <1>1, <1>3, <1>4, <2>1 DEF CharAt
  <2> QED
    BY <1>1, <1>2, <1>6, <2>2
<1>7. CASE cp = e + 1 /\ k = N
  <2>1. e = z
    BY <1>1, <1>7, Layout
  <2>2. CharAt(cp) = 0
    BY <1>1, <1>2, <1>7, <2>1 DEF CharAt
  <2> QED
    BY <1>1, <1>2, <1>7, <2>2
<1>8. CASE cp = e + 1 /\ k < N
  <2>1. k + 1 \in 1 .. Len(typed) /\ (k + 1) - 1 = k
    BY <1>1, <1>8
  <2>2. PICK b \in Nat, n \in Nat, s \in Nat, y \in Nat, X \in Seq(Nat) :
          Place(typed, k + 1, b, n, s, y, X)
    BY <2>1, Placed
  <2>3. PICK l \in Nat, r \in Nat : l = Lead(typed[k + 1]) /\ r = Trail(typed[k + 1]) /\ l <= 1
    <3>1. Lead(typed[k + 1]) \in {0, 1} /\ Trail(typed[k + 1]) \in {0, 1}
      BY <2>1, Edges
    <3> QED
      BY <3>1
  <2>4. b = e /\ X = T /\ b + l + n + r + s <= z /\ n = Letters(typed, k + 1)
    BY <1>1, <2>1, <2>2, <2>3 DEF Place
  <2>5. l + n >= 1
    <3>1. CASE typed[k + 1].quote = 0
      BY <2>1, <2>4, <3>1, FirstIs
    <3>2. CASE typed[k + 1].quote # 0
      BY <2>3, <3>2 DEF Lead
    <3> QED
      BY <3>1, <3>2
  <2>6. cp \in cp .. z /\ cp <= z
    <3>1. cp = e + 1 /\ e + l + n + r + s <= z
      BY <1>8, <2>4
    <3>2. cp <= z
      BY ONLY <2>5, <3>1, e \in Nat, l \in Nat, n \in Nat, r \in Nat, s \in Nat, z \in Nat
    <3> QED
      BY ONLY <1>2, <3>2, z \in Nat
  <2>7. T[cp] = First(typed[k + 1])
    <3>1. CASE typed[k + 1].quote = 0
      <4>1. 1 \in 1 .. n /\ l = 0
        <5>1. Letters(typed, k + 1) >= 1
          BY <2>1, <3>1, FirstIs
        <5> QED
          BY <2>3, <2>4, <3>1, <5>1 DEF Lead
      <4>2. T[b + l + 1] = typed[k + 1].word[1]
        BY <2>2, <2>3, <2>4, <4>1 DEF Place
      <4> QED
        BY <1>8, <2>4, <3>1, <4>1, <4>2 DEF First
    <3>2. CASE typed[k + 1].quote # 0
      <4>1. T[b + 1] = typed[k + 1].quote
        BY <2>2, <2>4, <3>2 DEF Place
      <4> QED
        BY <1>8, <2>4, <3>2, <4>1 DEF First
    <3> QED
      BY <3>1, <3>2
  <2>8. CharAt(cp) = First(typed[k + 1])
    BY <1>1, <1>3, <2>6, <2>7 DEF CharAt
  <2> QED
    BY <1>1, <1>2, <1>8, <2>8
<1> QED
  BY <1>1, <1>2, <1>6, <1>7, <1>8

(* The letters of the word that begins at cp have not been erased. *)
LEMMA LettersAt ==
  ASSUME typed \in Seq(Word), tail \in Seq(Nat),
         NEW k, ReadTo(typed, tail, cp, argv, k), k < Len(typed), cp = Ends(typed)[k] + 1
  PROVE  /\ k \in Nat /\ k + 1 \in 1 .. Len(typed) /\ cp \in Nat
         /\ Starts(typed, k + 1) = cp + Lead(typed[k + 1])
         /\ Ends(typed)[k + 1] = cp - 1 + Lead(typed[k + 1]) + Letters(typed, k + 1)
                                 + Trail(typed[k + 1]) + Spaces(typed[k + 1])
         /\ Ends(typed)[k + 1] <= Len(tail)
         /\ \A i \in 1 .. Letters(typed, k + 1) :
              CharAt(cp - 1 + Lead(typed[k + 1]) + i) = typed[k + 1].word[i]
         /\ typed[k + 1].quote # 0 /\ typed[k + 1].gap >= 0 =>
              CharAt(cp + Letters(typed, k + 1) + 1) = typed[k + 1].quote
         /\ typed[k + 1].quote = 0 /\ typed[k + 1].gap >= 1 =>
              CharAt(cp + Letters(typed, k + 1)) = 32
<1>1. PICK N \in Nat : N = Len(typed) /\ k \in 0 .. N /\ k \in Nat /\ k + 1 \in 1 .. N /\ (k + 1) - 1 = k
  <2>1. Len(typed) \in Nat /\ k \in 0 .. Len(typed)
    BY DEF ReadTo
  <2> QED
    BY <2>1
<1>2. PICK b \in Nat, n \in Nat, s \in Nat, z \in Nat, T \in Seq(Nat) :
        Place(typed, k + 1, b, n, s, z, T)
  BY <1>1, Placed
<1>3. PICK w \in Word : w = typed[k + 1] /\ w.gap \in Nat \cup {-1}
  BY <1>1, Edges
<1>4. PICK l \in Nat, r \in Nat : l = Lead(w) /\ r = Trail(w)
  <2>1. Lead(w) \in {0, 1} /\ Trail(w) \in {0, 1}
    BY SizeType
  <2> QED
    BY <2>1
<1>5. /\ b = Ends(typed)[k] /\ n = Letters(typed, k + 1) /\ z = Len(tail)
      /\ s = Spaces(w) /\ T = Written(typed) /\ Len(T) = z
      /\ Starts(typed, k + 1) = b + l + 1
      /\ Ends(typed)[k + 1] = b + l + n + r + s
      /\ b + l + n + r + s <= z
  BY <1>1, <1>2, <1>3, <1>4 DEF Place, ReadTo
<1>6. /\ \A i \in 1 .. n : T[b + l + i] = w.word[i]
      /\ w.quote # 0 /\ w.gap >= 0 => T[b + n + 2] = w.quote
      /\ \A i \in (b + l + n + r) + 1 .. b + l + n + r + s : T[i] = 32
  BY <1>2, <1>3, <1>4 DEF Place
<1>7. \A i \in b + 1 .. z : CharAt(i) = T[i]
  <2>1. \A i \in cp .. Len(tail) : tail[i] = Written(typed)[i]
    BY DEF ReadTo
  <2>2. cp = b + 1
    BY <1>5
  <2> TAKE i \in b + 1 .. z
  <2>3. i <= Len(tail) /\ i \in cp .. Len(tail)
    BY <1>5, <2>2
  <2> QED
    BY <1>5, <2>1, <2>3 DEF CharAt
<1>14. b + l + n + r + s <= z
  BY <1>5
<1>8. ASSUME NEW i \in 1 .. n PROVE CharAt(b + l + i) = w.word[i]
  <2>1. b + l + i \in b + 1 .. z
    BY <1>14
  <2> QED
    BY <1>6, <1>7, <2>1
<1>9. ASSUME w.quote # 0, w.gap >= 0 PROVE CharAt(b + n + 2) = w.quote
  <2>1. l = 1 /\ r = 1
    BY <1>3, <1>4, <1>9 DEF Lead, Trail
  <2>2. b + n + 2 \in b + 1 .. z
    BY <1>14, <2>1
  <2> QED
    BY <1>6, <1>7, <1>9, <2>2
<1>10. ASSUME w.quote = 0, w.gap >= 1 PROVE CharAt(b + n + 1) = 32
  <2>1. l = 0 /\ r = 0 /\ s = w.gap /\ s >= 1
    BY <1>3, <1>4, <1>5, <1>10 DEF Lead, Trail, Spaces
  <2>2. b + n + 1 \in b + 1 .. z /\ b + n + 1 \in (b + l + n + r) + 1 .. b + l + n + r + s
    BY <1>14, <2>1
  <2> QED
    BY <1>6, <1>7, <2>2
<1> DEFINE c == b + 1
<1>15. /\ c - 1 + l = b + l /\ c + n = b + n + 1 /\ c + n + 1 = b + n + 2
       /\ b + l + 1 = c + l /\ c \in Nat
  OBVIOUS
<1>11. cp = c
  BY <1>5
<1>12. \A i \in 1 .. n : CharAt(c - 1 + l + i) = w.word[i]
  BY <1>8, <1>15
<1>13. Ends(typed)[k + 1] = c - 1 + l + n + r + s
  BY <1>5, <1>15
<1> HIDE DEF c
<1> QED
  BY <1>1, <1>3, <1>4, <1>5, <1>9, <1>10, <1>11, <1>12, <1>13, <1>15

(* A word in quotes ends at its quote, or with the tail when that is not there. *)
LEMMA QuotedWord ==
  ASSUME typed \in Seq(Word), tail \in Seq(Nat), WellTyped(typed),
         NEW k, ReadTo(typed, tail, cp, argv, k), k < Len(typed), cp = Ends(typed)[k] + 1,
         typed[k + 1].quote # 0
  PROVE  /\ Starts(typed, k + 1) = cp + 1
         /\ typed[k + 1].gap >= 0 =>
              NextOf(cp + 1, {typed[k + 1].quote} \cup {0})
                = Starts(typed, k + 1) + Letters(typed, k + 1)
         /\ typed[k + 1].gap < 0 =>
              /\ NextOf(cp + 1, {typed[k + 1].quote} \cup {0}) = Len(tail) + 1
              /\ k + 1 = Len(typed)
<1>1. PICK w \in Word : w = typed[k + 1] /\ w.gap \in Nat \cup {-1} /\ w.quote # 0
  <2>1. k + 1 \in 1 .. Len(typed)
    BY LettersAt
  <2> QED
    BY <2>1, Edges
<1>2. PICK c \in Nat, n \in Nat, z \in Nat, s \in Nat, r \in Nat :
        /\ c = cp /\ n = Letters(typed, k + 1) /\ z = Len(tail) /\ s = Spaces(w) /\ r = Trail(w)
        /\ Lead(w) = 1 /\ k \in Nat /\ k + 1 \in 1 .. Len(typed)
  <2>1. k \in Nat /\ k + 1 \in 1 .. Len(typed) /\ cp \in Nat
    BY LettersAt
  <2>2. Letters(typed, k + 1) \in Nat /\ Spaces(w) \in Nat /\ Trail(w) \in {0, 1}
    BY <1>1, <2>1, Edges
  <2>3. Lead(w) = 1 /\ Len(tail) \in Nat
    BY <1>1 DEF Lead
  <2> QED
    BY ONLY <2>1, <2>2, <2>3
<1>3. /\ Starts(typed, k + 1) = c + 1
      /\ Ends(typed)[k + 1] = c - 1 + 1 + n + r + s
      /\ Ends(typed)[k + 1] <= z
      /\ \A i \in 1 .. n : CharAt(c - 1 + 1 + i) = w.word[i]
      /\ w.gap >= 0 => CharAt(c + n + 1) = w.quote
  BY <1>1, <1>2, LettersAt
<1>4. ASSUME NEW x \in c + 1 .. c + n PROVE CharAt(x) \notin {w.quote} \cup {0}
  <2>1. PICK i \in 1 .. n : x = c - 1 + 1 + i
    <3>1. x - c \in 1 .. n /\ x = c - 1 + 1 + (x - c)
      OBVIOUS
    <3> QED
      BY ONLY <3>1
  <2>2. i \in DOMAIN w.word
    BY <1>1, <1>2 DEF Letters, Word
  <2>3. w.word[i] \notin {w.quote, 0}
    <3>1. k + 1 \in 1 .. Len(typed) /\ typed[k + 1].quote # 0
      BY <1>1, <1>2
    <3>2. \A j \in DOMAIN typed[k + 1].word : typed[k + 1].word[j] \notin {typed[k + 1].quote, 0}
      BY ONLY <3>1, WellTyped(typed) DEF WellTyped
    <3> QED
      BY ONLY <1>1, <2>2, <3>2
  <2> QED
    BY <1>3, <2>1, <2>3
<1>5. c + 1 + n <= z + 1
  BY <1>3
<1>6. ASSUME w.gap >= 0 PROVE NextOf(c + 1, {w.quote} \cup {0}) = c + 1 + n
  <2>1. r = 1
    BY <1>1, <1>2, <1>6 DEF Trail
  <2>2. c + 1 + n \in c + 1 .. z + 1 /\ c + n + 1 = c + 1 + n
    BY <1>5
  <2>3. CharAt(c + 1 + n) \in {w.quote} \cup {0}
    BY <1>3, <1>6, <2>2
  <2>4. \A x \in c + 1 .. (c + 1 + n) - 1 : CharAt(x) \notin {w.quote} \cup {0}
    BY <1>4
  <2>5. c + 1 \in Nat /\ c + 1 + n \in c + 1 .. Len(tail) + 1
    <3>1. z = Len(tail)
      BY <1>2
    <3> QED
      BY ONLY c \in Nat, <2>2, <3>1
  <2> QED
    BY ONLY tail \in Seq(Nat), <2>3, <2>4, <2>5, NextOfIs, Zenon
<1>7. ASSUME w.gap < 0
      PROVE  NextOf(c + 1, {w.quote} \cup {0}) = z + 1 /\ k + 1 = Len(typed)
  <2>1. r = 0 /\ s = 0
    BY <1>2, <1>7 DEF Trail, Spaces
  <2>2. k + 1 \in DOMAIN typed
    BY <1>2
  <2>3. k + 1 = Len(typed)
    BY <1>1, <1>7, <2>2 DEF WellTyped
  <2>4. Ends(typed)[k + 1] = z
    <3>1. Len(tail) = Len(Written(typed))
      BY DEF ReadTo
    <3> QED
      BY <1>2, <2>3, <3>1, Layout
  <2>5. z = c + n
    BY <1>3, <2>1, <2>4
  <2>6. z + 1 \in c + 1 .. z + 1 /\ \A x \in c + 1 .. (z + 1) - 1 : x \in c + 1 .. c + n
    BY <2>5
  <2>7. CharAt(z + 1) \in {w.quote} \cup {0}
    BY <1>2 DEF CharAt
  <2>8. \A x \in c + 1 .. (z + 1) - 1 : CharAt(x) \notin {w.quote} \cup {0}
    BY <1>4, <2>6
  <2>9. NextOf(c + 1, {w.quote} \cup {0}) = z + 1
    <3>1. c + 1 \in Nat /\ z + 1 \in c + 1 .. Len(tail) + 1
      BY <1>2, <2>6
    <3> QED
      BY ONLY tail \in Seq(Nat), <2>7, <2>8, <3>1, NextOfIs, Zenon
  <2> QED
    BY <2>3, <2>9
<1> QED
  BY <1>1, <1>2, <1>3, <1>6, <1>7

(* A word without quotes ends at its first blank, or with the tail. *)
LEMMA BareWord ==
  ASSUME typed \in Seq(Word), tail \in Seq(Nat), WellTyped(typed),
         NEW k, ReadTo(typed, tail, cp, argv, k), k < Len(typed), cp = Ends(typed)[k] + 1,
         typed[k + 1].quote = 0
  PROVE  /\ Starts(typed, k + 1) = cp
         /\ typed[k + 1].gap >= 0
         /\ typed[k + 1].gap = 0 => k + 1 = Len(typed)
         /\ NextOf(cp + 1, Blanks \cup {0}) = Starts(typed, k + 1) + Letters(typed, k + 1)
<1>1. PICK w \in Word : w = typed[k + 1] /\ w.gap \in Nat \cup {-1} /\ w.quote = 0
  <2>1. k + 1 \in 1 .. Len(typed)
    BY LettersAt
  <2> QED
    BY <2>1, Edges
<1>2. PICK c \in Nat, n \in Nat, z \in Nat, s \in Nat :
        /\ c = cp /\ n = Letters(typed, k + 1) /\ z = Len(tail) /\ s = Spaces(w) /\ n >= 1
        /\ Lead(w) = 0 /\ Trail(w) = 0 /\ k \in Nat /\ k + 1 \in 1 .. Len(typed)
  <2>1. k \in Nat /\ k + 1 \in 1 .. Len(typed) /\ cp \in Nat
    BY LettersAt
  <2>2. Letters(typed, k + 1) \in Nat /\ Spaces(w) \in Nat
    BY <1>1, <2>1, Edges
  <2>3. Letters(typed, k + 1) >= 1
    BY <1>1, <2>1, FirstIs
  <2>4. Lead(w) = 0 /\ Trail(w) = 0 /\ Len(tail) \in Nat
    BY <1>1 DEF Lead, Trail
  <2> QED
    BY <2>1, <2>2, <2>3, <2>4
<1>3. /\ Starts(typed, k + 1) = c
      /\ Ends(typed)[k + 1] = c - 1 + 0 + n + 0 + s
      /\ Ends(typed)[k + 1] <= z
      /\ \A i \in 1 .. n : CharAt(c - 1 + 0 + i) = w.word[i]
      /\ w.gap >= 1 => CharAt(c + n) = 32
  <2>1. Starts(typed, k + 1) = c + 0
    BY <1>1, <1>2, LettersAt
  <2>2. /\ Ends(typed)[k + 1] = cp - 1 + Lead(typed[k + 1]) + Letters(typed, k + 1)
                                + Trail(typed[k + 1]) + Spaces(typed[k + 1])
        /\ Ends(typed)[k + 1] <= Len(tail)
        /\ \A i \in 1 .. Letters(typed, k + 1) :
             CharAt(cp - 1 + Lead(typed[k + 1]) + i) = typed[k + 1].word[i]
        /\ typed[k + 1].quote = 0 /\ typed[k + 1].gap >= 1 =>
             CharAt(cp + Letters(typed, k + 1)) = 32
    BY LettersAt
  <2>3. Starts(typed, k + 1) = c
    BY <1>2, <2>1
  <2> QED
    BY <1>1, <1>2, <2>2, <2>3
<1>4. ASSUME NEW x \in c + 1 .. (c + n) - 1 PROVE CharAt(x) \notin Blanks \cup {0}
  <2>1. PICK i \in 1 .. n : x = c - 1 + 0 + i
    <3>1. x - c + 1 \in 1 .. n /\ x = c - 1 + 0 + (x - c + 1)
      OBVIOUS
    <3> QED
      BY ONLY <3>1
  <2>2. i \in DOMAIN w.word
    BY <1>1, <1>2 DEF Letters, Word
  <2>3. w.word[i] \notin Blanks \cup {0}
    <3>1. \A j \in DOMAIN typed[k + 1].word : typed[k + 1].word[j] \notin Blanks \cup {0}
      <4>1. k + 1 \in 1 .. Len(typed) /\ typed[k + 1].quote = 0
        BY <1>1, <1>2
      <4> QED
        BY ONLY <4>1, WellTyped(typed) DEF WellTyped
    <3> QED
      BY ONLY <1>1, <2>2, <3>1
  <2> QED
    BY <1>3, <2>1, <2>3
<1>5. w.gap >= 0 /\ (w.gap = 0 => k + 1 = Len(typed))
  <2>1. w.gap >= (IF k + 1 = Len(typed) THEN 0 ELSE 1)
    BY <1>1, <1>2 DEF WellTyped
  <2> QED
    BY <1>1, <2>1
<1>6. CharAt(c + n) \in Blanks \cup {0}
  <2>1. CASE w.gap = 0
    <3>1. k + 1 = Len(typed) /\ s = 0
      BY <1>2, <1>5, <2>1 DEF Spaces
    <3>2. Ends(typed)[k + 1] = z
      <4>1. Len(tail) = Len(Written(typed))
        BY DEF ReadTo
      <4> QED
        BY <1>2, <3>1, <4>1, Layout
    <3>3. c + n = z + 1
      BY <1>3, <3>1, <3>2
    <3> QED
      BY <1>2, <3>3 DEF CharAt
  <2>2. CASE w.gap >= 1
    BY <1>3, <2>2 DEF Blanks
  <2> QED
    BY <1>1, <1>5, <2>1, <2>2
<1>7. NextOf(c + 1, Blanks \cup {0}) = c + n
  <2>1. c + n <= z + 1
    BY <1>3
  <2>2. c + 1 \in Nat /\ c + n \in c + 1 .. z + 1
    BY <1>2, <2>1
  <2>3. c + n \in c + 1 .. Len(tail) + 1
    BY <1>2, <2>2
  <2> QED
    BY ONLY tail \in Seq(Nat), <1>4, <1>6, <2>2, <2>3, NextOfIs, Zenon
<1> QED
  BY <1>1, <1>2, <1>3, <1>5, <1>7

-----------------------------------------------------------------------------
(* The invariant. *)

Typed == typed \in Lines /\ WellTyped(typed)

ArgsTypeOK ==
  /\ tail \in Seq(Nat) /\ argv \in Seq(Nat)
  /\ cp \in 1 .. Len(tail) + 1
  /\ \A i \in DOMAIN argv : argv[i] \in 0 .. Len(tail) + 1
  /\ pc = "start" => cp = 1 /\ argv = <<>> /\ tail = Written(typed)

Reading ==
  Len(Written(typed)) <= TailMax =>
    /\ pc = "args" => \E k \in 0 .. Len(typed) : ReadTo(typed, tail, cp, argv, k)
    /\ pc = "main" => ReadTo(typed, tail, cp, argv, Len(typed))
    /\ pc = "exit" => Unclosed(typed)

ArgsInv == Typed /\ ArgsTypeOK /\ Reading

(* The steps, one by one.                                                *)
LEMMA ArgsStart == ArgsInit => ArgsInv
<1> SUFFICES ASSUME ArgsInit PROVE ArgsInv
  OBVIOUS
<1>1. typed \in Lines /\ WellTyped(typed) /\ typed \in Seq(Word)
  BY ArgsAssumption DEF ArgsInit
<1>2. tail = Written(typed) /\ tail \in Seq(Nat) /\ cp = 1 /\ argv = <<>> /\ pc = "start"
  BY <1>1, Layout DEF ArgsInit
<1>3. cp \in 1 .. Len(tail) + 1
  <2>1. Len(tail) \in Nat
    BY <1>2
  <2> QED
    BY <1>2, <2>1
<1> QED
  BY <1>1, <1>2, <1>3 DEF ArgsInv, Typed, ArgsTypeOK, Reading

LEMMA ArgsIdle == ArgsInv /\ UNCHANGED argsVars => ArgsInv'
<1> SUFFICES ASSUME ArgsInv, UNCHANGED argsVars PROVE ArgsInv'
  OBVIOUS
<1>1. typed' = typed /\ tail' = tail /\ cp' = cp /\ argv' = argv /\ pc' = pc
  BY DEF argsVars
<1>2. Typed' /\ ArgsTypeOK'
  BY <1>1 DEF ArgsInv, Typed, ArgsTypeOK
<1>3. Reading'
  BY <1>1 DEF ArgsInv, Reading
<1> QED
  BY <1>2, <1>3 DEF ArgsInv

(* The whole line is in the tail, and nothing has been read of it yet. *)
LEMMA ReadNone ==
  ASSUME NEW line \in Seq(Word), NEW a, Len(a) = 1, a[1] = 0
  PROVE  ReadTo(line, Written(line), 1, a, 0)
<1>1. PICK N \in Nat, T \in Seq(Nat), z \in Nat : N = Len(line) /\ T = Written(line) /\ z = Len(T)
  BY Layout
<1>2. Ends(line)[0] = 0
  BY Layout
<1> QED
  BY <1>1, <1>2 DEF ReadTo

LEMMA StartStep == ArgsInv /\ Start => ArgsInv'
<1> SUFFICES ASSUME ArgsInv, Start PROVE ArgsInv'
  OBVIOUS
<1>1. typed \in Seq(Word) /\ typed' = typed /\ Typed'
  BY ArgsAssumption DEF ArgsInv, Typed, Start, AddArg
<1>2. tail = Written(typed) /\ tail \in Seq(Nat) /\ cp' = 1 /\ argv' = <<0>> /\ pc' # "start"
      /\ pc' # "main" /\ pc' # "exit"
  <2>1. pc = "start" /\ cp' = cp /\ argv' = Append(argv, 0) /\ pc' \in {"args", "wild"}
    BY DEF Start, AddArg
  <2> QED
    BY <2>1 DEF ArgsInv, ArgsTypeOK
<1>3. PICK z \in Nat, y \in Nat :
        z = Len(tail) /\ y <= z /\ tail' = SubSeq(tail, 1, y) /\ (z <= TailMax => y = z)
  <2>1. TailMax \in Nat /\ Len(tail) \in Nat
    BY <1>2, ArgsAssumption
  <2>2. tail' = SubSeq(tail, 1, IF Len(tail) > TailMax THEN TailMax ELSE Len(tail))
    BY DEF Start
  <2>3. CASE Len(tail) > TailMax
    BY <2>1, <2>2, <2>3
  <2>4. CASE Len(tail) <= TailMax
    BY <2>1, <2>2, <2>4
  <2> QED
    BY <2>1, <2>3, <2>4
<1>4. tail' \in Seq(Nat) /\ Len(tail') = y /\ (y = z => tail' = tail)
  BY <1>2, <1>3
<1>5. ArgsTypeOK'
  BY <1>2, <1>3, <1>4 DEF ArgsTypeOK
<1>6. Reading'
  <2> SUFFICES ASSUME Len(Written(typed)) <= TailMax
               PROVE  \E k \in 0 .. Len(typed) : ReadTo(typed, tail', cp', argv', k)
    BY <1>1, <1>2 DEF Reading
  <2>1. tail' = Written(typed)
    BY <1>2, <1>3, <1>4
  <2>2. Len(argv') = 1 /\ argv'[1] = 0
    BY <1>2
  <2>3. ReadTo(typed, tail', cp', argv', 0)
    BY <1>1, <1>2, <2>1, <2>2, ReadNone
  <2>4. 0 \in 0 .. Len(typed)
    BY <1>1
  <2> QED
    BY <2>3, <2>4
<1> QED
  BY <1>1, <1>5, <1>6 DEF ArgsInv

LEMMA SkipBlankStep == ArgsInv /\ SkipBlank => ArgsInv'
<1> SUFFICES ASSUME ArgsInv, SkipBlank PROVE ArgsInv'
  OBVIOUS
<1>1. typed \in Seq(Word) /\ WellTyped(typed) /\ tail \in Seq(Nat)
  BY ArgsAssumption DEF ArgsInv, Typed, ArgsTypeOK
<1>2. /\ typed' = typed /\ tail' = tail /\ argv' = argv /\ pc' = pc /\ cp' = cp + 1
      /\ pc = "args" /\ CharAt(cp) \in Blanks
  BY DEF SkipBlank
<1>3. cp \in 1 .. Len(tail) /\ cp + 1 \in 1 .. Len(tail) + 1
  <2>1. cp \in 1 .. Len(tail) + 1 /\ Len(tail) \in Nat
    BY <1>1 DEF ArgsInv, ArgsTypeOK
  <2>2. cp <= Len(tail)
    <3> SUFFICES ASSUME ~(cp <= Len(tail)) PROVE FALSE
      OBVIOUS
    <3> QED
      BY <1>2 DEF CharAt, Blanks
  <2> QED
    BY <2>1, <2>2
<1>4. ArgsTypeOK'
  BY <1>2, <1>3 DEF ArgsInv, ArgsTypeOK
<1>5. Reading'
  <2> SUFFICES ASSUME Len(Written(typed)) <= TailMax
               PROVE  \E k \in 0 .. Len(typed) : ReadTo(typed, tail, cp + 1, argv, k)
    BY <1>2 DEF Reading
  <2>1. PICK k \in 0 .. Len(typed) : ReadTo(typed, tail, cp, argv, k)
    BY <1>2 DEF ArgsInv, Reading
  <2>2. cp <= Ends(typed)[k]
    <3>1. CharAt(cp) # 0
      BY <1>2 DEF Blanks
    <3>2. ASSUME k < Len(typed) PROVE CharAt(cp) # First(typed[k + 1])
      <4>1. k + 1 \in 1 .. Len(typed)
        BY <1>1, <3>2
      <4> QED
        BY <1>1, <1>2, <4>1, FirstIs
    <3> QED
      BY <1>1, <2>1, <3>1, <3>2, AtChar
  <2> QED
    BY <1>1, <2>1, <2>2, GoesOn
<1> QED
  BY <1>2, <1>4, <1>5 DEF ArgsInv, Typed

LEMMA ErasedIs ==
  ASSUME tail \in Seq(Nat), NEW p
  PROVE  /\ Erased(p) \in Seq(Nat) /\ Len(Erased(p)) = Len(tail)
         /\ \A i \in 1 .. Len(tail) : Erased(p)[i] = IF i = p THEN 0 ELSE tail[i]
<1>1. PICK z \in Nat : z = Len(tail) /\ DOMAIN tail = 1 .. z
  OBVIOUS
<1>2. Erased(p) = [i \in 1 .. z |-> IF i = p THEN 0 ELSE tail[i]]
  BY <1>1 DEF Erased
<1>3. Erased(p) \in [1 .. z -> Nat]
  BY <1>1, <1>2
<1> QED
  BY <1>1, <1>2, <1>3

LEMMA QuotedArgStep == ArgsInv /\ QuotedArg => ArgsInv'
<1> SUFFICES ASSUME ArgsInv, QuotedArg PROVE ArgsInv'
  OBVIOUS
<1>1. typed \in Seq(Word) /\ WellTyped(typed) /\ tail \in Seq(Nat) /\ argv \in Seq(Nat)
  BY ArgsAssumption DEF ArgsInv, Typed, ArgsTypeOK
<1>2. PICK ep \in cp + 1 .. Len(tail) :
        /\ ep = NextOf(cp + 1, {CharAt(cp)} \cup {0})
        /\ tail' = Erased(ep) /\ cp' = ep + 1
        /\ argv' = Append(argv, cp + 1) /\ typed' = typed /\ pc' \in {"args", "wild"}
  BY DEF QuotedArg, AddArg
<1>3. PICK c \in Nat, z \in Nat : c = cp /\ z = Len(tail) /\ 1 <= c /\ c <= z + 1
  <2>1. Len(tail) \in Nat /\ cp \in 1 .. Len(tail) + 1
    BY <1>1 DEF ArgsInv, ArgsTypeOK
  <2>2. cp \in Nat /\ 1 <= cp /\ cp <= Len(tail) + 1
    BY <2>1
  <2> QED
    BY <2>1, <2>2
<1>4. ep \in Nat /\ c + 1 <= ep /\ ep <= z
  BY <1>2, <1>3
<1>5. tail' \in Seq(Nat) /\ Len(tail') = z
  BY <1>1, <1>2, <1>3, ErasedIs
<1>6. ArgsTypeOK'
  <2>1. cp' \in 1 .. Len(tail') + 1
    BY <1>2, <1>4, <1>5
  <2>2. argv' \in Seq(Nat) /\ \A i \in DOMAIN argv' : argv'[i] \in 0 .. Len(tail') + 1
    <3>1. c + 1 \in Nat /\ c + 1 \in 0 .. z + 1
      BY <1>4
    <3>2. \A i \in DOMAIN argv : argv[i] \in 0 .. z + 1
      BY <1>3 DEF ArgsInv, ArgsTypeOK
    <3>3. argv' = Append(argv, c + 1)
      BY <1>2, <1>3
    <3> QED
      BY <1>1, <1>5, <3>1, <3>2, <3>3
  <2> QED
    BY <1>2, <1>5, <2>1, <2>2 DEF ArgsTypeOK
<1>7. Reading'
  <2> SUFFICES ASSUME Len(Written(typed)) <= TailMax
               PROVE  \E k \in 0 .. Len(typed) : ReadTo(typed, tail', cp', argv', k)
    BY <1>2 DEF Reading
  <2>1. PICK k \in 0 .. Len(typed) : ReadTo(typed, tail, cp, argv, k)
    BY DEF ArgsInv, Reading, QuotedArg
  <2>2. CharAt(cp) \in Quotes /\ CharAt(cp) # 32 /\ CharAt(cp) # 0
    BY DEF QuotedArg, Quotes
  <2>3. cp = Ends(typed)[k] + 1 /\ k < Len(typed) /\ CharAt(cp) = First(typed[k + 1])
    BY <1>1, <2>1, <2>2, AtChar
  <2>4. k \in Nat /\ k + 1 \in 1 .. Len(typed) /\ (k + 1) - 1 = k /\ k + 1 \in 0 .. Len(typed)
    BY <1>1, <2>1, <2>3
  <2>5. typed[k + 1].quote # 0 /\ CharAt(cp) = typed[k + 1].quote
    <3>1. typed[k + 1].quote # 0
      BY <1>1, <2>2, <2>3, <2>4, FirstIs
    <3> QED
      BY <2>3, <3>1 DEF First
  <2>6. /\ Starts(typed, k + 1) = cp + 1
        /\ typed[k + 1].gap >= 0 => ep = Starts(typed, k + 1) + Letters(typed, k + 1)
        /\ typed[k + 1].gap < 0 => ep = Len(tail) + 1
    BY <1>1, <1>2, <2>1, <2>3, <2>5, QuotedWord
  <2>7. typed[k + 1].gap >= 0
    <3>1. typed[k + 1].gap \in Nat \cup {-1}
      BY <1>1, <2>4, Edges
    <3>2. ~(typed[k + 1].gap < 0)
      BY <1>3, <1>4, <2>6
    <3> QED
      BY <3>1, <3>2
  <2>8. Cuts(typed, k + 1, tail, tail', cp, ep, cp')
    <3>1. Len(tail') = Len(tail) /\ \A i \in 1 .. Len(tail) : tail'[i] = IF i = ep THEN 0 ELSE tail[i]
      BY <1>1, <1>2, ErasedIs
    <3>2. cp' = IF ep > Len(tail) THEN ep ELSE ep + 1
      BY <1>2, <1>3, <1>4
    <3>3. ep = Starts(typed, k + 1) + Letters(typed, k + 1)
      BY <2>6, <2>7
    <3> QED
      BY <2>3, <2>4, <2>5, <2>7, <3>1, <3>2, <3>3 DEF Cuts
  <2>9. cp \in Nat /\ ep \in Nat /\ cp' \in Nat
    BY <1>2, <1>3, <1>4
  <2>10. ReadTo(typed, tail', cp', Append(argv, Starts(typed, k + 1)), k + 1)
    BY <1>1, <2>1, <2>3, <2>4, <2>8, <2>9, GotNext
  <2> QED
    BY <1>2, <2>4, <2>6, <2>10
<1> QED
  BY <1>2, <1>6, <1>7 DEF ArgsInv, Typed

LEMMA UnterminatedStep == ArgsInv /\ Unterminated => ArgsInv'
<1> SUFFICES ASSUME ArgsInv, Unterminated PROVE ArgsInv'
  OBVIOUS
<1>1. typed \in Seq(Word) /\ WellTyped(typed) /\ tail \in Seq(Nat)
  BY ArgsAssumption DEF ArgsInv, Typed, ArgsTypeOK
<1>2. /\ typed' = typed /\ tail' = tail /\ cp' = cp /\ argv' = argv /\ pc' = "exit" /\ pc = "args"
      /\ CharAt(cp) \in Quotes /\ NextOf(cp + 1, {CharAt(cp)} \cup {0}) > Len(tail)
  BY DEF Unterminated
<1>3. Typed' /\ ArgsTypeOK'
  BY <1>2 DEF ArgsInv, Typed, ArgsTypeOK
<1>4. ASSUME Len(Written(typed)) <= TailMax PROVE Unclosed(typed)
  <2>1. PICK k \in 0 .. Len(typed) : ReadTo(typed, tail, cp, argv, k)
    BY <1>2, <1>4 DEF ArgsInv, Reading
  <2>2. CharAt(cp) # 32 /\ CharAt(cp) # 0
    BY <1>2 DEF Quotes
  <2>3. cp = Ends(typed)[k] + 1 /\ k < Len(typed) /\ CharAt(cp) = First(typed[k + 1])
    BY <1>1, <2>1, <2>2, AtChar
  <2>4. k \in Nat /\ k + 1 \in 1 .. Len(typed)
    BY <1>1, <2>1, <2>3
  <2>5. typed[k + 1].quote # 0 /\ CharAt(cp) = typed[k + 1].quote
    <3>1. typed[k + 1].quote # 0
      BY <1>1, <1>2, <2>3, <2>4, FirstIs
    <3> QED
      BY <2>3, <3>1 DEF First
  <2>6. /\ Starts(typed, k + 1) = cp + 1
        /\ typed[k + 1].gap >= 0 =>
             NextOf(cp + 1, {CharAt(cp)} \cup {0})
               = Starts(typed, k + 1) + Letters(typed, k + 1)
        /\ typed[k + 1].gap < 0 => k + 1 = Len(typed)
    BY <1>1, <2>1, <2>3, <2>5, QuotedWord
  <2>7. ~(typed[k + 1].gap >= 0)
    <3> SUFFICES ASSUME typed[k + 1].gap >= 0 PROVE FALSE
      OBVIOUS
    <3>1. PICK l \in Nat, n \in Nat, r \in Nat, s \in Nat, c \in Nat, z \in Nat :
            /\ l = Lead(typed[k + 1]) /\ n = Letters(typed, k + 1) /\ r = Trail(typed[k + 1])
            /\ s = Spaces(typed[k + 1]) /\ c = cp /\ z = Len(tail) /\ l = 1 /\ r = 1
      <4>1. /\ Lead(typed[k + 1]) \in {0, 1} /\ Letters(typed, k + 1) \in Nat
            /\ Trail(typed[k + 1]) \in {0, 1} /\ Spaces(typed[k + 1]) \in Nat
        BY <1>1, <2>4, Edges
      <4>2. cp \in Nat
        BY <1>1, <2>1, AtChar
      <4>3. Len(tail) \in Nat
        BY <1>1
      <4>4. typed[k + 1].gap \in Nat
        BY <1>1, <2>4, Edges
      <4>5. ~(typed[k + 1].gap < 0)
        BY <4>4
      <4>6. Lead(typed[k + 1]) = 1 /\ Trail(typed[k + 1]) = 1
        BY <2>5, <4>5 DEF Lead, Trail
      <4> QED
        BY <4>1, <4>2, <4>3, <4>6
    <3>2. c - 1 + l + n + r + s <= z
      BY <1>1, <2>1, <2>3, <3>1, LettersAt
    <3>3. Starts(typed, k + 1) + Letters(typed, k + 1) = c + 1 + n
      BY <2>6, <3>1
    <3>4. c + 1 + n <= z
      BY <3>1, <3>2
    <3>5. c + 1 + n > z
      BY <1>2, <2>6, <3>1, <3>3
    <3> QED
      BY <3>4, <3>5
  <2>8. typed[k + 1].gap < 0
    <3>1. typed[k + 1].gap \in Nat \cup {-1}
      BY <1>1, <2>4, Edges
    <3> QED
      BY <2>7, <3>1
  <2>9. k + 1 = Len(typed) /\ typed # <<>>
    BY <2>4, <2>6, <2>8
  <2> QED
    BY <2>8, <2>9 DEF Unclosed
<1>5. Reading'
  BY <1>2, <1>4 DEF Reading
<1> QED
  BY <1>3, <1>5 DEF ArgsInv

LEMMA BareArgStep == ArgsInv /\ BareArg => ArgsInv'
<1> SUFFICES ASSUME ArgsInv, BareArg PROVE ArgsInv'
  OBVIOUS
<1>1. typed \in Seq(Word) /\ WellTyped(typed) /\ tail \in Seq(Nat) /\ argv \in Seq(Nat)
  BY ArgsAssumption DEF ArgsInv, Typed, ArgsTypeOK
<1>2. PICK c \in Nat, z \in Nat : c = cp /\ z = Len(tail) /\ 1 <= c /\ c <= z
  <2>1. Len(tail) \in Nat /\ cp \in 1 .. Len(tail) + 1
    BY <1>1 DEF ArgsInv, ArgsTypeOK
  <2>2. cp <= Len(tail)
    <3> SUFFICES ASSUME ~(cp <= Len(tail)) PROVE FALSE
      OBVIOUS
    <3> QED
      BY DEF BareArg, CharAt
  <2>3. cp \in Nat /\ 1 <= cp
    BY <2>1
  <2> QED
    BY <2>1, <2>2, <2>3
<1>3. PICK ep \in c + 1 .. z + 1 :
        /\ ep = NextOf(cp + 1, Blanks \cup {0})
        /\ tail' = Erased(ep) /\ cp' = After(ep)
        /\ argv' = Append(argv, cp) /\ typed' = typed /\ pc' \in {"args", "wild"}
  <2>1. c + 1 \in 1 .. Len(tail) + 1
    BY <1>2
  <2>2. NextOf(c + 1, Blanks \cup {0}) \in c + 1 .. Len(tail) + 1
    BY <1>1, <2>1, NextOfSome
  <2> QED
    BY <1>2, <2>2 DEF BareArg, AddArg
<1>4. ep \in Nat /\ c + 1 <= ep /\ ep <= z + 1
  OBVIOUS
<1>5. tail' \in Seq(Nat) /\ Len(tail') = z
  BY <1>1, <1>2, <1>3, ErasedIs
<1>6. (ep > z /\ cp' = ep) \/ (ep <= z /\ cp' = ep + 1)
  BY <1>2, <1>3, <1>4 DEF After
<1>7. ArgsTypeOK'
  <2>1. cp' \in 1 .. Len(tail') + 1
    BY <1>4, <1>5, <1>6
  <2>2. argv' \in Seq(Nat) /\ \A i \in DOMAIN argv' : argv'[i] \in 0 .. Len(tail') + 1
    <3>1. c \in Nat /\ c \in 0 .. z + 1
      BY <1>2
    <3>2. \A i \in DOMAIN argv : argv[i] \in 0 .. z + 1
      BY <1>2 DEF ArgsInv, ArgsTypeOK
    <3>3. argv' = Append(argv, c)
      BY <1>2, <1>3
    <3> QED
      BY <1>1, <1>5, <3>1, <3>2, <3>3
  <2> QED
    BY <1>3, <1>5, <2>1, <2>2 DEF ArgsTypeOK
<1>8. Reading'
  <2> SUFFICES ASSUME Len(Written(typed)) <= TailMax
               PROVE  \E k \in 0 .. Len(typed) : ReadTo(typed, tail', cp', argv', k)
    BY <1>3 DEF Reading
  <2>1. PICK k \in 0 .. Len(typed) : ReadTo(typed, tail, cp, argv, k)
    BY DEF ArgsInv, Reading, BareArg
  <2>2. CharAt(cp) \notin Quotes /\ CharAt(cp) # 32 /\ CharAt(cp) # 0
    BY DEF BareArg, Blanks
  <2>3. cp = Ends(typed)[k] + 1 /\ k < Len(typed) /\ CharAt(cp) = First(typed[k + 1])
    BY <1>1, <2>1, <2>2, AtChar
  <2>4. k \in Nat /\ k + 1 \in 1 .. Len(typed) /\ (k + 1) - 1 = k /\ k + 1 \in 0 .. Len(typed)
    BY <1>1, <2>1, <2>3
  <2>5. typed[k + 1].quote = 0
    BY <1>1, <2>2, <2>3, <2>4, FirstIs
  <2>6. /\ Starts(typed, k + 1) = cp
        /\ typed[k + 1].gap >= 0
        /\ typed[k + 1].gap = 0 => k + 1 = Len(typed)
        /\ ep = Starts(typed, k + 1) + Letters(typed, k + 1)
    BY <1>1, <1>3, <2>1, <2>3, <2>5, BareWord
  <2>7. Cuts(typed, k + 1, tail, tail', cp, ep, cp')
    <3>1. Len(tail') = Len(tail) /\ \A i \in 1 .. Len(tail) : tail'[i] = IF i = ep THEN 0 ELSE tail[i]
      BY <1>1, <1>3, ErasedIs
    <3>2. cp' = IF ep > Len(tail) THEN ep ELSE ep + 1
      BY <1>3 DEF After
    <3> QED
      BY <2>3, <2>4, <2>5, <2>6, <3>1, <3>2 DEF Cuts
  <2>8. cp \in Nat /\ cp' \in Nat
    BY <1>2, <1>4, <1>6
  <2>9. ReadTo(typed, tail', cp', Append(argv, Starts(typed, k + 1)), k + 1)
    BY <1>1, <1>4, <2>1, <2>3, <2>4, <2>7, <2>8, GotNext
  <2> QED
    BY <1>3, <2>4, <2>6, <2>9
<1> QED
  BY <1>3, <1>7, <1>8 DEF ArgsInv, Typed

LEMMA ArgsDoneStep == ArgsInv /\ ArgsDone => ArgsInv'
<1> SUFFICES ASSUME ArgsInv, ArgsDone PROVE ArgsInv'
  OBVIOUS
<1>1. typed \in Seq(Word) /\ WellTyped(typed) /\ tail \in Seq(Nat)
  BY ArgsAssumption DEF ArgsInv, Typed, ArgsTypeOK
<1>2. /\ typed' = typed /\ tail' = tail /\ cp' = cp /\ argv' = argv /\ pc' = "main" /\ pc = "args"
      /\ CharAt(cp) = 0
  BY DEF ArgsDone
<1>3. Typed' /\ ArgsTypeOK'
  BY <1>2 DEF ArgsInv, Typed, ArgsTypeOK
<1>4. ASSUME Len(Written(typed)) <= TailMax
      PROVE  ReadTo(typed, tail, cp, argv, Len(typed))
  <2>1. PICK k \in 0 .. Len(typed) : ReadTo(typed, tail, cp, argv, k)
    BY <1>2, <1>4 DEF ArgsInv, Reading
  <2>2. ASSUME k < Len(typed) PROVE CharAt(cp) # First(typed[k + 1])
    <3>1. k + 1 \in 1 .. Len(typed)
      BY <1>1, <2>2
    <3> QED
      BY <1>1, <1>2, <3>1, FirstIs
  <2>3. k = Len(typed)
    BY <1>1, <1>2, <2>1, <2>2, AtChar
  <2> QED
    BY <2>1, <2>3
<1>5. Reading'
  BY <1>2, <1>4 DEF Reading
<1> QED
  BY <1>3, <1>5 DEF ArgsInv

(* A step of parse_args keeps the invariant.                             *)
LEMMA ArgsStep == ArgsInv /\ ArgsNext => ArgsInv'
BY StartStep, SkipBlankStep, QuotedArgStep, UnterminatedStep, BareArgStep, ArgsDoneStep DEF ArgsNext

-----------------------------------------------------------------------------
(* What main is given. *)

(* Every argument is the word it was read from.                          *)
LEMMA StringIs ==
  ASSUME typed \in Seq(Word), WellTyped(typed), tail \in Seq(Nat),
         ReadTo(typed, tail, cp, argv, Len(typed)), NEW j \in 1 .. Len(typed)
  PROVE  String(argv[j + 1]) = typed[j].word
<1>1. PICK w \in Word : w = typed[j] /\ w.word \in Seq(Nat) /\ w.quote \in Nat
  <2>1. typed[j] \in Word
    OBVIOUS
  <2> QED
    BY <2>1 DEF Word, Quotes
<1>2. PICK x \in Nat, n \in Nat, z \in Nat, c \in Nat :
        /\ x = Starts(typed, j) /\ n = Letters(typed, j) /\ n = Len(w.word) /\ z = Len(tail)
        /\ c = cp /\ x >= 1
  <2>1. Starts(typed, j) \in Nat /\ Starts(typed, j) >= 1 /\ Letters(typed, j) \in Nat
    BY Edges
  <2>2. cp \in Nat /\ Len(tail) \in Nat
    BY AtChar
  <2>3. Letters(typed, j) = Len(w.word)
    BY <1>1 DEF Letters
  <2> QED
    BY <2>1, <2>2, <2>3
<1>3. /\ argv[j + 1] = x /\ x + n <= c
      /\ \A i \in 1 .. n : tail[x - 1 + i] = w.word[i]
      /\ x + n <= z => tail[x + n] = 0
  <2>1. Got(typed, tail, cp, argv, j)
    BY DEF ReadTo
  <2> QED
    BY <1>1, <1>2, <2>1 DEF Got
<1>4. c <= z + 1
  <2>1. Len(typed) \in Nat /\ Len(tail) = Len(Written(typed))
    BY DEF ReadTo
  <2>2. Ends(typed)[Len(typed)] = z
    BY <1>2, <2>1, Layout
  <2>3. cp \in 1 .. Ends(typed)[Len(typed)] + 1
    BY DEF ReadTo
  <2> QED
    BY <1>2, <2>2, <2>3
<1>5. x + n <= z + 1
  BY <1>3, <1>4
<1>6. ASSUME NEW r \in x .. (x + n) - 1
      PROVE  /\ r <= z /\ r - x + 1 \in 1 .. n /\ tail[r] = w.word[r - x + 1]
             /\ tail[r] \in Nat /\ tail[r] # 0
  <2>1. r <= z /\ r \in 1 .. z /\ r - x + 1 \in 1 .. n /\ x - 1 + (r - x + 1) = r
    <3>1. r \in Int /\ x <= r /\ r <= (x + n) - 1 /\ x >= 1
      BY <1>2
    <3> QED
      BY <1>5, <3>1
  <2>2. tail[r] = w.word[r - x + 1]
    BY <1>3, <2>1
  <2>3. r - x + 1 \in DOMAIN w.word /\ j \in DOMAIN typed
    <3>1. DOMAIN w.word = 1 .. n
      BY <1>1, <1>2
    <3> QED
      BY <2>1, <3>1
  <2>4. w.word[r - x + 1] # 0
    <3>1. CASE w.quote = 0
      BY <1>1, <2>3, <3>1 DEF WellTyped
    <3>2. CASE w.quote # 0
      BY <1>1, <2>3, <3>2 DEF WellTyped
    <3> QED
      BY <3>1, <3>2
  <2>5. tail[r] \in Nat
    <3>1. r \in 1 .. Len(tail)
      BY <1>2, <2>1
    <3> QED
      BY <3>1
  <2> QED
    BY <2>1, <2>2, <2>4, <2>5
<1>7. NextOf(x, {0}) = x + n
  <2>1. x + n \in x .. Len(tail) + 1
    BY <1>2, <1>5
  <2>2. CharAt(x + n) \in {0}
    BY <1>2, <1>3 DEF CharAt
  <2>3. \A r \in x .. (x + n) - 1 : CharAt(r) \notin {0}
    BY <1>2, <1>6 DEF CharAt
  <2> QED
    BY ONLY tail \in Seq(Nat), x \in Nat, <2>1, <2>2, <2>3, NextOfIs, Zenon
<1>8. String(x) = SubSeq(tail, x, (x + n) - 1)
  <2>1. x # 0
    BY <1>2
  <2> QED
    BY <1>7, <2>1, Zenon DEF String
<1>9. PICK m \in Int : m = (x + n) - 1 /\ m - x + 1 = n
  OBVIOUS
<1>10. PICK y \in Seq(Nat) : /\ y = SubSeq(tail, x, m) /\ Len(y) = n
                             /\ \A i \in 1 .. n : y[i] = tail[x + i - 1]
  <2>1. x \in Int /\ \A i \in x .. m : tail[i] \in Nat
    BY <1>6, <1>9
  <2>2. /\ SubSeq(tail, x, m) \in Seq(Nat)
        /\ Len(SubSeq(tail, x, m)) = IF x <= m THEN m - x + 1 ELSE 0
        /\ \A i \in 1 .. m - x + 1 : SubSeq(tail, x, m)[i] = tail[x + i - 1]
    BY ONLY <2>1, m \in Int, SubSeqProperties
  <2>3. (IF x <= m THEN m - x + 1 ELSE 0) = n
    BY <1>9
  <2> QED
    BY <1>9, <2>2, <2>3
<1>11. \A i \in 1 .. n : y[i] = w.word[i]
  <2> TAKE i \in 1 .. n
  <2>1. x + i - 1 = x - 1 + i
    OBVIOUS
  <2> QED
    BY <1>3, <1>10, <2>1
<1>12. y = w.word
  BY <1>1, <1>2, <1>10, <1>11, SeqEqual
<1> QED
  BY <1>1, <1>3, <1>8, <1>9, <1>10, <1>12

(* The arguments are the words.                                          *)
LEMMA ArgvIs ==
  ASSUME typed \in Seq(Word), WellTyped(typed), tail \in Seq(Nat), argv \in Seq(Nat),
         ReadTo(typed, tail, cp, argv, Len(typed))
  PROVE  /\ Argv = <<ProgName>> \o [k \in DOMAIN typed |-> typed[k].word]
         /\ ~Unclosed(typed)
<1>1. PICK N \in Nat : N = Len(typed) /\ DOMAIN typed = 1 .. N
  OBVIOUS
<1> DEFINE S  == {ProgName} \cup Seq(Nat)
           ws == [k \in 1 .. N |-> typed[k].word]
<1>2. ws \in Seq(S) /\ Len(ws) = N /\ \A k \in 1 .. N : ws[k] = typed[k].word
  <2>1. \A k \in 1 .. N : typed[k].word \in S
    BY <1>1, Edges
  <2> HIDE DEF S
  <2> QED
    BY <1>1, <2>1
<1>3. PICK x \in Seq(S) : x = <<ProgName>> /\ Len(x) = 1 /\ x[1] = ProgName
  <2>1. ProgName \in S
    OBVIOUS
  <2> HIDE DEF S
  <2>2. <<ProgName>> \in Seq(S) /\ Len(<<ProgName>>) = 1 /\ <<ProgName>>[1] = ProgName
    BY <2>1
  <2> QED
    BY <2>2
<1>4. PICK y \in Seq(S) : /\ y = x \o ws /\ Len(y) = 1 + N
                          /\ \A i \in 1 .. 1 + N : y[i] = IF i <= 1 THEN x[i] ELSE ws[i - 1]
  <2> HIDE DEF S, ws
  <2>1. ws \in Seq(S)
    BY <1>2
  <2>2. /\ x \o ws \in Seq(S) /\ Len(x \o ws) = Len(x) + Len(ws)
        /\ \A i \in 1 .. Len(x) + Len(ws) :
             (x \o ws)[i] = IF i <= Len(x) THEN x[i] ELSE ws[i - Len(x)]
    BY ONLY x \in Seq(S), <2>1, ConcatProperties
  <2> QED
    BY <1>2, <1>3, <2>2
<1>5. DOMAIN argv = 1 .. 1 + N /\ argv[1] = 0
  <2>1. Len(argv) = N + 1 /\ argv[1] = 0
    BY <1>1 DEF ReadTo
  <2> QED
    BY <1>1, <2>1
<1>6. ASSUME NEW i \in 1 .. 1 + N PROVE String(argv[i]) = y[i]
  <2>1. CASE i = 1
    BY <1>3, <1>4, <1>5, <2>1 DEF String
  <2>2. CASE i # 1
    <3>1. PICK j \in 1 .. N : i = j + 1 /\ j = i - 1
      <4>1. i - 1 \in 1 .. N /\ i = (i - 1) + 1
        BY <1>1, <2>2
      <4> QED
        BY <4>1
    <3>2. String(argv[j + 1]) = typed[j].word
      BY <1>1, StringIs
    <3>3. y[i] = ws[j]
      <4> HIDE DEF ws, S
      <4>1. ~(i <= 1)
        BY <3>1
      <4> QED
        BY <1>4, <3>1, <4>1
    <3> QED
      BY <1>2, <3>1, <3>2, <3>3
  <2> QED
    BY <2>1, <2>2
<1>7. y = [i \in 1 .. 1 + N |-> y[i]]
  <2>1. DOMAIN y = 1 .. Len(y)
    OBVIOUS
  <2>2. Len(y) = 1 + N /\ y = [i \in DOMAIN y |-> y[i]]
    BY <1>4
  <2> HIDE DEF S, ws
  <2> QED
    BY <2>1, <2>2
<1>8. Argv = y
  <2> HIDE DEF S, ws
  <2>1. Argv = [i \in 1 .. 1 + N |-> String(argv[i])]
    BY <1>5 DEF Argv
  <2> QED
    BY <1>6, <1>7, <2>1
<1>9. y = <<ProgName>> \o [k \in DOMAIN typed |-> typed[k].word]
  BY <1>1, <1>3, <1>4
<1>10. ~Unclosed(typed)
  <2> SUFFICES ASSUME Unclosed(typed) PROVE FALSE
    OBVIOUS
  <2>1. N \in 1 .. N /\ N \in 1 .. Len(typed)
    BY <1>1 DEF Unclosed
  <2>2. Got(typed, tail, cp, argv, N)
    BY <1>1, <2>1 DEF ReadTo
  <2>3. typed[N].gap \in Nat \cup {-1}
    BY <2>1, Edges
  <2> QED
    BY <1>1, <2>2, <2>3 DEF Got, Unclosed
<1> QED
  BY <1>8, <1>9, <1>10

LEMMA ArgsGives == ArgsInv => ArgvAsTyped
<1> SUFFICES ASSUME ArgsInv, Len(Written(typed)) <= TailMax
             PROVE  /\ pc = "main" => /\ Argv = <<ProgName>> \o [k \in DOMAIN typed |-> typed[k].word]
                                      /\ ~Unclosed(typed)
                    /\ pc = "exit" => Unclosed(typed)
  BY DEF ArgvAsTyped
<1>1. typed \in Seq(Word) /\ WellTyped(typed) /\ tail \in Seq(Nat) /\ argv \in Seq(Nat)
  BY ArgsAssumption DEF ArgsInv, Typed, ArgsTypeOK
<1>2. /\ pc = "main" => ReadTo(typed, tail, cp, argv, Len(typed))
      /\ pc = "exit" => Unclosed(typed)
  BY DEF ArgsInv, Reading
<1> QED
  BY <1>1, <1>2, ArgvIs

-----------------------------------------------------------------------------
(* A file name. *)

(* Its characters: a string has no NUL, and a line no end of line, in it. *)
FileChars == Seq(Nat \ EndOfName)

LEMMA CharIs ==
  ASSUME NEW s \in FileChars
  PROVE  /\ Len(s) \in Nat
         /\ \A p \in 1 .. Len(s) : s[p] \in Nat /\ s[p] \notin {0, 10, 13} /\ At(s, p) = s[p]
         /\ \A p \in Nat : p > Len(s) => At(s, p) = 0
BY DEF FileChars, EndOfName, At

LEMMA ExcerptIs ==
  ASSUME NEW s \in FileChars, NEW p \in 1 .. Len(s) + 1, NEW q \in p - 1 .. Len(s)
  PROVE  /\ SubSeq(s, p, q) \in FileChars
         /\ Len(SubSeq(s, p, q)) = q - p + 1
         /\ \A i \in 1 .. q - p + 1 : SubSeq(s, p, q)[i] = s[p + i - 1]
         /\ \A i \in p .. q : s[i] = SubSeq(s, p, q)[i - p + 1]
<1>1. Len(s) \in Nat /\ \A i \in p .. q : s[i] \in Nat \ EndOfName
  BY CharIs DEF FileChars
<1>2. p \in Int /\ q \in Int
  BY <1>1
<1>3. /\ SubSeq(s, p, q) \in Seq(Nat \ EndOfName)
      /\ Len(SubSeq(s, p, q)) = IF p <= q THEN q - p + 1 ELSE 0
      /\ \A i \in 1 .. q - p + 1 : SubSeq(s, p, q)[i] = s[p + i - 1]
  BY <1>1, <1>2, SubSeqProperties
<1>4. Len(SubSeq(s, p, q)) = q - p + 1
  BY <1>1, <1>3
<1>5. ASSUME NEW i \in p .. q PROVE s[i] = SubSeq(s, p, q)[i - p + 1]
  <2>1. i - p + 1 \in 1 .. q - p + 1 /\ p + (i - p + 1) - 1 = i
    BY <1>1
  <2> QED
    BY <1>3, <2>1
<1> QED
  BY <1>3, <1>4, <1>5 DEF FileChars

(* What the code takes for a token, and for a name or a type: with any     *)
(* semicolon in it.                                                        *)
Token(w)     == Len(w) <= TokLen /\ \A i \in DOMAIN w : w[i] \notin Delim \cup {0}
TokenPart(w) == Token(Bare(w))

(* A token ends at q. *)
TokStops(s, p, q) == At(s, q) \in Delim \cup {0} \/ q = p + TokLen

LEMMA TokEndIs ==
  ASSUME NEW s \in FileChars, NEW p \in 1 .. Len(s) + 1
  PROVE  /\ TokEnd(s, p) \in p .. Len(s) + 1
         /\ TokStops(s, p, TokEnd(s, p))
         /\ \A r \in p .. TokEnd(s, p) - 1 : ~TokStops(s, p, r)
<1> DEFINE A == {q \in p .. Len(s) + 1 : TokStops(s, p, q)}
<1>1. Len(s) \in Nat
  BY CharIs
<1>2. Len(s) + 1 \in A
  BY <1>1, CharIs DEF TokStops
<1>3. A \subseteq Nat /\ A # {}
  BY <1>1, <1>2
<1>4. PICK e \in A : \A x \in A : e <= x
  <2> HIDE DEF A
  <2> QED
    BY <1>3, SmallestElement
<1>5. e \in p .. Len(s) + 1 /\ TokStops(s, p, e)
  BY <1>4
<1>6. ASSUME NEW r \in p .. e - 1 PROVE ~TokStops(s, p, r)
  <2>1. r \in p .. Len(s) + 1 /\ ~(e <= r)
    BY <1>1, <1>5
  <2> QED
    BY <1>4, <2>1
<1>7. TokEnd(s, p) = CHOOSE q \in p .. Len(s) + 1 :
                       TokStops(s, p, q) /\ \A r \in p .. q - 1 : ~TokStops(s, p, r)
  BY DEF TokEnd, TokStops
<1> QED
  <2> HIDE DEF A
  <2> QED
    BY <1>5, <1>6, <1>7

LEMMA TokEndAt ==
  ASSUME NEW s \in FileChars, NEW p \in 1 .. Len(s) + 1, NEW e \in p .. Len(s) + 1,
         TokStops(s, p, e), \A r \in p .. e - 1 : ~TokStops(s, p, r)
  PROVE  TokEnd(s, p) = e
<1>1. Len(s) \in Nat
  BY CharIs
<1> DEFINE t == TokEnd(s, p)
<1>2. t \in p .. Len(s) + 1 /\ TokStops(s, p, t) /\ \A r \in p .. t - 1 : ~TokStops(s, p, r)
  BY TokEndIs
<1> HIDE DEF t
<1>3. ~(t < e)
  BY <1>1, <1>2
<1>4. ~(e < t)
  BY <1>1, <1>2
<1>5. t = e
  BY <1>1, <1>2, <1>3, <1>4
<1> QED
  BY <1>5 DEF t

(* An excerpt is a token that ends where the excerpt does. *)
LEMMA TokenIs ==
  ASSUME NEW s \in FileChars, NEW p \in 1 .. Len(s) + 1, NEW q \in p - 1 .. Len(s)
  PROVE  Token(SubSeq(s, p, q)) <=> /\ q - p + 1 <= TokLen
                                      /\ \A i \in p .. q : s[i] \notin Delim
<1>1. Len(s) \in Nat
  BY CharIs
<1> DEFINE w == SubSeq(s, p, q)
<1>2. /\ w \in FileChars /\ Len(w) = q - p + 1
      /\ \A i \in 1 .. q - p + 1 : w[i] = s[p + i - 1]
      /\ \A i \in p .. q : s[i] = w[i - p + 1]
  BY ExcerptIs
<1> HIDE DEF w
<1>3. DOMAIN w = 1 .. q - p + 1 /\ \A i \in DOMAIN w : w[i] # 0
  <2>1. DOMAIN w = 1 .. Len(w)
    BY <1>2 DEF FileChars
  <2> QED
    BY <1>2, <2>1, CharIs
<1>4. ASSUME \A i \in DOMAIN w : w[i] \notin Delim \cup {0}, NEW i \in p .. q
      PROVE  s[i] \notin Delim
  <2>1. i - p + 1 \in 1 .. q - p + 1
    BY <1>1
  <2> QED
    BY <1>2, <1>3, <1>4, <2>1
<1>5. ASSUME \A i \in p .. q : s[i] \notin Delim, NEW i \in DOMAIN w
      PROVE  w[i] \notin Delim \cup {0}
  <2>1. p + i - 1 \in p .. q
    BY <1>1, <1>3
  <2>2. w[i] = s[p + i - 1] /\ w[i] # 0
    BY <1>2, <1>3
  <2> QED
    BY <1>5, <2>1, <2>2
<1> QED
  BY <1>2, <1>4, <1>5 DEF Token, w

LEMMA TokEndIff ==
  ASSUME NEW s \in FileChars, NEW p \in 1 .. Len(s) + 1, NEW q \in p - 1 .. Len(s)
  PROVE  TokEnd(s, p) = q + 1 <=> /\ Token(SubSeq(s, p, q))
                                  /\ At(s, q + 1) \in Delim \cup {0} \/ q - p + 1 = TokLen
<1>1. Len(s) \in Nat /\ TokLen \in Nat
  BY CharIs, ParseFnAssumption
<1>2. q + 1 \in p .. Len(s) + 1
  BY <1>1
<1>3. TokStops(s, p, q + 1) <=> At(s, q + 1) \in Delim \cup {0} \/ q - p + 1 = TokLen
  BY <1>1 DEF TokStops
<1>4. ASSUME NEW r \in p .. q
      PROVE  ~TokStops(s, p, r) <=> s[r] \notin Delim /\ r # p + TokLen
  <2>1. r \in 1 .. Len(s)
    BY <1>1
  <2>2. At(s, r) = s[r] /\ s[r] # 0
    BY <2>1, CharIs
  <2> QED
    BY <2>2 DEF TokStops
<1>5. ASSUME TokEnd(s, p) = q + 1
      PROVE  Token(SubSeq(s, p, q)) /\ TokStops(s, p, q + 1)
  <2>1. TokStops(s, p, q + 1) /\ \A r \in p .. q : ~TokStops(s, p, r)
    <3>1. p .. (q + 1) - 1 = p .. q
      BY <1>1
    <3> QED
      BY <1>5, <3>1, TokEndIs
  <2>2. \A r \in p .. q : s[r] \notin Delim /\ r # p + TokLen
    BY <1>4, <2>1
  <2>3. q - p + 1 <= TokLen
    <3>1. p + TokLen \notin p .. q
      BY <2>2
    <3> QED
      BY <1>1, <3>1
  <2> QED
    BY <2>1, <2>2, <2>3, TokenIs
<1>6. ASSUME Token(SubSeq(s, p, q)), TokStops(s, p, q + 1)
      PROVE  TokEnd(s, p) = q + 1
  <2>1. q - p + 1 <= TokLen /\ \A i \in p .. q : s[i] \notin Delim
    BY <1>6, TokenIs
  <2>2. \A r \in p .. q : r # p + TokLen
    BY <1>1, <2>1
  <2>3. \A r \in p .. (q + 1) - 1 : ~TokStops(s, p, r)
    <3>1. p .. (q + 1) - 1 = p .. q
      BY <1>1
    <3> QED
      BY <1>4, <2>1, <2>2, <3>1
  <2> QED
    BY <1>2, <1>6, <2>3, TokEndAt
<1> QED
  BY <1>3, <1>5, <1>6

-----------------------------------------------------------------------------
(* A name or a type, from p to q: a token or a star, and what ends it. *)
Ending(s, p, q) ==
  LET w == SubSeq(s, p, q)
  IN  /\ TokenPart(w)
      /\ HasStar(w) \/ /\ At(s, q + 1) # Star
                       /\ At(s, q + 1) \in Delim \cup {0} \/ q - p + 1 = TokLen

LEMMA StarIs ==
  ASSUME NEW s \in FileChars, NEW p \in 1 .. Len(s) + 1, NEW q \in p - 1 .. Len(s)
  PROVE  /\ HasStar(SubSeq(s, p, q)) <=> p <= q /\ s[q] = Star
         /\ HasStar(SubSeq(s, p, q)) => Bare(SubSeq(s, p, q)) = SubSeq(s, p, q - 1)
<1>1. Len(s) \in Nat
  BY CharIs
<1> DEFINE w == SubSeq(s, p, q)
<1>2. /\ w \in FileChars /\ Len(w) = q - p + 1
      /\ \A i \in 1 .. q - p + 1 : w[i] = s[p + i - 1]
  BY ExcerptIs
<1> HIDE DEF w
<1>3. w # <<>> <=> p <= q
  <2>1. w # <<>> <=> Len(w) # 0
    BY <1>2 DEF FileChars
  <2> QED
    BY <1>1, <1>2, <2>1
<1>4. p <= q => w[Len(w)] = s[q]
  <2> SUFFICES ASSUME p <= q PROVE w[Len(w)] = s[q]
    OBVIOUS
  <2>1. q - p + 1 \in 1 .. q - p + 1 /\ p + (q - p + 1) - 1 = q
    BY <1>1
  <2> QED
    BY <1>2, <2>1
<1>5. HasStar(w) <=> p <= q /\ s[q] = Star
  BY <1>3, <1>4 DEF HasStar
<1>6. ASSUME p <= q PROVE SubSeq(w, 1, Len(w) - 1) = SubSeq(s, p, q - 1)
  <2>1. Len(w) - 1 = q - p /\ q - 1 \in p - 1 .. Len(s) /\ 1 \in 1 .. Len(w) + 1
        /\ q - p \in 1 - 1 .. Len(w)
    BY <1>1, <1>2, <1>6
  <2>2. /\ SubSeq(w, 1, q - p) \in FileChars /\ Len(SubSeq(w, 1, q - p)) = (q - p) - 1 + 1
        /\ \A i \in 1 .. (q - p) - 1 + 1 : SubSeq(w, 1, q - p)[i] = w[1 + i - 1]
    BY <1>2, <2>1, ExcerptIs
  <2>3. /\ SubSeq(s, p, q - 1) \in FileChars /\ Len(SubSeq(s, p, q - 1)) = (q - 1) - p + 1
        /\ \A i \in 1 .. (q - 1) - p + 1 : SubSeq(s, p, q - 1)[i] = s[p + i - 1]
    BY <2>1, ExcerptIs
  <2>4. (q - p) - 1 + 1 = q - p /\ (q - 1) - p + 1 = q - p
    BY <1>1
  <2>5. \A i \in 1 .. q - p : SubSeq(w, 1, q - p)[i] = SubSeq(s, p, q - 1)[i]
    <3> SUFFICES ASSUME NEW i \in 1 .. q - p
                 PROVE  SubSeq(w, 1, q - p)[i] = SubSeq(s, p, q - 1)[i]
      OBVIOUS
    <3>1. i \in 1 .. q - p + 1 /\ 1 + i - 1 = i
      BY <1>1
    <3> QED
      BY <1>2, <2>2, <2>3, <2>4, <3>1
  <2>6. SubSeq(w, 1, q - p) = SubSeq(s, p, q - 1)
    BY <2>2, <2>3, <2>4, <2>5, SeqEqual DEF FileChars
  <2> QED
    BY <2>1, <2>6
<1>7. HasStar(w) => Bare(w) = SubSeq(s, p, q - 1)
  BY <1>5, <1>6 DEF Bare
<1> QED
  BY <1>5, <1>7 DEF w

LEMMA PartIs ==
  ASSUME NEW s \in FileChars, NEW p \in 1 .. Len(s) + 1, NEW q \in p - 1 .. Len(s), NEW n
  PROVE  /\ Part(s, p, n).next = q + 1 <=> Ending(s, p, q)
         /\ Ending(s, p, q) => Part(s, p, n).field = Padded(SubSeq(s, p, q), n)
<1> DEFINE e == TokEnd(s, p)
           w == SubSeq(s, p, q)
           m == Part(s, p, n)
<1>1. Len(s) \in Nat
  BY CharIs
<1>2. e \in p .. Len(s) + 1
  BY TokEndIs
<1>3. /\ m.next = IF At(s, e) = Star THEN e + 1 ELSE e
      /\ m.field = Field(SubSeq(s, p, e - 1), IF At(s, e) = Star THEN Question ELSE Space, n)
  BY DEF Part
<1>4. Star \in Delim /\ Star # 0
  BY DEF Star, Delim
<1>5. At(s, e) = Star => e <= Len(s) /\ s[e] = Star
  BY <1>1, <1>2, <1>4, CharIs
<1>6. e = q + 1 <=> Token(w) /\ (At(s, q + 1) \in Delim \cup {0} \/ q - p + 1 = TokLen)
  BY TokEndIff
<1>7. HasStar(w) <=> p <= q /\ s[q] = Star
  BY StarIs
<1>8. Token(w) => ~HasStar(w)
  <2> SUFFICES ASSUME Token(w), HasStar(w) PROVE FALSE
    OBVIOUS
  <2>1. s[q] \notin Delim
    BY <1>1, <1>7, TokenIs
  <2> QED
    BY <1>4, <1>7, <2>1
<1>9. CASE HasStar(w)
  <2>1. p <= q /\ s[q] = Star /\ Bare(w) = SubSeq(s, p, q - 1)
    BY <1>7, <1>9, StarIs
  <2>2. q - 1 \in p - 1 .. Len(s) /\ (q - 1) + 1 = q /\ q \in 1 .. Len(s)
    BY <1>1, <2>1
  <2>3. At(s, q) = Star
    BY <2>1, <2>2, CharIs
  <2>4. e = q <=> Token(SubSeq(s, p, q - 1))
    BY <1>4, <2>2, <2>3, TokEndIff
  <2>5. Ending(s, p, q) <=> e = q
    BY <1>9, <2>1, <2>4 DEF Ending, TokenPart
  <2>6. m.next = q + 1 <=> e = q
    <3>1. e # q + 1
      BY <1>6, <1>8, <1>9
    <3> QED
      BY <1>1, <1>2, <1>3, <2>3, <3>1
  <2>7. e = q => m.field = Padded(w, n)
    BY <1>3, <1>9, <2>1, <2>3 DEF Padded
  <2> QED
    BY <2>5, <2>6, <2>7
<1>10. CASE ~HasStar(w)
  <2>1. Bare(w) = w
    BY <1>10 DEF Bare
  <2>2. Ending(s, p, q) <=> e = q + 1 /\ At(s, e) # Star
    BY <1>6, <1>10, <2>1 DEF Ending, TokenPart
  <2>3. At(s, e) = Star => e # q
    BY <1>2, <1>5, <1>7, <1>10
  <2>4. m.next = q + 1 <=> e = q + 1 /\ At(s, e) # Star
    BY <1>1, <1>2, <1>3, <2>3
  <2>5. e = q + 1 /\ At(s, e) # Star => m.field = Padded(w, n)
    <3> SUFFICES ASSUME e = q + 1, At(s, e) # Star PROVE m.field = Padded(w, n)
      OBVIOUS
    <3>1. e - 1 = q
      BY <1>1
    <3> QED
      BY <1>3, <1>10, <2>1, <3>1 DEF Padded
  <2> QED
    BY <2>2, <2>4, <2>5
<1> QED
  BY <1>9, <1>10

LEMMA PartNext ==
  ASSUME NEW s \in FileChars, NEW p \in 1 .. Len(s) + 1, NEW n
  PROVE  Part(s, p, n).next \in p .. Len(s) + 1
<1> DEFINE e == TokEnd(s, p)
<1>1. Len(s) \in Nat /\ e \in p .. Len(s) + 1
  BY CharIs, TokEndIs
<1>2. Part(s, p, n).next = IF At(s, e) = Star THEN e + 1 ELSE e
  BY DEF Part
<1>3. At(s, e) = Star => e <= Len(s)
  BY <1>1, CharIs DEF Star
<1> QED
  <2> HIDE DEF e
  <2> QED
    BY <1>1, <1>2, <1>3

-----------------------------------------------------------------------------
(* What stands in front of a colon. *)

SpecChars == Seq(Digit \cup Letter)

LEMMA DigitsAre ==
  ASSUME NEW tok \in SpecChars
  PROVE  /\ Digits(tok) \in 0 .. Len(tok)
         /\ \A i \in 1 .. Digits(tok) : tok[i] \in Digit
         /\ Digits(tok) < Len(tok) => tok[Digits(tok) + 1] \in Letter
<1> DEFINE A == {k \in 0 .. Len(tok) : At(tok, k + 1) \notin Digit}
<1>1. Len(tok) \in Nat /\ \A i \in 1 .. Len(tok) : tok[i] \in Digit \cup Letter /\ At(tok, i) = tok[i]
  BY DEF SpecChars, At
<1>2. At(tok, Len(tok) + 1) = 0
  BY <1>1 DEF At
<1>3. Len(tok) \in A
  BY <1>1, <1>2 DEF Digit
<1>4. A \subseteq Nat /\ A # {}
  BY <1>1, <1>3
<1>5. PICK d \in A : \A x \in A : d <= x
  <2> HIDE DEF A
  <2> QED
    BY <1>4, SmallestElement
<1>6. d \in 0 .. Len(tok) /\ At(tok, d + 1) \notin Digit
  BY <1>5
<1>7. ASSUME NEW i \in 1 .. d PROVE tok[i] \in Digit
  <2>1. i - 1 \in 0 .. Len(tok) /\ ~(d <= i - 1) /\ (i - 1) + 1 = i /\ i \in 1 .. Len(tok)
    BY <1>1, <1>6
  <2>2. i - 1 \notin A
    BY <1>5, <2>1
  <2> QED
    BY <1>1, <2>1, <2>2
<1>8. Digits(tok) = CHOOSE k \in 0 .. Len(tok) : /\ \A i \in 1 .. k : tok[i] \in Digit
                                                 /\ At(tok, k + 1) \notin Digit
  BY DEF Digits
<1>9. /\ Digits(tok) \in 0 .. Len(tok) /\ \A i \in 1 .. Digits(tok) : tok[i] \in Digit
      /\ At(tok, Digits(tok) + 1) \notin Digit
  <2> HIDE DEF A
  <2> QED
    BY <1>6, <1>7, <1>8
<1>10. Digits(tok) < Len(tok) => Digits(tok) + 1 \in 1 .. Len(tok)
  BY <1>1, <1>9
<1> QED
  BY <1>1, <1>9, <1>10

(* The rounds of Number, as in its definition. *)
Numbers(tok) ==
  CHOOSE N : N = [k \in 0 .. Len(tok) |-> IF k = 0 THEN 0 ELSE WORD(10 * N[k - 1] + tok[k] - 48)]

LEMMA NumberIsNumbers == ASSUME NEW tok PROVE Number(tok) = Numbers(tok)[Digits(tok)]
BY DEF Number, Numbers

LEMMA WordType == ASSUME NEW x \in Int PROVE WORD(x) \in Int
BY DEF WORD

LEMMA SmallWord == ASSUME NEW x \in 0 .. 99 PROVE WORD(x) = x
BY DEF WORD

LEMMA SmallByte == ASSUME NEW x \in 0 .. 100 PROVE BYTE(x) = x
BY DEF BYTE

LEMMA NumbersAre ==
  ASSUME NEW tok \in SpecChars
  PROVE  /\ Numbers(tok)[0] = 0
         /\ \A k \in 1 .. Len(tok) : Numbers(tok)[k] = WORD(10 * Numbers(tok)[k - 1] + tok[k] - 48)
<1> DEFINE G == [p \in Int \X (1 .. Len(tok)) |-> WORD(10 * p[1] + tok[p[2]] - 48)]
<1>1. Len(tok) \in Nat /\ \A i \in 1 .. Len(tok) : tok[i] \in Int
  <2>1. Digit \cup Letter \subseteq Int
    BY DEF Digit, Letter
  <2>2. Len(tok) \in Nat /\ \A i \in 1 .. Len(tok) : tok[i] \in Digit \cup Letter
    BY DEF SpecChars
  <2> QED
    BY <2>1, <2>2
<1>2. G \in [Int \X (1 .. Len(tok)) -> Int]
  <2>1. ASSUME NEW p \in Int \X (1 .. Len(tok)) PROVE WORD(10 * p[1] + tok[p[2]] - 48) \in Int
    <3>1. 10 * p[1] + tok[p[2]] - 48 \in Int
      BY <1>1
    <3> QED
      BY <3>1, WordType
  <2> QED
    BY <2>1
<1>3. \A x \in Int : \A i \in 1 .. Len(tok) : G[<<x, i>>] = WORD(10 * x + tok[i] - 48)
  OBVIOUS
<1> HIDE DEF G
<1>4. PICK f : Steps(f, Int, 0, Len(tok), G)
  <2>1. 0 \in Int
    OBVIOUS
  <2> QED
    BY <1>1, <1>2, <2>1, SomeSteps
<1>5. f = [i \in 0 .. Len(tok) |-> f[i]] /\ \A i \in 0 .. Len(tok) : f[i] \in Int
  BY <1>4 DEF Steps
<1>6. ASSUME NEW k \in 0 .. Len(tok)
      PROVE  f[k] = IF k = 0 THEN 0 ELSE WORD(10 * f[k - 1] + tok[k] - 48)
  <2>1. k # 0 => k \in 1 .. Len(tok) /\ k - 1 \in 0 .. Len(tok)
    BY <1>1
  <2> QED
    BY <1>3, <1>4, <1>5, <2>1 DEF Steps
<1>7. f = [k \in 0 .. Len(tok) |-> IF k = 0 THEN 0 ELSE WORD(10 * f[k - 1] + tok[k] - 48)]
  BY <1>5, <1>6
<1>8. Numbers(tok) = [k \in 0 .. Len(tok) |-> IF k = 0 THEN 0
                                              ELSE WORD(10 * Numbers(tok)[k - 1] + tok[k] - 48)]
  BY <1>7 DEF Numbers
<1>9. PICK D : D = Numbers(tok)
  OBVIOUS
<1>10. D = [k \in 0 .. Len(tok) |-> IF k = 0 THEN 0 ELSE WORD(10 * D[k - 1] + tok[k] - 48)]
  BY <1>8, <1>9
<1>11. D[0] = 0
  BY <1>1, <1>10
<1>12. ASSUME NEW k \in 1 .. Len(tok) PROVE D[k] = WORD(10 * D[k - 1] + tok[k] - 48)
  <2>1. k \in 0 .. Len(tok) /\ k # 0
    BY <1>1
  <2> QED
    BY <1>10, <2>1
<1> QED
  BY <1>9, <1>11, <1>12

(* Up to two digits mean what they say. *)
LEMMA NumberIs ==
  ASSUME NEW tok \in SpecChars, Digits(tok) \in 1 .. 2
  PROVE  /\ Number(tok) \in 0 .. 99
         /\ Number(tok) = IF Digits(tok) = 1 THEN tok[1] - 48 ELSE 10 * (tok[1] - 48) + tok[2] - 48
<1> DEFINE N == Numbers(tok)
<1>1. Digits(tok) \in 0 .. Len(tok) /\ \A i \in 1 .. Digits(tok) : tok[i] \in Digit
  BY DigitsAre
<1>2. Len(tok) \in Nat
  BY DEF SpecChars
<1>3. 1 \in 1 .. Len(tok) /\ tok[1] \in Digit
  BY <1>1, <1>2
<1>4. N[1] = WORD(10 * N[1 - 1] + tok[1] - 48) /\ N[0] = 0
  BY <1>3, NumbersAre
<1>5. N[1] = WORD(tok[1] - 48)
  BY <1>3, <1>4 DEF Digit
<1>6. tok[1] - 48 \in 0 .. 9
  BY <1>3 DEF Digit
<1>7. N[1] = tok[1] - 48
  BY <1>5, <1>6, SmallWord
<1>8. CASE Digits(tok) = 1
  BY <1>6, <1>7, <1>8, NumberIsNumbers
<1>9. CASE Digits(tok) = 2
  <2>1. 2 \in 1 .. Len(tok) /\ tok[2] \in Digit
    BY <1>1, <1>2, <1>9
  <2>2. N[2] = WORD(10 * N[2 - 1] + tok[2] - 48)
    BY <2>1, NumbersAre
  <2>3. N[2] = WORD(10 * (tok[1] - 48) + tok[2] - 48)
    <3>1. 2 - 1 = 1
      OBVIOUS
    <3> QED
      BY <1>7, <2>2, <3>1
  <2>4. 10 * (tok[1] - 48) + tok[2] - 48 \in 0 .. 99
    <3>1. PICK x \in 0 .. 9, y \in 48 .. 57 : x = tok[1] - 48 /\ y = tok[2]
      BY <1>6, <2>1 DEF Digit
    <3>2. 10 * x + y - 48 \in 0 .. 99
      OBVIOUS
    <3> QED
      BY <3>1, <3>2
  <2> QED
    BY <1>9, <2>3, <2>4, SmallWord, NumberIsNumbers
<1> QED
  BY <1>8, <1>9

(* The letter of a drive. *)
LEMMA DriveIs ==
  ASSUME NEW c \in Letter
  PROVE  BYTE(Upper(c) - 64) = 1 + ((c - 65) % 32) /\ 1 + ((c - 65) % 32) \in 1 .. 26
BY DEF Letter, Upper, BYTE

(* stuff_drive accepts up to two digits and a letter, and gives what they mean. *)
LEMMA SpecIs ==
  ASSUME NEW tok \in SpecChars, Len(tok) >= 3 => \E i \in 1 .. 3 : tok[i] \notin Digit
  PROVE  /\ StuffDrive(tok).ok <=> IsSpec(tok)
         /\ IsSpec(tok) => /\ Len(tok) <= 3
                           /\ StuffDrive(tok).fuser = UserOf(tok)
                           /\ StuffDrive(tok).drive = DriveOf(tok)
<1> DEFINE d == Digits(tok)
           u == UserPart(tok)
<1>1. /\ d \in 0 .. Len(tok) /\ \A i \in 1 .. d : tok[i] \in Digit
      /\ d < Len(tok) => tok[d + 1] \in Letter
  BY DigitsAre
<1>2. Len(tok) \in Nat /\ DOMAIN tok = 1 .. Len(tok) /\ (tok # <<>> <=> Len(tok) # 0)
      /\ \A i \in 1 .. Len(tok) : tok[i] \in Digit \cup Letter
  BY DEF SpecChars
<1>3. Digit \cap Letter = {}
  BY DEF Digit, Letter
<1>4. d <= 2
  <2> SUFFICES ASSUME d >= 3 PROVE FALSE
    BY <1>1, <1>2
  <2>1. Len(tok) >= 3 /\ \A i \in 1 .. 3 : i \in 1 .. d
    BY <1>1, <1>2
  <2> QED
    BY <1>1, <2>1
<1>5. StuffDrive(tok) = [ok    |-> Len(tok) <= d + 1 /\ UserCode(tok) <= 16 /\ DriveCode(tok) <= 15,
                         fuser |-> UserCode(tok),
                         drive |-> DriveCode(tok)]
  BY DEF StuffDrive
<1> HIDE DEF d, u
<1>6. /\ StuffDrive(tok).ok <=> Len(tok) <= d + 1 /\ UserCode(tok) <= 16 /\ DriveCode(tok) <= 15
      /\ StuffDrive(tok).fuser = UserCode(tok) /\ StuffDrive(tok).drive = DriveCode(tok)
  <2> DEFINE o == Len(tok) <= d + 1 /\ UserCode(tok) <= 16 /\ DriveCode(tok) <= 15
  <2>1. StuffDrive(tok) = [ok |-> o, fuser |-> UserCode(tok), drive |-> DriveCode(tok)]
    BY <1>5
  <2> HIDE DEF o
  <2>2. StuffDrive(tok).ok = o /\ StuffDrive(tok).fuser = UserCode(tok)
        /\ StuffDrive(tok).drive = DriveCode(tok)
    BY <2>1
  <2> QED
    BY <2>2 DEF o
<1>13. d \in Nat /\ Len(tok) \in Nat /\ d <= Len(tok)
  BY <1>1, <1>2
<1>7. HasLetter(tok) <=> Len(tok) # 0 /\ tok[Len(tok)] \in Letter
  BY <1>2 DEF HasLetter
<1>8. ASSUME HasLetter(tok)
      PROVE  u \in SpecChars /\ Len(u) = Len(tok) - 1 /\ DOMAIN u = 1 .. Len(tok) - 1
             /\ \A i \in 1 .. Len(tok) - 1 : u[i] = tok[i]
  <2>1. u = SubSeq(tok, 1, Len(tok) - 1)
    BY <1>8 DEF u, UserPart
  <2>2. Len(tok) >= 1
    BY <1>2, <1>7, <1>8
  <2>3. \A i \in 1 .. Len(tok) - 1 : tok[i] \in Digit \cup Letter
    BY <1>2
  <2>4. 1 \in Int /\ Len(tok) - 1 \in Int
    BY <1>2
  <2>5. /\ u \in Seq(Digit \cup Letter)
        /\ Len(u) = IF 1 <= Len(tok) - 1 THEN Len(tok) - 1 - 1 + 1 ELSE 0
        /\ \A i \in 1 .. Len(tok) - 1 - 1 + 1 : u[i] = tok[1 + i - 1]
    BY <2>1, <2>3, <2>4, SubSeqProperties
  <2>6. Len(u) = Len(tok) - 1
    <3>1. Len(tok) \in Nat /\ Len(tok) >= 1
      BY <1>2, <2>2
    <3>2. Len(u) = IF 1 <= Len(tok) - 1 THEN Len(tok) - 1 - 1 + 1 ELSE 0
      BY <2>5
    <3>3. PICK n \in Nat : n = Len(tok)
      BY <3>1
    <3>4. n >= 1 => (IF 1 <= n - 1 THEN n - 1 - 1 + 1 ELSE 0) = n - 1
      OBVIOUS
    <3> QED
      BY <3>1, <3>2, <3>3, <3>4
  <2>7. \A i \in 1 .. Len(tok) - 1 : u[i] = tok[i]
    <3> SUFFICES ASSUME NEW i \in 1 .. Len(tok) - 1 PROVE u[i] = tok[i]
      OBVIOUS
    <3>1. i \in 1 .. Len(tok) - 1 - 1 + 1 /\ 1 + i - 1 = i
      BY <1>2
    <3> QED
      BY <2>5, <3>1
  <2> QED
    BY <2>5, <2>6, <2>7 DEF SpecChars
<1>9. ~HasLetter(tok) => u = tok
  BY DEF u, UserPart
<1>10. IsSpec(tok) <=> /\ Len(u) <= 2 /\ \A i \in DOMAIN u : u[i] \in Digit
                       /\ UserOf(tok) <= 16 /\ DriveOf(tok) <= 15
  BY DEF IsSpec, u
<1>11. CASE Len(tok) > d + 1
  <2>1. d + 1 \in 1 .. Len(tok) - 1 /\ d + 1 \in 1 .. Len(tok) /\ tok[d + 1] \in Letter
    BY <1>1, <1>2, <1>11
  <2>2. d + 1 \in DOMAIN u /\ u[d + 1] = tok[d + 1]
    BY <1>2, <1>8, <1>9, <2>1
  <2>3. u[d + 1] \notin Digit
    BY <1>3, <2>1, <2>2
  <2>4. ~IsSpec(tok)
    BY <1>10, <2>2, <2>3
  <2>5. ~(Len(tok) <= d + 1)
    BY <1>1, <1>2, <1>11
  <2> QED
    BY <1>6, <2>4, <2>5
<1>12. CASE Len(tok) <= d + 1
  <2>1. HasLetter(tok) <=> Len(tok) = d + 1
    <3>1. CASE Len(tok) = d + 1
      <4>1. d < Len(tok) /\ Len(tok) # 0
        BY <1>1, <3>1
      <4> QED
        BY <1>1, <1>7, <3>1, <4>1
    <3>2. CASE Len(tok) = d
      <4>1. Len(tok) # 0 => Len(tok) \in 1 .. d
        BY <1>2, <3>2
      <4>2. Len(tok) # 0 => tok[Len(tok)] \notin Letter
        BY <1>1, <1>3, <4>1
      <4> QED
        BY <1>1, <1>7, <3>2, <4>2
    <3> QED
      BY ONLY <1>12, <1>13, <3>1, <3>2
  <2>2. Len(u) = d /\ DOMAIN u = 1 .. d /\ \A i \in 1 .. d : u[i] = tok[i]
    <3>1. CASE HasLetter(tok)
      <4>1. Len(tok) - 1 = d
        BY <1>1, <2>1, <3>1
      <4> QED
        BY <1>8, <3>1, <4>1
    <3>2. CASE ~HasLetter(tok)
      <4>1. Len(tok) = d
        BY ONLY <1>12, <1>13, <2>1, <3>2
      <4> QED
        BY <1>2, <1>9, <3>2, <4>1
    <3> QED
      BY <3>1, <3>2
  <2>3. \A i \in DOMAIN u : u[i] \in Digit
    BY <1>1, <2>2
  <2>4. Len(u) <= 2 /\ Len(tok) <= 3
    BY <1>1, <1>2, <1>4, <1>12, <2>2
  <2>5. u = <<>> <=> d = 0
    <3>1. u \in Seq(Digit \cup Letter)
      BY <1>8, <1>9 DEF SpecChars
    <3> QED
      BY <2>2, <3>1
  <2>6. UserCode(tok) = UserOf(tok)
    <3>1. CASE d = 0
      BY <2>5, <3>1 DEF UserCode, UserOf, d, u
    <3>2. CASE d # 0
      <4>1. Digits(tok) \in 1 .. 2
        BY <1>1, <1>4, <3>2 DEF d
      <4>2. /\ Number(tok) \in 0 .. 99
            /\ Number(tok) = IF d = 1 THEN tok[1] - 48 ELSE 10 * (tok[1] - 48) + tok[2] - 48
        BY <4>1, NumberIs DEF d
      <4>3. 1 \in 1 .. d /\ (d # 1 => 2 \in 1 .. d)
        BY <1>1, <3>2
      <4>4. Value(u) = Number(tok)
        BY <2>2, <4>2, <4>3 DEF Value
      <4>5. UserCode(tok) = BYTE(Number(tok) + 1)
        BY <3>2 DEF UserCode, d
      <4>6. BYTE(Number(tok) + 1) = Number(tok) + 1
        <5>1. \A x \in 0 .. 99 : x + 1 \in 0 .. 100
          OBVIOUS
        <5>2. Number(tok) + 1 \in 0 .. 100
          BY <4>2, <5>1
        <5> QED
          BY <5>2, SmallByte
      <4>7. UserOf(tok) = 1 + Value(u)
        BY <2>5, <3>2 DEF UserOf, u
      <4> QED
        <5>1. \A x \in 0 .. 99 : x + 1 = 1 + x
          OBVIOUS
        <5> QED
          BY ONLY <4>2, <4>4, <4>5, <4>6, <4>7, <5>1
    <3> QED
      BY <3>1, <3>2
  <2>7. DriveCode(tok) = DriveOf(tok)
    <3>1. CASE Len(tok) = d
      <4>1. ~HasLetter(tok)
        BY <1>1, <2>1, <3>1
      <4> QED
        BY <3>1, <4>1 DEF DriveCode, DriveOf, d
    <3>2. CASE Len(tok) = d + 1
      <4>1. HasLetter(tok) /\ d < Len(tok) /\ d # Len(tok)
        BY <1>1, <2>1, <3>2
      <4>2. tok[d + 1] \in Letter
        BY <1>1, <4>1
      <4>3. DriveCode(tok) = BYTE(Upper(tok[d + 1]) - 64)
        BY <4>1 DEF DriveCode, d
      <4>4. DriveOf(tok) = 1 + ((tok[d + 1] - 65) % 32)
        BY <3>2, <4>1 DEF DriveOf
      <4> QED
        BY <4>2, <4>3, <4>4, DriveIs
    <3> QED
      BY ONLY <1>12, <1>13, <3>1, <3>2
  <2> QED
    BY <1>6, <1>10, <1>12, <2>3, <2>4, <2>6, <2>7
<1> QED
  BY <1>1, <1>2, <1>11, <1>12

-----------------------------------------------------------------------------
(* A name is read as the code reads it. *)

(* The code's places: behind the colon, the name, the type, everything. *)
HasColon(s)   == At(s, TokEnd(s, 1)) = Colon
SpecRead(s)   == IF HasColon(s) THEN StuffDrive(SubSeq(s, 1, TokEnd(s, 1) - 1)) ELSE NoDrive
AfterColon(s) == IF HasColon(s) THEN TokEnd(s, 1) + 1 ELSE 1
NameRead(s)   == Part(s, AfterColon(s), NameLen)
HasDot(s)     == At(s, NameRead(s).next) = Dot
TypeRead(s)   == IF HasDot(s) THEN Part(s, NameRead(s).next + 1, TypeLen)
                 ELSE [field |-> Field(<<>>, Space, TypeLen), next |-> NameRead(s).next]
HasPass(s)    == At(s, TypeRead(s).next) = Semicolon
AfterAll(s)   == IF HasPass(s) THEN TokEnd(s, TypeRead(s).next + 1) ELSE TypeRead(s).next
PassRead(s)   == IF HasPass(s) THEN SubSeq(s, TypeRead(s).next + 1, AfterAll(s) - 1) ELSE <<>>

LEMMA ParseFnIs ==
  ASSUME NEW s
  PROVE  ParseFn(s) = [ok     |-> SpecRead(s).ok /\ At(s, AfterAll(s)) \in EndOfName,
                       fuser  |-> SpecRead(s).fuser,
                       drive  |-> SpecRead(s).drive,
                       name   |-> NameRead(s).field \o TypeRead(s).field,
                       passwd |-> Field(PassRead(s), 0, PassLen)]
BY DEF ParseFn, HasColon, SpecRead, AfterColon, NameRead, HasDot, TypeRead, HasPass, AfterAll, PassRead

LEMMA SignsDiffer ==
  /\ Colon \in Delim /\ Dot \in Delim /\ Star \in Delim /\ Semicolon \notin Delim \cup {0}
  /\ Colon # Dot /\ Colon # Semicolon /\ Colon # Star /\ Colon # 0 /\ Dot # Semicolon /\ Dot # Star
  /\ Dot # 0 /\ Semicolon # Star /\ Semicolon # 0 /\ Star # 0
BY DEF Colon, Dot, Star, Semicolon, Delim

(* What the grammar takes in front of a colon. *)
LEMMA SpecIsShort ==
  ASSUME NEW w \in FileChars, IsSpec(w)
  PROVE  Len(w) <= 3 /\ w \in SpecChars
<1>1. Len(w) \in Nat /\ DOMAIN w = 1 .. Len(w) /\ (w # <<>> <=> Len(w) # 0)
      /\ w = [i \in 1 .. Len(w) |-> w[i]]
  BY DEF FileChars
<1>2. Len(UserPart(w)) <= 2 /\ \A i \in DOMAIN UserPart(w) : UserPart(w)[i] \in Digit
  BY DEF IsSpec
<1>3. CASE HasLetter(w)
  <2>1. Len(w) # 0 /\ w[Len(w)] \in Letter /\ UserPart(w) = SubSeq(w, 1, Len(w) - 1)
    BY <1>1, <1>3 DEF HasLetter, UserPart
  <2>2. 1 \in 1 .. Len(w) + 1 /\ Len(w) - 1 \in 1 - 1 .. Len(w) /\ Len(w) - 1 - 1 + 1 = Len(w) - 1
    BY <1>1, <2>1
  <2>3. /\ UserPart(w) \in FileChars /\ Len(UserPart(w)) = Len(w) - 1
        /\ \A i \in 1 .. Len(w) - 1 : w[i] = UserPart(w)[i - 1 + 1]
    BY <2>1, <2>2, ExcerptIs
  <2>4. DOMAIN UserPart(w) = 1 .. Len(w) - 1
    BY <2>3 DEF FileChars
  <2>5. \A i \in 1 .. Len(w) - 1 : w[i] \in Digit
    <3> SUFFICES ASSUME NEW i \in 1 .. Len(w) - 1 PROVE w[i] \in Digit
      OBVIOUS
    <3>1. i - 1 + 1 = i
      BY <1>1
    <3> QED
      BY <1>2, <2>3, <2>4, <3>1
  <2>6. \A i \in 1 .. Len(w) : w[i] \in Digit \cup Letter
    <3> SUFFICES ASSUME NEW i \in 1 .. Len(w) PROVE w[i] \in Digit \cup Letter
      OBVIOUS
    <3>1. i = Len(w) \/ i \in 1 .. Len(w) - 1
      BY <1>1
    <3> QED
      BY <2>1, <2>5, <3>1
  <2>7. Len(w) <= 3
    BY <1>1, <1>2, <2>3
  <2> QED
    BY <1>1, <2>6, <2>7 DEF SpecChars
<1>4. CASE ~HasLetter(w)
  <2>1. UserPart(w) = w
    BY <1>4 DEF UserPart
  <2> QED
    BY <1>1, <1>2, <2>1 DEF SpecChars
<1> QED
  BY <1>3, <1>4

LEMMA NothingIs ==
  /\ Bare(<<>>) = <<>> /\ ~HasStar(<<>>) /\ UserOf(<<>>) = 0 /\ DriveOf(<<>>) = 0
  /\ \A n : Padded(<<>>, n) = Field(<<>>, Space, n)
<1>1. ~HasStar(<<>>) /\ ~HasLetter(<<>>)
  BY DEF HasStar, HasLetter
<1>2. Bare(<<>>) = <<>> /\ UserPart(<<>>) = <<>>
  BY <1>1 DEF Bare, UserPart
<1> QED
  BY <1>1, <1>2 DEF UserOf, DriveOf, Padded

LEMMA EndingNext ==
  ASSUME NEW s \in FileChars, NEW p \in 1 .. Len(s) + 1, NEW q \in p - 1 .. Len(s), Ending(s, p, q)
  PROVE  At(s, TokEnd(s, p)) \in {Star, At(s, q + 1)}
<1>1. Part(s, p, 1).next = q + 1
  BY PartIs
<1>2. Part(s, p, 1).next = IF At(s, TokEnd(s, p)) = Star THEN TokEnd(s, p) + 1 ELSE TokEnd(s, p)
  BY DEF Part
<1> QED
  BY <1>1, <1>2

(* A prefix that the grammar takes is what the code takes, and the other way round. *)
LEMMA PrefixTaken ==
  ASSUME NEW s \in FileChars, NEW c \in 1 .. Len(s), s[c] = Colon,
         IsSpec(SubSeq(s, 1, c - 1))
  PROVE  HasColon(s) /\ TokEnd(s, 1) = c /\ SpecRead(s).ok
         /\ SpecRead(s).fuser = UserOf(SubSeq(s, 1, c - 1))
         /\ SpecRead(s).drive = DriveOf(SubSeq(s, 1, c - 1))
<1> DEFINE w == SubSeq(s, 1, c - 1)
<1>1. Len(s) \in Nat
  BY CharIs
<1>2. 1 \in 1 .. Len(s) + 1 /\ c - 1 \in 1 - 1 .. Len(s) /\ (c - 1) + 1 = c /\ (c - 1) - 1 + 1 = c - 1
  BY <1>1
<1>3. w \in FileChars /\ Len(w) = c - 1 /\ \A i \in 1 .. c - 1 : w[i] = s[1 + i - 1]
  BY <1>2, ExcerptIs
<1> HIDE DEF w
<1>4. Len(w) <= 3 /\ w \in SpecChars
  BY <1>3, SpecIsShort DEF w
<1>5. \A i \in 1 .. c - 1 : w[i] = s[i]
  BY <1>1, <1>3
<1>6. \A i \in 1 .. c - 1 : s[i] \notin Delim
  <2>1. \A i \in 1 .. Len(w) : w[i] \in Digit \cup Letter
    BY <1>4 DEF SpecChars
  <2>2. (Digit \cup Letter) \cap Delim = {}
    BY DEF Digit, Letter, Delim, Dot, Colon, Star
  <2> QED
    BY <1>3, <1>5, <2>1, <2>2
<1>7. c - 1 <= TokLen
  BY <1>1, <1>3, <1>4, ParseFnAssumption
<1>8. Token(SubSeq(s, 1, c - 1))
  BY <1>2, <1>6, <1>7, TokenIs
<1>9. At(s, c) = Colon
  BY CharIs
<1>10. TokEnd(s, 1) = c
  BY <1>2, <1>8, <1>9, SignsDiffer, TokEndIff
<1>11. HasColon(s) /\ SpecRead(s) = StuffDrive(w)
  BY <1>9, <1>10 DEF HasColon, SpecRead, w
<1>12. IsSpec(w)
  BY DEF w
<1>13. Len(w) >= 3 => \E i \in 1 .. 3 : w[i] \notin Digit
  <2> SUFFICES ASSUME Len(w) >= 3 PROVE w[3] \notin Digit
    OBVIOUS
  <2>1. Len(w) = 3
    BY <1>1, <1>3, <1>4
  <2>2. Len(UserPart(w)) <= 2
    BY <1>12 DEF IsSpec
  <2>3. HasLetter(w)
    BY <2>1, <2>2 DEF UserPart
  <2>4. w[3] \in Letter
    BY <2>1, <2>3 DEF HasLetter
  <2>5. \A x \in Letter : x \notin Digit
    BY DEF Letter, Digit
  <2> QED
    BY <2>4, <2>5, Zenon
<1>14. StuffDrive(w).ok /\ StuffDrive(w).fuser = UserOf(w) /\ StuffDrive(w).drive = DriveOf(w)
  BY <1>4, <1>12, <1>13, SpecIs
<1> QED
  BY <1>10, <1>11, <1>14 DEF w

LEMMA PrefixRead ==
  ASSUME NEW s \in FileChars, Clear(s), HasColon(s), SpecRead(s).ok
  PROVE  /\ TokEnd(s, 1) \in 1 .. Len(s) /\ s[TokEnd(s, 1)] = Colon
         /\ IsSpec(SubSeq(s, 1, TokEnd(s, 1) - 1))
<1> DEFINE c == TokEnd(s, 1)
           w == SubSeq(s, 1, c - 1)
<1>1. Len(s) \in Nat
  BY CharIs
<1>2. c \in 1 .. Len(s) + 1
  BY <1>1, TokEndIs
<1>3. At(s, c) = Colon /\ SpecRead(s) = StuffDrive(w)
  BY DEF HasColon, SpecRead
<1> HIDE DEF c
<1>4. c \in 1 .. Len(s) /\ s[c] = Colon
  BY <1>1, <1>2, <1>3, CharIs, SignsDiffer
<1>5. 1 \in 1 .. Len(s) + 1 /\ c - 1 \in 1 - 1 .. Len(s) /\ (c - 1) + 1 = c /\ (c - 1) - 1 + 1 = c - 1
  BY <1>1, <1>4
<1>6. w \in FileChars /\ Len(w) = c - 1 /\ \A i \in 1 .. c - 1 : w[i] = s[1 + i - 1]
  BY <1>5, ExcerptIs
<1>7. Token(w)
  BY <1>5, TokEndIff DEF c
<1>8. \A i \in 1 .. c - 1 : s[i] \notin Delim
  BY <1>5, <1>7, TokenIs
<1>9. c \in DOMAIN s
  BY <1>4 DEF FileChars
<1>10. \A i \in 1 .. c - 1 : s[i] \in Digit \cup Letter
  BY <1>4, <1>8, <1>9 DEF Clear
<1> HIDE DEF w
<1>11. \A i \in 1 .. c - 1 : w[i] = s[i]
  BY <1>1, <1>4, <1>6
<1>12. w \in SpecChars
  <2>1. w = [i \in 1 .. Len(w) |-> w[i]] /\ Len(w) \in Nat
    BY <1>6 DEF FileChars
  <2>2. \A i \in 1 .. Len(w) : w[i] \in Digit \cup Letter
    BY <1>6, <1>10, <1>11
  <2> QED
    BY <2>1, <2>2 DEF SpecChars
<1>13. Len(w) >= 3 => \E i \in 1 .. 3 : w[i] \notin Digit
  <2> SUFFICES ASSUME Len(w) >= 3 PROVE \E i \in 1 .. 3 : w[i] \notin Digit
    OBVIOUS
  <2>1. c > 3 /\ \A i \in 1 .. 3 : i \in 1 .. c - 1
    BY <1>1, <1>4, <1>6
  <2>2. \E i \in 1 .. 3 : s[i] \notin Digit
    BY <1>4, <1>9, <2>1 DEF Clear
  <2> QED
    BY <1>11, <2>1, <2>2
<1>14. IsSpec(w)
  BY <1>3, <1>12, <1>13, SpecIs
<1> QED
  BY <1>4, <1>14 DEF c, w

(* A token of the grammar is one of the code. *)
LEMMA TokensTaken ==
  ASSUME NEW w
  PROVE  (IsToken(w) => Token(w)) /\ (IsPart(w) => TokenPart(w))
BY DEF IsToken, Token, IsPart, TokenPart

(* And a token of the code one of the grammar, if no semicolon is in it.   *)
LEMMA TokensRead ==
  ASSUME NEW s \in FileChars, Clear(s), NEW p \in 1 .. Len(s) + 1, NEW q \in p - 1 .. Len(s),
         p # 1 => s[p - 1] # Star
  PROVE  /\ Token(SubSeq(s, p, q)) => IsToken(SubSeq(s, p, q))
         /\ TokenPart(SubSeq(s, p, q)) => IsPart(SubSeq(s, p, q))
<1>1. Len(s) \in Nat
  BY CharIs
<1>2. ASSUME NEW e \in p - 1 .. Len(s), Token(SubSeq(s, p, e)) PROVE IsToken(SubSeq(s, p, e))
  <2> DEFINE w == SubSeq(s, p, e)
  <2>1. /\ w \in FileChars /\ Len(w) = e - p + 1
        /\ \A i \in 1 .. e - p + 1 : w[i] = s[p + i - 1]
    BY ExcerptIs
  <2>2. \A i \in p .. e : s[i] \notin Delim
    BY <1>2, TokenIs
  <2> HIDE DEF w
  <2>3. DOMAIN w = 1 .. e - p + 1
    BY <2>1 DEF FileChars
  <2>4. ASSUME NEW i \in 1 .. e - p + 1 PROVE w[i] # Semicolon
    <3>1. PICK k \in Nat : k = p + i - 1
      BY <1>1
    <3>2. k \in p .. e /\ k \in 1 .. Len(s)
      BY <1>1, <3>1
    <3>3. k # 1 => s[k - 1] # Star
      <4>1. CASE k = p
        BY <4>1
      <4>2. CASE k # p
        <5>1. k - 1 \in p .. e
          BY <1>1, <3>2, <4>2
        <5> QED
          BY <2>2, <5>1, SignsDiffer
      <4> QED
        BY <4>1, <4>2
    <3>4. k \in DOMAIN s
      BY <3>2 DEF FileChars
    <3>5. s[k] = Semicolon => k > 1 /\ s[k - 1] = Star
      BY <3>4, Zenon DEF Clear
    <3>6. k > 1 => k # 1
      BY <3>1
    <3>7. s[k] # Semicolon
      BY <3>3, <3>5, <3>6, Zenon
    <3> QED
      BY <2>1, <3>1, <3>7
  <2>5. Token(w)
    BY <1>2 DEF w
  <2>6. IsToken(w)
    BY <2>3, <2>4, <2>5 DEF Token, IsToken
  <2> QED
    BY <2>6 DEF w
<1>3. ASSUME TokenPart(SubSeq(s, p, q)) PROVE IsPart(SubSeq(s, p, q))
  <2>1. CASE HasStar(SubSeq(s, p, q))
    <3>1. p <= q /\ Bare(SubSeq(s, p, q)) = SubSeq(s, p, q - 1)
      BY <2>1, StarIs
    <3>2. q - 1 \in p - 1 .. Len(s)
      BY <1>1, <3>1
    <3> QED
      BY <1>2, <1>3, <3>1, <3>2 DEF TokenPart, IsPart
  <2>2. CASE ~HasStar(SubSeq(s, p, q))
    BY <1>2, <1>3, <2>2 DEF TokenPart, IsPart, Bare
  <2> QED
    BY <2>1, <2>2
<1> QED
  BY <1>2, <1>3

(* Every reading of a name whose password is seen gives what the code gives. *)
LEMMA ReadingTaken ==
  ASSUME NEW s \in FileChars, NEW r \in Readings(s), Seen(s, r)
  PROVE  ParseFn(s).ok /\ Fields(s, r) = ParseFn(s)
<1>1. Len(s) \in Nat
  BY CharIs
<1>2. /\ r \in [colon : 0 .. Len(s), dot : 0 .. Len(s), semi : 0 .. Len(s)]
      /\ Reads(s, r)
  BY DEF Readings
<1>3. /\ r.colon \in 0 .. Len(s) /\ r.dot \in 0 .. Len(s) /\ r.semi \in 0 .. Len(s)
      /\ r.colon # 0 => s[r.colon] = Colon /\ IsSpec(Prefix(s, r))
      /\ r.dot # 0   => s[r.dot] = Dot /\ r.dot > r.colon
      /\ r.semi # 0  => /\ s[r.semi] = Semicolon
                        /\ r.semi > r.colon /\ r.semi > r.dot
                        /\ HasStar(Last(s, r)) \/ Len(Last(s, r)) = TokLen
                        /\ Token(Pass(s, r))
      /\ TokenPart(Name(s, r)) /\ TokenPart(Type(s, r))
  BY <1>2, TokensTaken DEF Reads, Seen
<1> DEFINE b == BodyEnd(s, r)
           p == r.colon + 1
           q == IF r.dot = 0 THEN b ELSE r.dot - 1
<1>4. /\ b \in Nat /\ b <= Len(s) /\ r.dot <= b /\ r.colon <= b
      /\ r.semi # 0 => b + 1 = r.semi
      /\ r.semi = 0 => b = Len(s)
  BY <1>1, <1>3 DEF BodyEnd
<1> HIDE DEF b
<1>5. p \in 1 .. Len(s) + 1 /\ q \in p - 1 .. Len(s)
  BY <1>1, <1>3, <1>4
<1>6. At(s, b + 1) = IF r.semi = 0 THEN 0 ELSE Semicolon
  BY <1>1, <1>3, <1>4, CharIs
<1>7. At(s, q + 1) = IF r.dot = 0 THEN At(s, b + 1) ELSE Dot
  BY <1>1, <1>3, CharIs
<1>8. Name(s, r) = SubSeq(s, p, q)
  BY DEF Name, b
<1>9. Ending(s, p, q)
  <2>1. TokenPart(SubSeq(s, p, q)) /\ Len(SubSeq(s, p, q)) = q - p + 1
    BY <1>3, <1>5, <1>8, ExcerptIs
  <2>2. CASE r.dot # 0 \/ r.semi = 0
    BY <1>6, <1>7, <2>1, <2>2, SignsDiffer DEF Ending
  <2>3. CASE r.dot = 0 /\ r.semi # 0
    <3>1. Last(s, r) = SubSeq(s, p, q)
      BY <1>8, <2>3 DEF Last
    <3> QED
      BY <1>3, <1>6, <1>7, <2>1, <2>3, <3>1, SignsDiffer DEF Ending
  <2> QED
    BY <2>2, <2>3
<1> HIDE DEF q
<1>10. /\ HasColon(s) <=> r.colon # 0
       /\ AfterColon(s) = p
       /\ SpecRead(s).ok /\ SpecRead(s).fuser = UserOf(Prefix(s, r))
       /\ SpecRead(s).drive = DriveOf(Prefix(s, r))
  <2>1. CASE r.colon # 0
    <3>1. r.colon \in 1 .. Len(s) /\ Prefix(s, r) = SubSeq(s, 1, r.colon - 1)
      BY <1>1, <1>3, <2>1 DEF Prefix
    <3>2. /\ HasColon(s) /\ TokEnd(s, 1) = r.colon /\ SpecRead(s).ok
          /\ SpecRead(s).fuser = UserOf(SubSeq(s, 1, r.colon - 1))
          /\ SpecRead(s).drive = DriveOf(SubSeq(s, 1, r.colon - 1))
      BY <1>3, <2>1, <3>1, PrefixTaken
    <3> QED
      BY <2>1, <3>1, <3>2 DEF AfterColon
  <2>2. CASE r.colon = 0
    <3>1. p = 1
      BY <2>2
    <3>2. At(s, TokEnd(s, 1)) \in {Star, At(s, q + 1)}
      BY <1>5, <1>9, <3>1, EndingNext
    <3>3. ~HasColon(s)
      BY <1>6, <1>7, <3>2, SignsDiffer DEF HasColon
    <3>4. Prefix(s, r) = <<>>
      BY <2>2, SubSeqEmpty DEF Prefix
    <3> QED
      BY <2>2, <3>1, <3>3, <3>4, NothingIs DEF AfterColon, SpecRead, NoDrive
  <2> QED
    BY <2>1, <2>2
<1>11. NameRead(s).next = q + 1 /\ NameRead(s).field = Padded(Name(s, r), NameLen)
  BY <1>5, <1>8, <1>9, <1>10, PartIs DEF NameRead
<1>12. HasDot(s) <=> r.dot # 0
  BY <1>6, <1>7, <1>11, SignsDiffer DEF HasDot
<1>13. TypeRead(s).next = b + 1 /\ TypeRead(s).field = Padded(Type(s, r), TypeLen)
  <2>1. CASE r.dot # 0
    <3>1. q + 1 = r.dot
      BY <1>3, <2>1 DEF q
    <3>2. TypeRead(s) = Part(s, r.dot + 1, TypeLen)
      BY <1>11, <1>12, <2>1, <3>1 DEF TypeRead
    <3>3. r.dot + 1 \in 1 .. Len(s) + 1 /\ b \in (r.dot + 1) - 1 .. Len(s)
      BY <1>1, <1>3, <1>4, <2>1
    <3>4. Type(s, r) = SubSeq(s, r.dot + 1, b)
      BY <2>1 DEF Type, b
    <3>5. Len(SubSeq(s, r.dot + 1, b)) = b - (r.dot + 1) + 1
      BY <3>3, ExcerptIs
    <3>6. Ending(s, r.dot + 1, b)
      <4>1. Last(s, r) = SubSeq(s, r.dot + 1, b)
        BY <2>1, <3>4 DEF Last
      <4>2. r.semi # 0 => HasStar(SubSeq(s, r.dot + 1, b)) \/ b - (r.dot + 1) + 1 = TokLen
        BY <1>3, <3>5, <4>1
      <4>3. At(s, b + 1) # Star /\ (r.semi = 0 => At(s, b + 1) \in Delim \cup {0})
        BY <1>6, SignsDiffer
      <4> QED
        BY <1>3, <3>4, <4>2, <4>3 DEF Ending
    <3> QED
      BY <3>2, <3>3, <3>4, <3>6, PartIs
  <2>2. CASE r.dot = 0
    <3>1. q = b /\ Type(s, r) = <<>>
      BY <2>2 DEF q, Type
    <3> QED
      BY <1>11, <1>12, <2>2, <3>1, NothingIs DEF TypeRead
  <2> QED
    BY <2>1, <2>2
<1>14. HasPass(s) <=> r.semi # 0
  BY <1>6, <1>13, SignsDiffer DEF HasPass
<1>15. AfterAll(s) = Len(s) + 1 /\ PassRead(s) = Pass(s, r)
  <2>1. CASE r.semi # 0
    <3>1. TypeRead(s).next = r.semi
      BY <1>4, <1>13, <2>1
    <3>2. r.semi + 1 \in 1 .. Len(s) + 1 /\ Len(s) \in (r.semi + 1) - 1 .. Len(s)
      BY <1>1, <1>3
    <3>3. Pass(s, r) = SubSeq(s, r.semi + 1, Len(s)) /\ Token(Pass(s, r))
      BY <1>3, <2>1 DEF Pass
    <3>4. At(s, Len(s) + 1) = 0
      BY <1>1, CharIs
    <3>5. TokEnd(s, r.semi + 1) = Len(s) + 1
      BY <3>2, <3>3, <3>4, TokEndIff
    <3>6. AfterAll(s) = Len(s) + 1
      BY <1>14, <2>1, <3>1, <3>5 DEF AfterAll
    <3>7. (Len(s) + 1) - 1 = Len(s)
      BY <1>1
    <3> QED
      BY <1>14, <2>1, <3>1, <3>3, <3>6, <3>7 DEF PassRead
  <2>2. CASE r.semi = 0
    BY <1>4, <1>13, <1>14, <2>2 DEF AfterAll, PassRead, Pass
  <2> QED
    BY <2>1, <2>2
<1>16. At(s, AfterAll(s)) \in EndOfName
  BY <1>1, <1>15, CharIs DEF EndOfName
<1>17. SpecRead(s).ok /\ At(s, AfterAll(s)) \in EndOfName
  BY <1>10, <1>16
<1>18. (SpecRead(s).ok /\ At(s, AfterAll(s)) \in EndOfName) \in BOOLEAN
  OBVIOUS
<1>19. ParseFn(s) = [ok     |-> TRUE,
                     fuser  |-> UserOf(Prefix(s, r)),
                     drive  |-> DriveOf(Prefix(s, r)),
                     name   |-> Padded(Name(s, r), NameLen) \o Padded(Type(s, r), TypeLen),
                     passwd |-> Field(Pass(s, r), 0, PassLen)]
  <2> DEFINE o == SpecRead(s).ok /\ At(s, AfterAll(s)) \in EndOfName
  <2>1. o = TRUE
    BY <1>17
  <2>2. ParseFn(s) = [ok     |-> o,
                      fuser  |-> SpecRead(s).fuser,
                      drive  |-> SpecRead(s).drive,
                      name   |-> NameRead(s).field \o TypeRead(s).field,
                      passwd |-> Field(PassRead(s), 0, PassLen)]
    BY ParseFnIs
  <2> HIDE DEF o
  <2> QED
    BY <1>10, <1>11, <1>13, <1>15, <2>1, <2>2
<1> QED
  BY <1>19 DEF Fields

(* What the code takes has a reading. *)
LEMMA TakenRead ==
  ASSUME NEW s \in FileChars, Clear(s), ParseFn(s).ok
  PROVE  \E r \in Readings(s) : TRUE
<1>1. Len(s) \in Nat
  BY CharIs
<1>2. SpecRead(s).ok /\ At(s, AfterAll(s)) \in EndOfName
  <2> DEFINE o == SpecRead(s).ok /\ At(s, AfterAll(s)) \in EndOfName
  <2>1. ParseFn(s).ok = o
    <3>1. ParseFn(s) = [ok     |-> o,
                        fuser  |-> SpecRead(s).fuser,
                        drive  |-> SpecRead(s).drive,
                        name   |-> NameRead(s).field \o TypeRead(s).field,
                        passwd |-> Field(PassRead(s), 0, PassLen)]
      BY ParseFnIs
    <3> HIDE DEF o
    <3> QED
      BY <3>1
  <2> QED
    BY <2>1
<1> DEFINE c == IF HasColon(s) THEN TokEnd(s, 1) ELSE 0
           p == c + 1
           m == NameRead(s).next
           t == TypeRead(s).next
           dot == IF HasDot(s) THEN m ELSE 0
           semi == IF HasPass(s) THEN t ELSE 0
           r == [colon |-> c, dot |-> dot, semi |-> semi]
<1>3. c \in 0 .. Len(s) /\ (c # 0 => s[c] = Colon /\ IsSpec(SubSeq(s, 1, c - 1)))
  BY <1>1, <1>2, PrefixRead
<1>4. AfterColon(s) = p
  BY DEF AfterColon
<1> HIDE DEF c
<1>5. p \in 1 .. Len(s) + 1
  BY <1>1, <1>3
<1>6. m \in p .. Len(s) + 1
  BY <1>4, <1>5, PartNext DEF NameRead
<1>7. m - 1 \in p - 1 .. Len(s) /\ (m - 1) + 1 = m
  BY <1>1, <1>3, <1>6
<1>8. Ending(s, p, m - 1)
  BY <1>4, <1>5, <1>7, PartIs DEF NameRead
<1>9. dot # 0 => dot = m /\ m \in 1 .. Len(s) /\ s[m] = Dot /\ HasDot(s)
  <2> SUFFICES ASSUME dot # 0 PROVE dot = m /\ m \in 1 .. Len(s) /\ s[m] = Dot /\ HasDot(s)
    OBVIOUS
  <2>1. dot = m /\ At(s, m) = Dot /\ HasDot(s)
    BY DEF HasDot
  <2>2. m \in Nat /\ m >= 1 /\ m <= Len(s) + 1
    BY <1>1, <1>3, <1>6
  <2> QED
    BY <1>1, <2>1, <2>2, CharIs, SignsDiffer
<1>10. dot = 0 => ~HasDot(s)
  BY <1>1, <1>3, <1>6
<1>11. t \in m .. Len(s) + 1 /\ (dot # 0 => t > m /\ Ending(s, m + 1, t - 1)) /\ (dot = 0 => t = m)
  <2>1. CASE dot = 0
    BY <1>1, <1>3, <1>6, <1>10, <2>1 DEF TypeRead
  <2>2. CASE dot # 0
    <3>1. TypeRead(s) = Part(s, m + 1, TypeLen) /\ m + 1 \in 1 .. Len(s) + 1
      BY <1>1, <1>9, <2>2 DEF TypeRead
    <3>2. t \in m + 1 .. Len(s) + 1
      BY <3>1, PartNext
    <3>3. t - 1 \in (m + 1) - 1 .. Len(s) /\ (t - 1) + 1 = t
      BY <1>1, <1>9, <2>2, <3>2
    <3>4. Ending(s, m + 1, t - 1)
      BY <3>1, <3>3, PartIs
    <3> QED
      BY <1>1, <1>9, <2>2, <3>2, <3>4
  <2> QED
    BY <2>1, <2>2
<1> HIDE DEF m
<1>12. semi # 0 => semi = t /\ t \in 1 .. Len(s) /\ s[t] = Semicolon /\ At(s, t) = Semicolon /\ HasPass(s)
  <2> SUFFICES ASSUME semi # 0
               PROVE  semi = t /\ t \in 1 .. Len(s) /\ s[t] = Semicolon /\ At(s, t) = Semicolon /\ HasPass(s)
    OBVIOUS
  <2>1. semi = t /\ At(s, t) = Semicolon /\ HasPass(s)
    BY DEF HasPass
  <2>2. t \in Nat /\ t >= 1 /\ t <= Len(s) + 1
    BY <1>1, <1>3, <1>6, <1>11
  <2> QED
    BY <1>1, <2>1, <2>2, CharIs, SignsDiffer
<1>13. semi = 0 => ~HasPass(s)
  BY <1>1, <1>3, <1>6, <1>11
<1> HIDE DEF t, dot, semi
<1>14. AfterAll(s) = IF semi # 0 THEN TokEnd(s, t + 1) ELSE t
  BY <1>12, <1>13 DEF AfterAll, t
<1>15. AfterAll(s) \in 1 .. Len(s) + 1
  <2>1. CASE semi # 0
    <3>1. t + 1 \in 1 .. Len(s) + 1
      BY <1>1, <1>12, <2>1
    <3>2. TokEnd(s, t + 1) \in t + 1 .. Len(s) + 1
      BY <3>1, TokEndIs
    <3> QED
      BY <1>1, <1>12, <1>14, <2>1, <3>2
  <2>2. CASE semi = 0
    BY <1>1, <1>3, <1>6, <1>11, <1>14, <2>2
  <2> QED
    BY <2>1, <2>2
<1>16. AfterAll(s) = Len(s) + 1
  BY <1>1, <1>2, <1>15, CharIs DEF EndOfName
<1>17. r \in [colon : 0 .. Len(s), dot : 0 .. Len(s), semi : 0 .. Len(s)]
  <2>1. dot \in 0 .. Len(s) /\ semi \in 0 .. Len(s)
    BY <1>1, <1>9, <1>12
  <2> QED
    BY <1>3, <2>1
<1>18. r.colon = c /\ r.dot = dot /\ r.semi = semi
  OBVIOUS
<1> HIDE DEF r
<1>19. BodyEnd(s, r) = t - 1
  <2>1. semi = 0 => t = Len(s) + 1
    BY <1>14, <1>16
  <2>2. semi # 0 => semi = t
    BY <1>12
  <2> QED
    BY <1>1, <1>18, <2>1, <2>2 DEF BodyEnd
<1>20. Name(s, r) = SubSeq(s, p, m - 1)
  BY <1>9, <1>11, <1>18, <1>19 DEF Name
<1>21. Type(s, r) = IF dot = 0 THEN <<>> ELSE SubSeq(s, m + 1, t - 1)
  BY <1>9, <1>18, <1>19 DEF Type
<1>22. IsPart(Name(s, r)) /\ IsPart(Type(s, r))
  <2>1. IsPart(SubSeq(s, p, m - 1))
    <3>1. p # 1 => s[p - 1] # Star
      BY <1>3, SignsDiffer
    <3>2. TokenPart(SubSeq(s, p, m - 1))
      BY <1>8 DEF Ending
    <3> QED
      BY <1>5, <1>7, <3>1, <3>2, TokensRead
  <2>2. dot # 0 => IsPart(SubSeq(s, m + 1, t - 1))
    <3> SUFFICES ASSUME dot # 0 PROVE IsPart(SubSeq(s, m + 1, t - 1))
      OBVIOUS
    <3>1. m + 1 \in 1 .. Len(s) + 1 /\ t - 1 \in (m + 1) - 1 .. Len(s) /\ (m + 1) - 1 = m
      BY <1>1, <1>9, <1>11
    <3>2. s[(m + 1) - 1] # Star
      BY <1>9, <3>1, SignsDiffer
    <3>3. TokenPart(SubSeq(s, m + 1, t - 1))
      BY <1>11 DEF Ending
    <3> QED
      BY <3>1, <3>2, <3>3, TokensRead
  <2>3. IsPart(<<>>)
    BY NothingIs, ParseFnAssumption DEF IsPart, IsToken
  <2> QED
    BY <1>20, <1>21, <2>1, <2>2, <2>3
<1>23. c # 0 => IsSpec(Prefix(s, r))
  BY <1>3, <1>18 DEF Prefix
<1>24. dot # 0 => s[dot] = Dot /\ dot > c
  BY <1>1, <1>3, <1>6, <1>9
<1>25. ASSUME semi # 0
       PROVE  /\ s[semi] = Semicolon /\ semi > c /\ semi > dot
              /\ IsToken(Pass(s, r))
  <2>1. semi = t /\ s[semi] = Semicolon /\ s[t] = Semicolon
    BY <1>12, <1>25
  <2>2. semi > c /\ semi > dot
    BY <1>1, <1>3, <1>6, <1>9, <1>11, <2>1
  <2>3. IsToken(Pass(s, r))
    <3>1. Pass(s, r) = SubSeq(s, t + 1, Len(s))
      BY <1>18, <1>25, <2>1 DEF Pass
    <3>2. TokEnd(s, t + 1) = Len(s) + 1
      BY <1>14, <1>16, <1>25
    <3>3. t + 1 \in 1 .. Len(s) + 1 /\ Len(s) \in (t + 1) - 1 .. Len(s) /\ (t + 1) - 1 = t
      BY <1>1, <1>12, <1>25
    <3>4. Token(SubSeq(s, t + 1, Len(s)))
      BY <3>2, <3>3, TokEndIff
    <3>5. s[(t + 1) - 1] # Star
      BY <2>1, <3>3, SignsDiffer
    <3> QED
      BY <3>1, <3>3, <3>4, <3>5, TokensRead
  <2> QED
    BY <2>1, <2>2, <2>3
<1>26. Reads(s, r)
  BY <1>3, <1>18, <1>22, <1>23, <1>24, <1>25 DEF Reads
<1>27. r \in Readings(s)
  BY <1>17, <1>26 DEF Readings
<1> QED
  BY <1>27

-----------------------------------------------------------------------------
(* The heap. *)

(* Until the top address was asked for, all that is held is below the      *)
(* break; until a break below _end was too, both lie behind the program.   *)
HeapInv == /\ HeapTypeOK
           /\ "top" \notin astray => \A a \in held : a < brk
           /\ astray = {} => brk >= End

LEMMA HeapNumbers ==
  /\ End \in Nat /\ End < Half /\ Gap \in Nat /\ Half \in Nat /\ AddrSize = 2 * Half
  /\ AddrSize \in Nat /\ Half > 0
  /\ \A sp \in Stacks : sp \in Nat /\ sp < Half
  /\ \A incr \in Incrs : incr \in Int /\ -Half <= incr /\ incr < Half
  /\ \A to \in Breaks : to \in Nat /\ to < AddrSize
BY HeapAssumption DEF AddrSize

LEMMA HeapTyped ==
  ASSUME HeapInv
  PROVE  /\ brk \in Nat /\ brk < Half
         /\ \A a \in held : a \in Nat /\ a < AddrSize
BY HeapNumbers DEF HeapInv, HeapTypeOK

(* Every position but the top one is rounded up, or wraps from below 0.    *)
LEMMA RoundedUp ==
  ASSUME NEW a \in Int, -Half <= a, a < AddrSize, a # AddrSize - 1
  PROVE  Rounded(Addr(a)) \in Nat /\ a <= Rounded(Addr(a))
<1>1. AddrSize \in Nat /\ AddrSize > 0 /\ AddrSize % 2 = 0 /\ Half < AddrSize
  BY HeapAssumption DEF AddrSize
<1>2. PICK b \in Int : b = Addr(a)
  BY <1>1 DEF Addr
<1>3. b >= 0 /\ b < AddrSize
  BY <1>1, <1>2 DEF Addr
<1>4. PICK r \in Int : r = Rounded(b) /\ r >= 0
  <2>1. Rounded(b) = (b + (b % 2)) % AddrSize
    BY DEF Rounded, Addr
  <2>2. b % 2 \in Int
    OBVIOUS
  <2> QED
    BY <1>1, <2>1, <2>2
<1>5. CASE a < 0
  BY <1>2, <1>4, <1>5
<1>6. CASE a >= 0
  <2>1. b = a
    BY <1>1, <1>2, <1>6 DEF Addr
  <2>2. PICK d \in {0, 1} : d = a % 2
    OBVIOUS
  <2>3. a + d < AddrSize
    BY <1>1, <2>2
  <2>4. Rounded(b) = (a + d) % AddrSize
    BY <2>1, <2>2 DEF Rounded, Addr
  <2>5. (a + d) % AddrSize = a + d
    BY <1>1, <1>6, <2>2, <2>3
  <2> QED
    BY <1>2, <1>4, <2>2, <2>4, <2>5
<1> QED
  BY <1>5, <1>6

(* What both calls do once the new break is accepted.                      *)
Accepted(new, to, sp) ==
  /\ ~TooHigh(new, sp)
  /\ brk' = new
  /\ held' \subseteq held \cup (brk .. to - 1)
  /\ "top" \notin astray' => \A a \in held' : a < to
  /\ last'.got = brk .. to - 1 /\ last'.sp = sp
  /\ astray' = Strayed(to)

StepOK == /\ HeapInv'
          /\ "top" \notin astray' =>
               /\ last'.got \cap held = {}
               /\ \A a \in last'.got : a + Gap < last'.sp
          /\ astray' = {} => \A a \in last'.got : a >= End

LEMMA RefuseStep ==
  ASSUME HeapInv, NEW sp \in Stacks, Refuse(sp)
  PROVE  StepOK
BY DEF StepOK, HeapInv, HeapTypeOK, Refuse

LEMMA StrayedIs ==
  ASSUME NEW to \in Int, HeapInv, astray' = Strayed(to)
  PROVE  /\ astray' \subseteq {"below", "top"} /\ astray \subseteq astray'
         /\ "top" \notin astray' => to # AddrSize - 1
         /\ astray' = {} => to >= End
<1>1. /\ astray' = astray \cup (IF to < End THEN {"below"} ELSE {})
                          \cup (IF to = AddrSize - 1 THEN {"top"} ELSE {})
      /\ astray \subseteq {"below", "top"}
  BY DEF Strayed, HeapInv, HeapTypeOK
<1>2. to < End => "below" \in astray'
  BY <1>1
<1>3. to = AddrSize - 1 => "top" \in astray'
  BY <1>1
<1>4. to < End \/ to >= End
  BY HeapNumbers
<1> QED
  BY <1>1, <1>2, <1>3, <1>4

LEMMA AcceptedStep ==
  ASSUME HeapInv, NEW sp \in Stacks, NEW to \in Int, to < AddrSize, NEW new \in Nat,
         to # AddrSize - 1 => to <= new,
         Accepted(new, to, sp)
  PROVE  StepOK
<1>1. End \in Nat /\ Gap \in Nat /\ Half \in Nat /\ sp \in Nat /\ sp < Half /\ AddrSize \in Nat
  BY HeapNumbers
<1>2. brk \in Nat /\ brk < Half /\ \A a \in held : a \in Nat /\ a < AddrSize
  BY HeapTyped
<1>3. new <= sp /\ sp - new >= Gap /\ brk' = new
  BY <1>1 DEF Accepted, TooHigh
<1>4. last'.got = brk .. to - 1 /\ last'.sp = sp
  BY DEF Accepted
<1>5. /\ astray' \subseteq {"below", "top"} /\ astray \subseteq astray'
      /\ "top" \notin astray' => to # AddrSize - 1
      /\ astray' = {} => to >= End
  BY StrayedIs DEF Accepted
<1>6. \A a \in brk .. to - 1 : a \in Nat /\ a >= brk /\ a < to
  BY <1>2
<1>7. ASSUME "top" \notin astray'
      PROVE  /\ last'.got \cap held = {}
             /\ \A a \in last'.got : a + Gap < last'.sp
             /\ \A a \in held' : a < brk'
  <2>1. to <= new
    BY <1>5, <1>7
  <2>2. \A a \in held : a < brk
    BY <1>5, <1>7 DEF HeapInv
  <2>3. (brk .. to - 1) \cap held = {}
    BY <1>2, <1>6, <2>2
  <2>4. \A a \in brk .. to - 1 : a + Gap < sp
    BY <1>1, <1>3, <1>6, <2>1
  <2>5. \A a \in held' : a \in Int /\ a < to
    BY <1>2, <1>6, <1>7 DEF Accepted
  <2>6. \A a \in held' : a < new
    BY <2>1, <2>5
  <2> QED
    BY <1>3, <1>4, <2>3, <2>4, <2>6
<1>8. ASSUME astray' = {}
      PROVE  brk' >= End /\ \A a \in last'.got : a >= End
  <2>1. to <= new /\ to >= End /\ astray = {}
    BY <1>5, <1>8
  <2>2. brk >= End
    BY <2>1 DEF HeapInv
  <2>3. \A a \in brk .. to - 1 : a >= End
    BY <1>1, <1>2, <1>6, <2>2
  <2> QED
    BY <1>1, <1>3, <1>4, <2>1, <2>3
<1>9. HeapTypeOK'
  <2>1. brk' \in 0 .. Half - 1
    BY <1>1, <1>3
  <2>2. \A a \in held' : a \in Nat /\ a < AddrSize
    BY <1>1, <1>2, <1>6 DEF Accepted
  <2>3. held' \subseteq 0 .. AddrSize - 1
    BY <1>1, <2>2
  <2> QED
    BY <1>5, <2>1, <2>3 DEF HeapTypeOK
<1>10. HeapInv'
  BY <1>7, <1>8, <1>9 DEF HeapInv
<1> QED
  BY <1>7, <1>8, <1>10 DEF StepOK

LEMMA SbrkStep ==
  ASSUME HeapInv, NEW incr \in Incrs, NEW sp \in Stacks, Sbrk(incr, sp)
  PROVE  StepOK
<1>1. brk \in Nat /\ brk < Half /\ \A a \in held : a \in Nat /\ a < AddrSize
  BY HeapTyped
<1>2. incr \in Int /\ -Half <= incr /\ incr < Half /\ Half \in Nat /\ AddrSize = 2 * Half
  BY HeapNumbers
<1>3. PICK to \in Int : to = brk + incr
  BY <1>1, <1>2
<1>4. -Half <= to /\ to < AddrSize /\ to # AddrSize - 1
  BY <1>1, <1>2, <1>3
<1>5. PICK new \in Nat : new = Rounded(Addr(to)) /\ to <= new
  BY <1>4, RoundedUp
<1>6. CASE Refuse(sp)
  BY <1>6, RefuseStep
<1>7. CASE ~Refuse(sp)
  <2>1. new = Rounded(Addr(brk + incr)) /\ brk .. brk + incr - 1 = brk .. to - 1
    BY <1>1, <1>2, <1>3, <1>5
  <2>2. /\ ~TooHigh(Rounded(Addr(brk + incr)), sp)
        /\ brk' = Rounded(Addr(brk + incr))
        /\ held' = {a \in held : incr < 0 => a < brk + incr} \cup (brk .. brk + incr - 1)
        /\ last' = [sp |-> sp, ret |-> brk, got |-> brk .. brk + incr - 1]
        /\ astray' = Strayed(brk + incr)
    BY <1>7 DEF Sbrk, Answer
  <2>3. ~TooHigh(new, sp) /\ brk' = new /\ astray' = Strayed(to)
    BY <1>3, <2>1, <2>2
  <2>4. last'.got = brk .. to - 1 /\ last'.sp = sp
    BY <2>1, <2>2
  <2>5. held' \subseteq held \cup (brk .. to - 1)
    BY <2>1, <2>2
  <2>6. \A a \in held' : "top" \notin astray => a < to
    <3>1. "top" \notin astray => \A a \in held : a < brk
      BY DEF HeapInv
    <3>2. \A a \in brk .. to - 1 : a < to
      BY <1>1
    <3>3. \A a \in held' : a \in brk .. to - 1 \/ (a \in held /\ (incr < 0 => a < to))
      BY <1>3, <2>1, <2>2
    <3> QED
      BY <1>1, <1>2, <1>3, <3>1, <3>2, <3>3
  <2>7. "top" \notin astray' => "top" \notin astray
    BY <2>3 DEF Strayed
  <2>8. Accepted(new, to, sp)
    BY <2>3, <2>4, <2>5, <2>6, <2>7 DEF Accepted
  <2> QED
    BY <1>4, <1>5, <2>8, AcceptedStep
<1> QED
  BY <1>6, <1>7

LEMMA BrkStep ==
  ASSUME HeapInv, NEW to \in Breaks, NEW sp \in Stacks, Brk(to, sp)
  PROVE  StepOK
<1>1. brk \in Nat /\ brk < Half /\ \A a \in held : a \in Nat /\ a < AddrSize
  BY HeapTyped
<1>2. to \in Nat /\ to < AddrSize /\ Half \in Nat /\ AddrSize \in Nat
  BY HeapNumbers
<1>3. Addr(to) = to
  BY <1>2 DEF Addr
<1>4. Rounded(to) \in Nat
  BY <1>2, HeapAssumption DEF Rounded, Addr, AddrSize
<1>5. to # AddrSize - 1 => to <= Rounded(to)
  BY <1>2, <1>3, RoundedUp
<1>6. CASE Refuse(sp)
  BY <1>6, RefuseStep
<1>7. CASE ~Refuse(sp)
  <2>1. /\ ~TooHigh(Rounded(to), sp) /\ brk' = Rounded(to)
        /\ held' = {a \in held : a < to} \cup (brk .. to - 1)
        /\ last' = [sp |-> sp, ret |-> Rounded(to), got |-> brk .. to - 1]
        /\ astray' = Strayed(to)
    BY <1>7 DEF Brk
  <2>2. \A a \in held' : a < to
    BY <1>1, <1>2, <2>1
  <2>3. Accepted(Rounded(to), to, sp)
    BY <2>1, <2>2 DEF Accepted
  <2> QED
    BY <1>2, <1>4, <1>5, <2>3, AcceptedStep
<1> QED
  BY <1>6, <1>7

LEMMA HeapStep ==
  ASSUME HeapInv, HeapNext
  PROVE  StepOK
BY SbrkStep, BrkStep DEF HeapNext

LEMMA HeapBegins == HeapInit => HeapInv
BY HeapAssumption DEF HeapInit, HeapInv, HeapTypeOK

LEMMA HeapStays ==
  ASSUME HeapInv, UNCHANGED heapVars
  PROVE  HeapInv'
BY DEF HeapInv, HeapTypeOK, heapVars

LEMMA HeapInductive == HeapSpec => []HeapInv
<1>1. HeapInv /\ [HeapNext]_heapVars => HeapInv'
  BY HeapStep, HeapStays DEF StepOK
<1> QED
  BY HeapBegins, <1>1, PTL DEF HeapSpec

(* The break stays in the lower half of the addresses, whatever is asked   *)
(* (sbrk.c:36: the stack is there).                                        *)
THEOREM HeapTypeThm == HeapSpec => []HeapTypeOK
BY HeapInductive, PTL DEF HeapInv

(* sbrk.c:34, for every sequence of requests: until one for the top        *)
(* address is accepted, what sbrk and brk give overlaps nothing that is    *)
(* held, nor the stack with its gap; until one for a break below _end is   *)
(* accepted too, nor the program.                                          *)
THEOREM GrantsThm == HeapSpec => GrantsApart
<1>1. HeapInv /\ [HeapNext]_heapVars
        => [/\ "top" \notin astray' =>
                 /\ last'.got \cap held = {}
                 /\ \A a \in last'.got : a + Gap < last'.sp
            /\ astray' = {} => \A a \in last'.got : a >= End]_heapVars
  BY HeapStep DEF StepOK
<1> QED
  BY HeapInductive, <1>1, PTL DEF HeapSpec, GrantsApart

-----------------------------------------------------------------------------
(* The user areas. *)

CcbSet == [open : BOOLEAN, user : 0 .. MaxUser + 1, file : Plain \cup {NoFile}]

(* The CCB of an open channel remembers the area that was asked for.       *)
Remembers(f, h) == f.open /\ h.asked => f.user = h.area + 1

AreaInv == AreaTypeOK /\ \A c \in Channel : Remembers(fds[c], home[c])

(* What the properties say of a call.                                      *)
Back  == did'.op # "user" => user' = user
There == \A f \in User \X Plain :
           (f \in files) # (f \in files')
             => f[1] = IF did'.fuser # 0 THEN did'.fuser - 1 ELSE user
AtHome == \A c \in Channel :
            did'.op \in {"transfer", "close"} /\ did'.chan = c /\ home[c].asked
              => did'.area = home[c].area

CallOK == AreaInv' /\ Back /\ There /\ AtHome

-----------------------------------------------------------------------------
(* The switches.                                                           *)
LEMMA ThereAndBack ==
  ASSUME user \in User, NEW n \in 0 .. MaxUser + 1
  PROVE  Uchkuser(n) = user /\ Area(n) \in User /\ (n # 0 => Area(n) = n - 1)
BY UserAreaAssumption DEF Uchkuser, Area, User

LEMMA ChinitIsCcb ==
  ASSUME NEW c
  PROVE  Chinit(c) \in CcbSet /\ Chinit(c).user = 0 /\ ~Chinit(c).open
BY UserAreaAssumption DEF Chinit, CcbSet, NoFile

LEMMA NamedIsCcb ==
  ASSUME NEW c, NEW p \in Parsed, p.ok
  PROVE  /\ Named(c, p) \in CcbSet
         /\ Named(c, p).user = p.fuser
         /\ ~Named(c, p).open
         /\ p.fuser \in 0 .. MaxUser + 1
<1>1. p.fuser \in 0 .. MaxUser + 1
  BY UserAreaAssumption
<1>2. Chinit(c) \in CcbSet /\ Chinit(c).user = 0 /\ ~Chinit(c).open
  BY ChinitIsCcb
<1>3. CASE p.fuser # 0
  BY <1>1, <1>2, <1>3 DEF Named, CcbSet
<1>4. CASE p.fuser = 0
  BY <1>1, <1>2, <1>4 DEF Named, CcbSet
<1> QED
  BY <1>1, <1>3, <1>4

(* A channel opened on a file.                                             *)
LEMMA OpenedIsCcb ==
  ASSUME NEW f \in CcbSet, NEW n \in Plain
  PROVE  LET g == [f EXCEPT !.open = TRUE, !.file = n]
         IN  g \in CcbSet /\ g.user = f.user /\ g.open
BY DEF CcbSet

(* How the CCBs and histories may change without breaking the invariant.   *)
LEMMA InvKept ==
  ASSUME AreaInv, NEW c \in Channel, user' \in User,
         NEW f \in CcbSet, NEW h \in [area : User, asked : BOOLEAN],
         fds' = [fds EXCEPT ![c] = f], home' = [home EXCEPT ![c] = h],
         Remembers(f, h)
  PROVE  AreaInv'
<1>1. fds \in [Channel -> CcbSet] /\ home \in [Channel -> [area : User, asked : BOOLEAN]]
  BY DEF AreaInv, AreaTypeOK, CcbSet
<1>2. fds' \in [Channel -> CcbSet] /\ home' \in [Channel -> [area : User, asked : BOOLEAN]]
  BY <1>1
<1>3. ASSUME NEW d \in Channel
      PROVE  Remembers(fds[d], home[d])'
  <2>1. CASE d = c
    BY <1>1, <2>1 DEF Remembers
  <2>2. CASE d # c
    <3>1. fds'[d] = fds[d] /\ home'[d] = home[d]
      BY <1>1, <2>2
    <3> QED
      BY <3>1 DEF AreaInv, Remembers
  <2> QED
    BY <2>1, <2>2
<1> QED
  BY <1>2, <1>3 DEF AreaInv, AreaTypeOK, CcbSet

(* The channel stays closed, and its CCB changes: the calls that fail.     *)
LEMMA ClosedKept ==
  ASSUME AreaInv, NEW c \in Channel, user' \in User, NEW f \in CcbSet, ~f.open,
         fds' = [fds EXCEPT ![c] = f], home' = home
  PROVE  AreaInv'
<1>1. home[c] \in [area : User, asked : BOOLEAN]
  BY DEF AreaInv, AreaTypeOK
<1>2. home' = [home EXCEPT ![c] = home[c]]
  BY DEF AreaInv, AreaTypeOK
<1>3. Remembers(f, home[c])
  BY DEF Remembers
<1> QED
  BY <1>1, <1>2, <1>3, InvKept

LEMMA NothingMoved ==
  ASSUME AreaInv, user' \in User, UNCHANGED <<fds, home>>
  PROVE  AreaInv'
BY DEF AreaInv, AreaTypeOK, Remembers

(* Opening a channel on a file of the area the name said.                  *)
LEMMA OpenedKept ==
  ASSUME AreaInv, NEW c \in Channel, user' = user, NEW p \in Parsed, p.ok, NEW n \in Plain,
         fds' = [fds EXCEPT ![c] = [Named(c, p) EXCEPT !.open = TRUE, !.file = n]],
         home' = [home EXCEPT ![c] = [area |-> Area(Named(c, p).user), asked |-> p.fuser # 0]]
  PROVE  AreaInv'
<1>1. Named(c, p) \in CcbSet /\ Named(c, p).user = p.fuser /\ p.fuser \in 0 .. MaxUser + 1
  BY NamedIsCcb
<1>2. user \in User /\ user' \in User
  BY DEF AreaInv, AreaTypeOK
<1>3. Area(p.fuser) \in User /\ (p.fuser # 0 => Area(p.fuser) = p.fuser - 1)
  BY <1>1, <1>2, ThereAndBack
<1> DEFINE g == [Named(c, p) EXCEPT !.open = TRUE, !.file = n]
           h == [area |-> Area(Named(c, p).user), asked |-> p.fuser # 0]
<1>4. g \in CcbSet /\ g.user = p.fuser
  BY <1>1, OpenedIsCcb
<1>5. h.area = Area(p.fuser) /\ (h.asked => p.fuser # 0)
  BY <1>1, Zenon
<1>6. h \in [area : User, asked : BOOLEAN]
  BY <1>1, <1>3, Zenon
<1> HIDE DEF g, h
<1>7. Remembers(g, h)
  BY <1>1, <1>3, <1>4, <1>5 DEF Remembers, User
<1>8. fds' = [fds EXCEPT ![c] = g] /\ home' = [home EXCEPT ![c] = h]
  BY DEF g, h
<1> QED
  BY <1>2, <1>4, <1>6, <1>7, <1>8, InvKept

-----------------------------------------------------------------------------
(* The calls, one by one.                                                  *)
LEMMA BadNameStep ==
  ASSUME AreaInv, NEW c \in Channel, NEW p \in Parsed,
         NEW op \in {"open", "creat", "unlink"}, BadName(op, c, p)
  PROVE  CallOK
<1>1. user' = user /\ files' = files /\ home' = home /\ did'.op = op
  BY DEF BadName, Refuses, Did
<1>2. PICK f \in CcbSet : ~f.open /\ fds' = [fds EXCEPT ![c] = f]
  BY NamedIsCcb, ChinitIsCcb DEF BadName
<1>3. AreaInv'
  BY <1>1, <1>2, ClosedKept DEF AreaInv, AreaTypeOK
<1> QED
  BY <1>1, <1>3 DEF CallOK, Back, There, AtHome

(* The names of the calls through __open that find a channel.              *)
LEMMA NamedArea ==
  ASSUME AreaInv, NEW c, NEW p \in Parsed, p.ok
  PROVE  /\ Uchkuser(Named(c, p).user) = user
         /\ Area(Named(c, p).user) \in User
         /\ Area(Named(c, p).user) = IF p.fuser # 0 THEN p.fuser - 1 ELSE user
<1>1. Named(c, p).user = p.fuser /\ p.fuser \in 0 .. MaxUser + 1
  BY NamedIsCcb
<1> QED
  BY <1>1, ThereAndBack DEF AreaInv, AreaTypeOK, Area

LEMMA OpenFileStep ==
  ASSUME AreaInv, NEW c \in Channel, NEW p \in Parsed, OpenFile(c, p)
  PROVE  CallOK
<1>1. p.ok /\ user' = user /\ files' = files /\ did'.op = "open"
  BY NamedArea DEF OpenFile, Did
<1>2. user' \in User
  BY <1>1 DEF AreaInv, AreaTypeOK
<1>3. AreaInv'
  <2>1. ASSUME NEW n \in Plain,
               fds' = [fds EXCEPT ![c] = [Named(c, p) EXCEPT !.open = TRUE, !.file = n]],
               home' = [home EXCEPT ![c] = [area |-> Area(Named(c, p).user), asked |-> p.fuser # 0]]
        PROVE  AreaInv'
    BY <1>1, <2>1, OpenedKept
  <2>2. ASSUME fds' = [fds EXCEPT ![c] = Named(c, p)], UNCHANGED home
        PROVE  AreaInv'
    BY <1>1, <1>2, <2>2, NamedIsCcb, ClosedKept
  <2> QED
    BY <2>1, <2>2 DEF OpenFile, Found
<1> QED
  BY <1>1, <1>3 DEF CallOK, Back, There, AtHome

LEMMA CreateFileStep ==
  ASSUME AreaInv, NEW c \in Channel, NEW p \in Parsed, CreateFile(c, p)
  PROVE  CallOK
<1> DEFINE a == Area(Named(c, p).user)
<1>1. p.ok /\ ~Wild(p) /\ p.name \in Plain
  BY UserAreaAssumption DEF CreateFile
<1>2. user' = user /\ did'.op = "creat" /\ did'.fuser = p.fuser
  BY <1>1, NamedArea DEF CreateFile, Did
<1>3. user' \in User
  BY <1>2 DEF AreaInv, AreaTypeOK
<1>4. AreaInv'
  <2>1. ASSUME fds' = [fds EXCEPT ![c] = [Named(c, p) EXCEPT !.open = TRUE, !.file = p.name]],
               home' = [home EXCEPT ![c] = [area |-> a, asked |-> p.fuser # 0]]
        PROVE  AreaInv'
    BY <1>1, <1>2, <2>1, OpenedKept
  <2>2. ASSUME fds' = [fds EXCEPT ![c] = Named(c, p)], UNCHANGED home
        PROVE  AreaInv'
    BY <1>1, <1>3, <2>2, NamedIsCcb, ClosedKept
  <2> QED
    BY <2>1, <2>2 DEF CreateFile
<1>5. There
  <2>1. \A f \in User \X Plain : (f \in files) # (f \in files') => f = <<a, p.name>>
    BY DEF CreateFile
  <2>2. a = IF p.fuser # 0 THEN p.fuser - 1 ELSE user
    BY <1>1, NamedArea
  <2> QED
    BY <1>2, <2>1, <2>2 DEF There
<1> QED
  BY <1>2, <1>4, <1>5 DEF CallOK, Back, AtHome

LEMMA UnlinkFileStep ==
  ASSUME AreaInv, NEW c \in Channel, NEW p \in Parsed, UnlinkFile(c, p)
  PROVE  CallOK
<1> DEFINE a == Area(Named(c, p).user)
<1>1. p.ok /\ user' = user /\ home' = home /\ did'.op = "unlink" /\ did'.fuser = p.fuser
  BY NamedArea DEF UnlinkFile, Did
<1>2. AreaInv'
  BY <1>1, NamedIsCcb, ClosedKept DEF UnlinkFile, AreaInv, AreaTypeOK
<1>3. There
  <2>1. \A f \in User \X Plain : (f \in files) # (f \in files') => f[1] = a
    BY DEF UnlinkFile
  <2>2. a = IF p.fuser # 0 THEN p.fuser - 1 ELSE user
    BY <1>1, NamedArea
  <2> QED
    BY <1>1, <2>1, <2>2 DEF There
<1> QED
  BY <1>1, <1>2, <1>3 DEF CallOK, Back, AtHome

LEMMA RenameFileStep ==
  ASSUME AreaInv, NEW c \in Channel, NEW p \in Parsed, NEW q \in Parsed, RenameFile(c, p, q)
  PROVE  CallOK
<1> DEFINE n == NUser(p, q)
           a == Area(n)
<1>1. fds' = fds /\ home' = home /\ did'.op = "rename"
  BY DEF RenameFile, Refuses, Did
<1>2. CASE Refuses("rename", c)
  <2>1. user' = user /\ files' = files
    BY <1>2 DEF Refuses
  <2>2. AreaInv'
    BY <1>1, <2>1, NothingMoved DEF AreaInv, AreaTypeOK
  <2> QED
    BY <1>1, <2>1, <2>2 DEF CallOK, Back, There, AtHome
<1>3. CASE ~Refuses("rename", c)
  <2>1. n \in 0 .. MaxUser + 1
    BY <1>3, UserAreaAssumption DEF RenameFile, NUser
  <2>2. user' = user /\ did'.fuser = n
    BY <1>3, <2>1, ThereAndBack DEF RenameFile, Did, AreaInv, AreaTypeOK
  <2>3. AreaInv'
    BY <1>1, <2>2, NothingMoved DEF AreaInv, AreaTypeOK
  <2>4. There
    <3>1. \A f \in User \X Plain : (f \in files) # (f \in files') => f[1] = a
      BY <1>3 DEF RenameFile
    <3>2. a = IF n # 0 THEN n - 1 ELSE user
      BY DEF Area
    <3> QED
      BY <2>2, <3>1, <3>2 DEF There
  <2> QED
    BY <1>1, <2>2, <2>3, <2>4 DEF CallOK, Back, AtHome
<1> QED
  BY <1>2, <1>3

LEMMA TransferStep ==
  ASSUME AreaInv, NEW c \in Channel, Transfer(c)
  PROVE  CallOK
<1>1. fds[c] \in CcbSet /\ fds[c].user \in 0 .. MaxUser + 1 /\ Remembers(fds[c], home[c])
  BY DEF AreaInv, AreaTypeOK, CcbSet
<1>2. home[c].area \in User
  BY DEF AreaInv, AreaTypeOK
<1>3. /\ user' = user /\ files' = files /\ fds' = fds /\ home' = home
      /\ did'.op = "transfer" /\ did'.chan = c /\ did'.area = Area(fds[c].user)
  BY <1>1, ThereAndBack DEF Transfer, Did, AreaInv, AreaTypeOK
<1>4. AreaInv'
  BY <1>3, NothingMoved DEF AreaInv, AreaTypeOK
<1>5. home[c].asked => Area(fds[c].user) = home[c].area
  BY <1>1, <1>2 DEF Transfer, Remembers, Area, User
<1> QED
  BY <1>3, <1>4, <1>5 DEF CallOK, Back, There, AtHome

LEMMA CloseFileStep ==
  ASSUME AreaInv, NEW c \in Channel, CloseFile(c)
  PROVE  CallOK
<1>1. fds[c] \in CcbSet /\ fds[c].user \in 0 .. MaxUser + 1 /\ Remembers(fds[c], home[c])
  BY DEF AreaInv, AreaTypeOK, CcbSet
<1>2. home[c].area \in User
  BY DEF AreaInv, AreaTypeOK
<1>3. /\ user' = user /\ files' = files
      /\ fds' = [fds EXCEPT ![c] = Chinit(c)] /\ home' = [home EXCEPT ![c] = Nowhere]
      /\ did'.op = "close" /\ did'.chan = c /\ did'.area = Area(fds[c].user)
  BY <1>1, ThereAndBack DEF CloseFile, Did, AreaInv, AreaTypeOK
<1>4. Nowhere \in [area : User, asked : BOOLEAN] /\ ~Nowhere.asked
  BY UserAreaAssumption DEF Nowhere, User
<1>5. Chinit(c) \in CcbSet /\ Remembers(Chinit(c), Nowhere)
  BY <1>4, ChinitIsCcb DEF Remembers
<1>6. AreaInv'
  BY <1>3, <1>4, <1>5, InvKept DEF AreaInv, AreaTypeOK
<1>7. home[c].asked => Area(fds[c].user) = home[c].area
  BY <1>1, <1>2 DEF CloseFile, Remembers, Area, User
<1> QED
  BY <1>3, <1>6, <1>7 DEF CallOK, Back, There, AtHome

LEMMA SetUserStep ==
  ASSUME AreaInv, NEW c \in Channel, NEW u \in User, SetUser(c, u)
  PROVE  CallOK
<1>1. user' = u /\ files' = files /\ fds' = fds /\ home' = home /\ did'.op = "user"
  BY DEF SetUser, Did
<1>2. AreaInv'
  BY <1>1, NothingMoved
<1> QED
  BY <1>1, <1>2 DEF CallOK, Back, There, AtHome

LEMMA CallStep ==
  ASSUME AreaInv, NEW c \in Channel, NEW p \in Parsed, NEW q \in Parsed, Call(c, p, q)
  PROVE  CallOK
BY BadNameStep, OpenFileStep, CreateFileStep, UnlinkFileStep, RenameFileStep,
   TransferStep, CloseFileStep, SetUserStep DEF Call

-----------------------------------------------------------------------------
LEMMA AreaBegins == AreaInit => AreaInv
<1> SUFFICES ASSUME AreaInit
             PROVE  AreaInv
  OBVIOUS
<1>1. \A c \in Channel : /\ fds[c] = Chinit(c)
                         /\ home[c] = Nowhere
  BY DEF AreaInit, Chinit
<1>2. Nowhere \in [area : User, asked : BOOLEAN]
  BY UserAreaAssumption DEF Nowhere, User
<1>3. AreaTypeOK
  BY <1>1, <1>2, ChinitIsCcb DEF AreaInit, AreaTypeOK, CcbSet
<1>4. \A c \in Channel : Remembers(fds[c], home[c])
  BY <1>1, ChinitIsCcb DEF Remembers
<1> QED
  BY <1>3, <1>4 DEF AreaInv

LEMMA AreaStays ==
  ASSUME AreaInv, UNCHANGED areaVars
  PROVE  AreaInv'
BY DEF AreaInv, AreaTypeOK, Remembers, areaVars

LEMMA AreaInductive == AreaSpec => []AreaInv
<1>1. AreaInv /\ [\E c \in Channel, p, q \in Parsed : Call(c, p, q)]_areaVars => AreaInv'
  BY CallStep, AreaStays DEF CallOK
<1> QED
  BY AreaBegins, <1>1, PTL DEF AreaSpec

(* The user number is one BDOS has, and the CCBs keep their types.         *)
THEOREM AreaTypeThm == AreaSpec => []AreaTypeOK
BY AreaInductive, PTL DEF AreaInv

(* chkuser.c:12, "sets the user number back to its previous value".        *)
THEOREM UserKeptThm == AreaSpec => UserKept
<1>1. AreaInv /\ [\E c \in Channel, p, q \in Parsed : Call(c, p, q)]_areaVars
        => [did'.op # "user" => user' = user]_areaVars
  BY CallStep DEF CallOK, Back
<1> QED
  BY AreaInductive, <1>1, PTL DEF AreaSpec, UserKept

(* Files come and go only in the area that the names of the call say.      *)
THEOREM OnlyThereThm == AreaSpec => OnlyThere
<1>1. AreaInv /\ [\E c \in Channel, p, q \in Parsed : Call(c, p, q)]_areaVars
        => [\A f \in User \X Plain :
              (f \in files) # (f \in files')
                => f[1] = IF did'.fuser # 0 THEN did'.fuser - 1 ELSE user]_areaVars
  BY CallStep DEF CallOK, There
<1> QED
  BY AreaInductive, <1>1, PTL DEF AreaSpec, OnlyThere

(* A file opened in a named area is read, written and closed there.        *)
THEOREM ServedAtHomeThm == AreaSpec => ServedAtHome
<1>1. AreaInv /\ [\E c \in Channel, p, q \in Parsed : Call(c, p, q)]_areaVars
        => [\A c \in Channel :
              did'.op \in {"transfer", "close"} /\ did'.chan = c /\ home[c].asked
                => did'.area = home[c].area]_areaVars
  BY CallStep DEF CallOK, AtHome
<1> QED
  BY AreaInductive, <1>1, PTL DEF AreaSpec, ServedAtHome

-----------------------------------------------------------------------------
(* The program. *)

LEMMA ReallocStep == Realloc => [HeapNext]_heapVars
BY ArgsAssumption DEF Realloc, HeapNext

LEMMA ArgsHeapStep == ArgsNext => [HeapNext]_heapVars
BY ReallocStep DEF ArgsNext, Start, SkipBlank, QuotedArg, Unterminated, BareArg, ArgsDone,
   AddArg, heapVars

(* A step of the program is a call of sbrk or brk, or leaves the heap.     *)
LEMMA ProgramHeapStep == [Next]_vars => [HeapNext]_heapVars
<1>1. Parses => [HeapNext]_heapVars
  BY ArgsHeapStep DEF Parses
<1>2. MainCalls => [HeapNext]_heapVars
  BY DEF MainCalls
<1>3. MainAsksMemory => [HeapNext]_heapVars
  BY DEF MainAsksMemory
<1>4. Exit => [HeapNext]_heapVars
  BY DEF Exit
<1>5. UNCHANGED vars => [HeapNext]_heapVars
  BY DEF vars
<1> QED
  BY <1>1, <1>2, <1>3, <1>4, <1>5 DEF Next

AreaNext == \E c \in Channel, p, q \in Parsed : Call(c, p, q)

(* A step of the program is a call that names a file or a channel, or      *)
(* leaves the directory, the CCBs and the user number.                     *)
LEMMA ProgramAreaStep == [Next]_vars => [AreaNext]_areaVars
<1>1. Parses => [AreaNext]_areaVars
  BY DEF Parses
<1>2. MainCalls => [AreaNext]_areaVars
  BY DEF MainCalls, AreaNext, Given
<1>3. MainAsksMemory => [AreaNext]_areaVars
  BY DEF MainAsksMemory
<1>4. Exit => [AreaNext]_areaVars
  BY DEF Exit
<1>5. UNCHANGED vars => [AreaNext]_areaVars
  BY DEF vars
<1> QED
  BY <1>1, <1>2, <1>3, <1>4, <1>5 DEF Next

(* A program on CP/M is a user of the heap.                                *)
THEOREM ProgramUsesHeap == Spec => HeapSpec
<1>1. Init => HeapInit
  BY DEF Init, ArgsInit
<1> QED
  BY <1>1, ProgramHeapStep, PTL DEF Spec, HeapSpec

(* It is a user of the user areas.                                         *)
THEOREM ProgramUsesAreas == Spec => AreaSpec
<1>1. Init => AreaInit
  BY DEF Init
<1>2. [Next]_vars => [\E c \in Channel, p, q \in Parsed : Call(c, p, q)]_areaVars
  BY ProgramAreaStep DEF AreaNext
<1> QED
  BY <1>1, <1>2, PTL DEF Spec, AreaSpec

(* What a program is given, by malloc's sbrk while argv grows or by its    *)
(* own requests, overlaps nothing (sbrk.c:34).                             *)
THEOREM ProgramGrants == Spec => GrantsApart
BY ProgramUsesHeap, GrantsThm, PTL

(* Its calls leave it in its user area, change the directory only where    *)
(* they say, and serve an open file where it was opened (chkuser.c:12).    *)
THEOREM ProgramAreas == Spec => UserKept /\ OnlyThere /\ ServedAtHome
BY ProgramUsesAreas, UserKeptThm, OnlyThereThm, ServedAtHomeThm, PTL

(* Once main runs nothing moves in the tail; when it is done argv is not   *)
(* looked at any more.                                                     *)
LEMMA ExitKeeps == ArgsInv /\ Exit => ArgsInv'
<1> SUFFICES ASSUME ArgsInv, Exit PROVE ArgsInv'
  OBVIOUS
<1>1. pc' = "done" /\ typed' = typed /\ tail' = tail /\ cp' = cp /\ argv' = argv
  BY DEF Exit
<1>2. Typed' /\ ArgsTypeOK'
  BY <1>1 DEF ArgsInv, Typed, ArgsTypeOK
<1>3. Reading'
  BY <1>1 DEF Reading
<1> QED
  BY <1>2, <1>3 DEF ArgsInv

LEMMA ProgramArgsStep == ArgsInv /\ [Next]_vars => ArgsInv'
<1> SUFFICES ASSUME ArgsInv, [Next]_vars PROVE ArgsInv'
  OBVIOUS
<1>1. CASE Parses
  BY <1>1, ArgsStep DEF Parses
<1>2. CASE MainCalls \/ MainAsksMemory \/ UNCHANGED vars
  <2>1. UNCHANGED argsVars
    BY <1>2 DEF MainCalls, MainAsksMemory, vars
  <2> QED
    BY <2>1, ArgsIdle
<1>3. CASE Exit
  BY <1>3, ExitKeeps
<1> QED
  BY <1>1, <1>2, <1>3 DEF Next

LEMMA ProgramArgs == Spec => []ArgsInv
<1>1. Init => ArgsInv
  BY ArgsStart DEF Init
<1> QED
  BY <1>1, ProgramArgsStep, PTL DEF Spec

(* _main.c:71-119: the words that were typed are what main gets, whatever  *)
(* they are and however many, and a line is refused only for a quote that  *)
(* is not closed.                                                          *)
THEOREM ProgramArgv == Spec => []ArgvAsTyped
BY ProgramArgs, ArgsGives, PTL

(* Every variable of the program keeps its type, and no argument points    *)
(* outside the tail, a tail that was too long included.                    *)
THEOREM ProgramTypeThm == Spec => []TypeOK
<1>1. ArgsInv /\ HeapTypeOK /\ AreaTypeOK => TypeOK
  <2> SUFFICES ASSUME ArgsInv, HeapTypeOK, AreaTypeOK PROVE TypeOK
    OBVIOUS
  <2>1. tail \in Seq(Nat) /\ cp \in 1 .. Len(tail) + 1
    BY DEF ArgsInv, ArgsTypeOK
  <2>2. cp \in 1 .. Len(tail) + 2
    <3>1. Len(tail) \in Nat
      BY <2>1
    <3> QED
      BY <2>1, <3>1
  <2> QED
    BY <2>2 DEF TypeOK, ArgsInv, ArgsTypeOK
<1> QED
  BY <1>1, ProgramArgs, ProgramUsesHeap, ProgramUsesAreas, HeapTypeThm, AreaTypeThm, PTL
-----------------------------------------------------------------------------
(* The names that main is given. *)

LineChars == Seq(Nat \ LineEnds)

(* There is no end of a line in the tail, and the arguments are in it. *)
NamesInv == tail \in LineChars /\ \A i \in DOMAIN argv : i = 1 \/ argv[i] # 0

LEMMA WordChars ==
  ASSUME NEW w \in Seq(Nat), \A i \in DOMAIN w : w[i] \notin LineEnds
  PROVE  w \in LineChars
<1>1. Len(w) \in Nat /\ w \in [1 .. Len(w) -> Nat] /\ DOMAIN w = 1 .. Len(w)
  BY LenProperties
<1>2. \A i \in 1 .. Len(w) : w[i] \in Nat \ LineEnds
  BY <1>1
<1>3. w \in [1 .. Len(w) -> Nat \ LineEnds]
  BY <1>1, <1>2, Zenon
<1>4. PICK n \in Nat : n = Len(w)
  BY <1>1
<1>5. w \in [1 .. n -> Nat \ LineEnds]
  BY <1>3, <1>4
<1>6. w \in UNION {[1 .. m -> Nat \ LineEnds] : m \in Nat}
  BY <1>5
<1>7. Seq(Nat \ LineEnds) = UNION {[1 .. m -> Nat \ LineEnds] : m \in Nat}
  BY SeqDef
<1> QED
  BY <1>6, <1>7 DEF LineChars

LEMMA WrittenChars ==
  ASSUME NEW line \in Lines
  PROVE  Written(line) \in LineChars
<1>1. /\ line \in Seq(Word) /\ Len(line) \in Nat
      /\ \A k \in 1 .. Len(line) : line[k] \in Word /\ line[k].word \in LineChars
  <2>1. line \in Seq(Word)
    BY ArgsAssumption
  <2>2. ASSUME NEW k \in 1 .. Len(line) PROVE line[k] \in Word /\ line[k].word \in LineChars
    <3>1. k \in DOMAIN line /\ line[k] \in Word
      BY <2>1
    <3>2. line[k].word \in Seq(Nat)
      BY <3>1 DEF Word
    <3>3. \A i \in DOMAIN line[k].word : line[k].word[i] \notin LineEnds
      BY <3>1, ArgsAssumption
    <3> QED
      BY <3>1, <3>2, <3>3, WordChars
  <2> QED
    BY <2>1, <2>2
<1> DEFINE f == Texts(line)
<1>2. /\ f[0] = <<>> /\ Written(line) = f[Len(line)]
      /\ \A k \in 1 .. Len(line) : f[k] = f[k - 1] \o Quoted(line[k]) \o [i \in 1 .. line[k].gap |-> 32]
  BY <1>1, TextsAre DEF WrittenTo, Behind
<1> HIDE DEF f
<1> DEFINE S == {m \in 0 .. Len(line) : f[m] \in LineChars}
<1>3. 0 \in S
  <2>1. <<>> \in LineChars
    BY DEF LineChars
  <2>2. f[0] \in LineChars
    BY <1>2, <2>1
  <2>3. 0 \in 0 .. Len(line)
    BY <1>1
  <2> QED
    BY <2>2, <2>3
<1>4. ASSUME NEW m \in 0 .. Len(line) - 1, m \in S PROVE m + 1 \in S
  <2>1. m + 1 \in 1 .. Len(line) /\ m + 1 \in 0 .. Len(line) /\ (m + 1) - 1 = m /\ f[m] \in LineChars
    BY <1>1, <1>4
  <2> DEFINE w == line[m + 1]
             bl == [i \in 1 .. w.gap |-> 32]
  <2>2. w \in Word /\ w.word \in LineChars
    BY <1>1, <2>1
  <2>3. w.gap \in Int /\ w.quote \in {0} \cup Quotes
    BY <2>2 DEF Word
  <2>4. bl \in LineChars
    <3>1. 32 \in Nat \ LineEnds
      BY DEF LineEnds
    <3>2. 1 .. w.gap = 1 .. (IF w.gap < 0 THEN 0 ELSE w.gap) /\ (IF w.gap < 0 THEN 0 ELSE w.gap) \in Nat
      BY <2>3
    <3> QED
      BY <3>1, <3>2 DEF LineChars
  <2>5. Quoted(w) \in LineChars
    <3>1. CASE w.quote = 0
      BY <2>2, <3>1 DEF Quoted
    <3>2. CASE w.quote # 0
      <4>1. w.quote \in Nat \ LineEnds
        BY <2>3, <3>2 DEF Quotes, LineEnds
      <4>2. <<w.quote>> \in LineChars /\ <<>> \in LineChars
        BY <4>1 DEF LineChars
      <4>3. (IF w.gap < 0 THEN <<>> ELSE <<w.quote>>) \in LineChars
        BY <4>2
      <4>4. <<w.quote>> \o w.word \o (IF w.gap < 0 THEN <<>> ELSE <<w.quote>>) \in LineChars
        BY <2>2, <4>2, <4>3, ConcatProperties DEF LineChars
      <4> QED
        BY <3>2, <4>4 DEF Quoted
    <3> QED
      BY <3>1, <3>2
  <2>6. f[m + 1] = f[m] \o Quoted(w) \o bl
    BY <1>2, <2>1
  <2> HIDE DEF w, bl
  <2>7. f[m] \o Quoted(w) \o bl \in LineChars
    BY <2>1, <2>4, <2>5, ConcatProperties DEF LineChars
  <2> QED
    BY <2>1, <2>6, <2>7
<1>5. Len(line) \in S
  <2> HIDE DEF S
  <2>1. \A m \in 0 .. Len(line) - 1 : m \in S => m + 1 \in S
    BY <1>4
  <2>2. PICK n \in Nat : n = Len(line)
    BY <1>1
  <2>3. 0 \in S /\ \A m \in 0 .. n - 1 : m \in S => m + 1 \in S
    BY <1>3, <2>1, <2>2
  <2>4. \A m \in 0 .. n : m \in S
    BY ONLY <2>2, <2>3, UpTo
  <2>5. n \in 0 .. n
    OBVIOUS
  <2> QED
    BY <2>2, <2>4, <2>5
<1> QED
  BY <1>2, <1>5

LEMMA NamesStart == Init => NamesInv
<1> SUFFICES ASSUME Init PROVE NamesInv
  OBVIOUS
<1>1. typed \in Lines /\ tail = Written(typed) /\ argv = <<>>
  BY DEF Init, ArgsInit
<1> QED
  BY <1>1, WrittenChars DEF NamesInv

LEMMA ErasedChars == tail \in LineChars => \A p : Erased(p) \in LineChars
<1> SUFFICES ASSUME tail \in LineChars, NEW p PROVE Erased(p) \in LineChars
  OBVIOUS
<1>1. PICK z \in Nat : z = Len(tail) /\ DOMAIN tail = 1 .. z /\ \A i \in 1 .. z : tail[i] \in Nat \ LineEnds
  BY DEF LineChars
<1>2. 0 \in Nat \ LineEnds
  BY DEF LineEnds
<1>3. Erased(p) = [i \in 1 .. z |-> IF i = p THEN 0 ELSE tail[i]]
  BY <1>1 DEF Erased
<1>4. \A i \in 1 .. z : (IF i = p THEN 0 ELSE tail[i]) \in Nat \ LineEnds
  BY <1>1, <1>2
<1> QED
  BY <1>1, <1>3, <1>4 DEF LineChars

LEMMA NamesStep == ArgsInv /\ NamesInv /\ [Next]_vars => NamesInv'
<1> SUFFICES ASSUME ArgsInv, NamesInv, [Next]_vars PROVE NamesInv'
  OBVIOUS
<1>1. /\ tail \in LineChars /\ argv \in Seq(Nat) /\ cp \in Nat \ {0}
      /\ \A i \in DOMAIN argv : i = 1 \/ argv[i] # 0
  <2>1. tail \in LineChars /\ \A i \in DOMAIN argv : i = 1 \/ argv[i] # 0
    BY DEF NamesInv
  <2>2. argv \in Seq(Nat) /\ cp \in 1 .. Len(tail) + 1
    BY DEF ArgsInv, ArgsTypeOK
  <2> QED
    BY <2>1, <2>2
<1>2. ASSUME NEW p \in Nat \ {0}, argv' = Append(argv, p)
      PROVE  \A i \in DOMAIN argv' : i = 1 \/ argv'[i] # 0
  BY <1>1, <1>2
<1>3. CASE Start
  <2>1. argv = <<>> /\ argv' = Append(argv, 0)
    BY <1>3 DEF Start, AddArg, ArgsInv, ArgsTypeOK
  <2>2. PICK m \in Nat : m <= Len(tail) /\ tail' = SubSeq(tail, 1, m)
    <3>1. TailMax \in Nat /\ Len(tail) \in Nat
      BY <1>1, ArgsAssumption DEF LineChars
    <3>2. tail' = SubSeq(tail, 1, IF Len(tail) > TailMax THEN TailMax ELSE Len(tail))
      BY <1>3 DEF Start
    <3>3. CASE Len(tail) > TailMax
      BY <3>1, <3>2, <3>3
    <3>4. CASE Len(tail) <= TailMax
      BY <3>1, <3>2, <3>4
    <3> QED
      BY <3>1, <3>3, <3>4
  <2>3. tail' \in LineChars
    <3>1. \A i \in 1 .. m : tail[i] \in Nat \ LineEnds
      BY <1>1, <2>2 DEF LineChars
    <3> QED
      BY <2>2, <3>1, SubSeqProperties DEF LineChars
  <2>4. \A i \in DOMAIN argv' : i = 1 \/ argv'[i] # 0
    BY <2>1
  <2> QED
    BY <2>3, <2>4 DEF NamesInv
<1>4. CASE QuotedArg
  <2>1. PICK ep : tail' = Erased(ep) /\ argv' = Append(argv, cp + 1)
    BY <1>4 DEF QuotedArg, AddArg
  <2>2. cp + 1 \in Nat \ {0}
    BY <1>1
  <2>3. \A i \in DOMAIN argv' : i = 1 \/ argv'[i] # 0
    BY <1>2, <2>1, <2>2
  <2> QED
    BY <1>1, <2>1, <2>3, ErasedChars DEF NamesInv
<1>5. CASE BareArg
  <2>1. PICK ep : tail' = Erased(ep) /\ argv' = Append(argv, cp)
    BY <1>5 DEF BareArg, AddArg
  <2>2. \A i \in DOMAIN argv' : i = 1 \/ argv'[i] # 0
    BY <1>1, <1>2, <2>1
  <2> QED
    BY <1>1, <2>1, <2>2, ErasedChars DEF NamesInv
<1>6. CASE UNCHANGED <<tail, argv>>
  BY <1>6 DEF NamesInv
<1>7. SkipBlank \/ Unterminated \/ ArgsDone \/ MainCalls \/ MainAsksMemory \/ Exit \/ UNCHANGED vars
      => UNCHANGED <<tail, argv>>
  BY DEF SkipBlank, Unterminated, ArgsDone, MainCalls, MainAsksMemory, Exit, vars, argsVars
<1> QED
  BY <1>3, <1>4, <1>5, <1>6, <1>7 DEF Next, Parses, ArgsNext

(* An argument is a string of the characters of a file name. *)
LEMMA ArgumentIs ==
  ASSUME ArgsInv, NamesInv, NEW i \in Arg
  PROVE  Argv[i] \in FileChars
<1>1. /\ tail \in LineChars /\ argv \in Seq(Nat) /\ \A j \in DOMAIN argv : j = 1 \/ argv[j] # 0
      /\ \A j \in DOMAIN argv : argv[j] \in 0 .. Len(tail) + 1
  BY DEF ArgsInv, ArgsTypeOK, NamesInv
<1>2. tail \in Seq(Nat) /\ Len(tail) \in Nat /\ \A j \in 1 .. Len(tail) : tail[j] \in Nat \ LineEnds
  BY <1>1 DEF LineChars
<1>3. i \in DOMAIN argv /\ i # 1
  BY <1>1 DEF Arg
<1>4. PICK p \in 1 .. Len(tail) + 1 : p = argv[i]
  BY <1>1, <1>2, <1>3
<1>5. Argv[i] = String(p)
  BY <1>3, <1>4 DEF Argv
<1> DEFINE e == NextOf(p, {0})
<1>6. e \in p .. Len(tail) + 1 /\ \A r \in p .. e - 1 : CharAt(r) \notin {0}
  BY <1>2, NextOfSome
<1>7. String(p) = SubSeq(tail, p, e - 1)
  <2>1. p # 0
    BY <1>2
  <2> QED
    BY <2>1, Zenon DEF String
<1> HIDE DEF e
<1>8. ASSUME NEW r \in p .. e - 1 PROVE tail[r] \in Nat \ EndOfName
  <2>1. r \in 1 .. Len(tail)
    BY <1>2, <1>6
  <2>2. CharAt(r) = tail[r]
    BY <1>2, <2>1 DEF CharAt
  <2> QED
    BY <1>2, <1>6, <2>1, <2>2 DEF LineEnds, EndOfName
<1>9. p \in Int /\ e - 1 \in Int
  BY <1>2, <1>6
<1> QED
  BY <1>5, <1>7, <1>8, <1>9, SubSeqProperties DEF FileChars

(* parsefn.c:22: whatever arguments a program is given, one that is a name *)
(* of the grammar is accepted and means what the grammar says, unless its  *)
(* password is not seen; and one that is accepted is a name of the grammar,*)
(* unless it is one of the three kinds Clear names.                        *)
THEOREM NamesThm == Spec => []NamesRead
<1>1. ArgsInv /\ NamesInv => NamesRead
  BY ArgumentIs, ReadingTaken, TakenRead DEF NamesRead, P
<1>2. Spec => [](ArgsInv /\ NamesInv)
  BY ProgramArgs, NamesStart, NamesStep, PTL DEF Spec
<1> QED
  BY <1>1, <1>2, PTL
=============================================================================
