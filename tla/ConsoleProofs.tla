---------------------------- MODULE ConsoleProofs ----------------------------
(***************************************************************************)
(* The console and the printer, for every script of keys, every sequence   *)
(* of calls and every size of the two buffers: TypeOK, and that nothing    *)
(* typed is lost or made up (InputKept) and nothing written is             *)
(* (OutputLined).                                                          *)
(*                                                                         *)
(* Output is followed round by round: _ttyout has printed the characters   *)
(* before "from" (PrintedTo), so a chunk comes out as it is (Printed);     *)
(* what _wrtchr has put out with what it still has in its buffer is what   *)
(* it was given so far, coded (CodedTo).  Input is followed read by read:  *)
(* the text got so far stays, and a read adds the line to it, with the     *)
(* return that ended it as a newline (Delivers).                           *)
(***************************************************************************)
EXTENDS Console, Arithmetic, SequenceTheorems

Text == Seq(Char)

LEMMA OneText == ASSUME NEW c \in Char PROVE <<c>> \in Text /\ Len(<<c>>) = 1
BY DEF Text

LEMMA NoText == <<>> \in Text /\ Len(<<>>) = 0
BY DEF Text

LEMMA LenText == ASSUME NEW s \in Text PROVE Len(s) \in Nat /\ \A i \in 1 .. Len(s) : s[i] \in Char
BY ElementOfSeq, LenProperties DEF Text

LEMMA ConcatText ==
  ASSUME NEW s \in Text, NEW t \in Text
  PROVE  /\ s \o t \in Text /\ Len(s \o t) = Len(s) + Len(t)
         /\ \A i \in 1 .. Len(s) + Len(t) : (s \o t)[i] = IF i <= Len(s) THEN s[i] ELSE t[i - Len(s)]
BY ConcatProperties DEF Text

(* A dollar sign behind a text. *)
LEMMA Terminated ==
  ASSUME NEW cp \in Text
  PROVE  /\ Append(cp, DOLLAR) \in Text /\ Len(Append(cp, DOLLAR)) = Len(cp) + 1
         /\ \A i \in 1 .. Len(cp) : Append(cp, DOLLAR)[i] = cp[i]
         /\ Append(cp, DOLLAR)[Len(cp) + 1] = DOLLAR
BY ConsoleAssumption, AppendProperties DEF Text

LEMMA BeforeDollar ==
  ASSUME NEW cp \in Text, NEW m \in 1 .. Len(cp), NEW n \in 1 .. Len(cp)
  PROVE  SubSeq(Append(cp, DOLLAR), m, n) = SubSeq(cp, m, n)
<1>1. DOLLAR \in Char /\ cp \in Seq(Char)
  BY ConsoleAssumption DEF Text
<1>2. <<DOLLAR>> \in Seq(Char) /\ Append(cp, DOLLAR) = cp \o <<DOLLAR>>
  BY <1>1, AppendIsConcat
<1> QED
  BY ONLY <1>1, <1>2, SubSeqOfConcat1, m \in 1 .. Len(cp), n \in 1 .. Len(cp)

-----------------------------------------------------------------------------
(* C_WRITESTR. *)

LEMMA WriteStrIs ==
  ASSUME NEW s \in Text, NEW i \in 1 .. Len(s), NEW j \in i .. Len(s),
         s[j] = DOLLAR, \A k \in i .. j - 1 : s[k] # DOLLAR
  PROVE  WriteStr(s, i) = SubSeq(s, i, j - 1)
<1> DEFINE Stop(m) == s[m] = DOLLAR /\ \A k \in i .. m - 1 : s[k] # DOLLAR
<1>1. Len(s) \in Nat
  BY LenText
<1>2. ASSUME NEW m \in i .. Len(s), Stop(m) PROVE m = j
  <2>1. ~(m < j) /\ ~(j < m)
    <3>1. m < j => m \in i .. j - 1
      BY <1>1
    <3>2. j < m => j \in i .. m - 1
      BY <1>1
    <3> QED
      BY <1>2, <3>1, <3>2
  <2> QED
    BY <1>1, <2>1
<1>3. (CHOOSE m \in i .. Len(s) : Stop(m)) = j
  BY <1>2
<1> QED
  BY <1>3 DEF WriteStr

(* There is always one to stop at. *)
LEMMA WriteStrText ==
  ASSUME NEW s \in Text, NEW i \in 1 .. Len(s), s[Len(s)] = DOLLAR
  PROVE  WriteStr(s, i) \in Text
<1> DEFINE A == {m \in i .. Len(s) : s[m] = DOLLAR}
<1>1. Len(s) \in Nat /\ Len(s) \in A
  BY LenText
<1>2. A \subseteq Nat /\ A # {}
  BY <1>1
<1>3. PICK j \in A : \A m \in A : j <= m
  <2> HIDE DEF A
  <2> QED
    BY <1>2, SmallestElement
<1>4. j \in i .. Len(s) /\ s[j] = DOLLAR
  OBVIOUS
<1>5. \A k \in i .. j - 1 : s[k] # DOLLAR
  <2> SUFFICES ASSUME NEW k \in i .. j - 1, s[k] = DOLLAR PROVE FALSE
    OBVIOUS
  <2>1. k \in A /\ ~(j <= k)
    BY <1>1, <1>4
  <2> QED
    BY <1>3, <2>1
<1>6. WriteStr(s, i) = SubSeq(s, i, j - 1)
  <2> HIDE DEF A
  <2> QED
    BY <1>4, <1>5, WriteStrIs
<1>7. \A m \in i .. j - 1 : s[m] \in Char
  BY <1>1, <1>4, LenText
<1>8. i \in Int /\ j - 1 \in Int
  BY <1>1, <1>4
<1> QED
  BY <1>6, <1>7, <1>8, SubSeqProperties DEF Text

-----------------------------------------------------------------------------
(* _ttyout. *)

(* A round of its loop, and the rounds of TtyOut, as in its definition. *)
Shown(s, i) == IF s[i] = DOLLAR THEN <<>> ELSE WriteStr(s, i)
Check(s, t, ii) == IF s[ii] = DOLLAR
                   THEN [out |-> Append(t.out \o Shown(s, t.from), DOLLAR), from |-> Restart(ii)]
                   ELSE t
Checking(cp) ==
  CHOOSE T : T = [ii \in 0 .. Len(cp) |->
                    IF ii = 0 THEN [out |-> <<>>, from |-> 1]
                    ELSE Check(Append(cp, DOLLAR), T[ii - 1], ii)]

LEMMA TtyOutIsChecking ==
  ASSUME NEW cp
  PROVE  TtyOut(cp) = LET t == Checking(cp)[Len(cp)]
                      IN  IF t.from = Len(cp) + 1 THEN t.out
                          ELSE t.out \o WriteStr(Append(cp, DOLLAR), t.from)
BY DEF TtyOut, Checking, Check, Shown

Place(cp) == [out : Text, from : 1 .. Len(cp) + 1]

LEMMA CheckIs ==
  ASSUME NEW cp \in Text, NEW t \in Place(cp), NEW ii \in 1 .. Len(cp)
  PROVE  Check(Append(cp, DOLLAR), t, ii) \in Place(cp)
<1> DEFINE s == Append(cp, DOLLAR)
<1>1. /\ s \in Text /\ Len(s) = Len(cp) + 1 /\ s[Len(s)] = DOLLAR
      /\ Len(cp) \in Nat /\ DOLLAR \in Char
  BY Terminated, LenText, ConsoleAssumption
<1>2. t.out \in Text /\ t.from \in 1 .. Len(s)
  BY <1>1 DEF Place
<1>3. Shown(s, t.from) \in Text
  <2> HIDE DEF s
  <2> QED
    BY <1>1, <1>2, WriteStrText, NoText DEF Shown
<1>4. Append(t.out \o Shown(s, t.from), DOLLAR) \in Text
  BY <1>1, <1>2, <1>3, ConcatProperties, AppendProperties DEF Text
<1>5. Restart(ii) \in 1 .. Len(cp) + 1
  BY <1>1 DEF Restart
<1> QED
  BY <1>4, <1>5 DEF Check, Place

LEMMA CheckingIs ==
  ASSUME NEW cp \in Text
  PROVE  /\ Checking(cp)[0] = [out |-> <<>>, from |-> 1]
         /\ \A ii \in 1 .. Len(cp) :
              Checking(cp)[ii] = Check(Append(cp, DOLLAR), Checking(cp)[ii - 1], ii)
<1> DEFINE b == [out |-> <<>>, from |-> 1]
           s == Append(cp, DOLLAR)
           X == Place(cp)
           N == Len(cp)
           G == [p \in X \X (1 .. N) |-> Check(s, p[1], p[2])]
<1>1. N \in Nat
  BY LenText
<1>2. b \in X
  BY <1>1, NoText DEF Place
<1>3. G \in [X \X (1 .. N) -> X]
  BY CheckIs
<1>4. \A t \in X : \A ii \in 1 .. N : G[<<t, ii>>] = Check(s, t, ii)
  OBVIOUS
<1> HIDE DEF b, G, X
<1>5. PICK f : Steps(f, X, b, N, G)
  BY <1>1, <1>2, <1>3, SomeSteps
<1>6. f = [ii \in 0 .. N |-> f[ii]] /\ \A ii \in 0 .. N : f[ii] \in X
  BY <1>5 DEF Steps
<1>7. ASSUME NEW ii \in 0 .. N PROVE f[ii] = IF ii = 0 THEN b ELSE Check(s, f[ii - 1], ii)
  <2>1. ii # 0 => ii \in 1 .. N /\ ii - 1 \in 0 .. N
    BY <1>1
  <2> QED
    BY <1>4, <1>5, <1>6, <2>1 DEF Steps
<1>8. f = [ii \in 0 .. N |-> IF ii = 0 THEN b ELSE Check(s, f[ii - 1], ii)]
  BY <1>6, <1>7
<1>9. Checking(cp) = [ii \in 0 .. N |-> IF ii = 0 THEN b ELSE Check(s, Checking(cp)[ii - 1], ii)]
  BY <1>8 DEF Checking, b
<1>10. PICK T : T = Checking(cp)
  OBVIOUS
<1>11. T = [ii \in 0 .. N |-> IF ii = 0 THEN b ELSE Check(s, T[ii - 1], ii)]
  BY <1>9, <1>10
<1>12. T[0] = b /\ \A ii \in 1 .. N : T[ii] = Check(s, T[ii - 1], ii)
  BY <1>1, <1>11
<1> QED
  BY <1>10, <1>12 DEF b

(* It has printed what lies before from; there is no dollar sign behind it *)
(* up to ii.                                                               *)
PrintedTo(cp, t, ii) ==
  /\ t.from \in 1 .. ii + 1
  /\ t.out = SubSeq(cp, 1, t.from - 1)
  /\ \A k \in t.from .. ii : cp[k] # DOLLAR

LEMMA CheckStep ==
  ASSUME NEW cp \in Text, NEW ii \in 1 .. Len(cp), NEW t, PrintedTo(cp, t, ii - 1)
  PROVE  PrintedTo(cp, Check(Append(cp, DOLLAR), t, ii), ii)
<1> DEFINE s == Append(cp, DOLLAR)
           a == t.from
<1>1. /\ s \in Text /\ Len(s) = Len(cp) + 1 /\ \A k \in 1 .. Len(cp) : s[k] = cp[k]
      /\ Len(cp) \in Nat /\ DOLLAR \in Char
  BY Terminated, LenText, ConsoleAssumption
<1>2. /\ a \in 1 .. ii /\ t.out = SubSeq(cp, 1, a - 1)
      /\ \A k \in a .. ii - 1 : cp[k] # DOLLAR
  BY <1>1 DEF PrintedTo
<1>3. CASE s[ii] # DOLLAR
  <2>1. \A k \in a .. ii : cp[k] # DOLLAR
    <3> SUFFICES ASSUME NEW k \in a .. ii PROVE cp[k] # DOLLAR
      OBVIOUS
    <3>1. k = ii \/ k \in a .. ii - 1
      BY <1>2
    <3> QED
      BY <1>1, <1>2, <1>3, <3>1
  <2> QED
    BY <1>2, <1>3, <2>1 DEF Check, PrintedTo
<1>4. CASE s[ii] = DOLLAR
  <2>1. Shown(s, a) = SubSeq(cp, a, ii - 1)
    <3>1. CASE a = ii
      <4>1. SubSeq(cp, a, ii - 1) = <<>>
        BY <3>1, SubSeqEmpty
      <4> QED
        BY <1>4, <3>1, <4>1 DEF Shown
    <3>2. CASE a # ii
      <4>1. /\ a \in 1 .. Len(cp) /\ ii - 1 \in 1 .. Len(cp) /\ a \in a .. ii - 1
            /\ a \in 1 .. Len(s) /\ ii \in a .. Len(s)
        BY <1>1, <1>2, <3>2
      <4>2. s[a] # DOLLAR /\ \A k \in a .. ii - 1 : s[k] # DOLLAR
        <5>1. \A k \in a .. ii - 1 : k \in 1 .. Len(cp)
          BY <1>1, <1>2
        <5> QED
          BY <1>1, <1>2, <4>1, <5>1
      <4>3. WriteStr(s, a) = SubSeq(s, a, ii - 1)
        BY <1>1, <1>4, <4>1, <4>2, WriteStrIs
      <4>4. SubSeq(s, a, ii - 1) = SubSeq(cp, a, ii - 1)
        BY <4>1, BeforeDollar
      <4> QED
        BY <4>2, <4>3, <4>4 DEF Shown
    <3> QED
      BY <3>1, <3>2
  <2>2. t.out \o Shown(s, a) = SubSeq(cp, 1, ii - 1)
    <3>1. /\ 1 \in 1 .. Len(cp) + 1 /\ a - 1 \in 1 - 1 .. Len(cp) /\ ii - 1 \in a - 1 .. Len(cp)
          /\ (a - 1) + 1 = a
      BY <1>1, <1>2
    <3>2. SubSeq(cp, 1, a - 1) \o SubSeq(cp, (a - 1) + 1, ii - 1) = SubSeq(cp, 1, ii - 1)
      BY <3>1, ConcatAdjacentSubSeq DEF Text
    <3> QED
      BY <1>2, <2>1, <3>1, <3>2
  <2>3. Append(SubSeq(cp, 1, ii - 1), DOLLAR) = SubSeq(cp, 1, ii)
    <3>1. 1 \in 1 .. Len(cp) /\ ii \in 1 .. Len(cp) /\ cp[ii] = DOLLAR
      BY <1>1, <1>4
    <3>2. SubSeq(cp, 1, ii) = SubSeq(cp, 1, ii - 1) \o <<DOLLAR>>
      BY <3>1, SubSeqRecursiveSecond DEF Text
    <3>3. SubSeq(cp, 1, ii - 1) \in Seq(Char)
      <4>1. \A k \in 1 .. ii - 1 : cp[k] \in Char
        BY <1>1, LenText
      <4> QED
        BY <1>1, <4>1, SubSeqProperties
    <3> QED
      BY <1>1, <3>2, <3>3, AppendIsConcat
  <2>4. Check(s, t, ii) = [out |-> SubSeq(cp, 1, ii), from |-> ii + 1]
    BY <1>4, <2>2, <2>3 DEF Check, Restart
  <2>5. /\ ii + 1 \in 1 .. ii + 1 /\ (ii + 1) - 1 = ii
        /\ \A k \in ii + 1 .. ii : cp[k] # DOLLAR
    BY <1>1
  <2> QED
    BY <2>4, <2>5 DEF PrintedTo
<1> QED
  BY <1>3, <1>4

(* _ttyout puts out what it is given, whatever the dollar signs. *)
LEMMA Printed ==
  ASSUME NEW cp \in Text
  PROVE  TtyOut(cp) = cp
<1> DEFINE N == Len(cp)
           s == Append(cp, DOLLAR)
           T == Checking(cp)
           S == {m \in Nat : PrintedTo(cp, T[m], m)}
<1>1. /\ N \in Nat /\ s \in Text /\ Len(s) = N + 1 /\ \A k \in 1 .. N : s[k] = cp[k]
      /\ s[N + 1] = DOLLAR /\ DOLLAR \in Char
  BY Terminated, LenText, ConsoleAssumption
<1>2. 0 \in S
  <2>1. T[0].out = <<>> /\ T[0].from = 1
    BY CheckingIs
  <2>2. SubSeq(cp, 1, 1 - 1) = <<>> /\ 1 \in 1 .. 0 + 1 /\ 1 .. 0 = {}
    BY SubSeqEmpty
  <2> HIDE DEF T
  <2>3. PrintedTo(cp, T[0], 0)
    BY <2>1, <2>2 DEF PrintedTo
  <2> QED
    BY <2>3
<1>3. ASSUME NEW m \in 0 .. N - 1, m \in S PROVE m + 1 \in S
  <2>1. m + 1 \in 1 .. N /\ (m + 1) - 1 = m
    BY <1>1
  <2>2. T[m + 1] = Check(s, T[m], m + 1)
    BY <2>1, CheckingIs
  <2>3. PrintedTo(cp, T[m], (m + 1) - 1)
    BY <1>3, <2>1
  <2>4. PrintedTo(cp, T[m + 1], m + 1)
    <3> HIDE DEF T, s
    <3> QED
      BY <2>1, <2>2, <2>3, CheckStep DEF s
  <2> QED
    BY <2>1, <2>4
<1>4. N \in S
  <2>1. \A m \in 0 .. N : m \in S
    <3> HIDE DEF S
    <3> QED
      BY <1>1, <1>2, <1>3, UpTo
  <2> QED
    BY <1>1, <2>1
<1>5. PICK t : t = T[N]
  OBVIOUS
<1>6. /\ t.from \in 1 .. N + 1 /\ t.out = SubSeq(cp, 1, t.from - 1)
      /\ \A k \in t.from .. N : cp[k] # DOLLAR
  BY <1>4, <1>5 DEF PrintedTo
<1>7. TtyOut(cp) = IF t.from = N + 1 THEN t.out ELSE t.out \o WriteStr(s, t.from)
  BY <1>5, TtyOutIsChecking
<1>8. SubSeq(cp, 1, N) = cp
  BY SubSeqFull DEF Text
<1>9. CASE t.from = N + 1
  <2>1. (N + 1) - 1 = N
    BY <1>1
  <2> QED
    BY <1>6, <1>7, <1>8, <1>9, <2>1
<1>10. CASE t.from # N + 1
  <2> DEFINE a == t.from
  <2>1. /\ a \in 1 .. N /\ N \in 1 .. N /\ a \in 1 .. Len(s) /\ N + 1 \in a .. Len(s)
        /\ (N + 1) - 1 = N /\ (a - 1) + 1 = a
        /\ 1 \in 1 .. N + 1 /\ a - 1 \in 1 - 1 .. N /\ N \in a - 1 .. N
    BY <1>1, <1>6, <1>10
  <2>2. \A k \in a .. (N + 1) - 1 : s[k] # DOLLAR
    <3>1. \A k \in a .. (N + 1) - 1 : k \in a .. N /\ k \in 1 .. N
      BY <1>1, <2>1
    <3> QED
      BY <1>1, <1>6, <3>1
  <2>3. WriteStr(s, a) = SubSeq(s, a, N)
    BY <1>1, <2>1, <2>2, WriteStrIs
  <2>4. SubSeq(s, a, N) = SubSeq(cp, a, N)
    BY <2>1, BeforeDollar
  <2>5. SubSeq(cp, 1, a - 1) \o SubSeq(cp, (a - 1) + 1, N) = SubSeq(cp, 1, N)
    BY <2>1, ConcatAdjacentSubSeq DEF Text
  <2> QED
    BY <1>6, <1>7, <1>8, <1>10, <2>1, <2>3, <2>4, <2>5
<1> QED
  BY <1>9, <1>10

(* So does _lstout. *)
LEMMA FnOutIs ==
  ASSUME NEW ch, NEW cp \in Text
  PROVE  FnOut(ch, cp) = cp
BY Printed DEF FnOut

-----------------------------------------------------------------------------
(* _wrtchr. *)

(* What is in its buffer and what it has put out: a chunk of at most 127   *)
(* characters, behind the byte that counts them.                           *)
Buffers == {w \in [cp : Text, out : Text] : Len(w.cp) <= SECSIZ - 1}

Sofar(w) == w.out \o w.cp

LEMMA CodedIs ==
  ASSUME NEW c \in Char
  PROVE  Coded(c) \in Text /\ Len(Coded(c)) \in 1 .. 2
<1>1. <<CR, LF>> \in Text /\ Len(<<CR, LF>>) = 2
  BY ConsoleAssumption DEF Text
<1> QED
  BY <1>1, OneText DEF Coded

LEMMA PutOutIs ==
  ASSUME NEW ch, NEW w \in Buffers
  PROVE  /\ PutOut(w, ch) \in Buffers /\ Sofar(PutOut(w, ch)) = Sofar(w)
         /\ PutOut(w, ch).cp = <<>> /\ PutOut(w, ch).out = Sofar(w)
<1>1. w.cp \in Text /\ w.out \in Text
  BY DEF Buffers
<1>2. PutOut(w, ch) = [cp |-> <<>>, out |-> w.out \o w.cp]
  BY <1>1, FnOutIs DEF PutOut
<1>3. w.out \o w.cp \in Text
  BY <1>1, ConcatProperties DEF Text
<1>4. (w.out \o w.cp) \o <<>> = w.out \o w.cp
  BY <1>3, ConcatEmptySeq DEF Text
<1>5. 0 <= SECSIZ - 1
  BY ConsoleAssumption
<1> QED
  BY <1>2, <1>3, <1>4, <1>5, NoText DEF Sofar, Buffers

(* A character more. *)
LEMMA PutIs ==
  ASSUME NEW ch, NEW w \in Buffers, NEW c \in Char
  PROVE  Put(w, c, ch) \in Buffers /\ Sofar(Put(w, c, ch)) = Sofar(w) \o Coded(c)
<1>1. Coded(c) \in Text /\ Len(Coded(c)) \in 1 .. 2 /\ SECSIZ \in Nat /\ SECSIZ >= 3
  BY CodedIs, ConsoleAssumption
<1>2. PICK v : v = IF Len(w.cp) + Len(Coded(c)) <= SECSIZ - 1 THEN w ELSE PutOut(w, ch)
  OBVIOUS
<1>3. /\ v \in Buffers /\ Sofar(v) = Sofar(w)
      /\ Len(v.cp) + Len(Coded(c)) <= SECSIZ - 1
  <2>1. CASE Len(w.cp) + Len(Coded(c)) <= SECSIZ - 1
    BY <1>2, <2>1
  <2>2. CASE ~(Len(w.cp) + Len(Coded(c)) <= SECSIZ - 1)
    <3>1. v \in Buffers /\ Sofar(v) = Sofar(w) /\ v.cp = <<>>
      BY <1>2, <2>2, PutOutIs
    <3>2. Len(v.cp) = 0
      BY <3>1, NoText
    <3>3. 0 + Len(Coded(c)) <= SECSIZ - 1
      <4>1. PICK m \in 1 .. 2 : m = Len(Coded(c))
        BY <1>1
      <4> QED
        BY <1>1, <4>1
    <3> QED
      BY <3>1, <3>2, <3>3
  <2> QED
    BY <2>1, <2>2
<1>4. PICK cp, out, more : cp = v.cp /\ out = v.out /\ more = Coded(c)
  OBVIOUS
<1>5. cp \in Seq(Char) /\ out \in Seq(Char) /\ more \in Seq(Char) /\ v = [cp |-> cp, out |-> out]
  BY <1>1, <1>3, <1>4 DEF Buffers, Text
<1>6. Put(w, c, ch) = [cp |-> cp \o more, out |-> out]
  <2>1. Put(w, c, ch) = [v EXCEPT !.cp = v.cp \o Coded(c)]
    BY <1>2 DEF Put
  <2> QED
    BY <1>4, <1>5, <2>1
<1>7. cp \o more \in Seq(Char) /\ Len(cp \o more) = Len(cp) + Len(more)
  BY <1>5, ConcatProperties
<1>8. out \o (cp \o more) = (out \o cp) \o more
  BY <1>5, ConcatAssociative
<1>9. [cp |-> cp \o more, out |-> out] \in Buffers
  BY <1>3, <1>4, <1>5, <1>7 DEF Buffers, Text
<1>10. Sofar([cp |-> cp \o more, out |-> out]) = Sofar(w) \o more
  BY <1>3, <1>4, <1>8 DEF Sofar
<1> QED
  BY <1>4, <1>6, <1>9, <1>10

(* How much of a text _wrtchr counts, and its rounds, as in its definition. *)
Counted(data) == Len(data) % UWord

Buffering(ch, data, n) ==
  CHOOSE W : W = [k \in 0 .. n |->
                    IF k = 0 THEN [cp |-> <<>>, out |-> <<>>] ELSE Put(W[k - 1], data[k], ch)]

LEMMA WrtChrIsBuffering ==
  ASSUME NEW ch, NEW data
  PROVE  WrtChr(ch, data) = PutOut(Buffering(ch, data, Counted(data))[Counted(data)], ch)
BY DEF WrtChr, Buffering, Counted

LEMMA BufferingIs ==
  ASSUME NEW ch, NEW data \in Text, NEW N \in 0 .. Len(data)
  PROVE  /\ Buffering(ch, data, N)[0] = [cp |-> <<>>, out |-> <<>>]
         /\ [cp |-> <<>>, out |-> <<>>] \in Buffers
         /\ \A k \in 1 .. N :
              Buffering(ch, data, N)[k] = Put(Buffering(ch, data, N)[k - 1], data[k], ch)
<1> DEFINE b == [cp |-> <<>>, out |-> <<>>]
           G == [p \in Buffers \X (1 .. N) |-> Put(p[1], data[p[2]], ch)]
<1>1. N \in Nat /\ \A k \in 1 .. N : data[k] \in Char
  BY LenText
<1>2. b \in Buffers
  <2>1. 0 <= SECSIZ - 1
    BY ConsoleAssumption
  <2> QED
    BY <2>1, NoText DEF Buffers
<1>3. G \in [Buffers \X (1 .. N) -> Buffers]
  BY <1>1, PutIs
<1>4. \A w \in Buffers : \A k \in 1 .. N : G[<<w, k>>] = Put(w, data[k], ch)
  OBVIOUS
<1> HIDE DEF b, G
<1>5. PICK f : Steps(f, Buffers, b, N, G)
  BY <1>1, <1>2, <1>3, SomeSteps
<1>6. f = [k \in 0 .. N |-> f[k]] /\ \A k \in 0 .. N : f[k] \in Buffers
  BY <1>5 DEF Steps
<1>7. ASSUME NEW k \in 0 .. N PROVE f[k] = IF k = 0 THEN b ELSE Put(f[k - 1], data[k], ch)
  <2>1. k # 0 => k \in 1 .. N /\ k - 1 \in 0 .. N
    BY <1>1
  <2> QED
    BY <1>4, <1>5, <1>6, <2>1 DEF Steps
<1>8. f = [k \in 0 .. N |-> IF k = 0 THEN b ELSE Put(f[k - 1], data[k], ch)]
  BY <1>6, <1>7
<1>9. Buffering(ch, data, N) =
        [k \in 0 .. N |-> IF k = 0 THEN b ELSE Put(Buffering(ch, data, N)[k - 1], data[k], ch)]
  BY <1>8 DEF Buffering, b
<1>10. PICK W : W = Buffering(ch, data, N)
  OBVIOUS
<1>11. W = [k \in 0 .. N |-> IF k = 0 THEN b ELSE Put(W[k - 1], data[k], ch)]
  BY <1>9, <1>10
<1>12. W[0] = b /\ \A k \in 1 .. N : W[k] = Put(W[k - 1], data[k], ch)
  BY <1>1, <1>11
<1> QED
  BY <1>2, <1>10, <1>12 DEF b

-----------------------------------------------------------------------------
(* What is given to _wrtchr, coded. *)

Codes(data, n) == [i \in 1 .. n |-> Coded(data[i])]

(* The rounds of FlattenSeq, as in its definition. *)
Flattening(seqs) ==
  CHOOSE F : F = [i \in 1 .. Len(seqs) |->
                    IF i = 1 THEN seqs[i] ELSE F[i - 1] \o seqs[i]]

LEMMA FlattenSeqIsFlattening ==
  ASSUME NEW seqs
  PROVE  FlattenSeq(seqs) = IF Len(seqs) = 0 THEN seqs ELSE Flattening(seqs)[Len(seqs)]
BY DEF FlattenSeq, Flattening

LEMMA FlatteningIs ==
  ASSUME NEW seqs \in Seq(Text), Len(seqs) # 0
  PROVE  /\ Flattening(seqs)[1] = seqs[1]
         /\ \A i \in 2 .. Len(seqs) : Flattening(seqs)[i] = Flattening(seqs)[i - 1] \o seqs[i]
<1> DEFINE N == Len(seqs)
           G == [p \in Text \X (1 .. N) |-> p[1] \o seqs[p[2]]]
<1>1. N \in Nat \ {0} /\ \A i \in 1 .. N : seqs[i] \in Text
  BY LenProperties, ElementOfSeq
<1>2. \A s, t \in Text : s \o t \in Text
  BY ConcatProperties DEF Text
<1>3. G \in [Text \X (1 .. N) -> Text]
  BY <1>1, <1>2
<1>4. \A s \in Text : \A i \in 1 .. N : G[<<s, i>>] = s \o seqs[i]
  OBVIOUS
<1> HIDE DEF G
<1>5. PICK f : Steps(f, Text, <<>>, N, G)
  BY <1>1, <1>3, NoText, SomeSteps
<1>6. /\ \A i \in 0 .. N : f[i] \in Text
      /\ f[0] = <<>> /\ \A i \in 1 .. N : f[i] = f[i - 1] \o seqs[i]
  <2>1. \A i \in 0 .. N : f[i] \in Text
    BY <1>5 DEF Steps
  <2>2. ASSUME NEW i \in 1 .. N PROVE f[i] = f[i - 1] \o seqs[i]
    <3>1. i - 1 \in 0 .. N
      BY <1>1
    <3> QED
      BY <1>4, <1>5, <2>1, <3>1 DEF Steps
  <2> QED
    BY <1>5, <2>1, <2>2 DEF Steps
<1>7. f[1] = seqs[1]
  <2>1. 1 \in 1 .. N /\ 1 - 1 = 0 /\ seqs[1] \in Seq(Char)
    BY <1>1 DEF Text
  <2>2. f[1] = <<>> \o seqs[1]
    BY <1>6, <2>1
  <2> QED
    BY <2>1, <2>2, ConcatEmptySeq
<1> DEFINE h == [i \in 1 .. N |-> f[i]]
<1>8. ASSUME NEW i \in 1 .. N PROVE h[i] = IF i = 1 THEN seqs[i] ELSE h[i - 1] \o seqs[i]
  <2>1. CASE i = 1
    BY <1>7, <2>1
  <2>2. CASE i # 1
    <3>1. i - 1 \in 1 .. N
      BY <1>1, <2>2
    <3> QED
      BY <1>6, <2>2, <3>1
  <2> QED
    BY <2>1, <2>2
<1>9. h = [i \in 1 .. N |-> IF i = 1 THEN seqs[i] ELSE h[i - 1] \o seqs[i]]
  <2>1. h = [i \in 1 .. N |-> h[i]]
    OBVIOUS
  <2> HIDE DEF h
  <2> QED
    BY <1>8, <2>1
<1>10. Flattening(seqs) = [i \in 1 .. N |-> IF i = 1 THEN seqs[i]
                                            ELSE Flattening(seqs)[i - 1] \o seqs[i]]
  <2> HIDE DEF h
  <2> QED
    BY <1>9 DEF Flattening
<1>11. PICK F : F = Flattening(seqs)
  OBVIOUS
<1>12. F = [i \in 1 .. N |-> IF i = 1 THEN seqs[i] ELSE F[i - 1] \o seqs[i]]
  BY <1>10, <1>11
<1>13. F[1] = seqs[1]
  BY <1>1, <1>12
<1>14. ASSUME NEW i \in 2 .. N PROVE F[i] = F[i - 1] \o seqs[i]
  <2>1. i \in 1 .. N /\ i # 1
    BY <1>1
  <2> QED
    BY <1>12, <2>1
<1> QED
  BY <1>11, <1>13, <1>14

(* The first k characters have been put out or are in the buffer.         *)
CodedTo(W, F, k) == /\ W[k] \in Buffers
                    /\ Sofar(W[k]) = IF k = 0 THEN <<>> ELSE F[k]

(* What is counted is no more than there is. *)
LEMMA CountedIs ==
  ASSUME NEW data \in Text
  PROVE  Counted(data) \in 0 .. Len(data)
<1>1. Len(data) \in Nat /\ UWord \in Nat \ {0}
  BY LenText, ConsoleAssumption
<1>2. Counted(data) \in 0 .. UWord - 1
  BY <1>1, Division DEF Counted
<1>3. CASE Len(data) < UWord
  <2>1. Len(data) \in 0 .. UWord - 1 /\ Len(data) = (UWord * 0) + Len(data) /\ 0 \in Int
    BY <1>1, <1>3
  <2>2. Len(data) % UWord = Len(data)
    BY ONLY <1>1, <2>1, Quotient
  <2> QED
    BY <1>1, <2>2 DEF Counted
<1> QED
  BY <1>1, <1>2, <1>3

LEMMA WrtChrIs ==
  ASSUME NEW ch, NEW data \in Text
  PROVE  WrtChr(ch, data).out = FlattenSeq(Codes(data, Counted(data)))
<1> DEFINE N == Counted(data)
           W == Buffering(ch, data, N)
           F == Flattening(Codes(data, N))
           S == {k \in Nat : CodedTo(W, F, k)}
<1>1. N \in 0 .. Len(data) /\ N \in Nat /\ \A k \in 1 .. N : data[k] \in Char
  <2>1. Len(data) \in Nat /\ \A k \in 1 .. Len(data) : data[k] \in Char
    BY LenText
  <2>2. N \in 0 .. Len(data)
    BY <2>1, CountedIs
  <2> QED
    BY <2>1, <2>2
<1>3. /\ Codes(data, N) \in Seq(Text) /\ Len(Codes(data, N)) = N
      /\ \A k \in 1 .. N : Codes(data, N)[k] = Coded(data[k]) /\ Coded(data[k]) \in Text
  <2>1. \A k \in 1 .. N : Coded(data[k]) \in Text
    BY <1>1, CodedIs
  <2>2. Codes(data, N) \in [1 .. N -> Text]
    BY <2>1 DEF Codes
  <2> QED
    BY <1>1, <2>1, <2>2 DEF Codes
<1>4. 0 \in S
  <2>1. W[0] = [cp |-> <<>>, out |-> <<>>] /\ W[0] \in Buffers
    BY <1>1, BufferingIs
  <2>2. <<>> \o <<>> = <<>>
    BY NoText, ConcatEmptySeq DEF Text
  <2> HIDE DEF W, F
  <2>3. CodedTo(W, F, 0)
    BY <2>1, <2>2 DEF CodedTo, Sofar
  <2> QED
    BY <2>3
<1>5. ASSUME NEW k \in 0 .. N - 1, k \in S PROVE k + 1 \in S
  <2>1. k + 1 \in 1 .. N /\ (k + 1) - 1 = k /\ data[k + 1] \in Char /\ k + 1 # 0
    BY <1>1
  <2>2. W[k + 1] = Put(W[k], data[k + 1], ch)
    BY <1>1, <2>1, BufferingIs
  <2>3. CodedTo(W, F, k)
    BY <1>5
  <2>4. k # 0 => F[k + 1] = F[k] \o Coded(data[k + 1])
    <3>1. k # 0 => k + 1 \in 2 .. N /\ N # 0
      BY <1>1
    <3> QED
      BY <1>3, <2>1, <3>1, FlatteningIs
  <2>5. k = 0 => F[k + 1] = Coded(data[k + 1])
    <3>1. N # 0 /\ 1 \in 1 .. N
      BY <1>1, <2>1
    <3>2. F[1] = Codes(data, N)[1] /\ Codes(data, N)[1] = Coded(data[1])
      BY <1>3, <3>1, FlatteningIs
    <3>3. k = 0 => k + 1 = 1
      OBVIOUS
    <3> HIDE DEF F
    <3> QED
      BY <3>2, <3>3
  <2> HIDE DEF W, F
  <2>6. W[k + 1] \in Buffers /\ Sofar(W[k + 1]) = Sofar(W[k]) \o Coded(data[k + 1])
    <3>1. PICK w : w = W[k]
      OBVIOUS
    <3>2. w \in Buffers
      BY <2>3, <3>1 DEF CodedTo
    <3>3. /\ Put(w, data[k + 1], ch) \in Buffers
          /\ Sofar(Put(w, data[k + 1], ch)) = Sofar(w) \o Coded(data[k + 1])
      BY <2>1, <3>2, PutIs
    <3> QED
      BY <2>2, <3>1, <3>3
  <2>7. k = 0 => Sofar(W[k]) \o Coded(data[k + 1]) = Coded(data[k + 1])
    <3>1. k = 0 => Sofar(W[k]) = <<>>
      BY <2>3 DEF CodedTo
    <3>2. Coded(data[k + 1]) \in Seq(Char)
      BY <1>3, <2>1 DEF Text
    <3> QED
      BY <3>1, <3>2, ConcatEmptySeq
  <2>8. k # 0 => Sofar(W[k]) = F[k]
    BY <2>3 DEF CodedTo
  <2>9. Sofar(W[k + 1]) = F[k + 1]
    BY <2>4, <2>5, <2>6, <2>7, <2>8
  <2>10. CodedTo(W, F, k + 1)
    BY <2>1, <2>6, <2>9 DEF CodedTo
  <2> QED
    BY <2>1, <2>10
<1>6. N \in S
  <2>1. \A k \in 0 .. N : k \in S
    <3> HIDE DEF S
    <3> QED
      BY <1>1, <1>4, <1>5, UpTo
  <2> QED
    BY <1>1, <2>1
<1>7. WrtChr(ch, data).out = Sofar(W[N])
  <2>1. W[N] \in Buffers
    BY <1>6 DEF CodedTo
  <2> HIDE DEF W
  <2> QED
    BY <2>1, PutOutIs, WrtChrIsBuffering DEF W
<1>8. Sofar(W[N]) = IF N = 0 THEN <<>> ELSE F[N]
  BY <1>6 DEF CodedTo
<1>9. N = 0 => Codes(data, N) = <<>>
  BY <1>3, EmptySeq
<1>10. FlattenSeq(Codes(data, N)) = IF N = 0 THEN Codes(data, N) ELSE F[N]
  BY <1>3, FlattenSeqIsFlattening
<1> QED
  BY <1>7, <1>8, <1>9, <1>10

-----------------------------------------------------------------------------
(* A line from the keyboard. *)

LEMMA FirstIs ==
  ASSUME keys \in Text, NEW k \in 0 .. Len(keys)
  PROVE  /\ First(k) \in Text /\ Len(First(k)) = k
         /\ \A i \in 1 .. k : First(k)[i] = keys[i]
<1>1. Len(keys) \in Nat /\ k \in Nat /\ \A i \in 1 .. k : keys[i] \in Char
  BY LenText
<1>2. /\ SubSeq(keys, 1, k) \in Seq(Char)
      /\ Len(SubSeq(keys, 1, k)) = IF 1 <= k THEN (k - 1) + 1 ELSE 0
      /\ \A i \in 1 .. (k - 1) + 1 : SubSeq(keys, 1, k)[i] = keys[(1 + i) - 1]
  BY <1>1, SubSeqProperties
<1> QED
  BY <1>1, <1>2 DEF First, Text

(* How BDOS ends a line: with its return, or because it is long enough.   *)
LEMMA LineIs ==
  ASSUME keys \in Text, NEW n \in Nat \ {0}, NEW taken \in 0 .. Len(keys), NEW k \in 0 .. Len(keys),
         Line(n, k, taken)
  PROVE  /\ Nbs(n) \in 1 .. n /\ k \in 0 .. Nbs(n)
         /\ \A i \in 1 .. k : keys[i] # CR
         /\ k < Nbs(n) => taken = k + 1 /\ keys[taken] = CR
         /\ k = Nbs(n) => taken = k
<1>1. Nbs(n) \in 1 .. n
  BY ConsoleAssumption DEF Nbs
<1>2. CASE Nbs(n) = 1
  <2>1. taken = 1 /\ k = IF keys[1] = CR THEN 0 ELSE 1
    BY <1>2 DEF Line
  <2>2. CASE keys[1] = CR
    BY <1>1, <1>2, <2>1, <2>2
  <2>3. CASE keys[1] # CR
    BY <1>1, <1>2, <2>1, <2>3
  <2> QED
    BY <2>2, <2>3
<1>3. CASE Nbs(n) # 1
  <2>1. Conbuf(Nbs(n), k, taken)
    BY <1>3 DEF Line
  <2>2. /\ k \in 0 .. Nbs(n)
        /\ taken = (IF k < Nbs(n) THEN k + 1 ELSE k)
        /\ NoReturn(First(k))
        /\ k < Nbs(n) => keys[taken] = CR
    BY <2>1 DEF Conbuf
  <2>3. DOMAIN First(k) = 1 .. k
    BY FirstIs, LenProperties DEF Text
  <2>4. \A i \in 1 .. k : keys[i] # CR
    BY <2>2, <2>3, FirstIs DEF NoReturn
  <2> QED
    BY <1>1, <2>2, <2>4
<1> QED
  BY <1>2, <1>3

LEMMA EofAtIs ==
  ASSUME NEW s \in Text
  PROVE  EofAt(s) = {i \in 1 .. Len(s) : s[i] = EOFCHAR}
BY LenProperties DEF EofAt, Text

(* What a program can be given. *)
Readable == Char \ {CR, EOFCHAR}

LEMMA UpToEofIs ==
  ASSUME NEW line \in Text, \A i \in 1 .. Len(line) : line[i] # CR
  PROVE  /\ UpToEof(line) \in Seq(Readable)
         /\ EofAt(line) = {} => UpToEof(line) = line
<1> DEFINE A == EofAt(line)
<1>1. /\ Len(line) \in Nat /\ \A i \in 1 .. Len(line) : line[i] \in Char
      /\ A = {i \in 1 .. Len(line) : line[i] = EOFCHAR}
  BY LenText, EofAtIs
<1>2. CASE A = {}
  <2>1. \A i \in 1 .. Len(line) : line[i] \in Readable
    BY <1>1, <1>2 DEF Readable
  <2>2. line \in [1 .. Len(line) -> Readable]
    BY <2>1, LenProperties DEF Text
  <2>3. line \in Seq(Readable)
    BY <1>1, <2>2
  <2> QED
    BY <1>2, <2>3 DEF UpToEof
<1>3. CASE A # {}
  <2>1. A \subseteq Nat
    BY <1>1
  <2>2. \E i \in A : \A j \in A : i <= j
    <3> HIDE DEF A
    <3> QED
      BY <1>3, <2>1, SmallestElement
  <2>3. PICK e : e = CHOOSE i \in A : \A j \in A : i <= j
    OBVIOUS
  <2>4. e \in A /\ \A j \in A : e <= j
    <3> HIDE DEF A
    <3> QED
      BY <2>2, <2>3
  <2>5. UpToEof(line) = SubSeq(line, 1, e - 1)
    BY <1>3, <2>3 DEF UpToEof
  <2>6. e \in 1 .. Len(line) /\ 1 \in Int /\ e - 1 \in Int
    BY <1>1, <2>4
  <2>7. ASSUME NEW i \in 1 .. e - 1 PROVE line[i] \in Readable
    <3>1. i \in 1 .. Len(line) /\ ~(e <= i)
      BY <1>1, <2>6
    <3>2. i \notin A
      BY <2>4, <3>1
    <3>3. line[i] # EOFCHAR
      BY <1>1, <3>1, <3>2
    <3> QED
      BY <1>1, <3>1, <3>3 DEF Readable
  <2>8. SubSeq(line, 1, e - 1) \in Seq(Readable)
    BY <2>6, <2>7, SubSeqProperties
  <2> QED
    BY <1>3, <2>5, <2>8
<1> QED
  BY <1>2, <1>3

LEMMA DeliveredIs ==
  ASSUME NEW n, NEW line \in Text, \A i \in 1 .. Len(line) : line[i] # CR
  PROVE  /\ Delivered(n, line) \in Seq(Readable)
         /\ EofAt(line) = {} => Delivered(n, line) = IF Len(line) < n THEN Append(line, LF) ELSE line
<1>1. UpToEof(line) \in Seq(Readable) /\ (EofAt(line) = {} => UpToEof(line) = line)
  BY UpToEofIs
<1>2. LF \in Readable
  BY ConsoleAssumption DEF Readable
<1>3. Append(UpToEof(line), LF) \in Seq(Readable)
  BY <1>1, <1>2, AppendProperties
<1> QED
  BY <1>1, <1>3 DEF Delivered, NewlineDue

-----------------------------------------------------------------------------
(* What has been read, without the newlines that were plugged in. *)

(* The rounds of Unplugged, as in its definition. *)
Kept(g, p) ==
  CHOOSE U : U = [i \in 0 .. Len(g) |->
                    IF i = 0 THEN <<>> ELSE
                    IF i \in p THEN U[i - 1] ELSE Append(U[i - 1], g[i])]

LEMMA UnpluggedIsKept == Unplugged = Kept(got, plugged)[Len(got)]
BY DEF Unplugged, Kept

LEMMA UnpluggedIsKeptThen == Unplugged' = Kept(got', plugged')[Len(got')]
BY DEF Unplugged, Kept

LEMMA KeptIs ==
  ASSUME NEW g \in Text, NEW p
  PROVE  /\ Kept(g, p)[0] = <<>>
         /\ \A i \in 1 .. Len(g) : Kept(g, p)[i] = IF i \in p THEN Kept(g, p)[i - 1]
                                                   ELSE Append(Kept(g, p)[i - 1], g[i])
         /\ \A i \in 0 .. Len(g) : Kept(g, p)[i] \in Text
<1> DEFINE N == Len(g)
           b == <<>>
           Round(u, i) == IF i \in p THEN u ELSE Append(u, g[i])
           G == [x \in Text \X (1 .. N) |-> Round(x[1], x[2])]
<1>1. N \in Nat /\ \A i \in 1 .. N : g[i] \in Char
  BY LenText
<1>2. \A u \in Text : \A i \in 1 .. N : Round(u, i) \in Text
  BY <1>1, AppendProperties DEF Text
<1> HIDE DEF Round
<1>3. G \in [Text \X (1 .. N) -> Text]
  BY <1>2
<1>4. \A u \in Text : \A i \in 1 .. N : G[<<u, i>>] = Round(u, i)
  OBVIOUS
<1>a. b \in Text
  BY NoText
<1> HIDE DEF G, b
<1>5. PICK f : Steps(f, Text, b, N, G)
  BY <1>1, <1>3, <1>a, SomeSteps
<1>6. f = [i \in 0 .. N |-> f[i]] /\ \A i \in 0 .. N : f[i] \in Text
  BY <1>5 DEF Steps
<1>7. ASSUME NEW i \in 0 .. N PROVE f[i] = IF i = 0 THEN b ELSE Round(f[i - 1], i)
  <2>1. i # 0 => i \in 1 .. N /\ i - 1 \in 0 .. N
    BY <1>1
  <2> QED
    BY <1>4, <1>5, <1>6, <2>1 DEF Steps
<1>8. f = [i \in 0 .. N |-> IF i = 0 THEN b ELSE Round(f[i - 1], i)]
  BY <1>6, <1>7
<1>9. Kept(g, p) = [i \in 0 .. N |-> IF i = 0 THEN b ELSE Round(Kept(g, p)[i - 1], i)]
  BY <1>8 DEF Kept, Round, b
<1>10. PICK U : U = Kept(g, p)
  OBVIOUS
<1>11. U = [i \in 0 .. N |-> IF i = 0 THEN b ELSE Round(U[i - 1], i)]
  BY <1>9, <1>10
<1>12. U[0] = b /\ \A i \in 1 .. N : U[i] = Round(U[i - 1], i)
  BY <1>1, <1>11
<1>13. \A i \in 1 .. N : U[i - 1] \in Text => U[i] = G[<<U[i - 1], i>>]
  BY <1>4, <1>12
<1>14. \A i \in 0 .. N : U[i] \in Text
  BY <1>1, <1>3, <1>12, <1>13, <1>a, StepsOf
<1> QED
  BY <1>10, <1>12, <1>14 DEF Round, b

(* Behind g, with p plugged into it, come m characters and some newlines  *)
(* that are plugged in.                                                   *)
Plugs(g, more, p, q, m) == /\ \A i \in 1 .. Len(g) : i \in q <=> i \in p
                           /\ \A i \in 1 .. m : Len(g) + i \notin q
                           /\ \A i \in m + 1 .. Len(more) : Len(g) + i \in q

FirstOf(s, m) == SubSeq(s, 1, m)

LEMMA KeptMore ==
  ASSUME NEW g \in Text, NEW more \in Text, NEW p, NEW q, NEW m \in 0 .. Len(more),
         Plugs(g, more, p, q, m)
  PROVE  Kept(g \o more, q)[Len(g) + Len(more)] = Kept(g, p)[Len(g)] \o FirstOf(more, m)
<1> DEFINE N == Len(g)
           M == Len(more)
           h == g \o more
           U == Kept(h, q)
           V == Kept(g, p)
           A == {i \in Nat : U[i] = V[i]}
           B == {i \in Nat : U[N + i] = V[N] \o SubSeq(more, 1, i)}
           C == {i \in Nat : U[N + (m + i)] = V[N] \o SubSeq(more, 1, m)}
<1>0. /\ \A i \in 1 .. N : i \in q <=> i \in p
      /\ \A i \in 1 .. m : N + i \notin q
      /\ \A i \in m + 1 .. M : N + i \in q
  BY DEF Plugs
<1>1. /\ N \in Nat /\ M \in Nat /\ m \in Nat /\ h \in Text /\ Len(h) = N + M
      /\ \A i \in 1 .. N : h[i] = g[i] /\ g[i] \in Char
      /\ \A i \in 1 .. M : h[N + i] = more[i] /\ more[i] \in Char
  <2>1. N \in Nat /\ M \in Nat /\ m \in Nat
    BY LenText
  <2>2. /\ h \in Text /\ Len(h) = N + M
        /\ \A i \in 1 .. N + M : h[i] = IF i <= N THEN g[i] ELSE more[i - N]
    BY ConcatProperties DEF Text
  <2>3. \A i \in 1 .. N : h[i] = g[i]
    <3> HIDE DEF h
    <3> QED
      BY <2>1, <2>2
  <2>4. ASSUME NEW i \in 1 .. M PROVE h[N + i] = more[i]
    <3>1. N + i \in 1 .. N + M /\ ~(N + i <= N) /\ (N + i) - N = i
      BY <2>1
    <3> HIDE DEF h
    <3> QED
      BY <2>2, <3>1
  <2> QED
    BY <2>1, <2>2, <2>3, <2>4, LenText
<1>u. /\ U[0] = <<>>
      /\ \A i \in 1 .. N + M : U[i] = IF i \in q THEN U[i - 1] ELSE Append(U[i - 1], h[i])
  <2>1. h \in Text /\ Len(h) = N + M
    BY <1>1
  <2> HIDE DEF h
  <2> QED
    BY <2>1, KeptIs
<1>v. /\ V[0] = <<>>
      /\ \A i \in 1 .. N : V[i] = IF i \in p THEN V[i - 1] ELSE Append(V[i - 1], g[i])
      /\ V[N] \in Seq(Char)
  <2>1. N \in 0 .. Len(g)
    BY <1>1
  <2> QED
    BY <2>1, KeptIs DEF Text
<1> HIDE DEF U, V, h
<1>2. \A i \in 0 .. N : i \in A
  <2>1. 0 \in A
    BY <1>u, <1>v
  <2>2. ASSUME NEW i \in 0 .. N - 1, i \in A PROVE i + 1 \in A
    <3>1. i + 1 \in 1 .. N /\ (i + 1) - 1 = i /\ i + 1 \in 1 .. N + M
      BY <1>1
    <3>2. U[i + 1] = IF i + 1 \in q THEN U[i] ELSE Append(U[i], h[i + 1])
      BY <1>u, <3>1
    <3>3. V[i + 1] = IF i + 1 \in p THEN V[i] ELSE Append(V[i], g[i + 1])
      BY <1>v, <3>1
    <3>4. U[i] = V[i] /\ h[i + 1] = g[i + 1] /\ (i + 1 \in q <=> i + 1 \in p)
      BY <1>0, <1>1, <2>2, <3>1
    <3> QED
      BY <3>1, <3>2, <3>3, <3>4
  <2> QED
    <3> HIDE DEF A
    <3> QED
      BY <1>1, <2>1, <2>2, UpTo
<1>4. \A i \in 0 .. m : i \in B
  <2>1. 0 \in B
    <3>1. N \in A /\ N + 0 = N
      BY <1>1, <1>2
    <3>2. SubSeq(more, 1, 0) = <<>>
      BY SubSeqEmpty
    <3>3. V[N] \o <<>> = V[N]
      BY <1>v, ConcatEmptySeq
    <3> QED
      BY <3>1, <3>2, <3>3
  <2>2. ASSUME NEW i \in 0 .. m - 1, i \in B PROVE i + 1 \in B
    <3>1. /\ i + 1 \in 1 .. m /\ i + 1 \in 1 .. M /\ (i + 1) - 1 = i /\ 1 \in 1 .. M
          /\ N + (i + 1) \in 1 .. N + M /\ (N + (i + 1)) - 1 = N + i
      BY <1>1
    <3>2. U[N + (i + 1)] = IF N + (i + 1) \in q THEN U[N + i] ELSE Append(U[N + i], h[N + (i + 1)])
      BY <1>u, <3>1
    <3>3. /\ N + (i + 1) \notin q /\ h[N + (i + 1)] = more[i + 1] /\ more[i + 1] \in Char
          /\ U[N + i] = V[N] \o SubSeq(more, 1, i)
      BY <1>0, <1>1, <2>2, <3>1
    <3>4. PICK u, s, c : u = V[N] /\ s = SubSeq(more, 1, i) /\ c = more[i + 1]
      OBVIOUS
    <3>5. s \in Seq(Char)
      <4>1. \A j \in 1 .. i : more[j] \in Char
        BY <1>1, <3>1
      <4> QED
        BY <3>4, <4>1, SubSeqProperties
    <3>6. SubSeq(more, 1, i + 1) = s \o <<c>>
      BY <3>1, <3>4, SubSeqRecursiveSecond DEF Text
    <3>7. u \in Seq(Char) /\ c \in Char /\ <<c>> \in Seq(Char) /\ u \o s \in Seq(Char)
      BY <1>v, <3>3, <3>4, <3>5, OneText, ConcatProperties DEF Text
    <3>8. Append(u \o s, c) = u \o (s \o <<c>>)
      <4>1. Append(u \o s, c) = (u \o s) \o <<c>>
        BY <3>7, AppendIsConcat
      <4>2. (u \o s) \o <<c>> = u \o (s \o <<c>>)
        BY <3>5, <3>7, ConcatAssociative
      <4> QED
        BY <4>1, <4>2
    <3>9. U[N + (i + 1)] = V[N] \o SubSeq(more, 1, i + 1)
      BY <3>2, <3>3, <3>4, <3>6, <3>8
    <3>10. i + 1 \in Nat
      BY <1>1
    <3> QED
      BY <3>9, <3>10
  <2> QED
    <3> HIDE DEF B
    <3> QED
      BY <1>1, <2>1, <2>2, UpTo
<1>5. \A i \in 0 .. M - m : i \in C
  <2>1. 0 \in C
    <3>1. m \in 0 .. m /\ N + (m + 0) = N + m
      BY <1>1
    <3>2. m \in B
      BY <1>4, <3>1
    <3> QED
      BY <3>1, <3>2
  <2>2. ASSUME NEW i \in 0 .. (M - m) - 1, i \in C PROVE i + 1 \in C
    <3>1. /\ m + (i + 1) \in m + 1 .. M /\ N + (m + (i + 1)) \in 1 .. N + M
          /\ (N + (m + (i + 1))) - 1 = N + (m + i) /\ i + 1 \in Nat
      BY <1>1
    <3>2. N + (m + (i + 1)) \in q
      BY <1>0, <3>1
    <3>3. U[N + (m + (i + 1))] = U[N + (m + i)]
      BY <1>u, <3>1, <3>2
    <3>4. U[N + (m + i)] = V[N] \o SubSeq(more, 1, m)
      BY <2>2
    <3> QED
      BY <3>1, <3>3, <3>4
  <2> QED
    <3>1. M - m \in Nat
      BY <1>1
    <3> HIDE DEF C
    <3> QED
      BY <2>1, <2>2, <3>1, UpTo
<1>6. M - m \in C /\ N + (m + (M - m)) = N + M
  <2>1. M - m \in 0 .. M - m /\ N + (m + (M - m)) = N + M
    BY <1>1
  <2> QED
    BY <1>5, <2>1
<1>7. U[N + M] = V[N] \o SubSeq(more, 1, m)
  BY <1>6
<1> QED
  BY <1>7 DEF U, V, h, FirstOf

-----------------------------------------------------------------------------
(* A read keeps what was typed. *)

LEMMA EofAtOn ==
  ASSUME NEW s \in Text, NEW t \in Text, EofAt(s \o t) = {}
  PROVE  EofAt(s) = {} /\ EofAt(t) = {}
<1>1. Len(s) \in Nat /\ Len(t) \in Nat
  BY LenText
<1>2. /\ s \o t \in Text /\ Len(s \o t) = Len(s) + Len(t)
      /\ \A i \in 1 .. Len(s) + Len(t) : (s \o t)[i] = IF i <= Len(s) THEN s[i] ELSE t[i - Len(s)]
  BY ConcatText
<1>3. \A i \in 1 .. Len(s) + Len(t) : (s \o t)[i] # EOFCHAR
  BY <1>2, EofAtIs
<1>4. ASSUME NEW i \in 1 .. Len(s) PROVE s[i] # EOFCHAR
  <2>1. i \in 1 .. Len(s) + Len(t) /\ i <= Len(s)
    BY <1>1
  <2> QED
    BY <1>2, <1>3, <2>1
<1>5. ASSUME NEW i \in 1 .. Len(t) PROVE t[i] # EOFCHAR
  <2>1. Len(s) + i \in 1 .. Len(s) + Len(t) /\ ~(Len(s) + i <= Len(s)) /\ (Len(s) + i) - Len(s) = i
    BY <1>1
  <2> QED
    BY <1>2, <1>3, <2>1
<1> QED
  BY <1>4, <1>5, EofAtIs

LEMMA AsNewlineIs ==
  ASSUME NEW s \in Text
  PROVE  /\ AsNewline(s) \in Seq(Char) /\ Len(AsNewline(s)) = Len(s)
         /\ \A i \in 1 .. Len(s) : AsNewline(s)[i] = IF s[i] = CR THEN LF ELSE s[i]
<1>1. Len(s) \in Nat /\ DOMAIN s = 1 .. Len(s) /\ \A i \in 1 .. Len(s) : s[i] \in Char
  BY LenText, LenProperties DEF Text
<1>2. LF \in Char
  BY ConsoleAssumption
<1>3. AsNewline(s) = [i \in 1 .. Len(s) |-> IF s[i] = CR THEN LF ELSE s[i]]
  BY <1>1 DEF AsNewline
<1>4. [i \in 1 .. Len(s) |-> IF s[i] = CR THEN LF ELSE s[i]] \in [1 .. Len(s) -> Char]
  BY <1>1, <1>2
<1> QED
  BY <1>1, <1>3, <1>4

LEMMA AsNewlineOn ==
  ASSUME NEW s \in Text, NEW t \in Text
  PROVE  AsNewline(s \o t) = AsNewline(s) \o AsNewline(t)
<1> DEFINE a == AsNewline(s \o t)
           b == AsNewline(s) \o AsNewline(t)
<1>1. Len(s) \in Nat /\ Len(t) \in Nat
  BY LenText
<1>2. /\ s \o t \in Text /\ Len(s \o t) = Len(s) + Len(t)
      /\ \A i \in 1 .. Len(s) + Len(t) : (s \o t)[i] = IF i <= Len(s) THEN s[i] ELSE t[i - Len(s)]
  BY ConcatText
<1>3. /\ a \in Seq(Char) /\ Len(a) = Len(s) + Len(t)
      /\ \A i \in 1 .. Len(s) + Len(t) : a[i] = IF (s \o t)[i] = CR THEN LF ELSE (s \o t)[i]
  BY <1>2, AsNewlineIs
<1>4. /\ AsNewline(s) \in Seq(Char) /\ Len(AsNewline(s)) = Len(s)
      /\ AsNewline(t) \in Seq(Char) /\ Len(AsNewline(t)) = Len(t)
  BY AsNewlineIs
<1>5. /\ b \in Text /\ Len(b) = Len(s) + Len(t)
      /\ \A i \in 1 .. Len(s) + Len(t) :
           b[i] = IF i <= Len(s) THEN AsNewline(s)[i] ELSE AsNewline(t)[i - Len(s)]
  <2>1. PICK u \in Text, v \in Text : u = AsNewline(s) /\ v = AsNewline(t)
    BY <1>4 DEF Text
  <2>2. Len(u) = Len(s) /\ Len(v) = Len(t)
    BY <1>4, <2>1
  <2>3. /\ u \o v \in Text /\ Len(u \o v) = Len(u) + Len(v)
        /\ \A i \in 1 .. Len(u) + Len(v) : (u \o v)[i] = IF i <= Len(u) THEN u[i] ELSE v[i - Len(u)]
    BY ConcatText
  <2> QED
    BY <2>1, <2>2, <2>3
<1>6. ASSUME NEW i \in 1 .. Len(s) + Len(t) PROVE a[i] = b[i]
  <2> HIDE DEF a, b
  <2>1. CASE i <= Len(s)
    <3>1. i \in 1 .. Len(s)
      BY <1>1, <2>1
    <3>2. b[i] = AsNewline(s)[i] /\ (s \o t)[i] = s[i]
      BY <1>2, <1>5, <2>1
    <3>3. AsNewline(s)[i] = IF s[i] = CR THEN LF ELSE s[i]
      BY <3>1, AsNewlineIs
    <3> QED
      BY <1>3, <3>2, <3>3
  <2>2. CASE ~(i <= Len(s))
    <3>1. i - Len(s) \in 1 .. Len(t)
      BY <1>1, <2>2
    <3>2. b[i] = AsNewline(t)[i - Len(s)] /\ (s \o t)[i] = t[i - Len(s)]
      BY <1>2, <1>5, <2>2
    <3>3. AsNewline(t)[i - Len(s)] = IF t[i - Len(s)] = CR THEN LF ELSE t[i - Len(s)]
      BY <3>1, AsNewlineIs
    <3> QED
      BY <1>3, <3>2, <3>3
  <2> QED
    BY <2>1, <2>2
<1> HIDE DEF a, b
<1>7. a = b
  BY <1>3, <1>5, <1>6, SeqEqual DEF Text
<1> QED
  BY <1>7 DEF a, b

(* A line that ends without a return is delivered as it was typed. *)
LEMMA AsTyped ==
  ASSUME NEW s \in Text, \A i \in 1 .. Len(s) : s[i] # CR
  PROVE  AsNewline(s) = s
<1>1. /\ AsNewline(s) \in Seq(Char) /\ Len(AsNewline(s)) = Len(s) /\ s \in Seq(Char)
      /\ \A i \in 1 .. Len(s) : AsNewline(s)[i] = s[i]
  BY AsNewlineIs DEF Text
<1> QED
  BY <1>1, SeqEqual

(* What is typed and what is delivered of it, when there is no ^Z in it.   *)
LEMMA Delivers ==
  ASSUME keys \in Text, NEW n \in Nat \ {0}, NEW taken \in 0 .. Len(keys), NEW k \in 0 .. Len(keys),
         Line(n, k, taken), EofAt(First(k)) = {}
  PROVE  /\ k = Nbs(n) /\ k < n =>
              /\ Delivered(n, First(k)) \in Text
              /\ Len(Delivered(n, First(k))) = k + 1
              /\ SubSeq(Delivered(n, First(k)), 1, k) = AsNewline(First(taken))
         /\ ~(k = Nbs(n) /\ k < n) =>
              /\ Delivered(n, First(k)) \in Text
              /\ Delivered(n, First(k)) = AsNewline(First(taken))
<1> DEFINE line == First(k)
           data == Delivered(n, line)
<1>1. /\ Nbs(n) \in 1 .. n /\ k \in 0 .. Nbs(n)
      /\ \A i \in 1 .. k : keys[i] # CR
      /\ k < Nbs(n) => taken = k + 1 /\ keys[taken] = CR
      /\ k = Nbs(n) => taken = k
  BY LineIs
<1>2. /\ line \in Text /\ Len(line) = k /\ \A i \in 1 .. k : line[i] = keys[i]
      /\ \A i \in 1 .. Len(line) : line[i] # CR
  BY <1>1, FirstIs
<1>3. data = IF k < n THEN Append(line, LF) ELSE line
  BY <1>2, DeliveredIs
<1>4. LF \in Char /\ CR \in Char
  BY ConsoleAssumption
<1>5. /\ Append(line, LF) \in Text /\ Len(Append(line, LF)) = k + 1
      /\ \A i \in 1 .. k : Append(line, LF)[i] = line[i]
      /\ Append(line, LF)[k + 1] = LF
  BY <1>2, <1>4, AppendProperties DEF Text
<1>6. AsNewline(line) = line
  BY <1>2, AsTyped
<1>7. CASE k = Nbs(n) /\ k < n
  <2>1. data = Append(line, LF)
    BY <1>3, <1>7
  <2>2. SubSeq(Append(line, LF), 1, k) = line
    <3>1. line \in Seq(Char) /\ <<LF>> \in Seq(Char) /\ Append(line, LF) = line \o <<LF>>
      BY <1>2, <1>4, OneText, AppendIsConcat DEF Text
    <3>2. 1 \in 1 .. Len(line) /\ k \in 1 .. Len(line)
      BY <1>1, <1>2, <1>7
    <3>3. SubSeq(line \o <<LF>>, 1, k) = SubSeq(line, 1, k)
      <4> HIDE DEF line
      <4> QED
        BY <3>1, <3>2, SubSeqOfConcat1
    <3>4. SubSeq(line, 1, k) = line
      <4> HIDE DEF line
      <4> QED
        BY <1>2, <3>1, SubSeqFull
    <3> QED
      BY <3>1, <3>3, <3>4
  <2>3. First(taken) = line
    BY <1>1, <1>7
  <2> QED
    BY <1>5, <1>6, <1>7, <2>1, <2>2, <2>3
<1>8. CASE k < Nbs(n)
  <2>1. /\ k < n /\ taken = k + 1 /\ keys[taken] = CR
        /\ \A i \in 1 .. k + 1 : i \in 1 .. k \/ i = k + 1
    BY <1>1, <1>8
  <2>2. data = Append(line, LF)
    BY <1>3, <2>1
  <2>3. /\ First(taken) \in Text /\ Len(First(taken)) = k + 1
        /\ \A i \in 1 .. k + 1 : First(taken)[i] = keys[i]
    BY <2>1, FirstIs
  <2>4. /\ AsNewline(First(taken)) \in Seq(Char) /\ Len(AsNewline(First(taken))) = k + 1
        /\ \A i \in 1 .. k + 1 : AsNewline(First(taken))[i] = IF keys[i] = CR THEN LF ELSE keys[i]
    BY <2>3, AsNewlineIs
  <2>5. ASSUME NEW i \in 1 .. k + 1 PROVE Append(line, LF)[i] = AsNewline(First(taken))[i]
    BY <1>1, <1>2, <1>5, <2>1, <2>4
  <2>6. Append(line, LF) = AsNewline(First(taken))
    BY <1>5, <2>4, <2>5, SeqEqual DEF Text
  <2> QED
    BY <1>5, <1>8, <2>2, <2>6
<1>9. CASE k = Nbs(n) /\ ~(k < n)
  <2>1. First(taken) = line /\ data = line
    BY <1>1, <1>3, <1>9
  <2> QED
    BY <1>2, <1>6, <1>9, <2>1
<1>10. k < Nbs(n) \/ k = Nbs(n)
  BY <1>1
<1> QED
  BY <1>7, <1>8, <1>9, <1>10

ConsoleInv == TypeOK /\ InputKept

LEMMA ReadableIsText == ASSUME NEW s \in Seq(Readable) PROVE s \in Text
BY SeqMonotonic DEF Readable, Text

LEMMA InvIs ==
  ASSUME ConsoleInv
  PROVE  /\ keys \in Text /\ seen \in Text /\ got \in Seq(Readable) /\ got \in Text
         /\ plugged \subseteq 1 .. Len(got) /\ flags \in [Chan -> SUBSET Flag]
         /\ DOMAIN got = 1 .. Len(got)
<1>1. got \in Seq(Readable)
  BY DEF ConsoleInv, TypeOK, Readable
<1> QED
  BY <1>1, ReadableIsText, LenProperties DEF ConsoleInv, TypeOK, Text

LEMMA TtyInTypes ==
  ASSUME ConsoleInv, NEW ch \in Chan, NEW n \in ReadSizes, TtyIn(ch, n)
  PROVE  TypeOK'
<1>1. PICK taken \in 0 .. Len(keys), k \in 0 .. Len(keys) :
        /\ Line(n, k, taken)
        /\ keys' = SubSeq(keys, taken + 1, Len(keys))
        /\ seen' = seen \o First(taken)
        /\ got' = got \o Delivered(n, First(k))
        /\ plugged' = IF k = Nbs(n) /\ k < n /\ EofAt(First(k)) = {}
                      THEN plugged \cup {Len(got')} ELSE plugged
        /\ flags' = IF EofAt(First(k)) = {} THEN flags
                    ELSE [flags EXCEPT ![ch] = flags[ch] \cup {"ATEOF"}]
  BY DEF TtyIn
<1> DEFINE line == First(k)
           data == Delivered(n, line)
<1>2. n \in Nat \ {0}
  BY ConsoleAssumption
<1>3. /\ keys \in Text /\ seen \in Text /\ got \in Seq(Readable) /\ got \in Text
      /\ plugged \subseteq 1 .. Len(got) /\ flags \in [Chan -> SUBSET Flag]
  BY InvIs
<1>4. Len(keys) \in Nat /\ Len(got) \in Nat /\ \A i \in 1 .. Len(keys) : keys[i] \in Char
  BY <1>3, LenText
<1>5. keys' \in Seq(Char)
  <2>1. \A i \in taken + 1 .. Len(keys) : keys[i] \in Char
    BY <1>4
  <2> QED
    BY <1>1, <1>4, <2>1, SubSeqProperties
<1>6. seen' \in Seq(Char)
  BY <1>1, <1>3, FirstIs, ConcatProperties DEF Text
<1>7. /\ Nbs(n) \in 1 .. n /\ k \in 0 .. Nbs(n)
      /\ line \in Text /\ Len(line) = k /\ \A i \in 1 .. Len(line) : line[i] # CR
  <2>1. /\ Nbs(n) \in 1 .. n /\ k \in 0 .. Nbs(n) /\ \A i \in 1 .. k : keys[i] # CR
    BY <1>1, <1>2, <1>3, LineIs
  <2> QED
    BY <1>3, <2>1, FirstIs
<1>8. data \in Seq(Readable)
  BY <1>7, DeliveredIs
<1>9. got' \in Seq(Readable) /\ Len(got') = Len(got) + Len(data) /\ Len(data) \in Nat
  <2> HIDE DEF data
  <2> QED
    BY <1>1, <1>3, <1>8, ConcatProperties DEF data
<1>10. plugged' \subseteq 1 .. Len(got')
  <2>1. plugged \subseteq 1 .. Len(got')
    BY <1>3, <1>4, <1>9
  <2>2. CASE k = Nbs(n) /\ k < n /\ EofAt(line) = {}
    <3>1. Len(data) = k + 1
      BY <1>1, <1>2, <1>3, <2>2, Delivers
    <3>2. Len(got') \in 1 .. Len(got')
      BY <1>4, <1>7, <1>9, <3>1
    <3> QED
      BY <1>1, <2>1, <2>2, <3>2
  <2>3. CASE ~(k = Nbs(n) /\ k < n /\ EofAt(line) = {})
    BY <1>1, <2>1, <2>3
  <2> QED
    BY <2>2, <2>3
<1>11. flags' \in [Chan -> SUBSET Flag]
  BY <1>1, <1>3 DEF Flag
<1>12. DOMAIN got' = 1 .. Len(got')
  BY <1>9, LenProperties
<1> QED
  BY <1>5, <1>6, <1>9, <1>10, <1>11, <1>12 DEF TypeOK, Readable

LEMMA TtyInKeeps ==
  ASSUME ConsoleInv, NEW ch \in Chan, NEW n \in ReadSizes, TtyIn(ch, n)
  PROVE  InputKept'
<1>1. PICK taken \in 0 .. Len(keys), k \in 0 .. Len(keys) :
        /\ Line(n, k, taken)
        /\ seen' = seen \o First(taken)
        /\ got' = got \o Delivered(n, First(k))
        /\ plugged' = IF k = Nbs(n) /\ k < n /\ EofAt(First(k)) = {}
                      THEN plugged \cup {Len(got')} ELSE plugged
  BY DEF TtyIn
<1>2. SUFFICES ASSUME EofAt(seen') = {} PROVE Unplugged' = AsNewline(seen')
  BY DEF InputKept, EofAt, AsNewline
<1>3. n \in Nat \ {0}
  BY ConsoleAssumption
<1>4. /\ keys \in Text /\ seen \in Text /\ got \in Text
      /\ plugged \subseteq 1 .. Len(got) /\ Len(got) \in Nat /\ Len(keys) \in Nat
  BY InvIs, LenText
<1>5. First(taken) \in Text /\ First(k) \in Text /\ k <= taken
  <2>1. /\ k \in 0 .. Nbs(n) /\ Nbs(n) \in Nat
        /\ k < Nbs(n) => taken = k + 1 /\ keys[taken] = CR
        /\ k = Nbs(n) => taken = k
    BY <1>1, <1>3, <1>4, LineIs
  <2> QED
    BY <1>4, <2>1, FirstIs
<1>6. EofAt(seen) = {} /\ EofAt(First(taken)) = {}
  BY <1>1, <1>2, <1>4, <1>5, EofAtOn
<1>7. EofAt(First(k)) = {}
  <2>1. \A i \in 1 .. taken : First(taken)[i] # EOFCHAR /\ First(taken)[i] = keys[i]
    BY <1>4, <1>5, <1>6, FirstIs, EofAtIs
  <2>2. \A i \in 1 .. k : First(k)[i] # EOFCHAR
    <3> SUFFICES ASSUME NEW i \in 1 .. k PROVE First(k)[i] # EOFCHAR
      OBVIOUS
    <3>1. i \in 1 .. taken
      BY <1>4, <1>5
    <3> QED
      BY <1>4, <2>1, <3>1, FirstIs
  <2> QED
    BY <1>4, <1>5, <2>2, FirstIs, EofAtIs
<1>8. Unplugged = AsNewline(seen)
  BY <1>6 DEF ConsoleInv, InputKept
<1>9. AsNewline(seen') = AsNewline(seen) \o AsNewline(First(taken))
  BY <1>1, <1>4, <1>5, AsNewlineOn
<1>10. PICK data : data = Delivered(n, First(k))
  OBVIOUS
<1>11. ASSUME NEW m \in 0 .. Len(data), data \in Text, Plugs(got, data, plugged, plugged', m)
       PROVE  Unplugged' = Unplugged \o FirstOf(data, m)
  <2>1. Len(got') = Len(got) + Len(data)
    BY <1>1, <1>4, <1>10, <1>11, ConcatText
  <2>2. PICK g, p, q : g = got /\ p = plugged /\ q = plugged'
    OBVIOUS
  <2>3. g \in Text /\ data \in Text /\ Plugs(g, data, p, q, m)
    BY <1>4, <1>11, <2>2
  <2>4. Kept(g \o data, q)[Len(g) + Len(data)] = Kept(g, p)[Len(g)] \o FirstOf(data, m)
    BY <2>3, KeptMore
  <2> QED
    BY <1>1, <1>10, <2>1, <2>2, <2>4, UnpluggedIsKept, UnpluggedIsKeptThen
<1>12. CASE k = Nbs(n) /\ k < n
  <2>1. data \in Text /\ Len(data) = k + 1 /\ FirstOf(data, k) = AsNewline(First(taken))
    BY <1>1, <1>3, <1>4, <1>7, <1>10, <1>12, Delivers DEF FirstOf
  <2>2. plugged' = plugged \cup {Len(got) + (k + 1)}
    <3>1. Len(got') = Len(got) + Len(data)
      BY <1>1, <1>4, <1>10, <2>1, ConcatProperties DEF Text
    <3> QED
      BY <1>1, <1>7, <1>12, <2>1, <3>1
  <2>3. /\ k \in 0 .. Len(data)
        /\ \A i \in 1 .. Len(got) : i # Len(got) + (k + 1)
        /\ \A i \in 1 .. k : Len(got) + i # Len(got) + (k + 1) /\ Len(got) + i \notin 1 .. Len(got)
        /\ \A i \in k + 1 .. Len(data) : i = k + 1
    BY <1>4, <2>1
  <2>4. Unplugged' = Unplugged \o FirstOf(data, k)
    <3>1. Plugs(got, data, plugged, plugged', k)
      BY <1>4, <2>2, <2>3 DEF Plugs
    <3> QED
      BY <1>11, <2>1, <2>3, <3>1
  <2> QED
    BY <1>8, <1>9, <2>1, <2>4
<1>13. CASE ~(k = Nbs(n) /\ k < n)
  <2>1. data \in Text /\ data = AsNewline(First(taken))
    BY <1>1, <1>3, <1>4, <1>7, <1>10, <1>13, Delivers
  <2>2. plugged' = plugged
    BY <1>1, <1>13
  <2>3. /\ Len(data) \in 0 .. Len(data)
        /\ \A i \in 1 .. Len(data) : Len(got) + i \notin 1 .. Len(got)
        /\ \A i \in Len(data) + 1 .. Len(data) : FALSE
    BY <1>4, <2>1, LenText
  <2>4. Unplugged' = Unplugged \o FirstOf(data, Len(data))
    <3>1. Plugs(got, data, plugged, plugged', Len(data))
      BY <1>4, <2>2, <2>3 DEF Plugs
    <3> QED
      BY <1>11, <2>1, <2>3, <3>1
  <2>5. FirstOf(data, Len(data)) = data
    BY <2>1, SubSeqFull DEF Text, FirstOf
  <2> QED
    BY <1>8, <1>9, <2>1, <2>4, <2>5
<1> QED
  BY <1>12, <1>13

LEMMA TtyInStep ==
  ASSUME ConsoleInv, NEW ch \in Chan, NEW n \in ReadSizes, TtyIn(ch, n)
  PROVE  ConsoleInv'
BY TtyInTypes, TtyInKeeps DEF ConsoleInv

(* Nothing is read. *)
LEMMA NothingTyped ==
  ASSUME ConsoleInv, UNCHANGED <<keys, seen, got, plugged>>, flags' \in [Chan -> SUBSET Flag]
  PROVE  ConsoleInv'
<1>1. TypeOK'
  BY DEF ConsoleInv, TypeOK
<1>2. InputKept'
  <2>1. Unplugged' = Unplugged
    BY UnpluggedIsKept, UnpluggedIsKeptThen
  <2> QED
    BY <2>1 DEF ConsoleInv, InputKept, EofAt, AsNewline
<1> QED
  BY <1>1, <1>2 DEF ConsoleInv

-----------------------------------------------------------------------------
(* The calls. *)

LEMMA ReadStep ==
  ASSUME ConsoleInv, NEW ch \in Chan, NEW n \in ReadSizes, Read(ch, n)
  PROVE  ConsoleInv' /\ OutputLined'
<1>1. CASE TtyIn(ch, n)
  <2>1. io'.op = "read"
    BY <1>1 DEF TtyIn
  <2> QED
    BY <1>1, <2>1, TtyInStep DEF OutputLined
<1>2. CASE ~TtyIn(ch, n)
  <2>1. UNCHANGED <<keys, seen, got, plugged, flags>> /\ io'.op = "read"
    BY <1>2 DEF Read, Answer
  <2>2. flags' \in [Chan -> SUBSET Flag]
    BY <2>1, InvIs
  <2> QED
    BY <2>1, <2>2, NothingTyped DEF OutputLined
<1> QED
  BY <1>1, <1>2

LEMMA WriteStep ==
  ASSUME ConsoleInv, NEW ch \in Chan, NEW data \in Data, Write(ch, data)
  PROVE  ConsoleInv' /\ OutputLined'
<1>1. data \in Text
  BY ConsoleAssumption DEF Text
<1>2. UNCHANGED <<keys, seen, got, plugged, flags>>
  BY DEF Write
<1>3. ConsoleInv'
  <2>1. flags' \in [Chan -> SUBSET Flag]
    BY <1>2, InvIs
  <2> QED
    BY <1>2, <2>1, NothingTyped
<1>4. WrtChr(ch, data).out = FlattenSeq(Codes(data, Counted(data)))
  BY <1>1, WrtChrIs
<1>5. OutputLined'
  <2>1. CASE data = <<>>
    <3>1. io'.data = data /\ io'.out = <<>>
      BY <2>1 DEF Write, Answer
    <3>2. Codes(data, Len(data) % UWord) = <<>>
      <4>1. Len(data) = 0
        BY <2>1
      <4>2. Counted(data) = 0
        BY <1>1, <4>1, CountedIs
      <4> QED
        BY <4>2 DEF Codes, Counted
    <3>3. FlattenSeq(<<>>) = <<>>
      BY NoText, FlattenSeqIsFlattening
    <3> QED
      BY <3>1, <3>2, <3>3 DEF OutputLined, Codes
  <2>2. CASE data # <<>> /\ "ISREAD" \in flags[ch]
    BY <2>2 DEF Write, Answer, OutputLined
  <2>3. CASE data # <<>> /\ "ISREAD" \notin flags[ch]
    <3>1. io'.data = data /\ io'.out = WrtChr(ch, data).out
      BY <2>3 DEF Write, Answer
    <3> QED
      BY <1>4, <3>1 DEF OutputLined, Codes, Counted
  <2> QED
    BY <2>1, <2>2, <2>3
<1> QED
  BY <1>3, <1>5

LEMMA LSeekStep ==
  ASSUME ConsoleInv, NEW ch \in Chan, LSeek(ch)
  PROVE  ConsoleInv' /\ OutputLined'
<1>1. UNCHANGED <<keys, seen, got, plugged>> /\ io'.op = "lseek"
  BY DEF LSeek, Answer
<1>2. flags' \in [Chan -> SUBSET Flag]
  BY InvIs DEF LSeek
<1> QED
  BY <1>1, <1>2, NothingTyped DEF OutputLined

LEMMA ConsoleInit == Init => ConsoleInv /\ OutputLined
<1> SUFFICES ASSUME Init PROVE ConsoleInv /\ OutputLined
  OBVIOUS
<1>1. /\ keys \in Scripts /\ seen = <<>> /\ got = <<>> /\ plugged = {}
      /\ io.op = "none"
  BY DEF Init
<1>2. keys \in Seq(Char)
  BY <1>1, ConsoleAssumption, SeqMonotonic
<1>3. seen \in Seq(Char) /\ got \in Seq(Char \ {CR, EOFCHAR}) /\ plugged \subseteq DOMAIN got
  BY <1>1
<1>4. flags \in [Chan -> SUBSET Flag]
  <2>1. \A ch \in Chan : (CASE ch = In  -> {"ISTTY", "ISREAD"}
                            [] ch = Out -> {"ISTTY"}
                            [] ch = Lst -> {"ISLPT"}) \in SUBSET Flag
    <3> SUFFICES ASSUME NEW ch \in Chan
                 PROVE  (CASE ch = In  -> {"ISTTY", "ISREAD"}
                           [] ch = Out -> {"ISTTY"}
                           [] ch = Lst -> {"ISLPT"}) \in SUBSET Flag
      OBVIOUS
    <3>1. ch = In \/ ch = Out \/ ch = Lst
      BY DEF Chan
    <3>2. {"ISTTY", "ISREAD"} \in SUBSET Flag /\ {"ISTTY"} \in SUBSET Flag /\ {"ISLPT"} \in SUBSET Flag
      BY DEF Flag
    <3> QED
      BY <3>1, <3>2
  <2> QED
    BY <2>1 DEF Init
<1>5. InputKept
  <2>1. Unplugged = <<>>
    BY <1>1, NoText, KeptIs, UnpluggedIsKept
  <2>2. AsNewline(<<>>) = <<>>
    BY DEF AsNewline
  <2> QED
    BY <1>1, <2>1, <2>2 DEF InputKept
<1> QED
  BY <1>1, <1>2, <1>3, <1>4, <1>5 DEF ConsoleInv, TypeOK, OutputLined

LEMMA ConsoleNext == ConsoleInv /\ OutputLined /\ [Next]_vars => ConsoleInv' /\ OutputLined'
<1> SUFFICES ASSUME ConsoleInv, OutputLined, [Next]_vars PROVE ConsoleInv' /\ OutputLined'
  OBVIOUS
<1>1. ASSUME NEW ch \in Chan, NEW n \in ReadSizes, Read(ch, n) PROVE ConsoleInv' /\ OutputLined'
  BY <1>1, ReadStep
<1>2. ASSUME NEW ch \in Chan, NEW data \in Data, Write(ch, data) PROVE ConsoleInv' /\ OutputLined'
  BY <1>2, WriteStep
<1>3. ASSUME NEW ch \in Chan, LSeek(ch) PROVE ConsoleInv' /\ OutputLined'
  BY <1>3, LSeekStep
<1>4. CASE UNCHANGED vars
  <2>1. UNCHANGED <<keys, seen, got, plugged, flags>> /\ io' = io
    BY <1>4 DEF vars
  <2>2. flags' \in [Chan -> SUBSET Flag]
    BY <2>1, InvIs
  <2>3. OutputLined'
    BY <2>1 DEF OutputLined
  <2> QED
    BY <2>1, <2>2, <2>3, NothingTyped
<1> QED
  BY <1>1, <1>2, <1>3, <1>4 DEF Next

LEMMA ConsoleAlways == Spec => [](ConsoleInv /\ OutputLined)
BY ConsoleInit, ConsoleNext, PTL DEF Spec

-----------------------------------------------------------------------------
(* The console. *)

(* Every variable keeps its type, and a program is given neither a return  *)
(* nor a ^Z, whatever is typed and asked for (ttyin.c:92, 101).            *)
THEOREM ConsoleTypeThm == Spec => []TypeOK
<1>1. ConsoleInv /\ OutputLined => TypeOK
  BY DEF ConsoleInv
<1> QED
  BY <1>1, ConsoleAlways, PTL

(* ttyin.c:85-117: until a ^Z a program reads what is typed, with newlines *)
(* for returns, for every script of keys, every request and every size of  *)
(* the line buffer; a newline is made up only where a line filled it.      *)
THEOREM InputKeptThm == Spec => []InputKept
<1>1. ConsoleInv /\ OutputLined => InputKept
  BY DEF ConsoleInv
<1> QED
  BY <1>1, ConsoleAlways, PTL

(* wrtchr.c:60-90 and ttyout.c:29-41: what is written comes out as it is,  *)
(* with a return before every newline, wherever its newlines fall in the   *)
(* buffer and wherever its dollar signs are.  What comes out is as much of *)
(* a text as a UWORD leaves of its length: all of one that it counts.      *)
THEOREM OutputLinedThm == Spec => []OutputLined
<1>1. ConsoleInv /\ OutputLined => OutputLined
  OBVIOUS
<1> QED
  BY <1>1, ConsoleAlways, PTL
=============================================================================
