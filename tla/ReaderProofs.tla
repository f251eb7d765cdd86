---------------------------- MODULE ReaderProofs ----------------------------
(***************************************************************************)
(* Proofs about the loops of the bridge that read: the lines of a socket   *)
(* client (LineBuffer), the gamepads (GamePad) and the keyboard and mouse  *)
(* (KeyboardPad).                                                          *)
(***************************************************************************)
EXTENDS LineBuffer, GamePad, KeyboardPad, SequenceTheorems, WellFoundedInduction, TLAPS

-----------------------------------------------------------------------------
(***************************************************************************)
(* _handle_client, for any bytes, any stream and any limit of a recv.      *)
(***************************************************************************)

\* A set of numbers that is not empty has a least one.
LEMMA LeastNumber ==
  ASSUME NEW S \in SUBSET Nat, S # {}
  PROVE  \E m \in S : \A k \in S : m <= k
<1>. DEFINE Less == {p \in Nat \X Nat : p[1] < p[2]}
<1>1. IsWellFoundedOn(Less, Nat)
  BY NatLessThanWellFounded DEF OpToRel
<1>2. PICK m \in S : \A k \in S : <<k, m>> \notin Less
  <2>. HIDE DEF Less
  <2>. QED
    BY <1>1, WFMin
<1>3. ASSUME NEW k \in S PROVE m <= k
  <2>1. k \in Nat /\ m \in Nat /\ <<k, m>> \notin Less
    BY <1>2
  <2>. QED
    BY <2>1
<1>. QED
  BY <1>3

\* A set of numbers that has 0 and with a number the next one has them all.
LEMMA NatSetInduction ==
  ASSUME NEW S \in SUBSET Nat, 0 \in S, \A n \in S : n + 1 \in S
  PROVE  S = Nat
<1>. SUFFICES ASSUME Nat \ S # {} PROVE FALSE
  OBVIOUS
<1>1. PICK x \in Nat \ S : \A y \in Nat \ S : x <= y
  BY LeastNumber
<1>2. x - 1 \in Nat /\ (x - 1) + 1 = x /\ ~(x <= x - 1)
  BY <1>1
<1>3. x - 1 \in Nat \ S
  BY <1>1, <1>2
<1>. QED
  BY <1>1, <1>2, <1>3

\* A set of sequences that has the empty one and with a sequence all that are longer by one
\* element has them all.
LEMMA SeqSetInduction ==
  ASSUME NEW S, NEW Q \in SUBSET Seq(S), <<>> \in Q, \A s \in Q, e \in S : Append(s, e) \in Q
  PROVE  Q = Seq(S)
<1>. DEFINE N == {n \in Nat : \A s \in Seq(S) : Len(s) = n => s \in Q}
<1>1. 0 \in N
  BY EmptySeq
<1>2. ASSUME NEW n \in N PROVE n + 1 \in N
  <2>. SUFFICES ASSUME NEW s \in Seq(S), Len(s) = n + 1 PROVE s \in Q
    OBVIOUS
  <2>1. n \in Nat /\ \A t \in Seq(S) : Len(t) = n => t \in Q
    OBVIOUS
  <2>2. s # <<>>
    BY <2>1, EmptySeq
  <2>3. PICK t \in Seq(S), e \in S : s = Append(t, e)
    BY <2>2, SequenceEmptyOrAppend
  <2>4. Len(t) = n
    BY <2>1, <2>3, LenProperties, AppendProperties
  <2>. QED
    BY <2>1, <2>3, <2>4
<1>3. N = Nat
  <2>1. N \in SUBSET Nat
    OBVIOUS
  <2>. HIDE DEF N
  <2>. QED
    BY <1>1, <1>2, <2>1, NatSetInduction
<1>4. ASSUME NEW s \in Seq(S) PROVE s \in Q
  <2>1. Len(s) \in N
    BY <1>3, LenProperties
  <2>. QED
    BY <2>1
<1>. QED
  BY <1>4

Text == Byte \cup {Bad}

\* What ReadAll returns.
Cuts == [lines : Seq(Seq(Text) \ {<<>>}), part : Seq(Text)]

LEMMA TextFacts ==
  /\ Alphabet = Text \cup {Newline} /\ Newline \notin Text /\ NothingRead \in Cuts
  /\ \A c \in Cuts, b \in Alphabet : ReadByte(c, b) \in Cuts
<1>1. Alphabet = Text \cup {Newline} /\ Newline \notin Text
  BY LineAssumption DEF Alphabet, Text
<1>2. NothingRead \in Cuts
  BY DEF NothingRead, Cuts
<1>3. ASSUME NEW c \in Cuts, NEW b \in Alphabet PROVE ReadByte(c, b) \in Cuts
  <2>1. c.lines \in Seq(Seq(Text) \ {<<>>}) /\ c.part \in Seq(Text)
    BY DEF Cuts
  <2>2. CASE b # Newline
    <3>1. Append(c.part, b) \in Seq(Text)
      BY <1>1, <2>1, <2>2
    <3>. QED
      BY <2>1, <2>2, <3>1 DEF ReadByte, Cuts
  <2>3. CASE b = Newline
    <3>1. c.part # <<>> => Append(c.lines, c.part) \in Seq(Seq(Text) \ {<<>>})
      BY <2>1
    <3>. QED
      BY <2>1, <2>3, <3>1 DEF ReadByte, Cuts
  <2>. QED
    BY <2>2, <2>3
<1>. QED
  BY <1>1, <1>2, <1>3

\* f is what was read after each of the first Len(s) bytes of s.
ReadRun(f, s) == f = [i \in 0..Len(s) |-> IF i = 0 THEN NothingRead ELSE ReadByte(f[i - 1], s[i])]

\* Two runs over sequences that begin alike agree as far as these do.
LEMMA ReadRunsAgree ==
  ASSUME NEW s \in Seq(Alphabet), NEW t \in Seq(Alphabet), NEW f, NEW g, ReadRun(f, s), ReadRun(g, t),
         Len(s) <= Len(t), \A i \in 1..Len(s) : s[i] = t[i]
  PROVE  \A i \in 0..Len(s) : f[i] = g[i]
<1>. DEFINE Same == {n \in Nat : n <= Len(s) => f[n] = g[n]}
<1>1. 0 \in Same
  BY DEF ReadRun
<1>2. ASSUME NEW n \in Same PROVE n + 1 \in Same
  <2>. SUFFICES ASSUME n + 1 <= Len(s) PROVE f[n + 1] = g[n + 1]
    OBVIOUS
  <2>1. n \in Nat /\ n + 1 \in 0..Len(s) /\ n + 1 \in 0..Len(t) /\ n + 1 # 0 /\ (n + 1) - 1 = n
    OBVIOUS
  <2>2. f[n] = g[n] /\ s[n + 1] = t[n + 1]
    BY <2>1
  <2>3. f[n + 1] = ReadByte(f[n], s[n + 1]) /\ g[n + 1] = ReadByte(g[n], t[n + 1])
    BY <2>1 DEF ReadRun
  <2>. QED
    BY <2>2, <2>3
<1>3. Same = Nat
  <2>1. Same \in SUBSET Nat
    OBVIOUS
  <2>. HIDE DEF Same
  <2>. QED
    BY <1>1, <1>2, <2>1, NatSetInduction
<1>. QED
  BY <1>3

\* Every sequence has a run.
LEMMA ReadRunExists ==
  ASSUME NEW s \in Seq(Alphabet)
  PROVE  \E f \in [0..Len(s) -> Cuts] : ReadRun(f, s)
<1>. DEFINE Upto(n, f) == f = [i \in 0..n |-> IF i = 0 THEN NothingRead ELSE ReadByte(f[i - 1], s[i])]
            Has == {n \in Nat : n <= Len(s) => \E f \in [0..n -> Cuts] : Upto(n, f)}
<1>1. 0 \in Has
  <2>. DEFINE f == [i \in 0..0 |-> NothingRead]
  <2>1. f \in [0..0 -> Cuts] /\ Upto(0, f)
    BY TextFacts
  <2>. QED
    BY <2>1
<1>2. ASSUME NEW n \in Has PROVE n + 1 \in Has
  <2>. SUFFICES ASSUME n + 1 <= Len(s) PROVE \E f \in [0..n + 1 -> Cuts] : Upto(n + 1, f)
    OBVIOUS
  <2>1. n \in Nat /\ n <= Len(s) /\ s[n + 1] \in Alphabet
    OBVIOUS
  <2>2. PICK g \in [0..n -> Cuts] : Upto(n, g)
    BY <2>1
  <2>. DEFINE f == [i \in 0..n + 1 |-> IF i <= n THEN g[i] ELSE ReadByte(g[n], s[n + 1])]
  <2>3. f \in [0..n + 1 -> Cuts]
    BY <2>1, TextFacts
  <2>4. ASSUME NEW i \in 0..n + 1
        PROVE  f[i] = IF i = 0 THEN NothingRead ELSE ReadByte(f[i - 1], s[i])
    <3>1. CASE i = n + 1
      <4>1. i # 0 /\ i - 1 = n /\ n \in 0..n + 1 /\ ~(n + 1 <= n) /\ n <= n
        BY <2>1, <3>1
      <4>. QED
        BY <3>1, <4>1
    <3>2. CASE i # n + 1
      <4>1. i \in 0..n /\ i <= n
        BY <2>1, <3>2
      <4>2. i # 0 => i - 1 \in 0..n + 1 /\ i - 1 <= n
        BY <2>1, <4>1
      <4>. QED
        BY <2>2, <4>1, <4>2
    <3>. QED
      BY <3>1, <3>2
  <2>5. Upto(n + 1, f)
    BY <2>4
  <2>. QED
    BY <2>3, <2>5
<1>3. Has = Nat
  <2>1. Has \in SUBSET Nat
    OBVIOUS
  <2>. HIDE DEF Has
  <2>. QED
    BY <1>1, <1>2, <2>1, NatSetInduction
<1>. QED
  BY <1>3 DEF ReadRun

LEMMA ReadAllRun ==
  ASSUME NEW s \in Seq(Alphabet), NEW f, ReadRun(f, s)
  PROVE  ReadAll(s) = f[Len(s)]
<1>. DEFINE g == CHOOSE h : ReadRun(h, s)
<1>1. ReadRun(g, s)
  BY ReadRunExists
<1>2. ReadAll(s) = g[Len(s)]
  BY DEF ReadAll, ReadRun
<1>. HIDE DEF g
<1>3. Len(s) \in 0..Len(s)
  OBVIOUS
<1>. QED
  BY <1>1, <1>2, <1>3, ReadRunsAgree

\* What was read of no bytes, and with one byte more.
LEMMA ReadAllSteps ==
  /\ ReadAll(<<>>) = NothingRead
  /\ \A s \in Seq(Alphabet) : ReadAll(s) \in Cuts
  /\ \A s \in Seq(Alphabet), b \in Alphabet : ReadAll(Append(s, b)) = ReadByte(ReadAll(s), b)
<1>1. ReadAll(<<>>) = NothingRead
  <2>1. <<>> \in Seq(Alphabet) /\ Len(<<>>) = 0
    OBVIOUS
  <2>2. PICK f \in [0..0 -> Cuts] : ReadRun(f, <<>>)
    BY <2>1, ReadRunExists
  <2>3. f[0] = NothingRead
    BY <2>1, <2>2 DEF ReadRun
  <2>. QED
    BY <2>1, <2>2, <2>3, ReadAllRun
<1>2. ASSUME NEW s \in Seq(Alphabet) PROVE ReadAll(s) \in Cuts
  <2>1. PICK f \in [0..Len(s) -> Cuts] : ReadRun(f, s)
    BY ReadRunExists
  <2>2. Len(s) \in 0..Len(s)
    OBVIOUS
  <2>. QED
    BY <2>1, <2>2, ReadAllRun
<1>3. ASSUME NEW s \in Seq(Alphabet), NEW b \in Alphabet
      PROVE  ReadAll(Append(s, b)) = ReadByte(ReadAll(s), b)
  <2>. DEFINE t == Append(s, b)
  <2>1. t \in Seq(Alphabet) /\ Len(t) = Len(s) + 1 /\ t[Len(s) + 1] = b /\ \A i \in 1..Len(s) : s[i] = t[i]
    OBVIOUS
  <2>2. PICK f \in [0..Len(s) -> Cuts] : ReadRun(f, s)
    BY ReadRunExists
  <2>3. PICK g \in [0..Len(t) -> Cuts] : ReadRun(g, t)
    BY <2>1, ReadRunExists
  <2>. HIDE DEF t
  <2>4. Len(s) \in 0..Len(s) /\ Len(s) + 1 \in 0..Len(t) /\ Len(s) + 1 # 0 /\ (Len(s) + 1) - 1 = Len(s)
    BY <2>1
  <2>5. f[Len(s)] = g[Len(s)]
    BY <2>1, <2>2, <2>3, <2>4, ReadRunsAgree
  <2>6. g[Len(s) + 1] = ReadByte(g[Len(s)], b)
    BY <2>1, <2>3, <2>4 DEF ReadRun
  <2>7. ReadAll(s) = f[Len(s)] /\ ReadAll(t) = g[Len(s) + 1]
    BY <2>1, <2>2, <2>3, ReadAllRun
  <2>. QED
    BY <2>5, <2>6, <2>7 DEF t
<1>. QED
  BY <1>1, <1>2, <1>3

LEMMA Regroup ==
  ASSUME NEW a \in Seq(Alphabet), NEW b \in Seq(Alphabet), NEW c \in Seq(Alphabet)
  PROVE  a \o (b \o c) = (a \o b) \o c
BY ConcatAssociative, SMT

LEMMA AppendConcat ==
  ASSUME NEW S, NEW p \in Seq(S), NEW q \in Seq(S), NEW e \in S
  PROVE  p \o Append(q, e) = Append(p \o q, e) /\ p \o q \in Seq(S) /\ Append(q, e) \in Seq(S)
<1>1. <<e>> \in Seq(S) /\ Append(q, e) = q \o <<e>>
  BY AppendIsConcat
<1>2. p \o q \in Seq(S)
  BY ConcatProperties
<1>3. Append(p \o q, e) = (p \o q) \o <<e>>
  BY <1>2, AppendIsConcat
<1>4. (p \o q) \o <<e>> = p \o (q \o <<e>>)
  BY <1>1, ConcatAssociative
<1>. QED
  BY <1>1, <1>2, <1>3, <1>4, AppendProperties

\* Text without a newline completes no line.
LEMMA ReadText ==
  ASSUME NEW s \in Seq(Alphabet), NEW t \in Seq(Text)
  PROVE  ReadAll(s \o t) = [lines |-> ReadAll(s).lines, part |-> ReadAll(s).part \o t]
<1>. DEFINE Added(u) == [lines |-> ReadAll(s).lines, part |-> ReadAll(s).part \o u]
            Q == {u \in Seq(Text) : ReadAll(s \o u) = Added(u)}
<1>0. ReadAll(s) \in Cuts /\ ReadAll(s).part \in Seq(Text) /\ ReadAll(s).lines \in Seq(Seq(Text) \ {<<>>})
      /\ ReadAll(s) = [lines |-> ReadAll(s).lines, part |-> ReadAll(s).part]
  BY ReadAllSteps DEF Cuts
<1>1. <<>> \in Q
  <2>1. s \o <<>> = s /\ ReadAll(s).part \o <<>> = ReadAll(s).part
    BY <1>0, ConcatEmptySeq
  <2>. QED
    BY <1>0, <2>1
<1>2. ASSUME NEW u \in Q, NEW b \in Text PROVE Append(u, b) \in Q
  <2>1. u \in Seq(Text) /\ u \in Seq(Alphabet) /\ b \in Alphabet /\ b # Newline /\ Append(u, b) \in Seq(Text)
    BY TextFacts, SeqMonotonic
  <2>2. s \o Append(u, b) = Append(s \o u, b) /\ s \o u \in Seq(Alphabet)
    BY <2>1, AppendConcat
  <2>3. ReadAll(s).part \o Append(u, b) = Append(ReadAll(s).part \o u, b)
    BY <1>0, <2>1, AppendConcat
  <2>4. ReadAll(s \o Append(u, b)) = ReadByte(Added(u), b)
    BY <2>1, <2>2, ReadAllSteps
  <2>. QED
    BY <2>1, <2>3, <2>4 DEF ReadByte
<1>3. Q = Seq(Text)
  <2>1. Q \in SUBSET Seq(Text)
    OBVIOUS
  <2>. HIDE DEF Q
  <2>. QED
    BY <1>1, <1>2, <2>1, SeqSetInduction
<1>. QED
  BY <1>3

\* A newline completes the line it ends, unless that is empty.
LEMMA ReadNewline ==
  ASSUME NEW s \in Seq(Alphabet), NEW t \in Seq(Text), ReadAll(s).part = <<>>
  PROVE  /\ (s \o t) \o <<Newline>> \in Seq(Alphabet)
         /\ ReadAll((s \o t) \o <<Newline>>)
              = [lines |-> IF t = <<>> THEN ReadAll(s).lines ELSE Append(ReadAll(s).lines, t), part |-> <<>>]
<1>1. t \in Seq(Alphabet) /\ Newline \in Alphabet
  BY TextFacts, SeqMonotonic
<1>2. s \o t \in Seq(Alphabet) /\ Append(s \o t, Newline) \in Seq(Alphabet)
      /\ (s \o t) \o <<Newline>> = Append(s \o t, Newline)
  BY <1>1, ConcatProperties, AppendIsConcat, AppendProperties
<1>3. ReadAll(s \o t) = [lines |-> ReadAll(s).lines, part |-> t]
  <2>1. ReadAll(s).part \o t = t
    BY ConcatEmptySeq
  <2>. QED
    BY <2>1, ReadText
<1>4. ReadAll(Append(s \o t, Newline)) = ReadByte(ReadAll(s \o t), Newline)
  BY <1>1, <1>2, ReadAllSteps
<1>5. ReadByte([lines |-> ReadAll(s).lines, part |-> t], Newline)
        = [lines |-> IF t = <<>> THEN ReadAll(s).lines ELSE Append(ReadAll(s).lines, t), part |-> <<>>]
  BY DEF ReadByte
<1>. QED
  BY <1>2, <1>3, <1>4, <1>5

\* What was read stays read.
LEMMA ReadMore ==
  ASSUME NEW s \in Seq(Alphabet), NEW t \in Seq(Alphabet)
  PROVE  Begins(ReadAll(s).lines, ReadAll(s \o t).lines)
<1>. DEFINE L(u) == ReadAll(s \o u).lines
            Q == {u \in Seq(Alphabet) : \E v \in Seq(Seq(Text) \ {<<>>}) : L(u) = ReadAll(s).lines \o v}
            T == Seq(Text) \ {<<>>}
<1>0. ReadAll(s).lines \in Seq(T)
  BY ReadAllSteps DEF Cuts
<1>1. <<>> \in Q
  <2>1. s \o <<>> = s /\ ReadAll(s).lines \o <<>> = ReadAll(s).lines /\ <<>> \in Seq(T)
    BY <1>0, ConcatEmptySeq
  <2>2. <<>> \in Seq(Alphabet) /\ L(<<>>) = ReadAll(s).lines \o <<>>
    BY <2>1
  <2>. QED
    BY <2>1, <2>2
<1>2. ASSUME NEW u \in Q, NEW b \in Alphabet PROVE Append(u, b) \in Q
  <2>1. PICK v \in Seq(T) : L(u) = ReadAll(s).lines \o v
    OBVIOUS
  <2>2. s \o Append(u, b) = Append(s \o u, b) /\ s \o u \in Seq(Alphabet) /\ Append(u, b) \in Seq(Alphabet)
    BY AppendConcat
  <2>. DEFINE c == ReadAll(s \o u)
  <2>3. ReadAll(s \o Append(u, b)) = ReadByte(c, b) /\ c \in Cuts
    BY <2>2, ReadAllSteps
  <2>4. c.part \in Seq(Text) /\ c.lines = ReadAll(s).lines \o v
    BY <2>1, <2>3 DEF Cuts
  <2>5. L(Append(u, b)) \in {c.lines} \cup {Append(c.lines, e) : e \in T}
    <3>1. ReadByte(c, b).lines = c.lines \/ (c.part # <<>> /\ ReadByte(c, b).lines = Append(c.lines, c.part))
      BY DEF ReadByte
    <3>. QED
      BY <2>3, <2>4, <3>1
  <2>6. CASE L(Append(u, b)) = c.lines
    BY <2>2, <2>4, <2>6
  <2>7. ASSUME NEW e \in T, L(Append(u, b)) = Append(c.lines, e) PROVE Append(u, b) \in Q
    <3>1. Append(ReadAll(s).lines \o v, e) = ReadAll(s).lines \o Append(v, e) /\ Append(v, e) \in Seq(T)
      <4>. HIDE DEF T
      <4>1. ASSUME NEW p \in Seq(T), NEW q \in Seq(T), NEW x \in T
            PROVE  p \o Append(q, x) = Append(p \o q, x) /\ Append(q, x) \in Seq(T)
        BY AppendConcat
      <4>2. v \in Seq(T) /\ e \in T
        BY <2>1, <2>7
      <4>. QED
        BY <1>0, <4>1, <4>2
    <3>. QED
      BY <2>2, <2>4, <2>7, <3>1
  <2>. QED
    BY <2>5, <2>6, <2>7
<1>3. Q = Seq(Alphabet)
  <2>1. Q \in SUBSET Seq(Alphabet)
    OBVIOUS
  <2>. HIDE DEF Q
  <2>. QED
    BY <1>1, <1>2, <2>1, SeqSetInduction
<1>4. PICK v \in Seq(T) : ReadAll(s \o t).lines = ReadAll(s).lines \o v
  BY <1>3
<1>. HIDE DEF T
<1>5. ASSUME NEW p \in Seq(T) PROVE Begins(p, p \o v)
  <2>1. /\ p \o v \in Seq(T) /\ Len(p) \in Nat /\ Len(p \o v) = Len(p) + Len(v) /\ Len(v) \in Nat
        /\ \A i \in 1..Len(p) : (p \o v)[i] = p[i]
    BY ConcatProperties, LenProperties
  <2>3. SubSeq(p \o v, 1, Len(p)) \in Seq(T) /\ Len(SubSeq(p \o v, 1, Len(p))) = Len(p)
        /\ \A i \in 1..Len(p) : SubSeq(p \o v, 1, Len(p))[i] = p[i]
    BY <2>1
  <2>4. SubSeq(p \o v, 1, Len(p)) = p
    BY <2>3, SeqEqual
  <2>5. Len(p) \in 0..Len(p \o v)
    BY <2>1
  <2>. QED
    BY <2>4, <2>5, Zenon DEF Begins
<1>. QED
  BY <1>0, <1>4, <1>5

(***************************************************************************)
(* The loops of _handle_client.                                            *)
(***************************************************************************)

\* What was received is what was handled and the buffer, and between two calls of recv
\* the buffer has no newline.
LineInv ==
  /\ LineTypeOK
  /\ \E done \in Seq(Alphabet) : /\ SubSeq(sent, 1, read) = done \o buf
                                 /\ ReadAll(done) = [lines |-> lines, part |-> <<>>]
  /\ linePc \in {"recv", "ended"} => SplitDone
  /\ linePc = "ended" => read = Len(sent)
  /\ linePc = "ended" => closed
  /\ linePc = "raised" => lines # <<>> /\ HasBad(lines[Len(lines)])

LEMMA LineInitInv == LineInit => LineInv
<1>. SUFFICES ASSUME LineInit PROVE LineInv
  OBVIOUS
<1>1. LineTypeOK
  <2>1. <<>> \in Seq(Alphabet) /\ <<>> \in Seq(Seq(Byte \cup {Bad}) \ {<<>>}) /\ Len(<<>>) = 0
    BY EmptySeq
  <2>2. sent \in Seq(Alphabet) /\ buf \in Seq(Alphabet) /\ lines \in Seq(Seq(Byte \cup {Bad}) \ {<<>>})
    BY <2>1 DEF LineInit
  <2>3. read \in 0..Len(sent)
    BY <2>1 DEF LineInit
  <2>4. closed \in BOOLEAN /\ linePc \in {"recv", "split", "ended", "raised"}
    BY DEF LineInit
  <2>. QED
    BY <2>2, <2>3, <2>4 DEF LineTypeOK
<1>2. <<>> \in Seq(Alphabet) /\ SubSeq(sent, 1, read) = <<>> \o buf /\ ReadAll(<<>>) = [lines |-> lines, part |-> <<>>]
  <2>1. SubSeq(sent, 1, read) = <<>>
    BY SubSeqEmpty DEF LineInit
  <2>2. <<>> \o buf = <<>>
    BY EmptySeq, ConcatEmptySeq DEF LineInit
  <2>. QED
    BY <2>1, <2>2, ReadAllSteps DEF LineInit, NothingRead
<1>3. SplitDone
  BY EmptySeq DEF LineInit, SplitDone
<1>. QED
  BY <1>1, <1>2, <1>3 DEF LineInv, LineInit

LEMMA SendLine == ASSUME LineInv, NEW b \in Alphabet, Send(b) PROVE LineInv'
<1>1. sent \in Seq(Alphabet) /\ sent' = Append(sent, b) /\ read \in 0..Len(sent)
      /\ UNCHANGED <<read, closed, buf, lines, linePc>> /\ ~closed
  BY DEF LineInv, LineTypeOK, Send
<1>2. LineTypeOK'
  BY <1>1 DEF LineInv, LineTypeOK
<1>3. SubSeq(sent', 1, read') = SubSeq(sent, 1, read)
  <2>1. SubSeq(sent', 1, read) \in Seq(Alphabet) /\ Len(SubSeq(sent', 1, read)) = read
        /\ \A i \in 1..read : SubSeq(sent', 1, read)[i] = sent[i]
    BY <1>1
  <2>2. SubSeq(sent, 1, read) \in Seq(Alphabet) /\ Len(SubSeq(sent, 1, read)) = read
        /\ \A i \in 1..read : SubSeq(sent, 1, read)[i] = sent[i]
    BY <1>1
  <2>. QED
    BY <1>1, <2>1, <2>2, SeqEqual
<1>. QED
  BY <1>1, <1>2, <1>3 DEF LineInv, SplitDone

LEMMA RecvLine == ASSUME LineInv, Recv PROVE LineInv'
<1>1. PICK n \in 1..MaxChunk :
        /\ read + n <= Len(sent)
        /\ read' = read + n /\ buf' = buf \o SubSeq(sent, read + 1, read + n)
  BY DEF Recv
<1>2. linePc' = "split" /\ UNCHANGED <<sent, closed, lines>>
  BY DEF Recv
<1>3. sent \in Seq(Alphabet) /\ read \in 0..Len(sent) /\ buf \in Seq(Alphabet) /\ n \in Nat
  BY <1>1, LineAssumption DEF LineInv, LineTypeOK
<1>. DEFINE piece == SubSeq(sent, read + 1, read + n)
<1>4. piece \in Seq(Alphabet)
  BY <1>1, <1>3
<1>5. SubSeq(sent, 1, read + n) = SubSeq(sent, 1, read) \o piece
  BY <1>1, <1>3, ConcatAdjacentSubSeq
<1>. HIDE DEF piece
<1>6. PICK done \in Seq(Alphabet) : SubSeq(sent, 1, read) = done \o buf
                                    /\ ReadAll(done) = [lines |-> lines, part |-> <<>>]
  BY DEF LineInv
<1>7. SubSeq(sent', 1, read') = done \o buf'
  <2>1. (done \o buf) \o piece = done \o (buf \o piece)
    BY <1>3, <1>4, Regroup
  <2>2. buf' = buf \o piece
    BY <1>1 DEF piece
  <2>. QED
    BY <1>1, <1>2, <1>5, <1>6, <2>1, <2>2
<1>8. LineTypeOK'
  <2>1. buf' \in Seq(Alphabet)
    BY <1>1, <1>3, <1>4, ConcatProperties DEF piece
  <2>. QED
    BY <1>1, <1>2, <1>3, <2>1 DEF LineInv, LineTypeOK
<1>. QED
  BY <1>2, <1>6, <1>7, <1>8 DEF LineInv

LEMMA SplitStep == ASSUME LineInv, SplitLine PROVE LineInv'
<1>. DEFINE first(i) == buf[i] = Newline /\ \A j \in 1..i - 1 : buf[j] # Newline
            at == CHOOSE i \in 1..Len(buf) : first(i)
            line == SubSeq(buf, 1, at - 1)
            more == SubSeq(buf, at + 1, Len(buf))
<1>1. sent \in Seq(Alphabet) /\ read \in 0..Len(sent) /\ buf \in Seq(Alphabet)
      /\ lines \in Seq(Seq(Text) \ {<<>>}) /\ closed \in BOOLEAN
  BY DEF LineInv, LineTypeOK, Text
<1>2. at \in 1..Len(buf) /\ first(at)
  <2>. DEFINE ends == {i \in 1..Len(buf) : buf[i] = Newline}
  <2>1. PICK e \in 1..Len(buf) : buf[e] = Newline
    BY <1>1 DEF SplitLine, SplitDone
  <2>2. PICK i \in ends : \A j \in ends : i <= j
    <3>1. ends \in SUBSET Nat /\ ends # {}
      BY <2>1
    <3>. HIDE DEF ends
    <3>. QED
      BY <3>1, LeastNumber
  <2>3. first(i) /\ i \in 1..Len(buf)
    BY <1>1, <2>2
  <2>. HIDE DEF first
  <2>. QED
    BY <2>3
<1>. HIDE DEF at
<1>3. /\ buf' = more /\ lines' = Handle(line)
      /\ linePc' = (IF HasBad(line) THEN "raised" ELSE "split")
      /\ UNCHANGED <<sent, read, closed>>
  BY DEF SplitLine, Rest, at
<1>4. line \in Seq(Text) /\ line \in Seq(Alphabet) /\ more \in Seq(Alphabet) /\ Len(line) = at - 1
  <2>1. \A i \in 1..at - 1 : buf[i] \in Text
    BY <1>1, <1>2, TextFacts
  <2>2. line \in Seq(Text)
    BY <1>2, <2>1, SubSeqProperties
  <2>. QED
    BY <1>1, <1>2, <2>2
<1>5. buf = (line \o <<Newline>>) \o more
  <2>1. SubSeq(buf, 1, at) = line \o <<Newline>>
    BY <1>1, <1>2, SubSeqRecursiveSecond
  <2>2. SubSeq(buf, 1, at) \o more = SubSeq(buf, 1, Len(buf))
    BY <1>1, <1>2, ConcatAdjacentSubSeq
  <2>. QED
    BY <1>1, <2>1, <2>2, SubSeqFull
<1>. HIDE DEF line, more
<1>6. PICK done \in Seq(Alphabet) : SubSeq(sent, 1, read) = done \o buf
                                    /\ ReadAll(done) = [lines |-> lines, part |-> <<>>]
  BY DEF LineInv
<1>. DEFINE now == (done \o line) \o <<Newline>>
<1>7. now \in Seq(Alphabet) /\ ReadAll(now) = [lines |-> Handle(line), part |-> <<>>]
  <2>1. ReadAll(done).part = <<>> /\ ReadAll(done).lines = lines
    BY <1>6
  <2>. QED
    BY <1>4, <2>1, ReadNewline DEF Handle
<1>8. SubSeq(sent, 1, read) = now \o more
  <2>0. <<Newline>> \in Seq(Alphabet)
    BY TextFacts
  <2>1. line \o <<Newline>> \in Seq(Alphabet)
    BY <1>4, <2>0, ConcatProperties
  <2>2. done \o ((line \o <<Newline>>) \o more) = (done \o (line \o <<Newline>>)) \o more
    BY <1>4, <2>1, Regroup
  <2>3. done \o (line \o <<Newline>>) = now
    BY <1>4, <2>0, Regroup
  <2>. QED
    BY <1>5, <1>6, <2>2, <2>3
<1>. HIDE DEF now
<1>9. Handle(line) \in Seq(Seq(Text) \ {<<>>})
      /\ (line # <<>> => Handle(line) # <<>> /\ Handle(line)[Len(Handle(line))] = line)
  <2>1. CASE line = <<>>
    BY <1>1, <2>1 DEF Handle
  <2>2. CASE line # <<>>
    <3>1. line \in Seq(Text) \ {<<>>} /\ Handle(line) = Append(lines, line)
      BY <1>4, <2>2 DEF Handle
    <3>. DEFINE T == Seq(Text) \ {<<>>}
    <3>. HIDE DEF T
    <3>2. line \in T /\ lines \in Seq(T)
      BY <1>1, <3>1 DEF T
    <3>3. Append(lines, line) \in Seq(T) /\ Append(lines, line) # <<>> /\ Append(lines, line)[Len(Append(lines, line))] = line
      BY <3>2, AppendProperties
    <3>. QED
      BY <3>1, <3>3 DEF T
  <2>. QED
    BY <2>1, <2>2
<1>10. HasBad(line) => line # <<>>
  BY EmptySeq DEF HasBad
<1>11. LineTypeOK'
  BY <1>1, <1>3, <1>4, <1>9 DEF LineTypeOK, Text
<1>12. linePc' \in {"raised", "split"} /\ (linePc' = "raised" => HasBad(line))
  BY <1>3
<1>. QED
  BY <1>3, <1>7, <1>8, <1>9, <1>10, <1>11, <1>12 DEF LineInv

LEMMA LineStep == ASSUME LineInv, [LineNext]_lineVars PROVE LineInv'
<1>1. CASE UNCHANGED lineVars
  BY <1>1 DEF lineVars, SplitDone, LineInv, LineTypeOK
<1>2. CASE Close
  BY <1>2 DEF Close, SplitDone, LineInv, LineTypeOK
<1>3. CASE End
  BY <1>3 DEF End, SplitDone, LineInv, LineTypeOK
<1>4. CASE NoLineLeft
  BY <1>4 DEF NoLineLeft, SplitDone, LineInv, LineTypeOK
<1>. QED
  BY <1>1, <1>2, <1>3, <1>4, SendLine, RecvLine, SplitStep DEF LineNext

\* The lines survive the stream: for any bytes, any length of the stream and any limit of a
\* recv, what _handle_line gets is what a reader of single bytes finds, each line once and in
\* order, all of them when the peer has hung up, unless one raised.
THEOREM SocketLinesAreKept == LineSpec => []LinesAreKept
<1>1. LineInv => LinesAreKept
  <2>. SUFFICES ASSUME LineInv PROVE LinesAreKept
    OBVIOUS
  <2>1. sent \in Seq(Alphabet) /\ read \in 0..Len(sent) /\ buf \in Seq(Alphabet)
    BY DEF LineInv, LineTypeOK
  <2>2. PICK done \in Seq(Alphabet) : SubSeq(sent, 1, read) = done \o buf
                                      /\ ReadAll(done) = [lines |-> lines, part |-> <<>>]
    BY DEF LineInv
  <2>3. ReadAll(done).lines = lines
    BY <2>2
  <2>4. Begins(lines, WholeLines(sent))
    <3>. DEFINE later == SubSeq(sent, read + 1, Len(sent))
    <3>1. later \in Seq(Alphabet) /\ sent = (done \o buf) \o later
      <4>1. SubSeq(sent, 1, read) \o later = SubSeq(sent, 1, Len(sent))
        <5>1. 1 \in 1..Len(sent) + 1 /\ read \in 1 - 1..Len(sent) /\ Len(sent) \in read..Len(sent)
          BY <2>1
        <5>. QED
          BY <2>1, <5>1, ConcatAdjacentSubSeq
      <4>2. later \in Seq(Alphabet)
        BY <2>1
      <4>3. SubSeq(sent, 1, Len(sent)) = sent
        BY <2>1, SubSeqFull
      <4>. QED
        BY <2>2, <4>1, <4>2, <4>3
    <3>. HIDE DEF later
    <3>2. sent = done \o (buf \o later) /\ buf \o later \in Seq(Alphabet)
      <4>1. (done \o buf) \o later = done \o (buf \o later)
        BY <2>1, <3>1, Regroup
      <4>2. buf \o later \in Seq(Alphabet)
        BY <2>1, <3>1, ConcatProperties
      <4>. QED
        BY <3>1, <4>1, <4>2
    <3>. QED
      BY <2>3, <3>2, ReadMore DEF WholeLines
  <2>5. ASSUME linePc \in {"recv", "ended"} PROVE lines = WholeLines(SubSeq(sent, 1, read))
    <3>1. buf \in Seq(Text)
      <4>1. \A i \in 1..Len(buf) : buf[i] \in Text
        BY <2>1, <2>5, TextFacts DEF LineInv, SplitDone
      <4>. QED
        BY <2>1, <4>1
    <3>2. ReadAll(done \o buf).lines = ReadAll(done).lines
      BY <3>1, ReadText
    <3>. QED
      BY <2>2, <2>3, <3>2 DEF WholeLines
  <2>6. linePc = "ended" => SubSeq(sent, 1, read) = sent
    BY <2>1, SubSeqFull DEF LineInv
  <2>. QED
    BY <2>4, <2>5, <2>6 DEF LineInv, LinesAreKept, LinesInOrder, NothingLost
<1>. QED
  BY <1>1, LineInitInv, LineStep, PTL DEF LineSpec

-----------------------------------------------------------------------------
(***************************************************************************)
(* PadX and PadSDL, for any controls, devices, backend and slot.           *)
(***************************************************************************)

Controls == Control \cup Firm
Chord == {4, 5, 6, LT, RT}

\* The pad in use is there, or its absence was noticed.
PadKnown ==
  /\ dropped \in BOOLEAN
  /\ (pad \notin connected \/ gpPc = "lost") => dropped

\* The reads that are over and whose results are kept.
WasRead(n) == n < next /\ (n \in ChordReads => next \in ChordReads)

\* While a packet is built, what was held throughout is in what the reads see and that is in
\* what was ever pressed; what they found lies between the two, and of XInput it is the copy.
FrameInv ==
  /\ gpPc \in {"reading", "write"} =>
       /\ next \in 1..21 /\ (next <= 20 => Plan[next] \in Controls)
       /\ \A n \in got : WasRead(n) /\ Plan[n] \in ever
       /\ \A n \in 1..20 : WasRead(n) /\ Plan[n] \in kept => n \in got
       /\ next \notin ChordReads => ~(Chord \subseteq kept)
       /\ pad[1] = "x" => /\ kept \subseteq st /\ st \subseteq ever
                          /\ \A n \in 1..20 : WasRead(n) => (n \in got <=> Plan[n] \in st)
  /\ gpPc = "reading" /\ pad[1] # "x" => kept \subseteq live /\ live \subseteq ever
  /\ gpPc = "write" => next = 21 /\ (pad[1] = "x" => hat = HatOf(st))
  /\ gpPc = "chord" => Chord \subseteq ever

GpInv == GamePadTypeOK /\ PadKnown /\ FrameInv

(***************************************************************************)
(* The order of the reads.                                                 *)
(***************************************************************************)
LEMMA PlanFacts ==
  /\ Len(Plan) = 20 /\ ChordReads = 1..5
  /\ \A n \in 1..5 : Plan[n] \in Chord
  /\ \A c \in Chord : \E n \in 1..5 : Plan[n] = c
  BY DEF Plan, ChordReads, Chord, LT, RT

LEMMA ReadAfterFacts ==
  ASSUME NEW n \in 0..20
  PROVE  /\ ReadAfter(n) \in n + 1..21
         /\ ReadAfter(n) <= 20 => Plan[ReadAfter(n)] \in Controls
         /\ \A m \in n + 1..20 : m < ReadAfter(n) => Plan[m] \notin Controls
<1>1. After(n) = {m \in n + 1..20 : Plan[m] \in Controls}
  BY PlanFacts DEF After, Controls
<1>2. CASE After(n) = {}
  BY <1>1, <1>2, PlanFacts DEF ReadAfter
<1>3. CASE After(n) # {}
  <2>1. PICK m \in After(n) : \A k \in After(n) : m <= k
    BY <1>1, <1>3, LeastNumber
  <2>2. ReadAfter(n) \in After(n) /\ \A k \in After(n) : ReadAfter(n) <= k
    BY <1>3, <2>1 DEF ReadAfter
  <2>. QED
    BY <1>1, <2>2
<1>. QED
  BY <1>2, <1>3

(***************************************************************************)
(* What the reads found, as a packet.                                      *)
(***************************************************************************)
LEMMA MapDomain == DOMAIN BTN_MAP = 0..7 \cup {9, 10}
  BY DEF BTN_MAP

\* If the reads found all of low and nothing but high, the packet says at least what low
\* means and at most what high does.
LEMMA PacketBetween ==
  ASSUME NEW low, NEW high, got \subseteq 6..20,
         \A n \in 6..20 : Plan[n] \in low => n \in got,
         \A n \in got : Plan[n] \in high
  PROVE  Meaning(low) \subseteq Packet /\ Packet \subseteq Meaning(high)
<1>1. ASSUME NEW b \in Meaning(low) PROVE b \in Packet
  <2>1. CASE b \in {BTN_MAP[i] : i \in DOMAIN BTN_MAP \cap low}
    <3>1. PICK i \in DOMAIN BTN_MAP \cap low : b = BTN_MAP[i]
      BY <2>1
    <3>2. PICK n \in 6..15 : Plan[n] = i
      BY MapDomain DEF Plan
    <3>3. n \in got /\ b \in Bit(n)
      BY <3>1, <3>2 DEF Bit
    <3>. QED
      BY <3>3 DEF Packet
  <2>2. CASE b = "HOME" /\ ({6, 7} \subseteq low \/ 8 \in low)
    <3>1. Plan[16] = 6 /\ Plan[17] = 7 /\ Plan[18] = 8
      BY DEF Plan
    <3>2. {16, 17} \subseteq got \/ 18 \in got
      BY <2>2, <3>1
    <3>. QED
      BY <2>2, <3>2 DEF Packet, HomeBit
  <2>3. CASE b = "ZL" /\ LT \in low
    <3>1. 19 \in got /\ b \in Bit(19)
      BY <2>3 DEF Plan, Bit
    <3>. QED
      BY <3>1 DEF Packet
  <2>4. CASE b = "ZR" /\ RT \in low
    <3>1. 20 \in got /\ b \in Bit(20)
      BY <2>4 DEF Plan, Bit
    <3>. QED
      BY <3>1 DEF Packet
  <2>. QED
    BY <1>1, <2>1, <2>2, <2>3, <2>4 DEF Meaning
<1>2. ASSUME NEW b \in Packet PROVE b \in Meaning(high)
  <2>1. CASE b \in HomeBit
    <3>1. Plan[16] = 6 /\ Plan[17] = 7 /\ Plan[18] = 8
      BY DEF Plan
    <3>2. b = "HOME" /\ ({16, 17} \subseteq got \/ 18 \in got)
      BY <2>1 DEF HomeBit
    <3>3. {6, 7} \subseteq high \/ 8 \in high
      BY <3>1, <3>2
    <3>. QED
      BY <3>2, <3>3 DEF Meaning
  <2>2. ASSUME NEW n \in got, b \in Bit(n) PROVE b \in Meaning(high)
    <3>1. CASE n \in 6..15
      <4>1. b = BTN_MAP[Plan[n]] /\ Plan[n] \in high
        BY <2>2, <3>1 DEF Bit
      <4>2. Plan[n] \in DOMAIN BTN_MAP
        BY <3>1, MapDomain DEF Plan
      <4>. QED
        BY <4>1, <4>2 DEF Meaning
    <3>2. CASE n = 19
      <4>1. b = "ZL" /\ LT \in high
        BY <2>2, <3>2 DEF Bit, Plan
      <4>. QED
        BY <4>1 DEF Meaning
    <3>3. CASE n = 20
      <4>1. b = "ZR" /\ RT \in high
        BY <2>2, <3>3 DEF Bit, Plan
      <4>. QED
        BY <4>1 DEF Meaning
    <3>4. CASE n \in 16..18
      BY <2>2, <3>4 DEF Bit
    <3>. QED
      BY <3>1, <3>2, <3>3, <3>4
  <2>. QED
    BY <1>2, <2>1, <2>2 DEF Packet
<1>. QED
  BY <1>1, <1>2

(***************************************************************************)
(* The steps.                                                              *)
(***************************************************************************)
LEMMA ChoiceIsThere == create_controller \subseteq connected
  BY DEF create_controller, XChoice, SdlChoice, Of

LEMMA HatType == ASSUME NEW s PROVE HatOf(s) \in {-1, 0, 1} \X {-1, 0, 1}
  BY DEF HatOf

LEMMA GamePadInitInv == GamePadInit => GpInv
<1>. SUFFICES ASSUME GamePadInit PROVE GpInv
  OBVIOUS
<1>1. pad \in connected /\ connected \subseteq {"x", "sdl"} \X Number
  BY ChoiceIsThere DEF GamePadInit
<1>2. GamePadTypeOK
  BY <1>1, PlanFacts DEF GamePadInit, GamePadTypeOK
<1>3. PadKnown
  BY <1>1 DEF GamePadInit, PadKnown
<1>4. FrameInv
  BY DEF GamePadInit, FrameInv
<1>. QED
  BY <1>2, <1>3, <1>4 DEF GpInv

\* A player changes what the reads may see, not what they have seen.
LEMMA FrameKept ==
  ASSUME FrameInv, UNCHANGED <<pad, st, gpPc, next, got, hat>>,
         kept' \subseteq kept, ever \subseteq ever',
         (gpPc = "reading" /\ pad[1] # "x") => kept' \subseteq live' /\ live' \subseteq ever'
  PROVE  FrameInv'
<1>1. \A n \in 1..20 : WasRead(n)' <=> WasRead(n)
  BY DEF WasRead
<1>2. ASSUME gpPc \in {"reading", "write"}
      PROVE  /\ next \in 1..21 /\ (next <= 20 => Plan[next] \in Controls)
             /\ \A n \in got : WasRead(n)' /\ Plan[n] \in ever'
             /\ \A n \in 1..20 : WasRead(n)' /\ Plan[n] \in kept' => n \in got
             /\ next \notin ChordReads => ~(Chord \subseteq kept')
             /\ pad[1] = "x" => /\ kept' \subseteq st /\ st \subseteq ever'
                                /\ \A n \in 1..20 : WasRead(n)' => (n \in got <=> Plan[n] \in st)
  BY <1>2 DEF FrameInv, WasRead
<1>3. gpPc = "write" => next = 21 /\ (pad[1] = "x" => hat = HatOf(st))
  BY DEF FrameInv
<1>4. gpPc = "chord" => Chord \subseteq ever'
  BY DEF FrameInv
<1>. QED
  BY <1>2, <1>3, <1>4 DEF FrameInv, HatOf

LEMMA TurnStep == ASSUME GpInv, NEW c \in Control, Turn(c) PROVE GpInv'
<1>1. /\ live' \subseteq live \cup {c} /\ UNCHANGED <<connected, pad, st, gpPc, next, got, hat, dropped>>
      /\ gpPc = "reading" => ever' = ever \cup live' /\ kept' = kept \cap live'
      /\ gpPc # "reading" => UNCHANGED <<ever, kept>>
  BY DEF Turn, gpFrame
<1>2. GamePadTypeOK'
  BY <1>1 DEF GpInv, GamePadTypeOK
<1>3. PadKnown'
  BY <1>1 DEF GpInv, PadKnown
<1>4. kept' \subseteq kept /\ ever \subseteq ever' /\ (gpPc = "reading" => kept' \subseteq live' /\ live' \subseteq ever')
  BY <1>1
<1>5. FrameInv'
  BY <1>1, <1>4, FrameKept DEF GpInv
<1>. QED
  BY <1>2, <1>3, <1>5 DEF GpInv

LEMMA PlugStep == ASSUME GpInv, NEW d \in {"x", "sdl"} \X Number, Plug(d) PROVE GpInv'
<1>1. /\ connected' = connected \cup {d}
      /\ live' \in {live, Firm} /\ (pad[1] # "x" => live' = live)
      /\ UNCHANGED <<pad, st, gpPc, next, got, hat, ever, kept, dropped>>
  BY DEF Plug, gpFrame, gpHistory
<1>2. GamePadTypeOK'
  BY <1>1 DEF GpInv, GamePadTypeOK
<1>3. PadKnown'
  BY <1>1 DEF GpInv, PadKnown
<1>4. (gpPc = "reading" /\ pad[1] # "x") => kept' \subseteq live' /\ live' \subseteq ever'
  BY <1>1 DEF GpInv, FrameInv
<1>5. FrameInv'
  BY <1>1, <1>4, FrameKept DEF GpInv
<1>. QED
  BY <1>2, <1>3, <1>5 DEF GpInv

LEMMA UnplugStep == ASSUME GpInv, NEW d \in {"x", "sdl"} \X Number, Unplug(d) PROVE GpInv'
<1>1. /\ connected' = connected \ {d} /\ dropped' = (dropped \/ d = pad)
      /\ (live' = {} /\ kept' = {}) \/ (UNCHANGED <<live, kept>>)
      /\ UNCHANGED <<pad, st, gpPc, next, got, hat, ever>>
  BY DEF Unplug, gpFrame
<1>2. GamePadTypeOK'
  BY <1>1 DEF GpInv, GamePadTypeOK
<1>3. PadKnown'
  <2>1. dropped' \in BOOLEAN
    BY <1>1
  <2>2. (pad \notin connected' \/ gpPc = "lost") => dropped'
    BY <1>1 DEF GpInv, PadKnown
  <2>. QED
    BY <1>1, <2>1, <2>2 DEF PadKnown
<1>4. kept' \subseteq kept /\ ((gpPc = "reading" /\ pad[1] # "x") => kept' \subseteq live' /\ live' \subseteq ever')
  BY <1>1 DEF GpInv, FrameInv
<1>5. FrameInv'
  BY <1>1, <1>4, FrameKept DEF GpInv
<1>. QED
  BY <1>2, <1>3, <1>5 DEF GpInv

LEMMA OkStep == ASSUME GpInv, Ok PROVE GpInv'
<1>1. /\ gpPc = "asleep" /\ pad \in connected
      /\ st' = (IF pad[1] = "x" THEN live ELSE {})
      /\ gpPc' = "reading" /\ next' = ReadAfter(0) /\ got' = {}
      /\ ever' = live /\ kept' = live /\ dropped' = FALSE
      /\ UNCHANGED <<connected, live, pad, hat>>
  BY DEF Ok, Attached
<1>2. live \subseteq Controls
  BY DEF GpInv, GamePadTypeOK, Controls
<1>3. /\ next' \in 1..21 /\ (next' <= 20 => Plan[next'] \in Controls)
      /\ \A n \in 1..20 : n < next' => Plan[n] \notin Controls
  BY <1>1, ReadAfterFacts
<1>4. GamePadTypeOK'
  BY <1>1, <1>3, PlanFacts DEF GpInv, GamePadTypeOK
<1>5. PadKnown'
  BY <1>1 DEF PadKnown
<1>6. next' \notin ChordReads => ~(Chord \subseteq kept')
  BY <1>1, <1>2, <1>3, PlanFacts
<1>7. FrameInv'
  <2>1. \A n \in 1..20 : WasRead(n)' => Plan[n] \notin live
    BY <1>2, <1>3 DEF WasRead
  <2>2. pad[1] = "x" => st' = live
    BY <1>1
  <2>3. gpPc' # "write" /\ gpPc' # "chord"
    BY <1>1
  <2>. QED
    BY <1>1, <1>3, <1>6, <2>1, <2>2, <2>3 DEF FrameInv
<1>. QED
  BY <1>4, <1>5, <1>7 DEF GpInv

LEMMA NotOkStep == ASSUME GpInv, NotOk PROVE GpInv'
<1>1. /\ gpPc' = "lost" /\ ~Attached
      /\ UNCHANGED <<connected, live, pad, st, next, got, hat, ever, kept, dropped>>
  BY DEF NotOk, gpHistory
<1>2. dropped
  BY <1>1 DEF Attached, GpInv, PadKnown
<1>3. GamePadTypeOK' /\ PadKnown'
  BY <1>1, <1>2 DEF GpInv, GamePadTypeOK, PadKnown
<1>4. FrameInv'
  BY <1>1 DEF FrameInv
<1>. QED
  BY <1>3, <1>4 DEF GpInv

LEMMA ReadHatStep == ASSUME GpInv, ReadHat PROVE GpInv'
<1>1. /\ gpPc = "reading" /\ next = 21 /\ hat' = HatOf(View) /\ gpPc' = "write"
      /\ UNCHANGED <<connected, live, pad, st, next, got, ever, kept, dropped>>
  BY PlanFacts DEF ReadHat, gpHistory
<1>2. GamePadTypeOK' /\ PadKnown'
  BY <1>1, HatType DEF GpInv, GamePadTypeOK, PadKnown
<1>3. pad[1] = "x" => hat' = HatOf(st)
  BY <1>1 DEF View
<1>4. \A n \in 1..20 : WasRead(n)' <=> WasRead(n)
  BY <1>1 DEF WasRead
<1>5. \A n \in got : n \in 1..20
  BY PlanFacts DEF GpInv, GamePadTypeOK
<1>6. HatOf(st)' = HatOf(st)
  BY <1>1 DEF HatOf
<1>7. FrameInv'
  BY <1>1, <1>3, <1>4, <1>5, <1>6 DEF GpInv, FrameInv
<1>. QED
  BY <1>2, <1>7 DEF GpInv

LEMMA WriteGamePadStep == ASSUME GpInv, WriteGamePad PROVE GpInv'
<1>1. /\ gpPc' = "asleep" /\ next' = 0 /\ got' = {} /\ hat' = <<0, 0>> /\ st' = {} /\ ever' = {} /\ kept' = {}
      /\ gpPc = "write" /\ UNCHANGED <<connected, live, pad, dropped>>
  BY DEF WriteGamePad
<1>2. GamePadTypeOK' /\ PadKnown'
  BY <1>1, PlanFacts DEF GpInv, GamePadTypeOK, PadKnown
<1>3. FrameInv'
  BY <1>1 DEF FrameInv
<1>. QED
  BY <1>2, <1>3 DEF GpInv

LEMMA RecreateStep == ASSUME GpInv, Recreate PROVE GpInv'
<1>1. gpPc = "lost" /\ UNCHANGED <<connected, st, next, got, hat, ever, kept>>
  BY DEF Recreate
<1>2. CASE gpPc' = "none" /\ UNCHANGED <<pad, live, dropped>>
  <2>1. GamePadTypeOK' /\ PadKnown'
    BY <1>1, <1>2 DEF GpInv, GamePadTypeOK, PadKnown
  <2>2. FrameInv'
    BY <1>2 DEF FrameInv
  <2>. QED
    BY <2>1, <2>2 DEF GpInv
<1>3. ASSUME NEW d \in create_controller, pad' = d, live' = Fresh(d), gpPc' = "asleep", dropped' = FALSE
      PROVE  GpInv'
  <2>1. d \in connected /\ live' \in {live, Firm}
    BY <1>3, ChoiceIsThere DEF Fresh
  <2>2. GamePadTypeOK' /\ PadKnown'
    BY <1>1, <1>3, <2>1 DEF GpInv, GamePadTypeOK, PadKnown
  <2>3. FrameInv'
    BY <1>3 DEF FrameInv
  <2>. QED
    BY <2>2, <2>3 DEF GpInv
<1>. QED
  BY <1>2, <1>3 DEF Recreate

LEMMA ReadControlStep == ASSUME GpInv, ReadControl PROVE GpInv'
<1>. DEFINE now == IF Plan[next] \in View THEN got \cup {next} ELSE got
            then == ReadAfter(next)
<1>1. /\ gpPc = "reading" /\ next <= 20 /\ next' = then
      /\ gpPc' = (IF ChordReads \subseteq now THEN "chord" ELSE "reading")
      /\ got' = (IF then \in ChordReads THEN now ELSE now \ ChordReads)
      /\ UNCHANGED <<connected, live, pad, st, hat, ever, kept, dropped>>
  BY PlanFacts DEF ReadControl, gpHistory
<1>2. /\ next \in 1..20 /\ Plan[next] \in Controls /\ got \subseteq 1..20
      /\ \A n \in got : WasRead(n) /\ Plan[n] \in ever
      /\ \A n \in 1..20 : WasRead(n) /\ Plan[n] \in kept => n \in got
      /\ next \notin ChordReads => ~(Chord \subseteq kept)
      /\ pad[1] = "x" => \A n \in 1..20 : WasRead(n) => (n \in got <=> Plan[n] \in st)
  BY <1>1, PlanFacts DEF GpInv, GamePadTypeOK, FrameInv
<1>3. kept \subseteq View /\ View \subseteq ever /\ kept \subseteq Controls
      /\ (pad[1] = "x" => View = st /\ kept \subseteq st /\ st \subseteq ever /\ st \subseteq Controls)
      /\ (pad[1] # "x" => kept \subseteq live /\ live \subseteq ever)
  BY <1>1 DEF GpInv, GamePadTypeOK, FrameInv, View, Controls
<1>4. /\ then \in next + 1..21 /\ (then <= 20 => Plan[then] \in Controls)
      /\ \A m \in next + 1..20 : m < then => Plan[m] \notin Controls
  BY <1>2, ReadAfterFacts
<1>. HIDE DEF then
<1>5. \A n \in now : n \in 1..20 /\ n <= next /\ Plan[n] \in ever /\ (n \in ChordReads => next \in ChordReads)
  BY <1>2, <1>3 DEF WasRead
<1>6. ASSUME NEW n \in 1..20, n < then, n \in ChordReads => next \in ChordReads
      PROVE  /\ Plan[n] \in kept => n \in now
             /\ pad[1] = "x" => (n \in now <=> Plan[n] \in st)
  <2>1. CASE n < next
    BY <1>2, <1>6, <2>1 DEF WasRead
  <2>2. CASE n = next
    <3>1. n \in now <=> Plan[n] \in View
      BY <1>2, <2>2 DEF WasRead
    <3>. QED
      BY <1>3, <3>1
  <2>3. CASE n > next
    <3>1. Plan[n] \notin Controls /\ n \notin now
      BY <1>2, <1>4, <1>5, <1>6, <2>3
    <3>. QED
      BY <1>3, <3>1
  <2>. QED
    BY <1>2, <2>1, <2>2, <2>3
<1>. HIDE DEF now
<1>7. /\ \A n \in got' : n \in now /\ (n \in ChordReads => then \in ChordReads)
      /\ \A n \in now : (n \in ChordReads => then \in ChordReads) => n \in got'
  BY <1>1
<1>8. \A n \in 1..20 : WasRead(n)' <=> (n < then /\ (n \in ChordReads => then \in ChordReads))
  BY <1>1 DEF WasRead
<1>9. then \in ChordReads => next \in ChordReads
  BY <1>2, <1>4, PlanFacts
<1>10. GamePadTypeOK'
  <2>1. got' \subseteq 1..20 /\ next' \in 0..21 /\ gpPc' \in {"chord", "reading"}
    BY <1>1, <1>4, <1>2, <1>5, <1>7
  <2>. QED
    BY <1>1, <2>1, PlanFacts DEF GpInv, GamePadTypeOK
<1>11. PadKnown'
  BY <1>1 DEF GpInv, PadKnown
<1>12. gpPc' = "chord" => Chord \subseteq ever'
  BY <1>1, <1>5, PlanFacts
<1>13. ASSUME gpPc' = "reading", then \notin ChordReads, Chord \subseteq kept PROVE FALSE
  <2>1. next \in ChordReads
    BY <1>2, <1>13
  <2>2. \A n \in 1..5 : Plan[n] \in kept /\ Plan[n] \in Controls /\ n < then
    BY <1>2, <1>3, <1>4, <1>13, PlanFacts
  <2>3. \A n \in 1..5 : n \in now
    BY <1>6, <2>1, <2>2
  <2>. QED
    BY <1>1, <1>13, <2>3, PlanFacts
<1>14. FrameInv'
  <2>1. \A n \in got' : WasRead(n)' /\ Plan[n] \in ever'
    BY <1>1, <1>2, <1>4, <1>5, <1>7, <1>8
  <2>2. \A n \in 1..20 : WasRead(n)' /\ Plan[n] \in kept' => n \in got'
    BY <1>1, <1>6, <1>7, <1>8, <1>9
  <2>3. pad[1] = "x" => \A n \in 1..20 : WasRead(n)' => (n \in got' <=> Plan[n] \in st')
    BY <1>1, <1>6, <1>7, <1>8, <1>9
  <2>4. next' \in 1..21 /\ (next' <= 20 => Plan[next'] \in Controls)
    BY <1>1, <1>2, <1>4
  <2>5. gpPc' = "reading" => (next' \notin ChordReads => ~(Chord \subseteq kept'))
    BY <1>1, <1>13
  <2>6. gpPc' \in {"chord", "reading"}
    BY <1>1
  <2>. QED
    BY <1>1, <1>3, <1>12, <2>1, <2>2, <2>3, <2>4, <2>5, <2>6 DEF FrameInv
<1>. QED
  BY <1>10, <1>11, <1>14 DEF GpInv

LEMMA GamePadStep == ASSUME GpInv, [GamePadNext]_gamepadVars PROVE GpInv'
<1>1. CASE UNCHANGED gamepadVars
  <2>1. UNCHANGED <<connected, live, pad, st, gpPc, next, got, hat, ever, kept, dropped>>
    BY <1>1 DEF gamepadVars, gpFrame, gpHistory
  <2>2. FrameInv'
    BY <2>1, FrameKept DEF GpInv, FrameInv
  <2>. QED
    BY <2>1, <2>2 DEF GpInv, GamePadTypeOK, PadKnown
<1>. QED
  BY <1>1, TurnStep, PlugStep, UnplugStep, OkStep, NotOkStep, ReadControlStep, ReadHatStep,
     WriteGamePadStep, RecreateStep DEF GamePadNext

\* What a packet says when it is written.
LEMMA PacketFacts ==
  GpInv => /\ GamePadTypeOK /\ PacketIsOneMoment /\ PacketIsTrue /\ ChordEndsStream
<1>. SUFFICES ASSUME GpInv PROVE PacketIsOneMoment /\ PacketIsTrue /\ ChordEndsStream
  BY DEF GpInv
<1>1. ASSUME gpPc = "write"
      PROVE  /\ got \subseteq 6..20 /\ \A n \in 6..20 : WasRead(n)
             /\ Meaning(kept) \subseteq Packet /\ Packet \subseteq Meaning(ever)
  <2>1. next = 21 /\ next \notin ChordReads
    BY <1>1, PlanFacts DEF GpInv, FrameInv
  <2>2. \A n \in got : n \in 1..20 /\ n \notin ChordReads /\ Plan[n] \in ever
    BY <1>1, <2>1, PlanFacts DEF GpInv, GamePadTypeOK, FrameInv, WasRead
  <2>3. \A n \in 6..20 : WasRead(n) /\ n \in 1..20
    BY <2>1, PlanFacts DEF WasRead
  <2>4. got \subseteq 6..20
    BY <2>2, PlanFacts
  <2>5. \A n \in 6..20 : Plan[n] \in kept => n \in got
    BY <1>1, <2>3 DEF GpInv, FrameInv
  <2>. QED
    BY <2>2, <2>3, <2>4, <2>5, PacketBetween
<1>2. PacketIsOneMoment
  <2>. SUFFICES ASSUME gpPc = "write", pad[1] = "x" PROVE Packet = Meaning(st) /\ hat = HatOf(st)
    BY DEF PacketIsOneMoment
  <2>1. \A n \in 6..20 : n \in got <=> Plan[n] \in st
    BY <1>1 DEF GpInv, FrameInv
  <2>2. Meaning(st) \subseteq Packet /\ Packet \subseteq Meaning(st)
    BY <1>1, <2>1, PacketBetween
  <2>. QED
    BY <2>2 DEF GpInv, FrameInv
<1>3. PacketIsTrue
  BY <1>1 DEF PacketIsTrue
<1>4. ChordEndsStream
  BY PlanFacts DEF GpInv, FrameInv, ChordEndsStream, Chord
<1>. QED
  BY <1>2, <1>3, <1>4

\* The bridge sends what the pad was, whatever controls it has, however many devices come and
\* go and whichever backend and slot were chosen: packets invent and omit nothing, the exit
\* chord ends the stream when it is held and only then, and only a pad that was away is
\* replaced (PadX, PadSDL, build_packet, exit_chord_pressed, create_controller).
THEOREM GamePadIsTrue == GamePadSpec => PadIsTrue
<1>1. GpInv /\ [GamePadNext]_gamepadVars => [pad' # pad => dropped]_gamepadVars
  <2>. SUFFICES ASSUME GpInv, GamePadNext, pad' # pad PROVE dropped
    BY DEF gamepadVars
  <2>1. Recreate
    BY DEF GamePadNext, Turn, Plug, Unplug, Ok, NotOk, ReadControl, ReadHat, WriteGamePad
  <2>. QED
    BY <2>1 DEF Recreate, GpInv, PadKnown
<1>. QED
  BY <1>1, GamePadInitInv, GamePadStep, PacketFacts, PTL DEF GamePadSpec, PadIsTrue, NoTakeover

-----------------------------------------------------------------------------
(***************************************************************************)
(* PadK, for any keys and any way the mouse can be moved.                  *)
(***************************************************************************)

\* Where the mouse is, and what the packet has of it, if it was not moved since the sleep.
MouseInv ==
  /\ prev = <<0, 0>>
  /\ kbdPc = "asleep" => slept = cursor
  /\ (kbdPc = "axis3" /\ ~jolted) => slept = cursor
  /\ (kbdPc = "axis4" /\ ~jolted) => cursor = <<0, 0>> /\ right[1] = slept[1]
  /\ (kbdPc = "written" /\ ~jolted) => right = <<slept[1], 0>>

KbdInv == KeyboardTypeOK /\ MouseInv

LEMMA WhereFacts ==
  /\ <<0, 0>> \in Where /\ <<0, 0>> \in (-2 * Reach..2 * Reach) \X (-2 * Reach..2 * Reach)
  /\ \A p \in Where : /\ p[1] \in Int /\ p[2] \in Int /\ p = <<p[1], p[2]>>
                      /\ p[1] \in -2 * Reach..2 * Reach /\ p[2] \in -2 * Reach..2 * Reach
                      /\ -p[2] \in -2 * Reach..2 * Reach
                      /\ p \in (-2 * Reach..2 * Reach) \X (-2 * Reach..2 * Reach)
  BY KeyboardAssumption DEF Where, Span

LEMMA KeyboardInitInv == KeyboardInit => KbdInv
<1>. SUFFICES ASSUME KeyboardInit PROVE KbdInv
  OBVIOUS
<1>1. KeyboardTypeOK
  BY WhereFacts DEF KeyboardInit, KeyboardTypeOK
<1>. QED
  BY <1>1 DEF KeyboardInit, KbdInv, MouseInv

LEMMA MoveStep == ASSUME KbdInv, Move PROVE KbdInv'
<1>1. cursor' \in Where /\ cursor \in Where /\ UNCHANGED <<keys, prev, kbdPc, buttons, left, right>>
  BY DEF KbdInv, KeyboardTypeOK, Move
<1>2. CASE kbdPc = "asleep"
  <2>1. slept' = <<slept[1] + cursor'[1] - cursor[1], slept[2] + cursor'[2] - cursor[2]>> /\ UNCHANGED jolted
    BY <1>2 DEF Move
  <2>2. slept = cursor
    BY <1>2 DEF KbdInv, MouseInv
  <2>3. slept' = cursor'
    BY <1>1, <2>1, <2>2, WhereFacts
  <2>4. KeyboardTypeOK'
    BY <1>1, <2>1, <2>3, WhereFacts DEF KbdInv, KeyboardTypeOK
  <2>. QED
    BY <1>1, <1>2, <2>3, <2>4 DEF KbdInv, MouseInv
<1>3. CASE kbdPc # "asleep"
  <2>1. jolted' = TRUE /\ UNCHANGED slept
    BY <1>3 DEF Move
  <2>2. KeyboardTypeOK'
    BY <1>1, <2>1 DEF KbdInv, KeyboardTypeOK
  <2>. QED
    BY <1>1, <1>3, <2>1, <2>2 DEF KbdInv, MouseInv
<1>. QED
  BY <1>2, <1>3

LEMMA BuildStep == ASSUME KbdInv, BuildButtons PROVE KbdInv'
<1>1. /\ kbdPc = "asleep" /\ kbdPc' = "axis3" /\ jolted' = FALSE
      /\ left' = <<Axis("d", "a"), Axis("w", "s")>> /\ UNCHANGED <<keys, cursor, prev, right, slept>>
  BY DEF BuildButtons
<1>2. left' \in {-1, 0, 1} \X {-1, 0, 1}
  BY <1>1 DEF Axis
<1>3. KeyboardTypeOK'
  BY <1>1, <1>2 DEF KbdInv, KeyboardTypeOK
<1>. QED
  BY <1>1, <1>3 DEF KbdInv, MouseInv

LEMMA Axis3Step == ASSUME KbdInv, ReadAxis3 PROVE KbdInv'
<1>1. /\ kbdPc = "axis3" /\ kbdPc' = "axis4" /\ right' = <<Delta(1), right[2]>>
      /\ cursor' = <<0, 0>> /\ prev' = <<0, 0>> /\ UNCHANGED <<keys, buttons, left, slept, jolted>>
  BY DEF ReadAxis3, Recentre
<1>2. cursor \in Where /\ Delta(1) = cursor[1] /\ (~jolted => slept = cursor)
  BY <1>1, WhereFacts DEF KbdInv, KeyboardTypeOK, MouseInv, Delta
<1>3. right' \in (-2 * Reach..2 * Reach) \X (-2 * Reach..2 * Reach) /\ right'[1] = cursor[1]
  BY <1>1, <1>2, WhereFacts DEF KbdInv, KeyboardTypeOK
<1>4. KeyboardTypeOK'
  BY <1>1, <1>3, WhereFacts DEF KbdInv, KeyboardTypeOK
<1>5. ~jolted => right'[1] = slept[1]
  BY <1>2, <1>3
<1>. QED
  BY <1>1, <1>4, <1>5 DEF KbdInv, MouseInv

LEMMA Axis4Step == ASSUME KbdInv, ReadAxis4 PROVE KbdInv'
<1>1. /\ kbdPc = "axis4" /\ kbdPc' = "written" /\ right' = <<right[1], -Delta(2)>>
      /\ cursor' = <<0, 0>> /\ prev' = <<0, 0>> /\ UNCHANGED <<keys, buttons, left, slept, jolted>>
  BY DEF ReadAxis4, Recentre
<1>2. cursor \in Where /\ Delta(2) = cursor[2] /\ (~jolted => cursor[2] = 0 /\ right[1] = slept[1])
  BY <1>1, WhereFacts DEF KbdInv, KeyboardTypeOK, MouseInv, Delta
<1>3. right' \in (-2 * Reach..2 * Reach) \X (-2 * Reach..2 * Reach)
  BY <1>1, <1>2, WhereFacts DEF KbdInv, KeyboardTypeOK
<1>4. KeyboardTypeOK'
  BY <1>1, <1>3, WhereFacts DEF KbdInv, KeyboardTypeOK
<1>5. ~jolted => right' = <<slept[1], 0>>
  BY <1>1, <1>2
<1>. QED
  BY <1>1, <1>4, <1>5 DEF KbdInv, MouseInv

LEMMA WriteKeysStep == ASSUME KbdInv, WriteKeys PROVE KbdInv'
<1>1. /\ kbdPc' = "asleep" /\ left' = <<0, 0>> /\ right' = <<0, 0>>
      /\ slept' = cursor /\ jolted' = FALSE /\ UNCHANGED <<keys, cursor, prev>>
  BY DEF WriteKeys
<1>2. KeyboardTypeOK'
  BY <1>1, WhereFacts DEF KbdInv, KeyboardTypeOK
<1>. QED
  BY <1>1, <1>2 DEF KbdInv, MouseInv

LEMMA KeyboardStep == ASSUME KbdInv, [KeyboardNext]_kbdVars PROVE KbdInv'
<1>1. CASE UNCHANGED kbdVars
  BY <1>1 DEF kbdVars, KbdInv, KeyboardTypeOK, MouseInv
<1>2. CASE Press
  BY <1>2 DEF Press, KbdInv, KeyboardTypeOK, MouseInv
<1>. QED
  BY <1>1, <1>2, MoveStep, BuildStep, Axis3Step, Axis4Step, WriteKeysStep DEF KeyboardNext

\* The tables of the buttons and of the keys agree with the layout.
LEMMA HeldFacts ==
  ASSUME NEW b
  PROVE  b \in Held <=> \/ (b = "B" /\ "ctrl" \in keys)
                        \/ (b = "A" /\ "space" \in keys)
                        \/ (b = "Y" /\ "r" \in keys)
                        \/ (b = "X" /\ "e" \in keys)
                        \/ (b = "L" /\ "q" \in keys)
                        \/ (b = "R" /\ "f" \in keys)
                        \/ (b = "MINUS" /\ "tab" \in keys)
                        \/ (b = "PLUS" /\ "enter" \in keys)
                        \/ (b = "LCLICK" /\ "v" \in keys)
                        \/ (b = "RCLICK" /\ "x" \in keys)
<1>1. DOMAIN BTN_MAP = 0..7 \cup {9, 10} /\ DOMAIN KEY_MAPPING = 0..7 \cup {9, 10}
  BY DEF BTN_MAP, KEY_MAPPING
<1>2. /\ BTN_MAP[0] = "B" /\ BTN_MAP[1] = "A" /\ BTN_MAP[2] = "Y" /\ BTN_MAP[3] = "X"
      /\ BTN_MAP[4] = "L" /\ BTN_MAP[5] = "R" /\ BTN_MAP[6] = "MINUS" /\ BTN_MAP[7] = "PLUS"
      /\ BTN_MAP[9] = "LCLICK" /\ BTN_MAP[10] = "RCLICK"
  <2>. DEFINE names == <<"B", "A", "Y", "X", "L", "R", "MINUS", "PLUS", "", "LCLICK", "RCLICK">>
  <2>1. \A i \in 0..7 \cup {9, 10} : BTN_MAP[i] = names[i + 1]
    BY DEF BTN_MAP
  <2>2. /\ names[1] = "B" /\ names[2] = "A" /\ names[3] = "Y" /\ names[4] = "X" /\ names[5] = "L"
        /\ names[6] = "R" /\ names[7] = "MINUS" /\ names[8] = "PLUS" /\ names[10] = "LCLICK"
        /\ names[11] = "RCLICK"
    OBVIOUS
  <2>. HIDE DEF names
  <2>. QED
    BY <2>1, <2>2
<1>3. /\ KEY_MAPPING[0] = "ctrl" /\ KEY_MAPPING[1] = "space" /\ KEY_MAPPING[2] = "r"
      /\ KEY_MAPPING[3] = "e" /\ KEY_MAPPING[4] = "q" /\ KEY_MAPPING[5] = "f"
      /\ KEY_MAPPING[6] = "tab" /\ KEY_MAPPING[7] = "enter" /\ KEY_MAPPING[9] = "v"
      /\ KEY_MAPPING[10] = "x"
  <2>. DEFINE names == <<"ctrl", "space", "r", "e", "q", "f", "tab", "enter", "", "v", "x">>
  <2>1. \A i \in 0..7 \cup {9, 10} : KEY_MAPPING[i] = names[i + 1]
    BY DEF KEY_MAPPING
  <2>2. /\ names[1] = "ctrl" /\ names[2] = "space" /\ names[3] = "r" /\ names[4] = "e"
        /\ names[5] = "q" /\ names[6] = "f" /\ names[7] = "tab" /\ names[8] = "enter"
        /\ names[10] = "v" /\ names[11] = "x"
    OBVIOUS
  <2>. HIDE DEF names
  <2>. QED
    BY <2>1, <2>2
<1>4. b \in Held <=> \E i \in 0..7 \cup {9, 10} : KEY_MAPPING[i] \in keys /\ b = BTN_MAP[i]
  BY <1>1 DEF Held
<1>5. \A i \in 0..7 \cup {9, 10} : i \in {0, 1, 2, 3, 4, 5, 6, 7, 9, 10}
  OBVIOUS
<1>. QED
  BY <1>2, <1>3, <1>4, <1>5

LEMMA SpecialFacts ==
  ASSUME NEW b
  PROVE  b \in Special <=> \/ (b = "HOME" /\ "h" \in keys)
                           \/ (b = "CAPTURE" /\ "c" \in keys)
                           \/ (b = "ZL" /\ "shift" \in keys)
                           \/ (b = "ZR" /\ "ctrl" \in keys)
  BY DEF Special

LEMMA LayoutFollowed ==
  ASSUME BuildButtons, NEW k \in DOMAIN Layout
  PROVE  Layout[k] \in buttons' <=> k \in keys
<1>1. buttons' = Held \cup Special
  BY DEF BuildButtons
<1>2. k \in {"space", "ctrl", "r", "e", "q", "f", "tab", "enter", "v", "x", "h", "c"}
  BY DEF Layout
<1>3. /\ Layout["space"] = "A" /\ Layout["ctrl"] = "B" /\ Layout["r"] = "Y" /\ Layout["e"] = "X"
      /\ Layout["q"] = "L" /\ Layout["f"] = "R" /\ Layout["tab"] = "MINUS" /\ Layout["enter"] = "PLUS"
      /\ Layout["v"] = "LCLICK" /\ Layout["x"] = "RCLICK" /\ Layout["h"] = "HOME" /\ Layout["c"] = "CAPTURE"
  BY DEF Layout
<1>4. Layout[k] \in buttons' <=> Layout[k] \in Held \/ Layout[k] \in Special
  BY <1>1
<1>5. Layout[k] \in Held <=> k \in keys /\ k \notin {"h", "c"}
  BY <1>2, <1>3, HeldFacts
<1>6. Layout[k] \in Special <=> k \in keys /\ k \in {"h", "c"}
  BY <1>2, <1>3, SpecialFacts
<1>. QED
  BY <1>4, <1>5, <1>6

\* The packets follow keyboard and mouse, whatever keys there are and however far the mouse is
\* moved: the keys by the documented layout, the right stick sideways by the mouse, and back
\* at its centre when the mouse rests (PadK, build_packet).
THEOREM KeyboardIsFollowed == KeyboardSpec => KeyboardFollows
<1>1. KbdInv => KeyboardTypeOK /\ StillMouseIsCentred /\ SidewaysIsSent
  <2>. SUFFICES ASSUME KbdInv PROVE StillMouseIsCentred /\ SidewaysIsSent
    BY DEF KbdInv
  <2>1. (kbdPc = "written" /\ ~jolted) => right = <<slept[1], 0>>
    BY DEF KbdInv, MouseInv
  <2>. QED
    BY <2>1 DEF StillMouseIsCentred, SidewaysIsSent
<1>2. [KeyboardNext]_kbdVars =>
        [(kbdPc = "asleep" /\ kbdPc' = "axis3") => \A k \in DOMAIN Layout : Layout[k] \in buttons' <=> k \in keys]_kbdVars
  <2>. SUFFICES ASSUME KeyboardNext, kbdPc = "asleep", kbdPc' = "axis3", NEW k \in DOMAIN Layout
                PROVE  Layout[k] \in buttons' <=> k \in keys
    BY DEF kbdVars
  <2>1. BuildButtons
    BY DEF KeyboardNext, Press, Move, ReadAxis3, ReadAxis4, WriteKeys
  <2>. QED
    BY <2>1, LayoutFollowed
<1>. QED
  BY <1>1, <1>2, KeyboardInitInv, KeyboardStep, PTL DEF KeyboardSpec, KeyboardFollows, KeysFollowLayout
=============================================================================
