----------------------------- MODULE CastProofs ------------------------------
(***************************************************************************)
(* What a recording holds is what the session's streams said, and when:    *)
(* for streams of any length, reads of any size and any clock.             *)
(***************************************************************************)
EXTENDS Cast, SequenceTheorems, TLAPS

Chars == Bytes \cup {Replacement}

\* p ends in the middle of a character that starts at i.
Open(p, i) == p[i] > 0 /\ i + p[i] - 1 > Len(p) /\ \A j \in i + 1 .. Len(p) : p[j] = 0

\* No character goes over from p to q.
Clean(p, q) == (q # <<>> /\ q[1] > 0) \/ \A i \in 1..Len(p) : ~Open(p, i)

\* Nor from p to whatever follows, when q is the head of it that is known.
Cut(p, q) == IF q = <<>> THEN \A i \in 1..Len(p) : ~Open(p, i) ELSE q[1] > 0

\* A byte's class is a number, so that it may be counted with.
LEMMA CharsAreNumbers == \A p \in Seq(Bytes) : \A i \in 1..Len(p) : p[i] \in 0..4
  BY ElementOfSeq DEF Bytes

\* Joining streams is associative.
LEMMA ByteConcat ==
  \A x, y, z \in Seq(Bytes) : (x \o y) \o z = x \o (y \o z)
  BY ConcatAssociative

\* Marshalling keeps the length.
LEMMA MarshalShape ==
  ASSUME NEW p \in Seq(Bytes)
  PROVE  MarshalEventData(p) \in Seq(Chars) /\ Len(MarshalEventData(p)) = Len(p)
<1>1. Len(p) \in Nat
  BY LenProperties
<1>2. \A i \in 1..Len(p) : p[i] \in Bytes
  BY ElementOfSeq
<1>3. MarshalEventData(p) \in [1..Len(p) -> Chars]
  BY <1>2 DEF MarshalEventData, Chars
<1> QED
  BY <1>1, <1>3, IsASeq, LenProperties

\* A character that starts in p ends in p, when none goes over to q.
LEMMA CharactersEnd ==
  ASSUME NEW p \in Seq(Bytes), NEW q \in Seq(Bytes), Clean(p, q),
         NEW i \in 1..Len(p), Whole(p \o q, i)
  PROVE  i + p[i] - 1 <= Len(p)
<1> DEFINE r == p \o q
<1>1. /\ Len(p) \in Nat /\ Len(q) \in Nat /\ Len(r) = Len(p) + Len(q)
      /\ \A k \in 1..Len(p) : r[k] = p[k]
      /\ \A k \in 1..Len(q) : r[Len(p) + k] = q[k]
  BY ConcatProperties, LenProperties
<1>2. p[i] \in 0..4 /\ r[i] = p[i]
  BY <1>1, CharsAreNumbers
<1> HIDE DEF r
<1>3. SUFFICES ASSUME i + p[i] - 1 > Len(p) PROVE FALSE
  BY <1>1, <1>2
<1>4. \A k \in i + 1 .. i + p[i] - 1 : r[k] = 0
  BY <1>2 DEF Whole, r
<1>5. p[i] > 0 /\ i + p[i] - 1 <= Len(r)
  BY <1>2 DEF Whole, r
<1>6. Open(p, i)
  BY <1>1, <1>2, <1>3, <1>4, <1>5 DEF Open
<1>7. q # <<>> /\ q[1] > 0
  BY <1>6 DEF Clean
<1>8. 1 \in 1..Len(q) /\ r[Len(p) + 1] = q[1]
  BY <1>1, <1>3, <1>5, <1>2
<1>9. Len(p) + 1 \in i + 1 .. i + p[i] - 1
  <2>1. Len(p) \in Nat /\ p[i] \in Nat
    BY <1>1, <1>2
  <2> QED
    BY <2>1, <1>3
<1>10. r[Len(p) + 1] = 0
  BY <1>4, <1>9
<1> QED
  BY <1>7, <1>8, <1>10

\* Marshalling two pieces is marshalling them joined, when no character goes over.
LEMMA MarshalConcat ==
  ASSUME NEW p \in Seq(Bytes), NEW q \in Seq(Bytes), Clean(p, q)
  PROVE  MarshalEventData(p \o q) = MarshalEventData(p) \o MarshalEventData(q)
<1> DEFINE r == p \o q
           a == MarshalEventData(p)
           b == MarshalEventData(q)
           c == MarshalEventData(r)
           In(s, i) == \E j \in 1..i : Whole(s, j) /\ i < j + s[j]
<1>1. /\ Len(p) \in Nat /\ Len(q) \in Nat /\ r \in Seq(Bytes) /\ Len(r) = Len(p) + Len(q)
      /\ \A k \in 1..Len(p) : r[k] = p[k]
      /\ \A k \in 1..Len(q) : r[Len(p) + k] = q[k]
  BY ConcatProperties, LenProperties
<1>0. Len(p) \in Nat /\ Len(q) \in Nat /\ Len(r) = Len(p) + Len(q)
  BY <1>1
<1>2. /\ \A k \in 1..Len(p) : p[k] \in 0..4
      /\ \A k \in 1..Len(q) : q[k] \in 0..4
  BY CharsAreNumbers
<1>3. /\ a \in Seq(Chars) /\ Len(a) = Len(p)
      /\ b \in Seq(Chars) /\ Len(b) = Len(q)
      /\ c \in Seq(Chars) /\ Len(c) = Len(r)
  BY <1>1, MarshalShape, Zenon
<1>4. /\ \A i \in 1..Len(p) : a[i] = IF In(p, i) THEN p[i] ELSE Replacement
      /\ \A i \in 1..Len(q) : b[i] = IF In(q, i) THEN q[i] ELSE Replacement
      /\ \A i \in 1..Len(r) : c[i] = IF In(r, i) THEN r[i] ELSE Replacement
  BY DEF MarshalEventData
<1>5. /\ a \o b \in Seq(Chars) /\ Len(a \o b) = Len(p) + Len(q)
      /\ \A k \in 1..Len(p) : (a \o b)[k] = a[k]
      /\ \A k \in 1..Len(q) : (a \o b)[Len(p) + k] = b[k]
  BY <1>3, <1>1, ConcatProperties
<1>6. \A j \in 1..Len(p) : Whole(r, j) => j + p[j] - 1 <= Len(p)
  BY CharactersEnd
<1> HIDE DEF r, a, b, c
<1>7. \A j \in 1..Len(p) : Whole(r, j) <=> Whole(p, j)
  <2> TAKE j \in 1..Len(p)
  <2>1. ASSUME Whole(r, j) PROVE Whole(p, j)
    <3>1. j + p[j] - 1 <= Len(p)
      BY <2>1, <1>6
    <3>2. p[j] > 0 /\ r[j] = p[j] /\ p[j] \in 0..4
      BY <2>1, <1>1, <1>2 DEF Whole
    <3>3. ASSUME NEW k \in j + 1 .. j + p[j] - 1 PROVE p[k] = 0
      <4>1. k \in 1..Len(p)
        BY <3>1, <3>2, <1>0
      <4> QED
        BY <4>1, <3>2, <2>1, <1>1 DEF Whole
    <3> QED
      BY <3>1, <3>2, <3>3 DEF Whole
  <2>2. ASSUME Whole(p, j) PROVE Whole(r, j)
    <3>1. p[j] > 0 /\ j + p[j] - 1 <= Len(p) /\ r[j] = p[j] /\ p[j] \in 0..4
      BY <2>2, <1>1, <1>2 DEF Whole
    <3>2. ASSUME NEW k \in j + 1 .. j + p[j] - 1 PROVE r[k] = 0
      <4>1. k \in 1..Len(p)
        BY <3>1, <1>1
      <4> QED
        BY <4>1, <2>2, <1>1 DEF Whole
    <3> QED
      BY <3>1, <3>2, <1>1 DEF Whole
  <2> QED
    BY <2>1, <2>2
<1>8. \A j \in 1..Len(q) : Whole(r, Len(p) + j) <=> Whole(q, j)
  <2> TAKE j \in 1..Len(q)
  <2>1. r[Len(p) + j] = q[j] /\ q[j] \in 0..4 /\ j \in Nat
    BY <1>1, <1>2
  <2>2. ASSUME Whole(r, Len(p) + j) PROVE Whole(q, j)
    <3>1. q[j] > 0 /\ j + q[j] - 1 <= Len(q)
      BY <2>1, <2>2, <1>1 DEF Whole
    <3>2. ASSUME NEW k \in j + 1 .. j + q[j] - 1 PROVE q[k] = 0
      <4>1. Len(p) + k \in Len(p) + j + 1 .. Len(p) + j + q[j] - 1 /\ k \in 1..Len(q)
        BY <2>1, <3>1, <1>1
      <4> QED
        BY <4>1, <2>1, <2>2, <1>1 DEF Whole
    <3> QED
      BY <3>1, <3>2 DEF Whole
  <2>3. ASSUME Whole(q, j) PROVE Whole(r, Len(p) + j)
    <3>1. q[j] > 0 /\ j + q[j] - 1 <= Len(q)
      BY <2>3 DEF Whole
    <3>2. ASSUME NEW k \in Len(p) + j + 1 .. Len(p) + j + q[j] - 1 PROVE r[k] = 0
      <4>1. k - Len(p) \in j + 1 .. j + q[j] - 1 /\ k - Len(p) \in 1..Len(q)
            /\ k = Len(p) + (k - Len(p))
        BY <2>1, <3>1, <1>0
      <4>2. q[k - Len(p)] = 0
        BY <4>1, <2>3 DEF Whole
      <4> QED
        BY <4>1, <4>2, <1>1
    <3> QED
      BY <2>1, <3>1, <3>2, <1>1 DEF Whole
  <2> QED
    BY <2>2, <2>3
<1>9. \A i \in 1..Len(p) : In(r, i) <=> In(p, i)
  <2> TAKE i \in 1..Len(p)
  <2>1. \A j \in 1..i : j \in 1..Len(p)
    BY <1>1
  <2> QED
    BY <2>1, <1>7, <1>1
<1>10. \A i \in 1..Len(q) : In(r, Len(p) + i) <=> In(q, i)
  <2> TAKE i \in 1..Len(q)
  <2>1. ASSUME In(r, Len(p) + i) PROVE In(q, i)
    <3>1. PICK j \in 1..(Len(p) + i) : Whole(r, j) /\ Len(p) + i < j + r[j]
      BY <2>1
    <3>2. ASSUME j \in 1..Len(p) PROVE FALSE
      <4>1. r[j] = p[j] /\ p[j] \in 0..4 /\ j + p[j] - 1 <= Len(p)
        BY <3>1, <3>2, <1>6, <1>1, <1>2
      <4> QED
        BY <4>1, <3>1, <1>1
    <3>3. j - Len(p) \in 1..i /\ j - Len(p) \in 1..Len(q) /\ j = Len(p) + (j - Len(p))
      BY <3>2, <1>0
    <3>4. PICK h \in 1..i : h \in 1..Len(q) /\ j = Len(p) + h
      BY <3>3
    <3>5. Whole(q, h) /\ r[Len(p) + h] = q[h] /\ q[h] \in 0..4
      BY <3>1, <3>4, <1>8, <1>1, <1>2
    <3>6. Len(p) + i < Len(p) + h + q[h]
      BY <3>1, <3>4, <3>5
    <3>7. i < h + q[h]
      BY <3>5, <3>6, <1>0
    <3> QED
      BY <3>5, <3>7
  <2>2. ASSUME In(q, i) PROVE In(r, Len(p) + i)
    <3>1. PICK j \in 1..i : Whole(q, j) /\ i < j + q[j]
      BY <2>2
    <3>2. Len(p) + j \in 1..(Len(p) + i) /\ j \in 1..Len(q)
      BY <1>1
    <3>3. Whole(r, Len(p) + j) /\ r[Len(p) + j] = q[j] /\ q[j] \in 0..4
      BY <3>1, <3>2, <1>8, <1>1, <1>2
    <3>4. Len(p) + i < (Len(p) + j) + r[Len(p) + j]
      BY <3>1, <3>2, <3>3, <1>0
    <3> QED
      BY <3>2, <3>3, <3>4
  <2> QED
    BY <2>1, <2>2
<1> HIDE DEF In
<1>11. \A i \in 1..Len(p) : c[i] = (a \o b)[i]
  <2> TAKE i \in 1..Len(p)
  <2>1. i \in 1..Len(r)
    BY <1>1
  <2>2. c[i] = IF In(r, i) THEN r[i] ELSE Replacement
    BY <2>1, <1>4
  <2>3. a[i] = IF In(p, i) THEN p[i] ELSE Replacement
    BY <1>4
  <2>4. (a \o b)[i] = a[i]
    BY <1>5, Zenon
  <2> QED
    BY <2>2, <2>3, <2>4, <1>1, <1>9
<1>12. \A i \in 1..Len(q) : c[Len(p) + i] = (a \o b)[Len(p) + i]
  <2> TAKE i \in 1..Len(q)
  <2>1. Len(p) + i \in 1..Len(r)
    BY <1>1
  <2>2. c[Len(p) + i] = IF In(r, Len(p) + i) THEN r[Len(p) + i] ELSE Replacement
    BY <2>1, <1>4
  <2>3. b[i] = IF In(q, i) THEN q[i] ELSE Replacement
    BY <1>4
  <2>4. (a \o b)[Len(p) + i] = b[i]
    BY <1>5
  <2> QED
    BY <2>2, <2>3, <2>4, <1>1, <1>10
<1>13. \A i \in 1..Len(c) : c[i] = (a \o b)[i]
  <2> TAKE i \in 1..Len(c)
  <2>1. i \in 1..Len(p) \/ (i - Len(p) \in 1..Len(q) /\ i = Len(p) + (i - Len(p)))
    BY <1>1, <1>3
  <2> QED
    BY <2>1, <1>11, <1>12, Zenon
<1>14. c = a \o b
  BY <1>13, <1>3, <1>5, <1>1, SeqEqual
<1> QED
  BY <1>14 DEF a, b, c, r

\* incompleteTail returns the head of the open character, if p ends in one, and what is
\* left without it is not open.
LEMMA TailCut ==
  ASSUME NEW p \in Seq(Bytes)
  PROVE  /\ IncompleteTail(p) \in 0..3 /\ IncompleteTail(p) <= Len(p)
         /\ IncompleteTail(p) = 0 => \A i \in 1..Len(p) : ~Open(p, i)
         /\ IncompleteTail(p) > 0 => p[Len(p) - IncompleteTail(p) + 1] > 0
<1> DEFINE starts == {i \in 1 .. UTFMax - 1 : i <= Len(p) /\ p[Len(p) - i + 1] > 0}
           first == CHOOSE i \in starts : \A j \in starts : i <= j
           tail == IncompleteTail(p)
<1>1. Len(p) \in Nat /\ UTFMax = 4
  BY LenProperties DEF UTFMax
<1>2. \A i \in 1..Len(p) : p[i] \in 0..4
  BY CharsAreNumbers
<1>3. tail = IF starts = {} THEN 0 ELSE IF p[Len(p) - first + 1] > first THEN first ELSE 0
  BY DEF IncompleteTail
<1>4. starts \subseteq {1, 2, 3}
  BY <1>1
<1>5. \A i \in starts : i <= Len(p) /\ p[Len(p) - i + 1] > 0
  OBVIOUS
<1>6. starts # {} => first \in starts /\ \A j \in starts : first <= j
  <2>1. starts # {} => \E i \in starts : \A j \in starts : i <= j
    <3> HIDE DEF starts
    <3>1. CASE 1 \in starts
      BY <3>1, <1>4
    <3>2. CASE 1 \notin starts /\ 2 \in starts
      BY <3>2, <1>4
    <3>3. CASE 1 \notin starts /\ 2 \notin starts
      <4>1. \A i \in starts : i = 3
        BY <3>3, <1>4
      <4> QED
        BY <4>1
    <3> QED
      BY <3>1, <3>2, <3>3
  <2> QED
    BY <2>1, Zenon
<1>7. ASSUME NEW i \in 1..Len(p), Open(p, i) PROVE tail # 0
  <2> DEFINE d == Len(p) - i + 1
  <2>1. p[i] > 0 /\ i + p[i] - 1 > Len(p) /\ p[i] \in 0..4 /\ \A j \in i + 1 .. Len(p) : p[j] = 0
    BY <1>7, <1>2 DEF Open
  <2>2. d \in 1..3 /\ d <= Len(p) /\ Len(p) - d + 1 = i /\ p[i] > d
    BY <2>1, <1>1
  <2>3. d \in starts
    BY <2>1, <2>2, <1>1
  <2>4. ASSUME NEW j \in starts, j < d PROVE FALSE
    <3>1. j \in {1, 2, 3} /\ j <= Len(p) /\ p[Len(p) - j + 1] > 0
      BY <1>4, <1>5
    <3>2. Len(p) - j + 1 \in i + 1 .. Len(p)
      BY <3>1, <2>4, <1>1
    <3> QED
      BY <3>1, <3>2, <2>1
  <2> HIDE DEF starts
  <2>5. first \in {1, 2, 3} /\ first <= d /\ ~(first < d)
    BY <2>3, <2>4, <1>6, <1>4, Zenon
  <2> HIDE DEF first, d
  <2>6. first = d
    BY <2>5, <2>2
  <2> QED
    BY <2>2, <2>3, <2>6, <1>3
<1> HIDE DEF starts, first
<1>8. tail \in 0..3 /\ tail <= Len(p)
  <2>1. CASE starts = {}
    BY <2>1, <1>1, <1>3
  <2>2. CASE starts # {}
    <3>1. first \in {1, 2, 3} /\ first <= Len(p)
      BY <2>2, <1>4, <1>5, <1>6, Zenon
    <3>2. tail = first \/ tail = 0
      BY <2>2, <1>3
    <3> HIDE DEF tail
    <3> QED
      BY <3>1, <3>2, <1>1
  <2> QED
    BY <2>1, <2>2
<1>9. tail > 0 => p[Len(p) - tail + 1] > 0
  BY <1>3, <1>5, <1>6
<1> QED
  BY <1>7, <1>8, <1>9 DEF tail

\* Recorder.event's cut: the marshalled text of the stream grows by that of the piece
\* before the cut, and no character goes over the cut.
LEMMA NextCut ==
  ASSUME NEW s \in Seq(Bytes), NEW head \in Seq(Bytes), NEW data \in Seq(Bytes),
         Cut(s, head),
         NEW cut, cut = Len(head \o data) - IncompleteTail(head \o data)
  PROVE  LET got == head \o data
             a == SubSeq(got, 1, cut)
             b == SubSeq(got, cut + 1, Len(got))
         IN /\ a \in Seq(Bytes) /\ b \in Seq(Bytes) /\ Len(b) \in 0..3
            /\ (s \o head) \o data = (s \o a) \o b
            /\ MarshalEventData(s \o a) = MarshalEventData(s) \o MarshalEventData(a)
            /\ Cut(s \o a, b)
<1> DEFINE got == head \o data
           t == IncompleteTail(got)
           a == SubSeq(got, 1, cut)
           b == SubSeq(got, cut + 1, Len(got))
<1>1. /\ Len(head) \in Nat /\ got \in Seq(Bytes) /\ Len(got) \in Nat
      /\ \A i \in 1..Len(head) : got[i] = head[i] /\ i \in 1..Len(got)
  BY ConcatProperties, LenProperties
<1>2. cut = Len(got) - t
  OBVIOUS
<1>3. /\ t \in 0..3 /\ t <= Len(got)
      /\ t = 0 => \A i \in 1..Len(got) : ~Open(got, i)
      /\ t > 0 => got[Len(got) - t + 1] > 0
  BY <1>1, TailCut, Zenon
<1> HIDE DEF got, t
<1>4. cut \in Nat /\ cut <= Len(got) /\ Len(got) - cut = t
  BY <1>1, <1>2, <1>3
<1>5. \A i \in 1..Len(got) : got[i] \in Bytes
  BY <1>1, ElementOfSeq
<1>6. /\ a \in Seq(Bytes) /\ Len(a) = cut /\ \A i \in 1..cut : a[i] = got[i]
  <2>1. /\ a \in Seq(Bytes) /\ Len(a) = IF 1 <= cut THEN cut - 1 + 1 ELSE 0
        /\ \A i \in 1..(cut - 1 + 1) : a[i] = got[1 + i - 1]
    <3>1. \A i \in 1..cut : got[i] \in Bytes
      BY <1>1, <1>4, <1>5
    <3> QED
      BY <3>1, <1>4, SubSeqProperties
  <2> HIDE DEF a
  <2> QED
    BY <2>1, <1>4
<1>7. /\ b \in Seq(Bytes) /\ Len(b) = t /\ (t > 0 => b[1] = got[cut + 1])
  <2>1. /\ b \in Seq(Bytes)
        /\ Len(b) = IF cut + 1 <= Len(got) THEN Len(got) - (cut + 1) + 1 ELSE 0
        /\ \A i \in 1..(Len(got) - (cut + 1) + 1) : b[i] = got[cut + 1 + i - 1]
    <3>1. \A i \in (cut + 1)..Len(got) : got[i] \in Bytes
      BY <1>1, <1>4, <1>5
    <3> QED
      BY <3>1, <1>1, <1>4, SubSeqProperties
  <2> HIDE DEF b
  <2>2. Len(b) = t
    BY <2>1, <1>1, <1>3, <1>4
  <2>3. ASSUME t > 0 PROVE b[1] = got[cut + 1]
    <3>1. 1 \in 1..(Len(got) - (cut + 1) + 1) /\ cut + 1 + 1 - 1 = cut + 1
      BY <2>3, <1>1, <1>3, <1>4
    <3> QED
      BY <3>1, <2>1
  <2> QED
    BY <2>1, <2>2, <2>3
<1>8. got = a \o b
  <2>1. got = SubSeq(got, 1, Len(got))
    BY <1>1, SubSeqFull
  <2>2. SubSeq(got, 1, cut) \o SubSeq(got, cut + 1, Len(got)) = SubSeq(got, 1, Len(got))
    <3>1. 1 \in 1..(Len(got) + 1) /\ cut \in (1 - 1)..Len(got) /\ Len(got) \in cut..Len(got)
      BY <1>1, <1>4
    <3> QED
      BY <3>1, <1>1, ConcatAdjacentSubSeq, Zenon
  <2> QED
    BY <2>1, <2>2, Zenon
<1> HIDE DEF a, b
<1>9. (s \o head) \o data = (s \o a) \o b
  <2>1. (s \o head) \o data = s \o got
    BY ByteConcat, Zenon DEF got
  <2>2. a \in Seq(Bytes) /\ b \in Seq(Bytes)
    BY <1>6, <1>7
  <2>3. (s \o a) \o b = s \o (a \o b)
    BY <2>2, ByteConcat, Zenon
  <2> QED
    BY <2>1, <2>3, <1>8
<1>10. head # <<>> => Len(got) > 0 /\ got[1] > 0
  <2>1. head # <<>> => head[1] > 0 /\ 1 \in 1..Len(head)
    BY <1>1, EmptySeq DEF Cut
  <2> QED
    BY <2>1, <1>1
<1>11. MarshalEventData(s \o a) = MarshalEventData(s) \o MarshalEventData(a)
  <2>1. CASE a = <<>>
    <3>1. s \o a = s /\ MarshalEventData(s) \in Seq(Chars)
      BY <2>1, ConcatEmptySeq, MarshalShape
    <3>2. MarshalEventData(a) = <<>>
      BY <2>1, <1>6, MarshalShape, EmptySeq, Zenon
    <3> QED
      BY <3>1, <3>2, ConcatEmptySeq
  <2>2. CASE a # <<>>
    <3>1. 1 \in 1..cut /\ a[1] = got[1]
      BY <2>2, <1>4, <1>6, EmptySeq
    <3>2. Clean(s, a)
      BY <2>2, <3>1, <1>10 DEF Clean, Cut
    <3> QED
      BY <3>2, <1>6, MarshalConcat
  <2> QED
    BY <2>1, <2>2
<1>12. Cut(s \o a, b)
  <2>1. CASE t > 0
    <3>1. b # <<>>
      BY <2>1, <1>7, EmptySeq
    <3>2. cut + 1 = Len(got) - t + 1
      BY <1>2
    <3>3. b[1] > 0
      BY <2>1, <3>2, <1>3, <1>7
    <3> QED
      BY <3>1, <3>3 DEF Cut
  <2>2. CASE t = 0
    <3>1. b = <<>>
      BY <2>2, <1>7, EmptySeq
    <3>2. a = got
      BY <3>1, <1>6, <1>8, ConcatEmptySeq
    <3> DEFINE u == s \o got
    <3>3. /\ Len(s) \in Nat /\ Len(u) = Len(s) + Len(got) /\ u \in Seq(Bytes)
          /\ \A i \in 1..Len(s) : u[i] = s[i]
          /\ \A i \in 1..Len(got) : u[Len(s) + i] = got[i]
      BY <1>1, ConcatProperties, LenProperties
    <3>4. \A i \in 1..Len(u) : u[i] \in 0..4
      BY <3>3, CharsAreNumbers
    <3> HIDE DEF u
    <3>5. SUFFICES ASSUME NEW i \in 1..Len(u), Open(u, i) PROVE FALSE
      BY <3>1, <3>2 DEF Cut, u
    <3>6. u[i] > 0 /\ u[i] \in 0..4 /\ i + u[i] - 1 > Len(u)
          /\ \A j \in i + 1 .. Len(u) : u[j] = 0
      BY <3>4, <3>5 DEF Open
    <3>7. CASE i <= Len(s)
      <4>1. i \in 1..Len(s) /\ u[i] = s[i] /\ \A j \in i + 1 .. Len(s) : s[j] = 0
        BY <3>3, <3>6, <3>7, <1>1
      <4>2. Open(s, i)
        BY <4>1, <3>3, <3>6, <1>1 DEF Open
      <4>3. head # <<>>
        BY <4>1, <4>2 DEF Cut
      <4>4. Len(s) + 1 \in i + 1 .. Len(u) /\ u[Len(s) + 1] = got[1] /\ got[1] > 0
        BY <4>1, <4>3, <3>3, <1>1, <1>10
      <4> QED
        BY <4>4, <3>6
    <3>8. CASE i > Len(s)
      <4>1. PICK k \in 1..Len(got) : i = Len(s) + k
        <5>1. i - Len(s) \in 1..Len(got) /\ i = Len(s) + (i - Len(s))
          BY <3>8, <3>3, <1>1
        <5> QED
          BY <5>1, Zenon
      <4>2. u[i] = got[k] /\ got[k] \in 0..4
        BY <4>1, <3>3, <3>6
      <4>5. Len(s) + k + got[k] - 1 > Len(s) + Len(got)
        BY <4>1, <4>2, <3>3, <3>6
      <4>6. k + got[k] - 1 > Len(got)
        <5>1. Len(s) \in Nat /\ Len(got) \in Nat /\ k \in Nat /\ got[k] \in Nat
          BY <4>2, <3>3, <1>1
        <5> QED
          BY <5>1, <4>5
      <4>3. \A j \in k + 1 .. Len(got) : got[j] = 0
        <5> TAKE j \in k + 1 .. Len(got)
        <5>1. Len(s) + j \in i + 1 .. Len(u) /\ j \in 1..Len(got)
          BY <4>1, <3>3, <1>1
        <5>2. u[Len(s) + j] = 0
          BY <5>1, <3>6, Zenon
        <5> QED
          BY <5>1, <5>2, <3>3, Zenon
      <4>4. Open(got, k)
        BY <4>2, <4>3, <4>6, <3>6 DEF Open
      <4> QED
        BY <4>4, <2>2, <1>3
    <3> QED
      BY <3>7, <3>8, <3>3, <1>1
  <2> QED
    BY <2>1, <2>2, <1>3
<1> QED
  BY <1>3, <1>6, <1>7, <1>9, <1>11, <1>12, Zenon DEF a, b, got

-----------------------------------------------------------------------------
\* What was recorded of a stream is all of it up to some point, which cuts no character,
\* and what waits in partial is the rest.
Stream(k) ==
  \E s \in Seq(Bytes) :
    /\ heard[k] = s \o partial[k] /\ text[k] = MarshalEventData(s)
    /\ Cut(s, partial[k])

\* The recording is behind by the carry, which is half a millisecond at most.
InTime(c) == c.carry \in -Half .. Half - 1 /\ c.drift = 0 - c.carry /\ c.back = FALSE

\* At most three bytes of a stream wait.
Streams ==
  /\ heard \in [Kinds -> Seq(Bytes)] /\ partial \in [Kinds -> Seq(Bytes)]
  /\ DOMAIN text = Kinds
  /\ \A k \in Kinds : Len(partial[k]) \in 0..3

CastInv ==
  /\ Streams
  /\ ~ended => \A k \in Kinds : Stream(k)
  /\ ended => \A k \in Kinds : text[k] = MarshalEventData(heard[k])
  /\ InTime(clock)

\* What division is.
LEMMA DivBounds ==
  ASSUME NEW a \in Int, NEW b \in Nat \ {0}
  PROVE  a \div b \in Int /\ b * (a \div b) <= a /\ a < b * (a \div b) + b
  OBVIOUS

\* Rounding a time that is above minus half a millisecond is never negative, and off by
\* half a millisecond at most.
LEMMA RoundBounds ==
  ASSUME NEW t \in Int, t > -Half
  PROVE  /\ Round(t) \in Nat
         /\ t - Round(t) * Millisecond \in -Half .. Half - 1
<1> DEFINE M == Millisecond
           q == (t + Half) \div M
<1>1. Half \in Nat \ {0} /\ M \in Nat \ {0} /\ M = Half + Half
  BY ClockAssumption DEF Millisecond
<1> HIDE DEF M
<1>2. CASE t >= 0
  <2>1. q \in Int /\ M * q <= t + Half /\ t + Half < M * q + M
    <3>1. t + Half \in Int
      BY <1>1
    <3> QED
      BY <1>1, <3>1, DivBounds, Zenon
  <2>2. q \in Nat
    BY <1>1, <1>2
  <2> DEFINE x == M * q
  <2>3. x \in Int /\ x = q * M
    BY <1>1, <2>1
  <2>4. t - x \in -Half .. Half - 1
    <3> HIDE DEF x
    <3>1. x <= t + Half /\ t + Half < x + M
      BY <2>1 DEF x
    <3> QED
      BY <3>1, <2>3, <1>1
  <2>5. Round(t) = q
    BY <1>2 DEF Round, M
  <2> HIDE DEF q
  <2> QED
    BY <2>2, <2>3, <2>4, <2>5 DEF M
<1>3. CASE t < 0
  <2> DEFINE z == (Half - t) \div M
  <2>1. z = 0
    <3>1. Half - t \in Nat /\ Half - t < M
      BY <1>1, <1>3
    <3>2. z \in Int /\ M * z <= Half - t
      <4>1. Half - t \in Int
        BY <3>1
      <4> QED
        BY <1>1, <4>1, DivBounds, Zenon
    <3>5. z \in Nat
      BY <1>1, <3>1
    <3> HIDE DEF z
    <3>3. z >= 1 => M * z >= M
      BY <1>1, <3>5
    <3>4. M * z \in Int
      BY <1>1, <3>2
    <3> QED
      BY <1>1, <3>1, <3>2, <3>3, <3>4, <3>5
  <2>2. Round(t) = 0
    BY <1>3, <2>1 DEF Round, M
  <2> QED
    BY <1>1, <1>3, <2>2 DEF M
<1> QED
  BY <1>2, <1>3

\* The carry of roundInterval is what the recording is behind by.
LEMMA RoundIntervalKeeps ==
  ASSUME NEW c, InTime(c), NEW gap \in Nat \ {0}
  PROVE  InTime(RoundInterval(c, gap))
<1> DEFINE t == c.carry + gap
           ms == Round(t)
           x == ms * Millisecond
           d == RoundInterval(c, gap)
<1>0. c.carry \in -Half .. Half - 1 /\ c.drift = 0 - c.carry /\ c.back = FALSE
  BY DEF InTime
<1>1. c.carry \in Int /\ t \in Int /\ t > -Half
  BY <1>0, ClockAssumption
<1>2. d.carry = c.carry + gap - x
  BY Zenon DEF RoundInterval
<1>3. d.drift = c.drift + x - gap
  BY Zenon DEF RoundInterval
<1>4. d.back = (c.back \/ ms < 0)
  BY Zenon DEF RoundInterval
<1> HIDE DEF t
<1>5. ms \in Nat /\ t - x \in -Half .. Half - 1
  BY <1>1, RoundBounds
<1>6. x \in Int
  BY <1>5, ClockAssumption DEF Millisecond
<1> HIDE DEF ms, x, d
<1>7. d.carry = t - x
  BY <1>1, <1>2, <1>6 DEF t
<1>8. d.back = FALSE
  <2>1. ~(ms < 0)
    BY <1>5
  <2> QED
    BY <2>1, <1>0, <1>4, Zenon
<1>9. d.drift = 0 - d.carry
  BY <1>0, <1>1, <1>3, <1>6, <1>7 DEF t
<1> QED
  BY <1>5, <1>7, <1>8, <1>9 DEF d, InTime

\* So it is with the idle time clamped.
LEMMA EmitKeeps ==
  ASSUME NEW c, InTime(c), NEW gap \in Gaps
  PROVE  InTime(Emit(c, gap))
<1> DEFINE g == IF gap < MaxIdleTime THEN gap ELSE MaxIdleTime
<1>1. g \in Nat \ {0}
  BY ClockAssumption
<1> HIDE DEF g
<1>2. Emit(c, gap) = RoundInterval(c, g)
  BY DEF Emit, g
<1> QED
  BY <1>1, <1>2, RoundIntervalKeeps

\* What is read is a sequence of bytes.
LEMMA ReadsAreBytes == Reads \subseteq Seq(Bytes)
<1> SUFFICES ASSUME NEW d \in Reads PROVE d \in Seq(Bytes)
  OBVIOUS
<1>1. PICK n \in 1..MaxRead : d \in [1..n -> Bytes]
  BY DEF Reads
<1> QED
  BY <1>1, ReadsAssumption, IsASeq

\* A new recording.
LEMMA CastStarts == CastInit => CastInv
<1> SUFFICES ASSUME CastInit PROVE CastInv
  OBVIOUS
<1>1. <<>> \in Seq(Bytes) /\ Len(<<>>) = 0
  BY EmptySeq
<1>2. Streams
  BY <1>1 DEF CastInit, Streams
<1>3. ASSUME NEW k \in Kinds PROVE Stream(k)
  <2>1. heard[k] = <<>> /\ partial[k] = <<>> /\ text[k] = <<>>
    BY DEF CastInit
  <2>2. <<>> \o <<>> = <<>>
    BY <1>1, ConcatEmptySeq
  <2>3. MarshalEventData(<<>>) = <<>>
    BY <1>1, MarshalShape, EmptySeq, Zenon
  <2>4. Cut(<<>>, <<>>)
    BY <1>1 DEF Cut
  <2> QED
    BY <1>1, <2>1, <2>2, <2>3, <2>4, Zenon DEF Stream
<1>4. InTime(clock)
  <2>1. clock.carry = 0 /\ clock.drift = 0
    BY DEF CastInit
  <2>2. clock.back = FALSE
    BY Zenon DEF CastInit
  <2>3. 0 \in -Half .. Half - 1 /\ 0 = 0 - 0
    BY ClockAssumption
  <2> QED
    BY <2>1, <2>2, <2>3, Zenon DEF InTime
<1> QED
  BY <1>2, <1>3, <1>4 DEF CastInv, CastInit

\* An event of a stream.
LEMMA EventStep ==
  ASSUME CastInv, NEW kind \in Kinds, NEW data \in Reads, NEW gap \in Gaps,
         Event(kind, data, gap)
  PROVE  CastInv'
<1> DEFINE got == partial[kind] \o data
           cut == Len(got) - IncompleteTail(got)
           a == SubSeq(got, 1, cut)
           b == SubSeq(got, cut + 1, Len(got))
<1>1. /\ ~ended /\ ended' = ended
      /\ partial' = [partial EXCEPT ![kind] = b]
      /\ text' = [text EXCEPT ![kind] = @ \o MarshalEventData(a)]
      /\ heard' = [heard EXCEPT ![kind] = @ \o data]
      /\ clock' = Emit(clock, gap)
  BY DEF Event
<1>2. /\ heard \in [Kinds -> Seq(Bytes)] /\ partial \in [Kinds -> Seq(Bytes)]
      /\ DOMAIN text = Kinds /\ data \in Seq(Bytes)
      /\ \A k \in Kinds : Len(partial[k]) \in 0..3
  BY ReadsAreBytes DEF CastInv, Streams
<1>3. \A k \in Kinds : Stream(k)
  BY <1>1 DEF CastInv
<1>4. PICK s \in Seq(Bytes) : /\ heard[kind] = s \o partial[kind]
                              /\ text[kind] = MarshalEventData(s)
                              /\ Cut(s, partial[kind])
  BY <1>3 DEF Stream
<1>5. /\ a \in Seq(Bytes) /\ b \in Seq(Bytes) /\ Len(b) \in 0..3
      /\ (s \o partial[kind]) \o data = (s \o a) \o b
      /\ MarshalEventData(s \o a) = MarshalEventData(s) \o MarshalEventData(a)
      /\ Cut(s \o a, b)
  BY <1>2, <1>4, NextCut, Zenon
<1>6. s \o a \in Seq(Bytes)
  BY <1>5, ConcatProperties, Zenon
<1> HIDE DEF a, b
<1>7. /\ partial'[kind] = b /\ heard'[kind] = heard[kind] \o data
      /\ text'[kind] = text[kind] \o MarshalEventData(a)
      /\ \A k \in Kinds \ {kind} : /\ partial'[k] = partial[k] /\ heard'[k] = heard[k]
                                   /\ text'[k] = text[k]
      /\ DOMAIN text' = Kinds
  BY <1>1, <1>2
<1>8. heard[kind] \o data \in Seq(Bytes)
  BY <1>2, ConcatProperties
<1>9. Streams'
  <2>1. heard' \in [Kinds -> Seq(Bytes)]
    BY <1>1, <1>2, <1>8
  <2>2. partial' \in [Kinds -> Seq(Bytes)]
    BY <1>1, <1>2, <1>5
  <2>3. \A k \in Kinds : Len(partial'[k]) \in 0..3
    BY <1>2, <1>5, <1>7, Zenon
  <2> QED
    BY <2>1, <2>2, <2>3, <1>7 DEF Streams
<1>10. ASSUME NEW k \in Kinds PROVE Stream(k)'
  <2>1. CASE k = kind
    <3>1. heard'[k] = (s \o a) \o partial'[k]
      BY <2>1, <1>4, <1>5, <1>7, Zenon
    <3>2. text'[k] = MarshalEventData(s \o a)
      BY <2>1, <1>4, <1>5, <1>7
    <3>3. Cut(s \o a, partial'[k])
      BY <2>1, <1>5, <1>7
    <3> QED
      BY <3>1, <3>2, <3>3, <1>6, Zenon DEF Stream
  <2>2. CASE k # kind
    BY <2>2, <1>3, <1>7, Zenon DEF Stream
  <2> QED
    BY <2>1, <2>2
<1>11. InTime(clock')
  BY <1>1, EmitKeeps DEF CastInv
<1> QED
  BY <1>1, <1>9, <1>10, <1>11 DEF CastInv, InTime

\* The end of the recording.
LEMMA CloseStep ==
  ASSUME CastInv, CloseCast
  PROVE  CastInv'
<1>1. /\ ~ended /\ ended' = TRUE /\ heard' = heard /\ partial' = partial
      /\ text' = [k \in Kinds |-> text[k] \o MarshalEventData(partial[k])]
  BY DEF CloseCast
<1>2. /\ heard \in [Kinds -> Seq(Bytes)] /\ partial \in [Kinds -> Seq(Bytes)]
      /\ \A k \in Kinds : Len(partial[k]) \in 0..3
  BY DEF CastInv, Streams
<1>3. Streams'
  BY <1>1, <1>2 DEF Streams
<1>4. ASSUME NEW k \in Kinds PROVE text'[k] = MarshalEventData(heard'[k])
  <2>1. PICK s \in Seq(Bytes) : /\ heard[k] = s \o partial[k]
                                /\ text[k] = MarshalEventData(s)
                                /\ Cut(s, partial[k])
    BY <1>1 DEF CastInv, Stream
  <2>2. Clean(s, partial[k]) /\ partial[k] \in Seq(Bytes)
    BY <2>1, <1>2 DEF Clean, Cut
  <2>3. MarshalEventData(heard[k]) = MarshalEventData(s) \o MarshalEventData(partial[k])
    BY <2>1, <2>2, MarshalConcat
  <2> QED
    BY <2>1, <2>3, <1>1, Zenon
<1>5. InTime(clock')
  <2>1. PICK exit \in BOOLEAN, g1 \in Gaps, g2 \in Gaps, g3 \in Gaps :
          clock' = EmitIf(exit, EmitIf(partial["i"] # <<>>,
                                       EmitIf(partial["o"] # <<>>, clock, g1), g2), g3)
    BY DEF CloseCast
  <2>2. ASSUME NEW c, InTime(c), NEW g \in Gaps, NEW needed \in BOOLEAN
        PROVE  InTime(EmitIf(needed, c, g))
    BY <2>2, EmitKeeps DEF EmitIf
  <2> DEFINE c1 == EmitIf(partial["o"] # <<>>, clock, g1)
             c2 == EmitIf(partial["i"] # <<>>, c1, g2)
  <2>3. InTime(c1)
    BY <2>2, Zenon DEF CastInv
  <2> HIDE DEF c1
  <2>4. InTime(c2)
    BY <2>2, <2>3, Zenon
  <2> HIDE DEF c2
  <2>5. InTime(EmitIf(exit, c2, g3))
    BY <2>2, <2>4
  <2> QED
    BY <2>1, <2>5 DEF c1, c2
<1> QED
  BY <1>1, <1>3, <1>4, <1>5, Zenon DEF CastInv, InTime

\* Every step of the recorder.
LEMMA CastInductive == CastInv /\ [CastNext]_castVars => CastInv'
<1> SUFFICES ASSUME CastInv, [CastNext]_castVars PROVE CastInv'
  OBVIOUS
<1>1. ASSUME NEW k \in Kinds, NEW data \in Reads, NEW gap \in Gaps, Event(k, data, gap)
      PROVE  CastInv'
  BY <1>1, EventStep
<1>2. ASSUME NEW gap \in Gaps, RecordResize(gap)
      PROVE  CastInv'
  <2>1. InTime(clock')
    BY <1>2, EmitKeeps DEF RecordResize, CastInv
  <2> QED
    BY <1>2, <2>1, Zenon DEF RecordResize, CastInv, Streams, Stream, InTime
<1>3. CASE CloseCast
  BY <1>3, CloseStep
<1>4. CASE UNCHANGED castVars
  BY <1>4, Zenon DEF castVars, CastInv, Streams, Stream, InTime
<1> QED
  BY <1>1, <1>2, <1>3, <1>4 DEF CastNext

\* A sequence is the prefix of what it was extended to.
LEMMA PrefixOfConcat ==
  ASSUME NEW S, NEW p \in Seq(S), NEW q \in Seq(S)
  PROVE  SubSeq(p \o q, 1, Len(p)) = p
<1>1. CASE Len(p) = 0
  <2>1. p = <<>>
    BY <1>1, EmptySeq
  <2>2. SubSeq(p \o q, 1, Len(p)) = <<>>
    BY <1>1, SubSeqEmpty, ConcatProperties
  <2> QED
    BY <2>1, <2>2
<1>2. CASE Len(p) # 0
  <2>1. 1 \in 1..Len(p) /\ Len(p) \in 1..Len(p)
    BY <1>2, LenProperties
  <2> QED
    BY <2>1, SubSeqOfConcat1, SubSeqFull
<1> QED
  BY <1>1, <1>2

\* What is said of the streams is enough for the two properties.
LEMMA CastInvImplies == CastInv => TextIsKept /\ TimeIsKept
<1> SUFFICES ASSUME CastInv PROVE TextIsKept /\ TimeIsKept
  OBVIOUS
<1>1. ASSUME NEW k \in Kinds
      PROVE  /\ text[k] = SubSeq(MarshalEventData(heard[k]), 1, Len(text[k]))
             /\ Len(heard[k]) - Len(text[k]) \in 0 .. UTFMax - 1
             /\ ended => text[k] = MarshalEventData(heard[k])
  <2>1. heard[k] \in Seq(Bytes) /\ partial[k] \in Seq(Bytes) /\ Len(partial[k]) \in 0..3
    BY DEF CastInv, Streams
  <2>2. CASE ended
    <3>1. text[k] = MarshalEventData(heard[k])
      BY <2>2 DEF CastInv
    <3>2. text[k] \in Seq(Chars) /\ Len(text[k]) = Len(heard[k]) /\ Len(heard[k]) \in Nat
      BY <2>1, <3>1, MarshalShape, LenProperties
    <3>3. SubSeq(text[k], 1, Len(text[k])) = text[k]
      BY <3>2, SubSeqFull
    <3> QED
      BY <3>1, <3>2, <3>3 DEF UTFMax
  <2>3. CASE ~ended
    <3>1. PICK s \in Seq(Bytes) : /\ heard[k] = s \o partial[k]
                                  /\ text[k] = MarshalEventData(s)
                                  /\ Cut(s, partial[k])
      BY <2>3 DEF CastInv, Stream
    <3>2. Clean(s, partial[k])
      BY <3>1 DEF Clean, Cut
    <3>3. MarshalEventData(heard[k]) = text[k] \o MarshalEventData(partial[k])
      BY <2>1, <3>1, <3>2, MarshalConcat
    <3>4. /\ text[k] \in Seq(Chars) /\ Len(text[k]) = Len(s) /\ Len(s) \in Nat
          /\ MarshalEventData(partial[k]) \in Seq(Chars)
      BY <2>1, <3>1, MarshalShape, LenProperties
    <3>5. SubSeq(text[k] \o MarshalEventData(partial[k]), 1, Len(text[k])) = text[k]
      BY <3>4, PrefixOfConcat, Zenon
    <3>6. Len(heard[k]) = Len(s) + Len(partial[k])
      BY <2>1, <3>1, ConcatProperties
    <3>7. Len(heard[k]) - Len(text[k]) \in 0 .. UTFMax - 1
      BY <2>1, <3>4, <3>6 DEF UTFMax
    <3> QED
      BY <2>3, <3>3, <3>5, <3>7, Zenon
  <2> QED
    BY <2>2, <2>3, Zenon
<1>2. TimeIsKept
  BY ClockAssumption DEF CastInv, InTime, TimeIsKept
<1> QED
  BY <1>1, <1>2, Zenon DEF TextIsKept

(***************************************************************************)
(* Each stream reads in the recording as it would had it been recorded in  *)
(* one piece, for streams of any length, reads of any size and however     *)
(* these cut its characters (Recorder.event, incompleteTail): what partial *)
(* holds back is the head of a character, and closing writes it out.       *)
(***************************************************************************)
THEOREM StreamsReadAsRecorded == CastSpec => []TextIsKept
  BY CastStarts, CastInductive, CastInvImplies, PTL DEF CastSpec

(***************************************************************************)
(* The intervals of a recording sum to the time that passed, idle time     *)
(* clamped, to half a millisecond and after any number of events, and none *)
(* of them is negative (Recorder.emit, roundInterval): the error is the    *)
(* carry, which the next interval takes along.                             *)
(***************************************************************************)
THEOREM RecordingsKeepTime == CastSpec => []TimeIsKept
  BY CastStarts, CastInductive, CastInvImplies, PTL DEF CastSpec
=============================================================================
