---------------------------- MODULE PagingProofs ----------------------------
(***************************************************************************)
(* Lemmas about pages, insertions and removals, shared by the proofs about *)
(* InPostCrawl and IngestPipeline.                                         *)
(***************************************************************************)
EXTENDS Paging, SequencesExt, SequenceTheorems, TLAPS

\* Pages start where the previous one ends.
LEMMA OffsetSteps ==
    ASSUME NEW p \in Nat \ {0}
    PROVE  /\ Offset(p) \in Nat
           /\ Offset(p + 1) = Offset(p) + PerPage
           /\ PerPage \in Nat \ {0}
           /\ Offset(1) = 0
<1>1. PerPage \in Nat \ {0}
  BY PerPageAssumption
<1>2. /\ (p - 1) * PerPage \in Nat
      /\ (p + 1 - 1) * PerPage = (p - 1) * PerPage + PerPage
      /\ (1 - 1) * PerPage = 0
  BY <1>1
<1>. QED
  BY <1>1, <1>2 DEF Offset

\* A page is a sequence of records, empty behind the end of the listing, and
\* its i-th item is the record i places behind the page's offset.
LEMMA PageProperties ==
    ASSUME NEW S, NEW s \in Seq(S), NEW p \in Nat \ {0}
    PROVE  /\ PageOf(s, p) \in Seq(S)
           /\ Len(PageOf(s, p)) =
                IF Offset(p) < Len(s) THEN Least(Offset(p + 1), Len(s)) - Offset(p)
                ELSE 0
           /\ \A i \in 1 .. Len(PageOf(s, p)) :
                /\ Offset(p) + i \in 1 .. Len(s)
                /\ Offset(p) + i <= Offset(p + 1)
                /\ PageOf(s, p)[i] = s[Offset(p) + i]
<1>. DEFINE from == Offset(p) + 1
            to   == Least(Offset(p + 1), Len(s))
<1>1. /\ Offset(p) \in Nat
      /\ Offset(p + 1) = Offset(p) + PerPage
      /\ PerPage \in Nat \ {0}
      /\ Len(s) \in Nat
  BY OffsetSteps, LenProperties
<1>2. from \in Nat /\ to \in Nat /\ to <= Len(s) /\ to <= Offset(p + 1)
  BY <1>1 DEF Least
<1>3. \A i \in from .. to : s[i] \in S
  BY <1>1, <1>2, ElementOfSeq
<1>. HIDE DEF from, to
<1>4. /\ SubSeq(s, from, to) \in Seq(S)
      /\ Len(SubSeq(s, from, to)) = IF from <= to THEN to - from + 1 ELSE 0
      /\ \A i \in 1 .. to - from + 1 : SubSeq(s, from, to)[i] = s[from + i - 1]
  BY SMTT(30), <1>2, <1>3, SubSeqProperties
<1>5. PageOf(s, p) = SubSeq(s, from, to)
  BY DEF PageOf, from, to
<1>6. Len(PageOf(s, p)) = IF Offset(p) < Len(s) THEN to - Offset(p) ELSE 0
  BY <1>1, <1>4, <1>5 DEF from, to, Least
<1>7. ASSUME NEW i \in 1 .. Len(PageOf(s, p))
      PROVE  /\ Offset(p) + i \in 1 .. Len(s)
             /\ Offset(p) + i <= Offset(p + 1)
             /\ PageOf(s, p)[i] = s[Offset(p) + i]
  <2>1. i \in 1 .. to - Offset(p)
    BY <1>1, <1>2, <1>6
  <2>2. SubSeq(s, from, to)[i] = s[Offset(p) + i]
    BY SMTT(30), <2>1, <1>1, <1>2, <1>4 DEF from
  <2>. QED
    BY SMTT(30), <2>1, <2>2, <1>1, <1>2, <1>5
<1>. QED
  BY <1>4, <1>5, <1>6, <1>7 DEF to

\* What a listing is after a record has been inserted or removed.
LEMMA InsertProperties ==
    ASSUME NEW S, NEW s \in Seq(S), NEW r \in S, NEW i \in 1 .. Len(s) + 1
    PROVE  /\ InsertAt(s, i, r) \in Seq(S)
           /\ Len(InsertAt(s, i, r)) = Len(s) + 1
           /\ \A j \in 1 .. Len(s) + 1 :
                InsertAt(s, i, r)[j] = IF j < i THEN s[j]
                                       ELSE IF j = i THEN r ELSE s[j - 1]
<1>. DEFINE front == SubSeq(s, 1, i - 1)
            back  == SubSeq(s, i, Len(s))
            head  == front \o <<r>>
<1>0. Len(s) \in Nat
  BY LenProperties
<1>1. /\ front \in Seq(S)
      /\ Len(front) = i - 1
      /\ \A j \in 1 .. i - 1 : front[j] = s[j]
  BY <1>0, ElementOfSeq, SubSeqProperties
<1>2. /\ back \in Seq(S)
      /\ Len(back) = Len(s) - i + 1
      /\ \A j \in 1 .. Len(s) - i + 1 : back[j] = s[i + j - 1]
  BY <1>0, ElementOfSeq, SubSeqProperties
<1>. HIDE DEF front, back
<1>3. /\ head \in Seq(S)
      /\ Len(head) = i
      /\ \A j \in 1 .. i - 1 : head[j] = s[j]
      /\ head[i] = r
  <2>1. <<r>> \in Seq(S) /\ Len(<<r>>) = 1 /\ <<r>>[1] = r
    OBVIOUS
  <2>. QED
    BY <2>1, <1>0, <1>1, ConcatProperties
<1>. HIDE DEF head
<1>4. /\ head \o back \in Seq(S)
      /\ Len(head \o back) = Len(s) + 1
      /\ \A j \in 1 .. Len(s) + 1 : (head \o back)[j] =
                IF j <= i THEN head[j] ELSE back[j - i]
  BY <1>0, <1>2, <1>3, ConcatProperties
<1>5. ASSUME NEW j \in 1 .. Len(s) + 1
      PROVE  (head \o back)[j] = IF j < i THEN s[j] ELSE IF j = i THEN r ELSE s[j - 1]
  <2>1. CASE j <= i
    BY <2>1, <1>0, <1>3, <1>4
  <2>2. CASE j > i
    <3>1. (head \o back)[j] = back[j - i]
      BY <2>2, <1>0, <1>4
    <3>2. j - i \in 1 .. Len(s) - i + 1
      BY <2>2, <1>0
    <3>3. back[j - i] = s[i + (j - i) - 1]
      BY <3>2, <1>2
    <3>. QED
      BY <3>1, <3>3, <2>2, <1>0
  <2>3. j <= i \/ j > i
    BY <1>0
  <2>. QED
    BY <2>1, <2>2, <2>3
<1>6. InsertAt(s, i, r) = head \o back
  BY DEF InsertAt, front, back, head
<1>. QED
  BY <1>4, <1>5, <1>6

LEMMA InsertElement ==
    ASSUME NEW S, NEW s \in Seq(S), NEW r \in S, NEW i \in 1 .. Len(s) + 1,
           NEW j \in 1 .. Len(s) + 1
    PROVE  \/ j < i /\ InsertAt(s, i, r)[j] = s[j]
           \/ j = i /\ InsertAt(s, i, r)[j] = r
           \/ j > i /\ InsertAt(s, i, r)[j] = s[j - 1]
<1>1. InsertAt(s, i, r)[j] = IF j < i THEN s[j] ELSE IF j = i THEN r ELSE s[j - 1]
  BY InsertProperties
<1>2. Len(s) \in Nat
  BY LenProperties
<1>. QED
  BY <1>1, <1>2

LEMMA RemoveProperties ==
    ASSUME NEW S, NEW s \in Seq(S), NEW i \in 1 .. Len(s)
    PROVE  /\ RemoveAt(s, i) \in Seq(S)
           /\ Len(RemoveAt(s, i)) = Len(s) - 1
           /\ \A j \in 1 .. Len(s) - 1 :
                RemoveAt(s, i)[j] = IF j < i THEN s[j] ELSE s[j + 1]
<1>. DEFINE front == SubSeq(s, 1, i - 1)
            back  == SubSeq(s, i + 1, Len(s))
<1>0. Len(s) \in Nat
  BY LenProperties
<1>1. /\ front \in Seq(S)
      /\ Len(front) = i - 1
      /\ \A j \in 1 .. i - 1 : front[j] = s[j]
  BY ElementOfSeq, SubSeqProperties
<1>2. /\ back \in Seq(S)
      /\ Len(back) = Len(s) - i
      /\ \A j \in 1 .. Len(s) - i : back[j] = s[j + i]
  BY ElementOfSeq, SubSeqProperties
<1>. HIDE DEF front, back
<1>3. /\ front \o back \in Seq(S)
      /\ Len(front \o back) = Len(front) + Len(back)
      /\ \A j \in 1 .. Len(front) + Len(back) : (front \o back)[j] =
                IF j <= Len(front) THEN front[j] ELSE back[j - Len(front)]
  BY <1>1, <1>2, ConcatProperties
<1>4. ASSUME NEW j \in 1 .. Len(s) - 1
      PROVE  (front \o back)[j] = IF j < i THEN s[j] ELSE s[j + 1]
  <2>1. CASE j < i
    BY <2>1, <1>0, <1>1, <1>2, <1>3
  <2>2. CASE j >= i
    <3>1. (front \o back)[j] = back[j - (i - 1)]
      BY <2>2, <1>1, <1>2, <1>3
    <3>2. j - (i - 1) \in 1 .. Len(s) - i
      BY <2>2
    <3>3. back[j - (i - 1)] = s[j - (i - 1) + i]
      BY <3>2, <1>2
    <3>. QED
      BY <3>1, <3>3, <2>2
  <2>3. j < i \/ j >= i
    BY <1>0
  <2>. QED
    BY <2>1, <2>2, <2>3
<1>5. RemoveAt(s, i) = front \o back
  BY DEF RemoveAt, front, back
<1>. QED
  BY <1>0, <1>1, <1>2, <1>3, <1>4, <1>5

=============================================================================
