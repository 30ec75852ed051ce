-------------------------- MODULE InPostCrawlProofs --------------------------
(***************************************************************************)
(* Theorems about InPostCrawl, for every page size, number of attempts,    *)
(* set of records and bound on the upstream changes.                       *)
(***************************************************************************)
EXTENDS InPostCrawl, PagingProofs, FiniteSetTheorems

-----------------------------------------------------------------------------
(* Type correctness. *)

LEMMA InitType == Init => TypeOK
<1>. SUFFICES ASSUME Init PROVE TypeOK
  OBVIOUS
<1>1. Cardinality(Records) \in Nat
  BY RecordsAssumption, FS_CardinalityType
<1>2. listing \in Seq(Records)
  <2>1. PICK n \in 0 .. Cardinality(Records) : listing \in [1 .. n -> Records]
    BY DEF Init
  <2>. QED
    BY <2>1, <1>1, SeqDef
<1>3. yielded \in Seq(Records)
  BY EmptySeq DEF Init
<1>4. 1 \in 1 .. MaxAttempts
  BY MaxAttemptsAssumption
<1>. QED
  BY <1>2, <1>3, <1>4 DEF Init, TypeOK, NewCrawl, Unknown

\* One step per action; only the sequences need more than a glance.
LEMMA StepType == TypeOK /\ [Next]_vars => TypeOK'
<1>. SUFFICES ASSUME TypeOK, [Next]_vars PROVE TypeOK'
  OBVIOUS
<1>. USE DEF TypeOK
<1>1. CASE StartCrawl
  <2>1. stable' \in SUBSET Records
    BY <1>1, ElementOfSeq, LenProperties DEF StartCrawl, ToSet
  <2>2. <<>> \in Seq(Records) /\ 1 \in 1 .. MaxAttempts
    BY EmptySeq, MaxAttemptsAssumption
  <2>. QED
    BY <1>1, <2>1, <2>2 DEF StartCrawl, NewCrawl, Unknown
<1>2. CASE GetPage
  <2>. DEFINE items == PageOf(listing, crawl.page)
              n     == Len(items)
              count == Len(listing)
  <2>1. items \in Seq(Records) /\ n \in Nat /\ count \in Nat
    BY PageProperties, LenProperties
  <2>. HIDE DEF items, n, count
  <2>2. yielded' = yielded \o items
    BY <1>2 DEF GetPage, items
  <2>3. yielded' \in Seq(Records)
    BY <2>1, <2>2, ConcatProperties
  <2>4. /\ pc' \in {"get", "done"}
        /\ crawl' \in {crawl, NextPage(crawl, n, count)}
        /\ attempt' \in {attempt, 1}
    BY <1>2 DEF GetPage, items, n, count
  <2>5. NextPage(crawl, n, count) \in
            [page : Nat \ {0}, seen : Nat, total : Nat \cup {Unknown}]
    BY <2>1 DEF NextPage, TotalOnce, Unknown
  <2>6. 1 \in 1 .. MaxAttempts
    BY MaxAttemptsAssumption
  <2>. QED
    BY <1>2, <2>3, <2>4, <2>5, <2>6 DEF GetPage, churnVars
<1>3. CASE GetFails
  BY <1>3, MaxAttemptsAssumption DEF GetFails, churnVars
<1>4. CASE GetRejected
  BY <1>4 DEF GetRejected, churnVars
<1>5. ASSUME NEW r \in Records, NEW i \in 1 .. Len(listing) + 1, Publish(r, i)
      PROVE  TypeOK'
  BY <1>5, InsertProperties DEF Publish, clientVars
<1>6. ASSUME NEW i \in 1 .. Len(listing), Withdraw(i)
      PROVE  TypeOK'
  BY <1>6, RemoveProperties DEF Withdraw, clientVars
<1>7. CASE UNCHANGED vars
  BY <1>7 DEF vars, clientVars, churnVars
<1>. QED
  BY <1>1, <1>2, <1>3, <1>4, <1>5, <1>6, <1>7 DEF Next, Client, Upstream

\* Every state of every crawl has the types of TypeOK, whatever InPost does
\* between two requests (iter_country's locals and what it has yielded).
THEOREM TypeCorrect == Spec => []TypeOK
<1>. QED
  BY InitType, StepType, PTL DEF Spec

-----------------------------------------------------------------------------
(* A crawl that nothing disturbs. *)

\* While a request is out in a quiet crawl, everything in front of the page
\* asked for has been yielded and counted, and `total` is right.
QuietProgress ==
    /\ crawl.seen = Offset(crawl.page)
    /\ crawl.seen <= Len(listing)
    /\ yielded = SubSeq(listing, 1, crawl.seen)
    /\ crawl.total \in {Unknown, Len(listing)}

\* The inductive invariant behind QuietCrawlIsExact, which says nothing of the
\* states in the middle of a crawl.
QuietInv ==
    published + withdrawn = 0 =>
        /\ pc = "get" => QuietProgress
        /\ pc = "done" => yielded = listing

\* A quiet crawl that reads a page makes progress or has yielded everything.
LEMMA QuietGetPage ==
    ASSUME TypeOK, QuietProgress, pc = "get", GetPage
    PROVE  \/ pc' = "get" /\ QuietProgress'
           \/ pc' = "done" /\ yielded' = listing'
<1>. DEFINE off   == Offset(crawl.page)
            count == Len(listing)
            upto  == Least(Offset(crawl.page + 1), count)
            items == PageOf(listing, crawl.page)
            n     == Len(items)
<1>1. /\ off \in Nat
      /\ Offset(crawl.page + 1) = off + PerPage
      /\ PerPage \in Nat \ {0}
      /\ count \in Nat
      /\ off <= count
  BY OffsetSteps, LenProperties DEF TypeOK, QuietProgress
<1>2. n = IF off < count THEN upto - off ELSE 0
  BY ZenonT(30), PageProperties DEF TypeOK
<1>3. /\ upto = IF off + PerPage <= count THEN off + PerPage ELSE count
      /\ upto \in off .. count
  BY <1>1 DEF Least
<1>4. yielded \o items = SubSeq(listing, 1, upto)
  <2>1. yielded = SubSeq(listing, 1, off)
    BY DEF QuietProgress
  <2>2. items = SubSeq(listing, off + 1, upto)
    BY DEF PageOf
  <2>3. /\ listing \in Seq(Records)
        /\ 1 \in 1 .. Len(listing) + 1
        /\ off \in 1 - 1 .. Len(listing)
        /\ upto \in off .. Len(listing)
    BY <1>1, <1>3 DEF TypeOK
  <2>. HIDE DEF off, upto, items
  <2>4. SubSeq(listing, 1, off) \o SubSeq(listing, off + 1, upto)
            = SubSeq(listing, 1, upto)
    BY <2>3, ConcatAdjacentSubSeq
  <2>. QED
    BY <2>1, <2>2, <2>4
<1>5. /\ yielded' = yielded \o items
      /\ listing' = listing
      /\ \/ /\ CrawlEnds(crawl, n, count)
            /\ pc' = "done"
         \/ /\ ~CrawlEnds(crawl, n, count)
            /\ pc' = "get"
            /\ crawl' = NextPage(crawl, n, count)
  BY DEF GetPage
<1>6. TotalOnce(crawl, count) = count /\ crawl.seen = off
  BY DEF QuietProgress, TotalOnce
<1>. HIDE DEF off, upto, items, count, n
<1>7. n = upto - off /\ n \in Nat
  BY <1>1, <1>2, <1>3
<1>8. CASE CrawlEnds(crawl, n, count) /\ pc' = "done"
  <2>1. upto = count
    BY <1>8, <1>1, <1>3, <1>6, <1>7 DEF CrawlEnds
  <2>. QED
    BY <2>1, <1>4, <1>5, <1>8, SubSeqFull DEF count, TypeOK
<1>9. CASE /\ ~CrawlEnds(crawl, n, count)
           /\ pc' = "get"
           /\ crawl' = NextPage(crawl, n, count)
  <2>1. upto = off + PerPage /\ upto <= count
    BY <1>9, <1>1, <1>3, <1>6, <1>7 DEF CrawlEnds
  <2>2. /\ crawl'.page = crawl.page + 1
        /\ crawl'.seen = upto
        /\ crawl'.total = count
    BY <1>9, <1>1, <1>3, <1>6, <1>7 DEF NextPage
  <2>3. Offset(crawl'.page) = upto
    BY <2>1, <2>2, <1>1
  <2>. QED
    BY <2>1, <2>2, <2>3, <1>4, <1>5, <1>9 DEF QuietProgress, count
<1>. QED
  BY <1>5, <1>8, <1>9

LEMMA InitQuiet == Init => QuietInv
  BY DEF Init, QuietInv

LEMMA StepQuiet == TypeOK /\ QuietInv /\ [Next]_vars => QuietInv'
<1>. SUFFICES ASSUME TypeOK, QuietInv, [Next]_vars PROVE QuietInv'
  OBVIOUS
<1>1. CASE StartCrawl
  <2>1. SubSeq(listing, 1, 0) = <<>> /\ Offset(1) = 0 /\ Len(listing) \in Nat
    BY SubSeqEmpty, OffsetSteps, LenProperties DEF TypeOK
  <2>. QED
    BY <1>1, <2>1 DEF StartCrawl, QuietInv, QuietProgress, NewCrawl
<1>2. CASE GetPage
  BY <1>2, QuietGetPage DEF GetPage, QuietInv, churnVars
<1>3. CASE GetFails
  BY <1>3 DEF GetFails, QuietInv, QuietProgress, churnVars
<1>4. CASE GetRejected
  BY <1>4 DEF GetRejected, QuietInv, QuietProgress, churnVars
<1>5. CASE Upstream
  <2>1. published' + withdrawn' # 0
    BY <1>5 DEF Upstream, Publish, Withdraw, TypeOK
  <2>. QED
    BY <2>1 DEF QuietInv
<1>6. CASE UNCHANGED vars
  BY <1>6 DEF vars, clientVars, churnVars, QuietInv, QuietProgress
<1>. QED
  BY <1>1, <1>2, <1>3, <1>4, <1>5, <1>6 DEF Next, Client

\* A crawl during which InPost changes nothing yields exactly the listing, for
\* every page size and listing and however many attempts its requests took:
\* iter_country neither drops a last short page nor reads one twice.
THEOREM QuietCrawlCorrect == Spec => []QuietCrawlIsExact
<1>1. QuietInv => QuietCrawlIsExact
  BY DEF QuietInv, QuietCrawlIsExact
<1>. QED
  BY <1>1, InitType, StepType, InitQuiet, StepQuiet, PTL DEF Spec

-----------------------------------------------------------------------------
(* A crawl that meets withdrawals only. *)

\* Distinct, over positions.
LEMMA DistinctSeq ==
    ASSUME NEW S, NEW s \in Seq(S)
    PROVE  Distinct(s) <=> \A i, j \in 1 .. Len(s) : s[i] = s[j] => i = j
BY LenProperties DEF Distinct, IsInjective

\* Nothing from the page asked for onwards has been yielded before.
AheadIsNew ==
    \A i \in 1 .. Len(listing), j \in 1 .. Len(yielded) :
        i > Offset(crawl.page) => listing[i] # yielded[j]

\* The inductive invariant behind WithdrawalsNeverRepeat: a listing names no
\* record twice, and a withdrawal moves the records ahead of the cursor to
\* places that are still ahead or already passed, never the other way.
NoRepeatInv ==
    /\ Distinct(listing)
    /\ published = 0 =>
        /\ Distinct(yielded)
        /\ pc = "get" => AheadIsNew

LEMMA InitNoRepeat == Init => NoRepeatInv
<1>. SUFFICES ASSUME Init PROVE NoRepeatInv
  OBVIOUS
<1>1. Distinct(<<>>)
  BY DEF Distinct, IsInjective
<1>. QED
  BY <1>1 DEF Init, NoRepeatInv

\* Reading a page of a distinct listing.
LEMMA NoRepeatGetPage ==
    ASSUME TypeOK, Distinct(listing), Distinct(yielded), AheadIsNew,
           pc = "get", GetPage
    PROVE  Distinct(yielded') /\ (pc' = "get" => AheadIsNew')
<1>. DEFINE off   == Offset(crawl.page)
            items == PageOf(listing, crawl.page)
            n     == Len(items)
<1>1. /\ off \in Nat
      /\ Offset(crawl.page + 1) = off + PerPage
      /\ PerPage \in Nat
      /\ Len(listing) \in Nat
      /\ Len(yielded) \in Nat
  BY OffsetSteps, LenProperties DEF TypeOK
<1>2. /\ items \in Seq(Records)
      /\ n \in Nat
      /\ \A i \in 1 .. n : /\ off + i \in 1 .. Len(listing)
                           /\ off + i <= off + PerPage
                           /\ items[i] = listing[off + i]
  <2>1. /\ items \in Seq(Records)
        /\ \A i \in 1 .. n : /\ off + i \in 1 .. Len(listing)
                             /\ off + i <= Offset(crawl.page + 1)
                             /\ items[i] = listing[off + i]
    <3>1. listing \in Seq(Records) /\ crawl.page \in Nat \ {0}
      BY DEF TypeOK
    <3>. QED
      BY ZenonT(30), <3>1, PageProperties DEF items, n, off
  <2>2. n \in Nat
    BY <2>1, LenProperties
  <2>. QED
    BY <1>1, <2>1, <2>2
<1>. HIDE DEF off, items, n
<1>3. /\ yielded' = yielded \o items
      /\ listing' = listing
      /\ pc' = "get" => crawl'.page = crawl.page + 1
  BY DEF GetPage, NextPage, items
<1>4. /\ yielded' \in Seq(Records)
      /\ Len(yielded') = Len(yielded) + n
      /\ \A j \in 1 .. Len(yielded) + n : yielded'[j] =
                IF j <= Len(yielded) THEN yielded[j] ELSE items[j - Len(yielded)]
  BY <1>2, <1>3, ConcatProperties DEF TypeOK, n
<1>5. ASSUME NEW j \in 1 .. Len(yielded) + n
      PROVE  \/ j <= Len(yielded) /\ yielded'[j] = yielded[j]
             \/ /\ j > Len(yielded)
                /\ off + (j - Len(yielded)) \in 1 .. Len(listing)
                /\ off + (j - Len(yielded)) <= off + PerPage
                /\ yielded'[j] = listing[off + (j - Len(yielded))]
  <2>1. CASE j <= Len(yielded)
    BY <2>1, <1>4
  <2>2. CASE j > Len(yielded)
    <3>1. j - Len(yielded) \in 1 .. n
      BY <2>2, <1>1, <1>2
    <3>. QED
      BY <3>1, <2>2, <1>1, <1>2, <1>4
  <2>. QED
    BY <2>1, <2>2, <1>1
<1>6. \A i, j \in 1 .. Len(listing) : listing[i] = listing[j] => i = j
  BY DistinctSeq DEF TypeOK
<1>7. \A i, j \in 1 .. Len(yielded) : yielded[i] = yielded[j] => i = j
  BY DistinctSeq DEF TypeOK
<1>8. ASSUME NEW i \in 1 .. Len(listing), NEW j \in 1 .. Len(yielded), i > off
      PROVE  listing[i] # yielded[j]
  BY <1>8 DEF AheadIsNew, off
<1>9. Distinct(yielded')
  <2>1. ASSUME NEW i \in 1 .. Len(yielded) + n, NEW j \in 1 .. Len(yielded) + n,
               yielded'[i] = yielded'[j]
        PROVE  i = j
    <3>1. CASE i <= Len(yielded) /\ j <= Len(yielded)
      BY <3>1, <2>1, <1>1, <1>5, <1>7
    <3>2. CASE i <= Len(yielded) /\ j > Len(yielded)
      <4>1. /\ off + (j - Len(yielded)) \in 1 .. Len(listing)
            /\ yielded'[j] = listing[off + (j - Len(yielded))]
            /\ yielded'[i] = yielded[i]
        BY <3>2, <1>1, <1>5
      <4>2. listing[off + (j - Len(yielded))] # yielded[i]
        <5>1. off + (j - Len(yielded)) > off
          BY <3>2, <1>1
        <5>2. i \in 1 .. Len(yielded)
          BY <3>2, <1>1
        <5>. QED
          BY <4>1, <5>1, <5>2, <1>8
      <4>. QED
        BY <4>1, <4>2, <2>1
    <3>3. CASE i > Len(yielded) /\ j <= Len(yielded)
      <4>1. /\ off + (i - Len(yielded)) \in 1 .. Len(listing)
            /\ yielded'[i] = listing[off + (i - Len(yielded))]
            /\ yielded'[j] = yielded[j]
        BY <3>3, <1>1, <1>5
      <4>2. listing[off + (i - Len(yielded))] # yielded[j]
        <5>1. off + (i - Len(yielded)) > off
          BY <3>3, <1>1
        <5>2. j \in 1 .. Len(yielded)
          BY <3>3, <1>1
        <5>. QED
          BY <4>1, <5>1, <5>2, <1>8
      <4>. QED
        BY <4>1, <4>2, <2>1
    <3>4. CASE i > Len(yielded) /\ j > Len(yielded)
      <4>1. /\ off + (i - Len(yielded)) \in 1 .. Len(listing)
            /\ off + (j - Len(yielded)) \in 1 .. Len(listing)
            /\ yielded'[i] = listing[off + (i - Len(yielded))]
            /\ yielded'[j] = listing[off + (j - Len(yielded))]
        BY <3>4, <1>1, <1>5
      <4>2. off + (i - Len(yielded)) = off + (j - Len(yielded))
        BY <4>1, <2>1, <1>6
      <4>. QED
        BY <4>2, <1>1, <1>2
    <3>. QED
      BY <3>1, <3>2, <3>3, <3>4, <1>1, <1>2
  <2>. QED
    BY <2>1, <1>4, DistinctSeq
<1>10. ASSUME pc' = "get" PROVE AheadIsNew'
  <2>1. Offset(crawl'.page) = off + PerPage
    BY <1>10, <1>3, <1>1
  <2>2. ASSUME NEW i \in 1 .. Len(listing), NEW j \in 1 .. Len(yielded) + n,
               i > off + PerPage
        PROVE  listing[i] # yielded'[j]
    BY <2>2, <1>1, <1>5, <1>6, <1>8
  <2>. QED
    BY <2>1, <2>2, <1>3, <1>4 DEF AheadIsNew
<1>. QED
  BY <1>9, <1>10

LEMMA StepNoRepeat == TypeOK /\ NoRepeatInv /\ [Next]_vars => NoRepeatInv'
<1>. SUFFICES ASSUME TypeOK, NoRepeatInv, [Next]_vars PROVE NoRepeatInv'
  OBVIOUS
<1>1. CASE StartCrawl
  <2>1. yielded' = <<>> /\ listing' = listing
    BY <1>1 DEF StartCrawl
  <2>2. Distinct(yielded') /\ AheadIsNew'
    BY <2>1 DEF Distinct, IsInjective, AheadIsNew
  <2>. QED
    BY <2>1, <2>2 DEF NoRepeatInv
<1>2. CASE GetPage
  BY <1>2, NoRepeatGetPage DEF GetPage, NoRepeatInv, churnVars
<1>3. CASE GetFails
  BY <1>3 DEF GetFails, NoRepeatInv, AheadIsNew, churnVars
<1>4. CASE GetRejected
  BY <1>4 DEF GetRejected, NoRepeatInv, AheadIsNew, churnVars
<1>5. ASSUME NEW r \in Records, NEW i \in 1 .. Len(listing) + 1, Publish(r, i)
      PROVE  NoRepeatInv'
  <2>1. published' # 0
    BY <1>5 DEF Publish, TypeOK
  <2>2. /\ listing' \in Seq(Records)
        /\ Len(listing) \in Nat
        /\ Len(listing') = Len(listing) + 1
        /\ \A j \in 1 .. Len(listing) + 1 : listing'[j] =
                IF j < i THEN listing[j] ELSE IF j = i THEN r ELSE listing[j - 1]
    <3>1. listing \in Seq(Records) /\ Len(listing) \in Nat
      BY LenProperties DEF TypeOK
    <3>2. listing' = InsertAt(listing, i, r)
      BY <1>5 DEF Publish
    <3>. DEFINE l == InsertAt(listing, i, r)
    <3>3. /\ l \in Seq(Records)
          /\ Len(l) = Len(listing) + 1
          /\ \A j \in 1 .. Len(listing) + 1 : l[j] =
                IF j < i THEN listing[j] ELSE IF j = i THEN r ELSE listing[j - 1]
      BY <3>1, InsertProperties
    <3>. QED
      BY <3>1, <3>2, <3>3
  <2>3. \A j \in 1 .. Len(listing) : listing[j] # r
    BY <1>5, LenProperties DEF Publish, ToSet, TypeOK
  <2>4. \A j, k \in 1 .. Len(listing) : listing[j] = listing[k] => j = k
    BY DistinctSeq DEF NoRepeatInv, TypeOK
  <2>5. \A j, k \in 1 .. Len(listing) + 1 : listing'[j] = listing'[k] => j = k
    <3>1. ASSUME NEW j \in 1 .. Len(listing) + 1
          PROVE  \/ j < i /\ j \in 1 .. Len(listing) /\ listing'[j] = listing[j]
                 \/ j = i /\ listing'[j] = r
                 \/ j > i /\ j - 1 \in 1 .. Len(listing) /\ listing'[j] = listing[j - 1]
      <4>1. listing'[j] = IF j < i THEN listing[j] ELSE IF j = i THEN r ELSE listing[j - 1]
        BY <2>2
      <4>2. /\ j < i => listing'[j] = listing[j]
            /\ j = i => listing'[j] = r
            /\ j > i => listing'[j] = listing[j - 1]
        BY <4>1
      <4>3. Len(listing) \in Nat
        BY <2>2
      <4>4. /\ j < i \/ j = i \/ j > i
            /\ j < i => j \in 1 .. Len(listing)
            /\ j > i => j - 1 \in 1 .. Len(listing)
        BY ONLY <4>3, i \in 1 .. Len(listing) + 1, j \in 1 .. Len(listing) + 1
      <4>. QED
        BY <4>2, <4>4
    <3>2. i \in Nat /\ Len(listing) \in Nat
      BY <2>2
    <3>3. ASSUME NEW j \in 1 .. Len(listing) + 1, NEW k \in 1 .. Len(listing) + 1,
                 listing'[j] = listing'[k]
          PROVE  j = k
      <4>1. CASE j = i \/ k = i
        <5>1. CASE j = i
          BY <5>1, <3>1, <3>2, <3>3, <2>3
        <5>2. CASE k = i
          BY <5>2, <3>1, <3>2, <3>3, <2>3
        <5>. QED
          BY <4>1, <5>1, <5>2
      <4>2. CASE j < i /\ k < i
        BY <4>2, <3>1, <3>2, <3>3, <2>4
      <4>3. CASE j > i /\ k > i
        BY SMTT(30), <4>3, <3>1, <3>2, <3>3, <2>4
      <4>4. CASE j < i /\ k > i
        BY <4>4, <3>1, <3>2, <3>3, <2>4
      <4>5. CASE j > i /\ k < i
        BY <4>5, <3>1, <3>2, <3>3, <2>4
      <4>. QED
        BY <4>1, <4>2, <4>3, <4>4, <4>5, <3>2
    <3>. QED
      BY <3>3
  <2>. QED
    BY <2>1, <2>2, <2>5, DistinctSeq DEF NoRepeatInv
<1>6. ASSUME NEW i \in 1 .. Len(listing), Withdraw(i)
      PROVE  NoRepeatInv'
  <2>1. /\ listing' \in Seq(Records)
        /\ Len(listing) \in Nat
        /\ Len(listing') = Len(listing) - 1
        /\ \A j \in 1 .. Len(listing) - 1 :
                listing'[j] = IF j < i THEN listing[j] ELSE listing[j + 1]
    BY <1>6, RemoveProperties, LenProperties DEF Withdraw, TypeOK
  <2>2. \A j, k \in 1 .. Len(listing) : listing[j] = listing[k] => j = k
    BY DistinctSeq DEF NoRepeatInv, TypeOK
  <2>3. \A j, k \in 1 .. Len(listing) - 1 : listing'[j] = listing'[k] => j = k
    BY <2>1, <2>2
  <2>4. Distinct(listing')
    BY <2>1, <2>3, DistinctSeq
  <2>5. ASSUME AheadIsNew PROVE AheadIsNew'
    <3>1. Offset(crawl.page) \in Nat
      BY OffsetSteps DEF TypeOK
    <3>2. ASSUME NEW j \in 1 .. Len(listing) - 1, NEW k \in 1 .. Len(yielded),
                 j > Offset(crawl.page)
          PROVE  listing'[j] # yielded[k]
      BY <3>1, <3>2, <2>1, <2>5 DEF AheadIsNew
    <3>. QED
      BY <3>2, <2>1, <1>6 DEF Withdraw, clientVars, AheadIsNew
  <2>. QED
    BY <2>4, <2>5, <1>6 DEF NoRepeatInv, Withdraw, clientVars
<1>7. CASE UNCHANGED vars
  BY <1>7 DEF vars, clientVars, churnVars, NoRepeatInv, AheadIsNew
<1>. QED
  BY <1>1, <1>2, <1>3, <1>4, <1>5, <1>6, <1>7 DEF Next, Client, Upstream

\* Records that disappear between two requests can hide others from a crawl,
\* but never make it yield one twice, so they can never put a name twice into
\* a batch (iter_country under a shrinking listing).
THEOREM WithdrawalsCorrect == Spec => []WithdrawalsNeverRepeat
<1>1. NoRepeatInv => WithdrawalsNeverRepeat
  BY DEF NoRepeatInv, WithdrawalsNeverRepeat
<1>. QED
  BY <1>1, InitType, StepType, InitNoRepeat, StepNoRepeat, PTL DEF Spec

-----------------------------------------------------------------------------
(* What churn costs: losses, repeats and order.                            *)

\* Counting a set that has at most one element more than another.
LEMMA OneMore ==
    ASSUME NEW S, NEW T, NEW x, IsFiniteSet(T), S \subseteq T \cup {x}
    PROVE  /\ IsFiniteSet(S)
           /\ Cardinality(S) \in Nat
           /\ Cardinality(T) \in Nat
           /\ Cardinality(S) <= Cardinality(T) + 1
<1>1. /\ IsFiniteSet(T \cup {x})
      /\ Cardinality(T \cup {x}) <= Cardinality(T) + 1
      /\ Cardinality(T) \in Nat
      /\ Cardinality(T \cup {x}) \in Nat
  BY FS_AddElement, FS_CardinalityType
<1>2. IsFiniteSet(S) /\ Cardinality(S) <= Cardinality(T \cup {x})
  BY <1>1, FS_Subset
<1>. QED
  BY <1>1, <1>2, FS_CardinalityType

LEMMA NoMore ==
    ASSUME NEW S, NEW T, IsFiniteSet(T), S \subseteq T
    PROVE  /\ IsFiniteSet(S)
           /\ Cardinality(S) \in Nat
           /\ Cardinality(T) \in Nat
           /\ Cardinality(S) <= Cardinality(T)
  BY FS_Subset, FS_CardinalityType

\* Counting a set in two parts.
LEMMA TwoParts ==
    ASSUME NEW S, NEW T, IsFiniteSet(S)
    PROVE  /\ Cardinality(S) = Cardinality(S \cap T) + Cardinality(S \ T)
           /\ Cardinality(S) \in Nat
           /\ Cardinality(S \cap T) \in Nat
           /\ Cardinality(S \ T) \in Nat
<1>1. IsFiniteSet(S \cap T) /\ IsFiniteSet(S \ T)
  BY FS_Subset
<1>2. Cardinality(S \ T) = Cardinality(S) - Cardinality(S \cap T)
  BY FS_Difference
<1>. QED
  BY <1>1, <1>2, FS_CardinalityType

LEMMA RecordSets ==
    ASSUME NEW S \in SUBSET Records
    PROVE  IsFiniteSet(S) /\ Cardinality(S) \in Nat
  BY RecordsAssumption, FS_Subset, FS_CardinalityType

\* The records of a sequence, and those behind its first k.
LEMMA ToSetElements ==
    ASSUME NEW S, NEW s \in Seq(S)
    PROVE  /\ ToSet(s) = {s[i] : i \in 1 .. Len(s)}
           /\ ToSet(s) \subseteq S
  BY LenProperties, ElementOfSeq DEF ToSet

LEMMA DistinctCount ==
    ASSUME NEW s \in Seq(Records), Distinct(s)
    PROVE  Cardinality(ToSet(s)) = Len(s)
<1>1. /\ s \in [1 .. Len(s) -> ToSet(s)]
      /\ Len(s) \in Nat
      /\ \A x \in ToSet(s) : \E i \in 1 .. Len(s) : s[i] = x
  BY LenProperties, ToSetElements
<1>2. \A i, j \in 1 .. Len(s) : s[i] = s[j] => i = j
  BY DistinctSeq
<1>3. s \in Bijection(1 .. Len(s), ToSet(s))
  BY <1>1, <1>2 DEF Bijection, Injection, Surjection, IsInjective
<1>4. ExistsBijection(1 .. Len(s), ToSet(s))
  BY <1>3 DEF ExistsBijection
<1>. QED
  BY <1>1, <1>4, FS_CountingElements

From(s, k) == {s[i] : i \in {j \in 1 .. Len(s) : j > k}}

\* A page of a listing without repeats takes its records off those ahead, and
\* an empty page means that there are none.
LEMMA PageTakesAhead ==
    ASSUME NEW s \in Seq(Records), Distinct(s), NEW p \in Nat \ {0}
    PROVE  /\ ToSet(PageOf(s, p)) \subseteq From(s, Offset(p))
           /\ From(s, Offset(p + 1)) = From(s, Offset(p)) \ ToSet(PageOf(s, p))
           /\ Cardinality(ToSet(PageOf(s, p))) = Len(PageOf(s, p))
           /\ PageOf(s, p) = <<>> => From(s, Offset(p)) = {}
           /\ \A i, j \in 1 .. Len(s) :
                i < j /\ s[j] \in ToSet(PageOf(s, p)) /\ s[i] \in From(s, Offset(p)) =>
                    s[i] \in ToSet(PageOf(s, p))
<1>. DEFINE off   == Offset(p)
            items == PageOf(s, p)
            n     == Len(items)
<1>1. /\ off \in Nat
      /\ Offset(p + 1) = off + PerPage
      /\ PerPage \in Nat \ {0}
      /\ Len(s) \in Nat
  BY OffsetSteps, LenProperties
<1>2. /\ items \in Seq(Records)
      /\ n = IF off < Len(s) THEN Least(Offset(p + 1), Len(s)) - off ELSE 0
      /\ \A i \in 1 .. n : /\ off + i \in 1 .. Len(s)
                           /\ off + i <= Offset(p + 1)
                           /\ items[i] = s[off + i]
  BY ZenonT(30), PageProperties
<1>3. \A i, j \in 1 .. Len(s) : s[i] = s[j] => i = j
  BY DistinctSeq
<1>4. ToSet(items) = {items[i] : i \in 1 .. n}
  BY <1>2, ToSetElements
<1>. HIDE DEF off, items, n
<1>5. n = IF off < Len(s) THEN (IF off + PerPage <= Len(s) THEN PerPage ELSE Len(s) - off)
          ELSE 0
  BY <1>1, <1>2 DEF Least
<1>6. ASSUME NEW x \in ToSet(items)
      PROVE  \E j \in 1 .. Len(s) : j > off /\ j <= off + PerPage /\ x = s[j]
  <2>1. PICK i \in 1 .. n : x = items[i]
    BY <1>4
  <2>. QED
    BY <2>1, <1>1, <1>2, <1>5
<1>7. ASSUME NEW j \in 1 .. Len(s), j > off, j <= off + PerPage
      PROVE  s[j] \in ToSet(items)
  <2>1. j - off \in 1 .. n
    BY <1>1, <1>5, <1>7
  <2>2. items[j - off] = s[j]
    <3>1. off + (j - off) = j
      BY <1>1
    <3>. QED
      BY <2>1, <3>1, <1>2
  <2>. QED
    BY <2>1, <2>2, <1>4
<1>8. ToSet(items) \subseteq From(s, off)
  BY <1>6 DEF From
<1>9. From(s, off + PerPage) = From(s, off) \ ToSet(items)
  <2>1. ASSUME NEW x \in From(s, off + PerPage)
        PROVE  x \in From(s, off) /\ x \notin ToSet(items)
    <3>1. PICK i \in 1 .. Len(s) : i > off + PerPage /\ x = s[i]
      BY DEF From
    <3>2. x \in From(s, off)
      BY <3>1, <1>1 DEF From
    <3>3. ASSUME x \in ToSet(items) PROVE FALSE
      <4>1. PICK j \in 1 .. Len(s) : j <= off + PerPage /\ x = s[j]
        BY <3>3, <1>6
      <4>2. i = j
        BY <3>1, <4>1, <1>3
      <4>. QED
        BY <3>1, <4>1, <4>2, <1>1
    <3>. QED
      BY <3>2, <3>3
  <2>2. ASSUME NEW x \in From(s, off), x \notin ToSet(items)
        PROVE  x \in From(s, off + PerPage)
    <3>1. PICK i \in 1 .. Len(s) : i > off /\ x = s[i]
      BY DEF From
    <3>2. i > off + PerPage
      BY <3>1, <2>2, <1>7, <1>1
    <3>. QED
      BY <3>1, <3>2 DEF From
  <2>. QED
    BY <2>1, <2>2
<1>10. Cardinality(ToSet(items)) = n
  <2>1. ASSUME NEW i \in 1 .. n, NEW j \in 1 .. n, items[i] = items[j]
        PROVE  i = j
    <3>1. off + i = off + j
      BY <2>1, <1>2, <1>3
    <3>. QED
      BY <3>1, <1>1, <1>5
  <2>2. Distinct(items)
    BY <2>1, <1>2, DistinctSeq DEF n
  <2>. QED
    BY <2>2, <1>2, DistinctCount DEF n
<1>11. items = <<>> => From(s, off) = {}
  <2>1. ASSUME items = <<>> PROVE off >= Len(s)
    <3>1. n = 0
      BY <2>1 DEF n
    <3>. QED
      BY <3>1, <1>1, <1>5
  <2>. QED
    BY <2>1, <1>1 DEF From
<1>12. ASSUME NEW i \in 1 .. Len(s), NEW j \in 1 .. Len(s), i < j,
              s[j] \in ToSet(items), s[i] \in From(s, off)
       PROVE  s[i] \in ToSet(items)
  <2>1. j <= off + PerPage
    <3>1. s[j] \notin From(s, off + PerPage)
      BY <1>9, <1>12
    <3>. QED
      BY <3>1, <1>1 DEF From
  <2>2. i > off
    BY <1>3, <1>12 DEF From
  <2>. QED
    BY <2>1, <2>2, <1>1, <1>7, <1>12
<1>. QED
  BY <1>1, <1>8, <1>9, <1>10, <1>11, <1>12 DEF off, items, n

\* A publication moves at most one record behind a place of the listing.
LEMMA InsertFrom ==
    ASSUME NEW s \in Seq(Records), NEW r \in Records, NEW i \in 1 .. Len(s) + 1,
           NEW k \in Nat
    PROVE  /\ From(s, k) \subseteq From(InsertAt(s, i, r), k)
           /\ \E x : From(InsertAt(s, i, r), k) \subseteq From(s, k) \cup {x}
           /\ ToSet(InsertAt(s, i, r)) = ToSet(s) \cup {r}
           /\ \A a, b \in 1 .. Len(InsertAt(s, i, r)) :
                a < b /\ InsertAt(s, i, r)[a] # r /\ InsertAt(s, i, r)[b] # r =>
                    \E c, d \in 1 .. Len(s) :
                        c < d /\ InsertAt(s, i, r)[a] = s[c] /\ InsertAt(s, i, r)[b] = s[d]
<1>. DEFINE l == InsertAt(s, i, r)
            x == IF i > k THEN r ELSE s[k]
<1>1. /\ Len(s) \in Nat
      /\ l \in Seq(Records)
      /\ Len(l) = Len(s) + 1
      /\ \A j \in 1 .. Len(s) + 1 :
            l[j] = IF j < i THEN s[j] ELSE IF j = i THEN r ELSE s[j - 1]
  <2>1. Len(s) \in Nat
    BY LenProperties
  <2>2. /\ InsertAt(s, i, r) \in Seq(Records)
        /\ Len(InsertAt(s, i, r)) = Len(s) + 1
        /\ \A j \in 1 .. Len(s) + 1 :
            InsertAt(s, i, r)[j] = IF j < i THEN s[j] ELSE IF j = i THEN r ELSE s[j - 1]
    <3>1. s \in Seq(Records) /\ r \in Records /\ i \in 1 .. Len(s) + 1
      OBVIOUS
    <3>2. InsertAt(s, i, r) \in Seq(Records)
      BY <3>1, InsertProperties, Zenon
    <3>3. Len(InsertAt(s, i, r)) = Len(s) + 1
      BY <3>1, InsertProperties, Zenon
    <3>4. ASSUME NEW j \in 1 .. Len(s) + 1
          PROVE  InsertAt(s, i, r)[j] = IF j < i THEN s[j] ELSE IF j = i THEN r ELSE s[j - 1]
      <4>1. \/ j < i /\ InsertAt(s, i, r)[j] = s[j]
            \/ j = i /\ InsertAt(s, i, r)[j] = r
            \/ j > i /\ InsertAt(s, i, r)[j] = s[j - 1]
        BY <3>1, InsertElement, Zenon
      <4>. QED
        BY <4>1, <2>1
    <3>. QED
      BY <3>2, <3>3, <3>4
  <2>. QED
    BY <2>1, <2>2
<1>. HIDE DEF l
<1>2. ASSUME NEW j \in 1 .. Len(s)
      PROVE  \/ j < i /\ j \in 1 .. Len(l) /\ l[j] = s[j]
             \/ j >= i /\ j + 1 \in 1 .. Len(l) /\ l[j + 1] = s[j]
  <2>1. CASE j < i
    BY <2>1, <1>1
  <2>2. CASE j >= i
    <3>1. j + 1 \in 1 .. Len(s) + 1 /\ ~(j + 1 < i) /\ j + 1 # i /\ (j + 1) - 1 = j
      BY <2>2, <1>1
    <3>. QED
      BY <2>2, <3>1, <1>1
  <2>. QED
    BY <2>1, <2>2, <1>1
<1>3. ASSUME NEW j \in 1 .. Len(l)
      PROVE  \/ j < i /\ j \in 1 .. Len(s) /\ l[j] = s[j]
             \/ j = i /\ l[j] = r
             \/ j > i /\ j - 1 \in 1 .. Len(s) /\ l[j] = s[j - 1]
  <2>1. CASE j < i
    BY <2>1, <1>1
  <2>2. CASE j = i
    BY <2>2, <1>1
  <2>3. CASE j > i
    BY <2>3, <1>1
  <2>. QED
    BY <2>1, <2>2, <2>3, <1>1
<1>4. From(s, k) \subseteq From(l, k)
  <2>1. ASSUME NEW j \in 1 .. Len(s), j > k
        PROVE  \E m \in 1 .. Len(l) : m > k /\ l[m] = s[j]
    BY <2>1, <1>1, <1>2
  <2>. QED
    BY <2>1 DEF From
<1>5. From(l, k) \subseteq From(s, k) \cup {x}
  <2>1. ASSUME NEW j \in 1 .. Len(l), j > k
        PROVE  l[j] \in From(s, k) \cup {x}
    <3>1. CASE j < i
      BY <3>1, <2>1, <1>1, <1>3 DEF From
    <3>2. CASE j = i
      BY <3>2, <2>1, <1>1, <1>3
    <3>3. CASE j > i
      <4>1. j - 1 \in 1 .. Len(s) /\ l[j] = s[j - 1]
        BY <3>3, <1>1, <1>3
      <4>2. CASE j - 1 > k
        BY <4>1, <4>2 DEF From
      <4>3. CASE j - 1 = k
        BY <4>1, <4>3, <3>3, <1>1
      <4>. QED
        BY <4>2, <4>3, <2>1, <1>1
    <3>. QED
      BY <3>1, <3>2, <3>3, <1>1
  <2>. HIDE DEF x
  <2>. QED
    BY <2>1 DEF From
<1>6. ToSet(l) = ToSet(s) \cup {r}
  <2>1. ToSet(s) = {s[j] : j \in 1 .. Len(s)} /\ ToSet(l) = {l[j] : j \in 1 .. Len(l)}
    BY <1>1, ToSetElements
  <2>2. i \in 1 .. Len(l) /\ l[i] = r
    BY <1>1
  <2>. QED
    BY <2>1, <2>2, <1>2, <1>3
<1>7. ASSUME NEW a \in 1 .. Len(l), NEW b \in 1 .. Len(l), a < b, l[a] # r, l[b] # r
      PROVE  \E c, d \in 1 .. Len(s) : c < d /\ l[a] = s[c] /\ l[b] = s[d]
  <2>. DEFINE old(j) == IF j < i THEN j ELSE j - 1
  <2>1. /\ old(a) \in 1 .. Len(s) /\ l[a] = s[old(a)]
        /\ old(b) \in 1 .. Len(s) /\ l[b] = s[old(b)]
    BY <1>7, <1>3, <1>1
  <2>2. a # i /\ b # i
    BY <1>7, <1>3
  <2>3. old(a) < old(b)
    BY <1>7, <2>2, <1>1
  <2>. QED
    BY <2>1, <2>3
<1>. QED
  BY <1>4, <1>5, <1>6, <1>7 DEF l

\* A withdrawal takes its record and at most one other from behind a place.
LEMMA RemoveFrom ==
    ASSUME NEW s \in Seq(Records), Distinct(s), NEW i \in 1 .. Len(s), NEW k \in Nat
    PROVE  /\ From(RemoveAt(s, i), k) \subseteq From(s, k)
           /\ s[i] \notin From(RemoveAt(s, i), k)
           /\ \E x : From(s, k) \subseteq From(RemoveAt(s, i), k) \cup {x}
           /\ ToSet(s) \ {s[i]} \subseteq ToSet(RemoveAt(s, i))
<1>. DEFINE l == RemoveAt(s, i)
            x == IF i > k THEN s[i] ELSE s[k + 1]
<1>1. /\ Len(s) \in Nat
      /\ l \in Seq(Records)
      /\ Len(l) = Len(s) - 1
      /\ \A j \in 1 .. Len(s) - 1 : l[j] = IF j < i THEN s[j] ELSE s[j + 1]
  BY RemoveProperties, LenProperties
<1>. HIDE DEF l
<1>2. \A m, j \in 1 .. Len(s) : s[m] = s[j] => m = j
  BY DistinctSeq
<1>3. ASSUME NEW j \in 1 .. Len(s)
      PROVE  \/ j < i /\ j \in 1 .. Len(l) /\ l[j] = s[j]
             \/ j = i
             \/ j > i /\ j - 1 \in 1 .. Len(l) /\ l[j - 1] = s[j]
  <2>1. CASE j < i
    BY <2>1, <1>1
  <2>2. CASE j > i
    <3>1. j - 1 \in 1 .. Len(s) - 1 /\ ~(j - 1 < i) /\ (j - 1) + 1 = j
      BY <2>2, <1>1
    <3>. QED
      BY <2>2, <3>1, <1>1
  <2>. QED
    BY <2>1, <2>2, <1>1
<1>4. ASSUME NEW j \in 1 .. Len(l)
      PROVE  \E m \in 1 .. Len(s) : m >= j /\ m # i /\ l[j] = s[m]
  <2>1. CASE j < i
    BY <2>1, <1>1
  <2>2. CASE j >= i
    <3>1. j + 1 \in 1 .. Len(s) /\ j + 1 >= j /\ j + 1 # i /\ l[j] = s[j + 1]
      BY <2>2, <1>1
    <3>. QED
      BY <3>1
  <2>. QED
    BY <2>1, <2>2, <1>1
<1>5. From(l, k) \subseteq From(s, k) /\ s[i] \notin From(l, k)
  <2>1. ASSUME NEW y \in From(l, k)
        PROVE  y \in From(s, k) /\ y # s[i]
    <3>1. PICK j \in 1 .. Len(l) : j > k /\ y = l[j]
      BY DEF From
    <3>2. PICK m \in 1 .. Len(s) : m >= j /\ m # i /\ l[j] = s[m]
      BY <1>4
    <3>3. m > k
      BY <3>1, <3>2, <1>1
    <3>. QED
      BY <3>1, <3>2, <3>3, <1>2 DEF From
  <2>. QED
    BY <2>1
<1>6. From(s, k) \subseteq From(l, k) \cup {x}
  <2>1. ASSUME NEW j \in 1 .. Len(s), j > k
        PROVE  s[j] \in From(l, k) \cup {x}
    <3>1. CASE j < i
      <4>1. j \in 1 .. Len(l) /\ l[j] = s[j]
        BY <3>1, <1>1
      <4>. QED
        BY <4>1, <2>1 DEF From
    <3>2. CASE j = i
      BY <3>2, <2>1, <1>1
    <3>3. CASE j > i
      <4>1. j - 1 \in 1 .. Len(l) /\ l[j - 1] = s[j]
        BY <3>3, <1>1, <1>3
      <4>2. CASE j - 1 > k
        BY <4>1, <4>2 DEF From
      <4>3. CASE j - 1 = k
        BY <4>3, <3>3, <1>1
      <4>. QED
        BY <4>2, <4>3, <2>1, <1>1
    <3>. QED
      BY <3>1, <3>2, <3>3, <1>1
  <2>. HIDE DEF x
  <2>. QED
    BY <2>1 DEF From
<1>7. ToSet(s) \ {s[i]} \subseteq ToSet(l)
  <2>1. ToSet(s) = {s[j] : j \in 1 .. Len(s)} /\ ToSet(l) = {l[j] : j \in 1 .. Len(l)}
    BY <1>1, ToSetElements
  <2>. QED
    BY <2>1, <1>3
<1>. QED
  BY <1>5, <1>6, <1>7 DEF l

-----------------------------------------------------------------------------

Got   == ToSet(yielded)
Ahead == From(listing, Offset(crawl.page))

\* The inductive invariant behind RepeatsBoundedByPublications: a record that
\* was yielded and lies ahead will come again, and a publication paid for it.
RepeatInv ==
    /\ Len(yielded) <= Cardinality(Got) + published
    /\ pc = "get" =>
        Len(yielded) + Cardinality(Ahead \cap Got) <= Cardinality(Got) + published

\* The inductive invariant behind LossBoundedByChurn.  Items yielded, and
\* records ahead, that are no gain (yielded before, or not stable) were paid for
\* by a change, so that `seen` reaches `total` with no more losses than changes;
\* and a stable record behind the cursor was passed by when one was withdrawn.
LossInv ==
    /\ stable \subseteq ToSet(listing)
    /\ pc = "get" =>
        /\ crawl.seen = Len(yielded)
        /\ crawl.total # Unknown => Cardinality(stable) <= crawl.total
        /\ Len(yielded) + Cardinality(Ahead \ (stable \ Got))
                <= Cardinality(stable \cap Got) + published + withdrawn
        /\ Cardinality(stable \ (Got \cup Ahead)) <= withdrawn
    /\ pc = "done" => Cardinality(stable \ Got) <= published + withdrawn

\* The inductive invariant behind PublicationsCutOnlyTheTail: of the stable
\* records, those yielded come before the others.
OrderInv ==
    withdrawn = 0 /\ pc \in {"get", "done"} =>
        \A i, j \in 1 .. Len(listing) :
            i < j /\ listing[i] \in stable /\ listing[j] \in stable /\ listing[j] \in Got =>
                listing[i] \in Got

ChurnInv == RepeatInv /\ LossInv /\ OrderInv

LEMMA InitChurn == Init => ChurnInv
<1>. SUFFICES ASSUME Init PROVE ChurnInv
  OBVIOUS
<1>1. yielded = <<>> /\ Got = {} /\ published = 0 /\ stable = {} /\ pc = "idle"
  BY DEF Init, Got, ToSet
<1>2. Cardinality({}) = 0
  BY FS_EmptySet
<1>. QED
  BY <1>1, <1>2 DEF ChurnInv, RepeatInv, LossInv, OrderInv

\* The sets of the invariant are finite.
LEMMA CountsTyped ==
    ASSUME TypeOK
    PROVE  /\ Got \in SUBSET Records
           /\ Ahead \in SUBSET Records
           /\ stable \in SUBSET Records
           /\ Len(yielded) \in Nat
           /\ Offset(crawl.page) \in Nat
<1>1. Ahead \in SUBSET Records
  BY ElementOfSeq, LenProperties DEF TypeOK, Ahead, From
<1>2. Offset(crawl.page) \in Nat
  BY OffsetSteps DEF TypeOK
<1>. QED
  BY <1>1, <1>2, ToSetElements, LenProperties DEF TypeOK, Got

\* A new crawl has yielded nothing, and everything stable is ahead of it.
LEMMA StartChurn ==
    ASSUME TypeOK, StartCrawl
    PROVE  ChurnInv'
<1>1. /\ yielded' = <<>> /\ Got' = {} /\ published' = 0 /\ withdrawn' = 0
      /\ stable' = ToSet(listing) /\ listing' = listing /\ pc' = "get"
      /\ crawl' = NewCrawl
  BY DEF StartCrawl, Got, ToSet
<1>2. crawl'.seen = 0 /\ crawl'.total = Unknown /\ Offset(crawl'.page) = 0
  BY <1>1, OffsetSteps DEF NewCrawl
<1>3. Ahead' = ToSet(listing)
  <2>1. From(listing, 0) = {listing[i] : i \in 1 .. Len(listing)}
    BY LenProperties DEF From, TypeOK
  <2>2. Ahead' = From(listing, 0)
    BY <1>1, <1>2 DEF Ahead
  <2>. QED
    BY <2>1, <2>2, ToSetElements DEF TypeOK
<1>4. /\ Ahead' \cap Got' = {}
      /\ Ahead' \ (stable' \ Got') = {}
      /\ stable' \cap Got' = {}
      /\ stable' \ (Got' \cup Ahead') = {}
  BY <1>1, <1>3
<1>5. Cardinality({}) = 0 /\ Len(<<>>) = 0
  BY FS_EmptySet
<1>6. RepeatInv'
  BY <1>1, <1>4, <1>5 DEF RepeatInv
<1>7. LossInv'
  <2>1. /\ Len(yielded') + Cardinality(Ahead' \ (stable' \ Got')) = 0
        /\ Cardinality(stable' \cap Got') + published' + withdrawn' = 0
        /\ Cardinality(stable' \ (Got' \cup Ahead')) = 0
    <3>1. /\ Cardinality(Ahead' \ (stable' \ Got')) = 0
          /\ Cardinality(stable' \cap Got') = 0
          /\ Cardinality(stable' \ (Got' \cup Ahead')) = 0
          /\ Len(yielded') = 0
      BY <1>1, <1>4, <1>5, Zenon
    <3>. QED
      BY <1>1, <3>1
  <2>. QED
    BY <1>1, <1>2, <1>5, <2>1 DEF LossInv
<1>8. OrderInv'
  BY <1>1 DEF OrderInv
<1>. QED
  BY <1>6, <1>7, <1>8 DEF ChurnInv

\* What a page changes, in sets of records.
LEMMA PageEffect ==
    ASSUME TypeOK, Distinct(listing), pc = "get", GetPage
    PROVE  \E T \in SUBSET Records :
             /\ T \subseteq Ahead
             /\ \A i, j \in 1 .. Len(listing) :
                    i < j /\ listing[j] \in T /\ listing[i] \in Ahead => listing[i] \in T
             /\ Got' = Got \cup T
             /\ Len(yielded') = Len(yielded) + Cardinality(T)
             /\ \/ /\ pc' = "get"
                   /\ Ahead' = Ahead \ T
                   /\ crawl'.seen = crawl.seen + Cardinality(T)
                   /\ crawl'.total = TotalOnce(crawl, Len(listing))
                \/ /\ pc' = "done"
                   /\ \/ Ahead = {}
                      \/ crawl.seen + Cardinality(T) >= TotalOnce(crawl, Len(listing))
<1>. DEFINE items == PageOf(listing, crawl.page)
            T     == ToSet(items)
<1>1. /\ items \in Seq(Records)
      /\ T \subseteq Ahead
      /\ From(listing, Offset(crawl.page + 1)) = Ahead \ T
      /\ Cardinality(T) = Len(items)
      /\ items = <<>> => Ahead = {}
      /\ \A i, j \in 1 .. Len(listing) :
            i < j /\ listing[j] \in T /\ listing[i] \in Ahead => listing[i] \in T
  BY PageTakesAhead, PageProperties DEF TypeOK, Ahead
<1>2. /\ yielded' = yielded \o items
      /\ listing' = listing
      /\ \/ /\ CrawlEnds(crawl, Len(items), Len(listing))
            /\ pc' = "done"
         \/ /\ ~CrawlEnds(crawl, Len(items), Len(listing))
            /\ pc' = "get"
            /\ crawl' = NextPage(crawl, Len(items), Len(listing))
  BY DEF GetPage
<1>. HIDE DEF items
<1>3. /\ Len(yielded') = Len(yielded) + Len(items)
      /\ Got' = Got \cup T
  <2>1. /\ yielded' \in Seq(Records)
        /\ Len(yielded') = Len(yielded) + Len(items)
        /\ \A j \in 1 .. Len(yielded) + Len(items) : yielded'[j] =
                IF j <= Len(yielded) THEN yielded[j] ELSE items[j - Len(yielded)]
        /\ Len(yielded) \in Nat /\ Len(items) \in Nat
    BY <1>1, <1>2, ConcatProperties, LenProperties DEF TypeOK
  <2>2. /\ Got = {yielded[j] : j \in 1 .. Len(yielded)}
        /\ T = {items[j] : j \in 1 .. Len(items)}
        /\ Got' = {yielded'[j] : j \in 1 .. Len(yielded')}
    <3>1. yielded \in Seq(Records)
      BY DEF TypeOK
    <3>2. ToSet(yielded) = {yielded[j] : j \in 1 .. Len(yielded)}
      BY <3>1, ToSetElements
    <3>3. ToSet(items) = {items[j] : j \in 1 .. Len(items)}
      BY <1>1, ToSetElements
    <3>4. ToSet(yielded') = {yielded'[j] : j \in 1 .. Len(yielded')}
      BY <2>1, ToSetElements
    <3>. QED
      BY <3>2, <3>3, <3>4 DEF Got
  <2>3. ASSUME NEW j \in 1 .. Len(yielded)
        PROVE  j \in 1 .. Len(yielded') /\ yielded'[j] = yielded[j]
    BY <2>1
  <2>4. ASSUME NEW j \in 1 .. Len(items)
        PROVE  /\ Len(yielded) + j \in 1 .. Len(yielded')
               /\ yielded'[Len(yielded) + j] = items[j]
    <3>1. /\ Len(yielded) + j \in 1 .. Len(yielded) + Len(items)
          /\ ~(Len(yielded) + j <= Len(yielded))
          /\ Len(yielded) + j - Len(yielded) = j
      BY <2>1
    <3>. QED
      BY <3>1, <2>1
  <2>5. ASSUME NEW j \in 1 .. Len(yielded')
        PROVE  yielded'[j] \in Got \cup T
    <3>1. CASE j <= Len(yielded)
      BY <3>1, <2>1, <2>2
    <3>2. CASE j > Len(yielded)
      <4>1. j - Len(yielded) \in 1 .. Len(items) /\ yielded'[j] = items[j - Len(yielded)]
        BY <3>2, <2>1
      <4>. QED
        BY <4>1, <2>2
    <3>. QED
      BY <3>1, <3>2, <2>1
  <2>. HIDE DEF T
  <2>6. Got \cup T = {yielded'[j] : j \in 1 .. Len(yielded')}
    <3>1. ASSUME NEW x \in Got \cup T
          PROVE  \E j \in 1 .. Len(yielded') : x = yielded'[j]
      BY <2>2, <2>3, <2>4
    <3>. HIDE DEF T
    <3>. QED
      BY <3>1, <2>5
  <2>. QED
    BY <2>1, <2>2, <2>6
<1>4. T \in SUBSET Records
  BY <1>1, ToSetElements
<1>5. CASE CrawlEnds(crawl, Len(items), Len(listing)) /\ pc' = "done"
  <2>1. \/ Ahead = {}
        \/ crawl.seen + Cardinality(T) >= TotalOnce(crawl, Len(listing))
    <3>1. Len(items) = 0 => items = <<>>
      BY <1>1, EmptySeq
    <3>. QED
      BY <3>1, <1>1, <1>5 DEF CrawlEnds
  <2>. HIDE DEF T
  <2>. QED
    BY <2>1, <1>1, <1>3, <1>4, <1>5
<1>6. CASE pc' = "get" /\ crawl' = NextPage(crawl, Len(items), Len(listing))
  <2>1. /\ crawl'.page = crawl.page + 1
        /\ crawl'.seen = crawl.seen + Len(items)
        /\ crawl'.total = TotalOnce(crawl, Len(listing))
    BY <1>6 DEF NextPage
  <2>2. Ahead' = Ahead \ T
    BY <2>1, <1>1, <1>2 DEF Ahead
  <2>. HIDE DEF T
  <2>. QED
    BY <2>1, <2>2, <1>1, <1>3, <1>4, <1>6
<1>. QED
  BY <1>2, <1>5, <1>6

\* Yielding a page: its records that are a gain raise both sides, the others
\* were counted while they lay ahead.
LEMMA PageChurn ==
    ASSUME TypeOK, NoRepeatInv, ChurnInv, pc = "get", GetPage
    PROVE  ChurnInv'
<1>. DEFINE gain == stable \ Got
<1>0. PICK T \in SUBSET Records :
        /\ T \subseteq Ahead
        /\ \A i, j \in 1 .. Len(listing) :
                i < j /\ listing[j] \in T /\ listing[i] \in Ahead => listing[i] \in T
        /\ Got' = Got \cup T
        /\ Len(yielded') = Len(yielded) + Cardinality(T)
        /\ \/ /\ pc' = "get"
              /\ Ahead' = Ahead \ T
              /\ crawl'.seen = crawl.seen + Cardinality(T)
              /\ crawl'.total = TotalOnce(crawl, Len(listing))
           \/ /\ pc' = "done"
              /\ \/ Ahead = {}
                 \/ crawl.seen + Cardinality(T) >= TotalOnce(crawl, Len(listing))
  BY PageEffect DEF NoRepeatInv
<1>1. UNCHANGED <<listing, published, withdrawn, stable>>
  BY DEF GetPage, churnVars
<1>2. /\ Got \in SUBSET Records /\ Ahead \in SUBSET Records /\ stable \in SUBSET Records
      /\ Len(yielded) \in Nat /\ published \in Nat /\ withdrawn \in Nat
  BY CountsTyped DEF TypeOK
<1>3. RepeatInv'
  <2>1. Cardinality(Got') = Cardinality(Got) + Cardinality(T \ Got)
    <3>1. Got' \cap Got = Got /\ Got' \ Got = T \ Got /\ Got' \in SUBSET Records
      BY <1>0, <1>2
    <3>. QED
      BY <3>1, TwoParts, RecordSets
  <2>2. Cardinality(T) = Cardinality(T \cap Got) + Cardinality(T \ Got)
    BY TwoParts, RecordSets
  <2>3. Cardinality(Ahead \cap Got) =
            Cardinality(T \cap Got) + Cardinality((Ahead \ T) \cap Got)
    <3>1. /\ (Ahead \cap Got) \cap T = T \cap Got
          /\ (Ahead \cap Got) \ T = (Ahead \ T) \cap Got
          /\ Ahead \cap Got \in SUBSET Records
      BY <1>0, <1>2
    <3>. QED
      BY ZenonT(30), <3>1, TwoParts, RecordSets
  <2>4. pc' = "get" => Ahead' \cap Got' = (Ahead \ T) \cap Got
    BY <1>0
  <2>5. /\ Cardinality(T \cap Got) \in Nat /\ Cardinality(T \ Got) \in Nat
        /\ Cardinality((Ahead \ T) \cap Got) \in Nat /\ Cardinality(Got) \in Nat
        /\ Cardinality(T) \in Nat /\ Cardinality(Ahead \cap Got) \in Nat
    BY <1>2, RecordSets
  <2>6. Len(yielded) + Cardinality(Ahead \cap Got) <= Cardinality(Got) + published
    BY DEF ChurnInv, RepeatInv
  <2>7. Len(yielded') = Len(yielded) + Cardinality(T)
    BY <1>0
  <2>8. Len(yielded') + Cardinality((Ahead \ T) \cap Got) <= Cardinality(Got') + published
    <3>. DEFINE again == Cardinality(T \cap Got)
                fresh == Cardinality(T \ Got)
                rest  == Cardinality((Ahead \ T) \cap Got)
                got   == Cardinality(Got)
                len   == Len(yielded)
    <3>1. /\ again \in Nat /\ fresh \in Nat /\ rest \in Nat /\ got \in Nat /\ len \in Nat
          /\ len + (again + rest) <= got + published
      BY <1>2, <2>3, <2>5, <2>6
    <3>2. Len(yielded') = len + (again + fresh) /\ Cardinality(Got') = got + fresh
      BY <2>1, <2>2, <2>7
    <3>. HIDE DEF again, fresh, rest, got, len
    <3>3. (len + (again + fresh)) + rest <= (got + fresh) + published
      BY <1>2, <3>1
    <3>. QED
      BY <3>2, <3>3 DEF rest
  <2>9. pc' = "get" => Cardinality(Ahead' \cap Got') = Cardinality((Ahead \ T) \cap Got)
    BY <2>4, Zenon
  <2>10. Len(yielded') \in Nat /\ Cardinality(Got') \in Nat
    BY <1>2, <2>1, <2>5, <2>7
  <2>. QED
    BY <1>1, <1>2, <2>5, <2>8, <2>9, <2>10 DEF RepeatInv
<1>4. /\ stable \subseteq ToSet(listing)
      /\ crawl.seen = Len(yielded)
      /\ crawl.total # Unknown => Cardinality(stable) <= crawl.total
      /\ Len(yielded) + Cardinality(Ahead \ gain)
                <= Cardinality(stable \cap Got) + published + withdrawn
      /\ Cardinality(stable \ (Got \cup Ahead)) <= withdrawn
  BY DEF ChurnInv, LossInv
<1>5. Cardinality(stable) <= TotalOnce(crawl, Len(listing))
  <2>1. Cardinality(stable) <= Len(listing)
    <3>1. Cardinality(ToSet(listing)) = Len(listing) /\ ToSet(listing) \in SUBSET Records
      BY DistinctCount, ToSetElements DEF NoRepeatInv, TypeOK
    <3>. QED
      BY <1>4, <3>1, NoMore, RecordSets
  <2>. QED
    BY <1>4, <2>1 DEF TotalOnce
<1>6. /\ Cardinality(T) = Cardinality(T \cap gain) + Cardinality(T \ gain)
      /\ Cardinality(Ahead \ gain) = Cardinality(T \ gain) + Cardinality((Ahead \ T) \ gain)
      /\ Cardinality(stable \cap Got') = Cardinality(stable \cap Got) + Cardinality(T \cap gain)
  <2>1. /\ (Ahead \ gain) \cap T = T \ gain
        /\ (Ahead \ gain) \ T = (Ahead \ T) \ gain
        /\ (stable \cap Got') \cap Got = stable \cap Got
        /\ (stable \cap Got') \ Got = T \cap gain
        /\ Ahead \ gain \in SUBSET Records
        /\ stable \cap Got' \in SUBSET Records
    BY <1>0, <1>2
  <2>. HIDE DEF gain
  <2>2. Cardinality(T) = Cardinality(T \cap gain) + Cardinality(T \ gain)
    BY TwoParts, RecordSets
  <2>3. Cardinality(Ahead \ gain) =
            Cardinality((Ahead \ gain) \cap T) + Cardinality((Ahead \ gain) \ T)
    BY <2>1, TwoParts, RecordSets
  <2>4. Cardinality(stable \cap Got') =
            Cardinality((stable \cap Got') \cap Got) + Cardinality((stable \cap Got') \ Got)
    BY <2>1, TwoParts, RecordSets
  <2>. QED
    BY <2>1, <2>2, <2>3, <2>4, Zenon
<1>7. /\ Cardinality(T \cap gain) \in Nat /\ Cardinality(T \ gain) \in Nat
      /\ Cardinality(Ahead \ gain) \in Nat /\ Cardinality((Ahead \ T) \ gain) \in Nat
      /\ Cardinality(stable \cap Got) \in Nat /\ Cardinality(stable \cap Got') \in Nat
      /\ Cardinality(T) \in Nat /\ Cardinality(stable) \in Nat
      /\ Cardinality(stable \ Got') \in Nat
  BY <1>2, RecordSets
<1>8. Len(yielded') + Cardinality((Ahead \ T) \ gain)
            <= Cardinality(stable \cap Got') + published + withdrawn
  <2>. DEFINE won  == Cardinality(T \cap gain)
              lost == Cardinality(T \ gain)
              rest == Cardinality((Ahead \ T) \ gain)
              got  == Cardinality(stable \cap Got)
              len  == Len(yielded)
  <2>1. Len(yielded') = len + Cardinality(T)
    BY <1>0
  <2>. HIDE DEF gain
  <2>2. /\ won \in Nat /\ lost \in Nat /\ rest \in Nat /\ got \in Nat /\ len \in Nat
        /\ len + (lost + rest) <= got + published + withdrawn
    <3>1. len + Cardinality(Ahead \ gain) <= got + published + withdrawn
      BY <1>4
    <3>. QED
      BY <3>1, <1>2, <1>6, <1>7
  <2>3. Len(yielded') = len + (won + lost) /\ Cardinality(stable \cap Got') = got + won
    BY <2>1, <1>6
  <2>. HIDE DEF won, lost, rest, got, len
  <2>4. (len + (won + lost)) + rest <= (got + won) + published + withdrawn
    BY <1>2, <2>2
  <2>. QED
    BY <2>3, <2>4 DEF rest
<1>9. LossInv'
  <2>1. CASE pc' = "get"
    <3>1. /\ Ahead' \ (stable' \ Got') = (Ahead \ T) \ gain
          /\ stable' \ (Got' \cup Ahead') = stable \ (Got \cup Ahead)
      BY <2>1, <1>0, <1>1
    <3>2. crawl'.seen = Len(yielded') /\ Cardinality(stable') <= crawl'.total
      BY <2>1, <1>0, <1>1, <1>4, <1>5
    <3>. HIDE DEF gain
    <3>. QED
      BY <2>1, <1>1, <1>4, <1>8, <3>1, <3>2 DEF LossInv
  <2>2. CASE pc' = "done"
    <3>1. Cardinality(stable \ Got') <= published + withdrawn
      <4>1. CASE Ahead = {}
        <5>1. stable \ Got' \subseteq stable \ (Got \cup Ahead)
          BY <4>1, <1>0
        <5>2. Cardinality(stable \ Got') <= Cardinality(stable \ (Got \cup Ahead))
              /\ Cardinality(stable \ (Got \cup Ahead)) \in Nat
          BY <5>1, <1>2, NoMore, RecordSets
        <5>. QED
          BY <5>2, <1>2, <1>4, <1>7
      <4>2. CASE crawl.seen + Cardinality(T) >= TotalOnce(crawl, Len(listing))
        <5>1. TotalOnce(crawl, Len(listing)) \in Int
          BY LenProperties DEF TypeOK, TotalOnce, Unknown
        <5>2. Cardinality(stable) <= Len(yielded')
          BY SMTT(30), <4>2, <5>1, <1>0, <1>2, <1>4, <1>5, <1>7
        <5>3. Cardinality(stable) = Cardinality(stable \cap Got') + Cardinality(stable \ Got')
          BY <1>2, TwoParts, RecordSets
        <5>4. Len(yielded') <= Cardinality(stable \cap Got') + published + withdrawn
          <6>1. Len(yielded') \in Nat
            BY <1>0, <1>2, <1>7
          <6>. HIDE DEF gain
          <6>. QED
            BY SMTT(30), <6>1, <1>8, <1>7, <1>2
        <5>. QED
          BY SMTT(30), <5>2, <5>3, <5>4, <1>0, <1>2, <1>7
      <4>. QED
        BY <2>2, <4>1, <4>2, <1>0
    <3>. QED
      BY <2>2, <3>1, <1>1, <1>4 DEF LossInv
  <2>. QED
    BY <1>0, <2>1, <2>2
<1>10. OrderInv'
  <2>. SUFFICES ASSUME withdrawn = 0, NEW i \in 1 .. Len(listing), NEW j \in 1 .. Len(listing),
                       i < j, listing[i] \in stable, listing[j] \in stable,
                       listing[j] \in Got'
                PROVE  listing[i] \in Got'
    BY <1>1 DEF OrderInv
  <2>1. stable \subseteq Got \cup Ahead
    <3>1. IsFiniteSet(stable \ (Got \cup Ahead)) /\ Cardinality(stable \ (Got \cup Ahead)) = 0
      BY <1>2, <1>4, RecordSets
    <3>. QED
      BY <3>1, FS_EmptySet
  <2>2. CASE listing[j] \in Got
    BY <2>2, <1>0 DEF ChurnInv, OrderInv
  <2>3. CASE listing[j] \in T
    BY <2>1, <2>3, <1>0
  <2>. QED
    BY <2>2, <2>3, <1>0
<1>. QED
  BY <1>3, <1>9, <1>10 DEF ChurnInv

\* A publication puts at most one record more ahead, and moves no listed record
\* in front of another.
LEMMA PublishChurn ==
    ASSUME TypeOK, ChurnInv, NEW r \in Records, NEW k \in 1 .. Len(listing) + 1,
           Publish(r, k)
    PROVE  ChurnInv'
<1>. DEFINE gain == stable \ Got
<1>1. /\ r \notin ToSet(listing)
      /\ listing' = InsertAt(listing, k, r)
      /\ published' = published + 1
      /\ UNCHANGED <<pc, crawl, yielded, withdrawn, stable>>
      /\ Got' = Got
  BY DEF Publish, clientVars, Got
<1>2. /\ Got \in SUBSET Records /\ Ahead \in SUBSET Records /\ stable \in SUBSET Records
      /\ Len(yielded) \in Nat /\ published \in Nat /\ withdrawn \in Nat
      /\ Offset(crawl.page) \in Nat
  BY CountsTyped DEF TypeOK
<1>3. /\ Ahead \subseteq Ahead'
      /\ \E x : Ahead' \subseteq Ahead \cup {x}
      /\ ToSet(listing') = ToSet(listing) \cup {r}
      /\ \A a, b \in 1 .. Len(listing') :
            a < b /\ listing'[a] # r /\ listing'[b] # r =>
                \E c, d \in 1 .. Len(listing) :
                    c < d /\ listing'[a] = listing[c] /\ listing'[b] = listing[d]
  <2>1. listing \in Seq(Records)
    BY DEF TypeOK
  <2>. DEFINE l   == InsertAt(listing, k, r)
              off == Offset(crawl.page)
  <2>2. Ahead' = From(l, off)
    BY <1>1 DEF Ahead
  <2>3. /\ From(listing, off) \subseteq From(l, off)
        /\ \E x : From(l, off) \subseteq From(listing, off) \cup {x}
        /\ ToSet(l) = ToSet(listing) \cup {r}
        /\ \A a, b \in 1 .. Len(l) :
                a < b /\ l[a] # r /\ l[b] # r =>
                    \E c, d \in 1 .. Len(listing) : c < d /\ l[a] = listing[c] /\ l[b] = listing[d]
    BY <2>1, <1>2, InsertFrom
  <2>4. listing' = l
    BY <1>1
  <2>. HIDE DEF l, off
  <2>. QED
    BY <2>2, <2>3, <2>4 DEF Ahead, off
<1>4. PICK x : Ahead' \subseteq Ahead \cup {x}
  BY <1>3
<1>5. /\ Cardinality(Ahead' \cap Got) \in Nat
      /\ Cardinality(Ahead \cap Got) \in Nat
      /\ Cardinality(Ahead' \cap Got) <= Cardinality(Ahead \cap Got) + 1
  <2>1. Ahead' \cap Got \subseteq (Ahead \cap Got) \cup {x} /\ Ahead \cap Got \in SUBSET Records
    BY <1>2, <1>4
  <2>. QED
    BY <2>1, OneMore, RecordSets
<1>6. /\ Cardinality(Ahead' \ gain) \in Nat
      /\ Cardinality(Ahead \ gain) \in Nat
      /\ Cardinality(Ahead' \ gain) <= Cardinality(Ahead \ gain) + 1
  <2>1. Ahead' \ gain \subseteq (Ahead \ gain) \cup {x} /\ Ahead \ gain \in SUBSET Records
    BY <1>2, <1>4
  <2>. QED
    BY <2>1, OneMore, RecordSets
<1>7. /\ Cardinality(stable \ (Got \cup Ahead')) \in Nat
      /\ Cardinality(stable \ (Got \cup Ahead)) \in Nat
      /\ Cardinality(stable \ (Got \cup Ahead')) <= Cardinality(stable \ (Got \cup Ahead))
  <2>1. /\ stable \ (Got \cup Ahead') \subseteq stable \ (Got \cup Ahead)
        /\ stable \ (Got \cup Ahead) \in SUBSET Records
    BY <1>2, <1>3
  <2>. QED
    BY <2>1, NoMore, RecordSets
<1>8. /\ Cardinality(Got) \in Nat
      /\ Cardinality(stable \cap Got) \in Nat
      /\ Cardinality(stable \ Got) \in Nat
  <2>1. stable \cap Got \in SUBSET Records /\ stable \ Got \in SUBSET Records
    BY <1>2
  <2>. QED
    BY <2>1, <1>2, RecordSets
<1>9. RepeatInv'
  <2>1. /\ Len(yielded) <= Cardinality(Got) + published
        /\ pc = "get" =>
            Len(yielded) + Cardinality(Ahead \cap Got) <= Cardinality(Got) + published
    BY DEF ChurnInv, RepeatInv
  <2>2. /\ Len(yielded) <= Cardinality(Got) + (published + 1)
        /\ pc = "get" =>
            Len(yielded) + Cardinality(Ahead' \cap Got) <= Cardinality(Got) + (published + 1)
    BY SMTT(30), <2>1, <1>2, <1>5, <1>8
  <2>. QED
    BY <2>2, <1>1 DEF RepeatInv
<1>10. LossInv'
  <2>1. /\ stable \subseteq ToSet(listing)
        /\ pc = "get" =>
            /\ crawl.seen = Len(yielded)
            /\ crawl.total # Unknown => Cardinality(stable) <= crawl.total
            /\ Len(yielded) + Cardinality(Ahead \ gain)
                    <= Cardinality(stable \cap Got) + published + withdrawn
            /\ Cardinality(stable \ (Got \cup Ahead)) <= withdrawn
        /\ pc = "done" => Cardinality(stable \ Got) <= published + withdrawn
    BY DEF ChurnInv, LossInv
  <2>2. stable \subseteq ToSet(listing')
    BY <2>1, <1>3
  <2>. HIDE DEF gain
  <2>3. ASSUME pc = "get"
        PROVE  Len(yielded) + Cardinality(Ahead' \ gain)
                    <= Cardinality(stable \cap Got) + (published + 1) + withdrawn
    <3>. DEFINE got == Cardinality(stable \cap Got)
                old == Cardinality(Ahead \ gain)
                new == Cardinality(Ahead' \ gain)
    <3>1. /\ got \in Nat /\ old \in Nat /\ new \in Nat /\ new <= old + 1
          /\ Len(yielded) + old <= got + published + withdrawn
      BY <2>1, <2>3, <1>6, <1>8
    <3>. HIDE DEF got, old, new
    <3>2. Len(yielded) + new <= got + (published + 1) + withdrawn
      BY <3>1, <1>2
    <3>. QED
      BY <3>2 DEF got, new
  <2>4. pc = "get" => Cardinality(stable \ (Got \cup Ahead')) <= withdrawn
    BY <2>1, <1>2, <1>7
  <2>5. pc = "done" => Cardinality(stable \ Got) <= (published + 1) + withdrawn
    BY <2>1, <1>2, <1>8
  <2>. QED
    BY <2>1, <2>2, <2>3, <2>4, <2>5, <1>1 DEF LossInv, gain
<1>11. OrderInv'
  <2>. SUFFICES ASSUME withdrawn = 0, pc \in {"get", "done"},
                       NEW a \in 1 .. Len(listing'), NEW b \in 1 .. Len(listing'),
                       a < b, listing'[a] \in stable, listing'[b] \in stable,
                       listing'[b] \in Got
                PROVE  listing'[a] \in Got
    BY <1>1 DEF OrderInv
  <2>1. r \notin stable
    BY <1>1 DEF ChurnInv, LossInv
  <2>2. PICK c, d \in 1 .. Len(listing) :
            c < d /\ listing'[a] = listing[c] /\ listing'[b] = listing[d]
    BY <2>1, <1>3
  <2>. QED
    BY <2>2 DEF ChurnInv, OrderInv
<1>. QED
  BY <1>9, <1>10, <1>11 DEF ChurnInv

\* A withdrawal moves at most one listed record behind the cursor, and takes
\* at most one from the stable ones.
LEMMA WithdrawChurn ==
    ASSUME TypeOK, Distinct(listing), ChurnInv,
           NEW k \in 1 .. Len(listing), Withdraw(k)
    PROVE  ChurnInv'
<1>. DEFINE gone == listing[k]
            gain == stable \ Got
<1>1. /\ listing' = RemoveAt(listing, k)
      /\ withdrawn' = withdrawn + 1
      /\ stable' = stable \ {gone}
      /\ UNCHANGED <<pc, crawl, yielded, published>>
      /\ Got' = Got
  BY DEF Withdraw, clientVars, Got
<1>2. /\ Got \in SUBSET Records /\ Ahead \in SUBSET Records /\ stable \in SUBSET Records
      /\ Len(yielded) \in Nat /\ published \in Nat /\ withdrawn \in Nat
      /\ Offset(crawl.page) \in Nat
  BY CountsTyped DEF TypeOK
<1>3. /\ Ahead' \subseteq Ahead
      /\ gone \notin Ahead'
      /\ \E x : Ahead \subseteq Ahead' \cup {x}
      /\ ToSet(listing) \ {gone} \subseteq ToSet(listing')
  <2>. DEFINE l   == RemoveAt(listing, k)
              off == Offset(crawl.page)
  <2>1. listing \in Seq(Records)
    BY DEF TypeOK
  <2>2. Ahead' = From(l, off) /\ listing' = l
    BY <1>1 DEF Ahead
  <2>3. /\ From(l, off) \subseteq From(listing, off)
        /\ listing[k] \notin From(l, off)
        /\ \E x : From(listing, off) \subseteq From(l, off) \cup {x}
        /\ ToSet(listing) \ {listing[k]} \subseteq ToSet(l)
    BY <2>1, <1>2, RemoveFrom
  <2>. HIDE DEF l, off
  <2>. QED
    BY <2>2, <2>3 DEF Ahead, off
<1>4. PICK x : Ahead \subseteq Ahead' \cup {x}
  BY <1>3
<1>. HIDE DEF gone
<1>5. /\ stable \subseteq ToSet(listing)
      /\ pc = "get" =>
            /\ crawl.seen = Len(yielded)
            /\ crawl.total # Unknown => Cardinality(stable) <= crawl.total
            /\ Len(yielded) + Cardinality(Ahead \ gain)
                    <= Cardinality(stable \cap Got) + published + withdrawn
            /\ Cardinality(stable \ (Got \cup Ahead)) <= withdrawn
      /\ pc = "done" => Cardinality(stable \ Got) <= published + withdrawn
  BY DEF ChurnInv, LossInv
<1>6. RepeatInv'
  <2>1. /\ Len(yielded) <= Cardinality(Got) + published
        /\ pc = "get" =>
            Len(yielded) + Cardinality(Ahead \cap Got) <= Cardinality(Got) + published
    BY DEF ChurnInv, RepeatInv
  <2>2. Ahead' \cap Got \subseteq Ahead \cap Got /\ Ahead \cap Got \in SUBSET Records
    BY <1>2, <1>3
  <2>3. /\ Cardinality(Ahead' \cap Got) \in Nat
        /\ Cardinality(Ahead \cap Got) \in Nat
        /\ Cardinality(Ahead' \cap Got) <= Cardinality(Ahead \cap Got)
    BY <2>2, NoMore, RecordSets
  <2>4. Cardinality(Got) \in Nat
    BY <1>2, RecordSets
  <2>5. pc = "get" =>
            Len(yielded) + Cardinality(Ahead' \cap Got) <= Cardinality(Got) + published
    BY <2>1, <2>3, <2>4, <1>2
  <2>. QED
    BY <2>1, <2>5, <1>1 DEF RepeatInv
<1>7. stable' \subseteq ToSet(listing')
  BY <1>1, <1>3, <1>5
<1>8. ASSUME pc = "get", crawl.total # Unknown
      PROVE  Cardinality(stable') <= crawl.total
  <2>1. stable' \subseteq stable
    BY <1>1
  <2>2. /\ Cardinality(stable') <= Cardinality(stable)
        /\ Cardinality(stable') \in Nat /\ Cardinality(stable) \in Nat
    BY <2>1, <1>2, NoMore, RecordSets
  <2>3. crawl.total \in Int
    BY <1>8 DEF TypeOK
  <2>. QED
    BY <2>2, <2>3, <1>5, <1>8
<1>9. ASSUME pc = "get"
      PROVE  Len(yielded) + Cardinality(Ahead' \ (stable' \ Got))
                <= Cardinality(stable' \cap Got) + published + (withdrawn + 1)
  <2>. DEFINE got  == Cardinality(stable \cap Got)
              got1 == Cardinality(stable' \cap Got)
              cost  == Cardinality(Ahead \ gain)
              cost1 == Cardinality(Ahead' \ (stable' \ Got))
  <2>1. got \in Nat /\ got1 \in Nat /\ got <= got1 + 1
    <3>1. /\ stable \cap Got \subseteq (stable' \cap Got) \cup {gone}
          /\ stable' \cap Got \in SUBSET Records
      BY <1>1, <1>2
    <3>. QED
      BY <3>1, OneMore, RecordSets
  <2>2. cost \in Nat /\ cost1 \in Nat /\ cost1 <= cost
    <3>1. /\ Ahead' \ (stable' \ Got) \subseteq Ahead \ gain
          /\ Ahead \ gain \in SUBSET Records
      BY <1>1, <1>2, <1>3
    <3>. QED
      BY <3>1, NoMore, RecordSets
  <2>3. Len(yielded) + cost <= got + published + withdrawn
    BY <1>5, <1>9
  <2>. HIDE DEF got, got1, cost, cost1
  <2>4. Len(yielded) + cost1 <= got1 + published + (withdrawn + 1)
    BY <2>1, <2>2, <2>3, <1>2
  <2>. QED
    BY <2>4 DEF got1, cost1
<1>10. ASSUME pc = "get"
       PROVE  Cardinality(stable' \ (Got \cup Ahead')) <= withdrawn + 1
  <2>1. /\ stable' \ (Got \cup Ahead') \subseteq (stable \ (Got \cup Ahead)) \cup {x}
        /\ stable \ (Got \cup Ahead) \in SUBSET Records
    BY <1>1, <1>2, <1>4
  <2>2. /\ Cardinality(stable' \ (Got \cup Ahead')) \in Nat
        /\ Cardinality(stable \ (Got \cup Ahead)) \in Nat
        /\ Cardinality(stable' \ (Got \cup Ahead')) <= Cardinality(stable \ (Got \cup Ahead)) + 1
    BY <2>1, OneMore, RecordSets
  <2>3. Cardinality(stable \ (Got \cup Ahead)) <= withdrawn
    BY <1>5, <1>10
  <2>. QED
    BY <2>2, <2>3, <1>2
<1>11. ASSUME pc = "done"
       PROVE  Cardinality(stable' \ Got) <= published + (withdrawn + 1)
  <2>1. stable' \ Got \subseteq stable \ Got /\ stable \ Got \in SUBSET Records
    BY <1>1, <1>2
  <2>2. /\ Cardinality(stable' \ Got) \in Nat /\ Cardinality(stable \ Got) \in Nat
        /\ Cardinality(stable' \ Got) <= Cardinality(stable \ Got)
    BY <2>1, NoMore, RecordSets
  <2>3. Cardinality(stable \ Got) <= published + withdrawn
    BY <1>5, <1>11
  <2>. QED
    BY <2>2, <2>3, <1>2
<1>12. LossInv'
  BY <1>1, <1>5, <1>7, <1>8, <1>9, <1>10, <1>11 DEF LossInv
<1>13. OrderInv'
  <2>1. withdrawn' # 0
    BY <1>1, <1>2
  <2>. QED
    BY <2>1 DEF OrderInv
<1>. QED
  BY <1>6, <1>12, <1>13 DEF ChurnInv

LEMMA StepChurn == TypeOK /\ NoRepeatInv /\ ChurnInv /\ [Next]_vars => ChurnInv'
<1>. SUFFICES ASSUME TypeOK, NoRepeatInv, ChurnInv, [Next]_vars PROVE ChurnInv'
  OBVIOUS
<1>1. CASE StartCrawl
  BY <1>1, StartChurn
<1>2. CASE GetPage
  BY <1>2, PageChurn DEF GetPage
<1>3. CASE GetFails \/ GetRejected
  <2>1. /\ UNCHANGED <<listing, crawl, yielded, published, withdrawn, stable>>
        /\ pc' = pc \/ pc' = "failed"
    BY <1>3 DEF GetFails, GetRejected, churnVars
  <2>2. Got' = Got /\ Ahead' = Ahead
    BY <2>1 DEF Got, Ahead
  <2>. QED
    BY <2>1, <2>2 DEF ChurnInv, RepeatInv, LossInv, OrderInv
<1>4. ASSUME NEW r \in Records, NEW k \in 1 .. Len(listing) + 1, Publish(r, k)
      PROVE  ChurnInv'
  BY <1>4, PublishChurn
<1>5. ASSUME NEW k \in 1 .. Len(listing), Withdraw(k)
      PROVE  ChurnInv'
  BY <1>5, WithdrawChurn DEF NoRepeatInv
<1>6. CASE UNCHANGED vars
  <2>1. UNCHANGED <<pc, listing, crawl, yielded, published, withdrawn, stable>>
    BY <1>6 DEF vars, clientVars, churnVars
  <2>2. Got' = Got /\ Ahead' = Ahead
    BY <2>1 DEF Got, Ahead
  <2>. QED
    BY <2>1, <2>2 DEF ChurnInv, RepeatInv, LossInv, OrderInv
<1>. QED
  BY <1>1, <1>2, <1>3, <1>4, <1>5, <1>6 DEF Next, Client, Upstream

\* A finished crawl of iter_country misses no more of the records listed all
\* along than the upstream changes it met, for every listing, page size and
\* number of changes.
THEOREM LossCorrect == Spec => []LossBoundedByChurn
<1>1. ChurnInv => LossBoundedByChurn
  BY DEF ChurnInv, LossInv, LossBoundedByChurn, Got
<1>. QED
  BY <1>1, InitType, StepType, InitNoRepeat, StepNoRepeat, InitChurn, StepChurn, PTL DEF Spec

\* At every moment of a crawl, the repeats among the items yielded are no more
\* than the publications it met.
THEOREM RepeatsCorrect == Spec => []RepeatsBoundedByPublications
<1>1. TypeOK /\ ChurnInv => RepeatsBoundedByPublications
  <2>. SUFFICES ASSUME TypeOK, ChurnInv PROVE RepeatsBoundedByPublications
    OBVIOUS
  <2>1. /\ Len(yielded) \in Nat /\ Cardinality(Got) \in Nat /\ published \in Nat
        /\ Len(yielded) <= Cardinality(Got) + published
    BY CountsTyped, RecordSets DEF ChurnInv, RepeatInv, TypeOK
  <2>2. Len(yielded) - Cardinality(Got) <= published
    BY <2>1
  <2>. QED
    BY <2>2 DEF RepeatsBoundedByPublications, Repeats, Got
<1>. QED
  BY <1>1, InitType, StepType, InitNoRepeat, StepNoRepeat, InitChurn, StepChurn, PTL DEF Spec

\* A finished crawl that met publications only has every stable record up to
\* some point of the listing and none behind it.
THEOREM TailCorrect == Spec => []PublicationsCutOnlyTheTail
<1>1. TypeOK /\ ChurnInv => PublicationsCutOnlyTheTail
  <2>. SUFFICES ASSUME TypeOK, ChurnInv, pc = "done", withdrawn = 0,
                       NEW i \in 1 .. Len(listing), listing[i] \in stable, listing[i] \notin Got,
                       NEW j \in i .. Len(listing), listing[j] \in Got, listing[j] \in stable
                PROVE  FALSE
    BY DEF PublicationsCutOnlyTheTail, Got
  <2>1. j \in 1 .. Len(listing) /\ (i < j \/ i = j)
    BY LenProperties DEF TypeOK
  <2>. QED
    BY <2>1 DEF ChurnInv, OrderInv
<1>. QED
  BY <1>1, InitType, StepType, InitNoRepeat, StepNoRepeat, InitChurn, StepChurn, PTL DEF Spec

=============================================================================
