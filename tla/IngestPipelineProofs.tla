------------------------ MODULE IngestPipelineProofs ------------------------
(***************************************************************************)
(* Theorems about IngestPipeline, for any number of processes, countries,  *)
(* points, pages, batch sizes, cron jobs and upstream changes.             *)
(***************************************************************************)
EXTENDS IngestPipeline, PagingProofs, FiniteSetTheorems

MappedItems   == {it \in Items : it.point \in Mapped}
AcceptedItems == {it \in Items : it.point \in Accepted}

\* Tables whose rows all describe accepted points, which have a place.
Tables == {t \in [Lockers -> RowType \cup {Absent}] :
                \A n \in Lockers : t[n] # Absent => t[n].point \in Accepted}

\* The inductive invariant.  A process that reads pages has a country to read
\* them for; what it holds in memory was served, and what it is about to write
\* was also mapped; what Postgres then takes is accepted, so every row
\* describes an accepted point.
Inv ==
    /\ TypeOK
    /\ lockers \in Tables
    /\ \A r \in Runs : stage[r] \in {"get", "take"} => todo[r] # <<>>
    /\ page \in [Runs -> Seq(served)]
    /\ batch \in [Runs -> Seq(served \cap MappedItems)]

-----------------------------------------------------------------------------
(* Lemmas about the operators. *)

\* A nonempty set of positions has a last one: the positions behind it are a
\* minimal element among the sets of positions behind some member.
LEMMA LastPosition ==
    ASSUME NEW k \in Nat, NEW I \in SUBSET (1 .. k), I # {}
    PROVE  \E i \in I : \A j \in I : j <= i
<1>. DEFINE Behind(i) == {j \in I : j > i}
            T == {Behind(i) : i \in I}
<1>1. IsFiniteSet(1 .. k)
  BY FS_Interval
<1>2. IsFiniteSet(I)
  BY <1>1, FS_Subset
<1>3. T \subseteq SUBSET I /\ T # {}
  OBVIOUS
<1>4. FiniteSubsetsOf(I) = SUBSET I
  BY <1>2, FS_FiniteSubsetsOfFinite
<1>5. IsWellFoundedOn(StrictSubsetOrdering(I), SUBSET I)
  BY <1>4, FS_StrictSubsetOrderingWellFounded
<1>. HIDE DEF T
<1>6. \E x \in T : \A y \in T : <<y, x>> \notin StrictSubsetOrdering(I)
  BY <1>3, <1>5, WFMin
<1>. USE DEF T
<1>7. PICK i \in I : \A j \in I : <<Behind(j), Behind(i)>> \notin StrictSubsetOrdering(I)
  BY <1>6
<1>8. ASSUME NEW j \in I, ~(j <= i) PROVE FALSE
  <2>1. j > i /\ I \subseteq Nat
    BY <1>8
  <2>2. ASSUME NEW m \in Behind(j) PROVE m \in Behind(i)
    <3>1. m \in Nat /\ i \in Nat /\ j \in Nat /\ m > j
      BY <2>1
    <3>2. m > i
      BY <3>1, <2>1
    <3>. QED
      BY <3>2
  <2>3. j \in Behind(i) /\ j \notin Behind(j)
    BY <2>1
  <2>4. <<Behind(j), Behind(i)>> \in StrictSubsetOrdering(I)
    BY <2>2, <2>3 DEF StrictSubsetOrdering
  <2>. QED
    BY <2>4, <1>7
<1>. QED
  BY <1>8

\* The item an upsert uses for a name is one of the items it was given, and
\* has that name.
LEMMA LastNamedIsGiven ==
    ASSUME NEW S, NEW rows \in Seq(S), NEW n \in Named(rows)
    PROVE  LastNamed(rows, n) \in S /\ LastNamed(rows, n).name = n
<1>. DEFINE I == {i \in 1 .. Len(rows) : rows[i].name = n}
<1>1. Len(rows) \in Nat /\ DOMAIN rows = 1 .. Len(rows)
  BY LenProperties
<1>2. I # {}
  BY <1>1 DEF Named
<1>3. \E i \in I : \A j \in I : j <= i
  BY <1>1, <1>2, LastPosition
<1>4. \E i \in DOMAIN rows :
        /\ rows[i].name = n
        /\ \A j \in DOMAIN rows : rows[j].name = n => j <= i
  BY <1>1, <1>3
<1>5. \E i \in DOMAIN rows : LastNamed(rows, n) = rows[i] /\ rows[i].name = n
  BY <1>4 DEF LastNamed
<1>. QED
  BY <1>1, <1>5, ElementOfSeq

\* What Postgres does not refuse can be stored.
LEMMA StorableRows ==
    ASSUME NEW S, NEW rows \in Seq(S \cap MappedItems), NEW table, Upsertable(table, rows)
    PROVE  rows \in Seq(S \cap AcceptedItems)
<1>1. Len(rows) \in Nat /\ DOMAIN rows = 1 .. Len(rows)
  BY LenProperties
<1>2. ASSUME NEW i \in 1 .. Len(rows)
      PROVE  rows[i] \in S \cap AcceptedItems
  <2>1. rows[i] \in S \cap MappedItems
    BY ElementOfSeq
  <2>2. rows[i].point \in Storable
    BY <1>1 DEF Upsertable
  <2>. QED
    BY <2>1, <2>2 DEF MappedItems, AcceptedItems, Accepted
<1>3. rows = [i \in 1 .. Len(rows) |-> rows[i]]
  BY <1>1
<1>4. rows \in [1 .. Len(rows) -> S \cap AcceptedItems]
  BY <1>2, <1>3
<1>. QED
  BY <1>1, <1>4, SeqDef

\* A row after a point has been written to it.
Written(row, p) ==
    IF row = Absent THEN Row(p, Null, Null) ELSE [row EXCEPT !.point = p]

\* What one upsert does to one row.
LEMMA UpsertRow ==
    ASSUME NEW S \in SUBSET AcceptedItems, NEW table \in Tables,
           NEW rows \in Seq(S), NEW n \in Lockers
    PROVE  \/ Upsert(table, rows)[n] = table[n]
           \/ \E p \in Accepted :
                /\ [name |-> n, point |-> p] \in S
                /\ Upsert(table, rows)[n] = Written(table[n], p)
<1>1. CASE n \notin Named(rows)
  BY <1>1 DEF Upsert
<1>2. CASE n \in Named(rows)
  <2>. DEFINE it == LastNamed(rows, n)
  <2>1. it \in S /\ it.name = n
    BY <1>2, LastNamedIsGiven
  <2>. HIDE DEF it
  <2>2. it.point \in Accepted /\ it = [name |-> n, point |-> it.point]
    BY <2>1 DEF AcceptedItems, Items
  <2>3. Upsert(table, rows)[n] = Written(table[n], it.point)
    BY <1>2 DEF Upsert, Written, it
  <2>. QED
    BY <2>1, <2>2, <2>3
<1>. QED
  BY <1>1, <1>2

\* Upserts and joins lead from tables to tables.
LEMMA UpsertTable ==
    ASSUME NEW S \in SUBSET AcceptedItems, NEW table \in Tables, NEW rows \in Seq(S)
    PROVE  Upsert(table, rows) \in Tables
<1>. DEFINE new == Upsert(table, rows)
<1>1. ASSUME NEW n \in Lockers
      PROVE  /\ new[n] \in RowType \cup {Absent}
             /\ new[n] # Absent => new[n].point \in Accepted
  <2>1. table[n] \in RowType \cup {Absent} /\ (table[n] # Absent => table[n].point \in Accepted)
    BY DEF Tables
  <2>2. CASE new[n] = table[n]
    BY <2>1, <2>2
  <2>3. ASSUME NEW p \in Accepted,
               new[n] = Written(table[n], p)
        PROVE  new[n] \in RowType /\ new[n].point = p
    BY <2>1, <2>3 DEF RowType, Accepted, Mapped, Written, Row
  <2>4. \/ new[n] = table[n]
        \/ \E p \in Accepted :
                new[n] = Written(table[n], p)
    BY UpsertRow
  <2>. QED
    BY <2>2, <2>3, <2>4
<1>2. new = [n \in Lockers |-> new[n]]
  BY DEF Upsert
<1>. QED
  BY <1>1, <1>2 DEF Tables

\* What the joins read of a row: its place, which the regions are defined on.
LEMMA RowPlace ==
    ASSUME NEW table \in Tables, NEW n \in Lockers, table[n] # Absent
    PROVE  /\ table[n] \in RowType
           /\ table[n].point \in Accepted
           /\ table[n].point.place \in Places
BY PointsAssumption DEF Tables, Accepted, Mapped

\* What the snapshot keeps of a row.
LEMMA SnapshotTable ==
    ASSUME NEW table \in Tables
    PROVE  SnapshotOf(table) \in [Lockers -> SnapshotRow \cup {Absent}]
<1>1. ASSUME NEW n \in Lockers, table[n] # Absent
      PROVE  [status |-> table[n].point.status, place |-> table[n].point.place] \in SnapshotRow
  BY <1>1, RowPlace DEF Accepted, Mapped, SnapshotRow
<1>. QED
  BY <1>1 DEF SnapshotOf

LEMMA GminaTable ==
    ASSUME NEW table \in Tables
    PROVE  AssignedGmina(table) \in Tables
<1>. DEFINE new == AssignedGmina(table)
<1>1. ASSUME NEW n \in Lockers
      PROVE  /\ new[n] \in RowType \cup {Absent}
             /\ new[n] # Absent => new[n].point \in Accepted
  <2>1. CASE new[n] = table[n]
    BY <2>1 DEF Tables
  <2>2. CASE /\ table[n] # Absent
             /\ new[n] = [table[n] EXCEPT !.gmina = GminaAt[table[n].point.place]]
    BY <2>2, RowPlace DEF RowType
  <2>. QED
    BY <2>1, <2>2 DEF AssignedGmina
<1>. QED
  BY <1>1 DEF Tables, AssignedGmina

LEMMA Nuts2Table ==
    ASSUME NEW table \in Tables
    PROVE  AssignedNuts2(table) \in Tables
<1>. DEFINE new == AssignedNuts2(table)
<1>1. ASSUME NEW n \in Lockers
      PROVE  /\ new[n] \in RowType \cup {Absent}
             /\ new[n] # Absent => new[n].point \in Accepted
  <2>1. CASE new[n] = table[n]
    BY <2>1 DEF Tables
  <2>2. CASE /\ table[n] # Absent
             /\ new[n] = [table[n] EXCEPT !.nuts2 = Nuts2At[table[n].point.place]]
    BY <2>2, RowPlace, PointsAssumption DEF RowType
  <2>. QED
    BY <2>1, <2>2 DEF AssignedNuts2
<1>. QED
  BY <1>1 DEF Tables, AssignedNuts2

-----------------------------------------------------------------------------
(* The invariant. *)

LEMMA InitInv == Init => Inv
<1>. SUFFICES ASSUME Init PROVE Inv
  OBVIOUS
<1>1. listing \in [ToSet(CountriesActive) -> Seq(Lockers)]
  <2>1. Cardinality(Lockers) \in Nat
    BY LockersAssumption, FS_CardinalityType
  <2>2. UNION {[1 .. k -> Lockers] : k \in 0 .. Cardinality(Lockers)} \subseteq Seq(Lockers)
    BY <2>1, SeqDef
  <2>. QED
    BY <2>2 DEF Init
<1>2. EmptyTable \in Tables
  BY DEF EmptyTable, Tables
<1>3. /\ lockers \in Tables
      /\ snapshot \in [Lockers -> SnapshotRow \cup {Absent}]
  BY <1>2, SnapshotTable DEF Init, Tables
<1>4. NewCrawl \in [page : Nat \ {0}, seen : Nat, total : Nat \cup {Unknown}]
  BY DEF NewCrawl
<1>5. Len(Views) = 4
  BY DEF Views
<1>6. \A S : <<>> \in Seq(S)
  BY EmptySeq
<1>. QED
  BY <1>1, <1>3, <1>4, <1>5, <1>6, MaxChangesAssumption
  DEF Init, Inv, TypeOK, Stopped, Tables

\* A process that ends early leaves no memory behind.
LEMMA ExitInv ==
    ASSUME Inv, NEW r \in Runs, NEW how \in {"failed", "raised"}, Exit(r, how),
           UNCHANGED <<upstream, database, full, served, disturbed>>
    PROVE  Inv'
<1>1. NewCrawl \in [page : Nat \ {0}, seen : Nat, total : Nat \cup {Unknown}]
  BY DEF NewCrawl
<1>2. 1 \in 1 .. Len(Views)
  BY DEF Views
<1>3. \A S : <<>> \in Seq(S)
  BY EmptySeq
<1>. QED
  BY <1>1, <1>2, <1>3 DEF Inv, TypeOK, Exit, Stopped, upstream, database

\* A process starts with a country to read, or does not read.
LEMMA StartInv ==
    ASSUME Inv, NEW r \in Runs, Command(r)
    PROVE  Inv'
<1>1. ASSUME NEW first \in {"get", "gminy", "snapshot", "refresh"},
             NEW isFull \in BOOLEAN,
             NEW countries \in Seq(ToSet(CountriesActive)),
             first = "get" => countries # <<>>,
             Start(r, first, isFull, countries)
      PROVE  Inv'
  <2>1. disturbed' \subseteq Runs
    BY <1>1 DEF Start, Active, Inv, TypeOK
  <2>. QED
    BY <1>1, <2>1 DEF Inv, TypeOK, Start, upstream, database, Stopped
<1>2. CountriesActive \in Seq(ToSet(CountriesActive)) \ {<<>>}
  <2>1. /\ Len(CountriesActive) \in Nat
        /\ CountriesActive \in [1 .. Len(CountriesActive) -> STRING]
        /\ DOMAIN CountriesActive = 1 .. Len(CountriesActive)
    BY CountriesAssumption, LenProperties
  <2>2. CountriesActive \in [1 .. Len(CountriesActive) -> ToSet(CountriesActive)]
    BY <2>1 DEF ToSet
  <2>. QED
    BY <2>1, <2>2, SeqDef, CountriesAssumption
<1>3. ASSUME NEW c \in ToSet(CountriesActive)
      PROVE  <<c>> \in Seq(ToSet(CountriesActive)) /\ <<c>> # <<>>
  OBVIOUS
<1>4. <<>> \in Seq(ToSet(CountriesActive))
  BY EmptySeq
<1>5. CASE StartAll(r)
  BY <1>5, <1>1, <1>2 DEF StartAll
<1>6. ASSUME NEW c \in ToSet(CountriesActive), StartCountry(r, c)
      PROVE  Inv'
  BY <1>6, <1>1, <1>3 DEF StartCountry
<1>7. CASE StartAssign(r)
  BY <1>7, <1>1, <1>4 DEF StartAssign
<1>8. CASE StartSnapshot(r)
  BY <1>8, <1>1, <1>4 DEF StartSnapshot
<1>9. CASE StartRefresh(r)
  BY <1>9, <1>1, <1>4 DEF StartRefresh
<1>. QED
  BY <1>5, <1>6, <1>7, <1>8, <1>9 DEF Command

\* The items of a page are items, and are served with it.
LEMMA GetPageInv ==
    ASSUME Inv, NEW r \in Runs, GetPage(r)
    PROVE  Inv'
<1>. DEFINE names == listing[Head(todo[r])]
            cut   == PageOf(names, crawl[r].page)
            items == [i \in DOMAIN cut |->
                        LET n == cut[i] IN [name |-> n, point |-> point[n]]]
<1>1. Head(todo[r]) \in ToSet(CountriesActive) /\ crawl[r].page \in Nat \ {0}
  BY HeadTailProperties DEF Inv, TypeOK, GetPage
<1>2. names \in Seq(Lockers)
  BY <1>1 DEF Inv, TypeOK
<1>3. cut \in Seq(Lockers)
  BY <1>1, <1>2, PageProperties
<1>4. /\ Len(cut) \in Nat
      /\ DOMAIN cut = 1 .. Len(cut)
      /\ \A i \in 1 .. Len(cut) : cut[i] \in Lockers
  BY <1>3, LenProperties, ElementOfSeq
<1>. HIDE DEF cut, names
<1>5. /\ items \in [1 .. Len(cut) -> Items]
      /\ items \in [1 .. Len(cut) -> ToSet(items)]
      /\ ToSet(items) \subseteq Items
  BY <1>4 DEF Items, ToSet, Inv, TypeOK
<1>6. items \in Seq(Items) /\ items \in Seq(ToSet(items))
  BY <1>4, <1>5, SeqDef
<1>. HIDE DEF items
<1>7. Len(items) \in Nat /\ Len(names) \in Nat
  BY <1>2, <1>6, LenProperties
<1>8. /\ page' = [page EXCEPT ![r] = items]
      /\ last' = [last EXCEPT ![r] = CrawlEnds(crawl[r], Len(items), Len(names))]
      /\ crawl' = [crawl EXCEPT ![r] = NextPage(crawl[r], Len(items), Len(names))]
      /\ served' = served \cup ToSet(items)
      /\ stage' = [stage EXCEPT ![r] = "take"]
      /\ stage[r] = "get"
      /\ UNCHANGED <<upstream, database, full, todo, batch, nextView, disturbed>>
  BY DEF GetPage, Goto, items, cut, names
<1>9. NextPage(crawl[r], Len(items), Len(names)) \in
            [page : Nat \ {0}, seen : Nat, total : Nat \cup {Unknown}]
  BY SMTT(30), <1>7 DEF NextPage, TotalOnce, Inv, TypeOK
<1>10. CrawlEnds(crawl[r], Len(items), Len(names)) \in BOOLEAN
  BY DEF CrawlEnds
<1>11. /\ served' \in SUBSET Items
       /\ page' \in [Runs -> Seq(served')]
       /\ page' \in [Runs -> Seq(Items)]
  <2>1. Seq(served) \subseteq Seq(served') /\ Seq(ToSet(items)) \subseteq Seq(served')
    BY <1>8, SeqMonotonic
  <2>. QED
    BY <2>1, <1>5, <1>6, <1>8 DEF Inv, TypeOK
<1>12. batch' \in [Runs -> Seq(served' \cap MappedItems)]
  <2>1. Seq(served \cap MappedItems) \subseteq Seq(served' \cap MappedItems)
    BY <1>8, SeqMonotonic
  <2>. QED
    BY <2>1, <1>8 DEF Inv
<1>. QED
  BY <1>8, <1>9, <1>10, <1>11, <1>12 DEF Inv, TypeOK, upstream, database, Stopped

\* An item taken from the page is valid data for a batch.
LEMMA TakenItem ==
    ASSUME Inv, NEW r \in Runs, page[r] # <<>>
    PROVE  /\ Head(page[r]) \in served
           /\ Head(page[r]) \in Items
           /\ Tail(page[r]) \in Seq(served)
           /\ Tail(page[r]) \in Seq(Items)
<1>1. page[r] \in Seq(served) /\ page[r] \in Seq(Items)
  BY DEF Inv, TypeOK
<1>. QED
  BY <1>1, HeadTailProperties

LEMMA CollectedRows ==
    ASSUME Inv, NEW r \in Runs, page[r] # <<>>,
           Head(page[r]).point \in Mapped
    PROVE  Append(batch[r], Head(page[r])) \in Seq(served \cap MappedItems)
<1>1. Head(page[r]) \in served \cap MappedItems
  BY TakenItem DEF MappedItems
<1>2. batch[r] \in Seq(served \cap MappedItems)
  BY DEF Inv
<1>. QED
  BY <1>1, <1>2, AppendProperties

\* Batches hold items.
LEMMA BatchType == (served \in SUBSET Items) => Seq(served \cap MappedItems) \subseteq Seq(Items)
  BY SeqMonotonic DEF MappedItems

\* A committed batch leaves a table.
LEMMA CommittedTable ==
    ASSUME Inv, NEW rows \in Seq(served \cap MappedItems), Upsertable(lockers, rows)
    PROVE  Upsert(lockers, rows) \in Tables
<1>. DEFINE S == served \cap AcceptedItems
<1>1. S \in SUBSET AcceptedItems /\ lockers \in Tables
  BY DEF Inv
<1>. HIDE DEF S
<1>2. rows \in Seq(S)
  BY StorableRows DEF S
<1>. QED
  BY <1>1, <1>2, UpsertTable

LEMMA TakeInv ==
    ASSUME Inv, NEW r \in Runs,
           DropItem(r) \/ ItemRaises(r) \/ CollectItem(r) \/ CommitBatch(r) \/ NextGet(r)
    PROVE  Inv'
<1>. USE DEF Inv, TypeOK, upstream, database
<1>1. CASE DropItem(r)
  BY <1>1, TakenItem DEF DropItem
<1>2. CASE ItemRaises(r)
  BY <1>2, ExitInv DEF ItemRaises
<1>3. CASE CollectItem(r)
  <2>1. Append(batch[r], Head(page[r])) \in Seq(served \cap MappedItems)
    BY <1>3, CollectedRows DEF CollectItem
  <2>2. Append(batch[r], Head(page[r])) \in Seq(Items)
    BY <2>1, BatchType
  <2>. QED
    BY <1>3, <2>1, <2>2, TakenItem DEF CollectItem
<1>4. CASE CommitBatch(r)
  <2>. DEFINE rows == Append(batch[r], Head(page[r]))
  <2>1. rows \in Seq(served \cap MappedItems)
    BY <1>4, CollectedRows DEF CommitBatch
  <2>2. Upsertable(lockers, rows) => Upsert(lockers, rows) \in Tables
    BY <2>1, CommittedTable
  <2>3. CASE Exit(r, "raised") /\ UNCHANGED lockers
    BY <2>3, <1>4, ExitInv DEF CommitBatch
  <2>4. CASE /\ Upsertable(lockers, rows)
             /\ lockers' = Upsert(lockers, rows)
             /\ batch' = [batch EXCEPT ![r] = <<>>]
             /\ page' = [page EXCEPT ![r] = Tail(@)]
             /\ UNCHANGED <<stage, todo, crawl, last, nextView>>
    <3>1. lockers' \in Tables /\ lockers' \in [Lockers -> RowType \cup {Absent}]
      BY <2>2, <2>4 DEF Tables
    <3>2. <<>> \in Seq(served \cap MappedItems) /\ <<>> \in Seq(Items)
      BY EmptySeq
    <3>3. Tail(page[r]) \in Seq(served) /\ Tail(page[r]) \in Seq(Items)
      BY <1>4, TakenItem DEF CommitBatch
    <3>. QED
      BY <1>4, <2>4, <3>1, <3>2, <3>3 DEF CommitBatch
  <2>. QED
    BY <1>4, <2>3, <2>4 DEF CommitBatch
<1>5. CASE NextGet(r)
  BY <1>5 DEF NextGet, Goto, sync, Stopped
<1>. QED
  BY <1>1, <1>2, <1>3, <1>4, <1>5

LEMMA TailNonempty ==
    ASSUME NEW S, NEW s \in Seq(S), Len(s) > 1
    PROVE  Tail(s) # <<>>
<1>1. Len(<<>>) = 0
  OBVIOUS
<1>2. s # <<>>
  BY <1>1
<1>3. Len(Tail(s)) = Len(s) - 1 /\ Len(s) \in Nat
  BY <1>2, HeadTailProperties, LenProperties
<1>4. \A k \in Nat : k > 1 => k - 1 # 0
  OBVIOUS
<1>5. Len(Tail(s)) # 0
  BY <1>3, <1>4
<1>. QED
  BY <1>1, <1>5

LEMMA EndCountryInv ==
    ASSUME Inv, NEW r \in Runs, EndCountry(r)
    PROVE  Inv'
<1>. USE DEF Inv, TypeOK, upstream, database
<1>1. Upsertable(lockers, batch[r]) => Upsert(lockers, batch[r]) \in Tables
  BY CommittedTable
<1>2. CASE Exit(r, "raised") /\ UNCHANGED lockers
  BY <1>2, ExitInv DEF EndCountry
<1>3. CASE /\ Upsertable(lockers, batch[r])
           /\ lockers' = Upsert(lockers, batch[r])
           /\ batch' = [batch EXCEPT ![r] = <<>>]
           /\ todo' = [todo EXCEPT ![r] = Tail(@)]
           /\ crawl' = [crawl EXCEPT ![r] = NewCrawl]
           /\ last' = [last EXCEPT ![r] = FALSE]
           /\ Goto(r, IF Len(todo[r]) > 1 THEN "get"
                      ELSE IF full[r] THEN "gminy" ELSE "done")
           /\ UNCHANGED <<page, nextView>>
  <2>1. lockers' \in Tables /\ lockers' \in [Lockers -> RowType \cup {Absent}]
    BY <1>1, <1>3 DEF Tables
  <2>2. <<>> \in Seq(served \cap MappedItems) /\ <<>> \in Seq(Items)
    BY EmptySeq
  <2>3. /\ Tail(todo[r]) \in Seq(ToSet(CountriesActive))
        /\ Len(Tail(todo[r])) = Len(todo[r]) - 1
        /\ Len(todo[r]) \in Nat
    <3>1. todo[r] \in Seq(ToSet(CountriesActive)) /\ todo[r] # <<>>
      BY DEF EndCountry
    <3>. QED
      BY <3>1, HeadTailProperties, LenProperties
  <2>4. Len(todo[r]) > 1 => Tail(todo[r]) # <<>>
    BY TailNonempty
  <2>5. NewCrawl \in [page : Nat \ {0}, seen : Nat, total : Nat \cup {Unknown}]
    BY DEF NewCrawl
  <2>. QED
    BY <1>3, <2>1, <2>2, <2>3, <2>4, <2>5 DEF EndCountry, Goto, Stopped
<1>. QED
  BY <1>2, <1>3 DEF EndCountry

LEMMA StageInv ==
    ASSUME Inv, NEW r \in Runs,
           AssignGminy(r) \/ AssignNuts2(r) \/ Snapshot(r) \/ Refresh(r)
    PROVE  Inv'
<1>. USE DEF Inv, TypeOK, upstream, database, sync, Goto, Stopped
<1>1. CASE AssignGminy(r)
  <2>1. lockers' \in Tables /\ lockers' \in [Lockers -> RowType \cup {Absent}]
    BY <1>1, GminaTable DEF AssignGminy, Tables
  <2>. QED
    BY <1>1, <2>1 DEF AssignGminy
<1>2. CASE AssignNuts2(r)
  <2>1. lockers' \in Tables /\ lockers' \in [Lockers -> RowType \cup {Absent}]
    BY <1>2, Nuts2Table DEF AssignNuts2, Tables
  <2>. QED
    BY <1>2, <2>1 DEF AssignNuts2
<1>3. CASE Snapshot(r)
  <2>1. SnapshotOf(lockers) \in [Lockers -> SnapshotRow \cup {Absent}]
    BY SnapshotTable
  <2>. QED
    BY <1>3, <2>1 DEF Snapshot
<1>4. CASE Refresh(r)
  <2>1. Len(Views) = 4
    BY DEF Views
  <2>2. nextView' \in [Runs -> 1 .. Len(Views)]
    <3>1. nextView \in [Runs -> 1 .. 4]
      BY <2>1
    <3>2. \/ nextView[r] < 4 /\ nextView' = [nextView EXCEPT ![r] = nextView[r] + 1]
          \/ nextView' = [nextView EXCEPT ![r] = 1]
      BY <1>4, <2>1 DEF Refresh
    <3>3. nextView' \in [Runs -> 1 .. 4]
      <4>1. nextView[r] \in 1 .. 4
        BY <3>1
      <4>2. nextView[r] < 4 => nextView[r] + 1 \in 1 .. 4
        BY <4>1
      <4>3. PICK x \in 1 .. 4 : nextView' = [nextView EXCEPT ![r] = x]
        BY <3>2, <4>2
      <4>. QED
        BY <3>1, <4>3
    <3>. QED
      BY <3>3, <2>1
  <2>3. DOMAIN views' = ToSet(Views)
    BY <1>4 DEF Refresh
  <2>. QED
    BY <1>4, <2>2, <2>3 DEF Refresh
<1>. QED
  BY <1>1, <1>2, <1>3, <1>4

LEMMA InPostInv ==
    ASSUME Inv, InPost
    PROVE  Inv'
<1>. USE DEF Inv, TypeOK, database, process, sync, UpstreamChange
<1>1. ASSUME NEW n \in Lockers, NEW p \in Points, ChangePoint(n, p)
      PROVE  Inv'
  BY <1>1, MaxChangesAssumption DEF ChangePoint
<1>2. ASSUME NEW n \in Lockers, NEW i \in 1 .. Cardinality(Lockers), Publish(n, i)
      PROVE  Inv'
  <2>. DEFINE c == CountryOf[n]
              l == listing[c]
  <2>1. c \in ToSet(CountriesActive) /\ l \in Seq(Lockers)
    BY LockersAssumption
  <2>2. Cardinality(Lockers) \in Nat /\ Len(l) \in Nat
    BY <2>1, LockersAssumption, FS_CardinalityType, LenProperties
  <2>. HIDE DEF l
  <2>3. i \in 1 .. Len(l) + 1
    BY <1>2, <2>2 DEF Publish, l
  <2>4. InsertAt(l, i, n) \in Seq(Lockers)
    BY <2>1, <2>3, InsertProperties
  <2>. QED
    BY <1>2, <2>1, <2>4, MaxChangesAssumption DEF Publish, l
<1>3. ASSUME NEW c \in ToSet(CountriesActive), NEW i \in 1 .. Cardinality(Lockers),
             Withdraw(c, i)
      PROVE  Inv'
  <2>. DEFINE l == listing[c]
  <2>1. l \in Seq(Lockers)
    OBVIOUS
  <2>2. Cardinality(Lockers) \in Nat /\ Len(l) \in Nat
    BY <2>1, LockersAssumption, FS_CardinalityType, LenProperties
  <2>. HIDE DEF l
  <2>3. i \in 1 .. Len(l)
    BY <1>3, <2>2 DEF Withdraw, l
  <2>4. RemoveAt(l, i) \in Seq(Lockers)
    BY <2>1, <2>3, RemoveProperties
  <2>. QED
    BY <1>3, <2>4, MaxChangesAssumption DEF Withdraw, l
<1>. QED
  BY <1>1, <1>2, <1>3 DEF InPost

LEMMA StepInv == Inv /\ [Next]_vars => Inv'
<1>. SUFFICES ASSUME Inv, [Next]_vars PROVE Inv'
  OBVIOUS
<1>1. ASSUME NEW r \in Runs, Command(r) PROVE Inv'
  BY <1>1, StartInv
<1>2. ASSUME NEW r \in Runs, Step(r) PROVE Inv'
  BY <1>2, GetPageInv, TakeInv, EndCountryInv, StageInv DEF Step
<1>3. ASSUME NEW r \in Runs, Abort(r) PROVE Inv'
  BY <1>3, ExitInv DEF Abort
<1>4. ASSUME NEW v \in CronJobs, CronRefresh(v) PROVE Inv'
  BY <1>4 DEF CronRefresh, Inv, TypeOK, upstream, process, sync
<1>5. CASE InPost
  BY <1>5, InPostInv
<1>6. CASE UNCHANGED vars
  BY <1>6 DEF vars, upstream, database, process, sync, Inv, TypeOK
<1>. QED
  BY <1>1, <1>2, <1>3, <1>4, <1>5, <1>6 DEF Next

\* Database and processes keep their types, whatever runs, cron jobs and
\* InPost do: in particular no row points to a region that is none.
THEOREM TypeCorrect == Spec => []TypeOK
<1>1. Inv => TypeOK
  BY DEF Inv
<1>. QED
  BY <1>1, InitInv, StepInv, PTL DEF Spec

-----------------------------------------------------------------------------
(* The pipeline implements LockerMirror. *)

LEMMA InitMirrored == Init => Mirrored!Init
BY DEF Init, Mirrored!Init, EmptyTable

\* Committing a batch of served items that Postgres takes is Mirror.
LEMMA UpsertMirrors ==
    ASSUME Inv, NEW rows \in Seq(served \cap MappedItems), Upsertable(lockers, rows),
           lockers' = Upsert(lockers, rows), UNCHANGED served
    PROVE  Mirrored!Mirror
<1>. DEFINE S == served \cap AcceptedItems
<1>1. S \in SUBSET AcceptedItems /\ lockers \in Tables
  BY DEF Inv
<1>2. ASSUME NEW n \in Lockers
      PROVE  lockers'[n] = lockers[n] \/ Mirrored!MirrorsRow(n)
  <2>1. \/ Upsert(lockers, rows)[n] = lockers[n]
        \/ \E p \in Accepted : /\ [name |-> n, point |-> p] \in S
                              /\ Upsert(lockers, rows)[n] = Written(lockers[n], p)
    <3>. HIDE DEF S
    <3>1. rows \in Seq(S)
      BY StorableRows DEF S
    <3>. QED
      BY <3>1, <1>1, UpsertRow
  <2>. QED
    BY <2>1 DEF Mirrored!MirrorsRow, Written, Row
<1>3. lockers' = [n \in Lockers |-> lockers'[n]]
  BY DEF Upsert
<1>. QED
  BY <1>2, <1>3 DEF Mirrored!Mirror

LEMMA StepMirrored ==
    ASSUME Inv, [Next]_vars
    PROVE  [Mirrored!Next]_Mirrored!mirrorVars
<1>. USE DEF Mirrored!mirrorVars, Mirrored!Next, upstream, database
<1>1. ASSUME NEW r \in Runs, Command(r)
      PROVE  UNCHANGED <<served, lockers>>
  BY <1>1 DEF Command, StartAll, StartCountry, StartAssign, StartSnapshot,
              StartRefresh, Start
<1>2. ASSUME NEW r \in Runs, GetPage(r)
      PROVE  Mirrored!Serve
  <2>1. served' \subseteq Items
    BY <1>2, GetPageInv DEF Inv, TypeOK
  <2>. QED
    BY <1>2, <2>1 DEF GetPage, Items, Mirrored!Serve
<1>3. ASSUME NEW r \in Runs,
             \/ DropItem(r) \/ ItemRaises(r) \/ CollectItem(r)
             \/ NextGet(r) \/ Snapshot(r) \/ Refresh(r) \/ Abort(r)
      PROVE  UNCHANGED <<served, lockers>>
  BY <1>3 DEF DropItem, ItemRaises, CollectItem, NextGet, Snapshot,
              Refresh, Abort
<1>4. ASSUME NEW r \in Runs, CommitBatch(r)
      PROVE  Mirrored!Mirror \/ UNCHANGED <<served, lockers>>
  <2>1. Append(batch[r], Head(page[r])) \in Seq(served \cap MappedItems)
    BY <1>4, CollectedRows DEF CommitBatch
  <2>. QED
    BY <1>4, <2>1, UpsertMirrors DEF CommitBatch
<1>5. ASSUME NEW r \in Runs, EndCountry(r)
      PROVE  Mirrored!Mirror \/ UNCHANGED <<served, lockers>>
  <2>1. batch[r] \in Seq(served \cap MappedItems)
    BY DEF Inv
  <2>. QED
    BY <1>5, <2>1, UpsertMirrors DEF EndCountry
<1>6. ASSUME NEW r \in Runs, AssignGminy(r)
      PROVE  Mirrored!JoinGminy
  BY <1>6 DEF AssignGminy, AssignedGmina, Mirrored!JoinGminy
<1>7. ASSUME NEW r \in Runs, AssignNuts2(r)
      PROVE  Mirrored!JoinNuts2
  BY <1>7 DEF AssignNuts2, AssignedNuts2, Mirrored!JoinNuts2
<1>8. ASSUME NEW v \in CronJobs, CronRefresh(v)
      PROVE  UNCHANGED <<served, lockers>>
  BY <1>8 DEF CronRefresh
<1>9. CASE InPost
  BY <1>9 DEF InPost, ChangePoint, Publish, Withdraw, UpstreamChange
<1>10. CASE UNCHANGED vars
  BY <1>10 DEF vars
<1>. QED
  BY <1>1, <1>2, <1>3, <1>4, <1>5, <1>6, <1>7, <1>8, <1>9, <1>10 DEF Next, Step

\* Whatever number of runs, in whatever order, dying anywhere, with pg_cron
\* and a changing upstream around them: table lockers only ever takes whole,
\* accepted records that InPost served under that name, loses no row, and has
\* its region columns filled once, from the place the row has at that moment.
THEOREM PipelineMirrors == Spec => MirrorSpec
<1>1. Init /\ [][Next]_vars => []Inv
  BY InitInv, StepInv, PTL
<1>2. Inv /\ [Next]_vars => [Mirrored!Next]_Mirrored!mirrorVars
  BY StepMirrored
<1>. QED
  BY <1>1, <1>2, InitMirrored, PTL DEF Spec, MirrorSpec, Mirrored!Spec

-----------------------------------------------------------------------------
(* Runs that are alone with a quiet upstream.                              *)
(*                                                                         *)
(* The four properties of such runs speak of a process that has ended.     *)
(* They are not inductive: the invariant below says where the process is   *)
(* in a listing, in the list of countries and in the list of stages, and   *)
(* what it has achieved up to there.                                       *)

\* The table has what InPost says of a point, if the filter lets it through.
UpToDate(table, says, n) ==
    IsValidPoint(says[n]) => table[n] # Absent /\ table[n].point = says[n]

ListUpToDate(names, table, says) ==
    \A i \in 1 .. Len(names) : UpToDate(table, says, names[i])

\* Items that say what InPost says now, of a point it lists now.
CurrentItems(lists, says) ==
    {it \in Items : /\ \E c \in ToSet(CountriesActive) : it.name \in ToSet(lists[c])
                    /\ it.point = says[it.name]}

\* The crawl has counted the names up to its page's end, what is left of the
\* page are the last of them, and it goes on behind them.
Reading(names, cr, items, end) ==
    /\ cr.seen <= Len(names)
    /\ Len(items) <= cr.seen
    /\ \A i \in 1 .. Len(items) : items[i].name = names[cr.seen - Len(items) + i]
    /\ cr.total \in {Unknown, Len(names)}
    /\ end => cr.seen = Len(names)
    /\ ~end => cr.seen = Offset(cr.page)

\* A batch has no name twice, and only names among the first k.
Collected(names, k, rows) ==
    /\ \A i, j \in 1 .. Len(rows) : rows[i].name = rows[j].name => i = j
    /\ \A j \in 1 .. Len(rows) : \E i \in 1 .. k : rows[j].name = names[i]

\* The first k names are in the batch or in the table.
Handled(names, k, rows, table, says) ==
    \A i \in 1 .. k : names[i] \in Named(rows) \/ UpToDate(table, says, names[i])

\* The joins have nothing left to do.
GminyAssigned(table) ==
    \A n \in Lockers :
        (table[n] # Absent /\ CountryOf[n] = Poland /\ table[n].gmina = Null) =>
            GminaAt[table[n].point.place] = Null

Nuts2Assigned(table) ==
    \A n \in Lockers :
        (table[n] # Absent /\ table[n].nuts2 = Null) =>
            Nuts2At[table[n].point.place] = Null

\* The first k views describe the table.
Refreshed(contents, table, k) ==
    \A i \in 1 .. k : contents[Views[i]] = Query(Views[i], table)

-----------------------------------------------------------------------------
(* Lemmas about upserts and joins. *)

\* Upserting current items brings their names up to date and leaves the other
\* rows alone.
LEMMA UpsertCurrent ==
    ASSUME NEW table \in Tables, NEW lists, NEW says,
           NEW rows \in Seq(CurrentItems(lists, says) \cap AcceptedItems),
           NEW n \in Lockers
    PROVE  /\ n \in Named(rows) =>
                /\ Upsert(table, rows)[n] # Absent
                /\ Upsert(table, rows)[n].point = says[n]
           /\ n \notin Named(rows) => Upsert(table, rows)[n] = table[n]
<1>1. CASE n \notin Named(rows)
  BY <1>1 DEF Upsert
<1>2. CASE n \in Named(rows)
  <2>. DEFINE it == LastNamed(rows, n)
              new == Upsert(table, rows)[n]
  <2>1. it \in CurrentItems(lists, says) \cap AcceptedItems /\ it.name = n
    BY <1>2, LastNamedIsGiven
  <2>. HIDE DEF it
  <2>2. it.point = says[n] /\ it.point \in Points
    BY <2>1 DEF CurrentItems, AcceptedItems, Accepted, Mapped, Items
  <2>3. new = Written(table[n], it.point)
    BY <1>2 DEF Upsert, Written, it
  <2>4. table[n] \in RowType \cup {Absent}
    BY DEF Tables
  <2>. HIDE DEF new
  <2>5. new \in RowType /\ new.point = it.point
    BY <2>2, <2>3, <2>4 DEF Written, Row, RowType
  <2>. QED
    BY <2>2, <2>5, <1>2, AbsentAssumption DEF new
<1>. QED
  BY <1>1, <1>2

LEMMA UpsertUpToDate ==
    ASSUME NEW table \in Tables, NEW lists, NEW says,
           NEW rows \in Seq(CurrentItems(lists, says) \cap AcceptedItems),
           NEW n \in Lockers, n \in Named(rows) \/ UpToDate(table, says, n)
    PROVE  UpToDate(Upsert(table, rows), says, n)
<1>. DEFINE new == Upsert(table, rows)
<1>1. /\ n \in Named(rows) => new[n] # Absent /\ new[n].point = says[n]
      /\ n \notin Named(rows) => new[n] = table[n]
  BY UpsertCurrent
<1>. HIDE DEF new
<1>2. UpToDate(new, says, n)
  BY <1>1 DEF UpToDate
<1>. QED
  BY <1>2 DEF new

\* A name of a batch is the name of one of its items.
LEMMA NamedItem ==
    ASSUME NEW S, NEW rows \in Seq(S), NEW n \in Named(rows)
    PROVE  \E it \in S : it.name = n
BY LenProperties, ElementOfSeq DEF Named

\* Upserting current items into a table that is up to date changes nothing.
LEMMA UpsertNothing ==
    ASSUME NEW table \in Tables, NEW lists, NEW says,
           NEW rows \in Seq(CurrentItems(lists, says) \cap AcceptedItems),
           \A n \in Named(rows) : UpToDate(table, says, n)
    PROVE  Upsert(table, rows) = table
<1>1. ASSUME NEW n \in Lockers
      PROVE  Upsert(table, rows)[n] = table[n]
  <2>1. CASE n \notin Named(rows)
    BY <2>1 DEF Upsert
  <2>2. CASE n \in Named(rows)
    <3>. DEFINE it == LastNamed(rows, n)
    <3>1. it \in CurrentItems(lists, says) \cap AcceptedItems /\ it.name = n
      BY <2>2, LastNamedIsGiven
    <3>. HIDE DEF it
    <3>2. it.point = says[n] /\ IsValidPoint(says[n])
      BY <3>1 DEF CurrentItems, AcceptedItems, Accepted, Mapped
    <3>3. table[n] # Absent /\ table[n].point = says[n] /\ table[n] \in RowType
      BY <2>2, <3>2 DEF UpToDate, Tables
    <3>4. Upsert(table, rows)[n] = [table[n] EXCEPT !.point = it.point]
      BY <2>2, <3>3 DEF Upsert, it
    <3>. QED
      BY <3>2, <3>3, <3>4 DEF RowType
  <2>. QED
    BY <2>1, <2>2
<1>2. Upsert(table, rows) = [n \in Lockers |-> Upsert(table, rows)[n]]
  BY DEF Upsert
<1>3. table = [n \in Lockers |-> table[n]]
  BY DEF Tables
<1>. QED
  BY <1>1, <1>2, <1>3

\* The gmina join leaves the points alone and leaves no Polish row behind
\* that has a gmina to get; a second one finds nothing to do.
LEMMA GminaJoin ==
    ASSUME NEW table \in Tables
    PROVE  /\ \A says, n : n \in Lockers /\ UpToDate(table, says, n) =>
                UpToDate(AssignedGmina(table), says, n)
           /\ GminyAssigned(AssignedGmina(table))
           /\ GminyAssigned(table) => AssignedGmina(table) = table
<1>. DEFINE new == AssignedGmina(table)
            Joined(n) == /\ table[n] # Absent
                         /\ CountryOf[n] = Poland
                         /\ table[n].gmina = Null
<1>1. ASSUME NEW n \in Lockers
      PROVE  /\ ~Joined(n) => new[n] = table[n]
             /\ Joined(n) =>
                    /\ new[n] = [table[n] EXCEPT !.gmina = GminaAt[table[n].point.place]]
                    /\ new[n] \in RowType
                    /\ new[n].point = table[n].point
                    /\ new[n].gmina = GminaAt[table[n].point.place]
  BY RowPlace DEF AssignedGmina, RowType
<1>2. new = [n \in Lockers |-> new[n]] /\ table = [n \in Lockers |-> table[n]]
  BY DEF AssignedGmina, Tables
<1>. HIDE DEF new
<1>3. ASSUME NEW says, NEW n \in Lockers, UpToDate(table, says, n)
      PROVE  UpToDate(new, says, n)
  BY <1>1, <1>3, AbsentAssumption DEF UpToDate
<1>4. GminyAssigned(new)
  BY <1>1, AbsentAssumption DEF GminyAssigned
<1>5. ASSUME GminyAssigned(table)
      PROVE  new = table
  <2>1. ASSUME NEW n \in Lockers
        PROVE  new[n] = table[n]
    <3>1. CASE Joined(n)
      <4>1. GminaAt[table[n].point.place] = table[n].gmina
        BY <3>1, <1>5 DEF GminyAssigned
      <4>2. table[n] \in RowType
        BY <3>1, RowPlace
      <4>. QED
        BY <3>1, <4>1, <4>2, <1>1 DEF RowType
    <3>. QED
      BY <3>1, <1>1
  <2>. QED
    BY <2>1, <1>2
<1>. QED
  BY <1>3, <1>4, <1>5 DEF new

\* The same of the NUTS-2 join, which also leaves the gminy alone.
LEMMA Nuts2Join ==
    ASSUME NEW table \in Tables
    PROVE  /\ \A says, n : n \in Lockers /\ UpToDate(table, says, n) =>
                UpToDate(AssignedNuts2(table), says, n)
           /\ GminyAssigned(table) => GminyAssigned(AssignedNuts2(table))
           /\ Nuts2Assigned(AssignedNuts2(table))
           /\ Nuts2Assigned(table) => AssignedNuts2(table) = table
<1>. DEFINE new == AssignedNuts2(table)
            Joined(n) == table[n] # Absent /\ table[n].nuts2 = Null
<1>1. ASSUME NEW n \in Lockers
      PROVE  /\ ~Joined(n) => new[n] = table[n]
             /\ Joined(n) =>
                    /\ new[n] = [table[n] EXCEPT !.nuts2 = Nuts2At[table[n].point.place]]
                    /\ new[n] \in RowType
                    /\ new[n].point = table[n].point
                    /\ new[n].gmina = table[n].gmina
                    /\ new[n].nuts2 = Nuts2At[table[n].point.place]
  BY RowPlace, PointsAssumption DEF AssignedNuts2, RowType
<1>2. new = [n \in Lockers |-> new[n]] /\ table = [n \in Lockers |-> table[n]]
  BY DEF AssignedNuts2, Tables
<1>. HIDE DEF new
<1>3. ASSUME NEW says, NEW n \in Lockers, UpToDate(table, says, n)
      PROVE  UpToDate(new, says, n)
  BY <1>1, <1>3, AbsentAssumption DEF UpToDate
<1>4. GminyAssigned(table) => GminyAssigned(new)
  BY <1>1 DEF GminyAssigned
<1>5. Nuts2Assigned(new)
  BY <1>1 DEF Nuts2Assigned
<1>6. ASSUME Nuts2Assigned(table)
      PROVE  new = table
  <2>1. ASSUME NEW n \in Lockers
        PROVE  new[n] = table[n]
    <3>1. CASE Joined(n)
      <4>1. Nuts2At[table[n].point.place] = table[n].nuts2
        BY <3>1, <1>6 DEF Nuts2Assigned
      <4>2. table[n] \in RowType
        BY <3>1, RowPlace
      <4>. QED
        BY <3>1, <4>1, <4>2, <1>1 DEF RowType
    <3>. QED
      BY <3>1, <1>1
  <2>. QED
    BY <2>1, <1>2
<1>. QED
  BY <1>3, <1>4, <1>5, <1>6 DEF new

-----------------------------------------------------------------------------
(* Lemmas about the position in a listing. *)

LEMMA DistinctInsert ==
    ASSUME NEW S, NEW s \in Seq(S), NEW r \in S, r \notin ToSet(s), IsInjective(s),
           NEW i \in 1 .. Len(s) + 1
    PROVE  IsInjective(InsertAt(s, i, r))
<1>. DEFINE new == InsertAt(s, i, r)
<1>1. new \in Seq(S) /\ Len(new) = Len(s) + 1 /\ Len(s) \in Nat
  BY InsertProperties, LenProperties
<1>2. DOMAIN new = 1 .. Len(s) + 1 /\ DOMAIN s = 1 .. Len(s)
  BY <1>1, LenProperties
<1>3. ASSUME NEW j \in 1 .. Len(s) + 1
      PROVE  \/ j < i /\ new[j] = s[j]
             \/ j = i /\ new[j] = r
             \/ j > i /\ new[j] = s[j - 1]
  BY InsertElement
<1>. HIDE DEF new
<1>4. \A j \in 1 .. Len(s) : s[j] # r
  BY <1>2 DEF ToSet
<1>5. \A j, k \in 1 .. Len(s) : s[j] = s[k] => j = k
  BY <1>2 DEF IsInjective
<1>6. ASSUME NEW j \in 1 .. Len(s) + 1, NEW k \in 1 .. Len(s) + 1, new[j] = new[k]
      PROVE  j = k
  <2>1. /\ j < i => new[j] = s[j] /\ j \in 1 .. Len(s)
        /\ j = i => new[j] = r
        /\ j > i => new[j] = s[j - 1] /\ j - 1 \in 1 .. Len(s)
    BY <1>1, <1>3
  <2>2. /\ k < i => new[k] = s[k] /\ k \in 1 .. Len(s)
        /\ k = i => new[k] = r
        /\ k > i => new[k] = s[k - 1] /\ k - 1 \in 1 .. Len(s)
    BY <1>1, <1>3
  <2>3. CASE j < i
    BY <2>1, <2>2, <2>3, <1>1, <1>4, <1>5, <1>6
  <2>4. CASE j = i
    BY <2>1, <2>2, <2>4, <1>1, <1>4, <1>6
  <2>5. CASE j > i
    BY <2>1, <2>2, <2>5, <1>1, <1>4, <1>5, <1>6
  <2>. QED
    BY <2>3, <2>4, <2>5, <1>1
<1>. QED
  BY <1>2, <1>6 DEF IsInjective, new

LEMMA DistinctRemove ==
    ASSUME NEW S, NEW s \in Seq(S), IsInjective(s), NEW i \in 1 .. Len(s)
    PROVE  IsInjective(RemoveAt(s, i))
<1>. DEFINE new == RemoveAt(s, i)
<1>1. new \in Seq(S) /\ Len(new) = Len(s) - 1 /\ Len(s) \in Nat
  BY RemoveProperties, LenProperties
<1>2. DOMAIN new = 1 .. Len(s) - 1 /\ DOMAIN s = 1 .. Len(s)
  BY <1>1, LenProperties
<1>3. ASSUME NEW j \in 1 .. Len(s) - 1
      PROVE  new[j] = IF j < i THEN s[j] ELSE s[j + 1]
  BY RemoveProperties
<1>. HIDE DEF new
<1>4. \A j, k \in 1 .. Len(s) : s[j] = s[k] => j = k
  BY <1>2 DEF IsInjective
<1>5. ASSUME NEW j \in 1 .. Len(s) - 1, NEW k \in 1 .. Len(s) - 1, new[j] = new[k]
      PROVE  j = k
  <2>. DEFINE From(m) == IF m < i THEN m ELSE m + 1
  <2>1. /\ From(j) \in 1 .. Len(s) /\ From(k) \in 1 .. Len(s)
        /\ From(j) = From(k) => j = k
    BY <1>1
  <2>2. new[j] = s[From(j)] /\ new[k] = s[From(k)]
    BY <1>3
  <2>. HIDE DEF From
  <2>3. From(j) = From(k)
    BY <1>4, <1>5, <2>1, <2>2
  <2>. QED
    BY <2>1, <2>3
<1>. QED
  BY <1>2, <1>5 DEF IsInjective, new

Crawls == [page : Nat \ {0}, seen : Nat, total : Nat \cup {Unknown}]

\* A page read at the right place of a listing that did not change: it
\* continues where the crawl is, and it is the last one exactly when the
\* listing is exhausted.
LEMMA ReadPage ==
    ASSUME NEW names \in Seq(Lockers), NEW cr \in Crawls, Reading(names, cr, <<>>, FALSE),
           NEW items \in Seq(Items),
           Len(items) = Len(PageOf(names, cr.page)),
           \A i \in 1 .. Len(items) : items[i].name = PageOf(names, cr.page)[i]
    PROVE  /\ Reading(names, NextPage(cr, Len(items), Len(names)), items,
                      CrawlEnds(cr, Len(items), Len(names)))
           /\ NextPage(cr, Len(items), Len(names)).seen - Len(items) = cr.seen
<1>. DEFINE off   == Offset(cr.page)
            count == Len(names)
            n     == Len(items)
            next  == NextPage(cr, n, count)
            end   == CrawlEnds(cr, n, count)
<1>1. cr.page \in Nat \ {0} /\ cr.seen \in Nat
  BY DEF Crawls
<1>2. /\ off \in Nat
      /\ Offset(cr.page + 1) = off + PerPage
      /\ PerPage \in Nat \ {0}
  BY <1>1, OffsetSteps
<1>3. /\ n = IF off < count THEN Least(Offset(cr.page + 1), count) - off ELSE 0
      /\ \A i \in 1 .. n : /\ off + i \in 1 .. count
                           /\ items[i].name = names[off + i]
  <2>1. /\ Len(PageOf(names, cr.page)) = IF off < count THEN Least(Offset(cr.page + 1), count) - off ELSE 0
        /\ \A i \in 1 .. Len(PageOf(names, cr.page)) :
                /\ off + i \in 1 .. count
                /\ PageOf(names, cr.page)[i] = names[off + i]
    BY <1>1, PageProperties
  <2>. QED
    BY <2>1
<1>4. count \in Nat /\ n \in Nat
  BY LenProperties
<1>5. cr.seen = off /\ off <= count /\ TotalOnce(cr, count) = count
  BY DEF Reading, TotalOnce
<1>6. /\ next.seen = cr.seen + n
      /\ next.page = cr.page + 1
      /\ next.total = count
  BY <1>5 DEF NextPage
<1>7. end <=> (n = 0 \/ cr.seen + n >= count)
  BY <1>5 DEF CrawlEnds
<1>. HIDE DEF off, count, n, next, end
<1>8. n = IF off + PerPage <= count THEN PerPage ELSE count - off
  BY <1>2, <1>3, <1>4, <1>5 DEF Least
<1>9. next.seen <= count /\ n <= next.seen /\ next.seen - n = off
  BY <1>2, <1>4, <1>5, <1>6, <1>8
<1>10. end => next.seen = count
  BY <1>2, <1>4, <1>5, <1>6, <1>7, <1>8
<1>11. ~end => next.seen = Offset(next.page)
  BY <1>2, <1>4, <1>5, <1>6, <1>7, <1>8
<1>12. Reading(names, next, items, end)
  BY <1>3, <1>6, <1>9, <1>10, <1>11 DEF Reading, count, n
<1>. QED
  BY <1>5, <1>9, <1>12 DEF next, end, n, count, off

\* The first item of the page is the next record of the listing; without it
\* the crawl is one record further.
LEMMA ReadItem ==
    ASSUME NEW names \in Seq(Lockers), NEW cr \in Crawls, NEW items \in Seq(Items),
           NEW end \in BOOLEAN, Reading(names, cr, items, end), items # <<>>
    PROVE  LET k == cr.seen - Len(items)
           IN  /\ Reading(names, cr, Tail(items), end)
               /\ k \in Nat
               /\ k + 1 \in 1 .. Len(names)
               /\ cr.seen - Len(Tail(items)) = k + 1
               /\ Head(items).name = names[k + 1]
<1>. DEFINE k == cr.seen - Len(items)
            n == Len(items)
            count == Len(names)
<1>1. /\ n \in Nat \ {0}
      /\ count \in Nat
      /\ cr.seen \in Nat
      /\ Len(Tail(items)) = n - 1
      /\ Head(items) = items[1]
      /\ \A i \in 1 .. n - 1 : Tail(items)[i] = items[i + 1]
  BY LenProperties, EmptySeq, HeadTailProperties DEF Crawls
<1>2. /\ cr.seen <= count
      /\ n <= cr.seen
      /\ \A i \in 1 .. n : items[i].name = names[k + i]
  BY DEF Reading
<1>3. ASSUME NEW i \in 1 .. n - 1
      PROVE  Tail(items)[i].name = names[k + 1 + i]
  <2>1. Tail(items)[i] = items[i + 1]
    BY <1>1
  <2>2. items[i + 1].name = names[k + (i + 1)]
    BY <1>1, <1>2
  <2>3. k + (i + 1) = k + 1 + i
    BY <1>1
  <2>. QED
    BY <2>1, <2>2, <2>3
<1>4. k \in Nat /\ k + 1 \in 1 .. count /\ cr.seen - (n - 1) = k + 1 /\ n - 1 <= cr.seen
  BY <1>1, <1>2
<1>5. Head(items).name = names[k + 1]
  BY <1>1, <1>2
<1>6. Reading(names, cr, Tail(items), end)
  <2>. HIDE DEF k, n
  <2>1. \A i \in 1 .. Len(Tail(items)) :
            Tail(items)[i].name = names[cr.seen - Len(Tail(items)) + i]
    BY <1>1, <1>3, <1>4
  <2>. QED
    BY <2>1, <1>1, <1>4 DEF Reading
<1>. QED
  BY <1>1, <1>4, <1>5, <1>6

\* Going one record further without collecting it.
LEMMA CollectedFurther ==
    ASSUME NEW names, NEW k \in Nat, NEW rows, Collected(names, k, rows)
    PROVE  Collected(names, k + 1, rows)
BY DEF Collected

\* The next record of a listing without repetitions is new to the batch.
LEMMA CollectNext ==
    ASSUME NEW names \in Seq(Lockers), IsInjective(names),
           NEW k \in Nat, k + 1 \in 1 .. Len(names),
           NEW rows \in Seq(Items), NEW it \in Items, it.name = names[k + 1],
           Collected(names, k, rows)
    PROVE  /\ Collected(names, k + 1, Append(rows, it))
           /\ Named(Append(rows, it)) = Named(rows) \cup {it.name}
<1>. DEFINE new == Append(rows, it)
            n == Len(rows)
<1>1. /\ n \in Nat
      /\ new \in Seq(Items)
      /\ Len(new) = n + 1
      /\ \A i \in 1 .. n : new[i] = rows[i]
      /\ new[n + 1] = it
  BY AppendProperties, LenProperties
<1>2. DOMAIN new = 1 .. n + 1 /\ DOMAIN rows = 1 .. n
  BY <1>1, LenProperties
<1>3. /\ \A i, j \in 1 .. n : rows[i].name = rows[j].name => i = j
      /\ \A j \in 1 .. n : \E i \in 1 .. k : rows[j].name = names[i]
  BY DEF Collected
<1>. HIDE DEF new, n
<1>4. \A i \in 1 .. k : names[i] # names[k + 1]
  <2>1. DOMAIN names = 1 .. Len(names) /\ Len(names) \in Nat
    BY LenProperties
  <2>. QED
    BY <2>1 DEF IsInjective
<1>5. \A j \in 1 .. n : rows[j].name # it.name
  BY <1>3, <1>4
<1>6. ASSUME NEW i \in 1 .. n + 1, NEW j \in 1 .. n + 1, new[i].name = new[j].name
      PROVE  i = j
  BY <1>1, <1>3, <1>5, <1>6
<1>7. ASSUME NEW j \in 1 .. n + 1
      PROVE  \E i \in 1 .. k + 1 : new[j].name = names[i]
  <2>1. CASE j = n + 1
    BY <2>1, <1>1
  <2>2. CASE j \in 1 .. n
    <3>1. PICK i \in 1 .. k : rows[j].name = names[i]
      BY <2>2, <1>3
    <3>. QED
      BY <3>1, <2>2, <1>1
  <2>. QED
    BY <2>1, <2>2, <1>1
<1>8. Named(new) = Named(rows) \cup {it.name}
  <2>1. Named(new) \subseteq Named(rows) \cup {it.name}
    BY <1>1, <1>2 DEF Named
  <2>2. Named(rows) \subseteq Named(new)
    BY <1>1, <1>2 DEF Named
  <2>3. it.name \in Named(new)
    BY <1>1, <1>2 DEF Named
  <2>. QED
    BY <2>1, <2>2, <2>3
<1>. QED
  BY <1>1, <1>6, <1>7, <1>8 DEF Collected, new, n

\* Postgres refuses such a batch only for a row it cannot store.
LEMMA CollectedUpsertable ==
    ASSUME NEW names, NEW k, NEW rows \in Seq(Items), Collected(names, k, rows), NEW table
    PROVE  Upsertable(table, rows) \/ \E i \in 1 .. Len(rows) : rows[i].point \notin Storable
<1>1. DOMAIN rows = 1 .. Len(rows) /\ Len(rows) \in Nat
  BY LenProperties
<1>. QED
  BY <1>1 DEF Collected, Upsertable

-----------------------------------------------------------------------------
(* Lemmas about one country. *)

\* Where a crawl is, what waits in its batch, and what it has achieved: all
\* names it has passed are in the batch or up to date in the table.
InCrawl(names, cr, items, end, rows, table, says) ==
    /\ Reading(names, cr, items, end)
    /\ Collected(names, cr.seen - Len(items), rows)
    /\ Handled(names, cr.seen - Len(items), rows, table, says)

LEMMA CrawlStarts ==
    ASSUME NEW names \in Seq(Lockers), NEW table, NEW says
    PROVE  InCrawl(names, NewCrawl, <<>>, FALSE, <<>>, table, says)
<1>1. Len(names) \in Nat /\ Offset(1) = 0
  BY LenProperties, OffsetSteps
<1>. QED
  BY <1>1 DEF InCrawl, Reading, Collected, Handled, NewCrawl

LEMMA CrawlReads ==
    ASSUME NEW names \in Seq(Lockers), NEW cr \in Crawls, NEW rows, NEW table, NEW says,
           InCrawl(names, cr, <<>>, FALSE, rows, table, says),
           NEW items \in Seq(Items),
           Len(items) = Len(PageOf(names, cr.page)),
           \A i \in 1 .. Len(items) : items[i].name = PageOf(names, cr.page)[i]
    PROVE  InCrawl(names, NextPage(cr, Len(items), Len(names)), items,
                   CrawlEnds(cr, Len(items), Len(names)), rows, table, says)
<1>1. cr.seen - Len(<<>>) = cr.seen
  BY DEF Crawls
<1>2. /\ Reading(names, NextPage(cr, Len(items), Len(names)), items,
                 CrawlEnds(cr, Len(items), Len(names)))
      /\ NextPage(cr, Len(items), Len(names)).seen - Len(items) = cr.seen
  BY ReadPage DEF InCrawl
<1>. QED
  BY <1>1, <1>2 DEF InCrawl

\* An item the filter drops needs no row.
LEMMA CrawlDrops ==
    ASSUME NEW names \in Seq(Lockers), NEW cr \in Crawls, NEW items \in Seq(Items),
           NEW end \in BOOLEAN, NEW rows, NEW table, NEW says,
           InCrawl(names, cr, items, end, rows, table, says), items # <<>>,
           ~IsValidPoint(says[Head(items).name])
    PROVE  InCrawl(names, cr, Tail(items), end, rows, table, says)
<1>. DEFINE k == cr.seen - Len(items)
<1>1. /\ Reading(names, cr, Tail(items), end)
      /\ k \in Nat
      /\ cr.seen - Len(Tail(items)) = k + 1
      /\ Head(items).name = names[k + 1]
  BY ReadItem DEF InCrawl
<1>2. Collected(names, k, rows) /\ Handled(names, k, rows, table, says)
  BY DEF InCrawl
<1>. HIDE DEF k
<1>3. Collected(names, k + 1, rows)
  BY <1>1, <1>2, CollectedFurther
<1>4. UpToDate(table, says, names[k + 1])
  BY <1>1 DEF UpToDate
<1>5. Handled(names, k + 1, rows, table, says)
  <2>1. \A i \in 1 .. k + 1 : i \in 1 .. k \/ i = k + 1
    BY <1>1
  <2>. QED
    BY <2>1, <1>2, <1>4 DEF Handled
<1>. QED
  BY <1>1, <1>3, <1>5 DEF InCrawl

\* Another item goes into the batch.
LEMMA CrawlCollects ==
    ASSUME NEW names \in Seq(Lockers), IsInjective(names), NEW cr \in Crawls,
           NEW items \in Seq(Items), NEW end \in BOOLEAN, NEW rows \in Seq(Items),
           NEW table, NEW says,
           InCrawl(names, cr, items, end, rows, table, says), items # <<>>
    PROVE  InCrawl(names, cr, Tail(items), end, Append(rows, Head(items)), table, says)
<1>. DEFINE k   == cr.seen - Len(items)
            new == Append(rows, Head(items))
<1>1. /\ Reading(names, cr, Tail(items), end)
      /\ k \in Nat
      /\ k + 1 \in 1 .. Len(names)
      /\ cr.seen - Len(Tail(items)) = k + 1
      /\ Head(items).name = names[k + 1]
  BY ReadItem DEF InCrawl
<1>2. Collected(names, k, rows) /\ Handled(names, k, rows, table, says)
  BY DEF InCrawl
<1>. HIDE DEF k
<1>3. Head(items) \in Items
  BY HeadTailProperties
<1>4. /\ Collected(names, k + 1, new)
      /\ Named(new) = Named(rows) \cup {names[k + 1]}
  BY <1>1, <1>2, <1>3, CollectNext
<1>5. Handled(names, k + 1, new, table, says)
  <2>1. \A i \in 1 .. k + 1 : i \in 1 .. k \/ i = k + 1
    BY <1>1
  <2>. QED
    BY <2>1, <1>2, <1>4 DEF Handled
<1>. QED
  BY <1>1, <1>4, <1>5 DEF InCrawl

\* Upserting the batch brings all names the crawl has passed up to date.
LEMMA CrawlCommits ==
    ASSUME NEW names \in Seq(Lockers), NEW cr \in Crawls, NEW items \in Seq(Items),
           NEW end \in BOOLEAN, NEW table \in Tables, NEW lists, NEW says,
           NEW rows \in Seq(CurrentItems(lists, says) \cap AcceptedItems),
           InCrawl(names, cr, items, end, rows, table, says)
    PROVE  InCrawl(names, cr, items, end, <<>>, Upsert(table, rows), says)
<1>. DEFINE k   == cr.seen - Len(items)
            new == Upsert(table, rows)
<1>1. /\ Reading(names, cr, items, end)
      /\ Collected(names, k, rows)
      /\ Handled(names, k, rows, table, says)
      /\ k \in Int
      /\ k <= Len(names)
      /\ Len(names) \in Nat
  BY LenProperties DEF InCrawl, Reading, Crawls
<1>. HIDE DEF k
<1>2. Collected(names, k, <<>>)
  BY DEF Collected
<1>3. ASSUME NEW i \in 1 .. k
      PROVE  UpToDate(new, says, names[i])
  <2>1. names[i] \in Lockers
    BY <1>1, ElementOfSeq
  <2>2. names[i] \in Named(rows) \/ UpToDate(table, says, names[i])
    BY <1>1 DEF Handled
  <2>. QED
    BY <2>1, <2>2, UpsertUpToDate
<1>. HIDE DEF new
<1>4. Handled(names, k, <<>>, new, says)
  BY <1>3 DEF Handled
<1>. QED
  BY <1>1, <1>2, <1>4 DEF InCrawl, k, new

\* No upsert of current items undoes what another one did.
LEMMA ListStays ==
    ASSUME NEW names \in Seq(Lockers), NEW table \in Tables, NEW lists, NEW says,
           NEW rows \in Seq(CurrentItems(lists, says) \cap AcceptedItems),
           ListUpToDate(names, table, says)
    PROVE  ListUpToDate(names, Upsert(table, rows), says)
<1>1. ASSUME NEW i \in 1 .. Len(names)
      PROVE  UpToDate(Upsert(table, rows), says, names[i])
  <2>1. names[i] \in Lockers /\ UpToDate(table, says, names[i])
    BY ElementOfSeq DEF ListUpToDate
  <2>. QED
    BY <2>1, UpsertUpToDate
<1>. QED
  BY <1>1 DEF ListUpToDate

LEMMA HeadAndTail ==
    ASSUME NEW S, NEW s \in Seq(S), s # <<>>, NEW x \in ToSet(s), x # Head(s)
    PROVE  x \in ToSet(Tail(s))
<1>1. /\ Len(s) \in Nat
      /\ DOMAIN s = 1 .. Len(s)
      /\ Tail(s) \in Seq(S)
      /\ Len(Tail(s)) = Len(s) - 1
      /\ \A i \in 1 .. Len(s) - 1 : Tail(s)[i] = s[i + 1]
      /\ Head(s) = s[1]
  BY LenProperties, HeadTailProperties
<1>2. DOMAIN Tail(s) = 1 .. Len(s) - 1
  BY <1>1, LenProperties
<1>3. PICK i \in 1 .. Len(s) : x = s[i]
  BY <1>1 DEF ToSet
<1>4. i - 1 \in 1 .. Len(s) - 1 /\ i - 1 + 1 = i
  BY <1>1, <1>3
<1>. QED
  BY <1>1, <1>2, <1>3, <1>4 DEF ToSet

\* At the end of the listing there are no others.
LEMMA CrawlHasEnded ==
    ASSUME NEW names \in Seq(Lockers), NEW cr \in Crawls, NEW table, NEW says,
           InCrawl(names, cr, <<>>, TRUE, <<>>, table, says)
    PROVE  ListUpToDate(names, table, says)
<1>1. cr.seen - Len(<<>>) = Len(names)
  BY DEF InCrawl, Reading, Crawls
<1>2. Named(<<>>) = {}
  BY DEF Named
<1>. QED
  BY <1>1, <1>2 DEF InCrawl, Handled, ListUpToDate

-----------------------------------------------------------------------------
(* The invariant of quiet runs. *)

\* What a process does not need at its stage is as it was at the start.
RestInv ==
    \A r \in Runs :
        /\ stage[r] # "take" => page[r] = <<>> /\ ~last[r]
        /\ stage[r] \notin {"get", "take"} => batch[r] = <<>> /\ crawl[r] = NewCrawl
        /\ stage[r] # "refresh" => nextView[r] = 1

\* A process that is not disturbed is alone.
SoloInv == \A r, q \in Active : r \notin disturbed => q = r

\* A listing names no point twice.
DistinctInv == \A c \in ToSet(CountriesActive) : IsInjective(listing[c])

\* As long as some process has met no change, nobody holds outdated items.
Current    == CurrentItems(listing, point)
CurrentInv ==
    disturbed # Runs =>
        /\ page \in [Runs -> Seq(Current)]
        /\ batch \in [Runs -> Seq(Current \cap MappedItems)]

AllUpToDate(lists, table, says) ==
    \A c \in ToSet(CountriesActive) : ListUpToDate(lists[c], table, says)

\* While it syncs: the current country up to the crawl's position, and the
\* countries before it.
Crawling(r) ==
    stage[r] \in {"get", "take"} =>
        /\ InCrawl(listing[Head(todo[r])], crawl[r], page[r], last[r], batch[r],
                   lockers, point)
        /\ full[r] => \A c \in ToSet(CountriesActive) \ ToSet(todo[r]) :
                            ListUpToDate(listing[c], lockers, point)

\* Behind the sync: what each stage has achieved stays until the end.
Following(r) ==
    full[r] =>
        /\ stage[r] \in {"gminy", "nuts2", "snapshot", "refresh", "done"} =>
                AllUpToDate(listing, lockers, point)
        /\ stage[r] \in {"nuts2", "snapshot", "refresh", "done"} => GminyAssigned(lockers)
        /\ stage[r] \in {"snapshot", "refresh", "done"} => Nuts2Assigned(lockers)
        /\ stage[r] \in {"refresh", "done"} => snapshot = SnapshotOf(lockers)
        /\ stage[r] = "refresh" => Refreshed(views, lockers, nextView[r] - 1)
        /\ stage[r] = "done" => Refreshed(views, lockers, Len(Views))

\* A record that stops every run.
Stopping == \E n \in ListedPoints : Raises(point[n]) \/ point[n] \in Mapped \ Storable

Raising(r) == stage[r] = "raised" => Stopping

Progress(r) == Crawling(r) /\ Following(r) /\ Raising(r)

ProgressInv == \A r \in Runs \ disturbed : Progress(r)

QuietInv == RestInv /\ SoloInv /\ DistinctInv /\ CurrentInv /\ ProgressInv

LEMMA InitQuiet == Init => QuietInv
<1>. SUFFICES ASSUME Init PROVE QuietInv
  OBVIOUS
<1>1. RestInv /\ SoloInv /\ DistinctInv
  BY DEF Init, RestInv, SoloInv, DistinctInv, Active, Stopped
<1>2. CurrentInv
  BY EmptySeq DEF Init, CurrentInv
<1>3. ProgressInv
  BY DEF Init, ProgressInv, Progress, Crawling, Following, Raising
<1>. QED
  BY <1>1, <1>2, <1>3 DEF QuietInv

\* What the steps of the processes and of pg_cron leave alone.
LEMMA StepEffects ==
    ASSUME Inv, NEW r \in Runs, Step(r) \/ Abort(r)
    PROVE  /\ stage[r] \notin Stopped
           /\ UNCHANGED <<upstream, full, disturbed>>
           /\ \A q \in Runs \ {r} :
                /\ stage'[q] = stage[q]
                /\ todo'[q] = todo[q]
                /\ crawl'[q] = crawl[q]
                /\ page'[q] = page[q]
                /\ last'[q] = last[q]
                /\ batch'[q] = batch[q]
                /\ nextView'[q] = nextView[q]
<1>. USE DEF Inv, TypeOK, Stopped, upstream, database, sync, Exit, Goto
<1>1. CASE GetPage(r)
  BY <1>1 DEF GetPage
<1>2. CASE DropItem(r)
  BY <1>2 DEF DropItem
<1>3. CASE ItemRaises(r)
  BY <1>3 DEF ItemRaises
<1>4. CASE CollectItem(r)
  BY <1>4 DEF CollectItem
<1>5. CASE CommitBatch(r)
  BY <1>5 DEF CommitBatch
<1>6. CASE NextGet(r)
  BY <1>6 DEF NextGet
<1>7. CASE EndCountry(r)
  BY <1>7 DEF EndCountry
<1>8. CASE AssignGminy(r)
  BY <1>8 DEF AssignGminy
<1>9. CASE AssignNuts2(r)
  BY <1>9 DEF AssignNuts2
<1>10. CASE Snapshot(r)
  BY <1>10 DEF Snapshot
<1>11. CASE Refresh(r)
  BY <1>11 DEF Refresh
<1>12. CASE Abort(r)
  BY <1>12 DEF Abort
<1>. QED
  BY <1>1, <1>2, <1>3, <1>4, <1>5, <1>6, <1>7, <1>8, <1>9, <1>10, <1>11, <1>12 DEF Step

\* How a process starts.
LEMMA StartEffects ==
    ASSUME Inv, NEW r \in Runs, Command(r)
    PROVE  \E first \in {"get", "gminy", "snapshot", "refresh"}, isFull \in BOOLEAN,
              countries \in Seq(ToSet(CountriesActive)) :
            /\ Start(r, first, isFull, countries)
            /\ first = "get" => countries # <<>>
            /\ isFull => first = "get" /\ countries = CountriesActive
<1>1. CountriesActive \in Seq(ToSet(CountriesActive)) \ {<<>>}
  <2>1. /\ Len(CountriesActive) \in Nat
        /\ CountriesActive \in [1 .. Len(CountriesActive) -> STRING]
        /\ DOMAIN CountriesActive = 1 .. Len(CountriesActive)
    BY CountriesAssumption, LenProperties
  <2>2. CountriesActive \in [1 .. Len(CountriesActive) -> ToSet(CountriesActive)]
    BY <2>1 DEF ToSet
  <2>. QED
    BY <2>1, <2>2, SeqDef, CountriesAssumption
<1>2. \A c \in ToSet(CountriesActive) :
            <<c>> \in Seq(ToSet(CountriesActive)) /\ <<c>> # <<>>
  OBVIOUS
<1>3. <<>> \in Seq(ToSet(CountriesActive))
  BY EmptySeq
<1>4. CASE StartAll(r)
  BY <1>4, <1>1 DEF StartAll
<1>5. ASSUME NEW c \in ToSet(CountriesActive), StartCountry(r, c)
      PROVE  /\ Start(r, "get", FALSE, <<c>>)
             /\ <<c>> \in Seq(ToSet(CountriesActive)) /\ <<c>> # <<>>
  BY <1>5, <1>2 DEF StartCountry
<1>6. CASE StartAssign(r)
  BY <1>6, <1>3 DEF StartAssign
<1>7. CASE StartSnapshot(r)
  BY <1>7, <1>3 DEF StartSnapshot
<1>8. CASE StartRefresh(r)
  BY <1>8, <1>3 DEF StartRefresh
<1>. QED
  BY <1>4, <1>5, <1>6, <1>7, <1>8 DEF Command

LEMMA InPostEffects ==
    ASSUME InPost
    PROVE  disturbed' = Runs /\ UNCHANGED <<database, process, served>>
BY DEF InPost, ChangePoint, Publish, Withdraw, UpstreamChange

-----------------------------------------------------------------------------
(* Memory, solitude and listings. *)

LEMMA StepRest ==
    ASSUME Inv, RestInv, [Next]_vars
    PROVE  RestInv'
<1>0. ASSUME NEW r \in Runs, Command(r)
      PROVE  \E first \in {"get", "gminy", "snapshot", "refresh"}, isFull \in BOOLEAN,
                 countries \in Seq(ToSet(CountriesActive)) :
                     Start(r, first, isFull, countries)
  BY <1>0, StartEffects
<1>. USE DEF Inv, TypeOK, RestInv
<1>1. ASSUME NEW r \in Runs, Command(r)
      PROVE  RestInv'
  <2>1. PICK first \in {"get", "gminy", "snapshot", "refresh"}, isFull \in BOOLEAN,
             countries \in Seq(ToSet(CountriesActive)) :
                Start(r, first, isFull, countries)
    BY <1>0, <1>1
  <2>. QED
    BY <2>1 DEF Start, Stopped
<1>2. ASSUME NEW r \in Runs, Step(r) \/ Abort(r)
      PROVE  RestInv'
  <2>. DEFINE Rest(st, items, end, rows, cr, view) ==
                /\ st # "take" => items = <<>> /\ ~end
                /\ st \notin {"get", "take"} => rows = <<>> /\ cr = NewCrawl
                /\ st # "refresh" => view = 1
  <2>1. ASSUME NEW q \in Runs \ {r}
        PROVE  Rest(stage'[q], page'[q], last'[q], batch'[q], crawl'[q], nextView'[q])
    <3>1. Rest(stage[q], page[q], last[q], batch[q], crawl[q], nextView[q])
      OBVIOUS
    <3>2. /\ stage'[q] = stage[q] /\ page'[q] = page[q] /\ last'[q] = last[q]
          /\ batch'[q] = batch[q] /\ crawl'[q] = crawl[q] /\ nextView'[q] = nextView[q]
      BY <1>2, StepEffects
    <3>. HIDE DEF Rest
    <3>. QED
      BY <3>1, <3>2
  <2>2. Rest(stage'[r], page'[r], last'[r], batch'[r], crawl'[r], nextView'[r])
    <3>. USE DEF upstream, database, sync, Exit, Goto
    <3>1. CASE GetPage(r)
      BY <3>1 DEF GetPage
    <3>2. CASE DropItem(r)
      BY <3>2 DEF DropItem
    <3>3. CASE ItemRaises(r)
      BY <3>3 DEF ItemRaises
    <3>4. CASE CollectItem(r)
      BY <3>4 DEF CollectItem
    <3>5. CASE CommitBatch(r)
      BY <3>5 DEF CommitBatch
    <3>6. CASE NextGet(r)
      BY <3>6 DEF NextGet
    <3>7. CASE EndCountry(r)
      BY <3>7 DEF EndCountry
    <3>8. CASE AssignGminy(r)
      BY <3>8 DEF AssignGminy
    <3>9. CASE AssignNuts2(r)
      BY <3>9 DEF AssignNuts2
    <3>10. CASE Snapshot(r)
      BY <3>10 DEF Snapshot
    <3>11. CASE Refresh(r)
      BY <3>11 DEF Refresh
    <3>12. CASE Abort(r)
      BY <3>12 DEF Abort
    <3>. QED
      BY <1>2, <3>1, <3>2, <3>3, <3>4, <3>5, <3>6, <3>7, <3>8, <3>9, <3>10, <3>11,
         <3>12 DEF Step
  <2>. QED
    BY <2>1, <2>2
<1>3. ASSUME NEW v \in CronJobs, CronRefresh(v)
      PROVE  RestInv'
  BY <1>3 DEF CronRefresh, process, sync
<1>4. CASE InPost
  BY <1>4, InPostEffects DEF process, sync
<1>5. CASE UNCHANGED vars
  BY <1>5 DEF vars, process, sync
<1>. QED
  BY <1>1, <1>2, <1>3, <1>4, <1>5 DEF Next

LEMMA StepSolo ==
    ASSUME Inv, SoloInv, [Next]_vars
    PROVE  SoloInv'
<1>0. ASSUME NEW r \in Runs, Command(r)
      PROVE  \E first \in {"get", "gminy", "snapshot", "refresh"}, isFull \in BOOLEAN,
                 countries \in Seq(ToSet(CountriesActive)) :
                     Start(r, first, isFull, countries)
  BY <1>0, StartEffects
<1>. USE DEF Inv, TypeOK, SoloInv, Active
<1>1. ASSUME NEW r \in Runs, Command(r)
      PROVE  SoloInv'
  <2>1. PICK first \in {"get", "gminy", "snapshot", "refresh"}, isFull \in BOOLEAN,
             countries \in Seq(ToSet(CountriesActive)) :
                Start(r, first, isFull, countries)
    BY <1>0, <1>1
  <2>2. \A q \in Runs \ {r} : stage'[q] = stage[q]
    BY <2>1 DEF Start
  <2>3. CASE Active = {}
    BY <2>1, <2>2, <2>3 DEF Start
  <2>4. CASE Active # {}
    BY <2>1, <2>2, <2>4 DEF Start
  <2>. QED
    BY <2>3, <2>4
<1>2. ASSUME NEW r \in Runs, Step(r) \/ Abort(r)
      PROVE  SoloInv'
  <2>1. \A q \in Runs : stage'[q] \notin Stopped => stage[q] \notin Stopped
    BY <1>2, StepEffects
  <2>2. disturbed' = disturbed
    BY <1>2, StepEffects
  <2>. QED
    BY <2>1, <2>2
<1>3. ASSUME NEW v \in CronJobs, CronRefresh(v)
      PROVE  SoloInv'
  BY <1>3 DEF CronRefresh, process
<1>4. CASE InPost
  BY <1>4, InPostEffects
<1>5. CASE UNCHANGED vars
  BY <1>5 DEF vars, process
<1>. QED
  BY <1>1, <1>2, <1>3, <1>4, <1>5 DEF Next

LEMMA StepDistinct ==
    ASSUME Inv, DistinctInv, [Next]_vars
    PROVE  DistinctInv'
<1>. USE DEF Inv, TypeOK, DistinctInv
<1>1. ASSUME NEW n \in Lockers, NEW i \in 1 .. Cardinality(Lockers), Publish(n, i)
      PROVE  DistinctInv'
  <2>. DEFINE c == CountryOf[n]
              l == listing[c]
  <2>1. c \in ToSet(CountriesActive) /\ l \in Seq(Lockers)
    BY LockersAssumption
  <2>2. Cardinality(Lockers) \in Nat /\ Len(l) \in Nat
    BY <2>1, LockersAssumption, FS_CardinalityType, LenProperties
  <2>3. /\ listing' = [listing EXCEPT ![c] = InsertAt(@, i, n)]
        /\ i <= Len(l) + 1
        /\ n \notin ToSet(l)
    BY <1>1 DEF Publish
  <2>4. IsInjective(l)
    BY <2>1
  <2>. HIDE DEF l
  <2>5. i \in 1 .. Len(l) + 1
    BY <2>2, <2>3
  <2>6. IsInjective(InsertAt(l, i, n))
    BY <2>1, <2>3, <2>4, <2>5, DistinctInsert
  <2>. QED
    BY <2>1, <2>3, <2>6 DEF l
<1>2. ASSUME NEW c \in ToSet(CountriesActive), NEW i \in 1 .. Cardinality(Lockers),
             Withdraw(c, i)
      PROVE  DistinctInv'
  <2>. DEFINE l == listing[c]
  <2>1. l \in Seq(Lockers) /\ IsInjective(l)
    OBVIOUS
  <2>2. Cardinality(Lockers) \in Nat /\ Len(l) \in Nat
    BY <2>1, LockersAssumption, FS_CardinalityType, LenProperties
  <2>3. listing' = [listing EXCEPT ![c] = RemoveAt(@, i)] /\ i <= Len(l)
    BY <1>2 DEF Withdraw
  <2>. HIDE DEF l
  <2>4. i \in 1 .. Len(l)
    BY <2>2, <2>3
  <2>5. IsInjective(RemoveAt(l, i))
    BY <2>1, <2>4, DistinctRemove
  <2>. QED
    BY <2>3, <2>5 DEF l
<1>3. CASE UNCHANGED listing
  BY <1>3
<1>4. (\E r \in Runs : Command(r)) => UNCHANGED listing
  BY DEF Command, StartAll, StartCountry, StartAssign, StartSnapshot, StartRefresh,
         Start, upstream
<1>5. (\E r \in Runs : Step(r) \/ Abort(r)) => UNCHANGED listing
  BY StepEffects DEF upstream
<1>6. (\E v \in CronJobs : CronRefresh(v)) \/ UNCHANGED vars => UNCHANGED listing
  BY DEF CronRefresh, vars, upstream
<1>7. (\E n \in Lockers, p \in Points : ChangePoint(n, p)) => UNCHANGED listing
  BY DEF ChangePoint
<1>. QED
  BY <1>1, <1>2, <1>3, <1>4, <1>5, <1>6, <1>7 DEF Next, InPost

-----------------------------------------------------------------------------
(* What processes hold in memory. *)

\* The page that arrives is the one the crawl asked for, as InPost has it now.
LEMMA FetchedPage ==
    ASSUME Inv, NEW r \in Runs, GetPage(r)
    PROVE  LET names == listing[Head(todo[r])]
               items == page'[r]
           IN  /\ Head(todo[r]) \in ToSet(CountriesActive)
               /\ names \in Seq(Lockers)
               /\ items \in Seq(Items) /\ items \in Seq(Current)
               /\ Len(items) = Len(PageOf(names, crawl[r].page))
               /\ \A i \in 1 .. Len(items) :
                        items[i].name = PageOf(names, crawl[r].page)[i]
               /\ last'[r] = CrawlEnds(crawl[r], Len(items), Len(names))
               /\ crawl'[r] = NextPage(crawl[r], Len(items), Len(names))
<1>. DEFINE names == listing[Head(todo[r])]
            cut   == PageOf(names, crawl[r].page)
            items == [i \in DOMAIN cut |->
                        LET n == cut[i] IN [name |-> n, point |-> point[n]]]
<1>1. Head(todo[r]) \in ToSet(CountriesActive) /\ crawl[r].page \in Nat \ {0}
  BY HeadTailProperties DEF Inv, TypeOK, GetPage
<1>2. names \in Seq(Lockers)
  BY <1>1 DEF Inv, TypeOK
<1>3. /\ cut \in Seq(Lockers)
      /\ \A i \in 1 .. Len(cut) : Offset(crawl[r].page) + i \in 1 .. Len(names)
                                 /\ cut[i] = names[Offset(crawl[r].page) + i]
  <2>. DEFINE p == crawl[r].page
  <2>1. p \in Nat \ {0}
    BY <1>1
  <2>. HIDE DEF p, names
  <2>2. /\ PageOf(names, p) \in Seq(Lockers)
        /\ \A i \in 1 .. Len(PageOf(names, p)) :
                /\ Offset(p) + i \in 1 .. Len(names)
                /\ PageOf(names, p)[i] = names[Offset(p) + i]
    BY <1>2, <2>1, PageProperties
  <2>. QED
    BY <2>2 DEF p
<1>4. /\ Len(cut) \in Nat
      /\ DOMAIN cut = 1 .. Len(cut)
      /\ \A i \in 1 .. Len(cut) : cut[i] \in Lockers
      /\ DOMAIN names = 1 .. Len(names)
  BY <1>2, <1>3, LenProperties, ElementOfSeq
<1>5. /\ page'[r] = items
      /\ last'[r] = CrawlEnds(crawl[r], Len(items), Len(names))
      /\ crawl'[r] = NextPage(crawl[r], Len(items), Len(names))
  BY DEF GetPage, Inv, TypeOK
<1>6. \A i \in 1 .. Len(cut) : cut[i] \in ToSet(names)
  BY <1>3, <1>4 DEF ToSet
<1>. HIDE DEF cut, names
<1>7. /\ items \in [1 .. Len(cut) -> Items]
      /\ \A i \in 1 .. Len(cut) : /\ items[i].name = cut[i]
                                  /\ items[i].point = point[cut[i]]
  BY <1>4 DEF Items, Inv, TypeOK
<1>. HIDE DEF items
<1>8. items \in Seq(Items) /\ Len(items) = Len(cut)
  <2>1. items \in Seq(Items)
    BY <1>4, <1>7, SeqDef
  <2>2. DOMAIN items = 1 .. Len(cut)
    BY <1>7
  <2>. QED
    BY <1>4, <2>1, <2>2, LenProperties
<1>9. items \in Seq(Current)
  <2>1. \A i \in 1 .. Len(cut) : items[i] \in Current
    BY <1>1, <1>6, <1>7 DEF Current, CurrentItems, names
  <2>2. items \in [1 .. Len(cut) -> Current]
    BY <1>7, <2>1
  <2>. QED
    BY <1>4, <2>2, SeqDef
<1>. QED
  BY <1>1, <1>2, <1>5, <1>7, <1>8, <1>9 DEF cut, names

LEMMA CurrentRows ==
    ASSUME Inv, CurrentInv, disturbed # Runs, NEW r \in Runs, page[r] # <<>>
    PROVE  /\ Head(page[r]) \in Current
           /\ Tail(page[r]) \in Seq(Current)
           /\ Head(page[r]).point \in Mapped =>
                    Append(batch[r], Head(page[r])) \in Seq(Current \cap MappedItems)
<1>1. page[r] \in Seq(Current) /\ batch[r] \in Seq(Current \cap MappedItems)
  BY DEF CurrentInv
<1>2. Head(page[r]) \in Current /\ Tail(page[r]) \in Seq(Current)
  BY <1>1, HeadTailProperties
<1>3. ASSUME Head(page[r]).point \in Mapped
      PROVE  Append(batch[r], Head(page[r])) \in Seq(Current \cap MappedItems)
  <2>1. Head(page[r]) \in Current \cap MappedItems
    BY <1>2, <1>3 DEF Current, CurrentItems, MappedItems
  <2>. QED
    BY <1>1, <2>1, AppendProperties
<1>. QED
  BY <1>2, <1>3

LEMMA StepCurrent ==
    ASSUME Inv, RestInv, CurrentInv, [Next]_vars
    PROVE  CurrentInv'
<1>. SUFFICES ASSUME disturbed' # Runs
              PROVE  /\ page' \in [Runs -> Seq(Current)']
                     /\ batch' \in [Runs -> Seq(Current \cap MappedItems)']
  BY DEF CurrentInv
<1>. DEFINE Kept(items, rows) ==
                items \in Seq(Current) /\ rows \in Seq(Current \cap MappedItems)
<1>1. \A q \in Runs : disturbed # Runs => Kept(page[q], batch[q])
  BY DEF CurrentInv
<1>2. Kept(<<>>, <<>>)
  BY EmptySeq
<1>3. ASSUME NEW r \in Runs, Command(r)
      PROVE  /\ UNCHANGED <<listing, point, page, batch>>
             /\ \A q \in Runs : Kept(page'[q], batch'[q])
  <2>1. PICK first \in {"get", "gminy", "snapshot", "refresh"}, isFull \in BOOLEAN,
             countries \in Seq(ToSet(CountriesActive)) :
                Start(r, first, isFull, countries)
    BY <1>3, StartEffects
  <2>2. UNCHANGED <<listing, point, page, batch>>
    BY <2>1 DEF Start, upstream
  <2>3. CASE Active = {}
    <3>1. \A q \in Runs : page[q] = <<>> /\ batch[q] = <<>>
      BY <2>3 DEF RestInv, Active, Stopped
    <3>. QED
      BY <2>2, <3>1, <1>2
  <2>4. CASE Active # {}
    <3>1. disturbed \subseteq disturbed' /\ disturbed' \subseteq Runs
      BY <2>1, <2>4 DEF Start, Active, Inv, TypeOK
    <3>2. disturbed # Runs
      BY <3>1
    <3>. QED
      BY <2>2, <3>2, <1>1
  <2>. QED
    BY <2>2, <2>3, <2>4
<1>4. ASSUME NEW r \in Runs, Step(r) \/ Abort(r)
      PROVE  /\ UNCHANGED <<listing, point>>
             /\ \A q \in Runs : Kept(page'[q], batch'[q])
  <2>1. UNCHANGED <<listing, point>> /\ disturbed # Runs
    BY <1>4, StepEffects DEF upstream
  <2>2. Kept(page[r], batch[r])
    BY <2>1, <1>1
  <2>3. page \in [Runs -> Seq(Items)] /\ batch \in [Runs -> Seq(Items)]
    BY DEF Inv, TypeOK
  <2>4. Kept(page'[r], batch'[r])
    <3>1. CASE GetPage(r)
      <4>1. page'[r] \in Seq(Current)
        BY <3>1, FetchedPage
      <4>2. batch'[r] = batch[r]
        BY <3>1 DEF GetPage
      <4>. QED
        BY <4>1, <4>2, <2>2
    <3>2. CASE DropItem(r) \/ CollectItem(r) \/ CommitBatch(r)
      <4>1. /\ page[r] # <<>>
            /\ \/ DropItem(r)
               \/ Head(page[r]).point \in Mapped
        BY <3>2 DEF DropItem, CollectItem, CommitBatch
      <4>2. /\ Tail(page[r]) \in Seq(Current)
            /\ \/ DropItem(r)
               \/ Append(batch[r], Head(page[r])) \in Seq(Current \cap MappedItems)
        BY <4>1, <2>1, CurrentRows
      <4>3. \/ DropItem(r) /\ page'[r] = Tail(page[r]) /\ batch'[r] = batch[r]
            \/ page'[r] = Tail(page[r]) /\ batch'[r] = Append(batch[r], Head(page[r])) /\ CollectItem(r)
            \/ page'[r] = Tail(page[r]) /\ batch'[r] = <<>>
            \/ page'[r] = <<>> /\ batch'[r] = <<>>
        BY <3>2, <2>3 DEF DropItem, CollectItem, CommitBatch, Exit
      <4>4. CollectItem(r) => Append(batch[r], Head(page[r])) \in Seq(Current \cap MappedItems)
        BY <4>1, <2>1, CurrentRows DEF CollectItem
      <4>. QED
        BY <4>2, <4>3, <4>4, <2>2, <1>2
    <3>3. CASE ItemRaises(r) \/ Abort(r)
      <4>1. page'[r] = <<>> /\ batch'[r] = <<>>
        BY <3>3, <2>3 DEF ItemRaises, Abort, Exit
      <4>. QED
        BY <4>1, <1>2
    <3>4. CASE EndCountry(r)
      <4>1. page'[r] \in {page[r], <<>>} /\ batch'[r] = <<>>
        BY <3>4, <2>3 DEF EndCountry, Exit
      <4>. QED
        BY <4>1, <2>2, <1>2
    <3>5. CASE NextGet(r) \/ AssignGminy(r) \/ AssignNuts2(r) \/ Snapshot(r) \/ Refresh(r)
      <4>1. page'[r] = page[r] /\ batch'[r] = batch[r]
        BY <3>5 DEF NextGet, AssignGminy, AssignNuts2, Snapshot, Refresh, sync
      <4>. QED
        BY <4>1, <2>2
    <3>. QED
      BY <1>4, <3>1, <3>2, <3>3, <3>4, <3>5 DEF Step
  <2>5. \A q \in Runs \ {r} : page'[q] = page[q] /\ batch'[q] = batch[q]
    BY <1>4, StepEffects
  <2>6. \A q \in Runs \ {r} : Kept(page'[q], batch'[q])
    BY <2>1, <2>5, <1>1
  <2>. QED
    BY <2>1, <2>4, <2>6
<1>5. ASSUME (\E v \in CronJobs : CronRefresh(v)) \/ UNCHANGED vars
      PROVE  /\ UNCHANGED <<listing, point>>
             /\ \A q \in Runs : Kept(page'[q], batch'[q])
  <2>1. UNCHANGED <<listing, point, page, batch, disturbed>>
    BY <1>5 DEF CronRefresh, vars, upstream, process, sync
  <2>. QED
    BY <2>1, <1>1
<1>6. /\ UNCHANGED <<listing, point>>
      /\ \A q \in Runs : Kept(page'[q], batch'[q])
  BY <1>3, <1>4, <1>5, InPostEffects DEF Next
<1>7. Current' = Current
  BY <1>6 DEF Current
<1>8. page' = [q \in Runs |-> page'[q]] /\ batch' = [q \in Runs |-> batch'[q]]
  BY StepInv DEF Inv, TypeOK
<1>9. page' \in [Runs -> Seq(Current)] /\ batch' \in [Runs -> Seq(Current \cap MappedItems)]
  BY <1>6, <1>8
<1>. QED
  BY <1>7, <1>9

-----------------------------------------------------------------------------
(* Once a run has ended undisturbed, nothing that happens before the next  *)
(* upstream change moves the database.                                     *)

\* A refresh keeps the views that describe the table, and adds its own.
LEMMA RefreshView ==
    ASSUME DOMAIN views = ToSet(Views), NEW k \in 0 .. Len(Views), NEW v,
           Refreshed(views, lockers, k),
           views' = [views EXCEPT ![v] = Query(v, lockers)]
    PROVE  /\ Refreshed(views', lockers, k)
           /\ (k + 1 <= Len(Views) /\ v = Views[k + 1]) => Refreshed(views', lockers, k + 1)
<1>1. Len(Views) = 4 /\ DOMAIN Views = 1 .. 4
  BY DEF Views
<1>2. \A i \in 1 .. 4 : Views[i] \in DOMAIN views
  BY <1>1 DEF ToSet
<1>3. \A i \in 1 .. 4 :
            views'[Views[i]] = IF Views[i] = v THEN Query(v, lockers) ELSE views[Views[i]]
  BY <1>2
<1>4. \A i \in 1 .. k : views[Views[i]] = Query(Views[i], lockers)
  BY DEF Refreshed
<1>5. \A i \in 1 .. k : views'[Views[i]] = Query(Views[i], lockers)
  <2>1. \A i \in 1 .. k : i \in 1 .. 4
    BY <1>1
  <2>. QED
    BY <2>1, <1>3, <1>4
<1>6. ASSUME k + 1 <= Len(Views), v = Views[k + 1]
      PROVE  \A i \in 1 .. k + 1 : views'[Views[i]] = Query(Views[i], lockers)
  <2>1. k + 1 \in 1 .. 4 /\ \A i \in 1 .. k + 1 : i \in 1 .. k \/ i = k + 1
    BY <1>1, <1>6
  <2>2. views'[Views[k + 1]] = Query(Views[k + 1], lockers)
    BY <2>1, <1>3, <1>6
  <2>. QED
    BY <2>1, <2>2, <1>5
<1>. QED
  BY <1>5, <1>6 DEF Refreshed

\* What Following says of a full run that has ended.
Settled ==
    /\ AllUpToDate(listing, lockers, point)
    /\ GminyAssigned(lockers)
    /\ Nuts2Assigned(lockers)
    /\ snapshot = SnapshotOf(lockers)
    /\ Refreshed(views, lockers, Len(Views))

\* A batch of current items finds its rows as it would write them.
LEMMA SettledUpsert ==
    ASSUME Inv, Settled, NEW rows \in Seq(Current \cap MappedItems), Upsertable(lockers, rows)
    PROVE  Upsert(lockers, rows) = lockers
<1>1. lockers \in Tables
  BY DEF Inv
<1>2. rows \in Seq(CurrentItems(listing, point) \cap AcceptedItems)
  BY StorableRows DEF Current
<1>3. ASSUME NEW n \in Named(rows)
      PROVE  UpToDate(lockers, point, n)
  <2>1. PICK it \in Current \cap MappedItems : it.name = n
    BY <1>3, NamedItem
  <2>2. PICK c \in ToSet(CountriesActive) : n \in ToSet(listing[c])
    BY <2>1 DEF Current, CurrentItems
  <2>3. listing[c] \in Seq(Lockers)
    BY <2>2 DEF Inv, TypeOK
  <2>4. PICK i \in 1 .. Len(listing[c]) : listing[c][i] = n
    BY <2>2, <2>3, LenProperties DEF ToSet
  <2>. QED
    BY <2>4 DEF Settled, AllUpToDate, ListUpToDate
<1>. QED
  BY <1>1, <1>2, <1>3, UpsertNothing

LEMMA SettledStays ==
    ASSUME Inv, CurrentInv, disturbed # Runs, Settled,
           \/ \E r \in Runs : Command(r) \/ Step(r) \/ Abort(r)
           \/ \E v \in CronJobs : CronRefresh(v)
           \/ UNCHANGED vars
    PROVE  Settled'
<1>1. /\ lockers \in Tables
      /\ DOMAIN views = ToSet(Views)
      /\ Len(Views) \in 0 .. Len(Views)
      /\ Refreshed(views, lockers, Len(Views))
  BY DEF Inv, TypeOK, Settled, Views
<1>2. SUFFICES /\ UNCHANGED <<listing, point, lockers, snapshot>>
               /\ Refreshed(views', lockers, Len(Views))
  BY DEF Settled
<1>3. ASSUME NEW r \in Runs, Command(r)
      PROVE  UNCHANGED <<upstream, database>>
  BY <1>3, StartEffects DEF Start
<1>4. ASSUME UNCHANGED <<upstream, database>>
      PROVE  /\ UNCHANGED <<listing, point, lockers, snapshot>>
             /\ Refreshed(views', lockers, Len(Views))
  BY <1>4, <1>1 DEF upstream, database
<1>5. ASSUME NEW v, views' = [views EXCEPT ![v] = Query(v, lockers)]
      PROVE  Refreshed(views', lockers, Len(Views))
  BY <1>1, <1>5, RefreshView
<1>6. ASSUME NEW r \in Runs, Step(r) \/ Abort(r)
      PROVE  /\ UNCHANGED <<listing, point, lockers, snapshot>>
             /\ Refreshed(views', lockers, Len(Views))
  <2>1. UNCHANGED <<listing, point>>
    BY <1>6, StepEffects DEF upstream
  <2>2. CASE GetPage(r) \/ DropItem(r) \/ ItemRaises(r) \/ CollectItem(r)
             \/ NextGet(r) \/ Abort(r)
    <3>1. UNCHANGED <<upstream, database>>
      BY <2>2 DEF GetPage, DropItem, ItemRaises, CollectItem, NextGet, Abort
    <3>. QED
      BY <3>1, <1>4
  <2>3. CASE CommitBatch(r) \/ EndCountry(r)
    <3>1. UNCHANGED <<snapshot, views>>
      BY <2>3 DEF CommitBatch, EndCountry
    <3>2. CASE UNCHANGED lockers
      BY <3>1, <3>2, <2>1, <1>1
    <3>3. ASSUME NEW rows \in Seq(Current \cap MappedItems), Upsertable(lockers, rows),
                 lockers' = Upsert(lockers, rows)
          PROVE  lockers' = lockers
      BY <3>3, SettledUpsert
    <3>4. CASE /\ CommitBatch(r)
               /\ Upsertable(lockers, Append(batch[r], Head(page[r])))
               /\ lockers' = Upsert(lockers, Append(batch[r], Head(page[r])))
      <4>1. Append(batch[r], Head(page[r])) \in Seq(Current \cap MappedItems)
        BY <3>4, CurrentRows DEF CommitBatch
      <4>. QED
        BY <4>1, <3>4, <3>3, <3>2
    <3>5. CASE Upsertable(lockers, batch[r]) /\ lockers' = Upsert(lockers, batch[r])
      <4>1. batch[r] \in Seq(Current \cap MappedItems)
        BY DEF CurrentInv
      <4>. QED
        BY <4>1, <3>5, <3>3, <3>2
    <3>. QED
      BY <2>3, <3>2, <3>4, <3>5 DEF CommitBatch, EndCountry
  <2>4. CASE AssignGminy(r)
    <3>1. lockers' = lockers /\ UNCHANGED <<snapshot, views>>
      BY <2>4, <1>1, GminaJoin DEF AssignGminy, Settled
    <3>. QED
      BY <3>1, <2>1, <1>1
  <2>5. CASE AssignNuts2(r)
    <3>1. lockers' = lockers /\ UNCHANGED <<snapshot, views>>
      BY <2>5, <1>1, Nuts2Join DEF AssignNuts2, Settled
    <3>. QED
      BY <3>1, <2>1, <1>1
  <2>6. CASE Snapshot(r)
    <3>1. UNCHANGED <<lockers, snapshot, views>>
      BY <2>6 DEF Snapshot, Settled
    <3>. QED
      BY <3>1, <2>1, <1>1
  <2>7. CASE Refresh(r)
    <3>1. /\ UNCHANGED <<lockers, snapshot>>
          /\ views' = [views EXCEPT ![Views[nextView[r]]] = Query(Views[nextView[r]], lockers)]
      BY <2>7 DEF Refresh
    <3>. QED
      BY <3>1, <2>1, <1>5
  <2>. QED
    BY <1>6, <2>2, <2>3, <2>4, <2>5, <2>6, <2>7 DEF Step
<1>7. ASSUME NEW v \in CronJobs, CronRefresh(v)
      PROVE  /\ UNCHANGED <<listing, point, lockers, snapshot>>
             /\ Refreshed(views', lockers, Len(Views))
  BY <1>7, <1>5 DEF CronRefresh, upstream
<1>8. CASE UNCHANGED vars
  BY <1>8, <1>4 DEF vars
<1>. QED
  BY <1>3, <1>4, <1>6, <1>7, <1>8

-----------------------------------------------------------------------------
(* The steps of an undisturbed run itself. *)

\* The types of what a process works with.
LEMMA ProcessTypes ==
    ASSUME Inv, NEW r \in Runs, stage[r] \in {"get", "take"}
    PROVE  /\ Head(todo[r]) \in ToSet(CountriesActive)
           /\ todo[r] \in Seq(ToSet(CountriesActive)) \ {<<>>}
           /\ listing[Head(todo[r])] \in Seq(Lockers)
           /\ crawl[r] \in Crawls
           /\ page[r] \in Seq(Items)
           /\ last[r] \in BOOLEAN
           /\ batch[r] \in Seq(Items)
           /\ lockers \in Tables
<1>1. todo[r] \in Seq(ToSet(CountriesActive)) /\ todo[r] # <<>>
  BY DEF Inv, TypeOK
<1>2. Head(todo[r]) \in ToSet(CountriesActive)
  BY <1>1, HeadTailProperties
<1>. QED
  BY <1>1, <1>2 DEF Inv, TypeOK, Crawls

LEMMA GetPageProgress ==
    ASSUME Inv, QuietInv, NEW r \in Runs \ disturbed, GetPage(r)
    PROVE  Progress(r)'
<1>1. /\ stage[r] = "get"
      /\ stage'[r] = "take"
      /\ UNCHANGED <<listing, point, lockers>>
      /\ UNCHANGED <<full, todo, batch>>
  BY DEF GetPage, Goto, Inv, TypeOK, upstream, database
<1>2. page[r] = <<>> /\ last[r] = FALSE
  BY <1>1 DEF QuietInv, RestInv, Inv, TypeOK
<1>3. Crawling(r)
  BY DEF QuietInv, ProgressInv, Progress
<1>4. InCrawl(listing[Head(todo[r])], crawl[r], <<>>, FALSE, batch[r], lockers, point)
  BY <1>1, <1>2, <1>3 DEF Crawling
<1>5. crawl[r] \in Crawls
  BY DEF Inv, TypeOK, Crawls
<1>6. InCrawl(listing[Head(todo[r])], crawl'[r], page'[r], last'[r], batch[r], lockers, point)
  <2>. DEFINE names == listing[Head(todo[r])]
              items == page'[r]
  <2>1. /\ names \in Seq(Lockers)
        /\ items \in Seq(Items)
        /\ Len(items) = Len(PageOf(names, crawl[r].page))
        /\ \A i \in 1 .. Len(items) : items[i].name = PageOf(names, crawl[r].page)[i]
        /\ last'[r] = CrawlEnds(crawl[r], Len(items), Len(names))
        /\ crawl'[r] = NextPage(crawl[r], Len(items), Len(names))
    BY FetchedPage
  <2>. HIDE DEF names, items
  <2>2. InCrawl(names, crawl[r], <<>>, FALSE, batch[r], lockers, point)
    BY <1>4 DEF names
  <2>3. InCrawl(names, NextPage(crawl[r], Len(items), Len(names)), items,
                CrawlEnds(crawl[r], Len(items), Len(names)), batch[r], lockers, point)
    BY <2>1, <2>2, <1>5, CrawlReads
  <2>. QED
    BY <2>1, <2>3 DEF names, items
<1>7. Crawling(r)'
  BY <1>1, <1>3, <1>6 DEF Crawling
<1>. QED
  BY <1>1, <1>7 DEF Progress, Following, Raising

\* A batch of a quiet crawl is refused for a record that stops every run.
LEMMA RefusedBatch ==
    ASSUME NEW names, NEW k, NEW rows \in Seq(Items), rows \in Seq(Current \cap MappedItems),
           Collected(names, k, rows), ~Upsertable(lockers, rows)
    PROVE  Stopping
<1>1. PICK i \in 1 .. Len(rows) : rows[i].point \notin Storable
  BY CollectedUpsertable
<1>2. rows[i] \in Current \cap MappedItems
  BY ElementOfSeq
<1>. QED
  BY <1>1, <1>2 DEF Current, CurrentItems, MappedItems, ListedPoints, Stopping

\* The four steps that take an item from the page.
LEMMA TakeProgress ==
    ASSUME Inv, QuietInv, NEW r \in Runs \ disturbed,
           DropItem(r) \/ ItemRaises(r) \/ CollectItem(r) \/ CommitBatch(r)
    PROVE  Progress(r)'
<1>. DEFINE names == listing[Head(todo[r])]
            it    == Head(page[r])
<1>1. /\ stage[r] = "take"
      /\ page[r] # <<>>
      /\ UNCHANGED <<listing, point, full>>
  BY DEF DropItem, ItemRaises, CollectItem, CommitBatch, upstream
<1>2. disturbed # Runs
  OBVIOUS
<1>3. /\ Head(todo[r]) \in ToSet(CountriesActive)
      /\ names \in Seq(Lockers)
      /\ crawl[r] \in Crawls
      /\ page[r] \in Seq(Items)
      /\ last[r] \in BOOLEAN
      /\ batch[r] \in Seq(Items)
      /\ lockers \in Tables
  BY <1>1, ProcessTypes
<1>4. IsInjective(names)
  BY <1>3 DEF QuietInv, DistinctInv
<1>5. /\ InCrawl(names, crawl[r], page[r], last[r], batch[r], lockers, point)
      /\ full[r] => \A c \in ToSet(CountriesActive) \ ToSet(todo[r]) :
                        ListUpToDate(listing[c], lockers, point)
  BY <1>1 DEF QuietInv, ProgressInv, Progress, Crawling
<1>6. it \in Current /\ it.point = point[it.name]
  BY <1>1, <1>2, CurrentRows DEF QuietInv, Current, CurrentItems
<1>. HIDE DEF names, it
<1>7. CASE DropItem(r)
  <2>1. ~IsValidPoint(it.point)
    BY <1>7 DEF DropItem, it
  <2>2. InCrawl(names, crawl[r], Tail(page[r]), last[r], batch[r], lockers, point)
    <3>1. ~IsValidPoint(point[Head(page[r]).name])
      BY <2>1, <1>6 DEF it
    <3>. QED
      BY <3>1, <1>1, <1>3, <1>5, CrawlDrops
  <2>3. /\ page'[r] = Tail(page[r])
        /\ UNCHANGED <<stage, todo, crawl, last, batch, lockers>>
    BY <1>7 DEF DropItem, Inv, TypeOK, database
  <2>4. Crawling(r)'
    BY <1>1, <1>5, <2>2, <2>3 DEF Crawling, names
  <2>. QED
    BY <1>1, <2>3, <2>4 DEF Progress, Following, Raising
<1>8. CASE ItemRaises(r)
  <2>1. Raises(it.point) /\ stage'[r] = "raised"
    BY <1>8 DEF ItemRaises, Exit, Inv, TypeOK, it
  <2>2. it.name \in ListedPoints
    BY <1>6 DEF Current, CurrentItems, ListedPoints
  <2>3. ListedPoints' = ListedPoints
    BY <1>1 DEF ListedPoints
  <2>4. Raising(r)'
    BY <1>1, <1>6, <2>1, <2>2, <2>3 DEF Raising, Stopping
  <2>. QED
    BY <2>1, <2>4 DEF Progress, Following, Crawling
<1>9. CASE CollectItem(r)
  <2>1. InCrawl(names, crawl[r], Tail(page[r]), last[r], Append(batch[r], it), lockers, point)
    BY <1>1, <1>3, <1>4, <1>5, CrawlCollects DEF it
  <2>2. /\ page'[r] = Tail(page[r])
        /\ batch'[r] = Append(batch[r], it)
        /\ UNCHANGED <<stage, todo, crawl, last, lockers>>
    BY <1>9 DEF CollectItem, Inv, TypeOK, database, it
  <2>3. Crawling(r)'
    BY <1>1, <1>5, <2>1, <2>2 DEF Crawling, names
  <2>. QED
    BY <1>1, <2>2, <2>3 DEF Progress, Following, Raising
<1>10. CASE CommitBatch(r)
  <2>. DEFINE rows == Append(batch[r], it)
  <2>1. rows \in Seq(Current \cap MappedItems) /\ rows \in Seq(Items)
    <3>1. rows \in Seq(Current \cap MappedItems)
      BY <1>1, <1>2, <1>10, CurrentRows DEF QuietInv, CommitBatch, it
    <3>2. it \in Items
      BY <1>6 DEF Current, CurrentItems
    <3>. QED
      BY <3>1, <3>2, <1>3, AppendProperties
  <2>2. InCrawl(names, crawl[r], Tail(page[r]), last[r], rows, lockers, point)
    BY <1>1, <1>3, <1>4, <1>5, CrawlCollects DEF it
  <2>3. CASE ~Upsertable(lockers, rows)
    <3>1. Stopping
      <4>. HIDE DEF rows
      <4>. QED
        BY <2>1, <2>2, <2>3, RefusedBatch DEF InCrawl
    <3>2. Stopping' /\ stage'[r] = "raised"
      BY <3>1, <2>3, <1>1, <1>10 DEF CommitBatch, Exit, Inv, TypeOK, Stopping, ListedPoints, it
    <3>. QED
      BY <3>2 DEF Progress, Following, Crawling, Raising
  <2>. SUFFICES ASSUME Upsertable(lockers, rows) PROVE Progress(r)'
    BY <2>3
  <2>4. /\ page'[r] = Tail(page[r])
        /\ batch'[r] = <<>>
        /\ lockers' = Upsert(lockers, rows)
        /\ UNCHANGED <<stage, todo, crawl, last>>
    BY <1>10 DEF CommitBatch, Inv, TypeOK, it
  <2>. HIDE DEF rows
  <2>5. Tail(page[r]) \in Seq(Items)
    BY <1>1, <1>3, HeadTailProperties
  <2>6. rows \in Seq(CurrentItems(listing, point) \cap AcceptedItems)
    BY <2>1, StorableRows DEF Current
  <2>7. InCrawl(names, crawl[r], Tail(page[r]), last[r], <<>>, Upsert(lockers, rows), point)
    BY <1>3, <2>2, <2>5, <2>6, CrawlCommits
  <2>8. ASSUME NEW c \in ToSet(CountriesActive), ListUpToDate(listing[c], lockers, point)
        PROVE  ListUpToDate(listing[c], Upsert(lockers, rows), point)
    <3>1. listing[c] \in Seq(Lockers)
      BY DEF Inv, TypeOK
    <3>. QED
      BY <1>3, <2>6, <2>8, <3>1, ListStays
  <2>9. Crawling(r)'
    BY <1>1, <1>5, <2>4, <2>7, <2>8 DEF Crawling, names
  <2>. QED
    BY <1>1, <2>4, <2>9 DEF Progress, Following, Raising
<1>. QED
  BY <1>7, <1>8, <1>9, <1>10

LEMMA EndCountryProgress ==
    ASSUME Inv, QuietInv, NEW r \in Runs \ disturbed, EndCountry(r)
    PROVE  Progress(r)'
<1>. DEFINE country == Head(todo[r])
            names   == listing[country]
            new     == Upsert(lockers, batch[r])
            AreUpToDate(c) == ListUpToDate(listing[c], new, point)
<1>1. /\ stage[r] = "take"
      /\ page[r] = <<>>
      /\ last[r] = TRUE
      /\ UNCHANGED <<listing, point, full>>
  BY DEF EndCountry, upstream, Inv, TypeOK
<1>2. /\ country \in ToSet(CountriesActive)
      /\ todo[r] \in Seq(ToSet(CountriesActive)) \ {<<>>}
      /\ names \in Seq(Lockers)
      /\ crawl[r] \in Crawls
      /\ page[r] \in Seq(Items)
      /\ last[r] \in BOOLEAN
      /\ batch[r] \in Seq(Items)
      /\ lockers \in Tables
  BY <1>1, ProcessTypes
<1>3. /\ InCrawl(names, crawl[r], <<>>, TRUE, batch[r], lockers, point)
      /\ full[r] => \A c \in ToSet(CountriesActive) \ ToSet(todo[r]) :
                        ListUpToDate(listing[c], lockers, point)
  BY <1>1 DEF QuietInv, ProgressInv, Progress, Crawling
<1>. HIDE DEF names
<1>4. batch[r] \in Seq(Current \cap MappedItems)
  BY DEF QuietInv, CurrentInv
<1>5. CASE ~Upsertable(lockers, batch[r])
  <2>1. Stopping
    BY <1>2, <1>3, <1>4, <1>5, RefusedBatch DEF InCrawl
  <2>2. Stopping' /\ stage'[r] = "raised"
    BY <2>1, <1>1, <1>5 DEF EndCountry, Exit, Inv, TypeOK, Stopping, ListedPoints
  <2>. QED
    BY <2>2 DEF Progress, Following, Crawling, Raising
<1>. SUFFICES ASSUME Upsertable(lockers, batch[r]) PROVE Progress(r)'
  BY <1>5
<1>11. batch[r] \in Seq(CurrentItems(listing, point) \cap AcceptedItems)
  BY <1>4, StorableRows DEF Current
<1>. USE DEF names
<1>6. AreUpToDate(country)
  <2>. HIDE DEF names, new
  <2>1. <<>> \in Seq(Items) /\ TRUE \in BOOLEAN
    BY EmptySeq
  <2>2. InCrawl(names, crawl[r], <<>>, TRUE, <<>>, new, point)
    BY <1>2, <1>3, <1>11, <2>1, CrawlCommits DEF new
  <2>3. ListUpToDate(names, new, point)
    BY <1>2, <2>2, CrawlHasEnded
  <2>. QED
    BY <2>3 DEF names
<1>7. ASSUME full[r], NEW c \in ToSet(CountriesActive) \ ToSet(Tail(todo[r]))
      PROVE  AreUpToDate(c)
  <2>1. CASE c = country
    BY <2>1, <1>6
  <2>2. CASE c # country
    <3>1. c \notin ToSet(todo[r])
      BY <1>2, <1>7, <2>2, HeadAndTail
    <3>2. ListUpToDate(listing[c], lockers, point)
      BY <1>3, <1>7, <3>1
    <3>3. listing[c] \in Seq(Lockers)
      BY DEF Inv, TypeOK
    <3>. QED
      BY <1>2, <1>11, <3>2, <3>3, ListStays
  <2>. QED
    BY <2>1, <2>2
<1>8. /\ lockers' = new
      /\ batch'[r] = <<>>
      /\ todo'[r] = Tail(todo[r])
      /\ crawl'[r] = NewCrawl
      /\ last'[r] = FALSE
      /\ page'[r] = <<>>
      /\ stage'[r] = IF Len(todo[r]) > 1 THEN "get" ELSE IF full[r] THEN "gminy" ELSE "done"
  BY <1>1 DEF EndCountry, Goto, Inv, TypeOK
<1>9. CASE Len(todo[r]) > 1
  <2>1. Tail(todo[r]) \in Seq(ToSet(CountriesActive)) /\ Tail(todo[r]) # <<>>
    BY <1>2, <1>9, TailNonempty, HeadTailProperties
  <2>2. listing[Head(Tail(todo[r]))] \in Seq(Lockers)
    BY <2>1, HeadTailProperties DEF Inv, TypeOK
  <2>3. InCrawl(listing[Head(Tail(todo[r]))], NewCrawl, <<>>, FALSE, <<>>, new, point)
    BY <2>2, CrawlStarts
  <2>4. Crawling(r)'
    BY <1>1, <1>7, <1>8, <2>3 DEF Crawling
  <2>. QED
    BY <1>8, <1>9, <2>4 DEF Progress, Following, Raising
<1>10. CASE ~(Len(todo[r]) > 1)
  <2>1. ToSet(Tail(todo[r])) = {}
    <3>1. Len(todo[r]) \in Nat /\ Len(todo[r]) # 0 /\ Len(Tail(todo[r])) = Len(todo[r]) - 1
      BY <1>2, LenProperties, EmptySeq, HeadTailProperties
    <3>2. Len(Tail(todo[r])) = 0
      <4>1. \A k \in Nat : (k # 0 /\ ~(k > 1)) => k - 1 = 0
        OBVIOUS
      <4>. QED
        BY <3>1, <4>1, <1>10
    <3>3. Tail(todo[r]) = <<>>
      BY <3>2, <1>2, HeadTailProperties, EmptySeq
    <3>. QED
      BY <3>3 DEF ToSet
  <2>2. full[r] => AllUpToDate(listing, new, point)
    BY <1>7, <2>1 DEF AllUpToDate
  <2>. QED
    BY <1>1, <1>8, <1>10, <2>2 DEF Progress, Crawling, Following, Raising
<1>. QED
  BY <1>9, <1>10

LEMMA AllStays ==
    ASSUME Inv, NEW table,
           \A n \in Lockers : UpToDate(lockers, point, n) => UpToDate(table, point, n),
           AllUpToDate(listing, lockers, point)
    PROVE  AllUpToDate(listing, table, point)
<1>1. ASSUME NEW c \in ToSet(CountriesActive), NEW i \in 1 .. Len(listing[c])
      PROVE  UpToDate(table, point, listing[c][i])
  <2>1. listing[c] \in Seq(Lockers)
    BY DEF Inv, TypeOK
  <2>2. listing[c][i] \in Lockers
    BY <2>1, ElementOfSeq
  <2>3. UpToDate(lockers, point, listing[c][i])
    BY DEF AllUpToDate, ListUpToDate
  <2>. QED
    BY <2>2, <2>3
<1>. QED
  BY <1>1 DEF AllUpToDate, ListUpToDate

\* The stages after the sync build on each other.
LEMMA StageProgress ==
    ASSUME Inv, QuietInv, NEW r \in Runs \ disturbed,
           NextGet(r) \/ AssignGminy(r) \/ AssignNuts2(r) \/ Snapshot(r) \/ Refresh(r)
    PROVE  Progress(r)'
<1>1. UNCHANGED <<listing, point, full>>
  BY DEF NextGet, AssignGminy, AssignNuts2, Snapshot, Refresh, upstream
<1>2. Crawling(r) /\ Following(r)
  BY DEF QuietInv, ProgressInv, Progress
<1>3. lockers \in Tables /\ DOMAIN views = ToSet(Views) /\ DOMAIN stage = Runs
  BY DEF Inv, TypeOK
<1>4. CASE NextGet(r)
  <2>1. /\ stage[r] = "take" /\ stage'[r] = "get"
        /\ UNCHANGED <<todo, crawl, page, last, batch, lockers>>
    BY <1>4, <1>3 DEF NextGet, Goto, sync, database
  <2>2. Crawling(r)'
    BY <2>1, <1>1, <1>2 DEF Crawling
  <2>. QED
    BY <2>1, <2>2 DEF Progress, Following, Raising
<1>5. CASE AssignGminy(r)
  <2>1. /\ stage[r] = "gminy" /\ stage'[r] = "nuts2"
        /\ lockers' = AssignedGmina(lockers)
    BY <1>5, <1>3 DEF AssignGminy, Goto
  <2>2. GminyAssigned(AssignedGmina(lockers))
    BY <1>3, GminaJoin
  <2>3. full[r] => AllUpToDate(listing, AssignedGmina(lockers), point)
    <3>1. \A n \in Lockers : UpToDate(lockers, point, n) =>
                             UpToDate(AssignedGmina(lockers), point, n)
      BY <1>3, GminaJoin
    <3>2. full[r] => AllUpToDate(listing, lockers, point)
      BY <2>1, <1>2 DEF Following
    <3>. QED
      BY <3>1, <3>2, AllStays
  <2>. QED
    BY <2>1, <2>2, <2>3, <1>1 DEF Progress, Crawling, Following, Raising
<1>6. CASE AssignNuts2(r)
  <2>1. /\ stage[r] = "nuts2" /\ stage'[r] = IF full[r] THEN "snapshot" ELSE "done"
        /\ lockers' = AssignedNuts2(lockers)
    BY <1>6, <1>3 DEF AssignNuts2, Goto
  <2>2. /\ GminyAssigned(lockers) => GminyAssigned(AssignedNuts2(lockers))
        /\ Nuts2Assigned(AssignedNuts2(lockers))
    BY <1>3, Nuts2Join
  <2>3. full[r] => AllUpToDate(listing, AssignedNuts2(lockers), point)
    <3>1. \A n \in Lockers : UpToDate(lockers, point, n) =>
                             UpToDate(AssignedNuts2(lockers), point, n)
      BY <1>3, Nuts2Join
    <3>2. full[r] => AllUpToDate(listing, lockers, point)
      BY <2>1, <1>2 DEF Following
    <3>. QED
      BY <3>1, <3>2, AllStays
  <2>4. full[r] => GminyAssigned(lockers)
    BY <2>1, <1>2 DEF Following
  <2>. QED
    BY <2>1, <2>2, <2>3, <2>4, <1>1 DEF Progress, Crawling, Following, Raising
<1>7. CASE Snapshot(r)
  <2>1. /\ stage[r] = "snapshot" /\ stage'[r] = IF full[r] THEN "refresh" ELSE "done"
        /\ snapshot' = SnapshotOf(lockers)
        /\ UNCHANGED <<lockers, views, nextView>>
    BY <1>7, <1>3 DEF Snapshot, Goto
  <2>2. nextView[r] = 1
    BY <2>1 DEF QuietInv, RestInv
  <2>3. Refreshed(views, lockers, nextView[r] - 1)
    BY <2>2 DEF Refreshed
  <2>. QED
    BY <2>1, <2>3, <1>1, <1>2 DEF Progress, Crawling, Following, Raising
<1>8. CASE Refresh(r)
  <2>. DEFINE k == nextView[r] - 1
              v == Views[nextView[r]]
  <2>1. /\ stage[r] = "refresh"
        /\ views' = [views EXCEPT ![v] = Query(v, lockers)]
        /\ UNCHANGED <<lockers, snapshot>>
        /\ \/ /\ nextView[r] < Len(Views)
              /\ nextView'[r] = nextView[r] + 1
              /\ stage'[r] = "refresh"
           \/ /\ nextView[r] = Len(Views)
              /\ stage'[r] = "done"
    BY <1>8 DEF Refresh, Goto, Inv, TypeOK
  <2>2. Len(Views) = 4 /\ nextView[r] \in 1 .. 4
    <3>1. Len(Views) = 4
      BY DEF Views
    <3>. QED
      BY <3>1 DEF Inv, TypeOK
  <2>3. k \in 0 .. Len(Views) /\ k + 1 = nextView[r] /\ k + 1 <= Len(Views) /\ v = Views[k + 1]
    BY <2>2
  <2>4. full[r] => Refreshed(views, lockers, k)
    BY <2>1, <1>2 DEF Following
  <2>. HIDE DEF k, v
  <2>5. full[r] => Refreshed(views', lockers, k + 1)
    BY <2>1, <2>3, <2>4, <1>3, RefreshView
  <2>6. /\ stage'[r] = "refresh" => nextView'[r] - 1 = k + 1
        /\ stage'[r] = "done" => Len(Views) = k + 1
    BY <2>1, <2>2, <2>3
  <2>7. /\ full[r] /\ stage'[r] = "refresh" => Refreshed(views', lockers, nextView'[r] - 1)
        /\ full[r] /\ stage'[r] = "done" => Refreshed(views', lockers, Len(Views))
    BY <2>5, <2>6
  <2>. QED
    BY <2>1, <2>7, <1>1, <1>2 DEF Progress, Crawling, Following, Raising
<1>. QED
  BY <1>4, <1>5, <1>6, <1>7, <1>8

\* A process that starts alone begins with the first of its countries.
LEMMA StartProgress ==
    ASSUME Inv, QuietInv, NEW r \in Runs, NEW first \in {"get", "gminy", "snapshot", "refresh"},
           NEW isFull \in BOOLEAN, NEW countries \in Seq(ToSet(CountriesActive)),
           Start(r, first, isFull, countries),
           first = "get" => countries # <<>>,
           isFull => first = "get" /\ countries = CountriesActive
    PROVE  Progress(r)'
<1>1. /\ stage[r] \in Stopped
      /\ stage'[r] = first
      /\ full'[r] = isFull
      /\ todo'[r] = countries
      /\ UNCHANGED <<listing, point, lockers, crawl, page, last, batch>>
  BY DEF Start, Inv, TypeOK, upstream, database
<1>2. crawl[r] = NewCrawl /\ page[r] = <<>> /\ last[r] = FALSE /\ batch[r] = <<>>
  BY <1>1 DEF QuietInv, RestInv, Stopped, Inv, TypeOK
<1>3. CASE first = "get"
  <2>1. listing[Head(countries)] \in Seq(Lockers)
    BY <1>3, HeadTailProperties DEF Inv, TypeOK
  <2>2. InCrawl(listing[Head(countries)], NewCrawl, <<>>, FALSE, <<>>, lockers, point)
    BY <2>1, CrawlStarts
  <2>3. isFull => ToSet(CountriesActive) \ ToSet(countries) = {}
    OBVIOUS
  <2>4. Crawling(r)'
    BY <1>1, <1>2, <2>2, <2>3 DEF Crawling
  <2>. QED
    BY <1>1, <1>3, <2>4 DEF Progress, Following, Raising
<1>4. CASE first # "get"
  BY <1>1, <1>4 DEF Progress, Crawling, Following, Raising
<1>. QED
  BY <1>3, <1>4

\* What holds of a process that has ended does not depend on its memory.
LEMMA StoppedProgress ==
    ASSUME Inv, QuietInv, NEW r \in Runs \ disturbed, stage[r] \in Stopped,
           UNCHANGED <<listing, point>>, stage'[r] = stage[r], full'[r] = full[r],
           Settled => Settled'
    PROVE  Progress(r)'
<1>1. Following(r) /\ Raising(r)
  BY DEF QuietInv, ProgressInv, Progress
<1>2. Crawling(r)'
  BY DEF Crawling, Stopped
<1>3. Following(r)'
  <2>1. CASE full[r] /\ stage[r] = "done"
    <3>1. Settled
      BY <2>1, <1>1 DEF Following, Settled
    <3>2. Settled'
      BY <3>1
    <3>. QED
      BY <2>1, <3>2 DEF Following, Settled
  <2>2. CASE ~(full[r] /\ stage[r] = "done")
    BY <2>2 DEF Following, Stopped
  <2>. QED
    BY <2>1, <2>2
<1>4. Raising(r)'
  BY <1>1 DEF Raising, Stopping, ListedPoints
<1>. QED
  BY <1>2, <1>3, <1>4 DEF Progress

\* pg_cron does not disturb a run at any stage.
LEMMA CronProgress ==
    ASSUME Inv, QuietInv, NEW r \in Runs \ disturbed, NEW v \in CronJobs, CronRefresh(v)
    PROVE  Progress(r)'
<1>1. /\ UNCHANGED <<listing, point, lockers, snapshot, stage, full, todo, crawl,
                     page, last, batch, nextView>>
      /\ views' = [views EXCEPT ![v] = Query(v, lockers)]
  BY DEF CronRefresh, upstream, process, sync
<1>2. Crawling(r) /\ Following(r) /\ Raising(r)
  BY DEF QuietInv, ProgressInv, Progress
<1>3. Len(Views) = 4 /\ nextView[r] \in 1 .. 4 /\ DOMAIN views = ToSet(Views)
  <2>1. Len(Views) = 4
    BY DEF Views
  <2>. QED
    BY <2>1 DEF Inv, TypeOK
<1>4. nextView[r] - 1 \in 0 .. Len(Views) /\ Len(Views) \in 0 .. Len(Views)
  BY <1>3
<1>5. \A k \in 0 .. Len(Views) : Refreshed(views, lockers, k) => Refreshed(views', lockers, k)
  BY <1>1, <1>3, RefreshView
<1>6. Following(r)'
  BY <1>1, <1>2, <1>4, <1>5 DEF Following
<1>7. Crawling(r)' /\ Raising(r)'
  BY <1>1, <1>2 DEF Crawling, Raising, Stopping, ListedPoints
<1>. QED
  BY <1>6, <1>7 DEF Progress

LEMMA StepProgress ==
    ASSUME Inv, QuietInv, [Next]_vars
    PROVE  ProgressInv'
<1>. SUFFICES ASSUME NEW r \in Runs \ disturbed' PROVE Progress(r)'
  BY DEF ProgressInv
<1>1. CASE InPost
  BY <1>1, InPostEffects
<1>2. ASSUME NEW q \in Runs, Command(q)
      PROVE  Progress(r)'
  <2>1. PICK first \in {"get", "gminy", "snapshot", "refresh"}, isFull \in BOOLEAN,
             countries \in Seq(ToSet(CountriesActive)) :
                /\ Start(q, first, isFull, countries)
                /\ first = "get" => countries # <<>>
                /\ isFull => first = "get" /\ countries = CountriesActive
    BY <1>2, StartEffects
  <2>2. CASE q = r
    BY <2>1, <2>2, StartProgress
  <2>3. CASE q # r
    <3>1. r \in Runs \ disturbed /\ r \notin Active
      BY <2>1, <2>3 DEF Start
    <3>2. stage[r] \in Stopped
      BY <3>1 DEF Active
    <3>3. /\ UNCHANGED <<listing, point>>
          /\ stage'[r] = stage[r]
          /\ full'[r] = full[r]
          /\ Settled => Settled'
      <4>1. /\ UNCHANGED <<listing, point, lockers, snapshot, views>>
            /\ stage'[r] = stage[r]
            /\ full'[r] = full[r]
        BY <2>1, <2>3 DEF Start, Inv, TypeOK, upstream, database
      <4>. QED
        BY <4>1 DEF Settled
    <3>. QED
      BY <3>1, <3>2, <3>3, StoppedProgress
  <2>. QED
    BY <2>2, <2>3
<1>3. ASSUME NEW q \in Runs, Step(q) \/ Abort(q)
      PROVE  Progress(r)'
  <2>1. r \in Runs \ disturbed /\ UNCHANGED <<listing, point, full>> /\ q \in Active
    BY <1>3, StepEffects DEF upstream, Active
  <2>2. CASE q = r /\ Step(q)
    BY <2>1, <2>2, GetPageProgress, TakeProgress, EndCountryProgress, StageProgress DEF Step
  <2>3. CASE q = r /\ Abort(q)
    <3>1. stage'[r] = "failed"
      BY <2>3 DEF Abort, Exit, Inv, TypeOK
    <3>. QED
      BY <3>1 DEF Progress, Crawling, Following, Raising
  <2>4. CASE q # r
    <3>1. r \notin Active
      BY <2>1, <2>4 DEF QuietInv, SoloInv
    <3>2. stage[r] \in Stopped /\ stage'[r] = stage[r]
      BY <3>1, <2>4, <1>3, StepEffects DEF Active
    <3>3. Settled => Settled'
      BY <1>3, <2>1, SettledStays DEF QuietInv
    <3>. QED
      BY <2>1, <3>2, <3>3, StoppedProgress
  <2>. QED
    BY <1>3, <2>2, <2>3, <2>4
<1>4. ASSUME NEW v \in CronJobs, CronRefresh(v)
      PROVE  Progress(r)'
  <2>1. r \in Runs \ disturbed
    BY <1>4 DEF CronRefresh
  <2>. QED
    BY <2>1, <1>4, CronProgress
<1>5. CASE UNCHANGED vars
  <2>1. /\ Progress(r)
        /\ UNCHANGED <<listing, point, lockers, snapshot, views, stage, full, todo, crawl,
                       page, last, batch, nextView>>
    BY <1>5 DEF vars, upstream, database, process, sync, QuietInv, ProgressInv
  <2>. QED
    BY <2>1 DEF Progress, Crawling, Following, Raising, Stopping, ListedPoints
<1>. QED
  BY <1>1, <1>2, <1>3, <1>4, <1>5 DEF Next

LEMMA StepQuiet == Inv /\ QuietInv /\ [Next]_vars => QuietInv'
BY StepRest, StepSolo, StepDistinct, StepCurrent, StepProgress DEF QuietInv

LEMMA QuietRuns == Spec => [](Inv /\ QuietInv)
BY InitInv, StepInv, InitQuiet, StepQuiet, PTL DEF Spec

-----------------------------------------------------------------------------
(* What this means for a run that has ended. *)

LEMMA UndisturbedSettles ==
    ASSUME QuietInv, NEW r \in Runs, Undisturbed(r)
    PROVE  Settled
BY DEF QuietInv, ProgressInv, Progress, Following, Undisturbed, Settled

\* Whatever earlier runs, dead ones included, left behind, a full run that is
\* alone with a quiet upstream has every listed and acceptable point in the
\* table as InPost serves it when it ends, and until the next change no other
\* run takes that back: for every page size, batch size and listing, no item
\* is lost at a page end, in a batch that is not full, or in a repeat of rows
\* already there (sync_country).
THEOREM ConvergesCorrect == Spec => []RunConverges
<1>1. ASSUME Inv, QuietInv, NEW r \in Runs, Undisturbed(r), NEW n \in ListedPoints
      PROVE  IsValidPoint(point[n]) => lockers[n] # Absent /\ lockers[n].point = point[n]
  <2>1. AllUpToDate(listing, lockers, point)
    BY <1>1, UndisturbedSettles DEF Settled
  <2>2. PICK c \in ToSet(CountriesActive) : n \in ToSet(listing[c])
    BY DEF ListedPoints
  <2>3. listing[c] \in Seq(Lockers)
    BY <1>1 DEF Inv, TypeOK
  <2>4. PICK i \in 1 .. Len(listing[c]) : listing[c][i] = n
    BY <2>2, <2>3, LenProperties DEF ToSet
  <2>. QED
    BY <2>1, <2>4 DEF AllUpToDate, ListUpToDate, UpToDate
<1>2. Inv /\ QuietInv => RunConverges
  BY <1>1 DEF RunConverges
<1>. QED
  BY <1>2, QuietRuns, PTL

\* After such a run no row is left without a region while one contains its
\* place, also none of those an earlier run upserted before it died; the region
\* a row has may be that of an earlier place (assign_gminy, assign_nuts2).
THEOREM AssignsCorrect == Spec => []RunAssignsAll
<1>1. QuietInv => RunAssignsAll
  BY UndisturbedSettles DEF RunAssignsAll, Settled, GminyAssigned, Nuts2Assigned, Present
<1>. QED
  BY <1>1, QuietRuns, PTL

\* After such a run the snapshot and all four views describe the table as it
\* is, at whatever moments pg_cron refreshed some of them (full_pipeline).
THEOREM PublishesCorrect == Spec => []RunPublishesOneState
<1>1. ASSUME QuietInv, NEW r \in Runs, Undisturbed(r)
      PROVE  snapshot = SnapshotOf(lockers) /\ \A v \in ToSet(Views) : views[v] = Query(v, lockers)
  <2>1. snapshot = SnapshotOf(lockers) /\ Refreshed(views, lockers, Len(Views))
    BY <1>1, UndisturbedSettles DEF Settled
  <2>2. ASSUME NEW v \in ToSet(Views)
        PROVE  \E i \in 1 .. Len(Views) : v = Views[i]
    BY DEF ToSet, Views
  <2>. QED
    BY <2>1, <2>2 DEF Refreshed
<1>2. QuietInv => RunPublishesOneState
  BY <1>1 DEF RunPublishesOneState
<1>. QED
  BY <1>2, QuietRuns, PTL

\* A process that is alone with a quiet upstream gives no statement a name
\* twice, so its own data stops it only when InPost lists a record that stops
\* every run: in the filter, in item_to_row, or in the upsert.
THEOREM NeverRaises == Spec => []QuietRunNeverRaises
<1>1. QuietInv => QuietRunNeverRaises
  BY DEF QuietInv, ProgressInv, Progress, Raising, Stopping,
         QuietRunNeverRaises
<1>. QED
  BY <1>1, QuietRuns, PTL

=============================================================================
