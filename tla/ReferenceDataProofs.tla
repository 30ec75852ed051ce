------------------------- MODULE ReferenceDataProofs -------------------------
(***************************************************************************)
(* ReferenceData keeps its types, and rows prepared from a table read      *)
(* earlier still fit it when they are inserted, for any loaders and files. *)
(* At the end, what its matching of gminy makes of any file of BDL units:  *)
(* the properties of BdlIndex.                                             *)
(***************************************************************************)
EXTENDS ReferenceData, BdlIndex, FiniteSetTheorems, WellFoundedInduction, TLAPS

\* A merge changes rows and adds some, all of them gminy.
LEMMA MergedTable ==
    ASSUME staging \in Shapefiles, gminy \in [Codes -> GminaType \cup {Absent}]
    PROVE  /\ Merged \in [Codes -> GminaType \cup {Absent}]
           /\ \A c \in Codes : gminy[c] # Absent => Merged[c] # Absent
<1>1. ASSUME NEW c \in Codes
      PROVE  /\ Merged[c] \in GminaType \cup {Absent}
             /\ gminy[c] # Absent => Merged[c] # Absent
  <2>1. CASE c \notin {f.code : f \in Mergeable}
    BY <2>1 DEF Merged
  <2>2. CASE c \in {f.code : f \in Mergeable}
    <3>1. PICK f \in Mergeable : f.code = c
      BY <2>2
    <3>2. Feature(c) \in Mergeable
      BY <3>1 DEF Feature
    <3>3. Feature(c) \in [code : Codes, name : Names, shape : Shapes]
      BY <3>2, FilesAssumption DEF Mergeable
    <3>4. gminy[c] # Absent => gminy[c].area \in {AreaOf[s] : s \in Shapes} \cup {Null}
      BY DEF GminaType
    <3>5. Merged[c] = [name  |-> Feature(c).name, shape |-> Feature(c).shape,
                       area  |-> IF gminy[c] = Absent THEN Null ELSE gminy[c].area]
      BY <2>2 DEF Merged
    <3>6. Merged[c] \in GminaType
      BY <3>3, <3>4, <3>5 DEF GminaType
    <3>. QED
      BY <3>6, CodesAssumption DEF GminaType
  <2>. QED
    BY <2>1, <2>2
<1>. QED
  BY <1>1 DEF Merged

\* So does the computation of areas, which adds none.
AreasComputed ==
    [c \in Codes |-> IF gminy[c] # Absent /\ gminy[c].area = Null
                     THEN [gminy[c] EXCEPT !.area = AreaOf[gminy[c].shape]] ELSE gminy[c]]

LEMMA AreasTable ==
    ASSUME gminy \in [Codes -> GminaType \cup {Absent}]
    PROVE  /\ AreasComputed \in [Codes -> GminaType \cup {Absent}]
           /\ \A c \in Codes : gminy[c] # Absent => AreasComputed[c] # Absent
<1>1. ASSUME NEW c \in Codes, gminy[c] # Absent
      PROVE  [gminy[c] EXCEPT !.area = AreaOf[gminy[c].shape]] \in GminaType
  BY <1>1 DEF GminaType
<1>2. ASSUME NEW x \in GminaType PROVE x # Absent
  BY CodesAssumption DEF GminaType
<1>. QED
  BY <1>1, <1>2 DEF AreasComputed

\* What an upsert makes of a table.
LEMMA UpsertedTable ==
    ASSUME NEW table, NEW new, NEW S, NEW V,
           table \in [S -> V \cup {Absent}],
           \A k \in DOMAIN new : new[k] \in V, Absent \notin V
    PROVE  /\ Upserted(table, new) \in [S -> V \cup {Absent}]
           /\ \A k \in S : table[k] # Absent => Upserted(table, new)[k] # Absent
  BY DEF Upserted

LEMMA LoadedUpserted ==
    ASSUME NEW table, NEW new, NEW S, S = DOMAIN table,
           DOMAIN new \subseteq S
    PROVE  /\ DOMAIN Upserted(table, new) = S
           /\ Loaded(Upserted(table, new)) \subseteq Loaded(table) \cup DOMAIN new
  BY DEF Upserted, Loaded

-----------------------------------------------------------------------------
(* The invariant: types, and rows that fit their table. *)

Inv == TypeOK /\ RowsFitTheirTable

\* The part of a step that RowsFitTheirTable depends on: tables of regions
\* only gain rows.
Gains == /\ Loaded(gminy) \subseteq Loaded(gminy)'
         /\ Loaded(nuts2) \subseteq Loaded(nuts2)'

LEMMA InitInv == Init => Inv
  BY RegionsAssumption, MaxDownloadsAssumption
     DEF Init, Inv, TypeOK, RowsFitTheirTable, Loaded, Stopped, First

\* Steps that leave the rows and the stages of insertion as they are keep the
\* invariant when tables of regions only gain rows.
LEMMA GainsFit ==
    ASSUME RowsFitTheirTable, Gains,
           UNCHANGED <<population_gmina, population_nuts2>>,
           \A r \in Loaders : stage'[r] \in {"insert_gmina", "insert_nuts2"} =>
                                stage'[r] = stage[r] /\ rows'[r] = rows[r]
    PROVE  RowsFitTheirTable'
  BY DEF RowsFitTheirTable, Gains, Loaded

LEMMA ExitFit ==
    ASSUME TypeOK, NEW r \in Loaders, NEW how \in Stopped, Exit(r, how)
    PROVE  /\ stage' \in [Loaders -> Stopped \cup {"overwrite", "copy", "merge", "areas", "nuts2",
                              "match", "insert_gmina", "codes", "insert_nuts2"}]
           /\ DOMAIN rows' = Loaders
           /\ \A x \in Loaders : stage'[x] \in {"insert_gmina", "insert_nuts2"} =>
                                stage'[x] = stage[x] /\ rows'[x] = rows[x]
  BY DEF TypeOK, Exit, Goto, Stopped

LEMMA StartInv ==
    ASSUME Inv, NEW r \in Loaders, Start(r)
    PROVE  Inv'
<1>1. PICK o \in DOMAIN First : option' = [option EXCEPT ![r] = o]
                                /\ stage' = [stage EXCEPT ![r] = First[o]]
  BY DEF Start, Goto
<1>2. First[o] \in {"overwrite", "merge", "nuts2", "match"} /\ o # "none"
  BY DEF First
<1>3. TypeOK'
  BY <1>1, <1>2 DEF Start, Inv, TypeOK, disk, database
<1>4. Gains /\ UNCHANGED <<population_gmina, population_nuts2, rows>>
  BY DEF Start, Gains, Loaded, database
<1>. QED
  BY <1>1, <1>2, <1>3, <1>4, GainsFit DEF Inv, TypeOK

LEMMA AbortInv ==
    ASSUME Inv, NEW r \in Loaders, Abort(r)
    PROVE  Inv'
<1>1. Exit(r, "failed") /\ UNCHANGED <<disk, database, option, disturbed>>
  BY DEF Abort
<1>2. Gains
  BY <1>1 DEF Gains, Loaded, database
<1>3. RowsFitTheirTable'
  BY <1>1, <1>2, ExitFit, GainsFit DEF Inv, Stopped, database
<1>4. TypeOK'
  BY <1>1, ExitFit DEF Inv, TypeOK, Stopped, disk, database
<1>. QED
  BY <1>3, <1>4 DEF Inv

-----------------------------------------------------------------------------

LEMMA StagingInv ==
    ASSUME Inv, NEW r \in Loaders, DropStaging(r) \/ CopyStaging(r)
    PROVE  Inv'
<1>1. Gains /\ UNCHANGED <<population_gmina, population_nuts2>>
  BY DEF DropStaging, CopyStaging, Gains, Loaded
<1>2. \/ Exit(r, "raised")
      \/ UNCHANGED rows /\ (Goto(r, "copy") \/ Goto(r, "merge"))
  BY DEF DropStaging, CopyStaging
<1>3. /\ stage' \in [Loaders -> Stopped \cup {"overwrite", "copy", "merge", "areas", "nuts2",
                              "match", "insert_gmina", "codes", "insert_nuts2"}]
      /\ DOMAIN rows' = Loaders
      /\ \A x \in Loaders : stage'[x] \in {"insert_gmina", "insert_nuts2"} =>
                                stage'[x] = stage[x] /\ rows'[x] = rows[x]
  <2>1. CASE Exit(r, "raised")
    BY <2>1, ExitFit DEF Inv, Stopped
  <2>2. CASE UNCHANGED rows /\ (Goto(r, "copy") \/ Goto(r, "merge"))
    BY <2>2 DEF Inv, TypeOK, Goto
  <2>. QED
    BY <1>2, <2>1, <2>2
<1>4. staging' \in Shapefiles \cup {Absent}
  BY DEF Inv, TypeOK, DropStaging, CopyStaging
<1>5. RowsFitTheirTable'
  BY <1>1, <1>3, GainsFit DEF Inv
<1>6. TypeOK'
  BY <1>3, <1>4 DEF Inv, TypeOK, DropStaging, CopyStaging, disk
<1>. QED
  BY <1>5, <1>6 DEF Inv

LEMMA GminyInv ==
    ASSUME Inv, NEW r \in Loaders, Merge(r) \/ ComputeAreas(r)
    PROVE  Inv'
<1>1. /\ gminy' \in [Codes -> GminaType \cup {Absent}]
      /\ \A c \in Codes : gminy[c] # Absent => gminy'[c] # Absent
  <2>1. CASE Merge(r) /\ IsMergeable
    BY <2>1, MergedTable DEF Merge, Inv, TypeOK, IsMergeable
  <2>2. CASE Merge(r) /\ ~IsMergeable
    BY <2>2 DEF Merge, Inv, TypeOK
  <2>3. CASE ComputeAreas(r)
    <3>1. gminy' = AreasComputed
      BY <2>3 DEF ComputeAreas, AreasComputed
    <3>. QED
      BY <3>1, AreasTable DEF Inv, TypeOK
  <2>. QED
    BY <2>1, <2>2, <2>3
<1>2. Gains /\ UNCHANGED <<population_gmina, population_nuts2>>
  BY <1>1 DEF Merge, ComputeAreas, Gains, Loaded, Inv, TypeOK
<1>3. /\ stage' \in [Loaders -> Stopped \cup {"overwrite", "copy", "merge", "areas", "nuts2",
                              "match", "insert_gmina", "codes", "insert_nuts2"}]
      /\ DOMAIN rows' = Loaders
      /\ \A x \in Loaders : stage'[x] \in {"insert_gmina", "insert_nuts2"} =>
                                stage'[x] = stage[x] /\ rows'[x] = rows[x]
  <2>1. CASE Exit(r, "raised")
    BY <2>1, ExitFit DEF Inv, Stopped
  <2>2. CASE UNCHANGED rows /\ (Goto(r, "areas") \/ Goto(r, "done"))
    BY <2>2 DEF Inv, TypeOK, Goto, Stopped
  <2>. QED
    BY <2>1, <2>2 DEF Merge, ComputeAreas
<1>4. RowsFitTheirTable'
  BY <1>2, <1>3, GainsFit DEF Inv
<1>5. TypeOK'
  BY <1>1, <1>3 DEF Inv, TypeOK, Merge, ComputeAreas, disk
<1>. QED
  BY <1>4, <1>5 DEF Inv

LEMMA Nuts2Inv ==
    ASSUME Inv, NEW r \in Loaders, LoadNuts2(r)
    PROVE  Inv'
<1>. DEFINE new == [n \in {n \in DOMAIN files.nuts : IsNuts2[n]} |-> files.nuts[n]]
<1>1. \A n \in DOMAIN new : new[n] \in Shapes
  BY FilesAssumption DEF Inv, TypeOK
<1>2. /\ nuts2' \in [Regions -> Shapes \cup {Absent}]
      /\ \A n \in Regions : nuts2[n] # Absent => nuts2'[n] # Absent
  <2>. HIDE DEF new
  <2>1. nuts2' = Upserted(nuts2, new)
    BY DEF LoadNuts2, new
  <2>. QED
    BY <2>1, <1>1, UpsertedTable, RegionsAssumption DEF Inv, TypeOK
<1>3. Gains /\ UNCHANGED <<population_gmina, population_nuts2, rows>>
  BY <1>2 DEF LoadNuts2, Gains, Loaded, Inv, TypeOK
<1>4. /\ stage' \in [Loaders -> Stopped \cup {"overwrite", "copy", "merge", "areas", "nuts2",
                              "match", "insert_gmina", "codes", "insert_nuts2"}]
      /\ stage' = [stage EXCEPT ![r] = "done"]
  BY DEF LoadNuts2, Goto, Inv, TypeOK, Stopped
<1>5. RowsFitTheirTable'
  BY <1>3, <1>4, GainsFit DEF Inv, TypeOK
<1>6. TypeOK'
  BY <1>2, <1>3, <1>4 DEF Inv, TypeOK, LoadNuts2, disk
<1>. QED
  BY <1>5, <1>6 DEF Inv

-----------------------------------------------------------------------------
(* Populations. *)

LEMMA PrepareInv ==
    ASSUME Inv, NEW r \in Loaders, MatchGminy(r) \/ ReadCodes(r)
    PROVE  Inv'
<1>1. UNCHANGED <<disk, database, option, disturbed>>
  BY DEF MatchGminy, ReadCodes
<1>2. /\ \A x \in Loaders : x # r => stage'[x] = stage[x] /\ rows'[x] = rows[x]
      /\ DOMAIN rows' = Loaders
      /\ stage' \in [Loaders -> Stopped \cup {"overwrite", "copy", "merge", "areas", "nuts2",
                              "match", "insert_gmina", "codes", "insert_nuts2"}]
  BY DEF MatchGminy, ReadCodes, Exit, Goto, Inv, TypeOK, Stopped
<1>3. /\ stage'[r] = "insert_gmina" => DOMAIN rows'[r] \subseteq Loaded(gminy)
      /\ stage'[r] = "insert_nuts2" => DOMAIN rows'[r] \subseteq Loaded(nuts2)
  <2>1. CASE MatchGminy(r)
    <3>1. Valued \subseteq Loaded(gminy)
      BY DEF Valued, Matched
    <3>2. \/ /\ stage'[r] \in {"codes", "insert_gmina"}
             /\ DOMAIN rows'[r] = Valued
          \/ stage'[r] = "raised"
      BY <2>1 DEF MatchGminy, Exit, Goto, Inv, TypeOK
    <3>. QED
      BY <3>1, <3>2
  <2>2. CASE ReadCodes(r)
    <3>1. Populated \subseteq Loaded(nuts2)
      BY DEF Populated
    <3>2. stage'[r] \in {"done", "insert_nuts2"} /\ DOMAIN rows'[r] = Populated
      BY <2>2 DEF ReadCodes, Goto, Inv, TypeOK
    <3>. QED
      BY <3>1, <3>2
  <2>. QED
    BY <2>1, <2>2
<1>4. RowsFitTheirTable'
  BY <1>1, <1>2, <1>3 DEF Inv, RowsFitTheirTable, Loaded, database
<1>5. TypeOK'
  BY <1>1, <1>2 DEF Inv, TypeOK, disk, database
<1>. QED
  BY <1>4, <1>5 DEF Inv

LEMMA InsertGminaInv ==
    ASSUME Inv, NEW r \in Loaders, InsertGmina(r)
    PROVE  Inv'
<1>1. DOMAIN rows[r] \subseteq Loaded(gminy) /\ Loaded(gminy) \subseteq Codes
  BY DEF InsertGmina, Inv, TypeOK, RowsFitTheirTable, Loaded
<1>2. /\ DOMAIN population_gmina' = Codes
      /\ Loaded(population_gmina') \subseteq Loaded(population_gmina) \cup DOMAIN rows[r]
  BY <1>1, LoadedUpserted DEF InsertGmina, Inv, TypeOK
<1>3. /\ stage' = [stage EXCEPT ![r] = "codes"]
      /\ rows' = [rows EXCEPT ![r] = NoRows]
      /\ UNCHANGED <<disk, staging, gminy, nuts2, population_nuts2, option, disturbed>>
  BY DEF InsertGmina, Goto
<1>4. Loaded(population_gmina') \subseteq Loaded(gminy)
  BY <1>1, <1>2 DEF Inv, RowsFitTheirTable
<1>5. RowsFitTheirTable'
  BY <1>3, <1>4 DEF Inv, TypeOK, RowsFitTheirTable, Loaded
<1>6. TypeOK'
  BY <1>2, <1>3 DEF Inv, TypeOK, disk
<1>. QED
  BY <1>5, <1>6 DEF Inv

LEMMA InsertNuts2Inv ==
    ASSUME Inv, NEW r \in Loaders, InsertNuts2(r)
    PROVE  Inv'
<1>1. DOMAIN rows[r] \subseteq Loaded(nuts2) /\ Loaded(nuts2) \subseteq Regions
  BY DEF InsertNuts2, Inv, TypeOK, RowsFitTheirTable, Loaded
<1>2. /\ DOMAIN population_nuts2' = Regions
      /\ Loaded(population_nuts2') \subseteq Loaded(population_nuts2) \cup DOMAIN rows[r]
  BY <1>1, LoadedUpserted DEF InsertNuts2, Inv, TypeOK
<1>3. /\ stage' = [stage EXCEPT ![r] = "done"]
      /\ rows' = [rows EXCEPT ![r] = NoRows]
      /\ UNCHANGED <<disk, staging, gminy, nuts2, population_gmina, option, disturbed>>
  BY DEF InsertNuts2, Goto, Exit
<1>4. Loaded(population_nuts2') \subseteq Loaded(nuts2)
  BY <1>1, <1>2 DEF Inv, RowsFitTheirTable
<1>5. RowsFitTheirTable'
  BY <1>3, <1>4 DEF Inv, TypeOK, RowsFitTheirTable, Loaded
<1>6. TypeOK'
  BY <1>2, <1>3 DEF Inv, TypeOK, disk, Stopped
<1>. QED
  BY <1>5, <1>6 DEF Inv

LEMMA DownloadInv == Inv /\ Download => Inv'
<1>. SUFFICES ASSUME Inv, Download PROVE Inv'
  OBVIOUS
<1>1. files' \in [prg : Shapefiles, bdl : BdlFiles, nuts : NutsFiles, eurostat : EurostatFiles]
  BY DEF Download, Inv, TypeOK
<1>2. downloads' \in 0 .. MaxDownloads
  BY MaxDownloadsAssumption DEF Download, Inv, TypeOK
<1>. QED
  BY <1>1, <1>2 DEF Download, Inv, TypeOK, RowsFitTheirTable, Loaded, database

LEMMA StepInv == Inv /\ [Next]_vars => Inv'
<1>. SUFFICES ASSUME Inv, [Next]_vars PROVE Inv'
  OBVIOUS
<1>1. ASSUME NEW r \in Loaders, Start(r) PROVE Inv'
  BY <1>1, StartInv
<1>2. ASSUME NEW r \in Loaders, Abort(r) PROVE Inv'
  BY <1>2, AbortInv
<1>3. ASSUME NEW r \in Loaders, Step(r) PROVE Inv'
  BY <1>3, StagingInv, GminyInv, Nuts2Inv, PrepareInv, InsertGminaInv, InsertNuts2Inv DEF Step
<1>4. CASE Download
  BY <1>4, DownloadInv
<1>5. CASE UNCHANGED vars
  BY <1>5 DEF vars, disk, database, Inv, TypeOK, RowsFitTheirTable, Loaded
<1>. QED
  BY <1>1, <1>2, <1>3, <1>4, <1>5 DEF Next

\* The reference tables and the loaders keep their types.
THEOREM TypeCorrect == Spec => []TypeOK
<1>1. Inv => TypeOK
  BY DEF Inv
<1>. QED
  BY <1>1, InitInv, StepInv, PTL DEF Spec

\* Rows that a loader prepared from a table it read earlier are rows of that
\* table when it inserts them, however loaders overlap or die: no population is
\* ever refused by, or stored against, the foreign keys.
THEOREM RowsFit == Spec => []RowsFitTheirTable
<1>1. Inv => RowsFitTheirTable
  BY DEF Inv
<1>. QED
  BY <1>1, InitInv, StepInv, PTL DEF Spec

-----------------------------------------------------------------------------
(* A load that nothing disturbs. *)

\* Stages a loader passes through with an option.
StagesOf ==
    [prg        |-> {"overwrite", "copy", "merge", "areas", "done", "failed", "raised"},
     merge      |-> {"merge", "areas", "done", "failed", "raised"},
     nuts2      |-> {"nuts2", "done", "failed", "raised"},
     population |-> {"match", "insert_gmina", "codes", "insert_nuts2",
                     "done", "failed", "raised"}]

StageInv ==
    /\ \A r \in Loaders : option[r] # "none" => stage[r] \in StagesOf[option[r]]
    /\ \A n \in Loaded(nuts2) : IsNuts2[n]

Solo(r) == r \notin disturbed /\ option[r] # "none"

\* Whatever a loader has read and written since it started alone is still what
\* files and tables hold.
SoloInv ==
    \A r \in Loaders : Solo(r) => \A q \in Loaders \ {r} : stage[q] \in Stopped

HasFeatures ==
    \A f \in files.prg : IsTeryt[f.code] =>
        /\ gminy[f.code] # Absent
        /\ gminy[f.code].name = f.name
        /\ gminy[f.code].shape = f.shape

HasAreas == \A c \in Loaded(gminy) : gminy[c].area # Null

PrgInv ==
    \A r \in Loaders : (Solo(r) /\ option[r] = "prg") =>
        /\ stage[r] = "merge" => staging = files.prg
        /\ stage[r] \in {"areas", "done"} => HasFeatures
        /\ stage[r] = "done" => HasAreas

GminaRows == [c \in Valued |-> files.bdl.value[UnitOf(c)]]
Nuts2Rows == [n \in Populated |-> files.eurostat[n]]

PopulationInv ==
    \A r \in Loaders : (Solo(r) /\ option[r] = "population") =>
        /\ stage[r] \in {"insert_gmina", "codes", "insert_nuts2", "done"} => EnoughMatched
        /\ stage[r] = "insert_gmina" => rows[r] = GminaRows
        /\ stage[r] \in {"codes", "insert_nuts2", "done"} =>
                \A c \in Valued : population_gmina[c] = GminaRows[c]
        /\ stage[r] = "insert_nuts2" => rows[r] = Nuts2Rows
        /\ stage[r] = "done" => \A n \in Populated : population_nuts2[n] = Nuts2Rows[n]

LoadInv == StageInv /\ SoloInv /\ PrgInv /\ PopulationInv

LEMMA InitLoad == Init => LoadInv
  BY DEF Init, LoadInv, StageInv, SoloInv, PrgInv, PopulationInv, Solo, Loaded

\* While a loader is under way, no other one counts as undisturbed.
LEMMA SoloStep ==
    ASSUME SoloInv, NEW x \in Loaders, stage[x] \notin Stopped,
           UNCHANGED <<option, disturbed>>,
           \A q \in Loaders \ {x} : stage'[q] = stage[q]
    PROVE  /\ SoloInv'
           /\ \A r \in Loaders : Solo(r)' => r = x /\ Solo(x)
<1>1. ASSUME NEW r \in Loaders, Solo(r)'
      PROVE  r = x /\ Solo(x)
  <2>1. Solo(r)
    BY <1>1 DEF Solo
  <2>. QED
    BY <2>1 DEF SoloInv
<1>2. Solo(x) => \A q \in Loaders \ {x} : stage'[q] \in Stopped
  BY DEF SoloInv
<1>. QED
  BY <1>1, <1>2 DEF SoloInv

\* A step that leaves tables and files alone, to a stage of which nothing is
\* claimed, keeps the invariant.
Ends == {"failed", "raised"}

LEMMA EndStep ==
    ASSUME TypeOK, LoadInv, NEW x \in Loaders, stage[x] \notin Stopped,
           NEW how \in Ends, Exit(x, how),
           UNCHANGED <<nuts2, option, disturbed>>
    PROVE  LoadInv'
<1>1. /\ stage' = [stage EXCEPT ![x] = how]
      /\ stage'[x] = how
      /\ \A q \in Loaders \ {x} : stage'[q] = stage[q]
  BY DEF Exit, Goto, TypeOK
<1>2. SoloInv' /\ \A r \in Loaders : Solo(r)' => r = x
  BY <1>1, SoloStep DEF LoadInv
<1>3. StageInv'
  <2>1. \A o \in DOMAIN First : how \in StagesOf[o]
    BY DEF Ends, First, StagesOf
  <2>. QED
    BY <1>1, <2>1 DEF LoadInv, StageInv, TypeOK, Loaded
<1>4. how \notin {"merge", "areas", "done", "insert_gmina", "codes", "insert_nuts2"}
  BY DEF Ends
<1>. QED
  BY <1>1, <1>2, <1>3, <1>4 DEF LoadInv, PrgInv, PopulationInv

\* What matching makes of the files and the table gminy depends on nothing else.
LEMMA SameInputs ==
    /\ UNCHANGED <<files, gminy>> =>
            /\ EnoughMatched' = EnoughMatched
            /\ Valued' = Valued
            /\ GminaRows' = GminaRows
    /\ UNCHANGED <<files, nuts2>> =>
            /\ Populated' = Populated
            /\ Nuts2Rows' = Nuts2Rows
  BY DEF EnoughMatched, GminaRows, Nuts2Rows, Valued, Matched, Populated, UnitOf, Loaded

LEMMA StartLoad ==
    ASSUME TypeOK, LoadInv, NEW x \in Loaders, Start(x)
    PROVE  LoadInv'
<1>1. PICK o \in DOMAIN First : /\ option' = [option EXCEPT ![x] = o]
                                /\ stage' = [stage EXCEPT ![x] = First[o]]
  BY DEF Start, Goto
<1>2. /\ option'[x] = o /\ stage'[x] = First[o]
      /\ \A q \in Loaders \ {x} : stage'[q] = stage[q] /\ option'[q] = option[q]
  BY <1>1 DEF TypeOK
<1>3. /\ First[o] \in StagesOf[o]
      /\ o \in {"prg", "population"} => First[o] \in {"overwrite", "match"}
  BY DEF First, StagesOf
<1>4. StageInv'
  BY <1>1, <1>2, <1>3 DEF LoadInv, StageInv, Start, database, Loaded
<1>5. ASSUME NEW r \in Loaders, Solo(r)'
      PROVE  r = x /\ \A q \in Loaders \ {x} : stage'[q] \in Stopped
  <2>1. Active = {} /\ r = x
    BY <1>5 DEF Start, Solo
  <2>. QED
    BY <2>1, <1>2 DEF Active
<1>6. SoloInv'
  BY <1>5 DEF SoloInv
<1>7. PrgInv' /\ PopulationInv'
  BY <1>2, <1>3, <1>5 DEF PrgInv, PopulationInv
<1>. QED
  BY <1>4, <1>6, <1>7 DEF LoadInv

-----------------------------------------------------------------------------
(* The steps of a load of PRG. *)

LEMMA StagingLoad ==
    ASSUME TypeOK, LoadInv, NEW x \in Loaders, DropStaging(x) \/ CopyStaging(x)
    PROVE  LoadInv'
<1>1. CASE Exit(x, "raised")
  BY <1>1, EndStep DEF DropStaging, CopyStaging, Stopped, Ends
<1>2. CASE Goto(x, "copy") \/ (Goto(x, "merge") /\ staging' = files.prg)
  <2>1. /\ stage[x] \in {"overwrite", "copy"}
        /\ UNCHANGED <<files, nuts2, option, disturbed>>
    BY DEF DropStaging, CopyStaging, disk
  <2>2. /\ stage'[x] \in {"copy", "merge"}
        /\ stage'[x] = "merge" => staging' = files.prg
        /\ \A q \in Loaders \ {x} : stage'[q] = stage[q]
    BY <1>2 DEF Goto, TypeOK
  <2>3. SoloInv' /\ \A r \in Loaders : Solo(r)' => r = x
    BY <2>1, <2>2, SoloStep DEF LoadInv, Stopped
  <2>4. option[x] \in {"none", "prg"}
    BY <2>1 DEF LoadInv, StageInv, StagesOf, TypeOK, First
  <2>5. StageInv'
    BY <2>1, <2>2, <2>4 DEF LoadInv, StageInv, StagesOf, Loaded
  <2>6. PrgInv'
    BY <2>1, <2>2, <2>3 DEF PrgInv
  <2>7. PopulationInv'
    BY <2>1, <2>3, <2>4 DEF PopulationInv
  <2>. QED
    BY <2>3, <2>5, <2>6, <2>7 DEF LoadInv
<1>. QED
  BY <1>1, <1>2 DEF DropStaging, CopyStaging

\* A merge brings every feature of the staging table that is a gmina.
LEMMA MergedHasFeatures ==
    ASSUME TypeOK, IsMergeable, NEW f \in staging, IsTeryt[f.code]
    PROVE  /\ f.code \in Codes
           /\ Merged[f.code] # Absent
           /\ Merged[f.code].name = f.name
           /\ Merged[f.code].shape = f.shape
<1>1. f \in Mergeable /\ staging \in Shapefiles
  BY DEF Mergeable, IsMergeable, TypeOK
<1>2. f \in [code : Codes, name : Names, shape : Shapes]
  BY <1>1, FilesAssumption
<1>3. Feature(f.code) = f
  <2>1. Feature(f.code) \in Mergeable /\ Feature(f.code).code = f.code
    BY <1>1 DEF Feature
  <2>. QED
    BY <1>1, <2>1 DEF IsMergeable
<1>4. Merged[f.code] = [name  |-> f.name, shape |-> f.shape,
                        area  |-> IF gminy[f.code] = Absent THEN Null ELSE gminy[f.code].area]
  BY <1>1, <1>2, <1>3 DEF Merged
<1>5. gminy[f.code] # Absent => gminy[f.code].area \in {AreaOf[s] : s \in Shapes} \cup {Null}
  BY <1>2 DEF TypeOK, GminaType
<1>6. Merged[f.code] \in GminaType
  BY <1>2, <1>4, <1>5 DEF GminaType
<1>. QED
  BY <1>2, <1>4, <1>6, CodesAssumption DEF GminaType

LEMMA MergeLoad ==
    ASSUME TypeOK, LoadInv, NEW x \in Loaders, Merge(x)
    PROVE  LoadInv'
<1>1. CASE Exit(x, "raised")
  BY <1>1, EndStep DEF Merge, Stopped, Ends
<1>2. CASE IsMergeable /\ gminy' = Merged /\ Goto(x, "areas")
  <2>1. /\ stage[x] = "merge"
        /\ UNCHANGED <<files, nuts2, option, disturbed>>
    BY DEF Merge, disk
  <2>2. /\ stage'[x] = "areas"
        /\ \A q \in Loaders \ {x} : stage'[q] = stage[q]
    BY <1>2 DEF Goto, TypeOK
  <2>3. SoloInv' /\ \A r \in Loaders : Solo(r)' => r = x /\ Solo(x)
    BY <2>1, <2>2, SoloStep DEF LoadInv, Stopped
  <2>4. option[x] \in {"none", "prg", "merge"}
    BY <2>1 DEF LoadInv, StageInv, StagesOf, TypeOK, First
  <2>5. StageInv'
    BY <2>1, <2>2, <2>4 DEF LoadInv, StageInv, StagesOf, Loaded
  <2>6. PrgInv'
    <3>. SUFFICES ASSUME Solo(x), option[x] = "prg" PROVE HasFeatures'
      BY <2>1, <2>2, <2>3 DEF PrgInv
    <3>1. staging = files.prg
      BY <2>1 DEF LoadInv, PrgInv
    <3>. QED
      BY <3>1, <1>2, <2>1, MergedHasFeatures DEF HasFeatures
  <2>7. PopulationInv'
    BY <2>1, <2>3, <2>4 DEF PopulationInv
  <2>. QED
    BY <2>3, <2>5, <2>6, <2>7 DEF LoadInv
<1>. QED
  BY <1>1, <1>2 DEF Merge

LEMMA AreasLoad ==
    ASSUME TypeOK, LoadInv, NEW x \in Loaders, ComputeAreas(x)
    PROVE  LoadInv'
<1>1. /\ stage[x] = "areas"
      /\ gminy' = AreasComputed
      /\ UNCHANGED <<files, nuts2, option, disturbed>>
  BY DEF ComputeAreas, AreasComputed, disk
<1>2. /\ stage'[x] = "done"
      /\ \A q \in Loaders \ {x} : stage'[q] = stage[q]
  BY DEF ComputeAreas, Goto, TypeOK
<1>3. SoloInv' /\ \A r \in Loaders : Solo(r)' => r = x /\ Solo(x)
  BY <1>1, <1>2, SoloStep DEF LoadInv, Stopped
<1>4. option[x] \in {"none", "prg", "merge"}
  BY <1>1 DEF LoadInv, StageInv, StagesOf, TypeOK, First
<1>5. StageInv'
  BY <1>1, <1>2, <1>4 DEF LoadInv, StageInv, StagesOf, Loaded
<1>6. ASSUME NEW c \in Codes, gminy[c] # Absent
      PROVE  /\ AreasComputed[c] # Absent
             /\ AreasComputed[c].name = gminy[c].name
             /\ AreasComputed[c].shape = gminy[c].shape
             /\ AreasComputed[c].area # Null
  <2>1. gminy[c] \in [name : Names, shape : Shapes, area : {AreaOf[s] : s \in Shapes} \cup {Null}]
    BY <1>6 DEF TypeOK, GminaType
  <2>2. AreasComputed[c] # Absent
    BY <1>6, AreasTable DEF TypeOK
  <2>3. CASE gminy[c].area = Null
    <3>1. AreasComputed[c] = [gminy[c] EXCEPT !.area = AreaOf[gminy[c].shape]]
      BY <1>6, <2>3 DEF AreasComputed
    <3>2. AreaOf[gminy[c].shape] # Null
      BY <2>1, CodesAssumption
    <3>. QED
      BY <2>1, <2>2, <3>1, <3>2
  <2>4. CASE gminy[c].area # Null
    BY <1>6, <2>2, <2>4 DEF AreasComputed
  <2>. QED
    BY <2>3, <2>4
<1>7. PrgInv'
  <2>. SUFFICES ASSUME Solo(x), option[x] = "prg" PROVE HasFeatures' /\ HasAreas'
    BY <1>1, <1>2, <1>3 DEF PrgInv
  <2>1. HasFeatures
    BY <1>1 DEF LoadInv, PrgInv
  <2>2. \A f \in files.prg : f.code \in Codes
    BY FilesAssumption DEF TypeOK
  <2>3. HasFeatures'
    BY <1>1, <1>6, <2>1, <2>2 DEF HasFeatures
  <2>4. DOMAIN AreasComputed = Codes /\ \A c \in Codes : gminy[c] = Absent => AreasComputed[c] = Absent
    BY DEF AreasComputed
  <2>5. HasAreas'
    BY <1>1, <1>6, <2>4 DEF HasAreas, Loaded
  <2>. QED
    BY <2>3, <2>5
<1>8. PopulationInv'
  BY <1>1, <1>3, <1>4 DEF PopulationInv
<1>. QED
  BY <1>3, <1>5, <1>7, <1>8 DEF LoadInv

LEMMA Nuts2Load ==
    ASSUME TypeOK, LoadInv, NEW x \in Loaders, LoadNuts2(x)
    PROVE  LoadInv'
<1>. DEFINE new == [n \in {n \in DOMAIN files.nuts : IsNuts2[n]} |-> files.nuts[n]]
<1>1. /\ stage[x] = "nuts2"
      /\ nuts2' = Upserted(nuts2, new)
      /\ UNCHANGED <<files, option, disturbed>>
  BY DEF LoadNuts2, disk
<1>2. /\ stage'[x] = "done"
      /\ \A q \in Loaders \ {x} : stage'[q] = stage[q]
  BY DEF LoadNuts2, Goto, TypeOK
<1>3. SoloInv' /\ \A r \in Loaders : Solo(r)' => r = x
  BY <1>1, <1>2, SoloStep DEF LoadInv, Stopped
<1>4. option[x] \in {"none", "nuts2"}
  BY <1>1 DEF LoadInv, StageInv, StagesOf, TypeOK, First
<1>5. \A n \in Loaded(nuts2') : IsNuts2[n]
  BY <1>1 DEF LoadInv, StageInv, Upserted, Loaded
<1>6. StageInv'
  BY <1>1, <1>2, <1>4, <1>5 DEF LoadInv, StageInv, StagesOf
<1>7. PrgInv' /\ PopulationInv'
  BY <1>1, <1>3, <1>4 DEF PrgInv, PopulationInv
<1>. QED
  BY <1>3, <1>6, <1>7 DEF LoadInv

-----------------------------------------------------------------------------
(* The steps of a load of populations. *)

LEMMA PrepareLoad ==
    ASSUME TypeOK, LoadInv, NEW x \in Loaders, MatchGminy(x) \/ ReadCodes(x)
    PROVE  LoadInv'
<1>1. /\ stage[x] \in {"match", "codes"}
      /\ UNCHANGED <<files, gminy, nuts2, population_gmina, population_nuts2, option, disturbed>>
  BY DEF MatchGminy, ReadCodes, disk, database
<1>2. CASE Exit(x, "raised")
  BY <1>1, <1>2, EndStep DEF Stopped, Ends
<1>3. CASE ~Exit(x, "raised")
  <2>1. \/ /\ stage[x] = "match" /\ EnoughMatched /\ rows'[x] = GminaRows
           /\ stage'[x] = IF Valued = {} THEN "codes" ELSE "insert_gmina"
        \/ /\ stage[x] = "codes" /\ rows'[x] = Nuts2Rows
           /\ stage'[x] = IF Populated = {} THEN "done" ELSE "insert_nuts2"
    BY <1>3 DEF MatchGminy, ReadCodes, Goto, TypeOK, GminaRows, Nuts2Rows
  <2>2. \A q \in Loaders \ {x} : stage'[q] = stage[q]
    BY <1>3 DEF MatchGminy, ReadCodes, Goto, TypeOK
  <2>3. SoloInv' /\ \A r \in Loaders : Solo(r)' => r = x /\ Solo(x)
    BY <1>1, <2>2, SoloStep DEF LoadInv, Stopped
  <2>4. option[x] \in {"none", "population"}
    BY <1>1 DEF LoadInv, StageInv, StagesOf, TypeOK, First
  <2>5. StageInv'
    <3>1. stage'[x] \in {"codes", "insert_gmina", "done", "insert_nuts2"}
      BY <2>1
    <3>. QED
      BY <1>1, <2>2, <2>4, <3>1 DEF LoadInv, StageInv, StagesOf, Loaded
  <2>6. PrgInv'
    BY <1>1, <2>3, <2>4 DEF PrgInv
  <2>7. PopulationInv'
    <3>. SUFFICES ASSUME Solo(x), option[x] = "population"
                  PROVE  /\ stage'[x] \in {"insert_gmina", "codes", "insert_nuts2", "done"} =>
                                EnoughMatched
                         /\ stage'[x] = "insert_gmina" => rows'[x] = GminaRows
                         /\ stage'[x] \in {"codes", "insert_nuts2", "done"} =>
                                \A c \in Valued : population_gmina[c] = GminaRows[c]
                         /\ stage'[x] = "insert_nuts2" => rows'[x] = Nuts2Rows
                         /\ stage'[x] = "done" =>
                                \A n \in Populated : population_nuts2[n] = Nuts2Rows[n]
      BY <1>1, <2>3, SameInputs DEF PopulationInv
    <3>1. CASE stage[x] = "match"
      <4>1. Valued # {} => stage'[x] = "insert_gmina"
        BY <2>1, <3>1
      <4>. QED
        BY <2>1, <3>1, <4>1
    <3>2. CASE stage[x] = "codes"
      <4>1. Populated # {} => stage'[x] = "insert_nuts2"
        BY <2>1, <3>2
      <4>2. /\ EnoughMatched
            /\ \A c \in Valued : population_gmina[c] = GminaRows[c]
        BY <3>2 DEF LoadInv, PopulationInv
      <4>. QED
        BY <2>1, <3>2, <4>1, <4>2
    <3>. QED
      BY <1>1, <3>1, <3>2
  <2>. QED
    BY <2>3, <2>5, <2>6, <2>7 DEF LoadInv
<1>. QED
  BY <1>2, <1>3

\* An upsert leaves the values it was given.
LEMMA UpsertedValues ==
    ASSUME NEW table, NEW new, DOMAIN new \subseteq DOMAIN table
    PROVE  \A k \in DOMAIN new : Upserted(table, new)[k] = new[k]
  BY DEF Upserted

LEMMA InsertLoad ==
    ASSUME TypeOK, LoadInv, NEW x \in Loaders, InsertGmina(x) \/ InsertNuts2(x)
    PROVE  LoadInv'
<1>1. /\ stage[x] \in {"insert_gmina", "insert_nuts2"}
      /\ UNCHANGED <<files, gminy, nuts2, option, disturbed>>
  BY DEF InsertGmina, InsertNuts2, disk
<1>2. /\ stage'[x] = IF stage[x] = "insert_gmina" THEN "codes" ELSE "done"
      /\ \A q \in Loaders \ {x} : stage'[q] = stage[q]
  BY DEF InsertGmina, InsertNuts2, Exit, Goto, TypeOK
<1>3. SoloInv' /\ \A r \in Loaders : Solo(r)' => r = x /\ Solo(x)
  BY <1>1, <1>2, SoloStep DEF LoadInv, Stopped
<1>4. option[x] \in {"none", "population"}
  BY <1>1 DEF LoadInv, StageInv, StagesOf, TypeOK, First
<1>5. StageInv'
  BY <1>1, <1>2, <1>4 DEF LoadInv, StageInv, StagesOf, Loaded
<1>6. PrgInv'
  BY <1>1, <1>3, <1>4 DEF PrgInv
<1>7. PopulationInv'
  <2>. SUFFICES ASSUME Solo(x), option[x] = "population"
                PROVE  /\ EnoughMatched
                       /\ \A c \in Valued : population_gmina'[c] = GminaRows[c]
                       /\ stage'[x] = "done" =>
                            \A n \in Populated : population_nuts2'[n] = Nuts2Rows[n]
    <3>1. stage'[x] \in {"codes", "done"}
      BY <1>1, <1>2
    <3>. QED
      BY <1>1, <1>3, <3>1, SameInputs DEF PopulationInv
  <2>1. EnoughMatched
    BY <1>1 DEF LoadInv, PopulationInv
  <2>2. CASE InsertGmina(x)
    <3>1. /\ rows[x] = GminaRows
          /\ population_gmina' = Upserted(population_gmina, GminaRows)
          /\ stage'[x] = "codes"
      BY <1>2, <2>2 DEF LoadInv, PopulationInv, InsertGmina
    <3>2. DOMAIN GminaRows = Valued /\ Valued \subseteq Codes
      BY DEF GminaRows, Valued, Matched, Loaded, TypeOK
    <3>. QED
      BY <2>1, <3>1, <3>2, UpsertedValues DEF TypeOK
  <2>3. CASE InsertNuts2(x)
    <3>1. /\ rows[x] = Nuts2Rows
          /\ population_nuts2' = Upserted(population_nuts2, Nuts2Rows)
          /\ population_gmina' = population_gmina
          /\ \A c \in Valued : population_gmina[c] = GminaRows[c]
      BY <2>3 DEF LoadInv, PopulationInv, InsertNuts2
    <3>2. DOMAIN Nuts2Rows = Populated /\ Populated \subseteq Regions
      BY DEF Nuts2Rows, Populated, Loaded, TypeOK
    <3>. QED
      BY <2>1, <3>1, <3>2, UpsertedValues DEF TypeOK
  <2>. QED
    BY <2>2, <2>3
<1>. QED
  BY <1>3, <1>5, <1>6, <1>7 DEF LoadInv

-----------------------------------------------------------------------------

LEMMA DownloadLoad == TypeOK /\ LoadInv /\ Download => LoadInv'
<1>. SUFFICES ASSUME TypeOK, LoadInv, Download PROVE LoadInv'
  OBVIOUS
<1>1. \A r \in Loaders : ~Solo(r)'
  BY DEF Download, Solo
<1>. QED
  BY <1>1 DEF LoadInv, StageInv, SoloInv, PrgInv, PopulationInv, Download, database, Loaded

LEMMA StutterLoad == LoadInv /\ UNCHANGED vars => LoadInv'
<1>. SUFFICES ASSUME LoadInv, UNCHANGED vars PROVE LoadInv'
  OBVIOUS
<1>1. UNCHANGED <<files, staging, gminy, nuts2, population_gmina, population_nuts2,
                  stage, option, rows, disturbed>>
  BY DEF vars, disk, database
<1>2. \A r \in Loaders : Solo(r)' <=> Solo(r)
  BY <1>1 DEF Solo
<1>3. StageInv' /\ SoloInv'
  BY <1>1, <1>2 DEF LoadInv, StageInv, SoloInv, Loaded
<1>4. PrgInv'
  <2>1. HasFeatures' = HasFeatures /\ HasAreas' = HasAreas
    BY <1>1 DEF HasFeatures, HasAreas, Loaded
  <2>. QED
    BY <1>1, <1>2, <2>1 DEF LoadInv, PrgInv
<1>5. PopulationInv'
  BY <1>1, <1>2, SameInputs DEF LoadInv, PopulationInv
<1>. QED
  BY <1>3, <1>4, <1>5 DEF LoadInv

LEMMA StepLoad == TypeOK /\ LoadInv /\ [Next]_vars => LoadInv'
<1>. SUFFICES ASSUME TypeOK, LoadInv, [Next]_vars PROVE LoadInv'
  OBVIOUS
<1>1. ASSUME NEW r \in Loaders, Start(r) PROVE LoadInv'
  BY <1>1, StartLoad
<1>2. ASSUME NEW r \in Loaders, Abort(r) PROVE LoadInv'
  BY <1>2, EndStep DEF Abort, Active, Ends, database
<1>3. ASSUME NEW r \in Loaders, Step(r) PROVE LoadInv'
  BY <1>3, StagingLoad, MergeLoad, AreasLoad, Nuts2Load, PrepareLoad, InsertLoad DEF Step
<1>4. CASE Download
  BY <1>4, DownloadLoad
<1>5. CASE UNCHANGED vars
  BY <1>5, StutterLoad
<1>. QED
  BY <1>1, <1>2, <1>3, <1>4, <1>5 DEF Next

\* A load of PRG that nothing disturbed has brought every gmina of the file, with
\* its name and its boundary, and left none without an area, whatever earlier
\* loads that failed or were interrupted left in the staging table and in gminy.
THEOREM PrgComplete == Spec => []PrgLoadIsComplete
<1>1. LoadInv => PrgLoadIsComplete
  BY DEF LoadInv, PrgInv, PrgLoadIsComplete, Undisturbed, Solo, HasFeatures, HasAreas
<1>2. Inv => TypeOK
  BY DEF Inv
<1>. QED
  BY <1>1, <1>2, InitInv, StepInv, InitLoad, StepLoad, PTL DEF Spec

\* Enough gminy are matched when few enough are not.
LEMMA FewUnmatched ==
    ASSUME TypeOK, EnoughMatched
    PROVE  Cardinality({c \in Loaded(gminy) : UnitOf(c) = NoUnit}) * 100
                <= (100 - MinMatchRate) * Cardinality(Loaded(gminy))
<1>. DEFINE unmatched == {c \in Loaded(gminy) : UnitOf(c) = NoUnit}
            all  == Cardinality(Loaded(gminy))
            good == Cardinality(Matched)
            bad  == Cardinality(unmatched)
<1>1. IsFiniteSet(Loaded(gminy))
  <2>1. Loaded(gminy) \subseteq Codes
    BY DEF TypeOK, Loaded
  <2>. QED
    BY <2>1, CodesAssumption, FS_Subset
<1>2. Matched \subseteq Loaded(gminy) /\ unmatched = Loaded(gminy) \ Matched
  BY DEF Matched
<1>3. all \in Nat /\ good \in Nat /\ bad = all - good
  <2>1. Cardinality(Loaded(gminy)) \in Nat
    BY <1>1, FS_CardinalityType
  <2>2. IsFiniteSet(Matched)
    BY <1>1, <1>2, FS_Subset
  <2>3. Cardinality(Matched) \in Nat
    BY <2>2, FS_CardinalityType
  <2>4. Cardinality(Loaded(gminy) \ Matched) =
            Cardinality(Loaded(gminy)) - Cardinality(Loaded(gminy) \cap Matched)
    BY <1>1, FS_Difference
  <2>5. Loaded(gminy) \cap Matched = Matched
    BY <1>2
  <2>. HIDE DEF unmatched
  <2>. QED
    BY <1>2, <2>1, <2>3, <2>4, <2>5
<1>4. good * 100 >= MinMatchRate * all
  BY DEF EnoughMatched
<1>5. MinMatchRate \in Int
  BY MinMatchRateAssumption
<1>. HIDE DEF unmatched, all, good, bad
<1>6. bad * 100 <= (100 - MinMatchRate) * all
  <2>1. (100 - MinMatchRate) * all = 100 * all - MinMatchRate * all
    BY <1>3, <1>5
  <2>2. MinMatchRate * all \in Int
    BY <1>3, <1>5
  <2>. QED
    BY <1>3, <1>4, <2>1, <2>2
<1>. QED
  BY <1>6 DEF unmatched, all, bad

\* A load of populations that nothing disturbed was refused unless enough gminy
\* have a unit, and has left every gmina and region with the newest value there
\* is for it.
THEOREM PopulationComplete == Spec => []PopulationLoadIsComplete
<1>1. TypeOK /\ LoadInv => PopulationLoadIsComplete
  <2>. SUFFICES ASSUME TypeOK, LoadInv, NEW r \in Loaders, Undisturbed(r, "population")
                PROVE
        /\ Cardinality({c \in Loaded(gminy) : UnitOf(c) = NoUnit}) * 100
                <= (100 - MinMatchRate) * Cardinality(Loaded(gminy))
        /\ \A c \in Loaded(gminy) :
                (UnitOf(c) \in DOMAIN files.bdl.value /\ files.bdl.value[UnitOf(c)] # Null)
                    => population_gmina[c] = files.bdl.value[UnitOf(c)]
        /\ \A n \in Loaded(nuts2) \cap DOMAIN files.eurostat :
                files.eurostat[n] \notin {Null, 0} => population_nuts2[n] = files.eurostat[n]
    BY DEF PopulationLoadIsComplete
  <2>1. /\ EnoughMatched
        /\ \A c \in Valued : population_gmina[c] = GminaRows[c]
        /\ \A n \in Populated : population_nuts2[n] = Nuts2Rows[n]
    BY DEF LoadInv, PopulationInv, Undisturbed, Solo
  <2>2. ASSUME NEW c \in Loaded(gminy),
               UnitOf(c) \in DOMAIN files.bdl.value, files.bdl.value[UnitOf(c)] # Null
        PROVE  population_gmina[c] = files.bdl.value[UnitOf(c)]
    <3>1. NoUnit \notin DOMAIN files.bdl.value
      BY FilesAssumption DEF TypeOK
    <3>2. c \in Valued
      BY <2>2, <3>1 DEF Valued, Matched
    <3>. QED
      BY <2>1, <3>2 DEF GminaRows
  <2>3. ASSUME NEW n \in Loaded(nuts2) \cap DOMAIN files.eurostat,
               files.eurostat[n] \notin {Null, 0}
        PROVE  population_nuts2[n] = files.eurostat[n]
    <3>1. n \in Populated
      BY <2>3 DEF Populated, LoadInv, StageInv
    <3>. QED
      BY <2>1, <3>1 DEF Nuts2Rows
  <2>. QED
    BY <2>1, <2>2, <2>3, FewUnmatched
<1>2. Inv => TypeOK
  BY DEF Inv
<1>. QED
  BY <1>1, <1>2, InitInv, StepInv, InitLoad, StepLoad, PTL DEF Spec

-----------------------------------------------------------------------------
(* The index of BDL's units and the matching. *)

\* A set of natural numbers has a least one, and a greatest one if bounded.
LEMMA LeastNat == ASSUME NEW S, S \subseteq Nat, S # {}
                  PROVE  Min(S) \in S /\ \A j \in S : Min(S) <= j
<1>1. PICK m \in S : \A j \in S : <<j, m>> \notin OpToRel(<, Nat)
  BY NatLessThanWellFounded, WFMin
<1>2. \A j \in S : m <= j
  <2>. SUFFICES ASSUME NEW j \in S PROVE ~(j < m)
    OBVIOUS
  <2>. QED
    BY <1>1 DEF OpToRel
<1>3. \E x \in S : \A j \in S : x =< j
  BY <1>2
<1>. QED
  BY <1>3 DEF Min

LEMMA GreatestNat == ASSUME NEW n \in Nat, NEW S, S \subseteq 1 .. n, S # {}
                     PROVE  Max(S) \in S /\ \A j \in S : j <= Max(S)
<1>. DEFINE T == {n - x : x \in S}
<1>1. T \subseteq Nat /\ T # {}
  OBVIOUS
<1>2. PICK m \in T : \A j \in T : m <= j
  <2>. HIDE DEF T
  <2>. QED
    BY <1>1, LeastNat
<1>3. PICK x \in S : m = n - x
  OBVIOUS
<1>4. \A j \in S : n - j \in T /\ j \in Int
  OBVIOUS
<1>5. \A j \in S : x >= j
  <2>1. ASSUME NEW j \in S PROVE x >= j
    <3>1. m <= n - j /\ j \in Int /\ x \in Int
      BY <1>2, <1>4
    <3>. QED
      BY <1>3, <3>1
  <2>. QED
    BY <2>1
<1>6. \E y \in S : \A j \in S : y >= j
  BY <1>5
<1>7. Max(S) \in S /\ \A j \in S : Max(S) >= j
  BY <1>6 DEF Max
<1>. QED
  BY <1>4, <1>7

\* What the index of a file holds: the last unit of each key.
LEMMA IndexHolds ==
    ASSUME NEW us \in Seq(Unit)
    PROVE  /\ \A k : k \in DOMAIN UnitIndex(us) <=> Keyed(us, k) # {}
           /\ \A k \in DOMAIN UnitIndex(us) :
                /\ Max(Keyed(us, k)) \in Keyed(us, k)
                /\ \A j \in Keyed(us, k) : j <= Max(Keyed(us, k))
                /\ UnitIndex(us)[k] = us[Max(Keyed(us, k))].id
<1>1. \A k : k \in DOMAIN UnitIndex(us) <=> Keyed(us, k) # {}
  BY DEF UnitIndex, Keyed, ToSet
<1>2. \A k \in DOMAIN UnitIndex(us) : UnitIndex(us)[k] = us[Max(Keyed(us, k))].id
  BY DEF UnitIndex
<1>3. \A k : Keyed(us, k) \subseteq 1 .. Len(us)
  BY DEF Keyed
<1>4. Len(us) \in Nat
  OBVIOUS
<1>. QED
  BY <1>1, <1>2, <1>3, <1>4, GreatestNat

\* One more turn of the loop.
LEMMA KeyedMore ==
    ASSUME NEW us \in Seq(Unit), NEW u \in Unit, NEW k
    PROVE  Keyed(Append(us, u), k) =
                Keyed(us, k) \cup (IF Indexable(u) /\ Key(u) = k THEN {Len(us) + 1} ELSE {})
<1>. DEFINE more == Append(us, u)
<1>1. /\ DOMAIN more = 1 .. Len(us) + 1
      /\ DOMAIN us = 1 .. Len(us) /\ Len(us) \in Nat
      /\ more[Len(us) + 1] = u
      /\ \A i \in 1 .. Len(us) : more[i] = us[i]
  OBVIOUS
<1>2. DOMAIN more = DOMAIN us \cup {Len(us) + 1}
  BY <1>1
<1>. HIDE DEF more
<1>3. \A i \in DOMAIN us : more[i] = us[i]
  BY <1>1
<1>4. Keyed(more, k) =
        Keyed(us, k) \cup {i \in {Len(us) + 1} : Indexable(more[i]) /\ Key(more[i]) = k}
  BY <1>2, <1>3, Zenon DEF Keyed
<1>5. {i \in {Len(us) + 1} : Indexable(more[i]) /\ Key(more[i]) = k} =
        IF Indexable(u) /\ Key(u) = k THEN {Len(us) + 1} ELSE {}
  BY <1>1
<1>. QED
  BY <1>4, <1>5 DEF more

LEMMA IndexStep ==
    ASSUME NEW us \in Seq(Unit), NEW u \in Unit
    PROVE  AddUnit(UnitIndex(us), u) = UnitIndex(Append(us, u))
<1>. DEFINE more == Append(us, u)
            old  == UnitIndex(us)
            new  == UnitIndex(more)
            n    == Len(us) + 1
<1>1. more \in Seq(Unit) /\ more[n] = u /\ n \in Nat /\ \A i \in DOMAIN us : more[i] = us[i] /\ i < n
  OBVIOUS
<1>2. \A k : Keyed(more, k) = Keyed(us, k) \cup (IF Indexable(u) /\ Key(u) = k THEN {n} ELSE {})
  BY KeyedMore
<1>3. \A k : /\ k \in DOMAIN old <=> Keyed(us, k) # {}
             /\ k \in DOMAIN new <=> Keyed(more, k) # {}
  BY <1>1, IndexHolds
<1>4. \A k \in DOMAIN old : Max(Keyed(us, k)) \in DOMAIN us /\ old[k] = us[Max(Keyed(us, k))].id
  BY IndexHolds DEF Keyed
<1>5. \A k \in DOMAIN new : /\ Max(Keyed(more, k)) \in Keyed(more, k)
                            /\ \A j \in Keyed(more, k) : j <= Max(Keyed(more, k))
                            /\ new[k] = more[Max(Keyed(more, k))].id
  BY <1>1, IndexHolds
<1>6. /\ old = [k \in DOMAIN old |-> old[k]]
      /\ new = [k \in DOMAIN new |-> new[k]]
  BY DEF UnitIndex
<1>7. \A k : Keyed(us, k) \subseteq DOMAIN us
  BY DEF Keyed
<1>. HIDE DEF more, old, new, n
<1>8. ASSUME Indexable(u)
      PROVE  /\ DOMAIN new = DOMAIN old \cup {Key(u)}
             /\ new[Key(u)] = u.id
             /\ \A k \in DOMAIN old : k # Key(u) => new[k] = old[k]
  <2>1. DOMAIN new = DOMAIN old \cup {Key(u)}
    BY <1>2, <1>3, <1>8
  <2>2. \A k \in DOMAIN old : k # Key(u) => new[k] = old[k]
    <3>1. ASSUME NEW k \in DOMAIN old, k # Key(u) PROVE new[k] = old[k]
      <4>1. Keyed(more, k) = Keyed(us, k) /\ k \in DOMAIN new
        BY <1>2, <2>1, <3>1
      <4>. QED
        BY <1>1, <1>4, <1>5, <4>1
    <3>. QED
      BY <3>1
  <2>3. Max(Keyed(more, Key(u))) = n
    <3>. DEFINE S == Keyed(more, Key(u))
                m == Max(S)
    <3>1. n \in S /\ \A j \in S : j \in Nat /\ j <= n
      BY <1>1, <1>2, <1>7, <1>8
    <3>2. m \in S /\ \A j \in S : j <= m
      BY <1>5, <2>1
    <3>. HIDE DEF S, m
    <3>3. m = n
      BY <3>1, <3>2
    <3>. QED
      BY <3>3 DEF S, m
  <2>. QED
    BY <1>1, <1>5, <2>1, <2>2, <2>3
<1>9. ASSUME ~Indexable(u)
      PROVE  new = old
  <2>1. \A k : Keyed(more, k) = Keyed(us, k)
    BY <1>2, <1>9
  <2>2. DOMAIN new = DOMAIN old
    BY <1>3, <2>1
  <2>3. \A k \in DOMAIN old : new[k] = old[k]
    BY <1>1, <1>4, <1>5, <2>1, <2>2
  <2>. QED
    BY <1>6, <2>2, <2>3
<1>10. AddUnit(old, u) = new
  BY <1>6, <1>8, <1>9 DEF AddUnit
<1>. QED
  BY <1>10 DEF more, old, new
\* The loop over the units of the file builds the index of the last of each key.
LEMMA InitIndex == IndexInit => IndexInv
<1>. SUFFICES ASSUME IndexInit PROVE IndexInv
  OBVIOUS
<1>1. units = <<>> /\ index = <<>>
  BY DEF IndexInit
<1>2. <<>> \in Seq(Unit) /\ DOMAIN <<>> = {} /\ <<>> = [k \in {} |-> k]
  OBVIOUS
<1>3. UnitIndex(<<>>) = [k \in {} |-> <<>>[Max(Keyed(<<>>, k))].id]
  BY DEF UnitIndex, ToSet
<1>4. UnitIndex(<<>>) = <<>>
  BY <1>2, <1>3
<1>. QED
  BY <1>1, <1>2, <1>4 DEF IndexInv

LEMMA StepIndex == IndexInv /\ [IndexNext]_<<units, index>> => IndexInv'
<1>1. ASSUME IndexInv, ReadUnit PROVE IndexInv'
  <2>1. PICK u \in Unit : /\ \A i \in DOMAIN units : units[i].id # u.id
                          /\ units' = Append(units, u)
                          /\ index' = AddUnit(index, u)
    BY <1>1 DEF ReadUnit
  <2>2. units \in Seq(Unit) /\ index = UnitIndex(units)
    BY <1>1 DEF IndexInv
  <2>3. units' \in Seq(Unit)
    BY <2>1, <2>2
  <2>4. index' = UnitIndex(units')
    BY <2>1, <2>2, IndexStep
  <2>5. \A i, j \in DOMAIN units' : units'[i].id = units'[j].id => i = j
    <3>1. /\ \A i \in DOMAIN units' : \/ i \in DOMAIN units /\ units'[i] = units[i]
                                      \/ i = Len(units) + 1 /\ units'[i] = u
      BY <2>1, <2>2
    <3>. QED
      BY <1>1, <2>1, <3>1 DEF IndexInv
  <2>. QED
    BY <2>3, <2>4, <2>5 DEF IndexInv
<1>2. ASSUME IndexInv, UNCHANGED <<units, index>> PROVE IndexInv'
  BY <1>2 DEF IndexInv
<1>. QED
  BY <1>1, <1>2 DEF IndexNext

THEOREM IndexIsOfTheLast == IndexSpec => []IndexInv
BY InitIndex, StepIndex, PTL DEF IndexSpec

\* Under a gmina's name and some kind the index has the units of that kind among
\* its namesakes.
LEMMA KeyedIs ==
    ASSUME NEW g, NEW kind, NEW i \in DOMAIN units
    PROVE  i \in Keyed(units, KindKey(g, kind)) <=>
                SameName(units[i], g) /\ units[i].kind = kind
BY DEF Keyed, KindKey, Key, SameName

\* A chain has no kind twice.
LEMMA ChainFacts ==
    ASSUME NEW g
    PROVE  /\ DOMAIN ChainOf(g) = 1 .. Len(ChainOf(g)) /\ Len(ChainOf(g)) \in Nat
           /\ \A i, j \in DOMAIN ChainOf(g) : ChainOf(g)[i] = ChainOf(g)[j] => i = j
<1>1. CASE g.rodzaj \in DOMAIN KindChain
  <2>1. g.rodzaj \in 1 .. 5
    BY <1>1 DEF KindChain
  <2>2. ChainOf(g) \in {<<1, 4>>, <<2, 5>>, <<3>>, <<4, 1>>, <<5, 2>>}
    BY <2>1 DEF ChainOf, KindChain
  <2>. QED
    BY <2>2
<1>2. CASE g.rodzaj \notin DOMAIN KindChain
  BY <1>2 DEF ChainOf
<1>. QED
  BY <1>1, <1>2

LEMMA PreferenceIs ==
    ASSUME NEW g
    PROVE  /\ \A i \in DOMAIN ChainOf(g) : Preference(ChainOf(g)[i], g) = i
           /\ \A kind : kind \notin ToSet(ChainOf(g)) => Preference(kind, g) = Len(ChainOf(g)) + 1
           /\ \A kind : Preference(kind, g) \in Nat
<1>. DEFINE chain == ChainOf(g)
<1>1. /\ DOMAIN chain = 1 .. Len(chain) /\ Len(chain) \in Nat
      /\ \A i, j \in DOMAIN chain : chain[i] = chain[j] => i = j
  BY ChainFacts
<1>2. \A kind : kind \in ToSet(chain) <=> \E i \in DOMAIN chain : chain[i] = kind
  BY DEF ToSet
<1>3. \A kind : Preference(kind, g) = IF kind \in ToSet(chain)
                                      THEN CHOOSE i \in DOMAIN chain : chain[i] = kind
                                      ELSE Len(chain) + 1
  BY DEF Preference
<1>. HIDE DEF chain
<1>4. ASSUME NEW kind, kind \in ToSet(chain)
      PROVE  Preference(kind, g) \in DOMAIN chain /\ chain[Preference(kind, g)] = kind
  <2>1. \E i \in DOMAIN chain : chain[i] = kind
    BY <1>2, <1>4
  <2>. QED
    BY <1>3, <1>4, <2>1
<1>5. \A i \in DOMAIN chain : Preference(chain[i], g) = i
  BY <1>1, <1>2, <1>4
<1>6. \A kind : kind \notin ToSet(chain) => Preference(kind, g) = Len(chain) + 1
  BY <1>3
<1>7. \A kind : Preference(kind, g) \in Nat
  BY <1>1, <1>4, <1>6
<1>. QED
  BY <1>5, <1>6, <1>7 DEF chain

LEMMA Hit ==
    ASSUME IndexInv, NEW g, NEW j \in DOMAIN units, SameName(units[j], g)
    PROVE  /\ Key(units[j]) = KindKey(g, units[j].kind)
           /\ Key(units[j]) \in DOMAIN index
           /\ j \in Keyed(units, Key(units[j]))
           /\ \A p \in DOMAIN ChainOf(g) : units[j].kind = ChainOf(g)[p] => p \in Hits(index, g)
<1>1. Key(units[j]) = KindKey(g, units[j].kind)
  BY DEF Key, KindKey, SameName
<1>2. j \in Keyed(units, Key(units[j]))
  BY DEF Keyed, SameName
<1>3. Key(units[j]) \in DOMAIN index
  BY <1>2, IndexHolds DEF IndexInv
<1>. QED
  BY <1>1, <1>2, <1>3 DEF Hits

LEMMA HitMatch ==
    ASSUME IndexInv, NEW g, Hits(index, g) # {}
    PROVE  LET h == Min(Hits(index, g))
           IN  /\ h \in Hits(index, g) /\ \A p \in Hits(index, g) : h <= p
               /\ \E i \in DOMAIN units :
                    /\ units[i].id = Match(index, g)
                    /\ SameName(units[i], g) /\ units[i].kind = ChainOf(g)[h]
                    /\ \A j \in DOMAIN units :
                            SameName(units[j], g) /\ units[j].kind = units[i].kind => j <= i
<1>. DEFINE hits == Hits(index, g)
            h == Min(hits)
            k == KindKey(g, ChainOf(g)[h])
            i == Max(Keyed(units, k))
<1>1. hits \subseteq Nat
  BY ChainFacts DEF Hits
<1>2. h \in hits /\ \A p \in hits : h <= p
  <2>. HIDE DEF hits
  <2>. QED
    BY <1>1, LeastNat DEF hits
<1>3. k \in DOMAIN index
  BY <1>2 DEF Hits
<1>4. Match(index, g) = index[k]
  BY DEF Match
<1>5. i \in Keyed(units, k) /\ (\A j \in Keyed(units, k) : j <= i) /\ units[i].id = index[k]
  <2>. HIDE DEF k
  <2>. QED
    BY <1>3, IndexHolds DEF IndexInv
<1>6. i \in DOMAIN units
  BY <1>5 DEF Keyed
<1>. HIDE DEF i, hits, h
<1>7. SameName(units[i], g) /\ units[i].kind = ChainOf(g)[h]
  BY <1>5, <1>6, KeyedIs
<1>8. \A j \in DOMAIN units : SameName(units[j], g) /\ units[j].kind = units[i].kind => j <= i
  BY <1>5, <1>7, KeyedIs
<1>9. units[i].id = Match(index, g)
  BY <1>4, <1>5
<1>. QED
  BY <1>2, <1>6, <1>7, <1>8, <1>9 DEF h, hits

\* Without one the match is the only candidate, whose key is that of a namesake.
LEMMA CandidatesAre ==
    ASSUME IndexInv, NEW g
    PROVE  /\ IsFiniteSet(Candidates(index, g))
           /\ \A id \in Candidates(index, g) : \E i \in DOMAIN units :
                /\ units[i].id = id /\ SameName(units[i], g)
                /\ index[Key(units[i])] = id
                /\ \A j \in Keyed(units, Key(units[i])) : j <= i
           /\ \A j \in DOMAIN units :
                SameName(units[j], g) => index[Key(units[j])] \in Candidates(index, g)
<1>1. ASSUME NEW id \in Candidates(index, g)
      PROVE  \E i \in DOMAIN units : /\ units[i].id = id /\ SameName(units[i], g)
                                     /\ index[Key(units[i])] = id
                                     /\ \A j \in Keyed(units, Key(units[i])) : j <= i
  <2>1. PICK k \in DOMAIN index : k[1] = g.voj /\ k[2] = Normalized[g.name] /\ index[k] = id
    BY <1>1 DEF Candidates
  <2>. DEFINE i == Max(Keyed(units, k))
  <2>2. i \in Keyed(units, k) /\ (\A j \in Keyed(units, k) : j <= i) /\ units[i].id = index[k]
    BY <2>1, IndexHolds DEF IndexInv
  <2>. HIDE DEF i
  <2>3. i \in DOMAIN units /\ Indexable(units[i]) /\ Key(units[i]) = k
    BY <2>2 DEF Keyed
  <2>4. SameName(units[i], g)
    BY <2>1, <2>3 DEF SameName, Key
  <2>. QED
    BY <2>1, <2>2, <2>3, <2>4
<1>2. ASSUME NEW j \in DOMAIN units, SameName(units[j], g)
      PROVE  index[Key(units[j])] \in Candidates(index, g)
  <2>1. Key(units[j]) \in DOMAIN index
    BY <1>2, Hit
  <2>2. Key(units[j])[1] = g.voj /\ Key(units[j])[2] = Normalized[g.name]
    BY <1>2 DEF SameName, Key
  <2>. QED
    BY <2>1, <2>2 DEF Candidates
<1>3. IsFiniteSet(Candidates(index, g))
  <2>1. DOMAIN units = 1 .. Len(units) /\ Len(units) \in Nat
    BY DEF IndexInv
  <2>2. IsFiniteSet(1 .. Len(units))
    BY <2>1, FS_Interval
  <2>3. IsFiniteSet({units[i].id : i \in DOMAIN units})
    <3>. DEFINE ids == {units[i].id : i \in DOMAIN units}
    <3>1. [i \in DOMAIN units |-> units[i].id] \in Surjection(DOMAIN units, ids)
      BY DEF Surjection
    <3>. HIDE DEF ids
    <3>2. IsFiniteSet(ids)
      BY <2>1, <2>2, <3>1, FS_Surjection
    <3>. QED
      BY <3>2 DEF ids
  <2>4. Candidates(index, g) \subseteq {units[i].id : i \in DOMAIN units}
    BY <1>1
  <2>. QED
    BY <2>3, <2>4, FS_Subset
<1>. QED
  BY <1>1, <1>2, <1>3

LEMMA FallbackMatch ==
    ASSUME IndexInv, NEW g, Hits(index, g) = {}, Match(index, g) # NoUnit
    PROVE  Candidates(index, g) = {Match(index, g)}
<1>1. /\ Cardinality(Candidates(index, g)) = 1
      /\ Match(index, g) = CHOOSE id \in Candidates(index, g) : TRUE
  BY DEF Match
<1>2. PICK id : Candidates(index, g) = {id}
  BY <1>1, CandidatesAre, FS_Singleton
<1>. QED
  BY <1>1, <1>2

LEMMA OneCandidate ==
    ASSUME NEW g, NEW id, Candidates(index, g) = {id}, Hits(index, g) = {}
    PROVE  Match(index, g) = id
<1>1. Cardinality(Candidates(index, g)) = 1
  BY FS_Singleton
<1>2. Match(index, g) = CHOOSE x \in Candidates(index, g) : TRUE
  BY <1>1 DEF Match
<1>. QED
  BY <1>2

\* What every gmina is matched with is the last unit of the kind preferred among
\* its namesakes, for any file of units with ids of their own.
THEOREM MatchedArePreferred == IndexSpec => []MatchIsPreferred
<1>1. ASSUME IndexInv PROVE MatchIsPreferred
  <2>. SUFFICES ASSUME NEW g \in Places, Match(index, g) # NoUnit
                PROVE  \E i \in DOMAIN units :
                        /\ units[i].id = Match(index, g)
                        /\ SameName(units[i], g)
                        /\ \A j \in DOMAIN units : SameName(units[j], g) =>
                            /\ Preference(units[i].kind, g) <= Preference(units[j].kind, g)
                            /\ units[j].kind = units[i].kind => j <= i
    BY DEF MatchIsPreferred
  <2>1. CASE Hits(index, g) # {}
    <3>. DEFINE h == Min(Hits(index, g))
    <3>1. PICK i \in DOMAIN units :
                /\ units[i].id = Match(index, g)
                /\ SameName(units[i], g) /\ units[i].kind = ChainOf(g)[h]
                /\ \A j \in DOMAIN units :
                        SameName(units[j], g) /\ units[j].kind = units[i].kind => j <= i
      BY <1>1, <2>1, HitMatch
    <3>2. h \in Hits(index, g) /\ \A p \in Hits(index, g) : h <= p
      BY <1>1, <2>1, HitMatch
    <3>3. h \in DOMAIN ChainOf(g)
      BY <3>2 DEF Hits
    <3>. HIDE DEF h
    <3>4. Preference(units[i].kind, g) = h
      BY <3>1, <3>3, PreferenceIs
    <3>5. ASSUME NEW j \in DOMAIN units, SameName(units[j], g)
          PROVE  h <= Preference(units[j].kind, g)
      <4>1. CASE units[j].kind \in ToSet(ChainOf(g))
        <5>1. PICK p \in DOMAIN ChainOf(g) : units[j].kind = ChainOf(g)[p]
          BY <4>1 DEF ToSet
        <5>2. p \in Hits(index, g)
          BY <1>1, <3>5, <5>1, Hit
        <5>3. Preference(units[j].kind, g) = p
          BY <5>1, PreferenceIs
        <5>. QED
          BY <3>2, <5>2, <5>3
      <4>2. CASE units[j].kind \notin ToSet(ChainOf(g))
        <5>1. Preference(units[j].kind, g) = Len(ChainOf(g)) + 1
          BY <4>2, PreferenceIs
        <5>2. h \in 1 .. Len(ChainOf(g)) /\ Len(ChainOf(g)) \in Nat
          BY <3>3, ChainFacts
        <5>. QED
          BY <5>1, <5>2
      <4>. QED
        BY <4>1, <4>2
    <3>. QED
      BY <3>1, <3>4, <3>5
  <2>2. CASE Hits(index, g) = {}
    <3>. DEFINE id == Match(index, g)
    <3>1. Candidates(index, g) = {id}
      BY <1>1, <2>2, FallbackMatch
    <3>2. PICK i \in DOMAIN units : /\ units[i].id = id /\ SameName(units[i], g)
                                    /\ \A j \in Keyed(units, Key(units[i])) : j <= i
      BY <1>1, <3>1, CandidatesAre
    <3>. HIDE DEF id
    <3>3. ASSUME NEW j \in DOMAIN units, SameName(units[j], g)
          PROVE  units[j].kind = units[i].kind /\ j <= i
      <4>. DEFINE k == Key(units[j])
                  l == Max(Keyed(units, k))
      <4>1. k \in DOMAIN index /\ j \in Keyed(units, k) /\ index[k] = id
        BY <1>1, <3>1, <3>3, Hit, CandidatesAre
      <4>2. l \in Keyed(units, k) /\ index[k] = units[l].id
        <5>. HIDE DEF k
        <5>. QED
          BY <1>1, <4>1, IndexHolds DEF IndexInv
      <4>3. l \in DOMAIN units /\ Key(units[l]) = k
        BY <4>2 DEF Keyed
      <4>. HIDE DEF l
      <4>4. l = i
        BY <1>1, <3>2, <4>1, <4>2, <4>3 DEF IndexInv
      <4>5. units[j].kind = units[i].kind
        BY <4>3, <4>4 DEF Key
      <4>. QED
        BY <3>2, <4>1, <4>3, <4>4, <4>5
    <3>4. Preference(units[i].kind, g) <= Preference(units[i].kind, g)
      <4>1. \A n \in Nat : n <= n
        OBVIOUS
      <4>. QED
        BY <4>1, PreferenceIs, Zenon
    <3>. QED
      BY <3>2, <3>3, <3>4 DEF id
  <2>. QED
    BY <2>1, <2>2
<1>. QED
  BY <1>1, IndexIsOfTheLast, PTL

\* Without a match a gmina has no namesake of a kind of its chain, and not all
\* its namesakes are of one kind.
LEMMA UnmatchedKinds ==
    ASSUME IndexInv, NEW g \in Places, Match(index, g) = NoUnit
    PROVE  LET kinds == {u.kind : u \in Namesakes(units, g)}
           IN  /\ kinds \cap ToSet(ChainOf(g)) = {}
               /\ \A kind : kinds # {kind}
<1>. DEFINE kinds == {u.kind : u \in Namesakes(units, g)}
<1>1. \A i \in DOMAIN units : units[i].id # NoUnit
  <2>1. ASSUME NEW i \in DOMAIN units PROVE units[i] \in Unit
    BY DEF IndexInv
  <2>. QED
    BY <2>1, UnitIdsAssumption DEF Unit
<1>2. Hits(index, g) = {}
  BY <1>1, HitMatch
<1>3. \A kind \in kinds : \E j \in DOMAIN units :
              SameName(units[j], g) /\ units[j].kind = kind
  BY DEF Namesakes, ToSet
<1>4. \A j \in DOMAIN units : SameName(units[j], g) => units[j].kind \in kinds
  BY DEF Namesakes, ToSet
<1>. HIDE DEF kinds
<1>5. kinds \cap ToSet(ChainOf(g)) = {}
  <2>1. ASSUME NEW kind \in kinds, NEW p \in DOMAIN ChainOf(g), kind = ChainOf(g)[p]
        PROVE  FALSE
    BY <1>2, <1>3, <2>1, Hit
  <2>. QED
    BY <2>1 DEF ToSet
<1>6. ASSUME NEW kind, kinds = {kind} PROVE FALSE
  <2>1. PICK j \in DOMAIN units : SameName(units[j], g) /\ units[j].kind = kind
    BY <1>3, <1>6
  <2>. DEFINE id == index[KindKey(g, kind)]
  <2>2. id \in Candidates(index, g)
    BY <2>1, Hit, CandidatesAre
  <2>3. ASSUME NEW x \in Candidates(index, g) PROVE x = id
    <3>1. PICK i \in DOMAIN units : SameName(units[i], g) /\ index[Key(units[i])] = x
      BY CandidatesAre
    <3>2. units[i].kind = kind
      BY <1>4, <1>6, <3>1
    <3>3. Key(units[i]) = KindKey(g, kind)
      BY <3>1, <3>2, Hit
    <3>. QED
      BY <3>1, <3>3
  <2>4. \E i \in DOMAIN units : units[i].id = id
    BY <2>2, CandidatesAre
  <2>. HIDE DEF id
  <2>5. Candidates(index, g) = {id}
    BY <2>2, <2>3
  <2>6. Match(index, g) = id
    BY <1>2, <2>5, OneCandidate
  <2>. QED
    BY <1>1, <2>4, <2>6
<1>. QED
  BY <1>5, <1>6 DEF kinds

\* What the index holds under a unit's key is the id of a unit with that key.
LEMMA LastOfKey ==
    ASSUME IndexInv, NEW g, NEW j \in DOMAIN units, SameName(units[j], g)
    PROVE  \E i \in DOMAIN units : /\ units[i].id = index[Key(units[j])]
                                  /\ Key(units[i]) = Key(units[j])
<1>. DEFINE k == Key(units[j])
<1>1. k \in DOMAIN index
  BY Hit
<1>. HIDE DEF k
<1>2. Max(Keyed(units, k)) \in Keyed(units, k) /\ units[Max(Keyed(units, k))].id = index[k]
  BY <1>1, IndexHolds DEF IndexInv
<1>3. \A i \in Keyed(units, k) : i \in DOMAIN units /\ Key(units[i]) = k
  BY DEF Keyed
<1>. QED
  BY <1>2, <1>3 DEF k

\* A hit is a namesake of a kind of the chain.
LEMMA ChainedHit ==
    ASSUME IndexInv, NEW g, Hits(index, g) # {}
    PROVE  \E u \in Namesakes(units, g) : u.kind \in ToSet(ChainOf(g))
<1>1. LET h == Min(Hits(index, g))
      IN  /\ h \in DOMAIN ChainOf(g)
          /\ \E i \in DOMAIN units : SameName(units[i], g) /\ units[i].kind = ChainOf(g)[h]
  BY HitMatch DEF Hits
<1>. QED
  BY <1>1 DEF Namesakes, ToSet

\* A gmina with a namesake of a kind of its chain, or with one namesake alone, is
\* matched; one whose namesakes are of several kinds, none of its chain, is not.
THEOREM UniqueNamesAreMatched == IndexSpec => []UniqueNameIsMatched
<1>1. ASSUME IndexInv PROVE UniqueNameIsMatched
  <2>. SUFFICES ASSUME NEW g \in Places
                PROVE  LET near    == Namesakes(units, g)
                           chained == \E u \in near : u.kind \in ToSet(ChainOf(g))
                       IN  /\ chained \/ Cardinality(near) = 1 => Match(index, g) # NoUnit
                           /\ ~chained /\ (\E u, v \in near : u.kind # v.kind)
                                => Match(index, g) = NoUnit
    BY DEF UniqueNameIsMatched
  <2>. DEFINE near == Namesakes(units, g)
  <2>1. ASSUME Match(index, g) = NoUnit
        PROVE  /\ \A u \in near : u.kind \notin ToSet(ChainOf(g))
               /\ \A u : near # {u}
    <3>. DEFINE kinds == {u.kind : u \in near}
    <3>1. kinds \cap ToSet(ChainOf(g)) = {} /\ \A kind : kinds # {kind}
      BY <1>1, <2>1, UnmatchedKinds
    <3>2. \A u \in near : u.kind \notin ToSet(ChainOf(g))
      BY <3>1
    <3>3. ASSUME NEW u, near = {u} PROVE FALSE
      <4>1. kinds = {u.kind}
        BY <3>3
      <4>. QED
        BY <3>1, <4>1
    <3>. QED
      BY <3>2, <3>3
  <2>2. Cardinality(near) = 1 => \E u : near = {u}
    <3>1. DOMAIN units = 1 .. Len(units) /\ Len(units) \in Nat
      BY <1>1 DEF IndexInv
    <3>. DEFINE all == {units[i] : i \in DOMAIN units}
    <3>2. IsFiniteSet(DOMAIN units)
      BY <3>1, FS_Interval
    <3>3. units \in Surjection(DOMAIN units, all)
      BY <1>1 DEF Surjection, IndexInv
    <3>4. near \subseteq all
      BY DEF Namesakes, ToSet
    <3>. HIDE DEF all, near
    <3>5. IsFiniteSet(all)
      BY <3>2, <3>3, FS_Surjection
    <3>6. IsFiniteSet(near)
      BY <3>4, <3>5, FS_Subset
    <3>. QED
      BY <3>6, FS_Singleton
  <2>3. ASSUME \A u \in near : u.kind \notin ToSet(ChainOf(g)),
               NEW u \in near, NEW v \in near, u.kind # v.kind
        PROVE  Match(index, g) = NoUnit
    <3>1. PICK i \in DOMAIN units : units[i] = u /\ SameName(units[i], g)
      BY DEF Namesakes, ToSet
    <3>2. PICK j \in DOMAIN units : units[j] = v /\ SameName(units[j], g)
      BY DEF Namesakes, ToSet
    <3>. DEFINE x == index[Key(units[i])]
                y == index[Key(units[j])]
    <3>3. x \in Candidates(index, g) /\ y \in Candidates(index, g)
      BY <1>1, <3>1, <3>2, CandidatesAre
    <3>4. \A k \in DOMAIN units : SameName(units[k], g) =>
                Key(units[k]) = KindKey(g, units[k].kind)
      BY <1>1, Hit
    <3>5. x # y
      <4>1. \E a \in DOMAIN units : units[a].id = x /\ Key(units[a]) = Key(units[i])
        BY <1>1, <3>1, LastOfKey
      <4>2. \E b \in DOMAIN units : units[b].id = y /\ Key(units[b]) = Key(units[j])
        BY <1>1, <3>2, LastOfKey
      <4>3. Key(units[i]) # Key(units[j])
        BY <2>3, <3>1, <3>2 DEF Key
      <4>. HIDE DEF x, y
      <4>. QED
        BY <1>1, <4>1, <4>2, <4>3 DEF IndexInv
    <3>6. Hits(index, g) = {}
      BY <1>1, <2>3, ChainedHit
    <3>7. Cardinality(Candidates(index, g)) # 1
      <4>1. IsFiniteSet(Candidates(index, g))
        BY <1>1, CandidatesAre
      <4>. HIDE DEF x, y
      <4>. QED
        BY <3>3, <3>5, <4>1, FS_Singleton
    <3>. QED
      BY <3>6, <3>7 DEF Match
  <2>4. \A u \in near : u.kind \in ToSet(ChainOf(g)) => Match(index, g) # NoUnit
    BY <2>1
  <2>5. Cardinality(near) = 1 => Match(index, g) # NoUnit
    BY <2>1, <2>2
  <2>. QED
    BY <2>3, <2>4, <2>5
<1>. QED
  BY <1>1, IndexIsOfTheLast, PTL

\* A town and the rural gmina of the same name are never given the same unit
\* when each has a namesake of a kind of its own chain.
THEOREM TownAndCountryAreApart == IndexSpec => []TownAndCountryApart
<1>1. ASSUME IndexInv PROVE TownAndCountryApart
  <2>. SUFFICES ASSUME NEW g \in Places, NEW h \in Places, g.rodzaj = 1, h.rodzaj = 2,
                       \A x \in {g, h} : \E u \in Namesakes(units, x) : u.kind \in ToSet(ChainOf(x))
                PROVE  Match(index, g) # Match(index, h)
    BY DEF TownAndCountryApart
  <2>1. ASSUME NEW x \in {g, h}
        PROVE  \E i \in DOMAIN units : /\ units[i].id = Match(index, x)
                                       /\ units[i].kind \in ToSet(ChainOf(x))
    <3>1. PICK j \in DOMAIN units : SameName(units[j], x) /\ units[j].kind \in ToSet(ChainOf(x))
      BY <2>1 DEF Namesakes, ToSet
    <3>2. PICK p \in DOMAIN ChainOf(x) : units[j].kind = ChainOf(x)[p]
      BY <3>1 DEF ToSet
    <3>3. Hits(index, x) # {}
      BY <1>1, <3>1, <3>2, Hit
    <3>4. Min(Hits(index, x)) \in DOMAIN ChainOf(x)
      BY <1>1, <3>3, HitMatch DEF Hits
    <3>5. PICK i \in DOMAIN units : /\ units[i].id = Match(index, x)
                                    /\ units[i].kind = ChainOf(x)[Min(Hits(index, x))]
      BY <1>1, <3>3, HitMatch
    <3>. QED
      BY <3>4, <3>5 DEF ToSet
  <2>2. PICK i \in DOMAIN units : units[i].id = Match(index, g) /\ units[i].kind \in ToSet(ChainOf(g))
    BY <2>1
  <2>3. PICK j \in DOMAIN units : units[j].id = Match(index, h) /\ units[j].kind \in ToSet(ChainOf(h))
    BY <2>1
  <2>4. ToSet(ChainOf(g)) = {1, 4} /\ ToSet(ChainOf(h)) = {2, 5}
    <3>1. ChainOf(g) = <<1, 4>> /\ ChainOf(h) = <<2, 5>>
      BY DEF ChainOf, KindChain
    <3>. QED
      BY <3>1 DEF ToSet
  <2>5. units[i].kind # units[j].kind
    BY <2>2, <2>3, <2>4
  <2>. QED
    BY <1>1, <2>2, <2>3, <2>5 DEF IndexInv
<1>. QED
  BY <1>1, IndexIsOfTheLast, PTL
=============================================================================
