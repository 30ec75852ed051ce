---------------------------- MODULE ReferenceData ----------------------------
(***************************************************************************)
(* The reference tables and the CLI options that load them: --load-prg     *)
(* (boundaries of gminy through a staging table), --load-nuts2 and         *)
(* --load-population (BDL for gminy, then Eurostat for NUTS-2 regions).    *)
(*                                                                         *)
(* Loaders are processes of their own.  Nothing orders them, they may      *)
(* overlap or die between any two transactions, and the files they read    *)
(* may be replaced by newer ones in between.  A transaction, and the       *)
(* reading of a file into memory, are one step.                            *)
(*                                                                         *)
(* Of a gmina the columns that later loads and joins read are kept: name,  *)
(* boundary and area.  Populations have one year, the newest.              *)
(***************************************************************************)
EXTENDS BdlMatch, FiniteSets

CONSTANTS
    Loaders,       \* loading processes
    Codes,         \* jpt_kod_je of features
    IsTeryt,       \* code -> it is seven characters long
    VojOf, RodzajOf, \* the digits of a code
    Regions,       \* NUTS_ID of features
    IsNuts2,       \* region -> its code is four characters long
    Names, Shapes,
    AreaOf,        \* shape -> ST_Area
    Shapefiles,    \* PRG files there may be: sets of features
    BdlFiles,      \* BDL files: [units, value]
    NutsFiles,     \* Eurostat boundaries: region -> shape
    EurostatFiles, \* Eurostat populations: region -> value
    MinMatchRate,  \* percent of gminy that must be matched, 95
    Null, Absent,  \* SQL NULL; no row, or no table
    MaxDownloads   \* bound: files replaced by newer ones

ASSUME LoadersAssumption == Loaders # {}
ASSUME CodesAssumption ==
    /\ IsFiniteSet(Codes)
    /\ IsTeryt \in [Codes -> BOOLEAN]
    /\ DOMAIN AreaOf = Shapes
    /\ Null \notin {AreaOf[s] : s \in Shapes}
    /\ Absent \notin [name : Names, shape : Shapes, area : {AreaOf[s] : s \in Shapes} \cup {Null}]
ASSUME RegionsAssumption ==
    /\ IsNuts2 \in [Regions -> BOOLEAN]
    /\ Absent \notin Shapes
ASSUME FilesAssumption ==
    /\ \A file \in Shapefiles : file \subseteq [code : Codes, name : Names, shape : Shapes]
    /\ Absent \notin Shapefiles
    /\ \A file \in NutsFiles :
            DOMAIN file \subseteq Regions /\ \A n \in DOMAIN file : file[n] \in Shapes
    /\ \A file \in EurostatFiles : DOMAIN file \subseteq Regions
    /\ \A file \in BdlFiles : NoUnit \notin DOMAIN file.value
ASSUME MinMatchRateAssumption == MinMatchRate \in 0 .. 100
ASSUME MaxDownloadsAssumption == MaxDownloads \in Nat

VARIABLES
    files,      \* on disk: [prg, bdl, nuts, eurostat]
    downloads,  \* number of files replaced (bounded by MaxDownloads)
    staging,    \* table staging.gminy_prg: a set of features, or Absent
    gminy,      \* code -> [name, shape, area], or Absent
    nuts2,      \* region -> shape, or Absent
    population_gmina,  \* code -> value, or Absent
    population_nuts2,  \* region -> value, or Absent
    stage,      \* what each loader does next
    rows,       \* rows a loader has prepared from a file
    option,     \* the option each loader was started with
    disturbed   \* observation only: loaders not alone with their files since they started

database == <<staging, gminy, nuts2, population_gmina, population_nuts2>>
disk     == <<files, downloads>>
vars     == <<disk, database, stage, option, rows, disturbed>>

NoRows == <<>>

Stopped == {"idle", "done", "failed", "raised"}
Active  == {r \in Loaders : stage[r] \notin Stopped}

\* Mutant: the table is replaced, not updated.
Replaced(table, new) == new

\* INSERT .. ON CONFLICT DO UPDATE of a key -> value map.
Upserted(table, new) ==
    [k \in DOMAIN table |-> IF k \in DOMAIN new THEN new[k] ELSE table[k]]

Loaded(table) == {k \in DOMAIN table : table[k] # Absent}

Init ==
    /\ files \in [prg : Shapefiles, bdl : BdlFiles, nuts : NutsFiles, eurostat : EurostatFiles]
    /\ downloads = 0
    /\ staging = Absent
    /\ gminy = [c \in Codes |-> Absent]
    /\ nuts2 = [n \in Regions |-> Absent]
    /\ population_gmina = [c \in Codes |-> Absent]
    /\ population_nuts2 = [n \in Regions |-> Absent]
    /\ stage = [r \in Loaders |-> "idle"]
    /\ rows = [r \in Loaders |-> NoRows]
    /\ option = [r \in Loaders |-> "none"]
    /\ disturbed = {}

-----------------------------------------------------------------------------

Goto(r, next) == stage' = [stage EXCEPT ![r] = next]

Exit(r, how) ==
    /\ Goto(r, how)
    /\ rows' = [rows EXCEPT ![r] = NoRows]

\* Where each option starts.  The merge may also be started by itself, after a
\* staging table that load_prg.sh has written.
First == [prg |-> "overwrite", merge |-> "merge", nuts2 |-> "nuts2", population |-> "match"]

Start(r) ==
    /\ stage[r] \in Stopped
    /\ \E o \in DOMAIN First :
            option' = [option EXCEPT ![r] = o] /\ Goto(r, First[o])
    /\ disturbed' = IF Active = {} THEN Loaders \ {r} ELSE Loaders
    /\ UNCHANGED <<disk, database, rows>>

\* The process dies, its file is not there, ogr2ogr or a statement fails.
Abort(r) ==
    /\ r \in Active
    /\ Exit(r, "failed")
    /\ UNCHANGED <<disk, database, option, disturbed>>

-----------------------------------------------------------------------------
(* Boundaries of gminy. *)

\* ogr2ogr -overwrite drops the layer it is about to write ..
DropStaging(r) ==
    /\ stage[r] = "overwrite"
    /\ staging' = Absent
    /\ Goto(r, "copy")
    /\ UNCHANGED <<disk, gminy, nuts2, population_gmina, population_nuts2,
                   option, rows, disturbed>>

\* .. and fills a new one.  A layer of that name makes it fail: another
\* loader came first.
CopyStaging(r) ==
    /\ stage[r] = "copy"
    /\ \/ /\ staging = Absent
          /\ staging' = files.prg
          /\ Goto(r, "merge")
          /\ UNCHANGED rows
       \/ /\ staging # Absent
          /\ Exit(r, "raised")
          /\ UNCHANGED staging
    /\ UNCHANGED <<disk, gminy, nuts2, population_gmina, population_nuts2,
                   option, disturbed>>

\* The features that are gminy.
Mergeable == {f \in staging : IsTeryt[f.code]}

Feature(c) == CHOOSE f \in Mergeable : f.code = c

\* Mutant: the geometry missing from the SET list.
MergedKeepsGeometry ==
    [c \in Codes |->
        IF c \notin {f.code : f \in Mergeable} THEN gminy[c]
        ELSE [name  |-> Feature(c).name,
              shape |-> IF gminy[c] = Absent THEN Feature(c).shape ELSE gminy[c].shape,
              area  |-> IF gminy[c] = Absent THEN Null ELSE gminy[c].area]]

\* merge_staging_to_gminy.  area_km2 is not in the SET list.
Merged ==
    [c \in Codes |->
        IF c \notin {f.code : f \in Mergeable} THEN gminy[c]
        ELSE [name  |-> Feature(c).name,
              shape |-> Feature(c).shape,
              area  |-> IF gminy[c] = Absent THEN Null ELSE gminy[c].area]]

\* Postgres refuses a statement over a missing table, and one that comes to
\* a row twice.
IsMergeable ==
    staging # Absent /\ \A f, g \in Mergeable : f.code = g.code => f = g

Merge(r) ==
    /\ stage[r] = "merge"
    /\ \/ /\ IsMergeable
          /\ gminy' = Merged
          /\ Goto(r, "areas")
          /\ UNCHANGED rows
       \/ /\ ~IsMergeable
          /\ Exit(r, "raised")
          /\ UNCHANGED gminy
    /\ UNCHANGED <<disk, staging, nuts2, population_gmina, population_nuts2,
                   option, disturbed>>

\* compute_areas
ComputeAreas(r) ==
    /\ stage[r] = "areas"
    /\ gminy' = [c \in Codes |->
                    IF gminy[c] # Absent /\ gminy[c].area = Null
                    THEN [gminy[c] EXCEPT !.area = AreaOf[gminy[c].shape]] ELSE gminy[c]]
    /\ Goto(r, "done")
    /\ UNCHANGED <<disk, staging, nuts2, population_gmina, population_nuts2,
                   option, rows, disturbed>>

-----------------------------------------------------------------------------
(* NUTS-2 regions and populations. *)

\* load_nuts2_boundaries
LoadNuts2(r) ==
    /\ stage[r] = "nuts2"
    /\ nuts2' = Upserted(nuts2, [n \in {n \in DOMAIN files.nuts : IsNuts2[n]} |-> files.nuts[n]])
    /\ Goto(r, "done")
    /\ UNCHANGED <<disk, staging, gminy, population_gmina, population_nuts2,
                   option, rows, disturbed>>

UnitOf(c) ==
    Match(UnitIndex(files.bdl.units),
          [voj |-> VojOf[c], name |-> gminy[c].name, rodzaj |-> RodzajOf[c]])

Matched == {c \in Loaded(gminy) : UnitOf(c) # NoUnit}

\* Mutant: any match will do.
SomeMatched == Matched # {}

EnoughMatched ==
    /\ Loaded(gminy) # {}
    /\ Cardinality(Matched) * 100 >= MinMatchRate * Cardinality(Loaded(gminy))

\* Gminy whose unit has a value in the data file.
Valued == {c \in Matched : UnitOf(c) \in DOMAIN files.bdl.value
                          /\ files.bdl.value[UnitOf(c)] # Null}

\* load_population_gmina up to its insert: the files and table gminy are read
\* and matched.  Below the threshold nothing is written and nothing follows.
MatchGminy(r) ==
    /\ stage[r] = "match"
    /\ \/ /\ EnoughMatched
          /\ rows' = [rows EXCEPT ![r] = [c \in Valued |-> files.bdl.value[UnitOf(c)]]]
          /\ Goto(r, IF Valued = {} THEN "codes" ELSE "insert_gmina")
       \/ /\ ~EnoughMatched
          /\ Exit(r, "raised")
    /\ UNCHANGED <<disk, database, option, disturbed>>

\* The insert, in one transaction.  The foreign keys of both population tables
\* accept what is inserted: RowsFitTheirTable.
InsertGmina(r) ==
    /\ stage[r] = "insert_gmina"
    /\ population_gmina' = Upserted(population_gmina, rows[r])
    /\ rows' = [rows EXCEPT ![r] = NoRows]
    /\ Goto(r, "codes")
    /\ UNCHANGED <<disk, staging, gminy, nuts2, population_nuts2, option, disturbed>>

\* Mutant: every region of the file, known or not.
PopulatedAnywhere == {n \in DOMAIN files.eurostat : files.eurostat[n] \notin {Null, 0}}

\* Regions of the file that are known_codes and have a value.
Populated ==
    {n \in DOMAIN files.eurostat \cap Loaded(nuts2) :
        IsNuts2[n] /\ files.eurostat[n] \notin {Null, 0}}

\* load_nuts2_population up to its insert: known_codes, then the file.
ReadCodes(r) ==
    /\ stage[r] = "codes"
    /\ rows' = [rows EXCEPT ![r] = [n \in Populated |-> files.eurostat[n]]]
    /\ Goto(r, IF Populated = {} THEN "done" ELSE "insert_nuts2")
    /\ UNCHANGED <<disk, database, option, disturbed>>

InsertNuts2(r) ==
    /\ stage[r] = "insert_nuts2"
    /\ population_nuts2' = Upserted(population_nuts2, rows[r])
    /\ Exit(r, "done")
    /\ UNCHANGED <<disk, staging, gminy, nuts2, population_gmina, option, disturbed>>

-----------------------------------------------------------------------------

\* download_static_data.sh and its kin: one of the files is replaced.
Download ==
    /\ downloads < MaxDownloads
    /\ downloads' = downloads + 1
    /\ \/ \E f \in Shapefiles    : files' = [files EXCEPT !.prg = f]
       \/ \E f \in BdlFiles      : files' = [files EXCEPT !.bdl = f]
       \/ \E f \in NutsFiles     : files' = [files EXCEPT !.nuts = f]
       \/ \E f \in EurostatFiles : files' = [files EXCEPT !.eurostat = f]
    /\ files' # files
    /\ disturbed' = disturbed \cup Loaders
    /\ UNCHANGED <<database, stage, option, rows>>

Step(r) ==
    \/ DropStaging(r) \/ CopyStaging(r) \/ Merge(r) \/ ComputeAreas(r)
    \/ LoadNuts2(r)
    \/ MatchGminy(r) \/ InsertGmina(r) \/ ReadCodes(r) \/ InsertNuts2(r)

Next == (\E r \in Loaders : Start(r) \/ Step(r) \/ Abort(r)) \/ Download

Spec == Init /\ [][Next]_vars

-----------------------------------------------------------------------------
(* Properties. *)

GminaType == [name : Names, shape : Shapes, area : {AreaOf[s] : s \in Shapes} \cup {Null}]

\* Types of the reference tables and of the loaders.
TypeOK ==
    /\ files \in [prg : Shapefiles, bdl : BdlFiles, nuts : NutsFiles, eurostat : EurostatFiles]
    /\ downloads \in 0 .. MaxDownloads
    /\ staging \in Shapefiles \cup {Absent}
    /\ gminy \in [Codes -> GminaType \cup {Absent}]
    /\ nuts2 \in [Regions -> Shapes \cup {Absent}]
    /\ DOMAIN population_gmina = Codes
    /\ DOMAIN population_nuts2 = Regions
    /\ stage \in [Loaders -> Stopped \cup {"overwrite", "copy", "merge", "areas", "nuts2",
                              "match", "insert_gmina", "codes", "insert_nuts2"}]
    /\ option \in [Loaders -> DOMAIN First \cup {"none"}]
    /\ DOMAIN rows = Loaders
    /\ disturbed \in SUBSET Loaders

\* Rows that were matched against a table read earlier still fit it when they
\* are inserted, whatever other loaders have committed in between; and so does
\* every population that is stored.
RowsFitTheirTable ==
    /\ \A r \in Loaders :
        /\ stage[r] = "insert_gmina" => DOMAIN rows[r] \subseteq Loaded(gminy)
        /\ stage[r] = "insert_nuts2" => DOMAIN rows[r] \subseteq Loaded(nuts2)
    /\ Loaded(population_gmina) \subseteq Loaded(gminy)
    /\ Loaded(population_nuts2) \subseteq Loaded(nuts2)

\* A loader that ended, and nothing else has run and no file has changed since
\* it started.
Undisturbed(r, o) == stage[r] = "done" /\ option[r] = o /\ r \notin disturbed

\* Whatever an earlier load left half done, such a load of PRG brings every
\* gmina of the file, with its name and its boundary, and leaves no gmina
\* without an area (run_ogr2ogr_to_staging, merge, compute_areas).
PrgLoadIsComplete ==
    \A r \in Loaders : Undisturbed(r, "prg") =>
        /\ \A f \in files.prg : IsTeryt[f.code] =>
                /\ gminy[f.code] # Absent
                /\ gminy[f.code].name = f.name
                /\ gminy[f.code].shape = f.shape
        /\ \A c \in Loaded(gminy) : gminy[c].area # Null

\* Such a load of populations leaves every gmina and region with the newest
\* value there is for it, and is refused when too few gminy have one.
PopulationLoadIsComplete ==
    \A r \in Loaders : Undisturbed(r, "population") =>
        /\ Cardinality({c \in Loaded(gminy) : UnitOf(c) = NoUnit}) * 100
                <= (100 - MinMatchRate) * Cardinality(Loaded(gminy))
        /\ \A c \in Loaded(gminy) :
                (UnitOf(c) \in DOMAIN files.bdl.value /\ files.bdl.value[UnitOf(c)] # Null)
                    => population_gmina[c] = files.bdl.value[UnitOf(c)]
        /\ \A n \in Loaded(nuts2) \cap DOMAIN files.eurostat :
                files.eurostat[n] \notin {Null, 0} => population_nuts2[n] = files.eurostat[n]

=============================================================================
