--------------------------- MODULE DensityMapProofs ---------------------------
(***************************************************************************)
(* Proofs about DensityMap, for any features and any zooms.                *)
(*                                                                         *)
(* The invariant says which table the layers of the map carry: none before *)
(* load, one whole mode's after it, and the chips' mode's if the last      *)
(* change of mode reached the map.  What the closure of attachHover holds  *)
(* follows that table, because a pointer only meets painted layers and a   *)
(* change of mode clears what it had met.                                  *)
(***************************************************************************)
EXTENDS DensityMap, TLAPS

Unloaded == [l \in DataLayers |-> "absent"]

\* Which mode's table the layers carry.
LayersCarryAMode ==
    /\ map # "loaded" => visibility = Unloaded
    /\ map = "loaded" => \E m \in Modes :
            /\ visibility = LAYER_VISIBILITY(m)
            /\ ~missed => m = layer

\* What is remembered, lit and described is one feature of the shown mode.
OneHover ==
    /\ hover.lit = {hover.id} \ {NoFeature}
    /\ hover.tip = hover.id
    /\ hover.id # NoFeature => LayersOf[SourceOf(hover.id)] = Visible

\* The two moves of the camera the code asks for end at these zooms.
CameraReachesGminy ==
    /\ camera.by = "PL" => camera.zoom = 50
    /\ camera.by = "gminy" => camera.zoom = 60

MapInv == TypeOK /\ LayersCarryAMode /\ OneHover /\ CameraReachesGminy

-----------------------------------------------------------------------------
(* The tables.                                                             *)

\* The data layers, one by one.
LEMMA DataLayersAre ==
    /\ DataLayers = {"nuts2-fill", "nuts2-line", "gminy-fill", "gminy-line",
                     "lockers-heatmap"}
    /\ \A m \in Modes : LayersOf[m] \subseteq DataLayers
<1>1. DataLayers = LayersOf["nuts2"] \cup LayersOf["gminy"] \cup LayersOf["heatmap"]
  BY DEF DataLayers, Modes
<1>2. /\ LayersOf["nuts2"] = {"nuts2-fill", "nuts2-line"}
      /\ LayersOf["gminy"] = {"gminy-fill", "gminy-line"}
      /\ LayersOf["heatmap"] = {"lockers-heatmap"}
  BY DEF LayersOf
<1> QED BY <1>1, <1>2 DEF Modes

\* No two modes share a layer: a table shows the layers of its mode only, and
\* the layout the layers are declared with is the table of the NUTS-2 mode.
LEMMA TableShowsItsMode ==
    /\ \A m \in Modes : LAYER_VISIBILITY(m) \in [DataLayers -> {"visible", "none"}]
    /\ \A m \in Modes : {l \in DataLayers : LAYER_VISIBILITY(m)[l] = "visible"} = LayersOf[m]
    /\ InitialVisibility = LAYER_VISIBILITY("nuts2")
<1>1. ASSUME NEW m \in Modes
      PROVE  /\ LAYER_VISIBILITY(m) \in [DataLayers -> {"visible", "none"}]
             /\ {l \in DataLayers : LAYER_VISIBILITY(m)[l] = "visible"} = LayersOf[m]
  <2>1. LayersOf[m] \subseteq DataLayers
    BY DataLayersAre
  <2>2. \A l \in DataLayers :
            LAYER_VISIBILITY(m)[l] = IF l \in LayersOf[m] THEN "visible" ELSE "none"
    BY DEF LAYER_VISIBILITY
  <2> QED BY <2>1, <2>2 DEF LAYER_VISIBILITY
<1>2. InitialVisibility = LAYER_VISIBILITY("nuts2")
  BY DEF InitialVisibility, LAYER_VISIBILITY
<1> QED BY <1>1, <1>2

\* What the map shows under the invariant.
LEMMA ShownMode ==
    ASSUME LayersCarryAMode
    PROVE  /\ map # "loaded" => Visible = {}
           /\ map = "loaded" => \E m \in Modes :
                /\ visibility = LAYER_VISIBILITY(m)
                /\ Visible = LayersOf[m]
                /\ ~missed => m = layer
<1>1. ASSUME map # "loaded" PROVE Visible = {}
  BY <1>1 DEF Visible, LayersCarryAMode, Unloaded
<1>2. ASSUME map = "loaded"
      PROVE  \E m \in Modes : /\ visibility = LAYER_VISIBILITY(m)
                              /\ Visible = LayersOf[m]
                              /\ ~missed => m = layer
  BY <1>2, TableShowsItsMode DEF Visible, LayersCarryAMode
<1> QED BY <1>1, <1>2

-----------------------------------------------------------------------------
(* Hover.                                                                  *)

Hovers == [id : Features \cup {NoFeature}, lit : SUBSET Features,
           tip : Features \cup {NoFeature}]

\* At most one feature is lit, and it is the one described.
OneLit(h) == h.lit = {h.id} \ {NoFeature} /\ h.tip = h.id

\* Clearing leaves nothing, entering leaves one feature.
LEMMA HoverSteps ==
    ASSUME NEW h \in Hovers, OneLit(h), NEW f \in Features
    PROVE  /\ ClearHover(h) = NoHover
           /\ Enter(h, f) = [id |-> f, lit |-> {f}, tip |-> f]
<1>1. f # NoFeature
  BY FeaturesAssumption
<1>2. ClearHover(h) = NoHover
  BY DEF ClearHover, NoHover, OneLit, Hovers
<1>3. CASE h.id = f
  BY <1>1, <1>2, <1>3 DEF Enter, OneLit, Hovers
<1>4. CASE h.id # f
  BY <1>2, <1>4 DEF Enter, NoHover
<1> QED BY <1>2, <1>3, <1>4

\* A pointer over a feature shows it or, when the layer the pointer leaves
\* comes later, nothing; a pointer over none keeps what was there only if the
\* pointer was in no layer that is asked.
LEMMA PointerSteps ==
    ASSUME NEW h \in Hovers, OneLit(h), NEW at \in Features \cup {NoFeature},
           NEW g, g = MoveOver(MoveOver(h, "nuts2", at), "gminy", at)
    PROVE  /\ g \in Hovers /\ OneLit(g)
           /\ g.id \in {NoFeature, at} \/ g = h
           /\ (at \in Features /\ inside \subseteq {SourceOf(at)}) =>
                g = [id |-> at, lit |-> {at}, tip |-> at]
<1>1. NoHover \in Hovers /\ OneLit(NoHover) /\ NoHover.id = NoFeature
  BY DEF NoHover, Hovers, OneLit
<1>2. ASSUME NEW f \in Features
      PROVE  /\ [id |-> f, lit |-> {f}, tip |-> f] \in Hovers
             /\ OneLit([id |-> f, lit |-> {f}, tip |-> f])
             /\ f # NoFeature
             /\ SourceOf(f) \in {"nuts2", "gminy"}
  BY FeaturesAssumption DEF Hovers, OneLit, SourceOf
<1>3. CASE at = NoFeature
  <2>1. MoveOver(h, "nuts2", at) \in {h, NoHover}
    BY <1>2, <1>3, HoverSteps DEF MoveOver, ClearHover, NoHover, OneLit, Hovers
  <2>2. ClearHover(h) = NoHover /\ ClearHover(NoHover) = NoHover
    BY DEF ClearHover, NoHover, OneLit, Hovers
  <2>3. g \in {h, NoHover}
    BY <1>3, <2>1, <2>2 DEF MoveOver
  <2> QED BY <1>1, <1>3, <2>3, FeaturesAssumption
<1>4. CASE at \in Features
  <2>1. DEFINE shown == [id |-> at, lit |-> {at}, tip |-> at]
  <2>2. Enter(h, at) = shown /\ Enter(NoHover, at) = shown
        /\ ClearHover(h) = NoHover /\ ClearHover(shown) = NoHover
    <3>1. shown \in Hovers /\ OneLit(shown)
      BY <1>2, <1>4
    <3> HIDE DEF shown
    <3>2. ClearHover(shown) = NoHover
      BY <1>4, <3>1, HoverSteps
    <3>3. Enter(h, at) = shown /\ Enter(NoHover, at) = shown /\ ClearHover(h) = NoHover
      BY <1>1, <1>4, HoverSteps DEF shown
    <3> QED BY <3>2, <3>3
  <2> HIDE DEF shown
  <2>3. CASE SourceOf(at) = "nuts2"
    <3>1. MoveOver(h, "nuts2", at) = shown
      BY <1>2, <1>4, <2>2, <2>3 DEF MoveOver
    <3>2. g = IF "gminy" \in inside THEN NoHover ELSE shown
      BY <2>2, <2>3, <3>1 DEF MoveOver
    <3> QED BY <1>1, <1>2, <1>4, <2>3, <3>2 DEF shown
  <2>4. CASE SourceOf(at) = "gminy"
    <3>1. MoveOver(h, "nuts2", at) = IF "nuts2" \in inside THEN NoHover ELSE h
      BY <2>2, <2>4 DEF MoveOver
    <3>2. g = shown
      BY <1>2, <1>4, <2>2, <2>4, <3>1 DEF MoveOver
    <3> QED BY <1>2, <1>4, <3>2 DEF shown
  <2> QED BY <1>2, <1>4, <2>3, <2>4
<1> QED BY <1>3, <1>4

-----------------------------------------------------------------------------
(* The invariant.                                                          *)

\* The types of the hover state, under the name the lemmas use.
LEMMA HoverTyped ==
    ASSUME MapInv
    PROVE  hover \in Hovers /\ OneLit(hover)
BY DEF MapInv, TypeOK, OneHover, Hovers, OneLit

LEMMA InitInv == Init => MapInv
<1> SUFFICES ASSUME Init PROVE MapInv
  OBVIOUS
<1>1. TypeOK
  BY DEF Init, TypeOK, Modes, Scopes, NoHover
<1>2. LayersCarryAMode
  BY DEF Init, LayersCarryAMode, Unloaded
<1>3. OneHover /\ CameraReachesGminy
  BY DEF Init, OneHover, CameraReachesGminy, NoHover
<1> QED BY <1>1, <1>2, <1>3 DEF MapInv

\* A mode applied to a map that carries one gives a map that carries that.
LEMMA ApplyModeInv ==
    ASSUME MapInv, NEW m \in Modes, ApplyMode(m)
    PROVE  /\ hover' = NoHover
           /\ visibility' = IF map = "loaded" THEN LAYER_VISIBILITY(m) ELSE Unloaded
           /\ styleLoaded' \in BOOLEAN
           /\ missed' = FALSE
<1>1. hover' = NoHover
  <2>1. hover' = ClearHover(hover)
    BY DEF ApplyMode
  <2> QED BY <2>1, HoverTyped DEF ClearHover, NoHover, OneLit, Hovers
<1>2. DOMAIN LAYER_VISIBILITY(m) = DataLayers
  BY TableShowsItsMode
<1>3. visibility' = [l \in DataLayers |->
                        IF visibility[l] = "absent" THEN "absent" ELSE LAYER_VISIBILITY(m)[l]]
  BY <1>2 DEF ApplyMode
<1>4. CASE map = "loaded"
  <2>1. PICK n \in Modes : visibility = LAYER_VISIBILITY(n)
    BY <1>4 DEF MapInv, LayersCarryAMode
  <2>2. \A l \in DataLayers : visibility[l] # "absent"
    BY <2>1, TableShowsItsMode
  <2>3. visibility' = [l \in DataLayers |-> LAYER_VISIBILITY(m)[l]]
    BY <1>3, <2>2
  <2> QED BY <1>1, <1>4, <2>3, TableShowsItsMode DEF ApplyMode
<1>5. CASE map # "loaded"
  <2>1. visibility = Unloaded
    BY <1>5 DEF MapInv, LayersCarryAMode
  <2>2. visibility' = Unloaded
    BY <1>3, <2>1 DEF Unloaded
  <2> QED BY <1>1, <1>5, <2>2 DEF ApplyMode
<1> QED BY <1>4, <1>5

\* What is left of the invariant when only the layers stay as they are.
LEMMA SameLayers ==
    ASSUME MapInv, UNCHANGED <<map, visibility, layer, missed>>
    PROVE  LayersCarryAMode' /\ Visible' = Visible
BY DEF MapInv, LayersCarryAMode, Visible, Unloaded, LAYER_VISIBILITY

LEMMA MountInv == MapInv /\ Mount => MapInv'
<1> SUFFICES ASSUME MapInv, Mount PROVE MapInv'
  OBVIOUS
<1>1. TypeOK'
  BY DEF MapInv, TypeOK, Mount
<1>2. LayersCarryAMode' /\ Visible' = Visible
  BY DEF MapInv, Mount, LayersCarryAMode, Unloaded, Visible
<1>3. OneHover'
  BY <1>2 DEF MapInv, Mount, OneHover
<1>4. CameraReachesGminy'
  BY DEF Mount, CameraReachesGminy
<1> QED BY <1>1, <1>2, <1>3, <1>4 DEF MapInv

LEMMA LoadInv == MapInv /\ Load => MapInv'
<1> SUFFICES ASSUME MapInv, Load PROVE MapInv'
  OBVIOUS
<1>1. visibility' = LAYER_VISIBILITY("nuts2") /\ "nuts2" \in Modes
  BY TableShowsItsMode DEF Load, Modes
<1>2. TypeOK'
  <2>1. visibility' \in [DataLayers -> {"absent", "visible", "none"}]
    BY <1>1, TableShowsItsMode
  <2>2. hover' \in [id : Features \cup {NoFeature}, lit : SUBSET Features,
                    tip : Features \cup {NoFeature}]
    BY DEF Load, NoHover
  <2>3. missed' \in BOOLEAN /\ styleLoaded' \in BOOLEAN /\ map' = "loaded"
    BY DEF Load
  <2> QED BY <2>1, <2>2, <2>3 DEF MapInv, TypeOK, Load
<1>3. LayersCarryAMode'
  BY <1>1 DEF MapInv, Load, LayersCarryAMode, LAYER_VISIBILITY
<1>4. OneHover'
  BY DEF Load, OneHover, NoHover
<1>5. CameraReachesGminy'
  BY DEF MapInv, Load, CameraReachesGminy
<1> QED BY <1>2, <1>3, <1>4, <1>5 DEF MapInv

LEMMA UnmountInv == MapInv /\ Unmount => MapInv'
<1> SUFFICES ASSUME MapInv, Unmount PROVE MapInv'
  OBVIOUS
<1>1. TypeOK'
  BY DEF MapInv, TypeOK, Unmount, NoHover, Modes
<1>2. LayersCarryAMode'
  BY DEF Unmount, LayersCarryAMode, Unloaded
<1>3. OneHover'
  BY DEF Unmount, OneHover, NoHover
<1>4. CameraReachesGminy'
  BY DEF MapInv, Unmount, CameraReachesGminy
<1> QED BY <1>1, <1>2, <1>3, <1>4 DEF MapInv

LEMMA SelectLayerInv ==
    ASSUME MapInv, NEW m \in Modes, SelectLayer(m)
    PROVE  MapInv'
<1>1. layer' = m /\ map' = map /\ scope' = scope /\ inside' = inside
  BY DEF SelectLayer
<1>2. CameraReachesGminy' /\ camera' \in [zoom : Nat, by : {"init", "PL", "EU", "gminy", "user"}]
  BY DEF MapInv, TypeOK, SelectLayer, CameraReachesGminy
<1>3. CASE m = layer /\ UNCHANGED <<hover, visibility, styleLoaded, missed>>
  <2>1. LayersCarryAMode' /\ Visible' = Visible
    BY <1>1, <1>3, SameLayers
  <2>2. OneHover'
    BY <1>3, <2>1 DEF MapInv, OneHover
  <2>3. TypeOK'
    BY <1>1, <1>2, <1>3 DEF MapInv, TypeOK
  <2> QED BY <1>2, <2>1, <2>2, <2>3 DEF MapInv
<1>4. CASE m # layer /\ styleLoaded /\ ApplyMode(m)
  <2>1. /\ hover' = NoHover
        /\ visibility' = IF map = "loaded" THEN LAYER_VISIBILITY(m) ELSE Unloaded
        /\ styleLoaded' \in BOOLEAN
        /\ missed' = FALSE
    BY <1>4, ApplyModeInv
  <2>2. LayersCarryAMode'
    BY <1>1, <2>1 DEF LayersCarryAMode, LAYER_VISIBILITY, Unloaded
  <2>3. OneHover'
    BY <2>1 DEF OneHover, NoHover
  <2>4. visibility' \in [DataLayers -> {"absent", "visible", "none"}]
    BY <2>1, TableShowsItsMode DEF Unloaded
  <2>5. TypeOK'
    BY <1>1, <1>2, <2>1, <2>4 DEF MapInv, TypeOK, NoHover
  <2> QED BY <1>2, <2>2, <2>3, <2>5 DEF MapInv
<1>5. CASE m # layer /\ ~styleLoaded /\ SkipMode
  <2>1. missed' = TRUE /\ UNCHANGED <<hover, visibility, styleLoaded>>
    BY <1>5 DEF SkipMode
  <2>2. LayersCarryAMode' /\ Visible' = Visible
    BY <1>1, <2>1 DEF MapInv, LayersCarryAMode, LAYER_VISIBILITY, Unloaded, Visible
  <2>3. OneHover'
    BY <2>1, <2>2 DEF MapInv, OneHover
  <2>4. TypeOK'
    BY <1>1, <1>2, <2>1 DEF MapInv, TypeOK
  <2> QED BY <1>2, <2>2, <2>3, <2>4 DEF MapInv
<1> QED BY <1>3, <1>4, <1>5 DEF SelectLayer

\* The camera moves, and the rest of the map stays.
LEMMA CameraMovesInv ==
    ASSUME MapInv,
           UNCHANGED <<layer, map, styleLoaded, visibility, hover, inside, missed>>,
           scope' \in {"PL", "EU"},
           camera' \in [zoom : Nat, by : {"init", "PL", "EU", "gminy", "user"}],
           CameraReachesGminy'
    PROVE  MapInv'
<1>1. LayersCarryAMode' /\ Visible' = Visible
  BY SameLayers
<1>2. OneHover'
  BY <1>1 DEF MapInv, OneHover
<1>3. TypeOK'
  BY DEF MapInv, TypeOK, Scopes
<1> QED BY <1>1, <1>2, <1>3 DEF MapInv

LEMMA SelectScopeInv ==
    ASSUME MapInv, NEW s \in Scopes, SelectScope(s)
    PROVE  MapInv'
<1>1. camera' = camera \/ camera' = [zoom |-> ScopeZoom(s), by |-> s]
  BY DEF SelectScope, Scopes
<1>2. CameraReachesGminy' /\ camera' \in [zoom : Nat, by : {"init", "PL", "EU", "gminy", "user"}]
  BY <1>1 DEF MapInv, TypeOK, CameraReachesGminy, ScopeZoom, Scopes
<1> QED BY <1>2, CameraMovesInv DEF SelectScope, Scopes

LEMMA ZoomInv ==
    ASSUME MapInv, NEW z \in UserZooms, Zoom(z)
    PROVE  MapInv'
<1>1. z \in Nat
  BY FeaturesAssumption
<1>2. CameraReachesGminy' /\ camera' \in [zoom : Nat, by : {"init", "PL", "EU", "gminy", "user"}]
  BY <1>1 DEF Zoom, CameraReachesGminy
<1>3. scope' \in {"PL", "EU"}
  BY DEF Zoom, MapInv, TypeOK, Scopes
<1> QED BY <1>2, <1>3, CameraMovesInv DEF Zoom

LEMMA MouseMoveInv ==
    ASSUME MapInv, NEW at \in Features \cup {NoFeature}, MouseMove(at)
    PROVE  MapInv'
<1>1. LayersCarryAMode' /\ Visible' = Visible
  BY SameLayers DEF MouseMove
<1>2. /\ hover' \in Hovers /\ OneLit(hover')
      /\ hover'.id \in {NoFeature, at} \/ hover' = hover
  BY HoverTyped, PointerSteps DEF MouseMove
<1>3. ASSUME at # NoFeature
      PROVE  LayersOf[SourceOf(at)] = Visible
  <2>1. (IF at \in Regions THEN "nuts2-fill" ELSE "gminy-fill") \in Visible
    BY <1>3 DEF MouseMove, Painted
  <2>2. PICK m \in Modes : Visible = LayersOf[m]
    BY ShownMode DEF MapInv, MouseMove
  <2> QED BY <2>1, <2>2 DEF SourceOf, LayersOf, Modes
<1>4. OneHover'
  BY <1>1, <1>2, <1>3 DEF MapInv, OneHover, OneLit
<1>5. TypeOK'
  <2>1. inside' \subseteq {"nuts2", "gminy"}
    BY DEF MouseMove, SourceOf
  <2> QED BY <1>2, <2>1 DEF MapInv, TypeOK, MouseMove, Hovers
<1>6. CameraReachesGminy'
  BY DEF MapInv, MouseMove, CameraReachesGminy
<1> QED BY <1>1, <1>4, <1>5, <1>6 DEF MapInv

LEMMA StyleTrafficInv == MapInv /\ StyleTraffic => MapInv'
<1> SUFFICES ASSUME MapInv, StyleTraffic PROVE MapInv'
  OBVIOUS
<1>1. LayersCarryAMode' /\ Visible' = Visible
  BY SameLayers DEF StyleTraffic
<1>2. OneHover' /\ CameraReachesGminy'
  BY <1>1 DEF MapInv, StyleTraffic, OneHover, CameraReachesGminy
<1>3. TypeOK'
  BY DEF MapInv, StyleTraffic, TypeOK
<1> QED BY <1>1, <1>2, <1>3 DEF MapInv

LEMMA StutterInv == MapInv /\ UNCHANGED vars => MapInv'
BY DEF MapInv, vars, TypeOK, LayersCarryAMode, OneHover, CameraReachesGminy, Visible,
       Unloaded, LAYER_VISIBILITY

LEMMA StepInv == MapInv /\ [Next]_vars => MapInv'
BY MountInv, LoadInv, UnmountInv, SelectLayerInv, SelectScopeInv, ZoomInv, MouseMoveInv,
   StyleTrafficInv, StutterInv DEF Next

LEMMA Invariance == Spec => []MapInv
BY InitInv, StepInv, PTL DEF Spec

-----------------------------------------------------------------------------
(* The theorems.                                                           *)

\* The map keeps its types, whatever the features and the user's zooms.
THEOREM TypeCorrect == Spec => []TypeOK
<1>1. MapInv => TypeOK
  BY DEF MapInv
<1> QED BY <1>1, Invariance, PTL

\* No interleaving of chips, load, remounts and style traffic makes the map
\* paint two modes, or part of one.
THEOREM OneModeCorrect == Spec => []OneModeVisible
<1>1. MapInv => OneModeVisible
  BY ShownMode DEF MapInv, OneModeVisible
<1> QED BY <1>1, Invariance, PTL

\* Unless the last change of mode was dropped, the map shows the chip's mode,
\* and the camera's own moves reach the zoom at which all of it is painted.
THEOREM ChipCorrect == Spec => []MapShowsChip
<1>1. MapInv => MapShowsChip
  <2> SUFFICES ASSUME MapInv, map = "loaded", ~missed
               PROVE  /\ Visible = LayersOf[layer]
                      /\ camera.by \in {"PL", "gminy"} => \A l \in LayersOf[layer] : Painted(l)
    BY DEF MapShowsChip
  <2>1. Visible = LayersOf[layer]
    BY ShownMode DEF MapInv
  <2>2. ASSUME camera.by \in {"PL", "gminy"}, NEW l \in LayersOf[layer]
        PROVE  Painted(l)
    <3>1. camera.zoom \in {50, 60}
      BY <2>2 DEF MapInv, CameraReachesGminy
    <3>2. MinZoom(l) \in {0, 50} /\ MaxZoom(l) \in {160, 240}
      BY DEF MinZoom, MaxZoom
    <3> QED BY <2>1, <2>2, <3>1, <3>2 DEF Painted
  <2> QED BY <2>1, <2>2
<1> QED BY <1>1, Invariance, PTL

\* Highlight, tooltip and shown layer never disagree.
THEOREM HoverCorrect == Spec => []NoHoverResidue
<1>1. MapInv => NoHoverResidue
  BY DEF MapInv, OneHover, NoHoverResidue, Tooltip
<1> QED BY <1>1, Invariance, PTL

\* The pointed region is shown unless the other layer's mouseleave follows.
THEOREM PointerCorrect == Spec => PointedRegionIsShown
<1> DEFINE Pointed == \A f \in Features :
        MouseMove(f) /\ inside \subseteq {SourceOf(f)} =>
            hover' = [id |-> f, lit |-> {f}, tip |-> f]
<1>1. MapInv /\ [Next]_vars => [Pointed]_vars
  <2> SUFFICES ASSUME MapInv, NEW f \in Features, MouseMove(f), inside \subseteq {SourceOf(f)}
               PROVE  hover' = [id |-> f, lit |-> {f}, tip |-> f]
    OBVIOUS
  <2> QED BY HoverTyped, PointerSteps DEF MouseMove
<1> QED BY <1>1, Invariance, PTL DEF Spec, PointedRegionIsShown

=============================================================================
