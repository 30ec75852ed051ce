------------------------------ MODULE DensityMap ------------------------------
(***************************************************************************)
(* The map of the dashboard (density-map.tsx) with the scope switch of the *)
(* navigation bar (nav.tsx): a React component that keeps the mode, and a  *)
(* MapLibre map that keeps layers, feature states and a camera.            *)
(*                                                                         *)
(* A click and the effect it causes are one step: React runs the effects   *)
(* of a click before the next event.  The map's own events come when they  *)
(* come: "load" once, pointer events, and the style leaving and reaching   *)
(* the state isStyleLoaded() asks about, as tiles are requested and come.  *)
(***************************************************************************)
EXTENDS Integers

CONSTANTS Regions,     \* NUTS-2 features, by code
          Gminy,       \* gmina features, by teryt
          NoFeature,
          UserZooms    \* bound: zooms, in tenths, that gestures and buttons reach

Features == Regions \cup Gminy

\* NUTS-2 codes begin with letters, teryt codes are digits.
ASSUME FeaturesAssumption ==
    /\ Regions \cap Gminy = {}
    /\ NoFeature \notin Features
    /\ UserZooms \subseteq Nat

VARIABLES
    scope,        \* Nav's toggle
    layer,        \* DensityMap's mode
    map,          \* "none": skeleton; "starting": no load event yet; "loaded"
    styleLoaded,  \* what map.isStyleLoaded() would answer
    visibility,   \* data layer -> its layout property, "absent" before load
    hover,        \* attachHover's closure, feature states and tooltip
    inside,       \* sources whose layer MapLibre last saw the pointer in
    camera,       \* where the camera is going, and what sent it there
    missed        \* history: the last change of mode did not reach the map

vars == <<scope, layer, map, styleLoaded, visibility, hover, inside, camera, missed>>

Scopes == {"PL", "EU"}

Modes == {"nuts2", "gminy", "heatmap"}

\* The layers a mode shows; a mode's table hides every other one.
LayersOf == [nuts2   |-> {"nuts2-fill", "nuts2-line"},
             gminy   |-> {"gminy-fill", "gminy-line"},
             heatmap |-> {"lockers-heatmap"}]

DataLayers == UNION {LayersOf[m] : m \in Modes}

\* The heatmap's table forgets the gmina layers.
LAYER_VISIBILITY_Partial(m) ==
    [l \in DataLayers \ (IF m = "heatmap" THEN LayersOf["gminy"] ELSE {}) |->
        IF l \in LayersOf[m] THEN "visible" ELSE "none"]

LAYER_VISIBILITY(m) ==
    [l \in DataLayers |-> IF l \in LayersOf[m] THEN "visible" ELSE "none"]

\* The layout each layer is declared with.
InitialVisibility ==
    [l \in DataLayers |-> IF l \in LayersOf["nuts2"] THEN "visible" ELSE "none"]

Visible == {l \in DataLayers : visibility[l] = "visible"}

\* Layers are drawn from minzoom on, and below maxzoom.
MinZoom(l) == IF l \in LayersOf["gminy"] THEN 50 ELSE 0
MaxZoom(l) == IF l = "lockers-heatmap" THEN 160 ELSE 240
Painted(l) == l \in Visible /\ MinZoom(l) <= camera.zoom /\ camera.zoom < MaxZoom(l)

-----------------------------------------------------------------------------
(* Hover: the id the closure remembers, the features whose state is        *)
(* {hover: true}, and the feature the tooltip describes.                   *)

SourceOf(f) == IF f \in Regions THEN "nuts2" ELSE "gminy"

NoHover == [id |-> NoFeature, lit |-> {}, tip |-> NoFeature]

ClearHoverKeepsId(h) == [h EXCEPT !.lit = @ \ {h.id}, !.tip = NoFeature]

ClearHover(h) == [id |-> NoFeature, lit |-> h.lit \ {h.id}, tip |-> NoFeature]

\* The tooltip is rendered over every layer, as long as React keeps a feature.
Tooltip == hover.tip

Enter(h, f) ==
    IF h.id = f THEN [h EXCEPT !.tip = f]
    ELSE [id |-> f, lit |-> ClearHover(h).lit \cup {f}, tip |-> f]

\* What MapLibre calls for one layer when the pointer moves to feature at:
\* mousemove if the layer has it, else mouseleave if the pointer was inside.
MoveOver(h, source, at) ==
    IF at # NoFeature /\ SourceOf(at) = source THEN Enter(h, at)
    ELSE IF source \in inside THEN ClearHover(h)
    ELSE h

-----------------------------------------------------------------------------

Init ==
    /\ scope = "PL" /\ layer = "nuts2" /\ map = "none"
    /\ styleLoaded = FALSE
    /\ visibility = [l \in DataLayers |-> "absent"]
    /\ hover = NoHover /\ inside = {}
    /\ camera = [zoom |-> 42, by |-> "init"]
    /\ missed = FALSE

\* The island's chunk arrives and the component mounts: new Map(...).
Mount ==
    /\ map = "none"
    /\ map' = "starting"
    /\ styleLoaded' = FALSE
    /\ camera' = [zoom |-> 42, by |-> "init"]
    /\ UNCHANGED <<scope, layer, visibility, hover, inside, missed>>

\* map.on("load"): the layers as they are declared, then attachHover.
Load ==
    /\ map = "starting"
    /\ map' = "loaded"
    /\ styleLoaded' \in BOOLEAN
    /\ visibility' = InitialVisibility
    /\ hover' = NoHover
    /\ missed' = (layer # "nuts2")
    /\ UNCHANGED <<scope, layer, inside, camera>>

\* The component unmounts: map.remove(), and React forgets its state.
Unmount ==
    /\ map # "none"
    /\ map' = "none"
    /\ layer' = "nuts2"
    /\ styleLoaded' = FALSE
    /\ visibility' = [l \in DataLayers |-> "absent"]
    /\ hover' = NoHover
    /\ inside' = {}
    /\ missed' = FALSE
    /\ UNCHANGED <<scope, camera>>

\* The effect on [layer] when isStyleLoaded(): the hover residue is cleared,
\* and every layer the table names and the map has is set.
ApplyModeKeepsHover(m) ==
    /\ hover' = hover
    /\ visibility' = [l \in DataLayers |->
            IF visibility[l] = "absent" THEN "absent" ELSE LAYER_VISIBILITY(m)[l]]
    /\ styleLoaded' \in BOOLEAN
    /\ missed' = FALSE

ApplyMode(m) ==
    /\ hover' = ClearHover(hover)
    /\ visibility' = [l \in DataLayers |->
            IF visibility[l] = "absent" THEN "absent"
            ELSE IF l \in DOMAIN LAYER_VISIBILITY(m) THEN LAYER_VISIBILITY(m)[l]
            ELSE visibility[l]]
    /\ styleLoaded' \in BOOLEAN
    /\ missed' = FALSE

\* The same effect when the style is busy: it returns.
SkipMode ==
    /\ missed' = TRUE
    /\ UNCHANGED <<hover, visibility, styleLoaded>>

\* A chip.  The gmina chip also flies to Poland; a chip that is already
\* active changes no state, and its effect does not run.
SelectLayer(m) ==
    /\ map # "none"
    /\ layer' = m
    /\ \/ m = layer /\ UNCHANGED <<hover, visibility, styleLoaded, missed>>
       \/ m # layer /\ styleLoaded /\ ApplyMode(m)
       \/ m # layer /\ ~styleLoaded /\ SkipMode
    /\ camera' = IF m = "gminy" THEN [zoom |-> 60, by |-> "gminy"] ELSE camera
    /\ UNCHANGED <<scope, map, inside>>

ScopeZoomShort(s) == IF s = "PL" THEN 49 ELSE 38
ScopeZoomRelative(s) == IF s = "PL" THEN 8 ELSE 38 - 42

ScopeZoom(s) == IF s = "PL" THEN 50 ELSE 38

\* Nav dispatches pa:scope; only a mounted map listens.
SelectScope(s) ==
    /\ scope' = s
    /\ camera' = IF map = "none" THEN camera ELSE [zoom |-> ScopeZoom(s), by |-> s]
    /\ UNCHANGED <<layer, map, styleLoaded, visibility, hover, inside, missed>>

\* The user zooms with the wheel or the buttons.
Zoom(z) ==
    /\ map # "none"
    /\ camera' = [zoom |-> z, by |-> "user"]
    /\ UNCHANGED <<scope, layer, map, styleLoaded, visibility, hover, inside, missed>>

\* The pointer moves to a feature of a painted fill layer, or to none.  The
\* layers' handlers run in the order in which attachHover adds them.
MouseMove(at) ==
    /\ map = "loaded"
    /\ at # NoFeature => Painted(IF at \in Regions THEN "nuts2-fill" ELSE "gminy-fill")
    /\ hover' = MoveOver(MoveOver(hover, "nuts2", at), "gminy", at)
    /\ inside' = IF at = NoFeature THEN {} ELSE {SourceOf(at)}
    /\ UNCHANGED <<scope, layer, map, styleLoaded, visibility, camera, missed>>

\* Tiles, glyphs and changed layers are fetched and arrive.
StyleTraffic ==
    /\ map # "none"
    /\ styleLoaded' = ~styleLoaded
    /\ UNCHANGED <<scope, layer, map, visibility, hover, inside, camera, missed>>

Next ==
    \/ Mount \/ Load \/ Unmount \/ StyleTraffic
    \/ \E m \in Modes : SelectLayer(m)
    \/ \E s \in Scopes : SelectScope(s)
    \/ \E z \in UserZooms : Zoom(z)
    \/ \E at \in Features \cup {NoFeature} : MouseMove(at)

Spec == Init /\ [][Next]_vars

-----------------------------------------------------------------------------
(* Properties. *)

TypeOK ==
    /\ scope \in Scopes
    /\ layer \in Modes
    /\ map \in {"none", "starting", "loaded"}
    /\ styleLoaded \in BOOLEAN
    /\ visibility \in [DataLayers -> {"absent", "visible", "none"}]
    /\ hover \in [id : Features \cup {NoFeature}, lit : SUBSET Features,
                  tip : Features \cup {NoFeature}]
    /\ inside \subseteq {"nuts2", "gminy"}
    /\ camera \in [zoom : Nat, by : {"init", "PL", "EU", "gminy", "user"}]
    /\ missed \in BOOLEAN

\* However chips, load and style traffic interleave, the map never paints the
\* layers of two modes on top of each other, and once loaded it paints one
\* mode whole ("render two choropleths on top of each other").
OneModeVisible ==
    IF map = "loaded" THEN \E m \in Modes : Visible = LayersOf[m] ELSE Visible = {}

\* The map shows the mode of the chips, the title and the legend, unless the
\* last change of mode came before load or met a busy style; and where the
\* gmina chip or the PL scope sends the camera, all of that mode is painted:
\* neither stops short of the gmina layers' minzoom.
MapShowsChip ==
    map = "loaded" /\ ~missed =>
        /\ Visible = LayersOf[layer]
        /\ camera.by \in {"PL", "gminy"} => \A l \in LayersOf[layer] : Painted(l)

\* At most one region is highlighted, it is the one the tooltip describes,
\* and it lies on the layer the map shows: a change of mode leaves no residue.
NoHoverResidue ==
    /\ hover.lit = {hover.id} \ {NoFeature}
    /\ Tooltip = hover.id
    /\ hover.id # NoFeature => LayersOf[SourceOf(hover.id)] = Visible

\* A pointer event over a region shows that region, unless the pointer was
\* last seen in the other layer: that layer's mouseleave runs after the
\* region's mousemove, and clears what it set until the next event.
PointedRegionIsShown ==
    [][\A f \in Features :
        MouseMove(f) /\ inside \subseteq {SourceOf(f)} =>
            hover' = [id |-> f, lit |-> {f}, tip |-> f]]_vars

-----------------------------------------------------------------------------

\* "so a rapid toggle (NUTS-2 -> Heatmap -> Gminy) can never leave a stale
\* visibility on the layer the user is leaving": when the style has come to
\* rest, the map shows the mode the user chose.
NoStaleVisibility ==
    map = "loaded" /\ styleLoaded => Visible = LayersOf[layer]

=============================================================================
