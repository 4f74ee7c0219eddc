------------------------------- MODULE MapView -------------------------------
(***************************************************************************)
(* A map of the pages under data/release/www (OpenLayers.Map): its layers, *)
(* its centre and zoom, the drag and the animated pan that move it, and    *)
(* the images of its layers, which arrive one by one while it moves.       *)
(*                                                                         *)
(* The browser runs one handler at a time: an action is a call of the page *)
(* or of a control, a tick of the animation, or an event of an image.      *)
(***************************************************************************)
EXTENDS MapTiles

CONSTANTS
    Layer,
    Base,          \* the layers with isBaseLayer
    SingleTile,    \* the layers with singleTile
    MinZoom,       \* the first zoom a layer is drawn at, AlwaysInRange if it has no range
    Lon,           \* where the page, the mouse or a control may centre the map
    Sizes,         \* widths of the window, in tiles
    Pages,         \* how pages start: restrictedExtent, the size of the window, the
                   \* layers, and where they centre the map, None if they wait
    Duration,      \* panDuration
    MaxMoves,      \* bound: calls of the page and of the controls
    MaxFailures,   \* bound: images that fail to load
    None

AlwaysInRange == -1
Unrestricted == [left |-> None, right |-> None]
Restriction == {e \in [left : 0 .. Extent, right : 0 .. Extent] : e.left <= e.right}
Zoom == 0 .. MaxZoom

ASSUME MapViewAssumption ==
    /\ Base \subseteq Layer
    /\ SingleTile \subseteq Layer
    /\ MinZoom \in [Layer -> Zoom \cup {AlwaysInRange}]
    /\ \A page \in Pages :
         /\ page.size \in Sizes /\ page.layers \in Seq(Layer)
         /\ page.center \in Lon \cup {None}
         /\ \/ page.restrictedExtent = Unrestricted
            \/ page.restrictedExtent \in Restriction
         /\ page.center # None => \E k \in DOMAIN page.layers : page.layers[k] \in Base
    /\ Lon \subseteq Int
    /\ Sizes \subseteq Nat \ {0}
    /\ Duration \in Nat \ {0}
    /\ MaxMoves \in Nat /\ MaxFailures \in Nat
    /\ None \notin Int /\ None \notin Layer

VARIABLES map, moves, failures
vars == <<map, moves, failures>>

-----------------------------------------------------------------------------
(***************************************************************************)
(* Layers.                                                                 *)
(***************************************************************************)

InMap(m, l) == \E k \in DOMAIN m.layers : m.layers[k] = l

\* getExtent and calculateBounds: there is none without base layer or centre.
HasExtent(m) == m.baseLayer # None /\ m.center # None

CalculateInRange(m, l) ==
    \/ MinZoom[l] = AlwaysInRange
    \/ m.baseLayer # None /\ Resolution(m.zoom) <= Resolution(MinZoom[l])

\* Layer.display: an element that is hidden is displayed only if in range.
Display(m, l, flag) ==
    [m EXCEPT !.layer[l].displayed = flag /\ (@ \/ CalculateInRange(m, l))]

\* Layer.moveTo, then that of Layer.Grid.
MoveLayer(m, l, zoomChanged, dragging) ==
    LET show == m.layer[l].visibility /\ (l \in Base \/ m.layer[l].inRange)
    IN  [m EXCEPT !.layer[l] =
           GridMoveTo(Display(m, l, show).layer[l], l \in SingleTile,
                      View(m.center, m.zoom, m.size), zoomChanged, dragging)]

Redraw(m, l) ==
    LET inRange == CalculateInRange(m, l)
        ranged  == [m EXCEPT !.layer[l].inRange = inRange]
    IN  IF HasExtent(m) /\ inRange /\ m.layer[l].visibility
          THEN MoveLayer(ranged, l, TRUE, FALSE)
          ELSE ranged

SetVisibility(m, l, visibility) ==
    IF visibility = m.layer[l].visibility
      THEN m
      ELSE Redraw(Display([m EXCEPT !.layer[l].visibility = visibility], l, visibility), l)

\* viewRequestID++: the images asked for before are those of an older view.
NewRequests(m) == [m EXCEPT !.layer = [l \in Layer |-> Stale(@[l])]]

-----------------------------------------------------------------------------
(***************************************************************************)
(* Moving the map.                                                         *)
(***************************************************************************)

\* Mutant: the extent is not looked at.
GivenLonLat(lonlat) == lonlat # None

\* isValidLonLat
ValidLonLat(lonlat) == lonlat # None /\ 0 <= lonlat /\ lonlat <= Extent

\* Mutant: the view that has to fit in is that of the present zoom.
ClampAtZoom(m, lonlat, zoom) ==
    LET target  == IF lonlat = None THEN m.center ELSE lonlat
        half    == (m.size * Resolution(m.zoom)) \div 2
        allowed == m.restrictedExtent
    IN  IF allowed = Unrestricted THEN lonlat
        ELSE IF target - half < allowed.left THEN allowed.left + half
        ELSE IF target + half > allowed.right THEN allowed.right - half
        ELSE target

\* The part of moveTo about restrictedExtent: the view at the zoom asked for
\* has to fit in.
Clamp(m, lonlat, zoom) ==
    LET target  == IF lonlat = None THEN m.center ELSE lonlat
        view    == View(target, IF zoom = None THEN m.zoom ELSE zoom, m.size)
        allowed == m.restrictedExtent
        room    == allowed.right - allowed.left
    IN  IF allowed = Unrestricted THEN lonlat
        ELSE IF Covers(allowed, view) THEN target
        ELSE IF view.right - view.left > room THEN (allowed.left + allowed.right) \div 2
        ELSE IF view.left < allowed.left THEN target + (allowed.left - view.left)
        ELSE target + (allowed.right - view.right)

\* An overlay follows the map while it is in range.
MoveOverlay(m, l, zoomChanged, dragging) ==
    LET inRange == CalculateInRange(m, l)
        ranged  == [m EXCEPT !.layer[l].inRange = inRange]
        hidden  == IF m.layer[l].inRange /\ ~inRange THEN Display(ranged, l, FALSE) ELSE ranged
    IN  IF inRange /\ m.layer[l].visibility
          THEN MoveLayer(hidden, l, zoomChanged, dragging)
          ELSE hidden

\* The base layer, then each overlay, which does not depend on the others.
MoveLayers(m, zoomChanged, dragging) ==
    LET base == IF m.layer[m.baseLayer].visibility
                  THEN MoveLayer(m, m.baseLayer, zoomChanged, dragging) ELSE m
    IN  [base EXCEPT !.layer =
           [l \in Layer |->
              IF l \in Base \/ ~InMap(m, l) THEN @[l]
              ELSE MoveOverlay(base, l, zoomChanged, dragging).layer[l]]]

\* How moveTo is called: dragging, forceZoomChange and noEvent.
Still  == [dragging |-> FALSE, force |-> FALSE, noEvent |-> FALSE]
Dragged == [Still EXCEPT !.dragging = TRUE]
Forced == [Still EXCEPT !.force = TRUE]
Step   == [Dragged EXCEPT !.noEvent = TRUE]
Done   == [Still EXCEPT !.noEvent = TRUE]

\* Map.moveTo, but for the stop of the animation.  The map has a base layer: the
\* code throws otherwise.  announced: a movestart came that no moveend ended.
\* Each movestart calls updateSize too, which does nothing as long as the size is
\* the one of the last resize event (see ResizeWindow).
MoveTo(m, lonlat, zoom, how) ==
    LET asked   == IF m.center = None /\ ~ValidLonLat(lonlat) THEN Extent \div 2 ELSE lonlat
        clamped == Clamp(m, asked, zoom)
        zoomChanged   == how.force \/ (zoom # None /\ zoom # m.zoom)
        centerChanged == ValidLonLat(clamped) /\ clamped # m.center
        started == [m EXCEPT !.announced = @ \/ (~m.dragging /\ ~how.noEvent),
                             !.center = IF centerChanged THEN clamped ELSE @]
        zoomed  == IF zoomChanged
                     THEN NewRequests([started EXCEPT !.zoom = zoom, !.resolution = zoom])
                     ELSE started
        moved   == IF zoomChanged \/ centerChanged \/ ~how.dragging
                     THEN MoveLayers(zoomed, zoomChanged, how.dragging) ELSE m
    IN  [moved EXCEPT !.announced = @ /\ (how.dragging \/ how.noEvent),
                      !.dragging = how.dragging]

\* Mutant: no moveend.
PanDoneSilently(m) ==
    [MoveTo(m, m.tween.finish, m.zoom, Done) EXCEPT !.tween.playing = FALSE]

\* The callback done of panTo, as Tween.stop and the last play call it.
PanDone(m) ==
    [MoveTo(m, m.tween.finish, m.zoom, Done) EXCEPT !.announced = FALSE,
                                                    !.tween.playing = FALSE]

\* setCenter: an animation that plays ends at once, where it would have ended.
SetCenter(m, lonlat, zoom, how) ==
    MoveTo(IF m.tween.playing THEN PanDone(m) ELSE m, lonlat, zoom, how)

\* The position a play of the animation moves to: the first one does not move.
Eased(tween) ==
    IF tween.time = 0 THEN tween.begin
    ELSE IF tween.time = Duration THEN tween.finish
    ELSE (tween.begin + tween.finish) \div 2

\* Mutant: the animation starts over.
PlayAgain(m) ==
    LET next == [m EXCEPT !.tween.time = (@ + 1) % (Duration + 1)]
    IN  MoveTo(next, Eased(m.tween), m.zoom, Step)

\* Tween.play
Play(m) ==
    LET next == [m EXCEPT !.tween.time = @ + 1]
        step == MoveTo(next, Eased(m.tween), m.zoom, Step)
    IN  IF next.tween.time > Duration THEN PanDone(step) ELSE step

\* panTo: animated if it is not far.
PanTo(m, lonlat) ==
    LET far == (3 * m.size * Resolution(m.zoom)) \div 4
        near == m.center - far <= lonlat /\ lonlat <= m.center + far
    IN  IF ~near THEN SetCenter(m, lonlat, None, Still)
        ELSE IF lonlat = m.center THEN m
        ELSE [m EXCEPT !.announced = TRUE,
                       !.tween = [playing |-> TRUE, begin |-> m.center,
                                  finish |-> lonlat, time |-> 0]]

-----------------------------------------------------------------------------
(***************************************************************************)
(* The layers of the map.                                                  *)
(***************************************************************************)

\* Mutant: the zoom is not looked at.
SetBaseLayerAfar(m, l) ==
    LET based == NewRequests([m EXCEPT !.baseLayer = l, !.layer[l].visibility = TRUE])
    IN  IF l = m.baseLayer THEN m
        ELSE IF m.center = None THEN based
        ELSE SetCenter(based, m.center, 0, Forced)

\* setBaseLayer: the new one shows what the old one showed.  Without an old one
\* the zoom is that of map.resolution, which only a change of zoom sets.
SetBaseLayer(m, l) ==
    LET zoom   == IF m.baseLayer # None THEN m.zoom
                  ELSE IF m.resolution = None THEN MaxZoom ELSE m.resolution
        hidden == IF m.baseLayer = None THEN m ELSE SetVisibility(m, m.baseLayer, FALSE)
        based  == NewRequests([hidden EXCEPT !.baseLayer = l, !.layer[l].visibility = TRUE])
    IN  IF l = m.baseLayer THEN m
        ELSE IF m.center = None THEN based
        ELSE SetCenter(based, m.center, zoom, Forced)

\* addLayer, with setMap.  A layer is added once.
AddLayer(m, l) ==
    LET added == [m EXCEPT !.layers = Append(@, l)]
        range == CalculateInRange(m, l)
        mapped == [added EXCEPT !.layer[l].inRange = range,
                                !.layer[l].displayed = m.layer[l].visibility /\ range]
    IN  IF InMap(m, l) THEN m
        ELSE IF l \notin Base THEN Redraw(mapped, l)
        ELSE IF m.baseLayer = None THEN SetBaseLayer(added, l)
        ELSE SetVisibility(added, l, FALSE)

\* Util.removeItem: a layer is in the list once.
RemoveItem(array, item) == RemoveAt(array, CHOOSE k \in DOMAIN array : array[k] = item)

\* removeLayer: the first base layer that is left takes over.
RemoveLayer(m, l) ==
    LET removed == [m EXCEPT !.layers = RemoveItem(@, l),
                             !.baseLayer = IF @ = l THEN None ELSE @]
        left == {k \in DOMAIN removed.layers : removed.layers[k] \in Base}
    IN  IF m.baseLayer = l /\ left # {}
          THEN SetBaseLayer(removed, removed.layers[Min(left)]) ELSE removed

\* updateSize, when the window has another size.  The zoom is null for a moment.
UpdateSize(m, size) ==
    LET resized == [m EXCEPT !.size = size,
                             !.layer = [l \in Layer |->
                                IF InMap(m, l) THEN OnMapResize(@[l], l \in SingleTile) ELSE @[l]]]
    IN  IF m.baseLayer = None THEN resized
        ELSE SetCenter([resized EXCEPT !.zoom = None], m.center, m.zoom, Still)

NewMap(restriction, size) ==
    [layers |-> <<>>, size |-> size, baseLayer |-> None, center |-> None, zoom |-> 0, resolution |-> None,
     dragging |-> FALSE, announced |-> FALSE, restrictedExtent |-> restriction,
     tween |-> [playing |-> FALSE, begin |-> 0, finish |-> 0, time |-> 0],
     drag |-> [started |-> FALSE, moved |-> FALSE],
     layer |-> [l \in Layer |-> NewLayer]]

-----------------------------------------------------------------------------
(***************************************************************************)
(* The handlers.                                                           *)
(***************************************************************************)

AddLayers(m, layers) ==
    LET added[k \in 0 .. Len(layers)] ==
            IF k = 0 THEN m ELSE AddLayer(added[k - 1], layers[k])
    IN  added[Len(layers)]

\* The page makes the map, adds its layers and, at once or later, centres it.
Init ==
    /\ \E page \in Pages :
         LET added == AddLayers(NewMap(page.restrictedExtent, page.size), page.layers)
         IN  map = IF page.center = None THEN added
                   ELSE SetCenter(added, page.center, MaxZoom, Still)
    /\ moves = 0
    /\ failures = 0

Called(m) == moves < MaxMoves /\ moves' = moves + 1 /\ map' = m /\ UNCHANGED failures

\* Calls of the page, and of the controls for zoom and pan.
CallSetCenter(lonlat, zoom) ==
    map.baseLayer # None /\ Called(SetCenter(map, lonlat, zoom, Still))
CallPanTo(lonlat) == HasExtent(map) /\ Called(PanTo(map, lonlat))
CallAddLayer(l) == ~InMap(map, l) /\ Called(AddLayer(map, l))
CallRemoveLayer(l) == InMap(map, l) /\ Called(RemoveLayer(map, l))

\* An assumption about the browser: the element of the map never has another size
\* before the resize event that tells of it.
ResizeWindow(size) == size # map.size /\ Called(UpdateSize(map, size))

\* The layer switcher.
ChooseBaseLayer(l) == l \in Base /\ InMap(map, l) /\ l # map.baseLayer /\ Called(SetBaseLayer(map, l))
SwitchOverlay(l) ==
    /\ l \notin Base /\ InMap(map, l)
    /\ Called(SetVisibility(map, l, ~map.layer[l].visibility))

\* Handler.Drag with the control DragPan: panMap and panMapDone.
MouseDown ==
    /\ ~map.drag.started \/ map.drag.moved
    /\ map' = [map EXCEPT !.drag = [started |-> TRUE, moved |-> FALSE]]
    /\ UNCHANGED <<moves, failures>>
MouseMove(lonlat) ==
    /\ map.drag.started /\ HasExtent(map) /\ lonlat # map.center
    /\ Called([SetCenter(map, lonlat, None, Dragged) EXCEPT !.drag.moved = TRUE])

\* The button is released where the mouse was last seen, or a little further.
MouseUp ==
    /\ map.drag.started
    /\ LET up == [map EXCEPT !.drag = [started |-> FALSE, moved |-> FALSE]]
       IN  IF map.drag.moved /\ HasExtent(map)
             THEN \E lonlat \in {map.center} \cup Lon :
                    map' = SetCenter(up, lonlat, None, Still)
             ELSE map' = up
    /\ UNCHANGED <<moves, failures>>

\* The control is deactivated: the map is not told.
Deactivate ==
    /\ map.drag.started
    /\ map' = [map EXCEPT !.drag = [started |-> FALSE, moved |-> FALSE]]
    /\ UNCHANGED <<moves, failures>>

Tick ==
    /\ map.tween.playing /\ map.baseLayer # None
    /\ map' = Play(map)
    /\ UNCHANGED <<moves, failures>>

\* The browser tells how an image ended.
ImageEnds(l, k, ended) ==
    /\ k \in DOMAIN map.layer[l].grid
    /\ map.layer[l].grid[k].pending
    /\ map' = [map EXCEPT !.layer[l].grid[k] = ended,
                          !.layer[l].numLoadingTiles =
                             IF map.layer[l].grid[k].isLoading /\ ~ended.isLoading
                               THEN @ - 1 ELSE @]
    /\ UNCHANGED moves

ImageLoad(l, k) ==
    ImageEnds(l, k, ImageLoaded(map.layer[l].grid[k])) /\ UNCHANGED failures
ImageError(l, k) ==
    /\ failures < MaxFailures /\ failures' = failures + 1
    /\ ImageEnds(l, k, ImageFailed(map.layer[l].grid[k]))

Columns == UNION {1 .. (size + 1 + 2 * Buffer) : size \in Sizes}

Next ==
    \/ \E lonlat \in Lon : CallPanTo(lonlat) \/ MouseMove(lonlat)
    \/ \E lonlat \in Lon \cup {None}, zoom \in Zoom \cup {None} : CallSetCenter(lonlat, zoom)
    \/ \E l \in Layer : \/ CallAddLayer(l)
                        \/ CallRemoveLayer(l)
                        \/ ChooseBaseLayer(l)
                        \/ SwitchOverlay(l)
    \/ \E size \in Sizes : ResizeWindow(size)
    \/ MouseDown
    \/ MouseUp
    \/ Deactivate
    \/ Tick
    \/ \E l \in Layer, k \in Columns : ImageLoad(l, k) \/ ImageError(l, k)

Spec == Init /\ [][Next]_vars

\* The timer of an animation: Tick is weakly fair, with its guard in the place of
\* ENABLED, since a tick always changes the time.
TimerRuns == []<>~(map.tween.playing /\ map.baseLayer # None) \/ []<><<Tick>>_vars

\* The animation has a timer, and the browser gives up on an image in the end.
FairSpec ==
    /\ Spec
    /\ TimerRuns
    /\ \A l \in Layer, k \in Columns : WF_vars(ImageLoad(l, k) \/ ImageError(l, k))

-----------------------------------------------------------------------------
TypeOK ==
    /\ moves \in 0 .. MaxMoves
    /\ failures \in 0 .. MaxFailures
    /\ map.layers \in Seq(Layer)
    /\ map.baseLayer \in Base \cup {None}
    /\ map.center \in (0 .. Extent) \cup {None}
    /\ map.zoom \in Zoom
    /\ map.size \in Sizes
    /\ map.resolution \in Zoom \cup {None}
    /\ map.tween.time \in 0 .. Duration + 1
    /\ \A l \in Layer : /\ map.layer[l].numLoadingTiles \in Nat
                        /\ DOMAIN map.layer[l].grid \subseteq Columns

\* The counter of a layer goes up with each loadstart of a tile and down with each
\* loadend and unload.  It is the number of tiles that load, and to each of them the
\* browser owes an answer: tiles are drawn again while they load, move out of the
\* world, and are removed, and the layer's loadend, on which pages and controls wait,
\* comes only when the counter is back at 0.
LoadingCounted ==
    \A l \in Layer :
       /\ map.layer[l].numLoadingTiles = LoadingIn(map.layer[l].grid)
       /\ \A k \in DOMAIN map.layer[l].grid :
            map.layer[l].grid[k].isLoading => map.layer[l].grid[k].pending

OnScreen(l) == InMap(map, l) /\ HasExtent(map) /\ map.layer[l].displayed

\* A picture the user sees is the one its tile asked for last, at the place and
\* in the scale of the view: images arrive late, fail, and tiles move meanwhile.
PictureFits ==
    \A l \in Layer : OnScreen(l) =>
      \A k \in DOMAIN map.layer[l].grid :
        LET tile == map.layer[l].grid[k]
        IN  /\ tile.frame /\ tile.visible => tile.image = tile.bounds
            /\ tile.frame /\ tile.visible /\ tile.isLoading => tile.attempts > 0
            /\ l \notin SingleTile =>
                 tile.bounds.right - tile.bounds.left = Resolution(map.zoom)

\* The tiles of a layer on the screen adjoin and cover the view, but for a layer
\* of one tile, which waits for the end of a drag.
CoversView ==
    \A l \in Layer : OnScreen(l) /\ (l \in SingleTile => ~map.dragging) =>
      LET grid == map.layer[l].grid
      IN  /\ grid # <<>>
          /\ Covers(TilesBounds(grid), View(map.center, map.zoom, map.size))
          /\ \A k \in 1 .. Len(grid) - 1 : grid[k].bounds.right = grid[k + 1].bounds.left

\* Whoever was told that the map starts to move was told that it stopped, when
\* nothing moves it any more.
MovesEnd == map.announced => map.dragging \/ map.tween.playing

\* A map with a restrictedExtent shows nothing else, at whatever zoom, once it
\* shows anything.
StaysRestricted ==
    HasExtent(map) /\ map.restrictedExtent # Unrestricted =>
      LET view == View(map.center, map.zoom, map.size)
      IN  \/ Covers(map.restrictedExtent, view)
          \/ Covers(view, map.restrictedExtent)

\* Adding, removing and changing layers leaves the view alone, also while an
\* animation plays, if the map has changed its zoom before.  (A map that was without
\* a base layer may have to come back into its restrictedExtent: the size of the
\* window changed meanwhile.)
LayersChange == map'.layers # map.layers \/ map'.baseLayer # map.baseLayer
ViewKept ==
    [][/\ LayersChange /\ map.resolution # None
       /\ map.baseLayer # None \/ map.restrictedExtent = Unrestricted
       => <<map'.center, map'.zoom>> = <<map.center, map.zoom>>]_vars

\* When the page and the user leave the map alone, its layers come to their
\* loadend, whatever failed.
LoadingEnds == \A l \in Layer : <>[](map.layer[l].numLoadingTiles = 0)

\* An animation ends, unless the map has lost its base layer.
PanEnds == map.tween.playing ~> (~map.tween.playing \/ map.baseLayer = None)

=============================================================================
