---------------------------- MODULE MapViewProofs ----------------------------
(***************************************************************************)
(* Theorems about the map of a page, for any world, zoom levels, window    *)
(* sizes, layers and pages, and any number of calls and failures.          *)
(***************************************************************************)
EXTENDS MapView, FiniteSetTheorems, FunctionTheorems, SequenceTheorems, WellFoundedInduction, TLAPS

-----------------------------------------------------------------------------
(***************************************************************************)
(* What the operators on a map change.                                     *)
(***************************************************************************)
IsMap(m) ==
    /\ {"layers", "size", "baseLayer", "center", "zoom", "resolution", "dragging",
        "announced", "restrictedExtent", "tween", "drag", "layer"} \subseteq DOMAIN m
    /\ {"playing", "begin", "finish", "time"} \subseteq DOMAIN m.tween

\* n is m but for the layers' own state.
OnlyLayer(m, n) ==
    /\ IsMap(n)
    /\ n.layers = m.layers /\ n.size = m.size /\ n.baseLayer = m.baseLayer
    /\ n.center = m.center /\ n.zoom = m.zoom /\ n.resolution = m.resolution
    /\ n.dragging = m.dragging /\ n.announced = m.announced
    /\ n.restrictedExtent = m.restrictedExtent
    /\ n.tween = m.tween /\ n.drag = m.drag

LEMMA OnlyLayerTrans ==
    ASSUME NEW m, NEW n, NEW o, OnlyLayer(m, n), OnlyLayer(n, o)
    PROVE  OnlyLayer(m, o)
  BY DEF OnlyLayer

LEMMA OnlyLayerExcept ==
    ASSUME NEW m, IsMap(m), NEW x
    PROVE  OnlyLayer(m, [m EXCEPT !.layer = x])
  BY DEF OnlyLayer, IsMap

LEMMA DisplayOnly ==
    ASSUME NEW m, IsMap(m), NEW l, NEW flag
    PROVE  OnlyLayer(m, Display(m, l, flag))
  BY OnlyLayerExcept DEF Display

LEMMA MoveLayerOnly ==
    ASSUME NEW m, IsMap(m), NEW l, NEW zoomChanged, NEW dragging
    PROVE  OnlyLayer(m, MoveLayer(m, l, zoomChanged, dragging))
  BY OnlyLayerExcept DEF MoveLayer

LEMMA RedrawOnly ==
    ASSUME NEW m, IsMap(m), NEW l
    PROVE  OnlyLayer(m, Redraw(m, l))
  <1> DEFINE ranged == [m EXCEPT !.layer[l].inRange = CalculateInRange(m, l)]
  <1>1. OnlyLayer(m, ranged)
    BY OnlyLayerExcept
  <1>2. IsMap(ranged)
    BY <1>1 DEF OnlyLayer
  <1> HIDE DEF ranged
  <1>3. OnlyLayer(ranged, MoveLayer(ranged, l, TRUE, FALSE))
    BY <1>2, MoveLayerOnly
  <1>4. OnlyLayer(m, MoveLayer(ranged, l, TRUE, FALSE))
    BY <1>1, <1>3, OnlyLayerTrans
  <1> QED  BY <1>1, <1>4 DEF Redraw, ranged

LEMMA SetVisibilityOnly ==
    ASSUME NEW m, IsMap(m), NEW l, NEW visibility
    PROVE  OnlyLayer(m, SetVisibility(m, l, visibility))
  <1> DEFINE shown == [m EXCEPT !.layer[l].visibility = visibility]
             displayed == Display(shown, l, visibility)
  <1>1. OnlyLayer(m, shown)
    BY OnlyLayerExcept
  <1>2. IsMap(shown)
    BY <1>1 DEF OnlyLayer
  <1>3. OnlyLayer(shown, displayed)
    BY <1>2, DisplayOnly
  <1>4. IsMap(displayed)
    BY <1>3 DEF OnlyLayer
  <1>5. OnlyLayer(displayed, Redraw(displayed, l))
    BY <1>4, RedrawOnly
  <1>6. OnlyLayer(m, Redraw(displayed, l))
    BY <1>1, <1>3, <1>5, OnlyLayerTrans
  <1>7. OnlyLayer(m, m)
    BY DEF OnlyLayer
  <1> QED  BY <1>6, <1>7 DEF SetVisibility

LEMMA NewRequestsOnly ==
    ASSUME NEW m, IsMap(m)
    PROVE  OnlyLayer(m, NewRequests(m))
  BY OnlyLayerExcept DEF NewRequests

LEMMA MoveLayersOnly ==
    ASSUME NEW m, IsMap(m), NEW zoomChanged, NEW dragging
    PROVE  OnlyLayer(m, MoveLayers(m, zoomChanged, dragging))
  <1> DEFINE base == IF m.layer[m.baseLayer].visibility
                       THEN MoveLayer(m, m.baseLayer, zoomChanged, dragging) ELSE m
  <1>1. OnlyLayer(m, m)
    BY DEF OnlyLayer
  <1>2. OnlyLayer(m, base)
    BY <1>1, MoveLayerOnly
  <1>3. IsMap(base)
    BY <1>2 DEF OnlyLayer
  <1> DEFINE all == [base EXCEPT !.layer =
                       [l \in Layer |->
                          IF l \in Base \/ ~InMap(m, l) THEN @[l]
                          ELSE MoveOverlay(base, l, zoomChanged, dragging).layer[l]]]
  <1> HIDE DEF base
  <1>4. OnlyLayer(base, all)
    BY <1>3, OnlyLayerExcept
  <1>5. OnlyLayer(m, all)
    BY <1>2, <1>4, OnlyLayerTrans
  <1> QED  BY <1>5 DEF MoveLayers, base, all

-----------------------------------------------------------------------------
(***************************************************************************)
(* Where a map is moved to.                                                *)
(***************************************************************************)

How == [dragging : BOOLEAN, force : BOOLEAN, noEvent : BOOLEAN]

LEMMA HowTyped ==
    Still \in How /\ Dragged \in How /\ Forced \in How /\ Step \in How /\ Done \in How
  BY DEF Still, Dragged, Forced, Step, Done, How

\* Where moveTo puts the centre.
Target(m, lonlat, zoom) ==
    Clamp(m, IF m.center = None /\ ~ValidLonLat(lonlat) THEN Extent \div 2 ELSE lonlat, zoom)

CenterAfter(m, lonlat, zoom) ==
    IF ValidLonLat(Target(m, lonlat, zoom)) THEN Target(m, lonlat, zoom) ELSE m.center

ZoomChanges(m, zoom, how) == how.force \/ (zoom # None /\ zoom # m.zoom)

\* n is m, moved.
Moved(m, n, lonlat, zoom, how) ==
    /\ IsMap(n)
    /\ n.layers = m.layers /\ n.size = m.size /\ n.baseLayer = m.baseLayer
    /\ n.restrictedExtent = m.restrictedExtent
    /\ n.tween = m.tween /\ n.drag = m.drag
    /\ n.center = CenterAfter(m, lonlat, zoom)
    /\ n.zoom = IF ZoomChanges(m, zoom, how) THEN zoom ELSE m.zoom
    /\ n.resolution = IF ZoomChanges(m, zoom, how) THEN zoom ELSE m.resolution
    /\ n.dragging = how.dragging
    /\ n.announced => how.dragging \/ how.noEvent

LEMMA MoveToMoves ==
    ASSUME NEW m, IsMap(m), NEW lonlat, NEW zoom, NEW how \in How
    PROVE  Moved(m, MoveTo(m, lonlat, zoom, how), lonlat, zoom, how)
  <1> DEFINE clamped == Target(m, lonlat, zoom)
             zoomChanged == ZoomChanges(m, zoom, how)
             centerChanged == ValidLonLat(clamped) /\ clamped # m.center
             started == [m EXCEPT !.announced = @ \/ (~m.dragging /\ ~how.noEvent),
                                  !.center = IF centerChanged THEN clamped ELSE @]
             rezoomed == [started EXCEPT !.zoom = zoom, !.resolution = zoom]
             zoomed  == IF zoomChanged THEN NewRequests(rezoomed) ELSE started
             stirs == zoomChanged \/ centerChanged \/ ~how.dragging
             moved == IF stirs THEN MoveLayers(zoomed, zoomChanged, how.dragging) ELSE m
             last  == [moved EXCEPT !.announced = @ /\ (how.dragging \/ how.noEvent),
                                    !.dragging = how.dragging]
  <1>1. MoveTo(m, lonlat, zoom, how) = last
    BY DEF MoveTo, Target, ZoomChanges
  <1>2. /\ IsMap(started)
        /\ started.layers = m.layers /\ started.size = m.size
        /\ started.baseLayer = m.baseLayer
        /\ started.restrictedExtent = m.restrictedExtent
        /\ started.tween = m.tween /\ started.drag = m.drag
        /\ started.zoom = m.zoom /\ started.resolution = m.resolution
        /\ started.center = CenterAfter(m, lonlat, zoom)
    <2>1. IsMap(started)
      BY DEF IsMap
    <2>2. started.center = IF centerChanged THEN clamped ELSE m.center
      BY DEF IsMap
    <2>3. started.center = CenterAfter(m, lonlat, zoom)
      BY <2>2 DEF CenterAfter
    <2> HIDE DEF clamped, centerChanged
    <2> QED  BY <2>1, <2>3 DEF IsMap
  <1> HIDE DEF started
  <1>3. /\ IsMap(rezoomed)
        /\ rezoomed.layers = m.layers /\ rezoomed.size = m.size
        /\ rezoomed.baseLayer = m.baseLayer
        /\ rezoomed.restrictedExtent = m.restrictedExtent
        /\ rezoomed.tween = m.tween /\ rezoomed.drag = m.drag
        /\ rezoomed.zoom = zoom /\ rezoomed.resolution = zoom
        /\ rezoomed.center = CenterAfter(m, lonlat, zoom)
    BY <1>2 DEF IsMap
  <1> HIDE DEF rezoomed
  <1>4. OnlyLayer(rezoomed, NewRequests(rezoomed))
    BY <1>3, NewRequestsOnly
  <1>5. /\ IsMap(zoomed)
        /\ zoomed.layers = m.layers /\ zoomed.size = m.size
        /\ zoomed.baseLayer = m.baseLayer
        /\ zoomed.restrictedExtent = m.restrictedExtent
        /\ zoomed.tween = m.tween /\ zoomed.drag = m.drag
        /\ zoomed.zoom = IF zoomChanged THEN zoom ELSE m.zoom
        /\ zoomed.resolution = IF zoomChanged THEN zoom ELSE m.resolution
        /\ zoomed.center = CenterAfter(m, lonlat, zoom)
    <2> HIDE DEF zoomChanged
    <2>1. CASE zoomChanged
      BY <1>3, <1>4, <2>1 DEF OnlyLayer
    <2>2. CASE ~zoomChanged
      BY <1>2, <2>2
    <2> QED  BY <2>1, <2>2
  <1> HIDE DEF zoomed
  <1>6. OnlyLayer(zoomed, MoveLayers(zoomed, zoomChanged, how.dragging))
    BY <1>5, MoveLayersOnly
  <1>7. /\ IsMap(moved)
        /\ moved.layers = m.layers /\ moved.size = m.size
        /\ moved.baseLayer = m.baseLayer
        /\ moved.restrictedExtent = m.restrictedExtent
        /\ moved.tween = m.tween /\ moved.drag = m.drag
        /\ moved.zoom = IF zoomChanged THEN zoom ELSE m.zoom
        /\ moved.resolution = IF zoomChanged THEN zoom ELSE m.resolution
        /\ moved.center = CenterAfter(m, lonlat, zoom)
    <2>1. CASE stirs
      <3> HIDE DEF zoomChanged, centerChanged
      <3> QED  BY <1>5, <1>6, <2>1 DEF OnlyLayer
    <2>2. CASE ~stirs
      <3>1. moved = m /\ ~zoomChanged /\ ~centerChanged
        BY <2>2
      <3>2. m.center = CenterAfter(m, lonlat, zoom)
        BY <3>1 DEF CenterAfter
      <3> HIDE DEF zoomChanged, centerChanged, moved
      <3> QED  BY <3>1, <3>2
    <2> HIDE DEF stirs, moved
    <2> QED  BY <2>1, <2>2
  <1> HIDE DEF moved
  <1>8. /\ IsMap(last)
        /\ last.layers = m.layers /\ last.size = m.size
        /\ last.baseLayer = m.baseLayer
        /\ last.restrictedExtent = m.restrictedExtent
        /\ last.tween = m.tween /\ last.drag = m.drag
        /\ last.zoom = IF zoomChanged THEN zoom ELSE m.zoom
        /\ last.resolution = IF zoomChanged THEN zoom ELSE m.resolution
        /\ last.center = CenterAfter(m, lonlat, zoom)
        /\ last.dragging = how.dragging
    <2> HIDE DEF zoomChanged
    <2> QED  BY <1>7 DEF IsMap
  <1>9. last.announced => how.dragging \/ how.noEvent
    <2>1. last.announced = (moved.announced /\ (how.dragging \/ how.noEvent))
      BY <1>7 DEF IsMap
    <2> QED  BY <2>1
  <1> HIDE DEF last
  <1> QED  BY <1>1, <1>8, <1>9 DEF Moved

\* A map that is moved after an animation had to end.
SetCenterOf(m) == IF m.tween.playing THEN PanDone(m) ELSE m

LEMMA PanDoneMoves ==
    ASSUME NEW m, IsMap(m)
    PROVE  LET n == PanDone(m) IN
           /\ IsMap(n)
           /\ n.layers = m.layers /\ n.size = m.size /\ n.baseLayer = m.baseLayer
           /\ n.restrictedExtent = m.restrictedExtent /\ n.drag = m.drag
           /\ n.tween = [m.tween EXCEPT !.playing = FALSE] /\ ~n.tween.playing
           /\ n.center = CenterAfter(m, m.tween.finish, m.zoom)
           /\ n.zoom = m.zoom /\ n.resolution = m.resolution
           /\ n.dragging = FALSE /\ n.announced = FALSE
  <1> DEFINE n == MoveTo(m, m.tween.finish, m.zoom, Done)
  <1>1. Moved(m, n, m.tween.finish, m.zoom, Done)
    BY MoveToMoves, HowTyped
  <1>2. ~ZoomChanges(m, m.zoom, Done) /\ ~Done.dragging
    BY DEF ZoomChanges, Done, Still
  <1> HIDE DEF n
  <1>3. /\ IsMap(n)
        /\ n.layers = m.layers /\ n.size = m.size /\ n.baseLayer = m.baseLayer
        /\ n.restrictedExtent = m.restrictedExtent
        /\ n.tween = m.tween /\ n.drag = m.drag
        /\ n.center = CenterAfter(m, m.tween.finish, m.zoom)
        /\ n.zoom = m.zoom /\ n.resolution = m.resolution
        /\ n.dragging = Done.dragging
    BY <1>1, <1>2 DEF Moved
  <1>4. Done.dragging = FALSE
    BY DEF Done, Still
  <1>5. PanDone(m) = [n EXCEPT !.announced = FALSE, !.tween.playing = FALSE]
    BY DEF PanDone, n
  <1> QED  BY <1>3, <1>4, <1>5 DEF IsMap

-----------------------------------------------------------------------------
(***************************************************************************)
(* A view that has to fit into an extent.                                  *)
(***************************************************************************)
\* The target nearest to which a view, from half to the left of it to half to the
\* right, fits into the extent, or the middle of an extent that is too small.
Confined(allowed, half, target) ==
    IF allowed.left <= target - half /\ target + half <= allowed.right THEN target
    ELSE IF (target + half) - (target - half) > allowed.right - allowed.left
      THEN (allowed.left + allowed.right) \div 2
    ELSE IF target - half < allowed.left THEN target + (allowed.left - (target - half))
    ELSE target + (allowed.right - (target + half))

LEMMA Middle ==
    ASSUME NEW a \in Int, NEW b \in Int, a <= b
    PROVE  /\ (a + b) \div 2 \in Int
           /\ a <= (a + b) \div 2 /\ (a + b) \div 2 <= b
           /\ 2 * ((a + b) \div 2) <= a + b
           /\ a + b <= 2 * ((a + b) \div 2) + 1
  OBVIOUS

\* The confined target stays where it is, and its view fits, one way or the other.
LEMMA ConfinedFits ==
    ASSUME NEW allowed \in Restriction, NEW half \in Nat, NEW target \in Int, Extent \in Nat
    PROVE  LET c == Confined(allowed, half, target) IN
           /\ c \in 0 .. Extent
           /\ Confined(allowed, half, c) = c
           /\ \/ allowed.left <= c - half /\ c + half <= allowed.right
              \/ c - half <= allowed.left /\ allowed.right <= c + half
  <1> DEFINE c == Confined(allowed, half, target)
             left == allowed.left
             right == allowed.right
             middle == (left + right) \div 2
  <1>1. left \in Int /\ right \in Int /\ 0 <= left /\ left <= right /\ right <= Extent
    BY DEF Restriction
  <1>2. /\ middle \in Int /\ left <= middle /\ middle <= right
        /\ 2 * middle <= left + right /\ left + right <= 2 * middle + 1
    BY <1>1, Middle
  <1>3. \A t : Confined(allowed, half, t) =
                 IF left <= t - half /\ t + half <= right THEN t
                 ELSE IF (t + half) - (t - half) > right - left THEN middle
                 ELSE IF t - half < left THEN t + (left - (t - half))
                 ELSE t + (right - (t + half))
    BY DEF Confined
  <1> HIDE DEF c, left, right, middle
  <1>4. CASE left <= target - half /\ target + half <= right
    <2>1. c = target
      BY <1>3, <1>4 DEF c
    <2> QED  BY <1>1, <1>3, <1>4, <2>1 DEF c, left, right
  <1>5. CASE ~(left <= target - half /\ target + half <= right) /\ 2 * half > right - left
    <2>1. (target + half) - (target - half) = 2 * half
      OBVIOUS
    <2>2. c = middle
      BY <1>3, <1>5, <2>1 DEF c
    <2>3. (middle + half) - (middle - half) = 2 * half
      BY <1>2
    <2>4. ~(left <= middle - half /\ middle + half <= right)
      BY <1>1, <1>2, <1>5
    <2>5. Confined(allowed, half, middle) = middle
      BY <1>3, <1>5, <2>3, <2>4
    <2>6. middle - half <= left /\ right <= middle + half
      BY <1>1, <1>2, <1>5
    <2>7. middle \in 0 .. Extent
      BY <1>1, <1>2
    <2> QED  BY <2>2, <2>5, <2>6, <2>7 DEF c, left, right
  <1>6. CASE ~(left <= target - half /\ target + half <= right) /\ ~(2 * half > right - left)
    <2>1. (target + half) - (target - half) = 2 * half
      OBVIOUS
    <2>2. /\ target - half < left => c = target + (left - (target - half))
          /\ ~(target - half < left) => c = target + (right - (target + half))
      BY <1>3, <1>6, <2>1 DEF c
    <2>3. c \in Int /\ left <= c - half /\ c + half <= right
      BY <1>1, <1>6, <2>2
    <2>4. Confined(allowed, half, c) = c
      BY <1>3, <2>3
    <2>5. c \in 0 .. Extent
      BY <1>1, <2>3
    <2> QED  BY <2>3, <2>4, <2>5 DEF c, left, right
  <1> QED  BY <1>1, <1>4, <1>5, <1>6

LEMMA ResolutionPositive ==
    ASSUME NEW zoom
    PROVE  Resolution(zoom) \in Nat \ {0}
  BY MapTilesAssumption DEF Resolution

Half(size, zoom) == (size * Resolution(zoom)) \div 2

LEMMA HalfNat ==
    ASSUME NEW size \in Nat, NEW zoom
    PROVE  Half(size, zoom) \in Nat
  <1>1. Resolution(zoom) \in Nat
    BY ResolutionPositive
  <1>2. size * Resolution(zoom) \in Nat
    BY <1>1
  <1> QED  BY <1>2 DEF Half

\* A map that has its size, and a centre in the world if it has one.
Placed(m) ==
    /\ IsMap(m)
    /\ m.size \in Sizes
    /\ m.center \in (0 .. Extent) \cup {None}
    /\ m.restrictedExtent \in Restriction \cup {Unrestricted}

LEMMA PlacedHalf ==
    ASSUME NEW m, Placed(m), NEW zoom
    PROVE  Half(m.size, zoom) \in Nat
  BY MapViewAssumption, HalfNat DEF Placed

LEMMA ClampConfines ==
    ASSUME NEW m, Placed(m), m.restrictedExtent # Unrestricted, NEW lonlat, NEW zoom
    PROVE  Clamp(m, lonlat, zoom) =
             Confined(m.restrictedExtent,
                      Half(m.size, IF zoom = None THEN m.zoom ELSE zoom),
                      IF lonlat = None THEN m.center ELSE lonlat)
  BY DEF Clamp, Confined, Half, View, Covers

\* A map with a view stays where it is when it is moved there.
Settled(m) ==
    HasExtent(m) /\ m.restrictedExtent # Unrestricted => Clamp(m, m.center, m.zoom) = m.center

LEMMA MovedSettles ==
    ASSUME NEW m, Placed(m), NEW lonlat \in Int \cup {None}, NEW zoom, NEW how \in How,
           how.force => zoom # None,
           NEW n, Moved(m, n, lonlat, zoom, how)
    PROVE  /\ Placed(n) /\ n.center # None
           /\ n.restrictedExtent # Unrestricted => Clamp(n, n.center, n.zoom) = n.center
  <1> DEFINE asked == IF m.center = None /\ ~ValidLonLat(lonlat) THEN Extent \div 2 ELSE lonlat
             clamped == Clamp(m, asked, zoom)
  <1>1. /\ Extent \in Nat /\ None \notin Int /\ Extent \div 2 \in 0 .. Extent
        /\ Extent \div 2 # None
    BY MapTilesAssumption, MapViewAssumption
  <1>2. asked \in Int \cup {None} /\ (m.center = None => asked \in Int)
    BY <1>1 DEF ValidLonLat
  <1>3. Target(m, lonlat, zoom) = clamped
    BY DEF Target
  <1>4. n.center = IF ValidLonLat(clamped) THEN clamped ELSE m.center
    BY <1>3 DEF Moved, CenterAfter
  <1>5. CASE m.restrictedExtent = Unrestricted
    <2>1. clamped = asked
      BY <1>5 DEF Clamp
    <2>2. m.center = None => ValidLonLat(asked)
      <3>1. ValidLonLat(Extent \div 2)
        BY <1>1 DEF ValidLonLat
      <3> QED  BY <3>1
    <2>3. ValidLonLat(asked) => asked \in 0 .. Extent
      BY <1>2 DEF ValidLonLat
    <2> HIDE DEF asked, clamped
    <2>4. n.center \in 0 .. Extent
      BY <1>4, <2>1, <2>2, <2>3 DEF Placed
    <2> QED  BY <1>1, <1>5, <2>4 DEF Placed, Moved
  <1>6. CASE m.restrictedExtent # Unrestricted
    <2> DEFINE half == Half(m.size, IF zoom = None THEN m.zoom ELSE zoom)
               target == IF asked = None THEN m.center ELSE asked
    <2>1. half \in Nat /\ target \in Int
      <3>1. target \in Int
        BY <1>2 DEF Placed
      <3> QED  BY <3>1, PlacedHalf
    <2>2. clamped = Confined(m.restrictedExtent, half, target)
      BY <1>6, ClampConfines
    <2>3. m.restrictedExtent \in Restriction
      BY <1>6 DEF Placed
    <2>4. n.zoom = IF zoom = None THEN m.zoom ELSE zoom
      BY DEF Moved, ZoomChanges
    <2> HIDE DEF asked, clamped, target
    <2>5. /\ clamped \in 0 .. Extent
          /\ Confined(m.restrictedExtent, half, clamped) = clamped
      BY <1>1, <2>1, <2>2, <2>3, ConfinedFits
    <2>6. n.center = clamped
      BY <1>1, <1>4, <2>5 DEF ValidLonLat
    <2>7. Placed(n) /\ n.center # None
      BY <1>1, <2>5, <2>6 DEF Placed, Moved
    <2>8. n.size = m.size /\ n.restrictedExtent = m.restrictedExtent
      BY DEF Moved
    <2>9. half = Half(n.size, IF n.zoom = None THEN n.zoom ELSE n.zoom)
      BY <2>4, <2>8
    <2> HIDE DEF half
    <2>10. Clamp(n, n.center, n.zoom) = Confined(m.restrictedExtent, half, clamped)
      BY <1>6, <2>6, <2>7, <2>8, <2>9, ClampConfines
    <2> QED  BY <2>5, <2>6, <2>7, <2>10
  <1> QED  BY <1>5, <1>6

\* A settled map shows its restrictedExtent, or nothing else.
LEMMA SettledFits ==
    ASSUME NEW m, Placed(m), Settled(m), HasExtent(m), m.restrictedExtent # Unrestricted
    PROVE  LET view == View(m.center, m.zoom, m.size)
           IN  Covers(m.restrictedExtent, view) \/ Covers(view, m.restrictedExtent)
  <1> DEFINE half == Half(m.size, m.zoom)
  <1>1. half \in Nat /\ m.restrictedExtent \in Restriction /\ m.center \in Int /\ Extent \in Nat
    <2>1. half \in Nat
      BY PlacedHalf
    <2> QED  BY <2>1, MapTilesAssumption DEF Placed, HasExtent
  <1>2. Clamp(m, m.center, m.zoom) = Confined(m.restrictedExtent, half, m.center)
    <2>1. m.center # None /\ m.zoom = IF m.zoom = None THEN m.zoom ELSE m.zoom
      BY DEF HasExtent
    <2> QED  BY <2>1, ClampConfines
  <1>3. Confined(m.restrictedExtent, half, m.center) = m.center
    BY <1>2 DEF Settled
  <1>4. LET allowed == m.restrictedExtent
            c == m.center
        IN  \/ allowed.left <= c - half /\ c + half <= allowed.right
            \/ c - half <= allowed.left /\ allowed.right <= c + half
    BY <1>1, <1>3, ConfinedFits
  <1>5. /\ View(m.center, m.zoom, m.size).left = m.center - half
        /\ View(m.center, m.zoom, m.size).right = m.center + half
    BY DEF View, Half
  <1> QED  BY <1>4, <1>5 DEF Covers

-----------------------------------------------------------------------------
(***************************************************************************)
(* The operations, and what holds of a map between two of them.            *)
(***************************************************************************)
\* Of a map inside an operation: its zoom may be null for a moment.
Steady(m) ==
    /\ Placed(m)
    /\ m.zoom \in Zoom \cup {None}
    /\ m.zoom # None => m.resolution \in {None, m.zoom}
    /\ m.tween.begin \in Int /\ m.tween.finish \in Int

\* Of a map between two operations.
AtRest(m) ==
    /\ Steady(m)
    /\ m.zoom \in Zoom
    /\ Settled(m)
    /\ m.announced => m.dragging \/ m.tween.playing

LEMMA ZoomIsInt ==
    None \notin Zoom /\ Zoom \subseteq Int
  BY MapTilesAssumption, MapViewAssumption DEF Zoom

\* How a map depends on the fields that Clamp reads.
LEMMA ClampAlike ==
    ASSUME NEW m, NEW n, Placed(m), Placed(n),
           n.size = m.size, n.restrictedExtent = m.restrictedExtent,
           n.center = m.center, n.zoom = m.zoom,
           NEW lonlat, NEW zoom
    PROVE  Clamp(n, lonlat, zoom) = Clamp(m, lonlat, zoom)
  <1>1. CASE m.restrictedExtent = Unrestricted
    BY <1>1 DEF Clamp
  <1>2. CASE m.restrictedExtent # Unrestricted
    BY <1>2, ClampConfines
  <1> QED  BY <1>1, <1>2

LEMMA PanDoneSteady ==
    ASSUME NEW m, Steady(m)
    PROVE  LET n == PanDone(m) IN
           /\ Steady(n)
           /\ n.layers = m.layers /\ n.size = m.size /\ n.baseLayer = m.baseLayer
           /\ n.restrictedExtent = m.restrictedExtent /\ n.drag = m.drag
           /\ n.zoom = m.zoom /\ n.resolution = m.resolution
           /\ n.tween = [m.tween EXCEPT !.playing = FALSE] /\ ~n.tween.playing
           /\ Settled(n) /\ n.center # None
           /\ ~n.dragging /\ ~n.announced
  <1> DEFINE o == MoveTo(m, m.tween.finish, m.zoom, Done)
             n == PanDone(m)
  <1>1. IsMap(m) /\ Placed(m) /\ m.tween.finish \in Int
    BY DEF Steady, Placed
  <1>2. Moved(m, o, m.tween.finish, m.zoom, Done)
    BY <1>1, MoveToMoves, HowTyped
  <1>3. Done \in How /\ ~Done.force
    BY HowTyped DEF Done, Still
  <1> HIDE DEF o
  <1>4. /\ Placed(o) /\ o.center # None
        /\ o.restrictedExtent # Unrestricted => Clamp(o, o.center, o.zoom) = o.center
    BY <1>1, <1>2, <1>3, MovedSettles
  <1>5. /\ IsMap(n)
        /\ n.layers = m.layers /\ n.size = m.size /\ n.baseLayer = m.baseLayer
        /\ n.restrictedExtent = m.restrictedExtent /\ n.drag = m.drag
        /\ n.tween = [m.tween EXCEPT !.playing = FALSE] /\ ~n.tween.playing
        /\ n.center = CenterAfter(m, m.tween.finish, m.zoom)
        /\ n.zoom = m.zoom /\ n.resolution = m.resolution
        /\ n.dragging = FALSE /\ n.announced = FALSE
    BY <1>1, PanDoneMoves
  <1> HIDE DEF n
  <1>6. /\ n.center = o.center /\ n.size = o.size
        /\ n.restrictedExtent = o.restrictedExtent /\ n.zoom = o.zoom
    BY <1>2, <1>3, <1>5 DEF Moved, ZoomChanges
  <1>7. Placed(n)
    BY <1>4, <1>5, <1>6 DEF Placed
  <1>8. Settled(n)
    <2>1. Clamp(n, n.center, n.zoom) = Clamp(o, n.center, n.zoom)
      BY <1>4, <1>6, <1>7, ClampAlike
    <2> QED  BY <1>4, <1>6, <2>1 DEF Settled
  <1>9. Steady(n)
    <2>1. n.tween.begin = m.tween.begin /\ n.tween.finish = m.tween.finish
      BY <1>1, <1>5 DEF IsMap
    <2> QED  BY <1>5, <1>7, <2>1 DEF Steady
  <1> QED  BY <1>4, <1>5, <1>6, <1>8, <1>9 DEF n

\* setCenter: the map rests where it was sent, if that is a place for it.
LEMMA SetCenterRests ==
    ASSUME NEW m, Steady(m), NEW lonlat \in Int \cup {None}, NEW zoom \in Zoom \cup {None},
           m.zoom = None => zoom # None,
           NEW how \in {Still, Dragged, Forced}, how = Forced => zoom # None
    PROVE  LET n == SetCenter(m, lonlat, zoom, how) IN
           /\ AtRest(n) /\ n.center # None
           /\ n.layers = m.layers /\ n.size = m.size /\ n.baseLayer = m.baseLayer
           /\ n.restrictedExtent = m.restrictedExtent /\ n.drag = m.drag
           /\ n.zoom = IF zoom = None THEN m.zoom ELSE zoom
           /\ \/ lonlat \notin 0 .. Extent
              \/ /\ m.restrictedExtent # Unrestricted
                 /\ Clamp(m, lonlat, zoom) # lonlat
              \/ n.center = lonlat
  <1> DEFINE o == IF m.tween.playing THEN PanDone(m) ELSE m
             n == MoveTo(o, lonlat, zoom, how)
  <1>1. /\ Steady(o)
        /\ o.layers = m.layers /\ o.size = m.size /\ o.baseLayer = m.baseLayer
        /\ o.restrictedExtent = m.restrictedExtent /\ o.drag = m.drag
        /\ o.zoom = m.zoom /\ o.resolution = m.resolution
        /\ ~o.tween.playing
    BY PanDoneSteady
  <1>2. SetCenter(m, lonlat, zoom, how) = n
    BY DEF SetCenter
  <1>3. how \in How /\ (how.force => zoom # None) /\ ~how.noEvent
    <2>1. /\ ~Still.force /\ ~Still.noEvent
          /\ ~Dragged.force /\ ~Dragged.noEvent /\ ~Forced.noEvent
      BY DEF Still, Dragged, Forced
    <2> QED  BY <2>1, HowTyped
  <1>4. Placed(o) /\ IsMap(o)
    BY <1>1 DEF Steady, Placed
  <1> HIDE DEF o
  <1>5. Moved(o, n, lonlat, zoom, how)
    BY <1>3, <1>4, MoveToMoves
  <1> HIDE DEF n
  <1>6. /\ Placed(n) /\ n.center # None
        /\ n.restrictedExtent # Unrestricted => Clamp(n, n.center, n.zoom) = n.center
    BY <1>3, <1>4, <1>5, MovedSettles
  <1>7. n.zoom = IF zoom = None THEN m.zoom ELSE zoom
    BY <1>1, <1>3, <1>5 DEF Moved, ZoomChanges
  <1>8. n.zoom \in Zoom
    BY <1>1, <1>7 DEF Steady
  <1>9. n.resolution \in {None, n.zoom}
    <2>1. CASE ZoomChanges(o, zoom, how)
      BY <1>5, <2>1 DEF Moved
    <2>2. CASE ~ZoomChanges(o, zoom, how)
      <3>1. n.zoom = o.zoom /\ n.resolution = o.resolution
        BY <1>5, <2>2 DEF Moved
      <3> QED  BY <1>1, <1>8, <3>1, ZoomIsInt DEF Steady
    <2> QED  BY <2>1, <2>2
  <1>10. AtRest(n)
    <2>1. Steady(n)
      BY <1>1, <1>5, <1>6, <1>8, <1>9 DEF Steady, Moved
    <2>2. Settled(n)
      BY <1>6 DEF Settled
    <2>3. n.announced => n.dragging
      BY <1>3, <1>5 DEF Moved
    <2> QED  BY <1>8, <2>1, <2>2, <2>3 DEF AtRest
  <1>11. ASSUME lonlat \in 0 .. Extent,
                m.restrictedExtent = Unrestricted \/ Clamp(m, lonlat, zoom) = lonlat
         PROVE  n.center = lonlat
    <2>1. lonlat \in Int /\ lonlat # None /\ ValidLonLat(lonlat)
      BY <1>11, MapTilesAssumption, MapViewAssumption DEF ValidLonLat
    <2>2. Target(o, lonlat, zoom) = Clamp(o, lonlat, zoom)
      BY <2>1 DEF Target
    <2>3. Clamp(o, lonlat, zoom) = lonlat
      <3>1. CASE m.restrictedExtent = Unrestricted
        BY <1>1, <3>1 DEF Clamp
      <3>2. CASE m.restrictedExtent # Unrestricted
        BY <1>1, <1>4, <1>11, <2>1, <3>2, ClampConfines DEF Steady
      <3> QED  BY <3>1, <3>2
    <2> QED  BY <1>5, <2>1, <2>2, <2>3 DEF Moved, CenterAfter
  <1>12. /\ n.layers = m.layers /\ n.size = m.size /\ n.baseLayer = m.baseLayer
         /\ n.restrictedExtent = m.restrictedExtent /\ n.drag = m.drag
    BY <1>1, <1>5 DEF Moved
  <1>13. \/ lonlat \notin 0 .. Extent
         \/ m.restrictedExtent # Unrestricted /\ Clamp(m, lonlat, zoom) # lonlat
         \/ n.center = lonlat
    BY <1>11
  <1> QED  BY <1>2, <1>6, <1>7, <1>10, <1>12, <1>13, Zenon

\* What a map is and where it is, but for its layers and its base layer.
SameView(m, n) ==
    /\ IsMap(n)
    /\ n.size = m.size /\ n.center = m.center /\ n.zoom = m.zoom
    /\ n.resolution = m.resolution /\ n.restrictedExtent = m.restrictedExtent
    /\ n.dragging = m.dragging /\ n.announced = m.announced
    /\ n.tween = m.tween

LEMMA SameViewSteady ==
    ASSUME NEW m, NEW n, Steady(m), SameView(m, n)
    PROVE  Steady(n)
  BY DEF Steady, SameView, Placed

LEMMA SameViewRests ==
    ASSUME NEW m, NEW n, AtRest(m), SameView(m, n), n.baseLayer \in {m.baseLayer, None}
    PROVE  AtRest(n)
  <1>1. Steady(m) /\ Steady(n) /\ Placed(m) /\ Placed(n)
    BY SameViewSteady DEF AtRest, Steady
  <1>2. Clamp(n, n.center, n.zoom) = Clamp(m, m.center, m.zoom)
    BY <1>1, ClampAlike DEF SameView
  <1>3. Settled(n)
    BY <1>2 DEF AtRest, Settled, HasExtent, SameView
  <1> QED  BY <1>1, <1>3 DEF AtRest, SameView

LEMMA OnlyLayerRests ==
    ASSUME NEW m, NEW n, AtRest(m), OnlyLayer(m, n)
    PROVE  AtRest(n) /\ SameView(m, n)
  <1>1. SameView(m, n) /\ n.baseLayer = m.baseLayer
    BY DEF OnlyLayer, SameView
  <1> QED  BY <1>1, SameViewRests

\* setBaseLayer: the map stays where it is if it may.
LEMMA SetBaseLayerRests ==
    ASSUME NEW m, AtRest(m), NEW l
    PROVE  LET n == SetBaseLayer(m, l) IN
           /\ AtRest(n)
           /\ n.layers = m.layers /\ n.size = m.size /\ n.drag = m.drag
           /\ n.restrictedExtent = m.restrictedExtent
           /\ n.baseLayer = l
           /\ m.center = None => n.center = None
           /\ \/ m.resolution = None
              \/ /\ m.center # None /\ m.restrictedExtent # Unrestricted
                 /\ Clamp(m, m.center, m.zoom) # m.center
              \/ n.center = m.center /\ n.zoom = m.zoom
  <1> DEFINE zoom == IF m.baseLayer # None THEN m.zoom
                     ELSE IF m.resolution = None THEN MaxZoom ELSE m.resolution
             hidden == IF m.baseLayer = None THEN m ELSE SetVisibility(m, m.baseLayer, FALSE)
             other == [hidden EXCEPT !.baseLayer = l, !.layer[l].visibility = TRUE]
             based == NewRequests(other)
  <1>1. Steady(m) /\ IsMap(m) /\ Placed(m) /\ m.zoom \in Zoom
    BY DEF AtRest, Steady, Placed
  <1>2. CASE l = m.baseLayer
    <2>1. SetBaseLayer(m, l) = m
      BY <1>2 DEF SetBaseLayer
    <2> QED  BY <1>2, <2>1
  <1>3. CASE l # m.baseLayer
    <2>1. OnlyLayer(m, hidden)
      <3>1. OnlyLayer(m, m)
        BY <1>1 DEF OnlyLayer
      <3>2. OnlyLayer(m, SetVisibility(m, m.baseLayer, FALSE))
        BY <1>1, SetVisibilityOnly
      <3> QED  BY <3>1, <3>2
    <2> HIDE DEF hidden
    <2>2. /\ SameView(m, other) /\ other.layers = m.layers /\ other.drag = m.drag
          /\ other.baseLayer = l
      BY <2>1 DEF OnlyLayer, SameView, IsMap
    <2> HIDE DEF other
    <2>3. OnlyLayer(other, based)
      BY <2>2, NewRequestsOnly DEF SameView
    <2> HIDE DEF based
    <2>4. /\ SameView(m, based) /\ based.layers = m.layers /\ based.drag = m.drag
          /\ based.baseLayer = l
      BY <2>2, <2>3 DEF OnlyLayer, SameView
    <2>5. Steady(based)
      BY <1>1, <2>4, SameViewSteady
    <2>6. SetBaseLayer(m, l) = IF m.center = None THEN based
                               ELSE SetCenter(based, m.center, zoom, Forced)
      BY <1>3 DEF SetBaseLayer, based, other, hidden
    <2>7. CASE m.center = None
      <3>1. SetBaseLayer(m, l) = based
        BY <2>6, <2>7
      <3>2. Settled(based)
        BY <2>4, <2>7 DEF Settled, HasExtent, SameView
      <3>3. AtRest(based)
        BY <1>1, <2>4, <2>5, <3>2 DEF AtRest, SameView
      <3>4. /\ based.layers = m.layers /\ based.size = m.size /\ based.drag = m.drag
            /\ based.restrictedExtent = m.restrictedExtent /\ based.baseLayer = l
            /\ based.center = m.center /\ based.zoom = m.zoom
        BY <2>4 DEF SameView
      <3> QED  BY <2>7, <3>1, <3>3, <3>4
    <2>8. CASE m.center # None
      <3> DEFINE n == SetCenter(based, m.center, zoom, Forced)
      <3>1. SetBaseLayer(m, l) = n
        BY <2>6, <2>8
      <3>2. zoom \in Zoom /\ (m.resolution # None => zoom = m.zoom)
        <4>1. m.resolution \in {None, m.zoom} /\ MaxZoom \in Zoom
          BY <1>1, ZoomIsInt, MapTilesAssumption DEF Steady, Zoom
        <4> QED  BY <1>1, <4>1
      <3>3. m.center \in 0 .. Extent /\ m.center \in Int \cup {None}
        BY <1>1, <2>8 DEF Placed
      <3> HIDE DEF zoom
      <3>4. zoom \in Zoom \cup {None} /\ zoom # None
        BY <3>2, ZoomIsInt
      <3>5. /\ AtRest(n) /\ n.center # None
            /\ n.layers = based.layers /\ n.size = based.size /\ n.baseLayer = based.baseLayer
            /\ n.restrictedExtent = based.restrictedExtent /\ n.drag = based.drag
            /\ n.zoom = IF zoom = None THEN based.zoom ELSE zoom
            /\ \/ m.center \notin 0 .. Extent
               \/ /\ based.restrictedExtent # Unrestricted
                  /\ Clamp(based, m.center, zoom) # m.center
               \/ n.center = m.center
        BY <2>5, <3>3, <3>4, SetCenterRests
      <3> HIDE DEF n
      <3>6. zoom = m.zoom => Clamp(based, m.center, zoom) = Clamp(m, m.center, m.zoom)
        BY <1>1, <2>4, <2>5, ClampAlike DEF Steady, SameView
      <3>7. \/ m.resolution = None
            \/ /\ m.center # None /\ m.restrictedExtent # Unrestricted
               /\ Clamp(m, m.center, m.zoom) # m.center
            \/ n.center = m.center /\ n.zoom = m.zoom
        BY <2>4, <2>8, <3>2, <3>3, <3>4, <3>5, <3>6 DEF SameView
      <3>8. /\ n.layers = m.layers /\ n.size = m.size /\ n.drag = m.drag
            /\ n.restrictedExtent = m.restrictedExtent /\ n.baseLayer = l
        BY <2>4, <3>5 DEF SameView
      <3> QED  BY <2>8, <3>1, <3>5, <3>7, <3>8
    <2> QED  BY <2>7, <2>8
  <1> QED  BY <1>2, <1>3

\* addLayer: of the view, only that of a map without base layer changes.
LEMMA AddLayerRests ==
    ASSUME NEW m, AtRest(m), NEW l
    PROVE  LET n == AddLayer(m, l) IN
           /\ AtRest(n)
           /\ n.size = m.size /\ n.drag = m.drag
           /\ n.restrictedExtent = m.restrictedExtent
           /\ m.center = None => n.center = None
           /\ \/ m.resolution = None
              \/ m.baseLayer = None /\ m.restrictedExtent # Unrestricted
              \/ n.center = m.center /\ n.zoom = m.zoom
  <1> DEFINE added == [m EXCEPT !.layers = Append(@, l)]
             range == CalculateInRange(m, l)
             mapped == [added EXCEPT !.layer[l].inRange = range,
                                     !.layer[l].displayed = m.layer[l].visibility /\ range]
  <1>1. IsMap(m)
    BY DEF AtRest, Steady, Placed
  <1>2. SameView(m, added) /\ added.baseLayer = m.baseLayer /\ added.drag = m.drag
    BY <1>1 DEF SameView, IsMap
  <1>3. AtRest(added)
    BY <1>2, SameViewRests
  <1> HIDE DEF added
  <1>4. IsMap(added)
    BY <1>2 DEF SameView
  <1>5. OnlyLayer(added, mapped)
    BY <1>4, OnlyLayerExcept
  <1> HIDE DEF mapped
  <1>6. OnlyLayer(added, Redraw(mapped, l))
    <2>1. IsMap(mapped)
      BY <1>5 DEF OnlyLayer
    <2>2. OnlyLayer(mapped, Redraw(mapped, l))
      BY <2>1, RedrawOnly
    <2> QED  BY <1>5, <2>2, OnlyLayerTrans
  <1>7. OnlyLayer(added, SetVisibility(added, l, FALSE))
    BY <1>4, SetVisibilityOnly
  <1>8. AddLayer(m, l) = IF InMap(m, l) THEN m
                         ELSE IF l \notin Base THEN Redraw(mapped, l)
                         ELSE IF m.baseLayer = None THEN SetBaseLayer(added, l)
                         ELSE SetVisibility(added, l, FALSE)
    BY DEF AddLayer, added, mapped
  <1>9. CASE AddLayer(m, l) = m
    BY <1>9
  <1>10. CASE OnlyLayer(added, AddLayer(m, l))
    <2> DEFINE n == AddLayer(m, l)
    <2>1. AtRest(n) /\ SameView(added, n) /\ n.drag = added.drag
      BY <1>3, <1>10, OnlyLayerRests DEF OnlyLayer
    <2> HIDE DEF n
    <2> QED  BY <1>2, <2>1 DEF SameView, n
  <1>11. CASE m.baseLayer = None /\ AddLayer(m, l) = SetBaseLayer(added, l)
    <2> DEFINE n == SetBaseLayer(added, l)
    <2>1. /\ AtRest(n)
          /\ n.size = added.size /\ n.drag = added.drag
          /\ n.restrictedExtent = added.restrictedExtent
          /\ added.center = None => n.center = None
          /\ \/ added.resolution = None
             \/ added.restrictedExtent # Unrestricted
             \/ n.center = added.center /\ n.zoom = added.zoom
      BY <1>3, SetBaseLayerRests
    <2> HIDE DEF n
    <2>2. /\ n.size = m.size /\ n.drag = m.drag
          /\ n.restrictedExtent = m.restrictedExtent
          /\ m.center = None => n.center = None
          /\ \/ m.resolution = None
             \/ m.restrictedExtent # Unrestricted
             \/ n.center = m.center /\ n.zoom = m.zoom
      BY <1>2, <2>1 DEF SameView
    <2>3. AddLayer(m, l) = n
      BY <1>11 DEF n
    <2> QED  BY <1>11, <2>1, <2>2, <2>3
  <1>12. CASE InMap(m, l)
    BY <1>8, <1>9, <1>12
  <1>13. CASE ~InMap(m, l) /\ (l \notin Base \/ m.baseLayer # None)
    BY <1>6, <1>7, <1>8, <1>10, <1>13
  <1>14. CASE ~InMap(m, l) /\ l \in Base /\ m.baseLayer = None
    BY <1>8, <1>11, <1>14
  <1> QED  BY <1>12, <1>13, <1>14

\* removeLayer: another base layer shows what the one that is removed has shown.
LEMMA RemoveLayerRests ==
    ASSUME NEW m, AtRest(m), NEW l, l # None
    PROVE  LET n == RemoveLayer(m, l) IN
           /\ AtRest(n)
           /\ n.size = m.size /\ n.drag = m.drag
           /\ n.restrictedExtent = m.restrictedExtent
           /\ m.resolution = None \/ (n.center = m.center /\ n.zoom = m.zoom)
  <1> DEFINE removed == [m EXCEPT !.layers = RemoveItem(@, l),
                                  !.baseLayer = IF @ = l THEN None ELSE @]
             left == {k \in DOMAIN removed.layers : removed.layers[k] \in Base}
             first == removed.layers[Min(left)]
  <1>1. IsMap(m) /\ Placed(m)
    BY DEF AtRest, Steady, Placed
  <1>2. /\ SameView(m, removed) /\ removed.drag = m.drag
        /\ removed.baseLayer \in {m.baseLayer, None}
    BY <1>1 DEF SameView, IsMap
  <1>3. RemoveLayer(m, l) = IF m.baseLayer = l /\ left # {}
                              THEN SetBaseLayer(removed, first) ELSE removed
    BY DEF RemoveLayer
  <1> HIDE DEF removed, left, first
  <1>4. AtRest(removed)
    BY <1>2, SameViewRests
  <1>5. CASE RemoveLayer(m, l) = removed
    BY <1>2, <1>4, <1>5 DEF SameView
  <1>6. CASE m.baseLayer = l /\ RemoveLayer(m, l) = SetBaseLayer(removed, first)
    <2> DEFINE n == SetBaseLayer(removed, first)
    <2>1. /\ AtRest(n)
          /\ n.size = removed.size /\ n.drag = removed.drag
          /\ n.restrictedExtent = removed.restrictedExtent
          /\ \/ removed.resolution = None
             \/ /\ removed.center # None /\ removed.restrictedExtent # Unrestricted
                /\ Clamp(removed, removed.center, removed.zoom) # removed.center
             \/ n.center = removed.center /\ n.zoom = removed.zoom
      BY <1>4, SetBaseLayerRests
    <2> HIDE DEF n
    <2>2. m.center # None /\ m.restrictedExtent # Unrestricted
            => Clamp(removed, removed.center, removed.zoom) = removed.center
      <3>1. Placed(removed)
        BY <1>4 DEF AtRest, Steady
      <3>2. Clamp(removed, m.center, m.zoom) = Clamp(m, m.center, m.zoom)
        BY <1>1, <1>2, <3>1, ClampAlike DEF SameView
      <3> QED  BY <1>2, <1>6, <3>2 DEF AtRest, Settled, HasExtent, SameView
    <2>3. AtRest(n) /\ n.size = m.size /\ n.drag = m.drag
          /\ n.restrictedExtent = m.restrictedExtent
          /\ (m.resolution = None \/ (n.center = m.center /\ n.zoom = m.zoom))
      BY <1>2, <2>1, <2>2 DEF SameView
    <2>4. RemoveLayer(m, l) = n
      BY <1>6 DEF n
    <2> QED  BY <2>3, <2>4
  <1> QED  BY <1>3, <1>5, <1>6

\* A call of setCenter, without the zoom or with one.
LEMMA CallRests ==
    ASSUME NEW m, Steady(m), NEW lonlat \in Int \cup {None}, NEW zoom \in Zoom \cup {None},
           m.zoom = None => zoom # None,
           NEW how \in {Still, Dragged}
    PROVE  LET n == SetCenter(m, lonlat, zoom, how) IN
           /\ AtRest(n)
           /\ n.layers = m.layers /\ n.baseLayer = m.baseLayer /\ n.drag = m.drag
           /\ n.restrictedExtent = m.restrictedExtent
  <1>1. how \in {Still, Dragged, Forced} /\ how # Forced
    BY DEF Still, Dragged, Forced
  <1> QED  BY <1>1, SetCenterRests

\* updateSize
LEMMA UpdateSizeRests ==
    ASSUME NEW m, AtRest(m), NEW size \in Sizes
    PROVE  LET n == UpdateSize(m, size) IN
           /\ AtRest(n)
           /\ n.layers = m.layers /\ n.baseLayer = m.baseLayer /\ n.drag = m.drag
           /\ n.restrictedExtent = m.restrictedExtent
  <1> DEFINE resized == [m EXCEPT !.size = size,
                           !.layer = [l \in Layer |->
                              IF InMap(m, l) THEN OnMapResize(@[l], l \in SingleTile) ELSE @[l]]]
             zoomless == [resized EXCEPT !.zoom = None]
             n == SetCenter(zoomless, m.center, m.zoom, Still)
  <1>1. IsMap(m) /\ Placed(m) /\ Steady(m) /\ m.zoom \in Zoom
    BY DEF AtRest, Steady, Placed
  <1>2. /\ IsMap(resized)
        /\ resized.layers = m.layers /\ resized.baseLayer = m.baseLayer
        /\ resized.drag = m.drag /\ resized.restrictedExtent = m.restrictedExtent
        /\ resized.center = m.center /\ resized.zoom = m.zoom
        /\ resized.resolution = m.resolution /\ resized.tween = m.tween
        /\ resized.dragging = m.dragging /\ resized.announced = m.announced
        /\ resized.size = size /\ size \in Nat
    BY <1>1, MapViewAssumption DEF IsMap
  <1>3. UpdateSize(m, size) = IF m.baseLayer = None THEN resized ELSE n
    BY DEF UpdateSize
  <1> HIDE DEF resized
  <1>4. Steady(resized)
    BY <1>1, <1>2 DEF Steady, Placed
  <1>5. CASE m.baseLayer = None
    <2>1. AtRest(resized)
      <3>1. Settled(resized)
        BY <1>2, <1>5 DEF Settled, HasExtent
      <3> QED  BY <1>2, <1>4, <3>1 DEF AtRest
    <2> QED  BY <1>2, <1>3, <1>5, <2>1
  <1>6. CASE m.baseLayer # None
    <2>1. /\ Steady(zoomless)
          /\ zoomless.layers = m.layers /\ zoomless.baseLayer = m.baseLayer
          /\ zoomless.drag = m.drag /\ zoomless.restrictedExtent = m.restrictedExtent
      BY <1>2, <1>4 DEF Steady, Placed, IsMap
    <2> HIDE DEF zoomless
    <2>2. m.center \in Int \cup {None} /\ m.zoom \in Zoom \cup {None} /\ m.zoom # None
      BY <1>1, ZoomIsInt, MapTilesAssumption DEF Placed
    <2>3. Still \in {Still, Dragged} /\ (zoomless.zoom = None => m.zoom # None)
      BY <2>2
    <2>4. /\ AtRest(n)
          /\ n.layers = zoomless.layers /\ n.baseLayer = zoomless.baseLayer
          /\ n.restrictedExtent = zoomless.restrictedExtent /\ n.drag = zoomless.drag
      BY <2>1, <2>2, <2>3, CallRests
    <2> HIDE DEF n
    <2> QED  BY <1>3, <1>6, <2>1, <2>4
  <1> QED  BY <1>5, <1>6

LEMMA PanToRests ==
    ASSUME NEW m, AtRest(m), HasExtent(m), NEW lonlat \in Int
    PROVE  LET n == PanTo(m, lonlat) IN
           /\ AtRest(n)
           /\ n.layers = m.layers /\ n.baseLayer = m.baseLayer /\ n.drag = m.drag
           /\ n.restrictedExtent = m.restrictedExtent
  <1> DEFINE moved == SetCenter(m, lonlat, None, Still)
             panned == [m EXCEPT !.announced = TRUE,
                                 !.tween = [playing |-> TRUE, begin |-> m.center,
                                            finish |-> lonlat, time |-> 0]]
  <1>1. PanTo(m, lonlat) \in {moved, m, panned}
    BY DEF PanTo
  <1>2. /\ AtRest(moved)
        /\ moved.layers = m.layers /\ moved.baseLayer = m.baseLayer /\ moved.drag = m.drag
        /\ moved.restrictedExtent = m.restrictedExtent
    BY ZoomIsInt, CallRests DEF AtRest
  <1>3. IsMap(m) /\ Placed(m) /\ Steady(m) /\ m.zoom \in Zoom
    BY DEF AtRest, Steady, Placed
  <1>4. /\ IsMap(panned)
        /\ panned.layers = m.layers /\ panned.baseLayer = m.baseLayer
        /\ panned.drag = m.drag /\ panned.restrictedExtent = m.restrictedExtent
        /\ panned.size = m.size /\ panned.center = m.center /\ panned.zoom = m.zoom
        /\ panned.resolution = m.resolution
        /\ panned.tween.playing /\ panned.tween.begin = m.center
        /\ panned.tween.finish = lonlat
    BY <1>3 DEF IsMap
  <1> HIDE DEF panned, moved
  <1>5. Placed(panned)
    BY <1>3, <1>4 DEF Placed
  <1>6. Steady(panned)
    BY <1>3, <1>4, <1>5, MapTilesAssumption DEF Steady, Placed, HasExtent
  <1>7. Settled(panned)
    <2>1. Clamp(panned, m.center, m.zoom) = Clamp(m, m.center, m.zoom)
      BY <1>3, <1>4, <1>5, ClampAlike
    <2> QED  BY <1>4, <2>1 DEF AtRest, Settled, HasExtent
  <1>8. AtRest(panned)
    BY <1>3, <1>4, <1>6, <1>7 DEF AtRest
  <1> QED  BY <1>1, <1>2, <1>4, <1>8

LEMMA PlayRests ==
    ASSUME NEW m, AtRest(m), m.tween.playing
    PROVE  LET n == Play(m) IN
           /\ AtRest(n)
           /\ n.layers = m.layers /\ n.baseLayer = m.baseLayer /\ n.drag = m.drag
           /\ n.restrictedExtent = m.restrictedExtent
  <1> DEFINE next == [m EXCEPT !.tween.time = @ + 1]
             lonlat == Eased(m.tween)
             o == MoveTo(next, lonlat, m.zoom, Step)
  <1>1. IsMap(m) /\ Placed(m) /\ Steady(m) /\ m.zoom \in Zoom
    BY DEF AtRest, Steady, Placed
  <1>2. Play(m) = IF next.tween.time > Duration THEN PanDone(o) ELSE o
    BY DEF Play
  <1>3. /\ IsMap(next)
        /\ next.layers = m.layers /\ next.baseLayer = m.baseLayer
        /\ next.drag = m.drag /\ next.restrictedExtent = m.restrictedExtent
        /\ next.size = m.size /\ next.center = m.center /\ next.zoom = m.zoom
        /\ next.resolution = m.resolution
        /\ next.tween.playing = m.tween.playing
        /\ next.tween.begin = m.tween.begin /\ next.tween.finish = m.tween.finish
    BY <1>1 DEF IsMap
  <1> HIDE DEF next
  <1>4. Placed(next) /\ Steady(next)
    BY <1>1, <1>3 DEF Placed, Steady
  <1>5. lonlat \in Int \cup {None}
    <2>1. m.tween.begin \in Int /\ m.tween.finish \in Int
      BY <1>1 DEF Steady
    <2>2. (m.tween.begin + m.tween.finish) \div 2 \in Int
      BY <2>1
    <2> QED  BY <2>1, <2>2 DEF Eased
  <1> HIDE DEF lonlat
  <1>6. Step \in How /\ Step.force = FALSE /\ Step.dragging = TRUE
    BY HowTyped DEF Step, Dragged, Still
  <1>7. Moved(next, o, lonlat, m.zoom, Step)
    BY <1>3, <1>6, MoveToMoves
  <1> HIDE DEF o
  <1>8. /\ Placed(o) /\ o.center # None
        /\ o.restrictedExtent # Unrestricted => Clamp(o, o.center, o.zoom) = o.center
    BY <1>4, <1>5, <1>6, <1>7, MovedSettles
  <1>9. /\ o.layers = m.layers /\ o.baseLayer = m.baseLayer /\ o.drag = m.drag
        /\ o.restrictedExtent = m.restrictedExtent /\ o.tween = next.tween
        /\ o.zoom = m.zoom /\ o.resolution = m.resolution /\ o.dragging = TRUE
    BY <1>3, <1>6, <1>7 DEF Moved, ZoomChanges
  <1>10. Steady(o)
    BY <1>1, <1>3, <1>8, <1>9 DEF Steady
  <1>11. AtRest(o)
    BY <1>1, <1>8, <1>9, <1>10 DEF AtRest, Settled
  <1>12. /\ Steady(PanDone(o)) /\ Settled(PanDone(o)) /\ ~PanDone(o).announced
         /\ PanDone(o).layers = o.layers /\ PanDone(o).baseLayer = o.baseLayer
         /\ PanDone(o).drag = o.drag /\ PanDone(o).restrictedExtent = o.restrictedExtent
         /\ PanDone(o).zoom = o.zoom
    BY <1>10, PanDoneSteady
  <1>13. AtRest(PanDone(o))
    BY <1>1, <1>9, <1>12 DEF AtRest
  <1> QED  BY <1>2, <1>9, <1>11, <1>12, <1>13

-----------------------------------------------------------------------------
(***************************************************************************)
(* The layers of a page are added one after the other: induction over      *)
(* their number, by the least one for which a statement fails.             *)
(***************************************************************************)
\* The order of the natural numbers, as a relation.
NatOrder == {p \in Nat \X Nat : p[1] < p[2]}

LEMMA NatOrderWellFounded == IsWellFoundedOn(NatOrder, Nat)
  BY NatLessThanWellFounded, Zenon DEF OpToRel, NatOrder

\* A set of numbers that is not empty has a least one.
LEMMA LeastNumber ==
    ASSUME NEW S, S \subseteq Nat, S # {}
    PROVE  \E k \in S : \A n \in S : k <= n
  <1>1. \A k, n \in Nat : n < k => <<n, k>> \in NatOrder
    BY DEF NatOrder
  <1>2. PICK k \in S : \A n \in S : ~(<<n, k>> \in NatOrder)
    BY NatOrderWellFounded, WFMin
  <1>3. \A n \in S : k \in Nat /\ n \in Nat /\ ~(n < k)
    BY <1>1, <1>2
  <1> QED  BY <1>3

\* No number is bad if 0 is not, and none that follows on a good one.
LEMMA Descent ==
    ASSUME NEW S, S \subseteq Nat, 0 \notin S, \A n \in S : n - 1 \in S
    PROVE  S = {}
  <1>1. SUFFICES ASSUME S # {} PROVE FALSE
    OBVIOUS
  <1>2. PICK k \in S : \A n \in S : k <= n
    BY <1>1, LeastNumber
  <1>3. k - 1 \in S /\ k \in Nat
    BY <1>2
  <1>4. k <= k - 1
    BY <1>2, <1>3
  <1> QED  BY <1>3, <1>4

IsAdding(f, m, layers) ==
    f = [k \in 0 .. Len(layers) |-> IF k = 0 THEN m ELSE AddLayer(f[k - 1], layers[k])]

LEMMA AddingExists ==
    ASSUME NEW m, NEW layers \in Seq(Layer)
    PROVE  \E f : IsAdding(f, m, layers)
  <1> DEFINE Upto(f, n) == f = [k \in 0 .. n |->
                                  IF k = 0 THEN m ELSE AddLayer(f[k - 1], layers[k])]
             Bad == {n \in 0 .. Len(layers) : ~ \E f : Upto(f, n)}
  <1>1. \E f : Upto(f, 0)
    <2>1. Upto([k \in 0 .. 0 |-> m], 0)
      OBVIOUS
    <2> QED  BY <2>1
  <1>2. ASSUME NEW n \in 1 .. Len(layers), NEW f, Upto(f, n - 1)
        PROVE  \E g : Upto(g, n)
    <2> DEFINE g == [k \in 0 .. n |-> IF k = n THEN AddLayer(f[n - 1], layers[n]) ELSE f[k]]
    <2>1. ASSUME NEW k \in 0 .. n
          PROVE  g[k] = IF k = 0 THEN m ELSE AddLayer(g[k - 1], layers[k])
      <3>1. CASE k = n
        <4>1. k # 0 /\ k - 1 \in 0 .. n /\ k - 1 # n /\ g[k - 1] = f[k - 1]
          BY <3>1
        <4> QED  BY <3>1, <4>1
      <3>2. CASE k # n
        <4>1. k \in 0 .. n - 1 /\ g[k] = f[k]
          BY <3>2
        <4>2. k # 0 => k - 1 \in 0 .. n /\ k - 1 # n /\ g[k - 1] = f[k - 1]
          BY <3>2
        <4> QED  BY <1>2, <4>1, <4>2
      <3> QED  BY <3>1, <3>2
    <2>2. Upto(g, n)
      BY <2>1
    <2> QED  BY <2>2
  <1> HIDE DEF Upto
  <1>3. Bad \subseteq Nat /\ 0 \notin Bad
    BY <1>1
  <1>4. ASSUME NEW n \in Bad PROVE n - 1 \in Bad
    <2>1. n \in 1 .. Len(layers) /\ n - 1 \in 0 .. Len(layers)
      BY <1>3
    <2> QED  BY <1>2, <2>1
  <1>5. Bad = {}
    <2> HIDE DEF Bad
    <2> QED  BY <1>3, <1>4, Descent
  <1>6. Len(layers) \in 0 .. Len(layers)
    OBVIOUS
  <1>7. PICK f : Upto(f, Len(layers))
    BY <1>5, <1>6
  <1> QED  BY <1>7 DEF IsAdding, Upto

LEMMA AddLayersAdds ==
    ASSUME NEW m, NEW layers \in Seq(Layer)
    PROVE  \E f : /\ f[0] = m
                  /\ \A k \in 1 .. Len(layers) : f[k] = AddLayer(f[k - 1], layers[k])
                  /\ AddLayers(m, layers) = f[Len(layers)]
  <1> DEFINE f == CHOOSE g : IsAdding(g, m, layers)
  <1>1. AddLayers(m, layers) = f[Len(layers)]
    BY DEF AddLayers, IsAdding
  <1>2. IsAdding(f, m, layers)
    BY AddingExists
  <1> HIDE DEF f
  <1>3. f[0] = m /\ \A k \in 1 .. Len(layers) : f[k] = AddLayer(f[k - 1], layers[k])
    BY <1>2 DEF IsAdding
  <1> QED  BY <1>1, <1>3

LEMMA AddLayersRests ==
    ASSUME NEW m, AtRest(m), m.center = None, NEW layers \in Seq(Layer)
    PROVE  AtRest(AddLayers(m, layers)) /\ AddLayers(m, layers).center = None
  <1>1. PICK f : /\ f[0] = m
                 /\ \A k \in 1 .. Len(layers) : f[k] = AddLayer(f[k - 1], layers[k])
                 /\ AddLayers(m, layers) = f[Len(layers)]
    BY AddLayersAdds
  <1> DEFINE Bad == {k \in 0 .. Len(layers) : ~(AtRest(f[k]) /\ f[k].center = None)}
  <1>2. 0 \notin Bad
    BY <1>1
  <1>3. ASSUME NEW k \in Bad PROVE k - 1 \in Bad
    <2>1. k \in 1 .. Len(layers) /\ k - 1 \in 0 .. Len(layers)
      BY <1>2
    <2>2. f[k] = AddLayer(f[k - 1], layers[k])
      BY <1>1, <2>1
    <2>3. AtRest(f[k - 1]) /\ f[k - 1].center = None
            => AtRest(f[k]) /\ f[k].center = None
      BY <2>2, AddLayerRests
    <2> QED  BY <2>1, <2>3
  <1>4. Bad \subseteq Nat
    OBVIOUS
  <1>5. Bad = {}
    <2> HIDE DEF Bad
    <2> QED  BY <1>2, <1>3, <1>4, Descent
  <1>6. Len(layers) \in 0 .. Len(layers)
    OBVIOUS
  <1> QED  BY <1>1, <1>5, <1>6

-----------------------------------------------------------------------------
(***************************************************************************)
(* The handlers.                                                           *)
(***************************************************************************)
LEMMA InitRests == Init => AtRest(map)
  <1> SUFFICES ASSUME Init PROVE AtRest(map)
    OBVIOUS
  <1> DEFINE fresh(page) == NewMap(page.restrictedExtent, page.size)
             added(page) == AddLayers(fresh(page), page.layers)
  <1>1. PICK page \in Pages :
          map = IF page.center = None THEN added(page)
                ELSE SetCenter(added(page), page.center, MaxZoom, Still)
    BY DEF Init
  <1>2. /\ page.size \in Sizes /\ page.layers \in Seq(Layer)
        /\ page.center \in Int \cup {None}
        /\ page.restrictedExtent \in Restriction \cup {Unrestricted}
    BY MapViewAssumption
  <1>3. 0 \in Zoom /\ MaxZoom \in Zoom /\ None # MaxZoom
    BY MapTilesAssumption, ZoomIsInt DEF Zoom
  <1>4. AtRest(fresh(page)) /\ fresh(page).center = None
    <2>1. Placed(fresh(page)) /\ fresh(page).center = None
      BY <1>2 DEF NewMap, Placed, IsMap
    <2>2. Steady(fresh(page)) /\ fresh(page).zoom \in Zoom
      BY <1>3, <2>1 DEF NewMap, Steady
    <2>3. Settled(fresh(page))
      BY <2>1 DEF Settled, HasExtent
    <2>4. ~fresh(page).announced
      BY DEF NewMap
    <2> HIDE DEF fresh
    <2> QED  BY <2>1, <2>2, <2>3, <2>4 DEF AtRest
  <1> HIDE DEF fresh
  <1>5. AtRest(added(page))
    BY <1>2, <1>4, AddLayersRests
  <1> HIDE DEF added
  <1>6. AtRest(SetCenter(added(page), page.center, MaxZoom, Still))
    <2>1. Steady(added(page)) /\ MaxZoom \in Zoom \cup {None} /\ Still \in {Still, Dragged}
      BY <1>3, <1>5 DEF AtRest
    <2> QED  BY <1>2, <1>3, <2>1, CallRests
  <1> QED  BY <1>1, <1>5, <1>6

\* n may follow on m: it rests, and if its layers are others, its view is the same.
Follows(m, n) ==
    /\ AtRest(n)
    /\ \/ n.layers = m.layers /\ n.baseLayer = m.baseLayer
       \/ m.resolution = None
       \/ m.baseLayer = None /\ m.restrictedExtent # Unrestricted
       \/ n.center = m.center /\ n.zoom = m.zoom

LEMMA FollowsInPlace ==
    ASSUME NEW m, AtRest(m), NEW n, SameView(m, n), n.baseLayer = m.baseLayer
    PROVE  Follows(m, n)
  BY SameViewRests DEF Follows, SameView

LEMMA DragFollows ==
    ASSUME NEW m, AtRest(m), NEW x
    PROVE  AtRest([m EXCEPT !.drag = x]) /\ Follows(m, [m EXCEPT !.drag = x])
           /\ [m EXCEPT !.drag = x].center = m.center
           /\ [m EXCEPT !.drag = x].layers = m.layers
           /\ [m EXCEPT !.drag = x].baseLayer = m.baseLayer
  <1> DEFINE n == [m EXCEPT !.drag = x]
  <1>1. IsMap(m)
    BY DEF AtRest, Steady, Placed
  <1>2. SameView(m, n) /\ n.baseLayer = m.baseLayer /\ n.layers = m.layers
    BY <1>1 DEF IsMap, SameView
  <1> HIDE DEF n
  <1>3. Follows(m, n)
    BY <1>2, FollowsInPlace
  <1> QED  BY <1>2, <1>3 DEF Follows, SameView, n

LEMMA LayerFollows ==
    ASSUME NEW m, AtRest(m), NEW n, OnlyLayer(m, n)
    PROVE  Follows(m, n)
  BY OnlyLayerRests DEF Follows, OnlyLayer

\* Every handler.
LEMMA NextFollows == AtRest(map) /\ [Next]_vars => Follows(map, map')
  <1> SUFFICES ASSUME AtRest(map), [Next]_vars
               PROVE  Follows(map, map')
    OBVIOUS
  <1>0. /\ IsMap(map) /\ Steady(map) /\ map.zoom # None
        /\ Lon \subseteq Int /\ None \in Zoom \cup {None}
        /\ map.center \in Int \cup {None}
    BY ZoomIsInt, MapTilesAssumption, MapViewAssumption DEF AtRest, Steady, Placed
  <1>1. ASSUME NEW lonlat \in Lon, CallPanTo(lonlat)
        PROVE  Follows(map, map')
    BY <1>0, <1>1, PanToRests DEF CallPanTo, Called, Follows
  <1>2. ASSUME NEW lonlat \in Lon, MouseMove(lonlat)
        PROVE  Follows(map, map')
    <2> DEFINE n == SetCenter(map, lonlat, None, Dragged)
    <2>1. map' = [n EXCEPT !.drag.moved = TRUE]
      BY <1>2 DEF MouseMove, Called
    <2>2. AtRest(n) /\ n.layers = map.layers /\ n.baseLayer = map.baseLayer
      BY <1>0, CallRests
    <2> HIDE DEF n
    <2>3. AtRest(map') /\ map'.layers = n.layers /\ map'.baseLayer = n.baseLayer
      BY <2>1, <2>2, DragFollows
    <2> QED  BY <2>2, <2>3 DEF Follows
  <1>3. ASSUME NEW lonlat \in Lon \cup {None}, NEW zoom \in Zoom \cup {None},
               CallSetCenter(lonlat, zoom)
        PROVE  Follows(map, map')
    <2>1. lonlat \in Int \cup {None} /\ Still \in {Still, Dragged}
      BY <1>0
    <2> QED  BY <1>0, <1>3, <2>1, CallRests DEF CallSetCenter, Called, Follows
  <1>4. ASSUME NEW l \in Layer, CallAddLayer(l)
        PROVE  Follows(map, map')
    BY <1>4, AddLayerRests DEF CallAddLayer, Called, Follows
  <1>5. ASSUME NEW l \in Layer, CallRemoveLayer(l)
        PROVE  Follows(map, map')
    <2>1. l # None
      BY MapViewAssumption
    <2> QED  BY <1>5, <2>1, RemoveLayerRests DEF CallRemoveLayer, Called, Follows
  <1>6. ASSUME NEW l \in Layer, ChooseBaseLayer(l)
        PROVE  Follows(map, map')
    <2> DEFINE n == SetBaseLayer(map, l)
    <2>1. /\ AtRest(n)
          /\ \/ map.resolution = None
             \/ /\ map.center # None /\ map.restrictedExtent # Unrestricted
                /\ Clamp(map, map.center, map.zoom) # map.center
             \/ n.center = map.center /\ n.zoom = map.zoom
      BY SetBaseLayerRests
    <2>2. map' = n
      BY <1>6 DEF ChooseBaseLayer, Called
    <2> HIDE DEF n
    <2>3. \/ map.baseLayer = None
          \/ map.center # None /\ map.restrictedExtent # Unrestricted
               => Clamp(map, map.center, map.zoom) = map.center
      BY DEF AtRest, Settled, HasExtent
    <2> QED  BY <2>1, <2>2, <2>3 DEF Follows
  <1>7. ASSUME NEW l \in Layer, SwitchOverlay(l)
        PROVE  Follows(map, map')
    BY <1>0, <1>7, SetVisibilityOnly, LayerFollows DEF SwitchOverlay, Called
  <1>8. ASSUME NEW size \in Sizes, ResizeWindow(size)
        PROVE  Follows(map, map')
    BY <1>8, UpdateSizeRests DEF ResizeWindow, Called, Follows
  <1>9. CASE MouseDown
    BY <1>9, DragFollows DEF MouseDown
  <1>10. CASE MouseUp
    <2> DEFINE up == [map EXCEPT !.drag = [started |-> FALSE, moved |-> FALSE]]
    <2>1. /\ AtRest(up) /\ Follows(map, up) /\ up.center = map.center
          /\ up.layers = map.layers /\ up.baseLayer = map.baseLayer
      BY DragFollows
    <2>2. \/ map' = up
          \/ \E lonlat \in {map.center} \cup Lon : map' = SetCenter(up, lonlat, None, Still)
      BY <1>10 DEF MouseUp
    <2> HIDE DEF up
    <2>3. ASSUME NEW lonlat \in {map.center} \cup Lon,
                 map' = SetCenter(up, lonlat, None, Still)
          PROVE  Follows(map, map')
      <3>1. /\ Steady(up) /\ up.zoom # None /\ lonlat \in Int \cup {None}
            /\ Still \in {Still, Dragged}
        BY <1>0, <2>1, ZoomIsInt DEF AtRest
      <3> QED  BY <1>0, <2>1, <2>3, <3>1, CallRests DEF Follows
    <2> QED  BY <2>1, <2>2, <2>3
  <1>11. CASE Deactivate
    BY <1>11, DragFollows DEF Deactivate
  <1>12. CASE Tick
    BY <1>12, PlayRests DEF Tick, Follows
  <1>13. ASSUME NEW l \in Layer, NEW k \in Columns, ImageLoad(l, k) \/ ImageError(l, k)
         PROVE  Follows(map, map')
    <2>1. \E x : map' = [map EXCEPT !.layer = x]
      BY <1>13 DEF ImageLoad, ImageError, ImageEnds
    <2> QED  BY <1>0, <2>1, OnlyLayerExcept, LayerFollows
  <1>14. CASE UNCHANGED vars
    <2>1. map' = map
      BY <1>14 DEF vars
    <2>2. Follows(map, map)
      BY DEF Follows
    <2> QED  BY <2>1, <2>2
  <1> QED  BY <1>1, <1>2, <1>3, <1>4, <1>5, <1>6, <1>7, <1>8, <1>9, <1>10, <1>11, <1>12,
              <1>13, <1>14 DEF Next

-----------------------------------------------------------------------------
(***************************************************************************)
(* One layer: its tiles, and what they show.                               *)
(***************************************************************************)
Bounds == [left : Int, right : Int]

Tile == [bounds : Bounds, shouldDraw : BOOLEAN, isLoading : BOOLEAN, frame : BOOLEAN,
         image : Bounds, visible : BOOLEAN, current : BOOLEAN, pending : BOOLEAN,
         attempts : Nat]

\* What holds of every tile, on the screen or not: a picture that is displayed, or
\* that will be when it arrives, is the one of the tile's bounds.
GoodTile ==
    {t \in Tile :
       /\ t.frame /\ (t.visible \/ t.pending) => t.image = t.bounds
       /\ t.isLoading /\ t.shouldDraw => t.image = t.bounds
       /\ t.visible \/ t.pending => t.image # NoImage
       /\ t.frame /\ t.visible /\ t.isLoading => t.attempts > 0
       /\ t.isLoading => t.pending}

\* A tile that is drawn, at whatever bounds.
LEMMA DrawnGood ==
    ASSUME NEW t \in Tile, t.visible \/ t.pending => t.image # NoImage,
           t.isLoading => t.pending
    PROVE  Draw(t) \in GoodTile /\ Draw(t).bounds = t.bounds
  <1> DEFINE draw == WithinMaxExtent(t.bounds)
  <1>1. draw \in BOOLEAN
    BY DEF WithinMaxExtent
  <1>2. CASE draw
    <2>1. t.bounds # NoImage
      BY <1>2, MapTilesAssumption DEF WithinMaxExtent, NoImage, Tile, Bounds
    <2> QED  BY <1>1, <1>2, <2>1 DEF Draw, GoodTile, Tile
  <1>3. CASE ~draw
    BY <1>1, <1>3 DEF Draw, GoodTile, Tile
  <1> QED  BY <1>2, <1>3

LEMMA DrawGood ==
    ASSUME NEW t \in GoodTile, NEW b \in Bounds
    PROVE  LET p == [t EXCEPT !.bounds = b]
           IN  /\ p \in Tile /\ p.isLoading = t.isLoading
               /\ Draw(p) \in GoodTile /\ Draw(p).bounds = b
  <1> DEFINE old == [t EXCEPT !.bounds = b]
  <1>1. /\ old \in Tile /\ old.bounds = b /\ old.isLoading = t.isLoading
        /\ old.visible \/ old.pending => old.image # NoImage
        /\ old.isLoading => old.pending
    BY DEF GoodTile, Tile
  <1> HIDE DEF old
  <1>2. Draw(old) \in GoodTile /\ Draw(old).bounds = b
    BY <1>1, DrawnGood
  <1> QED  BY <1>1, <1>2 DEF old

LEMMA NewTileGood ==
    ASSUME NEW b \in Bounds
    PROVE  /\ NewTile(b) \in Tile /\ ~NewTile(b).isLoading
           /\ Draw(NewTile(b)) \in GoodTile /\ Draw(NewTile(b)).bounds = b
  <1>1. /\ NewTile(b) \in Tile /\ NewTile(b).bounds = b
        /\ ~NewTile(b).visible /\ ~NewTile(b).pending /\ ~NewTile(b).isLoading
    BY DEF NewTile, Tile, NoImage, Bounds
  <1> QED  BY <1>1, DrawnGood

LEMMA ImageLoadedGood ==
    ASSUME NEW t \in GoodTile, t.pending
    PROVE  /\ ImageLoaded(t) \in GoodTile
           /\ ImageLoaded(t).bounds = t.bounds /\ ~ImageLoaded(t).isLoading
  BY DEF ImageLoaded, OnLoad, GoodTile, Tile

LEMMA ImageFailedGood ==
    ASSUME NEW t \in GoodTile, t.pending
    PROVE  /\ ImageFailed(t) \in GoodTile
           /\ ImageFailed(t).bounds = t.bounds
           /\ ImageFailed(t).isLoading => t.isLoading
  <1> DEFINE tried == [t EXCEPT !.visible = TRUE,
                                !.attempts = IF @ > Attempts THEN @ ELSE @ + 1]
  <1>1. t \in Tile /\ t.attempts \in Nat /\ Attempts \in Nat
    BY MapTilesAssumption DEF GoodTile, Tile
  <1>2. tried.attempts \in Nat /\ tried.attempts > 0
    BY <1>1 DEF Tile
  <1>3. /\ tried \in Tile /\ tried.visible
        /\ tried.image = t.image /\ tried.bounds = t.bounds /\ tried.frame = t.frame
        /\ tried.pending = t.pending /\ tried.isLoading = t.isLoading
        /\ tried.shouldDraw = t.shouldDraw
    BY <1>1, <1>2 DEF Tile
  <1>4. tried \in GoodTile
    BY <1>2, <1>3 DEF GoodTile
  <1>5. ImageFailed(t) = IF tried.attempts <= Attempts THEN tried
                         ELSE OnLoad([tried EXCEPT !.pending = FALSE])
    BY DEF ImageFailed
  <1> HIDE DEF tried
  <1>6. /\ OnLoad([tried EXCEPT !.pending = FALSE]) \in GoodTile
        /\ OnLoad([tried EXCEPT !.pending = FALSE]).bounds = t.bounds
        /\ ~OnLoad([tried EXCEPT !.pending = FALSE]).isLoading
    BY <1>3, <1>4 DEF OnLoad, GoodTile, Tile
  <1> QED  BY <1>3, <1>4, <1>5, <1>6

LEMMA StaleGood ==
    ASSUME NEW t \in GoodTile
    PROVE  LET s == [t EXCEPT !.current = FALSE]
           IN  s \in GoodTile /\ s.bounds = t.bounds /\ s.isLoading = t.isLoading
  BY DEF GoodTile, Tile

LayerState ==
    {s \in [visibility : BOOLEAN, inRange : BOOLEAN, displayed : BOOLEAN,
            numLoadingTiles : Int, grid : Seq(GoodTile)] :
       /\ s.numLoadingTiles = LoadingIn(s.grid)
       /\ DOMAIN s.grid \subseteq Columns
       /\ s.displayed => s.visibility}

\* The switches of a layer.
SameSwitches(s, r) ==
    r.visibility = s.visibility /\ r.inRange = s.inRange /\ r.displayed = s.displayed

LEMMA LoadingFinite ==
    ASSUME NEW S, NEW g \in Seq(S)
    PROVE  /\ IsFiniteSet({k \in DOMAIN g : g[k].isLoading})
           /\ LoadingIn(g) \in Nat
  <1>1. IsFiniteSet(1 .. Len(g)) /\ DOMAIN g = 1 .. Len(g)
    BY FS_Interval
  <1>2. IsFiniteSet({k \in DOMAIN g : g[k].isLoading})
    BY <1>1, FS_Subset
  <1> QED  BY <1>2, FS_CardinalityType DEF LoadingIn

LEMMA DrawLoads ==
    ASSUME NEW t \in Tile
    PROVE  t.isLoading => Draw(t).isLoading
  BY DEF Draw, Tile

\* The tiles that load, of the first n ones.
LoadingUpTo(tiles, n) == Cardinality({k \in DOMAIN tiles : k <= n /\ tiles[k].isLoading})

\* The tiles that are unloaded and those that stay are all that load.
LEMMA UnloadedAndKept ==
    ASSUME NEW S, NEW g \in Seq(S), NEW n \in Nat
    PROVE  /\ Unloads(g, n) \in Nat /\ LoadingUpTo(g, n) \in Nat
           /\ LoadingIn(g) = LoadingUpTo(g, n) + Unloads(g, n)
  <1> DEFINE all  == {k \in DOMAIN g : g[k].isLoading}
             kept == {k \in DOMAIN g : k <= n /\ g[k].isLoading}
             rest == {k \in DOMAIN g : k > n /\ g[k].isLoading}
  <1>1. IsFiniteSet(all)
    BY LoadingFinite
  <1>2. kept \subseteq all /\ rest \subseteq all
    OBVIOUS
  <1>3. \A k \in DOMAIN g : (k <= n \/ k > n) /\ ~(k <= n /\ k > n)
    OBVIOUS
  <1>4. all = kept \cup rest /\ kept \cap rest = {}
    BY <1>3
  <1> HIDE DEF all, kept, rest
  <1>5. IsFiniteSet(kept) /\ IsFiniteSet(rest)
    BY <1>1, <1>2, FS_Subset
  <1>6. /\ Cardinality(kept) \in Nat /\ Cardinality(rest) \in Nat
        /\ Cardinality(kept \cap rest) = 0
    <2>1. Cardinality(kept) \in Nat /\ Cardinality(rest) \in Nat
      BY <1>4, <1>5, FS_CardinalityType
    <2>2. Cardinality(kept \cap rest) = 0
      BY <1>4, <1>5, FS_EmptySet
    <2> QED  BY <2>1, <2>2
  <1>7. Cardinality(all) = Cardinality(kept) + Cardinality(rest)
    <2>1. Cardinality(kept \cup rest) =
            Cardinality(kept) + Cardinality(rest) - Cardinality(kept \cap rest)
      BY <1>5, FS_Union
    <2>2. all = kept \cup rest
      BY <1>4
    <2> QED  BY <1>6, <2>1, <2>2
  <1> QED  BY <1>6, <1>7 DEF LoadingIn, LoadingUpTo, Unloads, all, kept, rest

\* The tiles that start to load are those that load and did not.
LEMMA StartedAndLoading ==
    ASSUME NEW S, NEW placed \in Seq(S), NEW T, NEW drawn \in Seq(T),
           DOMAIN placed = DOMAIN drawn,
           \A k \in DOMAIN drawn : placed[k].isLoading => drawn[k].isLoading
    PROVE  /\ LoadStarts(placed, drawn) \in Nat
           /\ LoadingIn(drawn) = LoadingIn(placed) + LoadStarts(placed, drawn)
  <1> DEFINE before == {k \in DOMAIN placed : placed[k].isLoading}
             after  == {k \in DOMAIN drawn : drawn[k].isLoading}
             starts == {k \in DOMAIN drawn : drawn[k].isLoading /\ ~placed[k].isLoading}
  <1>1. IsFiniteSet(before) /\ IsFiniteSet(after)
    BY LoadingFinite
  <1>2. /\ starts \subseteq after
        /\ after = before \cup starts /\ before \cap starts = {}
    OBVIOUS
  <1> HIDE DEF before, after, starts
  <1>3. IsFiniteSet(starts)
    BY <1>1, <1>2, FS_Subset
  <1>4. /\ Cardinality(before) \in Nat /\ Cardinality(starts) \in Nat
        /\ Cardinality(before \cap starts) = 0
    <2>1. Cardinality(before) \in Nat /\ Cardinality(starts) \in Nat
      BY <1>1, <1>2, <1>3, FS_CardinalityType
    <2>2. Cardinality(before \cap starts) = 0
      BY <1>1, <1>2, <1>3, FS_EmptySet
    <2> QED  BY <2>1, <2>2
  <1>5. Cardinality(after) = Cardinality(before) + Cardinality(starts)
    <2>1. Cardinality(before \cup starts) =
            Cardinality(before) + Cardinality(starts) - Cardinality(before \cap starts)
      BY <1>1, <1>3, FS_Union
    <2>2. after = before \cup starts
      BY <1>2
    <2> QED  BY <1>4, <2>1, <2>2
  <1> QED  BY <1>4, <1>5 DEF LoadingIn, LoadStarts, before, after, starts

\* Whichever tiles stay, and wherever they are placed: the layer counts those that
\* load, if drawing never ends a tile that loads.
LEMMA ReplaceState ==
    ASSUME NEW s \in LayerState, NEW n \in Nat,
           NEW placed \in Seq(Tile), NEW drawn \in Seq(GoodTile),
           DOMAIN drawn \subseteq Columns, DOMAIN placed = DOMAIN drawn,
           LoadingIn(placed) = LoadingUpTo(s.grid, n),
           \A k \in DOMAIN drawn : placed[k].isLoading => drawn[k].isLoading
    PROVE  LET r == Replace(s, n, placed, drawn)
           IN  r \in LayerState /\ r.grid = drawn /\ SameSwitches(s, r)
  <1>1. s.grid \in Seq(GoodTile) /\ s.numLoadingTiles = LoadingIn(s.grid)
    BY DEF LayerState
  <1>2. /\ Unloads(s.grid, n) \in Nat /\ LoadingUpTo(s.grid, n) \in Nat
        /\ s.numLoadingTiles = LoadingUpTo(s.grid, n) + Unloads(s.grid, n)
    BY <1>1, UnloadedAndKept
  <1>3. /\ LoadStarts(placed, drawn) \in Nat
        /\ LoadingIn(drawn) = LoadingUpTo(s.grid, n) + LoadStarts(placed, drawn)
    BY StartedAndLoading
  <1>4. /\ s.numLoadingTiles + LoadStarts(placed, drawn) - Unloads(s.grid, n) = LoadingIn(drawn)
        /\ LoadingIn(drawn) \in Int
    BY <1>2, <1>3
  <1> DEFINE r == Replace(s, n, placed, drawn)
  <1>5. r = [s EXCEPT !.grid = drawn, !.numLoadingTiles = LoadingIn(drawn)]
    BY <1>4 DEF Replace
  <1> HIDE DEF r
  <1>6. /\ r.visibility = s.visibility /\ r.inRange = s.inRange /\ r.displayed = s.displayed
        /\ r.grid = drawn /\ r.numLoadingTiles = LoadingIn(drawn)
        /\ r \in [visibility : BOOLEAN, inRange : BOOLEAN, displayed : BOOLEAN,
                  numLoadingTiles : Int, grid : Seq(GoodTile)]
    <2>1. /\ s \in [visibility : BOOLEAN, inRange : BOOLEAN, displayed : BOOLEAN,
                    numLoadingTiles : Int, grid : Seq(GoodTile)]
          /\ LoadingIn(drawn) \in Int
      BY <1>4 DEF LayerState
    <2> QED  BY <1>5, <2>1
  <1>7. r \in LayerState
    BY <1>6 DEF LayerState
  <1> QED  BY <1>6, <1>7 DEF SameSwitches, r

\* The browser tells of one tile.
TileEnded(s, k, t) ==
    [s EXCEPT !.grid[k] = t,
              !.numLoadingTiles = IF s.grid[k].isLoading /\ ~t.isLoading THEN @ - 1 ELSE @]

LEMMA TileEnds ==
    ASSUME NEW s \in LayerState, NEW k \in DOMAIN s.grid, NEW t \in GoodTile,
           t.isLoading => s.grid[k].isLoading
    PROVE  /\ TileEnded(s, k, t) \in LayerState
           /\ SameSwitches(s, TileEnded(s, k, t))
           /\ TileEnded(s, k, t).grid = [s.grid EXCEPT ![k] = t]
  <1> DEFINE grid == [s.grid EXCEPT ![k] = t]
             old == {j \in DOMAIN s.grid : s.grid[j].isLoading}
             new == {j \in DOMAIN grid : grid[j].isLoading}
             count == IF s.grid[k].isLoading /\ ~t.isLoading
                        THEN s.numLoadingTiles - 1 ELSE s.numLoadingTiles
  <1>1. /\ s.grid \in Seq(GoodTile) /\ s.numLoadingTiles = Cardinality(old)
        /\ s.numLoadingTiles \in Int
    BY DEF LayerState, LoadingIn
  <1>2. grid \in Seq(GoodTile) /\ DOMAIN grid = DOMAIN s.grid
    BY <1>1
  <1>3. IsFiniteSet(old) /\ IsFiniteSet(new)
    BY <1>1, <1>2, LoadingFinite
  <1>4. new = IF s.grid[k].isLoading /\ ~t.isLoading THEN old \ {k} ELSE old
    BY <1>1, <1>2
  <1>5. count = Cardinality(new) /\ Cardinality(new) \in Int
    <2>1. CASE s.grid[k].isLoading /\ ~t.isLoading
      <3>1. k \in old /\ new = old \ {k}
        BY <1>4, <2>1
      <3> HIDE DEF old, new
      <3>2. Cardinality(old \ {k}) = Cardinality(old) - 1
        BY <1>3, <3>1, FS_RemoveElement
      <3> QED  BY <1>1, <1>3, <2>1, <3>1, <3>2
    <2>2. CASE ~(s.grid[k].isLoading /\ ~t.isLoading)
      <3> HIDE DEF old, new
      <3> QED  BY <1>1, <1>4, <2>2
    <2> QED  BY <2>1, <2>2
  <1>6. count = LoadingIn(grid)
    BY <1>5 DEF LoadingIn
  <1> DEFINE r == [s EXCEPT !.grid = grid, !.numLoadingTiles = count]
  <1>7. TileEnded(s, k, t) = r
    BY DEF LayerState, TileEnded
  <1> HIDE DEF grid, count, old, new
  <1>8. /\ r.visibility = s.visibility /\ r.inRange = s.inRange /\ r.displayed = s.displayed
        /\ r.grid = grid /\ r.numLoadingTiles = count
        /\ r \in [visibility : BOOLEAN, inRange : BOOLEAN, displayed : BOOLEAN,
                  numLoadingTiles : Int, grid : Seq(GoodTile)]
    BY <1>2, <1>5 DEF LayerState
  <1> HIDE DEF r
  <1>9. r \in LayerState
    BY <1>2, <1>6, <1>8 DEF LayerState
  <1> QED  BY <1>7, <1>8, <1>9 DEF SameSwitches, grid

-----------------------------------------------------------------------------
(***************************************************************************)
(* Whole tiles.                                                            *)
(***************************************************************************)
LEMMA IntProduct ==
    \A a, b \in Int : a * b \in Int
  OBVIOUS

LEMMA TileAt ==
    ASSUME NEW a \in Int, NEW w \in Nat \ {0}
    PROVE  a \div w \in Int /\ (a \div w) * w <= a /\ a < (a \div w) * w + w
  OBVIOUS

LEMMA TileBeyond ==
    ASSUME NEW a \in Int, NEW b \in Int, NEW w \in Nat \ {0}, NEW c \in Int, c = a + w * b
    PROVE  c \div w = a \div w + b
  OBVIOUS

LEMMA TilesIn ==
    ASSUME NEW b \in Int, NEW w \in Nat \ {0}, NEW c \in Int, c = b * w
    PROVE  c \div w = b
  OBVIOUS

LEMMA MoreTiles ==
    ASSUME NEW a \in Int, NEW b \in Int, a <= b, NEW w \in Nat \ {0}
    PROVE  a * w \in Int /\ b * w \in Int /\ a * w <= b * w
  OBVIOUS

\* A view is as wide as so many tiles.
IsView(view, size) ==
    /\ view.left \in Int /\ view.right \in Int /\ view.tile \in Nat \ {0}
    /\ view.right = view.left + size * view.tile

LEMMA ViewIsView ==
    ASSUME NEW center \in Int, NEW zoom, NEW size \in Nat
    PROVE  IsView(View(center, zoom, size), size)
  <1> DEFINE tile == Resolution(zoom)
             half == (size * tile) \div 2
  <1>1. tile \in Nat \ {0} /\ tile % 2 = 0
    BY MapTilesAssumption DEF Resolution
  <1> HIDE DEF tile
  <1>2. PICK h \in Nat : tile = 2 * h
    <2>1. tile = 2 * (tile \div 2) /\ tile \div 2 \in Nat
      BY <1>1
    <2> QED  BY <2>1
  <1>3. size * h \in Nat /\ size * tile = 2 * (size * h)
    BY <1>2
  <1>4. half = size * h
    BY <1>3
  <1> HIDE DEF half
  <1>5. center - half \in Int /\ center + half \in Int
        /\ center + half = (center - half) + size * tile
    BY <1>3, <1>4
  <1>6. View(center, zoom, size) = [left |-> center - half, right |-> center + half, tile |-> tile]
    BY DEF View, tile, half
  <1> QED  BY <1>1, <1>5, <1>6 DEF IsView

Columned(grid, width) ==
    /\ \A k \in DOMAIN grid : grid[k].bounds.right = grid[k].bounds.left + width
    /\ \A k \in 1 .. Len(grid) - 1 : grid[k].bounds.right = grid[k + 1].bounds.left

\* The fewest columns a grid has.
MinCols(size) == size + IF Buffer = 0 THEN 1 ELSE 2 * Buffer

\* The bounds of a row of tiles in one equation.
Long(grid, width) ==
    Last(grid).bounds.right = Head(grid).bounds.left + Len(grid) * width

\* A row of tiles that can be moved by shifting columns.
Row(grid, width) == Columned(grid, width) /\ Long(grid, width)

\* The grid of a layer fits the view.
GridFits(grid, view, size) ==
    /\ Row(grid, view.tile)
    /\ Len(grid) >= MinCols(size)
    /\ Covers(TilesBounds(grid), view)

LEMMA InitGriddedFits ==
    ASSUME NEW s \in LayerState, NEW size \in Sizes, NEW view, IsView(view, size)
    PROVE  LET r == InitGriddedTiles(s, view)
           IN  /\ r \in LayerState /\ SameSwitches(s, r)
               /\ r.grid # <<>> /\ GridFits(r.grid, view, size)
  <1> DEFINE width   == view.tile
             column  == view.left \div width
             minCols == (view.right - view.left) \div width + IF Buffer = 0 THEN 1 ELSE 2 * Buffer
             first   == column - Buffer
             needed  == ((view.right + width * Buffer) \div width) - first + 1
             columns == IF needed > minCols THEN needed ELSE minCols
             bounds(k) == [left |-> (first + k - 1) * width, right |-> (first + k) * width]
             kept    == IF Len(s.grid) < columns THEN Len(s.grid) ELSE columns
             tile(k) == IF k <= kept THEN [s.grid[k] EXCEPT !.bounds = bounds(k)]
                                     ELSE NewTile(bounds(k))
             placed  == [k \in 1 .. columns |-> tile(k)]
             grid    == [k \in 1 .. columns |-> Draw(placed[k])]
  <1>1. /\ width \in Nat \ {0} /\ Buffer \in Nat /\ size \in Nat \ {0}
        /\ view.left \in Int /\ view.right \in Int
        /\ view.right = view.left + size * width
    BY MapTilesAssumption, MapViewAssumption DEF IsView
  <1>2. column \in Int /\ column * width <= view.left /\ view.left < column * width + width
    BY <1>1, TileAt
  <1>3. (view.right - view.left) \div width = size
    <2> DEFINE span == view.right - view.left
    <2>1. span = size * width /\ span \in Int
      BY <1>1
    <2> HIDE DEF span, width
    <2>2. span \div width = size
      BY <1>1, <2>1, TilesIn
    <2> QED  BY <2>2 DEF span
  <1>4. (view.right + width * Buffer) \div width = column + size + Buffer
    <2>1. view.right + width * Buffer = view.left + width * (size + Buffer)
      BY <1>1
    <2>2. size + Buffer \in Int /\ view.right + width * Buffer \in Int
      BY <1>1
    <2>3. (view.right + width * Buffer) \div width = column + (size + Buffer)
      BY <1>1, <2>1, <2>2, TileBeyond
    <2> QED  BY <1>1, <1>2, <2>3
  <1> HIDE DEF width, column
  <1>5. /\ columns = size + 2 * Buffer + 1 /\ columns \in Nat \ {0}
        /\ columns >= MinCols(size)
    BY <1>1, <1>2, <1>3, <1>4 DEF MinCols
  <1>6. first \in Int /\ first + columns = column + size + Buffer + 1
    BY <1>1, <1>2, <1>5
  <1> HIDE DEF columns, minCols, needed
  <1>7. \A k \in 1 .. columns : bounds(k) \in Bounds
    <2>1. ASSUME NEW k \in 1 .. columns
          PROVE  (first + k - 1) * width \in Int /\ (first + k) * width \in Int
      BY <1>1, <1>6
    <2> QED  BY <2>1 DEF Bounds
  <1>8. /\ kept \in Nat /\ kept <= columns /\ kept <= Len(s.grid) /\ Len(s.grid) \in Nat
        /\ DOMAIN s.grid = 1 .. Len(s.grid)
        /\ \A k \in 1 .. kept : k \in DOMAIN s.grid /\ s.grid[k] \in GoodTile
    <2>1. s.grid \in Seq(GoodTile)
      BY DEF LayerState
    <2>2. /\ kept \in Nat /\ kept <= columns /\ kept <= Len(s.grid) /\ Len(s.grid) \in Nat
          /\ DOMAIN s.grid = 1 .. Len(s.grid)
      BY <1>5, <2>1
    <2>3. \A k \in 1 .. Len(s.grid) : s.grid[k] \in GoodTile
      BY <2>1
    <2> HIDE DEF kept
    <2> QED  BY <2>2, <2>3
  <1> HIDE DEF kept, bounds
  <1>9. ASSUME NEW k \in 1 .. columns
        PROVE  /\ tile(k) \in Tile /\ Draw(tile(k)) \in GoodTile
               /\ Draw(tile(k)).bounds = bounds(k)
               /\ tile(k).isLoading => Draw(tile(k)).isLoading
               /\ tile(k).isLoading <=> k <= kept /\ s.grid[k].isLoading
    <2>1. bounds(k) \in Bounds
      BY <1>7
    <2>2. CASE k <= kept
      <3>1. s.grid[k] \in GoodTile
        BY <1>5, <1>8, <2>2
      <3>2. tile(k) = [s.grid[k] EXCEPT !.bounds = bounds(k)]
        BY <2>2
      <3> HIDE DEF tile
      <3>3. /\ tile(k) \in Tile /\ Draw(tile(k)) \in GoodTile
            /\ Draw(tile(k)).bounds = bounds(k)
            /\ tile(k).isLoading = s.grid[k].isLoading
        BY <2>1, <3>1, <3>2, DrawGood
      <3> QED  BY <2>2, <3>3, DrawLoads
    <2>3. CASE ~(k <= kept)
      <3>1. tile(k) = NewTile(bounds(k))
        BY <2>3
      <3> HIDE DEF tile
      <3> QED  BY <2>1, <2>3, <3>1, NewTileGood
    <2> QED  BY <2>2, <2>3
  <1> HIDE DEF tile
  <1>17. /\ placed \in Seq(Tile) /\ DOMAIN placed = 1 .. columns
         /\ \A k \in 1 .. columns : placed[k] = tile(k)
    BY <1>5, <1>9
  <1>10. /\ grid \in Seq(GoodTile) /\ Len(grid) = columns /\ DOMAIN grid = 1 .. columns
         /\ \A k \in 1 .. columns : grid[k] = Draw(tile(k)) /\ grid[k].bounds = bounds(k)
    <2> HIDE DEF placed
    <2> QED  BY <1>5, <1>9, <1>17
  <1>18. LoadingIn(placed) = LoadingUpTo(s.grid, kept)
    <2> HIDE DEF placed
    <2>1. {k \in DOMAIN placed : placed[k].isLoading}
            = {k \in DOMAIN s.grid : k <= kept /\ s.grid[k].isLoading}
      <3>1. ASSUME NEW k \in DOMAIN placed, placed[k].isLoading
            PROVE  k \in DOMAIN s.grid /\ k <= kept /\ s.grid[k].isLoading
        BY <1>5, <1>8, <1>9, <1>17, <3>1
      <3>2. ASSUME NEW k \in DOMAIN s.grid, k <= kept, s.grid[k].isLoading
            PROVE  k \in DOMAIN placed /\ placed[k].isLoading
        <4>1. k \in 1 .. columns
          BY <1>5, <1>8, <3>2
        <4> QED  BY <1>9, <1>17, <3>2, <4>1
      <3> QED  BY <3>1, <3>2
    <2> QED  BY <2>1 DEF LoadingIn, LoadingUpTo
  <1> HIDE DEF grid
  <1>11. DOMAIN grid \subseteq Columns
    BY <1>1, <1>5, <1>10 DEF Columns
  <1>12. Columned(grid, width)
    <2>1. ASSUME NEW k \in 1 .. columns
          PROVE  /\ bounds(k).left = (first + k - 1) * width
                 /\ bounds(k).right = (first + k) * width
                 /\ bounds(k).right = bounds(k).left + width
      <3>1. (first + k) * width = (first + k - 1) * width + width
        BY <1>1, <1>6
      <3> QED  BY <3>1 DEF bounds
    <2>2. ASSUME NEW k \in 1 .. columns - 1
          PROVE  bounds(k).right = bounds(k + 1).left
      <3>1. first + (k + 1) - 1 = first + k
        BY <1>6
      <3> QED  BY <3>1 DEF bounds
    <2>3. \A k \in 1 .. columns - 1 : k \in 1 .. columns /\ k + 1 \in 1 .. columns
      BY <1>5
    <2> QED  BY <1>10, <2>1, <2>2, <2>3 DEF Columned
  <1>16. TilesBounds(grid) = [left |-> first * width, right |-> (first + columns) * width]
    <2>1. 1 \in 1 .. columns /\ columns \in 1 .. columns
      BY <1>5
    <2>2. Head(grid) = grid[1] /\ Last(grid) = grid[columns]
      BY <1>5, <1>10 DEF Last
    <2>3. first + 1 - 1 = first
      BY <1>6
    <2>4. grid[1].bounds.left = first * width /\ grid[columns].bounds.right = (first + columns) * width
      <3>1. grid[1].bounds = bounds(1) /\ grid[columns].bounds = bounds(columns)
        BY <1>10, <2>1
      <3>2. bounds(1).left = (first + 1 - 1) * width
        BY DEF bounds
      <3>3. bounds(columns).right = (first + columns) * width
        BY DEF bounds
      <3> QED  BY <2>3, <3>1, <3>2, <3>3
    <2> QED  BY <2>2, <2>4 DEF TilesBounds
  <1>13. Covers(TilesBounds(grid), view)
    <2>2. first * width <= view.left
      <3>1. first <= column
        BY <1>1, <1>2
      <3>2. first * width <= column * width
        BY <1>1, <1>2, <1>6, <3>1, MoreTiles
      <3>3. first * width \in Int /\ column * width \in Int
        BY <1>1, <1>2, <1>6
      <3> QED  BY <1>1, <1>2, <3>2, <3>3
    <2>3. view.right <= (first + columns) * width
      <3>1. (first + columns) * width = column * width + width + (size + Buffer) * width
        BY <1>1, <1>2, <1>6
      <3>2. size * width <= (size + Buffer) * width
        <4>1. size \in Int /\ size + Buffer \in Int /\ size <= size + Buffer
          BY <1>1
        <4> QED  BY <1>1, <4>1, MoreTiles
      <3>3. /\ column * width \in Int /\ size * width \in Int
            /\ (size + Buffer) * width \in Int
        BY <1>1, <1>2
      <3> QED  BY <1>1, <1>2, <3>1, <3>2, <3>3
    <2> QED  BY <1>16, <2>2, <2>3 DEF Covers
  <1>14. GridFits(grid, view, size) /\ grid # <<>>
    <2>1. (first + columns) * width = first * width + columns * width
      BY <1>1, <1>5, <1>6
    <2>2. Last(grid).bounds.right = Head(grid).bounds.left + Len(grid) * width
      <3>1. TilesBounds(grid).right = TilesBounds(grid).left + Len(grid) * width
        BY <1>10, <2>1, <1>16
      <3> QED  BY <3>1 DEF TilesBounds
    <2> QED  BY <1>5, <1>10, <1>12, <1>13, <2>2 DEF GridFits, Row, Long, width
  <1>15. InitGriddedTiles(s, view) = Replace(s, kept, placed, grid)
    BY DEF InitGriddedTiles, width, column, minCols, needed, columns, bounds, kept, tile, grid
  <1> HIDE DEF placed
  <1>19. /\ DOMAIN placed = DOMAIN grid
         /\ \A k \in DOMAIN grid : placed[k].isLoading => grid[k].isLoading
    BY <1>9, <1>10, <1>17
  <1>20. LET r == Replace(s, kept, placed, grid)
         IN  r \in LayerState /\ r.grid = grid /\ SameSwitches(s, r)
    BY <1>8, <1>10, <1>11, <1>17, <1>18, <1>19, ReplaceState
  <1> QED  BY <1>14, <1>15, <1>20

SingleFits(grid, view) == grid # <<>> /\ Covers(TilesBounds(grid), view)

LEMMA OneColumn ==
    ASSUME NEW size \in Sizes
    PROVE  1 \in Columns
  BY MapTilesAssumption, MapViewAssumption DEF Columns

LEMMA InitSingleFits ==
    ASSUME NEW s \in LayerState, NEW size \in Sizes, NEW view, IsView(view, size)
    PROVE  LET r == InitSingleTile(s, view)
           IN  /\ r \in LayerState /\ SameSwitches(s, r)
               /\ SingleFits(r.grid, view)
  <1> DEFINE margin == (view.right - view.left) \div 4
             bounds == [left |-> view.left - margin, right |-> view.right + margin]
             place == IF s.grid = <<>> THEN NewTile(bounds)
                      ELSE [Head(s.grid) EXCEPT !.bounds = bounds]
             tile == Draw(place)
  <1>1. /\ view.left \in Int /\ view.right \in Int
        /\ view.right - view.left = size * view.tile
        /\ size \in Nat /\ view.tile \in Nat
    BY MapViewAssumption DEF IsView
  <1>2. margin \in Int /\ margin >= 0
    <2>1. size * view.tile \in Nat
      BY <1>1
    <2> QED  BY <1>1, <2>1
  <1> HIDE DEF margin
  <1>3. /\ bounds \in Bounds /\ bounds.left <= view.left /\ view.right <= bounds.right
    BY <1>1, <1>2 DEF Bounds
  <1> HIDE DEF bounds
  <1>4. s.grid \in Seq(GoodTile)
    BY DEF LayerState
  <1>5. /\ place \in Tile /\ tile \in GoodTile /\ tile.bounds = bounds
        /\ place.isLoading <=> s.grid # <<>> /\ s.grid[1].isLoading
        /\ place.isLoading => tile.isLoading
    <2>1. CASE s.grid = <<>>
      <3>1. place = NewTile(bounds)
        BY <2>1
      <3> HIDE DEF place
      <3> QED  BY <1>3, <2>1, <3>1, NewTileGood
    <2>2. CASE s.grid # <<>>
      <3>1. Head(s.grid) \in GoodTile /\ Head(s.grid) = s.grid[1]
        BY <1>4, <2>2
      <3>2. place = [s.grid[1] EXCEPT !.bounds = bounds]
        BY <2>2, <3>1
      <3> HIDE DEF place
      <3>3. /\ place \in Tile /\ tile \in GoodTile /\ tile.bounds = bounds
            /\ place.isLoading = s.grid[1].isLoading
        BY <1>3, <3>1, <3>2, DrawGood
      <3> QED  BY <2>2, <3>3, DrawLoads
    <2> QED  BY <2>1, <2>2
  <1> HIDE DEF tile, place
  <1>6. /\ <<tile>> \in Seq(GoodTile) /\ <<tile>> # <<>>
        /\ DOMAIN <<tile>> = {1} /\ Head(<<tile>>) = tile /\ Last(<<tile>>) = tile
    BY <1>5 DEF Last
  <1> DEFINE grid == <<tile>>
  <1>7. DOMAIN <<tile>> \subseteq Columns
    BY <1>6, OneColumn
  <1>8. SingleFits(<<tile>>, view)
    BY <1>3, <1>5, <1>6 DEF SingleFits, TilesBounds, Covers
  <1>9. InitSingleTile(s, view) = Replace(s, 1, <<place>>, <<tile>>)
    BY DEF InitSingleTile, margin, bounds, tile, place
  <1>12. LoadingIn(<<place>>) = LoadingUpTo(s.grid, 1)
    <2>1. {k \in DOMAIN <<place>> : <<place>>[k].isLoading}
            = {k \in DOMAIN s.grid : k <= 1 /\ s.grid[k].isLoading}
      <3>1. DOMAIN <<place>> = {1} /\ <<place>>[1] = place
        OBVIOUS
      <3>2. /\ \A k \in DOMAIN s.grid : k <= 1 => k = 1
            /\ 1 \in DOMAIN s.grid <=> s.grid # <<>>
        BY <1>4
      <3> QED  BY <1>5, <3>1, <3>2
    <2> QED  BY <2>1 DEF LoadingIn, LoadingUpTo
  <1>10. /\ grid \in Seq(GoodTile) /\ DOMAIN grid \subseteq Columns
         /\ SingleFits(grid, view) /\ InitSingleTile(s, view) = Replace(s, 1, <<place>>, grid)
    BY <1>6, <1>7, <1>8, <1>9
  <1>13. /\ <<place>> \in Seq(Tile) /\ DOMAIN <<place>> = DOMAIN grid
         /\ \A k \in DOMAIN grid : <<place>>[k].isLoading => grid[k].isLoading
    BY <1>5
  <1> HIDE DEF grid
  <1>11. /\ Replace(s, 1, <<place>>, grid) \in LayerState
         /\ SameSwitches(s, Replace(s, 1, <<place>>, grid))
         /\ Replace(s, 1, <<place>>, grid).grid = grid
    BY <1>10, <1>12, <1>13, ReplaceState
  <1> QED  BY <1>10, <1>11

\* onMapResize
LEMMA OnMapResizeState ==
    ASSUME NEW s \in LayerState, NEW singleTile
    PROVE  LET r == OnMapResize(s, singleTile)
           IN  r \in LayerState /\ SameSwitches(s, r) /\ (s.grid = <<>> => r.grid = <<>>)
  <1> DEFINE none == <<>>
  <1>1. none \in Seq(GoodTile) /\ none \in Seq(Tile) /\ DOMAIN none = {}
    OBVIOUS
  <1>4. LoadingIn(none) = LoadingUpTo(s.grid, 0)
    <2>1. \A k \in DOMAIN s.grid : ~(k <= 0)
      BY DEF LayerState
    <2>2. {k \in DOMAIN none : none[k].isLoading}
            = {k \in DOMAIN s.grid : k <= 0 /\ s.grid[k].isLoading}
      BY <1>1, <2>1
    <2> QED  BY <2>2 DEF LoadingIn, LoadingUpTo
  <1>5. OnMapResize(s, singleTile) = IF singleTile THEN Replace(s, 0, none, none) ELSE s
    BY DEF OnMapResize
  <1>6. none = <<>>
    OBVIOUS
  <1> HIDE DEF none
  <1>2. /\ Replace(s, 0, none, none) \in LayerState
        /\ SameSwitches(s, Replace(s, 0, none, none))
        /\ Replace(s, 0, none, none).grid = none
    BY <1>1, <1>4, ReplaceState
  <1>3. SameSwitches(s, s)
    BY DEF SameSwitches
  <1> QED  BY <1>2, <1>3, <1>5, <1>6

LEMMA Places ==
    ASSUME NEW n \in Nat \ {0}
    PROVE  /\ 1 \in 1 .. n /\ n \in 1 .. n
           /\ n # 1 => /\ n \in 2 .. n /\ n - 1 \in 1 .. n - 1 /\ n - 1 \in 1 .. n
                       /\ (n - 1) + 1 = n /\ 1 \in 1 .. n - 1
           /\ \A k \in 1 .. n - 1 : k \in 1 .. n /\ k + 1 \in 2 .. n /\ k + 1 \in 1 .. n
           /\ \A k \in 2 .. n : k \in 1 .. n /\ k - 1 \in 1 .. n - 1 /\ k - 1 \in 1 .. n
                               /\ (k - 1) + 1 = k
  OBVIOUS

\* Turning a row by one place changes nothing in how many of its tiles load.
LEMMA TurnedLoading ==
    ASSUME NEW n \in Nat \ {0}, NEW g, NEW h, DOMAIN g = 1 .. n, DOMAIN h = 1 .. n,
           \A k \in 1 .. n : h[IF k = n THEN 1 ELSE k + 1].isLoading <=> g[k].isLoading
    PROVE  LoadingIn(h) = LoadingIn(g)
  <1> DEFINE S == {k \in DOMAIN g : g[k].isLoading}
             T == {k \in DOMAIN h : h[k].isLoading}
             next(k) == IF k = n THEN 1 ELSE k + 1
             f == [k \in S |-> next(k)]
  <1>1. \A k \in 1 .. n : next(k) \in 1 .. n
    OBVIOUS
  <1>2. \A j, k \in 1 .. n : next(j) = next(k) => j = k
    OBVIOUS
  <1>3. \A j \in 1 .. n : \E k \in 1 .. n : next(k) = j
    <2> TAKE j \in 1 .. n
    <2>1. CASE j = 1
      <3> WITNESS n \in 1 .. n
      <3> QED  BY <2>1
    <2>2. CASE j # 1
      <3>1. j - 1 \in 1 .. n /\ j - 1 # n /\ (j - 1) + 1 = j
        BY <2>2
      <3> HIDE DEF next
      <3>2. next(j - 1) = j
        BY <3>1 DEF next
      <3> QED  BY <3>1, <3>2
    <2> QED  BY <2>1, <2>2
  <1>4. \A k \in 1 .. n : next(k) \in T <=> k \in S
    BY <1>1
  <1>5. S \subseteq 1 .. n /\ T \subseteq 1 .. n
    OBVIOUS
  <1> HIDE DEF S, T, next
  <1>6. f \in [S -> T]
    BY <1>4, <1>5
  <1>7. \A j, k \in S : f[j] = f[k] => j = k
    BY <1>2, <1>5
  <1>8. \A j \in T : \E k \in S : f[k] = j
    BY <1>3, <1>4, <1>5
  <1> HIDE DEF f
  <1>9. ExistsBijection(S, T)
    <2>1. f \in Bijection(S, T)
      BY <1>6, <1>7, <1>8, Fun_IsBij
    <2> QED  BY <2>1 DEF ExistsBijection
  <1>10. IsFiniteSet(S)
    <2>1. IsFiniteSet(1 .. n)
      BY FS_Interval
    <2> QED  BY <1>5, <2>1, FS_Subset
  <1>11. Cardinality(T) = Cardinality(S)
    BY <1>9, <1>10, FS_Bijection
  <1> QED  BY <1>11 DEF LoadingIn, S, T

\* A column is shifted: by how much the grid moves.
Shifted(old, new, delta) ==
    /\ Len(new) = Len(old)
    /\ Head(new).bounds.left = Head(old).bounds.left + delta
    /\ Last(new).bounds.right = Last(old).bounds.right + delta

LEMMA ShiftColumnState ==
    ASSUME NEW s \in LayerState, s.grid # <<>>, NEW prepend, NEW width \in Int
    PROVE  LET r == ShiftColumn(s, prepend, width)
           IN  /\ r \in LayerState /\ SameSwitches(s, r)
               /\ r.grid # <<>> /\ Len(r.grid) = Len(s.grid)
               /\ Columned(s.grid, width) =>
                    /\ Columned(r.grid, width)
                    /\ Shifted(s.grid, r.grid, IF prepend THEN -width ELSE width)
  <1> DEFINE old == s.grid
             n == Len(old)
             tile == IF prepend THEN Last(old) ELSE Head(old)
             next == IF prepend THEN Head(old).bounds ELSE Last(old).bounds
             delta == IF prepend THEN -width ELSE width
             bounds == [left |-> next.left + delta, right |-> next.right + delta]
             place == [tile EXCEPT !.bounds = bounds]
             moved == Draw(place)
             placed == IF prepend THEN <<place>> \o Front(old) ELSE Append(Tail(old), place)
             grid == IF prepend THEN <<moved>> \o Front(old) ELSE Append(Tail(old), moved)
  <1>1. old \in Seq(GoodTile) /\ old # <<>> /\ n \in Nat \ {0} /\ DOMAIN old = 1 .. n
    BY DEF LayerState
  <1>2. /\ Head(old) = old[1] /\ Last(old) = old[n]
        /\ \A k \in 1 .. n : old[k] \in GoodTile /\ old[k].bounds \in Bounds
    BY <1>1 DEF Last, GoodTile, Tile
  <1>3. tile \in GoodTile /\ next \in Bounds
    BY <1>1, <1>2
  <1>4. bounds \in Bounds /\ bounds.left = next.left + delta /\ bounds.right = next.right + delta
    BY <1>3 DEF Bounds
  <1>0. n \in Nat \ {0} /\ 1 \in 1 .. n /\ n \in 1 .. n
    BY <1>1
  <1> HIDE DEF tile, bounds, n
  <1>5. /\ moved \in GoodTile /\ moved.bounds = bounds
        /\ place \in Tile /\ place.isLoading = tile.isLoading
    BY <1>3, <1>4, DrawGood
  <1>13. place.isLoading => moved.isLoading
    <2> HIDE DEF place
    <2> QED  BY <1>5, DrawLoads
  <1>14. tile = IF prepend THEN old[n] ELSE old[1]
    BY <1>2 DEF tile
  <1> HIDE DEF moved, place
  <1>6. /\ grid \in Seq(GoodTile) /\ Len(grid) = n /\ DOMAIN grid = 1 .. n
        /\ prepend => grid[1] = moved /\ \A k \in 2 .. n : grid[k] = old[k - 1]
        /\ ~prepend => grid[n] = moved /\ \A k \in 1 .. n - 1 : grid[k] = old[k + 1]
    <2>1. CASE prepend
      <3>1. Front(old) \in Seq(GoodTile) /\ Len(Front(old)) = n - 1
            /\ \A k \in 1 .. n - 1 : Front(old)[k] = old[k]
        BY <1>1 DEF Front
      <3> QED  BY <1>1, <1>5, <2>1, <3>1
    <2>2. CASE ~prepend
      <3>1. Tail(old) \in Seq(GoodTile) /\ Len(Tail(old)) = n - 1
            /\ \A k \in 1 .. n - 1 : Tail(old)[k] = old[k + 1]
        BY <1>1
      <3> QED  BY <1>1, <1>5, <2>2, <3>1
    <2> QED  BY <2>1, <2>2
  <1>15. /\ placed \in Seq(Tile) /\ DOMAIN placed = 1 .. n
         /\ prepend => placed[1] = place /\ \A k \in 2 .. n : placed[k] = old[k - 1]
         /\ ~prepend => placed[n] = place /\ \A k \in 1 .. n - 1 : placed[k] = old[k + 1]
    <2>3. old \in Seq(Tile)
      <3>1. GoodTile \subseteq Tile
        BY DEF GoodTile
      <3> QED  BY <1>1, <3>1
    <2>1. CASE prepend
      <3>1. Front(old) \in Seq(Tile) /\ Len(Front(old)) = n - 1
            /\ \A k \in 1 .. n - 1 : Front(old)[k] = old[k]
        BY <1>1, <2>3 DEF Front, n
      <3> QED  BY <1>0, <1>5, <2>1, <3>1
    <2>2. CASE ~prepend
      <3>1. Tail(old) \in Seq(Tile) /\ Len(Tail(old)) = n - 1
            /\ \A k \in 1 .. n - 1 : Tail(old)[k] = old[k + 1]
        BY <1>1, <2>3 DEF n
      <3> QED  BY <1>0, <1>5, <2>2, <3>1
    <2> QED  BY <2>1, <2>2
  <1> HIDE DEF grid, placed
  <1>16. \A k \in 1 .. n : placed[k].isLoading => grid[k].isLoading
    <2>1. CASE prepend
      <3>1. \A k \in 1 .. n : k = 1 \/ k \in 2 .. n
        BY <1>0
      <3> QED  BY <1>6, <1>13, <1>15, <2>1, <3>1
    <2>2. CASE ~prepend
      <3>1. \A k \in 1 .. n : k = n \/ k \in 1 .. n - 1
        BY <1>0
      <3> QED  BY <1>6, <1>13, <1>15, <2>2, <3>1
    <2> QED  BY <2>1, <2>2
  <1>17. LoadingIn(placed) = LoadingIn(old)
    <2>1. CASE prepend
      <3>1. ASSUME NEW k \in 1 .. n
            PROVE  placed[IF k = n THEN 1 ELSE k + 1].isLoading <=> old[k].isLoading
        <4>1. CASE k = n
          BY <1>5, <1>14, <1>15, <2>1, <4>1
        <4>2. CASE k # n
          <5>1. k + 1 \in 2 .. n /\ (k + 1) - 1 = k
            BY <1>0, <4>2
          <5>2. placed[k + 1] = old[(k + 1) - 1]
            BY <1>15, <2>1, <5>1
          <5> QED  BY <4>2, <5>1, <5>2
        <4> QED  BY <4>1, <4>2
      <3>2. DOMAIN old = 1 .. n /\ DOMAIN placed = 1 .. n /\ n \in Nat \ {0}
        BY <1>0, <1>1, <1>15
      <3> HIDE DEF old
      <3> QED  BY <3>1, <3>2, TurnedLoading
    <2>2. CASE ~prepend
      <3>1. ASSUME NEW k \in 1 .. n
            PROVE  old[IF k = n THEN 1 ELSE k + 1].isLoading <=> placed[k].isLoading
        <4>1. CASE k = n
          BY <1>5, <1>14, <1>15, <2>2, <4>1
        <4>2. CASE k # n
          <5>1. k \in 1 .. n - 1
            BY <1>0, <4>2
          <5>2. placed[k] = old[k + 1]
            BY <1>15, <2>2, <5>1
          <5> QED  BY <4>2, <5>2
        <4> QED  BY <4>1, <4>2
      <3>2. DOMAIN old = 1 .. n /\ DOMAIN placed = 1 .. n /\ n \in Nat \ {0}
        BY <1>0, <1>1, <1>15
      <3> HIDE DEF old
      <3> QED  BY <3>1, <3>2, TurnedLoading
    <2> QED  BY <2>1, <2>2
  <1>18. LoadingIn(placed) = LoadingUpTo(s.grid, n)
    <2>1. \A k \in DOMAIN old : k <= n
      BY <1>0, <1>1 DEF n
    <2>2. LoadingIn(old) = LoadingUpTo(old, n)
      <3> HIDE DEF old
      <3> QED  BY <2>1 DEF LoadingIn, LoadingUpTo
    <2> QED  BY <1>17, <2>2
  <1>7. DOMAIN grid \subseteq Columns /\ grid # <<>>
    <2>1. DOMAIN grid = DOMAIN s.grid
      BY <1>1, <1>6 DEF n
    <2> QED  BY <1>0, <1>6, <2>1 DEF LayerState
  <1>8. Head(grid) = grid[1] /\ Last(grid) = grid[n]
    BY <1>6, <1>7 DEF Last
  <1>9. ASSUME Columned(old, width)
        PROVE  Columned(grid, width) /\ Shifted(old, grid, delta)
    <2>1. /\ \A k \in 1 .. n : old[k].bounds.right = old[k].bounds.left + width
          /\ \A k \in 1 .. n - 1 : old[k].bounds.right = old[k + 1].bounds.left
      BY <1>1, <1>9 DEF Columned, n
    <2>2. \A k \in 1 .. n : old[k].bounds.left \in Int /\ old[k].bounds.right \in Int
      BY <1>2 DEF Bounds
    <2>3. CASE prepend
      <3>1. /\ moved.bounds.left = old[1].bounds.left - width
            /\ moved.bounds.right = old[1].bounds.right - width
        BY <1>1, <1>2, <1>4, <1>5, <2>2, <2>3
      <3>2. \A k \in 1 .. n : grid[k].bounds.right = grid[k].bounds.left + width
        <4>1. ASSUME NEW k \in 2 .. n PROVE grid[k].bounds.right = grid[k].bounds.left + width
          <5>1. k - 1 \in 1 .. n /\ grid[k] = old[k - 1]
            BY <1>0, <1>6, <2>3
          <5> QED  BY <2>1, <5>1
        <4>2. grid[1].bounds.right = grid[1].bounds.left + width
          <5>1. /\ old[1].bounds.right = old[1].bounds.left + width
                /\ old[1].bounds.left \in Int /\ old[1].bounds.right \in Int
            BY <1>0, <2>1, <2>2
          <5>2. grid[1] = moved
            BY <1>6, <2>3
          <5>3. /\ grid[1].bounds.left = old[1].bounds.left - width
                /\ grid[1].bounds.right = old[1].bounds.right - width
            BY <3>1, <5>2
          <5> QED  BY <5>1, <5>3
        <4> QED  BY <4>1, <4>2
      <3>3. ASSUME NEW k \in 1 .. n - 1 PROVE grid[k].bounds.right = grid[k + 1].bounds.left
        <4>1. k + 1 \in 2 .. n /\ grid[k + 1] = old[k]
          BY <1>0, <1>6, <2>3
        <4>2. CASE k = 1
          BY <1>0, <1>6, <2>1, <2>2, <2>3, <3>1, <4>1, <4>2
        <4>3. CASE k # 1
          <5>1. k \in 2 .. n /\ k - 1 \in 1 .. n - 1 /\ grid[k] = old[k - 1] /\ (k - 1) + 1 = k
            BY <1>0, <1>6, <2>3, <4>3
          <5> QED  BY <2>1, <4>1, <5>1
        <4> QED  BY <4>2, <4>3
      <3>4. Last(grid).bounds.right = old[n].bounds.right - width
        <4>1. CASE n = 1
          BY <1>6, <1>8, <2>3, <3>1, <4>1
        <4>2. CASE n # 1
          <5>1. n \in 2 .. n /\ n - 1 \in 1 .. n - 1 /\ n - 1 \in 1 .. n /\ n \in 1 .. n
                /\ (n - 1) + 1 = n
            BY <1>0, <4>2, Places, Zenon
          <5>2. grid[n] = old[n - 1]
            BY <1>6, <2>3, <5>1
          <5>3. old[n - 1].bounds.right = old[n].bounds.left
            BY <2>1, <5>1
          <5>4. /\ old[n].bounds.right = old[n].bounds.left + width
                /\ old[n].bounds.left \in Int /\ old[n].bounds.right \in Int
            BY <2>1, <2>2, <5>1
          <5> QED  BY <1>8, <5>2, <5>3, <5>4
        <4> QED  BY <4>1, <4>2
      <3>5. delta = -width
        BY <2>3
      <3>6. 1 \in 1 .. n /\ n \in 1 .. n
        BY <1>1
      <3>7. Shifted(old, grid, delta)
        <4>1. grid[1] = moved /\ Len(grid) = n /\ n = Len(old)
          BY <1>6, <2>3 DEF n
        <4>2. /\ old[1].bounds.left \in Int /\ old[n].bounds.right \in Int
              /\ width \in Int
          BY <2>2, <3>6
        <4>3. grid[1].bounds.left = old[1].bounds.left + delta
          BY <3>1, <3>5, <4>1, <4>2
        <4>4. Last(grid).bounds.right = old[n].bounds.right + delta
          BY <3>4, <3>5, <4>2
        <4> HIDE DEF delta
        <4> QED  BY <1>2, <1>8, <4>1, <4>3, <4>4 DEF Shifted
      <3> QED  BY <1>6, <3>2, <3>3, <3>7 DEF Columned
    <2>4. CASE ~prepend
      <3>1. /\ moved.bounds.left = old[n].bounds.left + width
            /\ moved.bounds.right = old[n].bounds.right + width
        BY <1>1, <1>2, <1>4, <1>5, <2>2, <2>4
      <3>2. \A k \in 1 .. n : grid[k].bounds.right = grid[k].bounds.left + width
        <4>1. ASSUME NEW k \in 1 .. n - 1
              PROVE  grid[k].bounds.right = grid[k].bounds.left + width
          <5>1. k + 1 \in 1 .. n /\ grid[k] = old[k + 1]
            BY <1>0, <1>6, <2>4
          <5> QED  BY <2>1, <5>1
        <4>2. n \in 1 .. n
          BY <1>1
        <4>3. grid[n].bounds.right = grid[n].bounds.left + width
          BY <1>0, <1>6, <2>1, <2>2, <2>4, <3>1, <4>2
        <4>4. \A k \in 1 .. n : k = n \/ k \in 1 .. n - 1
          BY <1>1
        <4> QED  BY <4>1, <4>3, <4>4
      <3>3. ASSUME NEW k \in 1 .. n - 1 PROVE grid[k].bounds.right = grid[k + 1].bounds.left
        <4>1. k + 1 \in 1 .. n /\ grid[k] = old[k + 1]
          BY <1>0, <1>6, <2>4
        <4>2. CASE k + 1 = n
          BY <1>0, <1>6, <2>1, <2>2, <2>4, <3>1, <4>1, <4>2
        <4>3. CASE k + 1 # n
          <5>1. k + 1 \in 1 .. n - 1 /\ grid[k + 1] = old[(k + 1) + 1]
            BY <1>0, <1>6, <2>4, <4>3
          <5> QED  BY <2>1, <4>1, <5>1
        <4> QED  BY <4>2, <4>3
      <3>4. Head(grid).bounds.left = old[1].bounds.left + width
        <4>1. CASE n = 1
          BY <1>6, <1>8, <2>4, <3>1, <4>1
        <4>2. CASE n # 1
          <5>1. 1 \in 1 .. n - 1 /\ 1 \in 1 .. n
            BY <1>0, <4>2, Places, Zenon
          <5>2. grid[1] = old[1 + 1]
            BY <1>6, <2>4, <5>1
          <5>3. old[1].bounds.right = old[1 + 1].bounds.left
            BY <2>1, <5>1
          <5>4. old[1].bounds.right = old[1].bounds.left + width
            BY <2>1, <5>1
          <5> QED  BY <1>8, <5>2, <5>3, <5>4
        <4> QED  BY <4>1, <4>2
      <3>5. delta = width
        BY <2>4
      <3>6. 1 \in 1 .. n /\ n \in 1 .. n
        BY <1>1
      <3>7. Shifted(old, grid, delta)
        <4>1. grid[n] = moved /\ Len(grid) = n /\ n = Len(old)
          BY <1>6, <2>4 DEF n
        <4>2. Head(grid).bounds.left = old[1].bounds.left + delta
          BY <3>4, <3>5
        <4>3. grid[n].bounds.right = old[n].bounds.right + delta
          BY <3>1, <3>5, <4>1
        <4> HIDE DEF delta
        <4> QED  BY <1>2, <1>8, <4>1, <4>2, <4>3 DEF Shifted
      <3> QED  BY <1>6, <3>2, <3>3, <3>7 DEF Columned
    <2> QED  BY <2>3, <2>4
  <1>10. ShiftColumn(s, prepend, width) = Replace(s, n, placed, grid)
    BY DEF ShiftColumn, tile, bounds, place, moved, placed, grid, n
  <1>11. /\ Replace(s, n, placed, grid) \in LayerState
         /\ SameSwitches(s, Replace(s, n, placed, grid))
         /\ Replace(s, n, placed, grid).grid = grid
    BY <1>0, <1>6, <1>7, <1>15, <1>16, <1>18, ReplaceState
  <1>12. Len(grid) = Len(s.grid)
    BY <1>6 DEF n
  <1> QED  BY <1>7, <1>9, <1>10, <1>11, <1>12

LEMMA GridEnds ==
    ASSUME NEW s \in LayerState, s.grid # <<>>
    PROVE  /\ Len(s.grid) \in Nat \ {0}
           /\ Head(s.grid).bounds.left \in Int /\ Last(s.grid).bounds.right \in Int
  <1>1. s.grid \in Seq(GoodTile)
    BY DEF LayerState
  <1>2. Len(s.grid) \in Nat \ {0} /\ Head(s.grid) \in GoodTile /\ Last(s.grid) \in GoodTile
    BY <1>1 DEF Last
  <1> QED  BY <1>2 DEF GoodTile, Tile, Bounds

\* How many columns of the grid may be to the left of the view, at most.
Margin == IF Buffer = 0 THEN 1 ELSE Buffer

\* After k rounds: the grid begins where it should, or is that much nearer.
Position(o, n, size, width, k) ==
    \/ -width * Margin <= o /\ o <= -width * (Margin - 1)
    \/ o > -width * (Margin - 1) /\ o <= (size - k) * width
    \/ o < -width * Margin /\ o >= (k - n) * width

LEMMA PositionMoves ==
    ASSUME NEW w \in Nat \ {0}, NEW n \in Nat, NEW size \in Nat, NEW k \in Nat,
           NEW o \in Int, Position(o, n, size, w, k)
    PROVE  /\ o > -w * (Margin - 1) => Position(o - w, n, size, w, k + 1)
           /\ o < -w * Margin => Position(o + w, n, size, w, k + 1)
           /\ ~(o > -w * (Margin - 1)) /\ ~(o < -w * Margin) => Position(o, n, size, w, k + 1)
  <1> DEFINE near == -w * (Margin - 1)
             far == -w * Margin
             high == (size - k) * w
             low == (k - n) * w
  <1>1. Margin \in Nat
    BY MapTilesAssumption DEF Margin
  <1>2. near \in Int /\ far \in Int /\ high \in Int /\ low \in Int
    BY <1>1
  <1>3. near = far + w
    BY <1>1
  <1>4. (size - (k + 1)) * w = high - w
    OBVIOUS
  <1>5. ((k + 1) - n) * w = low + w
    OBVIOUS
  <1>6. \A p \in Int : Position(p, n, size, w, k) <=>
             \/ far <= p /\ p <= near
             \/ p > near /\ p <= high
             \/ p < far /\ p >= low
    BY DEF Position
  <1>7. \A p \in Int : Position(p, n, size, w, k + 1) <=>
             \/ far <= p /\ p <= near
             \/ p > near /\ p <= high - w
             \/ p < far /\ p >= low + w
    BY <1>4, <1>5 DEF Position
  <1> HIDE DEF near, far, high, low
  <1>8. \/ far <= o /\ o <= near
        \/ o > near /\ o <= high
        \/ o < far /\ o >= low
    BY <1>6
  <1>9. o > near => Position(o - w, n, size, w, k + 1)
    BY <1>2, <1>3, <1>7, <1>8
  <1>10. o < far => Position(o + w, n, size, w, k + 1)
    BY <1>2, <1>3, <1>7, <1>8
  <1>11. ~(o > near) /\ ~(o < far) => Position(o, n, size, w, k + 1)
    BY <1>2, <1>3, <1>7, <1>8
  <1> QED  BY <1>9, <1>10, <1>11 DEF near, far

LEMMA PositionSettles ==
    ASSUME NEW w \in Nat \ {0}, NEW n \in Nat, NEW size \in Nat, n >= MinCols(size),
           NEW o \in Int, Position(o, n, size, w, n + 1)
    PROVE  o <= 0 /\ size * w <= o + n * w
  <1>1. /\ Margin \in Nat \ {0} /\ n >= size + Margin
    BY MapTilesAssumption DEF Margin, MinCols
  <1> HIDE DEF MinCols
  <1> DEFINE high == (size - (n + 1)) * w
             low == ((n + 1) - n) * w
             near == -w * (Margin - 1)
             far == -w * Margin
  <1>2. high \in Int /\ near \in Int /\ far \in Int
    BY <1>1
  <1>3. low = w
    OBVIOUS
  <1>4. high <= near
    <2>1. size - (n + 1) \in Int /\ -(Margin - 1) \in Int /\ size - (n + 1) <= -(Margin - 1)
      BY <1>1
    <2>2. (size - (n + 1)) * w <= (-(Margin - 1)) * w
      BY <2>1, MoreTiles
    <2>3. (-(Margin - 1)) * w = near
      BY <1>1
    <2> QED  BY <2>2, <2>3
  <1>5. far <= 0 /\ near <= 0
    <2>1. Margin * w \in Nat /\ (Margin - 1) * w \in Nat
      BY <1>1
    <2>2. far = -(Margin * w) /\ near = -((Margin - 1) * w)
      BY <1>1
    <2> QED  BY <2>1, <2>2
  <1>6. \/ far <= o /\ o <= near
        \/ o > near /\ o <= high
        \/ o < far /\ o >= low
    BY DEF Position
  <1> HIDE DEF near, far, high, low
  <1>7. far <= o /\ o <= near
    BY <1>2, <1>3, <1>4, <1>5, <1>6
  <1>8. size * w <= far + n * w
    <2>1. size + Margin \in Int /\ n \in Int /\ size + Margin <= n
      BY <1>1
    <2>2. (size + Margin) * w <= n * w
      BY <2>1, MoreTiles
    <2>3. (size + Margin) * w = size * w - far
      BY <1>1 DEF far
    <2>4. size * w \in Int /\ n * w \in Int
      OBVIOUS
    <2> QED  BY <1>2, <2>2, <2>3, <2>4
  <1>9. size * w \in Int /\ n * w \in Int
    OBVIOUS
  <1> QED  BY <1>2, <1>5, <1>7, <1>8, <1>9

Offset(s, view) == Head(s.grid).bounds.left - view.left

LEMMA ShiftIfNeededState ==
    ASSUME NEW s \in LayerState, s.grid # <<>>, NEW size \in Sizes, NEW view, IsView(view, size)
    PROVE  LET r == ShiftIfNeeded(s, view)
           IN  /\ r \in LayerState /\ SameSwitches(s, r)
               /\ r.grid # <<>> /\ Len(r.grid) = Len(s.grid)
               /\ Row(s.grid, view.tile) =>
                    /\ Row(r.grid, view.tile)
                    /\ \A k \in Nat :
                         Position(Offset(s, view), Len(s.grid), size, view.tile, k)
                           => Position(Offset(r, view), Len(s.grid), size, view.tile, k + 1)
  <1> DEFINE w == view.tile
             n == Len(s.grid)
             o == Offset(s, view)
             r == ShiftIfNeeded(s, view)
  <1>1. w \in Nat \ {0} /\ view.left \in Int /\ size \in Nat
    BY MapViewAssumption DEF IsView
  <1>2. /\ n \in Nat \ {0} /\ Head(s.grid).bounds.left \in Int
        /\ Last(s.grid).bounds.right \in Int
    BY GridEnds
  <1>3. o \in Int
    BY <1>1, <1>2 DEF Offset
  <1>4. r = IF o > -w * (Margin - 1) THEN ShiftColumn(s, TRUE, w)
            ELSE IF o < -w * Margin THEN ShiftColumn(s, FALSE, w) ELSE s
    BY DEF ShiftIfNeeded, Margin, Offset
  <1> HIDE DEF w, n, o, r
  <1>5. ASSUME NEW delta \in Int, Row(s.grid, w), Columned(r.grid, w), r \in LayerState,
               r.grid # <<>>, Shifted(s.grid, r.grid, delta),
               \A k \in Nat : Position(o, n, size, w, k) => Position(o + delta, n, size, w, k + 1)
        PROVE  /\ Row(r.grid, w)
               /\ \A k \in Nat : Position(o, n, size, w, k)
                                   => Position(Offset(r, view), n, size, w, k + 1)
    <2>1. /\ Head(r.grid).bounds.left = Head(s.grid).bounds.left + delta
          /\ Last(r.grid).bounds.right = Last(s.grid).bounds.right + delta
          /\ Len(r.grid) = Len(s.grid)
      BY <1>5 DEF Shifted
    <2>2. Offset(r, view) = o + delta
      BY <1>1, <1>2, <2>1 DEF Offset, o
    <2>3. Long(r.grid, w)
      <3>1. n * w \in Int
        BY <1>1, <1>2
      <3>2. Last(s.grid).bounds.right = Head(s.grid).bounds.left + n * w
        BY <1>5 DEF Row, Long, n
      <3>3. Last(r.grid).bounds.right = Head(r.grid).bounds.left + n * w
        BY <1>2, <2>1, <3>1, <3>2
      <3> QED  BY <2>1, <3>3 DEF Long, n
    <2> QED  BY <1>5, <2>2, <2>3 DEF Row
  <1>6. CASE o > -w * (Margin - 1)
    <2>0. w \in Int
      BY <1>1
    <2>1. r = ShiftColumn(s, TRUE, w)
      BY <1>4, <1>6
    <2>2. /\ r \in LayerState /\ SameSwitches(s, r)
          /\ r.grid # <<>> /\ Len(r.grid) = Len(s.grid)
          /\ Columned(s.grid, w) => Columned(r.grid, w) /\ Shifted(s.grid, r.grid, -w)
      BY <2>0, <2>1, ShiftColumnState
    <2>3. \A k \in Nat : Position(o, n, size, w, k) => Position(o + (-w), n, size, w, k + 1)
      <3>1. o + (-w) = o - w
        BY <1>1, <1>3
      <3> QED  BY <1>1, <1>2, <1>3, <1>6, <3>1, PositionMoves
    <2>4. -w \in Int
      BY <1>1
    <2>5. Row(s.grid, w) => /\ Row(r.grid, w)
                            /\ \A k \in Nat : Position(o, n, size, w, k)
                                 => Position(Offset(r, view), n, size, w, k + 1)
      BY <1>5, <2>2, <2>3, <2>4 DEF Row
    <2> QED  BY <2>2, <2>5, Zenon DEF r, w, n, o
  <1>7. CASE ~(o > -w * (Margin - 1)) /\ o < -w * Margin
    <2>0. w \in Int
      BY <1>1
    <2>1. r = ShiftColumn(s, FALSE, w)
      BY <1>4, <1>7
    <2>2. /\ r \in LayerState /\ SameSwitches(s, r)
          /\ r.grid # <<>> /\ Len(r.grid) = Len(s.grid)
          /\ Columned(s.grid, w) => Columned(r.grid, w) /\ Shifted(s.grid, r.grid, w)
      BY <2>0, <2>1, ShiftColumnState
    <2>3. \A k \in Nat : Position(o, n, size, w, k) => Position(o + w, n, size, w, k + 1)
      BY <1>1, <1>2, <1>3, <1>7, PositionMoves
    <2>4. w \in Int
      BY <1>1
    <2>5. Row(s.grid, w) => /\ Row(r.grid, w)
                            /\ \A k \in Nat : Position(o, n, size, w, k)
                                 => Position(Offset(r, view), n, size, w, k + 1)
      BY <1>5, <2>2, <2>3, <2>4 DEF Row
    <2> QED  BY <2>2, <2>5, Zenon DEF r, w, n, o
  <1>8. CASE ~(o > -w * (Margin - 1)) /\ ~(o < -w * Margin)
    <2>1. r = s
      BY <1>4, <1>8
    <2>2. \A k \in Nat : Position(o, n, size, w, k) => Position(o, n, size, w, k + 1)
      BY <1>1, <1>2, <1>3, <1>8, PositionMoves
    <2>3. SameSwitches(s, s)
      BY DEF SameSwitches
    <2> QED  BY <2>1, <2>2, <2>3 DEF r, w, n, o
  <1> QED  BY <1>6, <1>7, <1>8

IsShifting(f, s, view, rounds) ==
    f = [k \in 0 .. rounds |-> IF k = 0 THEN s ELSE ShiftIfNeeded(f[k - 1], view)]

LEMMA ShiftingExists ==
    ASSUME NEW s, NEW view, NEW rounds \in Nat
    PROVE  \E f : IsShifting(f, s, view, rounds)
  <1> DEFINE Bad == {n \in 0 .. rounds : ~ \E f : IsShifting(f, s, view, n)}
  <1>1. \E f : IsShifting(f, s, view, 0)
    <2>1. IsShifting([k \in 0 .. 0 |-> s], s, view, 0)
      BY DEF IsShifting
    <2> QED  BY <2>1
  <1>2. ASSUME NEW n \in 1 .. rounds, NEW f, IsShifting(f, s, view, n - 1)
        PROVE  \E g : IsShifting(g, s, view, n)
    <2> DEFINE g == [k \in 0 .. n |-> IF k = n THEN ShiftIfNeeded(f[n - 1], view) ELSE f[k]]
    <2>1. ASSUME NEW k \in 0 .. n
          PROVE  g[k] = IF k = 0 THEN s ELSE ShiftIfNeeded(g[k - 1], view)
      <3>1. CASE k = n
        <4>1. k # 0 /\ k - 1 \in 0 .. n /\ k - 1 # n /\ g[k - 1] = f[k - 1]
          BY <3>1
        <4> QED  BY <3>1, <4>1
      <3>2. CASE k # n
        <4>1. k \in 0 .. n - 1 /\ g[k] = f[k]
          BY <3>2
        <4>2. k # 0 => k - 1 \in 0 .. n /\ k - 1 # n /\ g[k - 1] = f[k - 1]
          BY <3>2
        <4> QED  BY <1>2, <4>1, <4>2 DEF IsShifting
      <3> QED  BY <3>1, <3>2
    <2>2. IsShifting(g, s, view, n)
      BY <2>1 DEF IsShifting
    <2> QED  BY <2>2
  <1>3. Bad \subseteq Nat /\ 0 \notin Bad
    BY <1>1
  <1>4. ASSUME NEW n \in Bad PROVE n - 1 \in Bad
    <2>1. n \in 1 .. rounds /\ n - 1 \in 0 .. rounds
      BY <1>3
    <2> QED  BY <1>2, <2>1
  <1>5. Bad = {}
    <2> HIDE DEF Bad
    <2> QED  BY <1>3, <1>4, Descent
  <1>6. rounds \in 0 .. rounds
    OBVIOUS
  <1> QED  BY <1>5, <1>6

LEMMA MoveGriddedShifts ==
    ASSUME NEW s, NEW view, Len(s.grid) \in Nat
    PROVE  \E f : /\ f[0] = s
                  /\ \A k \in 1 .. Len(s.grid) + 1 : f[k] = ShiftIfNeeded(f[k - 1], view)
                  /\ MoveGriddedTiles(s, view) = f[Len(s.grid) + 1]
  <1> DEFINE rounds == Len(s.grid) + 1
             f == CHOOSE g : IsShifting(g, s, view, rounds)
  <1>1. MoveGriddedTiles(s, view) = f[rounds]
    BY DEF MoveGriddedTiles, IsShifting
  <1>2. rounds \in Nat
    OBVIOUS
  <1>3. IsShifting(f, s, view, rounds)
    <2> HIDE DEF rounds
    <2> QED  BY <1>2, ShiftingExists
  <1> HIDE DEF f
  <1>4. f[0] = s /\ \A k \in 1 .. rounds : f[k] = ShiftIfNeeded(f[k - 1], view)
    BY <1>2, <1>3 DEF IsShifting
  <1> QED  BY <1>1, <1>4

LEMMA NoRounds ==
    ASSUME NEW w \in Nat, NEW n \in Nat, NEW size \in Nat
    PROVE  (size - 0) * w = size * w /\ (0 - n) * w = -(n * w)
  OBVIOUS

LEMMA MoveGriddedFits ==
    ASSUME NEW s \in LayerState, s.grid # <<>>, NEW size \in Sizes, NEW view, IsView(view, size)
    PROVE  LET r == MoveGriddedTiles(s, view)
           IN  /\ r \in LayerState /\ SameSwitches(s, r) /\ r.grid # <<>>
               /\ /\ Row(s.grid, view.tile) /\ Len(s.grid) >= MinCols(size)
                  /\ Touches(TilesBounds(s.grid), view)
                  => GridFits(r.grid, view, size)
  <1> DEFINE w == view.tile
             n == Len(s.grid)
             Round(t, k) ==
               /\ t \in LayerState /\ SameSwitches(s, t)
               /\ t.grid # <<>> /\ Len(t.grid) = n
               /\ Row(s.grid, w) /\ Position(Offset(s, view), n, size, w, 0)
                    => Row(t.grid, w) /\ Position(Offset(t, view), n, size, w, k)
  <1>1. /\ w \in Nat \ {0} /\ size \in Nat
        /\ view.left \in Int /\ view.right \in Int /\ view.right = view.left + size * w
    BY MapViewAssumption DEF IsView
  <1>2. /\ n \in Nat \ {0} /\ Head(s.grid).bounds.left \in Int
        /\ Last(s.grid).bounds.right \in Int
    BY GridEnds
  <1>3. PICK f : /\ f[0] = s
                 /\ \A k \in 1 .. n + 1 : f[k] = ShiftIfNeeded(f[k - 1], view)
                 /\ MoveGriddedTiles(s, view) = f[n + 1]
    BY <1>2, MoveGriddedShifts
  <1> HIDE DEF n
  <1> DEFINE Bad == {k \in 0 .. n + 1 : ~Round(f[k], k)}
  <1>4. Bad \subseteq Nat /\ 0 \notin Bad
    <2>1. SameSwitches(s, s)
      BY DEF SameSwitches
    <2> QED  BY <1>3, <2>1 DEF n
  <1>5. ASSUME NEW k \in Bad PROVE k - 1 \in Bad
    <2>1. k \in 1 .. n + 1 /\ k - 1 \in 0 .. n + 1 /\ k - 1 \in Nat /\ (k - 1) + 1 = k
      BY <1>2, <1>4
    <2>2. f[k] = ShiftIfNeeded(f[k - 1], view)
      BY <1>3, <2>1
    <2>3. ASSUME Round(f[k - 1], k - 1) PROVE Round(f[k], k)
      <3>1. /\ f[k] \in LayerState /\ SameSwitches(f[k - 1], f[k])
            /\ f[k].grid # <<>> /\ Len(f[k].grid) = n
            /\ Row(f[k - 1].grid, w) =>
                 /\ Row(f[k].grid, w)
                 /\ \A j \in Nat : Position(Offset(f[k - 1], view), n, size, w, j)
                                     => Position(Offset(f[k], view), n, size, w, j + 1)
        BY <2>2, <2>3, ShiftIfNeededState, Zenon
      <3>2. SameSwitches(s, f[k])
        BY <2>3, <3>1 DEF SameSwitches
      <3>3. Row(f[k - 1].grid, w) /\ Position(Offset(f[k - 1], view), n, size, w, k - 1)
              => Row(f[k].grid, w) /\ Position(Offset(f[k], view), n, size, w, k)
        BY <2>1, <3>1
      <3> QED  BY <2>3, <3>1, <3>2, <3>3
    <2> QED  BY <2>1, <2>3
  <1>6. Bad = {}
    <2> HIDE DEF Bad
    <2> QED  BY <1>4, <1>5, Descent
  <1>7. n + 1 \in 0 .. n + 1
    BY <1>2
  <1>8. Round(f[n + 1], n + 1)
    BY <1>6, <1>7
  <1> DEFINE r == MoveGriddedTiles(s, view)
  <1>9. Round(r, n + 1)
    BY <1>3, <1>8
  <1> HIDE DEF r
  <1>10. ASSUME Row(s.grid, w), n >= MinCols(size), Touches(TilesBounds(s.grid), view)
         PROVE  GridFits(r.grid, view, size)
    <2> DEFINE o == Offset(s, view)
               p == Offset(r, view)
    <2>1. o \in Int /\ p \in Int
      <3>1. Head(r.grid).bounds.left \in Int
        BY <1>9, GridEnds
      <3> QED  BY <1>1, <1>2, <3>1 DEF Offset
    <2>2. Position(o, n, size, w, 0)
      <3>1. n * w \in Int /\ size * w \in Int
        BY <1>1, <1>2
      <3>2. o <= size * w /\ o >= -(n * w)
        <4>1. Last(s.grid).bounds.right = Head(s.grid).bounds.left + n * w
          BY <1>10 DEF Row, Long, n
        <4>2. /\ TilesBounds(s.grid).left = Head(s.grid).bounds.left
              /\ TilesBounds(s.grid).right = Last(s.grid).bounds.right
          BY DEF TilesBounds
        <4> DEFINE long == n * w
                   span == size * w
                   first == Head(s.grid).bounds.left
                   last == Last(s.grid).bounds.right
        <4>3. long \in Nat /\ span \in Nat
          BY <1>1, <1>2
        <4>4. last = first + long /\ view.right = view.left + span
          BY <1>1, <4>1
        <4>5. \/ first <= view.left /\ view.left <= last
              \/ first <= view.right /\ view.right <= last
          BY <1>10, <4>2 DEF Touches
        <4>6. first \in Int /\ last \in Int /\ view.left \in Int /\ view.right \in Int
          BY <1>1, <1>2
        <4>7. o = first - view.left
          BY DEF Offset
        <4> HIDE DEF long, span, first, last, o
        <4>8. o <= span /\ o >= -long
          BY <4>3, <4>4, <4>5, <4>6, <4>7
        <4> QED  BY <4>8 DEF long, span
      <3>3. (size - 0) * w = size * w /\ (0 - n) * w = -(n * w)
        BY <1>1, <1>2, NoRounds
      <3>4. -w * Margin \in Int /\ -w * (Margin - 1) \in Int
        <4>1. Margin \in Int /\ Margin - 1 \in Int
          BY MapTilesAssumption DEF Margin
        <4> DEFINE far == w * Margin
                   near == w * (Margin - 1)
        <4>2. far \in Int /\ near \in Int
          BY <1>1, <4>1, IntProduct
        <4> HIDE DEF far, near
        <4>3. -far \in Int /\ -near \in Int
          BY <4>2
        <4> QED  BY <4>3 DEF far, near
      <3> DEFINE far == -w * Margin
                 near == -w * (Margin - 1)
                 high == (size - 0) * w
                 low == (0 - n) * w
      <3>5. Position(o, n, size, w, 0) <=> \/ far <= o /\ o <= near
                                           \/ o > near /\ o <= high
                                           \/ o < far /\ o >= low
        BY DEF Position
      <3>6. far \in Int /\ near \in Int /\ o <= high /\ o >= low
        BY <3>2, <3>3, <3>4
      <3> HIDE DEF o, far, near, high, low
      <3> QED  BY <2>1, <3>5, <3>6
    <2>3. Row(r.grid, w) /\ Position(p, n, size, w, n + 1) /\ Len(r.grid) = n
      BY <1>9, <1>10, <2>2
    <2>4. p <= 0 /\ size * w <= p + n * w
      BY <1>1, <1>2, <1>10, <2>1, <2>3, PositionSettles
    <2>5. /\ Head(r.grid).bounds.left \in Int /\ Last(r.grid).bounds.right \in Int
          /\ Last(r.grid).bounds.right = Head(r.grid).bounds.left + n * w
      BY <1>9, <2>3, GridEnds DEF Row, Long
    <2>6. p = Head(r.grid).bounds.left - view.left
      BY DEF Offset
    <2>7. size * w \in Int /\ n * w \in Int
      BY <1>1, <1>2
    <2> HIDE DEF p, w
    <2>8. /\ Head(r.grid).bounds.left <= view.left
          /\ view.right <= Last(r.grid).bounds.right
      BY <1>1, <2>1, <2>4, <2>5, <2>6, <2>7
    <2>9. Covers(TilesBounds(r.grid), view)
      BY <2>8 DEF Covers, TilesBounds
    <2> QED  BY <1>10, <2>3, <2>9 DEF GridFits, w
  <1> QED  BY <1>9, <1>10 DEF r, n

\* Layer.Grid.moveTo, whatever happened to the layer before.
LEMMA GridMoveToFits ==
    ASSUME NEW s \in LayerState, NEW single, NEW size \in Sizes, NEW view, IsView(view, size),
           NEW zoomChanged, NEW dragging
    PROVE  LET r == GridMoveTo(s, single, view, zoomChanged, dragging)
           IN  /\ r \in LayerState /\ SameSwitches(s, r) /\ r.grid # <<>>
               /\ single /\ (zoomChanged \/ ~dragging) => SingleFits(r.grid, view)
               /\ /\ ~single
                  /\ \/ zoomChanged \/ s.grid = <<>>
                     \/ Row(s.grid, view.tile) /\ Len(s.grid) >= MinCols(size)
                  => GridFits(r.grid, view, size)
  <1> DEFINE r == GridMoveTo(s, single, view, zoomChanged, dragging)
             force == s.grid = <<>> \/ zoomChanged
             bounds == TilesBounds(s.grid)
  <1>1. r = IF single
              THEN IF force \/ (~dragging /\ ~Covers(bounds, view))
                     THEN InitSingleTile(s, view) ELSE s
              ELSE IF force \/ ~Touches(bounds, view)
                     THEN InitGriddedTiles(s, view) ELSE MoveGriddedTiles(s, view)
    BY DEF GridMoveTo
  <1>2. SameSwitches(s, s)
    BY DEF SameSwitches
  <1> HIDE DEF r, bounds
  <1>3. CASE single
    <2>1. CASE force \/ (~dragging /\ ~Covers(bounds, view))
      <3>1. r = InitSingleTile(s, view)
        BY <1>1, <1>3, <2>1
      <3>2. r \in LayerState /\ SameSwitches(s, r) /\ SingleFits(r.grid, view)
        BY <3>1, InitSingleFits
      <3>3. r.grid # <<>>
        BY <3>2 DEF SingleFits
      <3> QED  BY <1>3, <3>2, <3>3 DEF r
    <2>2. CASE ~(force \/ (~dragging /\ ~Covers(bounds, view)))
      <3>1. r = s /\ s.grid # <<>> /\ ~zoomChanged
        BY <1>1, <1>3, <2>2
      <3>2. ~dragging => SingleFits(s.grid, view)
        BY <2>2 DEF SingleFits, bounds
      <3> QED  BY <1>2, <1>3, <3>1, <3>2 DEF r
    <2> QED  BY <2>1, <2>2
  <1>4. CASE ~single
    <2>1. CASE force \/ ~Touches(bounds, view)
      <3>1. r = InitGriddedTiles(s, view)
        BY <1>1, <1>4, <2>1
      <3>2. /\ r \in LayerState /\ SameSwitches(s, r)
            /\ r.grid # <<>> /\ GridFits(r.grid, view, size)
        BY <3>1, InitGriddedFits
      <3> QED  BY <1>4, <3>2 DEF r
    <2>2. CASE ~(force \/ ~Touches(bounds, view))
      <3>1. r = MoveGriddedTiles(s, view) /\ s.grid # <<>> /\ ~zoomChanged
        BY <1>1, <1>4, <2>2
      <3>2. Touches(TilesBounds(s.grid), view)
        BY <2>2 DEF bounds
      <3>3. /\ r \in LayerState /\ SameSwitches(s, r) /\ r.grid # <<>>
            /\ Row(s.grid, view.tile) /\ Len(s.grid) >= MinCols(size)
                 => GridFits(r.grid, view, size)
        BY <3>1, <3>2, MoveGriddedFits
      <3> QED  BY <1>4, <3>1, <3>3 DEF r
    <2> QED  BY <2>1, <2>2
  <1> QED  BY <1>3, <1>4

-----------------------------------------------------------------------------
(***************************************************************************)
(* The layers of a map: moved, redrawn, switched.                          *)
(***************************************************************************)
\* A map with a place to draw its layers at.
Mapped(m) ==
    /\ IsMap(m)
    /\ m.layer \in [Layer -> LayerState]
    /\ m.size \in Sizes /\ m.center \in Int

TileView(m) == View(m.center, m.zoom, m.size)

LEMMA TileViewIsView ==
    ASSUME NEW m, Mapped(m)
    PROVE  IsView(TileView(m), m.size) /\ TileView(m).tile = Resolution(m.zoom)
  <1>1. m.center \in Int /\ m.size \in Nat
    BY MapViewAssumption DEF Mapped
  <1>2. IsView(View(m.center, m.zoom, m.size), m.size)
    BY <1>1, ViewIsView
  <1>3. View(m.center, m.zoom, m.size).tile = Resolution(m.zoom)
    BY DEF View
  <1> QED  BY <1>2, <1>3 DEF TileView

\* What a layer needs so that its tiles can be moved without being made anew.
Movable(m, l) ==
    LET grid == m.layer[l].grid
    IN  \/ l \in SingleTile
        \/ grid = <<>>
        \/ Row(grid, Resolution(m.zoom)) /\ Len(grid) >= MinCols(m.size)

\* The tiles of a layer fit the view; one tile may lag behind during a drag.
FitsIn(l, grid, view, size, dragging) ==
    IF l \in SingleTile THEN grid # <<>> /\ (dragging \/ SingleFits(grid, view))
    ELSE GridFits(grid, view, size)

LEMMA RangeBoolean ==
    ASSUME NEW m, NEW l
    PROVE  CalculateInRange(m, l) \in BOOLEAN
  BY DEF CalculateInRange

LEMMA MoveLayerTiles ==
    ASSUME NEW m, Mapped(m), NEW l \in Layer, NEW zoomChanged \in BOOLEAN, NEW dragging \in BOOLEAN
    PROVE  LET r == MoveLayer(m, l, zoomChanged, dragging).layer
               old == m.layer[l]
           IN  /\ r \in [Layer -> LayerState]
               /\ \A k \in Layer : k # l => r[k] = m.layer[k]
               /\ r[l].visibility = old.visibility /\ r[l].inRange = old.inRange
               /\ r[l].displayed => old.visibility /\ (l \in Base \/ old.inRange)
               /\ zoomChanged \/ Movable(m, l)
                    => FitsIn(l, r[l].grid, TileView(m), m.size, dragging)
  <1> DEFINE old == m.layer[l]
             show == old.visibility /\ (l \in Base \/ old.inRange)
             displayed == show /\ (old.displayed \/ CalculateInRange(m, l))
             s == [old EXCEPT !.displayed = displayed]
             single == l \in SingleTile
             moved == GridMoveTo(s, single, TileView(m), zoomChanged, dragging)
  <1>1. old \in LayerState /\ old.visibility \in BOOLEAN /\ displayed \in BOOLEAN
        /\ (displayed => old.visibility /\ (l \in Base \/ old.inRange))
    <2>1. old \in LayerState
      BY DEF Mapped
    <2>2. displayed \in BOOLEAN
      OBVIOUS
    <2> QED  BY <2>1, <2>2 DEF LayerState
  <1>2. Display(m, l, show).layer[l] = s
    <2>1. m.layer \in [Layer -> LayerState] /\ "layer" \in DOMAIN m
      BY DEF Mapped, IsMap
    <2> QED  BY <2>1 DEF Display
  <1> HIDE DEF displayed, old
  <1>3. /\ s \in LayerState
        /\ s.visibility = old.visibility /\ s.inRange = old.inRange
        /\ s.displayed = displayed /\ s.grid = old.grid
    BY <1>1 DEF LayerState
  <1>4. MoveLayer(m, l, zoomChanged, dragging).layer = [m.layer EXCEPT ![l] = moved]
    <2>1. MoveLayer(m, l, zoomChanged, dragging)
            = [m EXCEPT !.layer[l] = GridMoveTo(Display(m, l, show).layer[l], l \in SingleTile,
                                                TileView(m), zoomChanged, dragging)]
      BY DEF MoveLayer, TileView, old
    <2>2. "layer" \in DOMAIN m
      BY DEF Mapped, IsMap
    <2> HIDE DEF s, show
    <2> QED  BY <1>2, <2>1, <2>2
  <1> HIDE DEF s
  <1>5. /\ moved \in LayerState /\ SameSwitches(s, moved) /\ moved.grid # <<>>
        /\ single /\ (zoomChanged \/ ~dragging) => SingleFits(moved.grid, TileView(m))
        /\ /\ ~single
           /\ \/ zoomChanged \/ s.grid = <<>>
              \/ Row(s.grid, TileView(m).tile) /\ Len(s.grid) >= MinCols(m.size)
           => GridFits(moved.grid, TileView(m), m.size)
    <2>1. m.size \in Sizes /\ IsView(TileView(m), m.size)
      BY TileViewIsView DEF Mapped
    <2> QED  BY <1>3, <2>1, GridMoveToFits
  <1> HIDE DEF moved
  <1>6. zoomChanged \/ Movable(m, l) => FitsIn(l, moved.grid, TileView(m), m.size, dragging)
    BY <1>3, <1>5, TileViewIsView DEF Movable, FitsIn, old
  <1> DEFINE r == MoveLayer(m, l, zoomChanged, dragging).layer
  <1>7. /\ r \in [Layer -> LayerState] /\ r[l] = moved
        /\ \A k \in Layer : k # l => r[k] = m.layer[k]
    BY <1>4, <1>5 DEF Mapped
  <1> HIDE DEF r
  <1>8. /\ moved.visibility = old.visibility /\ moved.inRange = old.inRange
        /\ moved.displayed => old.visibility /\ (l \in Base \/ old.inRange)
    BY <1>1, <1>3, <1>5 DEF SameSwitches
  <1> QED  BY <1>6, <1>7, <1>8 DEF r, old

LEMMA OnlyLayerMapped ==
    ASSUME NEW m, NEW n, Mapped(m), OnlyLayer(m, n), n.layer \in [Layer -> LayerState]
    PROVE  Mapped(n) /\ TileView(n) = TileView(m)
  BY DEF Mapped, OnlyLayer, TileView

LEMMA OnlyLayerRange ==
    ASSUME NEW m, NEW n, OnlyLayer(m, n), NEW l
    PROVE  CalculateInRange(n, l) = CalculateInRange(m, l) /\ InMap(n, l) = InMap(m, l)
  BY DEF CalculateInRange, OnlyLayer, InMap

\* An overlay that follows the map.
LEMMA MoveOverlayTiles ==
    ASSUME NEW m, Mapped(m), NEW l \in Layer, l \notin Base, NEW zoomChanged \in BOOLEAN,
           NEW dragging \in BOOLEAN, m.layer[l].displayed => m.layer[l].inRange
    PROVE  LET r == MoveOverlay(m, l, zoomChanged, dragging).layer[l]
           IN  /\ r \in LayerState
               /\ r.visibility = m.layer[l].visibility
               /\ r.inRange = CalculateInRange(m, l)
               /\ r.displayed => r.inRange
               /\ r.visibility /\ r.inRange /\ (zoomChanged \/ Movable(m, l))
                    => FitsIn(l, r.grid, TileView(m), m.size, dragging)
  <1> DEFINE old == m.layer[l]
             inRange == CalculateInRange(m, l)
             ranged == [m EXCEPT !.layer[l].inRange = inRange]
             hidden == IF old.inRange /\ ~inRange THEN Display(ranged, l, FALSE) ELSE ranged
             t == hidden.layer[l]
  <1>1. old \in LayerState /\ inRange \in BOOLEAN /\ m.layer \in [Layer -> LayerState] /\ IsMap(m)
    BY RangeBoolean DEF Mapped
  <1>2. old.displayed => old.inRange
    OBVIOUS
  <1> HIDE DEF inRange
  <1> DEFINE rs == [old EXCEPT !.inRange = inRange]
             hs == [rs EXCEPT !.displayed = FALSE]
  <1>3. /\ ranged.layer = [m.layer EXCEPT ![l] = rs] /\ OnlyLayer(m, ranged)
        /\ Display(ranged, l, FALSE).layer = [m.layer EXCEPT ![l] = hs]
        /\ OnlyLayer(m, Display(ranged, l, FALSE))
    <2>1. ranged.layer = [m.layer EXCEPT ![l] = rs] /\ OnlyLayer(m, ranged)
      BY <1>1, OnlyLayerExcept DEF IsMap
    <2>2. "layer" \in DOMAIN ranged
      BY <2>1 DEF OnlyLayer, IsMap
    <2> HIDE DEF ranged
    <2>3. Display(ranged, l, FALSE) = [ranged EXCEPT !.layer[l].displayed = FALSE]
      BY DEF Display
    <2>4. Display(ranged, l, FALSE).layer
            = [ranged.layer EXCEPT ![l] = [ranged.layer[l] EXCEPT !.displayed = FALSE]]
      BY <2>2, <2>3
    <2>5. ranged.layer[l] = rs
      BY <1>1, <2>1
    <2>6. Display(ranged, l, FALSE).layer = [m.layer EXCEPT ![l] = hs]
      <3> HIDE DEF rs
      <3> QED  BY <1>1, <2>1, <2>4, <2>5
    <2>7. OnlyLayer(m, Display(ranged, l, FALSE))
      <3>1. IsMap(ranged)
        BY <2>1 DEF OnlyLayer
      <3> QED  BY <2>1, <3>1, DisplayOnly, OnlyLayerTrans
    <2> QED  BY <2>1, <2>6, <2>7
  <1>4. /\ rs \in LayerState /\ rs.inRange = inRange
        /\ rs.visibility = old.visibility /\ rs.grid = old.grid /\ rs.displayed = old.displayed
        /\ hs \in LayerState /\ hs.inRange = inRange
        /\ hs.visibility = old.visibility /\ hs.grid = old.grid /\ ~hs.displayed
    BY <1>1 DEF LayerState
  <1> HIDE DEF rs, hs, ranged
  <1>5. /\ OnlyLayer(m, hidden) /\ hidden.layer \in [Layer -> LayerState]
        /\ t \in LayerState /\ t.inRange = inRange
        /\ t.visibility = old.visibility /\ t.grid = old.grid
        /\ t.displayed => inRange
    <2>1. CASE old.inRange /\ ~inRange
      <3>1. hidden = Display(ranged, l, FALSE)
        BY <2>1
      <3> HIDE DEF hidden
      <3>2. hidden.layer = [m.layer EXCEPT ![l] = hs] /\ OnlyLayer(m, hidden)
        BY <1>3, <3>1
      <3>3. t = hs /\ hidden.layer \in [Layer -> LayerState]
        BY <1>1, <1>4, <3>2
      <3> QED  BY <1>4, <3>2, <3>3
    <2>2. CASE ~(old.inRange /\ ~inRange)
      <3>1. hidden = ranged
        BY <2>2
      <3> HIDE DEF hidden
      <3>2. hidden.layer = [m.layer EXCEPT ![l] = rs] /\ OnlyLayer(m, hidden)
        BY <1>3, <3>1
      <3>3. t = rs /\ hidden.layer \in [Layer -> LayerState]
        BY <1>1, <1>4, <3>2
      <3>4. old.displayed => inRange
        BY <1>1, <1>2, <2>2
      <3> QED  BY <1>4, <3>2, <3>3, <3>4
    <2> QED  BY <2>1, <2>2
  <1>6. MoveOverlay(m, l, zoomChanged, dragging)
          = IF inRange /\ old.visibility THEN MoveLayer(hidden, l, zoomChanged, dragging)
            ELSE hidden
    BY DEF MoveOverlay, inRange, ranged
  <1> DEFINE r == MoveOverlay(m, l, zoomChanged, dragging).layer[l]
  <1> HIDE DEF hidden
  <1>7. Mapped(hidden) /\ TileView(hidden) = TileView(m)
    BY <1>5, OnlyLayerMapped
  <1>8. Movable(hidden, l) = Movable(m, l) /\ hidden.size = m.size
    BY <1>5 DEF Movable, OnlyLayer
  <1>9. CASE inRange /\ old.visibility
    <2> DEFINE q == MoveLayer(hidden, l, zoomChanged, dragging).layer
    <2>1. r = q[l]
      BY <1>6, <1>9
    <2>2. /\ q \in [Layer -> LayerState]
          /\ q[l].visibility = t.visibility /\ q[l].inRange = t.inRange
          /\ zoomChanged \/ Movable(hidden, l)
               => FitsIn(l, q[l].grid, TileView(hidden), hidden.size, dragging)
      BY <1>7, MoveLayerTiles
    <2> HIDE DEF q, r
    <2>3. q[l] \in LayerState
      BY <2>2
    <2>4. /\ r \in LayerState /\ r.visibility = old.visibility /\ r.inRange = inRange
          /\ r.displayed => r.inRange
          /\ zoomChanged \/ Movable(m, l) => FitsIn(l, r.grid, TileView(m), m.size, dragging)
      <3>1. zoomChanged \/ Movable(m, l) => FitsIn(l, r.grid, TileView(m), m.size, dragging)
        BY <1>7, <1>8, <2>1, <2>2
      <3>2. r \in LayerState /\ r.visibility = old.visibility /\ r.inRange = inRange
        BY <1>5, <2>1, <2>2, <2>3
      <3>3. r.displayed => r.inRange
        BY <1>9, <3>2
      <3> QED  BY <3>1, <3>2, <3>3
    <2> QED  BY <2>4 DEF r, inRange
  <1>10. CASE ~(inRange /\ old.visibility)
    <2>1. r = t
      BY <1>6, <1>10
    <2> HIDE DEF r
    <2> QED  BY <1>5, <1>10, <2>1 DEF r, inRange
  <1> QED  BY <1>9, <1>10

\* A layer that is displayed is the base layer, or an overlay in range.
Shown(m, l) ==
    InMap(m, l) /\ m.layer[l].displayed =>
      IF l \in Base THEN l = m.baseLayer ELSE m.layer[l].inRange

\* A layer that the user is to see.
Active(m, l) ==
    /\ m.layer[l].visibility
    /\ IF l \in Base THEN l = m.baseLayer ELSE InMap(m, l) /\ m.layer[l].inRange

LEMMA MoveLayersTiles ==
    ASSUME NEW m, Mapped(m), m.baseLayer \in Base, NEW zoomChanged \in BOOLEAN,
           NEW dragging \in BOOLEAN, \A l \in Layer : Shown(m, l)
    PROVE  LET n == MoveLayers(m, zoomChanged, dragging)
           IN  /\ OnlyLayer(m, n) /\ n.layer \in [Layer -> LayerState]
               /\ \A l \in Layer :
                    /\ n.layer[l].visibility = m.layer[l].visibility
                    /\ Shown(n, l)
                    /\ l \notin Base /\ InMap(m, l)
                         => n.layer[l].inRange = CalculateInRange(m, l)
                    /\ Active(n, l) /\ (zoomChanged \/ Movable(m, l))
                         => FitsIn(l, n.layer[l].grid, TileView(m), m.size, dragging)
  <1> DEFINE b == m.baseLayer
             base == IF m.layer[b].visibility THEN MoveLayer(m, b, zoomChanged, dragging) ELSE m
             n == MoveLayers(m, zoomChanged, dragging)
             moved(l) == MoveOverlay(base, l, zoomChanged, dragging).layer[l]
  <1>1. b \in Base /\ b \in Layer /\ IsMap(m) /\ m.layer \in [Layer -> LayerState]
    BY MapViewAssumption DEF Mapped
  <1>2. /\ OnlyLayer(m, base) /\ base.layer \in [Layer -> LayerState]
        /\ \A l \in Layer : l # b => base.layer[l] = m.layer[l]
        /\ base.layer[b].visibility = m.layer[b].visibility
        /\ base.layer[b].visibility /\ (zoomChanged \/ Movable(m, b))
             => FitsIn(b, base.layer[b].grid, TileView(m), m.size, dragging)
    <2>1. CASE m.layer[b].visibility
      <3>1. base = MoveLayer(m, b, zoomChanged, dragging)
        BY <2>1
      <3> HIDE DEF base
      <3>2. OnlyLayer(m, base)
        BY <1>1, <3>1, MoveLayerOnly
      <3> DEFINE q == MoveLayer(m, b, zoomChanged, dragging).layer
      <3>3. /\ q \in [Layer -> LayerState]
            /\ \A l \in Layer : l # b => q[l] = m.layer[l]
            /\ q[b].visibility = m.layer[b].visibility
            /\ zoomChanged \/ Movable(m, b)
                 => FitsIn(b, q[b].grid, TileView(m), m.size, dragging)
        BY <1>1, MoveLayerTiles
      <3>4. q = base.layer
        BY <3>1
      <3> HIDE DEF q, b
      <3> QED  BY <3>2, <3>3, <3>4
    <2>2. CASE ~m.layer[b].visibility
      <3>1. base = m
        BY <2>2
      <3> HIDE DEF base, b
      <3>2. OnlyLayer(m, m)
        BY <1>1 DEF OnlyLayer
      <3> QED  BY <1>1, <2>2, <3>1, <3>2
    <2> QED  BY <2>1, <2>2
  <1>3. OnlyLayer(m, n)
    BY <1>1, MoveLayersOnly
  <1>4. n.layer = [l \in Layer |-> IF l \in Base \/ ~InMap(m, l) THEN base.layer[l] ELSE moved(l)]
    <2>1. n = [base EXCEPT !.layer =
                 [l \in Layer |-> IF l \in Base \/ ~InMap(m, l) THEN base.layer[l] ELSE moved(l)]]
      BY DEF MoveLayers
    <2>2. "layer" \in DOMAIN base
      BY <1>2 DEF OnlyLayer, IsMap
    <2> HIDE DEF n, base, moved
    <2> QED  BY <2>1, <2>2
  <1> HIDE DEF n, base
  <1>5. Mapped(base) /\ TileView(base) = TileView(m) /\ base.size = m.size
    BY <1>2, OnlyLayerMapped DEF OnlyLayer
  <1>6. ASSUME NEW l \in Layer, l \notin Base, InMap(m, l)
        PROVE  /\ moved(l) \in LayerState
               /\ moved(l).visibility = m.layer[l].visibility
               /\ moved(l).inRange = CalculateInRange(m, l)
               /\ moved(l).displayed => moved(l).inRange
               /\ moved(l).visibility /\ moved(l).inRange /\ (zoomChanged \/ Movable(m, l))
                    => FitsIn(l, moved(l).grid, TileView(m), m.size, dragging)
    <2>1. l # b /\ base.layer[l] = m.layer[l]
      BY <1>1, <1>2, <1>6
    <2>2. base.layer[l].displayed => base.layer[l].inRange
      BY <1>6, <2>1 DEF Shown
    <2>3. CalculateInRange(base, l) = CalculateInRange(m, l)
      BY <1>2, OnlyLayerRange
    <2>4. Movable(base, l) = Movable(m, l)
      BY <1>2, <2>1 DEF Movable, OnlyLayer
    <2>5. /\ moved(l) \in LayerState
          /\ moved(l).visibility = base.layer[l].visibility
          /\ moved(l).inRange = CalculateInRange(base, l)
          /\ moved(l).displayed => moved(l).inRange
          /\ moved(l).visibility /\ moved(l).inRange /\ (zoomChanged \/ Movable(base, l))
               => FitsIn(l, moved(l).grid, TileView(base), base.size, dragging)
      BY <1>5, <1>6, <2>2, MoveOverlayTiles
    <2> HIDE DEF moved
    <2> QED  BY <1>5, <2>1, <2>3, <2>4, <2>5
  <1> HIDE DEF moved
  <1>7. n.layer \in [Layer -> LayerState]
    BY <1>2, <1>4, <1>6
  <1>8. ASSUME NEW l \in Layer
        PROVE  /\ n.layer[l].visibility = m.layer[l].visibility
               /\ Shown(n, l)
               /\ l \notin Base /\ InMap(m, l) => n.layer[l].inRange = CalculateInRange(m, l)
               /\ Active(n, l) /\ (zoomChanged \/ Movable(m, l))
                    => FitsIn(l, n.layer[l].grid, TileView(m), m.size, dragging)
    <2>1. InMap(n, l) = InMap(m, l) /\ n.baseLayer = b
      BY <1>3, OnlyLayerRange DEF OnlyLayer
    <2>2. CASE l \notin Base /\ InMap(m, l)
      <3>1. n.layer[l] = moved(l)
        BY <1>4, <2>2
      <3>2. Shown(n, l)
        BY <1>6, <2>2, <3>1 DEF Shown
      <3>3. Active(n, l) => moved(l).visibility /\ moved(l).inRange
        BY <2>2, <3>1 DEF Active
      <3> QED  BY <1>6, <2>2, <3>1, <3>2, <3>3
    <2>3. CASE ~(l \notin Base /\ InMap(m, l))
      <3>1. n.layer[l] = base.layer[l]
        BY <1>4, <2>3
      <3>2. CASE l = b
        <4>1. Shown(n, l)
          BY <1>1, <2>1, <3>2 DEF Shown
        <4>2. Active(n, l) => base.layer[b].visibility
          BY <3>1, <3>2 DEF Active
        <4> QED  BY <1>1, <1>2, <3>1, <3>2, <4>1, <4>2
      <3>3. CASE l # b
        <4>1. n.layer[l] = m.layer[l]
          BY <1>2, <3>1, <3>3
        <4>2. Shown(n, l)
          BY <2>1, <4>1 DEF Shown
        <4>3. ~Active(n, l)
          BY <2>1, <2>3, <3>3 DEF Active
        <4> QED  BY <2>3, <4>1, <4>2, <4>3
      <3> QED  BY <3>2, <3>3
    <2> QED  BY <2>2, <2>3
  <1> QED  BY <1>3, <1>7, <1>8 DEF n

LEMMA StaleState ==
    ASSUME NEW s \in LayerState
    PROVE  /\ Stale(s) \in LayerState /\ SameSwitches(s, Stale(s))
           /\ s.grid = <<>> => Stale(s).grid = <<>>
  <1> DEFINE grid == [k \in DOMAIN s.grid |-> [s.grid[k] EXCEPT !.current = FALSE]]
             r == [s EXCEPT !.grid = grid]
  <1>1. /\ s.grid \in Seq(GoodTile) /\ s.numLoadingTiles = LoadingIn(s.grid)
        /\ DOMAIN s.grid \subseteq Columns /\ (s.displayed => s.visibility)
        /\ s \in [visibility : BOOLEAN, inRange : BOOLEAN, displayed : BOOLEAN,
                  numLoadingTiles : Int, grid : Seq(GoodTile)]
    BY DEF LayerState
  <1>2. ASSUME NEW k \in DOMAIN s.grid
        PROVE  grid[k] \in GoodTile /\ grid[k].isLoading = s.grid[k].isLoading
    <2>1. s.grid[k] \in GoodTile
      BY <1>1
    <2> QED  BY <2>1, StaleGood
  <1>3. DOMAIN grid = DOMAIN s.grid /\ DOMAIN s.grid = 1 .. Len(s.grid) /\ Len(s.grid) \in Nat
    BY <1>1
  <1> HIDE DEF grid
  <1>4. grid \in Seq(GoodTile)
    <2>1. grid = [k \in 1 .. Len(s.grid) |-> grid[k]]
      BY <1>3 DEF grid
    <2>2. \A k \in 1 .. Len(s.grid) : grid[k] \in GoodTile
      BY <1>2, <1>3
    <2> DEFINE n == Len(s.grid)
    <2> HIDE DEF n
    <2>3. [k \in 1 .. n |-> grid[k]] \in Seq(GoodTile)
      BY <1>3, <2>2 DEF n
    <2> QED  BY <2>1, <2>3 DEF n
  <1>5. LoadingIn(grid) = LoadingIn(s.grid)
    <2> DEFINE new == {k \in DOMAIN grid : grid[k].isLoading}
               old == {k \in DOMAIN s.grid : s.grid[k].isLoading}
    <2>1. new = old
      BY <1>2, <1>3
    <2>2. LoadingIn(grid) = Cardinality(new) /\ LoadingIn(s.grid) = Cardinality(old)
      BY DEF LoadingIn
    <2> HIDE DEF new, old
    <2> QED  BY <2>1, <2>2
  <1>6. /\ r.visibility = s.visibility /\ r.inRange = s.inRange /\ r.displayed = s.displayed
        /\ r.grid = grid /\ r.numLoadingTiles = s.numLoadingTiles
        /\ r \in [visibility : BOOLEAN, inRange : BOOLEAN, displayed : BOOLEAN,
                  numLoadingTiles : Int, grid : Seq(GoodTile)]
    BY <1>1, <1>4
  <1> HIDE DEF r
  <1>7. r \in LayerState
    BY <1>1, <1>3, <1>5, <1>6 DEF LayerState
  <1>8. s.grid = <<>> => grid = <<>>
    BY <1>3, <1>4
  <1>9. Stale(s) = r
    BY DEF Stale, r, grid
  <1> QED  BY <1>6, <1>7, <1>8, <1>9 DEF SameSwitches

\* The layers of r are those of m with other tiles.
Retiled(m, r) ==
    /\ r.layer \in [Layer -> LayerState]
    /\ \A l \in Layer : /\ SameSwitches(m.layer[l], r.layer[l])
                        /\ m.layer[l].grid = <<>> => r.layer[l].grid = <<>>

LEMMA NewRequestsTiles ==
    ASSUME NEW m, IsMap(m), m.layer \in [Layer -> LayerState]
    PROVE  Retiled(m, NewRequests(m))
  <1> DEFINE n == NewRequests(m)
  <1>1. n.layer = [l \in Layer |-> Stale(m.layer[l])]
    <2>1. n = [m EXCEPT !.layer = [l \in Layer |-> Stale(m.layer[l])]]
      BY DEF NewRequests
    <2> HIDE DEF n
    <2> QED  BY <2>1 DEF IsMap
  <1> HIDE DEF n
  <1>2. ASSUME NEW l \in Layer
        PROVE  /\ n.layer[l] \in LayerState /\ SameSwitches(m.layer[l], n.layer[l])
               /\ m.layer[l].grid = <<>> => n.layer[l].grid = <<>>
    BY <1>1, StaleState
  <1>3. n.layer \in [Layer -> LayerState]
    BY <1>1, <1>2
  <1> QED  BY <1>2, <1>3 DEF Retiled, n

\* The layers after moveTo are those before, or those of a map that was moved.
LEMMA MoveToLayers ==
    ASSUME NEW m, IsMap(m), m.layer \in [Layer -> LayerState],
           NEW lonlat, NEW zoom, NEW how \in How
    PROVE  LET n == MoveTo(m, lonlat, zoom, how)
               zoomChanged == ZoomChanges(m, zoom, how)
           IN  \/ /\ n.layer = m.layer /\ ~zoomChanged /\ how.dragging
                  /\ CenterAfter(m, lonlat, zoom) = m.center
               \/ \E o : /\ IsMap(o) /\ Retiled(m, o)
                         /\ ~zoomChanged => o.layer = m.layer
                         /\ o.layers = m.layers /\ o.size = m.size
                         /\ o.baseLayer = m.baseLayer
                         /\ o.center = CenterAfter(m, lonlat, zoom)
                         /\ o.zoom = IF zoomChanged THEN zoom ELSE m.zoom
                         /\ n.layer = MoveLayers(o, zoomChanged, how.dragging).layer
  <1> DEFINE clamped == Target(m, lonlat, zoom)
             zoomChanged == ZoomChanges(m, zoom, how)
             centerChanged == ValidLonLat(clamped) /\ clamped # m.center
             started == [m EXCEPT !.announced = @ \/ (~m.dragging /\ ~how.noEvent),
                                  !.center = IF centerChanged THEN clamped ELSE @]
             rezoomed == [started EXCEPT !.zoom = zoom, !.resolution = zoom]
             zoomed  == IF zoomChanged THEN NewRequests(rezoomed) ELSE started
             stirs == zoomChanged \/ centerChanged \/ ~how.dragging
             moved == IF stirs THEN MoveLayers(zoomed, zoomChanged, how.dragging) ELSE m
             last  == [moved EXCEPT !.announced = @ /\ (how.dragging \/ how.noEvent),
                                    !.dragging = how.dragging]
  <1>1. MoveTo(m, lonlat, zoom, how) = last
    BY DEF MoveTo, Target, ZoomChanges
  <1>2. /\ IsMap(started) /\ started.layer = m.layer
        /\ started.layers = m.layers /\ started.size = m.size
        /\ started.baseLayer = m.baseLayer /\ started.zoom = m.zoom
        /\ started.center = CenterAfter(m, lonlat, zoom)
    <2>1. IsMap(started)
      BY DEF IsMap
    <2>2. started.center = IF centerChanged THEN clamped ELSE m.center
      BY DEF IsMap
    <2>3. started.center = CenterAfter(m, lonlat, zoom)
      BY <2>2 DEF CenterAfter
    <2> HIDE DEF clamped, centerChanged
    <2> QED  BY <2>1, <2>3 DEF IsMap
  <1> HIDE DEF started
  <1>3. /\ IsMap(rezoomed) /\ rezoomed.layer = m.layer
        /\ rezoomed.layers = m.layers /\ rezoomed.size = m.size
        /\ rezoomed.baseLayer = m.baseLayer /\ rezoomed.zoom = zoom
        /\ rezoomed.center = CenterAfter(m, lonlat, zoom)
    BY <1>2 DEF IsMap
  <1> HIDE DEF rezoomed
  <1>4. OnlyLayer(rezoomed, NewRequests(rezoomed)) /\ Retiled(rezoomed, NewRequests(rezoomed))
    BY <1>3, NewRequestsOnly, NewRequestsTiles
  <1>5. /\ IsMap(zoomed) /\ Retiled(m, zoomed)
        /\ ~zoomChanged => zoomed.layer = m.layer
        /\ zoomed.layers = m.layers /\ zoomed.size = m.size
        /\ zoomed.baseLayer = m.baseLayer
        /\ zoomed.center = CenterAfter(m, lonlat, zoom)
        /\ zoomed.zoom = IF zoomChanged THEN zoom ELSE m.zoom
    <2> HIDE DEF zoomChanged
    <2>1. CASE zoomChanged
      BY <1>3, <1>4, <2>1 DEF OnlyLayer, Retiled
    <2>2. CASE ~zoomChanged
      <3>1. Retiled(m, started)
        BY <1>2 DEF Retiled, SameSwitches
      <3> QED  BY <1>2, <2>2, <3>1
    <2> QED  BY <2>1, <2>2
  <1> HIDE DEF zoomed
  <1>6. last.layer = moved.layer
    <2>1. IsMap(moved)
      <3>1. OnlyLayer(zoomed, MoveLayers(zoomed, zoomChanged, how.dragging))
        BY <1>5, MoveLayersOnly
      <3> QED  BY <3>1 DEF OnlyLayer
    <2> HIDE DEF moved
    <2> QED  BY <2>1 DEF IsMap
  <1>7. CASE stirs
    <2>1. moved = MoveLayers(zoomed, zoomChanged, how.dragging)
      BY <1>7
    <2> HIDE DEF moved, last, zoomChanged
    <2>2. MoveTo(m, lonlat, zoom, how).layer
            = MoveLayers(zoomed, zoomChanged, how.dragging).layer
      BY <1>1, <1>6, <2>1
    <2> QED  BY <1>5, <2>2 DEF zoomChanged
  <1>8. CASE ~stirs
    <2>1. moved = m /\ ~zoomChanged /\ ~centerChanged /\ how.dragging
      BY <1>8
    <2>2. CenterAfter(m, lonlat, zoom) = m.center
      BY <2>1 DEF CenterAfter
    <2> HIDE DEF moved, last, zoomChanged
    <2>3. MoveTo(m, lonlat, zoom, how).layer = m.layer
      BY <1>1, <1>6, <2>1
    <2> QED  BY <2>1, <2>2, <2>3 DEF zoomChanged
  <1> QED  BY <1>7, <1>8

-----------------------------------------------------------------------------
(***************************************************************************)
(* A map whose layers on the screen have their tiles.                      *)
(***************************************************************************)
\* A map that was never centred has no tiles.
Drawn(m) ==
    /\ m.layer \in [Layer -> LayerState]
    /\ m.center = None => \A l \in Layer : m.layer[l].grid = <<>>

AllShown(m) == \A l \in Layer : Shown(m, l)

\* The tiles of one layer, on a map that has an extent.
LayerTiled(m, l) ==
    /\ l \notin Base /\ InMap(m, l) => m.layer[l].inRange = CalculateInRange(m, l)
    /\ Active(m, l) => FitsIn(l, m.layer[l].grid, TileView(m), m.size, m.dragging)

Tiled(m) == HasExtent(m) => \A l \in Layer : LayerTiled(m, l)

\* What Shown, Active and LayerTiled read.
SameScene(m, n) ==
    /\ n.layers = m.layers /\ n.baseLayer = m.baseLayer /\ n.size = m.size
    /\ n.center = m.center /\ n.zoom = m.zoom

LEMMA SceneReads ==
    ASSUME NEW m, NEW n, SameScene(m, n), NEW l
    PROVE  /\ InMap(n, l) = InMap(m, l) /\ CalculateInRange(n, l) = CalculateInRange(m, l)
           /\ TileView(n) = TileView(m) /\ HasExtent(n) = HasExtent(m)
  BY DEF SameScene, InMap, CalculateInRange, TileView, HasExtent

LEMMA LayerReads ==
    ASSUME NEW m, NEW n, SameScene(m, n), NEW l, n.layer[l] = m.layer[l]
    PROVE  /\ Shown(m, l) => Shown(n, l)
           /\ Active(n, l) => Active(m, l)
           /\ LayerTiled(m, l) /\ n.dragging \in {m.dragging, TRUE} => LayerTiled(n, l)
  <1>1. /\ InMap(n, l) = InMap(m, l) /\ CalculateInRange(n, l) = CalculateInRange(m, l)
        /\ TileView(n) = TileView(m) /\ n.size = m.size /\ n.baseLayer = m.baseLayer
    BY SceneReads DEF SameScene
  <1>2. Shown(m, l) => Shown(n, l)
    BY <1>1 DEF Shown
  <1>3. Active(n, l) => Active(m, l)
    BY <1>1 DEF Active
  <1>4. n.dragging \in {m.dragging, TRUE}
          /\ FitsIn(l, m.layer[l].grid, TileView(m), m.size, m.dragging)
             => FitsIn(l, n.layer[l].grid, TileView(n), n.size, n.dragging)
    BY <1>1 DEF FitsIn
  <1> QED  BY <1>1, <1>2, <1>3, <1>4 DEF LayerTiled

LEMMA MoveToTiles ==
    ASSUME NEW m, Steady(m), Drawn(m), AllShown(m), m.baseLayer \in Base,
           NEW lonlat \in Int \cup {None}, NEW zoom, NEW how \in How,
           how.force => zoom # None
    PROVE  LET n == MoveTo(m, lonlat, zoom, how)
           IN  /\ Drawn(n) /\ AllShown(n)
               /\ Tiled(m) \/ ZoomChanges(m, zoom, how) => Tiled(n)
  <1> DEFINE n == MoveTo(m, lonlat, zoom, how)
             zoomChanged == ZoomChanges(m, zoom, how)
  <1>1. Placed(m) /\ IsMap(m) /\ m.layer \in [Layer -> LayerState]
    BY DEF Steady, Placed, Drawn
  <1>2. Moved(m, n, lonlat, zoom, how)
    BY <1>1, MoveToMoves
  <1>3. \/ /\ n.layer = m.layer /\ ~zoomChanged /\ how.dragging
           /\ CenterAfter(m, lonlat, zoom) = m.center
        \/ \E o : /\ IsMap(o) /\ Retiled(m, o)
                  /\ ~zoomChanged => o.layer = m.layer
                  /\ o.layers = m.layers /\ o.size = m.size
                  /\ o.baseLayer = m.baseLayer
                  /\ o.center = CenterAfter(m, lonlat, zoom)
                  /\ o.zoom = IF zoomChanged THEN zoom ELSE m.zoom
                  /\ n.layer = MoveLayers(o, zoomChanged, how.dragging).layer
    BY <1>1, MoveToLayers
  <1> HIDE DEF n
  <1>4. Placed(n) /\ n.center # None
    BY <1>1, <1>2, MovedSettles
  <1>5. n.center \in Int /\ n.size \in Sizes
    BY <1>4, MapTilesAssumption DEF Placed
  <1>6. /\ n.layers = m.layers /\ n.size = m.size /\ n.baseLayer = m.baseLayer
        /\ n.center = CenterAfter(m, lonlat, zoom)
        /\ n.zoom = (IF zoomChanged THEN zoom ELSE m.zoom)
        /\ n.dragging = how.dragging
    BY <1>2 DEF Moved
  <1>7. zoomChanged \in BOOLEAN /\ how.dragging \in BOOLEAN
    BY DEF ZoomChanges, How
  <1>8. m.baseLayer # None
    BY MapViewAssumption
  <1> HIDE DEF zoomChanged
  <1>9. CASE /\ n.layer = m.layer /\ ~zoomChanged /\ how.dragging
             /\ CenterAfter(m, lonlat, zoom) = m.center
    <2>1. SameScene(m, n) /\ n.dragging = TRUE
      BY <1>6, <1>7, <1>9 DEF SameScene
    <2>2. Drawn(n)
      BY <1>1, <1>4, <1>9 DEF Drawn
    <2>3. AllShown(n)
      BY <1>9, <2>1, LayerReads DEF AllShown
    <2>4. HasExtent(m)
      BY <1>4, <1>6, <1>8, <1>9 DEF HasExtent
    <2>5. ASSUME Tiled(m) PROVE Tiled(n)
      <3>1. ASSUME NEW l \in Layer PROVE LayerTiled(n, l)
        <4>1. LayerTiled(m, l)
          BY <2>4, <2>5 DEF Tiled
        <4> QED  BY <1>9, <2>1, <4>1, LayerReads
      <3> QED  BY <3>1 DEF Tiled
    <2> QED  BY <1>9, <2>2, <2>3, <2>5 DEF n, zoomChanged
  <1>10. ASSUME NEW o, IsMap(o), Retiled(m, o), ~zoomChanged => o.layer = m.layer,
                o.layers = m.layers, o.size = m.size, o.baseLayer = m.baseLayer,
                o.center = CenterAfter(m, lonlat, zoom),
                o.zoom = (IF zoomChanged THEN zoom ELSE m.zoom),
                n.layer = MoveLayers(o, zoomChanged, how.dragging).layer
         PROVE  /\ Drawn(n) /\ AllShown(n)
                /\ Tiled(m) \/ zoomChanged => Tiled(n)
    <2> DEFINE q == MoveLayers(o, zoomChanged, how.dragging)
    <2>1. Mapped(o) /\ SameScene(o, n)
      BY <1>5, <1>6, <1>10 DEF Mapped, Retiled, SameScene
    <2>2. ASSUME NEW l \in Layer PROVE Shown(o, l)
      <3>1. SameSwitches(m.layer[l], o.layer[l]) /\ Shown(m, l) /\ InMap(o, l) = InMap(m, l)
        BY <1>10 DEF Retiled, AllShown, InMap
      <3> QED  BY <1>10, <3>1 DEF Shown, SameSwitches
    <2>3. /\ OnlyLayer(o, q) /\ q.layer \in [Layer -> LayerState]
          /\ \A l \in Layer :
               /\ q.layer[l].visibility = o.layer[l].visibility
               /\ Shown(q, l)
               /\ l \notin Base /\ InMap(o, l) => q.layer[l].inRange = CalculateInRange(o, l)
               /\ Active(q, l) /\ (zoomChanged \/ Movable(o, l))
                    => FitsIn(l, q.layer[l].grid, TileView(o), o.size, how.dragging)
      BY <1>7, <1>10, <2>1, <2>2, MoveLayersTiles
    <2> HIDE DEF q
    <2>4. n.layer = q.layer
      BY <1>10 DEF q
    <2>5. SameScene(q, n)
      BY <2>1, <2>3 DEF SameScene, OnlyLayer
    <2>6. Drawn(n)
      BY <1>4, <2>3, <2>4 DEF Drawn
    <2>7. AllShown(n)
      BY <2>3, <2>4, <2>5, LayerReads DEF AllShown
    <2>8. ASSUME Tiled(m) \/ zoomChanged, NEW l \in Layer PROVE LayerTiled(n, l)
      <3>1. /\ InMap(n, l) = InMap(o, l) /\ CalculateInRange(n, l) = CalculateInRange(o, l)
            /\ TileView(n) = TileView(o) /\ n.size = o.size /\ n.dragging = how.dragging
        BY <1>6, <2>1, SceneReads DEF SameScene
      <3>2. Active(n, l) => Active(q, l)
        BY <2>4, <2>5, LayerReads
      <3>3. l \notin Base /\ InMap(n, l) => n.layer[l].inRange = CalculateInRange(n, l)
        BY <2>3, <2>4, <3>1
      <3>4. ASSUME Active(n, l), ~zoomChanged PROVE Movable(o, l)
        <4>1. o.layer = m.layer /\ o.zoom = m.zoom /\ o.size = m.size /\ Tiled(m)
          BY <1>10, <2>8, <3>4
        <4>2. CASE m.center = None
          <5>1. m.layer[l].grid = <<>>
            BY <4>2 DEF Drawn
          <5> QED  BY <4>1, <5>1 DEF Movable
        <4>3. CASE m.center # None
          <5>1. LayerTiled(m, l)
            BY <1>8, <4>1, <4>3 DEF Tiled, HasExtent
          <5>2. InMap(o, l) = InMap(m, l) /\ CalculateInRange(o, l) = CalculateInRange(m, l)
            BY <1>10, <4>1 DEF InMap, CalculateInRange
          <5>3. n.layer[l].visibility = m.layer[l].visibility
            BY <2>3, <2>4, <4>1
          <5>4. Active(m, l)
            <6>1. CASE l \in Base
              BY <1>6, <3>4, <5>3, <6>1 DEF Active
            <6>2. CASE l \notin Base
              BY <3>1, <3>3, <3>4, <5>1, <5>2, <5>3, <6>2 DEF Active, LayerTiled
            <6> QED  BY <6>1, <6>2
          <5>5. FitsIn(l, m.layer[l].grid, TileView(m), m.size, m.dragging)
            BY <5>1, <5>4 DEF LayerTiled
          <5>6. TileView(m).tile = Resolution(m.zoom)
            BY DEF TileView, View
          <5> QED  BY <4>1, <5>5, <5>6 DEF FitsIn, GridFits, Movable
        <4> QED  BY <4>2, <4>3
      <3>5. Active(n, l) => FitsIn(l, n.layer[l].grid, TileView(n), n.size, n.dragging)
        BY <2>3, <2>4, <3>1, <3>2, <3>4
      <3> QED  BY <3>3, <3>5 DEF LayerTiled
    <2>9. Tiled(m) \/ zoomChanged => Tiled(n)
      BY <2>8 DEF Tiled
    <2> QED  BY <2>6, <2>7, <2>9
  <1>11. CASE ~(/\ n.layer = m.layer /\ ~zoomChanged /\ how.dragging
                /\ CenterAfter(m, lonlat, zoom) = m.center)
    <2>1. /\ Drawn(n) /\ AllShown(n)
          /\ Tiled(m) \/ zoomChanged => Tiled(n)
      BY <1>3, <1>10, <1>11
    <2> QED  BY <2>1 DEF n, zoomChanged
  <1> QED  BY <1>9, <1>11

LEMMA SceneKeeps ==
    ASSUME NEW m, NEW n, SameScene(m, n), n.layer = m.layer, n.dragging = m.dragging
    PROVE  /\ Drawn(m) => Drawn(n)
           /\ AllShown(m) => AllShown(n)
           /\ Tiled(m) => Tiled(n)
  <1>1. Drawn(m) => Drawn(n)
    BY DEF Drawn, SameScene
  <1>2. AllShown(m) => AllShown(n)
    BY LayerReads DEF AllShown
  <1>3. ASSUME Tiled(m), HasExtent(n), NEW l \in Layer PROVE LayerTiled(n, l)
    <2>1. HasExtent(m)
      BY <1>3 DEF HasExtent, SameScene
    <2>2. LayerTiled(m, l)
      BY <1>3, <2>1 DEF Tiled
    <2> QED  BY <2>2, LayerReads
  <1> QED  BY <1>1, <1>2, <1>3 DEF Tiled

LEMMA PanDoneTiles ==
    ASSUME NEW m, Steady(m), Drawn(m), AllShown(m), m.baseLayer \in Base
    PROVE  LET n == PanDone(m)
           IN  Drawn(n) /\ AllShown(n) /\ (Tiled(m) => Tiled(n))
  <1> DEFINE o == MoveTo(m, m.tween.finish, m.zoom, Done)
             n == PanDone(m)
  <1>1. IsMap(m) /\ m.tween.finish \in Int \cup {None} /\ Done \in How /\ ~Done.force
    BY HowTyped DEF Steady, Placed, Done, Still
  <1>2. Drawn(o) /\ AllShown(o) /\ (Tiled(m) => Tiled(o))
    BY <1>1, MoveToTiles
  <1>3. n = [o EXCEPT !.announced = FALSE, !.tween.playing = FALSE]
    BY DEF PanDone
  <1>4. IsMap(o)
    BY <1>1, MoveToMoves DEF Moved
  <1> HIDE DEF o, n
  <1>5. SameScene(o, n) /\ n.layer = o.layer /\ n.dragging = o.dragging
    BY <1>3, <1>4 DEF IsMap, SameScene
  <1>6. Drawn(n) /\ AllShown(n) /\ (Tiled(o) => Tiled(n))
    BY <1>2, <1>5, SceneKeeps
  <1> QED  BY <1>2, <1>6 DEF n

LEMMA SetCenterTiles ==
    ASSUME NEW m, Steady(m), Drawn(m), AllShown(m), m.baseLayer \in Base,
           NEW lonlat \in Int \cup {None}, NEW zoom,
           NEW how \in {Still, Dragged, Forced}, how = Forced => zoom # None
    PROVE  LET n == SetCenter(m, lonlat, zoom, how)
           IN  /\ Drawn(n) /\ AllShown(n)
               /\ Tiled(m) \/ how = Forced \/ (zoom # None /\ zoom # m.zoom) => Tiled(n)
               /\ ~n.tween.playing /\ n.tween.time = m.tween.time
  <1> DEFINE o == IF m.tween.playing THEN PanDone(m) ELSE m
             n == MoveTo(o, lonlat, zoom, how)
  <1>1. /\ Steady(o) /\ o.baseLayer = m.baseLayer /\ o.zoom = m.zoom /\ ~o.tween.playing
        /\ o.tween.time = m.tween.time
    <2>1. CASE m.tween.playing
      <3>1. /\ Steady(PanDone(m)) /\ PanDone(m).baseLayer = m.baseLayer
            /\ PanDone(m).zoom = m.zoom
            /\ PanDone(m).tween = [m.tween EXCEPT !.playing = FALSE]
            /\ ~PanDone(m).tween.playing
        BY PanDoneSteady
      <3>2. PanDone(m).tween.time = m.tween.time
        BY <3>1 DEF Steady, Placed, IsMap
      <3> QED  BY <2>1, <3>1, <3>2
    <2>2. CASE ~m.tween.playing
      BY <2>2
    <2> QED  BY <2>1, <2>2
  <1>2. Drawn(o) /\ AllShown(o) /\ (Tiled(m) => Tiled(o))
    BY PanDoneTiles
  <1>3. SetCenter(m, lonlat, zoom, how) = n
    BY DEF SetCenter
  <1> HIDE DEF o
  <1>4. how \in How /\ (how.force => zoom # None) /\ (how = Forced => how.force)
    <2>1. ~Still.force /\ ~Dragged.force /\ Forced.force
      BY DEF Still, Dragged, Forced
    <2> QED  BY <2>1, HowTyped
  <1>5. /\ Drawn(n) /\ AllShown(n)
        /\ Tiled(o) \/ ZoomChanges(o, zoom, how) => Tiled(n)
    BY <1>1, <1>2, <1>4, MoveToTiles
  <1>6. n.tween = o.tween
    BY <1>1, <1>4, MoveToMoves DEF Moved, Steady, Placed
  <1> HIDE DEF n
  <1>7. how = Forced \/ (zoom # None /\ zoom # m.zoom) => ZoomChanges(o, zoom, how)
    BY <1>1, <1>4 DEF ZoomChanges
  <1> QED  BY <1>1, <1>2, <1>3, <1>5, <1>6, <1>7

LEMMA FitsSoon ==
    ASSUME NEW l, NEW grid, NEW view, NEW size, NEW dragging, FitsIn(l, grid, view, size, FALSE)
    PROVE  FitsIn(l, grid, view, size, dragging)
  BY DEF FitsIn

\* redraw: a layer with new tiles, if it is to be seen.
LEMMA RedrawTiles ==
    ASSUME NEW m, Placed(m), m.layer \in [Layer -> LayerState], NEW l \in Layer
    PROVE  LET r == Redraw(m, l).layer
               old == m.layer[l]
               inRange == CalculateInRange(m, l)
           IN  /\ r \in [Layer -> LayerState]
               /\ \A k \in Layer : k # l => r[k] = m.layer[k]
               /\ r[l].visibility = old.visibility /\ r[l].inRange = inRange
               /\ r[l].displayed => old.displayed \/ inRange
               /\ ~HasExtent(m) => r[l].grid = old.grid
               /\ HasExtent(m) /\ inRange /\ old.visibility
                    => FitsIn(l, r[l].grid, TileView(m), m.size, FALSE)
  <1> DEFINE old == m.layer[l]
             r == Redraw(m, l).layer
             inRange == CalculateInRange(m, l)
             seen == HasExtent(m) /\ inRange /\ old.visibility
             ranged == [m EXCEPT !.layer[l].inRange = inRange]
             t == [old EXCEPT !.inRange = inRange]
  <1>1. old \in LayerState /\ inRange \in BOOLEAN /\ IsMap(m)
    BY RangeBoolean DEF Placed
  <1>2. Redraw(m, l) = IF seen THEN MoveLayer(ranged, l, TRUE, FALSE) ELSE ranged
    BY DEF Redraw
  <1> HIDE DEF inRange
  <1>3. /\ ranged.layer = [m.layer EXCEPT ![l] = t] /\ OnlyLayer(m, ranged)
        /\ ranged.layer[l] = t
    BY <1>1, OnlyLayerExcept DEF IsMap
  <1>4. /\ t \in LayerState /\ t.visibility = old.visibility /\ t.inRange = inRange
        /\ t.displayed = old.displayed /\ t.grid = old.grid
    BY <1>1 DEF LayerState
  <1> HIDE DEF t, ranged
  <1>5. ranged.layer \in [Layer -> LayerState]
    BY <1>3, <1>4
  <1>6. CASE ~seen
    <2>1. r = ranged.layer
      BY <1>2, <1>6
    <2> HIDE DEF r, old, seen
    <2>2. \A k \in Layer : k # l => r[k] = m.layer[k]
      BY <1>3, <2>1
    <2> QED  BY <1>3, <1>4, <1>5, <1>6, <2>1, <2>2 DEF r, old, seen, inRange
  <1>7. CASE seen
    <2>1. Mapped(ranged) /\ TileView(ranged) = TileView(m) /\ ranged.size = m.size
      <3>1. Mapped(m)
        BY <1>1, <1>7, MapTilesAssumption DEF Mapped, Placed, HasExtent
      <3> QED  BY <1>3, <1>5, <3>1, OnlyLayerMapped DEF OnlyLayer
    <2> DEFINE q == MoveLayer(ranged, l, TRUE, FALSE).layer
    <2>2. /\ q \in [Layer -> LayerState]
          /\ \A k \in Layer : k # l => q[k] = ranged.layer[k]
          /\ q[l].visibility = ranged.layer[l].visibility
          /\ q[l].inRange = ranged.layer[l].inRange
          /\ FitsIn(l, q[l].grid, TileView(ranged), ranged.size, FALSE)
      <3>1. TRUE \in BOOLEAN /\ FALSE \in BOOLEAN
        OBVIOUS
      <3> QED  BY <2>1, <3>1, MoveLayerTiles
    <2>3. r = q
      BY <1>2, <1>7
    <2> HIDE DEF q, r, old
    <2>4. \A k \in Layer : k # l => r[k] = m.layer[k]
      BY <1>3, <2>2, <2>3
    <2>5. r[l].visibility = old.visibility /\ r[l].inRange = inRange
      BY <1>3, <1>4, <2>2, <2>3
    <2>6. FitsIn(l, r[l].grid, TileView(m), m.size, FALSE)
      BY <2>1, <2>2, <2>3
    <2> QED  BY <1>7, <2>2, <2>3, <2>4, <2>5, <2>6 DEF r, old, inRange
  <1> QED  BY <1>6, <1>7

\* A layer that is switched on or off.
Switched(m, l, v, n) ==
    /\ n.layer \in [Layer -> LayerState]
    /\ \A k \in Layer : k # l => n.layer[k] = m.layer[k]
    /\ n.layer[l].visibility = v /\ n.layer[l].inRange = CalculateInRange(m, l)
    /\ n.layer[l].displayed => v /\ CalculateInRange(m, l)
    /\ ~HasExtent(m) => n.layer[l].grid = m.layer[l].grid
    /\ HasExtent(m) /\ CalculateInRange(m, l) /\ v
         => FitsIn(l, n.layer[l].grid, TileView(m), m.size, FALSE)

LEMMA SetVisibilityTiles ==
    ASSUME NEW m, Placed(m), m.layer \in [Layer -> LayerState], NEW l \in Layer,
           NEW v \in BOOLEAN, m.layer[l].visibility # v
    PROVE  Switched(m, l, v, SetVisibility(m, l, v))
  <1> DEFINE old == m.layer[l]
             inRange == CalculateInRange(m, l)
             r == SetVisibility(m, l, v).layer
             shown == [m EXCEPT !.layer[l].visibility = v]
             switched == Display(shown, l, v)
             t == [old EXCEPT !.visibility = v, !.displayed = v /\ (@ \/ inRange)]
  <1>1. old \in LayerState /\ inRange \in BOOLEAN /\ IsMap(m)
    BY RangeBoolean DEF Placed
  <1>2. r = Redraw(switched, l).layer
    BY DEF SetVisibility
  <1>3. /\ switched.layer = [m.layer EXCEPT ![l] = t] /\ OnlyLayer(m, switched)
    <2> DEFINE u == [old EXCEPT !.visibility = v]
    <2>1. shown.layer = [m.layer EXCEPT ![l] = u] /\ OnlyLayer(m, shown) /\ shown.layer[l] = u
      BY <1>1, OnlyLayerExcept DEF IsMap
    <2> HIDE DEF shown
    <2>2. CalculateInRange(shown, l) = inRange /\ IsMap(shown)
      <3>1. CalculateInRange(shown, l) = inRange
        BY <2>1, OnlyLayerRange
      <3>2. IsMap(shown)
        BY <2>1 DEF OnlyLayer
      <3> QED  BY <3>1, <3>2
    <2> HIDE DEF inRange
    <2>3. switched = [shown EXCEPT !.layer[l].displayed = v /\ (@ \/ inRange)]
      BY <2>2 DEF Display
    <2>4. OnlyLayer(m, switched)
      BY <2>1, <2>2, DisplayOnly, OnlyLayerTrans
    <2> HIDE DEF switched, u
    <2>5. switched.layer
            = [shown.layer EXCEPT ![l] = [u EXCEPT !.displayed = v /\ (u.displayed \/ inRange)]]
      BY <2>1, <2>2, <2>3 DEF IsMap
    <2>6. [u EXCEPT !.displayed = v /\ (u.displayed \/ inRange)] = t
      BY <1>1 DEF u, LayerState
    <2> HIDE DEF t, old
    <2>7. switched.layer = [m.layer EXCEPT ![l] = t]
      BY <2>1, <2>5, <2>6
    <2> QED  BY <2>4, <2>7
  <1>4. /\ t \in LayerState /\ t.visibility = v /\ t.grid = old.grid
        /\ t.displayed => v /\ inRange
    <2>1. v => ~old.displayed
      BY <1>1 DEF LayerState
    <2> QED  BY <1>1, <2>1 DEF LayerState
  <1> HIDE DEF switched, t, inRange
  <1>5. /\ switched.layer \in [Layer -> LayerState] /\ switched.layer[l] = t
        /\ \A k \in Layer : k # l => switched.layer[k] = m.layer[k]
    BY <1>3, <1>4
  <1>6. /\ Placed(switched) /\ CalculateInRange(switched, l) = inRange
        /\ HasExtent(switched) = HasExtent(m) /\ TileView(switched) = TileView(m)
        /\ switched.size = m.size
    BY <1>3, OnlyLayerRange DEF OnlyLayer, Placed, HasExtent, TileView, inRange
  <1> HIDE DEF r
  <1>7. /\ r \in [Layer -> LayerState]
        /\ \A k \in Layer : k # l => r[k] = switched.layer[k]
        /\ r[l].visibility = t.visibility /\ r[l].inRange = inRange
        /\ r[l].displayed => t.displayed \/ inRange
        /\ ~HasExtent(switched) => r[l].grid = t.grid
        /\ HasExtent(switched) /\ inRange /\ t.visibility
             => FitsIn(l, r[l].grid, TileView(switched), switched.size, FALSE)
    BY <1>2, <1>5, <1>6, RedrawTiles
  <1>8. r[l].displayed => v /\ inRange
    <2>1. r[l].displayed => r[l].visibility
      BY <1>7 DEF LayerState
    <2> QED  BY <1>4, <1>7, <2>1
  <1>9. /\ \A k \in Layer : k # l => r[k] = m.layer[k]
        /\ r[l].visibility = v
        /\ ~HasExtent(m) => r[l].grid = old.grid
        /\ HasExtent(m) /\ inRange /\ v => FitsIn(l, r[l].grid, TileView(m), m.size, FALSE)
    BY <1>4, <1>5, <1>6, <1>7
  <1> QED  BY <1>7, <1>8, <1>9 DEF Switched, r, inRange

\* The layers of n are those of m, or some of them.
LEMMA LayerReadsIn ==
    ASSUME NEW m, NEW n, NEW l, InMap(n, l) => InMap(m, l),
           n.baseLayer = m.baseLayer, n.size = m.size, n.center = m.center, n.zoom = m.zoom,
           n.layer[l] = m.layer[l], n.dragging = m.dragging
    PROVE  /\ Shown(m, l) => Shown(n, l)
           /\ LayerTiled(m, l) => LayerTiled(n, l)
  <1>1. CalculateInRange(n, l) = CalculateInRange(m, l) /\ TileView(n) = TileView(m)
    BY DEF CalculateInRange, TileView
  <1>2. Shown(m, l) => Shown(n, l)
    BY DEF Shown
  <1>3. Active(n, l) => Active(m, l)
    BY DEF Active
  <1>4. ASSUME LayerTiled(m, l) PROVE LayerTiled(n, l)
    <2>1. l \notin Base /\ InMap(n, l) => n.layer[l].inRange = CalculateInRange(n, l)
      BY <1>1, <1>4 DEF LayerTiled
    <2>2. Active(n, l) => FitsIn(l, n.layer[l].grid, TileView(n), n.size, n.dragging)
      BY <1>1, <1>3, <1>4 DEF LayerTiled
    <2> QED  BY <2>1, <2>2 DEF LayerTiled
  <1> QED  BY <1>2, <1>4

\* A layer that is switched, among others that are shown: a base layer is switched off.
LEMMA SetVisibilityKeeps ==
    ASSUME NEW m, Placed(m), Drawn(m), NEW l \in Layer, NEW v \in BOOLEAN,
           \A k \in Layer : k # l => Shown(m, k),
           l \in Base => v = FALSE, l \notin Base => m.layer[l].visibility # v
    PROVE  LET n == SetVisibility(m, l, v)
           IN  /\ OnlyLayer(m, n) /\ Drawn(n) /\ AllShown(n)
               /\ n.layer[l].visibility = v
               /\ \A k \in Layer : k # l => n.layer[k] = m.layer[k]
               /\ (HasExtent(m) => \A k \in Layer : k # l => LayerTiled(m, k)) => Tiled(n)
  <1> DEFINE n == SetVisibility(m, l, v)
  <1>1. IsMap(m) /\ m.layer \in [Layer -> LayerState]
    BY DEF Placed, Drawn
  <1>2. OnlyLayer(m, n)
    BY <1>1, SetVisibilityOnly
  <1>3. /\ SameScene(m, n) /\ n.dragging = m.dragging
        /\ InMap(n, l) = InMap(m, l) /\ CalculateInRange(n, l) = CalculateInRange(m, l)
        /\ TileView(n) = TileView(m) /\ HasExtent(n) = HasExtent(m)
    BY <1>2, SceneReads DEF OnlyLayer, SameScene
  <1> DEFINE inRange == CalculateInRange(m, l)
  <1>4. /\ n.layer \in [Layer -> LayerState]
        /\ \A k \in Layer : k # l => n.layer[k] = m.layer[k]
        /\ n.layer[l].visibility = v
        /\ l \notin Base => n.layer[l].inRange = inRange
        /\ l \notin Base /\ n.layer[l].displayed => inRange
        /\ ~HasExtent(m) => n.layer[l].grid = m.layer[l].grid
        /\ l \notin Base /\ HasExtent(m) /\ inRange /\ v
             => FitsIn(l, n.layer[l].grid, TileView(m), m.size, FALSE)
    <2>1. CASE m.layer[l].visibility = v
      <3>1. n = m
        BY <2>1 DEF SetVisibility
      <3> HIDE DEF n, inRange
      <3> QED  BY <1>1, <2>1, <3>1
    <2>2. CASE m.layer[l].visibility # v
      <3>1. Switched(m, l, v, n)
        BY <1>1, <2>2, SetVisibilityTiles
      <3> HIDE DEF n
      <3> QED  BY <3>1 DEF Switched
    <2> QED  BY <2>1, <2>2
  <1> HIDE DEF n
  <1>5. Drawn(n)
    <2>1. ASSUME n.center = None, NEW k \in Layer PROVE n.layer[k].grid = <<>>
      <3>1. m.center = None /\ m.layer[k].grid = <<>>
        BY <1>3, <2>1 DEF Drawn, SameScene
      <3> QED  BY <1>4, <3>1 DEF HasExtent
    <2> QED  BY <1>4, <2>1 DEF Drawn
  <1>6. Shown(n, l)
    <2>1. CASE l \in Base
      <3>1. ~n.layer[l].displayed
        BY <1>4, <2>1 DEF LayerState
      <3> QED  BY <3>1 DEF Shown
    <2>2. CASE l \notin Base
      BY <1>4, <2>2 DEF Shown
    <2> QED  BY <2>1, <2>2
  <1>7. AllShown(n)
    <2>1. ASSUME NEW k \in Layer, k # l PROVE Shown(n, k)
      BY <1>3, <1>4, <2>1, LayerReads
    <2> QED  BY <1>6, <2>1 DEF AllShown
  <1>8. ASSUME HasExtent(m) => \A k \in Layer : k # l => LayerTiled(m, k)
        PROVE  Tiled(n)
    <2>1. ASSUME HasExtent(n), NEW k \in Layer, k # l PROVE LayerTiled(n, k)
      <3>1. LayerTiled(m, k)
        BY <1>3, <1>8, <2>1
      <3> QED  BY <1>3, <1>4, <2>1, <3>1, LayerReads
    <2>2. ASSUME HasExtent(n) PROVE LayerTiled(n, l)
      <3>1. CASE l \in Base
        <4>1. ~Active(n, l)
          BY <1>4, <3>1 DEF Active
        <4> QED  BY <3>1, <4>1 DEF LayerTiled
      <3>2. CASE l \notin Base
        <4>1. n.layer[l].inRange = CalculateInRange(n, l)
          BY <1>3, <1>4, <3>2
        <4>2. ASSUME Active(n, l)
              PROVE  FitsIn(l, n.layer[l].grid, TileView(n), n.size, n.dragging)
          <5>1. inRange /\ v
            BY <1>4, <3>2, <4>2 DEF Active
          <5>2. FitsIn(l, n.layer[l].grid, TileView(m), m.size, FALSE)
            BY <1>3, <1>4, <2>2, <3>2, <5>1
          <5> QED  BY <1>3, <5>2, FitsSoon DEF SameScene
        <4> QED  BY <4>1, <4>2 DEF LayerTiled
      <3> QED  BY <3>1, <3>2
    <2> QED  BY <2>1, <2>2 DEF Tiled
  <1> QED  BY <1>2, <1>4, <1>5, <1>7, <1>8 DEF n

\* The layers on the screen are the ones to be seen, and their tiles cover the view.
Whole(m) == Drawn(m) /\ AllShown(m) /\ Tiled(m)

\* An animation that plays has not passed its end.
Timed(m) ==
    /\ m.tween.time \in 0 .. Duration + 1
    /\ m.tween.playing => m.tween.time <= Duration

LEMMA RetiledKeeps ==
    ASSUME NEW m, NEW n, Drawn(m), AllShown(m), Retiled(m, n),
           n.layers = m.layers, n.baseLayer = m.baseLayer, n.center = m.center
    PROVE  Drawn(n) /\ AllShown(n)
  <1>1. ASSUME NEW l \in Layer PROVE Shown(n, l)
    <2>1. Shown(m, l) /\ SameSwitches(m.layer[l], n.layer[l]) /\ InMap(n, l) = InMap(m, l)
      BY DEF AllShown, Retiled, InMap
    <2> QED  BY <2>1 DEF Shown, SameSwitches
  <1>2. Drawn(n)
    BY DEF Drawn, Retiled
  <1> QED  BY <1>1, <1>2 DEF AllShown

\* setBaseLayer, of a layer that was not: the old one disappears.
LEMMA SetBaseLayerTiles ==
    ASSUME NEW m, AtRest(m), Drawn(m), m.baseLayer \in Base \cup {None},
           NEW l \in Base, l # m.baseLayer,
           \A k \in Layer : k # l \/ m.baseLayer # None => Shown(m, k)
    PROVE  Whole(SetBaseLayer(m, l)) /\ (Timed(m) => Timed(SetBaseLayer(m, l)))
  <1> DEFINE b == m.baseLayer
             zoom == IF m.baseLayer # None THEN m.zoom
                     ELSE IF m.resolution = None THEN MaxZoom ELSE m.resolution
             hidden == IF m.baseLayer = None THEN m ELSE SetVisibility(m, m.baseLayer, FALSE)
             other == [hidden EXCEPT !.baseLayer = l, !.layer[l].visibility = TRUE]
             based == NewRequests(other)
  <1>1. /\ Steady(m) /\ IsMap(m) /\ Placed(m) /\ m.layer \in [Layer -> LayerState]
        /\ l \in Layer /\ None \notin Base /\ Base \subseteq Layer /\ FALSE \in BOOLEAN
    BY MapViewAssumption DEF AtRest, Steady, Placed, Drawn
  <1>2. /\ OnlyLayer(m, hidden) /\ Drawn(hidden)
        /\ \A k \in Layer : k # l \/ b # None => Shown(hidden, k)
        /\ b # None => ~hidden.layer[b].displayed
    <2>1. CASE b = None
      <3>1. OnlyLayer(m, m)
        BY <1>1 DEF OnlyLayer
      <3> QED  BY <2>1, <3>1
    <2>2. CASE b # None
      <3> DEFINE n == SetVisibility(m, b, FALSE)
      <3>1. b \in Base /\ b \in Layer
        BY <1>1, <2>2
      <3>2. /\ OnlyLayer(m, n) /\ Drawn(n) /\ AllShown(n)
            /\ n.layer[b].visibility = FALSE
        <4>1. \A k \in Layer : k # b => Shown(m, k)
          BY <2>2
        <4> HIDE DEF n, b
        <4> QED  BY <1>1, <3>1, <4>1, SetVisibilityKeeps DEF n
      <3>3. hidden = n
        BY <2>2
      <3> HIDE DEF n, hidden, b
      <3>4. ~n.layer[b].displayed
        BY <3>1, <3>2 DEF Drawn, LayerState
      <3> QED  BY <3>2, <3>3, <3>4 DEF AllShown
    <2> QED  BY <2>1, <2>2
  <1> HIDE DEF hidden
  <1>3. ASSUME NEW k \in Base, k # l, InMap(m, k)
        PROVE  ~hidden.layer[k].displayed
    <2>1. Shown(hidden, k) /\ InMap(hidden, k) /\ hidden.baseLayer = b
      BY <1>1, <1>2, <1>3 DEF OnlyLayer, InMap
    <2>2. hidden.layer[k].displayed => k = b
      BY <1>3, <2>1 DEF Shown
    <2> QED  BY <1>1, <1>2, <2>2
  <1> DEFINE t == [hidden.layer[l] EXCEPT !.visibility = TRUE]
  <1>4. /\ SameView(m, other) /\ other.layers = m.layers /\ other.baseLayer = l
        /\ other.layer = [hidden.layer EXCEPT ![l] = t] /\ IsMap(other)
    BY <1>2 DEF OnlyLayer, SameView, IsMap
  <1> HIDE DEF other
  <1>5. Drawn(other)
    <2>1. hidden.layer \in [Layer -> LayerState]
      BY <1>2 DEF Drawn
    <2>2. t \in LayerState /\ t.grid = hidden.layer[l].grid
      BY <1>1, <2>1 DEF LayerState
    <2> HIDE DEF t
    <2>3. other.layer \in [Layer -> LayerState]
      BY <1>4, <2>1, <2>2
    <2>4. ASSUME other.center = None, NEW k \in Layer PROVE other.layer[k].grid = <<>>
      <3>1. hidden.center = None
        BY <1>2, <1>4, <2>4 DEF OnlyLayer, SameView
      <3>2. hidden.layer[k].grid = <<>>
        BY <1>2, <3>1 DEF Drawn
      <3> QED  BY <1>4, <2>1, <2>2, <3>2
    <2> QED  BY <2>3, <2>4 DEF Drawn
  <1> HIDE DEF t
  <1>6. AllShown(other)
    <2>1. hidden.layer \in [Layer -> LayerState]
      BY <1>2 DEF Drawn
    <2>2. ASSUME NEW k \in Layer PROVE Shown(other, k)
      <3>1. InMap(other, k) = InMap(m, k) /\ InMap(other, k) = InMap(hidden, k)
        BY <1>2, <1>4 DEF InMap, OnlyLayer
      <3>2. k # l => other.layer[k] = hidden.layer[k]
        BY <1>4, <2>1
      <3>3. CASE k = l
        BY <1>4, <3>3 DEF Shown
      <3>4. CASE k \in Base /\ k # l
        BY <1>3, <3>1, <3>2, <3>4 DEF Shown
      <3>5. CASE k \notin Base
        <4>1. Shown(hidden, k) /\ k # l
          BY <1>2, <3>5
        <4> QED  BY <3>1, <3>2, <3>5, <4>1 DEF Shown
      <3> QED  BY <3>3, <3>4, <3>5
    <2> QED  BY <2>2 DEF AllShown
  <1>7. OnlyLayer(other, based) /\ Retiled(other, based)
    BY <1>4, <1>5, NewRequestsOnly, NewRequestsTiles DEF Drawn
  <1> HIDE DEF based
  <1>8. Drawn(based) /\ AllShown(based)
    BY <1>5, <1>6, <1>7, RetiledKeeps DEF OnlyLayer
  <1>9. SameView(m, based) /\ based.baseLayer = l
    BY <1>4, <1>7 DEF OnlyLayer, SameView
  <1>10. Steady(based)
    BY <1>1, <1>9, SameViewSteady
  <1>11. SetBaseLayer(m, l) = IF m.center = None THEN based
                              ELSE SetCenter(based, m.center, zoom, Forced)
    BY DEF SetBaseLayer, based, other, hidden
  <1>12. CASE m.center = None
    <2>1. SetBaseLayer(m, l) = based
      BY <1>11, <1>12
    <2>2. Tiled(based)
      BY <1>9, <1>12 DEF Tiled, HasExtent, SameView
    <2>3. Timed(m) => Timed(based)
      BY <1>9 DEF Timed, SameView
    <2> QED  BY <1>8, <2>1, <2>2, <2>3 DEF Whole
  <1>13. CASE m.center # None
    <2> DEFINE n == SetCenter(based, m.center, zoom, Forced)
    <2>1. SetBaseLayer(m, l) = n
      BY <1>11, <1>13
    <2>2. zoom \in Zoom
      <3>1. m.resolution \in {None, m.zoom} /\ MaxZoom \in Zoom /\ m.zoom \in Zoom
        BY ZoomIsInt, MapTilesAssumption DEF AtRest, Steady, Zoom
      <3> QED  BY <3>1
    <2> HIDE DEF zoom
    <2>3. /\ zoom # None /\ m.center \in Int \cup {None}
          /\ Forced \in {Still, Dragged, Forced}
      BY <1>1, <2>2, ZoomIsInt DEF Placed
    <2>4. /\ Drawn(n) /\ AllShown(n) /\ Tiled(n)
          /\ ~n.tween.playing /\ n.tween.time = based.tween.time
      BY <1>8, <1>9, <1>10, <2>3, SetCenterTiles
    <2> HIDE DEF n
    <2>5. Timed(m) => Timed(n)
      BY <1>9, <2>4 DEF Timed, SameView
    <2> QED  BY <2>1, <2>4, <2>5 DEF Whole
  <1> QED  BY <1>12, <1>13

-----------------------------------------------------------------------------
(***************************************************************************)
(* The list of layers.                                                     *)
(***************************************************************************)
\* A layer that is in the list is in it once, so it is not there any more.
LEMMA RemoveItemRemoves ==
    ASSUME NEW s \in Seq(Layer), NEW l, NEW i \in DOMAIN s, s[i] = l,
           \A j, k \in DOMAIN s : s[j] = s[k] => j = k
    PROVE  LET r == RemoveItem(s, l)
           IN  /\ r \in Seq(Layer)
               /\ \A j, k \in DOMAIN r : r[j] = r[k] => j = k
               /\ \A x : (\E k \in DOMAIN r : r[k] = x)
                           <=> x # l /\ \E k \in DOMAIN s : s[k] = x
  <1> DEFINE r == RemoveItem(s, l)
             n == Len(s)
  <1>1. n \in Nat /\ DOMAIN s = 1 .. n /\ i \in 1 .. n
    OBVIOUS
  <1>2. (CHOOSE k \in DOMAIN s : s[k] = l) = i
    OBVIOUS
  <1>3. r = SubSeq(s, 1, i - 1) \o SubSeq(s, i + 1, n)
    BY <1>2 DEF RemoveItem, RemoveAt
  <1> HIDE DEF r
  <1>4. /\ SubSeq(s, 1, i - 1) \in Seq(Layer) /\ Len(SubSeq(s, 1, i - 1)) = i - 1
        /\ \A k \in 1 .. i - 1 : SubSeq(s, 1, i - 1)[k] = s[k]
    BY <1>1
  <1>5. /\ SubSeq(s, i + 1, n) \in Seq(Layer) /\ Len(SubSeq(s, i + 1, n)) = n - i
        /\ \A k \in 1 .. n - i : SubSeq(s, i + 1, n)[k] = s[i + k]
    BY <1>1
  <1>6. /\ r \in Seq(Layer) /\ Len(r) = n - 1 /\ DOMAIN r = 1 .. n - 1
        /\ \A k \in 1 .. n - 1 : r[k] = IF k < i THEN s[k] ELSE s[k + 1]
    <2> DEFINE a == SubSeq(s, 1, i - 1)
               b == SubSeq(s, i + 1, n)
    <2>1. r = a \o b /\ a \in Seq(Layer) /\ b \in Seq(Layer) /\ Len(a) = i - 1 /\ Len(b) = n - i
      BY <1>3, <1>4, <1>5
    <2>2. /\ \A k \in 1 .. i - 1 : a[k] = s[k]
          /\ \A k \in 1 .. n - i : b[k] = s[i + k]
      BY <1>4, <1>5
    <2> HIDE DEF a, b, n
    <2>3. /\ r \in Seq(Layer) /\ Len(r) = Len(a) + Len(b)
          /\ \A k \in 1 .. Len(a) + Len(b) : r[k] = IF k <= Len(a) THEN a[k] ELSE b[k - Len(a)]
      BY <2>1, ConcatProperties
    <2>5. /\ Len(a) + Len(b) = n - 1 /\ i - 1 \in Int
          /\ \A k \in 1 .. n - 1 : (k <= i - 1) = (k < i)
      BY <1>1, <2>1
    <2>6. /\ Len(r) = n - 1 /\ DOMAIN r = 1 .. n - 1
          /\ \A k \in 1 .. n - 1 : r[k] = IF k < i THEN a[k] ELSE b[k - (i - 1)]
      BY <2>1, <2>3, <2>5
    <2>4. ASSUME NEW k \in 1 .. n - 1 PROVE r[k] = IF k < i THEN s[k] ELSE s[k + 1]
      <3>1. CASE k < i
        BY <1>1, <2>2, <2>6, <3>1
      <3>2. CASE ~(k < i)
        <4>1. k - (i - 1) \in 1 .. n - i /\ i + (k - (i - 1)) = k + 1
          BY <1>1, <3>2
        <4>2. b[k - (i - 1)] = s[k + 1]
          BY <2>2, <4>1
        <4> QED  BY <2>6, <3>2, <4>2
      <3> QED  BY <3>1, <3>2
    <2> QED  BY <2>3, <2>4, <2>6
  <1> HIDE DEF n
  <1>7. ASSUME NEW j \in DOMAIN r, NEW k \in DOMAIN r, r[j] = r[k] PROVE j = k
    <2> DEFINE f(x) == IF x < i THEN x ELSE x + 1
    <2>1. /\ f(j) \in DOMAIN s /\ f(k) \in DOMAIN s
          /\ r[j] = s[f(j)] /\ r[k] = s[f(k)]
      BY <1>1, <1>6
    <2>2. f(j) = f(k)
      <3> HIDE DEF f
      <3> QED  BY <1>7, <2>1
    <2> QED  BY <1>1, <1>6, <2>2
  <1>8. ASSUME NEW k \in DOMAIN r
        PROVE  r[k] # l /\ \E j \in DOMAIN s : s[j] = r[k]
    <2> DEFINE f(x) == IF x < i THEN x ELSE x + 1
    <2>1. f(k) \in DOMAIN s /\ r[k] = s[f(k)] /\ f(k) # i
      BY <1>1, <1>6
    <2> HIDE DEF f
    <2> QED  BY <2>1
  <1>9. ASSUME NEW j \in DOMAIN s, s[j] # l
        PROVE  \E k \in DOMAIN r : r[k] = s[j]
    <2>1. j # i
      BY <1>9
    <2>2. CASE j < i
      <3>1. j \in DOMAIN r /\ r[j] = s[j]
        BY <1>1, <1>6, <2>2
      <3> QED  BY <3>1
    <2>3. CASE j > i
      <3>1. j - 1 \in DOMAIN r /\ ~(j - 1 < i) /\ (j - 1) + 1 = j
        BY <1>1, <1>6, <2>3
      <3>2. r[j - 1] = s[j]
        BY <1>6, <3>1
      <3> QED  BY <3>1, <3>2
    <2> QED  BY <1>1, <2>1, <2>2, <2>3
  <1> QED  BY <1>6, <1>7, <1>8, <1>9 DEF r

\* A map with base layers has one of them for its base layer.
Listed(m) ==
    /\ m.layers \in Seq(Layer)
    /\ \A j, k \in DOMAIN m.layers : m.layers[j] = m.layers[k] => j = k
    /\ m.baseLayer \in Base \cup {None}
    /\ m.baseLayer # None => InMap(m, m.baseLayer)
    /\ \A l \in Base : InMap(m, l) => m.baseLayer # None

\* What holds of a map between two handlers.
Sound(m) == AtRest(m) /\ Listed(m) /\ Timed(m) /\ Whole(m)

LEMMA ListedAlike ==
    ASSUME NEW m, NEW n, Listed(m), n.layers = m.layers, n.baseLayer = m.baseLayer
    PROVE  Listed(n)
  BY DEF Listed, InMap

LEMMA AppendLists ==
    ASSUME NEW m, Listed(m), NEW l \in Layer, ~InMap(m, l),
           NEW n, n.layers = Append(m.layers, l)
    PROVE  /\ n.layers \in Seq(Layer)
           /\ \A j, k \in DOMAIN n.layers : n.layers[j] = n.layers[k] => j = k
           /\ \A x : InMap(n, x) <=> InMap(m, x) \/ x = l
  <1> DEFINE s == m.layers
             r == n.layers
             c == Len(s)
  <1>1. /\ s \in Seq(Layer) /\ c \in Nat /\ DOMAIN s = 1 .. c
        /\ \A j, k \in DOMAIN s : s[j] = s[k] => j = k
        /\ \A k \in DOMAIN s : s[k] # l
    BY DEF Listed, InMap
  <1>2. r = Append(s, l)
    OBVIOUS
  <1> HIDE DEF s, r
  <1>3. /\ r \in Seq(Layer) /\ Len(r) = c + 1 /\ DOMAIN r = 1 .. c + 1
        /\ r[c + 1] = l /\ \A k \in 1 .. c : r[k] = s[k]
    BY <1>1, <1>2
  <1> HIDE DEF c
  <1>4. ASSUME NEW j \in DOMAIN r, NEW k \in DOMAIN r, r[j] = r[k] PROVE j = k
    <2>1. DOMAIN r = DOMAIN s \cup {c + 1} /\ \A i \in DOMAIN s : r[i] = s[i] /\ r[i] # l
      BY <1>1, <1>3
    <2>2. CASE j = c + 1
      BY <1>3, <1>4, <2>1, <2>2
    <2>3. CASE j \in DOMAIN s
      <3>1. k \in DOMAIN s
        BY <1>3, <1>4, <2>1, <2>3
      <3> QED  BY <1>1, <1>4, <2>1, <2>3, <3>1
    <2> QED  BY <2>1, <2>2, <2>3
  <1>5. ASSUME NEW x PROVE (\E k \in DOMAIN r : r[k] = x) <=> (\E k \in DOMAIN s : s[k] = x) \/ x = l
    <2>1. DOMAIN r = DOMAIN s \cup {c + 1}
      BY <1>1, <1>3
    <2>2. \A k \in DOMAIN s : r[k] = s[k]
      BY <1>1, <1>3
    <2> QED  BY <1>3, <2>1, <2>2
  <1> QED  BY <1>3, <1>4, <1>5 DEF InMap, r, s

\* addLayer: the layer comes with its tiles, or waits for the map to be centred.
LEMMA AddLayerSound ==
    ASSUME NEW m, Sound(m), NEW l \in Layer
    PROVE  /\ Sound(AddLayer(m, l))
           /\ \A x : InMap(AddLayer(m, l), x) <=> InMap(m, x) \/ x = l
  <1> DEFINE n == AddLayer(m, l)
             added == [m EXCEPT !.layers = Append(@, l)]
             range == CalculateInRange(m, l)
             mapped == [added EXCEPT !.layer[l].inRange = range,
                                     !.layer[l].displayed = m.layer[l].visibility /\ range]
  <1>1. /\ IsMap(m) /\ Placed(m) /\ AtRest(m) /\ m.layer \in [Layer -> LayerState]
        /\ Drawn(m) /\ AllShown(m) /\ Tiled(m) /\ Timed(m) /\ Listed(m)
        /\ None \notin Base /\ Base \subseteq Layer
    BY MapViewAssumption DEF Sound, Whole, Drawn, AtRest, Steady, Placed
  <1>2. AtRest(n)
    BY <1>1, AddLayerRests
  <1>3. n = IF InMap(m, l) THEN m
            ELSE IF l \notin Base THEN Redraw(mapped, l)
            ELSE IF m.baseLayer = None THEN SetBaseLayer(added, l)
            ELSE SetVisibility(added, l, FALSE)
    BY DEF AddLayer
  <1> HIDE DEF n
  <1>4. CASE InMap(m, l)
    <2>1. n = m
      BY <1>3, <1>4
    <2>2. Sound(n) /\ \A x : InMap(n, x) <=> InMap(m, x) \/ x = l
      BY <1>4, <2>1
    <2> QED  BY <2>2 DEF n
  <1>5. CASE ~InMap(m, l)
    <2>1. /\ SameView(m, added) /\ added.baseLayer = m.baseLayer
          /\ added.layers = Append(m.layers, l) /\ added.layer = m.layer
      BY <1>1 DEF SameView, IsMap
    <2> HIDE DEF added
    <2>2. /\ AtRest(added) /\ Placed(added) /\ IsMap(added)
          /\ HasExtent(added) = HasExtent(m)
      BY <1>1, <2>1, SameViewRests DEF AtRest, Steady, Placed, HasExtent, SameView
    <2>3. /\ added.layers \in Seq(Layer)
          /\ \A j, k \in DOMAIN added.layers : added.layers[j] = added.layers[k] => j = k
          /\ \A x : InMap(added, x) <=> InMap(m, x) \/ x = l
      BY <1>1, <1>5, <2>1, AppendLists
    <2>4. Drawn(added)
      BY <1>1, <2>1 DEF Drawn, SameView
    <2>5. ASSUME NEW k \in Layer, k # l
          PROVE  Shown(added, k) /\ (HasExtent(added) => LayerTiled(added, k))
      <3>1. Shown(m, k) /\ (HasExtent(m) => LayerTiled(m, k)) /\ (InMap(added, k) => InMap(m, k))
        BY <1>1, <2>3, <2>5 DEF AllShown, Tiled
      <3> QED  BY <2>1, <2>2, <3>1, LayerReadsIn DEF SameView
    <2>6. ASSUME n.layers = added.layers, n.baseLayer \in Base \cup {None},
                 n.baseLayer # None => n.baseLayer = l \/ n.baseLayer = m.baseLayer,
                 m.baseLayer # None => n.baseLayer # None,
                 l \in Base => n.baseLayer # None, Timed(n), Whole(n)
          PROVE  Sound(n) /\ \A x : InMap(n, x) <=> InMap(m, x) \/ x = l
      <3>1. \A x : InMap(n, x) <=> InMap(m, x) \/ x = l
        BY <2>3, <2>6 DEF InMap
      <3>2. Listed(n)
        BY <1>1, <2>3, <2>6, <3>1 DEF Listed
      <3> QED  BY <1>2, <2>6, <3>1, <3>2 DEF Sound
    <2>7. CASE l \notin Base
      <3>1. n = Redraw(mapped, l)
        BY <1>3, <1>5, <2>7
      <3> DEFINE old == m.layer[l]
                 t == [old EXCEPT !.inRange = range, !.displayed = old.visibility /\ range]
      <3>2. OnlyLayer(added, mapped) /\ mapped.layer = [m.layer EXCEPT ![l] = t]
        <4>1. OnlyLayer(added, mapped)
          BY <2>2, OnlyLayerExcept
        <4> HIDE DEF range
        <4>2. mapped.layer = [m.layer EXCEPT ![l] = t]
          BY <1>1, <2>1, <2>2 DEF IsMap
        <4> QED  BY <4>1, <4>2
      <3>3. old \in LayerState /\ range \in BOOLEAN
        BY <1>1, RangeBoolean
      <3>4. CalculateInRange(added, l) = range
        BY <2>1 DEF CalculateInRange, SameView
      <3> HIDE DEF mapped, range
      <3>5. /\ t \in LayerState /\ t.visibility = old.visibility /\ t.grid = old.grid
            /\ t.displayed => range
        BY <3>3 DEF LayerState
      <3> HIDE DEF t, old
      <3>6. /\ mapped.layer \in [Layer -> LayerState] /\ mapped.layer[l] = t
            /\ \A k \in Layer : k # l => mapped.layer[k] = m.layer[k]
        BY <1>1, <3>2, <3>5
      <3>7. /\ Placed(mapped) /\ IsMap(mapped) /\ CalculateInRange(mapped, l) = range
            /\ HasExtent(mapped) = HasExtent(m)
        BY <2>2, <3>2, <3>4, OnlyLayerRange DEF OnlyLayer, Placed, HasExtent
      <3> DEFINE r == Redraw(mapped, l).layer
      <3>8. /\ r \in [Layer -> LayerState]
            /\ \A k \in Layer : k # l => r[k] = mapped.layer[k]
            /\ r[l].inRange = range
            /\ r[l].displayed => t.displayed \/ range
            /\ ~HasExtent(mapped) => r[l].grid = t.grid
            /\ HasExtent(mapped) /\ range /\ r[l].visibility
                 => FitsIn(l, r[l].grid, TileView(mapped), mapped.size, FALSE)
        BY <3>6, <3>7, RedrawTiles
      <3>9. OnlyLayer(mapped, n) /\ r = n.layer
        BY <3>1, <3>7, RedrawOnly
      <3> HIDE DEF r
      <3>10. OnlyLayer(added, n)
        BY <3>2, <3>9, OnlyLayerTrans
      <3>11. /\ n.layers = added.layers /\ n.baseLayer = m.baseLayer /\ n.center = m.center
             /\ n.size = m.size /\ n.zoom = m.zoom /\ n.dragging = m.dragging
             /\ n.tween = m.tween
        BY <2>1, <3>10 DEF OnlyLayer, SameView
      <3>12. HasExtent(n) = HasExtent(m) /\ CalculateInRange(n, l) = range
        BY <3>11 DEF HasExtent, CalculateInRange, range
      <3>13. Drawn(n)
        <4>1. ASSUME n.center = None, NEW k \in Layer PROVE n.layer[k].grid = <<>>
          <5>1. m.layer[k].grid = <<>> /\ ~HasExtent(mapped)
            BY <1>1, <3>7, <3>11, <4>1 DEF Drawn, HasExtent
          <5>2. CASE k = l
            BY <3>5, <3>8, <3>9, <5>1, <5>2 DEF old
          <5>3. CASE k # l
            BY <3>6, <3>8, <3>9, <5>1, <5>3
          <5> QED  BY <5>2, <5>3
        <4> QED  BY <3>8, <3>9, <4>1 DEF Drawn
      <3>14. ASSUME NEW k \in Layer, k # l
             PROVE  Shown(n, k) /\ (HasExtent(n) => LayerTiled(n, k))
        <4>1. n.layer[k] = m.layer[k]
          BY <3>6, <3>8, <3>9, <3>14
        <4>2. Shown(m, k) /\ (HasExtent(m) => LayerTiled(m, k))
          BY <1>1 DEF AllShown, Tiled
        <4>3. InMap(n, k) => InMap(m, k)
          <5>1. InMap(n, k) = InMap(added, k)
            BY <3>11 DEF InMap
          <5> QED  BY <2>3, <3>14, <5>1
        <4> QED  BY <3>11, <3>12, <4>1, <4>2, <4>3, LayerReadsIn
      <3>15. Shown(n, l)
        BY <2>7, <3>5, <3>8, <3>9 DEF Shown
      <3>16. ASSUME HasExtent(n) PROVE LayerTiled(n, l)
        <4>1. n.layer[l].inRange = CalculateInRange(n, l)
          BY <3>8, <3>9, <3>12
        <4>2. ASSUME Active(n, l)
              PROVE  FitsIn(l, n.layer[l].grid, TileView(n), n.size, n.dragging)
          <5>1. range /\ n.layer[l].visibility
            BY <2>7, <3>8, <3>9, <4>2 DEF Active
          <5>2. FitsIn(l, n.layer[l].grid, TileView(mapped), mapped.size, FALSE)
            BY <3>7, <3>8, <3>9, <3>12, <3>16, <5>1
          <5>3. TileView(n) = TileView(mapped) /\ n.size = mapped.size
            BY <3>9 DEF OnlyLayer, TileView
          <5> QED  BY <5>2, <5>3, FitsSoon
        <4> QED  BY <4>1, <4>2 DEF LayerTiled
      <3>17. Whole(n)
        BY <3>13, <3>14, <3>15, <3>16 DEF Whole, AllShown, Tiled
      <3>18. Timed(n)
        BY <1>1, <3>11 DEF Timed
      <3>19. Sound(n) /\ \A x : InMap(n, x) <=> InMap(m, x) \/ x = l
        BY <1>1, <2>6, <2>7, <3>11, <3>17, <3>18 DEF Listed
      <3> QED  BY <3>19 DEF n
    <2>8. CASE l \in Base /\ m.baseLayer # None
      <3>1. n = SetVisibility(added, l, FALSE)
        BY <1>3, <1>5, <2>8
      <3>2. /\ OnlyLayer(added, n) /\ Drawn(n) /\ AllShown(n)
            /\ (HasExtent(added) => \A k \in Layer : k # l => LayerTiled(added, k)) => Tiled(n)
        <4>1. FALSE \in BOOLEAN /\ \A k \in Layer : k # l => Shown(added, k)
          BY <2>5
        <4> QED  BY <2>2, <2>4, <2>8, <3>1, <4>1, SetVisibilityKeeps
      <3>3. Tiled(n)
        BY <2>5, <3>2
      <3>4. n.layers = added.layers /\ n.baseLayer = m.baseLayer /\ n.tween = m.tween
        BY <2>1, <3>2 DEF OnlyLayer, SameView
      <3>5. Timed(n) /\ Whole(n)
        BY <1>1, <3>2, <3>3, <3>4 DEF Timed, Whole
      <3>6. Sound(n) /\ \A x : InMap(n, x) <=> InMap(m, x) \/ x = l
        BY <1>1, <2>6, <2>8, <3>4, <3>5 DEF Listed
      <3> QED  BY <3>6 DEF n
    <2>9. CASE l \in Base /\ m.baseLayer = None
      <3>1. n = SetBaseLayer(added, l)
        BY <1>3, <1>5, <2>9
      <3>2. n.layers = added.layers /\ n.baseLayer = l
        BY <2>2, <3>1, SetBaseLayerRests
      <3>3. Whole(n) /\ (Timed(added) => Timed(n))
        <4>1. l # added.baseLayer /\ added.baseLayer = None
          BY <1>1, <2>1, <2>9
        <4> QED  BY <2>2, <2>4, <2>5, <2>9, <3>1, <4>1, SetBaseLayerTiles
      <3>4. Timed(n)
        BY <1>1, <2>1, <3>3 DEF Timed, SameView
      <3>5. Sound(n) /\ \A x : InMap(n, x) <=> InMap(m, x) \/ x = l
        BY <1>1, <2>6, <2>9, <3>2, <3>3, <3>4
      <3> QED  BY <3>5 DEF n
    <2> QED  BY <2>7, <2>8, <2>9
  <1> QED  BY <1>4, <1>5

\* setBaseLayer, of a base layer of the map.
LEMMA SetBaseLayerSound ==
    ASSUME NEW m, Sound(m), NEW l \in Base, InMap(m, l)
    PROVE  Sound(SetBaseLayer(m, l))
  <1> DEFINE n == SetBaseLayer(m, l)
  <1>1. AtRest(m) /\ Listed(m) /\ Timed(m) /\ Drawn(m) /\ AllShown(m)
    BY DEF Sound, Whole
  <1>2. AtRest(n) /\ n.layers = m.layers /\ n.baseLayer = l
    BY <1>1, SetBaseLayerRests
  <1>3. Whole(n) /\ Timed(n)
    <2>1. CASE l = m.baseLayer
      <3>1. n = m
        BY <2>1 DEF SetBaseLayer
      <3> HIDE DEF n
      <3> QED  BY <3>1 DEF Sound
    <2>2. CASE l # m.baseLayer
      BY <1>1, <2>2, SetBaseLayerTiles DEF Listed, AllShown
    <2> QED  BY <2>1, <2>2
  <1> HIDE DEF n
  <1>4. Listed(n)
    <2>1. \A x : InMap(n, x) = InMap(m, x)
      BY <1>2 DEF InMap
    <2> QED  BY <1>1, <1>2, <2>1, MapViewAssumption DEF Listed
  <1> QED  BY <1>2, <1>3, <1>4 DEF Sound, n

\* A set of numbers that is not empty contains its minimum.
LEMMA MinIn ==
    ASSUME NEW S, S \subseteq Nat, S # {}
    PROVE  Min(S) \in S
  <1>1. PICK k \in S : \A n \in S : k <= n
    BY LeastNumber
  <1> QED  BY <1>1 DEF Min

\* removeLayer: the map has no base layer any more only if there is none left.
LEMMA RemoveLayerSound ==
    ASSUME NEW m, Sound(m), NEW l \in Layer, InMap(m, l)
    PROVE  Sound(RemoveLayer(m, l))
  <1> DEFINE removed == [m EXCEPT !.layers = RemoveItem(@, l),
                                  !.baseLayer = IF @ = l THEN None ELSE @]
             left == {k \in DOMAIN removed.layers : removed.layers[k] \in Base}
             first == removed.layers[Min(left)]
             n == RemoveLayer(m, l)
  <1>1. /\ IsMap(m) /\ AtRest(m) /\ Listed(m) /\ Timed(m)
        /\ Drawn(m) /\ AllShown(m) /\ Tiled(m)
        /\ l # None /\ None \notin Base /\ Base \subseteq Layer
    BY MapViewAssumption DEF Sound, Whole, AtRest, Steady, Placed
  <1>2. AtRest(n)
    BY <1>1, RemoveLayerRests
  <1>3. n = IF m.baseLayer = l /\ left # {} THEN SetBaseLayer(removed, first) ELSE removed
    BY DEF RemoveLayer
  <1>4. /\ SameView(m, removed) /\ removed.layer = m.layer
        /\ removed.layers = RemoveItem(m.layers, l)
        /\ removed.baseLayer = IF m.baseLayer = l THEN None ELSE m.baseLayer
    BY <1>1 DEF SameView, IsMap
  <1> HIDE DEF n, removed
  <1>5. /\ removed.layers \in Seq(Layer)
        /\ \A j, k \in DOMAIN removed.layers : removed.layers[j] = removed.layers[k] => j = k
        /\ \A x : InMap(removed, x) <=> x # l /\ InMap(m, x)
    <2> DEFINE s == m.layers
               r == RemoveItem(s, l)
    <2>1. /\ s \in Seq(Layer) /\ \A j, k \in DOMAIN s : s[j] = s[k] => j = k
          /\ \E i \in DOMAIN s : s[i] = l
      BY <1>1 DEF Listed, InMap
    <2>2. removed.layers = r
      BY <1>4
    <2> HIDE DEF s
    <2>3. /\ r \in Seq(Layer)
          /\ \A j, k \in DOMAIN r : r[j] = r[k] => j = k
          /\ \A x : (\E k \in DOMAIN r : r[k] = x) <=> x # l /\ \E k \in DOMAIN s : s[k] = x
      BY <2>1, RemoveItemRemoves
    <2> HIDE DEF r
    <2> QED  BY <2>2, <2>3 DEF InMap, s
  <1>6. AtRest(removed)
    BY <1>1, <1>4, SameViewRests
  <1>7. Drawn(removed) /\ Timed(removed)
    BY <1>1, <1>4 DEF Drawn, Timed, SameView
  <1>8. CASE m.baseLayer # l
    <2>1. n = removed /\ removed.baseLayer = m.baseLayer
      BY <1>3, <1>4, <1>8
    <2>2. HasExtent(removed) = HasExtent(m)
      BY <1>4, <2>1 DEF HasExtent, SameView
    <2>3. ASSUME NEW k \in Layer
          PROVE  Shown(removed, k) /\ (HasExtent(removed) => LayerTiled(removed, k))
      <3>1. /\ Shown(m, k) /\ (HasExtent(m) => LayerTiled(m, k))
            /\ InMap(removed, k) => InMap(m, k)
        BY <1>1, <1>5 DEF AllShown, Tiled
      <3> QED  BY <1>4, <2>1, <2>2, <3>1, LayerReadsIn DEF SameView
    <2>4. Whole(removed)
      BY <1>7, <2>3 DEF Whole, AllShown, Tiled
    <2>5. Listed(removed)
      BY <1>1, <1>5, <1>8, <2>1 DEF Listed
    <2>6. Sound(n)
      BY <1>2, <1>7, <2>1, <2>4, <2>5 DEF Sound
    <2> QED  BY <2>6 DEF n
  <1>9. CASE m.baseLayer = l
    <2>1. removed.baseLayer = None
      BY <1>4, <1>9
    <2>2. ASSUME NEW k \in Layer PROVE Shown(removed, k)
      <3>1. Shown(m, k)
        BY <1>1 DEF AllShown
      <3>2. CASE k \in Base
        BY <1>4, <1>5, <1>9, <3>1, <3>2 DEF Shown
      <3>3. CASE k \notin Base
        BY <1>4, <1>5, <3>1, <3>3 DEF Shown
      <3> QED  BY <3>2, <3>3
    <2>3. CASE left = {}
      <3>1. n = removed
        BY <1>3, <2>3
      <3>2. Whole(removed)
        BY <1>7, <2>1, <2>2 DEF Whole, AllShown, Tiled, HasExtent
      <3>3. ~ \E k \in Base : InMap(removed, k)
        BY <2>3 DEF InMap
      <3>4. Listed(removed)
        BY <1>5, <2>1, <3>3 DEF Listed
      <3>5. Sound(n)
        BY <1>2, <1>7, <3>1, <3>2, <3>4 DEF Sound
      <3> QED  BY <3>5 DEF n
    <2>4. CASE left # {}
      <3>1. n = SetBaseLayer(removed, first)
        BY <1>3, <1>9, <2>4
      <3>2. first \in Base /\ InMap(removed, first)
        <4>1. left \subseteq Nat
          BY <1>5
        <4>2. Min(left) \in left
          <5> HIDE DEF left
          <5> QED  BY <2>4, <4>1, MinIn
        <4> QED  BY <4>2 DEF InMap
      <3> HIDE DEF first, left
      <3>3. Whole(n) /\ (Timed(removed) => Timed(n))
        <4>1. first # removed.baseLayer /\ removed.baseLayer \in Base \cup {None}
          BY <1>1, <2>1, <3>2
        <4> QED  BY <1>6, <1>7, <2>2, <3>1, <3>2, <4>1, SetBaseLayerTiles
      <3>4. n.layers = removed.layers /\ n.baseLayer = first
        BY <1>6, <3>1, SetBaseLayerRests
      <3>5. Listed(n)
        <4>1. \A x : InMap(n, x) = InMap(removed, x)
          BY <3>4 DEF InMap
        <4> QED  BY <1>1, <1>5, <3>2, <3>4, <4>1 DEF Listed
      <3>6. Sound(n)
        BY <1>2, <1>7, <3>3, <3>5 DEF Sound
      <3> QED  BY <3>6 DEF n
    <2> QED  BY <2>3, <2>4
  <1> QED  BY <1>8, <1>9

-----------------------------------------------------------------------------
(***************************************************************************)
(* The handlers, and the tiles.                                            *)
(***************************************************************************)
LEMMA StaysSound ==
    ASSUME NEW m, NEW n, Sound(m), AtRest(n), Timed(n), Whole(n),
           n.layers = m.layers, n.baseLayer = m.baseLayer
    PROVE  Sound(n)
  BY ListedAlike DEF Sound

\* A map with other fields that the layers do not read.
LEMMA SceneSound ==
    ASSUME NEW m, NEW n, Sound(m), AtRest(n), Timed(n),
           SameScene(m, n), n.layer = m.layer, n.dragging = m.dragging
    PROVE  Sound(n)
  <1>1. Whole(n)
    BY SceneKeeps DEF Sound, Whole
  <1> QED  BY <1>1, StaysSound DEF SameScene

\* A call of setCenter.
LEMMA SetCenterSound ==
    ASSUME NEW m, Sound(m), m.baseLayer # None, NEW lonlat \in Int \cup {None},
           NEW zoom \in Zoom \cup {None}, NEW how \in {Still, Dragged}
    PROVE  Sound(SetCenter(m, lonlat, zoom, how))
  <1> DEFINE n == SetCenter(m, lonlat, zoom, how)
  <1>1. /\ AtRest(m) /\ Steady(m) /\ m.zoom # None /\ m.baseLayer \in Base
        /\ Drawn(m) /\ AllShown(m) /\ Tiled(m) /\ Timed(m)
    BY ZoomIsInt DEF Sound, Whole, AtRest, Listed
  <1>2. AtRest(n) /\ n.layers = m.layers /\ n.baseLayer = m.baseLayer
    BY <1>1, CallRests
  <1>3. how \in {Still, Dragged, Forced} /\ how # Forced
    BY DEF Still, Dragged, Forced
  <1>4. /\ Drawn(n) /\ AllShown(n) /\ Tiled(n)
        /\ ~n.tween.playing /\ n.tween.time = m.tween.time
    BY <1>1, <1>3, SetCenterTiles
  <1> HIDE DEF n
  <1>5. Timed(n)
    BY <1>1, <1>4 DEF Timed
  <1>6. Sound(n)
    BY <1>2, <1>4, <1>5, StaysSound DEF Whole
  <1> QED  BY <1>6 DEF n

\* updateSize: the layers of one tile dropped it, and all layers get new tiles.
LEMMA UpdateSizeSound ==
    ASSUME NEW m, Sound(m), NEW size \in Sizes
    PROVE  Sound(UpdateSize(m, size))
  <1> DEFINE resized == [m EXCEPT !.size = size,
                           !.layer = [l \in Layer |->
                              IF InMap(m, l) THEN OnMapResize(@[l], l \in SingleTile) ELSE @[l]]]
             zoomless == [resized EXCEPT !.zoom = None]
             after == SetCenter(zoomless, m.center, m.zoom, Still)
             n == UpdateSize(m, size)
             resizedLayer(l) == IF InMap(m, l) THEN OnMapResize(m.layer[l], l \in SingleTile)
                                ELSE m.layer[l]
  <1>1. /\ IsMap(m) /\ Placed(m) /\ Steady(m) /\ m.zoom \in Zoom /\ AtRest(m)
        /\ Drawn(m) /\ AllShown(m) /\ Timed(m) /\ Listed(m)
    BY DEF Sound, Whole, AtRest, Steady, Placed
  <1>2. AtRest(n) /\ n.layers = m.layers /\ n.baseLayer = m.baseLayer
    BY <1>1, UpdateSizeRests
  <1>3. n = IF m.baseLayer = None THEN resized ELSE after
    BY DEF UpdateSize
  <1> HIDE DEF n
  <1>4. /\ IsMap(resized)
        /\ resized.layers = m.layers /\ resized.baseLayer = m.baseLayer
        /\ resized.restrictedExtent = m.restrictedExtent
        /\ resized.center = m.center /\ resized.tween = m.tween
        /\ resized.size = size /\ resized.layer = [l \in Layer |-> resizedLayer(l)]
    BY <1>1 DEF IsMap
  <1> HIDE DEF resized
  <1>5. /\ IsMap(zoomless)
        /\ zoomless.layers = m.layers /\ zoomless.baseLayer = m.baseLayer
        /\ zoomless.restrictedExtent = m.restrictedExtent
        /\ zoomless.center = m.center /\ zoomless.tween = m.tween
        /\ zoomless.size = size /\ zoomless.layer = resized.layer /\ zoomless.zoom = None
    BY <1>4 DEF IsMap
  <1> HIDE DEF zoomless
  <1>6. Retiled(m, resized)
    <2>1. ASSUME NEW l \in Layer
          PROVE  /\ resizedLayer(l) \in LayerState
                 /\ SameSwitches(m.layer[l], resizedLayer(l))
                 /\ m.layer[l].grid = <<>> => resizedLayer(l).grid = <<>>
      <3>1. m.layer[l] \in LayerState
        BY <1>1 DEF Drawn
      <3>2. CASE InMap(m, l)
        BY <3>1, <3>2, OnMapResizeState
      <3>3. CASE ~InMap(m, l)
        BY <3>1, <3>3 DEF SameSwitches
      <3> QED  BY <3>2, <3>3
    <2> HIDE DEF resizedLayer
    <2>2. \A l \in Layer : resized.layer[l] = resizedLayer(l)
      BY <1>4
    <2>3. resized.layer \in [Layer -> LayerState]
      BY <1>4, <2>1
    <2> QED  BY <2>1, <2>2, <2>3 DEF Retiled
  <1>7. CASE m.baseLayer = None
    <2>1. n = resized
      BY <1>3, <1>7
    <2>2. Drawn(n) /\ AllShown(n)
      BY <1>1, <1>4, <1>6, <2>1, RetiledKeeps
    <2>3. Tiled(n) /\ Timed(n)
      BY <1>1, <1>2, <1>4, <1>7, <2>1 DEF Tiled, HasExtent, Timed
    <2>4. Sound(n)
      BY <1>2, <2>2, <2>3, StaysSound DEF Whole
    <2> QED  BY <2>4 DEF n
  <1>8. CASE m.baseLayer # None
    <2>1. n = after
      BY <1>3, <1>8
    <2>2. Retiled(m, zoomless)
      BY <1>5, <1>6 DEF Retiled
    <2>3. Drawn(zoomless) /\ AllShown(zoomless)
      BY <1>1, <1>5, <2>2, RetiledKeeps
    <2>4. Steady(zoomless)
      BY <1>1, <1>5 DEF Steady, Placed
    <2>5. /\ zoomless.baseLayer \in Base /\ m.center \in Int \cup {None}
          /\ m.zoom # None /\ m.zoom # zoomless.zoom
          /\ Still \in {Still, Dragged, Forced} /\ Still # Forced
      BY <1>1, <1>5, <1>8, ZoomIsInt, MapTilesAssumption DEF Listed, Placed, Still, Forced
    <2>6. /\ Drawn(after) /\ AllShown(after) /\ Tiled(after)
          /\ ~after.tween.playing /\ after.tween.time = zoomless.tween.time
      BY <2>3, <2>4, <2>5, SetCenterTiles
    <2> HIDE DEF after
    <2>7. Timed(n) /\ Whole(n)
      BY <1>1, <1>5, <2>1, <2>6 DEF Timed, Whole
    <2>8. Sound(n)
      BY <1>2, <2>7, StaysSound
    <2> QED  BY <2>8 DEF n
  <1> QED  BY <1>7, <1>8

LEMMA PanToSound ==
    ASSUME NEW m, Sound(m), HasExtent(m), NEW lonlat \in Int
    PROVE  Sound(PanTo(m, lonlat))
  <1> DEFINE moved == SetCenter(m, lonlat, None, Still)
             panned == [m EXCEPT !.announced = TRUE,
                                 !.tween = [playing |-> TRUE, begin |-> m.center,
                                            finish |-> lonlat, time |-> 0]]
             n == PanTo(m, lonlat)
  <1>1. n \in {moved, m, panned}
    BY DEF PanTo
  <1>2. Sound(moved)
    <2>1. m.baseLayer # None
      BY DEF HasExtent
    <2> QED  BY <2>1, SetCenterSound
  <1>3. AtRest(m) /\ IsMap(m)
    BY DEF Sound, AtRest, Steady, Placed
  <1>4. AtRest(n)
    BY <1>3, PanToRests
  <1>5. /\ SameScene(m, panned) /\ panned.layer = m.layer /\ panned.dragging = m.dragging
        /\ panned.tween.playing /\ panned.tween.time = 0
    BY <1>3 DEF IsMap, SameScene
  <1> HIDE DEF panned, moved, n
  <1>6. Timed(panned)
    BY <1>5, MapViewAssumption DEF Timed
  <1>7. CASE n = panned
    <2>1. Sound(n)
      BY <1>4, <1>5, <1>6, <1>7, SceneSound
    <2> QED  BY <2>1 DEF n
  <1>8. CASE n \in {moved, m}
    <2>1. Sound(n)
      BY <1>2, <1>8
    <2> QED  BY <2>1 DEF n
  <1> QED  BY <1>1, <1>7, <1>8

\* A tick of the animation: the last one ends it.
LEMMA PlaySound ==
    ASSUME NEW m, Sound(m), m.tween.playing, m.baseLayer # None
    PROVE  Sound(Play(m))
  <1> DEFINE next == [m EXCEPT !.tween.time = @ + 1]
             lonlat == Eased(m.tween)
             o == MoveTo(next, lonlat, m.zoom, Step)
             n == Play(m)
  <1>1. /\ IsMap(m) /\ Placed(m) /\ Steady(m) /\ AtRest(m) /\ Timed(m) /\ m.zoom \in Zoom
        /\ m.baseLayer \in Base
    BY DEF Sound, AtRest, Steady, Placed, Listed
  <1>2. AtRest(n) /\ n.layers = m.layers /\ n.baseLayer = m.baseLayer
    BY <1>1, PlayRests
  <1>3. n = IF next.tween.time > Duration THEN PanDone(o) ELSE o
    BY DEF Play
  <1>4. /\ SameScene(m, next) /\ next.layer = m.layer /\ next.dragging = m.dragging
        /\ next.restrictedExtent = m.restrictedExtent /\ next.resolution = m.resolution
        /\ next.tween.time = m.tween.time + 1 /\ next.tween.begin = m.tween.begin
        /\ next.tween.finish = m.tween.finish /\ IsMap(next)
    BY <1>1 DEF IsMap, SameScene
  <1> HIDE DEF next
  <1>5. Steady(next)
    BY <1>1, <1>4 DEF Steady, Placed, SameScene
  <1>6. Drawn(next) /\ AllShown(next) /\ Tiled(next) /\ next.baseLayer \in Base
    BY <1>1, <1>4, SceneKeeps DEF Sound, Whole, SameScene
  <1>7. lonlat \in Int \cup {None}
    <2>1. m.tween.begin \in Int /\ m.tween.finish \in Int
      BY <1>1 DEF Steady
    <2>2. (m.tween.begin + m.tween.finish) \div 2 \in Int
      BY <2>1
    <2> QED  BY <2>1, <2>2 DEF Eased
  <1>8. Step \in How /\ ~Step.force
    BY HowTyped DEF Step, Dragged, Still
  <1> HIDE DEF lonlat
  <1>9. Drawn(o) /\ AllShown(o) /\ Tiled(o)
    BY <1>5, <1>6, <1>7, <1>8, MoveToTiles
  <1>10. Moved(next, o, lonlat, m.zoom, Step)
    BY <1>4, <1>8, MoveToMoves
  <1>11. /\ o.tween = next.tween /\ o.baseLayer = next.baseLayer
         /\ o.zoom = m.zoom /\ o.resolution = m.resolution
    BY <1>4, <1>8, <1>10 DEF Moved, ZoomChanges, SameScene
  <1> HIDE DEF o, n
  <1>12. m.tween.time \in 0 .. Duration /\ Duration \in Nat
    BY <1>1, MapViewAssumption DEF Timed
  <1>13. CASE ~(next.tween.time > Duration)
    <2>1. n = o
      BY <1>3, <1>13
    <2>2. Timed(o)
      BY <1>4, <1>11, <1>12, <1>13 DEF Timed
    <2>3. Sound(n)
      BY <1>2, <1>9, <2>1, <2>2, StaysSound DEF Whole
    <2> QED  BY <2>3 DEF n
  <1>14. CASE next.tween.time > Duration
    <2>1. n = PanDone(o)
      BY <1>3, <1>14
    <2>2. Steady(o)
      <3>1. Placed(o)
        BY <1>5, <1>7, <1>8, <1>10, MovedSettles DEF Steady
      <3> QED  BY <1>1, <1>5, <1>11, <3>1 DEF Steady
    <2>3. Drawn(n) /\ AllShown(n) /\ Tiled(n)
      BY <1>6, <1>9, <1>11, <2>1, <2>2, PanDoneTiles
    <2>4. n.tween = [o.tween EXCEPT !.playing = FALSE] /\ ~n.tween.playing
      BY <2>1, <2>2, PanDoneSteady
    <2>5. n.tween.time = o.tween.time
      BY <2>2, <2>4 DEF Steady, Placed, IsMap
    <2>6. Timed(n)
      BY <1>4, <1>11, <1>12, <2>4, <2>5 DEF Timed
    <2>7. Sound(n)
      BY <1>2, <2>3, <2>6, StaysSound DEF Whole
    <2> QED  BY <2>7 DEF n
  <1> QED  BY <1>13, <1>14

\* Tiles at the same places fit the same view.
LEMMA FitsAlike ==
    ASSUME NEW g \in Seq(GoodTile), NEW h \in Seq(GoodTile), DOMAIN h = DOMAIN g,
           \A k \in DOMAIN g : h[k].bounds = g[k].bounds,
           NEW l, NEW view, NEW size, NEW dragging, FitsIn(l, g, view, size, dragging)
    PROVE  FitsIn(l, h, view, size, dragging)
  <1> DEFINE c == Len(g)
  <1>1. c \in Nat /\ DOMAIN g = 1 .. c /\ DOMAIN h = 1 .. c /\ Len(h) = c
    BY LenProperties
  <1>2. CASE c = 0
    <2>1. g = <<>> /\ h = <<>>
      BY <1>1, <1>2
    <2> QED  BY <2>1
  <1>3. CASE c # 0
    <2> HIDE DEF c
    <2>1. 1 \in 1 .. c /\ c \in 1 .. c /\ h # <<>>
      BY <1>1, <1>3
    <2>2. /\ Head(h).bounds = Head(g).bounds /\ Last(h).bounds = Last(g).bounds
      <3>1. Head(h) = h[1] /\ Head(g) = g[1] /\ Last(h) = h[c] /\ Last(g) = g[c]
        BY <1>1 DEF Last, c
      <3> QED  BY <1>1, <2>1, <3>1
    <2>3. TilesBounds(h) = TilesBounds(g)
      BY <2>2 DEF TilesBounds
    <2>4. ASSUME NEW width, Row(g, width) PROVE Row(h, width)
      <3>1. Columned(h, width)
        <4>1. ASSUME NEW k \in 1 .. c
              PROVE  h[k].bounds.right = h[k].bounds.left + width
          BY <1>1, <2>4, <4>1 DEF Row, Columned
        <4>2. ASSUME NEW k \in 1 .. c - 1 PROVE h[k].bounds.right = h[k + 1].bounds.left
          <5>1. k \in 1 .. c /\ k + 1 \in 1 .. c
            BY <1>1
          <5>2. g[k].bounds.right = g[k + 1].bounds.left
            BY <2>4 DEF Row, Columned, c
          <5> QED  BY <1>1, <5>1, <5>2
        <4> QED  BY <1>1, <4>1, <4>2 DEF Columned
      <3>2. Long(h, width)
        BY <1>1, <2>2, <2>4 DEF Row, Long, c
      <3> QED  BY <3>1, <3>2 DEF Row
    <2>5. CASE l \in SingleTile
      BY <2>1, <2>3, <2>5 DEF FitsIn, SingleFits
    <2>6. CASE l \notin SingleTile
      <3>1. GridFits(g, view, size)
        BY <2>6 DEF FitsIn
      <3>2. GridFits(h, view, size)
        BY <1>1, <2>3, <2>4, <3>1 DEF GridFits, c
      <3> QED  BY <2>6, <3>2 DEF FitsIn
    <2> QED  BY <2>5, <2>6
  <1> QED  BY <1>2, <1>3

\* The event of an image changes its tile, and what its layer counts.
MapEnded(m, l, k, t) ==
    [m EXCEPT !.layer[l].grid[k] = t,
              !.layer[l].numLoadingTiles =
                 IF m.layer[l].grid[k].isLoading /\ ~t.isLoading THEN @ - 1 ELSE @]

LEMMA ImageEndsSound ==
    ASSUME NEW m, Sound(m), NEW l \in Layer, NEW k \in DOMAIN m.layer[l].grid,
           NEW t \in GoodTile, t.bounds = m.layer[l].grid[k].bounds,
           t.isLoading => m.layer[l].grid[k].isLoading,
           NEW n, n = MapEnded(m, l, k, t)
    PROVE  Sound(n)
  <1> DEFINE s == m.layer[l]
             r == TileEnded(s, k, t)
  <1>1. /\ IsMap(m) /\ AtRest(m) /\ Timed(m) /\ m.layer \in [Layer -> LayerState]
        /\ Drawn(m) /\ AllShown(m) /\ Tiled(m) /\ s \in LayerState
    BY DEF Sound, Whole, Drawn, AtRest, Steady, Placed
  <1>2. n.layer = [m.layer EXCEPT ![l] = r] /\ OnlyLayer(m, n)
    <2> DEFINE new == [m.layer EXCEPT ![l] = r]
    <2>1. n = [m EXCEPT !.layer = new]
      BY <1>1 DEF IsMap, LayerState, MapEnded, TileEnded
    <2> HIDE DEF new
    <2>2. n.layer = new
      BY <1>1, <2>1 DEF IsMap
    <2>3. OnlyLayer(m, [m EXCEPT !.layer = new])
      BY <1>1, OnlyLayerExcept
    <2>4. OnlyLayer(m, n)
      BY <2>1, <2>3
    <2> QED  BY <2>2, <2>4 DEF new
  <1>3. /\ r \in LayerState /\ SameSwitches(s, r)
        /\ r.grid = [s.grid EXCEPT ![k] = t]
    <2>1. /\ s \in LayerState /\ k \in DOMAIN s.grid
          /\ t.isLoading => s.grid[k].isLoading
      BY <1>1
    <2> HIDE DEF s
    <2> QED  BY <2>1, TileEnds
  <1> HIDE DEF r
  <1>4. /\ n.layer \in [Layer -> LayerState] /\ n.layer[l] = r
        /\ \A j \in Layer : j # l => n.layer[j] = m.layer[j]
    BY <1>1, <1>2, <1>3
  <1>5. AtRest(n) /\ SameScene(m, n) /\ n.dragging = m.dragging /\ n.tween = m.tween
    <2>1. AtRest(n)
      BY <1>1, <1>2, OnlyLayerRests
    <2> QED  BY <1>2, <2>1 DEF OnlyLayer, SameScene
  <1>6. /\ HasExtent(n) = HasExtent(m) /\ TileView(n) = TileView(m) /\ n.size = m.size
        /\ InMap(n, l) = InMap(m, l) /\ CalculateInRange(n, l) = CalculateInRange(m, l)
    BY <1>5, SceneReads DEF SameScene
  <1>7. s.grid \in Seq(GoodTile) /\ r.grid \in Seq(GoodTile) /\ s.grid # <<>>
    BY <1>1, <1>3 DEF LayerState
  <1>8. m.center # None
    BY <1>1, <1>7 DEF Drawn
  <1>9. Drawn(n)
    BY <1>4, <1>5, <1>8 DEF Drawn, SameScene
  <1>10. /\ r.visibility = s.visibility /\ r.inRange = s.inRange
         /\ r.displayed = s.displayed
    BY <1>3 DEF SameSwitches
  <1>11. Shown(n, l)
    <2>1. Shown(m, l) /\ n.baseLayer = m.baseLayer
      BY <1>1, <1>5 DEF AllShown, SameScene
    <2> QED  BY <1>4, <1>6, <1>10, <2>1 DEF Shown
  <1>12. ASSUME HasExtent(n) PROVE LayerTiled(n, l)
    <2>1. LayerTiled(m, l)
      BY <1>1, <1>6, <1>12 DEF Tiled
    <2>2. Active(n, l) => Active(m, l)
      BY <1>4, <1>5, <1>6, <1>10 DEF Active, SameScene
    <2>3. DOMAIN r.grid = DOMAIN s.grid /\ \A j \in DOMAIN s.grid : r.grid[j].bounds = s.grid[j].bounds
      BY <1>3
    <2>4. FitsIn(l, s.grid, TileView(m), m.size, m.dragging)
            => FitsIn(l, r.grid, TileView(m), m.size, m.dragging)
      <3> HIDE DEF s
      <3> QED  BY <1>7, <2>3, FitsAlike
    <2>5. l \notin Base /\ InMap(n, l) => r.inRange = CalculateInRange(n, l)
      BY <1>6, <1>10, <2>1 DEF LayerTiled
    <2>6. Active(n, l) => FitsIn(l, r.grid, TileView(n), n.size, n.dragging)
      BY <1>5, <1>6, <2>1, <2>2, <2>4 DEF LayerTiled
    <2> QED  BY <1>4, <2>5, <2>6 DEF LayerTiled
  <1>13. ASSUME NEW j \in Layer, j # l
         PROVE  Shown(n, j) /\ (HasExtent(n) => LayerTiled(n, j))
    <2>1. Shown(m, j) /\ (HasExtent(m) => LayerTiled(m, j)) /\ n.layer[j] = m.layer[j]
      BY <1>1, <1>4, <1>13 DEF AllShown, Tiled
    <2> QED  BY <1>5, <1>6, <2>1, LayerReads
  <1>14. Whole(n)
    BY <1>9, <1>11, <1>12, <1>13 DEF Whole, AllShown, Tiled
  <1>15. Timed(n)
    BY <1>1, <1>5 DEF Timed
  <1> QED  BY <1>5, <1>14, <1>15, StaysSound DEF SameScene

\* The state of a drag is nothing to the layers.
LEMMA DragSound ==
    ASSUME NEW m, Sound(m), NEW x
    PROVE  /\ Sound([m EXCEPT !.drag = x])
           /\ [m EXCEPT !.drag = x].center = m.center
           /\ [m EXCEPT !.drag = x].baseLayer = m.baseLayer
  <1> DEFINE n == [m EXCEPT !.drag = x]
  <1>1. IsMap(m) /\ AtRest(m) /\ Timed(m)
    BY DEF Sound, AtRest, Steady, Placed
  <1>2. /\ SameScene(m, n) /\ n.layer = m.layer /\ n.dragging = m.dragging
        /\ n.tween = m.tween
    BY <1>1 DEF IsMap, SameScene
  <1>3. AtRest(n)
    BY <1>1, DragFollows
  <1> HIDE DEF n
  <1>4. Timed(n)
    BY <1>1, <1>2 DEF Timed
  <1>5. Sound(n)
    BY <1>2, <1>3, <1>4, SceneSound
  <1> QED  BY <1>2, <1>5 DEF n, SameScene

\* The page adds its layers.
LEMMA AddLayersSound ==
    ASSUME NEW m, Sound(m), NEW layers \in Seq(Layer)
    PROVE  /\ Sound(AddLayers(m, layers))
           /\ \A k \in DOMAIN layers : InMap(AddLayers(m, layers), layers[k])
  <1>1. PICK f : /\ f[0] = m
                 /\ \A k \in 1 .. Len(layers) : f[k] = AddLayer(f[k - 1], layers[k])
                 /\ AddLayers(m, layers) = f[Len(layers)]
    BY AddLayersAdds
  <1> DEFINE Good(k) == Sound(f[k]) /\ \A j \in 1 .. k : InMap(f[k], layers[j])
             Bad == {k \in 0 .. Len(layers) : ~Good(k)}
  <1>2. 0 \notin Bad
    BY <1>1
  <1>3. ASSUME NEW k \in Bad PROVE k - 1 \in Bad
    <2>1. k \in 1 .. Len(layers) /\ k - 1 \in 0 .. Len(layers)
      BY <1>2
    <2>2. f[k] = AddLayer(f[k - 1], layers[k]) /\ layers[k] \in Layer
      BY <1>1, <2>1
    <2>3. ASSUME Good(k - 1) PROVE Good(k)
      <3>1. Sound(f[k]) /\ \A x : InMap(f[k], x) <=> InMap(f[k - 1], x) \/ x = layers[k]
        BY <2>2, <2>3, AddLayerSound
      <3>2. ASSUME NEW j \in 1 .. k PROVE InMap(f[k], layers[j])
        <4>1. j = k \/ j \in 1 .. (k - 1)
          BY <2>1
        <4> QED  BY <2>3, <3>1, <4>1
      <3> QED  BY <3>1, <3>2
    <2> HIDE DEF Good
    <2> QED  BY <2>1, <2>3
  <1>4. Bad \subseteq Nat
    OBVIOUS
  <1>5. Bad = {}
    <2> HIDE DEF Bad
    <2> QED  BY <1>2, <1>3, <1>4, Descent
  <1>6. Len(layers) \in 0 .. Len(layers) /\ DOMAIN layers = 1 .. Len(layers)
    OBVIOUS
  <1>7. Good(Len(layers))
    <2> HIDE DEF Good
    <2> QED  BY <1>5, <1>6
  <1> QED  BY <1>1, <1>6, <1>7

\* A page that centres its map has given it a base layer before.
LEMMA InitSound == Init => Sound(map)
  <1> SUFFICES ASSUME Init PROVE Sound(map)
    OBVIOUS
  <1> DEFINE fresh(page) == NewMap(page.restrictedExtent, page.size)
             added(page) == AddLayers(fresh(page), page.layers)
  <1>1. PICK page \in Pages :
          map = IF page.center = None THEN added(page)
                ELSE SetCenter(added(page), page.center, MaxZoom, Still)
    BY DEF Init
  <1>2. /\ page.size \in Sizes /\ page.layers \in Seq(Layer)
        /\ page.center \in Int \cup {None}
        /\ page.restrictedExtent \in Restriction \cup {Unrestricted}
        /\ page.center # None => \E k \in DOMAIN page.layers : page.layers[k] \in Base
    BY MapViewAssumption
  <1>3. 0 \in Zoom /\ MaxZoom \in Zoom
    BY MapTilesAssumption DEF Zoom
  <1>4. Sound(fresh(page))
    <2>1. Placed(fresh(page)) /\ fresh(page).center = None
      BY <1>2 DEF NewMap, Placed, IsMap
    <2>2. Steady(fresh(page)) /\ fresh(page).zoom \in Zoom
      BY <1>3, <2>1 DEF NewMap, Steady
    <2>3. Settled(fresh(page)) /\ ~HasExtent(fresh(page))
      BY <2>1 DEF Settled, HasExtent
    <2>4. /\ ~fresh(page).announced /\ fresh(page).layers = <<>>
          /\ fresh(page).baseLayer = None
          /\ fresh(page).tween.time = 0 /\ ~fresh(page).tween.playing
          /\ fresh(page).layer = [l \in Layer |-> NewLayer]
      BY DEF NewMap
    <2> HIDE DEF fresh
    <2>5. AtRest(fresh(page))
      BY <2>2, <2>3, <2>4 DEF AtRest
    <2>6. \A l : ~InMap(fresh(page), l)
      BY <2>4 DEF InMap
    <2>7. Listed(fresh(page))
      <3>1. fresh(page).layers \in Seq(Layer) /\ DOMAIN fresh(page).layers = {}
        BY <2>4
      <3> QED  BY <2>4, <2>6, <3>1 DEF Listed
    <2>8. Timed(fresh(page))
      BY <2>4, MapViewAssumption DEF Timed
    <2>9. NewLayer \in LayerState /\ NewLayer.grid = <<>>
      <3>1. LoadingIn(<<>>) = 0
        <4>1. {k \in DOMAIN <<>> : <<>>[k].isLoading} = {}
          OBVIOUS
        <4> QED  BY <4>1, FS_EmptySet DEF LoadingIn
      <3>2. <<>> \in Seq(GoodTile) /\ DOMAIN <<>> \subseteq Columns
        OBVIOUS
      <3> QED  BY <3>1, <3>2 DEF NewLayer, LayerState
    <2>10. Drawn(fresh(page))
      BY <2>4, <2>9 DEF Drawn
    <2>11. AllShown(fresh(page)) /\ Tiled(fresh(page))
      BY <2>3, <2>6 DEF AllShown, Shown, Tiled
    <2> QED  BY <2>5, <2>7, <2>8, <2>10, <2>11 DEF Sound, Whole
  <1> HIDE DEF fresh
  <1>5. /\ Sound(added(page))
        /\ \A k \in DOMAIN page.layers : InMap(added(page), page.layers[k])
    BY <1>2, <1>4, AddLayersSound
  <1> HIDE DEF added
  <1>6. CASE page.center = None
    BY <1>1, <1>5, <1>6
  <1>7. CASE page.center # None
    <2>1. added(page).baseLayer # None
      BY <1>2, <1>5, <1>7 DEF Sound, Listed
    <2>2. Sound(SetCenter(added(page), page.center, MaxZoom, Still))
      <3>1. Still \in {Still, Dragged} /\ MaxZoom \in Zoom \cup {None}
        BY <1>3
      <3> QED  BY <1>2, <1>5, <2>1, <3>1, SetCenterSound
    <2> QED  BY <1>1, <1>7, <2>2
  <1> QED  BY <1>6, <1>7

\* The layer switcher shows or hides an overlay.
LEMMA SwitchSound ==
    ASSUME NEW m, Sound(m), NEW l \in Layer, l \notin Base
    PROVE  Sound(SetVisibility(m, l, ~m.layer[l].visibility))
  <1> DEFINE v == ~m.layer[l].visibility
             n == SetVisibility(m, l, v)
  <1>1. /\ AtRest(m) /\ Placed(m) /\ Drawn(m) /\ AllShown(m) /\ Tiled(m) /\ Timed(m)
    BY DEF Sound, Whole, AtRest, Steady
  <1>2. m.layer[l] \in LayerState
    BY <1>1 DEF Drawn
  <1>3. v \in BOOLEAN /\ m.layer[l].visibility # v
    BY <1>2 DEF LayerState
  <1> HIDE DEF v
  <1>4. OnlyLayer(m, n) /\ Drawn(n) /\ AllShown(n) /\ Tiled(n)
    <2>1. \A k \in Layer : k # l => Shown(m, k)
      BY <1>1 DEF AllShown
    <2>2. HasExtent(m) => \A k \in Layer : k # l => LayerTiled(m, k)
      BY <1>1 DEF Tiled
    <2>3. (l \in Base => v = FALSE) /\ (l \notin Base => m.layer[l].visibility # v)
      BY <1>3
    <2>4. /\ OnlyLayer(m, n) /\ Drawn(n) /\ AllShown(n)
          /\ (HasExtent(m) => \A k \in Layer : k # l => LayerTiled(m, k)) => Tiled(n)
      BY <1>1, <1>3, <2>1, <2>3, SetVisibilityKeeps, ZenonT(30)
    <2> QED  BY <2>2, <2>4
  <1> HIDE DEF n
  <1>5. AtRest(n)
    BY <1>1, <1>4, OnlyLayerRests
  <1>6. Timed(n) /\ n.layers = m.layers /\ n.baseLayer = m.baseLayer
    BY <1>1, <1>4 DEF Timed, OnlyLayer
  <1>7. Sound(n)
    BY <1>4, <1>5, <1>6, StaysSound DEF Whole
  <1> QED  BY <1>7 DEF n, v

\* The browser tells of one image.
LEMMA ImageEndsFollows ==
    ASSUME Sound(map), NEW l \in Layer, NEW k, NEW t,
           map.layer[l].grid[k] \in GoodTile /\ map.layer[l].grid[k].pending
             => /\ t \in GoodTile /\ t.bounds = map.layer[l].grid[k].bounds
                /\ t.isLoading => map.layer[l].grid[k].isLoading,
           ImageEnds(l, k, t)
    PROVE  Sound(map')
  <1>1. k \in DOMAIN map.layer[l].grid /\ map.layer[l].grid[k].pending
    BY DEF ImageEnds
  <1>2. map.layer[l].grid[k] \in GoodTile
    <2>1. map.layer[l].grid \in Seq(GoodTile)
      BY DEF Sound, Whole, Drawn, LayerState
    <2> QED  BY <1>1, <2>1
  <1>3. /\ t \in GoodTile /\ t.bounds = map.layer[l].grid[k].bounds
        /\ t.isLoading => map.layer[l].grid[k].isLoading
    BY <1>1, <1>2
  <1>4. map' = MapEnded(map, l, k, t)
    BY DEF ImageEnds, MapEnded
  <1> QED  BY <1>1, <1>3, <1>4, ImageEndsSound

LEMMA NextSound == Sound(map) /\ [Next]_vars => Sound(map')
  <1> SUFFICES ASSUME Sound(map), [Next]_vars
               PROVE  Sound(map')
    OBVIOUS
  <1>0. /\ Lon \subseteq Int /\ None \in Zoom \cup {None}
        /\ Still \in {Still, Dragged} /\ Dragged \in {Still, Dragged}
        /\ map.center \in Int \cup {None}
    BY MapTilesAssumption, MapViewAssumption DEF Sound, AtRest, Steady, Placed
  <1>1. ASSUME NEW lonlat \in Lon, CallPanTo(lonlat)
        PROVE  Sound(map')
    BY <1>0, <1>1, PanToSound DEF CallPanTo, Called
  <1>2. ASSUME NEW lonlat \in Lon, MouseMove(lonlat)
        PROVE  Sound(map')
    <2> DEFINE n == SetCenter(map, lonlat, None, Dragged)
    <2>1. map' = [n EXCEPT !.drag.moved = TRUE] /\ map.baseLayer # None
      BY <1>2 DEF MouseMove, Called, HasExtent
    <2>2. Sound(n)
      BY <1>0, <2>1, SetCenterSound
    <2> HIDE DEF n
    <2> QED  BY <2>1, <2>2, DragSound
  <1>3. ASSUME NEW lonlat \in Lon \cup {None}, NEW zoom \in Zoom \cup {None},
               CallSetCenter(lonlat, zoom)
        PROVE  Sound(map')
    <2>1. lonlat \in Int \cup {None}
      BY <1>0
    <2> QED  BY <1>0, <1>3, <2>1, SetCenterSound DEF CallSetCenter, Called
  <1>4. ASSUME NEW l \in Layer, CallAddLayer(l)
        PROVE  Sound(map')
    BY <1>4, AddLayerSound DEF CallAddLayer, Called
  <1>5. ASSUME NEW l \in Layer, CallRemoveLayer(l)
        PROVE  Sound(map')
    BY <1>5, RemoveLayerSound DEF CallRemoveLayer, Called
  <1>6. ASSUME NEW l \in Layer, ChooseBaseLayer(l)
        PROVE  Sound(map')
    BY <1>6, SetBaseLayerSound DEF ChooseBaseLayer, Called
  <1>7. ASSUME NEW l \in Layer, SwitchOverlay(l)
        PROVE  Sound(map')
    BY <1>7, SwitchSound DEF SwitchOverlay, Called
  <1>8. ASSUME NEW size \in Sizes, ResizeWindow(size)
        PROVE  Sound(map')
    BY <1>8, UpdateSizeSound DEF ResizeWindow, Called
  <1>9. CASE MouseDown
    BY <1>9, DragSound DEF MouseDown
  <1>10. CASE MouseUp
    <2> DEFINE up == [map EXCEPT !.drag = [started |-> FALSE, moved |-> FALSE]]
    <2>1. /\ Sound(up) /\ up.baseLayer = map.baseLayer
      BY DragSound
    <2>2. \/ map' = up
          \/ /\ map.baseLayer # None
             /\ \E lonlat \in {map.center} \cup Lon : map' = SetCenter(up, lonlat, None, Still)
      BY <1>10 DEF MouseUp, HasExtent
    <2> HIDE DEF up
    <2>3. ASSUME NEW lonlat \in {map.center} \cup Lon, map.baseLayer # None,
                 map' = SetCenter(up, lonlat, None, Still)
          PROVE  Sound(map')
      <3>1. lonlat \in Int \cup {None}
        BY <1>0
      <3> QED  BY <1>0, <2>1, <2>3, <3>1, SetCenterSound
    <2> QED  BY <2>1, <2>2, <2>3
  <1>11. CASE Deactivate
    BY <1>11, DragSound DEF Deactivate
  <1>12. CASE Tick
    BY <1>12, PlaySound DEF Tick
  <1>13. ASSUME NEW l \in Layer, NEW k \in Columns, ImageLoad(l, k)
         PROVE  Sound(map')
    <2> DEFINE t == ImageLoaded(map.layer[l].grid[k])
    <2>1. ImageEnds(l, k, t)
      BY <1>13 DEF ImageLoad
    <2>2. map.layer[l].grid[k] \in GoodTile /\ map.layer[l].grid[k].pending
            => /\ t \in GoodTile /\ t.bounds = map.layer[l].grid[k].bounds
               /\ t.isLoading => map.layer[l].grid[k].isLoading
      BY ImageLoadedGood
    <2> HIDE DEF t
    <2> QED  BY <2>1, <2>2, ImageEndsFollows
  <1>14. ASSUME NEW l \in Layer, NEW k \in Columns, ImageError(l, k)
         PROVE  Sound(map')
    <2> DEFINE t == ImageFailed(map.layer[l].grid[k])
    <2>1. ImageEnds(l, k, t)
      BY <1>14 DEF ImageError
    <2>2. map.layer[l].grid[k] \in GoodTile /\ map.layer[l].grid[k].pending
            => /\ t \in GoodTile /\ t.bounds = map.layer[l].grid[k].bounds
               /\ t.isLoading => map.layer[l].grid[k].isLoading
      BY ImageFailedGood
    <2> HIDE DEF t
    <2> QED  BY <2>1, <2>2, ImageEndsFollows
  <1>15. CASE UNCHANGED vars
    BY <1>15 DEF vars
  <1> QED  BY <1>1, <1>2, <1>3, <1>4, <1>5, <1>6, <1>7, <1>8, <1>9, <1>10, <1>11, <1>12,
              <1>13, <1>14, <1>15 DEF Next

-----------------------------------------------------------------------------
(***************************************************************************)
(* A layer of one tile has one, or none.                                   *)
(***************************************************************************)
OneTile(l, s) == l \in SingleTile => "grid" \in DOMAIN s /\ DOMAIN s.grid \subseteq {1}

OneTileEach(m) ==
    /\ IsMap(m) /\ DOMAIN m.layer = Layer
    /\ \A l \in Layer : OneTile(l, m.layer[l])

\* One layer gets another state, or other switches.
LEMMA OneTileLayer ==
    ASSUME NEW m, OneTileEach(m), NEW l, NEW r, l \in Layer => OneTile(l, r)
    PROVE  OneTileEach([m EXCEPT !.layer = [m.layer EXCEPT ![l] = r]])
  <1> DEFINE new == [m.layer EXCEPT ![l] = r]
             n == [m EXCEPT !.layer = new]
  <1>1. /\ DOMAIN new = Layer
        /\ \A k \in Layer : new[k] = IF k = l THEN r ELSE m.layer[k]
    BY DEF OneTileEach
  <1> HIDE DEF new
  <1>2. IsMap(n) /\ n.layer = new
    BY DEF OneTileEach, IsMap
  <1> HIDE DEF n
  <1>3. OneTileEach(n)
    BY <1>1, <1>2 DEF OneTileEach
  <1> QED  BY <1>3 DEF n, new

LEMMA OneTileSwitch ==
    ASSUME NEW m, OneTileEach(m), NEW l, NEW x
    PROVE  /\ OneTileEach([m EXCEPT !.layer[l].visibility = x])
           /\ OneTileEach([m EXCEPT !.layer[l].inRange = x])
           /\ OneTileEach([m EXCEPT !.layer[l].displayed = x])
  <1>1. l \in Layer => /\ OneTile(l, [m.layer[l] EXCEPT !.visibility = x])
                       /\ OneTile(l, [m.layer[l] EXCEPT !.inRange = x])
                       /\ OneTile(l, [m.layer[l] EXCEPT !.displayed = x])
    BY DEF OneTileEach, OneTile
  <1> QED  BY <1>1, OneTileLayer

\* All layers get another state.
LEMMA OneTileLayers ==
    ASSUME NEW m, IsMap(m), NEW f, DOMAIN f = Layer, \A l \in Layer : OneTile(l, f[l])
    PROVE  OneTileEach([m EXCEPT !.layer = f])
  <1> DEFINE n == [m EXCEPT !.layer = f]
  <1>1. IsMap(n) /\ n.layer = f
    BY DEF IsMap
  <1> HIDE DEF n
  <1>2. OneTileEach(n)
    BY <1>1 DEF OneTileEach
  <1> QED  BY <1>2 DEF n

\* No layer gets another state.
LEMMA OneTileElsewhere ==
    ASSUME NEW m, OneTileEach(m), NEW n, IsMap(n), n.layer = m.layer
    PROVE  OneTileEach(n)
  BY DEF OneTileEach

LEMMA OneTileGrid ==
    ASSUME NEW l, NEW s, OneTile(l, s), NEW view, NEW zoomChanged, NEW dragging
    PROVE  OneTile(l, GridMoveTo(s, l \in SingleTile, view, zoomChanged, dragging))
  <1> DEFINE r == GridMoveTo(s, l \in SingleTile, view, zoomChanged, dragging)
  <1> SUFFICES ASSUME l \in SingleTile PROVE "grid" \in DOMAIN r /\ DOMAIN r.grid \subseteq {1}
    BY DEF OneTile
  <1>1. r \in {InitSingleTile(s, view), s}
    BY DEF GridMoveTo
  <1>2. \E placed, t : InitSingleTile(s, view) = Replace(s, 1, placed, <<t>>)
    BY DEF InitSingleTile
  <1>3. ASSUME NEW placed, NEW t
        PROVE  /\ "grid" \in DOMAIN Replace(s, 1, placed, <<t>>)
               /\ DOMAIN Replace(s, 1, placed, <<t>>).grid \subseteq {1}
    <2> DEFINE one == <<t>>
               number == s.numLoadingTiles + LoadStarts(placed, one) - Unloads(s.grid, 1)
    <2>1. Replace(s, 1, placed, one) = [s EXCEPT !.grid = one, !.numLoadingTiles = number]
      BY DEF Replace
    <2>2. DOMAIN one \subseteq {1}
      OBVIOUS
    <2> HIDE DEF number, one
    <2>3. "grid" \in DOMAIN s
      BY DEF OneTile
    <2>4. /\ "grid" \in DOMAIN Replace(s, 1, placed, one)
          /\ Replace(s, 1, placed, one).grid = one
      BY <2>1, <2>3
    <2>5. /\ "grid" \in DOMAIN Replace(s, 1, placed, one)
          /\ DOMAIN Replace(s, 1, placed, one).grid \subseteq {1}
      BY <2>2, <2>4
    <2> QED  BY <2>5 DEF one
  <1>4. "grid" \in DOMAIN s /\ DOMAIN s.grid \subseteq {1}
    BY DEF OneTile
  <1> HIDE DEF r
  <1> QED  BY <1>1, <1>2, <1>3, <1>4

LEMMA OneTileDisplay ==
    ASSUME NEW m, OneTileEach(m), NEW l, NEW flag
    PROVE  OneTileEach(Display(m, l, flag))
  BY OneTileSwitch DEF Display

LEMMA OneTileMoveLayer ==
    ASSUME NEW m, OneTileEach(m), NEW l, NEW zoomChanged, NEW dragging
    PROVE  OneTileEach(MoveLayer(m, l, zoomChanged, dragging))
  <1> DEFINE show == m.layer[l].visibility /\ (l \in Base \/ m.layer[l].inRange)
             view == View(m.center, m.zoom, m.size)
             s == Display(m, l, show).layer[l]
             r == GridMoveTo(s, l \in SingleTile, view, zoomChanged, dragging)
  <1>1. l \in Layer => OneTile(l, s)
    <2> HIDE DEF show
    <2> QED  BY OneTileDisplay DEF OneTileEach
  <1>2. MoveLayer(m, l, zoomChanged, dragging) = [m EXCEPT !.layer = [m.layer EXCEPT ![l] = r]]
    BY DEF MoveLayer
  <1> HIDE DEF s, view
  <1>3. l \in Layer => OneTile(l, r)
    BY <1>1, OneTileGrid
  <1> HIDE DEF r
  <1>4. OneTileEach([m EXCEPT !.layer = [m.layer EXCEPT ![l] = r]])
    BY <1>3, OneTileLayer
  <1> QED  BY <1>2, <1>4, Zenon

LEMMA OneTileRedraw ==
    ASSUME NEW m, OneTileEach(m), NEW l
    PROVE  OneTileEach(Redraw(m, l))
  <1> DEFINE ranged == [m EXCEPT !.layer[l].inRange = CalculateInRange(m, l)]
  <1>1. OneTileEach(ranged)
    BY OneTileSwitch
  <1>2. Redraw(m, l) \in {MoveLayer(ranged, l, TRUE, FALSE), ranged}
    BY DEF Redraw
  <1> HIDE DEF ranged
  <1>3. OneTileEach(MoveLayer(ranged, l, TRUE, FALSE))
    BY <1>1, OneTileMoveLayer
  <1> QED  BY <1>1, <1>2, <1>3

LEMMA OneTileSetVisibility ==
    ASSUME NEW m, OneTileEach(m), NEW l, NEW visibility
    PROVE  OneTileEach(SetVisibility(m, l, visibility))
  <1> DEFINE shown == [m EXCEPT !.layer[l].visibility = visibility]
             displayed == Display(shown, l, visibility)
  <1>1. OneTileEach(shown)
    BY OneTileSwitch
  <1>2. SetVisibility(m, l, visibility) \in {m, Redraw(displayed, l)}
    BY DEF SetVisibility
  <1> HIDE DEF shown
  <1>3. OneTileEach(displayed)
    BY <1>1, OneTileDisplay
  <1> HIDE DEF displayed
  <1>4. OneTileEach(Redraw(displayed, l))
    BY <1>3, OneTileRedraw
  <1> QED  BY <1>2, <1>4

LEMMA OneTileNewRequests ==
    ASSUME NEW m, OneTileEach(m)
    PROVE  OneTileEach(NewRequests(m))
  <1> DEFINE f == [l \in Layer |-> Stale(m.layer[l])]
  <1>1. ASSUME NEW s, NEW l, OneTile(l, s) PROVE OneTile(l, Stale(s))
    <2> DEFINE grid == [k \in DOMAIN s.grid |-> [s.grid[k] EXCEPT !.current = FALSE]]
    <2>1. DOMAIN grid = DOMAIN s.grid /\ Stale(s) = [s EXCEPT !.grid = grid]
      BY DEF Stale
    <2> HIDE DEF grid
    <2> QED  BY <1>1, <2>1 DEF OneTile
  <1>2. DOMAIN f = Layer /\ \A l \in Layer : OneTile(l, f[l])
    BY <1>1 DEF OneTileEach
  <1>3. NewRequests(m) = [m EXCEPT !.layer = f]
    BY DEF NewRequests
  <1> HIDE DEF f
  <1> QED  BY <1>2, <1>3, OneTileLayers DEF OneTileEach

LEMMA OneTileMoveOverlay ==
    ASSUME NEW m, OneTileEach(m), NEW l, NEW zoomChanged, NEW dragging
    PROVE  OneTileEach(MoveOverlay(m, l, zoomChanged, dragging))
  <1> DEFINE ranged == [m EXCEPT !.layer[l].inRange = CalculateInRange(m, l)]
             hidden == IF m.layer[l].inRange /\ ~CalculateInRange(m, l)
                         THEN Display(ranged, l, FALSE) ELSE ranged
  <1>1. OneTileEach(ranged)
    BY OneTileSwitch
  <1>2. MoveOverlay(m, l, zoomChanged, dragging)
          \in {MoveLayer(hidden, l, zoomChanged, dragging), hidden}
    BY DEF MoveOverlay
  <1> HIDE DEF ranged
  <1>3. OneTileEach(hidden)
    BY <1>1, OneTileDisplay
  <1> HIDE DEF hidden
  <1>4. OneTileEach(MoveLayer(hidden, l, zoomChanged, dragging))
    BY <1>3, OneTileMoveLayer
  <1> QED  BY <1>2, <1>3, <1>4

LEMMA OneTileMoveLayers ==
    ASSUME NEW m, OneTileEach(m), NEW zoomChanged, NEW dragging
    PROVE  OneTileEach(MoveLayers(m, zoomChanged, dragging))
  <1> DEFINE base == IF m.layer[m.baseLayer].visibility
                       THEN MoveLayer(m, m.baseLayer, zoomChanged, dragging) ELSE m
             f == [l \in Layer |->
                     IF l \in Base \/ ~InMap(m, l) THEN base.layer[l]
                     ELSE MoveOverlay(base, l, zoomChanged, dragging).layer[l]]
  <1>1. OneTileEach(base)
    BY OneTileMoveLayer
  <1>2. MoveLayers(m, zoomChanged, dragging) = [base EXCEPT !.layer = f]
    BY DEF MoveLayers
  <1> HIDE DEF base
  <1>3. ASSUME NEW l \in Layer PROVE OneTile(l, f[l])
    <2>1. OneTileEach(MoveOverlay(base, l, zoomChanged, dragging))
      BY <1>1, OneTileMoveOverlay
    <2> QED  BY <1>1, <2>1 DEF OneTileEach
  <1>4. DOMAIN f = Layer
    OBVIOUS
  <1> HIDE DEF f
  <1> QED  BY <1>1, <1>2, <1>3, <1>4, OneTileLayers DEF OneTileEach

LEMMA OneTileMoveTo ==
    ASSUME NEW m, OneTileEach(m), NEW lonlat, NEW zoom, NEW how
    PROVE  OneTileEach(MoveTo(m, lonlat, zoom, how))
  <1> DEFINE clamped == Target(m, lonlat, zoom)
             zoomChanged == ZoomChanges(m, zoom, how)
             centerChanged == ValidLonLat(clamped) /\ clamped # m.center
             started == [m EXCEPT !.announced = @ \/ (~m.dragging /\ ~how.noEvent),
                                  !.center = IF centerChanged THEN clamped ELSE @]
             rezoomed == [started EXCEPT !.zoom = zoom, !.resolution = zoom]
             zoomed  == IF zoomChanged THEN NewRequests(rezoomed) ELSE started
             stirs == zoomChanged \/ centerChanged \/ ~how.dragging
             moved == IF stirs THEN MoveLayers(zoomed, zoomChanged, how.dragging) ELSE m
             last  == [moved EXCEPT !.announced = @ /\ (how.dragging \/ how.noEvent),
                                    !.dragging = how.dragging]
  <1>1. MoveTo(m, lonlat, zoom, how) = last
    BY DEF MoveTo, Target, ZoomChanges
  <1>2. IsMap(m)
    BY DEF OneTileEach
  <1>3. OneTileEach(started)
    <2>1. IsMap(started) /\ started.layer = m.layer
      BY <1>2 DEF IsMap
    <2> HIDE DEF started
    <2> QED  BY <2>1, OneTileElsewhere
  <1> HIDE DEF started
  <1>4. OneTileEach(rezoomed)
    <2>1. IsMap(rezoomed) /\ rezoomed.layer = started.layer
      BY <1>3 DEF OneTileEach, IsMap
    <2> HIDE DEF rezoomed
    <2> QED  BY <1>3, <2>1, OneTileElsewhere
  <1> HIDE DEF rezoomed
  <1>5. OneTileEach(zoomed)
    <2> HIDE DEF zoomChanged
    <2> QED  BY <1>3, <1>4, OneTileNewRequests
  <1> HIDE DEF zoomed
  <1>6. OneTileEach(moved)
    <2> HIDE DEF stirs, zoomChanged
    <2> QED  BY <1>5, OneTileMoveLayers
  <1> HIDE DEF moved
  <1>7. OneTileEach(last)
    <2>1. IsMap(last) /\ last.layer = moved.layer
      BY <1>6 DEF OneTileEach, IsMap
    <2> HIDE DEF last
    <2> QED  BY <1>6, <2>1, OneTileElsewhere
  <1> HIDE DEF last
  <1> QED  BY <1>1, <1>7

LEMMA OneTilePanDone ==
    ASSUME NEW m, OneTileEach(m)
    PROVE  OneTileEach(PanDone(m))
  <1> DEFINE o == MoveTo(m, m.tween.finish, m.zoom, Done)
             n == [o EXCEPT !.announced = FALSE, !.tween.playing = FALSE]
  <1>1. OneTileEach(o)
    BY OneTileMoveTo
  <1> HIDE DEF o
  <1>2. IsMap(n) /\ n.layer = o.layer
    BY <1>1 DEF OneTileEach, IsMap
  <1> HIDE DEF n
  <1>3. OneTileEach(n)
    BY <1>1, <1>2, OneTileElsewhere
  <1> QED  BY <1>3 DEF n, o, PanDone

LEMMA OneTileSetCenter ==
    ASSUME NEW m, OneTileEach(m), NEW lonlat, NEW zoom, NEW how
    PROVE  OneTileEach(SetCenter(m, lonlat, zoom, how))
  <1> DEFINE o == IF m.tween.playing THEN PanDone(m) ELSE m
  <1>1. OneTileEach(o)
    BY OneTilePanDone
  <1> HIDE DEF o
  <1>2. OneTileEach(MoveTo(o, lonlat, zoom, how))
    BY <1>1, OneTileMoveTo
  <1> QED  BY <1>2 DEF SetCenter, o

LEMMA OneTilePlay ==
    ASSUME NEW m, OneTileEach(m)
    PROVE  OneTileEach(Play(m))
  <1> DEFINE next == [m EXCEPT !.tween.time = @ + 1]
             o == MoveTo(next, Eased(m.tween), m.zoom, Step)
  <1>1. Play(m) \in {PanDone(o), o}
    BY DEF Play
  <1>2. IsMap(next) /\ next.layer = m.layer
    BY DEF OneTileEach, IsMap
  <1> HIDE DEF next
  <1>3. OneTileEach(o)
    BY <1>2, OneTileElsewhere, OneTileMoveTo
  <1> HIDE DEF o
  <1> QED  BY <1>1, <1>3, OneTilePanDone

LEMMA OneTilePanTo ==
    ASSUME NEW m, OneTileEach(m), NEW lonlat
    PROVE  OneTileEach(PanTo(m, lonlat))
  <1> DEFINE panned == [m EXCEPT !.announced = TRUE,
                                 !.tween = [playing |-> TRUE, begin |-> m.center,
                                            finish |-> lonlat, time |-> 0]]
  <1>1. PanTo(m, lonlat) \in {SetCenter(m, lonlat, None, Still), m, panned}
    BY DEF PanTo
  <1>2. IsMap(panned) /\ panned.layer = m.layer
    BY DEF OneTileEach, IsMap
  <1> HIDE DEF panned
  <1>3. OneTileEach(panned)
    BY <1>2, OneTileElsewhere
  <1> QED  BY <1>1, <1>3, OneTileSetCenter

LEMMA OneTileSetBaseLayer ==
    ASSUME NEW m, OneTileEach(m), NEW l
    PROVE  OneTileEach(SetBaseLayer(m, l))
  <1> DEFINE zoom   == IF m.baseLayer # None THEN m.zoom
                       ELSE IF m.resolution = None THEN MaxZoom ELSE m.resolution
             hidden == IF m.baseLayer = None THEN m ELSE SetVisibility(m, m.baseLayer, FALSE)
             other  == [hidden EXCEPT !.baseLayer = l]
             based  == NewRequests([hidden EXCEPT !.baseLayer = l, !.layer[l].visibility = TRUE])
  <1>1. SetBaseLayer(m, l) \in {m, based, SetCenter(based, m.center, zoom, Forced)}
    BY DEF SetBaseLayer
  <1>2. OneTileEach(hidden)
    BY OneTileSetVisibility
  <1> HIDE DEF hidden
  <1>3. OneTileEach(other)
    <2>1. IsMap(other) /\ other.layer = hidden.layer
      BY <1>2 DEF OneTileEach, IsMap
    <2> HIDE DEF other
    <2> QED  BY <1>2, <2>1, OneTileElsewhere
  <1>4. based = NewRequests([other EXCEPT !.layer[l].visibility = TRUE])
    BY <1>2 DEF OneTileEach, IsMap
  <1> HIDE DEF based, other, zoom
  <1>5. OneTileEach(based)
    BY <1>3, <1>4, OneTileSwitch, OneTileNewRequests
  <1> QED  BY <1>1, <1>5, OneTileSetCenter

LEMMA OneTileAddLayer ==
    ASSUME NEW m, OneTileEach(m), NEW l
    PROVE  OneTileEach(AddLayer(m, l))
  <1> DEFINE added == [m EXCEPT !.layers = Append(@, l)]
             range == CalculateInRange(m, l)
             ranged == [added EXCEPT !.layer[l].inRange = range]
             shown == m.layer[l].visibility /\ range
             mapped == [added EXCEPT !.layer[l].inRange = range, !.layer[l].displayed = shown]
  <1>1. AddLayer(m, l) \in {m, Redraw(mapped, l), SetBaseLayer(added, l),
                            SetVisibility(added, l, FALSE)}
    BY DEF AddLayer
  <1>2. IsMap(added) /\ added.layer = m.layer
    BY DEF OneTileEach, IsMap
  <1> HIDE DEF added
  <1>3. OneTileEach(added)
    BY <1>2, OneTileElsewhere
  <1> HIDE DEF range, shown
  <1>4. OneTileEach(ranged)
    BY <1>3, OneTileSwitch
  <1>5. mapped = [ranged EXCEPT !.layer[l].displayed = shown]
    OBVIOUS
  <1> HIDE DEF ranged, mapped
  <1>6. OneTileEach(mapped)
    BY <1>4, <1>5, OneTileSwitch
  <1> QED  BY <1>1, <1>3, <1>6, OneTileRedraw, OneTileSetBaseLayer, OneTileSetVisibility

LEMMA OneTileRemoveLayer ==
    ASSUME NEW m, OneTileEach(m), NEW l
    PROVE  OneTileEach(RemoveLayer(m, l))
  <1> DEFINE removed == [m EXCEPT !.layers = RemoveItem(@, l),
                                  !.baseLayer = IF @ = l THEN None ELSE @]
  <1>1. \E b : RemoveLayer(m, l) \in {SetBaseLayer(removed, b), removed}
    BY DEF RemoveLayer
  <1>2. IsMap(removed) /\ removed.layer = m.layer
    BY DEF OneTileEach, IsMap
  <1> HIDE DEF removed
  <1>3. OneTileEach(removed)
    BY <1>2, OneTileElsewhere
  <1> QED  BY <1>1, <1>3, OneTileSetBaseLayer

LEMMA OneTileUpdateSize ==
    ASSUME NEW m, OneTileEach(m), NEW size
    PROVE  OneTileEach(UpdateSize(m, size))
  <1> DEFINE f == [l \in Layer |-> IF InMap(m, l) THEN OnMapResize(m.layer[l], l \in SingleTile)
                                   ELSE m.layer[l]]
             sized == [m EXCEPT !.size = size]
             resized == [m EXCEPT !.size = size, !.layer = f]
             zoomless == [resized EXCEPT !.zoom = None]
  <1>1. UpdateSize(m, size) \in {resized, SetCenter(zoomless, m.center, m.zoom, Still)}
    BY DEF UpdateSize
  <1>2. ASSUME NEW l, NEW s, OneTile(l, s) PROVE OneTile(l, OnMapResize(s, l \in SingleTile))
    <2> SUFFICES ASSUME l \in SingleTile PROVE OneTile(l, OnMapResize(s, l \in SingleTile))
      BY DEF OneTile
    <2> DEFINE number == s.numLoadingTiles + LoadStarts(<<>>, <<>>) - Unloads(s.grid, 0)
    <2>1. OnMapResize(s, l \in SingleTile) = [s EXCEPT !.grid = <<>>, !.numLoadingTiles = number]
      BY DEF OnMapResize, Replace
    <2> HIDE DEF number
    <2>2. "grid" \in DOMAIN s
      BY <1>2 DEF OneTile
    <2>3. /\ "grid" \in DOMAIN OnMapResize(s, l \in SingleTile)
          /\ OnMapResize(s, l \in SingleTile).grid = <<>>
      BY <2>1, <2>2
    <2> QED  BY <2>3 DEF OneTile
  <1>3. DOMAIN f = Layer /\ \A l \in Layer : OneTile(l, f[l])
    BY <1>2 DEF OneTileEach
  <1> HIDE DEF f
  <1>4. IsMap(sized) /\ resized = [sized EXCEPT !.layer = f]
    BY DEF OneTileEach, IsMap
  <1> HIDE DEF sized, resized
  <1>5. OneTileEach(resized)
    BY <1>3, <1>4, OneTileLayers
  <1>6. IsMap(zoomless) /\ zoomless.layer = resized.layer
    BY <1>5 DEF OneTileEach, IsMap
  <1> HIDE DEF zoomless
  <1>7. OneTileEach(zoomless)
    BY <1>5, <1>6, OneTileElsewhere
  <1> QED  BY <1>1, <1>5, <1>7, OneTileSetCenter

LEMMA OneTileAddLayers ==
    ASSUME NEW m, OneTileEach(m), NEW layers \in Seq(Layer)
    PROVE  OneTileEach(AddLayers(m, layers))
  <1>1. PICK f : /\ f[0] = m
                 /\ \A k \in 1 .. Len(layers) : f[k] = AddLayer(f[k - 1], layers[k])
                 /\ AddLayers(m, layers) = f[Len(layers)]
    BY AddLayersAdds
  <1> DEFINE Bad == {k \in 0 .. Len(layers) : ~OneTileEach(f[k])}
  <1>2. 0 \notin Bad
    BY <1>1
  <1>3. ASSUME NEW k \in Bad PROVE k - 1 \in Bad
    <2>1. k \in 1 .. Len(layers) /\ k - 1 \in 0 .. Len(layers)
      BY <1>2
    <2>2. f[k] = AddLayer(f[k - 1], layers[k])
      BY <1>1, <2>1
    <2> QED  BY <2>1, <2>2, OneTileAddLayer
  <1>4. Bad \subseteq Nat
    OBVIOUS
  <1>5. Bad = {}
    <2> HIDE DEF Bad
    <2> QED  BY <1>2, <1>3, <1>4, Descent
  <1>6. Len(layers) \in 0 .. Len(layers)
    OBVIOUS
  <1> QED  BY <1>1, <1>5, <1>6

LEMMA InitOneTile == Init => OneTileEach(map)
  <1> SUFFICES ASSUME Init PROVE OneTileEach(map)
    OBVIOUS
  <1> DEFINE fresh(page) == NewMap(page.restrictedExtent, page.size)
             added(page) == AddLayers(fresh(page), page.layers)
  <1>1. PICK page \in Pages :
          map \in {added(page), SetCenter(added(page), page.center, MaxZoom, Still)}
    BY DEF Init
  <1>2. page.layers \in Seq(Layer)
    BY MapViewAssumption
  <1>3. OneTileEach(fresh(page))
    <2>1. IsMap(fresh(page)) /\ fresh(page).layer = [l \in Layer |-> NewLayer]
      BY DEF NewMap, IsMap
    <2> HIDE DEF fresh
    <2> QED  BY <2>1 DEF OneTileEach, OneTile, NewLayer
  <1> HIDE DEF fresh
  <1>4. OneTileEach(added(page))
    BY <1>2, <1>3, OneTileAddLayers
  <1> HIDE DEF added
  <1> QED  BY <1>1, <1>4, OneTileSetCenter

\* The drag is nothing to the layers.
LEMMA OneTileDrag ==
    ASSUME NEW m, OneTileEach(m), NEW x
    PROVE  OneTileEach([m EXCEPT !.drag = x])
  <1> DEFINE n == [m EXCEPT !.drag = x]
  <1>1. IsMap(n) /\ n.layer = m.layer
    BY DEF OneTileEach, IsMap
  <1> HIDE DEF n
  <1>2. OneTileEach(n)
    BY <1>1, OneTileElsewhere
  <1> QED  BY <1>2 DEF n

LEMMA OneTileEnds ==
    ASSUME NEW m, OneTileEach(m), NEW l \in Layer, NEW k, NEW t
    PROVE  OneTileEach(MapEnded(m, l, k, t))
  <1> DEFINE s == m.layer[l]
             r == TileEnded(s, k, t)
             new == [m.layer EXCEPT ![l] = r]
  <1>1. MapEnded(m, l, k, t) = [m EXCEPT !.layer = new]
    BY DEF OneTileEach, IsMap, MapEnded, TileEnded
  <1>2. OneTile(l, s)
    BY DEF OneTileEach
  <1>3. OneTile(l, r)
    <2> DEFINE grid == [s.grid EXCEPT ![k] = t]
               number == IF s.grid[k].isLoading /\ ~t.isLoading
                           THEN s.numLoadingTiles - 1 ELSE s.numLoadingTiles
    <2>1. r = [s EXCEPT !.grid = grid, !.numLoadingTiles = number] /\ DOMAIN grid = DOMAIN s.grid
      BY DEF TileEnded
    <2> HIDE DEF s, r, grid, number
    <2> QED  BY <1>2, <2>1 DEF OneTile
  <1> HIDE DEF r
  <1>4. OneTileEach([m EXCEPT !.layer = new])
    BY <1>3, OneTileLayer
  <1> QED  BY <1>1, <1>4

LEMMA NextOneTile == OneTileEach(map) /\ [Next]_vars => OneTileEach(map')
  <1> SUFFICES ASSUME OneTileEach(map), [Next]_vars
               PROVE  OneTileEach(map')
    OBVIOUS
  <1>1. ASSUME NEW lonlat, CallPanTo(lonlat) PROVE OneTileEach(map')
    BY <1>1, OneTilePanTo DEF CallPanTo, Called
  <1>2. ASSUME NEW lonlat, MouseMove(lonlat) PROVE OneTileEach(map')
    <2> DEFINE n == SetCenter(map, lonlat, None, Dragged)
    <2>1. map' = [n EXCEPT !.drag.moved = TRUE]
      BY <1>2 DEF MouseMove, Called
    <2>2. OneTileEach(n)
      BY OneTileSetCenter
    <2> HIDE DEF n
    <2> QED  BY <2>1, <2>2, OneTileDrag
  <1>3. ASSUME NEW lonlat, NEW zoom, CallSetCenter(lonlat, zoom) PROVE OneTileEach(map')
    BY <1>3, OneTileSetCenter DEF CallSetCenter, Called
  <1>4. ASSUME NEW l, CallAddLayer(l) PROVE OneTileEach(map')
    BY <1>4, OneTileAddLayer DEF CallAddLayer, Called
  <1>5. ASSUME NEW l, CallRemoveLayer(l) PROVE OneTileEach(map')
    BY <1>5, OneTileRemoveLayer DEF CallRemoveLayer, Called
  <1>6. ASSUME NEW l, ChooseBaseLayer(l) PROVE OneTileEach(map')
    BY <1>6, OneTileSetBaseLayer DEF ChooseBaseLayer, Called
  <1>7. ASSUME NEW l, SwitchOverlay(l) PROVE OneTileEach(map')
    <2> DEFINE v == ~map.layer[l].visibility
    <2>1. map' = SetVisibility(map, l, v)
      BY <1>7 DEF SwitchOverlay, Called
    <2> HIDE DEF v
    <2> QED  BY <2>1, OneTileSetVisibility
  <1>8. ASSUME NEW size, ResizeWindow(size) PROVE OneTileEach(map')
    BY <1>8, OneTileUpdateSize DEF ResizeWindow, Called
  <1>9. CASE MouseDown
    BY <1>9, OneTileDrag DEF MouseDown
  <1>10. CASE MouseUp
    <2> DEFINE up == [map EXCEPT !.drag = [started |-> FALSE, moved |-> FALSE]]
    <2>1. OneTileEach(up)
      BY OneTileDrag
    <2>2. map' = up \/ \E lonlat : map' = SetCenter(up, lonlat, None, Still)
      BY <1>10 DEF MouseUp
    <2> HIDE DEF up
    <2> QED  BY <2>1, <2>2, OneTileSetCenter
  <1>11. CASE Deactivate
    BY <1>11, OneTileDrag DEF Deactivate
  <1>12. CASE Tick
    BY <1>12, OneTilePlay DEF Tick
  <1>13. ASSUME NEW l \in Layer, NEW k, ImageLoad(l, k) \/ ImageError(l, k)
         PROVE  OneTileEach(map')
    <2>1. \E t : ImageEnds(l, k, t)
      BY <1>13 DEF ImageLoad, ImageError
    <2>2. \E t : map' = MapEnded(map, l, k, t)
      BY <2>1 DEF ImageEnds, MapEnded
    <2> QED  BY <2>2, OneTileEnds
  <1>14. CASE UNCHANGED vars
    BY <1>14 DEF vars
  <1> QED  BY <1>1, <1>2, <1>3, <1>4, <1>5, <1>6, <1>7, <1>8, <1>9, <1>10, <1>11, <1>12,
              <1>13, <1>14 DEF Next

-----------------------------------------------------------------------------
(***************************************************************************)
(* The theorems.                                                           *)
(***************************************************************************)
\* The inductive invariant: the map is at rest between two handlers.
MapAtRest == AtRest(map)

LEMMA InitAtRest == Init => MapAtRest
  BY InitRests DEF MapAtRest

LEMMA NextAtRest == MapAtRest /\ [Next]_vars => MapAtRest'
  BY NextFollows DEF Follows, MapAtRest

\* Whoever was told that the map starts to move was told that it stopped, however
\* moves, drags, pans, layers and sizes follow on each other.
THEOREM MovesAreEnded == Spec => []MovesEnd
  <1>1. MapAtRest => MovesEnd
    BY DEF MapAtRest, AtRest, MovesEnd
  <1> QED  BY <1>1, InitAtRest, NextAtRest, PTL DEF Spec

\* A map with a restrictedExtent shows nothing else, whatever the widths of the tiles
\* and of the window are.
THEOREM MapStaysRestricted == Spec => []StaysRestricted
  <1>1. MapAtRest => StaysRestricted
    BY SettledFits DEF MapAtRest, AtRest, Steady, StaysRestricted
  <1> QED  BY <1>1, InitAtRest, NextAtRest, PTL DEF Spec

\* Adding, removing and changing layers leaves the view alone.
THEOREM ViewIsKept == Spec => ViewKept
  <1> DEFINE Keeps == /\ LayersChange /\ map.resolution # None
                      /\ map.baseLayer # None \/ map.restrictedExtent = Unrestricted
                      => <<map'.center, map'.zoom>> = <<map.center, map.zoom>>
  <1>1. MapAtRest /\ [Next]_vars => Keeps
    BY NextFollows DEF MapAtRest, Follows, LayersChange
  <1>2. MapAtRest /\ [Next]_vars => [Keeps]_vars
    BY <1>1
  <1> QED  BY <1>2, InitAtRest, NextAtRest, PTL DEF Spec, ViewKept

\* The inductive invariant: between two handlers the map is sound.
MapSound ==
    Sound(map) /\ OneTileEach(map) /\ moves \in 0 .. MaxMoves /\ failures \in 0 .. MaxFailures

LEMMA InitMapSound == Init => MapSound
  BY InitSound, InitOneTile, MapViewAssumption DEF Init, MapSound

LEMMA NextMapSound == MapSound /\ [Next]_vars => MapSound'
  <1> SUFFICES ASSUME MapSound, [Next]_vars PROVE MapSound'
    OBVIOUS
  <1>1. Sound(map') /\ OneTileEach(map')
    BY NextSound, NextOneTile DEF MapSound
  <1>2. /\ moves' = moves \/ (moves < MaxMoves /\ moves' = moves + 1)
        /\ failures' = failures \/ (failures < MaxFailures /\ failures' = failures + 1)
    BY DEF Next, vars, Called, CallPanTo, MouseMove, CallSetCenter, CallAddLayer,
           CallRemoveLayer, ChooseBaseLayer, SwitchOverlay, ResizeWindow, MouseDown, MouseUp,
           Deactivate, Tick, ImageLoad, ImageError, ImageEnds
  <1>3. MaxMoves \in Nat /\ MaxFailures \in Nat
    BY MapViewAssumption
  <1>4. moves' \in 0 .. MaxMoves
    BY <1>2, <1>3 DEF MapSound
  <1>5. failures' \in 0 .. MaxFailures
    BY <1>2, <1>3 DEF MapSound
  <1> QED  BY <1>1, <1>4, <1>5 DEF MapSound

\* A layer on the screen is one the user is to see, so its tiles fit the view.
LEMMA OnScreenFits ==
    ASSUME Sound(map), NEW l \in Layer, OnScreen(l)
    PROVE  /\ FitsIn(l, map.layer[l].grid, TileView(map), map.size, map.dragging)
           /\ TileView(map).tile = Resolution(map.zoom)
  <1>1. /\ InMap(map, l) /\ HasExtent(map) /\ map.layer[l].displayed
        /\ map.layer \in [Layer -> LayerState] /\ Shown(map, l) /\ LayerTiled(map, l)
    BY DEF OnScreen, Sound, Whole, Drawn, AllShown, Tiled
  <1>2. map.layer[l].visibility
    BY <1>1 DEF LayerState
  <1>3. Active(map, l)
    BY <1>1, <1>2 DEF Shown, Active
  <1> QED  BY <1>1, <1>3 DEF LayerTiled, TileView, View

\* What the map and its layers are.
THEOREM MapTypeCorrect == Spec => []TypeOK
  <1>1. MapSound => TypeOK
    <2> SUFFICES ASSUME MapSound PROVE TypeOK
      OBVIOUS
    <2>1. /\ Sound(map) /\ AtRest(map) /\ Steady(map) /\ Placed(map) /\ Listed(map)
          /\ Timed(map) /\ Drawn(map) /\ moves \in 0 .. MaxMoves /\ failures \in 0 .. MaxFailures
      BY DEF MapSound, Sound, Whole, AtRest, Steady
    <2>2. map.layers \in Seq(Layer) /\ map.baseLayer \in Base \cup {None}
      BY <2>1 DEF Listed
    <2>3. map.center \in (0 .. Extent) \cup {None} /\ map.size \in Sizes
      BY <2>1 DEF Placed
    <2>4. map.zoom \in Zoom /\ map.resolution \in Zoom \cup {None}
      BY <2>1, ZoomIsInt DEF AtRest, Steady
    <2>5. map.tween.time \in 0 .. Duration + 1
      BY <2>1 DEF Timed
    <2>6. ASSUME NEW l \in Layer
          PROVE  /\ map.layer[l].numLoadingTiles \in Nat
                 /\ DOMAIN map.layer[l].grid \subseteq Columns
      <3>1. map.layer[l] \in LayerState
        BY <2>1 DEF Drawn
      <3> QED  BY <3>1, LoadingFinite DEF LayerState
    <2> QED  BY <2>1, <2>2, <2>3, <2>4, <2>5, <2>6 DEF TypeOK
  <1> QED  BY <1>1, InitMapSound, NextMapSound, PTL DEF Spec

\* The counter of a layer, that goes up and down with the events of its tiles, is the
\* number of those that load, and the browser owes an answer to each: whatever is moved,
\* switched, added and resized while images arrive, fail, and are asked for again.
THEOREM LoadingIsCounted == Spec => []LoadingCounted
  <1>1. MapSound => LoadingCounted
    <2> SUFFICES ASSUME MapSound, NEW l \in Layer
                 PROVE  /\ map.layer[l].numLoadingTiles = LoadingIn(map.layer[l].grid)
                        /\ \A k \in DOMAIN map.layer[l].grid :
                             map.layer[l].grid[k].isLoading => map.layer[l].grid[k].pending
      BY DEF LoadingCounted
    <2> DEFINE s == map.layer[l]
    <2>1. s \in LayerState
      BY DEF MapSound, Sound, Whole, Drawn
    <2> HIDE DEF s
    <2>2. /\ s.numLoadingTiles = LoadingIn(s.grid)
          /\ \A k \in DOMAIN s.grid : s.grid[k] \in GoodTile
      BY <2>1 DEF LayerState
    <2>3. \A k \in DOMAIN s.grid : s.grid[k].isLoading => s.grid[k].pending
      BY <2>2 DEF GoodTile
    <2> QED  BY <2>2, <2>3 DEF s
  <1> QED  BY <1>1, InitMapSound, NextMapSound, PTL DEF Spec

\* A picture on the screen is the one its tile asked for last, at its place and in the
\* scale of the view.
THEOREM PicturesFit == Spec => []PictureFits
  <1>1. MapSound => PictureFits
    <2> SUFFICES ASSUME MapSound, NEW l \in Layer, OnScreen(l),
                        NEW k \in DOMAIN map.layer[l].grid
                 PROVE  LET tile == map.layer[l].grid[k]
                        IN  /\ tile.frame /\ tile.visible => tile.image = tile.bounds
                            /\ tile.frame /\ tile.visible /\ tile.isLoading => tile.attempts > 0
                            /\ l \notin SingleTile =>
                                 tile.bounds.right - tile.bounds.left = Resolution(map.zoom)
      BY DEF PictureFits
    <2>1. map.layer[l].grid \in Seq(GoodTile)
      BY DEF MapSound, Sound, Whole, Drawn, LayerState
    <2>2. map.layer[l].grid[k] \in GoodTile
      BY <2>1
    <2>3. ASSUME l \notin SingleTile
          PROVE  map.layer[l].grid[k].bounds.right - map.layer[l].grid[k].bounds.left
                   = Resolution(map.zoom)
      <3>1. /\ GridFits(map.layer[l].grid, TileView(map), map.size)
            /\ TileView(map).tile = Resolution(map.zoom)
        BY <2>3, OnScreenFits DEF MapSound, FitsIn
      <3>2. map.layer[l].grid[k].bounds.right
              = map.layer[l].grid[k].bounds.left + Resolution(map.zoom)
        BY <3>1 DEF GridFits, Row, Columned
      <3>3. map.layer[l].grid[k].bounds.left \in Int
        BY <2>2 DEF GoodTile, Tile, Bounds
      <3> QED  BY <3>2, <3>3, ResolutionPositive
    <2> QED  BY <2>2, <2>3 DEF GoodTile
  <1> QED  BY <1>1, InitMapSound, NextMapSound, PTL DEF Spec

\* The tiles of a layer on the screen adjoin and cover the view.
THEOREM ViewIsCovered == Spec => []CoversView
  <1>1. MapSound => CoversView
    <2> SUFFICES ASSUME MapSound, NEW l \in Layer, OnScreen(l),
                        l \in SingleTile => ~map.dragging
                 PROVE  LET grid == map.layer[l].grid
                        IN  /\ grid # <<>>
                            /\ Covers(TilesBounds(grid), View(map.center, map.zoom, map.size))
                            /\ \A k \in 1 .. Len(grid) - 1 :
                                 grid[k].bounds.right = grid[k + 1].bounds.left
      BY DEF CoversView
    <2> DEFINE grid == map.layer[l].grid
    <2>1. grid \in Seq(GoodTile)
      BY DEF MapSound, Sound, Whole, Drawn, LayerState
    <2>2. FitsIn(l, grid, TileView(map), map.size, map.dragging)
      BY OnScreenFits DEF MapSound
    <2>3. TileView(map) = View(map.center, map.zoom, map.size)
      BY DEF TileView
    <2> HIDE DEF grid
    <2>4. CASE l \in SingleTile
      <3>1. grid # <<>> /\ Covers(TilesBounds(grid), TileView(map))
        BY <2>2, <2>4 DEF FitsIn, SingleFits
      <3>2. DOMAIN grid \subseteq {1}
        BY <2>4 DEF MapSound, OneTileEach, OneTile, grid
      <3>3. 1 .. Len(grid) - 1 = {}
        <4>1. DOMAIN grid = 1 .. Len(grid) /\ Len(grid) \in Nat
          BY <2>1
        <4>2. 2 \notin DOMAIN grid
          BY <3>2
        <4> QED  BY <4>1, <4>2
      <3> QED  BY <2>3, <3>1, <3>3 DEF grid
    <2>5. CASE l \notin SingleTile
      <3>1. GridFits(grid, TileView(map), map.size)
        BY <2>2, <2>5 DEF FitsIn
      <3>2. grid # <<>>
        <4>1. MinCols(map.size) \in Nat \ {0} /\ Len(grid) >= MinCols(map.size)
          <5>1. map.size \in Nat \ {0} /\ Buffer \in Nat
            BY MapTilesAssumption, MapViewAssumption DEF MapSound, Sound, AtRest, Steady, Placed
          <5> QED  BY <3>1, <5>1 DEF GridFits, MinCols
        <4> QED  BY <2>1, <4>1
      <3> QED  BY <2>3, <3>1, <3>2 DEF GridFits, Row, Columned, grid
    <2> QED  BY <2>4, <2>5
  <1> QED  BY <1>1, InitMapSound, NextMapSound, PTL DEF Spec

=============================================================================
