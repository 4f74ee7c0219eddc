------------------------------- MODULE MapTiles -------------------------------
(***************************************************************************)
(* The tiles of a map layer (OpenLayers.Layer.Grid and Tile.Image, as the  *)
(* pages under data/release/www load them): which part of the world each   *)
(* tile covers, which image it shows, which images are still loading, and  *)
(* how a move of the map turns one grid into the next.                     *)
(*                                                                         *)
(* The world is a line from 0 to Extent, so a grid is one row of tiles; a  *)
(* window is some tiles wide.  Operators only: a layer before a call, and  *)
(* the layer after it.                                                     *)
(***************************************************************************)
EXTENDS Integers, SequencesExt

CONSTANTS
    Extent,      \* maxExtent is 0 .. Extent
    MaxZoom,     \* zoom levels are 0 .. MaxZoom
    TileWidth,   \* TileWidth[z]: how much of the world a tile shows at zoom z, in a
                 \* unit so small that half of it is a number too
    Buffer,      \* the option buffer of a grid: columns beyond the view
    Attempts     \* IMAGE_RELOAD_ATTEMPTS

ASSUME MapTilesAssumption ==
    /\ Extent \in Nat \ {0}
    /\ MaxZoom \in Nat
    /\ TileWidth \in [0 .. MaxZoom -> Nat \ {0}]
    /\ \A zoom \in 0 .. MaxZoom : TileWidth[zoom] % 2 = 0
    /\ Buffer \in Nat
    /\ Attempts \in Nat

NoImage == [left |-> 0, right |-> 0]

\* The width of a tile.  A zoom that is null counts as 0 (Layer.getResolutionForZoom).
Resolution(zoom) == TileWidth[IF zoom \in 0 .. MaxZoom THEN zoom ELSE 0]

\* What a window of some tiles shows (calculateBounds), and how wide a tile is.
View(center, zoom, size) ==
    LET tile == Resolution(zoom)
    IN  [left |-> center - (size * tile) \div 2, right |-> center + (size * tile) \div 2,
         tile |-> tile]

\* A picture, or a grid, and the part of it a view shows.
Covers(a, b) == a.left <= b.left /\ b.right <= a.right

\* containsBounds(bounds, true): an edge of b is inside a.
Touches(a, b) ==
    \/ a.left <= b.left /\ b.left <= a.right
    \/ a.left <= b.right /\ b.right <= a.right

-----------------------------------------------------------------------------
(***************************************************************************)
(* One tile.                                                               *)
(***************************************************************************)

NewTile(bounds) ==
    [bounds |-> bounds, shouldDraw |-> FALSE, isLoading |-> FALSE,
     frame |-> TRUE,         \* the frame is displayed
     image |-> NoImage,      \* the bounds that were asked for, in the end
     visible |-> FALSE,      \* the image in the frame is displayed
     current |-> FALSE,      \* viewRequestID is the one of the map
     pending |-> FALSE,      \* the browser has yet to tell how the image ended
     attempts |-> 0]

WithinMaxExtent(bounds) == bounds.left < Extent /\ bounds.right > 0

\* Mutant: the tile is not cleared.
DrawUncleared(tile) ==
    LET draw == WithinMaxExtent(tile.bounds)
    IN  IF draw
          THEN [tile EXCEPT !.shouldDraw = draw, !.isLoading = TRUE,
                            !.image = tile.bounds, !.current = TRUE,
                            !.pending = TRUE]
          ELSE [tile EXCEPT !.shouldDraw = draw]

\* Tile.Image.draw: the old image is hidden; the new one is asked for unless it
\* lies outside of the world.
Draw(tile) ==
    LET draw    == WithinMaxExtent(tile.bounds)
        cleared == [tile EXCEPT !.shouldDraw = draw,
                                !.frame = @ /\ tile.image = NoImage]
    IN  IF draw
          THEN [cleared EXCEPT !.isLoading = TRUE, !.image = tile.bounds,
                               !.current = TRUE, !.pending = TRUE]
          ELSE cleared

\* The onload function of initImgDiv, with showTile.
OnLoad(tile) ==
    [tile EXCEPT !.isLoading = FALSE,
                 !.frame = @ \/ (tile.isLoading /\ tile.shouldDraw)]

\* The image arrived: it is displayed if it is of the present zoom.
ImageLoaded(tile) ==
    OnLoad([tile EXCEPT !.pending = FALSE, !.visible = @ \/ tile.current])

\* It did not: after Attempts repetitions the tile counts as loaded.  What
\* _attempts counts beyond is never looked at.
ImageFailed(tile) ==
    LET tried == [tile EXCEPT !.visible = TRUE,
                              !.attempts = IF @ > Attempts THEN @ ELSE @ + 1]
    IN  IF tried.attempts <= Attempts
            THEN tried
            ELSE OnLoad([tried EXCEPT !.pending = FALSE])

-----------------------------------------------------------------------------
(***************************************************************************)
(* A layer: its grid, and how many tiles of it are loading.                *)
(***************************************************************************)

NewLayer ==
    [visibility |-> TRUE, inRange |-> FALSE,
     displayed |-> TRUE,     \* the style of its element
     numLoadingTiles |-> 0, grid |-> <<>>]

LoadingIn(tiles) == Cardinality({k \in DOMAIN tiles : tiles[k].isLoading})

\* Mutant: a tile that gets another image while it loads starts once more.
LoadStartsAndReloads(placed, drawn) ==
    Cardinality({k \in DOMAIN drawn : drawn[k].pending /\ drawn[k] # placed[k]})

\* The tiles that start to load when a grid is drawn: Tile.Image.draw triggers
\* "loadstart" for a tile that was not loading, and "reload", which nobody counts,
\* for one that gets another image while it loads.
LoadStarts(placed, drawn) ==
    Cardinality({k \in DOMAIN drawn : drawn[k].isLoading /\ ~placed[k].isLoading})

\* Mutant: a tile that is removed is not unloaded.
UnloadsNone(tiles, n) == 0

\* removeTileMonitoringHooks unloads each tile but the first n: one that is loading
\* triggers "unload".
Unloads(tiles, n) == Cardinality({k \in DOMAIN tiles : k > n /\ tiles[k].isLoading})

\* The first n tiles stay; they and the new ones, in their places, are drawn.  The
\* hooks of addTileMonitoringHooks count up with each "loadstart", and down with
\* each "unload".
Replace(layer, n, placed, drawn) ==
    [layer EXCEPT !.grid = drawn,
                  !.numLoadingTiles =
                     @ + LoadStarts(placed, drawn) - Unloads(layer.grid, n)]

\* The viewRequestID of the map is another one.
Stale(layer) == [layer EXCEPT !.grid = [k \in DOMAIN @ |-> [@[k] EXCEPT !.current = FALSE]]]

\* getTilesBounds
TilesBounds(grid) ==
    [left |-> Head(grid).bounds.left, right |-> Last(grid).bounds.right]

\* initGriddedTiles: as many columns as the view and the buffers need; the tiles
\* there are, are moved, others made or removed, and all of them drawn
\* (spiralTileLoad).
InitGriddedTiles(layer, view) ==
    LET width   == view.tile
        minCols == (view.right - view.left) \div width + IF Buffer = 0 THEN 1 ELSE 2 * Buffer
        first   == (view.left \div width) - Buffer
        needed  == ((view.right + width * Buffer) \div width) - first + 1
        columns == IF needed > minCols THEN needed ELSE minCols
        bounds(k) == [left |-> (first + k - 1) * width, right |-> (first + k) * width]
        kept    == IF Len(layer.grid) < columns THEN Len(layer.grid) ELSE columns
        placed  == [k \in 1 .. columns |->
                      IF k <= kept THEN [layer.grid[k] EXCEPT !.bounds = bounds(k)]
                                   ELSE NewTile(bounds(k))]
    IN  Replace(layer, kept, placed, [k \in 1 .. columns |-> Draw(placed[k])])

\* Layer.Grid.onMapResize, with clearGrid: a layer of one tile drops it.
OnMapResize(layer, singleTile) ==
    IF singleTile THEN Replace(layer, 0, <<>>, <<>>) ELSE layer

\* initSingleTile: one tile, half as wide again as the view.
InitSingleTile(layer, view) ==
    LET margin == (view.right - view.left) \div 4
        bounds == [left |-> view.left - margin, right |-> view.right + margin]
        tile   == IF layer.grid = <<>> THEN NewTile(bounds)
                  ELSE [Head(layer.grid) EXCEPT !.bounds = bounds]
    IN  Replace(layer, 1, <<tile>>, <<Draw(tile)>>)

\* shiftColumn: the tile farthest away gets the next bounds on the other side.
ShiftColumn(layer, prepend, width) ==
    LET old   == layer.grid
        next  == IF prepend THEN Head(old).bounds ELSE Last(old).bounds
        delta == IF prepend THEN -width ELSE width
        tile  == [(IF prepend THEN Last(old) ELSE Head(old)) EXCEPT
                    !.bounds = [left |-> next.left + delta, right |-> next.right + delta]]
        shifted(t) == IF prepend THEN <<t>> \o Front(old) ELSE Append(Tail(old), t)
    IN  Replace(layer, Len(old), shifted(tile), shifted(Draw(tile)))

\* Mutant: columns are shifted towards one side only.
ShiftForward(layer, view) ==
    LET width  == view.tile
        buffer == IF Buffer = 0 THEN 1 ELSE Buffer
        offset == Head(layer.grid).bounds.left - view.left
    IN  IF offset < -width * buffer THEN ShiftColumn(layer, FALSE, width) ELSE layer

\* One round of the loop of moveGriddedTiles; the last one changes nothing.
ShiftIfNeeded(layer, view) ==
    LET width  == view.tile
        buffer == IF Buffer = 0 THEN 1 ELSE Buffer
        offset == Head(layer.grid).bounds.left - view.left
    IN  IF offset > -width * (buffer - 1) THEN ShiftColumn(layer, TRUE, width)
        ELSE IF offset < -width * buffer  THEN ShiftColumn(layer, FALSE, width)
        ELSE layer

\* moveGriddedTiles.  (As many rounds as there may be needed; a recursive function,
\* so that it can be proved about.)
MoveGriddedTiles(layer, view) ==
    LET rounds == Len(layer.grid) + 1
        shifted[k \in 0 .. rounds] ==
            IF k = 0 THEN layer ELSE ShiftIfNeeded(shifted[k - 1], view)
    IN  shifted[rounds]

\* Layer.Grid.moveTo
GridMoveTo(layer, singleTile, view, zoomChanged, dragging) ==
    LET forceReTile == layer.grid = <<>> \/ zoomChanged
        bounds == TilesBounds(layer.grid)
    IN  IF singleTile
          THEN IF forceReTile \/ (~dragging /\ ~Covers(bounds, view))
                 THEN InitSingleTile(layer, view)
                 ELSE layer
          ELSE IF forceReTile \/ ~Touches(bounds, view)
                 THEN InitGriddedTiles(layer, view)
                 ELSE MoveGriddedTiles(layer, view)

=============================================================================
