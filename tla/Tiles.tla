------------------------------- MODULE Tiles -------------------------------
(***************************************************************************)
(* The tile arithmetic of scan.c and display.c.  The screen is cut into    *)
(* NumTiles columns and into rows of NumTiles lines (NUM_SCANLINES and     *)
(* NUM_HORIZONTAL_TILES are both 32).  A scan compares pixels, marks       *)
(* tiles, grows and merges the marks, and reports rectangles.  Columns,    *)
(* rows, pixels and lines are numbered from 0.                             *)
(***************************************************************************)
EXTENDS Integers, FiniteSets

CONSTANT NumTiles

ASSUME TilesAssumption == NumTiles \in Nat \ {0}

Columns == 0..(NumTiles - 1)
SCAN_ROW_THRESHOLD == NumTiles \div 2

NumVerticalTiles(h) == (h + NumTiles - 1) \div NumTiles

-----------------------------------------------------------------------------
(* Which tiles changed *)

\* display_find_changed_tiles and display_scan_whole_screen cut a line of w
\* pixels into NumTiles runs of w/NumTiles; the last one takes the rest.
ColumnPixels(w, j) ==
    LET len == w \div NumTiles
    IN (j * len)..(IF j = NumTiles - 1 THEN w - 1 ELSE (j + 1) * len - 1)

\* The columns in which line y differs, given the pixels that differ
\* (pairs <<x, y>>).
ChangedColumns(diff, w, y) ==
    {j \in Columns : \E x \in ColumnPixels(w, j) : <<x, y>> \in diff}

\* scanner_periodic compares one line of every row of tiles.
PeriodicTiles(diff, w, h, line) ==
    [i \in 0..(NumVerticalTiles(h) - 1) |->
        LET y == i * NumTiles + line
        IN IF y >= h THEN {} ELSE ChangedColumns(diff, w, y)]

\* display_scan_whole_screen compares every line, rows of tiles being equal
\* shares of the height.
WholeScreenLines(h, i) ==
    ((i * h) \div NumVerticalTiles(h))..(((i + 1) * h) \div NumVerticalTiles(h) - 1)

WholeScreenTiles(diff, w, h) ==
    [i \in 0..(NumVerticalTiles(h) - 1) |->
        UNION {ChangedColumns(diff, w, y) : y \in WholeScreenLines(h, i)}]

\* tiles_changed_in_row: a periodic scan counts tiles, a whole-screen scan
\* counts a tile once for every line of it that changed.
TileCounts(tiles) == [i \in DOMAIN tiles |-> Cardinality(tiles[i])]

WholeScreenCounts(diff, w, h) ==
    [i \in 0..(NumVerticalTiles(h) - 1) |->
        Cardinality({tile \in Columns \X WholeScreenLines(h, i) :
                        tile[1] \in ChangedColumns(diff, w, tile[2])})]

-----------------------------------------------------------------------------
(* grow_changed_tiles *)

\* Does unmarked tile j become marked, when the loop over a row has grown the
\* tiles to its left already?
Grows(marked, grown, j) ==
    /\ j \notin marked
    /\ IF j = 0 THEN 1 \in marked
       ELSE IF j = NumTiles - 1 THEN j - 1 \in grown
       ELSE j - 1 \in grown /\ j + 1 \in marked

\* The loop works in place, from left to right.
GrowLoop(marked) ==
    CHOOSE grown \in SUBSET Columns :
        \A j \in Columns : j \in grown <=> j \in marked \/ Grows(marked, grown, j)

\* The row's marks and count afterwards; a count of NumTiles means "all of it".
GrowRow(marked, count) ==
    IF count = 0 \/ count = NumTiles
    THEN [marked |-> marked, count |-> count]
    ELSE IF count > SCAN_ROW_THRESHOLD
    THEN [marked |-> marked, count |-> NumTiles]
    ELSE LET grown == GrowLoop(marked)
             n     == count + Cardinality(grown \ marked)
         IN [marked |-> grown,
             count  |-> IF n > SCAN_ROW_THRESHOLD THEN NumTiles ELSE n]

-----------------------------------------------------------------------------
(* push_changed_tiles: the rectangles of tiles it pushes, each with the function it is from *)

\* The maximal runs of consecutive numbers of a set
Runs(S) ==
    {run \in [first : S, last : S] :
        /\ run.first <= run.last /\ run.first..run.last \subseteq S
        /\ run.first - 1 \notin S /\ run.last + 1 \notin S}

FullRows(rows) == {i \in DOMAIN rows : rows[i].count = NumTiles}

PushChangesAcrossRows(rows) ==
    {[across_rows |-> TRUE, start_row |-> run.first, end_row |-> run.last,
      start_col |-> 0, end_col |-> NumTiles - 1] : run \in Runs(FullRows(rows))}

\* The run that ends at the last column forgotten
PushRunsThatEnd(i, marked) ==
    {[across_rows |-> FALSE, start_row |-> i, end_row |-> i,
      start_col |-> run.first, end_col |-> run.last] :
        run \in {r \in Runs(marked) : r.last # NumTiles - 1}}

PushChangesInOneRow(i, marked) ==
    {[across_rows |-> FALSE, start_row |-> i, end_row |-> i,
      start_col |-> run.first, end_col |-> run.last] : run \in Runs(marked)}

\* Rows of which some tiles are pushed; without its upper limit the test would
\* push a full row a second time.
ChangedRows(rows) == {i \in DOMAIN rows : rows[i].count > 0}
PartlyChangedRows(rows) == {i \in DOMAIN rows : rows[i].count \in 1..(NumTiles - 1)}

PushChangedTiles(rows) ==
    PushChangesAcrossRows(rows)
    \cup UNION {PushChangesInOneRow(i, rows[i].marked) : i \in PartlyChangedRows(rows)}

\* What a scan pushes, as rectangles of tiles
TileRectangles(tiles, counts) ==
    PushChangedTiles([i \in DOMAIN tiles |-> GrowRow(tiles[i], counts[i])])

\* push_tiles_report: the rectangle in pixels, clipped to the screen.
PixelRectangle(t, w, h) ==
    LET cols  == (t.end_col - t.start_col + 1) * w
        x     == (t.start_col * w) \div NumTiles
        wide  == cols \div NumTiles + (IF cols % NumTiles # 0 THEN 1 ELSE 0)
        y     == t.start_row * NumTiles
        high  == (t.end_row - t.start_row + 1) * NumTiles
    IN [x |-> x, w |-> IF x + wide > w THEN w - x ELSE wide,
        y |-> y, h |-> IF y + high > h THEN h - y ELSE high]

Inside(rect, p) ==
    /\ p[1] \in rect.x..(rect.x + rect.w - 1)
    /\ p[2] \in rect.y..(rect.y + rect.h - 1)

=============================================================================
