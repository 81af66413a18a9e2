----------------------------- MODULE TileScan -----------------------------
(***************************************************************************)
(* One scan of the screen (scan.c: scanner_periodic, scan_full_screen)     *)
(* from the pixels that differ to the rectangles that are pushed, over     *)
(* every screen size and every change in a given set.                      *)
(***************************************************************************)
EXTENDS Tiles

CONSTANTS
    Sizes,          \* screen sizes <<w, h>>
    MaxChanged      \* bound: pixels that differ

ASSUME TileScanAssumption ==
    Sizes \subseteq (Nat \ {0}) \X (Nat \ {0}) /\ MaxChanged \in Nat

VARIABLES
    size,     \* of the screen and of display->fullscreen
    diff,     \* the pixels that differ between the two
    scanned,  \* those a scan has compared
    scan,     \* which scan it was, or "none yet"
    pushed    \* the rectangles it pushed, in pixels by what they are in tiles

tileScanVars == <<size, diff, scanned, scan, pushed>>

Pixels(s) == (0..(s[1] - 1)) \X (0..(s[2] - 1))

TileScanInit ==
    /\ size \in Sizes
    /\ \E changed \in [1..MaxChanged -> Pixels(size)] :
          diff = {changed[i] : i \in 1..MaxChanged}
    /\ scanned = {} /\ scan = "none yet" /\ pushed = <<>>

Report(tiles, counts) ==
    [t \in TileRectangles(tiles, counts) |-> PixelRectangle(t, size[1], size[2])]

\* scanner_periodic, on one line of every row of tiles
PeriodicScan ==
    /\ scan = "none yet"
    /\ scan' = "periodic"
    /\ \E line \in 0..(NumTiles - 1) :
          LET tiles == PeriodicTiles(diff, size[1], size[2], line)
          IN /\ scanned' = {p \in diff : p[2] % NumTiles = line}
             /\ pushed' = Report(tiles, TileCounts(tiles))
    /\ UNCHANGED <<size, diff>>

\* scan_full_screen
FullScreenScan ==
    /\ scan = "none yet"
    /\ scan' = "full screen"
    /\ scanned' = diff
    /\ pushed' = Report(WholeScreenTiles(diff, size[1], size[2]),
                        WholeScreenCounts(diff, size[1], size[2]))
    /\ UNCHANGED <<size, diff>>

TileScanNext == PeriodicScan \/ FullScreenScan

TileScanSpec == TileScanInit /\ [][TileScanNext]_tileScanVars

-----------------------------------------------------------------------------
\* What was compared differed, and pixels that differ are on the screen.
TileScanTypeOK ==
    /\ size \in Sizes /\ diff \subseteq Pixels(size) /\ scanned \subseteq diff
    /\ scan \in {"none yet", "periodic", "full screen"}
    /\ scan = "none yet" => pushed = <<>> /\ scanned = {}

\* A change the scan saw is inside a rectangle it reports.  push_tiles_report
\* means to round outward for this (scan.c:175-177).
ChangesAreSent ==
    \A p \in scanned : \E k \in DOMAIN pushed : Inside(pushed[k], p)

\* The same where the tile grids of detection and report agree: the width is a
\* multiple of NumTiles and, for a whole-screen scan, so is the height.
ChangesAreSentWhenAligned ==
    (size[1] % NumTiles = 0 /\ (scan = "periodic" \/ size[2] % NumTiles = 0))
        => ChangesAreSent

\* Rectangles of one scan lie on the screen and never overlap.  scanner_push
\* drops a report that overlaps a queued one, so an overlap would lose pixels.
RectanglesAreApart ==
    /\ \A k \in DOMAIN pushed :
          LET r == pushed[k]
          IN /\ r.x >= 0 /\ r.w > 0 /\ r.x + r.w <= size[1]
             /\ r.y >= 0 /\ r.h > 0 /\ r.y + r.h <= size[2]
    /\ \A k, l \in DOMAIN pushed : k # l =>
          \A p \in Pixels(size) : ~(Inside(pushed[k], p) /\ Inside(pushed[l], p))
=============================================================================
