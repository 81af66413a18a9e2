-------------------------- MODULE MCScanPipeline --------------------------
(***************************************************************************)
(* TLC instances of ScanPipeline: a screen of two columns and two rows of  *)
(* tiles.  A periodic scan compares the tiles of the first row at every    *)
(* other time-out and those of the second in between, as if a change in    *)
(* them were on different lines.  That the reports of a scan cover what it *)
(* found, TileScan checks for pixels.                                      *)
(***************************************************************************)
EXTENDS ScanPipeline

MCCells == {0, 1} \X {0, 1}     \* <<column, row>>

Line(y) == {0, 1} \X {y}

MCRowOf == [c \in MCCells |-> 1 + c[2]]
MCPhaseOf == [c \in MCCells |-> c[2]]

\* pixman keeps a region as bands from top to bottom: lines with the same
\* pixels are one rectangle, and on two columns a line has but one.
MCBands ==
    [area \in SUBSET MCCells |->
        LET lines == <<area \cap Line(0), area \cap Line(1)>>
            alike == {c[1] : c \in lines[1]} = {c[1] : c \in lines[2]}
        IN IF alike THEN SelectSeq(<<area>>, LAMBDA r : r # {})
                    ELSE SelectSeq(lines, LAMBDA r : r # {})]

\* A scan reports rows that changed entirely, two of them as one rectangle, and
\* the changed tile of any other row.
MCScanReports ==
    [area \in SUBSET MCCells |->
        IF area = MCCells THEN <<MCCells>>
        ELSE SelectSeq(<<Line(0), Line(1)>>, LAMBDA r : r \subseteq area)
             \o SelectSeq(<<area \cap Line(0), area \cap Line(1)>>,
                          LAMBDA r : r \notin {{}, Line(0), Line(1)})]

\* The top line, the whole screen, and two rectangles at once, the first of
\* which overlaps the top line in part.
MCDrawings == {<<Line(0)>>, <<MCCells>>, <<{<<1, 0>>}, Line(1)>>}

\* Nothing drawn yet
Blank == {[c \in MCCells |-> 0]}

\* Versions look different from the one before, not from the one before that.
MCPixel == <<"a", "b", "a">>
MCPixelOrBlank == [v \in 0..3 |-> IF v = 0 THEN "blank" ELSE MCPixel[v]]

AutoOrNever == {"AUTO_TRUST", "NEVER_TRUST"}
DamageOrFps == BOOLEAN
=============================================================================
