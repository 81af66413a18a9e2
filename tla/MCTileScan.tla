---------------------------- MODULE MCTileScan ----------------------------
(* TLC instances of TileScan: four columns of tiles, four lines a row. *)
EXTENDS TileScan, SequencesExt

MCNumTiles == 4

\* Widths and heights that are multiples of MCNumTiles, and some that are not.
MCSizes == {<<4, 4>>, <<8, 4>>, <<4, 8>>, <<4, 6>>, <<6, 4>>, <<5, 6>>}

\* 32 columns do not divide 1366, nor do 32 lines 600 or 1080.
MCOddWidth == {<<6, 4>>}

\* The loop of grow_changed_tiles as it is written: GrowLoop says what it computes.
InPlace(marked) ==
    FoldLeft(LAMBDA m, i : IF Grows(marked, m, i - 1) THEN m \cup {i - 1} ELSE m,
             marked, [i \in 1..NumTiles |-> i])

ASSUME GrowLoopWorksInPlace ==
    \A marked \in SUBSET Columns : GrowLoop(marked) = InPlace(marked)
=============================================================================
