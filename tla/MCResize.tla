------------------------------ MODULE MCResize ------------------------------
(***************************************************************************)
(* A screen of two cells that is turned and turned back: of either size    *)
(* the other has a cell that is outside, and one that both have.           *)
(***************************************************************************)
EXTENDS Resize

MCSizes == {{"tl", "tr"}, {"tl", "bl"}}

\* The corner, and either screen as a whole
MCAreas == {{"tl"}} \cup MCSizes

MCColours == {0, 1}

\* Nothing the client could know before the first scan
MCStart == {[c \in Cells |-> 1]}
=============================================================================
