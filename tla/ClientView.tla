---------------------------- MODULE ClientView ----------------------------
(***************************************************************************)
(* What x11spice promises a connected client, without saying how.          *)
(*                                                                         *)
(* The X screen is a set of cells, each with a version that grows every    *)
(* time something is drawn over it.  The client's surface is brought up    *)
(* to date a few cells at a time: an update may lag behind the screen and  *)
(* may tear (neighbouring cells from different moments), but no cell ever  *)
(* shows something the screen has not shown, and no cell goes back to an   *)
(* older picture.                                                          *)
(***************************************************************************)
EXTENDS Naturals

CONSTANT Cells

VARIABLES screen,   \* version of each cell on the X server
          client    \* version of each cell on the client's primary surface

viewVars == <<screen, client>>

\* The client starts from the blank primary surface (version 0); the screen may
\* already show something (version 1) anywhere.
ViewInit ==
    /\ screen \in [Cells -> {0, 1}]
    /\ client = [c \in Cells |-> 0]

DrawOnScreen ==
    /\ \E area \in SUBSET Cells :
          screen' = [c \in Cells |-> IF c \in area THEN screen[c] + 1 ELSE screen[c]]
    /\ UNCHANGED client

Refresh ==
    /\ client' \in [Cells -> Nat]
    /\ \A c \in Cells : client[c] <= client'[c] /\ client'[c] <= screen[c]
    /\ UNCHANGED screen

ViewNext == DrawOnScreen \/ Refresh

ViewSpec == ViewInit /\ [][ViewNext]_viewVars
=============================================================================
