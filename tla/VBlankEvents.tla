--------------------------- MODULE VBlankEvents ---------------------------
(***************************************************************************)
(* What a driver promises the X server's Present extension, without saying *)
(* how it keeps time: an event that was queued is notified once, and not   *)
(* before the frame counter msc has reached its target, unless it is       *)
(* aborted first; and the frame counter never goes back.                   *)
(***************************************************************************)
EXTENDS Naturals

CONSTANT Events

VARIABLES msc,         \* frames since the driver started
          target_msc,  \* the frame each event was asked for
          status       \* what has become of each event

eventVars == <<msc, target_msc, status>>

EventsInit ==
    /\ msc = 0
    /\ target_msc = [e \in Events |-> 0]
    /\ status = [e \in Events |-> "new"]

Becomes(e, s) == status' = [status EXCEPT ![e] = s]

Queue(e) ==
    /\ status[e] = "new"
    /\ Becomes(e, "queued")
    /\ target_msc' \in [Events -> Nat]
    /\ \A other \in Events \ {e} : target_msc'[other] = target_msc[other]

Refuse(e) ==
    /\ status[e] = "new"
    /\ Becomes(e, "refused")
    /\ UNCHANGED target_msc

Notify(e) ==
    /\ status[e] = "queued"
    /\ target_msc[e] <= msc
    /\ Becomes(e, "notified")
    /\ UNCHANGED target_msc

Abort(e) ==
    /\ status[e] = "queued"
    /\ Becomes(e, "aborted")
    /\ UNCHANGED target_msc

\* Frames may pass whatever else happens.
EventsNext ==
    /\ msc' >= msc
    /\ \/ \E e \in Events : Queue(e) \/ Refuse(e) \/ Notify(e) \/ Abort(e)
       \/ UNCHANGED <<target_msc, status>>

EventsSpec == EventsInit /\ [][EventsNext]_eventVars
=============================================================================
