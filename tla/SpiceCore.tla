----------------------------- MODULE SpiceCore -----------------------------
(***************************************************************************)
(* The timers and watches that x11spice lends to spice-server and to its   *)
(* own agent (SpiceCoreInterface, spice.c), over the sources of a GLib     *)
(* main context.                                                           *)
(*                                                                         *)
(* The operators map a context to the one after a call, since an operation *)
(* of the agent makes several.  External: the context itself, which polls, *)
(* then dispatches what it found ready, unless a source has been destroyed *)
(* since; and spice-server, which calls at any moment, from inside the     *)
(* callback of the same timer as well.                                     *)
(***************************************************************************)
EXTENDS Naturals, FiniteSets

CONSTANTS
    Timers,     \* timers of spice-server
    Watches,    \* watches of spice-server
    AgentWatches

Owners == Timers \cup Watches \cup AgentWatches

ASSUME CoreAssumption ==
    /\ "none" \notin Owners
    /\ Timers \cap Watches = {} /\ AgentWatches \cap (Timers \cup Watches) = {}

\* A source is named by the timer or watch it calls back, and a number.
Sources == Owners \X (0 .. 1)
None == <<"none", 0>>

VARIABLES
    context,   \* .live: what exists, .source: of each, .attached: not destroyed
    ready,     \* found ready by the last poll, and not dispatched yet
    running,   \* source of the timer whose func is running
    wanted     \* history: what has been started, and not cancelled or called since

coreVars == <<context, ready, running, wanted>>

CoreInit ==
    /\ context = [live |-> {}, source |-> [o \in Owners |-> None], attached |-> {}]
    /\ ready = {} /\ running = None /\ wanted = {}

----------------------------------------------------------------------------
\* A number for a source that no one knows any more
Fresh(c, o) == CHOOSE s \in {o} \X (0 .. 1) : s \notin c.attached \cup ready \cup {running, c.source[o]}

Destroy(c, o) == [c EXCEPT !.attached = @ \ {c.source[o]}, !.source[o] = None]
Attach(c, o) == [c EXCEPT !.attached = @ \cup {Fresh(c, o)}, !.source[o] = Fresh(c, o)]

\* timer_add
TimerAdd(c, t) == [c EXCEPT !.live = @ \cup {t}]

\* timer_cancel.  After a callback the source is still known, and destroyed already.
TimerCancel(c, t) == IF c.source[t] = None THEN c ELSE Destroy(c, t)

\* timer_start
TimerStartOnce(c, t) == IF c.source[t] # None THEN c ELSE Attach(c, t)
TimerStart(c, t) == Attach(TimerCancel(c, t), t)

\* timer_remove
TimerRemove(c, t) == [TimerCancel(c, t) EXCEPT !.live = @ \ {t}]

\* watch_update_mask; the mask says whether there is something to wait for.
WatchUpdateMask(c, w, mask) ==
    LET none == IF c.source[w] = None THEN c ELSE Destroy(c, w)
    IN IF mask THEN Attach(none, w) ELSE none

\* watch_add, watch_remove
WatchAdd(c, w, mask) == WatchUpdateMask([c EXCEPT !.live = @ \cup {w}], w, mask)
WatchRemove(c, w) == [WatchUpdateMask(c, w, FALSE) EXCEPT !.live = @ \ {w}]

----------------------------------------------------------------------------
(* spice-server's calls                                                    *)

ServerTimer(t) ==
    /\ \/ /\ t \notin context.live
          /\ context' = TimerAdd(context, t)
          /\ UNCHANGED wanted
       \/ /\ t \in context.live
          /\ \/ context' = TimerStart(context, t) /\ wanted' = wanted \cup {t}
             \/ context' = TimerCancel(context, t) /\ wanted' = wanted \ {t}
             \/ context' = TimerRemove(context, t) /\ wanted' = wanted \ {t}
    /\ UNCHANGED <<ready, running>>

ServerWatch(w) ==
    /\ \E mask \in BOOLEAN :
          /\ context' = IF w \in context.live THEN WatchUpdateMask(context, w, mask)
                                              ELSE WatchAdd(context, w, mask)
          /\ wanted' = IF mask THEN wanted \cup {w} ELSE wanted \ {w}
       \/ /\ w \in context.live
          /\ context' = WatchRemove(context, w)
          /\ wanted' = wanted \ {w}
    /\ UNCHANGED <<ready, running>>

----------------------------------------------------------------------------
(* The main context                                                        *)

\* inputs are the agent's watches whose descriptors have input; spice-server's may have it or
\* not, and its timers are due or not.  A descriptor that is closed has none: the condition is
\* IN or OUT, and never NVAL or HUP alone.
Poll(inputs) ==
    /\ ready = {} /\ running = None
    /\ \E found \in SUBSET {s \in context.attached : s[1] \notin AgentWatches} :
          ready' = found \cup {s \in context.attached : s[1] \in inputs}
    /\ ready' # {}
    /\ UNCHANGED <<context, running, wanted>>

Dispatches(s) ==
    /\ running = None
    /\ s \in ready
    /\ ready' = ready \ {s}

\* What was destroyed since the poll is not called.
Skip(s) ==
    /\ Dispatches(s)
    /\ s \notin context.attached
    /\ UNCHANGED <<context, running, wanted>>

\* timer_func
TimerFunc(s) ==
    /\ Dispatches(s)
    /\ s \in context.attached
    /\ s[1] \in Timers
    /\ running' = s
    /\ wanted' = wanted \ {s[1]}
    /\ UNCHANGED context

\* ... and when the function returns
TimerFuncReturns ==
    /\ running # None
    /\ context' = [context EXCEPT !.attached = @ \ {running}]
    /\ running' = None
    /\ UNCHANGED <<ready, wanted>>

\* watch_func, for a watch of spice-server, which may then make its calls
WatchFunc(s) ==
    /\ Dispatches(s)
    /\ s \in context.attached
    /\ s[1] \in Watches
    /\ UNCHANGED <<context, running, wanted>>

----------------------------------------------------------------------------
CoreTypeOK ==
    /\ context.live \subseteq Owners
    /\ context.source \in [Owners -> Sources \cup {None}]
    /\ context.attached \subseteq Sources
    /\ ready \subseteq Sources
    /\ running \in (Timers \X (0 .. 1)) \cup {None}
    /\ wanted \subseteq Owners

\* The sources that may still call back are those of the timers that have been started and of
\* the watches that wait for something, one each: none calls what has been freed or cancelled,
\* and a timer that its own callback starts again is not lost.  (timer_func's comment,
\* timer_start, watch_update_mask)
CallbacksAreWanted ==
    /\ wanted \subseteq context.live
    /\ context.attached \ {running} = {context.source[o] : o \in wanted}
    /\ \A o \in wanted : context.source[o] # None /\ context.source[o][1] = o
=============================================================================
