------------------------------ MODULE Present ------------------------------
(***************************************************************************)
(* The Present emulation of the dummy video driver (spice-video-dummy/src: *)
(* present.c, and what it uses of display.c and dummy.h).                  *)
(*                                                                         *)
(* The driver has no display, so it computes the frame counter (msc) from  *)
(* the clock (ust), and keeps events until their frame in vblank_queue.    *)
(* A timer of the X server walks the queue.  A walk is several steps,      *)
(* since the extension may queue the next event while it is being notified *)
(* of one.  Everything runs in the X server's only thread: time passes     *)
(* between requests, and up to Slack inside queue_vblank.                  *)
(*                                                                         *)
(* Integers are unbounded here: a target so far ahead that its time does   *)
(* not fit the 32 bits of TimerSet is left out, and so is a target so far  *)
(* before msc_base that ust_for_msc would wrap.  unflip, which notifies    *)
(* without the queue, and glamor are left out.                             *)
(***************************************************************************)
EXTENDS Integers, Sequences, SequencesExt

CONSTANTS
    Events,       \* event ids of the Present extension, each used once
    Timers,       \* names for the timers that TimerSet allocates
    Intervals,    \* the microseconds a frame may take, one for each mode
    Targets,      \* frames that events are queued for
    Milli,        \* 1000 in the code: the timers' unit in microseconds
    Slack,        \* how late TimerSet may look at the clock
    MaxTime,      \* bound: from then on the clock only goes on to the next timer
    MaxModes,     \* bound on mode changes
    MaxFailures   \* bound on allocations that fail

ASSUME PresentAssumption ==
    /\ Events \subseteq Nat
    /\ Timers \subseteq Nat \ {0}
    /\ Intervals \subseteq Nat \ {0}
    /\ Targets \subseteq Nat
    /\ Milli \in Nat \ {0}
    /\ {Slack, MaxTime, MaxModes, MaxFailures} \subseteq Nat

NoTimer == 0

VARIABLES
    now,           \* dummy_gettime_us
    ust_base, msc_base, interval,
                   \* dummy_crtc_state: the frame counter since the last mode set
    vblank_queue,  \* ids of the queued events
    vblank_free,   \* length of the list of that name
    vblank_timer,  \* the timer the driver knows
    target_msc,    \* of each event
    expiry,        \* X server: when each timer is due, 0 if it is not armed
    at,            \* dummy_do_timer: where the walk is, 0 if there is none
    last,          \* no element came after that one when it was visited
    notifying,     \* present_event_notify is running
    msc,           \* dummy_do_timer's frame
    returning,     \* timer that queue_vblank's TimerSet will return
    status,        \* what has become of each event
    stranded,      \* history: a walk could not arm a timer
    modes, failures

crtcVars == <<ust_base, msc_base, interval, modes>>
walkVars == <<at, last, notifying, msc, returning>>
eventVars == <<vblank_queue, vblank_free, target_msc, status>>
timerVars == <<vblank_timer, expiry>>
countVars == <<stranded, failures>>
vars == <<now, crtcVars, walkVars, eventVars, timerVars, countVars>>

Armed == {t \in Timers : expiry[t] # 0}
Queued == ToSet(vblank_queue)

----------------------------------------------------------------------------
\* dummy_get_ust_msc at a given time
MscAt(ust) == msc_base + (ust - ust_base) \div interval

Msc == MscAt(now)

\* dummy_present_ust_for_msc
UstForMsc(m) == ust_base + interval * (m - msc_base)

\* The absolute time in TimerSet's unit, at least one unit after the frame begins
TimerTime(ust) == ust \div Milli + 1

\* The timer that the X server allocates next.  One that the driver has lost and
\* that is not armed never comes back, so its name is free.
Fresh == Timers \ (Armed \cup {vblank_timer, returning})
NewTimer == CHOOSE t \in Fresh : TRUE

----------------------------------------------------------------------------
\* crtc_create, and the first mode that the screen is set to
Init ==
    /\ now = 0 /\ ust_base = 0 /\ msc_base = 0
    /\ interval \in Intervals
    /\ vblank_queue = <<>> /\ vblank_free = 0
    /\ vblank_timer = NoTimer
    /\ target_msc = [e \in Events |-> 0]
    /\ expiry = [t \in Timers |-> 0]
    /\ at = 0 /\ last = FALSE /\ notifying = FALSE /\ msc = 0
    /\ returning = NoTimer
    /\ status = [e \in Events |-> "new"]
    /\ stranded = FALSE
    /\ modes = 0 /\ failures = 0

\* crtc_set_mode_major.  The frames so far are kept, the fraction of one is not.
SetModeRestarts(i) ==
    /\ at = 0
    /\ modes < MaxModes
    /\ msc_base' = 0
    /\ ust_base' = now
    /\ interval' = i
    /\ modes' = modes + 1
    /\ UNCHANGED <<now, walkVars, eventVars, timerVars, countVars>>
SetMode(i) ==
    /\ at = 0
    /\ modes < MaxModes
    /\ msc_base' = Msc
    /\ ust_base' = now
    /\ interval' = i
    /\ modes' = modes + 1
    /\ UNCHANGED <<now, walkVars, eventVars, timerVars, countVars>>

Tick ==
    /\ at = 0
    /\ now < MaxTime \/ \E t \in Armed : expiry[t] > now \div Milli
    /\ now' = now + 1
    /\ UNCHANGED <<crtcVars, walkVars, eventVars, timerVars, countVars>>

----------------------------------------------------------------------------
(* dummy_present_queue_vblank, for the extension itself or through flip.   *)

\* The extension counts its events.  It asks for frames to come; from inside a notification, when the
\* event before was late, for frames that have passed as well.
Asks(e, t) ==
    /\ status[e] = "new"
    /\ \A before \in Events : before < e => status[before] # "new"
    /\ \/ at = 0 /\ t >= Msc
       \/ notifying

Enqueued(e, t) ==
    /\ vblank_queue' = Append(vblank_queue, e)
    /\ vblank_free' = IF vblank_free > 0 THEN vblank_free - 1 ELSE 0
    /\ target_msc' = [target_msc EXCEPT ![e] = t]
    /\ status' = [status EXCEPT ![e] = "queued"]

TargetUst(t) == IF UstForMsc(t) <= now THEN UstForMsc(Msc + 1) ELSE UstForMsc(t)

\* Another event waits already: no timer is started for this one.
QueueBehindOthers(e, t) ==
    /\ Asks(e, t)
    /\ vblank_queue # <<>>
    /\ Enqueued(e, t)
    /\ UNCHANGED <<now, crtcVars, walkVars, timerVars, countVars>>

\* TimerSet makes a timer; the one known before stays armed if it was.
QueueAndStart(e, t) ==
    /\ Asks(e, t)
    /\ vblank_queue = <<>>
    /\ Enqueued(e, t)
    /\ Fresh # {}
    /\ \E later \in now .. now + Slack :
          /\ TimerTime(TargetUst(t)) > later \div Milli
          /\ now' = later
          /\ vblank_timer' = NewTimer
          /\ expiry' = [expiry EXCEPT ![NewTimer] = TimerTime(TargetUst(t))]
    /\ UNCHANGED <<crtcVars, walkVars, countVars>>

\* The time has come meanwhile, so that TimerSet calls dummy_do_timer before it
\* returns the new timer.
QueueAndRunAtOnce(e, t) ==
    /\ Asks(e, t)
    /\ vblank_queue = <<>>
    /\ Enqueued(e, t)
    /\ Fresh # {}
    /\ \E later \in now .. now + Slack :
          /\ TimerTime(TargetUst(t)) <= later \div Milli
          /\ now' = later
          /\ returning' = NewTimer
          /\ msc' = MscAt(later)
    /\ at' = 1
    /\ UNCHANGED <<crtcVars, last, notifying, timerVars, countVars>>

\* malloc fails, or, with the event in the queue already, TimerSet.
QueueFailsInQueue(e, t) ==
    /\ Asks(e, t)
    /\ failures < MaxFailures
    /\ failures' = failures + 1
    /\ status' = [status EXCEPT ![e] = "refused"]
    /\ vblank_queue = <<>>
    /\ vblank_queue' = <<e>>
    /\ vblank_timer' = NoTimer
    /\ UNCHANGED <<now, crtcVars, walkVars, vblank_free, target_msc, expiry, stranded>>
QueueFails(e, t) ==
    /\ Asks(e, t)
    /\ failures < MaxFailures
    /\ failures' = failures + 1
    /\ status' = [status EXCEPT ![e] = "refused"]
    /\ \/ vblank_free = 0 /\ UNCHANGED <<vblank_free, vblank_timer>>
       \/ /\ vblank_queue = <<>>
          /\ vblank_free' = IF vblank_free > 0 THEN vblank_free - 1 ELSE 0
          /\ vblank_timer' = NoTimer
    /\ UNCHANGED <<now, crtcVars, walkVars, vblank_queue, target_msc, expiry, stranded>>

\* dummy_present_abort_vblank.  The timer is left alone.
AbortVBlankStops(e) ==
    /\ at = 0
    /\ \E i \in DOMAIN vblank_queue :
          /\ vblank_queue[i] = e
          /\ vblank_queue' = RemoveAt(vblank_queue, i)
    /\ status' = [status EXCEPT ![e] = "aborted"]
    /\ expiry' = [t \in Timers |-> IF t = vblank_timer THEN 0 ELSE expiry[t]]
    /\ UNCHANGED <<now, crtcVars, walkVars, vblank_free, target_msc, vblank_timer, countVars>>
AbortVBlank(e) ==
    /\ at = 0
    /\ \E i \in DOMAIN vblank_queue :
          /\ vblank_queue[i] = e
          /\ vblank_queue' = RemoveAt(vblank_queue, i)
    /\ status' = [status EXCEPT ![e] = "aborted"]
    /\ UNCHANGED <<now, crtcVars, walkVars, vblank_free, target_msc, timerVars, countVars>>

----------------------------------------------------------------------------
(* dummy_do_timer.                                                         *)

\* The X server finds a timer due.
DoTimer(timer) ==
    /\ at = 0
    /\ timer \in Armed
    /\ expiry[timer] <= now \div Milli
    /\ expiry' = [expiry EXCEPT ![timer] = 0]
    /\ at' = 1
    /\ msc' = Msc
    /\ UNCHANGED <<now, crtcVars, last, notifying, returning, eventVars, vblank_timer, countVars>>

Visiting(i) == i \in DOMAIN vblank_queue /\ at = i /\ ~notifying

WalkSkips ==
    /\ Visiting(at)
    /\ msc < target_msc[vblank_queue[at]]
    /\ at' = at + 1
    /\ UNCHANGED <<now, crtcVars, last, notifying, msc, returning, eventVars, timerVars, countVars>>

WalkNotifies ==
    /\ Visiting(at)
    /\ msc >= target_msc[vblank_queue[at]]
    /\ status' = [status EXCEPT ![vblank_queue[at]] = "notified"]
    /\ notifying' = TRUE
    /\ last' = (at = Len(vblank_queue))
    /\ UNCHANGED <<now, crtcVars, at, msc, returning, vblank_queue, vblank_free, target_msc,
                   timerVars, countVars>>

\* The event moves to vblank_free.  xorg_list_for_each_entry_safe goes on with the
\* element that came next before the notification, or stops if there was none.
WalkRemoves ==
    /\ notifying
    /\ vblank_queue' = RemoveAt(vblank_queue, at)
    /\ vblank_free' = vblank_free + 1
    /\ at' = IF last THEN Len(vblank_queue) ELSE at
    /\ notifying' = FALSE
    /\ last' = FALSE
    /\ UNCHANGED <<now, crtcVars, msc, returning, target_msc, status, timerVars, countVars>>

WalkIsOver == at > Len(vblank_queue) /\ ~notifying

\* The walk is done, and with it the TimerSet of queue_vblank if that called it.
Leave ==
    /\ at' = 0
    /\ msc' = 0
    /\ returning' = NoTimer
    /\ UNCHANGED <<now, crtcVars, last, notifying, eventVars>>

Returned(timer) == IF returning = NoTimer THEN timer ELSE returning

WalkEnds ==
    /\ WalkIsOver
    /\ vblank_queue = <<>>
    /\ vblank_timer' = Returned(vblank_timer)
    /\ Leave
    /\ UNCHANGED <<expiry, countVars>>

\* Events are left.  The driver's timer is set for the next frame, whether it is the one
\* that has just run or one that is armed for another time.
WalkRearmsNot ==
    /\ WalkIsOver
    /\ vblank_queue # <<>>
    /\ vblank_timer' = Returned(vblank_timer)
    /\ Leave
    /\ UNCHANGED <<expiry, countVars>>
WalkRearms ==
    /\ WalkIsOver
    /\ vblank_queue # <<>>
    /\ vblank_timer = NoTimer => Fresh # {}
    /\ LET timer == IF vblank_timer = NoTimer THEN NewTimer ELSE vblank_timer
       IN expiry' = [expiry EXCEPT ![timer] = TimerTime(UstForMsc(msc + 1))]
    /\ vblank_timer' = Returned(vblank_timer)
    /\ Leave
    /\ UNCHANGED countVars

\* A first TimerSet that calls back finds no timer to set, and none can be made.
WalkFailsToRearm ==
    /\ WalkIsOver
    /\ vblank_queue # <<>>
    /\ vblank_timer = NoTimer
    /\ failures < MaxFailures
    /\ failures' = failures + 1
    /\ stranded' = TRUE
    /\ vblank_timer' = Returned(vblank_timer)
    /\ Leave
    /\ UNCHANGED expiry

----------------------------------------------------------------------------
Walk == WalkSkips \/ WalkNotifies \/ WalkRemoves \/ WalkEnds \/ WalkRearms \/ WalkFailsToRearm

Extension ==
    \E e \in Events :
        \/ AbortVBlank(e)
        \/ \E t \in Targets :
              \/ QueueBehindOthers(e, t) \/ QueueAndStart(e, t)
              \/ QueueAndRunAtOnce(e, t) \/ QueueFails(e, t)

Next ==
    \/ Tick
    \/ \E i \in Intervals : SetMode(i)
    \/ Extension
    \/ \E timer \in Timers : DoTimer(timer)
    \/ Walk

Spec == Init /\ [][Next]_vars

\* Time passes, and the server's only thread goes on with what it is doing.
FairSpec ==
    /\ Spec
    /\ WF_vars(Tick)
    /\ WF_vars(Walk)
    /\ \A timer \in Timers : WF_vars(DoTimer(timer))

----------------------------------------------------------------------------
Statuses == {"new", "queued", "notified", "aborted", "refused"}

TypeOK ==
    /\ now \in Nat /\ ust_base \in Nat /\ msc_base \in Nat /\ vblank_free \in Nat
    /\ at \in Nat /\ msc \in Nat /\ modes \in Nat /\ failures \in Nat
    /\ interval \in Intervals
    /\ ust_base <= now
    /\ vblank_queue \in Seq(Events)
    /\ vblank_timer \in Timers \cup {NoTimer} /\ returning \in Timers \cup {NoTimer}
    /\ target_msc \in [Events -> Nat]
    /\ expiry \in [Timers -> Int]
    /\ last \in BOOLEAN /\ notifying \in BOOLEAN /\ stranded \in BOOLEAN
    /\ status \in [Events -> Statuses]

\* Events that wait have a timer that will look at them, although an abort leaves the timer
\* alone, a walk may set another timer than the one that called it, and the extension queues
\* events in the middle of a walk.  (dummy_present_queue_vblank, dummy_do_timer)
QueueIsAttended ==
    at = 0 /\ vblank_queue # <<>> /\ ~stranded => Armed # {}

\* The queue holds the events that are not settled, each once, and between walks no others.
QueueIsPending ==
    /\ \A i, j \in DOMAIN vblank_queue : vblank_queue[i] = vblank_queue[j] => i = j
    /\ at = 0 => Queued = {e \in Events : status[e] = "queued"}

\* No event is notified twice, before its frame, or after it was aborted, and the frame
\* counter does not go back, over mode changes either.
Promise == INSTANCE VBlankEvents WITH msc <- Msc
EventsSpec == Promise!EventsSpec

\* Every event that was queued is notified or aborted in the end, unless a timer could not
\* be allocated.
EventsSettle == \A e \in Events : status[e] = "queued" ~> status[e] # "queued" \/ stranded
=============================================================================
