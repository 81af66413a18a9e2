--------------------------- MODULE PresentProofs ---------------------------
(***************************************************************************)
(* Proofs about Present, for any events, timers, modes and clock.          *)
(***************************************************************************)
EXTENDS Present, SequenceTheorems, TLAPS

LEMMA Quotient ==
    ASSUME NEW a \in Nat, NEW b \in Nat \ {0}
    PROVE  a \div b \in Nat
  BY SMT

LEMMA QuotientGrows ==
    ASSUME NEW a \in Nat, NEW c \in Nat, NEW b \in Nat \ {0}, a <= c
    PROVE  a \div b <= c \div b
  BY SMT

LEMMA NoQuotient ==
    ASSUME NEW b \in Nat \ {0}
    PROVE  0 \div b = 0
  BY SMT

LEMMA NoDifference ==
    ASSUME NEW a \in Nat, NEW b \in Nat, a = b
    PROVE  a - b = 0
  BY SMT

LEMMA Product ==
    ASSUME NEW a \in Nat, NEW b \in Nat
    PROVE  a * b \in Nat
  BY SMT

\* One element less, the others in order
LEMMA Removed ==
    ASSUME NEW S, NEW s \in Seq(S), NEW i \in DOMAIN s
    PROVE  /\ RemoveAt(s, i) \in Seq(S)
           /\ Len(RemoveAt(s, i)) = Len(s) - 1
           /\ \A j \in DOMAIN RemoveAt(s, i) :
                 RemoveAt(s, i)[j] = IF j < i THEN s[j] ELSE s[j + 1]
<1>1. i \in 1 .. Len(s) /\ Len(s) \in Nat
  OBVIOUS
<1>2. /\ SubSeq(s, 1, i - 1) \in Seq(S) /\ Len(SubSeq(s, 1, i - 1)) = i - 1
      /\ SubSeq(s, i + 1, Len(s)) \in Seq(S) /\ Len(SubSeq(s, i + 1, Len(s))) = Len(s) - i
      /\ \A j \in 1 .. i - 1 : SubSeq(s, 1, i - 1)[j] = s[j]
      /\ \A j \in 1 .. Len(s) - i : SubSeq(s, i + 1, Len(s))[j] = s[i + j]
  BY <1>1
<1> DEFINE a == SubSeq(s, 1, i - 1)
           b == SubSeq(s, i + 1, Len(s))
<1>3. RemoveAt(s, i) = a \o b
  BY DEF RemoveAt
<1> HIDE DEF a, b
<1>4. /\ a \in Seq(S) /\ Len(a) = i - 1 /\ b \in Seq(S) /\ Len(b) = Len(s) - i
      /\ \A j \in 1 .. i - 1 : a[j] = s[j]
      /\ \A j \in 1 .. Len(s) - i : b[j] = s[i + j]
  BY <1>2 DEF a, b
<1>5. /\ a \o b \in Seq(S) /\ Len(a \o b) = Len(s) - 1
      /\ DOMAIN (a \o b) = 1 .. Len(s) - 1
      /\ \A j \in 1 .. Len(s) - 1 : (a \o b)[j] = IF j <= i - 1 THEN a[j] ELSE b[j - (i - 1)]
  <2>1. /\ a \o b \in Seq(S) /\ Len(a \o b) = Len(a) + Len(b)
        /\ \A j \in 1 .. Len(a) + Len(b) :
              (a \o b)[j] = IF j <= Len(a) THEN a[j] ELSE b[j - Len(a)]
    BY <1>4, ConcatProperties
  <2>2. Len(a) + Len(b) = Len(s) - 1
    BY <1>1, <1>4
  <2> QED
    BY <1>4, <2>1, <2>2
<1>6. ASSUME NEW j \in 1 .. Len(s) - 1
      PROVE  (a \o b)[j] = IF j < i THEN s[j] ELSE s[j + 1]
  <2>1. CASE j < i
    <3>1. j \in 1 .. i - 1 /\ j <= i - 1
      BY <1>1, <2>1
    <3> QED
      BY <1>4, <1>5, <2>1, <3>1
  <2>2. CASE ~(j < i)
    <3>1. j - (i - 1) \in 1 .. Len(s) - i /\ ~(j <= i - 1) /\ i + (j - (i - 1)) = j + 1
      BY <1>1, <2>2
    <3> QED
      BY <1>4, <1>5, <2>2, <3>1
  <2> QED
    BY <2>1, <2>2
<1> QED
  BY <1>3, <1>5, <1>6

\* Of an element that is in the sequence once, nothing is left.
LEMMA RemovedFromSet ==
    ASSUME NEW S, NEW s \in Seq(S), NEW i \in DOMAIN s,
           \A j, k \in DOMAIN s : s[j] = s[k] => j = k
    PROVE  /\ ToSet(RemoveAt(s, i)) = ToSet(s) \ {s[i]}
           /\ \A j, k \in DOMAIN RemoveAt(s, i) :
                 RemoveAt(s, i)[j] = RemoveAt(s, i)[k] => j = k
<1> DEFINE r == RemoveAt(s, i)
<1>1. /\ i \in 1 .. Len(s) /\ Len(s) \in Nat /\ DOMAIN s = 1 .. Len(s)
      /\ DOMAIN r = 1 .. Len(s) - 1
      /\ \A j \in 1 .. Len(s) - 1 : r[j] = IF j < i THEN s[j] ELSE s[j + 1]
  BY Removed
<1> HIDE DEF r
<1>2. \A j, k \in 1 .. Len(s) - 1 : r[j] = r[k] => j = k
  <2> SUFFICES ASSUME NEW j \in 1 .. Len(s) - 1, NEW k \in 1 .. Len(s) - 1, r[j] = r[k]
               PROVE  j = k
    OBVIOUS
  <2> DEFINE J == IF j < i THEN j ELSE j + 1
             K == IF k < i THEN k ELSE k + 1
  <2>1. J \in 1 .. Len(s) /\ K \in 1 .. Len(s) /\ (J = K => j = k)
    BY <1>1
  <2>2. r[j] = s[J] /\ r[k] = s[K]
    BY <1>1
  <2> QED
    BY <1>1, <2>1, <2>2
<1>3. ASSUME NEW j \in 1 .. Len(s) - 1 PROVE r[j] \in ToSet(s) \ {s[i]}
  <2> DEFINE J == IF j < i THEN j ELSE j + 1
  <2>1. J \in 1 .. Len(s) /\ J # i
    BY <1>1
  <2>2. r[j] = s[J]
    BY <1>1
  <2> QED
    BY <1>1, <2>1, <2>2 DEF ToSet
<1>4. ASSUME NEW k \in 1 .. Len(s), s[k] # s[i] PROVE \E j \in 1 .. Len(s) - 1 : r[j] = s[k]
  <2>1. k # i
    BY <1>4
  <2>2. CASE k < i
    BY <1>1, <2>2
  <2>3. CASE k > i
    <3>1. k - 1 \in 1 .. Len(s) - 1 /\ ~(k - 1 < i) /\ k - 1 + 1 = k
      BY <1>1, <2>3
    <3> QED
      BY <1>1, <3>1
  <2> QED
    BY <1>1, <2>1, <2>2, <2>3
<1>5. ToSet(r) = {r[j] : j \in 1 .. Len(s) - 1} /\ ToSet(s) = {s[j] : j \in 1 .. Len(s)}
  BY <1>1 DEF ToSet
<1>6. ASSUME NEW x \in ToSet(r) PROVE x \in ToSet(s) \ {s[i]}
  <2>1. PICK j \in 1 .. Len(s) - 1 : x = r[j]
    BY <1>5
  <2> QED
    BY <1>3, <2>1
<1>7. ASSUME NEW x \in ToSet(s), x # s[i] PROVE x \in ToSet(r)
  <2>1. PICK k \in 1 .. Len(s) : x = s[k]
    BY <1>5
  <2>2. PICK j \in 1 .. Len(s) - 1 : r[j] = s[k]
    BY <1>4, <1>7, <2>1
  <2> QED
    BY <1>5, <2>1, <2>2
<1>8. ToSet(r) = ToSet(s) \ {s[i]}
  BY <1>6, <1>7
<1>9. \A j, k \in DOMAIN r : r[j] = r[k] => j = k
  BY <1>1, <1>2
<1> QED
  BY <1>8, <1>9 DEF r

\* One element more, at the end
LEMMA Appended ==
    ASSUME NEW S, NEW s \in Seq(S), NEW e \in S, e \notin ToSet(s),
           \A j, k \in DOMAIN s : s[j] = s[k] => j = k
    PROVE  /\ Append(s, e) \in Seq(S) /\ Append(s, e) # <<>>
           /\ ToSet(Append(s, e)) = ToSet(s) \cup {e}
           /\ \A j, k \in DOMAIN Append(s, e) :
                 Append(s, e)[j] = Append(s, e)[k] => j = k
           /\ \A j \in DOMAIN s : j \in DOMAIN Append(s, e) /\ Append(s, e)[j] = s[j]
<1>1. /\ Len(s) \in Nat /\ DOMAIN s = 1 .. Len(s) /\ DOMAIN Append(s, e) = 1 .. Len(s) + 1
      /\ Append(s, e) \in Seq(S) /\ Append(s, e)[Len(s) + 1] = e
      /\ \A j \in 1 .. Len(s) : Append(s, e)[j] = s[j]
  OBVIOUS
<1>2. \A j \in 1 .. Len(s) : s[j] # e
  BY <1>1 DEF ToSet
<1>3. 1 .. Len(s) + 1 = (1 .. Len(s)) \cup {Len(s) + 1}
  BY <1>1
<1> QED
  BY <1>1, <1>2, <1>3 DEF ToSet

-----------------------------------------------------------------------------
(* The clock *)

LEMMA Modes ==
    ASSUME TypeOK
    PROVE  /\ interval \in Nat \ {0} /\ ust_base \in Nat /\ now \in Nat /\ msc_base \in Nat
           /\ now - ust_base \in Nat
  BY PresentAssumption DEF TypeOK

LEMMA Frames ==
    ASSUME TypeOK, NEW later \in Nat, now <= later
    PROVE  /\ Msc \in Nat /\ Msc >= msc_base
           /\ MscAt(later) \in Nat /\ Msc <= MscAt(later)
<1>1. now - ust_base \in Nat /\ later - ust_base \in Nat /\ now - ust_base <= later - ust_base
  BY Modes
<1>2. /\ (now - ust_base) \div interval \in Nat /\ (later - ust_base) \div interval \in Nat
      /\ (now - ust_base) \div interval <= (later - ust_base) \div interval
  BY <1>1, Modes, Quotient, QuotientGrows
<1> DEFINE q == (now - ust_base) \div interval
           r == (later - ust_base) \div interval
<1>3. Msc = msc_base + q /\ MscAt(later) = msc_base + r
  BY DEF Msc, MscAt
<1> HIDE DEF q, r
<1> QED
  BY <1>2, <1>3, Modes DEF q, r

\* A time that TimerSet is asked for is one: 0 says that a timer is not armed.
LEMMA TimesArePositive ==
    ASSUME NEW ust \in Nat
    PROVE  TimerTime(ust) \in Nat \ {0}
<1>1. ust \div Milli \in Nat
  BY PresentAssumption, Quotient
<1> QED
  BY <1>1 DEF TimerTime

LEMMA NextFrame ==
    ASSUME TypeOK, NEW m \in Nat, m >= msc_base
    PROVE  UstForMsc(m + 1) \in Nat
<1>1. m + 1 - msc_base \in Nat
  BY Modes
<1>2. interval * (m + 1 - msc_base) \in Nat
  BY <1>1, Modes, Product
<1> QED
  BY <1>2, Modes DEF UstForMsc

LEMMA FrameTimes ==
    ASSUME TypeOK, NEW m \in Int
    PROVE  UstForMsc(m) \in Int
<1>1. interval * (m - msc_base) \in Int
  BY Modes
<1> QED
  BY <1>1, Modes DEF UstForMsc

LEMMA TargetTime ==
    ASSUME TypeOK, NEW t \in Nat
    PROVE  TargetUst(t) \in Nat
<1>1. UstForMsc(t) \in Int
  BY FrameTimes
<1>2. UstForMsc(Msc + 1) \in Nat
  BY Frames, Modes, NextFrame
<1> QED
  BY <1>1, <1>2, Modes DEF TargetUst

LEMMA FreshIsTimer ==
    ASSUME Fresh # {}
    PROVE  NewTimer \in Timers
  BY DEF Fresh, NewTimer

-----------------------------------------------------------------------------
(* Types *)

LEMMA InitTypeOK == Init => TypeOK
<1> SUFFICES ASSUME Init PROVE TypeOK
  OBVIOUS
<1>1. /\ interval \in Intervals /\ ust_base <= now /\ vblank_queue \in Seq(Events)
      /\ now \in Nat /\ ust_base \in Nat /\ msc_base \in Nat /\ vblank_free \in Nat
      /\ at \in Nat /\ msc \in Nat /\ modes \in Nat /\ failures \in Nat
  BY DEF Init
<1>2. /\ vblank_timer \in Timers \cup {NoTimer} /\ returning \in Timers \cup {NoTimer}
      /\ last \in BOOLEAN /\ notifying \in BOOLEAN /\ stranded \in BOOLEAN
  BY DEF Init
<1>3. /\ target_msc \in [Events -> Nat] /\ expiry \in [Timers -> Int]
      /\ status \in [Events -> Statuses]
  BY DEF Init, Statuses
<1> QED
  BY <1>1, <1>2, <1>3 DEF TypeOK

\* An event is notified while it is in the queue.
InsideQueue == notifying => at \in DOMAIN vblank_queue

LEMMA StepTypeOK == TypeOK /\ InsideQueue /\ [Next]_vars => TypeOK'
<1> SUFFICES ASSUME TypeOK, InsideQueue, [Next]_vars PROVE TypeOK'
  OBVIOUS
<1> USE DEF crtcVars, walkVars, eventVars, timerVars, countVars
<1>1. CASE Tick
  BY <1>1 DEF Tick, TypeOK
<1>2. ASSUME NEW i \in Intervals, SetMode(i) PROVE TypeOK'
  <2>1. Msc \in Nat
    BY Frames, Modes
  <2> QED
    BY <1>2, <2>1 DEF SetMode, TypeOK
<1>3. ASSUME NEW e \in Events, NEW t \in Targets, Asks(e, t), Enqueued(e, t)
      PROVE  /\ vblank_queue' \in Seq(Events) /\ vblank_free' \in Nat
             /\ target_msc' \in [Events -> Nat] /\ status' \in [Events -> Statuses]
  BY <1>3, PresentAssumption DEF Enqueued, TypeOK, Statuses
<1>4. ASSUME NEW e \in Events, NEW t \in Targets, QueueBehindOthers(e, t) PROVE TypeOK'
  BY <1>3, <1>4 DEF QueueBehindOthers, TypeOK
<1>5. ASSUME NEW e \in Events, NEW t \in Targets, QueueAndStart(e, t) PROVE TypeOK'
  <2>1. TimerTime(TargetUst(t)) \in Int
    BY TargetTime, TimesArePositive, PresentAssumption
  <2>2. NewTimer \in Timers
    BY <1>5, FreshIsTimer DEF QueueAndStart
  <2>3. /\ now' \in Nat /\ ust_base <= now'
        /\ vblank_timer' = NewTimer
        /\ expiry' = [expiry EXCEPT ![NewTimer] = TimerTime(TargetUst(t))]
    BY <1>5, Modes, PresentAssumption DEF QueueAndStart
  <2>4. expiry' \in [Timers -> Int]
    BY <2>1, <2>2, <2>3 DEF TypeOK
  <2>5. Asks(e, t) /\ Enqueued(e, t) /\ UNCHANGED <<crtcVars, walkVars, countVars>>
    BY <1>5 DEF QueueAndStart
  <2> QED
    BY <1>3, <2>2, <2>3, <2>4, <2>5 DEF TypeOK
<1>6. ASSUME NEW e \in Events, NEW t \in Targets, QueueAndRunAtOnce(e, t) PROVE TypeOK'
  <2>1. NewTimer \in Timers
    BY <1>6, FreshIsTimer DEF QueueAndRunAtOnce
  <2>2. PICK later \in now .. now + Slack :
           now' = later /\ returning' = NewTimer /\ msc' = MscAt(later)
    BY <1>6 DEF QueueAndRunAtOnce
  <2>3. later \in Nat /\ now <= later /\ ust_base <= later
    BY <2>2, Modes, PresentAssumption DEF TypeOK
  <2>4. MscAt(later) \in Nat
    BY <2>3, Frames
  <2>5. Asks(e, t) /\ Enqueued(e, t) /\ at' = 1
        /\ UNCHANGED <<crtcVars, last, notifying, timerVars, countVars>>
    BY <1>6 DEF QueueAndRunAtOnce
  <2> QED
    BY <1>3, <2>1, <2>2, <2>3, <2>4, <2>5 DEF TypeOK
<1>7. ASSUME NEW e \in Events, NEW t \in Targets, QueueFails(e, t) PROVE TypeOK'
  <2>1. vblank_free' \in Nat /\ vblank_timer' \in Timers \cup {NoTimer}
    BY <1>7 DEF QueueFails, TypeOK
  <2>2. status' \in [Events -> Statuses]
    BY <1>7 DEF QueueFails, TypeOK, Statuses
  <2> QED
    BY <1>7, <2>1, <2>2 DEF QueueFails, TypeOK
<1>8. ASSUME NEW e \in Events, AbortVBlank(e) PROVE TypeOK'
  <2>1. vblank_queue' \in Seq(Events)
    BY <1>8, Removed DEF AbortVBlank, TypeOK
  <2>2. status' \in [Events -> Statuses]
    BY <1>8 DEF AbortVBlank, TypeOK, Statuses
  <2> QED
    BY <1>8, <2>1, <2>2 DEF AbortVBlank, TypeOK
<1>9. ASSUME NEW timer \in Timers, DoTimer(timer) PROVE TypeOK'
  <2>1. Msc \in Nat
    BY Frames, Modes
  <2> QED
    BY <1>9, <2>1 DEF DoTimer, TypeOK
<1>10. CASE WalkSkips
  BY <1>10 DEF WalkSkips, TypeOK
<1>11. CASE WalkNotifies
  <2>1. status' \in [Events -> Statuses] /\ last' \in BOOLEAN
    BY <1>11 DEF WalkNotifies, Visiting, TypeOK, Statuses
  <2> QED
    BY <1>11, <2>1 DEF WalkNotifies, TypeOK
<1>12. CASE WalkRemoves
  <2>1. vblank_queue' \in Seq(Events)
    BY <1>12, Removed DEF WalkRemoves, InsideQueue, TypeOK
  <2>2. at' \in Nat
    BY <1>12 DEF WalkRemoves, TypeOK
  <2>3. /\ vblank_free' = vblank_free + 1 /\ notifying' = FALSE /\ last' = FALSE
        /\ UNCHANGED <<now, crtcVars, msc, returning, target_msc, status, timerVars, countVars>>
    BY <1>12 DEF WalkRemoves
  <2>4. notifying' \in BOOLEAN /\ last' \in BOOLEAN
    BY <2>3
  <2>5. vblank_free' \in Nat
    BY <2>3 DEF TypeOK
  <2>6. UNCHANGED <<now, ust_base, msc_base, interval, modes, msc, returning, target_msc, status,
                    vblank_timer, expiry, stranded, failures>>
    BY <2>3
  <2> QED
    BY <2>1, <2>2, <2>4, <2>5, <2>6 DEF TypeOK
<1>13. ASSUME vblank_timer' = Returned(vblank_timer), Leave, expiry' \in [Timers -> Int],
              failures' \in Nat, stranded' \in BOOLEAN
       PROVE  TypeOK'
  <2>1. vblank_timer' \in Timers \cup {NoTimer} /\ returning' \in Timers \cup {NoTimer}
    BY <1>13 DEF Leave, Returned, TypeOK
  <2>2. /\ at' = 0 /\ msc' = 0
        /\ UNCHANGED <<now, crtcVars, last, notifying, eventVars>>
    BY <1>13 DEF Leave
  <2> QED
    BY <1>13, <2>1, <2>2 DEF TypeOK
<1>14. CASE WalkEnds
  BY <1>13, <1>14 DEF WalkEnds, TypeOK
<1>15. CASE WalkRearms
  <2> DEFINE timer == IF vblank_timer = NoTimer THEN NewTimer ELSE vblank_timer
             time == TimerTime(UstForMsc(msc + 1))
  <2>1. vblank_timer' = Returned(vblank_timer) /\ Leave /\ UNCHANGED countVars
        /\ expiry' = [expiry EXCEPT ![timer] = time]
    BY <1>15 DEF WalkRearms
  <2>2. time \in Int
    <3>1. msc + 1 \in Int
      BY DEF TypeOK
    <3>2. UstForMsc(msc + 1) \in Int
      BY <3>1, FrameTimes
    <3>3. UstForMsc(msc + 1) \div Milli \in Int
      BY <3>2, PresentAssumption
    <3> QED
      BY <3>3 DEF TimerTime
  <2> HIDE DEF timer, time
  <2>3. expiry' \in [Timers -> Int]
    BY <2>1, <2>2 DEF TypeOK
  <2> QED
    BY <1>13, <2>1, <2>3 DEF TypeOK
<1>16. CASE WalkFailsToRearm
  BY <1>13, <1>16 DEF WalkFailsToRearm, TypeOK
<1>17. CASE UNCHANGED vars
  BY <1>17 DEF vars, TypeOK
<1> QED
  BY <1>1, <1>2, <1>4, <1>5, <1>6, <1>7, <1>8, <1>9, <1>10, <1>11, <1>12, <1>14, <1>15,
     <1>16, <1>17 DEF Next, Extension, Walk

-----------------------------------------------------------------------------
(* The queue and the timers *)

\* The queue holds what waits, and the event that is being notified.
HeldByWalk == IF notifying THEN {vblank_queue[at]} ELSE {}

Distinct == \A i, j \in DOMAIN vblank_queue : vblank_queue[i] = vblank_queue[j] => i = j

QueueMatches ==
    /\ notifying => status[vblank_queue[at]] = "notified"
    /\ Queued = {e \in Events : status[e] = "queued"} \cup HeldByWalk

\* No time passes during a walk.
WalkIsNow == at # 0 => msc = Msc

PresentInv == TypeOK /\ InsideQueue /\ Distinct /\ QueueMatches /\ WalkIsNow /\ QueueIsAttended

LEMMA InitPresentInv == Init => PresentInv
<1> SUFFICES ASSUME Init PROVE PresentInv
  OBVIOUS
<1>1. vblank_queue = <<>> /\ DOMAIN vblank_queue = {} /\ notifying = FALSE /\ at = 0
  BY DEF Init
<1>2. Queued = {}
  BY <1>1 DEF Queued, ToSet
<1>3. {e \in Events : status[e] = "queued"} = {}
  BY DEF Init
<1> QED
  BY <1>1, <1>2, <1>3, InitTypeOK
  DEF PresentInv, InsideQueue, Distinct, QueueMatches, HeldByWalk, WalkIsNow, QueueIsAttended

\* What an action that leaves the queue and the events alone keeps
LEMMA KeepsQueue ==
    ASSUME InsideQueue, Distinct, QueueMatches,
           UNCHANGED <<vblank_queue, status, notifying>>, notifying => at' = at
    PROVE  InsideQueue' /\ Distinct' /\ QueueMatches'
  BY DEF InsideQueue, Distinct, QueueMatches, HeldByWalk, Queued

\* Queueing a new event
LEMMA QueuesOne ==
    ASSUME PresentInv, NEW e \in Events, NEW t \in Targets, Asks(e, t), Enqueued(e, t),
           UNCHANGED notifying, notifying => at' = at
    PROVE  InsideQueue' /\ Distinct' /\ QueueMatches' /\ vblank_queue' # <<>>
<1>1. status[e] = "new"
  BY DEF Asks
<1>2. e \notin Queued
  BY <1>1 DEF PresentInv, QueueMatches, HeldByWalk
<1>3. /\ vblank_queue' # <<>> /\ Queued' = Queued \cup {e}
      /\ Distinct'
      /\ \A j \in DOMAIN vblank_queue :
            j \in DOMAIN vblank_queue' /\ vblank_queue'[j] = vblank_queue[j]
  <2>1. /\ vblank_queue \in Seq(Events) /\ e \notin ToSet(vblank_queue)
        /\ \A i, j \in DOMAIN vblank_queue : vblank_queue[i] = vblank_queue[j] => i = j
    BY <1>2 DEF PresentInv, TypeOK, Distinct, Queued
  <2>2. vblank_queue' = Append(vblank_queue, e)
    BY DEF Enqueued
  <2> DEFINE longer == Append(vblank_queue, e)
  <2>3. /\ longer # <<>> /\ ToSet(longer) = ToSet(vblank_queue) \cup {e}
        /\ \A i, j \in DOMAIN longer : longer[i] = longer[j] => i = j
        /\ \A j \in DOMAIN vblank_queue : j \in DOMAIN longer /\ longer[j] = vblank_queue[j]
    BY <2>1, Appended
  <2>4. vblank_queue' = longer
    BY <2>2
  <2> HIDE DEF longer
  <2> QED
    BY <2>3, <2>4 DEF Distinct, Queued
<1>4. InsideQueue' /\ HeldByWalk' = HeldByWalk
  BY <1>3 DEF PresentInv, InsideQueue, HeldByWalk
<1>5. {x \in Events : status'[x] = "queued"} = {x \in Events : status[x] = "queued"} \cup {e}
  BY DEF Enqueued, PresentInv, TypeOK
<1>6. notifying => vblank_queue[at] # e
  BY <1>1 DEF PresentInv, QueueMatches
<1>7. notifying' => status'[vblank_queue'[at']] = "notified"
  <2> SUFFICES ASSUME notifying PROVE status'[vblank_queue[at]] = "notified"
    BY <1>3 DEF PresentInv, InsideQueue
  <2>1. vblank_queue[at] \in Events
    BY DEF PresentInv, InsideQueue, TypeOK
  <2> QED
    BY <1>6, <2>1 DEF Enqueued, PresentInv, TypeOK, QueueMatches
<1> QED
  BY <1>3, <1>4, <1>5, <1>7 DEF QueueMatches, PresentInv

\* Taking one out
LEMMA TakesOne ==
    ASSUME PresentInv, NEW i \in DOMAIN vblank_queue, vblank_queue' = RemoveAt(vblank_queue, i)
    PROVE  Distinct' /\ Queued' = Queued \ {vblank_queue[i]}
  BY RemovedFromSet DEF PresentInv, TypeOK, Distinct, Queued

\* A step of the walk that leaves the queue and what is notified alone
LEMMA InvOfParts ==
    ASSUME TypeOK', InsideQueue', Distinct', QueueMatches', WalkIsNow', QueueIsAttended'
    PROVE  PresentInv'
  BY DEF PresentInv

LEMMA StepPresentInv == PresentInv /\ [Next]_vars => PresentInv'
<1> SUFFICES ASSUME PresentInv, [Next]_vars PROVE PresentInv'
  OBVIOUS
<1> USE DEF crtcVars, walkVars, eventVars, timerVars, countVars
<1>t. TypeOK /\ TypeOK'
  BY StepTypeOK DEF PresentInv
<1>i. InsideQueue /\ Distinct /\ QueueMatches /\ WalkIsNow /\ QueueIsAttended
  BY DEF PresentInv
<1>n. notifying => at # 0 /\ vblank_queue # <<>>
  BY <1>i, <1>t DEF InsideQueue, TypeOK
<1>1. CASE Tick
  <2>1. at = 0 /\ at' = 0 /\ UNCHANGED <<vblank_queue, status, notifying, stranded, expiry>>
    BY <1>1 DEF Tick
  <2>2. WalkIsNow' /\ QueueIsAttended'
    BY <1>i, <2>1 DEF WalkIsNow, QueueIsAttended, Armed
  <2> QED
    BY <1>i, <1>t, <2>1, <2>2, KeepsQueue, InvOfParts
<1>2. ASSUME NEW i \in Intervals, SetMode(i) PROVE PresentInv'
  <2>1. at = 0 /\ at' = 0 /\ UNCHANGED <<vblank_queue, status, notifying, stranded, expiry>>
    BY <1>2 DEF SetMode
  <2>2. WalkIsNow' /\ QueueIsAttended'
    BY <1>i, <2>1 DEF WalkIsNow, QueueIsAttended, Armed
  <2> QED
    BY <1>i, <1>t, <2>1, <2>2, KeepsQueue, InvOfParts
<1>3. ASSUME NEW e \in Events, NEW t \in Targets, QueueBehindOthers(e, t) PROVE PresentInv'
  <2>1. /\ Asks(e, t) /\ Enqueued(e, t) /\ vblank_queue # <<>>
        /\ UNCHANGED <<now, ust_base, msc_base, interval, at, notifying, msc, stranded, expiry>>
    BY <1>3 DEF QueueBehindOthers
  <2>2. WalkIsNow'
    BY <1>i, <2>1 DEF WalkIsNow, Msc, MscAt
  <2>3. QueueIsAttended'
    BY <1>i, <2>1 DEF QueueIsAttended, Armed
  <2>4. InsideQueue' /\ Distinct' /\ QueueMatches'
    BY <2>1, QueuesOne
  <2> QED
    BY <1>t, <2>2, <2>3, <2>4, InvOfParts
<1>4. ASSUME NEW e \in Events, NEW t \in Targets, QueueAndStart(e, t) PROVE PresentInv'
  <2>1. /\ Asks(e, t) /\ Enqueued(e, t) /\ vblank_queue = <<>> /\ Fresh # {}
        /\ expiry' = [expiry EXCEPT ![NewTimer] = TimerTime(TargetUst(t))]
        /\ UNCHANGED <<at, notifying>>
    BY <1>4 DEF QueueAndStart
  <2>2. at = 0
    BY <1>n, <2>1 DEF Asks
  <2>3. NewTimer \in Timers /\ expiry'[NewTimer] # 0
    <3>1. TimerTime(TargetUst(t)) \in Nat \ {0}
      BY <1>t, TargetTime, TimesArePositive, PresentAssumption
    <3>2. NewTimer \in Timers
      BY <2>1, FreshIsTimer
    <3> QED
      BY <1>t, <2>1, <3>1, <3>2 DEF TypeOK
  <2>4. WalkIsNow' /\ QueueIsAttended'
    BY <2>1, <2>2, <2>3 DEF WalkIsNow, QueueIsAttended, Armed
  <2>5. InsideQueue' /\ Distinct' /\ QueueMatches'
    BY <2>1, QueuesOne
  <2> QED
    BY <1>t, <2>4, <2>5, InvOfParts
<1>5. ASSUME NEW e \in Events, NEW t \in Targets, QueueAndRunAtOnce(e, t) PROVE PresentInv'
  <2>1. /\ Asks(e, t) /\ Enqueued(e, t) /\ vblank_queue = <<>> /\ at' = 1
        /\ msc' = MscAt(now') /\ UNCHANGED <<ust_base, msc_base, interval, notifying>>
    BY <1>5 DEF QueueAndRunAtOnce
  <2>2. ~notifying
    BY <1>n, <2>1
  <2>3. WalkIsNow' /\ QueueIsAttended'
    BY <2>1 DEF WalkIsNow, QueueIsAttended, Msc, MscAt
  <2>4. InsideQueue' /\ Distinct' /\ QueueMatches'
    BY <2>1, <2>2, QueuesOne
  <2> QED
    BY <1>t, <2>3, <2>4, InvOfParts
<1>6. ASSUME NEW e \in Events, NEW t \in Targets, QueueFails(e, t) PROVE PresentInv'
  <2>1. /\ Asks(e, t) /\ status' = [status EXCEPT ![e] = "refused"]
        /\ UNCHANGED <<now, ust_base, msc_base, interval, vblank_queue, at, notifying, msc, stranded, expiry>>
    BY <1>6 DEF QueueFails
  <2>2. WalkIsNow' /\ QueueIsAttended'
    BY <1>i, <2>1 DEF WalkIsNow, Msc, MscAt, QueueIsAttended, Armed
  <2>3. InsideQueue' /\ Distinct' /\ HeldByWalk' = HeldByWalk /\ Queued' = Queued
    BY <1>i, <2>1 DEF InsideQueue, Distinct, HeldByWalk, Queued
  <2>4. status[e] = "new"
    BY <2>1 DEF Asks
  <2>5. {x \in Events : status'[x] = "queued"} = {x \in Events : status[x] = "queued"}
    BY <1>t, <2>1, <2>4 DEF TypeOK
  <2>6. ASSUME notifying PROVE status'[vblank_queue[at]] = "notified"
    <3>1. status[vblank_queue[at]] = "notified" /\ vblank_queue[at] \in Events
      BY <1>i, <1>t, <2>6 DEF QueueMatches, InsideQueue, TypeOK
    <3> QED
      BY <1>t, <2>1, <2>4, <3>1 DEF TypeOK
  <2>7. QueueMatches'
    BY <1>i, <2>1, <2>3, <2>5, <2>6 DEF QueueMatches
  <2> QED
    BY <1>t, <2>2, <2>3, <2>7, InvOfParts
<1>7. ASSUME NEW e \in Events, AbortVBlank(e) PROVE PresentInv'
  <2>1. /\ at = 0 /\ status' = [status EXCEPT ![e] = "aborted"]
        /\ UNCHANGED <<at, notifying, stranded, expiry>>
    BY <1>7 DEF AbortVBlank
  <2>2. PICK i \in DOMAIN vblank_queue :
           vblank_queue[i] = e /\ vblank_queue' = RemoveAt(vblank_queue, i)
    BY <1>7 DEF AbortVBlank
  <2>3. ~notifying
    BY <1>n, <2>1
  <2>4. Distinct' /\ Queued' = Queued \ {e}
    BY <2>2, TakesOne
  <2>5. {x \in Events : status'[x] = "queued"} = {x \in Events : status[x] = "queued"} \ {e}
    BY <1>t, <2>1 DEF TypeOK
  <2>6. InsideQueue' /\ QueueMatches'
    BY <1>i, <2>1, <2>3, <2>4, <2>5 DEF InsideQueue, QueueMatches, HeldByWalk
  <2>7. vblank_queue # <<>>
    BY <1>t, <2>2 DEF TypeOK
  <2>8. WalkIsNow' /\ QueueIsAttended'
    BY <1>i, <2>1, <2>7 DEF WalkIsNow, QueueIsAttended, Armed
  <2> QED
    BY <1>t, <2>4, <2>6, <2>8, InvOfParts
<1>8. ASSUME NEW timer \in Timers, DoTimer(timer) PROVE PresentInv'
  <2>1. /\ at = 0 /\ at' = 1 /\ msc' = Msc
        /\ UNCHANGED <<now, ust_base, msc_base, interval, vblank_queue, status, notifying>>
    BY <1>8 DEF DoTimer
  <2>2. ~notifying
    BY <1>n, <2>1
  <2>3. WalkIsNow' /\ QueueIsAttended'
    BY <2>1 DEF WalkIsNow, QueueIsAttended, Msc, MscAt
  <2> QED
    BY <1>i, <1>t, <2>1, <2>2, <2>3, KeepsQueue, InvOfParts
<1>9. CASE WalkSkips
  <2>1. /\ ~notifying /\ at \in DOMAIN vblank_queue /\ at' = at + 1
        /\ UNCHANGED <<now, ust_base, msc_base, interval, vblank_queue, status, notifying, msc>>
    BY <1>9 DEF WalkSkips, Visiting
  <2>2. at # 0 /\ at' # 0
    <3>1. vblank_queue \in Seq(Events) /\ at \in Nat
      BY <1>t DEF TypeOK
    <3>2. at # 0
      BY <2>1, <3>1
    <3> QED
      BY <2>1, <3>1, <3>2
  <2>3. WalkIsNow' /\ QueueIsAttended'
    BY <1>i, <2>1, <2>2 DEF WalkIsNow, QueueIsAttended, Msc, MscAt
  <2> QED
    BY <1>i, <1>t, <2>1, <2>3, KeepsQueue, InvOfParts
<1>10. CASE WalkNotifies
  <2> DEFINE e == vblank_queue[at]
  <2>1. /\ ~notifying /\ at \in DOMAIN vblank_queue /\ notifying' = TRUE
        /\ status' = [status EXCEPT ![e] = "notified"]
        /\ UNCHANGED <<now, ust_base, msc_base, interval, vblank_queue, at, msc>>
    BY <1>10 DEF WalkNotifies, Visiting
  <2>2. at # 0 /\ e \in Events
    BY <1>t, <2>1 DEF TypeOK
  <2>3. WalkIsNow' /\ QueueIsAttended' /\ InsideQueue' /\ Distinct'
    BY <1>i, <2>1, <2>2 DEF WalkIsNow, QueueIsAttended, Msc, MscAt, InsideQueue, Distinct
  <2>4. HeldByWalk = {} /\ HeldByWalk' = {e} /\ Queued' = Queued
    BY <2>1 DEF HeldByWalk, Queued
  <2>5. e \in Queued
    BY <1>t, <2>1 DEF Queued, ToSet, TypeOK
  <2>6. status'[e] = "notified" /\ vblank_queue'[at'] = e
    BY <1>t, <2>1, <2>2 DEF TypeOK
  <2>7. Queued = {x \in Events : status[x] = "queued"}
    BY <1>i, <2>4 DEF QueueMatches
  <2> HIDE DEF e
  <2>8. {x \in Events : status'[x] = "queued"} = {x \in Events : status[x] = "queued"} \ {e}
    BY <1>t, <2>1, <2>2 DEF TypeOK
  <2>9. QueueMatches'
    BY <2>4, <2>5, <2>6, <2>7, <2>8 DEF QueueMatches
  <2> QED
    BY <1>t, <2>3, <2>9, InvOfParts
<1>11. CASE WalkRemoves
  <2> DEFINE e == vblank_queue[at]
  <2>1. /\ notifying /\ notifying' = FALSE /\ vblank_queue' = RemoveAt(vblank_queue, at)
        /\ at' = (IF last THEN Len(vblank_queue) ELSE at)
        /\ UNCHANGED <<now, ust_base, msc_base, interval, msc, status>>
    BY <1>11 DEF WalkRemoves
  <2>2. at \in DOMAIN vblank_queue /\ at # 0 /\ at' # 0
    BY <1>i, <1>t, <2>1 DEF InsideQueue, TypeOK
  <2>3. Distinct' /\ Queued' = Queued \ {e}
    BY <2>1, <2>2, TakesOne
  <2>4. status[e] = "notified" /\ Queued = {x \in Events : status[x] = "queued"} \cup {e}
    BY <1>i, <2>1 DEF QueueMatches, HeldByWalk
  <2> HIDE DEF e
  <2>5. Queued' = {x \in Events : status'[x] = "queued"}
    BY <2>1, <2>3, <2>4
  <2>6. InsideQueue' /\ QueueMatches'
    BY <2>1, <2>5 DEF InsideQueue, QueueMatches, HeldByWalk
  <2>7. WalkIsNow' /\ QueueIsAttended'
    BY <1>i, <2>1, <2>2 DEF WalkIsNow, QueueIsAttended, Msc, MscAt
  <2> QED
    BY <1>t, <2>3, <2>6, <2>7, InvOfParts
<1>12. ASSUME WalkIsOver, Leave, QueueIsAttended' PROVE PresentInv'
  <2>1. ~notifying /\ at' = 0 /\ UNCHANGED <<vblank_queue, status, notifying>>
    BY <1>12 DEF WalkIsOver, Leave
  <2>2. WalkIsNow'
    BY <2>1 DEF WalkIsNow
  <2> QED
    BY <1>12, <1>i, <1>t, <2>1, <2>2, KeepsQueue, InvOfParts
<1>13. CASE WalkEnds
  <2>1. WalkIsOver /\ Leave /\ vblank_queue' = <<>>
    BY <1>13 DEF WalkEnds, Leave
  <2> QED
    BY <1>12, <2>1 DEF QueueIsAttended
<1>14. CASE WalkRearms
  <2> DEFINE timer == IF vblank_timer = NoTimer THEN NewTimer ELSE vblank_timer
             time == TimerTime(UstForMsc(msc + 1))
  <2>1. /\ WalkIsOver /\ Leave /\ expiry' = [expiry EXCEPT ![timer] = time]
        /\ vblank_timer = NoTimer => Fresh # {}
    BY <1>14 DEF WalkRearms
  <2>2. time \in Nat \ {0}
    <3>1. msc = Msc
      BY <1>i, <1>t, <2>1 DEF WalkIsOver, WalkIsNow, TypeOK
    <3>2. msc \in Nat /\ msc >= msc_base
      BY <1>t, <3>1, Frames, Modes
    <3> QED
      BY <1>t, <3>2, NextFrame, TimesArePositive
  <2>3. timer \in Timers
    BY <1>t, <2>1, FreshIsTimer DEF TypeOK
  <2> HIDE DEF timer, time
  <2>4. timer \in Armed'
    BY <1>t, <2>1, <2>2, <2>3 DEF TypeOK, Armed
  <2> QED
    BY <1>12, <2>1, <2>4 DEF QueueIsAttended
<1>15. CASE WalkFailsToRearm
  BY <1>12, <1>15 DEF WalkFailsToRearm, QueueIsAttended
<1>16. CASE UNCHANGED vars
  <2>1. UNCHANGED <<now, ust_base, msc_base, interval, vblank_queue, at, notifying, msc, status,
                    stranded, expiry>>
    BY <1>16 DEF vars
  <2>2. WalkIsNow' /\ QueueIsAttended'
    BY <1>i, <2>1 DEF WalkIsNow, Msc, MscAt, QueueIsAttended, Armed
  <2> QED
    BY <1>i, <1>t, <2>1, <2>2, KeepsQueue, InvOfParts
<1> QED
  BY <1>1, <1>2, <1>3, <1>4, <1>5, <1>6, <1>7, <1>8, <1>9, <1>10, <1>11, <1>13, <1>14, <1>15,
     <1>16 DEF Next, Extension, Walk

LEMMA Invariance == Spec => []PresentInv
<1> QED
  BY InitPresentInv, StepPresentInv, PTL DEF Spec

-----------------------------------------------------------------------------
(* Results *)

\* Every variable keeps its type.
THEOREM TypeCorrect == Spec => []TypeOK
<1>1. PresentInv => TypeOK
  BY DEF PresentInv
<1> QED
  BY <1>1, Invariance, PTL

\* Between walks a timer is armed while events wait, however aborts, late timers and events
\* queued in the middle of a walk follow each other.  (dummy_present_queue_vblank,
\* dummy_do_timer)
THEOREM EventsAttended == Spec => []QueueIsAttended
<1>1. PresentInv => QueueIsAttended
  BY DEF PresentInv
<1> QED
  BY <1>1, Invariance, PTL

\* The queue holds every event that waits, once, and between walks no other.
THEOREM EventsInQueue == Spec => []QueueIsPending
<1>1. PresentInv => QueueIsPending
  <2> SUFFICES ASSUME PresentInv PROVE QueueIsPending
    OBVIOUS
  <2>1. ~notifying => Queued = {e \in Events : status[e] = "queued"}
    BY DEF PresentInv, QueueMatches, HeldByWalk
  <2>2. at = 0 => ~notifying
    BY DEF PresentInv, InsideQueue, TypeOK
  <2>3. \A i, j \in DOMAIN vblank_queue : vblank_queue[i] = vblank_queue[j] => i = j
    BY DEF PresentInv, Distinct
  <2> QED
    BY <2>1, <2>2, <2>3 DEF QueueIsPending
<1> QED
  BY <1>1, Invariance, PTL

-----------------------------------------------------------------------------
(* What the driver promises the extension *)

LEMMA FramesGrow ==
    ASSUME TypeOK, UNCHANGED <<ust_base, msc_base, interval>>, now' \in Nat, now <= now'
    PROVE  Msc' >= Msc
<1>1. Msc' = MscAt(now')
  BY DEF Msc, MscAt
<1>2. Msc \in Nat /\ MscAt(now') \in Nat /\ Msc <= MscAt(now')
  BY Frames
<1> QED
  BY <1>1, <1>2

LEMMA InitImplements == Init => Promise!EventsInit
<1> SUFFICES ASSUME Init PROVE Promise!EventsInit
  OBVIOUS
<1>1. TypeOK /\ now = 0 /\ ust_base = 0 /\ msc_base = 0
  BY InitTypeOK DEF Init
<1>2. Msc = 0
  <2>1. interval \in Nat \ {0}
    BY <1>1, Modes
  <2>2. 0 \div interval = 0
    BY <2>1, NoQuotient
  <2>3. now - ust_base = 0
    BY <1>1
  <2> QED
    BY <1>1, <2>2, <2>3 DEF Msc, MscAt
<1> QED
  BY <1>2 DEF Init, Promise!EventsInit

\* A step that only takes time
LEMMA Waits ==
    ASSUME TypeOK, UNCHANGED <<ust_base, msc_base, interval, target_msc, status>>,
           now' \in Nat, now <= now'
    PROVE  Promise!EventsNext
  BY FramesGrow DEF Promise!EventsNext

LEMMA EnqueuedQueues ==
    ASSUME TypeOK, TypeOK', NEW e \in Events, NEW t \in Targets, Asks(e, t), Enqueued(e, t)
    PROVE  Promise!Queue(e)
  BY DEF TypeOK, Asks, Enqueued, Promise!Queue, Promise!Becomes

LEMMA StepImplements ==
    PresentInv /\ PresentInv' /\ [Next]_vars => [Promise!EventsNext]_(Promise!eventVars)
<1> SUFFICES ASSUME PresentInv, PresentInv', [Next]_vars
             PROVE  Promise!EventsNext \/ UNCHANGED <<Msc, target_msc, status>>
  BY DEF Promise!eventVars
<1> USE DEF crtcVars, walkVars, eventVars, timerVars, countVars
<1>t. TypeOK /\ TypeOK' /\ now \in Nat /\ now' \in Nat
  BY DEF PresentInv, TypeOK
<1>1. CASE Tick
  BY <1>1, <1>t, Waits DEF Tick
<1>2. ASSUME NEW i \in Intervals, SetMode(i) PROVE Promise!EventsNext
  <2>1. msc_base' = Msc /\ ust_base' = now' /\ UNCHANGED <<target_msc, status>>
    BY <1>2 DEF SetMode
  <2>2. interval' \in Nat \ {0} /\ now' - ust_base' = 0
    <3>1. interval' \in Nat \ {0}
      BY <1>t, Modes, PresentAssumption DEF TypeOK
    <3>2. ust_base' = now' /\ now' \in Nat /\ ust_base' \in Nat
      BY <1>t, <2>1
    <3>3. now' - ust_base' = 0
      BY <3>2, NoDifference
    <3> QED
      BY <3>1, <3>3
  <2>3. 0 \div interval' = 0
    BY <2>2, NoQuotient
  <2>4. Msc \in Nat
    BY <1>t, Frames
  <2>5. Msc' = Msc
    BY <2>1, <2>2, <2>3, <2>4 DEF Msc, MscAt
  <2>6. Msc' >= Msc
    BY <2>4, <2>5
  <2> QED
    BY <2>1, <2>6 DEF Promise!EventsNext
<1>3. ASSUME NEW e \in Events, NEW t \in Targets,
             Asks(e, t), Enqueued(e, t), UNCHANGED <<ust_base, msc_base, interval>>, now <= now'
      PROVE  Promise!EventsNext
  BY <1>3, <1>t, EnqueuedQueues, FramesGrow DEF Promise!EventsNext
<1>4. ASSUME NEW e \in Events, NEW t \in Targets, QueueBehindOthers(e, t) PROVE Promise!EventsNext
  BY <1>3, <1>4, <1>t DEF QueueBehindOthers
<1>5. ASSUME NEW e \in Events, NEW t \in Targets, QueueAndStart(e, t) PROVE Promise!EventsNext
  <2>1. now <= now'
    BY <1>5, <1>t, PresentAssumption DEF QueueAndStart
  <2> QED
    BY <1>3, <1>5, <2>1 DEF QueueAndStart
<1>6. ASSUME NEW e \in Events, NEW t \in Targets, QueueAndRunAtOnce(e, t) PROVE Promise!EventsNext
  <2>1. now <= now'
    BY <1>6, <1>t, PresentAssumption DEF QueueAndRunAtOnce
  <2> QED
    BY <1>3, <1>6, <2>1 DEF QueueAndRunAtOnce
<1>7. ASSUME NEW e \in Events, NEW t \in Targets, QueueFails(e, t) PROVE Promise!EventsNext
  <2>1. Promise!Refuse(e)
    BY <1>7 DEF QueueFails, Asks, Promise!Refuse, Promise!Becomes
  <2>2. UNCHANGED <<now, ust_base, msc_base, interval>>
    BY <1>7 DEF QueueFails
  <2>3. Msc' >= Msc
    BY <1>t, <2>2, FramesGrow
  <2> QED
    BY <2>1, <2>3 DEF Promise!EventsNext
<1>8. ASSUME NEW e \in Events, AbortVBlank(e) PROVE Promise!EventsNext
  <2>1. /\ at = 0 /\ status' = [status EXCEPT ![e] = "aborted"]
        /\ UNCHANGED <<now, ust_base, msc_base, interval, target_msc>>
    BY <1>8 DEF AbortVBlank
  <2>2. e \in Queued
    BY <1>8, <1>t DEF AbortVBlank, Queued, ToSet, TypeOK
  <2>3. HeldByWalk = {}
    BY <1>t, <2>1 DEF PresentInv, InsideQueue, HeldByWalk, TypeOK
  <2>4. status[e] = "queued"
    BY <2>2, <2>3 DEF PresentInv, QueueMatches
  <2>5. Promise!Abort(e)
    BY <2>1, <2>4 DEF Promise!Abort, Promise!Becomes
  <2>6. Msc' >= Msc
    BY <1>t, <2>1, FramesGrow
  <2> QED
    BY <2>5, <2>6 DEF Promise!EventsNext
<1>9. ASSUME NEW timer \in Timers, DoTimer(timer) PROVE Promise!EventsNext
  BY <1>9, <1>t, Waits DEF DoTimer
<1>10. CASE WalkSkips
  BY <1>10, <1>t, Waits DEF WalkSkips
<1>11. CASE WalkNotifies
  <2> DEFINE e == vblank_queue[at]
  <2>1. /\ ~notifying /\ at \in DOMAIN vblank_queue /\ msc >= target_msc[e]
        /\ status' = [status EXCEPT ![e] = "notified"]
        /\ UNCHANGED <<now, ust_base, msc_base, interval, target_msc>>
    BY <1>11 DEF WalkNotifies, Visiting
  <2>2. e \in Events /\ e \in Queued /\ at # 0
    BY <1>t, <2>1 DEF Queued, ToSet, TypeOK
  <2> HIDE DEF e
  <2>3. status[e] = "queued"
    BY <2>1, <2>2 DEF PresentInv, QueueMatches, HeldByWalk
  <2>4. target_msc[e] <= Msc
    BY <1>t, <2>1, <2>2 DEF PresentInv, WalkIsNow, TypeOK
  <2>5. Promise!Notify(e)
    BY <2>1, <2>3, <2>4 DEF Promise!Notify, Promise!Becomes
  <2>6. Msc' >= Msc
    BY <1>t, <2>1, FramesGrow
  <2> QED
    BY <2>2, <2>5, <2>6 DEF Promise!EventsNext
<1>12. CASE WalkRemoves
  BY <1>12, <1>t, Waits DEF WalkRemoves
<1>13. CASE WalkEnds \/ WalkRearms \/ WalkFailsToRearm
  BY <1>13, <1>t, Waits DEF WalkEnds, WalkRearms, WalkFailsToRearm, Leave
<1>14. CASE UNCHANGED vars
  BY <1>14, <1>t, Waits DEF vars
<1> QED
  BY <1>1, <1>2, <1>4, <1>5, <1>6, <1>7, <1>8, <1>9, <1>10, <1>11, <1>12, <1>13, <1>14
  DEF Next, Extension, Walk

\* The clockless promise is kept: no event is notified before its frame, twice, or after it
\* was aborted or refused, and the frame counter does not go back.
THEOREM Implements == Spec => EventsSpec
<1> QED
  BY Invariance, InitImplements, StepImplements, PTL DEF Spec, EventsSpec, Promise!EventsSpec
=============================================================================
