------------------------ MODULE ScanPipelineProofs ------------------------
(***************************************************************************)
(* Proofs about the scan: ScanPipeline, for every screen, every way of     *)
(* cutting it into rectangles and every bound, and TileScan, for every     *)
(* number of tiles, every size of the screen and every change.             *)
(***************************************************************************)
EXTENDS ScanPipeline, TileScan, SequenceTheorems, FiniteSetTheorems, WellFoundedInduction, TLAPS

\* The damage events on the wire
Events == [area : Areas, more : BOOLEAN]

LEMMA HeadTail ==
    ASSUME NEW S, NEW s \in Seq(S), s # <<>>
    PROVE  Head(s) \in S /\ Tail(s) \in Seq(S)
  OBVIOUS

LEMMA Concatenation ==
    ASSUME NEW S, NEW s \in Seq(S), NEW t \in Seq(S)
    PROVE  s \o t \in Seq(S)
  OBVIOUS

\* The damage events of one drawing make a sequence of events.
LEMMA EventsOfDrawing ==
    ASSUME NEW rects \in Drawings
    PROVE  [i \in DOMAIN rects |-> [area |-> rects[i], more |-> i # Len(rects)]]
               \in Seq(Events)
<1> DEFINE ev(i) == [area |-> rects[i], more |-> i # Len(rects)]
<1>1. rects \in Seq(Areas)
  BY PipelineAssumption
<1>2. Len(rects) \in Nat /\ DOMAIN rects = 1..Len(rects)
  BY <1>1
<1>3. \A i \in 1..Len(rects) : ev(i) \in Events
  BY <1>1, <1>2 DEF Events
<1> HIDE DEF ev
<1>4. [i \in DOMAIN rects |-> ev(i)] \in [1..Len(rects) -> Events]
  BY <1>2, <1>3
<1>5. [i \in DOMAIN rects |-> ev(i)] \in Seq(Events)
  BY <1>2, <1>4
<1> QED
  BY <1>5 DEF ev

\* What PipelineAssumption says of the rectangles of a region and of a scan.
LEMMA Rectangles ==
    ASSUME NEW area \in SUBSET Cells
    PROVE  /\ Bands[area] \in Seq(Areas)
           /\ ScanReports[area] \in Seq(Areas)
  BY PipelineAssumption DEF Covers, AtLeast

\* Push keeps the queue a queue of areas.
LEMMA PushType ==
    ASSUME NEW report \in SUBSET Cells, Push(report),
           queue \in Seq(SUBSET Cells), region \in SUBSET Cells
    PROVE  queue' \in Seq(SUBSET Cells) /\ region' \in SUBSET Cells
<1>1. CASE report \cap region # {}
  BY <1>1 DEF Push, sharedVars
<1>2. CASE report \cap region = {}
  BY <1>2 DEF Push
<1> QED
  BY <1>1, <1>2

LEMMA ImageType ==
    ASSUME TypeOK
    PROVE  /\ NoImage \in Drawables
           /\ \A area \in SUBSET Cells : Image(area) \in Drawables
  BY DEF TypeOK, Image, NoImage, Drawables

LEMMA PaintType ==
    ASSUME NEW surface \in [Cells -> Nat], NEW d \in Drawables
    PROVE  Paint(surface, d) \in [Cells -> Nat]
  BY DEF Paint, Drawables

\* How a scan ends: either something is left to push or the lock is released.
LEMMA PushingType ==
    ASSUME NEW reports \in Seq(Areas), Pushing(reports)
    PROVE  /\ scan_out' \in Seq(Areas)
           /\ pc' \in {"pop", "push"}
           /\ pc' = "push" <=> scan_out' # <<>>
  BY DEF Pushing

\* The initial states have the declared types.
LEMMA InitTypeOK == Init => TypeOK
  BY PipelineAssumption DEF Init, TypeOK, NoImage, Drawables

\* Every step of every thread preserves the types.
LEMMA StepTypeOK == TypeOK /\ [Next]_vars => TypeOK'
<1> SUFFICES ASSUME TypeOK, [Next]_vars PROVE TypeOK'
  OBVIOUS
<1> USE DEF xvars, eventVars, sharedVars, scanVars, reportVars, outVars, optionVars
<1>0. xevents \in Seq(Events) /\ NoImage \in Drawables
  BY ImageType DEF TypeOK, Events
<1>1. CASE XDraw
  <2>1. PICK rects \in Drawings :
          /\ screen' = [c \in Cells |->
                 IF c \in UNION {rects[i] : i \in DOMAIN rects} THEN screen[c] + 1 ELSE screen[c]]
          /\ xevents' = IF full_screen_fps THEN xevents
                        ELSE xevents \o [i \in DOMAIN rects |->
                               [area |-> rects[i], more |-> i # Len(rects)]]
    BY <1>1 DEF XDraw
  <2>2. screen' \in [Cells -> Nat]
    BY <2>1 DEF TypeOK
  <2>3. xevents' \in Seq(Events)
    <3> DEFINE new == [i \in DOMAIN rects |->
                          [area |-> rects[i], more |-> i # Len(rects)]]
    <3>1. new \in Seq(Events)
      BY EventsOfDrawing
    <3>2. xevents' \in {xevents, xevents \o new}
      BY <2>1
    <3> HIDE DEF new
    <3> QED
      BY <1>0, <3>1, <3>2, Concatenation
  <2>4. drawings' \in 0..MaxDrawings
    BY <1>1, PipelineAssumption DEF XDraw, TypeOK
  <2> QED
    BY <1>1, <2>2, <2>3, <2>4 DEF XDraw, TypeOK, Events
<1>2. CASE HandleDamageNotify
  <2>1. xevents # <<>> /\ xevents' = Tail(xevents)
    BY <1>2 DEF HandleDamageNotify
  <2>2. Head(xevents) \in Events /\ xevents' \in Seq(Events)
    BY <1>0, <2>1, HeadTail
  <2> DEFINE all == damage_region \cup Head(xevents).area
  <2>3. all \in SUBSET Cells
    BY <2>2 DEF TypeOK, Areas, Events
  <2>4. Bands[all] \in Seq(SUBSET Cells)
    BY <2>3, Rectangles DEF Areas
  <2>5. /\ damage_region' \in SUBSET Cells
        /\ fullscreen_damage_count' \in Nat
        /\ damage_out' \in Seq(SUBSET Cells)
    <3>1. CASE Head(xevents).more
      BY <1>2, <2>3, <3>1 DEF HandleDamageNotify, TypeOK
    <3>2. CASE ~Head(xevents).more
      <4>1. /\ damage_region' = {}
            /\ fullscreen_damage_count' \in {0, fullscreen_damage_count + 1}
            /\ damage_out' \in {Bands[all], <<{}>>}
        BY <1>2, <3>2 DEF HandleDamageNotify
      <4>2. <<{}>> \in Seq(SUBSET Cells)
        OBVIOUS
      <4>3. damage_out' \in Seq(SUBSET Cells)
        <5> HIDE DEF all
        <5> QED
          BY <2>4, <4>1, <4>2
      <4>4. fullscreen_damage_count' \in Nat
        BY <4>1 DEF TypeOK
      <4> QED
        BY <4>1, <4>3, <4>4
    <3> QED
      BY <3>1, <3>2
  <2> QED
    BY <1>2, <2>2, <2>5 DEF HandleDamageNotify, TypeOK, Events
<1>3. CASE PushDamage
  <2>1. Head(damage_out) \in SUBSET Cells /\ damage_out' \in Seq(SUBSET Cells)
    BY <1>3 DEF PushDamage, TypeOK
  <2>2. queue' \in Seq(SUBSET Cells) /\ region' \in SUBSET Cells
    BY <1>3, <2>1, PushType DEF PushDamage, TypeOK
  <2> QED
    BY <1>3, <2>1, <2>2 DEF PushDamage, TypeOK
<1>4. CASE PopReport
  BY <1>4 DEF PopReport, TypeOK
<1>5. CASE PopTimeout
  BY <1>5, PipelineAssumption DEF PopTimeout, NextLine, Whole, TypeOK
<1>6. CASE ScanRow
  <2> DEFINE found == changed \cup
              {c \in Cells : /\ RowOf[c] = row
                             /\ (PhaseOf[c] + 1) % Phases = current_scanline
                             /\ Differs(c)}
  <2>1. found \in SUBSET Cells
    BY DEF TypeOK
  <2>2. ScanReports[found] \in Seq(Areas)
    BY <2>1, Rectangles
  <2> HIDE DEF found
  <2>3. CASE row < Rows
    <3>1. /\ changed' = found /\ row' = row + 1
          /\ UNCHANGED <<pc, scan_out>>
      BY <1>6, <2>3 DEF ScanRow, found
    <3> QED
      BY <1>6, <2>1, <2>3, <3>1, PipelineAssumption DEF ScanRow, TypeOK
  <2>4. CASE ~(row < Rows)
    <3>1. changed' = {} /\ row' = 1 /\ Pushing(ScanReports[found])
      BY <1>6, <2>4 DEF ScanRow, found
    <3>2. /\ scan_out' \in Seq(Areas) /\ pc' \in {"pop", "push"}
          /\ pc' = "push" <=> scan_out' # <<>>
      BY <2>2, <3>1, PushingType
    <3> QED
      BY <1>6, <3>1, <3>2, PipelineAssumption DEF ScanRow, TypeOK
  <2> QED
    BY <2>3, <2>4
<1>7. CASE ScanFullScreen
  <2>1. ScanReports[{c \in Cells : Differs(c)}] \in Seq(Areas)
    BY Rectangles
  <2>2. /\ scan_out' \in Seq(Areas) /\ pc' \in {"pop", "push"}
        /\ pc' = "push" <=> scan_out' # <<>>
    BY <1>7, <2>1, PushingType DEF ScanFullScreen
  <2> QED
    BY <1>7, <2>2 DEF ScanFullScreen, TypeOK
<1>8. CASE ScanFails
  BY <1>8, PipelineAssumption DEF ScanFails, Fail, TypeOK
<1>9. CASE PushScan
  <2>1. Head(scan_out) \in SUBSET Cells /\ Tail(scan_out) \in Seq(Areas)
    BY <1>9 DEF PushScan, TypeOK, Areas
  <2>2. queue' \in Seq(SUBSET Cells) /\ region' \in SUBSET Cells
    BY <1>9, <2>1, PushType DEF PushScan, TypeOK
  <2>3. /\ scan_out' \in Seq(Areas) /\ pc' \in {"pop", "push"}
        /\ pc' = "push" <=> scan_out' # <<>>
    BY <1>9, <2>1, PushingType DEF PushScan
  <2> QED
    BY <1>9, <2>2, <2>3 DEF PushScan, TypeOK
<1>10. CASE RemoveRegion
  BY <1>10 DEF RemoveRegion, TypeOK
<1>11. CASE ReadImage
  BY <1>11, ImageType DEF ReadImage, TypeOK
<1>12. CASE ReadFails
  BY <1>12, PipelineAssumption DEF ReadFails, Fail, TypeOK
<1>13. CASE CopyIntoFullscreen
  <2>1. fullscreen' \in [Cells -> Nat]
    BY <1>13, PaintType DEF CopyIntoFullscreen, TypeOK
  <2> QED
    BY <1>13, <2>1 DEF CopyIntoFullscreen, TypeOK
<1>14. CASE PushDraw
  <2>1. draw_queue' \in Seq(Drawables)
    BY <1>14 DEF PushDraw, TypeOK
  <2> QED
    BY <1>0, <1>14, <2>1 DEF PushDraw, TypeOK
<1>15. CASE DrawableFails
  BY <1>0, <1>15, PipelineAssumption DEF DrawableFails, Fail, TypeOK
<1>16. CASE GetCommand
  <2>1. Head(draw_queue) \in Drawables /\ draw_queue' \in Seq(Drawables)
    BY <1>16 DEF GetCommand, TypeOK
  <2>2. client' \in [Cells -> Nat]
    BY <1>16, <2>1, PaintType DEF GetCommand, TypeOK
  <2> QED
    BY <1>16, <2>1, <2>2 DEF GetCommand, TypeOK
<1>17. CASE DamagePushFails
  <2>1. damage_out' \in Seq(SUBSET Cells)
    BY <1>17, HeadTail DEF DamagePushFails, TypeOK
  <2> QED
    BY <1>17, <2>1, PipelineAssumption DEF DamagePushFails, Fail, TypeOK
<1>18. CASE ScanPushFails
  <2>1. Tail(scan_out) \in Seq(Areas)
    BY <1>18, HeadTail DEF ScanPushFails, TypeOK
  <2>2. /\ scan_out' \in Seq(Areas) /\ pc' \in {"pop", "push"}
        /\ pc' = "push" <=> scan_out' # <<>>
    BY <1>18, <2>1, PushingType DEF ScanPushFails
  <2> QED
    BY <1>18, <2>2, PipelineAssumption DEF ScanPushFails, Fail, TypeOK
<1>19. CASE UNCHANGED vars
  BY <1>19 DEF vars, TypeOK
<1> QED
  BY <1>1, <1>2, <1>3, <1>4, <1>5, <1>6, <1>7, <1>8, <1>9, <1>10, <1>11, <1>12,
     <1>13, <1>14, <1>15, <1>16, <1>17, <1>18, <1>19 DEF Next, EventThread, ScannerThread

\* The declared types hold for every screen, geometry and bound.
THEOREM TypeCorrect == Spec => []TypeOK
<1> QED
  BY InitTypeOK, StepTypeOK, PTL DEF Spec

-----------------------------------------------------------------------------
(* The queue and the region that summarises it *)

AreaOf(q) == UNION {q[i] : i \in DOMAIN q}

LEMMA AreaOfAppend ==
    ASSUME NEW q \in Seq(SUBSET Cells), NEW a \in SUBSET Cells
    PROVE  AreaOf(Append(q, a)) = AreaOf(q) \cup a
<1>1. /\ DOMAIN q = 1..Len(q) /\ Len(q) \in Nat
      /\ DOMAIN Append(q, a) = 1..(Len(q) + 1)
      /\ \A i \in 1..Len(q) : Append(q, a)[i] = q[i]
      /\ Append(q, a)[Len(q) + 1] = a
  OBVIOUS
<1>2. 1..(Len(q) + 1) = (1..Len(q)) \cup {Len(q) + 1}
  BY <1>1
<1> QED
  BY <1>1, <1>2 DEF AreaOf

LEMMA AreaOfPop ==
    ASSUME NEW q \in Seq(SUBSET Cells), q # <<>>
    PROVE  AreaOf(q) = Head(q) \cup AreaOf(Tail(q))
<1>1. /\ DOMAIN q = 1..Len(q) /\ Len(q) \in Nat \ {0} /\ Head(q) = q[1]
      /\ DOMAIN Tail(q) = 1..(Len(q) - 1)
      /\ \A i \in 1..(Len(q) - 1) : Tail(q)[i] = q[i + 1]
  OBVIOUS
<1>2. \A i \in 1..Len(q) : i = 1 \/ i - 1 \in 1..(Len(q) - 1)
  BY <1>1
<1>3. \A i \in 1..(Len(q) - 1) : i + 1 \in 1..Len(q)
  BY <1>1
<1>4. \A i \in 1..Len(q) : q[i] \subseteq Head(q) \cup AreaOf(Tail(q))
  <2> TAKE i \in 1..Len(q)
  <2>1. CASE i = 1
    BY <1>1, <2>1
  <2>2. CASE i # 1
    <3>1. i - 1 \in 1..(Len(q) - 1) /\ Tail(q)[i - 1] = q[i]
      BY <1>1, <1>2, <2>2
    <3> QED
      BY <1>1, <3>1 DEF AreaOf
  <2> QED
    BY <2>1, <2>2
<1>5. AreaOf(Tail(q)) \subseteq AreaOf(q) /\ Head(q) \subseteq AreaOf(q)
  BY <1>1, <1>3 DEF AreaOf
<1> QED
  BY <1>1, <1>4, <1>5 DEF AreaOf

\* What the two threads keep true of queue and region between their steps
QueueInv == RegionIsQueued /\ ReportsAreApart

\* scanner_push, whichever thread calls it and whether or not it discards
LEMMA PushKeepsQueueInv ==
    ASSUME TypeOK, QueueInv, NEW report \in SUBSET Cells, Push(report),
           Popped' = Popped
    PROVE  QueueInv'
<1>1. CASE report \cap region # {}
  BY <1>1 DEF Push, sharedVars, QueueInv, RegionIsQueued, ReportsAreApart
<1>2. CASE report \cap region = {}
  <2>1. region' = region \cup report /\ queue' = Append(queue, report)
    BY <1>2 DEF Push
  <2>2. queue \in Seq(SUBSET Cells) /\ region = Popped \cup AreaOf(queue)
    BY DEF TypeOK, QueueInv, RegionIsQueued, AreaOf
  <2>3. RegionIsQueued'
    BY <2>1, <2>2, AreaOfAppend DEF RegionIsQueued, AreaOf
  <2>4. /\ DOMAIN queue = 1..Len(queue) /\ Len(queue) \in Nat
        /\ DOMAIN queue' = (1..Len(queue)) \cup {Len(queue) + 1}
        /\ \A i \in 1..Len(queue) : queue'[i] = queue[i]
        /\ queue'[Len(queue) + 1] = report
    BY <2>1, <2>2
  <2>5. /\ report \cap Popped = {}
        /\ \A i \in 1..Len(queue) : queue[i] \cap report = {}
    BY <1>2, <2>2, <2>4 DEF AreaOf
  <2>6. ReportsAreApart'
    <3>1. ASSUME NEW i \in DOMAIN queue', NEW j \in DOMAIN queue', i # j
          PROVE  queue'[i] \cap queue'[j] = {}
      BY <2>4, <2>5, <3>1 DEF QueueInv, ReportsAreApart
    <3>2. ASSUME NEW i \in DOMAIN queue'
          PROVE  queue'[i] \cap Popped' = {}
      BY <2>4, <2>5, <3>2 DEF QueueInv, ReportsAreApart
    <3> QED
      BY <3>1, <3>2 DEF ReportsAreApart
  <2> QED
    BY <2>3, <2>6 DEF QueueInv
<1> QED
  BY <1>1, <1>2

LEMMA InitQueueInv == Init => QueueInv
  BY DEF Init, QueueInv, RegionIsQueued, ReportsAreApart, Popped

LEMMA StepQueueInv == TypeOK /\ QueueInv /\ [Next]_vars => QueueInv'
<1> SUFFICES ASSUME TypeOK, QueueInv, [Next]_vars PROVE QueueInv'
  OBVIOUS
<1> USE DEF xvars, eventVars, scanVars, reportVars, outVars, optionVars
\* Steps that leave queue, region and the popped report alone
<1>1. ASSUME UNCHANGED sharedVars, Popped' = Popped
      PROVE  QueueInv'
  BY <1>1 DEF sharedVars, QueueInv, RegionIsQueued, ReportsAreApart
<1>2. CASE PushDamage
  <2>1. Head(damage_out) \in SUBSET Cells
    BY <1>2, HeadTail DEF PushDamage, TypeOK
  <2>2. Popped' = Popped /\ Push(Head(damage_out))
    BY <1>2 DEF PushDamage, Popped
  <2> QED
    BY <2>1, <2>2, PushKeepsQueueInv
<1>3. CASE PushScan
  <2>1. Head(scan_out) \in SUBSET Cells
    BY <1>3, HeadTail DEF PushScan, TypeOK, Areas
  <2>2. Popped' = Popped /\ Push(Head(scan_out))
    BY <1>3 DEF PushScan, Pushing, Popped
  <2> QED
    BY <2>1, <2>2, PushKeepsQueueInv
<1>4. CASE PopReport
  <2>1. /\ queue \in Seq(SUBSET Cells) /\ queue # <<>>
        /\ queue' = Tail(queue) /\ region' = region
        /\ Popped = {} /\ Popped' = Head(queue)
    BY <1>4 DEF PopReport, TypeOK, Popped
  <2>2. RegionIsQueued'
    <3>1. region' = AreaOf(queue)
      BY <2>1 DEF QueueInv, RegionIsQueued, AreaOf
    <3> QED
      BY <2>1, <3>1, AreaOfPop DEF RegionIsQueued, AreaOf
  <2>3. /\ DOMAIN queue = 1..Len(queue) /\ Len(queue) \in Nat \ {0}
        /\ Head(queue) = queue[1] /\ DOMAIN queue' = 1..(Len(queue) - 1)
        /\ \A i \in 1..(Len(queue) - 1) : queue'[i] = queue[i + 1]
    BY <2>1
  <2>4. \A i \in 1..(Len(queue) - 1) : i + 1 \in 1..Len(queue) /\ i + 1 # 1
    BY <2>3
  <2>5. 1 \in 1..Len(queue)
    BY <2>3
  <2>6. ASSUME NEW i \in DOMAIN queue', NEW j \in DOMAIN queue', i # j
        PROVE  queue'[i] \cap queue'[j] = {}
    <3>1. i + 1 # j + 1
      BY <2>3, <2>6
    <3> QED
      BY <2>3, <2>4, <3>1 DEF QueueInv, ReportsAreApart
  <2>7. ASSUME NEW i \in DOMAIN queue'
        PROVE  queue'[i] \cap Popped' = {}
    BY <2>1, <2>3, <2>4, <2>5 DEF QueueInv, ReportsAreApart
  <2> QED
    BY <2>2, <2>6, <2>7 DEF QueueInv, ReportsAreApart
<1>5. CASE RemoveRegion
  <2>1. /\ queue' = queue /\ region' = region \ cur
        /\ Popped = cur /\ Popped' = {}
    BY <1>5 DEF RemoveRegion, Popped
  <2> QED
    BY <2>1 DEF QueueInv, RegionIsQueued, ReportsAreApart
<1>6. CASE XDraw
  BY <1>1, <1>6 DEF XDraw, Popped
<1>7. CASE HandleDamageNotify
  BY <1>1, <1>7 DEF HandleDamageNotify, Popped
<1>8. CASE PopTimeout
  BY <1>1, <1>8 DEF PopTimeout, Popped
<1>9. CASE ScanRow
  BY <1>1, <1>9 DEF ScanRow, Pushing, Popped
<1>10. CASE ScanFullScreen
  BY <1>1, <1>10 DEF ScanFullScreen, Pushing, Popped
<1>11. CASE ScanFails
  BY <1>1, <1>11 DEF ScanFails, Popped
<1>12. CASE ReadImage \/ ReadFails
  BY <1>1, <1>12 DEF ReadImage, ReadFails, Popped
<1>13. CASE CopyIntoFullscreen
  BY <1>1, <1>13 DEF CopyIntoFullscreen, Popped
<1>14. CASE PushDraw \/ DrawableFails
  BY <1>1, <1>14 DEF PushDraw, DrawableFails, Popped
<1>15. CASE GetCommand
  BY <1>1, <1>15 DEF GetCommand, Popped
<1>16. CASE DamagePushFails \/ ScanPushFails
  BY <1>1, <1>16 DEF DamagePushFails, ScanPushFails, Pushing, Popped
<1>17. CASE UNCHANGED vars
  BY <1>1, <1>17 DEF vars, Popped
<1> QED
  BY <1>2, <1>3, <1>4, <1>5, <1>6, <1>7, <1>8, <1>9, <1>10, <1>11, <1>12, <1>13,
     <1>14, <1>15, <1>16, <1>17 DEF Next, EventThread, ScannerThread

\* The region is exactly what is queued or just popped: nothing is discarded
\* on account of a report that is not there.
THEOREM RegionMatchesQueue == Spec => []RegionIsQueued
<1>1. TypeOK /\ QueueInv => RegionIsQueued
  BY DEF QueueInv
<1> QED
  BY <1>1, InitTypeOK, StepTypeOK, InitQueueInv, StepQueueInv, PTL DEF Spec

\* No two queued reports overlap, whichever thread queued them.
THEOREM QueuedReportsApart == Spec => []ReportsAreApart
<1>1. TypeOK /\ QueueInv => ReportsAreApart
  BY DEF QueueInv
<1> QED
  BY <1>1, InitTypeOK, StepTypeOK, InitQueueInv, StepQueueInv, PTL DEF Spec

-----------------------------------------------------------------------------
(* fullscreen, and what is on its way to the client *)

\* Cell c of surface becomes that of target once the drawables q are rendered.
Leads(q, surface, target, c) ==
    /\ (\A i \in DOMAIN q : c \notin q[i].area) => surface[c] = target[c]
    /\ \A i \in DOMAIN q :
          (c \in q[i].area /\ \A j \in DOMAIN q : c \in q[j].area => j <= i)
              => q[i].version[c] = target[c]

LEMMA LeadsAppendInside ==
    ASSUME NEW q \in Seq(Drawables), NEW d \in Drawables, NEW c \in d.area,
           NEW surface, NEW target, d.version[c] = target[c]
    PROVE  Leads(Append(q, d), surface, target, c)
<1>1. /\ Len(q) \in Nat /\ DOMAIN Append(q, d) = 1..(Len(q) + 1)
      /\ Append(q, d)[Len(q) + 1] = d
  OBVIOUS
<1>2. ASSUME NEW i \in 1..(Len(q) + 1), Len(q) + 1 <= i PROVE i = Len(q) + 1
  BY <1>1, <1>2
<1>3. Len(q) + 1 \in 1..(Len(q) + 1)
  BY <1>1
<1> QED
  BY <1>1, <1>2, <1>3 DEF Leads

LEMMA LeadsAppendOutside ==
    ASSUME NEW q \in Seq(Drawables), NEW d \in Drawables, NEW c, c \notin d.area,
           NEW surface, NEW target
    PROVE  Leads(Append(q, d), surface, target, c) <=> Leads(q, surface, target, c)
<1>1. /\ Len(q) \in Nat /\ DOMAIN q = 1..Len(q)
      /\ DOMAIN Append(q, d) = (1..Len(q)) \cup {Len(q) + 1}
      /\ \A i \in 1..Len(q) : Append(q, d)[i] = q[i]
      /\ Append(q, d)[Len(q) + 1] = d
  OBVIOUS
<1> QED
  BY <1>1 DEF Leads

\* Rendering the first drawable leaves the rest to lead to the same target.
LEMMA LeadsRender ==
    ASSUME NEW q \in Seq(Drawables), q # <<>>, NEW c \in Cells,
           NEW surface \in [Cells -> Nat], NEW target \in [Cells -> Nat],
           Leads(q, surface, target, c)
    PROVE  Leads(Tail(q), Paint(surface, Head(q)), target, c)
<1>1. /\ Len(q) \in Nat \ {0} /\ DOMAIN q = 1..Len(q) /\ Head(q) = q[1]
      /\ DOMAIN Tail(q) = 1..(Len(q) - 1)
      /\ \A i \in 1..(Len(q) - 1) : Tail(q)[i] = q[i + 1]
  OBVIOUS
<1>2. \A i \in 1..Len(q) : i = 1 \/ (i - 1 \in 1..(Len(q) - 1) /\ (i - 1) + 1 = i)
  BY <1>1
<1>3. \A i \in 1..(Len(q) - 1) : i + 1 \in 1..Len(q) /\ 1 <= i + 1
  BY <1>1
<1>4. 1 \in 1..Len(q)
  BY <1>1
<1>5. ASSUME \A i \in DOMAIN Tail(q) : c \notin Tail(q)[i].area
      PROVE  Paint(surface, Head(q))[c] = target[c]
  <2>1. \A i \in 1..Len(q) : c \in q[i].area => i = 1
    BY <1>1, <1>2, <1>5
  <2>2. CASE c \in q[1].area
    <3>1. \A j \in 1..Len(q) : c \in q[j].area => j <= 1
      BY <2>1
    <3> QED
      BY <1>1, <1>4, <2>2, <3>1 DEF Leads, Paint
  <2>3. CASE c \notin q[1].area
    BY <1>1, <2>1, <2>3 DEF Leads, Paint
  <2> QED
    BY <2>2, <2>3
<1>6. ASSUME NEW i \in DOMAIN Tail(q), c \in Tail(q)[i].area,
             \A j \in DOMAIN Tail(q) : c \in Tail(q)[j].area => j <= i
      PROVE  Tail(q)[i].version[c] = target[c]
  <2>1. i \in 1..(Len(q) - 1) /\ i + 1 \in 1..Len(q) /\ c \in q[i + 1].area
    BY <1>1, <1>3, <1>6
  <2>2. ASSUME NEW j \in 1..Len(q), c \in q[j].area PROVE j <= i + 1
    <3>1. CASE j = 1
      BY <2>1, <3>1
    <3>2. CASE j # 1
      <4>1. j - 1 \in DOMAIN Tail(q) /\ Tail(q)[j - 1] = q[j]
        BY <1>1, <1>2, <3>2
      <4>2. j - 1 <= i
        BY <1>6, <2>2, <4>1
      <4> QED
        BY <2>1, <4>2
    <3> QED
      BY <3>1, <3>2
  <2>3. q[i + 1].version[c] = target[c]
    BY <1>1, <2>1, <2>2 DEF Leads
  <2> QED
    BY <1>1, <2>1, <2>3
<1> QED
  BY <1>5, <1>6 DEF Leads

\* The strengthening: what img is between the read and the draw
ImageInHand ==
    /\ pc \in {"copy", "draw"} => img.area = cur
    /\ pc = "draw" => \A c \in cur : img.version[c] = fullscreen[c]

CopyInv ==
    /\ ImageInHand
    /\ \A c \in Cells \ lost : Leads(OnTheWay, client, fullscreen, c)

LEMMA CopyInvImplies == CopyInv => FullscreenIsClientToBe
  BY DEF CopyInv, FullscreenIsClientToBe, Leads, Covering

LEMMA InitCopyInv == Init => CopyInv
  BY DEF Init, CopyInv, ImageInHand, OnTheWay, Leads

LEMMA StepCopyInv == TypeOK /\ CopyInv /\ [Next]_vars => CopyInv'
<1> SUFFICES ASSUME TypeOK, CopyInv, [Next]_vars PROVE CopyInv'
  OBVIOUS
<1> USE DEF xvars, eventVars, sharedVars, scanVars, reportVars, outVars, optionVars
<1>0. /\ draw_queue \in Seq(Drawables) /\ img \in Drawables
      /\ client \in [Cells -> Nat] /\ fullscreen \in [Cells -> Nat]
      /\ OnTheWay \in Seq(Drawables)
  BY DEF TypeOK, OnTheWay
\* Steps that neither touch the surfaces nor hold an image
<1>1. ASSUME UNCHANGED <<fullscreen, client, draw_queue, lost>>,
             pc \notin {"copy", "draw"}, pc' \notin {"copy", "draw"}
      PROVE  CopyInv'
  BY <1>1 DEF CopyInv, ImageInHand, OnTheWay
\* Steps of the other threads
<1>2. ASSUME UNCHANGED <<fullscreen, client, draw_queue, lost, pc, cur, img>>
      PROVE  CopyInv'
  BY <1>2 DEF CopyInv, ImageInHand, OnTheWay
<1>3. CASE XDraw \/ EventThread
  BY <1>2, <1>3 DEF XDraw, EventThread, HandleDamageNotify, PushDamage, DamagePushFails
<1>4. CASE PopReport \/ PopTimeout \/ RemoveRegion
  BY <1>1, <1>4 DEF PopReport, PopTimeout, RemoveRegion
<1>5. CASE ScanRow \/ ScanFullScreen \/ ScanFails \/ PushScan \/ ScanPushFails
  BY <1>1, <1>5 DEF ScanRow, ScanFullScreen, ScanFails, PushScan, ScanPushFails, Pushing
<1>6. CASE ReadImage
  <2>1. img'.area = cur /\ cur' = cur /\ pc' = "copy" /\ OnTheWay' = OnTheWay
    BY <1>6 DEF ReadImage, Image, OnTheWay
  <2> QED
    BY <1>6, <2>1 DEF ReadImage, CopyInv, ImageInHand
<1>7. CASE ReadFails
  BY <1>1, <1>7 DEF ReadFails
<1>8. CASE CopyIntoFullscreen
  <2>1. /\ img' = img /\ cur' = cur /\ img.area = cur /\ pc' = "draw"
        /\ OnTheWay = draw_queue /\ OnTheWay' = Append(draw_queue, img)
        /\ client' = client /\ lost' = lost
        /\ fullscreen' = Paint(fullscreen, img)
    BY <1>8 DEF CopyIntoFullscreen, CopyInv, ImageInHand, OnTheWay
  <2>2. img.area \subseteq Cells
    BY <1>0 DEF Drawables
  <2>3. \A c \in img.area : img.version[c] = fullscreen'[c]
    BY <2>1, <2>2 DEF Paint
  <2>4. ASSUME NEW c \in Cells \ lost
        PROVE  Leads(OnTheWay, client, fullscreen, c)'
    <3>1. CASE c \in img.area
      BY <1>0, <2>1, <2>3, <3>1, LeadsAppendInside
    <3>2. CASE c \notin img.area
      <4>1. fullscreen'[c] = fullscreen[c]
        BY <2>1, <3>2 DEF Paint
      <4>2. Leads(draw_queue, client, fullscreen', c)
        BY <2>1, <4>1 DEF CopyInv, Leads
      <4> QED
        BY <1>0, <2>1, <3>2, <4>2, LeadsAppendOutside
    <3> QED
      BY <3>1, <3>2
  <2> QED
    BY <2>1, <2>3, <2>4 DEF CopyInv, ImageInHand
<1>9. CASE PushDraw
  <2>1. /\ OnTheWay = Append(draw_queue, img) /\ OnTheWay' = OnTheWay
        /\ client' = client /\ fullscreen' = fullscreen /\ lost' = lost \ cur
        /\ pc' = "pop" /\ img.area = cur
        /\ \A c \in cur : img.version[c] = fullscreen[c]
    BY <1>9 DEF PushDraw, CopyInv, ImageInHand, OnTheWay
  <2>2. ASSUME NEW c \in Cells \ lost'
        PROVE  Leads(OnTheWay, client, fullscreen, c)
    <3>1. CASE c \in cur
      BY <1>0, <2>1, <3>1, LeadsAppendInside
    <3>2. CASE c \notin cur
      BY <2>1, <2>2, <3>2 DEF CopyInv
    <3> QED
      BY <3>1, <3>2
  <2> QED
    BY <2>1, <2>2 DEF CopyInv, ImageInHand
<1>10. CASE DrawableFails
  <2>1. /\ OnTheWay = Append(draw_queue, img) /\ OnTheWay' = draw_queue
        /\ client' = client /\ fullscreen' = fullscreen /\ lost' = lost \cup cur
        /\ pc' = "pop" /\ img.area = cur
    BY <1>10 DEF DrawableFails, CopyInv, ImageInHand, OnTheWay
  <2>2. ASSUME NEW c \in Cells \ lost'
        PROVE  Leads(draw_queue, client, fullscreen, c)
    BY <1>0, <2>1, <2>2, LeadsAppendOutside DEF CopyInv
  <2> QED
    BY <2>1, <2>2 DEF CopyInv, ImageInHand
<1>11. CASE GetCommand
  <2>1. /\ draw_queue # <<>> /\ draw_queue' = Tail(draw_queue)
        /\ client' = Paint(client, Head(draw_queue))
        /\ UNCHANGED <<pc, cur, img, fullscreen, lost>>
    BY <1>11 DEF GetCommand
  <2>2. /\ OnTheWay # <<>> /\ OnTheWay' = Tail(OnTheWay)
        /\ Head(OnTheWay) = Head(draw_queue)
    <3>1. CASE pc = "draw"
      BY <1>0, <2>1, <3>1, AppendProperties, HeadTailAppend DEF OnTheWay
    <3>2. CASE pc # "draw"
      BY <2>1, <3>2 DEF OnTheWay
    <3> QED
      BY <3>1, <3>2
  <2>3. ASSUME NEW c \in Cells \ lost
        PROVE  Leads(OnTheWay, client, fullscreen, c)'
    <3>1. Leads(OnTheWay, client, fullscreen, c)
      BY DEF CopyInv
    <3>2. Leads(Tail(OnTheWay), Paint(client, Head(OnTheWay)), fullscreen, c)
      BY <1>0, <2>2, <3>1, LeadsRender
    <3> QED
      BY <2>1, <2>2, <3>2
  <2> QED
    BY <2>1, <2>3 DEF CopyInv, ImageInHand
<1>12. CASE UNCHANGED vars
  BY <1>2, <1>12 DEF vars
<1> QED
  BY <1>3, <1>4, <1>5, <1>6, <1>7, <1>8, <1>9, <1>10, <1>11, <1>12
     DEF Next, ScannerThread

\* What scans compare the screen with is what the client is about to show.
THEOREM FullscreenMatchesClient == Spec => []FullscreenIsClientToBe
  BY InitTypeOK, StepTypeOK, InitCopyInv, StepCopyInv, CopyInvImplies, PTL DEF Spec

-----------------------------------------------------------------------------
(* The pipeline implements ClientView *)

\* Versions only grow from the client's end of the pipeline to the screen's.
\* A report reads the screen after everything queued before it was read, and
\* drawables keep that order.
NoNewer(f, g, area) == \A c \in area : f[c] <= g[c]

SurfacesInOrder ==
    NoNewer(client, fullscreen, Cells) /\ NoNewer(fullscreen, screen, Cells)

QueueInOrder ==
    /\ \A i \in DOMAIN draw_queue :
          /\ NoNewer(client, draw_queue[i].version, draw_queue[i].area)
          /\ NoNewer(draw_queue[i].version, fullscreen, draw_queue[i].area)
    /\ \A i, j \in DOMAIN draw_queue : i < j =>
          NoNewer(draw_queue[i].version, draw_queue[j].version,
                draw_queue[i].area \cap draw_queue[j].area)

ImageInOrder ==
    pc = "copy" => /\ NoNewer(fullscreen, img.version, img.area)
                   /\ NoNewer(img.version, screen, img.area)

OrderInv == ImageInHand /\ ImageInOrder /\ SurfacesInOrder /\ QueueInOrder

LEMMA NoNewerTransitive ==
    ASSUME NEW area \in SUBSET Cells, NEW f \in [Cells -> Nat],
           NEW g \in [Cells -> Nat], NEW h \in [Cells -> Nat],
           NoNewer(f, g, area), NoNewer(g, h, area)
    PROVE  NoNewer(f, h, area)
  BY DEF NoNewer

LEMMA InitOrderInv == Init => OrderInv
<1> SUFFICES ASSUME Init PROVE OrderInv
  OBVIOUS
<1>1. ImageInHand /\ ImageInOrder /\ QueueInOrder
  BY DEF Init, ImageInHand, ImageInOrder, QueueInOrder
<1>2. screen \in [Cells -> {0, 1}]
  BY PipelineAssumption DEF Init
<1>3. \A c \in Cells : client[c] = 0 /\ fullscreen[c] = 0 /\ screen[c] \in {0, 1}
  BY <1>2 DEF Init
<1>4. SurfacesInOrder
  BY <1>3 DEF SurfacesInOrder, NoNewer
<1> QED
  BY <1>1, <1>4 DEF OrderInv

\* The handing over of the image: a drawable at the end of the queue is the
\* newest of all, since fullscreen was made equal to it.
LEMMA OrderAppend ==
    ASSUME TypeOK, SurfacesInOrder, QueueInOrder, NEW d \in Drawables,
           \A c \in d.area : d.version[c] = fullscreen[c],
           draw_queue' = Append(draw_queue, d),
           UNCHANGED <<client, fullscreen>>
    PROVE  QueueInOrder'
<1>1. /\ draw_queue \in Seq(Drawables) /\ Len(draw_queue) \in Nat
      /\ DOMAIN draw_queue = 1..Len(draw_queue)
      /\ DOMAIN draw_queue' = (1..Len(draw_queue)) \cup {Len(draw_queue) + 1}
      /\ \A i \in 1..Len(draw_queue) : draw_queue'[i] = draw_queue[i]
      /\ draw_queue'[Len(draw_queue) + 1] = d
  BY DEF TypeOK
<1>2. d.area \subseteq Cells
  BY DEF Drawables
<1>3. /\ NoNewer(client, d.version, d.area) /\ NoNewer(d.version, fullscreen, d.area)
  <2>1. d.version \in [Cells -> Nat] /\ fullscreen \in [Cells -> Nat]
    BY DEF TypeOK, Drawables
  <2>2. \A c \in d.area : d.version[c] = fullscreen[c] /\ fullscreen[c] \in Nat
    BY <1>2, <2>1
  <2> QED
    BY <1>2, <2>2 DEF NoNewer, SurfacesInOrder
<1>4. ASSUME NEW i \in 1..Len(draw_queue)
      PROVE  NoNewer(draw_queue[i].version, d.version, draw_queue[i].area \cap d.area)
  BY <1>1, <1>4 DEF NoNewer, QueueInOrder
<1>5. ASSUME NEW i \in DOMAIN draw_queue'
      PROVE  /\ NoNewer(client', draw_queue'[i].version, draw_queue'[i].area)
             /\ NoNewer(draw_queue'[i].version, fullscreen', draw_queue'[i].area)
  BY <1>1, <1>3, <1>5 DEF QueueInOrder
<1>6. ASSUME NEW i \in DOMAIN draw_queue', NEW j \in DOMAIN draw_queue', i < j
      PROVE  NoNewer(draw_queue'[i].version, draw_queue'[j].version,
                   draw_queue'[i].area \cap draw_queue'[j].area)
  <2>1. i \in 1..Len(draw_queue)
    BY <1>1, <1>6
  <2>2. CASE j \in 1..Len(draw_queue)
    BY <1>1, <1>6, <2>1, <2>2 DEF QueueInOrder
  <2>3. CASE j = Len(draw_queue) + 1
    BY <1>1, <1>4, <2>1, <2>3
  <2> QED
    BY <1>1, <2>2, <2>3
<1> QED
  BY <1>5, <1>6 DEF QueueInOrder

\* Rendering: the client catches up with the oldest drawable of all.
LEMMA OrderRender ==
    ASSUME TypeOK, SurfacesInOrder, QueueInOrder, draw_queue # <<>>,
           draw_queue' = Tail(draw_queue), client' = Paint(client, Head(draw_queue)),
           UNCHANGED <<screen, fullscreen>>
    PROVE  /\ SurfacesInOrder' /\ QueueInOrder'
           /\ NoNewer(client, client', Cells) /\ NoNewer(client', screen, Cells)
<1> DEFINE d == Head(draw_queue)
<1>1. /\ draw_queue \in Seq(Drawables) /\ Len(draw_queue) \in Nat \ {0}
      /\ DOMAIN draw_queue = 1..Len(draw_queue) /\ d = draw_queue[1]
      /\ DOMAIN draw_queue' = 1..(Len(draw_queue) - 1)
      /\ \A i \in 1..(Len(draw_queue) - 1) : draw_queue'[i] = draw_queue[i + 1]
  BY DEF TypeOK
<1>2. \A i \in 1..(Len(draw_queue) - 1) : i + 1 \in 1..Len(draw_queue) /\ 1 < i + 1
  BY <1>1
<1>3. 1 \in 1..Len(draw_queue)
  BY <1>1
<1>4. d \in Drawables
  BY <1>1, <1>3
<1> HIDE DEF d
<1>4a. d.area \subseteq Cells /\ d.version \in [Cells -> Nat]
  BY <1>4 DEF Drawables
<1>5. client' = [c \in Cells |-> IF c \in d.area THEN d.version[c] ELSE client[c]]
  BY DEF Paint, d
<1>6. NoNewer(client, d.version, d.area) /\ NoNewer(d.version, fullscreen, d.area)
  BY <1>1, <1>3 DEF QueueInOrder
<1>7. /\ client \in [Cells -> Nat] /\ fullscreen \in [Cells -> Nat]
      /\ screen \in [Cells -> Nat] /\ client' \in [Cells -> Nat]
  BY <1>4a, <1>5 DEF TypeOK
<1>8. NoNewer(client, client', Cells) /\ NoNewer(client', fullscreen, Cells)
  <2>1. ASSUME NEW c \in Cells
        PROVE  client[c] <= client'[c] /\ client'[c] <= fullscreen[c]
    <3>1. CASE c \in d.area
      BY <1>5, <1>6, <3>1 DEF NoNewer
    <3>2. CASE c \notin d.area
      <4>1. client'[c] = client[c] /\ client[c] \in Nat
        BY <1>5, <1>7, <3>2
      <4> QED
        BY <4>1 DEF NoNewer, SurfacesInOrder
    <3> QED
      BY <3>1, <3>2
  <2> QED
    BY <2>1 DEF NoNewer
<1>9. NoNewer(client', screen, Cells)
  BY <1>7, <1>8, NoNewerTransitive DEF SurfacesInOrder
<1>10. ASSUME NEW i \in DOMAIN draw_queue'
       PROVE  /\ NoNewer(client', draw_queue'[i].version, draw_queue'[i].area)
              /\ NoNewer(draw_queue'[i].version, fullscreen', draw_queue'[i].area)
  <2> DEFINE e == draw_queue[i + 1]
  <2>1. e \in Drawables /\ e = draw_queue'[i]
    BY <1>1, <1>2
  <2>2. /\ NoNewer(client, e.version, e.area) /\ NoNewer(e.version, fullscreen, e.area)
        /\ NoNewer(d.version, e.version, d.area \cap e.area)
    BY <1>1, <1>2, <1>3 DEF QueueInOrder
  <2> HIDE DEF e
  <2>3. NoNewer(client', e.version, e.area)
    <3>1. e.area \subseteq Cells
      BY <2>1 DEF Drawables
    <3> QED
      BY <1>5, <2>2, <3>1 DEF NoNewer
  <2> QED
    BY <2>1, <2>2, <2>3
<1>11. ASSUME NEW i \in DOMAIN draw_queue', NEW j \in DOMAIN draw_queue', i < j
       PROVE  NoNewer(draw_queue'[i].version, draw_queue'[j].version,
                    draw_queue'[i].area \cap draw_queue'[j].area)
  <2>1. /\ i + 1 \in 1..Len(draw_queue) /\ j + 1 \in 1..Len(draw_queue)
        /\ i + 1 < j + 1
    BY <1>1, <1>2, <1>11
  <2> QED
    BY <1>1, <2>1 DEF QueueInOrder
<1> QED
  BY <1>8, <1>9, <1>10, <1>11 DEF SurfacesInOrder, QueueInOrder

LEMMA StepOrderInv ==
    TypeOK /\ OrderInv /\ [Next]_vars =>
        OrderInv' /\ [View!ViewNext]_View!viewVars
<1> SUFFICES ASSUME TypeOK, OrderInv, [Next]_vars
             PROVE  OrderInv' /\ [View!ViewNext]_View!viewVars
  OBVIOUS
<1> USE DEF xvars, eventVars, sharedVars, scanVars, reportVars, outVars, optionVars
<1>0. /\ screen \in [Cells -> Nat] /\ fullscreen \in [Cells -> Nat]
      /\ client \in [Cells -> Nat] /\ img \in Drawables
  BY DEF TypeOK
\* Steps that touch none of the surfaces
<1>1. ASSUME UNCHANGED <<screen, fullscreen, client, draw_queue>>,
             ImageInHand', ImageInOrder'
      PROVE  OrderInv' /\ [View!ViewNext]_View!viewVars
  BY <1>1 DEF OrderInv, SurfacesInOrder, QueueInOrder, View!viewVars
<1>2. ASSUME UNCHANGED <<screen, fullscreen, client, draw_queue>>,
             pc' \notin {"copy", "draw"}
      PROVE  OrderInv' /\ [View!ViewNext]_View!viewVars
  BY <1>1, <1>2 DEF ImageInHand, ImageInOrder
<1>3. ASSUME UNCHANGED <<screen, fullscreen, client, draw_queue, pc, cur, img>>
      PROVE  OrderInv' /\ [View!ViewNext]_View!viewVars
  BY <1>1, <1>3 DEF OrderInv, ImageInHand, ImageInOrder
<1>4. CASE XDraw
  <2>1. PICK area \in SUBSET Cells :
          screen' = [c \in Cells |-> IF c \in area THEN screen[c] + 1 ELSE screen[c]]
    <3>1. PICK rects \in Drawings :
            screen' = [c \in Cells |->
               IF c \in UNION {rects[i] : i \in DOMAIN rects}
               THEN screen[c] + 1 ELSE screen[c]]
      BY <1>4 DEF XDraw
    <3>2. rects \in Seq(Areas)
      BY PipelineAssumption
    <3>3. UNION {rects[i] : i \in DOMAIN rects} \in SUBSET Cells
      BY <3>2 DEF Areas
    <3> QED
      BY <3>1, <3>3
  <2>2. UNCHANGED <<client, fullscreen, draw_queue, pc, cur, img>>
    BY <1>4 DEF XDraw
  <2>3. View!ViewNext
    BY <2>1, <2>2 DEF View!ViewNext, View!DrawOnScreen
  <2>4. screen' \in [Cells -> Nat] /\ NoNewer(screen, screen', Cells)
    BY <1>0, <2>1 DEF NoNewer
  <2>5. SurfacesInOrder' /\ ImageInOrder'
    <3>1. NoNewer(fullscreen, screen', Cells)
      BY <1>0, <2>4, NoNewerTransitive DEF OrderInv, SurfacesInOrder
    <3>2. pc = "copy" => NoNewer(img.version, screen', img.area)
      <4>1. img.area \in SUBSET Cells /\ img.version \in [Cells -> Nat]
        BY <1>0 DEF Drawables
      <4>2. NoNewer(screen, screen', img.area)
        BY <2>4, <4>1 DEF NoNewer
      <4> QED
        BY <1>0, <2>4, <4>1, <4>2, NoNewerTransitive DEF OrderInv, ImageInOrder
    <3> QED
      BY <2>2, <3>1, <3>2 DEF OrderInv, SurfacesInOrder, ImageInOrder
  <2> QED
    BY <2>2, <2>3, <2>5 DEF OrderInv, ImageInHand, QueueInOrder
<1>5. CASE EventThread
  BY <1>3, <1>5 DEF EventThread, HandleDamageNotify, PushDamage, DamagePushFails
<1>6. CASE PopReport \/ PopTimeout \/ RemoveRegion \/ ReadFails
  BY <1>2, <1>6 DEF PopReport, PopTimeout, RemoveRegion, ReadFails
<1>7. CASE ScanRow \/ ScanFullScreen \/ ScanFails \/ PushScan \/ ScanPushFails
  BY <1>2, <1>7 DEF ScanRow, ScanFullScreen, ScanFails, PushScan, ScanPushFails, Pushing
<1>8. CASE ReadImage
  <2>1. /\ img'.area = cur /\ cur \in SUBSET Cells
        /\ \A c \in cur : img'.version[c] = screen[c]
        /\ pc' = "copy" /\ cur' = cur
        /\ UNCHANGED <<screen, fullscreen, client, draw_queue>>
    BY <1>8 DEF ReadImage, Image, TypeOK
  <2>2. ImageInHand' /\ ImageInOrder'
    BY <1>0, <2>1 DEF ImageInHand, ImageInOrder, OrderInv, SurfacesInOrder, NoNewer
  <2> QED
    BY <1>1, <2>1, <2>2
<1>9. CASE CopyIntoFullscreen
  <2>1. /\ img' = img /\ cur' = cur /\ img.area = cur /\ pc = "copy" /\ pc' = "draw"
        /\ UNCHANGED <<screen, client, draw_queue>>
        /\ fullscreen' = Paint(fullscreen, img)
    BY <1>9 DEF CopyIntoFullscreen, OrderInv, ImageInHand
  <2>2. img.area \in SUBSET Cells /\ img.version \in [Cells -> Nat]
    BY <1>0 DEF Drawables
  <2>3. fullscreen' \in [Cells -> Nat]
    BY <1>0, <2>1, PaintType
  <2>4. NoNewer(fullscreen, fullscreen', Cells) /\ NoNewer(fullscreen', screen, Cells)
    <3>1. ASSUME NEW c \in Cells
          PROVE  fullscreen[c] <= fullscreen'[c] /\ fullscreen'[c] <= screen[c]
      <4>1. CASE c \in img.area
        BY <2>1, <4>1 DEF Paint, OrderInv, ImageInOrder, NoNewer
      <4>2. CASE c \notin img.area
        <5>1. fullscreen'[c] = fullscreen[c] /\ fullscreen[c] \in Nat
          BY <1>0, <2>1, <4>2 DEF Paint
        <5> QED
          BY <5>1 DEF OrderInv, SurfacesInOrder, NoNewer
      <4> QED
        BY <4>1, <4>2
    <3> QED
      BY <3>1 DEF NoNewer
  <2>5. SurfacesInOrder'
    BY <1>0, <2>1, <2>3, <2>4, NoNewerTransitive DEF OrderInv, SurfacesInOrder
  <2>6. QueueInOrder'
    <3>1. ASSUME NEW i \in DOMAIN draw_queue
          PROVE  NoNewer(draw_queue[i].version, fullscreen', draw_queue[i].area)
      <4> DEFINE d == draw_queue[i]
      <4>1. d \in Drawables
        BY <3>1 DEF TypeOK
      <4>2. NoNewer(d.version, fullscreen, d.area)
        BY <3>1 DEF OrderInv, QueueInOrder
      <4> HIDE DEF d
      <4>3. d.area \in SUBSET Cells /\ d.version \in [Cells -> Nat]
        BY <4>1 DEF Drawables
      <4>4. NoNewer(fullscreen, fullscreen', d.area)
        BY <2>4, <4>3 DEF NoNewer
      <4>5. NoNewer(d.version, fullscreen', d.area)
        BY <1>0, <2>3, <4>2, <4>3, <4>4, NoNewerTransitive
      <4> QED
        BY <4>5 DEF d
    <3> QED
      BY <2>1, <3>1 DEF OrderInv, QueueInOrder
  <2>7. ImageInHand' /\ ImageInOrder'
    BY <2>1, <2>2 DEF ImageInHand, ImageInOrder, Paint
  <2> QED
    BY <2>1, <2>5, <2>6, <2>7 DEF OrderInv, View!viewVars
<1>10. CASE PushDraw
  <2>1. /\ draw_queue' = Append(draw_queue, img) /\ pc' = "pop"
        /\ \A c \in img.area : img.version[c] = fullscreen[c]
        /\ UNCHANGED <<screen, fullscreen, client>>
    BY <1>10 DEF PushDraw, OrderInv, ImageInHand
  <2>2. QueueInOrder'
    BY <1>0, <2>1, OrderAppend DEF OrderInv
  <2> QED
    BY <2>1, <2>2 DEF OrderInv, ImageInHand, ImageInOrder, SurfacesInOrder, View!viewVars
<1>11. CASE DrawableFails
  BY <1>2, <1>11 DEF DrawableFails
<1>12. CASE GetCommand
  <2>1. /\ draw_queue # <<>> /\ draw_queue' = Tail(draw_queue)
        /\ client' = Paint(client, Head(draw_queue))
        /\ UNCHANGED <<screen, fullscreen, pc, cur, img>>
    BY <1>12 DEF GetCommand
  <2>2. /\ SurfacesInOrder' /\ QueueInOrder'
        /\ NoNewer(client, client', Cells) /\ NoNewer(client', screen, Cells)
    BY <2>1, OrderRender DEF OrderInv
  <2>3. client' \in [Cells -> Nat]
    BY <1>0, <2>1, HeadTail, PaintType DEF TypeOK
  <2>4. View!ViewNext
    BY <2>1, <2>2, <2>3 DEF View!ViewNext, View!Refresh, NoNewer
  <2> QED
    BY <2>1, <2>2, <2>4 DEF OrderInv, ImageInHand, ImageInOrder
<1>13. CASE UNCHANGED vars
  BY <1>3, <1>13 DEF vars
<1> QED
  BY <1>4, <1>5, <1>6, <1>7, <1>8, <1>9, <1>10, <1>11, <1>12, <1>13
     DEF Next, ScannerThread

\* The client only ever sees, cell by cell and in order, what the screen has
\* shown: the pipeline implements ClientView.
THEOREM ImplementsView == Spec => ViewSpec
<1>1. Init => View!ViewInit
  BY PipelineAssumption DEF Init, View!ViewInit
<1> QED
  BY <1>1, InitTypeOK, StepTypeOK, InitOrderInv, StepOrderInv, PTL
     DEF Spec, ViewSpec, View!ViewSpec

-----------------------------------------------------------------------------
(* Tiles and the rectangles made of them *)

\* Division, and products as the provers need them
LEMMA Quotients ==
    ASSUME NEW a \in Nat, NEW n \in Nat \ {0}
    PROVE  a \div n \in Nat /\ n * (a \div n) <= a /\ a < n * (a \div n) + n
  BY SMT

LEMMA Remainders ==
    ASSUME NEW a \in Nat, NEW n \in Nat \ {0}
    PROVE  a % n \in Nat /\ a % n < n /\ a = n * (a \div n) + (a % n)
  BY SMT

LEMMA Factors ==
    ASSUME NEW a \in Int, NEW b \in Int, NEW n \in Nat \ {0}
    PROVE  (n * a < n * b <=> a < b) /\ (n * a <= n * b <=> a <= b) /\ (n * a = n * b <=> a = b)
  BY SMT

LEMMA Products ==
    ASSUME NEW a \in Int, NEW b \in Int, NEW n \in Int
    PROVE  /\ n * a \in Int /\ n * a = a * n /\ n * (a + b) = n * a + n * b
           /\ n * (a - b) = n * a - n * b /\ n * (a + 1) = n * a + n /\ n * (a - 1) = n * a - n
           /\ n * 1 = n /\ n * 0 = 0
           /\ (n >= 0 /\ a >= 0 => n * a >= 0)
  BY SMT

\* The quotient is the only number whose multiple is so near.
LEMMA QuotientIs ==
    ASSUME NEW a \in Nat, NEW n \in Nat \ {0}, NEW q \in Int, n * q <= a, a < n * q + n
    PROVE  a \div n = q
<1>1. a \div n \in Nat /\ n * (a \div n) <= a /\ a < n * (a \div n) + n
  BY Quotients
<1> DEFINE r == a \div n
<1> HIDE DEF r
<1>2. r \in Nat /\ n * r < n * (q + 1) /\ n * q < n * (r + 1)
  BY <1>1, Products DEF r
<1>3. r < q + 1 /\ q < r + 1
  BY <1>2, Factors
<1> QED
  BY <1>2, <1>3 DEF r

\* A set of numbers has a least one.
LEMMA LeastOf ==
    ASSUME NEW T, T \subseteq Nat, T # {}
    PROVE  \E least \in T : \A t \in T : least <= t
<1> DEFINE R == OpToRel(<, Nat)
<1>1. \E x \in T : \A y \in T : <<y, x>> \notin R
  BY NatLessThanWellFounded, WFMin
<1>2. \A x, y \in T : y < x => <<y, x>> \in R
  BY DEF OpToRel
<1> HIDE DEF R
<1>3. PICK least \in T : \A t \in T : ~(t < least)
  BY <1>1, <1>2
<1> QED
  BY <1>3

\* Every member of a set of numbers below a bound is in one of its runs.
LEMMA InARun ==
    ASSUME NEW S \in SUBSET Nat, NEW bound \in Nat, \A k \in S : k < bound, NEW j \in S
    PROVE  \E run \in Runs(S) : run.first <= j /\ j <= run.last
<1>1. PICK first \in S : first <= j /\ first..j \subseteq S /\ first - 1 \notin S
  <2> DEFINE T == {d \in Nat : j - d - 1 \notin S}
  <2>1. j \in Nat /\ j - j - 1 \notin S
    OBVIOUS
  <2>2. j \in T /\ T \subseteq Nat
    BY <2>1
  <2>3. PICK d \in T : \A t \in T : d <= t
    BY <2>2, LeastOf
  <2>4. d \in Nat /\ d <= j /\ (j - d) - 1 \notin S
    BY <2>2, <2>3
  <2>5. ASSUME NEW k \in (j - d)..j PROVE k \in S
    <3>1. k \in Int /\ (k = j \/ j - k - 1 \in Nat)
      BY <2>4
    <3>2. CASE k # j
      <4>1. j - k - 1 \in Nat /\ j - k - 1 < d
        BY <2>4, <3>1, <3>2
      <4>2. j - k - 1 \notin T
        BY <2>3, <4>1
      <4>3. j - (j - k - 1) - 1 \in S
        BY <4>1, <4>2
      <4> QED
        BY <3>1, <4>3
    <3> QED
      BY <3>2
  <2>6. j - d \in S /\ j - d <= j
    BY <2>4, <2>5
  <2> QED
    BY <2>4, <2>5, <2>6
<1>2. PICK last \in S : j <= last /\ j..last \subseteq S /\ last + 1 \notin S
  <2> DEFINE T == {d \in Nat : j + d + 1 \notin S}
  <2>1. j \in Nat /\ bound - j \in Nat /\ j + (bound - j) + 1 \notin S
    OBVIOUS
  <2>2. T # {} /\ T \subseteq Nat
    BY <2>1
  <2>3. PICK d \in T : \A t \in T : d <= t
    BY <2>2, LeastOf
  <2>4. d \in Nat /\ (j + d) + 1 \notin S
    BY <2>3
  <2>5. ASSUME NEW k \in j..(j + d) PROVE k \in S
    <3>1. k \in Int /\ (k = j \/ k - j - 1 \in Nat)
      BY <2>1, <2>4
    <3>2. CASE k # j
      <4>1. k - j - 1 \in Nat /\ k - j - 1 < d
        BY <2>1, <2>4, <3>1, <3>2
      <4>2. k - j - 1 \notin T
        BY <2>3, <4>1
      <4>3. j + (k - j - 1) + 1 \in S
        BY <4>1, <4>2
      <4> QED
        BY <2>1, <3>1, <4>3
    <3> QED
      BY <3>2
  <2>6. j + d \in S /\ j <= j + d
    BY <2>1, <2>4, <2>5
  <2> QED
    BY <2>4, <2>5, <2>6
<1> DEFINE run == [first |-> first, last |-> last]
<1>3. run \in [first : S, last : S] /\ run.first = first /\ run.last = last
  OBVIOUS
<1>4. first <= last /\ first..last \subseteq S
  <2>1. \A k \in first..last : k \in first..j \/ k \in j..last
    OBVIOUS
  <2> QED
    BY <1>1, <1>2, <2>1
<1>5. run \in Runs(S)
  BY <1>1, <1>2, <1>3, <1>4 DEF Runs
<1> QED
  BY <1>1, <1>2, <1>3, <1>5

\* Between two runs there is a number that is in neither.
LEMMA RunsAreApart ==
    ASSUME NEW S \in SUBSET Nat, NEW r \in Runs(S), NEW s \in Runs(S), r # s
    PROVE  r.last + 1 < s.first \/ s.last + 1 < r.first
<1>1. /\ r.first \in S /\ r.last \in S /\ s.first \in S /\ s.last \in S
      /\ r.first \in Nat /\ r.last \in Nat /\ s.first \in Nat /\ s.last \in Nat
      /\ r = [first |-> r.first, last |-> r.last] /\ s = [first |-> s.first, last |-> s.last]
      /\ r.first <= r.last /\ s.first <= s.last
      /\ r.first..r.last \subseteq S /\ s.first..s.last \subseteq S
      /\ r.first - 1 \notin S /\ r.last + 1 \notin S /\ s.first - 1 \notin S /\ s.last + 1 \notin S
  BY DEF Runs
<1> SUFFICES ASSUME s.first <= r.last + 1, r.first <= s.last + 1 PROVE r = s
  BY <1>1
<1>2. s.first <= r.last /\ r.first <= s.last
  <2>1. s.first # r.last + 1 /\ r.first # s.last + 1
    BY <1>1
  <2> QED
    BY <1>1, <2>1
<1>3. r.first = s.first
  <2>1. ~(r.first < s.first)
    <3>1. r.first < s.first => s.first - 1 \in r.first..r.last
      BY <1>1, <1>2
    <3> QED
      BY <1>1, <3>1
  <2>2. ~(s.first < r.first)
    <3>1. s.first < r.first => r.first - 1 \in s.first..s.last
      BY <1>1, <1>2
    <3> QED
      BY <1>1, <3>1
  <2> QED
    BY <1>1, <2>1, <2>2
<1>4. r.last = s.last
  <2>1. ~(r.last < s.last)
    <3>1. r.last < s.last => r.last + 1 \in s.first..s.last
      BY <1>1, <1>2
    <3> QED
      BY <1>1, <3>1
  <2>2. ~(s.last < r.last)
    <3>1. s.last < r.last => s.last + 1 \in r.first..r.last
      BY <1>1, <1>2
    <3> QED
      BY <1>1, <3>1
  <2> QED
    BY <1>1, <2>1, <2>2
<1> QED
  BY <1>1, <1>3, <1>4

\* The loop has a result, although it looks at what it has grown: a tile it marks
\* is next to one that was marked, so that it makes it mark no other.
LEMMA GrowLoopResult ==
    ASSUME NEW marked \in SUBSET Columns
    PROVE  /\ GrowLoop(marked) \in SUBSET Columns
           /\ \A j \in Columns :
                 j \in GrowLoop(marked) <=> j \in marked \/ Grows(marked, GrowLoop(marked), j)
<1> DEFINE grown == {j \in Columns : j \in marked \/ Grows(marked, marked, j)}
<1>1. \A j \in Columns : j \in Int /\ 0 <= j /\ j <= NumTiles - 1
  BY TilesAssumption DEF Columns
<1>2. ASSUME NEW j \in Columns, j \notin marked, j - 1 \in grown PROVE j - 1 \in marked
  <2>1. (j - 1) + 1 = j /\ j - 1 \in Columns /\ j - 1 # NumTiles - 1
    BY <1>1, <1>2, TilesAssumption
  <2> QED
    BY <1>2, <2>1 DEF Grows
<1>3. \A j \in Columns : Grows(marked, grown, j) <=> Grows(marked, marked, j)
  <2>1. \A j \in Columns : j - 1 \in marked => j - 1 \in grown
    OBVIOUS
  <2> QED
    BY <1>2, <2>1 DEF Grows
<1>4. /\ grown \in SUBSET Columns
      /\ \A j \in Columns : j \in grown <=> j \in marked \/ Grows(marked, grown, j)
  BY <1>3
<1> HIDE DEF grown
<1>5. \E g \in SUBSET Columns : \A j \in Columns : j \in g <=> j \in marked \/ Grows(marked, g, j)
  BY <1>4
<1> QED
  BY <1>5 DEF GrowLoop

LEMMA ColumnsFinite ==
    /\ \A S \in SUBSET Columns : IsFiniteSet(S) /\ Cardinality(S) \in Nat
    /\ Columns \subseteq Nat
<1>1. 0 \in Int /\ NumTiles - 1 \in Int
  BY TilesAssumption
<1>2. IsFiniteSet(Columns)
  BY <1>1, FS_Interval DEF Columns
<1>3. Columns \subseteq Nat
  BY TilesAssumption DEF Columns
<1> QED
  BY <1>2, <1>3, FS_Subset, FS_CardinalityType

\* A row keeps its marks, and its count is more than 0 when it was, and at most "all of it".
LEMMA GrownRow ==
    ASSUME NEW marked \in SUBSET Columns, NEW count \in Nat
    PROVE  /\ GrowRow(marked, count).marked \in SUBSET Columns
           /\ marked \subseteq GrowRow(marked, count).marked
           /\ GrowRow(marked, count).count \in 0..NumTiles
           /\ count > 0 => GrowRow(marked, count).count > 0
           /\ marked \subseteq {NumTiles - 1} =>
                 GrowRow(marked, count).marked \subseteq {NumTiles - 2, NumTiles - 1}
<1> DEFINE grown == GrowLoop(marked)
           n == count + Cardinality(grown \ marked)
           r == GrowRow(marked, count)
<1>1. SCAN_ROW_THRESHOLD \in Nat /\ SCAN_ROW_THRESHOLD <= NumTiles /\ NumTiles \in Nat
  <2>1. /\ NumTiles \in Nat /\ 2 \in Nat \ {0}
        /\ NumTiles \div 2 \in Nat /\ 2 * (NumTiles \div 2) <= NumTiles
    BY TilesAssumption, Quotients
  <2> QED
    BY <2>1 DEF SCAN_ROW_THRESHOLD
<1>2. grown \in SUBSET Columns /\ marked \subseteq grown
  BY GrowLoopResult
<1>3. n \in Nat /\ n >= count
  <2>1. Cardinality(grown \ marked) \in Nat
    BY <1>2, ColumnsFinite
  <2> QED
    BY <2>1
<1>4. ASSUME marked \subseteq {NumTiles - 1} PROVE grown \subseteq {NumTiles - 2, NumTiles - 1}
  <2> SUFFICES ASSUME NEW j \in Columns, j \in grown, j \notin marked PROVE j = NumTiles - 2
    BY <1>2, <1>4
  <2>1. Grows(marked, grown, j)
    BY GrowLoopResult
  <2>2. j \in Int /\ NumTiles \in Nat
    BY TilesAssumption DEF Columns
  <2>3. CASE j = 0
    BY <1>4, <2>1, <2>2, <2>3 DEF Grows
  <2>4. CASE j = NumTiles - 1 /\ j # 0
    <3>1. j - 1 \in Columns /\ j - 1 \in grown
      BY <2>1, <2>2, <2>4 DEF Grows, Columns
    <3>2. j - 1 \notin marked
      BY <1>4, <2>2, <2>4
    <3>3. Grows(marked, grown, j - 1)
      BY <3>1, <3>2, GrowLoopResult
    <3>4. (j - 1) + 1 = j /\ j - 1 # NumTiles - 1
      BY <2>2, <2>4
    <3>5. j \in marked
      BY <2>1, <3>3, <3>4 DEF Grows
    <3> QED
      BY <3>5
  <2>5. CASE j # 0 /\ j # NumTiles - 1
    <3>1. j + 1 \in marked
      BY <2>1, <2>5 DEF Grows
    <3> QED
      BY <1>4, <2>2, <3>1
  <2> QED
    BY <2>3, <2>4, <2>5
<1> HIDE DEF grown
<1>5. CASE count = 0 \/ count = NumTiles
  <2>1. r.marked = marked /\ r.count = count
    BY <1>5 DEF GrowRow
  <2> QED
    BY <1>1, <1>5, <2>1
<1>6. CASE ~(count = 0 \/ count = NumTiles) /\ count > SCAN_ROW_THRESHOLD
  <2>1. r.marked = marked /\ r.count = NumTiles
    BY <1>6 DEF GrowRow
  <2> QED
    BY <1>1, <2>1, TilesAssumption
<1>7. CASE ~(count = 0 \/ count = NumTiles) /\ ~(count > SCAN_ROW_THRESHOLD)
  <2>1. r.marked = grown /\ r.count = IF n > SCAN_ROW_THRESHOLD THEN NumTiles ELSE n
    BY <1>7 DEF GrowRow, grown
  <2> HIDE DEF n, r
  <2>2. r.count \in 0..NumTiles /\ r.count > 0
    BY <1>1, <1>3, <1>7, <2>1, TilesAssumption
  <2> QED
    BY <1>2, <1>4, <2>1, <2>2 DEF r
<1> QED
  BY <1>5, <1>6, <1>7

\* The rows after grow_changed_tiles
Grown(tiles, counts) == [i \in DOMAIN tiles |-> GrowRow(tiles[i], counts[i])]

\* Where a rectangle of tiles comes from
FromFullRows(t, rows, run) ==
    /\ run \in Runs(FullRows(rows)) /\ t.start_row = run.first /\ t.end_row = run.last
    /\ t.start_col = 0 /\ t.end_col = NumTiles - 1 /\ t.across_rows = TRUE

FromOneRow(t, rows, run, i) ==
    /\ i \in PartlyChangedRows(rows) /\ run \in Runs(rows[i].marked)
    /\ t.start_row = i /\ t.end_row = i
    /\ t.start_col = run.first /\ t.end_col = run.last /\ t.across_rows = FALSE

\* It is from one of the two functions, and nothing but its five numbers.
LEMMA WhereFrom ==
    ASSUME NEW tiles, NEW counts, NEW t \in TileRectangles(tiles, counts)
    PROVE  /\ \/ \E run : FromFullRows(t, Grown(tiles, counts), run)
              \/ \E run, i : FromOneRow(t, Grown(tiles, counts), run, i)
           /\ t = [across_rows |-> t.across_rows, start_row |-> t.start_row, end_row |-> t.end_row,
                   start_col |-> t.start_col, end_col |-> t.end_col]
<1> DEFINE rows == Grown(tiles, counts)
<1>1. t \in PushChangedTiles(rows)
  BY DEF TileRectangles, Grown
<1> HIDE DEF rows
<1>2. CASE t \in PushChangesAcrossRows(rows)
  <2>1. PICK run \in Runs(FullRows(rows)) :
           t = [across_rows |-> TRUE, start_row |-> run.first, end_row |-> run.last,
                start_col |-> 0, end_col |-> NumTiles - 1]
    BY <1>2 DEF PushChangesAcrossRows
  <2>2. FromFullRows(t, rows, run)
    BY <2>1 DEF FromFullRows
  <2> QED
    BY <2>1, <2>2 DEF rows
<1>3. CASE t \notin PushChangesAcrossRows(rows)
  <2>1. PICK i \in PartlyChangedRows(rows) : t \in PushChangesInOneRow(i, rows[i].marked)
    BY <1>1, <1>3 DEF PushChangedTiles
  <2>2. PICK run \in Runs(rows[i].marked) :
           t = [across_rows |-> FALSE, start_row |-> i, end_row |-> i,
                start_col |-> run.first, end_col |-> run.last]
    BY <2>1 DEF PushChangesInOneRow
  <2>3. FromOneRow(t, rows, run, i)
    BY <2>1, <2>2 DEF FromOneRow
  <2> QED
    BY <2>2, <2>3 DEF rows
<1> QED
  BY <1>2, <1>3

\* What a scan has found: marks, and a count for every row that has one
Found(last, tiles, counts) ==
    /\ tiles \in [0..last -> SUBSET Columns] /\ counts \in [0..last -> Nat]
    /\ \A i \in 0..last : tiles[i] # {} => counts[i] > 0

\* Growing keeps marks, and each row with marks is pushed as a whole or in part.
LEMMA GrownRows ==
    ASSUME NEW last \in Nat, NEW tiles, NEW counts, Found(last, tiles, counts)
    PROVE  LET rows == Grown(tiles, counts)
           IN /\ DOMAIN rows = 0..last
              /\ FullRows(rows) \subseteq 0..last /\ PartlyChangedRows(rows) \subseteq 0..last
              /\ \A i \in 0..last :
                    /\ rows[i].marked \in SUBSET Columns /\ tiles[i] \subseteq rows[i].marked
                    /\ tiles[i] # {} => i \in FullRows(rows) \/ i \in PartlyChangedRows(rows)
                    /\ tiles[i] \subseteq {NumTiles - 1} =>
                          rows[i].marked \subseteq {NumTiles - 2, NumTiles - 1}
<1> DEFINE rows == Grown(tiles, counts)
<1>1. /\ DOMAIN rows = 0..last
      /\ \A i \in 0..last : /\ rows[i] = GrowRow(tiles[i], counts[i])
                            /\ tiles[i] \in SUBSET Columns /\ counts[i] \in Nat
  BY DEF Grown, Found
<1> HIDE DEF rows
<1>2. FullRows(rows) \subseteq 0..last /\ PartlyChangedRows(rows) \subseteq 0..last
  BY <1>1 DEF FullRows, PartlyChangedRows
<1>3. ASSUME NEW i \in 0..last
      PROVE  /\ rows[i].marked \in SUBSET Columns /\ tiles[i] \subseteq rows[i].marked
             /\ tiles[i] # {} => i \in FullRows(rows) \/ i \in PartlyChangedRows(rows)
             /\ tiles[i] \subseteq {NumTiles - 1} =>
                    rows[i].marked \subseteq {NumTiles - 2, NumTiles - 1}
  <2>0. rows[i] = GrowRow(tiles[i], counts[i]) /\ tiles[i] \in SUBSET Columns /\ counts[i] \in Nat
    BY <1>1
  <2>1. /\ rows[i].marked \in SUBSET Columns /\ tiles[i] \subseteq rows[i].marked
        /\ rows[i].count \in 0..NumTiles /\ (counts[i] > 0 => rows[i].count > 0)
        /\ tiles[i] \subseteq {NumTiles - 1} =>
              rows[i].marked \subseteq {NumTiles - 2, NumTiles - 1}
    BY <2>0, GrownRow
  <2>2. ASSUME tiles[i] # {}, rows[i].count # NumTiles PROVE rows[i].count \in 1..(NumTiles - 1)
    BY <2>1, <2>2, TilesAssumption DEF Found
  <2> QED
    BY <1>1, <2>1, <2>2 DEF FullRows, PartlyChangedRows
<1> QED
  BY <1>1, <1>2, <1>3 DEF rows

\* Rectangles of tiles are made of tiles there are.
LEMMA RectanglesOfTiles ==
    ASSUME NEW last \in Nat, NEW tiles, NEW counts, Found(last, tiles, counts),
           NEW t \in TileRectangles(tiles, counts)
    PROVE  /\ t.start_row \in 0..last /\ t.end_row \in 0..last /\ t.start_row <= t.end_row
           /\ t.start_col \in Columns /\ t.end_col \in Columns /\ t.start_col <= t.end_col
<1> DEFINE rows == Grown(tiles, counts)
<1>1. /\ FullRows(rows) \subseteq 0..last /\ PartlyChangedRows(rows) \subseteq 0..last
      /\ \A i \in 0..last : rows[i].marked \in SUBSET Columns
  BY GrownRows
<1>2. \/ \E run : FromFullRows(t, rows, run)
      \/ \E run, i : FromOneRow(t, rows, run, i)
  BY WhereFrom
<1> HIDE DEF rows
<1>3. CASE \E run : FromFullRows(t, rows, run)
  <2>1. 0 \in Columns /\ NumTiles - 1 \in Columns /\ 0 <= NumTiles - 1
    BY TilesAssumption DEF Columns
  <2> QED
    BY <1>1, <1>3, <2>1 DEF FromFullRows, Runs
<1>4. CASE \E run, i : FromOneRow(t, rows, run, i)
  <2>1. PICK run, i : FromOneRow(t, rows, run, i)
    BY <1>4
  <2>2. i \in 0..last /\ rows[i].marked \in SUBSET Columns
    BY <1>1, <2>1 DEF FromOneRow
  <2>3. run.first \in rows[i].marked /\ run.last \in rows[i].marked /\ run.first <= run.last
    BY <2>1 DEF FromOneRow, Runs
  <2> QED
    BY <2>1, <2>2, <2>3 DEF FromOneRow
<1> QED
  BY <1>2, <1>3, <1>4

\* A tile that is marked is in one of them.
LEMMA MarkedIsPushed ==
    ASSUME NEW last \in Nat, NEW tiles, NEW counts, Found(last, tiles, counts),
           NEW i \in 0..last, NEW j \in tiles[i]
    PROVE  \E t \in TileRectangles(tiles, counts) :
              i \in t.start_row..t.end_row /\ j \in t.start_col..t.end_col
<1> DEFINE rows == Grown(tiles, counts)
<1>1. /\ FullRows(rows) \subseteq 0..last /\ PartlyChangedRows(rows) \subseteq 0..last
      /\ rows[i].marked \in SUBSET Columns /\ j \in rows[i].marked
      /\ i \in FullRows(rows) \/ i \in PartlyChangedRows(rows)
  BY GrownRows
<1>2. TileRectangles(tiles, counts) = PushChangedTiles(rows)
  BY DEF TileRectangles, Grown
<1>3. j \in Columns /\ j \in Nat /\ 0 <= j /\ j <= NumTiles - 1 /\ j < NumTiles /\ i \in Nat /\ i <= last
  BY <1>1, TilesAssumption DEF Columns
<1> HIDE DEF rows
<1>4. CASE i \in FullRows(rows)
  <2>1. /\ FullRows(rows) \in SUBSET Nat /\ last + 1 \in Nat
        /\ \A k \in FullRows(rows) : k < last + 1
    BY <1>1
  <2>2. PICK run \in Runs(FullRows(rows)) : run.first <= i /\ i <= run.last
    BY <1>4, <2>1, InARun
  <2>3. run.first \in Nat /\ run.last \in Nat
    BY <2>1 DEF Runs
  <2> DEFINE t == [across_rows |-> TRUE, start_row |-> run.first, end_row |-> run.last,
                   start_col |-> 0, end_col |-> NumTiles - 1]
  <2>4. t \in PushChangedTiles(rows)
    BY <2>2 DEF PushChangedTiles, PushChangesAcrossRows
  <2>5. i \in t.start_row..t.end_row /\ j \in t.start_col..t.end_col
    BY <1>3, <2>2, <2>3, TilesAssumption
  <2> QED
    BY <1>2, <2>4, <2>5
<1>5. CASE i \in PartlyChangedRows(rows)
  <2>1. /\ rows[i].marked \in SUBSET Nat /\ NumTiles \in Nat
        /\ \A k \in rows[i].marked : k < NumTiles
    BY <1>1, TilesAssumption DEF Columns
  <2>2. PICK run \in Runs(rows[i].marked) : run.first <= j /\ j <= run.last
    BY <1>1, <2>1, InARun
  <2>3. run.first \in Nat /\ run.last \in Nat
    BY <2>1 DEF Runs
  <2> DEFINE t == [across_rows |-> FALSE, start_row |-> i, end_row |-> i,
                   start_col |-> run.first, end_col |-> run.last]
  <2>4. t \in PushChangesInOneRow(i, rows[i].marked)
    BY <2>2 DEF PushChangesInOneRow
  <2>5. t \in PushChangedTiles(rows)
    BY <1>5, <2>4 DEF PushChangedTiles
  <2>6. i \in t.start_row..t.end_row /\ j \in t.start_col..t.end_col
    BY <1>3, <2>2, <2>3
  <2> QED
    BY <1>2, <2>5, <2>6
<1> QED
  BY <1>1, <1>4, <1>5

\* Two of them are in rows apart, or in one row with a tile between them, which
\* cannot be if but the last tile of each row is marked.
LEMMA RectanglesDiffer ==
    ASSUME NEW last \in Nat, NEW tiles, NEW counts, Found(last, tiles, counts),
           NEW t \in TileRectangles(tiles, counts), NEW u \in TileRectangles(tiles, counts), t # u
    PROVE  \/ t.end_row < u.start_row \/ u.end_row < t.start_row
           \/ /\ t.end_col + 1 < u.start_col \/ u.end_col + 1 < t.start_col
              /\ ~ \A i \in 0..last : tiles[i] \subseteq {NumTiles - 1}
<1> DEFINE rows == Grown(tiles, counts)
<1>1. /\ FullRows(rows) \subseteq 0..last /\ PartlyChangedRows(rows) \subseteq 0..last
      /\ \A i \in 0..last :
            /\ rows[i].marked \in SUBSET Columns
            /\ tiles[i] \subseteq {NumTiles - 1} =>
                  rows[i].marked \subseteq {NumTiles - 2, NumTiles - 1}
  BY GrownRows
<1>2. FullRows(rows) \in SUBSET Nat /\ FullRows(rows) \cap PartlyChangedRows(rows) = {}
  <2>1. NumTiles \notin 1..(NumTiles - 1)
    BY TilesAssumption
  <2> QED
    BY <1>1, <2>1 DEF FullRows, PartlyChangedRows
<1>3. /\ \/ \E run : FromFullRows(t, rows, run)
         \/ \E run, i : FromOneRow(t, rows, run, i)
      /\ \/ \E run : FromFullRows(u, rows, run)
         \/ \E run, i : FromOneRow(u, rows, run, i)
  BY WhereFrom
<1>4. /\ t = [across_rows |-> t.across_rows, start_row |-> t.start_row, end_row |-> t.end_row,
              start_col |-> t.start_col, end_col |-> t.end_col]
      /\ u = [across_rows |-> u.across_rows, start_row |-> u.start_row, end_row |-> u.end_row,
              start_col |-> u.start_col, end_col |-> u.end_col]
  BY WhereFrom
<1> HIDE DEF rows
<1>5. ASSUME NEW v, NEW x, NEW run, NEW r, NEW i, FromFullRows(v, rows, run), FromOneRow(x, rows, r, i)
      PROVE  v.end_row < x.start_row \/ x.end_row < v.start_row
  <2>1. /\ run.first \in Nat /\ run.last \in Nat /\ i \in Nat
        /\ i \notin FullRows(rows) /\ run.first..run.last \subseteq FullRows(rows)
    BY <1>1, <1>2, <1>5 DEF FromFullRows, FromOneRow, Runs
  <2>2. i < run.first \/ run.last < i
    BY <2>1
  <2> QED
    BY <1>5, <2>2 DEF FromFullRows, FromOneRow
<1>6. ASSUME NEW run, NEW r, FromFullRows(t, rows, run), FromFullRows(u, rows, r)
      PROVE  t.end_row < u.start_row \/ u.end_row < t.start_row
  <2>1. run \in Runs(FullRows(rows)) /\ r \in Runs(FullRows(rows))
    BY <1>6 DEF FromFullRows
  <2>2. run # r
    BY <1>4, <1>6 DEF FromFullRows
  <2>3. run.last + 1 < r.first \/ r.last + 1 < run.first
    BY <1>2, <2>1, <2>2, RunsAreApart
  <2>4. run.first \in Nat /\ run.last \in Nat /\ r.first \in Nat /\ r.last \in Nat
    BY <1>2, <2>1 DEF Runs
  <2>5. run.last < r.first \/ r.last < run.first
    BY <2>3, <2>4
  <2> QED
    BY <1>6, <2>5 DEF FromFullRows
<1>7. ASSUME NEW run, NEW r, NEW i, NEW k, FromOneRow(t, rows, run, i), FromOneRow(u, rows, r, k)
      PROVE  \/ t.end_row < u.start_row \/ u.end_row < t.start_row
             \/ /\ t.end_col + 1 < u.start_col \/ u.end_col + 1 < t.start_col
                /\ ~ \A l \in 0..last : tiles[l] \subseteq {NumTiles - 1}
  <2>1. i \in 0..last /\ k \in 0..last
    BY <1>1, <1>7 DEF FromOneRow
  <2>2. CASE i # k
    <3>1. i < k \/ k < i
      BY <2>1, <2>2
    <3> QED
      BY <1>7, <3>1 DEF FromOneRow
  <2>3. CASE i = k
    <3>1. run \in Runs(rows[i].marked) /\ r \in Runs(rows[i].marked)
      BY <1>7, <2>3 DEF FromOneRow
    <3>2. run # r
      BY <1>4, <1>7, <2>3 DEF FromOneRow
    <3>3. rows[i].marked \in SUBSET Nat /\ rows[i].marked \subseteq Columns
      BY <1>1, <2>1, ColumnsFinite
    <3>4. run.last + 1 < r.first \/ r.last + 1 < run.first
      BY <3>1, <3>2, <3>3, RunsAreApart
    <3>5. ~(rows[i].marked \subseteq {NumTiles - 2, NumTiles - 1})
      <4>1. /\ run.first \in rows[i].marked /\ run.last \in rows[i].marked
            /\ r.first \in rows[i].marked /\ r.last \in rows[i].marked
            /\ run.first \in Nat /\ run.last \in Nat /\ r.first \in Nat /\ r.last \in Nat
        BY <3>1, <3>3 DEF Runs
      <4> QED
        BY <3>4, <4>1, TilesAssumption
    <3> QED
      BY <1>1, <1>7, <2>1, <3>4, <3>5 DEF FromOneRow
  <2> QED
    BY <2>2, <2>3
<1> QED
  BY <1>3, <1>5, <1>6, <1>7

LEMMA Multiples ==
    ASSUME NEW a \in Int, NEW b \in Int, NEW n \in Nat, a <= b
    PROVE  a * n <= b * n
  BY SMT

\* Every row of tiles begins on the screen, and every line is in a row.
LEMMA RowsOfTiles ==
    ASSUME NEW h \in Nat \ {0}
    PROVE  /\ NumVerticalTiles(h) \in Nat \ {0}
           /\ \A i \in 0..(NumVerticalTiles(h) - 1) : i * NumTiles \in Nat /\ i * NumTiles < h
           /\ \A y \in 0..(h - 1) : y \div NumTiles \in 0..(NumVerticalTiles(h) - 1)
<1> DEFINE n == NumVerticalTiles(h)
<1>1. NumTiles \in Nat \ {0} /\ h + NumTiles - 1 \in Nat
  BY TilesAssumption
<1>2. n \in Nat /\ NumTiles * n <= h + NumTiles - 1 /\ h + NumTiles - 1 < NumTiles * n + NumTiles
  BY <1>1, Quotients DEF NumVerticalTiles
<1> HIDE DEF n
<1>3. n # 0
  <2>1. NumTiles * 0 = 0
    BY <1>1, Products
  <2> QED
    BY <1>1, <1>2, <2>1
<1>4. ASSUME NEW i \in 0..(n - 1) PROVE i * NumTiles \in Nat /\ i * NumTiles < h
  <2>1. i \in Nat /\ i + 1 <= n
    BY <1>2
  <2>2. NumTiles * (i + 1) <= NumTiles * n /\ NumTiles * (i + 1) = i * NumTiles + NumTiles
    BY <1>1, <1>2, <2>1, Factors, Products
  <2>3. i * NumTiles \in Int /\ i * NumTiles >= 0 /\ NumTiles * n \in Int
    BY <1>1, <1>2, <2>1, Products
  <2> QED
    BY <1>1, <1>2, <2>2, <2>3
<1>5. ASSUME NEW y \in 0..(h - 1) PROVE y \div NumTiles \in 0..(n - 1)
  <2> DEFINE q == y \div NumTiles
  <2>1. q \in Nat /\ NumTiles * q <= y /\ y \in Nat
    BY <1>1, Quotients
  <2> HIDE DEF q
  <2>2. NumTiles * q < NumTiles * n
    <3>1. NumTiles * n \in Int /\ NumTiles * q \in Int
      BY <1>1, <1>2, <2>1, Products
    <3> QED
      BY <1>1, <1>2, <2>1, <3>1
  <2>3. q < n
    BY <1>1, <1>2, <2>1, <2>2, Factors
  <2> QED
    BY <1>2, <2>1, <2>3 DEF q
<1> QED
  BY <1>2, <1>3, <1>4, <1>5 DEF n

\* Division that rounds up
LEMMA RoundedUp ==
    ASSUME NEW a \in Nat \ {0}, NEW n \in Nat \ {0}
    PROVE  LET q == a \div n + (IF a % n # 0 THEN 1 ELSE 0)
           IN q \in Nat \ {0} /\ a <= n * q /\ n * q < a + n
<1> DEFINE p == a \div n
           r == a % n
<1>1. p \in Nat /\ r \in Nat /\ r < n /\ a = n * p + r
  BY Quotients, Remainders
<1>2. n * (p + 1) = n * p + n /\ n * p \in Int /\ n * 0 = 0
  BY <1>1, Products
<1> HIDE DEF p, r
<1>3. CASE r = 0
  <2>1. p # 0
    BY <1>1, <1>2, <1>3
  <2> QED
    BY <1>1, <1>2, <1>3, <2>1 DEF p, r
<1>4. CASE r # 0
  BY <1>1, <1>2, <1>4 DEF p, r
<1> QED
  BY <1>3, <1>4

\* A rectangle of tiles, which has a corner on the screen
TilesOn(t, h) ==
    /\ t.start_row \in 0..(NumVerticalTiles(h) - 1) /\ t.end_row \in 0..(NumVerticalTiles(h) - 1)
    /\ t.start_row <= t.end_row
    /\ t.start_col \in Columns /\ t.end_col \in Columns /\ t.start_col <= t.end_col

\* push_tiles_report rounds outward, by less than a pixel, and stays on the screen.
LEMMA RectangleAcross ==
    ASSUME NEW w \in Nat \ {0}, NEW h \in Nat \ {0}, NEW t, TilesOn(t, h)
    PROVE  LET r == PixelRectangle(t, w, h)
               cols == t.end_col - t.start_col + 1
           IN /\ r.x \in Nat /\ r.w \in Nat \ {0} /\ r.x + r.w <= w
              /\ NumTiles * r.x <= t.start_col * w /\ t.start_col * w < NumTiles * r.x + NumTiles
              /\ NumTiles * (r.x + r.w) < (t.end_col + 1) * w + NumTiles
              /\ r.x + r.w = w \/ cols * w <= NumTiles * r.w
<1> DEFINE r == PixelRectangle(t, w, h)
           cols == t.end_col - t.start_col + 1
           x == (t.start_col * w) \div NumTiles
           wide == (cols * w) \div NumTiles + (IF (cols * w) % NumTiles # 0 THEN 1 ELSE 0)
<1>1. /\ NumTiles \in Nat \ {0} /\ t.start_col \in Nat /\ t.end_col \in Nat
      /\ t.start_col <= NumTiles - 1 /\ t.end_col <= NumTiles - 1 /\ cols \in Nat \ {0}
  BY TilesAssumption DEF TilesOn, Columns
<1>2. r.x = x /\ r.w = IF x + wide > w THEN w - x ELSE wide
  BY DEF PixelRectangle
<1>3. /\ t.start_col * w \in Nat /\ cols * w \in Nat \ {0}
      /\ t.start_col * w + cols * w = (t.end_col + 1) * w
      /\ t.start_col * w + w <= NumTiles * w
  <2>1. t.start_col * w \in Nat
    BY <1>1, Products
  <2>2. cols >= 1 /\ w = 1 * w
    BY <1>1, Products
  <2>3. cols * w \in Int /\ w <= cols * w
    BY <1>1, <2>2, Multiples, Products
  <2>4. t.start_col * w + cols * w = (t.end_col + 1) * w
    <3>1. w * t.start_col + w * cols = w * (t.start_col + cols) /\ t.start_col + cols = t.end_col + 1
      BY <1>1, Products
    <3>2. w * t.start_col = t.start_col * w /\ w * cols = cols * w
          /\ w * (t.end_col + 1) = (t.end_col + 1) * w
      BY <1>1, Products
    <3> QED
      BY <3>1, <3>2
  <2>5. t.start_col * w + w <= NumTiles * w
    <3>1. (t.start_col + 1) * w <= NumTiles * w
      BY <1>1, Multiples
    <3>2. w * (t.start_col + 1) = w * t.start_col + w /\ w * (t.start_col + 1) = (t.start_col + 1) * w
          /\ w * t.start_col = t.start_col * w
      BY <1>1, Products
    <3> QED
      BY <3>1, <3>2
  <2> QED
    BY <2>1, <2>3, <2>4, <2>5
<1>4. x \in Nat /\ NumTiles * x <= t.start_col * w /\ t.start_col * w < NumTiles * x + NumTiles
  BY <1>1, <1>3, Quotients
<1>5. wide \in Nat \ {0} /\ cols * w <= NumTiles * wide /\ NumTiles * wide < cols * w + NumTiles
  BY <1>1, <1>3, RoundedUp
<1> HIDE DEF x, wide, cols, r
<1>6. x < w
  <2>1. NumTiles * x \in Int /\ NumTiles * w \in Int
    BY <1>1, <1>4, Products
  <2>2. NumTiles * x < NumTiles * w
    BY <1>3, <1>4, <2>1
  <2> QED
    BY <1>1, <1>4, <2>2, Factors
<1>7. r.x \in Nat /\ r.w \in Nat \ {0} /\ r.x + r.w <= w /\ r.w <= wide
  BY <1>2, <1>4, <1>5, <1>6
<1>8. NumTiles * (r.x + r.w) < (t.end_col + 1) * w + NumTiles
  <2>1. NumTiles * r.w <= NumTiles * wide
    BY <1>1, <1>5, <1>7, Factors
  <2>2. NumTiles * (r.x + r.w) = NumTiles * r.x + NumTiles * r.w
    BY <1>1, <1>7, Products
  <2>3. NumTiles * r.x \in Int /\ NumTiles * r.w \in Int /\ NumTiles * wide \in Int
    BY <1>1, <1>5, <1>7, Products
  <2> QED
    BY <1>1, <1>2, <1>3, <1>4, <1>5, <2>1, <2>2, <2>3
<1>9. r.x + r.w = w \/ cols * w <= NumTiles * r.w
  BY <1>2, <1>4, <1>5
<1> QED
  BY <1>2, <1>4, <1>7, <1>8, <1>9 DEF r, cols

\* Downward nothing is rounded.
LEMMA RectangleDown ==
    ASSUME NEW w \in Nat \ {0}, NEW h \in Nat \ {0}, NEW t, TilesOn(t, h)
    PROVE  LET r == PixelRectangle(t, w, h)
           IN /\ r.y \in Nat /\ r.h \in Nat \ {0} /\ r.y + r.h <= h
              /\ r.y = t.start_row * NumTiles
              /\ r.y + r.h <= (t.end_row + 1) * NumTiles
              /\ r.y + r.h = h \/ r.y + r.h = (t.end_row + 1) * NumTiles
<1> DEFINE r == PixelRectangle(t, w, h)
           y == t.start_row * NumTiles
           high == (t.end_row - t.start_row + 1) * NumTiles
<1>1. /\ NumTiles \in Nat \ {0} /\ t.start_row \in Nat /\ t.end_row \in Nat /\ t.start_row <= t.end_row
      /\ y \in Nat /\ y < h
  BY TilesAssumption, RowsOfTiles DEF TilesOn
<1>2. r.y = y /\ r.h = IF y + high > h THEN h - y ELSE high
  BY DEF PixelRectangle
<1>3. high \in Int /\ high >= NumTiles /\ y + high = (t.end_row + 1) * NumTiles
  <2>1. 1 * NumTiles <= (t.end_row - t.start_row + 1) * NumTiles /\ 1 * NumTiles = NumTiles
    BY <1>1, Multiples, Products
  <2>2. NumTiles * t.start_row + NumTiles * (t.end_row - t.start_row + 1)
            = NumTiles * (t.start_row + (t.end_row - t.start_row + 1))
    BY <1>1, Products
  <2>3. t.start_row + (t.end_row - t.start_row + 1) = t.end_row + 1
    BY <1>1
  <2>4. /\ NumTiles * t.start_row = y /\ NumTiles * (t.end_row - t.start_row + 1) = high
        /\ NumTiles * (t.end_row + 1) = (t.end_row + 1) * NumTiles
        /\ high \in Int
    BY <1>1, Products
  <2> QED
    BY <2>1, <2>2, <2>3, <2>4
<1> HIDE DEF y, high, r
<1>4. /\ r.y \in Nat /\ r.h \in Nat \ {0} /\ r.y + r.h <= h /\ r.y + r.h <= y + high
      /\ r.y + r.h = h \/ r.y + r.h = y + high
  BY <1>1, <1>2, <1>3
<1> QED
  BY <1>2, <1>3, <1>4 DEF r, y

LEMMA ColumnWidth ==
    ASSUME NEW w \in Nat \ {0}
    PROVE  w \div NumTiles \in Nat /\ (w < NumTiles => w \div NumTiles = 0)
<1>1. NumTiles \in Nat \ {0} /\ w \div NumTiles \in Nat
  BY TilesAssumption, Quotients
<1>2. w < NumTiles => w \div NumTiles = 0
  <2>1. NumTiles * 0 = 0 /\ 0 \in Int
    BY <1>1, Products
  <2> QED
    BY <1>1, <2>1, QuotientIs
<1> QED
  BY <1>1, <1>2

\* On a screen that is narrower than there are columns the last one has all pixels.
LEMMA ChangesInColumns ==
    ASSUME NEW w \in Nat \ {0}, NEW d, NEW y
    PROVE  /\ ChangedColumns(d, w, y) \in SUBSET Columns
           /\ w < NumTiles => ChangedColumns(d, w, y) \subseteq {NumTiles - 1}
<1>1. ASSUME w < NumTiles, NEW j \in Columns, j # NumTiles - 1 PROVE ColumnPixels(w, j) = {}
  <2>1. w \div NumTiles = 0 /\ j \in Int
    BY <1>1, ColumnWidth, TilesAssumption DEF Columns
  <2>2. ColumnPixels(w, j) = (j * 0)..((j + 1) * 0 - 1)
    BY <1>1, <2>1 DEF ColumnPixels
  <2>3. j * 0 = 0 /\ (j + 1) * 0 = 0
    BY <2>1
  <2> QED
    BY <2>2, <2>3
<1> QED
  BY <1>1 DEF ChangedColumns

\* Where a screen's width is a multiple, each of its pixels is in a column.
LEMMA PixelsInColumns ==
    ASSUME NEW w \in Nat \ {0}, w % NumTiles = 0, NEW x \in 0..(w - 1)
    PROVE  \E j \in Columns : x \in ColumnPixels(w, j)
<1> DEFINE len == w \div NumTiles
<1>1. NumTiles \in Nat \ {0} /\ len \in Nat /\ w = NumTiles * len + 0 /\ x \in Nat /\ x < w
  BY TilesAssumption, Remainders, Quotients
<1>2. len # 0 /\ w = len * NumTiles /\ w = NumTiles * len
  <2>1. NumTiles * len \in Int /\ NumTiles * len = len * NumTiles /\ NumTiles * 0 = 0
    BY <1>1, Products
  <2> QED
    BY <1>1, <2>1
<1> HIDE DEF len
<1> DEFINE j == x \div len
<1>3. j \in Nat /\ len * j <= x /\ x < len * j + len
  BY <1>1, <1>2, Quotients
<1> HIDE DEF j
<1>4. /\ len * j = j * len /\ len * j \in Int /\ len * (j + 1) = len * j + len
      /\ len * (j + 1) = (j + 1) * len
  BY <1>1, <1>3, Products
<1>5. j < NumTiles
  <2>1. len * j < len * NumTiles
    BY <1>1, <1>2, <1>3, <1>4
  <2> QED
    BY <1>1, <1>2, <1>3, <2>1, Factors
<1>6. j \in Columns
  BY <1>1, <1>3, <1>5 DEF Columns
<1>7. x \in (j * len)..(IF j = NumTiles - 1 THEN w - 1 ELSE (j + 1) * len - 1)
  BY <1>1, <1>3, <1>4
<1> QED
  BY <1>6, <1>7 DEF ColumnPixels, len

\* There a rectangle of tiles has the pixels of all its columns ...
LEMMA ColumnsAreCovered ==
    ASSUME NEW w \in Nat \ {0}, NEW h \in Nat \ {0}, w % NumTiles = 0, NEW t, TilesOn(t, h),
           NEW j \in t.start_col..t.end_col, NEW x \in ColumnPixels(w, j)
    PROVE  LET r == PixelRectangle(t, w, h) IN x \in r.x..(r.x + r.w - 1)
<1> DEFINE r == PixelRectangle(t, w, h)
           len == w \div NumTiles
           a == t.start_col
           b == t.end_col
<1>1. NumTiles \in Nat \ {0} /\ len \in Nat /\ w = NumTiles * len + 0
  BY TilesAssumption, Remainders, Quotients
<1>2. w = NumTiles * len
  BY <1>1, Products
<1>3. /\ a \in Nat /\ b \in Nat /\ j \in Nat /\ a <= j /\ j <= b /\ b <= NumTiles - 1
      /\ b - a + 1 \in Nat
  BY <1>1 DEF TilesOn, Columns
<1>4. /\ r.x \in Nat /\ r.w \in Nat \ {0} /\ r.x + r.w <= w
      /\ NumTiles * r.x <= a * w /\ a * w < NumTiles * r.x + NumTiles
      /\ r.x + r.w = w \/ (b - a + 1) * w <= NumTiles * r.w
  BY RectangleAcross
<1>5. x \in (j * len)..(IF j = NumTiles - 1 THEN w - 1 ELSE (j + 1) * len - 1)
  BY DEF ColumnPixels
<1> HIDE DEF r, len, a, b
<1>6. /\ j * len \in Int /\ (j + 1) * len \in Int /\ a * len \in Int /\ (b + 1) * len \in Int
      /\ a * len <= j * len /\ (j + 1) * len <= (b + 1) * len /\ (j + 1) * len <= w
  <2>1. a * len <= j * len /\ (j + 1) * len <= (b + 1) * len /\ (j + 1) * len <= NumTiles * len
    BY <1>1, <1>3, Multiples
  <2>2. j * len \in Int /\ (j + 1) * len \in Int /\ a * len \in Int /\ (b + 1) * len \in Int
    BY <1>1, <1>3, Products
  <2> QED
    BY <1>2, <2>1, <2>2
<1>7. x \in Int /\ j * len <= x /\ x < (j + 1) * len /\ x < w
  <2>1. x \in Int /\ j * len <= x
    BY <1>1, <1>5, <1>6
  <2>2. CASE j = NumTiles - 1
    <3>1. j + 1 = NumTiles
      BY <1>1, <2>2
    <3>2. (j + 1) * len = w
      BY <1>2, <3>1
    <3> QED
      BY <1>1, <1>5, <2>1, <2>2, <3>2
  <2>3. CASE j # NumTiles - 1
    BY <1>5, <1>6, <2>1, <2>3
  <2> QED
    BY <2>1, <2>2, <2>3
<1>8. r.x = a * len
  <2>1. a * w = NumTiles * (a * len)
    <3>1. NumTiles * (a * len) = a * (NumTiles * len)
      BY <1>1, <1>3, SMT
    <3> QED
      BY <1>2, <3>1
  <2>2. NumTiles * r.x <= NumTiles * (a * len) /\ NumTiles * (a * len) < NumTiles * (r.x + 1)
    BY <1>1, <1>4, <2>1, Products
  <2>3. r.x <= a * len /\ a * len < r.x + 1
    BY <1>1, <1>4, <1>6, <2>2, Factors
  <2> QED
    BY <1>4, <1>6, <2>3
<1>9. x < r.x + r.w
  <2>1. CASE r.x + r.w = w
    BY <1>7, <2>1
  <2>2. CASE (b - a + 1) * w <= NumTiles * r.w
    <3> DEFINE n == b - a + 1
    <3>1. n * w = NumTiles * (n * len)
      <4>1. NumTiles * (n * len) = n * (NumTiles * len)
        BY <1>1, <1>3, SMT
      <4> QED
        BY <1>2, <4>1
    <3>2. n * len \in Int
      BY <1>1, <1>3, Products
    <3>3. NumTiles * (n * len) <= NumTiles * r.w
      BY <2>2, <3>1
    <3>4. n * len <= r.w
      BY <1>1, <1>4, <3>2, <3>3, Factors
    <3>5. a * len + n * len = (b + 1) * len
      <4>1. len * a + len * n = len * (a + n) /\ a + n = b + 1
        BY <1>1, <1>3, Products
      <4>2. len * a = a * len /\ len * n = n * len /\ len * (b + 1) = (b + 1) * len
        BY <1>1, <1>3, Products
      <4> QED
        BY <4>1, <4>2
    <3> HIDE DEF n
    <3> QED
      BY <1>4, <1>6, <1>7, <1>8, <3>2, <3>4, <3>5
  <2> QED
    BY <1>4, <2>1, <2>2
<1> QED
  BY <1>4, <1>6, <1>7, <1>8, <1>9 DEF r

\* ... and the lines of all its rows, on any screen.
LEMMA LinesAreCovered ==
    ASSUME NEW w \in Nat \ {0}, NEW h \in Nat \ {0}, NEW t, TilesOn(t, h),
           NEW y \in 0..(h - 1), y \div NumTiles \in t.start_row..t.end_row
    PROVE  LET r == PixelRectangle(t, w, h) IN y \in r.y..(r.y + r.h - 1)
<1> DEFINE r == PixelRectangle(t, w, h)
           i == y \div NumTiles
<1>1. /\ NumTiles \in Nat \ {0} /\ y \in Nat /\ i \in Nat /\ NumTiles * i <= y
      /\ y < NumTiles * i + NumTiles
  BY TilesAssumption, Quotients
<1>2. /\ r.y = t.start_row * NumTiles /\ r.y \in Nat /\ r.h \in Nat
      /\ r.y + r.h = h \/ r.y + r.h = (t.end_row + 1) * NumTiles
  BY RectangleDown
<1>3. t.start_row \in Nat /\ t.end_row \in Nat /\ t.start_row <= i /\ i <= t.end_row
  BY RowsOfTiles DEF TilesOn
<1> HIDE DEF r, i
<1>4. t.start_row * NumTiles <= i * NumTiles /\ (i + 1) * NumTiles <= (t.end_row + 1) * NumTiles
  BY <1>1, <1>3, Multiples
<1>5. /\ i * NumTiles = NumTiles * i /\ (i + 1) * NumTiles = NumTiles * i + NumTiles
      /\ NumTiles * i \in Int /\ (t.end_row + 1) * NumTiles \in Int
  <2>1. NumTiles * (i + 1) = NumTiles * i + NumTiles /\ NumTiles * (i + 1) = (i + 1) * NumTiles
    BY <1>1, Products
  <2> QED
    BY <1>1, <1>3, <2>1, Products
<1> QED
  BY <1>1, <1>2, <1>4, <1>5 DEF r

LEMMA ScreenSize ==
    ASSUME NEW s \in Sizes
    PROVE  /\ s[1] \in Nat \ {0} /\ s[2] \in Nat \ {0} /\ NumVerticalTiles(s[2]) \in Nat \ {0}
           /\ NumVerticalTiles(s[2]) - 1 \in Nat
<1>1. s[1] \in Nat \ {0} /\ s[2] \in Nat \ {0}
  BY TileScanAssumption
<1> QED
  BY <1>1, RowsOfTiles

\* What either scan finds: a row without a count has no marks, and on a screen that
\* is too narrow only the last column has marks.
LEMMA PeriodicFinds ==
    ASSUME NEW w \in Nat \ {0}, NEW h \in Nat \ {0}, NEW d, NEW line
    PROVE  LET tiles == PeriodicTiles(d, w, h, line)
               last  == NumVerticalTiles(h) - 1
           IN /\ Found(last, tiles, TileCounts(tiles))
              /\ w < NumTiles => \A i \in 0..last : tiles[i] \subseteq {NumTiles - 1}
<1> DEFINE tiles == PeriodicTiles(d, w, h, line)
           last  == NumVerticalTiles(h) - 1
<1>1. /\ tiles \in [0..last -> SUBSET Columns]
      /\ w < NumTiles => \A i \in 0..last : tiles[i] \subseteq {NumTiles - 1}
  BY ChangesInColumns DEF PeriodicTiles
<1> HIDE DEF tiles, last
<1>2. \A i \in 0..last : /\ Cardinality(tiles[i]) \in Nat
                         /\ tiles[i] # {} => Cardinality(tiles[i]) > 0
  <2> SUFFICES ASSUME NEW i \in 0..last
               PROVE  /\ Cardinality(tiles[i]) \in Nat
                      /\ tiles[i] # {} => Cardinality(tiles[i]) > 0
    OBVIOUS
  <2>1. IsFiniteSet(tiles[i]) /\ Cardinality(tiles[i]) \in Nat
    BY <1>1, ColumnsFinite
  <2>2. Cardinality(tiles[i]) = 0 <=> tiles[i] = {}
    BY <2>1, FS_EmptySet
  <2> QED
    BY <2>1, <2>2
<1>3. Found(last, tiles, TileCounts(tiles))
  BY <1>1, <1>2 DEF Found, TileCounts
<1> QED
  BY <1>1, <1>3 DEF tiles, last

LEMMA WholeScreenFinds ==
    ASSUME NEW w \in Nat \ {0}, NEW h \in Nat \ {0}, NEW d
    PROVE  LET tiles == WholeScreenTiles(d, w, h)
               last  == NumVerticalTiles(h) - 1
           IN /\ Found(last, tiles, WholeScreenCounts(d, w, h))
              /\ w < NumTiles => \A i \in 0..last : tiles[i] \subseteq {NumTiles - 1}
<1> DEFINE tiles == WholeScreenTiles(d, w, h)
           last  == NumVerticalTiles(h) - 1
           found(i) == {tile \in Columns \X WholeScreenLines(h, i) :
                           tile[1] \in ChangedColumns(d, w, tile[2])}
<1>1. /\ tiles \in [0..last -> SUBSET Columns]
      /\ w < NumTiles => \A i \in 0..last : tiles[i] \subseteq {NumTiles - 1}
  BY ChangesInColumns DEF WholeScreenTiles
<1>2. ASSUME NEW i \in 0..last
      PROVE  Cardinality(found(i)) \in Nat /\ (tiles[i] # {} => Cardinality(found(i)) > 0)
  <2>1. IsFiniteSet(WholeScreenLines(h, i))
    <3> DEFINE n == NumVerticalTiles(h)
    <3>1. n \in Nat \ {0} /\ i \in Nat /\ i + 1 \in Nat
      BY RowsOfTiles
    <3>2. i * h \in Nat /\ (i + 1) * h \in Nat
      BY <3>1, Products
    <3>3. (i * h) \div n \in Int /\ ((i + 1) * h) \div n - 1 \in Int
      BY <3>1, <3>2, Quotients
    <3> QED
      BY <3>3, FS_Interval DEF WholeScreenLines
  <2>2. IsFiniteSet(Columns)
    BY ColumnsFinite
  <2>3. IsFiniteSet(Columns \X WholeScreenLines(h, i))
    BY <2>1, <2>2, FS_Product
  <2>4. IsFiniteSet(found(i)) /\ Cardinality(found(i)) \in Nat
    BY <2>3, FS_Subset, FS_CardinalityType
  <2>5. tiles[i] # {} => found(i) # {}
    <3> SUFFICES ASSUME NEW j \in tiles[i] PROVE found(i) # {}
      OBVIOUS
    <3>1. PICK y \in WholeScreenLines(h, i) : j \in ChangedColumns(d, w, y)
      BY DEF WholeScreenTiles
    <3>2. j \in Columns
      BY <3>1, ChangesInColumns
    <3>3. <<j, y>> \in found(i)
      BY <3>1, <3>2
    <3> QED
      BY <3>3
  <2>6. Cardinality(found(i)) = 0 <=> found(i) = {}
    BY <2>4, FS_EmptySet
  <2> QED
    BY <2>4, <2>5, <2>6
<1>3. WholeScreenCounts(d, w, h) = [i \in 0..last |-> Cardinality(found(i))]
  BY DEF WholeScreenCounts
<1> HIDE DEF tiles, last, found
<1>4. Found(last, tiles, WholeScreenCounts(d, w, h))
  BY <1>1, <1>2, <1>3 DEF Found
<1> QED
  BY <1>1, <1>4 DEF tiles, last

\* Rectangles of tiles that are apart are so in pixels: rounding takes less than
\* the column that is between them.
LEMMA ApartInPixels ==
    ASSUME NEW w \in Nat \ {0}, NEW h \in Nat \ {0}, NEW t, NEW u, TilesOn(t, h), TilesOn(u, h),
           NEW p, Inside(PixelRectangle(t, w, h), p), Inside(PixelRectangle(u, w, h), p)
    PROVE  ~(t.end_row < u.start_row) /\ (NumTiles <= w => ~(t.end_col + 1 < u.start_col))
<1> DEFINE r == PixelRectangle(t, w, h)
           s == PixelRectangle(u, w, h)
<1>1. /\ p[1] \in r.x..(r.x + r.w - 1) /\ p[1] \in s.x..(s.x + s.w - 1)
      /\ p[2] \in r.y..(r.y + r.h - 1) /\ p[2] \in s.y..(s.y + s.h - 1)
  BY DEF Inside
<1>2. /\ r.y \in Nat /\ r.h \in Nat /\ r.y + r.h <= (t.end_row + 1) * NumTiles
      /\ s.y \in Nat /\ s.y = u.start_row * NumTiles
  BY RectangleDown
<1>3. /\ r.x \in Nat /\ r.w \in Nat /\ NumTiles * (r.x + r.w) < (t.end_col + 1) * w + NumTiles
      /\ s.x \in Nat /\ u.start_col * w < NumTiles * s.x + NumTiles
  BY RectangleAcross
<1>4. /\ NumTiles \in Nat \ {0} /\ t.end_row \in Int /\ u.start_row \in Int
      /\ t.end_col \in Int /\ u.start_col \in Int
  BY TilesAssumption DEF TilesOn, Columns
<1> HIDE DEF r, s
<1>5. ASSUME t.end_row < u.start_row PROVE FALSE
  <2>1. (t.end_row + 1) * NumTiles <= u.start_row * NumTiles
    BY <1>4, <1>5, Multiples
  <2>2. (t.end_row + 1) * NumTiles \in Int
    BY <1>4, Products
  <2> QED
    BY <1>1, <1>2, <2>1, <2>2
<1>6. ASSUME NumTiles <= w, t.end_col + 1 < u.start_col PROVE FALSE
  <2>1. (t.end_col + 2) * w <= u.start_col * w
    BY <1>4, <1>6, Multiples
  <2>2. (t.end_col + 2) * w = (t.end_col + 1) * w + w
    <3>1. w * ((t.end_col + 1) + 1) = w * (t.end_col + 1) + w /\ (t.end_col + 1) + 1 = t.end_col + 2
      BY <1>4, Products
    <3>2. /\ w * (t.end_col + 2) = (t.end_col + 2) * w
          /\ w * (t.end_col + 1) = (t.end_col + 1) * w
      BY <1>4, Products
    <3> QED
      BY <3>1, <3>2
  <2>3. /\ (t.end_col + 1) * w \in Int /\ u.start_col * w \in Int
        /\ NumTiles * (r.x + r.w) \in Int /\ NumTiles * (s.x + 1) \in Int
        /\ NumTiles * (s.x + 1) = NumTiles * s.x + NumTiles
    BY <1>3, <1>4, Products
  <2>4. NumTiles * (r.x + r.w) < NumTiles * (s.x + 1)
    BY <1>3, <1>4, <1>6, <2>1, <2>2, <2>3
  <2>5. r.x + r.w < s.x + 1
    BY <1>3, <1>4, <2>4, Factors
  <2> QED
    BY <1>1, <1>3, <2>5
<1> QED
  BY <1>5, <1>6

\* What is pushed is what RectanglesAreApart says, whatever a scan found.
LEMMA ReportIsApart ==
    ASSUME NEW s \in Sizes, NEW tiles, NEW counts,
           Found(NumVerticalTiles(s[2]) - 1, tiles, counts),
           s[1] < NumTiles =>
              \A i \in 0..(NumVerticalTiles(s[2]) - 1) : tiles[i] \subseteq {NumTiles - 1},
           size' = s, pushed' = [t \in TileRectangles(tiles, counts) |-> PixelRectangle(t, s[1], s[2])]
    PROVE  RectanglesAreApart'
<1> DEFINE w == s[1]
           h == s[2]
           rects == TileRectangles(tiles, counts)
<1>1. w \in Nat \ {0} /\ h \in Nat \ {0} /\ NumVerticalTiles(h) - 1 \in Nat
  BY ScreenSize
<1>2. \A t \in rects : TilesOn(t, h)
  BY <1>1, RectanglesOfTiles DEF TilesOn
<1>3. ASSUME NEW t \in rects
      PROVE  LET r == PixelRectangle(t, w, h)
             IN /\ r.x >= 0 /\ r.w > 0 /\ r.x + r.w <= w
                /\ r.y >= 0 /\ r.h > 0 /\ r.y + r.h <= h
  <2> DEFINE r == PixelRectangle(t, w, h)
  <2>1. r.x \in Nat /\ r.w \in Nat \ {0} /\ r.x + r.w <= w
    BY <1>1, <1>2, RectangleAcross
  <2>2. r.y \in Nat /\ r.h \in Nat \ {0} /\ r.y + r.h <= h
    BY <1>1, <1>2, RectangleDown
  <2> HIDE DEF r
  <2>3. r.x >= 0 /\ r.w > 0 /\ r.y >= 0 /\ r.h > 0
    BY <2>1, <2>2
  <2> QED
    BY <2>1, <2>2, <2>3 DEF r
<1>4. ASSUME NEW t \in rects, NEW u \in rects, t # u, NEW p,
             Inside(PixelRectangle(t, w, h), p), Inside(PixelRectangle(u, w, h), p)
      PROVE  FALSE
  <2>1. \/ t.end_row < u.start_row \/ u.end_row < t.start_row
        \/ /\ t.end_col + 1 < u.start_col \/ u.end_col + 1 < t.start_col
           /\ ~ \A i \in 0..(NumVerticalTiles(h) - 1) : tiles[i] \subseteq {NumTiles - 1}
    BY <1>1, <1>4, RectanglesDiffer
  <2>2. ~(t.end_row < u.start_row) /\ (NumTiles <= w => ~(t.end_col + 1 < u.start_col))
    BY <1>1, <1>2, <1>4, ApartInPixels
  <2>3. ~(u.end_row < t.start_row) /\ (NumTiles <= w => ~(u.end_col + 1 < t.start_col))
    BY <1>1, <1>2, <1>4, ApartInPixels
  <2>4. w < NumTiles \/ NumTiles <= w
    BY <1>1, TilesAssumption
  <2> QED
    BY <2>1, <2>2, <2>3, <2>4
<1>5. DOMAIN pushed' = rects /\ \A t \in rects : pushed'[t] = PixelRectangle(t, size'[1], size'[2])
  OBVIOUS
<1> HIDE DEF rects
<1>6. \A k \in DOMAIN pushed' :
         LET r == pushed'[k]
         IN /\ r.x >= 0 /\ r.w > 0 /\ r.x + r.w <= size'[1]
            /\ r.y >= 0 /\ r.h > 0 /\ r.y + r.h <= size'[2]
  BY <1>3, <1>5
<1>7. \A k, l \in DOMAIN pushed' : k # l =>
         \A p \in Pixels(size') : ~(Inside(pushed'[k], p) /\ Inside(pushed'[l], p))
  BY <1>4, <1>5
<1> QED
  BY <1>6, <1>7 DEF RectanglesAreApart

\* A change in the line and column of a marked tile is in a rectangle.
LEMMA ReportCovers ==
    ASSUME NEW s \in Sizes, s[1] % NumTiles = 0, NEW tiles, NEW counts,
           Found(NumVerticalTiles(s[2]) - 1, tiles, counts),
           NEW p \in Pixels(s),
           \A j \in Columns : p[1] \in ColumnPixels(s[1], j) => j \in tiles[p[2] \div NumTiles]
    PROVE  \E t \in TileRectangles(tiles, counts) : Inside(PixelRectangle(t, s[1], s[2]), p)
<1> DEFINE w == s[1]
           h == s[2]
           i == p[2] \div NumTiles
<1>1. w \in Nat \ {0} /\ h \in Nat \ {0} /\ NumVerticalTiles(h) - 1 \in Nat
  BY ScreenSize
<1>2. p[1] \in 0..(w - 1) /\ p[2] \in 0..(h - 1)
  BY DEF Pixels
<1>3. PICK j \in Columns : p[1] \in ColumnPixels(w, j)
  BY <1>1, <1>2, PixelsInColumns
<1>4. i \in 0..(NumVerticalTiles(h) - 1) /\ j \in tiles[i]
  BY <1>1, <1>2, <1>3, RowsOfTiles
<1>5. PICK t \in TileRectangles(tiles, counts) :
         i \in t.start_row..t.end_row /\ j \in t.start_col..t.end_col
  BY <1>1, <1>4, MarkedIsPushed
<1>6. TilesOn(t, h)
  BY <1>1, RectanglesOfTiles DEF TilesOn
<1> DEFINE r == PixelRectangle(t, w, h)
<1>7. p[1] \in r.x..(r.x + r.w - 1)
  BY <1>1, <1>3, <1>5, <1>6, ColumnsAreCovered
<1>8. p[2] \in r.y..(r.y + r.h - 1)
  BY <1>1, <1>2, <1>5, <1>6, LinesAreCovered
<1> QED
  BY <1>7, <1>8 DEF Inside

TileScanInv == TileScanTypeOK /\ ChangesAreSentWhenAligned /\ RectanglesAreApart

\* A line that a periodic scan compares is in the row it is compared for.
LEMMA PeriodicMarks ==
    ASSUME NEW s \in Sizes, NEW d, NEW p \in Pixels(s), p \in d, NEW j \in Columns,
           p[1] \in ColumnPixels(s[1], j)
    PROVE  j \in PeriodicTiles(d, s[1], s[2], p[2] % NumTiles)[p[2] \div NumTiles]
<1> DEFINE i == p[2] \div NumTiles
           y == i * NumTiles + (p[2] % NumTiles)
<1>1. s[2] \in Nat \ {0} /\ NumTiles \in Nat \ {0}
  BY ScreenSize, TilesAssumption
<1>2. p[2] \in 0..(s[2] - 1) /\ p = <<p[1], p[2]>> /\ p[2] \in Nat
  BY <1>1 DEF Pixels
<1>3. i \in 0..(NumVerticalTiles(s[2]) - 1)
  BY <1>1, <1>2, RowsOfTiles
<1>4. y = p[2]
  <2>1. i \in Nat /\ p[2] = NumTiles * i + (p[2] % NumTiles)
    BY <1>1, <1>2, Quotients, Remainders
  <2>2. NumTiles * i = i * NumTiles
    BY <1>1, <2>1, Products
  <2> QED
    BY <2>1, <2>2
<1>5. PeriodicTiles(d, s[1], s[2], p[2] % NumTiles)[i]
         = IF y >= s[2] THEN {} ELSE ChangedColumns(d, s[1], y)
  BY <1>3 DEF PeriodicTiles
<1>6. j \in ChangedColumns(d, s[1], p[2])
  BY <1>2 DEF ChangedColumns
<1> HIDE DEF i, y
<1>7. PeriodicTiles(d, s[1], s[2], p[2] % NumTiles)[i] = ChangedColumns(d, s[1], p[2])
  BY <1>1, <1>2, <1>4, <1>5
<1> QED
  BY <1>6, <1>7 DEF i

\* On a screen whose height is a multiple, the shares of a whole-screen scan are the rows.
LEMMA WholeScreenMarks ==
    ASSUME NEW s \in Sizes, s[2] % NumTiles = 0, NEW d, NEW p \in Pixels(s), p \in d,
           NEW j \in Columns, p[1] \in ColumnPixels(s[1], j)
    PROVE  j \in WholeScreenTiles(d, s[1], s[2])[p[2] \div NumTiles]
<1> DEFINE i == p[2] \div NumTiles
           h == s[2]
           n == h \div NumTiles
<1>1. h \in Nat \ {0} /\ NumTiles \in Nat \ {0} /\ NumVerticalTiles(h) \in Nat \ {0}
  BY ScreenSize, TilesAssumption
<1>2. p[2] \in 0..(h - 1) /\ p = <<p[1], p[2]>> /\ p[2] \in Nat
  BY <1>1 DEF Pixels
<1>3. i \in 0..(NumVerticalTiles(h) - 1) /\ i \in Nat
  BY <1>1, <1>2, RowsOfTiles
<1>4. n \in Nat /\ h = NumTiles * n
  <2>1. n \in Nat /\ h = NumTiles * n + (h % NumTiles)
    BY <1>1, Quotients, Remainders
  <2>2. NumTiles * n \in Int /\ h % NumTiles = 0
    BY <1>1, <2>1, Products
  <2> QED
    BY <2>1, <2>2
<1> HIDE DEF n
<1>5. NumVerticalTiles(h) = n
  <2>1. /\ h + NumTiles - 1 \in Nat /\ NumTiles * n <= h + NumTiles - 1
        /\ h + NumTiles - 1 < NumTiles * n + NumTiles
    BY <1>1, <1>4
  <2> QED
    BY <1>1, <1>4, <2>1, QuotientIs DEF NumVerticalTiles
<1>6. ASSUME NEW k \in Nat PROVE (k * h) \div NumVerticalTiles(h) = k * NumTiles
  <2>1. n * (k * NumTiles) = k * h
    <3>1. n * (k * NumTiles) = k * (NumTiles * n)
      BY <1>1, <1>4, SMT
    <3> QED
      BY <1>4, <3>1
  <2>2. k * h \in Nat /\ k * NumTiles \in Int /\ n \in Nat \ {0}
    BY <1>1, <1>5, Products
  <2>3. n * (k * NumTiles) <= k * h /\ k * h < n * (k * NumTiles) + n
    BY <2>1, <2>2
  <2> QED
    BY <1>5, <2>2, <2>3, QuotientIs
<1>7. p[2] \in WholeScreenLines(h, i)
  <2>1. /\ (i * h) \div NumVerticalTiles(h) = i * NumTiles
        /\ ((i + 1) * h) \div NumVerticalTiles(h) = (i + 1) * NumTiles
    BY <1>3, <1>6
  <2>2. NumTiles * i <= p[2] /\ p[2] < NumTiles * i + NumTiles
    BY <1>1, <1>2, Quotients
  <2>3. /\ NumTiles * i = i * NumTiles /\ NumTiles * (i + 1) = (i + 1) * NumTiles
        /\ NumTiles * (i + 1) = NumTiles * i + NumTiles /\ NumTiles * i \in Int
    BY <1>1, <1>3, Products
  <2> HIDE DEF i
  <2>4. p[2] \in (i * NumTiles)..((i + 1) * NumTiles - 1)
    BY <1>1, <1>2, <1>3, <2>2, <2>3
  <2> QED
    BY <2>1, <2>4 DEF WholeScreenLines
<1>8. j \in ChangedColumns(d, s[1], p[2])
  BY <1>2 DEF ChangedColumns
<1>9. WholeScreenTiles(d, s[1], h)[i] = UNION {ChangedColumns(d, s[1], y) : y \in WholeScreenLines(h, i)}
  BY <1>3 DEF WholeScreenTiles
<1> HIDE DEF i, h
<1> QED
  BY <1>7, <1>8, <1>9 DEF i, h

LEMMA PeriodicScanKeeps ==
    ASSUME TileScanInv, PeriodicScan PROVE TileScanInv'
<1>1. PICK line \in 0..(NumTiles - 1) :
         LET tiles == PeriodicTiles(diff, size[1], size[2], line)
         IN /\ scanned' = {p \in diff : p[2] % NumTiles = line}
            /\ pushed' = Report(tiles, TileCounts(tiles))
  BY DEF PeriodicScan
<1> DEFINE tiles == PeriodicTiles(diff, size[1], size[2], line)
<1>2. /\ size \in Sizes /\ diff \subseteq Pixels(size) /\ size' = size /\ diff' = diff
      /\ scan' = "periodic"
      /\ scanned' = {p \in diff : p[2] % NumTiles = line}
      /\ pushed' = [t \in TileRectangles(tiles, TileCounts(tiles)) |->
                       PixelRectangle(t, size[1], size[2])]
  BY <1>1 DEF PeriodicScan, TileScanInv, TileScanTypeOK, Report
<1>3. size[1] \in Nat \ {0} /\ size[2] \in Nat \ {0}
  BY <1>2, ScreenSize
<1>4. /\ Found(NumVerticalTiles(size[2]) - 1, tiles, TileCounts(tiles))
      /\ size[1] < NumTiles =>
            \A i \in 0..(NumVerticalTiles(size[2]) - 1) : tiles[i] \subseteq {NumTiles - 1}
  BY <1>3, PeriodicFinds
<1>5. TileScanTypeOK'
  BY <1>2 DEF TileScanTypeOK
<1>6. ASSUME NEW p \in scanned', size[1] % NumTiles = 0
      PROVE  \E k \in DOMAIN pushed' : Inside(pushed'[k], p)
  <2>1. p \in diff /\ p \in Pixels(size) /\ p[2] % NumTiles = line
    BY <1>2
  <2>2. \A j \in Columns : p[1] \in ColumnPixels(size[1], j) => j \in tiles[p[2] \div NumTiles]
    BY <1>2, <2>1, PeriodicMarks
  <2> HIDE DEF tiles
  <2>3. PICK t \in TileRectangles(tiles, TileCounts(tiles)) :
           Inside(PixelRectangle(t, size[1], size[2]), p)
    BY <1>2, <1>4, <1>6, <2>1, <2>2, ReportCovers
  <2> QED
    BY <1>2, <2>3
<1>7. ChangesAreSentWhenAligned'
  BY <1>2, <1>6 DEF ChangesAreSentWhenAligned, ChangesAreSent
<1> HIDE DEF tiles
<1>8. RectanglesAreApart'
  BY <1>2, <1>4, ReportIsApart
<1> QED
  BY <1>5, <1>7, <1>8 DEF TileScanInv

LEMMA FullScreenScanKeeps ==
    ASSUME TileScanInv, FullScreenScan PROVE TileScanInv'
<1> DEFINE tiles == WholeScreenTiles(diff, size[1], size[2])
           counts == WholeScreenCounts(diff, size[1], size[2])
<1>1. /\ size \in Sizes /\ diff \subseteq Pixels(size) /\ size' = size /\ diff' = diff
      /\ scan' = "full screen" /\ scanned' = diff
      /\ pushed' = [t \in TileRectangles(tiles, counts) |-> PixelRectangle(t, size[1], size[2])]
  BY DEF FullScreenScan, TileScanInv, TileScanTypeOK, Report
<1>2. size[1] \in Nat \ {0} /\ size[2] \in Nat \ {0}
  BY <1>1, ScreenSize
<1>3. /\ Found(NumVerticalTiles(size[2]) - 1, tiles, counts)
      /\ size[1] < NumTiles =>
            \A i \in 0..(NumVerticalTiles(size[2]) - 1) : tiles[i] \subseteq {NumTiles - 1}
  BY <1>2, WholeScreenFinds
<1>4. TileScanTypeOK'
  BY <1>1 DEF TileScanTypeOK
<1>5. ASSUME NEW p \in scanned', size[1] % NumTiles = 0, size[2] % NumTiles = 0
      PROVE  \E k \in DOMAIN pushed' : Inside(pushed'[k], p)
  <2>1. p \in diff /\ p \in Pixels(size)
    BY <1>1
  <2>2. \A j \in Columns : p[1] \in ColumnPixels(size[1], j) => j \in tiles[p[2] \div NumTiles]
    BY <1>1, <1>5, <2>1, WholeScreenMarks
  <2> HIDE DEF tiles, counts
  <2>3. PICK t \in TileRectangles(tiles, counts) : Inside(PixelRectangle(t, size[1], size[2]), p)
    BY <1>1, <1>3, <1>5, <2>1, <2>2, ReportCovers
  <2> QED
    BY <1>1, <2>3
<1>6. ChangesAreSentWhenAligned'
  BY <1>1, <1>5 DEF ChangesAreSentWhenAligned, ChangesAreSent
<1> HIDE DEF tiles, counts
<1>7. RectanglesAreApart'
  BY <1>1, <1>3, ReportIsApart
<1> QED
  BY <1>4, <1>6, <1>7 DEF TileScanInv

LEMMA TileScanKept == TileScanSpec => []TileScanInv
<1>1. TileScanInit => TileScanInv
  <2> SUFFICES ASSUME TileScanInit PROVE TileScanInv
    OBVIOUS
  <2>1. TileScanTypeOK
    BY DEF TileScanInit, TileScanTypeOK
  <2>2. ChangesAreSentWhenAligned
    BY DEF TileScanInit, ChangesAreSentWhenAligned, ChangesAreSent
  <2>3. DOMAIN pushed = {}
    <3>1. pushed = <<>>
      BY DEF TileScanInit
    <3>2. DOMAIN <<>> = {}
      OBVIOUS
    <3> QED
      BY <3>1, <3>2
  <2>4. RectanglesAreApart
    BY <2>3 DEF RectanglesAreApart
  <2> QED
    BY <2>1, <2>2, <2>4 DEF TileScanInv
<1>2. TileScanInv /\ [TileScanNext]_tileScanVars => TileScanInv'
  <2> SUFFICES ASSUME TileScanInv, [TileScanNext]_tileScanVars PROVE TileScanInv'
    OBVIOUS
  <2>1. CASE UNCHANGED tileScanVars
    <3>1. UNCHANGED <<size, diff, scanned, scan, pushed>>
      BY <2>1 DEF tileScanVars
    <3>2. TileScanTypeOK'
      BY <3>1 DEF TileScanInv, TileScanTypeOK
    <3>3. ChangesAreSentWhenAligned'
      BY <3>1 DEF TileScanInv, ChangesAreSentWhenAligned, ChangesAreSent
    <3>4. RectanglesAreApart'
      BY <3>1 DEF TileScanInv, RectanglesAreApart
    <3> QED
      BY <3>2, <3>3, <3>4 DEF TileScanInv
  <2> QED
    BY <2>1, PeriodicScanKeeps, FullScreenScanKeeps DEF TileScanNext
<1> QED
  BY <1>1, <1>2, PTL DEF TileScanSpec

\* What a scan compares differs and is on the screen, whatever the size and the tiles.
THEOREM TileScanTypeCorrect == TileScanSpec => []TileScanTypeOK
<1>1. TileScanInv => TileScanTypeOK
  BY DEF TileScanInv
<1> QED
  BY <1>1, TileScanKept, PTL

\* Where the grids of detection and report agree, every pixel that a scan saw change
\* is in a rectangle it pushes, for any number of tiles, size and change.
THEOREM AlignedChangesSent == TileScanSpec => []ChangesAreSentWhenAligned
<1>1. TileScanInv => ChangesAreSentWhenAligned
  BY DEF TileScanInv
<1> QED
  BY <1>1, TileScanKept, PTL

\* On screens of any size, aligned or not and be they narrower than there are columns
\* of tiles, the rectangles of a scan are on the screen and have no pixel in common.
THEOREM RectanglesApart == TileScanSpec => []RectanglesAreApart
<1>1. TileScanInv => RectanglesAreApart
  BY DEF TileScanInv
<1> QED
  BY <1>1, TileScanKept, PTL
=============================================================================
