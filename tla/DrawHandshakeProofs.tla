------------------------ MODULE DrawHandshakeProofs ------------------------
(***************************************************************************)
(* Proofs about DrawHandshake: any number of sizes, resizes, reports and   *)
(* failures, and a worker that looks again by itself or does not.          *)
(***************************************************************************)
EXTENDS DrawHandshake, TLAPS

\* A popped report becomes at most one drawable.
ReportsCounted ==
    draw_queue + (IF scanner \in {"lock_copy", "copy", "push"} THEN 1 ELSE 0) <= reports

\* session_end goes step by step; who has been joined is gone.
ShutdownInOrder ==
    /\ running <=> main = "gui"
    /\ main \in {"join_scanner", "spice_end", "stop_server", "flush", "check", "done"}
          => event = "exited"
    /\ main \in {"spice_end", "stop_server", "flush", "check", "done"}
          => scanner = "exited"

\* A request has a caller that waits, and while the event thread replaces the
\* primary surface the worker is not rendering: draw_command_in_progress was seen
\* FALSE under the lock, and only a worker that gets the lock can set it again.
WorkerStandsBack ==
    /\ request = "create" => event = "create_primary"
    /\ request = "destroy" => event = "destroy_primary" \/ main = "stop_server"
    /\ worker = "render" => draw_command_in_progress
    /\ event \in {"destroy_primary", "create_images", "create_primary"}
          => worker # "render"

\* Which sizes agree at each point of a resize, as long as no images are missing.
SizesFollow ==
    failures = 0 =>
        /\ ~crashed
        /\ event = "wait" => spice_size = display_size
        /\ event \in {"wait", "flush", "check"} =>
              images = spice_size /\ surface = spice_size
        /\ event = "exited" /\ main \in {"gui", "stop_events", "join_events", "join_scanner"} =>
              images = spice_size /\ surface = spice_size
        /\ event = "destroy_primary" => images = spice_size
        /\ event = "create_primary" =>
              /\ spice_size = display_size /\ images = spice_size
              /\ request = None => surface = spice_size
        /\ worker = "render" => surface # None /\ (running => surface = images)

HandshakeInv ==
    TypeOK /\ ReportsCounted /\ ShutdownInOrder /\ WorkerStandsBack /\ SizesFollow

LEMMA InitHandshakeInv == Init => HandshakeInv
<1> SUFFICES ASSUME Init PROVE HandshakeInv
  OBVIOUS
<1>1. TypeOK
  <2>1. /\ lock = None /\ None \notin {"scanner", "event", "main"}
        /\ scanner = "top" /\ event = "wait" /\ main = "gui" /\ worker = "poll"
    BY HandshakeAssumption DEF Init
  <2>2. /\ running \in BOOLEAN /\ connected \in BOOLEAN /\ crashed \in BOOLEAN
        /\ draw_command_in_progress \in BOOLEAN /\ wakeup \in BOOLEAN
    BY DEF Init
  <2>3. /\ draw_queue \in 0..MaxReports /\ reports \in 0..MaxReports
        /\ resizes \in 0..MaxResizes /\ failures \in 0..MaxFailures
    BY HandshakeAssumption DEF Init
  <2>4. /\ screen_size \in Sizes /\ display_size \in Sizes /\ spice_size \in Sizes
        /\ xevents \in Seq(Sizes) /\ images \in Sizes /\ surface \in Sizes
        /\ request = None
    BY DEF Init
  <2> QED
    BY <2>1, <2>2, <2>3, <2>4 DEF TypeOK
<1>2. ReportsCounted
  BY DEF Init, ReportsCounted
<1>3. ShutdownInOrder
  BY DEF Init, ShutdownInOrder
<1>4. WorkerStandsBack
  BY HandshakeAssumption DEF Init, WorkerStandsBack
<1>5. SizesFollow
  BY DEF Init, SizesFollow
<1> QED
  BY <1>1, <1>2, <1>3, <1>4, <1>5 DEF HandshakeInv

\* Types: one case per action.
LEMMA StepTypeOK == TypeOK /\ ReportsCounted /\ [Next]_vars => TypeOK'
<1> SUFFICES ASSUME TypeOK, ReportsCounted, [Next]_vars PROVE TypeOK'
  OBVIOUS
<1> USE DEF dataVars, xVars, queueVars, scanVars, workerVars
<1>1. CASE XResizes
  BY <1>1, HandshakeAssumption DEF XResizes, TypeOK, ReportsCounted
<1>2. CASE HandleOtherEvent
  <2>1. wakeup' \in BOOLEAN
    BY <1>2 DEF HandleOtherEvent, NextEvent, TypeOK
  <2> QED
    BY <1>2, <2>1, HandshakeAssumption DEF HandleOtherEvent, NextEvent, TypeOK, ReportsCounted
<1>3. CASE SessionEnd
  <2>1. running' \in BOOLEAN
    BY <1>3 DEF SessionEnd, TypeOK
  <2> QED
    BY <1>3, <2>1, HandshakeAssumption DEF SessionEnd, TypeOK, ReportsCounted
<1>4. CASE ScannerTop
  BY <1>4, HandshakeAssumption DEF ScannerTop, TypeOK, ReportsCounted
<1>5. CASE ScannerPop
  BY <1>5, HandshakeAssumption DEF ScannerPop, TypeOK, ReportsCounted
<1>6. CASE ScannerLocks
  BY <1>6, HandshakeAssumption DEF ScannerLocks, Lock, TypeOK, ReportsCounted
<1>7. CASE ScannerUsesImages
  BY <1>7, HandshakeAssumption DEF ScannerUsesImages, Unlock, TypeOK, ReportsCounted
<1>8. CASE ScannerPushesDraw
  BY <1>8, HandshakeAssumption DEF ScannerPushesDraw, TypeOK, ReportsCounted
<1>9. CASE ScannerWakesWorker
  BY <1>9, HandshakeAssumption DEF ScannerWakesWorker, TypeOK, ReportsCounted
<1>10. CASE FlushLocks
  BY <1>10, HandshakeAssumption DEF FlushLocks, Lock, TypeOK, ReportsCounted
<1>11. CASE FlushRetries
  BY <1>11, HandshakeAssumption DEF FlushRetries, Unlock, TypeOK, ReportsCounted
<1>12. CASE HandleConfigureNotify
  BY <1>12, HandshakeAssumption DEF HandleConfigureNotify, NextEvent, TypeOK,
     ReportsCounted
<1>13. CASE EventThreadEnds
  BY <1>13, HandshakeAssumption DEF EventThreadEnds, TypeOK, ReportsCounted
<1>14. CASE DestroyPrimary
  BY <1>14, HandshakeAssumption DEF DestroyPrimary, TypeOK, ReportsCounted
<1>15. CASE DestroyScreenImages
  BY <1>15, HandshakeAssumption DEF DestroyScreenImages, TypeOK, ReportsCounted
<1>16. CASE CreatePrimary
  BY <1>16, HandshakeAssumption DEF CreatePrimary, TypeOK, ReportsCounted
<1>17. CASE CreateImagesFails
  BY <1>17, HandshakeAssumption DEF CreateImagesFails, Unlock, NextEvent, TypeOK,
     ReportsCounted
<1>18. CASE PrimaryCreated
  BY <1>18, HandshakeAssumption DEF PrimaryCreated, Unlock, NextEvent, TypeOK,
     ReportsCounted
<1>19. CASE StopEventThread
  <2>1. connected' \in BOOLEAN
    BY <1>19 DEF StopEventThread, TypeOK
  <2> QED
    BY <1>19, <2>1, HandshakeAssumption DEF StopEventThread, TypeOK, ReportsCounted
<1>20. CASE JoinScanner
  BY <1>20, HandshakeAssumption DEF JoinScanner, TypeOK, ReportsCounted
<1>21. CASE SpiceEnd
  BY <1>21, HandshakeAssumption DEF SpiceEnd, TypeOK, ReportsCounted
<1>22. CASE SessionDestroy
  BY <1>22, HandshakeAssumption DEF SessionDestroy, Unlock, TypeOK, ReportsCounted
<1>23. CASE GetCommand
  BY <1>23, HandshakeAssumption DEF GetCommand, PopDraw, TypeOK, ReportsCounted
<1>24. CASE GetNoCommand
  <2>1. draw_command_in_progress' \in BOOLEAN
    BY <1>24 DEF GetNoCommand, PopDraw, TypeOK
  <2> QED
    BY <1>24, <2>1, HandshakeAssumption DEF GetNoCommand, PopDraw, TypeOK, ReportsCounted
<1>25. CASE Render
  BY <1>25, HandshakeAssumption DEF Render, TypeOK, ReportsCounted
<1>26. CASE ReqCmdNotification
  BY <1>26, HandshakeAssumption DEF ReqCmdNotification, TypeOK, ReportsCounted
<1>27. CASE WorkerWakes \/ WorkerLooksUnasked
  <2>1. wakeup' \in BOOLEAN
    BY <1>27 DEF WorkerWakes, WorkerLooksUnasked, TypeOK
  <2> QED
    BY <1>27, <2>1, HandshakeAssumption DEF WorkerWakes, WorkerLooksUnasked, TypeOK, ReportsCounted
<1>28. CASE WorkerDestroysPrimary
  <2>1. draw_command_in_progress' \in BOOLEAN
    BY <1>28 DEF WorkerDestroysPrimary, PopDraw, TypeOK
  <2> QED
    BY <1>28, <2>1, HandshakeAssumption DEF WorkerDestroysPrimary, PopDraw, TypeOK, ReportsCounted
<1>29. CASE WorkerCreatesPrimary
  BY <1>29, HandshakeAssumption DEF WorkerCreatesPrimary, TypeOK, ReportsCounted
<1>30. CASE UNCHANGED vars
  BY <1>30 DEF vars, TypeOK, ReportsCounted
<1> QED
  BY <1>1, <1>2, <1>3, <1>4, <1>5, <1>6, <1>7, <1>8, <1>9, <1>10, <1>11, <1>12,
     <1>13, <1>14, <1>15, <1>16, <1>17, <1>18, <1>19, <1>20, <1>21, <1>22, <1>23,
     <1>24, <1>25, <1>26, <1>27, <1>28, <1>29, <1>30
     DEF Next, ScannerThread, Flush, EventThread, MainThread, Worker

\* The scanner adds a drawable for a report it has counted; the others only take.
LEMMA StepReportsCounted == TypeOK /\ ReportsCounted /\ [Next]_vars => ReportsCounted'
<1> SUFFICES ASSUME TypeOK, ReportsCounted, [Next]_vars PROVE ReportsCounted'
  OBVIOUS
<1> USE DEF dataVars, xVars, queueVars, scanVars, workerVars
<1>1. CASE XResizes \/ HandleOtherEvent \/ SessionEnd
  BY <1>1 DEF XResizes, HandleOtherEvent, NextEvent, SessionEnd, TypeOK,
     ReportsCounted
<1>2. CASE ScannerTop
  BY <1>2 DEF ScannerTop, TypeOK, ReportsCounted
<1>3. CASE ScannerPop
  BY <1>3 DEF ScannerPop, TypeOK, ReportsCounted
<1>4. CASE ScannerLocks
  BY <1>4 DEF ScannerLocks, Lock, TypeOK, ReportsCounted
<1>5. CASE ScannerUsesImages
  BY <1>5 DEF ScannerUsesImages, Unlock, TypeOK, ReportsCounted
<1>6. CASE ScannerPushesDraw
  BY <1>6 DEF ScannerPushesDraw, TypeOK, ReportsCounted
<1>7. CASE ScannerWakesWorker
  BY <1>7 DEF ScannerWakesWorker, TypeOK, ReportsCounted
<1>8. CASE FlushLocks \/ FlushRetries
  BY <1>8 DEF FlushLocks, Lock, FlushRetries, Unlock, TypeOK, ReportsCounted
<1>9. CASE HandleConfigureNotify \/ EventThreadEnds \/ DestroyPrimary 
         \/ DestroyScreenImages \/ CreatePrimary \/ CreateImagesFails \/ PrimaryCreated
  BY <1>9 DEF HandleConfigureNotify, NextEvent, EventThreadEnds, DestroyPrimary,
     DestroyScreenImages, CreatePrimary, CreateImagesFails, Unlock, PrimaryCreated,
     TypeOK, ReportsCounted
<1>10. CASE StopEventThread \/ JoinScanner \/ SpiceEnd
  BY <1>10 DEF StopEventThread, JoinScanner, SpiceEnd, TypeOK, ReportsCounted
<1>11. CASE SessionDestroy
  BY <1>11 DEF SessionDestroy, Unlock, TypeOK, ReportsCounted
<1>12. CASE GetCommand
  BY <1>12 DEF GetCommand, PopDraw, TypeOK, ReportsCounted
<1>13. CASE GetNoCommand
  BY <1>13 DEF GetNoCommand, PopDraw, TypeOK, ReportsCounted
<1>14. CASE Render \/ ReqCmdNotification \/ WorkerWakes \/ WorkerLooksUnasked \/ WorkerCreatesPrimary
  BY <1>14 DEF Render, ReqCmdNotification, WorkerWakes, WorkerLooksUnasked,
     WorkerCreatesPrimary, TypeOK, ReportsCounted
<1>15. CASE WorkerDestroysPrimary
  BY <1>15 DEF WorkerDestroysPrimary, PopDraw, TypeOK, ReportsCounted
<1>16. CASE UNCHANGED vars
  BY <1>16 DEF vars, TypeOK, ReportsCounted
<1> QED
  BY <1>1, <1>2, <1>3, <1>4, <1>5, <1>6, <1>7, <1>8, <1>9, <1>10, <1>11, <1>12,
     <1>13, <1>14, <1>15, <1>16
     DEF Next, ScannerThread, Flush, EventThread, MainThread, Worker

\* Threads that have exited stay so, and the main thread waits for them in turn.
LEMMA StepShutdownInOrder == TypeOK /\ ShutdownInOrder /\ [Next]_vars => ShutdownInOrder'
<1> SUFFICES ASSUME TypeOK, ShutdownInOrder, [Next]_vars PROVE ShutdownInOrder'
  OBVIOUS
<1> USE DEF dataVars, xVars, queueVars, scanVars, workerVars
<1>1. CASE XResizes \/ HandleOtherEvent
  <2>1. UNCHANGED <<running, main, scanner>> /\ event' \in {event, "wait", "exited"}
    BY <1>1 DEF XResizes, HandleOtherEvent, NextEvent
  <2>2. event # "exited" \/ event' = "exited"
    BY <1>1 DEF XResizes, HandleOtherEvent
  <2> QED
    BY <2>1, <2>2 DEF ShutdownInOrder
<1>2. CASE SessionEnd
  BY <1>2 DEF SessionEnd, TypeOK, ShutdownInOrder
<1>3. CASE ScannerTop \/ ScannerPop \/ ScannerLocks \/ ScannerUsesImages 
         \/ ScannerPushesDraw \/ ScannerWakesWorker
  BY <1>3 DEF ScannerTop, ScannerPop, ScannerLocks, Lock, ScannerUsesImages,
     Unlock, ScannerPushesDraw, ScannerWakesWorker, TypeOK, ShutdownInOrder
<1>4. CASE FlushLocks \/ FlushRetries
  BY <1>4 DEF FlushLocks, Lock, FlushRetries, Unlock, TypeOK, ShutdownInOrder
<1>5. CASE HandleConfigureNotify \/ EventThreadEnds \/ DestroyPrimary 
         \/ DestroyScreenImages \/ CreatePrimary \/ CreateImagesFails \/ PrimaryCreated
  BY <1>5 DEF HandleConfigureNotify, NextEvent, EventThreadEnds, DestroyPrimary,
     DestroyScreenImages, CreatePrimary, CreateImagesFails, Unlock, PrimaryCreated,
     TypeOK, ShutdownInOrder
<1>6. CASE StopEventThread
  BY <1>6 DEF StopEventThread, TypeOK, ShutdownInOrder
<1>7. CASE JoinScanner
  BY <1>7 DEF JoinScanner, TypeOK, ShutdownInOrder
<1>8. CASE SpiceEnd
  BY <1>8 DEF SpiceEnd, TypeOK, ShutdownInOrder
<1>9. CASE SessionDestroy
  BY <1>9 DEF SessionDestroy, Unlock, TypeOK, ShutdownInOrder
<1>10. CASE GetCommand \/ GetNoCommand \/ Render \/ ReqCmdNotification 
         \/ WorkerWakes \/ WorkerLooksUnasked \/ WorkerDestroysPrimary
         \/ WorkerCreatesPrimary
  BY <1>10 DEF GetCommand, PopDraw, GetNoCommand, Render, ReqCmdNotification,
     WorkerWakes, WorkerLooksUnasked, WorkerDestroysPrimary, WorkerCreatesPrimary, TypeOK,
     ShutdownInOrder
<1>11. CASE UNCHANGED vars
  BY <1>11 DEF vars, TypeOK, ShutdownInOrder
<1> QED
  BY <1>1, <1>2, <1>3, <1>4, <1>5, <1>6, <1>7, <1>8, <1>9, <1>10, <1>11
     DEF Next, ScannerThread, Flush, EventThread, MainThread, Worker

\* While the event thread holds the lock the worker takes no command.
LEMMA StepWorkerStandsBack == TypeOK /\ ShutdownInOrder /\ WorkerStandsBack /\ [Next]_vars => WorkerStandsBack'
<1> SUFFICES ASSUME TypeOK, ShutdownInOrder, WorkerStandsBack, [Next]_vars PROVE WorkerStandsBack'
  OBVIOUS
<1> USE DEF dataVars, xVars, queueVars, scanVars, workerVars
<1>1. CASE XResizes \/ HandleOtherEvent \/ SessionEnd
  BY <1>1, HandshakeAssumption DEF XResizes, HandleOtherEvent, NextEvent,
     SessionEnd, TypeOK, ShutdownInOrder, WorkerStandsBack
<1>2. CASE ScannerTop \/ ScannerPop \/ ScannerLocks \/ ScannerUsesImages 
         \/ ScannerPushesDraw \/ ScannerWakesWorker
  BY <1>2, HandshakeAssumption DEF ScannerTop, ScannerPop, ScannerLocks, Lock,
     ScannerUsesImages, Unlock, ScannerPushesDraw, ScannerWakesWorker, TypeOK,
     ShutdownInOrder, WorkerStandsBack
<1>3. CASE FlushLocks \/ FlushRetries
  BY <1>3, HandshakeAssumption DEF FlushLocks, Lock, FlushRetries, Unlock, TypeOK,
     ShutdownInOrder, WorkerStandsBack
<1>4. CASE HandleConfigureNotify
  BY <1>4, HandshakeAssumption DEF HandleConfigureNotify, NextEvent, TypeOK,
     ShutdownInOrder, WorkerStandsBack
<1>5. CASE EventThreadEnds
  BY <1>5, HandshakeAssumption DEF EventThreadEnds, TypeOK, ShutdownInOrder,
     WorkerStandsBack
<1>6. CASE DestroyPrimary
  BY <1>6, HandshakeAssumption DEF DestroyPrimary, TypeOK, ShutdownInOrder,
     WorkerStandsBack
<1>7. CASE DestroyScreenImages
  BY <1>7, HandshakeAssumption DEF DestroyScreenImages, TypeOK, ShutdownInOrder,
     WorkerStandsBack
<1>8. CASE CreatePrimary
  BY <1>8, HandshakeAssumption DEF CreatePrimary, TypeOK, ShutdownInOrder,
     WorkerStandsBack
<1>9. CASE CreateImagesFails
  BY <1>9, HandshakeAssumption DEF CreateImagesFails, Unlock, NextEvent, TypeOK,
     ShutdownInOrder, WorkerStandsBack
<1>10. CASE PrimaryCreated
  BY <1>10, HandshakeAssumption DEF PrimaryCreated, Unlock, NextEvent, TypeOK,
     ShutdownInOrder, WorkerStandsBack
<1>11. CASE StopEventThread
  BY <1>11, HandshakeAssumption DEF StopEventThread, TypeOK, ShutdownInOrder,
     WorkerStandsBack
<1>12. CASE JoinScanner
  BY <1>12, HandshakeAssumption DEF JoinScanner, TypeOK, ShutdownInOrder,
     WorkerStandsBack
<1>13. CASE SpiceEnd
  BY <1>13, HandshakeAssumption DEF SpiceEnd, TypeOK, ShutdownInOrder,
     WorkerStandsBack
<1>14. CASE SessionDestroy
  BY <1>14, HandshakeAssumption DEF SessionDestroy, Unlock, TypeOK,
     ShutdownInOrder, WorkerStandsBack
<1>15. CASE GetCommand
  BY <1>15, HandshakeAssumption DEF GetCommand, PopDraw, TypeOK, ShutdownInOrder,
     WorkerStandsBack
<1>16. CASE GetNoCommand
  BY <1>16, HandshakeAssumption DEF GetNoCommand, PopDraw, TypeOK, ShutdownInOrder,
     WorkerStandsBack
<1>17. CASE Render
  BY <1>17, HandshakeAssumption DEF Render, TypeOK, ShutdownInOrder,
     WorkerStandsBack
<1>18. CASE ReqCmdNotification
  BY <1>18, HandshakeAssumption DEF ReqCmdNotification, TypeOK, ShutdownInOrder,
     WorkerStandsBack
<1>19. CASE WorkerWakes \/ WorkerLooksUnasked
  BY <1>19, HandshakeAssumption DEF WorkerWakes, WorkerLooksUnasked, TypeOK, ShutdownInOrder,
     WorkerStandsBack
<1>20. CASE WorkerDestroysPrimary
  BY <1>20, HandshakeAssumption DEF WorkerDestroysPrimary, PopDraw, TypeOK,
     ShutdownInOrder, WorkerStandsBack
<1>21. CASE WorkerCreatesPrimary
  BY <1>21, HandshakeAssumption DEF WorkerCreatesPrimary, TypeOK, ShutdownInOrder,
     WorkerStandsBack
<1>22. CASE UNCHANGED vars
  BY <1>22 DEF vars, TypeOK, ShutdownInOrder, WorkerStandsBack
<1> QED
  BY <1>1, <1>2, <1>3, <1>4, <1>5, <1>6, <1>7, <1>8, <1>9, <1>10, <1>11, <1>12,
     <1>13, <1>14, <1>15, <1>16, <1>17, <1>18, <1>19, <1>20, <1>21, <1>22
     DEF Next, ScannerThread, Flush, EventThread, MainThread, Worker

\* One resize after the other, and the images only go for good at the end.
LEMMA StepSizesFollow == TypeOK /\ ShutdownInOrder /\ WorkerStandsBack /\ SizesFollow /\ [Next]_vars => SizesFollow'
<1> SUFFICES ASSUME TypeOK, ShutdownInOrder, WorkerStandsBack, SizesFollow,
                    [Next]_vars PROVE SizesFollow'
  OBVIOUS
<1> USE DEF dataVars, xVars, queueVars, scanVars, workerVars
<1>1. CASE XResizes \/ HandleOtherEvent
  BY <1>1, HandshakeAssumption DEF XResizes, HandleOtherEvent, NextEvent, TypeOK,
     ShutdownInOrder, WorkerStandsBack, SizesFollow
<1>2. CASE SessionEnd
  BY <1>2, HandshakeAssumption DEF SessionEnd, TypeOK, ShutdownInOrder,
     WorkerStandsBack, SizesFollow
<1>3. CASE ScannerTop
  BY <1>3, HandshakeAssumption DEF ScannerTop, TypeOK, ShutdownInOrder,
     WorkerStandsBack, SizesFollow
<1>4. CASE ScannerPop
  BY <1>4, HandshakeAssumption DEF ScannerPop, TypeOK, ShutdownInOrder,
     WorkerStandsBack, SizesFollow
<1>5. CASE ScannerLocks
  BY <1>5, HandshakeAssumption DEF ScannerLocks, Lock, TypeOK, ShutdownInOrder,
     WorkerStandsBack, SizesFollow
<1>6. CASE ScannerUsesImages
  BY <1>6, HandshakeAssumption DEF ScannerUsesImages, Unlock, TypeOK,
     ShutdownInOrder, WorkerStandsBack, SizesFollow
<1>7. CASE ScannerPushesDraw
  BY <1>7, HandshakeAssumption DEF ScannerPushesDraw, TypeOK, ShutdownInOrder,
     WorkerStandsBack, SizesFollow
<1>8. CASE ScannerWakesWorker
  BY <1>8, HandshakeAssumption DEF ScannerWakesWorker, TypeOK, ShutdownInOrder,
     WorkerStandsBack, SizesFollow
<1>9. CASE FlushLocks \/ FlushRetries
  BY <1>9, HandshakeAssumption DEF FlushLocks, Lock, FlushRetries, Unlock, TypeOK,
     ShutdownInOrder, WorkerStandsBack, SizesFollow
<1>10. CASE HandleConfigureNotify
  BY <1>10, HandshakeAssumption DEF HandleConfigureNotify, NextEvent, TypeOK,
     ShutdownInOrder, WorkerStandsBack, SizesFollow
<1>11. CASE EventThreadEnds
  BY <1>11, HandshakeAssumption DEF EventThreadEnds, TypeOK, ShutdownInOrder,
     WorkerStandsBack, SizesFollow
<1>12. CASE DestroyPrimary
  BY <1>12, HandshakeAssumption DEF DestroyPrimary, TypeOK, ShutdownInOrder,
     WorkerStandsBack, SizesFollow
<1>13. CASE DestroyScreenImages
  BY <1>13, HandshakeAssumption DEF DestroyScreenImages, TypeOK, ShutdownInOrder,
     WorkerStandsBack, SizesFollow
<1>14. CASE CreatePrimary
  BY <1>14, HandshakeAssumption DEF CreatePrimary, TypeOK, ShutdownInOrder,
     WorkerStandsBack, SizesFollow
<1>15. CASE CreateImagesFails
  BY <1>15, HandshakeAssumption DEF CreateImagesFails, Unlock, NextEvent, TypeOK,
     ShutdownInOrder, WorkerStandsBack, SizesFollow
<1>16. CASE PrimaryCreated
  BY <1>16, HandshakeAssumption DEF PrimaryCreated, Unlock, NextEvent, TypeOK,
     ShutdownInOrder, WorkerStandsBack, SizesFollow
<1>17. CASE StopEventThread
  BY <1>17, HandshakeAssumption DEF StopEventThread, TypeOK, ShutdownInOrder,
     WorkerStandsBack, SizesFollow
<1>18. CASE JoinScanner
  BY <1>18, HandshakeAssumption DEF JoinScanner, TypeOK, ShutdownInOrder,
     WorkerStandsBack, SizesFollow
<1>19. CASE SpiceEnd
  BY <1>19, HandshakeAssumption DEF SpiceEnd, TypeOK, ShutdownInOrder,
     WorkerStandsBack, SizesFollow
<1>20. CASE SessionDestroy
  BY <1>20, HandshakeAssumption DEF SessionDestroy, Unlock, TypeOK,
     ShutdownInOrder, WorkerStandsBack, SizesFollow
<1>21. CASE GetCommand
  BY <1>21, HandshakeAssumption DEF GetCommand, PopDraw, TypeOK, ShutdownInOrder,
     WorkerStandsBack, SizesFollow
<1>22. CASE GetNoCommand
  BY <1>22, HandshakeAssumption DEF GetNoCommand, PopDraw, TypeOK, ShutdownInOrder,
     WorkerStandsBack, SizesFollow
<1>23. CASE Render
  BY <1>23, HandshakeAssumption DEF Render, TypeOK, ShutdownInOrder,
     WorkerStandsBack, SizesFollow
<1>24. CASE ReqCmdNotification
  BY <1>24, HandshakeAssumption DEF ReqCmdNotification, TypeOK, ShutdownInOrder,
     WorkerStandsBack, SizesFollow
<1>25. CASE WorkerWakes \/ WorkerLooksUnasked
  BY <1>25, HandshakeAssumption DEF WorkerWakes, WorkerLooksUnasked, TypeOK, ShutdownInOrder,
     WorkerStandsBack, SizesFollow
<1>26. CASE WorkerDestroysPrimary
  BY <1>26, HandshakeAssumption DEF WorkerDestroysPrimary, PopDraw, TypeOK,
     ShutdownInOrder, WorkerStandsBack, SizesFollow
<1>27. CASE WorkerCreatesPrimary
  BY <1>27, HandshakeAssumption DEF WorkerCreatesPrimary, TypeOK, ShutdownInOrder,
     WorkerStandsBack, SizesFollow
<1>28. CASE UNCHANGED vars
  BY <1>28 DEF vars, TypeOK, ShutdownInOrder, WorkerStandsBack, SizesFollow
<1> QED
  BY <1>1, <1>2, <1>3, <1>4, <1>5, <1>6, <1>7, <1>8, <1>9, <1>10, <1>11, <1>12,
     <1>13, <1>14, <1>15, <1>16, <1>17, <1>18, <1>19, <1>20, <1>21, <1>22, <1>23,
     <1>24, <1>25, <1>26, <1>27, <1>28
     DEF Next, ScannerThread, Flush, EventThread, MainThread, Worker

\* The invariant the theorems rest on
LEMMA HandshakeInvariant == Spec => []HandshakeInv
<1>1. HandshakeInv /\ [Next]_vars => HandshakeInv'
  BY StepTypeOK, StepReportsCounted, StepShutdownInOrder, StepWorkerStandsBack,
     StepSizesFollow DEF HandshakeInv
<1> QED
  BY <1>1, InitHandshakeInv, PTL DEF Spec

\* The types hold, and session->lock is held exactly by the thread that is between
\* taking and giving it back: no path of scan.c or session.c forgets it.
THEOREM TypeCorrect == Spec => []TypeOK
<1>1. HandshakeInv => TypeOK
  BY DEF HandshakeInv
<1> QED
  BY <1>1, HandshakeInvariant, PTL

\* The worker never renders without the primary surface: session_recreate_primary
\* and the worker's session_pop_draw exclude each other.
THEOREM DrawsOnSurface == Spec => []DrawsHaveSurface
<1>1. HandshakeInv => DrawsHaveSurface
  BY DEF HandshakeInv, SizesFollow, DrawsHaveSurface
<1> QED
  BY <1>1, HandshakeInvariant, PTL

\* A missing image is only ever used after display_create_screen_images failed.
THEOREM ScansFindImages == Spec => []ScansHaveImages
<1>1. HandshakeInv => ScansHaveImages
  BY DEF HandshakeInv, TypeOK, SizesFollow, ScansHaveImages
<1> QED
  BY <1>1, HandshakeInvariant, PTL

\* Between events the display, its images, Spice and the surface have one size.
THEOREM SizesAgreeBetweenEvents == Spec => []SizesAgree
<1>1. HandshakeInv => SizesAgree
  BY DEF HandshakeInv, SizesFollow, SizesAgree
<1> QED
  BY <1>1, HandshakeInvariant, PTL
=============================================================================
