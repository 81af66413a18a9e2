--------------------------- MODULE DrawHandshake ---------------------------
(***************************************************************************)
(* Who may touch display->primary, display->fullscreen and the client's    *)
(* primary surface, and how the threads get out of each other's way.       *)
(*                                                                         *)
(*   scanner thread     scans and copies under session->lock               *)
(*   X event thread     on a resize: session_recreate_primary under the    *)
(*                      lock, once no draw command is in progress          *)
(*   main thread        session_end, spice_end, session_destroy            *)
(*   Spice worker       takes draw commands (session_pop_draw only tries   *)
(*                      the lock), serves requests to destroy or create    *)
(*                      the primary surface; its callers wait for it       *)
(*                                                                         *)
(* Images and surfaces are known by the size they were made for.  What the *)
(* pixels are, and which reports are queued, is in ScanPipeline.           *)
(***************************************************************************)
EXTENDS Integers, Sequences

CONSTANTS
    Sizes,          \* the sizes the screen can have
    None,           \* no image, no surface, no request
    MaxReports,     \* bound: how many reports the scanner pops
    MaxResizes,     \* bound: how often the screen changes size
    MaxFailures     \* bound: how often display_create_screen_images fails

ASSUME HandshakeAssumption ==
    /\ None \notin Sizes
    /\ None \notin {"scanner", "event", "main", "destroy", "create"}
    /\ MaxReports \in Nat /\ MaxResizes \in Nat /\ MaxFailures \in Nat

VARIABLES
    lock,               \* who holds session->lock
    running,            \* session->running
    draw_queue,         \* how many drawables are queued
    draw_command_in_progress,
    screen_size,        \* the size the X screen has
    xevents,            \* ConfigureNotify events on the wire
    connected,          \* the X connection can be read
    display_size,       \* display->width, height
    spice_size,         \* spice->width, height
    images,             \* size of display->primary, fullscreen and scanline
    surface,            \* size of the primary surface at the Spice server
    request,            \* what the worker is asked to do: its caller waits
    wakeup,             \* spice_qxl_wakeup was called
    scanner, event, main, worker,   \* where each thread is
    resizes, reports, failures,
    crashed             \* the process is gone: a missing image was used

dataVars   == <<display_size, spice_size, images>>
xVars      == <<screen_size, xevents, resizes>>
queueVars  == <<draw_queue, draw_command_in_progress>>
scanVars   == <<scanner, reports>>
workerVars == <<surface, request, wakeup, worker>>
vars == <<lock, running, connected, dataVars, xVars, queueVars, workerVars, scanVars,
          event, main, failures, crashed>>

-----------------------------------------------------------------------------
Init ==
    /\ screen_size \in Sizes /\ display_size = screen_size
    /\ spice_size = screen_size /\ images = screen_size /\ surface = screen_size
    /\ lock = None /\ running = TRUE /\ connected = TRUE
    /\ draw_queue = 0 /\ draw_command_in_progress = FALSE
    /\ xevents = <<>> /\ resizes = 0 /\ reports = 0 /\ failures = 0 /\ crashed = FALSE
    /\ request = None /\ wakeup = FALSE
    /\ scanner = "top" /\ event = "wait" /\ main = "gui" /\ worker = "poll"

\* g_mutex_lock and g_mutex_unlock of session->lock
Lock(thread)   == lock = None /\ lock' = thread
Unlock(thread) == lock = thread /\ lock' = None

\* The X screen changes size.
XResizes ==
    /\ resizes < MaxResizes /\ resizes' = resizes + 1
    /\ \E size \in Sizes \ {screen_size} :
          /\ screen_size' = size
          /\ xevents' = Append(xevents, size)
    /\ UNCHANGED <<lock, running, connected, dataVars, queueVars, workerVars,
                   scanVars, event, main, failures, crashed>>

-----------------------------------------------------------------------------
(* The scanner thread *)

\* while (session_alive) in scanner_run
ScannerTop ==
    /\ scanner = "top"
    /\ scanner' = IF running THEN "pop" ELSE "exited"
    /\ UNCHANGED <<lock, running, connected, dataVars, xVars, queueVars, workerVars,
                   reports, event, main, failures, crashed>>

\* A time-out or a full screen request: scan.  A report: read the area, and
\* unless that fails, copy it.  An EXIT_SCAN_REPORT, pushed by scanner_destroy: exit.
ScannerPop ==
    /\ scanner = "pop"
    /\ \/ scanner' = "lock_scan" /\ UNCHANGED reports
       \/ /\ reports < MaxReports /\ reports' = reports + 1
          /\ scanner' \in {"lock_copy", "top"}
       \/ main = "join_scanner" /\ scanner' = "exited" /\ UNCHANGED reports
    /\ UNCHANGED <<lock, running, connected, dataVars, xVars, queueVars, workerVars,
                   event, main, failures, crashed>>

\* scanner_periodic, scan_full_screen and handle_scan_report take the lock.
ScannerLocks ==
    /\ Lock("scanner")
    /\ \/ scanner = "lock_scan" /\ scanner' = "scan"
       \/ scanner = "lock_copy" /\ scanner' = "copy"
    /\ UNCHANGED <<running, connected, dataVars, xVars, queueVars, workerVars,
                   reports, event, main, failures, crashed>>

\* They use display->fullscreen (and ->scanline), which had better be there, and unlock.
ScannerUsesImages ==
    /\ scanner \in {"scan", "copy"}
    /\ crashed' = (images = None)
    /\ Unlock("scanner")
    /\ scanner' = IF scanner = "scan" THEN "top" ELSE "push"
    /\ UNCHANGED <<running, connected, dataVars, xVars, queueVars, workerVars,
                   reports, event, main, failures>>

\* g_async_queue_push of the drawable (or there is none: no memory) ...
ScannerPushesDraw ==
    /\ scanner = "push"
    /\ \/ draw_queue' = draw_queue + 1 /\ scanner' = "wake"
       \/ draw_queue' = draw_queue /\ scanner' = "top"
    /\ UNCHANGED <<lock, running, connected, dataVars, xVars,
                   draw_command_in_progress, workerVars, reports, event, main, failures, crashed>>

\* ... and spice_qxl_wakeup
ScannerWakesWorker ==
    /\ scanner = "wake" /\ scanner' = "top"
    /\ wakeup' = TRUE
    /\ UNCHANGED <<lock, running, connected, dataVars, xVars, queueVars, surface,
                   request, worker, reports, event, main, failures, crashed>>

-----------------------------------------------------------------------------
(* The X event thread *)

\* handle_xevents looks at session_alive after each event.
NextEvent == event' = IF running THEN "wait" ELSE "exited"

\* handle_configure_notify; session_handle_resize only acts on a new size.
HandleConfigureNotify ==
    /\ event = "wait" /\ xevents # <<>>
    /\ xevents' = Tail(xevents)
    /\ display_size' = Head(xevents)
    /\ IF display_size' = spice_size THEN NextEvent ELSE event' = "flush"
    /\ UNCHANGED <<lock, running, connected, spice_size, images, screen_size, resizes,
                   queueVars, workerVars, scanVars, main, failures, crashed>>

\* Any other event: damage, or a new cursor, which wakes the worker too.
HandleOtherEvent ==
    /\ event = "wait" /\ connected
    /\ NextEvent
    /\ wakeup' \in {wakeup, TRUE}
    /\ UNCHANGED <<lock, running, connected, dataVars, xVars, queueVars, surface,
                   request, worker, scanVars, main, failures, crashed>>

\* xcb_wait_for_event finds the connection shut down.
EventThreadEnds ==
    /\ event = "wait" /\ ~connected
    /\ event' = "exited"
    /\ UNCHANGED <<lock, running, connected, dataVars, xVars, queueVars, workerVars,
                   scanVars, main, failures, crashed>>

\* flush_and_lock, first half: g_mutex_lock
FlushLocks ==
    /\ \/ event = "flush" /\ Lock("event") /\ event' = "check" /\ UNCHANGED main
       \/ main = "flush" /\ Lock("main") /\ main' = "check" /\ UNCHANGED event
    /\ UNCHANGED <<running, connected, dataVars, xVars, queueVars, workerVars,
                   scanVars, failures, crashed>>

\* second half: unlock and try again while a draw command is in progress
FlushRetries ==
    /\ draw_command_in_progress
    /\ \/ event = "check" /\ Unlock("event") /\ event' = "flush" /\ UNCHANGED main
       \/ main = "check" /\ Unlock("main") /\ main' = "flush" /\ UNCHANGED event
    /\ UNCHANGED <<running, connected, dataVars, xVars, queueVars, workerVars,
                   scanVars, failures, crashed>>

\* What follows makes up session_recreate_primary, all of it under the lock.
DestroyPrimary ==
    /\ event = "check" /\ ~draw_command_in_progress
    /\ event' = "destroy_primary" /\ request' = "destroy"
    /\ UNCHANGED <<lock, running, connected, dataVars, xVars, queueVars, surface,
                   wakeup, worker, scanVars, main, failures, crashed>>

\* display_destroy_screen_images
DestroyScreenImages ==
    /\ event = "destroy_primary" /\ request = None
    /\ event' = "create_images" /\ images' = None
    /\ UNCHANGED <<lock, running, connected, display_size, spice_size, xVars,
                   queueVars, workerVars, scanVars, main, failures, crashed>>

\* spice->width and height keep the old size
CreatePrimaryForgetsSize ==
    /\ event = "create_images"
    /\ images' = display_size /\ UNCHANGED spice_size
    /\ event' = "create_primary" /\ request' = "create"
    /\ UNCHANGED <<lock, running, connected, display_size, xVars, queueVars,
                   surface, wakeup, worker, scanVars, main, failures, crashed>>

\* display_create_screen_images and spice_create_primary
CreatePrimary ==
    /\ event = "create_images"
    /\ images' = display_size /\ spice_size' = display_size
    /\ event' = "create_primary" /\ request' = "create"
    /\ UNCHANGED <<lock, running, connected, display_size, xVars, queueVars,
                   surface, wakeup, worker, scanVars, main, failures, crashed>>

\* No shared memory: the error is returned, and session_handle_resize ignores it.
CreateImagesFails ==
    /\ event = "create_images"
    /\ failures < MaxFailures /\ failures' = failures + 1
    /\ Unlock("event") /\ NextEvent
    /\ UNCHANGED <<running, connected, dataVars, xVars, queueVars, workerVars,
                   scanVars, main, crashed>>

PrimaryCreated ==
    /\ event = "create_primary" /\ request = None
    /\ Unlock("event") /\ NextEvent
    /\ UNCHANGED <<running, connected, dataVars, xVars, queueVars, workerVars,
                   scanVars, main, failures, crashed>>

-----------------------------------------------------------------------------
(* The main thread, once gtk_main returns *)

\* session_end: running goes first ...
SessionEnd ==
    /\ main = "gui" /\ main' = "stop_events"
    /\ running' = FALSE
    /\ UNCHANGED <<lock, connected, dataVars, xVars, queueVars, workerVars,
                   scanVars, event, failures, crashed>>

\* ... then display_stop_event_thread: shutdown() and pthread_join ...
StopEventThread ==
    /\ \/ /\ main = "stop_events" /\ connected' = FALSE
          /\ main' = "join_events"
       \/ /\ main = "join_events" /\ event = "exited" /\ UNCHANGED connected
          /\ main' = "join_scanner"
    /\ UNCHANGED <<lock, running, dataVars, xVars, queueVars, workerVars,
                   scanVars, event, failures, crashed>>

\* The images go before the scanner has stopped.
DestroyImagesFirst ==
    /\ main = "join_scanner"
    /\ images' = None
    /\ main' = IF scanner = "exited" THEN "spice_end" ELSE main
    /\ UNCHANGED <<lock, running, connected, display_size, spice_size, xVars,
                   queueVars, workerVars, scanVars, event, failures, crashed>>

\* ... scanner_destroy pushes EXIT_SCAN_REPORT and joins; then the images go.
JoinScanner ==
    /\ main = "join_scanner" /\ scanner = "exited"
    /\ main' = "spice_end"
    /\ images' = None
    /\ UNCHANGED <<lock, running, connected, display_size, spice_size, xVars,
                   queueVars, workerVars, scanVars, event, failures, crashed>>

\* spice_end: destroy the primary surface, and the server with its worker.
SpiceEnd ==
    /\ \/ /\ main = "spice_end" /\ request' = "destroy" /\ UNCHANGED worker
          /\ main' = "stop_server"
       \/ /\ main = "stop_server" /\ request = None /\ worker' = "stopped"
          /\ main' = "flush" /\ UNCHANGED request
    /\ UNCHANGED <<lock, running, connected, dataVars, xVars, queueVars, surface,
                   wakeup, scanVars, event, failures, crashed>>

\* session_destroy: the queues are freed under the lock.
SessionDestroy ==
    /\ main = "check" /\ ~draw_command_in_progress
    /\ Unlock("main")
    /\ draw_queue' = 0
    /\ main' = "done"
    /\ UNCHANGED <<running, connected, dataVars, xVars, draw_command_in_progress,
                   workerVars, scanVars, event, failures, crashed>>

-----------------------------------------------------------------------------
(* The Spice worker *)

\* Three ways to get session_pop_draw wrong: wait for the lock; do without it;
\* leave draw_command_in_progress alone when the session is over.
PopDrawBlocking(got) ==
    \/ ~running /\ ~got /\ draw_command_in_progress' = FALSE /\ UNCHANGED draw_queue
    \/ /\ running /\ lock = None
       /\ got = (draw_queue > 0) /\ draw_command_in_progress' = got
       /\ draw_queue' = IF got THEN draw_queue - 1 ELSE draw_queue

PopDrawUnlocked(got) ==
    \/ ~running /\ ~got /\ draw_command_in_progress' = FALSE /\ UNCHANGED draw_queue
    \/ /\ running
       /\ got = (draw_queue > 0) /\ draw_command_in_progress' = got
       /\ draw_queue' = IF got THEN draw_queue - 1 ELSE draw_queue

PopDrawStaysInProgress(got) ==
    \/ (~running \/ lock # None) /\ ~got /\ UNCHANGED queueVars
    \/ /\ running /\ lock = None
       /\ got = (draw_queue > 0) /\ draw_command_in_progress' = got
       /\ draw_queue' = IF got THEN draw_queue - 1 ELSE draw_queue

\* session_pop_draw.  When the lock is taken it comes back with nothing, and
\* draw_command_in_progress keeps whatever it was.
PopDraw(got) ==
    \/ ~running /\ ~got /\ draw_command_in_progress' = FALSE /\ UNCHANGED draw_queue
    \/ running /\ lock # None /\ ~got /\ UNCHANGED queueVars
    \/ /\ running /\ lock = None
       /\ got = (draw_queue > 0) /\ draw_command_in_progress' = got
       /\ draw_queue' = IF got THEN draw_queue - 1 ELSE draw_queue

\* get_command gives the worker a drawable to render ...
GetCommand ==
    /\ worker = "poll"
    /\ PopDraw(TRUE)
    /\ worker' = "render"
    /\ UNCHANGED <<lock, running, connected, dataVars, xVars, surface, request, wakeup,
                   scanVars, event, main, failures, crashed>>

\* ... or nothing: then the worker asks req_cmd_notification whether to sleep.
GetNoCommand ==
    /\ worker = "poll"
    /\ PopDraw(FALSE)
    /\ worker' = "ask"
    /\ UNCHANGED <<lock, running, connected, dataVars, xVars, surface, request, wakeup,
                   scanVars, event, main, failures, crashed>>

Render ==
    /\ worker = "render" /\ worker' = "poll"
    /\ UNCHANGED <<lock, running, connected, dataVars, xVars, queueVars, surface, request,
                   wakeup, scanVars, event, main, failures, crashed>>

\* req_cmd_notification: session_draw_waiting; 0 when a drawable is known to wait.
ReqCmdNotification ==
    /\ worker = "ask"
    /\ draw_command_in_progress' = (running /\ draw_command_in_progress)
    /\ worker' = IF running /\ lock = None /\ draw_queue > 0 THEN "poll" ELSE "asleep"
    /\ UNCHANGED <<lock, running, connected, dataVars, xVars, draw_queue, surface, request,
                   wakeup, scanVars, event, main, failures, crashed>>

\* A worker that was told to sleep looks for commands when spice_qxl_wakeup was called ...
WorkerWakes ==
    /\ worker = "asleep" /\ wakeup
    /\ worker' = "poll" /\ wakeup' = FALSE
    /\ UNCHANGED <<lock, running, connected, dataVars, xVars, queueVars, surface, request,
                   scanVars, event, main, failures, crashed>>

\* ... and may at any other time, but nothing in the program makes it.
WorkerLooksUnasked ==
    /\ worker = "asleep" /\ ~wakeup
    /\ worker' = "poll"
    /\ UNCHANGED <<lock, running, connected, dataVars, xVars, queueVars, surface, request,
                   wakeup, scanVars, event, main, failures, crashed>>

\* Requests are served between commands.  The server takes the commands there
\* are before it destroys the surface, so it calls get_command while
\* session_recreate_primary holds the lock.
WorkerDestroysPrimary ==
    /\ worker \in {"poll", "ask", "asleep"} /\ request = "destroy"
    /\ \/ PopDraw(TRUE) /\ worker' = "render" /\ UNCHANGED <<surface, request>>
       \/ PopDraw(FALSE) /\ surface' = None /\ request' = None /\ worker' = "poll"
    /\ UNCHANGED <<lock, running, connected, dataVars, xVars, wakeup,
                   scanVars, event, main, failures, crashed>>

WorkerCreatesPrimary ==
    /\ worker \in {"poll", "ask", "asleep"} /\ request = "create"
    /\ surface' = spice_size /\ request' = None /\ worker' = "poll"
    /\ UNCHANGED <<lock, running, connected, dataVars, xVars, queueVars, wakeup,
                   scanVars, event, main, failures, crashed>>

-----------------------------------------------------------------------------
ScannerThread ==
    /\ ~crashed
    /\ \/ ScannerTop \/ ScannerPop \/ ScannerLocks \/ ScannerUsesImages
       \/ ScannerPushesDraw \/ ScannerWakesWorker

\* What the event and main threads share, flush_and_lock, is in Flush.
Flush == ~crashed /\ (FlushLocks \/ FlushRetries)

EventThread ==
    /\ ~crashed
    /\ \/ HandleConfigureNotify \/ EventThreadEnds
       \/ DestroyPrimary \/ DestroyScreenImages \/ CreatePrimary \/ CreateImagesFails
       \/ PrimaryCreated

MainThread ==
    ~crashed /\ (StopEventThread \/ JoinScanner \/ SpiceEnd \/ SessionDestroy)

Worker ==
    /\ ~crashed
    /\ \/ GetCommand \/ GetNoCommand \/ Render \/ ReqCmdNotification \/ WorkerWakes
       \/ WorkerDestroysPrimary \/ WorkerCreatesPrimary

Next ==
    \/ ScannerThread \/ Flush \/ EventThread \/ MainThread \/ Worker
    \/ ~crashed /\ (XResizes \/ HandleOtherEvent \/ SessionEnd \/ WorkerLooksUnasked)

Spec == Init /\ [][Next]_vars

\* A worker that looks for commands only tries the lock, at times of its own: if the lock
\* is free again and again, some of its tries find it free, as long as it does not sleep.
PollsFindLockFree ==
    []<>(lock = None) =>
        \/ []<><<lock = None /\ (GetCommand \/ GetNoCommand)>>_vars
        \/ <>[](worker \in {"asleep", "stopped"} \/ crashed)

\* Every thread runs, and the worker serves its requests between commands, asleep or not,
\* but it is not assumed to look for commands once it sleeps, unless it is woken.  A thread
\* that waits for the lock gets it if it is free again and again (the scanner sleeps
\* without it), and flush_and_lock, which looks again and again, looks at a moment without
\* a draw command in progress if there are such moments.
FairSpec ==
    /\ Spec
    /\ WF_vars(ScannerThread) /\ WF_vars(EventThread) /\ WF_vars(MainThread)
    /\ WF_vars(Worker) /\ WF_vars(Flush)
    /\ SF_vars(~crashed /\ (WorkerDestroysPrimary \/ WorkerCreatesPrimary))
    /\ SF_vars(~crashed /\ ScannerLocks)
    /\ SF_vars(~crashed /\ ~draw_command_in_progress /\ FlushLocks)
    /\ PollsFindLockFree

-----------------------------------------------------------------------------
(* Properties *)

\* The state's shape, and the holder of session->lock: it is the thread that is
\* between flush_and_lock or g_mutex_lock and the unlock, on every path.
TypeOK ==
    /\ lock \in {None, "scanner", "event", "main"}
    /\ lock = "scanner" <=> scanner \in {"scan", "copy"}
    /\ lock = "event" <=> event \in {"check", "destroy_primary", "create_images", "create_primary"}
    /\ lock = "main" <=> main = "check"
    /\ running \in BOOLEAN /\ connected \in BOOLEAN /\ crashed \in BOOLEAN
    /\ draw_queue \in 0..MaxReports /\ draw_command_in_progress \in BOOLEAN
    /\ screen_size \in Sizes /\ display_size \in Sizes /\ spice_size \in Sizes
    /\ xevents \in Seq(Sizes)
    /\ images \in Sizes \cup {None} /\ surface \in Sizes \cup {None}
    /\ request \in {None, "destroy", "create"} /\ wakeup \in BOOLEAN
    /\ scanner \in {"top", "pop", "lock_scan", "lock_copy", "scan", "copy", "push",
                    "wake", "exited"}
    /\ event \in {"wait", "flush", "check", "destroy_primary", "create_images",
                  "create_primary", "exited"}
    /\ main \in {"gui", "stop_events", "join_events", "join_scanner", "spice_end",
                 "stop_server", "flush", "check", "done"}
    /\ worker \in {"poll", "ask", "render", "asleep", "stopped"}
    /\ resizes \in 0..MaxResizes /\ reports \in 0..MaxReports /\ failures \in 0..MaxFailures

\* The worker draws on a surface that exists, whose memory is display->primary's,
\* as long as the session runs: a resize takes both away under its feet, and gives
\* them back, without ever letting it take a command in between.
DrawsHaveSurface ==
    worker = "render" /\ failures = 0 =>
        /\ surface # None
        /\ running => surface = images

\* The scanner finds display->fullscreen where it left it, though the event
\* thread and session_end free it, unless images could not be made after a resize.
ScansHaveImages == crashed => failures > 0

\* Between two events the event thread leaves display, images, surface and the
\* size told to Spice agreeing, however many resizes are behind each other.
SizesAgree ==
    event = "wait" /\ failures = 0 =>
        /\ spice_size = display_size
        /\ images = display_size /\ surface = display_size

\* session_pop_draw and session_draw_waiting both found the lock taken: the worker was told
\* to sleep with draw_command_in_progress still set from the command before, and
\* flush_and_lock waits for the flag.  Nobody calls spice_qxl_wakeup.
WakeUpLost ==
    /\ worker = "asleep" /\ ~wakeup
    /\ draw_command_in_progress /\ event \in {"flush", "check"}

\* A resized screen becomes a resized surface: no resize is lost among others, and the
\* waits for the lock, for a draw command in progress and for the worker end.  The one
\* thing that stops a resize for good is a wake-up that was lost, with no later drawable
\* to make up for it.  (session_handle_resize, flush_and_lock)
ResizesArrive ==
    \/ <>[](surface = screen_size \/ ~running \/ failures > 0)
    \/ <>[]WakeUpLost

\* Once the session ends main() returns: the joins, the last request to the
\* worker and the wait for a draw command that was in progress all end, unless the event
\* thread that is to be joined is in a resize whose wake-up was lost.
\* (session_end, spice_end, session_destroy)
ShutdownCompletes ==
    \/ <>[](main \in {"gui", "done"} \/ crashed)
    \/ <>[]WakeUpLost

\* What test_resize (tests/tests.c) expects: a screen whose mode was changed is what
\* the client gets to see.
ResizedScreenIsShown ==
    <>[](surface = screen_size \/ ~running \/ failures > 0)
=============================================================================
