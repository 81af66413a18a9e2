--------------------------- MODULE ScanPipeline ---------------------------
(***************************************************************************)
(* How a change of the X screen reaches the Spice client.                  *)
(*                                                                         *)
(*   X server --damage events--> X event thread --scanner_push--> queue    *)
(*   queue --pop--> scanner thread --read, copy, draw--> draw_queue        *)
(*   draw_queue --get_command--> Spice worker --> the client's surface     *)
(*                                                                         *)
(* The event thread (display.c) and the scanner thread (scan.c) meet in    *)
(* scanner->queue and scanner->region, under scanner->lock.  Each step     *)
(* below is one critical section or one round trip to the X server.        *)
(*                                                                         *)
(* Screen contents are cells with version numbers.  Two versions of a      *)
(* cell may look alike: Pixel gives the pixels of a version, and only      *)
(* pixels are what the scanner can compare.                                *)
(***************************************************************************)
EXTENDS Integers, Sequences, FiniteSets

CONSTANTS
    Cells,          \* what the screen is made of
    Rows,           \* number of rows of tiles (num_vertical_tiles)
    RowOf,          \* the tile row a cell is in
    Phases,         \* NUM_SCANLINES
    PhaseOf,        \* the entry of scanlines[] at which a cell's line is read
    Drawings,       \* what X may draw at once: sequences of rectangles
    Bands,          \* the rectangles pixman makes of a region
    ScanReports,    \* the rectangles push_changed_tiles makes of changed cells
    Pixel,          \* the pixels of a version
    StartScreens,   \* what the screen may show when x11spice starts
    TrustModes,     \* the values of options.trust_damage to consider
    FpsModes,       \* whether options.full_screen_fps is positive
    TrustedCount,   \* whole-screen damage reports trusted in a row (2 in the code)
    MaxDrawings,    \* bound: how often X draws
    MaxDrawQueue,   \* bound: drawables queued when full_screen_fps sends another
    MaxFailures,    \* bound: how many allocations and X requests fail
    MaxDisturbances \* bound: drawings and failures together

\* Rectangles have area.
Areas == (SUBSET Cells) \ {{}}

\* A sequence of rectangles that together cover an area.
Covers(rects, area) ==
    /\ rects \in Seq(Areas)
    /\ area = UNION {rects[i] : i \in DOMAIN rects}

\* ScanReports may send more than what changed, never less.
AtLeast(rects, area) ==
    /\ rects \in Seq(Areas)
    /\ area \subseteq UNION {rects[i] : i \in DOMAIN rects}

ASSUME PipelineAssumption ==
    /\ Rows \in Nat \ {0} /\ RowOf \in [Cells -> 1..Rows]
    /\ Phases \in Nat \ {0} /\ PhaseOf \in [Cells -> 0..(Phases - 1)]
    /\ Drawings \subseteq Seq(Areas)
    /\ \A area \in SUBSET Cells : Covers(Bands[area], area)
    /\ \A area \in SUBSET Cells : AtLeast(ScanReports[area], area)
    /\ StartScreens \subseteq [Cells -> {0, 1}]
    /\ TrustModes \subseteq {"ALWAYS_TRUST", "NEVER_TRUST", "AUTO_TRUST"}
    /\ FpsModes \subseteq BOOLEAN
    /\ TrustedCount \in Nat /\ MaxDrawQueue \in Nat \ {0}
    /\ MaxDrawings \in Nat /\ MaxFailures \in Nat /\ MaxDisturbances \in Nat

VARIABLES
    \* the X server and its connection
    screen,                 \* version of each cell
    xevents,                \* damage events on the wire
    \* the X event thread
    damage_region,          \* rectangles gathered while MORE is set
    fullscreen_damage_count,
    damage_out,             \* reports handle_damage_notify has still to push
    \* shared by the two threads, under scanner->lock
    queue,                  \* areas to scan; {} is a FULLSCREEN_SCAN_REQUEST
    region,                 \* the area the queue is thought to cover
    \* the scanner thread
    pc,                     \* where scanner_run is
    cur,                    \* the report being handled
    img,                    \* the pixels read for it
    current_scanline,
    row,                    \* the tile row scanner_periodic reads next
    changed,                \* cells a scan has found to differ
    scan_out,               \* reports push_changed_tiles has still to push
    fullscreen,             \* display->fullscreen: what was last captured
    \* towards the client
    draw_queue,             \* drawables: images of areas
    client,                 \* version of each cell on the client's surface
    \* settings, bounds and history
    trust_damage, full_screen_fps,
    drawings, failures,
    lost                    \* cells captured in fullscreen but never drawn

xvars       == <<screen, xevents, drawings>>
eventVars   == <<damage_region, fullscreen_damage_count, damage_out>>
sharedVars  == <<queue, region>>
scanVars    == <<current_scanline, row, changed, scan_out>>
reportVars  == <<cur, img>>
outVars     == <<draw_queue, client>>
optionVars  == <<trust_damage, full_screen_fps>>
vars == <<xvars, eventVars, sharedVars, pc, scanVars, reportVars, fullscreen,
          outVars, optionVars, failures, lost>>

-----------------------------------------------------------------------------
Whole == Cells

\* A surface after some of its cells were overwritten by a drawable.
Paint(surface, drawable) ==
    [c \in Cells |-> IF c \in drawable.area THEN drawable.version[c] ELSE surface[c]]

\* What reading an area of the screen gives (shmi, later the QXLDrawable)
Image(area) ==
    [area |-> area, version |-> [c \in Cells |-> IF c \in area THEN screen[c] ELSE 0]]
NoImage == [area |-> {}, version |-> [c \in Cells |-> 0]]

\* memcmp of the captured and the current pixels of a cell
Differs(c) == Pixel[fullscreen[c]] # Pixel[screen[c]]

\* A malloc, shared memory or X request failure that the code survives.
Fail ==
    /\ failures < MaxFailures /\ drawings + failures < MaxDisturbances
    /\ failures' = failures + 1

\* The region is updated in any case.
PushRegionAnyway(report) ==
    /\ region' = region \cup report
    /\ queue' = IF report \cap region # {} THEN queue ELSE Append(queue, report)

\* scanner_push of a rectangle, or of a full screen request ({}).  A report
\* that pixman says is inside *or partly inside* region is discarded.
Push(report) ==
    IF report \cap region # {}
    THEN UNCHANGED sharedVars
    ELSE /\ region' = region \cup report
         /\ queue' = Append(queue, report)

\* display_trust_damage
TrustDamage(count) ==
    \/ trust_damage = "ALWAYS_TRUST"
    \/ trust_damage = "AUTO_TRUST" /\ count <= TrustedCount

Init ==
    /\ screen \in StartScreens /\ xevents = <<>> /\ drawings = 0
    /\ damage_region = {} /\ fullscreen_damage_count = 0 /\ damage_out = <<>>
    /\ queue = <<>> /\ region = {}
    /\ pc = "pop" /\ cur = {} /\ img = NoImage
    /\ current_scanline = 0 /\ row = 1 /\ changed = {} /\ scan_out = <<>>
    /\ fullscreen = [c \in Cells |-> 0]
    /\ draw_queue = <<>> /\ client = [c \in Cells |-> 0]
    /\ full_screen_fps \in FpsModes
    /\ trust_damage \in TrustModes
    /\ failures = 0 /\ lost = {}

-----------------------------------------------------------------------------
(* The X server *)

\* Something is drawn: one damage event per rectangle, all but the last with
\* the MORE flag.  With full_screen_fps no damage object exists.
XDraw ==
    /\ drawings < MaxDrawings /\ drawings + failures < MaxDisturbances
    /\ drawings' = drawings + 1
    /\ \E rects \in Drawings :
          LET area == UNION {rects[i] : i \in DOMAIN rects} IN
          /\ screen' = [c \in Cells |-> IF c \in area THEN screen[c] + 1 ELSE screen[c]]
          /\ xevents' = IF full_screen_fps THEN xevents
                        ELSE xevents \o [i \in DOMAIN rects |->
                               [area |-> rects[i], more |-> i # Len(rects)]]
    /\ UNCHANGED <<eventVars, sharedVars, pc, scanVars, reportVars, fullscreen,
                   outVars, optionVars, failures, lost>>

-----------------------------------------------------------------------------
(* The X event thread *)

\* handle_damage_notify: gather the rectangle; unless more are to come, turn
\* what was gathered into reports, or distrust it and ask for a full scan.
HandleDamageNotify ==
    /\ damage_out = <<>> /\ xevents # <<>>
    /\ xevents' = Tail(xevents)
    /\ LET event == Head(xevents)
           all   == damage_region \cup event.area
           count == IF event.area = Whole THEN fullscreen_damage_count + 1 ELSE 0
       IN IF event.more
          THEN /\ damage_region' = all
               /\ UNCHANGED <<fullscreen_damage_count, damage_out>>
          ELSE /\ damage_region' = {}
               /\ fullscreen_damage_count' = count
               /\ damage_out' = IF TrustDamage(count) THEN Bands[all] ELSE <<{}>>
    /\ UNCHANGED <<screen, drawings, sharedVars, pc, scanVars, reportVars,
                   fullscreen, outVars, optionVars, failures, lost>>

\* The scanner_push calls of handle_damage_notify, one critical section each.
PushDamage ==
    /\ damage_out # <<>>
    /\ Push(Head(damage_out))
    /\ damage_out' = Tail(damage_out)
    /\ UNCHANGED <<xvars, damage_region, fullscreen_damage_count, pc, scanVars,
                   reportVars, fullscreen, outVars, optionVars, failures, lost>>

\* scanner_push finds no memory for a report; handle_damage_notify goes on.
DamagePushFails ==
    /\ damage_out # <<>>
    /\ Fail
    /\ damage_out' = Tail(damage_out)
    /\ UNCHANGED <<xvars, damage_region, fullscreen_damage_count, sharedVars, pc,
                   scanVars, reportVars, fullscreen, outVars, optionVars, lost>>

-----------------------------------------------------------------------------
(* The scanner thread: scanner_run *)

\* A report is popped.  A full screen request scans the whole screen (one
\* read); anything else is an area to send.
PopReport ==
    /\ pc = "pop" /\ queue # <<>>
    /\ queue' = Tail(queue)
    /\ IF Head(queue) = {}
       THEN pc' = "scan_full" /\ UNCHANGED cur
       ELSE pc' = "remove" /\ cur' = Head(queue)
    /\ UNCHANGED <<xvars, eventVars, region, scanVars, img, fullscreen, outVars,
                   optionVars, failures, lost>>

\* current_scanline is advanced around the lines of a tile.
NextLine == (current_scanline + 1) % Phases

\* The pop timed out: scanner_periodic starts on the next line of each tile,
\* or, with full_screen_fps, scanner_push_screen sends the whole screen (the
\* bound keeps it from doing so without end while the worker is slow).
PopTimeout ==
    /\ pc = "pop" /\ queue = <<>>
    /\ IF full_screen_fps
       THEN /\ Len(draw_queue) < MaxDrawQueue
            /\ pc' = "read" /\ cur' = Whole
            /\ UNCHANGED <<current_scanline, row, changed>>
       ELSE /\ pc' = "scan_rows" /\ row' = 1 /\ changed' = {}
            /\ current_scanline' = NextLine
            /\ UNCHANGED cur
    /\ UNCHANGED <<xvars, eventVars, sharedVars, scan_out, img, fullscreen,
                   outVars, optionVars, failures, lost>>

\* What is left to push of a scan; when nothing is, the lock is released.
Pushing(reports) ==
    /\ scan_out' = reports
    /\ pc' = IF reports = <<>> THEN "pop" ELSE "push"

\* display_find_changed_tiles for one row of tiles (the line compared is the one
\* current_scanline pointed at before it was advanced), and after the last row
\* grow_changed_tiles and push_changed_tiles.
ScanRow ==
    /\ pc = "scan_rows"
    /\ LET found == changed \cup
              {c \in Cells : /\ RowOf[c] = row
                             /\ (PhaseOf[c] + 1) % Phases = current_scanline
                             /\ Differs(c)}
       IN IF row < Rows
          THEN /\ changed' = found /\ row' = row + 1
               /\ UNCHANGED <<pc, scan_out>>
          ELSE /\ changed' = {} /\ row' = 1
               /\ Pushing(ScanReports[found])
    /\ UNCHANGED <<xvars, eventVars, sharedVars, current_scanline, reportVars,
                   fullscreen, outVars, optionVars, failures, lost>>

\* What display.c:669-679 warns against: keep the new image as fullscreen.
ScanFullScreenReplacing ==
    /\ pc = "scan_full"
    /\ Pushing(ScanReports[{c \in Cells : Differs(c)}])
    /\ fullscreen' = screen
    /\ UNCHANGED <<xvars, eventVars, sharedVars, current_scanline, row, changed,
                   reportVars, outVars, optionVars, failures, lost>>

\* display_scan_whole_screen: compare everything; fullscreen is left alone.
ScanFullScreen ==
    /\ pc = "scan_full"
    /\ Pushing(ScanReports[{c \in Cells : Differs(c)}])
    /\ UNCHANGED <<xvars, eventVars, sharedVars, current_scanline, row, changed,
                   reportVars, fullscreen, outVars, optionVars, failures, lost>>

\* A read of the screen (or an image to read into) fails: the scan is given up.
ScanFails ==
    /\ pc \in {"scan_full", "scan_rows"}
    /\ Fail
    /\ pc' = "pop" /\ changed' = {} /\ row' = 1
    /\ UNCHANGED <<xvars, eventVars, sharedVars, current_scanline, scan_out,
                   reportVars, fullscreen, outVars, optionVars, lost>>

\* The scanner_push calls of push_changed_tiles, one critical section each.
PushScan ==
    /\ pc = "push"
    /\ Push(Head(scan_out))
    /\ Pushing(Tail(scan_out))
    /\ UNCHANGED <<xvars, eventVars, current_scanline, row, changed,
                   reportVars, fullscreen, outVars, optionVars, failures, lost>>

\* scanner_push finds no memory; push_tiles_report does not look at its result.
ScanPushFails ==
    /\ pc = "push"
    /\ Fail
    /\ Pushing(Tail(scan_out))
    /\ UNCHANGED <<xvars, eventVars, sharedVars, current_scanline, row, changed,
                   reportVars, fullscreen, outVars, optionVars, lost>>


\* scanner_remove_region: from here on new damage of the area is queued again.
RemoveRegion ==
    /\ pc = "remove"
    /\ region' = region \ cur
    /\ pc' = "read"
    /\ UNCHANGED <<xvars, eventVars, queue, scanVars, reportVars, fullscreen,
                   outVars, optionVars, failures, lost>>

\* handle_scan_report: create_shm_image and read_shm_image...
ReadImage ==
    /\ pc = "read"
    /\ img' = Image(cur)
    /\ pc' = "copy"
    /\ UNCHANGED <<xvars, eventVars, sharedVars, scanVars, cur, fullscreen,
                   outVars, optionVars, failures, lost>>

\* ... either of which may fail, and then the report is forgotten.
ReadFails ==
    /\ pc = "read"
    /\ Fail
    /\ pc' = "pop" /\ cur' = {}
    /\ UNCHANGED <<xvars, eventVars, sharedVars, scanVars, img, fullscreen,
                   outVars, optionVars, lost>>

\* display_copy_image_into_fullscreen
CopyIntoFullscreen ==
    /\ pc = "copy"
    /\ fullscreen' = Paint(fullscreen, img)
    /\ pc' = "draw"
    /\ UNCHANGED <<xvars, eventVars, sharedVars, scanVars, reportVars, outVars,
                   optionVars, failures, lost>>

\* The drawable pushed at the wrong end of the queue
PushDrawInFront ==
    /\ pc = "draw"
    /\ draw_queue' = <<img>> \o draw_queue
    /\ lost' = lost \ cur
    /\ pc' = "pop" /\ cur' = {} /\ img' = NoImage
    /\ UNCHANGED <<xvars, eventVars, sharedVars, scanVars, fullscreen, client,
                   optionVars, failures>>

\* shm_image_to_drawable, g_async_queue_push and spice_qxl_wakeup
PushDraw ==
    /\ pc = "draw"
    /\ draw_queue' = Append(draw_queue, img)
    /\ lost' = lost \ cur
    /\ pc' = "pop" /\ cur' = {} /\ img' = NoImage
    /\ UNCHANGED <<xvars, eventVars, sharedVars, scanVars, fullscreen, client,
                   optionVars, failures>>

\* No memory for the drawable: fullscreen has the pixels, no client ever will.
DrawableFails ==
    /\ pc = "draw"
    /\ Fail
    /\ lost' = lost \cup cur
    /\ pc' = "pop" /\ cur' = {} /\ img' = NoImage
    /\ UNCHANGED <<xvars, eventVars, sharedVars, scanVars, fullscreen, outVars,
                   optionVars>>

-----------------------------------------------------------------------------
(* The Spice worker *)

\* scanner_periodic and scan_full_screen hold session->lock throughout.
ScannerHoldsLock == pc \in {"scan_rows", "scan_full", "push"}

\* get_command: session_pop_draw, which comes back empty when the lock is taken;
\* then the server renders the drawable.
GetCommand ==
    /\ ~ScannerHoldsLock
    /\ draw_queue # <<>>
    /\ client' = Paint(client, Head(draw_queue))
    /\ draw_queue' = Tail(draw_queue)
    /\ UNCHANGED <<xvars, eventVars, sharedVars, pc, scanVars, reportVars,
                   fullscreen, optionVars, failures, lost>>

-----------------------------------------------------------------------------
EventThread == HandleDamageNotify \/ PushDamage \/ DamagePushFails

ScannerThread ==
    \/ PopReport \/ PopTimeout \/ ScanRow \/ ScanFullScreen \/ ScanFails
    \/ PushScan \/ ScanPushFails \/ RemoveRegion \/ ReadImage \/ ReadFails
    \/ CopyIntoFullscreen \/ PushDraw \/ DrawableFails

Next == XDraw \/ EventThread \/ ScannerThread \/ GetCommand

Spec == Init /\ [][Next]_vars

\* Each thread runs whenever it can; nothing is assumed of X's clients.  The
\* worker needs strong fairness: it only tries the lock, and the scanner takes
\* it at every time-out, but the scanner sleeps in between.  That it comes back for
\* what is queued is presumed: whether it is told to sleep is in DrawHandshake.
FairSpec == /\ Spec
            /\ WF_vars(EventThread) /\ WF_vars(ScannerThread) /\ SF_vars(GetCommand)

-----------------------------------------------------------------------------
(* Properties *)

Drawables == [area : SUBSET Cells, version : [Cells -> Nat]]

\* The shape of the pipeline's state, whatever thread runs next.
TypeOK ==
    /\ screen \in [Cells -> Nat] /\ drawings \in 0..MaxDrawings
    /\ xevents \in Seq([area : Areas, more : BOOLEAN])
    /\ damage_region \in SUBSET Cells /\ fullscreen_damage_count \in Nat
    /\ damage_out \in Seq(SUBSET Cells)
    /\ queue \in Seq(SUBSET Cells) /\ region \in SUBSET Cells
    /\ pc \in {"pop", "remove", "read", "copy", "draw", "scan_rows", "scan_full", "push"}
    /\ cur \in SUBSET Cells /\ img \in Drawables
    /\ current_scanline \in 0..(Phases - 1) /\ row \in 1..Rows
    /\ changed \in SUBSET Cells /\ scan_out \in Seq(Areas)
    /\ pc = "push" <=> scan_out # <<>>
    /\ fullscreen \in [Cells -> Nat] /\ client \in [Cells -> Nat]
    /\ draw_queue \in Seq(Drawables)
    /\ trust_damage \in TrustModes /\ full_screen_fps \in FpsModes
    /\ failures \in 0..MaxFailures /\ lost \in SUBSET Cells

\* scanner->region is a summary of scanner->queue kept by two threads: it is
\* the area of the queued reports and of the report just popped, which is
\* still in it until scanner_remove_region runs.  Were it larger, damage would be
\* discarded that nobody is going to scan, forever.
Popped == IF pc = "remove" THEN cur ELSE {}

RegionIsQueued ==
    region = Popped \cup UNION {queue[i] : i \in DOMAIN queue}

\* No two queued reports overlap, so at most one report per cell is queued
\* (full screen requests, which carry no area, are the exception).
ReportsAreApart ==
    /\ \A i, j \in DOMAIN queue : i # j => queue[i] \cap queue[j] = {}
    /\ \A i \in DOMAIN queue : queue[i] \cap Popped = {}

\* Drawables on their way to the client, the one about to be pushed included.
OnTheWay == IF pc = "draw" THEN Append(draw_queue, img) ELSE draw_queue

Covering(c) == {i \in DOMAIN OnTheWay : c \in OnTheWay[i].area}

\* display->fullscreen, which scans compare the screen with, is what the client
\* shows once it has rendered what is on its way.  Otherwise a scan would find
\* nothing to send where the client is out of date (display.c:669-679).
FullscreenIsClientToBe ==
    \A c \in Cells \ lost :
        /\ Covering(c) = {} => client[c] = fullscreen[c]
        /\ \A i \in Covering(c) :
              (\A j \in Covering(c) : j <= i) => OnTheWay[i].version[c] = fullscreen[c]

\* What the client is promised: no invented contents, no cell going back to an
\* older picture, although reads, copies and draws interleave with drawing.
View == INSTANCE ClientView WITH Cells <- Cells, screen <- screen, client <- client
ViewSpec == View!ViewSpec

=============================================================================
