------------------------------- MODULE Resize -------------------------------
(***************************************************************************)
(* What the client sees of a screen that is resized while it is drawn on.  *)
(*                                                                         *)
(* A resize replaces display->fullscreen, which the scanner compares with, *)
(* and the primary surface, which the client sees, by pictures made of     *)
(* segments that may have been used before; nothing is copied or cleared.  *)
(* Reports, an image in hand and drawables are of a screen that was.       *)
(*                                                                         *)
(* A size is the set of the cells a screen of that size has.  That nobody  *)
(* sees the middle of session_recreate_primary, and that no command is in  *)
(* progress then, is DrawHandshake's; the steps of a scan, failures and    *)
(* full_screen_fps are ScanPipeline's, and so is that scanner->region is   *)
(* what is queued.  Whether damage is trusted may change at any time.      *)
(***************************************************************************)
EXTENDS Integers, Sequences, FiniteSets, SequencesExt

CONSTANTS
    ScreenSizes,    \* the sizes the screen can have
    Areas,          \* where X draws, if the screen reaches that far
    Colours,        \* what a cell can show
    StartScreens,   \* what the screen may show when x11spice starts
    Black,          \* what memory shows that was never used
    MaxDrawings,    \* bound: how often X draws
    MaxResizes,     \* bound: how often the screen changes size
    MaxDisturbances \* bound: drawings and resizes together

Cells == UNION ScreenSizes
Pictures(size) == [size -> Colours]

ASSUME ResizeAssumption ==
    /\ {} \notin ScreenSizes \cup Areas
    /\ StartScreens \subseteq Pictures(Cells) /\ Black \in Colours
    /\ MaxDrawings \in Nat /\ MaxResizes \in Nat /\ MaxDisturbances \in Nat

VARIABLES
    screen_size, screen,    \* the X screen: which cells it has, and all colours
    xevents,                \* damage and ConfigureNotify events on the wire
    display_size,           \* display->width, height
    event,                  \* where handle_xevents is
    queue,                  \* scanner->queue: areas; {} is a FULLSCREEN_SCAN_REQUEST
    scanner, cur, img,      \* where scanner_run is, its report, the image read for it
    fullscreen,             \* display->fullscreen; its domain is its size
    draw_queue,             \* images on their way
    client,                 \* the primary surface
    drawings, resizes,
    fresh                   \* history: cells copied into this fullscreen

xVars     == <<screen_size, screen, xevents, drawings, resizes>>
eventVars == <<display_size, event>>
scanVars  == <<scanner, cur, img>>
imageVars == <<fullscreen, fresh>>
outVars   == <<draw_queue, client>>
resizeVars == <<xVars, eventVars, queue, scanVars, imageVars, outVars>>

-----------------------------------------------------------------------------
\* display->fullscreen, spice->width and height, and the surface change together.
spice_size == DOMAIN fullscreen

NoImage == <<>>

\* A picture over which an image is painted, as far as it reaches.
Paint(picture, image) ==
    [c \in DOMAIN picture |-> IF c \in DOMAIN image THEN image[c] ELSE picture[c]]

\* The program starts with pictures that were never used.
ResizeInit ==
    /\ screen_size \in ScreenSizes /\ screen \in StartScreens
    /\ xevents = <<>> /\ drawings = 0 /\ resizes = 0
    /\ display_size = screen_size /\ event = "wait"
    /\ queue = <<>> /\ scanner = "pop" /\ cur = {} /\ img = NoImage
    /\ fullscreen = [c \in screen_size |-> Black]
    /\ client = fullscreen
    /\ draw_queue = <<>> /\ fresh = screen_size

-----------------------------------------------------------------------------
(* The X server *)

MayDisturb == drawings + resizes < MaxDisturbances

XDraw ==
    /\ MayDisturb /\ drawings < MaxDrawings /\ drawings' = drawings + 1
    /\ \E area \in Areas, colour \in Colours :
          /\ area \subseteq screen_size
          /\ screen' = [c \in Cells |-> IF c \in area THEN colour ELSE screen[c]]
          /\ xevents' = Append(xevents, [damage |-> area])
    /\ UNCHANGED <<screen_size, resizes, eventVars, queue, scanVars, imageVars, outVars>>

\* The screen changes size; it may be painted again before anybody is told.
XResizes ==
    /\ MayDisturb /\ resizes < MaxResizes /\ resizes' = resizes + 1
    /\ \E size \in ScreenSizes \ {screen_size} :
          /\ screen_size' = size
          /\ \/ /\ xevents' = Append(xevents, [configure |-> size])
                /\ UNCHANGED drawings
             \/ /\ drawings < MaxDrawings /\ drawings' = drawings + 1
                /\ xevents' = xevents \o <<[damage |-> size], [configure |-> size]>>
    /\ UNCHANGED <<screen, eventVars, queue, scanVars, imageVars, outVars>>

-----------------------------------------------------------------------------
(* The X event thread *)

IsConfigure(e) == "configure" \in DOMAIN e

\* scanner_push: a report that touches one that is queued is discarded.
Pushed(reports, report) ==
    IF report \cap UNION Range(reports) # {} THEN reports ELSE Append(reports, report)

\* handle_damage_notify: a report, or a scan of the screen if damage is not trusted
HandleDamageNotify ==
    /\ event = "wait" /\ xevents # <<>> /\ ~IsConfigure(Head(xevents))
    /\ xevents' = Tail(xevents)
    /\ \E report \in {Head(xevents).damage, {}} : queue' = Pushed(queue, report)
    /\ UNCHANGED <<screen_size, screen, drawings, resizes, eventVars, scanVars, imageVars, outVars>>


\* handle_configure_notify, and the test of session_handle_resize
HandleConfigureNotify ==
    /\ event = "wait" /\ xevents # <<>> /\ IsConfigure(Head(xevents))
    /\ xevents' = Tail(xevents)
    /\ display_size' = Head(xevents).configure
    /\ event' = IF display_size' = spice_size THEN "wait" ELSE "flush"
    /\ UNCHANGED <<screen_size, screen, drawings, resizes, queue, scanVars, imageVars, outVars>>

\* session_recreate_primary.  The segments of primary and fullscreen are new, or
\* had any picture before, of any width; what the server does to its surface when
\* it is made is its own affair.  Drawables stay queued.
RecreatePrimary ==
    /\ event = "flush" /\ event' = "wait"
    /\ fullscreen' \in Pictures(display_size)
    /\ client' \in Pictures(display_size)
    /\ fresh' = {}
    /\ UNCHANGED <<xVars, display_size, queue, scanVars, draw_queue>>

-----------------------------------------------------------------------------
(* The scanner thread *)

\* A rectangle of the screen can be read if it lies inside.
Readable(area) == area \subseteq screen_size

\* A scan under session->lock: what differs is reported.
Scanned(reports) ==
    LET found == {c \in spice_size : fullscreen[c] # screen[c]}
    IN IF found = {} THEN reports ELSE Pushed(reports, found)

\* scanner_periodic: the lines it reads are as wide as fullscreen.
ScannerPeriodic ==
    /\ scanner = "pop" /\ queue = <<>>
    /\ queue' = IF Readable(spice_size) THEN Scanned(queue) ELSE queue
    /\ UNCHANGED <<xVars, eventVars, scanVars, imageVars, outVars>>

\* A FULLSCREEN_SCAN_REQUEST: display_scan_whole_screen reads an image of
\* display->width and height, and gives up if fullscreen is not of that size.
PopRequest ==
    /\ scanner = "pop" /\ queue # <<>> /\ Head(queue) = {}
    /\ queue' = IF Readable(display_size) /\ display_size = spice_size
                THEN Scanned(Tail(queue)) ELSE Tail(queue)
    /\ UNCHANGED <<xVars, eventVars, scanVars, imageVars, outVars>>

\* Any other report is popped and taken out of the region ...
PopReport ==
    /\ scanner = "pop" /\ queue # <<>> /\ Head(queue) # {}
    /\ cur' = Head(queue) /\ queue' = Tail(queue)
    /\ scanner' = "read"
    /\ UNCHANGED <<xVars, eventVars, img, imageVars, outVars>>

\* ... and read, unless it reaches outside of the screen: then X refuses, and it is dropped.
ReadImage ==
    /\ scanner = "read"
    /\ \/ /\ Readable(cur)
          /\ img' = [c \in cur |-> screen[c]] /\ scanner' = "copy"
          /\ UNCHANGED cur
       \/ /\ ~Readable(cur)
          /\ scanner' = "pop" /\ cur' = {} /\ UNCHANGED img
    /\ UNCHANGED <<xVars, eventVars, queue, imageVars, outVars>>

\* >= for > in both tests: an image that reaches the border is ignored.
CopyIntoFullscreenInside ==
    /\ scanner = "copy" /\ scanner' = "draw"
    /\ IF cur \subseteq spice_size /\ cur # spice_size
       THEN fullscreen' = Paint(fullscreen, img) /\ fresh' = fresh \cup cur
       ELSE UNCHANGED imageVars
    /\ UNCHANGED <<xVars, eventVars, queue, cur, img, outVars>>

\* display_copy_image_into_fullscreen ignores an image that does not fit ...
CopyIntoFullscreen ==
    /\ scanner = "copy" /\ scanner' = "draw"
    /\ IF cur \subseteq spice_size
       THEN fullscreen' = Paint(fullscreen, img) /\ fresh' = fresh \cup cur
       ELSE UNCHANGED imageVars
    /\ UNCHANGED <<xVars, eventVars, queue, cur, img, outVars>>

\* ... but its drawable is pushed all the same.
PushDraw ==
    /\ scanner = "draw"
    /\ draw_queue' = Append(draw_queue, img)
    /\ scanner' = "pop" /\ cur' = {} /\ img' = NoImage
    /\ UNCHANGED <<xVars, eventVars, queue, imageVars, client>>

-----------------------------------------------------------------------------
\* The worker renders a drawable, of whichever time, on the surface there is.
GetCommand ==
    /\ draw_queue # <<>>
    /\ client' = Paint(client, Head(draw_queue))
    /\ draw_queue' = Tail(draw_queue)
    /\ UNCHANGED <<xVars, eventVars, queue, scanVars, imageVars>>

EventThread == HandleDamageNotify \/ HandleConfigureNotify \/ RecreatePrimary

ScannerThread ==
    ScannerPeriodic \/ PopRequest \/ PopReport \/ ReadImage \/ CopyIntoFullscreen \/ PushDraw

ResizeNext == XDraw \/ XResizes \/ EventThread \/ ScannerThread \/ GetCommand

ResizeSpec == ResizeInit /\ [][ResizeNext]_resizeVars

\* Threads run when they can; nothing is assumed of X.
ResizeFairSpec ==
    /\ ResizeSpec
    /\ WF_resizeVars(EventThread) /\ WF_resizeVars(ScannerThread) /\ WF_resizeVars(GetCommand)

-----------------------------------------------------------------------------
(* Properties *)

XEvent == [damage : SUBSET Cells] \cup [configure : ScreenSizes]
Image == UNION {Pictures(area) : area \in SUBSET Cells}

\* The copy and the surface are of one size, the image in hand of the report's area.
ResizeTypeOK ==
    /\ screen_size \in ScreenSizes /\ screen \in Pictures(Cells) /\ xevents \in Seq(XEvent)
    /\ display_size \in ScreenSizes /\ event \in {"wait", "flush"}
    /\ queue \in Seq(SUBSET Cells)
    /\ scanner \in {"pop", "read", "copy", "draw"} /\ cur \subseteq Cells
    /\ img \in IF scanner \in {"copy", "draw"} THEN Pictures(cur) ELSE {NoImage}
    /\ spice_size \in ScreenSizes /\ fullscreen \in Pictures(spice_size)
    /\ client \in Pictures(spice_size) /\ draw_queue \in Seq(Image)
    /\ drawings \in 0..MaxDrawings /\ resizes \in 0..MaxResizes
    /\ fresh \subseteq spice_size

\* No resize is under way, or on its way.
Settled ==
    /\ event = "wait" /\ screen_size = spice_size
    /\ \A i \in DOMAIN xevents : ~IsConfigure(xevents[i])

\* What the client will show of a cell once all drawables have arrived
Coming(c) ==
    LET covering == {i \in DOMAIN draw_queue : c \in DOMAIN draw_queue[i]}
    IN IF scanner = "draw" /\ c \in cur THEN img[c]
       ELSE IF covering # {} THEN draw_queue[Max(covering)][c] ELSE client[c]

\* After any resizes the scanner compares with what the client will have, for each
\* cell it has copied since the last: drawables and an image of the old size,
\* rendered on the new surface or ignored half-way, come between for no such cell.
FreshIsClientToBe == Settled => \A c \in fresh : fullscreen[c] = Coming(c)

=============================================================================
