----------------------------- MODULE Lifecycle -----------------------------
(***************************************************************************)
(* The main thread of x11spice, from its options to its exit status:       *)
(* start-up with a failure possible at every step, the GTK main loop with  *)
(* its quit button, timeout and SIGTERM, the viewer that comes and goes,   *)
(* the scripts run on its account, and the clean-up.                       *)
(*                                                                         *)
(* What the other threads do is in DrawHandshake; here they are started    *)
(* and joined.  Scripts are numbered in the order they are forked; the     *)
(* number stands for the process id.                                       *)
(***************************************************************************)
EXTENDS Integers, Sequences, FiniteSets

CONSTANTS
    MaxViewers,     \* bound: how often a viewer connects
    MaxSignals,     \* bound: how often SIGTERM is sent
    MaxFailures     \* bound: how many steps or allocations fail

ASSUME LifecycleAssumption ==
    MaxViewers \in Nat /\ MaxSignals \in Nat /\ MaxFailures \in Nat

VARIABLES
    options,        \* the settings that matter here
    pc,             \* where main() is
    rc,             \* its local: 0, or 1 for any error
    flags,          \* session_created, display_opened, ... those that are set
    threads,        \* threads that run besides main
    in_use,         \* what exists for threads to use: the display, session->lock
    status,         \* how the process ended, "running" until then
    \* gui.c
    window, cached_gui, quit, timer,
    handler, at_exit,   \* the SIGTERM handler, the exit handler are installed
    \* session.c
    global_session, connected, connect_pid, disconnect_pid,
    scripts,        \* every script forked: which, and what became of it
    \* the world
    viewer,         \* a viewer is connected to the Spice server
    viewers, signals, failures

startVars   == <<rc, flags, threads, in_use, status, handler, at_exit>>
guiVars     == <<window, cached_gui, quit, timer>>
sessionVars == <<global_session, connected, connect_pid, disconnect_pid, scripts>>
worldVars   == <<viewer, viewers, signals, failures>>
vars == <<options, pc, startVars, guiVars, sessionVars, worldVars>>

Options == [on_connect : BOOLEAN, on_disconnect : BOOLEAN, timeout : BOOLEAN,
            exit_on_disconnect : BOOLEAN, impossible : BOOLEAN]

Init ==
    /\ options \in Options
    /\ pc = "options" /\ rc = 0 /\ flags = {} /\ threads = {} /\ in_use = {}
    /\ status = "running" /\ handler = FALSE /\ at_exit = FALSE
    /\ window = FALSE /\ cached_gui = FALSE /\ quit = FALSE /\ timer = FALSE
    /\ global_session = FALSE /\ connected = FALSE
    /\ connect_pid = 0 /\ disconnect_pid = 0 /\ scripts = <<>>
    /\ viewer = FALSE /\ viewers = 0 /\ signals = 0 /\ failures = 0

Fail == failures < MaxFailures /\ failures' = failures + 1

-----------------------------------------------------------------------------
(* Scripts *)

\* cleanup_process: reap it, or kill its process group.  A child that has not come
\* to setsid yet has no group: killpg fails, and the script runs on.
Cleanup == [forked |-> "escaped", running |-> "killed", ended |-> "reaped",
            reaped |-> "reaped", killed |-> "killed", escaped |-> "escaped"]

Cleaned(procs, pid) ==
    IF pid = 0 THEN procs ELSE [procs EXCEPT ![pid].state = Cleanup[@]]

\* invoke_on_connect
InvokeOnConnect ==
    /\ scripts' = Append(Cleaned(scripts, connect_pid), [on |-> "connect", state |-> "forked"])
    /\ connect_pid' = Len(scripts')
    /\ UNCHANGED disconnect_pid

\* connect_pid is left as it was.
InvokeOnDisconnectForgetful ==
    LET procs == Cleaned(Cleaned(scripts, connect_pid), disconnect_pid)
    IN /\ scripts' = Append(procs, [on |-> "disconnect", state |-> "forked"])
       /\ disconnect_pid' = Len(scripts')
       /\ UNCHANGED connect_pid

\* invoke_on_disconnect
InvokeOnDisconnect ==
    LET procs == Cleaned(Cleaned(scripts, connect_pid), disconnect_pid)
    IN /\ scripts' = Append(procs, [on |-> "disconnect", state |-> "forked"])
       /\ disconnect_pid' = Len(scripts')
       /\ connect_pid' = 0

NoScript == UNCHANGED <<connect_pid, disconnect_pid, scripts>>

\* The timeout goes on.
SessionRemoteConnectedKeepsTimer ==
    IF ~global_session \/ connected
    THEN UNCHANGED <<timer, connected, failures, connect_pid, disconnect_pid, scripts>>
    ELSE /\ connected' = TRUE
         /\ UNCHANGED <<timer, failures>>
         /\ IF options.on_connect THEN InvokeOnConnect ELSE NoScript

\* session_remote_connected; gui_remote_connected removes the timeout, and is not
\* called when there is no memory for its label.
SessionRemoteConnected ==
    IF ~global_session \/ connected
    THEN UNCHANGED <<timer, connected, failures, connect_pid, disconnect_pid, scripts>>
    ELSE /\ connected' = TRUE
         /\ \/ timer' = FALSE /\ UNCHANGED failures
            \/ UNCHANGED timer /\ Fail
         /\ IF options.on_connect THEN InvokeOnConnect ELSE NoScript

\* session_remote_disconnected
SessionRemoteDisconnected ==
    IF ~global_session \/ ~connected
    THEN UNCHANGED connected /\ NoScript
    ELSE /\ connected' = FALSE
         /\ IF options.on_disconnect THEN InvokeOnDisconnect ELSE NoScript

\* What a forked child does: setsid and execl, and it comes to an end.
ScriptRuns ==
    /\ \E p \in DOMAIN scripts :
          /\ scripts[p].state \in {"forked", "running"}
          /\ scripts' = [scripts EXCEPT ![p].state =
                            IF @ = "forked" THEN "running" ELSE "ended"]
    /\ UNCHANGED <<options, pc, startVars, guiVars, global_session, connected,
                   connect_pid, disconnect_pid, worldVars>>

-----------------------------------------------------------------------------
(* main: start-up *)

\* options_load, session_create, display_open, gui_create
StartStep(at, next, flag, things) ==
    /\ pc = at /\ pc' = next
    /\ flags' = flags \cup flag
    /\ in_use' = in_use \cup things
    /\ window' = (at = "gui_create")
    /\ timer' = (at = "gui_create" /\ options.timeout)
    /\ UNCHANGED <<options, rc, threads, status, handler, at_exit, cached_gui,
                   quit, sessionVars, worldVars>>

StartUp ==
    \/ StartStep("options", "session_create", {}, {})
    \/ StartStep("session_create", "display_open", {"session_created"}, {"lock"})
    \/ StartStep("display_open", "gui_create", {"display_opened"}, {"display"})
    \/ StartStep("gui_create", "config", {"gui_created"}, {})

\* Any of them, or spice_start, fails.  When it is spice_create_primary that finds
\* no memory for the monitors config, the server is left running.
StartUpFails ==
    /\ pc \in {"options", "session_create", "display_open", "gui_create", "spice_start"}
    /\ Fail
    /\ rc' = 1 /\ pc' = "exit"
    /\ threads' \in IF pc = "spice_start" THEN {{}, {"worker"}} ELSE {threads}
    /\ UNCHANGED <<options, flags, in_use, status, handler, at_exit, guiVars,
                   sessionVars, viewer, viewers, signals>>

\* options_impossible_config: without a password or its deliberate absence the user is
\* told in a dialog (whose main loop may see the timeout), and main() goes to exit.
CheckConfig ==
    /\ pc = "config"
    /\ pc' = IF options.impossible THEN "exit" ELSE "spice_start"
    /\ UNCHANGED <<options, rc, flags, threads, in_use, status, handler, at_exit,
                   guiVars, sessionVars, worldVars>>

\* spice_start; agent_start, whose result nobody looks at
SpiceStart ==
    /\ pc = "spice_start" /\ pc' = "scanner_create"
    /\ flags' = flags \cup {"spice_started"}
    /\ threads' = threads \cup {"worker"}
    /\ UNCHANGED <<options, rc, in_use, status, handler, at_exit, guiVars,
                   sessionVars, worldVars>>

\* session_start: scanner_create and display_start_event_thread
SessionStart ==
    /\ \/ /\ pc = "scanner_create" /\ pc' = "event_thread"
          /\ threads' = threads \cup {"scanner"}
          /\ UNCHANGED <<flags, global_session>>
       \/ /\ pc = "event_thread" /\ pc' = "handle_sigterm"
          /\ threads' = threads \cup {"events"}
          /\ flags' = flags \cup {"session_started"} /\ global_session' = TRUE
    /\ UNCHANGED <<options, rc, in_use, status, handler, at_exit, guiVars,
                   connected, connect_pid, disconnect_pid, scripts, worldVars>>

\* No thread for the scanner: session_end joins threads that were never made, which
\* is undefined.  None for the X events: main() goes on to exit, the scanner runs.
SessionStartFails ==
    /\ Fail
    /\ rc' = 1
    /\ \/ /\ pc = "scanner_create"
          /\ \/ pc' = "exit" /\ UNCHANGED status
             \/ pc' = "over" /\ status' = "crashed"
       \/ pc = "event_thread" /\ pc' = "exit" /\ UNCHANGED status
    /\ UNCHANGED <<options, flags, threads, in_use, handler, at_exit, guiVars,
                   sessionVars, viewer, viewers, signals>>

\* handle_sigterm, atexit, and gui_run as far as gtk_main
Prepare ==
    /\ \/ /\ pc = "handle_sigterm" /\ pc' = "atexit"
          /\ handler' = TRUE /\ UNCHANGED <<at_exit, cached_gui>>
       \/ /\ pc = "atexit" /\ pc' = "gui_run"
          /\ at_exit' = options.on_disconnect /\ UNCHANGED <<handler, cached_gui>>
       \/ /\ pc = "gui_run" /\ pc' = "enter_gtk_main"
          /\ cached_gui' = TRUE /\ UNCHANGED <<handler, at_exit>>
       \/ /\ pc = "enter_gtk_main" /\ pc' = "gtk_main"
          /\ UNCHANGED <<handler, at_exit, cached_gui>>
    /\ UNCHANGED <<options, rc, flags, threads, in_use, status, window, quit,
                   timer, sessionVars, worldVars>>

-----------------------------------------------------------------------------
(* main: the GTK main loop, in which the Spice server's events come as well *)

InMainLoop == pc = "gtk_main"

\* gui_sigterm, called for SIGTERM and when the window is destroyed.  gtk_main_quit
\* does nothing unless gtk_main runs.
GuiSigterm ==
    /\ cached_gui' = FALSE
    /\ quit' = (quit \/ (cached_gui /\ InMainLoop))

\* The window goes, its "destroy" signal calls gui_sigterm.
QuitClicked ==
    /\ InMainLoop
    /\ window /\ window' = FALSE
    /\ GuiSigterm
    /\ UNCHANGED <<options, pc, startVars, timer, sessionVars, worldVars>>

\* SIGTERM at any time: fatal until handle_sigterm has run.
Sigterm ==
    /\ status = "running"
    /\ signals < MaxSignals /\ signals' = signals + 1
    /\ IF handler
       THEN GuiSigterm /\ UNCHANGED <<pc, status>>
       ELSE pc' = "over" /\ status' = "killed" /\ UNCHANGED <<cached_gui, quit>>
    /\ UNCHANGED <<options, rc, flags, threads, in_use, handler, at_exit, window,
                   timer, sessionVars, viewer, viewers, failures>>

\* The time-out taking the way of the quit button
TimeoutAsQuit ==
    /\ InMainLoop /\ timer
    /\ timer' = FALSE /\ GuiSigterm
    /\ UNCHANGED <<options, pc, startVars, window, sessionVars, worldVars>>

\* timeout_if_no_connection
Timeout ==
    /\ InMainLoop /\ timer
    /\ timer' = FALSE /\ quit' = TRUE
    /\ UNCHANGED <<options, pc, startVars, window, cached_gui, sessionVars, worldVars>>

\* channel_event: the main channel of a viewer is up ...
ViewerConnects ==
    /\ InMainLoop /\ ~viewer
    /\ viewers < MaxViewers /\ viewers' = viewers + 1
    /\ viewer' = TRUE
    /\ SessionRemoteConnected
    /\ UNCHANGED <<options, pc, startVars, window, cached_gui, quit, global_session, signals>>

\* ... or down, for whatever reason: the viewer, or session_disconnect_client.
ViewerDisconnects ==
    /\ InMainLoop /\ viewer
    /\ viewer' = FALSE
    /\ SessionRemoteDisconnected
    /\ pc' = IF options.exit_on_disconnect THEN "exiting" ELSE pc
    /\ UNCHANGED <<options, startVars, guiVars, global_session, viewers, signals, failures>>

\* With exit-on-disconnect some servers call exit() before they tell.
ServerExits ==
    /\ InMainLoop /\ viewer /\ options.exit_on_disconnect
    /\ viewer' = FALSE
    /\ pc' = "exiting"
    /\ UNCHANGED <<options, startVars, guiVars, sessionVars, viewers, signals, failures>>

\* gtk_main returns.
GuiRunReturns ==
    /\ InMainLoop /\ quit
    /\ pc' = "exit" /\ cached_gui' = FALSE
    /\ UNCHANGED <<options, startVars, window, quit, timer, sessionVars, worldVars>>

-----------------------------------------------------------------------------
(* main: clean-up *)

\* The session is not ended before what it uses.
SessionEndForgotten ==
    /\ pc = "exit" /\ pc' = "spice_end"
    /\ UNCHANGED <<options, rc, flags, threads, in_use, status, handler, at_exit,
                   guiVars, sessionVars, worldVars>>

\* session_end
SessionEnd ==
    /\ pc = "exit" /\ pc' = "spice_end"
    /\ IF "session_started" \in flags
       THEN /\ SessionRemoteDisconnected
            /\ global_session' = FALSE
            /\ threads' = threads \ {"events", "scanner"}
       ELSE UNCHANGED <<sessionVars, threads>>
    /\ UNCHANGED <<options, rc, flags, in_use, status, handler, at_exit, guiVars,
                   worldVars>>

\* agent_stop and spice_end, which disconnects a viewer; nobody listens any more.
SpiceEnd ==
    /\ pc = "spice_end" /\ pc' = "display_close"
    /\ IF "spice_started" \in flags
       THEN threads' = threads \ {"worker"} /\ viewer' = FALSE
       ELSE UNCHANGED <<threads, viewer>>
    /\ UNCHANGED <<options, rc, flags, in_use, status, handler, at_exit, guiVars,
                   sessionVars, viewers, signals, failures>>

\* gui_destroy, display_close
DisplayClose ==
    /\ pc = "display_close" /\ pc' = "session_destroy"
    /\ in_use' = IF "display_opened" \in flags THEN in_use \ {"display"} ELSE in_use
    /\ UNCHANGED <<options, rc, flags, threads, status, handler, at_exit, guiVars,
                   sessionVars, worldVars>>

\* Only the connect script is cleaned up.
SessionDestroyHalf ==
    /\ pc = "session_destroy" /\ pc' = "exiting"
    /\ in_use' = in_use \ {"lock"}
    /\ scripts' = Cleaned(scripts, connect_pid)
    /\ connect_pid' = 0 /\ disconnect_pid' = 0
    /\ UNCHANGED <<options, rc, flags, threads, status, handler, at_exit, guiVars,
                   global_session, connected, worldVars>>

\* session_destroy, options_free and return
SessionDestroy ==
    /\ pc = "session_destroy" /\ pc' = "exiting"
    /\ IF "session_created" \in flags
       THEN /\ in_use' = in_use \ {"lock"}
            /\ scripts' = Cleaned(Cleaned(scripts, connect_pid), disconnect_pid)
            /\ connect_pid' = 0 /\ disconnect_pid' = 0
       ELSE UNCHANGED <<in_use, scripts, connect_pid, disconnect_pid>>
    /\ UNCHANGED <<options, rc, flags, threads, status, handler, at_exit, guiVars,
                   global_session, connected, worldVars>>

\* No exit handler
ExitSilently ==
    /\ pc = "exiting" /\ pc' = "over"
    /\ status' = IF rc = 0 THEN "success" ELSE "failure"
    /\ UNCHANGED <<options, rc, flags, threads, in_use, handler, at_exit, guiVars,
                   sessionVars, worldVars>>

\* The C library runs the exit handler, session_remote_disconnected.
Exit ==
    /\ pc = "exiting" /\ pc' = "over"
    /\ IF at_exit THEN SessionRemoteDisconnected ELSE UNCHANGED connected /\ NoScript
    /\ status' = IF rc = 0 THEN "success" ELSE "failure"
    /\ UNCHANGED <<options, rc, flags, threads, in_use, handler, at_exit, guiVars,
                   global_session, worldVars>>

-----------------------------------------------------------------------------
MainThread ==
    \/ StartUp \/ CheckConfig \/ SpiceStart \/ SessionStart \/ Prepare \/ GuiRunReturns
    \/ SessionEnd \/ SpiceEnd \/ DisplayClose \/ SessionDestroy \/ Exit

Next ==
    \/ MainThread \/ StartUpFails \/ SessionStartFails \/ Timeout \/ ScriptRuns
    \/ QuitClicked \/ Sigterm \/ ViewerConnects \/ ViewerDisconnects \/ ServerExits

Spec == Init /\ [][Next]_vars

\* The main thread goes on while it can, and its timeouts are dispatched.  Nothing
\* is assumed of users, viewers and scripts.
FairSpec == Spec /\ WF_vars(MainThread) /\ WF_vars(Timeout)

-----------------------------------------------------------------------------
(* Properties *)

\* The order in which main() gets things
FlagsSoFar ==
    LET order == <<"session_created", "display_opened", "gui_created", "spice_started",
                   "session_started">>
    IN {{order[i] : i \in 1..n} : n \in 0..5}

\* Every variable has its type; the flags of main() are those of its first steps,
\* and the process has a status when it is over.
TypeOK ==
    /\ options \in Options
    /\ pc \in {"options", "session_create", "display_open", "gui_create", "config",
               "spice_start", "scanner_create", "event_thread", "handle_sigterm", "atexit",
               "gui_run", "enter_gtk_main", "gtk_main", "exit", "spice_end",
               "display_close", "session_destroy", "exiting", "over"}
    /\ rc \in {0, 1}
    /\ flags \in FlagsSoFar
    /\ threads \subseteq {"scanner", "events", "worker"} /\ in_use \subseteq {"display", "lock"}
    /\ status \in {"running", "success", "failure", "killed", "crashed"}
    /\ status = "running" <=> pc # "over"
    /\ handler \in BOOLEAN /\ at_exit \in BOOLEAN
    /\ window \in BOOLEAN /\ cached_gui \in BOOLEAN /\ quit \in BOOLEAN /\ timer \in BOOLEAN
    /\ global_session \in BOOLEAN /\ connected \in BOOLEAN /\ viewer \in BOOLEAN
    /\ scripts \in Seq([on : {"connect", "disconnect"}, state : DOMAIN Cleanup])
    /\ connect_pid \in 0..Len(scripts) /\ disconnect_pid \in 0..Len(scripts)
    /\ viewers \in 0..MaxViewers /\ signals \in 0..MaxSignals /\ failures \in 0..MaxFailures

\* connect_pid and disconnect_pid are children that have not been waited for nor
\* killed: what killpg kills can not be a stranger that got the number since.
PidsAreChildren ==
    \A p \in {connect_pid, disconnect_pid} \ {0} :
        scripts[p].state \in {"forked", "running", "ended"}

\* After session_destroy no script runs, save those that a clean-up came too early to
\* kill ("escaped").
ScriptsAreCleanedUp ==
    pc = "over" /\ "session_created" \in flags /\ "lock" \notin in_use =>
        \A p \in DOMAIN scripts : scripts[p].state \notin {"forked", "running"}

ScriptsOf(event) == {p \in DOMAIN scripts : scripts[p].on = event}

\* However the process ends -- quit, timed out, by a signal, or by the exit() of the
\* Spice server -- each connection was announced once, and each end of one as well.
EveryEndIsAnnounced ==
    pc = "over" =>
        /\ options.on_connect => Cardinality(ScriptsOf("connect")) = viewers
        /\ options.on_disconnect => Cardinality(ScriptsOf("disconnect")) = viewers

\* The step of main() that makes a thread, and whose flag has it ended again
StartedBy(thread) == IF thread = "worker" THEN "spice_started" ELSE "session_started"

\* The display and session->lock go after the threads that use them, and after a failure
\* too: only a step that fails itself may leave behind the thread it had made.
ThreadsEndFirst ==
    \A t \in threads :
        rc = 0 \/ StartedBy(t) \in flags => {"display", "lock"} \subseteq in_use

\* Once a viewer has connected the timeout is no longer armed, so it cannot end the
\* session that it has -- unless the label's allocation failed.
TimeoutStrikesAlone ==
    timer /\ viewers > 0 => failures > 0

\* "If no connection is made within the given number of seconds, x11spice will exit"
\* (x11spice.1), SIGTERMs that came too early notwithstanding.
TimeoutEnds ==
    (InMainLoop /\ timer) ~> (pc = "over" \/ viewers > 0)
=============================================================================
