-------------------------- MODULE LifecycleProofs --------------------------
(***************************************************************************)
(* Proofs about Lifecycle, for any number of viewers, signals and failures *)
(* of one run of x11spice.                                                 *)
(***************************************************************************)
EXTENDS Lifecycle, FiniteSetTheorems, TLAPS

-----------------------------------------------------------------------------
(* Scripts *)

Script == [on : {"connect", "disconnect"}, state : DOMAIN Cleanup]

Pids == {connect_pid, disconnect_pid} \ {0}

\* Nothing runs but what a pid stands for, and the two pids are of scripts of their kind.
ScriptsRight ==
    /\ scripts \in Seq(Script)
    /\ connect_pid \in 0..Len(scripts) /\ disconnect_pid \in 0..Len(scripts)
    /\ PidsAreChildren
    /\ connect_pid # 0 => scripts[connect_pid].on = "connect"
    /\ disconnect_pid # 0 => scripts[disconnect_pid].on = "disconnect"
    /\ \A p \in DOMAIN scripts : scripts[p].state \in {"forked", "running"} => p \in Pids

LEMMA CleanupEnds ==
    /\ DOMAIN Cleanup = {"forked", "running", "ended", "reaped", "killed", "escaped"}
    /\ \A s \in DOMAIN Cleanup : Cleanup[s] \in DOMAIN Cleanup \ {"forked", "running"}
  BY DEF Cleanup

LEMMA CleanedScripts ==
    ASSUME NEW procs \in Seq(Script), NEW pid \in 0..Len(procs)
    PROVE  /\ Cleaned(procs, pid) \in Seq(Script)
           /\ Len(Cleaned(procs, pid)) = Len(procs)
           /\ \A p \in 1..Len(procs) :
                /\ Cleaned(procs, pid)[p].on = procs[p].on
                /\ p # pid => Cleaned(procs, pid)[p] = procs[p]
                /\ p = pid => Cleaned(procs, pid)[p].state \notin {"forked", "running"}
<1>1. CASE pid = 0
  BY <1>1 DEF Cleaned
<1>2. CASE pid # 0
  <2>1. pid \in 1..Len(procs) /\ procs[pid] \in Script
    BY <1>2
  <2>2. Cleaned(procs, pid) = [procs EXCEPT ![pid].state = Cleanup[@]]
    BY <1>2 DEF Cleaned
  <2> DEFINE gone == [procs[pid] EXCEPT !.state = Cleanup[@]]
  <2>3. procs[pid].state \in DOMAIN Cleanup
    BY <2>1 DEF Script
  <2>4. gone \in Script /\ gone.on = procs[pid].on /\ gone.state \notin {"forked", "running"}
    BY <2>1, <2>3, CleanupEnds DEF Script
  <2>5. Cleaned(procs, pid) = [procs EXCEPT ![pid] = gone]
    BY <2>2
  <2> HIDE DEF gone
  <2> QED
    BY <2>1, <2>4, <2>5
<1> QED
  BY <1>1, <1>2

LEMMA AppendedScripts ==
    ASSUME NEW procs \in Seq(Script), NEW kind \in {"connect", "disconnect"}
    PROVE  LET new == [on |-> kind, state |-> "forked"]
           IN /\ Append(procs, new) \in Seq(Script)
              /\ Len(Append(procs, new)) = Len(procs) + 1
              /\ \A p \in 1..Len(procs) : Append(procs, new)[p] = procs[p]
              /\ Append(procs, new)[Len(procs) + 1] = new
<1> DEFINE new == [on |-> kind, state |-> "forked"]
<1>1. new \in Script
  BY CleanupEnds DEF Script
<1> HIDE DEF new
<1>2. /\ Append(procs, new) \in Seq(Script)
      /\ Len(Append(procs, new)) = Len(procs) + 1
      /\ \A p \in 1..Len(procs) : Append(procs, new)[p] = procs[p]
      /\ Append(procs, new)[Len(procs) + 1] = new
  BY <1>1
<1> QED
  BY <1>2 DEF new

\* One more script of a kind, none of the other
Announces(kind) ==
    /\ Cardinality(ScriptsOf(kind)') = Cardinality(ScriptsOf(kind)) + 1
    /\ \A other \in {"connect", "disconnect"} \ {kind} :
          Cardinality(ScriptsOf(other)') = Cardinality(ScriptsOf(other))

LEMMA CountedScripts ==
    ASSUME NEW kind \in {"connect", "disconnect"}, scripts \in Seq(Script),
           scripts' \in Seq(Script), Len(scripts') = Len(scripts) + 1,
           \A p \in 1..Len(scripts) : scripts'[p].on = scripts[p].on,
           scripts'[Len(scripts) + 1].on = kind
    PROVE  Announces(kind)
<1> DEFINE n == Len(scripts)
<1>1. n \in Nat /\ DOMAIN scripts = 1..n /\ DOMAIN scripts' = 1..(n + 1)
  OBVIOUS
<1>2. \A k \in {"connect", "disconnect"} :
         ScriptsOf(k)' = IF k = kind THEN ScriptsOf(k) \cup {n + 1} ELSE ScriptsOf(k)
  <2> SUFFICES ASSUME NEW k \in {"connect", "disconnect"}
               PROVE  ScriptsOf(k)' = IF k = kind THEN ScriptsOf(k) \cup {n + 1} ELSE ScriptsOf(k)
    OBVIOUS
  <2>1. ScriptsOf(k) = {p \in 1..n : scripts[p].on = k}
    BY <1>1 DEF ScriptsOf
  <2>2. ScriptsOf(k)' = {p \in 1..(n + 1) : scripts'[p].on = k}
    BY <1>1 DEF ScriptsOf
  <2>3. 1..(n + 1) = 1..n \cup {n + 1}
    BY <1>1
  <2> HIDE DEF n
  <2>4. scripts'[n + 1].on = kind /\ \A p \in 1..n : scripts'[p].on = scripts[p].on
    BY DEF n
  <2> QED
    BY <2>1, <2>2, <2>3, <2>4
<1>3. \A k \in {"connect", "disconnect"} : IsFiniteSet(ScriptsOf(k)) /\ n + 1 \notin ScriptsOf(k)
  <2> SUFFICES ASSUME NEW k \in {"connect", "disconnect"}
               PROVE  IsFiniteSet(ScriptsOf(k)) /\ n + 1 \notin ScriptsOf(k)
    OBVIOUS
  <2>1. ScriptsOf(k) \subseteq 1..n
    BY <1>1 DEF ScriptsOf
  <2>2. IsFiniteSet(1..n)
    <3> n \in Int /\ 1 \in Int
      BY <1>1
    <3> HIDE DEF n
    <3> QED
      BY FS_Interval
  <2>3. n + 1 \notin 1..n
    BY <1>1
  <2> QED
    BY <2>1, <2>2, <2>3, FS_Subset
<1>4. Cardinality(ScriptsOf(kind) \cup {n + 1}) = Cardinality(ScriptsOf(kind)) + 1
  BY <1>3, FS_AddElement
<1> HIDE DEF n
<1> QED
  BY <1>2, <1>4 DEF Announces

LEMMA ConnectScript ==
    ASSUME ScriptsRight, InvokeOnConnect
    PROVE  ScriptsRight' /\ Announces("connect")
<1> DEFINE procs == Cleaned(scripts, connect_pid)
<1>1. scripts \in Seq(Script) /\ connect_pid \in 0..Len(scripts)
  BY DEF ScriptsRight
<1>2. /\ scripts' = Append(procs, [on |-> "connect", state |-> "forked"])
      /\ connect_pid' = Len(scripts') /\ disconnect_pid' = disconnect_pid
  BY DEF InvokeOnConnect
<1>3. /\ procs \in Seq(Script) /\ Len(procs) = Len(scripts)
      /\ \A p \in 1..Len(scripts) :
           /\ procs[p].on = scripts[p].on
           /\ p # connect_pid => procs[p] = scripts[p]
           /\ p = connect_pid => procs[p].state \notin {"forked", "running"}
  BY <1>1, CleanedScripts
<1> HIDE DEF procs
<1>4. /\ scripts' \in Seq(Script) /\ Len(scripts') = Len(scripts) + 1
      /\ \A p \in 1..Len(scripts) : scripts'[p] = procs[p]
      /\ scripts'[Len(scripts) + 1] = [on |-> "connect", state |-> "forked"]
  BY <1>2, <1>3, AppendedScripts
<1>5. Announces("connect")
  BY <1>1, <1>3, <1>4, CountedScripts
<1>6. connect_pid' = Len(scripts) + 1 /\ Len(scripts) \in Nat
  BY <1>1, <1>2, <1>4
<1>7. disconnect_pid \in 0..Len(scripts) /\ disconnect_pid \in 0..(Len(scripts) + 1)
  BY <1>6 DEF ScriptsRight
<1>8. disconnect_pid # 0 => /\ scripts'[disconnect_pid] = scripts[disconnect_pid]
                            /\ scripts[disconnect_pid].on = "disconnect"
                            /\ scripts[disconnect_pid].state \in {"forked", "running", "ended"}
  <2> SUFFICES ASSUME disconnect_pid # 0
               PROVE  /\ scripts'[disconnect_pid] = scripts[disconnect_pid]
                      /\ scripts[disconnect_pid].on = "disconnect"
                      /\ scripts[disconnect_pid].state \in {"forked", "running", "ended"}
    OBVIOUS
  <2>1. disconnect_pid \in 1..Len(scripts)
    BY <1>7
  <2>2. /\ scripts[disconnect_pid].on = "disconnect"
        /\ scripts[disconnect_pid].state \in {"forked", "running", "ended"}
    BY DEF ScriptsRight, PidsAreChildren
  <2>3. connect_pid # disconnect_pid
    BY <2>2 DEF ScriptsRight
  <2> QED
    BY <1>3, <1>4, <2>1, <2>2, <2>3
<1>9. PidsAreChildren'
  <2>1. scripts'[connect_pid'].state = "forked"
    BY <1>4, <1>6
  <2>2. disconnect_pid' # 0 => scripts'[disconnect_pid'].state \in {"forked", "running", "ended"}
    BY <1>2, <1>8
  <2> QED
    BY <2>1, <2>2 DEF PidsAreChildren
<1>10. \A p \in DOMAIN scripts' : scripts'[p].state \in {"forked", "running"} => p \in Pids'
  <2> SUFFICES ASSUME NEW p \in 1..(Len(scripts) + 1), scripts'[p].state \in {"forked", "running"}
               PROVE  p \in Pids'
    BY <1>4
  <2>1. CASE p = Len(scripts) + 1
    BY <1>6, <2>1 DEF Pids
  <2>2. CASE p # Len(scripts) + 1
    <3>1. p \in 1..Len(scripts)
      BY <1>6, <2>2
    <3>2. p # connect_pid /\ scripts[p].state \in {"forked", "running"}
      BY <1>3, <1>4, <3>1
    <3>3. p \in Pids
      BY <3>1, <3>2 DEF ScriptsRight
    <3> QED
      BY <1>2, <3>2, <3>3 DEF Pids
  <2> QED
    BY <2>1, <2>2
<1>11. ScriptsRight'
  BY <1>2, <1>4, <1>6, <1>7, <1>8, <1>9, <1>10 DEF ScriptsRight
<1> QED
  BY <1>5, <1>11

\* Both scripts are cleaned up.
LEMMA BothCleaned ==
    ASSUME ScriptsRight
    PROVE  LET procs == Cleaned(Cleaned(scripts, connect_pid), disconnect_pid)
           IN /\ procs \in Seq(Script) /\ Len(procs) = Len(scripts)
              /\ \A p \in 1..Len(scripts) :
                   /\ procs[p].on = scripts[p].on
                   /\ procs[p].state \notin {"forked", "running"}
<1> DEFINE first == Cleaned(scripts, connect_pid)
           procs == Cleaned(first, disconnect_pid)
<1>1. /\ scripts \in Seq(Script) /\ connect_pid \in 0..Len(scripts)
      /\ disconnect_pid \in 0..Len(scripts)
  BY DEF ScriptsRight
<1>2. /\ first \in Seq(Script) /\ Len(first) = Len(scripts)
      /\ \A p \in 1..Len(scripts) :
           /\ first[p].on = scripts[p].on
           /\ p # connect_pid => first[p] = scripts[p]
           /\ p = connect_pid => first[p].state \notin {"forked", "running"}
  BY <1>1, CleanedScripts
<1> HIDE DEF first
<1>3. /\ procs \in Seq(Script) /\ Len(procs) = Len(first)
      /\ \A p \in 1..Len(first) :
           /\ procs[p].on = first[p].on
           /\ p # disconnect_pid => procs[p] = first[p]
           /\ p = disconnect_pid => procs[p].state \notin {"forked", "running"}
  BY <1>1, <1>2, CleanedScripts
<1> HIDE DEF procs
<1>4. ASSUME NEW p \in 1..Len(scripts)
      PROVE  procs[p].on = scripts[p].on /\ procs[p].state \notin {"forked", "running"}
  <2>1. procs[p].on = scripts[p].on
    BY <1>2, <1>3
  <2>2. CASE p \in {connect_pid, disconnect_pid}
    BY <1>2, <1>3, <2>2
  <2>3. CASE p \notin {connect_pid, disconnect_pid}
    <3>1. procs[p] = scripts[p] /\ p \in DOMAIN scripts
      BY <1>1, <1>2, <1>3, <2>3
    <3>2. scripts[p].state \notin {"forked", "running"}
      BY <2>3, <3>1 DEF ScriptsRight, Pids
    <3> QED
      BY <2>1, <3>1, <3>2
  <2> QED
    BY <2>1, <2>2, <2>3
<1>5. /\ procs \in Seq(Script) /\ Len(procs) = Len(scripts)
      /\ \A p \in 1..Len(scripts) :
           procs[p].on = scripts[p].on /\ procs[p].state \notin {"forked", "running"}
  BY <1>2, <1>3, <1>4
<1> QED
  BY <1>5 DEF procs, first

LEMMA DisconnectScript ==
    ASSUME ScriptsRight, InvokeOnDisconnect
    PROVE  ScriptsRight' /\ Announces("disconnect")
<1> DEFINE procs == Cleaned(Cleaned(scripts, connect_pid), disconnect_pid)
<1>1. scripts \in Seq(Script) /\ Len(scripts) \in Nat
  BY DEF ScriptsRight
<1>2. /\ scripts' = Append(procs, [on |-> "disconnect", state |-> "forked"])
      /\ disconnect_pid' = Len(scripts') /\ connect_pid' = 0
  BY DEF InvokeOnDisconnect
<1>3. /\ procs \in Seq(Script) /\ Len(procs) = Len(scripts)
      /\ \A p \in 1..Len(scripts) :
           procs[p].on = scripts[p].on /\ procs[p].state \notin {"forked", "running"}
  BY BothCleaned
<1> HIDE DEF procs
<1>4. /\ scripts' \in Seq(Script) /\ Len(scripts') = Len(scripts) + 1
      /\ \A p \in 1..Len(scripts) : scripts'[p] = procs[p]
      /\ scripts'[Len(scripts) + 1] = [on |-> "disconnect", state |-> "forked"]
  BY <1>2, <1>3, AppendedScripts
<1>5. Announces("disconnect")
  BY <1>1, <1>3, <1>4, CountedScripts
<1>6. disconnect_pid' = Len(scripts) + 1
  BY <1>2, <1>4
<1>7. PidsAreChildren'
  BY <1>1, <1>2, <1>4, <1>6 DEF PidsAreChildren
<1>8. \A p \in DOMAIN scripts' : scripts'[p].state \in {"forked", "running"} => p \in Pids'
  <2> SUFFICES ASSUME NEW p \in 1..(Len(scripts) + 1), scripts'[p].state \in {"forked", "running"}
               PROVE  p \in Pids'
    BY <1>4
  <2>1. p \notin 1..Len(scripts)
    BY <1>3, <1>4
  <2>2. p = Len(scripts) + 1
    BY <1>1, <2>1
  <2> QED
    BY <1>1, <1>6, <2>2 DEF Pids
<1>9. ScriptsRight'
  BY <1>1, <1>2, <1>4, <1>6, <1>7, <1>8 DEF ScriptsRight
<1> QED
  BY <1>5, <1>9

-----------------------------------------------------------------------------
(* The inductive invariant *)

\* What main() has got, wherever it is on the way up
WayUp ==
    /\ pc \in {"options", "session_create"} => flags = {} /\ in_use = {} /\ threads = {}
    /\ pc = "display_open" =>
          flags = {"session_created"} /\ in_use = {"lock"} /\ threads = {}
    /\ pc = "gui_create" =>
          flags = {"session_created", "display_opened"} /\ in_use = {"lock", "display"}
          /\ threads = {}
    /\ pc \in {"config", "spice_start"} =>
          flags = {"session_created", "display_opened", "gui_created"}
          /\ in_use = {"lock", "display"} /\ threads = {}
    /\ pc \in {"scanner_create", "event_thread"} =>
          flags = {"session_created", "display_opened", "gui_created", "spice_started"}
          /\ in_use = {"lock", "display"}
    /\ pc \in {"handle_sigterm", "atexit", "gui_run", "enter_gtk_main", "gtk_main"} =>
          flags = {"session_created", "display_opened", "gui_created", "spice_started",
                   "session_started"}
          /\ in_use = {"lock", "display"} /\ global_session

Down == {"exit", "spice_end", "display_close", "session_destroy", "exiting", "over"}

\* What is gone, wherever it is on the way down; any error leads there.
WayDown ==
    /\ pc \notin Down => rc = 0
    /\ rc = 0 /\ pc = "exit" =>
          threads = {} \/ ("session_started" \in flags /\ "spice_started" \in flags)
    /\ rc = 0 /\ pc = "spice_end" =>
          threads = {} \/ (threads \subseteq {"worker"} /\ "spice_started" \in flags)
    /\ rc = 0 /\ pc \in {"display_close", "session_destroy"} => threads = {}
    /\ pc \in {"spice_end", "display_close", "session_destroy"} /\ "session_started" \in flags =>
          threads \subseteq {"worker"}
    /\ pc \in {"display_close", "session_destroy"} /\ "spice_started" \in flags =>
          "worker" \notin threads
    /\ ThreadsEndFirst
    /\ pc \in {"spice_end", "display_close", "session_destroy"} => ~global_session
    /\ "session_created" \in flags /\ "lock" \notin in_use =>
          pc \in {"exiting", "over"} /\ ~global_session /\ connect_pid = 0 /\ disconnect_pid = 0

\* When a connection can exist, and that its end will not be missed
Connections ==
    /\ pc \notin Down \cup {"gtk_main"} => viewers = 0 /\ ~viewer /\ ~connected /\ scripts = <<>>
    /\ pc = "gtk_main" => connected = viewer
    /\ global_session => "session_started" \in flags
    /\ pc \in {"atexit", "gui_run", "enter_gtk_main", "gtk_main"} => handler
    /\ pc \in {"gui_run", "enter_gtk_main", "gtk_main"} => at_exit = options.on_disconnect
    /\ connected => global_session /\ handler /\ at_exit = options.on_disconnect
    /\ pc = "over" /\ options.on_disconnect => ~connected

Counts ==
    /\ options.on_connect => Cardinality(ScriptsOf("connect")) = viewers
    /\ options.on_disconnect /\ ~connected => Cardinality(ScriptsOf("disconnect")) = viewers
    /\ options.on_disconnect /\ connected => Cardinality(ScriptsOf("disconnect")) + 1 = viewers

LifeInv ==
    TypeOK /\ WayUp /\ WayDown /\ Connections /\ ScriptsRight /\ Counts /\ TimeoutStrikesAlone

LEMMA FlagsInOrder ==
    FlagsSoFar = {{}, {"session_created"}, {"session_created", "display_opened"},
                  {"session_created", "display_opened", "gui_created"},
                  {"session_created", "display_opened", "gui_created", "spice_started"},
                  {"session_created", "display_opened", "gui_created", "spice_started",
                   "session_started"}}
<1> DEFINE order == <<"session_created", "display_opened", "gui_created", "spice_started",
                      "session_started">>
           First(n) == {order[i] : i \in 1..n}
<1>1. FlagsSoFar = {First(n) : n \in 0..5}
  BY DEF FlagsSoFar
<1>2. /\ First(0) = {} /\ First(1) = {order[1]} /\ First(2) = {order[1], order[2]}
      /\ First(3) = {order[1], order[2], order[3]}
      /\ First(4) = {order[1], order[2], order[3], order[4]}
      /\ First(5) = {order[1], order[2], order[3], order[4], order[5]}
  <2>1. /\ 1..0 = {} /\ 1..1 = {1} /\ 1..2 = {1, 2} /\ 1..3 = {1, 2, 3} /\ 1..4 = {1, 2, 3, 4}
        /\ 1..5 = {1, 2, 3, 4, 5}
    OBVIOUS
  <2> HIDE DEF order
  <2> QED
    BY <2>1
<1>3. 0..5 = {0, 1, 2, 3, 4, 5}
  OBVIOUS
<1>4. /\ order[1] = "session_created" /\ order[2] = "display_opened" /\ order[3] = "gui_created"
      /\ order[4] = "spice_started" /\ order[5] = "session_started"
  OBVIOUS
<1> HIDE DEF order, First
<1>5. FlagsSoFar = {First(0), First(1), First(2), First(3), First(4), First(5)}
  BY <1>1, <1>3
<1> QED
  BY <1>2, <1>4, <1>5

\* Steps that concern no connection and no script
LEMMA ScriptsStay ==
    ASSUME LifeInv, UNCHANGED <<options, connected, connect_pid, disconnect_pid, scripts, viewers>>
    PROVE  ScriptsRight' /\ Counts'
<1>1. ScriptsRight /\ Counts
  BY DEF LifeInv
<1>2. ScriptsRight'
  BY <1>1 DEF ScriptsRight, PidsAreChildren, Pids
<1>3. ScriptsOf("connect")' = ScriptsOf("connect") /\ ScriptsOf("disconnect")' = ScriptsOf("disconnect")
  BY DEF ScriptsOf
<1> QED
  BY <1>1, <1>2, <1>3 DEF Counts

LEMMA InitLife == Init => LifeInv
<1> SUFFICES ASSUME Init PROVE LifeInv
  OBVIOUS
<1>1. /\ options \in Options /\ pc = "options" /\ rc = 0 /\ flags = {} /\ threads = {} /\ in_use = {}
      /\ status = "running" /\ handler = FALSE /\ at_exit = FALSE
      /\ window = FALSE /\ cached_gui = FALSE /\ quit = FALSE /\ timer = FALSE
      /\ global_session = FALSE /\ connected = FALSE
      /\ connect_pid = 0 /\ disconnect_pid = 0 /\ scripts = <<>>
      /\ viewer = FALSE /\ viewers = 0 /\ signals = 0 /\ failures = 0
  BY DEF Init
<1>2. <<>> \in Seq(Script) /\ Len(<<>>) = 0
  OBVIOUS
<1>3. TypeOK
  <2>1. viewers \in 0..MaxViewers /\ signals \in 0..MaxSignals /\ failures \in 0..MaxFailures
    BY <1>1, LifecycleAssumption
  <2>2. flags \in FlagsSoFar
    BY <1>1, FlagsInOrder
  <2>3. scripts \in Seq(Script) /\ connect_pid \in 0..Len(scripts) /\ disconnect_pid \in 0..Len(scripts)
    BY <1>1, <1>2
  <2> QED
    BY <1>1, <2>1, <2>2, <2>3 DEF TypeOK, Script
<1>4. ScriptsRight
  BY <1>1, <1>2 DEF ScriptsRight, PidsAreChildren
<1>5. Counts
  <2>1. ScriptsOf("connect") = {} /\ ScriptsOf("disconnect") = {}
    BY <1>1 DEF ScriptsOf
  <2> QED
    <3>1. Cardinality({}) = 0
      BY FS_EmptySet
    <3> QED
      BY <1>1, <2>1, <3>1 DEF Counts
<1>6. WayUp /\ WayDown /\ Connections /\ TimeoutStrikesAlone
  BY <1>1 DEF WayUp, WayDown, Connections, TimeoutStrikesAlone, ThreadsEndFirst, StartedBy, Down
<1> QED
  BY <1>3, <1>4, <1>5, <1>6 DEF LifeInv

-----------------------------------------------------------------------------
(* Up *)

LEMMA StartUpLife == LifeInv /\ StartUp => LifeInv'
<1> SUFFICES ASSUME LifeInv, StartUp PROVE LifeInv'
  OBVIOUS
<1>1. TypeOK /\ WayUp /\ WayDown /\ Connections
  BY DEF LifeInv
<1>2. /\ UNCHANGED <<options, rc, threads, status, handler, at_exit, cached_gui, quit,
                     global_session, connected, connect_pid, disconnect_pid, scripts,
                     viewer, viewers, signals, failures>>
      /\ window' \in BOOLEAN /\ timer' \in BOOLEAN
      /\ \/ /\ pc = "options" /\ pc' = "session_create"
            /\ flags' = flags /\ in_use' = in_use
         \/ /\ pc = "session_create" /\ pc' = "display_open"
            /\ flags' = flags \cup {"session_created"} /\ in_use' = in_use \cup {"lock"}
         \/ /\ pc = "display_open" /\ pc' = "gui_create"
            /\ flags' = flags \cup {"display_opened"} /\ in_use' = in_use \cup {"display"}
         \/ /\ pc = "gui_create" /\ pc' = "config"
            /\ flags' = flags \cup {"gui_created"} /\ in_use' = in_use
  BY <1>1 DEF StartUp, StartStep, sessionVars, worldVars, TypeOK, Options
<1>3. WayUp'
  BY <1>1, <1>2 DEF WayUp
<1>4. TypeOK'
  <2>1. flags' \in FlagsSoFar /\ in_use' \subseteq {"display", "lock"}
    BY <1>1, <1>2, FlagsInOrder DEF WayUp
  <2> QED
    BY <1>1, <1>2, <2>1 DEF TypeOK
<1>5. WayDown'
  BY <1>1, <1>2, <1>3 DEF WayUp, WayDown, ThreadsEndFirst, StartedBy, Down
<1>6. Connections' /\ TimeoutStrikesAlone'
  BY <1>1, <1>2, <1>3 DEF WayUp, Connections, TimeoutStrikesAlone, Down, TypeOK
<1>7. ScriptsRight' /\ Counts'
  BY <1>2, ScriptsStay
<1> QED
  BY <1>3, <1>4, <1>5, <1>6, <1>7 DEF LifeInv

LEMMA StartUpFailsLife == LifeInv /\ StartUpFails => LifeInv'
<1> SUFFICES ASSUME LifeInv, StartUpFails PROVE LifeInv'
  OBVIOUS
<1>1. TypeOK /\ WayUp /\ WayDown /\ Connections /\ TimeoutStrikesAlone
  BY DEF LifeInv
<1>2. /\ UNCHANGED <<options, flags, in_use, status, handler, at_exit, window, cached_gui, quit,
                     timer, global_session, connected, connect_pid, disconnect_pid, scripts,
                     viewer, viewers, signals>>
      /\ rc' = 1 /\ pc' = "exit"
      /\ pc \in {"options", "session_create", "display_open", "gui_create", "spice_start"}
      /\ threads' \in {threads, {}, {"worker"}}
      /\ failures < MaxFailures /\ failures' = failures + 1
  BY DEF StartUpFails, Fail, guiVars, sessionVars
<1>3. TypeOK'
  <2>1. failures' \in 0..MaxFailures
    BY <1>1, <1>2, LifecycleAssumption DEF TypeOK
  <2> QED
    BY <1>1, <1>2, <2>1 DEF TypeOK
<1>4. WayUp'
  BY <1>2 DEF WayUp
<1>5. WayDown'
  BY <1>1, <1>2 DEF WayUp, WayDown, ThreadsEndFirst, StartedBy, Down
<1>6. Connections' /\ TimeoutStrikesAlone'
  BY <1>1, <1>2 DEF Connections, TimeoutStrikesAlone, Down
<1>7. ScriptsRight' /\ Counts'
  BY <1>2, ScriptsStay
<1> QED
  BY <1>3, <1>4, <1>5, <1>6, <1>7 DEF LifeInv

LEMMA CheckConfigLife == LifeInv /\ CheckConfig => LifeInv'
<1> SUFFICES ASSUME LifeInv, CheckConfig PROVE LifeInv'
  OBVIOUS
<1>1. TypeOK /\ WayUp /\ WayDown /\ Connections /\ TimeoutStrikesAlone
  BY DEF LifeInv
<1>2. /\ UNCHANGED <<options, rc, flags, threads, in_use, status, handler, at_exit, window,
                     cached_gui, quit, timer, global_session, connected, connect_pid,
                     disconnect_pid, scripts, viewer, viewers, signals, failures>>
      /\ pc = "config" /\ pc' \in {"exit", "spice_start"}
  BY DEF CheckConfig, guiVars, sessionVars, worldVars
<1>3. TypeOK'
  BY <1>1, <1>2 DEF TypeOK
<1>4. WayUp'
  BY <1>1, <1>2 DEF WayUp
<1>5. WayDown'
  BY <1>1, <1>2 DEF WayUp, WayDown, ThreadsEndFirst, StartedBy, Down
<1>6. Connections' /\ TimeoutStrikesAlone'
  BY <1>1, <1>2 DEF Connections, TimeoutStrikesAlone, Down
<1>7. ScriptsRight' /\ Counts'
  BY <1>2, ScriptsStay
<1> QED
  BY <1>3, <1>4, <1>5, <1>6, <1>7 DEF LifeInv

\* spice_start and session_start, which start the threads
LEMMA ThreadsLife == LifeInv /\ (SpiceStart \/ SessionStart) => LifeInv'
<1> SUFFICES ASSUME LifeInv, SpiceStart \/ SessionStart PROVE LifeInv'
  OBVIOUS
<1>1. TypeOK /\ WayUp /\ WayDown /\ Connections /\ TimeoutStrikesAlone
  BY DEF LifeInv
<1>2. /\ UNCHANGED <<options, rc, in_use, status, handler, at_exit, window, cached_gui, quit,
                     timer, connected, connect_pid, disconnect_pid, scripts, viewer, viewers,
                     signals, failures>>
      /\ \/ /\ pc = "spice_start" /\ pc' = "scanner_create"
            /\ flags' = flags \cup {"spice_started"} /\ threads' = threads \cup {"worker"}
            /\ UNCHANGED global_session
         \/ /\ pc = "scanner_create" /\ pc' = "event_thread"
            /\ flags' = flags /\ threads' = threads \cup {"scanner"}
            /\ UNCHANGED global_session
         \/ /\ pc = "event_thread" /\ pc' = "handle_sigterm"
            /\ flags' = flags \cup {"session_started"} /\ threads' = threads \cup {"events"}
            /\ global_session' = TRUE
  BY DEF SpiceStart, SessionStart, guiVars, sessionVars, worldVars
<1>3. WayUp'
  BY <1>1, <1>2 DEF WayUp
<1>4. TypeOK'
  <2>1. flags' \in FlagsSoFar
    BY <1>1, <1>2, FlagsInOrder DEF WayUp
  <2>2. threads' \subseteq {"scanner", "events", "worker"}
    BY <1>1, <1>2 DEF TypeOK
  <2>3. /\ pc' \in {"scanner_create", "event_thread", "handle_sigterm"} /\ pc # "over"
        /\ global_session' \in BOOLEAN
    BY <1>1, <1>2 DEF TypeOK
  <2>4. UNCHANGED <<options, rc, in_use, status, handler, at_exit, window, cached_gui, quit,
                    timer, connected, connect_pid, disconnect_pid, scripts, viewer, viewers,
                    signals, failures>>
    BY <1>2
  <2> QED
    BY <1>1, <2>1, <2>2, <2>3, <2>4 DEF TypeOK
<1>5. WayDown'
  BY <1>1, <1>2, <1>3 DEF WayUp, WayDown, ThreadsEndFirst, StartedBy, Down
<1>6. Connections' /\ TimeoutStrikesAlone'
  BY <1>1, <1>2, <1>3 DEF WayUp, Connections, TimeoutStrikesAlone, Down
<1>7. ScriptsRight' /\ Counts'
  BY <1>2, ScriptsStay
<1> QED
  BY <1>3, <1>4, <1>5, <1>6, <1>7 DEF LifeInv

LEMMA SessionStartFailsLife == LifeInv /\ SessionStartFails => LifeInv'
<1> SUFFICES ASSUME LifeInv, SessionStartFails PROVE LifeInv'
  OBVIOUS
<1>1. TypeOK /\ WayUp /\ WayDown /\ Connections /\ TimeoutStrikesAlone
  BY DEF LifeInv
<1>2. /\ UNCHANGED <<options, flags, threads, in_use, handler, at_exit, window, cached_gui, quit,
                     timer, global_session, connected, connect_pid, disconnect_pid, scripts,
                     viewer, viewers, signals>>
      /\ rc' = 1 /\ pc \in {"scanner_create", "event_thread"}
      /\ \/ pc' = "exit" /\ status' = status
         \/ pc' = "over" /\ status' = "crashed"
      /\ failures < MaxFailures /\ failures' = failures + 1
  BY DEF SessionStartFails, Fail, guiVars, sessionVars
<1>3. TypeOK'
  <2>1. failures' \in 0..MaxFailures
    BY <1>1, <1>2, LifecycleAssumption DEF TypeOK
  <2> QED
    BY <1>1, <1>2, <2>1 DEF TypeOK
<1>4. WayUp'
  BY <1>2 DEF WayUp
<1>5. WayDown'
  BY <1>1, <1>2 DEF WayUp, WayDown, ThreadsEndFirst, StartedBy, Down
<1>6. Connections' /\ TimeoutStrikesAlone'
  BY <1>1, <1>2 DEF Connections, TimeoutStrikesAlone, Down
<1>7. ScriptsRight' /\ Counts'
  BY <1>2, ScriptsStay
<1> QED
  BY <1>3, <1>4, <1>5, <1>6, <1>7 DEF LifeInv

LEMMA PrepareLife == LifeInv /\ Prepare => LifeInv'
<1> SUFFICES ASSUME LifeInv, Prepare PROVE LifeInv'
  OBVIOUS
<1>1. TypeOK /\ WayUp /\ WayDown /\ Connections /\ TimeoutStrikesAlone
  BY DEF LifeInv
<1>2. /\ UNCHANGED <<options, rc, flags, threads, in_use, status, window, quit, timer,
                     global_session, connected, connect_pid, disconnect_pid, scripts,
                     viewer, viewers, signals, failures>>
      /\ cached_gui' \in BOOLEAN
      /\ \/ /\ pc = "handle_sigterm" /\ pc' = "atexit"
            /\ handler' = TRUE /\ at_exit' = at_exit
         \/ /\ pc = "atexit" /\ pc' = "gui_run"
            /\ handler' = handler /\ at_exit' = options.on_disconnect
         \/ /\ pc = "gui_run" /\ pc' = "enter_gtk_main"
            /\ handler' = handler /\ at_exit' = at_exit
         \/ /\ pc = "enter_gtk_main" /\ pc' = "gtk_main"
            /\ handler' = handler /\ at_exit' = at_exit
  BY <1>1 DEF Prepare, sessionVars, worldVars, TypeOK
<1>3. TypeOK'
  <2>1. /\ pc' \in {"atexit", "gui_run", "enter_gtk_main", "gtk_main"} /\ pc # "over"
        /\ handler' \in BOOLEAN
    BY <1>1, <1>2 DEF TypeOK
  <2>2. at_exit' \in BOOLEAN
    BY <1>1, <1>2 DEF TypeOK, Options
  <2>3. UNCHANGED <<options, rc, flags, threads, in_use, status, window, quit, timer,
                    global_session, connected, connect_pid, disconnect_pid, scripts,
                    viewer, viewers, signals, failures>>
    BY <1>2
  <2> QED
    BY <1>1, <1>2, <2>1, <2>2, <2>3 DEF TypeOK
<1>4. WayUp'
  BY <1>1, <1>2 DEF WayUp
<1>5. WayDown'
  BY <1>1, <1>2 DEF WayUp, WayDown, ThreadsEndFirst, StartedBy, Down
<1>6. Connections' /\ TimeoutStrikesAlone'
  <2>1. pc' = "gtk_main" => ~connected /\ ~viewer
    BY <1>1, <1>2 DEF Connections, Down
  <2>2. pc' \in {"gui_run", "enter_gtk_main", "gtk_main"} => at_exit' = options.on_disconnect
    BY <1>1, <1>2 DEF Connections
  <2>3. pc' \in {"atexit", "gui_run", "enter_gtk_main", "gtk_main"} /\ handler'
    BY <1>1, <1>2 DEF Connections
  <2>4. viewers = 0 /\ ~viewer /\ ~connected /\ scripts = <<>>
    BY <1>1, <1>2 DEF Connections, Down
  <2>5. UNCHANGED <<options, flags, timer, global_session, connected, scripts, viewer, viewers,
                    failures>>
    BY <1>2
  <2> QED
    BY <1>1, <2>1, <2>2, <2>3, <2>4, <2>5 DEF Connections, TimeoutStrikesAlone, Down, TypeOK
<1>7. ScriptsRight' /\ Counts'
  BY <1>2, ScriptsStay
<1> QED
  BY <1>3, <1>4, <1>5, <1>6, <1>7 DEF LifeInv

-----------------------------------------------------------------------------
(* The main loop *)

\* gui_run returns, the timeout, the quit button: no thread, flag or connection changes.
LEMMA GuiLife == LifeInv /\ (GuiRunReturns \/ Timeout \/ QuitClicked) => LifeInv'
<1> SUFFICES ASSUME LifeInv, GuiRunReturns \/ Timeout \/ QuitClicked PROVE LifeInv'
  OBVIOUS
<1>1. TypeOK /\ WayUp /\ WayDown /\ Connections /\ TimeoutStrikesAlone
  BY DEF LifeInv
<1>2. /\ UNCHANGED <<options, rc, flags, threads, in_use, status, handler, at_exit,
                     global_session, connected, connect_pid, disconnect_pid, scripts,
                     viewer, viewers, signals, failures>>
      /\ pc = "gtk_main" /\ pc' \in {"gtk_main", "exit"}
      /\ window' \in BOOLEAN /\ cached_gui' \in BOOLEAN /\ quit' \in BOOLEAN
      /\ timer' \in BOOLEAN /\ (timer' => timer)
  <2>1. pc = "gtk_main" /\ pc' \in {"gtk_main", "exit"} /\ (timer' => timer)
    BY DEF GuiRunReturns, Timeout, QuitClicked, InMainLoop
  <2>2. UNCHANGED <<options, startVars, sessionVars, worldVars>>
    BY DEF GuiRunReturns, Timeout, QuitClicked
  <2>3. window' \in BOOLEAN /\ cached_gui' \in BOOLEAN /\ quit' \in BOOLEAN /\ timer' \in BOOLEAN
    <3>1. CASE GuiRunReturns
      BY <1>1, <3>1 DEF GuiRunReturns, TypeOK
    <3>2. CASE Timeout
      BY <1>1, <3>2 DEF Timeout, TypeOK
    <3>3. CASE QuitClicked
      BY <1>1, <3>3 DEF QuitClicked, GuiSigterm, TypeOK
    <3> QED
      BY <3>1, <3>2, <3>3
  <2> QED
    BY <2>1, <2>2, <2>3 DEF startVars, sessionVars, worldVars
<1>3. TypeOK'
  BY <1>1, <1>2 DEF TypeOK
<1>4. WayUp'
  BY <1>1, <1>2 DEF WayUp
<1>5. WayDown'
  BY <1>1, <1>2 DEF WayUp, WayDown, ThreadsEndFirst, StartedBy, Down
<1>6. Connections' /\ TimeoutStrikesAlone'
  BY <1>1, <1>2 DEF Connections, TimeoutStrikesAlone, Down
<1>7. ScriptsRight' /\ Counts'
  BY <1>2, ScriptsStay
<1> QED
  BY <1>3, <1>4, <1>5, <1>6, <1>7 DEF LifeInv

LEMMA SigtermLife == LifeInv /\ Sigterm => LifeInv'
<1> SUFFICES ASSUME LifeInv, Sigterm PROVE LifeInv'
  OBVIOUS
<1>1. TypeOK /\ WayUp /\ WayDown /\ Connections /\ TimeoutStrikesAlone
  BY DEF LifeInv
<1>2. /\ UNCHANGED <<options, rc, flags, threads, in_use, handler, at_exit, window, timer,
                     global_session, connected, connect_pid, disconnect_pid, scripts,
                     viewer, viewers, failures>>
      /\ cached_gui' \in BOOLEAN /\ quit' \in BOOLEAN
      /\ signals < MaxSignals /\ signals' = signals + 1
      /\ \/ handler /\ pc' = pc /\ status' = status
         \/ ~handler /\ pc' = "over" /\ status' = "killed"
  BY <1>1 DEF Sigterm, GuiSigterm, sessionVars, TypeOK
<1>3. TypeOK'
  <2>1. signals' \in 0..MaxSignals
    BY <1>1, <1>2, LifecycleAssumption DEF TypeOK
  <2> QED
    BY <1>1, <1>2, <2>1 DEF TypeOK
<1>4. WayUp'
  BY <1>1, <1>2 DEF WayUp
<1>5. WayDown'
  BY <1>1, <1>2 DEF WayUp, WayDown, ThreadsEndFirst, StartedBy, Down
<1>6. Connections' /\ TimeoutStrikesAlone'
  BY <1>1, <1>2 DEF Connections, TimeoutStrikesAlone, Down
<1>7. ScriptsRight' /\ Counts'
  BY <1>2, ScriptsStay
<1> QED
  BY <1>3, <1>4, <1>5, <1>6, <1>7 DEF LifeInv

LEMMA ViewerConnectsLife == LifeInv /\ ViewerConnects => LifeInv'
<1> SUFFICES ASSUME LifeInv, ViewerConnects PROVE LifeInv'
  OBVIOUS
<1>1. /\ TypeOK /\ WayUp /\ WayDown /\ Connections /\ TimeoutStrikesAlone
      /\ ScriptsRight /\ Counts
  BY DEF LifeInv
<1>2. pc = "gtk_main" /\ global_session /\ ~connected
  BY <1>1 DEF ViewerConnects, InMainLoop, WayUp, Connections
<1>3. /\ UNCHANGED <<options, pc, rc, flags, threads, in_use, status, handler, at_exit, window,
                     cached_gui, quit, global_session, signals>>
      /\ viewer' = TRUE /\ connected' = TRUE
      /\ viewers < MaxViewers /\ viewers' = viewers + 1
      /\ \/ timer' = FALSE /\ failures' = failures
         \/ timer' = timer /\ failures < MaxFailures /\ failures' = failures + 1
  BY <1>2 DEF ViewerConnects, SessionRemoteConnected, Fail, startVars
<1>4. IF options.on_connect THEN InvokeOnConnect ELSE NoScript
  BY <1>2 DEF ViewerConnects, SessionRemoteConnected
<1>5. ScriptsRight' /\ Counts'
  <2>1. CASE options.on_connect
    <3>1. ScriptsRight' /\ Announces("connect")
      BY <1>1, <1>4, <2>1, ConnectScript
    <3>2. /\ Cardinality(ScriptsOf("connect")') = Cardinality(ScriptsOf("connect")) + 1
          /\ Cardinality(ScriptsOf("disconnect")') = Cardinality(ScriptsOf("disconnect"))
      BY <3>1 DEF Announces
    <3>3. Counts'
      BY <1>1, <1>2, <1>3, <2>1, <3>2 DEF Counts
    <3> QED
      BY <3>1, <3>3
  <2>2. CASE ~options.on_connect
    <3>1. UNCHANGED <<connect_pid, disconnect_pid, scripts>>
      BY <1>4, <2>2 DEF NoScript
    <3>2. ScriptsRight'
      BY <1>1, <3>1 DEF ScriptsRight, PidsAreChildren, Pids
    <3>3. ScriptsOf("disconnect")' = ScriptsOf("disconnect")
      BY <3>1 DEF ScriptsOf
    <3>4. Counts'
      BY <1>1, <1>2, <1>3, <2>2, <3>3 DEF Counts
    <3> QED
      BY <3>2, <3>4
  <2> QED
    BY <2>1, <2>2
<1>6. TypeOK'
  <2>1. viewers' \in 0..MaxViewers /\ failures' \in 0..MaxFailures
    BY <1>1, <1>3, LifecycleAssumption DEF TypeOK
  <2>2. timer' \in BOOLEAN
    BY <1>1, <1>3 DEF TypeOK
  <2> QED
    BY <1>1, <1>3, <1>5, <2>1, <2>2 DEF TypeOK, ScriptsRight, Script
<1>7. WayUp'
  BY <1>1, <1>3 DEF WayUp
<1>8. WayDown'
  BY <1>1, <1>2, <1>3 DEF WayUp, WayDown, ThreadsEndFirst, StartedBy, Down
<1>9. Connections'
  BY <1>1, <1>2, <1>3 DEF Connections, Down
<1>10. TimeoutStrikesAlone'
  BY <1>1, <1>3 DEF TimeoutStrikesAlone, TypeOK
<1> QED
  BY <1>5, <1>6, <1>7, <1>8, <1>9, <1>10 DEF LifeInv

\* The end of a connection is announced, while there is a session.
LEMMA DisconnectLife ==
    ASSUME LifeInv, SessionRemoteDisconnected, UNCHANGED <<options, viewers>>
    PROVE  ScriptsRight' /\ Counts' /\ connected' = FALSE
<1>1. ScriptsRight /\ Counts /\ Connections /\ connected \in BOOLEAN
  BY DEF LifeInv, TypeOK
<1>2. CASE connected /\ options.on_disconnect
  <2>1. connected' = FALSE /\ InvokeOnDisconnect
    BY <1>1, <1>2 DEF SessionRemoteDisconnected, Connections
  <2>2. ScriptsRight' /\ Announces("disconnect")
    BY <1>1, <2>1, DisconnectScript
  <2>3. /\ Cardinality(ScriptsOf("disconnect")') = Cardinality(ScriptsOf("disconnect")) + 1
        /\ Cardinality(ScriptsOf("connect")') = Cardinality(ScriptsOf("connect"))
    BY <2>2 DEF Announces
  <2>4. Counts'
    BY <1>1, <1>2, <2>1, <2>3 DEF Counts
  <2> QED
    BY <2>1, <2>2, <2>4
<1>3. CASE ~(connected /\ options.on_disconnect)
  <2>1. /\ connected' = FALSE
        /\ UNCHANGED <<connect_pid, disconnect_pid, scripts>>
    BY <1>1, <1>3 DEF SessionRemoteDisconnected, Connections, NoScript
  <2>2. ScriptsRight'
    BY <1>1, <2>1 DEF ScriptsRight, PidsAreChildren, Pids
  <2>3. ScriptsOf("connect")' = ScriptsOf("connect") /\ ScriptsOf("disconnect")' = ScriptsOf("disconnect")
    BY <2>1 DEF ScriptsOf
  <2>4. Counts'
    BY <1>1, <1>3, <2>1, <2>3 DEF Counts
  <2> QED
    BY <2>1, <2>2, <2>4
<1> QED
  BY <1>2, <1>3

LEMMA ViewerGoesLife == LifeInv /\ (ViewerDisconnects \/ ServerExits) => LifeInv'
<1> SUFFICES ASSUME LifeInv, ViewerDisconnects \/ ServerExits PROVE LifeInv'
  OBVIOUS
<1>1. /\ TypeOK /\ WayUp /\ WayDown /\ Connections /\ TimeoutStrikesAlone
      /\ ScriptsRight /\ Counts
  BY DEF LifeInv
<1>2. /\ UNCHANGED <<options, rc, flags, threads, in_use, status, handler, at_exit, window,
                     cached_gui, quit, timer, global_session, viewers, signals, failures>>
      /\ pc = "gtk_main" /\ viewer /\ viewer' = FALSE
      /\ pc' \in {"gtk_main", "exiting"}
      /\ \/ SessionRemoteDisconnected
         \/ /\ UNCHANGED <<connected, connect_pid, disconnect_pid, scripts>>
            /\ pc' = "exiting"
  BY DEF ViewerDisconnects, ServerExits, InMainLoop, startVars, guiVars, sessionVars
<1>3. /\ ScriptsRight' /\ Counts' /\ connected' \in BOOLEAN
      /\ connected' => connected /\ pc' = "exiting"
  <2>1. CASE SessionRemoteDisconnected
    BY <1>2, <2>1, DisconnectLife
  <2>2. CASE UNCHANGED <<connected, connect_pid, disconnect_pid, scripts>> /\ pc' = "exiting"
    BY <1>1, <1>2, <2>2, ScriptsStay DEF TypeOK
  <2> QED
    BY <1>2, <2>1, <2>2
<1>4. TypeOK'
  BY <1>1, <1>2, <1>3 DEF TypeOK, ScriptsRight, Script
<1>5. WayUp'
  BY <1>1, <1>2 DEF WayUp
<1>6. WayDown'
  BY <1>1, <1>2 DEF WayUp, WayDown, ThreadsEndFirst, StartedBy, Down
<1>7. Connections' /\ TimeoutStrikesAlone'
  BY <1>1, <1>2, <1>3 DEF Connections, TimeoutStrikesAlone, Down
<1> QED
  BY <1>3, <1>4, <1>5, <1>6, <1>7 DEF LifeInv

\* A script starts or comes to its end.
LEMMA ScriptRunsLife == LifeInv /\ ScriptRuns => LifeInv'
<1> SUFFICES ASSUME LifeInv, ScriptRuns PROVE LifeInv'
  OBVIOUS
<1>1. /\ TypeOK /\ WayUp /\ WayDown /\ Connections /\ TimeoutStrikesAlone
      /\ ScriptsRight /\ Counts
  BY DEF LifeInv
<1>2. UNCHANGED <<options, pc, rc, flags, threads, in_use, status, handler, at_exit, window,
                  cached_gui, quit, timer, global_session, connected, connect_pid,
                  disconnect_pid, viewer, viewers, signals, failures>>
  BY DEF ScriptRuns, startVars, guiVars, worldVars
<1>3. PICK p \in DOMAIN scripts :
         /\ scripts[p].state \in {"forked", "running"}
         /\ scripts' = [scripts EXCEPT ![p].state = IF @ = "forked" THEN "running" ELSE "ended"]
  BY DEF ScriptRuns
<1> DEFINE new == [scripts[p] EXCEPT !.state = IF @ = "forked" THEN "running" ELSE "ended"]
<1>4. scripts \in Seq(Script) /\ scripts[p] \in Script /\ DOMAIN scripts = 1..Len(scripts)
  BY <1>1, <1>3 DEF ScriptsRight
<1>5. new \in Script /\ new.on = scripts[p].on /\ new.state \in {"running", "ended"}
  BY <1>4, CleanupEnds DEF Script
<1>6. scripts' = [scripts EXCEPT ![p] = new]
  BY <1>3
<1> HIDE DEF new
<1>7. /\ scripts' \in Seq(Script) /\ Len(scripts') = Len(scripts) /\ DOMAIN scripts' = DOMAIN scripts
      /\ \A q \in DOMAIN scripts : scripts'[q] = IF q = p THEN new ELSE scripts[q]
  BY <1>3, <1>4, <1>5, <1>6
<1>8. \A k \in {"connect", "disconnect"} : ScriptsOf(k)' = ScriptsOf(k)
  BY <1>5, <1>7 DEF ScriptsOf
<1>9. p \in Pids
  BY <1>1, <1>3 DEF ScriptsRight
<1>10. PidsAreChildren'
  <2> SUFFICES ASSUME NEW q \in Pids PROVE scripts'[q].state \in {"forked", "running", "ended"}
    BY <1>2 DEF PidsAreChildren, Pids
  <2>1. q \in DOMAIN scripts
    BY <1>1, <1>4 DEF Pids, ScriptsRight
  <2>2. scripts[q].state \in {"forked", "running", "ended"}
    BY <1>1 DEF ScriptsRight, PidsAreChildren, Pids
  <2> QED
    BY <1>5, <1>7, <2>1, <2>2
<1>11. \A q \in DOMAIN scripts' : scripts'[q].state \in {"forked", "running"} => q \in Pids'
  <2>1. Pids' = Pids
    BY <1>2 DEF Pids
  <2> QED
    BY <1>1, <1>7, <1>9, <2>1 DEF ScriptsRight
<1>12. /\ connect_pid # 0 => scripts'[connect_pid].on = "connect"
       /\ disconnect_pid # 0 => scripts'[disconnect_pid].on = "disconnect"
  BY <1>1, <1>4, <1>5, <1>7 DEF ScriptsRight
<1>13. ScriptsRight'
  BY <1>1, <1>2, <1>7, <1>10, <1>11, <1>12 DEF ScriptsRight
<1>14. Counts'
  BY <1>1, <1>2, <1>8 DEF Counts
<1>15. TypeOK' /\ WayUp' /\ WayDown' /\ TimeoutStrikesAlone'
  BY <1>1, <1>2, <1>13 DEF TypeOK, WayUp, WayDown, ThreadsEndFirst, TimeoutStrikesAlone,
                           ScriptsRight, Script
<1>16. Connections'
  <2>1. scripts # <<>>
    BY <1>3
  <2> QED
    BY <1>1, <1>2, <2>1 DEF Connections
<1> QED
  BY <1>13, <1>14, <1>15, <1>16 DEF LifeInv

-----------------------------------------------------------------------------
(* Down *)

LEMMA SessionEndLife == LifeInv /\ SessionEnd => LifeInv'
<1> SUFFICES ASSUME LifeInv, SessionEnd PROVE LifeInv'
  OBVIOUS
<1>1. /\ TypeOK /\ WayUp /\ WayDown /\ Connections /\ TimeoutStrikesAlone
      /\ ScriptsRight /\ Counts
  BY DEF LifeInv
<1>2. /\ UNCHANGED <<options, rc, flags, in_use, status, handler, at_exit, window, cached_gui,
                     quit, timer, viewer, viewers, signals, failures>>
      /\ pc = "exit" /\ pc' = "spice_end"
  BY DEF SessionEnd, guiVars, worldVars
<1>3. /\ ScriptsRight' /\ Counts' /\ connected' = FALSE /\ global_session' = FALSE
      /\ "session_started" \in flags => threads' = threads \ {"events", "scanner"}
      /\ "session_started" \notin flags => threads' = threads
  <2>1. CASE "session_started" \in flags
    BY <1>2, <2>1, DisconnectLife DEF SessionEnd
  <2>2. CASE "session_started" \notin flags
    <3>1. /\ UNCHANGED <<global_session, connected, connect_pid, disconnect_pid, scripts>>
          /\ threads' = threads
      BY <2>2 DEF SessionEnd, sessionVars
    <3>2. global_session = FALSE /\ connected = FALSE
      BY <1>1, <2>2 DEF Connections, TypeOK
    <3> QED
      BY <1>2, <2>2, <3>1, <3>2, ScriptsStay
  <2> QED
    BY <2>1, <2>2
<1>4. threads' \subseteq threads /\ ("session_started" \in flags => threads' \subseteq {"worker"})
  BY <1>1, <1>3 DEF TypeOK
<1>5. TypeOK'
  BY <1>1, <1>2, <1>3, <1>4 DEF TypeOK, ScriptsRight, Script
<1>6. WayUp'
  BY <1>2 DEF WayUp
<1>7. WayDown'
  <2>1. rc = 0 => threads' = {} \/ (threads' \subseteq {"worker"} /\ "spice_started" \in flags)
    BY <1>1, <1>2, <1>4 DEF WayDown
  <2>2. ThreadsEndFirst'
    BY <1>1, <1>2, <1>4 DEF WayDown, ThreadsEndFirst
  <2>3. "session_created" \in flags => "lock" \in in_use
    BY <1>1, <1>2 DEF WayDown
  <2> QED
    BY <1>2, <1>3, <1>4, <2>1, <2>2, <2>3 DEF WayDown, Down
<1>8. Connections' /\ TimeoutStrikesAlone'
  BY <1>1, <1>2, <1>3 DEF Connections, TimeoutStrikesAlone, Down
<1> QED
  BY <1>3, <1>5, <1>6, <1>7, <1>8 DEF LifeInv

\* spice_end, gui_destroy and display_close
LEMMA ServerEndLife == LifeInv /\ (SpiceEnd \/ DisplayClose) => LifeInv'
<1> SUFFICES ASSUME LifeInv, SpiceEnd \/ DisplayClose PROVE LifeInv'
  OBVIOUS
<1>1. TypeOK /\ WayUp /\ WayDown /\ Connections /\ TimeoutStrikesAlone
  BY DEF LifeInv
<1>2. /\ UNCHANGED <<options, rc, flags, status, handler, at_exit, window, cached_gui, quit, timer,
                     global_session, connected, connect_pid, disconnect_pid, scripts,
                     viewers, signals, failures>>
      /\ viewer' \in {viewer, FALSE}
  BY DEF SpiceEnd, DisplayClose, guiVars, sessionVars, worldVars
<1>3. \/ /\ pc = "spice_end" /\ pc' = "display_close" /\ in_use' = in_use
         /\ threads' = IF "spice_started" \in flags THEN threads \ {"worker"} ELSE threads
      \/ /\ pc = "display_close" /\ pc' = "session_destroy" /\ threads' = threads
         /\ in_use' \in {in_use, in_use \ {"display"}}
  BY DEF SpiceEnd, DisplayClose
<1>4. TypeOK'
  <2>1. threads' \subseteq {"scanner", "events", "worker"} /\ in_use' \subseteq {"display", "lock"}
    BY <1>1, <1>3 DEF TypeOK
  <2>2. pc' \in {"display_close", "session_destroy"} /\ pc # "over"
    BY <1>3
  <2>3. viewer' \in BOOLEAN
    BY <1>1, <1>2 DEF TypeOK
  <2>4. UNCHANGED <<options, rc, flags, status, handler, at_exit, window, cached_gui, quit, timer,
                    global_session, connected, connect_pid, disconnect_pid, scripts,
                    viewers, signals, failures>>
    BY <1>2
  <2> QED
    BY <1>1, <2>1, <2>2, <2>3, <2>4 DEF TypeOK
<1>5. WayUp'
  BY <1>3 DEF WayUp
<1>6. WayDown'
  <2>1. rc = 0 => threads' = {}
    BY <1>1, <1>3 DEF WayDown
  <2>2. ~global_session /\ ("session_created" \in flags => "lock" \in in_use')
    BY <1>1, <1>3 DEF WayDown
  <2>3. threads' \subseteq threads /\ ("session_started" \in flags => threads' \subseteq {"worker"})
    BY <1>1, <1>3 DEF WayDown
  <2>4. pc' \in {"display_close", "session_destroy"} /\ "spice_started" \in flags =>
           "worker" \notin threads'
    BY <1>1, <1>3 DEF WayDown
  <2>5. ThreadsEndFirst'
    <3>1. CASE pc = "spice_end"
      BY <1>1, <1>2, <1>3, <2>3, <3>1 DEF WayDown, ThreadsEndFirst, StartedBy
    <3>2. CASE pc = "display_close"
      <4>1. \A t \in threads : rc # 0 /\ StartedBy(t) \notin flags
        BY <1>1, <3>2 DEF WayDown, StartedBy, TypeOK
      <4> QED
        BY <1>2, <2>3, <4>1 DEF ThreadsEndFirst, StartedBy
    <3> QED
      BY <1>3, <3>1, <3>2
  <2> QED
    BY <1>2, <1>3, <2>1, <2>2, <2>3, <2>4, <2>5 DEF WayDown, Down
<1>7. Connections' /\ TimeoutStrikesAlone'
  BY <1>1, <1>2, <1>3 DEF Connections, TimeoutStrikesAlone, Down
<1>8. ScriptsRight' /\ Counts'
  BY <1>2, ScriptsStay
<1> QED
  BY <1>4, <1>5, <1>6, <1>7, <1>8 DEF LifeInv

LEMMA SessionDestroyLife == LifeInv /\ SessionDestroy => LifeInv'
<1> SUFFICES ASSUME LifeInv, SessionDestroy PROVE LifeInv'
  OBVIOUS
<1>1. /\ TypeOK /\ WayUp /\ WayDown /\ Connections /\ TimeoutStrikesAlone
      /\ ScriptsRight /\ Counts
  BY DEF LifeInv
<1>2. /\ UNCHANGED <<options, rc, flags, threads, status, handler, at_exit, window, cached_gui,
                     quit, timer, global_session, connected, viewer, viewers, signals, failures>>
      /\ pc = "session_destroy" /\ pc' = "exiting"
      /\ in_use' \in {in_use, in_use \ {"lock"}}
  BY DEF SessionDestroy, guiVars, worldVars
<1>3. ~global_session /\ ~connected /\ (rc = 0 => threads = {})
  BY <1>1, <1>2 DEF WayDown, Connections
<1>4. /\ ScriptsRight' /\ Counts'
      /\ "session_created" \in flags => connect_pid' = 0 /\ disconnect_pid' = 0
  <2>1. CASE "session_created" \in flags
    <3> DEFINE procs == Cleaned(Cleaned(scripts, connect_pid), disconnect_pid)
    <3>1. scripts' = procs /\ connect_pid' = 0 /\ disconnect_pid' = 0
      BY <2>1 DEF SessionDestroy
    <3>2. /\ procs \in Seq(Script) /\ Len(procs) = Len(scripts)
          /\ \A p \in 1..Len(scripts) :
               procs[p].on = scripts[p].on /\ procs[p].state \notin {"forked", "running"}
      BY <1>1, BothCleaned
    <3> HIDE DEF procs
    <3>3. scripts \in Seq(Script) /\ Len(scripts) \in Nat
      BY <1>1 DEF ScriptsRight
    <3>4. DOMAIN scripts = 1..Len(scripts) /\ DOMAIN scripts' = 1..Len(scripts)
      BY <3>1, <3>2, <3>3
    <3>5. \A k \in {"connect", "disconnect"} : ScriptsOf(k)' = ScriptsOf(k)
      BY <3>1, <3>2, <3>4 DEF ScriptsOf
    <3>6. Counts'
      BY <1>1, <1>2, <3>5 DEF Counts
    <3>7. ScriptsRight'
      BY <3>1, <3>2, <3>3, <3>4 DEF ScriptsRight, PidsAreChildren
    <3> QED
      BY <3>1, <3>6, <3>7
  <2>2. CASE "session_created" \notin flags
    BY <1>2, <2>2, ScriptsStay DEF SessionDestroy
  <2> QED
    BY <2>1, <2>2
<1>5. TypeOK'
  BY <1>1, <1>2, <1>4 DEF TypeOK, ScriptsRight, Script
<1>6. WayUp'
  BY <1>2 DEF WayUp
<1>7. WayDown'
  <2>1. \A t \in threads : rc # 0 /\ StartedBy(t) \notin flags
    BY <1>1, <1>2, <1>3 DEF WayDown, StartedBy, TypeOK
  <2>2. ThreadsEndFirst'
    BY <1>2, <2>1 DEF ThreadsEndFirst, StartedBy
  <2> QED
    BY <1>2, <1>3, <1>4, <2>2 DEF WayDown, Down
<1>8. Connections' /\ TimeoutStrikesAlone'
  BY <1>1, <1>2, <1>3 DEF Connections, TimeoutStrikesAlone, Down
<1> QED
  BY <1>4, <1>5, <1>6, <1>7, <1>8 DEF LifeInv

LEMMA ExitLife == LifeInv /\ Exit => LifeInv'
<1> SUFFICES ASSUME LifeInv, Exit PROVE LifeInv'
  OBVIOUS
<1>1. /\ TypeOK /\ WayUp /\ WayDown /\ Connections /\ TimeoutStrikesAlone
      /\ ScriptsRight /\ Counts
  BY DEF LifeInv
<1>2. /\ UNCHANGED <<options, rc, flags, threads, in_use, handler, at_exit, window, cached_gui,
                     quit, timer, global_session, viewer, viewers, signals, failures>>
      /\ pc = "exiting" /\ pc' = "over" /\ status' \in {"success", "failure"}
  BY DEF Exit, guiVars, worldVars
<1>3. /\ ScriptsRight' /\ Counts' /\ connected' \in BOOLEAN
      /\ connected' => connected /\ ~at_exit
      /\ ~connected => UNCHANGED <<connect_pid, disconnect_pid>>
  <2>1. CASE at_exit
    <3>1. SessionRemoteDisconnected
      BY <2>1 DEF Exit
    <3>2. ~connected => UNCHANGED <<connect_pid, disconnect_pid>>
      BY <3>1 DEF SessionRemoteDisconnected, NoScript
    <3> QED
      BY <1>2, <3>1, <3>2, DisconnectLife
  <2>2. CASE ~at_exit
    BY <1>1, <1>2, <2>2, ScriptsStay DEF Exit, NoScript, TypeOK
  <2> QED
    BY <2>1, <2>2
<1>4. TypeOK'
  BY <1>1, <1>2, <1>3 DEF TypeOK, ScriptsRight, Script
<1>5. WayUp'
  BY <1>2 DEF WayUp
<1>6. WayDown'
  BY <1>1, <1>2, <1>3 DEF WayDown, ThreadsEndFirst, StartedBy, Down, Connections
<1>7. Connections' /\ TimeoutStrikesAlone'
  BY <1>1, <1>2, <1>3 DEF Connections, TimeoutStrikesAlone, Down
<1> QED
  BY <1>3, <1>4, <1>5, <1>6, <1>7 DEF LifeInv

-----------------------------------------------------------------------------
(* Theorems *)

LEMMA StutterLife == LifeInv /\ UNCHANGED vars => LifeInv'
<1> SUFFICES ASSUME LifeInv, UNCHANGED vars PROVE LifeInv'
  OBVIOUS
<1>1. TypeOK /\ WayUp /\ WayDown /\ Connections /\ TimeoutStrikesAlone
  BY DEF LifeInv
<1>2. UNCHANGED <<options, pc, rc, flags, threads, in_use, status, handler, at_exit, window,
                  cached_gui, quit, timer, global_session, connected, connect_pid,
                  disconnect_pid, scripts, viewer, viewers, signals, failures>>
  BY DEF vars, startVars, guiVars, sessionVars, worldVars
<1>3. TypeOK' /\ WayUp' /\ WayDown' /\ Connections' /\ TimeoutStrikesAlone'
  BY <1>1, <1>2 DEF TypeOK, WayUp, WayDown, ThreadsEndFirst, Connections, TimeoutStrikesAlone
<1>4. ScriptsRight' /\ Counts'
  BY <1>2, ScriptsStay
<1> QED
  BY <1>3, <1>4 DEF LifeInv

LEMMA Inductive == LifeInv /\ [Next]_vars => LifeInv'
<1> SUFFICES ASSUME LifeInv, [Next]_vars PROVE LifeInv'
  OBVIOUS
<1>1. CASE StartUp \/ StartUpFails \/ CheckConfig \/ SpiceStart \/ SessionStart
           \/ SessionStartFails \/ Prepare
  BY <1>1, StartUpLife, StartUpFailsLife, CheckConfigLife, ThreadsLife, SessionStartFailsLife,
     PrepareLife
<1>2. CASE GuiRunReturns \/ Timeout \/ QuitClicked \/ Sigterm \/ ViewerConnects
           \/ ViewerDisconnects \/ ServerExits \/ ScriptRuns
  BY <1>2, GuiLife, SigtermLife, ViewerConnectsLife, ViewerGoesLife, ScriptRunsLife
<1>3. CASE SessionEnd \/ SpiceEnd \/ DisplayClose \/ SessionDestroy \/ Exit
  BY <1>3, SessionEndLife, ServerEndLife, SessionDestroyLife, ExitLife
<1>4. CASE UNCHANGED vars
  BY <1>4, StutterLife
<1> QED
  BY <1>1, <1>2, <1>3, <1>4 DEF Next, MainThread

LEMMA Invariance == Spec => []LifeInv
  BY InitLife, Inductive, PTL DEF Spec

\* Every variable keeps its type, and main()'s flags are those of its first steps.
THEOREM TypeCorrect == Spec => []TypeOK
<1>1. LifeInv => TypeOK
  BY DEF LifeInv
<1> QED
  BY <1>1, Invariance, PTL

\* cleanup_process only ever kills and waits for children of x11spice.
THEOREM PidsOfChildren == Spec => []PidsAreChildren
<1>1. LifeInv => PidsAreChildren
  BY DEF LifeInv, ScriptsRight
<1> QED
  BY <1>1, Invariance, PTL

\* session_destroy leaves no script behind that it could have killed.
THEOREM ScriptsCleanedUp == Spec => []ScriptsAreCleanedUp
<1>1. LifeInv => ScriptsAreCleanedUp
  <2> SUFFICES ASSUME LifeInv, "session_created" \in flags, "lock" \notin in_use
               PROVE  \A p \in DOMAIN scripts : scripts[p].state \notin {"forked", "running"}
    BY DEF ScriptsAreCleanedUp
  <2>1. connect_pid = 0 /\ disconnect_pid = 0
    BY DEF LifeInv, WayDown
  <2> QED
    BY <2>1 DEF LifeInv, ScriptsRight, Pids
<1> QED
  BY <1>1, Invariance, PTL

\* However the process ends, each connection was announced once, and so was its end.
THEOREM EndsAreAnnounced == Spec => []EveryEndIsAnnounced
<1>1. LifeInv => EveryEndIsAnnounced
  BY DEF LifeInv, Counts, Connections, EveryEndIsAnnounced
<1> QED
  BY <1>1, Invariance, PTL

\* The display and the lock outlive the threads that use them, also after a failure,
\* but for a thread left behind by the step of main() that failed.
THEOREM ThreadsGoFirst == Spec => []ThreadsEndFirst
<1>1. LifeInv => ThreadsEndFirst
  BY DEF LifeInv, WayDown
<1> QED
  BY <1>1, Invariance, PTL

\* The timeout is not armed any more once a viewer has connected.
THEOREM TimeoutDisarmed == Spec => []TimeoutStrikesAlone
<1>1. LifeInv => TimeoutStrikesAlone
  BY DEF LifeInv
<1> QED
  BY <1>1, Invariance, PTL
=============================================================================
