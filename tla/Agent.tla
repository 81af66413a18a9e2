------------------------------- MODULE Agent -------------------------------
(***************************************************************************)
(* The agent channel (agent.c): the Unix socket on which spice-vdagentd    *)
(* connects, the character device that is lent to spice-server while it    *)
(* is, and the FIFO of mouse events, as descriptors and watches over their *)
(* whole life, from agent_start to agent_stop.                             *)
(*                                                                         *)
(* The table of descriptors is that of the process: spice-server's threads *)
(* open and close others at any moment, and the kernel gives out the       *)
(* lowest number that is free.  External: vdagentd, which may be started   *)
(* twice, and dies at any moment; spice-server.  bind and mkfifo fail when *)
(* the path is there, which nothing here ever removes.  listen, and fcntl  *)
(* on a fresh descriptor, do not fail.  What mouse events do is in Input.  *)
(***************************************************************************)
EXTENDS SpiceCore, Integers

CONSTANTS
    Fds,             \* descriptors; the first is stderr
    MaxConnections   \* bound on the connections that vdagentds make

ASSUME AgentAssumption ==
    /\ Fds \subseteq Nat \ {0} /\ IsFiniteSet(Fds) /\ Fds # {}
    /\ MaxConnections \in Nat
    /\ AgentWatches = {"listen", "client", "uinput"}

VARIABLES
    phase,          \* main: "starting", "running", "stopped"
    table,          \* process: what each descriptor is
    virtio_listen_fd, virtio_client_fd, uinput_fd,   \* agent_t
    paths,          \* file system: the paths of these that exist
    added,          \* spice-server has the character device
    backlog,        \* connections that wait on the listening socket
    peer,           \* of the accepted socket: "none", "alive", "dead"
    inbox, fifo,    \* there is something in the accepted socket, in the FIFO
    connections,    \* made so far
    stops,          \* history: calls of stop_virtio, 2 for more
    refused,        \* history: a second vdagentd was refused
    damage          \* history: fields whose close hit another's descriptor, and
                    \* "interface" if it was removed without being added

fdVars == <<virtio_listen_fd, virtio_client_fd, uinput_fd>>
worldVars == <<backlog, peer, inbox, fifo, connections>>
historyVars == <<stops, refused, damage>>
agentVars == <<phase, table, fdVars, paths, added, worldVars, historyVars>>
vars == <<coreVars, agentVars>>

Free == {fd \in Fds : table[fd] = "free"}
Lowest(S) == CHOOSE fd \in S : \A other \in S : fd <= other
Stderr == Lowest(Fds)

Init ==
    /\ CoreInit
    /\ phase = "starting"
    /\ table \in {f \in [Fds -> {"free", "other"}] : f[Stderr] = "other"}
    /\ virtio_listen_fd = -1 /\ virtio_client_fd = -1 /\ uinput_fd = -1
    /\ paths \in SUBSET {"socket", "fifo"}
    /\ added = FALSE
    /\ backlog = 0 /\ peer = "none" /\ inbox = FALSE /\ fifo = FALSE /\ connections = 0
    /\ stops = 0 /\ refused = FALSE /\ damage = {}

----------------------------------------------------------------------------
(* agent_start, whose result main ignores                                  *)

StartedAs(listen, client, uinput) ==
    /\ phase' = "running"
    /\ virtio_listen_fd' = listen /\ virtio_client_fd' = client /\ uinput_fd' = uinput
    /\ UNCHANGED <<ready, running, added, worldVars, refused, damage>>

\* There is no path for one of the two, or no descriptor for the socket.
StartWithout ==
    /\ phase = "starting"
    /\ StartedAs(-1, -1, -1)
    /\ UNCHANGED <<context, wanted, table, paths, stops>>

\* start_virtio: the socket of an earlier x11spice is still there.
BindFails ==
    /\ phase = "starting"
    /\ Free # {} /\ "socket" \in paths
    /\ StartedAs(Lowest(Free), -1, -1)
    /\ table' = [table EXCEPT ![Lowest(Free)] = "listen"]
    /\ UNCHANGED <<context, wanted, paths, stops>>

\* start_uinput fails, and stop_virtio closes the listening socket again.
UinputFails ==
    /\ phase = "starting"
    /\ Free # {} /\ "socket" \notin paths
    /\ "fifo" \in paths \/ Cardinality(Free) = 1
    /\ StartedAs(Lowest(Free), Lowest(Free) - 1, -1)
    /\ context' = WatchRemove(WatchAdd(context, "listen", TRUE), "listen")
    /\ paths' = {"socket", "fifo"}
    /\ stops' = 1
    /\ UNCHANGED <<wanted, table>>

AgentStart ==
    /\ phase = "starting"
    /\ Cardinality(Free) > 1 /\ paths = {}
    /\ LET listen == Lowest(Free)
           uinput == Lowest(Free \ {listen})
       IN /\ StartedAs(listen, -1, uinput)
          /\ table' = [table EXCEPT ![listen] = "listen", ![uinput] = "uinput"]
    /\ context' = WatchAdd(WatchAdd(context, "listen", TRUE), "uinput", TRUE)
    /\ wanted' = wanted \cup {"listen", "uinput"}
    /\ paths' = {"socket", "fifo"}
    /\ UNCHANGED stops

----------------------------------------------------------------------------
(* Stopping: the agent has died, or the program ends.                      *)

RemoveIfLive(c, w) == IF w \in c.live THEN WatchRemove(c, w) ELSE c
RemoveTwo(c) == RemoveIfLive(RemoveIfLive(c, "client"), "listen")
RemoveAll(c) == RemoveIfLive(RemoveIfLive(RemoveIfLive(c, "uinput"), "client"), "listen")

Field(name) == CASE name = "listen" -> virtio_listen_fd
                 [] name = "client" -> virtio_client_fd
                 [] name = "uinput" -> uinput_fd

\* A close of this field hits what is not its own.
Hits(name) == Field(name) \in Fds /\ table[Field(name)] \notin {name, "free"}

\* stop_virtio and stop_uinput are always called together.  Of what is closed only uinput_fd is
\* reset.
ResetNone == UNCHANGED uinput_fd /\ virtio_client_fd' = virtio_listen_fd - 1
Reset == uinput_fd' = -1 /\ virtio_client_fd' = virtio_listen_fd - 1

Stop ==
    /\ context' = RemoveAll(context)
    /\ wanted' = wanted \ AgentWatches
    /\ table' = [fd \in Fds |-> IF fd \in {Field(name) : name \in AgentWatches}
                                THEN "free" ELSE table[fd]]
    /\ added' = (added /\ virtio_client_fd = -1)
    /\ damage' = damage \cup {name \in AgentWatches : Hits(name)}
                 \cup (IF virtio_client_fd # -1 /\ ~added THEN {"interface"} ELSE {})
    /\ Reset
    /\ backlog' = 0 /\ peer' = "none" /\ inbox' = FALSE /\ fifo' = FALSE
    /\ stops' = IF stops < 2 THEN stops + 1 ELSE stops
    /\ UNCHANGED <<virtio_listen_fd, paths, connections, refused>>

AgentStop ==
    /\ phase = "running" /\ running = None
    /\ Stop
    /\ phase' = "stopped"
    /\ UNCHANGED <<ready, running>>

----------------------------------------------------------------------------
(* Callbacks of the main loop                                              *)

Calls(w, s) ==
    /\ phase = "running"
    /\ s[1] = w
    /\ Dispatches(s)
    /\ s \in context.attached
    /\ UNCHANGED <<running, phase>>

\* on_accept, for a second vdagentd: what is closed is the listening descriptor, or
\* what has its number by now.
RefusesSecondLeaves(s) ==
    /\ Calls("listen", s)
    /\ virtio_client_fd # -1
    /\ refused' = TRUE
    /\ UNCHANGED <<context, wanted, table, fdVars, paths, added, worldVars, stops, damage>>
RefusesSecond(s) ==
    /\ Calls("listen", s)
    /\ virtio_client_fd # -1
    /\ table' = [table EXCEPT ![virtio_listen_fd] = "free"]
    /\ damage' = damage \cup {name \in {"listen"} : Hits(name)}
    /\ backlog' = 0
    /\ refused' = TRUE
    /\ UNCHANGED <<context, wanted, fdVars, paths, added, peer, inbox, fifo, connections, stops>>

OnAccept(s) ==
    /\ Calls("listen", s)
    /\ virtio_client_fd = -1
    /\ Free # {}
    /\ virtio_client_fd' = Lowest(Free)
    /\ table' = [table EXCEPT ![Lowest(Free)] = "client"]
    /\ context' = WatchAdd(context, "client", TRUE)
    /\ wanted' = wanted \cup {"client"}
    /\ added' = TRUE
    /\ backlog' = backlog - 1 /\ peer' = "alive"
    /\ UNCHANGED <<virtio_listen_fd, uinput_fd, paths, inbox, fifo, connections, historyVars>>

AcceptFails(s) ==
    /\ Calls("listen", s)
    /\ virtio_client_fd = -1
    /\ Free = {}
    /\ UNCHANGED <<context, wanted, table, fdVars, paths, added, worldVars, historyVars>>

\* agent_char_read, which spice-server calls: at the end of the data errno is that of an
\* earlier call, and the death may go unnoticed.
Recv ==
    \/ /\ inbox
       /\ inbox' = FALSE
       /\ UNCHANGED <<context, wanted, table, fdVars, paths, added, backlog, peer, fifo, connections, historyVars>>
    \/ UNCHANGED <<context, wanted, table, fdVars, paths, added, worldVars, historyVars>>
    \/ ~inbox /\ peer = "dead" /\ Stop

\* on_read_available, in which spice-server may read
OnReadAvailable(s) == Calls("client", s) /\ Recv

AgentCharRead ==
    /\ phase = "running" /\ added
    /\ Recv
    /\ UNCHANGED <<ready, running, phase>>

\* uinput_read_cb.  There is something to read, so read does not return 0.
UinputReadCb(s) ==
    /\ Calls("uinput", s)
    /\ fifo' = FALSE
    /\ UNCHANGED <<context, wanted, table, fdVars, paths, added, backlog, peer, inbox, connections, historyVars>>

----------------------------------------------------------------------------
(* The world                                                               *)

Connects ==
    /\ phase = "running"
    /\ "listen" \in context.live /\ table[virtio_listen_fd] = "listen"
    /\ connections < MaxConnections
    /\ connections' = connections + 1
    /\ backlog' = backlog + 1
    /\ UNCHANGED <<coreVars, phase, table, fdVars, paths, added, peer, inbox, fifo, historyVars>>

VdagentdActs ==
    /\ phase = "running"
    /\ peer = "alive"
    /\ \/ inbox' = TRUE /\ UNCHANGED <<peer, fifo>>
       \/ fifo' = TRUE /\ UNCHANGED <<peer, inbox>>
       \/ peer' = "dead" /\ UNCHANGED <<inbox, fifo>>
    /\ UNCHANGED <<coreVars, phase, table, fdVars, paths, added, backlog, connections, historyVars>>

OtherDescriptor ==
    /\ \/ Free # {} /\ table' = [table EXCEPT ![Lowest(Free)] = "other"]
       \/ \E fd \in Fds \ {Stderr} : table[fd] = "other" /\ table' = [table EXCEPT ![fd] = "free"]
    /\ phase = "running"
    /\ UNCHANGED <<coreVars, phase, fdVars, paths, added, worldVars, historyVars>>

\* Watches whose descriptors have input; another's, that has the number, may have it or not.
InputIs(w) ==
    CASE w = "listen" -> table[virtio_listen_fd] = "listen" /\ backlog > 0
      [] w = "client" -> inbox \/ peer = "dead"
      [] w = "uinput" -> fifo
Stray == {w \in {"listen"} \cap context.live : table[virtio_listen_fd] = "other"}
Inputs == {{w \in AgentWatches \cap context.live : InputIs(w)} \cup others : others \in SUBSET Stray}

PollSome == \E inputs \in Inputs : Poll(inputs)

Dispatched(s) ==
    \/ RefusesSecond(s) \/ OnAccept(s) \/ AcceptFails(s) \/ OnReadAvailable(s) \/ UinputReadCb(s)
    \/ phase = "running" /\ (Skip(s) \/ TimerFunc(s) \/ WatchFunc(s)) /\ UNCHANGED agentVars

Loop ==
    /\ phase = "running"
    /\ \/ \E t \in Timers : ServerTimer(t)
       \/ \E w \in Watches : ServerWatch(w)
       \/ PollSome
       \/ TimerFuncReturns
    /\ UNCHANGED agentVars

Next ==
    \/ StartWithout \/ BindFails \/ UinputFails \/ AgentStart
    \/ Loop
    \/ \E s \in ready : Dispatched(s)
    \/ AgentCharRead \/ AgentStop
    \/ Connects \/ VdagentdActs \/ OtherDescriptor

Spec == Init /\ [][Next]_vars

\* The main loop polls, dispatches what is ready, and comes back from callbacks.
FairSpec ==
    /\ Spec
    /\ WF_vars(phase = "running" /\ PollSome /\ UNCHANGED agentVars)
    /\ WF_vars(phase = "running" /\ TimerFuncReturns /\ UNCHANGED agentVars)
    /\ WF_vars(\E s \in ready : Dispatched(s))

----------------------------------------------------------------------------
\* The type invariant.
TypeOK ==
    /\ CoreTypeOK
    /\ phase \in {"starting", "running", "stopped"}
    /\ table \in [Fds -> {"free", "other"} \cup AgentWatches]
    /\ virtio_listen_fd \in Int /\ virtio_client_fd \in Int /\ uinput_fd \in Int
    /\ paths \subseteq {"socket", "fifo"}
    /\ added \in BOOLEAN /\ inbox \in BOOLEAN /\ fifo \in BOOLEAN /\ refused \in BOOLEAN
    /\ backlog \in Nat /\ connections \in Nat
    /\ peer \in {"none", "alive", "dead"}
    /\ stops \in 0 .. 2
    /\ damage \subseteq AgentWatches \cup {"interface"}

\* The agent's watches are on its own descriptors, in place exactly while these are in use,
\* and gone after agent_stop; the character device is lent while there is an agent to talk to.
\* Only the listening socket may be another's, once a second vdagentd has been refused.
\* (start_virtio, on_accept, stop_virtio, stop_uinput)
WatchesMatch ==
    /\ \A w \in AgentWatches \cap context.live :
          w \in wanted /\ (table[Field(w)] = w \/ (w = "listen" /\ refused))
    /\ added <=> "client" \in context.live
    /\ added => "uinput" \in context.live
    /\ phase # "running" => AgentWatches \cap context.live = {}

\* What agent_t says of descriptors is right until stop_virtio has run twice or a second
\* vdagentd was refused: nothing else's descriptor is closed, nor the interface removed that
\* was not added, and the FIFO is never taken for another's.  (stop_virtio, on_accept)
ClosesItsOwn ==
    /\ "uinput" \notin damage
    /\ damage # {} => stops = 2 \/ refused
    /\ {"client", "interface"} \cap damage # {} => stops = 2

\* A vdagentd that connects is accepted or refused in the end, unless there is no descriptor
\* to accept it.  (on_accept, watch_func)
AgentIsServed == backlog > 0 ~> backlog = 0 \/ (virtio_client_fd = -1 /\ Free = {})
=============================================================================
