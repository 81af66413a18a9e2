--------------------------- MODULE Configuration ---------------------------
(***************************************************************************)
(* From the command line and the configuration files to the settings       *)
(* x11spice runs with (options.c), and to the port it listens on           *)
(* (listen.c, try_listen in spice.c).                                      *)
(*                                                                         *)
(* A setting is known by where its value comes from.  What the listen      *)
(* specification and the argument of --ssl say matters, so those are there *)
(* as they are written.                                                    *)
(***************************************************************************)
EXTENDS Listen, FiniteSets

CONSTANTS
    Plain,          \* settings read like display: from the command line and files
    FilePlain,      \* settings read like on-connect: from files
    CommandLines,   \* what the command line may give
    UserFiles, SystemFiles,     \* what the files may give; nothing if there is none
    SslSpecs,       \* arguments of --ssl: sequences of file names and blanks
    ListenSpecs,    \* listen specifications that may be given
    DefaultSpec,    \* "5900"
    Ports,          \* ports of the machine
    MaxOthers       \* bound: how often other processes open or close a port

Passwords == {"spice_password", "password_file", "generate_password"}

\* The files --ssl may name, in their order
SslFiles == <<"ca_cert_file", "certs_file", "private_key_file", "key_password",
              "dh_key_file", "ciphersuite">>
SslKeys == {SslFiles[i] : i \in 1..6}

CommandKeys == Plain \cup Passwords \cup {"listen", "ssl_enabled"}
Keys == CommandKeys \cup FilePlain \cup SslKeys \cup {"disable_ticketing"}

ASSUME ConfigurationAssumption ==
    /\ CommandLines \subseteq SUBSET CommandKeys
    /\ UserFiles \subseteq SUBSET Keys /\ SystemFiles \subseteq SUBSET Keys
    /\ (Plain \cup FilePlain) \cap (Passwords \cup {"listen"}) = {}
    /\ ListenSpecs \subseteq Seq(STRING) /\ DefaultSpec \in Seq(STRING)
    /\ Ports \subseteq Nat /\ MaxOthers \in Nat

\* Where a value comes from; FALSE, 0 and NULL are "unset".
Origins == {"unset", "command line", "user", "system", "default", "contents", "random"}

VARIABLES
    command_line, ssl_spec, config_given, user, system,     \* what is given
    options,            \* the origin of each setting
    pc,
    error,              \* why x11spice did not start
    listen_spec, parsed,    \* options->listen, and what listen_parse made of it
    port,               \* the port being tried, or chosen
    taken,              \* ports that other processes have open
    found_taken,        \* history: ports that try_port could not bind
    others

inputs     == <<command_line, ssl_spec, config_given, user, system>>
listenVars == <<listen_spec, parsed, port, taken, found_taken, others>>
vars == <<inputs, options, pc, error, listenVars>>

Init ==
    /\ command_line \in CommandLines /\ ssl_spec \in SslSpecs /\ config_given \in BOOLEAN
    /\ ssl_spec # <<>> => "ssl_enabled" \in command_line
    /\ user \in UserFiles /\ system \in SystemFiles
    /\ options = [k \in Keys |-> "unset"]
    /\ pc = "arguments" /\ error = "none"
    /\ listen_spec = <<>> /\ parsed = ParseError /\ port = NoPort
    /\ taken = {} /\ found_taken = {} /\ others = 0

Stop(why) == pc' = "over" /\ error' = why

-----------------------------------------------------------------------------
(* options_load *)

\* options_handle_ssl: strtok_r takes commas that follow each other for one.
SslEntries(spec) == SelectSeq(spec, LAMBDA name : name # "")

\* The setting each entry goes to, for as many as there are settings.
SslGiven(spec) ==
    [i \in 1..(IF Len(SslEntries(spec)) < 6 THEN Len(SslEntries(spec)) ELSE 6)
        |-> [key |-> SslFiles[i], name |-> SslEntries(spec)[i]]]

GivenOnCommandLine ==
    command_line \cup {SslGiven(ssl_spec)[i].key : i \in DOMAIN SslGiven(ssl_spec)}

PasswordsSet(settings) == {k \in Passwords : settings[k] # "unset"}

\* Nobody counts the passwords.
ParseArgumentsUncounted ==
    /\ pc \in {"arguments", "arguments again"}
    /\ LET set == [k \in Keys |->
                      IF k \in GivenOnCommandLine THEN "command line" ELSE options[k]]
       IN IF Len(SslEntries(ssl_spec)) > 6
          THEN options' = set /\ Stop("arguments")
          ELSE /\ options' = IF set["listen"] = "unset"
                             THEN [set EXCEPT !["listen"] = "default"] ELSE set
               /\ pc' = IF pc = "arguments" THEN "config" ELSE "io"
               /\ UNCHANGED error
    /\ UNCHANGED <<inputs, listenVars>>

\* options_parse_arguments, called twice
ParseArguments ==
    /\ pc \in {"arguments", "arguments again"}
    /\ LET set == [k \in Keys |->
                      IF k \in GivenOnCommandLine THEN "command line" ELSE options[k]]
       IN IF Len(SslEntries(ssl_spec)) > 6 \/ Cardinality(PasswordsSet(set)) > 1
          THEN options' = set /\ Stop("arguments")
          ELSE /\ options' = IF set["listen"] = "unset"
                             THEN [set EXCEPT !["listen"] = "default"] ELSE set
               /\ pc' = IF pc = "arguments" THEN "config" ELSE "io"
               /\ UNCHANGED error
    /\ UNCHANGED <<inputs, listenVars>>

\* What the first pass found is kept: the files only fill in the rest.
FromConfigKeeping ==
    /\ pc = "config" /\ pc' = "arguments again"
    /\ options' = [k \in Keys |->
          IF options[k] # "unset" THEN options[k]
          ELSE IF k \in user THEN "user"
          ELSE IF k \in system /\ ~config_given THEN "system" ELSE "unset"]
    /\ UNCHANGED <<inputs, error, listenVars>>

\* options_from_config: every setting is replaced.  With --config the system's file
\* is not read.
FromConfig ==
    /\ pc = "config" /\ pc' = "arguments again"
    /\ options' = [k \in Keys |->
          IF k \in user THEN "user"
          ELSE IF k \in system /\ ~config_given THEN "system" ELSE "unset"]
    /\ UNCHANGED <<inputs, error, listenVars>>

\* What is read or generated failed, and nobody minds.
ProcessIOUnchecked ==
    /\ pc = "io" /\ pc' = "check"
    /\ UNCHANGED <<inputs, error, listenVars, options>>

\* options_process_io: the password is read from its file or generated, or that fails.
ProcessIO ==
    /\ pc = "io"
    /\ \/ /\ options' = [options EXCEPT !["spice_password"] =
                IF options["generate_password"] # "unset" THEN "random"
                ELSE IF options["password_file"] # "unset" THEN "contents" ELSE @]
          /\ pc' = "check" /\ UNCHANGED error
       \/ /\ {options["password_file"], options["generate_password"]} # {"unset"}
          /\ Stop("password") /\ UNCHANGED options
    /\ UNCHANGED <<inputs, listenVars>>

\* options_impossible_config
CheckConfig ==
    /\ pc = "check"
    /\ IF PasswordsSet(options) = {} /\ options["disable_ticketing"] = "unset"
       THEN Stop("authentication")
       ELSE pc' = "try_listen" /\ UNCHANGED error
    /\ UNCHANGED <<inputs, options, listenVars>>

-----------------------------------------------------------------------------
(* try_listen *)

\* listen_parse; a range is searched, a port is taken as it is.
TryListen ==
    /\ pc = "try_listen"
    /\ \E s \in IF options["listen"] = "default" THEN {DefaultSpec} ELSE ListenSpecs :
          /\ listen_spec' = s
          /\ parsed' = ListenParse(s)
          /\ port' = IF parsed'.start = NoPort THEN parsed'.end ELSE parsed'.start
          /\ \/ ~parsed'.ok /\ Stop("listen")
             \/ parsed'.ok /\ parsed'.start = NoPort /\ pc' = "set" /\ UNCHANGED error
             \/ parsed'.ok /\ parsed'.start # NoPort /\ pc' = "search" /\ UNCHANGED error
    /\ UNCHANGED <<inputs, options, taken, found_taken, others>>

\* The last port of a range is left out.
SearchShort ==
    /\ pc = "search"
    /\ \/ port >= parsed.end /\ Stop("ports") /\ UNCHANGED <<port, found_taken>>
       \/ /\ port < parsed.end /\ port \in taken
          /\ port' = port + 1 /\ found_taken' = found_taken \cup {port}
          /\ UNCHANGED <<pc, error>>
       \/ /\ port < parsed.end /\ port \notin taken
          /\ pc' = "set" /\ UNCHANGED <<port, found_taken, error>>
    /\ UNCHANGED <<inputs, options, listen_spec, parsed, taken, others>>

\* listen_find_open_port tries one port.  The socket is closed again at once.
Search ==
    /\ pc = "search"
    /\ \/ port > parsed.end /\ Stop("ports") /\ UNCHANGED <<port, found_taken>>
       \/ /\ port <= parsed.end /\ port \in taken
          /\ port' = port + 1 /\ found_taken' = found_taken \cup {port}
          /\ UNCHANGED <<pc, error>>
       \/ /\ port <= parsed.end /\ port \notin taken
          /\ pc' = "set" /\ UNCHANGED <<port, found_taken, error>>
    /\ UNCHANGED <<inputs, options, listen_spec, parsed, taken, others>>

\* spice_server_set_addr and set_port or set_tls; spice_server_init opens the port
\* if it still can.
ServerInit ==
    /\ pc = "set"
    /\ IF port \in taken THEN Stop("init") ELSE pc' = "over" /\ error' = "none"
    /\ UNCHANGED <<inputs, options, listenVars>>

\* Other processes open and close ports.
OthersUsePorts ==
    /\ pc \in {"try_listen", "search", "set"}
    /\ others < MaxOthers /\ others' = others + 1
    /\ \E p \in Ports : taken' = IF p \in taken THEN taken \ {p} ELSE taken \cup {p}
    /\ UNCHANGED <<inputs, options, pc, error, listen_spec, parsed, port, found_taken>>

-----------------------------------------------------------------------------
Next ==
    \/ ParseArguments \/ FromConfig \/ ProcessIO \/ CheckConfig
    \/ TryListen \/ Search \/ ServerInit \/ OthersUsePorts

Spec == Init /\ [][Next]_vars

-----------------------------------------------------------------------------
(* Properties *)

Loaded ==
    \/ pc \in {"check", "try_listen", "search", "set"}
    \/ pc = "over" /\ error \notin {"arguments", "password"}

\* Every setting has an origin, and x11spice stops for one of seven reasons.
TypeOK ==
    /\ options \in [Keys -> Origins]
    /\ pc \in {"arguments", "config", "arguments again", "io", "check", "try_listen",
               "search", "set", "over"}
    /\ error \in {"none", "arguments", "password", "authentication", "listen", "ports", "init"}
    /\ error # "none" => pc = "over"
    /\ taken \subseteq Ports /\ others \in 0..MaxOthers

\* "Command line arguments will override settings in the users configuration
\* directory, which will override settings in a system configuration directory"
\* (xdg/x11spice/x11spice.conf:3-5); --config does without the last (x11spice.1).
Origin(k) ==
    IF k \in GivenOnCommandLine THEN "command line"
    ELSE IF k \in user THEN "user"
    ELSE IF k \in system /\ ~config_given THEN "system"
    ELSE IF k = "listen" THEN "default" ELSE "unset"

\* The settings come from where they should, though the arguments are read once
\* before the files and once after them and the first reading leaves a default.
Precedence ==
    Loaded => \A k \in Keys \ {"spice_password"} : options[k] = Origin(k)

\* The password is that of the only source that is left when settings have
\* overridden each other: its own, the file's or a random one, never two of them.
OnePassword ==
    Loaded =>
        /\ \A j, k \in Passwords : Origin(j) # "unset" /\ Origin(k) # "unset" => j = k
        /\ options["spice_password"] =
              IF Origin("password_file") # "unset" THEN "contents"
              ELSE IF Origin("generate_password") # "unset" THEN "random"
              ELSE Origin("spice_password")

\* The server only starts when viewers can authenticate or need not: what
\* options_impossible_config lets pass as a promise of a password is one by then.
CanAuthenticate ==
    pc \in {"try_listen", "search", "set"} \/ (pc = "over" /\ error = "none") =>
        options["spice_password"] # "unset" \/ options["disable_ticketing"] # "unset"

\* The first port of the range that is open when it is tried is taken, and the
\* search is only given up after every port of the range was found taken.
FirstOpenPort ==
    parsed.start # NoPort =>
        /\ pc = "set" => port \in parsed.start..parsed.end
        /\ error = "ports" => parsed.start..parsed.end \subseteq found_taken
        /\ pc \in {"search", "set"} => parsed.start..(port - 1) \subseteq found_taken

\* A host, a colon and ports, or ports alone, with spice:// before them or not, are
\* taken for what they are (usage, options.c:138-144).
ListenIsMeant ==
    LET bare == IF listen_spec # <<>> /\ Head(listen_spec) = "spice://"
                THEN Tail(listen_spec) ELSE listen_spec
    IN \A start, end \in Numbers : \A n \in 0..Len(bare) :
          LET host == SubSeq(bare, 1, n)
          IN {host[i] : i \in 1..n} \cap {":", "spice+unix://"} = {}
             /\ bare = Written(host, n > 0, start, end)
                => parsed = Meant(host, start, end)
=============================================================================
