------------------------ MODULE ConfigurationProofs -------------------------
(***************************************************************************)
(* Proofs about Configuration, for any settings, files, listen             *)
(* specifications and ports.                                               *)
(***************************************************************************)
EXTENDS Configuration, FiniteSetTheorems, SequenceTheorems, TLAPS

\* What the configuration files make of a setting.
FileOrigin(k) ==
    IF k \in user THEN "user"
    ELSE IF k \in system /\ ~config_given THEN "system" ELSE "unset"

ExclusivePasswords ==
    \A j, k \in Passwords : Origin(j) # "unset" /\ Origin(k) # "unset" => j = k

\* The second reading of the arguments starts from what the files say alone.
FilesRead == pc = "arguments again" => \A k \in Keys : options[k] = FileOrigin(k)

\* It leaves the settings as documented, and at most one password.
ArgumentsRead ==
    pc = "io" => (\A k \in Keys : options[k] = Origin(k)) /\ ExclusivePasswords

SettingsInv ==
    /\ TypeOK /\ FilesRead /\ ArgumentsRead
    /\ Precedence /\ OnePassword /\ CanAuthenticate

\* A set of at most one element has no two.
LEMMA AtMostOne ==
    ASSUME NEW S, IsFiniteSet(S), Cardinality(S) <= 1, NEW j \in S, NEW k \in S
    PROVE  j = k
<1> SUFFICES ASSUME j # k PROVE FALSE
  OBVIOUS
<1>1. IsFiniteSet({j}) /\ Cardinality({j}) = 1
  BY FS_Singleton
<1>2. IsFiniteSet({j, k}) /\ Cardinality({j, k}) = 2
  <2>1. {j, k} = {j} \cup {k} /\ k \notin {j}
    OBVIOUS
  <2>2. IsFiniteSet({j} \cup {k}) /\ Cardinality({j} \cup {k}) = Cardinality({j}) + 1
    BY <1>1, <2>1, FS_AddElement
  <2> QED
    BY <1>1, <2>1, <2>2
<1>3. Cardinality({j, k}) <= Cardinality(S)
  BY FS_Subset
<1> QED
  BY <1>2, <1>3, FS_CardinalityType

LEMMA PasswordKeys ==
    Passwords \subseteq Keys /\ {"listen", "disable_ticketing"} \subseteq Keys
    /\ IsFiniteSet(Passwords)
<1>1. IsFiniteSet({"spice_password", "password_file", "generate_password"})
  <2>1. IsFiniteSet({"generate_password"})
    BY FS_Singleton
  <2>2. IsFiniteSet({"generate_password"} \cup {"password_file"})
    BY <2>1, FS_AddElement
  <2>3. IsFiniteSet(({"generate_password"} \cup {"password_file"}) \cup {"spice_password"})
    BY <2>2, FS_AddElement
  <2>4. ({"generate_password"} \cup {"password_file"}) \cup {"spice_password"} = Passwords
    BY DEF Passwords
  <2> QED
    BY <2>3, <2>4 DEF Passwords
<1> QED
  BY <1>1 DEF Passwords, Keys, CommandKeys

\* What is given does not change, and neither does what it makes of a setting.
LEMMA OriginKept ==
    ASSUME inputs' = inputs
    PROVE  /\ \A k : Origin(k)' = Origin(k) /\ FileOrigin(k)' = FileOrigin(k)
           /\ ExclusivePasswords' = ExclusivePasswords
<1>1. /\ command_line' = command_line /\ ssl_spec' = ssl_spec
      /\ user' = user /\ system' = system /\ config_given' = config_given
  BY DEF inputs
<1>2. GivenOnCommandLine' = GivenOnCommandLine
  BY <1>1 DEF GivenOnCommandLine
<1>3. \A k : Origin(k)' = Origin(k) /\ FileOrigin(k)' = FileOrigin(k)
  BY <1>1, <1>2 DEF Origin, FileOrigin
<1> QED
  BY <1>3 DEF ExclusivePasswords

LEMMA InitSettings == Init => SettingsInv
  BY ConfigurationAssumption
  DEF Init, SettingsInv, TypeOK, FilesRead, ArgumentsRead, Precedence, OnePassword,
      CanAuthenticate, Loaded, Origins

\* One reading of the arguments.
LEMMA ParseArgumentsStep ==
    ASSUME SettingsInv, ParseArguments
    PROVE  SettingsInv'
<1> DEFINE set == [k \in Keys |->
                      IF k \in GivenOnCommandLine THEN "command line" ELSE options[k]]
<1>0. /\ inputs' = inputs /\ taken' = taken /\ others' = others
      /\ pc \in {"arguments", "arguments again"} /\ error = "none"
      /\ set \in [Keys -> Origins]
  BY DEF ParseArguments, inputs, listenVars, SettingsInv, TypeOK, Origins
<1>1. CASE options' = set /\ Stop("arguments")
  BY <1>0, <1>1 DEF SettingsInv, TypeOK, FilesRead, ArgumentsRead, Precedence, OnePassword,
                    CanAuthenticate, Loaded, Stop
<1>2. CASE /\ Cardinality(PasswordsSet(set)) <= 1
           /\ options' = IF set["listen"] = "unset"
                         THEN [set EXCEPT !["listen"] = "default"] ELSE set
           /\ pc' = IF pc = "arguments" THEN "config" ELSE "io"
           /\ error' = error
  <2>1. TypeOK'
    BY <1>0, <1>2 DEF SettingsInv, TypeOK, Origins
  <2>2. ArgumentsRead'
    <3> SUFFICES ASSUME pc = "arguments again"
                 PROVE  (\A k \in Keys : options'[k] = Origin(k)) /\ ExclusivePasswords
      BY <1>0, <1>2, OriginKept DEF ArgumentsRead
    <3>1. \A k \in Keys : options[k] = FileOrigin(k)
      BY DEF SettingsInv, FilesRead
    <3>2. \A k \in Keys : options'[k] = Origin(k)
      BY <1>2, <3>1 DEF Origin, FileOrigin
    <3>3. \A k \in Passwords : set[k] = Origin(k)
      BY <3>1, PasswordKeys DEF Origin, FileOrigin, Passwords
    <3>4. IsFiniteSet(PasswordsSet(set))
      BY PasswordKeys, FS_Subset DEF PasswordsSet
    <3>5. \A j, k \in PasswordsSet(set) : j = k
      BY <1>2, <3>4, AtMostOne
    <3>6. ExclusivePasswords
      BY <3>3, <3>5 DEF ExclusivePasswords, PasswordsSet
    <3> QED
      BY <3>2, <3>6
  <2> QED
    BY <1>0, <1>2, <2>1, <2>2 DEF SettingsInv, FilesRead, Precedence, OnePassword,
                                  CanAuthenticate, Loaded
<1>3. Cardinality(PasswordsSet(set)) \in Nat
  BY PasswordKeys, FS_Subset, FS_CardinalityType DEF PasswordsSet
<1>4. IF Len(SslEntries(ssl_spec)) > 6 \/ Cardinality(PasswordsSet(set)) > 1
      THEN options' = set /\ Stop("arguments")
      ELSE /\ options' = IF set["listen"] = "unset"
                         THEN [set EXCEPT !["listen"] = "default"] ELSE set
           /\ pc' = IF pc = "arguments" THEN "config" ELSE "io"
           /\ UNCHANGED error
  BY DEF ParseArguments
<1> HIDE DEF set
<1>5. \A n \in Nat : n > 1 \/ n <= 1
  OBVIOUS
<1>6. Cardinality(PasswordsSet(set)) > 1 \/ Cardinality(PasswordsSet(set)) <= 1
  BY <1>3, <1>5
<1> QED
  BY <1>1, <1>2, <1>4, <1>6

\* What Configuration does after the settings are read leaves them as they are.
LEMMA LaterSteps ==
    ASSUME SettingsInv, options' = options, inputs' = inputs,
           Loaded' => Loaded, pc' \notin {"arguments again", "io"},
           pc' \in {"try_listen", "search", "set"} \/ (pc' = "over" /\ error' = "none") =>
               pc \in {"try_listen", "search", "set"} \/ (pc = "over" /\ error = "none")
    PROVE  (FilesRead /\ ArgumentsRead /\ Precedence /\ OnePassword /\ CanAuthenticate)'
<1>1. (\A k : Origin(k)' = Origin(k)) /\ ExclusivePasswords' = ExclusivePasswords
  BY OriginKept
<1> QED
  BY <1>1 DEF SettingsInv, FilesRead, ArgumentsRead, Precedence, OnePassword, CanAuthenticate

LEMMA SettingsStep == SettingsInv /\ [Next]_vars => SettingsInv'
<1> SUFFICES ASSUME SettingsInv, [Next]_vars PROVE SettingsInv'
  OBVIOUS
<1>1. CASE ParseArguments
  BY <1>1, ParseArgumentsStep
<1>2. CASE FromConfig
  <2>1. TypeOK'
    BY <1>2 DEF FromConfig, SettingsInv, TypeOK, Origins, inputs, listenVars
  <2>2. FilesRead'
    BY <1>2 DEF FromConfig, FilesRead, FileOrigin, inputs
  <2> QED
    BY <1>2, <2>1, <2>2 DEF FromConfig, SettingsInv, ArgumentsRead, Precedence, OnePassword,
                            CanAuthenticate, Loaded, inputs
<1>3. CASE ProcessIO
  <2>1. TypeOK'
    BY <1>3, PasswordKeys DEF ProcessIO, Stop, SettingsInv, TypeOK, Origins, Passwords,
                              inputs, listenVars
  <2>2. CASE pc' = "over"
    BY <1>3, <2>1, <2>2 DEF ProcessIO, Stop, SettingsInv, FilesRead, ArgumentsRead, Precedence,
                            OnePassword, CanAuthenticate, Loaded
  <2>3. CASE pc' = "check"
    <3>1. /\ \A k \in Keys : options[k] = Origin(k)
          /\ ExclusivePasswords
      BY <1>3 DEF ProcessIO, SettingsInv, ArgumentsRead
    <3>2. \A k : Origin(k)' = Origin(k)
      BY <1>3, OriginKept DEF ProcessIO
    <3>3. /\ options' = [options EXCEPT !["spice_password"] =
                CASE options["password_file"] # "unset" -> "contents"
                  [] options["generate_password"] # "unset" -> "random"
                  [] OTHER -> @]
          /\ options \in [Keys -> Origins]
      BY <1>3, <2>3 DEF ProcessIO, Stop, SettingsInv, TypeOK
    <3>4. Precedence'
      BY <3>1, <3>2, <3>3 DEF Precedence
    <3>5. OnePassword'
      BY <3>1, <3>2, <3>3, PasswordKeys DEF OnePassword, ExclusivePasswords, Passwords
    <3> QED
      BY <2>1, <2>3, <3>4, <3>5 DEF SettingsInv, FilesRead, ArgumentsRead, CanAuthenticate
  <2> QED
    BY <1>3, <2>2, <2>3 DEF ProcessIO, Stop
<1>4. CASE CheckConfig
  <2>1. TypeOK'
    BY <1>4 DEF CheckConfig, Stop, SettingsInv, TypeOK, inputs, listenVars
  <2>2. Loaded /\ (pc' = "over" => error' = "authentication")
    BY <1>4 DEF CheckConfig, Stop, Loaded
  <2>3. (FilesRead /\ ArgumentsRead /\ Precedence /\ OnePassword)'
    <3>1. \A k : Origin(k)' = Origin(k)
      BY <1>4, OriginKept DEF CheckConfig
    <3> QED
      BY <1>4, <2>2, <3>1 DEF CheckConfig, Stop, SettingsInv, FilesRead, ArgumentsRead,
                              Precedence, OnePassword
  <2>4. CanAuthenticate'
    <3> SUFFICES ASSUME PasswordsSet(options) # {}
                 PROVE  options["spice_password"] # "unset"
      BY <1>4 DEF CheckConfig, Stop, CanAuthenticate
    <3>1. PICK k \in Passwords : options[k] # "unset"
      BY DEF PasswordsSet
    <3>2. \A j \in {"password_file", "generate_password"} : options[j] = Origin(j)
      BY <2>2, PasswordKeys DEF SettingsInv, Precedence, Passwords
    <3> QED
      BY <2>2, <3>1, <3>2 DEF SettingsInv, OnePassword, Passwords
  <2> QED
    BY <2>1, <2>3, <2>4 DEF SettingsInv
<1>5. CASE TryListen
  <2>1. TypeOK' /\ Loaded /\ options' = options /\ inputs' = inputs
        /\ pc' \in {"over", "set", "search"} /\ pc = "try_listen"
    BY <1>5 DEF TryListen, Stop, SettingsInv, TypeOK, Loaded, inputs
  <2> QED
    BY <2>1, LaterSteps DEF SettingsInv
<1>6. CASE Search
  <2>1. TypeOK' /\ Loaded /\ options' = options /\ inputs' = inputs
        /\ pc' \in {"over", "set", "search"} /\ pc = "search"
    BY <1>6 DEF Search, Stop, SettingsInv, TypeOK, Loaded, inputs
  <2> QED
    BY <2>1, LaterSteps DEF SettingsInv
<1>7. CASE ServerInit
  <2>1. TypeOK' /\ Loaded /\ options' = options /\ inputs' = inputs
        /\ pc' = "over" /\ pc = "set"
    BY <1>7 DEF ServerInit, Stop, SettingsInv, TypeOK, Loaded, inputs, listenVars
  <2> QED
    BY <2>1, LaterSteps DEF SettingsInv
<1>8. CASE OthersUsePorts
  <2>1. TypeOK'
    <3>1. taken' \subseteq Ports
      BY <1>8 DEF OthersUsePorts, SettingsInv, TypeOK
    <3>2. others' \in 0..MaxOthers
      <4>1. others \in 0..MaxOthers /\ MaxOthers \in Nat
        BY ConfigurationAssumption DEF SettingsInv, TypeOK
      <4>2. others < MaxOthers /\ others' = others + 1
        BY <1>8 DEF OthersUsePorts
      <4> QED
        BY <4>1, <4>2
    <3> QED
      BY <1>8, <3>1, <3>2 DEF OthersUsePorts, SettingsInv, TypeOK
  <2>2. Loaded /\ options' = options /\ inputs' = inputs /\ pc' = pc /\ error' = error
        /\ pc \in {"try_listen", "search", "set"}
    BY <1>8 DEF OthersUsePorts, Loaded
  <2> QED
    BY <2>1, <2>2, LaterSteps DEF SettingsInv
<1>9. CASE UNCHANGED vars
  <2>1. TypeOK' /\ options' = options /\ inputs' = inputs /\ pc' = pc /\ error' = error
    BY <1>9 DEF vars, inputs, listenVars, SettingsInv, TypeOK
  <2>2. /\ \A k : Origin(k)' = Origin(k) /\ FileOrigin(k)' = FileOrigin(k)
        /\ ExclusivePasswords' = ExclusivePasswords
    BY <2>1, OriginKept
  <2> QED
    BY <2>1, <2>2 DEF SettingsInv, FilesRead, ArgumentsRead, Precedence,
                      OnePassword, CanAuthenticate, Loaded
<1> QED
  BY <1>1, <1>2, <1>3, <1>4, <1>5, <1>6, <1>7, <1>8, <1>9 DEF Next

LEMMA SettingsHold == Spec => []SettingsInv
  BY InitSettings, SettingsStep, PTL DEF Spec

\* Every setting has an origin, and x11spice only stops for a reason it reports.
THEOREM TypeCorrect == Spec => []TypeOK
<1>1. SettingsInv => TypeOK
  BY DEF SettingsInv
<1> QED
  BY <1>1, SettingsHold, PTL

\* The documented precedence of the command line over the files
\* (options_load reads the arguments twice).
THEOREM SettingsFollowPrecedence == Spec => []Precedence
<1>1. SettingsInv => Precedence
  BY DEF SettingsInv
<1> QED
  BY <1>1, SettingsHold, PTL

\* The password comes from one source, whatever files and arguments say together.
THEOREM PasswordHasOneSource == Spec => []OnePassword
<1>1. SettingsInv => OnePassword
  BY DEF SettingsInv
<1> QED
  BY <1>1, SettingsHold, PTL

\* No server starts to listen without a password, unless ticketing is off.
THEOREM ViewersAuthenticate == Spec => []CanAuthenticate
<1>1. SettingsInv => CanAuthenticate
  BY DEF SettingsInv
<1> QED
  BY <1>1, SettingsHold, PTL

-----------------------------------------------------------------------------
\* A search stays in its range.
SearchInRange ==
    parsed.start # NoPort =>
        /\ parsed.start \in Nat /\ parsed.end \in Nat
        /\ pc \in {"search", "set"} => port \in Nat /\ port >= parsed.start

SearchInv == TypeOK /\ SearchInRange /\ FirstOpenPort

\* A range has two ends.
LEMMA RangeHasEnds ==
    ASSUME NEW s, ListenParse(s).start # NoPort
    PROVE  ListenParse(s).start \in Nat /\ ListenParse(s).end \in Nat
<1>1. ASSUME NEW t, ParseAnyHost(t).start # NoPort
      PROVE  ParseAnyHost(t).start \in Nat /\ ParseAnyHost(t).end \in Nat
  <2> DEFINE trimmed == SubSeq(t, 1, LastNotIn(t, {" "}))
             p == LastNotIn(trimmed, Numbers \cup {"-"})
             tail == SubSeq(trimmed, p + 1, Len(trimmed))
  <2>1. /\ IsPorts(tail) /\ Len(tail) = 3
        /\ ParseAnyHost(t).start = ValueOf[tail[1]]
        /\ tail # <<>> => ParseAnyHost(t).end = ValueOf[tail[Len(tail)]]
    BY <1>1 DEF ParseAnyHost, ParseError
  <2> HIDE DEF tail
  <2>2. tail # <<>>
    <3> SUFFICES ASSUME tail = <<>> PROVE Len(tail) = 0
      BY <2>1
    <3> QED
      OBVIOUS
  <2>3. tail[1] \in Numbers /\ tail[3] \in Numbers
    BY <2>1, <2>2 DEF IsPorts
  <2> QED
    BY <2>1, <2>2, <2>3, ListenAssumption
<1>2. ASSUME NEW t, ParseHostAndPorts(t).start # NoPort
      PROVE  ParseHostAndPorts(t).start \in Nat /\ ParseHostAndPorts(t).end \in Nat
  <2>1. /\ ParseHostAndPorts(t).start = ParseAnyHost(t).start
        /\ ParseHostAndPorts(t).end = ParseAnyHost(t).end
    BY <1>2 DEF ParseHostAndPorts, ParseAnyHost, ParseError
  <2> QED
    BY <1>1, <1>2, <2>1
<1> QED
  BY <1>2 DEF ListenParse

LEMMA SearchStep == SettingsInv /\ SearchInv /\ [Next]_vars => SearchInv'
<1> SUFFICES ASSUME SettingsInv, SearchInv, [Next]_vars, TypeOK'
             PROVE  (SearchInRange /\ FirstOpenPort)'
  BY SettingsStep DEF SearchInv, SettingsInv
<1>1. CASE ParseArguments \/ FromConfig \/ ProcessIO \/ CheckConfig
  <2>1. parsed' = parsed /\ pc' \notin {"search", "set"} /\ error' # "ports"
    BY <1>1 DEF ParseArguments, FromConfig, ProcessIO, CheckConfig, Stop, listenVars,
                SearchInv, TypeOK
  <2> QED
    BY <2>1 DEF SearchInv, SearchInRange, FirstOpenPort
<1>2. CASE TryListen
  <2>1. error' # "ports"
    BY <1>2 DEF TryListen, Stop, SearchInv, TypeOK
  <2>2. parsed'.start # NoPort => parsed'.start \in Nat /\ parsed'.end \in Nat
    BY <1>2, RangeHasEnds DEF TryListen
  <2>3. parsed'.start # NoPort => port' = parsed'.start /\ pc' # "set"
    BY <1>2 DEF TryListen, Stop
  <2>4. \A n \in Nat : n..(n - 1) = {} /\ n >= n
    OBVIOUS
  <2> QED
    BY <2>1, <2>2, <2>3, <2>4 DEF SearchInRange, FirstOpenPort
<1>3. CASE Search
  <2> SUFFICES ASSUME parsed.start # NoPort PROVE (SearchInRange /\ FirstOpenPort)'
    BY <1>3 DEF Search, SearchInRange, FirstOpenPort
  <2>1. /\ parsed.start \in Nat /\ parsed.end \in Nat /\ port \in Nat
        /\ port >= parsed.start /\ parsed' = parsed
        /\ parsed.start..(port - 1) \subseteq found_taken /\ error = "none"
    BY <1>3 DEF Search, SearchInv, SearchInRange, FirstOpenPort, TypeOK
  <2>2. CASE port > parsed.end /\ Stop("ports") /\ UNCHANGED <<port, found_taken>>
    <3>1. parsed.start..parsed.end \subseteq parsed.start..(port - 1)
      BY <2>1, <2>2
    <3> QED
      BY <2>1, <2>2, <3>1 DEF Stop, SearchInRange, FirstOpenPort
  <2>3. CASE /\ port' = port + 1 /\ found_taken' = found_taken \cup {port}
             /\ UNCHANGED <<pc, error>>
    <3>1. port' - 1 = port /\ port' \in Nat /\ port' >= parsed.start
      BY <2>1, <2>3
    <3>2. parsed.start..port = (parsed.start..(port - 1)) \cup {port}
      BY <2>1
    <3>3. parsed.start..port \subseteq found_taken'
      BY <2>1, <2>3, <3>2
    <3> QED
      BY <1>3, <2>1, <2>3, <3>1, <3>3 DEF Search, SearchInRange, FirstOpenPort
  <2>4. CASE port <= parsed.end /\ pc' = "set" /\ UNCHANGED <<port, found_taken, error>>
    BY <2>1, <2>4 DEF SearchInRange, FirstOpenPort
  <2> QED
    BY <1>3, <2>2, <2>3, <2>4 DEF Search
<1>4. CASE ServerInit
  BY <1>4 DEF ServerInit, Stop, listenVars, SearchInv, SearchInRange, FirstOpenPort, TypeOK
<1>5. CASE OthersUsePorts
  BY <1>5 DEF OthersUsePorts, SearchInv, SearchInRange, FirstOpenPort
<1>6. CASE UNCHANGED vars
  BY <1>6 DEF vars, listenVars, SearchInv, SearchInRange, FirstOpenPort
<1> QED
  BY <1>1, <1>2, <1>3, <1>4, <1>5, <1>6 DEF Next

\* A range's first open port is taken, and none is left out
\* (listen_find_open_port).
THEOREM SearchFindsFirstOpenPort == Spec => []FirstOpenPort
<1>1. Init => SearchInv
  <2>1. Init => TypeOK /\ parsed.start = NoPort
    BY InitSettings DEF Init, ParseError, SettingsInv
  <2> QED
    BY <2>1 DEF SearchInv, SearchInRange, FirstOpenPort
<1>2. SearchInv => FirstOpenPort
  BY DEF SearchInv
<1> QED
  BY <1>1, <1>2, SearchStep, SettingsHold, PTL DEF Spec

-----------------------------------------------------------------------------
\* What listen_parse looks for from the end is where the condition says.
LEMMA LastIsOne ==
    ASSUME NEW S, NEW s \in Seq(S), NEW K, NEW n \in 0..Len(s),
           n = 0 \/ s[n] \notin K, \A j \in (n + 1)..Len(s) : s[j] \in K
    PROVE  LastNotIn(s, K) = n
<1> DEFINE P(i) == /\ i = 0 \/ s[i] \notin K
                   /\ \A j \in (i + 1)..Len(s) : s[j] \in K
<1>1. ASSUME NEW i \in 0..Len(s), P(i) PROVE i = n
  <2>1. Len(s) \in Nat
    OBVIOUS
  <2>2. ~(i < n)
    <3> SUFFICES ASSUME i < n PROVE FALSE
      OBVIOUS
    <3>1. n \in (i + 1)..Len(s) /\ n # 0
      BY <2>1
    <3> QED
      BY <1>1, <3>1
  <2>3. ~(n < i)
    <3> SUFFICES ASSUME n < i PROVE FALSE
      OBVIOUS
    <3>1. i \in (n + 1)..Len(s) /\ i # 0
      BY <2>1
    <3> QED
      BY <1>1, <3>1
  <2> QED
    BY <2>1, <2>2, <2>3
<1> QED
  BY <1>1 DEF LastNotIn

\* A sequence is the sequences it was put together from.
LEMMA Halves ==
    ASSUME NEW S, NEW s \in Seq(S), NEW t \in Seq(S)
    PROVE  /\ SubSeq(s, 1, Len(s)) = s /\ SubSeq(s, 1, 0) = <<>>
           /\ SubSeq(s \o t, 1, Len(s)) = s
           /\ SubSeq(s \o t, Len(s) + 1, Len(s \o t)) = t
           /\ \A i \in 1..Len(s) : (s \o t)[i] = s[i]
           /\ \A i \in 1..Len(t) : (s \o t)[i + Len(s)] = t[i]
           /\ Len(s \o t) = Len(s) + Len(t)
  OBVIOUS

LEMMA ShortSequences ==
    ASSUME NEW S, NEW a \in S, NEW b \in S, NEW c \in S
    PROVE  /\ <<a>> \in Seq(S) /\ Len(<<a>>) = 1 /\ <<a>>[1] = a
           /\ <<a, b, c>> \in Seq(S) /\ Len(<<a, b, c>>) = 3
           /\ <<a, b, c>>[1] = a /\ <<a, b, c>>[2] = b /\ <<a, b, c>>[3] = c
  OBVIOUS


\* What ends in a colon and ports is taken apart at the colon.
LEMMA PortsAfterHost ==
    ASSUME NEW S, Numbers \cup {"-", ":"} \subseteq S, NEW host \in Seq(S), NEW start \in Numbers, NEW end \in Numbers
    PROVE  ParseHostAndPorts(Written(host, host # <<>>, start, end)) = Meant(host, start, end)
<1> DEFINE colon == IF host # <<>> THEN <<":">> ELSE <<>>
           front == host \o colon
           ports == IF end = start THEN <<start>> ELSE <<start, "-", end>>
           s == front \o ports
           K == Numbers \cup {"-"}
<1>1. Written(host, host # <<>>, start, end) = s
  BY DEF Written
<1>2. /\ Numbers \subseteq S
      /\ \A number \in Numbers : number \notin {" ", "-", ":"}
      /\ ValueOf \in [Numbers -> Nat]
  BY ListenAssumption
<1>3. /\ ports \in Seq(S) /\ Len(ports) \in {1, 3}
      /\ Len(ports) = 1 => ports[1] = start /\ end = start
      /\ Len(ports) = 3 => ports[1] = start /\ ports[2] = "-" /\ ports[3] = end /\ end # start
  <2>1. CASE end = start
    <3>1. ports = <<start>>
      BY <2>1
    <3> HIDE DEF ports
    <3>2. Len(ports) = 1 /\ ports[1] = start /\ ports \in Seq(S)
      BY <1>2, <3>1, ShortSequences
    <3> QED
      BY <2>1, <3>2
  <2>2. CASE end # start
    <3>1. ports = <<start, "-", end>>
      BY <2>2
    <3> HIDE DEF ports
    <3>2. /\ Len(ports) = 3 /\ ports \in Seq(S)
          /\ ports[1] = start /\ ports[2] = "-" /\ ports[3] = end
      BY <1>2, <3>1, ShortSequences
    <3> QED
      BY <2>2, <3>2
  <2> QED
    BY <2>1, <2>2
<1>4. /\ Len(ports) > 0 /\ ports # <<>> /\ ports[Len(ports)] = end
      /\ \A i \in 1..Len(ports) : ports[i] \in K
  <2>1. CASE Len(ports) = 1
    BY <1>3, <2>1
  <2>2. CASE Len(ports) = 3
    <3>1. \A i \in 1..3 : i = 1 \/ i = 2 \/ i = 3
      OBVIOUS
    <3> QED
      BY <1>3, <2>2, <3>1
  <2> QED
    BY <1>3, <2>1, <2>2
<1>5. /\ front \in Seq(S)
      /\ front = <<>> => host = <<>>
      /\ front # <<>> => /\ Len(front) > 1 /\ front[Len(front)] = ":"
                         /\ SubSeq(front, 1, Len(front) - 1) = host
  <2>1. CASE host = <<>>
    BY <2>1
  <2>2. CASE host # <<>>
    <3>1. front = host \o <<":">>
      BY <2>2
    <3>4. <<":">> \in Seq(S) /\ Len(<<":">>) = 1 /\ <<":">>[1] = ":"
      BY ShortSequences
    <3>5. Len(host) > 0 /\ Len(host) \in Nat
      BY <2>2
    <3> HIDE DEF front
    <3>2. /\ Len(front) = Len(host) + 1 /\ front[1 + Len(host)] = ":"
          /\ SubSeq(front, 1, Len(host)) = host
      BY <3>1, <3>4, Halves
    <3>3. Len(front) - 1 = Len(host) /\ 1 + Len(host) = Len(front) /\ Len(front) > 1
      BY <3>2, <3>5
    <3> QED
      BY <2>2, <3>1, <3>2, <3>3, <3>4
  <2> QED
    BY <2>1, <2>2
<1> HIDE DEF ports, front
<1>6. /\ s \in Seq(S) /\ Len(s) = Len(front) + Len(ports) /\ Len(front) \in Nat
      /\ Len(s) \in Nat
      /\ SubSeq(s, 1, Len(s)) = s
      /\ SubSeq(s, 1, Len(front)) = front /\ SubSeq(s, Len(front) + 1, Len(s)) = ports
      /\ \A i \in 1..Len(front) : s[i] = front[i]
      /\ \A i \in 1..Len(ports) : s[i + Len(front)] = ports[i]
  <2>1. front \in Seq(S) /\ ports \in Seq(S)
    BY <1>3, <1>5
  <2>2. s \in Seq(S) /\ Len(s) \in Nat /\ Len(front) \in Nat /\ SubSeq(s, 1, Len(s)) = s
    BY <2>1
  <2> QED
    BY <2>1, <2>2, Halves
<1> HIDE DEF s
<1>7. LastNotIn(s, {" "}) = Len(s)
  <2>1. s[Len(ports) + Len(front)] = end
    <3>1. Len(ports) \in 1..Len(ports)
      BY <1>3
    <3>2. s[Len(ports) + Len(front)] = ports[Len(ports)]
      BY <1>6, <3>1
    <3> QED
      BY <1>4, <3>2
  <2>2. Len(ports) + Len(front) = Len(s)
    BY <1>3, <1>6
  <2>3. s[Len(s)] \notin {" "}
    BY <1>2, <2>1, <2>2
  <2>4. Len(s) \in 0..Len(s) /\ (Len(s) + 1)..Len(s) = {}
    BY <1>6
  <2> QED
    BY <1>6, <2>3, <2>4, LastIsOne
<1>8. LastNotIn(s, K) = Len(front)
  <2>1. Len(front) = 0 \/ s[Len(front)] \notin K
    <3> SUFFICES ASSUME Len(front) # 0 PROVE s[Len(front)] \notin K
      OBVIOUS
    <3>1. front # <<>> /\ Len(front) \in 1..Len(front)
      BY <1>6
    <3>2. s[Len(front)] = ":"
      BY <1>5, <1>6, <3>1
    <3> QED
      BY <1>2, <3>2
  <2>2. \A j \in (Len(front) + 1)..Len(s) : s[j] \in K
    <3> SUFFICES ASSUME NEW j \in (Len(front) + 1)..Len(s) PROVE s[j] \in K
      OBVIOUS
    <3>1. j - Len(front) \in 1..Len(ports) /\ (j - Len(front)) + Len(front) = j
      BY <1>3, <1>6
    <3> QED
      BY <1>4, <1>6, <3>1
  <2>3. Len(front) \in 0..Len(s)
    BY <1>3, <1>6
  <2> HIDE DEF K
  <2> QED
    BY <1>6, <2>1, <2>2, <2>3, LastIsOne
<1>9. IsPorts(ports)
  BY <1>3 DEF IsPorts
<1> DEFINE start_port == IF Len(ports) = 3 THEN ValueOf[ports[1]] ELSE NoPort
           Result(addr) ==
               [ok |-> TRUE, addr |-> addr, start |-> start_port, end |-> ValueOf[end]]
<1>10. ParseAnyHost(s) = Result(front)
  BY <1>4, <1>6, <1>7, <1>8, <1>9 DEF ParseAnyHost
<1>11. Result(host) = Meant(host, start, end)
  BY <1>3 DEF Meant
<1> HIDE DEF start_port
<1>12. Result(front).addr = front /\ Result(front).ok
  OBVIOUS
<1> HIDE DEF Result
<1>13. CASE front = <<>>
  <2>1. Len(front) = 0 /\ ~(Len(front) > 1) /\ SubSeq(front, 1, Len(front)) = host
    BY <1>5, <1>13
  <2>2. ParseHostAndPorts(s) = [ok |-> Result(front).ok, addr |-> host,
                                start |-> Result(front).start, end |-> Result(front).end]
    BY <1>10, <1>12, <2>1 DEF ParseHostAndPorts
  <2> QED
    BY <1>1, <1>11, <2>2 DEF Result
<1>14. CASE front # <<>>
  <2>1. ParseHostAndPorts(s) = [ok |-> Result(front).ok, addr |-> host,
                                start |-> Result(front).start, end |-> Result(front).end]
    BY <1>5, <1>10, <1>12, <1>14 DEF ParseHostAndPorts
  <2> QED
    BY <1>1, <1>11, <2>1 DEF Result
<1> QED
  BY <1>13, <1>14

\* What listen_parse was given, and made of it.
ListenInv ==
    /\ listen_spec \in Seq(STRING)
    /\ listen_spec # <<>> => parsed = ListenParse(listen_spec)

LEMMA ListenStep == ListenInv /\ [Next]_vars => ListenInv'
<1> SUFFICES ASSUME ListenInv, [Next]_vars PROVE ListenInv'
  OBVIOUS
<1>1. CASE TryListen
  <2>1. PICK s \in {DefaultSpec} \cup ListenSpecs : listen_spec' = s /\ parsed' = ListenParse(s)
    BY <1>1 DEF TryListen
  <2>2. s \in Seq(STRING)
    BY ConfigurationAssumption
  <2> QED
    BY <2>1, <2>2 DEF ListenInv
<1>2. CASE UNCHANGED <<listen_spec, parsed>>
  BY <1>2 DEF ListenInv
<1> QED
  BY <1>1, <1>2 DEF Next, ParseArguments, FromConfig, ProcessIO, CheckConfig, Search,
                    ServerInit, OthersUsePorts, listenVars, vars

LEMMA HostOfSpec ==
    ASSUME NEW S, NEW bare \in Seq(S), NEW n \in 0..Len(bare)
    PROVE  /\ SubSeq(bare, 1, n) \in Seq(S) /\ Len(SubSeq(bare, 1, n)) = n
           /\ SubSeq(bare, 1, n) # <<>> <=> n > 0
           /\ n > 0 => Head(bare) = SubSeq(bare, 1, n)[1]
  OBVIOUS

\* A host, a colon and ports are parsed as what they are, whatever they are.
THEOREM ListenParsed == Spec => []ListenIsMeant
<1>1. Init => ListenInv
  <2>1. <<>> \in Seq(STRING)
    OBVIOUS
  <2> QED
    BY <2>1 DEF Init, ListenInv
<1>2. ListenInv => ListenIsMeant
  <2> DEFINE prefixed == listen_spec # <<>> /\ Head(listen_spec) = "spice://"
             bare == IF prefixed THEN Tail(listen_spec) ELSE listen_spec
  <2> SUFFICES ASSUME ListenInv, NEW start \in Numbers, NEW end \in Numbers,
                      NEW n \in 0..Len(bare),
                      {SubSeq(bare, 1, n)[i] : i \in 1..n} \cap {":", "spice+unix://"} = {},
                      bare = Written(SubSeq(bare, 1, n), n > 0, start, end)
               PROVE  parsed = Meant(SubSeq(bare, 1, n), start, end)
    BY DEF ListenIsMeant
  <2> DEFINE host == SubSeq(bare, 1, n)
             S == STRING \cup Numbers \cup {"-", ":"}
             ports == IF end = start THEN <<start>> ELSE <<start, "-", end>>
  <2>1. listen_spec \in Seq(S)
    BY DEF ListenInv
  <2>2. bare \in Seq(S)
    BY <2>1
  <2>3. /\ host \in Seq(S) /\ (host # <<>> <=> n > 0)
        /\ n > 0 => Head(bare) = host[1]
    BY <2>2, HostOfSpec
  <2>4. bare = Written(host, host # <<>>, start, end)
    BY <2>3 DEF Written
  <2>5. bare # <<>> /\ Head(bare) # "spice+unix://"
    <3>1. CASE n > 0
      <4>1. host # <<>> /\ host \in Seq(S) /\ 1 \in 1..n
        BY <2>3, <3>1
      <4>2. bare # <<>>
        BY <3>1
      <4> QED
        BY <2>3, <3>1, <4>1, <4>2
    <3>2. CASE ~(n > 0)
      <4>1. bare = <<>> \o <<>> \o ports
        <5>1. host = <<>>
          BY <2>3, <3>2
        <5> HIDE DEF bare, host
        <5> QED
          BY <2>4, <5>1 DEF Written
      <4>2. bare = ports
        <5>1. ports \in Seq(S)
          BY ShortSequences
        <5> QED
          BY <4>1, <5>1
      <4>3. Head(ports) = start /\ ports # <<>>
        OBVIOUS
      <4>4. start # "spice+unix://"
        BY ListenAssumption
      <4> QED
        BY <4>2, <4>3, <4>4
    <3> QED
      BY <3>1, <3>2
  <2>6. parsed = ParseHostAndPorts(bare)
    <3>1. listen_spec # <<>> /\ Head(listen_spec) # "spice+unix://"
      <4>1. CASE prefixed
        BY <4>1
      <4>2. CASE ~prefixed
        BY <2>5, <4>2
      <4> QED
        BY <4>1, <4>2
    <3> QED
      BY <3>1 DEF ListenInv, ListenParse
  <2>7. ParseHostAndPorts(bare) = Meant(host, start, end)
    <3> HIDE DEF bare, host
    <3>1. Numbers \cup {"-", ":"} \subseteq S
      OBVIOUS
    <3> HIDE DEF S
    <3>2. ParseHostAndPorts(Written(host, host # <<>>, start, end)) = Meant(host, start, end)
      BY <2>3, <3>1, PortsAfterHost
    <3> QED
      BY <2>4, <3>2, Zenon
  <2> QED
    BY <2>6, <2>7
<1> QED
  BY <1>1, <1>2, ListenStep, PTL DEF Spec
=============================================================================
