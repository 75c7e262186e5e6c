-------------------------- MODULE CliProcessProofs ---------------------------
(* Theorems about CliProcess: what a process connects with, what it lets      *)
(* through of a line, and which versions it bundles for.                     *)
EXTENDS CliProcess, CliOperatorProofs

\* The connection settings that are asked for mean this connection.
Connection(a) ==
    [server |-> a.server,
     proxy |-> IF a.noProxy THEN Null ELSE IF Given(a.proxy) THEN a.proxy ELSE env]

\* The command of a process is that of its line.
CommandInv ==
    /\ phase # "idle" => line \in Lines /\ command = createCommand(line)
    /\ phase \notin {"idle", "exited"} => command # NoCommand

ConnectInv ==
    /\ config = asked
    /\ phase \in {"idle", "execute"} => sdk = NoSdk
    /\ phase = "authenticate" =>
          /\ command.type \in {<<"login">>, <<"register">>}
          /\ sdk = Connection(AskedBy(line))
    /\ phase \notin {"idle", "execute", "exited", "authenticate"} =>
          sdk = Connection(asked)

VersionInv == BundlesWhatCanBeReleased

\* How a process has ended, and which are the settings it could end with.
ExitInv ==
    /\ phase \in {"idle", "execute", "exited", "authenticate", "call", "validate", "prepare",
                  "bundle", "release", "upload", "debug", "listen"}
    /\ exit \in {"none", "help", "done", "failed", "invalid command"}
    /\ phase = "exited" <=> exit # "none"
    /\ exit = "help" => command = NoCommand
    /\ exit = "invalid command" => command # NoCommand /\ command.type \notin Dispatched

SettingsInv ==
    /\ config \in Asked \cup {NoConfig}
    /\ env \in EnvProxy \cup {Null}
    /\ phase \notin {"idle", "exited", "execute", "authenticate"} => config # NoConfig
    /\ sdk \in Connections \cup {NoSdk}

\* What was read ends with a line as long as every chunk has; nothing was read
\* before the process listens.
LogInv ==
    /\ log \in Seq(STRING) /\ read \in Seq(STRING)
    /\ printed \in Seq(Seq(STRING)) /\ whole \in BOOLEAN
    /\ phase \notin {"listen", "exited"} => read = <<>> /\ printed = <<>>
    /\ whole => Ended(read)
    /\ PrintsMessagesOnly

IInv == CommandInv /\ ConnectInv /\ VersionInv /\ ExitInv /\ SettingsInv /\ LogInv

-----------------------------------------------------------------------------
(* Lines and versions                                                      *)

\* The address of a server, written over field by field.
LEMMA UrlWritten ==
    ASSUME NEW r, NEW h, NEW k, NEW s, NEW p,
           r = [host |-> h, colon |-> k, slash |-> s, space |-> p]
    PROVE  [r EXCEPT !.space = FALSE, !.slash = FALSE, !.colon = "://"]
               = [host |-> h, colon |-> "://", slash |-> FALSE, space |-> FALSE]
<1> DEFINE q == [r EXCEPT !.space = FALSE, !.slash = FALSE, !.colon = "://"]
           g == [host |-> h, colon |-> "://", slash |-> FALSE, space |-> FALSE]
<1>1. /\ DOMAIN q = {"host", "colon", "slash", "space"}
      /\ q = [x \in DOMAIN q |-> q[x]]
  OBVIOUS
<1>2. q.host = h /\ q.colon = "://"
  OBVIOUS
<1>3. q.slash = FALSE /\ q.space = FALSE
  OBVIOUS
<1>4. DOMAIN g = DOMAIN q /\ g = [x \in DOMAIN q |-> g[x]]
  BY <1>1
<1>5. g.host = h /\ g.colon = "://" /\ g.slash = FALSE /\ g.space = FALSE
  OBVIOUS
<1>6. \A x \in DOMAIN q : q[x] = g[x]
  <2>1. /\ q["host"] = g["host"] /\ q["colon"] = g["colon"]
        /\ q["slash"] = g["slash"] /\ q["space"] = g["space"]
    BY <1>2, <1>3, <1>5
  <2> HIDE DEF q, g
  <2> QED BY <1>1, <2>1
<1> HIDE DEF q, g
<1>7. q = g
  BY <1>1, <1>4, <1>6
<1> QED BY <1>7 DEF q, g

\* What a login is given is what its line asks for.
LEMMA LoginAsks ==
    ASSUME NEW l \in Lines, NEW c, c = createCommand(l), c # NoCommand,
           c.type \in {<<"login">>, <<"register">>}
    PROVE  Settings(c.server, c.proxy, c.noProxy) = AskedBy(l)
<1> DEFINE type == CommandType(l)
<1>1. /\ c.type = type
      /\ c.server = IF type[1] \in {"link", "login", "register"}
                    THEN getServerUrl(l) ELSE Null
      /\ c.proxy = Option(l, "proxy", Null)
      /\ c.noProxy = Option(l, "noProxy", FALSE)
  BY DEF createCommand
<1>2. c.server = getServerUrl(l)
  BY <1>1
<1>3. getServerUrl(l) =
          IF Word(l, 2) = "" THEN Null ELSE Url(l.url.host, "://", FALSE, FALSE)
  <2>1. l.url = [host |-> l.url.host, colon |-> l.url.colon,
                 slash |-> l.url.slash, space |-> l.url.space]
    BY LinesAssumption
  <2>2. [l.url EXCEPT !.space = FALSE, !.slash = FALSE, !.colon = "://"]
            = [host |-> l.url.host, colon |-> "://", slash |-> FALSE, space |-> FALSE]
    BY <2>1, UrlWritten
  <2> QED BY <2>2 DEF getServerUrl, Url
<1> QED BY <1>1, <1>2, <1>3 DEF AskedBy

\* A version found in a project can be released for, but for padded numbers.
LEMMA FoundVersion ==
    ASSUME NEW p \in Projects, NEW v, v = getReactNativeProjectAppVersion(p), v # NotFound
    PROVE  validRange(v) \/ v \in {"paddedTwoParts", "paddedThreeParts"}
<1>1. \A t : Valid(t) = NotFound \/ Valid(t) \in {"semver", "twoParts", "paddedTwoParts"}
  BY DEF Valid, isValidVersion
<1>2. \A f : PlistVersion(f) = NotFound \/ PlistVersion(f) \in {"semver", "twoParts", "paddedTwoParts"}
  BY <1>1 DEF PlistVersion
<1>3. \A f : PropertyVersion(f) = NotFound
             \/ PropertyVersion(f) \in {"semver", "twoParts", "paddedTwoParts"}
  BY <1>1 DEF PropertyVersion
<1>4. \A g, f : GradleVersion(g, f) = NotFound
                \/ GradleVersion(g, f) \in {"semver", "twoParts", "paddedTwoParts"}
  BY <1>1, <1>3 DEF GradleVersion
<1>5. \A m : AppxVersion(m) = NotFound \/ AppxVersion(m) \in {"semver", "paddedThreeParts"}
  BY DEF AppxVersion
<1>6. v \in {"semver", "twoParts", "paddedTwoParts", "paddedThreeParts"}
  BY <1>2, <1>4, <1>5, ProjectsAssumption DEF getReactNativeProjectAppVersion
<1> QED BY <1>6 DEF validRange

\* getProxy makes of the settings the connection they mean.
LEMMA ConnectMeans ==
    ASSUME NEW a, Connect(a)
    PROVE  sdk' = Connection(a)
BY DEF Connect, Connection, getProxy

-----------------------------------------------------------------------------
(* Steps                                                                   *)

LEMMA CommandNext == CommandInv /\ [Next]_vars => CommandInv'
<1> SUFFICES ASSUME CommandInv, [Next]_vars PROVE CommandInv'
  OBVIOUS
<1>1. CASE Start
  BY <1>1 DEF CommandInv, Start, End, GoTo
<1>2. CASE Leave
  BY <1>2 DEF CommandInv, Leave
<1>3. CASE /\ UNCHANGED <<line, command>>
           /\ phase \notin {"idle", "exited"} \/ UNCHANGED phase
  BY <1>3 DEF CommandInv
<1>4. CASE Work \/ LogData \/ LogEnds \/ UNCHANGED vars
  BY <1>3, <1>4 DEF Work, Execute, Authenticate, Call, Validate, PrepareReact, Bundle,
                    PrepareCordova, Release, Upload, Listen, LogData, LogEnds, vars
<1> QED BY <1>1, <1>2, <1>4 DEF Next

LEMMA ConnectNext == CommandInv /\ ConnectInv /\ [Next]_vars => ConnectInv'
<1> SUFFICES ASSUME CommandInv, ConnectInv, [Next]_vars PROVE ConnectInv'
  OBVIOUS
<1>1. CASE Start
  BY <1>1 DEF ConnectInv, Start, End, GoTo, session
<1>2. CASE Leave
  BY <1>2 DEF ConnectInv, Leave, session
<1>3. CASE Execute
  <2>1. /\ UNCHANGED <<config, asked, env, line, command>>
        /\ phase = "execute" /\ line \in Lines /\ command = createCommand(line)
        /\ command # NoCommand /\ config = asked
    BY <1>3 DEF Execute, CommandInv, ConnectInv, session
  <2>2. CASE phase' = "exited"
    BY <2>1, <2>2 DEF ConnectInv
  <2>3. CASE /\ command.type \in {<<"login">>, <<"register">>}
             /\ GoTo("authenticate") /\ Connect(command)
    <3>1. sdk' = Connection(command)
      BY <2>3, ConnectMeans
    <3>2. Connection(command) = Connection(AskedBy(line))
      <4>1. AskedBy(line) = Settings(command.server, command.proxy, command.noProxy)
        BY <2>1, <2>3, LoginAsks
      <4> QED BY <4>1 DEF Connection, Settings
    <3>3. Connection(AskedBy(line))' = Connection(AskedBy(line))
      BY <2>1 DEF Connection
    <3> QED BY <2>1, <2>3, <3>1, <3>2, <3>3 DEF ConnectInv, GoTo
  <2>4. CASE GoTo(FirstPhase(command.type)) /\ Connect(config)
    <3>1. sdk' = Connection(asked)'
      BY <2>1, <2>4, ConnectMeans DEF Connection
    <3>2. phase' \notin {"idle", "execute", "exited", "authenticate"}
      BY <2>4 DEF GoTo, FirstPhase
    <3> QED BY <2>1, <3>1, <3>2 DEF ConnectInv
  <2> QED BY <1>3, <2>2, <2>3, <2>4 DEF Execute, End
<1>4. CASE Authenticate
  <2>1. phase' = "exited" /\ phase = "authenticate"
    BY <1>4 DEF Authenticate, End
  <2>2. config' = asked'
    <3>1. CASE UNCHANGED session
      BY <3>1 DEF session, ConnectInv
    <3>2. CASE config' = Serialized(command) /\ asked' = AskedBy(line)
      BY <2>1, <3>2, LoginAsks DEF CommandInv, ConnectInv, Serialized
    <3> QED BY <1>4, <3>1, <3>2 DEF Authenticate
  <2> QED BY <2>1, <2>2 DEF ConnectInv
<1>5. CASE /\ phase \notin {"idle", "execute", "exited", "authenticate"}
           /\ \/ /\ UNCHANGED <<config, asked, env, line, command, sdk>>
                 /\ phase' \notin {"idle", "execute", "authenticate"}
              \/ phase' = "exited" /\ config' = asked'
  <2>1. CASE phase' = "exited" /\ config' = asked'
    BY <2>1 DEF ConnectInv
  <2>2. CASE /\ UNCHANGED <<config, asked, env, line, command, sdk>>
             /\ phase' \notin {"idle", "execute", "authenticate"}
    BY <1>5, <2>2 DEF ConnectInv, Connection
  <2> QED BY <1>5, <2>1, <2>2
<1>6. CASE Call \/ Validate \/ Upload
  <2>1. config = asked
    BY DEF ConnectInv
  <2> QED BY <1>5, <1>6, <2>1
          DEF Call, Validate, Upload, Refuse, DeleteConfig, End, GoTo, session
<1>7. CASE PrepareReact \/ Bundle \/ PrepareCordova \/ Release \/ Listen \/ LogData \/ LogEnds
  <2>1. config = asked
    BY DEF ConnectInv
  <2> QED BY <1>5, <1>7, <2>1
          DEF PrepareReact, Bundle, PrepareCordova, Release, Listen, LogData, LogEnds,
              End, GoTo, session
<1>8. CASE UNCHANGED vars
  BY <1>8 DEF vars, session, ConnectInv, Connection
<1> QED BY <1>1, <1>2, <1>3, <1>4, <1>6, <1>7, <1>8 DEF Next, Work

LEMMA VersionNext == CommandInv /\ VersionInv /\ [Next]_vars => VersionInv'
<1> SUFFICES ASSUME CommandInv, VersionInv, [Next]_vars,
                    phase' \in {"bundle", "release"}, command'.type = <<"release-react">>
             PROVE  (validRange(version) \/ version \in {"paddedTwoParts", "paddedThreeParts"})'
  BY DEF VersionInv, BundlesWhatCanBeReleased
<1>1. CASE UNCHANGED <<phase, command, version>>
  BY <1>1 DEF VersionInv, BundlesWhatCanBeReleased, validRange
<1>2. CASE Execute
  <2>1. command' = command /\ phase' = FirstPhase(command.type)
    BY <1>2 DEF Execute, End, GoTo
  <2>2. phase' = "validate"
    BY <2>1 DEF FirstPhase
  <2> QED BY <2>2
<1>3. CASE PrepareReact
  <2>1. CASE Given(version) /\ validRange(version) /\ version' = version
    BY <2>1 DEF validRange
  <2>2. CASE \E p \in Projects :
                version' = getReactNativeProjectAppVersion(p) /\ version' # NotFound
    BY <2>2, FoundVersion DEF validRange
  <2> QED BY <1>3, <2>1, <2>2 DEF PrepareReact, End, GoTo
<1>4. CASE Bundle
  BY <1>4 DEF Bundle, VersionInv, BundlesWhatCanBeReleased, validRange
<1>5. CASE PrepareCordova
  BY <1>5 DEF PrepareCordova
<1>6. CASE LogData
  BY <1>1, <1>6 DEF LogData
<1>7. CASE Start \/ Leave \/ Authenticate \/ Call \/ Validate \/ Release \/ Upload \/ Listen
           \/ LogEnds
  BY <1>7 DEF Start, Leave, Authenticate, Call, Validate, Release, Upload, Listen, LogEnds,
              Refuse, End, GoTo
<1>8. CASE UNCHANGED vars
  BY <1>1, <1>8 DEF vars
<1> QED BY <1>2, <1>3, <1>4, <1>5, <1>6, <1>7, <1>8 DEF Next, Work

\* Settings lead to one of the connections.
LEMMA ConnectionType ==
    ASSUME NEW a \in Asked, env \in EnvProxy \cup {Null}
    PROVE  Connection(a) \in Connections
BY DEF Connection, Connections

LEMMA ExitNext == CommandInv /\ ExitInv /\ [Next]_vars => ExitInv'
<1> SUFFICES ASSUME CommandInv, ExitInv, [Next]_vars PROVE ExitInv'
  OBVIOUS
<1>1. CASE Start
  BY <1>1 DEF ExitInv, Start, End, GoTo
<1>2. CASE Leave
  BY <1>2 DEF ExitInv, Leave
<1>3. CASE Execute
  <2>1. command' = command /\ command # NoCommand /\ exit = "none"
    BY <1>3 DEF Execute, CommandInv, ExitInv
  <2>2. CASE \E how \in {"done", "failed"} : End(how)
    BY <2>1, <2>2 DEF ExitInv, End
  <2>3. CASE End("invalid command") /\ command.type \notin Dispatched
    BY <2>1, <2>3 DEF ExitInv, End
  <2>4. CASE GoTo("authenticate") \/ GoTo(FirstPhase(command.type))
    BY <2>1, <2>4 DEF ExitInv, GoTo, FirstPhase
  <2> QED BY <1>3, <2>2, <2>3, <2>4 DEF Execute
<1>4. CASE Authenticate \/ Call \/ Validate \/ PrepareReact \/ Bundle \/ PrepareCordova
           \/ Release \/ Upload \/ Listen \/ LogData \/ LogEnds
  <2>1. command' = command /\ exit = "none"
    BY <1>4 DEF Authenticate, Call, Validate, PrepareReact, Bundle, PrepareCordova, Release,
                Upload, Listen, LogData, LogEnds, ExitInv
  <2>2. \/ \E how \in {"done", "failed"} : End(how)
        \/ \E p \in {"prepare", "bundle", "release", "upload", "listen"} : GoTo(p)
    BY <1>4 DEF Authenticate, Call, Validate, PrepareReact, Bundle, PrepareCordova, Release,
                Upload, Listen, LogData, LogEnds, Refuse, GoTo
  <2> QED BY <2>1, <2>2 DEF ExitInv, End, GoTo
<1>5. CASE UNCHANGED vars
  BY <1>5 DEF vars, ExitInv
<1> QED BY <1>1, <1>2, <1>3, <1>4, <1>5 DEF Next, Work

LEMMA SettingsNext ==
    CommandInv /\ ConnectInv /\ ConnectInv' /\ SettingsInv /\ [Next]_vars => SettingsInv'
<1> SUFFICES ASSUME CommandInv, ConnectInv, ConnectInv', SettingsInv, [Next]_vars
             PROVE  SettingsInv'
  OBVIOUS
<1>1. CASE Start
  BY <1>1 DEF SettingsInv, Start, End, GoTo, session
<1>2. CASE Leave
  BY <1>2 DEF SettingsInv, Leave, session
<1>3. CASE Execute
  <2>1. UNCHANGED <<config, env, line, command>> /\ phase = "execute"
    BY <1>3 DEF Execute, session
  <2>2. CASE UNCHANGED sdk /\ phase' = "exited"
    BY <2>1, <2>2 DEF SettingsInv
  <2>3. CASE /\ command.type \in {<<"login">>, <<"register">>}
             /\ GoTo("authenticate") /\ Connect(command)
    <3>1. AskedBy(line) = Settings(command.server, command.proxy, command.noProxy)
      BY <2>1, <2>3, LoginAsks DEF CommandInv
    <3>2. AskedBy(line) \in Asked
      BY <2>1 DEF Asked, CommandInv
    <3>3. sdk' = Connection(AskedBy(line))
      BY <2>3, <3>1, ConnectMeans DEF Connection, Settings
    <3> QED BY <2>1, <2>3, <3>2, <3>3, ConnectionType DEF SettingsInv, GoTo
  <2>4. CASE config # NoConfig /\ Connect(config)
    <3>1. sdk' = Connection(config) /\ config \in Asked
      BY <2>4, ConnectMeans DEF SettingsInv
    <3> QED BY <2>1, <2>4, <3>1, ConnectionType DEF SettingsInv
  <2> QED BY <1>3, <2>2, <2>3, <2>4 DEF Execute, End
<1>4. CASE Authenticate
  <2>1. phase' = "exited" /\ UNCHANGED <<env, sdk>>
    BY <1>4 DEF Authenticate, End
  <2>2. config' = Serialized(command) \/ UNCHANGED config
    BY <1>4 DEF Authenticate, session
  <2>3. Serialized(command) \in Asked
    <3>1. Serialized(command) = AskedBy(line) /\ line \in Lines
      BY <1>4, LoginAsks DEF Authenticate, CommandInv, ConnectInv, Serialized
    <3> QED BY <3>1 DEF Asked
  <2> QED BY <2>1, <2>2, <2>3 DEF SettingsInv
<1>5. CASE Call \/ Validate \/ PrepareReact \/ Bundle \/ PrepareCordova
           \/ Release \/ Upload \/ Listen \/ LogData \/ LogEnds
  <2>1. /\ UNCHANGED <<env, sdk>>
        /\ phase \notin {"idle", "exited", "execute", "authenticate"}
    BY <1>5 DEF Call, Validate, PrepareReact, Bundle, PrepareCordova, Release, Upload,
                Listen, LogData, LogEnds
  <2>2. UNCHANGED config \/ (config' = NoConfig /\ phase' = "exited")
    <3>1. CASE Call \/ Validate \/ Upload
      BY <3>1 DEF Call, Validate, Upload, Refuse, DeleteConfig, End, session
    <3>2. CASE PrepareReact \/ Bundle \/ PrepareCordova \/ Release \/ Listen \/ LogData
               \/ LogEnds
      BY <3>2 DEF PrepareReact, Bundle, PrepareCordova, Release, Listen, LogData, LogEnds,
                  session
    <3> QED BY <1>5, <3>1, <3>2
  <2> QED BY <2>1, <2>2 DEF SettingsInv
<1>6. CASE UNCHANGED vars
  BY <1>6 DEF vars, session, SettingsInv
<1> QED BY <1>1, <1>2, <1>3, <1>4, <1>5, <1>6 DEF Next, Work

\* A process that has read nothing has printed nothing.
LEMMA NothingRead ==
    /\ read = <<>> /\ printed = <<>> => PrintsMessagesOnly
    /\ read' = <<>> /\ printed' = <<>> => PrintsMessagesOnly'
<1>1. \A p : processLogData(p, <<>>) = <<>> /\ PrefixesIn(<<>>) = {}
  BY NothingOfNothing
<1>2. Cardinality(PrefixesIn(<<>>)) = 0
  BY <1>1, FS_EmptySet
<1> QED BY <1>1, <1>2 DEF PrintsMessagesOnly

\* A chunk adds its messages, and as many prefixes at least.
LEMMA ChunkPrinted ==
    ASSUME LogInv, NEW chunk \in Seq(STRING), UNCHANGED line,
           read' = read \o chunk, whole' => whole,
           printed' = printed \o processLogData(Platform, chunk)
    PROVE  PrintsMessagesOnly'
<1> DEFINE out == processLogData(Platform, chunk)
<1>1. /\ read \in Seq(STRING) /\ printed \in Seq(Seq(STRING)) /\ PrintsMessagesOnly
      /\ out \in Seq(Seq(STRING)) /\ Len(out) \in Nat /\ Len(printed) \in Nat
      /\ Platform' = Platform
  BY OutputType DEF LogInv, Platform
<1>2. ASSUME whole' PROVE printed' = processLogData(Platform, read')
  <2>1. whole
    BY <1>2
  <2>2. Ended(read) /\ printed = processLogData(Platform, read)
    BY <1>1, <2>1 DEF LogInv, PrintsMessagesOnly
  <2>3. processLogData(Platform, read \o chunk) = processLogData(Platform, read) \o out
    BY <1>1, <2>2, OutputJoined
  <2> QED BY <2>2, <2>3
<1>3. Len(printed') <= Cardinality(PrefixesIn(read'))
  <2>1. /\ Cardinality(PrefixesIn(read)) \in Nat /\ Cardinality(PrefixesIn(read')) \in Nat
        /\ Cardinality(PrefixesIn(read)) + Len(out) <= Cardinality(PrefixesIn(read'))
    BY <1>1, OutputBounded
  <2>2. Len(printed') = Len(printed) + Len(out)
    BY <1>1
  <2>3. Len(printed) <= Cardinality(PrefixesIn(read))
    BY <1>1 DEF PrintsMessagesOnly
  <2> HIDE DEF out
  <2> QED BY <1>1, <2>1, <2>2, <2>3
<1>4. ASSUME NEW k \in DOMAIN printed' PROVE FollowsPrefix(read', printed'[k])
  <2>1. k \in 1..(Len(printed) + Len(out))
    BY <1>1
  <2>2. CASE k \in 1..Len(printed)
    <3>1. printed'[k] = printed[k] /\ FollowsPrefix(read, printed[k])
      BY <1>1, <2>2 DEF PrintsMessagesOnly
    <3> QED BY <1>1, <3>1, FollowsStill
  <2>3. CASE k \notin 1..Len(printed)
    <3> DEFINE m == k - Len(printed)
    <3>1. m \in DOMAIN out /\ printed'[k] = out[m]
      BY <1>1, <2>1, <2>3
    <3>2. FollowsPrefix(chunk, out[m])
      BY <3>1, OutputFollows
    <3> QED BY <1>1, <3>1, <3>2, FollowsStill
  <2> QED BY <2>2, <2>3
<1> QED BY <1>1, <1>2, <1>3, <1>4 DEF PrintsMessagesOnly

LEMMA LogNext == CommandInv /\ LogInv /\ [Next]_vars => LogInv'
<1> SUFFICES ASSUME CommandInv, LogInv, [Next]_vars PROVE LogInv'
  OBVIOUS
<1>1. CASE Start
  <2>1. UNCHANGED debugLog /\ read = <<>> /\ printed = <<>>
    BY <1>1 DEF Start, LogInv
  <2>2. PrintsMessagesOnly'
    BY <2>1, NothingRead DEF debugLog
  <2> QED BY <2>1, <2>2 DEF LogInv, debugLog
<1>2. CASE Leave
  <2>1. log' = <<>> /\ read' = <<>> /\ printed' = <<>> /\ whole' = TRUE
    BY <1>2 DEF Leave
  <2>2. PrintsMessagesOnly'
    BY <2>1, NothingRead
  <2> QED BY <2>1, <2>2 DEF LogInv, Ended
<1>3. CASE Listen
  <2>1. UNCHANGED <<line, read, printed, whole>> /\ (log' \in Logs \/ UNCHANGED log)
    BY <1>3 DEF Listen
  <2>2. PrintsMessagesOnly'
    BY <2>1 DEF LogInv, PrintsMessagesOnly, Platform
  <2>3. log' \in Seq(STRING)
    BY <2>1, LogsAssumption DEF LogInv
  <2>4. read = <<>> /\ printed = <<>>
    BY <1>3 DEF Listen, LogInv
  <2> QED BY <2>1, <2>2, <2>3, <2>4 DEF LogInv
<1>4. CASE LogData
  <2>1. PICK n \in 1..Len(log) :
          LET chunk == SubSeq(log, 1, n) IN
          /\ log' = SubSeq(log, n + 1, Len(log))
          /\ read' = read \o chunk
          /\ whole' = (whole /\ chunk[n] = NL)
          /\ printed' = printed \o processLogData(Platform, chunk)
    BY <1>4 DEF LogData
  <2> DEFINE chunk == SubSeq(log, 1, n)
  <2>2. /\ chunk \in Seq(STRING) /\ Len(chunk) = n /\ n \in Nat /\ n > 0
        /\ log' \in Seq(STRING) /\ read \in Seq(STRING) /\ printed \in Seq(Seq(STRING))
    BY <2>1 DEF LogInv
  <2>3. UNCHANGED <<line, phase>> /\ phase = "listen"
    BY <1>4 DEF LogData
  <2>4. PrintsMessagesOnly'
    BY <2>1, <2>2, <2>3, ChunkPrinted
  <2>5. read' \in Seq(STRING) /\ Len(read') = Len(read) + n /\ read'[Len(read) + n] = chunk[n]
    BY <2>1, <2>2, Joined
  <2>6. whole' => Ended(read')
    BY <2>1, <2>5 DEF Ended
  <2>7. processLogData(Platform, chunk) \in Seq(Seq(STRING))
    BY <2>2, OutputType
  <2>8. printed' \in Seq(Seq(STRING)) /\ whole' \in BOOLEAN
    BY <2>1, <2>2, <2>7 DEF LogInv
  <2> QED BY <2>2, <2>3, <2>4, <2>5, <2>6, <2>8 DEF LogInv
<1>5. CASE Execute \/ Authenticate \/ Call \/ Validate \/ PrepareReact \/ Bundle
           \/ PrepareCordova \/ Release \/ Upload \/ LogEnds
  <2>1. UNCHANGED debugLog /\ UNCHANGED line /\ phase # "exited"
    BY <1>5 DEF Execute, Authenticate, Call, Validate, PrepareReact, Bundle, PrepareCordova,
                Release, Upload, LogEnds
  <2>2. phase = "listen" => phase' = "exited"
    BY <1>5 DEF Execute, Authenticate, Call, Validate, PrepareReact, Bundle, PrepareCordova,
                Release, Upload, LogEnds, End
  <2>3. UNCHANGED <<log, read, whole, printed, line>>
    BY <2>1 DEF debugLog
  <2>4. PrintsMessagesOnly'
    BY <2>3 DEF LogInv, PrintsMessagesOnly, Platform
  <2> QED BY <2>1, <2>2, <2>3, <2>4 DEF LogInv
<1>6. CASE UNCHANGED vars
  <2>1. UNCHANGED <<log, read, whole, printed, line, phase>>
    BY <1>6 DEF vars, debugLog
  <2>2. PrintsMessagesOnly'
    BY <2>1 DEF LogInv, PrintsMessagesOnly, Platform
  <2> QED BY <2>1, <2>2 DEF LogInv
<1> QED BY <1>1, <1>2, <1>3, <1>4, <1>5, <1>6 DEF Next, Work

LEMMA Invariant == Spec => []IInv
<1>1. Init => IInv
  <2>1. Init => CommandInv /\ ConnectInv /\ VersionInv /\ ExitInv /\ SettingsInv
    BY DEF Init, CommandInv, ConnectInv, VersionInv, BundlesWhatCanBeReleased, ExitInv,
           SettingsInv, Asked
  <2>2. Init => LogInv
    BY NothingRead DEF Init, LogInv, Ended
  <2> QED BY <2>1, <2>2 DEF IInv
<1>2. IInv /\ [Next]_vars => IInv'
  BY CommandNext, ConnectNext, VersionNext, ExitNext, SettingsNext, LogNext DEF IInv
<1> QED BY <1>1, <1>2, PTL DEF Spec

-----------------------------------------------------------------------------
(* Theorems                                                                *)

\* The type of a command is one that execute has a case for.
LEMMA TypeIsDispatched ==
    ASSUME NEW l, CommandType(l) # <<>>
    PROVE  CommandType(l) \in Dispatched
<1> DEFINE w == Word(l, 1)
           v == Word(l, 2)
<1>1. CASE w \in DOMAIN WordCommands /\ CommandType(l) = <<w>>
  BY <1>1 DEF WordCommands, SessionWords, UpdateWords, Dispatched
<1>2. CASE /\ w \in DOMAIN CategoryCommands(l) /\ v \in DOMAIN CategoryCommands(l)[w]
           /\ CommandType(l) = <<w, Verb(v)>>
  <2>1. CASE w = "access-key"
    <3>1. Verb(v) \in {"add", "patch", "list", "remove"}
      BY <1>2, <2>1 DEF CategoryCommands, AccessKeyCommands, Verb
    <3> QED BY <1>2, <2>1, <3>1 DEF Dispatched
  <2>2. CASE w = "app"
    <3>1. Verb(v) \in {"add", "list", "remove", "rename", "transfer"}
      BY <1>2, <2>2 DEF CategoryCommands, AppCommands, Verb
    <3> QED BY <1>2, <2>2, <3>1 DEF Dispatched
  <2>3. CASE w = "collaborator"
    <3>1. Verb(v) \in {"add", "list", "remove"}
      BY <1>2, <2>3 DEF CategoryCommands, CollaboratorCommands, Verb
    <3> QED BY <1>2, <2>3, <3>1 DEF Dispatched
  <2>4. CASE w = "deployment"
    <3>1. Verb(v) \in {"add", "clear", "history", "list", "remove", "rename"}
      BY <1>2, <2>4 DEF CategoryCommands, DeploymentCommands, Verb
    <3> QED BY <1>2, <2>4, <3>1 DEF Dispatched
  <2>5. CASE w = "session"
    <3>1. Verb(v) \in {"list", "remove"}
      BY <1>2, <2>5 DEF CategoryCommands, SessionCommands, Verb
    <3> QED BY <1>2, <2>5, <3>1 DEF Dispatched
  <2> QED BY <1>2, <2>1, <2>2, <2>3, <2>4, <2>5 DEF CategoryCommands
<1> QED BY <1>1, <1>2 DEF CommandType

\* The variables keep their types, and a process that goes on has a command and
\* a connection (TypeOK).
THEOREM TypeCorrect == Spec => []TypeOK
<1>1. ASSUME IInv PROVE TypeOK
  <2>1. phase \notin {"idle", "exited", "execute"} => sdk \in Connections
    <3>1. CASE phase = "authenticate"
      <4>1. AskedBy(line) \in Asked /\ sdk = Connection(AskedBy(line))
        BY <1>1, <3>1 DEF IInv, CommandInv, ConnectInv, Asked
      <4> QED BY <1>1, <4>1, ConnectionType DEF IInv, SettingsInv
    <3>2. CASE phase \notin {"idle", "exited", "execute", "authenticate"}
      <4>1. config \in Asked /\ sdk = Connection(config)
        BY <1>1, <3>2 DEF IInv, ConnectInv, SettingsInv
      <4> QED BY <1>1, <4>1, ConnectionType DEF IInv, SettingsInv
    <3> QED BY <3>1, <3>2
  <2> QED BY <1>1, <2>1, NothingAssumption
          DEF IInv, CommandInv, ConnectInv, ExitInv, SettingsInv, TypeOK
<1> QED BY <1>1, Invariant, PTL

\* Whatever a line says, the rollout a process works with is a percentage from 1
\* to 100 or none (RolloutInRange).
THEOREM RolloutIsPercentage == Spec => []RolloutInRange
<1>1. IInv => RolloutInRange
  BY CommandRollout DEF IInv, CommandInv, RolloutInRange
<1> QED BY <1>1, Invariant, PTL

\* What the usage tables let pass is executed, deployment add without a name
\* excepted (NothingPassesInVain).
THEOREM PassedIsExecuted == Spec => []NothingPassesInVain
<1>1. ASSUME IInv PROVE NothingPassesInVain
  <2> SUFFICES ASSUME exit \in {"help", "invalid command"}, ~HelpShown(line),
                      \A i \in DOMAIN line.words : line.words[i] # "",
                      ~ /\ Word(line, 1) = "deployment" /\ Word(line, 2) = "add"
                        /\ Len(line.words) = 3 /\ ~Option(line, "default", FALSE)
               PROVE  FALSE
    BY DEF NothingPassesInVain
  <2>1. line \in Lines /\ command = createCommand(line) /\ line.words \in Seq(STRING)
    BY <1>1, LinesAssumption DEF IInv, ExitInv, CommandInv
  <2>2. CommandType(line) # <<>>
    BY <2>1, TypeMade
  <2>3. createCommand(line) # NoCommand
    BY <2>1, <2>2, LinesAssumption
  <2>4. createCommand(line).type = CommandType(line)
    BY <2>2 DEF createCommand
  <2> QED BY <1>1, <2>1, <2>2, <2>3, <2>4, TypeIsDispatched DEF IInv, ExitInv
<1> QED BY <1>1, Invariant, PTL

\* Whatever processes came before and whatever their environments were, a
\* process connects to the server the login it goes by had named, and as that
\* login had said of proxies, if it had (ConnectsAsAsked).
THEOREM ConnectionIsAsked == Spec => []ConnectsAsAsked
<1>1. IInv => ConnectsAsAsked
  BY DEF IInv, ConnectInv, ConnectsAsAsked, Connection
<1> QED BY <1>1, Invariant, PTL

\* Whatever the project says, release-react bundles for versions only that
\* can be released for, padded numbers excepted (BundlesWhatCanBeReleased).
THEOREM BundledCanBeReleased == Spec => []BundlesWhatCanBeReleased
<1>1. IInv => BundlesWhatCanBeReleased
  BY DEF IInv, VersionInv
<1> QED BY <1>1, Invariant, PTL

\* However a log is cut into chunks, debug prints what follows a prefix and
\* nothing else, and if it is cut between lines, what it would print of the
\* log in one piece (PrintsMessagesOnly).
THEOREM OnlyMessagesPrinted == Spec => []PrintsMessagesOnly
<1>1. IInv => PrintsMessagesOnly
  BY DEF IInv, LogInv
<1> QED BY <1>1, Invariant, PTL
=============================================================================
