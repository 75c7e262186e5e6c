----------------------------- MODULE CliProcess ------------------------------
(***************************************************************************)
(* One code-push process after another, each from its command line to its  *)
(* exit: what the parser makes of the line (CommandLine), how the process  *)
(* connects to the server, what release-react releases for                 *)
(* (ProjectVersion), what debug prints (DebugLog).  What outlives a        *)
(* process is the session file with the connection settings of the login.  *)
(*                                                                         *)
(* Processes that overlap, and are killed, are the subject of CliSession;  *)
(* the folders of a release that of ReleaseCommands; what the other        *)
(* commands ask of the server that of AccountCommands.                     *)
(***************************************************************************)
EXTENDS CommandLine, ProjectVersion, DebugLog

CONSTANTS
    Lines,    \* command lines
    EnvProxy, \* proxies of the environment (HTTPS_PROXY and the like), or Null
    Projects, \* React Native projects
    Machines, \* what debug finds on a machine
    Logs,     \* device logs
    NoConfig, \* there is no session file
    NoSdk     \* no AccountManager was made

\* The address on a line is that of Url; NoCommand is no command.
ASSUME LinesAssumption ==
    \A l \in Lines :
        /\ l.words \in Seq(STRING)
        /\ ~HelpShown(l) /\ CommandType(l) # <<>> => createCommand(l) # NoCommand
        /\ l.url = [host |-> l.url.host, colon |-> l.url.colon,
                    slash |-> l.url.slash, space |-> l.url.space]

\* releaseReact lets no other platform through.
ASSUME ProjectsAssumption ==
    \A p \in Projects : p.platform \in {"ios", "android", "windows"}

\* What Cordova adds to a line comes after all that is CodePush's on it.
ASSUME LogsAssumption ==
    \A l \in Logs :
        /\ l \in Seq(STRING)
        /\ \A s \in DOMAIN l : \A i \in PrefixesIn(l) :
              l[s] = Source /\ s < i => ~OneLine(l, s, i)

VARIABLES
    config,   \* the connection settings in the session file
    asked,    \* what the login that wrote it had asked for, and the proxy it
    via,      \* was made through; only the properties ask for these two
    env,      \* the proxy of the environment
    line,     \* the command line of the process
    command,  \* the command made of it
    phase,    \* what the process is at
    sdk,      \* server and proxy of its AccountManager
    version,  \* the version to release for
    log,      \* what the log process has not delivered
    read,     \* what it has delivered
    whole,    \* every chunk has ended with a line
    printed,  \* the messages printed
    exit      \* how the process has ended

session  == <<config, asked, via>>
debugLog == <<log, read, whole, printed>>
vars == <<session, env, line, command, phase, sdk, version, debugLog, exit>>

Settings(server, proxy, noProxy) ==
    [server |-> server, proxy |-> proxy, noProxy |-> noProxy]

\* The legacy format: an access key and nothing else.
Legacy == Settings(Null, Null, FALSE)

NoLine == [words |-> <<>>, options |-> <<>>, url |-> Null]

Init ==
    /\ config \in {NoConfig, Legacy}
    /\ asked = config /\ via = NoConfig
    /\ env = Null
    /\ line = NoLine
    /\ command = NoCommand
    /\ phase = "idle"
    /\ sdk = NoSdk
    /\ version = Null
    /\ log = <<>> /\ read = <<>> /\ whole = TRUE /\ printed = <<>>
    /\ exit = "none"

-----------------------------------------------------------------------------
(* Connections                                                             *)

\* Null and the empty text are falsy.
Given(text) == text \notin {Null, ""}

getProxy(proxy, noProxy) ==
    CASE noProxy -> Null
      [] ~noProxy /\ ~Given(proxy) -> env
      [] OTHER -> proxy

\* Mutant: the AccountManager is left for later.
ConnectLater_(settings) == UNCHANGED sdk

\* getSdk
Connect(settings) ==
    sdk' = [server |-> settings.server, proxy |-> getProxy(settings.proxy, settings.noProxy)]

\* Mutant: the session file does not say that proxies are to be bypassed.
SerializedWithoutNoProxy_(c) == Settings(c.server, c.proxy, FALSE)

\* serializeConnectionInfo keeps what the login was given; the proxy that
\* getProxy made of it is found out again by every process.
Serialized(c) == Settings(c.server, c.proxy, c.noProxy)

\* What a login line asks for.
AskedBy(l) ==
    Settings(IF Word(l, 2) = "" THEN Null ELSE Url(l.url.host, "://", FALSE, FALSE),
             Option(l, "proxy", Null), Option(l, "noProxy", FALSE))

\* The settings a session file may hold, and the connections they may lead to.
Asked == {Legacy} \cup {AskedBy(l) : l \in Lines}
Connections ==
    [server : {a.server : a \in Asked},
     proxy  : {a.proxy : a \in Asked} \cup EnvProxy \cup {Null}]

ASSUME NothingAssumption == NoConfig \notin Asked /\ NoSdk \notin Connections

-----------------------------------------------------------------------------
(* The process                                                             *)

GoTo(p) == phase' = p /\ UNCHANGED exit

End(how) == phase' = "exited" /\ exit' = how

\* The types execute has a case for.
Dispatched ==
    {<<"access-key", v>> : v \in {"add", "patch", "list", "remove"}}
    \cup {<<"app", v>> : v \in {"add", "list", "remove", "rename", "transfer"}}
    \cup {<<"collaborator", v>> : v \in {"add", "list", "remove"}}
    \cup {<<"deployment", v>> : v \in {"add", "clear", "history", "list", "remove", "rename"}}
    \cup {<<"session", v>> : v \in {"list", "remove"}}
    \cup {<<w>> : w \in {"debug", "link", "login", "logout", "patch", "promote", "register",
                         "release", "release-cordova", "release-react", "rollback", "whoami"}}

\* cli.ts: without a command the help is shown, if it has not been.
Start ==
    /\ phase = "idle"
    /\ \E l \in Lines, e \in EnvProxy :
          /\ line' = l
          /\ env' = e
          /\ command' = createCommand(l)
    /\ IF command' = NoCommand THEN End("help") ELSE GoTo("execute")
    /\ UNCHANGED <<session, sdk, version, debugLog>>

\* Nothing but the session file outlives a process.
Leave ==
    /\ phase = "exited"
    /\ env' = Null
    /\ line' = NoLine
    /\ command' = NoCommand
    /\ phase' = "idle"
    /\ sdk' = NoSdk
    /\ version' = Null
    /\ log' = <<>> /\ read' = <<>> /\ whole' = TRUE /\ printed' = <<>>
    /\ exit' = "none"
    /\ UNCHANGED session

\* Where the work of a command begins.
FirstPhase(type) ==
    CASE type = <<"debug">> -> "debug"
      [] type \in {<<"release-react">>, <<"release-cordova">>} -> "validate"
      [] type = <<"release">> -> "release"
      [] OTHER -> "call"

\* patch has to be told what to change; a label only says of which release.
Patched(c) ==
    c.given \cap {"description", "disabled", "mandatory", "rollout", "targetBinaryVersion"}

\* execute: login and register need nobody to be logged in, link does not
\* care, and every other command needs a login.
Execute ==
    /\ phase = "execute"
    /\ LET type == command.type IN
       \/ /\ type \in {<<"login">>, <<"register">>}
          /\ IF config # NoConfig THEN End("failed") /\ UNCHANGED sdk
                                  ELSE GoTo("authenticate") /\ Connect(command)
       \/ type = <<"link">> /\ End("done") /\ UNCHANGED sdk
       \/ /\ type \notin {<<"login">>, <<"register">>, <<"link">>}
          /\ IF config = NoConfig THEN End("failed") /\ UNCHANGED sdk
             ELSE /\ Connect(config)
                  /\ CASE type \notin Dispatched -> End("invalid command")
                       [] type = <<"patch">> /\ Patched(command) = {} -> End("failed")
                       [] OTHER -> GoTo(FirstPhase(type))
    /\ version' = command.version
    /\ UNCHANGED <<session, env, line, command, debugLog>>

\* The server says whether the access key is known; the user may also leave
\* the prompt for one.  Only then is the session file written.
Authenticate ==
    /\ phase = "authenticate"
    /\ \/ /\ config' = Serialized(command)
          /\ asked' = AskedBy(line) /\ via' = sdk.proxy
          /\ End("done")
       \/ End("failed") /\ UNCHANGED session
       \/ "accessKey" \notin command.given /\ End("done") /\ UNCHANGED session
    /\ UNCHANGED <<env, line, command, sdk, version, debugLog>>

DeleteConfig == config' = NoConfig /\ asked' = NoConfig /\ via' = NoConfig

\* An answer that ends the process with an error: with 401 the session file
\* goes as well (getSdk).
Refuse ==
    /\ End("failed")
    /\ UNCHANGED session \/ DeleteConfig

\* The calls of a command without phases of its own.  logout lets 401 pass.
Call ==
    /\ phase = "call"
    /\ \/ /\ End("done")
          /\ IF command.type = <<"logout">> THEN DeleteConfig ELSE UNCHANGED session
       \/ Refuse
    /\ UNCHANGED <<env, line, command, sdk, version, debugLog>>

-----------------------------------------------------------------------------
(* release, release-cordova and release-react                              *)

\* validateDeployment
Validate ==
    /\ phase = "validate"
    /\ \/ GoTo("prepare") /\ UNCHANGED session
       \/ Refuse
    /\ UNCHANGED <<env, line, command, sdk, version, debugLog>>

\* release-react: platform, package.json and entry file are right, and the
\* version is valid or else found in the project.
PrepareReact ==
    /\ phase = "prepare"
    /\ command.type = <<"release-react">>
    /\ \/ /\ Given(version)
          /\ IF validRange(version) THEN GoTo("bundle") ELSE End("failed")
          /\ UNCHANGED version
       \/ /\ ~Given(version)
          /\ \E p \in Projects : version' = getReactNativeProjectAppVersion(p)
          /\ IF version' = NotFound THEN End("failed") ELSE GoTo("bundle")
       \/ End("failed") /\ UNCHANGED version
    /\ UNCHANGED <<session, env, line, command, sdk, debugLog>>

\* Mutant: when the bundler fails, all is tried again.
BundleAgain_ ==
    /\ phase = "bundle"
    /\ GoTo("release") \/ GoTo("prepare")
    /\ UNCHANGED <<session, env, line, command, sdk, version, debugLog>>

\* The folder is emptied and the app bundled.
Bundle ==
    /\ phase = "bundle"
    /\ GoTo("release") \/ End("failed")
    /\ UNCHANGED <<session, env, line, command, sdk, version, debugLog>>

\* release-cordova: the app is prepared or built; a version that was not given
\* is the one of config.xml.
PrepareCordova ==
    /\ phase = "prepare"
    /\ command.type = <<"release-cordova">>
    /\ GoTo("release") \/ End("failed")
    /\ IF Given(version) THEN UNCHANGED version ELSE version' \in VersionText \cup {Absent}
    /\ UNCHANGED <<session, env, line, command, sdk, debugLog>>

\* release refuses zips and binaries, and versions that are no range.
Release ==
    /\ phase = "release"
    /\ \/ validRange(version) /\ GoTo("upload")
       \/ End("failed")
    /\ UNCHANGED <<session, env, line, command, sdk, version, debugLog>>

\* A release that is a duplicate is refused, or a warning.
Upload ==
    /\ phase = "upload"
    /\ \/ End("done") /\ UNCHANGED session
       \/ Refuse
    /\ UNCHANGED <<env, line, command, sdk, version, debugLog>>

-----------------------------------------------------------------------------
(* debug                                                                   *)

Platform == Word(line, 2)

\* One device, and its log.
Listen ==
    /\ phase = "debug"
    /\ \E m \in Machines :
          IF getLogProcess(Platform, m)
          THEN GoTo("listen") /\ log' \in Logs
          ELSE End("failed") /\ UNCHANGED log
    /\ UNCHANGED <<session, env, line, command, sdk, version, read, whole, printed>>

\* stdout "data"
LogData ==
    /\ phase = "listen"
    /\ \E n \in 1..Len(log) :
          LET chunk == SubSeq(log, 1, n) IN
          /\ log' = SubSeq(log, n + 1, Len(log))
          /\ read' = read \o chunk
          /\ whole' = (whole /\ chunk[n] = NL)
          /\ printed' = printed \o processLogData(Platform, chunk)
    /\ UNCHANGED <<session, env, line, command, phase, sdk, version, exit>>

\* "close", after the last data; or stderr "data", which ends the process at
\* once.
LogEnds ==
    /\ phase = "listen"
    /\ \/ log = <<>> /\ End("done")
       \/ End("failed")
    /\ UNCHANGED <<session, env, line, command, sdk, version, debugLog>>

-----------------------------------------------------------------------------
Work == Execute \/ Authenticate \/ Call \/ Validate \/ PrepareReact \/ Bundle
        \/ PrepareCordova \/ Release \/ Upload \/ Listen

Next == Start \/ Work \/ LogData \/ LogEnds \/ Leave

Spec == Init /\ [][Next]_vars

\* Every answer, child process and file access ends in the end; a log need not.
FairSpec == Spec /\ WF_vars(Work)

-----------------------------------------------------------------------------
(* Properties                                                              *)

\* Types; an AccountManager belongs to a process that had something to connect
\* with, and no process is given up half-way.
TypeOK ==
    /\ phase \in {"idle", "execute", "exited", "authenticate", "call", "validate", "prepare",
                  "bundle", "release", "upload", "debug", "listen"}
    /\ exit \in {"none", "help", "done", "failed", "invalid command"}
    /\ phase \notin {"idle", "exited"} => command # NoCommand
    /\ phase \notin {"idle", "exited", "execute"} => sdk # NoSdk
    /\ phase = "exited" <=> exit # "none"
    /\ (config = NoConfig) <=> (asked = NoConfig)

\* A process connects to the server its login named and, if the login spoke of
\* proxies, as it said: directly after --noProxy, else through the proxy of
\* --proxy; and a login tests the very connection it asks for, the proxy of its
\* environment included (getProxy, serializeConnectionInfo,
\* deserializeConnectionInfo, getServerUrl).
ConnectsAsAsked ==
    sdk # NoSdk /\ phase # "exited" =>
        LET a == IF phase = "authenticate" THEN AskedBy(line) ELSE asked IN
        /\ sdk.server = a.server
        /\ a.noProxy => sdk.proxy = Null
        /\ ~a.noProxy /\ Given(a.proxy) => sdk.proxy = a.proxy
        /\ phase = "authenticate" /\ ~a.noProxy /\ ~Given(a.proxy) => sdk.proxy = env

\* Until the logout every process connects through the proxy of the login, if it
\* had one, also when the login took it from its environment.  Does not hold:
\* only a proxy of --proxy is written to the session file, and every process
\* looks for another in its own environment (getProxy, serializeConnectionInfo).
InferredProxyPersists ==
    sdk # NoSdk /\ phase \notin {"authenticate", "exited"} /\ via \notin {NoConfig, Null} =>
        sdk.proxy = via

\* No rollout reaches the server but a percentage from 1 to 100, or none at all,
\* however it was spelled on the line of whichever command (isValidRollout,
\* getRolloutValue).
RolloutInRange ==
    phase \in {"call", "upload"} => command.rollout \in (1..100) \cup {Null}

\* A line that leaves no word of the usage empty is executed if the usage tables
\* let it pass, with deployment add as the one exception: it takes a name or
\* --default and the tables ask for neither (createCommand and execute against
\* the tables).
NothingPassesInVain ==
    exit \in {"help", "invalid command"} =>
        \/ HelpShown(line)
        \/ \E i \in DOMAIN line.words : line.words[i] = ""
        \/ /\ Word(line, 1) = "deployment" /\ Word(line, 2) = "add"
           /\ Len(line.words) = 3 /\ ~Option(line, "default", FALSE)

\* What release-react has bundled is not refused for its version: the version
\* was checked, or looked up, before.  Numbers padded with zeros are the
\* exception, they are found to be a version and refused as a range
\* (releaseReact, getReactNativeProjectAppVersion, release).
BundlesWhatCanBeReleased ==
    phase \in {"bundle", "release"} /\ command.type = <<"release-react">> =>
        validRange(version) \/ version \in {"paddedTwoParts", "paddedThreeParts"}

\* Of a log that arrives in whole lines debug prints what it would print of the
\* log in one piece; wherever it is cut, debug prints nothing but what follows
\* a prefix on its line, and no more often than there are prefixes
\* (processLogData).
PrintsMessagesOnly ==
    /\ whole => printed = processLogData(Platform, read)
    /\ Len(printed) <= Cardinality(PrefixesIn(read))
    /\ \A k \in DOMAIN printed : FollowsPrefix(read, printed[k])

\* Every command ends, except that debug may listen for ever.
EveryCommandEnds == phase = "execute" ~> phase \in {"exited", "listen"}
=============================================================================
