----------------------------- MODULE CliSession -----------------------------
(***************************************************************************)
(* The login session of the command-line tool.                             *)
(*                                                                         *)
(* Every `code-push` command is an operating-system process that reads the *)
(* file ~/.code-push.config once, talks to the server, and may write or    *)
(* delete that file.  Processes of one user share the file and nothing     *)
(* else; no lock protects it.  The module models the processes (Proc), the *)
(* file, the access keys the server knows and the requests in flight.      *)
(* A process may be killed between any two steps, a request may be lost    *)
(* before or after the server carried it out.                              *)
(*                                                                         *)
(* The server, the browser and the user are outside src/: they are         *)
(* modelled by what the code relies on.                                    *)
(***************************************************************************)
EXTENDS Naturals, FiniteSets

CONSTANTS
    Proc,        \* slots in which CLI processes of one user run
    SessionKey,  \* keys the server issues to a browser login of this machine
    AccessKey,   \* keys made with `access-key add`: no session, any machine
    BogusKey,    \* text the user may type that never was a key
    MaxCalls,    \* most SDK calls a command makes one after the other
    NoLogin,     \* the undefined that deserializeConnectionInfo returns
    NoKey,       \* no SDK has been created
    NoFile,      \* there is no file at configFilePath
    EmptyFile,   \* the file was truncated and not written yet
    GarbledFile  \* the file holds the text of two writers

Key == SessionKey \cup AccessKey \cup BogusKey

ASSUME KeyAssumption ==
    /\ SessionKey \cap AccessKey = {}
    /\ SessionKey \cap BogusKey = {}
    /\ AccessKey \cap BogusKey = {}
    /\ NoKey \notin Key

ASSUME MaxCallsAssumption == MaxCalls \in Nat \ {0}

Login == [accessKey : Key, preserveAccessKeyOnLogout : BOOLEAN]
LegacyLogin == [accessKeyName : Key]

ASSUME FileAssumption ==
    /\ NoLogin \notin Login
    /\ Login \cap LegacyLogin = {}
    /\ {NoFile, EmptyFile, GarbledFile} \cap (Login \cup LegacyLogin) = {}
    /\ EmptyFile # NoFile /\ GarbledFile # NoFile /\ EmptyFile # GarbledFile

File == Login \cup LegacyLogin \cup {NoFile, EmptyFile, GarbledFile}

VARIABLES
    configFile,     \* content of ~/.code-push.config
    openFor,        \* processes that hold that very file open for writing
    keyState,       \* what the server knows of each key
    orphaned,       \* keys of the logout requests whose sender was killed
    pc,             \* where each process is
    cmd,            \* the command each process runs
    connectionInfo, \* the process's copy of the file, read when it started
    sdk,            \* the key the process's AccountManager sends
    reply,          \* HTTP status of the last answer, 0 for none
    callsLeft,      \* SDK calls the command still has to make
    outcome         \* how the last command of the slot ended

fileVars   == <<configFile, openFor>>
serverVars == <<keyState, orphaned>>
procVars   == <<pc, cmd, connectionInfo, sdk, reply, callsLeft, outcome>>
vars       == <<fileVars, serverVars, procVars>>

\* "login" is `login --accessKey`; "browserLogin" is `login` or `register`
\* with a token from the browser; "api" is every other command that only
\* calls the server.
Command == {"login", "browserLogin", "logout", "whoami", "api", "none"}
LoginCommand == {"login", "browserLogin"}
PC == {"prompt", "request", "replied", "truncate", "write", "unlink", "exited"}
Status == {0, 200, 401, 404, 504}
Outcome == {"running", "ok", "loggedIn", "failed", "killed"}

\* Reading the file yields a login or, whatever goes wrong, undefined.  A
\* legacy file has no preserveAccessKeyOnLogout: undefined counts as false.
deserializeConnectionInfo(f) ==
    IF f \in Login THEN f
    ELSE IF f \in LegacyLogin
    THEN [accessKey |-> f.accessKeyName, preserveAccessKeyOnLogout |-> FALSE]
    ELSE NoLogin

LoggedIn(f) == deserializeConnectionInfo(f) # NoLogin

\* What a login command is about to store.
LoginOf(p) == [accessKey |-> sdk[p],
               preserveAccessKeyOnLogout |-> (cmd[p] = "login")]

TypeOK ==
    /\ configFile \in File
    /\ openFor \in SUBSET Proc
    /\ keyState \in [Key -> {"unissued", "valid", "dead"}]
    /\ orphaned \in SUBSET Key
    /\ pc \in [Proc -> PC]
    /\ cmd \in [Proc -> Command]
    /\ connectionInfo \in [Proc -> Login \cup {NoLogin}]
    /\ sdk \in [Proc -> Key \cup {NoKey}]
    /\ reply \in [Proc -> Status]
    /\ callsLeft \in [Proc -> 0..MaxCalls]
    /\ outcome \in [Proc -> Outcome]

\* The machine as the CLI may find it: nobody logged in, or a login, possibly
\* in the legacy format, made with a key that the server once issued.
Init ==
    /\ keyState \in [Key -> {"unissued", "valid"}]
    /\ \A k \in AccessKey : keyState[k] = "valid"
    /\ \A k \in BogusKey : keyState[k] = "unissued"
    /\ configFile \in {NoFile}
          \cup {f \in Login : keyState[f.accessKey] = "valid"}
          \cup {f \in LegacyLogin : f.accessKeyName \in AccessKey}
    /\ openFor = {}
    /\ orphaned = {}
    /\ pc = [p \in Proc |-> "exited"]
    /\ cmd = [p \in Proc |-> "none"]
    /\ connectionInfo = [p \in Proc |-> NoLogin]
    /\ sdk = [p \in Proc |-> NoKey]
    /\ reply = [p \in Proc |-> 0]
    /\ callsLeft = [p \in Proc |-> 0]
    /\ outcome = [p \in Proc |-> "ok"]

-----------------------------------------------------------------------------
(* Building blocks of the process steps                                    *)

\* The process ends (cli.ts: the promise settles, or process.exit(1)).
Exit(p, how) ==
    /\ pc' = [pc EXCEPT ![p] = "exited"]
    /\ cmd' = [cmd EXCEPT ![p] = "none"]
    /\ connectionInfo' = [connectionInfo EXCEPT ![p] = NoLogin]
    /\ outcome' = [outcome EXCEPT ![p] = how]
    /\ sdk' = [sdk EXCEPT ![p] = NoKey]
    /\ reply' = [reply EXCEPT ![p] = 0]
    /\ callsLeft' = [callsLeft EXCEPT ![p] = 0]

\* A request is sent with key k.
Send(p, k, calls) ==
    /\ pc' = [pc EXCEPT ![p] = "request"]
    /\ sdk' = [sdk EXCEPT ![p] = k]
    /\ reply' = [reply EXCEPT ![p] = 0]
    /\ callsLeft' = [callsLeft EXCEPT ![p] = calls]
    /\ UNCHANGED <<cmd, connectionInfo, outcome>>

GoTo(p, label) ==
    /\ pc' = [pc EXCEPT ![p] = label]
    /\ UNCHANGED <<cmd, connectionInfo, sdk, reply, callsLeft, outcome>>

\* The file is gone; a process that had it open writes into an unlinked file.
deleteConnectionInfoCache ==
    /\ configFile' = NoFile
    /\ openFor' = {}

\* execute() has read the file and lets command c go on: at a prompt, with a
\* request, or straight to the deletion of the file.
Start(p, c, label, k, calls) ==
    /\ pc[p] = "exited"
    /\ pc' = [pc EXCEPT ![p] = label]
    /\ cmd' = [cmd EXCEPT ![p] = c]
    /\ connectionInfo' =
          [connectionInfo EXCEPT ![p] = deserializeConnectionInfo(configFile)]
    /\ sdk' = [sdk EXCEPT ![p] = k]
    /\ callsLeft' = [callsLeft EXCEPT ![p] = calls]
    /\ outcome' = [outcome EXCEPT ![p] = "running"]
    /\ UNCHANGED <<fileVars, serverVars, reply>>

\* What the user may type: a key that exists or existed, or something else.
Typed == {k \in Key : keyState[k] # "unissued"} \cup BogusKey

-----------------------------------------------------------------------------
(* Starting a command                                                      *)

\* (Operators whose names end in an underscore are mutants, used by no
\* specification: plausible bugs that the properties must notice.)

\* Mutant: a refused login forgets the file.
ExecuteRefusedForgets_(p) ==
    /\ pc[p] = "exited"
    /\ Exit(p, "failed")
    /\ deleteConnectionInfoCache
    /\ UNCHANGED serverVars

\* Login and register are refused while the file holds a login; every other
\* command but link is refused while it does not.  A refused command leaves
\* no trace but its exit code, so it matters not which one it was.
ExecuteRefused(p) ==
    /\ pc[p] = "exited"
    /\ Exit(p, "failed")
    /\ UNCHANGED <<fileVars, serverVars>>

\* Mutant: the guard of execute() is gone.
ExecuteLoginAlways_(p) ==
    \E k \in Typed : Start(p, "login", "request", k, 1)

ExecuteLogin(p) ==
    /\ ~LoggedIn(configFile)
    /\ \E k \in Typed : Start(p, "login", "request", k, 1)

\* The browser is opened and the user is asked for the token it shows.
ExecuteBrowserLogin(p) ==
    /\ ~LoggedIn(configFile)
    /\ Start(p, "browserLogin", "prompt", NoKey, 0)

\* Only opens the browser.
ExecuteLink(p) ==
    /\ pc[p] = "exited"
    /\ Exit(p, "ok")
    /\ UNCHANGED <<fileVars, serverVars>>

\* The key that execute() makes the SDK with.
SavedKey == deserializeConnectionInfo(configFile).accessKey

\* A login made with an access key is left without a call to the server.
ExecuteLogout(p) ==
    /\ LoggedIn(configFile)
    /\ IF deserializeConnectionInfo(configFile).preserveAccessKeyOnLogout
       THEN Start(p, "logout", "unlink", SavedKey, 0)
       ELSE Start(p, "logout", "request", SavedKey, 1)

ExecuteWhoami(p) ==
    /\ LoggedIn(configFile)
    /\ Start(p, "whoami", "request", SavedKey, 1)

ExecuteApi(p) ==
    /\ LoggedIn(configFile)
    /\ \E n \in 1..MaxCalls : Start(p, "api", "request", SavedKey, n)

-----------------------------------------------------------------------------
(* The token prompt                                                        *)

\* The server issues a session key to the browser.
IssueSessionKey(p) ==
    /\ pc[p] = "prompt"
    /\ \E k \in SessionKey :
          /\ keyState[k] = "unissued"
          /\ keyState' = [keyState EXCEPT ![k] = "valid"]
    /\ UNCHANGED <<fileVars, orphaned, procVars>>

EnterToken(p) ==
    /\ pc[p] = "prompt"
    /\ \E k \in Typed : Send(p, k, 1)
    /\ UNCHANGED <<fileVars, serverVars>>

\* Ctrl-C at the prompt: the command ends without an error.
AbortPrompt(p) ==
    /\ pc[p] = "prompt"
    /\ Exit(p, "ok")
    /\ UNCHANGED <<fileVars, serverVars>>

-----------------------------------------------------------------------------
(* The server and the network                                              *)

Answer(p, status) ==
    /\ pc' = [pc EXCEPT ![p] = "replied"]
    /\ reply' = [reply EXCEPT ![p] = status]
    /\ UNCHANGED <<fileVars, cmd, connectionInfo, sdk, callsLeft, outcome>>

\* DELETE /sessions/<machine> ends every session of the machine.
SessionsRemoved ==
    [k \in Key |-> IF k \in SessionKey /\ keyState[k] = "valid"
                   THEN "dead" ELSE keyState[k]]

NoValidSession == \A k \in SessionKey : keyState[k] # "valid"

ServeUnauthorized(p) ==
    /\ pc[p] = "request"
    /\ keyState[sdk[p]] # "valid"
    /\ Answer(p, 401)
    /\ UNCHANGED serverVars

\* isAuthenticated, and the calls of the other commands, some of which ask
\* for something that does not exist.
ServeCall(p) ==
    /\ pc[p] = "request"
    /\ keyState[sdk[p]] = "valid"
    /\ cmd[p] # "logout"
    /\ \/ Answer(p, 200)
       \/ cmd[p] = "api" /\ Answer(p, 404)
    /\ UNCHANGED serverVars

\* The answer to removeSession may be lost after the sessions have ended.
ServeRemoveSession(p) ==
    /\ pc[p] = "request"
    /\ keyState[sdk[p]] = "valid"
    /\ cmd[p] = "logout"
    /\ IF NoValidSession
       THEN Answer(p, 404) /\ UNCHANGED keyState
       ELSE /\ Answer(p, 200) \/ Answer(p, 504)
            /\ keyState' = SessionsRemoved
    /\ UNCHANGED orphaned

\* The request does not reach the server: no status, so the SDK reports 504.
RequestLost(p) ==
    /\ pc[p] = "request"
    /\ Answer(p, 504)
    /\ UNCHANGED serverVars

\* A key expires, or is removed from another machine.
KeyDies(k) ==
    /\ keyState[k] = "valid"
    /\ keyState' = [keyState EXCEPT ![k] = "dead"]
    /\ UNCHANGED <<fileVars, orphaned, procVars>>

\* A removeSession whose sender was killed arrives after all, or never.
ServeOrphan(k) ==
    /\ k \in orphaned
    /\ orphaned' = orphaned \ {k}
    /\ keyState' \in {keyState, IF keyState[k] = "valid" THEN SessionsRemoved
                                                          ELSE keyState}
    /\ UNCHANGED <<fileVars, procVars>>

-----------------------------------------------------------------------------
(* What a process does with an answer                                      *)

\* Mutant: any answer will do.
AuthenticatedIfAnswered_(status) == status # 504

\* isAuthenticated resolves to false for 401 and rejects for any other error.
Authenticated(status) == status = 200

\* Mutant: nothing is thrown when the key is refused.
LoginAnsweredUnchecked_(p) ==
    /\ pc[p] = "replied" /\ cmd[p] \in LoginCommand
    /\ IF Authenticated(reply[p]) THEN GoTo(p, "truncate") ELSE Exit(p, "loggedIn")
    /\ UNCHANGED <<fileVars, serverVars>>

LoginAnswered(p) ==
    /\ pc[p] = "replied" /\ cmd[p] \in LoginCommand
    /\ IF Authenticated(reply[p]) THEN GoTo(p, "truncate") ELSE Exit(p, "failed")
    /\ UNCHANGED <<fileVars, serverVars>>

\* writeFileSync opens the file with O_TRUNC ...
TruncateConfig(p) ==
    /\ pc[p] = "truncate"
    /\ configFile' = EmptyFile
    /\ openFor' = openFor \cup {p}
    /\ GoTo(p, "write")
    /\ UNCHANGED serverVars

\* ... and writes at offset 0.  Over the text of another writer that is
\* longer, a tail of it remains.  A file that was unlinked stays away.
WriteConfig(p) ==
    /\ pc[p] = "write"
    /\ IF p \in openFor
       THEN \/ configFile' = LoginOf(p)
            \/ /\ configFile \notin {EmptyFile, LoginOf(p)}
               /\ configFile' = GarbledFile
       ELSE UNCHANGED configFile
    /\ openFor' = openFor \ {p}
    /\ Exit(p, "loggedIn")
    /\ UNCHANGED serverVars

\* Mutant: any error deletes the file.
HandleAnyError_(p) ==
    IF reply[p] # 200 THEN deleteConnectionInfoCache ELSE UNCHANGED fileVars

\* The wrapper that getSdk puts around every SDK call: 401 deletes the file.
HandleUnauthorized(p) ==
    IF reply[p] = 401 THEN deleteConnectionInfoCache ELSE UNCHANGED fileVars

\* Mutant: one call too many.
ApiAnsweredOffByOne_(p) ==
    /\ pc[p] = "replied" /\ cmd[p] = "api"
    /\ HandleUnauthorized(p)
    /\ IF reply[p] # 200 THEN Exit(p, "failed")
       ELSE IF callsLeft[p] >= 0 THEN Send(p, sdk[p], callsLeft[p] - 1)
       ELSE Exit(p, "ok")
    /\ UNCHANGED serverVars

\* Mutant: a request without an answer is sent again.
ApiAnsweredRetries_(p) ==
    /\ pc[p] = "replied" /\ cmd[p] = "api"
    /\ HandleUnauthorized(p)
    /\ IF reply[p] = 504 THEN Send(p, sdk[p], callsLeft[p])
       ELSE IF reply[p] # 200 THEN Exit(p, "failed")
       ELSE IF callsLeft[p] > 1 THEN Send(p, sdk[p], callsLeft[p] - 1)
       ELSE Exit(p, "ok")
    /\ UNCHANGED serverVars

ApiAnswered(p) ==
    /\ pc[p] = "replied" /\ cmd[p] = "api"
    /\ HandleUnauthorized(p)
    /\ IF reply[p] # 200 THEN Exit(p, "failed")
       ELSE IF callsLeft[p] > 1 THEN Send(p, sdk[p], callsLeft[p] - 1)
       ELSE Exit(p, "ok")
    /\ UNCHANGED serverVars

\* whoami reads the file a second time, to show the proxy settings; it throws
\* when there is no login in it any more.
WhoamiAnswered(p) ==
    /\ pc[p] = "replied" /\ cmd[p] = "whoami"
    /\ HandleUnauthorized(p)
    /\ IF reply[p] = 200 /\ LoggedIn(configFile)
       THEN Exit(p, "ok") ELSE Exit(p, "failed")
    /\ UNCHANGED serverVars

\* Mutant: no error of removeSession is shown.
SwallowedAlways_(status) == TRUE

\* 401 and 404 are swallowed: the session is over already.
Swallowed(status) == status \in {401, 404}

LogoutAnswered(p) ==
    /\ pc[p] = "replied" /\ cmd[p] = "logout"
    /\ HandleUnauthorized(p)
    /\ IF reply[p] = 200 \/ Swallowed(reply[p])
       THEN GoTo(p, "unlink") ELSE Exit(p, "failed")
    /\ UNCHANGED serverVars

LogoutDeletes(p) ==
    /\ pc[p] = "unlink"
    /\ deleteConnectionInfoCache
    /\ Exit(p, "ok")
    /\ UNCHANGED serverVars

\* Ctrl-C or a kill, anywhere.  Only a removeSession in flight still matters.
Kill(p) ==
    /\ pc[p] # "exited"
    /\ Exit(p, "killed")
    /\ openFor' = openFor \ {p}
    /\ orphaned' = IF pc[p] = "request" /\ cmd[p] = "logout"
                   THEN orphaned \cup {sdk[p]} ELSE orphaned
    /\ UNCHANGED <<configFile, keyState>>

-----------------------------------------------------------------------------
Execute(p) ==
    \/ ExecuteRefused(p) \/ ExecuteLogin(p) \/ ExecuteBrowserLogin(p)
    \/ ExecuteLink(p) \/ ExecuteLogout(p) \/ ExecuteWhoami(p) \/ ExecuteApi(p)

User(p) == IssueSessionKey(p) \/ EnterToken(p) \/ AbortPrompt(p) \/ Kill(p)

Serve(p) ==
    \/ ServeUnauthorized(p) \/ ServeCall(p)
    \/ ServeRemoveSession(p) \/ RequestLost(p)

Run(p) ==
    \/ LoginAnswered(p) \/ TruncateConfig(p) \/ WriteConfig(p)
    \/ ApiAnswered(p) \/ WhoamiAnswered(p)
    \/ LogoutAnswered(p) \/ LogoutDeletes(p)

Next ==
    \/ \E p \in Proc : Execute(p) \/ User(p) \/ Serve(p) \/ Run(p)
    \/ \E k \in Key : KeyDies(k) \/ ServeOrphan(k)

Spec == Init /\ [][Next]_vars

\* A process that can go on does, and a request is answered or fails in the
\* end (TCP gives up).  Nothing is assumed of the user, who may stay at the
\* prompt for ever, and nothing makes a user start or kill a command.
Fairness == \A p \in Proc : WF_vars(Serve(p)) /\ WF_vars(Run(p))

FairSpec == Spec /\ Fairness

-----------------------------------------------------------------------------
(* Properties                                                              *)

\* A key the server never issued is not stored: whatever two processes, a
\* kill or a lost answer do, the file only ever holds a key the server
\* accepted once (login and loginWithExternalAuthentication store after
\* isAuthenticated).
StoredKeyWasAccepted ==
    LoggedIn(configFile) =>
        keyState[deserializeConnectionInfo(configFile).accessKey] # "unissued"

\* A logout of a browser login that succeeds has ended the session: the key
\* no longer works when the file is deleted.  (A lost answer, 504, makes it
\* fail and keeps the file, so that the user can try again.)
LogoutEndsSession ==
    \A p \in Proc :
        /\ pc[p] = "unlink"
        /\ ~connectionInfo[p].preserveAccessKeyOnLogout
        /\ connectionInfo[p].accessKey \in SessionKey
        => keyState[connectionInfo[p].accessKey] = "dead"

\* A failed or killed logout does not lose the login: as long as a browser
\* session of the file lives, only a step that knows it dead takes the login
\* away.  Holds of one process at a time.
LiveSessionKeepsLogin ==
    [][ LET info == deserializeConnectionInfo(configFile) IN
        /\ LoggedIn(configFile) /\ ~LoggedIn(configFile')
        /\ info.accessKey \in SessionKey
        /\ ~info.preserveAccessKeyOnLogout
        => keyState[info.accessKey] = "dead" ]_vars

\* A login is never replaced by another one: there is always a logout, or an
\* Unauthorized answer, between two logins ("Must not be logged in", the
\* guard of execute).  Holds of one process at a time.
NoLoginOverwritten ==
    [][ LoggedIn(configFile) /\ configFile' # configFile
        => configFile' = NoFile ]_vars

\* The file is deleted only by a command that was run with the login in it:
\* never does an Unauthorized answer to one key, or the logout of one login,
\* delete another.  Holds of one process at a time.
DeletesOwnLogin ==
    [][ LoggedIn(configFile) /\ configFile' = NoFile
        => \E p \in Proc :
              /\ pc[p] \in {"replied", "unlink"}
              /\ connectionInfo[p] = deserializeConnectionInfo(configFile) ]_vars

\* A login that reported success is in the file until the next command.
\* Holds of one process at a time.
SuccessfulLoginIsStored ==
    \A p \in Proc :
        pc[p] = "exited" /\ outcome[p] = "loggedIn" => LoggedIn(configFile)

\* An Unauthorized answer "must be due to an invalid (or expired) access key"
\* and deletes the cached connection (getSdk): the connection with that key.
\* Does not hold of two processes: the answer may be older than the file.
UnauthorizedDeletesRejected ==
    [][ \A p \in Proc :
          /\ pc[p] = "replied" /\ pc'[p] # "replied" /\ reply[p] = 401
          /\ LoggedIn(configFile) /\ configFile' = NoFile
          => SavedKey = sdk[p] ]_vars

\* The login that is saved is the one the file yields.  It can be given up
\* without loss when it was made with an access key, or its session is over.
Session == INSTANCE SavedLogin
           WITH saved <- deserializeConnectionInfo(configFile),
                report <- outcome,
                known <- {l \in Login : keyState[l.accessKey] # "unissued"},
                free <- {l \in Login : \/ l.preserveAccessKeyOnLogout
                                       \/ l.accessKey \notin SessionKey
                                       \/ keyState[l.accessKey] = "dead"}

\* One process at a time behaves as if each command saved or gave up the login
\* in one step, however many steps the file, the server and a kill make of it:
\* the truncated file is seen by nobody, and a login that was there or a
\* session that lives is not lost on the way.
ActsAtOnce == Session!Spec

\* A command that waits neither for the user nor for a prompt ends.
CommandsEnd ==
    \A p \in Proc : pc[p] \notin {"exited", "prompt"} ~> pc[p] = "exited"
=============================================================================
