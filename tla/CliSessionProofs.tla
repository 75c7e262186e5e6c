-------------------------- MODULE CliSessionProofs --------------------------
(* Theorems about CliSession, for every set of processes and of keys.      *)
EXTENDS CliSession, TLAPS

\* What the file yields is a login or undefined.
LEMMA DeserializeType ==
    ASSUME NEW f \in File
    PROVE  /\ deserializeConnectionInfo(f) \in Login \cup {NoLogin}
           /\ f \in {NoFile, EmptyFile, GarbledFile} =>
                 deserializeConnectionInfo(f) = NoLogin
           /\ f \in Login => deserializeConnectionInfo(f) = f
BY FileAssumption DEF File, Login, LegacyLogin, deserializeConnectionInfo

LEMMA SavedKeyType ==
    ASSUME TypeOK, LoggedIn(configFile)
    PROVE  SavedKey \in Key
<1>1. deserializeConnectionInfo(configFile) \in Login
  BY DeserializeType DEF TypeOK, LoggedIn
<1> QED BY <1>1 DEF SavedKey, Login

\* The steps of a process keep the types of what they change.
LEMMA ExitType ==
    ASSUME TypeOK, NEW p \in Proc, NEW how \in Outcome, Exit(p, how)
    PROVE  /\ pc' \in [Proc -> PC] /\ cmd' \in [Proc -> Command]
           /\ connectionInfo' \in [Proc -> Login \cup {NoLogin}]
           /\ sdk' \in [Proc -> Key \cup {NoKey}]
           /\ reply' \in [Proc -> Status]
           /\ callsLeft' \in [Proc -> 0..MaxCalls]
           /\ outcome' \in [Proc -> Outcome]
BY MaxCallsAssumption DEF TypeOK, Exit, PC, Command, Status

LEMMA StartType ==
    ASSUME TypeOK, NEW p \in Proc, NEW c \in Command, NEW label \in PC,
           NEW k \in Key \cup {NoKey}, NEW n \in 0..MaxCalls,
           Start(p, c, label, k, n)
    PROVE  TypeOK'
<1>1. deserializeConnectionInfo(configFile) \in Login \cup {NoLogin}
  BY DeserializeType DEF TypeOK
<1> QED BY <1>1 DEF TypeOK, Start, fileVars, serverVars, Outcome

LEMMA SendType ==
    ASSUME TypeOK, NEW p \in Proc, NEW k \in Key, NEW n \in 0..MaxCalls,
           Send(p, k, n)
    PROVE  /\ pc' \in [Proc -> PC] /\ cmd' \in [Proc -> Command]
           /\ connectionInfo' \in [Proc -> Login \cup {NoLogin}]
           /\ sdk' \in [Proc -> Key \cup {NoKey}]
           /\ reply' \in [Proc -> Status]
           /\ callsLeft' \in [Proc -> 0..MaxCalls]
           /\ outcome' \in [Proc -> Outcome]
BY DEF TypeOK, Send, PC, Status

LEMMA GoToType ==
    ASSUME TypeOK, NEW p \in Proc, NEW label \in PC, GoTo(p, label)
    PROVE  /\ pc' \in [Proc -> PC] /\ cmd' \in [Proc -> Command]
           /\ connectionInfo' \in [Proc -> Login \cup {NoLogin}]
           /\ sdk' \in [Proc -> Key \cup {NoKey}]
           /\ reply' \in [Proc -> Status]
           /\ callsLeft' \in [Proc -> 0..MaxCalls]
           /\ outcome' \in [Proc -> Outcome]
BY DEF TypeOK, GoTo

LEMMA AnswerType ==
    ASSUME TypeOK, NEW p \in Proc, NEW status \in Status, Answer(p, status),
           keyState' \in [Key -> {"unissued", "valid", "dead"}],
           UNCHANGED orphaned
    PROVE  TypeOK'
BY DEF TypeOK, Answer, PC, fileVars

LEMMA DeletedFileType ==
    ASSUME deleteConnectionInfoCache
    PROVE  configFile' \in File /\ openFor' \in SUBSET Proc
BY DEF deleteConnectionInfoCache, File

LEMMA HandledFileType ==
    ASSUME TypeOK, NEW p \in Proc, HandleUnauthorized(p)
    PROVE  configFile' \in File /\ openFor' \in SUBSET Proc
BY DeletedFileType DEF TypeOK, HandleUnauthorized, fileVars

\* A request is only ever sent with a key: the SDK refuses to be created
\* without one.  This part of the inductive invariant is typing of the sdk
\* by the place the process is at.
SdkMade ==
    \A p \in Proc :
        pc[p] \in {"request", "replied", "truncate", "write", "unlink"}
        => sdk[p] \in Key

LEMMA InitType == Init => TypeOK /\ SdkMade
<1> SUFFICES ASSUME Init PROVE TypeOK /\ SdkMade
  OBVIOUS
<1>1. configFile \in File
  BY DEF Init, File
<1>2. 0 \in 0..MaxCalls
  BY MaxCallsAssumption
<1> QED BY <1>1, <1>2 DEF Init, TypeOK, SdkMade, PC, Command, Status, Outcome

LEMMA TypePreserved == TypeOK /\ SdkMade /\ [Next]_vars => TypeOK' /\ SdkMade'
<1> SUFFICES ASSUME TypeOK, SdkMade, [Next]_vars PROVE TypeOK' /\ SdkMade'
  OBVIOUS
<1>1. ASSUME NEW p \in Proc, ExecuteRefused(p) \/ ExecuteLink(p) \/ AbortPrompt(p)
      PROVE  TypeOK' /\ SdkMade'
  <2>1. PICK how \in Outcome : Exit(p, how) /\ UNCHANGED <<fileVars, serverVars>>
    BY <1>1 DEF ExecuteRefused, ExecuteLink, AbortPrompt, Outcome
  <2>2. TypeOK'
    BY <2>1, ExitType DEF TypeOK, fileVars, serverVars
  <2> QED BY <2>1, <2>2 DEF SdkMade, Exit, TypeOK
<1>2. ASSUME NEW p \in Proc,
             ExecuteLogin(p) \/ ExecuteBrowserLogin(p) \/ ExecuteLogout(p)
               \/ ExecuteWhoami(p) \/ ExecuteApi(p)
      PROVE  TypeOK' /\ SdkMade'
  <2>1. PICK c \in Command, label \in PC, k \in Key \cup {NoKey}, n \in 0..MaxCalls :
          Start(p, c, label, k, n) /\ (label # "prompt" => k \in Key)
    <3>1. 0 \in 0..MaxCalls /\ 1 \in 0..MaxCalls /\ 1..MaxCalls \subseteq 0..MaxCalls
      BY MaxCallsAssumption
    <3>2. CASE ExecuteLogin(p)
      BY <3>1, <3>2 DEF ExecuteLogin, Typed, Command, PC, Key
    <3>3. CASE ExecuteBrowserLogin(p)
      BY <3>1, <3>3 DEF ExecuteBrowserLogin, Command, PC
    <3>4. CASE ExecuteLogout(p)
      BY <3>1, <3>4, SavedKeyType DEF ExecuteLogout, Command, PC
    <3>5. CASE ExecuteWhoami(p)
      BY <3>1, <3>5, SavedKeyType DEF ExecuteWhoami, Command, PC
    <3>6. CASE ExecuteApi(p)
      BY <3>1, <3>6, SavedKeyType DEF ExecuteApi, Command, PC
    <3> QED BY <1>2, <3>2, <3>3, <3>4, <3>5, <3>6
  <2>2. TypeOK'
    BY <2>1, StartType
  <2> QED BY <2>1, <2>2 DEF SdkMade, Start, TypeOK
<1>3. ASSUME NEW p \in Proc, IssueSessionKey(p)
      PROVE  TypeOK' /\ SdkMade'
  BY <1>3 DEF IssueSessionKey, TypeOK, SdkMade, fileVars, procVars
<1>4. ASSUME NEW p \in Proc, EnterToken(p)
      PROVE  TypeOK' /\ SdkMade'
  <2>1. 1 \in 0..MaxCalls
    BY MaxCallsAssumption
  <2>2. PICK k \in Key : Send(p, k, 1)
    BY <1>4 DEF EnterToken, Typed, Key
  <2>3. TypeOK'
    BY <1>4, <2>1, <2>2, SendType DEF EnterToken, TypeOK, fileVars, serverVars
  <2> QED BY <2>2, <2>3 DEF SdkMade, Send, TypeOK
<1>5. ASSUME NEW p \in Proc, Kill(p)
      PROVE  TypeOK' /\ SdkMade'
  <2>1. "killed" \in Outcome /\ Exit(p, "killed")
    BY <1>5 DEF Kill, Outcome
  <2>2. orphaned' \in SUBSET Key
    BY <1>5 DEF Kill, SdkMade, TypeOK
  <2>3. TypeOK'
    BY <1>5, <2>1, <2>2, ExitType DEF Kill, TypeOK
  <2> QED BY <2>1, <2>3 DEF SdkMade, Exit, TypeOK
<1>6. ASSUME NEW p \in Proc, Serve(p)
      PROVE  TypeOK' /\ SdkMade'
  <2>1. pc[p] = "request"
    BY <1>6 DEF Serve, ServeUnauthorized, ServeCall, ServeRemoveSession, RequestLost
  <2>2. PICK status \in Status : Answer(p, status)
    BY <1>6 DEF Serve, ServeUnauthorized, ServeCall, ServeRemoveSession,
                RequestLost, Status
  <2>3. /\ keyState' \in [Key -> {"unissued", "valid", "dead"}]
        /\ UNCHANGED orphaned
    BY <1>6 DEF Serve, ServeUnauthorized, ServeCall, ServeRemoveSession,
                RequestLost, SessionsRemoved, serverVars, TypeOK
  <2>4. TypeOK'
    BY <2>2, <2>3, AnswerType
  <2> QED BY <2>1, <2>2, <2>4 DEF SdkMade, Answer, TypeOK
<1>7. ASSUME NEW p \in Proc, LoginAnswered(p)
      PROVE  TypeOK' /\ SdkMade'
  <2>1. TypeOK'
    BY <1>7, ExitType, GoToType
    DEF LoginAnswered, TypeOK, fileVars, serverVars, PC, Outcome
  <2> QED BY <1>7, <2>1 DEF LoginAnswered, SdkMade, Exit, GoTo, TypeOK
<1>8. ASSUME NEW p \in Proc, TruncateConfig(p)
      PROVE  TypeOK' /\ SdkMade'
  <2>1. TypeOK'
    BY <1>8, GoToType DEF TruncateConfig, TypeOK, serverVars, PC, File
  <2> QED BY <1>8, <2>1 DEF TruncateConfig, SdkMade, GoTo, TypeOK
<1>9. ASSUME NEW p \in Proc, WriteConfig(p)
      PROVE  TypeOK' /\ SdkMade'
  <2>1. LoginOf(p) \in Login
    BY <1>9 DEF WriteConfig, SdkMade, LoginOf, Login
  <2>2. configFile' \in File /\ openFor' \in SUBSET Proc
    BY <1>9, <2>1 DEF WriteConfig, TypeOK, File
  <2>3. "loggedIn" \in Outcome /\ Exit(p, "loggedIn") /\ UNCHANGED serverVars
    BY <1>9 DEF WriteConfig, Outcome
  <2>4. TypeOK'
    BY <2>2, <2>3, ExitType DEF TypeOK, serverVars
  <2> QED BY <2>3, <2>4 DEF SdkMade, Exit, TypeOK
<1>10. ASSUME NEW p \in Proc, ApiAnswered(p)
       PROVE  TypeOK' /\ SdkMade'
  <2>1. configFile' \in File /\ openFor' \in SUBSET Proc
    BY <1>10, HandledFileType DEF ApiAnswered
  <2>2. sdk[p] \in Key
    BY <1>10 DEF ApiAnswered, SdkMade
  <2>3. CASE Send(p, sdk[p], callsLeft[p] - 1) /\ callsLeft[p] > 1
    <3>1. callsLeft[p] - 1 \in 0..MaxCalls
      BY <2>3, MaxCallsAssumption DEF TypeOK
    <3>2. TypeOK'
      BY <1>10, <2>1, <2>2, <2>3, <3>1, SendType DEF ApiAnswered, TypeOK, serverVars
    <3> QED BY <2>2, <2>3, <3>2 DEF SdkMade, Send, TypeOK
  <2>4. CASE \E how \in Outcome : Exit(p, how)
    <3>1. TypeOK'
      BY <1>10, <2>1, <2>4, ExitType DEF ApiAnswered, TypeOK, serverVars
    <3> QED BY <2>4, <3>1 DEF SdkMade, Exit, TypeOK
  <2> QED BY <1>10, <2>3, <2>4 DEF ApiAnswered, Outcome
<1>11. ASSUME NEW p \in Proc, WhoamiAnswered(p)
       PROVE  TypeOK' /\ SdkMade'
  <2>1. configFile' \in File /\ openFor' \in SUBSET Proc
    BY <1>11, HandledFileType DEF WhoamiAnswered
  <2>2. PICK how \in Outcome : Exit(p, how)
    BY <1>11 DEF WhoamiAnswered, Outcome
  <2>3. TypeOK'
    BY <1>11, <2>1, <2>2, ExitType DEF WhoamiAnswered, TypeOK, serverVars
  <2> QED BY <2>2, <2>3 DEF SdkMade, Exit, TypeOK
<1>12. ASSUME NEW p \in Proc, LogoutAnswered(p)
       PROVE  TypeOK' /\ SdkMade'
  <2>1. configFile' \in File /\ openFor' \in SUBSET Proc
    BY <1>12, HandledFileType DEF LogoutAnswered
  <2>2. TypeOK'
    BY <1>12, <2>1, ExitType, GoToType
    DEF LogoutAnswered, TypeOK, serverVars, PC, Outcome
  <2> QED BY <1>12, <2>2 DEF LogoutAnswered, SdkMade, Exit, GoTo, TypeOK
<1>13. ASSUME NEW p \in Proc, LogoutDeletes(p)
       PROVE  TypeOK' /\ SdkMade'
  <2>1. "ok" \in Outcome /\ Exit(p, "ok") /\ UNCHANGED serverVars
    BY <1>13 DEF LogoutDeletes, Outcome
  <2>2. TypeOK'
    BY <1>13, <2>1, ExitType, DeletedFileType DEF LogoutDeletes, TypeOK, serverVars
  <2> QED BY <2>1, <2>2 DEF SdkMade, Exit, TypeOK
<1>14. ASSUME NEW k \in Key, KeyDies(k) \/ ServeOrphan(k)
       PROVE  TypeOK' /\ SdkMade'
  BY <1>14 DEF KeyDies, ServeOrphan, SessionsRemoved, TypeOK, SdkMade,
               fileVars, procVars
<1>15. CASE UNCHANGED vars
  BY <1>15 DEF vars, fileVars, serverVars, procVars, TypeOK, SdkMade
<1> QED
  BY <1>1, <1>2, <1>3, <1>4, <1>5, <1>6, <1>7, <1>8, <1>9, <1>10, <1>11,
     <1>12, <1>13, <1>14, <1>15 DEF Next, Execute, User, Run

\* Type correctness, with the typing of the SDK's key.
THEOREM TypeCorrect == Spec => []TypeOK
<1>1. Spec => [](TypeOK /\ SdkMade)
  <2>1. TypeOK /\ SdkMade /\ [Next]_vars => (TypeOK /\ SdkMade)'
    BY TypePreserved
  <2> QED BY <2>1, InitType, PTL DEF Spec
<1> QED BY <1>1, PTL

-----------------------------------------------------------------------------
(* The server never takes a key back to an earlier state.                  *)

KeysOnlyAge ==
    \A k \in Key : /\ keyState[k] # "unissued" => keyState'[k] # "unissued"
                   /\ keyState[k] = "dead" => keyState'[k] = "dead"

LEMMA KeysAge == TypeOK /\ [Next]_vars => KeysOnlyAge
<1> SUFFICES ASSUME TypeOK, [Next]_vars PROVE KeysOnlyAge
  OBVIOUS
<1>1. ASSUME NEW p \in Proc, IssueSessionKey(p) PROVE KeysOnlyAge
  BY <1>1 DEF IssueSessionKey, TypeOK, KeysOnlyAge
<1>2. ASSUME NEW p \in Proc, ServeRemoveSession(p) PROVE KeysOnlyAge
  BY <1>2 DEF ServeRemoveSession, SessionsRemoved, TypeOK, KeysOnlyAge
<1>3. ASSUME NEW k \in Key, KeyDies(k) \/ ServeOrphan(k) PROVE KeysOnlyAge
  BY <1>3 DEF KeyDies, ServeOrphan, SessionsRemoved, TypeOK, KeysOnlyAge
<1>4. CASE UNCHANGED keyState
  BY <1>4 DEF KeysOnlyAge
<1>5. ASSUME NEW p \in Proc,
             Execute(p) \/ EnterToken(p) \/ AbortPrompt(p) \/ Kill(p)
               \/ ServeUnauthorized(p) \/ ServeCall(p) \/ RequestLost(p) \/ Run(p)
      PROVE  UNCHANGED keyState
  BY <1>5 DEF Execute, ExecuteRefused, ExecuteLogin, ExecuteBrowserLogin,
       ExecuteLink, ExecuteLogout, ExecuteWhoami, ExecuteApi, Start,
       EnterToken, AbortPrompt, Kill, ServeUnauthorized, ServeCall, RequestLost,
       Run, LoginAnswered, TruncateConfig, WriteConfig, ApiAnswered,
       WhoamiAnswered, LogoutAnswered, LogoutDeletes, serverVars
<1> QED BY <1>1, <1>2, <1>3, <1>4, <1>5 DEF Next, User, Serve, vars, serverVars

-----------------------------------------------------------------------------
(* Only accepted keys are stored.                                          *)

Issued(k) == k \in Key /\ keyState[k] # "unissued"

\* From the answer 200 to the write, a login holds a key that was accepted;
\* the copy of the file that a process took holds one too.
AcceptedInv ==
    /\ StoredKeyWasAccepted
    /\ \A p \in Proc :
          \/ pc[p] \in {"truncate", "write"}
          \/ pc[p] = "replied" /\ cmd[p] \in LoginCommand /\ reply[p] = 200
          => Issued(sdk[p])

LEMMA InitAccepted == Init => AcceptedInv
<1> SUFFICES ASSUME Init PROVE AcceptedInv
  OBVIOUS
<1>1. StoredKeyWasAccepted
  <2>1. CASE configFile = NoFile
    BY <2>1, FileAssumption
    DEF StoredKeyWasAccepted, LoggedIn, deserializeConnectionInfo
  <2>2. CASE configFile \in Login /\ keyState[configFile.accessKey] = "valid"
    BY <2>2 DEF StoredKeyWasAccepted, LoggedIn, deserializeConnectionInfo
  <2>3. CASE configFile \in LegacyLogin /\ configFile.accessKeyName \in AccessKey
    <3>1. configFile \notin Login
      BY <2>3, FileAssumption
    <3>2. deserializeConnectionInfo(configFile).accessKey = configFile.accessKeyName
      BY <2>3, <3>1 DEF deserializeConnectionInfo
    <3> QED BY <2>3, <3>2 DEF StoredKeyWasAccepted, Init
  <2> QED BY <2>1, <2>2, <2>3 DEF Init
<1> QED BY <1>1 DEF AcceptedInv, Init

LEMMA StoredAcceptedKept ==
    ASSUME TypeOK, StoredKeyWasAccepted, KeysOnlyAge,
           \/ UNCHANGED configFile
           \/ configFile' \in {NoFile, EmptyFile, GarbledFile}
    PROVE  StoredKeyWasAccepted'
<1>1. CASE UNCHANGED configFile
  <2>1. SavedKey \in Key \/ ~LoggedIn(configFile)
    BY SavedKeyType
  <2> QED BY <1>1, <2>1
          DEF StoredKeyWasAccepted, KeysOnlyAge, LoggedIn, SavedKey
<1>2. CASE configFile' \in {NoFile, EmptyFile, GarbledFile}
  BY <1>2, FileAssumption
  DEF StoredKeyWasAccepted, LoggedIn, deserializeConnectionInfo
<1> QED BY <1>1, <1>2

LEMMA AcceptedPreserved ==
    TypeOK /\ SdkMade /\ AcceptedInv /\ [Next]_vars => AcceptedInv'
<1> SUFFICES ASSUME TypeOK, SdkMade, AcceptedInv, [Next]_vars PROVE AcceptedInv'
  OBVIOUS
<1>0. KeysOnlyAge /\ StoredKeyWasAccepted
  BY KeysAge DEF AcceptedInv
<1> DEFINE InFlight(p) ==
       \/ pc[p] \in {"truncate", "write"}
       \/ pc[p] = "replied" /\ cmd[p] \in LoginCommand /\ reply[p] = 200
<1>k. ASSUME NEW p \in Proc, Issued(sdk[p]), sdk'[p] = sdk[p]
      PROVE  Issued(sdk[p])'
  BY <1>k, <1>0 DEF Issued, KeysOnlyAge
\* No step but a served call and the two halves of the write puts a key on
\* its way into the file.
<1>1. ASSUME NEW p \in Proc, ServeCall(p) PROVE AcceptedInv'
  <2>1. Issued(sdk[p])'
    <3>1. Issued(sdk[p])
      BY <1>1 DEF ServeCall, Issued, SdkMade
    <3> QED BY <1>1, <3>1 DEF ServeCall, Answer, Issued, serverVars
  <2>2. \A q \in Proc \ {p} : InFlight(q)' => InFlight(q) /\ sdk'[q] = sdk[q]
    BY <1>1 DEF ServeCall, Answer, TypeOK
  <2>3. UNCHANGED configFile
    BY <1>1 DEF ServeCall, Answer, fileVars
  <2>4. \A q \in Proc : InFlight(q)' => Issued(sdk[q])'
    BY <2>1, <2>2, <1>k DEF AcceptedInv
  <2> QED BY <2>3, <2>4, <1>0, StoredAcceptedKept DEF AcceptedInv
<1>2. ASSUME NEW p \in Proc, WriteConfig(p) PROVE AcceptedInv'
  <2>1. \A q \in Proc : InFlight(q)' => InFlight(q) /\ sdk'[q] = sdk[q]
    BY <1>2 DEF WriteConfig, Exit, TypeOK
  <2>2. \A q \in Proc : InFlight(q)' => Issued(sdk[q])'
    BY <2>1, <1>k DEF AcceptedInv
  <2>3. StoredKeyWasAccepted'
    <3>1. CASE configFile' = LoginOf(p)
      <4>1. LoginOf(p) \in Login /\ LoginOf(p).accessKey = sdk[p]
        BY <1>2 DEF WriteConfig, SdkMade, LoginOf, Login
      <4>2. Issued(sdk[p])
        BY <1>2 DEF WriteConfig, AcceptedInv
      <4>3. keyState'[sdk[p]] # "unissued"
        BY <4>2, <1>0 DEF Issued, KeysOnlyAge
      <4>4. deserializeConnectionInfo(configFile') = LoginOf(p)
        BY <3>1, <4>1 DEF deserializeConnectionInfo
      <4> QED BY <4>1, <4>3, <4>4 DEF StoredKeyWasAccepted
    <3>2. CASE configFile' = GarbledFile \/ UNCHANGED configFile
      BY <3>2, <1>0, StoredAcceptedKept
    <3> QED BY <1>2, <3>1, <3>2 DEF WriteConfig
  <2> QED BY <2>2, <2>3 DEF AcceptedInv
<1>3. ASSUME \A q \in Proc : InFlight(q)' => InFlight(q) /\ sdk'[q] = sdk[q],
             UNCHANGED configFile
               \/ configFile' \in {NoFile, EmptyFile, GarbledFile}
      PROVE  AcceptedInv'
  <2>1. \A q \in Proc : InFlight(q)' => Issued(sdk[q])'
    BY <1>3, <1>k DEF AcceptedInv
  <2> QED BY <1>3, <2>1, <1>0, StoredAcceptedKept DEF AcceptedInv
<1>4. ASSUME NEW p \in Proc, Execute(p) \/ User(p) PROVE AcceptedInv'
  <2>1. CASE Execute(p)
    <3>1. CASE ExecuteRefused(p) \/ ExecuteLink(p)
      BY <3>1, <1>3 DEF ExecuteRefused, ExecuteLink, Exit, TypeOK, fileVars
    <3>2. CASE ExecuteLogin(p) \/ ExecuteBrowserLogin(p) \/ ExecuteLogout(p)
                 \/ ExecuteWhoami(p) \/ ExecuteApi(p)
      <4>1. PICK c \in Command, label \in {"prompt", "request", "unlink"} :
              \E k, n : Start(p, c, label, k, n)
        BY <3>2 DEF ExecuteLogin, ExecuteBrowserLogin, ExecuteLogout,
                    ExecuteWhoami, ExecuteApi, Command
      <4> QED BY <4>1, <1>3 DEF Start, TypeOK, fileVars
    <3> QED BY <2>1, <3>1, <3>2 DEF Execute
  <2>2. CASE User(p)
    <3>1. CASE IssueSessionKey(p)
      BY <3>1, <1>3 DEF IssueSessionKey, fileVars, procVars
    <3>2. CASE EnterToken(p)
      BY <3>2, <1>3 DEF EnterToken, Send, TypeOK, fileVars
    <3>3. CASE AbortPrompt(p) \/ Kill(p)
      BY <3>3, <1>3 DEF AbortPrompt, Kill, Exit, TypeOK, fileVars
    <3> QED BY <2>2, <3>1, <3>2, <3>3 DEF User
  <2> QED BY <1>4, <2>1, <2>2
<1>5. ASSUME NEW p \in Proc,
             ServeUnauthorized(p) \/ ServeRemoveSession(p) \/ RequestLost(p)
      PROVE  AcceptedInv'
  <2>1. CASE ServeUnauthorized(p) \/ RequestLost(p)
    BY <1>3, <2>1 DEF ServeUnauthorized, RequestLost, Answer, TypeOK, fileVars
  <2>2. CASE ServeRemoveSession(p)
    BY <1>3, <2>2 DEF ServeRemoveSession, Answer, TypeOK, fileVars, LoginCommand
  <2> QED BY <1>5, <2>1, <2>2
<1>6. ASSUME NEW p \in Proc, LoginAnswered(p) \/ TruncateConfig(p)
      PROVE  AcceptedInv'
  BY <1>3, <1>6 DEF LoginAnswered, TruncateConfig, Authenticated, Exit, GoTo,
                    TypeOK, fileVars
<1>7. ASSUME NEW p \in Proc,
             ApiAnswered(p) \/ WhoamiAnswered(p) \/ LogoutAnswered(p)
               \/ LogoutDeletes(p)
      PROVE  AcceptedInv'
  BY <1>3, <1>7 DEF ApiAnswered, WhoamiAnswered, LogoutAnswered, LogoutDeletes,
       HandleUnauthorized, deleteConnectionInfoCache, Exit, GoTo, Send, TypeOK,
       fileVars
<1>8. ASSUME NEW k \in Key, KeyDies(k) \/ ServeOrphan(k) PROVE AcceptedInv'
  BY <1>3, <1>8 DEF KeyDies, ServeOrphan, fileVars, procVars
<1>9. CASE UNCHANGED vars
  BY <1>3, <1>9 DEF vars, fileVars, procVars
<1> QED BY <1>1, <1>2, <1>4, <1>5, <1>6, <1>7, <1>8, <1>9 DEF Next, Serve, Run

\* Whatever the processes do, the file never holds a key the server had not
\* accepted.
THEOREM OnlyAcceptedKeysStored == Spec => []StoredKeyWasAccepted
<1> DEFINE I == TypeOK /\ SdkMade /\ AcceptedInv
<1>1. Init => I
  BY InitType, InitAccepted
<1>2. I /\ [Next]_vars => I'
  BY TypePreserved, AcceptedPreserved
<1>3. I => StoredKeyWasAccepted
  BY DEF AcceptedInv
<1> HIDE DEF I
<1> QED BY <1>1, <1>2, <1>3, PTL DEF Spec

-----------------------------------------------------------------------------
(* A logout that succeeds has ended the session.                           *)

\* A logout works with the key of the login it read, which the server knows;
\* once it has an answer that lets it go on, a session key is dead.
LogoutInv ==
    \A p \in Proc :
        /\ cmd[p] = "logout" =>
              /\ connectionInfo[p] \in Login
              /\ sdk[p] = connectionInfo[p].accessKey
              /\ Issued(sdk[p])
              /\ pc[p] # "prompt"
        /\ pc[p] = "unlink" => cmd[p] = "logout"
        /\ \/ /\ pc[p] = "replied" /\ cmd[p] = "logout"
              /\ reply[p] = 200 \/ Swallowed(reply[p])
           \/ /\ pc[p] = "unlink"
              /\ ~connectionInfo[p].preserveAccessKeyOnLogout
           => (sdk[p] \in SessionKey => keyState[sdk[p]] = "dead")

LEMMA LogoutPreserved ==
    TypeOK /\ SdkMade /\ AcceptedInv /\ LogoutInv /\ [Next]_vars => LogoutInv'
<1> SUFFICES ASSUME TypeOK, SdkMade, AcceptedInv, LogoutInv, [Next]_vars
             PROVE  LogoutInv'
  OBVIOUS
<1>0. KeysOnlyAge
  BY KeysAge
<1> DEFINE Safe(p) ==
       /\ cmd[p] = "logout" =>
             /\ connectionInfo[p] \in Login
             /\ sdk[p] = connectionInfo[p].accessKey
             /\ Issued(sdk[p])
             /\ pc[p] # "prompt"
       /\ pc[p] = "unlink" => cmd[p] = "logout"
       /\ \/ /\ pc[p] = "replied" /\ cmd[p] = "logout"
             /\ reply[p] = 200 \/ Swallowed(reply[p])
          \/ /\ pc[p] = "unlink"
             /\ ~connectionInfo[p].preserveAccessKeyOnLogout
          => (sdk[p] \in SessionKey => keyState[sdk[p]] = "dead")
<1>a. \A q \in Proc : Safe(q)
  BY DEF LogoutInv
\* A process that does not move stays safe: keys only age.
<1>b. ASSUME NEW q \in Proc,
             pc'[q] = pc[q], cmd'[q] = cmd[q], sdk'[q] = sdk[q],
             connectionInfo'[q] = connectionInfo[q], reply'[q] = reply[q]
      PROVE  Safe(q)'
  <2>1. Issued(sdk[q]) => Issued(sdk[q])'
    BY <1>b, <1>0 DEF Issued, KeysOnlyAge
  <2>2. sdk[q] \in SessionKey /\ keyState[sdk[q]] = "dead"
          => keyState'[sdk[q]] = "dead"
    BY <1>0 DEF KeysOnlyAge, Key
  <2> QED BY <1>a, <1>b, <2>1, <2>2
<1>c. ASSUME NEW p \in Proc, \E how : Exit(p, how)
      PROVE  LogoutInv'
  <2>1. Safe(p)'
    BY <1>c DEF Exit, TypeOK
  <2>2. \A q \in Proc \ {p} : Safe(q)'
    BY <1>b, <1>c DEF Exit, TypeOK
  <2> QED BY <2>1, <2>2 DEF LogoutInv
<1>1. ASSUME NEW p \in Proc, Execute(p) PROVE LogoutInv'
  <2>1. CASE ExecuteRefused(p) \/ ExecuteLink(p)
    BY <1>c, <2>1 DEF ExecuteRefused, ExecuteLink
  <2>2. CASE ExecuteLogin(p) \/ ExecuteBrowserLogin(p) \/ ExecuteWhoami(p)
               \/ ExecuteApi(p)
    <3>1. PICK c, label, k, n :
            /\ c \in Command \ {"logout"} /\ label \in {"prompt", "request"}
            /\ Start(p, c, label, k, n)
      BY <2>2 DEF ExecuteLogin, ExecuteBrowserLogin, ExecuteWhoami, ExecuteApi,
                  Command
    <3>2. Safe(p)'
      BY <3>1 DEF Start, TypeOK
    <3>3. \A q \in Proc \ {p} : Safe(q)'
      BY <1>b, <3>1 DEF Start, TypeOK
    <3> QED BY <3>2, <3>3 DEF LogoutInv
  <2>3. CASE ExecuteLogout(p)
    <3> DEFINE info == deserializeConnectionInfo(configFile)
    <3>1. info \in Login /\ SavedKey = info.accessKey /\ Issued(SavedKey)
      BY <2>3, DeserializeType, SavedKeyType
      DEF ExecuteLogout, LoggedIn, AcceptedInv, StoredKeyWasAccepted, SavedKey,
          Issued, TypeOK
    <3>2. PICK label, n :
            /\ Start(p, "logout", label, SavedKey, n)
            /\ \/ label = "request"
               \/ label = "unlink" /\ info.preserveAccessKeyOnLogout
      <4>1. CASE info.preserveAccessKeyOnLogout
        BY <2>3, <4>1 DEF ExecuteLogout
      <4>2. CASE ~info.preserveAccessKeyOnLogout
        BY <2>3, <4>2 DEF ExecuteLogout
      <4> QED BY <4>1, <4>2
    <3>3. Safe(p)'
      BY <3>1, <3>2 DEF Start, TypeOK, Issued, serverVars
    <3>4. \A q \in Proc \ {p} : Safe(q)'
      BY <1>b, <3>2 DEF Start, TypeOK
    <3> QED BY <3>3, <3>4 DEF LogoutInv
  <2> QED BY <1>1, <2>1, <2>2, <2>3 DEF Execute
<1>2. ASSUME NEW p \in Proc, User(p) PROVE LogoutInv'
  <2>1. CASE IssueSessionKey(p)
    BY <1>b, <2>1 DEF IssueSessionKey, procVars, LogoutInv
  <2>2. CASE EnterToken(p)
    <3>1. Safe(p)'
      <4>1. cmd[p] # "logout"
        BY <2>2, <1>a DEF EnterToken, LogoutInv
      <4> QED BY <2>2, <4>1 DEF EnterToken, Send, TypeOK
    <3>2. \A q \in Proc \ {p} : Safe(q)'
      BY <1>b, <2>2 DEF EnterToken, Send, TypeOK
    <3> QED BY <3>1, <3>2 DEF LogoutInv
  <2>3. CASE AbortPrompt(p) \/ Kill(p)
    BY <1>c, <2>3 DEF AbortPrompt, Kill
  <2> QED BY <1>2, <2>1, <2>2, <2>3 DEF User
<1>3. ASSUME NEW p \in Proc, Serve(p) PROVE LogoutInv'
  <2>1. PICK status \in Status : Answer(p, status) /\ pc[p] = "request"
    BY <1>3 DEF Serve, ServeUnauthorized, ServeCall, ServeRemoveSession,
                RequestLost, Status
  <2>2. \A q \in Proc \ {p} : Safe(q)'
    BY <1>b, <2>1 DEF Answer, TypeOK
  <2>3. Issued(sdk[p]) => Issued(sdk[p])'
    BY <1>0, <2>1 DEF Issued, KeysOnlyAge, Answer
  <2>4. /\ pc'[p] = "replied" /\ cmd'[p] = cmd[p] /\ sdk'[p] = sdk[p]
        /\ connectionInfo'[p] = connectionInfo[p]
    BY <2>1 DEF Answer, TypeOK
  <2>5. cmd[p] = "logout" /\ reply'[p] \in {200, 401, 404} /\ sdk[p] \in SessionKey
          => keyState'[sdk[p]] = "dead"
    <3> SUFFICES ASSUME cmd[p] = "logout", reply'[p] \in {200, 401, 404},
                        sdk[p] \in SessionKey
                 PROVE  keyState'[sdk[p]] = "dead"
      OBVIOUS
    <3>1. CASE ServeUnauthorized(p)
      BY <3>1, <1>a DEF ServeUnauthorized, Issued, TypeOK, serverVars
    <3>2. CASE ServeRemoveSession(p)
      BY <3>2 DEF ServeRemoveSession, SessionsRemoved, NoValidSession, Key
    <3>3. ~ServeCall(p)
      BY DEF ServeCall
    <3>4. ~RequestLost(p)
      BY DEF RequestLost, Answer, TypeOK
    <3> QED BY <1>3, <3>1, <3>2, <3>3, <3>4 DEF Serve
  <2>6. Safe(p)'
    BY <1>a, <2>3, <2>4, <2>5 DEF Swallowed
  <2> QED BY <2>2, <2>6 DEF LogoutInv
<1>4. ASSUME NEW p \in Proc, LoginAnswered(p) \/ TruncateConfig(p) \/ WriteConfig(p)
      PROVE  LogoutInv'
  <2>1. CASE \E label \in {"truncate", "write"} : GoTo(p, label)
    <3>1. Safe(p)'
      <4>1. Issued(sdk[p]) => Issued(sdk[p])'
        BY <1>0, <2>1 DEF Issued, KeysOnlyAge, GoTo
      <4> QED BY <1>a, <2>1, <4>1 DEF GoTo, TypeOK
    <3>2. \A q \in Proc \ {p} : Safe(q)'
      BY <1>b, <2>1 DEF GoTo, TypeOK
    <3> QED BY <3>1, <3>2 DEF LogoutInv
  <2> QED BY <1>4, <1>c, <2>1 DEF LoginAnswered, TruncateConfig, WriteConfig
<1>5. ASSUME NEW p \in Proc, ApiAnswered(p) \/ WhoamiAnswered(p)
      PROVE  LogoutInv'
  <2>1. CASE Send(p, sdk[p], callsLeft[p] - 1) /\ cmd[p] = "api"
    <3>1. Safe(p)'
      BY <2>1 DEF Send, TypeOK
    <3>2. \A q \in Proc \ {p} : Safe(q)'
      BY <1>b, <2>1 DEF Send, TypeOK
    <3> QED BY <3>1, <3>2 DEF LogoutInv
  <2> QED BY <1>5, <1>c, <2>1 DEF ApiAnswered, WhoamiAnswered
<1>6. ASSUME NEW p \in Proc, LogoutAnswered(p) PROVE LogoutInv'
  <2>1. CASE GoTo(p, "unlink") /\ (reply[p] = 200 \/ Swallowed(reply[p]))
    <3>1. cmd[p] = "logout" /\ pc[p] = "replied" /\ UNCHANGED keyState
      BY <1>6 DEF LogoutAnswered, serverVars
    <3>2. Safe(p)'
      BY <1>a, <2>1, <3>1 DEF GoTo, TypeOK, Issued
    <3>3. \A q \in Proc \ {p} : Safe(q)'
      BY <1>b, <2>1 DEF GoTo, TypeOK
    <3> QED BY <3>2, <3>3 DEF LogoutInv
  <2> QED BY <1>6, <1>c, <2>1 DEF LogoutAnswered
<1>7. ASSUME NEW p \in Proc, LogoutDeletes(p) PROVE LogoutInv'
  BY <1>7, <1>c DEF LogoutDeletes
<1>8. ASSUME NEW k \in Key, KeyDies(k) \/ ServeOrphan(k) PROVE LogoutInv'
  BY <1>8, <1>b DEF KeyDies, ServeOrphan, procVars, LogoutInv
<1>9. CASE UNCHANGED vars
  BY <1>9, <1>b DEF vars, procVars, LogoutInv
<1> QED BY <1>1, <1>2, <1>3, <1>4, <1>5, <1>6, <1>7, <1>8, <1>9 DEF Next, Run

\* When the logout of a browser login deletes the file, the session's key has
\* stopped working.
THEOREM SuccessfulLogoutEndsSession == Spec => []LogoutEndsSession
<1> DEFINE I == TypeOK /\ SdkMade /\ AcceptedInv /\ LogoutInv
<1>1. Init => I
  BY InitType, InitAccepted DEF Init, LogoutInv
<1>2. I /\ [Next]_vars => I'
  BY TypePreserved, AcceptedPreserved, LogoutPreserved
<1>3. I => LogoutEndsSession
  BY DEF LogoutInv, LogoutEndsSession
<1> HIDE DEF I
<1> QED BY <1>1, <1>2, <1>3, PTL DEF Spec

-----------------------------------------------------------------------------
(* One process at a time: what the guard of execute() is meant to achieve. *)

OneAtATime == \A p, q \in Proc : p = q

\* While a login runs there is no login in the file; while another command
\* runs, the login in the file, if any, is the one the command started with.
SequentialInv ==
    \A p \in Proc :
        /\ pc[p] \in {"prompt", "truncate", "write"} => cmd[p] \in LoginCommand
        /\ cmd[p] \in LoginCommand => ~LoggedIn(configFile)
        /\ cmd[p] \in {"logout", "whoami", "api"} /\ LoggedIn(configFile)
              => connectionInfo[p] = deserializeConnectionInfo(configFile)
        /\ cmd[p] \in {"logout", "whoami", "api"} \/ cmd[p] \in LoginCommand
              \/ cmd[p] = "none"
        /\ cmd[p] = "none" => pc[p] = "exited"

LEMMA NotLoggedIn ==
    ASSUME configFile \in {NoFile, EmptyFile, GarbledFile}
    PROVE  ~LoggedIn(configFile)
BY FileAssumption DEF LoggedIn, deserializeConnectionInfo

LEMMA SequentialPreserved ==
    ASSUME OneAtATime
    PROVE  TypeOK /\ SequentialInv /\ [Next]_vars => SequentialInv'
<1> SUFFICES ASSUME TypeOK, SequentialInv, [Next]_vars PROVE SequentialInv'
  OBVIOUS
<1>n. ~LoggedIn(NoFile) /\ ~LoggedIn(EmptyFile) /\ ~LoggedIn(GarbledFile)
  BY FileAssumption DEF LoggedIn, deserializeConnectionInfo
<1>f. ASSUME UNCHANGED configFile
      PROVE  /\ LoggedIn(configFile)' = LoggedIn(configFile)
             /\ deserializeConnectionInfo(configFile)' =
                   deserializeConnectionInfo(configFile)
  BY <1>f
<1>x. ASSUME NEW p \in Proc, \E how : Exit(p, how) PROVE SequentialInv'
  BY <1>x DEF OneAtATime, Exit, SequentialInv, TypeOK, LoginCommand
<1>1. ASSUME NEW p \in Proc, Execute(p) PROVE SequentialInv'
  <2>1. CASE ExecuteRefused(p) \/ ExecuteLink(p)
    BY <1>x, <2>1 DEF ExecuteRefused, ExecuteLink
  <2>2. CASE ExecuteLogin(p) \/ ExecuteBrowserLogin(p)
    <3>1. PICK c, label, k, n :
            /\ c \in LoginCommand /\ label \in {"prompt", "request"}
            /\ Start(p, c, label, k, n) /\ ~LoggedIn(configFile)
      BY <2>2 DEF ExecuteLogin, ExecuteBrowserLogin, LoginCommand
    <3> QED BY <3>1, <1>f
            DEF OneAtATime, Start, SequentialInv, TypeOK, LoginCommand, fileVars
  <2>3. CASE ExecuteLogout(p) \/ ExecuteWhoami(p) \/ ExecuteApi(p)
    <3>1. PICK c, label, k, n :
            /\ c \in {"logout", "whoami", "api"} /\ label \in {"request", "unlink"}
            /\ Start(p, c, label, k, n)
      BY <2>3 DEF ExecuteLogout, ExecuteWhoami, ExecuteApi
    <3> QED BY <3>1, <1>f
            DEF OneAtATime, Start, SequentialInv, TypeOK, LoginCommand, fileVars
  <2> QED BY <1>1, <2>1, <2>2, <2>3 DEF Execute
<1>2. ASSUME NEW p \in Proc, User(p) PROVE SequentialInv'
  <2>1. CASE IssueSessionKey(p)
    BY <2>1, <1>f DEF IssueSessionKey, procVars, fileVars, SequentialInv
  <2>2. CASE EnterToken(p)
    BY <2>2, <1>f
    DEF EnterToken, Send, OneAtATime, SequentialInv, TypeOK, LoginCommand, fileVars
  <2>3. CASE AbortPrompt(p) \/ Kill(p)
    BY <1>x, <2>3 DEF AbortPrompt, Kill
  <2> QED BY <1>2, <2>1, <2>2, <2>3 DEF User
<1>3. ASSUME NEW p \in Proc, Serve(p) PROVE SequentialInv'
  <2>1. PICK status : Answer(p, status) /\ pc[p] = "request"
    BY <1>3 DEF Serve, ServeUnauthorized, ServeCall, ServeRemoveSession, RequestLost
  <2> QED BY <2>1, <1>f
          DEF Answer, OneAtATime, SequentialInv, TypeOK, LoginCommand, fileVars
<1>4. ASSUME NEW p \in Proc, LoginAnswered(p) PROVE SequentialInv'
  <2>1. CASE GoTo(p, "truncate") /\ cmd[p] \in LoginCommand /\ UNCHANGED configFile
    BY <2>1, <1>f DEF GoTo, OneAtATime, SequentialInv, TypeOK, LoginCommand
  <2> QED BY <1>4, <1>x, <2>1 DEF LoginAnswered, fileVars
<1>5. ASSUME NEW p \in Proc, TruncateConfig(p) PROVE SequentialInv'
  <2>1. ~LoggedIn(configFile)'
    BY <1>5, <1>n DEF TruncateConfig
  <2> QED BY <1>5, <2>1
          DEF TruncateConfig, GoTo, OneAtATime, SequentialInv, TypeOK, LoginCommand
<1>6. ASSUME NEW p \in Proc, WriteConfig(p) \/ WhoamiAnswered(p) \/ LogoutDeletes(p)
      PROVE  SequentialInv'
  BY <1>6, <1>x DEF WriteConfig, WhoamiAnswered, LogoutDeletes
<1>7. ASSUME NEW p \in Proc, ApiAnswered(p) PROVE SequentialInv'
  <2>1. CASE Send(p, sdk[p], callsLeft[p] - 1) /\ reply[p] = 200
    BY <1>7, <2>1, <1>f
    DEF ApiAnswered, HandleUnauthorized, Send, OneAtATime, SequentialInv, TypeOK,
        LoginCommand, fileVars
  <2> QED BY <1>7, <1>x, <2>1 DEF ApiAnswered
<1>8. ASSUME NEW p \in Proc, LogoutAnswered(p) PROVE SequentialInv'
  <2>1. CASE GoTo(p, "unlink")
    <3>1. UNCHANGED configFile \/ ~LoggedIn(configFile)'
      BY <1>8, <1>n DEF LogoutAnswered, HandleUnauthorized,
                        deleteConnectionInfoCache, fileVars
    <3>2. cmd[p] = "logout"
      BY <1>8 DEF LogoutAnswered
    <3> QED BY <2>1, <3>1, <3>2, <1>f
            DEF GoTo, OneAtATime, SequentialInv, TypeOK, LoginCommand
  <2> QED BY <1>8, <1>x, <2>1 DEF LogoutAnswered
<1>9. ASSUME NEW k \in Key, KeyDies(k) \/ ServeOrphan(k) PROVE SequentialInv'
  BY <1>9, <1>f DEF KeyDies, ServeOrphan, fileVars, procVars, SequentialInv
<1>10. CASE UNCHANGED vars
  BY <1>10, <1>f DEF vars, fileVars, procVars, SequentialInv
<1> QED BY <1>1, <1>2, <1>3, <1>4, <1>5, <1>6, <1>7, <1>8, <1>9, <1>10
        DEF Next, Run

\* The steps that touch the file.
LEMMA FileSteps ==
    ASSUME TypeOK, [Next]_vars, configFile' # configFile
    PROVE  \E p \in Proc :
              \/ TruncateConfig(p)
              \/ WriteConfig(p)
              \/ /\ deleteConnectionInfoCache
                 /\ pc[p] \in {"replied", "unlink"}
                 /\ ApiAnswered(p) \/ WhoamiAnswered(p) \/ LogoutAnswered(p)
                       \/ LogoutDeletes(p)
<1>1. ASSUME NEW p \in Proc, Execute(p) \/ User(p) \/ Serve(p) \/ LoginAnswered(p)
      PROVE  UNCHANGED configFile
  BY <1>1 DEF Execute, ExecuteRefused, ExecuteLogin, ExecuteBrowserLogin,
       ExecuteLink, ExecuteLogout, ExecuteWhoami, ExecuteApi, Start,
       User, IssueSessionKey, EnterToken, AbortPrompt, Kill, Serve,
       ServeUnauthorized, ServeCall, ServeRemoveSession, RequestLost, Answer,
       LoginAnswered, fileVars
<1>2. ASSUME NEW k \in Key, KeyDies(k) \/ ServeOrphan(k) PROVE UNCHANGED configFile
  BY <1>2 DEF KeyDies, ServeOrphan, fileVars
<1>3. ASSUME NEW p \in Proc,
             ApiAnswered(p) \/ WhoamiAnswered(p) \/ LogoutAnswered(p)
                \/ LogoutDeletes(p)
      PROVE  deleteConnectionInfoCache /\ pc[p] \in {"replied", "unlink"}
  BY <1>3 DEF ApiAnswered, WhoamiAnswered, LogoutAnswered, LogoutDeletes,
              HandleUnauthorized, fileVars
<1> QED BY <1>1, <1>2, <1>3 DEF Next, Run, vars, fileVars

\* With one process at a time no login is replaced by another.
THEOREM SequentialNoOverwrite ==
    ASSUME OneAtATime
    PROVE  Spec => NoLoginOverwritten
<1> DEFINE I == TypeOK /\ SdkMade /\ SequentialInv
           Kept == LoggedIn(configFile) /\ configFile' # configFile
                      => configFile' = NoFile
<1>1. Init => I
  BY InitType DEF Init, SequentialInv, LoginCommand
<1>2. I /\ [Next]_vars => I'
  BY TypePreserved, SequentialPreserved
<1>3. I /\ [Next]_vars => Kept
  <2> SUFFICES ASSUME I, [Next]_vars, LoggedIn(configFile), configFile' # configFile
               PROVE  configFile' = NoFile
    OBVIOUS
  <2>1. \A p \in Proc : ~TruncateConfig(p) /\ ~WriteConfig(p)
    BY DEF SequentialInv, TruncateConfig, WriteConfig
  <2> QED BY <2>1, FileSteps DEF deleteConnectionInfoCache
<1> HIDE DEF I
<1>5. Spec => [][Kept]_vars
  BY <1>1, <1>2, <1>3, PTL DEF Spec
<1> QED BY <1>5 DEF NoLoginOverwritten

\* With one process at a time a login is deleted only by a command that was
\* run with it.
THEOREM SequentialDeletesOwn ==
    ASSUME OneAtATime
    PROVE  Spec => DeletesOwnLogin
<1> DEFINE I == TypeOK /\ SdkMade /\ SequentialInv
           Own == LoggedIn(configFile) /\ configFile' = NoFile
                     => \E p \in Proc :
                           /\ pc[p] \in {"replied", "unlink"}
                           /\ connectionInfo[p] = deserializeConnectionInfo(configFile)
<1>1. Init => I
  BY InitType DEF Init, SequentialInv, LoginCommand
<1>2. I /\ [Next]_vars => I'
  BY TypePreserved, SequentialPreserved
<1>3. I /\ [Next]_vars => Own
  <2> SUFFICES ASSUME I, [Next]_vars, LoggedIn(configFile), configFile' = NoFile
               PROVE  \E p \in Proc :
                        /\ pc[p] \in {"replied", "unlink"}
                        /\ connectionInfo[p] = deserializeConnectionInfo(configFile)
    OBVIOUS
  <2>1. configFile' # configFile
    BY FileAssumption DEF LoggedIn, deserializeConnectionInfo
  <2>2. \A p \in Proc : ~TruncateConfig(p) /\ ~WriteConfig(p)
    BY DEF SequentialInv, TruncateConfig, WriteConfig
  <2>3. PICK p \in Proc : pc[p] \in {"replied", "unlink"}
    BY <2>1, <2>2, FileSteps
  <2>4. connectionInfo[p] = deserializeConnectionInfo(configFile)
    BY <2>3 DEF SequentialInv
  <2> QED BY <2>3, <2>4
<1> HIDE DEF I
<1>5. Spec => [][Own]_vars
  BY <1>1, <1>2, <1>3, PTL DEF Spec
<1> QED BY <1>5 DEF DeletesOwnLogin

-----------------------------------------------------------------------------
(* What a login stores, and when it may be lost.                           *)

\* A login that is about to write has the file open, as it truncated it; after
\* its success nobody else comes between.
StoredInv ==
    \A p \in Proc :
        /\ pc[p] = "write" => p \in openFor /\ configFile = EmptyFile
        /\ pc[p] = "exited" /\ outcome[p] = "loggedIn" => LoggedIn(configFile)

\* The other commands send the key of the login they read; when the server has
\* refused it, it is dead.
ReaderInv ==
    \A p \in Proc : cmd[p] \in {"whoami", "api"} =>
        /\ connectionInfo[p] \in Login
        /\ sdk[p] = connectionInfo[p].accessKey
        /\ Issued(sdk[p])
        /\ pc[p] = "replied" /\ reply[p] = 401 => keyState[sdk[p]] = "dead"

LEMMA StoredPreserved ==
    ASSUME OneAtATime
    PROVE  TypeOK /\ SdkMade /\ StoredInv /\ [Next]_vars => StoredInv'
<1> SUFFICES ASSUME TypeOK, SdkMade, StoredInv, [Next]_vars PROVE StoredInv'
  OBVIOUS
\* Steps that leave the file alone and end in no login, or stay as they are.
<1>a. ASSUME NEW p \in Proc,
             pc'[p] \notin {"write", "exited"} \/ (pc'[p] = "exited" /\ outcome'[p] # "loggedIn")
      PROVE  StoredInv'
  BY <1>a DEF OneAtATime, StoredInv
<1>b. ASSUME UNCHANGED <<pc, outcome, fileVars>> PROVE StoredInv'
  BY <1>b DEF StoredInv, fileVars, LoggedIn
<1>x. ASSUME NEW p \in Proc, NEW how, how # "loggedIn", Exit(p, how) PROVE StoredInv'
  BY <1>x, <1>a DEF Exit, TypeOK
<1>1. ASSUME NEW p \in Proc, Execute(p) PROVE StoredInv'
  <2>1. CASE ExecuteRefused(p) \/ ExecuteLink(p)
    BY <1>x, <2>1 DEF ExecuteRefused, ExecuteLink
  <2>2. CASE ExecuteLogin(p) \/ ExecuteBrowserLogin(p) \/ ExecuteLogout(p)
               \/ ExecuteWhoami(p) \/ ExecuteApi(p)
    <3>1. \E c, k, n : \E label \in {"prompt", "request", "unlink"} : Start(p, c, label, k, n)
      BY <2>2 DEF ExecuteLogin, ExecuteBrowserLogin, ExecuteLogout, ExecuteWhoami, ExecuteApi
    <3>2. pc'[p] \in {"prompt", "request", "unlink"}
      BY <3>1 DEF Start, TypeOK
    <3> QED BY <3>2, <1>a
  <2> QED BY <1>1, <2>1, <2>2 DEF Execute
<1>2. ASSUME NEW p \in Proc, User(p) PROVE StoredInv'
  <2>1. CASE IssueSessionKey(p)
    BY <2>1, <1>b DEF IssueSessionKey, procVars
  <2>2. CASE EnterToken(p)
    BY <2>2, <1>a DEF EnterToken, Send, TypeOK
  <2>3. CASE AbortPrompt(p) \/ Kill(p)
    BY <2>3, <1>x DEF AbortPrompt, Kill
  <2> QED BY <1>2, <2>1, <2>2, <2>3 DEF User
<1>3. ASSUME NEW p \in Proc, Serve(p) PROVE StoredInv'
  <2>1. PICK status : Answer(p, status)
    BY <1>3 DEF Serve, ServeUnauthorized, ServeCall, ServeRemoveSession, RequestLost
  <2> QED BY <2>1, <1>a DEF Answer, TypeOK
<1>4. ASSUME NEW p \in Proc, LoginAnswered(p) \/ LogoutAnswered(p) PROVE StoredInv'
  <2>1. (\E label \in {"truncate", "unlink"} : GoTo(p, label)) \/ Exit(p, "failed")
    BY <1>4 DEF LoginAnswered, LogoutAnswered
  <2>2. CASE \E label \in {"truncate", "unlink"} : GoTo(p, label)
    BY <2>2, <1>a DEF GoTo, TypeOK
  <2> QED BY <2>1, <2>2, <1>x
<1>5. ASSUME NEW p \in Proc, TruncateConfig(p) PROVE StoredInv'
  BY <1>5 DEF TruncateConfig, GoTo, OneAtATime, StoredInv, TypeOK
<1>6. ASSUME NEW p \in Proc, WriteConfig(p) PROVE StoredInv'
  <2>1. pc[p] = "write" /\ p \in openFor /\ configFile = EmptyFile
    BY <1>6 DEF WriteConfig, StoredInv
  <2>2. configFile' = LoginOf(p)
    BY <1>6, <2>1 DEF WriteConfig
  <2>3. LoginOf(p) \in Login
    BY <2>1 DEF SdkMade, LoginOf, Login
  <2>4. LoggedIn(configFile)'
    BY <2>2, <2>3, FileAssumption DEF LoggedIn, deserializeConnectionInfo
  <2> QED BY <1>6, <2>4 DEF WriteConfig, Exit, OneAtATime, StoredInv, TypeOK
<1>7. ASSUME NEW p \in Proc, ApiAnswered(p) \/ WhoamiAnswered(p) PROVE StoredInv'
  <2>1. Send(p, sdk[p], callsLeft[p] - 1) \/ \E how \in {"failed", "ok"} : Exit(p, how)
    BY <1>7 DEF ApiAnswered, WhoamiAnswered
  <2>2. CASE Send(p, sdk[p], callsLeft[p] - 1)
    BY <2>2, <1>a DEF Send, TypeOK
  <2> QED BY <2>1, <2>2, <1>x
<1>8. ASSUME NEW p \in Proc, LogoutDeletes(p) PROVE StoredInv'
  BY <1>8, <1>x DEF LogoutDeletes
<1>9. ASSUME NEW k \in Key, KeyDies(k) \/ ServeOrphan(k) PROVE StoredInv'
  BY <1>9, <1>b DEF KeyDies, ServeOrphan, procVars
<1>10. CASE UNCHANGED vars
  BY <1>10, <1>b DEF vars, procVars
<1> QED BY <1>1, <1>2, <1>3, <1>4, <1>5, <1>6, <1>7, <1>8, <1>9, <1>10
        DEF Next, Run

LEMMA ReaderPreserved ==
    ASSUME OneAtATime
    PROVE  TypeOK /\ AcceptedInv /\ SequentialInv /\ ReaderInv /\ [Next]_vars => ReaderInv'
<1> SUFFICES ASSUME TypeOK, AcceptedInv, SequentialInv, ReaderInv, [Next]_vars
             PROVE  ReaderInv'
  OBVIOUS
<1>0. KeysOnlyAge
  BY KeysAge
<1>k. ASSUME NEW k, Issued(k) PROVE Issued(k)'
  BY <1>k, <1>0 DEF Issued, KeysOnlyAge
\* Steps after which the process no longer is such a command, and steps that
\* leave its part as it is.
<1>a. ASSUME NEW p \in Proc, cmd'[p] \notin {"whoami", "api"} PROVE ReaderInv'
  BY <1>a DEF OneAtATime, ReaderInv
<1>b. ASSUME NEW p \in Proc, UNCHANGED <<cmd, connectionInfo, sdk>>,
             \/ pc'[p] # "replied"
             \/ UNCHANGED <<pc, reply>>
      PROVE  ReaderInv'
  <2> SUFFICES ASSUME cmd[p] \in {"whoami", "api"}
               PROVE  /\ connectionInfo[p] \in Login
                      /\ sdk[p] = connectionInfo[p].accessKey
                      /\ Issued(sdk[p])'
                      /\ pc'[p] = "replied" /\ reply'[p] = 401 => keyState'[sdk[p]] = "dead"
    BY <1>b DEF OneAtATime, ReaderInv, Issued
  <2>1. Issued(sdk[p]) /\ connectionInfo[p] \in Login /\ sdk[p] = connectionInfo[p].accessKey
    BY DEF ReaderInv
  <2>2. Issued(sdk[p])'
    BY <2>1, <1>b, <1>0 DEF Issued, KeysOnlyAge
  <2>3. pc'[p] = "replied" /\ reply'[p] = 401 => keyState'[sdk[p]] = "dead"
    BY <1>b, <2>1, <1>0 DEF ReaderInv, KeysOnlyAge, Issued
  <2> QED BY <2>1, <2>2, <2>3
<1>x. ASSUME NEW p \in Proc, NEW how, Exit(p, how) PROVE ReaderInv'
  BY <1>x, <1>a DEF Exit, TypeOK
<1>1. ASSUME NEW p \in Proc, Execute(p) PROVE ReaderInv'
  <2>1. CASE ExecuteRefused(p) \/ ExecuteLink(p)
    BY <1>x, <2>1 DEF ExecuteRefused, ExecuteLink
  <2>2. CASE ExecuteLogin(p) \/ ExecuteBrowserLogin(p) \/ ExecuteLogout(p)
    BY <2>2, <1>a DEF ExecuteLogin, ExecuteBrowserLogin, ExecuteLogout, Start, TypeOK
  <2>3. CASE ExecuteWhoami(p) \/ ExecuteApi(p)
    <3>1. LoggedIn(configFile) /\ \E c, n : Start(p, c, "request", SavedKey, n)
      BY <2>3 DEF ExecuteWhoami, ExecuteApi
    <3>2. /\ pc'[p] = "request" /\ sdk'[p] = SavedKey
          /\ connectionInfo'[p] = deserializeConnectionInfo(configFile)
          /\ keyState' = keyState
      BY <3>1 DEF Start, TypeOK, serverVars
    <3>3. deserializeConnectionInfo(configFile) \in Login
      BY <3>1, DeserializeType DEF LoggedIn, TypeOK
    <3>4. SavedKey \in Key /\ keyState[SavedKey] # "unissued"
      BY <3>1, SavedKeyType DEF AcceptedInv, StoredKeyWasAccepted, SavedKey
    <3> QED BY <3>2, <3>3, <3>4 DEF OneAtATime, ReaderInv, Issued, SavedKey
  <2> QED BY <1>1, <2>1, <2>2, <2>3 DEF Execute
<1>2. ASSUME NEW p \in Proc, User(p) PROVE ReaderInv'
  <2>1. CASE IssueSessionKey(p)
    BY <2>1, <1>b DEF IssueSessionKey, procVars
  <2>2. CASE EnterToken(p)
    <3>1. PICK k \in Typed : Send(p, k, 1)
      BY <2>2 DEF EnterToken
    <3>2. cmd' = cmd /\ pc[p] = "prompt"
      BY <2>2, <3>1 DEF EnterToken, Send
    <3> QED BY <3>2, <1>a DEF SequentialInv, LoginCommand
  <2>3. CASE AbortPrompt(p) \/ Kill(p)
    BY <2>3, <1>x DEF AbortPrompt, Kill
  <2> QED BY <1>2, <2>1, <2>2, <2>3 DEF User
<1>3. ASSUME NEW p \in Proc, Serve(p) PROVE ReaderInv'
  <2>1. PICK status : Answer(p, status) /\ (status = 401 => keyState[sdk[p]] # "valid")
    BY <1>3 DEF Serve, ServeUnauthorized, ServeCall, ServeRemoveSession, RequestLost
  <2>2. /\ UNCHANGED <<cmd, connectionInfo, sdk>>
        /\ reply'[p] = status
    BY <2>1 DEF Answer, TypeOK
  <2>3. ASSUME cmd[p] \in {"whoami", "api"}
        PROVE  /\ connectionInfo[p] \in Login /\ sdk[p] = connectionInfo[p].accessKey
               /\ Issued(sdk[p])'
               /\ status = 401 => keyState'[sdk[p]] = "dead"
    <3>1. /\ Issued(sdk[p]) /\ connectionInfo[p] \in Login
          /\ sdk[p] = connectionInfo[p].accessKey
      BY <2>3 DEF ReaderInv
    <3>2. keyState[sdk[p]] # "valid" => keyState[sdk[p]] = "dead"
      BY <3>1 DEF Issued, TypeOK
    <3> QED BY <2>1, <2>2, <3>1, <3>2, <1>0 DEF Issued, KeysOnlyAge
  <2> QED BY <2>2, <2>3 DEF OneAtATime, ReaderInv, Issued
<1>4. ASSUME NEW p \in Proc, LoginAnswered(p) \/ LogoutAnswered(p) \/ TruncateConfig(p)
      PROVE  ReaderInv'
  <2>1. CASE \E label \in {"truncate", "unlink", "write"} : GoTo(p, label)
    BY <2>1, <1>b DEF GoTo, TypeOK
  <2> QED BY <1>4, <2>1, <1>x DEF LoginAnswered, LogoutAnswered, TruncateConfig
<1>5. ASSUME NEW p \in Proc, WriteConfig(p) \/ WhoamiAnswered(p) \/ LogoutDeletes(p)
      PROVE  ReaderInv'
  BY <1>5, <1>x DEF WriteConfig, WhoamiAnswered, LogoutDeletes
<1>6. ASSUME NEW p \in Proc, ApiAnswered(p) PROVE ReaderInv'
  <2>1. CASE Send(p, sdk[p], callsLeft[p] - 1)
    <3>1. sdk' = sdk /\ pc'[p] = "request" /\ UNCHANGED <<cmd, connectionInfo>>
      BY <2>1 DEF Send, TypeOK
    <3> QED BY <3>1, <1>b
  <2> QED BY <1>6, <2>1, <1>x DEF ApiAnswered
<1>7. ASSUME NEW k \in Key, KeyDies(k) \/ ServeOrphan(k) PROVE ReaderInv'
  BY <1>7, <1>b DEF KeyDies, ServeOrphan, procVars, ReaderInv
<1>8. CASE UNCHANGED vars
  BY <1>8, <1>b DEF vars, procVars, ReaderInv
<1> QED BY <1>1, <1>2, <1>3, <1>4, <1>5, <1>6, <1>7, <1>8 DEF Next, Run

\* With one process at a time a login that reported success is in the file.
THEOREM SequentialLoginIsStored ==
    ASSUME OneAtATime
    PROVE  Spec => []SuccessfulLoginIsStored
<1> DEFINE I == TypeOK /\ SdkMade /\ StoredInv
<1>1. Init => I
  BY InitType DEF Init, StoredInv
<1>2. I /\ [Next]_vars => I'
  BY TypePreserved, StoredPreserved
<1>3. I => SuccessfulLoginIsStored
  BY DEF StoredInv, SuccessfulLoginIsStored
<1> HIDE DEF I
<1> QED BY <1>1, <1>2, <1>3, PTL DEF Spec

\* With one process at a time the login of a session that lives is not lost:
\* a logout that fails or is killed keeps it, and so does every other command.
THEOREM SequentialKeepsLiveLogin ==
    ASSUME OneAtATime
    PROVE  Spec => LiveSessionKeepsLogin
<1> DEFINE I == /\ TypeOK /\ SdkMade /\ AcceptedInv /\ LogoutInv
                /\ SequentialInv /\ ReaderInv
           info == deserializeConnectionInfo(configFile)
           Kept == /\ LoggedIn(configFile) /\ ~LoggedIn(configFile')
                   /\ info.accessKey \in SessionKey
                   /\ ~info.preserveAccessKeyOnLogout
                   => keyState[info.accessKey] = "dead"
<1>1. Init => I
  BY InitType, InitAccepted DEF Init, LogoutInv, SequentialInv, ReaderInv, LoginCommand
<1>2. I /\ [Next]_vars => I'
  BY TypePreserved, AcceptedPreserved, LogoutPreserved, SequentialPreserved,
     ReaderPreserved
<1>3. I /\ [Next]_vars => Kept
  <2> SUFFICES ASSUME I, [Next]_vars, LoggedIn(configFile), ~LoggedIn(configFile'),
                      info.accessKey \in SessionKey, ~info.preserveAccessKeyOnLogout
               PROVE  keyState[info.accessKey] = "dead"
    OBVIOUS
  <2>1. configFile' # configFile
    OBVIOUS
  <2>2. \A p \in Proc : ~TruncateConfig(p) /\ ~WriteConfig(p)
    BY DEF SequentialInv, TruncateConfig, WriteConfig
  <2>3. PICK p \in Proc : \/ ApiAnswered(p) \/ WhoamiAnswered(p)
                          \/ LogoutAnswered(p) \/ LogoutDeletes(p)
    BY <2>1, <2>2, FileSteps
  <2>4. CASE ApiAnswered(p) \/ WhoamiAnswered(p)
    <3>1. cmd[p] \in {"api", "whoami"} /\ pc[p] = "replied" /\ reply[p] = 401
      BY <2>1, <2>4 DEF ApiAnswered, WhoamiAnswered, HandleUnauthorized, fileVars
    <3>2. keyState[sdk[p]] = "dead" /\ sdk[p] = connectionInfo[p].accessKey
      BY <3>1 DEF ReaderInv
    <3> QED BY <3>1, <3>2 DEF SequentialInv
  <2>5. CASE LogoutAnswered(p)
    <3>1. cmd[p] = "logout" /\ pc[p] = "replied" /\ reply[p] = 401
      BY <2>1, <2>5 DEF LogoutAnswered, HandleUnauthorized, fileVars
    <3>2. connectionInfo[p] = info
      BY <3>1 DEF SequentialInv
    <3> QED BY <3>1, <3>2 DEF LogoutInv, Swallowed
  <2>6. CASE LogoutDeletes(p)
    <3>1. pc[p] = "unlink" /\ cmd[p] = "logout"
      BY <2>6 DEF LogoutDeletes, LogoutInv
    <3>2. connectionInfo[p] = info
      BY <3>1 DEF SequentialInv
    <3> QED BY <3>1, <3>2 DEF LogoutInv
  <2> QED BY <2>3, <2>4, <2>5, <2>6
<1> HIDE DEF I
<1>5. Spec => [][Kept]_vars
  BY <1>1, <1>2, <1>3, PTL DEF Spec
<1> QED BY <1>5 DEF LiveSessionKeepsLogin

-----------------------------------------------------------------------------
(* One process at a time implements SavedLogin.                            *)

\* A command that has not ended has not reported its end.
RunningInv == \A p \in Proc : pc[p] # "exited" => outcome[p] = "running"

LEMMA RunningPreserved == TypeOK /\ RunningInv /\ [Next]_vars => RunningInv'
<1> SUFFICES ASSUME TypeOK, RunningInv, [Next]_vars PROVE RunningInv'
  OBVIOUS
<1>x. ASSUME NEW p \in Proc, NEW how, Exit(p, how) PROVE RunningInv'
  BY <1>x DEF Exit, TypeOK, RunningInv
\* A process that was running goes on.
<1>g. ASSUME NEW p \in Proc, pc[p] # "exited", UNCHANGED outcome,
             \A q \in Proc \ {p} : pc'[q] = pc[q]
      PROVE  RunningInv'
  BY <1>g DEF RunningInv
<1>1. ASSUME NEW p \in Proc, Execute(p) PROVE RunningInv'
  <2>1. CASE ExecuteRefused(p) \/ ExecuteLink(p)
    BY <1>x, <2>1 DEF ExecuteRefused, ExecuteLink
  <2>2. CASE \E c, label, k, n : Start(p, c, label, k, n)
    BY <2>2 DEF Start, TypeOK, RunningInv
  <2>3. ExecuteLogin(p) \/ ExecuteBrowserLogin(p) \/ ExecuteLogout(p)
          \/ ExecuteWhoami(p) \/ ExecuteApi(p)
            => \E c, label, k, n : Start(p, c, label, k, n)
    BY DEF ExecuteLogin, ExecuteBrowserLogin, ExecuteLogout, ExecuteWhoami, ExecuteApi
  <2> QED BY <1>1, <2>1, <2>2, <2>3 DEF Execute
<1>2. ASSUME NEW p \in Proc, EnterToken(p) PROVE RunningInv'
  BY <1>2, <1>g DEF EnterToken, Send, TypeOK
<1>3. ASSUME NEW p \in Proc, AbortPrompt(p) \/ Kill(p) \/ WriteConfig(p)
                                \/ WhoamiAnswered(p) \/ LogoutDeletes(p)
      PROVE  RunningInv'
  BY <1>3, <1>x DEF AbortPrompt, Kill, WriteConfig, WhoamiAnswered, LogoutDeletes
<1>4. ASSUME NEW p \in Proc, Serve(p) PROVE RunningInv'
  <2>1. pc[p] = "request" /\ \E status : Answer(p, status)
    BY <1>4 DEF Serve, ServeUnauthorized, ServeCall, ServeRemoveSession, RequestLost
  <2> QED BY <2>1, <1>g DEF Answer, TypeOK
<1>5. ASSUME NEW p \in Proc, LoginAnswered(p) \/ TruncateConfig(p) \/ LogoutAnswered(p)
      PROVE  RunningInv'
  <2>1. CASE pc[p] # "exited" /\ \E label : GoTo(p, label)
    BY <2>1, <1>g DEF GoTo, TypeOK
  <2> QED BY <1>5, <2>1, <1>x DEF LoginAnswered, TruncateConfig, LogoutAnswered
<1>6. ASSUME NEW p \in Proc, ApiAnswered(p) PROVE RunningInv'
  <2>1. CASE pc[p] # "exited" /\ Send(p, sdk[p], callsLeft[p] - 1)
    BY <2>1, <1>g DEF Send, TypeOK
  <2> QED BY <1>6, <2>1, <1>x DEF ApiAnswered
<1>7. CASE UNCHANGED procVars
  BY <1>7 DEF procVars, RunningInv
<1>8. ASSUME NEW k \in Key, KeyDies(k) \/ ServeOrphan(k) PROVE UNCHANGED procVars
  BY <1>8 DEF KeyDies, ServeOrphan
<1>9. ASSUME NEW p \in Proc, IssueSessionKey(p) PROVE UNCHANGED procVars
  BY <1>9 DEF IssueSessionKey
<1> QED BY <1>1, <1>2, <1>3, <1>4, <1>5, <1>6, <1>7, <1>8, <1>9
        DEF Next, User, Run, vars

\* The mapping of CliSession to SavedLogin.
Saved == deserializeConnectionInfo(configFile)
Known == {l \in Login : keyState[l.accessKey] # "unissued"}
Free  == {l \in Login : \/ l.preserveAccessKeyOnLogout
                        \/ l.accessKey \notin SessionKey
                        \/ keyState[l.accessKey] = "dead"}

LEMMA SavedInit == Init => Session!Init
<1> SUFFICES ASSUME Init PROVE Session!Init
  OBVIOUS
<1>1. Saved \in Known \cup {NoLogin}
  <2>1. Saved \in Login \cup {NoLogin}
    BY InitType, DeserializeType DEF TypeOK, Saved
  <2>2. Saved # NoLogin => keyState[Saved.accessKey] # "unissued"
    BY InitAccepted DEF AcceptedInv, StoredKeyWasAccepted, LoggedIn, Saved
  <2> QED BY <2>1, <2>2 DEF Known
<1> QED BY <1>1 DEF Init, Session!Init, Saved, Known

\* Time only makes more logins known and more of them free.
LEMMA SavedGrow ==
    ASSUME TypeOK, [Next]_vars
    PROVE  Known \subseteq Known' /\ Free \subseteq Free'
<1>1. KeysOnlyAge
  BY KeysAge
<1> QED BY <1>1 DEF KeysOnlyAge, Known, Free, Login

LEMMA SavedNext ==
    ASSUME OneAtATime
    PROVE  /\ TypeOK /\ SdkMade /\ AcceptedInv /\ LogoutInv /\ SequentialInv
           /\ StoredInv /\ ReaderInv /\ RunningInv /\ [Next]_vars
           => [Session!Next]_(Session!vars)
<1> SUFFICES ASSUME TypeOK, SdkMade, AcceptedInv, LogoutInv, SequentialInv,
                    StoredInv, ReaderInv, RunningInv, [Next]_vars
             PROVE  Session!Next \/ UNCHANGED <<Saved, outcome, Known, Free>>
  BY DEF Session!vars, Saved, Known, Free
\* The server and the user's browser act: the file and the reports stay.
<1>s. ASSUME UNCHANGED <<configFile, outcome>> PROVE Session!Next
  <2>1. Known \subseteq Known' /\ Free \subseteq Free'
    BY SavedGrow
  <2>2. Known' \in SUBSET Login /\ Free' \in SUBSET Login
    BY DEF Known, Free
  <2>3. Saved' = Saved
    BY <1>s DEF Saved
  <2> QED BY <1>s, <2>1, <2>2, <2>3 DEF Session!Next, Session!Learn, Saved, Known, Free
<1>u. ASSUME UNCHANGED keyState PROVE UNCHANGED <<Known, Free>>
  BY <1>u DEF Known, Free
\* A process begins, goes on or ends, and the file yields what it did.
<1>k. ASSUME NEW p \in Proc, UNCHANGED keyState, Saved' = Saved,
             NEW how \in {"running", "ok", "failed", "killed"},
             outcome' = [outcome EXCEPT ![p] = how]
      PROVE  Session!Next
  <2>1. Session!Keep(p)
    BY <1>k, <1>u DEF Session!Keep, Session!GoesOn, Session!Report, Saved, Known, Free
  <2> QED BY <2>1 DEF Session!Next
\* The file is deleted by a command that may do so.
<1>d. ASSUME NEW p \in Proc, UNCHANGED keyState, pc[p] # "exited",
             configFile' = NoFile, LoggedIn(configFile) => Saved \in Free,
             NEW how \in {"running", "ok", "failed"},
             outcome' = [outcome EXCEPT ![p] = how]
      PROVE  Session!Next
  <2>1. Saved' = NoLogin
    BY <1>d, FileAssumption DEF Saved, deserializeConnectionInfo
  <2>2. CASE Saved = NoLogin
    BY <1>d, <1>k, <2>1, <2>2
  <2>3. CASE Saved # NoLogin
    <3>1. Session!GiveUp(p)
      BY <1>d, <1>u, <2>1, <2>3
      DEF RunningInv, LoggedIn, Session!GiveUp, Session!GoesOn, Saved, Known, Free
    <3> QED BY <3>1 DEF Session!Next
  <2> QED BY <2>2, <2>3
<1>f. ASSUME UNCHANGED configFile PROVE Saved' = Saved
  BY <1>f DEF Saved
<1>1. ASSUME NEW p \in Proc, Execute(p) PROVE Session!Next
  <2>1. CASE ExecuteRefused(p) \/ ExecuteLink(p)
    BY <2>1, <1>k, <1>f DEF ExecuteRefused, ExecuteLink, Exit, fileVars, serverVars
  <2>2. CASE \E c, label, k, n : Start(p, c, label, k, n)
    BY <2>2, <1>k, <1>f DEF Start, fileVars, serverVars
  <2>3. ExecuteLogin(p) \/ ExecuteBrowserLogin(p) \/ ExecuteLogout(p)
          \/ ExecuteWhoami(p) \/ ExecuteApi(p)
            => \E c, label, k, n : Start(p, c, label, k, n)
    BY DEF ExecuteLogin, ExecuteBrowserLogin, ExecuteLogout, ExecuteWhoami, ExecuteApi
  <2> QED BY <1>1, <2>1, <2>2, <2>3 DEF Execute
<1>2. ASSUME NEW p \in Proc, User(p) PROVE Session!Next
  <2>1. CASE IssueSessionKey(p) \/ EnterToken(p)
    BY <2>1, <1>s DEF IssueSessionKey, EnterToken, Send, fileVars, procVars
  <2>2. CASE AbortPrompt(p) \/ Kill(p)
    BY <2>2, <1>k, <1>f DEF AbortPrompt, Kill, Exit, fileVars, serverVars
  <2> QED BY <1>2, <2>1, <2>2 DEF User
<1>3. ASSUME NEW p \in Proc, Serve(p) PROVE Session!Next
  <2>1. \E status : Answer(p, status)
    BY <1>3 DEF Serve, ServeUnauthorized, ServeCall, ServeRemoveSession, RequestLost
  <2> QED BY <2>1, <1>s DEF Answer, fileVars
<1>4. ASSUME NEW p \in Proc, LoginAnswered(p) PROVE Session!Next
  <2>1. CASE GoTo(p, "truncate") /\ UNCHANGED configFile
    BY <2>1, <1>s DEF GoTo
  <2>2. CASE Exit(p, "failed") /\ UNCHANGED <<configFile, keyState>>
    BY <2>2, <1>k, <1>f DEF Exit
  <2> QED BY <1>4, <2>1, <2>2 DEF LoginAnswered, fileVars, serverVars
<1>5. ASSUME NEW p \in Proc, TruncateConfig(p)
      PROVE  UNCHANGED <<Saved, outcome, Known, Free>>
  <2>1. Saved = NoLogin
    BY <1>5 DEF TruncateConfig, SequentialInv, LoggedIn, Saved
  <2>2. Saved' = NoLogin
    BY <1>5, FileAssumption DEF TruncateConfig, Saved, deserializeConnectionInfo
  <2> QED BY <1>5, <2>1, <2>2, <1>u DEF TruncateConfig, GoTo, serverVars
\* The login of which the server knows the key is written to an empty file.
<1>6. ASSUME NEW p \in Proc, WriteConfig(p) PROVE Session!Next
  <2>1. pc[p] = "write" /\ p \in openFor /\ configFile = EmptyFile
    BY <1>6 DEF WriteConfig, StoredInv
  <2>2. configFile' = LoginOf(p) /\ UNCHANGED keyState
    BY <1>6, <2>1 DEF WriteConfig, serverVars
  <2>3. Saved = NoLogin
    BY <2>1, FileAssumption DEF Saved, deserializeConnectionInfo
  <2>4. Saved' \in Known
    <3>1. LoginOf(p) \in Login /\ LoginOf(p).accessKey = sdk[p]
      BY <2>1 DEF SdkMade, LoginOf, Login
    <3>2. Issued(sdk[p])
      BY <2>1 DEF AcceptedInv
    <3>3. Saved' = LoginOf(p)
      BY <2>2, <3>1 DEF Saved, deserializeConnectionInfo
    <3> QED BY <3>1, <3>2, <3>3 DEF Known, Issued
  <2>5. outcome[p] = "running" /\ outcome' = [outcome EXCEPT ![p] = "loggedIn"]
    BY <1>6, <2>1 DEF RunningInv, WriteConfig, Exit
  <2>6. Session!Save(p)
    BY <2>2, <2>3, <2>4, <2>5, <1>u
    DEF Session!Save, Session!GoesOn, Saved, Known, Free
  <2> QED BY <2>6 DEF Session!Next
<1>7. ASSUME NEW p \in Proc, ApiAnswered(p) \/ WhoamiAnswered(p) PROVE Session!Next
  <2>1. /\ pc[p] = "replied" /\ cmd[p] \in {"api", "whoami"} /\ UNCHANGED keyState
        /\ HandleUnauthorized(p)
        /\ \/ Send(p, sdk[p], callsLeft[p] - 1) /\ reply[p] = 200
           \/ \E how \in {"ok", "failed"} : Exit(p, how)
    BY <1>7 DEF ApiAnswered, WhoamiAnswered, serverVars
  <2>2. CASE reply[p] = 401
    <3>1. configFile' = NoFile
      BY <2>1, <2>2 DEF HandleUnauthorized, deleteConnectionInfoCache
    <3>2. LoggedIn(configFile) => Saved \in Free
      <4> SUFFICES ASSUME LoggedIn(configFile) PROVE Saved \in Free
        OBVIOUS
      <4>1. connectionInfo[p] = Saved
        BY <2>1 DEF SequentialInv, Saved
      <4>2. Saved \in Login /\ keyState[Saved.accessKey] = "dead"
        BY <2>1, <2>2, <4>1 DEF ReaderInv
      <4> QED BY <4>2 DEF Free
    <3> QED BY <2>1, <2>2, <3>1, <3>2, <1>d DEF Exit
  <2>3. CASE reply[p] # 401
    <3>1. UNCHANGED configFile
      BY <2>1, <2>3 DEF HandleUnauthorized, fileVars
    <3>2. CASE Send(p, sdk[p], callsLeft[p] - 1)
      BY <3>1, <3>2, <1>s DEF Send
    <3>3. CASE \E how \in {"ok", "failed"} : Exit(p, how)
      BY <2>1, <3>1, <3>3, <1>f, <1>k DEF Exit
    <3> QED BY <2>1, <3>2, <3>3
  <2> QED BY <2>2, <2>3
\* A logout that goes on deletes no login whose session lives.
<1>l. ASSUME NEW p \in Proc, cmd[p] = "logout", LoggedIn(configFile),
             \/ pc[p] = "replied" /\ (reply[p] = 200 \/ Swallowed(reply[p]))
             \/ pc[p] = "unlink"
      PROVE  Saved \in Free
  <2>1. connectionInfo[p] = Saved
    BY <1>l DEF SequentialInv, Saved
  <2>2. Saved \in Login /\ sdk[p] = Saved.accessKey
    BY <1>l, <2>1 DEF LogoutInv
  <2>3. \/ Saved.preserveAccessKeyOnLogout
        \/ Saved.accessKey \in SessionKey => keyState[Saved.accessKey] = "dead"
    BY <1>l, <2>1, <2>2 DEF LogoutInv
  <2> QED BY <2>2, <2>3 DEF Free
<1>8. ASSUME NEW p \in Proc, LogoutAnswered(p) PROVE Session!Next
  <2>1. /\ pc[p] = "replied" /\ cmd[p] = "logout" /\ UNCHANGED keyState
        /\ HandleUnauthorized(p)
        /\ \/ GoTo(p, "unlink")
           \/ Exit(p, "failed") /\ ~Swallowed(reply[p])
    BY <1>8 DEF LogoutAnswered, serverVars
  <2>2. CASE reply[p] = 401
    <3>1. Swallowed(reply[p]) /\ configFile' = NoFile
      BY <2>1, <2>2 DEF Swallowed, HandleUnauthorized, deleteConnectionInfoCache
    <3>2. LoggedIn(configFile) => Saved \in Free
      BY <2>1, <3>1, <1>l
    <3>3. outcome' = [outcome EXCEPT ![p] = "running"]
      BY <2>1, <3>1 DEF GoTo, RunningInv, TypeOK
    <3> QED BY <2>1, <3>1, <3>2, <3>3, <1>d
  <2>3. CASE reply[p] # 401
    <3>1. UNCHANGED configFile
      BY <2>1, <2>3 DEF HandleUnauthorized, fileVars
    <3>2. CASE GoTo(p, "unlink")
      BY <3>1, <3>2, <1>s DEF GoTo
    <3>3. CASE Exit(p, "failed")
      BY <2>1, <3>1, <3>3, <1>f, <1>k DEF Exit
    <3> QED BY <2>1, <3>2, <3>3
  <2> QED BY <2>2, <2>3
<1>9. ASSUME NEW p \in Proc, LogoutDeletes(p) PROVE Session!Next
  <2>1. /\ pc[p] = "unlink" /\ cmd[p] = "logout" /\ UNCHANGED keyState
        /\ configFile' = NoFile /\ outcome' = [outcome EXCEPT ![p] = "ok"]
    BY <1>9 DEF LogoutDeletes, LogoutInv, deleteConnectionInfoCache, Exit, serverVars
  <2> QED BY <2>1, <1>l, <1>d
<1>10. ASSUME NEW k \in Key, KeyDies(k) \/ ServeOrphan(k) PROVE Session!Next
  BY <1>10, <1>s DEF KeyDies, ServeOrphan, fileVars, procVars
<1>11. CASE UNCHANGED vars
  BY <1>11, <1>s DEF vars, fileVars, procVars
<1> QED BY <1>1, <1>2, <1>3, <1>4, <1>5, <1>6, <1>7, <1>8, <1>9, <1>10, <1>11
        DEF Next, Run

\* With one process at a time every step is one of SavedLogin, or none: a login
\* is saved and given up at one moment, by the command that reports it.
THEOREM SequentialActsAtOnce ==
    ASSUME OneAtATime
    PROVE  Spec => ActsAtOnce
<1> DEFINE I == /\ TypeOK /\ SdkMade /\ AcceptedInv /\ LogoutInv /\ SequentialInv
                /\ StoredInv /\ ReaderInv /\ RunningInv
<1>1. Init => I
  BY InitType, InitAccepted
  DEF Init, LogoutInv, SequentialInv, StoredInv, ReaderInv, RunningInv, LoginCommand
<1>2. I /\ [Next]_vars => I'
  BY TypePreserved, AcceptedPreserved, LogoutPreserved, SequentialPreserved,
     StoredPreserved, ReaderPreserved, RunningPreserved
<1>3. I /\ [Next]_vars => [Session!Next]_(Session!vars)
  BY SavedNext
<1>4. Init => Session!Init
  BY SavedInit
<1> HIDE DEF I
<1>5. Spec => Session!Init /\ [][Session!Next]_(Session!vars)
  BY <1>1, <1>2, <1>3, <1>4, PTL DEF Spec
<1> QED BY <1>5 DEF ActsAtOnce, Session!Spec
=============================================================================
