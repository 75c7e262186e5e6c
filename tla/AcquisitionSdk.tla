--------------------------- MODULE AcquisitionSdk ---------------------------
(***************************************************************************)
(* The acquisition SDK of an app: AcquisitionManager asks the server for   *)
(* an update and reports what was downloaded and deployed.  The app        *)
(* provides the requester, which answers requests late, in any order, or   *)
(* with whatever the server sent.                                          *)
(*                                                                         *)
(* Arguments are positional, as in JavaScript: a list that may be shorter  *)
(* than the parameters, in which a callback may stand in any place.        *)
(***************************************************************************)
EXTENDS Naturals, Sequences

CONSTANTS
    Call,       \* calls the app makes
    CallArgs,   \* what it calls: a method and its arguments
    Package,    \* packages with an appVersion
    BadPackage, \* a package without one
    Text,       \* labels, keys, and texts that are no status
    Callback,   \* a function
    Nothing,    \* null or undefined
    NoCall, NoReport

Succeeded == "DeploymentSucceeded"
Failed    == "DeploymentFailed"
Argument  == Package \cup Text \cup {BadPackage, Callback, Nothing, Succeeded, Failed}
Method    == {"queryUpdateWithCurrentPackage", "reportStatusDeploy", "reportStatusDownload"}

ASSUME ArgumentAssumption ==
    /\ Nothing \notin {Callback, BadPackage, Succeeded, Failed} \cup Package
    /\ Callback \notin {Succeeded, Failed} \cup Package

\* No call has more arguments than parameters, a callback comes last, and only
\* reportStatusDeploy is called with one in place of a package.
ASSUME CallAssumption ==
    /\ CallArgs \subseteq [method : Method, args : Seq(Argument)]
    /\ NoCall \notin CallArgs
    /\ \A a \in CallArgs :
          /\ Len(a.args) <= 5
          /\ \A i \in 1..Len(a.args) : a.args[i] = Callback => i = Len(a.args)
          /\ a.method # "reportStatusDeploy" =>
                Len(a.args) \in {1, 2} /\ a.args[1] # Callback

\* What comes back: an error of the requester, a status other than 200, text
\* that is not JSON, or an updateInfo.
Response == {"error", "refused", "garbled", "noInfo", "nativeUpdate",
             "notAvailable", "available"}
Result == {"error", "done", "nothing", "native", "remote"}

VARIABLES
    call,    \* the calls made
    pending, \* calls whose request has no response yet
    report,  \* what a report said to the server
    answers, \* what the callback was called with, call by call
    thrown   \* calls that threw an exception

vars == <<call, pending, report, answers, thrown>>

Init ==
    /\ call = [c \in Call |-> NoCall]
    /\ pending = {}
    /\ report = [c \in Call |-> NoReport]
    /\ answers = [c \in Call |-> <<>>]
    /\ thrown = {}

-----------------------------------------------------------------------------
(* Arguments                                                               *)

Param(args, i) == IF i \in DOMAIN args THEN args[i] ELSE Nothing

ValidStatus(s) == s \in {Succeeded, Failed}

\* typeof arguments[arguments.length - 1] === "function"
LastIsCallback(args) == args # <<>> /\ args[Len(args)] = Callback

\* Mutant: the callback is the declared parameter only.
FindsCallbackDeclared_(method, args) ==
    Param(args, IF method = "reportStatusDeploy" THEN 5 ELSE 2) = Callback

\* Where each method finds the callback of a request that was answered.
FindsCallback(method, args) ==
    IF method = "reportStatusDeploy" THEN LastIsCallback(args)
                                     ELSE Param(args, 2) = Callback

\* Mutant: the body is not put through JSON.stringify.
SentAsIs_(value) == value

\* JSON.stringify leaves functions out.
Sent(value) == IF value = Callback THEN Nothing ELSE value

-----------------------------------------------------------------------------
(* The methods                                                             *)

Request(c) ==
    /\ pending' = pending \cup {c}
    /\ UNCHANGED <<answers, thrown>>

Throw(c) ==
    /\ thrown' = thrown \cup {c}
    /\ UNCHANGED <<pending, answers>>

\* Only a package with an appVersion will do.
QueryUpdate(c, args) ==
    /\ IF Param(args, 1) \in Package THEN Request(c) ELSE Throw(c)
    /\ UNCHANGED report

\* A report about a package needs a status.
UnknownStatus(args) == Param(args, 1) # Nothing /\ ~ValidStatus(Param(args, 2))

\* What a deployment report says.
DeployReport(args) ==
    [package |-> Param(args, 1),
     status |-> IF Param(args, 1) = Nothing THEN Nothing ELSE Param(args, 2),
     previous |-> Sent(Param(args, 3)),
     previousKey |-> Sent(Param(args, 4))]

\* Mutant: the return after an unknown status is missing.
ReportDeployGoesOn_(c, args) ==
    /\ answers' = IF UnknownStatus(args) /\ Param(args, 5) = Callback
                  THEN [answers EXCEPT ![c] = Append(@, "error")] ELSE answers
    /\ report' = [report EXCEPT ![c] = DeployReport(args)]
    /\ pending' = pending \cup {c}
    /\ UNCHANGED thrown

\* An unknown status is answered at once, to the callback in fifth place; a
\* callback elsewhere is not looked for.  Anything but null counts as a
\* package, a callback in first place included.
ReportDeploy(c, args) ==
    IF UnknownStatus(args)
    THEN /\ answers' = IF Param(args, 5) = Callback
                      THEN [answers EXCEPT ![c] = Append(@, "error")] ELSE answers
         /\ UNCHANGED <<pending, report, thrown>>
    ELSE /\ report' = [report EXCEPT ![c] = DeployReport(args)]
         /\ Request(c)

\* The label of no package cannot be read.
ReportDownload(c, args) ==
    IF Param(args, 1) = Nothing
    THEN Throw(c) /\ UNCHANGED report
    ELSE /\ report' = [report EXCEPT ![c] = [package |-> Param(args, 1), status |-> Nothing,
                                              previous |-> Nothing, previousKey |-> Nothing]]
         /\ Request(c)

Invoke(c) ==
    /\ call[c] = NoCall
    /\ \E a \in CallArgs :
          /\ call' = [call EXCEPT ![c] = a]
          /\ \/ a.method = "queryUpdateWithCurrentPackage" /\ QueryUpdate(c, a.args)
             \/ a.method = "reportStatusDeploy" /\ ReportDeploy(c, a.args)
             \/ a.method = "reportStatusDownload" /\ ReportDownload(c, a.args)

-----------------------------------------------------------------------------
(* The response                                                            *)

QueryResult(response) ==
    CASE response \in {"error", "refused", "garbled"} -> "error"
      [] response \in {"noInfo", "notAvailable"} -> "nothing"
      [] response = "nativeUpdate" -> "native"
      [] response = "available" -> "remote"

\* The body of the response to a report is not looked at.
ReportResult(response) ==
    IF response \in {"error", "refused"} THEN "error" ELSE "done"

ResultOf(method, response) ==
    IF method = "queryUpdateWithCurrentPackage"
    THEN QueryResult(response) ELSE ReportResult(response)

\* The requester answers.  The update check calls its callback without asking
\* whether there is one.
Respond(c) ==
    /\ c \in pending
    /\ pending' = pending \ {c}
    /\ LET method == call[c].method IN
       IF FindsCallback(method, call[c].args)
       THEN /\ \E response \in Response :
                  answers' = [answers EXCEPT ![c] = Append(@, ResultOf(method, response))]
            /\ UNCHANGED thrown
       ELSE /\ thrown' = IF method = "queryUpdateWithCurrentPackage"
                         THEN thrown \cup {c} ELSE thrown
            /\ UNCHANGED answers
    /\ UNCHANGED <<call, report>>

-----------------------------------------------------------------------------
Next == \E c \in Call : Invoke(c) \/ Respond(c)

Spec == Init /\ [][Next]_vars

\* The requester answers every request in the end (its own time-out included).
FairSpec == Spec /\ \A c \in Call : WF_vars(Respond(c))

-----------------------------------------------------------------------------
(* Properties                                                              *)

Report == [package : Argument, status : Argument,
           previous : Argument, previousKey : Argument]

\* Types; a call whose request is pending has neither been answered nor thrown
\* an exception.
TypeOK ==
    /\ call \in [Call -> CallArgs \cup {NoCall}]
    /\ pending \subseteq Call
    /\ thrown \subseteq Call
    /\ report \in [Call -> Report \cup {NoReport}]
    /\ answers \in [Call -> Seq(Result)]
    /\ \A c \in pending : answers[c] = <<>> /\ c \notin thrown

\* Wherever the caller put its callback and whatever it left out, a deployment
\* that is reported names a package exactly when it has one of the two
\* statuses, and the callback is no part of it (reportStatusDeploy, which
\* takes a callback in third place for a previous label at first).
DeploysAreWellFormed ==
    \A c \in Call :
        report[c] # NoReport /\ call[c].method = "reportStatusDeploy" =>
            /\ report[c].package # Nothing <=> ValidStatus(report[c].status)
            /\ report[c].package # Callback
            /\ Callback \notin {report[c].previous, report[c].previousKey}

\* The calls that are to be answered: with a callback that will be found.
Expecting(c) ==
    /\ call[c] # NoCall
    /\ c \notin thrown
    /\ LastIsCallback(call[c].args)
    /\ call[c].method = "reportStatusDeploy" /\ UnknownStatus(call[c].args)
          => Len(call[c].args) = 5

Promise == INSTANCE AsyncCall WITH
    Result <- {<<r>> : r \in Result},
    NoResult <- <<>>,
    begun <- {c \in Call : Expecting(c)},
    result <- answers

\* A call with a callback is answered once and in the end, for any order of
\* the responses.  (Not so a reportStatusDeploy of an unknown status with its
\* callback in another than the fifth place: nothing is sent, and nobody
\* told.)
AnsweredOnce == Promise!Spec
=============================================================================
