--------------------------- MODULE AccountCommands ---------------------------
(***************************************************************************)
(* The commands that manage an account on the server: access keys, apps,   *)
(* collaborators, deployments, sessions, and the promote, patch and        *)
(* rollback of releases, down to makeApiRequest() of the management SDK.   *)
(*                                                                         *)
(* An invocation of the CLI (a member of Proc) runs one command.  The      *)
(* command is a plan: stages of server calls, each stage started when all  *)
(* the calls of the one before have succeeded; some commands first ask the *)
(* user to confirm.  A second invocation may be a retry of the first, or a *)
(* collaborator working on the same app at the same time.  The server is   *)
(* outside src/; a call may be lost before or after it has carried it out. *)
(***************************************************************************)
EXTENDS Naturals, Sequences

CONSTANTS
    Proc,               \* invocations of the CLI
    App,                \* the app
    NewName,            \* another name it may be given
    Staging, Production,
    Deployment,         \* deployment names, with these two
    AccessKey,          \* names of access keys
    Collaborator,       \* e-mail addresses
    Account,            \* the account; always there
    Machine,            \* machines with a login session
    Content,            \* contents of releases
    Command,            \* invocations considered, of Invocation
    InitialReleases,    \* release histories at the start
    MaxReleases,        \* bound of a release history
    NoCommand

Target == {App, NewName, Account} \cup Deployment \cup AccessKey \cup Collaborator \cup Machine

Reads == {"list", "metrics", "read"}
Op == Reads \cup {"add", "remove", "rename", "change", "clear", "promote", "rollback"}

\* Calls of the server; these are about deployments only.
DeploymentOp == {"metrics", "clear", "promote", "rollback"}
CallSet == {call \in [op : Op, target : Target, to : Target] :
               call.op \in DeploymentOp \/ (call.op = "rename" /\ call.target \in Deployment)
               => call.target \in Deployment /\ call.to \in Deployment}
Call(op, t) == [op |-> op, target |-> t, to |-> t]

\* Commands that ask the user before they call the server.
Confirmed == {"accessKeyRemove", "appRemove", "appTransfer", "collaboratorRemove",
              "deploymentRemove", "deploymentHistoryClear", "rollback", "sessionRemove"}

\* Commands that check an argument (an e-mail, an operating system, that
\* something is to be changed) and throw when it is not valid.
Checked == {"accessKeyPatch", "appAdd", "appTransfer", "collaboratorAdd",
            "collaboratorRemove", "patch", "sessionRemove", "list",
            "deploymentList", "deploymentHistory"}

Names == Confirmed \cup Checked \cup
         {"accessKeyAdd", "appRename", "deploymentAdd", "deploymentAddDefault",
          "deploymentRename", "promote"}

\* A command line: the command, what it is about, the new name or destination,
\* and whether --noDuplicateReleaseError is there.
DeploymentCommand == {"deploymentHistory", "deploymentHistoryClear", "deploymentRename",
                      "promote", "rollback"}
Invocation == {c \in [name : Names, target : Target, to : Target, tolerant : BOOLEAN] :
                  /\ c.name \in DeploymentCommand
                     => c.target \in Deployment /\ c.to \in Deployment
                  /\ c.name = "appRename" => c.target = App}

ASSUME AccountAssumption ==
    /\ {Staging, Production} \subseteq Deployment
    /\ Command \subseteq Invocation
    /\ NoCommand \notin Command
    /\ App \notin Deployment
    /\ InitialReleases \subseteq [Deployment -> Seq(Content)]
    /\ MaxReleases \in Nat

VARIABLES
    exists,    \* server: what is there
    releases,  \* server: release history of each deployment
    cmd,       \* the command of each invocation
    pc,        \* where it is
    plan,      \* its stages
    stage,     \* index of the current stage
    confirmed, \* invocations the user answered "y" to
    sent,      \* calls on their way to the server
    answers,   \* answers on their way back
    listed,    \* deployments that have a release, in the answer to a list
    metrics,   \* deployments whose metrics have arrived
    outcome,   \* how the invocation ended
    done       \* history: the calls the server carried out, in their order

serverVars == <<exists, releases, done>>
vars == <<serverVars, cmd, pc, plan, stage, confirmed, sent, answers,
          listed, metrics, outcome>>

Status == {"ok", "notFound", "conflict", "timeout"}
Answer == [call : CallSet, status : Status, json : BOOLEAN, having : SUBSET Deployment]

\* Types, and that an invocation has an outcome exactly when it has ended.
TypeOK ==
    /\ exists \subseteq Target
    /\ releases \in [Deployment -> Seq(Content)]
    /\ cmd \in [Proc -> Command \cup {NoCommand}]
    /\ pc \in [Proc -> {"idle", "confirm", "calling", "exited"}]
    /\ plan \in [Proc -> Seq(SUBSET CallSet)]
    /\ stage \in [Proc -> Nat]
    /\ confirmed \subseteq Proc
    /\ sent \in [Proc -> SUBSET CallSet]
    /\ answers \in [Proc -> SUBSET Answer]
    /\ listed \in [Proc -> SUBSET Deployment]
    /\ metrics \in [Proc -> SUBSET Deployment]
    /\ outcome \in [Proc -> {"none", "success", "warned", "cancelled", "aborted",
                             "refused", "failed", "killed"}]
    /\ done \in [Proc -> Seq(CallSet)]
    /\ \A p \in Proc : pc[p] = "exited" <=> outcome[p] # "none"

\* Deployments exist only within the app.
Init ==
    /\ exists \in {S \in SUBSET Target : /\ {Account} \cup Machine \subseteq S
                                         /\ App \in S \/ S \cap Deployment = {}
                                         /\ NewName \notin S}
    /\ releases \in {r \in InitialReleases : \A d \in Deployment \ exists : r[d] = <<>>}
    /\ cmd = [p \in Proc |-> NoCommand]
    /\ pc = [p \in Proc |-> "idle"]
    /\ plan = [p \in Proc |-> <<>>]
    /\ stage = [p \in Proc |-> 0]
    /\ confirmed = {}
    /\ sent = [p \in Proc |-> {}]
    /\ answers = [p \in Proc |-> {}]
    /\ listed = [p \in Proc |-> {}]
    /\ metrics = [p \in Proc |-> {}]
    /\ outcome = [p \in Proc |-> "none"]
    /\ done = [p \in Proc |-> <<>>]

-----------------------------------------------------------------------------
(* What each command calls                                                 *)

Moved(op, c) == [op |-> op, target |-> c.target, to |-> c.to]

\* The calls a command makes to change something, in their order.
Changes(c) ==
    CASE c.name \in {"accessKeyAdd", "collaboratorAdd", "appAdd", "deploymentAdd"} ->
            <<Call("add", c.target)>>
      [] c.name = "deploymentAddDefault" -> <<Call("add", Staging), Call("add", Production)>>
      [] c.name \in {"accessKeyRemove", "appRemove", "collaboratorRemove",
                     "deploymentRemove", "sessionRemove"} -> <<Call("remove", c.target)>>
      [] c.name \in {"appRename", "deploymentRename"} -> <<Moved("rename", c)>>
      [] c.name \in {"accessKeyPatch", "appTransfer", "patch"} -> <<Call("change", c.target)>>
      [] c.name = "deploymentHistoryClear" -> <<Call("clear", c.target)>>
      [] c.name = "promote" -> <<Moved("promote", c)>>
      [] c.name = "rollback" -> <<Call("rollback", c.target)>>
      [] OTHER -> <<>>

\* The calls it makes to print something, all sent at once (Q.all).
Queries(c) ==
    CASE c.name \in {"appAdd", "deploymentAddDefault", "deploymentList"} -> {Call("list", App)}
      [] c.name = "list" -> {Call("read", c.target)}
      [] c.name = "deploymentHistory" ->
            {Call("read", Account), Call("read", c.target), Call("metrics", c.target)}
      [] OTHER -> {}

\* Mutant: the changes are sent together (Q.all instead of then).
PlanAtOnce_(c) ==
    LET changes == <<{Changes(c)[i] : i \in DOMAIN Changes(c)}>>
    IN  IF Changes(c) = <<>> THEN <<Queries(c)>>
        ELSE IF Queries(c) = {} THEN changes ELSE Append(changes, Queries(c))

\* One stage for each change, then one for the queries.
Plan(c) == LET changes == [i \in DOMAIN Changes(c) |-> {Changes(c)[i]}]
           IN  IF Queries(c) = {} THEN changes ELSE Append(changes, Queries(c))

-----------------------------------------------------------------------------
(* Starting and ending                                                     *)

Exit(p, how) ==
    /\ pc' = [pc EXCEPT ![p] = "exited"]
    /\ outcome' = [outcome EXCEPT ![p] = how]

SendStage(p, thePlan, i) ==
    /\ stage' = [stage EXCEPT ![p] = i]
    /\ sent' = [sent EXCEPT ![p] = thePlan[i]]

\* A command line is given; a command that needs no confirmation calls the
\* server at once.
Start(p) ==
    /\ pc[p] = "idle"
    /\ \E c \in Command :
          /\ cmd' = [cmd EXCEPT ![p] = c]
          /\ plan' = [plan EXCEPT ![p] = Plan(c)]
          /\ \/ /\ c.name \in Confirmed
                /\ pc' = [pc EXCEPT ![p] = "confirm"]
                /\ UNCHANGED <<stage, sent, outcome>>
             \/ /\ c.name \notin Confirmed
                /\ pc' = [pc EXCEPT ![p] = "calling"]
                /\ SendStage(p, Plan(c), 1)
                /\ UNCHANGED outcome
             \/ /\ c.name \in Checked
                /\ Exit(p, "refused")
                /\ UNCHANGED <<stage, sent>>
    /\ UNCHANGED <<serverVars, confirmed, answers, listed, metrics>>

\* Mutant: any answer that is not "n" counts as a yes.
ConfirmUnlessNo_(p) ==
    /\ pc[p] = "confirm"
    /\ pc' = [pc EXCEPT ![p] = "calling"]
    /\ SendStage(p, plan[p], 1)
    /\ confirmed' \in {confirmed, confirmed \cup {p}}
    /\ UNCHANGED <<serverVars, cmd, plan, answers, listed, metrics, outcome>>

\* confirm(): "y" resolves to true; "n", nothing or anything else to false,
\* which ends the command without an error.  When the prompt is broken off
\* there is no result to read the response from, and the process dies.
Confirm(p) ==
    /\ pc[p] = "confirm"
    /\ \/ /\ confirmed' = confirmed \cup {p}
          /\ pc' = [pc EXCEPT ![p] = "calling"]
          /\ SendStage(p, plan[p], 1)
          /\ UNCHANGED outcome
       \/ /\ \E how \in {"cancelled", "aborted"} : Exit(p, how)
          /\ UNCHANGED <<confirmed, stage, sent>>
    /\ UNCHANGED <<serverVars, cmd, plan, answers, listed, metrics>>

\* The process is killed; what it has sent may still reach the server.
Kill(p) ==
    /\ pc[p] \in {"confirm", "calling"}
    /\ Exit(p, "killed")
    /\ UNCHANGED <<serverVars, cmd, plan, stage, confirmed, sent, answers,
                   listed, metrics>>

-----------------------------------------------------------------------------
(* The server                                                              *)

There(t) == t \in exists
Latest(d) == releases[d][Len(releases[d])]

\* How the server answers a call.
Verdict(call) ==
    CASE call.op = "add" /\ There(call.target) -> "conflict"
      [] call.op = "add" /\ call.target \in Deployment /\ ~There(App) -> "notFound"
      [] call.op # "add" /\ ~There(call.target) -> "notFound"
      [] call.op = "rename" /\ There(call.to) -> "conflict"
      [] call.op = "promote" /\ ~There(call.to) -> "notFound"
      [] call.op = "promote" /\ releases[call.target] = <<>> -> "notFound"
      [] call.op = "promote" /\ releases[call.to] # <<>>
            /\ Latest(call.to) = Latest(call.target) -> "conflict"
      [] call.op = "rollback" /\ Len(releases[call.target]) < 2 -> "notFound"
      [] OTHER -> "ok"

\* The deployments of an app go with it, and are not followed when it gets
\* another name; a new app comes with two of them.
Gone(t) == IF t = App THEN {App} \cup Deployment ELSE {t}
Came(t) == IF t = App THEN {App, Staging, Production} ELSE {t}

\* What a call it accepts changes.
ExistsAfter(call) ==
    CASE call.op = "add" -> exists \cup Came(call.target)
      [] call.op = "remove" -> exists \ Gone(call.target)
      [] call.op = "rename" -> (exists \ Gone(call.target)) \cup {call.to}
      [] OTHER -> exists

ReleasesAfter(call) ==
    CASE call.op = "remove" \/ (call.op = "rename" /\ call.target = App) ->
            [d \in Deployment |-> IF d \in Gone(call.target) THEN <<>> ELSE releases[d]]
      [] call.op = "clear" -> [releases EXCEPT ![call.target] = <<>>]
      [] call.op = "rename" /\ call.target \in Deployment ->
            [releases EXCEPT ![call.to] = releases[call.target], ![call.target] = <<>>]
      [] call.op = "promote" ->
            [releases EXCEPT ![call.to] = Append(@, Latest(call.target))]
      [] call.op = "rollback" -> [releases EXCEPT ![call.target] = Append(@, @[Len(@) - 1])]
      [] OTHER -> releases

\* The call reaches the server, which carries it out if it can.  Its answer
\* may carry no JSON, or be lost, which the client sees as a time-out.
Serve(p, call) ==
    /\ call \in sent[p]
    /\ sent' = [sent EXCEPT ![p] = @ \ {call}]
    /\ LET verdict == Verdict(call)
           carried == verdict = "ok" /\ call.op \notin Reads
       IN  /\ carried => \A d \in Deployment : Len(ReleasesAfter(call)[d]) <= MaxReleases
           /\ exists' = IF carried THEN ExistsAfter(call) ELSE exists
           /\ releases' = IF carried THEN ReleasesAfter(call) ELSE releases
           /\ done' = IF carried THEN [done EXCEPT ![p] = Append(@, call)] ELSE done
           /\ \E got \in {verdict, "timeout"}, json \in BOOLEAN :
                 answers' = [answers EXCEPT ![p] = @ \cup
                    {[call |-> call, status |-> got, json |-> json,
                      having |-> {d \in Deployment : There(d) /\ releases[d] # <<>>}]}]
    /\ UNCHANGED <<cmd, pc, plan, stage, confirmed, listed, metrics, outcome>>

\* The call never reaches the server.
Lose(p, call) ==
    /\ call \in sent[p]
    /\ sent' = [sent EXCEPT ![p] = @ \ {call}]
    /\ answers' = [answers EXCEPT ![p] = @ \cup
          {[call |-> call, status |-> "timeout", json |-> FALSE, having |-> {}]}]
    /\ UNCHANGED <<serverVars, cmd, pc, plan, stage, confirmed, listed, metrics, outcome>>

-----------------------------------------------------------------------------
(* The answers                                                             *)

\* Calls whose answer must be JSON: every GET, and addAccessKey and
\* addDeployment among the POSTs.
ExpectsBody(call) ==
    \/ call.op \in Reads
    \/ call.op = "add" /\ call.target \in AccessKey \cup Deployment

\* patchAccessKey does not ask for a body but reads body.accessKey.
ReadsBody(call) == call.op = "change" /\ call.target \in AccessKey

\* Mutant: an answer without an error resolves, with or without its JSON.
AcceptedWithoutBody_(a) == a.status \in {"ok", "timeout"}

\* makeApiRequest resolves, and so does what reads the answer.
Accepted(a) ==
    /\ a.status = "ok"
    /\ a.json \/ ~(ExpectsBody(a.call) \/ ReadsBody(a.call))

\* Mutant: the rejection is dropped and the promise never settles.
RejectedDropped_(p, a) ==
    /\ ~Accepted(a)
    /\ answers' = [answers EXCEPT ![p] = @ \ {a}]
    /\ UNCHANGED <<pc, outcome, stage, sent, plan, listed, metrics>>

\* Mutant: the error is reported but the process goes on.
RejectedStays_(p, a) ==
    /\ ~Accepted(a)
    /\ answers' = [answers EXCEPT ![p] = @ \ {a}]
    /\ outcome' = [outcome EXCEPT ![p] = "failed"]
    /\ UNCHANGED <<pc, stage, sent, plan, listed, metrics>>

\* Mutant: a call that timed out is made again.
RejectedRetries_(p, a) ==
    /\ ~Accepted(a)
    /\ answers' = [answers EXCEPT ![p] = @ \ {a}]
    /\ IF a.status = "timeout"
       THEN sent' = [sent EXCEPT ![p] = @ \cup {a.call}] /\ UNCHANGED <<pc, outcome>>
       ELSE Exit(p, "failed") /\ UNCHANGED sent
    /\ UNCHANGED <<stage, plan, listed, metrics>>

\* Mutant: releaseErrorHandler does not look at the status.
RejectedTolerant_(p, a) ==
    /\ ~Accepted(a)
    /\ answers' = [answers EXCEPT ![p] = @ \ {a}]
    /\ IF cmd[p].name = "promote" /\ cmd[p].tolerant
       THEN Exit(p, "warned")
       ELSE Exit(p, "failed")
    /\ UNCHANGED <<stage, sent, plan, listed, metrics>>

\* The first rejection ends the command, whatever else is on its way;
\* releaseErrorHandler makes a warning of a conflict if it is told to.
Rejected(p, a) ==
    /\ ~Accepted(a)
    /\ answers' = [answers EXCEPT ![p] = @ \ {a}]
    /\ IF cmd[p].name = "promote" /\ cmd[p].tolerant /\ a.status = "conflict"
       THEN Exit(p, "warned")
       ELSE Exit(p, "failed")
    /\ UNCHANGED <<stage, sent, plan, listed, metrics>>

\* deployment list goes on to ask for the metrics of what has a release.
NextStages(p, a) ==
    IF cmd[p].name = "deploymentList" /\ a.call.op = "list" /\ a.having # {}
    THEN Append(plan[p], {Call("metrics", d) : d \in a.having})
    ELSE plan[p]

\* Mutant: the promise of the stage is not returned, so the next step does
\* not wait for the other calls.
StageDoneEarly_(p, a) == TRUE

StageDone(p, a) == sent[p] = {} /\ answers[p] = {a}

\* A call of the stage has succeeded; the last one starts the next stage, or
\* ends the command.
Resolved(p, a) ==
    /\ Accepted(a)
    /\ answers' = [answers EXCEPT ![p] = @ \ {a}]
    /\ listed' = IF a.call.op = "list" THEN [listed EXCEPT ![p] = a.having] ELSE listed
    /\ metrics' = IF a.call.op = "metrics"
                  THEN [metrics EXCEPT ![p] = @ \cup {a.call.target}] ELSE metrics
    /\ plan' = [plan EXCEPT ![p] = NextStages(p, a)]
    /\ IF ~StageDone(p, a)
       THEN UNCHANGED <<pc, outcome, stage, sent>>
       ELSE IF stage[p] < Len(NextStages(p, a))
       THEN SendStage(p, NextStages(p, a), stage[p] + 1) /\ UNCHANGED <<pc, outcome>>
       ELSE Exit(p, "success") /\ UNCHANGED <<stage, sent>>

Answered(p) ==
    /\ pc[p] = "calling"
    /\ \E a \in answers[p] : Rejected(p, a) \/ Resolved(p, a)
    /\ UNCHANGED <<serverVars, cmd, confirmed>>

-----------------------------------------------------------------------------
(* Specification                                                           *)

Next ==
    \E p \in Proc :
        \/ Start(p) \/ Confirm(p) \/ Answered(p) \/ Kill(p)
        \/ \E call \in sent[p] : Serve(p, call) \/ Lose(p, call)

Spec == Init /\ [][Next]_vars

\* A prompt is answered, a call is answered or times out, and an answer is
\* handled by the event loop.
Fairness ==
    \A p \in Proc :
        /\ WF_vars(Confirm(p))
        /\ WF_vars(Answered(p))
        /\ WF_vars(\E call \in sent[p] : Serve(p, call) \/ Lose(p, call))

FairSpec == Spec /\ Fairness

-----------------------------------------------------------------------------
(* Properties                                                              *)

\* Whatever is lost, killed, retried or done by somebody else meanwhile, the
\* server carries out the calls of an invocation in the order of its plan,
\* each at most once: a failed deployment add --default (deploymentAdd) can
\* leave Staging alone, never Production alone or a second copy.
DoneInOrder ==
    \A p \in Proc : \A i \in DOMAIN done[p] :
        i \in DOMAIN plan[p] /\ plan[p][i] = {done[p][i]}

\* An invocation that reports success (the log() after the calls) has had
\* every change of its plan carried out, although the answers travel
\* separately and makeApiRequest decides by them alone.
SuccessMeansDone ==
    \A p \in Proc : outcome[p] = "success" =>
        \A i \in DOMAIN plan[p] : \A call \in plan[p][i] :
            call.op \notin Reads => i \in DOMAIN done[p] /\ done[p][i] = call

\* No change that needs a confirmation is carried out without a "y", neither
\* after another answer nor after the prompt was broken off or killed.
OnlyConfirmedDone ==
    \A p \in Proc : done[p] # <<>> /\ cmd[p].name \in Confirmed => p \in confirmed

\* A deployment list that is printed has the metrics of every deployment that
\* it lists with a release: Q.all waits for all of them.
ListsAreComplete ==
    \A p \in Proc : outcome[p] = "success" /\ cmd[p].name = "deploymentList" =>
        metrics[p] = listed[p]

\* With --noDuplicateReleaseError a promotion that ends with a warning has
\* changed nothing: it swallows the conflict and no other failure, so it
\* cannot hide a promotion that was carried out and whose answer was lost.
WarnedChangedNothing ==
    \A p \in Proc : outcome[p] = "warned" => done[p] = <<>>

\* A change may still be made for an invocation that has not ended, or has a
\* call that changes something on its way.
Changing == INSTANCE ChangeChain
            WITH Order <- Command, NoOrder <- NoCommand,
                 Asks <- {c \in Command : c.name \in Confirmed},
                 Chain <- [c \in Command |-> Changes(c)],
                 order <- cmd, yes <- confirmed, made <- done, report <- outcome,
                 open <- {p \in Proc : \/ outcome[p] = "none"
                                       \/ \E call \in sent[p] : call.op \notin Reads}

\* Seen from its user an invocation makes its changes one by one and reports
\* the truth: success after the last of them, a warning or a cancellation after
\* none, and after a failure or a kill at most one more is made, whatever
\* another invocation does to the same app meanwhile.
ChangesOneByOne == Changing!Spec

\* Every command that was started ends, when prompts and calls are answered.
CommandsEnd == \A p \in Proc : pc[p] \in {"confirm", "calling"} ~> pc[p] = "exited"
=============================================================================
