------------------------ MODULE AcquisitionSdkProofs ------------------------
(* Theorems about AcquisitionSdk: what its reports say, and that its steps  *)
(* are steps of the abstract AsyncCall.                                     *)
EXTENDS AcquisitionSdk, TLAPS

\* Nothing has happened before the call.
Untouched(c) ==
    /\ report[c] = NoReport
    /\ answers[c] = <<>>
    /\ c \notin pending /\ c \notin thrown

\* A request that waits for its response is of a call that went past the
\* checks of its method.
Waiting(c) ==
    /\ call[c] \in CallArgs
    /\ IF call[c].method = "reportStatusDeploy"
       THEN ~UnknownStatus(call[c].args)
       ELSE Param(call[c].args, 1) # Nothing

\* A deployment that was reported was reported with the arguments of its call.
Reported(c) ==
    call[c].method = "reportStatusDeploy" =>
        /\ call[c] \in CallArgs
        /\ ~UnknownStatus(call[c].args)
        /\ report[c] = DeployReport(call[c].args)

CallInv(c) ==
    /\ call[c] = NoCall => Untouched(c)
    /\ c \in pending => Waiting(c)
    /\ report[c] # NoReport => call[c] \in CallArgs /\ Reported(c)

IInv == TypeOK /\ \A c \in Call : CallInv(c)

-----------------------------------------------------------------------------
(* Arguments                                                               *)

\* What a call looks like.
LEMMA Shape ==
    ASSUME NEW a \in CallArgs
    PROVE  /\ a.method \in Method /\ a.args \in Seq(Argument)
           /\ Len(a.args) \in Nat /\ Len(a.args) <= 5
           /\ DOMAIN a.args = 1..Len(a.args)
           /\ \A i \in 1..Len(a.args) :
                 a.args[i] \in Argument /\ (a.args[i] = Callback => i = Len(a.args))
           /\ a.method # "reportStatusDeploy" =>
                 Len(a.args) \in {1, 2} /\ a.args[1] # Callback
BY CallAssumption

LEMMA ParamTyped ==
    ASSUME NEW a \in CallArgs, NEW i \in 1..5
    PROVE  Param(a.args, i) \in Argument
BY Shape DEF Param, Argument

LEMMA DeployReportTyped ==
    ASSUME NEW a \in CallArgs
    PROVE  DeployReport(a.args) \in Report
<1>1. \A i \in 1..5 : Param(a.args, i) \in Argument
  BY ParamTyped
<1>2. Nothing \in Argument
  BY DEF Argument
<1> QED BY <1>1, <1>2 DEF DeployReport, Report, Sent

-----------------------------------------------------------------------------
(* The invariant                                                           *)

LEMMA Initially == Init => IInv
BY DEF Init, IInv, TypeOK, CallInv, Untouched

\* One more answer to a call.
LEMMA AnswersTyped ==
    ASSUME TypeOK, NEW c \in Call, NEW r \in Result,
           answers' = [answers EXCEPT ![c] = Append(@, r)]
    PROVE  /\ answers' \in [Call -> Seq(Result)]
           /\ answers'[c] = Append(answers[c], r)
           /\ \A d \in Call \ {c} : answers'[d] = answers[d]
<1>1. answers[c] \in Seq(Result)
  BY DEF TypeOK
<1>2. Append(answers[c], r) \in Seq(Result)
  BY <1>1
<1> QED BY <1>2 DEF TypeOK

LEMMA InvokePreserves ==
    ASSUME IInv, NEW c \in Call, Invoke(c)
    PROVE  IInv'
<1>1. PICK a \in CallArgs :
          /\ call' = [call EXCEPT ![c] = a]
          /\ \/ a.method = "queryUpdateWithCurrentPackage" /\ QueryUpdate(c, a.args)
             \/ a.method = "reportStatusDeploy" /\ ReportDeploy(c, a.args)
             \/ a.method = "reportStatusDownload" /\ ReportDownload(c, a.args)
  BY DEF Invoke
<1>2. /\ call \in [Call -> CallArgs \cup {NoCall}] /\ call'[c] = a
      /\ \A d \in Call \ {c} : call'[d] = call[d]
      /\ a # NoCall
  BY <1>1, CallAssumption DEF IInv, TypeOK
<1>3. Untouched(c)
  BY DEF IInv, CallInv, Invoke
<1>4. CASE a.method = "queryUpdateWithCurrentPackage" /\ QueryUpdate(c, a.args)
  <2>1. report' = report /\ answers' = answers
    BY <1>4 DEF QueryUpdate, Request, Throw
  <2>2. \/ /\ pending' = pending \cup {c} /\ thrown' = thrown
           /\ Param(a.args, 1) # Nothing
        \/ pending' = pending /\ thrown' = thrown \cup {c}
    BY <1>4, ArgumentAssumption DEF QueryUpdate, Request, Throw
  <2> QED
    BY <1>1, <1>2, <1>3, <1>4, <2>1, <2>2
    DEF IInv, TypeOK, CallInv, Untouched, Waiting, Reported
<1>5. CASE a.method = "reportStatusDeploy" /\ ReportDeploy(c, a.args)
  <2>1. CASE UnknownStatus(a.args)
    <3>1. /\ pending' = pending /\ report' = report /\ thrown' = thrown
          /\ answers' \in {answers, [answers EXCEPT ![c] = Append(@, "error")]}
      BY <1>5, <2>1 DEF ReportDeploy
    <3>2. /\ answers' \in [Call -> Seq(Result)]
          /\ \A d \in Call \ {c} : answers'[d] = answers[d]
      <4>1. CASE answers' = answers
        BY <4>1 DEF IInv, TypeOK
      <4>2. CASE answers' = [answers EXCEPT ![c] = Append(@, "error")]
        BY <4>2, AnswersTyped DEF IInv, Result
      <4> QED BY <3>1, <4>1, <4>2
    <3>3. TypeOK'
      BY <1>1, <1>2, <1>3, <3>1, <3>2 DEF IInv, TypeOK, Untouched
    <3>4. ASSUME NEW d \in Call PROVE CallInv(d)'
      BY <1>1, <1>2, <1>3, <3>1, <3>2
      DEF IInv, CallInv, Untouched, Waiting, Reported
    <3> QED BY <3>3, <3>4 DEF IInv
  <2>2. CASE ~UnknownStatus(a.args)
    <3>1. /\ pending' = pending \cup {c} /\ thrown' = thrown /\ answers' = answers
          /\ report' = [report EXCEPT ![c] = DeployReport(a.args)]
      BY <1>5, <2>2 DEF ReportDeploy, Request
    <3>2. report' \in [Call -> Report \cup {NoReport}]
      BY <3>1, DeployReportTyped DEF IInv, TypeOK
    <3> QED
      BY <1>1, <1>2, <1>3, <1>5, <2>2, <3>1, <3>2
      DEF IInv, TypeOK, CallInv, Untouched, Waiting, Reported
  <2> QED BY <2>1, <2>2
<1>6. CASE a.method = "reportStatusDownload" /\ ReportDownload(c, a.args)
  <2>1. CASE Param(a.args, 1) = Nothing
    <3>1. /\ pending' = pending /\ report' = report /\ answers' = answers
          /\ thrown' = thrown \cup {c}
      BY <1>6, <2>1 DEF ReportDownload, Throw
    <3> QED
      BY <1>1, <1>2, <1>3, <1>6, <3>1
      DEF IInv, TypeOK, CallInv, Untouched, Waiting, Reported
  <2>2. CASE Param(a.args, 1) # Nothing
    <3>1. /\ pending' = pending \cup {c} /\ thrown' = thrown /\ answers' = answers
          /\ report' = [report EXCEPT ![c] =
                [package |-> Param(a.args, 1), status |-> Nothing,
                 previous |-> Nothing, previousKey |-> Nothing]]
      BY <1>6, <2>2 DEF ReportDownload, Request
    <3>2. report' \in [Call -> Report \cup {NoReport}]
      BY <3>1, ParamTyped DEF IInv, TypeOK, Report, Argument
    <3> QED
      BY <1>1, <1>2, <1>3, <1>6, <2>2, <3>1, <3>2
      DEF IInv, TypeOK, CallInv, Untouched, Waiting, Reported
  <2> QED BY <2>1, <2>2
<1> QED BY <1>1, <1>4, <1>5, <1>6

LEMMA ResultTyped ==
    \A method, response : response \in Response => ResultOf(method, response) \in Result
BY DEF Response, Result, ResultOf, QueryResult, ReportResult

LEMMA RespondPreserves ==
    ASSUME IInv, NEW c \in Call, Respond(c)
    PROVE  IInv'
<1>1. /\ c \in pending /\ pending' = pending \ {c}
      /\ call' = call /\ report' = report
  BY DEF Respond
<1>2. \/ /\ thrown' = thrown
         /\ \E r \in Result : answers' = [answers EXCEPT ![c] = Append(@, r)]
      \/ thrown' \in {thrown, thrown \cup {c}} /\ answers' = answers
  BY ResultTyped DEF Respond
<1>3. answers' \in [Call -> Seq(Result)]
  BY <1>2, AnswersTyped DEF IInv, TypeOK
<1>4. \A d \in Call \ {c} : answers'[d] = answers[d] /\ (d \in thrown' <=> d \in thrown)
  BY <1>2 DEF IInv, TypeOK
<1>5. call[c] # NoCall
  BY <1>1 DEF IInv, CallInv, Untouched
<1>6. TypeOK'
  BY <1>1, <1>2, <1>3, <1>4 DEF IInv, TypeOK
<1>7. ASSUME NEW d \in Call PROVE CallInv(d)'
  <2>1. CallInv(d)
    BY DEF IInv
  <2> QED BY <1>1, <1>4, <1>5, <2>1 DEF CallInv, Untouched, Waiting, Reported
<1> QED BY <1>6, <1>7 DEF IInv

LEMMA Inductive == IInv /\ [Next]_vars => IInv'
<1>1. IInv /\ UNCHANGED vars => IInv'
  BY DEF IInv, vars, TypeOK, CallInv, Untouched, Waiting, Reported
<1>2. ASSUME IInv, NEW c \in Call, Invoke(c) \/ Respond(c) PROVE IInv'
  BY <1>2, InvokePreserves, RespondPreserves
<1> QED BY <1>1, <1>2 DEF Next

LEMMA Invariant == Spec => []IInv
BY Initially, Inductive, PTL DEF Spec
-----------------------------------------------------------------------------
(* The theorems                                                            *)

\* The variables keep their types, whatever is called with whatever arguments,
\* and a pending call has not been answered.
THEOREM TypeCorrect == Spec => []TypeOK
<1>1. IInv => TypeOK
  BY DEF IInv
<1> QED BY <1>1, Invariant, PTL

\* A deployment is reported with a package exactly if it has a status, and a
\* callback never gets into a report (reportStatusDeploy).
THEOREM DeployReportsWellFormed == Spec => []DeploysAreWellFormed
<1>1. ASSUME IInv, NEW c \in Call,
             report[c] # NoReport, call[c].method = "reportStatusDeploy"
      PROVE  /\ report[c].package # Nothing <=> ValidStatus(report[c].status)
             /\ report[c].package # Callback
             /\ Callback \notin {report[c].previous, report[c].previousKey}
  <2> DEFINE args == call[c].args
  <2>1. /\ call[c] \in CallArgs /\ ~UnknownStatus(args)
        /\ report[c] = DeployReport(args)
    BY <1>1 DEF IInv, CallInv, Reported
  <2>2. report[c].package # Nothing <=> ValidStatus(report[c].status)
    BY <2>1, ArgumentAssumption DEF DeployReport, UnknownStatus, ValidStatus
  <2>3. Param(args, 1) # Callback
    <3>1. SUFFICES ASSUME Param(args, 1) = Callback PROVE FALSE
      OBVIOUS
    <3>2. Len(args) = 1
      BY <2>1, <3>1, Shape, ArgumentAssumption DEF Param
    <3>3. Param(args, 2) = Nothing
      BY <2>1, <3>2, Shape DEF Param
    <3> QED
      BY <2>1, <3>1, <3>3, ArgumentAssumption DEF UnknownStatus, ValidStatus
  <2>4. Callback \notin {report[c].previous, report[c].previousKey}
    BY <2>1, ArgumentAssumption DEF DeployReport, Sent
  <2> QED BY <2>1, <2>2, <2>3, <2>4 DEF DeployReport
<1>2. IInv => DeploysAreWellFormed
  BY <1>1 DEF DeploysAreWellFormed
<1> QED BY <1>2, Invariant, PTL

\* A call that is answered at once had its callback in the fifth place.
LEMMA InvokeIsBegin ==
    ASSUME IInv, NEW c \in Call, Invoke(c)
    PROVE  Promise!Begin(c) \/ UNCHANGED Promise!vars
<1> DEFINE E == {d \in Call : Expecting(d)}
<1>1. PICK a \in CallArgs :
          /\ call' = [call EXCEPT ![c] = a]
          /\ \/ a.method = "queryUpdateWithCurrentPackage" /\ QueryUpdate(c, a.args)
             \/ a.method = "reportStatusDeploy" /\ ReportDeploy(c, a.args)
             \/ a.method = "reportStatusDownload" /\ ReportDownload(c, a.args)
  BY DEF Invoke
<1>2. /\ call \in [Call -> CallArgs \cup {NoCall}] /\ call'[c] = a
      /\ \A d \in Call \ {c} : call'[d] = call[d]
      /\ call[c] = NoCall
  BY <1>1 DEF IInv, TypeOK, Invoke
<1>3. thrown' \in {thrown, thrown \cup {c}}
  BY <1>1 DEF QueryUpdate, ReportDeploy, ReportDownload, Request, Throw
<1>4. c \notin E /\ (E' = E \/ E' = E \cup {c})
  BY <1>2, <1>3 DEF Expecting
<1>5. \/ answers' = answers
      \/ /\ a.method = "reportStatusDeploy" /\ UnknownStatus(a.args)
         /\ Param(a.args, 5) = Callback
         /\ thrown' = thrown
         /\ answers' = [answers EXCEPT ![c] = Append(@, "error")]
  BY <1>1 DEF QueryUpdate, ReportDeploy, ReportDownload, Request, Throw
<1>6. CASE answers' = answers
  BY <1>4, <1>6 DEF Promise!Begin, Promise!vars
<1>7. CASE /\ a.method = "reportStatusDeploy" /\ UnknownStatus(a.args)
           /\ Param(a.args, 5) = Callback
           /\ thrown' = thrown
           /\ answers' = [answers EXCEPT ![c] = Append(@, "error")]
  <2>1. answers[c] = <<>> /\ c \notin thrown
    BY <1>2 DEF IInv, CallInv, Untouched
  <2>2. Len(a.args) = 5 /\ LastIsCallback(a.args)
    <3>1. 5 \in DOMAIN a.args /\ a.args[5] = Callback
      BY <1>7, ArgumentAssumption DEF Param
    <3>2. Len(a.args) = 5
      BY <3>1, Shape
    <3>3. a.args # <<>>
      BY <3>1
    <3> QED BY <3>1, <3>2, <3>3 DEF LastIsCallback
  <2>3. Expecting(c)'
    BY <1>2, <1>7, <2>1, <2>2, CallAssumption DEF Expecting
  <2>4. E' = E \cup {c}
    BY <1>4, <2>3
  <2>5. answers' = [answers EXCEPT ![c] = <<"error">>]
    BY <1>7, <2>1 DEF IInv, TypeOK
  <2>6. <<"error">> \in {<<r>> : r \in Result}
    BY DEF Result
  <2> QED BY <1>4, <2>4, <2>5, <2>6 DEF Promise!Begin
<1> QED BY <1>5, <1>6, <1>7

\* A response answers the call, or nobody is waiting for it.
LEMMA RespondIsAnswer ==
    ASSUME IInv, NEW c \in Call, Respond(c)
    PROVE  Promise!Answer(c) \/ UNCHANGED Promise!vars
<1> DEFINE E == {d \in Call : Expecting(d)}
           args == call[c].args
           method == call[c].method
<1>1. /\ c \in pending /\ call' = call
      /\ answers[c] = <<>> /\ c \notin thrown
      /\ call[c] \in CallArgs /\ Waiting(c)
  BY DEF Respond, IInv, TypeOK, CallInv, Waiting
<1>2. CASE FindsCallback(method, args)
  <2>1. PICK r \in Result : answers' = [answers EXCEPT ![c] = Append(@, r)]
    BY <1>2, ResultTyped DEF Respond
  <2>2. thrown' = thrown
    BY <1>2 DEF Respond
  <2>3. E' = E
    BY <1>1, <2>2 DEF Expecting
  <2>4. LastIsCallback(args)
    BY <1>1, <1>2, Shape, ArgumentAssumption
    DEF FindsCallback, LastIsCallback, Param, Method
  <2>5. c \in E
    BY <1>1, <2>4, CallAssumption DEF Expecting, Waiting
  <2>6. answers' = [answers EXCEPT ![c] = <<r>>]
    BY <1>1, <2>1 DEF IInv, TypeOK
  <2> QED BY <1>1, <2>3, <2>5, <2>6 DEF Promise!Answer
<1>3. CASE ~FindsCallback(method, args)
  <2>1. /\ answers' = answers
        /\ thrown' = IF method = "queryUpdateWithCurrentPackage"
                     THEN thrown \cup {c} ELSE thrown
    BY <1>3 DEF Respond
  <2>2. method = "queryUpdateWithCurrentPackage" => ~LastIsCallback(args)
    BY <1>1, <1>3, Shape, ArgumentAssumption
    DEF FindsCallback, LastIsCallback, Param
  <2>3. E' = E
    BY <1>1, <2>1, <2>2 DEF Expecting
  <2> QED BY <2>1, <2>3 DEF Promise!vars
<1> QED BY <1>2, <1>3

\* Every step of the SDK is a step of AsyncCall or leaves it alone: a call
\* whose callback will be found is answered at most once, in any order.
THEOREM AnsweredAtMostOnce == Spec => Promise!Safe
<1>1. Init => Promise!Init
  BY CallAssumption DEF Init, Promise!Init, Expecting
<1>2. IInv /\ [Next]_vars => [Promise!Next]_(Promise!vars)
  <2>1. UNCHANGED vars => UNCHANGED Promise!vars
    BY DEF vars, Promise!vars, Expecting
  <2>2. ASSUME IInv, NEW c \in Call, Invoke(c) \/ Respond(c)
        PROVE  [Promise!Next]_(Promise!vars)
    BY <2>2, InvokeIsBegin, RespondIsAnswer DEF Promise!Next
  <2> QED BY <2>1, <2>2 DEF Next
<1> QED BY <1>1, <1>2, Invariant, PTL DEF Spec, Promise!Safe
=============================================================================
