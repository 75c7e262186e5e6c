------------------------ MODULE AccountOutcomesProofs ------------------------
(* More theorems about AccountCommands, about what an invocation says when   *)
(* it ends: a warning of promote hides no change, and a list of deployments  *)
(* has all its metrics.  With them, that the invocations make their changes  *)
(* as ChangeChain says.                                                      *)
EXTENDS AccountCommandsProofs

Is(p, name) == cmd[p] \in Command /\ cmd[p].name = name

\* An invocation that makes a single call: it is on its way, or its answer is.
Single(p, call) ==
    /\ Len(plan[p]) = 1 /\ plan[p][1] = {call}
    /\ sent[p] \subseteq {call}
    /\ \A a \in answers[p] : a.call = call /\ sent[p] = {} /\ answers[p] = {a}

\* A promotion is one call, and when the server answers "conflict" it has done
\* nothing for the invocation, nor is anything left that it might do.
WarnInv(p) ==
    /\ Is(p, "promote") =>
          /\ Single(p, Moved("promote", cmd[p]))
          /\ \A a \in answers[p] : a.status = "conflict" => done[p] = <<>>
    /\ outcome[p] = "warned" => Is(p, "promote") /\ sent[p] = {} /\ done[p] = <<>>

\* A list is one call, then one for each deployment listed; until all have been
\* answered, what is missing of the metrics is on its way.
Listing(p) ==
    /\ stage[p] \in {1, 2}
    /\ stage[p] = 1 =>
          Single(p, Call("list", App)) /\ listed[p] = {} /\ metrics[p] = {}
    /\ stage[p] = 2 =>
          /\ Len(plan[p]) = 2
          /\ plan[p][2] = {Call("metrics", d) : d \in listed[p]}
          /\ metrics[p] \subseteq listed[p]
          /\ \A d \in listed[p] \ metrics[p] :
                \/ Call("metrics", d) \in sent[p]
                \/ \E a \in answers[p] : a.call = Call("metrics", d)

ListInv(p) ==
    /\ pc[p] \in {"idle", "confirm"} => listed[p] = {} /\ metrics[p] = {}
    /\ pc[p] = "confirm" => cmd[p].name \in Confirmed
    /\ Is(p, "deploymentList") /\ pc[p] = "calling" => Listing(p)
    /\ Is(p, "deploymentList") /\ outcome[p] = "success" => metrics[p] = listed[p]

OutcomeInv == IInv /\ \A p \in Proc : WarnInv(p) /\ ListInv(p)

-----------------------------------------------------------------------------
LEMMA PromotePlan ==
    ASSUME NEW c \in Command, c.name = "promote"
    PROVE  Len(Plan(c)) = 1 /\ Plan(c)[1] = {Moved("promote", c)}
<1>1. Changes(c) = <<Moved("promote", c)>> /\ Queries(c) = {}
  BY DEF Changes, Queries
<1>2. DOMAIN <<Moved("promote", c)>> = 1..1
  OBVIOUS
<1>3. Plan(c) = [i \in 1..1 |-> {<<Moved("promote", c)>>[i]}]
  BY <1>1, <1>2 DEF Plan
<1> QED BY <1>3

LEMMA ListPlan ==
    ASSUME NEW c \in Command, c.name = "deploymentList"
    PROVE  Len(Plan(c)) = 1 /\ Plan(c)[1] = {Call("list", App)}
<1>1. Changes(c) = <<>> /\ Queries(c) = {Call("list", App)}
  BY DEF Changes, Queries
<1>2. [i \in DOMAIN Changes(c) |-> {Changes(c)[i]}] = <<>>
  BY <1>1
<1>3. Plan(c) = Append(<<>>, {Call("list", App)})
  BY <1>1, <1>2 DEF Plan
<1> QED BY <1>3

\* What the two parts are about does not change.
LEMMA SameOutcome ==
    ASSUME NEW p \in Proc, WarnInv(p), ListInv(p), Same(p),
           listed'[p] = listed[p], metrics'[p] = metrics[p]
    PROVE  WarnInv(p)' /\ ListInv(p)'
BY DEF Same, WarnInv, ListInv, Is, Single, Listing

LEMMA OthersLists ==
    ASSUME Types, TypeOK, NEW p \in Proc, NEW q \in Proc, q # p, ProcNext(p)
    PROVE  listed'[q] = listed[q] /\ metrics'[q] = metrics[q]
<1>1. \/ UNCHANGED <<listed, metrics>>
      \/ \E a \in answers[p] : Resolved(p, a)
  BY DEF ProcNext, Start, Confirm, Answered, Rejected, Kill, Serve, Lose
<1>2. ASSUME NEW a \in answers[p], Resolved(p, a)
      PROVE  listed'[q] = listed[q] /\ metrics'[q] = metrics[q]
  BY <1>2 DEF Resolved, TypeOK
<1> QED BY <1>1, <1>2

-----------------------------------------------------------------------------
(* The steps of the invocation itself                                      *)

LEMMA StartOutcome ==
    ASSUME OutcomeInv, IInv', NEW p \in Proc, Start(p)
    PROVE  WarnInv(p)' /\ ListInv(p)'
<1>1. PICK c \in Command :
          /\ cmd' = [cmd EXCEPT ![p] = c]
          /\ plan' = [plan EXCEPT ![p] = Plan(c)]
          /\ \/ /\ c.name \in Confirmed
                /\ pc' = [pc EXCEPT ![p] = "confirm"]
                /\ UNCHANGED <<stage, sent, outcome>>
             \/ /\ pc' = [pc EXCEPT ![p] = "calling"]
                /\ SendStage(p, Plan(c), 1)
                /\ UNCHANGED outcome
             \/ /\ Exit(p, "refused")
                /\ UNCHANGED <<stage, sent>>
  BY DEF Start
<1>2. /\ Types /\ Fresh(p) /\ outcome[p] = "none" /\ pc[p] = "idle"
      /\ listed[p] = {} /\ metrics[p] = {}
  BY TypesFromTypeOK DEF OutcomeInv, IInv, Start, ProcInv, ListInv
<1>3. UNCHANGED <<done, answers, listed, metrics>>
  BY DEF Start, serverVars
<1>4. plan'[p] = Plan(c) /\ cmd'[p] = c
  BY <1>1, <1>2 DEF Types
<1>5. \/ /\ sent'[p] = {} /\ pc'[p] \in {"confirm", "exited"}
         /\ pc'[p] = "confirm" => c.name \in Confirmed
         /\ outcome'[p] \in {"none", "refused"}
      \/ /\ sent'[p] = Plan(c)[1] /\ stage'[p] = 1 /\ pc'[p] = "calling"
         /\ outcome'[p] = "none"
  BY <1>1, <1>2 DEF Types, SendStage, Exit, Fresh
<1>6. answers'[p] = {} /\ listed'[p] = {} /\ metrics'[p] = {}
  BY <1>2, <1>3 DEF Fresh
<1>7. WarnInv(p)'
  BY <1>4, <1>5, <1>6, PromotePlan DEF WarnInv, Is, Single
<1>8. ListInv(p)'
  BY <1>4, <1>5, <1>6, ListPlan DEF ListInv, Listing, Is, Single
<1> QED BY <1>7, <1>8

LEMMA ConfirmOutcome ==
    ASSUME OutcomeInv, NEW p \in Proc, Confirm(p)
    PROVE  WarnInv(p)' /\ ListInv(p)'
<1>1. /\ Types /\ pc[p] = "confirm" /\ cmd[p].name \in Confirmed
      /\ listed[p] = {} /\ metrics[p] = {} /\ outcome[p] = "none"
  BY TypesFromTypeOK DEF OutcomeInv, IInv, Confirm, ProcInv, ListInv
<1>2. cmd'[p] = cmd[p] /\ UNCHANGED <<listed, metrics>>
  BY DEF Confirm
<1>3. ~Is(p, "promote")' /\ ~Is(p, "deploymentList")'
  BY <1>1, <1>2 DEF Is, Confirmed
<1>4. pc'[p] \in {"calling", "exited"} /\ outcome'[p] \in {"none", "cancelled", "aborted"}
  BY <1>1 DEF Confirm, Exit, Types
<1> QED BY <1>3, <1>4 DEF WarnInv, ListInv

\* A process that ends for another reason than a warning or a success.
LEMMA EndOutcome ==
    ASSUME Types, NEW p \in Proc, WarnInv(p), NEW how \in {"failed", "killed"}, Exit(p, how),
           UNCHANGED <<cmd, plan, sent, done>>,
           answers'[p] \subseteq answers[p]
    PROVE  WarnInv(p)' /\ ListInv(p)'
<1>1. pc'[p] = "exited" /\ outcome'[p] = how
  BY DEF Exit, Types
<1>2. WarnInv(p)'
  BY <1>1 DEF WarnInv, Is, Single
<1>3. ListInv(p)'
  BY <1>1 DEF ListInv
<1> QED BY <1>2, <1>3

LEMMA RejectedOutcome ==
    ASSUME OutcomeInv, NEW p \in Proc, Answered(p), NEW a \in answers[p], Rejected(p, a)
    PROVE  WarnInv(p)' /\ ListInv(p)'
<1>1. Types /\ WarnInv(p) /\ pc[p] = "calling" /\ ProcInv(p)
  BY TypesFromTypeOK DEF OutcomeInv, IInv, Answered
<1>2. /\ UNCHANGED <<cmd, plan, sent, done>>
      /\ answers'[p] = answers[p] \ {a}
  BY <1>1 DEF Answered, Rejected, serverVars, Types
<1>3. CASE Exit(p, "failed")
  BY <1>1, <1>2, <1>3, EndOutcome
<1>4. CASE cmd[p].name = "promote" /\ a.status = "conflict" /\ Exit(p, "warned")
  <2>1. Is(p, "promote")
    BY <1>1, <1>4 DEF ProcInv, Asked, Is
  <2>2. sent[p] = {} /\ done[p] = <<>>
    BY <1>1, <1>4, <2>1 DEF WarnInv, Single
  <2>3. pc'[p] = "exited" /\ outcome'[p] = "warned"
    BY <1>1, <1>4 DEF Exit, Types
  <2>4. WarnInv(p)'
    BY <1>1, <1>2, <2>1, <2>2 DEF WarnInv, Is, Single
  <2>5. ListInv(p)'
    BY <2>3 DEF ListInv
  <2> QED BY <2>4, <2>5
<1> QED BY <1>3, <1>4 DEF Rejected

\* A call of a single one has been answered: the answer is the only one, and no
\* call is on its way.
LEMMA SingleAnswered ==
    ASSUME NEW p \in Proc, NEW call, Single(p, call), NEW a \in answers[p]
    PROVE  StageDone(p, a) /\ a.call = call /\ sent[p] = {}
BY DEF Single, StageDone

LEMMA ResolvedWarns ==
    ASSUME OutcomeInv, NEW p \in Proc, Answered(p), NEW a \in answers[p], Resolved(p, a)
    PROVE  WarnInv(p)'
<1>1. Types /\ WarnInv(p) /\ pc[p] = "calling" /\ ProcInv(p) /\ outcome[p] = "none"
  BY TypesFromTypeOK DEF OutcomeInv, IInv, Answered, ProcInv
<1>2. outcome'[p] # "warned"
  BY <1>1 DEF Resolved, Exit, Types
<1>3. UNCHANGED <<cmd, done>> /\ answers'[p] = answers[p] \ {a}
  BY <1>1 DEF Answered, Resolved, serverVars, Types
<1>4. CASE Is(p, "promote")
  <2>1. Single(p, Moved("promote", cmd[p]))
    BY <1>1, <1>4 DEF WarnInv
  <2>2. NextStages(p, a) = plan[p] /\ plan'[p] = plan[p]
    BY <1>1, <1>4 DEF NextStages, Is, Resolved, Types
  <2>3. answers'[p] = {}
    BY <1>3, <2>1 DEF Single
  <2>4. stage[p] # 0 /\ stage[p] \in Nat
    BY <1>1 DEF ProcInv, Flight, Types
  <2>5. ~(stage[p] < Len(NextStages(p, a)))
    <3>1. Len(NextStages(p, a)) = 1
      BY <2>1, <2>2 DEF Single
    <3> QED BY <2>4, <3>1
  <2>6. UNCHANGED sent
    BY <2>5 DEF Resolved
  <2> QED BY <1>2, <1>3, <2>1, <2>2, <2>3, <2>6 DEF WarnInv, Is, Single
<1>5. CASE ~Is(p, "promote")
  BY <1>2, <1>3, <1>5 DEF WarnInv, Is
<1> QED BY <1>4, <1>5

LEMMA ResolvedLists ==
    ASSUME OutcomeInv, NEW p \in Proc, Answered(p), NEW a \in answers[p], Resolved(p, a)
    PROVE  ListInv(p)'
<1>1. Types /\ ListInv(p) /\ pc[p] = "calling" /\ ProcInv(p) /\ outcome[p] = "none" /\ TypeOK
  BY TypesFromTypeOK DEF OutcomeInv, IInv, Answered, ProcInv
<1>2. /\ cmd' = cmd /\ answers'[p] = answers[p] \ {a}
      /\ plan'[p] = NextStages(p, a)
      /\ listed'[p] = IF a.call.op = "list" THEN a.having ELSE listed[p]
      /\ metrics'[p] = IF a.call.op = "metrics" THEN metrics[p] \cup {a.call.target}
                                                 ELSE metrics[p]
  BY <1>1 DEF Answered, Resolved, Types, TypeOK
<1>3. pc'[p] \in {"calling", "exited"}
  BY <1>1 DEF Resolved, Exit, Types
<1>4. CASE ~Is(p, "deploymentList")
  BY <1>2, <1>3, <1>4 DEF ListInv, Is
<1>5. CASE Is(p, "deploymentList") /\ stage[p] = 1
  <2>1. Single(p, Call("list", App)) /\ metrics[p] = {}
    BY <1>1, <1>5 DEF ListInv, Listing
  <2>2. StageDone(p, a) /\ a.call = Call("list", App) /\ answers'[p] = {}
    BY <1>2, <2>1, SingleAnswered DEF StageDone
  <2>3. listed'[p] = a.having /\ metrics'[p] = {}
    BY <1>2, <2>1, <2>2 DEF Call
  <2>4. CASE a.having = {}
    <3>1. NextStages(p, a) = plan[p] /\ Len(plan[p]) = 1
      BY <2>1, <2>4 DEF NextStages, Single
    <3>2. Exit(p, "success")
      BY <1>5, <2>2, <3>1 DEF Resolved
    <3>3. pc'[p] = "exited"
      BY <1>1, <3>2 DEF Exit, Types
    <3> QED BY <2>3, <2>4, <3>3 DEF ListInv
  <2>5. CASE a.having # {}
    <3> DEFINE asked == {Call("metrics", d) : d \in a.having}
    <3>1. NextStages(p, a) = Append(plan[p], asked)
      BY <1>5, <2>2, <2>5 DEF NextStages, Is, Call
    <3>2. plan[p] \in Seq(SUBSET CallSet) /\ Len(plan[p]) = 1
      BY <1>1, <2>1 DEF Types, Single
    <3>3. NextStages(p, a) \in Seq(SUBSET CallSet)
      BY <1>1, NextStagesShaped DEF Types
    <3>4. Len(NextStages(p, a)) = 2 /\ NextStages(p, a)[2] = asked
      BY <3>1, <3>2
    <3>5. SendStage(p, NextStages(p, a), 2) /\ UNCHANGED <<pc, outcome>>
      BY <1>5, <2>2, <3>4 DEF Resolved
    <3>6. stage'[p] = 2 /\ sent'[p] = asked
      BY <1>1, <3>4, <3>5 DEF SendStage, Types
    <3>7. Listing(p)'
      BY <1>2, <2>3, <3>4, <3>6 DEF Listing
    <3> QED BY <1>1, <3>5, <3>7 DEF ListInv
  <2> QED BY <2>4, <2>5
<1>6. CASE Is(p, "deploymentList") /\ stage[p] = 2
  <2>1. /\ Len(plan[p]) = 2
        /\ plan[p][2] = {Call("metrics", d) : d \in listed[p]}
        /\ metrics[p] \subseteq listed[p]
        /\ \A d \in listed[p] \ metrics[p] :
              \/ Call("metrics", d) \in sent[p]
              \/ \E b \in answers[p] : b.call = Call("metrics", d)
    BY <1>1, <1>6 DEF ListInv, Listing
  <2>2. PICK e \in listed[p] : a.call = Call("metrics", e)
    BY <1>1, <1>6, <2>1 DEF ProcInv, Flight
  <2>3. a.call.op = "metrics" /\ a.call.target = e
    BY <2>2 DEF Call
  <2>4. NextStages(p, a) = plan[p]
    BY <2>3 DEF NextStages
  <2>5. listed'[p] = listed[p] /\ metrics'[p] = metrics[p] \cup {e}
    BY <1>2, <2>3
  <2>6. CASE ~StageDone(p, a)
    <3>1. UNCHANGED <<pc, outcome, stage, sent>>
      BY <2>6 DEF Resolved
    <3>2. \A d \in listed[p] \ (metrics[p] \cup {e}) :
              \/ Call("metrics", d) \in sent[p]
              \/ \E b \in answers'[p] : b.call = Call("metrics", d)
      <4> SUFFICES ASSUME NEW d \in listed[p] \ (metrics[p] \cup {e}),
                          Call("metrics", d) \notin sent[p]
                   PROVE  \E b \in answers'[p] : b.call = Call("metrics", d)
        OBVIOUS
      <4>1. PICK b \in answers[p] : b.call = Call("metrics", d)
        BY <2>1
      <4>2. b.call.target = d
        BY <4>1 DEF Call
      <4>3. b # a
        BY <2>3, <4>2
      <4> QED BY <1>2, <4>1, <4>3
    <3>3. Listing(p)'
      BY <1>2, <1>6, <2>1, <2>4, <2>5, <3>1, <3>2 DEF Listing
    <3> QED BY <1>1, <3>1, <3>3 DEF ListInv
  <2>7. CASE StageDone(p, a)
    <3>1. Exit(p, "success")
      <4>1. Len(NextStages(p, a)) = 2
        BY <2>1, <2>4
      <4>2. ~(stage[p] < Len(NextStages(p, a)))
        BY <1>6, <4>1
      <4> QED BY <2>7, <4>2 DEF Resolved
    <3>2. \A d \in listed[p] \ metrics[p] : d = e
      <4> SUFFICES ASSUME NEW d \in listed[p] \ metrics[p] PROVE d = e
        OBVIOUS
      <4>1. Call("metrics", d) = a.call
        BY <2>1, <2>7 DEF StageDone
      <4> QED BY <2>3, <4>1 DEF Call
    <3>3. metrics'[p] = listed'[p]
      BY <2>1, <2>2, <2>5, <3>2
    <3>4. pc'[p] = "exited"
      BY <1>1, <3>1 DEF Exit, Types
    <3> QED BY <3>3, <3>4 DEF ListInv
  <2> QED BY <2>6, <2>7
<1> QED BY <1>1, <1>4, <1>5, <1>6 DEF ListInv, Listing

\* A call that leaves for its answer, with what it changes of done.
LEMMA CallOutcome ==
    ASSUME Types, NEW p \in Proc, WarnInv(p), ListInv(p),
           NEW call \in sent[p], NEW answer, answer.call = call,
           sent' = [sent EXCEPT ![p] = @ \ {call}],
           answers' = [answers EXCEPT ![p] = @ \cup {answer}],
           UNCHANGED <<cmd, pc, plan, stage, listed, metrics, outcome>>,
           Is(p, "promote") /\ answer.status = "conflict" => done'[p] = <<>>
    PROVE  WarnInv(p)' /\ ListInv(p)'
<1>1. sent'[p] = sent[p] \ {call} /\ answers'[p] = answers[p] \cup {answer}
  BY DEF Types
<1>2. ASSUME NEW only, Single(p, only)
      PROVE  /\ answers[p] = {} /\ answers'[p] = {answer} /\ call = only
             /\ sent'[p] = {}
             /\ Single(p, only)'
  <2>1. answers[p] = {} /\ call = only
    BY <1>2 DEF Single
  <2>2. answers'[p] = {answer} /\ sent'[p] = {}
    BY <1>1, <1>2, <2>1 DEF Single
  <2> QED BY <1>2, <2>1, <2>2 DEF Single
<1>3. WarnInv(p)'
  <2>1. outcome[p] # "warned"
    BY DEF WarnInv
  <2>2. CASE Is(p, "promote")
    <3>1. Single(p, Moved("promote", cmd[p]))'
      BY <1>2, <2>2 DEF WarnInv, Single
    <3>2. answers'[p] = {answer}
      BY <1>2, <2>2 DEF WarnInv
    <3> QED BY <2>1, <2>2, <3>1, <3>2 DEF WarnInv
  <2>3. CASE ~Is(p, "promote")
    BY <2>1, <2>3 DEF WarnInv, Is
  <2> QED BY <2>2, <2>3
<1>4. ListInv(p)'
  <2>1. CASE Is(p, "deploymentList") /\ pc[p] = "calling"
    <3>1. Listing(p)
      BY <2>1 DEF ListInv
    <3>2. CASE stage[p] = 1
      <4>1. Single(p, Call("list", App))'
        BY <1>2, <3>1, <3>2 DEF Listing
      <4>2. Listing(p)'
        BY <3>1, <3>2, <4>1 DEF Listing
      <4> QED BY <2>1, <4>2 DEF ListInv, Is
    <3>3. CASE stage[p] = 2
      <4>1. \A d \in listed[p] \ metrics[p] :
                \/ Call("metrics", d) \in sent'[p]
                \/ \E a \in answers'[p] : a.call = Call("metrics", d)
        BY <1>1, <3>1, <3>3 DEF Listing
      <4>2. Listing(p)'
        BY <3>1, <3>3, <4>1 DEF Listing
      <4> QED BY <2>1, <4>2 DEF ListInv, Is
    <3> QED BY <3>1, <3>2, <3>3 DEF Listing
  <2>2. CASE ~(Is(p, "deploymentList") /\ pc[p] = "calling")
    BY <2>2 DEF ListInv, Is
  <2> QED BY <2>1, <2>2
<1> QED BY <1>3, <1>4

LEMMA ServeOutcome ==
    ASSUME OutcomeInv, NEW p \in Proc, NEW call \in sent[p], Serve(p, call)
    PROVE  WarnInv(p)' /\ ListInv(p)'
<1>1. Types /\ WarnInv(p) /\ ListInv(p) /\ ProcInv(p)
  BY TypesFromTypeOK DEF OutcomeInv, IInv
<1>2. PICK got \in {Verdict(call), "timeout"}, json \in BOOLEAN :
          answers' = [answers EXCEPT ![p] = @ \cup
              {[call |-> call, status |-> got, json |-> json,
                having |-> {d \in Deployment : There(d) /\ releases[d] # <<>>}]}]
  BY DEF Serve
<1> DEFINE answer == [call |-> call, status |-> got, json |-> json,
                      having |-> {d \in Deployment : There(d) /\ releases[d] # <<>>}]
<1>3. ASSUME Is(p, "promote"), got = "conflict" PROVE done'[p] = <<>>
  <2>1. Verdict(call) = "conflict"
    BY <1>3
  <2>2. done' = done
    BY <2>1 DEF Serve
  <2>3. call = Moved("promote", cmd[p]) /\ Len(plan[p]) = 1
    BY <1>1, <1>3 DEF WarnInv, Single
  <2>4. call \in Mutation
    BY <1>1, <2>3 DEF Types, Mutation, Moved, Reads
  <2>5. Len(done[p]) < stage[p] /\ stage[p] \in 0..1
    BY <1>1, <2>3, <2>4 DEF ProcInv, Carried, Flight
  <2>6. done[p] \in Seq(CallSet)
    BY <1>1 DEF Types
  <2>7. Len(done[p]) = 0
    BY <2>5, <2>6, LenProperties
  <2> QED BY <2>2, <2>6, <2>7, EmptySeq
<1>4. /\ sent' = [sent EXCEPT ![p] = @ \ {call}]
      /\ UNCHANGED <<cmd, pc, plan, stage, listed, metrics, outcome>>
  BY DEF Serve
<1>5. answer.call = call /\ answer.status = got
  OBVIOUS
<1> HIDE DEF answer
<1>6. answers' = [answers EXCEPT ![p] = @ \cup {answer}]
  BY <1>2 DEF answer
<1> QED BY <1>1, <1>3, <1>4, <1>5, <1>6, CallOutcome

LEMMA LoseOutcome ==
    ASSUME OutcomeInv, NEW p \in Proc, NEW call \in sent[p], Lose(p, call)
    PROVE  WarnInv(p)' /\ ListInv(p)'
<1>1. Types /\ WarnInv(p) /\ ListInv(p)
  BY TypesFromTypeOK DEF OutcomeInv, IInv
<1> DEFINE answer == [call |-> call, status |-> "timeout", json |-> FALSE, having |-> {}]
<1>2. answer.call = call /\ answer.status # "conflict"
  OBVIOUS
<1>3. answers' = [answers EXCEPT ![p] = @ \cup {answer}]
  BY DEF Lose
<1>4. /\ sent' = [sent EXCEPT ![p] = @ \ {call}]
      /\ UNCHANGED <<cmd, pc, plan, stage, listed, metrics, outcome>>
  BY DEF Lose
<1> HIDE DEF answer
<1> QED BY <1>1, <1>2, <1>3, <1>4, CallOutcome

LEMMA KillOutcome ==
    ASSUME OutcomeInv, NEW p \in Proc, Kill(p)
    PROVE  WarnInv(p)' /\ ListInv(p)'
<1>1. Types /\ WarnInv(p)
  BY TypesFromTypeOK DEF OutcomeInv, IInv
<1>2. Exit(p, "killed") /\ UNCHANGED <<cmd, plan, sent, done, answers>>
  BY DEF Kill, serverVars
<1> QED BY <1>1, <1>2, EndOutcome

-----------------------------------------------------------------------------
(* The theorems                                                            *)

LEMMA OutcomeInitially == Init => OutcomeInv
<1> SUFFICES ASSUME Init PROVE OutcomeInv
  OBVIOUS
<1>1. ASSUME NEW p \in Proc PROVE WarnInv(p) /\ ListInv(p)
  <2>1. /\ cmd[p] = NoCommand /\ pc[p] = "idle" /\ outcome[p] = "none"
        /\ listed[p] = {} /\ metrics[p] = {}
    BY DEF Init
  <2> QED BY <2>1, AccountAssumption DEF WarnInv, ListInv, Is
<1> QED BY <1>1, Initially DEF OutcomeInv

LEMMA OutcomeInductive == OutcomeInv /\ [Next]_vars => OutcomeInv'
<1> SUFFICES ASSUME OutcomeInv, [Next]_vars PROVE OutcomeInv'
  OBVIOUS
<1>1. IInv /\ IInv' /\ Types /\ TypeOK /\ \A p \in Proc : WarnInv(p) /\ ListInv(p)
  BY Inductive, TypesFromTypeOK DEF OutcomeInv, IInv
<1>2. ASSUME NEW p \in Proc, ProcNext(p) PROVE OutcomeInv'
  <2>1. WarnInv(p)' /\ ListInv(p)'
    BY <1>1, <1>2, StartOutcome, ConfirmOutcome, RejectedOutcome, ResolvedWarns,
       ResolvedLists, ServeOutcome, LoseOutcome, KillOutcome DEF ProcNext, Answered
  <2>2. \A q \in Proc : q # p => WarnInv(q)' /\ ListInv(q)'
    BY <1>1, <1>2, OthersSame, OthersLists, SameOutcome
  <2> QED BY <1>1, <2>1, <2>2 DEF OutcomeInv
<1>3. CASE UNCHANGED vars
  <2>1. \A p \in Proc : Same(p) /\ listed'[p] = listed[p] /\ metrics'[p] = metrics[p]
    BY <1>3 DEF vars, serverVars, Same
  <2> QED BY <1>1, <2>1, SameOutcome DEF OutcomeInv
<1> QED BY <1>2, <1>3 DEF Next, ProcNext

LEMMA OutcomeInvariance == Spec => []OutcomeInv
BY OutcomeInitially, OutcomeInductive, PTL DEF Spec

\* A promotion that ends with a warning has changed nothing, however its call
\* and those of others are lost, answered late or interleaved.
THEOREM WarningIsTrue == Spec => []WarnedChangedNothing
<1>1. OutcomeInv => WarnedChangedNothing
  BY DEF OutcomeInv, WarnInv, WarnedChangedNothing
<1> QED BY <1>1, OutcomeInvariance, PTL

\* A list of deployments that is printed has the metrics of all it lists with a
\* release, in whatever order they arrive.
THEOREM ListIsComplete == Spec => []ListsAreComplete
<1>1. ASSUME OutcomeInv PROVE ListsAreComplete
  <2> SUFFICES ASSUME NEW p \in Proc, outcome[p] = "success",
                      cmd[p].name = "deploymentList"
               PROVE  metrics[p] = listed[p]
    BY DEF ListsAreComplete
  <2>1. pc[p] # "idle"
    BY <1>1 DEF OutcomeInv, IInv, ProcInv
  <2>2. cmd[p] \in Command
    BY <1>1, <2>1 DEF OutcomeInv, IInv, ProcInv, Asked
  <2> QED BY <1>1, <2>2 DEF OutcomeInv, ListInv, Is
<1> QED BY <1>1, OutcomeInvariance, PTL

-----------------------------------------------------------------------------
(* AccountCommands implements ChangeChain.                                 *)

\* The plan of an invocation begins with the changes of its command, and makes
\* no other; no more than these were carried out.
PlanInv(p) ==
    /\ pc[p] = "idle" => cmd[p] = NoCommand
    /\ cmd[p] \in Command =>
          LET n == Len(Changes(cmd[p])) IN
          /\ n <= Len(plan[p]) /\ Len(done[p]) <= n
          /\ \A i \in 1..n : plan[p][i] = {Changes(cmd[p])[i]}
          /\ \A i \in DOMAIN plan[p] : i > n => plan[p][i] \subseteq Query

ChainInv == OutcomeInv /\ \A p \in Proc : PlanInv(p)

LEMMA ChangesLen ==
    ASSUME NEW c \in Command
    PROVE  /\ Len(Changes(c)) \in Nat
           /\ DOMAIN Changes(c) = 1..Len(Changes(c))
           /\ \A i \in 1..Len(Changes(c)) : Changes(c)[i] \in Mutation
BY ChangesTyped, LenProperties, ElementOfSeq

LEMMA PlanBegins ==
    ASSUME NEW c \in Command
    PROVE  LET n == Len(Changes(c)) IN
           /\ n <= Len(Plan(c))
           /\ \A i \in 1..n : Plan(c)[i] = {Changes(c)[i]}
           /\ \A i \in DOMAIN Plan(c) : i > n => Plan(c)[i] \subseteq Query
<1> DEFINE n == Len(Changes(c))
           changes == [i \in DOMAIN Changes(c) |-> {Changes(c)[i]}]
<1>1. n \in Nat /\ changes = [i \in 1..n |-> {Changes(c)[i]}]
  BY ChangesLen
<1>2. changes \in Seq(SUBSET CallSet) /\ Len(changes) = n /\ DOMAIN changes = 1..n
  <2>1. changes \in [1..n -> SUBSET CallSet]
    BY <1>1, ChangesLen DEF Mutation
  <2> QED BY <1>1, <2>1, SeqDef
<1>3. \A i \in 1..n : changes[i] = {Changes(c)[i]}
  BY <1>1
<1>4. CASE Queries(c) = {}
  BY <1>1, <1>2, <1>3, <1>4 DEF Plan
<1>5. CASE Queries(c) # {}
  <2>1. Plan(c) = Append(changes, Queries(c)) /\ Queries(c) \subseteq Query
    BY <1>5, QueriesTyped DEF Plan
  <2> HIDE DEF changes, n
  <2>2. Queries(c) \in SUBSET CallSet
    BY <2>1 DEF Query
  <2>3. /\ DOMAIN Plan(c) = 1..(n + 1) /\ Len(Plan(c)) = n + 1
        /\ \A i \in 1..n : Plan(c)[i] = changes[i]
        /\ Plan(c)[n + 1] = Queries(c)
    BY <1>1, <1>2, <2>1, <2>2
  <2>4. \A i \in DOMAIN Plan(c) : i > n => Plan(c)[i] \subseteq Query
    BY <1>1, <2>1, <2>3
  <2> QED BY <1>1, <1>3, <2>3, <2>4 DEF n
<1> QED BY <1>4, <1>5

\* A call that is carried out is the next change of the command, and the only
\* call in flight.
LEMMA CarriedIsNext ==
    ASSUME Types, NEW p \in Proc, ProcInv(p), PlanInv(p),
           NEW call \in sent[p], call.op \notin Reads
    PROVE  /\ cmd[p] \in Command /\ pc[p] # "idle"
           /\ Len(done[p]) + 1 \in 1..Len(Changes(cmd[p]))
           /\ call = Changes(cmd[p])[Len(done[p]) + 1]
           /\ sent[p] = {call}
           /\ cmd[p].name \in Confirmed => p \in confirmed
<1>1. /\ stage[p] # 0 /\ stage[p] \in Nat /\ pc[p] \notin {"idle", "confirm"}
      /\ call \in CallSet /\ call \in Mutation /\ call \in plan[p][stage[p]]
      /\ Len(done[p]) \in Nat /\ DOMAIN done[p] = 1..Len(done[p])
  BY LenProperties DEF ProcInv, Flight, Fresh, Types, Mutation
<1>2. cmd[p] \in Command /\ (cmd[p].name \in Confirmed => p \in confirmed)
  BY <1>1 DEF ProcInv, Asked
<1>3. /\ stage[p] \in DOMAIN plan[p] /\ plan[p][stage[p]] = {call}
      /\ 1..(stage[p] - 1) \subseteq DOMAIN done[p]
  BY <1>1, SingleMutation
<1>4. Len(done[p]) = stage[p] - 1
  <2>1. Len(done[p]) < stage[p]
    BY <1>1 DEF ProcInv, Carried
  <2>2. stage[p] > 1 => stage[p] - 1 \in DOMAIN done[p]
    BY <1>1, <1>3
  <2> QED BY <1>1, <2>1, <2>2
<1>5. sent[p] = {call}
  BY <1>3 DEF ProcInv, Flight
<1> DEFINE n == Len(Changes(cmd[p]))
<1>6. n \in Nat
  BY <1>2, ChangesLen
<1>7. stage[p] \in 1..n
  <2>1. ~(stage[p] > n)
    BY <1>1, <1>2, <1>3 DEF PlanInv, Query, Mutation
  <2> QED BY <1>1, <1>6, <2>1
<1>8. call = Changes(cmd[p])[stage[p]]
  BY <1>2, <1>3, <1>7 DEF PlanInv
<1> QED BY <1>1, <1>2, <1>4, <1>5, <1>7, <1>8

\* What a served call does to the list of those carried out.
LEMMA ServedMade ==
    ASSUME Types, NEW p \in Proc, NEW call \in sent[p], Serve(p, call)
    PROVE  /\ sent' = [sent EXCEPT ![p] = @ \ {call}]
           /\ UNCHANGED <<cmd, pc, plan, stage, confirmed, outcome>>
           /\ \/ UNCHANGED done
              \/ /\ call.op \notin Reads
                 /\ done' = [done EXCEPT ![p] = Append(@, call)]
BY DEF Serve

LEMMA PlanKept ==
    ASSUME ChainInv, NEW p \in Proc, ProcNext(p)
    PROVE  PlanInv(p)'
<1>1. Types /\ ProcInv(p) /\ PlanInv(p) /\ ListInv(p)
  BY TypesFromTypeOK DEF ChainInv, OutcomeInv, IInv
<1>2. CASE Start(p)
  <2>1. PICK c \in Command : cmd' = [cmd EXCEPT ![p] = c] /\ plan' = [plan EXCEPT ![p] = Plan(c)]
    BY <1>2 DEF Start
  <2>2. cmd'[p] = c /\ plan'[p] = Plan(c) /\ pc'[p] # "idle"
    BY <1>1, <1>2, <2>1 DEF Types, Start, Exit
  <2>3. done'[p] = <<>> /\ Len(done'[p]) = 0
    BY <1>1, <1>2 DEF Start, serverVars, ProcInv, Fresh
  <2>4. Len(Changes(c)) \in Nat
    BY ChangesLen
  <2> QED BY <2>2, <2>3, <2>4, PlanBegins DEF PlanInv
<1>3. ASSUME cmd'[p] = cmd[p], plan'[p] = plan[p], done'[p] = done[p], pc'[p] # "idle"
      PROVE  PlanInv(p)'
  BY <1>1, <1>3 DEF PlanInv
<1>4. CASE Confirm(p) \/ Kill(p)
  BY <1>1, <1>3, <1>4 DEF Confirm, Kill, Exit, Types, serverVars
<1>5. ASSUME Answered(p), NEW a \in answers[p], Rejected(p, a) PROVE PlanInv(p)'
  BY <1>1, <1>3, <1>5 DEF Answered, Rejected, Exit, Types, serverVars
<1>6. ASSUME Answered(p), NEW a \in answers[p], Resolved(p, a) PROVE PlanInv(p)'
  <2>1. /\ cmd'[p] = cmd[p] /\ done'[p] = done[p] /\ plan'[p] = NextStages(p, a)
        /\ pc'[p] # "idle" /\ pc[p] = "calling" /\ cmd[p] \in Command
    BY <1>1, <1>6 DEF Answered, Resolved, Exit, Types, serverVars, ProcInv, Asked
  <2>2. CASE NextStages(p, a) = plan[p]
    BY <1>3, <2>1, <2>2
  <2>3. CASE NextStages(p, a) # plan[p]
    <3> DEFINE queries == {Call("metrics", d) : d \in a.having}
    <3>1. NextStages(p, a) = Append(plan[p], queries)
      BY <2>3 DEF NextStages
    <3>2. a.having \subseteq Deployment
      BY <1>1 DEF Types, Answer
    <3>3. queries \subseteq Query
      BY <3>2 DEF Query, CallSet, Call, Op, Reads, Target
    <3> HIDE DEF queries
    <3>4. /\ plan[p] \in Seq(SUBSET CallSet) /\ queries \in SUBSET CallSet
          /\ Len(plan[p]) \in Nat /\ DOMAIN plan[p] = 1..Len(plan[p])
      BY <1>1, <3>3, LenProperties DEF Types, Query
    <3>5. /\ Len(plan'[p]) = Len(plan[p]) + 1 /\ DOMAIN plan'[p] = 1..(Len(plan[p]) + 1)
          /\ \A i \in 1..Len(plan[p]) : plan'[p][i] = plan[p][i]
          /\ plan'[p][Len(plan[p]) + 1] = queries
      BY <2>1, <3>1, <3>4
    <3> DEFINE n == Len(Changes(cmd[p]))
    <3>6. /\ n \in Nat /\ n <= Len(plan[p]) /\ Len(done[p]) <= n
          /\ \A i \in 1..n : plan[p][i] = {Changes(cmd[p])[i]}
          /\ \A i \in DOMAIN plan[p] : i > n => plan[p][i] \subseteq Query
      BY <1>1, <2>1, ChangesLen DEF PlanInv
    <3> HIDE DEF n
    <3>7. \A i \in 1..n : plan'[p][i] = {Changes(cmd[p])[i]}
      BY <3>4, <3>5, <3>6
    <3>8. \A i \in DOMAIN plan'[p] : i > n => plan'[p][i] \subseteq Query
      BY <3>3, <3>4, <3>5, <3>6
    <3>9. n <= Len(plan'[p])
      BY <3>4, <3>5, <3>6
    <3> QED BY <2>1, <3>6, <3>7, <3>8, <3>9 DEF PlanInv, n
  <2> QED BY <2>2, <2>3
<1>7. ASSUME NEW call \in sent[p], Serve(p, call) PROVE PlanInv(p)'
  <2>1. pc'[p] # "idle"
    BY <1>1, <1>7, ServedMade DEF ProcInv, Fresh
  <2>2. CASE UNCHANGED done
    BY <1>1, <1>3, <1>7, <2>1, <2>2, ServedMade
  <2>3. CASE call.op \notin Reads /\ done' = [done EXCEPT ![p] = Append(@, call)]
    <3>1. Len(done'[p]) = Len(done[p]) + 1
      BY <1>1, <1>7, <2>3 DEF Types
    <3>2. Len(done'[p]) <= Len(Changes(cmd[p]))
      BY <1>1, <1>7, <2>3, <3>1, CarriedIsNext, ChangesLen
    <3> QED BY <1>1, <1>7, <2>1, <3>2, ServedMade DEF PlanInv
  <2> QED BY <1>1, <1>7, <2>2, <2>3, ServedMade
<1>8. ASSUME NEW call \in sent[p], Lose(p, call) PROVE PlanInv(p)'
  BY <1>1, <1>3, <1>8 DEF Lose, serverVars, ProcInv, Fresh
<1> QED BY <1>2, <1>4, <1>5, <1>6, <1>7, <1>8 DEF ProcNext, Answered

LEMMA ChainInitially == Init => ChainInv
<1> SUFFICES ASSUME Init PROVE ChainInv
  OBVIOUS
<1>1. \A p \in Proc : PlanInv(p)
  BY AccountAssumption DEF Init, PlanInv
<1> QED BY <1>1, OutcomeInitially DEF ChainInv

LEMMA ChainInductive == ChainInv /\ [Next]_vars => ChainInv'
<1> SUFFICES ASSUME ChainInv, [Next]_vars PROVE ChainInv'
  OBVIOUS
<1>1. OutcomeInv' /\ Types
  BY OutcomeInductive, TypesFromTypeOK DEF ChainInv, OutcomeInv, IInv
<1>2. ASSUME NEW p \in Proc, ProcNext(p) PROVE ChainInv'
  <2>1. \A q \in Proc : q # p => PlanInv(q)'
    BY <1>1, <1>2, OthersSame DEF ChainInv, Same, PlanInv
  <2> QED BY <1>1, <1>2, <2>1, PlanKept DEF ChainInv
<1>3. CASE UNCHANGED vars
  BY <1>1, <1>3 DEF vars, serverVars, ChainInv, PlanInv
<1> QED BY <1>2, <1>3 DEF Next, ProcNext

-----------------------------------------------------------------------------
(* The mapping                                                             *)

Open == {q \in Proc : \/ outcome[q] = "none"
                      \/ \E call \in sent[q] : call.op \notin Reads}

\* A step of one invocation leaves the others as open as they were.
LEMMA OpenStep ==
    ASSUME Types, NEW p \in Proc, ProcNext(p)
    PROVE  /\ p \in Open /\ p \in Open' => Open' = Open
           /\ p \notin Open' => Open' = Open \ {p}
<1>1. \A q \in Proc : q # p => outcome'[q] = outcome[q] /\ sent'[q] = sent[q]
  BY OthersSame DEF Same
<1>2. \A q \in Proc : q # p => (q \in Open' <=> q \in Open)
  BY <1>1 DEF Open
<1>3. Open \subseteq Proc /\ Open' \subseteq Proc
  BY DEF Open
<1> QED BY <1>2, <1>3

\* A process that ends with nothing on its way is closed; one that has not
\* ended is open.
LEMMA OpenIs ==
    ASSUME NEW p \in Proc
    PROVE  /\ outcome[p] = "none" => p \in Open
           /\ outcome[p] # "none" /\ sent[p] = {} => p \notin Open
           /\ outcome'[p] = "none" => p \in Open'
           /\ outcome'[p] # "none" /\ sent'[p] = {} => p \notin Open'
BY DEF Open

Kept == UNCHANGED <<cmd, confirmed, done, Open, outcome>>

LEMMA StartMaps ==
    ASSUME ChainInv, NEW p \in Proc, Start(p)
    PROVE  Changing!Take(p)
<1>1. /\ Types /\ Fresh(p) /\ outcome[p] = "none" /\ cmd[p] = NoCommand
      /\ UNCHANGED <<done, confirmed>> /\ ProcNext(p)
  BY TypesFromTypeOK
  DEF ChainInv, OutcomeInv, IInv, Start, ProcInv, PlanInv, serverVars, ProcNext
<1>2. \E c \in Command : cmd' = [cmd EXCEPT ![p] = c]
  BY DEF Start
<1>3. CASE UNCHANGED outcome
  <2>1. Open' = Open
    BY <1>1, <1>3, OpenIs, OpenStep
  <2> QED BY <1>1, <1>2, <1>3, <2>1 DEF Changing!Take, Open
<1>4. CASE Exit(p, "refused") /\ UNCHANGED sent
  <2>1. outcome' = [outcome EXCEPT ![p] = "refused"] /\ outcome'[p] = "refused"
    BY <1>1, <1>4 DEF Exit, Types
  <2>2. Open' = Open \ {p}
    BY <1>1, <1>4, <2>1, OpenIs, OpenStep DEF Fresh
  <2> QED BY <1>1, <1>2, <2>1, <2>2 DEF Changing!Take, Open
<1> QED BY <1>3, <1>4 DEF Start

LEMMA ConfirmMaps ==
    ASSUME ChainInv, NEW p \in Proc, Confirm(p)
    PROVE  Changing!Agree(p) \/ Changing!Finish(p)
<1>1. /\ Types /\ Fresh(p) /\ outcome[p] = "none" /\ cmd[p] \in Command
      /\ cmd[p].name \in Confirmed
      /\ UNCHANGED <<cmd, done>> /\ ProcNext(p)
  BY TypesFromTypeOK
  DEF ChainInv, OutcomeInv, IInv, Confirm, ProcInv, ListInv, Asked, serverVars, ProcNext
<1>2. CASE confirmed' = confirmed \cup {p} /\ UNCHANGED outcome
  <2>1. Open' = Open
    BY <1>1, <1>2, OpenIs, OpenStep
  <2> QED BY <1>1, <1>2, <2>1 DEF Changing!Agree, Open
<1>3. CASE (\E how \in {"cancelled", "aborted"} : Exit(p, how)) /\ UNCHANGED <<confirmed, sent>>
  <2>1. PICK how \in {"cancelled", "aborted"} :
            outcome' = [outcome EXCEPT ![p] = how] /\ outcome'[p] = how
    BY <1>1, <1>3 DEF Exit, Types
  <2>2. Open' = Open \ {p}
    BY <1>1, <1>3, <2>1, OpenIs, OpenStep DEF Fresh
  <2> QED BY <1>1, <1>3, <2>1, <2>2 DEF Changing!Finish, Open, Fresh
<1> QED BY <1>2, <1>3 DEF Confirm

\* After a failure or a kill a change may be left.
LEMMA FailureMaps ==
    ASSUME ChainInv, NEW p \in Proc, ProcNext(p), outcome[p] = "none", cmd[p] \in Command,
           NEW how \in {"failed", "killed"}, Exit(p, how), UNCHANGED <<cmd, done, confirmed>>
    PROVE  Changing!Finish(p)
<1>1. Types
  BY TypesFromTypeOK DEF ChainInv, OutcomeInv, IInv
<1>2. Open' \in {Open, Open \ {p}}
  BY <1>1, OpenIs, OpenStep
<1>3. outcome' = [outcome EXCEPT ![p] = how]
  BY DEF Exit
<1> QED BY <1>2, <1>3 DEF Changing!Finish, Open

LEMMA RejectedMaps ==
    ASSUME ChainInv, NEW p \in Proc, Answered(p), NEW a \in answers[p], Rejected(p, a)
    PROVE  Changing!Finish(p)
<1>1. /\ Types /\ outcome[p] = "none" /\ cmd[p] \in Command /\ OutcomeInv
      /\ UNCHANGED <<cmd, done, confirmed>> /\ ProcNext(p)
  BY TypesFromTypeOK
  DEF ChainInv, OutcomeInv, IInv, Answered, ProcInv, Asked, serverVars, ProcNext
<1>2. CASE Exit(p, "failed")
  BY <1>1, <1>2, FailureMaps
<1>3. CASE Exit(p, "warned")
  <2>1. outcome' = [outcome EXCEPT ![p] = "warned"] /\ outcome'[p] = "warned"
    BY <1>1, <1>3 DEF Exit, Types
  <2>2. sent'[p] = {} /\ done[p] = <<>>
    BY <1>1, <2>1, RejectedOutcome DEF WarnInv
  <2>3. Open' = Open \ {p}
    BY <1>1, <2>1, <2>2, OpenIs, OpenStep
  <2> QED BY <1>1, <2>1, <2>2, <2>3 DEF Changing!Finish, Open
<1> QED BY <1>2, <1>3 DEF Rejected

\* An invocation that succeeds has made every change of its command.
LEMMA SuccessMade ==
    ASSUME ChainInv, ChainInv', NEW p \in Proc, cmd'[p] \in Command, outcome'[p] = "success"
    PROVE  done'[p] = Changes(cmd'[p])
<1> DEFINE n == Len(Changes(cmd'[p]))
<1>1. /\ n \in Nat /\ DOMAIN Changes(cmd'[p]) = 1..n
      /\ Changes(cmd'[p]) \in Seq(Mutation)
      /\ \A i \in 1..n : Changes(cmd'[p])[i] \in Mutation
  BY ChangesLen, ChangesTyped
<1>2. /\ done'[p] \in Seq(CallSet) /\ Len(done'[p]) \in Nat
      /\ DOMAIN done'[p] = 1..Len(done'[p])
      /\ plan'[p] \in Seq(SUBSET CallSet)
      /\ DOMAIN plan'[p] = 1..Len(plan'[p]) /\ Len(plan'[p]) \in Nat
  <2>1. Types'
    BY DEF ChainInv, OutcomeInv, IInv, TypeOK, Types
  <2> QED BY <2>1, LenProperties DEF Types
<1>3. /\ n <= Len(plan'[p]) /\ Len(done'[p]) <= n
      /\ \A i \in 1..n : plan'[p][i] = {Changes(cmd'[p])[i]}
  BY DEF ChainInv, PlanInv
<1>4. ProcInv(p)'
  BY DEF ChainInv, OutcomeInv, IInv
<1>5. ASSUME NEW i \in 1..n PROVE i \in DOMAIN done'[p]
  <2>1. Changes(cmd'[p])[i] \in plan'[p][i] /\ Changes(cmd'[p])[i] \in Mutation
    BY <1>1, <1>3
  <2>2. i \in DOMAIN plan'[p]
    BY <1>1, <1>2, <1>3
  <2>3. Honest(p)'
    BY <1>4 DEF ProcInv
  <2>4. \A call \in plan'[p][i] : call \in Mutation => i \in DOMAIN done'[p]
    BY <2>2, <2>3 DEF Honest
  <2> QED BY <2>1, <2>4
<1>6. Len(done'[p]) = n
  <2>1. n # 0 => n \in DOMAIN done'[p]
    BY <1>1, <1>5
  <2> QED BY <1>1, <1>2, <1>3, <2>1
<1>7. \A i \in 1..n : done'[p][i] = Changes(cmd'[p])[i]
  <2>1. \A i \in DOMAIN done'[p] : plan'[p][i] = {done'[p][i]}
    BY <1>4 DEF ProcInv, Carried
  <2> QED BY <1>3, <1>5, <2>1
<1>8. Changes(cmd'[p]) \in Seq(CallSet)
  <2>1. Mutation \subseteq CallSet
    BY DEF Mutation
  <2> QED BY <1>1, <2>1
<1> QED BY <1>2, <1>6, <1>7, <1>8, SeqEqual

LEMMA ResolvedMaps ==
    ASSUME ChainInv, ChainInv', NEW p \in Proc, Answered(p),
           NEW a \in answers[p], Resolved(p, a)
    PROVE  Changing!Finish(p) \/ Kept
<1>1. /\ Types /\ outcome[p] = "none" /\ cmd[p] \in Command
      /\ UNCHANGED <<cmd, done, confirmed>> /\ ProcNext(p)
  BY TypesFromTypeOK
  DEF ChainInv, OutcomeInv, IInv, Answered, ProcInv, Asked, serverVars, ProcNext
<1>2. CASE UNCHANGED outcome
  <2>1. Open' = Open
    BY <1>1, <1>2, OpenIs, OpenStep
  <2> QED BY <1>1, <1>2, <2>1 DEF Kept
<1>3. CASE StageDone(p, a) /\ Exit(p, "success") /\ UNCHANGED sent
  <2>1. outcome' = [outcome EXCEPT ![p] = "success"] /\ outcome'[p] = "success"
    BY <1>1, <1>3 DEF Exit, Types
  <2>2. sent'[p] = {}
    BY <1>3 DEF StageDone
  <2>3. Open' = Open \ {p}
    BY <1>1, <2>1, <2>2, OpenIs, OpenStep
  <2>4. done[p] = Changes(cmd[p])
    BY <1>1, <2>1, SuccessMade
  <2> QED BY <1>1, <2>1, <2>3, <2>4 DEF Changing!Finish, Open
<1> QED BY <1>2, <1>3 DEF Resolved

LEMMA ServeMaps ==
    ASSUME ChainInv, NEW p \in Proc, NEW call \in sent[p], Serve(p, call) \/ Lose(p, call)
    PROVE  Changing!Make(p) \/ Changing!Drop(p) \/ Kept
<1>1. /\ Types /\ ProcInv(p) /\ PlanInv(p) /\ ProcNext(p)
  BY TypesFromTypeOK DEF ChainInv, OutcomeInv, IInv, ProcNext
<1>2. /\ sent' = [sent EXCEPT ![p] = @ \ {call}]
      /\ UNCHANGED <<cmd, confirmed, outcome>>
      /\ \/ UNCHANGED done
         \/ call.op \notin Reads /\ done' = [done EXCEPT ![p] = Append(@, call)]
  BY <1>1, ServedMade DEF Lose, serverVars
<1>3. sent'[p] = sent[p] \ {call}
  BY <1>1, <1>2 DEF Types
<1>4. CASE call.op \notin Reads /\ done' = [done EXCEPT ![p] = Append(@, call)]
  <2>1. /\ cmd[p] \in Command
        /\ Len(done[p]) + 1 \in 1..Len(Changes(cmd[p]))
        /\ call = Changes(cmd[p])[Len(done[p]) + 1]
        /\ sent[p] = {call}
        /\ cmd[p].name \in Confirmed => p \in confirmed
    BY <1>1, <1>4, CarriedIsNext
  <2>2. p \in Open /\ sent'[p] = {}
    BY <1>3, <1>4, <2>1 DEF Open
  <2>3. Open' = IF outcome[p] = "none" THEN Open ELSE Open \ {p}
    BY <1>1, <1>2, <2>2, OpenIs, OpenStep
  <2>4. Len(done[p]) < Len(Changes(cmd[p]))
    BY <1>1, <2>1, LenProperties, ChangesLen DEF Types
  <2>5. done' = [done EXCEPT ![p] = Append(@, Changes(cmd[p])[Len(@) + 1])]
    BY <1>4, <2>1
  <2> QED BY <1>2, <2>1, <2>2, <2>3, <2>4, <2>5 DEF Changing!Make, Open
<1>5. CASE UNCHANGED done
  <2>1. CASE p \in Open'
    <3>1. p \in Open
      BY <1>2, <1>3, <2>1 DEF Open
    <3> QED BY <1>1, <1>2, <1>5, <2>1, <3>1, OpenStep DEF Kept
  <2>2. CASE p \notin Open'
    <3>1. Open' = Open \ {p} /\ outcome[p] # "none"
      BY <1>1, <1>2, <2>2, OpenStep, OpenIs
    <3> QED BY <1>2, <1>5, <3>1 DEF Changing!Drop, Open
  <2> QED BY <2>1, <2>2
<1> QED BY <1>2, <1>4, <1>5

LEMMA ChainNext == ChainInv /\ [Next]_vars => [Changing!Next]_(Changing!vars)
<1> SUFFICES ASSUME ChainInv, [Next]_vars PROVE Changing!Next \/ Kept
  BY DEF Changing!vars, Kept, Open
<1>1. ChainInv'
  BY ChainInductive
<1>2. ASSUME NEW p \in Proc, ProcNext(p)
      PROVE  \/ Changing!Take(p) \/ Changing!Agree(p) \/ Changing!Make(p)
             \/ Changing!Finish(p) \/ Changing!Drop(p) \/ Kept
  <2>1. CASE Kill(p)
    <3>1. /\ outcome[p] = "none" /\ cmd[p] \in Command /\ Exit(p, "killed")
          /\ UNCHANGED <<cmd, done, confirmed>>
      BY <2>1 DEF ChainInv, OutcomeInv, IInv, Kill, ProcInv, Asked, serverVars
    <3> QED BY <1>2, <3>1, FailureMaps
  <2>2. CASE Answered(p)
    <3>1. PICK a \in answers[p] : Rejected(p, a) \/ Resolved(p, a)
      BY <2>2 DEF Answered
    <3> QED BY <1>1, <2>2, <3>1, RejectedMaps, ResolvedMaps
  <2>3. CASE Start(p) \/ Confirm(p)
    BY <2>3, StartMaps, ConfirmMaps
  <2> QED BY <1>2, <2>1, <2>2, <2>3, ServeMaps DEF ProcNext
<1>3. CASE UNCHANGED vars
  BY <1>3 DEF vars, serverVars, Kept, Open
<1> QED BY <1>2, <1>3 DEF Next, ProcNext, Changing!Next

\* Every step of the invocations is one of ChangeChain, or none: changes are made
\* one by one, a report is true, and after the end there is at most one more.
THEOREM MadeOneByOne == Spec => ChangesOneByOne
<1>1. Init => Changing!Init
  BY DEF Init, Changing!Init
<1>2. ChainInv /\ [Next]_vars => [Changing!Next]_(Changing!vars)
  BY ChainNext
<1>3. Spec => Changing!Init /\ [][Changing!Next]_(Changing!vars)
  BY <1>1, <1>2, ChainInitially, ChainInductive, PTL DEF Spec
<1> QED BY <1>3 DEF ChangesOneByOne, Changing!Spec
=============================================================================
