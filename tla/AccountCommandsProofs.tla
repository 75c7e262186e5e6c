------------------------ MODULE AccountCommandsProofs ------------------------
(* Theorems about AccountCommands: whatever is lost, killed or interleaved, *)
(* the server carries out the calls of an invocation in order and once, a   *)
(* reported success is true, and nothing is done before it is confirmed.    *)
EXTENDS AccountCommands, SequenceTheorems, TLAPS

Mutation == {call \in CallSet : call.op \notin Reads}
Query    == {call \in CallSet : call.op \in Reads}

\* A stage that changes something is one call, and all stages before it are
\* of that kind.
Shaped(thePlan) ==
    \A i \in DOMAIN thePlan : \A call \in thePlan[i] :
        call \in Mutation =>
            /\ thePlan[i] = {call}
            /\ \A j \in 1..i : \E c \in Mutation : thePlan[j] = {c}

Types ==
    /\ cmd \in [Proc -> Command \cup {NoCommand}]
    /\ pc \in [Proc -> {"idle", "confirm", "calling", "exited"}]
    /\ plan \in [Proc -> Seq(SUBSET CallSet)]
    /\ stage \in [Proc -> Nat]
    /\ sent \in [Proc -> SUBSET CallSet]
    /\ answers \in [Proc -> SUBSET Answer]
    /\ outcome \in [Proc -> {"none", "success", "warned", "cancelled", "aborted",
                             "refused", "failed", "killed"}]
    /\ done \in [Proc -> Seq(CallSet)]
    /\ confirmed \subseteq Proc

\* Nothing has been sent yet.
Fresh(p) == sent[p] = {} /\ answers[p] = {} /\ stage[p] = 0 /\ done[p] = <<>>

\* What is in flight belongs to the current stage.
Flight(p) ==
    /\ stage[p] \in 0..Len(plan[p])
    /\ stage[p] = 0 => sent[p] = {} /\ answers[p] = {}
    /\ \A call \in sent[p] : call \in plan[p][stage[p]]
    /\ \A a \in answers[p] : a.call \in plan[p][stage[p]]

\* The changes up to the stage before the current one have been carried out,
\* and the current one has not while its call is on its way, ...
Carried(p) ==
    /\ \A i \in DOMAIN done[p] : i <= stage[p] /\ plan[p][i] = {done[p][i]}
    /\ \A i \in 1..(stage[p] - 1) : \A call \in plan[p][i] :
          call \in Mutation => i \in DOMAIN done[p]
    /\ \A call \in sent[p] : call \in Mutation => Len(done[p]) < stage[p]

\* ... and has when its answer says so.
Honest(p) ==
    /\ \A a \in answers[p] :
          a.status = "ok" /\ a.call \in Mutation => stage[p] \in DOMAIN done[p]
    /\ outcome[p] = "success" =>
          \A i \in DOMAIN plan[p] : \A call \in plan[p][i] :
              call \in Mutation => i \in DOMAIN done[p]

\* A command that asks first has sent nothing before the "y".
Asked(p) ==
    /\ cmd[p] \in Command \/ pc[p] = "idle"
    /\ cmd[p] \in Command /\ cmd[p].name \in Confirmed /\ stage[p] > 0 => p \in confirmed

ProcInv(p) ==
    /\ Shaped(plan[p])
    /\ pc[p] \in {"idle", "confirm"} => Fresh(p)
    /\ pc[p] \in {"confirm", "calling"} => plan[p] # <<>>
    /\ pc[p] # "exited" => outcome[p] = "none"
    /\ Flight(p)
    /\ Carried(p)
    /\ Honest(p)
    /\ Asked(p)

IInv == TypeOK /\ \A p \in Proc : ProcInv(p)

-----------------------------------------------------------------------------
(* Plans                                                                   *)

\* The changes of a command are calls that change something.
LEMMA ChangesTyped ==
    ASSUME NEW c \in Command
    PROVE  Changes(c) \in Seq(Mutation)
<1>1. /\ c.name \in Names /\ c.target \in Target /\ c.to \in Target
      /\ c.name \in DeploymentCommand => c.target \in Deployment /\ c.to \in Deployment
      /\ c.name = "appRename" => c.target = App
      /\ App \notin Deployment
  BY AccountAssumption DEF Invocation
<1>2. Staging \in Target /\ Production \in Target
  BY AccountAssumption DEF Target
<1>3. \A op \in {"add", "remove", "change"} : \A t \in Target : Call(op, t) \in Mutation
  BY DEF Mutation, CallSet, Call, Op, Reads, DeploymentOp
<1>4. ASSUME NEW op \in {"clear", "rollback"}, c.name \in DeploymentCommand
      PROVE  Call(op, c.target) \in Mutation
  BY <1>1, <1>4 DEF Mutation, CallSet, Call, Op, Reads
<1>5. ASSUME NEW op \in {"rename", "promote"},
             c.name \in DeploymentCommand \/ (op = "rename" /\ c.name = "appRename")
      PROVE  Moved(op, c) \in Mutation
  BY <1>1, <1>5 DEF Mutation, CallSet, Moved, Op, Reads, DeploymentOp
<1>6. \A x \in Mutation, y \in Mutation :
          <<x>> \in Seq(Mutation) /\ <<x, y>> \in Seq(Mutation)
  OBVIOUS
<1>7. << >> \in Seq(Mutation)
  OBVIOUS
<1> QED
  BY <1>1, <1>2, <1>3, <1>4, <1>5, <1>6, <1>7 DEF Changes, DeploymentCommand

\* Its queries change nothing, and every command makes some call.
LEMMA QueriesTyped ==
    ASSUME NEW c \in Command
    PROVE  /\ Queries(c) \subseteq Query
           /\ Queries(c) # {} \/ Changes(c) # <<>>
<1>1. /\ c.name \in Names /\ c.target \in Target
      /\ c.name \in DeploymentCommand => c.target \in Deployment
  BY AccountAssumption DEF Invocation
<1>2. App \in Target /\ Account \in Target
  BY DEF Target
<1>3. \A op \in {"list", "read"} : \A t \in Target : Call(op, t) \in Query
  BY DEF Query, CallSet, Call, Op, Reads, DeploymentOp
<1>4. c.name = "deploymentHistory" => Call("metrics", c.target) \in Query
  BY <1>1 DEF Query, CallSet, Call, Op, Reads, DeploymentOp, DeploymentCommand
<1>5. Queries(c) \subseteq Query
  BY <1>1, <1>2, <1>3, <1>4 DEF Queries
<1>6. Queries(c) # {} \/ Changes(c) # <<>>
  BY <1>1 DEF Queries, Changes, Names, Confirmed, Checked
<1> QED BY <1>5, <1>6

\* One more stage of queries does not spoil the shape of a plan.
LEMMA AppendQueries ==
    ASSUME NEW thePlan \in Seq(SUBSET CallSet), Shaped(thePlan),
           NEW queries, queries \subseteq Query
    PROVE  /\ Append(thePlan, queries) \in Seq(SUBSET CallSet)
           /\ Append(thePlan, queries) # <<>>
           /\ Shaped(Append(thePlan, queries))
           /\ Len(Append(thePlan, queries)) = Len(thePlan) + 1
           /\ \A i \in 1..Len(thePlan) : Append(thePlan, queries)[i] = thePlan[i]
<1> DEFINE longer == Append(thePlan, queries)
<1>1. queries \in SUBSET CallSet
  BY DEF Query
<1>2. /\ longer \in Seq(SUBSET CallSet) /\ Len(longer) = Len(thePlan) + 1
      /\ \A i \in 1..Len(thePlan) : longer[i] = thePlan[i]
      /\ longer[Len(thePlan) + 1] = queries
  BY <1>1
<1>3. longer # <<>>
  BY <1>2
<1>4. Len(thePlan) \in Nat /\ DOMAIN thePlan = 1..Len(thePlan)
      /\ DOMAIN longer = 1..(Len(thePlan) + 1)
  BY <1>2
<1>5. ASSUME NEW i \in DOMAIN longer, NEW call \in longer[i], call \in Mutation
      PROVE  /\ longer[i] = {call}
             /\ \A j \in 1..i : \E c \in Mutation : longer[j] = {c}
  <2>1. i # Len(thePlan) + 1
    BY <1>2, <1>5 DEF Query, Mutation
  <2>2. i \in 1..Len(thePlan)
    BY <2>1, <1>4
  <2>3. /\ thePlan[i] = {call}
        /\ \A j \in 1..i : \E c \in Mutation : thePlan[j] = {c}
    BY <1>2, <1>4, <1>5, <2>2 DEF Shaped
  <2>4. \A j \in 1..i : j \in 1..Len(thePlan)
    BY <1>4, <2>2
  <2> QED BY <1>2, <2>2, <2>3, <2>4
<1>6. Shaped(longer)
  BY <1>5 DEF Shaped
<1> QED BY <1>2, <1>3, <1>6

\* Plan makes plans of that shape, none of them empty.
LEMMA PlanShaped ==
    ASSUME NEW c \in Command
    PROVE  Plan(c) \in Seq(SUBSET CallSet) /\ Plan(c) # <<>> /\ Shaped(Plan(c))
<1> DEFINE changes == [i \in DOMAIN Changes(c) |-> {Changes(c)[i]}]
<1>1. /\ Len(Changes(c)) \in Nat
      /\ DOMAIN Changes(c) = 1..Len(Changes(c))
      /\ \A i \in 1..Len(Changes(c)) : Changes(c)[i] \in Mutation
  BY ChangesTyped, LenProperties, ElementOfSeq
<1>2. changes \in [1..Len(Changes(c)) -> SUBSET CallSet]
  BY <1>1 DEF Mutation
<1>3. changes \in Seq(SUBSET CallSet)
  BY <1>1, <1>2, SeqDef
<1>4. \A i \in 1..Len(Changes(c)) : \E x \in Mutation : changes[i] = {x}
  BY <1>1
<1>5. Shaped(changes)
  <2> SUFFICES ASSUME NEW i \in DOMAIN changes, NEW call \in changes[i]
               PROVE  /\ changes[i] = {call}
                      /\ \A j \in 1..i : \E x \in Mutation : changes[j] = {x}
    BY DEF Shaped
  <2>1. i \in 1..Len(Changes(c)) /\ changes[i] = {call}
    BY <1>1
  <2>2. \A j \in 1..i : j \in 1..Len(Changes(c))
    BY <1>1, <2>1
  <2> QED BY <1>4, <2>1, <2>2
<1>6. Changes(c) # <<>> => changes # <<>>
  <2> SUFFICES ASSUME changes = <<>> PROVE Changes(c) = <<>>
    OBVIOUS
  <2>1. DOMAIN changes = DOMAIN Changes(c)
    OBVIOUS
  <2>2. DOMAIN changes = {}
    OBVIOUS
  <2>3. Len(Changes(c)) = 0
    BY <1>1, <2>1, <2>2
  <2> QED BY <2>3, ChangesTyped, EmptySeq
<1>7. CASE Queries(c) = {}
  BY <1>3, <1>5, <1>6, <1>7, QueriesTyped DEF Plan
<1>8. CASE Queries(c) # {}
  <2>1. Plan(c) = Append(changes, Queries(c))
    BY <1>8 DEF Plan
  <2> HIDE DEF changes
  <2> QED BY <1>3, <1>5, <2>1, QueriesTyped, AppendQueries
<1> QED BY <1>7, <1>8

-----------------------------------------------------------------------------
(* Preservation                                                            *)

\* What an invocation's part of the invariant is about does not change.
Same(p) ==
    /\ cmd'[p] = cmd[p] /\ pc'[p] = pc[p] /\ plan'[p] = plan[p]
    /\ stage'[p] = stage[p] /\ sent'[p] = sent[p] /\ answers'[p] = answers[p]
    /\ outcome'[p] = outcome[p] /\ done'[p] = done[p]
    /\ p \in confirmed => p \in confirmed'

LEMMA SameKeeps ==
    ASSUME NEW p \in Proc, ProcInv(p), Same(p)
    PROVE  ProcInv(p)'
BY DEF Same, ProcInv, Fresh, Flight, Carried, Honest, Asked

\* The mutation of a stage is all of it, and its changes are as many as the
\* stages up to it.
LEMMA SingleMutation ==
    ASSUME Types, NEW p \in Proc, ProcInv(p), NEW call \in plan[p][stage[p]],
           stage[p] # 0, call \in Mutation
    PROVE  /\ stage[p] \in DOMAIN plan[p]
           /\ plan[p][stage[p]] = {call}
           /\ 1..(stage[p] - 1) \subseteq DOMAIN done[p]
<1>1. stage[p] \in 1..Len(plan[p]) /\ DOMAIN plan[p] = 1..Len(plan[p])
  BY DEF Types, ProcInv, Flight
<1>2. /\ plan[p][stage[p]] = {call}
      /\ \A j \in 1..stage[p] : \E c \in Mutation : plan[p][j] = {c}
  BY <1>1 DEF ProcInv, Shaped
<1>3. ASSUME NEW j \in 1..(stage[p] - 1) PROVE j \in DOMAIN done[p]
  <2>1. j \in 1..stage[p] /\ stage[p] \in Nat
    BY <1>1
  <2>2. PICK c \in Mutation : plan[p][j] = {c}
    BY <1>2, <2>1
  <2> QED BY <2>2 DEF ProcInv, Carried
<1> QED BY <1>1, <1>2, <1>3

\* The part of Next that process p takes.
ProcNext(p) ==
    \/ Start(p) \/ Confirm(p) \/ Answered(p) \/ Kill(p)
    \/ \E call \in sent[p] : Serve(p, call) \/ Lose(p, call)

LEMMA OthersSame ==
    ASSUME Types, NEW p \in Proc, NEW q \in Proc, q # p, ProcNext(p)
    PROVE  Same(q)
<1>1. CASE Start(p)
  BY <1>1 DEF Start, Same, Types, Exit, SendStage, serverVars
<1>2. CASE Confirm(p)
  BY <1>2 DEF Confirm, Same, Types, Exit, SendStage, serverVars
<1>3. CASE Answered(p)
  <2>1. PICK a \in answers[p] : Rejected(p, a) \/ Resolved(p, a)
    BY <1>3 DEF Answered
  <2>2. CASE Rejected(p, a)
    BY <1>3, <2>2 DEF Answered, Rejected, Same, Types, Exit, serverVars
  <2>3. CASE Resolved(p, a)
    <3>1. /\ answers' = [answers EXCEPT ![p] = @ \ {a}]
          /\ plan' = [plan EXCEPT ![p] = NextStages(p, a)]
          /\ UNCHANGED <<done, cmd, confirmed>>
      BY <1>3, <2>3 DEF Answered, Resolved, serverVars
    <3>2. pc'[q] = pc[q] /\ outcome'[q] = outcome[q]
          /\ stage'[q] = stage[q] /\ sent'[q] = sent[q]
      BY <2>3 DEF Resolved, Exit, SendStage, Types
    <3> QED BY <3>1, <3>2 DEF Same, Types
  <2> QED BY <2>1, <2>2, <2>3
<1>4. CASE Kill(p)
  BY <1>4 DEF Kill, Same, Types, Exit, serverVars
<1>5. ASSUME NEW call \in sent[p], Serve(p, call) PROVE Same(q)
  <2>1. /\ sent' = [sent EXCEPT ![p] = @ \ {call}]
        /\ UNCHANGED <<cmd, pc, plan, stage, confirmed, outcome>>
    BY <1>5 DEF Serve
  <2>2. done'[q] = done[q] /\ answers'[q] = answers[q]
    BY <1>5 DEF Serve, Types
  <2> QED BY <2>1, <2>2 DEF Same, Types
<1>6. ASSUME NEW call \in sent[p], Lose(p, call) PROVE Same(q)
  BY <1>6 DEF Lose, Same, Types, serverVars
<1> QED BY <1>1, <1>2, <1>3, <1>4, <1>5, <1>6 DEF ProcNext

\* Nothing that has been sent or answered is left out when a process exits.
LEMMA ExitKeeps ==
    ASSUME Types, NEW p \in Proc, ProcInv(p), NEW how,
           how \in {"warned", "cancelled", "aborted", "failed", "killed"},
           Exit(p, how), cmd[p] \in Command,
           UNCHANGED <<cmd, plan, stage, confirmed, sent, done>>,
           answers'[p] \subseteq answers[p]
    PROVE  ProcInv(p)'
<1>1. pc'[p] = "exited" /\ outcome'[p] = how /\ how # "success"
  BY DEF Exit, Types
<1>2. Shaped(plan[p])' /\ Flight(p)' /\ Carried(p)' /\ Asked(p)'
  BY <1>1 DEF ProcInv, Flight, Carried, Asked, Shaped
<1>3. Honest(p)'
  BY <1>1 DEF ProcInv, Honest
<1> QED BY <1>1, <1>2, <1>3 DEF ProcInv

LEMMA StartKeeps ==
    ASSUME Types, NEW p \in Proc, ProcInv(p), Start(p)
    PROVE  ProcInv(p)'
<1>1. PICK c \in Command :
          /\ cmd' = [cmd EXCEPT ![p] = c]
          /\ plan' = [plan EXCEPT ![p] = Plan(c)]
          /\ \/ /\ c.name \in Confirmed
                /\ pc' = [pc EXCEPT ![p] = "confirm"]
                /\ UNCHANGED <<stage, sent, outcome>>
             \/ /\ c.name \notin Confirmed
                /\ pc' = [pc EXCEPT ![p] = "calling"]
                /\ SendStage(p, Plan(c), 1)
                /\ UNCHANGED outcome
             \/ /\ c.name \in Checked
                /\ Exit(p, "refused")
                /\ UNCHANGED <<stage, sent>>
  BY DEF Start
<1>2. /\ Fresh(p) /\ outcome[p] = "none" /\ pc[p] = "idle"
      /\ UNCHANGED <<done, answers, confirmed>>
  BY DEF Start, ProcInv, serverVars
<1>3. Plan(c) \in Seq(SUBSET CallSet) /\ Plan(c) # <<>> /\ Shaped(Plan(c))
  BY PlanShaped
<1>4. plan'[p] = Plan(c) /\ cmd'[p] = c
  BY <1>1 DEF Types
<1>5. Len(Plan(c)) \in Nat \ {0}
  BY <1>3, EmptySeq
<1>6. \/ /\ sent'[p] = {} /\ stage'[p] = 0
         /\ pc'[p] \in {"confirm", "exited"}
         /\ pc'[p] = "confirm" => outcome'[p] = "none"
         /\ outcome'[p] # "success"
      \/ /\ sent'[p] = Plan(c)[1] /\ stage'[p] = 1 /\ pc'[p] = "calling"
         /\ outcome'[p] = "none" /\ c.name \notin Confirmed
  BY <1>1, <1>2 DEF Types, SendStage, Exit, Fresh
<1>7. answers'[p] = {} /\ done'[p] = <<>>
  BY <1>2 DEF Fresh
<1>8. Len(done'[p]) = 0 /\ DOMAIN done'[p] = {}
  BY <1>7
<1>9. Shaped(plan[p])'
  BY <1>3, <1>4 DEF Shaped
<1>10. Flight(p)' /\ Carried(p)' /\ Honest(p)' /\ Asked(p)'
  BY <1>4, <1>5, <1>6, <1>7, <1>8 DEF Flight, Carried, Honest, Asked
<1>11. /\ (pc[p] \in {"idle", "confirm"} => Fresh(p))'
       /\ (pc[p] \in {"confirm", "calling"} => plan[p] # <<>>)'
       /\ (pc[p] # "exited" => outcome[p] = "none")'
  BY <1>3, <1>4, <1>6, <1>7 DEF Fresh
<1> QED BY <1>9, <1>10, <1>11 DEF ProcInv

LEMMA ConfirmKeeps ==
    ASSUME Types, NEW p \in Proc, ProcInv(p), Confirm(p)
    PROVE  ProcInv(p)'
<1>1. /\ Fresh(p) /\ pc[p] = "confirm" /\ plan[p] # <<>> /\ cmd[p] \in Command
      /\ outcome[p] = "none"
      /\ UNCHANGED <<done, cmd, plan, answers>>
  BY DEF Confirm, ProcInv, Asked, serverVars
<1>2. CASE \E how \in {"cancelled", "aborted"} :
            Exit(p, how) /\ UNCHANGED <<confirmed, stage, sent>>
  BY <1>1, <1>2, ExitKeeps
<1>3. CASE /\ confirmed' = confirmed \cup {p}
           /\ pc' = [pc EXCEPT ![p] = "calling"]
           /\ SendStage(p, plan[p], 1)
           /\ UNCHANGED outcome
  <2>1. /\ sent'[p] = plan[p][1] /\ stage'[p] = 1 /\ pc'[p] = "calling"
        /\ answers'[p] = {} /\ done'[p] = <<>> /\ outcome'[p] = "none"
        /\ p \in confirmed'
    BY <1>1, <1>3 DEF Types, SendStage, Fresh
  <2>2. Len(plan[p]) \in Nat \ {0}
    BY <1>1, EmptySeq DEF Types
  <2>3. Len(done'[p]) = 0 /\ DOMAIN done'[p] = {}
    BY <2>1
  <2>4. Flight(p)' /\ Carried(p)' /\ Honest(p)' /\ Asked(p)'
    BY <1>1, <2>1, <2>2, <2>3 DEF Flight, Carried, Honest, Asked
  <2> QED BY <1>1, <2>1, <2>4 DEF ProcInv, Shaped
<1> QED BY <1>2, <1>3 DEF Confirm

LEMMA LoseKeeps ==
    ASSUME Types, NEW p \in Proc, ProcInv(p), NEW call \in sent[p], Lose(p, call)
    PROVE  ProcInv(p)'
<1> DEFINE lost == [call |-> call, status |-> "timeout", json |-> FALSE, having |-> {}]
<1>1. /\ sent'[p] = sent[p] \ {call} /\ answers'[p] = answers[p] \cup {lost}
      /\ UNCHANGED <<done, cmd, pc, plan, stage, confirmed, outcome>>
  BY DEF Lose, Types, serverVars
<1>2. lost.call = call /\ lost.status = "timeout"
  OBVIOUS
<1> HIDE DEF lost
<1>3. stage[p] # 0 /\ pc[p] \notin {"idle", "confirm"}
  BY DEF ProcInv, Flight, Fresh
<1>4. Flight(p)' /\ Carried(p)' /\ Honest(p)' /\ Asked(p)'
  BY <1>1, <1>2, <1>3 DEF ProcInv, Flight, Carried, Honest, Asked
<1> QED BY <1>1, <1>3, <1>4 DEF ProcInv, Shaped, Fresh

LEMMA ServeKeeps ==
    ASSUME Types, NEW p \in Proc, ProcInv(p), NEW call \in sent[p], Serve(p, call)
    PROVE  ProcInv(p)'
<1> DEFINE carried == Verdict(call) = "ok" /\ call.op \notin Reads
<1>1. PICK a : /\ a.call = call /\ a.status \in {Verdict(call), "timeout"}
               /\ answers' = [answers EXCEPT ![p] = @ \cup {a}]
  <2>1. PICK got \in {Verdict(call), "timeout"}, json \in BOOLEAN :
            answers' = [answers EXCEPT ![p] = @ \cup
                {[call |-> call, status |-> got, json |-> json,
                  having |-> {d \in Deployment : There(d) /\ releases[d] # <<>>}]}]
    BY DEF Serve
  <2> QED BY <2>1
<1>2. /\ sent'[p] = sent[p] \ {call} /\ answers'[p] = answers[p] \cup {a}
      /\ UNCHANGED <<cmd, pc, plan, stage, confirmed, outcome>>
  BY <1>1 DEF Serve, Types
<1>3. done' = IF carried THEN [done EXCEPT ![p] = Append(@, call)] ELSE done
  BY DEF Serve
<1>4. /\ stage[p] # 0 /\ stage[p] \in Nat /\ pc[p] \notin {"idle", "confirm"}
      /\ call \in CallSet /\ call \in plan[p][stage[p]]
      /\ done[p] \in Seq(CallSet) /\ Len(done[p]) \in Nat
      /\ DOMAIN done[p] = 1..Len(done[p])
  BY LenProperties DEF ProcInv, Flight, Fresh, Types
<1>5. Flight(p)'
  BY <1>1, <1>2, <1>4 DEF ProcInv, Flight
<1>6. Asked(p)'
  BY <1>2 DEF ProcInv, Asked
<1>7. CASE carried
  <2>1. call \in Mutation
    BY <1>4, <1>7 DEF Mutation
  <2>2. /\ stage[p] \in DOMAIN plan[p] /\ plan[p][stage[p]] = {call}
        /\ 1..(stage[p] - 1) \subseteq DOMAIN done[p]
    BY <1>4, <2>1, SingleMutation
  <2>3. Len(done[p]) = stage[p] - 1
    <3>1. Len(done[p]) < stage[p]
      BY <2>1 DEF ProcInv, Carried
    <3>2. stage[p] > 1 => stage[p] - 1 \in DOMAIN done[p]
      BY <1>4, <2>2
    <3> QED BY <1>4, <3>1, <3>2
  <2>4. done'[p] = Append(done[p], call)
    BY <1>3, <1>7 DEF Types
  <2>5. /\ DOMAIN done'[p] = 1..stage[p] /\ Len(done'[p]) = stage[p]
        /\ done'[p][stage[p]] = call
        /\ \A i \in 1..(stage[p] - 1) : done'[p][i] = done[p][i]
    BY <1>4, <2>3, <2>4
  <2>6. \A i \in DOMAIN done'[p] : i <= stage[p] /\ plan[p][i] = {done'[p][i]}
    <3> SUFFICES ASSUME NEW i \in 1..stage[p] PROVE plan[p][i] = {done'[p][i]}
      BY <1>4, <2>5
    <3>1. CASE i = stage[p]
      BY <2>2, <2>5, <3>1
    <3>2. CASE i # stage[p]
      <4>1. i \in 1..(stage[p] - 1)
        BY <1>4, <3>2
      <4>2. i \in DOMAIN done[p]
        BY <2>2, <4>1
      <4> QED BY <2>5, <4>1, <4>2 DEF ProcInv, Carried
    <3> QED BY <3>1, <3>2
  <2>7. \A i \in 1..(stage[p] - 1) : i \in DOMAIN done'[p]
    BY <1>4, <2>5
  <2>8. \A c \in sent'[p] : c \notin Mutation
    BY <1>2, <2>2 DEF ProcInv, Flight
  <2>9. Carried(p)'
    BY <1>2, <2>6, <2>7, <2>8 DEF Carried
  <2>10. stage[p] \in DOMAIN done'[p]
    BY <1>4, <2>5
  <2>11. DOMAIN done[p] \subseteq DOMAIN done'[p]
    BY <1>4, <2>3, <2>5
  <2>12. Honest(p)'
    BY <1>2, <2>10, <2>11 DEF ProcInv, Honest
  <2> QED BY <1>2, <1>4, <1>5, <1>6, <2>9, <2>12 DEF ProcInv, Shaped, Fresh
<1>8. CASE ~carried
  <2>1. done'[p] = done[p]
    BY <1>3, <1>8
  <2>2. a.status = "ok" => a.call \notin Mutation
    BY <1>1, <1>8 DEF Mutation
  <2>3. Carried(p)' /\ Honest(p)'
    BY <1>2, <2>1, <2>2 DEF ProcInv, Carried, Honest
  <2> QED BY <1>2, <1>4, <1>5, <1>6, <2>3 DEF ProcInv, Shaped, Fresh
<1> QED BY <1>7, <1>8

LEMMA RejectedKeeps ==
    ASSUME Types, NEW p \in Proc, ProcInv(p), Answered(p),
           NEW a \in answers[p], Rejected(p, a)
    PROVE  ProcInv(p)'
<1>1. PICK how \in {"warned", "failed"} : Exit(p, how)
  BY DEF Rejected
<1>2. /\ UNCHANGED <<cmd, plan, stage, confirmed, sent, done>>
      /\ answers'[p] \subseteq answers[p] /\ cmd[p] \in Command
  BY DEF Answered, Rejected, serverVars, Types, ProcInv, Asked
<1> QED BY <1>1, <1>2, ExitKeeps

LEMMA KillKeeps ==
    ASSUME Types, NEW p \in Proc, ProcInv(p), Kill(p)
    PROVE  ProcInv(p)'
<1>1. /\ Exit(p, "killed") /\ cmd[p] \in Command
      /\ UNCHANGED <<cmd, plan, stage, confirmed, sent, done, answers>>
  BY DEF Kill, serverVars, ProcInv, Asked
<1> QED BY <1>1, ExitKeeps

\* deployment list only ever adds a stage of queries to its plan.
LEMMA NextStagesShaped ==
    ASSUME Types, NEW p \in Proc, ProcInv(p), NEW a \in answers[p]
    PROVE  /\ NextStages(p, a) \in Seq(SUBSET CallSet)
           /\ Shaped(NextStages(p, a))
           /\ Len(plan[p]) <= Len(NextStages(p, a))
           /\ plan[p] # <<>> => NextStages(p, a) # <<>>
           /\ \A i \in 1..Len(plan[p]) : NextStages(p, a)[i] = plan[p][i]
<1> DEFINE queries == {Call("metrics", d) : d \in a.having}
<1>1. plan[p] \in Seq(SUBSET CallSet) /\ Len(plan[p]) \in Nat /\ Shaped(plan[p])
  BY LenProperties DEF Types, ProcInv
<1>2. a.having \subseteq Deployment
  BY DEF Types, Answer
<1>3. queries \subseteq Query
  BY <1>2 DEF Query, CallSet, Call, Op, Reads, Target
<1>4. NextStages(p, a) \in {plan[p], Append(plan[p], queries)}
  BY DEF NextStages
<1> HIDE DEF queries
<1>5. CASE NextStages(p, a) = plan[p]
  BY <1>1, <1>5
<1>6. CASE NextStages(p, a) = Append(plan[p], queries)
  <2>1. /\ Append(plan[p], queries) \in Seq(SUBSET CallSet)
        /\ Append(plan[p], queries) # <<>>
        /\ Shaped(Append(plan[p], queries))
        /\ Len(Append(plan[p], queries)) = Len(plan[p]) + 1
        /\ \A i \in 1..Len(plan[p]) : Append(plan[p], queries)[i] = plan[p][i]
    BY <1>1, <1>3, AppendQueries
  <2> QED BY <1>1, <1>6, <2>1
<1> QED BY <1>4, <1>5, <1>6

LEMMA ResolvedKeeps ==
    ASSUME Types, NEW p \in Proc, ProcInv(p), Answered(p),
           NEW a \in answers[p], Resolved(p, a)
    PROVE  ProcInv(p)'
<1> DEFINE longer == NextStages(p, a)
<1>1. /\ answers'[p] = answers[p] \ {a} /\ plan'[p] = longer
      /\ UNCHANGED <<done, cmd, confirmed>>
      /\ pc[p] = "calling" /\ outcome[p] = "none" /\ a.status = "ok"
  BY DEF Answered, Resolved, Accepted, serverVars, Types, ProcInv
<1>2. /\ longer \in Seq(SUBSET CallSet) /\ Shaped(longer)
      /\ Len(plan[p]) <= Len(longer) /\ longer # <<>>
      /\ \A i \in 1..Len(plan[p]) : longer[i] = plan[p][i]
  BY NextStagesShaped DEF Answered, ProcInv
<1>3. /\ stage[p] \in 1..Len(plan[p]) /\ stage[p] \in Nat
      /\ Len(plan[p]) \in Nat /\ Len(longer) \in Nat
      /\ DOMAIN longer = 1..Len(longer)
      /\ Len(done[p]) \in Nat /\ DOMAIN done[p] = 1..Len(done[p])
  BY <1>2, LenProperties DEF ProcInv, Flight, Types
<1>4. a.call \in plan[p][stage[p]] /\ longer[stage[p]] = plan[p][stage[p]]
  BY <1>2, <1>3 DEF ProcInv, Flight
<1>5. Shaped(plan[p])' /\ plan'[p] # <<>>
  BY <1>1, <1>2 DEF Shaped
<1> HIDE DEF longer
<1>6. \A i \in 1..(stage[p] - 1) : i \in 1..Len(plan[p])
  BY <1>3
<1>7. \A i \in DOMAIN done[p] : i <= stage[p] /\ longer[i] = {done[p][i]}
  <2> SUFFICES ASSUME NEW i \in DOMAIN done[p]
               PROVE  i <= stage[p] /\ longer[i] = {done[p][i]}
    OBVIOUS
  <2>1. i <= stage[p] /\ plan[p][i] = {done[p][i]}
    BY DEF ProcInv, Carried
  <2>2. i \in 1..Len(plan[p])
    BY <1>3, <2>1
  <2> QED BY <1>2, <2>1, <2>2
<1>8. \A i \in 1..(stage[p] - 1) : \A call \in longer[i] :
          call \in Mutation => i \in DOMAIN done[p]
  BY <1>2, <1>6 DEF ProcInv, Carried
<1>9. CASE ~StageDone(p, a)
  <2>1. UNCHANGED <<pc, outcome, stage, sent>>
    BY <1>9 DEF Resolved
  <2>2. Flight(p)'
    BY <1>1, <1>2, <1>3, <1>4, <2>1 DEF ProcInv, Flight
  <2>3. Carried(p)'
    BY <1>1, <1>7, <1>8, <2>1 DEF ProcInv, Carried
  <2>4. Honest(p)' /\ Asked(p)'
    BY <1>1, <2>1 DEF ProcInv, Honest, Asked
  <2> QED BY <1>1, <1>5, <2>1, <2>2, <2>3, <2>4 DEF ProcInv
<1>10. CASE StageDone(p, a)
  <2>1. answers'[p] = {} /\ sent[p] = {}
    BY <1>1, <1>10 DEF StageDone
  <2>2. \A call \in longer[stage[p]] : call \in Mutation => stage[p] \in DOMAIN done[p]
    <3> SUFFICES ASSUME NEW call \in plan[p][stage[p]], call \in Mutation
                 PROVE  stage[p] \in DOMAIN done[p]
      BY <1>4
    <3>1. plan[p][stage[p]] = {call}
      BY <1>3, SingleMutation
    <3>2. a.call = call
      BY <1>4, <3>1
    <3> QED BY <1>1, <3>2 DEF ProcInv, Honest
  <2>3. \A i \in 1..stage[p] : \A call \in longer[i] :
            call \in Mutation => i \in DOMAIN done[p]
    <3> SUFFICES ASSUME NEW i \in 1..stage[p], NEW call \in longer[i], call \in Mutation
                 PROVE  i \in DOMAIN done[p]
      OBVIOUS
    <3>1. i = stage[p] \/ i \in 1..(stage[p] - 1)
      BY <1>3
    <3> QED BY <1>8, <2>2, <3>1
  <2>4. CASE stage[p] < Len(longer)
    <3>1. /\ stage'[p] = stage[p] + 1 /\ sent'[p] = longer[stage[p] + 1]
          /\ UNCHANGED <<pc, outcome>>
      BY <1>10, <2>4 DEF Resolved, SendStage, Types, longer
    <3>2. Flight(p)'
      BY <1>1, <1>3, <2>1, <2>4, <3>1 DEF Flight
    <3>3. Len(done[p]) < stage[p] + 1
      <4>1. Len(done[p]) # 0 => Len(done[p]) \in DOMAIN done[p]
        BY <1>3
      <4>2. Len(done[p]) # 0 => Len(done[p]) <= stage[p]
        BY <1>7, <4>1
      <4> QED BY <1>3, <4>2
    <3>4. Carried(p)'
      BY <1>1, <1>3, <1>7, <2>3, <3>1, <3>3 DEF Carried
    <3>5. Honest(p)' /\ Asked(p)'
      BY <1>1, <1>3, <2>1, <3>1 DEF ProcInv, Honest, Asked
    <3> QED BY <1>1, <1>5, <3>1, <3>2, <3>4, <3>5 DEF ProcInv
  <2>5. CASE ~(stage[p] < Len(longer))
    <3>1. /\ Exit(p, "success") /\ UNCHANGED <<stage, sent>>
      BY <1>10, <2>5 DEF Resolved, longer
    <3>2. pc'[p] = "exited" /\ outcome'[p] = "success"
      BY <3>1 DEF Exit, Types
    <3>3. stage[p] = Len(longer)
      BY <1>2, <1>3, <2>5
    <3>4. Flight(p)' /\ Carried(p)'
      BY <1>1, <1>3, <1>7, <1>8, <2>1, <3>1, <3>3 DEF Flight, Carried
    <3>5. Honest(p)' /\ Asked(p)'
      BY <1>1, <1>3, <2>1, <2>3, <3>1, <3>2, <3>3 DEF ProcInv, Honest, Asked
    <3> QED BY <1>5, <3>2, <3>4, <3>5 DEF ProcInv
  <2> QED BY <2>4, <2>5
<1> QED BY <1>9, <1>10

-----------------------------------------------------------------------------
(* Types                                                                   *)

LEMMA TypesFromTypeOK == TypeOK => Types
BY DEF TypeOK, Types

\* The types of what the server has: a call it accepts keeps them.
LEMMA ServerTyped ==
    ASSUME TypeOK, NEW call \in CallSet, Verdict(call) = "ok", call.op \notin Reads
    PROVE  ExistsAfter(call) \subseteq Target
           /\ ReleasesAfter(call) \in [Deployment -> Seq(Content)]
<1>1. /\ call.target \in Target /\ call.to \in Target
      /\ call.op \in {"clear", "promote", "rollback"}
         => call.target \in Deployment /\ call.to \in Deployment
      /\ call.op = "rename" /\ call.target \in Deployment => call.to \in Deployment
  BY DEF CallSet, DeploymentOp
<1>2. exists \subseteq Target /\ releases \in [Deployment -> Seq(Content)]
  BY DEF TypeOK
<1>3. Came(call.target) \subseteq Target
  BY <1>1, AccountAssumption DEF Came, Target
<1>4. ExistsAfter(call) \subseteq Target
  BY <1>1, <1>2, <1>3 DEF ExistsAfter
<1>5. << >> \in Seq(Content)
  BY EmptySeq
<1>6. CASE call.op = "promote"
  <2>1. releases[call.target] # <<>>
    BY <1>6 DEF Verdict
  <2>2. Latest(call.target) \in Content
    BY <1>1, <1>2, <1>6, <2>1, EmptySeq, ElementOfSeq DEF Latest
  <2>3. Append(releases[call.to], Latest(call.target)) \in Seq(Content)
    BY <1>1, <1>2, <1>6, <2>2
  <2>4. ReleasesAfter(call) = [releases EXCEPT ![call.to] = Append(@, Latest(call.target))]
    BY <1>6 DEF ReleasesAfter
  <2> QED BY <1>2, <1>4, <2>3, <2>4
<1>7. CASE call.op = "rollback"
  <2>1. ~(Len(releases[call.target]) < 2)
    BY <1>7 DEF Verdict
  <2>2. releases[call.target] \in Seq(Content)
    BY <1>1, <1>2, <1>7
  <2>3. Len(releases[call.target]) - 1 \in 1..Len(releases[call.target])
    BY <2>1, <2>2, LenProperties
  <2>4. Append(releases[call.target], releases[call.target][Len(releases[call.target]) - 1])
            \in Seq(Content)
    BY <2>2, <2>3, ElementOfSeq
  <2>5. ReleasesAfter(call) = [releases EXCEPT ![call.target] =
            Append(releases[call.target], releases[call.target][Len(releases[call.target]) - 1])]
    BY <1>1, <1>2, <1>7 DEF ReleasesAfter
  <2> QED BY <1>2, <1>4, <2>4, <2>5
<1>8. CASE call.op \notin {"promote", "rollback"}
  BY <1>1, <1>2, <1>4, <1>5, <1>8 DEF ReleasesAfter
<1> QED BY <1>6, <1>7, <1>8

Ending ==
    /\ pc \in [Proc -> {"idle", "confirm", "calling", "exited"}]
    /\ outcome \in [Proc -> {"none", "success", "warned", "cancelled", "aborted",
                             "refused", "failed", "killed"}]
    /\ \A p \in Proc : pc[p] = "exited" <=> outcome[p] # "none"

Sending == stage \in [Proc -> Nat] /\ sent \in [Proc -> SUBSET CallSet]

Rest ==
    /\ exists \subseteq Target
    /\ releases \in [Deployment -> Seq(Content)]
    /\ cmd \in [Proc -> Command \cup {NoCommand}]
    /\ plan \in [Proc -> Seq(SUBSET CallSet)]
    /\ confirmed \subseteq Proc
    /\ answers \in [Proc -> SUBSET Answer]
    /\ listed \in [Proc -> SUBSET Deployment]
    /\ metrics \in [Proc -> SUBSET Deployment]
    /\ done \in [Proc -> Seq(CallSet)]

LEMMA TypeOKParts == TypeOK <=> Ending /\ Sending /\ Rest
BY DEF TypeOK, Ending, Sending, Rest

LEMMA TypeOKPartsNext == TypeOK' <=> Ending' /\ Sending' /\ Rest'
BY DEF TypeOK, Ending, Sending, Rest

\* An invocation ends with an outcome, ...
LEMMA ExitTyped ==
    ASSUME Ending, NEW p \in Proc, NEW how, Exit(p, how),
           how \in {"success", "warned", "cancelled", "aborted", "refused", "failed", "killed"}
    PROVE  Ending'
BY DEF Ending, Exit

\* ... and goes on without one.
LEMMA GoOnTyped ==
    ASSUME Ending, NEW p \in Proc, NEW label \in {"confirm", "calling"}, outcome[p] = "none",
           pc' = [pc EXCEPT ![p] = label], UNCHANGED outcome
    PROVE  Ending'
BY DEF Ending

LEMMA SendTyped ==
    ASSUME Sending, NEW p \in Proc, NEW thePlan, NEW i \in Nat,
           thePlan[i] \in SUBSET CallSet, SendStage(p, thePlan, i)
    PROVE  Sending'
BY DEF Sending, SendStage

LEMMA TypeOKStep ==
    ASSUME IInv, NEW p \in Proc, ProcNext(p)
    PROVE  TypeOK'
<1>0. /\ Types /\ ProcInv(p) /\ TypeOK /\ Ending /\ Sending /\ Rest
      /\ pc[p] # "exited" => outcome[p] = "none"
  BY TypesFromTypeOK, TypeOKParts DEF IInv, ProcInv
<1> SUFFICES Ending' /\ Sending' /\ Rest'
  BY TypeOKPartsNext
<1>1. CASE Start(p)
  <2>1. PICK c \in Command :
            /\ cmd' = [cmd EXCEPT ![p] = c]
            /\ plan' = [plan EXCEPT ![p] = Plan(c)]
            /\ \/ /\ pc' = [pc EXCEPT ![p] = "confirm"]
                  /\ UNCHANGED <<stage, sent, outcome>>
               \/ /\ pc' = [pc EXCEPT ![p] = "calling"]
                  /\ SendStage(p, Plan(c), 1)
                  /\ UNCHANGED outcome
               \/ /\ Exit(p, "refused")
                  /\ UNCHANGED <<stage, sent>>
    BY <1>1 DEF Start
  <2>2. Plan(c) \in Seq(SUBSET CallSet) /\ Plan(c)[1] \in SUBSET CallSet
    BY PlanShaped, EmptySeq, ElementOfSeq
  <2>3. pc[p] = "idle" /\ outcome[p] = "none"
    BY <1>0, <1>1 DEF Start
  <2>4. UNCHANGED <<serverVars, confirmed, answers, listed, metrics>>
    BY <1>1 DEF Start
  <2>5. Ending'
    BY <1>0, <2>1, <2>3, ExitTyped, GoOnTyped
  <2>6. Sending'
    BY <1>0, <2>1, <2>2, SendTyped DEF Sending
  <2>7. Rest'
    BY <1>0, <2>1, <2>2, <2>4 DEF Rest, serverVars
  <2> QED BY <2>5, <2>6, <2>7
<1>2. CASE Confirm(p)
  <2>1. plan[p][1] \in SUBSET CallSet
    BY <1>0, <1>2, EmptySeq, ElementOfSeq DEF Confirm, ProcInv, Types
  <2>2. \/ /\ confirmed' = confirmed \cup {p}
           /\ pc' = [pc EXCEPT ![p] = "calling"] /\ UNCHANGED outcome
           /\ SendStage(p, plan[p], 1)
        \/ /\ \E how \in {"cancelled", "aborted"} : Exit(p, how)
           /\ UNCHANGED <<confirmed, stage, sent>>
    BY <1>2 DEF Confirm
  <2>3. Ending'
    BY <1>0, <1>2, <2>2, ExitTyped, GoOnTyped DEF Confirm
  <2>4. Sending'
    BY <1>0, <2>1, <2>2, SendTyped DEF Sending
  <2>5. Rest'
    BY <1>0, <1>2, <2>2 DEF Confirm, Rest, serverVars
  <2> QED BY <2>3, <2>4, <2>5
<1>3. ASSUME Answered(p), NEW a \in answers[p], Rejected(p, a)
      PROVE  Ending' /\ Sending' /\ Rest'
  <2>1. Ending'
    BY <1>0, <1>3, ExitTyped DEF Rejected
  <2>2. Sending'
    BY <1>0, <1>3 DEF Rejected, Sending
  <2>3. /\ answers' = [answers EXCEPT ![p] = @ \ {a}]
        /\ UNCHANGED <<exists, releases, done, cmd, confirmed, plan, listed, metrics>>
    BY <1>0, <1>3 DEF Answered, Rejected, serverVars, Rest
  <2>4. Rest'
    BY <1>0, <2>3 DEF Rest
  <2> QED BY <2>1, <2>2, <2>4
<1>4. ASSUME Answered(p), NEW a \in answers[p], Resolved(p, a)
      PROVE  Ending' /\ Sending' /\ Rest'
  <2>1. /\ NextStages(p, a) \in Seq(SUBSET CallSet)
        /\ Len(NextStages(p, a)) \in Nat
    BY <1>0, NextStagesShaped, LenProperties
  <2>2. stage[p] < Len(NextStages(p, a)) =>
            NextStages(p, a)[stage[p] + 1] \in SUBSET CallSet
    <3>1. stage[p] < Len(NextStages(p, a)) => stage[p] + 1 \in 1..Len(NextStages(p, a))
      BY <1>0, <2>1 DEF Sending
    <3> QED BY <2>1, <3>1, ElementOfSeq
  <2>3. /\ a.having \subseteq Deployment
        /\ a.call.op = "metrics" => a.call.target \in Deployment
    BY <1>0, <1>4 DEF Answer, CallSet, DeploymentOp, Types
  <2>4. /\ answers' = [answers EXCEPT ![p] = @ \ {a}]
        /\ plan' = [plan EXCEPT ![p] = NextStages(p, a)]
        /\ listed' \in {listed, [listed EXCEPT ![p] = a.having]}
        /\ UNCHANGED <<exists, releases, done, cmd, confirmed>>
    BY <1>4 DEF Answered, Resolved, serverVars
  <2>5. metrics' \in [Proc -> SUBSET Deployment]
    BY <1>0, <1>4, <2>3 DEF Resolved, Rest
  <2>6. Rest'
    BY <1>0, <2>1, <2>3, <2>4, <2>5 DEF Rest
  <2>7. \/ UNCHANGED <<pc, outcome, stage, sent>>
        \/ /\ stage[p] < Len(NextStages(p, a))
           /\ SendStage(p, NextStages(p, a), stage[p] + 1)
           /\ UNCHANGED <<pc, outcome>>
        \/ Exit(p, "success") /\ UNCHANGED <<stage, sent>>
    BY <1>4 DEF Resolved
  <2>8. Ending'
    <3>1. UNCHANGED <<pc, outcome>> => Ending'
      BY <1>0 DEF Ending
    <3> QED BY <1>0, <2>7, <3>1, ExitTyped
  <2>9. Sending'
    <3>1. UNCHANGED <<stage, sent>> => Sending'
      BY <1>0 DEF Sending
    <3>2. stage[p] + 1 \in Nat
      BY <1>0 DEF Sending
    <3> QED BY <1>0, <2>2, <2>7, <3>1, <3>2, SendTyped
  <2> QED BY <2>6, <2>8, <2>9
<1>5. CASE Kill(p)
  <2>1. Ending'
    BY <1>0, <1>5, ExitTyped DEF Kill
  <2>2. Sending' /\ Rest'
    BY <1>0, <1>5 DEF Kill, Sending, Rest, serverVars
  <2> QED BY <2>1, <2>2
<1>6. ASSUME NEW call \in sent[p], Serve(p, call)
      PROVE  Ending' /\ Sending' /\ Rest'
  <2>1. call \in CallSet
    BY <1>0 DEF Types
  <2>2. Verdict(call) \in Status
    BY DEF Verdict, Status
  <2>3. PICK got \in {Verdict(call), "timeout"}, json \in BOOLEAN :
            answers' = [answers EXCEPT ![p] = @ \cup
                {[call |-> call, status |-> got, json |-> json,
                  having |-> {d \in Deployment : There(d) /\ releases[d] # <<>>}]}]
    BY <1>6 DEF Serve
  <2>4. answers' \in [Proc -> SUBSET Answer]
    BY <1>0, <2>1, <2>2, <2>3 DEF Answer, Status, Types
  <2>5. exists' \subseteq Target /\ releases' \in [Deployment -> Seq(Content)]
    BY <1>0, <1>6, <2>1, ServerTyped DEF Serve, Rest
  <2>6. done' \in [Proc -> Seq(CallSet)]
    BY <1>0, <1>6, <2>1 DEF Serve, Rest
  <2>7. /\ sent' = [sent EXCEPT ![p] = @ \ {call}]
        /\ UNCHANGED <<cmd, pc, plan, stage, confirmed, listed, metrics, outcome>>
    BY <1>6 DEF Serve
  <2>8. Ending' /\ Sending'
    BY <1>0, <2>7 DEF Ending, Sending
  <2>9. Rest'
    BY <1>0, <2>4, <2>5, <2>6, <2>7 DEF Rest
  <2> QED BY <2>8, <2>9
<1>7. ASSUME NEW call \in sent[p], Lose(p, call)
      PROVE  Ending' /\ Sending' /\ Rest'
  <2>1. call \in CallSet
    BY <1>0 DEF Types
  <2>2. [call |-> call, status |-> "timeout", json |-> FALSE, having |-> {}] \in Answer
    BY <2>1 DEF Answer, Status
  <2>3. Ending' /\ Sending'
    BY <1>0, <1>7 DEF Lose, Ending, Sending
  <2>4. Rest'
    BY <1>0, <1>7, <2>2 DEF Lose, Rest, serverVars
  <2> QED BY <2>3, <2>4
<1> QED BY <1>1, <1>2, <1>3, <1>4, <1>5, <1>6, <1>7 DEF ProcNext, Answered

-----------------------------------------------------------------------------
(* The theorems                                                            *)

LEMMA Initially == Init => IInv
<1> SUFFICES ASSUME Init PROVE IInv
  OBVIOUS
<1>1. TypeOK
  BY AccountAssumption DEF Init, TypeOK
<1>2. ASSUME NEW p \in Proc PROVE ProcInv(p)
  <2>1. /\ cmd[p] = NoCommand /\ pc[p] = "idle" /\ plan[p] = <<>> /\ stage[p] = 0
        /\ sent[p] = {} /\ answers[p] = {} /\ outcome[p] = "none" /\ done[p] = <<>>
    BY DEF Init
  <2>2. Len(plan[p]) = 0 /\ DOMAIN plan[p] = {} /\ DOMAIN done[p] = {}
    BY <2>1
  <2> QED BY <2>1, <2>2, AccountAssumption
          DEF ProcInv, Fresh, Flight, Carried, Honest, Asked, Shaped
<1> QED BY <1>1, <1>2 DEF IInv

LEMMA Inductive == IInv /\ [Next]_vars => IInv'
<1> SUFFICES ASSUME IInv, [Next]_vars PROVE IInv'
  OBVIOUS
<1>1. TypeOK /\ Types /\ \A p \in Proc : ProcInv(p)
  BY TypesFromTypeOK DEF IInv
<1>2. ASSUME NEW p \in Proc, ProcNext(p) PROVE IInv'
  <2>1. ProcInv(p)'
    BY <1>1, <1>2, StartKeeps, ConfirmKeeps, RejectedKeeps, ResolvedKeeps,
       ServeKeeps, LoseKeeps, KillKeeps DEF ProcNext, Answered
  <2>2. \A q \in Proc : q # p => ProcInv(q)'
    BY <1>1, <1>2, OthersSame, SameKeeps
  <2>3. TypeOK'
    BY <1>2, TypeOKStep
  <2> QED BY <2>1, <2>2, <2>3 DEF IInv
<1>3. CASE UNCHANGED vars
  <2>1. \A p \in Proc : Same(p)
    BY <1>3 DEF vars, serverVars, Same
  <2>2. \A p \in Proc : ProcInv(p)'
    BY <1>1, <2>1, SameKeeps
  <2>3. TypeOK'
    BY <1>1, <1>3 DEF TypeOK, vars, serverVars
  <2> QED BY <2>2, <2>3 DEF IInv
<1> QED BY <1>2, <1>3 DEF Next, ProcNext

LEMMA Invariance == Spec => []IInv
BY Initially, Inductive, PTL DEF Spec

\* Types, for any number of invocations, command lines and releases.
THEOREM TypeCorrect == Spec => []TypeOK
<1>1. IInv => TypeOK
  BY DEF IInv
<1> QED BY <1>1, Invariance, PTL

\* The server carries out the calls of an invocation in the order of its plan
\* and each at most once, whatever is lost, killed, retried or interleaved.
THEOREM ChangesInOrder == Spec => []DoneInOrder
<1>1. ASSUME IInv PROVE DoneInOrder
  <2> SUFFICES ASSUME NEW p \in Proc, NEW i \in DOMAIN done[p]
               PROVE  i \in DOMAIN plan[p] /\ plan[p][i] = {done[p][i]}
    BY DEF DoneInOrder
  <2>1. Types /\ ProcInv(p)
    BY <1>1, TypesFromTypeOK DEF IInv
  <2>2. /\ i \in Nat \ {0} /\ i <= stage[p] /\ stage[p] \in 0..Len(plan[p])
        /\ DOMAIN plan[p] = 1..Len(plan[p]) /\ Len(plan[p]) \in Nat
    BY <2>1, LenProperties DEF Types, ProcInv, Carried, Flight
  <2> QED BY <2>1, <2>2 DEF ProcInv, Carried
<1> QED BY <1>1, Invariance, PTL

\* An invocation that reports success has had all its changes carried out.
THEOREM SuccessIsTrue == Spec => []SuccessMeansDone
<1>1. ASSUME IInv PROVE SuccessMeansDone
  <2> SUFFICES ASSUME NEW p \in Proc, outcome[p] = "success", NEW i \in DOMAIN plan[p],
                      NEW call \in plan[p][i], call.op \notin Reads
               PROVE  i \in DOMAIN done[p] /\ done[p][i] = call
    BY DEF SuccessMeansDone
  <2>1. Types /\ ProcInv(p)
    BY <1>1, TypesFromTypeOK DEF IInv
  <2>2. call \in Mutation
    BY <2>1, LenProperties, ElementOfSeq DEF Types, Mutation
  <2>3. i \in DOMAIN done[p]
    BY <2>1, <2>2 DEF ProcInv, Honest
  <2>4. plan[p][i] = {done[p][i]}
    BY <2>1, <2>3 DEF ProcInv, Carried
  <2> QED BY <2>3, <2>4
<1> QED BY <1>1, Invariance, PTL

\* Nothing that needs a confirmation is carried out without a "y".
THEOREM ConfirmedFirst == Spec => []OnlyConfirmedDone
<1>1. ASSUME IInv PROVE OnlyConfirmedDone
  <2> SUFFICES ASSUME NEW p \in Proc, done[p] # <<>>, cmd[p].name \in Confirmed
               PROVE  p \in confirmed
    BY DEF OnlyConfirmedDone
  <2>1. Types /\ ProcInv(p)
    BY <1>1, TypesFromTypeOK DEF IInv
  <2>2. Len(done[p]) \in Nat \ {0} /\ DOMAIN done[p] = 1..Len(done[p])
    BY <2>1, LenProperties, EmptySeq DEF Types
  <2>3. stage[p] > 0
    <3>1. 1 \in DOMAIN done[p]
      BY <2>2
    <3> QED BY <2>1, <3>1 DEF ProcInv, Carried, Types
  <2>4. cmd[p] \in Command
    BY <2>1, <2>3 DEF ProcInv, Asked, Fresh
  <2> QED BY <2>1, <2>3, <2>4 DEF ProcInv, Asked
<1> QED BY <1>1, Invariance, PTL
=============================================================================
