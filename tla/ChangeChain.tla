----------------------------- MODULE ChangeChain -----------------------------
(***************************************************************************)
(* What a command that changes something promises to its user, whoever     *)
(* else works on the same account: the changes it consists of are made one *)
(* after the other, each once, none before a confirmation that it needs;   *)
(* what it reports in the end is true; and when it has ended, there is at  *)
(* most one change that may still be made for it, after a failure or a     *)
(* kill.  Nothing of this module is in the code; AccountCommands           *)
(* implements it.                                                          *)
(***************************************************************************)
EXTENDS Naturals, Sequences

CONSTANTS
    Proc,     \* invocations
    Order,    \* what a user may order
    NoOrder,  \* nothing was ordered yet
    Asks,     \* orders that are confirmed first
    Chain     \* the changes of each order

VARIABLES
    order,   \* of each invocation
    yes,     \* invocations that were confirmed
    made,    \* the changes made so far, in their order
    open,    \* invocations for which a change may still be made
    report   \* what the invocation said when it ended, "none" before

vars == <<order, yes, made, open, report>>

Init ==
    /\ order = [p \in Proc |-> NoOrder]
    /\ yes = {}
    /\ made = [p \in Proc |-> <<>>]
    /\ open = Proc
    /\ report = [p \in Proc |-> "none"]

Take(p) ==
    /\ order[p] = NoOrder
    /\ \E o \in Order : order' = [order EXCEPT ![p] = o]
    /\ \/ UNCHANGED <<open, report>>
       \/ open' = open \ {p} /\ report' = [report EXCEPT ![p] = "refused"]
    /\ UNCHANGED <<yes, made>>

Agree(p) ==
    /\ order[p] \in Asks /\ report[p] = "none"
    /\ yes' = yes \cup {p}
    /\ UNCHANGED <<order, made, open, report>>

\* The next change is made; after the end no other one will be.
Make(p) ==
    /\ p \in open
    /\ order[p] \in Order
    /\ order[p] \in Asks => p \in yes
    /\ Len(made[p]) < Len(Chain[order[p]])
    /\ made' = [made EXCEPT ![p] = Append(@, Chain[order[p]][Len(@) + 1])]
    /\ open' = IF report[p] = "none" THEN open ELSE open \ {p}
    /\ UNCHANGED <<order, yes, report>>

\* What may be reported, and that all is over then unless it is a failure.
Finish(p) ==
    /\ order[p] \in Order /\ report[p] = "none"
    /\ \/ /\ report' = [report EXCEPT ![p] = "success"]
          /\ made[p] = Chain[order[p]]
          /\ open' = open \ {p}
       \/ /\ \E how \in {"warned", "cancelled", "aborted"} :
                report' = [report EXCEPT ![p] = how]
          /\ made[p] = <<>>
          /\ open' = open \ {p}
       \/ /\ \E how \in {"failed", "killed"} : report' = [report EXCEPT ![p] = how]
          /\ open' \in {open, open \ {p}}
    /\ UNCHANGED <<order, yes, made>>

\* The change that was left is not made.
Drop(p) ==
    /\ report[p] # "none"
    /\ open' = open \ {p}
    /\ UNCHANGED <<order, yes, made, report>>

Next == \E p \in Proc : Take(p) \/ Agree(p) \/ Make(p) \/ Finish(p) \/ Drop(p)

Spec == Init /\ [][Next]_vars
=============================================================================
