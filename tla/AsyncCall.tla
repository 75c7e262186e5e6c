------------------------------ MODULE AsyncCall ------------------------------
(***************************************************************************)
(* What an asynchronous operation promises to its caller: that it is       *)
(* answered once, by its callback or its promise, at once or later.  An    *)
(* operation that throws into its caller's face was never begun.           *)
(***************************************************************************)
CONSTANTS
    Call,     \* the calls considered
    Result,   \* what they may be answered
    NoResult  \* not answered

VARIABLES
    begun,  \* calls whose caller expects an answer
    result  \* the answers

vars == <<begun, result>>

Init ==
    /\ begun = {}
    /\ result = [c \in Call |-> NoResult]

Begin(c) ==
    /\ c \notin begun
    /\ begun' = begun \cup {c}
    /\ result' \in {result} \cup {[result EXCEPT ![c] = r] : r \in Result}

Answer(c) ==
    /\ c \in begun
    /\ result[c] = NoResult
    /\ \E r \in Result : result' = [result EXCEPT ![c] = r]
    /\ UNCHANGED begun

Next == \E c \in Call : Begin(c) \/ Answer(c)

\* Answered at most once ...
Safe == Init /\ [][Next]_vars

\* ... and in the end.
Spec == Safe /\ \A c \in Call : WF_vars(Answer(c))
=============================================================================
