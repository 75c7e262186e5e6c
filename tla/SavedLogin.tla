----------------------------- MODULE SavedLogin -----------------------------
(***************************************************************************)
(* What the login session promises to a user who runs one command after    *)
(* another: a login is saved by a command that reports it, and only where  *)
(* none was; it is given up by a running command, and only when no session *)
(* that lives is lost with it; and whatever else happens (a command is     *)
(* refused, fails, is killed) leaves it as it was.  Nothing of this module *)
(* is in the code; CliSession implements it.                               *)
(***************************************************************************)
CONSTANTS
    Proc,     \* who runs commands
    Login,    \* what may be saved
    NoLogin   \* nothing is saved

VARIABLES
    saved,   \* the login that the next command will find
    report,  \* of each process: "running", or how the last command ended
    known,   \* logins that the server has accepted, or would
    free     \* logins that can be given up: no session is lost with them

vars == <<saved, report, known, free>>

Report == {"running", "ok", "loggedIn", "failed", "killed"}

Init ==
    /\ known \in SUBSET Login
    /\ free \in SUBSET Login
    /\ saved \in known \cup {NoLogin}
    /\ report = [p \in Proc |-> "ok"]

\* The command has not ended yet, or ends without a new login.
GoesOn(p, how) == report' = [report EXCEPT ![p] = how]

Save(p) ==
    /\ report[p] = "running"
    /\ saved = NoLogin
    /\ saved' \in known
    /\ GoesOn(p, "loggedIn")
    /\ UNCHANGED <<known, free>>

GiveUp(p) ==
    /\ report[p] = "running"
    /\ saved \in free
    /\ saved' = NoLogin
    /\ \E how \in {"running", "ok", "failed"} : GoesOn(p, how)
    /\ UNCHANGED <<known, free>>

\* A command begins, goes on or ends, and the login stays.
Keep(p) ==
    /\ \E how \in Report \ {"loggedIn"} : GoesOn(p, how)
    /\ UNCHANGED <<saved, known, free>>

\* The server accepts more logins, and ends sessions, but undoes neither.
Learn ==
    /\ known' \in SUBSET Login /\ known \subseteq known'
    /\ free' \in SUBSET Login /\ free \subseteq free'
    /\ UNCHANGED <<saved, report>>

Next == Learn \/ \E p \in Proc : Save(p) \/ GiveUp(p) \/ Keep(p)

Spec == Init /\ [][Next]_vars
=============================================================================
