---------------------------- MODULE AtomicRelease ----------------------------
(***************************************************************************)
(* What a release command promises to its user: what it sends to the       *)
(* server is the folder as it was at one instant, although its files are   *)
(* written, read and deleted one by one; before that the command writes    *)
(* only files of its own making, and after that it only deletes; the       *)
(* server stores what was sent, once at most, and possibly after the       *)
(* command has ended; but a command that reports success leaves nothing    *)
(* under way.  Nothing of this module is in the code; ReleaseCommands      *)
(* implements it where no two processes work with the same folder.         *)
(***************************************************************************)
CONSTANTS
    Proc,      \* processes, each with a folder of its own
    Part,      \* the files of a folder
    Content,   \* what a folder may hold: for each file, who wrote it
    NoFile,    \* a file that is not there
    Gone,      \* a folder that is not there
    NoUpdate   \* nothing was sent, or published

VARIABLES
    disk,     \* the folder of each process
    sent,     \* what each process has sent
    update,   \* what the server has published for each process
    report    \* "running", or what the process said when it ended

vars == <<disk, sent, update, report>>

Init ==
    /\ disk \in [Proc -> Content \cup {Gone}]
    /\ sent = [p \in Proc |-> NoUpdate]
    /\ update = [p \in Proc |-> NoUpdate]
    /\ report = [p \in Proc |-> "running"]

\* Every file that is there afterwards was there before or was written by p.
WrittenBy(p, before, after) ==
    after # Gone => \A x \in Part :
        after[x] \in {p, NoFile} \/ (before # Gone /\ after[x] = before[x])

\* Files are gone, or the folder, and nothing else is different.
OnlyDeleted(before, after) ==
    after # Gone => before # Gone /\ \A x \in Part : after[x] \in {NoFile, before[x]}

Write(p) ==
    /\ report[p] = "running" /\ sent[p] = NoUpdate
    /\ \E after \in Content \cup {Gone} :
          /\ WrittenBy(p, disk[p], after)
          /\ disk' = [disk EXCEPT ![p] = after]
    /\ UNCHANGED <<sent, update, report>>

\* All of the folder in one step.
Send(p) ==
    /\ report[p] = "running" /\ sent[p] = NoUpdate
    /\ disk[p] # Gone
    /\ sent' = [sent EXCEPT ![p] = disk[p]]
    /\ UNCHANGED <<disk, update, report>>

\* The server's step; it asks nothing of the process.
Store(p) ==
    /\ sent[p] # NoUpdate /\ update[p] = NoUpdate
    /\ update' = [update EXCEPT ![p] = sent[p]]
    /\ UNCHANGED <<disk, sent, report>>

\* A failure may be reported whatever the server has done or will do; a success
\* only when it has all that was sent.
Delete(p) ==
    /\ report[p] = "running"
    /\ \E after \in Content \cup {Gone}, how \in {"running", "done", "failed"} :
          /\ OnlyDeleted(disk[p], after)
          /\ how = "done" => update[p] = sent[p]
          /\ disk' = [disk EXCEPT ![p] = after]
          /\ report' = [report EXCEPT ![p] = how]
    /\ UNCHANGED <<sent, update>>

Next == \E p \in Proc : Write(p) \/ Send(p) \/ Store(p) \/ Delete(p)

Spec == Init /\ [][Next]_vars
=============================================================================
