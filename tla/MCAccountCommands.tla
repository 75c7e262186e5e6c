------------------------- MODULE MCAccountCommands -------------------------
(* Instances of AccountCommands for TLC: command lines for one app with two *)
(* deployments, an access key and the session of another machine.           *)
EXTENDS AccountCommands, TLC

CONSTANTS i1, i2, app, newName, account, stg, prod, key, mate, other, c1, c2

Line(name, target, to, tolerant) ==
    [name |-> name, target |-> target, to |-> to, tolerant |-> tolerant]
Plain(name, target) == Line(name, target, target, FALSE)

\* Commands of several calls, and those that get in their way.
SharedApp == {
    Plain("appRemove", app),
    Plain("deploymentAddDefault", app),
    Plain("deploymentRemove", stg),
    Plain("deploymentHistoryClear", stg),
    Line("promote", stg, prod, TRUE),
    Plain("rollback", prod),
    Plain("deploymentList", app) }

\* Every command of the module.
Everything == SharedApp \cup {
    Plain("accessKeyAdd", key),
    Plain("accessKeyPatch", key),
    Plain("accessKeyRemove", key),
    Plain("appAdd", app),
    Line("appRename", app, newName, FALSE),
    Plain("appTransfer", app),
    Plain("collaboratorAdd", mate),
    Plain("collaboratorRemove", mate),
    Plain("deploymentAdd", stg),
    Line("deploymentRename", stg, prod, FALSE),
    Plain("deploymentHistory", stg),
    Plain("list", account),
    Line("promote", stg, prod, FALSE),
    Plain("patch", stg),
    Plain("sessionRemove", other) }

NoReleases == [d \in {stg, prod} |-> <<>>]
SomeReleases == {
    NoReleases,
    [NoReleases EXCEPT ![stg] = <<c1>>],
    [NoReleases EXCEPT ![stg] = <<c1>>, ![prod] = <<c1, c2>>],
    [NoReleases EXCEPT ![stg] = <<c1>>, ![prod] = <<c1>>] }

\* Two invocations meet with commands of SharedApp; any other has the app for
\* itself.  The two are alike, so the first to start is called i1, and these
\* commands know neither of keys nor of collaborators, so there are none.
MeetOnSharedApp ==
    /\ cmd[i1] = NoCommand => cmd[i2] = NoCommand
    /\ cmd[i2] # NoCommand =>
          {cmd[i1], cmd[i2]} \subseteq SharedApp /\ {key, mate} \cap exists = {}
=============================================================================
