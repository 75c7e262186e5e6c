----------------------------- MODULE CommandLine -----------------------------
(***************************************************************************)
(* The command parser of the CLI: yargs checks the words and options of a  *)
(* line against the usage tables, and createCommand makes a command of     *)
(* what yargs has let pass.                                                *)
(*                                                                         *)
(* A line is a record of its words and of the options given, a function    *)
(* from their names to values.  Aliases are left out.  After a failed      *)
(* check yargs only shows the help, so that there is no command.           *)
(***************************************************************************)
EXTENDS Naturals, Sequences

CONSTANTS
    NoCommand, \* undefined
    Null

\* An option's value, or its default.
Option(line, option, default) ==
    IF option \in DOMAIN line.options THEN line.options[option] ELSE default

-----------------------------------------------------------------------------
(* Rollouts: how a percentage is spelled, and the number it begins with.   *)

Plain(n)      == [form |-> "plain", value |-> n]       \* 25
Percent(n)    == [form |-> "percent", value |-> n]     \* 25%
ZeroPadded(n) == [form |-> "zeroPadded", value |-> n]  \* 025
Fraction(n)   == [form |-> "fraction", value |-> n]    \* 25.5
Empty         == [form |-> "empty", value |-> 0]
Everyone      == Percent(100)
NoRollout     == [form |-> "null", value |-> 0]

ROLLOUT_PERCENTAGE_REGEX(r) == r.form \in {"plain", "percent"} /\ r.value \in 1..100

RolloutOf(line, default) == Option(line, "rollout", default)

isValidRollout(line, default) ==
    RolloutOf(line, default).form \notin {"empty", "null"} =>
        ROLLOUT_PERCENTAGE_REGEX(RolloutOf(line, default))

\* Mutant: the name of the deployment is checked, the rollout is not.
DeploymentNameOnly_(line, default) == Option(line, "deploymentName", "Staging") # ""

checkValidReleaseOptions(line, default) ==
    /\ isValidRollout(line, default)
    /\ Option(line, "deploymentName", "Staging") # ""

\* parseInt of what comes before the percent sign.
getRolloutValue(r) == IF r.form \in {"empty", "null"} THEN Null ELSE r.value

-----------------------------------------------------------------------------
(* The usage tables: how many words may follow the words of a command, and *)
(* which options it knows.                                                 *)

Usage(args, options) == [args |-> args, options |-> options, check |-> "none"]

accessKeyAdd           == Usage(1..1, {})
accessKeyList          == Usage(0..0, {"format"})
accessKeyRemove        == Usage(1..1, {})
appList                == Usage(0..0, {"format"})
appRemove              == Usage(1..1, {})
listCollaborators      == Usage(1..1, {"format"})
removeCollaborator     == Usage(2..2, {})
deploymentHistoryClear == Usage(2..2, {})
deploymentList         == Usage(1..1, {"format", "displayKeys"})
deploymentRemove       == Usage(2..2, {})
deploymentHistory      == Usage(2..2, {"format", "displayAuthor"})

\* The words after a category; access-key patch, app transfer and the sessions
\* are commented out.
AccessKeyUsage ==
    [add |-> accessKeyAdd, remove |-> accessKeyRemove, rm |-> accessKeyRemove,
     list |-> accessKeyList, ls |-> accessKeyList]

AppUsage ==
    [add |-> Usage(3..3, {}), remove |-> appRemove, rm |-> appRemove,
     rename |-> Usage(2..2, {}), list |-> appList, ls |-> appList]

CollaboratorUsage ==
    [add |-> Usage(2..2, {}), remove |-> removeCollaborator, rm |-> removeCollaborator,
     list |-> listCollaborators, ls |-> listCollaborators]

DeploymentUsage ==
    [add |-> Usage(1..2, {"default"}), clear |-> deploymentHistoryClear,
     remove |-> deploymentRemove, rm |-> deploymentRemove, rename |-> Usage(3..3, {}),
     list |-> deploymentList, ls |-> deploymentList,
     history |-> deploymentHistory, h |-> deploymentHistory]

CategoryUsage ==
    [w \in {"access-key", "app", "collaborator", "deployment"} |->
        CASE w = "access-key"   -> AccessKeyUsage
          [] w = "app"          -> AppUsage
          [] w = "collaborator" -> CollaboratorUsage
          [] w = "deployment"   -> DeploymentUsage]

\* Commands of a single word.
SessionUsage ==
    [debug |-> Usage(1..1, {}), link |-> Usage(0..1, {}),
     login |-> Usage(0..1, {"accessKey", "proxy", "noProxy"}), logout |-> Usage(0..0, {}),
     register |-> Usage(0..1, {"proxy", "noProxy"}), whoami |-> Usage(0..0, {})]

PatchUsage ==
    [args |-> 2..2, check |-> "rollout",
     options |-> {"label", "description", "disabled", "mandatory", "rollout",
                  "targetBinaryVersion"}]

PromoteUsage ==
    [PatchUsage EXCEPT !.args = 3..3, !.options = @ \cup {"noDuplicateReleaseError"}]

ReleaseUsage ==
    [args |-> 3..3, check |-> "release",
     options |-> {"deploymentName", "description", "disabled", "mandatory",
                  "noDuplicateReleaseError", "rollout"}]

ReleaseCordovaUsage ==
    [ReleaseUsage EXCEPT !.args = 2..2,
                         !.options = @ \cup {"build", "isReleaseBuildType", "targetBinaryVersion"}]

ReleaseReactUsage ==
    [ReleaseUsage EXCEPT !.args = 2..2,
        !.options = @ \cup {"bundleName", "development", "entryFile", "gradleFile", "plistFile",
                            "plistFilePrefix", "sourcemapOutput", "targetBinaryVersion",
                            "outputDir"}]

RollbackUsage == Usage(2..2, {"targetRelease"})

SessionWords == {"debug", "link", "login", "logout", "register", "whoami"}
UpdateWords == {"patch", "promote", "release", "release-cordova", "release-react", "rollback"}

WordUsage ==
    [w \in SessionWords \cup UpdateWords |->
        CASE w \in SessionWords      -> SessionUsage[w]
          [] w = "patch"           -> PatchUsage
          [] w = "promote"         -> PromoteUsage
          [] w = "release"         -> ReleaseUsage
          [] w = "release-cordova" -> ReleaseCordovaUsage
          [] w = "release-react"   -> ReleaseReactUsage
          [] w = "rollback"        -> RollbackUsage]

\* Does a line pass what yargs checks of a command?  The words of the command
\* itself do not count.
Passes(line, usage, own) ==
    /\ Len(line.words) - own \in usage.args
    /\ DOMAIN line.options \subseteq usage.options
    /\ CASE usage.check = "rollout" ->
              isValidRollout(line, IF line.words[1] = "patch" THEN NoRollout ELSE Everyone)
         [] usage.check = "release" -> checkValidReleaseOptions(line, Everyone)
         [] OTHER -> TRUE

Word(line, i) == IF i \in DOMAIN line.words THEN line.words[i] ELSE ""

\* An unknown category fails the check of isValidCommandCategory, an unknown
\* word after one that of isValidCommand.
HelpShown(line) ==
    LET w == Word(line, 1) IN
    ~ \/ w \in DOMAIN WordUsage /\ Passes(line, WordUsage[w], 1)
      \/ /\ w \in DOMAIN CategoryUsage
         /\ Word(line, 2) \in DOMAIN CategoryUsage[w]
         /\ Passes(line, CategoryUsage[w][Word(line, 2)], 2)

-----------------------------------------------------------------------------
(* createCommand: which words have to be there and not to be empty, by the *)
(* words of the command ("if (arg2 && arg3)").                             *)

AccessKeyCommands ==
    [add |-> {3}, patch |-> {3}, list |-> {}, ls |-> {}, remove |-> {3}, rm |-> {3}]

AppCommands ==
    [add |-> {3}, list |-> {}, ls |-> {}, remove |-> {3}, rm |-> {3},
     rename |-> {3, 4}, transfer |-> {3, 4}]

CollaboratorCommands ==
    [add |-> {3, 4}, list |-> {3}, ls |-> {3}, remove |-> {3, 4}, rm |-> {3, 4}]

\* Mutant: --default does not do without a name.
DeploymentAlwaysNamed_(default) ==
    [add |-> {3, 4}, clear |-> {3, 4}, list |-> {3}, ls |-> {3}, remove |-> {3, 4},
     rm |-> {3, 4}, rename |-> {3, 4, 5}, history |-> {3, 4}, h |-> {3, 4}]

DeploymentCommands(default) ==
    [add |-> IF default THEN {3} ELSE {3, 4}, clear |-> {3, 4}, list |-> {3}, ls |-> {3},
     remove |-> {3, 4}, rm |-> {3, 4}, rename |-> {3, 4, 5}, history |-> {3, 4},
     h |-> {3, 4}]

SessionCommands == [list |-> {}, ls |-> {}, remove |-> {3}, rm |-> {3}]

CategoryCommands(line) ==
    [w \in {"access-key", "app", "collaborator", "deployment", "session"} |->
        CASE w = "access-key"   -> AccessKeyCommands
          [] w = "app"          -> AppCommands
          [] w = "collaborator" -> CollaboratorCommands
          [] w = "deployment"   -> DeploymentCommands(Option(line, "default", FALSE))
          [] w = "session"      -> SessionCommands]

WordCommands ==
    [w \in SessionWords \cup UpdateWords |->
        CASE w \in SessionWords           -> {}
          [] w \in {"promote", "release"} -> {2, 3, 4}
          [] OTHER                        -> {2, 3}]

Has(line, positions) == \A i \in positions : Word(line, i) # ""

Verb(word) == CASE word = "ls" -> "list" [] word = "rm" -> "remove"
                [] word = "h" -> "history" [] OTHER -> word

\* The words of the type of the command made of a line, <<>> if there is none.
CommandType(line) ==
    LET w == Word(line, 1)
        v == Word(line, 2)
    IN  CASE w \in DOMAIN WordCommands /\ Has(line, WordCommands[w]) -> <<w>>
          [] w \in DOMAIN CategoryCommands(line)
             /\ v \in DOMAIN CategoryCommands(line)[w]
             /\ Has(line, CategoryCommands(line)[w][v]) -> <<w, Verb(v)>>
          [] OTHER -> <<>>

\* A server's URL as it is spelled: "https:\" is how Git Bash passes on
\* "https://"; a slash and a space may follow.
Url(host, colon, slash, space) ==
    [host |-> host, colon |-> colon, slash |-> slash, space |-> space]

getServerUrl(line) ==
    IF Word(line, 2) = "" THEN Null
    ELSE [line.url EXCEPT !.space = FALSE, !.slash = FALSE, !.colon = "://"]

\* The fields of a command the rest of the program depends on; "given" are the
\* options whose value is not null (an empty description or rollout is).
createCommand(line) ==
    LET type == CommandType(line)
        Given(option) == Option(line, option, Null)
    IN  IF HelpShown(line) \/ type = <<>> THEN NoCommand
        ELSE [type |-> type,
              rollout |-> getRolloutValue(
                  RolloutOf(line, IF type = <<"patch">> THEN NoRollout ELSE Everyone)),
              version |-> IF type = <<"release">> THEN Word(line, 4)
                                                  ELSE Given("targetBinaryVersion"),
              given |-> {o \in DOMAIN line.options :
                           /\ o = "description" => Given(o) # ""
                           /\ o = "rollout" => Given(o) # Empty},
              server |-> IF type[1] \in {"link", "login", "register"}
                         THEN getServerUrl(line) ELSE Null,
              proxy |-> Given("proxy"),
              noProxy |-> Option(line, "noProxy", FALSE)]
=============================================================================
