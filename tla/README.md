# CodePush CLI and SDKs: a verification development

This directory holds TLA+ models of the CodePush command-line tool, of the
management SDK it is built on and of what they do with files and servers; TLC
configurations that check the models on small instances; and proofs, checked by
TLAPS, that hold for every size of the instance.

Paths are relative to the repository (`src/cli`, `src/sdk`). `executor` stands
for `src/cli/script/command-executor.ts`, `SDK` for
`src/sdk/script/management-sdk.ts`, with line numbers after a colon.

## 1. The system

A `code-push` command is one operating-system process. `cli.ts` parses the
command line (`command-parser.ts`), calls `execute()` and ends with exit code 0
or, after a rejected promise, 1. Nothing runs between two commands: what
survives is `~/.code-push.config`, the folders on disk, and what the server
knows. Node is single-threaded, so a handler runs to its end, but every promise
and every file operation is a point where *another process* of the same user may
step in, where the process may be killed, and where a request may get lost.

| Component | State it keeps | Operations | Talks to |
| --- | --- | --- | --- |
| Login session (`executor`: 295-304, 439-490, 612-699, 1419-1440, 1486-1496, 1562-1619; `cli.ts`) | `~/.code-push.config`, shared by all processes of a user without a lock; the module variable `connectionInfo`; the `sdk` with its key | `login`, `register`, `link`, `logout`, `whoami`, and the entry of every other command; the wrapper that deletes the file on Unauthorized | server (`isAuthenticated`, `removeSession`), browser, user |
| Release commands (`executor`: 238-243, 306-316, 1175-1402, 1442-1531; `SDK`: 302-351, 371-426) | the folder of the update (`--outputDir` or `<tmpdir>/CodePush`), the temporary zip in the working directory | `release`, `release-cordova`, `release-react` | bundler and Cordova processes, file system, server |
| Account commands (`executor`: 74-437, 467-592, 1137-1173, 1404-1417) | none of their own; the server's apps, deployments, histories, keys | access keys, apps, collaborators, deployments, sessions, `promote`, `patch`, `rollback` | user (`confirm`), server |
| Management SDK (`SDK`) | the access key | one method per endpoint, all through `makeApiRequest` (444-487); `release` | server |
| Acquisition SDK (`src/sdk/script/acquisition-sdk.ts`) | its configuration | update check, reports of deployment and download | the requester of the application |
| Package hashing (`src/cli/script/hash-utils.ts`) | a manifest under construction, the open zip | manifest of a zip and of a folder, package hash | file system, unzipper |
| Proxy settings (`executor`: `getProxy`, 1486-1496) | three fields of the config file | resolution from flags and environment | - |
| Command parser (`command-parser.ts`, `definitions/cli.ts`) | the flags that say whether a word was known and help was shown | table of words and options, checks of arguments, making of a command | yargs |
| Version lookup (`executor`: 894-1069) | none | reads Info.plist, build.gradle and gradle.properties, appxmanifest | file system |
| Debug command (`commands/debug.ts`) | none but the log process | forwards the messages of CodePush in a device log | adb or the simulator's log |
| Printing, build scripts | none | formatting; build | - |

### What is hard, and what makes each part correct

*Login session.* Two processes read, truncate, write and delete one file.
`execute()` looks at the file once, at its start, and acts on it much later. An
answer may be older than the file. A kill can leave an empty file. The answer to
`removeSession` can be lost after the session has ended. Correct means: what is
in the file is a key the server accepted; a logout that deletes the file has
ended the session; no login is silently overwritten or deleted for the sake of
another one; a failed logout does not lose a live login; commands end.

*Release commands.* The default folder is shared by every process of the
machine. The bundler may fail, or be killed, with half its files written. The
promise of `release()` depends on a promise of another function. Deletions run
on while the process ends, and nobody hears when they fail. The server may
store an update before the process learns of it, or after the process is gone.
Correct means: what is published is the output of one's own bundler, whole; a
command that hears how its upload went leaves no zip; a success leaves the user's
folder alone; exit code 0 means released.

*Account commands.* Several calls in sequence or in parallel, any of which may
fail before or after it took effect, and a user or a collaborator who repeats or
undoes them at the same time. Correct means: changes happen in their order and
once; a success that is reported is true; a warning hides no change; destructive
calls follow a confirmation; a list waits for all of its parts.

*Acquisition SDK.* Calls overlap, the requester of the application answers them
in any order and with anything, and every argument but one may be left out, with
the callback in any place. Correct means: a callback is called exactly once, on
every path; a report of a deployment is one the server can understand.

*Hashing.* Something fails after part of the entries has been hashed; another
process changes the folder meanwhile; the names of a folder and those in the zip
packed from it are spelled by different functions. Correct means: a manifest is
complete or the promise is rejected, once; the zip is closed; a folder and its
zip have the same hash.

*Command line, connection, version, debug log.* What one function lets pass,
another one relies on: the usage tables and `createCommand`, the check of a
rollout and the reading of its number, what a login was given and what a later
process with another environment connects with, the versions found in a project
and those a release accepts, the lines of a log and the chunks it arrives in.
Correct means that each pair agrees, and that every process ends.

`PROJECT.json` lists the hazards at their lines with the properties that cover
them.

## 2. The modules

| Module | Models | Used by |
| --- | --- | --- |
| `CliSession` | login session, config file, Unauthorized wrapper | `MCCliSession`, `CliSessionProofs` |
| `ReleaseCommands` | the three release commands down to packaging and upload | `MCReleaseCommands`, `ReleaseCommandsProofs` |
| `AccountCommands` | the account commands as plans of server calls, `makeApiRequest`, `confirm` | `MCAccountCommands`, `AccountCommandsProofs`, `AccountOutcomesProofs` |
| `SavedLogin` | nothing of the code: what the commands of a user do to the saved login | `CliSession` implements it, one process at a time |
| `AtomicRelease` | nothing of the code: a release in one instant | `ReleaseCommands` implements it, with folders of their own |
| `ChangeChain` | nothing of the code: the changes of a command and its report | `AccountCommands` implements it |
| `AsyncCall` | nothing of the code: what an asynchronous call promises | `AcquisitionSdk` and `PackageManifest` implement it |
| `AcquisitionSdk` | the three methods of `AcquisitionManager` | `MCAcquisitionSdk`, `AcquisitionSdkProofs` |
| `PackageManifest` | the two functions that make a manifest | `MCPackageManifest`, `PackageManifestProofs` |
| `CommandLine` | usage tables and `createCommand`, operators without state | `CliProcess`, `CliOperatorProofs` |
| `ProjectVersion` | `getReactNativeProjectAppVersion`, operators without state | `CliProcess` |
| `DebugLog` | the filter of the debug command, operators without state | `CliProcess`, `CliOperatorProofs` |
| `CliProcess` | a process from its line to its exit, composing the three | `MCCliProcess`, `CliProcessProofs` |

`MC*` modules give the constants values and symmetry; `*Proofs` modules hold the
theorems (`CliOperatorProofs` the lemmas about the operators of `CommandLine` and
`DebugLog` that `CliProcessProofs` builds on). Operators whose names end in an underscore are *mutants*: plausible
bugs, used by no specification, with which each property was seen to fail
(`PROJECT.json`, "mutants").

`CliProcess` walks through every command, one process at a time, and keeps of
each what decides where it goes; the three modules about processes that overlap,
fail and are killed (`CliSession`, `ReleaseCommands`, `AccountCommands`) go into
the part that is theirs and are not composed into one. They meet in two places
only, and each models its side of them: `execute()` refuses a command without a login
(`CliSession`), after which the other two modules start with a key; and any 401
deletes the file (`CliSession.HandleUnauthorized`), while for the other two
modules a 401 is one of the answers that make a command fail.

### CliSession

*State.* `configFile` is the content of the file: a login, a login in the legacy
format (`accessKeyName`), nothing, an empty file between truncation and write,
or the overlapping text of two writers. `openFor` are the processes that hold
this very file (its inode) open. `keyState` is what the server knows of each
key. `connectionInfo`, `sdk`, `reply`, `callsLeft`, `pc` and `cmd` belong to a
process, and are reset when it exits: a slot of `Proc` runs one process after
another.

*Actions.* `Execute*` is `execute()` up to the first asynchronous step of each
kind of command, with the checks of lines 467-489. `api` stands for any command
that makes one to `MaxCalls` calls and touches nothing locally; what those calls
do is the subject of `AccountCommands`. `IssueSessionKey`, `EnterToken` and
`AbortPrompt` are the browser and the token prompt. `Serve*` and `RequestLost`
are the server's answer to the request in flight, `ServeOrphan` the late arrival
of the logout of a process that was killed, `KeyDies` expiry or removal from
elsewhere. `LoginAnswered`, `TruncateConfig`, `WriteConfig`, `ApiAnswered`,
`WhoamiAnswered`, `LogoutAnswered`, `LogoutDeletes` are what the process does
with an answer; `Kill` is possible anywhere. `writeFileSync` is two steps,
because a second process or a kill can come between the truncation and the
write; the deletion with `fs.unlinkSync` is one.

*Refinement.* `SavedLogin` is what a user sees who runs one command after another:
a login is saved by a command that says so and only where none was, it is given up
by a running command and only when no living session is lost with it, and nothing
else changes it. `Session` maps the saved login to what `deserializeConnectionInfo`
makes of the file, so that an empty and a garbled file are no login, as for
`execute()`. `ActsAtOnce` says that truncation, write, deletion, kills and lost
answers add nothing to that. With two processes it does not hold
(`overwritten`, `stale401`).

*Left out.* Proxy settings in the file (`CliProcess` has them), and the name of
the machine: all processes of a user share it.

### ReleaseCommands

*State.* `folder` maps each folder to its files and who wrote each of them.
`package` is what has been read into the zip, `zip` which temporary zips exist,
`toWrite` and `toPack` are the progress of bundler and zipper, `request` is what
has become of the upload, and `onServer` what the server has stored. `cutOff` is
history: the processes that were killed or ended before `release()` had settled.

*Actions.* One per step that another process can come between: each deletion by
rimraf (`RemoveFile`, `EmptyFolder`), `MakeFolder`, each file of the bundler
(`WritePart`), the way it ends (`BundlerSucceeds`, `BundlerFails`,
`BundlerKilled`), the two looks at the folder (`Release`,
`PackageFileFromPath`), listing and reading (`ListFolder`, `PackFile`),
and the cleaning up (`CleanupDone` after a success, `ExitFailed` after a failure,
when `process.exit(1)` cuts the deletion short). `Fail` is the rejection handler:
release-react starts to delete its folder, the others exit at once.

The upload is sent (`SendUpload`), stored by the server (`UploadStored`) and
answered (`UploadAnswered`) in three steps, with kills between any two of them. The
server may store it before the client gives up, after that, after the process has
ended, or never. The handler of the answer deletes the zip before anything else
(SDK:325-327); when that throws, the process dies with the promise pending
(`UnlinkFails`). Nobody waits for the deletion of the folder after a success
(executor:1384) or hears that it failed, so `CleanupDone` ends with exit code 0
whether or not the folder, or some of its files, are still there.

*Refinement.* In `AtomicRelease` sending is one step: what is sent is the whole
folder. Before that the process only writes files of its own (or deletes), after
that it only deletes; the server stores what was sent or nothing, whenever it likes
(`Store`); and a process that reports success has all that it sent stored. It does
not say that the folder is gone then, because the code does not see to it.
`Atomic` maps folder, what was sent, update and exit code; `ReleasesAtOnce` holds
for all three commands, `release` included, whose folder holds what the user put
there.

*Left out.* A file's content beyond who wrote it, subfolders, the progress bar,
and a bundler that outlives a killed CLI.

### AccountCommands

*State.* Of an invocation: the command line `cmd`, its `plan` (a sequence of
stages, each a set of calls in flight together), the current `stage`,
`confirmed`, the calls on their way (`sent`) and the answers on their way back
(`answers`), the `outcome`. Of the server: what `exists`, the `releases` of each
deployment, and as history `done`, the calls it carried out.

*Actions.* `Start` is the entry of a command with its argument checks, `Confirm`
the prompt, `Serve` and `Lose` the fate of a call, `Answered` the handling of one
answer by `makeApiRequest` and by the promise chain of the command: `Rejected`
ends the command at once, with calls of the same stage still in flight;
`Resolved` waits for the others (`Q.all`) and goes on to the next stage.
`Plan` gives each command its calls as the code chains them: every change a
stage of its own, the queries of a table together. `deployment ls` gets another
stage from its first answer (`NextStages`), as `getDeploymentMetrics` is called
for what the list holds.

*Refinement.* `ChangeChain` forgets stages, calls in flight and answers: an order has
a chain of changes, which are made one after the other, after a confirmation where
one is asked for; success is reported after the last, a warning, a cancellation or
a prompt that was broken off when there was none; and after a failure or a kill at
most one more is made. `Changing` maps the invocation to it: a change is still
`open` while the process has not ended, or a call that changes something is on its
way. `ChangesOneByOne` holds whatever other invocations do.

*External.* What the server does with a call (`Verdict`, `ExistsAfter`,
`ReleasesAfter`) is not in the repository; it is modelled by what the code
relies on: 404 for what is not there, 409 for what is there already or for a
promotion of the same content. The properties about order, confirmation and
success do not depend on it (section 5).

### AcquisitionSdk and AsyncCall

*State.* The calls the application made (`call`), those whose request is out
(`pending`), what a `report` said to the server, what the callback was called
with so far (`answers`, a sequence, so that a second call would show), and the
calls that threw an exception.

*Actions.* `Invoke` is one of the three methods up to the request: arguments are
a list that may be shorter than the parameters, as in JavaScript, so that the
callback may stand where another parameter is declared. `Respond` is the
response, in any order, with an error, another status, a body that does not
parse, or one of the answers to an update check.

*Refinement.* `AsyncCall` promises that what is begun is answered once and in
the end. `Promise` in `AcquisitionSdk` maps a call to it when there is a callback
the code will find: the last argument. Left out is `reportStatusDeploy` with an
unknown status and its callback in another place than the fifth: `callback` is
still the declared parameter when the status is checked (acquisition-sdk.ts:166),
so nothing is sent and nobody is told.

*Left out.* The query string, the URLs, and the configuration.

### PackageManifest

*State.* The folder `files` (names to contents), the `zip` (a sequence of
entries, packed from the folder or by another tool), and of each of the two
functions its `pc`, its `fileHashesMap` (`map`) and what its promise was settled
with (`result`, a sequence, so that a second settlement would show). A name is a
sequence of segments and separators, so that `normalizePath`, which replaces one
backslash, and the package `slash`, which replaces all, differ where they do in
the program. A hash stands for what was hashed.

*Actions.* `Open`, `ReadEntry`, `Hashed`, `HashFailed`, `ReadingEnds` are the
callbacks of yauzl and of the hash stream, in the only orders the code lets them
come in: the next entry is asked for when the one before has been hashed.
`Close` is the `finally` handler. `List`, `HashFile`, `Listed` are the chain over
the files of a folder. `Touch` is another process that changes the folder.

*Left out.* `serialize` and `deserialize`, which nothing of the CLI calls. Within
this repository the module is used by its own tests and by the servers that share
it, not by the commands.

### CommandLine, ProjectVersion, DebugLog and CliProcess

*Command lines* are records of their words and options. `HelpShown` says whether
yargs lets a line pass (`demand`, `strict`, `check`, the flags
`isValidCommandCategory` and `isValidCommand`); `createCommand` what is made of
it: a type and the fields that matter later. A rollout is a spelling and the
number it begins with; a URL its host, its separator and what trails it.

*Versions* are kinds of texts (`VersionText`), told apart by the two tests of the
program: `isValidVersion` for what is found in a project, `validRange` for what a
release accepts. `getReactNativeProjectAppVersion` follows the code through
property lists, Gradle files with one or several `android` nodes, properties
files and manifests, each possibly missing, malformed or without the key.

*A log* is a sequence of atoms; `processLogData` maps a chunk of it to what is
printed. It does so by places: a message is printed for every place where the first
prefix of a line begins (`Starts`), in the order of the places (`Nth`), and it goes
on to the end of the line or the source that Cordova adds.

*`CliProcess`* keeps what outlives a process (`config`, with two histories: `asked`,
what its login had asked for, and `via`, the proxy the login was made through) and
of the process its line, `command`, `phase`,
`sdk`, `version`, log and `exit`. `Start` draws a line and an environment;
`Execute` is the dispatch; `Authenticate`, `Call`, `Validate`, `Prepare*`,
`Bundle`, `Release`, `Upload`, `Listen`, `LogData`, `LogEnds` are the steps of
the commands; `Leave` makes room for the next process.

*Left out.* Aliases of options, the update check, what the calls of a command do
(`AccountCommands`), the folders of a release (`ReleaseCommands`) and processes
that overlap (`CliSession`).

## 3. The runs

| Run | Instance | States | Shows |
| --- | --- | --- | --- |
| `concurrent` | `CliSession`, 2 processes, 2 session keys, 1 access key, 1 wrong key, up to 2 calls | 1,196,646 | `TypeOK`, `StoredKeyWasAccepted`, `LogoutEndsSession` survive any interleaving, kill and loss |
| `sequential` | 1 process slot used again and again, 2 session keys, up to 2 calls, fair | 11,056 | `SuccessfulLoginIsStored`, `NoLoginOverwritten`, `DeletesOwnLogin`, `LiveSessionKeepsLogin` and `ActsAtOnce` (it implements `SavedLogin`), which hold only without a concurrent process, and `CommandsEnd` |
| `overwritten` | as `concurrent` | violation | `NoLoginOverwritten` fails for two processes |
| `stale401` | as `concurrent` | violation | an Unauthorized answer deletes a login it does not belong to |
| `ownFolders` | `ReleaseCommands`, 2 processes with a folder each, 2 files, all commands, fair | 269,192 | `ReleasesOwnFiles`, `ReleasesWholeOrNothing`, `ZipDeleted`, `OutputDirKept`, `ReleasesAtOnce` (it implements `AtomicRelease`), `CommandsEnd` |
| `sharedFolder` | 2 processes, one folder | violation | one process publishes files of the other |
| `silent` | 1 process | violation | packaging fails, nothing is released, exit code 0 |
| `invocations` | `AccountCommands`, every command alone and any two of the seven that meet on one app (`MeetOnSharedApp`), several histories, fair | 248,039 | `DoneInOrder`, `SuccessMeansDone`, `OnlyConfirmedDone`, `WarnedChangedNothing`, `ListsAreComplete`, `ChangesOneByOne` (it implements `ChangeChain`), `CommandsEnd` |
| `answered` | `AcquisitionSdk`, 2 overlapping calls, 102 calls (methods with lists of arguments), fair | 40,804 | `DeploysAreWellFormed`, and `AnsweredOnce`: it implements `AsyncCall` |
| `manifest` | `PackageManifest`, 6 folders with all their zips and 3 other zips, one change of the folder, fair | 36,988 | `ManifestIsWhole`, `SameHash`, `ClosedInTheEnd`, and `SettledOnce`: it implements `AsyncCall` |
| `commandLines` | `CliProcess`, every word of the parser with up to 4 more, the options of login, release and patch, all projects, 2 logs, fair | 57,496 | `ConnectsAsAsked`, `RolloutInRange`, `NothingPassesInVain`, `BundlesWhatCanBeReleased`, `PrintsMessagesOnly`, `EveryCommandEnds` |
| `inferredProxy` | as `commandLines` | violation | `InferredProxyPersists` fails: a login through the proxy of its environment, then a process with another environment |

### Why these bounds are enough

*CliSession.* Every hazard is about the file and at most two parties: who reads,
and who changes it meanwhile. With two session keys and an access key the file
can hold the key of the first process, of the second, one that has died, or text
nobody accepted. Two calls are needed for the loop of `ApiAnswered`; a third can
do to the file only what the second can. Symmetry is used only where no liveness
property is checked.

*ReleaseCommands.* Two files tell "whole" from "part" and let two processes mix
them. A third process would meet another in the same two folders.

*AccountCommands.* The constraint `MeetOnSharedApp` of `MCAccountCommands` lets a
second invocation start only where both commands are about the app and its
deployments, and calls the first to start `i1`; the commands on keys, collaborators
and sessions share nothing with others. No fairness is assumed of `Start`, the only
action it holds back. Two deployments are what `promote` and `deployment add
--default` need; two contents tell a duplicate from a new release; `MaxReleases`
bounds a history at 3, enough to promote, repeat, roll back and clear.

*AcquisitionSdk.* Two calls overlap in every way; calls share nothing but the
configuration, which never changes. The lists of arguments are all of length 0
to 5 with each parameter given or empty, with and without a callback at the end.

*PackageManifest.* Two contents tell a file from its change, two or three files
let one fail after another has been hashed. Among the names are one and two
backslashes, the names to be passed over, a folder's, and two that differ in the
separator. One change of the folder can come at any moment; a second would only
change again what is already not comparable.

*CliProcess.* The lines are every word with every number of words after it, with
an empty last one, and each option whose value some check or later step looks at,
in every kind of spelling. Processes are unbounded in number: the run covers any
sequence of them, since all that one leaves to the next is `config`. The projects
are all pairs of files for iOS and for the properties of Android, and every kind
of Gradle file and manifest. The logs have a message with a source, a line of
another program, and a message with a prefix in it, cut in every way.

### Where deadlock is not checked

`CHECK_DEADLOCK FALSE` is in the configurations in which every process may have
ended (`ReleaseCommands`, `AccountCommands`, `AcquisitionSdk`, `PackageManifest`) or, with `CliSession`, may have run
out of keys to be issued; `CommandsEnd` says instead that nothing gets stuck.

### Fairness

* `CliSession`: `WF(Serve(p))` and `WF(Run(p))`: the event loop runs what is
  ready, and TCP ends a request that gets no answer. Nothing is assumed of the
  user, who may stay at the token prompt for ever or never start a command, nor
  of `Kill` and `KeyDies`.
* `ReleaseCommands`: `WF(Prepare(p) \/ Publish(p))`: a process takes its next
  step, in one way or another. That includes that the bundler ends and that the
  upload is answered or fails; neither has a time-out in the code but both are
  left to the operating system. None of `UploadStored`: a server need not store
  what it was sent.
* `AccountCommands`: weak fairness of answering the prompt, of the fate of a
  call in flight (`Serve \/ Lose`) and of handling an answer. The prompt is
  included because `CommandsEnd` is about every command, those that ask included.
* `AcquisitionSdk`: weak fairness of `Respond(c)`: the application's requester
  calls back for every request, a failed one included, as its type
  `Callback<Response>` asks. Nothing makes the application call.
* `PackageManifest`: weak fairness of the next step of either function and of
  `Close`: the operating system answers every read, with data or an error. None
  of `Touch`.
* `CliProcess`: weak fairness of `Work`, the next step of a process: answers and
  child processes end, as above. None of `LogData` and `LogEnds` (a log may be
  silent for ever; `EveryCommandEnds` lets `debug` listen), and none of `Start`.

## 4. What the runs found

Each is a run that must end in a violation; `PROJECT.json` has the quotations.

1. `overwritten` (executor:470). The guard "Must not be logged in" is evaluated
   when a login starts, and the file is written when it ends. Two logins that
   overlap both succeed and the second takes the place of the first.
2. `stale401` (executor:1606). The wrapper deletes the file on a 401 without
   looking whether it still holds the key that was refused: a login made in the
   meantime is deleted.
3. `sharedFolder` (executor:1301). `<tmpdir>/CodePush` is the same for every
   process.
4. `silent` (SDK:313). `getPackageFilePromise.then(...)` has no rejection
   handler, so that a failure of packaging settles nothing; Node finds nothing
   left to do and ends with exit code 0.

5. `inferredProxy` (executor:1487). `src/cli/README.md:127` says that an inferred
   proxy is persisted with the session until the next login.
   `serializeConnectionInfo` stores only what `--proxy` and `--noProxy` say, and
   `getProxy` looks at the environment of each process anew.

Smaller disagreements met while reading, without a run of their own:

* `exitCode` is null for a bundler that a signal ended, and null is falsy
  (executor:1477): the part it has written is published. `ReleasesWholeOrNothing`
  excludes such a bundler (`BundlerKilled`).
* `whoami` reads the file again after the answer and uses it without a check
  (executor:1567); it throws when another process has logged out meanwhile.
* `normalizePath` (hash-utils.ts:228) replaces the first backslash only. The names
  of a folder nested twice have two on Windows and get another manifest than its
  zip, whose names `slash` has spelled; `SameHash` speaks of `Portable` names. An
  entry of another tool's zip that is a folder is hashed as an empty file, which
  the manifest of a directory never has.
* A version padded with zeros, `01.2`, passes `isValidVersion` and is refused as a
  range after the bundling (`BundlesWhatCanBeReleased`).
* `deployment add <app>` with neither a name nor `--default` passes the usage
  table and shows the general help (`NothingPassesInVain`).
* `deployment add --default` that failed after Staging cannot be completed by
  repeating it (visible in `DoneInOrder`: Staging is refused as a duplicate).
* A `release-react` that fails, even in `validateDeployment`, deletes the folder
  the user gave with `--outputDir` (`Fail` and `RemoveFile` in `ReleaseCommands`;
  `OutputDirKept` speaks of successes only).
* After a success the deletion of the default folder is not awaited and its
  rejection has no handler (executor:1384): the process can end with exit code 0
  and the folder, or a part of it, left (`CleanupDone`).
* `fs.unlinkSync` in the handler of the answer (SDK:326) may throw, and a kill may
  come before it; either leaves the zip although the server may have the update
  (`ZipDeleted` speaks of commands that hear how their upload went).
* `reportStatusDeploy` called with fewer than five arguments and an unknown status
  never calls back.
* A message of the log that is cut within its prefix is not printed, and one that
  is cut later is printed up to the cut (`PrintsMessagesOnly`).

## 5. What is proved

All theorems are of the specification `Spec`, without fairness, for every value
of the constants that satisfies the assumptions of the module.

| Theorem | States | Assumption beyond the module's |
| --- | --- | --- |
| `CliSessionProofs!TypeCorrect` | `[]TypeOK` | |
| `CliSessionProofs!OnlyAcceptedKeysStored` | `[]StoredKeyWasAccepted` | |
| `CliSessionProofs!SuccessfulLogoutEndsSession` | `[]LogoutEndsSession` | |
| `CliSessionProofs!SequentialNoOverwrite` | `NoLoginOverwritten` | `OneAtATime`: one process slot |
| `CliSessionProofs!SequentialDeletesOwn` | `DeletesOwnLogin` | `OneAtATime` |
| `CliSessionProofs!SequentialLoginIsStored` | `[]SuccessfulLoginIsStored` | `OneAtATime` |
| `CliSessionProofs!SequentialKeepsLiveLogin` | `LiveSessionKeepsLogin` | `OneAtATime` |
| `CliSessionProofs!SequentialActsAtOnce` | `ActsAtOnce`: `SavedLogin` | `OneAtATime` |
| `ReleaseCommandsProofs!TypeCorrect` | `[]TypeOK` | |
| `ReleaseCommandsProofs!ZipIsDeleted` | `[]ZipDeleted` | |
| `ReleaseCommandsProofs!PublishesOwnFiles` | `[]ReleasesOwnFiles` | `OwnFolders`: no two processes share a folder |
| `ReleaseCommandsProofs!PublishesWholeOrNothing` | `[]ReleasesWholeOrNothing` | `OwnFolders` |
| `ReleaseCommandsProofs!OutputDirIsKept` | `[]OutputDirKept` | `OwnFolders` |
| `ReleaseCommandsProofs!PublishesAtOnce` | `ReleasesAtOnce`: `AtomicRelease` | `OwnFolders` |
| `AccountCommandsProofs!TypeCorrect` | `[]TypeOK` | |
| `AccountCommandsProofs!ChangesInOrder` | `[]DoneInOrder` | |
| `AccountCommandsProofs!SuccessIsTrue` | `[]SuccessMeansDone` | |
| `AccountCommandsProofs!ConfirmedFirst` | `[]OnlyConfirmedDone` | |
| `AccountOutcomesProofs!WarningIsTrue` | `[]WarnedChangedNothing` | |
| `AccountOutcomesProofs!ListIsComplete` | `[]ListsAreComplete` | |
| `AccountOutcomesProofs!MadeOneByOne` | `ChangesOneByOne`: `ChangeChain` | |
| `AcquisitionSdkProofs!TypeCorrect` | `[]TypeOK` | |
| `AcquisitionSdkProofs!DeployReportsWellFormed` | `[]DeploysAreWellFormed` | |
| `AcquisitionSdkProofs!AnsweredAtMostOnce` | `Promise!Safe`: the safety part of `AsyncCall` | |
| `PackageManifestProofs!TypeCorrect` | `[]TypeOK` | |
| `PackageManifestProofs!WholeOrNone` | `[]ManifestIsWhole` | |
| `PackageManifestProofs!FolderAndZipAgree` | `[]SameHash` | |
| `PackageManifestProofs!SettledAtMostOnce` | `Promise!Safe`: the safety part of `AsyncCall` | |
| `CliProcessProofs!TypeCorrect` | `[]TypeOK` | |
| `CliProcessProofs!ConnectionIsAsked` | `[]ConnectsAsAsked` | |
| `CliProcessProofs!RolloutIsPercentage` | `[]RolloutInRange` | |
| `CliProcessProofs!PassedIsExecuted` | `[]NothingPassesInVain` | |
| `CliProcessProofs!BundledCanBeReleased` | `[]BundlesWhatCanBeReleased` | |
| `CliProcessProofs!OnlyMessagesPrinted` | `[]PrintsMessagesOnly` | |

The assumptions of the modules say that constants that stand for different
things are different (a key that was never issued is no session key, a file that
is not there is no login) and that the commands considered are commands. Those
of `AcquisitionSdk` add that a callback comes last, that no call has more than
five arguments, and that only `reportStatusDeploy` is called with a callback in
place of a package. Those of `PackageManifest` say that a folder has finitely many
files and that a name with its backslashes replaced is a name; those of
`CliProcess` that the words of a line are a sequence of texts, that its address
has the fields of a URL, that a project is for one of the three platforms, and that
in a log no prefix comes after a source on the same line (`LogsAssumption`).
`OneAtATime` and `OwnFolders` are needed: the runs `overwritten`, `stale401` and
`sharedFolder` are the counterexamples without them.

*CliSession.* `StoredKeyWasAccepted` is not inductive, because a write stores
what the process has in its memory. `AcceptedInv` adds that the key a process is
about to write, or was started with, has been issued, and that an answer of 200
to a login was given to such a key. `LogoutInv` follows a logout from the answer
to the deletion: after 200, 401 or 404 the session key is dead, and dead keys
stay dead. `SequentialInv` says for a single process that the file is what the
process read when it started until the process itself changes it. To it
`StoredInv` adds that a process about to write has the file open and empty, so
that a login that ends with success has filled it; `ReaderInv` that a process
which was refused with 401 was refused the very key in the file, and that this
key is dead: what it deletes is no live login.

`SequentialActsAtOnce` maps the steps one by one. The write at the end of a login is
`Save`, because by `StoredInv` the file is empty until then, and a truncated file
reads as no login (by `SequentialInv` there was none to lose); the deletions after
a logout and after a 401 are `GiveUp`, because by `LogoutInv` and `ReaderInv` the
key is dead, or was an access key; what the server does is `Learn`, because keys
only age (`KeysAge`). `RunningInv` says that a process that has not exited has not
reported anything.

*ReleaseCommands.* `OwnInv(p)` says that from the making of the folder on, folder
and package hold p's files only; this is where the folder must be emptied first.
`WholeInv(p)` counts what is written and packed: every file is either still in
`toWrite` (`toPack`) or in the folder (package). Only a bundler
that was killed by a signal may leave files unwritten. `ZipInv(p)` ties the
zip, `request` and `onServer` to each other: a zip is on disk only while it is
packed and uploaded, or its process was cut off; nothing is sent before the
upload, the server has what was packed exactly when it has stored it, and only
then a deletion after a success begins.
`FolderInv(p)` follows package and folder side by side: nothing is packed before
the packing, what is packed equals the folder, and only without `--outputDir` does
a release go on to the deletion. It needs a folder of one's own; `TypeOK` and
`ZipDeleted` do not. `PackInv(p)`, for every command, compares package and folder
while the first is filled: what is no longer in `toPack` is equal in both. So the
end of the packing is the `Send` of `AtomicRelease` (`SendsFolder`), the server's
step its `Store` (`StoresSent`; what was sent does not change, `SentStays`), the
making of the folder and the bundler's files its `Write` (`FolderChanges`), and
every other step its `Delete`, of nothing in most cases. A success is reported
only with everything stored that was sent (`SuccessIsStored`).

*AccountCommands.* `ProcInv(p)` relates the plan, the stage and `done`: before
the stage, every change of the plan is in `done` at its place (`Carried`); at the
stage, a change is in `sent`, or has been answered, or was carried out and its
answer is under way (`Flight`, `Honest`: an answer "ok" is given only to what was
carried out); a command at its prompt has sent nothing (`Fresh`, `Asked`).
`Shaped` says that the stages of a plan that change something hold exactly one
call each. The proofs use of the server only that it answers "ok" to a change
when it carries it out.

`AccountOutcomesProofs` adds what the two special endings need. `WarnInv(p)`: a
promotion is one call, and when the answer to it is a conflict, nothing of it is
done and none of it is in flight, so that nothing can be done any more. `ListInv(p)`:
a list is a first call and then one call for each deployment with a release; while
it waits, the metrics that are missing are in `sent` or in an answer that was not
handled yet, and it goes on only when there is neither.

For `MadeOneByOne` it takes `PlanInv(p)`: the plan of an invocation begins with the
changes of its command, one to a stage, and what follows only asks. A change that
the server carries out is then the next of the chain (`CarriedIsNext`), and, as the
next stage is sent only after an answer, no other one is in flight: one that is
carried out after the end is the last.

*AcquisitionSdk.* `AnsweredAtMostOnce` maps every step to a step of `AsyncCall`
or a stutter: `Invoke` begins a call (and answers it at once when the status is
unknown), `Respond` answers it. It needs `TypeOK`'s last part, that a pending
call has neither been answered nor thrown; otherwise a second response would be
a second answer.

*PackageManifest.* `ManifestIsWhole` has a half for each function. At the n-th
entry of a zip the map holds the digest of the first n - 1 (`ZipInv`), and a
function that was settled with a map had come to the end (`ZipWhole`). For a folder
that nobody touched, whose names stay distinct when they are normalised, the map
holds the files that are no longer in `todo` (`DirInv`, `MapIs`), and all of them
in the end (`FolderWhole`): `DirInv` is needed because `todo` and the map change in
one step and the manifest is made in a later one.
`SameHash` needs more: the zip was packed in any order, and that both maps
have the same names rests on an injection of a finite set into one of the same
size being onto. `SettledAtMostOnce` maps every step to a step of `AsyncCall`
or a stutter, one promise for each of the two functions.

*CliProcess.* `ConnectInv` says that what the session file holds is what its login
had asked for (`LoginAsks`: the fields of the command are those of the line, and
the URL's spelling is made up for), and that an `AccountManager` was made of it
with the environment of this process. `ConnectsAsAsked` is what follows of it for
`--proxy` and `--noProxy`; of a proxy that was inferred nothing follows
(`inferredProxy`). For `RolloutInRange` and
`NothingPassesInVain` the usage tables are gone through, word by word: where a
rollout is an option it is checked with the default that `createCommand` uses
(`CommandRollout`), and the numbers of words asked for are those that
`createCommand` needs (`WordsNeeded`, `CategoryWordsNeeded`), so that `TypeMade`
finds a type for what yargs let pass, one that `execute` has a case for
(`TypeIsDispatched`). `FoundVersion` goes through the ways a version is found.

`OnlyMessagesPrinted` compares what is printed of chunks with what would be printed
of the log in one piece, without an induction over either: the k-th message is the
one at the k-th place, and the places of a chunk are the k-th ones of the log,
shifted, because ranks in a finite set are one to one with the numbers up to its
size (`Ranked`) and the places of two parts follow each other (`NthOfUnion`).
`LogInv` adds that what was read ends with a line as long as every cut was between
lines, so that the next chunk prints what it adds to the log (`OutputJoined`). With
other cuts it still prints no more than it has prefixes (`OutputBounded`), and only
what follows one of them (`OutputFollows`).

## 6. What is only model-checked, and what is not modelled

Liveness (`CommandsEnd`, `EveryCommandEnds`, `ClosedInTheEnd`, and of `AnsweredOnce`
and `SettledOnce` the "in the end") is beyond the prover and stays with TLC. Every
safety property of the passing runs is a theorem, five of `CliSession` for one
process at a time and four of `ReleaseCommands` for folders that are not shared,
as the table says.

Not modelled: printing (tables, colours, dates) and the build scripts and type
definitions, which hold nothing of the program's behaviour. `access-key patch`,
`app transfer` and `session` are commented out of the usage tables; `createCommand`
and the executor still know them, and so do `CommandLine` and `AccountCommands`.
`status` codes, URLs, headers and messages are reduced to the cases that the code
tells apart. `DebugLog` assumes that the source Cordova adds to a message comes
after its prefix.

## 7. Plan

1. Done: `CliSession`, `ReleaseCommands`, `AccountCommands` with their runs and
   first theorems. They come first because they hold what is shared between
   processes and what is destructive.
2. Done: `AsyncCall` and `AcquisitionSdk`, with the proof of refinement.
3. Done: `PackageManifest`, both functions implementing `AsyncCall`, with proofs.
4. Done: `CommandLine`, `ProjectVersion`, `DebugLog` and `CliProcess`, which
   composes them, with the proxy settings, and proofs.
5. Done: proofs of all safety properties.
6. Done: abstract specifications of the three modules about processes that overlap
   (`SavedLogin`, `AtomicRelease`, `ChangeChain`), with proofs of refinement.
7. Possible next: `CliProcess` with two processes at a time over the file of
   `CliSession`, if the two ever come to depend on one another in more than the
   deletion after a 401.
