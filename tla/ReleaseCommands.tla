--------------------------- MODULE ReleaseCommands ---------------------------
(***************************************************************************)
(* The commands that publish an update: release, release-cordova and       *)
(* release-react, down to the SDK's release() and packageFileFromPath().   *)
(*                                                                         *)
(* Each process p runs one command.  It prepares the content of a folder   *)
(* (outputFolder[p]), packs the folder into a temporary zip file in its    *)
(* working directory, uploads it and cleans up.  The folder belongs to the *)
(* file system: the default of release-react, <tmpdir>/CodePush, is the    *)
(* same for every process of the machine.  Every file operation is a step  *)
(* of its own, so that the steps of two processes interleave as they do on *)
(* a real machine.  The bundler, Cordova and the server are outside src/.  *)
(***************************************************************************)
EXTENDS FiniteSets

CONSTANTS
    Proc,          \* processes, each running one command
    Folder,        \* folders of the file system
    TempFolder,    \* <tmpdir>/CodePush, used when there is no --outputDir
    outputFolder,  \* the folder each process works with
    Part,          \* the files of an update
    Command,       \* the commands considered, of AllCommands
    NoFile,        \* a file that is not there; no content
    NoFolder,      \* a folder that is not there
    Stale          \* who wrote the files that were there before

AllCommands == {"release", "releaseCordova", "releaseReact"}
Writer == Proc \cup {Stale}

ASSUME ReleaseAssumption ==
    /\ TempFolder \in Folder
    /\ outputFolder \in [Proc -> Folder]
    /\ Command \subseteq AllCommands
    /\ Stale \notin Proc
    /\ NoFile \notin Writer

\* What a folder or a package holds: for each file, who wrote it last.
Content == [Part -> Writer \cup {NoFile}]
Nothing == [x \in Part |-> NoFile]

ASSUME NoContentAssumption == NoFolder \notin Content /\ NoFile \notin Content

VARIABLES
    folder,    \* the file system: content of each folder
    cmd,       \* the command each process runs
    pc,        \* where each process is
    toWrite,   \* files the bundler still has to write
    toPack,    \* listed files that are not yet in the zip
    package,   \* content of the zip, or of the upload
    zip,       \* processes whose temporary zip is on disk
    signalled, \* processes whose bundler was killed by a signal
    request,   \* what has become of the upload of each process
    onServer,  \* the update of each process, once the server has it
    code,      \* exit code of each process
    cutOff     \* processes that ended before release() had settled, or were
               \* killed; only the properties ask for it

fileVars == <<folder, zip>>
procVars == <<toWrite, toPack, package, signalled, code>>
outcome  == <<request, onServer, cutOff>>
vars     == <<fileVars, procVars, cmd, pc, outcome>>

NoCode == 2  \* still running

PC == {"validate", "prepare", "empty", "mkdir", "cache", "bundle", "release",
       "auth", "list", "read", "pack", "upload", "cleanup", "failed", "exited"}

Upload == {"none", "sent", "stored", "refused"}

\* Types, and that exactly the processes that have ended have an exit code.
TypeOK ==
    /\ folder \in [Folder -> Content \cup {NoFolder}]
    /\ zip \in SUBSET Proc
    /\ cmd \in [Proc -> Command]
    /\ pc \in [Proc -> PC]
    /\ toWrite \in [Proc -> SUBSET Part]
    /\ toPack \in [Proc -> SUBSET Part]
    /\ package \in [Proc -> Content]
    /\ signalled \in SUBSET Proc
    /\ request \in [Proc -> Upload]
    /\ onServer \in [Proc -> Content \cup {NoFile}]
    /\ code \in [Proc -> {0, 1, NoCode}]
    /\ cutOff \in SUBSET Proc
    /\ \A p \in Proc : pc[p] = "exited" <=> code[p] # NoCode

\* Folders may hold anything at the start, such as what a killed process left.
Init ==
    /\ folder \in [Folder -> [Part -> {Stale, NoFile}] \cup {NoFolder}]
    /\ zip = {}
    /\ cmd \in [Proc -> Command]
    /\ pc = [p \in Proc |-> IF cmd[p] = "release" THEN "release" ELSE "validate"]
    /\ toWrite = [p \in Proc |-> Part]
    /\ toPack = [p \in Proc |-> {}]
    /\ package = [p \in Proc |-> Nothing]
    /\ signalled = {}
    /\ request = [p \in Proc |-> "none"]
    /\ onServer = [p \in Proc |-> NoFile]
    /\ code = [p \in Proc |-> NoCode]
    /\ cutOff = {}

-----------------------------------------------------------------------------
(* Building blocks                                                         *)

Dir(p) == folder[outputFolder[p]]

SetDir(p, content) == folder' = [folder EXCEPT ![outputFolder[p]] = content]

\* --outputDir was given: the folder is the user's.
OutputDirGiven(p) == outputFolder[p] # TempFolder

GoTo(p, label) == pc' = [pc EXCEPT ![p] = label]

Exit(p, c) ==
    /\ pc' = [pc EXCEPT ![p] = "exited"]
    /\ code' = [code EXCEPT ![p] = c]

\* A rejected promise: release-react first starts to delete its folder, the
\* other commands go straight to process.exit(1).
Fail(p) ==
    IF cmd[p] = "releaseReact" THEN GoTo(p, "failed") /\ UNCHANGED code
                               ELSE Exit(p, 1)

Advance(p, from, to) ==
    /\ pc[p] = from
    /\ \/ GoTo(p, to) /\ UNCHANGED code
       \/ Fail(p)
    /\ UNCHANGED <<fileVars, cmd, outcome, toWrite, toPack, package, signalled>>

-----------------------------------------------------------------------------
(* Preparing the update                                                    *)

\* The deployment exists, or the command fails early.
ValidateDeployment(p) == Advance(p, "validate", "prepare")

\* release-react checks the platform, package.json, the entry file and the
\* version, and finds the app's version; nothing is written.  The version
\* comes from a promise that may be rejected.
PrepareReact(p) == cmd[p] = "releaseReact" /\ Advance(p, "prepare", "empty")

\* release-cordova checks the platform and looks for the Cordova CLI.
PrepareCordova(p) == cmd[p] = "releaseCordova" /\ Advance(p, "prepare", "bundle")

\* rimraf takes the entries of a folder away one by one, ...
RemoveFile(p) ==
    /\ pc[p] \in {"empty", "cleanup", "failed"}
    /\ Dir(p) # NoFolder
    /\ \E x \in Part :
          /\ Dir(p)[x] # NoFile
          /\ SetDir(p, [Dir(p) EXCEPT ![x] = NoFile])
    /\ UNCHANGED <<zip, procVars, cmd, pc, outcome>>

\* ... and the folder when it is empty.  It may fail, which only
\* createEmptyTempReleaseFolder waits to hear.
Removed(p) == Dir(p) \in {Nothing, NoFolder} /\ SetDir(p, NoFolder)

\* Mutant: the folder is not emptied first.
EmptyFolderKeeps_(p) ==
    /\ pc[p] = "empty"
    /\ GoTo(p, "cache")
    /\ UNCHANGED <<fileVars, procVars, cmd, outcome>>

EmptyFolder(p) ==
    /\ pc[p] = "empty"
    /\ \/ Removed(p) /\ GoTo(p, "mkdir")
       \/ Fail(p) /\ UNCHANGED folder
    /\ UNCHANGED <<zip, procVars, cmd, outcome>>

\* mkdirSync throws when somebody else made the folder in between.
MakeFolder(p) ==
    /\ pc[p] = "mkdir"
    /\ IF Dir(p) = NoFolder
       THEN SetDir(p, Nothing) /\ GoTo(p, "cache")
       ELSE Fail(p) /\ UNCHANGED folder
    /\ UNCHANGED <<zip, procVars, cmd, outcome>>

\* The bundler's own cache, <tmpdir>/react-*, is deleted as well.
ClearBundlerCache(p) == Advance(p, "cache", "bundle")

\* `react-native bundle` and `cordova build` write the files of the update;
\* Cordova makes the folder, the React Native bundler needs it to be there.
WritePart(p) ==
    /\ pc[p] = "bundle"
    /\ Dir(p) # NoFolder \/ cmd[p] = "releaseCordova"
    /\ \E x \in toWrite[p] :
          /\ SetDir(p, IF Dir(p) = NoFolder THEN [Nothing EXCEPT ![x] = p]
                                            ELSE [Dir(p) EXCEPT ![x] = p])
          /\ toWrite' = [toWrite EXCEPT ![p] = @ \ {x}]
    /\ UNCHANGED <<zip, toPack, package, signalled, code, cmd, pc, outcome>>

\* Exit code 0 means that every file was written.
BundlerSucceeds(p) ==
    /\ pc[p] = "bundle"
    /\ toWrite[p] = {}
    /\ GoTo(p, "release")
    /\ UNCHANGED <<fileVars, procVars, cmd, outcome>>

\* Mutant: the exit code is not looked at.
BundlerFailsIgnored_(p) ==
    /\ pc[p] = "bundle"
    /\ GoTo(p, "release")
    /\ UNCHANGED <<fileVars, procVars, cmd, outcome>>

BundlerFails(p) ==
    /\ pc[p] = "bundle"
    /\ Fail(p)
    /\ UNCHANGED <<fileVars, toWrite, toPack, package, signalled, cmd, outcome>>

\* Node reports the exit code of a process that a signal ended as null, and
\* `if (exitCode)` takes that for success.  execSync, which runs Cordova,
\* throws.
BundlerKilled(p) ==
    /\ pc[p] = "bundle"
    /\ signalled' = signalled \cup {p}
    /\ IF cmd[p] = "releaseReact" THEN GoTo(p, "release") /\ UNCHANGED code
                                  ELSE Fail(p)
    /\ UNCHANGED <<fileVars, toWrite, toPack, package, cmd, outcome>>

-----------------------------------------------------------------------------
(* release() of the command, then of the SDK                               *)

\* Mutant: nothing is thrown when the folder is not there.
ReleaseWaits_(p) ==
    /\ pc[p] = "release"
    /\ Dir(p) # NoFolder /\ GoTo(p, "auth")
    /\ UNCHANGED <<fileVars, procVars, cmd, outcome>>

\* The file name, the version range and config.xml are checked and the folder
\* is looked at; lstatSync throws when it is not there.
Release(p) ==
    /\ pc[p] = "release"
    /\ \/ Dir(p) # NoFolder /\ GoTo(p, "auth") /\ UNCHANGED code
       \/ Fail(p)
    /\ UNCHANGED <<fileVars, toWrite, toPack, package, signalled, cmd, outcome>>

IsAuthenticated(p) == Advance(p, "auth", "list")

\* packageFileFromPath looks at the folder a second time: now the promise is
\* rejected when it is gone.
PackageFileFromPath(p) ==
    /\ pc[p] = "list"
    /\ IF Dir(p) # NoFolder THEN GoTo(p, "read") /\ UNCHANGED code ELSE Fail(p)
    /\ UNCHANGED <<fileVars, toWrite, toPack, package, signalled, cmd, outcome>>

SendUpload(p) ==
    /\ request' = [request EXCEPT ![p] = "sent"]
    /\ GoTo(p, "upload")
    /\ UNCHANGED <<onServer, cutOff>>

\* The process ends while the promise of release() is pending.
CutOff(p, c) ==
    /\ Exit(p, c)
    /\ cutOff' = cutOff \cup {p}

\* A single file is uploaded as it is, without a zip.
PackSingleFile(p) ==
    /\ pc[p] = "read" /\ cmd[p] = "release"
    /\ Dir(p) # NoFolder
    /\ package' = [package EXCEPT ![p] = Dir(p)]
    /\ SendUpload(p)
    /\ UNCHANGED <<fileVars, toWrite, toPack, signalled, code, cmd>>

ListFolder(p) ==
    /\ pc[p] = "read"
    /\ Dir(p) # NoFolder
    /\ toPack' = [toPack EXCEPT ![p] = {x \in Part : Dir(p)[x] # NoFile}]
    /\ zip' = zip \cup {p}
    /\ GoTo(p, "pack")
    /\ UNCHANGED <<folder, toWrite, package, signalled, code, cmd, outcome>>

\* yazl reads the listed files one after the other.  For one that is gone it
\* emits an error nobody listens to, and the process dies.
PackFile(p) ==
    /\ pc[p] = "pack"
    /\ \E x \in toPack[p] :
         IF Dir(p) # NoFolder /\ Dir(p)[x] # NoFile
         THEN /\ package' = [package EXCEPT ![p][x] = Dir(p)[x]]
              /\ toPack' = [toPack EXCEPT ![p] = @ \ {x}]
              /\ UNCHANGED <<pc, code, cutOff>>
         ELSE CutOff(p, 1) /\ UNCHANGED <<package, toPack>>
    /\ UNCHANGED <<fileVars, toWrite, signalled, cmd, request, onServer>>

\* Mutant: the zip is ended before every file is in it.
PackingDoneEarly_(p) ==
    /\ pc[p] = "pack"
    /\ SendUpload(p)
    /\ UNCHANGED <<fileVars, procVars, cmd>>

PackingDone(p) ==
    /\ pc[p] = "pack"
    /\ toPack[p] = {}
    /\ SendUpload(p)
    /\ UNCHANGED <<fileVars, procVars, cmd>>

\* The folder cannot be listed, or the zip cannot be written.  That rejects
\* the promise of packageFileFromPath, to which release() attached no handler:
\* its own promise never settles, nothing keeps the process alive, and it
\* ends with exit code 0 and without a word.
PackingFails(p) ==
    /\ pc[p] \in {"read", "pack"}
    /\ CutOff(p, 0)
    /\ UNCHANGED <<fileVars, toWrite, toPack, package, signalled, cmd, request, onServer>>

\* Mutant: the zip is deleted only after a good answer.
ZipAfterAnswerKept_(p, settled) == IF settled THEN zip \ {p} ELSE zip

ZipAfterAnswer(p, settled) == zip \ {p}

\* Mutant: the folder of --outputDir is deleted too.
AfterReleaseCleansAll_(p) ==
    IF cmd[p] = "releaseReact" THEN GoTo(p, "cleanup") /\ UNCHANGED code
                               ELSE Exit(p, 0)

\* A release-react without --outputDir deletes its folder.
AfterRelease(p) ==
    IF cmd[p] = "releaseReact" /\ ~OutputDirGiven(p)
    THEN GoTo(p, "cleanup") /\ UNCHANGED code
    ELSE Exit(p, 0)

\* The server stores what it was sent, or has it already, whatever has become
\* of the process in the meantime; it need not get round to it.
UploadStored(p) ==
    /\ request[p] = "sent"
    /\ request' = [request EXCEPT ![p] = "stored"]
    /\ onServer' = [onServer EXCEPT ![p] = package[p]]
    /\ UNCHANGED <<fileVars, procVars, cmd, pc, cutOff>>

\* The client hears that the update was refused, or of an error from which it
\* cannot tell what the server has done or will do.
NotAccepted(p) ==
    \/ UNCHANGED request
    \/ request[p] = "sent" /\ request' = [request EXCEPT ![p] = "refused"]

\* The end of the request.  The zip is deleted first, whatever the answer.  The
\* server has the update and says so, a Conflict being a warning with
\* --noDuplicateReleaseError; or the consent is lost on the way, the Conflict is
\* an error, the update is refused, the request fails.
UploadAnswered(p) ==
    /\ pc[p] = "upload"
    /\ \/ /\ request[p] = "stored"
          /\ zip' = ZipAfterAnswer(p, TRUE)
          /\ AfterRelease(p)
          /\ UNCHANGED request
       \/ /\ zip' = ZipAfterAnswer(p, FALSE)
          /\ Fail(p)
          /\ NotAccepted(p)
    /\ UNCHANGED <<folder, toWrite, toPack, package, signalled, cmd, onServer, cutOff>>

\* unlinkSync throws in the handler of the answer, and the process dies.
UnlinkFails(p) ==
    /\ pc[p] = "upload"
    /\ p \in zip
    /\ CutOff(p, 1)
    /\ NotAccepted(p)
    /\ UNCHANGED <<fileVars, toWrite, toPack, package, signalled, cmd, onServer>>

\* Deleting the folder after a success.  Nobody waits for it but Node itself,
\* which ends when it is done, nor hears that it has failed with the folder, or
\* some of its files, still there.
CleanupDone(p) ==
    /\ pc[p] = "cleanup"
    /\ Removed(p) \/ UNCHANGED folder
    /\ Exit(p, 0)
    /\ UNCHANGED <<zip, toWrite, toPack, package, signalled, cmd, outcome>>

\* Mutant: the command ends without an exit code.
ExitFailedNoCode_(p) ==
    /\ pc[p] = "failed"
    /\ Removed(p) \/ UNCHANGED folder
    /\ GoTo(p, "exited")
    /\ UNCHANGED <<zip, procVars, cmd, outcome>>

\* After a failure the deletion has begun when process.exit(1) ends it,
\* wherever it is.
ExitFailed(p) ==
    /\ pc[p] = "failed"
    /\ Removed(p) \/ UNCHANGED folder
    /\ Exit(p, 1)
    /\ UNCHANGED <<zip, toWrite, toPack, package, signalled, cmd, outcome>>

\* Ctrl-C, or a crash.
Kill(p) ==
    /\ pc[p] # "exited"
    /\ CutOff(p, 1)
    /\ UNCHANGED <<fileVars, toWrite, toPack, package, signalled, cmd, request, onServer>>

-----------------------------------------------------------------------------
Prepare(p) ==
    \/ ValidateDeployment(p) \/ PrepareReact(p) \/ PrepareCordova(p)
    \/ RemoveFile(p) \/ EmptyFolder(p) \/ MakeFolder(p) \/ ClearBundlerCache(p)
    \/ WritePart(p) \/ BundlerSucceeds(p) \/ BundlerFails(p) \/ BundlerKilled(p)

Publish(p) ==
    \/ Release(p) \/ IsAuthenticated(p) \/ PackageFileFromPath(p)
    \/ PackSingleFile(p) \/ ListFolder(p) \/ PackFile(p) \/ PackingDone(p)
    \/ PackingFails(p) \/ UploadAnswered(p) \/ UnlinkFails(p)
    \/ CleanupDone(p) \/ ExitFailed(p)

Next == \E p \in Proc : Prepare(p) \/ Publish(p) \/ Kill(p) \/ UploadStored(p)

Spec == Init /\ [][Next]_vars

\* A process goes on when it can; the bundler ends, and the server answers or
\* the request fails.  Nothing makes the server store an update.
FairSpec == Spec /\ \A p \in Proc : WF_vars(Prepare(p) \/ Publish(p))

-----------------------------------------------------------------------------
(* Properties                                                              *)

ReactUpdate(p) == cmd[p] = "releaseReact" /\ onServer[p] # NoFile

\* What release-react publishes was written by its own bundler: nothing that
\* an earlier, perhaps killed, run left in the folder (createEmptyTempRelease-
\* Folder), and nothing of another process.  Holds when no two processes
\* share a folder.
ReleasesOwnFiles ==
    \A p \in Proc : ReactUpdate(p) =>
        \A x \in Part : onServer[p][x] \in {p, NoFile}

\* A bundler that ends by itself has its whole update published or nothing.
\* Holds when no two processes share a folder.
ReleasesWholeOrNothing ==
    \A p \in Proc : ReactUpdate(p) /\ p \notin signalled =>
        \A x \in Part : onServer[p][x] = p

\* A command that lives to hear how its upload went, whatever it hears, leaves
\* no zip in the working directory; only one that is cut off does, by a kill or
\* an error outside its promises, even if the server has the update.
ZipDeleted == \A p \in zip : pc[p] \in {"pack", "upload"} \/ p \in cutOff

Succeeded(p) == pc[p] = "exited" /\ code[p] = 0 /\ onServer[p] # NoFile

\* After a successful release-react the folder of --outputDir still holds the
\* update.  Holds when no two processes share a folder.
OutputDirKept ==
    \A p \in Proc : Succeeded(p) /\ cmd[p] = "releaseReact" /\ OutputDirGiven(p)
        => Dir(p) = onServer[p]

\* What a process says when it ends.
Report(c) == CASE c = NoCode -> "running" [] c = 0 -> "done" [] c = 1 -> "failed"

\* The abstract release: a folder is sent as a whole.
Atomic == INSTANCE AtomicRelease WITH
    disk     <- [p \in Proc |-> Dir(p)],
    sent     <- [p \in Proc |-> IF request[p] = "none" THEN NoFile ELSE package[p]],
    update   <- onServer,
    report   <- [p \in Proc |-> Report(code[p])],
    Gone     <- NoFolder,
    NoUpdate <- NoFile

\* Each command sends its folder as if it read it at one instant, having written
\* only files of its own, and only deletes afterwards; what the server stores,
\* perhaps after the command has ended, is what was sent; and a command that
\* reports success has nothing under way.  Holds when no two processes share a
\* folder.
ReleasesAtOnce == Atomic!Spec

\* Exit code 0 says that the server has the update.  Does not hold: a release
\* whose packaging fails never settles its promise.
SuccessMeansReleased ==
    \A p \in Proc : pc[p] = "exited" /\ code[p] = 0 => onServer[p] # NoFile

\* Every command ends.
CommandsEnd == \A p \in Proc : <>(pc[p] = "exited")
=============================================================================
