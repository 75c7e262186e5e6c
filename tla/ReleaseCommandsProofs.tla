----------------------- MODULE ReleaseCommandsProofs -----------------------
(* Theorems about ReleaseCommands: what is published and what is left of it *)
(* when no two processes work with the same folder, and that each release   *)
(* then is one of AtomicRelease.                                            *)
EXTENDS ReleaseCommands, TLAPS

USE DEF outcome

OwnFolders == \A p, q \in Proc : outputFolder[p] = outputFolder[q] => p = q

Types ==
    /\ folder \in [Folder -> Content \cup {NoFolder}]
    /\ cmd \in [Proc -> Command]
    /\ pc \in [Proc -> PC]
    /\ toWrite \in [Proc -> SUBSET Part]
    /\ toPack \in [Proc -> SUBSET Part]
    /\ package \in [Proc -> Content]
    /\ request \in [Proc -> Upload]
    /\ onServer \in [Proc -> Content \cup {NoFile}]

Own(p, c)   == c \in Content /\ \A x \in Part : c[x] \in {p, NoFile}
Whole(p, c) == c \in Content /\ \A x \in Part : c[x] = p

\* From the moment the folder was made until the answer of the server, the
\* folder and the package of a release-react hold its own files only, ...
OwnInv(p) ==
    /\ pc[p] \in {"cache", "bundle", "release", "auth", "list", "read", "pack"}
          => Own(p, Dir(p))
    /\ Own(p, package[p])
    /\ onServer[p] # NoFile => Own(p, onServer[p])

\* ... and all of them, if the bundler was left alone.  What was sent is there
\* for the server to store, however late.
WholeInv(p) ==
    p \notin signalled =>
        /\ pc[p] \in {"cache", "bundle"}
              => \A x \in Part \ toWrite[p] : Dir(p)[x] = p
        /\ pc[p] \in {"release", "auth", "list", "read", "pack"}
              => Whole(p, Dir(p))
        /\ pc[p] = "pack" => \A x \in Part \ toPack[p] : package[p][x] = p
        /\ request[p] # "none" =>
              /\ Whole(p, package[p])
              /\ pc[p] \in {"upload", "cleanup", "failed", "exited"}
        /\ onServer[p] # NoFile => Whole(p, onServer[p])
        /\ pc[p] \in {"validate", "prepare", "empty", "mkdir"} => toWrite[p] = Part

IInv == Types /\ \A p \in Proc : cmd[p] = "releaseReact" => OwnInv(p) /\ WholeInv(p)

LEMMA NothingOwn == \A p \in Proc : Own(p, Nothing)
BY DEF Own, Nothing, Content

LEMMA ContentNotFolder ==
    NoFile \notin Writer /\ NoFolder \notin Content /\ NoFile \notin Content
BY ReleaseAssumption, NoContentAssumption

\* A step of p changes no folder but p's.
LEMMA OtherDirs ==
    ASSUME OwnFolders, Types, NEW p \in Proc, NEW q \in Proc, q # p,
           NEW c, SetDir(p, c)
    PROVE  Dir(q)' = Dir(q)
<1>1. outputFolder[p] \in Folder /\ outputFolder[q] \in Folder
  BY ReleaseAssumption
<1>2. outputFolder[p] # outputFolder[q]
  BY DEF OwnFolders
<1> QED BY <1>1, <1>2 DEF SetDir, Dir, Types

LEMMA OwnDir ==
    ASSUME Types, NEW p \in Proc, NEW c, SetDir(p, c)
    PROVE  Dir(p)' = c
BY ReleaseAssumption DEF SetDir, Dir, Types

LEMMA TypesPreserved == Types /\ [Next]_vars => Types'
<1> SUFFICES ASSUME Types, [Next]_vars PROVE Types'
  OBVIOUS
<1>1. CASE UNCHANGED vars
  BY <1>1 DEF vars, fileVars, procVars, Types
<1>d. ASSUME NEW p \in Proc PROVE Dir(p) \in Content \cup {NoFolder}
  BY ReleaseAssumption DEF Types, Dir
<1>n. Nothing \in Content
  BY DEF Nothing, Content
<1>s. ASSUME NEW p \in Proc, NEW c \in Content \cup {NoFolder}, SetDir(p, c)
      PROVE  folder' \in [Folder -> Content \cup {NoFolder}]
  BY <1>s DEF SetDir, Types
<1>g. ASSUME NEW p \in Proc, NEW label \in PC, GoTo(p, label)
      PROVE  pc' \in [Proc -> PC]
  BY <1>g DEF GoTo, Types
<1>e. ASSUME NEW p \in Proc, NEW c, Exit(p, c) PROVE pc' \in [Proc -> PC]
  BY <1>e DEF Exit, Types, PC
<1>f. ASSUME NEW p \in Proc, Fail(p) PROVE pc' \in [Proc -> PC]
  BY <1>f, <1>g, <1>e DEF Fail, PC
<1>a. ASSUME NEW p \in Proc, NotAccepted(p) PROVE request' \in [Proc -> Upload]
  BY <1>a DEF NotAccepted, Upload, Types
<1>q. ASSUME NEW p \in Proc, SendUpload(p)
      PROVE  pc' \in [Proc -> PC] /\ request' \in [Proc -> Upload]
  BY <1>q, <1>g DEF SendUpload, PC, Upload, Types
<1>2. ASSUME NEW p \in Proc, Prepare(p) PROVE Types'
  <2>1. CASE ValidateDeployment(p) \/ PrepareReact(p) \/ PrepareCordova(p)
               \/ ClearBundlerCache(p)
    <3>1. PICK from, to \in PC : Advance(p, from, to)
      BY <2>1 DEF ValidateDeployment, PrepareReact, PrepareCordova,
                  ClearBundlerCache, PC
    <3> QED BY <3>1, <1>f, <1>g DEF Advance, fileVars, Types
  <2>2. CASE RemoveFile(p)
    <3>1. PICK x \in Part : SetDir(p, [Dir(p) EXCEPT ![x] = NoFile])
      BY <2>2 DEF RemoveFile
    <3>2. [Dir(p) EXCEPT ![x] = NoFile] \in Content
      BY <2>2, <1>d DEF RemoveFile, Content
    <3> QED BY <2>2, <3>1, <3>2, <1>s DEF RemoveFile, procVars, Types
  <2>3. CASE EmptyFolder(p)
    BY <2>3, <1>s, <1>g, <1>f DEF EmptyFolder, Removed, PC, procVars, Types
  <2>4. CASE MakeFolder(p)
    BY <2>4, <1>s, <1>n, <1>g, <1>f DEF MakeFolder, PC, procVars, Types
  <2>5. CASE WritePart(p)
    <3>1. PICK x \in toWrite[p] :
            /\ SetDir(p, IF Dir(p) = NoFolder THEN [Nothing EXCEPT ![x] = p]
                                              ELSE [Dir(p) EXCEPT ![x] = p])
            /\ toWrite' = [toWrite EXCEPT ![p] = @ \ {x}]
      BY <2>5 DEF WritePart
    <3>2. /\ [Nothing EXCEPT ![x] = p] \in Content
          /\ Dir(p) # NoFolder => [Dir(p) EXCEPT ![x] = p] \in Content
      BY <1>d, <1>n DEF Content, Writer
    <3>3. folder' \in [Folder -> Content \cup {NoFolder}]
      BY <3>1, <3>2, <1>s
    <3> QED BY <2>5, <3>1, <3>3 DEF WritePart, Types
  <2>6. CASE BundlerSucceeds(p)
    BY <2>6, <1>g DEF BundlerSucceeds, PC, fileVars, procVars, Types
  <2>7. CASE BundlerFails(p)
    BY <2>7, <1>f DEF BundlerFails, fileVars, Types
  <2>8. CASE BundlerKilled(p)
    BY <2>8, <1>f, <1>g DEF BundlerKilled, PC, fileVars, Types
  <2> QED BY <1>2, <2>1, <2>2, <2>3, <2>4, <2>5, <2>6, <2>7, <2>8 DEF Prepare
<1>3. ASSUME NEW p \in Proc, Publish(p) PROVE Types'
  <2>1. CASE Release(p) \/ PackageFileFromPath(p)
    BY <2>1, <1>f, <1>g DEF Release, PackageFileFromPath, PC, fileVars, Types
  <2>2. CASE IsAuthenticated(p)
    BY <2>2, <1>f, <1>g DEF IsAuthenticated, Advance, PC, fileVars, Types
  <2>3. CASE PackSingleFile(p)
    BY <2>3, <1>d, <1>q DEF PackSingleFile, SendUpload, fileVars, Types
  <2>4. CASE ListFolder(p)
    BY <2>4, <1>g DEF ListFolder, PC, Types
  <2>5. CASE PackFile(p)
    <3>1. CASE CutOff(p, 1) /\ UNCHANGED <<package, toPack>>
      BY <2>5, <3>1, <1>e DEF PackFile, CutOff, fileVars, Types
    <3>2. CASE \E x \in toPack[p] :
                 /\ Dir(p) # NoFolder
                 /\ package' = [package EXCEPT ![p][x] = Dir(p)[x]]
                 /\ toPack' = [toPack EXCEPT ![p] = @ \ {x}]
                 /\ UNCHANGED pc
      <4>1. PICK x \in toPack[p] :
                 /\ package' = [package EXCEPT ![p][x] = Dir(p)[x]]
                 /\ toPack' = [toPack EXCEPT ![p] = @ \ {x}]
                 /\ Dir(p)[x] \in Writer \cup {NoFile}
        BY <3>2, <1>d DEF Types, Content
      <4>2. package' \in [Proc -> Content] /\ toPack' \in [Proc -> SUBSET Part]
        BY <4>1 DEF Types, Content
      <4> QED BY <2>5, <3>2, <4>2 DEF PackFile, fileVars, Types
    <3> QED BY <2>5, <3>1, <3>2 DEF PackFile
  <2>6. CASE PackingDone(p)
    BY <2>6, <1>q DEF PackingDone, SendUpload, fileVars, procVars, Types
  <2>7. CASE PackingFails(p)
    BY <2>7, <1>e DEF PackingFails, CutOff, fileVars, Types
  <2>8. CASE UploadAnswered(p) \/ UnlinkFails(p)
    <3>1. pc' \in [Proc -> PC]
      BY <2>8, <1>f, <1>g, <1>e DEF UploadAnswered, UnlinkFails, CutOff, AfterRelease, PC
    <3>2. request' \in [Proc -> Upload]
      BY <2>8, <1>a DEF UploadAnswered, UnlinkFails, Types
    <3> QED BY <2>8, <3>1, <3>2 DEF UploadAnswered, UnlinkFails, fileVars, Types
  <2>9. CASE CleanupDone(p) \/ ExitFailed(p)
    BY <2>9, <1>s, <1>e DEF CleanupDone, ExitFailed, Removed, Types
  <2> QED BY <1>3, <2>1, <2>2, <2>3, <2>4, <2>5, <2>6, <2>7, <2>8, <2>9 DEF Publish
<1>4. ASSUME NEW p \in Proc, Kill(p) PROVE Types'
  BY <1>4, <1>e DEF Kill, CutOff, fileVars, Types
<1>5. ASSUME NEW p \in Proc, UploadStored(p) PROVE Types'
  BY <1>5 DEF UploadStored, fileVars, procVars, Upload, Types
<1> QED BY <1>1, <1>2, <1>3, <1>4, <1>5 DEF Next

\* A process whose folder, package and place stay the same keeps its part of
\* the invariant.
Still(q) ==
    /\ Dir(q)' = Dir(q) /\ pc'[q] = pc[q] /\ cmd'[q] = cmd[q]
    /\ toWrite'[q] = toWrite[q] /\ toPack'[q] = toPack[q]
    /\ package'[q] = package[q]
    /\ request'[q] = request[q] /\ onServer'[q] = onServer[q]
    /\ (q \in signalled') = (q \in signalled)

LEMMA StillKeeps ==
    ASSUME NEW q \in Proc, Still(q),
           cmd[q] = "releaseReact" => OwnInv(q) /\ WholeInv(q)
    PROVE  (cmd[q] = "releaseReact" => OwnInv(q) /\ WholeInv(q))'
BY DEF Still, OwnInv, WholeInv, Own, Whole

\* A step of p changes nothing of another process but its folder.
LEMMA OthersSteps ==
    ASSUME Types, NEW p \in Proc, NEW q \in Proc, q # p,
           Prepare(p) \/ Publish(p) \/ Kill(p) \/ UploadStored(p)
    PROVE  /\ pc'[q] = pc[q] /\ cmd'[q] = cmd[q]
           /\ toWrite'[q] = toWrite[q] /\ toPack'[q] = toPack[q]
           /\ package'[q] = package[q]
           /\ request'[q] = request[q] /\ onServer'[q] = onServer[q]
           /\ (q \in signalled') = (q \in signalled)
<1>1. CASE Prepare(p)
  <2>1. pc'[q] = pc[q]
    <3>1. UNCHANGED pc \/ (\E label : GoTo(p, label)) \/ Fail(p)
      BY <1>1 DEF Prepare, ValidateDeployment, PrepareReact, PrepareCordova,
         ClearBundlerCache, Advance, RemoveFile, EmptyFolder, MakeFolder,
         WritePart, BundlerSucceeds, BundlerFails, BundlerKilled
    <3> QED BY <3>1 DEF GoTo, Fail, Exit, Types
  <2>2. UNCHANGED <<cmd, toPack, package, request, onServer>>
    BY <1>1 DEF Prepare, ValidateDeployment, PrepareReact, PrepareCordova,
       ClearBundlerCache, Advance, RemoveFile, EmptyFolder, MakeFolder,
       WritePart, BundlerSucceeds, BundlerFails, BundlerKilled, procVars
  <2>3. UNCHANGED toWrite \/ \E w : toWrite' = [toWrite EXCEPT ![p] = w]
    BY <1>1 DEF Prepare, ValidateDeployment, PrepareReact, PrepareCordova,
       ClearBundlerCache, Advance, RemoveFile, EmptyFolder, MakeFolder,
       WritePart, BundlerSucceeds, BundlerFails, BundlerKilled, procVars
  <2>4. UNCHANGED signalled \/ signalled' = signalled \cup {p}
    BY <1>1 DEF Prepare, ValidateDeployment, PrepareReact, PrepareCordova,
       ClearBundlerCache, Advance, RemoveFile, EmptyFolder, MakeFolder,
       WritePart, BundlerSucceeds, BundlerFails, BundlerKilled, procVars
  <2> QED BY <2>1, <2>2, <2>3, <2>4 DEF Types
<1>2. CASE Publish(p)
  BY <1>2 DEF Publish, Release, IsAuthenticated, Advance, PackageFileFromPath,
     PackSingleFile, SendUpload, ListFolder, PackFile, CutOff, PackingDone,
     PackingFails, UploadAnswered, NotAccepted, AfterRelease, UnlinkFails,
     CleanupDone, ExitFailed, procVars, GoTo, Fail, Exit, Types
<1>3. CASE Kill(p) \/ UploadStored(p)
  BY <1>3 DEF Kill, CutOff, Exit, UploadStored, procVars, Types
<1> QED BY <1>1, <1>2, <1>3

LEMMA OthersStill ==
    ASSUME OwnFolders, Types, NEW p \in Proc, NEW q \in Proc, q # p,
           Prepare(p) \/ Publish(p) \/ Kill(p) \/ UploadStored(p)
    PROVE  Still(q)
<1>1. Dir(q)' = Dir(q)
  <2>1. UNCHANGED folder \/ \E c : SetDir(p, c)
    <3>1. CASE Prepare(p)
      BY <3>1 DEF Prepare, ValidateDeployment, PrepareReact, PrepareCordova,
         ClearBundlerCache, Advance, RemoveFile, EmptyFolder, Removed, MakeFolder,
         WritePart, BundlerSucceeds, BundlerFails, BundlerKilled, fileVars
    <3>2. CASE Publish(p)
      BY <3>2 DEF Publish, Release, IsAuthenticated, Advance, PackageFileFromPath,
         PackSingleFile, ListFolder, PackFile, PackingDone, PackingFails,
         UploadAnswered, UnlinkFails, CleanupDone, ExitFailed, Removed, fileVars
    <3>3. CASE Kill(p) \/ UploadStored(p)
      BY <3>3 DEF Kill, UploadStored, fileVars
    <3> QED BY <3>1, <3>2, <3>3
  <2>2. UNCHANGED folder => Dir(q)' = Dir(q)
    BY DEF Dir
  <2> QED BY <2>1, <2>2, OtherDirs
<1> QED BY <1>1, OthersSteps DEF Still

LEMMA IInvPreserved ==
    ASSUME OwnFolders PROVE IInv /\ [Next]_vars => IInv'
<1> SUFFICES ASSUME IInv, [Next]_vars PROVE IInv'
  OBVIOUS
<1>t. Types /\ Types'
  BY TypesPreserved DEF IInv
<1>1. CASE UNCHANGED vars
  <2>1. \A q \in Proc : Still(q)
    BY <1>1 DEF Still, vars, fileVars, procVars, Dir
  <2> QED BY <2>1, <1>t, StillKeeps DEF IInv
<1>2. ASSUME NEW p \in Proc, Prepare(p) \/ Publish(p) \/ Kill(p) \/ UploadStored(p),
             (cmd[p] = "releaseReact" => OwnInv(p) /\ WholeInv(p))'
      PROVE  IInv'
  <2>1. \A q \in Proc \ {p} : Still(q)
    BY <1>2, <1>t, OthersStill
  <2> QED BY <1>2, <2>1, <1>t, StillKeeps DEF IInv
<1>3. ASSUME NEW p \in Proc, Prepare(p) \/ Publish(p) \/ Kill(p) \/ UploadStored(p)
      PROVE  (cmd[p] = "releaseReact" => OwnInv(p) /\ WholeInv(p))'
  <2> SUFFICES ASSUME cmd'[p] = "releaseReact" PROVE OwnInv(p)' /\ WholeInv(p)'
    OBVIOUS
  <2>c. cmd[p] = "releaseReact"
    <3>1. CASE Prepare(p)
      BY <3>1 DEF Prepare, ValidateDeployment, PrepareReact, PrepareCordova,
         ClearBundlerCache, Advance, RemoveFile, EmptyFolder, MakeFolder,
         WritePart, BundlerSucceeds, BundlerFails, BundlerKilled
    <3>2. CASE Publish(p)
      BY <3>2 DEF Publish, Release, IsAuthenticated, Advance, PackageFileFromPath,
         PackSingleFile, ListFolder, PackFile, PackingDone, PackingFails,
         UploadAnswered, UnlinkFails, CleanupDone, ExitFailed
    <3> QED BY <1>3, <3>1, <3>2 DEF Kill, UploadStored
  <2>i. OwnInv(p) /\ WholeInv(p)
    BY <2>c DEF IInv
  <2>p. pc[p] \in PC /\ toWrite[p] \subseteq Part /\ toPack[p] \subseteq Part
    BY <1>t DEF Types
  <2>w. p \in Writer /\ p # NoFile
    BY ReleaseAssumption DEF Writer
  \* Steps that touch neither folder nor package: only the place changes.
  <2>m. ASSUME UNCHANGED <<folder, toWrite, toPack, package, request, onServer, signalled>>,
               \/ pc'[p] \in {"prepare", "empty"}
                     /\ pc[p] \in {"validate", "prepare"}
               \/ pc'[p] = "bundle" /\ pc[p] = "cache"
               \/ pc'[p] \in {"failed", "exited", "cleanup"}
               \/ pc'[p] \in {"auth", "list", "read"}
                     /\ pc[p] \in {"release", "auth", "list"}
        PROVE  OwnInv(p)' /\ WholeInv(p)'
    BY <2>m, <2>i DEF OwnInv, WholeInv, Own, Whole, Dir
  \* Steps that change the folder when it does not matter.
  <2>e. ASSUME UNCHANGED <<toWrite, toPack, package, request, onServer, signalled>>,
               \/ pc'[p] \in {"failed", "exited", "cleanup"}
               \/ pc'[p] \in {"empty", "mkdir"} /\ pc[p] = "empty"
        PROVE  OwnInv(p)' /\ WholeInv(p)'
    BY <2>e, <2>i DEF OwnInv, WholeInv, Own, Whole
  <2>f. Fail(p) => pc'[p] = "failed"
    BY <2>c, <1>t DEF Fail, GoTo, Types
  <2>1. CASE Kill(p)
    BY <2>1, <2>m, <1>t DEF Kill, CutOff, Exit, fileVars, Types
  <2>2. CASE Prepare(p)
    <3>1. CASE ValidateDeployment(p) \/ PrepareReact(p) \/ PrepareCordova(p)
                 \/ ClearBundlerCache(p)
      BY <3>1, <2>m, <2>f, <2>c, <1>t
      DEF ValidateDeployment, PrepareReact, PrepareCordova, ClearBundlerCache,
          Advance, GoTo, fileVars, Types
    <3>2. CASE RemoveFile(p)
      BY <3>2, <2>e, <1>t DEF RemoveFile, procVars, Types
    <3>3. CASE EmptyFolder(p)
      BY <3>3, <2>e, <2>f, <1>t DEF EmptyFolder, GoTo, procVars, Types
    <3>4. CASE MakeFolder(p)
      <4>1. CASE SetDir(p, Nothing) /\ GoTo(p, "cache")
        <5>1. Dir(p)' = Nothing
          BY <4>1, <1>t, OwnDir
        <5>2. pc'[p] = "cache"
          BY <4>1, <1>t DEF GoTo, Types
        <5>3. UNCHANGED <<toWrite, toPack, package, request, onServer, signalled>>
          BY <3>4 DEF MakeFolder, procVars
        <5>4. p \notin signalled => toWrite[p] = Part /\ request[p] = "none"
          BY <3>4, <2>i DEF MakeFolder, WholeInv
        <5>5. OwnInv(p)'
          BY <5>1, <5>2, <5>3, <2>i, NothingOwn DEF OwnInv, Own
        <5>6. WholeInv(p)'
          BY <5>1, <5>2, <5>3, <5>4, <2>i DEF WholeInv, Whole
        <5> QED BY <5>5, <5>6
      <4> QED BY <3>4, <4>1, <2>e, <2>f DEF MakeFolder, procVars
    <3>5. CASE WritePart(p)
      <4>1. Dir(p) # NoFolder /\ Own(p, Dir(p)) /\ pc[p] = "bundle" /\ pc'[p] = "bundle"
        BY <3>5, <2>c, <2>i DEF WritePart, OwnInv
      <4>2. PICK x \in toWrite[p] :
              /\ SetDir(p, [Dir(p) EXCEPT ![x] = p])
              /\ toWrite' = [toWrite EXCEPT ![p] = @ \ {x}]
        BY <3>5, <4>1 DEF WritePart
      <4>3. Dir(p)' = [Dir(p) EXCEPT ![x] = p]
        BY <4>2, <1>t, OwnDir
      <4>4. Own(p, Dir(p))'
        BY <4>1, <4>3, <2>w DEF Own, Content
      <4>5. \A y \in Part \ toWrite'[p] :
                (y \in Part \ toWrite[p] /\ Dir(p)'[y] = Dir(p)[y]) \/ Dir(p)'[y] = p
        BY <4>1, <4>2, <4>3, <1>t DEF Own, Content, Types
      <4>6. UNCHANGED <<toPack, package, request, onServer, signalled>>
        BY <3>5 DEF WritePart
      <4>7. OwnInv(p)'
        BY <4>1, <4>4, <4>6, <2>i DEF OwnInv, Own
      <4>8. WholeInv(p)'
        BY <4>1, <4>5, <4>6, <2>i DEF WholeInv, Whole
      <4> QED BY <4>7, <4>8
    <3>6. CASE BundlerSucceeds(p)
      <4>1. pc[p] = "bundle" /\ pc'[p] = "release" /\ toWrite[p] = {}
        BY <3>6, <1>t DEF BundlerSucceeds, GoTo, Types
      <4>2. UNCHANGED <<folder, toWrite, toPack, package, request, onServer, signalled>>
        BY <3>6 DEF BundlerSucceeds, fileVars, procVars
      <4>3. p \notin signalled => Whole(p, Dir(p))
        BY <4>1, <2>i DEF OwnInv, WholeInv, Own, Whole
      <4> QED BY <4>1, <4>2, <4>3, <2>i DEF OwnInv, WholeInv, Own, Whole, Dir
    <3>7. CASE BundlerFails(p)
      BY <3>7, <2>m, <2>f DEF BundlerFails, fileVars
    <3>8. CASE BundlerKilled(p)
      <4>1. /\ pc[p] = "bundle" /\ pc'[p] = "release" /\ p \in signalled'
            /\ UNCHANGED <<folder, toWrite, toPack, package, request, onServer>>
        BY <3>8, <2>c, <1>t DEF BundlerKilled, GoTo, fileVars, Types
      <4> QED BY <4>1, <2>i DEF OwnInv, WholeInv, Own, Dir
    <3> QED BY <2>2, <3>1, <3>2, <3>3, <3>4, <3>5, <3>6, <3>7, <3>8 DEF Prepare
  <2>3. CASE Publish(p)
    <3>1. CASE Release(p) \/ PackageFileFromPath(p) \/ IsAuthenticated(p)
      BY <3>1, <2>m, <2>f, <1>t
      DEF Release, PackageFileFromPath, IsAuthenticated, Advance, GoTo, fileVars, Types
    <3>2. ~PackSingleFile(p)
      BY <2>c DEF PackSingleFile
    <3>3. CASE ListFolder(p)
      <4>1. /\ pc[p] = "read" /\ pc'[p] = "pack"
            /\ toPack'[p] = {x \in Part : Dir(p)[x] # NoFile}
            /\ UNCHANGED <<folder, toWrite, package, request, onServer, signalled>>
        BY <3>3, <1>t DEF ListFolder, GoTo, Types
      <4>2. p \notin signalled => toPack'[p] = Part
        BY <4>1, <2>i, <2>w DEF WholeInv, Whole
      <4> QED BY <4>1, <4>2, <2>i DEF OwnInv, WholeInv, Own, Whole, Dir
    <3>4. CASE PackFile(p)
      <4>1. CASE pc'[p] = "exited" /\ UNCHANGED <<package, toPack>>
        BY <3>4, <4>1, <2>m DEF PackFile, fileVars
      <4>2. CASE \E x \in toPack[p] :
                   /\ Dir(p) # NoFolder
                   /\ Dir(p)[x] # NoFile
                   /\ package' = [package EXCEPT ![p][x] = Dir(p)[x]]
                   /\ toPack' = [toPack EXCEPT ![p] = @ \ {x}]
                   /\ UNCHANGED pc
        <5>1. PICK x \in toPack[p] :
                   /\ Dir(p)[x] # NoFile
                   /\ package' = [package EXCEPT ![p][x] = Dir(p)[x]]
                   /\ toPack' = [toPack EXCEPT ![p] = @ \ {x}]
          BY <4>2
        <5>2. pc[p] = "pack" /\ pc'[p] = "pack"
              /\ UNCHANGED <<folder, toWrite, request, onServer, signalled>>
          BY <3>4, <4>2 DEF PackFile, fileVars
        <5>3. Dir(p)[x] = p
          BY <5>1, <5>2, <2>i, <2>p DEF OwnInv, Own
        <5>4. package'[p] = [package[p] EXCEPT ![x] = p]
              /\ toPack'[p] = toPack[p] \ {x}
          BY <5>1, <5>3, <1>t DEF Types
        <5>5. Own(p, package[p])'
          BY <5>4, <2>i, <2>w DEF OwnInv, Own, Content
        <5>6. OwnInv(p)'
          BY <5>2, <5>5, <2>i DEF OwnInv, Own, Dir
        <5>7. \A y \in Part \ toPack'[p] :
                package'[p][y] = p
                  \/ (y \in Part \ toPack[p] /\ package'[p][y] = package[p][y])
          BY <5>4, <1>t DEF Types, Content
        <5>8. WholeInv(p)'
          BY <5>2, <5>7, <2>i DEF WholeInv, Whole, Dir
        <5> QED BY <5>6, <5>8
      <4> QED BY <3>4, <4>1, <4>2, <1>t DEF PackFile, CutOff, Exit, Types
    <3>5. CASE PackingDone(p)
      <4>1. /\ pc[p] = "pack" /\ pc'[p] = "upload" /\ toPack[p] = {}
            /\ UNCHANGED <<folder, toWrite, toPack, package, onServer, signalled>>
        BY <3>5, <1>t DEF PackingDone, SendUpload, GoTo, fileVars, procVars, Types
      <4> QED BY <4>1, <2>i DEF OwnInv, WholeInv, Own, Whole, Dir
    <3>6. CASE PackingFails(p)
      BY <3>6, <2>m, <1>t DEF PackingFails, CutOff, Exit, fileVars, Types
    <3>7. CASE UploadAnswered(p) \/ UnlinkFails(p)
      <4>1. pc'[p] \in {"failed", "cleanup", "exited"}
        BY <3>7, <2>f, <1>t
        DEF UploadAnswered, UnlinkFails, CutOff, AfterRelease, GoTo, Exit, Types
      <4>2. UNCHANGED <<folder, toWrite, toPack, package, onServer, signalled>>
        BY <3>7 DEF UploadAnswered, UnlinkFails, fileVars
      <4>3. request'[p] # "none" => request[p] # "none"
        BY <3>7, <1>t DEF UploadAnswered, UnlinkFails, NotAccepted, Types
      <4> QED BY <4>1, <4>2, <4>3, <2>i DEF OwnInv, WholeInv, Own, Whole
    <3>8. CASE CleanupDone(p) \/ ExitFailed(p)
      BY <3>8, <2>e, <1>t DEF CleanupDone, ExitFailed, Exit, Types
    <3> QED BY <2>3, <3>1, <3>2, <3>3, <3>4, <3>5, <3>6, <3>7, <3>8 DEF Publish
  <2>4. CASE UploadStored(p)
    <3>1. /\ UNCHANGED <<folder, toWrite, toPack, package, signalled, pc>>
          /\ request[p] # "none"
          /\ onServer'[p] = package[p]
      BY <2>4, <1>t DEF UploadStored, fileVars, procVars, Types
    <3> QED BY <3>1, <2>i DEF OwnInv, WholeInv, Own, Whole, Dir
  <2> QED BY <1>3, <2>1, <2>2, <2>3, <2>4
<1> QED BY <1>1, <1>2, <1>3 DEF Next

LEMMA InitIInv == Init => IInv
<1> SUFFICES ASSUME Init PROVE IInv
  OBVIOUS
<1>1. Nothing \in Content /\ [Part -> {Stale, NoFile}] \subseteq Content
  BY DEF Nothing, Content, Writer
<1>2. Types
  BY <1>1 DEF Init, Types, PC, Upload
<1>3. \A p \in Proc : cmd[p] = "releaseReact" => pc[p] = "validate"
  BY DEF Init
<1> QED BY <1>2, <1>3, NothingOwn DEF Init, IInv, OwnInv, WholeInv

\* Where no two processes share a folder, release-react publishes files of its
\* own bundler only.
THEOREM PublishesOwnFiles == ASSUME OwnFolders PROVE Spec => []ReleasesOwnFiles
<1>1. IInv => ReleasesOwnFiles
  BY DEF IInv, OwnInv, Own, ReleasesOwnFiles, ReactUpdate
<1>2. IInv /\ [Next]_vars => IInv'
  BY IInvPreserved
<1> QED BY <1>1, <1>2, InitIInv, PTL DEF Spec

\* There, too, a bundler that no signal ended has its update published whole.
THEOREM PublishesWholeOrNothing ==
    ASSUME OwnFolders PROVE Spec => []ReleasesWholeOrNothing
<1>1. IInv => ReleasesWholeOrNothing
  BY DEF IInv, WholeInv, Whole, ReleasesWholeOrNothing, ReactUpdate
<1>2. IInv /\ [Next]_vars => IInv'
  BY IInvPreserved
<1> QED BY <1>1, <1>2, InitIInv, PTL DEF Spec

-----------------------------------------------------------------------------
(* Exit codes and the temporary zip                                        *)

Booked ==
    /\ zip \subseteq Proc
    /\ signalled \subseteq Proc
    /\ cutOff \subseteq Proc
    /\ code \in [Proc -> {0, 1, NoCode}]
    /\ \A p \in Proc : pc[p] = "exited" <=> code[p] # NoCode

\* An upload is sent before it is stored or answered, and the zip goes with the
\* answer.
ZipInv(p) ==
    /\ p \in zip => pc[p] \in {"pack", "upload"} \/ p \in cutOff
    /\ request[p] # "none" => pc[p] \in {"upload", "cleanup", "failed", "exited"}
    /\ onServer[p] = IF request[p] = "stored" THEN package[p] ELSE NoFile
    /\ pc[p] = "cleanup" => request[p] = "stored"

BookInv == Types /\ Booked /\ \A p \in Proc : ZipInv(p)

\* A step goes on to another place, ends the process, or stays where it is.
LEMMA Moves ==
    ASSUME NEW p \in Proc, Prepare(p) \/ Publish(p) \/ Kill(p)
    PROVE  /\ pc[p] # "exited"
           /\ \/ \E label \in PC \ {"exited"} : GoTo(p, label) /\ UNCHANGED code
              \/ \E c \in {0, 1} : Exit(p, c)
              \/ UNCHANGED <<pc, code>>
<1>1. Fail(p) => \/ GoTo(p, "failed") /\ UNCHANGED code
                 \/ Exit(p, 1)
  BY DEF Fail
<1>c. \A c : CutOff(p, c) => Exit(p, c)
  BY DEF CutOff
<1>2. CASE Prepare(p)
  <2>1. CASE \/ ValidateDeployment(p) \/ PrepareReact(p) \/ PrepareCordova(p)
             \/ ClearBundlerCache(p)
    BY <1>1, <2>1 DEF ValidateDeployment, PrepareReact, PrepareCordova,
       ClearBundlerCache, Advance, PC
  <2>2. CASE RemoveFile(p) \/ WritePart(p)
    BY <2>2 DEF RemoveFile, WritePart, procVars
  <2>3. CASE EmptyFolder(p)
    BY <1>1, <2>3 DEF EmptyFolder, procVars, PC
  <2>4. CASE MakeFolder(p)
    BY <1>1, <2>4 DEF MakeFolder, procVars, PC
  <2>5. CASE BundlerSucceeds(p) \/ BundlerFails(p) \/ BundlerKilled(p)
    BY <1>1, <2>5 DEF BundlerSucceeds, BundlerFails, BundlerKilled, procVars, PC
  <2> QED BY <1>2, <2>1, <2>2, <2>3, <2>4, <2>5 DEF Prepare
<1>3. CASE Publish(p)
  <2>1. CASE Release(p) \/ IsAuthenticated(p) \/ PackageFileFromPath(p)
    BY <1>1, <2>1 DEF Release, IsAuthenticated, Advance, PackageFileFromPath, PC
  <2>2. CASE PackSingleFile(p) \/ ListFolder(p) \/ PackingDone(p)
    BY <2>2 DEF PackSingleFile, ListFolder, PackingDone, SendUpload, procVars, PC
  <2>3. CASE PackFile(p) \/ PackingFails(p) \/ UnlinkFails(p)
    BY <2>3, <1>c DEF PackFile, PackingFails, UnlinkFails
  <2>4. CASE UploadAnswered(p)
    BY <1>1, <2>4 DEF UploadAnswered, AfterRelease, PC
  <2>5. CASE CleanupDone(p) \/ ExitFailed(p)
    BY <2>5 DEF CleanupDone, ExitFailed
  <2> QED BY <1>3, <2>1, <2>2, <2>3, <2>4, <2>5 DEF Publish
<1>4. CASE Kill(p)
  BY <1>4, <1>c DEF Kill
<1> QED BY <1>2, <1>3, <1>4

\* A step of p itself, as far as the zip and the upload are concerned.
LEMMA ZipSteps ==
    ASSUME BookInv, NEW p \in Proc, Prepare(p) \/ Publish(p) \/ Kill(p)
    PROVE  /\ ZipInv(p)'
           /\ zip' \subseteq zip \cup {p} /\ zip \subseteq zip' \cup {p}
           /\ signalled' \in {signalled, signalled \cup {p}}
           /\ cutOff' \in {cutOff, cutOff \cup {p}}
           /\ onServer' = onServer
<1>t. Types /\ Booked /\ ZipInv(p)
  BY DEF BookInv
<1>f. Fail(p) => pc'[p] \in {"failed", "exited"}
  BY <1>t DEF Fail, GoTo, Exit, Types
\* Nothing is sent or packed yet, or the answer has come.
<1>m. ASSUME UNCHANGED <<zip, request, onServer, cutOff, package>>,
             pc[p] \notin {"pack", "upload"},
             \/ pc'[p] = pc[p] \/ pc'[p] \in {"failed", "exited"}
             \/ /\ pc[p] \notin {"cleanup", "failed", "exited"}
                /\ pc'[p] # "cleanup"
      PROVE  ZipInv(p)'
  BY <1>t, <1>m DEF ZipInv
<1>c. ASSUME NEW c, CutOff(p, c), UNCHANGED <<zip, onServer, package>>,
             request'[p] = request[p] \/ (request[p] = "sent" /\ request'[p] = "refused")
      PROVE  ZipInv(p)'
  BY <1>t, <1>c DEF ZipInv, CutOff, Exit, Types
<1>n. NotAccepted(p) =>
         \/ request'[p] = request[p]
         \/ request[p] = "sent" /\ request'[p] = "refused"
  BY <1>t DEF NotAccepted, Types
<1>1. CASE Prepare(p)
  <2>1. /\ UNCHANGED <<zip, request, onServer, cutOff, package>>
        /\ signalled' \in {signalled, signalled \cup {p}}
    BY <1>1 DEF Prepare, ValidateDeployment, PrepareReact, PrepareCordova,
       ClearBundlerCache, Advance, RemoveFile, EmptyFolder, MakeFolder, WritePart,
       BundlerSucceeds, BundlerFails, BundlerKilled, fileVars, procVars
  <2>2. CASE RemoveFile(p)
    BY <2>1, <2>2, <1>m DEF RemoveFile
  <2>3. CASE ~RemoveFile(p)
    <3>1. pc[p] \in {"validate", "prepare", "empty", "mkdir", "cache", "bundle"}
      BY <1>1, <2>3 DEF Prepare, ValidateDeployment, PrepareReact, PrepareCordova,
         ClearBundlerCache, Advance, EmptyFolder, MakeFolder, WritePart,
         BundlerSucceeds, BundlerFails, BundlerKilled
    <3>2. pc'[p] # "cleanup"
      BY <1>1, <2>3, <3>1, <1>f, <1>t DEF Prepare, ValidateDeployment, PrepareReact,
         PrepareCordova, ClearBundlerCache, Advance, EmptyFolder, MakeFolder,
         WritePart, BundlerSucceeds, BundlerFails, BundlerKilled, GoTo, Types
    <3> QED BY <2>1, <3>1, <3>2, <1>m
  <2> QED BY <2>1, <2>2, <2>3
<1>2. CASE Publish(p)
  <2>1. CASE Release(p) \/ IsAuthenticated(p) \/ PackageFileFromPath(p)
    <3>1. /\ UNCHANGED <<zip, request, onServer, cutOff, package, signalled>>
          /\ pc[p] \in {"release", "auth", "list"}
          /\ Fail(p) \/ \E label \in {"auth", "list", "read"} : GoTo(p, label)
      BY <2>1 DEF Release, IsAuthenticated, Advance, PackageFileFromPath, fileVars
    <3> QED BY <3>1, <1>f, <1>m, <1>t DEF GoTo, Types
  <2>2. CASE PackSingleFile(p)
    BY <2>2, <1>t DEF PackSingleFile, SendUpload, GoTo, ZipInv, fileVars, Types
  <2>3. CASE ListFolder(p)
    BY <2>3, <1>t DEF ListFolder, GoTo, ZipInv, Types
  <2>4. CASE PackFile(p)
    <3>1. CASE CutOff(p, 1) /\ UNCHANGED package
      BY <2>4, <3>1, <1>c DEF PackFile, CutOff, fileVars
    <3>2. CASE UNCHANGED <<pc, cutOff>>
      BY <2>4, <3>2, <1>t DEF PackFile, ZipInv, fileVars
    <3> QED BY <2>4, <3>1, <3>2 DEF PackFile
  <2>5. CASE PackingDone(p)
    BY <2>5, <1>t DEF PackingDone, SendUpload, GoTo, ZipInv, fileVars, procVars, Types
  <2>6. CASE PackingFails(p)
    BY <2>6, <1>c DEF PackingFails, CutOff, fileVars
  <2>7. CASE UploadAnswered(p)
    <3>1. /\ zip' = zip \ {p}
          /\ UNCHANGED <<onServer, cutOff, package, signalled>>
          /\ pc[p] = "upload"
      BY <2>7 DEF UploadAnswered, ZipAfterAnswer
    <3>2. CASE AfterRelease(p) /\ request[p] = "stored" /\ UNCHANGED request
      BY <3>1, <3>2, <1>t DEF AfterRelease, GoTo, Exit, ZipInv, Types
    <3>3. CASE Fail(p) /\ NotAccepted(p)
      BY <3>1, <3>3, <1>f, <1>n, <1>t DEF ZipInv
    <3> QED BY <2>7, <3>1, <3>2, <3>3 DEF UploadAnswered
  <2>8. CASE UnlinkFails(p)
    BY <2>8, <1>c, <1>n DEF UnlinkFails, CutOff, fileVars
  <2>9. CASE CleanupDone(p) \/ ExitFailed(p)
    BY <2>9, <1>m, <1>t DEF CleanupDone, ExitFailed, Exit, Types
  <2> QED BY <1>2, <2>1, <2>2, <2>3, <2>4, <2>5, <2>6, <2>7, <2>8, <2>9 DEF Publish
<1>3. CASE Kill(p)
  BY <1>3, <1>c DEF Kill, CutOff, fileVars
<1> QED BY <1>1, <1>2, <1>3

LEMMA BookInvPreserved == BookInv /\ [Next]_vars => BookInv'
<1> SUFFICES ASSUME BookInv, [Next]_vars PROVE BookInv'
  OBVIOUS
<1>t. Types /\ Types' /\ Booked
  BY TypesPreserved DEF BookInv
<1>1. CASE UNCHANGED vars
  BY <1>1, <1>t DEF BookInv, Booked, ZipInv, vars, fileVars, procVars
<1>2. ASSUME NEW p \in Proc, Prepare(p) \/ Publish(p) \/ Kill(p) PROVE BookInv'
  <2>z. /\ ZipInv(p)'
        /\ zip' \subseteq zip \cup {p} /\ zip \subseteq zip' \cup {p}
        /\ signalled' \in {signalled, signalled \cup {p}}
        /\ cutOff' \in {cutOff, cutOff \cup {p}}
    BY <1>2, ZipSteps
  <2>1. Booked'
    <3>1. zip' \subseteq Proc /\ signalled' \subseteq Proc /\ cutOff' \subseteq Proc
      BY <2>z, <1>t DEF Booked
    <3>2. CASE \E label \in PC \ {"exited"} : GoTo(p, label) /\ UNCHANGED code
      <4>1. code[p] = NoCode
        BY <1>2, <1>t, Moves DEF Booked
      <4> QED BY <3>1, <3>2, <4>1, <1>t DEF Booked, GoTo, Types
    <3>3. CASE \E c \in {0, 1} : Exit(p, c)
      BY <3>1, <3>3, <1>t DEF Booked, Exit, Types, NoCode
    <3>4. CASE UNCHANGED <<pc, code>>
      BY <3>1, <3>4, <1>t DEF Booked
    <3> QED BY <1>2, <3>2, <3>3, <3>4, Moves
  <2>2. ASSUME NEW q \in Proc, q # p PROVE ZipInv(q)'
    <3>1. ZipInv(q)
      BY DEF BookInv
    <3>2. (q \in zip' <=> q \in zip) /\ (q \in cutOff' <=> q \in cutOff)
      BY <2>z, <2>2
    <3>3. /\ pc'[q] = pc[q] /\ request'[q] = request[q]
          /\ onServer'[q] = onServer[q] /\ package'[q] = package[q]
      BY <1>2, <1>t, <2>2, OthersSteps
    <3> QED BY <3>1, <3>2, <3>3 DEF ZipInv
  <2> QED BY <2>z, <2>1, <2>2, <1>t DEF BookInv
<1>3. ASSUME NEW p \in Proc, UploadStored(p) PROVE BookInv'
  BY <1>3, <1>t DEF UploadStored, BookInv, Booked, ZipInv, fileVars, procVars, Types
<1> QED BY <1>1, <1>2, <1>3 DEF Next

LEMMA InitBookInv == Init => BookInv
<1> SUFFICES ASSUME Init PROVE BookInv
  OBVIOUS
<1>1. [Part -> {Stale, NoFile}] \subseteq Content /\ Nothing \in Content
  BY DEF Nothing, Content, Writer
<1>2. Types
  BY <1>1 DEF Init, Types, PC, Upload
<1>3. Booked
  BY DEF Init, Booked, NoCode
<1> QED BY <1>2, <1>3 DEF Init, BookInv, ZipInv

\* For any number of processes, folders and files the variables keep their
\* types, and exactly the processes that have ended have an exit code.
THEOREM TypeCorrect == Spec => []TypeOK
<1>1. BookInv => TypeOK
  BY DEF BookInv, Types, Booked, TypeOK
<1> QED BY <1>1, BookInvPreserved, InitBookInv, PTL DEF Spec

\* However processes overlap and fail, whatever their folders are, only one that
\* is cut off leaves its temporary zip behind.
THEOREM ZipIsDeleted == Spec => []ZipDeleted
<1>1. BookInv => ZipDeleted
  BY DEF BookInv, Booked, ZipInv, ZipDeleted
<1> QED BY <1>1, BookInvPreserved, InitBookInv, PTL DEF Spec

-----------------------------------------------------------------------------
(* What is left of the folder                                              *)

\* The package becomes what the folder holds, whatever the command is.
PackInv(p) ==
    /\ pc[p] \in {"validate", "prepare", "empty", "mkdir", "cache", "bundle",
                 "release", "auth", "list", "read"} => package[p] = Nothing
    /\ pc[p] = "pack" =>
          /\ Dir(p) \in Content
          /\ \A x \in Part \ toPack[p] : package[p][x] = Dir(p)[x]
    /\ pc[p] = "upload" => package[p] = Dir(p)

\* The folder of release-react stays as it is for the user who named it.
FolderInv(p) ==
    /\ pc[p] = "cleanup" => ~OutputDirGiven(p)
    /\ pc[p] = "exited" /\ code[p] = 0 => request[p] \in {"none", "stored"}
    /\ cmd[p] = "releaseReact" /\ Succeeded(p) /\ OutputDirGiven(p)
          => Dir(p) = onServer[p]

LeftInv == BookInv /\ \A p \in Proc : PackInv(p) /\ FolderInv(p)

\* A step of p itself, action by action.
LEMMA FolderSteps ==
    ASSUME LeftInv, Types', NEW p \in Proc, Prepare(p) \/ Publish(p) \/ Kill(p)
    PROVE  (PackInv(p) /\ FolderInv(p))'
<1>i. PackInv(p) /\ FolderInv(p) /\ ZipInv(p) /\ Types /\ Booked
  BY DEF LeftInv, BookInv
<1>d. Dir(p) \in Content \cup {NoFolder} /\ package[p] \in Content /\ NoFolder \notin Content
  BY <1>i, ReleaseAssumption, NoContentAssumption DEF Types, Dir
\* Up to the packing nothing but the place changes, or the process ends in
\* failure.
<1>m. ASSUME UNCHANGED <<package, request, onServer>>,
             pc[p] \notin {"pack", "upload", "cleanup", "exited"},
             \/ \E label \in {"prepare", "empty", "mkdir", "cache", "bundle", "release",
                              "auth", "list", "read", "failed"} :
                   /\ GoTo(p, label)
                   /\ label # "failed" => pc[p] # "failed"
             \/ Exit(p, 1)
             \/ UNCHANGED <<pc, code>>
      PROVE  (PackInv(p) /\ FolderInv(p))'
  <2>1. pc[p] = "failed" \/ package[p] = Nothing
    BY <1>i, <1>m DEF PackInv, FolderInv, Types, PC
  <2>2. package'[p] = package[p]
    BY <1>m
  <2>3. CASE \E label \in {"prepare", "empty", "mkdir", "cache", "bundle", "release",
                         "auth", "list", "read", "failed"} :
                GoTo(p, label) /\ (label # "failed" => pc[p] # "failed")
    BY <1>i, <2>1, <2>2, <2>3 DEF PackInv, FolderInv, GoTo, Types, Succeeded
  <2>4. CASE Exit(p, 1)
    BY <1>i, <2>4 DEF PackInv, FolderInv, Exit, Types, Booked, Succeeded
  <2>5. CASE UNCHANGED <<pc, code>>
    BY <1>i, <1>m, <2>1, <2>2, <2>5 DEF PackInv, FolderInv, Succeeded
  <2> QED BY <1>m, <2>3, <2>4, <2>5
<1>f. Fail(p) => (GoTo(p, "failed") /\ UNCHANGED code) \/ Exit(p, 1)
  BY DEF Fail
<1>c. CutOff(p, 1) => Exit(p, 1)
  BY DEF CutOff
<1>g. ASSUME pc'[p] = "failed" \/ (pc'[p] = "exited" /\ code'[p] = 1)
      PROVE  (PackInv(p) /\ FolderInv(p))'
  BY <1>g DEF PackInv, FolderInv, Succeeded
<1>1. CASE Prepare(p)
  <2>1. CASE ValidateDeployment(p) \/ PrepareReact(p) \/ ClearBundlerCache(p)
    BY <2>1, <1>f, <1>m DEF ValidateDeployment, PrepareReact, ClearBundlerCache, Advance
  <2>2. CASE PrepareCordova(p)
    BY <2>2, <1>f, <1>m DEF PrepareCordova, Advance
  <2>3. CASE RemoveFile(p)
    <3>1. /\ pc[p] \in {"empty", "cleanup", "failed"}
          /\ UNCHANGED <<pc, code, package, request, onServer>>
      BY <2>3 DEF RemoveFile, procVars
    <3> QED BY <3>1, <1>i DEF PackInv, FolderInv, Succeeded, OutputDirGiven
  <2>4. CASE EmptyFolder(p)
    BY <2>4, <1>f, <1>m DEF EmptyFolder, procVars
  <2>5. CASE MakeFolder(p)
    BY <2>5, <1>f, <1>m DEF MakeFolder, procVars
  <2>6. CASE WritePart(p)
    BY <2>6, <1>m DEF WritePart
  <2>7. CASE BundlerSucceeds(p) \/ BundlerFails(p) \/ BundlerKilled(p)
    BY <2>7, <1>f, <1>m DEF BundlerSucceeds, BundlerFails, BundlerKilled, procVars
  <2> QED BY <1>1, <2>1, <2>2, <2>3, <2>4, <2>5, <2>6, <2>7 DEF Prepare
<1>2. CASE Publish(p)
  <2>1. CASE Release(p) \/ IsAuthenticated(p) \/ PackageFileFromPath(p)
    BY <2>1, <1>f, <1>m DEF Release, IsAuthenticated, Advance, PackageFileFromPath
  <2>2. CASE PackSingleFile(p)
    <3>1. /\ pc'[p] = "upload" /\ Dir(p)' = Dir(p)
          /\ package'[p] = Dir(p)
      BY <2>2, <1>i DEF PackSingleFile, SendUpload, GoTo, Types, fileVars, Dir
    <3> QED BY <3>1 DEF PackInv, FolderInv, Succeeded
  <2>3. CASE ListFolder(p)
    <3>1. /\ pc[p] = "read" /\ pc'[p] = "pack" /\ Dir(p)' = Dir(p)
          /\ Dir(p) # NoFolder
          /\ toPack'[p] = {x \in Part : Dir(p)[x] # NoFile}
          /\ package' = package
      BY <2>3, <1>i DEF ListFolder, GoTo, Types, Dir
    <3>2. \A x \in Part \ toPack'[p] : package[p][x] = Dir(p)[x]
      BY <3>1, <1>i DEF PackInv, FolderInv, Nothing
    <3> QED BY <3>1, <3>2, <1>d DEF PackInv, FolderInv, Succeeded
  <2>4. CASE PackFile(p)
    <3>1. pc[p] = "pack" /\ Dir(p)' = Dir(p) /\ onServer' = onServer
      BY <2>4 DEF PackFile, fileVars, Dir
    <3>2. CASE CutOff(p, 1)
      BY <3>2, <1>c, <1>g, <1>i DEF Exit, Types, Booked
    <3>3. CASE \E x \in toPack[p] :
                  /\ package' = [package EXCEPT ![p][x] = Dir(p)[x]]
                  /\ toPack' = [toPack EXCEPT ![p] = @ \ {x}]
                  /\ UNCHANGED <<pc, code, cutOff>>
      <4>1. PICK x \in toPack[p] :
                  /\ package' = [package EXCEPT ![p][x] = Dir(p)[x]]
                  /\ toPack' = [toPack EXCEPT ![p] = @ \ {x}]
                  /\ UNCHANGED <<pc, code, cutOff>>
        BY <3>3
      <4>2. package'[p] = [package[p] EXCEPT ![x] = Dir(p)[x]]
        BY <4>1, <1>i DEF Types
      <4>3. toPack'[p] = toPack[p] \ {x} /\ x \in Part
        BY <4>1, <1>i DEF Types
      <4>4. \A y \in Part \ toPack'[p] : package'[p][y] = Dir(p)[y]
        BY <4>2, <4>3, <3>1, <1>i, <1>d DEF PackInv, FolderInv, Content
      <4> QED BY <3>1, <4>1, <4>4, <1>i DEF PackInv, FolderInv, Succeeded
    <3> QED BY <2>4, <3>2, <3>3 DEF PackFile
  <2>5. CASE PackingDone(p)
    <3>1. /\ pc[p] = "pack" /\ pc'[p] = "upload" /\ Dir(p)' = Dir(p)
          /\ package' = package /\ toPack[p] = {}
      BY <2>5, <1>i DEF PackingDone, SendUpload, GoTo, Types, fileVars, procVars, Dir
    <3>2. Dir(p) \in Content /\ \A x \in Part : package[p][x] = Dir(p)[x]
      BY <3>1, <1>i DEF PackInv, FolderInv
    <3>3. package[p] = Dir(p)
      BY <3>2, <1>d DEF Content
    <3> QED BY <3>1, <3>3 DEF PackInv, FolderInv, Succeeded
  <2>6. CASE PackingFails(p)
    <3>1. /\ pc[p] \in {"read", "pack"} /\ pc'[p] = "exited"
          /\ UNCHANGED <<request, onServer>>
      BY <2>6, <1>i DEF PackingFails, CutOff, Exit, Types
    <3>2. request[p] = "none" /\ onServer[p] = NoFile
      BY <3>1, <1>i DEF ZipInv
    <3> QED BY <3>1, <3>2 DEF PackInv, FolderInv, Succeeded
  <2>7. CASE UploadAnswered(p)
    <3>1. CASE Fail(p)
      BY <3>1, <1>f, <1>g, <1>i DEF GoTo, Exit, Types, Booked
    <3>2. CASE AfterRelease(p) /\ request[p] = "stored" /\ UNCHANGED request
      <4>1. /\ pc[p] = "upload" /\ cmd' = cmd /\ onServer' = onServer
            /\ Dir(p)' = Dir(p)
        BY <2>7 DEF UploadAnswered, Dir
      <4>2. onServer[p] = Dir(p)
        BY <3>2, <4>1, <1>i DEF ZipInv, PackInv
      <4>3. \/ pc'[p] = "cleanup" /\ ~OutputDirGiven(p)
            \/ pc'[p] = "exited"
        BY <3>2, <1>i DEF AfterRelease, GoTo, Exit, Types
      <4> QED BY <3>2, <4>1, <4>2, <4>3 DEF PackInv, FolderInv, Succeeded, OutputDirGiven
    <3> QED BY <2>7, <3>1, <3>2 DEF UploadAnswered
  <2>8. CASE CleanupDone(p)
    <3>1. /\ pc'[p] = "exited" /\ ~OutputDirGiven(p)
          /\ request[p] = "stored" /\ request' = request
      BY <2>8, <1>i DEF CleanupDone, Exit, Types, FolderInv, ZipInv
    <3> QED BY <3>1 DEF PackInv, FolderInv, OutputDirGiven
  <2>9. CASE ExitFailed(p) \/ UnlinkFails(p)
    BY <2>9, <1>c, <1>g, <1>i DEF ExitFailed, UnlinkFails, Exit, Types, Booked
  <2> QED BY <1>2, <2>1, <2>2, <2>3, <2>4, <2>5, <2>6, <2>7, <2>8, <2>9 DEF Publish
<1>3. CASE Kill(p)
  BY <1>3, <1>c, <1>g, <1>i DEF Kill, Exit, Types, Booked
<1> QED BY <1>1, <1>2, <1>3

LEMMA LeftInvPreserved ==
    ASSUME OwnFolders PROVE LeftInv /\ [Next]_vars => LeftInv'
<1> SUFFICES ASSUME LeftInv, [Next]_vars PROVE LeftInv'
  OBVIOUS
<1>b. BookInv /\ BookInv' /\ Types /\ Types' /\ Booked
  BY BookInvPreserved DEF LeftInv, BookInv
<1>s. ASSUME NEW q \in Proc, Still(q), code'[q] = code[q],
             PackInv(q), FolderInv(q)
      PROVE  (PackInv(q) /\ FolderInv(q))'
  BY <1>s DEF Still, PackInv, FolderInv, Succeeded, OutputDirGiven
<1>1. CASE UNCHANGED vars
  <2>1. \A q \in Proc : Still(q) /\ code'[q] = code[q]
    BY <1>1 DEF Still, vars, fileVars, procVars, Dir
  <2> QED BY <2>1, <1>b, <1>s DEF LeftInv
<1>2. ASSUME NEW p \in Proc, Prepare(p) \/ Publish(p) \/ Kill(p) PROVE LeftInv'
  <2>1. ASSUME NEW q \in Proc, q # p
        PROVE  (PackInv(q) /\ FolderInv(q))'
    <3>1. Still(q)
      BY <1>2, <1>b, <2>1, OthersStill
    <3>2. code'[q] = code[q]
      BY <1>2, <1>b, <2>1, Moves DEF Exit, Booked
    <3> QED BY <3>1, <3>2, <1>s DEF LeftInv
  <2>2. (PackInv(p) /\ FolderInv(p))'
    BY <1>2, <1>b, FolderSteps
  <2> QED BY <2>1, <2>2, <1>b DEF LeftInv
\* Late or not, what the server stores disturbs neither folder nor package.
<1>3. ASSUME NEW p \in Proc, UploadStored(p) PROVE LeftInv'
  <2>1. ASSUME NEW q \in Proc, q # p PROVE (PackInv(q) /\ FolderInv(q))'
    <3>1. Still(q) /\ code'[q] = code[q]
      BY <1>3, <1>b, <2>1, OthersStill DEF UploadStored, procVars
    <3> QED BY <3>1, <1>s DEF LeftInv
  <2>2. (PackInv(p) /\ FolderInv(p))'
    <3>1. /\ UNCHANGED <<folder, toPack, package, pc, code>>
          /\ request[p] = "sent" /\ request'[p] = "stored"
      BY <1>3, <1>b DEF UploadStored, fileVars, procVars, Types
    <3>2. PackInv(p) /\ FolderInv(p)
      BY DEF LeftInv
    <3> QED BY <3>1, <3>2 DEF PackInv, FolderInv, Succeeded, OutputDirGiven, Dir
  <2> QED BY <2>1, <2>2, <1>b DEF LeftInv
<1> QED BY <1>1, <1>2, <1>3 DEF Next

LEMMA InitLeftInv == Init => LeftInv
BY InitBookInv DEF Init, LeftInv, PackInv, FolderInv, Succeeded

\* Where no two processes share a folder, the folder of --outputDir holds what a
\* successful release-react has published.
THEOREM OutputDirIsKept == ASSUME OwnFolders PROVE Spec => []OutputDirKept
<1>1. LeftInv => OutputDirKept
  BY DEF LeftInv, FolderInv, OutputDirKept
<1>2. LeftInv /\ [Next]_vars => LeftInv'
  BY LeftInvPreserved
<1> QED BY <1>1, <1>2, InitLeftInv, PTL DEF Spec
-----------------------------------------------------------------------------
(* The release at one instant                                              *)

Disk == [p \in Proc |-> Dir(p)]
Sent == [p \in Proc |-> IF request[p] = "none" THEN NoFile ELSE package[p]]
Reports == [p \in Proc |-> Report(code[p])]

LEMMA ReportKinds ==
    /\ Report(NoCode) = "running" /\ Report(0) = "done" /\ Report(1) = "failed"
    /\ \A c \in {0, 1, NoCode} : /\ Report(c) \in {"running", "done", "failed"}
                                  /\ Report(c) = "done" <=> c = 0
BY DEF Report, NoCode

\* A step of p is one of AtomicRelease when it is for the folder and the exit
\* code of p.
LEMMA OneProcess ==
    ASSUME OwnFolders, LeftInv, LeftInv', NEW p \in Proc,
           Prepare(p) \/ Publish(p) \/ Kill(p)
    PROVE  /\ Disk' = [Disk EXCEPT ![p] = Dir(p)']
           /\ Sent' = [Sent EXCEPT ![p] = Sent'[p]]
           /\ Reports' = [Reports EXCEPT ![p] = Report(code'[p])]
           /\ Reports[p] = "running"
           /\ Disk[p] = Dir(p)
           /\ Dir(p) \in Content \cup {NoFolder}
           /\ Dir(p)' \in Content \cup {NoFolder}
<1>t. Types /\ Types' /\ Booked /\ Booked'
  BY DEF LeftInv, BookInv
<1>1. \A q \in Proc \ {p} : Dir(q)' = Dir(q)
  BY <1>t, OthersStill DEF Still
<1>2. \A q \in Proc \ {p} : code'[q] = code[q]
  BY <1>t, Moves DEF Exit, Booked
<1>3. code[p] = NoCode
  BY <1>t, Moves DEF Booked
<1>4. Disk' = [Disk EXCEPT ![p] = Dir(p)']
  BY <1>1 DEF Disk
<1>8. Sent' = [Sent EXCEPT ![p] = Sent'[p]]
  <2> DEFINE what(q) == IF request[q] = "none" THEN NoFile ELSE package[q]
  <2>1. Sent = [q \in Proc |-> what(q)] /\ Sent' = [q \in Proc |-> what(q)']
    BY DEF Sent
  <2>2. \A q \in Proc \ {p} : what(q)' = what(q)
    BY <1>t, OthersSteps
  <2> HIDE DEF what
  <2> QED BY <2>1, <2>2
<1>5. Reports' = [Reports EXCEPT ![p] = Report(code'[p])]
  BY <1>2 DEF Reports
<1>6. Reports[p] = "running"
  BY <1>3, ReportKinds DEF Reports
<1>7. Dir(p) \in Content \cup {NoFolder} /\ Dir(p)' \in Content \cup {NoFolder}
  BY <1>t, ReleaseAssumption DEF Types, Dir
<1> QED BY <1>4, <1>5, <1>6, <1>7, <1>8 DEF Disk

\* What a step does to the folder of its process: bundlers write files of their
\* own as long as nothing is sent, and everybody else only deletes.
LEMMA FolderChanges ==
    ASSUME LeftInv, LeftInv', NEW p \in Proc,
           Prepare(p) \/ Publish(p) \/ Kill(p)
    PROVE  \/ /\ MakeFolder(p) \/ WritePart(p)
              /\ pc[p] \in {"mkdir", "bundle"}
              /\ UNCHANGED code
              /\ Atomic!WrittenBy(p, Dir(p), Dir(p)')
           \/ Atomic!OnlyDeleted(Dir(p), Dir(p)')
<1>t. Types
  BY DEF LeftInv, BookInv
<1>d. Dir(p) \in Content \cup {NoFolder}
  BY <1>t, ReleaseAssumption DEF Types, Dir
<1>s. Dir(p)' = Dir(p) => Atomic!OnlyDeleted(Dir(p), Dir(p)')
  BY <1>d DEF Atomic!OnlyDeleted
<1>u. UNCHANGED folder => Dir(p)' = Dir(p)
  BY DEF Dir
<1>r. Removed(p) => Atomic!OnlyDeleted(Dir(p), Dir(p)')
  BY <1>t, OwnDir DEF Removed, Atomic!OnlyDeleted
<1>1. CASE Prepare(p)
  <2>1. CASE RemoveFile(p)
    <3>1. PICK x \in Part : SetDir(p, [Dir(p) EXCEPT ![x] = NoFile])
      BY <2>1 DEF RemoveFile
    <3>2. Dir(p)' = [Dir(p) EXCEPT ![x] = NoFile] /\ Dir(p) \in Content
      BY <2>1, <3>1, <1>t, <1>d, OwnDir DEF RemoveFile
    <3> QED BY <3>2, ContentNotFolder DEF Atomic!OnlyDeleted, Content
  <2>2. CASE EmptyFolder(p)
    BY <2>2, <1>r, <1>u, <1>s DEF EmptyFolder
  <2>3. CASE MakeFolder(p)
    <3>1. CASE Dir(p) = NoFolder
      <4>1. Dir(p)' = Nothing
        BY <2>3, <3>1, <1>t, OwnDir DEF MakeFolder
      <4>2. UNCHANGED code
        BY <2>3 DEF MakeFolder, procVars
      <4> QED BY <2>3, <4>1, <4>2 DEF MakeFolder, Atomic!WrittenBy, Nothing
    <3>2. CASE Dir(p) # NoFolder
      BY <2>3, <3>2, <1>u, <1>s DEF MakeFolder
    <3> QED BY <3>1, <3>2
  <2>4. CASE WritePart(p)
    <3>1. PICK x \in toWrite[p] :
             SetDir(p, IF Dir(p) = NoFolder THEN [Nothing EXCEPT ![x] = p]
                                            ELSE [Dir(p) EXCEPT ![x] = p])
      BY <2>4 DEF WritePart
    <3>2. Dir(p)' = IF Dir(p) = NoFolder THEN [Nothing EXCEPT ![x] = p]
                                         ELSE [Dir(p) EXCEPT ![x] = p]
      BY <3>1, <1>t, OwnDir
    <3>3. Atomic!WrittenBy(p, Dir(p), Dir(p)')
      BY <3>2, <1>d DEF Atomic!WrittenBy, Nothing, Content
    <3> QED BY <2>4, <3>3 DEF WritePart
  <2>5. CASE UNCHANGED folder
    BY <2>5, <1>u, <1>s
  <2> QED BY <1>1, <2>1, <2>2, <2>3, <2>4, <2>5 DEF Prepare, ValidateDeployment,
       PrepareReact, PrepareCordova, ClearBundlerCache, Advance, BundlerSucceeds,
       BundlerFails, BundlerKilled, fileVars
<1>2. CASE Publish(p)
  <2>1. Removed(p) \/ UNCHANGED folder
    BY <1>2 DEF Publish, Release, IsAuthenticated, Advance, PackageFileFromPath,
       PackSingleFile, ListFolder, PackFile, PackingDone, PackingFails,
       UploadAnswered, UnlinkFails, CleanupDone, ExitFailed, fileVars
  <2> QED BY <2>1, <1>u, <1>s, <1>r
<1>3. CASE Kill(p)
  BY <1>3, <1>u, <1>s DEF Kill, fileVars
<1> QED BY <1>1, <1>2, <1>3

Sends(p) == PackSingleFile(p) \/ PackingDone(p)

\* What a command sends is its folder.
LEMMA SendsFolder ==
    ASSUME OwnFolders, LeftInv, LeftInv', NEW p \in Proc, Sends(p)
    PROVE  Atomic!Send(p)
<1>t. Types /\ Types' /\ ZipInv(p) /\ PackInv(p)'
  BY DEF LeftInv, BookInv
<1>p. Publish(p)
  BY DEF Sends, Publish
<1>1. /\ pc[p] \in {"read", "pack"} /\ pc'[p] = "upload" /\ request'[p] = "sent"
      /\ UNCHANGED <<folder, onServer, code>>
  BY <1>t DEF Sends, PackSingleFile, PackingDone, SendUpload, GoTo, fileVars, procVars, Types
<1>2. request[p] = "none"
  BY <1>t, <1>1 DEF ZipInv
<1>3. Dir(p)' = Dir(p) /\ UNCHANGED <<Disk, Reports>>
  BY <1>1 DEF Disk, Reports, Dir
<1>4. package'[p] = Dir(p) /\ package'[p] \in Content
  BY <1>t, <1>1, <1>3 DEF PackInv, Types
<1>5. Sent[p] = NoFile /\ Sent'[p] = Disk[p] /\ Disk[p] # NoFolder
  BY <1>1, <1>2, <1>4, ContentNotFolder DEF Sent, Disk
<1>6. Reports[p] = "running" /\ Sent' = [Sent EXCEPT ![p] = Sent'[p]]
  BY <1>p, OneProcess
<1> QED BY <1>1, <1>3, <1>5, <1>6 DEF Atomic!Send, Disk, Sent, Reports

\* What the server stores is what was sent.
LEMMA StoresSent ==
    ASSUME LeftInv, NEW p \in Proc, UploadStored(p)
    PROVE  Atomic!Store(p)
<1>t. Types /\ ZipInv(p)
  BY DEF LeftInv, BookInv
<1>1. /\ request[p] = "sent" /\ request' = [request EXCEPT ![p] = "stored"]
      /\ onServer' = [onServer EXCEPT ![p] = package[p]]
      /\ UNCHANGED <<folder, package, code>>
  BY DEF UploadStored, fileVars, procVars
<1>2. UNCHANGED <<Disk, Reports>>
  BY <1>1 DEF Disk, Dir, Reports
<1>3. UNCHANGED Sent
  BY <1>1, <1>t DEF Sent, Types
<1>4. onServer[p] = NoFile
  BY <1>1, <1>t DEF ZipInv
<1>5. Sent[p] = package[p] /\ Sent[p] # NoFile
  BY <1>1, <1>t, ContentNotFolder DEF Sent, Types
<1> QED BY <1>1, <1>2, <1>3, <1>4, <1>5 DEF Atomic!Store, Disk, Sent, Reports

\* A process that ends with exit code 0 has what it sent stored.
LEMMA SuccessIsStored ==
    ASSUME LeftInv, NEW p \in Proc, Prepare(p) \/ Publish(p) \/ Kill(p), code'[p] = 0
    PROVE  request[p] \in {"none", "stored"}
<1>t. Types /\ Booked /\ ZipInv(p)
  BY DEF LeftInv, BookInv
<1>0. code[p] = NoCode /\ code'[p] # code[p]
  BY <1>t, Moves DEF Booked, NoCode
<1>1. Fail(p) => code'[p] # 0
  BY <1>t, <1>0 DEF Fail, Exit, Booked
<1>2. CASE Prepare(p)
  BY <1>0, <1>1, <1>2 DEF Prepare, ValidateDeployment, PrepareReact, PrepareCordova,
     ClearBundlerCache, Advance, RemoveFile, EmptyFolder, MakeFolder, WritePart,
     BundlerSucceeds, BundlerFails, BundlerKilled, procVars
<1>3. CASE Publish(p)
  <2>1. CASE CleanupDone(p)
    BY <2>1, <1>t DEF CleanupDone, ZipInv
  <2>2. CASE PackingFails(p) \/ PackFile(p)
    <3>1. pc[p] \in {"read", "pack"}
      BY <2>2 DEF PackingFails, PackFile
    <3> QED BY <3>1, <1>t DEF ZipInv
  <2>3. CASE UploadAnswered(p)
    BY <2>3, <1>1 DEF UploadAnswered
  <2>4. CASE ExitFailed(p) \/ UnlinkFails(p)
    BY <2>4, <1>t DEF ExitFailed, UnlinkFails, CutOff, Exit, Booked
  <2> QED BY <1>0, <1>1, <1>3, <2>1, <2>2, <2>3, <2>4 DEF Publish, Release,
       IsAuthenticated, Advance, PackageFileFromPath, PackSingleFile, SendUpload,
       ListFolder, PackingDone, procVars
<1>4. CASE Kill(p)
  BY <1>4, <1>t DEF Kill, CutOff, Exit, Booked
<1> QED BY <1>2, <1>3, <1>4

\* The other steps neither send nor store anything.
LEMMA SentStays ==
    ASSUME LeftInv, NEW p \in Proc, Prepare(p) \/ Publish(p) \/ Kill(p), ~Sends(p)
    PROVE  Sent'[p] = Sent[p] /\ onServer' = onServer
<1>t. Types /\ BookInv /\ ZipInv(p)
  BY DEF LeftInv, BookInv
<1>s. onServer' = onServer
  BY <1>t, ZipSteps
<1>1. CASE PackFile(p)
  <2>1. pc[p] = "pack" /\ UNCHANGED request
    BY <1>1 DEF PackFile
  <2>2. request[p] = "none"
    BY <2>1, <1>t DEF ZipInv
  <2> QED BY <1>s, <2>1, <2>2 DEF Sent
<1>2. CASE UploadAnswered(p) \/ UnlinkFails(p)
  <2>1. UNCHANGED package /\ (NotAccepted(p) \/ UNCHANGED request)
    BY <1>2 DEF UploadAnswered, UnlinkFails
  <2>2. (request'[p] = "none") <=> (request[p] = "none")
    BY <2>1, <1>t DEF NotAccepted, Types
  <2> QED BY <1>s, <2>1, <2>2 DEF Sent
<1>3. CASE ~PackFile(p) /\ ~UploadAnswered(p) /\ ~UnlinkFails(p)
  <2>1. UNCHANGED <<package, request>>
    <3>1. CASE Prepare(p)
      BY <3>1 DEF Prepare, ValidateDeployment, PrepareReact, PrepareCordova,
         ClearBundlerCache, Advance, RemoveFile, EmptyFolder, MakeFolder, WritePart,
         BundlerSucceeds, BundlerFails, BundlerKilled, procVars
    <3>2. CASE Publish(p)
      BY <3>2, <1>3 DEF Sends, Publish, Release, IsAuthenticated, Advance,
         PackageFileFromPath, ListFolder, PackingFails, CleanupDone, ExitFailed
    <3>3. CASE Kill(p)
      BY <3>3 DEF Kill
    <3> QED BY <3>1, <3>2, <3>3
  <2> QED BY <1>s, <2>1 DEF Sent
<1> QED BY <1>1, <1>2, <1>3

LEMMA StepsMap ==
    ASSUME OwnFolders, LeftInv, LeftInv', [Next]_vars
    PROVE  [Atomic!Next]_(Atomic!vars)
<1>1. CASE UNCHANGED vars
  BY <1>1 DEF vars, fileVars, procVars, Atomic!vars, Dir
<1>2. ASSUME NEW p \in Proc, UploadStored(p) PROVE Atomic!Next
  BY <1>2, StoresSent DEF Atomic!Next
<1>3. ASSUME NEW p \in Proc, Sends(p) PROVE Atomic!Next
  BY <1>3, SendsFolder DEF Atomic!Next
<1>4. ASSUME NEW p \in Proc, Prepare(p) \/ Publish(p) \/ Kill(p), ~Sends(p)
      PROVE  Atomic!Next
  <2>b. Booked' /\ ZipInv(p)
    BY DEF LeftInv, BookInv
  <2>o. /\ Disk' = [Disk EXCEPT ![p] = Dir(p)']
        /\ Reports' = [Reports EXCEPT ![p] = Report(code'[p])]
        /\ Reports[p] = "running"
        /\ Disk[p] = Dir(p)
        /\ Dir(p)' \in Content \cup {NoFolder}
        /\ Sent' = [Sent EXCEPT ![p] = Sent'[p]]
    BY <1>4, OneProcess
  <2>s. UNCHANGED <<Sent, onServer>>
    <3>1. Sent'[p] = Sent[p] /\ onServer' = onServer
      BY <1>4, SentStays
    <3> QED BY <2>o, <3>1 DEF Sent
  <2>1. CASE Atomic!OnlyDeleted(Dir(p), Dir(p)')
    <3>1. Report(code'[p]) \in {"running", "done", "failed"}
      BY <2>b, ReportKinds DEF Booked
    <3>2. Report(code'[p]) = "done" => onServer[p] = Sent[p]
      BY <1>4, <2>b, ReportKinds, SuccessIsStored DEF Booked, ZipInv, Sent
    <3>3. Atomic!Delete(p)
      BY <2>1, <2>o, <2>s, <3>1, <3>2 DEF Atomic!Delete, Disk, Sent, Reports
    <3> QED BY <3>3 DEF Atomic!Next
  <2>2. CASE /\ pc[p] \in {"mkdir", "bundle"}
             /\ UNCHANGED code
             /\ Atomic!WrittenBy(p, Dir(p), Dir(p)')
    <3>1. Sent[p] = NoFile
      BY <2>2, <2>b DEF ZipInv, Sent
    <3>2. UNCHANGED Reports
      BY <2>2 DEF Reports
    <3>3. Atomic!Write(p)
      BY <2>2, <2>o, <2>s, <3>1, <3>2 DEF Atomic!Write, Disk, Sent, Reports
    <3> QED BY <3>3 DEF Atomic!Next
  <2> QED BY <1>4, <2>1, <2>2, FolderChanges
<1> QED BY <1>1, <1>2, <1>3, <1>4 DEF Next

LEMMA InitMaps == Init => Atomic!Init
<1> SUFFICES ASSUME Init PROVE Atomic!Init
  OBVIOUS
<1>1. Types
  BY InitLeftInv DEF LeftInv, BookInv
<1>2. \A p \in Proc : Dir(p) \in Content \cup {NoFolder}
  BY <1>1, ReleaseAssumption DEF Types, Dir
<1>3. \A p \in Proc : Report(code[p]) = "running"
  BY ReportKinds DEF Init
<1> QED BY <1>2, <1>3 DEF Init, Atomic!Init

\* Where no two processes share a folder, every command sends its folder as if
\* it read it at one instant, having written files of its own only, and deletes
\* only afterwards; the server stores what was sent and nothing else, and has
\* done so when the command reports success.
THEOREM PublishesAtOnce == ASSUME OwnFolders PROVE Spec => ReleasesAtOnce
<1>1. LeftInv /\ [Next]_vars => LeftInv'
  BY LeftInvPreserved
<1>2. LeftInv /\ LeftInv' /\ [Next]_vars => [Atomic!Next]_(Atomic!vars)
  BY StepsMap
<1> QED BY <1>1, <1>2, InitLeftInv, InitMaps, PTL DEF Spec, ReleasesAtOnce, Atomic!Spec
=============================================================================
