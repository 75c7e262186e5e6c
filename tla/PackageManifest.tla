--------------------------- MODULE PackageManifest ---------------------------
(***************************************************************************)
(* The manifest of a package: the hash of each of its files by name, from  *)
(* a zip (generatePackageManifestFromZip) or from the folder the zip was   *)
(* packed from (generatePackageManifestFromDirectory).  Client and server  *)
(* compare hashes of manifests, so both ways have to give the same one.    *)
(*                                                                         *)
(* A name is a sequence of segments and separators; a hash is as good as   *)
(* the content.  Both functions are promises, fulfilled one file at a      *)
(* time, while another process may still work on the folder.               *)
(***************************************************************************)
EXTENDS Naturals, FiniteSets, Sequences

CONSTANTS
    Name,     \* names of files, and of folders (a separator at the end)
    Content,  \* what files hold
    Trees,    \* folders considered: functions from names to contents
    Zips      \* zips that were not packed from the folder: sequences of entries

Entry  == [name : Name, content : Content]
Source == {"zip", "directory"}

ASSUME ManifestAssumption ==
    /\ Name \subseteq Seq(STRING)
    /\ \A t \in Trees :
          /\ DOMAIN t \subseteq Name /\ IsFiniteSet(DOMAIN t)
          /\ t \in [DOMAIN t -> Content]
    /\ \A z \in Zips : z \in Seq(Entry)

VARIABLES
    files,    \* the folder
    touched,  \* another process has changed it since the zip was packed
    zip,      \* the zip
    packed,   \* it was packed from the folder
    zipOpen,  \* yauzl has it open
    next,     \* index of the entry to read
    todo,     \* files of the listing that are still to be hashed
    pc,       \* where each of the two functions is
    map,      \* fileHashesMap of each
    result    \* what its promise was settled with, once it was

vars == <<files, touched, zip, packed, zipOpen, next, todo, pc, map, result>>
world == <<files, touched, zip, packed>>

-----------------------------------------------------------------------------
(* Names                                                                   *)

\* Mutant: names are taken as they are.
normalizePathNot_(n) == n

\* String.replace with a text replaces the first occurrence only.
normalizePath(n) ==
    [i \in DOMAIN n |->
        IF n[i] = "\\" /\ \A j \in 1..(i - 1) : n[j] # "\\" THEN "/" ELSE n[i]]

\* The package slash, with which packageFileFromPath names entries: all of them.
slash(n) == [i \in DOMAIN n |-> IF n[i] = "\\" THEN "/" ELSE n[i]]

ASSUME NamesAssumption == \A n \in Name : slash(n) \in Name

startsWith(n, prefix) ==
    Len(n) >= Len(prefix) /\ SubSeq(n, 1, Len(prefix)) = prefix
endsWith(n, suffix) ==
    Len(n) >= Len(suffix) /\ SubSeq(n, Len(n) - Len(suffix) + 1, Len(n)) = suffix

isIgnored(n) ==
    \/ startsWith(n, <<"__MACOSX", "/">>)
    \/ n = <<".DS_Store">>
    \/ endsWith(n, <<"/", ".DS_Store">>)

-----------------------------------------------------------------------------
(* Manifests                                                               *)

\* Map.set
Set(m, name, content) ==
    [n \in DOMAIN m \cup {name} |-> IF n = name THEN content ELSE m[n]]

EmptyMap == [n \in {} |-> n]

\* computePackageHash: the hash of the sorted list of "name:hash" is as good as
\* the set of them.
PackageHash(m) == {<<n, m[n]>> : n \in DOMAIN m}

\* packageFileFromPath: the files of the folder, in the order of some listing.
Packed(t) ==
    {[i \in DOMAIN order |-> [name |-> slash(order[i]), content |-> t[order[i]]]] :
        order \in {o \in [1..Cardinality(DOMAIN t) -> DOMAIN t] :
                      \A i, j \in DOMAIN o : o[i] = o[j] => i = j}}

Init ==
    /\ files \in Trees
    /\ touched = FALSE
    /\ \/ zip \in Packed(files) /\ packed = TRUE
       \/ zip \in Zips /\ packed = FALSE
    /\ zipOpen = FALSE
    /\ next = 1
    /\ todo = {}
    /\ pc = [s \in Source |-> "start"]
    /\ map = [s \in Source |-> EmptyMap]
    /\ result = [s \in Source |-> <<>>]

Settle(s, r) ==
    /\ result' = [result EXCEPT ![s] = Append(@, r)]
    /\ pc' = [pc EXCEPT ![s] = "settled"]

Manifest(m) == [kind |-> "manifest", map |-> m]
Null        == [kind |-> "null", map |-> EmptyMap]
Rejected    == [kind |-> "rejected", map |-> EmptyMap]

GoTo(s, l) ==
    /\ pc' = [pc EXCEPT ![s] = l]
    /\ UNCHANGED result

-----------------------------------------------------------------------------
(* generatePackageManifestFromZip                                          *)

\* yauzl.open; a file it cannot open may be something else than a zip.
Open ==
    /\ pc["zip"] = "start"
    /\ \/ Settle("zip", Null) /\ UNCHANGED zipOpen
       \/ GoTo("zip", "reading") /\ zipOpen' = TRUE
    /\ UNCHANGED <<world, next, todo, map>>

EntryName == normalizePath(zip[next].name)

\* "entry": files are hashed one by one, some are passed over.
ReadEntry ==
    /\ pc["zip"] = "reading"
    /\ next <= Len(zip)
    /\ IF isIgnored(EntryName)
       THEN next' = next + 1 /\ UNCHANGED <<pc, result>>
       ELSE /\ \/ GoTo("zip", "hashing")
               \/ Settle("zip", Rejected)  \* openReadStream has failed
            /\ UNCHANGED next
    /\ UNCHANGED <<world, zipOpen, todo, map>>

Hashed ==
    /\ pc["zip"] = "hashing"
    /\ map' = [map EXCEPT !["zip"] = Set(@, EntryName, zip[next].content)]
    /\ next' = next + 1
    /\ GoTo("zip", "reading")
    /\ UNCHANGED <<world, zipOpen, todo>>

\* Mutant: the reading goes on with the next entry.
HashFailedReadsOn_ ==
    /\ pc["zip"] = "hashing"
    /\ next' = next + 1
    /\ GoTo("zip", "reading")
    /\ UNCHANGED <<world, zipOpen, todo, map>>

\* Mutant: an entry that cannot be read is nobody's business.
HashFailedSilently_ ==
    /\ pc["zip"] = "hashing"
    /\ GoTo("zip", "stuck")
    /\ UNCHANGED <<world, zipOpen, next, todo, map>>

\* The stream of an entry fails, and no further entry is asked for.
HashFailed ==
    /\ pc["zip"] = "hashing"
    /\ Settle("zip", Rejected)
    /\ UNCHANGED <<world, zipOpen, next, todo, map>>

\* "error" and "end", before which yauzl closes the file by itself.
ReadingEnds ==
    /\ pc["zip"] = "reading"
    /\ \/ Settle("zip", Rejected)
       \/ next > Len(zip) /\ Settle("zip", Manifest(map["zip"]))
    /\ zipOpen' = FALSE
    /\ UNCHANGED <<world, next, todo, map>>

\* Mutant: the file is closed when the promise is resolved only.
CloseResolved_ ==
    /\ pc["zip"] = "settled"
    /\ zipOpen
    /\ result["zip"] # <<Rejected>>
    /\ zipOpen' = FALSE
    /\ UNCHANGED <<world, next, todo, pc, map, result>>

\* Mutant: the file is closed without waiting for the promise.
CloseAtOnce_ ==
    /\ zipOpen
    /\ zipOpen' = FALSE
    /\ UNCHANGED <<world, next, todo, pc, map, result>>

\* finally: whatever the outcome.
Close ==
    /\ pc["zip"] = "settled"
    /\ zipOpen
    /\ zipOpen' = FALSE
    /\ UNCHANGED <<world, next, todo, pc, map, result>>

-----------------------------------------------------------------------------
(* generatePackageManifestFromDirectory                                    *)

\* readdirr lists the files, if there are any.
List ==
    /\ pc["directory"] = "start"
    /\ \/ Settle("directory", Rejected) /\ UNCHANGED todo  \* cannot be read
       \/ /\ IF files = EmptyMap THEN Settle("directory", Rejected)
                                 ELSE GoTo("directory", "hashing")
          /\ todo' = DOMAIN files
    /\ UNCHANGED <<world, zipOpen, next, map>>

\* Mutant: a file that cannot be read is passed over.
HashFileSkips_(n) ==
    /\ pc["directory"] = "hashing"
    /\ n \in todo
    /\ todo' = todo \ {n}
    /\ UNCHANGED <<world, zipOpen, next, pc, map, result>>

\* A file of the listing that is not passed over is hashed as it is by now, if
\* it is still there.
HashFile(n) ==
    /\ pc["directory"] = "hashing"
    /\ n \in todo
    /\ todo' = todo \ {n}
    /\ LET relativePath == normalizePath(n) IN
       \/ isIgnored(relativePath) /\ UNCHANGED <<pc, map, result>>
       \/ /\ ~isIgnored(relativePath)
          /\ n \in DOMAIN files
          /\ map' = [map EXCEPT !["directory"] = Set(@, relativePath, files[n])]
          /\ UNCHANGED <<pc, result>>
       \/ /\ ~isIgnored(relativePath)
          /\ Settle("directory", Rejected)  \* vanished, or cannot be read
          /\ UNCHANGED map
    /\ UNCHANGED <<world, zipOpen, next>>

Listed ==
    /\ pc["directory"] = "hashing"
    /\ todo = {}
    /\ Settle("directory", Manifest(map["directory"]))
    /\ UNCHANGED <<world, zipOpen, next, todo, map>>

-----------------------------------------------------------------------------
\* Another process (a bundler, an editor) works on the folder.
Touch ==
    /\ ~touched
    /\ touched' = TRUE
    /\ files' \in Trees \ {files}
    /\ UNCHANGED <<zip, packed, zipOpen, next, todo, pc, map, result>>

ZipStep == Open \/ ReadEntry \/ Hashed \/ HashFailed \/ ReadingEnds
DirectoryStep == List \/ (\E n \in todo : HashFile(n)) \/ Listed

Next == ZipStep \/ Close \/ DirectoryStep \/ Touch

Spec == Init /\ [][Next]_vars

\* Every read of the file system is answered in the end.
FairSpec == Spec /\ WF_vars(ZipStep) /\ WF_vars(Close) /\ WF_vars(DirectoryStep)

-----------------------------------------------------------------------------
(* Properties                                                              *)

Normalized == {normalizePath(n) : n \in Name}

\* Types; the zip is open while entries are read or hashed.
TypeOK ==
    /\ DOMAIN files \subseteq Name
    /\ touched \in BOOLEAN /\ packed \in BOOLEAN /\ zipOpen \in BOOLEAN
    /\ next \in 1..(Len(zip) + 1)
    /\ todo \subseteq Name
    /\ pc \in [Source -> {"start", "reading", "hashing", "settled"}]
    /\ \A s \in Source :
          /\ DOMAIN map[s] \subseteq Normalized
          /\ \A n \in DOMAIN map[s] : map[s][n] \in Content
          /\ result[s] \in {<<>>, <<Null>>, <<Rejected>>, <<Manifest(map[s])>>}
          /\ pc[s] # "settled" <=> result[s] = <<>>
    /\ pc["zip"] \in {"reading", "hashing"} => zipOpen

\* What a list of entries says: for each name that counts the last one.
Digest(entries) ==
    LET counts == {i \in DOMAIN entries : ~isIgnored(normalizePath(entries[i].name))}
        named(n) == {i \in counts : normalizePath(entries[i].name) = n}
    IN  [n \in {normalizePath(entries[i].name) : i \in counts} |->
            entries[CHOOSE i \in named(n) : \A j \in named(n) : j <= i].content]

\* No two of the names are normalised to the same one.
Distinct(names) ==
    \A m, n \in names : normalizePath(m) = normalizePath(n) => m = n

\* What a folder of distinct names says: each file that counts.
FolderDigest(t) ==
    LET counts == {n \in DOMAIN t : ~isIgnored(normalizePath(n))}
    IN  [n \in {normalizePath(m) : m \in counts} |->
            t[CHOOSE m \in counts : normalizePath(m) = n]]

\* Whatever fails on the way, a zip either has no manifest or one of all of its
\* entries, and a folder, if nobody else worked on it, none or one of all of its
\* files: what cannot be read is never just left out
\* (generatePackageManifestFromZip, generatePackageManifestFromDirectory).
ManifestIsWhole ==
    /\ result["zip"] # <<>> /\ result["zip"][1].kind = "manifest" =>
          result["zip"][1].map = Digest(zip)
    /\ /\ result["directory"] # <<>> /\ result["directory"][1].kind = "manifest"
       /\ ~touched /\ Distinct(DOMAIN files)
       => result["directory"][1].map = FolderDigest(files)

\* Names both functions spell the same: one backslash at most, and distinct
\* ones stay so.
Portable(names) ==
    /\ \A n \in names : Cardinality({i \in DOMAIN n : n[i] = "\\"}) <= 1
    /\ Distinct(names)

\* A folder that nobody touched has the same package hash as the zip that was
\* packed from it, for portable names (normalizePath and packageFileFromPath;
\* on Windows the names of nested folders have two backslashes and are not).
SameHash ==
    /\ packed /\ ~touched /\ Portable(DOMAIN files)
    /\ \A s \in Source : result[s] # <<>> /\ result[s][1].kind = "manifest"
    => PackageHash(result["zip"][1].map) = PackageHash(result["directory"][1].map)

Promise == INSTANCE AsyncCall WITH
    Call <- Source,
    Result <- {<<"manifest">>, <<"null">>, <<"rejected">>},
    NoResult <- <<>>,
    begun <- {s \in Source : pc[s] # "start"},
    result <- [s \in Source |-> [i \in DOMAIN result[s] |-> result[s][i].kind]]

\* Each promise is settled once and in the end, whichever entry or file fails
\* (the deferreds of both functions).
SettledOnce == Promise!Spec

\* The zip does not stay open once its promise is settled, whatever it was
\* settled with (the finally handler).
ClosedInTheEnd == pc["zip"] = "settled" ~> ~zipOpen
=============================================================================
