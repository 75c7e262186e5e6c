---------------------------- MODULE ProjectVersion ----------------------------
(***************************************************************************)
(* The binary version a React Native project states in its own files,      *)
(* which release-react targets if it is not given one                      *)
(* (getReactNativeProjectAppVersion).                                      *)
(*                                                                         *)
(* Version texts are told apart by what the program asks of them.          *)
(***************************************************************************)
EXTENDS Naturals, Sequences

CONSTANTS
    Missing,   \* a file that does not exist, or a folder in its place
    Malformed, \* a file that cannot be parsed
    Absent,    \* a file without the key
    NotFound   \* the lookup has failed: release-react is rejected

VersionText ==
    {"semver",          \* 1.2.3
     "twoParts",        \* 1.2
     "paddedTwoParts",  \* 01.2
     "digits",          \* 12
     "fourParts",       \* 1.2.3.4
     "paddedFourParts", \* 01.2.3.4
     "paddedThreeParts",\* 01.2.3
     "range",           \* ^1.2
     "name"}            \* the name of a Gradle property

\* throwForInvalidSemverRange lets these pass.
validRange(v) == v \in {"semver", "twoParts", "digits", "range"}

\* Mutant: the regular expression is not anchored at its end.
isValidVersionUnanchored_(v) == v \in VersionText \ {"digits", "range", "name"}

\* semver.valid, or two numbers.
isValidVersion(v) == v \in {"semver", "twoParts", "paddedTwoParts"}

StartsWithDigit(v) == v \notin {"range", "name"}

\* The first of several files, or of several nodes, that is not to be skipped.
First(seq, skipped, default) ==
    LET found == SelectSeq(seq, LAMBDA v : v \notin skipped) IN
    IF found = <<>> THEN default ELSE found[1]

Valid(v) == IF isValidVersion(v) THEN v ELSE NotFound

\* iOS: the property list given, or the first that exists of two.
PlistVersion(plists) == Valid(First(plists, {Missing}, Missing))

\* The first properties file that has the property; a malformed one before it
\* ends the search.
PropertyVersion(propertiesFiles) ==
    Valid(First(propertiesFiles, {Missing, Absent}, Missing))

\* Android: the first of the android nodes with a versionName, which may be a
\* version or the name of a property.
GradleVersion(gradle, propertiesFiles) ==
    IF gradle \in {Missing, Malformed} THEN NotFound
    ELSE LET versionName == First(gradle, {Absent}, Absent)
         IN  IF versionName = Absent \/ isValidVersion(versionName) \/ StartsWithDigit(versionName)
             THEN Valid(versionName)
             ELSE PropertyVersion(propertiesFiles)

\* Windows: the first three numbers of the manifest's version.
AppxVersion(manifest) ==
    CASE manifest \in {"semver", "fourParts"} -> "semver"
      [] manifest \in {"paddedThreeParts", "paddedFourParts"} -> "paddedThreeParts"
      [] OTHER -> NotFound

\* What release-react finds in a project for its platform.
getReactNativeProjectAppVersion(project) ==
    CASE project.platform = "ios" -> PlistVersion(project.files)
      [] project.platform = "android" -> GradleVersion(project.gradle, project.files)
      [] project.platform = "windows" -> AppxVersion(project.files[1])
=============================================================================
