------------------------------- MODULE DebugLog -------------------------------
(***************************************************************************)
(* The debug command: the log of a device or simulator, of which only the  *)
(* messages of CodePush are printed.  The log arrives in chunks that are   *)
(* cut anywhere; each chunk is looked at on its own.                       *)
(*                                                                         *)
(* A log is a sequence of atoms: line feeds, the two halves of the prefix  *)
(* "[CodePush] ", the suffix that Cordova adds on Android, and text.  On   *)
(* a line nothing with a prefix in it comes after such a suffix.           *)
(***************************************************************************)
EXTENDS Naturals, Sequences, FiniteSetsExt

NL     == "\n"
Prefix == <<"[Code", "Push] ">>
Source == "\", source: file:///"

\* Where a prefix begins.
PrefixesIn(content) ==
    {i \in 1..(Len(content) - 1) : content[i] = Prefix[1] /\ content[i + 1] = Prefix[2]}

OneLine(content, i, j) == \A m \in i..j : content[m] # NL

\* content.split("\n") and filter: of each line with a prefix, where its first
\* one begins.
Starts(content) ==
    {i \in PrefixesIn(content) :
        \A h \in PrefixesIn(content) : h < i => ~OneLine(content, h, i)}

\* A message ends with its line or, on Android, where the source of it begins.
normalizeLogMessage(platform, content, i) ==
    LET ends == {j \in i..Len(content) :
                    \/ content[j] = NL
                    \/ platform = "android" /\ content[j] = Source} IN
    Min(ends \cup {Len(content) + 1})

Message(platform, content, i) ==
    SubSeq(content, i + 2, normalizeLogMessage(platform, content, i) - 1)

\* The k-th of a set of numbers, in ascending order.
Nth(S, k) == CHOOSE i \in S : Cardinality({h \in S : h <= i}) = k

\* Mutant: a chunk is taken for a line.
ChunkAsLine_(platform, chunk) ==
    IF PrefixesIn(chunk) = {} THEN <<>>
    ELSE <<Message(platform, chunk, Min(PrefixesIn(chunk)))>>

\* The messages printed for a chunk.
processLogData(platform, chunk) ==
    [k \in 1..Cardinality(Starts(chunk)) |-> Message(platform, chunk, Nth(Starts(chunk), k))]

\* Text that follows a prefix of the log, on one line with it.
FollowsPrefix(content, text) ==
    \E i \in PrefixesIn(content) : \E j \in (i + 1)..Len(content) :
        text = SubSeq(content, i + Len(Prefix), j) /\ OneLine(content, i, j)

\* adb has to be there, and one device.
AndroidReady(machine) == machine.adb /\ machine.devices = 1

\* Simulators run on a Mac only; the first that is booted is taken.
iOSReady(machine) == machine.darwin /\ machine.simulators # 0

\* Is there a log to listen to?
getLogProcess(platform, machine) ==
    \/ platform = "android" /\ AndroidReady(machine)
    \/ platform = "ios" /\ iOSReady(machine)
=============================================================================
