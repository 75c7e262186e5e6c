-------------------------- MODULE MCAcquisitionSdk --------------------------
(* Instances of AcquisitionSdk for TLC: argument lists of every length, with *)
(* the callback last or without one.                                         *)
EXTENDS AcquisitionSdk

CONSTANTS package, label, key

Texts == {label, key, "Unknown"}

Prefix(args) == {SubSeq(args, 1, n) : n \in 0..Len(args)}

DeployPrefixes ==
    UNION {Prefix(<<p, s, l, k>>) : p \in {Nothing, package},
               s \in {Nothing, Succeeded, "Unknown"}, l \in {Nothing, label}, k \in {Nothing, key}}

PackagePrefixes == {<<p>> : p \in {Nothing, BadPackage, package}}

WithOrWithout(prefixes) == prefixes \cup {Append(args, Callback) : args \in prefixes}

Calls ==
    [method : {"reportStatusDeploy"}, args : WithOrWithout(DeployPrefixes)] \cup
    [method : {"queryUpdateWithCurrentPackage", "reportStatusDownload"},
     args : WithOrWithout(PackagePrefixes)]
=============================================================================
