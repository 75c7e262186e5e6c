------------------------- MODULE MCReleaseCommands -------------------------
(* Instances of ReleaseCommands for TLC: two folders, and processes that    *)
(* have a folder each or share the default one.                             *)
EXTENDS ReleaseCommands, TLC

CONSTANTS p1, p2, tmp, out

Distinct == (p1 :> tmp) @@ (p2 :> out)
Shared   == (p1 :> tmp) @@ (p2 :> tmp)
Single   == (p1 :> tmp)
=============================================================================
