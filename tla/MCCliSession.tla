---------------------------- MODULE MCCliSession ----------------------------
(* Instances of CliSession for TLC. *)
EXTENDS CliSession, TLC

Symmetry == Permutations(Proc) \cup Permutations(SessionKey)
=============================================================================
