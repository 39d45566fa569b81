---------------------------- MODULE MCLoginFlow ----------------------------
(* Instances of LoginFlow for TLC. *)
EXTENDS LoginFlow, TLC

Symmetry == Permutations(Task) \cup Permutations(Link) \cup Permutations(Uid)
=============================================================================
