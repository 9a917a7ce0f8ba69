------------------------------- MODULE MCChat -------------------------------
(* Chat on a small instance: see the bounds in README.md. *)
EXTENDS Chat, TLC

CONSTANTS n1, n2, n3, s1, s2, s3

MCName == {n1, n2, n3}
MCSocket == {s1, s2, s3}
MCSymmetry == Permutations(MCName) \cup Permutations(MCSocket)
=============================================================================
