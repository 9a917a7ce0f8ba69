------------------------------ MODULE MCThreads ------------------------------
(* ChatThreads on small instances: see the bounds in README.md. *)
EXTENDS ChatThreads, TLC

CONSTANTS n1, n2, n3, s1, s2, s3

OneName == {n1}
TwoNames == {n1, n2}
ThreeNames == {n1, n2, n3}
TwoSockets == {s1, s2}
ThreeSockets == {s1, s2, s3}
MCSymmetry == Permutations(Name) \cup Permutations(Socket)
=============================================================================
