------------------------------ MODULE MCRouter -------------------------------
(* Small instances of Router for TLC. *)
EXTENDS Router, TLC

CONSTANTS r1, r2, h1, h2, h3, u1

MCSymmetry == Permutations(Handlers) \cup Permutations(Reqs \ LocalFirst)
=============================================================================
