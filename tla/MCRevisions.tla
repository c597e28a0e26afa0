----------------------------- MODULE MCRevisions -----------------------------
(* Revisions for TLC: requests are interchangeable.                          *)
EXTENDS Revisions, TLC

ClientSymmetry == Permutations(Client)
==============================================================================
