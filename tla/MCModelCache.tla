---------------------------- MODULE MCModelCache ----------------------------
(* Two keys and three callers for TLC; callers and keys are interchangeable. *)
EXTENDS ModelCache, TLC

CacheSymmetry == Permutations(Caller) \cup Permutations(Key)
==============================================================================
