---------------------------- MODULE MCJwksCache ----------------------------
(* Instances of JwksCache for TLC. *)
EXTENDS JwksCache, TLC

\* For the safety runs: callers are interchangeable.
CallerSymmetry == Permutations(Callers)
=============================================================================
