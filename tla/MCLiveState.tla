----------------------------- MODULE MCLiveState -----------------------------
(* Finite instances of LiveState. *)
EXTENDS LiveState, TLC

(* Sessions and ad sets are interchangeable. *)
Symmetry == Permutations(Caller) \cup Permutations(AdSet)
=============================================================================
