------------------------------ MODULE MCBilling ------------------------------
(* Finite instances of Billing. *)
EXTENDS Billing, TLC

(* Calls and tiers are interchangeable. *)
Symmetry == Permutations(Request) \cup Permutations(Tier)
=============================================================================
