----------------------------- MODULE MCAccounts -----------------------------
(* Finite instances of Accounts. *)
EXTENDS Accounts, TLC

(* Phones, codes, calls, numbers and clients are interchangeable. *)
Symmetry == Permutations(Phone) \cup Permutations(Code) \cup Permutations(Login)
              \cup Permutations(Number) \cup Permutations(Client)
=============================================================================
