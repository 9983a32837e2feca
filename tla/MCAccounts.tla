----------------------------- MODULE MCAccounts -----------------------------
(* Instances of Accounts for TLC. *)
EXTENDS Accounts, TLC

Symmetries == Permutations(Browsers) \union Permutations(Requests)
=============================================================================
