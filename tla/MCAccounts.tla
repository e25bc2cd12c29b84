----------------------------- MODULE MCAccounts -----------------------------
(* An instance of Accounts whose payments and batches are interchangeable.  *)
EXTENDS Accounts, TLC

Symmetry == Permutations(Payments) \cup Permutations(Batches)
================================================================================
