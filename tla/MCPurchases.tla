----------------------------- MODULE MCPurchases -----------------------------
(* Instances of Purchases: one product and a few documents.                  *)
EXTENDS Purchases, TLC

CONSTANTS p1, d1, d2, s1, r1

Symmetry == Permutations({d1, d2})
================================================================================
