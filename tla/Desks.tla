--------------------------------- MODULE Desks ---------------------------------
(* What the instances for model checking share: two people at work, and the    *)
(* desk a behaviour is about. The modules of one instance have no state in     *)
(* common; a behaviour stays at its desk, so the runs of the desks add up      *)
(* instead of multiplying.                                                     *)
EXTENDS TLC

CONSTANTS u1, u2

VARIABLE desk

ThePeople == Permutations({u1, u2})
================================================================================
