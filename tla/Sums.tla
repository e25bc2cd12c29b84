---------------------------------- MODULE Sums ----------------------------------
(* Sums over finite sets, as a function of what is added up: SUM(...) of the   *)
(* queries, and reduce over the lines of a document.                           *)
EXTENDS Integers, FiniteSetsExt

SumOver(f, S) == MapThenSumSet(LAMBDA x : f[x], S)
================================================================================
