--------------------------- MODULE MCSalesDocuments ---------------------------
(* Instances of SalesDocuments: one product, two documents, a picking task.   *)
(* Requests follow one another, or two of them overlap. What holds of the one *)
(* and not of the other says so: overlapped remembers.                        *)
EXTENDS SalesDocuments, TLC

CONSTANTS p1, d1, d2, s1, s2

Symmetry == Permutations({d1, d2}) \cup Permutations({s1, s2})

\* Bound: requests overlap over one document, which nobody has to approve, and whose items
\* are then found or missing.
SmallOverlap ==
    /\ Cardinality({d \in Docs : docs[d] # NoDoc}) <= 1
    /\ \A d \in Docs, r \in Rules : requests[d][r] = None
    /\ \A s \in Sessions : session[s].op \in {"pick", "picked"} =>
          session[s].status \in {"picked", "missing"}

MCSalesSpec == SalesInit /\ [][SalesNext /\ (overlapped' => SmallOverlap')]_salesVars
================================================================================
