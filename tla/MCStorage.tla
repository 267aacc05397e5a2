-------------------------------- MODULE MCStorage --------------------------------
(* Values for the constants of Storage in TLC's run. *)
EXTENDS Storage

CONSTANTS p1, p2, p3, a, b, k, q

\* Two payments of one tenant, in one traced session, and one of another under the same key.
MCTenantOf == [p \in Payments |-> IF p = p3 THEN b ELSE a]
MCKeyOf == [p \in Payments |-> IF p = p2 THEN None ELSE k]
MCQuoteOf == [p \in Payments |-> IF p = p2 THEN q ELSE None]
MCCorrelationOf == [p \in Payments |-> IF p = p3 THEN p3 ELSE p1]
=================================================================================
