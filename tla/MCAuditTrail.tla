------------------------------- MODULE MCAuditTrail -------------------------------
(* Values for the constants of AuditTrail in TLC's runs. *)
EXTENDS AuditTrail, TLC

CONSTANTS p1, p2, p3, p4, t1, t2

\* Two payments of each tenant.
MCTenantOf == [p \in Payments |-> IF p \in {p1, p2} THEN t1 ELSE t2]
===================================================================================
