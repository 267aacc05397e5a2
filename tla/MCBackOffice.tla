------------------------------- MODULE MCBackOffice -------------------------------
(* Values for the constants of BackOffice in TLC's run. *)
EXTENDS BackOffice

CONSTANTS small, barred, unknown, unreadable

\* A payment that settles, one the rules deny, one between unknown accounts, and one the schema
\* does not accept.
MCOutcome == [b \in WellFormed |->
  CASE b = small -> "settled" [] b = barred -> "failed" [] OTHER -> "404"]
=================================================================================
