-------------------------- MODULE MCPaymentOrchestrator --------------------------
(* Values for the constants of PaymentOrchestrator in TLC's runs. *)
EXTENDS PaymentOrchestrator, TLC

CONSTANTS t1, t2, k1, low, high, listed

Rules == INSTANCE ValidationGate WITH NoAmount <- "none"

\* What executePayment tells the gate of a payload: no USD equivalent, no counts, no flags.
Asked(p) ==
  [senderKyc |-> "VERIFIED", recipientKyc |-> "VERIFIED", senderRisk |-> 10, recipientRisk |-> 0,
   sanctioned |-> FALSE, pep |-> FALSE, usd |-> "none", txCount |-> 1,
   amount |-> IF p = high THEN 1000001 ELSE 1000000, currency |-> "USD",
   senderCountry |-> "US", recipientCountry |-> IF p = listed THEN "KP" ELSE "DE"]

\* One payload per decision of the gate: a small one, one above the threshold, and one to a
\* blocked country.
MCGate == [p \in Payloads |-> Rules!validate(Asked(p))]

Sends(ts, ks, ps) == [tenant : ts, key : ks, payload : ps]

\* Retries of one operation, and another tenant that happens to use the same key.
Retries == Sends(Tenants, {k1}, {low})

\* The same with payloads that are not the one sent before, whatever the gate decides.
KeyedCommands == Sends(Tenants, {k1}, Payloads)

\* Every kind of command: both tenants, with and without a key, every decision.
AllCommands == Sends(Tenants, {k1, NoKey}, Payloads)

Symmetry == Permutations(Requests) \cup Permutations(Nodes) \cup Permutations(Tenants)
==================================================================================
