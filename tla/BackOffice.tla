-------------------------------- MODULE BackOffice --------------------------------
(***************************************************************************)
(* The API as its callers see it (the guards, the validation pipe, the     *)
(* error filter and the handlers of apps/api), with one dashboard in a     *)
(* browser (apps/web App and its panels) and any other clients.  The API   *)
(* is one process over in-memory repositories, whose calls it never waits  *)
(* for: it handles a request in one step.  A dashboard's requests may be   *)
(* handled, and answered, in any order, or lost; those of other clients    *)
(* are handled as they are made.                                           *)
(* Identifiers are random, or fixed by the seed: two creations never       *)
(* collide, and a second seed rewrites what the first one wrote.           *)
(***************************************************************************)
EXTENDS Naturals, FiniteSets, SequencesExt

CONSTANTS
  Tenants,
  Home,         \* the tenant of the only compliance case, which the dashboard starts with
  Keys,         \* idempotency keys; without a header, the clock makes up one of them
  Bodies,       \* of payment requests
  WellFormed,   \* the bodies the schema accepts; none of the dashboard's: its account ids are not UUIDs
  Outcome,      \* what executing each of these comes to
  MaxRequests   \* bound: requests of other clients and clicks in the dashboard

Results == {"settled", "failed", "validated", "400", "403", "404", "422"}
Refusals == Results \ {"settled", "failed", "validated"}

ASSUME BackOfficeAssumption ==
  /\ Home \in Tenants
  /\ WellFormed \subseteq Bodies
  /\ Outcome \in [WellFormed -> Results]
  /\ MaxRequests \in Nat

VARIABLES
  theCase,    \* the status of case-demo-1, and the request that decided it
  owner,      \* the tenant the seeded accounts and payments are under, if they are there
  accounts,   \* whether clients have made accounts: whose they are is not asked
  pays,       \* the payments clients have made
  locks,      \* the idempotency records
  processed, failed,   \* the counters, by tenant
  log,        \* the requests of other clients, with their answers
  tenant, tab, panel,  \* the dashboard: what is selected, what the tab shows,
  shown,      \* the payments it shows on every tab,
  selected,   \* the case that may be decided,
  busy,       \* the buttons that wait for an answer,
  flights,    \* the requests on their way or answered, in the order they were made;
  clicks,
  disturbed   \* whether an answer was lost or overtaken, or others changed what is shown

server == <<theCase, owner, accounts, pays, locks, processed, failed>>
browser == <<tenant, tab, panel, shown, selected, busy, flights, clicks>>
vars == <<server, log, browser, disturbed>>

---------------------------------------------------------------------------------
(* Who may call what. *)

\* Without a token a caller has every role; any other token is a customer's.
RolesOf ==
  [none |-> {"admin", "operator", "compliance_officer", "auditor", "customer"},
   admin |-> {"admin", "operator"}, compliance |-> {"compliance_officer"},
   auditor |-> {"auditor"}, other |-> {"customer"}]
Tokens == DOMAIN RolesOf

\* The roles each handler asks for: no guard is on the seed.
Required ==
  [pay |-> {"admin", "operator", "customer"},
   payments |-> {"admin", "operator", "compliance_officer", "auditor"},
   ledger |-> {"admin", "operator", "auditor", "compliance_officer"},
   cases |-> {"compliance_officer", "admin"}, decide |-> {"compliance_officer"},
   audit |-> {"admin", "auditor", "compliance_officer"},
   account |-> {"admin", "operator"}, seed |-> {}]

canActivate(token, kind) ==
  Required[kind] = {} \/ RolesOf[token] \cap Required[kind] # {}

\* The token each request of the dashboard has.
Bearer == [pay |-> "none", payments |-> "none", ledger |-> "none", seed |-> "none",
           cases |-> "compliance", decide |-> "compliance", audit |-> "auditor"]

---------------------------------------------------------------------------------
(* What the handlers do. *)

\* seedDatabase: fixed identifiers, so that what another tenant was seeded with is this one's now.
Seed(t) ==
  /\ owner' = {t}
  /\ UNCHANGED <<theCase, accounts, pays, locks, processed, failed>>

\* decideCase: the last decision stands.
Decide(decision, by) ==
  /\ theCase' = [status |-> decision, by |-> by]
  /\ UNCHANGED <<owner, accounts, pays, locks, processed, failed>>

\* createAccount
CreateAccount ==
  /\ accounts' = TRUE
  /\ UNCHANGED <<theCase, owner, pays, locks, processed, failed>>

\* What a list answers for a tenant; what there is in the ledger and the audit trail is left out.
Listing(kind, t) ==
  [of |-> t,
   data |-> IF kind = "cases" /\ t = Home THEN theCase.status
            ELSE IF kind = "payments" /\ t \in owner THEN "seeded" ELSE "none"]

Unlocked == [status |-> "absent", body |-> "none"]

\* findByIdempotencyKey: the first payment of any tenant.
FirstOfKey(k) == CHOOSE i \in DOMAIN pays :
  pays[i].key = k /\ \A j \in DOMAIN pays : pays[j].key = k => i <= j

\* Mutant: the counter is that of the tenant of the payment.
CountPayer(t, payment) ==
  /\ processed' = IF payment.state = "settled" THEN [processed EXCEPT ![payment.tenant] = @ + 1]
                                               ELSE processed
  /\ failed' = IF payment.state = "failed" THEN [failed EXCEPT ![payment.tenant] = @ + 1]
                                           ELSE failed

\* The counters of PaymentsService, of the tenant that asked.
Count(t, payment) ==
  /\ processed' = IF payment.state = "settled" THEN [processed EXCEPT ![t] = @ + 1] ELSE processed
  /\ failed' = IF payment.state = "failed" THEN [failed EXCEPT ![t] = @ + 1] ELSE failed

\* The n-th request of other clients and its answer; payment is the one it answers with, if any.
Logged(status, t, payment, cached) ==
  log' = Append(log, [status |-> status, tenant |-> t, payment |-> payment, cached |-> cached])
Here == Len(log) + 1

Refuse(status) == Logged(status, "none", 0, FALSE)
Done == Logged("201", "none", 0, FALSE)

\* Mutant: the payment is saved before its accounts are looked up.
ExecuteEagerly(t, k, body) ==
  LET payment == [by |-> Here, tenant |-> t, key |-> k, body |-> body, state |-> Outcome[body]]
      refused == Outcome[body] \in Refusals
  IN  /\ locks' = [locks EXCEPT ![<<t, k>>] =
                     [status |-> IF refused THEN "FAILED" ELSE "COMPLETED", body |-> body]]
      /\ pays' = Append(pays, payment)
      /\ IF refused THEN Refuse(Outcome[body]) /\ UNCHANGED <<processed, failed>>
                    ELSE Logged("201", t, Len(pays'), FALSE) /\ Count(t, payment)

\* executePayment once the lock is taken.  What it refuses it refuses before the payment is saved.
\* It is one step, and no other request meets the lock in PROCESSING, because the rail the API is
\* wired to, MockPaymentRailAdapter, neither waits nor throws; PaymentOrchestrator has one that
\* does both.
Execute(t, k, body) ==
  LET payment == [by |-> Here, tenant |-> t, key |-> k, body |-> body, state |-> Outcome[body]]
      refused == Outcome[body] \in Refusals
  IN  /\ locks' = [locks EXCEPT ![<<t, k>>] =
                     [status |-> IF refused THEN "FAILED" ELSE "COMPLETED", body |-> body]]
      /\ \/ refused /\ Refuse(Outcome[body]) /\ UNCHANGED <<pays, processed, failed>>
         \/ /\ ~refused
            /\ pays' = Append(pays, payment)
            /\ Logged("201", t, Len(pays'), FALSE)
            /\ Count(t, payment)

\* createPayment past the guards and the pipe: acquireLock, and what follows from it.
Pay(t, k, body) ==
  \/ /\ locks[<<t, k>>].body \notin {"none", body}
     /\ Refuse("422")
     /\ UNCHANGED <<pays, locks, processed, failed>>
  \/ /\ locks[<<t, k>>] = [status |-> "COMPLETED", body |-> body]
     /\ Logged("201", t, FirstOfKey(k), TRUE)
     /\ Count(t, pays[FirstOfKey(k)])
     /\ UNCHANGED <<pays, locks>>
  \/ /\ locks[<<t, k>>] \in {Unlocked, [status |-> "FAILED", body |-> body]}
     /\ Execute(t, k, body)

---------------------------------------------------------------------------------
(* Other clients: the guards, the pipe, the handler, the filter. *)

ClientMay == clicks + Len(log) < MaxRequests /\ UNCHANGED browser

\* A request the guard or the pipe turns away.
TurnedAway(kind, token, wellFormed) ==
  /\ \/ ~canActivate(token, kind) /\ Refuse("403")
     \/ canActivate(token, kind) /\ ~wellFormed /\ Refuse("400")
  /\ UNCHANGED <<server, disturbed>>

\* The ids of the accounts a payment is between are known once the accounts have been made.
ClientPays(t, token, k, body) ==
  /\ ClientMay
  /\ \/ TurnedAway("pay", token, body \in WellFormed)
     \/ /\ canActivate(token, "pay") /\ body \in WellFormed
        /\ Outcome[body] = "404" \/ accounts
        /\ Pay(t, k, body)
        /\ UNCHANGED <<theCase, owner, accounts, disturbed>>

ClientDecides(token, decision, wellFormed) ==
  /\ ClientMay
  /\ \/ TurnedAway("decide", token, wellFormed)
     \/ /\ canActivate(token, "decide") /\ wellFormed
        /\ \/ Refuse("404") /\ UNCHANGED <<server, disturbed>> \* no such case
           \/ /\ Decide(decision, Here)
              /\ Done
              /\ disturbed' = TRUE

\* Accounts there are for good: making them is not counted against the bound.
ClientMakesAccount(token, wellFormed) ==
  /\ ClientMay
  /\ \/ TurnedAway("account", token, wellFormed)
     \/ /\ canActivate(token, "account") /\ wellFormed
        /\ CreateAccount
        /\ UNCHANGED <<log, disturbed>>

ClientSeeds(t) ==
  /\ ClientMay
  /\ Seed(t)
  /\ Done
  /\ disturbed' = TRUE

---------------------------------------------------------------------------------
(* The dashboard. *)

Tabs == {"overview", "payments", "compliance", "audit", "idempotency"}
PanelOf == [overview |-> {"ledger"}, payments |-> {}, compliance |-> {"cases"}, audit |-> {"audit"},
            idempotency |-> {}]
Lists == {"payments", "ledger", "cases", "audit"}
Nothing == [of |-> "nobody", data |-> "none"]

\* late: an answer to a later request for the same list has come; mounted: the panel is still there.
Request(kind, t) ==
  [kind |-> kind, tenant |-> t, stage |-> "sent", ok |-> FALSE, answer |-> Nothing, call |-> 0,
   decision |-> "none", readable |-> TRUE, late |-> FALSE, mounted |-> TRUE]

Fetches(kinds, t) == SetToSeq({Request(kind, t) : kind \in kinds})

Init ==
  /\ theCase = [status |-> "PENDING", by |-> 0]
  /\ owner = {} /\ accounts = FALSE
  /\ pays = <<>>
  /\ locks = [s \in Tenants \X Keys |-> Unlocked]
  /\ processed = [t \in Tenants |-> 0]
  /\ failed = [t \in Tenants |-> 0]
  /\ log = <<>>
  /\ tenant = Home /\ tab = "overview"
  /\ panel = Nothing /\ shown = Nothing /\ selected = "none"
  /\ busy = {}
  /\ flights = Fetches({"payments", "ledger"}, Home)
  /\ clicks = 0
  /\ disturbed = FALSE

Click ==
  /\ clicks + Len(log) < MaxRequests
  /\ clicks' = clicks + 1
  /\ UNCHANGED <<server, log, disturbed>>

\* The panel of the tab is unmounted, and that of another mounted, which fetches its list.
SelectTab(t) ==
  /\ Click
  /\ t # tab
  /\ tab' = t
  /\ flights' = [i \in DOMAIN flights |-> [flights[i] EXCEPT !.mounted = FALSE]]
                  \o Fetches(PanelOf[t], tenant)
  /\ panel' = Nothing /\ selected' = "none" /\ busy' = busy \ {"decide", "pay", "test"}
  /\ UNCHANGED <<tenant, shown>>

\* The effects that depend on the tenant: the list of payments, and that of the panel.
SelectTenant(t) ==
  /\ Click
  /\ t # tenant
  /\ tenant' = t
  /\ flights' = flights \o Fetches({"payments"} \cup PanelOf[tab], t)
  /\ UNCHANGED <<tab, panel, shown, selected, busy>>

ClickSeed ==
  /\ Click
  /\ "seed" \notin busy
  /\ busy' = busy \cup {"seed"}
  /\ flights' = Append(flights, Request("seed", tenant))
  /\ UNCHANGED <<tenant, tab, panel, shown, selected>>

\* handleDecision, up to its fetch; the schema does not accept notes of less than five letters.
ClickDecision(decision, readable) ==
  /\ Click
  /\ tab = "compliance" /\ selected = "PENDING" /\ "decide" \notin busy
  /\ busy' = busy \cup {"decide"}
  /\ flights' = Append(flights, [Request("decide", tenant) EXCEPT
                                   !.decision = decision, !.readable = readable])
  /\ UNCHANGED <<tenant, tab, panel, shown, selected>>

\* handleExecutePayment, up to its fetch; its body is not well-formed, whatever is in the form.
ClickPay ==
  /\ Click
  /\ tab \in {"overview", "payments"} /\ "pay" \notin busy
  /\ busy' = busy \cup {"pay"}
  /\ flights' = Append(flights, [Request("pay", tenant) EXCEPT !.readable = FALSE])
  /\ UNCHANGED <<tenant, tab, panel, shown, selected>>

\* handleTestConcurrent makes one call after the other; their bodies are not well-formed either.
makeRequest(n, t) == [Request("pay", t) EXCEPT !.call = n, !.readable = FALSE]

ClickTest ==
  /\ Click
  /\ tab = "idempotency" /\ "test" \notin busy
  /\ busy' = busy \cup {"test"}
  /\ flights' = Append(flights, makeRequest(1, tenant))
  /\ UNCHANGED <<tenant, tab, panel, shown, selected>>

Answered(i, ok, answer) ==
  /\ flights' = [flights EXCEPT ![i].stage = "answered", ![i].ok = ok, ![i].answer = answer]
  /\ UNCHANGED <<log, tenant, tab, panel, shown, selected, busy, clicks, disturbed>>

\* The API handles a request of the dashboard.
Handle(i) ==
  LET f == flights[i]
      accepted == canActivate(Bearer[f.kind], f.kind) /\ f.readable
  IN  /\ f.stage = "sent"
      /\ \/ ~accepted /\ Answered(i, FALSE, Nothing) /\ UNCHANGED server
         \/ accepted /\ f.kind = "seed" /\ Seed(f.tenant) /\ Answered(i, TRUE, Nothing)
         \/ accepted /\ f.kind = "decide" /\ Decide(f.decision, 0) /\ Answered(i, TRUE, Nothing)
         \/ /\ accepted /\ f.kind \in Lists
            /\ Answered(i, TRUE, Listing(f.kind, f.tenant))
            /\ UNCHANGED server

\* The other requests once the i-th is gone; those before it for the same list are late.
Others(i) ==
  RemoveAt([j \in DOMAIN flights |->
              [flights[j] EXCEPT !.late = @ \/ (j < i /\ flights[j].kind = flights[i].kind)]], i)

\* A list has been answered; one that is refused, or late, leaves the dashboard behind.
HearList(i) ==
  /\ flights' = Others(i)
  /\ disturbed' = (disturbed \/ ~flights[i].ok \/ flights[i].late)
  /\ UNCHANGED <<server, log, tenant, tab, busy, clicks>>

HearPayments(i) ==
  /\ flights[i].kind = "payments"
  /\ shown' = IF flights[i].ok THEN flights[i].answer ELSE shown
  /\ HearList(i)
  /\ UNCHANGED <<panel, selected>>

\* The ledger's entries or the audit records, if the panel that asked is still there.
HearRecords(i) ==
  /\ flights[i].kind \in {"ledger", "audit"}
  /\ panel' = IF flights[i].mounted /\ flights[i].ok THEN flights[i].answer ELSE panel
  /\ HearList(i)
  /\ UNCHANGED <<shown, selected>>

\* The cases, the first of which is selected.
HearCases(i) ==
  LET f == flights[i]
      own == f.mounted /\ f.ok
  IN  /\ f.kind = "cases"
      /\ panel' = IF own THEN f.answer ELSE panel
      /\ selected' = IF own /\ f.answer.data # "none" THEN f.answer.data ELSE selected
      /\ HearList(i)
      /\ UNCHANGED shown

\* Mutant: the payments are not fetched again.
HearSeedOnly(i) ==
  /\ flights[i].kind = "seed"
  /\ busy' = busy \ {"seed"}
  /\ flights' = Others(i)
  /\ UNCHANGED <<server, log, tenant, tab, panel, shown, selected, clicks, disturbed>>

\* The payments are fetched again, for the tenant that is selected by now.
HearSeed(i) ==
  /\ flights[i].kind = "seed"
  /\ busy' = busy \ {"seed"}
  /\ flights' = Others(i) \o Fetches({"payments"}, tenant)
  /\ UNCHANGED <<server, log, tenant, tab, panel, shown, selected, clicks, disturbed>>

\* The cases are fetched again, for the tenant and by the panel the decision was made in.
HearDecision(i) ==
  LET f == flights[i]
      again == [Request("cases", f.tenant) EXCEPT !.mounted = f.mounted]
  IN  /\ f.kind = "decide"
      /\ busy' = IF f.mounted THEN busy \ {"decide"} ELSE busy
      /\ flights' = IF f.ok THEN Append(Others(i), again) ELSE Others(i)
      /\ disturbed' = (disturbed \/ ~f.mounted \/ f.tenant # tenant)
      /\ UNCHANGED <<server, log, tenant, tab, panel, shown, selected, clicks>>

\* What follows a payment that was refused or lost: the next call of a test, or else the button is
\* enabled again.
AfterPay(i) ==
  LET f == flights[i]
      again == [makeRequest(2, f.tenant) EXCEPT !.mounted = f.mounted]
      button == IF f.call = 0 THEN "pay" ELSE "test"
  IN  /\ flights' = IF f.call = 1 THEN Append(Others(i), again) ELSE Others(i)
      /\ busy' = IF f.call # 1 /\ f.mounted THEN busy \ {button} ELSE busy

HearPay(i) ==
  /\ flights[i].kind = "pay"
  /\ AfterPay(i)
  /\ UNCHANGED <<server, log, tenant, tab, panel, shown, selected, clicks, disturbed>>

Hear(i) ==
  /\ flights[i].stage = "answered"
  /\ \/ HearPayments(i) \/ HearRecords(i) \/ HearCases(i)
     \/ HearSeed(i) \/ HearDecision(i) \/ HearPay(i)

\* The connection breaks: some panels fall back on data of their own, the cases stay as they are,
\* and the button is enabled again.
LoseOther(i) ==
  LET f == flights[i]
  IN  /\ f.kind # "pay"
      /\ flights' = Others(i)
      /\ disturbed' = TRUE
      /\ shown' = IF f.kind = "payments" THEN Nothing ELSE shown
      /\ panel' = IF f.kind \in {"ledger", "audit"} /\ f.mounted THEN Nothing ELSE panel
      /\ busy' = IF f.kind = "seed" \/ f.mounted THEN busy \ {f.kind} ELSE busy
      /\ UNCHANGED <<server, log, tenant, tab, selected, clicks>>

\* It breaks before the API has the request or after; a payment's panel takes that for an answer.
Lose(i) == HearPay(i) \/ LoseOther(i)

Next ==
  \/ \E t \in Tenants, token \in Tokens, k \in Keys, body \in Bodies : ClientPays(t, token, k, body)
  \/ \E token \in Tokens, d \in {"APPROVED", "REJECTED"}, w \in BOOLEAN : ClientDecides(token, d, w)
  \/ \E token \in Tokens, w \in BOOLEAN : ClientMakesAccount(token, w)
  \/ \E t \in Tenants : ClientSeeds(t)
  \/ \E t \in Tabs : SelectTab(t)
  \/ \E t \in Tenants : SelectTenant(t)
  \/ ClickSeed
  \/ ClickPay
  \/ ClickTest
  \/ \E d \in {"APPROVED", "REJECTED"}, r \in BOOLEAN : ClickDecision(d, r)
  \/ \E i \in DOMAIN flights : Handle(i) \/ Hear(i) \/ Lose(i)

Spec == Init /\ [][Next]_vars

---------------------------------------------------------------------------------
(* Properties. *)

\* Once the dashboard has heard of all it asked for, no button is left waiting (the finally blocks
\* of its handlers); and with nothing lost, overtaken or changed by others, it shows the payments
\* and the cases as they now are, for the tenant that is selected, whatever was seeded and decided
\* meanwhile; and where the case is listed, it is for deciding only if it has not been decided
\* (the effects of App and of the panels, handleSeedData, handleDecision).
PanelsAreCurrent ==
  flights = <<>> =>
    /\ busy = {}
    /\ ~disturbed =>
         /\ shown = Listing("payments", tenant)
         /\ \A kind \in PanelOf[tab] :
              /\ panel.of = tenant
              /\ kind = "cases" => panel = Listing("cases", tenant)
              /\ kind = "cases" /\ tenant = Home => selected = theCase.status

\* A request that was refused has made no payment and no decision; and a tenant's key is answered
\* as done exactly when there is the tenant's one payment under it, made of the body the key is
\* kept for (the guards, the pipe, executePayment's order and its catch).
RefusedMeansNothingDone ==
  /\ \A i \in DOMAIN log :
       log[i].status \in Refusals =>
         theCase.by # i /\ \A j \in DOMAIN pays : pays[j].by # i
  /\ \A t \in Tenants, k \in Keys :
       LET Made(n) == pays[n].tenant = t /\ pays[n].key = k
       IN  IF locks[<<t, k>>].status = "COMPLETED"
           THEN \E n \in DOMAIN pays :
                  /\ Made(n) /\ pays[n].body = locks[<<t, k>>].body
                  /\ \A m \in DOMAIN pays \ {n} : ~Made(m)
           ELSE \A n \in DOMAIN pays : ~Made(n)

\* A tenant's counters are its settled and failed payments, and what it was told again under a key
\* had settled or failed, whosever payment that is (PaymentsService.createPayment).
CountersCount ==
  \A t \in Tenants :
    LET Own(state) == {n \in DOMAIN pays : pays[n].tenant = t /\ pays[n].state = state}
        Again(state) == {i \in DOMAIN log : /\ log[i].tenant = t /\ log[i].cached
                                            /\ pays[log[i].payment].state = state}
    IN  /\ processed[t] = Cardinality(Own("settled")) + Cardinality(Again("settled"))
        /\ failed[t] = Cardinality(Own("failed")) + Cardinality(Again("failed"))
=================================================================================
