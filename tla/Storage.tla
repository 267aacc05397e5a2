--------------------------------- MODULE Storage ---------------------------------
(***************************************************************************)
(* The two sets of repositories of packages/infra-postgres side by side:   *)
(* every save executePayment makes goes to both, and every query is put to *)
(* both.  The in-memory ones keep the objects they are given, by           *)
(* reference, in the order of their first save; the Prisma ones write      *)
(* columns, under the constraints of the schema, and build new objects     *)
(* from the rows they read.                                                *)
(* How saves fail and executions interleave with each other's keys is in   *)
(* PaymentOrchestrator, and what the audit records are chained to in       *)
(* AuditTrail: here it is what comes back that counts.                     *)
(***************************************************************************)
EXTENDS Naturals, Sequences, FiniteSets, SequencesExt

CONSTANTS
  Payments,
  Tenants,
  Keys,           \* idempotency keys
  None,           \* no key, no quote, any state
  TenantOf,
  KeyOf,
  QuoteOf,        \* the quote a payment names
  CorrelationOf,  \* the correlation id its execution was given
  PageSize,       \* the default limit of a listing, 50
  MaxTime         \* bound: milliseconds the clock counts

ASSUME StorageAssumption ==
  /\ TenantOf \in [Payments -> Tenants]
  /\ KeyOf \in [Payments -> Keys \cup {None}]
  /\ None \notin Keys
  /\ PageSize \in Nat /\ MaxTime \in Nat

VARIABLES
  payment,    \* the Payment object of each execution
  pc,         \* where the execution is
  saved,      \* in memory: the payments, in the order of the map
  rows,       \* in the database: the payments
  quotes,     \* in the database: the quotes
  trail,      \* in memory: the audit records
  sending,    \* the audit record an execution is inserting
  auditRows,  \* in the database: the audit records
  now

vars == <<payment, pc, saved, rows, quotes, trail, sending, auditRows, now>>

\* What a payment has got besides its state: a rejection reason, a ledger entry, a transaction of
\* the rail.  Present is what the parties of a new payment are known by, and stored what a row
\* knows of them: names and accounts, in countries the repository makes up.
PaymentType ==
  [state : {"none", "quoted", "validated", "committed", "settled", "failed"},
   has : SUBSET {"reason", "entry", "rail"},
   parties : {"present", "stored"}, created : 0 .. MaxTime, updated : 0 .. MaxTime]

NoPayment ==
  [state |-> "none", has |-> {},
   parties |-> "present", created |-> 0, updated |-> 0]

Exists(p) == rows[p].state # "none"

---------------------------------------------------------------------------------
(* Audit records. *)

\* Mutant: the keys of the object literal in alphabetical order.
afterStateSorted(p) ==
  <<"amount">> \o (IF "rail" \in payment[p].has THEN <<"railTxId">> ELSE <<>>)
    \o (IF "reason" \in payment[p].has THEN <<"rejectionReason">> ELSE <<>>) \o <<"state">>

\* The keys recordAudit gives a value, in the order it writes them.
afterState(p) ==
  <<"state", "amount">> \o (IF "reason" \in payment[p].has THEN <<"rejectionReason">> ELSE <<>>)
    \o (IF "rail" \in payment[p].has THEN <<"railTxId">> ELSE <<>>)

\* A jsonb column orders keys by their length, then by their bytes.
Jsonb(keys) ==
  LET Only(k) == IF Contains(keys, k) THEN <<k>> ELSE <<>>
  IN  Only("state") \o Only("amount") \o Only("railTxId") \o Only("rejectionReason")

\* The hash is taken to identify what is hashed, the order of the keys included.
calculateHash(p, state, time, keys) == <<p, state, time, keys>>

AuditRecord(p, state, time, keys) ==
  [payment |-> p, state |-> state, time |-> time, keys |-> keys,
   hash |-> calculateHash(p, state, time, keys)]

\* The row append writes, and the record made of a row: its constructor hashes anew.
AuditRow(r) == [r EXCEPT !.keys = Jsonb(@)]
Reload(row) == AuditRecord(row.payment, row.state, row.time, row.keys)

---------------------------------------------------------------------------------
(* What the Prisma repositories answer. *)

\* findById
Found(p) == [rows[p] EXCEPT !.parties = "stored"]

\* findByIdempotencyKey: the index on the key leaves one row at most.
RowsOfKey(k) == {p \in Payments : Exists(p) /\ KeyOf[p] = k}

RowsOfTenant(t, state) ==
  {p \in Payments : Exists(p) /\ TenantOf[p] = t /\ state \in {None, rows[p].state}}

\* findByTenant: the newest, and any of those created in the same millisecond.
Pages(t, state) ==
  LET all == RowsOfTenant(t, state)
  IN  {page \in SUBSET all :
         /\ Cardinality(page) = IF Cardinality(all) < PageSize THEN Cardinality(all) ELSE PageSize
         /\ \A p \in page, q \in all \ page : rows[q].created <= rows[p].created}

\* countByTenant
RowCount(t) == Cardinality(RowsOfTenant(t, None))

Oldest(list, records) ==
  /\ Len(list) = Cardinality(records) /\ ToSet(list) = records
  /\ \A i, j \in DOMAIN list : i < j => list[i].time <= list[j].time

\* findByEntity and findByCorrelationId may answer list: oldest first, ties in any order.
MayAnswerEntity(list, p) == Oldest(list, {Reload(r) : r \in {s \in auditRows : s.payment = p}})
MayAnswerCorrelation(list, c) ==
  Oldest(list, {Reload(r) : r \in {s \in auditRows : CorrelationOf[s.payment] = c}})

\* findRecent may answer list: newest first, none newer left out.
MayAnswerRecent(list, t, limit) ==
  LET all == {Reload(r) : r \in {s \in auditRows : TenantOf[s.payment] = t}}
  IN  /\ Len(list) = IF Cardinality(all) < limit THEN Cardinality(all) ELSE limit
      /\ ToSet(list) \subseteq all /\ Cardinality(ToSet(list)) = Len(list)
      /\ \A i, j \in DOMAIN list : i < j => list[j].time <= list[i].time
      /\ \A r \in all \ ToSet(list), i \in DOMAIN list : r.time <= list[i].time

---------------------------------------------------------------------------------
(* What the in-memory repositories answer. *)

\* What a filter leaves of a list, when it keeps the positions I: their elements, in order.
filter(list, I) ==
  [n \in 1 .. Cardinality(I) |-> list[CHOOSE i \in I : Cardinality({j \in I : j < i}) = n - 1]]

\* findByIdempotencyKey: the first payment of any tenant, or none.
FirstOfKey(k) ==
  LET matches == {i \in DOMAIN saved : KeyOf[saved[i]] = k}
  IN  {saved[i] : i \in {j \in matches : \A m \in matches : j <= m}}

OfTenant(t, state) ==
  filter(saved, {i \in DOMAIN saved :
                   TenantOf[saved[i]] = t /\ state \in {None, payment[saved[i]].state}})

\* findByTenant: the first of the map.
Page(t, state) == {p \in Payments : \E i \in 1 .. PageSize :
                     i \in DOMAIN OfTenant(t, state) /\ OfTenant(t, state)[i] = p}

\* findByEntity, findByCorrelationId, findRecent
trailOfEntity(p) == filter(trail, {i \in DOMAIN trail : trail[i].payment = p})
trailOfCorrelation(c) ==
  filter(trail, {i \in DOMAIN trail : CorrelationOf[trail[i].payment] = c})
trailRecent(t, limit) ==
  LET list == filter(trail, {i \in DOMAIN trail : TenantOf[trail[i].payment] = t})
  IN  Reverse(SubSeq(list, IF Len(list) > limit THEN Len(list) - limit + 1 ELSE 1, Len(list)))

---------------------------------------------------------------------------------
(* Steps. *)

Init ==
  /\ payment = [p \in Payments |-> NoPayment]
  /\ pc = [p \in Payments |-> "new"]
  /\ saved = <<>>
  /\ rows = [p \in Payments |-> NoPayment]
  /\ quotes = {}
  /\ trail = <<>>
  /\ sending = [p \in Payments |-> <<>>]
  /\ auditRows = {}
  /\ now = 0

Goto(p, s) == pc' = [pc EXCEPT ![p] = s]

\* new Payment, before the gate is asked.
Create(p) ==
  /\ pc[p] = "new"
  /\ payment' = [payment EXCEPT ![p] =
                   [@ EXCEPT !.state = "quoted", !.created = now, !.updated = now]]
  /\ Goto(p, "idle")
  /\ UNCHANGED <<saved, rows, quotes, trail, sending, auditRows, now>>

\* What a payment gets on its way into a state.
Gains(to) ==
  {f \in {"reason", "entry", "rail"} :
     <<f, to>> \in {<<"reason", "failed">>, <<"entry", "committed">>, <<"rail", "settled">>}}

\* The payment is moved on by its methods, with nothing awaited in between.
Change(p, from, to) ==
  /\ pc[p] = "idle"
  /\ payment[p].state = from
  /\ payment' = [payment EXCEPT ![p] = [@ EXCEPT
                   !.state = to, !.updated = now,
                   !.has = payment[p].has \cup Gains(to)]]
  /\ Goto(p, "changed")
  /\ UNCHANGED <<saved, rows, quotes, trail, sending, auditRows, now>>

Deny(p) == Change(p, "quoted", "failed")
Validate(p) == Change(p, "quoted", "validated")
Commit(p) == Change(p, "validated", "committed")
Settle(p) == Change(p, "committed", "settled")

\* Mutant: the index on the idempotency key is not unique.
CreatableAnyKey(p) == QuoteOf[p] # None => QuoteOf[p] \in quotes

\* What the schema demands of a new row: its key is new and its quote is there.  (Its accounts
\* and its ledger entry are: executePayment has read the ones and written the other.)
Creatable(p) ==
  /\ KeyOf[p] # None => RowsOfKey(KeyOf[p]) = {}
  /\ QuoteOf[p] # None => QuoteOf[p] \in quotes

\* Mutant: the columns of the update without the rail's transaction.
UpdateForgetful(p) ==
  [rows[p] EXCEPT !.state = payment[p].state, !.updated = payment[p].updated,
                  !.has = @ \cup (payment[p].has \ {"rail"})]

\* The columns of the update; an undefined one is left as it was.
Update(p) ==
  [rows[p] EXCEPT !.state = payment[p].state, !.updated = payment[p].updated,
                  !.has = @ \cup payment[p].has]

\* save: an upsert, which may be refused and ends the execution; and a put into the map.
Save(p) ==
  /\ pc[p] = "changed"
  /\ saved' = IF Contains(saved, p) THEN saved ELSE Append(saved, p)
  /\ \/ Exists(p) /\ rows' = [rows EXCEPT ![p] = Update(p)] /\ Goto(p, "saved")
     \/ ~Exists(p) /\ Creatable(p) /\ rows' = [rows EXCEPT ![p] = payment[p]] /\ Goto(p, "saved")
     \/ ~Exists(p) /\ ~Creatable(p) /\ Goto(p, "refused") /\ UNCHANGED rows
  /\ UNCHANGED <<payment, quotes, trail, sending, auditRows, now>>

\* saveQuote
SaveQuote(q) ==
  /\ q \notin quotes
  /\ quotes' = quotes \cup {q}
  /\ UNCHANGED <<payment, pc, saved, rows, trail, sending, auditRows, now>>

\* The audit record is made and pushed at once in memory, and on its way to the database.
Build(p) ==
  LET record == AuditRecord(p, payment[p].state, now, afterState(p))
  IN  /\ pc[p] = "saved"
      /\ trail' = Append(trail, record)
      /\ sending' = [sending EXCEPT ![p] = <<record>>]
      /\ Goto(p, "sending")
      /\ UNCHANGED <<payment, saved, rows, quotes, auditRows, now>>

\* append arrives.
Insert(p) ==
  /\ pc[p] = "sending"
  /\ auditRows' = auditRows \cup {AuditRow(sending[p][1])}
  /\ sending' = [sending EXCEPT ![p] = <<>>]
  /\ Goto(p, IF payment[p].state \in {"failed", "settled"} THEN "done" ELSE "idle")
  /\ UNCHANGED <<payment, saved, rows, quotes, trail, now>>

Tick ==
  /\ now < MaxTime
  /\ now' = now + 1
  /\ UNCHANGED <<payment, pc, saved, rows, quotes, trail, sending, auditRows>>

Finished ==
  /\ \A p \in Payments : pc[p] \in {"done", "refused"}
  /\ UNCHANGED vars

Next ==
  \/ \E p \in Payments :
       \/ Create(p) \/ Deny(p) \/ Validate(p) \/ Commit(p) \/ Settle(p)
       \/ Save(p) \/ Build(p) \/ Insert(p)
  \/ \E q \in {QuoteOf[p] : p \in Payments} \ {None} : SaveQuote(q)
  \/ Tick
  \/ Finished

Spec == Init /\ [][Next]_vars

---------------------------------------------------------------------------------
(* Properties. *)

TypeOK ==
  /\ payment \in [Payments -> PaymentType]
  /\ pc \in [Payments -> {"new", "idle", "changed", "saved", "sending", "done", "refused"}]
  /\ saved \in Seq(Payments)
  /\ rows \in [Payments -> PaymentType]
  /\ now \in 0 .. MaxTime

\* A payment that has been saved is read back as it was left, whatever was changed since its row
\* was created (save, findById); who its parties were is not.
ReadsAgree ==
  \A p \in Payments :
    pc[p] \in {"saved", "sending", "idle", "done"} /\ payment[p].state # "quoted" =>
      Found(p) = [payment[p] EXCEPT !.parties = "stored"]

\* Once nobody is between changing a payment and saving it, a key leads to the same payment in
\* both repositories, refused duplicates or not, and a tenant whose payments were all accepted
\* and fit on a page is shown the same ones (findByIdempotencyKey, findByTenant, countByTenant).
QueriesAgree ==
  (\A p \in Payments : pc[p] # "changed") =>
    /\ (\A p \in Payments : pc[p] = "refused" => QuoteOf[p] = None) =>
         \A k \in Keys : FirstOfKey(k) = RowsOfKey(k)
    /\ \A t \in Tenants :
         (\A p \in Payments : TenantOf[p] = t => pc[p] # "refused") =>
           /\ RowCount(t) = Len(OfTenant(t, None))
           /\ RowCount(t) <= PageSize =>
                \A state \in {None, "failed", "validated", "settled"} :
                  Pages(t, state) = {Page(t, state)}

\* Once nobody is inserting, the audit records one repository answers with are the other's, hashes
\* recomputed from jsonb included; only records of one millisecond may be in another order
\* (append, findByEntity, findByCorrelationId, findRecent, the AuditRecord constructor).
TrailsAgree ==
  (\A p \in Payments : sending[p] = <<>>) =>
    /\ \A p \in Payments : MayAnswerEntity(trailOfEntity(p), p)
    /\ \A p \in Payments :
         MayAnswerCorrelation(trailOfCorrelation(CorrelationOf[p]), CorrelationOf[p])
    /\ \A t \in Tenants : MayAnswerRecent(trailRecent(t, PageSize), t, PageSize)
=================================================================================
