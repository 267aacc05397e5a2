-------------------------------- MODULE AuditTrail --------------------------------
(***************************************************************************)
(* The hash chain of the audit log: PaymentOrchestrator.recordAudit over   *)
(* the in-memory and the Prisma audit repository.  A recorder reads the    *)
(* latest record of its tenant, builds a record that carries the hash of   *)
(* what it read, and appends it; each payment does so several times.       *)
(* A record's hash is taken to identify it (SHA-256 over all its fields).  *)
(***************************************************************************)
EXTENDS Naturals, Sequences

CONSTANTS
  Payments,     \* executions that record
  Tenants,
  TenantOf,     \* the tenant of each payment
  PerPayment,   \* bound: records one payment leaves
  Throws,       \* whether a call on the Prisma repository may throw
  MaxTime,      \* bound: milliseconds the clock counts
  Genesis       \* the previous hash of a first record

ASSUME AuditAssumption ==
  /\ TenantOf \in [Payments -> Tenants]
  /\ PerPayment \in Nat
  /\ Throws \in BOOLEAN
  /\ MaxTime \in Nat
  /\ Genesis \notin Payments \X (1 .. PerPayment)

VARIABLES
  durable,  \* TRUE: the Prisma repository; FALSE: the in-memory one; never changes
  serial,   \* tenants whose payments are never under way at the same time; never changes
  log,      \* the records, in the order they were appended
  pc,       \* where each recorder is
  held,     \* the hash it has read, or will store
  stamp,    \* the timestamp of the record it has built
  written,  \* how many records it has built
  now       \* the clock, in milliseconds

vars == <<durable, serial, log, pc, held, stamp, written, now>>

Hashes == (Payments \X (1 .. PerPayment)) \cup {Genesis}
RecordType == [payment : Payments, n : 1 .. PerPayment, prev : Hashes, time : 0 .. MaxTime]

hash(rec) == <<rec.payment, rec.n>>

\* Mutants: records are counted from zero; a record is not chained.
NewRecordFromZero(p, t) == [payment |-> p, n |-> written[p], prev |-> held[p], time |-> t]
NewRecordUnchained(p, t) == [payment |-> p, n |-> written[p] + 1, prev |-> Genesis, time |-> t]

\* The new record of p, stamped t.
NewRecord(p, t) == [payment |-> p, n |-> written[p] + 1, prev |-> held[p], time |-> t]

OfTenant(t) == {i \in DOMAIN log : TenantOf[log[i].payment] = t}

\* Mutants: the latest record of all tenants; the tenant's first record.
getLatestOfAll(t) ==
  IF log = <<>>
    THEN {Genesis}
    ELSE {hash(log[i]) : i \in {j \in DOMAIN log : \A k \in DOMAIN log : log[k].time <= log[j].time}}
getFirstRecord(t) ==
  IF OfTenant(t) = {}
    THEN {Genesis}
    ELSE {hash(log[i]) : i \in {j \in OfTenant(t) : \A k \in OfTenant(t) : j <= k}}

\* In memory the last of the tenant's records; in the database any with the latest timestamp.
getLatestRecord(t) ==
  IF OfTenant(t) = {}
    THEN {Genesis}
    ELSE {hash(log[i]) : i \in {j \in OfTenant(t) :
            \A k \in OfTenant(t) : IF durable THEN log[k].time <= log[j].time ELSE k <= j}}

Init ==
  /\ durable \in BOOLEAN
  /\ serial \in SUBSET Tenants
  /\ log = <<>>
  /\ pc = [p \in Payments |-> "idle"]
  /\ held = [p \in Payments |-> Genesis]
  /\ stamp = [p \in Payments |-> 0]
  /\ written = [p \in Payments |-> 0]
  /\ now = 0

\* A payment of a serial tenant records only while no other of the tenant is part way.
Turn(p) ==
  TenantOf[p] \in serial =>
    \A q \in Payments \ {p} :
      TenantOf[q] = TenantOf[p] =>
        \/ pc[q] = "stopped"
        \/ pc[q] = "idle" /\ written[q] \in {0, PerPayment}

GetLatest(p) ==
  /\ pc[p] = "idle"
  /\ written[p] < PerPayment
  /\ Turn(p)
  /\ \E h \in getLatestRecord(TenantOf[p]) : held' = [held EXCEPT ![p] = h]
  /\ pc' = [pc EXCEPT ![p] = "read"]
  /\ UNCHANGED <<durable, serial, log, stamp, written, now>>

\* In memory the record is built and pushed without a pause in between.
BuildAndPush(p) ==
  /\ ~durable
  /\ pc[p] = "read"
  /\ log' = Append(log, NewRecord(p, now))
  /\ written' = [written EXCEPT ![p] = @ + 1]
  /\ pc' = [pc EXCEPT ![p] = "idle"]
  /\ UNCHANGED <<durable, serial, held, stamp, now>>

\* The record takes its timestamp when it is built, before the insert is on its way.
Build(p) ==
  /\ durable
  /\ pc[p] = "read"
  /\ stamp' = [stamp EXCEPT ![p] = now]
  /\ pc' = [pc EXCEPT ![p] = "built"]
  /\ UNCHANGED <<durable, serial, log, held, written, now>>

\* Mutant: an insert that saw an error is tried again.
InsertRetried(p) ==
  /\ pc[p] = "built"
  /\ log' = Append(log, NewRecord(p, stamp[p]))
  /\ \E again \in {FALSE, Throws} :
       /\ written' = IF again THEN written ELSE [written EXCEPT ![p] = @ + 1]
       /\ pc' = [pc EXCEPT ![p] = IF again THEN "built" ELSE "idle"]
  /\ UNCHANGED <<durable, serial, held, stamp, now>>

\* The insert, answered or not: a caller that sees an error records nothing more.
Insert(p) ==
  /\ pc[p] = "built"
  /\ log' = Append(log, NewRecord(p, stamp[p]))
  /\ written' = [written EXCEPT ![p] = @ + 1]
  /\ \E s \in {"idle"} \cup (IF Throws THEN {"stopped"} ELSE {}) : pc' = [pc EXCEPT ![p] = s]
  /\ UNCHANGED <<durable, serial, held, stamp, now>>

\* The read or the insert throws and has no effect.
Throw(p) ==
  /\ durable /\ Throws
  /\ pc[p] \in {"read", "built"}
  /\ pc' = [pc EXCEPT ![p] = "stopped"]
  /\ UNCHANGED <<durable, serial, log, held, stamp, written, now>>

Tick ==
  /\ now < MaxTime
  /\ now' = now + 1
  /\ UNCHANGED <<durable, serial, log, pc, held, stamp, written>>

Finished ==
  /\ \A p \in Payments : pc[p] = "stopped" \/ written[p] = PerPayment
  /\ UNCHANGED vars

Next ==
  \/ \E p \in Payments : GetLatest(p) \/ BuildAndPush(p) \/ Build(p) \/ Insert(p) \/ Throw(p)
  \/ Tick
  \/ Finished

Spec == Init /\ [][Next]_vars

---------------------------------------------------------------------------------
(* Properties. *)

TypeOK ==
  /\ durable \in BOOLEAN
  /\ serial \subseteq Tenants
  /\ log \in Seq(RecordType)
  /\ pc \in [Payments -> {"idle", "read", "built", "stopped"}]
  /\ held \in [Payments -> Hashes]
  /\ stamp \in [Payments -> 0 .. MaxTime]
  /\ written \in [Payments -> 0 .. PerPayment]
  /\ now \in 0 .. MaxTime

\* Every record is chained to one that was in the log before it, of its own tenant
\* (getLatestRecord, then append).
ParentIsEarlier ==
  \A i \in DOMAIN log :
    \/ log[i].prev = Genesis
    \/ \E j \in 1 .. i - 1 :
         hash(log[j]) = log[i].prev /\ TenantOf[log[j].payment] = TenantOf[log[i].payment]

\* The records of one payment stand in the log in the order it made them, none twice.
OwnRecordsInOrder ==
  \A i, j \in DOMAIN log :
    i < j /\ log[i].payment = log[j].payment => log[i].n < log[j].n

\* In memory a payment's record is never chained to anything older than its own previous record
\* (in-memory getLatestRecord).
ReadsSeeOwnRecords ==
  ~durable => \A i, j \in DOMAIN log :
    i < j /\ log[i].payment = log[j].payment =>
      \E k \in i .. j - 1 : hash(log[k]) = log[j].prev

\* The records of a tenant form one chain: no two have the same parent.
Linear(t) ==
  \A i, j \in OfTenant(t) : log[i].prev = log[j].prev => i = j

\* In the in-memory log the records of a tenant whose payments do not overlap form one chain
\* (AuditRecord's previousHash); others' need not.
SerialChainIsLinear == ~durable => \A t \in serial : Linear(t)
====================================================================================
