------------------------ MODULE PaymentOrchestrator_proofs ------------------------
(***************************************************************************)
(* Proofs about PaymentOrchestrator for any requests, keys and tenants.    *)
(* Over either kind of repository, whatever throws, is refused or crashes: *)
(* what the records of the idempotency service stand for, the order of the *)
(* calls and the audit trail.  In memory, one execution and one payment of *)
(* an operation until a request for it fails.  With the unique index of    *)
(* the database executePayment implements PayOnce: a key is booked and     *)
(* paid out at most once, and every answer for it names one payment.       *)
(***************************************************************************)
EXTENDS PaymentOrchestrator, TLAPS

(* Facts about the helpers the actions are built from.                      *)

\* The record of a request with a key is one of the records (acquireLock's lookup).
LEMMA SlotType ==
  ASSUME TypeOK, NEW r \in Requests, Keyed(r)
  PROVE  /\ Slot(r) \in Slots
         /\ cmd[r].key \in Keys
         /\ idem[Slot(r)] \in Locks
BY DEF TypeOK, CallType, Keyed, Slot, Slots

\* The records the idempotency service writes are records.
LEMMA LockType ==
  /\ Unlocked \in Locks
  /\ \A s \in {"PROCESSING", "COMPLETED", "FAILED"}, p \in Payloads \cup {NoPayload} :
       Lock(s, p) \in Locks
BY DEF Unlocked, Lock, Locks

\* Going on to a known place leaves every execution in a known place.
LEMMA GotoType ==
  ASSUME TypeOK, NEW r \in Requests, NEW s \in Locations, Goto(r, s)
  PROVE  pc' \in [Requests -> Locations]
BY DEF TypeOK, Goto

\* saveResponse and markFailed write nothing but records.
LEMMA SetStatusType ==
  ASSUME TypeOK, NEW r \in Requests, NEW s \in {"COMPLETED", "FAILED"}, SetStatus(r, s)
  PROVE  idem' \in [Slots -> Locks]
<1>1. CASE Keyed(r) /\ idem[Slot(r)] # Unlocked
  <2>1. Slot(r) \in Slots /\ idem[Slot(r)].payload \in Payloads \cup {NoPayload}
    BY <1>1, SlotType DEF Locks
  <2>2. Lock(s, idem[Slot(r)].payload) \in Locks
    BY <2>1, LockType
  <2> QED
    BY <1>1, <2>1, <2>2 DEF SetStatus, TypeOK
<1> QED
  BY <1>1 DEF SetStatus, TypeOK

\* Saving a state of the table keeps the types (transitionTo and paymentRepo.save).
LEMMA SaveType ==
  ASSUME TypeOK, NEW r \in Requests, NEW to \in Table!PaymentState,
         NEW next \in Locations, Save(r, to, next)
  PROVE  TypeOK'
<1>1. row' \in [Requests -> {"absent"} \cup Table!PaymentState]
  BY DEF Save, TypeOK
<1>2. byKey' \in [Keys -> Requests \cup {NoPayment}]
  BY DEF Save, TypeOK
<1>3. pc' \in [Requests -> Locations]
  BY GotoType DEF Save, Returns, Locations, Running
<1> QED
  BY <1>1, <1>2, <1>3 DEF Save, TypeOK

\* Recording a known action keeps the types (recordAudit).
LEMMA RecordType ==
  ASSUME TypeOK, NEW r \in Requests, NEW action \in Actions,
         NEW next \in Locations, Record(r, action, next)
  PROVE  TypeOK'
<1>1. audit' \subseteq Requests \X Actions
  BY DEF Record, TypeOK
<1>2. pc' \in [Requests -> Locations]
  BY GotoType DEF Record, Returns, Locations, Running
<1> QED
  BY <1>1, <1>2 DEF Record, TypeOK

\* Queueing a job keeps the types (addJob).
LEMMA EnqueueType ==
  ASSUME TypeOK, NEW r \in Requests,
         NEW queue \in {"compliance-review-queue", "webhook-queue"},
         NEW next \in Locations, Enqueue(r, queue, next)
  PROVE  TypeOK'
<1>1. pc' \in [Requests -> Locations]
  BY GotoType DEF Enqueue
<1> QED
  BY <1>1 DEF Enqueue, TypeOK, store

\* Only a request with a key ever looks up a cached answer (executePayment).
OnlyKeyedLookUp == \A r \in Requests : pc[r] = "lookup" => Keyed(r)

\* The variables start in their types.
LEMMA TypeInit == Init => TypeOK /\ OnlyKeyedLookUp
<1> SUFFICES ASSUME Init PROVE TypeOK /\ OnlyKeyedLookUp
  OBVIOUS
<1> USE OrchestratorAssumption DEF Init
<1>1. cmd \in [Requests -> CallType]
  BY DEF CommandType, CallType
<1>2. idem \in [Slots -> Locks]
  BY LockType
<1>3. TypeOK
  BY <1>1, <1>2 DEF TypeOK, Locations
<1> QED
  BY <1>3 DEF OnlyKeyedLookUp

\* A step of the system leaves them in their types.
LEMMA TypeStep ==
  ASSUME TypeOK, OnlyKeyedLookUp, [Next]_vars
  PROVE  TypeOK'
<1> USE OrchestratorAssumption
<1>0. {"lookup", "accounts", "decide", "auditFailed", "auditValidated", "review", "ledger",
       "commit", "auditCommitted", "submit", "rail", "auditSettled", "notify", "respond",
       "catch", "done", "refused", "error", "crashed"} \subseteq Locations
  BY DEF Locations, Running, Ended
<1>1. ASSUME NEW r \in Requests, Begin(r) PROVE TypeOK'
  <2>1. pc' \in [Requests -> Locations]
    BY <1>0, <1>1, GotoType DEF Begin, acquireLock
  <2>2. idem' \in [Slots -> Locks]
    <3>1. CASE Keyed(r)
      <4>1. Slot(r) \in Slots /\ Lock("PROCESSING", cmd[r].payload) \in Locks
        BY <3>1, SlotType, LockType DEF TypeOK, CallType
      <4> QED
        BY <1>1, <3>1, <4>1 DEF Begin, acquireLock, TypeOK
    <3> QED
      BY <1>1, <3>1 DEF Begin, TypeOK
  <2> QED
    BY <1>1, <2>1, <2>2 DEF Begin, TypeOK, store
<1>2. ASSUME NEW r \in Requests, LookupCached(r) PROVE TypeOK'
  <2>1. cmd[r].key \in Keys
    BY <1>2, SlotType DEF LookupCached, OnlyKeyedLookUp, At
  <2>2. pc' \in [Requests -> Locations]
    BY <1>0, <1>2, GotoType DEF LookupCached
  <2>3. reply' \in [Requests -> Requests \cup {NoPayment}]
    BY <1>2, <2>1 DEF LookupCached, TypeOK
  <2> QED
    BY <1>2, <2>2, <2>3 DEF LookupCached, TypeOK, store
<1>3. ASSUME NEW r \in Requests, CheckAccounts(r) PROVE TypeOK'
  <2>1. pc' \in [Requests -> Locations]
    BY <1>0, <1>3, GotoType DEF CheckAccounts, Returns
  <2> QED
    BY <1>3, <2>1 DEF CheckAccounts, TypeOK, store
<1>4. ASSUME NEW r \in Requests,
             \/ SaveDenied(r) \/ SaveValidated(r) \/ SaveCommitted(r) \/ SaveSettled(r)
      PROVE  TypeOK'
  <2>1. {"failed", "validated", "committed", "settled"} \subseteq Table!PaymentState
    BY DEF Table!PaymentState
  <2> QED
    BY <1>0, <1>4, <2>1, SaveType DEF SaveDenied, SaveValidated, SaveCommitted, SaveSettled
<1>5. ASSUME NEW r \in Requests,
             \/ AuditFailed(r) \/ AuditValidated(r) \/ AuditCommitted(r) \/ AuditSettled(r)
      PROVE  TypeOK'
  BY <1>0, <1>5, RecordType
     DEF AuditFailed, AuditValidated, AuditCommitted, AuditSettled, Actions
<1>6. ASSUME NEW r \in Requests, EnqueueReview(r) \/ Notify(r) PROVE TypeOK'
  BY <1>0, <1>6, EnqueueType DEF EnqueueReview, Notify
<1>7. ASSUME NEW r \in Requests, SaveEntry(r) PROVE TypeOK'
  <2>1. pc' \in [Requests -> Locations]
    BY <1>0, <1>7, GotoType DEF SaveEntry, Returns
  <2> QED
    BY <1>7, <2>1 DEF SaveEntry, TypeOK
<1>8. ASSUME NEW r \in Requests, SubmitPayout(r) \/ RailFails(r) PROVE TypeOK'
  <2>1. pc' \in [Requests -> Locations]
    BY <1>0, <1>8, GotoType DEF SubmitPayout, RailFails
  <2> QED
    BY <1>8, <2>1 DEF SubmitPayout, RailFails, TypeOK, store
<1>9. ASSUME NEW r \in Requests, RailDecides(r) PROVE TypeOK'
  BY <1>9 DEF RailDecides, TypeOK, store
<1>10. ASSUME NEW r \in Requests, Respond(r) \/ Catch(r) PROVE TypeOK'
  <2>1. pc' \in [Requests -> Locations]
    BY <1>0, <1>10, GotoType DEF Respond, Catch
  <2>2. idem' \in [Slots -> Locks]
    BY <1>10, SetStatusType DEF Respond, Catch
  <2> QED
    BY <1>10, <2>1, <2>2 DEF Respond, Catch, TypeOK, store
<1>11. ASSUME NEW n \in Nodes, Crash(n) PROVE TypeOK'
  <2>1. pc' \in [Requests -> Locations]
    BY <1>0, <1>11 DEF Crash, TypeOK
  <2>2. idem' \in [Slots -> Locks]
    BY <1>11, LockType DEF Crash, TypeOK
  <2>3. crashes' \in 0 .. MaxCrashes
    BY <1>11 DEF Crash, TypeOK
  <2>4. jobs' \subseteq {"compliance-review-queue", "webhook-queue"} \X Requests
    BY <1>11 DEF Crash, TypeOK
  <2> QED
    BY <1>11, <2>1, <2>2, <2>3, <2>4 DEF Crash, TypeOK, store
<1>12. ASSUME NEW p \in Payloads, OpenAccounts(p) PROVE TypeOK'
  BY <1>12 DEF OpenAccounts, TypeOK
<1>13. CASE UNCHANGED vars
  BY <1>13 DEF TypeOK, vars, store
<1> QED
  BY <1>1, <1>2, <1>3, <1>4, <1>5, <1>6, <1>7, <1>8, <1>9, <1>10, <1>11, <1>12, <1>13
     DEF Next, Step, Finished

\* No step makes a request without a key look one up.
LEMMA LookUpStep ==
  ASSUME TypeOK, OnlyKeyedLookUp, [Next]_vars
  PROVE  OnlyKeyedLookUp'
<1>1. ASSUME NEW r \in Requests, Begin(r) PROVE OnlyKeyedLookUp'
  BY <1>1 DEF Begin, acquireLock, Goto, OnlyKeyedLookUp, TypeOK, Keyed
<1>2. ASSUME NEW r \in Requests, Step(r) PROVE OnlyKeyedLookUp'
  <2>1. cmd' = cmd /\ \E s \in Locations \ {"lookup"} : Goto(r, s)
    BY <1>2 DEF Step, LookupCached, CheckAccounts, SaveDenied, AuditFailed, SaveValidated,
      AuditValidated, EnqueueReview, SaveEntry, SaveCommitted, AuditCommitted, SubmitPayout,
      RailFails, SaveSettled, AuditSettled, Notify, Respond, Catch, Save, Record, Enqueue,
      Returns, Locations, Running, Ended
  <2> QED
    BY <2>1 DEF Goto, OnlyKeyedLookUp, TypeOK, Keyed
<1>3. ASSUME NEW r \in Requests, RailDecides(r) PROVE OnlyKeyedLookUp'
  BY <1>3 DEF RailDecides, OnlyKeyedLookUp, Keyed
<1>4. ASSUME NEW n \in Nodes, Crash(n) PROVE OnlyKeyedLookUp'
  BY <1>4 DEF Crash, OnlyKeyedLookUp, Keyed
<1>5. ASSUME NEW p \in Payloads, OpenAccounts(p) PROVE OnlyKeyedLookUp'
  BY <1>5 DEF OpenAccounts, OnlyKeyedLookUp, Keyed
<1>6. CASE UNCHANGED vars
  BY <1>6 DEF vars, OnlyKeyedLookUp, Keyed
<1> QED
  BY <1>1, <1>2, <1>3, <1>4, <1>5, <1>6 DEF Next, Finished

\* Every variable keeps its type, and every lookup belongs to a request with a key.
THEOREM TypeCorrect == Spec => [](TypeOK /\ OnlyKeyedLookUp)
<1>1. TypeOK /\ OnlyKeyedLookUp /\ [Next]_vars => (TypeOK /\ OnlyKeyedLookUp)'
  BY TypeStep, LookUpStep
<1> QED
  BY TypeInit, <1>1, PTL DEF Spec

---------------------------------------------------------------------------------
(* The order of the calls.  A store that outlives the processes, or processes that do not  *)
(* crash: an in-memory store forgets in a crash what the rail does not.                     *)

StoreSurvives == Durable \/ MaxCrashes = 0

\* What the store, the rail and the caller know of a payment.
Unmoved(q) ==
  /\ cmd'[q] = cmd[q] /\ row'[q] = row[q] /\ rail'[q] = rail[q] /\ reply'[q] = reply[q]
  /\ q \in entries' <=> q \in entries
  /\ \A a \in Actions : <<q, a>> \in audit' <=> <<q, a>> \in audit

\* A step of one execution touches nothing of another payment.
LEMMA OthersUnmoved ==
  ASSUME TypeOK, NEW r \in Requests, NEW q \in Requests, q # r,
         Begin(r) \/ Step(r) \/ RailDecides(r)
  PROVE  Unmoved(q) /\ pc'[q] = pc[q]
<1> USE DEF Unmoved, TypeOK, At, Goto, Returns, store
<1>1. CASE Begin(r)
  BY <1>1 DEF Begin, acquireLock
<1>2. CASE LookupCached(r) \/ CheckAccounts(r)
  BY <1>2 DEF LookupCached, CheckAccounts
<1>3. CASE SaveDenied(r) \/ SaveValidated(r) \/ SaveCommitted(r) \/ SaveSettled(r)
  BY <1>3 DEF SaveDenied, SaveValidated, SaveCommitted, SaveSettled, Save
<1>4. CASE AuditFailed(r) \/ AuditValidated(r) \/ AuditCommitted(r) \/ AuditSettled(r)
  BY <1>4 DEF AuditFailed, AuditValidated, AuditCommitted, AuditSettled, Record
<1>5. CASE EnqueueReview(r) \/ Notify(r) \/ SaveEntry(r)
  BY <1>5 DEF EnqueueReview, Notify, Enqueue, SaveEntry
<1>6. CASE SubmitPayout(r) \/ RailFails(r) \/ RailDecides(r)
  BY <1>6 DEF SubmitPayout, RailFails, RailDecides
<1>7. CASE Respond(r) \/ Catch(r)
  BY <1>7 DEF Respond, Catch
<1> QED
  BY <1>1, <1>2, <1>3, <1>4, <1>5, <1>6, <1>7 DEF Step

\* Giving up, ending or being about to answer asks for nothing more than was there before.
LEMMA StageKept ==
  ASSUME NEW q \in Requests, StageOf(q), Unmoved(q),
         pc'[q] \in {pc[q], "catch"} \cup Ended
  PROVE  StageOf(q)'
BY DEF StageOf, Unmoved, Ended, Decision, Actions

\* Nothing has been done for any payment at the start.
LEMMA StagesInit == Init => Stages
<1> SUFFICES ASSUME Init, NEW r \in Requests PROVE StageOf(r)
  BY DEF Stages
<1>1. /\ pc[r] = "new" /\ row[r] = "absent" /\ rail[r] = "none"
      /\ entries = {} /\ audit = {}
  BY DEF Init
<1> QED
  BY <1>1 DEF StageOf

\* One step of one execution keeps its own payment in order.
LEMMA OwnStage ==
  ASSUME TypeOK, NEW r \in Requests, StageOf(r), Begin(r) \/ Step(r) \/ RailDecides(r)
  PROVE  StageOf(r)'
<1> USE DEF At, Goto, Returns, StageOf, TypeOK, Decision
<1>1. CASE Begin(r)
  BY <1>1 DEF Begin, acquireLock, store
<1>2. CASE LookupCached(r)
  BY <1>2 DEF LookupCached, store
<1>3. CASE CheckAccounts(r)
  BY <1>3 DEF CheckAccounts, store
<1>4. CASE SaveDenied(r)
  BY <1>4 DEF SaveDenied, Save
<1>5. CASE SaveValidated(r)
  BY <1>5 DEF SaveValidated, Save
<1>6. CASE SaveCommitted(r)
  BY <1>6 DEF SaveCommitted, Save
<1>7. CASE SaveSettled(r)
  BY <1>7 DEF SaveSettled, Save
<1>8. CASE AuditFailed(r)
  BY <1>8 DEF AuditFailed, Record
<1>9. CASE AuditValidated(r)
  <2>1. /\ pc[r] = "auditValidated" /\ r \notin entries
        /\ row[r] = "validated" /\ row' = row /\ entries' = entries /\ rail' = rail
        /\ cmd' = cmd
        /\ <<r, "PAYMENT_COMMITTED">> \in audit' <=> <<r, "PAYMENT_COMMITTED">> \in audit
    BY <1>9 DEF AuditValidated, Record
  <2>2. /\ pc'[r] \in {"review", "ledger", "catch"}
        /\ pc'[r] = "ledger" => Decision(r) # "MANUAL_REVIEW"
    BY <1>9 DEF AuditValidated, Record
  <2>3. Decision(r) \in Decisions /\ Decision(r) # "DENY"
    BY <2>1, OrchestratorAssumption DEF CallType
  <2>4. pc'[r] = "ledger" => Decision(r) = "ALLOW"
    BY <2>2, <2>3 DEF Decisions
  <2> QED
    BY <2>1, <2>2, <2>3, <2>4
<1>10. CASE AuditCommitted(r)
  BY <1>10 DEF AuditCommitted, Record
<1>11. CASE AuditSettled(r)
  BY <1>11 DEF AuditSettled, Record
<1>12. CASE EnqueueReview(r) \/ Notify(r)
  BY <1>12 DEF EnqueueReview, Notify, Enqueue, store
<1>13. CASE SaveEntry(r)
  BY <1>13 DEF SaveEntry
<1>14. CASE SubmitPayout(r)
  BY <1>14 DEF SubmitPayout, store
<1>15. CASE RailFails(r)
  BY <1>15 DEF RailFails, store
<1>16. CASE RailDecides(r)
  BY <1>16, OrchestratorAssumption DEF RailDecides, store
<1>17. CASE Respond(r) \/ Catch(r)
  BY <1>17 DEF Respond, Catch, store
<1> QED
  BY <1>1, <1>2, <1>3, <1>4, <1>5, <1>6, <1>7, <1>8, <1>9, <1>10, <1>11, <1>12, <1>13, <1>14,
     <1>15, <1>16, <1>17 DEF Step

\* Every step of executePayment, and every crash, keeps every payment in order.
LEMMA StagesStep ==
  ASSUME StoreSurvives, TypeOK, Stages, [Next]_vars
  PROVE  Stages'
<1> SUFFICES ASSUME NEW q \in Requests PROVE StageOf(q)'
  BY DEF Stages
<1>1. StageOf(q)
  BY DEF Stages
<1>2. ASSUME NEW r \in Requests, Begin(r) \/ Step(r) \/ RailDecides(r) PROVE StageOf(q)'
  BY <1>1, <1>2, OwnStage, OthersUnmoved, StageKept
<1>3. ASSUME NEW n \in Nodes, Crash(n) PROVE StageOf(q)'
  <2>1. Durable
    BY <1>3, OrchestratorAssumption DEF Crash, StoreSurvives, TypeOK
  <2>2. Unmoved(q) /\ pc'[q] \in {pc[q], "crashed"}
    BY <1>3, <2>1 DEF Crash, Unmoved, store
  <2> QED
    BY <1>1, <2>2, StageKept DEF Ended
<1>4. CASE UNCHANGED vars \/ \E p \in Payloads : OpenAccounts(p)
  <2>1. Unmoved(q) /\ pc'[q] = pc[q]
    BY <1>4 DEF Unmoved, vars, store, OpenAccounts
  <2> QED
    BY <1>1, <2>1, StageKept
<1> QED
  BY <1>2, <1>3, <1>4 DEF Next, Finished

\* What has been done for a payment can always be read off its row and its execution's place:
\* the order of the calls of executePayment.
THEOREM StagesCorrect ==
  ASSUME StoreSurvives
  PROVE  Spec => []Stages
<1>1. TypeOK /\ Stages /\ [Next]_vars => Stages'
  BY StagesStep
<1> QED
  BY TypeCorrect, StagesInit, <1>1, PTL DEF Spec

\* The rail is told only of payments that are booked, committed and audited.
THEOREM PayoutCovered ==
  ASSUME StoreSurvives
  PROVE  Spec => []PayoutIsCovered
<1>1. Stages => PayoutIsCovered
  BY DEF Stages, StageOf, PayoutIsCovered
<1> QED
  BY StagesCorrect, <1>1, PTL

\* Payments the gate held back or denied reach neither the ledger nor the rail.
THEOREM OnlyAllowed ==
  ASSUME StoreSurvives
  PROVE  Spec => []OnlyAllowedMoves
<1>1. Stages => OnlyAllowedMoves
  BY DEF Stages, StageOf, OnlyAllowedMoves
<1> QED
  BY StagesCorrect, <1>1, PTL

---------------------------------------------------------------------------------
(* The audit log.                                                           *)

TruthOf(r) ==
  /\ <<r, "PAYMENT_FAILED_RULES">> \in audit => row[r] = "failed" /\ r \notin entries
  /\ <<r, "PAYMENT_VALIDATED">> \in audit => row[r] \in {"validated", "committed", "settled"}
  /\ <<r, "PAYMENT_COMMITTED">> \in audit => r \in entries /\ row[r] \in {"committed", "settled"}
  /\ <<r, "PAYMENT_SETTLED">> \in audit =>
       row[r] = "settled" /\ rail[r] \in {"accepted", "rejected"}

\* The records a payment has left when its execution is at a given place.
TrailOf(r) ==
  /\ pc[r] \in {"review", "ledger", "commit", "auditCommitted", "submit", "rail",
                "auditSettled", "notify"} => <<r, "PAYMENT_VALIDATED">> \in audit
  /\ pc[r] \in {"submit", "rail", "auditSettled", "notify"} => <<r, "PAYMENT_COMMITTED">> \in audit
  /\ pc[r] = "notify" => <<r, "PAYMENT_SETTLED">> \in audit
  /\ pc[r] = "respond" \/ reply[r] = r => FullTrail(r)
  /\ reply[r] # NoPayment => pc[r] = "done"
  /\ row[r] \notin {"committed", "settled"} /\ r \in entries =>
       pc[r] \in {"commit", "catch", "error", "crashed"}

Trails == \A r \in Requests : TruthOf(r) /\ TrailOf(r)

\* Giving up or ending leaves the trail of a payment as good as it was.
LEMMA TrailKept ==
  ASSUME NEW q \in Requests, TruthOf(q), TrailOf(q), Unmoved(q),
         \/ pc'[q] = pc[q]
         \/ pc'[q] \in {"catch", "crashed"} /\ pc[q] # "done"
         \/ pc'[q] = "error" /\ pc[q] = "catch"
  PROVE  TruthOf(q)' /\ TrailOf(q)'
BY DEF TruthOf, TrailOf, FullTrail, Unmoved, Actions

\* What was saved under a key stays saved under it.
LEMMA KeysInit == Init => KeysLeadToRows
BY DEF Init, KeysLeadToRows

\* No step takes away the payment a key leads to (paymentRepo.save).
LEMMA KeysStep ==
  ASSUME StoreSurvives, TypeOK, KeysLeadToRows, [Next]_vars
  PROVE  KeysLeadToRows'
<1>1. ASSUME NEW r \in Requests, NEW to \in Table!PaymentState, NEW next, Save(r, to, next)
      PROVE  KeysLeadToRows'
  <2>1. to # "absent"
    BY DEF Table!PaymentState
  <2> QED
    BY <1>1, <2>1 DEF Save, KeysLeadToRows, TypeOK, Keyed
<1>2. ASSUME UNCHANGED <<cmd, row, byKey>> PROVE KeysLeadToRows'
  BY <1>2 DEF KeysLeadToRows
<1>3. ASSUME NEW r \in Requests, Step(r) PROVE KeysLeadToRows'
  <2>1. {"failed", "validated", "committed", "settled"} \subseteq Table!PaymentState
    BY DEF Table!PaymentState
  <2>2. CASE SaveDenied(r) \/ SaveValidated(r) \/ SaveCommitted(r) \/ SaveSettled(r)
    BY <1>1, <2>1, <2>2 DEF SaveDenied, SaveValidated, SaveCommitted, SaveSettled
  <2>3. CASE UNCHANGED <<cmd, row, byKey>>
    BY <1>2, <2>3
  <2> QED
    BY <1>3, <2>2, <2>3 DEF Step, LookupCached, CheckAccounts, AuditFailed, AuditValidated,
      EnqueueReview, SaveEntry, AuditCommitted, SubmitPayout, RailFails, AuditSettled, Notify,
      Respond, Catch, Record, Enqueue, store
<1>4. ASSUME NEW r \in Requests, Begin(r) \/ RailDecides(r) PROVE KeysLeadToRows'
  BY <1>4 DEF Begin, RailDecides, KeysLeadToRows, store
<1>5. ASSUME NEW n \in Nodes, Crash(n) PROVE KeysLeadToRows'
  <2>1. Durable
    BY <1>5, OrchestratorAssumption DEF Crash, StoreSurvives, TypeOK
  <2> QED
    BY <1>5, <2>1 DEF Crash, KeysLeadToRows, store
<1>6. CASE UNCHANGED vars \/ \E p \in Payloads : OpenAccounts(p)
  BY <1>6 DEF vars, store, OpenAccounts, KeysLeadToRows
<1> QED
  BY <1>3, <1>4, <1>5, <1>6 DEF Next, Finished

\* One step of one execution keeps the audit trail of its own payment true and complete.
LEMMA OwnTrail ==
  ASSUME TypeOK, NEW r \in Requests, StageOf(r), TruthOf(r), TrailOf(r),
         OnlyKeyedLookUp, KeysLeadToRows, Begin(r) \/ Step(r) \/ RailDecides(r)
  PROVE  TruthOf(r)' /\ TrailOf(r)'
<1> USE OrchestratorAssumption
    DEF At, Goto, Returns, StageOf, TruthOf, TrailOf, FullTrail, TypeOK
<1>1. CASE Begin(r)
  BY <1>1 DEF Begin, acquireLock, store
<1>2. CASE LookupCached(r)
  <2>1. pc[r] = "lookup" /\ cmd[r].key \in Keys
    BY <1>2, SlotType DEF LookupCached, OnlyKeyedLookUp
  <2>2. byKey[cmd[r].key] # r
    BY <2>1 DEF KeysLeadToRows
  <2> QED
    BY <1>2, <2>1, <2>2 DEF LookupCached, store
<1>3. CASE CheckAccounts(r)
  BY <1>3 DEF CheckAccounts, store
<1>4. CASE SaveDenied(r)
  BY <1>4 DEF SaveDenied, Save
<1>5. CASE SaveValidated(r)
  BY <1>5 DEF SaveValidated, Save
<1>6. CASE SaveCommitted(r)
  BY <1>6 DEF SaveCommitted, Save
<1>7. CASE SaveSettled(r)
  BY <1>7 DEF SaveSettled, Save
<1>8. CASE AuditFailed(r)
  BY <1>8 DEF AuditFailed, Record
<1>9. CASE AuditValidated(r)
  BY <1>9 DEF AuditValidated, Record
<1>10. CASE AuditCommitted(r)
  BY <1>10 DEF AuditCommitted, Record
<1>11. CASE AuditSettled(r)
  BY <1>11 DEF AuditSettled, Record
<1>12. CASE EnqueueReview(r) \/ Notify(r)
  BY <1>12 DEF EnqueueReview, Notify, Enqueue, store
<1>13. CASE SaveEntry(r)
  BY <1>13 DEF SaveEntry
<1>14. CASE SubmitPayout(r) \/ RailFails(r) \/ RailDecides(r)
  BY <1>14 DEF SubmitPayout, RailFails, RailDecides, store
<1>15. CASE Respond(r)
  BY <1>15 DEF Respond, store
<1>16. CASE Catch(r)
  BY <1>16 DEF Catch, store
<1> QED
  BY <1>1, <1>2, <1>3, <1>4, <1>5, <1>6, <1>7, <1>8, <1>9, <1>10, <1>11, <1>12, <1>13, <1>14,
     <1>15, <1>16 DEF Step

\* There is nothing to tell at the start.
LEMMA TrailsInit == Init => Trails
<1> SUFFICES ASSUME Init, NEW r \in Requests PROVE TruthOf(r) /\ TrailOf(r)
  BY DEF Trails
<1>1. /\ pc[r] = "new" /\ row[r] = "absent" /\ entries = {} /\ audit = {}
      /\ reply[r] = NoPayment /\ NoPayment # r
  BY OrchestratorAssumption DEF Init
<1> QED
  BY <1>1 DEF TruthOf, TrailOf

\* Every step keeps every payment's trail true and complete.
LEMMA TrailsStep ==
  ASSUME StoreSurvives, TypeOK, OnlyKeyedLookUp, Stages, KeysLeadToRows, Trails, [Next]_vars
  PROVE  Trails'
<1> SUFFICES ASSUME NEW q \in Requests PROVE TruthOf(q)' /\ TrailOf(q)'
  BY DEF Trails
<1>1. StageOf(q) /\ TruthOf(q) /\ TrailOf(q)
  BY DEF Stages, Trails
<1>2. ASSUME NEW r \in Requests, Begin(r) \/ Step(r) \/ RailDecides(r)
      PROVE  TruthOf(q)' /\ TrailOf(q)'
  BY <1>1, <1>2, OwnTrail, OthersUnmoved, TrailKept
<1>3. ASSUME NEW n \in Nodes, Crash(n) PROVE TruthOf(q)' /\ TrailOf(q)'
  <2>1. Durable
    BY <1>3, OrchestratorAssumption DEF Crash, StoreSurvives, TypeOK
  <2>2. Unmoved(q)
    BY <1>3, <2>1 DEF Crash, Unmoved, store
  <2>3. pc'[q] = pc[q] \/ (pc'[q] = "crashed" /\ pc[q] # "done")
    BY <1>3 DEF Crash, Running
  <2> QED
    BY <1>1, <2>2, <2>3, TrailKept
<1>4. CASE UNCHANGED vars \/ \E p \in Payloads : OpenAccounts(p)
  <2>1. Unmoved(q) /\ pc'[q] = pc[q]
    BY <1>4 DEF Unmoved, vars, store, OpenAccounts
  <2> QED
    BY <1>1, <2>1, TrailKept
<1> QED
  BY <1>2, <1>3, <1>4 DEF Next, Finished

\* Everything above, as one inductive invariant.
Order == TypeOK /\ OnlyKeyedLookUp /\ Stages /\ KeysLeadToRows /\ Trails

\* The inductive invariant the theorems about rows, entries and audit records rest on.
THEOREM OrderCorrect ==
  ASSUME StoreSurvives
  PROVE  Spec => []Order
<1>1. Init => Order
  BY TypeInit, StagesInit, KeysInit, TrailsInit DEF Order
<1>2. Order /\ [Next]_vars => Order'
  BY TypeStep, LookUpStep, StagesStep, KeysStep, TrailsStep DEF Order
<1> QED
  BY <1>1, <1>2, PTL DEF Spec

\* The audit log never runs ahead of what is stored.
THEOREM AuditTrue ==
  ASSUME StoreSurvives
  PROVE  Spec => []AuditTellsTheTruth
<1>1. Order => AuditTellsTheTruth
  BY DEF Order, Trails, TruthOf, AuditTellsTheTruth
<1> QED
  BY OrderCorrect, <1>1, PTL

\* An entry without a payment that points at it is under way or was reported as an error.
THEOREM UnlinkedReported ==
  ASSUME StoreSurvives
  PROVE  Spec => []UnlinkedEntryIsReported
<1>1. Order => UnlinkedEntryIsReported
  BY DEF Order, Trails, TrailOf, TypeOK, UnlinkedEntryIsReported
<1> QED
  BY OrderCorrect, <1>1, PTL

---------------------------------------------------------------------------------
(* The stored states follow the domain's table.                             *)

\* A save changes a payment's stored state as the table allows (assertTransition).
LEMMA SaveFollowsTable ==
  ASSUME TypeOK, Stages, NEW r \in Requests, NEW to \in Table!PaymentState, NEW next,
         Save(r, to, next), to = "settled" => row[r] # "absent"
  PROVE  [Table!Next]_row
<1>1. CASE row' = row
  BY <1>1
<1>2. CASE row' # row
  <2>1. row' = [row EXCEPT ![r] = to] /\ Legal(r, to)
    BY <1>2 DEF Save
  <2>2. CASE row[r] = "absent"
    <3>1. Table!CanTransition("quoted", to)
      BY <2>1, <2>2 DEF Legal, Held
    <3> QED
      BY <2>1, <2>2, <3>1 DEF Table!Next, Table!Appear
  <2>3. CASE row[r] # "absent"
    <3>1. row[r] \in Table!PaymentState /\ Held(r) = row[r]
      BY <2>3 DEF TypeOK, Held
    <3>2. Table!MayBecome(row[r], to)
      BY <2>1, <3>1 DEF Legal, Table!MayBecome, Table!PaymentState
    <3> QED
      BY <2>1, <3>1, <3>2 DEF Table!Next, Table!Advance
  <2> QED
    BY <2>2, <2>3
<1> QED
  BY <1>1, <1>2

\* Whatever is saved, the stored state of a payment moves along the table.
THEOREM LifecycleFollowed ==
  ASSUME StoreSurvives
  PROVE  Spec => StaysInLifecycle
<1>1. Init => Table!Init
  BY DEF Init, Table!Init
<1>2. Order /\ [Next]_vars => [Table!Next]_row
  <2> SUFFICES ASSUME Order, [Next]_vars PROVE [Table!Next]_row
    OBVIOUS
  <2>1. TypeOK /\ Stages
    BY DEF Order
  <2>2. ASSUME NEW r \in Requests, Step(r) PROVE [Table!Next]_row
    <3>1. {"failed", "validated", "committed", "settled"} \subseteq Table!PaymentState
      BY DEF Table!PaymentState
    <3>2. CASE SaveDenied(r) \/ SaveValidated(r) \/ SaveCommitted(r)
      BY <2>1, <3>1, <3>2, SaveFollowsTable DEF SaveDenied, SaveValidated, SaveCommitted
    <3>3. CASE SaveSettled(r)
      <4>1. row[r] # "absent"
        BY <2>1, <3>3 DEF SaveSettled, At, Stages, StageOf
      <4> QED
        BY <2>1, <3>1, <3>3, <4>1, SaveFollowsTable DEF SaveSettled
    <3>4. CASE UNCHANGED row
      BY <3>4
    <3> QED
      BY <2>2, <3>2, <3>3, <3>4 DEF Step, LookupCached, CheckAccounts, AuditFailed,
        AuditValidated, EnqueueReview, SaveEntry, AuditCommitted, SubmitPayout, RailFails,
        AuditSettled, Notify, Respond, Catch, Record, Enqueue, store
  <2>3. ASSUME NEW n \in Nodes, Crash(n) PROVE UNCHANGED row
    BY <2>1, <2>3, OrchestratorAssumption DEF Crash, StoreSurvives, TypeOK, store
  <2> QED
    BY <2>2, <2>3 DEF Next, Begin, RailDecides, OpenAccounts, Finished, vars, store
<1> QED
  BY <1>1, <1>2, OrderCorrect, PTL DEF Spec, StaysInLifecycle, Table!Spec

---------------------------------------------------------------------------------
(* The lock.                                                                *)

\* Where an execution of executePayment is, and what it leaves in its record.
LEMMA StepMoves ==
  ASSUME TypeOK, NEW r \in Requests, Step(r)
  PROVE  /\ cmd' = cmd
         /\ \A q \in Requests \ {r} : pc'[q] = pc[q]
         /\ \/ pc[r] \in InFlight /\ pc'[r] \in InFlight /\ idem' = idem
            \/ /\ pc[r] = "lookup" /\ pc'[r] \in {"done", "refused", "accounts"} /\ idem' = idem
               /\ pc'[r] = "accounts" => byKey[cmd[r].key] = NoPayment
            \/ pc[r] = "respond" /\ pc'[r] = "done" /\ SetStatus(r, "COMPLETED")
            \/ pc[r] = "catch" /\ pc'[r] = "error" /\ SetStatus(r, "FAILED")
<1> USE DEF At, Goto, Returns, TypeOK, InFlight, Running
<1>1. CASE LookupCached(r) \/ CheckAccounts(r)
  BY <1>1 DEF LookupCached, CheckAccounts
<1>2. CASE SaveDenied(r) \/ SaveValidated(r) \/ SaveCommitted(r) \/ SaveSettled(r)
  BY <1>2 DEF SaveDenied, SaveValidated, SaveCommitted, SaveSettled, Save
<1>3. CASE AuditFailed(r) \/ AuditValidated(r) \/ AuditCommitted(r) \/ AuditSettled(r)
  BY <1>3 DEF AuditFailed, AuditValidated, AuditCommitted, AuditSettled, Record
<1>4. CASE EnqueueReview(r) \/ Notify(r) \/ SaveEntry(r)
  BY <1>4 DEF EnqueueReview, Notify, Enqueue, SaveEntry
<1>5. CASE SubmitPayout(r) \/ RailFails(r)
  BY <1>5 DEF SubmitPayout, RailFails
<1>6. CASE Respond(r) \/ Catch(r)
  BY <1>6 DEF Respond, Catch
<1> QED BY <1>1, <1>2, <1>3, <1>4, <1>5, <1>6 DEF Step

\* The record of a request that answers or fails says so, if it has one.
LEMMA StatusSet ==
  ASSUME TypeOK, NEW r \in Requests, NEW t \in {"COMPLETED", "FAILED"}, SetStatus(r, t)
  PROVE  /\ \A s \in Slots : idem'[s] = idem[s] \/ (Keyed(r) /\ s = Slot(r))
         /\ Keyed(r) /\ idem[Slot(r)].status # "absent" => idem'[Slot(r)].status = t
         /\ Keyed(r) => idem'[Slot(r)] = idem[Slot(r)] \/ idem'[Slot(r)].status = t
<1>1. Keyed(r) => Slot(r) \in Slots
  BY SlotType
<1>2. \A p : Lock(t, p).status = t
  BY DEF Lock
<1>3. Unlocked.status = "absent"
  BY DEF Unlocked, Lock
<1> QED BY <1>1, <1>2, <1>3 DEF SetStatus, TypeOK

\* What acquireLock does with the record it finds.
LEMMA BeginMoves ==
  ASSUME TypeOK, NEW r \in Requests, Begin(r)
  PROVE  /\ UNCHANGED <<cmd, row, byKey>> /\ pc[r] = "new"
         /\ \A q \in Requests \ {r} : pc'[q] = pc[q]
         /\ \/ ~Keyed(r) /\ pc'[r] = "accounts" /\ idem' = idem
            \/ /\ Keyed(r) /\ pc'[r] = "accounts" /\ idem[Slot(r)].status = "absent"
               /\ \A s \in Slots \ {Slot(r)} : idem'[s] = idem[s]
               /\ idem'[Slot(r)].status = "PROCESSING"
            \/ Keyed(r) /\ pc'[r] = "refused" /\ idem' = idem
            \/ Keyed(r) /\ pc'[r] = "lookup" /\ idem[Slot(r)].status = "COMPLETED" /\ idem' = idem
            \/ Keyed(r) /\ pc'[r] = "accounts" /\ idem[Slot(r)].status = "FAILED" /\ idem' = idem
<1> USE DEF Begin, At, Goto, TypeOK, store
<1>1. CASE ~Keyed(r)
  BY <1>1
<1>2. CASE Keyed(r)
  <2>1. Slot(r) \in Slots
    BY <1>2, SlotType
  <2>2. Unlocked.status = "absent" /\ \A p : Lock("PROCESSING", p).status = "PROCESSING"
    BY DEF Unlocked, Lock
  <2> QED BY <1>2, <2>1, <2>2 DEF acquireLock
<1> QED BY <1>1, <1>2

\* r is at work under the record s.
Holds(r, s) == Keyed(r) /\ Slot(r) = s /\ pc[r] \in InFlight

\* Who is past acquireLock has a record, a record in PROCESSING has one holder, and a request
\* is sent to look an answer up by a record that has been completed.
Flights ==
  /\ \A r \in Requests : Holds(r, Slot(r)) => idem[Slot(r)].status # "absent"
  /\ \A r, q \in Requests :
       Holds(r, Slot(r)) /\ Holds(q, Slot(r)) /\ idem[Slot(r)].status = "PROCESSING" => r = q
  /\ \A s \in Slots : idem[s].status = "PROCESSING" => \E r \in Requests : Holds(r, s)
  /\ \A r \in Requests :
       Keyed(r) /\ pc[r] = "lookup" => idem[Slot(r)].status \in {"COMPLETED", "FAILED"}

\* Nobody is past acquireLock at the start.
LEMMA FlightsInit == Init => Flights
<1> SUFFICES ASSUME Init PROVE Flights
  OBVIOUS
<1>1. \A s \in Slots : idem[s].status = "absent"
  BY DEF Init, Unlocked, Lock
<1>2. \A r \in Requests : pc[r] = "new"
  BY DEF Init
<1> QED BY <1>1, <1>2 DEF Flights, Holds, InFlight, Running

\* acquireLock lets in whoever finds no record, or a failed one.
LEMMA FlightsBegin ==
  ASSUME TypeOK, Flights, NEW r \in Requests, Begin(r)
  PROVE  Flights'
<1>1. /\ \A q \in Requests : /\ Keyed(q)' <=> Keyed(q)
                             /\ Slot(q)' = Slot(q)
                             /\ Keyed(q) => Slot(q) \in Slots
      /\ \A q \in Requests \ {r}, s \in Slots : Holds(q, s)' <=> Holds(q, s)
      /\ \A s \in Slots : ~Holds(r, s)
  BY BeginMoves, SlotType DEF Keyed, Slot, Holds, InFlight, Running
<1>2. CASE ~Keyed(r) /\ pc'[r] = "accounts" /\ idem' = idem
  BY <1>1, <1>2, BeginMoves DEF Flights, Holds
<1>3. CASE Keyed(r) /\ pc'[r] = "refused" /\ idem' = idem
  BY <1>1, <1>3, BeginMoves DEF Flights, Holds, InFlight, Running
<1>4. CASE Keyed(r) /\ pc'[r] = "lookup" /\ idem[Slot(r)].status = "COMPLETED" /\ idem' = idem
  BY <1>1, <1>4, BeginMoves DEF Flights, Holds, InFlight, Running
<1>5. CASE Keyed(r) /\ pc'[r] = "accounts" /\ idem[Slot(r)].status = "FAILED" /\ idem' = idem
  BY <1>1, <1>5, BeginMoves DEF Flights, Holds, InFlight, Running
<1>6. CASE /\ Keyed(r) /\ pc'[r] = "accounts" /\ idem[Slot(r)].status = "absent"
           /\ \A s \in Slots \ {Slot(r)} : idem'[s] = idem[s]
           /\ idem'[Slot(r)].status = "PROCESSING"
  <2>1. \A q \in Requests : Holds(q, Slot(r))' <=> q = r
    BY <1>1, <1>6 DEF Flights, Holds, InFlight, Running
  <2>2. \A q \in Requests : Keyed(q) /\ pc'[q] = "lookup" => Slot(q) # Slot(r) /\ pc[q] = "lookup"
    BY <1>1, <1>6, BeginMoves DEF Flights
  <2>3. \A q \in Requests : Holds(q, Slot(q))' => q = r \/ (Slot(q) # Slot(r) /\ Holds(q, Slot(q)))
    BY <1>1, <2>1 DEF Holds
  <2>4. \A s \in Slots : idem'[s].status = "PROCESSING" => \E q \in Requests : Holds(q, s)'
    <3> SUFFICES ASSUME NEW s \in Slots, idem'[s].status = "PROCESSING", s # Slot(r)
                 PROVE  \E q \in Requests : Holds(q, s)'
      BY <1>1, <2>1
    <3>1. PICK q \in Requests : Holds(q, s)
      BY <1>6 DEF Flights
    <3> QED BY <1>1, <3>1
  <2>5. \A q \in Requests : Holds(q, Slot(q))' => idem'[Slot(q)].status # "absent"
    BY <1>1, <1>6, <2>3 DEF Flights, Holds
  <2>6. ASSUME NEW p \in Requests, NEW q \in Requests,
               Holds(p, Slot(p))', Holds(q, Slot(p))', idem'[Slot(p)].status = "PROCESSING"
        PROVE  p = q
    <3>1. CASE Slot(p) = Slot(r)
      <4>1. Holds(p, Slot(r))' /\ Holds(q, Slot(r))'
        BY <1>1, <2>6, <3>1
      <4> QED BY <2>1, <4>1
    <3>2. CASE Slot(p) # Slot(r)
      BY <1>1, <1>6, <2>6, <3>2 DEF Flights, Holds
    <3> QED BY <3>1, <3>2
  <2>7. \A q \in Requests :
          Keyed(q) /\ pc'[q] = "lookup" => idem'[Slot(q)].status \in {"COMPLETED", "FAILED"}
    BY <1>1, <1>6, <2>2 DEF Flights
  <2> QED BY <1>1, <2>4, <2>5, <2>6, <2>7 DEF Flights
<1> QED BY <1>2, <1>3, <1>4, <1>5, <1>6, BeginMoves

\* Whoever answers or fails leaves a record that is no longer in PROCESSING.
LEMMA FlightsStep ==
  ASSUME TypeOK, OnlyKeyedLookUp, Flights, NEW r \in Requests, Step(r)
  PROVE  Flights'
<1>1. /\ \A q \in Requests : /\ Keyed(q)' <=> Keyed(q)
                             /\ Slot(q)' = Slot(q)
                             /\ Keyed(q) => Slot(q) \in Slots
      /\ \A q \in Requests \ {r} : pc'[q] = pc[q] /\ \A s \in Slots : Holds(q, s)' <=> Holds(q, s)
  BY StepMoves, SlotType DEF Keyed, Slot, Holds
<1>2. CASE pc[r] \in InFlight /\ pc'[r] \in InFlight /\ idem' = idem
  <2>1. \A q \in Requests, s \in Slots : Holds(q, s)' <=> Holds(q, s)
    BY <1>1, <1>2 DEF Holds
  <2>2. \A q \in Requests : pc'[q] = "lookup" => pc[q] = "lookup"
    BY <1>1, <1>2 DEF InFlight, Running
  <2> QED BY <1>1, <1>2, <2>1, <2>2 DEF Flights, Holds
<1>3. CASE pc[r] = "lookup" /\ pc'[r] \in {"done", "refused", "accounts"} /\ idem' = idem
  <2>1. Keyed(r) /\ idem[Slot(r)].status \in {"COMPLETED", "FAILED"}
    BY <1>3 DEF OnlyKeyedLookUp, Flights
  <2>2. \A q \in Requests : pc'[q] = "lookup" => pc[q] = "lookup"
    BY <1>1, <1>3
  <2>3. \A q \in Requests, s \in Slots : Holds(q, s)' => Holds(q, s) \/ s = Slot(r)
    BY <1>1 DEF Holds
  <2>4. \A q \in Requests, s \in Slots : Holds(q, s) => Holds(q, s)'
    BY <1>1, <1>3 DEF Holds, InFlight
  <2> QED BY <1>1, <1>3, <2>1, <2>2, <2>3, <2>4 DEF Flights, Holds
<1>4. ASSUME NEW t \in {"COMPLETED", "FAILED"}, SetStatus(r, t),
             pc[r] \in {"respond", "catch"}, pc'[r] \in {"done", "error"}
      PROVE  Flights'
  <2>1. \A q \in Requests, s \in Slots : Holds(q, s)' => q # r /\ Holds(q, s)
    BY <1>1, <1>4 DEF Holds, InFlight, Running
  <2>2. Keyed(r) => Slot(r) \in Slots /\ idem[Slot(r)].status # "absent"
    BY <1>1, <1>4 DEF Flights, Holds, InFlight, Running
  <2>3. /\ \A s \in Slots : idem'[s] = idem[s] \/ (Keyed(r) /\ s = Slot(r))
        /\ Keyed(r) => idem'[Slot(r)].status = t
    BY <1>4, <2>2, StatusSet
  <2>4. \A q \in Requests : Holds(q, Slot(q))' => idem'[Slot(q)].status # "absent"
    BY <1>1, <2>1, <2>3 DEF Flights, Holds
  <2>5. ASSUME NEW p \in Requests, NEW q \in Requests,
               Holds(p, Slot(p))', Holds(q, Slot(p))', idem'[Slot(p)].status = "PROCESSING"
        PROVE  p = q
    <3>1. Keyed(p) /\ Slot(p) \in Slots
      BY <1>1, <2>5 DEF Holds
    <3>2. idem'[Slot(p)] = idem[Slot(p)]
      BY <2>3, <2>5, <3>1
    <3>3. Holds(p, Slot(p)) /\ Holds(q, Slot(p))
      BY <1>1, <2>1, <2>5, <3>1
    <3> QED BY <2>5, <3>2, <3>3 DEF Flights
  <2>6. ASSUME NEW s \in Slots, idem'[s].status = "PROCESSING"
        PROVE  \E q \in Requests : Holds(q, s)'
    <3>1. idem'[s] = idem[s] /\ (Keyed(r) => s # Slot(r))
      BY <2>3, <2>6
    <3>2. PICK q \in Requests : Holds(q, s)
      BY <2>6, <3>1 DEF Flights
    <3>3. q # r
      BY <3>1, <3>2 DEF Holds
    <3> QED BY <1>1, <3>2, <3>3
  <2>7. \A q \in Requests :
          Keyed(q) /\ pc'[q] = "lookup" => idem'[Slot(q)].status \in {"COMPLETED", "FAILED"}
    BY <1>1, <1>4, <2>3 DEF Flights
  <2> QED BY <1>1, <2>4, <2>5, <2>6, <2>7 DEF Flights
<1> QED BY <1>2, <1>3, <1>4, StepMoves

\* A process that dies takes its executions and its records with it.
LEMMA FlightsCrash ==
  ASSUME TypeOK, Flights, NEW n \in Nodes, Crash(n)
  PROVE  Flights'
<1>1. /\ \A q \in Requests : /\ Keyed(q)' <=> Keyed(q)
                             /\ Slot(q)' = Slot(q)
                             /\ Keyed(q) => Slot(q) \in Slots /\ Slot(q)[1] = cmd[q].node
      /\ \A s \in Slots : idem'[s] = IF s[1] = n THEN Unlocked ELSE idem[s]
      /\ \A q \in Requests :
           pc'[q] = IF cmd[q].node = n /\ pc[q] \in Running THEN "crashed" ELSE pc[q]
  BY SlotType DEF Crash, Keyed, Slot
<1>2. Unlocked.status = "absent"
  BY DEF Unlocked, Lock
<1>3. \A q \in Requests, s \in Slots : Holds(q, s)' <=> Holds(q, s) /\ s[1] # n
  BY <1>1 DEF Holds, InFlight, Running
<1>4. \A q \in Requests : Keyed(q) /\ pc'[q] = "lookup" => pc[q] = "lookup" /\ Slot(q)[1] # n
  BY <1>1 DEF Running
<1> QED BY <1>1, <1>2, <1>3, <1>4 DEF Flights, Holds

\* Every step keeps each record with the executions it stands for.
LEMMA FlightsNext ==
  ASSUME TypeOK, OnlyKeyedLookUp, Flights, [Next]_vars
  PROVE  Flights'
<1>1. ASSUME UNCHANGED <<cmd, pc, idem>> PROVE Flights'
  BY <1>1 DEF Flights, Holds, Keyed, Slot
<1> QED
  BY <1>1, FlightsBegin, FlightsStep, FlightsCrash
     DEF Next, RailDecides, OpenAccounts, Finished, vars, store

\* A record in PROCESSING is held by exactly one execution, and without a record nobody is at
\* work, in every wiring and whatever throws, is refused or crashes (acquireLock, saveResponse,
\* markFailed).
THEOREM FlightsAreSingle == Spec => []SingleFlight
<1>1. Flights => SingleFlight
  <2> SUFFICES ASSUME Flights, NEW s \in Slots
               PROVE  LET holders == {r \in Requests : Keyed(r) /\ Slot(r) = s
                                                         /\ pc[r] \in InFlight}
                      IN  /\ idem[s].status = "PROCESSING" => \E r \in holders : holders = {r}
                          /\ idem[s].status = "absent" => holders = {}
    BY DEF SingleFlight
  <2> DEFINE holders == {r \in Requests : Keyed(r) /\ Slot(r) = s /\ pc[r] \in InFlight}
  <2>1. \A r \in Requests : r \in holders <=> Holds(r, s)
    BY DEF Holds
  <2>2. ASSUME idem[s].status = "PROCESSING" PROVE \E r \in holders : holders = {r}
    <3>1. PICK r \in Requests : Holds(r, s)
      BY <2>2 DEF Flights
    <3>2. Slot(r) = s
      BY <3>1 DEF Holds
    <3>3. \A q \in Requests : Holds(q, s) => q = r
      BY <2>2, <3>1, <3>2 DEF Flights
    <3> QED BY <2>1, <3>1, <3>3
  <2>3. ASSUME idem[s].status = "absent" PROVE holders = {}
    BY <2>1, <2>3 DEF Flights, Holds
  <2> QED BY <2>2, <2>3
<1>2. TypeOK /\ OnlyKeyedLookUp /\ Flights /\ [Next]_vars => Flights'
  BY FlightsNext
<1> QED BY <1>1, <1>2, FlightsInit, TypeCorrect, PTL DEF Spec

---------------------------------------------------------------------------------
(* What a completed record leads to.                                        *)

\* Only a response completes a record.
LEMMA OnlyRespondCompletes ==
  ASSUME TypeOK, NEW s \in Slots, [Next]_vars,
         idem'[s].status = "COMPLETED", idem[s].status # "COMPLETED"
  PROVE  \E r \in Requests : Respond(r) /\ Keyed(r) /\ s = Slot(r)
<1> USE DEF Lock, Unlocked
<1>1. ASSUME NEW r \in Requests, Begin(r) PROVE FALSE
  BY <1>1 DEF Begin, acquireLock, TypeOK
<1>2. ASSUME NEW r \in Requests, Step(r), UNCHANGED idem PROVE FALSE
  BY <1>2
<1>3. ASSUME NEW r \in Requests, Catch(r) PROVE FALSE
  BY <1>3 DEF Catch, SetStatus, TypeOK
<1>4. ASSUME NEW r \in Requests, Respond(r) PROVE Keyed(r) /\ s = Slot(r)
  BY <1>4 DEF Respond, SetStatus, TypeOK
<1>5. ASSUME NEW r \in Requests, Step(r)
      PROVE  \E q \in Requests : Respond(q) /\ Keyed(q) /\ s = Slot(q)
  BY <1>2, <1>3, <1>4, <1>5 DEF Step, LookupCached, CheckAccounts, SaveDenied,
    AuditFailed, SaveValidated, AuditValidated, EnqueueReview, SaveEntry, SaveCommitted,
    AuditCommitted, SubmitPayout, RailFails, SaveSettled, AuditSettled, Notify,
    Save, Record, Enqueue
<1>6. ASSUME NEW n \in Nodes, Crash(n) PROVE FALSE
  BY <1>6 DEF Crash
<1> QED
  BY <1>1, <1>5, <1>6 DEF Next, Finished, RailDecides, OpenAccounts, vars

\* An execution that has come past its first save has a row.
HasRow(r) == pc[r] \in InFlight \ {"accounts", "decide", "catch"} => row[r] # "absent"

\* A stored payment that has a key can be found by it.
IsFound(r) == Keyed(r) /\ row[r] # "absent" => byKey[cmd[r].key] # NoPayment

Answerable == (\A r \in Requests : HasRow(r) /\ IsFound(r)) /\ ReplaysAreAnswered

\* A save stores the payment, under its key where no other has it, or goes to the catch block.
LEMMA SaveKeepsFound ==
  ASSUME TypeOK, NEW r \in Requests, NEW to \in Table!PaymentState, NEW next,
         Save(r, to, next), HasRow(r), IsFound(r)
  PROVE  /\ HasRow(r)' /\ IsFound(r)'
         /\ \A k \in Keys : byKey[k] # NoPayment => byKey'[k] # NoPayment
<1>1. to # "absent" /\ r # NoPayment
  BY OrchestratorAssumption DEF Table!PaymentState
<1>2. Keyed(r) => cmd[r].key \in Keys
  BY SlotType
<1>3. CASE UNCHANGED <<row, byKey>> /\ pc' = [pc EXCEPT ![r] = "catch"] /\ cmd' = cmd
  BY <1>3 DEF HasRow, IsFound, Keyed, TypeOK
<1>4. CASE /\ row' = [row EXCEPT ![r] = to] /\ cmd' = cmd
           /\ byKey' = IF Keyed(r) /\ byKey[cmd[r].key] = NoPayment
                         THEN [byKey EXCEPT ![cmd[r].key] = r]
                         ELSE byKey
  BY <1>1, <1>2, <1>4 DEF HasRow, IsFound, Keyed, TypeOK
<1> QED BY <1>3, <1>4 DEF Save, Returns, Goto

\* No step loses the row or the key of the payment it works on.
LEMMA StepKeepsFound ==
  ASSUME TypeOK, NEW r \in Requests, Step(r), HasRow(r), IsFound(r)
  PROVE  /\ HasRow(r)' /\ IsFound(r)'
         /\ \A k \in Keys : byKey[k] # NoPayment => byKey'[k] # NoPayment
<1>1. CASE SaveDenied(r) \/ SaveValidated(r) \/ SaveCommitted(r) \/ SaveSettled(r)
  <2>1. {"failed", "validated", "committed", "settled"} \subseteq Table!PaymentState
    BY DEF Table!PaymentState
  <2> QED
    BY <1>1, <2>1, SaveKeepsFound DEF SaveDenied, SaveValidated, SaveCommitted, SaveSettled
<1>2. ASSUME UNCHANGED <<cmd, row, byKey>>,
             \/ pc'[r] \notin InFlight \ {"accounts", "decide", "catch"}
             \/ pc[r] \in InFlight \ {"accounts", "decide", "catch"}
      PROVE  /\ HasRow(r)' /\ IsFound(r)'
             /\ \A k \in Keys : byKey[k] # NoPayment => byKey'[k] # NoPayment
  BY <1>2 DEF HasRow, IsFound, Keyed
<1> USE DEF At, Goto, Returns, TypeOK, InFlight, Running, store
<1>3. CASE LookupCached(r) \/ CheckAccounts(r)
  BY <1>2, <1>3 DEF LookupCached, CheckAccounts
<1>4. CASE AuditFailed(r) \/ AuditValidated(r) \/ AuditCommitted(r) \/ AuditSettled(r)
  BY <1>2, <1>4 DEF AuditFailed, AuditValidated, AuditCommitted, AuditSettled, Record
<1>5. CASE EnqueueReview(r) \/ Notify(r) \/ SaveEntry(r)
  BY <1>2, <1>5 DEF EnqueueReview, Notify, Enqueue, SaveEntry
<1>6. CASE SubmitPayout(r) \/ RailFails(r) \/ Respond(r) \/ Catch(r)
  BY <1>2, <1>6 DEF SubmitPayout, RailFails, Respond, Catch
<1> QED BY <1>1, <1>3, <1>4, <1>5, <1>6 DEF Step

\* There is no completed record at the start.
LEMMA AnswerableInit == Init => Answerable
BY DEF Init, Answerable, HasRow, IsFound, ReplaysAreAnswered, Unlocked, Lock, InFlight, Running

\* A response completes the record of a payment that has been stored.
LEMMA AnswerableStep ==
  ASSUME TypeOK, OnlyKeyedLookUp, Answerable, NEW r \in Requests, Step(r)
  PROVE  Answerable'
<1>1. /\ HasRow(r)' /\ IsFound(r)'
      /\ \A k \in Keys : byKey[k] # NoPayment => byKey'[k] # NoPayment
  BY StepKeepsFound DEF Answerable
<1>2. cmd' = cmd /\ \A q \in Requests \ {r} : pc'[q] = pc[q] /\ row'[q] = row[q]
  BY StepMoves, OthersUnmoved DEF Unmoved
<1>3. \A q \in Requests : Keyed(q) => cmd[q].key \in Keys
  BY SlotType
<1>4. \A q \in Requests : HasRow(q)' /\ IsFound(q)'
  BY <1>1, <1>2, <1>3 DEF Answerable, HasRow, IsFound, Keyed
<1>5. \A s \in Slots : s[3] \in Keys
  BY DEF Slots
<1>6. ASSUME NEW s \in Slots, idem'[s].status = "COMPLETED" PROVE byKey'[s[3]] # NoPayment
  <2>1. CASE idem[s].status = "COMPLETED"
    BY <1>1, <1>5, <2>1 DEF Answerable, ReplaysAreAnswered
  <2>2. CASE idem[s].status # "COMPLETED"
    <3>1. \E q \in Requests : Respond(q) /\ Keyed(q) /\ s = Slot(q)
      BY <1>6, <2>2, OnlyRespondCompletes DEF Next
    <3>2. PICK q \in Requests : Respond(q) /\ Keyed(q) /\ s = Slot(q)
      BY <3>1
    <3>3. row[q] # "absent"
      BY <3>2 DEF Respond, At, Answerable, HasRow, InFlight, Running
    <3>4. byKey[cmd[q].key] # NoPayment /\ s[3] = cmd[q].key
      BY <3>2, <3>3 DEF Answerable, IsFound, Slot
    <3> QED BY <1>1, <1>5, <3>4
  <2> QED BY <2>1, <2>2
<1>7. \A q \in Requests : pc'[q] = "lookup" => pc[q] = "lookup" /\ cmd[q].key \in Keys
  BY <1>2, <1>3, StepMoves DEF InFlight, Running, OnlyKeyedLookUp
<1>8. \A q \in Requests : pc'[q] = "lookup" => byKey'[cmd'[q].key] # NoPayment
  BY <1>1, <1>2, <1>7 DEF Answerable, ReplaysAreAnswered
<1> QED BY <1>4, <1>6, <1>8 DEF Answerable, ReplaysAreAnswered

\* acquireLock sends a request to look up only what its record has completed.
LEMMA AnswerableBegin ==
  ASSUME TypeOK, Answerable, NEW r \in Requests, Begin(r)
  PROVE  Answerable'
<1>1. /\ UNCHANGED <<cmd, row, byKey>>
      /\ \A q \in Requests \ {r} : pc'[q] = pc[q]
      /\ pc'[r] \in {"accounts", "refused", "lookup"}
      /\ pc'[r] = "lookup" => Keyed(r) /\ idem[Slot(r)].status = "COMPLETED"
      /\ \A s \in Slots : idem'[s].status = "COMPLETED" => idem[s].status = "COMPLETED"
  BY BeginMoves
<1>2. pc'[r] = "lookup" => byKey[cmd[r].key] # NoPayment
  BY <1>1, SlotType DEF Answerable, ReplaysAreAnswered, Slot
<1>3. \A q \in Requests : HasRow(q)' /\ IsFound(q)'
  BY <1>1 DEF Answerable, HasRow, IsFound, Keyed, InFlight, Running
<1> QED BY <1>1, <1>2, <1>3 DEF Answerable, ReplaysAreAnswered

\* A process that dies forgets its records; what is in memory goes with the only one.
LEMMA AnswerableCrash ==
  ASSUME TypeOK, Answerable, NEW n \in Nodes, Crash(n)
  PROVE  Answerable'
<1>1. Unlocked.status = "absent"
  BY DEF Unlocked, Lock
<1>2. /\ cmd' = cmd
      /\ \A q \in Requests : pc'[q] \in {pc[q], "crashed"}
      /\ \A s \in Slots : idem'[s].status = "COMPLETED" => s[1] # n /\ idem'[s] = idem[s]
      /\ \A q \in Requests : cmd[q].node = n => pc'[q] \notin Running
  BY <1>1 DEF Crash, Running
<1>3. CASE Durable
  <2>1. UNCHANGED <<row, byKey>>
    BY <1>3 DEF Crash, store
  <2>2. \A q \in Requests : HasRow(q)' /\ IsFound(q)'
    BY <1>2, <2>1 DEF Answerable, HasRow, IsFound, Keyed, InFlight, Running
  <2> QED BY <1>2, <2>1, <2>2 DEF Answerable, ReplaysAreAnswered
<1>4. CASE ~Durable
  <2>1. /\ \A m \in Nodes : m = n
        /\ \A q \in Requests : cmd[q].node = n
        /\ \A s \in Slots : s[1] = n
    BY <1>4, InMemoryAssumption DEF TypeOK, CallType, Slots
  <2>2. \A q \in Requests : row'[q] = "absent" /\ pc'[q] \notin Running
    BY <1>2, <1>4, <2>1 DEF Crash
  <2>3. \A q \in Requests : HasRow(q)' /\ IsFound(q)'
    BY <2>2 DEF HasRow, IsFound, InFlight
  <2> QED BY <1>2, <2>1, <2>2, <2>3 DEF Answerable, ReplaysAreAnswered, Running
<1> QED BY <1>3, <1>4

\* Every step keeps what records lead to where it can be found.
LEMMA AnswerableNext ==
  ASSUME TypeOK, OnlyKeyedLookUp, Answerable, [Next]_vars
  PROVE  Answerable'
<1>1. ASSUME UNCHANGED <<cmd, pc, idem, row, byKey>> PROVE Answerable'
  BY <1>1 DEF Answerable, HasRow, IsFound, ReplaysAreAnswered, Keyed
<1> QED
  BY <1>1, AnswerableBegin, AnswerableStep, AnswerableCrash
     DEF Next, RailDecides, OpenAccounts, Finished, vars, store

\* The payment a completed record leads to is always there, in memory as in the database, so that
\* no request its record sends to look it up is executed instead (the if in executePayment).
THEOREM ReplaysAnswered == Spec => []ReplaysAreAnswered
<1>1. TypeOK /\ OnlyKeyedLookUp /\ Answerable /\ [Next]_vars => Answerable'
  BY AnswerableNext
<1>2. Answerable => ReplaysAreAnswered
  BY DEF Answerable
<1> QED BY <1>1, <1>2, AnswerableInit, TypeCorrect, PTL DEF Spec

---------------------------------------------------------------------------------
(* One execution of an operation, until a request for it fails.             *)

Tainted(s) == \E q \in Requests : Keyed(q) /\ Slot(q) = s /\ pc[q] = "error"

\* In memory whoever owns an operation has a record, it is alone until one of them has failed,
\* and only failures make a record FAILED.
Alone ==
  /\ \A r \in Requests : Keyed(r) /\ Owns(r) => idem[Slot(r)].status # "absent"
  /\ \A r, q \in Requests :
       Keyed(r) /\ Keyed(q) /\ Slot(r) = Slot(q) /\ Owns(r) /\ Owns(q) => r = q \/ Tainted(Slot(r))
  /\ \A s \in Slots : idem[s].status = "FAILED" => Tainted(s)

\* Nobody owns an operation at the start.
LEMMA AloneInit == Init => Alone
BY DEF Init, Alone, Owns, InFlight, Running, Unlocked, Lock

\* Where nobody comes to own an operation and every record stays, nothing changes.
LEMMA AloneKept ==
  ASSUME TypeOK, Alone, cmd' = cmd,
         \A q \in Requests : (pc[q] = "error" => pc'[q] = "error") /\ (Owns(q)' => Owns(q)),
         \A s \in Slots :
           /\ idem[s].status # "absent" => idem'[s].status # "absent"
           /\ idem'[s].status = "FAILED" => Tainted(s)'
  PROVE  Alone'
<1>1. \A q \in Requests : /\ Keyed(q)' <=> Keyed(q)
                          /\ Slot(q)' = Slot(q)
                          /\ Keyed(q) => Slot(q) \in Slots
  BY SlotType DEF Keyed, Slot
<1>2. \A s \in Slots : Tainted(s) => Tainted(s)'
  BY <1>1 DEF Tainted
<1>3. \A r, q \in Requests :
        Keyed(r) /\ Keyed(q) /\ Slot(r) = Slot(q) /\ Owns(r)' /\ Owns(q)'
          => r = q \/ Tainted(Slot(r))
  BY DEF Alone
<1>4. \A s \in Slots, r \in Requests : s = Slot(r) /\ Tainted(s)' => Tainted(Slot(r))'
  BY <1>1
<1>5. \A r \in Requests : Keyed(r) /\ Tainted(Slot(r)) => Tainted(Slot(r))'
  BY <1>1, <1>2, <1>4
<1> QED BY <1>1, <1>3, <1>5 DEF Alone

\* acquireLock gives an operation to a request that finds no record, or one a failure left.
LEMMA AloneBegin ==
  ASSUME TypeOK, Alone, NEW r \in Requests, Begin(r)
  PROVE  Alone'
<1>1. /\ UNCHANGED <<cmd, row>> /\ pc[r] = "new"
      /\ \A q \in Requests \ {r} : pc'[q] = pc[q]
  BY BeginMoves
<1>2. \A q \in Requests : /\ Keyed(q)' <=> Keyed(q)
                          /\ Slot(q)' = Slot(q)
                          /\ Keyed(q) => Slot(q) \in Slots
                          /\ q # r => (Owns(q)' <=> Owns(q))
  BY <1>1, SlotType DEF Keyed, Slot, Owns
<1>3. \A q \in Requests : pc[q] = "error" => pc'[q] = "error"
  BY <1>1
<1>4. CASE idem' = idem /\ pc'[r] \in {"refused", "lookup"}
  <2>1. \A q \in Requests : Owns(q)' => Owns(q)
    BY <1>1, <1>2, <1>4 DEF Owns, InFlight, Running
  <2>2. \A s \in Slots : Tainted(s) => Tainted(s)'
    BY <1>2, <1>3 DEF Tainted
  <2> QED BY <1>1, <1>3, <1>4, <2>1, <2>2, AloneKept DEF Alone
<1>5. CASE ~Keyed(r) /\ idem' = idem
  <2>1. \A s \in Slots : Tainted(s) => Tainted(s)'
    BY <1>2, <1>3 DEF Tainted
  <2>2. \A q \in Requests : Keyed(q) /\ Tainted(Slot(q)) => Tainted(Slot(q))'
    BY <1>2, <1>3 DEF Tainted
  <2> QED BY <1>2, <1>5, <2>1, <2>2 DEF Alone
<1>6. CASE Keyed(r) /\ idem[Slot(r)].status = "FAILED" /\ idem' = idem
  <2>1. Tainted(Slot(r))
    BY <1>2, <1>6 DEF Alone
  <2>2. \A s \in Slots : Tainted(s) => Tainted(s)'
    BY <1>2, <1>3 DEF Tainted
  <2>3. \A q \in Requests : Keyed(q) /\ Tainted(Slot(q)) => Tainted(Slot(q))'
    BY <1>2, <1>3 DEF Tainted
  <2>4. \A p, q \in Requests :
          Keyed(p) /\ Keyed(q) /\ Slot(p) = Slot(q) /\ Owns(p)' /\ Owns(q)'
            => p = q \/ Tainted(Slot(p))
    BY <1>2, <2>1 DEF Alone
  <2> QED BY <1>2, <1>6, <2>2, <2>3, <2>4 DEF Alone
<1>7. CASE /\ Keyed(r) /\ idem[Slot(r)].status = "absent"
           /\ \A s \in Slots \ {Slot(r)} : idem'[s] = idem[s]
           /\ idem'[Slot(r)].status = "PROCESSING"
  <2>1. \A q \in Requests : Keyed(q) /\ Slot(q) = Slot(r) => ~Owns(q)
    BY <1>7 DEF Alone
  <2>2. \A s \in Slots : Tainted(s) => Tainted(s)'
    BY <1>2, <1>3 DEF Tainted
  <2>3. \A q \in Requests : Keyed(q) /\ Tainted(Slot(q)) => Tainted(Slot(q))'
    BY <1>2, <1>3 DEF Tainted
  <2>4. \A p, q \in Requests :
          Keyed(p) /\ Keyed(q) /\ Slot(p) = Slot(q) /\ Owns(p)' /\ Owns(q)'
            => p = q \/ Tainted(Slot(p))
    BY <1>2, <2>1 DEF Alone
  <2>5. \A q \in Requests : Keyed(q) /\ Owns(q)' => idem'[Slot(q)].status # "absent"
    BY <1>2, <1>7 DEF Alone
  <2>6. \A s \in Slots : idem'[s].status = "FAILED" => Tainted(s)'
    BY <1>7, <2>2 DEF Alone
  <2> QED BY <1>2, <2>3, <2>4, <2>5, <2>6 DEF Alone
<1> QED BY <1>4, <1>5, <1>6, <1>7, BeginMoves

\* A step goes on with what its request owns: a look-up that was sent for finds its answer.
LEMMA AloneStep ==
  ASSUME TypeOK, OnlyKeyedLookUp, Answerable, Alone, NEW r \in Requests, Step(r)
  PROVE  Alone'
<1>1. /\ cmd' = cmd /\ pc[r] # "error"
      /\ \A q \in Requests \ {r} : pc'[q] = pc[q] /\ row'[q] = row[q]
  BY StepMoves, OthersUnmoved DEF Unmoved, InFlight, Running
<1>2. \A q \in Requests : (pc[q] = "error" => pc'[q] = "error")
  BY <1>1
<1>3. pc[r] = "lookup" => row' = row
  BY DEF Step, At, LookupCached, CheckAccounts, SaveDenied, AuditFailed, SaveValidated,
    AuditValidated, EnqueueReview, SaveEntry, SaveCommitted, AuditCommitted, SubmitPayout,
    RailFails, SaveSettled, AuditSettled, Notify, Respond, Catch, store
<1>4. \A q \in Requests : Owns(q)' => Owns(q)
  <2>1. pc[r] = "lookup" => byKey[cmd[r].key] # NoPayment
    BY DEF Answerable, ReplaysAreAnswered
  <2>2. Owns(r)' => Owns(r)
    BY <1>3, <2>1, StepMoves DEF Owns, InFlight, Running
  <2> QED BY <1>1, <2>2 DEF Owns
<1>5. \A q \in Requests : /\ Keyed(q)' <=> Keyed(q)
                          /\ Slot(q)' = Slot(q)
                          /\ Keyed(q) => Slot(q) \in Slots
  BY <1>1, SlotType DEF Keyed, Slot
<1>6. \A s \in Slots : Tainted(s) => Tainted(s)'
  BY <1>2, <1>5 DEF Tainted
<1>7. CASE idem' = idem
  BY <1>1, <1>2, <1>4, <1>6, <1>7, AloneKept DEF Alone
<1>8. ASSUME NEW t \in {"COMPLETED", "FAILED"}, SetStatus(r, t), t = "FAILED" => pc'[r] = "error"
      PROVE  Alone'
  <2>1. /\ \A s \in Slots : idem'[s] = idem[s] \/ (Keyed(r) /\ s = Slot(r))
        /\ Keyed(r) => idem'[Slot(r)] = idem[Slot(r)] \/ idem'[Slot(r)].status = t
    BY <1>8, StatusSet
  <2>2. Keyed(r) /\ t = "FAILED" => Tainted(Slot(r))'
    BY <1>5, <1>8 DEF Tainted
  <2>3. \A s \in Slots : s = Slot(r) /\ Tainted(Slot(r))' => Tainted(s)'
    BY <1>5
  <2>4. ASSUME NEW s \in Slots
        PROVE  /\ idem[s].status # "absent" => idem'[s].status # "absent"
               /\ idem'[s].status = "FAILED" => Tainted(s)'
    BY <1>6, <2>1, <2>2, <2>3 DEF Alone
  <2> QED BY <1>1, <1>2, <1>4, <2>4, AloneKept
<1> QED BY <1>7, <1>8, StepMoves

\* The only process dies: nobody owns anything any more.
LEMMA AloneCrash ==
  ASSUME ~Durable, TypeOK, NEW n \in Nodes, Crash(n)
  PROVE  Alone'
<1>1. /\ \A q \in Requests : cmd[q].node = n
      /\ \A s \in Slots : s[1] = n
  BY InMemoryAssumption DEF TypeOK, CallType, Slots
<1>2. /\ \A q \in Requests : pc'[q] \notin Running /\ row'[q] = "absent"
      /\ \A s \in Slots : idem'[s] = Unlocked
  BY <1>1 DEF Crash, Running
<1> QED BY <1>2 DEF Alone, Owns, InFlight, Unlocked, Lock

\* Every step keeps each operation with its one owner, or has seen one fail.
LEMMA AloneNext ==
  ASSUME ~Durable, TypeOK, OnlyKeyedLookUp, Answerable, Alone, [Next]_vars
  PROVE  Alone'
<1>1. ASSUME UNCHANGED <<cmd, pc, idem, row>> PROVE Alone'
  BY <1>1 DEF Alone, Owns, Tainted, Keyed, Slot
<1> QED
  BY <1>1, AloneBegin, AloneStep, AloneCrash
     DEF Next, RailDecides, OpenAccounts, Finished, vars, store

\* In the memory of one process an operation has one execution and one payment, however many
\* requests are sent, refused or replayed and whenever the process dies, until one of them has
\* failed past its lock (acquireLock, the catch block).
THEOREM OneUntilFailureInMemory ==
  ASSUME ~Durable
  PROVE  Spec => []OneUntilFailure
<1>1. TypeOK /\ Alone => OneUntilFailure
  <2> SUFFICES ASSUME TypeOK, Alone, NEW r \in Requests, NEW s \in Requests,
                      SameOperation(r, s), Owns(r), Owns(s), r # s
               PROVE  \E q \in Requests : SameOperation(q, r) /\ pc[q] = "error"
    BY DEF OneUntilFailure
  <2>1. Keyed(r) /\ Keyed(s) /\ cmd[r].key = cmd[s].key /\ cmd[r].tenant = cmd[s].tenant
    BY DEF SameOperation, Keyed
  <2>2. cmd[r].node = cmd[s].node
    BY InMemoryAssumption DEF TypeOK, CallType
  <2>3. Slot(r) = Slot(s)
    BY <2>1, <2>2 DEF Slot
  <2>4. Tainted(Slot(r))
    BY <2>1, <2>3 DEF Alone
  <2> QED BY <2>4 DEF Tainted, Slot, SameOperation
<1>2. /\ TypeOK /\ OnlyKeyedLookUp /\ Answerable /\ [Next]_vars => Answerable'
      /\ TypeOK /\ OnlyKeyedLookUp /\ Answerable /\ Alone /\ [Next]_vars => Alone'
  BY AnswerableNext, AloneNext
<1> QED BY <1>1, <1>2, AnswerableInit, AloneInit, TypeCorrect, PTL DEF Spec

---------------------------------------------------------------------------------
(* A stored payment owns its key.                                           *)

\* Nothing is stored at the start.
LEMMA OwnersInit == Init => RowsOwnTheirKeys
BY DEF Init, RowsOwnTheirKeys

\* The unique index keeps a second payment from being stored under a key.
LEMMA OwnersStep ==
  ASSUME Durable, TypeOK, RowsOwnTheirKeys, [Next]_vars
  PROVE  RowsOwnTheirKeys'
<1>1. ASSUME NEW r \in Requests, NEW to \in Table!PaymentState, NEW next, Save(r, to, next)
      PROVE  RowsOwnTheirKeys'
  <2> SUFFICES ASSUME NEW q \in Requests, row'[q] # "absent", Keyed(q)'
               PROVE  byKey'[cmd'[q].key] = q
    BY DEF RowsOwnTheirKeys
  <2>1. cmd' = cmd /\ Keyed(q) /\ cmd[q].key \in Keys
    BY <1>1 DEF Save, Keyed, TypeOK, CallType
  <2>2. CASE row[q] # "absent"
    <3>1. byKey[cmd[q].key] = q /\ q # NoPayment
      BY <2>1, <2>2, OrchestratorAssumption DEF RowsOwnTheirKeys
    <3>2. byKey'[cmd[q].key] = byKey[cmd[q].key]
      BY <1>1, <2>1, <3>1 DEF Save, TypeOK
    <3> QED
      BY <2>1, <3>1, <3>2
  <2>3. CASE row[q] = "absent"
    <3>1. q = r /\ Accepted(r)
      BY <1>1, <2>3 DEF Save, TypeOK
    <3>2. byKey[cmd[r].key] = NoPayment
      BY <2>1, <2>3, <3>1 DEF Accepted
    <3>3. byKey'[cmd[r].key] = r
      BY <1>1, <2>1, <2>3, <3>1, <3>2 DEF Save, TypeOK
    <3> QED
      BY <2>1, <3>1, <3>3
  <2> QED
    BY <2>2, <2>3
<1>2. ASSUME UNCHANGED <<cmd, row, byKey>> PROVE RowsOwnTheirKeys'
  BY <1>2 DEF RowsOwnTheirKeys, Keyed
<1>3. ASSUME NEW r \in Requests, Step(r) PROVE RowsOwnTheirKeys'
  <2>1. {"failed", "validated", "committed", "settled"} \subseteq Table!PaymentState
    BY DEF Table!PaymentState
  <2>2. CASE SaveDenied(r) \/ SaveValidated(r) \/ SaveCommitted(r) \/ SaveSettled(r)
    BY <1>1, <2>1, <2>2 DEF SaveDenied, SaveValidated, SaveCommitted, SaveSettled
  <2>3. CASE UNCHANGED <<cmd, row, byKey>>
    BY <1>2, <2>3
  <2> QED
    BY <1>3, <2>2, <2>3 DEF Step, LookupCached, CheckAccounts, AuditFailed, AuditValidated,
      EnqueueReview, SaveEntry, AuditCommitted, SubmitPayout, RailFails, AuditSettled, Notify,
      Respond, Catch, Record, Enqueue, store
<1>4. ASSUME NEW r \in Requests, Begin(r) \/ RailDecides(r) PROVE RowsOwnTheirKeys'
  BY <1>2, <1>4 DEF Begin, RailDecides, store
<1>5. ASSUME NEW n \in Nodes, Crash(n) PROVE RowsOwnTheirKeys'
  BY <1>2, <1>5 DEF Crash, store
<1>6. CASE UNCHANGED vars \/ \E p \in Payloads : OpenAccounts(p)
  BY <1>2, <1>6 DEF vars, store, OpenAccounts
<1> QED
  BY <1>3, <1>4, <1>5, <1>6 DEF Next, Finished

\* Two stored payments of one operation are one payment.
LEMMA OneRowPerKey ==
  ASSUME RowsOwnTheirKeys, NEW r \in Requests, NEW s \in Requests,
         row[r] # "absent", row[s] # "absent", Keyed(r), cmd[r].key = cmd[s].key
  PROVE  r = s
BY DEF RowsOwnTheirKeys, Keyed

\* What the theorems below rest on.
Once == Order /\ RowsOwnTheirKeys

\* The invariant of the database: order, and one owner for each key.
LEMMA OnceCorrect ==
  ASSUME Durable
  PROVE  Spec => []Once
<1>1. StoreSurvives
  BY DEF StoreSurvives
<1>2. TypeOK /\ RowsOwnTheirKeys /\ [Next]_vars => RowsOwnTheirKeys'
  BY OwnersStep
<1>3. Order => TypeOK
  BY DEF Order
<1> QED
  BY <1>1, <1>2, <1>3, OwnersInit, OrderCorrect, PTL DEF Spec, Once

\* Keys and stored payments lead to each other, whoever saves or dies (payments' unique key).
THEOREM UniqueIndexHolds ==
  ASSUME Durable
  PROVE  Spec => []UniqueIndex
<1>1. Once => UniqueIndex
  BY DEF Once, Order, UniqueIndex
<1> QED
  BY <1>1, OnceCorrect, PTL

\* No key of a tenant is booked twice in the ledger.
THEOREM OneEntryPerKey ==
  ASSUME Durable
  PROVE  Spec => []AtMostOneEntryPerKey
<1>1. Once => AtMostOneEntryPerKey
  BY OneRowPerKey DEF Once, Order, TypeOK, Stages, StageOf, AtMostOneEntryPerKey, SameOperation
<1> QED
  BY <1>1, OnceCorrect, PTL

\* No key of a tenant is paid out twice.
THEOREM OnePayoutPerKey ==
  ASSUME Durable
  PROVE  Spec => []AtMostOnePayoutPerKey
<1>1. Once => AtMostOnePayoutPerKey
  BY OneRowPerKey DEF Once, Order, Stages, StageOf, AtMostOnePayoutPerKey, SameOperation
<1> QED
  BY <1>1, OnceCorrect, PTL

---------------------------------------------------------------------------------
(* Replays.                                                                 *)

\* p is what the key k leads to, belongs to tenant t and has been given as an answer.
AnswerFor(k, t, p) == p \in Requests /\ cmd[p].key = k /\ cmd[p].tenant = t /\ reply[p] = p

Replays ==
  /\ \A s \in Slots : idem[s].status = "COMPLETED" => AnswerFor(s[3], s[2], byKey[s[3]])
  /\ \A r \in Requests :
       pc[r] = "lookup" => AnswerFor(cmd[r].key, cmd[r].tenant, byKey[cmd[r].key])
  /\ \A r \in Requests : reply[r] # NoPayment /\ reply[r] # r =>
       Keyed(r) /\ AnswerFor(cmd[r].key, cmd[r].tenant, reply[r])

\* Nothing has been answered at the start.
LEMMA ReplaysInit == Init => Replays
BY OrchestratorAssumption DEF Init, Replays, Unlocked, Lock

\* An answer, once given, goes on being the answer of its key.
LEMMA AnswerKept ==
  ASSUME Durable, Once, NEW k \in Keys, NEW t, AnswerFor(k, t, byKey[k]), [Next]_vars
  PROVE  AnswerFor(k, t, byKey[k])' /\ cmd' = cmd /\ byKey'[k] = byKey[k]
<1> DEFINE p == byKey[k]
<1>1. p \in Requests /\ reply[p] = p /\ pc[p] = "done" /\ p # NoPayment
  BY OrchestratorAssumption DEF AnswerFor, Once, Order, Trails, TrailOf
<1> SUFFICES cmd' = cmd /\ reply'[p] = p /\ byKey'[k] = p
  BY DEF AnswerFor
<1> HIDE DEF p
<1>2. ASSUME NEW r \in Requests, Begin(r) \/ Step(r) \/ RailDecides(r)
      PROVE  cmd' = cmd /\ reply'[p] = p /\ byKey'[k] = p
  <2>1. reply'[p] = p
    <3>1. CASE r = p
      BY <1>1, <1>2, <3>1 DEF Begin, Step, RailDecides, LookupCached, CheckAccounts, SaveDenied,
        AuditFailed, SaveValidated, AuditValidated, EnqueueReview, SaveEntry, SaveCommitted,
        AuditCommitted, SubmitPayout, RailFails, SaveSettled, AuditSettled, Notify, Respond,
        Catch, At
    <3>2. CASE r # p
      BY <1>1, <1>2, <3>2, OthersUnmoved DEF Unmoved, Once, Order
    <3> QED
      BY <3>1, <3>2
  <2>2. cmd' = cmd
    BY <1>2 DEF Begin, Step, RailDecides, LookupCached, CheckAccounts, SaveDenied,
      AuditFailed, SaveValidated, AuditValidated, EnqueueReview, SaveEntry, SaveCommitted,
      AuditCommitted, SubmitPayout, RailFails, SaveSettled, AuditSettled, Notify, Respond,
      Catch, Save, Record, Enqueue
  <2>3. byKey'[k] = p
    <3>1. ASSUME NEW to, NEW next, Save(r, to, next) PROVE byKey'[k] = p
      BY <1>1, <3>1 DEF Save, Once, Order, TypeOK, p
    <3> QED
      BY <1>2, <3>1 DEF Begin, Step, RailDecides, LookupCached, CheckAccounts, SaveDenied,
        AuditFailed, SaveValidated, AuditValidated, EnqueueReview, SaveEntry, SaveCommitted,
        AuditCommitted, SubmitPayout, RailFails, SaveSettled, AuditSettled, Notify, Respond,
        Catch, Record, Enqueue, store, p
  <2> QED
    BY <2>1, <2>2, <2>3
<1>3. ASSUME NEW n \in Nodes, Crash(n)
      PROVE  cmd' = cmd /\ reply'[p] = p /\ byKey'[k] = p
  BY <1>1, <1>3 DEF Crash, store, p
<1>4. CASE UNCHANGED vars \/ \E q \in Payloads : OpenAccounts(q)
  BY <1>1, <1>4 DEF vars, store, OpenAccounts, p
<1> QED
  BY <1>2, <1>3, <1>4 DEF Next, Finished

\* The payment a key was answered with is the one it leads to.
LEMMA AnswerOwnsKey ==
  ASSUME Once, NEW k \in Keys, NEW t, NEW p, AnswerFor(k, t, p)
  PROVE  byKey[k] = p
<1>1. p \in Requests /\ FullTrail(p) /\ cmd[p].key = k
  BY DEF AnswerFor, Once, Order, Trails, TrailOf
<1>2. row[p] # "absent" /\ Keyed(p)
  BY <1>1, OrchestratorAssumption DEF FullTrail, Keyed
<1> QED
  BY <1>1, <1>2 DEF Once, RowsOwnTheirKeys

\* No step makes a record, a lookup or a replay point at a payment that was not an answer.
LEMMA ReplaysStep ==
  ASSUME Durable, Once, Replays, [Next]_vars
  PROVE  Replays'
<1> USE DEF AnswerFor
<1>1. TypeOK /\ OnlyKeyedLookUp
  BY DEF Once, Order
<1>2. ASSUME NEW s \in Slots, idem'[s].status = "COMPLETED"
      PROVE  AnswerFor(s[3], s[2], byKey[s[3]])'
  <2>0. s[3] \in Keys
    BY DEF Slots
  <2>1. CASE idem[s].status = "COMPLETED"
    <3>1. AnswerFor(s[3], s[2], byKey[s[3]])
      BY <2>1 DEF Replays
    <3> QED
      BY <2>0, <3>1, AnswerKept
  <2>2. CASE idem[s].status # "COMPLETED"
    <3>1. PICK r \in Requests : Respond(r) /\ Keyed(r) /\ s = Slot(r)
      BY <1>1, <1>2, <2>2, OnlyRespondCompletes
    <3>2. row[r] # "absent"
      BY <3>1 DEF Respond, At, Once, Order, Stages, StageOf
    <3>3. byKey[cmd[r].key] = r
      BY <3>1, <3>2 DEF Once, RowsOwnTheirKeys
    <3>4. s[3] = cmd[r].key /\ s[2] = cmd[r].tenant
      BY <3>1 DEF Slot
    <3>5. cmd' = cmd /\ byKey' = byKey /\ reply'[r] = r
      BY <1>1, <3>1 DEF Respond, store, TypeOK
    <3> QED
      BY <3>3, <3>4, <3>5
  <2> QED
    BY <2>1, <2>2
<1>3. ASSUME NEW r \in Requests, pc'[r] = "lookup"
      PROVE  AnswerFor(cmd[r].key, cmd[r].tenant, byKey[cmd[r].key])'
  <2>1. CASE pc[r] = "lookup"
    <3>1. AnswerFor(cmd[r].key, cmd[r].tenant, byKey[cmd[r].key]) /\ cmd[r].key \in Keys
      BY <1>1, <2>1, SlotType DEF Replays, OnlyKeyedLookUp
    <3> QED
      BY <3>1, AnswerKept
  <2>2. CASE pc[r] # "lookup"
    <3>1. Begin(r)
      BY <1>1, <1>3, <2>2, OthersUnmoved DEF Next, Step, Finished, vars, RailDecides, OpenAccounts,
        LookupCached, CheckAccounts, SaveDenied, AuditFailed, SaveValidated, AuditValidated,
        EnqueueReview, SaveEntry, SaveCommitted, AuditCommitted, SubmitPayout, RailFails,
        SaveSettled, AuditSettled, Notify, Respond, Catch, Save, Record, Enqueue, Returns,
        Goto, Crash, TypeOK
    <3>2. Keyed(r) /\ idem[Slot(r)].status = "COMPLETED"
      BY <1>1, <1>3, <2>2, <3>1 DEF Begin, acquireLock, Goto, TypeOK
    <3>3. Slot(r) \in Slots /\ cmd[r].key \in Keys
      BY <1>1, <3>2, SlotType
    <3>4. AnswerFor(cmd[r].key, cmd[r].tenant, byKey[cmd[r].key])
      BY <3>2, <3>3 DEF Replays, Slot
    <3> QED
      BY <3>3, <3>4, AnswerKept
  <2> QED
    BY <2>1, <2>2
<1>4. ASSUME NEW r \in Requests, reply'[r] # NoPayment, reply'[r] # r
      PROVE  Keyed(r)' /\ AnswerFor(cmd[r].key, cmd[r].tenant, reply[r])'
  <2>1. CASE reply'[r] = reply[r]
    <3>1. Keyed(r) /\ AnswerFor(cmd[r].key, cmd[r].tenant, reply[r])
      BY <1>4, <2>1 DEF Replays
    <3>2. cmd[r].key \in Keys
      BY <1>1, <3>1, SlotType
    <3>3. byKey[cmd[r].key] = reply[r]
      BY <3>1, <3>2, AnswerOwnsKey
    <3> QED
      BY <2>1, <3>1, <3>2, <3>3, AnswerKept DEF Keyed
  <2>2. CASE reply'[r] # reply[r]
    <3>1. LookupCached(r)
      BY <1>1, <1>4, <2>2, OthersUnmoved DEF Next, Step, Finished, vars, RailDecides, Begin,
        OpenAccounts, CheckAccounts, SaveDenied, AuditFailed, SaveValidated, AuditValidated,
        EnqueueReview, SaveEntry, SaveCommitted, AuditCommitted, SubmitPayout, RailFails,
        SaveSettled, AuditSettled, Notify, Respond, Catch, Save, Record, Enqueue, Unmoved,
        Crash, TypeOK
    <3>2. pc[r] = "lookup" /\ reply'[r] = byKey[cmd[r].key]
      BY <1>1, <2>2, <3>1 DEF LookupCached, At, TypeOK
    <3>3. cmd[r].key \in Keys /\ Keyed(r)
      BY <1>1, <3>2, SlotType DEF OnlyKeyedLookUp
    <3>4. AnswerFor(cmd[r].key, cmd[r].tenant, byKey[cmd[r].key])
      BY <3>2 DEF Replays
    <3> QED
      BY <3>2, <3>3, <3>4, AnswerKept DEF Keyed
  <2> QED
    BY <2>1, <2>2
<1> QED
  BY <1>2, <1>3, <1>4 DEF Replays

\* Completed records, lookups under way and replays given lead to answered payments.
LEMMA ReplaysCorrect ==
  ASSUME Durable
  PROVE  Spec => [](Once /\ Replays)
<1>1. Once /\ Replays /\ [Next]_vars => Replays'
  BY ReplaysStep
<1> QED
  BY <1>1, OnceCorrect, ReplaysInit, PTL DEF Spec

\* A completed record leads to the payment that was answered (saveResponse, then the lookup).
THEOREM RecordsLeadCorrect ==
  ASSUME Durable
  PROVE  Spec => []RecordsLeadToAnswers
<1>1. Once /\ Replays => RecordsLeadToAnswers
  <2> SUFFICES ASSUME Once, Replays PROVE RecordsLeadToAnswers
    OBVIOUS
  <2>1. ASSUME NEW r \in Requests, pc[r] = "lookup" PROVE Keyed(r)
    BY <2>1 DEF Once, Order, OnlyKeyedLookUp
  <2> QED
    BY <2>1 DEF Replays, AnswerFor, RecordsLeadToAnswers, SameOperation
<1> QED
  BY <1>1, ReplaysCorrect, PTL

\* A replay returns a payment its own tenant's key was answered with before.
THEOREM ReplayMatches ==
  ASSUME Durable
  PROVE  Spec => []ReplayMatchesResponse
<1>1. Once /\ Replays => ReplayMatchesResponse
  BY DEF Replays, AnswerFor, ReplayMatchesResponse, SameOperation
<1> QED
  BY <1>1, ReplaysCorrect, PTL

\* A payment a caller has been given has its whole trail in the audit log.
THEOREM AnswersAudited ==
  ASSUME Durable
  PROVE  Spec => []AnswerIsAudited
<1>1. Once /\ Replays => AnswerIsAudited
  BY DEF Replays, AnswerFor, AnswerIsAudited, Once, Order, Trails, TrailOf
<1> QED
  BY <1>1, ReplaysCorrect, PTL

---------------------------------------------------------------------------------
(* The refinement.                                                          *)

\* An operation that has been booked or answered belongs to one stored payment.
LEMMA OneRowPerOperation ==
  ASSUME Once, Replays, NEW r \in Requests, row[r] # "absent", NEW q \in Requests,
         <<OperationOf(r), q>> \in Debits \cup Answers
  PROVE  q = r
<1>1. CASE <<OperationOf(r), q>> \in Debits
  <2>1. q \in entries /\ OperationOf(q) = OperationOf(r)
    BY <1>1 DEF Debits
  <2>2. row[q] # "absent"
    BY <2>1 DEF Once, Order, Stages, StageOf
  <2>3. q = r \/ (Keyed(r) /\ cmd[r].key = cmd[q].key)
    BY <2>1, OrchestratorAssumption DEF OperationOf, Keyed, Once, Order, TypeOK, CallType
  <2> QED
    BY <2>2, <2>3, OneRowPerKey DEF Once
<1>2. CASE <<OperationOf(r), q>> \in Answers
  <2>1. PICK x \in Requests : /\ reply[x] # NoPayment /\ q = reply[x]
                              /\ OperationOf(x) = OperationOf(r)
    BY <1>2 DEF Answers
  <2>2. x = r \/ (Keyed(r) /\ Keyed(x) /\ cmd[r].key = cmd[x].key /\ cmd[r].key \in Keys)
    BY <2>1, OrchestratorAssumption DEF OperationOf, Keyed, Once, Order, TypeOK, CallType
  <2>3. CASE q = x
    <3>1. row[q] # "absent"
      BY <2>1, <2>3, OrchestratorAssumption DEF Once, Order, Trails, TrailOf, FullTrail
    <3> QED
      BY <2>2, <2>3, <3>1, OneRowPerKey DEF Once
  <2>4. CASE q # x
    <3>1. Keyed(x) /\ AnswerFor(cmd[x].key, cmd[x].tenant, q)
      BY <2>1, <2>4 DEF Replays
    <3>2. cmd[x].key \in Keys
      BY <3>1, SlotType DEF Once, Order
    <3>3. byKey[cmd[x].key] = q
      BY <3>1, <3>2, AnswerOwnsKey
    <3>4. Keyed(r) /\ cmd[r].key = cmd[x].key
      BY <2>2, <3>1
    <3> QED
      BY <3>3, <3>4 DEF Once, RowsOwnTheirKeys
  <2> QED
    BY <2>3, <2>4
<1> QED
  BY <1>1, <1>2

\* What a request stands for is an operation.
LEMMA OperationType ==
  ASSUME TypeOK, NEW r \in Requests
  PROVE  OperationOf(r) \in Keys \cup Requests
BY DEF OperationOf, Keyed, TypeOK, CallType

\* A step that keeps the commands keeps the operations.
LEMMA OperationsKept ==
  ASSUME cmd' = cmd, NEW r
  PROVE  OperationOf(r)' = OperationOf(r)
BY DEF OperationOf, Keyed

\* ledgerRepo.saveEntry is a debit, or changes nothing the caller was promised.
LEMMA SaveEntryDebits ==
  ASSUME Once, Replays, NEW r \in Requests, SaveEntry(r)
  PROVE  [Promise!Next]_(Promise!vars)
<1>1. cmd' = cmd /\ rail' = rail /\ reply' = reply /\ entries' \in {entries, entries \cup {r}}
  BY DEF SaveEntry
<1>2. Instructed' = Instructed /\ Answers' = Answers
  BY <1>1, OperationsKept DEF Instructed, Answers
<1>3. CASE entries' = entries
  BY <1>1, <1>2, <1>3, OperationsKept DEF Debits, Promise!vars
<1>4. CASE entries' = entries \cup {r}
  <2>1. Debits' = Debits \cup {<<OperationOf(r), r>>}
    BY <1>1, <1>4, OperationsKept DEF Debits
  <2>2. row[r] # "absent" /\ r \notin entries /\ reply[r] = NoPayment
    BY DEF SaveEntry, At, Once, Order, Stages, StageOf, Trails, TrailOf
  <2>3. ASSUME NEW q \in Requests, <<OperationOf(r), q>> \in Debits \cup Answers PROVE FALSE
    <3>1. q = r
      BY <2>2, <2>3, OneRowPerOperation
    <3>2. r \notin entries => <<OperationOf(r), r>> \notin Debits
      BY DEF Debits
    <3>3. PICK x \in Requests : reply[x] # NoPayment /\ reply[x] = r
      BY <2>2, <2>3, <3>1, <3>2 DEF Answers
    <3>4. reply[r] = r
      BY <3>3 DEF Replays, AnswerFor
    <3> QED
      BY <2>2, <3>3, <3>4
  <2>4. Promise!Debit(OperationOf(r), r)
    BY <1>2, <2>1, <2>3 DEF Promise!Debit
  <2> QED
    BY <2>4, OperationType DEF Promise!Next, Once, Order
<1> QED
  BY <1>1, <1>3, <1>4

\* submitPayout is an instruction of a booked payment.
LEMMA SubmitInstructs ==
  ASSUME Once, NEW r \in Requests, SubmitPayout(r)
  PROVE  [Promise!Next]_(Promise!vars)
<1>1. cmd' = cmd /\ entries' = entries /\ reply' = reply /\ rail' = [rail EXCEPT ![r] = "sent"]
  BY DEF SubmitPayout, store
<1>2. Debits' = Debits /\ Answers' = Answers
  BY <1>1, OperationsKept DEF Debits, Answers
<1>3. Instructed' = Instructed \cup {r}
  BY <1>1 DEF Instructed, Once, Order, TypeOK
<1>4. <<OperationOf(r), r>> \in Debits
  BY DEF Debits, SubmitPayout, At, Once, Order, Stages, StageOf
<1>5. Promise!Instruct(OperationOf(r), r)
  BY <1>2, <1>3, <1>4 DEF Promise!Instruct
<1> QED
  BY <1>5, OperationType DEF Promise!Next, Once, Order

\* A response is an answer for the operation.
LEMMA RespondAnswers ==
  ASSUME Once, Replays, NEW r \in Requests, Respond(r)
  PROVE  [Promise!Next]_(Promise!vars)
<1>1. /\ cmd' = cmd /\ entries' = entries /\ rail' = rail
      /\ reply' = [reply EXCEPT ![r] = r] /\ pc[r] = "respond"
  BY DEF Respond, At, store
<1>2. Debits' = Debits /\ Instructed' = Instructed
  BY <1>1, OperationsKept DEF Debits, Instructed
<1>3. row[r] # "absent" /\ reply[r] = NoPayment
  BY <1>1 DEF Once, Order, Stages, StageOf, Trails, TrailOf
<1>4. Answers' = Answers \cup {<<OperationOf(r), r>>}
  BY <1>1, <1>3, OperationsKept, OrchestratorAssumption DEF Answers, Once, Order, TypeOK
<1>5. \A q \in Requests : <<OperationOf(r), q>> \in (Debits \cup Answers) => q = r
  BY <1>3, OneRowPerOperation
<1>6. Promise!Answer(OperationOf(r), r)
  BY <1>2, <1>4, <1>5 DEF Promise!Answer
<1> QED
  BY <1>6, OperationType DEF Promise!Next, Once, Order

\* A replay tells the caller nothing that has not been told before.
LEMMA LookupRepeats ==
  ASSUME Once, Replays, NEW r \in Requests, LookupCached(r)
  PROVE  UNCHANGED Promise!vars
<1>1. cmd' = cmd /\ entries' = entries /\ rail' = rail /\ pc[r] = "lookup"
  BY DEF LookupCached, At, store
<1>2. Debits' = Debits /\ Instructed' = Instructed
  BY <1>1, OperationsKept DEF Debits, Instructed
<1> DEFINE p == byKey[cmd[r].key]
<1>3. AnswerFor(cmd[r].key, cmd[r].tenant, p) /\ Keyed(r)
  BY <1>1 DEF Replays, Once, Order, OnlyKeyedLookUp
<1>4. p \in Requests /\ reply[p] = p /\ OperationOf(p) = OperationOf(r) /\ reply[r] = NoPayment
  BY <1>1, <1>3 DEF AnswerFor, OperationOf, Keyed, Once, Order, Trails, TrailOf
<1>5. reply' = reply \/ reply' = [reply EXCEPT ![r] = p]
  BY DEF LookupCached
<1>6. <<OperationOf(r), p>> \in Answers
  BY <1>4, OrchestratorAssumption DEF Answers
<1>7. CASE reply' = reply
  BY <1>1, <1>2, <1>7, OperationsKept DEF Answers, Promise!vars
<1>8. CASE reply' = [reply EXCEPT ![r] = p]
  <2> HIDE DEF p
  <2>1. Answers' = Answers \cup {<<OperationOf(r), p>>}
    BY <1>1, <1>4, <1>8, OperationsKept, OrchestratorAssumption
       DEF Answers, Once, Order, TypeOK
  <2> QED
    BY <1>2, <1>6, <2>1 DEF Promise!vars
<1> QED
  BY <1>5, <1>7, <1>8

\* Steps that touch neither the ledger, the rail nor an answer change nothing promised.
LEMMA NothingPromised ==
  ASSUME UNCHANGED <<cmd, entries, reply>>, Instructed' = Instructed
  PROVE  UNCHANGED Promise!vars
BY OperationsKept DEF Promise!vars, Debits, Answers

\* executePayment on the database implements PayOnce.
THEOREM PaysOnceHolds ==
  ASSUME Durable
  PROVE  Spec => PaysOnce
<1>1. Init => Promise!Init
  BY DEF Init, Promise!Init, Debits, Instructed, Answers
<1>2. Once /\ Replays /\ [Next]_vars => [Promise!Next]_(Promise!vars)
  <2> SUFFICES ASSUME Once, Replays, [Next]_vars PROVE [Promise!Next]_(Promise!vars)
    OBVIOUS
  <2>1. ASSUME NEW r \in Requests, Step(r) PROVE [Promise!Next]_(Promise!vars)
    <3>1. CASE UNCHANGED <<cmd, entries, rail, reply>>
      BY <3>1, NothingPromised DEF Instructed
    <3> QED
      BY <2>1, <3>1, SaveEntryDebits, SubmitInstructs, RespondAnswers, LookupRepeats
         DEF Step, CheckAccounts, SaveDenied, AuditFailed, SaveValidated, AuditValidated,
           EnqueueReview, SaveCommitted, AuditCommitted, RailFails, SaveSettled, AuditSettled,
           Notify, Catch, Save, Record, Enqueue, store
  <2>2. ASSUME NEW r \in Requests, RailDecides(r) PROVE UNCHANGED Promise!vars
    <3>1. Instructed' = Instructed
      BY <2>2, OrchestratorAssumption DEF RailDecides, Instructed, Once, Order, TypeOK
    <3> QED
      BY <2>2, <3>1, NothingPromised DEF RailDecides, store
  <2>3. ASSUME NEW r \in Requests, Begin(r) PROVE UNCHANGED Promise!vars
    BY <2>3, NothingPromised DEF Begin, store, Instructed
  <2>4. ASSUME NEW n \in Nodes, Crash(n) PROVE UNCHANGED Promise!vars
    BY <2>4, NothingPromised DEF Crash, store, Instructed
  <2>5. CASE UNCHANGED vars \/ \E p \in Payloads : OpenAccounts(p)
    BY <2>5, NothingPromised DEF vars, store, OpenAccounts, Instructed
  <2> QED
    BY <2>1, <2>2, <2>3, <2>4, <2>5 DEF Next, Finished
<1> QED
  BY <1>1, <1>2, ReplaysCorrect, PTL DEF Spec, PaysOnce, Promise!Spec
====================================================================================
