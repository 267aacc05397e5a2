--------------------------- MODULE PaymentOrchestrator ---------------------------
(***************************************************************************)
(* PaymentOrchestrator.executePayment with the idempotency service, the    *)
(* payment, ledger and audit repositories, the rail and the queue it       *)
(* calls.  Each element of Requests is one call of executePayment; a       *)
(* retry is another request with the same key.  A request builds at most   *)
(* one payment and one ledger entry, so both are identified with it.       *)
(*                                                                         *)
(* An action is what runs from one await to the next: the code after the   *)
(* previous call returned, then the effect of the next call.  Any other    *)
(* request may run in between.  A call on a port in Unreliable may throw,  *)
(* before its effect ("refused") or after it ("lost"); the rail may answer *)
(* late, after the caller gave up; a process may crash between two steps.  *)
(* executePayment itself refuses a request whose accounts are not there,   *)
(* whether or not any port throws.                                         *)
(* The hash chain of the audit records is in AuditTrail, not here, and the *)
(* making of accounts in Ledger.                                           *)
(***************************************************************************)
EXTENDS Naturals

CONSTANTS
  Requests,     \* calls of executePayment
  Nodes,        \* API processes, each with its own IdempotencyService and QueueService
  Tenants,
  Keys,         \* idempotency keys
  Payloads,     \* what calculateRequestHash tells apart
  Commands,     \* the commands callers send
  Gate,         \* the decision of the validation gate on each payload
  Durable,      \* TRUE: Prisma repositories, shared; FALSE: the in-memory ones
  Unreliable,   \* ports whose calls may throw
  RailAnswers,  \* statuses the rail may answer with
  MaxCrashes,   \* bound: crashes in a behaviour
  NoKey, NoPayment, NoPayload

Ports == {"accounts", "payments", "ledger", "audit", "rail"}
Actions ==
  {"PAYMENT_FAILED_RULES", "PAYMENT_VALIDATED", "PAYMENT_COMMITTED", "PAYMENT_SETTLED"}
Decisions == {"ALLOW", "MANUAL_REVIEW", "DENY"}
CommandType == [tenant : Tenants, key : Keys \cup {NoKey}, payload : Payloads]
CallType == [tenant : Tenants, key : Keys \cup {NoKey}, payload : Payloads, node : Nodes]

ASSUME OrchestratorAssumption ==
  /\ Commands \subseteq CommandType
  /\ Gate \in [Payloads -> Decisions]
  /\ Durable \in BOOLEAN
  /\ Unreliable \subseteq Ports
  /\ RailAnswers \subseteq {"accepted", "rejected"}
  /\ MaxCrashes \in Nat
  /\ NoKey \notin Keys
  /\ Keys \cap Requests = {}
  /\ NoPayment \notin Requests
  /\ NoPayload \notin Payloads

\* The in-memory repositories belong to one process and never throw.
ASSUME InMemoryAssumption ==
  ~Durable => /\ \A m, n \in Nodes : m = n
              /\ Unreliable \cap {"accounts", "payments", "ledger", "audit"} = {}

VARIABLES
  cmd,      \* the command of each request and the process it reaches
  pc,       \* where its execution is
  idem,     \* idempotency records, by process, tenant and key
  opened,   \* payloads a payment can be built of: accounts found, source in the currency
  row,      \* stored state of each payment
  byKey,    \* the payment findByIdempotencyKey returns for a key
  entries,  \* payments whose transfer entry is in the ledger
  audit,    \* audit records <<payment, action>>
  rail,     \* what the rail has made of each payment's instruction
  jobs,     \* queued jobs <<queue, payment>>, in the memory of the payment's process
  reply,    \* payment returned to the caller
  crashes

store == <<opened, row, byKey, entries, audit>>
vars == <<cmd, pc, idem, store, rail, jobs, reply, crashes>>

---------------------------------------------------------------------------------
(* The payment's state machine. *)

Table == INSTANCE PaymentLifecycle WITH Payments <- Requests, state <- row

\* The state of the Payment object in hand: what was saved last, or a new payment.
Held(r) == IF row[r] = "absent" THEN "quoted" ELSE row[r]

---------------------------------------------------------------------------------
(* Where an execution can be. *)

\* Answered; refused by acquireLock or a failed look-up, before the try block; failed in it;
\* lost with its process.
Ended == {"done", "refused", "error", "crashed"}
Running ==
  {"lookup", "accounts", "decide", "auditFailed", "auditValidated", "review", "ledger",
   "commit", "auditCommitted", "submit", "rail", "auditSettled", "notify", "respond",
   "catch"}
Locations == {"new"} \cup Running \cup Ended

\* Past acquireLock, with the payment still to be made, to be answered or to fail.
InFlight == Running \ {"lookup"}

Keyed(r) == cmd[r].key # NoKey
Slot(r) == <<cmd[r].node, cmd[r].tenant, cmd[r].key>>
Decision(r) == Gate[cmd[r].payload]
Slots == Nodes \X Tenants \X Keys
Locks == [status : {"absent", "PROCESSING", "COMPLETED", "FAILED"},
          payload : Payloads \cup {NoPayload}]
Lock(s, p) == [status |-> s, payload |-> p]
Unlocked == Lock("absent", NoPayload)

At(r, s) == pc[r] = s
Goto(r, s) == pc' = [pc EXCEPT ![r] = s]

Init ==
  /\ cmd \in [Requests -> {[tenant |-> c.tenant, key |-> c.key, payload |-> c.payload,
                            node |-> n] : c \in Commands, n \in Nodes}]
  /\ pc = [r \in Requests |-> "new"]
  /\ idem = [s \in Slots |-> Unlocked]
  /\ opened = {}
  /\ row = [r \in Requests |-> "absent"]
  /\ byKey = [k \in Keys |-> NoPayment]
  /\ entries = {}
  /\ audit = {}
  /\ rail = [r \in Requests |-> "none"]
  /\ jobs = {}
  /\ reply = [r \in Requests |-> NoPayment]
  /\ crashes = 0

---------------------------------------------------------------------------------
(* Calls on ports: what may come of them, and where the execution goes next. *)

Outcomes(port) == {"ok"} \cup (IF port \in Unreliable THEN {"refused", "lost"} ELSE {})

Returns(r, o, next) == Goto(r, IF o = "ok" THEN next ELSE "catch")

\* Mutants: no unique index, and one on the tenant and the key.
AcceptedAnyKey(r) == TRUE
AcceptedPerTenant(r) ==
  \A s \in Requests \ {r} :
    row[s] # "absent" /\ cmd[s].key = cmd[r].key => cmd[s].tenant # cmd[r].tenant

\* payments.idempotency_key is unique in the database; the in-memory map has no such rule.
Accepted(r) ==
  \/ ~Durable
  \/ row[r] # "absent"
  \/ ~Keyed(r)
  \/ byKey[cmd[r].key] = NoPayment

\* assertTransition; a payment on its way to settled is made submitted first.
Legal(r, to) ==
  IF to = "settled"
    THEN Table!CanTransition(Held(r), "submitted") /\ Table!CanTransition("submitted", to)
    ELSE Table!CanTransition(Held(r), to)

\* Mutant: a save that throws is ignored.
SaveBestEffort(r, to, next) ==
  /\ row' = IF Accepted(r) THEN [row EXCEPT ![r] = to] ELSE row
  /\ byKey' = IF Keyed(r) /\ byKey[cmd[r].key] = NoPayment
                THEN [byKey EXCEPT ![cmd[r].key] = r]
                ELSE byKey
  /\ Goto(r, next)
  /\ UNCHANGED <<cmd, idem, opened, entries, audit, rail, jobs, reply, crashes>>

\* transitionTo, then paymentRepo.save.
Save(r, to, next) ==
  \E o \in IF Legal(r, to) /\ Accepted(r) THEN Outcomes("payments") ELSE {"refused"} :
    /\ IF o = "refused"
         THEN UNCHANGED <<row, byKey>>
         ELSE /\ row' = [row EXCEPT ![r] = to]
              /\ byKey' = IF Keyed(r) /\ byKey[cmd[r].key] = NoPayment
                            THEN [byKey EXCEPT ![cmd[r].key] = r]
                            ELSE byKey
    /\ Returns(r, o, next)
    /\ UNCHANGED <<cmd, idem, opened, entries, audit, rail, jobs, reply, crashes>>

\* Mutant: the audit log is written if it happens to be reachable.
RecordBestEffort(r, action, next) ==
  /\ \E o \in Outcomes("audit") :
       audit' = IF o = "refused" THEN audit ELSE audit \cup {<<r, action>>}
  /\ Goto(r, next)
  /\ UNCHANGED <<cmd, idem, opened, row, byKey, entries, rail, jobs, reply, crashes>>

\* recordAudit: its read of the latest record and its append.
Record(r, action, next) ==
  \E o \in Outcomes("audit") :
    /\ audit' = IF o = "refused" THEN audit ELSE audit \cup {<<r, action>>}
    /\ Returns(r, o, next)
    /\ UNCHANGED <<cmd, idem, opened, row, byKey, entries, rail, jobs, reply, crashes>>

\* queueService.addJob: a push onto an array of this process.
Enqueue(r, queue, next) ==
  /\ jobs' = jobs \cup {<<queue, r>>}
  /\ Goto(r, next)
  /\ UNCHANGED <<cmd, idem, store, rail, reply, crashes>>

---------------------------------------------------------------------------------
(* The idempotency service.                                                 *)

\* Mutants: a call in PROCESSING is joined; an earlier record is replaced by a new one.
acquireLockFree(r) ==
  LET held == idem[Slot(r)]
  IN  IF held.payload \in {NoPayload, cmd[r].payload}
        THEN /\ idem' = [idem EXCEPT ![Slot(r)] = Lock("PROCESSING", cmd[r].payload)]
             /\ Goto(r, IF held.status = "COMPLETED" THEN "lookup" ELSE "accounts")
        ELSE Goto(r, "refused") /\ UNCHANGED idem
acquireLockFresh(r) ==
  IF idem[Slot(r)].status = "PROCESSING"
    THEN Goto(r, "refused") /\ UNCHANGED idem
    ELSE /\ idem' = [idem EXCEPT ![Slot(r)] = Lock("PROCESSING", cmd[r].payload)]
         /\ Goto(r, "accounts")

\* A record of another payload, or one in PROCESSING, makes acquireLock throw before the
\* try block; a FAILED record lets the caller through and stays FAILED.
acquireLock(r) ==
  LET held == idem[Slot(r)]
  IN  \/ /\ held = Unlocked
         /\ idem' = [idem EXCEPT ![Slot(r)] = Lock("PROCESSING", cmd[r].payload)]
         /\ Goto(r, "accounts")
      \/ /\ held # Unlocked
         /\ held.payload # cmd[r].payload \/ held.status = "PROCESSING"
         /\ Goto(r, "refused")
         /\ UNCHANGED idem
      \/ /\ held.payload = cmd[r].payload
         /\ held.status \in {"COMPLETED", "FAILED"}
         /\ Goto(r, IF held.status = "COMPLETED" THEN "lookup" ELSE "accounts")
         /\ UNCHANGED idem

\* saveResponse and markFailed: whatever the record's status was.
SetStatus(r, s) ==
  idem' = IF Keyed(r) /\ idem[Slot(r)] # Unlocked
            THEN [idem EXCEPT ![Slot(r)] = Lock(s, @.payload)]
            ELSE idem

---------------------------------------------------------------------------------
(* The steps of executePayment.                                             *)

Begin(r) ==
  /\ At(r, "new")
  /\ IF Keyed(r)
       THEN acquireLock(r)
       ELSE Goto(r, "accounts") /\ UNCHANGED idem
  /\ UNCHANGED <<cmd, store, rail, jobs, reply, crashes>>

\* findByIdempotencyKey, by key alone, and outside the try block.
LookupCached(r) ==
  /\ At(r, "lookup")
  /\ \E o \in Outcomes("payments") :
       IF o = "ok"
         THEN /\ reply' = [reply EXCEPT ![r] = byKey[cmd[r].key]]
              /\ Goto(r, IF byKey[cmd[r].key] = NoPayment THEN "accounts" ELSE "done")
         ELSE /\ Goto(r, "refused")
              /\ UNCHANGED reply
  /\ UNCHANGED <<cmd, idem, store, rail, jobs, crashes>>

\* Both accounts are found, the source may transact and the amount is positive, so that the
\* payment is built quoted; or executePayment refuses, with its lock held.
CheckAccounts(r) ==
  /\ At(r, "accounts")
  /\ \E o \in IF cmd[r].payload \in opened THEN Outcomes("accounts") ELSE {"refused"} :
       Returns(r, o, "decide")
  /\ UNCHANGED <<cmd, idem, store, rail, jobs, reply, crashes>>

\* Mutant: what has been denied is answered without being stored.
SaveDeniedNowhere(r) ==
  /\ At(r, "decide")
  /\ Decision(r) = "DENY"
  /\ Goto(r, "respond")
  /\ UNCHANGED <<cmd, idem, store, rail, jobs, reply, crashes>>

SaveDenied(r) ==
  /\ At(r, "decide")
  /\ Decision(r) = "DENY"
  /\ Save(r, "failed", "auditFailed")

\* Mutant: an action no reader of the log knows.
AuditRejected(r) == At(r, "auditFailed") /\ Record(r, "PAYMENT_REJECTED", "respond")

AuditFailed(r) == At(r, "auditFailed") /\ Record(r, "PAYMENT_FAILED_RULES", "respond")

SaveValidated(r) ==
  /\ At(r, "decide")
  /\ Decision(r) # "DENY"
  /\ Save(r, "validated", "auditValidated")

\* Mutant: the gate's wish for a review is forgotten.
AuditValidatedUnreviewed(r) ==
  At(r, "auditValidated") /\ Record(r, "PAYMENT_VALIDATED", "ledger")

AuditValidated(r) ==
  /\ At(r, "auditValidated")
  /\ Record(r, "PAYMENT_VALIDATED",
            IF Decision(r) = "MANUAL_REVIEW" THEN "review" ELSE "ledger")

EnqueueReview(r) == At(r, "review") /\ Enqueue(r, "compliance-review-queue", "respond")

\* Mutant: the payout goes out before the payment is linked to its entry.
SaveEntryUnlinked(r) ==
  /\ At(r, "ledger")
  /\ \E o \in Outcomes("ledger") :
       /\ entries' = IF o = "refused" THEN entries ELSE entries \cup {r}
       /\ Returns(r, o, "submit")
  /\ UNCHANGED <<cmd, idem, opened, row, byKey, audit, rail, jobs, reply, crashes>>

\* ledgerRepo.saveEntry; the entry's id was drawn by this execution.
SaveEntry(r) ==
  /\ At(r, "ledger")
  /\ \E o \in Outcomes("ledger") :
       /\ entries' = IF o = "refused" THEN entries ELSE entries \cup {r}
       /\ Returns(r, o, "commit")
  /\ UNCHANGED <<cmd, idem, opened, row, byKey, audit, rail, jobs, reply, crashes>>

\* Mutant: the audit record of the commitment is left out.
SaveCommittedUnaudited(r) == At(r, "commit") /\ Save(r, "committed", "submit")

SaveCommitted(r) == At(r, "commit") /\ Save(r, "committed", "auditCommitted")

AuditCommitted(r) == At(r, "auditCommitted") /\ Record(r, "PAYMENT_COMMITTED", "submit")

SubmitPayout(r) ==
  /\ At(r, "submit")
  /\ rail' = [rail EXCEPT ![r] = "sent"]
  /\ Goto(r, "rail")
  /\ UNCHANGED <<cmd, idem, store, jobs, reply, crashes>>

\* The rail makes up its mind, whether or not anyone still waits for its answer.
RailDecides(r) ==
  /\ rail[r] = "sent"
  /\ \E a \in RailAnswers : rail' = [rail EXCEPT ![r] = a]
  /\ UNCHANGED <<cmd, pc, idem, store, jobs, reply, crashes>>

\* submitPayout throws: the network or the adapter gives up, decided or not.
RailFails(r) ==
  /\ At(r, "rail")
  /\ "rail" \in Unreliable
  /\ Goto(r, "catch")
  /\ UNCHANGED <<cmd, idem, store, rail, jobs, reply, crashes>>

\* Mutants: the rail's answer is not waited for; only a good one is heard.
SaveSettledEarly(r) ==
  At(r, "rail") /\ rail[r] # "none" /\ Save(r, "settled", "auditSettled")
SaveSettledAccepted(r) ==
  At(r, "rail") /\ rail[r] = "accepted" /\ Save(r, "settled", "auditSettled")

\* The answer's status is not looked at.
SaveSettled(r) ==
  /\ At(r, "rail")
  /\ rail[r] \in {"accepted", "rejected"}
  /\ Save(r, "settled", "auditSettled")

AuditSettled(r) == At(r, "auditSettled") /\ Record(r, "PAYMENT_SETTLED", "notify")

Notify(r) == At(r, "notify") /\ Enqueue(r, "webhook-queue", "respond")

\* saveResponse, and the payment goes back to the caller.
Respond(r) ==
  /\ At(r, "respond")
  /\ SetStatus(r, "COMPLETED")
  /\ reply' = [reply EXCEPT ![r] = r]
  /\ Goto(r, "done")
  /\ UNCHANGED <<cmd, store, rail, jobs, crashes>>

\* Mutants of the catch block: it stores the payment as failed, wherever it was; it
\* leaves the record alone.
CatchMarksPayment(r) ==
  /\ At(r, "catch")
  /\ SetStatus(r, "FAILED")
  /\ row' = [row EXCEPT ![r] = IF @ = "absent" THEN @ ELSE "failed"]
  /\ Goto(r, "error")
  /\ UNCHANGED <<cmd, opened, byKey, entries, audit, rail, jobs, reply, crashes>>
CatchForgets(r) ==
  At(r, "catch") /\ Goto(r, "error") /\ UNCHANGED <<cmd, idem, store, rail, jobs, reply, crashes>>

\* The catch block: markFailed, and the error goes on to the caller.
Catch(r) ==
  /\ At(r, "catch")
  /\ SetStatus(r, "FAILED")
  /\ Goto(r, "error")
  /\ UNCHANGED <<cmd, store, rail, jobs, reply, crashes>>

Step(r) ==
  \/ LookupCached(r) \/ CheckAccounts(r)
  \/ SaveDenied(r) \/ AuditFailed(r)
  \/ SaveValidated(r) \/ AuditValidated(r) \/ EnqueueReview(r)
  \/ SaveEntry(r) \/ SaveCommitted(r) \/ AuditCommitted(r)
  \/ SubmitPayout(r) \/ RailFails(r) \/ SaveSettled(r) \/ AuditSettled(r) \/ Notify(r)
  \/ Respond(r) \/ Catch(r)

\* The last account a payload lacked is created, as far as a request may still ask for it.  A
\* payload whose amount is not positive or whose source is in another currency never gets here.
OpenAccounts(p) ==
  /\ p \in Payloads \ opened
  /\ \E r \in Requests : cmd[r].payload = p /\ pc[r] \in {"new", "lookup", "accounts"}
  /\ opened' = opened \cup {p}
  /\ UNCHANGED <<cmd, pc, idem, row, byKey, entries, audit, rail, jobs, reply, crashes>>

\* A process dies and comes back empty: its executions, locks and jobs are gone, and the
\* in-memory repositories with them.
Crash(n) ==
  /\ crashes < MaxCrashes
  /\ crashes' = crashes + 1
  /\ pc' = [r \in Requests |->
              IF cmd[r].node = n /\ pc[r] \in Running THEN "crashed" ELSE pc[r]]
  /\ idem' = [s \in Slots |-> IF s[1] = n THEN Unlocked ELSE idem[s]]
  /\ jobs' = {j \in jobs : cmd[j[2]].node # n}
  /\ IF Durable
       THEN UNCHANGED store
       ELSE /\ opened' = {}
            /\ row' = [r \in Requests |-> "absent"]
            /\ byKey' = [k \in Keys |-> NoPayment]
            /\ entries' = {}
            /\ audit' = {}
  /\ UNCHANGED <<cmd, rail, reply>>

\* Every request has been answered or lost, and the rail has made up its mind.
Finished ==
  /\ \A r \in Requests : pc[r] \in Ended /\ rail[r] # "sent"
  /\ UNCHANGED vars

Next ==
  \/ \E r \in Requests : Begin(r) \/ Step(r) \/ RailDecides(r)
  \/ \E p \in Payloads : OpenAccounts(p)
  \/ \E n \in Nodes : Crash(n)
  \/ Finished

Spec == Init /\ [][Next]_vars

\* A call that was started goes on; nobody has to start one, and nothing has to crash.
Fairness == \A r \in Requests : WF_vars(Step(r))

\* The rail makes up its mind about every instruction.
RailIsFair == \A r \in Requests : WF_vars(RailDecides(r))

FairSpec == Spec /\ Fairness /\ RailIsFair

---------------------------------------------------------------------------------
(* Properties. *)

TypeOK ==
  /\ cmd \in [Requests -> CallType]
  /\ pc \in [Requests -> Locations]
  /\ idem \in [Slots -> Locks]
  /\ opened \subseteq Payloads
  /\ row \in [Requests -> {"absent"} \cup Table!PaymentState]
  /\ byKey \in [Keys -> Requests \cup {NoPayment}]
  /\ entries \subseteq Requests
  /\ audit \subseteq Requests \X Actions
  /\ rail \in [Requests -> {"none", "sent", "accepted", "rejected"}]
  /\ jobs \subseteq {"compliance-review-queue", "webhook-queue"} \X Requests
  /\ reply \in [Requests -> Requests \cup {NoPayment}]
  /\ crashes \in 0 .. MaxCrashes

\* The operation a request stands for: its tenant's key, or the request alone.
SameOperation(r, s) ==
  \/ r = s
  \/ Keyed(r) /\ cmd[r].key = cmd[s].key /\ cmd[r].tenant = cmd[s].tenant

\* Two payments for one key of one tenant never both reach the ledger, whatever is retried,
\* lost or crashed between the lock, the payment row and the entry (executePayment).
AtMostOneEntryPerKey ==
  \A r, s \in entries : SameOperation(r, s) => r = s

\* Nor are two payouts for one key both sent to the rail.
AtMostOnePayoutPerKey ==
  \A r, s \in Requests :
    rail[r] # "none" /\ rail[s] # "none" /\ SameOperation(r, s) => r = s

\* A record in PROCESSING is held by exactly one execution, so that it neither lets a duplicate
\* in nor turns callers away with nobody at work; without a record nobody is (acquireLock,
\* saveResponse, markFailed).
SingleFlight ==
  \A s \in Slots :
    LET holders == {r \in Requests : Keyed(r) /\ Slot(r) = s /\ pc[r] \in InFlight}
    IN  /\ idem[s].status = "PROCESSING" => \E r \in holders : holders = {r}
        /\ idem[s].status = "absent" => holders = {}

\* A request that is past acquireLock, or has stored its payment.
Owns(r) == pc[r] \in InFlight \/ row[r] # "absent"

\* In the memory of one process: as long as no request for an operation has failed, there is
\* one execution of it and one payment at most, whatever is sent, refused or replayed.
OneUntilFailure ==
  \A r, s \in Requests :
    SameOperation(r, s) /\ Owns(r) /\ Owns(s)
      => r = s \/ \E q \in Requests : SameOperation(q, r) /\ pc[q] = "error"

\* A completed record leads to a payment, so that the request it sends to look one up is not
\* executed for want of one (the if in front of the cached response).
ReplaysAreAnswered ==
  /\ \A s \in Slots : idem[s].status = "COMPLETED" => byKey[s[3]] # NoPayment
  /\ \A r \in Requests : pc[r] = "lookup" => byKey[cmd[r].key] # NoPayment

\* What the architecture decision says of identical requests: once one has been answered, its key
\* stays completed, and so leads every later one to the cached response.
AnswersAreKept ==
  \A r \in Requests :
    Keyed(r) /\ reply[r] # NoPayment => idem[Slot(r)].status = "COMPLETED"

\* A replayed answer is one the same operation was given before (findByIdempotencyKey).
ReplayMatchesResponse ==
  \A r \in Requests :
    reply[r] # NoPayment =>
      SameOperation(r, reply[r]) /\ reply[reply[r]] = reply[r]

\* The rail hears only of payments that are booked, linked to their entry and audited as
\* committed (steps 5 and 6 of executePayment).
PayoutIsCovered ==
  \A r \in Requests :
    rail[r] # "none" =>
      /\ r \in entries
      /\ row[r] \in {"committed", "settled"}
      /\ <<r, "PAYMENT_COMMITTED">> \in audit

\* No audit record tells of something that has not been stored (recordAudit).
AuditTellsTheTruth ==
  \A r \in Requests :
    /\ <<r, "PAYMENT_FAILED_RULES">> \in audit => row[r] = "failed" /\ r \notin entries
    /\ <<r, "PAYMENT_VALIDATED">> \in audit => row[r] \in {"validated", "committed", "settled"}
    /\ <<r, "PAYMENT_COMMITTED">> \in audit => r \in entries /\ row[r] \in {"committed", "settled"}
    /\ <<r, "PAYMENT_SETTLED">> \in audit =>
         row[r] = "settled" /\ rail[r] \in {"accepted", "rejected"}

\* A payment a caller has been given has left its whole trail in the audit log.
FullTrail(p) ==
  \/ row[p] = "failed" /\ <<p, "PAYMENT_FAILED_RULES">> \in audit
  \/ row[p] = "validated" /\ <<p, "PAYMENT_VALIDATED">> \in audit
  \/ /\ row[p] = "settled"
     /\ {<<p, "PAYMENT_VALIDATED">>, <<p, "PAYMENT_COMMITTED">>, <<p, "PAYMENT_SETTLED">>}
          \subseteq audit

AnswerIsAudited == \A r \in Requests : reply[r] # NoPayment => FullTrail(reply[r])

\* An entry no stored payment points at is never silent: its execution is still under way,
\* or its caller saw an error, or the process died (saveEntry, then save).
UnlinkedEntryIsReported ==
  \A r \in entries :
    row[r] \notin {"committed", "settled"} => pc[r] \in {"commit", "catch", "error", "crashed"}

\* Only payments the gate allowed reach the ledger or the rail.
OnlyAllowedMoves ==
  \A r \in Requests : r \in entries \/ rail[r] # "none" => Decision(r) = "ALLOW"

\* Stored payments follow the domain's table.
StaysInLifecycle == Table!Spec

\* What callers are promised about a key.
OperationOf(r) == IF Keyed(r) THEN cmd[r].key ELSE r
Debits == {<<OperationOf(r), r>> : r \in entries}
Instructed == {r \in Requests : rail[r] # "none"}
Answers == {<<OperationOf(r), reply[r]>> : r \in {q \in Requests : reply[q] # NoPayment}}

Promise ==
  INSTANCE PayOnce WITH
    Operations <- Keys \cup Requests,
    Payments <- Requests,
    debits <- Debits,
    instructed <- Instructed,
    answers <- Answers

PaysOnce == Promise!Spec

---------------------------------------------------------------------------------
(* Inductive strengthening of the safety properties. *)

\* What has been done for a payment can be read off its row and the place its execution has
\* reached: the order of the calls of executePayment, whatever throws or dies in between.
StageOf(r) ==
  /\ row[r] \in {"absent", "failed", "validated", "committed", "settled"}
  /\ pc[r] \in {"new", "lookup", "accounts", "decide"} => row[r] = "absent"
  /\ pc[r] = "auditFailed" => row[r] = "failed"
  /\ pc[r] \in {"auditValidated", "review", "ledger", "commit"} => row[r] = "validated"
  /\ pc[r] \in {"auditCommitted", "submit", "rail"} => row[r] = "committed"
  /\ pc[r] \in {"auditSettled", "notify"} => row[r] = "settled"
  /\ pc[r] = "respond" => row[r] \in {"failed", "validated", "settled"}
  /\ row[r] \in {"committed", "settled"} \/ pc[r] = "commit" => r \in entries
  /\ r \in entries => row[r] \in {"validated", "committed", "settled"}
  /\ pc[r] \in {"auditValidated", "review", "ledger"} => r \notin entries
  /\ rail[r] # "none" \/ pc[r] = "rail" => row[r] \in {"committed", "settled"}
  /\ rail[r] # "none" \/ pc[r] = "submit" => <<r, "PAYMENT_COMMITTED">> \in audit
  /\ row[r] = "settled" => rail[r] \in {"accepted", "rejected"}
  /\ row[r] = "validated" => Decision(r) # "DENY"
  /\ pc[r] \in {"ledger", "commit", "auditCommitted", "submit", "rail", "auditSettled",
                "notify"} \/ row[r] \in {"committed", "settled"} \/ r \in entries
       => Decision(r) = "ALLOW"

Stages == \A r \in Requests : StageOf(r)

\* A key leads to a stored payment that has that key.
KeysLeadToRows ==
  \A k \in Keys :
    byKey[k] # NoPayment => cmd[byKey[k]].key = k /\ row[byKey[k]] # "absent"

\* The unique index: a stored payment with a key is the one the key leads to.
RowsOwnTheirKeys ==
  \A r \in Requests : row[r] # "absent" /\ Keyed(r) => byKey[cmd[r].key] = r

\* Stored payments and keys lead to each other: what idempotency_key @unique and the upsert
\* of paymentRepo.save keep true of the table.
UniqueIndex == KeysLeadToRows /\ RowsOwnTheirKeys

\* A completed record, and a lookup it sent a request to, lead to an answered payment of the
\* same tenant.
RecordsLeadToAnswers ==
  /\ \A s \in Slots :
       idem[s].status = "COMPLETED" =>
         LET p == byKey[s[3]]
         IN  p \in Requests /\ cmd[p].key = s[3] /\ cmd[p].tenant = s[2] /\ reply[p] = p
  /\ \A r \in Requests :
       pc[r] = "lookup" =>
         LET p == byKey[cmd[r].key]
         IN  p \in Requests /\ SameOperation(r, p) /\ reply[p] = p

---------------------------------------------------------------------------------
(* Liveness. *)

\* Every call that starts comes to an end.
EveryCallEnds == \A r \in Requests : pc[r] \in Running ~> pc[r] \in Ended

\* No lock is held for ever.
LocksAreReleased ==
  \A s \in Slots :
    idem[s].status = "PROCESSING" ~> idem[s].status # "PROCESSING"
==================================================================================
