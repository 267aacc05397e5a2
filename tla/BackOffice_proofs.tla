----------------------------- MODULE BackOffice_proofs -----------------------------
(***************************************************************************)
(* Proofs that, for any tenants, keys, bodies and outcomes and any number   *)
(* of clients' requests, a refused one has done nothing, and a key is      *)
(* answered as done exactly when its one payment is there.  What the       *)
(* invariant adds is that no payment or decision is of a request still to  *)
(* come, so that the next answer cannot be about what is there already.    *)
(* And that the counters of a tenant count its requests by their outcome;  *)
(* and that a dashboard that has heard of all it asked for is current.     *)
(***************************************************************************)
EXTENDS BackOffice, FiniteSetTheorems, SequenceTheorems, FunctionTheorems, TLAPS

USE BackOfficeAssumption DEF BackOfficeAssumption

IsSeq(s) == \E S : s \in Seq(S)

LockStatus == {"absent", "FAILED", "COMPLETED"}
LockType == [status : LockStatus, body : Bodies \cup {"none"}]

\* The n-th payment is the tenant's and made under the key.
Made(n, t, k) == pays[n].tenant = t /\ pays[n].key = k

\* What the record of a key says of the tenant's payments under it.
LockIsTrue(t, k) ==
  IF locks[<<t, k>>].status = "COMPLETED"
  THEN \E n \in DOMAIN pays :
         /\ Made(n, t, k) /\ pays[n].body = locks[<<t, k>>].body
         /\ \A m \in DOMAIN pays \ {n} : ~Made(m, t, k)
  ELSE \A n \in DOMAIN pays : ~Made(n, t, k)

\* The i-th request, if it was refused, has made no payment and no decision.
NothingBy(i) ==
  log[i].status \in Refusals => theCase.by # i /\ \A j \in DOMAIN pays : pays[j].by # i

Inv ==
  /\ IsSeq(log) /\ IsSeq(pays)
  /\ locks \in [Tenants \X Keys -> LockType]
  /\ theCase.by \in 0 .. Len(log)
  /\ \A j \in DOMAIN pays : pays[j].by \in 1 .. Len(log)
  /\ \A i \in DOMAIN log : NothingBy(i)
  /\ \A t \in Tenants, k \in Keys : LockIsTrue(t, k)

\* Appending to a sequence of whatever elements.
LEMMA Appending ==
  ASSUME NEW s, NEW e, IsSeq(s)
  PROVE  /\ IsSeq(Append(s, e))
         /\ Len(s) \in Nat /\ DOMAIN s = 1 .. Len(s)
         /\ Len(Append(s, e)) = Len(s) + 1 /\ DOMAIN Append(s, e) = 1 .. (Len(s) + 1)
         /\ \A i \in 1 .. Len(s) : Append(s, e)[i] = s[i]
         /\ Append(s, e)[Len(s) + 1] = e
<1>1. PICK S : s \in Seq(S)
  BY DEF IsSeq
<1> DEFINE T == S \cup {e}
<1>2. e \in T /\ s \in Seq(T)
  BY <1>1
<1> HIDE DEF T
<1>3. Append(s, e) \in Seq(T)
  BY <1>2
<1> QED BY <1>2, <1>3 DEF IsSeq

\* Nothing has been asked at first.
LEMMA InitInv == Init => Inv
<1> SUFFICES ASSUME Init PROVE Inv
  OBVIOUS
<1>1. log = <<>> /\ pays = <<>> /\ theCase.by = 0
  BY DEF Init
<1>2. <<>> \in Seq({})
  OBVIOUS
<1>3. IsSeq(log) /\ IsSeq(pays) /\ Len(log) = 0 /\ DOMAIN log = {} /\ DOMAIN pays = {}
  BY <1>1, <1>2 DEF IsSeq
<1>4. locks = [s \in Tenants \X Keys |-> Unlocked] /\ Unlocked \in LockType
  BY DEF Init, Unlocked, LockType, LockStatus
<1>5. \A t \in Tenants, k \in Keys : LockIsTrue(t, k)
  BY <1>3, <1>4 DEF LockIsTrue, Unlocked
<1> QED BY <1>1, <1>3, <1>4, <1>5 DEF Inv

\* A step that makes no payment and answers no client, but may bring a decision of the dashboard.
LEMMA SilentStep ==
  ASSUME Inv, UNCHANGED <<log, pays, locks>>, theCase' = theCase \/ theCase'.by = 0
  PROVE  Inv'
<1>1. Len(log) \in Nat /\ DOMAIN log = 1 .. Len(log)
  BY Appending DEF Inv
<1>2. theCase'.by \in 0 .. Len(log)
  BY <1>1 DEF Inv
<1>3. ASSUME NEW i \in DOMAIN log PROVE NothingBy(i)'
  BY <1>1, <1>3 DEF Inv, NothingBy
<1>4. ASSUME NEW t \in Tenants, NEW k \in Keys PROVE LockIsTrue(t, k)'
  BY <1>4 DEF Inv, LockIsTrue, Made
<1> QED BY <1>2, <1>3, <1>4 DEF Inv, IsSeq

\* A client is answered, and there is no payment more; what it decided it was not refused.
LEMMA AnswerStep ==
  ASSUME Inv, NEW e, log' = Append(log, e), UNCHANGED <<pays, locks>>,
         theCase' = theCase \/ (theCase'.by = Len(log) + 1 /\ e.status \notin Refusals)
  PROVE  Inv'
<1>1. /\ IsSeq(log') /\ Len(log) \in Nat /\ DOMAIN log = 1 .. Len(log)
      /\ Len(log') = Len(log) + 1 /\ DOMAIN log' = 1 .. (Len(log) + 1)
      /\ \A i \in 1 .. Len(log) : log'[i] = log[i]
      /\ log'[Len(log) + 1] = e
  BY Appending DEF Inv
<1>2. theCase'.by \in 0 .. Len(log')
  BY <1>1 DEF Inv
<1>3. ASSUME NEW j \in DOMAIN pays PROVE pays[j].by \in 1 .. Len(log)
  BY <1>3 DEF Inv
<1>4. ASSUME NEW i \in DOMAIN log' PROVE NothingBy(i)'
  <2>1. CASE i = Len(log) + 1
    <3>1. \A j \in DOMAIN pays : pays[j].by # i
      BY <1>1, <1>3, <2>1
    <3>2. theCase' = theCase => theCase'.by # i
      BY <1>1, <2>1 DEF Inv
    <3> QED BY <1>1, <2>1, <3>1, <3>2 DEF NothingBy
  <2>2. CASE i \in 1 .. Len(log)
    <3>1. NothingBy(i) /\ log'[i] = log[i]
      BY <1>1, <2>2 DEF Inv
    <3>2. theCase'.by = theCase.by \/ theCase'.by # i
      BY <1>1, <2>2
    <3> QED BY <3>1, <3>2 DEF NothingBy
  <2> QED BY <1>1, <1>4, <2>1, <2>2
<1>5. ASSUME NEW t \in Tenants, NEW k \in Keys PROVE LockIsTrue(t, k)'
  BY <1>5 DEF Inv, LockIsTrue, Made
<1>6. \A j \in DOMAIN pays' : pays'[j].by \in 1 .. Len(log')
  BY <1>1, <1>3
<1> QED BY <1>1, <1>2, <1>4, <1>5, <1>6 DEF Inv, IsSeq

\* The lock of a key that is free: an execution ends with its one payment, or with none.
LEMMA ExecuteStep ==
  ASSUME Inv, NEW t \in Tenants, NEW k \in Keys, NEW body \in WellFormed,
         locks[<<t, k>>].status # "COMPLETED", Execute(t, k, body), UNCHANGED theCase
  PROVE  Inv'
<1> DEFINE payment ==
             [by |-> Here, tenant |-> t, key |-> k, body |-> body, state |-> Outcome[body]]
<1>0. /\ locks \in [Tenants \X Keys -> LockType] /\ <<t, k>> \in Tenants \X Keys
      /\ \A n \in DOMAIN pays : ~Made(n, t, k)
      /\ Len(log) \in Nat /\ Len(pays) \in Nat
      /\ DOMAIN log = 1 .. Len(log) /\ DOMAIN pays = 1 .. Len(pays)
  BY Appending DEF Inv, LockIsTrue
<1>1. PICK e : log' = Append(log, e)
  BY DEF Execute, Refuse, Logged
<1>2. /\ IsSeq(log') /\ Len(log') = Len(log) + 1 /\ DOMAIN log' = 1 .. (Len(log) + 1)
      /\ \A i \in 1 .. Len(log) : log'[i] = log[i]
      /\ log'[Len(log) + 1] = e
  BY <1>1, Appending DEF Inv
<1>3. \A j \in DOMAIN pays : pays[j].by \in 1 .. Len(log)
  BY DEF Inv
<1>4. CASE Outcome[body] \in Refusals
  <2>1. pays' = pays
    <3> HIDE DEF Refusals
    <3> QED BY <1>4 DEF Execute
  <2>2. locks' = [locks EXCEPT ![<<t, k>>] = [status |-> "FAILED", body |-> body]]
    <3> HIDE DEF Refusals
    <3> QED BY <1>4 DEF Execute
  <2>3. locks' \in [Tenants \X Keys -> LockType]
    BY <1>0, <2>2 DEF LockType, LockStatus
  <2>4. ASSUME NEW i \in DOMAIN log' PROVE NothingBy(i)'
    <3>1. CASE i = Len(log) + 1
      BY <1>0, <1>3, <2>1, <3>1 DEF Inv, NothingBy
    <3>2. CASE i \in 1 .. Len(log)
      BY <1>0, <1>2, <2>1, <3>2 DEF Inv, NothingBy
    <3> QED BY <1>0, <1>2, <2>4, <3>1, <3>2
  <2>5. ASSUME NEW u \in Tenants, NEW l \in Keys PROVE LockIsTrue(u, l)'
    <3>1. LockIsTrue(u, l) /\ <<u, l>> \in Tenants \X Keys
      BY <2>5 DEF Inv
    <3>2. CASE <<u, l>> = <<t, k>>
      <4>1. locks'[<<u, l>>].status = "FAILED"
        BY <1>0, <2>2, <3>2
      <4> QED BY <1>0, <2>1, <3>2, <4>1 DEF LockIsTrue, Made
    <3>3. CASE <<u, l>> # <<t, k>>
      <4>1. locks'[<<u, l>>] = locks[<<u, l>>]
        BY <1>0, <2>2, <3>1, <3>3
      <4> QED BY <2>1, <3>1, <4>1 DEF LockIsTrue, Made
    <3> QED BY <3>2, <3>3
  <2>6. theCase'.by \in 0 .. Len(log') /\ \A j \in DOMAIN pays' : pays'[j].by \in 1 .. Len(log')
    BY <1>0, <1>2, <1>3, <2>1 DEF Inv
  <2> QED BY <1>2, <2>1, <2>3, <2>4, <2>5, <2>6 DEF Inv, IsSeq
<1>5. CASE Outcome[body] \notin Refusals
  <2>1. pays' = Append(pays, payment)
    BY <1>5 DEF Execute
  <2>2. locks' = [locks EXCEPT ![<<t, k>>] = [status |-> "COMPLETED", body |-> body]]
    BY <1>5 DEF Execute
  <2>3. locks' \in [Tenants \X Keys -> LockType]
    BY <1>0, <2>2 DEF LockType, LockStatus
  <2>4. e.status = "201"
    <3>1. Logged("201", t, Len(pays'), FALSE)
      BY <1>5 DEF Execute
    <3>2. log'[Len(log) + 1].status = "201"
      BY <3>1, Appending DEF Logged, Inv
    <3> QED BY <1>2, <3>2
  <2>5. /\ payment.by = Len(log) + 1 /\ payment.tenant = t /\ payment.key = k
        /\ payment.body = body
    BY DEF Here
  <2> HIDE DEF payment
  <2>6. /\ IsSeq(pays') /\ DOMAIN pays' = 1 .. (Len(pays) + 1)
        /\ \A i \in 1 .. Len(pays) : pays'[i] = pays[i]
        /\ pays'[Len(pays) + 1] = payment
    BY <2>1, Appending DEF Inv
  <2>7. \A j \in DOMAIN pays' :
          \/ j \in DOMAIN pays /\ pays'[j] = pays[j]
          \/ j = Len(pays) + 1 /\ pays'[j] = payment
    BY <1>0, <2>6
  <2>8. ASSUME NEW i \in DOMAIN log' PROVE NothingBy(i)'
    <3>1. CASE i = Len(log) + 1
      BY <1>2, <2>4, <3>1 DEF NothingBy, Refusals, Results
    <3>2. CASE i \in 1 .. Len(log)
      <4>1. NothingBy(i) /\ payment.by # i
        BY <1>0, <2>5, <3>2 DEF Inv
      <4> QED BY <1>2, <2>7, <3>2, <4>1 DEF NothingBy
    <3> QED BY <1>0, <1>2, <2>8, <3>1, <3>2
  <2>9. ASSUME NEW u \in Tenants, NEW l \in Keys PROVE LockIsTrue(u, l)'
    <3>1. LockIsTrue(u, l) /\ <<u, l>> \in Tenants \X Keys
      BY <2>9 DEF Inv
    <3>2. CASE u = t /\ l = k
      <4>1. locks'[<<u, l>>] = [status |-> "COMPLETED", body |-> body]
        BY <1>0, <2>2, <3>2
      <4>2. \A m \in DOMAIN pays' \ {Len(pays) + 1} : ~Made(m, t, k)'
        BY <1>0, <2>7 DEF Made
      <4>3. PICK last : last = Len(pays) + 1
        OBVIOUS
      <4>4. last \in DOMAIN pays' /\ pays'[last] = payment
        BY <1>0, <2>6, <4>3
      <4>5. Made(last, t, k)' /\ pays'[last].body = body
        BY <2>5, <4>4 DEF Made
      <4>6. \A m \in DOMAIN pays' \ {last} : ~Made(m, t, k)'
        BY <4>2, <4>3
      <4>7. locks'[<<t, k>>].status = "COMPLETED" /\ locks'[<<t, k>>].body = body
        BY <3>2, <4>1
      <4> QED BY <3>2, <4>4, <4>5, <4>6, <4>7 DEF LockIsTrue
    <3>3. CASE ~(u = t /\ l = k)
      <4>1. locks'[<<u, l>>] = locks[<<u, l>>]
        BY <1>0, <2>2, <3>1, <3>3
      <4>2. \A m \in DOMAIN pays' :
              \/ m \in DOMAIN pays /\ pays'[m] = pays[m]
              \/ m = Len(pays) + 1 /\ ~Made(m, u, l)'
        BY <2>5, <2>7, <3>3 DEF Made
      <4>3. DOMAIN pays \subseteq DOMAIN pays' /\ Len(pays) + 1 \notin DOMAIN pays
        BY <1>0, <2>6
      <4> QED BY <3>1, <4>1, <4>2, <4>3 DEF LockIsTrue, Made
    <3> QED BY <3>2, <3>3
  <2>10. theCase'.by \in 0 .. Len(log') /\ \A j \in DOMAIN pays' : pays'[j].by \in 1 .. Len(log')
    BY <1>0, <1>2, <1>3, <2>5, <2>7 DEF Inv
  <2> QED BY <1>2, <2>3, <2>6, <2>8, <2>9, <2>10 DEF Inv
<1> QED BY <1>4, <1>5

\* A request for a payment, whatever its lock says.
LEMMA PayStep ==
  ASSUME Inv, NEW t \in Tenants, NEW k \in Keys, NEW body \in WellFormed, Pay(t, k, body),
         UNCHANGED theCase
  PROVE  Inv'
<1>1. CASE locks[<<t, k>>].body \notin {"none", body} /\ Refuse("422") /\ UNCHANGED <<pays, locks>>
  BY <1>1, AnswerStep DEF Refuse, Logged
<1>2. CASE Logged("201", t, FirstOfKey(k), TRUE) /\ UNCHANGED <<pays, locks>>
  BY <1>2, AnswerStep DEF Logged
<1>3. CASE /\ locks[<<t, k>>] \in {Unlocked, [status |-> "FAILED", body |-> body]}
           /\ Execute(t, k, body)
  <2>1. locks[<<t, k>>].status # "COMPLETED"
    BY <1>3 DEF Unlocked
  <2> QED BY <1>3, <2>1, ExecuteStep
<1> QED BY <1>1, <1>2, <1>3 DEF Pay

\* A client's request that is turned away.
LEMMA TurnedAwayStep ==
  ASSUME Inv, NEW kind, NEW token, NEW w, TurnedAway(kind, token, w)
  PROVE  Inv'
<1>1. PICK e : log' = Append(log, e)
  BY DEF TurnedAway, Refuse, Logged
<1>2. UNCHANGED <<theCase, pays, locks>>
  BY DEF TurnedAway, server
<1> QED BY <1>1, <1>2, AnswerStep

\* Every step preserves the invariant.
LEMMA NextInv == Inv /\ [Next]_vars => Inv'
<1> SUFFICES ASSUME Inv, [Next]_vars PROVE Inv'
  OBVIOUS
<1>1. ASSUME NEW t \in Tenants, NEW token \in Tokens, NEW k \in Keys, NEW body \in Bodies,
             ClientPays(t, token, k, body)
      PROVE  Inv'
  BY <1>1, TurnedAwayStep, PayStep DEF ClientPays
<1>2. ASSUME NEW token \in Tokens, NEW d \in {"APPROVED", "REJECTED"}, NEW w \in BOOLEAN,
             ClientDecides(token, d, w)
      PROVE  Inv'
  <2>1. CASE TurnedAway("decide", token, w)
    BY <2>1, TurnedAwayStep
  <2>2. CASE Refuse("404") /\ UNCHANGED server
    BY <2>2, AnswerStep DEF Refuse, Logged, server
  <2>3. CASE Decide(d, Here) /\ Done
    <3>1. theCase'.by = Len(log) + 1 /\ UNCHANGED <<pays, locks>>
      BY <2>3 DEF Decide, Here
    <3>2. PICK e : log' = Append(log, e) /\ e.status = "201"
      BY <2>3 DEF Done, Logged
    <3>3. e.status \notin Refusals
      BY <3>2 DEF Refusals, Results
    <3> QED BY <3>1, <3>2, <3>3, AnswerStep
  <2> QED BY <1>2, <2>1, <2>2, <2>3 DEF ClientDecides
<1>3. ASSUME NEW token \in Tokens, NEW w \in BOOLEAN, ClientMakesAccount(token, w)
      PROVE  Inv'
  BY <1>3, TurnedAwayStep, SilentStep DEF ClientMakesAccount, CreateAccount
<1>4. ASSUME NEW t \in Tenants, ClientSeeds(t) PROVE Inv'
  BY <1>4, AnswerStep DEF ClientSeeds, Seed, Done, Logged
<1>5. ASSUME NEW i \in DOMAIN flights, Handle(i) PROVE Inv'
  <2>1. UNCHANGED <<log, pays, locks>>
    BY <1>5 DEF Handle, Answered, Seed, Decide, server
  <2>2. theCase' = theCase \/ theCase'.by = 0
    BY <1>5 DEF Handle, Answered, Seed, Decide, server
  <2> QED BY <2>1, <2>2, SilentStep
<1>6. ASSUME UNCHANGED <<server, log>> PROVE Inv'
  BY <1>6, SilentStep DEF server
<1>7. ASSUME NEW i \in DOMAIN flights, Hear(i) \/ Lose(i) PROVE UNCHANGED <<server, log>>
  BY <1>7 DEF Hear, Lose, LoseOther, HearPayments, HearRecords, HearCases, HearList, HearSeed,
              HearDecision, HearPay
<1>8. ASSUME \/ \E t \in Tabs : SelectTab(t)
             \/ \E t \in Tenants : SelectTenant(t)
             \/ ClickSeed \/ ClickPay \/ ClickTest
             \/ \E d \in {"APPROVED", "REJECTED"}, r \in BOOLEAN : ClickDecision(d, r)
      PROVE  UNCHANGED <<server, log>>
  BY <1>8 DEF SelectTab, SelectTenant, ClickSeed, ClickPay, ClickTest, ClickDecision, Click
<1>9. CASE UNCHANGED vars
  BY <1>6, <1>9 DEF vars
<1> QED BY <1>1, <1>2, <1>3, <1>4, <1>5, <1>6, <1>7, <1>8, <1>9 DEF Next

\* The invariant holds throughout.
LEMMA SpecInv == Spec => []Inv
<1> QED BY InitInv, NextInv, PTL DEF Spec

\* Whoever refuses a request, the guard, the pipe, the lock or executePayment, has refused it before
\* anything was done; and a key is answered as done exactly when its one payment is there, for any
\* number of requests (PaymentsController and below it).
THEOREM RefusalsDoNothing == Spec => []RefusedMeansNothingDone
<1>1. Inv => RefusedMeansNothingDone
  BY DEF Inv, RefusedMeansNothingDone, NothingBy, LockIsTrue, Made
<1> QED BY <1>1, SpecInv, PTL

---------------------------------------------------------------------------------
(* The counters. *)

\* A tenant's own payments in a state, what it was told again that is in it, and both.
OwnOf(t, state) == {n \in DOMAIN pays : pays[n].tenant = t /\ pays[n].state = state}
AgainOf(t, state) == {i \in DOMAIN log : /\ log[i].tenant = t /\ log[i].cached
                                         /\ pays[log[i].payment].state = state}
CountOf(t, state) == Cardinality(OwnOf(t, state)) + Cardinality(AgainOf(t, state))

\* A key there is a payment under has a first one, which findByIdempotencyKey finds.
HasFirst(k) ==
  (\E n \in DOMAIN pays : pays[n].key = k) =>
    \E i \in DOMAIN pays : pays[i].key = k /\ \A j \in DOMAIN pays : pays[j].key = k => i <= j

CountersInv ==
  /\ processed \in [Tenants -> Nat] /\ failed \in [Tenants -> Nat]
  /\ \A t \in Tenants : processed[t] = CountOf(t, "settled") /\ failed[t] = CountOf(t, "failed")
  /\ \A i \in DOMAIN log : log[i].cached => log[i].payment \in DOMAIN pays
  /\ \A k \in Keys : HasFirst(k)

\* What is counted is finite.
LEMMA CountedIsFinite ==
  ASSUME IsSeq(log), IsSeq(pays), NEW t, NEW state
  PROVE  /\ IsFiniteSet(OwnOf(t, state)) /\ IsFiniteSet(AgainOf(t, state))
         /\ Cardinality(OwnOf(t, state)) \in Nat /\ Cardinality(AgainOf(t, state)) \in Nat
<1>1. DOMAIN pays = 1 .. Len(pays) /\ Len(pays) \in Nat
  BY Appending
<1>2. DOMAIN log = 1 .. Len(log) /\ Len(log) \in Nat
  BY Appending
<1>3. IsFiniteSet(DOMAIN pays) /\ IsFiniteSet(DOMAIN log)
  BY <1>1, <1>2, FS_Interval
<1>4. IsFiniteSet(OwnOf(t, state)) /\ IsFiniteSet(AgainOf(t, state))
  BY <1>3, FS_Subset DEF OwnOf, AgainOf
<1> QED BY <1>4, FS_CardinalityType

\* Nothing has been counted at first.
LEMMA InitCounters == Init => CountersInv
<1> SUFFICES ASSUME Init PROVE CountersInv
  OBVIOUS
<1>1. log = <<>> /\ pays = <<>>
  BY DEF Init
<1>2. DOMAIN log = {} /\ DOMAIN pays = {}
  BY <1>1
<1>3. \A t, state : OwnOf(t, state) = {} /\ AgainOf(t, state) = {}
  BY <1>2 DEF OwnOf, AgainOf
<1>4. \A t, state : CountOf(t, state) = 0
  BY <1>3, FS_EmptySet DEF CountOf
<1>5. /\ processed = [t \in Tenants |-> 0] /\ failed = [t \in Tenants |-> 0]
  BY DEF Init
<1> QED BY <1>2, <1>4, <1>5 DEF CountersInv, HasFirst

\* A client is answered, with no payment it had before, and nothing is counted.
LEMMA UncountedStep ==
  ASSUME Inv, CountersInv, NEW e, log' = Append(log, e), ~e.cached,
         UNCHANGED <<pays, processed, failed>>
  PROVE  CountersInv'
<1>1. /\ DOMAIN log = 1 .. Len(log) /\ DOMAIN log' = DOMAIN log \cup {Len(log) + 1}
      /\ \A i \in DOMAIN log : log'[i] = log[i]
      /\ log'[Len(log) + 1] = e
  BY Appending DEF Inv
<1>2. \A t, state : AgainOf(t, state)' = AgainOf(t, state)
  BY <1>1 DEF AgainOf
<1>3. \A t, state : OwnOf(t, state)' = OwnOf(t, state)
  BY DEF OwnOf
<1>4. \A t, state : CountOf(t, state)' = CountOf(t, state)
  BY <1>2, <1>3 DEF CountOf
<1>5. \A i \in DOMAIN log' : log'[i].cached => log'[i].payment \in DOMAIN pays'
  BY <1>1 DEF CountersInv
<1> QED BY <1>4, <1>5 DEF CountersInv, HasFirst

\* Neither a payment nor an answer: the counts are what they were.
LEMMA QuietStep ==
  ASSUME CountersInv, UNCHANGED <<log, pays, processed, failed>>
  PROVE  CountersInv'
<1>1. \A t, state : CountOf(t, state)' = CountOf(t, state)
  BY DEF CountOf, OwnOf, AgainOf
<1> QED BY <1>1 DEF CountersInv, HasFirst

\* The counters of one tenant go up by one where the payment's state says so.
LEMMA CountIs ==
  ASSUME processed \in [Tenants -> Nat], failed \in [Tenants -> Nat],
         NEW t \in Tenants, NEW payment, Count(t, payment)
  PROVE  /\ processed' \in [Tenants -> Nat] /\ failed' \in [Tenants -> Nat]
         /\ processed'[t] = IF payment.state = "settled" THEN processed[t] + 1 ELSE processed[t]
         /\ failed'[t] = IF payment.state = "failed" THEN failed[t] + 1 ELSE failed[t]
         /\ \A u \in Tenants \ {t} : processed'[u] = processed[u] /\ failed'[u] = failed[u]
BY DEF Count

\* A key's payment is told again, and counted for the tenant that asked.
LEMMA ToldAgainStep ==
  ASSUME Inv, CountersInv, NEW t \in Tenants, NEW k \in Keys, UNCHANGED pays,
         locks[<<t, k>>].status = "COMPLETED",
         Logged("201", t, FirstOfKey(k), TRUE), Count(t, pays[FirstOfKey(k)])
  PROVE  CountersInv'
<1>1. PICK first : first = FirstOfKey(k)
  OBVIOUS
<1>2. first \in DOMAIN pays
  <2>1. \E n \in DOMAIN pays : pays[n].key = k
    BY DEF Inv, LockIsTrue, Made
  <2>2. \E i \in DOMAIN pays : pays[i].key = k /\ \A j \in DOMAIN pays : pays[j].key = k => i <= j
    BY <2>1 DEF CountersInv, HasFirst
  <2> QED BY <1>1, <2>2 DEF FirstOfKey
<1>3. PICK e : /\ log' = Append(log, e)
               /\ e.tenant = t /\ e.payment = first /\ e.cached
  BY <1>1 DEF Logged
<1>4. PICK here : here = Len(log) + 1
  OBVIOUS
<1>5. /\ IsSeq(log') /\ here \notin DOMAIN log /\ DOMAIN log' = DOMAIN log \cup {here}
      /\ \A i \in DOMAIN log : log'[i] = log[i]
      /\ log'[here] = e
  BY <1>3, <1>4, Appending DEF Inv
<1>6. /\ processed' \in [Tenants -> Nat] /\ failed' \in [Tenants -> Nat]
      /\ processed'[t] = IF pays[first].state = "settled" THEN processed[t] + 1 ELSE processed[t]
      /\ failed'[t] = IF pays[first].state = "failed" THEN failed[t] + 1 ELSE failed[t]
      /\ \A u \in Tenants \ {t} : processed'[u] = processed[u] /\ failed'[u] = failed[u]
  BY <1>1, CountIs DEF CountersInv
<1>7. ASSUME NEW u \in Tenants, NEW state
      PROVE  CountOf(u, state)' = IF u = t /\ pays[first].state = state
                                  THEN CountOf(u, state) + 1 ELSE CountOf(u, state)
  <2>1. OwnOf(u, state)' = OwnOf(u, state)
    BY DEF OwnOf
  <2>2. CASE u = t /\ pays[first].state = state
    <3>1. AgainOf(u, state)' = AgainOf(u, state) \cup {here} /\ here \notin AgainOf(u, state)
      BY <1>3, <1>5, <2>2 DEF AgainOf
    <3>2. Cardinality(AgainOf(u, state)') = Cardinality(AgainOf(u, state)) + 1
      BY <3>1, CountedIsFinite, FS_AddElement DEF Inv
    <3> QED BY <2>1, <2>2, <3>2, CountedIsFinite DEF CountOf, Inv
  <2>3. CASE ~(u = t /\ pays[first].state = state)
    <3>1. AgainOf(u, state)' = AgainOf(u, state)
      BY <1>3, <1>5, <2>3 DEF AgainOf
    <3> QED BY <2>1, <2>3, <3>1 DEF CountOf
  <2> QED BY <2>2, <2>3
<1>8. ASSUME NEW u \in Tenants
      PROVE  processed'[u] = CountOf(u, "settled")' /\ failed'[u] = CountOf(u, "failed")'
  <2>1. processed[u] = CountOf(u, "settled") /\ failed[u] = CountOf(u, "failed")
    BY DEF CountersInv
  <2>2. /\ CountOf(u, "settled")' = IF u = t /\ pays[first].state = "settled"
                                    THEN processed[u] + 1 ELSE processed[u]
        /\ CountOf(u, "failed")' = IF u = t /\ pays[first].state = "failed"
                                   THEN failed[u] + 1 ELSE failed[u]
    BY <1>7, <2>1
  <2> HIDE DEF CountOf
  <2> QED BY <1>6, <2>2
<1>9. \A i \in DOMAIN log' : log'[i].cached => log'[i].payment \in DOMAIN pays'
  BY <1>2, <1>3, <1>5 DEF CountersInv
<1> QED BY <1>6, <1>8, <1>9 DEF CountersInv, HasFirst

\* An execution: a payment more, counted for the tenant that made it, or none.
LEMMA ExecuteCounts ==
  ASSUME Inv, CountersInv, NEW t \in Tenants, NEW k \in Keys, NEW body \in WellFormed,
         Execute(t, k, body)
  PROVE  CountersInv'
<1>1. CASE Outcome[body] \in Refusals
  <2>1. Refuse(Outcome[body]) /\ UNCHANGED <<pays, processed, failed>>
    <3> HIDE DEF Refusals
    <3> QED BY <1>1 DEF Execute
  <2>2. PICK e : log' = Append(log, e) /\ ~e.cached
    BY <2>1 DEF Refuse, Logged
  <2> QED BY <2>1, <2>2, UncountedStep
<1>2. CASE Outcome[body] \notin Refusals
  <2>1. PICK payment :
          /\ payment.tenant = t /\ payment.key = k
          /\ pays' = Append(pays, payment)
          /\ Count(t, payment)
    BY <1>2 DEF Execute
  <2>2. PICK e : log' = Append(log, e) /\ ~e.cached
    BY <1>2 DEF Execute, Logged
  <2>3. PICK last : last = Len(pays) + 1
    OBVIOUS
  <2>4. /\ IsSeq(pays') /\ last \notin DOMAIN pays /\ DOMAIN pays' = DOMAIN pays \cup {last}
        /\ \A n \in DOMAIN pays : pays'[n] = pays[n] /\ n <= last
        /\ pays'[last] = payment /\ last <= last
    BY <2>1, <2>3, Appending DEF Inv
  <2>5. /\ DOMAIN log' = DOMAIN log \cup {Len(log) + 1}
        /\ \A i \in DOMAIN log : log'[i] = log[i]
        /\ log'[Len(log) + 1] = e
    BY <2>2, Appending DEF Inv
  <2>6. \A i \in DOMAIN log' : log'[i].cached =>
          /\ i \in DOMAIN log
          /\ log'[i].payment \in DOMAIN pays
          /\ pays'[log'[i].payment] = pays[log'[i].payment]
    BY <2>2, <2>4, <2>5 DEF CountersInv
  <2>7. \A u, state : AgainOf(u, state)' = AgainOf(u, state)
    <3> TAKE u, state
    <3>1. \A i : i \in AgainOf(u, state)' => i \in AgainOf(u, state)
      BY <2>5, <2>6 DEF AgainOf
    <3>2. \A i : i \in AgainOf(u, state) => i \in AgainOf(u, state)'
      BY <2>4, <2>5 DEF AgainOf, CountersInv
    <3> QED BY <3>1, <3>2
  <2>8. ASSUME NEW u \in Tenants, NEW state
        PROVE  CountOf(u, state)' = IF u = t /\ payment.state = state
                                    THEN CountOf(u, state) + 1 ELSE CountOf(u, state)
    <3>1. CASE u = t /\ payment.state = state
      <4>1. OwnOf(u, state)' = OwnOf(u, state) \cup {last} /\ last \notin OwnOf(u, state)
        BY <2>1, <2>4, <3>1 DEF OwnOf
      <4>2. Cardinality(OwnOf(u, state)') = Cardinality(OwnOf(u, state)) + 1
        BY <4>1, CountedIsFinite, FS_AddElement DEF Inv
      <4> QED BY <2>7, <3>1, <4>2, CountedIsFinite DEF CountOf, Inv
    <3>2. CASE ~(u = t /\ payment.state = state)
      <4>1. OwnOf(u, state)' = OwnOf(u, state)
        BY <2>1, <2>4, <3>2 DEF OwnOf
      <4> QED BY <2>7, <3>2, <4>1 DEF CountOf
    <3> QED BY <3>1, <3>2
  <2>9. /\ processed' \in [Tenants -> Nat] /\ failed' \in [Tenants -> Nat]
        /\ processed'[t] = IF payment.state = "settled" THEN processed[t] + 1 ELSE processed[t]
        /\ failed'[t] = IF payment.state = "failed" THEN failed[t] + 1 ELSE failed[t]
        /\ \A u \in Tenants \ {t} : processed'[u] = processed[u] /\ failed'[u] = failed[u]
    BY <2>1, CountIs DEF CountersInv
  <2>10. ASSUME NEW u \in Tenants
         PROVE  processed'[u] = CountOf(u, "settled")' /\ failed'[u] = CountOf(u, "failed")'
    <3>1. processed[u] = CountOf(u, "settled") /\ failed[u] = CountOf(u, "failed")
      BY DEF CountersInv
    <3>2. /\ CountOf(u, "settled")' = IF u = t /\ payment.state = "settled"
                                      THEN processed[u] + 1 ELSE processed[u]
          /\ CountOf(u, "failed")' = IF u = t /\ payment.state = "failed"
                                     THEN failed[u] + 1 ELSE failed[u]
      BY <2>8, <3>1
    <3> QED BY <2>9, <3>2
  <2>11. ASSUME NEW l \in Keys PROVE HasFirst(l)'
    <3>1. CASE \E n \in DOMAIN pays : pays[n].key = l
      <4>1. PICK i \in DOMAIN pays :
              pays[i].key = l /\ \A j \in DOMAIN pays : pays[j].key = l => i <= j
        BY <3>1 DEF CountersInv, HasFirst
      <4>2. i \in DOMAIN pays' /\ pays'[i].key = l
        BY <2>4, <4>1
      <4>3. \A j \in DOMAIN pays' : pays'[j].key = l => i <= j
        BY <2>4, <4>1
      <4> QED BY <4>2, <4>3 DEF HasFirst
    <3>2. CASE ~\E n \in DOMAIN pays : pays[n].key = l
      BY <2>4, <3>2 DEF HasFirst
    <3> QED BY <3>1, <3>2
  <2>12. \A i \in DOMAIN log' : log'[i].cached => log'[i].payment \in DOMAIN pays'
    BY <2>4, <2>6
  <2> QED BY <2>9, <2>10, <2>11, <2>12 DEF CountersInv
<1> QED BY <1>1, <1>2

\* A request for a payment, whatever its lock says.
LEMMA PayCounts ==
  ASSUME Inv, CountersInv, NEW t \in Tenants, NEW k \in Keys, NEW body \in WellFormed,
         Pay(t, k, body)
  PROVE  CountersInv'
<1>1. CASE Refuse("422") /\ UNCHANGED <<pays, locks, processed, failed>>
  <2>1. PICK e : log' = Append(log, e) /\ ~e.cached
    BY <1>1 DEF Refuse, Logged
  <2> QED BY <1>1, <2>1, UncountedStep
<1>2. CASE /\ locks[<<t, k>>] = [status |-> "COMPLETED", body |-> body]
           /\ Logged("201", t, FirstOfKey(k), TRUE)
           /\ Count(t, pays[FirstOfKey(k)])
           /\ UNCHANGED <<pays, locks>>
  <2>1. locks[<<t, k>>].status = "COMPLETED"
    BY <1>2
  <2> QED BY <1>2, <2>1, ToldAgainStep
<1>3. CASE Execute(t, k, body)
  BY <1>3, ExecuteCounts
<1> QED BY <1>1, <1>2, <1>3 DEF Pay

\* A request that is turned away is not counted.
LEMMA TurnedAwayCounts ==
  ASSUME Inv, CountersInv, NEW kind, NEW token, NEW w, TurnedAway(kind, token, w)
  PROVE  CountersInv'
<1>1. PICK e : log' = Append(log, e) /\ ~e.cached
  BY DEF TurnedAway, Refuse, Logged
<1>2. UNCHANGED <<pays, processed, failed>>
  BY DEF TurnedAway, server
<1> QED BY <1>1, <1>2, UncountedStep

\* Every step keeps the counters what they count.
LEMMA NextCounters == Inv /\ CountersInv /\ [Next]_vars => CountersInv'
<1> SUFFICES ASSUME Inv, CountersInv, [Next]_vars PROVE CountersInv'
  OBVIOUS
<1>1. ASSUME NEW t \in Tenants, NEW token \in Tokens, NEW k \in Keys, NEW body \in Bodies,
             ClientPays(t, token, k, body)
      PROVE  CountersInv'
  BY <1>1, TurnedAwayCounts, PayCounts DEF ClientPays
<1>2. ASSUME NEW token \in Tokens, NEW d \in {"APPROVED", "REJECTED"}, NEW w \in BOOLEAN,
             ClientDecides(token, d, w)
      PROVE  CountersInv'
  <2>1. CASE TurnedAway("decide", token, w)
    BY <2>1, TurnedAwayCounts
  <2>2. CASE (Refuse("404") \/ Done) /\ UNCHANGED <<pays, processed, failed>>
    <3>1. PICK e : log' = Append(log, e) /\ ~e.cached
      BY <2>2 DEF Refuse, Done, Logged
    <3> QED BY <2>2, <3>1, UncountedStep
  <2> QED BY <1>2, <2>1, <2>2 DEF ClientDecides, Decide, server
<1>3. ASSUME NEW token \in Tokens, NEW w \in BOOLEAN, ClientMakesAccount(token, w)
      PROVE  CountersInv'
  BY <1>3, TurnedAwayCounts, QuietStep DEF ClientMakesAccount, CreateAccount
<1>4. ASSUME NEW t \in Tenants, ClientSeeds(t) PROVE CountersInv'
  <2>1. PICK e : log' = Append(log, e) /\ ~e.cached
    BY <1>4 DEF ClientSeeds, Done, Logged
  <2> QED BY <1>4, <2>1, UncountedStep DEF ClientSeeds, Seed
<1>5. ASSUME NEW i \in DOMAIN flights, Handle(i) PROVE CountersInv'
  <2>1. UNCHANGED <<log, pays, processed, failed>>
    BY <1>5 DEF Handle, Answered, Seed, Decide, server
  <2> QED BY <2>1, QuietStep
<1>6. ASSUME UNCHANGED <<server, log>> PROVE CountersInv'
  BY <1>6, QuietStep DEF server
<1>7. ASSUME NEW i \in DOMAIN flights, Hear(i) \/ Lose(i) PROVE UNCHANGED <<server, log>>
  BY <1>7 DEF Hear, Lose, LoseOther, HearPayments, HearRecords, HearCases, HearList, HearSeed,
              HearDecision, HearPay
<1>8. ASSUME \/ \E t \in Tabs : SelectTab(t)
             \/ \E t \in Tenants : SelectTenant(t)
             \/ ClickSeed \/ ClickPay \/ ClickTest
             \/ \E d \in {"APPROVED", "REJECTED"}, r \in BOOLEAN : ClickDecision(d, r)
      PROVE  UNCHANGED <<server, log>>
  BY <1>8 DEF SelectTab, SelectTenant, ClickSeed, ClickPay, ClickTest, ClickDecision, Click
<1>9. CASE UNCHANGED vars
  BY <1>6, <1>9 DEF vars
<1> QED BY <1>1, <1>2, <1>3, <1>4, <1>5, <1>6, <1>7, <1>8, <1>9 DEF Next

\* A tenant's counters are its settled and failed payments and what it was told again under a key,
\* for any number of requests (PaymentsService.createPayment).
THEOREM CountersAreCounts == Spec => []CountersCount
<1>1. CountersInv => CountersCount
  BY DEF CountersInv, CountersCount, CountOf, OwnOf, AgainOf
<1>2. Inv /\ CountersInv /\ [Next]_vars => CountersInv'
  BY NextCounters
<1> QED BY <1>1, <1>2, SpecInv, InitCounters, PTL DEF Spec

HIDE BackOfficeAssumption DEF BackOfficeAssumption

---------------------------------------------------------------------------------
(* The dashboard.  A list that is not current is awaited: one of its requests, or that of a seed  *)
(* or a decision after which it is fetched again, is still to be heard of.                        *)

Statuses == {"PENDING", "APPROVED", "REJECTED"}
AnswerType == [of : Tenants \cup {"nobody"}, data : Statuses \cup {"none", "seeded"}]
FlightType ==
  [kind : Lists \cup {"seed", "decide", "pay"}, tenant : Tenants, stage : {"sent", "answered"},
   ok : BOOLEAN, answer : AnswerType, call : 0 .. 2, decision : {"none", "APPROVED", "REJECTED"},
   readable : BOOLEAN, late : BOOLEAN, mounted : BOOLEAN]

\* A button waits for a request that enables it again.
BusyFor(button, f) ==
  \/ button = "seed" /\ f.kind = "seed"
  \/ button = "decide" /\ f.kind = "decide" /\ f.mounted
  \/ button = "pay" /\ f.kind = "pay" /\ f.call = 0 /\ f.mounted
  \/ button = "test" /\ f.kind = "pay" /\ f.call # 0 /\ f.mounted

\* A panel that is mounted is that of the tab.
OfTab(f, tb) ==
  f.mounted =>
    /\ f.kind \in {"ledger", "cases", "audit"} => f.kind \in PanelOf[tb]
    /\ f.kind = "decide" => tb = "compliance"

\* The request whose answer has a list fetched again.
Refresher == [payments |-> "seed", cases |-> "decide", ledger |-> "none", audit |-> "none"]

\* The last request for a list.
LastOf(fs, kind, j) ==
  fs[j].kind = kind /\ \A m \in DOMAIN fs : j < m => fs[m].kind # kind

\* More will be heard of a list: of one request too late, or of one that has it fetched again, or
\* of the last one, for the tenant t, with one of the answers.
Awaited(fs, kind, t, answers) ==
  \/ \E i \in DOMAIN fs : fs[i].kind = kind /\ fs[i].late
  \/ \E i \in DOMAIN fs : fs[i].kind = Refresher[kind] /\ fs[i].stage = "answered" /\ fs[i].ok
  \/ \E j \in DOMAIN fs :
       /\ LastOf(fs, kind, j)
       /\ fs[j].tenant = t
       /\ kind = "payments" \/ fs[j].mounted
       /\ fs[j].ok => fs[j].answer \in answers

\* What a list should answer; what there is in the ledger and the audit trail is left out.
Current(kind) ==
  {a \in AnswerType : /\ a.of = tenant
                      /\ kind \in {"payments", "cases"} => a = Listing(kind, tenant)}

\* Nothing more will be heard of a list.
Silent(fs, kind) == \A i \in DOMAIN fs : fs[i].kind # kind

PaymentsCurrent ==
  \/ Awaited(flights, "payments", tenant, Current("payments"))
  \/ Silent(flights, "payments") /\ shown \in Current("payments")

PanelCurrent ==
  \A kind \in PanelOf[tab] :
    \/ Awaited(flights, kind, tenant, Current(kind))
    \/ /\ Silent(flights, kind) /\ panel \in Current(kind)
       /\ kind = "cases" /\ tenant = Home => selected = theCase.status

\* The requests under way: their types, a decision for each that decides, the buttons that wait
\* for them, and the tab whose panel they are from.
FlightsFit(fs, waiting, tb) ==
  /\ fs \in Seq(FlightType)
  /\ \A i \in DOMAIN fs : fs[i].kind = "decide" => fs[i].decision # "none"
  /\ \A button \in waiting : \E i \in DOMAIN fs : BusyFor(button, fs[i])
  /\ \A i \in DOMAIN fs : OfTab(fs[i], tb)

DashboardType ==
  /\ theCase.status \in Statuses
  /\ tenant \in Tenants /\ tab \in Tabs
  /\ panel \in AnswerType /\ shown \in AnswerType

\* The requests under way fit the dashboard; and each list it shows is current, or awaited.
DashboardInv ==
  /\ DashboardType /\ FlightsFit(flights, busy, tab)
  /\ ~disturbed => PaymentsCurrent /\ PanelCurrent

\* What is added to the end of a list of requests.
Grows(gs, fs, new) ==
  /\ gs \in Seq(FlightType) /\ fs \in Seq(FlightType) /\ Len(fs) <= Len(gs)
  /\ \A i \in DOMAIN fs : gs[i] = fs[i]
  /\ \A i \in DOMAIN gs \ DOMAIN fs : gs[i] \in new
  /\ \A e \in new : \E i \in DOMAIN gs \ DOMAIN fs : gs[i] = e
  /\ \A i, j \in DOMAIN gs \ DOMAIN fs : gs[i].kind = gs[j].kind => i = j

\* One request more.
LEMMA OneMore ==
  ASSUME NEW fs \in Seq(FlightType), NEW e \in FlightType
  PROVE  Grows(Append(fs, e), fs, {e})
<1> DEFINE gs == Append(fs, e)
<1>1. /\ Len(fs) \in Nat /\ DOMAIN fs = 1 .. Len(fs)
      /\ gs \in Seq(FlightType) /\ Len(gs) = Len(fs) + 1 /\ DOMAIN gs = 1 .. Len(fs) + 1
      /\ gs[Len(fs) + 1] = e /\ \A i \in 1 .. Len(fs) : gs[i] = fs[i]
  OBVIOUS
<1> HIDE DEF gs
<1>2. DOMAIN gs \ DOMAIN fs = {Len(fs) + 1}
  BY <1>1
<1>3. Len(fs) <= Len(gs)
  BY <1>1
<1>4. Grows(gs, fs, {e})
  BY <1>1, <1>2, <1>3 DEF Grows
<1> QED BY <1>4 DEF gs

\* The request for a list is what its kind and its tenant make it.
LEMMA RequestType ==
  ASSUME NEW kind \in Lists \cup {"seed", "decide", "pay"}, NEW t \in Tenants
  PROVE  /\ Request(kind, t) \in FlightType /\ Request(kind, t).kind = kind
         /\ Request(kind, t).tenant = t /\ Request(kind, t).stage = "sent"
         /\ ~Request(kind, t).ok /\ Request(kind, t).mounted /\ Request(kind, t).call = 0
BY DEF Request, FlightType, AnswerType, Nothing

\* The lists that are fetched, each once.
LEMMA Fetched ==
  ASSUME NEW fs \in Seq(FlightType), NEW kinds \in SUBSET Lists, NEW t \in Tenants
  PROVE  Grows(fs \o Fetches(kinds, t), fs, {Request(kind, t) : kind \in kinds})
<1> DEFINE S == {Request(kind, t) : kind \in kinds}
           n == Cardinality(S)
           Injective(f) == \A i, j \in 1 .. n : f[i] = f[j] => i = j
<1>1. IsFiniteSet(S)
  <2>1. IsFiniteSet({"payments", "ledger"})
    <3>1. IsFiniteSet({"payments"})
      BY FS_Singleton
    <3>2. IsFiniteSet({"payments"} \cup {"ledger"})
      BY <3>1, FS_AddElement
    <3>3. {"payments"} \cup {"ledger"} = {"payments", "ledger"}
      OBVIOUS
    <3> QED BY <3>2, <3>3
  <2>2. IsFiniteSet(Lists)
    <3>1. IsFiniteSet({"payments", "ledger"} \cup {"cases"})
      BY <2>1, FS_AddElement
    <3>2. IsFiniteSet(({"payments", "ledger"} \cup {"cases"}) \cup {"audit"})
      BY <3>1, FS_AddElement
    <3>3. Lists = ({"payments", "ledger"} \cup {"cases"}) \cup {"audit"}
      BY DEF Lists
    <3> QED BY <3>2, <3>3
  <2>3. IsFiniteSet(kinds)
    BY <2>2, FS_Subset
  <2>4. PICK g : g = [kind \in kinds |-> Request(kind, t)]
    OBVIOUS
  <2>5. g \in Surjection(kinds, S)
    BY <2>4 DEF Surjection
  <2> HIDE DEF S
  <2> QED BY <2>3, <2>5, FS_Surjection
<1>2. n \in Nat
  BY <1>1, FS_CardinalityType
<1>3. \E f : f \in [1 .. n -> S] /\ Injective(f)
  <2>1. ExistsBijection(1 .. n, S)
    BY <1>1, FS_CardinalityType
  <2>2. PICK f : f \in Bijection(1 .. n, S)
    BY <2>1 DEF ExistsBijection
  <2>3. f \in [1 .. n -> S] /\ Injective(f)
    BY <2>2 DEF Bijection, Injection, IsInjective
  <2> QED BY <2>3
<1>4. PICK new : new = Fetches(kinds, t)
  OBVIOUS
<1>5. new = CHOOSE f \in [1 .. n -> S] : IsInjective(f)
  BY <1>4 DEF Fetches, SetToSeq
<1>6. \E f \in [1 .. n -> S] : IsInjective(f)
  BY <1>3 DEF IsInjective
<1>7. new \in [1 .. n -> S] /\ IsInjective(new)
  <2> HIDE DEF n, S
  <2> QED BY <1>5, <1>6
<1>8. \A x \in S : \E i \in 1 .. n : new[i] = x
  <2>1. IsFiniteSet(1 .. n) /\ Cardinality(1 .. n) = n
    <3> HIDE DEF n
    <3>1. IsFiniteSet(1 .. n) /\ Cardinality(1 .. n) = IF 1 > n THEN 0 ELSE n - 1 + 1
      BY <1>2, FS_Interval
    <3> QED BY <1>2, <3>1
  <2>2. new \in Injection(1 .. n, S)
    BY <1>7 DEF Injection
  <2>3. Cardinality(1 .. n) = Cardinality(S)
    BY <2>1 DEF n
  <2> HIDE DEF S, n
  <2>4. new \in Surjection(1 .. n, S)
    BY <1>1, <2>1, <2>2, <2>3, FS_Injection
  <2> QED BY <2>4 DEF Surjection
<1>9. \A x \in S : x \in FlightType
  BY RequestType
<1>10. \A x, y \in S : x.kind = y.kind => x = y
  BY RequestType
<1> HIDE DEF S, n, Injective
<1>11. new \in Seq(FlightType) /\ Len(new) = n
  BY <1>2, <1>7, <1>9
<1> DEFINE gs == fs \o new
<1>12. /\ gs \in Seq(FlightType) /\ Len(gs) = Len(fs) + Len(new)
       /\ \A i \in 1 .. Len(fs) + Len(new) :
            gs[i] = IF i <= Len(fs) THEN fs[i] ELSE new[i - Len(fs)]
  BY <1>11, ConcatProperties
<1> HIDE DEF gs
<1>13. /\ Len(fs) \in Nat /\ DOMAIN fs = 1 .. Len(fs) /\ DOMAIN gs = 1 .. Len(fs) + n
       /\ Len(gs) = Len(fs) + n
  BY <1>2, <1>11, <1>12
<1>14. Len(fs) <= Len(gs) /\ \A i \in DOMAIN fs : gs[i] = fs[i]
  BY <1>2, <1>11, <1>12, <1>13
<1>15. ASSUME NEW i \in DOMAIN gs \ DOMAIN fs
       PROVE  i - Len(fs) \in 1 .. n /\ gs[i] = new[i - Len(fs)] /\ i \in Int
  BY <1>2, <1>11, <1>12, <1>13
<1>16. ASSUME NEW k \in 1 .. n
       PROVE  Len(fs) + k \in DOMAIN gs \ DOMAIN fs /\ gs[Len(fs) + k] = new[k]
  <2>1. Len(fs) + k \in 1 .. Len(fs) + n /\ ~(Len(fs) + k <= Len(fs)) /\ (Len(fs) + k) - Len(fs) = k
    BY <1>2, <1>13
  <2>2. gs[Len(fs) + k] = new[(Len(fs) + k) - Len(fs)]
    BY <1>11, <1>12, <2>1
  <2> QED BY <1>13, <2>1, <2>2
<1>17. \A i \in DOMAIN gs \ DOMAIN fs : gs[i] \in S
  BY <1>7, <1>15
<1>18. \A x \in S : \E i \in DOMAIN gs \ DOMAIN fs : gs[i] = x
  BY <1>8, <1>16
<1>19. ASSUME NEW i \in DOMAIN gs \ DOMAIN fs, NEW j \in DOMAIN gs \ DOMAIN fs,
              gs[i].kind = gs[j].kind
       PROVE  i = j
  <2>1. gs[i] = gs[j]
    BY <1>10, <1>17, <1>19
  <2>2. PICK a \in 1 .. n, b \in 1 .. n :
          a = i - Len(fs) /\ b = j - Len(fs) /\ gs[i] = new[a] /\ gs[j] = new[b]
    BY <1>15
  <2>3. a = b
    BY <1>7, <2>1, <2>2 DEF IsInjective
  <2> QED BY <1>13, <1>15, <2>2, <2>3
<1>20. Grows(gs, fs, S)
  BY <1>12, <1>14, <1>17, <1>18, <1>19 DEF Grows
<1> QED BY <1>4, <1>20 DEF gs, S

\* What is awaited of a list still is when no other request for it is made.
LEMMA GrowthKeeps ==
  ASSUME NEW fs, NEW gs, NEW new, Grows(gs, fs, new), NEW kind, \A e \in new : e.kind # kind
  PROVE  /\ \A t, answers : Awaited(fs, kind, t, answers) => Awaited(gs, kind, t, answers)
         /\ Silent(fs, kind) => Silent(gs, kind)
<1>1. /\ DOMAIN fs \subseteq DOMAIN gs /\ \A i \in DOMAIN fs : gs[i] = fs[i]
      /\ \A i \in DOMAIN gs \ DOMAIN fs : gs[i].kind # kind
  BY DEF Grows
<1>2. \A j \in DOMAIN fs : LastOf(fs, kind, j) => LastOf(gs, kind, j)
  BY <1>1 DEF LastOf
<1>3. ASSUME NEW t, NEW answers, Awaited(fs, kind, t, answers) PROVE Awaited(gs, kind, t, answers)
  BY <1>1, <1>2, <1>3 DEF Awaited
<1>4. Silent(fs, kind) => Silent(gs, kind)
  BY <1>1 DEF Silent
<1> QED BY <1>3, <1>4

\* A list that is fetched is awaited, whatever is to be answered.
LEMMA GrowthAwaits ==
  ASSUME NEW fs, NEW gs, NEW new, Grows(gs, fs, new), NEW e \in new, e.mounted, ~e.ok, NEW answers
  PROVE  Awaited(gs, e.kind, e.tenant, answers)
<1>1. PICK j \in DOMAIN gs \ DOMAIN fs : gs[j] = e
  BY DEF Grows
<1>2. DOMAIN gs = 1 .. Len(gs) /\ DOMAIN fs = 1 .. Len(fs) /\ Len(fs) \in Nat /\ Len(gs) \in Nat
  BY DEF Grows
<1>3. ASSUME NEW m \in DOMAIN gs, j < m PROVE gs[m].kind # e.kind
  <2>1. m \in DOMAIN gs \ DOMAIN fs /\ m # j
    BY <1>2, <1>3
  <2> QED BY <1>1, <2>1 DEF Grows
<1>4. LastOf(gs, e.kind, j)
  BY <1>1, <1>3 DEF LastOf
<1> QED BY <1>1, <1>4 DEF Awaited

\* What is left of a list of requests when the i-th is gone.
At(j, i) == IF j < i THEN j ELSE j - 1

SameBut(g, f) ==
  /\ g.kind = f.kind /\ g.tenant = f.tenant /\ g.stage = f.stage /\ g.ok = f.ok
  /\ g.answer = f.answer /\ g.call = f.call /\ g.decision = f.decision /\ g.mounted = f.mounted

Shrinks(gs, fs, i) ==
  /\ gs \in Seq(FlightType) /\ fs \in Seq(FlightType) /\ i \in DOMAIN fs
  /\ \A j \in DOMAIN fs \ {i} :
       /\ At(j, i) \in DOMAIN gs /\ SameBut(gs[At(j, i)], fs[j])
       /\ gs[At(j, i)].late <=> fs[j].late \/ (j < i /\ fs[j].kind = fs[i].kind)
  /\ \A m \in DOMAIN gs : \E j \in DOMAIN fs \ {i} : m = At(j, i)
  /\ \A j, k \in DOMAIN fs \ {i} : j < k <=> At(j, i) < At(k, i)

\* What RemoveAt leaves.
LEMMA Removed ==
  ASSUME NEW hs \in Seq(FlightType), NEW i \in 1 .. Len(hs)
  PROVE  /\ RemoveAt(hs, i) \in Seq(FlightType) /\ Len(RemoveAt(hs, i)) = Len(hs) - 1
         /\ \A m \in 1 .. Len(hs) - 1 :
              RemoveAt(hs, i)[m] = IF m < i THEN hs[m] ELSE hs[m + 1]
<1>1. PICK n \in Nat : n = Len(hs)
  OBVIOUS
<1>2. i \in Int /\ 1 <= i /\ i <= n /\ DOMAIN hs = 1 .. n /\ n \in Nat
  BY <1>1
<1>3. PICK a : a = SubSeq(hs, 1, i - 1)
  OBVIOUS
<1>4. PICK b : b = SubSeq(hs, i + 1, n)
  OBVIOUS
<1>5. RemoveAt(hs, i) = a \o b
  BY <1>1, <1>3, <1>4 DEF RemoveAt
<1>6. a \in Seq(FlightType) /\ Len(a) = i - 1
  BY <1>2, <1>3
<1>61. \A m \in 1 .. i - 1 : a[m] = hs[m]
  BY <1>2, <1>3
<1>7. b \in Seq(FlightType) /\ Len(b) = n - i
  BY <1>2, <1>4
<1>71. \A m \in 1 .. n - i : b[m] = hs[i + m]
  BY <1>2, <1>4
<1>8. PICK c : c = a \o b
  OBVIOUS
<1>9. c \in Seq(FlightType) /\ Len(c) = n - 1
  BY <1>2, <1>6, <1>7, <1>8
<1>10. ASSUME NEW m \in 1 .. n - 1 PROVE c[m] = IF m < i THEN hs[m] ELSE hs[m + 1]
  <2>1. CASE m < i
    <3>1. c[m] = a[m]
      BY <1>2, <1>6, <1>7, <1>8, <2>1
    <3> QED BY <1>2, <1>61, <2>1, <3>1
  <2>2. CASE ~(m < i)
    <3>1. PICK k \in 1 .. n - i : k = m - (i - 1) /\ i + k = m + 1
      BY <1>2, <2>2
    <3>2. c[m] = b[k]
      BY <1>2, <1>6, <1>7, <1>8, <2>2, <3>1
    <3> QED BY <1>71, <2>2, <3>1, <3>2
  <2> QED BY <2>1, <2>2
<1> QED BY <1>1, <1>5, <1>8, <1>9, <1>10
\* That is what Others does.
LEMMA OthersShrink ==
  ASSUME NEW fs \in Seq(FlightType), NEW i \in DOMAIN fs, NEW gs,
         gs = RemoveAt([j \in DOMAIN fs |->
                [fs[j] EXCEPT !.late = @ \/ (j < i /\ fs[j].kind = fs[i].kind)]], i)
  PROVE  Shrinks(gs, fs, i)
<1> DEFINE hs == [j \in DOMAIN fs |->
                    [fs[j] EXCEPT !.late = @ \/ (j < i /\ fs[j].kind = fs[i].kind)]]
<1>1. PICK n \in Nat : n = Len(fs) /\ DOMAIN fs = 1 .. n
  OBVIOUS
<1>2. \A j \in 1 .. n : fs[j] \in FlightType
  BY <1>1
<1>3. ASSUME NEW j \in 1 .. n
      PROVE  /\ hs[j] \in FlightType /\ SameBut(hs[j], fs[j])
             /\ hs[j].late <=> fs[j].late \/ (j < i /\ fs[j].kind = fs[i].kind)
  <2> DEFINE late == fs[j].late \/ (j < i /\ fs[j].kind = fs[i].kind)
  <2>1. fs[j] \in FlightType /\ late \in BOOLEAN /\ j \in DOMAIN fs
    BY <1>1, <1>2 DEF FlightType
  <2>2. hs[j] = [fs[j] EXCEPT !.late = late]
    BY <2>1
  <2> HIDE DEF hs, late
  <2>3. hs[j] \in FlightType /\ SameBut(hs[j], fs[j]) /\ hs[j].late = late
    BY <2>1, <2>2 DEF FlightType, SameBut
  <2> QED BY <2>3 DEF late
<1>4. DOMAIN hs = 1 .. n /\ hs \in Seq(FlightType) /\ Len(hs) = n
  <2>1. hs = [j \in 1 .. n |-> hs[j]]
    BY <1>1
  <2> HIDE DEF hs
  <2>2. hs \in [1 .. n -> FlightType]
    BY <1>3, <2>1
  <2>3. DOMAIN hs = 1 .. n /\ hs \in Seq(FlightType)
    BY <2>2
  <2>4. Len(hs) = n
    BY <2>3
  <2> QED BY <2>3, <2>4
<1>5. gs = RemoveAt(hs, i)
  OBVIOUS
<1> HIDE DEF hs
<1>6. i \in 1 .. n /\ i \in Int /\ n \in Int
  BY <1>1
<1>10. /\ gs \in Seq(FlightType) /\ Len(gs) = n - 1 /\ DOMAIN gs = 1 .. n - 1
       /\ \A m \in 1 .. n - 1 : gs[m] = IF m < i THEN hs[m] ELSE hs[m + 1]
  <2>1. /\ gs \in Seq(FlightType) /\ Len(gs) = n - 1
        /\ \A m \in 1 .. n - 1 : gs[m] = IF m < i THEN hs[m] ELSE hs[m + 1]
    <3>1. hs \in Seq(FlightType) /\ i \in 1 .. Len(hs) /\ Len(hs) = n
      BY <1>4, <1>6
    <3>2. /\ RemoveAt(hs, i) \in Seq(FlightType) /\ Len(RemoveAt(hs, i)) = Len(hs) - 1
          /\ \A m \in 1 .. Len(hs) - 1 :
               RemoveAt(hs, i)[m] = IF m < i THEN hs[m] ELSE hs[m + 1]
      BY <3>1, Removed
    <3> QED BY <1>5, <3>1, <3>2
  <2> QED BY <2>1
<1>11. ASSUME NEW j \in 1 .. n, j # i
       PROVE  At(j, i) \in 1 .. n - 1 /\ gs[At(j, i)] = hs[j]
  <2>1. CASE j < i
    <3>1. At(j, i) = j /\ j \in 1 .. n - 1
      BY <1>6, <2>1 DEF At
    <3> QED BY <1>10, <2>1, <3>1
  <2>2. CASE i < j
    <3>1. PICK m \in 1 .. n - 1 : m = j - 1 /\ m + 1 = j /\ ~(m < i)
      BY <1>6, <2>2
    <3>2. At(j, i) = m
      BY <1>6, <2>2, <3>1 DEF At
    <3> QED BY <1>10, <3>1, <3>2
  <2> QED BY <1>6, <1>11, <2>1, <2>2
<1>12. ASSUME NEW m \in 1 .. n - 1 PROVE \E j \in 1 .. n : j # i /\ m = At(j, i)
  <2>1. CASE m < i
    <3>1. m \in 1 .. n /\ m # i /\ At(m, i) = m
      BY <1>6, <2>1 DEF At
    <3> QED BY <3>1
  <2>2. CASE ~(m < i)
    <3>1. m + 1 \in 1 .. n /\ m + 1 # i /\ At(m + 1, i) = m
      BY <1>6, <2>2 DEF At
    <3> QED BY <3>1
  <2> QED BY <2>1, <2>2
<1>13. \A j, k \in 1 .. n : j # i /\ k # i => (j < k <=> At(j, i) < At(k, i))
  BY <1>6 DEF At
<1> QED BY <1>1, <1>3, <1>10, <1>11, <1>12, <1>13 DEF Shrinks

\* Another list, and what has it fetched again, is awaited as before.
LEMMA ShrinkingKeeps ==
  ASSUME NEW fs, NEW gs, NEW i, Shrinks(gs, fs, i), NEW kind, kind # fs[i].kind
  PROVE  /\ Silent(fs, kind) => Silent(gs, kind)
         /\ ~(fs[i].kind = Refresher[kind] /\ fs[i].stage = "answered" /\ fs[i].ok) =>
              \A t, answers : Awaited(fs, kind, t, answers) => Awaited(gs, kind, t, answers)
<1>1. ASSUME Silent(fs, kind), NEW m \in DOMAIN gs PROVE gs[m].kind # kind
  <2>1. PICK j \in DOMAIN fs \ {i} : m = At(j, i)
    BY DEF Shrinks
  <2>2. SameBut(gs[m], fs[j])
    BY <2>1 DEF Shrinks
  <2> QED BY <1>1, <2>2 DEF Silent, SameBut
<1>2. ASSUME NEW t, NEW answers, Awaited(fs, kind, t, answers),
             ~(fs[i].kind = Refresher[kind] /\ fs[i].stage = "answered" /\ fs[i].ok)
      PROVE  Awaited(gs, kind, t, answers)
  <2>1. CASE \E j \in DOMAIN fs : fs[j].kind = kind /\ fs[j].late
    <3>1. PICK j \in DOMAIN fs \ {i} : fs[j].kind = kind /\ fs[j].late
      BY <2>1
    <3>2. PICK m \in DOMAIN gs : gs[m].kind = kind /\ gs[m].late
      BY <3>1 DEF Shrinks, SameBut
    <3> QED BY <3>2 DEF Awaited
  <2>2. CASE \E j \in DOMAIN fs :
               fs[j].kind = Refresher[kind] /\ fs[j].stage = "answered" /\ fs[j].ok
    <3>1. PICK j \in DOMAIN fs \ {i} :
            fs[j].kind = Refresher[kind] /\ fs[j].stage = "answered" /\ fs[j].ok
      BY <1>2, <2>2
    <3>2. PICK m \in DOMAIN gs :
            gs[m].kind = Refresher[kind] /\ gs[m].stage = "answered" /\ gs[m].ok
      BY <3>1 DEF Shrinks, SameBut
    <3> QED BY <3>2 DEF Awaited
  <2>3. CASE \E j \in DOMAIN fs :
               /\ LastOf(fs, kind, j) /\ fs[j].tenant = t
               /\ kind = "payments" \/ fs[j].mounted
               /\ fs[j].ok => fs[j].answer \in answers
    <3>1. PICK j \in DOMAIN fs \ {i} :
               /\ LastOf(fs, kind, j) /\ fs[j].tenant = t
               /\ kind = "payments" \/ fs[j].mounted
               /\ fs[j].ok => fs[j].answer \in answers
      BY <2>3 DEF LastOf
    <3>2. PICK m : m = At(j, i)
      OBVIOUS
    <3>3. m \in DOMAIN gs /\ SameBut(gs[m], fs[j])
      BY <3>2 DEF Shrinks
    <3>4. ASSUME NEW l \in DOMAIN gs, m < l PROVE gs[l].kind # kind
      <4>1. PICK k \in DOMAIN fs \ {i} : l = At(k, i)
        BY DEF Shrinks
      <4>2. j < k /\ SameBut(gs[l], fs[k])
        BY <3>2, <3>4, <4>1 DEF Shrinks
      <4> QED BY <3>1, <4>2 DEF LastOf, SameBut
    <3>5. LastOf(gs, kind, m)
      BY <3>1, <3>3, <3>4 DEF LastOf, SameBut
    <3> QED BY <3>1, <3>3, <3>5 DEF Awaited, SameBut
  <2> QED BY <1>2, <2>1, <2>2, <2>3 DEF Awaited
<1> QED BY <1>1, <1>2 DEF Silent

\* The list that is answered is awaited still, or that was the last of it and is as it should be.
LEMMA ShrinkingAnswers ==
  ASSUME NEW fs, NEW gs, NEW i, Shrinks(gs, fs, i), NEW kind \in Lists, kind = fs[i].kind,
         fs[i].ok, ~fs[i].late, NEW t, NEW answers, Awaited(fs, kind, t, answers)
  PROVE  \/ Awaited(gs, kind, t, answers)
         \/ /\ Silent(gs, kind) /\ fs[i].tenant = t /\ fs[i].answer \in answers
            /\ kind = "payments" \/ fs[i].mounted
<1>0. Refresher[kind] # kind /\ i \in DOMAIN fs /\ DOMAIN fs = 1 .. Len(fs) /\ Len(fs) \in Nat
  BY DEF Lists, Refresher, Shrinks
<1>1. CASE \E j \in DOMAIN fs : fs[j].kind = kind /\ fs[j].late
  <2>1. PICK j \in DOMAIN fs \ {i} : fs[j].kind = kind /\ fs[j].late
    BY <1>1
  <2>2. PICK m \in DOMAIN gs : gs[m].kind = kind /\ gs[m].late
    BY <2>1 DEF Shrinks, SameBut
  <2> QED BY <2>2 DEF Awaited
<1>2. CASE \E j \in DOMAIN fs : fs[j].kind = Refresher[kind] /\ fs[j].stage = "answered" /\ fs[j].ok
  <2>1. PICK j \in DOMAIN fs \ {i} :
          fs[j].kind = Refresher[kind] /\ fs[j].stage = "answered" /\ fs[j].ok
    BY <1>0, <1>2
  <2>2. PICK m \in DOMAIN gs :
          gs[m].kind = Refresher[kind] /\ gs[m].stage = "answered" /\ gs[m].ok
    BY <2>1 DEF Shrinks, SameBut
  <2> QED BY <2>2 DEF Awaited
<1>3. CASE \E j \in DOMAIN fs :
             /\ LastOf(fs, kind, j) /\ fs[j].tenant = t
             /\ kind = "payments" \/ fs[j].mounted
             /\ fs[j].ok => fs[j].answer \in answers
  <2>1. PICK j \in DOMAIN fs :
             /\ LastOf(fs, kind, j) /\ fs[j].tenant = t
             /\ kind = "payments" \/ fs[j].mounted
             /\ fs[j].ok => fs[j].answer \in answers
    BY <1>3
  <2>2. CASE j = i
    <3>1. CASE \E k \in DOMAIN fs \ {i} : fs[k].kind = kind
      <4>1. PICK k \in DOMAIN fs \ {i} : fs[k].kind = kind
        BY <3>1
      <4>2. k < i
        BY <1>0, <2>1, <2>2, <4>1 DEF LastOf
      <4>3. PICK m \in DOMAIN gs : gs[m].kind = kind /\ gs[m].late
        BY <4>1, <4>2 DEF Shrinks, SameBut
      <4> QED BY <4>3 DEF Awaited
    <3>2. CASE ~\E k \in DOMAIN fs \ {i} : fs[k].kind = kind
      <4>1. Silent(gs, kind)
        BY <3>2 DEF Shrinks, Silent, SameBut
      <4> QED BY <2>1, <2>2, <4>1
    <3> QED BY <3>1, <3>2
  <2>3. CASE j # i
    <3>2. PICK m : m = At(j, i)
      OBVIOUS
    <3>3. m \in DOMAIN gs /\ SameBut(gs[m], fs[j])
      BY <2>1, <2>3, <3>2 DEF Shrinks
    <3>4. ASSUME NEW l \in DOMAIN gs, m < l PROVE gs[l].kind # kind
      <4>1. PICK k \in DOMAIN fs \ {i} : l = At(k, i)
        BY DEF Shrinks
      <4>2. j < k /\ SameBut(gs[l], fs[k])
        BY <2>1, <2>3, <3>2, <3>4, <4>1 DEF Shrinks
      <4> QED BY <2>1, <4>2 DEF LastOf, SameBut
    <3>5. LastOf(gs, kind, m)
      BY <2>1, <3>3, <3>4 DEF LastOf, SameBut
    <3> QED BY <2>1, <3>3, <3>5 DEF Awaited, SameBut
  <2> QED BY <2>2, <2>3
<1> QED BY <1>1, <1>2, <1>3 DEF Awaited

\* What an answer changes of one request.
Answers(gs, fs, i, ok, answer) ==
  /\ gs \in Seq(FlightType) /\ DOMAIN gs = DOMAIN fs /\ i \in DOMAIN fs
  /\ \A j \in DOMAIN fs : /\ gs[j].kind = fs[j].kind /\ gs[j].tenant = fs[j].tenant
                          /\ gs[j].mounted = fs[j].mounted /\ gs[j].call = fs[j].call
                          /\ gs[j].late = fs[j].late /\ gs[j].decision = fs[j].decision
  /\ \A j \in DOMAIN fs \ {i} : gs[j] = fs[j]
  /\ fs[i].stage = "sent"
  /\ gs[i].stage = "answered" /\ gs[i].ok = ok /\ gs[i].answer = answer

AnswerIn(fs, i, ok, answer) ==
  [fs EXCEPT ![i].stage = "answered", ![i].ok = ok, ![i].answer = answer]

\* A request is answered, whatever it was for.
LEMMA AnswerIs ==
  ASSUME NEW fs \in Seq(FlightType), NEW i \in DOMAIN fs, fs[i].stage = "sent",
         NEW ok \in BOOLEAN, NEW answer \in AnswerType
  PROVE  Answers(AnswerIn(fs, i, ok, answer), fs, i, ok, answer)
<1>0. PICK gs : gs = [fs EXCEPT ![i].stage = "answered", ![i].ok = ok, ![i].answer = answer]
  OBVIOUS
<1>1. fs[i] \in FlightType /\ DOMAIN fs = 1 .. Len(fs) /\ Len(fs) \in Nat
  OBVIOUS
<1>2. PICK f : f = fs[i]
  OBVIOUS
<1> DEFINE g == [f EXCEPT !.stage = "answered", !.ok = ok, !.answer = answer]
<1>3. /\ g \in FlightType /\ g.kind = f.kind /\ g.tenant = f.tenant /\ g.mounted = f.mounted
      /\ g.call = f.call /\ g.late = f.late /\ g.decision = f.decision
      /\ g.stage = "answered" /\ g.ok = ok /\ g.answer = answer
  BY <1>0, <1>1, <1>2 DEF FlightType
<1>4. gs = [fs EXCEPT ![i] = g]
  BY <1>0, <1>1, <1>2 DEF FlightType
<1> HIDE DEF g
<1>5. gs \in Seq(FlightType) /\ DOMAIN gs = DOMAIN fs
  <2>1. fs \in [1 .. Len(fs) -> FlightType]
    BY <1>1
  <2>2. gs \in [1 .. Len(fs) -> FlightType]
    BY <1>1, <1>3, <1>4, <2>1
  <2>3. PICK n \in Nat : n = Len(fs)
    BY <1>1
  <2>4. gs \in [1 .. n -> FlightType]
    BY <2>2, <2>3
  <2>5. gs \in Seq(FlightType) /\ DOMAIN gs = 1 .. n
    BY <2>3, <2>4
  <2> QED BY <1>1, <2>3, <2>5
<1>6. gs[i] = g /\ \A j \in DOMAIN fs \ {i} : gs[j] = fs[j]
  BY <1>1, <1>4
<1>7. Answers(gs, fs, i, ok, answer)
  <2>1. \A j \in DOMAIN fs :
          /\ gs[j].kind = fs[j].kind /\ gs[j].tenant = fs[j].tenant
          /\ gs[j].mounted = fs[j].mounted /\ gs[j].call = fs[j].call
          /\ gs[j].late = fs[j].late /\ gs[j].decision = fs[j].decision
    BY <1>2, <1>3, <1>6
  <2> QED BY <1>3, <1>5, <1>6, <2>1 DEF Answers
<1> QED BY <1>0, <1>7 DEF AnswerIn

\* The requests there were stay where they are.
LEMMA GrowthIs ==
  ASSUME NEW fs, NEW gs, NEW new, Grows(gs, fs, new)
  PROVE  /\ DOMAIN fs \subseteq DOMAIN gs /\ \A i \in DOMAIN fs : gs[i] = fs[i]
         /\ \A i \in DOMAIN gs : i \notin DOMAIN fs => gs[i] \in new
         /\ \A e \in new : \E i \in DOMAIN gs : gs[i] = e
<1>1. DOMAIN gs = 1 .. Len(gs) /\ DOMAIN fs = 1 .. Len(fs) /\ Len(fs) \in Nat /\ Len(gs) \in Nat
  BY DEF Grows
<1> QED BY <1>1 DEF Grows

\* Requests are added, and buttons wait for them.
LEMMA GrowthFits ==
  ASSUME NEW fs, NEW gs, NEW new, Grows(gs, fs, new), NEW waiting, NEW more, NEW tb,
         FlightsFit(fs, waiting, tb),
         \A e \in new : OfTab(e, tb) /\ (e.kind = "decide" => e.decision # "none"),
         \A button \in more : button \in waiting \/ \E e \in new : BusyFor(button, e)
  PROVE  FlightsFit(gs, more, tb)
<1>1. /\ DOMAIN fs \subseteq DOMAIN gs /\ \A i \in DOMAIN fs : gs[i] = fs[i]
      /\ \A i \in DOMAIN gs : i \notin DOMAIN fs => gs[i] \in new
      /\ \A e \in new : \E i \in DOMAIN gs : gs[i] = e
  BY GrowthIs
<1>2. gs \in Seq(FlightType)
  BY DEF Grows
<1>3. ASSUME NEW i \in DOMAIN gs
      PROVE  OfTab(gs[i], tb) /\ (gs[i].kind = "decide" => gs[i].decision # "none")
  BY <1>1, <1>3 DEF FlightsFit
<1>4. ASSUME NEW button \in more PROVE \E i \in DOMAIN gs : BusyFor(button, gs[i])
  <2>1. CASE button \in waiting
    BY <1>1, <2>1 DEF FlightsFit
  <2>2. CASE \E e \in new : BusyFor(button, e)
    <3>1. PICK e \in new : BusyFor(button, e)
      BY <2>2
    <3>2. PICK i \in DOMAIN gs : gs[i] = e
      BY <1>1
    <3> QED BY <3>1, <3>2
  <2> QED BY <2>1, <2>2
<1> QED BY <1>2, <1>3, <1>4 DEF FlightsFit

\* One is gone, and with it the button that waited for it.
LEMMA ShrinkingFits ==
  ASSUME NEW fs, NEW gs, NEW i, Shrinks(gs, fs, i), NEW waiting, NEW fewer, NEW tb,
         FlightsFit(fs, waiting, tb),
         \A button \in fewer : button \in waiting /\ ~BusyFor(button, fs[i])
  PROVE  FlightsFit(gs, fewer, tb)
<1>1. ASSUME NEW m \in DOMAIN gs
      PROVE  OfTab(gs[m], tb) /\ (gs[m].kind = "decide" => gs[m].decision # "none")
  <2>1. PICK j \in DOMAIN fs \ {i} : m = At(j, i)
    BY DEF Shrinks
  <2>2. SameBut(gs[m], fs[j])
    BY <2>1 DEF Shrinks
  <2> QED BY <2>2 DEF FlightsFit, SameBut, OfTab
<1>2. ASSUME NEW button \in fewer PROVE \E m \in DOMAIN gs : BusyFor(button, gs[m])
  <2>1. PICK j \in DOMAIN fs : BusyFor(button, fs[j])
    BY DEF FlightsFit
  <2>2. j # i
    BY <2>1
  <2>3. PICK m \in DOMAIN gs : SameBut(gs[m], fs[j])
    BY <2>2 DEF Shrinks
  <2>4. BusyFor(button, gs[m])
    BY <2>1, <2>3 DEF BusyFor, SameBut
  <2> QED BY <2>4
<1>3. gs \in Seq(FlightType)
  BY DEF Shrinks
<1> QED BY <1>1, <1>2, <1>3 DEF FlightsFit

\* An answer keeps the requests fit.
LEMMA AnsweringFits ==
  ASSUME NEW fs, NEW gs, NEW i, NEW ok, NEW answer, Answers(gs, fs, i, ok, answer),
         NEW waiting, NEW tb, FlightsFit(fs, waiting, tb)
  PROVE  FlightsFit(gs, waiting, tb)
<1>1. \A j \in DOMAIN gs :
        OfTab(gs[j], tb) /\ (gs[j].kind = "decide" => gs[j].decision # "none")
  BY DEF Answers, FlightsFit, OfTab
<1>2. ASSUME NEW button \in waiting PROVE \E j \in DOMAIN gs : BusyFor(button, gs[j])
  <2>1. PICK j \in DOMAIN fs : BusyFor(button, fs[j])
    BY DEF FlightsFit
  <2>2. j \in DOMAIN gs /\ BusyFor(button, gs[j])
    BY <2>1 DEF BusyFor, Answers
  <2> QED BY <2>2
<1> QED BY <1>1, <1>2 DEF FlightsFit, Answers

\* What is awaited still is, if the answer is one of those expected.
LEMMA AnsweringAwaits ==
  ASSUME NEW fs, NEW gs, NEW i, NEW ok, NEW answer, Answers(gs, fs, i, ok, answer),
         NEW kind, NEW t, NEW answers,
         ok /\ fs[i].kind = kind /\ fs[i].tenant = t => answer \in answers
  PROVE  /\ Awaited(fs, kind, t, answers) => Awaited(gs, kind, t, answers)
         /\ Silent(fs, kind) => Silent(gs, kind)
<1>1. Silent(fs, kind) => Silent(gs, kind)
  BY DEF Silent, Answers
<1>2. ASSUME NEW j \in DOMAIN fs, fs[j].kind = kind /\ fs[j].late
      PROVE  Awaited(gs, kind, t, answers)
  <2>1. j \in DOMAIN gs /\ gs[j].kind = kind /\ gs[j].late
    BY <1>2 DEF Answers
  <2> QED BY <2>1 DEF Awaited
<1>3. ASSUME NEW j \in DOMAIN fs,
             fs[j].kind = Refresher[kind] /\ fs[j].stage = "answered" /\ fs[j].ok
      PROVE  Awaited(gs, kind, t, answers)
  <2>1. j # i
    BY <1>3 DEF Answers
  <2>2. j \in DOMAIN gs /\ gs[j] = fs[j]
    BY <2>1 DEF Answers
  <2> QED BY <1>3, <2>2 DEF Awaited
<1>4. ASSUME NEW j \in DOMAIN fs, LastOf(fs, kind, j), fs[j].tenant = t,
             kind = "payments" \/ fs[j].mounted, fs[j].ok => fs[j].answer \in answers
      PROVE  Awaited(gs, kind, t, answers)
  <2>1. LastOf(gs, kind, j) /\ j \in DOMAIN gs
    BY <1>4 DEF LastOf, Answers
  <2>2. gs[j].tenant = t /\ (kind = "payments" \/ gs[j].mounted)
    BY <1>4 DEF Answers
  <2>3. gs[j].ok => gs[j].answer \in answers
    <3>1. fs[j].kind = kind
      BY <1>4 DEF LastOf
    <3>2. CASE j = i
      BY <1>4, <3>1, <3>2 DEF Answers
    <3>3. CASE j # i
      BY <1>4, <3>3 DEF Answers
    <3> QED BY <3>2, <3>3
  <2> QED BY <2>1, <2>2, <2>3 DEF Awaited
<1>5. Awaited(fs, kind, t, answers) => Awaited(gs, kind, t, answers)
  <2> SUFFICES ASSUME Awaited(fs, kind, t, answers) PROVE Awaited(gs, kind, t, answers)
    OBVIOUS
  <2>1. \/ \E j \in DOMAIN fs : fs[j].kind = kind /\ fs[j].late
        \/ \E j \in DOMAIN fs : fs[j].kind = Refresher[kind] /\ fs[j].stage = "answered" /\ fs[j].ok
        \/ \E j \in DOMAIN fs :
             /\ LastOf(fs, kind, j) /\ fs[j].tenant = t
             /\ kind = "payments" \/ fs[j].mounted
             /\ fs[j].ok => fs[j].answer \in answers
    BY DEF Awaited
  <2> QED BY <1>2, <1>3, <1>4, <2>1
<1> QED BY <1>1, <1>5

\* The panel that goes takes its requests out of it, which leaves those for the payments.
LEMMA UnmountingFits ==
  ASSUME NEW fs, NEW waiting, NEW tb, NEW tb2, FlightsFit(fs, waiting, tb), NEW gs,
         gs = [i \in DOMAIN fs |-> [fs[i] EXCEPT !.mounted = FALSE]]
  PROVE  /\ FlightsFit(gs, waiting \ {"decide", "pay", "test"}, tb2)
         /\ \A t, answers :
              Awaited(fs, "payments", t, answers) => Awaited(gs, "payments", t, answers)
         /\ Silent(fs, "payments") => Silent(gs, "payments")
<1>1. PICK n \in Nat : n = Len(fs) /\ DOMAIN fs = 1 .. n /\ fs \in [1 .. n -> FlightType]
  BY DEF FlightsFit
<1>2. ASSUME NEW i \in 1 .. n
      PROVE  /\ gs[i] \in FlightType /\ gs[i].kind = fs[i].kind /\ gs[i].tenant = fs[i].tenant
             /\ gs[i].stage = fs[i].stage /\ gs[i].ok = fs[i].ok /\ gs[i].answer = fs[i].answer
             /\ gs[i].decision = fs[i].decision /\ gs[i].late = fs[i].late /\ ~gs[i].mounted
  <2>1. PICK f \in FlightType : f = fs[i]
    BY <1>1
  <2>2. PICK g : g = [f EXCEPT !.mounted = FALSE]
    OBVIOUS
  <2>3. gs[i] = g
    BY <1>1, <2>1, <2>2
  <2>4. /\ g \in FlightType /\ g.kind = f.kind /\ g.tenant = f.tenant
        /\ g.stage = f.stage /\ g.ok = f.ok /\ g.answer = f.answer
        /\ g.decision = f.decision /\ g.late = f.late /\ ~g.mounted
    BY <2>2 DEF FlightType
  <2> QED BY <2>1, <2>3, <2>4
<1>3. DOMAIN gs = 1 .. n /\ gs \in Seq(FlightType)
  <2>1. gs = [i \in 1 .. n |-> gs[i]]
    BY <1>1
  <2>2. gs \in [1 .. n -> FlightType]
    BY <1>2, <2>1
  <2> QED BY <2>2
<1>4. \A i \in DOMAIN gs :
        OfTab(gs[i], tb2) /\ (gs[i].kind = "decide" => gs[i].decision # "none")
  BY <1>1, <1>2, <1>3 DEF FlightsFit, OfTab
<1>5. ASSUME NEW button \in waiting \ {"decide", "pay", "test"}
      PROVE  \E i \in DOMAIN gs : BusyFor(button, gs[i])
  <2>1. PICK i \in DOMAIN fs : BusyFor(button, fs[i])
    BY DEF FlightsFit
  <2>2. button = "seed" /\ fs[i].kind = "seed"
    BY <2>1 DEF BusyFor
  <2> QED BY <1>1, <1>2, <1>3, <2>2 DEF BusyFor
<1>6. ASSUME NEW t, NEW answers, Awaited(fs, "payments", t, answers)
      PROVE  Awaited(gs, "payments", t, answers)
  <2>1. ASSUME NEW j \in DOMAIN fs, LastOf(fs, "payments", j) PROVE LastOf(gs, "payments", j)
    BY <1>1, <1>2, <1>3, <2>1 DEF LastOf
  <2>2. ASSUME NEW j \in DOMAIN fs PROVE j \in 1 .. n /\ j \in DOMAIN gs
    BY <1>1, <1>3
  <2>3. CASE \E j \in DOMAIN fs : fs[j].kind = "payments" /\ fs[j].late
    <3>1. PICK j \in DOMAIN fs : fs[j].kind = "payments" /\ fs[j].late
      BY <2>3
    <3>2. j \in DOMAIN gs /\ gs[j].kind = "payments" /\ gs[j].late
      BY <1>2, <2>2, <3>1
    <3> QED BY <3>2 DEF Awaited
  <2>4. CASE \E j \in DOMAIN fs :
               fs[j].kind = Refresher["payments"] /\ fs[j].stage = "answered" /\ fs[j].ok
    <3>1. PICK j \in DOMAIN fs :
            fs[j].kind = Refresher["payments"] /\ fs[j].stage = "answered" /\ fs[j].ok
      BY <2>4
    <3>2. /\ j \in DOMAIN gs
          /\ gs[j].kind = Refresher["payments"] /\ gs[j].stage = "answered" /\ gs[j].ok
      BY <1>2, <2>2, <3>1
    <3> QED BY <3>2 DEF Awaited
  <2>5. CASE \E j \in DOMAIN fs :
               /\ LastOf(fs, "payments", j) /\ fs[j].tenant = t
               /\ fs[j].ok => fs[j].answer \in answers
    <3>1. PICK j \in DOMAIN fs :
            /\ LastOf(fs, "payments", j) /\ fs[j].tenant = t
            /\ fs[j].ok => fs[j].answer \in answers
      BY <2>5
    <3>2. /\ j \in DOMAIN gs /\ LastOf(gs, "payments", j) /\ gs[j].tenant = t
          /\ gs[j].ok => gs[j].answer \in answers
      BY <1>2, <2>1, <2>2, <3>1
    <3> QED BY <3>2 DEF Awaited
  <2> QED BY <1>6, <2>3, <2>4, <2>5 DEF Awaited
<1>7. Silent(fs, "payments") => Silent(gs, "payments")
  BY <1>1, <1>2, <1>3 DEF Silent
<1> QED BY <1>3, <1>4, <1>5, <1>6, <1>7 DEF FlightsFit

\* What is current depends on the tenant, the case and the seeded tenant.
LEMMA SameCurrent ==
  ASSUME UNCHANGED <<tenant, theCase, owner>>, NEW kind
  PROVE  Current(kind)' = Current(kind)
BY DEF Current, Listing

\* Requests are made, none for a list, and what the dashboard shows stays.
LEMMA GrowthStep ==
  ASSUME DashboardInv, NEW new, Grows(flights', flights, new),
         UNCHANGED <<theCase, owner, tenant, tab, panel, shown, selected, disturbed>>,
         \A e \in new : /\ e.kind \notin Lists /\ OfTab(e, tab)
                        /\ e.kind = "decide" => e.decision # "none",
         \A button \in busy' : button \in busy \/ \E e \in new : BusyFor(button, e)
  PROVE  DashboardInv'
<1>1. DashboardType' /\ FlightsFit(flights', busy', tab')
  <2>1. FlightsFit(flights', busy', tab)
    BY GrowthFits DEF DashboardInv
  <2> QED BY <2>1 DEF DashboardInv, DashboardType
<1>2. ASSUME NEW kind \in Lists
      PROVE  /\ Awaited(flights, kind, tenant, Current(kind)) =>
                  Awaited(flights', kind, tenant', Current(kind)')
             /\ Silent(flights, kind) => Silent(flights', kind)
             /\ Current(kind)' = Current(kind)
  <2>1. Current(kind)' = Current(kind)
    BY SameCurrent
  <2>2. \A e \in new : e.kind # kind
    OBVIOUS
  <2>3. /\ \A t, answers : Awaited(flights, kind, t, answers) => Awaited(flights', kind, t, answers)
        /\ Silent(flights, kind) => Silent(flights', kind)
    BY <2>2, GrowthKeeps
  <2> QED BY <2>1, <2>3
<1>3. "payments" \in Lists /\ PanelOf[tab] \subseteq Lists
  BY DEF DashboardInv, DashboardType, Tabs, PanelOf, Lists
<1>4. PaymentsCurrent => PaymentsCurrent'
  BY <1>2, <1>3 DEF PaymentsCurrent
<1>5. PanelCurrent => PanelCurrent'
  BY <1>2, <1>3 DEF PanelCurrent
<1> QED BY <1>1, <1>4, <1>5 DEF DashboardInv

\* A button is clicked, and waits for the request it makes.
LEMMA ClickStep ==
  ASSUME DashboardInv, NEW e \in FlightType, e.kind \notin Lists, OfTab(e, tab),
         e.kind = "decide" => e.decision # "none",
         NEW button, BusyFor(button, e), busy' = busy \cup {button}, flights' = Append(flights, e),
         UNCHANGED <<theCase, owner, tenant, tab, panel, shown, selected, disturbed>>
  PROVE  DashboardInv'
<1>1. flights \in Seq(FlightType)
  BY DEF DashboardInv, FlightsFit
<1>2. Grows(flights', flights, {e})
  BY <1>1, OneMore
<1> QED BY <1>2, GrowthStep

\* The four buttons, each with the request that enables it again.
LEMMA ButtonSteps ==
  ASSUME DashboardInv,
         \/ ClickSeed \/ ClickPay \/ ClickTest
         \/ \E d \in {"APPROVED", "REJECTED"}, r \in BOOLEAN : ClickDecision(d, r)
  PROVE  DashboardInv'
<1>0. tenant \in Tenants
  BY DEF DashboardInv, DashboardType
<1>1. CASE ClickSeed
  <2>1. PICK e : e = Request("seed", tenant)
    OBVIOUS
  <2>2. e \in FlightType /\ e.kind = "seed"
    BY <1>0, <2>1, RequestType
  <2>3. e.kind \notin Lists /\ OfTab(e, tab) /\ BusyFor("seed", e)
    BY <2>2 DEF Lists, OfTab, BusyFor
  <2> QED BY <1>1, <2>1, <2>2, <2>3, ClickStep DEF ClickSeed, Click, server
<1>2. CASE ClickPay
  <2>1. PICK f : f = Request("pay", tenant)
    OBVIOUS
  <2>2. PICK e : e = [f EXCEPT !.readable = FALSE]
    OBVIOUS
  <2>5. f \in FlightType /\ f.kind = "pay" /\ f.call = 0 /\ f.mounted
    BY <1>0, <2>1, RequestType
  <2>6. e \in FlightType /\ e.kind = "pay" /\ e.call = 0 /\ e.mounted
    BY <2>2, <2>5 DEF FlightType
  <2>3. e.kind \notin Lists /\ OfTab(e, tab) /\ BusyFor("pay", e)
    BY <2>6 DEF Lists, OfTab, BusyFor
  <2> QED BY <1>2, <2>1, <2>2, <2>3, <2>6, ClickStep DEF ClickPay, Click, server
<1>3. CASE ClickTest
  <2>1. PICK f : f = Request("pay", tenant)
    OBVIOUS
  <2>2. PICK e : e = [f EXCEPT !.call = 1, !.readable = FALSE]
    OBVIOUS
  <2>5. f \in FlightType /\ f.kind = "pay" /\ f.mounted
    BY <1>0, <2>1, RequestType
  <2>7. 1 \in 0 .. 2
    OBVIOUS
  <2>6. e \in FlightType /\ e.kind = "pay" /\ e.call = 1 /\ e.mounted
    BY <2>2, <2>5, <2>7, Zenon DEF FlightType
  <2>3. e.kind \notin Lists /\ OfTab(e, tab) /\ BusyFor("test", e)
    BY <2>6 DEF Lists, OfTab, BusyFor
  <2> QED BY <1>3, <2>1, <2>2, <2>3, <2>6, ClickStep DEF ClickTest, makeRequest, Click, server
<1>4. ASSUME NEW d \in {"APPROVED", "REJECTED"}, NEW r \in BOOLEAN, ClickDecision(d, r)
      PROVE  DashboardInv'
  <2>1. PICK f : f = Request("decide", tenant)
    OBVIOUS
  <2>2. PICK e : e = [f EXCEPT !.decision = d, !.readable = r]
    OBVIOUS
  <2>5. f \in FlightType /\ f.kind = "decide" /\ f.call = 0 /\ f.mounted
    BY <1>0, <2>1, RequestType
  <2>6. e \in FlightType /\ e.kind = "decide" /\ e.decision = d /\ e.mounted
    BY <2>2, <2>5 DEF FlightType
  <2>3. e.kind \notin Lists /\ OfTab(e, tab) /\ BusyFor("decide", e) /\ e.decision # "none"
    BY <1>4, <2>6 DEF Lists, OfTab, BusyFor, ClickDecision
  <2> QED BY <1>4, <2>1, <2>2, <2>3, <2>6, ClickStep DEF ClickDecision, Click, server
<1> QED BY <1>1, <1>2, <1>3, <1>4

\* Every list of a panel is fetched when it is mounted, and the payments are as they were.
LEMMA TabStep ==
  ASSUME DashboardInv, NEW t \in Tabs, SelectTab(t)
  PROVE  DashboardInv'
<1>1. PICK kinds \in SUBSET Lists : kinds = PanelOf[t] /\ "payments" \notin kinds
  BY DEF Tabs, PanelOf, Lists
<1>2. PICK hs : hs = [i \in DOMAIN flights |-> [flights[i] EXCEPT !.mounted = FALSE]]
  OBVIOUS
<1>3. PICK fewer : fewer = busy \ {"decide", "pay", "test"}
  OBVIOUS
<1>4. FlightsFit(flights, busy, tab) /\ tenant \in Tenants
  BY DEF DashboardInv, DashboardType
<1>5. /\ FlightsFit(hs, fewer, t)
      /\ \A u, answers :
           Awaited(flights, "payments", u, answers) => Awaited(hs, "payments", u, answers)
      /\ Silent(flights, "payments") => Silent(hs, "payments")
  BY <1>2, <1>3, <1>4, UnmountingFits
<1>6. hs \in Seq(FlightType)
  BY <1>5 DEF FlightsFit
<1>7. PICK new : new = {Request(kind, tenant) : kind \in kinds}
  OBVIOUS
<1>8. Grows(flights', hs, new)
  BY <1>1, <1>2, <1>4, <1>6, <1>7, Fetched DEF SelectTab
<1>9. \A e \in new : e \in FlightType /\ e.kind \in kinds /\ e.mounted /\ ~e.ok /\ e.tenant = tenant
  BY <1>4, <1>7, RequestType
<1>10. \A e \in new : OfTab(e, t) /\ e.kind # "decide" /\ e.kind # "payments"
  BY <1>1, <1>9 DEF OfTab, Lists
<1>11. FlightsFit(flights', fewer, t)
  BY <1>5, <1>8, <1>10, GrowthFits
<1>12. /\ busy' = fewer /\ tab' = t /\ panel' = Nothing
       /\ UNCHANGED <<theCase, owner, tenant, shown, disturbed>>
  BY <1>3 DEF SelectTab, Click, server
<1>13. DashboardType'
  BY <1>12 DEF DashboardInv, DashboardType, Nothing, AnswerType
<1>14. PaymentsCurrent => PaymentsCurrent'
  <2>1. /\ \A u, answers :
             Awaited(hs, "payments", u, answers) => Awaited(flights', "payments", u, answers)
        /\ Silent(hs, "payments") => Silent(flights', "payments")
    BY <1>8, <1>10, GrowthKeeps
  <2>2. Current("payments")' = Current("payments")
    BY <1>12, SameCurrent
  <2> QED BY <1>5, <1>12, <2>1, <2>2 DEF PaymentsCurrent
<1>15. PanelCurrent'
  <2>1. ASSUME NEW kind \in kinds PROVE Awaited(flights', kind, tenant', Current(kind)')
    <3>1. PICK e \in new : e = Request(kind, tenant)
      BY <1>7
    <3>2. e.kind = kind /\ e.mounted /\ ~e.ok /\ e.tenant = tenant
      BY <1>4, <3>1, RequestType
    <3>3. \A answers : Awaited(flights', e.kind, e.tenant, answers)
      BY <1>8, <3>2, GrowthAwaits
    <3> QED BY <1>12, <3>2, <3>3
  <2> QED BY <1>1, <1>12, <2>1 DEF PanelCurrent
<1> QED BY <1>11, <1>12, <1>13, <1>14, <1>15 DEF DashboardInv

\* Everything that is shown is fetched for another tenant.
LEMMA TenantStep ==
  ASSUME DashboardInv, NEW t \in Tenants, SelectTenant(t)
  PROVE  DashboardInv'
<1>1. PICK kinds \in SUBSET Lists : kinds = {"payments"} \cup PanelOf[tab]
  <2>1. "payments" \in Lists /\ PanelOf[tab] \subseteq Lists
    BY DEF DashboardInv, DashboardType, Tabs, PanelOf, Lists
  <2> QED BY <2>1
<1>4. FlightsFit(flights, busy, tab) /\ flights \in Seq(FlightType)
  BY DEF DashboardInv, FlightsFit
<1>7. PICK new : new = {Request(kind, t) : kind \in kinds}
  OBVIOUS
<1>8. Grows(flights', flights, new)
  BY <1>1, <1>4, <1>7, Fetched DEF SelectTenant
<1>9. \A e \in new : e.kind \in kinds
  BY <1>7, RequestType
<1>10. \A e \in new : OfTab(e, tab) /\ e.kind # "decide"
  BY <1>1, <1>9 DEF OfTab, Lists
<1>11. FlightsFit(flights', busy, tab)
  BY <1>4, <1>8, <1>10, GrowthFits
<1>12. tenant' = t /\ UNCHANGED <<theCase, tab, panel, shown, busy>>
  BY DEF SelectTenant, Click, server
<1>13. DashboardType'
  BY <1>12 DEF DashboardInv, DashboardType
<1>14. ASSUME NEW kind \in kinds PROVE Awaited(flights', kind, tenant', Current(kind)')
  <2>1. PICK e \in new : e = Request(kind, t)
    BY <1>7
  <2>2. e.kind = kind /\ e.mounted /\ ~e.ok /\ e.tenant = t
    BY <2>1, RequestType
  <2>3. \A answers : Awaited(flights', e.kind, e.tenant, answers)
    BY <1>8, <2>2, GrowthAwaits
  <2> QED BY <1>12, <2>2, <2>3
<1>15. PaymentsCurrent' /\ PanelCurrent'
  BY <1>1, <1>12, <1>14 DEF PaymentsCurrent, PanelCurrent
<1> QED BY <1>11, <1>12, <1>13, <1>15 DEF DashboardInv

\* A list is shown as it is, or will be: what an answer needs to be for that.
LEMMA AnsweringStep ==
  ASSUME DashboardInv, NEW i \in DOMAIN flights, NEW ok \in BOOLEAN, NEW answer \in AnswerType,
         flights[i].stage = "sent",
         flights' = [flights EXCEPT ![i].stage = "answered", ![i].ok = ok, ![i].answer = answer],
         UNCHANGED <<tenant, tab, panel, shown, selected, busy, disturbed>>,
         theCase'.status \in Statuses,
         \A kind \in Lists :
           \/ flights[i].kind = Refresher[kind] /\ ok
           \/ /\ Current(kind)' = Current(kind)
              /\ kind = "cases" => theCase' = theCase
              /\ ok /\ flights[i].kind = kind /\ flights[i].tenant = tenant =>
                   answer \in Current(kind)
  PROVE  DashboardInv'
<1>1. flights \in Seq(FlightType) /\ FlightsFit(flights, busy, tab)
  BY DEF DashboardInv, FlightsFit
<1>2. Answers(flights', flights, i, ok, answer)
  <2>1. Answers(AnswerIn(flights, i, ok, answer), flights, i, ok, answer)
    BY <1>1, AnswerIs
  <2>2. flights' = AnswerIn(flights, i, ok, answer)
    BY DEF AnswerIn
  <2> QED BY <2>1, <2>2
<1>3. FlightsFit(flights', busy, tab)
  BY <1>1, <1>2, AnsweringFits
<1>4. DashboardType'
  BY DEF DashboardInv, DashboardType
<1>5. ASSUME NEW kind \in Lists, flights[i].kind = Refresher[kind], ok
      PROVE  Awaited(flights', kind, tenant', Current(kind)')
  <2>1. /\ i \in DOMAIN flights' /\ flights'[i].kind = Refresher[kind]
        /\ flights'[i].stage = "answered" /\ flights'[i].ok
    BY <1>2, <1>5 DEF Answers
  <2> QED BY <2>1 DEF Awaited
<1>6. ASSUME NEW kind \in Lists, ~(flights[i].kind = Refresher[kind] /\ ok)
      PROVE  /\ Awaited(flights, kind, tenant, Current(kind)) =>
                  Awaited(flights', kind, tenant', Current(kind)')
             /\ Silent(flights, kind) => Silent(flights', kind)
             /\ Current(kind)' = Current(kind) /\ (kind = "cases" => theCase' = theCase)
  <2>1. PICK answers : answers = Current(kind) /\ answers = Current(kind)'
    BY <1>6
  <2>2. ok /\ flights[i].kind = kind /\ flights[i].tenant = tenant => answer \in answers
    BY <1>6, <2>1
  <2>3. /\ Awaited(flights, kind, tenant, answers) => Awaited(flights', kind, tenant, answers)
        /\ Silent(flights, kind) => Silent(flights', kind)
    BY <1>2, <2>2, AnsweringAwaits
  <2> QED BY <1>6, <2>1, <2>3
<1>7. "payments" \in Lists /\ PanelOf[tab] \subseteq Lists
  BY DEF DashboardInv, DashboardType, Tabs, PanelOf, Lists
<1>8. PaymentsCurrent => PaymentsCurrent'
  BY <1>5, <1>6, <1>7 DEF PaymentsCurrent
<1>9. ASSUME PanelCurrent, NEW kind \in PanelOf[tab]
      PROVE  \/ Awaited(flights', kind, tenant', Current(kind)')
             \/ /\ Silent(flights', kind) /\ panel' \in Current(kind)'
                /\ kind = "cases" /\ tenant' = Home => selected' = theCase'.status
  <2>1. CASE flights[i].kind = Refresher[kind] /\ ok
    BY <1>5, <1>7, <2>1
  <2>2. CASE ~(flights[i].kind = Refresher[kind] /\ ok)
    <3>1. \/ Awaited(flights, kind, tenant, Current(kind))
          \/ /\ Silent(flights, kind) /\ panel \in Current(kind)
             /\ kind = "cases" /\ tenant = Home => selected = theCase.status
      BY <1>9 DEF PanelCurrent
    <3>2. /\ Awaited(flights, kind, tenant, Current(kind)) =>
               Awaited(flights', kind, tenant', Current(kind)')
          /\ Silent(flights, kind) => Silent(flights', kind)
          /\ Current(kind)' = Current(kind) /\ (kind = "cases" => theCase' = theCase)
      BY <1>6, <1>7, <2>2
    <3> QED BY <3>1, <3>2
  <2> QED BY <2>1, <2>2
<1>10. PanelCurrent => PanelCurrent'
  BY <1>9 DEF PanelCurrent
<1> QED BY <1>3, <1>4, <1>8, <1>10 DEF DashboardInv

\* What a list answers.
LEMMA ListingType ==
  ASSUME DashboardType, NEW kind, NEW t \in Tenants
  PROVE  Listing(kind, t) \in AnswerType /\ Listing(kind, t).of = t
BY DEF DashboardType, Listing, AnswerType, Statuses

\* The API handles a request: a list is answered as it is, and a seed or a decision that
\* changes a list will have it fetched again.
LEMMA HandleStep ==
  ASSUME DashboardInv, NEW i \in DOMAIN flights, Handle(i)
  PROVE  DashboardInv'
<1>1. PICK f : f = flights[i]
  OBVIOUS
<1>2. /\ f \in FlightType /\ f.stage = "sent" /\ f.tenant \in Tenants
      /\ f.kind = "decide" => f.decision \in {"APPROVED", "REJECTED"}
  <2>1. f \in FlightType /\ (f.kind = "decide" => f.decision # "none")
    BY <1>1 DEF DashboardInv, FlightsFit
  <2>2. f.stage = "sent"
    BY <1>1 DEF Handle
  <2> QED BY <2>1, <2>2 DEF FlightType
<1>3. Nothing \in AnswerType /\ DashboardType
  BY DEF Nothing, AnswerType, DashboardInv
<1>4. CASE Answered(i, FALSE, Nothing) /\ UNCHANGED server
  <2>1. \A kind : Current(kind)' = Current(kind)
    BY <1>4, SameCurrent DEF Answered, server
  <2>2. theCase' = theCase /\ theCase'.status \in Statuses
    BY <1>3, <1>4 DEF server, DashboardType
  <2>7. \A kind \in Lists :
          \/ flights[i].kind = Refresher[kind] /\ FALSE
          \/ /\ Current(kind)' = Current(kind)
             /\ kind = "cases" => theCase' = theCase
             /\ FALSE /\ flights[i].kind = kind /\ flights[i].tenant = tenant =>
                  Nothing \in Current(kind)
    BY <1>1, <1>4, <2>1, <2>2
  <2>8. /\ flights' = [flights EXCEPT ![i].stage = "answered", ![i].ok = FALSE,
                                       ![i].answer = Nothing]
        /\ UNCHANGED <<tenant, tab, panel, shown, selected, busy, disturbed>>
        /\ flights[i].stage = "sent"
    BY <1>1, <1>2, <1>4 DEF Answered
  <2> QED BY <1>3, <2>2, <2>7, <2>8, AnsweringStep
<1>5. CASE f.kind = "seed" /\ Seed(f.tenant) /\ Answered(i, TRUE, Nothing)
  <2>1. theCase' = theCase /\ theCase'.status \in Statuses
    BY <1>3, <1>5 DEF Seed, DashboardType
  <2>2. ASSUME NEW kind \in Lists, kind # "payments" PROVE Current(kind)' = Current(kind)
    BY <1>5, <2>1, <2>2 DEF Current, Listing, Lists, Answered
  <2>3. Refresher["payments"] = "seed" /\ "seed" \notin Lists
    BY DEF Refresher, Lists
  <2>7. \A kind \in Lists :
          \/ flights[i].kind = Refresher[kind] /\ TRUE
          \/ /\ Current(kind)' = Current(kind)
             /\ kind = "cases" => theCase' = theCase
             /\ TRUE /\ flights[i].kind = kind /\ flights[i].tenant = tenant =>
                  Nothing \in Current(kind)
    BY <1>1, <1>5, <2>1, <2>2, <2>3
  <2>8. /\ flights' = [flights EXCEPT ![i].stage = "answered", ![i].ok = TRUE,
                                       ![i].answer = Nothing]
        /\ UNCHANGED <<tenant, tab, panel, shown, selected, busy, disturbed>>
        /\ flights[i].stage = "sent"
    BY <1>1, <1>2, <1>5, <2>3 DEF Answered
  <2> QED BY <1>3, <2>1, <2>7, <2>8, AnsweringStep
<1>6. CASE f.kind = "decide" /\ Decide(f.decision, 0) /\ Answered(i, TRUE, Nothing)
  <2>1. theCase'.status \in Statuses
    BY <1>2, <1>6 DEF Decide, Statuses
  <2>2. ASSUME NEW kind \in Lists, kind # "cases" PROVE Current(kind)' = Current(kind)
    BY <1>6, <2>2 DEF Current, Listing, Lists, Answered, Decide
  <2>3. Refresher["cases"] = "decide" /\ "decide" \notin Lists
    BY DEF Refresher, Lists
  <2>7. \A kind \in Lists :
          \/ flights[i].kind = Refresher[kind] /\ TRUE
          \/ /\ Current(kind)' = Current(kind)
             /\ kind = "cases" => theCase' = theCase
             /\ TRUE /\ flights[i].kind = kind /\ flights[i].tenant = tenant =>
                  Nothing \in Current(kind)
    BY <1>1, <1>6, <2>1, <2>2, <2>3
  <2>8. /\ flights' = [flights EXCEPT ![i].stage = "answered", ![i].ok = TRUE,
                                       ![i].answer = Nothing]
        /\ UNCHANGED <<tenant, tab, panel, shown, selected, busy, disturbed>>
        /\ flights[i].stage = "sent"
    BY <1>1, <1>2, <1>6, <2>3 DEF Answered
  <2> QED BY <1>3, <2>1, <2>7, <2>8, AnsweringStep
<1>7. CASE f.kind \in Lists /\ Answered(i, TRUE, Listing(f.kind, f.tenant)) /\ UNCHANGED server
  <2>1. \A kind : Current(kind)' = Current(kind)
    BY <1>7, SameCurrent DEF Answered, server
  <2>2. theCase' = theCase /\ theCase'.status \in Statuses
    BY <1>3, <1>7 DEF server, DashboardType
  <2>3. PICK answer \in AnswerType : answer = Listing(f.kind, f.tenant) /\ answer.of = f.tenant
    BY <1>2, <1>3, ListingType
  <2>4. f.tenant = tenant => answer \in Current(f.kind)
    BY <2>3 DEF Current
  <2>7. \A kind \in Lists :
          \/ flights[i].kind = Refresher[kind] /\ TRUE
          \/ /\ Current(kind)' = Current(kind)
             /\ kind = "cases" => theCase' = theCase
             /\ TRUE /\ flights[i].kind = kind /\ flights[i].tenant = tenant =>
                  answer \in Current(kind)
    BY <1>1, <1>7, <2>1, <2>2, <2>3, <2>4
  <2>8. /\ flights' = [flights EXCEPT ![i].stage = "answered", ![i].ok = TRUE, ![i].answer = answer]
        /\ UNCHANGED <<tenant, tab, panel, shown, selected, busy, disturbed>>
        /\ flights[i].stage = "sent"
    BY <1>1, <1>2, <1>7, <2>3 DEF Answered
  <2> QED BY <1>3, <2>2, <2>7, <2>8, AnsweringStep
<1> QED BY <1>1, <1>4, <1>5, <1>6, <1>7 DEF Handle

\* The list that is heard of: what is left of the requests, and what the dashboard then shows.
LEMMA HearingShrinks ==
  ASSUME DashboardInv, NEW i \in DOMAIN flights
  PROVE  Shrinks(Others(i), flights, i)
<1>1. flights \in Seq(FlightType)
  BY DEF DashboardInv, FlightsFit
<1>2. PICK gs : gs = RemoveAt([j \in DOMAIN flights |->
                [flights[j] EXCEPT !.late = @ \/ (j < i /\ flights[j].kind = flights[i].kind)]], i)
  OBVIOUS
<1>3. Shrinks(gs, flights, i)
  BY <1>1, <1>2, OthersShrink
<1> QED BY <1>2, <1>3 DEF Others

\* The lists that are not heard of stay as they are, or awaited.
LEMMA OtherListsKeep ==
  ASSUME DashboardInv, NEW i \in DOMAIN flights, NEW kind, kind # flights[i].kind,
         ~(flights[i].kind = Refresher[kind] /\ flights[i].stage = "answered" /\ flights[i].ok),
         NEW t, NEW answers
  PROVE  /\ Silent(flights, kind) => Silent(Others(i), kind)
         /\ Awaited(flights, kind, t, answers) => Awaited(Others(i), kind, t, answers)
<1>1. PICK gs : gs = Others(i) /\ Shrinks(gs, flights, i)
  BY HearingShrinks
<1> QED BY <1>1, ShrinkingKeeps

\* A list is heard of.
LEMMA ListStep ==
  ASSUME DashboardInv, NEW i \in DOMAIN flights, flights[i].kind \in Lists, HearList(i),
         theCase' = theCase, owner' = owner,
         panel' \in AnswerType, shown' \in AnswerType,
         flights[i].kind # "payments" => shown' = shown,
         flights[i].kind = "payments" => panel' = panel /\ selected' = selected,
         flights[i].kind = "payments" /\ flights[i].ok => shown' = flights[i].answer,
         ~flights[i].mounted => panel' = panel /\ selected' = selected,
         flights[i].kind # "cases" => selected' = selected,
         flights[i].kind # "payments" /\ flights[i].ok /\ flights[i].mounted =>
           /\ panel' = flights[i].answer
           /\ flights[i].kind = "cases" /\ flights[i].answer.data # "none" =>
                selected' = flights[i].answer.data
  PROVE  DashboardInv'
<1>1. PICK f : f = flights[i]
  OBVIOUS
<1>2. PICK gs : gs = Others(i)
  OBVIOUS
<1>3. Shrinks(gs, flights, i)
  BY <1>2, HearingShrinks
<1>4. /\ flights' = gs /\ UNCHANGED <<tenant, tab, busy>>
      /\ ~disturbed' => ~disturbed /\ f.ok /\ ~f.late
  BY <1>1, <1>2 DEF HearList, server
<1>5. FlightsFit(gs, busy, tab)
  <2>1. \A button \in busy : ~BusyFor(button, flights[i])
    BY DEF BusyFor, Lists
  <2>2. FlightsFit(flights, busy, tab)
    BY DEF DashboardInv
  <2> QED BY <1>3, <2>1, <2>2, ShrinkingFits
<1>6. DashboardType'
  BY <1>4 DEF DashboardInv, DashboardType
<1>7. \A kind : Current(kind)' = Current(kind)
  BY <1>4, SameCurrent
<1>8. f.kind \notin {"seed", "decide"} /\ f.kind \in Lists
  BY <1>1 DEF Lists
<1>9. ASSUME NEW kind \in Lists, kind # f.kind, NEW t, NEW answers
      PROVE  /\ Silent(flights, kind) => Silent(gs, kind)
             /\ Awaited(flights, kind, t, answers) => Awaited(gs, kind, t, answers)
  <2>1. f.kind # Refresher[kind]
    BY <1>8 DEF Refresher, Lists
  <2> QED BY <1>1, <1>2, <1>9, <2>1, OtherListsKeep
<1>10. ASSUME f.ok, ~f.late, Awaited(flights, f.kind, tenant, Current(f.kind))
       PROVE  \/ Awaited(gs, f.kind, tenant, Current(f.kind))
              \/ /\ Silent(gs, f.kind) /\ f.answer \in Current(f.kind)
                 /\ f.kind = "payments" \/ f.mounted
  <2>1. PICK kind, answers, t : kind = f.kind /\ answers = Current(f.kind) /\ t = tenant
    OBVIOUS
  <2>2. \/ Awaited(gs, kind, t, answers)
        \/ /\ Silent(gs, kind) /\ flights[i].tenant = t /\ flights[i].answer \in answers
           /\ kind = "payments" \/ flights[i].mounted
    BY <1>1, <1>3, <1>8, <1>10, <2>1, ShrinkingAnswers
  <2> QED BY <1>1, <2>1, <2>2
<1>11. ~Silent(flights, f.kind)
  BY <1>1 DEF Silent
<1>12. ASSUME f.ok, ~f.late, PaymentsCurrent
       PROVE  PaymentsCurrent'
  <2>1. CASE f.kind = "payments"
    BY <1>1, <1>4, <1>7, <1>10, <1>11, <1>12, <2>1 DEF PaymentsCurrent
  <2>2. CASE f.kind # "payments"
    <3>1. "payments" \in Lists
      BY DEF Lists
    <3> QED BY <1>1, <1>4, <1>7, <1>9, <1>12, <2>2, <3>1 DEF PaymentsCurrent
  <2> QED BY <2>1, <2>2
<1>13. ASSUME f.ok, ~f.late, PanelCurrent, NEW kind \in PanelOf[tab]
       PROVE  \/ Awaited(gs, kind, tenant, Current(kind))
              \/ /\ Silent(gs, kind) /\ panel' \in Current(kind)
                 /\ kind = "cases" /\ tenant = Home => selected' = theCase.status
  <2>1. /\ kind \in Lists /\ kind # "payments"
        /\ \A k \in PanelOf[tab] : k = kind
    BY DEF DashboardInv, DashboardType, Tabs, PanelOf, Lists
  <2>2. \/ Awaited(flights, kind, tenant, Current(kind))
        \/ /\ Silent(flights, kind) /\ panel \in Current(kind)
           /\ kind = "cases" /\ tenant = Home => selected = theCase.status
    BY <1>13 DEF PanelCurrent
  <2>3. CASE kind = f.kind
    <3>1. \/ Awaited(gs, kind, tenant, Current(kind))
          \/ Silent(gs, kind) /\ f.answer \in Current(kind) /\ f.mounted
      BY <1>10, <1>11, <1>13, <2>1, <2>2, <2>3
    <3>2. ASSUME f.mounted, f.answer \in Current(kind)
          PROVE  /\ panel' \in Current(kind)
                 /\ kind = "cases" /\ tenant = Home => selected' = theCase.status
      <4>1. panel' = f.answer
        BY <1>1, <1>13, <2>1, <2>3, <3>2
      <4>2. ASSUME kind = "cases", tenant = Home PROVE selected' = theCase.status
        <5>1. f.answer.data = theCase.status
          BY <3>2, <4>2 DEF Current, Listing
        <5>2. theCase.status # "none"
          BY DEF DashboardInv, DashboardType, Statuses
        <5> QED BY <1>1, <1>13, <2>1, <2>3, <3>2, <4>2, <5>1, <5>2
      <4> QED BY <3>2, <4>1, <4>2
    <3> QED BY <3>1, <3>2
  <2>4. CASE kind # f.kind
    <3>1. panel' = panel /\ selected' = selected
      <4>1. f.kind # "payments" => ~f.mounted
        <5>1. OfTab(f, tab)
          BY <1>1 DEF DashboardInv, FlightsFit
        <5> QED BY <1>8, <2>1, <2>4, <5>1 DEF OfTab, Lists
      <4> QED BY <1>1, <4>1
    <3> QED BY <1>9, <2>1, <2>2, <2>4, <3>1
  <2> QED BY <2>3, <2>4
<1>14. ASSUME f.ok, ~f.late, PanelCurrent PROVE PanelCurrent'
  BY <1>4, <1>7, <1>13, <1>14 DEF PanelCurrent
<1> QED BY <1>4, <1>5, <1>6, <1>12, <1>14 DEF DashboardInv

\* The answers to the requests for lists.
LEMMA HearListSteps ==
  ASSUME DashboardInv, NEW i \in DOMAIN flights, HearPayments(i) \/ HearRecords(i) \/ HearCases(i)
  PROVE  DashboardInv'
<1>1. /\ flights[i].answer \in AnswerType /\ panel \in AnswerType /\ shown \in AnswerType
  <2>1. flights[i] \in FlightType
    BY DEF DashboardInv, FlightsFit
  <2> QED BY <2>1 DEF DashboardInv, DashboardType, FlightType
<1>2. CASE HearPayments(i)
  <2>1. flights[i].kind = "payments" /\ "payments" \in Lists
    BY <1>2 DEF HearPayments, Lists
  <2>2. HearList(i) /\ UNCHANGED <<theCase, owner>>
    BY <1>2 DEF HearPayments, HearList, server
  <2> QED BY <1>1, <1>2, <2>1, <2>2, ListStep DEF HearPayments
<1>3. CASE HearRecords(i)
  <2>1. flights[i].kind \in Lists /\ flights[i].kind # "payments" /\ flights[i].kind # "cases"
    BY <1>3 DEF HearRecords, Lists
  <2>2. HearList(i) /\ UNCHANGED <<theCase, owner>>
    BY <1>3 DEF HearRecords, HearList, server
  <2>3. shown' \in AnswerType /\ panel' \in AnswerType
    BY <1>1, <1>3 DEF HearRecords
  <2> QED BY <1>3, <2>1, <2>2, <2>3, ListStep DEF HearRecords
<1>4. CASE HearCases(i)
  <2>1. flights[i].kind = "cases" /\ "cases" \in Lists
    BY <1>4 DEF HearCases, Lists
  <2>2. HearList(i) /\ UNCHANGED <<theCase, owner>>
    BY <1>4 DEF HearCases, HearList, server
  <2>3. shown' \in AnswerType /\ panel' \in AnswerType
    BY <1>1, <1>4 DEF HearCases
  <2> QED BY <1>4, <2>1, <2>2, <2>3, ListStep DEF HearCases
<1> QED BY <1>2, <1>3, <1>4

\* After the seed, the payments are fetched for the tenant that is selected.
LEMMA HearSeedStep ==
  ASSUME DashboardInv, NEW i \in DOMAIN flights, HearSeed(i)
  PROVE  DashboardInv'
<1>1. PICK gs : gs = Others(i) /\ Shrinks(gs, flights, i)
  BY HearingShrinks
<1>2. PICK fewer : fewer = busy \ {"seed"}
  OBVIOUS
<1>3. flights[i].kind = "seed" /\ tenant \in Tenants
  BY DEF HearSeed, DashboardInv, DashboardType
<1>4. FlightsFit(gs, fewer, tab)
  <2>1. \A button \in fewer : button \in busy /\ ~BusyFor(button, flights[i])
    BY <1>2, <1>3 DEF BusyFor
  <2>2. FlightsFit(flights, busy, tab)
    BY DEF DashboardInv
  <2> QED BY <1>1, <2>1, <2>2, ShrinkingFits
<1>5. gs \in Seq(FlightType)
  BY <1>1 DEF Shrinks
<1>6. PICK e : e = Request("payments", tenant)
  OBVIOUS
<1>7. /\ e \in FlightType /\ e.kind = "payments" /\ e.tenant = tenant /\ ~e.ok /\ e.mounted
      /\ "payments" \in Lists
  BY <1>3, <1>6, RequestType DEF Lists
<1>8. Grows(flights', gs, {e})
  <2>1. Grows(gs \o Fetches({"payments"}, tenant), gs,
              {Request(kind, tenant) : kind \in {"payments"}})
    BY <1>3, <1>5, <1>7, Fetched
  <2>2. {Request(kind, tenant) : kind \in {"payments"}} = {e}
    BY <1>6
  <2> QED BY <1>1, <2>1, <2>2 DEF HearSeed
<1>9. /\ busy' = fewer
      /\ UNCHANGED <<theCase, owner, tenant, tab, panel, shown, selected, disturbed>>
  BY <1>2 DEF HearSeed, server
<1>10. FlightsFit(flights', fewer, tab)
  <2>1. OfTab(e, tab) /\ e.kind # "decide"
    BY <1>7 DEF OfTab
  <2> QED BY <1>4, <1>8, <2>1, GrowthFits
<1>11. DashboardType'
  BY <1>9 DEF DashboardInv, DashboardType
<1>12. \A answers : Awaited(flights', "payments", tenant, answers)
  BY <1>7, <1>8, GrowthAwaits
<1>13. PaymentsCurrent'
  BY <1>9, <1>12 DEF PaymentsCurrent
<1>14. ASSUME NEW kind \in PanelOf[tab]
       PROVE  /\ Silent(flights, kind) => Silent(flights', kind)
              /\ Awaited(flights, kind, tenant, Current(kind)) =>
                   Awaited(flights', kind, tenant', Current(kind)')
              /\ Current(kind)' = Current(kind)
  <2>1. kind \in {"ledger", "cases", "audit"}
    BY DEF DashboardInv, DashboardType, Tabs, PanelOf
  <2>2. kind # flights[i].kind /\ flights[i].kind # Refresher[kind] /\ kind # e.kind
    BY <1>3, <1>7, <2>1 DEF Refresher
  <2>3. PICK answers : answers = Current(kind) /\ answers = Current(kind)'
    BY <1>9, SameCurrent
  <2>4. /\ Silent(flights, kind) => Silent(gs, kind)
        /\ Awaited(flights, kind, tenant, answers) => Awaited(gs, kind, tenant, answers)
    BY <1>1, <2>2, OtherListsKeep
  <2>5. /\ Silent(gs, kind) => Silent(flights', kind)
        /\ Awaited(gs, kind, tenant, answers) => Awaited(flights', kind, tenant, answers)
    BY <1>8, <2>2, GrowthKeeps
  <2> QED BY <1>9, <2>3, <2>4, <2>5
<1>15. PanelCurrent => PanelCurrent'
  BY <1>9, <1>14 DEF PanelCurrent
<1> QED BY <1>9, <1>10, <1>11, <1>13, <1>15 DEF DashboardInv

\* After a decision, the cases are fetched, if the panel and the tenant are the same.
LEMMA HearDecisionStep ==
  ASSUME DashboardInv, NEW i \in DOMAIN flights, flights[i].stage = "answered", HearDecision(i)
  PROVE  DashboardInv'
<1>0. PICK f : f = flights[i]
  OBVIOUS
<1>1. PICK gs : gs = Others(i) /\ Shrinks(gs, flights, i)
  BY HearingShrinks
<1>2. f \in FlightType /\ f.kind = "decide" /\ OfTab(f, tab)
  BY <1>0 DEF HearDecision, DashboardInv, FlightsFit
<1>3. /\ busy' = IF f.mounted THEN busy \ {"decide"} ELSE busy
      /\ UNCHANGED <<theCase, owner, tenant, tab, panel, shown, selected>>
      /\ ~disturbed' => ~disturbed /\ f.mounted /\ f.tenant = tenant
  BY <1>0 DEF HearDecision, server
<1>4. FlightsFit(gs, busy', tab)
  <2>1. PICK fewer : fewer = busy'
    OBVIOUS
  <2>2. \A button \in fewer : button \in busy /\ ~BusyFor(button, flights[i])
    BY <1>0, <1>2, <1>3, <2>1 DEF BusyFor
  <2>3. FlightsFit(flights, busy, tab)
    BY DEF DashboardInv
  <2> QED BY <1>1, <2>1, <2>2, <2>3, ShrinkingFits
<1>5. gs \in Seq(FlightType)
  BY <1>1 DEF Shrinks
<1>6. PICK r : r = Request("cases", f.tenant)
  OBVIOUS
<1>7. PICK e : e = [r EXCEPT !.mounted = f.mounted]
  OBVIOUS
<1>8. f.tenant \in Tenants /\ f.mounted \in BOOLEAN
  BY <1>2 DEF FlightType
<1>9. r \in FlightType /\ r.kind = "cases" /\ r.tenant = f.tenant /\ ~r.ok
  BY <1>6, <1>8, RequestType DEF Lists
<1>10. e \in FlightType /\ e.kind = "cases" /\ e.tenant = f.tenant /\ ~e.ok /\ e.mounted = f.mounted
  BY <1>7, <1>8, <1>9 DEF FlightType
<1>11. flights' = IF f.ok THEN Append(gs, e) ELSE gs
  BY <1>0, <1>1, <1>6, <1>7 DEF HearDecision
<1>12. Grows(Append(gs, e), gs, {e})
  BY <1>5, <1>10, OneMore
<1>13. FlightsFit(flights', busy', tab)
  <2>1. OfTab(e, tab)
    BY <1>2, <1>10 DEF OfTab, PanelOf
  <2>2. PICK waiting : waiting = busy'
    OBVIOUS
  <2>3. FlightsFit(Append(gs, e), waiting, tab)
    BY <1>4, <1>10, <1>12, <2>1, <2>2, GrowthFits
  <2> QED BY <1>4, <1>11, <2>2, <2>3
<1>14. DashboardType'
  BY <1>3 DEF DashboardInv, DashboardType
<1>15. ASSUME NEW kind \in Lists, kind = "cases" => ~f.ok
       PROVE  /\ Silent(flights, kind) => Silent(flights', kind)
              /\ Awaited(flights, kind, tenant, Current(kind)) =>
                   Awaited(flights', kind, tenant', Current(kind)')
              /\ Current(kind)' = Current(kind)
  <2>1. kind # f.kind /\ ~(f.kind = Refresher[kind] /\ f.ok)
    BY <1>2, <1>15 DEF Refresher, Lists
  <2>2. PICK answers : answers = Current(kind) /\ answers = Current(kind)'
    BY <1>3, SameCurrent
  <2>3. /\ Silent(flights, kind) => Silent(gs, kind)
        /\ Awaited(flights, kind, tenant, answers) => Awaited(gs, kind, tenant, answers)
    BY <1>0, <1>1, <2>1, OtherListsKeep
  <2>4. CASE f.ok
    <3>1. kind # e.kind
      BY <1>10, <1>15, <2>4
    <3>2. /\ Silent(gs, kind) => Silent(Append(gs, e), kind)
          /\ Awaited(gs, kind, tenant, answers) => Awaited(Append(gs, e), kind, tenant, answers)
      BY <1>12, <3>1, GrowthKeeps
    <3> QED BY <1>3, <1>11, <2>2, <2>3, <2>4, <3>2
  <2>5. CASE ~f.ok
    BY <1>3, <1>11, <2>2, <2>3, <2>5
  <2> QED BY <2>4, <2>5
<1>16. PaymentsCurrent => PaymentsCurrent'
  <2>1. "payments" \in Lists
    BY DEF Lists
  <2>2. /\ Silent(flights, "payments") => Silent(flights', "payments")
        /\ Awaited(flights, "payments", tenant, Current("payments")) =>
             Awaited(flights', "payments", tenant', Current("payments")')
        /\ Current("payments")' = Current("payments")
    BY <1>15, <2>1
  <2> QED BY <1>3, <2>2 DEF PaymentsCurrent
<1>17. ASSUME f.mounted, f.tenant = tenant, PanelCurrent PROVE PanelCurrent'
  <2>1. PanelOf[tab] = {"cases"}
    BY <1>2, <1>17 DEF OfTab, PanelOf
  <2>2. CASE f.ok
    <3>1. \A answers : Awaited(Append(gs, e), "cases", tenant, answers)
      BY <1>10, <1>12, <1>17, GrowthAwaits
    <3> QED BY <1>3, <1>11, <2>1, <2>2, <3>1 DEF PanelCurrent
  <2>3. CASE ~f.ok
    <3>1. "cases" \in Lists
      BY DEF Lists
    <3> QED BY <1>3, <1>15, <1>17, <2>1, <2>3, <3>1 DEF PanelCurrent
  <2> QED BY <2>2, <2>3
<1> QED BY <1>3, <1>13, <1>14, <1>16, <1>17 DEF DashboardInv

\* A payment is answered or lost: no list changes.
LEMMA HearPayStep ==
  ASSUME DashboardInv, NEW i \in DOMAIN flights, HearPay(i)
  PROVE  DashboardInv'
<1>0. PICK f : f = flights[i]
  OBVIOUS
<1>1. PICK gs : gs = Others(i) /\ Shrinks(gs, flights, i)
  BY HearingShrinks
<1>2. f \in FlightType /\ f.kind = "pay" /\ OfTab(f, tab)
  BY <1>0 DEF HearPay, DashboardInv, FlightsFit
<1>3. /\ busy' = IF f.call # 1 /\ f.mounted
                 THEN busy \ {IF f.call = 0 THEN "pay" ELSE "test"} ELSE busy
      /\ UNCHANGED <<theCase, owner, tenant, tab, panel, shown, selected, disturbed>>
  BY <1>0 DEF HearPay, AfterPay, server
<1>4. PICK fewer : fewer = {button \in busy : ~BusyFor(button, f)}
  OBVIOUS
<1>5. FlightsFit(gs, fewer, tab)
  <2>1. \A button \in fewer : button \in busy /\ ~BusyFor(button, flights[i])
    BY <1>0, <1>4
  <2>2. FlightsFit(flights, busy, tab)
    BY DEF DashboardInv
  <2> QED BY <1>1, <2>1, <2>2, ShrinkingFits
<1>6. gs \in Seq(FlightType)
  BY <1>1 DEF Shrinks
<1>7. f.tenant \in Tenants /\ f.mounted \in BOOLEAN /\ f.call \in 0 .. 2
  BY <1>2 DEF FlightType
<1>8. PICK r : r = Request("pay", f.tenant)
  OBVIOUS
<1>9. r \in FlightType /\ r.kind = "pay"
  BY <1>7, <1>8, RequestType
<1>10. PICK e : e = [[r EXCEPT !.call = 2, !.readable = FALSE] EXCEPT !.mounted = f.mounted]
  OBVIOUS
<1>11. 2 \in 0 .. 2
  OBVIOUS
<1>12. e \in FlightType /\ e.kind = "pay" /\ e.call = 2 /\ e.mounted = f.mounted
  BY <1>7, <1>9, <1>10, <1>11, Zenon DEF FlightType
<1>13. flights' = IF f.call = 1 THEN Append(gs, e) ELSE gs
  BY <1>0, <1>1, <1>8, <1>10 DEF HearPay, AfterPay, makeRequest
<1>14. Grows(Append(gs, e), gs, {e})
  BY <1>6, <1>12, OneMore
<1>15. FlightsFit(flights', busy', tab)
  <2>1. CASE f.call = 1
    <3>1. OfTab(e, tab) /\ e.kind # "decide"
      BY <1>12 DEF OfTab
    <3>2. \A button \in busy : button \in fewer \/ BusyFor(button, e)
      BY <1>2, <1>4, <1>12, <2>1 DEF BusyFor
    <3>3. FlightsFit(Append(gs, e), busy, tab)
      BY <1>5, <1>14, <3>1, <3>2, GrowthFits
    <3> QED BY <1>3, <1>13, <2>1, <3>3
  <2>2. CASE f.call # 1
    <3>1. busy' \subseteq fewer
      BY <1>2, <1>3, <1>4, <2>2 DEF BusyFor
    <3>2. FlightsFit(gs, busy', tab)
      BY <1>5, <3>1 DEF FlightsFit
    <3> QED BY <1>13, <2>2, <3>2
  <2> QED BY <2>1, <2>2
<1>16. DashboardType'
  BY <1>3 DEF DashboardInv, DashboardType
<1>17. ASSUME NEW kind \in Lists
       PROVE  /\ Silent(flights, kind) => Silent(flights', kind)
              /\ Awaited(flights, kind, tenant, Current(kind)) =>
                   Awaited(flights', kind, tenant', Current(kind)')
              /\ Current(kind)' = Current(kind)
  <2>1. kind # f.kind /\ f.kind # Refresher[kind] /\ kind # e.kind
    BY <1>2, <1>12 DEF Refresher, Lists
  <2>2. PICK answers : answers = Current(kind) /\ answers = Current(kind)'
    BY <1>3, SameCurrent
  <2>3. /\ Silent(flights, kind) => Silent(gs, kind)
        /\ Awaited(flights, kind, tenant, answers) => Awaited(gs, kind, tenant, answers)
    BY <1>0, <1>1, <2>1, OtherListsKeep
  <2>4. /\ Silent(gs, kind) => Silent(Append(gs, e), kind)
        /\ Awaited(gs, kind, tenant, answers) => Awaited(Append(gs, e), kind, tenant, answers)
    BY <1>14, <2>1, GrowthKeeps
  <2> QED BY <1>3, <1>13, <2>2, <2>3, <2>4
<1>18. "payments" \in Lists /\ PanelOf[tab] \subseteq Lists
  BY DEF DashboardInv, DashboardType, Tabs, PanelOf, Lists
<1>19. PaymentsCurrent => PaymentsCurrent'
  BY <1>3, <1>17, <1>18 DEF PaymentsCurrent
<1>20. PanelCurrent => PanelCurrent'
  BY <1>3, <1>17, <1>18 DEF PanelCurrent
<1> QED BY <1>3, <1>15, <1>16, <1>19, <1>20 DEF DashboardInv

\* The connection breaks: what waited for it no longer does.
LEMMA LoseStep ==
  ASSUME DashboardInv, NEW i \in DOMAIN flights, LoseOther(i)
  PROVE  DashboardInv'
<1>0. PICK f : f = flights[i]
  OBVIOUS
<1>1. PICK gs : gs = Others(i) /\ Shrinks(gs, flights, i)
  BY HearingShrinks
<1>2. f \in FlightType /\ f.kind # "pay"
  BY <1>0 DEF LoseOther, DashboardInv, FlightsFit
<1>3. /\ busy' = IF f.kind = "seed" \/ f.mounted THEN busy \ {f.kind} ELSE busy
      /\ UNCHANGED <<theCase, tenant, tab>> /\ disturbed' = TRUE /\ flights' = gs
  BY <1>0, <1>1 DEF LoseOther, server
<1>4. FlightsFit(gs, busy', tab)
  <2>1. PICK fewer : fewer = busy'
    OBVIOUS
  <2>2. \A button \in fewer : button \in busy /\ ~BusyFor(button, flights[i])
    BY <1>0, <1>2, <1>3, <2>1 DEF BusyFor
  <2>3. FlightsFit(flights, busy, tab)
    BY DEF DashboardInv
  <2> QED BY <1>1, <2>1, <2>2, <2>3, ShrinkingFits
<1>5. DashboardType'
  <2>1. Nothing \in AnswerType
    BY DEF Nothing, AnswerType
  <2> QED BY <1>3, <2>1 DEF DashboardInv, DashboardType, LoseOther
<1> QED BY <1>3, <1>4, <1>5 DEF DashboardInv

\* Other clients: nothing of the dashboard's changes, or it is disturbed.
LEMMA ClientStep ==
  ASSUME DashboardInv, UNCHANGED <<tenant, tab, panel, shown, selected, busy, flights>>,
         \/ UNCHANGED <<theCase, owner, disturbed>>
         \/ theCase'.status \in Statuses /\ disturbed' = TRUE
  PROVE  DashboardInv'
<1>1. DashboardType' /\ FlightsFit(flights, busy, tab)
  BY DEF DashboardInv, DashboardType
<1>2. FlightsFit(flights', busy', tab')
  BY <1>1
<1>3. CASE UNCHANGED <<theCase, owner, disturbed>>
  <2>1. \A kind : Current(kind)' = Current(kind)
    BY <1>3, SameCurrent
  <2> QED BY <1>1, <1>2, <1>3, <2>1 DEF DashboardInv, PaymentsCurrent, PanelCurrent
<1>4. CASE disturbed' = TRUE
  BY <1>1, <1>2, <1>4 DEF DashboardInv
<1> QED BY <1>3, <1>4

\* What other clients ask for disturbs the dashboard, or leaves what it shows as it is.
LEMMA ClientSteps ==
  ASSUME DashboardInv,
         \/ \E t \in Tenants, token \in Tokens, k \in Keys, body \in Bodies :
              ClientPays(t, token, k, body)
         \/ \E token \in Tokens, d \in {"APPROVED", "REJECTED"}, w \in BOOLEAN :
              ClientDecides(token, d, w)
         \/ \E token \in Tokens, w \in BOOLEAN : ClientMakesAccount(token, w)
         \/ \E t \in Tenants : ClientSeeds(t)
  PROVE  DashboardInv'
<1>1. UNCHANGED <<tenant, tab, panel, shown, selected, busy, flights>>
  BY DEF ClientPays, ClientDecides, ClientMakesAccount, ClientSeeds, ClientMay, browser
<1>2. theCase.status \in Statuses
  BY DEF DashboardInv, DashboardType
<1>3. ASSUME NEW t \in Tenants, NEW token \in Tokens, NEW k \in Keys, NEW body \in Bodies,
             ClientPays(t, token, k, body)
      PROVE  UNCHANGED <<theCase, owner, disturbed>>
  BY <1>3 DEF ClientPays, TurnedAway, server
<1>4. ASSUME NEW token \in Tokens, NEW d \in {"APPROVED", "REJECTED"}, NEW w \in BOOLEAN,
             ClientDecides(token, d, w)
      PROVE  \/ UNCHANGED <<theCase, owner, disturbed>>
             \/ theCase'.status \in Statuses /\ disturbed' = TRUE
  BY <1>4 DEF ClientDecides, TurnedAway, Decide, Statuses, server
<1>5. ASSUME NEW token \in Tokens, NEW w \in BOOLEAN, ClientMakesAccount(token, w)
      PROVE  UNCHANGED <<theCase, owner, disturbed>>
  BY <1>5 DEF ClientMakesAccount, CreateAccount, TurnedAway, server
<1>6. ASSUME NEW t \in Tenants, ClientSeeds(t)
      PROVE  theCase'.status \in Statuses /\ disturbed' = TRUE
  BY <1>2, <1>6 DEF ClientSeeds, Seed
<1> QED BY <1>1, <1>3, <1>4, <1>5, <1>6, ClientStep

\* The dashboard starts with the first requests under way.
LEMMA InitDashboard == Init => DashboardInv
<1> SUFFICES ASSUME Init PROVE DashboardInv
  OBVIOUS
<1>1. PICK kinds \in SUBSET Lists : kinds = {"payments", "ledger"}
  BY DEF Lists
<1>2. PICK new : new = {Request(kind, Home) : kind \in kinds}
  OBVIOUS
<1>3. PICK none : none = <<>>
  OBVIOUS
<1>4. none \in Seq(FlightType) /\ DOMAIN none = {} /\ none \o Fetches(kinds, Home) = flights
  BY <1>1, <1>3 DEF Init
<1>5. Grows(flights, none, new)
  BY <1>2, <1>4, BackOfficeAssumption, Fetched DEF BackOfficeAssumption
<1>6. /\ tenant = Home /\ tab = "overview" /\ busy = {} /\ panel = Nothing /\ shown = Nothing
      /\ theCase.status = "PENDING"
  BY DEF Init
<1>7. \A e \in new : OfTab(e, "overview") /\ e.kind # "decide"
  BY <1>1, <1>2, BackOfficeAssumption, RequestType DEF OfTab, PanelOf, BackOfficeAssumption
<1>8. FlightsFit(flights, busy, tab)
  <2>1. FlightsFit(none, {}, "overview")
    BY <1>4 DEF FlightsFit
  <2> QED BY <1>5, <1>6, <1>7, <2>1, GrowthFits
<1>9. DashboardType
  BY <1>6, BackOfficeAssumption DEF DashboardType, Nothing, AnswerType, Statuses, Tabs,
                                    BackOfficeAssumption
<1>10. ASSUME NEW kind \in kinds PROVE Awaited(flights, kind, tenant, Current(kind))
  <2>1. PICK e \in new : e = Request(kind, Home)
    BY <1>2
  <2>2. e.kind = kind /\ e.mounted /\ ~e.ok /\ e.tenant = Home
    BY <2>1, BackOfficeAssumption, RequestType DEF BackOfficeAssumption
  <2>3. \A answers : Awaited(flights, e.kind, e.tenant, answers)
    BY <1>5, <2>2, GrowthAwaits
  <2> QED BY <1>6, <2>2, <2>3
<1>11. PaymentsCurrent /\ PanelCurrent
  BY <1>1, <1>6, <1>10 DEF PaymentsCurrent, PanelCurrent, PanelOf
<1> QED BY <1>8, <1>9, <1>11 DEF DashboardInv

\* Every step keeps the lists current, or awaited.
LEMMA NextDashboard == DashboardInv /\ [Next]_vars => DashboardInv'
<1> SUFFICES ASSUME DashboardInv, [Next]_vars PROVE DashboardInv'
  OBVIOUS
<1>1. CASE \/ \E t \in Tenants, token \in Tokens, k \in Keys, body \in Bodies :
                ClientPays(t, token, k, body)
           \/ \E token \in Tokens, d \in {"APPROVED", "REJECTED"}, w \in BOOLEAN :
                ClientDecides(token, d, w)
           \/ \E token \in Tokens, w \in BOOLEAN : ClientMakesAccount(token, w)
           \/ \E t \in Tenants : ClientSeeds(t)
  BY <1>1, ClientSteps
<1>2. ASSUME NEW t \in Tabs, SelectTab(t) PROVE DashboardInv'
  BY <1>2, TabStep
<1>3. ASSUME NEW t \in Tenants, SelectTenant(t) PROVE DashboardInv'
  BY <1>3, TenantStep
<1>4. CASE \/ ClickSeed \/ ClickPay \/ ClickTest
           \/ \E d \in {"APPROVED", "REJECTED"}, r \in BOOLEAN : ClickDecision(d, r)
  BY <1>4, ButtonSteps
<1>5. ASSUME NEW i \in DOMAIN flights, Handle(i) PROVE DashboardInv'
  BY <1>5, HandleStep
<1>6. ASSUME NEW i \in DOMAIN flights, Hear(i) PROVE DashboardInv'
  <2>1. flights[i].stage = "answered"
    BY <1>6 DEF Hear
  <2> QED BY <1>6, <2>1, HearListSteps, HearSeedStep, HearDecisionStep, HearPayStep DEF Hear
<1>7. ASSUME NEW i \in DOMAIN flights, Lose(i) PROVE DashboardInv'
  BY <1>7, HearPayStep, LoseStep DEF Lose
<1>8. CASE UNCHANGED vars
  BY <1>8, ClientStep DEF vars, server, browser
<1> QED BY <1>1, <1>2, <1>3, <1>4, <1>5, <1>6, <1>7, <1>8 DEF Next

\* Once all it asked for has been heard of, no button of the dashboard waits, and what it shows is
\* what the API now has, unless it was disturbed, for any number of clicks and of clients' requests
\* (the effects of App and of the panels, handleSeedData, handleDecision).
THEOREM PanelsStayCurrent == Spec => []PanelsAreCurrent
<1>1. ASSUME DashboardInv, flights = <<>> PROVE PanelsAreCurrent
  <2>1. DOMAIN flights = {}
    BY <1>1
  <2>2. \A kind, answers : ~Awaited(flights, kind, tenant, answers)
    BY <2>1 DEF Awaited
  <2>3. busy = {}
    BY <1>1, <2>1 DEF DashboardInv, FlightsFit
  <2>4. ASSUME ~disturbed
        PROVE  /\ shown = Listing("payments", tenant)
               /\ \A kind \in PanelOf[tab] :
                    /\ panel.of = tenant
                    /\ kind = "cases" => panel = Listing("cases", tenant)
                    /\ kind = "cases" /\ tenant = Home => selected = theCase.status
    BY <1>1, <2>2, <2>4 DEF DashboardInv, PaymentsCurrent, PanelCurrent, Current
  <2> QED BY <2>3, <2>4 DEF PanelsAreCurrent
<1>2. DashboardInv => PanelsAreCurrent
  BY <1>1 DEF PanelsAreCurrent
<1> QED BY <1>2, InitDashboard, NextDashboard, PTL DEF Spec
=================================================================================
