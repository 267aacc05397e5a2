------------------------------ MODULE Domain_proofs ------------------------------
(***************************************************************************)
(* What the validation gate answers, for every context, not only those on  *)
(* the limits of the rules; that the XState machine keeps to the table of  *)
(* transitions; that whatever is allocated is shared out whole, fairly and *)
(* the same way back, for every list of ratios; and that no quote rewards  *)
(* splitting a payment or sending less.                                    *)
(***************************************************************************)
EXTENDS Domain, FoldTheorems

\* A rule allows, holds or denies, and nothing else.
LEMMA RulesDecide ==
  ASSUME NEW c
  PROVE  RuleVerdicts(c) \subseteq Verdicts
  BY DEF RuleVerdicts, Verdicts, Verdict, KycRule, AmlRule, ThresholdRule, CountryRule, VelocityRule

\* One turn of the loop keeps the stricter of the two.
LEMMA CombineIsStricter ==
  ASSUME NEW v \in Verdicts, NEW w \in Verdicts
  PROVE  /\ Combine(v, w) \in {v, w}
         /\ Combine(v, w) \in Verdicts
         /\ NoLaxer(Combine(v, w), v)
         /\ NoLaxer(Combine(v, w), w)
  BY DEF Combine, Verdicts, NoLaxer

\* The order of strictness is an order.
LEMMA NoLaxerIsTransitive ==
  ASSUME NEW u \in Verdicts, NEW v \in Verdicts, NEW w \in Verdicts,
         NoLaxer(u, v), NoLaxer(v, w)
  PROVE  NoLaxer(u, w)
  BY DEF Verdicts, NoLaxer

\* A stricter decision so far, or a stricter rule, never makes the next decision laxer.
LEMMA CombineIsMonotone ==
  ASSUME NEW v \in Verdicts, NEW w \in Verdicts, NEW x \in Verdicts, NEW y \in Verdicts,
         NoLaxer(x, v), NoLaxer(y, w)
  PROVE  NoLaxer(Combine(x, y), Combine(v, w))
  BY DEF Combine, Verdicts, NoLaxer

\* validate answers with the strictest decision of its five rules, for every context.
THEOREM VerdictIsStrictest ==
  ASSUME NEW c
  PROVE  IsStrictest(c, validate(c))
<1> DEFINE v1 == Combine("ALLOW", KycRule(c))
           v2 == Combine(v1, AmlRule(c))
           v3 == Combine(v2, ThresholdRule(c))
           v4 == Combine(v3, CountryRule(c))
           v5 == Combine(v4, VelocityRule(c))
<1>1. /\ KycRule(c) \in Verdicts /\ AmlRule(c) \in Verdicts /\ ThresholdRule(c) \in Verdicts
      /\ CountryRule(c) \in Verdicts /\ VelocityRule(c) \in Verdicts
  BY RulesDecide DEF RuleVerdicts
<1>2. v1 = KycRule(c)
  BY <1>1 DEF Combine, Verdicts
<1> HIDE DEF v1, v2, v3, v4, v5
<1>3. v1 \in Verdicts /\ v1 \in {KycRule(c)} /\ NoLaxer(v1, KycRule(c))
  BY <1>1, <1>2 DEF NoLaxer
<1>4. /\ v2 \in Verdicts /\ v2 \in {v1, AmlRule(c)}
      /\ NoLaxer(v2, v1) /\ NoLaxer(v2, AmlRule(c))
  BY <1>1, <1>3, CombineIsStricter DEF v2
<1>5. /\ v3 \in Verdicts /\ v3 \in {v2, ThresholdRule(c)}
      /\ NoLaxer(v3, v2) /\ NoLaxer(v3, ThresholdRule(c))
  BY <1>1, <1>4, CombineIsStricter DEF v3
<1>6. /\ v4 \in Verdicts /\ v4 \in {v3, CountryRule(c)}
      /\ NoLaxer(v4, v3) /\ NoLaxer(v4, CountryRule(c))
  BY <1>1, <1>5, CombineIsStricter DEF v4
<1>7. /\ v5 \in Verdicts /\ v5 \in {v4, VelocityRule(c)}
      /\ NoLaxer(v5, v4) /\ NoLaxer(v5, VelocityRule(c))
  BY <1>1, <1>6, CombineIsStricter DEF v5
<1>8. v5 \in RuleVerdicts(c)
  BY <1>3, <1>4, <1>5, <1>6, <1>7 DEF RuleVerdicts
<1>9. \A w \in RuleVerdicts(c) : NoLaxer(v5, w)
  BY <1>1, <1>3, <1>4, <1>5, <1>6, <1>7, NoLaxerIsTransitive DEF RuleVerdicts
<1>10. validate(c) = v5
  BY DEF validate, v1, v2, v3, v4, v5
<1> QED
  BY <1>8, <1>9, <1>10 DEF IsStrictest

\* No rule relents when a score, an amount, a count or a flag goes up.
LEMMA RulesAreMonotone ==
  ASSUME NEW c, NEW d, Comparable(c), Comparable(d), AtLeastAsRisky(d, c)
  PROVE  /\ KycRule(d) = KycRule(c)
         /\ NoLaxer(AmlRule(d), AmlRule(c))
         /\ NoLaxer(ThresholdRule(d), ThresholdRule(c))
         /\ CountryRule(d) = CountryRule(c)
         /\ NoLaxer(VelocityRule(d), VelocityRule(c))
<1>1. KycRule(d) = KycRule(c)
  BY DEF KycRule, AtLeastAsRisky
<1>2. NoLaxer(AmlRule(d), AmlRule(c))
  BY DEF AmlRule, AtLeastAsRisky, Comparable, Verdict, NoLaxer
<1>3. NoLaxer(ThresholdRule(d), ThresholdRule(c))
  BY NoAmountIsNone DEF ThresholdRule, AtLeastAsRisky, Comparable, Verdict, NoLaxer, Threshold
<1>4. CountryRule(d) = CountryRule(c)
  BY DEF CountryRule, AtLeastAsRisky
<1>5. NoLaxer(VelocityRule(d), VelocityRule(c))
  BY DEF VelocityRule, AtLeastAsRisky, Comparable, Verdict, NoLaxer, MaxTxPerHour, ReviewTxPerHour
<1> QED
  BY <1>1, <1>2, <1>3, <1>4, <1>5

\* Nor does the gate as a whole: what one rule gains is not lost in another's decision.
THEOREM VerdictIsMonotone ==
  ASSUME NEW c, NEW d, Comparable(c), Comparable(d), AtLeastAsRisky(d, c)
  PROVE  NoLaxer(validate(d), validate(c))
<1>1. /\ KycRule(d) = KycRule(c)
      /\ NoLaxer(AmlRule(d), AmlRule(c))
      /\ NoLaxer(ThresholdRule(d), ThresholdRule(c))
      /\ CountryRule(d) = CountryRule(c)
      /\ NoLaxer(VelocityRule(d), VelocityRule(c))
  BY RulesAreMonotone
<1>2. ASSUME NEW e
      PROVE  /\ KycRule(e) \in Verdicts /\ AmlRule(e) \in Verdicts /\ ThresholdRule(e) \in Verdicts
             /\ CountryRule(e) \in Verdicts /\ VelocityRule(e) \in Verdicts
  BY RulesDecide DEF RuleVerdicts
<1> DEFINE v1(e) == Combine("ALLOW", KycRule(e))
           v2(e) == Combine(v1(e), AmlRule(e))
           v3(e) == Combine(v2(e), ThresholdRule(e))
           v4(e) == Combine(v3(e), CountryRule(e))
           v5(e) == Combine(v4(e), VelocityRule(e))
<1>3. v1(d) = v1(c) /\ v1(c) \in Verdicts
  BY <1>1, <1>2, CombineIsStricter DEF Verdicts
<1>4. ASSUME NEW e
      PROVE  v1(e) \in Verdicts
  BY <1>2, CombineIsStricter DEF Verdicts
<1> HIDE DEF v1
<1>5. ASSUME NEW e
      PROVE  v2(e) \in Verdicts
  BY <1>2, <1>4, CombineIsStricter
<1>6. NoLaxer(v2(d), v2(c))
  <2>1. NoLaxer(v1(d), v1(c))
    BY <1>3 DEF NoLaxer
  <2> QED
    BY <2>1, <1>1, <1>2, <1>4, CombineIsMonotone
<1> HIDE DEF v2
<1>7. ASSUME NEW e
      PROVE  v3(e) \in Verdicts
  BY <1>2, <1>5, CombineIsStricter
<1>8. NoLaxer(v3(d), v3(c))
  BY <1>1, <1>2, <1>5, <1>6, CombineIsMonotone
<1> HIDE DEF v3
<1>9. ASSUME NEW e
      PROVE  v4(e) \in Verdicts
  BY <1>2, <1>7, CombineIsStricter
<1>10. NoLaxer(v4(d), v4(c))
  <2>1. NoLaxer(CountryRule(d), CountryRule(c))
    BY <1>1 DEF NoLaxer
  <2> QED
    BY <2>1, <1>2, <1>7, <1>8, CombineIsMonotone
<1> HIDE DEF v4
<1>11. NoLaxer(v5(d), v5(c))
  BY <1>1, <1>2, <1>9, <1>10, CombineIsMonotone
<1>12. ASSUME NEW e
       PROVE  validate(e) = v5(e)
  BY DEF validate, v1, v2, v3, v4
<1> QED
  BY <1>11, <1>12

(* The two as properties of the calls. *)

Answered ==
  call.op = "validate" =>
    /\ call.of \in Contexts
    /\ answer \in {NoAnswer, [verdict |-> validate(call.of)]}

\* An answer of the gate is what validate computes for a context it was asked about.
LEMMA AnsweredAlways == Spec => []Answered
<1>1. Init => Answered
  BY DEF Init, Answered
<1>2. Answered /\ [Next]_vars => Answered'
  BY DEF Answered, Next, Validate, Allocate, Quote, Send, vars
<1> QED
  BY <1>1, <1>2, PTL DEF Spec

\* Whatever the gate is asked, it decides as the strictest of its rules.
THEOREM StrictestRuleDecides == Spec => []StrictestRuleWins
<1>1. Answered => StrictestRuleWins
  BY VerdictIsStrictest DEF Answered, StrictestRuleWins, Validated
<1> QED
  BY <1>1, AnsweredAlways, PTL

\* Whatever it is asked, it is no laxer when there is more risk.
THEOREM RiskIsNeverRewarded == Spec => []RiskNeverHelps
<1>1. Answered => RiskNeverHelps
  BY VerdictIsMonotone, ContextsAreComparable DEF Answered, RiskNeverHelps, Validated
<1> QED
  BY <1>1, AnsweredAlways, PTL

SentAnswer ==
  call.op = "send" =>
    /\ call.of \in PaymentState \X PaymentMachineEvent
    /\ answer # NoAnswer => answer = send(call.of[1], call.of[2])

\* What the machine does on an event, state by state.
LEMMA SendsAlongTheTable ==
  ASSUME NEW from \in PaymentState
  PROVE  /\ \A event \in PaymentMachineEvent :
              LET a == send(from, event)
              IN  /\ a.value # from => CanTransition(from, a.value)
                  /\ a.reason = "recorded" <=> a.value # from /\ a.value \in {"failed", "reversed"}
         /\ \A to \in VALID_PAYMENT_TRANSITIONS[from] :
              \E event \in PaymentMachineEvent : send(from, event).value = to
<1> DEFINE to(event) == {s \in PaymentState : <<from, event, s>> \in states}
<1>1. ASSUME NEW event \in PaymentMachineEvent
      PROVE  \/ to(event) = {}
             \/ \E s \in VALID_PAYMENT_TRANSITIONS[from] :
                  /\ to(event) = {s} /\ s # from
                  /\ event \in recordFailure <=> s \in {"failed", "reversed"}
  BY SMTT(60) DEF PaymentState, PaymentMachineEvent, states, advances, failures, recordFailure,
                  VALID_PAYMENT_TRANSITIONS
<1>2. ASSUME NEW event \in PaymentMachineEvent
      PROVE  /\ send(from, event).value # from => CanTransition(from, send(from, event).value)
             /\ send(from, event).reason = "recorded" <=>
                  /\ send(from, event).value # from
                  /\ send(from, event).value \in {"failed", "reversed"}
  <2>1. CASE to(event) = {}
    BY <2>1 DEF send
  <2>2. CASE to(event) # {}
    <3>1. PICK s \in VALID_PAYMENT_TRANSITIONS[from] :
            /\ to(event) = {s} /\ s # from
            /\ event \in recordFailure <=> s \in {"failed", "reversed"}
      BY <1>1, <2>2
    <3>2. send(from, event) =
            [value |-> s, reason |-> IF event \in recordFailure THEN "recorded" ELSE "none"]
      BY <3>1 DEF send
    <3> QED BY <3>1, <3>2 DEF CanTransition
  <2> QED BY <2>1, <2>2
<1>3. ASSUME NEW s \in VALID_PAYMENT_TRANSITIONS[from]
      PROVE  \E event \in PaymentMachineEvent : send(from, event).value = s
  <2>1. PICK event \in PaymentMachineEvent : to(event) = {s}
    BY SMTT(60) DEF PaymentState, PaymentMachineEvent, states, advances, failures,
                    VALID_PAYMENT_TRANSITIONS
  <2>2. send(from, event).value = s
    BY <2>1 DEF send
  <2> QED BY <2>2
<1> QED BY <1>2, <1>3

\* Whichever state an actor is started in and whichever event it is sent, it stays in the table.
THEOREM MachineAndTableAgree == Spec => []MachineFollowsTable
<1>1. Init => SentAnswer
  BY DEF Init, SentAnswer
<1>2. SentAnswer /\ [Next]_vars => SentAnswer'
  BY DEF SentAnswer, Next, Validate, Allocate, Quote, Send, vars
<1>3. SentAnswer => MachineFollowsTable
  <2> SUFFICES ASSUME SentAnswer, Sent PROVE MachineFollowsTable
    BY DEF MachineFollowsTable
  <2>1. /\ call.of[1] \in PaymentState /\ call.of[2] \in PaymentMachineEvent
        /\ answer = send(call.of[1], call.of[2])
    BY DEF SentAnswer, Sent
  <2> QED BY <2>1, SendsAlongTheTable DEF MachineFollowsTable
<1> QED
  BY <1>1, <1>2, <1>3, PTL DEF Spec

---------------------------------------------------------------------------------
(* What is allocated.                                                       *)

\* A list of n numbers.
Numbers(s, n) == n \in Nat /\ DOMAIN s = 1 .. n /\ \A i \in 1 .. n : s[i] \in Int

\* The positions of a list are finitely many.
LEMMA UptoIsFinite ==
  ASSUME NEW n \in Nat
  PROVE  IsFiniteSet(1 .. n) /\ Cardinality(1 .. n) = n
BY FS_Interval

\* What the fold over the list computes (FoldLeft).
LEMMA TotalIsSum ==
  ASSUME NEW s, NEW n, Numbers(s, n)
  PROVE  Total(s) = Sum(s, 1 .. n) /\ Total(s) \in Int
<1> DEFINE S == 1 .. n
           c == [t \in SUBSET S |-> Max(t)]
           Chosen(h) == [t \in SUBSET S |-> IF t = {} THEN 0 ELSE h[t \ {c[t]}] + s[c[t]]]
           Iter(h) == [t \in SUBSET S |-> IF t = {} THEN 0
                         ELSE h[t \ {Max(t)}] + s[Max(t)]]
<1>1. IsFiniteSet(S) /\ \A i \in S : s[i] \in Int
  BY UptoIsFinite DEF Numbers
<1>2. \A t \in SUBSET S : c[t] = Max(t)
  OBVIOUS
<1>3. ASSUME NEW t \in SUBSET S, t # {} PROVE c[t] \in t
  <2>1. t \subseteq 0 .. n /\ n \in Nat
    BY DEF Numbers
  <2>2. \E m \in t : \A k \in t : m >= k
    BY <1>3, <2>1, GreatestNatural
  <2>3. Max(t) \in t
    BY <2>2 DEF Max
  <2> QED BY <1>2, <2>3
<1>4. DOMAIN s = S
  BY DEF Numbers
<1> HIDE DEF S, c
<1>5. (\E h : h = Chosen(h)) /\ (\A h : h = Chosen(h) => h[S] = Sum(s, S))
  BY <1>1, <1>3, FoldsSumLeft
<1>6. ASSUME NEW h PROVE Chosen(h) = Iter(h)
  BY <1>2
<1>7. (\E h : h = Iter(h)) /\ (\A h : h = Iter(h) => h[S] = Sum(s, S))
  <2> HIDE DEF Chosen, Iter
  <2> QED BY <1>5, <1>6
<1>8. Total(s) = Sum(s, S)
  BY <1>4, <1>7 DEF Total, FoldLeft, MapThenFoldSet
<1>9. Sum(s, S) \in Int
  BY <1>1, SumFacts
<1> QED BY <1>8, <1>9 DEF S

\* Division toward zero.
LEMMA TruncatedFacts ==
  ASSUME NEW a \in Int, NEW b \in Nat \ {0}
  PROVE  /\ Truncated(a, b) \in Int
         /\ a >= 0 => Truncated(a, b) * b <= a /\ a < Truncated(a, b) * b + b
         /\ Truncated(-a, b) = -Truncated(a, b)
BY DEF Truncated

\* The two loops over the remainder hand out as much to the one side as to the other.
LEMMA HandedIsOdd ==
  ASSUME NEW r \in Int, NEW n \in Nat \ {0}, NEW i \in 1 .. n
  PROVE  Handed(r, i, n) \in Int /\ Handed(-r, i, n) = -Handed(r, i, n)
<1>1. r = 0 => (n - i) \div n = 0
  OBVIOUS
<1>2. (r + n - i) \div n \in Int /\ (-r + n - i) \div n \in Int
  OBVIOUS
<1> QED BY <1>1, <1>2 DEF Handed

\* Shares of a remainder below the number of shares: one each to the first.
LEMMA HandedInTurn ==
  ASSUME NEW n \in Nat \ {0}, NEW q \in Nat, NEW t \in 0 .. n - 1, NEW i \in 1 .. n
  PROVE  Handed(n * q + t, i, n) = q + (IF i <= t THEN 1 ELSE 0)
<1>1. n * q \in Nat
  OBVIOUS
<1>2. Handed(n * q + t, i, n) = (n * q + t + n - i) \div n
  BY <1>1 DEF Handed
<1>3. CASE i <= t
  <2>1. n * (q + 1) = n * q + n
    OBVIOUS
  <2>2. n * (q + 1) <= n * q + t + n - i /\ n * q + t + n - i < n * (q + 1) + n
    BY <1>1, <1>3, <2>1
  <2> QED BY <1>1, <1>2, <1>3, <2>2
<1>4. CASE i > t
  <2>1. n * q <= n * q + t + n - i /\ n * q + t + n - i < n * q + n
    BY <1>1, <1>4
  <2> QED BY <1>1, <1>2, <1>4, <2>1
<1> QED BY <1>3, <1>4

\* All of a remainder is handed out, and no more.
LEMMA HandedSums ==
  ASSUME NEW r \in Int, NEW n \in Nat \ {0}
  PROVE  Sum([i \in 1 .. n |-> Handed(r, i, n)], 1 .. n) = r
<1>1. ASSUME NEW a \in Nat
      PROVE  Sum([i \in 1 .. n |-> Handed(a, i, n)], 1 .. n) = a
  <2> DEFINE q == a \div n
             t == a - n * (a \div n)
             one == [i \in 1 .. n |-> 1]
             first == [i \in 1 .. n |-> IF i <= t THEN 1 ELSE 0]
             h == [i \in 1 .. n |-> Handed(a, i, n)]
  <2>1. q \in Nat /\ t \in 0 .. n - 1 /\ a = n * q + t
    OBVIOUS
  <2> HIDE DEF q, t
  <2>2. Sum(one, 1 .. n) = n
    BY UptoIsFinite, SumOfOnes
  <2>3. Sum(first, 1 .. n) = t
    <3>1. /\ \A i \in 1 .. t : first[i] = 1
          /\ \A i \in (t + 1) .. n : first[i] = 0
          /\ \A i \in 1 .. n : first[i] \in Int
      BY <2>1
    <3>2. /\ IsFiniteSet(1 .. t) /\ Cardinality(1 .. t) = t
          /\ IsFiniteSet((t + 1) .. n) /\ Cardinality((t + 1) .. n) = n - t
      BY <2>1, FS_Interval
    <3> HIDE DEF first
    <3>3. Sum(first, 1 .. t) = t
      BY <3>1, <3>2, SumOfOnes
    <3>4. Sum(first, (t + 1) .. n) = 0
      BY <3>1, <3>2, SumOfOnes
    <3>5. 1 .. n = (1 .. t) \cup ((t + 1) .. n) /\ (1 .. t) \cap ((t + 1) .. n) = {}
      BY <2>1
    <3>6. \A i \in (1 .. t) \cup ((t + 1) .. n) : first[i] \in Int
      BY <3>1, <3>5
    <3>7. Sum(first, (1 .. t) \cup ((t + 1) .. n)) = Sum(first, 1 .. t) + Sum(first, (t + 1) .. n)
      BY <3>2, <3>5, <3>6, SumOfTwoParts
    <3>8. Sum(first, 1 .. n) = Sum(first, (1 .. t) \cup ((t + 1) .. n))
      BY <3>5
    <3> QED BY <2>1, <3>3, <3>4, <3>7, <3>8
  <2>4. \A i \in 1 .. n : one[i] \in Int /\ first[i] \in Int /\ h[i] = q * one[i] + 1 * first[i]
    <3>1. \A i \in 1 .. n : h[i] = q + (IF i <= t THEN 1 ELSE 0)
      BY <2>1, HandedInTurn
    <3> HIDE DEF h
    <3> QED BY <2>1, <3>1
  <2> HIDE DEF one, first, h
  <2>5. Sum(h, 1 .. n) = q * Sum(one, 1 .. n) + 1 * Sum(first, 1 .. n)
    BY <2>1, <2>4, UptoIsFinite, SumsAreLinear
  <2>6. Sum(h, 1 .. n) = a
    BY <2>1, <2>2, <2>3, <2>5
  <2> QED BY <2>6 DEF h
<1>2. CASE r >= 0
  BY <1>1, <1>2
<1>3. CASE r < 0
  <2> DEFINE h == [i \in 1 .. n |-> Handed(r, i, n)]
             k == [i \in 1 .. n |-> Handed(-r, i, n)]
  <2>1. Sum(k, 1 .. n) = -r
    BY <1>1, <1>3
  <2>2. \A i \in 1 .. n : k[i] \in Int /\ h[i] = (-1) * k[i] + 0 * k[i]
    <3>1. \A i \in 1 .. n : Handed(-r, i, n) \in Int /\ Handed(r, i, n) = -Handed(-r, i, n)
      BY HandedIsOdd
    <3> QED BY <3>1
  <2> HIDE DEF h, k
  <2>3. Sum(h, 1 .. n) = (-1) * Sum(k, 1 .. n) + 0 * Sum(k, 1 .. n)
    BY <2>2, UptoIsFinite, SumsAreLinear
  <2>4. Sum(h, 1 .. n) = r
    BY <2>1, <2>3
  <2> QED BY <2>4 DEF h
<1> QED BY <1>2, <1>3

\* What allocate can divide by.
LEMMA DivisorIsPositive ==
  ASSUME NEW ratios \in Seq(Int), ratios # <<>>, NEW denominator \in Nat \ {0},
         ~AllocateThrows(ratios, denominator)
  PROVE  /\ Numbers(ratios, Len(ratios)) /\ Len(ratios) \in Nat \ {0}
         /\ Total(ratios) \in Nat \ {0}
         /\ Scaled(Total(ratios), denominator) \in Nat \ {0}
<1>1. Numbers(ratios, Len(ratios)) /\ Len(ratios) \in Nat \ {0}
  BY DEF Numbers
<1>2. Total(ratios) \in Int
  BY <1>1, TotalIsSum
<1>3. Total(ratios) \in Nat \ {0}
  BY <1>2 DEF AllocateThrows
<1>4. ASSUME NEW k \in Nat PROVE Scaled(k, denominator) \in Nat
  BY DEF Scaled
<1> QED BY <1>1, <1>3, <1>4 DEF AllocateThrows

\* Money.allocate loses nothing and makes nothing up.
LEMMA AllocatedInFull ==
  ASSUME NEW amount \in Int, NEW ratios \in Seq(Int), ratios # <<>>,
         NEW denominator \in Nat \ {0}, ~AllocateThrows(ratios, denominator)
  PROVE  /\ Numbers(allocate(amount, ratios, denominator), Len(ratios))
         /\ Total(allocate(amount, ratios, denominator)) = amount
<1> DEFINE n == Len(ratios)
           share == Shares(amount, ratios, denominator)
           r == amount - Total(share)
           handed == [i \in 1 .. n |-> Handed(r, i, n)]
           whole == allocate(amount, ratios, denominator)
<1>1. n \in Nat \ {0} /\ \A i \in 1 .. n : ratios[i] \in Int
  BY DivisorIsPositive DEF Numbers
<1>2. Numbers(share, n)
  <2>1. ASSUME NEW i \in 1 .. n
        PROVE  Truncated(amount * Scaled(ratios[i], denominator), Scaled(Total(ratios), denominator))
                 \in Int
    <3>1. Scaled(ratios[i], denominator) \in Int
      BY <1>1 DEF Scaled
    <3>2. amount * Scaled(ratios[i], denominator) \in Int
      BY <3>1
    <3> QED BY <3>2, DivisorIsPositive, TruncatedFacts
  <2> QED BY <1>1, <2>1 DEF Numbers, Shares
<1>3. Total(share) = Sum(share, 1 .. n) /\ Total(share) \in Int
  BY <1>2, TotalIsSum
<1>4. r \in Int
  BY <1>3
<1> HIDE DEF r
<1>5. Sum(handed, 1 .. n) = r
  BY <1>1, <1>4, HandedSums
<1>6. \A i \in 1 .. n : handed[i] = Handed(r, i, n) /\ handed[i] \in Int
  BY <1>1, <1>4, HandedIsOdd
<1>7. DOMAIN whole = 1 .. n /\ \A i \in 1 .. n : whole[i] = share[i] + handed[i]
  BY <1>6 DEF allocate, r
<1> HIDE DEF n, share, handed, whole
<1>8. Numbers(whole, n)
  BY <1>2, <1>6, <1>7 DEF Numbers
<1>9. Sum(whole, 1 .. n) = Sum(share, 1 .. n) + Sum(handed, 1 .. n)
  <2>1. \A i \in 1 .. n :
          share[i] \in Int /\ handed[i] \in Int /\ whole[i] = share[i] + handed[i]
    BY <1>2, <1>6, <1>7 DEF Numbers
  <2> QED BY <1>1, <2>1, UptoIsFinite, SumsAdd
<1>10. Total(whole) = Sum(whole, 1 .. n)
  BY <1>8, TotalIsSum
<1>11. Total(whole) = amount
  BY <1>3, <1>4, <1>5, <1>9, <1>10 DEF r
<1> QED BY <1>8, <1>11 DEF whole, n

\* What is split of a debt is owed where it was due before.
LEMMA AllocatedMirrored ==
  ASSUME NEW amount \in Int, NEW ratios \in Seq(Int), ratios # <<>>,
         NEW denominator \in Nat \ {0}, ~AllocateThrows(ratios, denominator)
  PROVE  /\ DOMAIN allocate(amount, ratios, denominator) = 1 .. Len(ratios)
         /\ allocate(-amount, ratios, denominator)
              = [i \in 1 .. Len(ratios) |-> -allocate(amount, ratios, denominator)[i]]
<1> DEFINE n == Len(ratios)
           d == Scaled(Total(ratios), denominator)
           s(i) == Scaled(ratios[i], denominator)
           share == Shares(amount, ratios, denominator)
           back == Shares(-amount, ratios, denominator)
           r == amount - Total(share)
<1>1. n \in Nat \ {0} /\ d \in Nat \ {0} /\ \A i \in 1 .. n : ratios[i] \in Int
  BY DivisorIsPositive DEF Numbers
<1>2. \A i \in 1 .. n : s(i) \in Int
  BY <1>1 DEF Scaled
<1>3. /\ DOMAIN share = 1 .. n /\ DOMAIN back = 1 .. n
      /\ \A i \in 1 .. n : /\ share[i] = Truncated(amount * s(i), d)
                           /\ back[i] = Truncated((-amount) * s(i), d)
  BY DEF Shares
<1>4. /\ allocate(amount, ratios, denominator) =
           [i \in 1 .. n |-> share[i] + Handed(amount - Total(share), i, n)]
      /\ allocate(-amount, ratios, denominator) =
           [i \in 1 .. n |-> back[i] + Handed(-amount - Total(back), i, n)]
  BY DEF allocate
<1> HIDE DEF n, d, s, share, back
<1>5. ASSUME NEW i \in 1 .. n PROVE share[i] \in Int /\ back[i] = -share[i]
  <2>1. amount * s(i) \in Int /\ (-amount) * s(i) = -(amount * s(i))
    BY <1>2
  <2> QED BY <1>1, <1>3, <2>1, TruncatedFacts
<1>6. Numbers(share, n) /\ Numbers(back, n)
  BY <1>1, <1>3, <1>5 DEF Numbers
<1>7. Total(back) = -Total(share) /\ Total(share) \in Int
  <2>1. \A i \in 1 .. n : share[i] \in Int /\ back[i] = (-1) * share[i] + 0 * share[i]
    BY <1>5
  <2>2. Sum(back, 1 .. n) = (-1) * Sum(share, 1 .. n) + 0 * Sum(share, 1 .. n)
    BY <1>1, <2>1, UptoIsFinite, SumsAreLinear
  <2> QED BY <1>6, <2>2, TotalIsSum
<1>8. -amount - Total(back) = -r /\ r \in Int
  BY <1>7
<1>9. ASSUME NEW i \in 1 .. n
      PROVE  back[i] + Handed(-amount - Total(back), i, n) = -(share[i] + Handed(r, i, n))
  <2>1. Handed(r, i, n) \in Int /\ Handed(-r, i, n) = -Handed(r, i, n)
    BY <1>1, <1>8, HandedIsOdd
  <2> HIDE DEF r
  <2> QED BY <1>5, <1>8, <2>1
<1>10. \A i \in 1 .. n :
         allocate(amount, ratios, denominator)[i] = share[i] + Handed(r, i, n)
  BY <1>4
<1>11. allocate(-amount, ratios, denominator)
         = [i \in 1 .. n |-> -allocate(amount, ratios, denominator)[i]]
  BY <1>4, <1>9, <1>10
<1>12. DOMAIN allocate(amount, ratios, denominator) = 1 .. n
  BY <1>4
<1> QED BY <1>11, <1>12 DEF n

\* Rounded toward zero, a share of what is not below zero is too small by less than a unit.
LEMMA ShareError ==
  ASSUME NEW a \in Nat, NEW k \in Nat, NEW T \in Nat \ {0},
         NEW x, x = Truncated(a * Scaled(k, 1), Scaled(T, 1))
  PROVE  x \in Int /\ a * k - T * x \in 0 .. T - 1
<1>0. x = Truncated(a * (10000 * k), 10000 * T)
  <2>1. Scaled(k, 1) = 10000 * k /\ Scaled(T, 1) = 10000 * T
    BY DEF Scaled
  <2> QED BY <2>1
<1>1. PICK p \in Nat : p = a * k
  OBVIOUS
<1>2. a * (10000 * k) = 10000 * p /\ 10000 * T \in Nat \ {0}
  BY <1>1
<1>3. x \in Int /\ x * (10000 * T) <= 10000 * p /\ 10000 * p < x * (10000 * T) + 10000 * T
  <2>1. PICK q \in Nat : q = 10000 * p
    OBVIOUS
  <2>2. PICK b \in Nat \ {0} : b = 10000 * T
    BY <1>2
  <2>3. x = Truncated(q, b)
    BY <1>0, <1>2, <2>1, <2>2
  <2>4. x \in Int /\ x * b <= q /\ q < x * b + b
    BY <2>3, TruncatedFacts
  <2> QED BY <2>1, <2>2, <2>4
<1>4. PICK y \in Int : y = T * x
  BY <1>3
<1>5. x * (10000 * T) = 10000 * y
  BY <1>3, <1>4
<1>6. y <= p /\ p < y + T
  BY <1>3, <1>5
<1> QED BY <1>1, <1>3, <1>4, <1>6

\* A remainder of no more than a unit for each is handed out in units.
LEMMA AtMostOneEach ==
  ASSUME NEW n \in Nat \ {0}, NEW r \in 0 .. n, NEW i \in 1 .. n
  PROVE  Handed(r, i, n) \in {0, 1}
<1>1. PICK v \in Nat : v = r + n - i
  OBVIOUS
<1>2. v < 2 * n
  BY <1>1
<1>3. v \div n \in {0, 1}
  <2>1. CASE v < n
    BY <2>1
  <2>2. CASE v >= n
    BY <1>2, <2>2
  <2> QED BY <2>1, <2>2
<1> QED BY <1>1, <1>3 DEF Handed

\* Share i is within a unit of its part.
Fair(amount, ratios, i) ==
  allocate(amount, ratios, 1)[i] * Total(ratios) - amount * ratios[i]
    \in -Total(ratios) .. Total(ratios)

\* A share of what is not below zero is never a unit too small, and at most one too large.
LEMMA AllocatedFairly ==
  ASSUME NEW amount \in Nat, NEW ratios \in Seq(Nat), ratios # <<>>, ~AllocateThrows(ratios, 1),
         NEW i \in 1 .. Len(ratios)
  PROVE  Fair(amount, ratios, i)
<1> DEFINE n == Len(ratios)
           T == Total(ratios)
           share == Shares(amount, ratios, 1)
           r == amount - Total(share)
           off == [j \in 1 .. n |-> amount * ratios[j] - T * share[j]]
<1>1. /\ n \in Nat \ {0} /\ T \in Nat \ {0} /\ Numbers(ratios, n)
      /\ \A j \in 1 .. n : ratios[j] \in Nat
  <2>1. ratios \in Seq(Int)
    OBVIOUS
  <2> QED BY <2>1, DivisorIsPositive
<1>3. /\ DOMAIN share = 1 .. n
      /\ \A j \in 1 .. n : share[j] = Truncated(amount * Scaled(ratios[j], 1), Scaled(T, 1))
  BY DEF Shares
<1>4. allocate(amount, ratios, 1)[i] = share[i] + Handed(r, i, n)
  BY DEF allocate
<1>5. \A j \in 1 .. n : off[j] = amount * ratios[j] - T * share[j]
  OBVIOUS
<1> HIDE DEF n, T, share, off
<1>6. ASSUME NEW j \in 1 .. n
      PROVE  share[j] \in Int /\ off[j] \in 0 .. T - 1
  <2>1. ratios[j] \in Nat /\ share[j] = Truncated(amount * Scaled(ratios[j], 1), Scaled(T, 1))
    BY <1>1, <1>3
  <2>2. share[j] \in Int /\ amount * ratios[j] - T * share[j] \in 0 .. T - 1
    <3>1. T \in Nat \ {0}
      BY <1>1
    <3> QED BY <2>1, <3>1, ShareError, Zenon
  <2> QED BY <1>5, <2>2
<1>7. Numbers(share, n)
  BY <1>1, <1>3, <1>6 DEF Numbers
<1>8. Sum(off, 1 .. n) = amount * Sum(ratios, 1 .. n) - T * Sum(share, 1 .. n)
  <2>1. PICK c \in Int : c = -T
    BY <1>1
  <2>2. ASSUME NEW x \in Int PROVE c * x = -(T * x)
    BY <1>1, <2>1
  <2>3. \A j \in 1 .. n : /\ ratios[j] \in Int /\ share[j] \in Int
                          /\ off[j] = amount * ratios[j] + c * share[j]
    <3> SUFFICES ASSUME NEW j \in 1 .. n
                 PROVE  /\ ratios[j] \in Int /\ share[j] \in Int
                        /\ off[j] = amount * ratios[j] + c * share[j]
      OBVIOUS
    <3>1. ratios[j] \in Int /\ share[j] \in Int /\ amount * ratios[j] \in Int
      BY <1>1, <1>6
    <3>2. c * share[j] = -(T * share[j]) /\ T * share[j] \in Int
      BY <1>1, <2>1, <3>1
    <3>3. off[j] = amount * ratios[j] - T * share[j]
      BY <1>5
    <3> QED BY <3>1, <3>2, <3>3
  <2>4. Sum(off, 1 .. n) = amount * Sum(ratios, 1 .. n) + c * Sum(share, 1 .. n)
    <3>1. IsCombination(off, amount, ratios, c, share, 1 .. n)
      BY <2>3 DEF IsCombination
    <3>2. IsFiniteSet(1 .. n)
      BY <1>1, UptoIsFinite
    <3>3. amount \in Int /\ c \in Int
      BY <2>1
    <3> QED BY <3>1, <3>2, <3>3, SumsOfCombinations
  <2>5. Sum(share, 1 .. n) \in Int /\ Sum(ratios, 1 .. n) \in Int
    BY <1>1, <1>7, TotalIsSum
  <2> QED BY <1>1, <2>2, <2>4, <2>5
<1>9. Sum(ratios, 1 .. n) = T /\ Sum(share, 1 .. n) = Total(share) /\ Total(share) \in Int
  BY <1>1, <1>7, TotalIsSum DEF T
<1>10. Sum(off, 1 .. n) = T * r
  BY <1>1, <1>8, <1>9
<1>11. Sum(off, 1 .. n) \in 0 .. (T - 1) * n
  <2>1. PICK hi \in Int : hi = T - 1
    BY <1>1
  <2>2. \A j \in 1 .. n : off[j] \in 0 .. hi
    BY <1>6, <2>1
  <2>3. IsFiniteSet(1 .. n) /\ Cardinality(1 .. n) = n
    BY <1>1, UptoIsFinite
  <2>4. Sum(off, 1 .. n) \in 0 .. hi * Cardinality(1 .. n)
    BY <2>2, <2>3, SumIsPositive
  <2> QED BY <2>1, <2>3, <2>4
<1>12. r \in 0 .. n
  <2>1. r \in Int
    BY <1>9
  <2> HIDE DEF r
  <2>2. 0 <= T * r /\ T * r <= (T - 1) * n
    BY <1>1, <1>10, <1>11
  <2>3. (T - 1) * n <= T * n
    BY <1>1
  <2> QED BY <1>1, <2>1, <2>2, <2>3
<1>13. Handed(r, i, n) \in {0, 1}
  BY <1>1, <1>12, AtMostOneEach DEF n
<1>14. (share[i] + Handed(r, i, n)) * T - amount * ratios[i] = Handed(r, i, n) * T - off[i]
  <2> HIDE DEF r
  <2>1. ASSUME NEW x \in Int, NEW h \in Int, NEW p \in Int
        PROVE  (x + h) * T - p = h * T - (p - T * x)
    BY <1>1
  <2>2. i \in 1 .. n /\ amount * ratios[i] \in Int
    BY <1>1 DEF n
  <2>3. off[i] = amount * ratios[i] - T * share[i] /\ share[i] \in Int
    BY <1>5, <1>6, <2>2
  <2>4. Handed(r, i, n) \in Int
    BY <1>13
  <2>5. (share[i] + Handed(r, i, n)) * T - amount * ratios[i]
          = Handed(r, i, n) * T - (amount * ratios[i] - T * share[i])
    BY <2>1, <2>2, <2>3, <2>4
  <2> QED BY <2>3, <2>5
<1>15. Handed(r, i, n) * T - off[i] \in -T .. T
  BY <1>1, <1>6, <1>13 DEF n
<1> QED BY <1>4, <1>14, <1>15 DEF T, Fair

---------------------------------------------------------------------------------
(* The splits and the quotes as calls. *)

\* What has been answered of a call is what its function computes.
Computed ==
  /\ call.op = "allocate" =>
       /\ call.of \in Splits
       /\ answer # NoAnswer =>
            \/ answer = [refused |-> TRUE]
            \/ /\ ~AllocateThrows(call.of.ratios, call.of.denominator)
               /\ answer = [shares |->
                              allocate(call.of.amount, call.of.ratios, call.of.denominator)]
  /\ call.op = "quote" =>
       /\ call.of \in Exchanges
       /\ answer # NoAnswer =>
            answer = [fee |-> Fee(call.of.amount),
                      target |-> Converted(call.of.amount, call.of.rate, call.of.denominator)]

\* An answer to a split or a quote is what its function computes of what was asked.
LEMMA ComputedAlways == Spec => []Computed
<1>1. Init => Computed
  BY DEF Init, Computed
<1>2. Computed /\ [Next]_vars => Computed'
  <2> SUFFICES ASSUME Computed, [Next]_vars PROVE Computed'
    OBVIOUS
  <2>1. CASE Allocate
    BY <2>1 DEF Computed, Allocate
  <2>2. CASE Quote
    BY <2>2 DEF Computed, Quote
  <2>3. CASE Validate \/ Send \/ UNCHANGED vars
    BY <2>3 DEF Computed, Validate, Send, vars
  <2> QED BY <2>1, <2>2, <2>3 DEF Next
<1> QED BY <1>1, <1>2, PTL DEF Spec

\* What a split that was not refused was of, and what came of it.
LEMMA AllocatedCall ==
  ASSUME Computed, Allocated
  PROVE  /\ call.of.amount \in Int /\ call.of.ratios \in Seq(Int)
         /\ call.of.denominator \in Nat \ {0}
         /\ ~AllocateThrows(call.of.ratios, call.of.denominator)
         /\ answer.shares = allocate(call.of.amount, call.of.ratios, call.of.denominator)
<1>1. call.of \in Splits
  BY DEF Computed, Allocated
<1>2. answer # [refused |-> TRUE]
  BY DEF Allocated
<1>3. /\ ~AllocateThrows(call.of.ratios, call.of.denominator)
      /\ answer = [shares |-> allocate(call.of.amount, call.of.ratios, call.of.denominator)]
  BY <1>2 DEF Computed, Allocated
<1> QED BY <1>1, <1>3, CallsAreNumeric

\* However a payment is split, the shares are all of it.
THEOREM AllocationExact == Spec => []AllocationIsExact
<1>1. Computed => AllocationIsExact
  <2> SUFFICES ASSUME Computed, Allocated, call.of.ratios # <<>>
               PROVE  Total(answer.shares) = call.of.amount
    BY DEF AllocationIsExact
  <2> QED BY AllocatedCall, AllocatedInFull
<1> QED BY <1>1, ComputedAlways, PTL

\* Of a debt as of a payment, no share is more than a unit away from its part.
LEMMA AllocatedFairlyEitherWay ==
  ASSUME NEW amount \in Int, NEW ratios \in Seq(Nat), ~AllocateThrows(ratios, 1),
         NEW i \in 1 .. Len(ratios)
  PROVE  Fair(amount, ratios, i)
<1>1. ratios # <<>> /\ ratios \in Seq(Int) /\ ratios[i] \in Nat
  OBVIOUS
<1>2. CASE amount >= 0
  BY <1>1, <1>2, AllocatedFairly
<1>3. CASE amount < 0
  <2> DEFINE n == Len(ratios)
             T == Total(ratios)
  <2>1. PICK p \in Nat : amount = -p
    BY <1>3
  <2>2. allocate(p, ratios, 1)[i] * T - p * ratios[i] \in -T .. T
    BY <1>1, AllocatedFairly DEF Fair
  <2>3. /\ allocate(-p, ratios, 1) = [j \in 1 .. n |-> -allocate(p, ratios, 1)[j]]
        /\ Numbers(allocate(p, ratios, 1), n) /\ T \in Nat
    BY <1>1, AllocatedMirrored, AllocatedInFull, DivisorIsPositive
  <2>4. PICK x \in Int : x = allocate(p, ratios, 1)[i]
    BY <2>3 DEF Numbers
  <2>5. allocate(amount, ratios, 1)[i] = -x
    BY <2>1, <2>3, <2>4
  <2>6. x * T - p * ratios[i] \in -T .. T
    BY <2>2, <2>4
  <2> HIDE DEF T
  <2>7. PICK k \in Nat : k = ratios[i]
    BY <1>1
  <2>8. x * T \in Int /\ p * k \in Int /\ (-x) * T = -(x * T) /\ (-p) * k = -(p * k)
    BY <2>3
  <2>9. (-x) * T - amount * ratios[i] \in -T .. T
    <3>1. amount * ratios[i] = -(p * k)
      BY <2>1, <2>7, <2>8
    <3>2. x * T - p * k \in -T .. T
      BY <2>6, <2>7
    <3>3. -(x * T) - -(p * k) \in -T .. T
      <4>1. ASSUME NEW u \in Int, NEW w \in Int, u - w \in -T .. T PROVE -u - -w \in -T .. T
        BY <2>3, <4>1
      <4> QED BY <2>8, <3>2, <4>1
    <3> QED BY <2>8, <3>1, <3>3
  <2> QED BY <2>5, <2>9 DEF T, Fair
<1> QED BY <1>2, <1>3

\* Nobody's share is off by more than a unit, in whatever order the ratios come.
THEOREM SharesFair == Spec => []SharesAreFair
<1>1. Computed => SharesAreFair
  <2> SUFFICES ASSUME Computed, Allocated, call.of.denominator = 1,
                      Range(call.of.ratios) \subseteq Nat,
                      NEW i \in DOMAIN answer.shares
               PROVE  answer.shares[i] * Total(call.of.ratios) - call.of.amount * call.of.ratios[i]
                        \in -Total(call.of.ratios) .. Total(call.of.ratios)
    BY DEF SharesAreFair
  <2>1. /\ call.of.amount \in Int /\ call.of.ratios \in Seq(Int) /\ ~AllocateThrows(call.of.ratios, 1)
        /\ answer.shares = allocate(call.of.amount, call.of.ratios, 1)
    BY AllocatedCall
  <2>2. call.of.ratios \in Seq(Nat)
    BY <2>1 DEF Range
  <2>3. i \in 1 .. Len(call.of.ratios)
    BY <2>1 DEF allocate
  <2> QED BY <2>1, <2>2, <2>3, AllocatedFairlyEitherWay DEF Fair
<1> QED BY <1>1, ComputedAlways, PTL

\* What is taken back is, share by share, what was given.
THEOREM RefundsMirror == Spec => []RefundsMirrorCharges
<1>1. Computed => RefundsMirrorCharges
  <2> SUFFICES ASSUME Computed, Allocated
               PROVE  allocate(-call.of.amount, call.of.ratios, call.of.denominator)
                        = [i \in DOMAIN answer.shares |-> -answer.shares[i]]
    BY DEF RefundsMirrorCharges
  <2> DEFINE amount == call.of.amount
             ratios == call.of.ratios
             d == call.of.denominator
  <2>1. /\ amount \in Int /\ ratios \in Seq(Int) /\ d \in Nat \ {0}
        /\ ~AllocateThrows(ratios, d) /\ answer.shares = allocate(amount, ratios, d)
    BY AllocatedCall
  <2> SUFFICES allocate(-amount, ratios, d) = [i \in DOMAIN answer.shares |-> -answer.shares[i]]
    OBVIOUS
  <2> HIDE DEF amount, ratios, d
  <2>2. CASE ratios = <<>>
    <3>1. DOMAIN allocate(amount, ratios, d) = {} /\ DOMAIN allocate(-amount, ratios, d) = {}
      BY <2>2 DEF allocate
    <3>2. allocate(-amount, ratios, d) = [i \in {} |-> 0]
      BY <2>2 DEF allocate
    <3> QED BY <2>1, <3>1, <3>2
  <2>3. CASE ratios # <<>>
    <3>1. /\ DOMAIN allocate(amount, ratios, d) = 1 .. Len(ratios)
          /\ allocate(-amount, ratios, d) = [i \in 1 .. Len(ratios) |-> -allocate(amount, ratios, d)[i]]
      BY <2>1, <2>3, AllocatedMirrored
    <3> QED BY <2>1, <3>1
  <2> QED BY <2>2, <2>3
<1> QED BY <1>1, ComputedAlways, PTL

\* The larger of two amounts is worth no less after division.
LEMMA DivMono ==
  ASSUME NEW a \in Int, NEW c \in Int, NEW b \in Nat \ {0}, a <= c
  PROVE  a \div b <= c \div b
  OBVIOUS

\* Splitting a payment in two saves a unit of its fee at most, and costs nothing.
LEMMA FeeParts ==
  ASSUME NEW a \in Nat, NEW p \in 0 .. a
  PROVE  Fee(p) + Fee(a - p) \in Fee(a) - 1 .. Fee(a)
  BY DEF Fee, Truncated, feeBps

\* What is left when the fee is paid is not below zero and grows with the amount.
LEMMA RestMono ==
  ASSUME NEW a \in Nat, NEW p \in 0 .. a
  PROVE  /\ p - Fee(p) \in Nat /\ a - Fee(a) \in Nat
         /\ p - Fee(p) <= a - Fee(a)
  BY DEF Fee, Truncated, feeBps

\* Who sends more receives no less.
LEMMA ConvertedMono ==
  ASSUME NEW a \in Nat, NEW p \in 0 .. a, NEW rate \in Nat, NEW d \in Nat \ {0}
  PROVE  Converted(p, rate, d) <= Converted(a, rate, d)
<1>1. PICK x \in Nat, y \in Nat : x = p - Fee(p) /\ y = a - Fee(a) /\ x <= y
  BY RestMono
<1>2. 2 * x * rate + d \in Int /\ 2 * y * rate + d \in Int /\ 2 * d \in Nat \ {0}
  OBVIOUS
<1>3. 2 * x * rate + d <= 2 * y * rate + d
  <2>1. x * rate <= y * rate
    BY <1>1
  <2>2. 2 * x * rate = 2 * (x * rate) /\ 2 * y * rate = 2 * (y * rate)
    OBVIOUS
  <2> QED BY <2>1, <2>2
<1>4. (2 * x * rate + d) \div (2 * d) <= (2 * y * rate + d) \div (2 * d)
  BY <1>2, <1>3, DivMono
<1> QED BY <1>1, <1>4 DEF Converted

\* Whatever is sent at whatever rate, the fee is fair and more never buys less.
THEOREM QuotesFair == Spec => []QuotesAreFair
<1>1. Computed => QuotesAreFair
  <2> SUFFICES ASSUME Computed, Quoted, call.of.amount >= 0 PROVE QuotesAreFair
    BY DEF QuotesAreFair
  <2>1. call.of.amount \in Nat /\ call.of.rate \in Nat /\ call.of.denominator \in Nat \ {0}
    BY CallsAreNumeric DEF Computed, Quoted
  <2>2. /\ answer.fee = Fee(call.of.amount)
        /\ answer.target = Converted(call.of.amount, call.of.rate, call.of.denominator)
    BY DEF Computed, Quoted
  <2> QED BY <2>1, <2>2, FeeParts, ConvertedMono DEF QuotesAreFair
<1> QED BY <1>1, ComputedAlways, PTL
==================================================================================
