----------------------------- MODULE ValidationGate -----------------------------
(***************************************************************************)
(* PaymentValidationGate.validate (packages/domain/src/payments) and the   *)
(* five rules it asks (packages/domain/src/rules).  A rule is a function   *)
(* of the context; the gate combines the five decisions.  Reasons and      *)
(* metadata are left out.  A field a caller may leave out has the value    *)
(* the code then uses: a score of 0, a count of 1, FALSE; a recipient      *)
(* without a KYC status has "none".  The gate hands on whether the         *)
(* recipient is sanctioned, never the sender.  Countries are compared in   *)
(* upper case.                                                             *)
(***************************************************************************)
EXTENDS Integers

CONSTANT NoAmount   \* no USD equivalent was given

ASSUME NoAmountIsNone == NoAmount \notin Int

KycStatus == {"VERIFIED", "UNVERIFIED", "PENDING"}
Verdicts == {"ALLOW", "MANUAL_REVIEW", "DENY"}

\* Contexts as the code's types have them: whole amounts and counts, scores that can be compared.
Comparable(c) ==
  /\ c.senderRisk \in Int /\ c.recipientRisk \in Int /\ c.txCount \in Int /\ c.amount \in Int
  /\ c.usd \in Int \cup {NoAmount}
  /\ c.sanctioned \in BOOLEAN /\ c.pep \in BOOLEAN

BlockedCountries == {"KP", "IR", "SY", "CU", "RU", "MM"}
HighRiskCountries == {"YE", "VE", "AF", "SS"}
Threshold == 1000000      \* of minor units: $10,000.00
MaxTxPerHour == 20
ReviewTxPerHour == 15     \* Math.floor(20 * 0.75)

\* What a rule decides, given what makes it deny and what makes it ask for a review.
Verdict(denied, elevated) ==
  IF denied THEN "DENY" ELSE IF elevated THEN "MANUAL_REVIEW" ELSE "ALLOW"

KycRule(c) ==
  Verdict(c.senderKyc # "VERIFIED", c.recipientKyc = "UNVERIFIED")

\* Mutant: the scores are compared one by one, and the sender's settles the matter.
SenderFirst(c) ==
  LET risk == IF c.senderRisk > 0 THEN c.senderRisk ELSE c.recipientRisk
  IN  Verdict(c.sanctioned \/ risk >= 85, risk >= 60 \/ c.pep)

AmlRule(c) ==
  LET AtLeast(risk) == c.senderRisk >= risk \/ c.recipientRisk >= risk
  IN  Verdict(c.sanctioned \/ AtLeast(85), AtLeast(60) \/ c.pep)

\* The USD equivalent if there is one, else the amount if it is in USD; else nothing is compared.
ThresholdRule(c) ==
  Verdict(FALSE,
          IF c.usd # NoAmount THEN c.usd > Threshold
                              ELSE c.currency = "USD" /\ c.amount > Threshold)

CountryRule(c) ==
  LET Involves(countries) == c.senderCountry \in countries \/ c.recipientCountry \in countries
  IN  Verdict(Involves(BlockedCountries), Involves(HighRiskCountries))

VelocityRule(c) ==
  Verdict(c.txCount > MaxTxPerHour, c.txCount > ReviewTxPerHour)

\* Mutant: a later review replaces an earlier denial.
LastRuleWins(decision, ruled) == IF ruled = "ALLOW" THEN decision ELSE ruled

\* One turn of the gate's loop: the decision so far, and the next rule's.
Combine(decision, ruled) ==
  IF ruled = "DENY" THEN "DENY"
  ELSE IF ruled = "MANUAL_REVIEW" /\ decision # "DENY" THEN "MANUAL_REVIEW"
  ELSE decision

validate(c) ==
  LET afterKyc == Combine("ALLOW", KycRule(c))
      afterAml == Combine(afterKyc, AmlRule(c))
      afterThreshold == Combine(afterAml, ThresholdRule(c))
      afterCountry == Combine(afterThreshold, CountryRule(c))
  IN  Combine(afterCountry, VelocityRule(c))

---------------------------------------------------------------------------------
(* What the gate promises. *)

RuleVerdicts(c) ==
  {KycRule(c), AmlRule(c), ThresholdRule(c), CountryRule(c), VelocityRule(c)}

\* v is w, or stricter: a denial before a review, a review before leave to go on.
NoLaxer(v, w) == v = w \/ v = "DENY" \/ w = "ALLOW"

\* The gate decides as one of its rules and no laxer than any of them.
IsStrictest(c, v) ==
  /\ v \in RuleVerdicts(c)
  /\ \A w \in RuleVerdicts(c) : NoLaxer(v, w)

\* d is c with as much risk or more in every respect a number or a flag expresses.
AtLeastAsRisky(d, c) ==
  /\ d.senderRisk >= c.senderRisk /\ d.recipientRisk >= c.recipientRisk
  /\ d.txCount >= c.txCount
  /\ c.sanctioned => d.sanctioned
  /\ c.pep => d.pep
  /\ d.usd = c.usd \/ (d.usd # NoAmount /\ c.usd # NoAmount /\ d.usd >= c.usd)
  /\ d.amount >= c.amount /\ d.currency = c.currency
  /\ <<d.senderKyc, d.recipientKyc, d.senderCountry, d.recipientCountry>>
       = <<c.senderKyc, c.recipientKyc, c.senderCountry, c.recipientCountry>>
=================================================================================
