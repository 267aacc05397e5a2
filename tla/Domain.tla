--------------------------------- MODULE Domain ---------------------------------
(***************************************************************************)
(* The pure functions of the domain as their callers see them: a call is   *)
(* made, and answered or refused.  Every call TLC is given is made, so     *)
(* that the properties below compare each answer with what the function is *)
(* meant to compute and with its answers to related calls.                 *)
(***************************************************************************)
EXTENDS ValidationGate, Money, PaymentStateMachine

CONSTANTS Contexts,   \* what the gate is asked about
          Splits,     \* what is allocated: records of amount, ratios, denominator
          Exchanges   \* what is quoted: records of amount, rate, denominator

ASSUME ContextsAreComparable == \A c \in Contexts : Comparable(c)

\* Amounts are bigints, ratios and rates numbers: fractions of one denominator a call.
ASSUME CallsAreNumeric ==
  /\ \A s \in Splits :
       s.amount \in Int /\ s.ratios \in Seq(Int) /\ s.denominator \in Nat \ {0}
  /\ \A x \in Exchanges : x.amount \in Int /\ x.rate \in Nat /\ x.denominator \in Nat \ {0}

VARIABLES call, answer

vars == <<call, answer>>

NoAnswer == <<>>

Init ==
  /\ answer = NoAnswer
  /\ call \in [op : {"validate"}, of : Contexts] \cup [op : {"allocate"}, of : Splits]
              \cup [op : {"quote"}, of : Exchanges]
              \cup [op : {"send"}, of : PaymentState \X PaymentMachineEvent]

Validate ==
  /\ answer = NoAnswer
  /\ call.op = "validate"
  /\ answer' = [verdict |-> validate(call.of)]
  /\ UNCHANGED call

Allocate ==
  /\ answer = NoAnswer
  /\ call.op = "allocate"
  /\ answer' = IF AllocateThrows(call.of.ratios, call.of.denominator)
               THEN [refused |-> TRUE]
               ELSE [shares |-> allocate(call.of.amount, call.of.ratios, call.of.denominator)]
  /\ UNCHANGED call

\* PaymentQuote.create
Quote ==
  /\ answer = NoAnswer
  /\ call.op = "quote"
  /\ answer' = [fee |-> Fee(call.of.amount),
                target |-> Converted(call.of.amount, call.of.rate, call.of.denominator)]
  /\ UNCHANGED call

Send ==
  /\ answer = NoAnswer
  /\ call.op = "send"
  /\ answer' = send(call.of[1], call.of[2])
  /\ UNCHANGED call

Next == Validate \/ Allocate \/ Quote \/ Send

Spec == Init /\ [][Next]_vars

---------------------------------------------------------------------------------
Validated == answer # NoAnswer /\ call.op = "validate"
Quoted == answer # NoAnswer /\ call.op = "quote"
Sent == answer # NoAnswer /\ call.op = "send"
Allocated == answer # NoAnswer /\ call.op = "allocate" /\ "shares" \in DOMAIN answer

\* The gate decides as the strictest of its rules (the loop at the end of validate).
StrictestRuleWins == Validated => IsStrictest(call.of, answer.verdict)

\* More risk never makes the gate laxer, whichever rules it moves (validate).
RiskNeverHelps ==
  Validated =>
    \A d \in Contexts : AtLeastAsRisky(d, call.of) => NoLaxer(validate(d), answer.verdict)

\* What is allocated is all there was, not a unit more or less (allocate's two last loops); only
\* no ratios at all make it disappear (its first return).
AllocationIsExact ==
  Allocated => \/ call.of.ratios = <<>>
               \/ Total(answer.shares) = call.of.amount

\* With ratios that need no rounding, none of them below zero, each share is less than a unit
\* away from its part, or a whole one: nobody gets two units of the remainder while another gets
\* none (allocate).
SharesAreFair ==
  Allocated =>
    LET total == Total(call.of.ratios)
        Off(i) == answer.shares[i] * total - call.of.amount * call.of.ratios[i]
    IN  call.of.denominator = 1 /\ Range(call.of.ratios) \subseteq Nat =>
          \A i \in DOMAIN answer.shares : Off(i) \in -total..total

\* A refund split by the ratios of the charge takes back from each what it got (allocate).
RefundsMirrorCharges ==
  Allocated =>
    allocate(-call.of.amount, call.of.ratios, call.of.denominator)
      = [i \in DOMAIN answer.shares |-> -answer.shares[i]]

\* A payment sent in two parts pays the fee of the whole or a unit less, and more money never
\* buys less (PaymentQuote.create, with the fee rounded toward zero).
QuotesAreFair ==
  Quoted /\ call.of.amount >= 0 =>
    /\ \A part \in 0 .. call.of.amount :
         Fee(part) + Fee(call.of.amount - part) \in answer.fee - 1 .. answer.fee
    /\ \A less \in 0 .. call.of.amount :
         Converted(less, call.of.rate, call.of.denominator) <= answer.target

\* The machine and the table are one: an event takes a payment along an edge of the table or
\* leaves it where it is, every edge of the table has its event, and a reason is kept exactly of
\* the payments that fail or are reversed (the two definitions of the lifecycle).
MachineFollowsTable ==
  Sent =>
    LET from == call.of[1]
    IN  /\ answer.value # from => CanTransition(from, answer.value)
        /\ \A to \in VALID_PAYMENT_TRANSITIONS[from] :
             \E event \in PaymentMachineEvent : send(from, event).value = to
        /\ answer.reason = "recorded" <=> answer.value # from /\ answer.value \in {"failed", "reversed"}
=================================================================================
