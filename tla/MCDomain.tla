-------------------------------- MODULE MCDomain --------------------------------
(* Values for the constants of Domain in TLC's run. *)
EXTENDS Domain

\* The values on both sides of each rule's limits; every rule can allow, hold and deny.
Context(kyc, risk, sum, countries, count, flags) ==
  [senderKyc |-> kyc[1], recipientKyc |-> kyc[2],
   senderRisk |-> risk[1], recipientRisk |-> risk[2], sanctioned |-> flags[1], pep |-> flags[2],
   amount |-> sum[1], currency |-> sum[2], usd |-> sum[3],
   senderCountry |-> countries[1], recipientCountry |-> countries[2], txCount |-> count]

Clear == <<"VERIFIED", "none">>
Scores == {0, 59, 60, 84, 85}

\* Every pair of scores and every count, for senders and payees without any other mark.
ByNumbers ==
  {Context(Clear, risk, <<sum, "USD", NoAmount>>, <<"US", "DE">>, count, <<FALSE, pep>>) :
     risk \in Scores \X Scores, sum \in {1000000, 1000001}, count \in {1, 15, 16, 20, 21},
     pep \in BOOLEAN}

\* Every combination of one rule's decision with another's.
ByMarks ==
  {Context(kyc, <<risk, 0>>, sum, <<"US", country>>, count, <<listed, FALSE>>) :
     kyc \in {Clear, <<"VERIFIED", "UNVERIFIED">>, <<"PENDING", "VERIFIED">>},
     risk \in {59, 60, 85}, listed \in BOOLEAN, country \in {"DE", "YE", "KP"}, count \in {1, 16, 21},
     sum \in {<<1, "USD", NoAmount>>, <<1, "EUR", 1000001>>, <<1000001, "EUR", NoAmount>>,
              <<1000001, "USD", 1>>, <<1000001, "USD", NoAmount>>}}

MCContexts == ByNumbers \cup ByMarks

Split(amounts, ratios, denominators) ==
  [amount : amounts, ratios : ratios, denominator : denominators]

\* Whole ratios and thirds, one of them negative or all of them zero, and ratios so small that
\* the divisor rounds to zero.
MCSplits ==
  Split({-100, -7, -1, 0, 1, 2, 7, 100}, {<<>>} \cup UNION {[1..n -> 0..3] : n \in 1..3}, {1, 3})
    \cup Split({-10, 1, 10}, {<<2, -1>>, <<-1, -1, 3>>, <<-1, 2, 2>>}, {1, 3})
    \cup Split({5}, {<<1>>, <<1, 0, 2>>}, {30000, 100000})

\* Amounts around the steps of the fee, at rates above and below one.
MCExchanges ==
  [amount : {-500, -1, 0, 1, 249, 250, 499, 500, 501, 1000, 2749}, rate : {100, 375, 79, 26},
   denominator : {100}]
=================================================================================
