---------------------------------- MODULE MCLedger ----------------------------------
(* Values for the constants of Ledger in TLC's runs. *)
EXTENDS Ledger, TLC

CONSTANTS cash, wallet, rent, euros, USD, EUR, x1, x2, x3

MCTypeOf ==
  [a \in Accounts |-> CASE a = wallet -> "LIABILITY" [] a = rent -> "EXPENSE" [] OTHER -> "ASSET"]

MCCurrencyOf == [a \in Accounts |-> IF a = euros THEN EUR ELSE USD]

Moves(pairs, currencies, amounts) ==
  {[source |-> p[1], destination |-> p[2], currency |-> c, amount |-> n] :
     p \in pairs, c \in currencies, n \in amounts}

\* A source may be in another currency than the payment, and so may a payee; an amount may be
\* zero or less.
Payments ==
  Moves({<<wallet, cash>>, <<cash, rent>>, <<cash, cash>>}, {USD}, {1, 3})
    \cup Moves({<<wallet, cash>>}, {USD}, {0, -1})
    \cup Moves({<<wallet, euros>>, <<euros, euros>>, <<euros, cash>>}, {EUR}, {2})
    \cup Moves({<<wallet, euros>>, <<cash, euros>>}, {USD}, {3})

Symmetry == Permutations(Transfers)
===================================================================================
