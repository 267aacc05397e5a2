--------------------------------- MODULE PayOnce ---------------------------------
(***************************************************************************)
(* What a caller is promised about an idempotency key, with nothing of the *)
(* machinery that delivers it: an operation is carried out by at most one  *)
(* payment however often it is requested, the rail is instructed only for  *)
(* a payment the ledger has booked, and every successful answer for an     *)
(* operation names the same payment.  An operation is a key, or a single   *)
(* request when the caller gave no key.                                    *)
(***************************************************************************)

CONSTANTS Operations, Payments

VARIABLES
  debits,      \* pairs <<operation, payment>> booked in the ledger
  instructed,  \* payments the rail has been told to pay out
  answers      \* pairs <<operation, payment>> told to callers

vars == <<debits, instructed, answers>>

Init ==
  /\ debits = {}
  /\ instructed = {}
  /\ answers = {}

Debit(o, p) ==
  /\ \A q \in Payments : <<o, q>> \notin (debits \cup answers)
  /\ debits' = debits \cup {<<o, p>>}
  /\ UNCHANGED <<instructed, answers>>

Instruct(o, p) ==
  /\ <<o, p>> \in debits
  /\ instructed' = instructed \cup {p}
  /\ UNCHANGED <<debits, answers>>

Answer(o, p) ==
  /\ \A q \in Payments : <<o, q>> \in (debits \cup answers) => q = p
  /\ answers' = answers \cup {<<o, p>>}
  /\ UNCHANGED <<debits, instructed>>

Next ==
  \E o \in Operations, p \in Payments : Debit(o, p) \/ Instruct(o, p) \/ Answer(o, p)

Spec == Init /\ [][Next]_vars
==================================================================================
