--------------------------- MODULE PaymentStateMachine ---------------------------
(***************************************************************************)
(* The states of a payment and how they may follow each other, as the code *)
(* has it twice: the table of transitions that Payment's own methods are   *)
(* held to (packages/domain/src/payments/state-machine.ts), and the XState *)
(* machine that other programs may drive by events (packages/orchestration *)
(* /src/state-machine/xstate-payment.machine.ts).                          *)
(***************************************************************************)

PaymentState ==
  {"quoted", "validated", "committed", "submitted", "settled", "reversed", "failed"}

VALID_PAYMENT_TRANSITIONS ==
  [s \in PaymentState |->
     CASE s = "quoted"    -> {"validated", "failed"}
       [] s = "validated" -> {"committed", "failed"}
       [] s = "committed" -> {"submitted", "failed"}
       [] s = "submitted" -> {"settled", "failed"}
       [] s = "settled"   -> {"reversed"}
       [] OTHER           -> {}]

CanTransition(from, to) == to \in VALID_PAYMENT_TRANSITIONS[from]

---------------------------------------------------------------------------------
PaymentMachineEvent == {"VALIDATE", "COMMIT", "SUBMIT", "SETTLE", "REVERSE", "FAIL"}

\* Where the machine goes on an event: <<from, event, to>>.  Reversed and failed are final.
advances ==
  {<<"quoted", "VALIDATE", "validated">>, <<"validated", "COMMIT", "committed">>,
   <<"committed", "SUBMIT", "submitted">>, <<"submitted", "SETTLE", "settled">>,
   <<"settled", "REVERSE", "reversed">>}

\* Mutant: a settled payment may fail as well.
failuresOfSettled ==
  {<<s, "FAIL", "failed">> : s \in {"quoted", "validated", "committed", "submitted", "settled"}}

failures == {<<s, "FAIL", "failed">> : s \in {"quoted", "validated", "committed", "submitted"}}

states == advances \cup failures

\* The events whose edges have the action recordFailure.
recordFailure == {"FAIL", "REVERSE"}

\* An actor started in a state is sent one event: the state it is then in, and whether it has
\* recorded a reason.  An event the state does not list is ignored.
send(from, event) ==
  LET to == {s \in PaymentState : <<from, event, s>> \in states}
  IN  IF to = {} THEN [value |-> from, reason |-> "none"]
      ELSE [value |-> CHOOSE s \in to : TRUE,
            reason |-> IF event \in recordFailure THEN "recorded" ELSE "none"]
==================================================================================
