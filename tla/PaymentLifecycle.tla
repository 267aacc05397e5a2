---------------------------- MODULE PaymentLifecycle ----------------------------
(***************************************************************************)
(* The life of a payment as the rest of the system may see it: the stored  *)
(* state of each payment, and the table of transitions the domain allows   *)
(* (packages/domain/src/payments/state-machine.ts).  PaymentOrchestrator   *)
(* is shown to stay within it.                                             *)
(***************************************************************************)

EXTENDS PaymentStateMachine

CONSTANT Payments

VARIABLE state

(***************************************************************************)
(* A payment is stored by a save, and between two saves its object makes   *)
(* one transition or two: this is what one save may do to the stored state.*)
(***************************************************************************)
MayBecome(from, to) ==
  \/ CanTransition(from, to)
  \/ \E via \in PaymentState : CanTransition(from, via) /\ CanTransition(via, to)

Init == state = [p \in Payments |-> "absent"]

\* The first save: a payment is created quoted and stored one transition later.
Appear(p) ==
  /\ state[p] = "absent"
  /\ \E s \in PaymentState :
       /\ CanTransition("quoted", s)
       /\ state' = [state EXCEPT ![p] = s]

\* A later save.
Advance(p) ==
  /\ state[p] \in PaymentState
  /\ \E s \in PaymentState :
       /\ MayBecome(state[p], s)
       /\ state' = [state EXCEPT ![p] = s]

Next == \E p \in Payments : Appear(p) \/ Advance(p)

Spec == Init /\ [][Next]_state
=================================================================================
