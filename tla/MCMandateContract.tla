------------------------- MODULE MCMandateContract -------------------------
(***************************************************************************)
(* TLC harness of MandateContract: one deal, one record that may lapse or  *)
(* be revoked, a handful of requests and commands.  Every behaviour of the *)
(* instance is finite because each request and each command counts once:   *)
(* no other bound is needed.                                               *)
(***************************************************************************)
EXTENDS MandateContract

\* A cap of one unit and one negotiation round.
MCMandate == [r \in RecordId |-> [spend_cap |-> 1, max_negotiation_rounds |-> 1]]

\* One action of every kind the limits tell apart: negotiation, the two that
\* commit money, a dispute, a payment, and the decision-only action.
Ask(action, amount) == [action |-> action, amount |-> amount]
MCAsks ==
  { Ask("counteroffer", 1), Ask("accept_agreement", 1),
    Ask("approve_change_order", 1), Ask("open_dispute", NoAmount),
    Ask("initiate_payment", 1), Ask("resolve_dispute", NoAmount) }

\* Requests and commands are numbers here, and interchangeable: only
\* behaviours that use them in increasing order are explored, every other
\* one is a renaming of one of these.
InOrder ==
  /\ \E n \in 0..Cardinality(RequestId) : spent \cap RequestId = 1..n
  /\ \E n \in 0..Cardinality(CommandId) :
       spent \cap CommandId = {100 + i : i \in 1..n}
=============================================================================
