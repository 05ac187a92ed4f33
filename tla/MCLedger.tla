------------------------------ MODULE MCLedger ------------------------------
(***************************************************************************)
(* TLC harness of Ledger.  Requests and commands are numbers (commands     *)
(* from 101 up) and each counts once, so behaviours are finite but for     *)
(* retries, which change nothing.  Behaviours start at the two ends of a   *)
(* deal's life: from nothing to a change order, and from the acceptance    *)
(* window to the payment.                                                  *)
(***************************************************************************)
EXTENDS Ledger

\* A mandate in force until time 1, with a cap of one unit and one round of
\* negotiation; change orders need a person.
StrictMandate ==
  [ status |-> "active", signed |-> TRUE, nonce |-> 1, not_before |-> 0,
    expires_at |-> 1, counterparty |-> NoParty,
    allowed_actions |-> ActionToken, prohibited_actions |-> {},
    requires_human_approval_for |-> {"approve_change_order"},
    spend_cap |-> 1, currency |-> "usd", max_negotiation_rounds |-> 1,
    disclosure_fields |-> {"name"} ]
StrictMandates == [r \in RecordId |-> StrictMandate]

\* The same, but only the cap holds a change order.
CappedMandates ==
  [r \in RecordId |-> [StrictMandate EXCEPT !.requires_human_approval_for = {}]]

Proposal(d, k, action, amount, text) ==
  [ deal |-> d, key |-> k, action |-> action, amount |-> amount,
    disclosure_fields |-> {}, text |-> text ]

\* The screen finds nothing, or does not answer.
ScreenAnswers ==
  { [present |-> TRUE, available |-> available, hostility |-> 0,
     detected |-> <<>>] : available \in BOOLEAN }

\* One deal, from a quote to a change order past the cap.  The key of the
\* change order is also tried for another proposal.
ChangeOrdersOn(d) ==
  { Proposal(d, 1, "accept_agreement", 1, FALSE),
    Proposal(d, 2, "approve_change_order", 1, FALSE),
    Proposal(d, 2, "counteroffer", NoAmount, TRUE),
    Proposal(d, 3, "approve_change_order", NoAmount, FALSE) }
ChangeOrderProposals == UNION {ChangeOrdersOn(d) : d \in DealId}
OrderEvents ==
  {"quote_requested", "quote_received", "work_started", "change_requested"}
ChangeOrderEvents == [d \in DealId |-> OrderEvents]

\* One deal, from the acceptance window to capture, with a dispute.  Starting
\* the payment needs a person, capturing it does not.
PaymentMandates ==
  [r \in RecordId |->
     [StrictMandate EXCEPT !.requires_human_approval_for = {"initiate_payment"}]]
PaymentsOn(d) ==
  { Proposal(d, 1, "open_dispute", NoAmount, FALSE),
    Proposal(d, 5, "resolve_dispute", NoAmount, FALSE),
    Proposal(d, 2, "accept_completion", NoAmount, FALSE),
    Proposal(d, 3, "initiate_payment", NoAmount, FALSE),
    Proposal(d, 4, "capture_payment", NoAmount, FALSE) }
PaymentProposals == UNION {PaymentsOn(d) : d \in DealId}
PayEvents ==
  {"accepted", "payment_initiated", "payment_confirmed", "payment_failed"}
PaymentEvents == [d \in DealId |-> PayEvents]

\* The payment runs start where six boundary commands have brought a deal,
\* one command after the other, from a draft to the acceptance window.
ToAcceptance ==
  << "quote_requested", "quote_received", "agreement_reached",
     "work_started", "completion_claimed", "acceptance_window_opened" >>

Driven ==
  LET Drive(so_far, event) ==
        LET c == 101 + Len(so_far.events)
            plan == PlanCommitTransition(so_far.deal, c, event, FALSE)
        IN  [deal |-> plan.deal, events |-> so_far.events \o plan.events]
  IN  FoldLeft(Drive, [deal |-> DraftDeal, events |-> <<>>], ToAcceptance)

DrivenFrom(D) ==
  /\ deals = [d \in DealId |-> IF d \in D THEN Driven.deal ELSE UnknownDeal]
  /\ events = [d \in DealId |-> IF d \in D THEN Driven.events ELSE <<>>]
  /\ links \in {f \in [DealId -> RecordId \cup {NoRecord}] :
                \A d \in DealId : f[d] = NoRecord <=> d \notin D}
  /\ records = RecordId
  /\ revocations = {}
  /\ approvals = [q \in RequestId |-> NoApproval]
  /\ nonce_owners = [n \in Nonces |-> NoRecord]
  /\ seen_requests = {}
  /\ decisions = [k \in Key |-> NoDecision]
  /\ seen_commands = {100 + i : i \in 1..Len(ToAcceptance)}
  /\ now = 0
  /\ answer = Told("none")

DrivenSpec == DrivenFrom(DealId) /\ [][Next]_vars

\* Only behaviours that use requests and commands in increasing order are
\* explored: every other one is a renaming of one of these.
InOrder ==
  /\ \E n \in 0..Cardinality(RequestId) : seen_requests = 1..n
  /\ \E n \in 0..Cardinality(CommandId) :
       seen_commands = {100 + i : i \in 1..n}

-----------------------------------------------------------------------------
\* Both ends in one instance: the deal "order" starts from nothing, the deal
\* "payment" starts driven, and a behaviour has one of the two.
BothEnds == {"order", "payment"}
BothMandates ==
  [r \in RecordId |->
     [StrictMandate EXCEPT !.requires_human_approval_for =
        {"approve_change_order", "initiate_payment"}]]
BothProposals == ChangeOrdersOn("order") \cup PaymentsOn("payment")
BothEvents ==
  [d \in BothEnds |-> IF d = "order" THEN OrderEvents ELSE PayEvents]
BothSpec == (Init \/ DrivenFrom({"payment"})) /\ [][Next]_vars

\* Each end is explored within its own bounds: six commands and the mandate's
\* expiry on the way to a change order, three more commands at time 0 on the way to
\* the payment.
OneEnd ==
  /\ InOrder
  /\ IF Known("payment") THEN ~ Known("order") /\ now = 0
     ELSE Cardinality(seen_commands) <= 6
=============================================================================
