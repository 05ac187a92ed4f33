-------------------------- MODULE DealStateMachine --------------------------
(***************************************************************************)
(* The deal vocabulary and the transition table of mandate.domain: states, *)
(* events, the closed action vocabulary, and the pure functions every      *)
(* writer of the ledger goes through (transition_for, apply_event,         *)
(* apply_action).                                                          *)
(*                                                                         *)
(* In the source the table is a dictionary of 38 (state, event) pairs.     *)
(* Every event leads to one state whatever state it leaves, so the table   *)
(* is written here as the sources and the target of each event.            *)
(***************************************************************************)
EXTENDS Integers

DealState ==
  { "draft", "quote_requested", "quote_received", "negotiating", "agreed",
    "in_progress", "change_requested", "completed", "acceptance_window",
    "disputed", "accepted", "payment_pending", "captured",
    "partially_refunded", "refunded", "cancelled", "expired", "failed" }

DealEvent ==
  { "quote_requested", "quote_received", "counteroffered",
    "agreement_reached", "work_started", "change_requested",
    "change_approved", "change_rejected", "completion_claimed",
    "acceptance_window_opened", "accepted", "dispute_opened",
    "payment_initiated", "payment_confirmed", "payment_failed", "refunded",
    "partially_refunded", "cancelled", "expired", "resumed" }

ActionToken ==
  { "request_quote", "counteroffer", "accept_agreement", "start_work",
    "propose_change", "approve_change_order", "claim_completion",
    "accept_completion", "open_dispute", "initiate_payment",
    "capture_payment", "cancel_deal", "resolve_dispute" }

\* The Python None of an optional event or target state.
NoEvent == "no_event"
NoState == "no_state"

\* Definitions called "a faulty variant" are no part of the model: each is a
\* plausible bug in the definition that follows it, kept to show that the
\* properties would catch it.

\* An amount is a natural number of minor units or absent.  An absent amount
\* skips the currency and cap checks, a zero amount does not.
NoAmount == -1
Amount == Nat \cup {NoAmount}

\* A faulty variant of Minor: the absent amount is added as it is.
MinorAsIs(amount) == amount

Minor(amount) == IF amount = NoAmount THEN 0 ELSE amount

TerminalStates ==
  { "captured", "partially_refunded", "refunded", "cancelled", "expired" }
CancelExcluded == TerminalStates \cup {"failed"}

-----------------------------------------------------------------------------
\* TRANSITIONS, by event: the states it may leave and the state it reaches.
Sources ==
  [ quote_requested          |-> {"draft"},
    quote_received           |-> {"quote_requested"},
    counteroffered           |-> {"quote_received", "negotiating"},
    agreement_reached        |-> {"quote_received", "negotiating"},
    work_started             |-> {"agreed"},
    change_requested         |-> {"in_progress"},
    change_approved          |-> {"change_requested"},
    change_rejected          |-> {"change_requested"},
    completion_claimed       |-> {"in_progress"},
    acceptance_window_opened |-> {"completed"},
    accepted                 |-> {"acceptance_window", "disputed"},
    dispute_opened           |-> {"acceptance_window"},
    payment_initiated        |-> {"accepted"},
    payment_confirmed        |-> {"payment_pending"},
    payment_failed           |-> {"payment_pending"},
    refunded                 |-> {"disputed"},
    partially_refunded       |-> {"disputed"},
    cancelled                |-> {"draft", "quote_requested", "quote_received",
                                  "negotiating", "agreed", "in_progress",
                                  "change_requested", "completed",
                                  "acceptance_window", "disputed",
                                  "accepted", "payment_pending"},
    expired                  |-> {"draft", "quote_requested", "quote_received",
                                  "negotiating", "agreed"},
    resumed                  |-> {"failed"} ]

Target ==
  [ quote_requested          |-> "quote_requested",
    quote_received           |-> "quote_received",
    counteroffered           |-> "negotiating",
    agreement_reached        |-> "agreed",
    work_started             |-> "in_progress",
    change_requested         |-> "change_requested",
    change_approved          |-> "in_progress",
    change_rejected          |-> "in_progress",
    completion_claimed       |-> "completed",
    acceptance_window_opened |-> "acceptance_window",
    accepted                 |-> "accepted",
    dispute_opened           |-> "disputed",
    payment_initiated        |-> "payment_pending",
    payment_confirmed        |-> "captured",
    payment_failed           |-> "failed",
    refunded                 |-> "refunded",
    partially_refunded       |-> "partially_refunded",
    cancelled                |-> "cancelled",
    expired                  |-> "expired",
    resumed                  |-> "payment_pending" ]

\* transition_for: the target state, NoState when the pair is not in the table.
TransitionFor(state, event) ==
  IF state \in Sources[event] THEN Target[event] ELSE NoState

\* ACTION_VALID_STATES: where the policy engine lets an action start.
ActionValidStates ==
  [ request_quote        |-> {"draft"},
    counteroffer         |-> {"quote_received", "negotiating"},
    accept_agreement     |-> {"quote_received", "negotiating"},
    start_work           |-> {"agreed"},
    propose_change       |-> {"in_progress"},
    approve_change_order |-> {"change_requested"},
    claim_completion     |-> {"in_progress"},
    accept_completion    |-> {"acceptance_window", "disputed"},
    open_dispute         |-> {"acceptance_window"},
    initiate_payment     |-> {"accepted"},
    capture_payment      |-> {"payment_pending"},
    cancel_deal          |-> DealState \ CancelExcluded,
    resolve_dispute      |-> {"disputed"} ]

\* ACTION_EVENTS: the event an allowed action applies.  resolve_dispute is
\* decision-only.
ActionEvents ==
  [ request_quote        |-> "quote_requested",
    counteroffer         |-> "counteroffered",
    accept_agreement     |-> "agreement_reached",
    start_work           |-> "work_started",
    propose_change       |-> "change_requested",
    approve_change_order |-> "change_approved",
    claim_completion     |-> "completion_claimed",
    accept_completion    |-> "accepted",
    open_dispute         |-> "dispute_opened",
    initiate_payment     |-> "payment_initiated",
    capture_payment      |-> "payment_confirmed",
    cancel_deal          |-> "cancelled",
    resolve_dispute      |-> NoEvent ]

NegotiationActions == {"counteroffer"}

\* A faulty variant of PaymentActions: only the start of a payment is one.
PaymentActionsInitiate == {"initiate_payment"}

PaymentActions == {"initiate_payment", "capture_payment"}

-----------------------------------------------------------------------------
\* The deal projection: its state and the four counters.
Deal ==
  [ state             : DealState,
    negotiated_rounds : Nat,
    committed_minor   : Nat,
    open_disputes     : Nat,
    open_approvals    : Nat ]

\* A deal of the in-memory store, which may not be registered yet.
DealRow == [ state : DealState \cup {NoState}, negotiated_rounds : Nat,
             committed_minor : Nat, open_disputes : Nat, open_approvals : Nat ]

\* A deal as both boundaries register it.
DraftDeal ==
  [ state             |-> "draft",
    negotiated_rounds |-> 0,
    committed_minor   |-> 0,
    open_disputes     |-> 0,
    open_approvals    |-> 0 ]

\* max(0, n - 1): every counter closes with a floor.
Decrement(n) == IF n > 0 THEN n - 1 ELSE 0

RoundsAfter(deal, event) ==
  IF event = "counteroffered"
  THEN deal.negotiated_rounds + 1 ELSE deal.negotiated_rounds

\* A faulty variant of CommittedAfter: every event adds its amount.
CommittedAfterAnyEvent(deal, event, amount) ==
  deal.committed_minor + Minor(amount)

CommittedAfter(deal, event, amount) ==
  IF event \in {"agreement_reached", "change_approved"}
  THEN deal.committed_minor + Minor(amount) ELSE deal.committed_minor

\* A faulty variant of DisputesAfter: accepting the work in a dispute forgets
\* to close the dispute.
DisputesAfterNotClosed(deal, event) ==
  CASE event = "dispute_opened" -> deal.open_disputes + 1
    [] event \in {"refunded", "partially_refunded"} -> 0
    [] OTHER -> deal.open_disputes

DisputesAfter(deal, event) ==
  CASE event = "dispute_opened" -> deal.open_disputes + 1
    [] event = "accepted" /\ deal.state = "disputed" ->
         Decrement(deal.open_disputes)
    [] event \in {"refunded", "partially_refunded"} -> 0
    [] OTHER -> deal.open_disputes

\* apply_event: the deal after one event whose target the caller computed.
ApplyEvent(deal, event, target, amount) ==
  [ state             |-> target,
    negotiated_rounds |-> RoundsAfter(deal, event),
    committed_minor   |-> CommittedAfter(deal, event, amount),
    open_disputes     |-> DisputesAfter(deal, event),
    open_approvals    |-> deal.open_approvals ]

\* apply_action: the deal after an allowed action.  Callers check first that
\* the stored state permits the action's event.
ApplyAction(deal, action, amount) ==
  LET event == ActionEvents[action]
      moved == IF event = NoEvent THEN deal
               ELSE ApplyEvent(deal, event, TransitionFor(deal.state, event),
                               amount)
  IN  IF action = "resolve_dispute"
      THEN [moved EXCEPT !.open_disputes = Decrement(@)]
      ELSE moved
=============================================================================
