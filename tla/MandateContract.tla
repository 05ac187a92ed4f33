--------------------------- MODULE MandateContract --------------------------
(***************************************************************************)
(* What the ledger promises about deals, with none of its machinery: no    *)
(* hash chain, no anti-replay gate, no idempotency keys, no clock.  A deal *)
(* changes only when                                                       *)
(*                                                                         *)
(*   - the agent acts within a mandate in force (Perform),                 *)
(*   - a person overrides for one held request (Grant), or                 *)
(*   - the boundary reports an event of the table (Observe),               *)
(*                                                                         *)
(* each request and each command counts once, and a held request is        *)
(* decided once.  Ledger implements this contract; see                     *)
(* Ledger!ImplementsContract.                                              *)
(***************************************************************************)
EXTENDS DealStateMachine, FiniteSets

CONSTANTS
  DealId, RecordId,
  RequestId,     \* proposals of the agent
  CommandId,     \* commands of the boundary and of the operator
  Mandate,       \* RecordId -> the signed limits of the record
  Asks,          \* what a proposal may ask for: an action and an amount
  NoRecord       \* the link of a deal that is not registered

ASSUME ContractAssumption ==
  /\ NoRecord \notin RecordId
  /\ Asks \subseteq [action : ActionToken, amount : Amount]
  /\ IsFiniteSet(RequestId)
  /\ \A r \in RecordId :
       /\ Mandate[r].spend_cap \in Nat
       /\ Mandate[r].max_negotiation_rounds \in Nat

VARIABLES
  deals,        \* DealId -> projection; state NoState until registered
  links,        \* DealId -> the record the deal acts under
  approvals,    \* RequestId -> the approval the request opened, if any
  withdrawn,    \* the records that are no longer in force
  spent         \* the requests and commands that have counted

vars == <<deals, links, approvals, withdrawn, spent>>

UnknownDeal == [DraftDeal EXCEPT !.state = NoState]
Known(d) == deals[d].state # NoState

\* An approval row: which deal, action and amount a person is asked about.
NotHeld == [status |-> "none"]
Approval == [ status : {"pending", "granted", "denied"}, deal : DealId,
              record : RecordId, action : ActionToken, amount : Amount ]

Pending(q) == approvals[q].status = "pending"
PendingFor(d) == {q \in RequestId : Pending(q) /\ approvals[q].deal = d}

Init ==
  /\ deals = [d \in DealId |-> UnknownDeal]
  /\ links = [d \in DealId |-> NoRecord]
  /\ approvals = [q \in RequestId |-> NotHeld]
  /\ withdrawn \in SUBSET RecordId
  /\ spent = {}

-----------------------------------------------------------------------------
Register(d, r) ==
  /\ ~ Known(d)
  /\ deals' = [deals EXCEPT ![d] = DraftDeal]
  /\ links' = [links EXCEPT ![d] = r]
  /\ UNCHANGED <<approvals, withdrawn, spent>>

\* A faulty variant of WithinLimits: the cap bounds each request alone.
WithinLimitsPerRequest(deal, m, action, amount) ==
  /\ action \in NegotiationActions =>
       deal.negotiated_rounds < m.max_negotiation_rounds
  /\ amount # NoAmount => amount <= m.spend_cap
  /\ action \in PaymentActions =>
       deal.open_disputes = 0 /\ deal.open_approvals = 0

\* The limits of the mandate the agent may not pass on its own.
WithinLimits(deal, m, action, amount) ==
  /\ action \in NegotiationActions =>
       deal.negotiated_rounds < m.max_negotiation_rounds
  /\ amount # NoAmount => deal.committed_minor + amount <= m.spend_cap
  /\ action \in PaymentActions =>
       deal.open_disputes = 0 /\ deal.open_approvals = 0

CanMove(deal, action) ==
  /\ ActionEvents[action] # NoEvent
  /\ TransitionFor(deal.state, ActionEvents[action]) # NoState

Perform(q, d, action, amount) ==
  /\ Known(d) /\ q \notin spent
  /\ links[d] \notin withdrawn
  /\ CanMove(deals[d], action)
  /\ WithinLimits(deals[d], Mandate[links[d]], action, amount)
  /\ deals' = [deals EXCEPT ![d] = ApplyAction(@, action, amount)]
  /\ spent' = spent \cup {q}
  /\ UNCHANGED <<links, approvals, withdrawn>>

Hold(q, d, action, amount) ==
  /\ Known(d) /\ q \notin spent
  /\ links[d] \notin withdrawn
  /\ approvals[q] = NotHeld
  /\ approvals' = [approvals EXCEPT ![q] =
       [ status |-> "pending", deal |-> d, record |-> links[d],
         action |-> action, amount |-> amount ]]
  /\ deals' = [deals EXCEPT ![d].open_approvals = @ + 1]
  /\ spent' = spent \cup {q}
  /\ UNCHANGED <<links, withdrawn>>

\* A request that changes nothing, denied or decision-only, still counts.
Refuse(q) ==
  /\ q \notin spent
  /\ spent' = spent \cup {q}
  /\ UNCHANGED <<deals, links, approvals, withdrawn>>

\* One approval fewer is open.
Close(deal) == [deal EXCEPT !.open_approvals = Decrement(@)]

\* A person's override: the limits are not asked again, the mandate and the
\* state are.
Grant(q, c) ==
  LET a == approvals[q] IN
  /\ Pending(q) /\ c \notin spent
  /\ a.record \notin withdrawn
  /\ CanMove(deals[a.deal], a.action)
  /\ approvals' = [approvals EXCEPT ![q].status = "granted"]
  /\ deals' = [deals EXCEPT ![a.deal] =
                 Close(ApplyAction(@, a.action, a.amount))]
  /\ spent' = spent \cup {c}
  /\ UNCHANGED <<links, withdrawn>>

\* A faulty variant of Dismiss: only a grant closes the count.
DismissUncounted(q, c) ==
  /\ Pending(q) /\ c \notin spent
  /\ approvals' = [approvals EXCEPT ![q].status = "denied"]
  /\ spent' = spent \cup {c}
  /\ UNCHANGED <<deals, links, withdrawn>>

Dismiss(q, c) ==
  /\ Pending(q) /\ c \notin spent
  /\ approvals' = [approvals EXCEPT ![q].status = "denied"]
  /\ deals' = [deals EXCEPT ![approvals[q].deal] = Close(@)]
  /\ spent' = spent \cup {c}
  /\ UNCHANGED <<links, withdrawn>>

Observe(d, c, event) ==
  /\ Known(d) /\ c \notin spent
  /\ TransitionFor(deals[d].state, event) # NoState
  /\ deals' = [deals EXCEPT ![d] =
       ApplyEvent(@, event, TransitionFor(@.state, event), NoAmount)]
  /\ spent' = spent \cup {c}
  /\ UNCHANGED <<links, approvals, withdrawn>>

Revoke(r, c) ==
  /\ c \notin spent
  /\ withdrawn' = withdrawn \cup {r}
  /\ spent' = spent \cup {c}
  /\ UNCHANGED <<deals, links, approvals>>

\* Time ends the validity of some records.
Lapse(R) ==
  /\ withdrawn' = withdrawn \cup R
  /\ UNCHANGED <<deals, links, approvals, spent>>

Next ==
  \/ \E d \in DealId, r \in RecordId : Register(d, r)
  \/ \E q \in RequestId, d \in DealId, ask \in Asks :
       \/ Perform(q, d, ask.action, ask.amount)
       \/ Hold(q, d, ask.action, ask.amount)
  \/ \E q \in RequestId : Refuse(q)
  \/ \E q \in RequestId, c \in CommandId : Grant(q, c) \/ Dismiss(q, c)
  \/ \E d \in DealId, c \in CommandId, event \in DealEvent :
       Observe(d, c, event)
  \/ \E r \in RecordId, c \in CommandId : Revoke(r, c)
  \/ \E R \in SUBSET RecordId : Lapse(R)

Spec == Init /\ [][Next]_vars

-----------------------------------------------------------------------------
\* Every variable has the shape of the code's tables, and a registered deal
\* is linked to a record.
TypeOK ==
  /\ deals \in [DealId -> DealRow]
  /\ links \in [DealId -> RecordId \cup {NoRecord}]
  /\ \A d \in DealId : Known(d) => links[d] \in RecordId
  /\ approvals \in [RequestId -> Approval \cup {NotHeld}]
  /\ withdrawn \in SUBSET RecordId
  /\ spent \in SUBSET (RequestId \cup CommandId)

\* The counter the engine's payment block reads (step 8) is exactly the
\* number of approvals a person has still to decide: it is incremented when a
\* request is held, decremented by a grant and by a denial, each with a
\* floor, and no path forgets one or counts one twice.
OpenApprovalsCounted ==
  \A d \in DealId : deals[d].open_approvals = Cardinality(PendingFor(d))

\* A dispute is open exactly while the deal is in dispute; cancelling is the
\* one way out that leaves it open, and nothing follows a cancellation.
\* Hence no path reaches a payment state with a dispute counted as open.
DisputeIsAState ==
  \A d \in DealId :
    deals[d].state # "cancelled" =>
      deals[d].open_disputes = (IF deals[d].state = "disputed" THEN 1 ELSE 0)

\* Spending is cumulative over the whole deal: however many agreements and
\* change orders it took, a deal is past the cap of its mandate only if a
\* person granted an approval on that very deal for an action that adds to
\* the commitment.
OverCapNeedsOverride ==
  \A d \in DealId :
    Known(d) /\ deals[d].committed_minor > Mandate[links[d]].spend_cap =>
      \E q \in RequestId :
        /\ approvals[q].status = "granted"
        /\ approvals[q].deal = d
        /\ approvals[q].amount # NoAmount
        /\ approvals[q].action \in {"accept_agreement", "approve_change_order"}

BeforeAgreement ==
  {NoState, "draft", "quote_requested", "quote_received", "negotiating"}
Settled == {"accepted", "payment_pending", "captured", "failed"}

\* No money is committed before an agreement.
NothingCommittedEarly ==
  \A d \in DealId :
    deals[d].state \in BeforeAgreement => deals[d].committed_minor = 0

\* The amount that is paid is the amount that was accepted: between
\* acceptance and capture, through failures and retries of the payment, no
\* step changes what the deal commits.
PaidAsAccepted ==
  [][\A d \in DealId :
       deals[d].state \in Settled =>
         deals'[d].committed_minor = deals[d].committed_minor]_vars
=============================================================================
