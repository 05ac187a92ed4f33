----------------------- MODULE MandateContractProofs -----------------------
(***************************************************************************)
(* Proofs about MandateContract, for every set of deals, records, requests *)
(* and commands, every mandate and every amount.                           *)
(***************************************************************************)
EXTENDS MandateContract, CommitPlansProofs, FiniteSetTheorems

-----------------------------------------------------------------------------
\* An action that can move the deal applies its event, and nothing else.
LEMMA ApplyActionIsEvent ==
  ASSUME NEW deal \in DealRow, NEW action \in ActionToken,
         NEW amount \in Amount, CanMove(deal, action)
  PROVE  /\ ActionEvents[action] \in DealEvent
         /\ deal.state \in Sources[ActionEvents[action]]
         /\ Target[ActionEvents[action]] \in DealState
         /\ ApplyAction(deal, action, amount) =
              ApplyEvent(deal, ActionEvents[action],
                         Target[ActionEvents[action]], amount)
BY ActionIsEvent DEF CanMove

-----------------------------------------------------------------------------
(* Type correctness.                                                       *)

\* The rows a deal starts from, and one whose approvals are counted anew.
LEMMA RowTypes ==
  /\ DraftDeal \in DealRow
  /\ UnknownDeal \in DealRow
  /\ \A deal \in DealRow : \A n \in Nat :
       [deal EXCEPT !.open_approvals = n] \in DealRow
BY DealRowTypes DEF DraftDeal, UnknownDeal, DealRow

\* Closing an approval changes the counter only.
LEMMA CloseType ==
  ASSUME NEW deal \in DealRow
  PROVE  /\ Close(deal) \in DealRow
         /\ Close(deal).state = deal.state
         /\ Close(deal).committed_minor = deal.committed_minor
         /\ Close(deal).open_disputes = deal.open_disputes
         /\ Close(deal).open_approvals = Decrement(deal.open_approvals)
<1>1. Decrement(deal.open_approvals) \in Nat
  BY CounterTypes DEF DealRow
<1> QED
  BY <1>1 DEF Close, DealRow

\* Each variable keeps the shape of the code's table through every operation.
THEOREM TypeCorrect == Spec => []TypeOK
<1> USE ContractAssumption
<1>1. Init => TypeOK
  BY RowTypes DEF Init, TypeOK, Known, UnknownDeal, DraftDeal
<1>2. TypeOK /\ [Next]_vars => TypeOK'
  <2> SUFFICES ASSUME TypeOK, [Next]_vars PROVE TypeOK'
    OBVIOUS
  <2> USE DEF TypeOK
  <2>1. ASSUME NEW d \in DealId, NEW r \in RecordId, Register(d, r)
        PROVE  TypeOK'
    BY <2>1, RowTypes DEF Register, Known
  <2>2. ASSUME NEW q \in RequestId, NEW d \in DealId, NEW ask \in Asks,
               Perform(q, d, ask.action, ask.amount)
        PROVE  TypeOK'
    <3>1. ask.action \in ActionToken /\ ask.amount \in Amount
      OBVIOUS
    <3>2. ApplyAction(deals[d], ask.action, ask.amount) \in DealRow
      BY <2>2, <3>1, ApplyActionIsEvent, ApplyEventType DEF Perform
    <3> QED
      BY <2>2, <3>2 DEF Perform, Known
  <2>3. ASSUME NEW q \in RequestId, NEW d \in DealId, NEW ask \in Asks,
               Hold(q, d, ask.action, ask.amount)
        PROVE  TypeOK'
    <3>1. deals[d].open_approvals + 1 \in Nat
      BY DEF DealRow
    <3>2. [deals[d] EXCEPT !.open_approvals = @ + 1] \in DealRow
      BY <3>1, RowTypes
    <3>3. [ status |-> "pending", deal |-> d, record |-> links[d],
            action |-> ask.action, amount |-> ask.amount ] \in Approval
      BY <2>3 DEF Hold, Approval
    <3>4. approvals' \in [RequestId -> Approval \cup {NotHeld}]
      BY <2>3, <3>3 DEF Hold
    <3> QED
      BY <2>3, <3>2, <3>4 DEF Hold, Known
  <2>4. ASSUME NEW q \in RequestId, Refuse(q)
        PROVE  TypeOK'
    BY <2>4 DEF Refuse, Known
  <2>5. ASSUME NEW q \in RequestId, NEW c \in CommandId, Grant(q, c)
        PROVE  TypeOK'
    <3> DEFINE a == approvals[q]
    <3>1. a \in Approval
      BY <2>5 DEF Grant, Pending, NotHeld
    <3>2. a.deal \in DealId /\ a.action \in ActionToken /\ a.amount \in Amount
      BY <3>1 DEF Approval
    <3>3. ApplyAction(deals[a.deal], a.action, a.amount) \in DealRow
      BY <2>5, <3>2, ApplyActionIsEvent, ApplyEventType DEF Grant
    <3> DEFINE row == Close(ApplyAction(deals[a.deal], a.action, a.amount))
    <3>4. row \in DealRow
      BY <3>3, CloseType
    <3>5. deals' = [deals EXCEPT ![a.deal] = row]
      BY <2>5 DEF Grant
    <3>6. Known(a.deal)
      <4>1. /\ ActionEvents[a.action] \in DealEvent
            /\ deals[a.deal].state \in Sources[ActionEvents[a.action]]
        BY <2>5, <3>2, ApplyActionIsEvent DEF Grant
      <4> QED
        BY <4>1, SourcesType, NoStateApart DEF Known
    <3>7. approvals' \in [RequestId -> Approval \cup {NotHeld}]
      BY <2>5, <3>1 DEF Grant, Approval
    <3> HIDE DEF row
    <3> QED
      BY <2>5, <3>2, <3>4, <3>5, <3>6, <3>7 DEF Grant, Known
  <2>6. ASSUME NEW q \in RequestId, NEW c \in CommandId, Dismiss(q, c)
        PROVE  TypeOK'
    <3> DEFINE a == approvals[q]
    <3>1. a \in Approval
      BY <2>6 DEF Dismiss, Pending, NotHeld
    <3>2. a.deal \in DealId
      BY <3>1 DEF Approval
    <3> DEFINE row == Close(deals[a.deal])
    <3>3. row \in DealRow /\ row.state = deals[a.deal].state
      BY <3>2, CloseType
    <3>4. deals' = [deals EXCEPT ![a.deal] = row]
      BY <2>6 DEF Dismiss
    <3> HIDE DEF row
    <3>5. approvals' \in [RequestId -> Approval \cup {NotHeld}]
      BY <2>6, <3>1 DEF Dismiss, Approval
    <3> QED
      BY <2>6, <3>2, <3>3, <3>4, <3>5 DEF Dismiss, Known
  <2>7. ASSUME NEW d \in DealId, NEW c \in CommandId, NEW event \in DealEvent,
               Observe(d, c, event)
        PROVE  TypeOK'
    <3>1. /\ TransitionFor(deals[d].state, event) = Target[event]
          /\ Target[event] \in DealState
      BY <2>7, TransitionForType, TargetType DEF Observe
    <3>2. NoAmount \in Amount
      BY DEF Amount
    <3>3. ApplyEvent(deals[d], event, Target[event], NoAmount) \in DealRow
      BY <3>1, <3>2, ApplyEventType
    <3> QED
      BY <2>7, <3>1, <3>3 DEF Observe, Known
  <2>8. ASSUME NEW r \in RecordId, NEW c \in CommandId, Revoke(r, c)
        PROVE  TypeOK'
    BY <2>8 DEF Revoke, Known
  <2>9. ASSUME NEW R \in SUBSET RecordId, Lapse(R)
        PROVE  TypeOK'
    BY <2>9 DEF Lapse, Known
  <2>10. CASE UNCHANGED vars
    BY <2>10 DEF vars, Known
  <2> QED
    BY <2>1, <2>2, <2>3, <2>4, <2>5, <2>6, <2>7, <2>8, <2>9, <2>10 DEF Next
<1> QED
  BY <1>1, <1>2, PTL DEF Spec

-----------------------------------------------------------------------------
(* What a step does to one deal: nothing but its approval counter, or its  *)
(* registration, or one event of the table.                                *)

SameTerms(deal, new) ==
  /\ new.state = deal.state
  /\ new.committed_minor = deal.committed_minor
  /\ new.open_disputes = deal.open_disputes

MovedBy(deal, new, event, amount) ==
  /\ deal.state \in Sources[event]
  /\ new.state = Target[event]
  /\ new.committed_minor = CommittedAfter(deal, event, amount)
  /\ new.open_disputes = DisputesAfter(deal, event)

DealStep(d) ==
  \/ SameTerms(deals[d], deals'[d])
  \/ ~ Known(d) /\ deals'[d] = DraftDeal
  \/ \E event \in DealEvent, amount \in Amount :
       MovedBy(deals[d], deals'[d], event, amount)

\* An action that can move a deal moves it by its event.
LEMMA ActionMoves ==
  ASSUME NEW deal \in DealRow, NEW action \in ActionToken,
         NEW amount \in Amount, CanMove(deal, action)
  PROVE  /\ ApplyAction(deal, action, amount) \in DealRow
         /\ ActionEvents[action] \in DealEvent
         /\ MovedBy(deal, ApplyAction(deal, action, amount),
                    ActionEvents[action], amount)
         /\ ApplyAction(deal, action, amount).open_approvals =
              deal.open_approvals
<1> DEFINE event == ActionEvents[action]
<1>1. /\ event \in DealEvent
      /\ deal.state \in Sources[event]
      /\ Target[event] \in DealState
      /\ ApplyAction(deal, action, amount) =
           ApplyEvent(deal, event, Target[event], amount)
  BY ApplyActionIsEvent
<1> HIDE DEF event
<1>2. MovedBy(deal, ApplyEvent(deal, event, Target[event], amount), event, amount)
  BY <1>1 DEF MovedBy, ApplyEvent
<1>3. /\ ApplyEvent(deal, event, Target[event], amount) \in DealRow
      /\ ApplyEvent(deal, event, Target[event], amount).open_approvals =
           deal.open_approvals
  BY <1>1, ApplyEventType
<1> QED
  BY <1>1, <1>2, <1>3 DEF event

\* Every operation, seen from one deal.
LEMMA EveryDealStep ==
  ASSUME TypeOK, [Next]_vars, NEW d \in DealId
  PROVE  DealStep(d)
<1> USE ContractAssumption DEF TypeOK
<1>1. ASSUME NEW e \in DealId, NEW r \in RecordId, Register(e, r)
      PROVE  DealStep(d)
  BY <1>1 DEF Register, DealStep, SameTerms
<1>2. ASSUME NEW q \in RequestId, NEW e \in DealId, NEW ask \in Asks,
             Perform(q, e, ask.action, ask.amount)
      PROVE  DealStep(d)
  <2>1. ask.action \in ActionToken /\ ask.amount \in Amount
    OBVIOUS
  <2>2. /\ ActionEvents[ask.action] \in DealEvent
        /\ MovedBy(deals[e], ApplyAction(deals[e], ask.action, ask.amount),
                   ActionEvents[ask.action], ask.amount)
    BY <1>2, <2>1, ActionMoves DEF Perform
  <2>3. deals' = [deals EXCEPT ![e] =
                    ApplyAction(deals[e], ask.action, ask.amount)]
    BY <1>2 DEF Perform
  <2>4. CASE d = e
    BY <2>1, <2>2, <2>3, <2>4 DEF DealStep
  <2>5. CASE d # e
    BY <2>3, <2>5 DEF DealStep, SameTerms
  <2> QED
    BY <2>4, <2>5
<1>3. ASSUME NEW q \in RequestId, NEW e \in DealId, NEW ask \in Asks,
             Hold(q, e, ask.action, ask.amount)
      PROVE  DealStep(d)
  <2>1. \/ deals'[d] = deals[d]
        \/ deals'[d] = [deals[d] EXCEPT !.open_approvals = @ + 1]
    BY <1>3 DEF Hold
  <2>2. deals[d] \in DealRow
    OBVIOUS
  <2> QED
    BY <2>1, <2>2 DEF DealStep, SameTerms, DealRow
<1>4. ASSUME NEW q \in RequestId, Refuse(q)
      PROVE  DealStep(d)
  BY <1>4 DEF Refuse, DealStep, SameTerms
<1>5. ASSUME NEW q \in RequestId, NEW c \in CommandId, Grant(q, c)
      PROVE  DealStep(d)
  <2> DEFINE a == approvals[q]
             moved == ApplyAction(deals[a.deal], a.action, a.amount)
  <2>1. a \in Approval
    BY <1>5 DEF Grant, Pending, NotHeld
  <2>2. a.deal \in DealId /\ a.action \in ActionToken /\ a.amount \in Amount
    BY <2>1 DEF Approval
  <2>3. /\ moved \in DealRow
        /\ ActionEvents[a.action] \in DealEvent
        /\ MovedBy(deals[a.deal], moved, ActionEvents[a.action], a.amount)
    BY <1>5, <2>2, ActionMoves DEF Grant
  <2>4. deals' = [deals EXCEPT ![a.deal] = Close(moved)]
    BY <1>5 DEF Grant
  <2> HIDE DEF moved
  <2>5. MovedBy(deals[a.deal], Close(moved), ActionEvents[a.action], a.amount)
    BY <2>3, CloseType DEF MovedBy
  <2>6. CASE d = a.deal
    BY <2>2, <2>3, <2>4, <2>5, <2>6 DEF DealStep
  <2>7. CASE d # a.deal
    BY <2>4, <2>7 DEF DealStep, SameTerms
  <2> QED
    BY <2>6, <2>7
<1>6. ASSUME NEW q \in RequestId, NEW c \in CommandId, Dismiss(q, c)
      PROVE  DealStep(d)
  <2>1. deals'[d] = deals[d] \/ deals'[d] = Close(deals[d])
    BY <1>6 DEF Dismiss
  <2>2. deals[d] \in DealRow
    OBVIOUS
  <2> QED
    BY <2>1, <2>2, CloseType DEF DealStep, SameTerms
<1>7. ASSUME NEW e \in DealId, NEW c \in CommandId, NEW event \in DealEvent,
             Observe(e, c, event)
      PROVE  DealStep(d)
  <2>1. /\ deals[e].state \in Sources[event]
        /\ deals' = [deals EXCEPT ![e] =
             ApplyEvent(deals[e], event, Target[event], NoAmount)]
    BY <1>7, TransitionForType DEF Observe
  <2>2. NoAmount \in Amount
    BY DEF Amount
  <2>3. MovedBy(deals[e], ApplyEvent(deals[e], event, Target[event], NoAmount),
                event, NoAmount)
    BY <2>1 DEF MovedBy, ApplyEvent
  <2>4. CASE d = e
    BY <2>1, <2>2, <2>3, <2>4 DEF DealStep
  <2>5. CASE d # e
    BY <2>1, <2>5 DEF DealStep, SameTerms
  <2> QED
    BY <2>4, <2>5
<1>8. ASSUME NEW r \in RecordId, NEW c \in CommandId, Revoke(r, c)
      PROVE  DealStep(d)
  BY <1>8 DEF Revoke, DealStep, SameTerms
<1>9. ASSUME NEW R \in SUBSET RecordId, Lapse(R)
      PROVE  DealStep(d)
  BY <1>9 DEF Lapse, DealStep, SameTerms
<1>10. CASE UNCHANGED vars
  BY <1>10 DEF vars, DealStep, SameTerms
<1> QED
  BY <1>1, <1>2, <1>3, <1>4, <1>5, <1>6, <1>7, <1>8, <1>9, <1>10 DEF Next

-----------------------------------------------------------------------------
(* The three properties that follow from the table alone.                  *)

DisputeOK(deal) ==
  deal.state # "cancelled" =>
    deal.open_disputes = (IF deal.state = "disputed" THEN 1 ELSE 0)

EarlyOK(deal) == deal.state \in BeforeAgreement => deal.committed_minor = 0

\* The counter rule of every event but those that concern disputes.
LEMMA OtherEventsKeepDisputes ==
  ASSUME NEW deal, NEW event \in DealEvent,
         event \notin {"dispute_opened", "accepted", "refunded",
                      "partially_refunded"}
  PROVE  DisputesAfter(deal, event) = deal.open_disputes
BY Zenon DEF DisputesAfter

\* What each event makes of the count of open disputes.
LEMMA DisputeEvents ==
  ASSUME NEW deal
  PROVE  /\ DisputesAfter(deal, "dispute_opened") = deal.open_disputes + 1
         /\ DisputesAfter(deal, "refunded") = 0
         /\ DisputesAfter(deal, "partially_refunded") = 0
         /\ DisputesAfter(deal, "accepted") =
              IF deal.state = "disputed" THEN Decrement(deal.open_disputes)
              ELSE deal.open_disputes
BY Zenon DEF DisputesAfter

\* A move by the table keeps dispute and state together: only dispute_opened
\* enters disputed, from a state where no dispute is open, and every event
\* out of disputed but cancelled closes it.
LEMMA MoveKeepsDispute ==
  ASSUME NEW deal \in DealRow, NEW new \in DealRow, NEW event \in DealEvent,
         NEW amount \in Amount, MovedBy(deal, new, event, amount),
         DisputeOK(deal)
  PROVE  DisputeOK(new)
<1> USE DEF DisputeOK, MovedBy
<1>1. CASE event = "dispute_opened"
  BY <1>1, DisputeEvents DEF Sources, Target
<1>2. CASE event = "accepted"
  BY <1>2, DisputeEvents DEF Sources, Target, Decrement
<1>3. CASE event \in {"refunded", "partially_refunded"}
  BY <1>3, DisputeEvents DEF Sources, Target
<1>4. CASE event = "cancelled"
  BY <1>4 DEF Target
<1>5. CASE event \notin {"dispute_opened", "accepted", "refunded",
                        "partially_refunded", "cancelled"}
  <2>1. new.open_disputes = deal.open_disputes
    BY <1>5, OtherEventsKeepDisputes
  <2>2. /\ deal.state \notin {"disputed", "cancelled"}
        /\ new.state # "disputed"
    BY <1>5 DEF Sources, Target, DealEvent
  <2> QED
    BY <2>1, <2>2
<1> QED
  BY <1>1, <1>2, <1>3, <1>4, <1>5

\* A move into a state before agreement comes from such a state and adds no
\* commitment.
LEMMA MoveKeepsEarly ==
  ASSUME NEW deal \in DealRow, NEW new \in DealRow, NEW event \in DealEvent,
         NEW amount \in Amount, MovedBy(deal, new, event, amount),
         EarlyOK(deal)
  PROVE  EarlyOK(new)
<1> USE DEF EarlyOK, MovedBy, BeforeAgreement
<1>1. CASE event \in {"quote_requested", "quote_received", "counteroffered"}
  BY <1>1 DEF Sources, CommittedAfter
<1>2. CASE event \notin {"quote_requested", "quote_received", "counteroffered"}
  BY <1>2 DEF Target, DealEvent, NoState
<1> QED
  BY <1>1, <1>2

\* A move out of a settled state adds no commitment.
LEMMA MoveKeepsSettled ==
  ASSUME NEW deal \in DealRow, NEW new \in DealRow, NEW event \in DealEvent,
         NEW amount \in Amount, MovedBy(deal, new, event, amount),
         deal.state \in Settled
  PROVE  new.committed_minor = deal.committed_minor
<1>1. event \notin {"agreement_reached", "change_approved"}
  BY DEF MovedBy, Settled, Sources
<1> QED
  BY <1>1 DEF MovedBy, CommittedAfter

\* The counter of open disputes says exactly whether the deal is in dispute.
THEOREM DisputeIsAStateHolds == Spec => []DisputeIsAState
<1>1. Init => DisputeIsAState
  BY DEF Init, DisputeIsAState, UnknownDeal, DraftDeal, NoState
<1>2. TypeOK /\ TypeOK' /\ DisputeIsAState /\ [Next]_vars => DisputeIsAState'
  <2> SUFFICES ASSUME TypeOK, TypeOK', DisputeIsAState, [Next]_vars,
                      NEW d \in DealId
               PROVE  DisputeOK(deals'[d])
    BY DEF DisputeIsAState, DisputeOK
  <2>1. DisputeOK(deals[d]) /\ deals[d] \in DealRow /\ deals'[d] \in DealRow
    BY DEF DisputeIsAState, DisputeOK, TypeOK
  <2>2. CASE SameTerms(deals[d], deals'[d])
    BY <2>1, <2>2 DEF SameTerms, DisputeOK
  <2>3. CASE deals'[d] = DraftDeal
    BY <2>3 DEF DraftDeal, DisputeOK
  <2>4. CASE \E event \in DealEvent, amount \in Amount :
               MovedBy(deals[d], deals'[d], event, amount)
    BY <2>1, <2>4, MoveKeepsDispute
  <2> QED
    BY <2>2, <2>3, <2>4, EveryDealStep DEF DealStep
<1> QED
  BY <1>1, <1>2, TypeCorrect, PTL DEF Spec

\* Nothing is committed before an agreement, on every path to it.
THEOREM NothingCommittedEarlyHolds == Spec => []NothingCommittedEarly
<1>1. Init => NothingCommittedEarly
  BY DEF Init, NothingCommittedEarly, UnknownDeal, DraftDeal
<1>2. TypeOK /\ TypeOK' /\ NothingCommittedEarly /\ [Next]_vars
        => NothingCommittedEarly'
  <2> SUFFICES ASSUME TypeOK, TypeOK', NothingCommittedEarly, [Next]_vars,
                      NEW d \in DealId
               PROVE  EarlyOK(deals'[d])
    BY DEF NothingCommittedEarly, EarlyOK
  <2>1. EarlyOK(deals[d]) /\ deals[d] \in DealRow /\ deals'[d] \in DealRow
    BY DEF NothingCommittedEarly, EarlyOK, TypeOK
  <2>2. CASE SameTerms(deals[d], deals'[d])
    BY <2>1, <2>2 DEF SameTerms, EarlyOK
  <2>3. CASE deals'[d] = DraftDeal
    BY <2>3 DEF DraftDeal, EarlyOK
  <2>4. CASE \E event \in DealEvent, amount \in Amount :
               MovedBy(deals[d], deals'[d], event, amount)
    BY <2>1, <2>4, MoveKeepsEarly
  <2> QED
    BY <2>2, <2>3, <2>4, EveryDealStep DEF DealStep
<1> QED
  BY <1>1, <1>2, TypeCorrect, PTL DEF Spec

\* What was accepted is what is paid: no step changes the commitment of a
\* settled deal.
THEOREM PaidAsAcceptedHolds == Spec => PaidAsAccepted
<1> DEFINE Kept == \A d \in DealId :
                     deals[d].state \in Settled =>
                       deals'[d].committed_minor = deals[d].committed_minor
<1>1. TypeOK /\ TypeOK' /\ [Next]_vars => Kept
  <2> SUFFICES ASSUME TypeOK, TypeOK', [Next]_vars, NEW d \in DealId,
                      deals[d].state \in Settled
               PROVE  deals'[d].committed_minor = deals[d].committed_minor
    OBVIOUS
  <2>1. deals[d] \in DealRow /\ deals'[d] \in DealRow
    BY DEF TypeOK
  <2>2. Known(d)
    BY DEF Known, Settled, NoState
  <2> QED
    BY <2>1, <2>2, EveryDealStep, MoveKeepsSettled DEF DealStep, SameTerms
<1> QED
  BY <1>1, TypeCorrect, PTL DEF Spec, PaidAsAccepted

-----------------------------------------------------------------------------
(* Cumulative spending.                                                    *)

\* A person granted, on deal d, an action that adds to the commitment.
Overridden(d) ==
  \E q \in RequestId :
    /\ approvals[q].status = "granted"
    /\ approvals[q].deal = d
    /\ approvals[q].amount # NoAmount
    /\ approvals[q].action \in {"accept_agreement", "approve_change_order"}

\* A granted approval stays granted, as it was.
LEMMA GrantedForGood ==
  ASSUME TypeOK, [Next]_vars, NEW q \in RequestId,
         approvals[q].status = "granted"
  PROVE  approvals'[q] = approvals[q]
<1>1. ASSUME NEW p \in RequestId, NEW d \in DealId, NEW ask \in Asks,
             Hold(p, d, ask.action, ask.amount)
      PROVE  approvals'[q] = approvals[q]
  <2>1. p # q
    BY <1>1 DEF Hold, NotHeld
  <2> QED
    BY <1>1, <2>1 DEF Hold
<1>2. ASSUME NEW p \in RequestId, NEW c \in CommandId, Grant(p, c) \/ Dismiss(p, c)
      PROVE  approvals'[q] = approvals[q]
  <2>1. p # q
    BY <1>2 DEF Grant, Dismiss, Pending
  <2> QED
    BY <1>2, <2>1 DEF Grant, Dismiss, TypeOK
<1>3. CASE UNCHANGED approvals
  BY <1>3
<1> QED
  BY <1>1, <1>2, <1>3
     DEF Next, vars, Register, Perform, Refuse, Observe, Revoke, Lapse

\* A deal on which an approval was granted stays one.
LEMMA OverriddenForGood ==
  ASSUME TypeOK, [Next]_vars, NEW d \in DealId, Overridden(d)
  PROVE  Overridden(d)'
BY GrantedForGood DEF Overridden

\* An event adds at most the amount to the commitment, and adds something only
\* when it is an agreement or an approved change with an amount.
LEMMA CommitmentGrowth ==
  ASSUME NEW deal \in DealRow, NEW event \in DealEvent, NEW amount \in Amount
  PROVE  LET after == CommittedAfter(deal, event, amount) IN
         /\ amount = NoAmount => after = deal.committed_minor
         /\ amount # NoAmount => after <= deal.committed_minor + amount
         /\ after # deal.committed_minor =>
              event \in {"agreement_reached", "change_approved"}
<1>1. deal.committed_minor \in Nat
  BY DEF DealRow
<1> QED
  BY <1>1 DEF CommittedAfter, Minor, Amount, NoAmount

\* The actions behind those events.
LEMMA CommittingActions ==
  ASSUME NEW action \in ActionToken,
         ActionEvents[action] \in {"agreement_reached", "change_approved"}
  PROVE  action \in {"accept_agreement", "approve_change_order"}
BY DEF ActionToken, ActionEvents, NoEvent

\* Past the cap only by a person's grant on this deal, however many
\* agreements and change orders there were.
THEOREM OverCapNeedsOverrideHolds == Spec => []OverCapNeedsOverride
<1> USE ContractAssumption
<1> DEFINE Over(d) ==
      Known(d) /\ deals[d].committed_minor > Mandate[links[d]].spend_cap
<1>1. Init => OverCapNeedsOverride
  BY DEF Init, OverCapNeedsOverride, Known, UnknownDeal, DraftDeal
<1>2. TypeOK /\ TypeOK' /\ OverCapNeedsOverride /\ [Next]_vars
        => OverCapNeedsOverride'
  <2> SUFFICES ASSUME TypeOK, TypeOK', OverCapNeedsOverride, [Next]_vars,
                      NEW d \in DealId, Over(d)'
               PROVE  Overridden(d)'
    BY DEF OverCapNeedsOverride, Overridden
  <2>1. Over(d) => Overridden(d)'
    BY OverriddenForGood DEF OverCapNeedsOverride, Overridden
  <2>2. /\ deals[d] \in DealRow /\ deals'[d] \in DealRow
        /\ links'[d] \in RecordId
    BY DEF TypeOK, Known
  <2>3. deals[d].committed_minor \in Nat /\ Mandate[links'[d]].spend_cap \in Nat
    BY <2>2 DEF DealRow
  <2>4. CASE deals'[d] = deals[d] /\ links'[d] = links[d]
    BY <2>1, <2>4 DEF Known
  <2>5. ASSUME NEW e \in DealId, NEW r \in RecordId, Register(e, r)
        PROVE  Overridden(d)'
    <3>1. CASE d = e
      <4>1. deals'[d].committed_minor = 0
        BY <2>5, <3>1 DEF Register, TypeOK, DraftDeal
      <4> QED
        BY <2>3, <4>1
    <3>2. CASE d # e
      BY <2>4, <2>5, <3>2 DEF Register, TypeOK
    <3> QED
      BY <3>1, <3>2
  <2>6. ASSUME NEW q \in RequestId, NEW e \in DealId, NEW ask \in Asks,
               Perform(q, e, ask.action, ask.amount)
        PROVE  Overridden(d)'
    <3>1. ask.action \in ActionToken /\ ask.amount \in Amount
      OBVIOUS
    <3>2. CASE d = e
      <4> DEFINE event == ActionEvents[ask.action]
      <4>1. /\ event \in DealEvent
            /\ deals'[d].committed_minor =
                 CommittedAfter(deals[d], event, ask.amount)
        BY <2>2, <2>6, <3>1, <3>2, ActionMoves DEF Perform, MovedBy, TypeOK
      <4>2. links'[d] = links[d] /\ Known(d)
        BY <2>6, <3>2 DEF Perform
      <4>3. ask.amount # NoAmount =>
              deals[d].committed_minor + ask.amount
                <= Mandate[links[d]].spend_cap
        BY <2>6, <3>2 DEF Perform, WithinLimits
      <4> HIDE DEF event
      <4>4. CASE ask.amount = NoAmount
        BY <2>1, <2>2, <3>1, <4>1, <4>2, <4>4, CommitmentGrowth DEF Known
      <4>5. CASE ask.amount # NoAmount
        <5>1. deals'[d].committed_minor <= deals[d].committed_minor + ask.amount
          BY <2>2, <3>1, <4>1, <4>5, CommitmentGrowth
        <5>2. ask.amount \in Nat
          BY <3>1, <4>5 DEF Amount
        <5>3. deals'[d].committed_minor \in Nat
          BY <2>2 DEF DealRow
        <5> QED
          BY <2>3, <4>2, <4>3, <4>5, <5>1, <5>2, <5>3
      <4> QED
        BY <4>4, <4>5
    <3>3. CASE d # e
      BY <2>4, <2>6, <3>3 DEF Perform, TypeOK
    <3> QED
      BY <3>2, <3>3
  <2>7. ASSUME NEW q \in RequestId, NEW e \in DealId, NEW ask \in Asks,
               Hold(q, e, ask.action, ask.amount)
        PROVE  Overridden(d)'
    <3>1. /\ deals'[d].state = deals[d].state
          /\ deals'[d].committed_minor = deals[d].committed_minor
      BY <2>2, <2>7 DEF Hold, TypeOK, DealRow
    <3> QED
      BY <2>1, <2>7, <3>1 DEF Hold, Known
  <2>8. ASSUME NEW q \in RequestId, NEW c \in CommandId, Grant(q, c)
        PROVE  Overridden(d)'
    <3> DEFINE a == approvals[q]
    <3>1. a \in Approval
      BY <2>8 DEF Grant, Pending, NotHeld, TypeOK
    <3>2. a.deal \in DealId /\ a.action \in ActionToken /\ a.amount \in Amount
      BY <3>1 DEF Approval
    <3>3. CASE d = a.deal
      <4> DEFINE event == ActionEvents[a.action]
                 moved == ApplyAction(deals[d], a.action, a.amount)
      <4>1. /\ event \in DealEvent
            /\ moved \in DealRow
            /\ MovedBy(deals[d], moved, event, a.amount)
        BY <2>2, <2>8, <3>2, <3>3, ActionMoves DEF Grant
      <4>2. deals'[d] = Close(moved)
        BY <2>8, <3>2, <3>3 DEF Grant, TypeOK
      <4> HIDE DEF moved
      <4>3. deals'[d].committed_minor =
              CommittedAfter(deals[d], event, a.amount)
        BY <4>1, <4>2, CloseType DEF MovedBy
      <4>4. Known(d)
        BY <4>1, SourcesType, NoStateApart DEF MovedBy, Known
      <4>5. CASE deals'[d].committed_minor = deals[d].committed_minor
        BY <2>1, <2>8, <4>4, <4>5 DEF Grant
      <4>6. CASE deals'[d].committed_minor # deals[d].committed_minor
        <5>1. a.amount # NoAmount
          BY <2>2, <3>2, <4>1, <4>3, <4>6, CommitmentGrowth
        <5>2. event \in {"agreement_reached", "change_approved"}
          BY <2>2, <3>2, <4>1, <4>3, <4>6, CommitmentGrowth
        <5>3. a.action \in {"accept_agreement", "approve_change_order"}
          BY <3>2, <5>2, CommittingActions
        <5>4. approvals'[q] = [a EXCEPT !.status = "granted"]
          BY <2>8 DEF Grant, TypeOK
        <5>5. /\ approvals'[q].status = "granted"
              /\ approvals'[q].deal = d
              /\ approvals'[q].amount = a.amount
              /\ approvals'[q].action = a.action
          BY <3>1, <3>3, <5>4 DEF Approval
        <5> QED
          BY <5>1, <5>3, <5>5 DEF Overridden
      <4> QED
        BY <4>5, <4>6
    <3>4. CASE d # a.deal
      BY <2>4, <2>8, <3>4 DEF Grant, TypeOK
    <3> QED
      BY <3>3, <3>4
  <2>9. ASSUME NEW q \in RequestId, NEW c \in CommandId, Dismiss(q, c)
        PROVE  Overridden(d)'
    <3>1. deals'[d] = deals[d] \/ deals'[d] = Close(deals[d])
      BY <2>9 DEF Dismiss, TypeOK
    <3>2. /\ deals'[d].state = deals[d].state
          /\ deals'[d].committed_minor = deals[d].committed_minor
      BY <2>2, <3>1, CloseType
    <3> QED
      BY <2>1, <2>9, <3>2 DEF Dismiss, Known
  <2>10. ASSUME NEW e \in DealId, NEW c \in CommandId, NEW event \in DealEvent,
                Observe(e, c, event)
         PROVE  Overridden(d)'
    <3>1. CASE d = e
      <4>1. deals'[d].committed_minor = CommittedAfter(deals[d], event, NoAmount)
        BY <2>10, <3>1 DEF Observe, ApplyEvent, TypeOK
      <4>2. deals'[d].committed_minor = deals[d].committed_minor
        BY <2>2, <4>1, CommitmentGrowth DEF Amount
      <4> QED
        BY <2>1, <2>10, <3>1, <4>2 DEF Observe
    <3>2. CASE d # e
      BY <2>4, <2>10, <3>2 DEF Observe, TypeOK
    <3> QED
      BY <3>1, <3>2
  <2> QED
    BY <2>4, <2>5, <2>6, <2>7, <2>8, <2>9, <2>10
       DEF Next, vars, Refuse, Revoke, Lapse
<1> QED
  BY <1>1, <1>2, TypeCorrect, PTL DEF Spec

-----------------------------------------------------------------------------
(* The counter of open approvals.                                          *)

\* The requests are finitely many, so what is pending can be counted.
LEMMA PendingFinite ==
  ASSUME NEW d \in DealId
  PROVE  IsFiniteSet(PendingFor(d)) /\ Cardinality(PendingFor(d)) \in Nat
<1>1. PendingFor(d) \subseteq RequestId
  BY DEF PendingFor
<1>2. IsFiniteSet(PendingFor(d))
  BY <1>1, ContractAssumption, FS_Subset
<1> QED
  BY <1>2, FS_CardinalityType

Counted(d) == deals[d].open_approvals = Cardinality(PendingFor(d))

\* The counter is not enough by itself: registering a deal resets it, so it
\* must have been zero before.
UnregisteredIdle == \A d \in DealId : ~ Known(d) => deals[d].open_approvals = 0

\* Deciding a request takes it out of what is pending on its deal.
LEMMA DecidingCounts ==
  ASSUME TypeOK, NEW q \in RequestId, Pending(q), NEW d \in DealId,
         NEW status, status # "pending",
         approvals' = [approvals EXCEPT ![q].status = status],
         Counted(d)
  PROVE  Cardinality(PendingFor(d)') =
           IF d = approvals[q].deal THEN Decrement(deals[d].open_approvals)
           ELSE deals[d].open_approvals
<1>1. approvals'[q].status = status /\ approvals[q].status = "pending"
  <2>1. approvals[q] \in Approval
    BY DEF Pending, NotHeld, TypeOK
  <2> QED
    BY <2>1 DEF Approval, Pending, TypeOK
<1>2. \A p \in RequestId : p # q => approvals'[p] = approvals[p]
  BY DEF TypeOK
<1>3. CASE d = approvals[q].deal
  <2>1. PendingFor(d)' = PendingFor(d) \ {q} /\ q \in PendingFor(d)
    BY <1>1, <1>2, <1>3 DEF PendingFor, Pending
  <2>2. Cardinality(PendingFor(d) \ {q}) = Cardinality(PendingFor(d)) - 1
    BY <2>1, PendingFinite, FS_RemoveElement
  <2>3. Cardinality(PendingFor(d)) > 0
    BY <2>1, PendingFinite, FS_EmptySet
  <2> QED
    BY <1>3, <2>1, <2>2, <2>3 DEF Counted, Decrement
<1>4. CASE d # approvals[q].deal
  <2>1. PendingFor(d)' = PendingFor(d)
    BY <1>1, <1>2, <1>4 DEF PendingFor, Pending
  <2> QED
    BY <1>4, <2>1 DEF Counted
<1> QED
  BY <1>3, <1>4

\* The counter that blocks payments counts the approvals a person has still
\* to decide, for any number of deals and requests.
THEOREM OpenApprovalsCountedHolds == Spec => []OpenApprovalsCounted
<1> USE ContractAssumption
<1> DEFINE IInv == OpenApprovalsCounted /\ UnregisteredIdle
<1>1. Init => IInv
  <2> SUFFICES ASSUME Init, NEW d \in DealId
               PROVE  Counted(d) /\ deals[d].open_approvals = 0
    BY DEF OpenApprovalsCounted, UnregisteredIdle, Counted
  <2>1. deals[d].open_approvals = 0
    BY DEF Init, UnknownDeal, DraftDeal
  <2>2. PendingFor(d) = {}
    BY DEF Init, PendingFor, Pending, NotHeld
  <2> QED
    BY <2>1, <2>2, FS_EmptySet DEF Counted
<1>2. TypeOK /\ TypeOK' /\ IInv /\ [Next]_vars => IInv'
  <2> SUFFICES ASSUME TypeOK, TypeOK', IInv, [Next]_vars, NEW d \in DealId
               PROVE  Counted(d)' /\ (~ Known(d)' => deals'[d].open_approvals = 0)
    BY DEF OpenApprovalsCounted, UnregisteredIdle, Counted
  <2>0. /\ Counted(d)
        /\ ~ Known(d) => deals[d].open_approvals = 0
        /\ deals[d] \in DealRow
    BY DEF OpenApprovalsCounted, UnregisteredIdle, Counted, TypeOK
  <2>1. CASE deals'[d] = deals[d] /\ approvals' = approvals
    BY <2>0, <2>1 DEF Counted, Known, PendingFor, Pending
  <2>2. ASSUME NEW e \in DealId, NEW r \in RecordId, Register(e, r)
        PROVE  Counted(d)' /\ (~ Known(d)' => deals'[d].open_approvals = 0)
    <3>1. CASE d = e
      <4>1. deals'[d].open_approvals = 0 /\ deals[d].open_approvals = 0
        BY <2>0, <2>2, <3>1 DEF Register, TypeOK, DraftDeal
      <4> QED
        BY <2>0, <2>2, <4>1 DEF Register, Counted, PendingFor, Pending
    <3>2. CASE d # e
      BY <2>1, <2>2, <3>2 DEF Register, TypeOK
    <3> QED
      BY <3>1, <3>2
  <2>3. ASSUME NEW q \in RequestId, NEW e \in DealId, NEW ask \in Asks,
               Perform(q, e, ask.action, ask.amount)
        PROVE  Counted(d)' /\ (~ Known(d)' => deals'[d].open_approvals = 0)
    <3>1. deals'[d].open_approvals = deals[d].open_approvals
      <4>1. ask.action \in ActionToken /\ ask.amount \in Amount
        OBVIOUS
      <4> QED
        BY <2>0, <2>3, <4>1, ActionMoves DEF Perform, TypeOK
    <3>2. Known(d)' \/ deals'[d] = deals[d]
      <4>1. ask.action \in ActionToken /\ ask.amount \in Amount
        OBVIOUS
      <4> QED
        BY <2>0, <2>3, <4>1, ApplyActionIsEvent, ApplyEventType, NoStateApart
           DEF Perform, TypeOK, Known
    <3> QED
      BY <2>0, <2>3, <3>1, <3>2 DEF Perform, Counted, PendingFor, Pending, Known
  <2>4. ASSUME NEW q \in RequestId, NEW e \in DealId, NEW ask \in Asks,
               Hold(q, e, ask.action, ask.amount)
        PROVE  Counted(d)' /\ (~ Known(d)' => deals'[d].open_approvals = 0)
    <3>1. /\ approvals'[q].status = "pending" /\ approvals'[q].deal = e
          /\ approvals[q].status # "pending"
          /\ \A p \in RequestId : p # q => approvals'[p] = approvals[p]
      BY <2>4 DEF Hold, TypeOK, NotHeld
    <3>2. CASE d = e
      <4>1. PendingFor(d)' = PendingFor(d) \cup {q} /\ q \notin PendingFor(d)
        BY <3>1, <3>2 DEF PendingFor, Pending
      <4>2. Cardinality(PendingFor(d)') = Cardinality(PendingFor(d)) + 1
        BY <4>1, PendingFinite, FS_AddElement
      <4>3. /\ deals'[d].open_approvals = deals[d].open_approvals + 1
            /\ deals'[d].state = deals[d].state
        BY <2>0, <2>4, <3>2 DEF Hold, TypeOK, DealRow
      <4>4. Known(d)
        BY <2>4, <3>2 DEF Hold
      <4> QED
        BY <2>0, <4>2, <4>3, <4>4 DEF Counted, Known
    <3>3. CASE d # e
      <4>1. PendingFor(d)' = PendingFor(d)
        BY <3>1, <3>3 DEF PendingFor, Pending
      <4>2. deals'[d] = deals[d]
        BY <2>4, <3>3 DEF Hold, TypeOK
      <4> QED
        BY <2>0, <4>1, <4>2 DEF Counted, Known
    <3> QED
      BY <3>2, <3>3
  <2>5. ASSUME NEW q \in RequestId, NEW c \in CommandId, Grant(q, c)
        PROVE  Counted(d)' /\ (~ Known(d)' => deals'[d].open_approvals = 0)
    <3> DEFINE a == approvals[q]
               moved == ApplyAction(deals[a.deal], a.action, a.amount)
    <3>1. a \in Approval
      BY <2>5 DEF Grant, Pending, NotHeld, TypeOK
    <3>2. a.deal \in DealId /\ a.action \in ActionToken /\ a.amount \in Amount
      BY <3>1 DEF Approval
    <3>3. Cardinality(PendingFor(d)') =
            IF d = a.deal THEN Decrement(deals[d].open_approvals)
            ELSE deals[d].open_approvals
      BY <2>0, <2>5, DecidingCounts DEF Grant
    <3>4. CASE d = a.deal
      <4>1. /\ moved \in DealRow
            /\ MovedBy(deals[d], moved, ActionEvents[a.action], a.amount)
            /\ ActionEvents[a.action] \in DealEvent
            /\ moved.open_approvals = deals[d].open_approvals
        BY <2>0, <2>5, <3>2, <3>4, ActionMoves DEF Grant
      <4>2. deals'[d] = Close(moved)
        BY <2>5, <3>2, <3>4 DEF Grant, TypeOK
      <4> HIDE DEF moved
      <4>3. /\ deals'[d].open_approvals = Decrement(deals[d].open_approvals)
            /\ deals'[d].state \in DealState
        BY <4>1, <4>2, CloseType, TargetType DEF MovedBy
      <4> QED
        BY <3>3, <3>4, <4>3, NoStateApart DEF Counted, Known
    <3>5. CASE d # a.deal
      <4>1. deals'[d] = deals[d]
        BY <2>5, <3>5 DEF Grant, TypeOK
      <4> QED
        BY <2>0, <3>3, <3>5, <4>1 DEF Counted, Known
    <3> QED
      BY <3>4, <3>5
  <2>6. ASSUME NEW q \in RequestId, NEW c \in CommandId, Dismiss(q, c)
        PROVE  Counted(d)' /\ (~ Known(d)' => deals'[d].open_approvals = 0)
    <3>1. Cardinality(PendingFor(d)') =
            IF d = approvals[q].deal THEN Decrement(deals[d].open_approvals)
            ELSE deals[d].open_approvals
      BY <2>0, <2>6, DecidingCounts DEF Dismiss
    <3>2. deals'[d] = IF d = approvals[q].deal THEN Close(deals[d]) ELSE deals[d]
      BY <2>6 DEF Dismiss, TypeOK
    <3>3. Decrement(0) = 0
      BY DEF Decrement
    <3> QED
      BY <2>0, <3>1, <3>2, <3>3, CloseType DEF Counted, Known
  <2>7. ASSUME NEW e \in DealId, NEW c \in CommandId, NEW event \in DealEvent,
               Observe(e, c, event)
        PROVE  Counted(d)' /\ (~ Known(d)' => deals'[d].open_approvals = 0)
    <3>1. CASE d = e
      <4>1. /\ deals'[d].open_approvals = deals[d].open_approvals
            /\ deals'[d].state = Target[event]
        BY <2>7, <3>1, TransitionForType DEF Observe, ApplyEvent, TypeOK
      <4> QED
        BY <2>0, <2>7, <4>1, TargetType, NoStateApart
           DEF Observe, Counted, PendingFor, Pending, Known
    <3>2. CASE d # e
      BY <2>1, <2>7, <3>2 DEF Observe, TypeOK
    <3> QED
      BY <3>1, <3>2
  <2> QED
    BY <2>1, <2>2, <2>3, <2>4, <2>5, <2>6, <2>7
       DEF Next, vars, Refuse, Revoke, Lapse
<1> QED
  BY <1>1, <1>2, TypeCorrect, PTL DEF Spec
=============================================================================
