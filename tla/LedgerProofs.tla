---------------------------- MODULE LedgerProofs ----------------------------
(***************************************************************************)
(* Proofs about Ledger, for every set of deals, records, requests,         *)
(* commands and keys, every mandate and proposal, and every answer of the  *)
(* content screen.                                                         *)
(***************************************************************************)
EXTENDS Ledger, CommitPlansProofs, FiniteSetTheorems, SequenceTheorems

-----------------------------------------------------------------------------
(* Entries and plans.                                                      *)

\* The entries the plans write have the shape of the chain's entries.
LEMMA EntryTypes ==
  /\ \A c \in Cause : MessageEntry(c) \in Entry
  /\ \A q \in RequestId, p \in Proposals, decision \in Decision :
       DecisionEntry(q, p, decision) \in Entry
  /\ \A c \in Cause, event \in DealEvent, from \in Deal, to \in Deal,
        amount \in Amount :
       TransitionEntry(c, event, from, to, amount) \in Entry
  /\ \A operation \in {"required", "granted", "denied"}, q \in RequestId,
        action \in ActionToken, amount \in Amount :
       ApprovalEntry(operation, q, action, amount) \in Entry
  /\ \A v \in Revocation : RevocationEntry(v) \in Entry
BY DEF Entry, MessageEntry, DecisionEntry, TransitionEntry, ApprovalEntry,
       RevocationEntry, Deal

\* A single entry is a chain.
LEMMA OneEntry == \A e \in Entry : <<e>> \in Seq(Entry)
OBVIOUS

\* The entries a request's plan appends.
LEMMA PlannedEvents ==
  ASSUME NEW deal \in Deal, NEW q \in RequestId, NEW p \in Proposals,
         NEW r \in RecordId, NEW decision \in Decision,
         decision.outcome # "deny" => p.action \in ActionToken,
         ~ Stale(deal, PlannedEvent(p, decision))
  PROVE  PlanCommitRequest(deal, q, p, r, decision).events \in Seq(Entry)
<1> DEFINE event == PlannedEvent(p, decision)
           moved == IF event = NoEvent THEN deal
                    ELSE ApplyAction(deal, p.action, p.amount)
           message == IF p.text THEN <<MessageEntry(q)>> ELSE <<>>
           decided == <<DecisionEntry(q, p, decision)>>
           transition ==
             IF event = NoEvent THEN <<>>
             ELSE <<TransitionEntry(q, event, deal, moved, p.amount)>>
           required ==
             IF decision.outcome = "needs_approval"
             THEN <<ApprovalEntry("required", q, p.action, p.amount)>>
             ELSE <<>>
<1>1. p.amount \in Amount /\ q \in Cause
  BY LedgerAssumption DEF Cause
<1>2. message \in Seq(Entry)
  BY <1>1, EntryTypes, OneEntry, EmptySeq
<1>3. decided \in Seq(Entry)
  BY EntryTypes, OneEntry
<1>4. transition \in Seq(Entry)
  <2>1. CASE event = NoEvent
    BY <2>1, EmptySeq
  <2>2. CASE event # NoEvent
    <3>1. decision.outcome = "allow" /\ event = ActionEvents[p.action]
      BY <2>2 DEF PlannedEvent
    <3>2. p.action \in ActionToken /\ event \in DealEvent
      BY <2>2, <3>1, ActionEventsType
    <3>3. moved = PlanCommitRequest(deal, q, p, r, decision).deal
      BY <2>2, <3>1 DEF PlanCommitRequest
    <3>4. moved \in Deal
      BY <1>1, <3>3, PlannedDeal
    <3> HIDE DEF event, moved
    <3>5. TransitionEntry(q, event, deal, moved, p.amount) \in Entry
      BY <1>1, <3>2, <3>4, EntryTypes
    <3> QED
      BY <2>2, <3>5, OneEntry
  <2> QED
    BY <2>1, <2>2
<1>5. required \in Seq(Entry)
  <2>1. CASE decision.outcome = "needs_approval"
    <3>1. p.action \in ActionToken
      BY <2>1
    <3>2. ApprovalEntry("required", q, p.action, p.amount) \in Entry
      BY <1>1, <3>1, EntryTypes
    <3> QED
      BY <2>1, <3>2, OneEntry
  <2>2. CASE decision.outcome # "needs_approval"
    BY <2>2, EmptySeq
  <2> QED
    BY <2>1, <2>2
<1>6. PlanCommitRequest(deal, q, p, r, decision).events =
        message \o decided \o transition \o required
  BY DEF PlanCommitRequest
<1> HIDE DEF event, moved, message, decided, transition, required
<1>7. message \o decided \in Seq(Entry)
  BY <1>2, <1>3, ConcatProperties
<1>8. message \o decided \o transition \in Seq(Entry)
  BY <1>4, <1>7, ConcatProperties
<1>9. message \o decided \o transition \o required \in Seq(Entry)
  BY <1>5, <1>8, ConcatProperties
<1> QED
  BY <1>6, <1>9

\* The approval row a request's plan opens, if it is held.
LEMMA PlannedApproval ==
  ASSUME NEW deal, NEW q \in RequestId, NEW p \in Proposals,
         NEW r \in RecordId, NEW decision \in Decision,
         decision.outcome # "deny" => p.action \in ActionToken
  PROVE  LET row == PlanCommitRequest(deal, q, p, r, decision).approval IN
         /\ row \in Approval \cup {NoApproval}
         /\ row = NoApproval <=> decision.outcome # "needs_approval"
<1>1. p.amount \in Amount /\ p.deal \in DealId
  BY LedgerAssumption
<1> QED
  BY <1>1 DEF PlanCommitRequest, Approval, NoApproval

-----------------------------------------------------------------------------
(* One proposal.                                                           *)

\* The engine's decision about a proposal, on the store as it is.
DecisionOn(p, content) ==
  Evaluate(PolicyInput(p, Mandate[links[p.deal]], ClaimStatus(links[p.deal]),
                       deals[p.deal], now, content))

\* A registered deal is linked to a stored record.
Linked(d) == Known(d) => links[d] \in records

\* The two parts of type correctness, of the deals of proposals too.
LEMMA TypeParts ==
  TypeOK => /\ Shaped
            /\ \A d \in DealId : Linked(d)
            /\ \A p \in Proposals : Linked(p.deal)
BY LedgerAssumption DEF TypeOK, Linked

\* A registered deal is a deal of the machine, linked to a stored record.
LEMMA KnownDeal ==
  ASSUME Shaped, NEW d \in DealId, Linked(d), Known(d)
  PROVE  /\ deals[d] \in Deal
         /\ links[d] \in records
         /\ links[d] \in RecordId
BY DealRowTypes DEF Shaped, Linked, Known, DealRow

\* A record that is neither revoked nor expired is in force.
LEMMA StatusType == \A r : Status(r) \in {"active", "revoked", "expired"}
BY DEF Status, ResolveStatus

\* A proposal that is not denied is an action of the vocabulary, in its place,
\* under a mandate in force; an allowed one also keeps the mandate's limits.
LEMMA DecisionPermits ==
  ASSUME Shaped, NEW p \in Proposals, Linked(p.deal), Known(p.deal),
         NEW content, DecisionOn(p, content).outcome # "deny"
  PROVE  LET deal == deals[p.deal]
             m == Mandate[links[p.deal]]
         IN  /\ Status(links[p.deal]) = "active"
             /\ p.action \in ActionToken
             /\ deal.state \in ActionValidStates[p.action]
             /\ p.action \in PaymentActions =>
                  deal.open_disputes = 0 /\ deal.open_approvals = 0
             /\ DecisionOn(p, content).outcome = "allow" =>
                  /\ p.action \in NegotiationActions =>
                       deal.negotiated_rounds < m.max_negotiation_rounds
                  /\ p.amount # NoAmount =>
                       deal.committed_minor + p.amount <= m.spend_cap
<1> DEFINE r == links[p.deal]
           pi == PolicyInput(p, Mandate[r], ClaimStatus(r), deals[p.deal],
                             now, content)
<1>1. p.deal \in DealId /\ p.amount \in Amount
  BY LedgerAssumption
<1>2. deals[p.deal] \in Deal /\ r \in RecordId
  BY <1>1, KnownDeal
<1>3. DecisionOn(p, content) = Evaluate(pi)
  BY DEF DecisionOn
<1>4. /\ pi.status = Status(r)
      /\ pi.proposal.action = p.action
      /\ pi.proposal.amount = p.amount
      /\ pi.deal = deals[p.deal]
      /\ pi.mandate = Mandate[r]
  BY DEF PolicyInput, ClaimStatus
<1> HIDE DEF pi
<1>5. /\ pi.status \notin {"revoked", "expired"}
      /\ pi.proposal.action \in ActionToken
      /\ ~ OutOfPlace(pi)
      /\ IsPayment(pi) => /\ ~ (pi.deal.open_disputes > 0)
                          /\ ~ (pi.deal.open_approvals > 0)
  BY <1>3, EvaluatePermits
<1>6. Status(r) = "active"
  BY <1>4, <1>5, StatusType
<1>7. p.action \in PaymentActions =>
        deals[p.deal].open_disputes = 0 /\ deals[p.deal].open_approvals = 0
  BY <1>2, <1>4, <1>5 DEF IsPayment, Deal
<1>8. ASSUME DecisionOn(p, content).outcome = "allow"
      PROVE  /\ p.action \in NegotiationActions =>
                  deals[p.deal].negotiated_rounds <
                    Mandate[r].max_negotiation_rounds
             /\ p.amount # NoAmount =>
                  deals[p.deal].committed_minor + p.amount <=
                    Mandate[r].spend_cap
  <2>1. ~ OverCap(pi) /\ ~ RoundsUsedUp(pi)
    BY <1>3, <1>8, EvaluateAllows
  <2>2. /\ Mandate[r].max_negotiation_rounds \in Nat
        /\ Mandate[r].spend_cap \in Nat
    BY <1>2, LedgerAssumption
  <2>3. /\ deals[p.deal].negotiated_rounds \in Nat
        /\ deals[p.deal].committed_minor \in Nat
    BY <1>2 DEF Deal
  <2>4. p.amount # NoAmount => p.amount \in Nat
    BY <1>1 DEF Amount
  <2> QED
    BY <1>4, <2>1, <2>2, <2>3, <2>4 DEF OverCap, RoundsUsedUp
<1> QED
  BY <1>4, <1>5, <1>6, <1>7, <1>8 DEF OutOfPlace

\* What the engine allows on the store as it is can be committed: with no
\* await between the two, a commit is never stale.
LEMMA NeverStale ==
  ASSUME Shaped, NEW p \in Proposals, Linked(p.deal), Known(p.deal),
         NEW content
  PROVE  ~ Stale(deals[p.deal], PlannedEvent(p, DecisionOn(p, content)))
<1>1. CASE DecisionOn(p, content).outcome = "allow"
  BY <1>1, DecisionPermits, PermittedHasTransition DEF Stale, PlannedEvent
<1>2. CASE DecisionOn(p, content).outcome # "allow"
  BY <1>2 DEF Stale, PlannedEvent
<1> QED
  BY <1>1, <1>2

\* What a commit asks of a decision, whatever it was made on: that it is the
\* engine's, and not stale on the stored deal.
Committable(p, decision) ==
  /\ decision \in Decision
  /\ decision.outcome # "deny" => p.action \in ActionToken
  /\ ~ Stale(deals[p.deal], PlannedEvent(p, decision))

\* The engine's decision on the store as it is can be committed.
LEMMA DecisionIsCommittable ==
  ASSUME Shaped, NEW p \in Proposals, Linked(p.deal), Known(p.deal),
         NEW content
  PROVE  Committable(p, DecisionOn(p, content))
<1>1. DecisionOn(p, content) \in Decision
  BY EvaluateType DEF DecisionOn
<1> QED
  BY <1>1, DecisionPermits, NeverStale DEF Committable

\* A proposal passes the gate and is committed, or leaves the store alone.
LEMMA ProposalStep ==
  ASSUME Shaped, NEW q \in RequestId, NEW p \in Proposals, NEW content,
         Linked(p.deal), Propose(q, p, content)
  PROVE  /\ Known(p.deal)
         /\ now' = now
         /\ \/ /\ UNCHANGED store
               /\ \/ /\ decisions[p.key] # NoDecision
                     /\ decisions[p.key].proposal = p
                     /\ answer' = ToldDecision("idempotent_hit", p.key,
                                               decisions[p.key].decision)
                  \/ /\ answer' \in {Told("conflict"), Told("replay")}
                     /\ \/ decisions[p.key] = NoDecision
                        \/ decisions[p.key].proposal # p
            \/ /\ CommitRequest(q, p, DecisionOn(p, content))
               /\ q \notin seen_requests
               /\ decisions[p.key] = NoDecision
               /\ answer' = ToldDecision("decided", p.key,
                                         DecisionOn(p, content))
BY NeverStale DEF Propose, ProcessRequest, DecisionOn, CheckAntiReplay

-----------------------------------------------------------------------------
(* Type correctness.                                                       *)

\* An approval a person is asked about is a full row of the table.
LEMMA HeldRow ==
  ASSUME TypeOK, NEW q \in RequestId, approvals[q] # NoApproval
  PROVE  /\ approvals[q] \in Approval
         /\ approvals[q].deal \in DealId
         /\ approvals[q].record \in RecordId
         /\ approvals[q].action \in ActionToken
         /\ approvals[q].amount \in Amount
BY DEF TypeOK, Shaped, Approval

\* The plan of a person's answer: the event of the held action or none, and
\* the row answered once.
LEMMA AnsweredPlan ==
  ASSUME NEW deal \in DealRow, NEW q \in RequestId, NEW a \in Approval,
         NEW operation \in {"granted", "denied"}, NEW current \in BOOLEAN
  PROVE  LET plan == PlanCommitApproval(deal, q, a, operation, current) IN
         /\ plan.deal \in DealRow
         /\ deal.state # NoState => plan.deal.state # NoState
         /\ plan.events \in Seq(Entry)
         /\ plan.approval \in Approval
<1> DEFINE plan == PlanCommitApproval(deal, q, a, operation, current)
           moved == ApplyAction(deal, a.action, a.amount)
<1>1. a.action \in ActionToken /\ a.amount \in Amount /\ q \in Cause
  BY DEF Approval, Cause
<1>2. \A status \in {"granted", "denied"} :
        [a EXCEPT !.status = status] \in Approval
  BY DEF Approval
<1>3. CASE operation = "granted" /\ ~ ForcedDeny(deal, a, current)
  <2>1. /\ ActionEvents[a.action] # NoEvent
        /\ TransitionFor(deal.state, ActionEvents[a.action]) # NoState
    BY <1>3 DEF ForcedDeny, Stale
  <2>2. /\ ActionEvents[a.action] \in DealEvent
        /\ deal.state \in Sources[ActionEvents[a.action]]
        /\ moved \in Deal
    BY <1>1, <2>1, ActionIsEvent, ApplyEventType
  <2>3. deal \in Deal
    BY <2>2, SourcesType, DealRowTypes
  <2>4. Closed(moved) \in Deal
    BY <2>2, ClosedType, DealRowTypes
  <2>5. /\ ApprovalEntry("granted", q, a.action, a.amount) \in Entry
        /\ TransitionEntry(q, ActionEvents[a.action], deal, moved, a.amount)
             \in Entry
    BY <1>1, <2>2, <2>3, EntryTypes
  <2>6. /\ plan.deal = Closed(moved)
        /\ plan.events =
             << ApprovalEntry("granted", q, a.action, a.amount),
                TransitionEntry(q, ActionEvents[a.action], deal, moved,
                                a.amount) >>
        /\ plan.approval = [a EXCEPT !.status = "granted"]
    BY <1>3 DEF PlanCommitApproval
  <2> HIDE DEF plan, moved
  <2>7. plan.events \in Seq(Entry)
    BY <2>5, <2>6
  <2>8. plan.deal \in DealRow /\ plan.deal.state # NoState
    BY <2>4, <2>6, DealRowTypes, NoStateApart DEF Deal
  <2> QED
    BY <1>2, <2>6, <2>7, <2>8 DEF plan
<1>4. CASE ~ (operation = "granted" /\ ~ ForcedDeny(deal, a, current))
  <2>1. ApprovalEntry("denied", q, a.action, a.amount) \in Entry
    BY <1>1, EntryTypes
  <2>2. /\ plan.deal = Closed(deal)
        /\ plan.events = <<ApprovalEntry("denied", q, a.action, a.amount)>>
        /\ plan.approval = [a EXCEPT !.status = "denied"]
    BY <1>4 DEF PlanCommitApproval
  <2> HIDE DEF plan
  <2> QED
    BY <1>2, <2>1, <2>2, OneEntry, ClosedType DEF plan
<1> QED
  BY <1>3, <1>4

\* The plan of a boundary event that the table has a transition for.
LEMMA ObservedPlan ==
  ASSUME NEW deal \in DealRow, NEW c \in CommandId, NEW event \in DealEvent,
         NEW noted, TransitionFor(deal.state, event) # NoState
  PROVE  LET plan == PlanCommitTransition(deal, c, event, noted) IN
         /\ plan.deal \in Deal
         /\ plan.deal.state # NoState
         /\ plan.events \in Seq(Entry)
<1> DEFINE moved == ApplyEvent(deal, event, TransitionFor(deal.state, event),
                               NoAmount)
           message == IF noted THEN <<MessageEntry(c)>> ELSE <<>>
           plan == PlanCommitTransition(deal, c, event, noted)
<1>1. NoAmount \in Amount /\ c \in Cause
  BY DEF Amount, Cause
<1>2. /\ deal.state \in Sources[event]
      /\ TransitionFor(deal.state, event) \in DealState
  BY TransitionForType, TargetType
<1>3. deal \in Deal
  BY <1>2, SourcesType, DealRowTypes
<1>4. moved \in Deal
  BY <1>1, <1>2, ApplyEventType
<1>5. message \in Seq(Entry)
  BY <1>1, EntryTypes, OneEntry, EmptySeq
<1>6. TransitionEntry(c, event, deal, moved, NoAmount) \in Entry
  BY <1>1, <1>3, <1>4, EntryTypes
<1>7. /\ plan.deal = moved
      /\ plan.events =
           message \o <<TransitionEntry(c, event, deal, moved, NoAmount)>>
  BY DEF PlanCommitTransition
<1> HIDE DEF moved, message, plan
<1>8. <<TransitionEntry(c, event, deal, moved, NoAmount)>> \in Seq(Entry)
  BY <1>6, OneEntry
<1>9. plan.events \in Seq(Entry)
  BY <1>5, <1>7, <1>8, ConcatProperties
<1>10. plan.deal \in Deal /\ plan.deal.state # NoState
  BY <1>4, <1>7, NoStateApart DEF Deal
<1> QED
  BY <1>9, <1>10 DEF plan

\* Committing a request keeps every table's shape.
LEMMA CommitRequestType ==
  ASSUME Shaped, NEW q \in RequestId, NEW p \in Proposals, NEW decision,
         Linked(p.deal), Known(p.deal), now' = now,
         Committable(p, decision), CommitRequest(q, p, decision)
  PROVE  /\ Shaped'
         /\ UNCHANGED <<links, records>>
         /\ \A d \in DealId : Known(d)' = Known(d)
<1> DEFINE d == p.deal
           r == links[d]
           plan == PlanCommitRequest(deals[d], q, p, r, decision)
<1>1. d \in DealId /\ p.key \in Key /\ p.amount \in Amount
  BY LedgerAssumption
<1>2. deals[d] \in Deal /\ r \in records /\ r \in RecordId
  BY <1>1, KnownDeal
<1>3. decision \in Decision
  BY DEF Committable
<1>4. /\ decision.outcome # "deny" => p.action \in ActionToken
      /\ ~ Stale(deals[d], PlannedEvent(p, decision))
  BY DEF Committable
<1>5. plan.deal \in Deal /\ plan.events \in Seq(Entry)
  BY <1>1, <1>2, <1>3, <1>4, PlannedDeal, PlannedEvents
<1>6. plan.approval \in Approval \cup {NoApproval}
  BY <1>2, <1>3, <1>4, PlannedApproval
<1>7. /\ deals' = [deals EXCEPT ![d] = plan.deal]
      /\ events' = [events EXCEPT ![d] = @ \o plan.events]
      /\ approvals' \in {approvals, [approvals EXCEPT ![q] = plan.approval]}
      /\ records' = records
      /\ nonce_owners' = [nonce_owners EXCEPT ![Mandate[r].nonce] = r]
      /\ seen_requests' = seen_requests \cup {q}
      /\ decisions' = [decisions EXCEPT ![p.key] =
                         [proposal |-> p, decision |-> decision]]
      /\ UNCHANGED <<links, revocations, seen_commands>>
  BY <1>2 DEF CommitRequest
<1> HIDE DEF plan
<1>8. plan.deal \in DealRow /\ plan.deal.state # NoState
  BY <1>5, DealRowTypes, NoStateApart DEF Deal
<1>9. events[d] \in Seq(Entry)
  BY <1>1 DEF Shaped
<1>10. events[d] \o plan.events \in Seq(Entry)
  BY <1>5, <1>9, ConcatProperties
<1>11. [proposal |-> p, decision |-> decision] \in StoredDecision
  BY <1>3 DEF StoredDecision
<1>12. Shaped'
  <2> USE DEF Shaped
  <2>1. deals' \in [DealId -> DealRow]
    BY <1>1, <1>7, <1>8
  <2>2. events' \in [DealId -> Seq(Entry)]
    BY <1>1, <1>7, <1>10
  <2>3. approvals' \in [RequestId -> Approval \cup {NoApproval}]
    BY <1>6, <1>7
  <2>4. nonce_owners' \in [Nonces -> RecordId \cup {NoRecord}]
    BY <1>2, <1>7
  <2>5. decisions' \in [Key -> StoredDecision \cup {NoDecision}]
    BY <1>1, <1>7, <1>11
  <2> QED
    BY <1>7, <2>1, <2>2, <2>3, <2>4, <2>5
<1>13. \A e \in DealId : Known(e)' = Known(e)
  BY <1>1, <1>7, <1>8 DEF Shaped, Known
<1> QED
  BY <1>7, <1>12, <1>13

\* So does committing an event of the boundary or of a peer,
LEMMA TransitionType ==
  ASSUME Shaped, NEW d \in DealId, NEW c \in CommandId,
         NEW event \in DealEvent, NEW noted, CommitTransition(d, c, event, noted)
  PROVE  /\ Shaped'
         /\ UNCHANGED <<links, records>>
         /\ \A x \in DealId : Known(x)' = Known(x)
<1> DEFINE plan == PlanCommitTransition(deals[d], c, event, noted)
<1>1. CASE UNCHANGED store
  BY <1>1 DEF CommitTransition, store, Shaped, Known
<1>2. CASE TransitionResult(d, c, event) = "committed"
  <2>1. TransitionFor(deals[d].state, event) # NoState
    BY <1>2 DEF TransitionResult
  <2>2. deals[d] \in DealRow /\ events[d] \in Seq(Entry)
    BY DEF Shaped
  <2>3. /\ plan.deal \in DealRow
        /\ plan.deal.state # NoState
        /\ plan.events \in Seq(Entry)
    BY <2>1, <2>2, ObservedPlan, DealRowTypes
  <2>4. /\ deals' = [deals EXCEPT ![d] = plan.deal]
        /\ events' = [events EXCEPT ![d] = @ \o plan.events]
        /\ seen_commands' = seen_commands \cup {c}
        /\ Known(d)
        /\ UNCHANGED <<links, records, revocations, approvals, nonce_owners,
                       seen_requests, decisions, now>>
    BY <1>2 DEF CommitTransition
  <2> HIDE DEF plan
  <2>5. events[d] \o plan.events \in Seq(Entry)
    BY <2>2, <2>3, ConcatProperties
  <2>6. Shaped'
    BY <2>3, <2>4, <2>5 DEF Shaped
  <2>7. \A x \in DealId : Known(x)' = Known(x)
    BY <2>3, <2>4 DEF Shaped, Known
  <2> QED
    BY <2>4, <2>6, <2>7
<1> QED
  BY <1>1, <1>2 DEF CommitTransition

\* and a revocation.
LEMMA RevocationType ==
  ASSUME Shaped, NEW d \in DealId, NEW c \in CommandId, Revoke(d, c)
  PROVE  Shaped' /\ UNCHANGED <<deals, links, records>>
<1> DEFINE revocation == [record |-> links[d], revoked_at |-> now]
<1>1. CASE UNCHANGED store
  BY <1>1 DEF Revoke, CommitRevocation, store, Shaped
<1>2. CASE RevocationResult(links[d], c) = "committed"
  <2>1. revocation \in Revocation
    BY DEF Revoke, Shaped, Revocation
  <2>2. RevocationEntry(revocation) \in Entry
    BY <2>1, EntryTypes
  <2>3. /\ events' = [events EXCEPT ![d] =
                        Append(@, RevocationEntry(revocation))]
        /\ revocations' = revocations \cup {revocation}
        /\ seen_commands' = seen_commands \cup {c}
        /\ UNCHANGED <<deals, links, records, approvals, nonce_owners,
                       seen_requests, decisions, now>>
    BY <1>2 DEF Revoke, CommitRevocation
  <2> HIDE DEF revocation
  <2>4. Append(events[d], RevocationEntry(revocation)) \in Seq(Entry)
    BY <2>2 DEF Shaped
  <2> QED
    BY <2>1, <2>3, <2>4 DEF Shaped
<1> QED
  BY <1>1, <1>2 DEF Revoke, CommitRevocation

\* A registration keeps it too,
LEMMA RegistrationType ==
  ASSUME Shaped, NEW d \in DealId, NEW r \in RecordId, RegisterDeal(d, r)
  PROVE  Shaped'
<1>1. DraftDeal \in DealRow
  BY DealRowTypes
<1> QED
  BY <1>1 DEF RegisterDeal, Shaped

\* and so does the passing of time.
LEMMA TickType == Shaped /\ Tick => Shaped'
BY LedgerAssumption DEF Tick, store, Shaped

\* Every operation keeps every table's shape.
LEMMA TypeStep == TypeOK /\ [Next]_vars => TypeOK'
<1> SUFFICES ASSUME TypeOK, [Next]_vars PROVE TypeOK'
  OBVIOUS
<1> USE LedgerAssumption
<1>1. ASSUME NEW d \in DealId, NEW r \in RecordId, RegisterDeal(d, r)
      PROVE  TypeOK'
  <2>1. \A e \in DealId : Known(e)' => links'[e] \in records'
    BY <1>1 DEF RegisterDeal, TypeOK, Shaped, Known
  <2> QED
    BY <1>1, <2>1, RegistrationType DEF TypeOK
<1>2. ASSUME NEW q \in RequestId, NEW p \in Proposals, NEW content,
             Propose(q, p, content)
      PROVE  TypeOK'
  <2>1. CASE UNCHANGED store
    BY <1>2, <2>1 DEF Propose, ProcessRequest, store, TypeOK, Shaped, Known
  <2>2. CASE CommitRequest(q, p, DecisionOn(p, content))
    <3>1. /\ Known(p.deal) /\ now' = now
          /\ Committable(p, DecisionOn(p, content))
      BY <1>2, ProposalStep, DecisionIsCommittable, TypeParts
    <3> QED
      BY <2>2, <3>1, TypeParts, CommitRequestType DEF TypeOK
  <2> QED
    BY <1>2, <2>1, <2>2, ProposalStep, TypeParts
<1>3. ASSUME NEW d \in DealId, NEW c \in CommandId, NEW noted \in Notes,
             NEW event \in BoundaryEvents[d], BoundaryEvent(d, c, event, noted)
      PROVE  TypeOK'
  <2>1. event \in DealEvent
    OBVIOUS
  <2> QED
    BY <1>3, <2>1, TransitionType DEF BoundaryEvent, TypeOK
<1>4. ASSUME NEW q \in RequestId, NEW c \in CommandId,
             NEW operation \in {"granted", "denied"},
             DecideApproval(q, c, operation)
      PROVE  TypeOK'
  <2> DEFINE a == approvals[q]
             d == a.deal
             plan == PlanCommitApproval(deals[d], q, a, operation,
                                        Current(a.record))
  <2>1. CASE UNCHANGED store
    BY <1>4, <2>1
       DEF DecideApproval, CommitApproval, store, TypeOK, Shaped, Known
  <2>2. CASE Decidable(q, c)
    <3>1. a \in Approval /\ d \in DealId
      BY <1>4, HeldRow DEF DecideApproval
    <3>2. deals[d] \in DealRow /\ events[d] \in Seq(Entry)
      BY <3>1 DEF TypeOK, Shaped
    <3>3. Current(a.record) \in BOOLEAN
      BY DEF Current
    <3>4. /\ plan.deal \in DealRow
          /\ deals[d].state # NoState => plan.deal.state # NoState
          /\ plan.events \in Seq(Entry)
          /\ plan.approval \in Approval
      BY <3>1, <3>2, <3>3, AnsweredPlan
    <3>5. /\ deals' = [deals EXCEPT ![d] = plan.deal]
          /\ events' = [events EXCEPT ![d] = @ \o plan.events]
          /\ approvals' = [approvals EXCEPT ![q] = plan.approval]
          /\ seen_commands' = seen_commands \cup {c}
          /\ UNCHANGED <<links, records, revocations, nonce_owners,
                         seen_requests, decisions, now>>
      BY <1>4, <2>2 DEF DecideApproval, CommitApproval
    <3>6. plan.deal.state # NoState => deals[d].state # NoState
      <4>1. CASE plan.deal = Closed(deals[d])
        BY <3>2, <4>1, ClosedType
      <4>2. CASE ~ ForcedDeny(deals[d], a, Current(a.record))
        <5>1. /\ ActionEvents[a.action] # NoEvent
              /\ TransitionFor(deals[d].state, ActionEvents[a.action]) # NoState
          BY <4>2 DEF ForcedDeny, Stale
        <5>2. deals[d].state \in Sources[ActionEvents[a.action]]
              /\ ActionEvents[a.action] \in DealEvent
          BY <3>1, <3>2, <5>1, ActionIsEvent DEF Approval
        <5> QED
          BY <5>2, SourcesType, NoStateApart
      <4> QED
        BY <4>1, <4>2 DEF PlanCommitApproval
    <3> HIDE DEF plan
    <3>7. events[d] \o plan.events \in Seq(Entry)
      BY <3>2, <3>4, ConcatProperties
    <3>8. Shaped'
      BY <3>1, <3>4, <3>5, <3>7 DEF TypeOK, Shaped
    <3>9. \A e \in DealId : Known(e)' => links'[e] \in records'
      <4> TAKE e \in DealId
      <4>1. Known(e)' => Known(e)
        BY <3>1, <3>5, <3>6 DEF TypeOK, Shaped, Known
      <4> QED
        BY <3>5, <4>1 DEF TypeOK
    <3> QED
      BY <3>8, <3>9 DEF TypeOK
  <2> QED
    BY <1>4, <2>1, <2>2 DEF DecideApproval, CommitApproval
<1>5. ASSUME NEW d \in DealId, NEW c \in CommandId, Revoke(d, c)
      PROVE  TypeOK'
  BY <1>5, RevocationType DEF TypeOK, Known
<1>6. CASE Tick
  BY <1>6 DEF Tick, store, TypeOK, Shaped, Known
<1>7. CASE UNCHANGED vars
  BY <1>7 DEF vars, store, TypeOK, Shaped, Known
<1> QED
  BY <1>1, <1>2, <1>3, <1>4, <1>5, <1>6, <1>7 DEF Next

\* The empty ledger is of its type.
LEMMA TypeInit == Init => TypeOK
BY LedgerAssumption, DealRowTypes
   DEF Init, TypeOK, Shaped, Known, UnknownDeal, DraftDeal, DealRow

\* Each of the store's tables keeps its shape, and a registered deal acts
\* under a stored record.
THEOREM LedgerTypeCorrect == Spec => []TypeOK
BY TypeInit, TypeStep, PTL DEF Spec

-----------------------------------------------------------------------------
(* The ledger implements the contract.                                     *)

\* An approval is opened by a request the ledger has seen.
HeldAreSeen ==
  \A q \in RequestId : approvals[q] # NoApproval => q \in seen_requests

\* What the contract calls withdrawn and spent.
Withdrawn == {r \in RecordId : Status(r) # "active"}
Spent == seen_requests \cup seen_commands

\* A held request stays one that was seen.
LEMMA HeldAreSeenStep == TypeOK /\ HeldAreSeen /\ [Next]_vars => HeldAreSeen'
<1> SUFFICES ASSUME TypeOK, HeldAreSeen, [Next]_vars PROVE HeldAreSeen'
  OBVIOUS
<1> USE DEF HeldAreSeen
<1>1. ASSUME NEW q \in RequestId, NEW p \in Proposals, NEW content,
             Propose(q, p, content)
      PROVE  HeldAreSeen'
  <2>1. CASE UNCHANGED store
    BY <2>1 DEF store
  <2>2. CASE CommitRequest(q, p, DecisionOn(p, content))
    <3>1. /\ seen_requests' = seen_requests \cup {q}
          /\ \A x \in RequestId : x # q => approvals'[x] = approvals[x]
      BY <2>2 DEF CommitRequest, TypeOK, Shaped
    <3> QED
      BY <3>1
  <2> QED
    BY <1>1, <2>1, <2>2, ProposalStep, TypeParts
<1>2. ASSUME NEW d \in DealId, NEW r \in RecordId, RegisterDeal(d, r)
      PROVE  HeldAreSeen'
  BY <1>2 DEF RegisterDeal
<1>3. ASSUME NEW d \in DealId, NEW c \in CommandId, NEW event, NEW noted,
             BoundaryEvent(d, c, event, noted)
      PROVE  HeldAreSeen'
  BY <1>3 DEF BoundaryEvent, CommitTransition, store
<1>4. ASSUME NEW q \in RequestId, NEW c \in CommandId, NEW operation,
             DecideApproval(q, c, operation)
      PROVE  HeldAreSeen'
  BY <1>4 DEF DecideApproval, CommitApproval, store, TypeOK, Shaped
<1>5. ASSUME NEW d \in DealId, NEW c \in CommandId, Revoke(d, c)
      PROVE  HeldAreSeen'
  BY <1>5 DEF Revoke, CommitRevocation, store
<1>6. CASE Tick \/ UNCHANGED vars
  BY <1>6 DEF Tick, vars, store
<1> QED
  BY <1>1, <1>2, <1>3, <1>4, <1>5, <1>6 DEF Next

\* An approval is always one of a request that was seen.
LEMMA HeldAreSeenHolds == Spec => []HeldAreSeen
<1>1. Init => HeldAreSeen
  BY DEF Init, HeldAreSeen
<1> QED
  BY <1>1, HeldAreSeenStep, LedgerTypeCorrect, PTL DEF Spec

\* Whether a record is in force depends on the revocations and the clock only.
LEMMA SameWithdrawn ==
  ASSUME UNCHANGED <<revocations, now>>
  PROVE  Withdrawn' = Withdrawn /\ \A r : Status(r)' = Status(r)
BY DEF Withdrawn, Status, Revoked

\* A step of the ledger that the contract does not see.
LEMMA Unseen ==
  ASSUME UNCHANGED store, now' = now
  PROVE  UNCHANGED Contract!vars
BY SameWithdrawn DEF Contract!vars, store, Withdrawn

\* The contract and the ledger use one deal state machine.
LEMMA SameVocabulary ==
  /\ Contract!NoState = NoState
  /\ Contract!NoEvent = NoEvent
  /\ Contract!NoAmount = NoAmount
  /\ Contract!NotHeld = NoApproval
  /\ Contract!DealEvent = DealEvent
  /\ Contract!ActionEvents = ActionEvents
  /\ Contract!NegotiationActions = NegotiationActions
  /\ Contract!PaymentActions = PaymentActions
  /\ Contract!DraftDeal = DraftDeal
  /\ Contract!UnknownDeal = UnknownDeal
  /\ \A state, event :
       Contract!TransitionFor(state, event) = TransitionFor(state, event)
BY DEF Contract!NoState, Contract!NoEvent, Contract!NoAmount,
       Contract!NotHeld, Contract!DealEvent, Contract!ActionEvents,
       Contract!NegotiationActions, Contract!PaymentActions,
       Contract!DraftDeal, Contract!UnknownDeal, Contract!TransitionFor,
       Contract!Sources, Contract!Target, NoState, NoEvent, NoAmount,
       NoApproval, DealEvent, ActionEvents, NegotiationActions,
       PaymentActions, DraftDeal, UnknownDeal, TransitionFor, Sources, Target

\* The contract and the ledger apply events and actions alike.
LEMMA SameEffects ==
  /\ \A deal, event, target, amount :
       Contract!ApplyEvent(deal, event, target, amount) =
         ApplyEvent(deal, event, target, amount)
  /\ \A deal, action, amount :
       Contract!ApplyAction(deal, action, amount) =
         ApplyAction(deal, action, amount)
  /\ \A deal : Contract!Close(deal) = Closed(deal)
<1>1. \A n : Contract!Decrement(n) = Decrement(n)
  BY DEF Contract!Decrement, Decrement
<1>2. \A n : Contract!Minor(n) = Minor(n)
  BY SameVocabulary DEF Contract!Minor, Minor
<1>3. \A deal, event : Contract!RoundsAfter(deal, event) =
                         RoundsAfter(deal, event)
  BY DEF Contract!RoundsAfter, RoundsAfter
<1>4. \A deal, event, amount : Contract!CommittedAfter(deal, event, amount) =
                                 CommittedAfter(deal, event, amount)
  BY <1>2 DEF Contract!CommittedAfter, CommittedAfter
<1>5. \A deal, event : Contract!DisputesAfter(deal, event) =
                         DisputesAfter(deal, event)
  BY <1>1 DEF Contract!DisputesAfter, DisputesAfter
<1>6. \A deal, event, target, amount :
        Contract!ApplyEvent(deal, event, target, amount) =
          ApplyEvent(deal, event, target, amount)
  BY <1>3, <1>4, <1>5 DEF Contract!ApplyEvent, ApplyEvent
<1>7. \A deal, action, amount :
        Contract!ApplyAction(deal, action, amount) =
          ApplyAction(deal, action, amount)
  BY <1>1, <1>6, SameVocabulary DEF Contract!ApplyAction, ApplyAction
<1>8. \A deal : Contract!Close(deal) = Closed(deal)
  BY <1>1 DEF Contract!Close, Closed
<1> QED
  BY <1>6, <1>7, <1>8

\* The contract can move a deal where the table has a transition.
LEMMA SameMoves ==
  \A deal, action :
    Contract!CanMove(deal, action) <=>
      /\ ActionEvents[action] # NoEvent
      /\ TransitionFor(deal.state, ActionEvents[action]) # NoState
BY SameVocabulary DEF Contract!CanMove

\* A committed request is performed, held or refused.
LEMMA CommitIsContractStep ==
  ASSUME TypeOK, HeldAreSeen, NEW q \in RequestId, NEW p \in Proposals,
         NEW content, Known(p.deal), q \notin seen_requests, now' = now,
         CommitRequest(q, p, DecisionOn(p, content))
  PROVE  Contract!Next
<1> DEFINE d == p.deal
           r == links[d]
           decision == DecisionOn(p, content)
           plan == PlanCommitRequest(deals[d], q, p, r, decision)
           ask == [action |-> p.action, amount |-> p.amount]
<1>1. d \in DealId /\ r \in RecordId /\ deals[d] \in Deal
  BY KnownDeal, LedgerAssumption, TypeParts
<1>2. /\ deals' = [deals EXCEPT ![d] = plan.deal]
      /\ approvals' = IF plan.approval = NoApproval THEN approvals
                      ELSE [approvals EXCEPT ![q] = plan.approval]
      /\ seen_requests' = seen_requests \cup {q}
      /\ UNCHANGED <<links, revocations, seen_commands>>
  BY DEF CommitRequest
<1>3. q \notin Spent /\ Spent' = Spent \cup {q}
  BY <1>2, LedgerAssumption DEF Spent, TypeOK, Shaped
<1>4. Withdrawn' = Withdrawn
  BY <1>2, SameWithdrawn
<1>5. approvals[q] = NoApproval
  BY DEF HeldAreSeen
<1>6. decision \in Decision
  BY EvaluateType DEF DecisionOn
<1>7. ASSUME decision.outcome # "deny"
      PROVE  ask \in Asks /\ r \notin Withdrawn
  BY <1>7, DecisionPermits, TypeParts DEF Asks, Withdrawn
<1>8. CASE decision.outcome = "allow" /\ ActionEvents[p.action] # NoEvent
  <2>1. plan.deal = ApplyAction(deals[d], p.action, p.amount)
        /\ plan.approval = NoApproval
    BY <1>8 DEF PlanCommitRequest, PlannedEvent
  <2>2. /\ p.action \in ActionToken
        /\ p.action \in PaymentActions =>
             deals[d].open_disputes = 0 /\ deals[d].open_approvals = 0
        /\ p.action \in NegotiationActions =>
             deals[d].negotiated_rounds < Mandate[r].max_negotiation_rounds
        /\ p.amount # NoAmount =>
             deals[d].committed_minor + p.amount <= Mandate[r].spend_cap
    BY <1>8, DecisionPermits, TypeParts
  <2>3. TransitionFor(deals[d].state, ActionEvents[p.action]) # NoState
    BY <1>8, NeverStale, TypeParts DEF Stale, PlannedEvent
  <2> HIDE DEF plan, decision
  <2>4. Contract!CanMove(deals[d], p.action)
    BY <1>8, <2>3, SameMoves
  <2>5. Contract!WithinLimits(deals[d], Mandate[r], p.action, p.amount)
    BY <2>2, SameVocabulary DEF Contract!WithinLimits
  <2>6. deals' = [deals EXCEPT ![d] =
                    Contract!ApplyAction(deals[d], p.action, p.amount)]
    BY <1>2, <2>1, SameEffects
  <2>7. /\ Contract!Known(d)
        /\ r \notin Withdrawn
        /\ UNCHANGED <<links, approvals>>
    BY <1>2, <1>7, <1>8, <2>1, SameVocabulary DEF Contract!Known, Known
  <2>8. Contract!Perform(q, d, p.action, p.amount)
    BY <1>3, <1>4, <2>4, <2>5, <2>6, <2>7
       DEF Contract!Perform, Spent, Withdrawn
  <2>9. Contract!Perform(q, d, ask.action, ask.amount) /\ ask \in Asks
    BY <1>7, <1>8, <2>8
  <2> QED
    BY <1>1, <2>9 DEF Contract!Next
<1>9. CASE decision.outcome = "needs_approval"
  <2>1. /\ plan.deal = [deals[d] EXCEPT !.open_approvals = @ + 1]
        /\ plan.approval =
             [ status |-> "pending", deal |-> d, record |-> r,
               action |-> p.action, amount |-> p.amount ]
        /\ plan.approval # NoApproval
    BY <1>9 DEF PlanCommitRequest, NoApproval
  <2> HIDE DEF plan, decision
  <2>2. deals' = [deals EXCEPT ![d].open_approvals = @ + 1]
    BY <1>2, <2>1
  <2>3. approvals' = [approvals EXCEPT ![q] =
          [ status |-> "pending", deal |-> d, record |-> r,
            action |-> p.action, amount |-> p.amount ]]
    BY <1>2, <2>1
  <2>4. /\ Contract!Known(d)
        /\ r \notin Withdrawn
        /\ approvals[q] = Contract!NotHeld
        /\ links' = links
    BY <1>2, <1>5, <1>7, <1>9, SameVocabulary DEF Contract!Known, Known
  <2>5. Contract!Hold(q, d, p.action, p.amount)
    BY <1>3, <1>4, <2>2, <2>3, <2>4 DEF Contract!Hold, Spent, Withdrawn
  <2>6. Contract!Hold(q, d, ask.action, ask.amount) /\ ask \in Asks
    BY <1>7, <1>9, <2>5
  <2> QED
    BY <1>1, <2>6 DEF Contract!Next
<1>10. CASE \/ decision.outcome = "deny"
            \/ decision.outcome = "allow" /\ ActionEvents[p.action] = NoEvent
  <2>1. plan.deal = deals[d] /\ plan.approval = NoApproval
    BY <1>10 DEF PlanCommitRequest, PlannedEvent
  <2> HIDE DEF plan, decision
  <2>2. UNCHANGED <<deals, links, approvals>>
    BY <1>1, <1>2, <2>1 DEF TypeOK, Shaped
  <2>3. Contract!Refuse(q)
    BY <1>3, <1>4, <2>2 DEF Contract!Refuse, Spent, Withdrawn
  <2> QED
    BY <2>3 DEF Contract!Next
<1> QED
  BY <1>6, <1>8, <1>9, <1>10 DEF Decision, Outcomes

\* A command counts once: it was not spent before, and is afterwards.
LEMMA CommandIsSpent ==
  ASSUME TypeOK, NEW c \in CommandId, c \notin seen_commands,
         seen_commands' = seen_commands \cup {c}, seen_requests' = seen_requests
  PROVE  c \notin Spent /\ Spent' = Spent \cup {c}
BY LedgerAssumption DEF TypeOK, Shaped, Spent

\* An event the boundary reports is observed, or changes nothing.
LEMMA EventIsContractStep ==
  ASSUME TypeOK, NEW d \in DealId, NEW c \in CommandId, NEW noted \in Notes,
         NEW event \in BoundaryEvents[d], BoundaryEvent(d, c, event, noted)
  PROVE  Contract!Next \/ UNCHANGED Contract!vars
<1> DEFINE moved == ApplyEvent(deals[d], event,
                               TransitionFor(deals[d].state, event), NoAmount)
<1>1. now' = now
  BY DEF BoundaryEvent, CommitTransition
<1>2. CASE UNCHANGED store
  BY <1>1, <1>2, Unseen
<1>3. CASE TransitionResult(d, c, event) = "committed"
  <2>1. /\ event \in DealEvent
        /\ c \notin seen_commands
        /\ TransitionFor(deals[d].state, event) # NoState
    BY <1>3, LedgerAssumption DEF TransitionResult
  <2>2. /\ Known(d)
        /\ deals' = [deals EXCEPT ![d] = moved]
        /\ seen_commands' = seen_commands \cup {c}
        /\ UNCHANGED <<links, revocations, approvals, seen_requests, now>>
    BY <1>3 DEF BoundaryEvent, CommitTransition, PlanCommitTransition
  <2>3. c \notin Spent /\ Spent' = Spent \cup {c}
    BY <2>1, <2>2, CommandIsSpent
  <2>4. Withdrawn' = Withdrawn
    BY <2>2, SameWithdrawn
  <2>5. /\ Contract!Known(d)
        /\ Contract!TransitionFor(deals[d].state, event) # Contract!NoState
        /\ deals' = [deals EXCEPT ![d] =
             Contract!ApplyEvent(deals[d], event,
               Contract!TransitionFor(deals[d].state, event),
               Contract!NoAmount)]
    BY <2>1, <2>2, SameVocabulary, SameEffects DEF Contract!Known, Known
  <2>6. Contract!Observe(d, c, event)
    BY <2>2, <2>3, <2>4, <2>5 DEF Contract!Observe, Spent, Withdrawn
  <2> QED
    BY <2>1, <2>6, SameVocabulary DEF Contract!Next
<1> QED
  BY <1>2, <1>3 DEF BoundaryEvent, CommitTransition

\* A person's answer is a grant or a dismissal, or changes nothing.
LEMMA AnswerIsContractStep ==
  ASSUME TypeOK, NEW q \in RequestId, NEW c \in CommandId,
         NEW operation \in {"granted", "denied"},
         DecideApproval(q, c, operation)
  PROVE  Contract!Next \/ UNCHANGED Contract!vars
<1> DEFINE a == approvals[q]
           deal == deals[a.deal]
           plan == PlanCommitApproval(deal, q, a, operation, Current(a.record))
<1>1. now' = now
  BY DEF DecideApproval, CommitApproval
<1>2. CASE UNCHANGED store
  BY <1>1, <1>2, Unseen
<1>3. CASE Decidable(q, c)
  <2>1. a \in Approval /\ a.record \in RecordId
    BY HeldRow DEF DecideApproval
  <2>2. /\ deals' = [deals EXCEPT ![a.deal] = plan.deal]
        /\ approvals' = [approvals EXCEPT ![q] = plan.approval]
        /\ seen_commands' = seen_commands \cup {c}
        /\ UNCHANGED <<links, revocations, seen_requests, now>>
    BY <1>3 DEF DecideApproval, CommitApproval
  <2>3. Contract!Pending(q) /\ c \notin seen_commands
    BY <1>3 DEF Decidable, Pending, Contract!Pending
  <2>4. c \notin Spent /\ Spent' = Spent \cup {c}
    BY <2>2, <2>3, CommandIsSpent
  <2>5. Withdrawn' = Withdrawn
    BY <2>2, SameWithdrawn
  <2>6. CASE operation = "granted" /\ ~ ForcedDeny(deal, a, Current(a.record))
    <3>1. /\ a.record \notin Withdrawn
          /\ Contract!CanMove(deal, a.action)
      BY <2>6, SameMoves DEF ForcedDeny, Stale, Current, Withdrawn
    <3>2. /\ plan.deal = Closed(ApplyAction(deal, a.action, a.amount))
          /\ plan.approval = [a EXCEPT !.status = "granted"]
      BY <2>6 DEF PlanCommitApproval
    <3>3. /\ deals' = [deals EXCEPT ![a.deal] =
               Contract!Close(Contract!ApplyAction(deal, a.action, a.amount))]
          /\ approvals' = [approvals EXCEPT ![q].status = "granted"]
      BY <2>2, <3>2, SameEffects
    <3>4. Contract!Grant(q, c)
      BY <2>2, <2>3, <2>4, <2>5, <3>1, <3>3
         DEF Contract!Grant, Spent, Withdrawn
    <3> QED
      BY <3>4 DEF Contract!Next
  <2>7. CASE ~ (operation = "granted" /\ ~ ForcedDeny(deal, a, Current(a.record)))
    <3>1. /\ plan.deal = Closed(deal)
          /\ plan.approval = [a EXCEPT !.status = "denied"]
      BY <2>7 DEF PlanCommitApproval
    <3>2. /\ deals' = [deals EXCEPT ![a.deal] = Contract!Close(deal)]
          /\ approvals' = [approvals EXCEPT ![q].status = "denied"]
      BY <2>2, <3>1, SameEffects
    <3>3. Contract!Dismiss(q, c)
      BY <2>2, <2>3, <2>4, <2>5, <3>2 DEF Contract!Dismiss, Spent, Withdrawn
    <3> QED
      BY <3>3 DEF Contract!Next
  <2> QED
    BY <2>6, <2>7
<1> QED
  BY <1>2, <1>3 DEF DecideApproval, CommitApproval

\* A revocation puts its record, and no other, out of force.
LEMMA RevocationIsContractStep ==
  ASSUME TypeOK, NEW d \in DealId, NEW c \in CommandId, Revoke(d, c)
  PROVE  Contract!Next \/ UNCHANGED Contract!vars
<1>1. PICK r \in RecordId : r = links[d]
  BY DEF Revoke, TypeOK, Shaped
<1>2. CASE UNCHANGED store
  BY <1>2, Unseen DEF Revoke, CommitRevocation
<1>3. CASE RevocationResult(r, c) = "committed"
  <2>1. /\ revocations' = revocations \cup {[record |-> r, revoked_at |-> now]}
        /\ seen_commands' = seen_commands \cup {c}
        /\ UNCHANGED <<deals, links, approvals, seen_requests, now>>
    BY <1>1, <1>3 DEF Revoke, CommitRevocation
  <2>2. c \notin seen_commands
    BY <1>3 DEF RevocationResult
  <2>3. c \notin Spent /\ Spent' = Spent \cup {c}
    BY <2>1, <2>2, CommandIsSpent
  <2>4. Status(r)' # "active"
    <3> DEFINE v == [record |-> r, revoked_at |-> now]
    <3>1. v.record = r /\ v.revoked_at <= now'
      BY <2>1, LedgerAssumption DEF TypeOK, Shaped
    <3>2. v \in revocations'
      BY <2>1
    <3>3. Revoked(r)'
      BY <3>1, <3>2 DEF Revoked
    <3> QED
      BY <3>3 DEF Status, ResolveStatus
  <2>5. ASSUME NEW x \in RecordId, x # r
        PROVE  Status(x)' = Status(x)
    <3>1. Revoked(x)' <=> Revoked(x)
      BY <2>1, <2>5 DEF Revoked
    <3> QED
      BY <2>1, <3>1 DEF Status, ResolveStatus
  <2>6. Withdrawn' = Withdrawn \cup {r}
    BY <1>1, <2>4, <2>5 DEF Withdrawn
  <2>7. Contract!Revoke(r, c)
    BY <2>1, <2>3, <2>6 DEF Contract!Revoke, Spent, Withdrawn
  <2> QED
    BY <1>1, <2>7 DEF Contract!Next
<1> QED
  BY <1>1, <1>2, <1>3 DEF Revoke, CommitRevocation

\* Time only takes records out of force.
LEMMA TimeIsContractStep ==
  ASSUME TypeOK, Tick
  PROVE  Contract!Next
<1>1. now \in Nat /\ now' = now + 1 /\ UNCHANGED store
  BY LedgerAssumption DEF Tick, TypeOK, Shaped
<1>2. ASSUME NEW r \in RecordId, Status(r) # "active"
      PROVE  Status(r)' # "active"
  <2>1. Mandate[r].expires_at \in Nat
    BY LedgerAssumption
  <2>2. Revoked(r) => Revoked(r)'
    <3>1. revocations' = revocations
      BY <1>1 DEF store
    <3>2. \A v \in revocations : v.revoked_at \in Nat
      BY LedgerAssumption DEF TypeOK, Shaped, Revocation
    <3> QED
      BY <1>1, <3>1, <3>2 DEF Revoked
  <2> QED
    BY <1>1, <1>2, <2>1, <2>2 DEF Status, ResolveStatus
<1> DEFINE R == Withdrawn'
<1>3. R \in SUBSET RecordId /\ Withdrawn' = Withdrawn \cup R
  BY <1>2 DEF Withdrawn
<1> HIDE DEF R
<1>4. Contract!Lapse(R)
  BY <1>1, <1>3 DEF Contract!Lapse, store, Withdrawn
<1> QED
  BY <1>3, <1>4 DEF Contract!Next

\* Every operation of the ledger is one step of the contract, or none.
LEMMA ContractStep ==
  TypeOK /\ HeldAreSeen /\ [Next]_vars => [Contract!Next]_(Contract!vars)
<1> SUFFICES ASSUME TypeOK, HeldAreSeen, [Next]_vars
             PROVE  Contract!Next \/ UNCHANGED Contract!vars
  OBVIOUS
<1>1. ASSUME NEW d \in DealId, NEW r \in RecordId, RegisterDeal(d, r)
      PROVE  Contract!Next
  <2>1. /\ ~ Contract!Known(d)
        /\ deals' = [deals EXCEPT ![d] = Contract!DraftDeal]
        /\ links' = [links EXCEPT ![d] = r]
        /\ UNCHANGED <<approvals, revocations, seen_requests, seen_commands,
                       now>>
    BY <1>1, SameVocabulary DEF RegisterDeal, Contract!Known, Known
  <2>2. Withdrawn' = Withdrawn
    BY <2>1, SameWithdrawn
  <2>3. Contract!Register(d, r)
    BY <2>1, <2>2 DEF Contract!Register, Withdrawn
  <2> QED
    BY <2>3 DEF Contract!Next
<1>2. ASSUME NEW q \in RequestId, NEW p \in Proposals, NEW content,
             Propose(q, p, content)
      PROVE  Contract!Next \/ UNCHANGED Contract!vars
  BY <1>2, ProposalStep, TypeParts, CommitIsContractStep, Unseen
<1>3. ASSUME NEW d \in DealId, NEW c \in CommandId, NEW noted \in Notes,
             NEW event \in BoundaryEvents[d], BoundaryEvent(d, c, event, noted)
      PROVE  Contract!Next \/ UNCHANGED Contract!vars
  BY <1>3, EventIsContractStep
<1>4. ASSUME NEW q \in RequestId, NEW c \in CommandId,
             NEW operation \in {"granted", "denied"},
             DecideApproval(q, c, operation)
      PROVE  Contract!Next \/ UNCHANGED Contract!vars
  BY <1>4, AnswerIsContractStep
<1>5. ASSUME NEW d \in DealId, NEW c \in CommandId, Revoke(d, c)
      PROVE  Contract!Next \/ UNCHANGED Contract!vars
  BY <1>5, RevocationIsContractStep
<1>6. CASE Tick
  BY <1>6, TimeIsContractStep
<1>7. CASE UNCHANGED vars
  BY <1>7, Unseen DEF vars
<1> QED
  BY <1>1, <1>2, <1>3, <1>4, <1>5, <1>6, <1>7 DEF Next

\* The ledger starts as the contract does.
LEMMA ContractInit == Init => Contract!Init
<1> SUFFICES ASSUME Init PROVE Contract!Init
  OBVIOUS
<1>1. /\ deals = [d \in DealId |-> Contract!UnknownDeal]
      /\ links = [d \in DealId |-> NoRecord]
      /\ approvals = [q \in RequestId |-> Contract!NotHeld]
  BY SameVocabulary DEF Init
<1>2. Withdrawn \in SUBSET RecordId
  BY DEF Withdrawn
<1>3. seen_requests \cup seen_commands = {}
  BY DEF Init
<1> QED
  BY <1>1, <1>2, <1>3 DEF Contract!Init, Withdrawn

\* The ledger implements the contract: each of its operations, with the gate,
\* the engine, the chain and the clock hidden, does what the contract lets the
\* agent, a person, the boundary or time do, and nothing else.
THEOREM LedgerImplementsContract == Spec => ImplementsContract
<1>1. Spec => []TypeOK /\ []HeldAreSeen
  BY LedgerTypeCorrect, HeldAreSeenHolds, PTL
<1> QED
  BY <1>1, ContractInit, ContractStep, PTL
     DEF Spec, ImplementsContract, Contract!Spec

-----------------------------------------------------------------------------
(* What the contract's theorems say of the ledger.                         *)

\* The contract with its theorems, under the same mapping.
Proved == INSTANCE MandateContractProofs WITH
  withdrawn <- {r \in RecordId : Status(r) # "active"},
  spent <- seen_requests \cup seen_commands

\* The two instances are one specification: their definitions expand to the
\* same formulas.
LEMMA OneContract == Contract!Spec => Proved!Spec
<1>1. Contract!Init => Proved!Init
  BY DEF Contract!Init, Proved!Init, Contract!UnknownDeal, Proved!UnknownDeal,
       Contract!DraftDeal, Proved!DraftDeal, Contract!NoState, Proved!NoState,
       Contract!NotHeld, Proved!NotHeld
<1>2. Contract!Next => Proved!Next
  BY DEF Contract!Next, Proved!Next, Contract!Register, Proved!Register,
       Contract!Perform, Proved!Perform, Contract!Hold, Proved!Hold,
       Contract!Refuse, Proved!Refuse, Contract!Grant, Proved!Grant,
       Contract!Dismiss, Proved!Dismiss, Contract!Observe, Proved!Observe,
       Contract!Revoke, Proved!Revoke, Contract!Lapse, Proved!Lapse,
       Contract!Known, Proved!Known, Contract!CanMove, Proved!CanMove,
       Contract!WithinLimits, Proved!WithinLimits, Contract!Pending,
       Proved!Pending, Contract!TransitionFor, Proved!TransitionFor,
       Contract!ApplyAction, Proved!ApplyAction, Contract!ApplyEvent,
       Proved!ApplyEvent, Contract!RoundsAfter, Proved!RoundsAfter,
       Contract!CommittedAfter, Proved!CommittedAfter, Contract!DisputesAfter,
       Proved!DisputesAfter, Contract!Decrement, Proved!Decrement,
       Contract!Minor, Proved!Minor, Contract!Close, Proved!Close,
       Contract!NoState, Proved!NoState, Contract!NoEvent, Proved!NoEvent,
       Contract!NoAmount, Proved!NoAmount, Contract!NotHeld,
       Proved!NotHeld, Contract!DealEvent, Proved!DealEvent,
       Contract!ActionEvents, Proved!ActionEvents,
       Contract!NegotiationActions, Proved!NegotiationActions,
       Contract!PaymentActions, Proved!PaymentActions, Contract!DraftDeal,
       Proved!DraftDeal, Contract!UnknownDeal, Proved!UnknownDeal,
       Contract!Sources, Proved!Sources, Contract!Target, Proved!Target
<1>3. [Contract!Next]_(Contract!vars) => [Proved!Next]_(Proved!vars)
  BY <1>2 DEF Contract!vars, Proved!vars
<1> QED
  BY <1>1, <1>3, PTL DEF Contract!Spec, Proved!Spec

\* The ledger's constants satisfy what the contract assumes of its own.
LEMMA AssumptionsMet == Proved!ContractAssumption
<1>1. Asks \subseteq [action : Proved!ActionToken, amount : Proved!Amount]
  BY LedgerAssumption DEF Asks, ActionToken, Proved!ActionToken, Amount,
     NoAmount, Proved!Amount, Proved!NoAmount
<1>2. Proved!IsFiniteSet(RequestId)
  BY LedgerAssumption DEF IsFiniteSet, Proved!IsFiniteSet
<1> QED
  BY <1>1, <1>2, LedgerAssumption DEF Proved!ContractAssumption

\* The contract's theorems hold of the ledger, although it counts, blocks and
\* commits through the gate, the engine and the plans: the approvals counted
\* open are those a person has still to decide, a dispute is counted exactly
\* while the deal is disputed, only a person's grant takes a deal past its
\* cap, no money is committed before an agreement, and what is paid is what
\* was accepted.
THEOREM ContractHoldsOfLedger ==
  Spec => /\ []Contract!OpenApprovalsCounted
          /\ []Contract!DisputeIsAState
          /\ []Contract!OverCapNeedsOverride
          /\ []Contract!NothingCommittedEarly
          /\ Contract!PaidAsAccepted
<1>1. Spec => Proved!Spec
  BY LedgerImplementsContract, OneContract, PTL DEF ImplementsContract
<1>2. Proved!Spec => /\ []Proved!OpenApprovalsCounted
                     /\ []Proved!DisputeIsAState
                     /\ []Proved!OverCapNeedsOverride
                     /\ []Proved!NothingCommittedEarly
                     /\ Proved!PaidAsAccepted
  BY AssumptionsMet, Proved!OpenApprovalsCountedHolds,
     Proved!DisputeIsAStateHolds, Proved!OverCapNeedsOverrideHolds,
     Proved!NothingCommittedEarlyHolds, Proved!PaidAsAcceptedHolds
<1>3. Proved!OpenApprovalsCounted => Contract!OpenApprovalsCounted
  BY DEF Contract!OpenApprovalsCounted, Proved!OpenApprovalsCounted,
       Contract!PendingFor, Proved!PendingFor, Contract!Pending,
       Proved!Pending, Contract!Cardinality, Proved!Cardinality
<1>4. Proved!DisputeIsAState => Contract!DisputeIsAState
  BY DEF Contract!DisputeIsAState, Proved!DisputeIsAState
<1>5. Proved!OverCapNeedsOverride => Contract!OverCapNeedsOverride
  BY DEF Contract!OverCapNeedsOverride, Proved!OverCapNeedsOverride,
       Contract!Known, Proved!Known, Contract!NoState, Proved!NoState,
       Contract!NoAmount, Proved!NoAmount
<1>6. Proved!NothingCommittedEarly => Contract!NothingCommittedEarly
  BY DEF Contract!NothingCommittedEarly, Proved!NothingCommittedEarly,
       Contract!BeforeAgreement, Proved!BeforeAgreement, Contract!NoState,
       Proved!NoState
<1>7. Proved!PaidAsAccepted => Contract!PaidAsAccepted
  BY DEF Contract!PaidAsAccepted, Proved!PaidAsAccepted, Contract!Settled,
       Proved!Settled, Contract!vars, Proved!vars
<1> QED
  BY <1>1, <1>2, <1>3, <1>4, <1>5, <1>6, <1>7, PTL
-----------------------------------------------------------------------------
(* The chains: what an operation appends, and what every chain then shows  *)
(* of permissions, approvals, payments and effects.                        *)

-----------------------------------------------------------------------------
(* What a step of the ledger does to a chain.                              *)

\* A held request belongs to a registered deal and to the record that deal
\* is linked to.
HeldAreLinked ==
  \A q \in RequestId : approvals[q] # NoApproval =>
    Known(approvals[q].deal) /\ approvals[q].record = links[approvals[q].deal]

\* Nothing is written about a deal that is not registered.
UnknownAreEmpty == \A d \in DealId : ~ Known(d) => events[d] = <<>>

\* The chain of d gains k entries, New(d, 1) to New(d, k); no other chain
\* changes.
Grown(d, k) ==
  /\ events[d] \in Seq(Entry)
  /\ events'[d] \in Seq(Entry)
  /\ Len(events'[d]) = Len(events[d]) + k
  /\ \A i \in 1..Len(events[d]) : events'[d][i] = events[d][i]
  /\ \A x \in DealId : x # d => events'[x] = events[x]
New(d, j) == events'[d][Len(events[d]) + j]

\* Only the row of deal d changes.
OnlyRow(d, row) ==
  deals'[d] = row /\ \A x \in DealId : x # d => deals'[x] = deals[x]

\* A request passes the gate: it and its key were not used before, they are
\* from now on, and its decision is entry `at' of what the chain gains.
Decides(q, p, decision, at) ==
  /\ q \in RequestId /\ p \in Proposals /\ at \in {1, 2}
  /\ p.deal \in DealId /\ Known(p.deal)
  /\ q \notin seen_requests /\ seen_requests' = seen_requests \cup {q}
  /\ decisions[p.key] = NoDecision
  /\ decisions' = [decisions EXCEPT ![p.key] =
                     [proposal |-> p, decision |-> decision]]
  /\ answer' = ToldDecision("decided", p.key, decision)
  /\ UNCHANGED <<links, revocations, seen_commands, now>>
  /\ at = 2 => New(p.deal, 1) = MessageEntry(q)
  /\ New(p.deal, at) = DecisionEntry(q, p, decision)

\* The three ways it can go on.
Performs(q, p, decision, at) ==
  LET event == ActionEvents[p.action]
      d == p.deal
  IN  /\ Decides(q, p, decision, at)
      /\ decision.outcome = "allow" /\ event # NoEvent
      /\ event \in DealEvent /\ TransitionFor(deals[d].state, event) # NoState
      /\ Grown(d, at + 1)
      /\ OnlyRow(d, ApplyEvent(deals[d], event,
                               TransitionFor(deals[d].state, event), p.amount))
      /\ New(d, at + 1) =
           TransitionEntry(q, event, deals[d], deals'[d], p.amount)
      /\ approvals' = approvals
Holds(q, p, decision, at) ==
  LET d == p.deal IN
  /\ Decides(q, p, decision, at)
  /\ decision.outcome = "needs_approval"
  /\ Grown(d, at + 1)
  /\ OnlyRow(d, [deals[d] EXCEPT !.open_approvals = @ + 1])
  /\ New(d, at + 1) = ApprovalEntry("required", q, p.action, p.amount)
  /\ approvals' = [approvals EXCEPT ![q] =
       [ status |-> "pending", deal |-> d, record |-> links[d],
         action |-> p.action, amount |-> p.amount ]]
Records(q, p, decision, at) ==
  /\ Decides(q, p, decision, at)
  /\ decision.outcome = "deny" \/ ActionEvents[p.action] = NoEvent
  /\ decision.outcome # "needs_approval"
  /\ Grown(p.deal, at)
  /\ UNCHANGED <<deals, approvals>>
Commits(q, p, decision, at) ==
  \/ Performs(q, p, decision, at)
  \/ Holds(q, p, decision, at)
  \/ Records(q, p, decision, at)

\* A command that was not used before is used up.
Spends(c) ==
  /\ c \in CommandId /\ c \notin seen_commands
  /\ seen_commands' = seen_commands \cup {c}
  /\ UNCHANGED <<links, seen_requests, decisions, now>>
  /\ answer'.result = "committed"

\* The boundary reports an event, with a note (k = 2) or without.
Reports(d, c, event, k) ==
  /\ Spends(c)
  /\ d \in DealId /\ Known(d) /\ k \in {1, 2}
  /\ event \in DealEvent /\ TransitionFor(deals[d].state, event) # NoState
  /\ Grown(d, k)
  /\ k = 2 => New(d, 1) = MessageEntry(c)
  /\ New(d, k) = TransitionEntry(c, event, deals[d], deals'[d], NoAmount)
  /\ OnlyRow(d, ApplyEvent(deals[d], event,
                           TransitionFor(deals[d].state, event), NoAmount))
  /\ UNCHANGED <<approvals, revocations>>

\* A person grants a request that is held, or it ends without effect.
Grants(q, c) ==
  LET a == approvals[q]
      d == a.deal
      event == ActionEvents[a.action]
      moved == ApplyEvent(deals[d], event,
                          TransitionFor(deals[d].state, event), a.amount)
  IN  /\ Spends(c)
      /\ q \in RequestId /\ a \in Approval /\ a.status = "pending"
      /\ event \in DealEvent /\ TransitionFor(deals[d].state, event) # NoState
      /\ Current(a.record)
      /\ Grown(d, 2)
      /\ New(d, 1) = ApprovalEntry("granted", q, a.action, a.amount)
      /\ New(d, 2) = TransitionEntry(q, event, deals[d], moved, a.amount)
      /\ OnlyRow(d, Closed(moved))
      /\ approvals' = [approvals EXCEPT ![q] = [a EXCEPT !.status = "granted"]]
      /\ UNCHANGED revocations
Dismisses(q, c) ==
  LET a == approvals[q]
      d == a.deal
  IN  /\ Spends(c)
      /\ q \in RequestId /\ a \in Approval /\ a.status = "pending"
      /\ Grown(d, 1)
      /\ New(d, 1) = ApprovalEntry("denied", q, a.action, a.amount)
      /\ OnlyRow(d, Closed(deals[d]))
      /\ approvals' = [approvals EXCEPT ![q] = [a EXCEPT !.status = "denied"]]
      /\ UNCHANGED revocations

\* A revocation is put on the chain of a deal.
Withdraws(d, c) ==
  /\ Spends(c)
  /\ d \in DealId /\ Known(d)
  /\ \E v \in Revocation :
       Grown(d, 1) /\ New(d, 1) = RevocationEntry(v)
  /\ UNCHANGED <<deals, approvals>>

\* No chain changes: a deal is registered, an answer repeated or refused, or
\* time passes.
Still ==
  /\ UNCHANGED <<events, approvals, decisions, seen_requests, seen_commands>>
  /\ \A d \in DealId : Known(d) =>
       deals'[d] = deals[d] /\ links'[d] = links[d]
  /\ \A d \in DealId : ~ Known(d) => deals'[d] \in {deals[d], DraftDeal}

\* A sequence added to a chain.
LEMMA Grows ==
  ASSUME Shaped, Shaped', NEW d \in DealId, NEW tail \in Seq(Entry),
         events' = [events EXCEPT ![d] = @ \o tail]
  PROVE  /\ Grown(d, Len(tail))
         /\ \A j \in 1..Len(tail) : New(d, j) = tail[j]
<1>1. events \in [DealId -> Seq(Entry)] /\ events' \in [DealId -> Seq(Entry)]
  BY DEF Shaped
<1>2. events'[d] = events[d] \o tail
  BY <1>1
<1>3. /\ Len(events[d] \o tail) = Len(events[d]) + Len(tail)
      /\ \A i \in 1..Len(events[d]) : (events[d] \o tail)[i] = events[d][i]
      /\ \A j \in 1..Len(tail) :
           (events[d] \o tail)[Len(events[d]) + j] = tail[j]
  BY <1>1, ConcatProperties
<1> QED
  BY <1>1, <1>2, <1>3 DEF Grown, New

\* A request that has passed the gate is committed with a decision.
Committed(q, p, decision) ==
  /\ Known(p.deal)
  /\ q \notin seen_requests /\ decisions[p.key] = NoDecision
  /\ Committable(p, decision)
  /\ CommitRequest(q, p, decision)
  /\ answer' = ToldDecision("decided", p.key, decision)
  /\ now' = now

\* A request that is committed is performed, held, or only recorded.
LEMMA RequestStep ==
  ASSUME Shaped, Shaped', NEW q \in RequestId, NEW p \in Proposals,
         NEW decision, Linked(p.deal), Committed(q, p, decision)
  PROVE  \E at \in {1, 2} : Commits(q, p, decision, at)
<1> DEFINE d == p.deal
           r == links[d]
           event == PlannedEvent(p, decision)
           plan == PlanCommitRequest(deals[d], q, p, r, decision)
<1>1. d \in DealId /\ p.key \in Key /\ p.amount \in Amount
  BY LedgerAssumption
<1>2. /\ Known(d)
      /\ now' = now
      /\ CommitRequest(q, p, decision)
      /\ q \notin seen_requests
      /\ decisions[p.key] = NoDecision
      /\ answer' = ToldDecision("decided", p.key, decision)
  BY DEF Committed
<1>3. deals[d] \in Deal /\ r \in RecordId
  BY <1>1, <1>2, KnownDeal
<1>4. decision \in Decision
  BY DEF Committed, Committable
<1>5. /\ decision.outcome # "deny" => p.action \in ActionToken
      /\ ~ Stale(deals[d], event)
  BY DEF Committed, Committable
<1>6. plan.events \in Seq(Entry)
  BY <1>3, <1>4, <1>5, PlannedEvents
<1>7. PICK at \in {1, 2} :
        RequestEntries(plan.events, q, p, decision, event, plan.deal, deals[d],
                       at)
  BY PlanEntries
<1>8. /\ deals' = [deals EXCEPT ![d] = plan.deal]
      /\ events' = [events EXCEPT ![d] = @ \o plan.events]
      /\ approvals' = IF plan.approval = NoApproval THEN approvals
                      ELSE [approvals EXCEPT ![q] = plan.approval]
      /\ seen_requests' = seen_requests \cup {q}
      /\ decisions' = [decisions EXCEPT ![p.key] =
                         [proposal |-> p, decision |-> decision]]
      /\ UNCHANGED <<links, revocations, seen_commands, now>>
  BY <1>2 DEF CommitRequest
<1>9. OnlyRow(d, plan.deal)
  BY <1>1, <1>8 DEF OnlyRow, Shaped
<1>10. /\ Grown(d, Len(plan.events))
       /\ \A j \in 1..Len(plan.events) : New(d, j) = plan.events[j]
  <2> HIDE DEF plan
  <2> QED
    BY <1>1, <1>6, <1>8, Grows
<1>11. /\ event # NoEvent => /\ decision.outcome = "allow"
                             /\ event = ActionEvents[p.action]
                             /\ plan.approval = NoApproval
                             /\ plan.deal = ApplyAction(deals[d], p.action,
                                                        p.amount)
       /\ event = NoEvent /\ decision.outcome # "needs_approval" =>
            plan.deal = deals[d] /\ plan.approval = NoApproval
       /\ decision.outcome = "needs_approval" =>
            /\ event = NoEvent
            /\ plan.deal = [deals[d] EXCEPT !.open_approvals = @ + 1]
            /\ plan.approval = [ status |-> "pending", deal |-> d,
                                 record |-> r, action |-> p.action,
                                 amount |-> p.amount ]
  BY DEF PlanCommitRequest, PlannedEvent
<1> HIDE DEF plan, event
<1>12. Len(plan.events) \in {at, at + 1}
  BY <1>7, <1>11 DEF RequestEntries
<1>13. Decides(q, p, decision, at)
  <2>1. New(d, at) = DecisionEntry(q, p, decision)
    BY <1>7, <1>10, <1>12 DEF RequestEntries
  <2>2. at = 2 => New(d, 1) = MessageEntry(q)
    BY <1>7, <1>10, <1>12 DEF RequestEntries
  <2> QED
    BY <1>1, <1>2, <1>8, <2>1, <2>2 DEF Decides
<1>14. CASE event # NoEvent
  <2>1. p.action \in ActionToken /\ event \in DealEvent
    BY <1>5, <1>11, <1>14, ActionEventsType
  <2>0. TransitionFor(deals[d].state, event) # NoState
    BY <1>5, <1>14 DEF Stale
  <2>2. plan.deal = ApplyEvent(deals[d], event,
                               TransitionFor(deals[d].state, event), p.amount)
    BY <1>1, <1>3, <1>11, <1>14, <2>1, <2>0, ActionIsEvent,
       TransitionForType, DealRowTypes
  <2>3. Len(plan.events) = at + 1 /\ New(d, at + 1) =
          TransitionEntry(q, event, deals[d], plan.deal, p.amount)
    BY <1>7, <1>10, <1>12, <1>14 DEF RequestEntries
  <2> QED
    BY <1>8, <1>9, <1>10, <1>11, <1>13, <1>14, <2>0, <2>1, <2>2, <2>3
       DEF Commits, Performs, OnlyRow
<1>15. CASE decision.outcome = "needs_approval"
  <2>1. Len(plan.events) = at + 1 /\ New(d, at + 1) =
          ApprovalEntry("required", q, p.action, p.amount)
    BY <1>7, <1>10, <1>12, <1>15 DEF RequestEntries
  <2>2. plan.approval # NoApproval
    BY <1>11, <1>15 DEF NoApproval
  <2> QED
    BY <1>8, <1>9, <1>10, <1>11, <1>13, <1>15, <2>1, <2>2
       DEF Commits, Holds
<1>16. CASE event = NoEvent /\ decision.outcome # "needs_approval"
  <2>1. Len(plan.events) = at
    BY <1>7, <1>16 DEF RequestEntries
  <2>2. decision.outcome = "deny" \/ ActionEvents[p.action] = NoEvent
    BY <1>4, <1>16 DEF PlannedEvent, event, Decision, Outcomes
  <2>3. deals' = deals
    BY <1>1, <1>8, <1>11, <1>16 DEF Shaped
  <2> QED
    BY <1>8, <1>10, <1>11, <1>13, <1>16, <2>1, <2>2, <2>3
       DEF Commits, Records
<1> QED
  BY <1>14, <1>15, <1>16

\* An event of the boundary or of a peer.
LEMMA EventStep ==
  ASSUME Shaped, Shaped', NEW d \in DealId, NEW c \in CommandId, NEW noted,
         NEW event \in DealEvent, CommitTransition(d, c, event, noted),
         ~ UNCHANGED store
  PROVE  \E k \in {1, 2} : Reports(d, c, event, k)
<1> DEFINE moved == ApplyEvent(deals[d], event,
                               TransitionFor(deals[d].state, event), NoAmount)
           M == MessageEntry(c)
           T == TransitionEntry(c, event, deals[d], moved, NoAmount)
           tail == (IF noted THEN <<M>> ELSE <<>>) \o <<T>>
           plan == PlanCommitTransition(deals[d], c, event, noted)
<1>1. TransitionResult(d, c, event) = "committed"
  BY DEF CommitTransition
<1>3. c \notin seen_commands /\ TransitionFor(deals[d].state, event) # NoState
  BY <1>1 DEF TransitionResult
<1>4. plan.deal = moved /\ plan.events = tail
  BY DEF PlanCommitTransition
<1>5. tail \in Seq(Entry)
  <2>1. deals[d] \in DealRow
    BY DEF Shaped
  <2>2. plan.events \in Seq(Entry)
    BY <1>3, <2>1, ObservedPlan
  <2> QED
    BY <1>4, <2>2
<1>6. /\ Known(d)
      /\ answer' = Told("committed")
      /\ deals' = [deals EXCEPT ![d] = moved]
      /\ events' = [events EXCEPT ![d] = @ \o tail]
      /\ seen_commands' = seen_commands \cup {c}
      /\ UNCHANGED <<links, revocations, approvals, seen_requests, decisions,
                     now>>
  BY <1>1, <1>4 DEF CommitTransition
<1>7. PICK k \in {1, 2} : /\ Len(tail) = k
                          /\ tail[k] = T
                          /\ k = 2 => tail[1] = M
  <2> HIDE DEF M, T
  <2>1. CASE noted
    BY <2>1
  <2>2. CASE ~ noted
    BY <2>2
  <2> QED
    BY <2>1, <2>2
<1> HIDE DEF plan, moved, M, T, tail
<1>8. Grown(d, k) /\ \A j \in 1..k : New(d, j) = tail[j]
  BY <1>5, <1>6, <1>7, Grows
<1>9. OnlyRow(d, moved)
  BY <1>6 DEF OnlyRow, Shaped
<1>10. Spends(c)
  BY <1>3, <1>6 DEF Spends, Told
<1> QED
  BY <1>3, <1>6, <1>7, <1>8, <1>9, <1>10
     DEF Reports, OnlyRow, M, T, moved

\* A person's answer.
LEMMA AnswerStep ==
  ASSUME TypeOK, TypeOK', NEW q \in RequestId, NEW c \in CommandId,
         NEW operation \in {"granted", "denied"},
         DecideApproval(q, c, operation), ~ UNCHANGED store
  PROVE  Grants(q, c) \/ Dismisses(q, c)
<1> DEFINE a == approvals[q]
           d == a.deal
           event == ActionEvents[a.action]
           moved == ApplyEvent(deals[d], event,
                               TransitionFor(deals[d].state, event), a.amount)
           plan == PlanCommitApproval(deals[d], q, a, operation,
                                      Current(a.record))
           G == ApprovalEntry("granted", q, a.action, a.amount)
           N == ApprovalEntry("denied", q, a.action, a.amount)
           T == TransitionEntry(q, event, deals[d], moved, a.amount)
<1>1. Decidable(q, c)
  BY DEF DecideApproval, CommitApproval
<1>2. /\ a \in Approval /\ d \in DealId
      /\ a.action \in ActionToken /\ a.amount \in Amount
  BY HeldRow DEF DecideApproval
<1>3. a.status = "pending" /\ c \notin seen_commands
  BY <1>1 DEF Decidable, Pending
<1>4. /\ answer' = Told("committed")
      /\ deals' = [deals EXCEPT ![d] = plan.deal]
      /\ events' = [events EXCEPT ![d] = @ \o plan.events]
      /\ approvals' = [approvals EXCEPT ![q] = plan.approval]
      /\ seen_commands' = seen_commands \cup {c}
      /\ UNCHANGED <<links, revocations, seen_requests, decisions, now>>
  BY <1>1 DEF DecideApproval, CommitApproval
<1>5. deals[d] \in DealRow /\ events[d] \in Seq(Entry)
  BY <1>2 DEF TypeOK, Shaped
<1>6. Spends(c)
  BY <1>3, <1>4 DEF Spends, Told
<1>7. plan.events \in Seq(Entry)
  BY <1>2, <1>5, AnsweredPlan DEF Current
<1>8. OnlyRow(d, plan.deal)
  BY <1>2, <1>4 DEF OnlyRow, TypeOK, Shaped
<1>9. /\ Grown(d, Len(plan.events))
      /\ \A j \in 1..Len(plan.events) : New(d, j) = plan.events[j]
  <2> HIDE DEF plan
  <2> QED
    BY <1>2, <1>4, <1>7, Grows DEF TypeOK
<1>10. CASE operation = "granted" /\ ~ ForcedDeny(deals[d], a, Current(a.record))
  <2>1. /\ Current(a.record)
        /\ event # NoEvent
        /\ TransitionFor(deals[d].state, event) # NoState
    BY <1>10 DEF ForcedDeny, Stale
  <2>2. event \in DealEvent /\ ApplyAction(deals[d], a.action, a.amount) = moved
    BY <1>2, <1>5, <2>1, ActionIsEvent, TransitionForType
  <2>3. /\ plan.deal = Closed(moved)
        /\ plan.events = <<G, T>>
        /\ plan.approval = [a EXCEPT !.status = "granted"]
    BY <1>10, <2>2 DEF PlanCommitApproval
  <2> HIDE DEF plan, moved, G, T, event
  <2>4. Grown(d, 2) /\ New(d, 1) = G /\ New(d, 2) = T
    BY <1>9, <2>3
  <2> QED
    BY <1>2, <1>3, <1>4, <1>6, <1>8, <2>1, <2>2, <2>3, <2>4
       DEF Grants, moved, event, G, T
<1>11. CASE ~ ( /\ operation = "granted"
                /\ ~ ForcedDeny(deals[d], a, Current(a.record)) )
  <2>1. /\ plan.deal = Closed(deals[d])
        /\ plan.events = <<N>>
        /\ plan.approval = [a EXCEPT !.status = "denied"]
    BY <1>11 DEF PlanCommitApproval
  <2> HIDE DEF plan, N
  <2>2. Grown(d, 1) /\ New(d, 1) = N
    BY <1>9, <2>1
  <2> QED
    BY <1>2, <1>3, <1>4, <1>6, <1>8, <2>1, <2>2 DEF Dismisses, N
<1> QED
  BY <1>10, <1>11

\* A revocation.
LEMMA RevocationStep ==
  ASSUME Shaped, Shaped', NEW d \in DealId, NEW c \in CommandId, Revoke(d, c),
         ~ UNCHANGED store
  PROVE  Withdraws(d, c)
<1> DEFINE v == [record |-> links[d], revoked_at |-> now]
<1>1. RevocationResult(links[d], c) = "committed"
  BY DEF Revoke, CommitRevocation
<1>2. v \in Revocation
  BY DEF Revoke, Shaped, Revocation
<1> DEFINE e == RevocationEntry(v)
<1>3. e \in Entry
  BY <1>2, EntryTypes
<1>4. /\ Known(d)
      /\ answer' = Told("committed")
      /\ events' = [events EXCEPT ![d] = Append(@, e)]
      /\ seen_commands' = seen_commands \cup {c}
      /\ UNCHANGED <<deals, links, approvals, seen_requests, decisions, now>>
  BY <1>1 DEF Revoke, CommitRevocation
<1>5. c \notin seen_commands
  BY <1>1 DEF RevocationResult
<1>6. Spends(c)
  BY <1>4, <1>5 DEF Spends, Told
<1> HIDE DEF v
<1>7. Grown(d, 1) /\ New(d, 1) = e
  <2> HIDE DEF e
  <2>1. events \in [DealId -> Seq(Entry)] /\ events' \in [DealId -> Seq(Entry)]
    BY DEF Shaped
  <2> QED
    BY <1>3, <1>4, <2>1 DEF Grown, New
<1> QED
  BY <1>2, <1>4, <1>6, <1>7 DEF Withdraws

\* Every step of the ledger is one of these.
Operations ==
  \/ Still
  \/ \E decision \in Decision :
       \E q \in RequestId, p \in Proposals, at \in {1, 2} :
         Commits(q, p, decision, at)
  \/ \E d \in DealId, c \in CommandId, event \in DealEvent, k \in {1, 2} :
       Reports(d, c, event, k)
  \/ \E q \in RequestId, c \in CommandId : Grants(q, c) \/ Dismisses(q, c)
  \/ \E d \in DealId, c \in CommandId : Withdraws(d, c)

\* A step that leaves the store alone.
LEMMA StoreStill == UNCHANGED store => Still
BY DEF Still, store

\* Each action of the ledger is one of the kinds of steps: a registration,
LEMMA RegistrationOperates ==
  ASSUME Shaped, NEW d \in DealId, NEW r \in RecordId, RegisterDeal(d, r)
  PROVE  Still
<1>1. \A x \in DealId :
        /\ Known(x) => deals'[x] = deals[x] /\ links'[x] = links[x]
        /\ ~ Known(x) => deals'[x] \in {deals[x], DraftDeal}
  BY DEF RegisterDeal, Shaped
<1>2. UNCHANGED <<events, approvals, decisions, seen_requests, seen_commands>>
  BY DEF RegisterDeal
<1> QED
  BY <1>1, <1>2 DEF Still

\* a proposal,
LEMMA RequestOperates ==
  ASSUME Shaped, Shaped', NEW q \in RequestId, NEW p \in Proposals,
         NEW decision, Linked(p.deal), Committed(q, p, decision)
  PROVE  Operations
<1>1. decision \in Decision
  BY DEF Committed, Committable
<1> QED
  BY <1>1, RequestStep DEF Operations

\* decided on the store as it is,
LEMMA ProposalOperates ==
  ASSUME Shaped, Shaped', NEW q \in RequestId, NEW p \in Proposals,
         Linked(p.deal), NEW content, Propose(q, p, content)
  PROVE  Operations
<1>1. CASE UNCHANGED store
  BY <1>1, StoreStill DEF Operations
<1>2. CASE ~ UNCHANGED store
  <2>1. Committed(q, p, DecisionOn(p, content))
    BY <1>2, ProposalStep, DecisionIsCommittable DEF Committed
  <2> QED
    BY <2>1, RequestOperates
<1> QED
  BY <1>1, <1>2

\* an event,
LEMMA TransitionOperates ==
  ASSUME Shaped, Shaped', NEW d \in DealId, NEW c \in CommandId, NEW noted,
         NEW event \in DealEvent, CommitTransition(d, c, event, noted)
  PROVE  Operations
<1>1. CASE UNCHANGED store
  BY <1>1, StoreStill DEF Operations
<1>2. CASE ~ UNCHANGED store
  BY <1>2, EventStep DEF Operations
<1> QED
  BY <1>1, <1>2

\* a revocation,
LEMMA RevocationOperates ==
  ASSUME Shaped, Shaped', NEW d \in DealId, NEW c \in CommandId, Revoke(d, c)
  PROVE  Operations
<1>1. CASE UNCHANGED store
  BY <1>1, StoreStill DEF Operations
<1>2. CASE ~ UNCHANGED store
  BY <1>2, RevocationStep DEF Operations
<1> QED
  BY <1>1, <1>2

\* and a person's answer.
LEMMA DecisionOperates ==
  ASSUME TypeOK, TypeOK', NEW q \in RequestId, NEW c \in CommandId,
         NEW operation \in {"granted", "denied"},
         DecideApproval(q, c, operation)
  PROVE  Operations
<1>1. CASE UNCHANGED store
  BY <1>1, StoreStill DEF Operations
<1>2. CASE ~ UNCHANGED store
  BY <1>2, AnswerStep DEF Operations
<1> QED
  BY <1>1, <1>2

\* Every step of the ledger is of one of these kinds.
LEMMA StepOperations == TypeOK /\ [Next]_vars => Operations
<1> SUFFICES ASSUME TypeOK, [Next]_vars PROVE Operations
  OBVIOUS
<1>1. TypeOK' /\ Shaped /\ Shaped'
  BY TypeStep DEF TypeOK
<1>2. ASSUME NEW d \in DealId, NEW r \in RecordId, RegisterDeal(d, r)
      PROVE  Operations
  BY <1>1, <1>2, RegistrationOperates DEF Operations
<1>3. ASSUME NEW q \in RequestId, NEW p \in Proposals, NEW content,
             Propose(q, p, content)
      PROVE  Operations
  BY <1>1, <1>3, ProposalOperates, TypeParts
<1>4. ASSUME NEW d \in DealId, NEW c \in CommandId, NEW noted \in Notes,
             NEW event \in BoundaryEvents[d], BoundaryEvent(d, c, event, noted)
      PROVE  Operations
  <2>1. event \in DealEvent
    BY LedgerAssumption
  <2> QED
    BY <1>1, <1>4, <2>1, TransitionOperates DEF BoundaryEvent
<1>5. ASSUME NEW q \in RequestId, NEW c \in CommandId,
             NEW operation \in {"granted", "denied"},
             DecideApproval(q, c, operation)
      PROVE  Operations
  BY <1>1, <1>5, DecisionOperates
<1>6. ASSUME NEW d \in DealId, NEW c \in CommandId, Revoke(d, c)
      PROVE  Operations
  BY <1>1, <1>6, RevocationOperates
<1>7. CASE Tick
  BY <1>7, StoreStill DEF Tick, Operations
<1>8. CASE UNCHANGED vars
  BY <1>8, StoreStill DEF vars, Operations
<1> QED
  BY <1>2, <1>3, <1>4, <1>5, <1>6, <1>7, <1>8 DEF Next

-----------------------------------------------------------------------------
(* The shared invariants.                                                  *)

\* A registered deal stays registered, under the same record, and nothing is
\* written about any other.
DealKept(d) ==
  /\ Known(d) => Known(d)' /\ links'[d] = links[d]
  /\ ~ Known(d) => events'[d] = events[d] /\ deals'[d] \in {deals[d], DraftDeal}

\* A step keeps what is known of every deal.
LEMMA KnownKept ==
  ASSUME TypeOK, HeldAreLinked, Operations, NEW d \in DealId
  PROVE  DealKept(d)
<1> USE DEF Known, DealKept
<1>1. CASE Still
  BY <1>1 DEF Still
<1>2. ASSUME NEW q, NEW p, NEW decision, NEW at, Performs(q, p, decision, at)
      PROVE  DealKept(d)
  BY <1>2 DEF Performs, Decides, OnlyRow, Grown, ApplyEvent
<1>3. ASSUME NEW q, NEW p, NEW decision, NEW at, Holds(q, p, decision, at)
      PROVE  DealKept(d)
  <2>1. deals[p.deal] \in DealRow
    BY <1>3 DEF Holds, Decides, TypeOK, Shaped
  <2>2. [deals[p.deal] EXCEPT !.open_approvals = @ + 1].state =
          deals[p.deal].state
    BY <2>1 DEF DealRow
  <2> QED
    BY <1>3, <2>2 DEF Holds, Decides, OnlyRow, Grown
<1>4. ASSUME NEW q, NEW p, NEW decision, NEW at, Records(q, p, decision, at)
      PROVE  DealKept(d)
  BY <1>4 DEF Records, Decides, Grown
<1>5. ASSUME NEW x, NEW c, NEW event, NEW k, Reports(x, c, event, k)
      PROVE  DealKept(d)
  BY <1>5 DEF Reports, Spends, OnlyRow, Grown, ApplyEvent
<1>6. ASSUME NEW q, NEW c, Grants(q, c)
      PROVE  DealKept(d)
  <2> DEFINE a == approvals[q]
             event == ActionEvents[a.action]
             target == TransitionFor(deals[a.deal].state, event)
             moved == ApplyEvent(deals[a.deal], event, target, a.amount)
  <2>1. /\ a.deal \in DealId /\ a.amount \in Amount /\ event \in DealEvent
        /\ target # NoState
        /\ q \in RequestId /\ a # NoApproval
    BY <1>6 DEF Grants, Approval, NoApproval
  <2>2. moved \in DealRow /\ moved.state = target
    BY <2>1, ApplyEventType, TransitionForType, TargetType
       DEF TypeOK, Shaped
  <2>3. Known(a.deal)
    BY <2>1 DEF HeldAreLinked
  <2>4. Grown(a.deal, 2) /\ OnlyRow(a.deal, Closed(moved)) /\ links' = links
    BY <1>6 DEF Grants, Spends
  <2> HIDE DEF moved, a, target
  <2>5. Closed(moved).state = target
    BY <2>2, ClosedType
  <2> QED
    BY <2>1, <2>3, <2>4, <2>5 DEF Grown, OnlyRow
<1>7. ASSUME NEW q, NEW c, Dismisses(q, c)
      PROVE  DealKept(d)
  <2> DEFINE a == approvals[q]
  <2>1. a.deal \in DealId /\ q \in RequestId /\ a # NoApproval
    BY <1>7 DEF Dismisses, Approval, NoApproval
  <2>2. Known(a.deal)
    BY <2>1 DEF HeldAreLinked
  <2>3. Grown(a.deal, 1) /\ OnlyRow(a.deal, Closed(deals[a.deal]))
        /\ links' = links
    BY <1>7 DEF Dismisses, Spends
  <2> HIDE DEF a
  <2>4. Closed(deals[a.deal]).state = deals[a.deal].state
    BY <2>1, ClosedType DEF TypeOK, Shaped
  <2> QED
    BY <2>1, <2>2, <2>3, <2>4 DEF Grown, OnlyRow
<1>8. ASSUME NEW x, NEW c, Withdraws(x, c)
      PROVE  DealKept(d)
  BY <1>8 DEF Withdraws, Spends, Grown
<1> QED
  BY <1>1, <1>2, <1>3, <1>4, <1>5, <1>6, <1>7, <1>8 DEF Operations, Commits

\* An approval stays one of a linked deal.
LEMMA HeldAreLinkedStep ==
  TypeOK /\ HeldAreLinked /\ [Next]_vars => HeldAreLinked'
<1> SUFFICES ASSUME TypeOK, HeldAreLinked, [Next]_vars,
                    NEW q \in RequestId, approvals'[q] # NoApproval
             PROVE  /\ deals'[approvals'[q].deal].state # NoState
                    /\ approvals'[q].record = links'[approvals'[q].deal]
  BY DEF HeldAreLinked, Known
<1>1. Operations
  BY StepOperations
<1>2. ASSUME NEW d \in DealId, Known(d),
             approvals'[q].deal = d, approvals'[q].record = links[d]
      PROVE  /\ deals'[approvals'[q].deal].state # NoState
             /\ approvals'[q].record = links'[approvals'[q].deal]
  BY <1>1, <1>2, KnownKept DEF Known, DealKept
<1>3. ASSUME approvals[q] # NoApproval, approvals'[q].deal = approvals[q].deal,
             approvals'[q].record = approvals[q].record
      PROVE  /\ deals'[approvals'[q].deal].state # NoState
             /\ approvals'[q].record = links'[approvals'[q].deal]
  BY <1>2, <1>3, HeldRow DEF HeldAreLinked
<1>4. ASSUME NEW p, NEW decision, NEW at, NEW x, Holds(x, p, decision, at)
      PROVE  \/ approvals'[q] = approvals[q]
             \/ /\ approvals'[q].deal = p.deal
                /\ approvals'[q].record = links[p.deal]
                /\ p.deal \in DealId /\ Known(p.deal)
  BY <1>4 DEF Holds, Decides, TypeOK, Shaped
<1>5. ASSUME NEW x, NEW c, Grants(x, c) \/ Dismisses(x, c)
      PROVE  \/ approvals'[q] = approvals[q]
             \/ /\ approvals[q] # NoApproval
                /\ approvals'[q].deal = approvals[q].deal
                /\ approvals'[q].record = approvals[q].record
  BY <1>5 DEF Grants, Dismisses, TypeOK, Shaped, Approval, NoApproval
<1>6. CASE UNCHANGED approvals
  BY <1>3, <1>6
<1> QED
  BY <1>1, <1>2, <1>3, <1>4, <1>5, <1>6
     DEF Operations, Commits, Still, Performs, Records, Reports, Withdraws

\* The strengthening the chain's invariants share.
Sound == TypeOK /\ HeldAreSeen /\ HeldAreLinked /\ UnknownAreEmpty

\* What the chains' effects rest on: neither a deal's link nor its record is
\* asked for, which a registration that stopped half-way does not have.
Consistent == Shaped /\ HeldAreSeen
LEMMA SoundIsConsistent == Sound => Consistent
BY DEF Sound, TypeOK, Consistent

\* The facts the chain proofs start from hold throughout.
LEMMA SoundHolds == Spec => []Sound
<1>1. Init => HeldAreLinked /\ UnknownAreEmpty
  BY DEF Init, HeldAreLinked, UnknownAreEmpty, Known
<1>2. TypeOK /\ HeldAreLinked /\ UnknownAreEmpty /\ [Next]_vars
        => UnknownAreEmpty'
  BY StepOperations, KnownKept DEF UnknownAreEmpty, Known, DealKept
<1> QED
  BY <1>1, <1>2, HeldAreLinkedStep, LedgerTypeCorrect, HeldAreSeenHolds, PTL
     DEF Spec, Sound

-----------------------------------------------------------------------------
(* What callers are told.                                                  *)

\* Apart from steps that leave the chains alone, a step uses up a request and
\* its key, or a command.
LEMMA CoarseOperations ==
  Operations =>
    \/ Still
    \/ \E q, p, decision, at : Decides(q, p, decision, at)
    \/ \E c : Spends(c)
<1>1. ASSUME NEW q, NEW p, NEW decision, NEW at, Commits(q, p, decision, at)
      PROVE  Decides(q, p, decision, at)
  BY <1>1 DEF Commits, Performs, Holds, Records
<1>2. ASSUME NEW d, NEW c, NEW event, NEW k, Reports(d, c, event, k)
      PROVE  Spends(c)
  BY <1>2 DEF Reports
<1>3. ASSUME NEW q, NEW c, Grants(q, c) \/ Dismisses(q, c)
      PROVE  Spends(c)
  BY <1>3 DEF Grants, Dismisses
<1>4. ASSUME NEW d, NEW c, Withdraws(d, c)
      PROVE  Spends(c)
  BY <1>4 DEF Withdraws
<1> QED
  BY <1>1, <1>2, <1>3, <1>4 DEF Operations

\* A step of the ledger's own that leaves the chains alone announces no new
\* decision: it repeats a stored one, or announces none.
LEMMA StillAnswers ==
  ASSUME TypeOK, [Next]_vars, Still
  PROVE  \/ answer' = answer
         \/ answer'.result \notin {"decided", "idempotent_hit"}
         \/ \E p \in Proposals :
              /\ decisions[p.key] # NoDecision
              /\ answer' = ToldDecision("idempotent_hit", p.key,
                                        decisions[p.key].decision)
<1> DEFINE Repeats ==
      \/ answer' = answer
      \/ answer'.result \notin {"decided", "idempotent_hit"}
      \/ \E p \in Proposals :
           /\ decisions[p.key] # NoDecision
           /\ answer' = ToldDecision("idempotent_hit", p.key,
                                     decisions[p.key].decision)
<1>1. ASSUME NEW d, NEW r, RegisterDeal(d, r)
      PROVE  Repeats
  BY <1>1 DEF RegisterDeal, Told
<1>2. ASSUME NEW q \in RequestId, NEW p \in Proposals, NEW content,
             Propose(q, p, content)
      PROVE  Repeats
  <2>1. ~ (CommitRequest(q, p, DecisionOn(p, content)) /\ q \notin seen_requests)
    BY DEF CommitRequest, Still
  <2> QED
    BY <1>2, <2>1, ProposalStep, TypeParts DEF Told
<1>3. ASSUME NEW d, NEW c, NEW event, NEW noted, BoundaryEvent(d, c, event, noted)
      PROVE  Repeats
  BY <1>3 DEF BoundaryEvent, CommitTransition, TransitionResult, Told
<1>4. ASSUME NEW q, NEW c, NEW operation, DecideApproval(q, c, operation)
      PROVE  Repeats
  <2>1. answer' \in {Told("committed"), Told("already_applied")}
    <3>1. CASE Decidable(q, c)
      BY <1>4, <3>1 DEF DecideApproval, CommitApproval
    <3>2. CASE ~ Decidable(q, c)
      BY <1>4, <3>2 DEF DecideApproval, CommitApproval
    <3> QED
      BY <3>1, <3>2
  <2> QED
    BY <2>1 DEF Told
<1>5. ASSUME NEW d, NEW c, Revoke(d, c)
      PROVE  Repeats
  BY <1>5 DEF Revoke, CommitRevocation, RevocationResult, Told
<1>6. Tick \/ UNCHANGED vars => Repeats
  BY DEF Tick, vars
<1> HIDE DEF Repeats
<1>7. Repeats
  BY <1>1, <1>2, <1>3, <1>4, <1>5, <1>6 DEF Next
<1> QED
  BY <1>7 DEF Repeats

\* A step keeps the answers and their entries in agreement.
LEMMA AnswerStepKept ==
  Sound /\ AnswerMatchesLedger /\ [Next]_vars => AnswerMatchesLedger'
<1> SUFFICES ASSUME Sound, AnswerMatchesLedger, [Next]_vars
             PROVE  AnswerMatchesLedger'
  OBVIOUS
<1>1. Operations
  BY StepOperations DEF Sound
<1>2. CASE Still
  BY <1>2, StillAnswers DEF Still, Sound, AnswerMatchesLedger, ToldDecision
<1>3. ASSUME NEW q, NEW p, NEW decision, NEW at, Decides(q, p, decision, at)
      PROVE  AnswerMatchesLedger'
  <2>1. p \in Proposals /\ p.key \in Key
    BY <1>3, LedgerAssumption DEF Decides
  <2>2. decisions'[p.key] = [proposal |-> p, decision |-> decision]
    BY <1>3, <2>1 DEF Decides, Sound, TypeOK, Shaped
  <2>3. decisions'[p.key] # NoDecision
    BY <2>2 DEF NoDecision
  <2>4. answer'.key = p.key /\ answer'.decision = decision
    BY <1>3 DEF Decides, ToldDecision
  <2>5. decisions'[p.key].decision = decision
    BY <2>2
  <2> QED
    BY <2>3, <2>4, <2>5 DEF AnswerMatchesLedger, NoDecision
<1>4. ASSUME NEW c, Spends(c)
      PROVE  AnswerMatchesLedger'
  BY <1>4 DEF Spends, AnswerMatchesLedger
<1> QED
  BY <1>1, <1>2, <1>3, <1>4, CoarseOperations

\* No caller is told a decision the ledger does not have: what the engine
\* allows is never found stale by the commit, and a repeated answer is the
\* stored one.
THEOREM AnswerMatchesLedgerHolds == Spec => []AnswerMatchesLedger
<1>1. Init => AnswerMatchesLedger
  BY DEF Init, AnswerMatchesLedger, Told
<1> QED
  BY <1>1, AnswerStepKept, SoundHolds, PTL DEF Spec

-----------------------------------------------------------------------------
(* Permissions.                                                            *)

\* What is new on a chain is what the step added.
LEMMA NewPlaces ==
  ASSUME NEW d, NEW k \in Nat, Grown(d, k)
  PROVE  /\ DOMAIN events[d] = 1..Len(events[d])
         /\ DOMAIN events'[d] = 1..(Len(events[d]) + k)
         /\ Len(events[d]) \in Nat
         /\ \A i \in DOMAIN events[d] : events'[d][i] = events[d][i]
         /\ \A i \in DOMAIN events'[d] \ DOMAIN events[d] :
              \E j \in 1..k : i = Len(events[d]) + j
<1>1. /\ Len(events[d]) \in Nat
      /\ DOMAIN events[d] = 1..Len(events[d])
      /\ DOMAIN events'[d] = 1..Len(events'[d])
  BY DEF Grown
<1>2. ASSUME NEW i \in 1..(Len(events[d]) + k), i \notin 1..Len(events[d])
      PROVE  \E j \in 1..k : i = Len(events[d]) + j
  <2>1. i - Len(events[d]) \in 1..k /\ i = Len(events[d]) + (i - Len(events[d]))
    BY <1>1, <1>2
  <2> QED
    BY <2>1
<1> QED
  BY <1>1, <1>2 DEF Grown

\* The kinds of entries, apart.
LEMMA EntryKinds ==
  /\ \A c : /\ MessageEntry(c).type = "message"
            /\ MessageEntry(c).cause = c
  /\ \A q, p, decision :
       /\ DecisionEntry(q, p, decision).type = "policy_decision"
       /\ DecisionEntry(q, p, decision).cause = q
       /\ DecisionEntry(q, p, decision).proposal = p
       /\ DecisionEntry(q, p, decision).decision = decision
  /\ \A c, event, from, to, amount :
       /\ TransitionEntry(c, event, from, to, amount).type = "state_transition"
       /\ TransitionEntry(c, event, from, to, amount).cause = c
       /\ TransitionEntry(c, event, from, to, amount).event = event
       /\ TransitionEntry(c, event, from, to, amount).to = to.state
       /\ TransitionEntry(c, event, from, to, amount).amount = amount
  /\ \A operation, q, action, amount :
       /\ ApprovalEntry(operation, q, action, amount).type = "approval"
       /\ ApprovalEntry(operation, q, action, amount).operation = operation
       /\ ApprovalEntry(operation, q, action, amount).cause = q
       /\ ApprovalEntry(operation, q, action, amount).action = action
       /\ ApprovalEntry(operation, q, action, amount).amount = amount
  /\ \A v : RevocationEntry(v).type = "revocation"
BY DEF MessageEntry, DecisionEntry, TransitionEntry, ApprovalEntry,
       RevocationEntry

\* A chain only grows: what it holds stays in its place.
LEMMA ChainsKept ==
  ASSUME Consistent, Operations, NEW d \in DealId
  PROVE  /\ events[d] \in Seq(Entry) /\ events'[d] \in Seq(Entry)
         /\ DOMAIN events[d] = 1..Len(events[d])
         /\ DOMAIN events'[d] = 1..Len(events'[d])
         /\ Len(events[d]) \in Nat
         /\ Len(events'[d]) \in Nat
         /\ Len(events[d]) <= Len(events'[d])
         /\ \A i \in DOMAIN events[d] :
              i \in DOMAIN events'[d] /\ events'[d][i] = events[d][i]
<1>1. events[d] \in Seq(Entry)
  BY DEF Consistent, Shaped
<1>2. \/ events'[d] = events[d]
      \/ \E k \in Nat : Grown(d, k)
  <2>1. ASSUME NEW x, NEW k \in Nat, Grown(x, k)
        PROVE  \/ events'[d] = events[d]
               \/ \E n \in Nat : Grown(d, n)
    BY <2>1 DEF Grown
  <2>2. ASSUME NEW q, NEW p, NEW decision, NEW at, Commits(q, p, decision, at)
        PROVE  \E x : \E k \in Nat : Grown(x, k)
    <3>1. at \in Nat /\ at + 1 \in Nat
      BY <2>2 DEF Commits, Performs, Holds, Records, Decides
    <3> QED
      BY <2>2, <3>1 DEF Commits, Performs, Holds, Records
  <2>3. ASSUME NEW x, NEW c, NEW event, NEW k, Reports(x, c, event, k)
        PROVE  \E y : \E n \in Nat : Grown(y, n)
    <3>1. k \in Nat /\ Grown(x, k)
      BY <2>3 DEF Reports
    <3> QED
      BY <3>1
  <2>4. ASSUME NEW q, NEW c, Grants(q, c) \/ Dismisses(q, c)
        PROVE  \E x : \E k \in Nat : Grown(x, k)
    BY <2>4 DEF Grants, Dismisses
  <2>5. ASSUME NEW x, NEW c, Withdraws(x, c)
        PROVE  \E y : \E k \in Nat : Grown(y, k)
    BY <2>5 DEF Withdraws
  <2>6. CASE Still
    BY <2>6 DEF Still
  <2> QED
    BY <2>1, <2>2, <2>3, <2>4, <2>5, <2>6 DEF Operations
<1>3. CASE events'[d] = events[d]
  BY <1>1, <1>3
<1>4. ASSUME NEW k \in Nat, Grown(d, k)
      PROVE  /\ events'[d] \in Seq(Entry)
             /\ Len(events'[d]) = Len(events[d]) + k
             /\ \A i \in 1..Len(events[d]) : events'[d][i] = events[d][i]
  BY <1>4 DEF Grown
<1> QED
  BY <1>1, <1>2, <1>3, <1>4

\* Where a new entry comes from: a decision from the request it is about, a
\* transition from an allowed request, the boundary or a grant, an approval
\* entry from a held request or a person's answer.
FromRequest(d, i) ==
  \E decision \in Decision :
    \E q \in RequestId, p \in Proposals, at \in {1, 2} :
      /\ Commits(q, p, decision, at)
      /\ Decides(q, p, decision, at)
      /\ p.deal = d /\ i = Len(events[d]) + at
      /\ events'[d][i] = DecisionEntry(q, p, decision)
FromPerformed(d, i) ==
  \E decision \in Decision :
    \E q \in RequestId, p \in Proposals, at \in {1, 2} :
      /\ Performs(q, p, decision, at)
      /\ p.deal = d /\ i = Len(events[d]) + (at + 1)
FromBoundary(d, i) ==
  \E c \in CommandId, event \in DealEvent, k \in {1, 2} :
    Reports(d, c, event, k) /\ i = Len(events[d]) + k
FromGrant(d, i, j) ==
  \E q \in RequestId, c \in CommandId :
    /\ Grants(q, c)
    /\ approvals[q].deal = d /\ i = Len(events[d]) + j
FromHeld(d, i) ==
  \E decision \in Decision :
    \E q \in RequestId, p \in Proposals, at \in {1, 2} :
      /\ Holds(q, p, decision, at)
      /\ p.deal = d /\ i = Len(events[d]) + (at + 1)
FromDismissal(d, i) ==
  \E q \in RequestId, c \in CommandId :
    /\ Dismisses(q, c)
    /\ approvals[q].deal = d /\ i = Len(events[d]) + 1

\* Where an entry that a step appends comes from.
LEMMA NewEntry ==
  ASSUME Consistent, Operations, NEW d \in DealId,
         NEW i \in DOMAIN events'[d] \ DOMAIN events[d]
  PROVE  LET e == events'[d][i] IN
         /\ e.type = "policy_decision" => FromRequest(d, i)
         /\ e.type = "state_transition" =>
              FromPerformed(d, i) \/ FromBoundary(d, i) \/ FromGrant(d, i, 2)
         /\ e.type = "approval" =>
              FromHeld(d, i) \/ FromGrant(d, i, 1) \/ FromDismissal(d, i)
<1> DEFINE e == events'[d][i]
           Goal == /\ e.type = "policy_decision" => FromRequest(d, i)
                   /\ e.type = "state_transition" =>
                        \/ FromPerformed(d, i)
                        \/ FromBoundary(d, i)
                        \/ FromGrant(d, i, 2)
                   /\ e.type = "approval" =>
                        \/ FromHeld(d, i)
                        \/ FromGrant(d, i, 1)
                        \/ FromDismissal(d, i)
<1>1. ASSUME NEW x, NEW k \in Nat, Grown(x, k)
      PROVE  x = d /\ \E j \in 1..k : i = Len(events[d]) + j /\ e = New(d, j)
  <2>1. x = d
    BY <1>1 DEF Grown
  <2>2. Grown(d, k)
    BY <1>1, <2>1
  <2>3. PICK j \in 1..k : i = Len(events[d]) + j
    BY <2>2, NewPlaces
  <2> QED
    BY <2>1, <2>3 DEF New
<1>2. ASSUME NEW decision \in Decision, NEW q \in RequestId,
             NEW p \in Proposals, NEW at \in {1, 2},
             Commits(q, p, decision, at)
      PROVE  Goal
  <2>1. Decides(q, p, decision, at)
    BY <1>2 DEF Commits, Performs, Holds, Records
  <2>2. /\ at = 2 => New(p.deal, 1).type = "message"
        /\ New(p.deal, at).type = "policy_decision"
        /\ New(p.deal, at) = DecisionEntry(q, p, decision)
    BY <2>1, EntryKinds DEF Decides
  <2>3. ASSUME p.deal = d, i = Len(events[d]) + at, e = New(d, at)
        PROVE  FromRequest(d, i)
    BY <1>2, <2>1, <2>2, <2>3 DEF FromRequest
  <2> HIDE DEF e
  <2>4. CASE Performs(q, p, decision, at)
    <3>1. Grown(p.deal, at + 1) /\ New(p.deal, at + 1).type = "state_transition"
      BY <2>4, EntryKinds DEF Performs
    <3>2. /\ p.deal = d
          /\ \E j \in 1..(at + 1) : i = Len(events[d]) + j /\ e = New(d, j)
      BY <1>1, <3>1
    <3>3. \A j : j = at + 1 /\ i = Len(events[d]) + j => FromPerformed(d, i)
      BY <2>4, <3>2 DEF FromPerformed
    <3>4. PICK j \in 1..(at + 1) : i = Len(events[d]) + j /\ e = New(d, j)
      BY <3>2
    <3>5. \/ at = 2 /\ j = 1
          \/ j = at
          \/ j = at + 1
      BY <3>4
    <3> QED
      BY <2>2, <2>3, <3>1, <3>2, <3>3, <3>4, <3>5
  <2>5. CASE Holds(q, p, decision, at)
    <3>1. Grown(p.deal, at + 1) /\ New(p.deal, at + 1).type = "approval"
      BY <2>5, EntryKinds DEF Holds
    <3>2. /\ p.deal = d
          /\ \E j \in 1..(at + 1) : i = Len(events[d]) + j /\ e = New(d, j)
      BY <1>1, <3>1
    <3>3. \A j : j = at + 1 /\ i = Len(events[d]) + j => FromHeld(d, i)
      BY <2>5, <3>2 DEF FromHeld
    <3>4. PICK j \in 1..(at + 1) : i = Len(events[d]) + j /\ e = New(d, j)
      BY <3>2
    <3>5. \/ at = 2 /\ j = 1
          \/ j = at
          \/ j = at + 1
      BY <3>4
    <3> QED
      BY <2>2, <2>3, <3>1, <3>2, <3>3, <3>4, <3>5
  <2>6. CASE Records(q, p, decision, at)
    <3>1. /\ p.deal = d
          /\ \E j \in 1..at : i = Len(events[d]) + j /\ e = New(d, j)
      BY <1>1, <2>6 DEF Records
    <3> QED
      BY <2>2, <2>3, <3>1
  <2> QED
    BY <1>2, <2>4, <2>5, <2>6 DEF Commits
<1>3. ASSUME NEW x \in DealId, NEW c \in CommandId, NEW event \in DealEvent,
             NEW k \in {1, 2}, Reports(x, c, event, k)
      PROVE  Goal
  <2>1. /\ Grown(x, k)
        /\ k = 2 => New(x, 1).type = "message"
        /\ New(x, k).type = "state_transition"
    BY <1>3, EntryKinds DEF Reports
  <2> HIDE DEF e
  <2>2. x = d /\ \E j \in 1..k : i = Len(events[d]) + j /\ e = New(d, j)
    BY <1>1, <2>1
  <2>3. i = Len(events[d]) + k => FromBoundary(d, i)
    BY <1>3, <2>2 DEF FromBoundary
  <2> QED
    BY <2>1, <2>2, <2>3
<1>4. ASSUME NEW q \in RequestId, NEW c \in CommandId, Grants(q, c)
      PROVE  Goal
  <2> DEFINE x == approvals[q].deal
  <2>1. /\ Grown(x, 2)
        /\ New(x, 1).type = "approval" /\ New(x, 2).type = "state_transition"
    BY <1>4, EntryKinds DEF Grants
  <2>2. ASSUME NEW j, x = d, i = Len(events[d]) + j
        PROVE  FromGrant(d, i, j)
    BY <1>4, <2>2 DEF FromGrant
  <2> HIDE DEF x, e
  <2>3. x = d /\ \E j \in 1..2 : i = Len(events[d]) + j /\ e = New(d, j)
    BY <1>1, <2>1
  <2> QED
    BY <2>1, <2>2, <2>3
<1>5. ASSUME NEW q \in RequestId, NEW c \in CommandId, Dismisses(q, c)
      PROVE  Goal
  <2> DEFINE x == approvals[q].deal
  <2>1. Grown(x, 1) /\ New(x, 1).type = "approval"
    BY <1>5, EntryKinds DEF Dismisses
  <2>2. ASSUME x = d, i = Len(events[d]) + 1
        PROVE  FromDismissal(d, i)
    BY <1>5, <2>2 DEF FromDismissal
  <2> HIDE DEF x, e
  <2>3. x = d /\ \E j \in 1..1 : i = Len(events[d]) + j /\ e = New(d, j)
    BY <1>1, <2>1
  <2> QED
    BY <2>1, <2>2, <2>3
<1>6. ASSUME NEW x, NEW c, Withdraws(x, c)
      PROVE  Goal
  <2>1. Grown(x, 1) /\ New(x, 1).type = "revocation"
    BY <1>6, EntryKinds DEF Withdraws
  <2> HIDE DEF e
  <2>2. x = d /\ \E j \in 1..1 : i = Len(events[d]) + j /\ e = New(d, j)
    BY <1>1, <2>1
  <2> QED
    BY <2>1, <2>2
<1>7. ASSUME Still PROVE Goal
  BY <1>7 DEF Still
<1>8. Goal
  <2> HIDE DEF Goal
  <2> QED
    BY <1>2, <1>3, <1>4, <1>5, <1>6, <1>7 DEF Operations
<1> QED
  BY <1>8

\* What a step commits was decided on the store that the step finds.
Judged ==
  \A q, p, decision, at :
    Decides(q, p, decision, at) =>
      \E content : decision = DecisionOn(p, content)

\* The ledger's own operations decide and commit in one step.
LEMMA StepJudged == TypeOK /\ [Next]_vars => Judged
<1> SUFFICES ASSUME TypeOK, [Next]_vars,
                    NEW q, NEW p, NEW decision, NEW at,
                    Decides(q, p, decision, at)
             PROVE  \E content : decision = DecisionOn(p, content)
  BY DEF Judged
<1>1. /\ q \in seen_requests' /\ q \notin seen_requests
      /\ p \in Proposals
      /\ decisions[p.key] = NoDecision
      /\ decisions' = [decisions EXCEPT ![p.key] =
                         [proposal |-> p, decision |-> decision]]
  BY DEF Decides
<1>2. p.key \in Key
  BY <1>1, LedgerAssumption
<1>3. PICK x, o, content :
        x \in RequestId /\ o \in Proposals /\ Propose(x, o, content)
  <2>1. ASSUME NEW d, NEW r, RegisterDeal(d, r)
        PROVE  FALSE
    BY <1>1, <2>1 DEF RegisterDeal
  <2>2. ASSUME NEW d, NEW c, NEW event, NEW noted,
               BoundaryEvent(d, c, event, noted)
        PROVE  FALSE
    BY <1>1, <2>2 DEF BoundaryEvent, CommitTransition, store
  <2>3. ASSUME NEW h, NEW c, NEW operation, DecideApproval(h, c, operation)
        PROVE  FALSE
    BY <1>1, <2>3 DEF DecideApproval, CommitApproval, store
  <2>4. ASSUME NEW d, NEW c, Revoke(d, c)
        PROVE  FALSE
    BY <1>1, <2>4 DEF Revoke, CommitRevocation, store
  <2>5. ~ Tick /\ ~ UNCHANGED vars
    BY <1>1 DEF Tick, vars, store
  <2> QED
    BY <2>1, <2>2, <2>3, <2>4, <2>5 DEF Next
<1>4. CommitRequest(x, o, DecisionOn(o, content)) /\ o.key \in Key
  <2>1. ~ UNCHANGED store
    BY <1>1 DEF store
  <2> QED
    BY <1>3, <2>1, ProposalStep, TypeParts, LedgerAssumption
<1>5. decisions' = [decisions EXCEPT ![o.key] =
                      [proposal |-> o, decision |-> DecisionOn(o, content)]]
  BY <1>4 DEF CommitRequest
<1>6. decisions'[p.key] = [proposal |-> p, decision |-> decision]
  BY <1>1, <1>2 DEF TypeOK, Shaped
<1>7. o.key = p.key
  <2>1. [proposal |-> p, decision |-> decision] # NoDecision
    BY DEF NoDecision
  <2> QED
    BY <1>1, <1>2, <1>4, <1>5, <1>6, <2>1 DEF TypeOK, Shaped
<1>8. [proposal |-> p, decision |-> decision] =
        [proposal |-> o, decision |-> DecisionOn(o, content)]
  BY <1>2, <1>5, <1>6, <1>7 DEF TypeOK, Shaped
<1> QED
  BY <1>8

\* A permission is written while the mandate it rests on is in force.
LEMMA PermissionInForce ==
  ASSUME Sound, Operations, Judged, NEW d \in DealId,
         NEW i \in DOMAIN events'[d] \ DOMAIN events[d],
         Permission(events'[d][i])
  PROVE  Status(links[d]) = "active"
<1> DEFINE e == events'[d][i]
<1>1. CASE e.type = "policy_decision" /\ e.decision.outcome = "allow"
  <2>1. FromRequest(d, i)
    BY <1>1, SoundIsConsistent, NewEntry
  <2>2. PICK decision \in Decision :
          \E q, p, at : /\ Decides(q, p, decision, at)
                        /\ p \in Proposals /\ p.deal = d /\ Known(p.deal)
                        /\ e = DecisionEntry(q, p, decision)
    <3> HIDE DEF e
    <3>1. PICK made \in Decision :
            \E q \in RequestId, p \in Proposals, at \in {1, 2} :
              /\ Decides(q, p, made, at)
              /\ p.deal = d /\ e = DecisionEntry(q, p, made)
      BY <2>1 DEF FromRequest, e
    <3>2. \A q, p, at : Decides(q, p, made, at) => Known(p.deal)
      BY DEF Decides
    <3> QED
      BY <3>1, <3>2
  <2>3. PICK q, p, at : /\ Decides(q, p, decision, at)
                        /\ p \in Proposals /\ p.deal = d /\ Known(p.deal)
                        /\ e = DecisionEntry(q, p, decision)
    BY <2>2
  <2>4. PICK content : decision = DecisionOn(p, content)
    BY <2>3 DEF Judged
  <2>5. DecisionOn(p, content).outcome = "allow"
    BY <1>1, <2>3, <2>4, EntryKinds
  <2> QED
    BY <2>3, <2>5, DecisionPermits, TypeParts DEF Sound
<1>2. CASE e.type = "approval" /\ e.operation = "granted"
  <2>1. ~ FromHeld(d, i)
    <3>1. ASSUME NEW q, NEW p, NEW decision, NEW at \in {1, 2}, p.deal = d,
                 Holds(q, p, decision, at), i = Len(events[d]) + (at + 1)
          PROVE  FALSE
      <4>1. e = New(d, at + 1)
        BY <3>1, SoundIsConsistent, ChainsKept DEF New
      <4>2. New(d, at + 1).operation = "required"
        BY <3>1, EntryKinds DEF Holds
      <4> QED
        BY <1>2, <4>1, <4>2
    <3> QED
      BY <3>1 DEF FromHeld
  <2>2. ~ FromDismissal(d, i)
    BY <1>2, EntryKinds DEF FromDismissal, Dismisses, New
  <2>3. PICK q \in RequestId :
          /\ approvals[q] # NoApproval /\ approvals[q].deal = d
          /\ Status(approvals[q].record) = "active"
    BY <1>2, <2>1, <2>2, SoundIsConsistent, NewEntry
       DEF FromGrant, Grants, Current, Approval, NoApproval
  <2> QED
    BY <2>3 DEF Sound, HeldAreLinked
<1> QED
  BY <1>1, <1>2 DEF Permission

\* Revocation and expiry take effect at once, for what is proposed after them
\* and for what was held before them: no chain gains an allow or a grant while
\* the deal's mandate is out of force.
THEOREM NoPermissionOutOfForceHolds == Spec => NoPermissionOutOfForce
<1> DEFINE Step ==
      \A d \in DealId :
        Known(d) /\ Status(links[d]) # "active" =>
          \A i \in DOMAIN events'[d] \ DOMAIN events[d] :
            ~ Permission(events'[d][i])
<1>1. Sound /\ [Next]_vars => Step
  BY PermissionInForce, StepOperations, StepJudged DEF Sound
<1>2. Sound /\ [Next]_vars => [Step]_vars
  BY <1>1
<1> QED
  BY <1>2, SoundHolds, PTL DEF Spec, NoPermissionOutOfForce

\* A step appends no transition without its permission.
LEMMA TransitionsAuthorizedStep ==
  ASSUME Consistent, Operations, TransitionsAuthorized
  PROVE  TransitionsAuthorized'
<1> SUFFICES ASSUME NEW d \in DealId, NEW i \in DOMAIN events'[d],
                    events'[d][i].type = "state_transition",
                    events'[d][i].cause \in RequestId
             PROVE  i > 1 /\ Authorizes(events'[d][i - 1], events'[d][i])
  BY DEF TransitionsAuthorized, Authorizes
<1> DEFINE n == Len(events[d])
           t == events'[d][i]
<1>1. n \in Nat
  BY ChainsKept
<1>2. CASE i \in DOMAIN events[d]
  <2>1. i > 1 /\ Authorizes(events[d][i - 1], events[d][i])
    BY <1>2, ChainsKept DEF TransitionsAuthorized
  <2>2. i - 1 \in DOMAIN events[d]
    BY <1>2, <2>1, ChainsKept
  <2> QED
    BY <1>2, <2>1, <2>2, ChainsKept
<1>3. ASSUME NEW q, NEW p, NEW decision, NEW at \in {1, 2}, p.deal = d,
             Performs(q, p, decision, at), i = n + (at + 1)
      PROVE  i > 1 /\ Authorizes(events'[d][i - 1], t)
  <2>1. i > 1 /\ i - 1 = n + at
    <3> HIDE DEF n
    <3>1. CASE at = 1
      BY <1>1, <1>3, <3>1
    <3>2. CASE at = 2
      BY <1>1, <1>3, <3>2
    <3> QED
      BY <3>1, <3>2
  <2>2. /\ events'[d][i - 1] = DecisionEntry(q, p, decision)
        /\ t = TransitionEntry(q, ActionEvents[p.action], deals[d], deals'[d],
                               p.amount)
        /\ decision.outcome = "allow"
    BY <1>3, <2>1 DEF Performs, Decides, New
  <2> QED
    BY <2>1, <2>2 DEF Authorizes, DecisionEntry, TransitionEntry
<1>4. ASSUME NEW c \in CommandId, NEW event, NEW k, Reports(d, c, event, k),
             i = n + k
      PROVE  FALSE
  <2>1. t.cause = c
    BY <1>4 DEF Reports, New, TransitionEntry
  <2> QED
    BY <2>1, LedgerAssumption
<1>5. ASSUME NEW q, NEW c, Grants(q, c), approvals[q].deal = d, i = n + 2
      PROVE  i > 1 /\ Authorizes(events'[d][i - 1], t)
  <2> DEFINE a == approvals[q]
  <2>1. i > 1 /\ i - 1 = n + 1
    BY <1>1, <1>5
  <2>2. /\ events'[d][i - 1] = ApprovalEntry("granted", q, a.action, a.amount)
        /\ t = TransitionEntry(q, ActionEvents[a.action], deals[d],
                 ApplyEvent(deals[d], ActionEvents[a.action],
                   TransitionFor(deals[d].state, ActionEvents[a.action]),
                   a.amount), a.amount)
    BY <1>5, <2>1 DEF Grants, New
  <2> HIDE DEF a
  <2> QED
    BY <2>1, <2>2 DEF Authorizes, ApprovalEntry, TransitionEntry
<1>6. CASE i \notin DOMAIN events[d]
  BY <1>3, <1>4, <1>5, <1>6, NewEntry
     DEF FromPerformed, FromBoundary, FromGrant
<1> QED
  BY <1>2, <1>6

\* Nothing moves a deal on the agent's behalf but an allow or a grant of that
\* very action and amount, which stands right before it in the chain.
THEOREM TransitionsAuthorizedHolds == Spec => []TransitionsAuthorized
<1>1. Init => TransitionsAuthorized
  BY DEF Init, TransitionsAuthorized
<1>2. Sound /\ TransitionsAuthorized /\ [Next]_vars => TransitionsAuthorized'
  BY SoundIsConsistent, StepOperations, TransitionsAuthorizedStep DEF Sound
<1> QED
  BY <1>1, <1>2, SoundHolds, PTL DEF Spec

-----------------------------------------------------------------------------
(* Effects.                                                                *)

\* What has had its effect is used up: what a chain decides under a key is
\* stored under it, and what caused a transition is a spent command, or a seen
\* request that was not held or was granted.
DecidedAreStored ==
  \A d \in DealId : \A i \in DOMAIN events[d] :
    events[d][i].type = "policy_decision" =>
      LET p == events[d][i].proposal IN
      decisions[p.key] =
        [proposal |-> p, decision |-> events[d][i].decision]
MovedAreSpent ==
  \A d \in DealId : \A i \in DOMAIN events[d] :
    events[d][i].type = "state_transition" =>
      LET c == events[d][i].cause IN
      \/ c \in seen_commands
      \/ /\ c \in seen_requests
         /\ approvals[c] = NoApproval \/ approvals[c].status = "granted"

\* A stored key is decided on some chain; no two places decide one key or hold
\* transitions of one cause.
StoredAreDecided ==
  \A k \in Key : decisions[k] # NoDecision =>
    \E d \in DealId : \E i \in DOMAIN events[d] :
      events[d][i].type = "policy_decision" /\ events[d][i].proposal.key = k
DecidedOnce ==
  \A d \in DealId, x \in DealId :
    \A i \in DOMAIN events[d], j \in DOMAIN events[x] :
      /\ events[d][i].type = "policy_decision"
      /\ events[x][j].type = "policy_decision"
      /\ events[d][i].proposal.key = events[x][j].proposal.key
      => d = x /\ i = j
MovedOnce ==
  \A d \in DealId, x \in DealId :
    \A i \in DOMAIN events[d], j \in DOMAIN events[x] :
      /\ events[d][i].type = "state_transition"
      /\ events[x][j].type = "state_transition"
      /\ events[d][i].cause = events[x][j].cause
      => d = x /\ i = j

Effects ==
  /\ DecidedAreStored /\ MovedAreSpent /\ StoredAreDecided
  /\ DecidedOnce /\ MovedOnce

\* A key that a chain decides is a stored one.
LEMMA DecidedIsStored ==
  ASSUME DecidedAreStored, NEW d \in DealId, NEW i \in DOMAIN events[d],
         events[d][i].type = "policy_decision"
  PROVE  decisions[events[d][i].proposal.key] # NoDecision
<1>1. ASSUME NEW p, NEW x PROVE [proposal |-> p, decision |-> x] # NoDecision
  BY DEF NoDecision
<1>2. decisions[events[d][i].proposal.key] =
        [ proposal |-> events[d][i].proposal,
          decision |-> events[d][i].decision ]
  BY DEF DecidedAreStored
<1> QED
  BY <1>1, <1>2

\* Who an entry names.
LEMMA EntryNames ==
  ASSUME Consistent, NEW d \in DealId, NEW i \in DOMAIN events[d]
  PROVE  LET e == events[d][i] IN
         /\ e.type = "policy_decision" =>
              e.proposal \in Proposals /\ e.proposal.key \in Key
         /\ e.type = "state_transition" => e.cause \in Cause
<1>1. events[d][i] \in Entry
  BY DEF Consistent, Shaped
<1> QED
  BY <1>1, LedgerAssumption DEF Entry

\* What was used up stays used up.
LEMMA UsedUp ==
  ASSUME Consistent, Operations
  PROVE  /\ seen_commands \subseteq seen_commands'
         /\ seen_requests \subseteq seen_requests'
         /\ \A k \in Key : decisions[k] # NoDecision =>
              decisions'[k] = decisions[k]
<1>1. ASSUME NEW q, NEW p, NEW decision, NEW at, Decides(q, p, decision, at)
      PROVE  /\ seen_commands' = seen_commands
             /\ seen_requests \subseteq seen_requests'
             /\ \A k \in Key : decisions[k] # NoDecision =>
                  decisions'[k] = decisions[k]
  BY <1>1 DEF Decides, Consistent, Shaped
<1> QED
  BY <1>1, CoarseOperations DEF Still, Spends

\* A chain gains at most one transition, its last entry, and one decision, and
\* one chain at most gains anything.
LEMMA OneChainGrows ==
  ASSUME Consistent, Operations, NEW d \in DealId, NEW x \in DealId,
         events'[d] # events[d], events'[x] # events[x]
  PROVE  d = x
<1>1. ASSUME NEW y, NEW k, Grown(y, k)
      PROVE  d = x
  BY <1>1 DEF Grown
<1>2. ASSUME NEW q, NEW p, NEW decision, NEW at, Commits(q, p, decision, at)
      PROVE  d = x
  BY <1>1, <1>2 DEF Commits, Performs, Holds, Records
<1>3. ASSUME NEW q, NEW c, Grants(q, c) \/ Dismisses(q, c)
      PROVE  d = x
  BY <1>1, <1>3 DEF Grants, Dismisses
<1>4. ASSUME NEW y, NEW c, NEW event, NEW k, Reports(y, c, event, k)
      PROVE  d = x
  BY <1>1, <1>4 DEF Reports
<1>5. ASSUME NEW y, NEW c, Withdraws(y, c)
      PROVE  d = x
  BY <1>1, <1>5 DEF Withdraws
<1>6. ~ Still
  BY DEF Still
<1> QED
  BY <1>2, <1>3, <1>4, <1>5, <1>6, Zenon DEF Operations

\* A step appends at most one transition, at the end.
LEMMA NewTransitionIsLast ==
  ASSUME Consistent, Operations, NEW d \in DealId,
         NEW i \in DOMAIN events'[d] \ DOMAIN events[d],
         events'[d][i].type = "state_transition"
  PROVE  i = Len(events'[d])
<1>1. ASSUME FromPerformed(d, i) PROVE i = Len(events'[d])
  <2>1. PICK decision \in Decision :
          \E q \in RequestId, p \in Proposals, at \in {1, 2} :
            /\ Performs(q, p, decision, at)
            /\ p.deal = d /\ i = Len(events[d]) + (at + 1)
    BY <1>1 DEF FromPerformed
  <2>2. PICK q \in RequestId, p \in Proposals, at \in {1, 2} :
          /\ Performs(q, p, decision, at)
          /\ p.deal = d /\ i = Len(events[d]) + (at + 1)
    BY <2>1
  <2>3. Grown(d, at + 1)
    BY <2>2 DEF Performs
  <2> QED
    BY <2>2, <2>3 DEF Grown
<1>2. FromBoundary(d, i) => i = Len(events'[d])
  BY DEF FromBoundary, Reports, Grown
<1>3. FromGrant(d, i, 2) => i = Len(events'[d])
  BY DEF FromGrant, Grants, Grown
<1> QED
  BY <1>1, <1>2, <1>3, NewEntry

\* A step appends at most one policy decision to a chain.
LEMMA NewDecisionIsOne ==
  ASSUME Consistent, Operations, NEW d \in DealId,
         NEW i \in DOMAIN events'[d] \ DOMAIN events[d],
         NEW j \in DOMAIN events'[d] \ DOMAIN events[d],
         events'[d][i].type = "policy_decision",
         events'[d][j].type = "policy_decision"
  PROVE  i = j
<1> DEFINE n == Len(events[d])
<1>1. ASSUME NEW h \in DOMAIN events'[d] \ DOMAIN events[d],
             events'[d][h].type = "policy_decision"
      PROVE  \/ h = n + 1
             \/ h = n + 2 /\ events'[d][n + 1].type = "message"
  <2>1. FromRequest(d, h)
    BY <1>1, NewEntry
  <2>2. PICK q, p, decision, at :
          /\ Decides(q, p, decision, at) /\ at \in {1, 2}
          /\ p.deal = d /\ h = n + at
    BY <2>1 DEF FromRequest
  <2> QED
    BY <2>2, EntryKinds DEF Decides, New
<1>2. n \in Nat
  BY ChainsKept
<1> HIDE DEF n
<1>3. i \in {n + 1, n + 2} /\ j \in {n + 1, n + 2}
  BY <1>1
<1> QED
  BY <1>1, <1>2, <1>3

\* A step keeps one effect to one cause.
LEMMA EffectsStep ==
  ASSUME Consistent, Effects, Operations
  PROVE  Effects'
<1>1. DecidedAreStored'
  <2> SUFFICES ASSUME NEW d \in DealId, NEW i \in DOMAIN events'[d],
                      events'[d][i].type = "policy_decision"
               PROVE  decisions'[events'[d][i].proposal.key] =
                        [ proposal |-> events'[d][i].proposal,
                          decision |-> events'[d][i].decision ]
    BY DEF DecidedAreStored
  <2>1. CASE i \in DOMAIN events[d]
    <3>1. /\ events'[d][i] = events[d][i]
          /\ events[d][i].type = "policy_decision"
          /\ events[d][i].proposal.key \in Key
      BY <2>1, ChainsKept, EntryNames
    <3>2. decisions[events[d][i].proposal.key] =
            [ proposal |-> events[d][i].proposal,
              decision |-> events[d][i].decision ]
      BY <2>1, <3>1 DEF Effects, DecidedAreStored
    <3>3. decisions[events[d][i].proposal.key] # NoDecision
      BY <2>1, <3>1, DecidedIsStored DEF Effects
    <3> QED
      BY <3>1, <3>2, <3>3, UsedUp
  <2>2. CASE i \notin DOMAIN events[d]
    <3>1. PICK q, p, decision, at :
            /\ Decides(q, p, decision, at)
            /\ events'[d][i] = DecisionEntry(q, p, decision)
      BY <2>2, NewEntry DEF FromRequest
    <3>2. p.key \in Key
      BY <3>1, LedgerAssumption DEF Decides
    <3>3. decisions'[p.key] = [proposal |-> p, decision |-> decision]
      BY <3>1, <3>2 DEF Decides, Consistent, Shaped
    <3> QED
      BY <3>1, <3>3, EntryKinds
  <2> QED
    BY <2>1, <2>2
<1>2. MovedAreSpent'
  <2> SUFFICES ASSUME NEW d \in DealId, NEW i \in DOMAIN events'[d],
                      events'[d][i].type = "state_transition",
                      NEW c, c = events'[d][i].cause
               PROVE  \/ c \in seen_commands'
                      \/ /\ c \in seen_requests'
                         /\ \/ approvals'[c] = NoApproval
                            \/ approvals'[c].status = "granted"
    BY DEF MovedAreSpent
  <2>1. CASE i \in DOMAIN events[d]
    <3>1. \/ c \in seen_commands
          \/ /\ c \in seen_requests
             /\ approvals[c] = NoApproval \/ approvals[c].status = "granted"
      BY <2>1, ChainsKept DEF Effects, MovedAreSpent
    <3>2. ASSUME c \in seen_requests,
                 approvals[c] = NoApproval \/ approvals[c].status = "granted"
          PROVE  approvals'[c] = approvals[c]
      <4>1. c \in RequestId /\ approvals[c].status # "pending"
        BY <3>2 DEF Consistent, Shaped, NoApproval
      <4>2. ASSUME NEW q, NEW p, NEW decision, NEW at,
                   Holds(q, p, decision, at)
            PROVE  approvals'[c] = approvals[c]
        BY <3>2, <4>1, <4>2 DEF Holds, Decides, Consistent, Shaped
      <4>3. ASSUME NEW q, NEW x, Grants(q, x) \/ Dismisses(q, x)
            PROVE  approvals'[c] = approvals[c]
        BY <4>1, <4>3 DEF Grants, Dismisses, Consistent, Shaped
      <4>4. CASE UNCHANGED approvals
        BY <4>4
      <4> QED
        BY <4>2, <4>3, <4>4
           DEF Operations, Still, Commits, Performs, Records, Reports, Withdraws
    <3> QED
      BY <3>1, <3>2, UsedUp
  <2>2. CASE i \notin DOMAIN events[d]
    <3>1. ASSUME FromPerformed(d, i)
          PROVE  c \in seen_requests' /\ approvals'[c] = NoApproval
      <4>1. PICK q, p, decision, at :
              /\ Performs(q, p, decision, at)
              /\ p.deal = d /\ i = Len(events[d]) + (at + 1)
        BY <3>1 DEF FromPerformed
      <4>2. c = q
        BY <4>1, EntryKinds DEF Performs, New
      <4> QED
        BY <4>1, <4>2 DEF Performs, Decides, Consistent, HeldAreSeen
    <3>2. ASSUME FromBoundary(d, i)
          PROVE  c \in seen_commands'
      BY <3>2, EntryKinds DEF FromBoundary, Reports, Spends, New
    <3>3. ASSUME FromGrant(d, i, 2)
          PROVE  c \in seen_requests' /\ approvals'[c].status = "granted"
      <4>1. PICK q \in RequestId, x \in CommandId :
              Grants(q, x) /\ approvals[q].deal = d /\ i = Len(events[d]) + 2
        BY <3>3 DEF FromGrant
      <4>2. c = q
        BY <4>1, EntryKinds DEF Grants, New
      <4>3. approvals'[q].status = "granted"
        BY <4>1 DEF Grants, Approval, Consistent, Shaped
      <4>4. approvals[q] # NoApproval /\ seen_requests' = seen_requests
        BY <4>1 DEF Grants, Approval, NoApproval, Spends
      <4> QED
        BY <4>2, <4>3, <4>4 DEF Consistent, HeldAreSeen
    <3> QED
      BY <2>2, <3>1, <3>2, <3>3, NewEntry
  <2> QED
    BY <2>1, <2>2
<1>3. StoredAreDecided'
  <2> SUFFICES ASSUME NEW k \in Key, decisions'[k] # NoDecision
               PROVE  \E d \in DealId : \E i \in DOMAIN events'[d] :
                        /\ events'[d][i].type = "policy_decision"
                        /\ events'[d][i].proposal.key = k
    BY DEF StoredAreDecided
  <2>1. CASE decisions[k] # NoDecision
    <3>1. PICK d, i :
            /\ d \in DealId /\ i \in DOMAIN events[d]
            /\ events[d][i].type = "policy_decision"
            /\ events[d][i].proposal.key = k
      BY <2>1 DEF Effects, StoredAreDecided
    <3> QED
      BY <3>1, ChainsKept
  <2>2. CASE decisions[k] = NoDecision
    <3>1. PICK q, p, decision, at : Commits(q, p, decision, at) /\ p.key = k
      <4>1. decisions' # decisions
        BY <2>2
      <4>2. ASSUME NEW q, NEW p, NEW decision, NEW at, Commits(q, p, decision, at)
            PROVE  p.key = k
        <5>1. Decides(q, p, decision, at)
          BY <4>2 DEF Commits, Performs, Holds, Records
        <5> QED
          BY <2>2, <5>1 DEF Decides, Consistent, Shaped
      <4> QED
        BY <4>1, <4>2
           DEF Operations, Still, Reports, Grants, Dismisses, Withdraws, Spends
    <3> DEFINE d == p.deal
    <3>2. /\ d \in DealId /\ at \in {1, 2}
          /\ New(d, at) = DecisionEntry(q, p, decision)
      BY <3>1 DEF Commits, Performs, Holds, Records, Decides
    <3>3. Grown(d, at) \/ Grown(d, at + 1)
      BY <3>1 DEF Commits, Performs, Holds, Records
    <3>4. Len(events[d]) + at \in DOMAIN events'[d]
      <4>1. /\ Len(events'[d]) \in
                 {Len(events[d]) + at, Len(events[d]) + (at + 1)}
            /\ Len(events[d]) \in Nat
            /\ DOMAIN events'[d] = 1..Len(events'[d])
        BY <3>2, <3>3, ChainsKept DEF Grown
      <4>2. at >= 1 /\ at \in Nat
        BY <3>2
      <4>3. PICK n, m : n = Len(events[d]) /\ m = Len(events'[d])
        OBVIOUS
      <4>4. n \in Nat /\ (m = n + at \/ m = n + (at + 1))
        BY <4>1, <4>3
      <4>5. n + at \in 1..m
        BY <4>2, <4>4
      <4> QED
        BY <4>1, <4>3, <4>5
    <3> QED
      BY <3>1, <3>2, <3>4, EntryKinds DEF New
  <2> QED
    BY <2>1, <2>2
<1>4. DecidedOnce'
  <2> SUFFICES ASSUME NEW d \in DealId, NEW x \in DealId,
                      NEW i \in DOMAIN events'[d], NEW j \in DOMAIN events'[x],
                      events'[d][i].type = "policy_decision",
                      events'[x][j].type = "policy_decision",
                      events'[d][i].proposal.key = events'[x][j].proposal.key
               PROVE  d = x /\ i = j
    BY DEF DecidedOnce
  <2>1. ASSUME NEW y \in DealId, NEW h \in DOMAIN events'[y],
               events'[y][h].type = "policy_decision", h \notin DOMAIN events[y],
               NEW z \in DealId, NEW g \in DOMAIN events'[z],
               events'[z][g].type = "policy_decision", g \in DOMAIN events[z]
        PROVE  events'[z][g].proposal.key # events'[y][h].proposal.key
    <3>1. PICK q, p, decision, at :
            /\ Decides(q, p, decision, at)
            /\ events'[y][h] = DecisionEntry(q, p, decision)
      BY <2>1, NewEntry DEF FromRequest
    <3>2. decisions[events'[z][g].proposal.key] # NoDecision
      BY <2>1, ChainsKept, DecidedIsStored DEF Effects
    <3> QED
      BY <3>1, <3>2, EntryKinds DEF Decides
  <2>2. CASE i \in DOMAIN events[d] /\ j \in DOMAIN events[x]
    <3>1. events'[d][i] = events[d][i] /\ events'[x][j] = events[x][j]
      BY <2>2, ChainsKept
    <3> QED
      BY <2>2, <3>1 DEF Effects, DecidedOnce
  <2>3. CASE i \notin DOMAIN events[d] /\ j \notin DOMAIN events[x]
    <3>1. d = x
      BY <2>3, OneChainGrows
    <3> QED
      BY <2>3, <3>1, NewDecisionIsOne
  <2>4. CASE i \notin DOMAIN events[d] /\ j \in DOMAIN events[x]
    BY <2>1, <2>4
  <2>5. CASE i \in DOMAIN events[d] /\ j \notin DOMAIN events[x]
    BY <2>1, <2>5
  <2> QED
    BY <2>2, <2>3, <2>4, <2>5
<1>5. MovedOnce'
  <2> SUFFICES ASSUME NEW d \in DealId, NEW x \in DealId,
                      NEW i \in DOMAIN events'[d], NEW j \in DOMAIN events'[x],
                      events'[d][i].type = "state_transition",
                      events'[x][j].type = "state_transition",
                      events'[d][i].cause = events'[x][j].cause
               PROVE  d = x /\ i = j
    BY DEF MovedOnce
  <2>1. ASSUME NEW y \in DealId, NEW h \in DOMAIN events'[y],
               events'[y][h].type = "state_transition",
               h \notin DOMAIN events[y],
               NEW z \in DealId, NEW g \in DOMAIN events'[z],
               events'[z][g].type = "state_transition", g \in DOMAIN events[z]
        PROVE  events'[y][h].cause # events'[z][g].cause
    <3> DEFINE c == events'[z][g].cause
    <3>1. \/ c \in seen_commands
          \/ /\ c \in seen_requests
             /\ approvals[c] = NoApproval \/ approvals[c].status = "granted"
      BY <2>1, ChainsKept DEF Effects, MovedAreSpent
    <3>2. seen_commands \subseteq CommandId /\ seen_requests \subseteq RequestId
      BY DEF Consistent, Shaped
    <3>3. ASSUME FromPerformed(y, h)
          PROVE  events'[y][h].cause # c
      <4>1. PICK q, p, decision, at :
              /\ Performs(q, p, decision, at)
              /\ p.deal = y /\ h = Len(events[y]) + (at + 1)
        BY <3>3 DEF FromPerformed
      <4>2. events'[y][h].cause = q
        BY <4>1, EntryKinds DEF Performs, New
      <4> QED
        BY <3>1, <3>2, <4>1, <4>2, LedgerAssumption DEF Performs, Decides
    <3>4. ASSUME FromBoundary(y, h)
          PROVE  events'[y][h].cause # c
      <4>1. PICK x1, event, k :
              Reports(y, x1, event, k) /\ h = Len(events[y]) + k
        BY <3>4 DEF FromBoundary
      <4>2. events'[y][h].cause = x1
        BY <4>1, EntryKinds DEF Reports, New
      <4> QED
        BY <3>1, <3>2, <4>1, <4>2, LedgerAssumption DEF Reports, Spends
    <3>5. ASSUME FromGrant(y, h, 2)
          PROVE  events'[y][h].cause # c
      <4>1. PICK q \in RequestId, x1 \in CommandId :
              /\ Grants(q, x1)
              /\ approvals[q].deal = y /\ h = Len(events[y]) + 2
        BY <3>5 DEF FromGrant
      <4>2. events'[y][h].cause = q
        BY <4>1, EntryKinds DEF Grants, New
      <4>3. approvals[q].status = "pending"
        BY <4>1 DEF Grants
      <4> QED
        <5>1. q \notin seen_commands
          BY <3>2, LedgerAssumption
        <5>2. approvals[q] # NoApproval /\ approvals[q].status # "granted"
          BY <4>3 DEF NoApproval
        <5> QED
          BY <3>1, <4>2, <5>1, <5>2
    <3>6. \/ FromPerformed(y, h) \/ FromBoundary(y, h) \/ FromGrant(y, h, 2)
      BY <2>1, NewEntry
    <3> QED
      BY <3>3, <3>4, <3>5, <3>6
  <2>2. CASE i \in DOMAIN events[d] /\ j \in DOMAIN events[x]
    <3>1. events'[d][i] = events[d][i] /\ events'[x][j] = events[x][j]
      BY <2>2, ChainsKept
    <3> QED
      BY <2>2, <3>1 DEF Effects, MovedOnce
  <2>3. CASE i \notin DOMAIN events[d] /\ j \notin DOMAIN events[x]
    <3>1. d = x
      BY <2>3, OneChainGrows
    <3> QED
      BY <2>3, <3>1, NewTransitionIsLast
  <2>4. CASE i \notin DOMAIN events[d] /\ j \in DOMAIN events[x]
    BY <2>1, <2>4
  <2>5. CASE i \in DOMAIN events[d] /\ j \notin DOMAIN events[x]
    BY <2>1, <2>5
  <2> QED
    BY <2>2, <2>3, <2>4, <2>5
<1> QED
  BY <1>1, <1>2, <1>3, <1>4, <1>5 DEF Effects

\* The sets of places that SideEffectsOnce counts have one element at most.
LEMMA OneAtMost ==
  ASSUME NEW S, \A one \in S, other \in S : one = other
  PROVE  /\ Cardinality(S) <= 1
         /\ S # {} => Cardinality(S) = 1
         /\ S = {} => Cardinality(S) = 0
<1>1. CASE S = {}
  BY <1>1, FS_EmptySet
<1>2. CASE S # {}
  <2>1. PICK one : S = {one}
    BY <1>2
  <2>2. Cardinality(S) = 1
    BY <2>1, FS_Singleton
  <2> QED
    BY <1>2, <2>2
<1> QED
  BY <1>1, <1>2

\* What is used up has had its effect once.
LEMMA EffectsAreOnce == Effects => SideEffectsOnce
<1> SUFFICES ASSUME Effects PROVE SideEffectsOnce
  OBVIOUS
<1> DEFINE AllPlaces == UNION {{d} \X DOMAIN events[d] : d \in DealId}
           KeyPlaces(k) ==
             {place \in AllPlaces :
                /\ events[place[1]][place[2]].type = "policy_decision"
                /\ events[place[1]][place[2]].proposal.key = k}
           MovePlaces(c) ==
             {place \in AllPlaces :
                /\ events[place[1]][place[2]].type = "state_transition"
                /\ events[place[1]][place[2]].cause = c}
<1>1. ASSUME NEW place \in AllPlaces
      PROVE  /\ place = <<place[1], place[2]>>
             /\ place[1] \in DealId
             /\ place[2] \in DOMAIN events[place[1]]
  OBVIOUS
<1>2. ASSUME NEW k \in Key
      PROVE  Cardinality(KeyPlaces(k)) =
               (IF decisions[k] = NoDecision THEN 0 ELSE 1)
  <2>1. \A one \in KeyPlaces(k), other \in KeyPlaces(k) : one = other
    BY <1>1 DEF Effects, DecidedOnce
  <2>2. KeyPlaces(k) # {} => decisions[k] # NoDecision
    BY <1>1, DecidedIsStored DEF Effects
  <2>3. decisions[k] # NoDecision => KeyPlaces(k) # {}
    <3> SUFFICES ASSUME decisions[k] # NoDecision PROVE KeyPlaces(k) # {}
      OBVIOUS
    <3>1. PICK d, i :
            /\ d \in DealId /\ i \in DOMAIN events[d]
            /\ events[d][i].type = "policy_decision"
            /\ events[d][i].proposal.key = k
      BY DEF Effects, StoredAreDecided
    <3>2. <<d, i>> \in KeyPlaces(k)
      BY <3>1
    <3> QED
      BY <3>2
  <2> HIDE DEF KeyPlaces
  <2> QED
    BY <2>1, <2>2, <2>3, OneAtMost
<1>3. ASSUME NEW c \in Cause
      PROVE  Cardinality(MovePlaces(c)) <= 1
  <2>1. \A one \in MovePlaces(c), other \in MovePlaces(c) : one = other
    BY <1>1 DEF Effects, MovedOnce
  <2> HIDE DEF MovePlaces
  <2> QED
    BY <2>1, OneAtMost
<1> QED
  BY <1>2, <1>3 DEF SideEffectsOnce, Places

\* Retries and redeliveries have no second effect, over all the chains: an
\* idempotency key is decided once and only if it is stored, and no request or
\* command moves a deal twice, whether the move came at once, by a grant or
\* from the boundary.
THEOREM SideEffectsOnceHolds == Spec => []SideEffectsOnce
<1>1. Init => Effects
  BY DEF Init, Effects, DecidedAreStored, MovedAreSpent, StoredAreDecided,
         DecidedOnce, MovedOnce
<1>2. Sound /\ Effects /\ [Next]_vars => Effects'
  BY SoundIsConsistent, StepOperations, EffectsStep DEF Sound
<1> QED
  BY <1>1, <1>2, EffectsAreOnce, SoundHolds, PTL DEF Spec

-----------------------------------------------------------------------------
(* Approvals.                                                              *)

\* The trail of request q on the chain of d, if a is the approval it opened.
TrailFits(a, chain, d, q) ==
  LET trail == ApprovalTrail(chain, q)
      Says(i, operation) ==
        chain[i] = ApprovalEntry(operation, q, a.action, a.amount)
  IN  IF a = NoApproval \/ (a # NoApproval /\ a.deal # d) THEN trail = {}
      ELSE \E i \in trail :
             /\ Says(i, "required")
             /\ IF a.status = "pending" THEN trail = {i}
                ELSE \E j \in trail :
                       i < j /\ Says(j, a.status) /\ trail = {i, j}

\* What a step adds to a trail is the new entries of its request.
LEMMA NewTrail ==
  ASSUME Sound, Operations, NEW d \in DealId, NEW q \in RequestId
  PROVE  ApprovalTrail(events'[d], q) =
           ApprovalTrail(events[d], q) \cup
           {i \in DOMAIN events'[d] \ DOMAIN events[d] :
              events'[d][i].type = "approval" /\ events'[d][i].cause = q}
BY SoundIsConsistent, ChainsKept DEF ApprovalTrail

\* An approval's trail is untouched where its request gets no entry.
LEMMA TrailKept ==
  ASSUME Sound, Operations, NEW d \in DealId, NEW q \in RequestId, NEW a,
         TrailFits(a, events[d], d, q),
         \A i \in DOMAIN events'[d] \ DOMAIN events[d] :
           ~ (events'[d][i].type = "approval" /\ events'[d][i].cause = q)
  PROVE  TrailFits(a, events'[d], d, q)
<1>1. ApprovalTrail(events'[d], q) = ApprovalTrail(events[d], q)
  <2> DEFINE Added == {i \in DOMAIN events'[d] \ DOMAIN events[d] :
                         /\ events'[d][i].type = "approval"
                         /\ events'[d][i].cause = q}
  <2>1. Added = {}
    OBVIOUS
  <2>2. ApprovalTrail(events'[d], q) = ApprovalTrail(events[d], q) \cup Added
    BY NewTrail
  <2> HIDE DEF Added
  <2> QED
    BY <2>1, <2>2
<1>2. \A i \in ApprovalTrail(events[d], q) : events'[d][i] = events[d][i]
  BY SoundIsConsistent, ChainsKept DEF ApprovalTrail
<1> QED
  BY <1>1, <1>2 DEF TrailFits

\* A request that is held opens its trail.
LEMMA HeldTrail ==
  ASSUME Sound, Operations, NEW q, NEW p, NEW decision, NEW at,
         Holds(q, p, decision, at),
         TrailFits(approvals[q], events[p.deal], p.deal, q)
  PROVE  TrailFits(approvals'[q], events'[p.deal], p.deal, q)
<1> DEFINE d == p.deal
           n == Len(events[d])
           i == n + (at + 1)
<1>1. /\ q \in RequestId /\ d \in DealId /\ at \in {1, 2}
      /\ q \notin seen_requests /\ n \in Nat
      /\ Grown(d, at + 1) /\ DOMAIN events'[d] = 1..i
  BY SoundIsConsistent, ChainsKept DEF Holds, Decides, Grown
<1>2. ApprovalTrail(events[d], q) = {}
  BY <1>1 DEF TrailFits, Sound, HeldAreSeen
<1>3. /\ events'[d][i] = ApprovalEntry("required", q, p.action, p.amount)
      /\ events'[d][n + at].type = "policy_decision"
      /\ at = 2 => events'[d][n + 1].type = "message"
  BY EntryKinds DEF Holds, Decides, New
<1>4. /\ approvals'[q].deal = d /\ approvals'[q].status = "pending"
      /\ approvals'[q].action = p.action /\ approvals'[q].amount = p.amount
      /\ approvals'[q] # NoApproval
  BY <1>1 DEF Holds, Sound, TypeOK, Shaped, NoApproval
<1> HIDE DEF d, n
<1>5. DOMAIN events[d] = 1..n
  BY <1>1, SoundIsConsistent, ChainsKept DEF n
<1>6. ASSUME NEW j \in DOMAIN events'[d] \ DOMAIN events[d], j # i
      PROVE  events'[d][j].type # "approval"
  <2>1. CASE at = 1
    BY <1>1, <1>3, <1>5, <1>6, <2>1
  <2>2. CASE at = 2
    BY <1>1, <1>3, <1>5, <1>6, <2>2
  <2> QED
    BY <1>1, <2>1, <2>2
<1>7. i \in DOMAIN events'[d] \ DOMAIN events[d]
  BY <1>1, <1>5
<1> HIDE DEF i
<1>8. ApprovalTrail(events'[d], q) = {i}
  <2> DEFINE added == {j \in DOMAIN events'[d] \ DOMAIN events[d] :
                         events'[d][j].type = "approval"
                           /\ events'[d][j].cause = q}
  <2>1. events'[d][i].type = "approval" /\ events'[d][i].cause = q
    BY <1>3, EntryKinds
  <2>2. added = {i}
    BY <1>6, <1>7, <2>1
  <2>3. ApprovalTrail(events'[d], q) = ApprovalTrail(events[d], q) \cup added
    BY <1>1, NewTrail
  <2> QED
    BY <1>2, <2>2, <2>3
<1> QED
  BY <1>3, <1>4, <1>8 DEF TrailFits, d

\* A person's answer closes it.
LEMMA AnsweredTrail ==
  ASSUME Sound, Operations, NEW q, NEW c,
         Grants(q, c) \/ Dismisses(q, c),
         NEW d, d = approvals[q].deal,
         TrailFits(approvals[q], events[d], d, q)
  PROVE  TrailFits(approvals'[q], events'[d], d, q)
<1> DEFINE a == approvals[q]
           n == Len(events[d])
           j == n + 1
           status == approvals'[q].status
<1>1. /\ q \in RequestId /\ a \in Approval /\ a # NoApproval /\ d \in DealId
      /\ a.status = "pending"
  BY DEF Grants, Dismisses, Approval, NoApproval
<1>2. /\ approvals'[q].action = a.action /\ approvals'[q].amount = a.amount
      /\ approvals'[q].deal = d /\ status # "pending"
      /\ approvals'[q] # NoApproval
      /\ \/ status = "granted" /\ Grants(q, c)
         \/ status = "denied" /\ Dismisses(q, c)
  <2>1. CASE Grants(q, c)
    <3>1. approvals'[q] = [a EXCEPT !.status = "granted"]
      BY <1>1, <2>1 DEF Grants, Sound, TypeOK, Shaped
    <3> QED
      BY <1>1, <2>1, <3>1 DEF Approval, NoApproval
  <2>2. CASE Dismisses(q, c)
    <3>1. approvals'[q] = [a EXCEPT !.status = "denied"]
      BY <1>1, <2>2 DEF Dismisses, Sound, TypeOK, Shaped
    <3> QED
      BY <1>1, <2>2, <3>1 DEF Approval, NoApproval
  <2> QED
    BY <2>1, <2>2
<1>3. /\ n \in Nat /\ DOMAIN events[d] = 1..n
      /\ DOMAIN events'[d] = 1..Len(events'[d])
  BY <1>1, SoundIsConsistent, ChainsKept
<1>4. /\ events'[d][j] = ApprovalEntry(status, q, a.action, a.amount)
      /\ \/ Len(events'[d]) = n + 1
         \/ Len(events'[d]) = n + 2
            /\ events'[d][n + 2].type = "state_transition"
  <2>1. CASE status = "granted" /\ Grants(q, c)
    <3>1. /\ Grown(d, 2)
          /\ New(d, 1) = ApprovalEntry("granted", q, a.action, a.amount)
          /\ New(d, 2).type = "state_transition"
      BY <2>1, EntryKinds DEF Grants
    <3> QED
      BY <2>1, <3>1 DEF New, Grown
  <2>2. CASE status = "denied" /\ Dismisses(q, c)
    <3>1. /\ Grown(d, 1)
          /\ New(d, 1) = ApprovalEntry("denied", q, a.action, a.amount)
      BY <2>2 DEF Dismisses
    <3> QED
      BY <2>2, <3>1 DEF New, Grown
  <2> QED
    BY <1>2, <2>1, <2>2
<1>5. PICK i \in ApprovalTrail(events[d], q) :
        /\ events[d][i] = ApprovalEntry("required", q, a.action, a.amount)
        /\ ApprovalTrail(events[d], q) = {i}
  BY <1>1 DEF TrailFits
<1>6. i \in 1..n /\ events'[d][i] = events[d][i]
  BY <1>1, <1>3, SoundIsConsistent, ChainsKept DEF ApprovalTrail
<1> HIDE DEF a, n, status
<1>7. j \in DOMAIN events'[d] \ DOMAIN events[d]
  BY <1>3, <1>4
<1>8. ASSUME NEW h \in DOMAIN events'[d] \ DOMAIN events[d], h # j
      PROVE  events'[d][h].type # "approval"
  BY <1>3, <1>4, <1>8
<1>9. i < j
  BY <1>3, <1>6
<1> HIDE DEF j
<1>10. ApprovalTrail(events'[d], q) = {i, j}
  <2> DEFINE Added == {h \in DOMAIN events'[d] \ DOMAIN events[d] :
                         /\ events'[d][h].type = "approval"
                         /\ events'[d][h].cause = q}
  <2>1. Added = {j}
    BY <1>4, <1>7, <1>8, EntryKinds
  <2>2. ApprovalTrail(events'[d], q) = ApprovalTrail(events[d], q) \cup Added
    BY <1>1, NewTrail
  <2> HIDE DEF Added
  <2> QED
    BY <1>5, <2>1, <2>2
<1> QED
  BY <1>1, <1>2, <1>4, <1>5, <1>6, <1>9, <1>10 DEF TrailFits, status

\* A step keeps every approval's trail as long as its status says.
LEMMA ApprovalDecidedOnceStep ==
  Sound /\ ApprovalDecidedOnce /\ [Next]_vars => ApprovalDecidedOnce'
<1>1. ApprovalDecidedOnce =>
        \A d \in DealId, q \in RequestId :
          TrailFits(approvals[q], events[d], d, q)
  BY DEF ApprovalDecidedOnce, TrailFits
<1>2. (\A d \in DealId, q \in RequestId :
         TrailFits(approvals'[q], events'[d], d, q)) => ApprovalDecidedOnce'
  BY DEF ApprovalDecidedOnce, TrailFits
<1> SUFFICES ASSUME Sound, Operations, NEW d \in DealId, NEW q \in RequestId,
                    TrailFits(approvals[q], events[d], d, q)
             PROVE  TrailFits(approvals'[q], events'[d], d, q)
  BY <1>1, <1>2, StepOperations DEF Sound
<1>3. CASE approvals'[q] = approvals[q]
  <2> SUFFICES ASSUME NEW i \in DOMAIN events'[d] \ DOMAIN events[d],
                      events'[d][i].type = "approval",
                      events'[d][i].cause = q
               PROVE  FALSE
    BY <1>3, TrailKept
  <2>1. ~ FromHeld(d, i)
    <3>1. ASSUME NEW x, NEW p, NEW decision, NEW at, p.deal = d,
                 Holds(x, p, decision, at), i = Len(events[d]) + (at + 1)
          PROVE  FALSE
      <4>1. x = q
        BY <3>1, EntryKinds DEF Holds, New
      <4>2. approvals[q] = NoApproval /\ approvals'[q].status = "pending"
        BY <3>1, <4>1
           DEF Holds, Decides, Sound, HeldAreSeen, TypeOK, Shaped
      <4> QED
        BY <1>3, <4>2 DEF NoApproval
    <3> QED
      BY <3>1 DEF FromHeld
  <2>2. ASSUME NEW x, NEW c, Grants(x, c) \/ Dismisses(x, c),
               approvals[x].deal = d, i = Len(events[d]) + 1
        PROVE  FALSE
    <3>1. x = q
      BY <2>2, EntryKinds DEF Grants, Dismisses, New
    <3>2. approvals[q].status = "pending" /\ approvals'[q].status # "pending"
      BY <2>2, <3>1 DEF Grants, Dismisses, Approval, Sound, TypeOK, Shaped
    <3> QED
      BY <1>3, <3>2
  <2> QED
    BY <2>1, <2>2, SoundIsConsistent, NewEntry DEF FromGrant, FromDismissal
<1>4. CASE approvals'[q] # approvals[q]
  <2>1. ASSUME NEW x, NEW p, NEW decision, NEW at, Holds(x, p, decision, at)
        PROVE  TrailFits(approvals'[q], events'[d], d, q)
    <3>1. x = q
      BY <1>4, <2>1 DEF Holds, Sound, TypeOK, Shaped
    <3>2. CASE p.deal = d
      BY <2>1, <3>1, <3>2, HeldTrail
    <3>3. CASE p.deal # d
      <4>1. approvals[q] = NoApproval /\ approvals'[q].deal # d
        BY <2>1, <3>1, <3>3
           DEF Holds, Decides, Sound, HeldAreSeen, TypeOK, Shaped
      <4>2. events'[d] = events[d]
        BY <2>1, <3>3 DEF Holds, Grown
      <4> QED
        BY <4>1, <4>2 DEF TrailFits
    <3> QED
      BY <3>2, <3>3
  <2>2. ASSUME NEW x, NEW c, Grants(x, c) \/ Dismisses(x, c)
        PROVE  TrailFits(approvals'[q], events'[d], d, q)
    <3>1. x = q
      BY <1>4, <2>2 DEF Grants, Dismisses, Sound, TypeOK, Shaped
    <3>2. CASE approvals[q].deal = d
      BY <2>2, <3>1, <3>2, AnsweredTrail
    <3>3. CASE approvals[q].deal # d
      <4>1. approvals[q] # NoApproval /\ approvals'[q].deal # d
        BY <2>2, <3>1, <3>3
           DEF Grants, Dismisses, Approval, NoApproval, Sound, TypeOK, Shaped
      <4>2. events'[d] = events[d]
        BY <2>2, <3>1, <3>3 DEF Grants, Dismisses, Grown
      <4> QED
        BY <3>3, <4>1, <4>2 DEF TrailFits
    <3> QED
      BY <3>2, <3>3
  <2> QED
    BY <1>4, <2>1, <2>2
       DEF Operations, Commits, Performs, Records, Reports, Withdraws, Still
<1> QED
  BY <1>3, <1>4

\* Human control: every held request is asked about once and answered at most
\* once, for the action and amount that were held, on its own deal's chain.
THEOREM ApprovalDecidedOnceHolds == Spec => []ApprovalDecidedOnce
<1>1. Init => ApprovalDecidedOnce
  BY DEF Init, ApprovalDecidedOnce, ApprovalTrail
<1> QED
  BY <1>1, ApprovalDecidedOnceStep, SoundHolds, PTL DEF Spec

-----------------------------------------------------------------------------
(* The projection.                                                         *)

\* The deal of a held request counts at least one open approval.
LEMMA PendingIsCounted ==
  ASSUME TypeOK, Contract!OpenApprovalsCounted, NEW q \in RequestId,
         Pending(q)
  PROVE  deals[approvals[q].deal].open_approvals > 0
<1> DEFINE d == approvals[q].deal
           open == {x \in RequestId : Pending(x) /\ approvals[x].deal = d}
<1>1. d \in DealId
  BY HeldRow DEF Pending, NoApproval
<1>2. deals[d].open_approvals = Cardinality(open)
  BY <1>1 DEF Contract!OpenApprovalsCounted, Contract!PendingFor,
     Contract!Pending, Pending, Contract!Cardinality, Cardinality
<1>3. IsFiniteSet(open) /\ open # {}
  BY LedgerAssumption, FS_Subset
<1>4. Cardinality(open) # 0 /\ Cardinality(open) \in Nat
  BY <1>3, FS_EmptySet, FS_CardinalityType
<1> QED
  BY <1>2, <1>4

\* The replay of a chain that gained one, two or three entries.
LEMMA ReplayOfGrown ==
  ASSUME Sound, Operations, NEW d \in DealId, NEW k \in {1, 2, 3}, Grown(d, k)
  PROVE  LET r1 == Replayed(Replay(events[d]), New(d, 1))
             r2 == Replayed(r1, New(d, 2))
             r3 == Replayed(r2, New(d, 3))
         IN  /\ k = 1 => Replay(events'[d]) = r1
             /\ k = 2 => Replay(events'[d]) = r2
             /\ k = 3 => Replay(events'[d]) = r3
<1> DEFINE n == Len(events[d])
           m == Len(events'[d])
<1>1. n \in Nat /\ m = n + k
  BY SoundIsConsistent, ChainsKept DEF Grown
<1>2. PICK after : /\ after[n] = Replay(events[d])
                   /\ after[m] = Replay(events'[d])
                   /\ \A i \in (n + 1)..m :
                        after[i] = Replayed(after[i - 1], events'[d][i])
  <2>1. Continues(events'[d], events[d])
    BY SoundIsConsistent, ChainsKept DEF Grown, Continues
  <2>2. PICK after : ReplaysOn(events[d], events'[d], after)
    BY <2>1, ReplayGrown
  <2> QED
    BY <2>2 DEF ReplaysOn
<1> HIDE DEF n, m
<1>3. after[n + 1] = Replayed(after[n], events'[d][n + 1])
  <2>1. n + 1 \in (n + 1)..m /\ (n + 1) - 1 = n
    BY <1>1
  <2> QED
    BY <1>2, <2>1
<1>4. k >= 2 => after[n + 2] = Replayed(after[n + 1], events'[d][n + 2])
  <2>1. k >= 2 => n + 2 \in (n + 1)..m /\ (n + 2) - 1 = n + 1
    BY <1>1
  <2> QED
    BY <1>2, <2>1
<1>5. k = 3 => after[n + 3] = Replayed(after[n + 2], events'[d][n + 3])
  <2>1. k = 3 => n + 3 \in (n + 1)..m /\ (n + 3) - 1 = n + 2
    BY <1>1
  <2> QED
    BY <1>2, <2>1
<1>6. \A j : New(d, j) = events'[d][n + j]
  BY DEF New, n
<1> QED
  BY <1>1, <1>2, <1>3, <1>4, <1>5, <1>6

\* The replay of a chain that one entry was appended to.
LEMMA ReplayOfOne ==
  ASSUME Sound, Operations, NEW d \in DealId, Grown(d, 1)
  PROVE  Replay(events'[d]) = Replayed(Replay(events[d]), New(d, 1))
BY ReplayOfGrown

\* The replay of a chain that two entries were appended to.
LEMMA ReplayOfTwo ==
  ASSUME Sound, Operations, NEW d \in DealId, Grown(d, 2)
  PROVE  Replay(events'[d]) =
           Replayed(Replayed(Replay(events[d]), New(d, 1)), New(d, 2))
BY ReplayOfGrown

\* The replay of a chain that three entries were appended to.
LEMMA ReplayOfThree ==
  ASSUME Sound, Operations, NEW d \in DealId, Grown(d, 3)
  PROVE  Replay(events'[d]) =
           Replayed(Replayed(Replayed(Replay(events[d]), New(d, 1)),
                             New(d, 2)), New(d, 3))
BY ReplayOfGrown

\* Each operation writes the row that its entries amount to.
LEMMA ProjectionStep ==
  ASSUME Sound, Operations, Contract!OpenApprovalsCounted, NEW d \in DealId,
         Known(d), deals[d] = Replay(events[d])
  PROVE  deals'[d] = Replay(events'[d])
<1>1. ASSUME events'[d] = events[d], deals'[d] = deals[d]
      PROVE  deals'[d] = Replay(events'[d])
  BY <1>1
<1>2. ASSUME NEW q, NEW p, NEW decision, NEW at, Commits(q, p, decision, at)
      PROVE  deals'[d] = Replay(events'[d])
  <2>1. /\ at \in {1, 2}
        /\ at = 2 => New(p.deal, 1) = MessageEntry(q)
        /\ New(p.deal, at) = DecisionEntry(q, p, decision)
    BY <1>2 DEF Commits, Performs, Holds, Records, Decides
  <2>2. CASE p.deal # d
    BY <1>1, <1>2, <2>2 DEF Commits, Performs, Holds, Records, OnlyRow, Grown
  <2>3. CASE p.deal = d /\ Grown(d, at + 1)
    <3>1. Replay(events'[d]) = Replayed(deals[d], New(d, at + 1))
      <4>1. CASE at = 1
        <5>1. at + 1 = 2
          BY <4>1
        <5>2. Replay(events'[d]) =
                Replayed(Replayed(deals[d], New(d, 1)), New(d, 2))
          BY <2>3, <5>1, ReplayOfTwo
        <5>3. Replayed(deals[d], New(d, 1)) = deals[d]
          BY <2>1, <2>3, <4>1, ReplayedIdle
        <5> QED
          BY <5>1, <5>2, <5>3
      <4>2. CASE at = 2
        <5>1. at + 1 = 3
          BY <4>2
        <5>2. Replay(events'[d]) =
                Replayed(Replayed(Replayed(deals[d], New(d, 1)), New(d, 2)),
                         New(d, 3))
          BY <2>3, <5>1, ReplayOfThree
        <5>3. /\ Replayed(deals[d], New(d, 1)) = deals[d]
              /\ Replayed(deals[d], New(d, 2)) = deals[d]
          BY <2>1, <2>3, <4>2, ReplayedIdle
        <5> QED
          BY <5>1, <5>2, <5>3
      <4> QED
        BY <2>1, <4>1, <4>2
    <3>2. CASE Performs(q, p, decision, at)
      <4>1. /\ New(d, at + 1) =
                 TransitionEntry(q, ActionEvents[p.action], deals[d], deals'[d],
                                 p.amount)
            /\ deals'[d] = ApplyEvent(deals[d], ActionEvents[p.action],
                 TransitionFor(deals[d].state, ActionEvents[p.action]),
                 p.amount)
        BY <2>3, <3>2 DEF Performs, OnlyRow
      <4> QED
        BY <3>1, <4>1, ReplayedTransition
    <3>3. CASE Holds(q, p, decision, at)
      <4>1. /\ New(d, at + 1) = ApprovalEntry("required", q, p.action, p.amount)
            /\ deals'[d] = [deals[d] EXCEPT !.open_approvals = @ + 1]
        BY <2>3, <3>3 DEF Holds, OnlyRow
      <4> QED
        BY <3>1, <4>1, ReplayedApproval
    <3>4. CASE Records(q, p, decision, at)
      <4>1. Len(events'[d]) = Len(events[d]) + at
            /\ Len(events'[d]) = Len(events[d]) + (at + 1)
        BY <2>3, <3>4 DEF Records, Grown
      <4>2. Len(events[d]) \in Nat /\ at \in Nat
        BY <2>1, SoundIsConsistent, ChainsKept
      <4> DEFINE n == Len(events[d])
                 m == Len(events'[d])
      <4> HIDE DEF n, m
      <4>3. n \in Nat /\ m = n + at /\ m = n + (at + 1)
        BY <4>1, <4>2 DEF n, m
      <4> QED
        BY <4>2, <4>3
    <3> QED
      BY <1>2, <3>2, <3>3, <3>4 DEF Commits
  <2>4. CASE p.deal = d /\ Records(q, p, decision, at)
    <3>1. Grown(d, at) /\ deals' = deals /\ at \in {1, 2, 3}
      BY <2>1, <2>4 DEF Records
    <3>2. CASE at = 1
      <4>1. Replay(events'[d]) = Replayed(deals[d], New(d, 1))
        BY <3>1, <3>2, ReplayOfOne
      <4> QED
        BY <2>1, <2>4, <3>1, <3>2, <4>1, ReplayedIdle
    <3>3. CASE at = 2
      <4>1. Replay(events'[d]) =
              Replayed(Replayed(deals[d], New(d, 1)), New(d, 2))
        BY <3>1, <3>3, ReplayOfTwo
      <4>2. /\ Replayed(deals[d], New(d, 1)) = deals[d]
            /\ Replayed(deals[d], New(d, 2)) = deals[d]
        BY <2>1, <2>4, <3>3, ReplayedIdle
      <4> QED
        BY <3>1, <4>1, <4>2
    <3> QED
      BY <2>1, <3>2, <3>3
  <2> QED
    BY <1>2, <2>2, <2>3, <2>4 DEF Commits, Performs, Holds
<1>3. ASSUME NEW x, NEW c, NEW event, NEW k, Reports(x, c, event, k)
      PROVE  deals'[d] = Replay(events'[d])
  <2>1. CASE x # d
    BY <1>1, <1>3, <2>1 DEF Reports, OnlyRow, Grown
  <2>2. CASE x = d
    <3>1. /\ Grown(d, k) /\ k \in {1, 2}
          /\ k = 2 => New(d, 1) = MessageEntry(c)
          /\ New(d, k) =
               TransitionEntry(c, event, deals[d], deals'[d], NoAmount)
          /\ deals'[d] = ApplyEvent(deals[d], event,
               TransitionFor(deals[d].state, event), NoAmount)
      BY <1>3, <2>2 DEF Reports, OnlyRow
    <3>2. Replay(events'[d]) = Replayed(deals[d], New(d, k))
      <4>1. CASE k = 1
        BY <3>1, <4>1, ReplayOfOne
      <4>2. CASE k = 2
        <5>1. Replay(events'[d]) =
                Replayed(Replayed(deals[d], New(d, 1)), New(d, 2))
          BY <3>1, <4>2, ReplayOfTwo
        <5>2. Replayed(deals[d], New(d, 1)) = deals[d]
          BY <3>1, <4>2, ReplayedIdle
        <5> QED
          BY <4>2, <5>1, <5>2
      <4> QED
        BY <3>1, <4>1, <4>2
    <3> QED
      BY <3>1, <3>2, ReplayedTransition
  <2> QED
    BY <2>1, <2>2
<1>4. ASSUME NEW q, NEW c, Grants(q, c)
      PROVE  deals'[d] = Replay(events'[d])
  <2> DEFINE a == approvals[q]
             event == ActionEvents[a.action]
             target == TransitionFor(deals[d].state, event)
             moved == ApplyEvent(deals[d], event, target, a.amount)
             closed == [deals[d] EXCEPT !.open_approvals = @ - 1]
  <2>1. CASE a.deal # d
    BY <1>1, <1>4, <2>1 DEF Grants, OnlyRow, Grown
  <2>2. CASE a.deal = d
    <3>1. /\ Grown(d, 2)
          /\ New(d, 1) = ApprovalEntry("granted", q, a.action, a.amount)
          /\ New(d, 2) = TransitionEntry(q, event, deals[d], moved, a.amount)
          /\ deals'[d] = Closed(moved)
          /\ Pending(q) /\ q \in RequestId
      BY <1>4, <2>2 DEF Grants, OnlyRow, Pending
    <3>2. deals[d] \in DealRow /\ deals[d].open_approvals > 0
      BY <2>2, <3>1, PendingIsCounted DEF Sound, TypeOK, Shaped
    <3>3. Replayed(deals[d], New(d, 1)) = closed
      BY <3>1, ReplayedApproval
    <3>4. /\ closed.state = deals[d].state
          /\ Closed(moved) = ApplyEvent(closed, event, target, a.amount)
      BY <3>2, ClosedAfterMove
    <3>5. Replay(events'[d]) =
            Replayed(Replayed(deals[d], New(d, 1)), New(d, 2))
      BY <3>1, ReplayOfTwo
    <3> HIDE DEF closed, moved, event, a
    <3>6. Replayed(closed, New(d, 2)) =
            ApplyEvent(closed, event, target, a.amount)
      BY <3>1, <3>4, ReplayedTransition
    <3> QED
      BY <3>1, <3>3, <3>4, <3>5, <3>6
  <2> QED
    BY <2>1, <2>2
<1>5. ASSUME NEW q, NEW c, Dismisses(q, c)
      PROVE  deals'[d] = Replay(events'[d])
  <2> DEFINE a == approvals[q]
  <2>1. CASE a.deal # d
    BY <1>1, <1>5, <2>1 DEF Dismisses, OnlyRow, Grown
  <2>2. CASE a.deal = d
    <3>1. /\ Grown(d, 1)
          /\ New(d, 1) = ApprovalEntry("denied", q, a.action, a.amount)
          /\ deals'[d] = Closed(deals[d])
          /\ Pending(q) /\ q \in RequestId
      BY <1>5, <2>2 DEF Dismisses, OnlyRow, Pending
    <3>2. deals[d] \in DealRow /\ deals[d].open_approvals > 0
      BY <2>2, <3>1, PendingIsCounted DEF Sound, TypeOK, Shaped
    <3>3. Closed(deals[d]) = [deals[d] EXCEPT !.open_approvals = @ - 1]
      BY <3>2, ClosedAfterMove
    <3>4. Replay(events'[d]) = Replayed(deals[d], New(d, 1))
      BY <3>1, ReplayOfOne
    <3>5. Replayed(deals[d], New(d, 1)) =
            [deals[d] EXCEPT !.open_approvals = @ - 1]
      BY <3>1, ReplayedApproval
    <3> QED
      BY <3>1, <3>3, <3>4, <3>5
  <2> QED
    BY <2>1, <2>2
<1>6. ASSUME NEW x, NEW c, Withdraws(x, c)
      PROVE  deals'[d] = Replay(events'[d])
  <2>1. CASE x # d
    BY <1>1, <1>6, <2>1 DEF Withdraws, Grown
  <2>2. CASE x = d
    <3>1. PICK v : Grown(d, 1) /\ New(d, 1) = RevocationEntry(v)
      BY <1>6, <2>2 DEF Withdraws
    <3>2. deals' = deals
      BY <1>6 DEF Withdraws
    <3>3. Replay(events'[d]) = Replayed(deals[d], New(d, 1))
      BY <3>1, ReplayOfOne
    <3> QED
      BY <3>1, <3>2, <3>3, ReplayedIdle
  <2> QED
    BY <2>1, <2>2
<1>7. CASE Still
  BY <1>1, <1>7 DEF Still
<1> QED
  BY <1>2, <1>3, <1>4, <1>5, <1>6, <1>7 DEF Operations

\* The deal row can be thrown away: what the four commit functions write into
\* it, by statements of their own, is what replaying the chain from a draft
\* gives, state and counters.
THEOREM ProjectionIsReplayHolds == Spec => []ProjectionIsReplay
<1>1. Init => ProjectionIsReplay
  BY DEF Init, ProjectionIsReplay, Known, UnknownDeal, DraftDeal
<1>2. Sound /\ Contract!OpenApprovalsCounted /\ ProjectionIsReplay
        /\ [Next]_vars => ProjectionIsReplay'
  <2> SUFFICES ASSUME Sound, Contract!OpenApprovalsCounted,
                      ProjectionIsReplay, Operations, NEW d \in DealId, Known(d)'
               PROVE  deals'[d] = Replay(events'[d])
    BY StepOperations DEF ProjectionIsReplay, Sound
  <2>1. CASE Known(d)
    BY <2>1, ProjectionStep DEF ProjectionIsReplay
  <2>2. CASE ~ Known(d)
    <3>1. events'[d] = <<>>
      BY <2>2, KnownKept DEF Sound, UnknownAreEmpty, DealKept
    <3>2. deals'[d] = DraftDeal
      BY <2>2, KnownKept DEF Sound, DealKept, Known
    <3> QED
      BY <3>1, <3>2, ReplayEmpty
  <2> QED
    BY <2>1, <2>2
<1> QED
  BY <1>1, <1>2, SoundHolds, ContractHoldsOfLedger, PTL DEF Spec


-----------------------------------------------------------------------------
(* Payments.                                                               *)

\* The state of a deal is the one its last transition went to.
LastMove ==
  \A d \in DealId : \A i \in DOMAIN events[d] :
    /\ events[d][i].type = "state_transition"
    /\ \A k \in DOMAIN events[d] :
         events[d][k].type = "state_transition" => k <= i
    => deals[d].state = events[d][i].to

\* A deal moves by a transition on its chain only.
LEMMA MovedByTransition ==
  ASSUME Sound, Operations, NEW d \in DealId, Known(d),
         \A i \in DOMAIN events'[d] \ DOMAIN events[d] :
           events'[d][i].type # "state_transition"
  PROVE  deals'[d].state = deals[d].state
<1>0. ASSUME NEW k \in Nat, NEW j \in 1..k, Grown(d, k),
             New(d, j).type = "state_transition"
      PROVE  FALSE
  <2>1. /\ Len(events[d]) \in Nat
        /\ DOMAIN events[d] = 1..Len(events[d])
        /\ DOMAIN events'[d] = 1..(Len(events[d]) + k)
    BY <1>0, NewPlaces
  <2>2. Len(events[d]) + j \in DOMAIN events'[d] \ DOMAIN events[d]
    BY <2>1
  <2> QED
    BY <1>0, <2>2 DEF New
<1>1. ASSUME NEW q, NEW p, NEW decision, NEW at, Performs(q, p, decision, at)
      PROVE  deals'[d].state = deals[d].state
  <2>1. at + 1 \in Nat /\ at + 1 \in 1..(at + 1)
    BY <1>1 DEF Performs, Decides
  <2>2. Grown(p.deal, at + 1) /\ New(p.deal, at + 1).type = "state_transition"
    BY <1>1, EntryKinds DEF Performs
  <2>3. p.deal # d
    BY <1>0, <2>1, <2>2
  <2> QED
    BY <1>1, <2>3 DEF Performs, OnlyRow
<1>2. ASSUME NEW q, NEW p, NEW decision, NEW at, Holds(q, p, decision, at)
      PROVE  deals'[d].state = deals[d].state
  <2>1. deals[d] \in DealRow
    BY DEF Sound, TypeOK, Shaped
  <2>2. [deals[d] EXCEPT !.open_approvals = @ + 1].state = deals[d].state
    BY <2>1 DEF DealRow
  <2> QED
    BY <1>2, <2>2 DEF Holds, OnlyRow
<1>3. ASSUME NEW x, NEW c, NEW event, NEW k, Reports(x, c, event, k)
      PROVE  deals'[d].state = deals[d].state
  <2>1. k \in Nat /\ k \in 1..k
    BY <1>3 DEF Reports
  <2>2. Grown(x, k) /\ New(x, k).type = "state_transition"
    BY <1>3, EntryKinds DEF Reports
  <2>3. x # d
    BY <1>0, <2>1, <2>2
  <2> QED
    BY <1>3, <2>3 DEF Reports, OnlyRow
<1>4. ASSUME NEW q, NEW c, Grants(q, c)
      PROVE  deals'[d].state = deals[d].state
  <2> DEFINE x == approvals[q].deal
  <2>1. 2 \in Nat /\ 2 \in 1..2
    OBVIOUS
  <2>2. Grown(x, 2) /\ New(x, 2).type = "state_transition"
    BY <1>4, EntryKinds DEF Grants
  <2>3. x # d
    <3> HIDE DEF x
    <3> QED
      BY <1>0, <2>1, <2>2
  <2> QED
    BY <1>4, <2>3 DEF Grants, OnlyRow
<1>5. ASSUME NEW q, NEW c, Dismisses(q, c)
      PROVE  deals'[d].state = deals[d].state
  <2>1. Closed(deals[d]).state = deals[d].state
    BY ClosedType DEF Sound, TypeOK, Shaped
  <2> QED
    BY <1>5, <2>1 DEF Dismisses, OnlyRow
<1>6. CASE UNCHANGED deals \/ Still
  BY <1>6 DEF Still
<1> QED
  BY <1>1, <1>2, <1>3, <1>4, <1>5, <1>6
     DEF Operations, Commits, Records, Withdraws

\* A new transition goes to the state the deal is in after it.
LEMMA NewMoveFits ==
  ASSUME Sound, Operations, NEW d \in DealId,
         NEW i \in DOMAIN events'[d] \ DOMAIN events[d],
         events'[d][i].type = "state_transition"
  PROVE  deals'[d].state = events'[d][i].to
<1>1. ASSUME FromPerformed(d, i)
      PROVE  deals'[d].state = events'[d][i].to
  <2>1. PICK q, p, decision, at :
          /\ Performs(q, p, decision, at) /\ p.deal = d
          /\ i = Len(events[d]) + (at + 1)
    BY <1>1 DEF FromPerformed
  <2>2. events'[d][i] =
          TransitionEntry(q, ActionEvents[p.action], deals[d], deals'[d],
                          p.amount)
    BY <2>1 DEF Performs, New
  <2> QED
    BY <2>2, EntryKinds
<1>2. ASSUME FromBoundary(d, i)
      PROVE  deals'[d].state = events'[d][i].to
  <2>1. PICK c, event, k : Reports(d, c, event, k) /\ i = Len(events[d]) + k
    BY <1>2 DEF FromBoundary
  <2>2. events'[d][i] =
          TransitionEntry(c, event, deals[d], deals'[d], NoAmount)
    BY <2>1 DEF Reports, New
  <2> QED
    BY <2>2, EntryKinds
<1>3. ASSUME FromGrant(d, i, 2)
      PROVE  deals'[d].state = events'[d][i].to
  <2>1. PICK q \in RequestId :
          \E c \in CommandId :
            Grants(q, c) /\ approvals[q].deal = d /\ i = Len(events[d]) + 2
    BY <1>3 DEF FromGrant
  <2> DEFINE a == approvals[q]
             event == ActionEvents[a.action]
             target == TransitionFor(deals[d].state, event)
             moved == ApplyEvent(deals[d], event, target, a.amount)
  <2>2. /\ events'[d][i] = TransitionEntry(q, event, deals[d], moved, a.amount)
        /\ deals'[d] = Closed(moved)
        /\ a \in Approval /\ event \in DealEvent /\ target # NoState
    BY <2>1 DEF Grants, New, OnlyRow
  <2>3. moved \in DealRow
    <3>1. deals[d] \in DealRow /\ a.amount \in Amount
      BY <2>2 DEF Sound, TypeOK, Shaped, Approval
    <3> QED
      BY <2>2, <3>1, ApplyEventType, TransitionForType, TargetType
  <2> HIDE DEF moved
  <2>4. Closed(moved).state = moved.state
    BY <2>3, ClosedType
  <2> QED
    BY <2>2, <2>4, EntryKinds
<1> QED
  BY <1>1, <1>2, <1>3, SoundIsConsistent, NewEntry

\* A step keeps the last transition of a chain in step with its row.
LEMMA LastMoveStep == Sound /\ LastMove /\ [Next]_vars => LastMove'
<1> SUFFICES ASSUME Sound, LastMove, Operations, NEW d \in DealId,
                    NEW i \in DOMAIN events'[d],
                    events'[d][i].type = "state_transition",
                    \A k \in DOMAIN events'[d] :
                      events'[d][k].type = "state_transition" => k <= i
             PROVE  deals'[d].state = events'[d][i].to
  BY StepOperations DEF LastMove, Sound
<1>1. CASE i \notin DOMAIN events[d]
  BY <1>1, NewMoveFits
<1>2. CASE i \in DOMAIN events[d]
  <2>1. /\ events[d][i] = events'[d][i]
        /\ \A k \in DOMAIN events[d] :
             events[d][k].type = "state_transition" => k <= i
    BY <1>2, SoundIsConsistent, ChainsKept
  <2>2. deals[d].state = events[d][i].to
    BY <1>2, <2>1 DEF LastMove
  <2>3. Known(d)
    BY <1>2 DEF Sound, UnknownAreEmpty
  <2>4. ASSUME NEW k \in DOMAIN events'[d] \ DOMAIN events[d],
               events'[d][k].type = "state_transition"
        PROVE  FALSE
    <3>1. k = Len(events'[d])
      BY <2>4, SoundIsConsistent, NewTransitionIsLast
    <3>2. k <= i
      BY <2>4
    <3>3. i \in 1..Len(events[d]) /\ k \notin 1..Len(events[d])
          /\ Len(events[d]) \in Nat /\ k \in Nat /\ k >= 1
      BY <1>2, <2>4, SoundIsConsistent, ChainsKept
    <3> QED
      BY <3>2, <3>3
  <2> QED
    BY <2>1, <2>2, <2>3, <2>4, MovedByTransition
<1> QED
  BY <1>1, <1>2


\* Which approvals and disputes a prefix of a chain leaves open depends on the
\* prefix only.
LEMMA SamePrefix ==
  ASSUME NEW one, NEW other, NEW i \in Nat, SameUpTo(one, other, i)
  PROVE  /\ LeftOpen(one, i) = LeftOpen(other, i)
         /\ InDispute(one, i) = InDispute(other, i)
<1>1. \A j \in 1..i : one[j] = other[j]
  BY DEF SameUpTo
<1>2. LeftOpen(one, i) = LeftOpen(other, i)
  BY <1>1 DEF LeftOpen
<1>3. InDispute(one, i) = InDispute(other, i)
  <2>1. {j \in 1..i : one[j].type = "state_transition"} =
          {j \in 1..i : other[j].type = "state_transition"}
    BY <1>1
  <2> QED
    BY <1>1, <2>1 DEF InDispute
<1> QED
  BY <1>2, <1>3

\* When the counter is zero, the chain leaves no approval open: every request
\* that was held has its answer there.
LEMMA NothingLeftOpen ==
  ASSUME Sound, ApprovalDecidedOnce, Contract!OpenApprovalsCounted,
         NEW d \in DealId, deals[d].open_approvals = 0,
         NEW i \in DOMAIN events[d], events[d][i].type = "approval"
  PROVE  \E j \in DOMAIN events[d] :
           /\ events[d][j].type = "approval"
           /\ events[d][j].operation # "required"
           /\ events[d][j].cause = events[d][i].cause
<1> DEFINE q == events[d][i].cause
           a == approvals[q]
           trail == ApprovalTrail(events[d], q)
<1>1. q \in RequestId
  <2>1. events[d][i] \in Entry
    BY DEF Sound, TypeOK, Shaped
  <2> QED
    BY <2>1 DEF Entry
<1>2. i \in trail
  BY DEF ApprovalTrail
<1>3. a # NoApproval /\ a.deal = d
  BY <1>1, <1>2 DEF ApprovalDecidedOnce
<1>4. a.status # "pending"
  BY <1>1, <1>3, PendingIsCounted DEF Pending, Sound
<1>5. PICK j \in trail :
        events[d][j] = ApprovalEntry(a.status, q, a.action, a.amount)
  BY <1>1, <1>3, <1>4 DEF ApprovalDecidedOnce
<1>6. a.status # "required"
  BY <1>1, <1>3, HeldRow DEF Sound, Approval
<1>7. j \in DOMAIN events[d]
  BY <1>5 DEF ApprovalTrail
<1> QED
  <2> HIDE DEF q, a, trail
  <2>1. /\ events[d][j].type = "approval"
        /\ events[d][j].operation = a.status
        /\ events[d][j].cause = q
    BY <1>5, EntryKinds
  <2> QED
    BY <1>6, <1>7, <2>1 DEF q

\* When no dispute is counted, the chain of a deal that is not cancelled does
\* not end in one.
LEMMA NotInDispute ==
  ASSUME Sound, LastMove, Contract!DisputeIsAState, NEW d \in DealId,
         deals[d].open_disputes = 0, NEW i \in DOMAIN events[d],
         events[d][i].type = "state_transition",
         \A k \in DOMAIN events[d] :
           events[d][k].type = "state_transition" => k <= i
  PROVE  events[d][i].to # "disputed"
<1>1. deals[d].state = events[d][i].to
  BY DEF LastMove
<1>2. deals[d].state = "disputed" => deals[d].open_disputes = 1
  BY DEF Contract!DisputeIsAState
<1> QED
  BY <1>1, <1>2

\* A payment that the engine allows finds nothing open.
LEMMA NewPaymentUnblocked ==
  ASSUME Sound, Operations, Judged, ApprovalDecidedOnce, LastMove,
         Contract!OpenApprovalsCounted, Contract!DisputeIsAState,
         NEW d \in DealId, NEW i \in DOMAIN events'[d] \ DOMAIN events[d],
         events'[d][i].type = "policy_decision",
         events'[d][i].decision.outcome = "allow",
         events'[d][i].proposal.action \in {"initiate_payment", "capture_payment"}
  PROVE  LeftOpen(events'[d], i) = {} /\ ~ InDispute(events'[d], i)
<1> DEFINE n == Len(events[d])
<1>0. PICK q, p, decision, at :
        /\ Decides(q, p, decision, at) /\ at \in {1, 2}
        /\ p.deal = d /\ i = n + at
        /\ events'[d][i] = DecisionEntry(q, p, decision)
  BY SoundIsConsistent, NewEntry DEF FromRequest
<1>1. PICK content :
        /\ Decides(q, p, DecisionOn(p, content), at) /\ at \in {1, 2}
        /\ p.deal = d /\ i = n + at
        /\ events'[d][i] = DecisionEntry(q, p, DecisionOn(p, content))
  BY <1>0 DEF Judged
<1>2. p \in Proposals /\ Known(p.deal) /\ p.action \in PaymentActions
      /\ DecisionOn(p, content).outcome # "deny"
  BY <1>1, EntryKinds DEF Decides, PaymentActions
<1>3. deals[d].open_disputes = 0 /\ deals[d].open_approvals = 0
  BY <1>1, <1>2, DecisionPermits, TypeParts DEF Sound
<1>4. n \in Nat /\ DOMAIN events[d] = 1..n
      /\ \A j \in 1..n : events'[d][j] = events[d][j]
  BY SoundIsConsistent, ChainsKept
<1>5. ASSUME NEW j \in 1..i, j \notin 1..n
      PROVE  events'[d][j].type \in {"message", "policy_decision"}
  <2>1. (at = 2 /\ j = n + 1) \/ j = n + at
    <3> HIDE DEF n
    <3>1. CASE at = 1
      BY <1>1, <1>4, <1>5, <3>1
    <3>2. CASE at = 2
      BY <1>1, <1>4, <1>5, <3>2
    <3> QED
      BY <1>1, <3>1, <3>2
  <2> QED
    BY <1>1, <2>1, EntryKinds DEF Decides, New
<1>6. 1..n \subseteq 1..i
  <2> HIDE DEF n
  <2> QED
    BY <1>1, <1>4
<1> DEFINE chain == events'[d]
<1>7. ASSUME NEW j \in 1..i, chain[j].type = "approval"
      PROVE  \E k \in 1..i : /\ chain[k].type = "approval"
                             /\ chain[k].operation # "required"
                             /\ chain[k].cause = chain[j].cause
  <2>1. j \in 1..n
    BY <1>5, <1>7
  <2>2. events[d][j] = chain[j]
    BY <1>4, <2>1
  <2>3. j \in DOMAIN events[d] /\ events[d][j].type = "approval"
    BY <1>4, <1>7, <2>1, <2>2
  <2>4. PICK k \in DOMAIN events[d] :
          /\ events[d][k].type = "approval"
          /\ events[d][k].operation # "required"
          /\ events[d][k].cause = events[d][j].cause
    BY <1>3, <2>3, NothingLeftOpen
  <2>5. k \in 1..n
    BY <1>4, <2>4
  <2>6. k \in 1..i /\ chain[k] = events[d][k]
    BY <1>4, <1>6, <2>5
  <2> QED
    BY <2>2, <2>4, <2>6
<1>8. ASSUME NEW j \in 1..i, chain[j].type = "state_transition",
             chain[j].to = "disputed",
             \A k \in 1..i : chain[k].type = "state_transition" => k <= j
      PROVE  FALSE
  <2>1. j \in 1..n /\ events[d][j] = chain[j]
    BY <1>4, <1>5, <1>8
  <2>2. \A k \in DOMAIN events[d] :
          events[d][k].type = "state_transition" => k <= j
    BY <1>4, <1>6, <1>8
  <2> QED
    BY <1>3, <1>4, <1>8, <2>1, <2>2, NotInDispute
<1> HIDE DEF chain
<1>9. LeftOpen(chain, i) = {}
  BY <1>7 DEF LeftOpen
<1>10. ~ InDispute(chain, i)
  BY <1>8 DEF InDispute
<1> QED
  BY <1>9, <1>10 DEF chain

\* A step pays nothing while an approval or a dispute is open.
LEMMA PaymentsUnblockedStep ==
  Sound /\ ApprovalDecidedOnce /\ LastMove /\ Contract!OpenApprovalsCounted
    /\ Contract!DisputeIsAState /\ PaymentsUnblocked /\ [Next]_vars
    => PaymentsUnblocked'
<1> SUFFICES ASSUME Sound, ApprovalDecidedOnce, LastMove,
                    Contract!OpenApprovalsCounted, Contract!DisputeIsAState,
                    PaymentsUnblocked, Operations, Judged,
                    NEW d \in DealId, NEW i \in DOMAIN events'[d],
                    events'[d][i].type = "policy_decision",
                    events'[d][i].decision.outcome = "allow",
                    events'[d][i].proposal.action
                      \in {"initiate_payment", "capture_payment"}
             PROVE  LeftOpen(events'[d], i) = {} /\ ~ InDispute(events'[d], i)
  BY StepOperations, StepJudged
     DEF PaymentsUnblocked, Sound, LeftOpen, InDispute
<1>1. CASE i \notin DOMAIN events[d]
  BY <1>1, NewPaymentUnblocked
<1>2. CASE i \in DOMAIN events[d]
  <2>1. events'[d][i] = events[d][i] /\ i \in Nat
    BY <1>2, SoundIsConsistent, ChainsKept
  <2>2. SameUpTo(events'[d], events[d], i)
    BY <1>2, SoundIsConsistent, ChainsKept DEF SameUpTo
  <2>3. LeftOpen(events[d], i) = {} /\ ~ InDispute(events[d], i)
    BY <1>2, <2>1 DEF PaymentsUnblocked
  <2> QED
    BY <2>1, <2>2, <2>3, SamePrefix
<1> QED
  BY <1>1, <1>2

\* The agent never pays on its own beside an open approval or dispute: at the
\* place of every payment decision that was allowed, the chain itself, counters
\* aside, leaves neither open.
THEOREM PaymentsUnblockedHolds == Spec => []PaymentsUnblocked
<1>1. Init => LastMove /\ PaymentsUnblocked
  BY DEF Init, LastMove, PaymentsUnblocked
<1>2. Sound /\ LastMove /\ [Next]_vars => LastMove'
  BY LastMoveStep
<1> QED
  BY <1>1, <1>2, PaymentsUnblockedStep, ApprovalDecidedOnceHolds, SoundHolds,
     ContractHoldsOfLedger, PTL DEF Spec
=============================================================================
