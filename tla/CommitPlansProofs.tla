-------------------------- MODULE CommitPlansProofs --------------------------
(***************************************************************************)
(* What the proofs about the contract and about both ledger stores use of  *)
(* the deal state machine, of the policy engine, of the commit plans and   *)
(* of the chain, for every deal, policy input, request and chain.          *)
(***************************************************************************)
EXTENDS ChainAudit, SequenceTheorems, WellFoundedInduction, TLAPS

-----------------------------------------------------------------------------
(* The transition table.                                                   *)

\* Every event of the table leads to a state of the machine.
LEMMA TargetType == \A event \in DealEvent : Target[event] \in DealState
BY DEF DealEvent, Target, DealState

\* Every event leaves states of the machine only.
LEMMA SourcesType ==
  \A event \in DealEvent : Sources[event] \in SUBSET DealState
<1> SUFFICES ASSUME NEW event \in DealEvent, NEW state \in Sources[event]
             PROVE  state \in DealState
  OBVIOUS
<1>1. CASE event = "cancelled"
  BY <1>1 DEF Sources, DealState
<1>2. CASE event = "expired"
  BY <1>2 DEF Sources, DealState
<1>3. CASE event \in DealEvent \ {"cancelled", "expired"}
  BY <1>3 DEF DealEvent, Sources, DealState
<1> QED
  BY <1>1, <1>2, <1>3

\* The absent target is no state.
LEMMA NoStateApart == NoState \notin DealState
BY DEF NoState, DealState

\* The events actions apply are events of the table.
LEMMA ActionEventsType ==
  \A action \in ActionToken : ActionEvents[action] \in DealEvent \cup {NoEvent}
BY DEF ActionToken, ActionEvents, DealEvent, NoEvent

\* A transition exists exactly from the sources of its event.
LEMMA TransitionForType ==
  ASSUME NEW state, NEW event \in DealEvent
  PROVE  /\ TransitionFor(state, event) # NoState <=> state \in Sources[event]
         /\ state \in Sources[event] =>
              TransitionFor(state, event) = Target[event]
BY TargetType, NoStateApart DEF TransitionFor

\* The counters stay natural numbers.
LEMMA CounterTypes ==
  /\ \A n \in Nat : Decrement(n) \in Nat
  /\ \A amount \in Amount : Minor(amount) \in Nat
BY DEF Decrement, Minor, Amount, NoAmount

-----------------------------------------------------------------------------
(* Rows.                                                                   *)

\* A row is a deal once its state is one, and the updates keep rows rows.
LEMMA DealRowTypes ==
  /\ Deal \subseteq DealRow
  /\ DraftDeal \in Deal
  /\ \A deal \in DealRow : deal.state \in DealState => deal \in Deal
  /\ \A deal \in Deal : \A n \in Nat :
       [deal EXCEPT !.open_approvals = n] \in Deal
  /\ \A deal \in DealRow : \A n \in Nat :
       [deal EXCEPT !.open_approvals = n] \in DealRow
BY DEF DraftDeal, Deal, DealRow, DealState

-----------------------------------------------------------------------------
(* What an event and an action do to one projection.                       *)

\* An event that leaves a state of the machine moves a projection to the
\* event's target and leaves the approval counter alone.
LEMMA ApplyEventType ==
  ASSUME NEW deal \in DealRow, NEW event \in DealEvent, NEW amount \in Amount,
         NEW target \in DealState
  PROVE  /\ ApplyEvent(deal, event, target, amount) \in Deal
         /\ ApplyEvent(deal, event, target, amount) \in DealRow
         /\ ApplyEvent(deal, event, target, amount).state = target
         /\ ApplyEvent(deal, event, target, amount).open_approvals =
              deal.open_approvals
<1> DEFINE moved == ApplyEvent(deal, event, target, amount)
<1>1. deal.negotiated_rounds \in Nat /\ deal.committed_minor \in Nat
      /\ deal.open_disputes \in Nat /\ deal.open_approvals \in Nat
  BY DEF DealRow
<1>2. RoundsAfter(deal, event) \in Nat
  BY <1>1 DEF RoundsAfter
<1>3. CommittedAfter(deal, event, amount) \in Nat
  BY <1>1, CounterTypes DEF CommittedAfter
<1>4. DisputesAfter(deal, event) \in Nat
  BY <1>1, CounterTypes DEF DisputesAfter
<1> QED
  BY <1>1, <1>2, <1>3, <1>4, DealRowTypes DEF ApplyEvent, Deal

\* An action that can move the deal applies its event, and nothing else.
LEMMA ActionIsEvent ==
  ASSUME NEW deal \in DealRow, NEW action \in ActionToken,
         NEW amount \in Amount,
         ActionEvents[action] # NoEvent,
         TransitionFor(deal.state, ActionEvents[action]) # NoState
  PROVE  /\ ActionEvents[action] \in DealEvent
         /\ deal.state \in Sources[ActionEvents[action]]
         /\ Target[ActionEvents[action]] \in DealState
         /\ ApplyAction(deal, action, amount) =
              ApplyEvent(deal, ActionEvents[action],
                         Target[ActionEvents[action]], amount)
<1>1. ActionEvents[action] \in DealEvent
  BY ActionEventsType
<1>2. /\ deal.state \in Sources[ActionEvents[action]]
      /\ TransitionFor(deal.state, ActionEvents[action]) =
           Target[ActionEvents[action]]
  BY <1>1, TransitionForType
<1>3. action # "resolve_dispute"
  BY DEF ActionEvents, NoEvent
<1> QED
  BY <1>1, <1>2, <1>3, TargetType DEF ApplyAction

-----------------------------------------------------------------------------
(* The engine.                                                             *)

\* Steps 12, 12b and 13 allow, or hold for a person.
LEMMA HoldOrAllowType ==
  ASSUME NEW pi
  PROVE  /\ HoldOrAllow(pi) \in Decision
         /\ HoldOrAllow(pi).outcome \in {"allow", "needs_approval"}
BY DEF HoldOrAllow, NeedsApproval, Allow, Decision, Outcomes, ReasonCodes

\* Whatever the engine is given, it answers with a decision.
LEMMA EvaluateType ==
  ASSUME NEW pi
  PROVE  Evaluate(pi) \in Decision
BY HoldOrAllowType
   DEF Evaluate, Deny, NeedsApproval, Decision, Outcomes, ReasonCodes

\* What is allowed or held is an action of the vocabulary, permitted in the
\* deal's state, under a record in force, and no payment beside an open
\* dispute or approval.
LEMMA EvaluatePermits ==
  ASSUME NEW pi, Evaluate(pi).outcome # "deny"
  PROVE  /\ pi.status \notin {"revoked", "expired"}
         /\ pi.proposal.action \in ActionToken
         /\ ~ OutOfPlace(pi)
         /\ IsPayment(pi) => /\ ~ (pi.deal.open_disputes > 0)
                             /\ ~ (pi.deal.open_approvals > 0)
BY DEF Evaluate, Deny

\* What is allowed is also within the cap and the rounds of the mandate.
LEMMA EvaluateAllows ==
  ASSUME NEW pi, Evaluate(pi).outcome = "allow"
  PROVE  ~ OverCap(pi) /\ ~ RoundsUsedUp(pi)
BY DEF Evaluate, Deny, NeedsApproval

-----------------------------------------------------------------------------
(* The plans.                                                              *)

\* Where the engine lets an action start, the table has a transition for it.
LEMMA PermittedHasTransition ==
  ASSUME NEW action \in ActionToken, NEW state \in ActionValidStates[action],
         ActionEvents[action] # NoEvent
  PROVE  TransitionFor(state, ActionEvents[action]) # NoState
<1>1. CASE action = "cancel_deal"
  BY <1>1 DEF ActionValidStates, ActionEvents, TransitionFor, Sources, Target,
              DealState, CancelExcluded, TerminalStates, NoState
<1>2. CASE action \in ActionToken \ {"cancel_deal", "resolve_dispute"}
  BY <1>2 DEF ActionToken, ActionValidStates, ActionEvents, TransitionFor,
              Sources, Target, NoState
<1>3. CASE action = "resolve_dispute"
  BY <1>3 DEF ActionEvents
<1> QED
  BY <1>1, <1>2, <1>3

\* The deal a request's plan leaves: moved by the action's event, with one
\* approval more, or as it was.
LEMMA PlannedDeal ==
  ASSUME NEW deal \in Deal, NEW q, NEW p, NEW r, NEW decision,
         p.amount \in Amount,
         decision.outcome # "deny" => p.action \in ActionToken,
         ~ Stale(deal, PlannedEvent(p, decision))
  PROVE  PlanCommitRequest(deal, q, p, r, decision).deal \in Deal
<1> DEFINE event == PlannedEvent(p, decision)
<1>1. CASE event = NoEvent /\ decision.outcome # "needs_approval"
  BY <1>1 DEF PlanCommitRequest
<1>2. CASE decision.outcome = "needs_approval"
  <2>1. deal.open_approvals + 1 \in Nat
    BY DEF Deal
  <2>2. [deal EXCEPT !.open_approvals = @ + 1] \in Deal
    BY <2>1, DealRowTypes
  <2> QED
    BY <1>2, <2>2 DEF PlanCommitRequest
<1>3. CASE event # NoEvent /\ decision.outcome # "needs_approval"
  <2>1. /\ decision.outcome = "allow"
        /\ event = ActionEvents[p.action]
        /\ p.action \in ActionToken
    BY <1>3 DEF PlannedEvent
  <2>2. /\ ActionEvents[p.action] # NoEvent
        /\ TransitionFor(deal.state, ActionEvents[p.action]) # NoState
    BY <1>3, <2>1 DEF Stale
  <2>3. ApplyAction(deal, p.action, p.amount) \in Deal
    BY <2>1, <2>2, ActionIsEvent, ApplyEventType, DealRowTypes
  <2> QED
    BY <1>3, <2>1, <2>3 DEF PlanCommitRequest
<1> QED
  BY <1>1, <1>2, <1>3

\* Closing an approval changes the counter only.
LEMMA ClosedType ==
  ASSUME NEW deal \in DealRow
  PROVE  /\ Closed(deal) \in DealRow
         /\ deal \in Deal => Closed(deal) \in Deal
         /\ Closed(deal).state = deal.state
<1>1. Decrement(deal.open_approvals) \in Nat
  BY CounterTypes DEF DealRow
<1> QED
  BY <1>1, DealRowTypes DEF Closed, DealRow

\* The entries of a request's plan: a message if there is a text, the
\* decision, and after it the transition it allows or the approval it asks for.
RequestEntries(tail, q, p, decision, event, moved, from, at) ==
  /\ at \in {1, 2}
  /\ DOMAIN tail = 1..Len(tail)
  /\ at = 2 => tail[1] = MessageEntry(q)
  /\ tail[at] = DecisionEntry(q, p, decision)
  /\ event # NoEvent =>
       /\ Len(tail) = at + 1
       /\ tail[at + 1] = TransitionEntry(q, event, from, moved, p.amount)
  /\ decision.outcome = "needs_approval" =>
       /\ Len(tail) = at + 1
       /\ tail[at + 1] = ApprovalEntry("required", q, p.action, p.amount)
  /\ event = NoEvent /\ decision.outcome # "needs_approval" => Len(tail) = at

\* The plan of plan_commit_request has these entries.
LEMMA PlanEntries ==
  ASSUME NEW deal, NEW q, NEW p, NEW r, NEW decision
  PROVE  LET plan == PlanCommitRequest(deal, q, p, r, decision)
             event == PlannedEvent(p, decision)
         IN  \E at \in {1, 2} :
               RequestEntries(plan.events, q, p, decision, event, plan.deal,
                              deal, at)
<1> DEFINE plan == PlanCommitRequest(deal, q, p, r, decision)
           event == PlannedEvent(p, decision)
           moved == IF event = NoEvent THEN deal
                    ELSE ApplyAction(deal, p.action, p.amount)
           M == MessageEntry(q)
           D == DecisionEntry(q, p, decision)
           T == TransitionEntry(q, event, deal, moved, p.amount)
           R == ApprovalEntry("required", q, p.action, p.amount)
           S == {M, D, T, R}
           message == IF p.text THEN <<M>> ELSE <<>>
           transition == IF event = NoEvent THEN <<>> ELSE <<T>>
           required == IF decision.outcome = "needs_approval" THEN <<R>>
                       ELSE <<>>
           head == message \o <<D>>
<1>1. plan.events = head \o transition \o required
  BY DEF PlanCommitRequest
<1>2. event # NoEvent => decision.outcome = "allow" /\ plan.deal = moved
  BY DEF PlannedEvent, PlanCommitRequest
<1>3. \E at \in {1, 2} : /\ head \in Seq(S)
                         /\ Len(head) = at
                         /\ head[at] = D
                         /\ at = 2 => head[1] = M
  <2> HIDE DEF M, D, T, R
  <2>1. CASE p.text
    BY <2>1
  <2>2. CASE ~ p.text
    BY <2>2
  <2> QED
    BY <2>1, <2>2
<1>4. PICK at \in {1, 2} : /\ head \in Seq(S)
                           /\ Len(head) = at
                           /\ head[at] = D
                           /\ at = 2 => head[1] = M
  BY <1>3
<1> HIDE DEF plan, event, moved, M, D, T, R, head
<1>5. \A X \in S : LET tail == head \o <<X>> IN
        /\ Len(tail) = at + 1
        /\ DOMAIN tail = 1..Len(tail)
        /\ tail[at + 1] = X
        /\ tail[at] = D
        /\ at = 2 => tail[1] = M
  BY <1>4
<1>6. head \o <<>> = head
  BY <1>4, ConcatEmptySeq
<1>7. CASE event # NoEvent
  <2>1. plan.events = head \o <<T>> \o <<>>
    BY <1>1, <1>2, <1>7
  <2>2. plan.events = head \o <<T>>
    <3>1. head \o <<T>> \in Seq(S)
      BY <1>4
    <3> QED
      BY <2>1, <3>1, ConcatEmptySeq
  <2> QED
    BY <1>2, <1>5, <1>7, <2>2 DEF RequestEntries, plan, event, M, D, T
<1>8. CASE event = NoEvent /\ decision.outcome = "needs_approval"
  <2>1. plan.events = head \o <<R>>
    BY <1>1, <1>6, <1>8
  <2> QED
    BY <1>5, <1>8, <2>1 DEF RequestEntries, plan, event, M, D, R
<1>9. CASE event = NoEvent /\ decision.outcome # "needs_approval"
  <2>1. plan.events = head
    BY <1>1, <1>6, <1>9
  <2> QED
    BY <1>4, <1>9, <2>1 DEF RequestEntries, plan, event, M, D
<1> QED
  BY <1>7, <1>8, <1>9

-----------------------------------------------------------------------------
(* Replaying a chain.                                                      *)

\* A set of natural numbers has a least one: induction, for the facts about
\* chains of every length.
LEMMA LeastNat ==
  ASSUME NEW T \in SUBSET Nat, T # {}
  PROVE  \E n \in T : \A m \in T : n <= m
<1> DEFINE R == OpToRel(<, Nat)
<1>1. IsWellFoundedOn(R, Nat)
  BY NatLessThanWellFounded
<1>2. PICK n \in T : \A m \in T : <<m, n>> \notin R
  <2> HIDE DEF R
  <2> QED
    BY <1>1, WFMin
<1>3. \A m \in T : ~ (m < n)
  BY <1>2 DEF OpToRel
<1> QED
  BY <1>3

\* The projections after each entry of the first n of a chain.
ReplaySteps(chain, n, after) ==
  after = [i \in 0..n |-> IF i = 0 THEN DraftDeal
                          ELSE Replayed(after[i - 1], chain[i])]

\* The replay of a chain of any length is defined: no step of the recursion
\* is without a value.
LEMMA ReplayStepsExist ==
  ASSUME NEW chain, NEW n \in Nat
  PROVE  \E after : ReplaySteps(chain, n, after)
<1> DEFINE Lacking == {k \in Nat : ~ \E after : ReplaySteps(chain, k, after)}
<1> SUFFICES ASSUME Lacking # {} PROVE FALSE
  OBVIOUS
<1>1. PICK k \in Lacking : \A m \in Lacking : k <= m
  <2> Lacking \in SUBSET Nat
    OBVIOUS
  <2> HIDE DEF Lacking
  <2> QED
    BY LeastNat
<1>2. k # 0
  <2> DEFINE draft == [i \in 0..0 |-> DraftDeal]
  <2>1. ReplaySteps(chain, 0, draft)
    BY DEF ReplaySteps
  <2> QED
    BY <2>1
<1>3. k - 1 \in Nat /\ k - 1 \notin Lacking
  BY <1>1, <1>2
<1>4. PICK before : ReplaySteps(chain, k - 1, before)
  BY <1>3
<1> DEFINE after == [i \in 0..k |-> IF i = k THEN Replayed(before[k - 1], chain[k])
                                    ELSE before[i]]
<1>5. ASSUME NEW i \in 0..k
      PROVE  after[i] = IF i = 0 THEN DraftDeal
                        ELSE Replayed(after[i - 1], chain[i])
  <2>1. CASE i = k
    BY <1>2, <1>3, <2>1
  <2>2. CASE i # k
    <3>1. i \in 0..(k - 1) /\ after[i] = before[i]
      BY <1>3, <2>2
    <3>2. before[i] = IF i = 0 THEN DraftDeal
                      ELSE Replayed(before[i - 1], chain[i])
      BY <1>4, <3>1 DEF ReplaySteps
    <3>3. i # 0 => after[i - 1] = before[i - 1]
      BY <1>3, <2>2, <3>1
    <3> QED
      BY <3>1, <3>2, <3>3
  <2> QED
    BY <2>1, <2>2
<1>6. ReplaySteps(chain, k, after)
  <2>1. after = [i \in 0..k |-> after[i]]
    OBVIOUS
  <2> HIDE DEF after
  <2> QED
    BY <1>5, <2>1 DEF ReplaySteps
<1> QED
  BY <1>1, <1>6

\* What Replay computes is the last of these projections.
LEMMA ReplayValue ==
  ASSUME NEW chain, Len(chain) \in Nat
  PROVE  \E after : /\ ReplaySteps(chain, Len(chain), after)
                    /\ Replay(chain) = after[Len(chain)]
<1> DEFINE after == CHOOSE f : ReplaySteps(chain, Len(chain), f)
<1>1. ReplaySteps(chain, Len(chain), after)
  BY ReplayStepsExist
<1>2. Replay(chain) = after[Len(chain)]
  BY DEF Replay, ReplaySteps
<1> QED
  BY <1>1, <1>2

\* Two replays that agree on the entries agree on every projection.
SameUpTo(one, other, k) == \A i \in 1..k : one[i] = other[i]

\* Two replays of chains that agree up to k agree there.
LEMMA ReplayStepsAgree ==
  ASSUME NEW one, NEW other, NEW m \in Nat, NEW n \in Nat, NEW k \in Nat,
         k <= m, k <= n,
         SameUpTo(one, other, k),
         NEW f, ReplaySteps(one, m, f), NEW g, ReplaySteps(other, n, g)
  PROVE  f[k] = g[k]
<1> DEFINE Apart == {i \in 0..k : f[i] # g[i]}
<1> SUFFICES ASSUME Apart # {} PROVE FALSE
  OBVIOUS
<1>1. PICK i \in Apart : \A j \in Apart : i <= j
  <2> Apart \in SUBSET Nat
    OBVIOUS
  <2> HIDE DEF Apart
  <2> QED
    BY LeastNat
<1>2. /\ f[i] = IF i = 0 THEN DraftDeal ELSE Replayed(f[i - 1], one[i])
      /\ g[i] = IF i = 0 THEN DraftDeal ELSE Replayed(g[i - 1], other[i])
  <2>1. i \in 0..m /\ i \in 0..n
    BY <1>1
  <2> QED
    BY <2>1 DEF ReplaySteps
<1>3. i # 0 => i - 1 \in 0..k /\ i - 1 \notin Apart /\ one[i] = other[i]
  BY <1>1 DEF SameUpTo
<1> QED
  BY <1>1, <1>2, <1>3

\* A new chain replays to a draft; one more entry is one more step.
LEMMA ReplayEmpty == Replay(<<>>) = DraftDeal
<1>1. Len(<<>>) = 0
  OBVIOUS
<1>2. PICK after : ReplaySteps(<<>>, 0, after) /\ Replay(<<>>) = after[0]
  BY <1>1, ReplayValue
<1> QED
  BY <1>2 DEF ReplaySteps

\* A chain that begins with another one, and the projections after each entry
\* from the end of the one to the end of the other.
Continues(longer, chain) ==
  /\ Len(chain) \in Nat /\ Len(longer) \in Nat
  /\ Len(chain) <= Len(longer)
  /\ \A i \in 1..Len(chain) : longer[i] = chain[i]

ReplaysOn(chain, longer, after) ==
  /\ after[Len(chain)] = Replay(chain)
  /\ after[Len(longer)] = Replay(longer)
  /\ \A i \in (Len(chain) + 1)..Len(longer) :
       after[i] = Replayed(after[i - 1], longer[i])

\* The replay of a chain goes on along any chain that continues it.
LEMMA ReplayGrown ==
  ASSUME NEW chain, NEW longer, Continues(longer, chain)
  PROVE  \E after : ReplaysOn(chain, longer, after)
<1> DEFINE n == Len(chain)
           m == Len(longer)
<1>0. /\ n \in Nat /\ m \in Nat /\ n <= m /\ n <= n
      /\ \A i \in 1..n : chain[i] = longer[i]
  BY DEF Continues
<1>1. PICK f : ReplaySteps(chain, n, f) /\ Replay(chain) = f[n]
  BY <1>0, ReplayValue
<1>2. PICK g : ReplaySteps(longer, m, g) /\ Replay(longer) = g[m]
  BY <1>0, ReplayValue
<1>3. f[n] = g[n]
  <2>1. n \in Nat /\ m \in Nat /\ n <= m /\ n <= n
    BY <1>0
  <2>2. SameUpTo(chain, longer, n)
    BY <1>0 DEF SameUpTo
  <2>3. ReplaySteps(chain, n, f) /\ ReplaySteps(longer, m, g)
    BY <1>1, <1>2
  <2> HIDE DEF n, m
  <2> QED
    BY <2>1, <2>2, <2>3, ReplayStepsAgree
<1>4. ASSUME NEW i \in (n + 1)..m
      PROVE  g[i] = Replayed(g[i - 1], longer[i])
  <2>1. i \in 0..m /\ i # 0
    BY <1>0
  <2> HIDE DEF n, m
  <2> QED
    BY <1>2, <2>1 DEF ReplaySteps
<1>5. ReplaysOn(chain, longer, g)
  BY <1>1, <1>2, <1>3, <1>4 DEF ReplaysOn
<1> QED
  BY <1>5


-----------------------------------------------------------------------------
(* What the entries of a plan amount to.                                   *)

\* What each entry does to a projection: a message, a decision and a
\* revocation leave it alone.
LEMMA ReplayedIdle ==
  ASSUME NEW deal, NEW c, NEW p, NEW decision
  PROVE  /\ Replayed(deal, MessageEntry(c)) = deal
         /\ Replayed(deal, DecisionEntry(c, p, decision)) = deal
         /\ Replayed(deal, RevocationEntry(c)) = deal
BY DEF Replayed, MessageEntry, DecisionEntry, RevocationEntry

\* A transition entry is replayed as the event it names.
LEMMA ReplayedTransition ==
  ASSUME NEW deal, NEW c, NEW event, NEW from, NEW to, NEW amount
  PROVE  Replayed(deal, TransitionEntry(c, event, from, to, amount)) =
           ApplyEvent(deal, event, TransitionFor(deal.state, event), amount)
BY DEF Replayed, TransitionEntry

\* An approval entry is replayed as one more or one less open approval.
LEMMA ReplayedApproval ==
  ASSUME NEW deal, NEW q, NEW action, NEW amount, NEW operation
  PROVE  Replayed(deal, ApprovalEntry(operation, q, action, amount)) =
           IF operation = "required" THEN [deal EXCEPT !.open_approvals = @ + 1]
           ELSE [deal EXCEPT !.open_approvals = @ - 1]
BY DEF Replayed, ApprovalEntry

\* Closing an approval and moving a deal do not disturb each other.
LEMMA ClosedAfterMove ==
  ASSUME NEW deal \in DealRow, deal.open_approvals > 0, NEW event, NEW target,
         NEW amount
  PROVE  LET closed == [deal EXCEPT !.open_approvals = @ - 1] IN
         /\ Closed(deal) = closed
         /\ closed.state = deal.state
         /\ Closed(ApplyEvent(deal, event, target, amount)) =
              ApplyEvent(closed, event, target, amount)
BY DEF Closed, Decrement, DealRow, ApplyEvent, RoundsAfter, CommittedAfter,
       DisputesAfter

\* The projection after the first k of some entries.
AfterOne(deal, tail) == Replayed(deal, tail[1])
AfterTwo(deal, tail) == Replayed(AfterOne(deal, tail), tail[2])
AfterThree(deal, tail) == Replayed(AfterTwo(deal, tail), tail[3])

\* One, two or three entries turn one projection into another.
AmountsTo(deal, tail, k, result) ==
  /\ k \in {1, 2, 3}
  /\ k = 1 => result = AfterOne(deal, tail)
  /\ k = 2 => result = AfterTwo(deal, tail)
  /\ k = 3 => result = AfterThree(deal, tail)

\* A chain and some entries more.
Extends(longer, chain, tail, k) ==
  /\ Continues(longer, chain)
  /\ Len(longer) = Len(chain) + k
  /\ \A j \in 1..k : longer[Len(chain) + j] = tail[j]

\* The replay of a chain that gained the entries of a plan.
LEMMA ReplayOfTail ==
  ASSUME NEW chain, NEW longer, NEW tail, NEW k, NEW result,
         Extends(longer, chain, tail, k),
         AmountsTo(Replay(chain), tail, k, result)
  PROVE  Replay(longer) = result
<1> DEFINE n == Len(chain)
           m == Len(longer)
<1>1. n \in Nat /\ m = n + k /\ k \in {1, 2, 3}
  BY DEF Extends, Continues, AmountsTo
<1>2. PICK after : /\ after[n] = Replay(chain) /\ after[m] = Replay(longer)
                   /\ \A i \in (n + 1)..m :
                        after[i] = Replayed(after[i - 1], longer[i])
  <2>1. PICK after : ReplaysOn(chain, longer, after)
    BY ReplayGrown DEF Extends
  <2> QED
    BY <2>1 DEF ReplaysOn
<1>3. \A j \in 1..k : longer[n + j] = tail[j]
  BY DEF Extends
<1> HIDE DEF n, m
<1>4. after[n + 1] = AfterOne(Replay(chain), tail)
  <2>1. n + 1 \in (n + 1)..m /\ (n + 1) - 1 = n /\ 1 \in 1..k
    BY <1>1
  <2> QED
    BY <1>2, <1>3, <2>1 DEF AfterOne
<1>5. k >= 2 => after[n + 2] = AfterTwo(Replay(chain), tail)
  <2>1. k >= 2 => n + 2 \in (n + 1)..m /\ (n + 2) - 1 = n + 1 /\ 2 \in 1..k
    BY <1>1
  <2> QED
    BY <1>2, <1>3, <1>4, <2>1 DEF AfterTwo
<1>6. k = 3 => after[n + 3] = AfterThree(Replay(chain), tail)
  <2>1. k = 3 => n + 3 \in (n + 1)..m /\ (n + 3) - 1 = n + 2 /\ 3 \in 1..k
    BY <1>1
  <2> QED
    BY <1>1, <1>2, <1>3, <1>5, <2>1 DEF AfterThree
<1> QED
  BY <1>1, <1>2, <1>4, <1>5, <1>6 DEF AmountsTo

\* A request's entries amount to the row it writes.
LEMMA RequestReplays ==
  ASSUME NEW deal, NEW q, NEW p, NEW r, NEW decision
  PROVE  LET plan == PlanCommitRequest(deal, q, p, r, decision) IN
         \E k \in {1, 2, 3} : /\ DOMAIN plan.events = 1..k
                              /\ AmountsTo(deal, plan.events, k, plan.deal)
<1> DEFINE plan == PlanCommitRequest(deal, q, p, r, decision)
           event == PlannedEvent(p, decision)
           tail == plan.events
<1>1. PICK at \in {1, 2} :
        RequestEntries(tail, q, p, decision, event, plan.deal, deal, at)
  BY PlanEntries
<1>2. /\ event # NoEvent =>
           plan.deal = ApplyEvent(deal, event, TransitionFor(deal.state, event),
                                  p.amount)
      /\ decision.outcome = "needs_approval" =>
           /\ plan.deal = [deal EXCEPT !.open_approvals = @ + 1]
           /\ event = NoEvent
      /\ event = NoEvent /\ decision.outcome # "needs_approval" =>
           plan.deal = deal
  BY DEF PlanCommitRequest, PlannedEvent, ApplyAction, ActionEvents, NoEvent
<1> HIDE DEF plan, event, tail
<1>3. /\ DOMAIN tail = 1..Len(tail)
      /\ at = 2 => tail[1] = MessageEntry(q)
      /\ tail[at] = DecisionEntry(q, p, decision)
  BY <1>1 DEF RequestEntries
<1>4. /\ at = 1 => AfterOne(deal, tail) = deal
      /\ at = 2 => AfterTwo(deal, tail) = deal
  BY <1>3, ReplayedIdle DEF AfterOne, AfterTwo
<1>5. CASE event # NoEvent
  <2>1. /\ Len(tail) = at + 1
        /\ tail[at + 1] = TransitionEntry(q, event, deal, plan.deal, p.amount)
    BY <1>1, <1>5 DEF RequestEntries
  <2>2. Replayed(deal, tail[at + 1]) = plan.deal
    BY <1>2, <1>5, <2>1, ReplayedTransition
  <2>3. CASE at = 1
    BY <1>3, <1>4, <2>1, <2>2, <2>3 DEF AmountsTo, AfterTwo, plan, tail
  <2>4. CASE at = 2
    BY <1>3, <1>4, <2>1, <2>2, <2>4 DEF AmountsTo, AfterThree, plan, tail
  <2> QED
    BY <2>3, <2>4
<1>6. CASE decision.outcome = "needs_approval"
  <2>1. /\ Len(tail) = at + 1
        /\ tail[at + 1] = ApprovalEntry("required", q, p.action, p.amount)
    BY <1>1, <1>6 DEF RequestEntries
  <2>2. Replayed(deal, tail[at + 1]) = plan.deal
    BY <1>2, <1>6, <2>1, ReplayedApproval
  <2>3. CASE at = 1
    BY <1>3, <1>4, <2>1, <2>2, <2>3 DEF AmountsTo, AfterTwo, plan, tail
  <2>4. CASE at = 2
    BY <1>3, <1>4, <2>1, <2>2, <2>4 DEF AmountsTo, AfterThree, plan, tail
  <2> QED
    BY <2>3, <2>4
<1>7. CASE event = NoEvent /\ decision.outcome # "needs_approval"
  <2>1. Len(tail) = at /\ plan.deal = deal
    BY <1>1, <1>2, <1>7 DEF RequestEntries
  <2> QED
    BY <1>3, <1>4, <2>1 DEF AmountsTo, plan, tail
<1> QED
  BY <1>5, <1>6, <1>7

\* So does a boundary event's entry.
LEMMA TransitionReplays ==
  ASSUME NEW deal, NEW c, NEW event
  PROVE  LET plan == PlanCommitTransition(deal, c, event, FALSE) IN
         DOMAIN plan.events = 1..1 /\ AmountsTo(deal, plan.events, 1, plan.deal)
<1> DEFINE plan == PlanCommitTransition(deal, c, event, FALSE)
           entry == TransitionEntry(c, event, deal, plan.deal, NoAmount)
<1>1. /\ plan.events = <<>> \o <<entry>>
      /\ plan.deal = ApplyEvent(deal, event, TransitionFor(deal.state, event),
                                NoAmount)
  BY DEF PlanCommitTransition
<1> HIDE DEF plan
<1>2. Replayed(deal, entry) = plan.deal
  BY <1>1, ReplayedTransition
<1> HIDE DEF entry
<1>3. DOMAIN plan.events = 1..1 /\ plan.events[1] = entry
  BY <1>1
<1>4. AmountsTo(deal, plan.events, 1, plan.deal)
  BY <1>2, <1>3 DEF AmountsTo, AfterOne
<1> QED
  BY <1>3, <1>4 DEF plan

\* So do the entries of a person's answer, if the deal counts an open approval.
LEMMA ApprovalReplays ==
  ASSUME NEW deal \in DealRow, deal.open_approvals > 0, NEW q, NEW a,
         NEW operation, NEW current
  PROVE  LET plan == PlanCommitApproval(deal, q, a, operation, current) IN
         \E k \in {1, 2, 3} : /\ DOMAIN plan.events = 1..k
                              /\ AmountsTo(deal, plan.events, k, plan.deal)
<1> DEFINE plan == PlanCommitApproval(deal, q, a, operation, current)
           event == ActionEvents[a.action]
           target == TransitionFor(deal.state, event)
           moved == ApplyEvent(deal, event, target, a.amount)
           closed == [deal EXCEPT !.open_approvals = @ - 1]
<1>1. /\ Closed(deal) = closed /\ closed.state = deal.state
      /\ Closed(moved) = ApplyEvent(closed, event, target, a.amount)
  BY ClosedAfterMove
<1>2. CASE operation = "granted" /\ ~ ForcedDeny(deal, a, current)
  <2> DEFINE T == TransitionEntry(q, event, deal, moved, a.amount)
             G == ApprovalEntry("granted", q, a.action, a.amount)
  <2>1. ApplyAction(deal, a.action, a.amount) = moved
    BY <1>2 DEF ForcedDeny, ApplyAction, ActionEvents, NoEvent
  <2>2. plan.events = <<G, T>> /\ plan.deal = Closed(moved)
    BY <1>2, <2>1 DEF PlanCommitApproval
  <2>3. Replayed(deal, G) = closed
    BY ReplayedApproval
  <2> HIDE DEF plan, G, moved, closed
  <2>4. Replayed(closed, T) = Closed(moved)
    <3> HIDE DEF event
    <3> QED
      BY <1>1, ReplayedTransition
  <2> HIDE DEF T
  <2>5. /\ DOMAIN plan.events = 1..2
        /\ plan.events[1] = G /\ plan.events[2] = T
    BY <2>2
  <2> QED
    BY <2>2, <2>3, <2>4, <2>5 DEF AmountsTo, AfterOne, AfterTwo, plan
<1>3. CASE ~ (operation = "granted" /\ ~ ForcedDeny(deal, a, current))
  <2> DEFINE N == ApprovalEntry("denied", q, a.action, a.amount)
  <2>1. plan.events = <<N>> /\ plan.deal = Closed(deal)
    BY <1>3 DEF PlanCommitApproval
  <2>2. Replayed(deal, N) = Closed(deal)
    BY <1>1, ReplayedApproval
  <2> HIDE DEF plan, N
  <2>3. DOMAIN plan.events = 1..1 /\ plan.events[1] = N
    BY <2>1
  <2> QED
    BY <2>1, <2>2, <2>3 DEF AmountsTo, AfterOne, plan
<1> QED
  BY <1>2, <1>3

-----------------------------------------------------------------------------
(* Where the entries of a plan lead.                                       *)

\* Entries that leave a deal in its state, or the one transition that takes it
\* from there to another.
Leads(tail, from, to) ==
  \/ /\ from = to
     /\ \A i \in DOMAIN tail : tail[i].type # "state_transition"
  \/ \E j \in DOMAIN tail :
       /\ tail[j].type = "state_transition" /\ tail[j].to = to
       /\ \A i \in DOMAIN tail : tail[i].type = "state_transition" => i = j

\* None of the entries withdraws a mandate.
NoRevocation(tail) == \A i \in DOMAIN tail : tail[i].type # "revocation"

\* A chain that gained such entries was led where they lead.
LEMMA LedOn ==
  ASSUME NEW chain, NEW longer, NEW tail, NEW k \in Nat,
         Extends(longer, chain, tail, k), DOMAIN tail = 1..k,
         DOMAIN chain = 1..Len(chain), DOMAIN longer = 1..Len(longer),
         NEW from, NEW to, LedTo(chain, from), Leads(tail, from, to)
  PROVE  LedTo(longer, to)
<1> DEFINE n == Len(chain)
           Moves(c, i) == c[i].type = "state_transition"
<1>1. /\ n \in Nat /\ DOMAIN chain = 1..n /\ DOMAIN longer = 1..(n + k)
      /\ \A i \in 1..n : longer[i] = chain[i]
      /\ \A j \in 1..k : longer[n + j] = tail[j]
  BY DEF Extends, Continues
<1>2. \A i \in 1..n : /\ Moves(chain, i)
                      /\ \A j \in 1..n : Moves(chain, j) => j <= i
                      => chain[i].to = from
  BY <1>1 DEF LedTo
<1> SUFFICES ASSUME NEW i \in 1..(n + k), Moves(longer, i),
                    \A j \in 1..(n + k) : Moves(longer, j) => j <= i
             PROVE  longer[i].to = to
  BY <1>1 DEF LedTo
<1>3. CASE from = to /\ \A j \in 1..k : ~ Moves(tail, j)
  <2>1. i \in 1..n
    <3> SUFFICES ASSUME i \notin 1..n PROVE FALSE
      OBVIOUS
    <3> DEFINE j == i - n
    <3>1. j \in 1..k /\ i = n + j
      BY <1>1
    <3> HIDE DEF j, n
    <3> QED
      BY <1>1, <1>3, <3>1
  <2>2. Moves(chain, i) /\ \A j \in 1..n : Moves(chain, j) => j <= i
    <3> HIDE DEF n
    <3>1. 1..n \subseteq 1..(n + k)
      BY <1>1
    <3> QED
      BY <1>1, <2>1, <3>1
  <2> QED
    BY <1>1, <1>2, <1>3, <2>1, <2>2
<1>4. ASSUME NEW j \in 1..k, Moves(tail, j), tail[j].to = to,
             \A m \in 1..k : Moves(tail, m) => m = j
      PROVE  longer[i].to = to
  <2> HIDE DEF n
  <2>1. n + j \in 1..(n + k) /\ Moves(longer, n + j)
    BY <1>1, <1>4
  <2>2. n + j <= i
    BY <2>1
  <2> DEFINE m == i - n
  <2>3. m \in 1..k /\ i = n + m
    BY <1>1, <2>2
  <2> HIDE DEF m
  <2>4. m = j
    BY <1>1, <1>4, <2>3
  <2> QED
    BY <1>1, <1>4, <2>3, <2>4
<1> QED
  BY <1>3, <1>4 DEF Leads

\* What an entry says of the state and of mandates.
LEMMA OtherEntriesSay ==
  ASSUME NEW c, NEW p, NEW x
  PROVE  /\ MessageEntry(c).type \notin {"state_transition", "revocation"}
         /\ DecisionEntry(c, p, x).type \notin {"state_transition", "revocation"}
         /\ RevocationEntry(x).type = "revocation"
         /\ RevocationEntry(x).revocation = x
BY DEF MessageEntry, DecisionEntry, RevocationEntry

\* A transition's entry says where it leads,
LEMMA TransitionSays ==
  ASSUME NEW c, NEW event, NEW from, NEW to, NEW amount
  PROVE  /\ TransitionEntry(c, event, from, to, amount).type = "state_transition"
         /\ TransitionEntry(c, event, from, to, amount).to = to.state
BY DEF TransitionEntry

\* and an approval's entry leads nowhere.
LEMMA ApprovalSays ==
  ASSUME NEW operation, NEW q, NEW action, NEW amount
  PROVE  ApprovalEntry(operation, q, action, amount).type
           \notin {"state_transition", "revocation"}
BY DEF ApprovalEntry

\* A request's entries lead to the state of the row it writes.
LEMMA RequestLeads ==
  ASSUME NEW deal \in DealRow, NEW q, NEW p, NEW r, NEW decision
  PROVE  LET plan == PlanCommitRequest(deal, q, p, r, decision) IN
         /\ Leads(plan.events, deal.state, plan.deal.state)
         /\ NoRevocation(plan.events)
<1> DEFINE plan == PlanCommitRequest(deal, q, p, r, decision)
           event == PlannedEvent(p, decision)
           tail == plan.events
<1>1. PICK at \in {1, 2} :
        RequestEntries(tail, q, p, decision, event, plan.deal, deal, at)
  BY PlanEntries
<1>2. event = NoEvent => plan.deal.state = deal.state
  BY DEF PlanCommitRequest, DealRow
<1>3. event # NoEvent => decision.outcome # "needs_approval"
  BY DEF PlannedEvent
<1> HIDE DEF plan, event, tail
<1>4. /\ DOMAIN tail = 1..Len(tail) /\ Len(tail) \in {at, at + 1}
      /\ \A i \in 1..at : tail[i].type \notin {"state_transition", "revocation"}
  <2>1. /\ tail[at] = DecisionEntry(q, p, decision)
        /\ at = 2 => tail[1] = MessageEntry(q)
    BY <1>1 DEF RequestEntries
  <2>2. \A i \in 1..at : i = at \/ (at = 2 /\ i = 1)
    OBVIOUS
  <2>3. \A i \in 1..at :
          tail[i].type \notin {"state_transition", "revocation"}
    BY <2>1, <2>2, OtherEntriesSay
  <2>4. DOMAIN tail = 1..Len(tail) /\ Len(tail) \in {at, at + 1}
    BY <1>1, <1>3 DEF RequestEntries
  <2> QED
    BY <2>3, <2>4
<1>5. CASE event # NoEvent
  <2>1. /\ Len(tail) = at + 1
        /\ tail[at + 1] = TransitionEntry(q, event, deal, plan.deal, p.amount)
    BY <1>1, <1>5 DEF RequestEntries
  <2>2. /\ tail[at + 1].type = "state_transition"
        /\ tail[at + 1].to = plan.deal.state
    BY <2>1, TransitionSays
  <2>3. \A i \in DOMAIN tail : i \in 1..at \/ i = at + 1
    BY <1>4, <2>1
  <2>4. at + 1 \in DOMAIN tail
    BY <1>4, <2>1
  <2> QED
    BY <1>4, <2>2, <2>3, <2>4 DEF Leads, NoRevocation, plan, tail
<1>6. CASE event = NoEvent
  <2>1. Len(tail) = at + 1 =>
          tail[at + 1].type \notin {"state_transition", "revocation"}
    BY <1>1, <1>6, ApprovalSays DEF RequestEntries
  <2>2. \A i \in DOMAIN tail : i \in 1..at \/ (i = at + 1 /\ Len(tail) = at + 1)
    <3>1. DOMAIN tail = 1..at \/ (DOMAIN tail = 1..(at + 1) /\ Len(tail) = at + 1)
      BY <1>4
    <3>2. \A i \in 1..(at + 1) : i \in 1..at \/ i = at + 1
      OBVIOUS
    <3> QED
      BY <3>1, <3>2
  <2> QED
    BY <1>2, <1>4, <1>6, <2>1, <2>2 DEF Leads, NoRevocation, plan, tail
<1> QED
  BY <1>5, <1>6

\* So does a boundary event's entry,
LEMMA TransitionLeads ==
  ASSUME NEW deal, NEW c, NEW event
  PROVE  LET plan == PlanCommitTransition(deal, c, event, FALSE) IN
         /\ Leads(plan.events, deal.state, plan.deal.state)
         /\ NoRevocation(plan.events)
<1> DEFINE plan == PlanCommitTransition(deal, c, event, FALSE)
           entry == TransitionEntry(c, event, deal, plan.deal, NoAmount)
<1>1. plan.events = <<>> \o <<entry>>
  BY DEF PlanCommitTransition
<1> HIDE DEF plan
<1>2. entry.type = "state_transition" /\ entry.to = plan.deal.state
  BY TransitionSays
<1> HIDE DEF entry
<1>3. DOMAIN plan.events = 1..1 /\ plan.events[1] = entry
  BY <1>1
<1>4. \A i \in 1..1 : i = 1
  OBVIOUS
<1>5. 1 \in DOMAIN plan.events
  BY <1>3
<1>6. Leads(plan.events, deal.state, plan.deal.state)
  BY <1>2, <1>3, <1>4, <1>5 DEF Leads
<1>7. NoRevocation(plan.events)
  BY <1>2, <1>3, <1>4 DEF NoRevocation
<1> QED
  BY <1>6, <1>7 DEF plan

\* and so do those of a person's answer.
LEMMA ApprovalLeads ==
  ASSUME NEW deal \in DealRow, NEW q, NEW a, NEW operation, NEW current
  PROVE  LET plan == PlanCommitApproval(deal, q, a, operation, current) IN
         /\ Leads(plan.events, deal.state, plan.deal.state)
         /\ NoRevocation(plan.events)
<1> DEFINE plan == PlanCommitApproval(deal, q, a, operation, current)
           moved == ApplyAction(deal, a.action, a.amount)
<1>1. CASE operation = "granted" /\ ~ ForcedDeny(deal, a, current)
  <2> DEFINE T == TransitionEntry(q, ActionEvents[a.action], deal, moved,
                                  a.amount)
             G == ApprovalEntry("granted", q, a.action, a.amount)
  <2>1. plan.events = <<G, T>> /\ plan.deal = Closed(moved)
    BY <1>1 DEF PlanCommitApproval
  <2>2. plan.deal.state = moved.state
    <3>1. moved = [moved EXCEPT !.state = moved.state]
      BY <1>1 DEF ForcedDeny, ApplyAction, ApplyEvent, ActionEvents, NoEvent
    <3> HIDE DEF moved
    <3> QED
      BY <2>1, <3>1 DEF Closed
  <2>3. /\ G.type \notin {"state_transition", "revocation"}
        /\ T.type = "state_transition" /\ T.to = moved.state
    BY ApprovalSays, TransitionSays
  <2> HIDE DEF plan, G, T, moved
  <2>4. /\ DOMAIN plan.events = 1..2
        /\ plan.events[1] = G /\ plan.events[2] = T
    BY <2>1
  <2>5. \A i \in 1..2 : i = 1 \/ i = 2
    OBVIOUS
  <2> QED
    BY <2>2, <2>3, <2>4, <2>5 DEF Leads, NoRevocation, plan
<1>2. CASE ~ (operation = "granted" /\ ~ ForcedDeny(deal, a, current))
  <2> DEFINE N == ApprovalEntry("denied", q, a.action, a.amount)
  <2>1. plan.events = <<N>> /\ plan.deal = Closed(deal)
    BY <1>2 DEF PlanCommitApproval
  <2>2. plan.deal.state = deal.state
    BY <2>1 DEF Closed, DealRow
  <2>3. N.type \notin {"state_transition", "revocation"}
    BY ApprovalSays
  <2> HIDE DEF plan, N
  <2>4. DOMAIN plan.events = 1..1 /\ plan.events[1] = N
    BY <2>1
  <2>5. \A i \in 1..1 : i = 1
    OBVIOUS
  <2> QED
    BY <2>2, <2>3, <2>4, <2>5 DEF Leads, NoRevocation, plan
<1> QED
  BY <1>1, <1>2

=============================================================================
