------------------------- MODULE PolicyEngineProofs -------------------------
(***************************************************************************)
(* Proofs about PolicyEngine and Delegation: what the ordered list of      *)
(* checks amounts to for every policy input, what the walk up a chain of   *)
(* delegations finds for a chain of any length, and that the behaviours of *)
(* MCPolicyEngine keep its properties however many facts turn.             *)
(***************************************************************************)
EXTENDS MCPolicyEngine, CommitPlansProofs, FiniteSetTheorems

-----------------------------------------------------------------------------
(* Policy inputs.                                                          *)

Named == Tokens \cup ActionToken

\* The names of parties, currencies and fields are strings.  (The behaviours'
\* names are listed because the provers do not see that they are strings.)
Party == STRING \cup {"p1", "p2", NoParty}
Currency == STRING \cup {"usd", "eur"}
Field == STRING \cup {"budget", "name"}

Record ==
  [ id : Nat, parent : Nat, status : {"active", "revoked"},
    not_before : Nat, expires_at : Nat, counterparty : Party,
    allowed_actions : SUBSET ActionToken, prohibited_actions : SUBSET Named,
    requires_human_approval_for : SUBSET Named, spend_cap : Nat,
    currency : Currency, max_negotiation_rounds : Nat,
    disclosure_fields : SUBSET Field ]

Content ==
  [ available : BOOLEAN, hostility : Level, present : BOOLEAN,
    detected : UNION {[fields -> Level] : fields \in SUBSET Field} ]

Input ==
  [ schema : BOOLEAN, signature : BOOLEAN,
    status : {"active", "revoked", "expired"}, now : Nat,
    links : SUBSET BOOLEAN, mandate : Record, counterparty : Party,
    content : Content, deal : Deal,
    proposal : [ action : Tokens, amount : Amount, currency : Currency,
                 disclosure_fields : SUBSET Field ] ]

-----------------------------------------------------------------------------
(* What the list of checks amounts to.                                     *)

\* Steps 1 to 10 of evaluate that deny, in any order; and steps 12 to 13 that
\* hold.
Forbids(p) ==
  \/ ~ p.schema \/ ~ p.signature
  \/ p.status \in {"revoked", "expired"}
  \/ p.now < p.mandate.not_before \/ p.now > p.mandate.expires_at
  \/ FALSE \in p.links
  \/ AudienceMismatch(p)
  \/ p.proposal.action \in p.mandate.prohibited_actions
  \/ p.proposal.action \notin ActionToken
  \/ p.proposal.action \notin p.mandate.allowed_actions
  \/ OutOfPlace(p)
  \/ IsPayment(p) /\ (p.deal.open_disputes > 0 \/ p.deal.open_approvals > 0)
  \/ DeclaresTooMuch(p) \/ Leaks(p, DenyLevel) \/ WrongCurrency(p)

Holds(p) ==
  \/ p.proposal.action \in p.mandate.requires_human_approval_for
  \/ p.content.present /\ ~ p.content.available
  \/ Leaks(p, HoldLevel)
  \/ p.content.present /\ p.content.hostility >= HoldLevel

\* The decision of every input: only the cap and the rounds are left in an
\* order, which makes an over-cap counteroffer without rounds a hold.
LEMMA EvaluateSays ==
  \A p : /\ Evaluate(p).outcome =
              IF Forbids(p) THEN "deny"
              ELSE IF OverCap(p) THEN "needs_approval"
              ELSE IF RoundsUsedUp(p) THEN "deny"
              ELSE IF Holds(p) THEN "needs_approval"
              ELSE "allow"
         /\ Evaluate(p).outcome = "allow" => Evaluate(p) = Allow
<1> SUFFICES ASSUME NEW p
             PROVE  /\ Evaluate(p).outcome =
                         IF Forbids(p) THEN "deny"
                         ELSE IF OverCap(p) THEN "needs_approval"
                         ELSE IF RoundsUsedUp(p) THEN "deny"
                         ELSE IF Holds(p) THEN "needs_approval"
                         ELSE "allow"
                    /\ Evaluate(p).outcome = "allow" => Evaluate(p) = Allow
  OBVIOUS
<1>1. /\ \A reason : Deny(reason).outcome = "deny"
      /\ \A reason : NeedsApproval(reason).outcome = "needs_approval"
      /\ Allow.outcome = "allow"
  BY DEF Deny, NeedsApproval, Allow
<1>2. CASE Forbids(p)
  <2>1. \E reason : Evaluate(p) = Deny(reason)
    BY <1>2 DEF Evaluate, Forbids
  <2> QED
    BY <1>1, <1>2, <2>1
<1>3. CASE ~ Forbids(p) /\ OverCap(p)
  <2>1. \E reason : Evaluate(p) = NeedsApproval(reason)
    BY <1>3 DEF Evaluate, Forbids
  <2> QED
    BY <1>1, <1>3, <2>1
<1>4. CASE ~ Forbids(p) /\ ~ OverCap(p) /\ RoundsUsedUp(p)
  <2>1. \E reason : Evaluate(p) = Deny(reason)
    BY <1>4 DEF Evaluate, Forbids
  <2> QED
    BY <1>1, <1>4, <2>1
<1>5. CASE ~ Forbids(p) /\ ~ OverCap(p) /\ ~ RoundsUsedUp(p)
  <2>1. Evaluate(p) = HoldOrAllow(p)
    BY <1>5 DEF Evaluate, Forbids
  <2>2. CASE Holds(p)
    <3>1. \E reason : HoldOrAllow(p) = NeedsApproval(reason)
      BY <2>2 DEF HoldOrAllow, Holds
    <3> QED
      BY <1>1, <1>5, <2>1, <2>2, <3>1
  <2>3. CASE ~ Holds(p)
    <3>1. HoldOrAllow(p) = Allow
      BY <2>3 DEF HoldOrAllow, Holds
    <3> QED
      BY <1>1, <1>5, <2>1, <2>3, <3>1
  <2> QED
    BY <2>2, <2>3
<1> QED
  BY <1>2, <1>3, <1>4, <1>5


\* The two decisions whose order shows: the cap's hold comes before the round
\* limit's deny.
LEMMA CapBeforeLimit ==
  ASSUME NEW p, ~ Forbids(p)
  PROVE  Evaluate(p) =
           IF OverCap(p) THEN NeedsApproval("spend_cap_exceeded")
           ELSE IF RoundsUsedUp(p) THEN Deny("negotiation_limit_reached")
           ELSE HoldOrAllow(p)
BY DEF Evaluate, Forbids

\* The states an action may start from are those with its transition.
LEMMA PlacesPermit ==
  ASSUME NEW state \in DealState, NEW action \in ActionToken
  PROVE  state \in ActionValidStates[action] <=> Permits(state, action)
<1>1. ActionEvents[action] # NoEvent =>
        (Permits(state, action) <=> state \in Sources[ActionEvents[action]])
  BY ActionEventsType, TransitionForType DEF Permits
<1>2. CASE action = "resolve_dispute"
  BY <1>2 DEF ActionValidStates, ActionEvents, Permits, NoEvent
<1>3. CASE action = "cancel_deal"
  <2>1. ActionEvents[action] = "cancelled" /\ ActionEvents[action] # NoEvent
    BY <1>3 DEF ActionEvents, NoEvent
  <2>2. ActionValidStates[action] = DealState \ CancelExcluded
    BY <1>3 DEF ActionValidStates
  <2>3. state \in DealState \ CancelExcluded <=> state \in Sources["cancelled"]
    BY DEF CancelExcluded, TerminalStates, DealState, Sources
  <2> QED
    BY <1>1, <2>1, <2>2, <2>3
<1>4. CASE action \notin {"resolve_dispute", "cancel_deal"}
  <2>1. ActionEvents[action] # NoEvent
    BY <1>4 DEF ActionToken, ActionEvents, NoEvent
  <2>2. ActionValidStates[action] = Sources[ActionEvents[action]]
    <3>1. CASE action = "request_quote"
      BY <3>1 DEF ActionEvents, ActionValidStates, Sources
    <3>2. CASE action = "counteroffer"
      BY <3>2 DEF ActionEvents, ActionValidStates, Sources
    <3>3. CASE action = "accept_agreement"
      BY <3>3 DEF ActionEvents, ActionValidStates, Sources
    <3>4. CASE action = "start_work"
      BY <3>4 DEF ActionEvents, ActionValidStates, Sources
    <3>5. CASE action = "propose_change"
      BY <3>5 DEF ActionEvents, ActionValidStates, Sources
    <3>6. CASE action = "approve_change_order"
      BY <3>6 DEF ActionEvents, ActionValidStates, Sources
    <3>7. CASE action = "claim_completion"
      BY <3>7 DEF ActionEvents, ActionValidStates, Sources
    <3>8. CASE action = "accept_completion"
      BY <3>8 DEF ActionEvents, ActionValidStates, Sources
    <3>9. CASE action = "open_dispute"
      BY <3>9 DEF ActionEvents, ActionValidStates, Sources
    <3>10. CASE action = "initiate_payment"
      BY <3>10 DEF ActionEvents, ActionValidStates, Sources
    <3>11. CASE action = "capture_payment"
      BY <3>11 DEF ActionEvents, ActionValidStates, Sources
    <3> QED
      BY <1>4, <3>1, <3>2, <3>3, <3>4, <3>5, <3>6, <3>7, <3>8, <3>9, <3>10, <3>11 DEF ActionToken
  <2> QED
    BY <1>1, <2>1, <2>2
<1> QED
  BY <1>2, <1>3, <1>4

\* NothingObjects, of any policy input.
Unobjected(p) ==
  /\ p.schema /\ p.signature /\ p.status = "active"
  /\ p.now \in p.mandate.not_before .. p.mandate.expires_at
  /\ \A link \in p.links : link
  /\ \/ NoParty \in {p.counterparty, p.mandate.counterparty}
     \/ p.counterparty = p.mandate.counterparty
  /\ p.proposal.action \in
       (ActionToken \cap p.mandate.allowed_actions)
         \ (p.mandate.prohibited_actions
              \cup p.mandate.requires_human_approval_for)
  /\ Permits(p.deal.state, p.proposal.action)
  /\ p.proposal.action \in PaymentActions =>
       p.deal.open_disputes = 0 /\ p.deal.open_approvals = 0
  /\ p.proposal.disclosure_fields \subseteq p.mandate.disclosure_fields
  /\ p.proposal.action \in NegotiationActions =>
       p.deal.negotiated_rounds < p.mandate.max_negotiation_rounds
  /\ p.proposal.amount # NoAmount =>
       /\ p.proposal.currency = p.mandate.currency
       /\ p.deal.committed_minor + p.proposal.amount <= p.mandate.spend_cap
  /\ p.content.present =>
       /\ p.content.available
       /\ p.content.hostility < HoldLevel
       /\ \A f \in DOMAIN p.content.detected \ p.mandate.disclosure_fields :
            p.content.detected[f] < HoldLevel

\* A leak at the higher level is one at the lower; no leak, field by field.
LEMMA LeaksSay ==
  ASSUME NEW p \in Input
  PROVE  /\ Leaks(p, DenyLevel) => Leaks(p, HoldLevel)
         /\ p.content.present =>
              (Leaks(p, HoldLevel) <=>
                 ~ \A f \in DOMAIN p.content.detected
                              \ p.mandate.disclosure_fields :
                     p.content.detected[f] < HoldLevel)
<1>1. \A f \in DOMAIN p.content.detected : p.content.detected[f] \in 0..2
  <2>1. PICK fields \in SUBSET Field :
          p.content.detected \in [fields -> Level]
    BY DEF Input, Content
  <2> QED
    BY <2>1 DEF Level
<1> QED
  BY <1>1 DEF Leaks, DenyLevel, HoldLevel

\* evaluate allows exactly the inputs on which no single check objects, so the
\* order of its checks never decides whether an action is allowed.  In
\* particular an allow implies a transition from the stored state: the commit
\* that follows cannot answer stale_state while the deal stays as it was read.
THEOREM AllowMeansUnobjected ==
  \A p \in Input : (Evaluate(p).outcome = "allow") <=> Unobjected(p)
<1> SUFFICES ASSUME NEW p \in Input
             PROVE  (Evaluate(p).outcome = "allow") <=> Unobjected(p)
  OBVIOUS
<1> DEFINE action == p.proposal.action
           m == p.mandate
<1>1. Evaluate(p).outcome = "allow" <=>
        ~ Forbids(p) /\ ~ OverCap(p) /\ ~ RoundsUsedUp(p) /\ ~ Holds(p)
  BY EvaluateSays
<1>2. /\ p.status = "active" <=> p.status \notin {"revoked", "expired"}
      /\ p.now \in m.not_before .. m.expires_at <=>
           ~ (p.now < m.not_before \/ p.now > m.expires_at)
      /\ (\A link \in p.links : link) <=> FALSE \notin p.links
  <2>1. p.now \in Nat /\ m.not_before \in Nat /\ m.expires_at \in Nat
    BY DEF Input, Record
  <2>2. p.links \subseteq BOOLEAN /\ p.status \in {"active", "revoked", "expired"}
    BY DEF Input
  <2>3. (\A link \in p.links : link) <=> FALSE \notin p.links
    BY <2>2
  <2>4. p.status = "active" <=> p.status \notin {"revoked", "expired"}
    BY <2>2
  <2>5. p.now \in m.not_before .. m.expires_at <=>
          ~ (p.now < m.not_before \/ p.now > m.expires_at)
    BY <2>1
  <2> QED
    BY <2>3, <2>4, <2>5
<1>3. ~ AudienceMismatch(p) <=>
        \/ NoParty \in {p.counterparty, m.counterparty}
        \/ p.counterparty = m.counterparty
  BY DEF AudienceMismatch
<1>4. action \in ActionToken =>
        (~ OutOfPlace(p) <=> Permits(p.deal.state, action))
  BY PlacesPermit DEF OutOfPlace, Input, Deal
<1>5. ~ (IsPayment(p) /\ (p.deal.open_disputes > 0 \/ p.deal.open_approvals > 0))
      <=> (action \in PaymentActions =>
             p.deal.open_disputes = 0 /\ p.deal.open_approvals = 0)
  BY DEF IsPayment, Input, Deal
<1>6. ~ RoundsUsedUp(p) <=>
        (action \in NegotiationActions =>
           p.deal.negotiated_rounds < m.max_negotiation_rounds)
  BY DEF RoundsUsedUp, Input, Deal, Record
<1>7. ~ WrongCurrency(p) /\ ~ OverCap(p) <=>
        (p.proposal.amount # NoAmount =>
           /\ p.proposal.currency = m.currency
           /\ p.deal.committed_minor + p.proposal.amount <= m.spend_cap)
  BY DEF WrongCurrency, OverCap, Input, Deal, Record, Amount
<1>8. /\ p.content.hostility >= HoldLevel <=> ~ p.content.hostility < HoldLevel
      /\ p.schema \in BOOLEAN /\ p.signature \in BOOLEAN
      /\ p.content.present \in BOOLEAN /\ p.content.available \in BOOLEAN
  BY DEF Input, Content, Level, HoldLevel
<1>9. ~ Leaks(p, DenyLevel) /\ ~ Holds(p) <=>
        /\ action \notin m.requires_human_approval_for
        /\ p.content.present =>
             /\ p.content.available
             /\ p.content.hostility < HoldLevel
             /\ \A f \in DOMAIN p.content.detected \ m.disclosure_fields :
                  p.content.detected[f] < HoldLevel
  <2> DEFINE Kept == \A f \in DOMAIN p.content.detected \ m.disclosure_fields :
                       p.content.detected[f] < HoldLevel
  <2>1. /\ Leaks(p, DenyLevel) => Leaks(p, HoldLevel)
        /\ p.content.present => (Leaks(p, HoldLevel) <=> ~ Kept)
        /\ Leaks(p, HoldLevel) => p.content.present
    BY LeaksSay DEF Leaks
  <2> HIDE DEF Kept
  <2>2. ~ Leaks(p, DenyLevel) /\ ~ Holds(p) <=>
          /\ action \notin m.requires_human_approval_for
          /\ p.content.present =>
               p.content.available /\ p.content.hostility < HoldLevel /\ Kept
    BY <1>8, <2>1 DEF Holds
  <2> QED
    BY <2>2 DEF Kept
<1> HIDE DEF action, m
<1> QED
  BY <1>1, <1>2, <1>3, <1>4, <1>5, <1>6, <1>7, <1>8, <1>9
     DEF Forbids, DeclaresTooMuch, Unobjected, action, m

\* HoldOnlyWithinAuthority, of any policy input.
WithinAuthority(p) ==
  /\ p.schema /\ p.signature /\ p.status = "active"
  /\ p.now \in p.mandate.not_before .. p.mandate.expires_at
  /\ FALSE \notin p.links
  /\ \/ NoParty \in {p.counterparty, p.mandate.counterparty}
     \/ p.counterparty = p.mandate.counterparty
  /\ p.proposal.action \in
       (ActionToken \cap p.mandate.allowed_actions)
         \ p.mandate.prohibited_actions
  /\ Permits(p.deal.state, p.proposal.action)
  /\ p.proposal.action \in PaymentActions =>
       p.deal.open_disputes = 0 /\ p.deal.open_approvals = 0
  /\ p.proposal.disclosure_fields \subseteq p.mandate.disclosure_fields
  /\ p.proposal.amount # NoAmount => p.proposal.currency = p.mandate.currency
  /\ ~ Leaks(p, DenyLevel)

\* A person is asked only about what authority, audience, vocabulary, state,
\* payment blocks, declarations and currency all permit, and never about a
\* near-certain leak: every check that evaluate makes before the cap denies.
THEOREM HoldMeansWithinAuthority ==
  \A p \in Input : Evaluate(p).outcome = "needs_approval" => WithinAuthority(p)
<1> SUFFICES ASSUME NEW p \in Input, Evaluate(p).outcome = "needs_approval"
             PROVE  WithinAuthority(p)
  OBVIOUS
<1>1. ~ Forbids(p)
  BY EvaluateSays
<1>2. p.proposal.action \in ActionToken /\ ~ OutOfPlace(p)
  BY <1>1 DEF Forbids
<1>3. Permits(p.deal.state, p.proposal.action)
  BY <1>2, PlacesPermit DEF OutOfPlace, Input, Deal
<1>4. p.proposal.action \in PaymentActions =>
        p.deal.open_disputes = 0 /\ p.deal.open_approvals = 0
  <2>1. p.deal.open_disputes \in Nat /\ p.deal.open_approvals \in Nat
    BY DEF Input, Deal
  <2>2. IsPayment(p) =>
          ~ p.deal.open_disputes > 0 /\ ~ p.deal.open_approvals > 0
    BY <1>1 DEF Forbids
  <2> QED
    BY <2>1, <2>2 DEF IsPayment
<1>5. p.status = "active"
  BY <1>1 DEF Forbids, Input
<1>6. p.now \in p.mandate.not_before .. p.mandate.expires_at
  <2>1. /\ p.now \in Nat /\ p.mandate.not_before \in Nat
        /\ p.mandate.expires_at \in Nat
    BY DEF Input, Record
  <2>2. ~ p.now < p.mandate.not_before /\ ~ p.now > p.mandate.expires_at
    BY <1>1 DEF Forbids
  <2> QED
    BY <2>1, <2>2
<1>7. \/ NoParty \in {p.counterparty, p.mandate.counterparty}
      \/ p.counterparty = p.mandate.counterparty
  BY <1>1 DEF Forbids, AudienceMismatch
<1>8. /\ p.proposal.disclosure_fields \subseteq p.mandate.disclosure_fields
      /\ p.proposal.amount # NoAmount =>
           p.proposal.currency = p.mandate.currency
  BY <1>1 DEF Forbids, DeclaresTooMuch, WrongCurrency
<1> QED
  BY <1>1, <1>2, <1>3, <1>4, <1>5, <1>6, <1>7, <1>8
     DEF Forbids, WithinAuthority

-----------------------------------------------------------------------------
(* One delegation.                                                         *)

\* A child that breaks no rule of narrowing.
Narrower(child, parent) ==
  /\ child.allowed_actions \subseteq parent.allowed_actions
  /\ parent.prohibited_actions \subseteq child.prohibited_actions
  /\ child.currency = parent.currency
  /\ child.spend_cap <= parent.spend_cap
  /\ child.max_negotiation_rounds <= parent.max_negotiation_rounds
  /\ child.disclosure_fields \subseteq parent.disclosure_fields
  /\ parent.requires_human_approval_for
       \subseteq child.requires_human_approval_for
  /\ child.not_before >= parent.not_before
  /\ child.expires_at <= parent.expires_at
  /\ parent.counterparty = NoParty \/ child.counterparty = parent.counterparty

\* scope_violations finds nothing exactly in a child that narrows.
LEMMA NarrowerSays ==
  ASSUME NEW child \in Record, NEW parent \in Record
  PROVE  ScopeViolations(child, parent) = {} <=> Narrower(child, parent)
<1> DEFINE broken ==
    [ allowed_actions_not_subset |->
        ~ (child.allowed_actions \subseteq parent.allowed_actions),
      prohibited_actions_not_superset |->
        ~ (parent.prohibited_actions \subseteq child.prohibited_actions),
      spend_cap_currency_mismatch |-> child.currency # parent.currency,
      spend_cap_exceeds_parent |->
        child.currency = parent.currency /\ child.spend_cap > parent.spend_cap,
      max_negotiation_rounds_exceed_parent |->
        child.max_negotiation_rounds > parent.max_negotiation_rounds,
      disclosure_fields_not_subset |->
        ~ (child.disclosure_fields \subseteq parent.disclosure_fields),
      approval_gates_not_superset |->
        ~ (parent.requires_human_approval_for
             \subseteq child.requires_human_approval_for),
      not_before_earlier_than_parent |-> child.not_before < parent.not_before,
      expires_after_parent |-> child.expires_at > parent.expires_at,
      counterparty_mismatch_with_parent |->
        /\ parent.counterparty # NoParty
        /\ child.counterparty # parent.counterparty ]
<1>1. ScopeViolations(child, parent) = {rule \in DOMAIN broken : broken[rule]}
  BY DEF ScopeViolations
<1>2. DOMAIN broken =
        { "allowed_actions_not_subset", "prohibited_actions_not_superset",
          "spend_cap_currency_mismatch", "spend_cap_exceeds_parent",
          "max_negotiation_rounds_exceed_parent",
          "disclosure_fields_not_subset", "approval_gates_not_superset",
          "not_before_earlier_than_parent", "expires_after_parent",
          "counterparty_mismatch_with_parent" }
  OBVIOUS
<1>3. /\ child.spend_cap \in Nat /\ parent.spend_cap \in Nat
      /\ child.max_negotiation_rounds \in Nat
      /\ parent.max_negotiation_rounds \in Nat
      /\ child.not_before \in Nat /\ parent.not_before \in Nat
      /\ child.expires_at \in Nat /\ parent.expires_at \in Nat
  BY DEF Record
<1>4. /\ ~ broken["allowed_actions_not_subset"] <=>
           child.allowed_actions \subseteq parent.allowed_actions
      /\ ~ broken["prohibited_actions_not_superset"] <=>
           parent.prohibited_actions \subseteq child.prohibited_actions
      /\ ~ broken["spend_cap_currency_mismatch"] <=>
           child.currency = parent.currency
      /\ ~ broken["disclosure_fields_not_subset"] <=>
           child.disclosure_fields \subseteq parent.disclosure_fields
      /\ ~ broken["approval_gates_not_superset"] <=>
           parent.requires_human_approval_for
             \subseteq child.requires_human_approval_for
      /\ ~ broken["counterparty_mismatch_with_parent"] <=>
           \/ parent.counterparty = NoParty
           \/ child.counterparty = parent.counterparty
  OBVIOUS
<1>5. /\ broken["spend_cap_exceeds_parent"] <=>
           /\ child.currency = parent.currency
           /\ child.spend_cap > parent.spend_cap
      /\ broken["max_negotiation_rounds_exceed_parent"] <=>
           child.max_negotiation_rounds > parent.max_negotiation_rounds
      /\ broken["not_before_earlier_than_parent"] <=>
           child.not_before < parent.not_before
      /\ broken["expires_after_parent"] <=>
           child.expires_at > parent.expires_at
  OBVIOUS
<1> HIDE DEF broken
<1>6. (\A rule \in DOMAIN broken : ~ broken[rule]) <=> Narrower(child, parent)
  BY <1>2, <1>3, <1>4, <1>5 DEF Narrower
<1> QED
  BY <1>1, <1>6

\* The rules compose.
LEMMA NarrowerComposes ==
  ASSUME NEW one \in Record, NEW two \in Record, NEW three \in Record,
         Narrower(one, two), Narrower(two, three)
  PROVE  Narrower(one, three)
BY DEF Narrower, Record

-----------------------------------------------------------------------------
(* The walk up a chain of delegations.                                     *)

\* A chain of delegations below a root, as the records of one organisation
\* are: a record's id is its place, its parent the place above it.  Only the
\* root's parent may be wrong: it may name a record further down.
ChainOK(mandate, chain, ids) ==
  LET n == Len(chain) IN
  /\ chain \in Seq(Record) /\ mandate \in Record
  /\ mandate.id = n + 1 /\ mandate.parent = n
  /\ \A i \in 1..n : chain[i].id = i /\ (i # 1 => chain[i].parent = i - 1)
  /\ n # 0 => chain[1].parent \in {NoParent} \cup 2..(n + 1)
  /\ ids \subseteq 1..n

Held(chain, ids) == [id \in ids |-> chain[id]]

\* A path up the chain: the mandate and then what is known above it, in order.
Path(mandate, chain, ids, path) ==
  LET n == Len(chain) IN
  /\ path \in Seq(Record) /\ Len(path) \in 1..(n + 1)
  /\ path[1] = mandate
  /\ \A j \in 2..Len(path) : path[j] = chain[n + 2 - j] /\ n + 2 - j \in ids

\* Where a path up the chain has come to, and which ids it has passed.
LEMMA PathSays ==
  ASSUME NEW mandate, NEW chain, NEW ids, NEW path,
         ChainOK(mandate, chain, ids), Path(mandate, chain, ids, path)
  PROVE  /\ Last(path) = path[Len(path)]
         /\ \A j \in 1..Len(path) : path[j].id = Len(chain) + 2 - j
         /\ IdsOf(path) = (Len(chain) + 2 - Len(path))..(Len(chain) + 1)
         /\ Len(path) <= Len(chain) =>
              Last(path).parent = Len(chain) + 1 - Len(path)
         /\ Len(path) = Len(chain) + 1 =>
              Last(path).parent \in {NoParent} \cup IdsOf(path)
<1> DEFINE n == Len(chain)
           m == Len(path)
<1>1. /\ n \in Nat /\ m \in 1..(n + 1) /\ path[1] = mandate
      /\ mandate.id = n + 1 /\ mandate.parent = n
      /\ \A i \in 1..n : chain[i].id = i /\ (i # 1 => chain[i].parent = i - 1)
      /\ n # 0 => chain[1].parent \in {NoParent} \cup 2..(n + 1)
      /\ \A j \in 2..m : path[j] = chain[n + 2 - j]
      /\ DOMAIN path = 1..m
  BY DEF ChainOK, Path
<1>2. Last(path) = path[m]
  BY DEF Last
<1> HIDE DEF n, m
<1>3. ASSUME NEW j \in 1..m PROVE path[j].id = n + 2 - j
  <2>1. CASE j = 1
    BY <1>1, <2>1
  <2>2. CASE j # 1
    <3>1. j \in 2..m /\ n + 2 - j \in 1..n
      BY <1>1, <2>2
    <3> QED
      BY <1>1, <3>1
  <2> QED
    BY <2>1, <2>2
<1>4. IdsOf(path) = (n + 2 - m)..(n + 1)
  <2>1. \A x \in IdsOf(path) : x \in (n + 2 - m)..(n + 1)
    BY <1>1, <1>3 DEF IdsOf
  <2>2. ASSUME NEW x \in (n + 2 - m)..(n + 1) PROVE x \in IdsOf(path)
    <3>1. n + 2 - x \in 1..m /\ n + 2 - (n + 2 - x) = x
      BY <1>1
    <3>2. path[n + 2 - x].id = x
      BY <1>3, <3>1
    <3> QED
      BY <1>1, <3>1, <3>2 DEF IdsOf
  <2> QED
    BY <2>1, <2>2
<1>5. ASSUME m <= n PROVE path[m].parent = n + 1 - m
  <2>1. CASE m = 1
    BY <1>1, <2>1
  <2>2. CASE m # 1
    <3>1. m \in 2..m /\ n + 2 - m \in 1..n /\ n + 2 - m # 1
      BY <1>1, <1>5, <2>2
    <3>2. path[m].parent = (n + 2 - m) - 1
      BY <1>1, <3>1
    <3> QED
      BY <1>1, <3>2
  <2> QED
    BY <2>1, <2>2
<1>6. ASSUME m = n + 1 PROVE path[m].parent \in {NoParent} \cup IdsOf(path)
  <2>1. CASE n = 0
    BY <1>1, <1>6, <2>1 DEF NoParent
  <2>2. CASE n # 0
    <3>1. m \in 2..m /\ n + 2 - m = 1
      BY <1>1, <1>6, <2>2
    <3>2. path[m] = chain[1]
      BY <1>1, <3>1
    <3> QED
      BY <1>1, <1>4, <1>6, <2>2, <3>2
  <2> QED
    BY <2>1, <2>2
<1> QED
  BY <1>2, <1>3, <1>4, <1>5, <1>6 DEF n, m

\* A walk that can go on stays on the path.
LEMMA PathGoesOn ==
  ASSUME NEW mandate, NEW chain, NEW ids, NEW path,
         ChainOK(mandate, chain, ids), Path(mandate, chain, ids, path),
         ~ WalkEnds(path, Held(chain, ids))
  PROVE  LET on == Append(path, Held(chain, ids)[Last(path).parent]) IN
         /\ Path(mandate, chain, ids, on)
         /\ Len(on) = Len(path) + 1
<1> DEFINE n == Len(chain)
           m == Len(path)
           top == Last(path).parent
           on == Append(path, Held(chain, ids)[top])
<1>1. /\ top # NoParent /\ top \notin IdsOf(path) /\ top \in ids
  BY DEF WalkEnds, Held
<1>2. /\ n \in Nat /\ m \in 1..(n + 1) /\ ids \subseteq 1..n
      /\ chain \in Seq(Record) /\ path \in Seq(Record) /\ path[1] = mandate
      /\ \A j \in 2..m : path[j] = chain[n + 2 - j] /\ n + 2 - j \in ids
  BY DEF ChainOK, Path
<1>3. m <= n /\ top = n + 1 - m
  BY <1>1, <1>2, PathSays
<1>4. Held(chain, ids)[top] = chain[n + 1 - m] /\ chain[n + 1 - m] \in Record
  BY <1>1, <1>2, <1>3 DEF Held
<1>5. on = Append(path, chain[n + 1 - m])
  BY <1>4
<1> HIDE DEF n, m, on, top
<1>6. /\ on \in Seq(Record) /\ Len(on) = m + 1
      /\ \A j \in 1..m : on[j] = path[j]
      /\ on[m + 1] = chain[n + 1 - m]
  BY <1>2, <1>4, <1>5 DEF m
<1>7. ASSUME NEW j \in 2..(m + 1)
      PROVE  on[j] = chain[n + 2 - j] /\ n + 2 - j \in ids
  <2>1. CASE j = m + 1
    <3>1. n + 2 - j = n + 1 - m
      BY <1>2, <2>1
    <3> QED
      BY <1>1, <1>3, <1>6, <2>1, <3>1
  <2>2. CASE j # m + 1
    <3>1. j \in 2..m /\ j \in 1..m
      BY <1>2, <2>2
    <3> QED
      BY <1>2, <1>6, <3>1
  <2> QED
    BY <2>1, <2>2
<1>8. m + 1 \in 1..(n + 1) /\ on[1] = mandate
  BY <1>2, <1>3, <1>6
<1>9. Path(mandate, chain, ids, on)
  BY <1>6, <1>7, <1>8 DEF Path, n
<1> QED
  BY <1>6, <1>9 DEF on, m, top

\* The records after each step of a walk of n steps.
WalkOf(record, records, n, walk) ==
  walk = [k \in 0..n |->
            IF k = 0 THEN <<record>>
            ELSE IF WalkEnds(walk[k - 1], records) THEN walk[k - 1]
            ELSE Append(walk[k - 1], records[Last(walk[k - 1]).parent])]

\* The loop's list of steps exists for every number of steps.
LEMMA WalkExists ==
  ASSUME NEW record, NEW records, NEW n \in Nat
  PROVE  \E walk : WalkOf(record, records, n, walk)
<1> DEFINE Lacking == {k \in Nat : ~ \E f : WalkOf(record, records, k, f)}
           Next1(path) == IF WalkEnds(path, records) THEN path
                          ELSE Append(path, records[Last(path).parent])
<1> SUFFICES ASSUME Lacking # {} PROVE FALSE
  OBVIOUS
<1>1. PICK k \in Lacking : \A j \in Lacking : k <= j
  <2> Lacking \in SUBSET Nat
    OBVIOUS
  <2> HIDE DEF Lacking
  <2> QED
    BY LeastNat
<1>2. k # 0
  <2> DEFINE start == [i \in 0..0 |-> <<record>>]
  <2>1. WalkOf(record, records, 0, start)
    BY DEF WalkOf
  <2> QED
    BY <2>1
<1>3. k - 1 \in Nat /\ k - 1 \notin Lacking
  BY <1>1, <1>2
<1>4. PICK before : WalkOf(record, records, k - 1, before)
  BY <1>3
<1> DEFINE walk == [i \in 0..k |-> IF i = k THEN Next1(before[k - 1])
                                   ELSE before[i]]
<1> HIDE DEF Next1
<1>5. ASSUME NEW i \in 0..k
      PROVE  walk[i] = IF i = 0 THEN <<record>> ELSE Next1(walk[i - 1])
  <2>1. CASE i = k
    BY <1>2, <1>3, <2>1
  <2>2. CASE i # k
    <3>1. i \in 0..(k - 1) /\ walk[i] = before[i]
      BY <1>3, <2>2
    <3>2. before[i] = IF i = 0 THEN <<record>> ELSE Next1(before[i - 1])
      BY <1>4, <3>1 DEF WalkOf, Next1
    <3>3. i # 0 => walk[i - 1] = before[i - 1]
      BY <1>3, <2>2, <3>1
    <3> QED
      BY <3>1, <3>2, <3>3
  <2> QED
    BY <2>1, <2>2
<1>6. WalkOf(record, records, k, walk)
  <2>1. walk = [i \in 0..k |-> walk[i]]
    OBVIOUS
  <2> HIDE DEF walk
  <2>2. walk = [i \in 0..k |-> IF i = 0 THEN <<record>> ELSE Next1(walk[i - 1])]
    BY <1>5, <2>1
  <2> QED
    BY <2>2 DEF WalkOf, Next1
<1> QED
  BY <1>1, <1>6

\* The walk up a chain is a path, and it has as many steps as it needs: there
\* are no more records to visit than are known.
LEMMA ClimbIs ==
  ASSUME NEW mandate, NEW chain, NEW ids, ChainOK(mandate, chain, ids)
  PROVE  /\ Path(mandate, chain, ids, Climb(mandate, Held(chain, ids)))
         /\ WalkEnds(Climb(mandate, Held(chain, ids)), Held(chain, ids))
<1> DEFINE records == Held(chain, ids)
           n == Len(chain)
           size == Cardinality(DOMAIN records)
<1>1. /\ n \in Nat /\ ids \subseteq 1..n /\ mandate \in Record
      /\ DOMAIN records = ids
  BY DEF ChainOK, Held
<1>2. IsFiniteSet(ids) /\ size = Cardinality(ids) /\ size \in Nat
  <2>1. IsFiniteSet(1..n)
    BY <1>1, FS_Interval
  <2>2. IsFiniteSet(ids)
    BY <1>1, <2>1, FS_Subset
  <2>3. size = Cardinality(ids)
    BY <1>1
  <2> HIDE DEF size
  <2> QED
    BY <2>2, <2>3, FS_CardinalityType
<1>3. PICK walk : /\ WalkOf(mandate, records, size, walk)
                  /\ Climb(mandate, records) = walk[size]
  <2> DEFINE f == CHOOSE f : WalkOf(mandate, records, size, f)
  <2>1. WalkOf(mandate, records, size, f)
    BY <1>2, WalkExists
  <2>2. Climb(mandate, records) = f[size]
    BY DEF Climb, WalkOf
  <2> QED
    BY <2>1, <2>2
<1> DEFINE Good(k) == /\ Path(mandate, chain, ids, walk[k])
                      /\ Len(walk[k]) = k + 1 \/ WalkEnds(walk[k], records)
           Bad == {k \in 0..size : ~ Good(k)}
<1>4. Bad = {}
  <2> SUFFICES ASSUME Bad # {} PROVE FALSE
    OBVIOUS
  <2>1. PICK k \in Bad : \A j \in Bad : k <= j
    <3> Bad \in SUBSET Nat
      BY <1>2
    <3> HIDE DEF Bad
    <3> QED
      BY LeastNat
  <2>2. k \in 0..size /\ k \in Nat
    BY <1>2
  <2>3. CASE k = 0
    <3>1. walk[k] = <<mandate>>
      BY <1>3, <2>2, <2>3 DEF WalkOf
    <3>2. /\ walk[k] \in Seq(Record) /\ Len(walk[k]) = 1
          /\ walk[k][1] = mandate
      BY <1>1, <3>1
    <3>3. 1 \in 1..(n + 1) /\ 2..1 = {}
      BY <1>1
    <3>4. Path(mandate, chain, ids, walk[k])
      BY <3>2, <3>3 DEF Path
    <3> QED
      BY <2>3, <3>2, <3>4
  <2>4. CASE k # 0
    <3>1. k - 1 \in 0..size /\ ~ k <= k - 1
      BY <1>2, <2>2, <2>4
    <3>2. Good(k - 1)
      <4> HIDE DEF Good
      <4> QED
        BY <2>1, <3>1
    <3> DEFINE path == walk[k - 1]
    <3>3. walk[k] = IF WalkEnds(path, records) THEN path
                    ELSE Append(path, records[Last(path).parent])
      BY <1>3, <2>2, <2>4 DEF WalkOf
    <3>4. CASE WalkEnds(path, records)
      BY <3>2, <3>3, <3>4
    <3>5. CASE ~ WalkEnds(path, records)
      <4>1. /\ Path(mandate, chain, ids, walk[k])
            /\ Len(walk[k]) = Len(path) + 1
        BY <3>2, <3>3, <3>5, PathGoesOn
      <4>2. Len(path) = (k - 1) + 1
        BY <3>2, <3>5
      <4> QED
        BY <2>2, <4>1, <4>2
    <3> QED
      BY <3>4, <3>5
  <2> QED
    BY <2>3, <2>4
<1>5. Good(size)
  BY <1>2, <1>4
<1> DEFINE path == walk[size]
           m == Len(path)
<1>6. Path(mandate, chain, ids, path)
  BY <1>5
<1>7. ASSUME m = size + 1 PROVE WalkEnds(path, records)
  <2>1. m \in 1..(n + 1) /\ \A j \in 2..m : n + 2 - j \in ids
    BY <1>6 DEF Path
  <2> HIDE DEF m, n, size
  <2> DEFINE seen == (n + 2 - m)..n
  <2>2. seen \subseteq ids
    <3> SUFFICES ASSUME NEW x \in seen PROVE x \in ids
      OBVIOUS
    <3>1. n + 2 - x \in 2..m /\ n + 2 - (n + 2 - x) = x
      BY <1>1, <2>1
    <3> QED
      BY <2>1, <3>1
  <2>3. Cardinality(seen) = size
    <3>1. n + 2 - m \in Int /\ n \in Int
      BY <1>1, <2>1
    <3>2. Cardinality(seen) = IF n + 2 - m > n THEN 0 ELSE n - (n + 2 - m) + 1
      BY <3>1, FS_Interval
    <3> QED
      BY <1>1, <1>2, <1>7, <2>1, <3>2
  <2>4. seen = ids
    <3> HIDE DEF seen
    <3> QED
      BY <1>2, <2>2, <2>3, FS_Subset
  <2>5. ids \subseteq IdsOf(path)
    <3>1. IdsOf(path) = (n + 2 - m)..(n + 1)
      BY <1>6, PathSays DEF m, n
    <3> QED
      BY <1>1, <2>1, <2>4, <3>1
  <2> QED
    BY <1>1, <2>5 DEF WalkEnds
<1>8. WalkEnds(path, records)
  BY <1>5, <1>7
<1> QED
  BY <1>3, <1>6, <1>8

\* The record that was delegated from the i-th of a chain.
Below(mandate, chain, i) == IF i = Len(chain) THEN mandate ELSE chain[i + 1]

\* A chain that is whole: every record of it is known and in force, every
\* delegation narrows, and the root has no parent.
Whole(mandate, chain, ids, now) ==
  /\ \A i \in 1..Len(chain) :
       /\ i \in ids
       /\ ResolveStatus(chain[i], now, FALSE) = "active"
       /\ Narrower(Below(mandate, chain, i), chain[i])
  /\ Len(chain) # 0 => chain[1].parent = NoParent

\* The four kinds of violations, one by one.
LEMMA ViolationsSay ==
  ASSUME NEW record, NEW records, NEW now
  PROVE  LET path == Climb(record, records)
             top == Last(path).parent
         IN  DelegationViolations(record, records, now) = {} <=>
               /\ \A i \in 1..(Len(path) - 1) :
                    ScopeViolations(path[i], path[i + 1]) = {}
               /\ \A i \in 2..Len(path) :
                    ResolveStatus(path[i], now, FALSE) = "active"
               /\ top \notin IdsOf(path)
               /\ top \in IdsOf(path) \cup DOMAIN records \cup {NoParent}
<1> DEFINE path == Climb(record, records)
           top == Last(path).parent
<1>1. DelegationViolations(record, records, now) = {} <=>
        /\ WideHops(path) = {} /\ Lapsed(path, now) = {}
        /\ Cycle(path) = {} /\ Unresolvable(path, records) = {}
  BY DEF DelegationViolations
<1> HIDE DEF path
<1>2. WideHops(path) = {} <=> \A i \in 1..(Len(path) - 1) :
                                ScopeViolations(path[i], path[i + 1]) = {}
  <2>1. \A i \in 1..(Len(path) - 1) :
          \A rule \in ScopeViolations(path[i], path[i + 1]) :
            <<rule, path[i + 1].id>> \in WideHops(path)
    BY DEF WideHops
  <2>2. \A v \in WideHops(path) : \E i \in 1..(Len(path) - 1) :
          \E rule \in ScopeViolations(path[i], path[i + 1]) : TRUE
    BY DEF WideHops
  <2>3. ASSUME WideHops(path) = {}, NEW i \in 1..(Len(path) - 1)
        PROVE  ScopeViolations(path[i], path[i + 1]) = {}
    BY <2>1, <2>3
  <2> QED
    BY <2>2, <2>3
<1>3. Lapsed(path, now) = {} <=>
        \A i \in 2..Len(path) : ResolveStatus(path[i], now, FALSE) = "active"
  <2> DEFINE inactive == { j \in 2 .. Len(path) :
                             ResolveStatus(path[j], now, FALSE) # "active" }
  <2>1. Lapsed(path, now) = {} <=> inactive = {}
    BY DEF Lapsed
  <2> QED
    BY <2>1
<1>4. Cycle(path) = {} <=> top \notin IdsOf(path)
  BY DEF Cycle
<1>5. Unresolvable(path, records) = {} <=>
        top \in IdsOf(path) \cup DOMAIN records \cup {NoParent}
  BY DEF Unresolvable
<1> QED
  BY <1>1, <1>2, <1>3, <1>4, <1>5 DEF path

\* What the walk reports: it finds nothing exactly in a whole chain.
THEOREM DelegationMeansWhole ==
  \A mandate, chain, ids, now :
    ChainOK(mandate, chain, ids) =>
      (DelegationViolations(mandate, Held(chain, ids), now) = {}
         <=> Whole(mandate, chain, ids, now))
<1> SUFFICES ASSUME NEW mandate, NEW chain, NEW ids, NEW now,
                    ChainOK(mandate, chain, ids)
             PROVE  DelegationViolations(mandate, Held(chain, ids), now) = {}
                      <=> Whole(mandate, chain, ids, now)
  OBVIOUS
<1> DEFINE path == Climb(mandate, Held(chain, ids))
           n == Len(chain)
           m == Len(path)
           top == Last(path).parent
           None == DelegationViolations(mandate, Held(chain, ids), now) = {}
           W == Whole(mandate, chain, ids, now)
<1>1. /\ n \in Nat /\ chain \in Seq(Record) /\ mandate \in Record
      /\ mandate.parent = n /\ ids \subseteq 1..n
      /\ DOMAIN Held(chain, ids) = ids
  BY DEF ChainOK, Held
<1>2. /\ Path(mandate, chain, ids, path)
      /\ top = NoParent \/ top \in IdsOf(path) \/ top \notin ids
  BY <1>1, ClimbIs DEF WalkEnds
<1>3. /\ m \in 1..(n + 1) /\ path[1] = mandate
      /\ \A j \in 2..m : path[j] = chain[n + 2 - j] /\ n + 2 - j \in ids
  BY <1>2 DEF Path
<1>4. /\ Last(path) = path[m]
      /\ IdsOf(path) = (n + 2 - m)..(n + 1)
      /\ m <= n => top = n + 1 - m
  BY <1>2, PathSays
<1>5. NoParent \notin IdsOf(path)
  BY <1>1, <1>3, <1>4 DEF NoParent
<1>6. None <=> /\ \A i \in 1..(m - 1) : ScopeViolations(path[i], path[i + 1]) = {}
               /\ \A i \in 2..m : ResolveStatus(path[i], now, FALSE) = "active"
               /\ top = NoParent
  <2>1. None <=> /\ \A i \in 1..(m - 1) :
                      ScopeViolations(path[i], path[i + 1]) = {}
                 /\ \A i \in 2..m :
                      ResolveStatus(path[i], now, FALSE) = "active"
                 /\ top \notin IdsOf(path)
                 /\ top \in IdsOf(path) \cup ids \cup {NoParent}
    BY <1>1, ViolationsSay
  <2> HIDE DEF None, m, top, path
  <2> QED
    BY <1>2, <1>5, <2>1
<1> HIDE DEF None, W, m, n, top, path
<1>7. top = NoParent => m = n + 1
  BY <1>1, <1>3, <1>4 DEF NoParent
<1>8. W => m = n + 1
  <2> SUFFICES ASSUME W, m <= n PROVE FALSE
    BY <1>1, <1>3
  <2>1. top \in 1..n /\ top \notin IdsOf(path) /\ top # NoParent
    BY <1>1, <1>3, <1>4 DEF NoParent
  <2>2. top \in ids
    BY <2>1 DEF W, Whole, n
  <2> QED
    BY <1>2, <2>1, <2>2
<1>9. ASSUME m = n + 1 PROVE None <=> W
  <2>1. \A i \in 1..n : i \in ids /\ path[n + 2 - i] = chain[i]
    <3> SUFFICES ASSUME NEW i \in 1..n
                 PROVE  i \in ids /\ path[n + 2 - i] = chain[i]
      OBVIOUS
    <3>1. n + 2 - i \in 2..m /\ n + 2 - (n + 2 - i) = i
      BY <1>1, <1>9
    <3> QED
      BY <1>3, <3>1
  <2>2. \A i \in 1..n : path[n + 1 - i] = Below(mandate, chain, i)
    <3> SUFFICES ASSUME NEW i \in 1..n
                 PROVE  path[n + 1 - i] = Below(mandate, chain, i)
      OBVIOUS
    <3>1. CASE i = n
      BY <1>1, <1>3, <3>1 DEF Below, n
    <3>2. CASE i # n
      <4>1. i + 1 \in 1..n /\ n + 2 - (i + 1) = n + 1 - i
        BY <1>1, <3>2
      <4>2. path[n + 1 - i] = chain[i + 1]
        BY <2>1, <4>1
      <4> QED
        BY <3>2, <4>2 DEF Below, n
    <3> QED
      BY <3>1, <3>2
  <2>3. (\A i \in 1..(m - 1) : ScopeViolations(path[i], path[i + 1]) = {}) <=>
          \A i \in 1..n : Narrower(Below(mandate, chain, i), chain[i])
    <3>1. ASSUME NEW i \in 1..n
          PROVE  /\ n + 1 - i \in 1..(m - 1)
                 /\ ScopeViolations(path[n + 1 - i], path[(n + 1 - i) + 1]) = {}
                      <=> Narrower(Below(mandate, chain, i), chain[i])
      <4>1. n + 1 - i \in 1..(m - 1) /\ (n + 1 - i) + 1 = n + 2 - i
        BY <1>1, <1>9
      <4>2. chain[i] \in Record /\ Below(mandate, chain, i) \in Record
        <5>1. i # n => i + 1 \in 1..n
          BY <1>1
        <5> QED
          BY <1>1, <5>1 DEF Below, n
      <4> QED
        BY <2>1, <2>2, <4>1, <4>2, NarrowerSays
    <3>2. \A j \in 1..(m - 1) : \E i \in 1..n : j = n + 1 - i
      <4> SUFFICES ASSUME NEW j \in 1..(m - 1)
                   PROVE  \E i \in 1..n : j = n + 1 - i
        OBVIOUS
      <4>1. n + 1 - j \in 1..n /\ j = n + 1 - (n + 1 - j)
        BY <1>1, <1>9
      <4> QED
        BY <4>1
    <3> QED
      BY <3>1, <3>2
  <2>4. (\A i \in 2..m : ResolveStatus(path[i], now, FALSE) = "active") <=>
          \A i \in 1..n : ResolveStatus(chain[i], now, FALSE) = "active"
    <3>1. ASSUME NEW i \in 1..n
          PROVE  /\ n + 2 - i \in 2..m
                 /\ ResolveStatus(path[n + 2 - i], now, FALSE) =
                      ResolveStatus(chain[i], now, FALSE)
      <4>1. n + 2 - i \in 2..m
        BY <1>1, <1>9
      <4>2. path[n + 2 - i] = chain[i]
        BY <2>1
      <4> QED
        BY <4>1, <4>2
    <3>2. \A j \in 2..m : \E i \in 1..n : j = n + 2 - i
      <4> SUFFICES ASSUME NEW j \in 2..m PROVE \E i \in 1..n : j = n + 2 - i
        OBVIOUS
      <4>1. n + 2 - j \in 1..n /\ j = n + 2 - (n + 2 - j)
        BY <1>1, <1>9
      <4> QED
        BY <4>1
    <3> QED
      BY <3>1, <3>2
  <2>5. top = NoParent <=> (n # 0 => chain[1].parent = NoParent)
    <3>1. CASE n = 0
      BY <1>1, <1>3, <1>4, <1>9, <3>1 DEF NoParent, top
    <3>2. CASE n # 0
      <4>1. 1 \in 1..n /\ n + 2 - 1 = m
        BY <1>1, <1>9, <3>2
      <4>2. path[m] = chain[1]
        BY <2>1, <4>1
      <4> QED
        BY <1>4, <3>2, <4>2 DEF top
    <3> QED
      BY <3>1, <3>2
  <2>6. W <=> /\ \A i \in 1..n : Narrower(Below(mandate, chain, i), chain[i])
              /\ \A i \in 1..n : ResolveStatus(chain[i], now, FALSE) = "active"
              /\ n # 0 => chain[1].parent = NoParent
    BY <2>1 DEF W, Whole, n
  <2> QED
    BY <1>6, <2>3, <2>4, <2>5, <2>6
<1>10. None <=> W
  BY <1>6, <1>7, <1>8, <1>9
<1> QED
  BY <1>10 DEF None, W

-----------------------------------------------------------------------------
(* The behaviours of MCPolicyEngine.                                       *)

\* The records of the behaviours, and the chain that the boundary reports on.
Drawn(mandate) ==
  /\ mandate \in Record
  /\ mandate.not_before <= 2 /\ mandate.expires_at \in 2..3
  /\ mandate.spend_cap <= 3
  /\ mandate.counterparty \in {"p1", NoParty}

\* A record that is not active expired by the clock, and the mandate below a
\* whole chain is as narrow as the root.
Sound(next, chain, ids) ==
  /\ next \in Input /\ Drawn(next.mandate)
  /\ next.now \in {1, 3}
  /\ next.deal.negotiated_rounds <= 1
  /\ next.content.present => DOMAIN next.content.detected = {"budget"}
  /\ ChainOK(next.mandate, chain, ids)
  /\ next.status = "expired" => next.now > next.mandate.expires_at
  /\ Whole(next.mandate, chain, ids, next.now) =>
       next.mandate.expires_at = 2 /\ next.mandate.currency = "usd"

Shape ==
  /\ Sound(pi, above, known)
  /\ pi.links = Links(pi.mandate, above, known, pi.now)

\* The boundary reports no broken link exactly of a whole chain.
LEMMA LinksSay ==
  ASSUME NEW mandate, NEW chain, NEW ids, NEW now, ChainOK(mandate, chain, ids)
  PROVE  /\ Links(mandate, chain, ids, now) \subseteq BOOLEAN
         /\ FALSE \notin Links(mandate, chain, ids, now) <=>
              Whole(mandate, chain, ids, now)
<1> DEFINE fine == DelegationViolations(mandate, Held(chain, ids), now) = {}
<1>1. /\ Links(mandate, chain, ids, now) = {fine : ancestor \in DOMAIN chain}
      /\ fine <=> Whole(mandate, chain, ids, now)
  BY DelegationMeansWhole DEF Links, Held
<1>2. fine \in BOOLEAN
  OBVIOUS
<1>3. /\ DOMAIN chain = 1..Len(chain) /\ Len(chain) \in Nat
  BY DEF ChainOK
<1>4. Len(chain) = 0 => Whole(mandate, chain, ids, now)
  BY DEF Whole
<1> HIDE DEF fine
<1>5. CASE Len(chain) = 0
  <2>1. Links(mandate, chain, ids, now) = {}
    BY <1>1, <1>3, <1>5
  <2> QED
    BY <1>4, <1>5, <2>1
<1>6. CASE Len(chain) # 0
  <2>1. 1 \in DOMAIN chain
    BY <1>3, <1>6
  <2>2. Links(mandate, chain, ids, now) = {fine}
    BY <1>1, <2>1
  <2> QED
    BY <1>1, <1>2, <2>2
<1> QED
  BY <1>5, <1>6

\* The two mandates that behaviours start from.
LEMMA PermissiveType ==
  /\ Permissive \in Record /\ Bearer \in Record
  /\ Permissive.id = 1 /\ Bearer.id = 1
  /\ Permissive.parent = 0 /\ Bearer.parent = 0
  /\ Permissive.expires_at = 2 /\ Bearer.expires_at = 2
  /\ Permissive.currency = "usd" /\ Bearer.currency = "usd"
  /\ Drawn(Permissive) /\ Drawn(Bearer)
<1>1. /\ ActionToken \in SUBSET ActionToken
      /\ {} \in SUBSET Named
      /\ {"budget", "name"} \in SUBSET Field
      /\ "p1" \in Party /\ NoParty \in Party /\ "usd" \in Currency
  <2>1. "p1" \in Party /\ NoParty \in Party /\ "usd" \in Currency
    BY DEF Party, Currency
  <2>2. {"budget", "name"} \in SUBSET Field
    BY DEF Field
  <2> QED
    BY <2>1, <2>2
<1> HIDE DEF Named, ActionToken, Field, Party, Currency
<1>2. Permissive \in Record
  BY <1>1 DEF Permissive, Record, NoParent
<1>3. /\ Permissive.id = 1 /\ Permissive.parent = 0
      /\ Permissive.expires_at = 2 /\ Permissive.currency = "usd"
      /\ Permissive.not_before = 1 /\ Permissive.spend_cap = 2
      /\ Permissive.counterparty = "p1"
  BY DEF Permissive, NoParent
<1>4. Bearer \in Record
  BY <1>1, <1>2 DEF Bearer, Record
<1>5. /\ Bearer.id = Permissive.id /\ Bearer.parent = Permissive.parent
      /\ Bearer.expires_at = Permissive.expires_at
      /\ Bearer.currency = Permissive.currency
      /\ Bearer.not_before = Permissive.not_before
      /\ Bearer.spend_cap = Permissive.spend_cap
      /\ Bearer.counterparty = NoParty
  BY <1>2 DEF Bearer, Record
<1> QED
  BY <1>2, <1>3, <1>4, <1>5 DEF Drawn

\* The absent content is one of the contents.
LEMMA NoContentType == NoContent \in Content /\ ~ NoContent.present
<1>1. {} \in SUBSET Field /\ <<>> \in [{} -> Level]
  OBVIOUS
<1>2. <<>> \in UNION {[fields -> Level] : fields \in SUBSET Field}
  BY <1>1
<1>3. 0 \in Level
  BY DEF Level
<1> QED
  BY <1>2, <1>3 DEF NoContent, Content

\* The requests that behaviours start from are policy inputs.
LEMMA AskedType ==
  ASSUME NEW mandate \in Record, NEW token \in Tokens, NEW place \in Places,
         NEW committed \in {0, 1}, NEW amount \in {NoAmount, 0, 2}
  PROVE  LET p == Asked(mandate, token, place, committed, amount) IN
         /\ p \in Input
         /\ p.mandate = mandate /\ p.now = 1 /\ p.links = {}
         /\ p.status = "active" /\ ~ p.content.present
         /\ p.deal.negotiated_rounds = 0
<1> DEFINE deal == [DraftDeal EXCEPT !.state = place,
                                     !.committed_minor = committed]
           proposal == [ action |-> token, amount |-> amount,
                         currency |-> "usd", disclosure_fields |-> {"name"} ]
<1>1. deal \in Deal /\ deal.negotiated_rounds = 0
  <2>1. DraftDeal \in Deal /\ DraftDeal.negotiated_rounds = 0
    BY DEF DraftDeal, Deal, DealState
  <2>2. place \in DealState /\ committed \in Nat
    BY HarnessAssumption
  <2> QED
    BY <2>1, <2>2 DEF Deal
<1>2. proposal \in [ action : Tokens, amount : Amount, currency : Currency,
                     disclosure_fields : SUBSET Field ]
  <2>1. amount \in Amount
    BY DEF Amount, NoAmount
  <2>2. "usd" \in Currency
    BY DEF Currency
  <2>3. {"name"} \in SUBSET Field
    BY DEF Field
  <2> QED
    BY <2>1, <2>2, <2>3
<1>3. "p1" \in Party
  BY DEF Party
<1>4. Asked(mandate, token, place, committed, amount) =
        [ schema |-> TRUE, signature |-> TRUE, status |-> "active",
          now |-> 1, links |-> {}, mandate |-> mandate,
          counterparty |-> "p1", content |-> NoContent,
          deal |-> deal, proposal |-> proposal ]
  BY DEF Asked
<1> HIDE DEF deal, proposal
<1>5. {} \in SUBSET BOOLEAN /\ TRUE \in BOOLEAN /\ 1 \in Nat
  OBVIOUS
<1>6. Asked(mandate, token, place, committed, amount) \in Input
  BY <1>1, <1>2, <1>3, <1>4, <1>5, NoContentType DEF Input
<1> QED
  BY <1>1, <1>4, <1>6, NoContentType

\* A behaviour starts in the shape.
LEMMA InitShape == Init => Shape
<1> SUFFICES ASSUME Init PROVE Shape
  OBVIOUS
<1>1. PICK mandate \in {Permissive, Bearer}, token \in Tokens,
           place \in Places, committed \in {0, 1},
           amount \in {NoAmount, 0, 2} :
        pi = Asked(mandate, token, place, committed, amount)
  BY DEF Init, Inputs
<1>2. /\ mandate \in Record /\ Drawn(mandate)
      /\ mandate.id = 1 /\ mandate.parent = 0
      /\ mandate.expires_at = 2 /\ mandate.currency = "usd"
  BY PermissiveType
<1>3. /\ pi \in Input
      /\ pi.mandate = mandate /\ pi.now = 1 /\ pi.links = {}
      /\ pi.status = "active" /\ ~ pi.content.present
      /\ pi.deal.negotiated_rounds = 0
  BY <1>1, <1>2, AskedType
<1>4. above = <<>> /\ known = {}
  BY DEF Init
<1>5. ChainOK(pi.mandate, above, known)
  <2>1. /\ <<>> \in Seq(Record) /\ Len(<<>>) = 0 /\ 1..0 = {}
    OBVIOUS
  <2> QED
    BY <1>2, <1>3, <1>4, <2>1 DEF ChainOK
<1>6. Links(pi.mandate, above, known, pi.now) = {}
  <2>1. DOMAIN above = {}
    BY <1>4
  <2> QED
    BY <2>1 DEF Links
<1>7. Sound(pi, above, known)
  BY <1>2, <1>3, <1>5 DEF Sound
<1> QED
  BY <1>3, <1>6, <1>7 DEF Shape

\* The inputs differ in the fields named.
SameBut(p, q, changed) ==
  /\ "schema" \in changed \/ q.schema = p.schema
  /\ "signature" \in changed \/ q.signature = p.signature
  /\ "status" \in changed \/ q.status = p.status
  /\ "now" \in changed \/ q.now = p.now
  /\ "links" \in changed \/ q.links = p.links
  /\ "mandate" \in changed \/ q.mandate = p.mandate
  /\ "counterparty" \in changed \/ q.counterparty = p.counterparty
  /\ "content" \in changed \/ q.content = p.content
  /\ "deal" \in changed \/ q.deal = p.deal
  /\ "proposal" \in changed \/ q.proposal = p.proposal

\* A step goes on to the input it names, with the links as the walk finds them.
LEMMA ChainFactSays ==
  ASSUME NEW next, NEW chain, NEW ids,
         Sound(next, chain, ids), ChainFact(next, chain, ids)
  PROVE  /\ Shape'
         /\ pi' \in Input /\ SameBut(next, pi', {"links"})
         /\ FALSE \notin pi'.links <=>
              Whole(next.mandate, chain, ids, next.now)
<1> DEFINE found == Links(next.mandate, chain, ids, next.now)
<1>1. /\ pi' = [next EXCEPT !.links = found]
      /\ above' = chain /\ known' = ids
  BY DEF ChainFact
<1>2. /\ found \in SUBSET BOOLEAN
      /\ FALSE \notin found <=> Whole(next.mandate, chain, ids, next.now)
  BY LinksSay DEF Sound
<1>3. found = Links(next.mandate, chain, ids, next.now)
  OBVIOUS
<1> HIDE DEF found
<1>4. next \in Input
  BY DEF Sound
<1>5. /\ pi' \in Input /\ pi'.links = found
      /\ pi'.schema = next.schema /\ pi'.signature = next.signature
      /\ pi'.status = next.status /\ pi'.now = next.now
      /\ pi'.mandate = next.mandate /\ pi'.counterparty = next.counterparty
      /\ pi'.content = next.content /\ pi'.deal = next.deal
      /\ pi'.proposal = next.proposal
  BY <1>1, <1>2, <1>4 DEF Input
<1>6. SameBut(next, pi', {"links"})
  BY <1>5 DEF SameBut
<1>7. Sound(pi', chain, ids)
  BY <1>5 DEF Sound
<1>8. Shape'
  BY <1>1, <1>3, <1>5, <1>7 DEF Shape
<1> QED
  BY <1>2, <1>5, <1>6, <1>8

\* What the records hold, of a valid chain.
LEMMA ShapeSays ==
  ASSUME Shape
  PROVE  /\ pi \in Input /\ pi.mandate \in Record /\ Drawn(pi.mandate)
         /\ ChainOK(pi.mandate, above, known)
         /\ FALSE \notin pi.links <=>
              Whole(pi.mandate, above, known, pi.now)
         /\ FALSE \notin pi.links =>
              pi.mandate.expires_at = 2 /\ pi.mandate.currency = "usd"
<1>1. Sound(pi, above, known)
      /\ pi.links = Links(pi.mandate, above, known, pi.now)
  BY DEF Shape
<1>2. pi \in Input /\ pi.mandate \in Record /\ ChainOK(pi.mandate, above, known)
  BY <1>1 DEF Sound, Drawn
<1>3. FALSE \notin pi.links <=> Whole(pi.mandate, above, known, pi.now)
  BY <1>1, <1>2, LinksSay
<1> QED
  BY <1>1, <1>2, <1>3 DEF Sound


-----------------------------------------------------------------------------
(* What one more fact makes of a decision.                                 *)

\* Every check that objects to p objects to q.
Cautioner(p, q) ==
  /\ q.schema => p.schema
  /\ q.signature => p.signature
  /\ q.status = "active" => p.status = "active"
  /\ FALSE \notin p.links
  /\ q.now \in q.mandate.not_before .. q.mandate.expires_at =>
       p.now \in p.mandate.not_before .. p.mandate.expires_at
  /\ AudienceMismatch(p) => AudienceMismatch(q)
  /\ q.proposal.action = p.proposal.action
  /\ p.mandate.prohibited_actions \subseteq q.mandate.prohibited_actions
  /\ q.mandate.allowed_actions \subseteq p.mandate.allowed_actions
  /\ q.deal.state = p.deal.state
  /\ p.deal.open_disputes > 0 => q.deal.open_disputes > 0
  /\ p.deal.open_approvals > 0 => q.deal.open_approvals > 0
  /\ DeclaresTooMuch(p) => DeclaresTooMuch(q)
  /\ Leaks(p, DenyLevel) => Leaks(q, DenyLevel)
  /\ WrongCurrency(p) => WrongCurrency(q)
  /\ OverCap(p) => OverCap(q)
  /\ RoundsUsedUp(p) => RoundsUsedUp(q)
  /\ Holds(p) => Holds(q)

\* Such an input is never decided more permissively, and neither is one with a
\* broken link, but for the hold that comes before the round limit.
LEMMA CautionerRanks ==
  ASSUME NEW p \in Input, NEW q \in Input, FALSE \notin q.links => Cautioner(p, q)
  PROVE  \/ Rank[Evaluate(q).outcome] >= Rank[Evaluate(p).outcome]
         \/ HeldBeforeLimit(Evaluate(p), Evaluate(q))
<1>1. /\ Rank["deny"] = 2 /\ Rank["needs_approval"] = 1 /\ Rank["allow"] = 0
  BY DEF Rank
<1> DEFINE of == Evaluate(p).outcome
           oq == Evaluate(q).outcome
<1>2. /\ of = IF Forbids(p) THEN "deny"
              ELSE IF OverCap(p) THEN "needs_approval"
              ELSE IF RoundsUsedUp(p) THEN "deny"
              ELSE IF Holds(p) THEN "needs_approval"
              ELSE "allow"
      /\ oq = IF Forbids(q) THEN "deny"
              ELSE IF OverCap(q) THEN "needs_approval"
              ELSE IF RoundsUsedUp(q) THEN "deny"
              ELSE IF Holds(q) THEN "needs_approval"
              ELSE "allow"
  BY EvaluateSays
<1>3. Rank[of] \in 0..2 /\ Rank[oq] \in 0..2
  BY <1>1, <1>2
<1>4. CASE Forbids(q)
  <2>1. oq = "deny"
    BY <1>2, <1>4
  <2> HIDE DEF of, oq
  <2> QED
    BY <1>1, <1>3, <2>1 DEF of, oq
<1>5. CASE ~ Forbids(q)
  <2>1. Cautioner(p, q)
    BY <1>5 DEF Forbids
  <2>2. ~ Forbids(p)
    <3>1. /\ p.status \in {"active", "revoked", "expired"}
          /\ p.now \in Nat /\ p.mandate.not_before \in Nat
          /\ p.mandate.expires_at \in Nat
          /\ q.status \in {"active", "revoked", "expired"}
          /\ q.now \in Nat /\ q.mandate.not_before \in Nat
          /\ q.mandate.expires_at \in Nat
      BY DEF Input, Record
    <3>2. /\ p.schema /\ p.signature
          /\ p.status \notin {"revoked", "expired"}
          /\ ~ p.now < p.mandate.not_before /\ ~ p.now > p.mandate.expires_at
          /\ FALSE \notin p.links
      <4>1. q.now \in q.mandate.not_before .. q.mandate.expires_at
        <5>1. ~ q.now < q.mandate.not_before /\ ~ q.now > q.mandate.expires_at
          BY <1>5 DEF Forbids
        <5> QED
          BY <3>1, <5>1
      <4>2. q.status = "active" /\ q.schema /\ q.signature
        BY <1>5, <3>1 DEF Forbids
      <4>3. p.now \in p.mandate.not_before .. p.mandate.expires_at
        BY <2>1, <4>1 DEF Cautioner
      <4>4. p.schema /\ p.signature /\ p.status = "active"
            /\ FALSE \notin p.links
        BY <2>1, <4>2 DEF Cautioner
      <4>5. ~ p.now < p.mandate.not_before /\ ~ p.now > p.mandate.expires_at
        BY <3>1, <4>3
      <4> QED
        BY <4>4, <4>5
    <3>3. /\ ~ AudienceMismatch(p)
          /\ p.proposal.action \notin p.mandate.prohibited_actions
          /\ p.proposal.action \in ActionToken
          /\ p.proposal.action \in p.mandate.allowed_actions
          /\ ~ OutOfPlace(p)
      BY <1>5, <2>1 DEF Forbids, Cautioner, OutOfPlace
    <3>4. ~ (IsPayment(p)
               /\ (p.deal.open_disputes > 0 \/ p.deal.open_approvals > 0))
      BY <1>5, <2>1 DEF Forbids, Cautioner, IsPayment
    <3>5. ~ DeclaresTooMuch(p) /\ ~ Leaks(p, DenyLevel) /\ ~ WrongCurrency(p)
      BY <1>5, <2>1 DEF Forbids, Cautioner
    <3> QED
      BY <3>2, <3>3, <3>4, <3>5 DEF Forbids
  <2>3. /\ OverCap(p) => OverCap(q)
        /\ RoundsUsedUp(p) => RoundsUsedUp(q)
        /\ Holds(p) => Holds(q)
    BY <2>1 DEF Cautioner
  <2>4. CASE ~ OverCap(p) /\ RoundsUsedUp(p) /\ OverCap(q)
    <3>1. /\ Evaluate(p) = Deny("negotiation_limit_reached")
          /\ Evaluate(q) = NeedsApproval("spend_cap_exceeded")
      BY <1>5, <2>2, <2>4, CapBeforeLimit
    <3> QED
      BY <3>1 DEF HeldBeforeLimit
  <2>5. CASE OverCap(p) \/ ~ RoundsUsedUp(p) \/ ~ OverCap(q)
    <3>1. \/ of = "allow" \/ oq = "deny"
          \/ of = "needs_approval" /\ oq = "needs_approval"
      BY <1>2, <1>5, <2>2, <2>3, <2>5
    <3> HIDE DEF of, oq
    <3> QED
      BY <1>1, <1>3, <3>1 DEF of, oq
  <2> QED
    BY <2>4, <2>5
<1> QED
  BY <1>4, <1>5

\* Which links are reported of q makes no difference to the comparison.
LEMMA CautionerLinks ==
  ASSUME NEW p, NEW q, NEW r, SameBut(q, r, {"links"}), Cautioner(p, q)
  PROVE  Cautioner(p, r)
<1>1. /\ r.schema = q.schema /\ r.signature = q.signature
      /\ r.status = q.status /\ r.now = q.now
      /\ r.mandate = q.mandate /\ r.counterparty = q.counterparty
      /\ r.content = q.content /\ r.deal = q.deal
      /\ r.proposal = q.proposal
  BY DEF SameBut
<1>2. /\ AudienceMismatch(q) => AudienceMismatch(r)
      /\ DeclaresTooMuch(q) => DeclaresTooMuch(r)
      /\ WrongCurrency(q) => WrongCurrency(r)
      /\ RoundsUsedUp(q) => RoundsUsedUp(r)
  BY <1>1 DEF AudienceMismatch, DeclaresTooMuch, WrongCurrency, RoundsUsedUp
<1>3. OverCap(q) <=> OverCap(r)
  BY <1>1 DEF OverCap
<1>4. /\ Leaks(q, DenyLevel) => Leaks(r, DenyLevel)
      /\ Holds(q) => Holds(r)
  BY <1>1 DEF Leaks, Holds
<1>5. /\ r.schema => p.schema
      /\ r.signature => p.signature
      /\ r.status = "active" => p.status = "active"
      /\ FALSE \notin p.links
      /\ r.now \in r.mandate.not_before .. r.mandate.expires_at =>
           p.now \in p.mandate.not_before .. p.mandate.expires_at
  BY <1>1 DEF Cautioner
<1>6. /\ r.proposal.action = p.proposal.action
      /\ p.mandate.prohibited_actions \subseteq r.mandate.prohibited_actions
      /\ r.mandate.allowed_actions \subseteq p.mandate.allowed_actions
      /\ r.deal.state = p.deal.state
      /\ p.deal.open_disputes > 0 => r.deal.open_disputes > 0
      /\ p.deal.open_approvals > 0 => r.deal.open_approvals > 0
  BY <1>1 DEF Cautioner
<1>7. /\ AudienceMismatch(p) => AudienceMismatch(q)
      /\ DeclaresTooMuch(p) => DeclaresTooMuch(q)
      /\ Leaks(p, DenyLevel) => Leaks(q, DenyLevel)
      /\ WrongCurrency(p) => WrongCurrency(q)
      /\ OverCap(p) => OverCap(q)
      /\ RoundsUsedUp(p) => RoundsUsedUp(q)
      /\ Holds(p) => Holds(q)
  BY DEF Cautioner
<1>8. /\ AudienceMismatch(p) => AudienceMismatch(r)
      /\ DeclaresTooMuch(p) => DeclaresTooMuch(r)
      /\ Leaks(p, DenyLevel) => Leaks(r, DenyLevel)
      /\ WrongCurrency(p) => WrongCurrency(r)
      /\ OverCap(p) => OverCap(r)
      /\ RoundsUsedUp(p) => RoundsUsedUp(r)
      /\ Holds(p) => Holds(r)
  BY <1>2, <1>3, <1>4, <1>7
<1> QED
  BY <1>5, <1>6, <1>8 DEF Cautioner

\* A narrower mandate is a cautious fact.
LEMMA NarrowerIsCautious ==
  ASSUME NEW p \in Input, NEW q \in Input,
         SameBut(p, q, {"mandate", "status", "links"}),
         Narrower(q.mandate, p.mandate), FALSE \notin p.links,
         q.status = "active" => p.status = "active"
  PROVE  Cautioner(p, q)
<1>1. /\ q.schema = p.schema /\ q.signature = p.signature
      /\ q.now = p.now /\ q.counterparty = p.counterparty
      /\ q.content = p.content /\ q.deal = p.deal /\ q.proposal = p.proposal
  BY DEF SameBut
<1> DEFINE m == p.mandate
           k == q.mandate
<1>2. /\ m.not_before \in Nat /\ m.expires_at \in Nat /\ m.spend_cap \in Nat
      /\ m.max_negotiation_rounds \in Nat
      /\ k.not_before \in Nat /\ k.expires_at \in Nat /\ k.spend_cap \in Nat
      /\ k.max_negotiation_rounds \in Nat
      /\ p.now \in Nat /\ p.deal.negotiated_rounds \in Nat
      /\ p.deal.committed_minor \in Nat /\ p.proposal.amount \in Amount
  BY DEF Input, Record, Deal
<1>3. p.proposal.amount \in Int
  BY <1>2 DEF Amount, NoAmount
<1>4. /\ k.not_before >= m.not_before /\ k.expires_at <= m.expires_at
      /\ k.spend_cap <= m.spend_cap
      /\ k.max_negotiation_rounds <= m.max_negotiation_rounds
      /\ k.allowed_actions \subseteq m.allowed_actions
      /\ m.prohibited_actions \subseteq k.prohibited_actions
      /\ m.requires_human_approval_for \subseteq k.requires_human_approval_for
      /\ k.disclosure_fields \subseteq m.disclosure_fields
      /\ k.currency = m.currency
      /\ m.counterparty = NoParty \/ k.counterparty = m.counterparty
  BY DEF Narrower
<1> HIDE DEF m, k
<1>5. q.now \in k.not_before .. k.expires_at =>
        p.now \in m.not_before .. m.expires_at
  BY <1>1, <1>2, <1>4
<1>6. AudienceMismatch(p) => AudienceMismatch(q)
  BY <1>1, <1>4 DEF AudienceMismatch, m, k
<1>7. DeclaresTooMuch(p) => DeclaresTooMuch(q)
  BY <1>1, <1>4 DEF DeclaresTooMuch, m, k
<1>8. /\ Leaks(p, DenyLevel) => Leaks(q, DenyLevel)
      /\ Leaks(p, HoldLevel) => Leaks(q, HoldLevel)
  BY <1>1, <1>4 DEF Leaks, m, k
<1>9. WrongCurrency(p) => WrongCurrency(q)
  BY <1>1, <1>4 DEF WrongCurrency, m, k
<1>10. OverCap(p) => OverCap(q)
  BY <1>1, <1>2, <1>3, <1>4 DEF OverCap, m, k
<1>11. RoundsUsedUp(p) => RoundsUsedUp(q)
  BY <1>1, <1>2, <1>4 DEF RoundsUsedUp, m, k
<1>12. Holds(p) => Holds(q)
  BY <1>1, <1>4, <1>8 DEF Holds, m, k
<1> QED
  BY <1>1, <1>4, <1>5, <1>6, <1>7, <1>8, <1>9, <1>10, <1>11, <1>12
     DEF Cautioner, m, k

\* The next input of a step: one of the shape above, and a cautious one unless
\* the boundary reports a broken link.
Turned(next, chain, ids) ==
  /\ ChainFact(next, chain, ids)
  /\ Sound(next, chain, ids)
  /\ Whole(next.mandate, chain, ids, next.now) => Cautioner(pi, next)

\* A fact about neither the mandate, the chain nor the clock.
LEMMA OtherFact ==
  ASSUME Shape, NEW q, q \in Input, Fact(q),
         q.mandate = pi.mandate, q.now = pi.now,
         q.deal.negotiated_rounds <= 1,
         q.content.present => DOMAIN q.content.detected = {"budget"},
         q.status = "expired" => pi.status = "expired",
         FALSE \notin pi.links /\ pi.mandate.currency = "usd"
           => Cautioner(pi, q)
  PROVE  Turned(q, above, known)
<1>1. Sound(q, above, known)
  BY DEF Shape, Sound
<1>2. Whole(q.mandate, above, known, q.now) => Cautioner(pi, q)
  BY ShapeSays
<1> QED
  BY <1>1, <1>2 DEF Turned, Fact

\* A revocation is a cautious fact.
LEMMA RecordRevokedTurns ==
  Shape /\ RecordRevoked => Turned([pi EXCEPT !.status = "revoked"], above, known)
<1> SUFFICES ASSUME Shape, RecordRevoked
             PROVE  Turned([pi EXCEPT !.status = "revoked"], above, known)
  OBVIOUS
<1> DEFINE q == [pi EXCEPT !.status = "revoked"]
<1>1. pi \in Input
  BY ShapeSays
<1>2. q \in Input /\ q.status = "revoked" /\ SameBut(pi, q, {"status"})
  BY <1>1 DEF Input, SameBut
<1>3. Fact(q)
  BY DEF RecordRevoked
<1> HIDE DEF q
<1>4. FALSE \notin pi.links => Cautioner(pi, q)
  BY <1>2 DEF SameBut, Cautioner, AudienceMismatch, DeclaresTooMuch, Leaks,
              WrongCurrency, OverCap, RoundsUsedUp, Holds
<1>5. Turned(q, above, known)
  BY <1>2, <1>3, <1>4, OtherFact DEF SameBut, Shape, Sound
<1> QED
  BY <1>5 DEF q

\* So is a signature that does not verify,
LEMMA SignatureBadTurns ==
  Shape /\ SignatureBad => Turned([pi EXCEPT !.signature = FALSE], above, known)
<1> SUFFICES ASSUME Shape, SignatureBad
             PROVE  Turned([pi EXCEPT !.signature = FALSE], above, known)
  OBVIOUS
<1> DEFINE q == [pi EXCEPT !.signature = FALSE]
<1>1. pi \in Input
  BY ShapeSays
<1>2. q \in Input /\ ~ q.signature /\ SameBut(pi, q, {"signature"})
  BY <1>1 DEF Input, SameBut
<1>3. Fact(q)
  BY DEF SignatureBad
<1> HIDE DEF q
<1>4. FALSE \notin pi.links => Cautioner(pi, q)
  BY <1>2 DEF SameBut, Cautioner, AudienceMismatch, DeclaresTooMuch, Leaks,
              WrongCurrency, OverCap, RoundsUsedUp, Holds
<1>5. Turned(q, above, known)
  BY <1>2, <1>3, <1>4, OtherFact DEF SameBut, Shape, Sound
<1> QED
  BY <1>5 DEF q

\* an unknown schema version,
LEMMA SchemaUnknownTurns ==
  Shape /\ SchemaUnknown => Turned([pi EXCEPT !.schema = FALSE], above, known)
<1> SUFFICES ASSUME Shape, SchemaUnknown
             PROVE  Turned([pi EXCEPT !.schema = FALSE], above, known)
  OBVIOUS
<1> DEFINE q == [pi EXCEPT !.schema = FALSE]
<1>1. pi \in Input /\ Drawn(pi.mandate)
  BY ShapeSays
<1>2. q \in Input /\ ~ q.schema /\ SameBut(pi, q, {"schema"})
  BY <1>1 DEF Input, SameBut
<1>3. Fact(q)
  BY DEF SchemaUnknown
<1> HIDE DEF q
<1>4. FALSE \notin pi.links => Cautioner(pi, q)
  BY <1>2 DEF SameBut, Cautioner, AudienceMismatch, DeclaresTooMuch, Leaks,
              WrongCurrency, OverCap, RoundsUsedUp, Holds
<1>5. Turned(q, above, known)
  BY <1>2, <1>3, <1>4, OtherFact DEF SameBut, Shape, Sound
<1> QED
  BY <1>5 DEF q

\* a request about another party than the mandate's,
LEMMA OtherPartyTurns ==
  Shape /\ OtherParty => Turned([pi EXCEPT !.counterparty = "p2"], above, known)
<1> SUFFICES ASSUME Shape, OtherParty
             PROVE  Turned([pi EXCEPT !.counterparty = "p2"], above, known)
  OBVIOUS
<1> DEFINE q == [pi EXCEPT !.counterparty = "p2"]
<1>1. pi \in Input /\ Drawn(pi.mandate)
  BY ShapeSays
<1>2. q \in Input /\ q.counterparty = "p2" /\ SameBut(pi, q, {"counterparty"})
  BY <1>1 DEF Input, SameBut, Party
<1>3. Fact(q)
  BY DEF OtherParty
<1> HIDE DEF q
<1>4. FALSE \notin pi.links => Cautioner(pi, q)
  <2>1. AudienceMismatch(pi) => AudienceMismatch(q)
    BY <1>1, <1>2 DEF SameBut, AudienceMismatch, Drawn, NoParty
  <2> QED
    BY <1>2, <2>1 DEF SameBut, Cautioner, DeclaresTooMuch, Leaks,
                      WrongCurrency, OverCap, RoundsUsedUp, Holds
<1>5. Turned(q, above, known)
  BY <1>2, <1>3, <1>4, OtherFact DEF SameBut, Shape, Sound
<1> QED
  BY <1>5 DEF q

\* a dispute,
LEMMA DisputeOpensTurns ==
  Shape /\ DisputeOpens => Turned([pi EXCEPT !.deal.open_disputes = 1], above, known)
<1> SUFFICES ASSUME Shape, DisputeOpens
             PROVE  Turned([pi EXCEPT !.deal.open_disputes = 1], above, known)
  OBVIOUS
<1> DEFINE q == [pi EXCEPT !.deal.open_disputes = 1]
<1>1. pi \in Input /\ Drawn(pi.mandate)
  BY ShapeSays
<1>2. q \in Input /\ q.deal.open_disputes = 1
      /\ q.deal.state = pi.deal.state
      /\ q.deal.negotiated_rounds = pi.deal.negotiated_rounds
      /\ q.deal.committed_minor = pi.deal.committed_minor
      /\ q.deal.open_approvals = pi.deal.open_approvals
      /\ SameBut(pi, q, {"deal"})
  BY <1>1 DEF Input, SameBut, Deal
<1>3. Fact(q)
  BY DEF DisputeOpens
<1> HIDE DEF q
<1>4. FALSE \notin pi.links => Cautioner(pi, q)
  <2>1. /\ AudienceMismatch(pi) => AudienceMismatch(q)
        /\ DeclaresTooMuch(pi) => DeclaresTooMuch(q)
        /\ Leaks(pi, DenyLevel) => Leaks(q, DenyLevel)
        /\ WrongCurrency(pi) => WrongCurrency(q)
        /\ OverCap(pi) <=> OverCap(q)
        /\ RoundsUsedUp(pi) => RoundsUsedUp(q)
        /\ Holds(pi) => Holds(q)
    BY <1>2 DEF SameBut, AudienceMismatch, DeclaresTooMuch, Leaks,
                WrongCurrency, OverCap, RoundsUsedUp, Holds
  <2>2. /\ q.deal.open_disputes > 0 /\ q.deal.state = pi.deal.state
        /\ pi.deal.open_approvals > 0 => q.deal.open_approvals > 0
    BY <1>2
  <2>3. q.mandate = pi.mandate /\ q.now = pi.now /\ q.status = pi.status
        /\ q.schema = pi.schema /\ q.signature = pi.signature
        /\ q.proposal = pi.proposal
    BY <1>2 DEF SameBut
  <2> QED
    BY <2>1, <2>2, <2>3 DEF Cautioner
<1>5. Turned(q, above, known)
  BY <1>2, <1>3, <1>4, OtherFact DEF SameBut, Shape, Sound
<1> QED
  BY <1>5 DEF q

\* an open approval,
LEMMA ApprovalOpensTurns ==
  Shape /\ ApprovalOpens => Turned([pi EXCEPT !.deal.open_approvals = 1], above, known)
<1> SUFFICES ASSUME Shape, ApprovalOpens
             PROVE  Turned([pi EXCEPT !.deal.open_approvals = 1], above, known)
  OBVIOUS
<1> DEFINE q == [pi EXCEPT !.deal.open_approvals = 1]
<1>1. pi \in Input /\ Drawn(pi.mandate)
  BY ShapeSays
<1>2. q \in Input /\ q.deal.open_approvals = 1
      /\ q.deal.state = pi.deal.state
      /\ q.deal.negotiated_rounds = pi.deal.negotiated_rounds
      /\ q.deal.committed_minor = pi.deal.committed_minor
      /\ q.deal.open_disputes = pi.deal.open_disputes
      /\ SameBut(pi, q, {"deal"})
  BY <1>1 DEF Input, SameBut, Deal
<1>3. Fact(q)
  BY DEF ApprovalOpens
<1> HIDE DEF q
<1>4. FALSE \notin pi.links => Cautioner(pi, q)
  <2>1. /\ AudienceMismatch(pi) => AudienceMismatch(q)
        /\ DeclaresTooMuch(pi) => DeclaresTooMuch(q)
        /\ Leaks(pi, DenyLevel) => Leaks(q, DenyLevel)
        /\ WrongCurrency(pi) => WrongCurrency(q)
        /\ OverCap(pi) <=> OverCap(q)
        /\ RoundsUsedUp(pi) => RoundsUsedUp(q)
        /\ Holds(pi) => Holds(q)
    BY <1>2 DEF SameBut, AudienceMismatch, DeclaresTooMuch, Leaks,
                WrongCurrency, OverCap, RoundsUsedUp, Holds
  <2>2. /\ q.deal.open_approvals > 0 /\ q.deal.state = pi.deal.state
        /\ pi.deal.open_disputes > 0 => q.deal.open_disputes > 0
    BY <1>2
  <2>3. q.mandate = pi.mandate /\ q.now = pi.now /\ q.status = pi.status
        /\ q.schema = pi.schema /\ q.signature = pi.signature
        /\ q.proposal = pi.proposal
    BY <1>2 DEF SameBut
  <2> QED
    BY <2>1, <2>2, <2>3 DEF Cautioner
<1>5. Turned(q, above, known)
  BY <1>2, <1>3, <1>4, OtherFact DEF SameBut, Shape, Sound
<1> QED
  BY <1>5 DEF q

\* a negotiation round,
LEMMA RoundSpentTurns ==
  Shape /\ RoundSpent => Turned([pi EXCEPT !.deal.negotiated_rounds = 1], above, known)
<1> SUFFICES ASSUME Shape, RoundSpent
             PROVE  Turned([pi EXCEPT !.deal.negotiated_rounds = 1], above, known)
  OBVIOUS
<1> DEFINE q == [pi EXCEPT !.deal.negotiated_rounds = 1]
<1>1. pi \in Input /\ Drawn(pi.mandate)
  BY ShapeSays
<1>2. q \in Input /\ q.deal.negotiated_rounds = 1
      /\ q.deal.state = pi.deal.state
      /\ q.deal.committed_minor = pi.deal.committed_minor
      /\ q.deal.open_disputes = pi.deal.open_disputes
      /\ q.deal.open_approvals = pi.deal.open_approvals
      /\ SameBut(pi, q, {"deal"})
  BY <1>1 DEF Input, SameBut, Deal
<1>3. Fact(q)
  BY DEF RoundSpent
<1> HIDE DEF q
<1>4. FALSE \notin pi.links => Cautioner(pi, q)
  <2>1. pi.deal.negotiated_rounds <= 1 /\ pi.deal.negotiated_rounds \in Nat
    BY <1>1 DEF Shape, Sound, Input, Deal
  <2>2. pi.mandate.max_negotiation_rounds \in Nat
    BY <1>1 DEF Input, Record
  <2>3. RoundsUsedUp(pi) => RoundsUsedUp(q)
    BY <1>2, <2>1, <2>2 DEF SameBut, RoundsUsedUp
  <2> QED
    BY <1>2, <2>3 DEF SameBut, Cautioner, AudienceMismatch, DeclaresTooMuch,
                      Leaks, WrongCurrency, OverCap, Holds
<1>5. Turned(q, above, known)
  <2>1. q.deal.negotiated_rounds <= 1
    BY <1>2
  <2>2. q.mandate = pi.mandate /\ q.now = pi.now /\ q.status = pi.status
        /\ q.content = pi.content
    BY <1>2 DEF SameBut
  <2>3. pi.content.present => DOMAIN pi.content.detected = {"budget"}
    BY DEF Shape, Sound
  <2> QED
    BY <1>2, <1>3, <1>4, <2>1, <2>2, <2>3, OtherFact
<1> QED
  BY <1>5 DEF q

\* what the deal is committed to,
LEMMA CommitmentGrowsTurns ==
  Shape /\ CommitmentGrows =>
    Turned([pi EXCEPT !.deal.committed_minor = @ + 3], above, known)
<1> SUFFICES ASSUME Shape, CommitmentGrows
             PROVE  Turned([pi EXCEPT !.deal.committed_minor = @ + 3],
                           above, known)
  OBVIOUS
<1> DEFINE q == [pi EXCEPT !.deal.committed_minor = @ + 3]
<1>1. pi \in Input /\ Drawn(pi.mandate)
  BY ShapeSays
<1>2. q \in Input
      /\ q.deal.committed_minor = pi.deal.committed_minor + 3
      /\ q.deal.state = pi.deal.state
      /\ q.deal.negotiated_rounds = pi.deal.negotiated_rounds
      /\ q.deal.open_disputes = pi.deal.open_disputes
      /\ q.deal.open_approvals = pi.deal.open_approvals
      /\ SameBut(pi, q, {"deal"})
  BY <1>1 DEF Input, SameBut, Deal
<1>3. Fact(q)
  BY DEF CommitmentGrows
<1> HIDE DEF q
<1>4. FALSE \notin pi.links => Cautioner(pi, q)
  <2>1. /\ pi.deal.committed_minor \in Nat /\ pi.mandate.spend_cap \in Nat
        /\ pi.proposal.amount \in Int
    BY <1>1 DEF Input, Deal, Record, Amount, NoAmount
  <2>2. OverCap(pi) => OverCap(q)
    BY <1>2, <2>1 DEF SameBut, OverCap
  <2> QED
    BY <1>2, <2>2 DEF SameBut, Cautioner, AudienceMismatch, DeclaresTooMuch,
                      Leaks, WrongCurrency, RoundsUsedUp, Holds
<1>5. Turned(q, above, known)
  <2>1. q.deal.negotiated_rounds <= 1
    BY <1>2 DEF Shape, Sound
  <2>2. q.mandate = pi.mandate /\ q.now = pi.now /\ q.status = pi.status
        /\ q.content = pi.content
    BY <1>2 DEF SameBut
  <2>3. pi.content.present => DOMAIN pi.content.detected = {"budget"}
    BY DEF Shape, Sound
  <2> QED
    BY <1>2, <1>3, <1>4, <2>1, <2>2, <2>3, OtherFact
<1> QED
  BY <1>5 DEF q

\* and another currency than the mandate's.
LEMMA CurrencyDiffersTurns ==
  Shape /\ CurrencyDiffers => Turned([pi EXCEPT !.proposal.currency = "eur"], above, known)
<1> SUFFICES ASSUME Shape, CurrencyDiffers
             PROVE  Turned([pi EXCEPT !.proposal.currency = "eur"], above, known)
  OBVIOUS
<1> DEFINE q == [pi EXCEPT !.proposal.currency = "eur"]
<1>1. pi \in Input /\ Drawn(pi.mandate)
  BY ShapeSays
<1>2. q \in Input /\ q.proposal.currency = "eur"
      /\ q.proposal.action = pi.proposal.action
      /\ q.proposal.amount = pi.proposal.amount
      /\ q.proposal.disclosure_fields = pi.proposal.disclosure_fields
      /\ SameBut(pi, q, {"proposal"})
  BY <1>1 DEF Input, SameBut, Currency
<1>3. Fact(q)
  BY DEF CurrencyDiffers
<1> HIDE DEF q
<1>4. FALSE \notin pi.links /\ pi.mandate.currency = "usd"
        => Cautioner(pi, q)
  BY <1>2 DEF SameBut, Cautioner, AudienceMismatch, DeclaresTooMuch, Leaks,
              WrongCurrency, OverCap, RoundsUsedUp, IsPayment, Holds
<1>5. Turned(q, above, known)
  BY <1>2, <1>3, <1>4, OtherFact DEF SameBut, Shape, Sound
<1> QED
  BY <1>5 DEF q

\* An answer of the screen is one of the contents.
LEMMA ScreenedType ==
  ASSUME NEW available \in BOOLEAN, NEW level \in Level, NEW hostility \in Level
  PROVE  LET c == Screened(available, level, hostility) IN
         /\ c \in Content /\ c.present
         /\ c.available = available /\ c.hostility = hostility
         /\ DOMAIN c.detected = {"budget"} /\ c.detected["budget"] = level
<1> DEFINE detected == [f \in {"budget"} |-> level]
<1>1. /\ detected \in [{"budget"} -> Level]
      /\ DOMAIN detected = {"budget"} /\ detected["budget"] = level
  OBVIOUS
<1>2. {"budget"} \in SUBSET Field
  BY DEF Field
<1>3. detected \in UNION {[fields -> Level] : fields \in SUBSET Field}
  BY <1>1, <1>2
<1>4. Screened(available, level, hostility) =
        [ present |-> TRUE, available |-> available, hostility |-> hostility,
          detected |-> detected ]
  BY DEF Screened
<1> HIDE DEF detected
<1>5. Screened(available, level, hostility) \in Content
  BY <1>3, <1>4 DEF Content
<1> QED
  BY <1>1, <1>4, <1>5

\* A text that the screen finds more in is a cautious fact.
LEMMA TextScreenedTurns ==
  Shape /\ TextScreened => \E q : Turned(q, above, known)
<1> SUFFICES ASSUME Shape, TextScreened
             PROVE  \E q : Turned(q, above, known)
  OBVIOUS
<1>1. PICK available \in BOOLEAN, level \in Level, hostility \in Level :
        /\ pi.content.present =>
             /\ level >= pi.content.detected["budget"]
             /\ hostility >= pi.content.hostility
             /\ available => pi.content.available
        /\ Fact([pi EXCEPT !.content = Screened(available, level, hostility)])
  BY DEF TextScreened
<1> DEFINE q == [pi EXCEPT !.content = Screened(available, level, hostility)]
<1>2. /\ pi \in Input
      /\ pi.content.present => DOMAIN pi.content.detected = {"budget"}
      /\ pi.deal.negotiated_rounds <= 1
  BY DEF Shape, Sound
<1>3. /\ Screened(available, level, hostility) \in Content
      /\ q.content = Screened(available, level, hostility)
      /\ q \in Input /\ SameBut(pi, q, {"content"})
  BY <1>2, ScreenedType DEF Input, SameBut
<1>4. /\ q.content.present
      /\ q.content.available = available /\ q.content.hostility = hostility
      /\ DOMAIN q.content.detected = {"budget"}
      /\ q.content.detected["budget"] = level
  BY <1>3, ScreenedType
<1>5. Fact(q)
  BY <1>1
<1> HIDE DEF q
<1>6. pi.content.present =>
        /\ pi.content.detected["budget"] \in 0..2
        /\ pi.content.hostility \in 0..2
  <2>1. pi.content \in Content
    BY <1>2 DEF Input
  <2>2. PICK fields \in SUBSET Field : pi.content.detected \in [fields -> Level]
    BY <2>1 DEF Content
  <2>3. pi.content.hostility \in 0..2
    BY <2>1 DEF Content, Level
  <2> QED
    BY <1>2, <2>2, <2>3 DEF Level
<1>7. q.mandate = pi.mandate /\ q.now = pi.now /\ q.status = pi.status
      /\ q.schema = pi.schema /\ q.signature = pi.signature
      /\ q.proposal = pi.proposal /\ q.deal = pi.deal
      /\ q.counterparty = pi.counterparty
  BY <1>3 DEF SameBut
<1>8. level \in 0..2 /\ hostility \in 0..2
  BY DEF Level
<1>9. /\ Leaks(pi, DenyLevel) => Leaks(q, DenyLevel)
      /\ Leaks(pi, HoldLevel) => Leaks(q, HoldLevel)
  BY <1>1, <1>2, <1>4, <1>6, <1>7, <1>8 DEF Leaks, DenyLevel, HoldLevel
<1>10. Holds(pi) => Holds(q)
  <2>1. pi.content.present /\ ~ pi.content.available => ~ q.content.available
    BY <1>1, <1>4
  <2>2. pi.content.present /\ pi.content.hostility >= HoldLevel
          => q.content.hostility >= HoldLevel
    BY <1>1, <1>4, <1>6, <1>8 DEF HoldLevel
  <2> QED
    BY <1>4, <1>7, <1>9, <2>1, <2>2 DEF Holds
<1>11. FALSE \notin pi.links => Cautioner(pi, q)
  BY <1>7, <1>9, <1>10 DEF Cautioner, AudienceMismatch, DeclaresTooMuch,
                           WrongCurrency, OverCap, RoundsUsedUp
<1>12. Turned(q, above, known)
  BY <1>2, <1>3, <1>4, <1>5, <1>7, <1>11, OtherFact
<1> QED
  BY <1>12

\* Time passes every window but that of a wide child, which breaks the chain.
LEMMA ClockPassesTurns ==
  Shape /\ ClockPasses => \E q : Turned(q, above, known)
<1> SUFFICES ASSUME Shape, ClockPasses
             PROVE  \E q : Turned(q, above, known)
  OBVIOUS
<1> DEFINE late == ResolveStatus(pi.mandate, 3, pi.status = "revoked")
           q == [pi EXCEPT !.now = 3, !.status = late]
<1>1. /\ pi \in Input /\ Drawn(pi.mandate) /\ pi.mandate \in Record
      /\ ChainOK(pi.mandate, above, known)
      /\ pi.now \in {1, 3}
      /\ pi.content.present => DOMAIN pi.content.detected = {"budget"}
      /\ pi.deal.negotiated_rounds <= 1
  BY ShapeSays DEF Shape, Sound
<1>2. /\ late \in {"active", "revoked", "expired"}
      /\ late = "expired" => 3 > pi.mandate.expires_at
      /\ late = "active" => ~ 3 > pi.mandate.expires_at
  BY DEF ResolveStatus
<1>3. Fact(q)
  BY DEF ClockPasses
<1> HIDE DEF late
<1>4. /\ q \in Input /\ q.now = 3 /\ q.status = late
      /\ SameBut(pi, q, {"now", "status"})
  BY <1>1, <1>2 DEF Input, SameBut
<1> HIDE DEF q
<1>5. /\ q.mandate = pi.mandate /\ q.content = pi.content /\ q.deal = pi.deal
      /\ q.proposal = pi.proposal /\ q.counterparty = pi.counterparty
      /\ q.schema = pi.schema /\ q.signature = pi.signature
  BY <1>4 DEF SameBut
<1>6. Whole(q.mandate, above, known, q.now) =>
        Whole(pi.mandate, above, known, pi.now)
  <2>1. \A record \in Record : ResolveStatus(record, 3, FALSE) = "active" =>
                                 ResolveStatus(record, pi.now, FALSE) = "active"
    BY <1>1 DEF ResolveStatus, Record
  <2>2. \A i \in 1..Len(above) : above[i] \in Record
    BY <1>1 DEF ChainOK
  <2> QED
    BY <1>4, <1>5, <2>1, <2>2 DEF Whole
<1>7. Whole(q.mandate, above, known, q.now) =>
        FALSE \notin pi.links /\ pi.mandate.expires_at = 2
          /\ pi.mandate.currency = "usd"
  BY <1>6, ShapeSays
<1>8. Sound(q, above, known)
  BY <1>1, <1>2, <1>4, <1>5, <1>7 DEF Sound
<1>9. FALSE \notin pi.links /\ pi.mandate.expires_at = 2 => Cautioner(pi, q)
  <2> SUFFICES ASSUME FALSE \notin pi.links, pi.mandate.expires_at = 2
               PROVE  Cautioner(pi, q)
    OBVIOUS
  <2>1. q.status # "active"
    BY <1>2, <1>4
  <2>2. q.now \notin q.mandate.not_before .. q.mandate.expires_at
    BY <1>1, <1>4, <1>5 DEF Record
  <2> QED
    BY <1>5, <2>1, <2>2
       DEF Cautioner, AudienceMismatch, DeclaresTooMuch, Leaks, WrongCurrency,
           OverCap, RoundsUsedUp, Holds
<1> QED
  BY <1>3, <1>7, <1>8, <1>9 DEF Turned, Fact


\* A mandate that narrows the one before, with its window's end and its place.
LEMMA MandateTurns ==
  ASSUME Shape, NEW m \in Record, MandateFact(m), Drawn(m),
         Narrower(m, pi.mandate),
         m.id = pi.mandate.id, m.parent = pi.mandate.parent,
         m.expires_at = pi.mandate.expires_at \/ m.expires_at = 2
  PROVE  \E q : Turned(q, above, known)
<1> DEFINE q == [pi EXCEPT !.mandate = m]
<1>1. /\ pi \in Input /\ pi.mandate \in Record
      /\ ChainOK(pi.mandate, above, known)
      /\ pi.now \in {1, 3}
      /\ pi.content.present => DOMAIN pi.content.detected = {"budget"}
      /\ pi.deal.negotiated_rounds <= 1
      /\ pi.status = "expired" => pi.now > pi.mandate.expires_at
  BY ShapeSays DEF Shape, Sound
<1>2. FALSE \notin pi.links /\ Fact(q)
  BY DEF MandateFact
<1>3. q \in Input /\ q.mandate = m /\ SameBut(pi, q, {"mandate"})
  BY <1>1 DEF Input, SameBut
<1> HIDE DEF q
<1>4. /\ q.now = pi.now /\ q.status = pi.status /\ q.content = pi.content
      /\ q.deal = pi.deal /\ q.proposal = pi.proposal
  BY <1>3 DEF SameBut
<1>5. pi.mandate.expires_at = 2 /\ pi.mandate.currency = "usd"
  BY <1>2, ShapeSays
<1>6. m.expires_at = 2 /\ m.currency = "usd"
  BY <1>5 DEF Narrower
<1>7. ChainOK(m, above, known)
  BY <1>1 DEF ChainOK
<1>8. Sound(q, above, known)
  BY <1>1, <1>3, <1>4, <1>5, <1>6, <1>7 DEF Sound
<1>9. SameBut(pi, q, {"mandate", "status", "links"})
  BY <1>3 DEF SameBut
<1>10. Cautioner(pi, q)
  BY <1>1, <1>2, <1>3, <1>4, <1>9, NarrowerIsCautious
<1> QED
  BY <1>2, <1>8, <1>10 DEF Turned, Fact

\* A window that has not opened narrows the mandate,
LEMMA NotYetValidTurns ==
  Shape /\ NotYetValid => \E q : Turned(q, above, known)
<1> SUFFICES ASSUME Shape, NotYetValid PROVE \E q : Turned(q, above, known)
  OBVIOUS
<1>1. pi \in Input /\ pi.mandate \in Record /\ Drawn(pi.mandate)
      /\ (FALSE \notin pi.links => pi.mandate.expires_at = 2)
  BY ShapeSays
<1>2. pi.proposal.action \in Tokens
  BY <1>1 DEF Input
<1> DEFINE m == [pi.mandate EXCEPT !.not_before = 2, !.expires_at = 2]
<1>4. MandateFact(m)
  BY DEF NotYetValid
<1>5. /\ m \in Record
      /\ m.not_before = 2
      /\ m.expires_at = 2
      /\ m.id = pi.mandate.id
      /\ m.parent = pi.mandate.parent
      /\ m.status = pi.mandate.status
      /\ m.counterparty = pi.mandate.counterparty
      /\ m.allowed_actions = pi.mandate.allowed_actions
      /\ m.prohibited_actions = pi.mandate.prohibited_actions
      /\ m.requires_human_approval_for = pi.mandate.requires_human_approval_for
      /\ m.spend_cap = pi.mandate.spend_cap
      /\ m.currency = pi.mandate.currency
      /\ m.max_negotiation_rounds = pi.mandate.max_negotiation_rounds
      /\ m.disclosure_fields = pi.mandate.disclosure_fields
  BY <1>1, <1>2 DEF Record, Named
<1> HIDE DEF m
<1>6. Drawn(m)
  BY <1>1, <1>5 DEF Drawn
<1>7. Narrower(m, pi.mandate)
  BY <1>1, <1>4, <1>5 DEF Narrower, Record, Drawn, MandateFact
<1> QED
  BY <1>4, <1>5, <1>6, <1>7, MandateTurns

\* and so do a prohibition of the action,
LEMMA ProhibitedTurns ==
  Shape /\ Prohibited => \E q : Turned(q, above, known)
<1> SUFFICES ASSUME Shape, Prohibited PROVE \E q : Turned(q, above, known)
  OBVIOUS
<1>1. pi \in Input /\ pi.mandate \in Record /\ Drawn(pi.mandate)
      /\ (FALSE \notin pi.links => pi.mandate.expires_at = 2)
  BY ShapeSays
<1>2. pi.proposal.action \in Tokens
  BY <1>1 DEF Input
<1> DEFINE m == [pi.mandate EXCEPT !.prohibited_actions = @ \cup {pi.proposal.action}]
<1>4. MandateFact(m)
  BY DEF Prohibited
<1>5. /\ m \in Record
      /\ m.prohibited_actions = pi.mandate.prohibited_actions \cup {pi.proposal.action}
      /\ m.id = pi.mandate.id
      /\ m.parent = pi.mandate.parent
      /\ m.status = pi.mandate.status
      /\ m.not_before = pi.mandate.not_before
      /\ m.expires_at = pi.mandate.expires_at
      /\ m.counterparty = pi.mandate.counterparty
      /\ m.allowed_actions = pi.mandate.allowed_actions
      /\ m.requires_human_approval_for = pi.mandate.requires_human_approval_for
      /\ m.spend_cap = pi.mandate.spend_cap
      /\ m.currency = pi.mandate.currency
      /\ m.max_negotiation_rounds = pi.mandate.max_negotiation_rounds
      /\ m.disclosure_fields = pi.mandate.disclosure_fields
  BY <1>1, <1>2 DEF Record, Named
<1> HIDE DEF m
<1>6. Drawn(m)
  BY <1>1, <1>5 DEF Drawn
<1>7. Narrower(m, pi.mandate)
  BY <1>1, <1>4, <1>5 DEF Narrower, Record, Drawn, MandateFact
<1> QED
  BY <1>4, <1>5, <1>6, <1>7, MandateTurns

\* its withdrawal,
LEMMA WithdrawnTurns ==
  Shape /\ Withdrawn => \E q : Turned(q, above, known)
<1> SUFFICES ASSUME Shape, Withdrawn PROVE \E q : Turned(q, above, known)
  OBVIOUS
<1>1. pi \in Input /\ pi.mandate \in Record /\ Drawn(pi.mandate)
      /\ (FALSE \notin pi.links => pi.mandate.expires_at = 2)
  BY ShapeSays
<1>2. pi.proposal.action \in Tokens
  BY <1>1 DEF Input
<1> DEFINE m == [pi.mandate EXCEPT !.allowed_actions = @ \ {pi.proposal.action}]
<1>4. MandateFact(m)
  BY DEF Withdrawn
<1>5. /\ m \in Record
      /\ m.allowed_actions = pi.mandate.allowed_actions \ {pi.proposal.action}
      /\ m.id = pi.mandate.id
      /\ m.parent = pi.mandate.parent
      /\ m.status = pi.mandate.status
      /\ m.not_before = pi.mandate.not_before
      /\ m.expires_at = pi.mandate.expires_at
      /\ m.counterparty = pi.mandate.counterparty
      /\ m.prohibited_actions = pi.mandate.prohibited_actions
      /\ m.requires_human_approval_for = pi.mandate.requires_human_approval_for
      /\ m.spend_cap = pi.mandate.spend_cap
      /\ m.currency = pi.mandate.currency
      /\ m.max_negotiation_rounds = pi.mandate.max_negotiation_rounds
      /\ m.disclosure_fields = pi.mandate.disclosure_fields
  BY <1>1, <1>2 DEF Record, Named
<1> HIDE DEF m
<1>6. Drawn(m)
  BY <1>1, <1>5 DEF Drawn
<1>7. Narrower(m, pi.mandate)
  BY <1>1, <1>4, <1>5 DEF Narrower, Record, Drawn, MandateFact
<1> QED
  BY <1>4, <1>5, <1>6, <1>7, MandateTurns

\* an approval gate on it,
LEMMA ApprovalGateTurns ==
  Shape /\ ApprovalGate => \E q : Turned(q, above, known)
<1> SUFFICES ASSUME Shape, ApprovalGate PROVE \E q : Turned(q, above, known)
  OBVIOUS
<1>1. pi \in Input /\ pi.mandate \in Record /\ Drawn(pi.mandate)
      /\ (FALSE \notin pi.links => pi.mandate.expires_at = 2)
  BY ShapeSays
<1>2. pi.proposal.action \in Tokens
  BY <1>1 DEF Input
<1> DEFINE m == [pi.mandate EXCEPT !.requires_human_approval_for = @ \cup {pi.proposal.action}]
<1>4. MandateFact(m)
  BY DEF ApprovalGate
<1>5. /\ m \in Record
      /\ m.requires_human_approval_for = pi.mandate.requires_human_approval_for \cup {pi.proposal.action}
      /\ m.id = pi.mandate.id
      /\ m.parent = pi.mandate.parent
      /\ m.status = pi.mandate.status
      /\ m.not_before = pi.mandate.not_before
      /\ m.expires_at = pi.mandate.expires_at
      /\ m.counterparty = pi.mandate.counterparty
      /\ m.allowed_actions = pi.mandate.allowed_actions
      /\ m.prohibited_actions = pi.mandate.prohibited_actions
      /\ m.spend_cap = pi.mandate.spend_cap
      /\ m.currency = pi.mandate.currency
      /\ m.max_negotiation_rounds = pi.mandate.max_negotiation_rounds
      /\ m.disclosure_fields = pi.mandate.disclosure_fields
  BY <1>1, <1>2 DEF Record, Named
<1> HIDE DEF m
<1>6. Drawn(m)
  BY <1>1, <1>5 DEF Drawn
<1>7. Narrower(m, pi.mandate)
  BY <1>1, <1>4, <1>5 DEF Narrower, Record, Drawn, MandateFact
<1> QED
  BY <1>4, <1>5, <1>6, <1>7, MandateTurns

\* a shorter list of fields to disclose,
LEMMA AllowListShrinksTurns ==
  Shape /\ AllowListShrinks => \E q : Turned(q, above, known)
<1> SUFFICES ASSUME Shape, AllowListShrinks PROVE \E q : Turned(q, above, known)
  OBVIOUS
<1>1. pi \in Input /\ pi.mandate \in Record /\ Drawn(pi.mandate)
      /\ (FALSE \notin pi.links => pi.mandate.expires_at = 2)
  BY ShapeSays
<1>2. pi.proposal.action \in Tokens
  BY <1>1 DEF Input
<1>3. PICK field \in pi.mandate.disclosure_fields :
        MandateFact([pi.mandate EXCEPT !.disclosure_fields = @ \ {field}])
  BY DEF AllowListShrinks
<1> DEFINE m == [pi.mandate EXCEPT !.disclosure_fields = @ \ {field}]
<1>4. MandateFact(m)
  BY <1>3
<1>5. /\ m \in Record
      /\ m.disclosure_fields = pi.mandate.disclosure_fields \ {field}
      /\ m.id = pi.mandate.id
      /\ m.parent = pi.mandate.parent
      /\ m.status = pi.mandate.status
      /\ m.not_before = pi.mandate.not_before
      /\ m.expires_at = pi.mandate.expires_at
      /\ m.counterparty = pi.mandate.counterparty
      /\ m.allowed_actions = pi.mandate.allowed_actions
      /\ m.prohibited_actions = pi.mandate.prohibited_actions
      /\ m.requires_human_approval_for = pi.mandate.requires_human_approval_for
      /\ m.spend_cap = pi.mandate.spend_cap
      /\ m.currency = pi.mandate.currency
      /\ m.max_negotiation_rounds = pi.mandate.max_negotiation_rounds
  BY <1>1, <1>2 DEF Record, Named
<1> HIDE DEF m
<1>6. Drawn(m)
  BY <1>1, <1>5 DEF Drawn
<1>7. Narrower(m, pi.mandate)
  BY <1>1, <1>4, <1>5 DEF Narrower, Record, Drawn, MandateFact
<1> QED
  BY <1>4, <1>5, <1>6, <1>7, MandateTurns

\* and a lower cap.
LEMMA CapLoweredTurns ==
  Shape /\ CapLowered => \E q : Turned(q, above, known)
<1> SUFFICES ASSUME Shape, CapLowered PROVE \E q : Turned(q, above, known)
  OBVIOUS
<1>1. pi \in Input /\ pi.mandate \in Record /\ Drawn(pi.mandate)
      /\ (FALSE \notin pi.links => pi.mandate.expires_at = 2)
  BY ShapeSays
<1>2. pi.proposal.action \in Tokens
  BY <1>1 DEF Input
<1> DEFINE m == [pi.mandate EXCEPT !.spend_cap = 0]
<1>4. MandateFact(m)
  BY DEF CapLowered
<1>5. /\ m \in Record
      /\ m.spend_cap = 0
      /\ m.id = pi.mandate.id
      /\ m.parent = pi.mandate.parent
      /\ m.status = pi.mandate.status
      /\ m.not_before = pi.mandate.not_before
      /\ m.expires_at = pi.mandate.expires_at
      /\ m.counterparty = pi.mandate.counterparty
      /\ m.allowed_actions = pi.mandate.allowed_actions
      /\ m.prohibited_actions = pi.mandate.prohibited_actions
      /\ m.requires_human_approval_for = pi.mandate.requires_human_approval_for
      /\ m.currency = pi.mandate.currency
      /\ m.max_negotiation_rounds = pi.mandate.max_negotiation_rounds
      /\ m.disclosure_fields = pi.mandate.disclosure_fields
  BY <1>1, <1>2 DEF Record, Named
<1> HIDE DEF m
<1>6. Drawn(m)
  BY <1>1, <1>5 DEF Drawn
<1>7. Narrower(m, pi.mandate)
  BY <1>1, <1>4, <1>5 DEF Narrower, Record, Drawn, MandateFact
<1> QED
  BY <1>4, <1>5, <1>6, <1>7, MandateTurns


\* A child that is as wide as can be in one field is a record still.
LEMMA WideChild ==
  ASSUME NEW base \in Record, Drawn(base), NEW field \in DOMAIN Wide
  PROVE  LET child == [base EXCEPT ![field] = Wide[field]] IN
         /\ child \in Record /\ Drawn(child)
         /\ child.id = base.id /\ child.parent = base.parent
         /\ child.spend_cap \in {base.spend_cap, 3}
<1>1. /\ NoParty \in Party /\ "eur" \in Currency
      /\ {"budget", "name"} \in SUBSET Field
      /\ {} \in SUBSET Named /\ ActionToken \in SUBSET ActionToken
  <2>1. NoParty \in Party /\ "eur" \in Currency
    BY DEF Party, Currency
  <2>2. {"budget", "name"} \in SUBSET Field
    BY DEF Field
  <2> QED
    BY <2>1, <2>2
<1>2. field \in { "not_before", "expires_at", "counterparty",
                  "allowed_actions", "prohibited_actions",
                  "requires_human_approval_for", "spend_cap", "currency",
                  "max_negotiation_rounds", "disclosure_fields" }
  BY DEF Wide
<1> HIDE DEF Named, ActionToken, Field, Party, Currency, NoParty
<1> DEFINE child == [base EXCEPT ![field] = Wide[field]]
<1>3. ASSUME child \in Record, child.id = base.id, child.parent = base.parent,
             child.not_before \in {base.not_before, 0},
             child.expires_at \in {base.expires_at, 3},
             child.spend_cap \in {base.spend_cap, 3},
             child.counterparty \in {base.counterparty, NoParty}
      PROVE  /\ child \in Record /\ Drawn(child)
             /\ child.id = base.id /\ child.parent = base.parent
             /\ child.spend_cap \in {base.spend_cap, 3}
  <2>1. Drawn(child)
    BY <1>3 DEF Drawn
  <2> QED
    BY <1>3, <2>1
<1>4. CASE field = "not_before"
  <2>1. Wide[field] = 0
    BY <1>4 DEF Wide
  <2>2. /\ child \in Record
        /\ child.id = base.id /\ child.parent = base.parent
        /\ child.not_before = 0
        /\ child.expires_at = base.expires_at
        /\ child.spend_cap = base.spend_cap
        /\ child.counterparty = base.counterparty
    BY <1>1, <1>4, <2>1 DEF Record
  <2> QED
    BY <1>3, <2>2
<1>5. CASE field = "expires_at"
  <2>1. Wide[field] = 3
    BY <1>5 DEF Wide
  <2>2. /\ child \in Record
        /\ child.id = base.id /\ child.parent = base.parent
        /\ child.not_before = base.not_before
        /\ child.expires_at = 3
        /\ child.spend_cap = base.spend_cap
        /\ child.counterparty = base.counterparty
    BY <1>1, <1>5, <2>1 DEF Record
  <2> QED
    BY <1>3, <2>2
<1>6. CASE field = "counterparty"
  <2>1. Wide[field] = NoParty
    BY <1>6 DEF Wide
  <2>2. /\ child \in Record
        /\ child.id = base.id /\ child.parent = base.parent
        /\ child.not_before = base.not_before
        /\ child.expires_at = base.expires_at
        /\ child.spend_cap = base.spend_cap
        /\ child.counterparty = NoParty
    BY <1>1, <1>6, <2>1 DEF Record
  <2> QED
    BY <1>3, <2>2
<1>7. CASE field = "allowed_actions"
  <2>1. Wide[field] = ActionToken
    BY <1>7 DEF Wide
  <2>2. /\ child \in Record
        /\ child.id = base.id /\ child.parent = base.parent
        /\ child.not_before = base.not_before
        /\ child.expires_at = base.expires_at
        /\ child.spend_cap = base.spend_cap
        /\ child.counterparty = base.counterparty
    BY <1>1, <1>7, <2>1 DEF Record
  <2> QED
    BY <1>3, <2>2
<1>8. CASE field = "prohibited_actions"
  <2>1. Wide[field] = {}
    BY <1>8 DEF Wide
  <2>2. /\ child \in Record
        /\ child.id = base.id /\ child.parent = base.parent
        /\ child.not_before = base.not_before
        /\ child.expires_at = base.expires_at
        /\ child.spend_cap = base.spend_cap
        /\ child.counterparty = base.counterparty
    BY <1>1, <1>8, <2>1 DEF Record
  <2> QED
    BY <1>3, <2>2
<1>9. CASE field = "requires_human_approval_for"
  <2>1. Wide[field] = {}
    BY <1>9 DEF Wide
  <2>2. /\ child \in Record
        /\ child.id = base.id /\ child.parent = base.parent
        /\ child.not_before = base.not_before
        /\ child.expires_at = base.expires_at
        /\ child.spend_cap = base.spend_cap
        /\ child.counterparty = base.counterparty
    BY <1>1, <1>9, <2>1 DEF Record
  <2> QED
    BY <1>3, <2>2
<1>10. CASE field = "spend_cap"
  <2>1. Wide[field] = 3
    BY <1>10 DEF Wide
  <2>2. /\ child \in Record
        /\ child.id = base.id /\ child.parent = base.parent
        /\ child.not_before = base.not_before
        /\ child.expires_at = base.expires_at
        /\ child.spend_cap = 3
        /\ child.counterparty = base.counterparty
    BY <1>1, <1>10, <2>1 DEF Record
  <2> QED
    BY <1>3, <2>2
<1>11. CASE field = "currency"
  <2>1. Wide[field] = "eur"
    BY <1>11 DEF Wide
  <2>2. /\ child \in Record
        /\ child.id = base.id /\ child.parent = base.parent
        /\ child.not_before = base.not_before
        /\ child.expires_at = base.expires_at
        /\ child.spend_cap = base.spend_cap
        /\ child.counterparty = base.counterparty
    BY <1>1, <1>11, <2>1 DEF Record
  <2> QED
    BY <1>3, <2>2
<1>12. CASE field = "max_negotiation_rounds"
  <2>1. Wide[field] = 2
    BY <1>12 DEF Wide
  <2>2. /\ child \in Record
        /\ child.id = base.id /\ child.parent = base.parent
        /\ child.not_before = base.not_before
        /\ child.expires_at = base.expires_at
        /\ child.spend_cap = base.spend_cap
        /\ child.counterparty = base.counterparty
    BY <1>1, <1>12, <2>1 DEF Record
  <2> QED
    BY <1>3, <2>2
<1>13. CASE field = "disclosure_fields"
  <2>1. Wide[field] = {"budget", "name"}
    BY <1>13 DEF Wide
  <2>2. /\ child \in Record
        /\ child.id = base.id /\ child.parent = base.parent
        /\ child.not_before = base.not_before
        /\ child.expires_at = base.expires_at
        /\ child.spend_cap = base.spend_cap
        /\ child.counterparty = base.counterparty
    BY <1>1, <1>13, <2>1 DEF Record
  <2> QED
    BY <1>3, <2>2
<1> QED
  BY <1>2, <1>4, <1>5, <1>6, <1>7, <1>8, <1>9, <1>10, <1>11, <1>12, <1>13


\* A delegation lengthens the chain by one.
LEMMA ChainLengthens ==
  ASSUME NEW mandate, NEW chain, NEW ids, ChainOK(mandate, chain, ids),
         NEW parent \in Record, NEW child \in Record,
         parent.id = mandate.id, parent.parent = mandate.parent,
         child.id = mandate.id + 1, child.parent = mandate.id
  PROVE  /\ ChainOK(child, Append(chain, parent), ids \cup {parent.id})
         /\ \A now :
              Whole(child, Append(chain, parent), ids \cup {parent.id}, now) =>
                /\ ResolveStatus(parent, now, FALSE) = "active"
                /\ Narrower(child, parent)
                /\ (Narrower(parent, mandate) /\ Narrower(mandate, parent))
                     => Whole(mandate, chain, ids, now)
<1> DEFINE n == Len(chain)
           longer == Append(chain, parent)
           more == ids \cup {parent.id}
<1>1. /\ n \in Nat /\ chain \in Seq(Record) /\ mandate \in Record
      /\ mandate.id = n + 1 /\ mandate.parent = n
      /\ \A i \in 1..n : chain[i].id = i /\ (i # 1 => chain[i].parent = i - 1)
      /\ n # 0 => chain[1].parent \in {NoParent} \cup 2..(n + 1)
      /\ ids \subseteq 1..n
  BY DEF ChainOK
<1>2. /\ longer \in Seq(Record) /\ Len(longer) = n + 1
      /\ longer[n + 1] = parent
      /\ \A i \in 1..n : longer[i] = chain[i]
  BY <1>1
<1>3. more \subseteq 1..(n + 1) /\ n + 1 \in more
  <2>1. parent.id = n + 1
    BY <1>1
  <2>2. \A i \in ids : i \in 1..n
    BY <1>1
  <2>3. \A i \in more : i \in 1..(n + 1)
    BY <1>1, <2>1, <2>2
  <2> QED
    BY <2>1, <2>3
<1> HIDE DEF longer
<1>4. ChainOK(child, longer, more)
  <2>1. child.id = (n + 1) + 1 /\ child.parent = n + 1
    BY <1>1
  <2>2. \A i \in 1..(n + 1) : /\ longer[i].id = i
                              /\ i # 1 => longer[i].parent = i - 1
    <3>1. ASSUME NEW i \in 1..(n + 1)
          PROVE  longer[i].id = i /\ (i # 1 => longer[i].parent = i - 1)
      <4>1. CASE i = n + 1
        BY <1>1, <1>2, <4>1
      <4>2. CASE i \in 1..n
        BY <1>1, <1>2, <4>2
      <4> QED
        BY <1>1, <4>1, <4>2
    <3> QED
      BY <3>1
  <2>3. longer[1].parent \in {NoParent} \cup 2..((n + 1) + 1)
    <3>1. CASE n = 0
      BY <1>1, <1>2, <3>1 DEF NoParent
    <3>2. CASE n # 0
      <4>1. 1 \in 1..n
        BY <1>1, <3>2
      <4>2. longer[1].parent \in {NoParent} \cup 2..(n + 1)
        BY <1>1, <1>2, <3>2, <4>1
      <4> QED
        BY <1>1, <4>2 DEF NoParent
    <3> QED
      BY <3>1, <3>2
  <2> HIDE DEF n
  <2> QED
    BY <1>1, <1>2, <1>3, <2>1, <2>2, <2>3 DEF ChainOK
<1>5. ASSUME NEW now, Whole(child, longer, more, now)
      PROVE  /\ ResolveStatus(parent, now, FALSE) = "active"
             /\ Narrower(child, parent)
             /\ (Narrower(parent, mandate) /\ Narrower(mandate, parent))
                  => Whole(mandate, chain, ids, now)
  <2>1. \A i \in 1..(n + 1) :
          /\ i \in more
          /\ ResolveStatus(longer[i], now, FALSE) = "active"
          /\ Narrower(Below(child, longer, i), longer[i])
    BY <1>2, <1>5 DEF Whole
  <2>2. longer[1].parent = NoParent
    BY <1>1, <1>2, <1>5 DEF Whole
  <2>3. /\ ResolveStatus(parent, now, FALSE) = "active"
        /\ Narrower(child, parent)
    <3>1. n + 1 \in 1..(n + 1)
      BY <1>1
    <3>2. Below(child, longer, n + 1) = child
      BY <1>2 DEF Below
    <3> QED
      BY <1>2, <2>1, <3>1, <3>2
  <2>4. ASSUME Narrower(mandate, parent), Narrower(parent, mandate)
        PROVE  Whole(mandate, chain, ids, now)
    <3>1. ASSUME NEW i \in 1..n
          PROVE  /\ i \in ids
                 /\ ResolveStatus(chain[i], now, FALSE) = "active"
                 /\ Narrower(Below(mandate, chain, i), chain[i])
      <4>1. i \in 1..(n + 1) /\ i # n + 1 /\ longer[i] = chain[i]
        BY <1>1, <1>2
      <4>2. i \in ids /\ ResolveStatus(chain[i], now, FALSE) = "active"
        BY <1>1, <2>1, <4>1
      <4>3. Narrower(Below(child, longer, i), chain[i])
        BY <2>1, <4>1
      <4>4. Below(child, longer, i) = longer[i + 1]
        BY <1>2, <4>1 DEF Below
      <4>5. CASE i = n
        <5>1. longer[i + 1] = parent /\ Below(mandate, chain, i) = mandate
          BY <1>2, <4>5 DEF Below
        <5>2. chain[i] \in Record
          BY <1>1
        <5>3. Narrower(parent, chain[i])
          BY <4>3, <4>4, <5>1
        <5>4. Narrower(mandate, chain[i])
          BY <1>1, <2>4, <5>2, <5>3, NarrowerComposes
        <5> QED
          BY <4>2, <5>1, <5>4
      <4>6. CASE i # n
        <5>1. i + 1 \in 1..n
          BY <1>1, <4>6
        <5>2. longer[i + 1] = chain[i + 1]
              /\ Below(mandate, chain, i) = chain[i + 1]
          BY <1>2, <4>6, <5>1 DEF Below
        <5> QED
          BY <4>2, <4>3, <4>4, <5>2
      <4> QED
        BY <4>5, <4>6
    <3>2. n # 0 => chain[1].parent = NoParent
      BY <1>1, <1>2, <2>2
    <3> QED
      BY <3>1, <3>2 DEF Whole
  <2> QED
    BY <2>3, <2>4
<1> QED
  BY <1>4, <1>5 DEF longer


\* The record above a delegation is the mandate, revoked if that is known.
LEMMA PrincipalSays ==
  ASSUME NEW m \in Record, NEW status
  PROVE  LET parent == Principal(m, status) IN
         /\ parent \in Record /\ parent.id = m.id /\ parent.parent = m.parent
         /\ Narrower(m, parent) /\ Narrower(parent, m)
         /\ status = "revoked" => parent.status = "revoked"
<1> DEFINE parent == Principal(m, status)
<1>1. /\ parent \in Record /\ parent.id = m.id /\ parent.parent = m.parent
      /\ parent.status = IF status = "revoked" THEN "revoked" ELSE m.status
      /\ parent.not_before = m.not_before
      /\ parent.expires_at = m.expires_at
      /\ parent.counterparty = m.counterparty
      /\ parent.allowed_actions = m.allowed_actions
      /\ parent.prohibited_actions = m.prohibited_actions
      /\ parent.requires_human_approval_for = m.requires_human_approval_for
      /\ parent.spend_cap = m.spend_cap /\ parent.currency = m.currency
      /\ parent.max_negotiation_rounds = m.max_negotiation_rounds
      /\ parent.disclosure_fields = m.disclosure_fields
  BY DEF Principal, Record
<1> HIDE DEF parent
<1>2. Narrower(m, parent) /\ Narrower(parent, m)
  BY <1>1 DEF Narrower, Record
<1> QED
  BY <1>1, <1>2 DEF parent

\* The child that repeats its parent is one place further down.
LEMMA HeirSays ==
  ASSUME NEW m \in Record, Drawn(m)
  PROVE  LET heir == Heir(m) IN
         /\ heir \in Record /\ Drawn(heir)
         /\ heir.id = m.id + 1 /\ heir.parent = m.id
         /\ heir.spend_cap = m.spend_cap
<1> DEFINE heir == Heir(m)
<1>1. m.id + 1 \in Nat /\ m.id \in Nat
  BY DEF Record
<1>2. /\ heir \in Record
      /\ heir.id = m.id + 1 /\ heir.parent = m.id
      /\ heir.not_before = m.not_before
      /\ heir.expires_at = m.expires_at
      /\ heir.counterparty = m.counterparty
      /\ heir.spend_cap = m.spend_cap
  BY <1>1 DEF Heir, Record
<1> HIDE DEF heir
<1>3. Drawn(heir)
  BY <1>2 DEF Drawn
<1> QED
  BY <1>2, <1>3 DEF heir

\* Acting under a child is cautious where the chain stays whole.
LEMMA DelegatedTurns ==
  Shape /\ Delegated => \E q, chain, ids : Turned(q, chain, ids)
<1> SUFFICES ASSUME Shape, Delegated
             PROVE  \E q, chain, ids : Turned(q, chain, ids)
  OBVIOUS
<1>1. PICK field \in DOMAIN Wide, wide \in BOOLEAN :
        LET parent == Principal(pi.mandate, pi.status)
            heir == Heir(pi.mandate)
            child == IF wide THEN [heir EXCEPT ![field] = Wide[field]] ELSE heir
        IN ChainFact([pi EXCEPT !.mandate = child,
                                !.status = ResolveStatus(child, pi.now, FALSE)],
                     Append(above, parent), known \cup {parent.id})
  BY DEF Delegated
<1> DEFINE m == pi.mandate
           parent == Principal(m, pi.status)
           base == Heir(m)
           child == IF wide THEN [base EXCEPT ![field] = Wide[field]] ELSE base
           state == ResolveStatus(child, pi.now, FALSE)
           q == [pi EXCEPT !.mandate = child, !.status = state]
           chain == Append(above, parent)
           ids == known \cup {parent.id}
<1>2. /\ pi \in Input /\ m \in Record /\ Drawn(m)
      /\ ChainOK(m, above, known)
      /\ pi.now \in {1, 3}
      /\ pi.content.present => DOMAIN pi.content.detected = {"budget"}
      /\ pi.deal.negotiated_rounds <= 1
      /\ pi.status = "expired" => pi.now > m.expires_at
  BY ShapeSays DEF Shape, Sound
<1>3. ChainFact(q, chain, ids)
  BY <1>1
<1>4. /\ parent \in Record /\ parent.id = m.id /\ parent.parent = m.parent
      /\ Narrower(m, parent) /\ Narrower(parent, m)
      /\ pi.status = "revoked" => parent.status = "revoked"
  BY <1>2, PrincipalSays
<1>5. /\ base \in Record /\ Drawn(base)
      /\ base.id = m.id + 1 /\ base.parent = m.id
      /\ base.spend_cap = m.spend_cap
  BY <1>2, HeirSays
<1>6. /\ child \in Record /\ Drawn(child)
      /\ child.id = m.id + 1 /\ child.parent = m.id
      /\ child.spend_cap \in {m.spend_cap, 3}
  <2> HIDE DEF base, m
  <2>1. CASE wide
    <3>1. child = [base EXCEPT ![field] = Wide[field]]
      BY <2>1
    <3> HIDE DEF child
    <3> QED
      BY <1>5, <3>1, WideChild
  <2>2. CASE ~ wide
    <3>1. child = base
      BY <2>2
    <3> HIDE DEF child
    <3> QED
      BY <1>5, <3>1
  <2> QED
    BY <2>1, <2>2
<1> HIDE DEF base, child, parent
<1>7. /\ state \in {"active", "revoked", "expired"}
      /\ state = "expired" => pi.now > child.expires_at
      /\ state = "active" => ~ pi.now > child.expires_at
  BY DEF ResolveStatus
<1> HIDE DEF state
<1>8. /\ q \in Input /\ q.mandate = child /\ q.status = state
      /\ SameBut(pi, q, {"mandate", "status"})
  BY <1>2, <1>6, <1>7 DEF Input, SameBut
<1> HIDE DEF q
<1>9. /\ q.now = pi.now /\ q.content = pi.content /\ q.deal = pi.deal
      /\ q.proposal = pi.proposal
  BY <1>8 DEF SameBut
<1>10. /\ ChainOK(child, chain, ids)
       /\ Whole(child, chain, ids, pi.now) =>
            /\ ResolveStatus(parent, pi.now, FALSE) = "active"
            /\ Narrower(child, parent)
            /\ Whole(m, above, known, pi.now)
  <2> HIDE DEF m
  <2>1. /\ ChainOK(child, Append(above, parent), known \cup {parent.id})
        /\ \A now :
             Whole(child, Append(above, parent), known \cup {parent.id}, now) =>
               /\ ResolveStatus(parent, now, FALSE) = "active"
               /\ Narrower(child, parent)
               /\ (Narrower(parent, m) /\ Narrower(m, parent))
                    => Whole(m, above, known, now)
    BY <1>2, <1>4, <1>6, ChainLengthens
  <2> QED
    BY <1>4, <2>1
<1> HIDE DEF chain, ids
<1>11. ASSUME Whole(child, chain, ids, pi.now)
       PROVE  /\ child.expires_at = 2 /\ child.currency = "usd"
              /\ Narrower(child, m) /\ FALSE \notin pi.links
              /\ pi.status = "active"
  <2>1. FALSE \notin pi.links /\ m.expires_at = 2 /\ m.currency = "usd"
    BY <1>10, <1>11, ShapeSays
  <2>2. Narrower(child, m)
    BY <1>2, <1>4, <1>6, <1>10, <1>11, NarrowerComposes
  <2>3. pi.status # "revoked"
    BY <1>4, <1>10, <1>11 DEF ResolveStatus
  <2>4. parent.expires_at = m.expires_at /\ ~ pi.now > parent.expires_at
    <3>1. ~ pi.now > parent.expires_at
      BY <1>10, <1>11 DEF ResolveStatus
    <3>2. /\ parent.expires_at <= m.expires_at
          /\ m.expires_at <= parent.expires_at
      BY <1>4 DEF Narrower
    <3>3. parent.expires_at \in Nat /\ m.expires_at \in Nat
      BY <1>2, <1>4 DEF Record
    <3> QED
      BY <3>1, <3>2, <3>3
  <2>5. pi.status = "active"
    BY <1>2, <2>3, <2>4 DEF Input
  <2>6. child.expires_at = 2 /\ child.currency = "usd"
    <3>1. child.expires_at <= 2 /\ child.expires_at \in 2..3
      BY <1>6, <2>1, <2>2 DEF Narrower, Drawn
    <3> QED
      BY <2>1, <2>2, <3>1 DEF Narrower
  <2> QED
    BY <2>1, <2>2, <2>5, <2>6
<1>12. Sound(q, chain, ids)
  BY <1>2, <1>6, <1>7, <1>8, <1>9, <1>10, <1>11 DEF Sound
<1>13. Whole(child, chain, ids, pi.now) => Cautioner(pi, q)
  <2>1. SameBut(pi, q, {"mandate", "status", "links"})
    BY <1>8 DEF SameBut
  <2> QED
    BY <1>2, <1>8, <1>11, <2>1, NarrowerIsCautious
<1>14. Turned(q, chain, ids)
  BY <1>3, <1>8, <1>9, <1>12, <1>13 DEF Turned, q, chain, ids
<1> QED
  BY <1>14


\* A fact about the chain alone, which breaks it.
LEMMA ChainTurns ==
  ASSUME Shape, NEW chain, NEW ids, ChainFact(pi, chain, ids),
         ChainOK(pi.mandate, chain, ids), ~ Whole(pi.mandate, chain, ids, pi.now)
  PROVE  Turned(pi, chain, ids)
<1>1. Sound(pi, chain, ids)
  BY DEF Shape, Sound
<1> QED
  BY <1>1 DEF Turned

\* A revoked ancestor breaks the chain,
LEMMA AncestorRevokedTurns ==
  Shape /\ AncestorRevoked => \E q, chain, ids : Turned(q, chain, ids)
<1> SUFFICES ASSUME Shape, AncestorRevoked
             PROVE  \E q, chain, ids : Turned(q, chain, ids)
  OBVIOUS
<1>1. PICK i \in DOMAIN above :
        ChainFact(pi, [above EXCEPT ![i].status = "revoked"], known)
  BY DEF AncestorRevoked
<1> DEFINE chain == [above EXCEPT ![i].status = "revoked"]
           n == Len(above)
<1>2. /\ ChainOK(pi.mandate, above, known)
      /\ above \in Seq(Record) /\ i \in 1..n /\ n \in Nat
  BY <1>1, ShapeSays DEF ChainOK
<1>3. /\ chain \in Seq(Record) /\ Len(chain) = n
      /\ \A j \in 1..n : /\ chain[j].id = above[j].id
                         /\ chain[j].parent = above[j].parent
      /\ chain[i].status = "revoked"
  <2>0. above[i] \in Record
    BY <1>2
  <2>1. [above[i] EXCEPT !.status = "revoked"] \in Record
    BY <2>0 DEF Record
  <2>2. /\ [above[i] EXCEPT !.status = "revoked"].id = above[i].id
        /\ [above[i] EXCEPT !.status = "revoked"].parent = above[i].parent
        /\ [above[i] EXCEPT !.status = "revoked"].status = "revoked"
    BY <2>0 DEF Record
  <2> DEFINE put == [above[i] EXCEPT !.status = "revoked"]
  <2>3. chain = [above EXCEPT ![i] = put]
    OBVIOUS
  <2> HIDE DEF put, chain
  <2>4. put \in Record
    BY <2>1 DEF put
  <2>5. chain \in Seq(Record) /\ Len(chain) = n /\ chain[i] = put
        /\ \A j \in 1..n : j # i => chain[j] = above[j]
    BY <1>2, <2>3, <2>4
  <2> QED
    BY <2>2, <2>5 DEF put
<1> HIDE DEF chain
<1>4. ChainOK(pi.mandate, chain, known)
  <2>1. n # 0 => chain[1].parent = above[1].parent
    BY <1>2, <1>3
  <2>2. \A j \in 1..n : chain[j].id = j /\ (j # 1 => chain[j].parent = j - 1)
    BY <1>2, <1>3 DEF ChainOK
  <2> QED
    BY <1>2, <1>3, <2>1, <2>2 DEF ChainOK
<1>5. ~ Whole(pi.mandate, chain, known, pi.now)
  BY <1>2, <1>3 DEF Whole, ResolveStatus
<1>6. ChainFact(pi, chain, known)
  BY <1>1 DEF chain
<1> QED
  BY <1>4, <1>5, <1>6, ChainTurns

\* one that cannot be fetched does,
LEMMA AncestorLostTurns ==
  Shape /\ AncestorLost => \E q, chain, ids : Turned(q, chain, ids)
<1> SUFFICES ASSUME Shape, AncestorLost
             PROVE  \E q, chain, ids : Turned(q, chain, ids)
  OBVIOUS
<1>1. PICK id \in known : ChainFact(pi, above, known \ {id})
  BY DEF AncestorLost
<1>2. ChainOK(pi.mandate, above, known)
  BY ShapeSays
<1>3. ChainOK(pi.mandate, above, known \ {id}) /\ id \in 1..Len(above)
  BY <1>2 DEF ChainOK
<1>4. ~ Whole(pi.mandate, above, known \ {id}, pi.now)
  BY <1>3 DEF Whole
<1> QED
  BY <1>1, <1>3, <1>4, ChainTurns

\* and so does a root that names a record below it as its parent.
LEMMA ChainLoopsTurns ==
  Shape /\ ChainLoops => \E q, chain, ids : Turned(q, chain, ids)
<1> SUFFICES ASSUME Shape, ChainLoops
             PROVE  \E q, chain, ids : Turned(q, chain, ids)
  OBVIOUS
<1> DEFINE put == [above[1] EXCEPT !.parent = pi.mandate.id]
           chain == [above EXCEPT ![1].parent = pi.mandate.id]
           n == Len(above)
<1>1. above # <<>> /\ ChainFact(pi, chain, known)
  BY DEF ChainLoops
<1>2. /\ ChainOK(pi.mandate, above, known)
      /\ above \in Seq(Record) /\ n \in Nat \ {0}
      /\ pi.mandate.id = n + 1
  BY <1>1, ShapeSays DEF ChainOK
<1>3. above[1] \in Record /\ 1 \in 1..n /\ pi.mandate.id \in Nat
  BY <1>2
<1>4. /\ put \in Record /\ put.id = above[1].id /\ put.parent = n + 1
  BY <1>2, <1>3 DEF Record
<1>5. chain = [above EXCEPT ![1] = put]
  OBVIOUS
<1> HIDE DEF chain, put
<1>6. /\ chain \in Seq(Record) /\ Len(chain) = n /\ chain[1] = put
      /\ \A j \in 1..n : j # 1 => chain[j] = above[j]
  BY <1>2, <1>3, <1>4, <1>5
<1>7. ChainOK(pi.mandate, chain, known)
  <2>1. n + 1 \in 2..(n + 1)
    BY <1>2
  <2>2. \A j \in 1..n : chain[j].id = j /\ (j # 1 => chain[j].parent = j - 1)
    BY <1>2, <1>4, <1>6 DEF ChainOK
  <2> QED
    BY <1>2, <1>4, <1>6, <2>1, <2>2 DEF ChainOK
<1>8. ~ Whole(pi.mandate, chain, known, pi.now)
  <2>1. Len(chain) # 0 /\ chain[1].parent = n + 1
    BY <1>2, <1>4, <1>6
  <2>2. n + 1 # NoParent
    BY <1>2 DEF NoParent
  <2> HIDE DEF n
  <2> QED
    BY <2>1, <2>2 DEF Whole
<1> QED
  BY <1>1, <1>7, <1>8, ChainTurns

\* Every step turns one fact, or none.
LEMMA StepTurns ==
  Shape /\ Next => \E q, chain, ids : Turned(q, chain, ids)
<1> SUFFICES ASSUME Shape, Next PROVE \E q, chain, ids : Turned(q, chain, ids)
  OBVIOUS
<1>1. CASE RecordRevoked \/ SignatureBad \/ SchemaUnknown \/ OtherParty
  BY <1>1, RecordRevokedTurns, SignatureBadTurns, SchemaUnknownTurns,
     OtherPartyTurns
<1>2. CASE DisputeOpens \/ ApprovalOpens \/ RoundSpent \/ CommitmentGrows
             \/ CurrencyDiffers
  BY <1>2, DisputeOpensTurns, ApprovalOpensTurns, RoundSpentTurns,
     CommitmentGrowsTurns, CurrencyDiffersTurns
<1>3. CASE TextScreened \/ ClockPasses
  BY <1>3, TextScreenedTurns, ClockPassesTurns
<1>4. CASE NotYetValid \/ Prohibited \/ Withdrawn \/ ApprovalGate
             \/ AllowListShrinks \/ CapLowered
  BY <1>4, NotYetValidTurns, ProhibitedTurns, WithdrawnTurns,
     ApprovalGateTurns, AllowListShrinksTurns, CapLoweredTurns
<1>5. CASE Delegated \/ AncestorRevoked \/ AncestorLost \/ ChainLoops
  BY <1>5, DelegatedTurns, AncestorRevokedTurns, AncestorLostTurns,
     ChainLoopsTurns
<1> QED
  BY <1>1, <1>2, <1>3, <1>4, <1>5 DEF Next

\* A step keeps the shape.
LEMMA ShapeStep == Shape /\ [Next]_vars => Shape'
<1> SUFFICES ASSUME Shape, [Next]_vars PROVE Shape'
  OBVIOUS
<1>1. CASE Next
  <2>1. PICK q, chain, ids : Turned(q, chain, ids)
    BY <1>1, StepTurns
  <2> QED
    BY <2>1, ChainFactSays DEF Turned
<1>2. CASE UNCHANGED vars
  BY <1>2 DEF vars, Shape
<1> QED
  BY <1>1, <1>2

\* The shape holds throughout.
LEMMA ShapeHolds == Spec => []Shape
<1> QED
  BY InitShape, ShapeStep, PTL DEF Spec

\* evaluate allows exactly what no single check objects to, in every behaviour.
THEOREM AllowIffNothingObjectsHolds == Spec => []AllowIffNothingObjects
<1>1. Shape => AllowIffNothingObjects
  <2>1. NothingObjects <=> Unobjected(pi)
    BY DEF NothingObjects, Unobjected
  <2> QED
    BY <2>1, ShapeSays, AllowMeansUnobjected DEF AllowIffNothingObjects
<1> QED
  BY <1>1, ShapeHolds, PTL

\* A person is asked only about what every check before the cap permits.
THEOREM HoldOnlyWithinAuthorityHolds == Spec => []HoldOnlyWithinAuthority
<1>1. Shape => HoldOnlyWithinAuthority
  BY ShapeSays, HoldMeansWithinAuthority
     DEF HoldOnlyWithinAuthority, WithinAuthority
<1> QED
  BY <1>1, ShapeHolds, PTL

\* However many cautious facts turn and in whatever order, and however long the
\* chain of delegations grows, no decision gets more permissive, but for one: a
\* counteroffer denied by the round limit is held once it exceeds the cap.
THEOREM NeverWidensHolds == Spec => NeverWidens
<1> DEFINE Kept ==
      \/ Rank[Evaluate(pi').outcome] >= Rank[Evaluate(pi).outcome]
      \/ HeldBeforeLimit(Evaluate(pi), Evaluate(pi'))
<1>1. Shape /\ [Next]_vars => [Kept]_pi
  <2> SUFFICES ASSUME Shape, Next PROVE Kept
    BY DEF vars
  <2>1. PICK q, chain, ids : Turned(q, chain, ids)
    BY StepTurns
  <2>2. /\ pi' \in Input /\ SameBut(q, pi', {"links"})
        /\ FALSE \notin pi'.links <=> Whole(q.mandate, chain, ids, q.now)
    BY <2>1, ChainFactSays DEF Turned
  <2>3. Cautioner(pi, q) => Cautioner(pi, pi')
    BY <2>2, CautionerLinks
  <2>4. FALSE \notin pi'.links => Cautioner(pi, pi')
    BY <2>1, <2>2, <2>3 DEF Turned
  <2> QED
    BY <2>2, <2>4, ShapeSays, CautionerRanks
<1> QED
  BY <1>1, ShapeHolds, PTL DEF Spec, NeverWidens


\* In a whole chain the mandate narrows every record above it.
LEMMA WholeNarrows ==
  ASSUME NEW mandate, NEW chain, NEW ids, NEW now,
         ChainOK(mandate, chain, ids), Whole(mandate, chain, ids, now)
  PROVE  \A i \in 1..Len(chain) : Narrower(mandate, chain[i])
<1> DEFINE n == Len(chain)
           wide == { k \in 0..(n - 1) : ~ Narrower(mandate, chain[n - k]) }
<1>1. n \in Nat /\ chain \in Seq(Record) /\ mandate \in Record
  BY DEF ChainOK
<1>2. \A i \in 1..n : Narrower(Below(mandate, chain, i), chain[i])
  BY DEF Whole
<1> HIDE DEF n
<1>3. wide = {}
  <2> SUFFICES ASSUME wide # {} PROVE FALSE
    OBVIOUS
  <2>1. wide \subseteq Nat
    BY <1>1
  <2> HIDE DEF wide
  <2>2. PICK k \in wide : \A j \in wide : k <= j
    BY <2>1, LeastNat
  <2>3. k \in 0..(n - 1) /\ ~ Narrower(mandate, chain[n - k])
    BY <2>2 DEF wide
  <2>4. CASE k = 0
    <3>1. n \in 1..n /\ n - k = n
      BY <1>1, <2>3, <2>4
    <3>2. Below(mandate, chain, n) = mandate
      BY DEF Below, n
    <3> QED
      BY <1>2, <2>3, <3>1, <3>2
  <2>5. CASE k # 0
    <3>1. k - 1 \in 0..(n - 1) /\ k - 1 \notin wide
      BY <1>1, <2>1, <2>2, <2>3, <2>5
    <3>2. n - (k - 1) = (n - k) + 1
      BY <1>1, <2>3
    <3>3. Narrower(mandate, chain[(n - k) + 1])
      BY <3>1, <3>2 DEF wide
    <3>4. n - k \in 1..n /\ n - k # n /\ (n - k) + 1 \in 1..n
      BY <1>1, <2>3, <2>5
    <3>5. Below(mandate, chain, n - k) = chain[(n - k) + 1]
      BY <3>4 DEF Below, n
    <3>6. Narrower(chain[(n - k) + 1], chain[n - k])
      BY <1>2, <3>4, <3>5
    <3>7. chain[(n - k) + 1] \in Record /\ chain[n - k] \in Record
      BY <1>1, <3>4 DEF n
    <3>8. Narrower(mandate, chain[n - k])
      BY <1>1, <3>3, <3>6, <3>7, NarrowerComposes
    <3> QED
      BY <2>3, <3>8
  <2> QED
    BY <2>4, <2>5
<1>4. ASSUME NEW i \in 1..n PROVE Narrower(mandate, chain[i])
  <2>1. n - i \in 0..(n - 1) /\ n - (n - i) = i
    BY <1>1
  <2> QED
    BY <1>3, <2>1
<1> QED
  BY <1>4 DEF n

\* What nothing objects to under a mandate, nothing objects to under a wider
\* one that is in force.
LEMMA UnobjectedAbove ==
  ASSUME NEW p \in Input, NEW q \in Input, SameBut(p, q, {"mandate", "status"}),
         Narrower(p.mandate, q.mandate), q.status = "active", Unobjected(p)
  PROVE  Unobjected(q)
<1> DEFINE m == p.mandate
           w == q.mandate
<1>1. /\ q.schema = p.schema /\ q.signature = p.signature
      /\ q.now = p.now /\ q.links = p.links
      /\ q.counterparty = p.counterparty /\ q.content = p.content
      /\ q.deal = p.deal /\ q.proposal = p.proposal
  BY DEF SameBut
<1>2. /\ m.not_before \in Nat /\ m.expires_at \in Nat /\ m.spend_cap \in Nat
      /\ m.max_negotiation_rounds \in Nat
      /\ w.not_before \in Nat /\ w.expires_at \in Nat /\ w.spend_cap \in Nat
      /\ w.max_negotiation_rounds \in Nat
      /\ p.now \in Nat /\ p.deal.negotiated_rounds \in Nat
      /\ p.deal.committed_minor \in Nat /\ p.proposal.amount \in Amount
  BY DEF Input, Record, Deal
<1>3. p.proposal.amount \in Int
  BY <1>2 DEF Amount, NoAmount
<1>4. /\ m.not_before >= w.not_before /\ m.expires_at <= w.expires_at
      /\ m.spend_cap <= w.spend_cap
      /\ m.max_negotiation_rounds <= w.max_negotiation_rounds
      /\ m.allowed_actions \subseteq w.allowed_actions
      /\ w.prohibited_actions \subseteq m.prohibited_actions
      /\ w.requires_human_approval_for \subseteq m.requires_human_approval_for
      /\ m.disclosure_fields \subseteq w.disclosure_fields
      /\ m.currency = w.currency
      /\ w.counterparty = NoParty \/ m.counterparty = w.counterparty
  BY DEF Narrower
<1>5. /\ q.schema /\ q.signature /\ q.status = "active"
      /\ \A link \in q.links : link
      /\ Permits(q.deal.state, q.proposal.action)
      /\ q.proposal.action \in PaymentActions =>
           q.deal.open_disputes = 0 /\ q.deal.open_approvals = 0
  BY <1>1 DEF Unobjected
<1>6. q.now \in w.not_before .. w.expires_at
  <2>1. p.now \in m.not_before .. m.expires_at
    BY DEF Unobjected
  <2> HIDE DEF m, w
  <2> QED
    BY <1>1, <1>2, <1>4, <2>1
<1>7. /\ \/ NoParty \in {q.counterparty, w.counterparty}
         \/ q.counterparty = w.counterparty
      /\ q.proposal.action \in
           (ActionToken \cap w.allowed_actions)
             \ (w.prohibited_actions \cup w.requires_human_approval_for)
      /\ q.proposal.disclosure_fields \subseteq w.disclosure_fields
  <2>1. /\ \/ NoParty \in {p.counterparty, m.counterparty}
           \/ p.counterparty = m.counterparty
        /\ p.proposal.action \in
             (ActionToken \cap m.allowed_actions)
               \ (m.prohibited_actions \cup m.requires_human_approval_for)
        /\ p.proposal.disclosure_fields \subseteq m.disclosure_fields
    BY DEF Unobjected
  <2> HIDE DEF m, w
  <2> QED
    BY <1>1, <1>4, <2>1
<1>8. q.proposal.action \in NegotiationActions =>
        q.deal.negotiated_rounds < w.max_negotiation_rounds
  <2>1. p.proposal.action \in NegotiationActions =>
          p.deal.negotiated_rounds < m.max_negotiation_rounds
    BY DEF Unobjected
  <2> HIDE DEF m, w
  <2> QED
    BY <1>1, <1>2, <1>4, <2>1
<1>9. q.proposal.amount # NoAmount =>
        /\ q.proposal.currency = w.currency
        /\ q.deal.committed_minor + q.proposal.amount <= w.spend_cap
  <2>1. p.proposal.amount # NoAmount =>
          /\ p.proposal.currency = m.currency
          /\ p.deal.committed_minor + p.proposal.amount <= m.spend_cap
    BY DEF Unobjected
  <2> HIDE DEF m, w
  <2> QED
    BY <1>1, <1>2, <1>3, <1>4, <2>1
<1>10. q.content.present =>
         /\ q.content.available
         /\ q.content.hostility < HoldLevel
         /\ \A f \in DOMAIN q.content.detected \ w.disclosure_fields :
              q.content.detected[f] < HoldLevel
  <2>1. p.content.present =>
          /\ p.content.available
          /\ p.content.hostility < HoldLevel
          /\ \A f \in DOMAIN p.content.detected \ m.disclosure_fields :
               p.content.detected[f] < HoldLevel
    BY DEF Unobjected
  <2> HIDE DEF m, w
  <2> QED
    BY <1>1, <1>4, <2>1
<1> QED
  BY <1>5, <1>6, <1>7, <1>8, <1>9, <1>10 DEF Unobjected

\* A delegate is allowed nothing that a record above it would not be allowed,
\* however long the chain: a whole chain narrows hop by hop, the hops compose,
\* and a chain that is not whole allows nothing.
THEOREM DelegateAllowsNoMoreHolds == Spec => []DelegateAllowsNoMore
<1>1. Shape => DelegateAllowsNoMore
  <2> SUFFICES ASSUME Shape, Evaluate(pi).outcome = "allow",
                      NEW i \in DOMAIN above
               PROVE  Evaluate([pi EXCEPT
                        !.mandate = above[i],
                        !.status = ResolveStatus(above[i], pi.now, FALSE)])
                        = Allow
    BY DEF DelegateAllowsNoMore
  <2> DEFINE q == [pi EXCEPT
                     !.mandate = above[i],
                     !.status = ResolveStatus(above[i], pi.now, FALSE)]
  <2>1. /\ pi \in Input /\ ChainOK(pi.mandate, above, known)
        /\ FALSE \notin pi.links <=>
             Whole(pi.mandate, above, known, pi.now)
    BY ShapeSays
  <2>2. Unobjected(pi)
    BY <2>1, AllowMeansUnobjected
  <2>3. Whole(pi.mandate, above, known, pi.now)
    BY <2>1, <2>2 DEF Unobjected
  <2>4. i \in 1..Len(above) /\ above[i] \in Record
    BY <2>1 DEF ChainOK
  <2>5. ResolveStatus(above[i], pi.now, FALSE) = "active"
    BY <2>3, <2>4 DEF Whole
  <2>6. Narrower(pi.mandate, above[i])
    BY <2>1, <2>3, <2>4, WholeNarrows
  <2>7. /\ q \in Input /\ q.mandate = above[i] /\ q.status = "active"
        /\ SameBut(pi, q, {"mandate", "status"})
    BY <2>1, <2>4, <2>5 DEF Input, SameBut
  <2> HIDE DEF q
  <2>8. Unobjected(q)
    BY <2>1, <2>2, <2>6, <2>7, UnobjectedAbove
  <2>9. Evaluate(q).outcome = "allow"
    BY <2>7, <2>8, AllowMeansUnobjected
  <2>10. Evaluate(q) = Allow
    BY <2>9, EvaluateSays
  <2> QED
    BY <2>10 DEF q
<1> QED
  BY <1>1, ShapeHolds, PTL
=============================================================================
