--------------------------- MODULE MCPolicyEngine ---------------------------
(***************************************************************************)
(* TLC harness of PolicyEngine.  A behaviour starts from a policy input a  *)
(* boundary can build (every action, from every state of Places, with the  *)
(* sums and rounds around their limits) and then turns up to MaxFacts      *)
(* facts of it toward caution, one at a time: the record is revoked, the   *)
(* clock passes a limit, the screen finds a leak, a dispute opens, ...     *)
(* The runs therefore visit every combination of up to MaxFacts cautious   *)
(* facts, in every order, and compare each decision with the one before.   *)
(*                                                                         *)
(* A delegation is such a fact: the agent now acts under a child of its    *)
(* record, narrower or (wrongly) wider, and the boundary walks the chain.  *)
(* `above' holds the ancestors, the root first; a record's id is its place *)
(* in the chain, and `known' says which ancestors the boundary can fetch.  *)
(***************************************************************************)
EXTENDS Delegation, FiniteSets

CONSTANTS
  Tokens,      \* the action strings proposed; may hold one outside the vocabulary
  Places,      \* the deal states proposed from
  MaxFacts     \* bound on the number of cautious facts in one behaviour

ASSUME HarnessAssumption ==
  /\ Places \subseteq DealState
  /\ MaxFacts \in Nat

VARIABLES pi, facts, above, known
vars == <<pi, facts, above, known>>

\* A mandate that permits everything, from 1 to 2, with a cap of 2 units and
\* one negotiation round.
Permissive ==
  [ id |-> 1, parent |-> NoParent,
    status |-> "active", not_before |-> 1, expires_at |-> 2,
    counterparty |-> "p1", allowed_actions |-> ActionToken,
    prohibited_actions |-> {}, requires_human_approval_for |-> {},
    spend_cap |-> 2, currency |-> "usd", max_negotiation_rounds |-> 1,
    disclosure_fields |-> {"budget", "name"} ]

\* The requests: an action from a state, with a sum on top of what the deal is
\* committed to.
Asked(mandate, token, place, committed, amount) ==
  [ schema |-> TRUE, signature |-> TRUE, status |-> "active",
    now |-> 1, links |-> {}, mandate |-> mandate,
    counterparty |-> "p1", content |-> NoContent,
    deal |-> [DraftDeal EXCEPT !.state = place, !.committed_minor = committed],
    proposal |-> [ action |-> token, amount |-> amount,
                   currency |-> "usd", disclosure_fields |-> {"name"} ] ]

\* A bearer mandate names no party.
Bearer == [Permissive EXCEPT !.counterparty = NoParty]

\* A bearer mandate is tried in a negotiation, without a sum: who is spoken to
\* is checked before the state and the sums.
Inputs ==
  { Asked(Permissive, token, place, committed, amount) :
      token \in Tokens, place \in Places, committed \in {0, 1},
      amount \in {NoAmount, 0, 2} }
  \cup { Asked(Bearer, token, place, 0, NoAmount) :
           token \in Tokens, place \in Places \cap {"negotiating"} }

\* The screen's answers about a text: a leak of the field at some level, or
\* hostility, or no answer at all.
Screened(available, level, hostility) ==
  [ present |-> TRUE, available |-> available, hostility |-> hostility,
    detected |-> [f \in {"budget"} |-> level] ]

Init == pi \in Inputs /\ facts = 0 /\ above = <<>> /\ known = {}

\* What a boundary reports of the chain above the mandate, one link for all.
Links(mandate, chain, ids, now) ==
  LET fine == DelegationViolations(mandate, [id \in ids |-> chain[id]], now) = {}
  IN  { fine : ancestor \in DOMAIN chain }

\* One more cautious fact, about the chain too.
ChainFact(next, chain, ids) ==
  /\ facts < MaxFacts
  /\ facts' = facts + 1
  /\ above' = chain
  /\ known' = ids
  /\ pi' = [next EXCEPT !.links = Links(next.mandate, chain, ids, next.now)]

Fact(next) == ChainFact(next, above, known)

\* A fact about the mandate is one about the root or about a valid child.
MandateFact(mandate) ==
  /\ FALSE \notin pi.links
  /\ Fact([pi EXCEPT !.mandate = mandate])

RecordRevoked == Fact([pi EXCEPT !.status = "revoked"])
SignatureBad == Fact([pi EXCEPT !.signature = FALSE])
SchemaUnknown == Fact([pi EXCEPT !.schema = FALSE])
ClockPasses ==
  Fact([pi EXCEPT !.now = 3,
                  !.status = ResolveStatus(pi.mandate, 3, @ = "revoked")])
NotYetValid ==
  MandateFact([pi.mandate EXCEPT !.not_before = 2, !.expires_at = 2])
OtherParty == Fact([pi EXCEPT !.counterparty = "p2"])
Prohibited ==
  MandateFact([pi.mandate EXCEPT !.prohibited_actions =
                                   @ \cup {pi.proposal.action}])
Withdrawn ==
  MandateFact([pi.mandate EXCEPT !.allowed_actions = @ \ {pi.proposal.action}])
ApprovalGate ==
  MandateFact([pi.mandate EXCEPT !.requires_human_approval_for =
                                   @ \cup {pi.proposal.action}])
DisputeOpens == Fact([pi EXCEPT !.deal.open_disputes = 1])
ApprovalOpens == Fact([pi EXCEPT !.deal.open_approvals = 1])
AllowListShrinks ==
  \E field \in pi.mandate.disclosure_fields :
    MandateFact([pi.mandate EXCEPT !.disclosure_fields = @ \ {field}])
RoundSpent == Fact([pi EXCEPT !.deal.negotiated_rounds = 1])
CurrencyDiffers == Fact([pi EXCEPT !.proposal.currency = "eur"])

\* The cap is lowered below the total asked for, or the deal is by now
\* committed to more (a granted approval commits beyond the cap, too).
CapLowered == MandateFact([pi.mandate EXCEPT !.spend_cap = 0])
CommitmentGrows == Fact([pi EXCEPT !.deal.committed_minor = @ + 3])

\* The widest value of every field that narrows.
Wide ==
  [ not_before |-> 0, expires_at |-> 3, counterparty |-> NoParty,
    allowed_actions |-> ActionToken, prohibited_actions |-> {},
    requires_human_approval_for |-> {}, spend_cap |-> 3, currency |-> "eur",
    max_negotiation_rounds |-> 2, disclosure_fields |-> {"budget", "name"} ]

\* The record above a delegation: the boundary records a revocation it knows of.
Principal(mandate, status) ==
  [mandate EXCEPT !.status = IF status = "revoked" THEN "revoked" ELSE @]

\* The child of a record that repeats it.
Heir(mandate) == [mandate EXCEPT !.id = mandate.id + 1, !.parent = mandate.id]

\* The agent acts under a child of its record, the same or wide in one field.
Delegated ==
  \E field \in DOMAIN Wide, wide \in BOOLEAN :
    LET parent == Principal(pi.mandate, pi.status)
        heir == Heir(pi.mandate)
        child == IF wide THEN [heir EXCEPT ![field] = Wide[field]] ELSE heir
    IN ChainFact([pi EXCEPT !.mandate = child,
                            !.status = ResolveStatus(child, pi.now, FALSE)],
                 Append(above, parent), known \cup {parent.id})

\* An ancestor is revoked, cannot be fetched, or names a parent further down.
AncestorRevoked ==
  \E i \in DOMAIN above :
    ChainFact(pi, [above EXCEPT ![i].status = "revoked"], known)
AncestorLost == \E id \in known : ChainFact(pi, above, known \ {id})
ChainLoops ==
  /\ above # <<>>
  /\ ChainFact(pi, [above EXCEPT ![1].parent = pi.mandate.id], known)

\* The same text screened again, or screened at all: never less is found.
TextScreened ==
  \E available \in BOOLEAN, level \in Level, hostility \in Level :
    /\ pi.content.present =>
         /\ level >= pi.content.detected["budget"]
         /\ hostility >= pi.content.hostility
         /\ available => pi.content.available
    /\ Fact([pi EXCEPT !.content = Screened(available, level, hostility)])

Next ==
  \/ RecordRevoked \/ SignatureBad \/ SchemaUnknown
  \/ Delegated \/ AncestorRevoked \/ AncestorLost \/ ChainLoops
  \/ ClockPasses \/ NotYetValid \/ OtherParty \/ Prohibited \/ Withdrawn
  \/ ApprovalGate \/ DisputeOpens \/ ApprovalOpens \/ AllowListShrinks
  \/ RoundSpent \/ CurrencyDiffers \/ CapLowered \/ CommitmentGrows
  \/ TextScreened

Spec == Init /\ [][Next]_vars

-----------------------------------------------------------------------------
Rank == [allow |-> 0, needs_approval |-> 1, deny |-> 2]

\* A counteroffer without rounds left that a cautious fact puts over the cap:
\* step 10 precedes step 11, so it was denied and is now held.
HeldBeforeLimit(before, after) ==
  /\ before = Deny("negotiation_limit_reached")
  /\ after = NeedsApproval("spend_cap_exceeded")

\* A cautious fact makes a decision more permissive in one case only.
\* Whatever the order of the checks in evaluate, a hold never turns into an
\* allow, and a deny stays a deny unless it was the round limit's and the
\* request now exceeds the cap.  The facts are all that a boundary can learn,
\* what the content screen adds (steps 9b and 12b) included.
NeverWidens ==
  [][\/ Rank[Evaluate(pi').outcome] >= Rank[Evaluate(pi).outcome]
     \/ HeldBeforeLimit(Evaluate(pi), Evaluate(pi'))]_pi

\* The stored state has the transition the action applies; the decision-only
\* resolve_dispute applies none and is about a deal in dispute.
Permits(state, action) ==
  IF ActionEvents[action] = NoEvent THEN state = "disputed"
  ELSE TransitionFor(state, ActionEvents[action]) # NoState

\* The order-free meaning of the first-match list: evaluate allows exactly
\* the inputs on which no single check objects.
NothingObjects ==
  /\ pi.schema /\ pi.signature /\ pi.status = "active"
  /\ pi.now \in pi.mandate.not_before .. pi.mandate.expires_at
  /\ \A link \in pi.links : link
  /\ \/ NoParty \in {pi.counterparty, pi.mandate.counterparty}
     \/ pi.counterparty = pi.mandate.counterparty
  /\ pi.proposal.action \in
       (ActionToken \cap pi.mandate.allowed_actions)
         \ (pi.mandate.prohibited_actions
              \cup pi.mandate.requires_human_approval_for)
  /\ Permits(pi.deal.state, pi.proposal.action)
  /\ pi.proposal.action \in PaymentActions =>
       pi.deal.open_disputes = 0 /\ pi.deal.open_approvals = 0
  /\ pi.proposal.disclosure_fields \subseteq pi.mandate.disclosure_fields
  /\ pi.proposal.action \in NegotiationActions =>
       pi.deal.negotiated_rounds < pi.mandate.max_negotiation_rounds
  /\ pi.proposal.amount # NoAmount =>
       /\ pi.proposal.currency = pi.mandate.currency
       /\ pi.deal.committed_minor + pi.proposal.amount <= pi.mandate.spend_cap
  /\ pi.content.present =>
       /\ pi.content.available
       /\ pi.content.hostility < HoldLevel
       /\ \A f \in DOMAIN pi.content.detected \ pi.mandate.disclosure_fields :
            pi.content.detected[f] < HoldLevel

\* The check list against its order-free meaning, in both directions.  In
\* particular an allow implies the stored state has the action's transition,
\* so an atomic commit can never answer stale_state.
AllowIffNothingObjects ==
  (Evaluate(pi).outcome = "allow") <=> NothingObjects

\* A person is asked only about an action that every check before the cap
\* permits: the record is valid and in force, the chain above it is whole, the
\* audience, the vocabulary and the authority fit, the stored state has the
\* transition, no payment block stands, nothing too much is declared, the
\* currency is the mandate's, and a near-certain leak is stopped, not sent to
\* ask about money.
HoldOnlyWithinAuthority ==
  Evaluate(pi).outcome = "needs_approval" =>
    /\ pi.schema /\ pi.signature /\ pi.status = "active"
    /\ pi.now \in pi.mandate.not_before .. pi.mandate.expires_at
    /\ FALSE \notin pi.links
    /\ \/ NoParty \in {pi.counterparty, pi.mandate.counterparty}
       \/ pi.counterparty = pi.mandate.counterparty
    /\ pi.proposal.action \in
         (ActionToken \cap pi.mandate.allowed_actions)
           \ pi.mandate.prohibited_actions
    /\ Permits(pi.deal.state, pi.proposal.action)
    /\ pi.proposal.action \in PaymentActions =>
         pi.deal.open_disputes = 0 /\ pi.deal.open_approvals = 0
    /\ pi.proposal.disclosure_fields \subseteq pi.mandate.disclosure_fields
    /\ pi.proposal.amount # NoAmount =>
         pi.proposal.currency = pi.mandate.currency
    /\ ~ Leaks(pi, DenyLevel)

\* A delegate is allowed nothing that any record above it would not be
\* allowed for the same proposal, however many delegations lie between: the
\* hop-by-hop rules of scope_violations compose, and a chain that is broken,
\* revoked or expired anywhere allows nothing.
DelegateAllowsNoMore ==
  Evaluate(pi).outcome = "allow" =>
    \A i \in DOMAIN above :
      Evaluate([pi EXCEPT !.mandate = above[i],
                          !.status = ResolveStatus(above[i], pi.now, FALSE)])
        = Allow
=============================================================================
