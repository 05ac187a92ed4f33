----------------------------- MODULE ChainAudit -----------------------------
(***************************************************************************)
(* What an auditor reads off a deal's chain, the sequence of its entries,  *)
(* with nothing else than the transition table: the vocabulary in which    *)
(* the properties of both ledger stores are stated, and what the           *)
(* verification of an evidence bundle asks of its deal row (LedTo).        *)
(***************************************************************************)
EXTENDS CommitPlans, SequencesExt

\* One entry of a chain applied to the projection: what an auditor who has
\* only the chain and the transition table concludes.
Replayed(deal, entry) ==
  CASE entry.type = "state_transition" ->
         ApplyEvent(deal, entry.event, TransitionFor(deal.state, entry.event),
                    entry.amount)
    [] entry.type = "approval" /\ entry.operation = "required" ->
         [deal EXCEPT !.open_approvals = @ + 1]
    [] entry.type = "approval" /\ entry.operation # "required" ->
         [deal EXCEPT !.open_approvals = @ - 1]
    [] OTHER -> deal

\* The projection that the whole chain amounts to.
Replay(chain) ==
  LET after[n \in 0..Len(chain)] ==
        IF n = 0 THEN DraftDeal ELSE Replayed(after[n - 1], chain[n])
  IN  after[Len(chain)]

\* The last transition on the chain, if there is one, led to a state.
LedTo(chain, state) ==
  LET moves == {i \in DOMAIN chain : chain[i].type = "state_transition"} IN
  \A i \in moves : (\A j \in moves : j <= i) => chain[i].to = state

\* The entry that permits a transition of the agent's.
Authorizes(e, t) ==
  /\ e.type \in {"policy_decision", "approval"}
  /\ e.cause = t.cause
  /\ \/ /\ e.type = "policy_decision"
        /\ e.decision.outcome = "allow"
        /\ ActionEvents[e.proposal.action] = t.event
        /\ e.proposal.amount = t.amount
     \/ /\ e.type = "approval"
        /\ e.operation = "granted"
        /\ ActionEvents[e.action] = t.event
        /\ e.amount = t.amount

\* The places of a chain that hold the approval entries of a request.
ApprovalTrail(chain, q) ==
  {i \in DOMAIN chain : chain[i].type = "approval" /\ chain[i].cause = q}

\* The entries that let an action happen.
Permission(e) ==
  \/ e.type = "policy_decision" /\ e.decision.outcome = "allow"
  \/ e.type = "approval" /\ e.operation = "granted"

\* The approvals that entries 1..i of a chain leave open, and whether they
\* leave a dispute open.
LeftOpen(chain, i) ==
  LET asked == {j \in 1..i : chain[j].type = "approval"}
      answered == {j \in asked : chain[j].operation # "required"}
  IN  {chain[j].cause : j \in asked} \ {chain[j].cause : j \in answered}

InDispute(chain, i) ==
  LET moves == {j \in 1..i : chain[j].type = "state_transition"} IN
  \E j \in moves : chain[j].to = "disputed" /\ \A k \in moves : k <= j
=============================================================================
