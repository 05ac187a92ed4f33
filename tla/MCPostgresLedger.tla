-------------------------- MODULE MCPostgresLedger --------------------------
(***************************************************************************)
(* TLC harness of PostgresLedger: the databases the runs start from are    *)
(* brought about by the commit plans, one call after the other, and the    *)
(* jobs are the calls that then come in at the same time.                  *)
(***************************************************************************)
EXTENDS PostgresLedger

\* Both records carry one nonce; an agreement needs a person.
MCMandate ==
  [r \in RecordId |->
    [ status |-> "active", signed |-> TRUE, nonce |-> "n1", not_before |-> 0,
      expires_at |-> 10, counterparty |-> NoParty,
      allowed_actions |-> ActionToken, prohibited_actions |-> {},
      requires_human_approval_for |-> {"accept_agreement"},
      spend_cap |-> 1, currency |-> "usd", max_negotiation_rounds |-> 2,
      disclosure_fields |-> {} ]]

MCLink == [d \in DealId |-> IF d = "d1" THEN "r1" ELSE "r2"]

\* A deal brought by the boundary from a draft to a received quote.
Quoted ==
  LET First == PlanCommitTransition(DraftDeal, "c0", "quote_requested", FALSE)
      Second == PlanCommitTransition(First.deal, "c0", "quote_received", FALSE)
  IN  [deal |-> Second.deal, chain |-> First.events \o Second.events]

Agreement(d) ==
  [ deal |-> d, key |-> "k0", action |-> "accept_agreement", amount |-> 1,
    disclosure_fields |-> {}, text |-> FALSE ]
Counteroffer(d, k, amount) ==
  [ deal |-> d, key |-> k, action |-> "counteroffer", amount |-> amount,
    disclosure_fields |-> {}, text |-> FALSE ]

\* Both deals are quoted, and nothing was proposed yet.
FreshDatabase ==
  [ deals |-> [d \in DealId |-> Quoted.deal],
    chains |-> [d \in DealId |-> Quoted.chain],
    approvals |-> [q \in RequestId |-> NoApproval],
    revocations |-> {}, seen_requests |-> {},
    nonce_owners |-> [n \in Nonces |-> NoRecord],
    decisions |-> [k \in Key |-> NoDecision], seen_commands |-> {} ]

\* The agent's agreement q0 on the first deal is held for a person.
HeldDatabase ==
  LET held == NeedsApproval("approval_required")
      plan == PlanCommitRequest(Quoted.deal, "q0", Agreement("d1"), "r1", held)
  IN  [ FreshDatabase EXCEPT
          !.deals["d1"] = plan.deal, !.chains["d1"] = @ \o plan.events,
          !.approvals["q0"] = plan.approval, !.seen_requests = {"q0"},
          !.nonce_owners["n1"] = "r1",
          !.decisions["k0"] = [proposal |-> Agreement("d1"), decision |-> held] ]

Propose(q, d, k, amount) ==
  [kind |-> "proposal", deal |-> d, request |-> q,
   proposal |-> Counteroffer(d, k, amount)]
Ask(q) ==
  [kind |-> "proposal", deal |-> "d1", request |-> q, proposal |-> Agreement("d1")]
Report(c, event) ==
  [kind |-> "event", deal |-> "d1", command |-> c, event |-> event]
Decide(c, operation) ==
  [ kind |-> "decision", deal |-> "d1", command |-> c, request |-> "q0",
    operation |-> operation ]
Withdraw(c) == [kind |-> "revocation", deal |-> "d1", command |-> c]

\* A redelivered proposal, its key used for another one, a second record with
\* the same nonce, a proposal that is held; a person's two answers; events of
\* the boundary and revocations beside them.
FreshJobs ==
  { Propose("q1", "d1", "k1", NoAmount), Propose("q2", "d1", "k1", NoAmount),
    Propose("q4", "d1", "k1", 1), Propose("q3", "d2", "k2", NoAmount),
    Ask("q0"), Report("c1", "expired"), Withdraw("c2") }
HeldJobs ==
  { Propose("q1", "d1", "k1", NoAmount), Decide("c1", "granted"),
    Decide("c2", "denied"), Report("c3", "cancelled"), Withdraw("c4") }

\* Two grants of one approval; two first requests under one nonce, and an
\* event of the boundary between a proposal's decision and its commit.
GrantJobs == {Decide("c1", "granted"), Decide("c2", "granted")}
RivalJobs ==
  { Propose("q1", "d1", "k1", NoAmount), Propose("q3", "d2", "k2", NoAmount),
    Report("c1", "expired") }

MCJobs == FreshJobs \cup HeldJobs
BothDatabases == {FreshDatabase, HeldDatabase}
JustFresh == {FreshDatabase}
JustHeld == {HeldDatabase}
=============================================================================
