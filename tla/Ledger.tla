------------------------------- MODULE Ledger -------------------------------
(***************************************************************************)
(* The gateway over mandate.ledger.store.InMemoryLedgerStore: proposals of *)
(* the agent (application.services.process_request), events the boundary   *)
(* reports, approvals a person decides, revocations, and the passing of    *)
(* time.  The console's handlers and the store run on one thread and await *)
(* nothing between reading the store and committing, so each operation is  *)
(* one action.                                                             *)
(*                                                                         *)
(* The chain of a deal is the sequence of its entries: the hash links and  *)
(* signatures, a function of that sequence, are left out.  A request and   *)
(* the command of a boundary or operator call each have an identity, drawn *)
(* from RequestId and CommandId; a redelivered message is the same request *)
(* or command again.  An approval is named by the request that opened it.  *)
(***************************************************************************)
EXTENDS ChainAudit, FiniteSets

CONSTANTS
  DealId, RecordId, RequestId, CommandId,
  Key,             \* idempotency keys
  Mandate,         \* RecordId -> the signed authority record
  Proposals,       \* what the agent may propose
  Screenings,      \* the content screen's possible answers about a text
  BoundaryEvents,  \* DealId -> the events the boundary reports of it
  Notes,           \* whether a boundary event may come with a note
  MaxTime,         \* bound on the clock
  NoRecord         \* the link of a deal that is not registered

MandateType ==
  [ status : {"active", "revoked"}, signed : BOOLEAN, nonce : Nat,
    not_before : Nat, expires_at : Nat, counterparty : STRING,
    allowed_actions : SUBSET ActionToken,
    prohibited_actions : SUBSET ActionToken,
    requires_human_approval_for : SUBSET ActionToken, spend_cap : Nat,
    currency : STRING, max_negotiation_rounds : Nat,
    disclosure_fields : SUBSET STRING ]

\* A proposal: its text is abstracted to whether there is one.
ProposalType ==
  [ deal : DealId, key : Key, action : STRING, amount : Amount,
    disclosure_fields : SUBSET STRING, text : BOOLEAN ]

ASSUME LedgerAssumption ==
  /\ NoRecord \notin RecordId
  /\ RequestId \cap CommandId = {}
  /\ IsFiniteSet(RequestId)
  /\ \A r \in RecordId :
       /\ Mandate[r].nonce \in Nat
       /\ Mandate[r].spend_cap \in Nat
       /\ Mandate[r].max_negotiation_rounds \in Nat
       /\ Mandate[r].expires_at \in Nat
  /\ \A p \in Proposals :
       p.deal \in DealId /\ p.key \in Key /\ p.amount \in Amount
  /\ BoundaryEvents \in [DealId -> SUBSET DealEvent]
  /\ Notes \subseteq BOOLEAN
  /\ MaxTime \in Nat

VARIABLES
  deals,          \* DealId -> projection; state NoState until registered
  links,          \* DealId -> record (deal_links, the console's deal_records)
  events,         \* DealId -> chain
  records,        \* the stored authority records
  revocations,    \* the stored revocations
  approvals,      \* RequestId -> the approval the request opened, if any
  nonce_owners,   \* nonce -> record that first used it
  seen_requests,
  decisions,      \* Key -> what was proposed and decided under it
  seen_commands,
  now,            \* the boundary's clock
  answer          \* what the last caller was told

store == <<deals, links, events, records, revocations, approvals,
           nonce_owners, seen_requests, decisions, seen_commands>>
vars == <<store, now, answer>>

UnknownDeal == [DraftDeal EXCEPT !.state = NoState]
Known(d) == deals[d].state # NoState

Approval == [ status : {"pending", "granted", "denied"}, deal : DealId,
              record : RecordId, action : ActionToken, amount : Amount ]
Pending(q) == approvals[q].status = "pending"

Nonces == {Mandate[r].nonce : r \in RecordId}
NoDecision == [outcome |-> "none"]

\* What a caller is told: the result, and for a proposal its decision.
Told(result) == [result |-> result]
ToldDecision(result, key, decision) ==
  [result |-> result, key |-> key, decision |-> decision]

-----------------------------------------------------------------------------
\* Whether a stored revocation binds the record now, and the lifecycle status
\* that follows.
Revoked(r) ==
  \E v \in revocations : v.record = r /\ v.revoked_at <= now
Status(r) == ResolveStatus(Mandate[r], now, Revoked(r))

\* What a grant rechecks: the record is stored and in force.
Current(r) == r \in records /\ Status(r) = "active"

\* A faulty variant of ClaimStatus: the claim repeats what was signed.
ClaimStatusAsSigned(r) == Mandate[r].status

\* build_claim: the status in the claim the engine is given.
ClaimStatus(r) == Status(r)

\* A faulty variant of CheckAntiReplay: a key used again for another proposal
\* is let through.
CheckAntiReplayByDigest(q, p) ==
  LET owner == nonce_owners[Mandate[links[p.deal]].nonce] IN
  IF decisions[p.key] # NoDecision /\ decisions[p.key].proposal = p
  THEN "idempotent_hit"
  ELSE IF q \in seen_requests \/ owner \notin {NoRecord, links[p.deal]}
       THEN "replay"
       ELSE "pass"

\* check_anti_replay (ADR-0007 ordering).
CheckAntiReplay(q, p) ==
  LET owner == nonce_owners[Mandate[links[p.deal]].nonce] IN
  IF decisions[p.key] # NoDecision
  THEN IF decisions[p.key].proposal = p THEN "idempotent_hit" ELSE "conflict"
  ELSE IF q \in seen_requests \/ owner \notin {NoRecord, links[p.deal]}
       THEN "replay"
       ELSE "pass"

-----------------------------------------------------------------------------
Init ==
  /\ deals = [d \in DealId |-> UnknownDeal]
  /\ links = [d \in DealId |-> NoRecord]
  /\ events = [d \in DealId |-> <<>>]
  /\ records = {}
  /\ revocations = {}
  /\ approvals = [q \in RequestId |-> NoApproval]
  /\ nonce_owners = [n \in Nonces |-> NoRecord]
  /\ seen_requests = {}
  /\ decisions = [k \in Key |-> NoDecision]
  /\ seen_commands = {}
  /\ now = 0
  /\ answer = Told("none")

\* register_deal: create_deal raises for a deal that exists.
RegisterDeal(d, r) ==
  /\ ~ Known(d)
  /\ deals' = [deals EXCEPT ![d] = DraftDeal]
  /\ links' = [links EXCEPT ![d] = r]
  /\ records' = records \cup {r}
  /\ answer' = Told("registered")
  /\ UNCHANGED <<events, revocations, approvals, nonce_owners, seen_requests,
                 decisions, seen_commands, now>>

\* commit_request, on a gate pass.
CommitRequest(q, p, decision) ==
  LET d == p.deal
      r == links[d]
      plan == PlanCommitRequest(deals[d], q, p, r, decision)
  IN  /\ deals' = [deals EXCEPT ![d] = plan.deal]
      /\ events' = [events EXCEPT ![d] = @ \o plan.events]
      /\ approvals' = IF plan.approval = NoApproval THEN approvals
                      ELSE [approvals EXCEPT ![q] = plan.approval]
      /\ records' = records \cup {r}
      /\ nonce_owners' = [nonce_owners EXCEPT ![Mandate[r].nonce] = r]
      /\ seen_requests' = seen_requests \cup {q}
      /\ decisions' = [decisions EXCEPT ![p.key] =
                         [proposal |-> p, decision |-> decision]]
      /\ UNCHANGED <<links, revocations, seen_commands>>

\* process_request: the gate, then the engine, then the commit, which compares
\* what the engine decided with the stored deal.  A stale commit writes
\* nothing, and the caller is told the decision all the same.
ProcessRequest(q, p, input) ==
  /\ LET verdict == CheckAntiReplay(q, p)
         decision == Evaluate(input)
     IN  \/ /\ verdict = "idempotent_hit"
            /\ answer' = ToldDecision(verdict, p.key, decisions[p.key].decision)
            /\ UNCHANGED store
         \/ /\ verdict \in {"conflict", "replay"}
            /\ answer' = Told(verdict)
            /\ UNCHANGED store
         \/ /\ verdict = "pass"
            /\ answer' = ToldDecision("decided", p.key, decision)
            /\ IF Stale(deals[p.deal], PlannedEvent(p, decision))
               THEN UNCHANGED store
               ELSE CommitRequest(q, p, decision)
  /\ UNCHANGED now

\* The console's propose: the engine is given what the store holds now.
Propose(q, p, content) ==
  LET r == links[p.deal] IN
  /\ Known(p.deal)
  /\ ProcessRequest(q, p, PolicyInput(p, Mandate[r], ClaimStatus(r),
                                      deals[p.deal], now, content))

\* A faulty variant of TransitionResult: the stored state is not asked.
TransitionResultUnchecked(d, c, event) ==
  IF c \in seen_commands THEN "already_applied" ELSE "committed"

\* commit_transition: what the boundary reports carries no amount.
TransitionResult(d, c, event) ==
  IF c \in seen_commands THEN "already_applied"
  ELSE IF TransitionFor(deals[d].state, event) = NoState THEN "stale_state"
  ELSE "committed"

CommitTransition(d, c, event, noted) ==
  LET result == TransitionResult(d, c, event)
      plan == PlanCommitTransition(deals[d], c, event, noted)
  IN  /\ Known(d)
      /\ answer' = Told(result)
      /\ IF result = "committed"
         THEN /\ deals' = [deals EXCEPT ![d] = plan.deal]
              /\ events' = [events EXCEPT ![d] = @ \o plan.events]
              /\ seen_commands' = seen_commands \cup {c}
              /\ UNCHANGED <<links, records, revocations, approvals,
                             nonce_owners, seen_requests, decisions>>
         ELSE UNCHANGED store
      /\ UNCHANGED now

\* The console's boundary_event, of a deal it finds a mandate for.
BoundaryEvent(d, c, event, noted) ==
  links[d] # NoRecord /\ CommitTransition(d, c, event, noted)

\* A faulty variant of Decidable: only the command guards the decision.
DecidableByCommand(q, c) == c \notin seen_commands

\* commit_approval: an approval is decided once, whatever the command.
Decidable(q, c) == Pending(q) /\ c \notin seen_commands

CommitApproval(q, c, operation) ==
  LET a == approvals[q]
      plan == PlanCommitApproval(deals[a.deal], q, a, operation,
                                 Current(a.record))
  IN  /\ IF Decidable(q, c)
         THEN /\ answer' = Told("committed")
              /\ deals' = [deals EXCEPT ![a.deal] = plan.deal]
              /\ events' = [events EXCEPT ![a.deal] = @ \o plan.events]
              /\ approvals' = [approvals EXCEPT ![q] = plan.approval]
              /\ seen_commands' = seen_commands \cup {c}
              /\ UNCHANGED <<links, records, revocations, nonce_owners,
                             seen_requests, decisions>>
         ELSE answer' = Told("already_applied") /\ UNCHANGED store
      /\ UNCHANGED now

\* The console's decide_approval: what is granted is what the row holds.
DecideApproval(q, c, operation) ==
  approvals[q] # NoApproval /\ CommitApproval(q, c, operation)

\* commit_revocation.
RevocationResult(r, c) ==
  IF c \in seen_commands THEN "already_applied"
  ELSE IF r \notin records THEN "record_not_found"
  ELSE IF \E v \in revocations : v.record = r THEN "already_applied"
  ELSE "committed"

CommitRevocation(d, c, revocation) ==
  LET result == RevocationResult(revocation.record, c)
  IN  /\ Known(d)
      /\ answer' = Told(result)
      /\ IF result = "committed"
         THEN /\ events' = [events EXCEPT ![d] =
                              Append(@, RevocationEntry(revocation))]
              /\ revocations' = revocations \cup {revocation}
              /\ seen_commands' = seen_commands \cup {c}
              /\ UNCHANGED <<deals, links, records, approvals, nonce_owners,
                             seen_requests, decisions>>
         ELSE UNCHANGED store
      /\ UNCHANGED now

\* The console's revoke, of the record the deal is linked to.
Revoke(d, c) ==
  /\ links[d] # NoRecord
  /\ CommitRevocation(d, c, [record |-> links[d], revoked_at |-> now])

Tick ==
  /\ now < MaxTime
  /\ now' = now + 1
  /\ UNCHANGED <<store, answer>>

Next ==
  \/ \E d \in DealId, r \in RecordId : RegisterDeal(d, r)
  \/ \E q \in RequestId, p \in Proposals,
        content \in Screenings \cup {NoContent} :
       content.present = p.text /\ Propose(q, p, content)
  \/ \E d \in DealId, c \in CommandId, noted \in Notes :
       \E event \in BoundaryEvents[d] : BoundaryEvent(d, c, event, noted)
  \/ \E q \in RequestId, c \in CommandId, operation \in {"granted", "denied"} :
       DecideApproval(q, c, operation)
  \/ \E d \in DealId, c \in CommandId : Revoke(d, c)
  \/ Tick

Spec == Init /\ [][Next]_vars
-----------------------------------------------------------------------------
Cause == RequestId \cup CommandId
Revocation == [record : RecordId, revoked_at : 0..MaxTime]

Entry ==
  [type : {"message"}, cause : Cause]
  \cup [ type : {"policy_decision"}, cause : RequestId, proposal : Proposals,
         decision : Decision ]
  \cup [ type : {"state_transition"}, cause : Cause, event : DealEvent,
         from : DealState, to : DealState, amount : Amount ]
  \cup [ type : {"approval"}, operation : {"required", "granted", "denied"},
         cause : RequestId, action : ActionToken, amount : Amount ]
  \cup [type : {"revocation"}, revocation : Revocation]

StoredDecision == [proposal : Proposals, decision : Decision]

\* Every variable has the shape of the store's table.
Shaped ==
  /\ deals \in [DealId -> DealRow]
  /\ links \in [DealId -> RecordId \cup {NoRecord}]
  /\ events \in [DealId -> Seq(Entry)]
  /\ records \in SUBSET RecordId
  /\ revocations \in SUBSET Revocation
  /\ approvals \in [RequestId -> Approval \cup {NoApproval}]
  /\ nonce_owners \in [Nonces -> RecordId \cup {NoRecord}]
  /\ seen_requests \in SUBSET RequestId
  /\ decisions \in [Key -> StoredDecision \cup {NoDecision}]
  /\ seen_commands \in SUBSET CommandId
  /\ now \in 0..MaxTime

\* The tables have their shape, and a registered deal is linked to a stored
\* record.
TypeOK ==
  /\ Shaped
  /\ \A d \in DealId : Known(d) => links[d] \in records

\* The deal row can be thrown away: replaying the chain from a draft gives
\* its state and all four counters.  The code updates the row and the chain
\* by different statements in four commit functions.
ProjectionIsReplay ==
  \A d \in DealId :
    Known(d) => deals[d] = Replay(events[d])

\* Every transition that a request caused stands in the chain right after the
\* decision or the grant that authorized it, for that very action and amount.
TransitionsAuthorized ==
  \A d \in DealId : \A i \in DOMAIN events[d] :
    LET t == events[d][i] IN
    t.type = "state_transition" /\ t.cause \in RequestId =>
      i > 1 /\ Authorizes(events[d][i - 1], t)

\* A held request is decided at most once, for what was held: its trail is
\* "required", then one answer, all about the row's action and amount, on the
\* row's deal and nowhere else.
ApprovalDecidedOnce ==
  \A d \in DealId, q \in RequestId :
    LET a == approvals[q]
        chain == events[d]
        trail == ApprovalTrail(chain, q)
        Says(i, operation) ==
          chain[i] = ApprovalEntry(operation, q, a.action, a.amount)
    IN  IF a = NoApproval \/ (a # NoApproval /\ a.deal # d) THEN trail = {}
        ELSE \E i \in trail :
               /\ Says(i, "required")
               /\ IF a.status = "pending" THEN trail = {i}
                  ELSE \E j \in trail :
                         i < j /\ Says(j, a.status) /\ trail = {i, j}

\* The places of the chains whose entry satisfies Test.
Places(Test(_)) ==
  {place \in UNION {{d} \X DOMAIN events[d] : d \in DealId} :
     Test(events[place[1]][place[2]])}

\* Retries and redeliveries have no second effect: over all the chains, an
\* idempotency key is decided once, and a request or a command causes at most
\* one transition.
SideEffectsOnce ==
  /\ \A k \in Key :
       LET DecidesKey(e) == e.type = "policy_decision" /\ e.proposal.key = k
       IN  Cardinality(Places(DecidesKey)) =
             (IF decisions[k] = NoDecision THEN 0 ELSE 1)
  /\ \A c \in Cause :
       LET Moves(e) == e.type = "state_transition" /\ e.cause = c
       IN  Cardinality(Places(Moves)) <= 1

\* What the agent was told about a key, the first time or again, is the
\* decision on record: no decision is announced that the ledger does not have.
AnswerMatchesLedger ==
  answer.result \in {"decided", "idempotent_hit"} =>
    /\ decisions[answer.key] # NoDecision
    /\ decisions[answer.key].decision = answer.decision

\* Revocation and expiry take effect at once, for requests held before them
\* too: once a mandate is out of force, no chain of a deal under it gains an
\* allow or a grant.
NoPermissionOutOfForce ==
  [][\A d \in DealId :
       Known(d) /\ Status(links[d]) # "active" =>
         \A i \in DOMAIN events'[d] \ DOMAIN events[d] :
           ~ Permission(events'[d][i])]_vars

\* Invariant 10 of the project brief, for what the agent does on its own: no
\* payment is allowed at a place of the chain that leaves an approval or a
\* dispute open, whatever the counters say.
PaymentsUnblocked ==
  \A d \in DealId : \A i \in DOMAIN events[d] :
    LET e == events[d][i] IN
    /\ e.type = "policy_decision"
    /\ e.decision.outcome = "allow"
    /\ e.proposal.action \in {"initiate_payment", "capture_payment"}
    => LeftOpen(events[d], i) = {} /\ ~ InDispute(events[d], i)

\* The same invariant for every way a payment is captured: the documents say
\* that an open approval blocks payment capture.  The boundary's events and
\* the grant of another approval are not blocked.
CapturesUnblocked ==
  \A d \in DealId : deals[d].state = "captured" => deals[d].open_approvals = 0

\* The documents say that an allowed resolve_dispute closes a dispute.  A
\* commit applies apply_action only to an action that has an event.
ResolutionClosesDispute ==
  \A d \in DealId :
    LET chain == events[d] IN
    deals[d].state = "disputed" =>
      \A i \in DOMAIN chain :
        /\ chain[i].type = "policy_decision"
        /\ chain[i].decision.outcome = "allow"
        /\ chain[i].proposal.action = "resolve_dispute"
        => deals[d].open_disputes = 0

\* What the contract hears of a proposal.  An action outside the vocabulary
\* is never performed or held.
Asks ==
  {[action |-> p.action, amount |-> p.amount] :
     p \in {o \in Proposals : o.action \in ActionToken}}

\* The ledger implements the contract: chains, gate, keys and clock hidden,
\* each operation is one step of MandateContract or none.
Contract == INSTANCE MandateContract WITH
  withdrawn <- {r \in RecordId : Status(r) # "active"},
  spent <- seen_requests \cup seen_commands

ImplementsContract == Contract!Spec
=============================================================================
