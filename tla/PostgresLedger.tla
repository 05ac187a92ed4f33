--------------------------- MODULE PostgresLedger ---------------------------
(***************************************************************************)
(* mandate.adapters.postgres.store.PostgresLedgerStore under concurrent    *)
(* callers.  A session is one call of the application: the agent's         *)
(* proposal (process_request), an event of the boundary, a person's        *)
(* decision on an approval, or a revocation.  Each statement is a step,    *)
(* and the transactions run at READ COMMITTED: a statement sees what was   *)
(* committed when it started, and nothing locks the rows that were read.   *)
(*                                                                         *)
(* A claim is an INSERT ... ON CONFLICT DO NOTHING RETURNING: it waits     *)
(* while another open transaction holds the same key.  The statements      *)
(* after the last claim write rows that no other session can see before    *)
(* the commit; the first of them fails when the sequence number is taken.  *)
(* They are one step with the commit: a session that would wait on an      *)
(* uncommitted sequence number behaves as if it came after that commit.    *)
(*                                                                         *)
(* A deal's records are stored when it is registered (deal_links refers to *)
(* them), so a session never finds its deal or its record missing.         *)
(***************************************************************************)
EXTENDS ChainAudit, FiniteSets, FiniteSetsExt

CONSTANTS
  Session, DealId, RecordId, RequestId, CommandId,
  Key,         \* idempotency keys
  Mandate,     \* RecordId -> the signed authority record
  Link,        \* DealId -> the record the deal is linked to
  Jobs,        \* what a session may be called for
  Databases,   \* the stored deals, chains and approvals a run starts from
  NoRecord

\* What a commit is asked for: CommitRequest, TransitionRequest,
\* ApprovalRequest and RevocationRequest.
JobType ==
  [ kind : {"proposal"}, deal : DealId, request : RequestId,
    proposal : [ deal : DealId, key : Key, action : STRING, amount : Amount,
                 disclosure_fields : SUBSET STRING, text : BOOLEAN ] ]
  \cup [ kind : {"event"}, deal : DealId, command : CommandId,
         event : DealEvent ]
  \cup [ kind : {"decision"}, deal : DealId, command : CommandId,
         request : RequestId, operation : {"granted", "denied"} ]
  \cup [kind : {"revocation"}, deal : DealId, command : CommandId]

ASSUME PostgresAssumption ==
  /\ NoRecord \notin RecordId
  /\ RequestId \cap CommandId = {}
  /\ Key \cap CommandId = {}
  /\ IsFiniteSet(Session)
  /\ Link \in [DealId -> RecordId]
  /\ Jobs \subseteq JobType

VARIABLES
  \* the tables
  deals, rows, approvals, revocations, nonce_owners, seen_requests,
  decisions, seen_commands,
  clock,    \* ticks with every call: the callers' occurred_at
  tx,       \* Session -> the call's progress and what it has read
  told,     \* Session -> what the call returned
  outdated, \* history: sessions whose deal was rewritten after they read it
  overtaken \* history: deals whose row was rewritten from an outdated copy

tables == <<deals, rows, approvals, revocations, nonce_owners, seen_requests,
            decisions, seen_commands>>
history == <<outdated, overtaken>>
vars == <<tables, clock, tx, told, history>>

NoDecision == [outcome |-> "none"]
Nonces == {Mandate[r].nonce : r \in RecordId}

\* An event row, identified by its number and the session that wrote it; prev
\* is the identity of the row whose hash it carries.
Genesis == [seq |-> 0, by |-> "genesis"]
RowId(row) == [seq |-> row.seq, by |-> row.by]

Approval == [ status : {"pending", "granted", "denied"}, deal : DealId,
              record : RecordId, action : ActionToken, amount : Amount ]

\* A database a run starts from holds what earlier calls left: complete chains,
\* and none of the commands that will come in.
ASSUME DatabasesAssumption ==
  \A db \in Databases :
    /\ db.deals \in [DealId -> Deal]
    /\ \A d \in DealId : LET n == Len(db.chains[d]) IN
         n \in Nat /\ DOMAIN db.chains[d] = 1..n
    /\ db.approvals \in [RequestId -> Approval \cup {NoApproval}]
    /\ db.revocations \subseteq [record : RecordId, revoked_at : Nat]
    /\ db.nonce_owners \in [Nonces -> RecordId \cup {NoRecord}]
    /\ db.seen_requests \subseteq RequestId
    /\ db.decisions = [k \in Key |-> db.decisions[k]]
    /\ db.seen_commands = {}

\* The approvals of a deal that wait for a person.
PendingFor(stored, d) ==
  {q \in RequestId : /\ stored[q] # NoApproval
                      /\ stored[q].status = "pending" /\ stored[q].deal = d}

\* The calls before a run came one after the other: they left every deal's row
\* in agreement with its chain, its open approvals counted, no approval without
\* the claim of its request, and no revocation on a chain but the stored ones.
ASSUME DatabasesAgree ==
  \A db \in Databases :
    /\ \A d \in DealId : LET open == PendingFor(db.approvals, d) IN
         /\ db.deals[d] = Replay(db.chains[d])
         /\ LedTo(db.chains[d], db.deals[d].state)
         /\ \A i \in DOMAIN db.chains[d] :
              db.chains[d][i].type = "revocation" =>
                db.chains[d][i].revocation \in db.revocations
         /\ IsFiniteSet(open)
         /\ Cardinality(open) <= db.deals[d].open_approvals
    /\ \A q \in RequestId :
         db.approvals[q] # NoApproval => q \in db.seen_requests

\* A proposal is committed to the deal it names.  The console answers 404 to a
\* decision on an approval of another deal.
ASSUME JobsAssumption ==
  \A job \in Jobs :
    /\ job.kind = "proposal" => job.proposal.deal = job.deal
    /\ job.kind = "decision" =>
         /\ \A db \in Databases :
              \/ db.approvals[job.request] = NoApproval
              \/ db.approvals[job.request].deal = job.deal
         /\ \A asked \in Jobs :
              asked.kind = "proposal" /\ asked.request = job.request =>
                asked.deal = job.deal

Idle == [ at |-> "idle", job |-> [kind |-> "none"], now |-> 0,
          status |-> "active", deal |-> DraftDeal, approval |-> NoApproval,
          decision |-> NoDecision, claimed |-> 0, head |-> Genesis,
          again |-> FALSE ]

Told(result) == [result |-> result]
ToldDecision(result, decision) == [result |-> result, decision |-> decision]

-----------------------------------------------------------------------------
Job(s) == tx[s].job
Record(s) == IF Job(s).kind = "decision" THEN tx[s].approval.record
             ELSE Link[Job(s).deal]

Goto(s, place) == tx' = [tx EXCEPT ![s].at = place]

\* A faulty variant of Return: the transaction is not ended.
ReturnInTransaction(s, answer) ==
  /\ tx' = [tx EXCEPT ![s].at = "done"]
  /\ told' = [told EXCEPT ![s] = answer]

\* The call returns: its transaction, if one is open, has ended.
Return(s, answer) ==
  /\ tx' = [tx EXCEPT ![s] = [Idle EXCEPT !.at = "done", !.job = Job(s)]]
  /\ told' = [told EXCEPT ![s] = answer]

\* The status of the session's record, from the revocations stored now.
StatusNow(s) ==
  ResolveStatus(Mandate[Record(s)], tx[s].now,
    \E v \in revocations : v.record = Record(s) /\ v.revoked_at <= tx[s].now)

-----------------------------------------------------------------------------
\* The anti-replay keys a commit claims, in the order it claims them.
ClaimsOf(job) ==
  IF job.kind = "proposal"
  THEN << [table |-> "idempotency", key |-> job.proposal.key],
          [table |-> "seen_requests", key |-> job.request],
          [table |-> "seen_nonces",
           key |-> Mandate[Link[job.deal]].nonce] >>
  ELSE << [table |-> "seen_commands", key |-> job.command] >>

Committed(claim) ==
  CASE claim.table = "idempotency" -> decisions[claim.key] # NoDecision
    [] claim.table = "seen_requests" -> claim.key \in seen_requests
    [] claim.table = "seen_nonces" -> nonce_owners[claim.key] # NoRecord
    [] claim.table = "seen_commands" -> claim.key \in seen_commands

Made(s) == {ClaimsOf(Job(s))[i] : i \in 1..tx[s].claimed}
Held(s) == {claim \in Made(s) : ~ Committed(claim)}

MadeIn(s, table) == {claim.key : claim \in {c \in Made(s) : c.table = table}}

\* A faulty variant of Inserted: no row is returned while a rival holds the key.
InsertedAtOnce(s, claim) ==
  IF \E rival \in Session \ {s} : claim \in Held(rival) THEN "lost"
  ELSE IF Committed(claim) /\ (claim.table = "seen_nonces" =>
                                 nonce_owners[claim.key] # Record(s))
  THEN "lost" ELSE "won"

\* A faulty variant of Inserted: the insert is not the gate.
InsertedAnyway(s, claim) == "won"

\* What the insert of a claim does: it waits for a rival that holds the key,
\* and loses to one that committed it.  A nonce may be the record's own.
Inserted(s, claim) ==
  IF \E rival \in Session \ {s} : claim \in Held(rival) THEN "waits"
  ELSE IF Committed(claim) /\ (claim.table = "seen_nonces" =>
                                 nonce_owners[claim.key] # Record(s))
  THEN "lost" ELSE "won"

\* What the session has claimed becomes visible.
CommitClaims(s) ==
  /\ decisions' = [k \in Key |->
       IF k \in MadeIn(s, "idempotency")
       THEN [proposal |-> Job(s).proposal, decision |-> tx[s].decision]
       ELSE decisions[k]]
  /\ seen_requests' = seen_requests \cup MadeIn(s, "seen_requests")
  /\ nonce_owners' = [n \in Nonces |->
       IF n \in MadeIn(s, "seen_nonces") THEN Record(s) ELSE nonce_owners[n]]
  /\ seen_commands' = seen_commands \cup MadeIn(s, "seen_commands")

-----------------------------------------------------------------------------
Init ==
  /\ \E db \in Databases :
       /\ deals = db.deals
       /\ rows = [d \in DealId |->
            {[ seq |-> i, by |-> "before", entry |-> db.chains[d][i],
               cause |-> "before",
               prev |-> IF i = 1 THEN Genesis
                        ELSE [seq |-> i - 1, by |-> "before"] ]
             : i \in DOMAIN db.chains[d]}]
       /\ approvals = db.approvals
       /\ revocations = db.revocations
       /\ seen_requests = db.seen_requests
       /\ nonce_owners = db.nonce_owners
       /\ decisions = db.decisions
       /\ seen_commands = db.seen_commands
  /\ clock = 0
  /\ tx = [s \in Session |-> Idle]
  /\ told = [s \in Session |-> Told("nothing")]
  /\ outdated = {}
  /\ overtaken = {}

\* A handler is called and reads its clock.
Call(s, job) ==
  /\ tx[s].at = "idle"
  /\ tx' = [tx EXCEPT ![s].job = job, ![s].now = clock,
              ![s].at = IF job.kind = "proposal" THEN "build_claim"
                        ELSE "read_deal"]
  /\ clock' = clock + 1
  /\ UNCHANGED <<tables, told, history>>

\* The boundary resolves the record's status for the claim, ...
BuildClaim(s) ==
  /\ tx[s].at = "build_claim"
  /\ tx' = [tx EXCEPT ![s].status = StatusNow(s), ![s].at = "get_deal"]
  /\ UNCHANGED <<tables, clock, told, history>>

\* ... reads the deal for the policy input, ...
GetDeal(s) ==
  /\ tx[s].at = "get_deal"
  /\ tx' = [tx EXCEPT ![s].deal = deals[Job(s).deal], ![s].at = "decision_for"]
  /\ UNCHANGED <<tables, clock, told, history>>

\* ... and check_anti_replay reads three tables, a connection each.
DecisionFor(s) ==
  LET stored == decisions[Job(s).proposal.key] IN
  /\ tx[s].at = "decision_for"
  /\ \/ /\ stored = NoDecision
        /\ Goto(s, "seen_request")
        /\ UNCHANGED told
     \/ /\ stored # NoDecision
        /\ Return(s, IF stored.proposal = Job(s).proposal
                     THEN ToldDecision("idempotent_hit", stored.decision)
                     ELSE Told("conflict"))
  /\ UNCHANGED <<tables, clock, history>>

SeenRequest(s) ==
  /\ tx[s].at = "seen_request"
  /\ IF Job(s).request \in seen_requests
     THEN Return(s, Told("replay"))
     ELSE Goto(s, "nonce_owner") /\ UNCHANGED told
  /\ UNCHANGED <<tables, clock, history>>

\* A pass lets the engine decide; the second gate, after a lost claim, takes
\* whatever verdict it gets.
NonceOwner(s) ==
  LET r == Record(s)
      decision == Evaluate(PolicyInput(Job(s).proposal, Mandate[r],
                    tx[s].status, tx[s].deal, tx[s].now, NoContent))
  IN  /\ tx[s].at = "nonce_owner"
      /\ IF nonce_owners[Mandate[r].nonce] \notin {NoRecord, r}
         THEN Return(s, Told("replay"))
         ELSE IF tx[s].again
         THEN Return(s, Told("pass"))
         ELSE /\ tx' = [tx EXCEPT ![s].decision = decision,
                          ![s].at = "read_deal"]
              /\ UNCHANGED told
      /\ UNCHANGED <<tables, clock, history>>

-----------------------------------------------------------------------------
\* The four commits open their transaction with a read of the deal.
EventOf(s) ==
  IF Job(s).kind = "proposal"
  THEN PlannedEvent(Job(s).proposal, tx[s].decision)
  ELSE Job(s).event

ReadDeal(s) ==
  LET kind == Job(s).kind
      deal == deals[Job(s).deal]
  IN  /\ tx[s].at = "read_deal"
      /\ IF kind = "proposal" /\ Stale(deal, EventOf(s))
         THEN Return(s, ToldDecision("stale_state", tx[s].decision))
         ELSE /\ tx' = [tx EXCEPT ![s].deal = deal,
                          ![s].at = CASE kind = "proposal" -> "claim"
                                      [] kind = "decision" -> "read_approval"
                                      [] OTHER -> "read_command"]
              /\ UNCHANGED told
      /\ UNCHANGED <<tables, clock, history>>

ReadApproval(s) ==
  LET approval == approvals[Job(s).request] IN
  /\ tx[s].at = "read_approval"
  /\ CASE approval = NoApproval -> Return(s, Told("approval_not_found"))
       [] approval # NoApproval /\ approval.status # "pending" ->
            Return(s, Told("already_applied"))
       [] OTHER -> /\ tx' = [tx EXCEPT ![s].approval = approval,
                               ![s].at = "read_command"]
                   /\ UNCHANGED told
  /\ UNCHANGED <<tables, clock, history>>

\* The early look for the command answers sequential retries; a boundary event
\* is then checked against the deal as it was read.
ReadCommand(s) ==
  /\ tx[s].at = "read_command"
  /\ CASE Job(s).command \in seen_commands -> Return(s, Told("already_applied"))
       [] /\ Job(s).command \notin seen_commands
          /\ Job(s).kind = "event"
          /\ Stale(tx[s].deal, EventOf(s)) -> Return(s, Told("stale_state"))
       [] OTHER ->
            /\ Goto(s, IF \/ Job(s).kind = "revocation"
                          \/ Job(s).kind = "decision"
                             /\ Job(s).operation = "granted"
                       THEN "read_revocations" ELSE "claim")
            /\ UNCHANGED told
  /\ UNCHANGED <<tables, clock, history>>

\* A grant rechecks the mandate; a second revocation changes nothing.
ReadRevocations(s) ==
  /\ tx[s].at = "read_revocations"
  /\ IF /\ Job(s).kind = "revocation"
        /\ \E v \in revocations : v.record = Record(s)
     THEN Return(s, Told("already_applied"))
     ELSE /\ tx' = [tx EXCEPT ![s].status = StatusNow(s), ![s].at = "claim"]
          /\ UNCHANGED told
  /\ UNCHANGED <<tables, clock, history>>

-----------------------------------------------------------------------------
\* The next claim.  It waits while another session holds the key.  A lost
\* claim leaves the `with' block by a return, which commits what was claimed
\* before it; the application then asks the gate again.
Claim(s) ==
  LET claims == ClaimsOf(Job(s))
      claim == claims[tx[s].claimed + 1]
  IN  /\ tx[s].at = "claim"
      /\ \/ /\ Inserted(s, claim) = "lost"
            /\ CommitClaims(s)
            /\ IF Job(s).kind = "proposal"
               THEN /\ tx' = [tx EXCEPT ![s].claimed = 0, ![s].again = TRUE,
                                ![s].at = "decision_for"]
                    /\ UNCHANGED told
               ELSE Return(s, Told("already_applied"))
         \/ /\ Inserted(s, claim) = "won"
            /\ tx' = [tx EXCEPT ![s].claimed = @ + 1,
                        ![s].at = IF tx[s].claimed + 1 = Len(claims)
                                  THEN "chain_head" ELSE "claim"]
            /\ UNCHANGED <<decisions, seen_requests, nonce_owners,
                           seen_commands, told>>
      /\ UNCHANGED <<deals, rows, approvals, revocations, clock, history>>

\* _chain_head: the row with the highest number.
LastRow(d) ==
  IF rows[d] = {} THEN Genesis
  ELSE RowId(CHOOSE row \in rows[d] : \A other \in rows[d] :
                                        other.seq <= row.seq)

ChainHead(s) ==
  /\ tx[s].at = "chain_head"
  /\ tx' = [tx EXCEPT ![s].head = LastRow(Job(s).deal), ![s].at = "write"]
  /\ UNCHANGED <<tables, clock, told, history>>

\* The plan, from the deal, approval and status as they were read.
Plan(s) ==
  LET job == Job(s)
      deal == tx[s].deal
  IN  CASE job.kind = "proposal" ->
             PlanCommitRequest(deal, job.request, job.proposal, Record(s),
                               tx[s].decision)
        [] job.kind = "event" ->
             PlanCommitTransition(deal, job.command, job.event, FALSE)
        [] job.kind = "decision" ->
             PlanCommitApproval(deal, job.request, tx[s].approval,
                                job.operation, tx[s].status = "active")
        [] job.kind = "revocation" ->
             [ deal |-> deal,
               events |-> <<RevocationEntry([record |-> Record(s),
                                             revoked_at |-> tx[s].now])>> ]

\* The identity of a call's effects: its key or its command.
CauseOf(job) == IF job.kind = "proposal" THEN job.proposal.key ELSE job.command

RowsOf(s, entries) ==
  {[ seq |-> tx[s].head.seq + i, by |-> s, entry |-> entries[i],
     cause |-> CauseOf(Job(s)),
     prev |-> IF i = 1 THEN tx[s].head
              ELSE [seq |-> tx[s].head.seq + i - 1, by |-> s] ]
   : i \in DOMAIN entries}

\* A faulty variant of WritesDeal: a held proposal leaves the row alone.
WritesDealIfMoved(s) ==
  CASE Job(s).kind = "proposal" -> EventOf(s) # NoEvent
    [] Job(s).kind = "revocation" -> FALSE
    [] OTHER -> TRUE

\* A proposal that neither moves nor holds leaves the deal's row alone.
WritesDeal(s) ==
  CASE Job(s).kind = "proposal" ->
         \/ EventOf(s) # NoEvent
         \/ tx[s].decision.outcome = "needs_approval"
    [] Job(s).kind = "revocation" -> FALSE
    [] OTHER -> TRUE

WritesApproval(s) ==
  \/ Job(s).kind = "proposal" /\ tx[s].decision.outcome = "needs_approval"
  \/ Job(s).kind = "decision"

RevocationsAfter(s) ==
  IF Job(s).kind = "revocation"
  THEN revocations \cup {[record |-> Record(s), revoked_at |-> tx[s].now]}
  ELSE revocations

\* The calls that go on with the deal's row as they have read it.
HaveRead(d) ==
  {s \in Session : Job(s).kind # "none" /\ Job(s).deal = d
                    /\ tx[s].at \in { "read_approval", "read_command",
                         "read_revocations", "claim", "chain_head", "write" }}

\* A faulty variant of SeqTaken: no unique (deal_id, sequence_number).
SeqNeverTaken(s) == FALSE

SeqTaken(s) == \E row \in rows[Job(s).deal] : row.seq = tx[s].head.seq + 1

\* A faulty variant of RollBack: the failed call keeps its claims.
RollBackButClaims(s) ==
  /\ CommitClaims(s)
  /\ UNCHANGED <<deals, rows, approvals, revocations>>

RollBack(s) == UNCHANGED tables

Write(s) ==
  LET d == Job(s).deal
      plan == Plan(s)
  IN  /\ tx[s].at = "write"
      /\ \/ /\ SeqTaken(s)
            /\ RollBack(s)
            /\ Return(s, Told("error"))
            /\ UNCHANGED history
         \/ /\ ~ SeqTaken(s)
            /\ rows' = [rows EXCEPT ![d] = @ \cup RowsOf(s, plan.events)]
            /\ deals' = IF WritesDeal(s) THEN [deals EXCEPT ![d] = plan.deal]
                        ELSE deals
            /\ outdated' = IF WritesDeal(s) THEN outdated \cup (HaveRead(d) \ {s})
                           ELSE outdated
            /\ overtaken' = IF WritesDeal(s) /\ s \in outdated
                            THEN overtaken \cup {d} ELSE overtaken
            /\ approvals' =
                 IF WritesApproval(s)
                 THEN [approvals EXCEPT ![Job(s).request] = plan.approval]
                 ELSE approvals
            /\ revocations' = RevocationsAfter(s)
            /\ CommitClaims(s)
            /\ Return(s, IF Job(s).kind = "proposal"
                         THEN ToldDecision("decided", tx[s].decision)
                         ELSE Told("committed"))
      /\ UNCHANGED clock

\* The process or its connection dies: the database rolls back.
Crash(s) ==
  /\ tx[s].at \notin {"idle", "done"}
  /\ Return(s, Told("crashed"))
  /\ UNCHANGED <<tables, clock, history>>

Step(s) ==
  \/ BuildClaim(s) \/ GetDeal(s)
  \/ DecisionFor(s) \/ SeenRequest(s) \/ NonceOwner(s)
  \/ ReadDeal(s) \/ ReadApproval(s) \/ ReadCommand(s) \/ ReadRevocations(s)
  \/ Claim(s) \/ ChainHead(s) \/ Write(s)

AllDone == (\A s \in Session : tx[s].at = "done") /\ UNCHANGED vars

Next ==
  \/ \E s \in Session :
       \/ \E job \in Jobs : Call(s, job)
       \/ Step(s)
       \/ Crash(s)
  \/ AllDone

\* A handler runs to its end without waiting for anything but the database,
\* which lets a waiting insert go on when the transaction before it ends.
Fairness == \A s \in Session : WF_vars(Step(s))

Spec == Init /\ [][Next]_vars /\ Fairness
-----------------------------------------------------------------------------
Places ==
  { "idle", "build_claim", "get_deal", "decision_for", "seen_request",
    "nonce_owner", "read_deal", "read_approval", "read_command",
    "read_revocations", "claim", "chain_head", "write", "done" }

\* Every row has its table's shape and no call claims more than its keys.
TypeOK ==
  /\ deals \in [DealId -> Deal]
  /\ \A d \in DealId : \A row \in rows[d] : row.seq \in Nat
  /\ approvals \in [RequestId -> Approval \cup {NoApproval}]
  /\ revocations \subseteq [record : RecordId, revoked_at : Nat]
  /\ nonce_owners \in [Nonces -> RecordId \cup {NoRecord}]
  /\ seen_requests \subseteq RequestId
  /\ DOMAIN decisions = Key
  /\ seen_commands \subseteq CommandId
  /\ \A s \in Session :
       /\ tx[s].at \in Places
       /\ tx[s].at # "idle" => Job(s) \in Jobs
       /\ tx[s].at = "claim" => tx[s].claimed < Len(ClaimsOf(Job(s)))

\* However the transactions interleave and whichever of them crash, the rows
\* of a deal are one chain: numbered without a gap or a fork, each carrying
\* the hash of the row before it.
ChainIntact ==
  \A d \in DealId :
    /\ {row.seq : row \in rows[d]} = 1..Cardinality(rows[d])
    /\ \A row \in rows[d] :
         \/ row.seq = 1 /\ row.prev = Genesis
         \/ \E before \in rows[d] :
              before.seq = row.seq - 1 /\ row.prev = RowId(before)

AllRows == UNION {rows[d] : d \in DealId}

\* One idempotency key and one command have the effects of one call, also when
\* the same message is handled by several calls at the same time.
AppliedOnce ==
  \A one, other \in AllRows :
    one.cause = other.cause /\ one.cause # "before" => one.by = other.by

\* A command counts as seen only with its entries in a chain: a call that was
\* refused, failed or crashed can be retried under the same command.
CommandsOnRecord ==
  \A c \in seen_commands : \E row \in AllRows : row.cause = c

\* Two records with one nonce never both act, however their first requests
\* interleave.
NonceSingleOwner ==
  LET Acted(d) == \E row \in rows[d] :
        row.by # "before" /\ row.entry.type = "policy_decision"
  IN  \A d, e \in DealId :
        Acted(d) /\ Acted(e) /\ Mandate[Link[d]].nonce = Mandate[Link[e]].nonce
          => Link[d] = Link[e]

\* The entries of a deal's rows, in the order of their numbers.
ChainOf(stored) ==
  [i \in 1..Cardinality(stored) |->
     (CHOOSE row \in stored : row.seq = i).entry]

\* A deal's row is what its chain amounts to, whatever ran beside the calls
\* that wrote it, unless one of them wrote the row from a copy that another
\* call had outdated: nothing but that (an UPDATE without a guard) makes the
\* two drift apart.
RowsAgreeUnlessOvertaken ==
  \A d \in DealId \ overtaken : deals[d] = Replay(ChainOf(rows[d]))

\* After a lost claim the second gate always has a verdict to give: a pass
\* would leave the boundary without a decision, which it asserts it has.
SecondGateAnswers == \A s \in Session : told[s].result # "pass"

\* Every call returns: no two calls wait for each other's keys for ever.
Answered == \A s \in Session : tx[s].at # "idle" ~> tx[s].at = "done"

-----------------------------------------------------------------------------
\* What the documents promise and concurrent calls break.

\* ADR-0010: an approval is consumed exactly once.
SingleUse ==
  \A q \in RequestId :
    Cardinality({ row \in AllRows :
                    /\ row.entry.type = "approval"
                    /\ row.entry.operation # "required"
                    /\ row.entry.cause = q }) <= 1

\* services.process_request: a pass always appends the policy decision.  A
\* caller that is told a decision finds that decision in the chain: also when
\* the deal has moved since it was read, and when a commit that lost its last
\* claim has already stored the decision under the first one.
AnswersOnRecord ==
  \A s \in Session :
    told[s].result \in {"decided", "stale_state", "idempotent_hit"}
    /\ Job(s).kind = "proposal" =>
      \E row \in AllRows :
        /\ row.entry.type = "policy_decision"
        /\ row.entry.proposal = Job(s).proposal
        /\ row.entry.decision = told[s].decision
=============================================================================
