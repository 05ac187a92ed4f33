------------------------ MODULE PostgresLedgerProofs ------------------------
(***************************************************************************)
(* Proofs about PostgresLedger, for any sessions, jobs and starting        *)
(* databases: the chains stay whole, and keys, commands and nonces have    *)
(* the effects of one call, however the transactions interleave.           *)
(***************************************************************************)
EXTENDS PostgresLedger, CommitPlansProofs, FiniteSetTheorems,
        FunctionTheorems

-----------------------------------------------------------------------------
(* One call: what it is for, and how far it has come.                      *)

\* What a job consists of, by its kind.
JobOK(job) ==
  /\ job.kind \in {"proposal", "event", "decision", "revocation"}
  /\ job.deal \in DealId
  /\ job.kind \in {"proposal", "decision"} => job.request \in RequestId
  /\ job.kind = "proposal" => /\ job.proposal.deal \in DealId
                              /\ job.proposal.key \in Key
                              /\ job.proposal.amount \in Amount
  /\ job.kind # "proposal" => job.command \in CommandId
  /\ job.kind = "event" => job.event \in DealEvent

\* Every call that is made has the fields of its kind.
LEMMA JobShape == \A job \in Jobs : JobOK(job)
<1> SUFFICES ASSUME NEW job \in Jobs PROVE JobOK(job)
  OBVIOUS
<1>1. job \in JobType
  BY PostgresAssumption
<1>2. CASE job \in [ kind : {"proposal"}, deal : DealId, request : RequestId,
                     proposal : [ deal : DealId, key : Key, action : STRING,
                                  amount : Amount,
                                  disclosure_fields : SUBSET STRING,
                                  text : BOOLEAN ] ]
  BY <1>2 DEF JobOK
<1>3. CASE job \in [ kind : {"event"}, deal : DealId, command : CommandId,
                     event : DealEvent ]
  BY <1>3 DEF JobOK
<1>4. CASE job \in [ kind : {"decision"}, deal : DealId, command : CommandId,
                     request : RequestId, operation : {"granted", "denied"} ]
  BY <1>4 DEF JobOK
<1>5. CASE job \in [kind : {"revocation"}, deal : DealId, command : CommandId]
  BY <1>5 DEF JobOK
<1> QED
  BY <1>1, <1>2, <1>3, <1>4, <1>5 DEF JobType

Status == {"active", "revoked", "expired"}
By == Session \cup {"before", "genesis"}
NoJob == [kind |-> "none"]

CallType ==
  [ at : Places, job : Jobs \cup {NoJob}, now : Nat, status : Status,
    deal : Deal, approval : Approval \cup {NoApproval},
    decision : Decision \cup {NoDecision}, claimed : Nat,
    head : [seq : Nat, by : By], again : BOOLEAN ]

Reading == {"build_claim", "get_deal", "decision_for", "seen_request",
            "nonce_owner"}
Committing == {"claim", "chain_head", "write"}

\* The event a call is about to record, and the keys it has to claim.
EventFor(c) ==
  IF c.job.kind = "proposal" THEN PlannedEvent(c.job.proposal, c.decision)
  ELSE c.job.event
ClaimsNeeded(job) == IF job.kind = "proposal" THEN 3 ELSE 1

\* A call is at a place of its own kind, with what that place needs: a
\* permitted decision, the approval to be decided, a transition that exists in
\* the deal as it was read, and the keys claimed so far.
Staged(c) ==
  LET kind == c.job.kind IN
  /\ c.at \in Reading => kind = "proposal"
  /\ c.at = "read_approval" => kind = "decision"
  /\ c.at = "read_command" => kind # "proposal"
  /\ c.at = "read_revocations" => kind \in {"decision", "revocation"}
Equipped(c) ==
  LET kind == c.job.kind IN
  /\ kind = "decision"
     /\ c.at \in {"read_command", "read_revocations"} \cup Committing =>
       c.approval \in Approval
  /\ kind = "proposal" /\ c.at \in {"read_deal"} \cup Committing =>
       /\ c.decision \in Decision
       /\ c.decision.outcome # "deny" => c.job.proposal.action \in ActionToken
  /\ kind \in {"proposal", "event"} /\ c.at \in Committing =>
       ~ Stale(c.deal, EventFor(c))
Claiming(c) ==
  /\ c.at \notin Committing => c.claimed = 0
  /\ c.at = "claim" => c.claimed < ClaimsNeeded(c.job)
  /\ c.at \in {"chain_head", "write"} => c.claimed = ClaimsNeeded(c.job)

CallOK(c) ==
  /\ c \in CallType
  /\ c.at # "idle" => c.job \in Jobs
  /\ Staged(c)
  /\ Equipped(c)
  /\ Claiming(c)

\* The tables, the clock and the calls have their shapes.
Rows == \A d \in DealId : \A row \in rows[d] : row.seq \in Nat /\ row.by \in By
Tables ==
  /\ deals \in [DealId -> Deal]
  /\ DOMAIN rows = DealId
  /\ Rows
  /\ approvals \in [RequestId -> Approval \cup {NoApproval}]
  /\ revocations \subseteq [record : RecordId, revoked_at : Nat]
  /\ nonce_owners \in [Nonces -> RecordId \cup {NoRecord}]
  /\ seen_requests \subseteq RequestId
  /\ decisions = [k \in Key |-> decisions[k]]
  /\ seen_commands \subseteq CommandId
  /\ clock \in Nat
Calls ==
  /\ DOMAIN tx = Session
  /\ \A s \in Session : CallOK(tx[s])
Shape == Tables /\ Calls /\ DOMAIN told = Session

\* A session without a call is of its type.
LEMMA IdleType == CallOK(Idle)
BY DealRowTypes
   DEF CallOK, CallType, Staged, Equipped, Claiming, Idle, NoJob, Places,
       Status, Reading, Committing, Genesis, By, ClaimsNeeded

\* The call returns: it keeps its job and nothing else.
Finished(job) == [Idle EXCEPT !.at = "done", !.job = job]

\* What is left of a call that is over.
LEMMA FinishedIs ==
  \A job : /\ Finished(job).at = "done" /\ Finished(job).job = job
           /\ Finished(job).claimed = 0 /\ Finished(job).again = FALSE
BY DEF Finished, Idle

\* A call that is over is of its type.
LEMMA FinishedType == \A job \in Jobs : CallOK(Finished(job))
<1> SUFFICES ASSUME NEW job \in Jobs PROVE CallOK(Finished(job))
  OBVIOUS
<1> DEFINE c == Finished(job)
<1>1. /\ c \in CallType /\ c.at = "done" /\ c.job = job /\ c.claimed = 0
  BY DealRowTypes DEF CallType, Idle, Finished, NoJob, Places, Status, Genesis, By
<1> HIDE DEF c
<1>2. Staged(c) /\ Claiming(c)
  BY <1>1 DEF Staged, Claiming, Reading, Committing
<1>3. Equipped(c)
  BY <1>1 DEF Equipped, Committing
<1> QED
  BY <1>1, <1>2, <1>3 DEF CallOK, c


-----------------------------------------------------------------------------
(* What a step does.                                                       *)

\* The call of s goes on, the others are left alone.
Only(s) ==
  /\ DOMAIN tx' = Session /\ DOMAIN told' = Session
  /\ CallOK(tx'[s])
  /\ \A t \in Session \ {s} : tx'[t] = tx[t] /\ told'[t] = told[t]

\* A call comes in.
Starts(s) ==
  /\ Only(s)
  /\ tx[s].at = "idle" /\ tx'[s].at \in {"build_claim", "read_deal"}
  /\ tx'[s].claimed = tx[s].claimed /\ tx'[s].again = tx[s].again
  /\ told'[s] = told[s]
  /\ UNCHANGED tables /\ clock' \in Nat

\* It reads: the decision under its key is not there, the end of the chain is
\* what it will build on.
Reads(s) ==
  /\ Only(s)
  /\ tx[s].at \notin {"idle", "done"} /\ tx'[s].at \notin {"idle", "done"}
  /\ tx'[s].job = tx[s].job
  /\ tx'[s].claimed = tx[s].claimed /\ tx'[s].again = tx[s].again
  /\ tx[s].at = "decision_for" =>
       decisions[Job(s).proposal.key] = NoDecision
  /\ tx'[s].at = "write" => tx'[s].head = LastRow(Job(s).deal)
  /\ told'[s] = told[s]
  /\ UNCHANGED <<tables, clock>>

\* It wins or loses its next key.
NextClaim(s) == ClaimsOf(Job(s))[tx[s].claimed + 1]
Wins(s) ==
  /\ Only(s)
  /\ tx[s].at = "claim" /\ tx'[s].at \in {"claim", "chain_head"}
  /\ Inserted(s, NextClaim(s)) = "won"
  /\ tx'[s].job = tx[s].job
  /\ tx'[s].claimed = tx[s].claimed + 1 /\ tx'[s].again = tx[s].again
  /\ told'[s] = told[s]
  /\ UNCHANGED <<tables, clock>>
Loses(s) ==
  /\ Only(s)
  /\ tx[s].at = "claim" /\ Job(s).kind = "proposal"
  /\ Inserted(s, NextClaim(s)) = "lost"
  /\ CommitClaims(s)
  /\ tx'[s].job = tx[s].job
  /\ tx'[s].at = "decision_for"
  /\ tx'[s].claimed = 0 /\ tx'[s].again
  /\ told'[s] = told[s]
  /\ UNCHANGED <<deals, rows, approvals, revocations, clock>>

\* It ends without an effect, or with all of them.
Ends(s) ==
  /\ Only(s)
  /\ tx[s].at \notin {"idle", "done"}
  /\ tx'[s] = Finished(Job(s))
Fails(s) ==
  /\ Ends(s)
  /\ told'[s].result = "pass" => tx[s].at = "nonce_owner" /\ tx[s].again
  /\ UNCHANGED <<tables, clock>>
Commits(s) ==
  LET d == Job(s).deal
      plan == Plan(s)
  IN  /\ Ends(s)
      /\ tx[s].at = "write"
      /\ told'[s].result # "pass"
      /\ ~ SeqTaken(s)
      /\ rows' = [rows EXCEPT ![d] = @ \cup RowsOf(s, plan.events)]
      /\ deals' = IF WritesDeal(s) THEN [deals EXCEPT ![d] = plan.deal]
                  ELSE deals
      /\ approvals' = IF WritesApproval(s)
                      THEN [approvals EXCEPT ![Job(s).request] = plan.approval]
                      ELSE approvals
      /\ revocations' = RevocationsAfter(s)
      /\ CommitClaims(s)
      /\ UNCHANGED clock

Effect ==
  \/ \E s \in Session : \/ Starts(s) \/ Reads(s) \/ Wins(s) \/ Loses(s)
                        \/ Fails(s) \/ Commits(s)
  \/ UNCHANGED vars

\* The call that goes on has the shape of one.
LEMMA OnlyThis ==
  ASSUME Shape, NEW s \in Session, NEW c, CallOK(c),
         tx' = [tx EXCEPT ![s] = c],
         told' = told \/ \E answer : told' = [told EXCEPT ![s] = answer]
  PROVE  Only(s) /\ tx'[s] = c
BY DEF Shape, Calls, Only

\* A call that returns keeps its job.
LEMMA ReturnEnds ==
  ASSUME Shape, NEW s \in Session, NEW answer,
         tx[s].at \notin {"idle", "done"}, Return(s, answer)
  PROVE  Ends(s) /\ told'[s] = answer
<1>1. CallOK(tx[s]) /\ Job(s) \in Jobs
  BY DEF Shape, Calls, CallOK, Job
<1>2. CallOK(Finished(Job(s)))
  BY <1>1, FinishedType
<1>3. tx' = [tx EXCEPT ![s] = Finished(Job(s))]
  BY DEF Return, Finished
<1>4. told' = [told EXCEPT ![s] = answer]
  BY DEF Return
<1>5. Only(s) /\ tx'[s] = Finished(Job(s))
  BY <1>2, <1>3, <1>4, OnlyThis
<1> QED
  BY <1>4, <1>5 DEF Ends, Shape

\* The status of a record.
LEMMA StatusNowType == \A s \in Session : StatusNow(s) \in Status
BY DEF StatusNow, ResolveStatus, Status

\* Nothing that is stored under a key is the mark of an unused one.
LEMMA StoredDecision ==
  \A p, decision : [proposal |-> p, decision |-> decision] # NoDecision
BY DEF NoDecision

\* A revocation's or event's only key.
LEMMA CommandClaim ==
  ASSUME NEW s \in Session, CallOK(tx[s]), tx[s].at = "claim",
         Job(s).kind # "proposal"
  PROVE  tx[s].claimed = 0 /\ Made(s) = {}
<1>1. tx[s].claimed = 0
  BY DEF CallOK, CallType, Claiming, ClaimsNeeded, Job
<1> QED
  BY <1>1 DEF Made


-----------------------------------------------------------------------------
(* The steps, one by one.                                                  *)

\* A call starts,
LEMMA CallStep ==
  ASSUME Shape, NEW s \in Session, NEW job \in Jobs, Call(s, job)
  PROVE  Starts(s)
<1> DEFINE place == IF job.kind = "proposal" THEN "build_claim" ELSE "read_deal"
           n == [tx[s] EXCEPT !.job = job, !.now = clock, !.at = place]
<1>1. CallOK(tx[s]) /\ clock \in Nat /\ DOMAIN tx = Session
  BY DEF Shape, Calls, Tables
<1>2. tx[s].at = "idle" /\ tx' = [tx EXCEPT ![s] = n]
  BY <1>1 DEF Call
<1>3. place \in {"build_claim", "read_deal"} /\ place \in Places
  BY DEF Places
<1>4. /\ n \in CallType /\ n.at = place /\ n.job = job
      /\ n.claimed = tx[s].claimed /\ n.again = tx[s].again
  <2> HIDE DEF place
  <2> QED
    BY <1>1, <1>3 DEF CallOK, CallType
<1>5. JobOK(job)
  BY JobShape
<1> HIDE DEF n
<1>6. Staged(n)
  BY <1>4 DEF Staged, Reading
<1>7. n.claimed = 0 /\ Claiming(n)
  BY <1>1, <1>2, <1>4 DEF CallOK, Claiming, Committing
<1>8. Equipped(n)
  BY <1>4, <1>5 DEF Equipped, Committing, JobOK
<1>9. Only(s) /\ tx'[s] = n
  <2>1. CallOK(n) /\ told' = told
    BY <1>4, <1>6, <1>7, <1>8 DEF CallOK, Call
  <2> QED
    BY <1>2, <2>1, OnlyThis
<1> QED
  BY <1>1, <1>2, <1>3, <1>4, <1>9 DEF Starts, Call


\* A call under way has a job.
LEMMA UnderWay ==
  ASSUME Shape, NEW s \in Session
  PROVE  /\ CallOK(tx[s]) /\ tx[s] \in CallType /\ DOMAIN tx = Session
         /\ tx[s].at # "idle" => Job(s) \in Jobs /\ JobOK(Job(s))
BY JobShape DEF Shape, Calls, CallOK, Job

\* A statement that only reads.
LEMMA ReadingStep ==
  ASSUME Shape, NEW s \in Session, NEW n \in CallType,
         tx[s].at \notin {"idle", "done"}, n.at \notin {"idle", "done"},
         n.job = tx[s].job, n.claimed = tx[s].claimed, n.again = tx[s].again,
         Staged(n), Equipped(n), Claiming(n),
         tx[s].at = "decision_for" =>
           decisions[Job(s).proposal.key] = NoDecision,
         n.at = "write" => n.head = LastRow(Job(s).deal),
         tx' = [tx EXCEPT ![s] = n], UNCHANGED <<tables, told, clock>>
  PROVE  Reads(s)
<1>1. CallOK(n)
  BY UnderWay DEF CallOK, Job
<1>2. Only(s) /\ tx'[s] = n
  BY <1>1, OnlyThis
<1> QED
  BY <1>2 DEF Reads

\* A call that ends without an effect.
LEMMA FailingStep ==
  ASSUME Shape, NEW s \in Session, NEW answer, answer.result # "pass",
         tx[s].at \notin {"idle", "done"}, Return(s, answer),
         UNCHANGED <<tables, clock>>
  PROVE  Fails(s)
BY ReturnEnds DEF Fails

\* the boundary's claim is a read,
LEMMA BuildClaimStep ==
  ASSUME Shape, NEW s \in Session, BuildClaim(s)
  PROVE  Reads(s)
<1> DEFINE n == [tx[s] EXCEPT !.status = StatusNow(s), !.at = "get_deal"]
<1>1. CallOK(tx[s]) /\ tx[s] \in CallType /\ tx[s].at = "build_claim"
  BY UnderWay DEF BuildClaim
<1>2. tx' = [tx EXCEPT ![s] = n] /\ UNCHANGED <<tables, told, clock>>
  BY UnderWay DEF BuildClaim
<1>3. /\ n \in CallType /\ n.at = "get_deal" /\ n.job = tx[s].job
      /\ n.claimed = tx[s].claimed /\ n.again = tx[s].again
  BY <1>1, StatusNowType DEF CallType, Places
<1> HIDE DEF n
<1>4. Staged(n) /\ Equipped(n) /\ Claiming(n)
  BY <1>1, <1>3 DEF CallOK, Staged, Equipped, Claiming, Reading, Committing
<1> QED
  BY <1>1, <1>2, <1>3, <1>4, ReadingStep

\* so is its read of the deal,
LEMMA GetDealStep ==
  ASSUME Shape, NEW s \in Session, GetDeal(s)
  PROVE  Reads(s)
<1> DEFINE n == [tx[s] EXCEPT !.deal = deals[Job(s).deal],
                   !.at = "decision_for"]
<1>1. CallOK(tx[s]) /\ tx[s] \in CallType /\ tx[s].at = "get_deal"
  BY UnderWay DEF GetDeal
<1>2. tx' = [tx EXCEPT ![s] = n] /\ UNCHANGED <<tables, told, clock>>
  BY UnderWay DEF GetDeal
<1>3. deals[Job(s).deal] \in Deal
  BY <1>1, UnderWay DEF JobOK, Shape, Tables
<1>4. /\ n \in CallType /\ n.at = "decision_for" /\ n.job = tx[s].job
      /\ n.claimed = tx[s].claimed /\ n.again = tx[s].again
  BY <1>1, <1>3 DEF CallType, Places
<1> HIDE DEF n
<1>5. Staged(n) /\ Equipped(n) /\ Claiming(n)
  BY <1>1, <1>4 DEF CallOK, Staged, Equipped, Claiming, Reading, Committing
<1> QED
  BY <1>1, <1>2, <1>4, <1>5, ReadingStep

\* the gate's look at its tables reads, or ends the call,
LEMMA DecisionForStep ==
  ASSUME Shape, NEW s \in Session, DecisionFor(s)
  PROVE  Reads(s) \/ Fails(s)
<1> DEFINE n == [tx[s] EXCEPT !.at = "seen_request"]
           stored == decisions[Job(s).proposal.key]
<1>1. /\ CallOK(tx[s]) /\ tx[s] \in CallType /\ tx[s].at = "decision_for"
      /\ UNCHANGED <<tables, clock>>
  BY UnderWay DEF DecisionFor
<1>2. CASE stored = NoDecision /\ Goto(s, "seen_request") /\ told' = told
  <2>1. tx' = [tx EXCEPT ![s] = n]
    BY <1>2, UnderWay DEF Goto
  <2>2. /\ n \in CallType /\ n.at = "seen_request" /\ n.job = tx[s].job
        /\ n.claimed = tx[s].claimed /\ n.again = tx[s].again
    BY <1>1 DEF CallType, Places
  <2> HIDE DEF n
  <2>3. Staged(n) /\ Equipped(n) /\ Claiming(n)
    BY <1>1, <2>2 DEF CallOK, Staged, Equipped, Claiming, Reading, Committing
  <2> QED
    BY <1>1, <1>2, <2>1, <2>2, <2>3, ReadingStep
<1>3. ASSUME NEW answer, answer.result # "pass", Return(s, answer)
      PROVE  Fails(s)
  BY <1>1, <1>3, FailingStep
<1>4. /\ ToldDecision("idempotent_hit", stored.decision).result # "pass"
      /\ Told("conflict").result # "pass"
  BY DEF ToldDecision, Told
<1>5. \/ stored = NoDecision /\ Goto(s, "seen_request") /\ told' = told
      \/ Return(s, ToldDecision("idempotent_hit", stored.decision))
      \/ Return(s, Told("conflict"))
  BY DEF DecisionFor
<1> QED
  <2> HIDE DEF stored
  <2> QED
    BY <1>2, <1>3, <1>4, <1>5


\* and so does its look at the request,
LEMMA SeenRequestStep ==
  ASSUME Shape, NEW s \in Session, SeenRequest(s)
  PROVE  Reads(s) \/ Fails(s)
<1> DEFINE n == [tx[s] EXCEPT !.at = "nonce_owner"]
<1>1. /\ CallOK(tx[s]) /\ tx[s] \in CallType /\ tx[s].at = "seen_request"
      /\ UNCHANGED <<tables, clock>>
  BY UnderWay DEF SeenRequest
<1>2. CASE Return(s, Told("replay"))
  BY <1>1, <1>2, FailingStep DEF Told
<1>3. CASE Goto(s, "nonce_owner") /\ told' = told
  <2>1. tx' = [tx EXCEPT ![s] = n]
    BY <1>3, UnderWay DEF Goto
  <2>2. /\ n \in CallType /\ n.at = "nonce_owner" /\ n.job = tx[s].job
        /\ n.claimed = tx[s].claimed /\ n.again = tx[s].again
    BY <1>1 DEF CallType, Places
  <2> HIDE DEF n
  <2>3. Staged(n) /\ Equipped(n) /\ Claiming(n)
    BY <1>1, <2>2 DEF CallOK, Staged, Equipped, Claiming, Reading, Committing
  <2> QED
    BY <1>1, <1>3, <2>1, <2>2, <2>3, ReadingStep
<1> QED
  BY <1>2, <1>3 DEF SeenRequest

\* The engine decides: what it does not deny is an action of the vocabulary.
LEMMA NonceOwnerStep ==
  ASSUME Shape, NEW s \in Session, NonceOwner(s)
  PROVE  Reads(s) \/ Fails(s)
<1> DEFINE input == PolicyInput(Job(s).proposal, Mandate[Record(s)],
                      tx[s].status, tx[s].deal, tx[s].now, NoContent)
           decision == Evaluate(input)
           n == [tx[s] EXCEPT !.decision = decision, !.at = "read_deal"]
<1>1. /\ CallOK(tx[s]) /\ tx[s] \in CallType /\ tx[s].at = "nonce_owner"
      /\ UNCHANGED <<tables, clock>>
  BY UnderWay DEF NonceOwner
<1>2. CASE Return(s, Told("replay"))
  BY <1>1, <1>2, FailingStep DEF Told
<1>3. CASE tx[s].again /\ Return(s, Told("pass"))
  <2>1. Ends(s)
    BY <1>1, <1>3, ReturnEnds
  <2> QED
    BY <1>1, <1>3, <2>1 DEF Fails
<1>4. CASE tx' = [tx EXCEPT ![s].decision = decision, ![s].at = "read_deal"]
           /\ told' = told
  <2>1. tx' = [tx EXCEPT ![s] = n]
    <3> HIDE DEF decision
    <3> QED
      BY <1>4, UnderWay
  <2>2. decision \in Decision
    BY EvaluateType
  <2>3. decision.outcome # "deny" => Job(s).proposal.action \in ActionToken
    <3>1. input.proposal.action = Job(s).proposal.action
      BY DEF PolicyInput
    <3> QED
      BY <3>1, EvaluatePermits
  <2> HIDE DEF decision
  <2>4. /\ n \in CallType /\ n.at = "read_deal" /\ n.job = tx[s].job
        /\ n.claimed = tx[s].claimed /\ n.again = tx[s].again
        /\ n.decision = decision
    BY <1>1, <2>2 DEF CallType, Places
  <2> HIDE DEF n
  <2>5. Staged(n) /\ Claiming(n)
    BY <1>1, <2>4 DEF CallOK, Staged, Claiming, Reading, Committing
  <2>6. Equipped(n)
    BY <1>1, <2>2, <2>3, <2>4 DEF CallOK, Staged, Equipped, Reading,
                                  Committing, Job
  <2> QED
    BY <1>1, <1>4, <2>1, <2>4, <2>5, <2>6, ReadingStep
<1>5. \/ Return(s, Told("replay"))
      \/ tx[s].again /\ Return(s, Told("pass"))
      \/ /\ tx' = [tx EXCEPT ![s].decision = decision, ![s].at = "read_deal"]
         /\ told' = told
  BY DEF NonceOwner
<1> QED
  BY <1>2, <1>3, <1>4, <1>5

\* A proposal goes on to its claims with a transition that its deal permits.
LEMMA ReadDealStep ==
  ASSUME Shape, NEW s \in Session, ReadDeal(s)
  PROVE  Reads(s) \/ Fails(s)
<1> DEFINE deal == deals[Job(s).deal]
           kind == Job(s).kind
           place == CASE kind = "proposal" -> "claim"
                      [] kind = "decision" -> "read_approval"
                      [] OTHER -> "read_command"
           n == [tx[s] EXCEPT !.deal = deal, !.at = place]
<1>1. /\ CallOK(tx[s]) /\ tx[s] \in CallType /\ tx[s].at = "read_deal"
      /\ UNCHANGED <<tables, clock>> /\ Job(s) = tx[s].job
  BY UnderWay DEF ReadDeal, Job
<1>2. CASE Return(s, ToldDecision("stale_state", tx[s].decision))
  BY <1>1, <1>2, FailingStep DEF ToldDecision
<1>3. CASE /\ ~ (kind = "proposal" /\ Stale(deal, EventOf(s)))
           /\ tx' = [tx EXCEPT ![s].deal = deal, ![s].at = place]
           /\ told' = told
  <2>1. tx' = [tx EXCEPT ![s] = n]
    BY <1>3, UnderWay
  <2>2. deal \in Deal /\ JobOK(Job(s))
    BY <1>1, UnderWay DEF JobOK, Shape, Tables
  <2>3. /\ place \in {"claim", "read_approval", "read_command"}
        /\ place = "claim" => kind = "proposal"
        /\ place = "read_approval" => kind = "decision"
        /\ place = "read_command" => kind \notin {"proposal", "decision"}
    OBVIOUS
  <2>4. kind = "proposal" => ~ Stale(deal, PlannedEvent(Job(s).proposal,
                                                        tx[s].decision))
    BY <1>3 DEF EventOf
  <2> HIDE DEF deal, place
  <2>5. /\ n \in CallType /\ n.at = place /\ n.job = tx[s].job
        /\ n.claimed = tx[s].claimed /\ n.again = tx[s].again
        /\ n.decision = tx[s].decision /\ n.deal = deal
    BY <1>1, <2>2, <2>3 DEF CallType, Places
  <2> HIDE DEF n
  <2>6. Staged(n)
    BY <1>1, <2>3, <2>5 DEF Staged, Reading
  <2>7. Claiming(n)
    BY <1>1, <2>3, <2>5 DEF CallOK, Claiming, Committing, ClaimsNeeded
  <2>8. Equipped(n)
    BY <1>1, <2>3, <2>4, <2>5 DEF CallOK, Equipped, Committing, EventFor
  <2>9. n.at \notin {"idle", "done", "write"}
    BY <2>3, <2>5
  <2> QED
    BY <1>1, <1>3, <2>1, <2>5, <2>6, <2>7, <2>8, <2>9, ReadingStep
<1> QED
  BY <1>2, <1>3 DEF ReadDeal


\* the read of an approval,
LEMMA ReadApprovalStep ==
  ASSUME Shape, NEW s \in Session, ReadApproval(s)
  PROVE  Reads(s) \/ Fails(s)
<1> DEFINE approval == approvals[Job(s).request]
           n == [tx[s] EXCEPT !.approval = approval, !.at = "read_command"]
<1>1. /\ CallOK(tx[s]) /\ tx[s] \in CallType /\ tx[s].at = "read_approval"
      /\ UNCHANGED <<tables, clock>> /\ Job(s) = tx[s].job
  BY UnderWay DEF ReadApproval, Job
<1>2. CASE \/ Return(s, Told("approval_not_found"))
           \/ Return(s, Told("already_applied"))
  BY <1>1, <1>2, FailingStep DEF Told
<1>3. CASE /\ approval # NoApproval
           /\ tx' = [tx EXCEPT ![s].approval = approval,
                       ![s].at = "read_command"]
           /\ told' = told
  <2>1. tx' = [tx EXCEPT ![s] = n]
    BY <1>3, UnderWay
  <2>2. Job(s).kind = "decision"
    BY <1>1 DEF CallOK, Staged
  <2>3. approval \in Approval
    BY <1>1, <1>3, <2>2, UnderWay DEF JobOK, Shape, Tables
  <2> HIDE DEF approval
  <2>4. /\ n \in CallType /\ n.at = "read_command" /\ n.job = tx[s].job
        /\ n.claimed = tx[s].claimed /\ n.again = tx[s].again
        /\ n.approval = approval
    BY <1>1, <2>3 DEF CallType, Places
  <2> HIDE DEF n
  <2>5. Staged(n) /\ Claiming(n)
    BY <1>1, <2>2, <2>4 DEF CallOK, Staged, Claiming, Reading, Committing
  <2>6. Equipped(n)
    BY <1>1, <2>2, <2>3, <2>4 DEF Equipped, Committing
  <2> QED
    BY <1>1, <1>3, <2>1, <2>4, <2>5, <2>6, ReadingStep
<1>4. \/ Return(s, Told("approval_not_found"))
      \/ Return(s, Told("already_applied"))
      \/ /\ approval # NoApproval
         /\ tx' = [tx EXCEPT ![s].approval = approval,
                     ![s].at = "read_command"]
         /\ told' = told
  BY DEF ReadApproval
<1> QED
  BY <1>2, <1>3, <1>4

\* An event goes on to its claim with a transition that its deal permits.
LEMMA ReadCommandStep ==
  ASSUME Shape, NEW s \in Session, ReadCommand(s)
  PROVE  Reads(s) \/ Fails(s)
<1> DEFINE checks == \/ Job(s).kind = "revocation"
                     \/ Job(s).kind = "decision" /\ Job(s).operation = "granted"
           place == IF checks THEN "read_revocations" ELSE "claim"
           n == [tx[s] EXCEPT !.at = place]
<1>1. /\ CallOK(tx[s]) /\ tx[s] \in CallType /\ tx[s].at = "read_command"
      /\ UNCHANGED <<tables, clock>> /\ Job(s) = tx[s].job
  BY UnderWay DEF ReadCommand, Job
<1>2. CASE \/ Return(s, Told("already_applied"))
           \/ Return(s, Told("stale_state"))
  BY <1>1, <1>2, FailingStep DEF Told
<1>3. CASE /\ ~ (Job(s).kind = "event" /\ Stale(tx[s].deal, EventOf(s)))
           /\ Goto(s, place)
           /\ told' = told
  <2>1. tx' = [tx EXCEPT ![s] = n]
    BY <1>3, UnderWay DEF Goto
  <2>2. Job(s).kind # "proposal"
    BY <1>1 DEF CallOK, Staged
  <2>3. /\ place \in {"read_revocations", "claim"}
        /\ place = "read_revocations" =>
             Job(s).kind \in {"decision", "revocation"}
    OBVIOUS
  <2>4. Job(s).kind = "event" => ~ Stale(tx[s].deal, Job(s).event)
    BY <1>3 DEF EventOf
  <2> HIDE DEF place
  <2>5. /\ n \in CallType /\ n.at = place /\ n.job = tx[s].job
        /\ n.claimed = tx[s].claimed /\ n.again = tx[s].again
        /\ n.approval = tx[s].approval /\ n.deal = tx[s].deal
    BY <1>1, <2>3 DEF CallType, Places
  <2> HIDE DEF n
  <2>6. Staged(n) /\ Claiming(n)
    BY <1>1, <2>2, <2>3, <2>5 DEF CallOK, Staged, Claiming, Reading,
                                  Committing, ClaimsNeeded
  <2>7. Equipped(n)
    BY <1>1, <2>2, <2>3, <2>4, <2>5 DEF CallOK, Equipped, Committing, EventFor
  <2>8. n.at \notin {"idle", "done", "write"}
    BY <2>3, <2>5
  <2> QED
    BY <1>1, <1>3, <2>1, <2>5, <2>6, <2>7, <2>8, ReadingStep
<1>4. \/ Return(s, Told("already_applied"))
      \/ Return(s, Told("stale_state"))
      \/ /\ ~ (Job(s).kind = "event" /\ Stale(tx[s].deal, EventOf(s)))
         /\ Goto(s, place)
         /\ told' = told
  <2>1. CASE Job(s).command \in seen_commands
    BY <2>1 DEF ReadCommand
  <2>2. CASE /\ Job(s).command \notin seen_commands
             /\ Job(s).kind = "event" /\ Stale(tx[s].deal, EventOf(s))
    BY <2>2 DEF ReadCommand
  <2>3. CASE /\ Job(s).command \notin seen_commands
             /\ ~ (Job(s).kind = "event" /\ Stale(tx[s].deal, EventOf(s)))
    BY <2>3 DEF ReadCommand
  <2> QED
    BY <2>1, <2>2, <2>3
<1> QED
  BY <1>2, <1>3, <1>4

\* and the recheck of a grant.
LEMMA ReadRevocationsStep ==
  ASSUME Shape, NEW s \in Session, ReadRevocations(s)
  PROVE  Reads(s) \/ Fails(s)
<1> DEFINE n == [tx[s] EXCEPT !.status = StatusNow(s), !.at = "claim"]
<1>1. /\ CallOK(tx[s]) /\ tx[s] \in CallType /\ tx[s].at = "read_revocations"
      /\ UNCHANGED <<tables, clock>> /\ Job(s) = tx[s].job
  BY UnderWay DEF ReadRevocations, Job
<1>2. CASE Return(s, Told("already_applied"))
  BY <1>1, <1>2, FailingStep DEF Told
<1>3. CASE /\ tx' = [tx EXCEPT ![s].status = StatusNow(s), ![s].at = "claim"]
           /\ told' = told
  <2>1. tx' = [tx EXCEPT ![s] = n]
    BY <1>3, UnderWay
  <2>2. Job(s).kind \in {"decision", "revocation"}
    BY <1>1 DEF CallOK, Staged
  <2>3. /\ n \in CallType /\ n.at = "claim" /\ n.job = tx[s].job
        /\ n.claimed = tx[s].claimed /\ n.again = tx[s].again
        /\ n.approval = tx[s].approval
    BY <1>1, StatusNowType DEF CallType, Places
  <2> HIDE DEF n
  <2>4. Staged(n) /\ Claiming(n)
    BY <1>1, <2>2, <2>3 DEF CallOK, Staged, Claiming, Reading, Committing,
                            ClaimsNeeded
  <2>5. Equipped(n)
    BY <1>1, <2>2, <2>3 DEF CallOK, Equipped, Committing
  <2> QED
    BY <1>1, <1>3, <2>1, <2>3, <2>4, <2>5, ReadingStep
<1> QED
  BY <1>2, <1>3 DEF ReadRevocations


\* A call claims as many keys as its job has.
LEMMA ClaimsCounted == \A job : Len(ClaimsOf(job)) = ClaimsNeeded(job)
BY DEF ClaimsOf, ClaimsNeeded

\* An insert of a claim wins, loses or fails,
LEMMA ClaimStep ==
  ASSUME Shape, NEW s \in Session, Claim(s)
  PROVE  Wins(s) \/ Loses(s) \/ Fails(s)
<1> DEFINE job == Job(s)
           k == tx[s].claimed
           next == k + 1
           place == IF k + 1 = Len(ClaimsOf(job)) THEN "chain_head" ELSE "claim"
           won == [tx[s] EXCEPT !.claimed = next, !.at = place]
           lost == [tx[s] EXCEPT !.claimed = 0, !.again = TRUE,
                      !.at = "decision_for"]
<1>1. /\ CallOK(tx[s]) /\ tx[s] \in CallType /\ tx[s].at = "claim"
      /\ job = tx[s].job
      /\ UNCHANGED <<deals, rows, approvals, revocations, clock>>
  BY UnderWay DEF Claim, Job
<1>2. /\ Len(ClaimsOf(job)) = ClaimsNeeded(job) /\ ClaimsNeeded(job) \in {1, 3}
      /\ k \in Nat /\ k < ClaimsNeeded(job)
  BY <1>1, ClaimsCounted DEF ClaimsNeeded, CallOK, CallType, Claiming
<1>3. CASE /\ Inserted(s, NextClaim(s)) = "won"
           /\ tx' = [tx EXCEPT ![s].claimed = @ + 1, ![s].at = place]
           /\ UNCHANGED <<decisions, seen_requests, nonce_owners,
                          seen_commands, told>>
  <2>1. tx' = [tx EXCEPT ![s] = won]
    BY <1>3, UnderWay
  <2>2. place \in {"claim", "chain_head"}
        /\ (place = "claim" => k + 1 < ClaimsNeeded(job))
        /\ (place = "chain_head" => k + 1 = ClaimsNeeded(job))
    BY <1>2
  <2> HIDE DEF place
  <2>3. /\ won \in CallType /\ won.at = place /\ won.job = tx[s].job
        /\ won.claimed = next /\ won.again = tx[s].again
        /\ won.approval = tx[s].approval /\ won.deal = tx[s].deal
        /\ won.decision = tx[s].decision
    <3>1. next \in Nat
      BY <1>2
    <3> HIDE DEF next
    <3> QED
      BY <1>1, <2>2, <3>1 DEF CallType, Places
  <2> HIDE DEF won
  <2>4. Staged(won)
    BY <2>2, <2>3 DEF Staged, Reading
  <2>5. Claiming(won)
    BY <1>1, <1>2, <2>2, <2>3 DEF Claiming, Committing
  <2>6. Equipped(won)
    BY <1>1, <2>2, <2>3 DEF CallOK, Equipped, Committing, EventFor
  <2>7. CallOK(won)
    BY <1>1, <2>3, <2>4, <2>5, <2>6, UnderWay DEF CallOK
  <2>8. Only(s) /\ tx'[s] = won
    BY <1>3, <2>1, <2>7, OnlyThis
  <2> QED
    BY <1>1, <1>3, <2>2, <2>3, <2>8 DEF Wins, tables
<1>4. CASE /\ job.kind = "proposal"
           /\ Inserted(s, NextClaim(s)) = "lost"
           /\ CommitClaims(s)
           /\ tx' = [tx EXCEPT ![s].claimed = 0, ![s].again = TRUE,
                       ![s].at = "decision_for"]
           /\ told' = told
  <2>1. tx' = [tx EXCEPT ![s] = lost]
    BY <1>4, UnderWay
  <2>2. /\ lost \in CallType /\ lost.at = "decision_for" /\ lost.job = job
        /\ lost.claimed = 0 /\ lost.again
    BY <1>1 DEF CallType, Places
  <2> HIDE DEF lost
  <2>3. Staged(lost) /\ Claiming(lost) /\ Equipped(lost)
    BY <1>4, <2>2 DEF Staged, Claiming, Equipped, Reading, Committing
  <2>4. CallOK(lost)
    BY <1>1, <2>2, <2>3, UnderWay DEF CallOK
  <2>5. Only(s) /\ tx'[s] = lost
    BY <1>4, <2>1, <2>4, OnlyThis
  <2> QED
    BY <1>1, <1>4, <2>2, <2>5 DEF Loses
<1>5. CASE /\ job.kind # "proposal"
           /\ CommitClaims(s)
           /\ Return(s, Told("already_applied"))
  <2>1. Made(s) = {}
    BY <1>1, <1>5, CommandClaim
  <2>2. UNCHANGED <<decisions, seen_requests, nonce_owners, seen_commands>>
    <3>1. \A table : MadeIn(s, table) = {}
      BY <2>1 DEF MadeIn
    <3>2. /\ decisions = [x \in Key |-> decisions[x]]
          /\ nonce_owners \in [Nonces -> RecordId \cup {NoRecord}]
      BY DEF Shape, Tables
    <3>3. decisions' = [x \in Key |-> decisions[x]]
      BY <1>5, <3>1 DEF CommitClaims
    <3>4. nonce_owners' = [n \in Nonces |-> nonce_owners[n]]
      BY <1>5, <3>1 DEF CommitClaims
    <3>5. seen_requests' = seen_requests /\ seen_commands' = seen_commands
      BY <1>5, <3>1 DEF CommitClaims
    <3> QED
      BY <3>2, <3>3, <3>4, <3>5
  <2> QED
    BY <1>1, <1>5, <2>2, FailingStep DEF Told, tables
<1> QED
  <2>1. \/ /\ Inserted(s, NextClaim(s)) = "lost"
           /\ CommitClaims(s)
           /\ \/ /\ job.kind = "proposal"
                 /\ tx' = [tx EXCEPT ![s].claimed = 0, ![s].again = TRUE,
                             ![s].at = "decision_for"]
                 /\ told' = told
              \/ /\ job.kind # "proposal"
                 /\ Return(s, Told("already_applied"))
        \/ /\ Inserted(s, NextClaim(s)) = "won"
           /\ tx' = [tx EXCEPT ![s].claimed = @ + 1, ![s].at = place]
           /\ UNCHANGED <<decisions, seen_requests, nonce_owners,
                          seen_commands, told>>
    BY DEF Claim, NextClaim
  <2> QED
    BY <1>3, <1>4, <1>5, <2>1


-----------------------------------------------------------------------------
(* The end of a chain.                                                     *)

\* The rows are numbered from 1 to n, each number used once.
NumberedTo(stored, n) ==
  /\ {row.seq : row \in stored} = 1..n
  /\ \A one, other \in stored : one.seq = other.seq => one = other
Numbered == \A d \in DealId : \E n \in Nat : NumberedTo(rows[d], n)

\* As many rows as numbers.
LEMMA NumberedCardinality ==
  ASSUME NEW stored, NEW n \in Nat, NumberedTo(stored, n)
  PROVE  Cardinality(stored) = n
<1> DEFINE f == [row \in stored |-> row.seq]
<1>1. f \in Bijection(stored, 1..n)
  <2>1. f \in [stored -> 1..n]
    BY DEF NumberedTo
  <2>2. \A one, other \in stored : f[one] = f[other] => one = other
    BY DEF NumberedTo
  <2>3. \A i \in 1..n : \E row \in stored : f[row] = i
    BY DEF NumberedTo
  <2> QED
    BY <2>1, <2>2, <2>3, Fun_IsBij DEF Bijection, Injection, Surjection
<1>2. ExistsBijection(1..n, stored)
  BY <1>1, Fun_ExistsBijSymmetric DEF ExistsBijection
<1> QED
  BY <1>2, FS_CountingElements

\* _chain_head answers with the row of the highest number, if there is a row.
LEMMA LastRowIs ==
  ASSUME NEW d \in DealId, NEW n \in Nat, NumberedTo(rows[d], n)
  PROVE  /\ LastRow(d).seq = n
         /\ \/ rows[d] = {} /\ LastRow(d) = Genesis
            \/ \E row \in rows[d] : row.seq = n /\ LastRow(d) = RowId(row)
<1>1. CASE rows[d] = {}
  <2>1. 1..n = {}
    BY <1>1 DEF NumberedTo
  <2>2. n = 0
    <3>1. 1 \notin 1..n
      BY <2>1
    <3> QED
      BY <3>1
  <2> QED
    BY <1>1, <2>2 DEF LastRow, Genesis
<1>2. CASE rows[d] # {}
  <2>1. \A row \in rows[d] : row.seq \in 1..n
    BY DEF NumberedTo
  <2>2. n \in 1..n
    BY <1>2, <2>1
  <2>3. PICK top \in rows[d] : top.seq = n
    BY <2>2 DEF NumberedTo
  <2> DEFINE last == CHOOSE row \in rows[d] : \A other \in rows[d] :
                                                other.seq <= row.seq
  <2>4. \A other \in rows[d] : other.seq <= top.seq
    BY <2>1, <2>3
  <2>5. last \in rows[d] /\ \A other \in rows[d] : other.seq <= last.seq
    BY <2>3, <2>4
  <2>6. last.seq = n
    BY <2>1, <2>3, <2>5
  <2>7. LastRow(d) = RowId(last)
    BY <1>2 DEF LastRow
  <2> HIDE DEF last
  <2> QED
    BY <2>5, <2>6, <2>7 DEF RowId
<1> QED
  BY <1>1, <1>2


\* the chain's head is a read,
LEMMA ChainHeadStep ==
  ASSUME Shape, Numbered, NEW s \in Session, ChainHead(s)
  PROVE  Reads(s)
<1> DEFINE last == LastRow(Job(s).deal)
           n == [tx[s] EXCEPT !.head = last, !.at = "write"]
<1>1. /\ CallOK(tx[s]) /\ tx[s] \in CallType /\ tx[s].at = "chain_head"
      /\ UNCHANGED <<tables, told, clock>> /\ Job(s) = tx[s].job
  BY UnderWay DEF ChainHead, Job
<1>2. tx' = [tx EXCEPT ![s] = n]
  BY UnderWay DEF ChainHead
<1>3. Job(s).deal \in DealId
  BY <1>1, UnderWay DEF JobOK
<1>4. last \in [seq : Nat, by : By]
  <2>1. PICK k \in Nat : NumberedTo(rows[Job(s).deal], k)
    BY <1>3 DEF Numbered
  <2>2. CASE last = Genesis
    BY <2>2 DEF Genesis, By
  <2>3. CASE \E row \in rows[Job(s).deal] : row.seq = k /\ last = RowId(row)
    BY <1>3, <2>1, <2>3 DEF RowId, Shape, Tables, Rows
  <2> QED
    BY <1>3, <2>1, <2>2, <2>3, LastRowIs
<1> HIDE DEF last
<1>5. /\ n \in CallType /\ n.at = "write" /\ n.job = tx[s].job
      /\ n.claimed = tx[s].claimed /\ n.again = tx[s].again
      /\ n.approval = tx[s].approval /\ n.deal = tx[s].deal
      /\ n.decision = tx[s].decision /\ n.head = last
  BY <1>1, <1>4 DEF CallType, Places
<1> HIDE DEF n
<1>6. Staged(n) /\ Claiming(n)
  BY <1>1, <1>5 DEF CallOK, Staged, Claiming, Reading, Committing
<1>7. Equipped(n)
  BY <1>1, <1>5 DEF CallOK, Equipped, Committing, EventFor
<1> QED
  BY <1>1, <1>2, <1>5, <1>6, <1>7, ReadingStep DEF last

\* the write commits or fails,
LEMMA WriteStep ==
  ASSUME Shape, NEW s \in Session, Write(s)
  PROVE  Fails(s) \/ Commits(s)
<1>1. tx[s].at = "write" /\ clock' = clock
  BY DEF Write
<1>2. CASE SeqTaken(s) /\ RollBack(s) /\ Return(s, Told("error"))
  BY <1>1, <1>2, FailingStep DEF Told, RollBack
<1>3. CASE ~ (SeqTaken(s) /\ RollBack(s) /\ Return(s, Told("error")))
  <2> DEFINE answer == IF Job(s).kind = "proposal"
                       THEN ToldDecision("decided", tx[s].decision)
                       ELSE Told("committed")
  <2>1. Return(s, answer) /\ answer.result # "pass"
    BY <1>3 DEF Write, ToldDecision, Told
  <2>2. Ends(s) /\ told'[s] = answer
    <3> HIDE DEF answer
    <3> QED
      BY <1>1, <2>1, ReturnEnds
  <2> QED
    BY <1>1, <1>3, <2>1, <2>2 DEF Write, Commits
<1> QED
  BY <1>2, <1>3

\* and a crash fails.
LEMMA CrashStep ==
  ASSUME Shape, NEW s \in Session, Crash(s)
  PROVE  Fails(s)
<1>1. /\ tx[s].at \notin {"idle", "done"} /\ Return(s, Told("crashed"))
      /\ UNCHANGED <<tables, clock>>
  BY DEF Crash
<1> QED
  BY <1>1, FailingStep DEF Told

\* Every statement of a session is one of the effects.
LEMMA StepEffects == Shape /\ Numbered /\ [Next]_vars => Effect
<1> SUFFICES ASSUME Shape, Numbered, [Next]_vars PROVE Effect
  OBVIOUS
<1>1. ASSUME NEW s \in Session, NEW job \in Jobs, Call(s, job) PROVE Effect
  BY <1>1, CallStep DEF Effect
<1>2. ASSUME NEW s \in Session, Step(s) PROVE Effect
  <2>1. CASE BuildClaim(s) \/ GetDeal(s) \/ ChainHead(s)
    BY <2>1, BuildClaimStep, GetDealStep, ChainHeadStep DEF Effect
  <2>2. CASE DecisionFor(s) \/ SeenRequest(s) \/ NonceOwner(s)
    BY <2>2, DecisionForStep, SeenRequestStep, NonceOwnerStep DEF Effect
  <2>3. CASE \/ ReadDeal(s) \/ ReadApproval(s) \/ ReadCommand(s)
             \/ ReadRevocations(s)
    BY <2>3, ReadDealStep, ReadApprovalStep, ReadCommandStep,
       ReadRevocationsStep DEF Effect
  <2>4. CASE Claim(s) \/ Write(s)
    BY <2>4, ClaimStep, WriteStep DEF Effect
  <2> QED
    BY <1>2, <2>1, <2>2, <2>3, <2>4 DEF Step
<1>3. ASSUME NEW s \in Session, Crash(s) PROVE Effect
  BY <1>3, CrashStep DEF Effect
<1>4. CASE UNCHANGED vars
  BY <1>4 DEF Effect
<1> QED
  BY <1>1, <1>2, <1>3, <1>4 DEF Next, AllDone


-----------------------------------------------------------------------------
(* What a call writes.                                                     *)

\* A plan that fits its call: entries numbered from 1, a policy decision among
\* them only for a proposal, and well-formed rows where it writes them.
Fits(s, plan) ==
  /\ \E n \in Nat \ {0} : DOMAIN plan.events = 1..n
  /\ Job(s).kind # "proposal" =>
       \A i \in DOMAIN plan.events : plan.events[i].type # "policy_decision"
  /\ WritesDeal(s) => plan.deal \in Deal
  /\ WritesApproval(s) => plan.approval \in Approval

\* The record of a call, as it is known when it writes.
LEMMA RecordType ==
  ASSUME Shape, NEW s \in Session, tx[s].at \in Committing
  PROVE  Record(s) \in RecordId
<1>1. CallOK(tx[s]) /\ JobOK(Job(s)) /\ Job(s) = tx[s].job
  BY UnderWay DEF Job, Committing
<1>2. Job(s).kind = "decision" => tx[s].approval \in Approval
  BY <1>1 DEF CallOK, Equipped
<1>3. Link[Job(s).deal] \in RecordId
  BY <1>1, PostgresAssumption DEF JobOK
<1> QED
  BY <1>2, <1>3 DEF Record, Approval

\* The plan of a proposal fits the tables,
LEMMA ProposalFits ==
  ASSUME Shape, NEW s \in Session, tx[s].at = "write",
         Job(s).kind = "proposal"
  PROVE  Fits(s, Plan(s))
<1> DEFINE p == Job(s).proposal
           decision == tx[s].decision
           q == Job(s).request
           r == Record(s)
           plan == PlanCommitRequest(tx[s].deal, q, p, r, decision)
           event == PlannedEvent(p, decision)
<1>1. /\ CallOK(tx[s]) /\ tx[s] \in CallType /\ JobOK(Job(s))
      /\ Job(s) = tx[s].job
  BY UnderWay DEF Job
<1>2. /\ decision \in Decision
      /\ decision.outcome # "deny" => p.action \in ActionToken
      /\ ~ Stale(tx[s].deal, event)
  BY <1>1 DEF CallOK, Equipped, Committing, EventFor
<1>3. /\ tx[s].deal \in Deal /\ p.amount \in Amount /\ p.deal \in DealId
      /\ r \in RecordId
  BY <1>1, RecordType DEF CallType, JobOK, Committing
<1>4. Plan(s) = plan
  BY DEF Plan
<1>5. plan.deal \in Deal
  <2> HIDE DEF p, decision, q, r
  <2> QED
    BY <1>2, <1>3, PlannedDeal
<1>6. WritesApproval(s) => plan.approval \in Approval
  <2>1. WritesApproval(s) => decision.outcome = "needs_approval"
    BY DEF WritesApproval
  <2>2. decision.outcome = "needs_approval" =>
          plan.approval = [ status |-> "pending", deal |-> p.deal, record |-> r,
                            action |-> p.action, amount |-> p.amount ]
    BY DEF PlanCommitRequest
  <2> HIDE DEF plan, r, p, decision
  <2> QED
    BY <1>2, <1>3, <2>1, <2>2 DEF Approval
<1>7. \E n \in Nat \ {0} : DOMAIN plan.events = 1..n
  <2> HIDE DEF p, decision, q, r
  <2>1. PICK at \in {1, 2} :
          RequestEntries(plan.events, q, p, decision, event, plan.deal,
                         tx[s].deal, at)
    BY PlanEntries
  <2>2. event # NoEvent => decision.outcome # "needs_approval"
    BY DEF PlannedEvent
  <2> HIDE DEF plan, event
  <2>3. /\ Len(plan.events) \in {at, at + 1}
        /\ DOMAIN plan.events = 1..Len(plan.events)
    BY <2>1, <2>2 DEF RequestEntries
  <2> QED
    BY <2>3
<1> QED
  BY <1>4, <1>5, <1>6, <1>7 DEF Fits

\* as does that of a boundary event,
LEMMA EventFits ==
  ASSUME Shape, NEW s \in Session, tx[s].at = "write", Job(s).kind = "event"
  PROVE  Fits(s, Plan(s))
<1> DEFINE deal == tx[s].deal
           event == Job(s).event
           plan == PlanCommitTransition(deal, Job(s).command, event, FALSE)
           moved == ApplyEvent(deal, event, TransitionFor(deal.state, event),
                               NoAmount)
           entry == TransitionEntry(Job(s).command, event, deal, moved, NoAmount)
<1>1. /\ CallOK(tx[s]) /\ tx[s] \in CallType /\ JobOK(Job(s))
      /\ Job(s) = tx[s].job
  BY UnderWay DEF Job
<1>2. event \in DealEvent /\ event # NoEvent /\ deal \in Deal
  BY <1>1 DEF JobOK, CallType, DealEvent, NoEvent
<1>3. ~ Stale(deal, event)
  BY <1>1 DEF CallOK, Equipped, Committing, EventFor
<1>4. TransitionFor(deal.state, event) \in DealState
  BY <1>2, <1>3, TransitionForType, TargetType DEF Stale
<1>5. moved \in Deal
  <2>1. NoAmount \in Amount /\ deal \in DealRow
    BY <1>2, DealRowTypes DEF Amount
  <2> QED
    BY <1>2, <1>4, <2>1, ApplyEventType
<1>6. Plan(s) = plan /\ plan.deal = moved /\ plan.events = <<>> \o <<entry>>
  BY DEF Plan, PlanCommitTransition
<1>7. entry.type # "policy_decision"
  BY DEF TransitionEntry
<1> HIDE DEF plan, entry, moved
<1>8. plan.events = <<entry>>
  <2>1. <<entry>> \in Seq({entry})
    OBVIOUS
  <2> QED
    BY <1>6, <2>1, ConcatEmptySeq
<1>9. /\ DOMAIN plan.events = 1..1
      /\ \A i \in DOMAIN plan.events : plan.events[i] = entry
  BY <1>8
<1>10. ~ WritesApproval(s)
  BY DEF WritesApproval
<1> QED
  BY <1>5, <1>6, <1>7, <1>9, <1>10 DEF Fits

\* that of an approval's decision,
LEMMA DecisionFits ==
  ASSUME Shape, NEW s \in Session, tx[s].at = "write", Job(s).kind = "decision"
  PROVE  Fits(s, Plan(s))
<1> DEFINE deal == tx[s].deal
           a == tx[s].approval
           q == Job(s).request
           current == tx[s].status = "active"
           granted == Job(s).operation = "granted" /\ ~ ForcedDeny(deal, a, current)
           plan == PlanCommitApproval(deal, q, a, Job(s).operation, current)
           moved == ApplyAction(deal, a.action, a.amount)
<1>1. /\ CallOK(tx[s]) /\ tx[s] \in CallType /\ JobOK(Job(s))
      /\ Job(s) = tx[s].job
  BY UnderWay DEF Job
<1>2. a \in Approval /\ deal \in Deal
  BY <1>1 DEF CallOK, Equipped, Committing, CallType
<1>3. /\ a.action \in ActionToken /\ a.amount \in Amount /\ deal \in DealRow
      /\ \A status \in {"granted", "denied"} :
           [a EXCEPT !.status = status] \in Approval
  BY <1>2, DealRowTypes DEF Approval
<1>4. Plan(s) = plan
  BY DEF Plan
<1>5. CASE granted
  <2>1. /\ ActionEvents[a.action] # NoEvent
        /\ TransitionFor(deal.state, ActionEvents[a.action]) # NoState
    BY <1>5 DEF ForcedDeny, Stale
  <2>2. moved \in Deal
    BY <1>3, <2>1, ActionIsEvent, ApplyEventType
  <2>3. Closed(moved) \in Deal
    BY <2>2, ClosedType, DealRowTypes
  <2> DEFINE one == ApprovalEntry("granted", q, a.action, a.amount)
             two == TransitionEntry(q, ActionEvents[a.action], deal, moved,
                                    a.amount)
  <2>4. /\ plan.deal = Closed(moved)
        /\ plan.events = <<one, two>>
        /\ plan.approval = [a EXCEPT !.status = "granted"]
    BY <1>5 DEF PlanCommitApproval
  <2>5. one.type # "policy_decision" /\ two.type # "policy_decision"
    BY DEF ApprovalEntry, TransitionEntry
  <2> HIDE DEF plan, one, two
  <2>6. /\ DOMAIN plan.events = 1..2
        /\ \A i \in DOMAIN plan.events : plan.events[i] \in {one, two}
    BY <2>4
  <2> QED
    BY <1>3, <1>4, <2>3, <2>4, <2>5, <2>6 DEF Fits
<1>6. CASE ~ granted
  <2> DEFINE one == ApprovalEntry("denied", q, a.action, a.amount)
  <2>1. Closed(deal) \in Deal
    BY <1>2, <1>3, ClosedType
  <2>2. /\ plan.deal = Closed(deal)
        /\ plan.events = <<one>>
        /\ plan.approval = [a EXCEPT !.status = "denied"]
    BY <1>6 DEF PlanCommitApproval
  <2>3. one.type # "policy_decision"
    BY DEF ApprovalEntry
  <2> HIDE DEF plan, one
  <2>4. /\ DOMAIN plan.events = 1..1
        /\ \A i \in DOMAIN plan.events : plan.events[i] = one
    BY <2>2
  <2> QED
    BY <1>3, <1>4, <2>1, <2>2, <2>3, <2>4 DEF Fits
<1> QED
  BY <1>5, <1>6

\* and that of a revocation.
LEMMA RevocationFits ==
  ASSUME Shape, NEW s \in Session, tx[s].at = "write",
         Job(s).kind = "revocation"
  PROVE  Fits(s, Plan(s))
<1> DEFINE entry == RevocationEntry([record |-> Record(s),
                                     revoked_at |-> tx[s].now])
<1>1. Plan(s).events = <<entry>>
  BY DEF Plan
<1>2. entry.type # "policy_decision"
  BY DEF RevocationEntry
<1>3. ~ WritesDeal(s) /\ ~ WritesApproval(s)
  BY DEF WritesDeal, WritesApproval
<1> HIDE DEF entry
<1>4. /\ DOMAIN Plan(s).events = 1..1
      /\ \A i \in DOMAIN Plan(s).events : Plan(s).events[i] = entry
  BY <1>1
<1> QED
  BY <1>2, <1>3, <1>4 DEF Fits

\* What a call commits fits it.
LEMMA PlanFits ==
  ASSUME Shape, NEW s \in Session, tx[s].at = "write"
  PROVE  Fits(s, Plan(s))
<1>1. JobOK(Job(s))
  BY UnderWay
<1> QED
  BY <1>1, ProposalFits, EventFits, DecisionFits, RevocationFits DEF JobOK


-----------------------------------------------------------------------------
(* Claims.                                                                 *)

ClaimSet ==
  [table : {"idempotency"}, key : Key]
  \cup [table : {"seen_requests"}, key : RequestId]
  \cup [table : {"seen_nonces"}, key : Nonces]
  \cup [table : {"seen_commands"}, key : CommandId]

\* The claims of a proposal, and of any other job.
ClaimOf(job, i) == ClaimsOf(job)[i]

\* The claims of a proposal, in the order of the inserts,
LEMMA ProposalClaims ==
  ASSUME NEW job, job.kind = "proposal"
  PROVE  /\ ClaimOf(job, 1) = [table |-> "idempotency", key |-> job.proposal.key]
         /\ ClaimOf(job, 2) = [table |-> "seen_requests", key |-> job.request]
         /\ ClaimOf(job, 3) = [table |-> "seen_nonces",
                               key |-> Mandate[Link[job.deal]].nonce]
BY DEF ClaimOf, ClaimsOf

\* and the one claim of a command.
LEMMA CommandClaims ==
  ASSUME NEW job, job.kind # "proposal"
  PROVE  ClaimOf(job, 1) = [table |-> "seen_commands", key |-> job.command]
BY DEF ClaimOf, ClaimsOf

\* Commands claim in a table of their own.
LEMMA ClaimTypes ==
  ASSUME NEW job, JobOK(job), NEW i \in 1..ClaimsNeeded(job)
  PROVE  /\ ClaimOf(job, i) \in ClaimSet
         /\ job.kind = "proposal" => ClaimOf(job, i).table # "seen_commands"
         /\ job.kind # "proposal" => ClaimOf(job, i).table = "seen_commands"
<1>1. CASE job.kind = "proposal"
  <2>1. i \in {1, 2, 3}
    BY <1>1 DEF ClaimsNeeded
  <2>2. Mandate[Link[job.deal]].nonce \in Nonces
    BY PostgresAssumption DEF JobOK, Nonces
  <2> QED
    BY <1>1, <2>1, <2>2, ProposalClaims DEF JobOK, ClaimSet
<1>2. CASE job.kind # "proposal"
  <2>1. i = 1
    BY <1>2 DEF ClaimsNeeded
  <2> QED
    BY <1>2, <2>1, CommandClaims DEF JobOK, ClaimSet
<1> QED
  BY <1>1, <1>2

\* A call has claimed keys only while it commits, and they are its job's.
LEMMA MadeTypes ==
  ASSUME Shape, NEW s \in Session, NEW claim \in Made(s)
  PROVE  /\ claim \in ClaimSet
         /\ tx[s].at \in Committing
         /\ JobOK(Job(s))
         /\ Job(s).kind = "proposal" => claim.table # "seen_commands"
         /\ Job(s).kind # "proposal" => claim.table = "seen_commands"
<1>1. PICK i \in 1..tx[s].claimed : claim = ClaimOf(Job(s), i)
  BY DEF Made, ClaimOf
<1>2. /\ CallOK(tx[s]) /\ tx[s].claimed \in Nat /\ Job(s) = tx[s].job
      /\ tx[s].at # "idle" => JobOK(Job(s))
  BY UnderWay DEF CallType, Job
<1>3. tx[s].claimed # 0
  BY <1>1, <1>2
<1>4. tx[s].at \in Committing
  BY <1>2, <1>3 DEF CallOK, Claiming
<1>5. JobOK(Job(s))
  BY <1>2, <1>4 DEF Committing
<1>6. i \in 1..ClaimsNeeded(Job(s))
  <2>1. ClaimsNeeded(Job(s)) \in Nat
    BY DEF ClaimsNeeded
  <2>2. tx[s].claimed <= ClaimsNeeded(Job(s))
    BY <1>2, <1>4, <2>1 DEF CallOK, Claiming, Committing
  <2> QED
    BY <1>1, <1>2, <2>1, <2>2
<1> QED
  BY <1>1, <1>4, <1>5, <1>6, ClaimTypes

\* What is committed after the claims of s became visible: what was, and what
\* s claimed.
LEMMA ClaimsCommitted ==
  ASSUME Shape, NEW s \in Session, CommitClaims(s), NEW claim \in ClaimSet
  PROVE  Committed(claim)' <=> Committed(claim) \/ claim \in Made(s)
<1>1. \A c \in Made(s) : c \in ClaimSet /\ tx[s].at \in Committing
  BY MadeTypes
<1>2. CASE claim \in [table : {"idempotency"}, key : Key]
  <2>1. claim.key \in MadeIn(s, "idempotency") <=> claim \in Made(s)
    BY <1>1, <1>2 DEF MadeIn, ClaimSet
  <2>2. decisions'[claim.key] =
          IF claim.key \in MadeIn(s, "idempotency")
          THEN [proposal |-> Job(s).proposal, decision |-> tx[s].decision]
          ELSE decisions[claim.key]
    BY <1>2 DEF CommitClaims
  <2> QED
    BY <1>2, <2>1, <2>2, StoredDecision DEF Committed
<1>3. CASE claim \in [table : {"seen_requests"}, key : RequestId]
  <2>1. claim.key \in MadeIn(s, "seen_requests") <=> claim \in Made(s)
    BY <1>1, <1>3 DEF MadeIn, ClaimSet
  <2>2. seen_requests' = seen_requests \cup MadeIn(s, "seen_requests")
    BY DEF CommitClaims
  <2> QED
    BY <1>3, <2>1, <2>2 DEF Committed
<1>4. CASE claim \in [table : {"seen_nonces"}, key : Nonces]
  <2>1. claim.key \in MadeIn(s, "seen_nonces") <=> claim \in Made(s)
    BY <1>1, <1>4 DEF MadeIn, ClaimSet
  <2>2. nonce_owners'[claim.key] =
          IF claim.key \in MadeIn(s, "seen_nonces") THEN Record(s)
          ELSE nonce_owners[claim.key]
    BY <1>4 DEF CommitClaims
  <2>3. claim \in Made(s) => Record(s) # NoRecord
    BY <1>1, RecordType, PostgresAssumption
  <2> QED
    BY <1>4, <2>1, <2>2, <2>3 DEF Committed
<1>5. CASE claim \in [table : {"seen_commands"}, key : CommandId]
  <2>1. claim.key \in MadeIn(s, "seen_commands") <=> claim \in Made(s)
    BY <1>1, <1>5 DEF MadeIn, ClaimSet
  <2>2. seen_commands' = seen_commands \cup MadeIn(s, "seen_commands")
    BY DEF CommitClaims
  <2> QED
    BY <1>5, <2>1, <2>2 DEF Committed
<1> QED
  BY <1>2, <1>3, <1>4, <1>5 DEF ClaimSet

\* The tables of the gate keep their shapes.
LEMMA ClaimsType ==
  ASSUME Shape, NEW s \in Session, CommitClaims(s)
  PROVE  /\ decisions' = [k \in Key |-> decisions'[k]]
         /\ nonce_owners' \in [Nonces -> RecordId \cup {NoRecord}]
         /\ seen_requests' \subseteq RequestId
         /\ seen_commands' \subseteq CommandId
<1>1. \A c \in Made(s) : c \in ClaimSet /\ tx[s].at \in Committing
  BY MadeTypes
<1>2. decisions' = [k \in Key |-> decisions'[k]]
  BY DEF CommitClaims
<1>3. nonce_owners' \in [Nonces -> RecordId \cup {NoRecord}]
  <2>1. ASSUME NEW n \in Nonces, n \in MadeIn(s, "seen_nonces")
        PROVE  Record(s) \in RecordId
    BY <1>1, <2>1, RecordType DEF MadeIn
  <2>2. nonce_owners \in [Nonces -> RecordId \cup {NoRecord}]
    BY DEF Shape, Tables
  <2> QED
    BY <2>1, <2>2 DEF CommitClaims
<1>4. seen_requests' \subseteq RequestId
  <2>1. MadeIn(s, "seen_requests") \subseteq RequestId
    BY <1>1 DEF MadeIn, ClaimSet
  <2> QED
    BY <2>1 DEF CommitClaims, Shape, Tables
<1>5. seen_commands' \subseteq CommandId
  <2>1. MadeIn(s, "seen_commands") \subseteq CommandId
    BY <1>1 DEF MadeIn, ClaimSet
  <2> QED
    BY <2>1 DEF CommitClaims, Shape, Tables
<1> QED
  BY <1>2, <1>3, <1>4, <1>5


-----------------------------------------------------------------------------
(* Type correctness.                                                       *)

\* The rows a call appends.
NewRow(s, i) ==
  [ seq |-> tx[s].head.seq + i, by |-> s, entry |-> Plan(s).events[i],
    cause |-> CauseOf(Job(s)),
    prev |-> IF i = 1 THEN tx[s].head
             ELSE [seq |-> tx[s].head.seq + i - 1, by |-> s] ]

\* A commit appends its plan's entries to the chain of its deal only.
LEMMA RowsAppended ==
  ASSUME Shape, NEW s \in Session, Commits(s)
  PROVE  /\ Job(s) \in Jobs /\ JobOK(Job(s)) /\ Job(s).deal \in DealId
         /\ tx[s].head \in [seq : Nat, by : By]
         /\ Fits(s, Plan(s))
         /\ DOMAIN rows' = DealId
         /\ \A d \in DealId : d # Job(s).deal => rows'[d] = rows[d]
         /\ rows'[Job(s).deal] = rows[Job(s).deal] \cup
              {NewRow(s, i) : i \in DOMAIN Plan(s).events}
<1>1. /\ CallOK(tx[s]) /\ tx[s] \in CallType /\ Job(s) \in Jobs
      /\ JobOK(Job(s)) /\ tx[s].at = "write"
  BY UnderWay DEF Commits
<1>2. Job(s).deal \in DealId /\ tx[s].head \in [seq : Nat, by : By]
  BY <1>1 DEF JobOK, CallType
<1>3. Fits(s, Plan(s))
  BY <1>1, PlanFits
<1>4. RowsOf(s, Plan(s).events) =
        {NewRow(s, i) : i \in DOMAIN Plan(s).events}
  BY DEF RowsOf, NewRow
<1> QED
  BY <1>1, <1>2, <1>3, <1>4 DEF Commits, Shape, Tables

\* Every effect keeps the shape.
LEMMA ShapeStep == ASSUME Shape, Effect PROVE Shape'
<1>1. ASSUME NEW s \in Session, Only(s) PROVE Calls' /\ DOMAIN told' = Session
  BY <1>1 DEF Only, Calls, Shape
<1>2. ASSUME UNCHANGED tables, clock' \in Nat PROVE Tables'
  BY <1>2 DEF Shape, Tables, Rows, tables
<1>3. ASSUME NEW s \in Session, Starts(s) \/ Reads(s) \/ Wins(s) \/ Fails(s)
      PROVE  Shape'
  <2>1. Only(s) /\ UNCHANGED tables /\ clock' \in Nat
    BY <1>3 DEF Starts, Reads, Wins, Fails, Ends, Shape, Tables
  <2> QED
    BY <1>1, <1>2, <2>1 DEF Shape
<1>4. ASSUME NEW s \in Session, Loses(s) PROVE Shape'
  <2>1. /\ Only(s) /\ CommitClaims(s)
        /\ UNCHANGED <<deals, rows, approvals, revocations, clock>>
    BY <1>4 DEF Loses
  <2>2. Tables'
    BY <2>1, ClaimsType DEF Shape, Tables, Rows
  <2> QED
    BY <1>1, <2>1, <2>2 DEF Shape
<1>5. ASSUME NEW s \in Session, Commits(s) PROVE Shape'
  <2>1. Only(s) /\ CommitClaims(s) /\ clock' = clock /\ tx[s].at = "write"
    BY <1>5 DEF Commits, Ends
  <2>2. /\ JobOK(Job(s)) /\ Job(s).deal \in DealId
        /\ tx[s].head \in [seq : Nat, by : By]
        /\ Fits(s, Plan(s))
    BY <1>5, RowsAppended
  <2>3. DOMAIN rows' = DealId /\ Rows'
    <3>1. PICK n \in Nat : DOMAIN Plan(s).events = 1..n
      BY <2>2 DEF Fits
    <3>2. \A i \in DOMAIN Plan(s).events :
            NewRow(s, i).seq \in Nat /\ NewRow(s, i).by \in By
      BY <2>2, <3>1 DEF NewRow, By
    <3>3. ASSUME NEW d \in DealId, NEW row \in rows'[d]
          PROVE  row.seq \in Nat /\ row.by \in By
      <4>1. CASE row \in rows[d]
        BY <4>1 DEF Shape, Tables, Rows
      <4>2. CASE row \notin rows[d]
        <5>1. PICK i \in DOMAIN Plan(s).events : row = NewRow(s, i)
          BY <1>5, <4>2, RowsAppended
        <5> QED
          BY <3>2, <5>1
      <4> QED
        BY <4>1, <4>2
    <3> QED
      BY <1>5, <3>3, RowsAppended DEF Rows
  <2>4. deals' \in [DealId -> Deal]
    BY <1>5, <2>2 DEF Commits, Fits, Shape, Tables
  <2>5. approvals' \in [RequestId -> Approval \cup {NoApproval}]
    <3>1. WritesApproval(s) => Job(s).request \in RequestId
      BY <2>2 DEF WritesApproval, JobOK
    <3> QED
      BY <1>5, <2>2, <3>1 DEF Commits, Fits, Shape, Tables
  <2>6. revocations' \subseteq [record : RecordId, revoked_at : Nat]
    <3>1. Record(s) \in RecordId
      BY <2>1, RecordType DEF Committing
    <3>2. tx[s].now \in Nat
      BY UnderWay DEF CallType
    <3> QED
      BY <1>5, <3>1, <3>2 DEF Commits, RevocationsAfter, Shape, Tables
  <2>7. Tables'
    BY <2>1, <2>3, <2>4, <2>5, <2>6, ClaimsType DEF Shape, Tables
  <2> QED
    BY <1>1, <2>1, <2>7 DEF Shape
<1>6. CASE UNCHANGED vars
  <2>1. Tables'
    BY <1>2, <1>6 DEF vars, Shape, Tables
  <2>2. Calls' /\ DOMAIN told' = Session
    BY <1>6 DEF vars, Shape, Calls
  <2> QED
    BY <2>1, <2>2 DEF Shape
<1> QED
  BY <1>3, <1>4, <1>5, <1>6 DEF Effect


-----------------------------------------------------------------------------
(* One chain for each deal.                                                *)

\* A call that is about to write builds on a row of the chain, or starts it.
Heads ==
  \A s \in Session : tx[s].at = "write" =>
    \/ tx[s].head = Genesis
    \/ \E row \in rows[Job(s).deal] : tx[s].head = RowId(row)

Linked ==
  \A d \in DealId : \A row \in rows[d] :
    \/ row.seq = 1 /\ row.prev = Genesis
    \/ \E before \in rows[d] :
         before.seq = row.seq - 1 /\ row.prev = RowId(before)

Chained == Numbered /\ Heads /\ Linked

\* The first state is in the shape, with its chains intact.
LEMMA ChainedInit == Init => Shape /\ Chained
<1> SUFFICES ASSUME Init PROVE Shape /\ Chained
  OBVIOUS
<1>1. PICK db \in Databases :
        /\ deals = db.deals
        /\ rows = [d \in DealId |->
             {[ seq |-> i, by |-> "before", entry |-> db.chains[d][i],
                cause |-> "before",
                prev |-> IF i = 1 THEN Genesis
                         ELSE [seq |-> i - 1, by |-> "before"] ]
              : i \in DOMAIN db.chains[d]}]
        /\ approvals = db.approvals
        /\ revocations = db.revocations
        /\ seen_requests = db.seen_requests
        /\ nonce_owners = db.nonce_owners
        /\ decisions = db.decisions
        /\ seen_commands = db.seen_commands
  BY DEF Init
<1> DEFINE Stored(d, i) ==
             [ seq |-> i, by |-> "before", entry |-> db.chains[d][i],
               cause |-> "before",
               prev |-> IF i = 1 THEN Genesis
                        ELSE [seq |-> i - 1, by |-> "before"] ]
<1>2. ASSUME NEW d \in DealId
      PROVE  /\ \A row \in rows[d] : \E i \in DOMAIN db.chains[d] :
                  row = Stored(d, i)
             /\ \A i \in DOMAIN db.chains[d] : Stored(d, i) \in rows[d]
  BY <1>1
<1>3. \A d \in DealId : \E n \in Nat : DOMAIN db.chains[d] = 1..n
  BY DatabasesAssumption
<1>4. \A d \in DealId : \A i :
        /\ Stored(d, i).seq = i /\ Stored(d, i).by = "before"
        /\ Stored(d, i).prev = IF i = 1 THEN Genesis
                               ELSE [seq |-> i - 1, by |-> "before"]
        /\ RowId(Stored(d, i)) = [seq |-> i, by |-> "before"]
  BY DEF RowId
<1>5. Tables
  <2>1. DOMAIN rows = DealId
    BY <1>1
  <2>2. Rows
    <3> SUFFICES ASSUME NEW d \in DealId, NEW row \in rows[d]
                 PROVE  row.seq \in Nat /\ row.by \in By
      BY DEF Rows
    <3>1. PICK n \in Nat : DOMAIN db.chains[d] = 1..n
      BY <1>3
    <3>2. PICK i \in 1..n : row = Stored(d, i)
      BY <1>2, <3>1
    <3> HIDE DEF Stored
    <3>3. row.seq = i /\ row.by = "before"
      BY <1>4, <3>2
    <3> QED
      BY <3>1, <3>2, <3>3 DEF By
  <2>3. clock = 0
    BY DEF Init
  <2> QED
    BY <1>1, <2>1, <2>2, <2>3, DatabasesAssumption DEF Tables
<1>6. Calls /\ DOMAIN told = Session
  BY IdleType DEF Init, Calls
<1> HIDE DEF Stored
<1>7. Numbered
  <2> SUFFICES ASSUME NEW d \in DealId
               PROVE  \E n \in Nat : NumberedTo(rows[d], n)
    BY DEF Numbered
  <2>1. PICK n \in Nat : DOMAIN db.chains[d] = 1..n
    BY <1>3
  <2>2. {row.seq : row \in rows[d]} = 1..n
    <3>1. ASSUME NEW row \in rows[d] PROVE row.seq \in 1..n
      <4>1. PICK i \in 1..n : row = Stored(d, i)
        BY <1>2, <2>1
      <4>2. row.seq = i
        BY <1>4, <4>1
      <4> QED
        BY <4>1, <4>2
    <3>2. \A i \in 1..n : Stored(d, i) \in rows[d] /\ Stored(d, i).seq = i
      BY <1>2, <1>4, <2>1
    <3> QED
      BY <3>1, <3>2
  <2>3. \A one, other \in rows[d] : one.seq = other.seq => one = other
    <3> SUFFICES ASSUME NEW one \in rows[d], NEW other \in rows[d],
                        one.seq = other.seq
                 PROVE  one = other
      OBVIOUS
    <3>1. PICK i \in 1..n : one = Stored(d, i)
      BY <1>2, <2>1
    <3>2. PICK j \in 1..n : other = Stored(d, j)
      BY <1>2, <2>1
    <3>3. one.seq = i
      BY <1>4, <3>1
    <3>4. other.seq = j
      BY <1>4, <3>2
    <3> QED
      BY <3>1, <3>2, <3>3, <3>4
  <2> QED
    BY <2>2, <2>3 DEF NumberedTo
<1>8. Linked
  <2> SUFFICES ASSUME NEW d \in DealId, NEW row \in rows[d]
               PROVE  \/ row.seq = 1 /\ row.prev = Genesis
                      \/ \E before \in rows[d] :
                           /\ before.seq = row.seq - 1
                           /\ row.prev = RowId(before)
    BY DEF Linked
  <2>1. PICK n \in Nat : DOMAIN db.chains[d] = 1..n
    BY <1>3
  <2>2. PICK i \in 1..n : row = Stored(d, i)
    BY <1>2, <2>1
  <2>3. CASE i = 1
    BY <1>4, <2>2, <2>3
  <2>4. CASE i # 1
    <3> DEFINE k == i - 1
    <3>1. k \in 1..n
      BY <2>4
    <3>2. row.seq - 1 = k /\ row.prev = [seq |-> k, by |-> "before"]
      BY <1>4, <2>2, <2>4
    <3> HIDE DEF k
    <3>3. Stored(d, k) \in rows[d]
      BY <1>2, <2>1, <3>1
    <3>4. /\ Stored(d, k).seq = k
          /\ RowId(Stored(d, k)) = [seq |-> k, by |-> "before"]
      BY <1>4
    <3> QED
      BY <3>2, <3>3, <3>4
  <2> QED
    BY <2>3, <2>4
<1>9. Heads
  BY DEF Init, Idle, Heads
<1> QED
  BY <1>5, <1>6, <1>7, <1>8, <1>9 DEF Shape, Chained


\* Only a commit writes rows.
LEMMA RowsKept ==
  ASSUME NEW s \in Session,
         Starts(s) \/ Reads(s) \/ Wins(s) \/ Loses(s) \/ Fails(s)
  PROVE  rows' = rows
BY DEF Starts, Reads, Wins, Loses, Fails, tables

\* The highest number is the one a writer builds on, unless it is too late.
LEMMA HeadIsLast ==
  ASSUME Shape, Heads, NEW s \in Session, Commits(s), NEW n \in Nat,
         NumberedTo(rows[Job(s).deal], n)
  PROVE  tx[s].head.seq = n
<1> DEFINE d == Job(s).deal
           k == tx[s].head.seq
<1>1. /\ tx[s].at = "write" /\ ~ \E row \in rows[d] : row.seq = k + 1
  BY DEF Commits, SeqTaken
<1>2. k \in 0..n
  <2>1. CASE tx[s].head = Genesis
    BY <2>1 DEF Genesis
  <2>2. ASSUME NEW row \in rows[d], tx[s].head = RowId(row) PROVE k \in 0..n
    <3>1. row.seq \in 1..n
      BY DEF NumberedTo
    <3>2. k = row.seq
      BY <2>2 DEF RowId
    <3> QED
      BY <3>1, <3>2
  <2> QED
    BY <1>1, <2>1, <2>2 DEF Heads
<1>3. k + 1 \notin 1..n
  BY <1>1 DEF NumberedTo
<1> HIDE DEF k
<1>4. k = n
  BY <1>2, <1>3
<1> QED
  BY <1>4 DEF k

\* What a new row is.
LEMMA NewRowIs ==
  ASSUME NEW s \in Session, NEW i
  PROVE  /\ NewRow(s, i).seq = tx[s].head.seq + i
         /\ NewRow(s, i).by = s
         /\ NewRow(s, i).entry = Plan(s).events[i]
         /\ NewRow(s, i).cause = CauseOf(Job(s))
         /\ NewRow(s, i).prev = IF i = 1 THEN tx[s].head
                                ELSE [seq |-> tx[s].head.seq + i - 1, by |-> s]
         /\ RowId(NewRow(s, i)) = [seq |-> tx[s].head.seq + i, by |-> s]
BY DEF NewRow, RowId

\* The rows of a deal stay numbered and linked when a call appends its own.
LEMMA AppendedChain ==
  ASSUME Shape, Chained, NEW s \in Session, Commits(s)
  PROVE  Numbered' /\ Linked'
<1> DEFINE d == Job(s).deal
           k == tx[s].head.seq
<1>1. /\ d \in DealId
      /\ \A x \in DealId : x # d => rows'[x] = rows[x]
      /\ rows'[d] = rows[d] \cup {NewRow(s, i) : i \in DOMAIN Plan(s).events}
  BY RowsAppended
<1>2. PICK m \in Nat \ {0} : DOMAIN Plan(s).events = 1..m
  BY RowsAppended DEF Fits
<1>3. PICK n \in Nat : NumberedTo(rows[d], n)
  BY <1>1 DEF Chained, Numbered
<1>4. k = n
  BY <1>3, HeadIsLast DEF Chained
<1>5. /\ \A row \in rows'[d] :
           row \in rows[d] \/ \E i \in 1..m : row = NewRow(s, i)
      /\ \A i \in 1..m : NewRow(s, i) \in rows'[d]
      /\ rows[d] \subseteq rows'[d]
  BY <1>1, <1>2
<1>6. \A i \in 1..m : NewRow(s, i).seq = n + i
  <2> SUFFICES ASSUME NEW i \in 1..m PROVE NewRow(s, i).seq = n + i
    OBVIOUS
  <2>1. NewRow(s, i).seq = tx[s].head.seq + i
    BY DEF NewRow
  <2> QED
    BY <1>4, <2>1
<1>7. \A row \in rows[d] : row.seq \in 1..n
  BY <1>3 DEF NumberedTo
<1> HIDE DEF k, d
<1>8. NumberedTo(rows'[d], n + m)
  <2>1. {row.seq : row \in rows'[d]} = 1..(n + m)
    <3>1. ASSUME NEW row \in rows'[d] PROVE row.seq \in 1..(n + m)
      BY <1>5, <1>6, <1>7
    <3>2. ASSUME NEW j \in 1..(n + m)
          PROVE  \E row \in rows'[d] : row.seq = j
      <4>1. CASE j <= n
        <5>1. j \in 1..n
          BY <4>1
        <5>2. PICK row \in rows[d] : row.seq = j
          BY <1>3, <5>1 DEF NumberedTo
        <5> QED
          BY <1>5, <5>2
      <4>2. CASE ~ (j <= n)
        <5>1. j - n \in 1..m /\ n + (j - n) = j
          BY <4>2
        <5> QED
          BY <1>5, <1>6, <5>1
      <4> QED
        BY <4>1, <4>2
    <3> QED
      BY <3>1, <3>2
  <2>2. ASSUME NEW one \in rows'[d], NEW other \in rows'[d],
               one.seq = other.seq
        PROVE  one = other
    <3>1. CASE one \in rows[d] /\ other \in rows[d]
      BY <1>3, <2>2, <3>1 DEF NumberedTo
    <3>2. CASE one \notin rows[d] /\ other \notin rows[d]
      <4>1. PICK i \in 1..m : one = NewRow(s, i)
        BY <1>5, <3>2
      <4>2. PICK j \in 1..m : other = NewRow(s, j)
        BY <1>5, <3>2
      <4>3. n + i = n + j
        BY <1>6, <2>2, <4>1, <4>2
      <4>4. i = j
        BY <4>3
      <4> QED
        BY <4>1, <4>2, <4>4
    <3>3. ASSUME NEW old \in rows[d], NEW i \in 1..m,
                 old.seq = NewRow(s, i).seq
          PROVE  FALSE
      BY <1>6, <1>7, <3>3
    <3> QED
      BY <1>5, <2>2, <3>1, <3>2, <3>3
  <2> QED
    BY <2>1, <2>2 DEF NumberedTo
<1>9. Numbered'
  <2> SUFFICES ASSUME NEW x \in DealId
               PROVE  \E j \in Nat : NumberedTo(rows'[x], j)
    BY DEF Numbered, NumberedTo
  <2>1. CASE x = d
    <3>1. n + m \in Nat
      OBVIOUS
    <3> QED
      BY <1>8, <2>1, <3>1
  <2>2. CASE x # d
    <3>1. PICK j \in Nat : NumberedTo(rows[x], j)
      BY DEF Chained, Numbered
    <3>2. rows'[x] = rows[x]
      BY <1>1, <2>2 DEF d
    <3> QED
      BY <3>1, <3>2
  <2> QED
    BY <2>1, <2>2
<1>10. ASSUME NEW i \in 1..m
       PROVE  \/ NewRow(s, i).seq = 1 /\ NewRow(s, i).prev = Genesis
              \/ \E before \in rows'[d] :
                   /\ before.seq = NewRow(s, i).seq - 1
                   /\ NewRow(s, i).prev = RowId(before)
  <2>1. CASE i = 1 /\ tx[s].head = Genesis
    <3>1. n = 0
      BY <1>4, <2>1 DEF k, Genesis
    <3>2. NewRow(s, i).prev = Genesis
      BY <2>1, NewRowIs
    <3> QED
      BY <1>6, <2>1, <3>1, <3>2
  <2>2. CASE i = 1 /\ tx[s].head # Genesis
    <3>1. PICK before \in rows[d] : tx[s].head = RowId(before)
      BY <2>2 DEF Chained, Heads, Commits, d
    <3>2. before.seq = n
      BY <1>4, <3>1 DEF RowId, k
    <3>3. NewRow(s, i).prev = RowId(before)
      BY <2>2, <3>1, NewRowIs
    <3>4. NewRow(s, i).seq - 1 = n
      BY <1>6, <2>2
    <3> QED
      BY <1>5, <3>2, <3>3, <3>4
  <2>3. CASE i # 1
    <3>1. i - 1 \in 1..m
      BY <2>3
    <3>2. NewRow(s, i - 1) \in rows'[d]
      BY <1>5, <3>1
    <3>3. NewRow(s, i - 1).seq = NewRow(s, i).seq - 1
      BY <1>6, <3>1
    <3>4. NewRow(s, i).prev = [seq |-> k + i - 1, by |-> s]
      BY <2>3, NewRowIs DEF k
    <3>5. RowId(NewRow(s, i - 1)) = [seq |-> k + (i - 1), by |-> s]
      BY NewRowIs DEF k
    <3>6. k + i - 1 = k + (i - 1)
      BY <1>4
    <3> QED
      BY <3>2, <3>3, <3>4, <3>5, <3>6
  <2> QED
    BY <2>1, <2>2, <2>3
<1>11. Linked'
  <2> SUFFICES ASSUME NEW x \in DealId, NEW row \in rows'[x]
               PROVE  \/ row.seq = 1 /\ row.prev = Genesis
                      \/ \E before \in rows'[x] :
                           /\ before.seq = row.seq - 1
                           /\ row.prev = RowId(before)
    BY DEF Linked, RowId
  <2>1. CASE row \in rows[x]
    <3>1. rows[x] \subseteq rows'[x]
      BY <1>1, <1>5 DEF d
    <3> QED
      BY <2>1, <3>1 DEF Chained, Linked
  <2>2. CASE row \notin rows[x]
    <3>1. x = d
      BY <1>1, <2>2 DEF d
    <3>2. PICK i \in 1..m : row = NewRow(s, i)
      BY <1>5, <2>2, <3>1
    <3> QED
      BY <1>10, <3>1, <3>2
  <2> QED
    BY <2>1, <2>2
<1> QED
  BY <1>9, <1>11


\* Every effect keeps the chains without a gap or a fork.
LEMMA ChainedStep == ASSUME Shape, Chained, Effect PROVE Chained'
<1>1. ASSUME NEW s \in Session, Starts(s) \/ Wins(s) \/ Loses(s) \/ Fails(s)
      PROVE  Chained'
  <2>1. rows' = rows
    BY <1>1, RowsKept
  <2>2. Only(s) /\ tx'[s].at # "write"
    BY <1>1, FinishedIs DEF Starts, Wins, Loses, Fails, Ends
  <2>3. Heads'
    BY <2>1, <2>2 DEF Chained, Heads, Only, Job, RowId, Genesis
  <2> QED
    BY <2>1, <2>3 DEF Chained, Numbered, Linked, NumberedTo, RowId
<1>2. ASSUME NEW s \in Session, Reads(s) PROVE Chained'
  <2>1. rows' = rows
    BY <1>2, RowsKept
  <2>2. /\ Only(s) /\ tx'[s].job = tx[s].job /\ JobOK(Job(s))
        /\ tx'[s].at = "write" => tx'[s].head = LastRow(Job(s).deal)
    BY <1>2, UnderWay DEF Reads
  <2>3. \/ LastRow(Job(s).deal) = Genesis
        \/ \E row \in rows[Job(s).deal] : LastRow(Job(s).deal) = RowId(row)
    <3>1. Job(s).deal \in DealId
      BY <2>2 DEF JobOK
    <3>2. PICK n \in Nat : NumberedTo(rows[Job(s).deal], n)
      BY <3>1 DEF Chained, Numbered
    <3> QED
      BY <3>1, <3>2, LastRowIs
  <2>4. Heads'
    <3> SUFFICES ASSUME NEW t \in Session, tx'[t].at = "write"
                 PROVE  \/ tx'[t].head = Genesis
                        \/ \E row \in rows'[tx'[t].job.deal] :
                             tx'[t].head = RowId(row)
      BY DEF Heads, Job, RowId, Genesis
    <3>1. CASE t = s
      BY <2>1, <2>2, <2>3, <3>1 DEF Job
    <3>2. CASE t # s
      BY <2>1, <2>2, <3>2 DEF Only, Chained, Heads, Job
    <3> QED
      BY <3>1, <3>2
  <2> QED
    BY <2>1, <2>4 DEF Chained, Numbered, Linked, NumberedTo, RowId
<1>3. ASSUME NEW s \in Session, Commits(s) PROVE Chained'
  <2>1. Numbered' /\ Linked'
    BY <1>3, AppendedChain
  <2>2. Only(s) /\ tx'[s].at # "write"
    BY <1>3, FinishedIs DEF Commits, Ends
  <2>3. \A d \in DealId : rows[d] \subseteq rows'[d]
    BY <1>3, RowsAppended
  <2>4. Heads'
    <3> SUFFICES ASSUME NEW t \in Session, tx'[t].at = "write"
                 PROVE  \/ tx'[t].head = Genesis
                        \/ \E row \in rows'[tx'[t].job.deal] :
                             tx'[t].head = RowId(row)
      BY DEF Heads, Job, RowId, Genesis
    <3>1. t # s /\ tx'[t] = tx[t]
      BY <2>2 DEF Only
    <3>2. Job(t).deal \in DealId /\ Job(t) = tx[t].job
      BY <3>1, UnderWay DEF JobOK, Job
    <3> QED
      BY <2>3, <3>1, <3>2 DEF Chained, Heads
  <2> QED
    BY <2>1, <2>4 DEF Chained
<1>4. CASE UNCHANGED vars
  BY <1>4 DEF vars, tables, Chained, Numbered, Linked, Heads, NumberedTo,
              RowId, Job, Genesis
<1> QED
  BY <1>1, <1>2, <1>3, <1>4 DEF Effect

\* The shape and the chains hold throughout.
LEMMA ShapeHolds == Spec => [](Shape /\ Chained)
<1>1. Init => Shape /\ Chained
  BY ChainedInit
<1>2. Shape /\ Chained /\ [Next]_vars => (Shape /\ Chained)'
  <2> SUFFICES ASSUME Shape, Chained, [Next]_vars PROVE Shape' /\ Chained'
    OBVIOUS
  <2>1. Effect
    BY StepEffects DEF Chained
  <2> QED
    BY <2>1, ShapeStep, ChainedStep
<1> QED
  BY <1>1, <1>2, PTL DEF Spec

\* The tables keep their shapes and no call claims more keys than its job has,
\* for any number of concurrent calls.
THEOREM PostgresTypeCorrect == Spec => []TypeOK
<1>1. Shape => TypeOK
  <2> SUFFICES ASSUME Shape PROVE TypeOK
    OBVIOUS
  <2>1. ASSUME NEW s \in Session
        PROVE  /\ tx[s].at \in Places
               /\ tx[s].at # "idle" => Job(s) \in Jobs
               /\ tx[s].at = "claim" =>
                    tx[s].claimed < Len(ClaimsOf(Job(s)))
    BY UnderWay, ClaimsCounted DEF CallOK, CallType, Claiming, Job
  <2>2. DOMAIN decisions = Key
    BY DEF Shape, Tables
  <2>3. \A d \in DealId : \A row \in rows[d] : row.seq \in Nat
    BY DEF Shape, Tables, Rows
  <2> QED
    BY <2>1, <2>2, <2>3 DEF Shape, Tables, TypeOK
<1> QED
  BY <1>1, ShapeHolds, PTL

\* However the transactions interleave, and whichever of them crash, the rows
\* of a deal are one chain, numbered without a gap or a fork and linked row by
\* row: a writer whose sequence number was taken rolls back, and the one that
\* commits builds on the last row.
THEOREM ChainIntactHolds == Spec => []ChainIntact
<1>1. Chained => ChainIntact
  <2> SUFFICES ASSUME Chained, NEW d \in DealId
               PROVE  {row.seq : row \in rows[d]} = 1..Cardinality(rows[d])
    BY DEF Chained, Linked, ChainIntact
  <2>1. PICK n \in Nat : NumberedTo(rows[d], n)
    BY DEF Chained, Numbered
  <2>2. Cardinality(rows[d]) = n
    BY <2>1, NumberedCardinality
  <2> QED
    BY <2>1, <2>2 DEF NumberedTo
<1> QED
  BY <1>1, ShapeHolds, PTL


-----------------------------------------------------------------------------
(* Keys, requests, nonces and commands.                                    *)

\* No two calls hold the same uncommitted key, and what another call has
\* committed is no claim of a call that is still open: but for the nonce of its
\* own record.
Exclusive ==
  \A s, t \in Session : \A claim \in Made(s) :
    s # t /\ claim \in Made(t) => Committed(claim)
Ours ==
  \A s \in Session : \A claim \in Made(s) :
    Committed(claim) => /\ claim.table = "seen_nonces"
                        /\ nonce_owners[claim.key] = Link[Job(s).deal]

\* A call that lost a claim finds the decision that won under its key.
Retried ==
  \A s \in Session :
    /\ tx[s].again => /\ tx[s].at = "decision_for"
                      /\ Job(s).kind = "proposal"
                      /\ decisions[Job(s).proposal.key] # NoDecision
    /\ told[s].result # "pass"

Claimed == Exclusive /\ Ours

\* What an insert says.
LEMMA InsertedSays ==
  ASSUME NEW s \in Session, NEW claim
  PROVE  /\ Inserted(s, claim) = "won" =>
              /\ \A t \in Session \ {s} :
                   claim \in Made(t) => Committed(claim)
              /\ Committed(claim) => /\ claim.table = "seen_nonces"
                                     /\ nonce_owners[claim.key] = Record(s)
         /\ Inserted(s, claim) = "lost" => Committed(claim)
BY DEF Inserted, Held

\* The claims of the other calls stay theirs.
LEMMA OthersClaims ==
  ASSUME Shape, NEW s \in Session, Only(s)
  PROVE  \A t \in Session \ {s} :
           tx'[t] = tx[t] /\ Job(t)' = Job(t) /\ Made(t)' = Made(t)
BY DEF Only, Job, Made

\* The claims of the call that goes on: kept, one more, or all given up.
LEMMA OwnClaims ==
  ASSUME Shape, NEW s \in Session
  PROVE  /\ Starts(s) => Made(s)' = {}
         /\ Reads(s) => Made(s)' = Made(s) /\ Job(s)' = Job(s)
         /\ Wins(s) => /\ Made(s)' = Made(s) \cup {NextClaim(s)}
                       /\ Job(s)' = Job(s)
         /\ Loses(s) \/ Fails(s) \/ Commits(s) => Made(s)' = {}
<1>1. ASSUME Starts(s) PROVE Made(s)' = {}
  <2>1. tx[s].claimed = 0
    BY <1>1, UnderWay DEF Starts, CallOK, Claiming, Committing
  <2>2. tx'[s].claimed = 0
    BY <1>1, <2>1 DEF Starts
  <2> QED
    BY <2>2 DEF Made
<1>2. ASSUME Reads(s) PROVE Made(s)' = Made(s) /\ Job(s)' = Job(s)
  BY <1>2 DEF Reads, Made, Job
<1>3. ASSUME Wins(s)
      PROVE  Made(s)' = Made(s) \cup {NextClaim(s)} /\ Job(s)' = Job(s)
  <2>1. /\ tx'[s].job = tx[s].job /\ tx'[s].claimed = tx[s].claimed + 1
        /\ tx[s].claimed \in Nat
    BY <1>3, UnderWay DEF Wins, CallType
  <2> DEFINE k == tx[s].claimed
             C(i) == ClaimsOf(Job(s))[i]
  <2>2. 1..(k + 1) = 1..k \cup {k + 1}
    BY <2>1
  <2>3. Made(s)' = {C(i) : i \in 1..(k + 1)}
    BY <2>1 DEF Made, Job
  <2>4. Made(s) = {C(i) : i \in 1..k} /\ NextClaim(s) = C(k + 1)
    BY DEF Made, NextClaim
  <2> HIDE DEF k, C
  <2>5. Made(s)' = Made(s) \cup {NextClaim(s)}
    BY <2>2, <2>3, <2>4
  <2> QED
    BY <2>1, <2>5 DEF Job
<1>4. ASSUME Loses(s) \/ Fails(s) \/ Commits(s) PROVE Made(s)' = {}
  <2>1. tx'[s].claimed = 0
    BY <1>4, FinishedIs DEF Loses, Fails, Commits, Ends
  <2> QED
    BY <2>1 DEF Made
<1> QED
  BY <1>1, <1>2, <1>3, <1>4

\* The owner of a nonce does not change.
LEMMA OwnerKept ==
  ASSUME Shape, Claimed, NEW s \in Session, CommitClaims(s), NEW n \in Nonces,
         nonce_owners[n] # NoRecord
  PROVE  nonce_owners'[n] = nonce_owners[n]
<1>1. nonce_owners'[n] = IF n \in MadeIn(s, "seen_nonces") THEN Record(s)
                         ELSE nonce_owners[n]
  BY DEF CommitClaims
<1>2. CASE n \in MadeIn(s, "seen_nonces")
  <2>1. PICK claim \in Made(s) : claim.table = "seen_nonces" /\ claim.key = n
    BY <1>2 DEF MadeIn
  <2>2. Committed(claim)
    BY <2>1 DEF Committed
  <2>3. nonce_owners[n] = Link[Job(s).deal]
    BY <2>1, <2>2 DEF Claimed, Ours
  <2>4. Record(s) = Link[Job(s).deal]
    BY <2>1, MadeTypes DEF Record, JobOK
  <2> QED
    BY <1>1, <1>2, <2>3, <2>4
<1>3. CASE n \notin MadeIn(s, "seen_nonces")
  BY <1>1, <1>3
<1> QED
  BY <1>2, <1>3

\* A step commits the claims of one call, or none.
LEMMA CommittedKept ==
  ASSUME NEW s \in Session, Starts(s) \/ Reads(s) \/ Wins(s) \/ Fails(s),
         NEW claim
  PROVE  /\ Committed(claim)' <=> Committed(claim)
         /\ nonce_owners' = nonce_owners /\ decisions' = decisions
BY DEF Starts, Reads, Wins, Fails, tables, Committed

\* No two calls come to hold one key, and no call a key that is not its own.
LEMMA ClaimedStep == ASSUME Shape, Claimed, Effect PROVE Claimed'
<1>1. ASSUME NEW s \in Session, Starts(s) \/ Reads(s) \/ Fails(s)
      PROVE  Claimed'
  <2>1. Only(s)
    BY <1>1 DEF Starts, Reads, Fails, Ends
  <2>2. \A t \in Session : \A claim \in Made(t)' :
          claim \in Made(t) /\ Job(t)' = Job(t)
    BY <1>1, <2>1, OthersClaims, OwnClaims
  <2>3. \A claim : Committed(claim)' <=> Committed(claim)
    BY <1>1, CommittedKept
  <2>4. nonce_owners' = nonce_owners
    BY <1>1, CommittedKept
  <2>5. Exclusive'
    BY <2>2, <2>3 DEF Claimed, Exclusive
  <2>6. Ours'
    BY <2>2, <2>3, <2>4 DEF Claimed, Ours
  <2> QED
    BY <2>5, <2>6 DEF Claimed
<1>2. ASSUME NEW s \in Session, Wins(s) PROVE Claimed'
  <2> DEFINE new == NextClaim(s)
  <2>1. Only(s) /\ Inserted(s, new) = "won"
    BY <1>2 DEF Wins
  <2>2. /\ \A t \in Session : Job(t)' = Job(t)
        /\ \A t \in Session \ {s} : Made(t)' = Made(t)
        /\ Made(s)' = Made(s) \cup {new}
    BY <1>2, <2>1, OthersClaims, OwnClaims
  <2>3. \A claim : Committed(claim)' <=> Committed(claim)
    BY <1>2, CommittedKept
  <2>4. nonce_owners' = nonce_owners
    BY <1>2, CommittedKept
  <2>5. /\ \A t \in Session \ {s} : new \in Made(t) => Committed(new)
        /\ Committed(new) => /\ new.table = "seen_nonces"
                             /\ nonce_owners[new.key] = Record(s)
    BY <2>1, InsertedSays
  <2>6. Shape'
    BY <1>2, ShapeStep DEF Effect
  <2>7. new.table = "seen_nonces" => Record(s) = Link[Job(s).deal]
    <3>1. new \in Made(s)'
      BY <2>2
    <3>2. Job(s)'.kind # "proposal" => new.table = "seen_commands"
      <4>1. CallOK(tx'[s]) /\ tx'[s] \in CallType /\ DOMAIN tx' = Session
        BY <2>6 DEF Shape, Calls, CallOK
      <4>2. tx[s].at = "claim" /\ tx[s].claimed \in Nat /\ JobOK(Job(s))
            /\ tx[s].claimed < ClaimsNeeded(Job(s))
        BY <1>2, UnderWay DEF Wins, CallOK, CallType, Claiming, Job
      <4>3. tx[s].claimed + 1 \in 1..ClaimsNeeded(Job(s))
        BY <4>2 DEF ClaimsNeeded
      <4> QED
        BY <2>2, <4>2, <4>3, ClaimTypes DEF NextClaim, ClaimOf
    <3> QED
      BY <2>2, <3>2 DEF Record
  <2> HIDE DEF new
  <2>8. Exclusive'
    BY <2>2, <2>3, <2>5 DEF Claimed, Exclusive
  <2>9. Ours'
    BY <2>2, <2>3, <2>4, <2>5, <2>7 DEF Claimed, Ours
  <2> QED
    BY <2>8, <2>9 DEF Claimed
<1>3. ASSUME NEW s \in Session, Loses(s) \/ Commits(s) PROVE Claimed'
  <2>1. Only(s) /\ CommitClaims(s)
    BY <1>3 DEF Loses, Commits, Ends
  <2>2. /\ \A t \in Session \ {s} : Made(t)' = Made(t) /\ Job(t)' = Job(t)
        /\ Made(s)' = {}
    BY <1>3, <2>1, OthersClaims, OwnClaims
  <2>3. \A claim \in ClaimSet :
          Committed(claim)' <=> Committed(claim) \/ claim \in Made(s)
    BY <2>1, ClaimsCommitted
  <2>4. \A t \in Session : \A claim \in Made(t) : claim \in ClaimSet
    BY MadeTypes
  <2>5. Exclusive'
    BY <2>2, <2>3, <2>4 DEF Claimed, Exclusive
  <2>6. Ours'
    <3> SUFFICES ASSUME NEW t \in Session \ {s}, NEW claim \in Made(t),
                        Committed(claim)'
                 PROVE  /\ claim.table = "seen_nonces"
                        /\ nonce_owners'[claim.key] = Link[Job(t).deal]
      BY <2>2 DEF Ours
    <3>1. Committed(claim)
      BY <2>3, <2>4 DEF Claimed, Exclusive
    <3>2. /\ claim.table = "seen_nonces"
          /\ nonce_owners[claim.key] = Link[Job(t).deal]
      BY <3>1 DEF Claimed, Ours
    <3>3. claim.key \in Nonces
      BY <2>4, <3>2 DEF ClaimSet
    <3>4. nonce_owners[claim.key] # NoRecord
      BY <3>1, <3>2 DEF Committed
    <3> QED
      BY <2>1, <3>2, <3>3, <3>4, OwnerKept
  <2> QED
    BY <2>5, <2>6 DEF Claimed
<1>4. CASE UNCHANGED vars
  <2>1. \A t \in Session : Made(t)' = Made(t) /\ Job(t)' = Job(t)
    BY <1>4 DEF vars, Made, Job
  <2>2. \A claim : Committed(claim)' <=> Committed(claim)
    BY <1>4 DEF vars, tables, Committed
  <2>3. nonce_owners' = nonce_owners
    BY <1>4 DEF vars, tables
  <2>4. Exclusive'
    BY <2>1, <2>2 DEF Claimed, Exclusive
  <2>5. Ours'
    BY <2>1, <2>2, <2>3 DEF Claimed, Ours
  <2> QED
    BY <2>4, <2>5 DEF Claimed
<1> QED
  BY <1>1, <1>2, <1>3, <1>4 DEF Effect

\* A call that lost a claim finds the decision that won when it asks again.
LEMMA RetriedStep == ASSUME Shape, Claimed, Retried, Effect PROVE Retried'
<1>1. ASSUME NEW s \in Session, Only(s),
             \A k \in Key : decisions[k] # NoDecision =>
                            decisions'[k] # NoDecision,
             /\ tx'[s].again => /\ tx'[s].at = "decision_for"
                                /\ tx'[s].job.kind = "proposal"
                                /\ decisions'[tx'[s].job.proposal.key]
                                     # NoDecision
             /\ told'[s].result # "pass"
      PROVE  Retried'
  <2> SUFFICES ASSUME NEW t \in Session, t # s
               PROVE  /\ tx'[t].again =>
                           /\ tx'[t].at = "decision_for"
                           /\ tx'[t].job.kind = "proposal"
                           /\ decisions'[tx'[t].job.proposal.key] # NoDecision
                      /\ told'[t].result # "pass"
    BY <1>1 DEF Retried, Job, NoDecision
  <2>1. tx'[t] = tx[t] /\ told'[t] = told[t]
    BY <1>1 DEF Only
  <2>2. tx[t].again => JobOK(tx[t].job)
    BY UnderWay DEF Retried, Job
  <2> QED
    BY <1>1, <2>1, <2>2 DEF Retried, Job, JobOK
<1>2. ASSUME NEW s \in Session, Starts(s) \/ Reads(s) \/ Wins(s) \/ Fails(s)
      PROVE  Retried'
  <2>1. Only(s) /\ decisions' = decisions
    BY <1>2, CommittedKept DEF Starts, Reads, Wins, Fails, Ends
  <2>2. tx'[s].again = FALSE
    BY <1>2, FinishedIs, UnderWay
       DEF Starts, Reads, Wins, Fails, Ends, Retried, CallType
  <2>3. told'[s].result # "pass"
    BY <1>2 DEF Starts, Reads, Wins, Fails, Retried
  <2> QED
    BY <1>1, <2>1, <2>2, <2>3
<1>3. ASSUME NEW s \in Session, Loses(s) \/ Commits(s)
      PROVE  \A k \in Key : decisions[k] # NoDecision =>
                            decisions'[k] # NoDecision
  <2>1. CommitClaims(s)
    BY <1>3 DEF Loses, Commits
  <2> QED
    BY <2>1, StoredDecision DEF CommitClaims
<1>4. ASSUME NEW s \in Session, Loses(s) PROVE Retried'
  <2>1. /\ Only(s) /\ CommitClaims(s) /\ Inserted(s, NextClaim(s)) = "lost"
        /\ tx[s].at = "claim" /\ Job(s).kind = "proposal"
        /\ tx'[s].job = tx[s].job /\ tx'[s].at = "decision_for"
        /\ told'[s] = told[s]
    BY <1>4 DEF Loses
  <2>2. /\ JobOK(Job(s)) /\ tx[s].claimed \in Nat
    BY <2>1, UnderWay DEF CallType
  <2>3. PICK one \in ClaimSet :
          /\ one = ClaimOf(Job(s), 1)
          /\ one.table = "idempotency" /\ one.key = Job(s).proposal.key
    BY <2>1, <2>2, ProposalClaims DEF JobOK, ClaimSet
  <2>4. Committed(one) \/ one \in Made(s)
    <3>1. CASE tx[s].claimed = 0
      <4>1. one = NextClaim(s)
        BY <2>3, <3>1 DEF NextClaim, ClaimOf
      <4> QED
        BY <2>1, <4>1, InsertedSays
    <3>2. CASE tx[s].claimed # 0
      <4>1. 1 \in 1..tx[s].claimed
        BY <2>2, <3>2
      <4> QED
        BY <2>3, <4>1 DEF ClaimOf, Made
    <3> QED
      BY <3>1, <3>2
  <2>5. Committed(one)'
    BY <2>1, <2>4, ClaimsCommitted
  <2>6. decisions'[Job(s).proposal.key] # NoDecision
    BY <2>3, <2>5 DEF Committed
  <2> QED
    BY <1>1, <1>3, <1>4, <2>1, <2>6 DEF Retried, Job
<1>5. ASSUME NEW s \in Session, Commits(s) PROVE Retried'
  <2>1. Only(s) /\ tx'[s].again = FALSE /\ told'[s].result # "pass"
    BY <1>5, FinishedIs DEF Commits, Ends
  <2> QED
    BY <1>1, <1>3, <1>5, <2>1
<1>6. CASE UNCHANGED vars
  BY <1>6 DEF vars, tables, Retried, Job, NoDecision
<1> QED
  BY <1>2, <1>4, <1>5, <1>6 DEF Effect


\* The claims are exclusive and held to the commit, throughout.
LEMMA ClaimedHolds == Spec => [](Shape /\ Chained /\ Claimed /\ Retried)
<1>1. Init => Claimed /\ Retried
  <2> SUFFICES ASSUME Init PROVE Claimed /\ Retried
    OBVIOUS
  <2>1. \A s \in Session : /\ tx[s].claimed = 0 /\ tx[s].again = FALSE
                           /\ told[s].result # "pass"
    BY DEF Init, Idle, Told
  <2>2. \A s \in Session : Made(s) = {}
    BY <2>1 DEF Made
  <2> QED
    BY <2>1, <2>2 DEF Claimed, Exclusive, Ours, Retried
<1>2. Shape /\ Chained /\ Claimed /\ Retried /\ [Next]_vars
        => (Claimed /\ Retried)'
  BY StepEffects, ClaimedStep, RetriedStep DEF Chained
<1> QED
  BY <1>1, <1>2, ShapeHolds, PTL DEF Spec

\* A call whose claim was lost asks the gate again and is never told to go on:
\* the call it lost to has stored its decision, which the second reading finds.
\* The boundary's assertion that the second verdict is an answer holds.
THEOREM SecondGateAnswersHolds == Spec => []SecondGateAnswers
<1>1. Retried => SecondGateAnswers
  BY DEF Retried, SecondGateAnswers
<1> QED
  BY <1>1, ClaimedHolds, PTL


-----------------------------------------------------------------------------
(* The rows that calls have written.                                       *)

\* A call that has ended does nothing more.
LEMMA DoneStays ==
  ASSUME Effect, NEW t \in Session, tx[t].at = "done"
  PROVE  tx'[t] = tx[t]
<1>1. ASSUME NEW s \in Session, \/ Starts(s) \/ Reads(s) \/ Wins(s)
                                \/ Loses(s) \/ Fails(s) \/ Commits(s)
      PROVE  tx'[t] = tx[t]
  <2>1. Only(s) /\ tx[s].at # "done"
    BY <1>1 DEF Starts, Reads, Wins, Loses, Fails, Commits, Ends
  <2> QED
    BY <2>1 DEF Only
<1>2. CASE UNCHANGED vars
  BY <1>2 DEF vars
<1> QED
  BY <1>1, <1>2 DEF Effect

\* What has been committed stays committed.
LEMMA CommittedStays ==
  ASSUME Shape, Effect, NEW claim \in ClaimSet, Committed(claim)
  PROVE  Committed(claim)'
<1>1. ASSUME NEW s \in Session, Starts(s) \/ Reads(s) \/ Wins(s) \/ Fails(s)
      PROVE  Committed(claim)'
  BY <1>1, CommittedKept
<1>2. ASSUME NEW s \in Session, Loses(s) \/ Commits(s)
      PROVE  Committed(claim)'
  <2>1. CommitClaims(s)
    BY <1>2 DEF Loses, Commits
  <2> QED
    BY <2>1, ClaimsCommitted
<1>3. CASE UNCHANGED vars
  BY <1>3 DEF vars, tables, Committed
<1> QED
  BY <1>1, <1>2, <1>3 DEF Effect

\* The owner of a nonce stays its owner.
LEMMA OwnerStays ==
  ASSUME Shape, Claimed, Effect, NEW n \in Nonces, nonce_owners[n] # NoRecord
  PROVE  nonce_owners'[n] = nonce_owners[n]
<1>1. ASSUME NEW s \in Session, Starts(s) \/ Reads(s) \/ Wins(s) \/ Fails(s)
      PROVE  nonce_owners' = nonce_owners
  BY <1>1 DEF Starts, Reads, Wins, Fails, tables
<1>2. ASSUME NEW s \in Session, Loses(s) \/ Commits(s)
      PROVE  nonce_owners'[n] = nonce_owners[n]
  <2>1. CommitClaims(s)
    BY <1>2 DEF Loses, Commits
  <2> QED
    BY <2>1, OwnerKept
<1>3. CASE UNCHANGED vars
  BY <1>3 DEF vars, tables
<1> QED
  BY <1>1, <1>2, <1>3 DEF Effect

\* A row was there before the step, or a call has committed it.
Written(s, d, row) ==
  /\ Commits(s) /\ d = Job(s).deal
  /\ \E i \in DOMAIN Plan(s).events : row = NewRow(s, i)

\* What an appended row says of the call that appended it.
LEMMA WrittenIs ==
  ASSUME NEW s \in Session, NEW d, NEW row, Written(s, d, row)
  PROVE  /\ Commits(s) /\ d = Job(s).deal
         /\ row.by = s /\ row.cause = CauseOf(Job(s))
         /\ \E i \in DOMAIN Plan(s).events : row.entry = Plan(s).events[i]
<1>1. PICK i \in DOMAIN Plan(s).events : row = NewRow(s, i)
  BY DEF Written
<1>2. /\ row.by = s /\ row.cause = CauseOf(Job(s))
      /\ row.entry = Plan(s).events[i]
  BY <1>1 DEF NewRow
<1> QED
  BY <1>2 DEF Written

\* Rows are only ever added, each by a commit.
LEMMA RowsGrow ==
  ASSUME Shape, Effect, NEW d \in DealId
  PROVE  /\ rows[d] \subseteq rows'[d]
         /\ \A row \in rows'[d] :
              row \in rows[d] \/ \E s \in Session : Written(s, d, row)
<1>1. ASSUME NEW s \in Session,
             Starts(s) \/ Reads(s) \/ Wins(s) \/ Loses(s) \/ Fails(s)
      PROVE  rows' = rows
  BY <1>1, RowsKept
<1>2. ASSUME NEW s \in Session, Commits(s)
      PROVE  /\ rows[d] \subseteq rows'[d]
             /\ \A row \in rows'[d] : row \in rows[d] \/ Written(s, d, row)
  BY <1>2, RowsAppended DEF Written
<1>3. CASE UNCHANGED vars
  BY <1>3 DEF vars, tables
<1> QED
  BY <1>1, <1>2, <1>3 DEF Effect

\* A call that commits has made every claim of its job.
LEMMA AllMade ==
  ASSUME Shape, NEW s \in Session, Commits(s)
  PROVE  /\ JobOK(Job(s)) /\ tx[s].at = "write" /\ CommitClaims(s)
         /\ \A i \in 1..ClaimsNeeded(Job(s)) : ClaimOf(Job(s), i) \in Made(s)
         /\ Job(s).kind # "proposal" => Made(s) = {ClaimOf(Job(s), 1)}
<1>1. /\ tx[s].at = "write" /\ CommitClaims(s) /\ JobOK(Job(s))
      /\ CallOK(tx[s]) /\ Job(s) = tx[s].job
  BY UnderWay DEF Commits, Job
<1>2. tx[s].claimed = ClaimsNeeded(Job(s))
  BY <1>1 DEF CallOK, Claiming
<1>3. Made(s) = {ClaimOf(Job(s), i) : i \in 1..ClaimsNeeded(Job(s))}
  BY <1>2 DEF Made, ClaimOf
<1>4. ASSUME Job(s).kind # "proposal" PROVE Made(s) = {ClaimOf(Job(s), 1)}
  <2>1. 1..ClaimsNeeded(Job(s)) = {1}
    BY <1>4 DEF ClaimsNeeded
  <2> QED
    BY <1>3, <2>1
<1> QED
  BY <1>1, <1>3, <1>4


\* A row is the work of an ended call that committed the row's cause as its
\* first claim.
Answerable(row) ==
  row.cause # "before" =>
    /\ row.by \in Session
    /\ tx[row.by].at = "done"
    /\ JobOK(Job(row.by))
    /\ CauseOf(Job(row.by)) = row.cause
    /\ \E claim \in ClaimSet : /\ claim = ClaimOf(Job(row.by), 1)
                               /\ Committed(claim)
Attributed == \A d \in DealId : \A row \in rows[d] : Answerable(row)

\* Two jobs with one cause have their first claim in common.
LEMMA CauseIsClaim ==
  ASSUME NEW job, NEW other, JobOK(job), JobOK(other),
         CauseOf(job) = CauseOf(other)
  PROVE  ClaimOf(job, 1) = ClaimOf(other, 1)
<1>1. /\ job.kind = "proposal" => CauseOf(job) \in Key
      /\ job.kind # "proposal" => CauseOf(job) \in CommandId
      /\ other.kind = "proposal" => CauseOf(other) \in Key
      /\ other.kind # "proposal" => CauseOf(other) \in CommandId
  BY DEF JobOK, CauseOf
<1>2. job.kind = "proposal" <=> other.kind = "proposal"
  BY <1>1, PostgresAssumption
<1>3. CASE job.kind = "proposal"
  BY <1>2, <1>3, ProposalClaims DEF CauseOf
<1>4. CASE job.kind # "proposal"
  BY <1>2, <1>4, CommandClaims DEF CauseOf
<1> QED
  BY <1>3, <1>4

\* The first claim is of a table whose keys have no owner.
LEMMA FirstClaim ==
  ASSUME NEW job, JobOK(job)
  PROVE  /\ ClaimOf(job, 1) \in ClaimSet /\ 1 \in 1..ClaimsNeeded(job)
         /\ ClaimOf(job, 1).table # "seen_nonces"
<1>1. 1 \in 1..ClaimsNeeded(job)
  BY DEF ClaimsNeeded
<1>2. ClaimOf(job, 1).table # "seen_nonces"
  BY ProposalClaims, CommandClaims
<1> QED
  BY <1>1, <1>2, ClaimTypes

\* Every effect keeps each row under the claims of its call.
LEMMA AttributedStep ==
  ASSUME Shape, Attributed, Effect
  PROVE  Attributed'
<1> SUFFICES ASSUME NEW d \in DealId, NEW row \in rows'[d],
                    row.cause # "before"
             PROVE  /\ row.by \in Session
                    /\ tx'[row.by].at = "done"
                    /\ JobOK(tx'[row.by].job)
                    /\ CauseOf(tx'[row.by].job) = row.cause
                    /\ \E claim \in ClaimSet :
                         claim = ClaimOf(tx'[row.by].job, 1) /\ Committed(claim)'
  BY DEF Attributed, Answerable, Job
<1>1. CASE row \in rows[d]
  <2>1. PICK s \in Session, claim \in ClaimSet :
          /\ s = row.by /\ tx[s].at = "done" /\ JobOK(Job(s))
          /\ CauseOf(Job(s)) = row.cause
          /\ claim = ClaimOf(Job(s), 1) /\ Committed(claim)
    BY <1>1 DEF Attributed, Answerable
  <2>2. tx'[s] = tx[s] /\ Job(s) = tx[s].job
    BY <2>1, DoneStays DEF Job
  <2>3. Committed(claim)'
    BY <2>1, CommittedStays
  <2> QED
    BY <2>1, <2>2, <2>3
<1>2. ASSUME NEW s \in Session, Written(s, d, row)
      PROVE  /\ row.by = s
             /\ tx'[s].at = "done"
             /\ JobOK(tx'[s].job)
             /\ CauseOf(tx'[s].job) = row.cause
             /\ \E claim \in ClaimSet :
                  claim = ClaimOf(tx'[s].job, 1) /\ Committed(claim)'
  <2>1. Commits(s) /\ row.by = s /\ row.cause = CauseOf(Job(s))
    BY <1>2, WrittenIs
  <2>2. tx'[s].at = "done" /\ tx'[s].job = Job(s) /\ JobOK(Job(s))
    BY <2>1, AllMade, FinishedIs DEF Commits, Ends
  <2>3. PICK claim \in ClaimSet : claim = ClaimOf(tx'[s].job, 1)
    BY <2>2, FirstClaim
  <2>4. claim \in Made(s) /\ CommitClaims(s)
    BY <2>1, <2>2, <2>3, AllMade, FirstClaim
  <2>5. Committed(claim)'
    BY <2>4, ClaimsCommitted
  <2> QED
    BY <2>1, <2>2, <2>3, <2>5
<1> QED
  BY <1>1, <1>2, RowsGrow

\* A call that commits is the first one to write rows with its cause.
LEMMA FirstWithCause ==
  ASSUME Shape, Claimed, Attributed, NEW s \in Session, Commits(s),
         NEW d \in DealId, NEW row \in rows[d]
  PROVE  row.cause = CauseOf(Job(s)) => row.cause = "before"
<1> SUFFICES ASSUME row.cause = CauseOf(Job(s)), row.cause # "before"
             PROVE  FALSE
  OBVIOUS
<1>1. JobOK(Job(s)) /\ ClaimOf(Job(s), 1) \in Made(s)
  BY AllMade, FirstClaim
<1>2. PICK t \in Session : /\ JobOK(Job(t)) /\ CauseOf(Job(t)) = row.cause
                           /\ Committed(ClaimOf(Job(t), 1))
  BY DEF Attributed, Answerable
<1>3. Committed(ClaimOf(Job(s), 1))
  BY <1>1, <1>2, CauseIsClaim
<1> QED
  BY <1>1, <1>3, FirstClaim DEF Claimed, Ours

\* Every effect keeps each command and key applied once.
LEMMA AppliedOnceStep ==
  ASSUME Shape, Claimed, Attributed, AppliedOnce, Effect
  PROVE  AppliedOnce'
<1> SUFFICES ASSUME NEW d \in DealId, NEW one \in rows'[d],
                    NEW e \in DealId, NEW other \in rows'[e],
                    one.cause = other.cause, one.cause # "before"
             PROVE  one.by = other.by
  <2>1. AllRows' = UNION {rows'[d] : d \in DealId}
    BY DEF AllRows
  <2> QED
    BY <2>1 DEF AppliedOnce
<1>1. CASE one \in rows[d] /\ other \in rows[e]
  BY <1>1 DEF AppliedOnce, AllRows
<1>2. ASSUME NEW s \in Session, Commits(s)
      PROVE  /\ one \in rows[d] => one.cause # CauseOf(Job(s))
             /\ other \in rows[e] => other.cause # CauseOf(Job(s))
  BY <1>2, FirstWithCause
<1>3. ASSUME NEW s \in Session
      PROVE  /\ Written(s, d, one) => /\ Commits(s) /\ one.by = s
                                      /\ one.cause = CauseOf(Job(s))
             /\ Written(s, e, other) => /\ Commits(s) /\ other.by = s
                                        /\ other.cause = CauseOf(Job(s))
  BY WrittenIs
<1>4. \A s, t \in Session : Commits(s) /\ Commits(t) => s = t
  <2> SUFFICES ASSUME NEW s \in Session, NEW t \in Session, s # t,
                      Commits(s), Commits(t)
               PROVE  FALSE
    OBVIOUS
  <2>1. tx[t].at = "write" /\ tx'[t] = tx[t] /\ tx'[t].at = "done"
    BY FinishedIs DEF Commits, Ends, Only
  <2> QED
    BY <2>1
<1>5. \/ one \in rows[d] \/ \E s \in Session : Written(s, d, one)
  BY RowsGrow
<1>6. \/ other \in rows[e] \/ \E s \in Session : Written(s, e, other)
  BY RowsGrow
<1> QED
  BY <1>1, <1>2, <1>3, <1>4, <1>5, <1>6


\* A command is committed together with the rows it is the cause of.
LEMMA CommandsStep ==
  ASSUME Shape, CommandsOnRecord, Effect
  PROVE  CommandsOnRecord'
<1> SUFFICES ASSUME NEW c \in seen_commands'
             PROVE  \E d \in DealId : \E row \in rows'[d] : row.cause = c
  BY DEF CommandsOnRecord, AllRows
<1>1. CASE c \in seen_commands
  <2>1. PICK d \in DealId : \E row \in rows[d] : row.cause = c
    BY <1>1 DEF CommandsOnRecord, AllRows
  <2> QED
    BY <2>1, RowsGrow
<1>2. ASSUME NEW s \in Session, Starts(s) \/ Reads(s) \/ Wins(s) \/ Fails(s)
      PROVE  c \in seen_commands
  BY <1>2 DEF Starts, Reads, Wins, Fails, tables
<1>3. ASSUME NEW s \in Session, Loses(s) PROVE c \in seen_commands
  <2>1. MadeIn(s, "seen_commands") = {}
    BY <1>3, MadeTypes DEF Loses, MadeIn
  <2> QED
    BY <1>3, <2>1 DEF Loses, CommitClaims
<1>4. ASSUME NEW s \in Session, Commits(s), c \notin seen_commands
      PROVE  \E d \in DealId : \E row \in rows'[d] : row.cause = c
  <2>1. PICK claim \in Made(s) : claim.table = "seen_commands" /\ claim.key = c
    BY <1>4, AllMade DEF CommitClaims, MadeIn
  <2>2. Job(s).kind # "proposal"
    BY <2>1, MadeTypes
  <2>3. claim = ClaimOf(Job(s), 1)
    BY <1>4, <2>1, <2>2, AllMade
  <2>4. c = CauseOf(Job(s))
    BY <2>1, <2>2, <2>3, CommandClaims DEF CauseOf
  <2>5. PICK n \in Nat \ {0} : DOMAIN Plan(s).events = 1..n
    BY <1>4, RowsAppended DEF Fits
  <2>6. NewRow(s, 1) \in rows'[Job(s).deal] /\ Job(s).deal \in DealId
    BY <1>4, <2>5, RowsAppended
  <2> QED
    BY <2>4, <2>6 DEF NewRow
<1>5. CASE UNCHANGED vars
  BY <1>1, <1>5 DEF vars, tables
<1> QED
  BY <1>1, <1>2, <1>3, <1>4, <1>5 DEF Effect

\* The record that acted owns its nonce.
Owned ==
  \A d \in DealId : \A row \in rows[d] :
    row.by # "before" /\ row.entry.type = "policy_decision" =>
      nonce_owners[Mandate[Link[d]].nonce] = Link[d]

\* Every effect keeps each nonce with its owner.
LEMMA OwnedStep ==
  ASSUME Shape, Claimed, Owned, Effect
  PROVE  Owned'
<1> SUFFICES ASSUME NEW d \in DealId, NEW row \in rows'[d],
                    row.by # "before", row.entry.type = "policy_decision"
             PROVE  nonce_owners'[Mandate[Link[d]].nonce] = Link[d]
  BY DEF Owned
<1> DEFINE n == Mandate[Link[d]].nonce
<1>1. n \in Nonces /\ Link[d] # NoRecord
  BY PostgresAssumption DEF Nonces
<1>2. CASE row \in rows[d]
  <2>1. nonce_owners[n] = Link[d]
    BY <1>2 DEF Owned
  <2> HIDE DEF n
  <2>2. nonce_owners'[n] = nonce_owners[n]
    BY <1>1, <2>1, OwnerStays
  <2> QED
    BY <2>1, <2>2 DEF n
<1>3. ASSUME NEW s \in Session, Written(s, d, row)
      PROVE  nonce_owners'[n] = Link[d]
  <2>1. /\ Commits(s) /\ d = Job(s).deal
        /\ \E i \in DOMAIN Plan(s).events : row.entry = Plan(s).events[i]
    BY <1>3, WrittenIs
  <2>2. Job(s).kind = "proposal"
    BY <2>1, RowsAppended DEF Fits
  <2>3. ClaimOf(Job(s), 3) \in Made(s) /\ CommitClaims(s)
    BY <2>1, <2>2, AllMade DEF ClaimsNeeded
  <2>4. n \in MadeIn(s, "seen_nonces")
    BY <2>1, <2>2, <2>3, ProposalClaims DEF MadeIn
  <2>5. Record(s) = Link[d]
    BY <2>1, <2>2 DEF Record
  <2> HIDE DEF n
  <2> QED
    BY <1>1, <2>3, <2>4, <2>5 DEF CommitClaims
<1> QED
  BY <1>2, <1>3, RowsGrow

Effects == Attributed /\ AppliedOnce /\ CommandsOnRecord /\ Owned

\* The rows, claims and owners agree throughout.
LEMMA EffectsHold == Spec => []Effects
<1>1. Init => Effects
  <2> SUFFICES ASSUME Init PROVE Effects
    OBVIOUS
  <2>1. \A d \in DealId : \A row \in rows[d] :
          row.cause = "before" /\ row.by = "before"
    BY DEF Init
  <2>2. seen_commands = {}
    BY DatabasesAssumption DEF Init
  <2>3. AppliedOnce
    BY <2>1 DEF AppliedOnce, AllRows
  <2>4. Attributed
    BY <2>1 DEF Attributed, Answerable
  <2>5. CommandsOnRecord
    BY <2>2 DEF CommandsOnRecord
  <2>6. Owned
    BY <2>1 DEF Owned
  <2> QED
    BY <2>3, <2>4, <2>5, <2>6 DEF Effects
<1>2. (Shape /\ Chained /\ Claimed /\ Retried) /\ Effects /\ [Next]_vars
        => Effects'
  <2> SUFFICES ASSUME Shape, Chained, Claimed, Effects, [Next]_vars
               PROVE  Effects'
    OBVIOUS
  <2>1. Effect
    BY StepEffects DEF Chained
  <2>2. Attributed'
    BY <2>1, AttributedStep DEF Effects
  <2>3. AppliedOnce'
    BY <2>1, AppliedOnceStep DEF Effects
  <2>4. CommandsOnRecord'
    BY <2>1, CommandsStep DEF Effects
  <2>5. Owned'
    BY <2>1, OwnedStep DEF Effects
  <2> QED
    BY <2>2, <2>3, <2>4, <2>5 DEF Effects
<1> QED
  BY <1>1, <1>2, ClaimedHolds, PTL DEF Spec

\* One idempotency key and one command have the effects of one call, also when
\* several calls handle the same message at the same time: the second one
\* waits for the first one's claim and loses it.
THEOREM AppliedOnceHolds == Spec => []AppliedOnce
BY EffectsHold, PTL DEF Effects

\* A command counts as seen only with its entries in a chain, so that a call
\* that failed or crashed can be retried under the same command.
THEOREM CommandsOnRecordHolds == Spec => []CommandsOnRecord
BY EffectsHold, PTL DEF Effects

\* Two records with one nonce never both act: whoever writes a policy decision
\* has claimed the nonce for its record, and a claimed nonce keeps its owner.
THEOREM NonceSingleOwnerHolds == Spec => []NonceSingleOwner
<1>1. Owned => NonceSingleOwner
  BY DEF Owned, NonceSingleOwner
<1>2. Effects => Owned
  BY DEF Effects
<1> QED
  BY <1>1, <1>2, EffectsHold, PTL



-----------------------------------------------------------------------------
(* The deals' rows.                                                        *)

\* The places where a call goes on with the deal's row as it has read it, and
\* the calls that go on with an approval as they have read it.
Holding ==
  { "read_approval", "read_command", "read_revocations", "claim",
    "chain_head", "write" }
Deciding(s) ==
  Job(s).kind = "decision" /\ tx[s].at \in Holding \ {"read_approval"}

\* A call that holds a copy has just read it or held it before.
Copied(s) ==
  tx'[s].at \in Holding =>
    /\ tx'[s].job = tx[s].job
    /\ \/ tx[s].at \in Holding /\ tx'[s].deal = tx[s].deal
       \/ tx[s].at = "read_deal" /\ tx'[s].deal = deals[Job(s).deal]
    /\ Job(s).kind = "decision" /\ tx'[s].at # "read_approval" =>
         \/ /\ tx[s].at \in Holding \ {"read_approval"}
            /\ tx'[s].approval = tx[s].approval
         \/ /\ tx[s].at = "read_approval"
            /\ tx'[s].approval = approvals[Job(s).request]
            /\ tx'[s].approval.status = "pending"

\* A call that returns is over.
LEMMA ReturnIsDone ==
  ASSUME Shape, NEW s \in Session, NEW answer, Return(s, answer)
  PROVE  tx'[s].at = "done"
BY UnderWay DEF Return, Idle

\* A session that holds no copies has nothing to be overtaken.
LEMMA CopiedNowhere ==
  ASSUME NEW s \in Session, tx'[s].at \notin Holding
  PROVE  Copied(s)
BY DEF Copied

\* The read of a deal copies its row,
LEMMA CopiedReadDeal ==
  ASSUME Shape, NEW s \in Session, ReadDeal(s)
  PROVE  Copied(s)
<1> DEFINE deal == deals[Job(s).deal]
           place == CASE Job(s).kind = "proposal" -> "claim"
                      [] Job(s).kind = "decision" -> "read_approval"
                      [] OTHER -> "read_command"
<1>1. CASE \E answer : Return(s, answer)
  BY <1>1, ReturnIsDone, CopiedNowhere DEF Holding
<1>2. CASE tx' = [tx EXCEPT ![s].deal = deal, ![s].at = place]
  <2>1. tx[s] \in CallType /\ DOMAIN tx = Session /\ tx[s].at = "read_deal"
    BY UnderWay DEF ReadDeal
  <2>2. /\ tx'[s].job = tx[s].job /\ tx'[s].deal = deal
        /\ Job(s).kind = "decision" => tx'[s].at = "read_approval"
    BY <1>2, <2>1 DEF CallType
  <2> QED
    BY <2>1, <2>2 DEF Copied
<1> QED
  BY <1>1, <1>2 DEF ReadDeal

\* that of an approval its row,
LEMMA CopiedReadApproval ==
  ASSUME Shape, NEW s \in Session, ReadApproval(s)
  PROVE  Copied(s)
<1> DEFINE approval == approvals[Job(s).request]
<1>1. CASE \E answer : Return(s, answer)
  BY <1>1, ReturnIsDone, CopiedNowhere DEF Holding
<1>2. CASE /\ tx' = [tx EXCEPT ![s].approval = approval,
                       ![s].at = "read_command"]
           /\ approval # NoApproval /\ approval.status = "pending"
  <2>1. tx[s] \in CallType /\ DOMAIN tx = Session /\ tx[s].at = "read_approval"
    BY UnderWay DEF ReadApproval
  <2>2. /\ tx'[s].job = tx[s].job /\ tx'[s].deal = tx[s].deal
        /\ tx'[s].approval = approval
    BY <1>2, <2>1 DEF CallType
  <2> QED
    BY <1>2, <2>1, <2>2 DEF Copied, Holding
<1> QED
  BY <1>1, <1>2 DEF ReadApproval

\* The other statements of a commit change neither copy.
LEMMA CopiedOn ==
  ASSUME NEW s \in Session, tx[s].at \in Holding \ {"read_approval"},
         tx'[s].job = tx[s].job, tx'[s].deal = tx[s].deal,
         tx'[s].approval = tx[s].approval
  PROVE  Copied(s)
BY DEF Copied

\* the other reads keep the copies,
LEMMA CopiedReads ==
  ASSUME Shape, NEW s \in Session,
         ReadCommand(s) \/ ReadRevocations(s) \/ ChainHead(s)
  PROVE  Copied(s)
<1>1. tx[s] \in CallType /\ DOMAIN tx = Session
  BY UnderWay
<1>2. CASE \E answer : Return(s, answer)
  BY <1>2, ReturnIsDone, CopiedNowhere DEF Holding
<1>3. ASSUME ReadCommand(s), NEW place, Goto(s, place) PROVE Copied(s)
  <2>1. tx[s].at = "read_command"
    BY <1>3 DEF ReadCommand
  <2>2. /\ tx'[s].job = tx[s].job /\ tx'[s].deal = tx[s].deal
        /\ tx'[s].approval = tx[s].approval
    BY <1>1, <1>3 DEF Goto, CallType
  <2> QED
    BY <2>1, <2>2, CopiedOn DEF Holding
<1>4. CASE /\ ReadRevocations(s)
           /\ tx' = [tx EXCEPT ![s].status = StatusNow(s), ![s].at = "claim"]
  <2>1. tx[s].at = "read_revocations"
    BY <1>4 DEF ReadRevocations
  <2>2. /\ tx'[s].job = tx[s].job /\ tx'[s].deal = tx[s].deal
        /\ tx'[s].approval = tx[s].approval
    BY <1>1, <1>4 DEF CallType
  <2> QED
    BY <2>1, <2>2, CopiedOn DEF Holding
<1>5. CASE ChainHead(s)
  <2>1. /\ tx[s].at = "chain_head"
        /\ tx' = [tx EXCEPT ![s].head = LastRow(Job(s).deal), ![s].at = "write"]
    BY <1>5 DEF ChainHead
  <2>2. /\ tx'[s].job = tx[s].job /\ tx'[s].deal = tx[s].deal
        /\ tx'[s].approval = tx[s].approval
    BY <1>1, <2>1 DEF CallType
  <2> QED
    BY <2>1, <2>2, CopiedOn DEF Holding
<1>6. ReadCommand(s) => \/ \E answer : Return(s, answer)
                        \/ \E place : Goto(s, place)
  BY DEF ReadCommand
<1>7. ReadRevocations(s) =>
        \/ \E answer : Return(s, answer)
        \/ tx' = [tx EXCEPT ![s].status = StatusNow(s), ![s].at = "claim"]
  BY DEF ReadRevocations
<1> QED
  BY <1>2, <1>3, <1>4, <1>5, <1>6, <1>7

\* as does a claim;
LEMMA CopiedClaim ==
  ASSUME Shape, NEW s \in Session, Claim(s)
  PROVE  Copied(s)
<1> DEFINE k == tx[s].claimed + 1
           place == IF k = Len(ClaimsOf(Job(s))) THEN "chain_head" ELSE "claim"
<1>1. tx[s] \in CallType /\ DOMAIN tx = Session /\ tx[s].at = "claim"
  BY UnderWay DEF Claim
<1>2. CASE \E answer : Return(s, answer)
  BY <1>2, ReturnIsDone, CopiedNowhere DEF Holding
<1>3. CASE tx' = [tx EXCEPT ![s].claimed = 0, ![s].again = TRUE,
                    ![s].at = "decision_for"]
  <2>1. tx'[s].at = "decision_for"
    BY <1>1, <1>3 DEF CallType
  <2> QED
    BY <2>1, CopiedNowhere DEF Holding
<1>4. CASE tx' = [tx EXCEPT ![s].claimed = k, ![s].at = place]
  <2>1. /\ tx'[s].job = tx[s].job /\ tx'[s].deal = tx[s].deal
        /\ tx'[s].approval = tx[s].approval
    BY <1>1, <1>4 DEF CallType
  <2> QED
    BY <1>1, <2>1, CopiedOn DEF Holding
<1>5. \/ \E answer : Return(s, answer)
      \/ tx' = [tx EXCEPT ![s].claimed = 0, ![s].again = TRUE,
                  ![s].at = "decision_for"]
      \/ tx' = [tx EXCEPT ![s].claimed = k, ![s].at = place]
  BY DEF Claim
<1> QED
  BY <1>2, <1>3, <1>4, <1>5


\* before and after them there are none.
LEMMA CopiedNot ==
  ASSUME Shape, NEW s \in Session,
         \/ \E job \in Jobs : Call(s, job)
         \/ BuildClaim(s) \/ GetDeal(s) \/ DecisionFor(s) \/ SeenRequest(s)
         \/ NonceOwner(s) \/ Write(s) \/ Crash(s)
  PROVE  Copied(s)
<1>1. tx[s] \in CallType /\ DOMAIN tx = Session
  BY UnderWay
<1>2. CASE \E answer : Return(s, answer)
  BY <1>2, ReturnIsDone, CopiedNowhere DEF Holding
<1>3. ASSUME NEW place, place \notin Holding, Goto(s, place) PROVE Copied(s)
  <2>1. tx'[s].at = place
    BY <1>1, <1>3 DEF Goto, CallType
  <2> QED
    BY <1>3, <2>1, CopiedNowhere
<1>4. ASSUME NEW job, Call(s, job) PROVE Copied(s)
  <2>1. tx'[s].at \in {"build_claim", "read_deal"}
    BY <1>1, <1>4 DEF Call, CallType
  <2> QED
    BY <2>1, CopiedNowhere DEF Holding
<1>5. CASE BuildClaim(s)
  <2>1. tx'[s].at = "get_deal"
    BY <1>1, <1>5 DEF BuildClaim, CallType
  <2> QED
    BY <2>1, CopiedNowhere DEF Holding
<1>6. CASE GetDeal(s)
  <2>1. tx'[s].at = "decision_for"
    BY <1>1, <1>6 DEF GetDeal, CallType
  <2> QED
    BY <2>1, CopiedNowhere DEF Holding
<1>7. CASE DecisionFor(s) \/ SeenRequest(s)
  <2>1. \/ \E answer : Return(s, answer)
        \/ Goto(s, "seen_request") \/ Goto(s, "nonce_owner")
    BY <1>7 DEF DecisionFor, SeenRequest
  <2> QED
    BY <1>2, <1>3, <2>1 DEF Holding
<1>8. ASSUME NEW decision,
             tx' = [tx EXCEPT ![s].decision = decision, ![s].at = "read_deal"]
      PROVE  Copied(s)
  <2>1. tx'[s].at = "read_deal"
    BY <1>1, <1>8 DEF CallType
  <2> QED
    BY <2>1, CopiedNowhere DEF Holding
<1>9. NonceOwner(s) =>
        \/ \E answer : Return(s, answer)
        \/ \E decision : tx' = [tx EXCEPT ![s].decision = decision,
                                  ![s].at = "read_deal"]
  BY DEF NonceOwner
<1>10. Write(s) \/ Crash(s) => \E answer : Return(s, answer)
  BY DEF Write, Crash
<1> QED
  BY <1>2, <1>4, <1>5, <1>6, <1>7, <1>8, <1>9, <1>10

\* A commit that writes the deal's row makes the copies of the others outdated,
\* and overtakes the row when its own copy was.
Recorded(s) ==
  /\ outdated' = IF WritesDeal(s)
                 THEN outdated \cup (HaveRead(Job(s).deal) \ {s})
                 ELSE outdated
  /\ overtaken' = IF WritesDeal(s) /\ s \in outdated
                  THEN overtaken \cup {Job(s).deal} ELSE overtaken

Quiet(s) ==
  /\ Starts(s) \/ Reads(s) \/ Wins(s) \/ Loses(s) \/ Fails(s)
  /\ Copied(s)
  /\ UNCHANGED history

Movement ==
  \/ \E s \in Session : Quiet(s) \/ (Commits(s) /\ Recorded(s))
  \/ UNCHANGED vars

\* Every statement of a session is one of the movements.
LEMMA StepMovement == Shape /\ Numbered /\ [Next]_vars => Movement
<1> SUFFICES ASSUME Shape, Numbered, [Next]_vars PROVE Movement
  OBVIOUS
<1>1. ASSUME NEW s \in Session, NEW job \in Jobs, Call(s, job) PROVE Quiet(s)
  <2>1. UNCHANGED history
    BY <1>1 DEF Call
  <2> QED
    BY <1>1, <2>1, CallStep, CopiedNot DEF Quiet
<1>2. ASSUME NEW s \in Session, BuildClaim(s) \/ GetDeal(s) PROVE Quiet(s)
  <2>1. UNCHANGED history
    BY <1>2 DEF BuildClaim, GetDeal
  <2> QED
    BY <1>2, <2>1, BuildClaimStep, GetDealStep, CopiedNot DEF Quiet
<1>3. ASSUME NEW s \in Session,
             DecisionFor(s) \/ SeenRequest(s) \/ NonceOwner(s)
      PROVE  Quiet(s)
  <2>1. UNCHANGED history
    BY <1>3 DEF DecisionFor, SeenRequest, NonceOwner
  <2> QED
    BY <1>3, <2>1, DecisionForStep, SeenRequestStep, NonceOwnerStep, CopiedNot
       DEF Quiet
<1>4. ASSUME NEW s \in Session, ReadDeal(s) \/ ReadApproval(s)
      PROVE  Quiet(s)
  <2>1. UNCHANGED history
    BY <1>4 DEF ReadDeal, ReadApproval
  <2> QED
    BY <1>4, <2>1, ReadDealStep, ReadApprovalStep, CopiedReadDeal,
       CopiedReadApproval DEF Quiet
<1>5. ASSUME NEW s \in Session,
             ReadCommand(s) \/ ReadRevocations(s) \/ ChainHead(s)
      PROVE  Quiet(s)
  <2>1. UNCHANGED history
    BY <1>5 DEF ReadCommand, ReadRevocations, ChainHead
  <2> QED
    BY <1>5, <2>1, ReadCommandStep, ReadRevocationsStep, ChainHeadStep,
       CopiedReads DEF Quiet
<1>6. ASSUME NEW s \in Session, Claim(s) PROVE Quiet(s)
  <2>1. UNCHANGED history
    BY <1>6 DEF Claim
  <2> QED
    BY <1>6, <2>1, ClaimStep, CopiedClaim DEF Quiet
<1>7. ASSUME NEW s \in Session, Write(s)
      PROVE  Quiet(s) \/ (Commits(s) /\ Recorded(s))
  <2>1. CASE SeqTaken(s)
    <3>1. ~ Commits(s) /\ UNCHANGED history
      BY <1>7, <2>1 DEF Write, Commits
    <3> QED
      BY <1>7, <3>1, WriteStep, CopiedNot DEF Quiet
  <2>2. CASE ~ SeqTaken(s)
    <3>1. Recorded(s)
      BY <1>7, <2>2 DEF Write, Recorded
    <3>2. tx[s].at = "write" /\ rows' # rows
      <4>1. /\ tx[s].at = "write"
            /\ rows' = [rows EXCEPT ![Job(s).deal] =
                          @ \cup RowsOf(s, Plan(s).events)]
        BY <1>7, <2>2 DEF Write
      <4>2. PICK n \in Nat \ {0} : DOMAIN Plan(s).events = 1..n
        BY <4>1, PlanFits DEF Fits
      <4>3. /\ Job(s).deal \in DealId /\ DOMAIN rows = DealId
            /\ tx[s].head.seq \in Nat
        BY <4>1, UnderWay DEF JobOK, Shape, Tables, CallType
      <4>4. NewRow(s, 1) \in rows'[Job(s).deal]
        BY <4>1, <4>2, <4>3 DEF RowsOf, NewRow
      <4>5. NewRow(s, 1).seq = tx[s].head.seq + 1
        BY DEF NewRow
      <4>6. NewRow(s, 1) \notin rows[Job(s).deal]
        BY <2>2, <4>5 DEF SeqTaken
      <4> QED
        BY <4>1, <4>4, <4>6
    <3>3. ~ Fails(s)
      BY <3>2 DEF Fails, tables
    <3> QED
      BY <1>7, <3>1, <3>3, WriteStep
  <2> QED
    BY <2>1, <2>2
<1>8. ASSUME NEW s \in Session, Crash(s) PROVE Quiet(s)
  <2>1. UNCHANGED history
    BY <1>8 DEF Crash
  <2> QED
    BY <1>8, <2>1, CrashStep, CopiedNot DEF Quiet
<1>9. CASE UNCHANGED vars
  BY <1>9 DEF Movement
<1> QED
  BY <1>1, <1>2, <1>3, <1>4, <1>5, <1>6, <1>7, <1>8, <1>9
     DEF Next, Step, AllDone, Movement

\* The movements are effects, with the copies told apart.
LEMMA MovementIsEffect == Movement => Effect
BY DEF Movement, Quiet, Effect


\* An approval belongs to the deal it is decided for and to a claimed request.
Placed ==
  \A job \in Jobs : job.kind = "decision" =>
    \/ approvals[job.request] = NoApproval
    \/ approvals[job.request].deal = job.deal
Asked == \A q \in RequestId : approvals[q] # NoApproval => q \in seen_requests
Deciders ==
  \A s \in Session : Deciding(s) =>
    /\ tx[s].approval.deal = Job(s).deal
    /\ approvals[Job(s).request] # NoApproval

\* A copy that is not outdated is what is stored.
Fresh ==
  \A s \in Session \ outdated : tx[s].at \in Holding =>
    /\ tx[s].deal = deals[Job(s).deal]
    /\ Deciding(s) => /\ tx[s].approval = approvals[Job(s).request]
                      /\ tx[s].approval.status = "pending"

\* The open approvals of a deal are counted in its row.
Counted ==
  \A d \in DealId :
    /\ IsFiniteSet(PendingFor(approvals, d))
    /\ d \notin overtaken =>
         Cardinality(PendingFor(approvals, d)) <= deals[d].open_approvals

Copies == Placed /\ Asked /\ Deciders /\ Fresh /\ Counted

\* What a call that commits knows of the approval it writes.
LEMMA HeldIsNew ==
  ASSUME Shape, Claimed, Copies, NEW s \in Session, Commits(s),
         Job(s).kind = "proposal"
  PROVE  /\ Job(s).request \in RequestId
         /\ approvals[Job(s).request] = NoApproval
         /\ Job(s).request \in seen_requests'
         /\ WritesApproval(s) => Plan(s).approval.deal = Job(s).deal
<1>1. /\ JobOK(Job(s)) /\ CommitClaims(s) /\ ClaimOf(Job(s), 2) \in Made(s)
      /\ Job(s).request \in RequestId
  BY AllMade DEF ClaimsNeeded, JobOK
<1>2. PICK claim \in Made(s) :
        claim.table = "seen_requests" /\ claim.key = Job(s).request
  BY <1>1, ProposalClaims
<1>3. Job(s).request \in seen_requests'
  BY <1>1, <1>2 DEF CommitClaims, MadeIn
<1>4. Job(s).request \notin seen_requests
  BY <1>2 DEF Claimed, Ours, Committed
<1>5. approvals[Job(s).request] = NoApproval
  BY <1>1, <1>4 DEF Copies, Asked
<1>6. ASSUME WritesApproval(s) PROVE Plan(s).approval.deal = Job(s).deal
  <2>1. tx[s].decision.outcome = "needs_approval"
    BY <1>6 DEF WritesApproval
  <2>2. Plan(s).approval.deal = Job(s).proposal.deal
    BY <2>1 DEF Plan, PlanCommitRequest
  <2>3. Job(s) \in Jobs
    BY RowsAppended
  <2> QED
    BY <2>2, <2>3, JobsAssumption
<1> QED
  BY <1>1, <1>3, <1>5, <1>6

\* A decision that commits is about an approval of its deal.
LEMMA DecidedIsOld ==
  ASSUME Shape, Copies, NEW s \in Session, Commits(s),
         Job(s).kind = "decision"
  PROVE  /\ Job(s).request \in RequestId
         /\ approvals[Job(s).request] # NoApproval
         /\ approvals[Job(s).request].deal = Job(s).deal
         /\ tx[s].approval \in Approval
         /\ Plan(s).approval.deal = Job(s).deal
         /\ Plan(s).approval.status # "pending"
<1>1. /\ Job(s) \in Jobs /\ JobOK(Job(s)) /\ CallOK(tx[s])
      /\ tx[s].at = "write" /\ Deciding(s)
  BY UnderWay, RowsAppended DEF Commits, Deciding, Holding
<1>2. tx[s].approval \in Approval
  BY <1>1 DEF CallOK, Equipped, Committing, Job
<1>3. /\ approvals[Job(s).request] # NoApproval
      /\ tx[s].approval.deal = Job(s).deal
  BY <1>1 DEF Copies, Deciders
<1>4. /\ Plan(s).approval.deal = tx[s].approval.deal
      /\ Plan(s).approval.status # "pending"
  <2>1. Plan(s) = PlanCommitApproval(tx[s].deal, Job(s).request, tx[s].approval,
                    Job(s).operation, tx[s].status = "active")
    BY DEF Plan
  <2> QED
    BY <1>2, <2>1 DEF PlanCommitApproval, Approval
<1>5. approvals[Job(s).request].deal = Job(s).deal
  BY <1>1, <1>3 DEF Copies, Placed
<1>6. Job(s).request \in RequestId
  BY <1>1 DEF JobOK
<1> QED
  BY <1>2, <1>3, <1>4, <1>5, <1>6

\* The approval that a call writes, if it writes one: of its own deal, and in
\* place of none or of one of that deal.
Replaced(s) ==
  LET q == Job(s).request IN
  /\ q \in RequestId
  /\ approvals' = [approvals EXCEPT ![q] = Plan(s).approval]
  /\ Plan(s).approval \in Approval /\ Plan(s).approval.deal = Job(s).deal
  /\ \/ approvals[q] = NoApproval
     \/ Job(s).kind = "decision" /\ approvals[q].deal = Job(s).deal
  /\ q \in seen_requests'

\* A commit forgets no request.
LEMMA SeenGrows ==
  ASSUME NEW s \in Session, CommitClaims(s)
  PROVE  seen_requests \subseteq seen_requests'
BY DEF CommitClaims

\* A commit writes the approval's row with the deal's, or leaves it alone.
LEMMA ApprovalWritten ==
  ASSUME Shape, Claimed, Copies, NEW s \in Session, Commits(s)
  PROVE  /\ WritesApproval(s) => Replaced(s) /\ WritesDeal(s)
         /\ ~ WritesApproval(s) => approvals' = approvals
<1>1. ~ WritesApproval(s) => approvals' = approvals
  BY DEF Commits
<1>2. ASSUME WritesApproval(s) PROVE Replaced(s) /\ WritesDeal(s)
  <2>1. /\ approvals' = [approvals EXCEPT ![Job(s).request] = Plan(s).approval]
        /\ Plan(s).approval \in Approval
        /\ seen_requests \subseteq seen_requests'
    BY <1>2, RowsAppended, SeenGrows DEF Commits, Fits
  <2>2. WritesDeal(s)
    BY <1>2 DEF WritesApproval, WritesDeal
  <2>3. CASE Job(s).kind = "proposal"
    BY <1>2, <2>1, <2>2, <2>3, HeldIsNew DEF Replaced
  <2>4. CASE Job(s).kind # "proposal"
    <3>1. Job(s).kind = "decision"
      BY <1>2, <2>4 DEF WritesApproval
    <3>2. Job(s).request \in seen_requests
      BY <3>1, DecidedIsOld DEF Copies, Asked
    <3> QED
      BY <2>1, <2>2, <3>1, <3>2, DecidedIsOld DEF Replaced
  <2> QED
    BY <2>3, <2>4
<1> QED
  BY <1>1, <1>2


\* A step that is no commit keeps the rows, the approvals and the history.
LEMMA QuietKeeps ==
  ASSUME NEW s \in Session, Quiet(s)
  PROVE  /\ deals' = deals /\ approvals' = approvals /\ rows' = rows
         /\ outdated' = outdated /\ overtaken' = overtaken
         /\ seen_requests \subseteq seen_requests'
         /\ Only(s) /\ Copied(s)
<1>1. CASE Starts(s) \/ Reads(s) \/ Wins(s) \/ Fails(s)
  BY <1>1 DEF Quiet, Starts, Reads, Wins, Fails, Ends, tables, history
<1>2. CASE Loses(s)
  BY <1>2, SeenGrows DEF Quiet, Loses, history
<1> QED
  BY <1>1, <1>2 DEF Quiet

\* The copies of a call that another call's step leaves alone.
LEMMA OtherCall ==
  ASSUME NEW s \in Session, Only(s), NEW t \in Session \ {s}
  PROVE  tx'[t] = tx[t] /\ Job(t)' = Job(t) /\ (Deciding(t)' <=> Deciding(t))
BY DEF Only, Job, Deciding

\* A movement that writes nothing keeps the copies as they were read.
LEMMA QuietCopies ==
  ASSUME Shape, Copies, NEW s \in Session, Quiet(s)
  PROVE  Copies'
<1>1. /\ deals' = deals /\ approvals' = approvals
      /\ outdated' = outdated /\ overtaken' = overtaken
      /\ seen_requests \subseteq seen_requests'
      /\ Only(s) /\ Copied(s)
  BY QuietKeeps
<1>2. Placed' /\ Asked' /\ Counted'
  BY <1>1 DEF Copies, Placed, Asked, Counted, PendingFor
<1>3. Deciders'
  <2> SUFFICES ASSUME NEW t \in Session, Deciding(t)'
               PROVE  /\ tx'[t].approval.deal = tx'[t].job.deal
                      /\ approvals[tx'[t].job.request] # NoApproval
    BY <1>1 DEF Deciders, Job
  <2>1. CASE t # s
    BY <1>1, <2>1, OtherCall DEF Copies, Deciders, Job
  <2>2. CASE t = s
    <3>1. /\ tx'[s].at \in Holding \ {"read_approval"}
          /\ tx'[s].job.kind = "decision"
      BY <2>2 DEF Deciding, Job
    <3>2. tx'[s].job = tx[s].job /\ Job(s).kind = "decision" /\ tx[s].at # "idle"
      BY <1>1, <3>1 DEF Copied, Job, Holding
    <3>3. Job(s) \in Jobs
      BY <3>2, UnderWay
    <3>4. CASE /\ tx[s].at \in Holding \ {"read_approval"}
               /\ tx'[s].approval = tx[s].approval
      BY <2>2, <3>2, <3>4 DEF Copies, Deciders, Deciding, Job
    <3>5. CASE /\ tx'[s].approval = approvals[Job(s).request]
               /\ tx'[s].approval.status = "pending"
      <4>1. approvals[Job(s).request] # NoApproval
        BY <3>5 DEF NoApproval
      <4>2. approvals[Job(s).request].deal = Job(s).deal
        BY <3>2, <3>3, <4>1 DEF Copies, Placed
      <4> QED
        BY <2>2, <3>2, <3>5, <4>1, <4>2 DEF Job
    <3> QED
      BY <1>1, <3>1, <3>2, <3>4, <3>5 DEF Copied
  <2> QED
    BY <2>1, <2>2
<1>4. Fresh'
  <2> SUFFICES ASSUME NEW t \in Session \ outdated, tx'[t].at \in Holding
               PROVE  /\ tx'[t].deal = deals[tx'[t].job.deal]
                      /\ Deciding(t)' =>
                           /\ tx'[t].approval = approvals[tx'[t].job.request]
                           /\ tx'[t].approval.status = "pending"
    BY <1>1 DEF Fresh, Job
  <2>1. CASE t # s
    BY <1>1, <2>1, OtherCall DEF Copies, Fresh, Job
  <2>2. CASE t = s
    <3>1. tx'[s].job = tx[s].job /\ tx[s].job = Job(s)
      BY <1>1, <2>2 DEF Copied, Job
    <3>2. tx'[s].deal = deals[tx'[s].job.deal]
      BY <1>1, <2>2, <3>1 DEF Copied, Copies, Fresh
    <3>3. ASSUME Deciding(s)'
          PROVE  /\ tx'[s].approval = approvals[tx'[s].job.request]
                 /\ tx'[s].approval.status = "pending"
      <4>1. Job(s).kind = "decision" /\ tx'[s].at # "read_approval"
        BY <3>1, <3>3 DEF Deciding, Job
      <4>2. CASE /\ tx[s].at \in Holding \ {"read_approval"}
                 /\ tx'[s].approval = tx[s].approval
        BY <2>2, <3>1, <4>1, <4>2 DEF Copies, Fresh, Deciding
      <4>3. CASE /\ tx'[s].approval = approvals[Job(s).request]
                 /\ tx'[s].approval.status = "pending"
        BY <3>1, <4>3
      <4> QED
        BY <1>1, <2>2, <4>1, <4>2, <4>3 DEF Copied
    <3> QED
      BY <2>2, <3>2, <3>3
  <2> QED
    BY <2>1, <2>2
<1> QED
  BY <1>2, <1>3, <1>4 DEF Copies


\* Of the approvals, a commit touches at most the one it replaces.
LEMMA OtherApprovals ==
  ASSUME Shape, Claimed, Copies, NEW s \in Session, Commits(s),
         NEW q \in RequestId, approvals'[q] # approvals[q]
  PROVE  /\ q = Job(s).request /\ WritesDeal(s) /\ Replaced(s)
         /\ approvals'[q] = Plan(s).approval
<1>1. WritesApproval(s) /\ Replaced(s) /\ WritesDeal(s)
  BY ApprovalWritten
<1>2. approvals \in [RequestId -> Approval \cup {NoApproval}]
  BY DEF Shape, Tables
<1> QED
  BY <1>1, <1>2 DEF Replaced

\* The absent approval is no approval.
LEMMA NoApprovalApart == \A a \in Approval : a # NoApproval
BY DEF Approval, NoApproval

\* A commit keeps every approval with its deal and its claimed request.
LEMMA CommitPlaced ==
  ASSUME Shape, Claimed, Copies, NEW s \in Session, Commits(s)
  PROVE  Placed' /\ Asked' /\ Deciders'
<1>1. CommitClaims(s) /\ Only(s) /\ tx'[s].at = "done"
  BY FinishedIs DEF Commits, Ends
<1>2. Placed'
  <2> SUFFICES ASSUME NEW job \in Jobs, job.kind = "decision",
                      approvals'[job.request] # NoApproval
               PROVE  approvals'[job.request].deal = job.deal
    BY DEF Placed
  <2>1. job.request \in RequestId
    BY JobShape DEF JobOK
  <2>2. CASE approvals'[job.request] = approvals[job.request]
    BY <2>2 DEF Copies, Placed
  <2>3. CASE approvals'[job.request] # approvals[job.request]
    <3>1. /\ job.request = Job(s).request /\ Replaced(s)
          /\ approvals'[job.request] = Plan(s).approval
      BY <2>1, <2>3, OtherApprovals
    <3>2. Plan(s).approval.deal = Job(s).deal
      BY <3>1 DEF Replaced
    <3>3. Job(s) \in Jobs
      BY RowsAppended
    <3>4. CASE Job(s).kind = "proposal"
      BY <3>1, <3>2, <3>3, <3>4, JobsAssumption
    <3>5. CASE Job(s).kind # "proposal"
      <4>1. WritesApproval(s)
        BY <2>3, ApprovalWritten
      <4>2. Job(s).kind = "decision"
        BY <3>5, <4>1 DEF WritesApproval
      <4>3. /\ approvals[Job(s).request] # NoApproval
            /\ approvals[Job(s).request].deal = Job(s).deal
        BY <4>2, DecidedIsOld
      <4>4. approvals[job.request].deal = job.deal
        BY <3>1, <4>3 DEF Copies, Placed
      <4> QED
        BY <3>1, <3>2, <4>3, <4>4
    <3> QED
      BY <3>4, <3>5
  <2> QED
    BY <2>2, <2>3
<1>3. Asked'
  <2> SUFFICES ASSUME NEW q \in RequestId, approvals'[q] # NoApproval
               PROVE  q \in seen_requests'
    BY DEF Asked
  <2>1. CASE approvals'[q] = approvals[q]
    BY <1>1, <2>1, SeenGrows DEF Copies, Asked
  <2>2. CASE approvals'[q] # approvals[q]
    BY <2>2, OtherApprovals DEF Replaced
  <2> QED
    BY <2>1, <2>2
<1>4. Deciders'
  <2> SUFFICES ASSUME NEW t \in Session, Deciding(t)'
               PROVE  /\ tx'[t].approval.deal = tx'[t].job.deal
                      /\ approvals'[tx'[t].job.request] # NoApproval
    BY DEF Deciders, Job
  <2>1. t # s
    BY <1>1 DEF Deciding, Holding
  <2>2. tx'[t] = tx[t] /\ Deciding(t) /\ Job(t) = tx[t].job
    BY <1>1, <2>1, OtherCall DEF Job
  <2>3. /\ tx[t].approval.deal = Job(t).deal
        /\ approvals[Job(t).request] # NoApproval
    BY <2>2 DEF Copies, Deciders
  <2>4. Job(t).request \in RequestId
    BY <2>2, UnderWay DEF Deciding, Holding, JobOK
  <2>5. approvals'[Job(t).request] # NoApproval
    BY <2>3, <2>4, OtherApprovals, NoApprovalApart DEF Replaced
  <2> QED
    BY <2>2, <2>3, <2>5
<1> QED
  BY <1>2, <1>3, <1>4

\* The copies that a commit does not outdate are of other deals.
LEMMA CommitFresh ==
  ASSUME Shape, Claimed, Copies, NEW s \in Session, Commits(s), Recorded(s)
  PROVE  Fresh'
<1>1. Only(s) /\ tx'[s].at = "done"
  BY FinishedIs DEF Commits, Ends
<1> SUFFICES ASSUME NEW t \in Session, t \notin outdated',
                    tx'[t].at \in Holding
             PROVE  /\ tx'[t].deal = deals'[tx'[t].job.deal]
                    /\ Deciding(t)' =>
                         /\ tx'[t].approval = approvals'[tx'[t].job.request]
                         /\ tx'[t].approval.status = "pending"
  BY DEF Fresh, Job
<1>2. t # s
  BY <1>1 DEF Holding
<1>3. /\ tx'[t] = tx[t] /\ Job(t) = tx[t].job
      /\ Deciding(t)' <=> Deciding(t)
  BY <1>1, <1>2, OtherCall DEF Job
<1>4. t \notin outdated
  BY DEF Recorded
<1>5. /\ tx[t].deal = deals[Job(t).deal]
      /\ Deciding(t) => /\ tx[t].approval = approvals[Job(t).request]
                        /\ tx[t].approval.status = "pending"
  BY <1>3, <1>4 DEF Copies, Fresh
<1>6. Job(t) \in Jobs /\ JobOK(Job(t)) /\ Job(t).kind # "none"
  BY <1>3, UnderWay DEF Holding, JobOK
<1>7. WritesDeal(s) => Job(t).deal # Job(s).deal
  BY <1>2, <1>3, <1>6 DEF Recorded, HaveRead, Holding
<1>8. deals'[Job(t).deal] = deals[Job(t).deal]
  <2>1. /\ deals' = IF WritesDeal(s)
                    THEN [deals EXCEPT ![Job(s).deal] = Plan(s).deal]
                    ELSE deals
    BY DEF Commits
  <2> QED
    BY <1>7, <2>1 DEF Shape, Tables
<1>9. ASSUME Deciding(t)
      PROVE  approvals'[Job(t).request] = approvals[Job(t).request]
  <2> SUFFICES ASSUME approvals'[Job(t).request] # approvals[Job(t).request]
               PROVE  FALSE
    OBVIOUS
  <2>1. Job(t).request \in RequestId /\ Job(t).kind = "decision"
    BY <1>6, <1>9 DEF Deciding, JobOK
  <2>2. /\ Job(t).request = Job(s).request /\ WritesDeal(s) /\ Replaced(s)
    BY <2>1, OtherApprovals
  <2>3. approvals[Job(t).request] # NoApproval
    BY <1>9 DEF Copies, Deciders
  <2>4. approvals[Job(t).request].deal = Job(t).deal
    BY <1>6, <2>1, <2>3 DEF Copies, Placed
  <2>5. approvals[Job(t).request].deal = Job(s).deal
    BY <2>2, <2>3 DEF Replaced
  <2> QED
    BY <1>7, <2>2, <2>4, <2>5
<1> QED
  BY <1>3, <1>5, <1>8, <1>9


\* What a plan does to the count of open approvals.
LEMMA PlanCounts ==
  ASSUME NEW s \in Session, tx[s].deal \in Deal, WritesDeal(s),
         JobOK(Job(s))
  PROVE  Plan(s).deal.open_approvals =
           IF Job(s).kind = "decision" THEN Decrement(tx[s].deal.open_approvals)
           ELSE IF WritesApproval(s) THEN tx[s].deal.open_approvals + 1
           ELSE tx[s].deal.open_approvals
<1> DEFINE deal == tx[s].deal
<1>1. deal \in Deal
  OBVIOUS
<1>2. \A event, target, amount :
        ApplyEvent(deal, event, target, amount).open_approvals =
          deal.open_approvals
  BY DEF ApplyEvent
<1>3. \A action, amount : ActionEvents[action] # NoEvent =>
        ApplyAction(deal, action, amount) =
          ApplyEvent(deal, ActionEvents[action],
                     TransitionFor(deal.state, ActionEvents[action]), amount)
  BY DEF ApplyAction, ActionEvents
<1>4. CASE Job(s).kind = "proposal"
  <2> DEFINE p == Job(s).proposal
             event == PlannedEvent(p, tx[s].decision)
             plan == PlanCommitRequest(deal, Job(s).request, p, Record(s),
                                       tx[s].decision)
  <2>1. Plan(s) = plan
    BY <1>4 DEF Plan
  <2>2. CASE tx[s].decision.outcome = "needs_approval"
    <3>1. plan.deal = [deal EXCEPT !.open_approvals = @ + 1]
      BY <2>2 DEF PlanCommitRequest
    <3>2. plan.deal.open_approvals = deal.open_approvals + 1
      BY <1>1, <3>1 DEF Deal
    <3> QED
      BY <1>4, <2>1, <2>2, <3>2 DEF WritesApproval
  <2>3. CASE tx[s].decision.outcome # "needs_approval"
    <3>1. event # NoEvent /\ event = ActionEvents[p.action]
      BY <1>4, <2>3 DEF WritesDeal, EventOf, PlannedEvent
    <3>2. plan.deal = ApplyAction(deal, p.action, p.amount)
      BY <2>3, <3>1 DEF PlanCommitRequest
    <3>3. plan.deal.open_approvals = deal.open_approvals
      BY <1>2, <1>3, <3>1, <3>2
    <3> QED
      BY <1>4, <2>1, <2>3, <3>3 DEF WritesApproval
  <2> QED
    BY <2>2, <2>3
<1>5. CASE Job(s).kind = "event"
  <2>1. Plan(s).deal.open_approvals = deal.open_approvals
    BY <1>2, <1>5 DEF Plan, PlanCommitTransition
  <2> QED
    BY <1>5, <2>1 DEF WritesApproval
<1>6. CASE Job(s).kind = "decision"
  <2> DEFINE a == tx[s].approval
             current == tx[s].status = "active"
             moved == ApplyAction(deal, a.action, a.amount)
             plan == PlanCommitApproval(deal, Job(s).request, a,
                                        Job(s).operation, current)
  <2>1. Plan(s) = plan
    BY <1>6 DEF Plan
  <2>2. CASE /\ Job(s).operation = "granted" /\ ~ ForcedDeny(deal, a, current)
    <3>1. ActionEvents[a.action] # NoEvent /\ plan.deal = Closed(moved)
      BY <2>2 DEF ForcedDeny, PlanCommitApproval
    <3>2. moved = ApplyEvent(deal, ActionEvents[a.action],
                    TransitionFor(deal.state, ActionEvents[a.action]), a.amount)
      BY <1>3, <3>1
    <3>3. Closed(moved).open_approvals = Decrement(deal.open_approvals)
      BY <3>2 DEF Closed, ApplyEvent
    <3> QED
      BY <1>6, <2>1, <3>1, <3>3
  <2>3. CASE ~ (/\ Job(s).operation = "granted"
                /\ ~ ForcedDeny(deal, a, current))
    <3>1. plan.deal = Closed(deal)
      BY <2>3 DEF PlanCommitApproval
    <3>2. Closed(deal).open_approvals = Decrement(deal.open_approvals)
      BY <1>1 DEF Closed, Deal
    <3> QED
      BY <1>6, <2>1, <3>1, <3>2
  <2> QED
    BY <2>2, <2>3
<1>7. Job(s).kind # "revocation"
  BY DEF WritesDeal
<1> QED
  BY <1>4, <1>5, <1>6, <1>7 DEF JobOK

\* A call whose copy is not outdated answers an approval that is still open.
LEMMA StillPending ==
  ASSUME Shape, Copies, NEW s \in Session, Commits(s),
         Job(s).kind = "decision", s \notin outdated
  PROVE  /\ Job(s).request \in PendingFor(approvals, Job(s).deal)
         /\ Job(s).deal \notin overtaken => deals[Job(s).deal].open_approvals > 0
<1> DEFINE d == Job(s).deal
           q == Job(s).request
           open == PendingFor(approvals, d)
<1>1. /\ tx[s].at = "write" /\ Deciding(s) /\ d \in DealId
  BY RowsAppended DEF Commits, Deciding, Holding
<1>2. approvals[q].status = "pending"
  BY <1>1 DEF Copies, Fresh, Holding
<1>3. /\ q \in RequestId /\ approvals[q] # NoApproval /\ approvals[q].deal = d
  BY DecidedIsOld
<1>4. q \in open
  BY <1>2, <1>3 DEF PendingFor
<1>5. ASSUME d \notin overtaken PROVE deals[d].open_approvals > 0
  <2> HIDE DEF d, q, open
  <2>1. /\ IsFiniteSet(open)
        /\ Cardinality(open) <= deals[d].open_approvals
    BY <1>1, <1>5 DEF Copies, Counted, open
  <2>2. Cardinality(open) \in Nat /\ Cardinality(open) # 0
    BY <1>4, <2>1, FS_CardinalityType, FS_EmptySet
  <2>3. deals[d].open_approvals \in Nat
    BY <1>1 DEF Shape, Tables, Deal
  <2> QED
    BY <2>1, <2>2, <2>3
<1> QED
  BY <1>4, <1>5

\* What a commit does to a deal's open approvals and to their count.
LEMMA CommitCountsOwn ==
  ASSUME Shape, Claimed, Copies, NEW s \in Session, Commits(s),
         WritesDeal(s), s \notin outdated, Job(s).deal \notin overtaken,
         IsFiniteSet(PendingFor(approvals', Job(s).deal))
  PROVE  Cardinality(PendingFor(approvals', Job(s).deal))
           <= deals'[Job(s).deal].open_approvals
<1> DEFINE d == Job(s).deal
           q == Job(s).request
           open == PendingFor(approvals, d)
           after == PendingFor(approvals', d)
           n == deals[d].open_approvals
<1>1. /\ d \in DealId /\ JobOK(Job(s)) /\ tx[s].at \in Holding
      /\ deals[d] \in Deal /\ n \in Nat
      /\ approvals \in [RequestId -> Approval \cup {NoApproval}]
  BY RowsAppended DEF Commits, Holding, Shape, Tables, Deal
<1>2. tx[s].deal = deals[d]
  BY <1>1 DEF Copies, Fresh
<1>3. deals'[d].open_approvals =
        IF Job(s).kind = "decision" THEN Decrement(n)
        ELSE IF WritesApproval(s) THEN n + 1 ELSE n
  <2>1. deals'[d] = Plan(s).deal
    BY <1>1 DEF Commits, Shape, Tables
  <2> QED
    BY <1>1, <1>2, <2>1, PlanCounts
<1>4. IsFiniteSet(open) /\ Cardinality(open) <= n /\ Cardinality(open) \in Nat
  BY <1>1, FS_CardinalityType DEF Copies, Counted
<1>5. CASE ~ WritesApproval(s)
  <2>1. after = open
    BY <1>5, ApprovalWritten
  <2>2. Job(s).kind # "decision"
    BY <1>5 DEF WritesApproval
  <2> HIDE DEF after, open, n
  <2> QED
    BY <1>3, <1>4, <1>5, <2>1, <2>2 DEF after
<1>6. CASE WritesApproval(s)
  <2>1. /\ Replaced(s) /\ q \in RequestId
        /\ approvals' = [approvals EXCEPT ![q] = Plan(s).approval]
    BY <1>6, ApprovalWritten DEF Replaced
  <2>2. after \subseteq open \cup {q}
    BY <1>1, <2>1 DEF PendingFor
  <2>3. CASE Job(s).kind # "decision"
    <3> HIDE DEF after, open, n, q, d
    <3>1. /\ IsFiniteSet(open \cup {q})
          /\ Cardinality(open \cup {q}) =
               IF q \in open THEN Cardinality(open) ELSE Cardinality(open) + 1
      BY <1>4, FS_AddElement
    <3>2. /\ Cardinality(after) <= Cardinality(open \cup {q})
          /\ Cardinality(after) \in Nat
      BY <2>2, <3>1, FS_Subset, FS_CardinalityType DEF after, d
    <3> QED
      BY <1>1, <1>3, <1>4, <1>6, <2>3, <3>1, <3>2 DEF after, d
  <2>4. CASE Job(s).kind = "decision"
    <3>1. q \in open /\ n > 0
      BY <2>4, StillPending
    <3>2. approvals'[q].status # "pending"
      BY <1>1, <2>1, <2>4, DecidedIsOld
    <3>3. after = open \ {q}
      BY <1>1, <2>1, <3>1, <3>2 DEF PendingFor
    <3>4. Decrement(n) = n - 1
      BY <3>1 DEF Decrement
    <3> HIDE DEF after, open, n, q, d
    <3>5. Cardinality(open \ {q}) = Cardinality(open) - 1
      BY <1>4, <3>1, FS_RemoveElement
    <3> QED
      BY <1>1, <1>3, <1>4, <2>4, <3>3, <3>4, <3>5 DEF after, d
  <2> QED
    BY <2>3, <2>4
<1> QED
  BY <1>5, <1>6


\* A commit whose copies are current counts its approval in the deal's row.
LEMMA CommitCounted ==
  ASSUME Shape, Claimed, Copies, NEW s \in Session, Commits(s), Recorded(s)
  PROVE  Counted'
<1> DEFINE d == Job(s).deal
           q == Job(s).request
<1>1. /\ d \in DealId /\ deals \in [DealId -> Deal]
      /\ approvals \in [RequestId -> Approval \cup {NoApproval}]
      /\ deals' = IF WritesDeal(s) THEN [deals EXCEPT ![d] = Plan(s).deal]
                  ELSE deals
  BY RowsAppended DEF Commits, Shape, Tables
<1>2. ASSUME NEW e \in DealId, ~ WritesApproval(s) \/ e # d
      PROVE  PendingFor(approvals', e) = PendingFor(approvals, e)
  <2>1. CASE ~ WritesApproval(s)
    BY <2>1, ApprovalWritten
  <2>2. CASE WritesApproval(s) /\ e # d
    <3>1. /\ q \in RequestId
          /\ approvals' = [approvals EXCEPT ![q] = Plan(s).approval]
          /\ Plan(s).approval.deal = d
          /\ approvals[q] = NoApproval \/ approvals[q].deal = d
      BY <2>2, ApprovalWritten DEF Replaced
    <3> QED
      BY <1>1, <2>2, <3>1 DEF PendingFor
  <2> QED
    BY <1>2, <2>1, <2>2
<1>3. ASSUME NEW e \in DealId PROVE IsFiniteSet(PendingFor(approvals', e))
  <2>1. IsFiniteSet(PendingFor(approvals, e))
    BY DEF Copies, Counted
  <2>2. CASE ~ WritesApproval(s)
    BY <1>2, <2>1, <2>2
  <2>3. CASE WritesApproval(s)
    <3>1. /\ q \in RequestId
          /\ approvals' = [approvals EXCEPT ![q] = Plan(s).approval]
      BY <2>3, ApprovalWritten DEF Replaced
    <3>2. PendingFor(approvals', e) \subseteq PendingFor(approvals, e) \cup {q}
      BY <1>1, <3>1 DEF PendingFor
    <3>3. IsFiniteSet(PendingFor(approvals, e) \cup {q})
      BY <2>1, FS_AddElement
    <3> QED
      BY <3>2, <3>3, FS_Subset
  <2> QED
    BY <2>2, <2>3
<1>4. ASSUME NEW e \in DealId, e \notin overtaken'
      PROVE  Cardinality(PendingFor(approvals', e)) <= deals'[e].open_approvals
  <2>1. e \notin overtaken
    BY <1>4 DEF Recorded
  <2>2. Cardinality(PendingFor(approvals, e)) <= deals[e].open_approvals
    BY <2>1 DEF Copies, Counted
  <2>3. CASE ~ WritesDeal(s) \/ e # d
    <3>1. ~ WritesApproval(s) \/ e # d
      BY <2>3, ApprovalWritten
    <3>2. deals'[e] = deals[e]
      BY <1>1, <2>3
    <3> QED
      BY <1>2, <2>2, <3>1, <3>2
  <2>4. CASE WritesDeal(s) /\ e = d
    <3>1. s \notin outdated
      BY <1>4, <2>4 DEF Recorded
    <3>2. IsFiniteSet(PendingFor(approvals', d))
      BY <1>1, <1>3
    <3> QED
      BY <2>1, <2>4, <3>1, <3>2, CommitCountsOwn
  <2> QED
    BY <2>3, <2>4
<1> QED
  BY <1>3, <1>4 DEF Counted

\* Every movement keeps the copies current, or the session overtaken.
LEMMA CopiesStep == ASSUME Shape, Claimed, Copies, Movement PROVE Copies'
<1>1. ASSUME NEW s \in Session, Commits(s), Recorded(s) PROVE Copies'
  BY <1>1, CommitPlaced, CommitFresh, CommitCounted DEF Copies
<1>2. CASE UNCHANGED vars
  BY <1>2 DEF vars, tables, history, Copies, Placed, Asked, Deciders, Fresh,
              Counted, Deciding, Job, PendingFor
<1> QED
  BY <1>1, <1>2, QuietCopies DEF Movement

\* The chain of numbered rows.
LEMMA ChainOfIs ==
  ASSUME NEW stored, NEW n \in Nat, NumberedTo(stored, n)
  PROVE  /\ Len(ChainOf(stored)) = n /\ DOMAIN ChainOf(stored) = 1..n
         /\ \A row \in stored :
              row.seq \in 1..n /\ ChainOf(stored)[row.seq] = row.entry
<1>1. Cardinality(stored) = n
  BY NumberedCardinality
<1>2. ChainOf(stored) = [i \in 1..n |->
                           (CHOOSE row \in stored : row.seq = i).entry]
  BY <1>1 DEF ChainOf
<1>3. ASSUME NEW row \in stored
      PROVE  row.seq \in 1..n /\ ChainOf(stored)[row.seq] = row.entry
  <2>1. row.seq \in 1..n
    BY DEF NumberedTo
  <2>2. \A other \in stored : other.seq = row.seq => other = row
    BY DEF NumberedTo
  <2>3. (CHOOSE other \in stored : other.seq = row.seq) = row
    BY <2>2
  <2> QED
    BY <1>2, <2>1, <2>3
<1>4. Len(ChainOf(stored)) = n /\ DOMAIN ChainOf(stored) = 1..n
  BY <1>2
<1> QED
  BY <1>3, <1>4

\* A commit's rows continue the chain with the entries of its plan.
LEMMA ChainExtended ==
  ASSUME Shape, Chained, NEW s \in Session, Commits(s), NEW k \in Nat,
         DOMAIN Plan(s).events = 1..k, Chained'
  PROVE  Extends(ChainOf(rows'[Job(s).deal]), ChainOf(rows[Job(s).deal]),
                 Plan(s).events, k)
<1> DEFINE d == Job(s).deal
           old == rows[d]
           new == rows'[d]
<1>1. d \in DealId /\ new = old \cup {NewRow(s, i) : i \in 1..k}
  BY RowsAppended
<1>2. PICK n \in Nat : NumberedTo(old, n)
  BY <1>1 DEF Chained, Numbered
<1>3. PICK m \in Nat : NumberedTo(new, m)
  BY <1>1 DEF Chained, Numbered, NumberedTo
<1>4. tx[s].head.seq = n
  BY <1>2, HeadIsLast DEF Chained
<1>5. \A i \in 1..k : /\ NewRow(s, i) \in new
                      /\ NewRow(s, i).seq = n + i
                      /\ NewRow(s, i).entry = Plan(s).events[i]
  BY <1>1, <1>4 DEF NewRow
<1> HIDE DEF d, old, new
<1>6. {row.seq : row \in old} = 1..n /\ {row.seq : row \in new} = 1..m
  BY <1>2, <1>3 DEF NumberedTo
<1>7. /\ \A x \in 1..m : x \in 1..n \/ \E i \in 1..k : x = n + i
      /\ \A x \in 1..n : x \in 1..m
      /\ \A i \in 1..k : n + i \in 1..m
  <2>1. \A row \in new : row.seq \in 1..n \/ \E i \in 1..k : row.seq = n + i
    BY <1>1, <1>5, <1>6
  <2>2. old \subseteq new
    BY <1>1
  <2>3. /\ \A x \in 1..m : \E row \in new : row.seq = x
        /\ \A x \in 1..n : \E row \in old : row.seq = x
        /\ \A row \in new : row.seq \in 1..m
    BY <1>6
  <2>4. \A x \in 1..m : x \in 1..n \/ \E i \in 1..k : x = n + i
    BY <2>1, <2>3
  <2>5. \A x \in 1..n : x \in 1..m
    BY <2>2, <2>3
  <2>6. ASSUME NEW i \in 1..k PROVE n + i \in 1..m
    <3>1. PICK row \in new : row.seq = n + i
      BY <1>5
    <3> QED
      BY <2>3, <3>1
  <2> QED
    BY <2>4, <2>5, <2>6
<1>8. m = n + k
  <2>1. n <= m
    <3>1. n # 0 => n \in 1..n
      OBVIOUS
    <3> QED
      BY <1>7, <3>1
  <2>2. n + k <= m
    <3>1. k # 0 => k \in 1..k
      OBVIOUS
    <3>2. k # 0 => n + k \in 1..m
      BY <1>7, <3>1
    <3> QED
      BY <2>1, <3>2
  <2>3. m <= n + k
    <3>1. m # 0 => m \in 1..m
      OBVIOUS
    <3>2. m # 0 => m \in 1..n \/ \E i \in 1..k : m = n + i
      BY <1>7, <3>1
    <3> QED
      BY <3>2
  <2> QED
    BY <2>2, <2>3
<1>9. \A i \in 1..n : ChainOf(new)[i] = ChainOf(old)[i]
  <2> SUFFICES ASSUME NEW i \in 1..n PROVE ChainOf(new)[i] = ChainOf(old)[i]
    OBVIOUS
  <2>1. PICK row \in old : row.seq = i
    BY <1>6
  <2>2. row \in new
    BY <1>1
  <2> QED
    BY <1>2, <1>3, <2>1, <2>2, ChainOfIs
<1>10. \A i \in 1..k : ChainOf(new)[n + i] = Plan(s).events[i]
  <2> SUFFICES ASSUME NEW i \in 1..k
               PROVE  ChainOf(new)[n + i] = Plan(s).events[i]
    OBVIOUS
  <2>1. PICK row \in new : row.seq = n + i /\ row.entry = Plan(s).events[i]
    BY <1>5
  <2> QED
    BY <1>3, <2>1, ChainOfIs
<1>11. Len(ChainOf(old)) = n /\ Len(ChainOf(new)) = m
  BY <1>2, <1>3, ChainOfIs
<1>12. Extends(ChainOf(new), ChainOf(old), Plan(s).events, k)
  BY <1>8, <1>9, <1>10, <1>11 DEF Extends, Continues
<1> QED
  BY <1>12 DEF d, old, new


\* The entries of a commit amount to the row that it leaves, if what it wrote
\* was not made from an outdated copy.
LEMMA CommitAmounts ==
  ASSUME Shape, Copies, NEW s \in Session, Commits(s),
         Job(s).deal \notin overtaken, ~ (WritesDeal(s) /\ s \in outdated)
  PROVE  \E k \in {1, 2, 3} :
           /\ DOMAIN Plan(s).events = 1..k
           /\ AmountsTo(deals[Job(s).deal], Plan(s).events, k,
                        deals'[Job(s).deal])
<1> DEFINE d == Job(s).deal
           deal == tx[s].deal
           p == Job(s).proposal
           decision == tx[s].decision
           Amounts(events, result) ==
             \E k \in {1, 2, 3} : /\ DOMAIN events = 1..k
                                  /\ AmountsTo(deals[d], events, k, result)
<1>1. /\ d \in DealId /\ JobOK(Job(s)) /\ tx[s].at \in Holding
      /\ deals[d] \in DealRow /\ DOMAIN deals = DealId
  BY RowsAppended, DealRowTypes DEF Commits, Holding, Shape, Tables
<1>2. deals'[d] = IF WritesDeal(s) THEN Plan(s).deal ELSE deals[d]
  BY <1>1 DEF Commits
<1>3. WritesDeal(s) => deal = deals[d]
  BY <1>1 DEF Copies, Fresh
<1>4. CASE Job(s).kind = "proposal"
  <2>1. Plan(s) = PlanCommitRequest(deal, Job(s).request, p, Record(s),
                                    decision)
    BY <1>4 DEF Plan
  <2>2. CASE WritesDeal(s)
    BY <1>2, <1>3, <2>1, <2>2, RequestReplays
  <2>3. CASE ~ WritesDeal(s)
    <3> DEFINE plan == PlanCommitRequest(deals[d], Job(s).request, p,
                                         Record(s), decision)
    <3>1. /\ PlannedEvent(p, decision) = NoEvent
          /\ decision.outcome # "needs_approval"
      BY <1>4, <2>3 DEF WritesDeal, EventOf
    <3>2. plan.deal = deals[d] /\ plan.events = Plan(s).events
      BY <2>1, <3>1 DEF PlanCommitRequest
    <3>3. Amounts(plan.events, plan.deal)
      BY RequestReplays
    <3> HIDE DEF plan
    <3> QED
      BY <1>2, <2>3, <3>2, <3>3
  <2> QED
    BY <2>2, <2>3
<1>5. CASE Job(s).kind = "event"
  <2>1. WritesDeal(s)
    BY <1>5 DEF WritesDeal
  <2>2. Plan(s) = PlanCommitTransition(deal, Job(s).command, Job(s).event,
                                       FALSE)
    BY <1>5 DEF Plan
  <2> QED
    BY <1>2, <1>3, <2>1, <2>2, TransitionReplays
<1>6. CASE Job(s).kind = "decision"
  <2>1. WritesDeal(s)
    BY <1>6 DEF WritesDeal
  <2>2. Plan(s) = PlanCommitApproval(deal, Job(s).request, tx[s].approval,
                    Job(s).operation, tx[s].status = "active")
    BY <1>6 DEF Plan
  <2>3. deals[d].open_approvals > 0
    BY <1>6, <2>1, StillPending
  <2> QED
    BY <1>1, <1>2, <1>3, <2>1, <2>2, <2>3, ApprovalReplays
<1>7. CASE Job(s).kind = "revocation"
  <2> DEFINE entry == RevocationEntry([record |-> Record(s),
                                       revoked_at |-> tx[s].now])
  <2>1. Plan(s).events = <<entry>>
    BY <1>7 DEF Plan
  <2>2. AfterOne(deals[d], <<entry>>) = deals[d]
    BY ReplayedIdle DEF AfterOne
  <2>3. ~ WritesDeal(s)
    BY <1>7 DEF WritesDeal
  <2> HIDE DEF entry
  <2>4. DOMAIN Plan(s).events = 1..1
    BY <2>1
  <2> QED
    BY <1>2, <2>1, <2>2, <2>3, <2>4 DEF AmountsTo
<1> QED
  BY <1>1, <1>4, <1>5, <1>6, <1>7 DEF JobOK

\* So a commit keeps the rows in agreement with the chains, ...
LEMMA CommitAgrees ==
  ASSUME Shape, Chained, Copies, RowsAgreeUnlessOvertaken, Chained',
         NEW s \in Session, Commits(s), Recorded(s)
  PROVE  RowsAgreeUnlessOvertaken'
<1> SUFFICES ASSUME NEW e \in DealId \ overtaken'
             PROVE  deals'[e] = Replay(ChainOf(rows'[e]))
  BY DEF RowsAgreeUnlessOvertaken
<1>1. /\ e \notin overtaken
      /\ e = Job(s).deal => ~ (WritesDeal(s) /\ s \in outdated)
  BY DEF Recorded
<1>2. deals[e] = Replay(ChainOf(rows[e]))
  BY <1>1 DEF RowsAgreeUnlessOvertaken
<1>3. CASE e # Job(s).deal
  <2>1. rows'[e] = rows[e]
    BY <1>3, RowsAppended
  <2>2. deals'[e] = deals[e]
    BY <1>3 DEF Commits, Shape, Tables
  <2> QED
    BY <1>2, <2>1, <2>2
<1>4. CASE e = Job(s).deal
  <2>1. PICK k \in {1, 2, 3} :
          /\ DOMAIN Plan(s).events = 1..k
          /\ AmountsTo(deals[e], Plan(s).events, k, deals'[e])
    BY <1>1, <1>4, CommitAmounts
  <2>2. k \in Nat
    BY <2>1
  <2>3. Extends(ChainOf(rows'[e]), ChainOf(rows[e]), Plan(s).events, k)
    BY <1>4, <2>1, <2>2, ChainExtended
  <2> QED
    BY <1>2, <2>1, <2>3, ReplayOfTail
<1> QED
  BY <1>3, <1>4

\* ... and so does every other step.
LEMMA AgreesStep ==
  ASSUME Shape, Chained, Copies, RowsAgreeUnlessOvertaken, Movement, Chained'
  PROVE  RowsAgreeUnlessOvertaken'
<1>1. ASSUME NEW s \in Session, Quiet(s) PROVE RowsAgreeUnlessOvertaken'
  <2>1. deals' = deals /\ rows' = rows /\ overtaken' = overtaken
    BY <1>1, RowsKept
       DEF Quiet, history, Starts, Reads, Wins, Loses, Fails, tables
  <2> QED
    BY <2>1 DEF RowsAgreeUnlessOvertaken
<1>2. CASE UNCHANGED vars
  BY <1>2 DEF vars, tables, history, RowsAgreeUnlessOvertaken
<1> QED
  BY <1>1, <1>2, CommitAgrees DEF Movement


\* What a run starts from: the rows replay to the stored chains, and the calls
\* before it left deals, chains and approvals in agreement.
LEMMA AgreesInit == Init => Copies /\ RowsAgreeUnlessOvertaken
<1> SUFFICES ASSUME Init PROVE Copies /\ RowsAgreeUnlessOvertaken
  OBVIOUS
<1>1. PICK db \in Databases :
        /\ deals = db.deals
        /\ rows = [d \in DealId |->
             {[ seq |-> i, by |-> "before", entry |-> db.chains[d][i],
                cause |-> "before",
                prev |-> IF i = 1 THEN Genesis
                         ELSE [seq |-> i - 1, by |-> "before"] ]
              : i \in DOMAIN db.chains[d]}]
        /\ approvals = db.approvals
        /\ seen_requests = db.seen_requests
  BY DEF Init
<1>2. \A s \in Session : tx[s].at = "idle"
  BY DEF Init, Idle
<1>3. Placed
  BY <1>1, JobsAssumption DEF Placed
<1>4. Asked
  BY <1>1, DatabasesAgree DEF Asked
<1>5. Deciders /\ Fresh
  BY <1>2 DEF Deciders, Fresh, Deciding, Holding
<1>6. Counted
  BY <1>1, DatabasesAgree DEF Counted
<1>7. ASSUME NEW d \in DealId PROVE deals[d] = Replay(ChainOf(rows[d]))
  <2> DEFINE chain == db.chains[d]
             n == Len(chain)
  <2>1. n \in Nat /\ DOMAIN chain = 1..n
    BY DatabasesAssumption
  <2>2. ASSUME NEW i \in 1..n
        PROVE  \E row \in rows[d] : row.seq = i /\ row.entry = chain[i]
    <3> DEFINE row == [ seq |-> i, by |-> "before", entry |-> chain[i],
                        cause |-> "before",
                        prev |-> IF i = 1 THEN Genesis
                                 ELSE [seq |-> i - 1, by |-> "before"] ]
    <3>1. row \in rows[d]
      BY <1>1, <2>1
    <3>2. row.seq = i /\ row.entry = chain[i]
      OBVIOUS
    <3> QED
      BY <3>1, <3>2
  <2>3. PICK m \in Nat : NumberedTo(rows[d], m)
    BY ChainedInit DEF Chained, Numbered
  <2>4. m = n
    <3> HIDE DEF chain, n
    <3>1. \A row \in rows[d] : row.seq \in 1..n
      BY <1>1, <2>1 DEF chain
    <3>2. /\ \A x \in 1..m : \E row \in rows[d] : row.seq = x
          /\ \A row \in rows[d] : row.seq \in 1..m
      BY <2>3 DEF NumberedTo
    <3>3. n # 0 => n \in 1..n
      BY <2>1
    <3>4. m # 0 => m \in 1..m
      OBVIOUS
    <3>5. (n # 0 => n \in 1..m) /\ (m # 0 => m \in 1..n)
      BY <2>2, <3>1, <3>2, <3>3, <3>4
    <3> QED
      BY <2>1, <3>5
  <2> HIDE DEF chain, n
  <2>5. /\ Len(ChainOf(rows[d])) = n
        /\ \A i \in 1..n : ChainOf(rows[d])[i] = chain[i]
    <3>1. /\ Len(ChainOf(rows[d])) = n
          /\ \A row \in rows[d] : ChainOf(rows[d])[row.seq] = row.entry
      BY <2>1, <2>3, <2>4, ChainOfIs
    <3> QED
      BY <2>2, <3>1
  <2>6. Continues(ChainOf(rows[d]), chain)
    BY <2>1, <2>5 DEF Continues, n
  <2>7. PICK after : ReplaysOn(chain, ChainOf(rows[d]), after)
    BY <2>6, ReplayGrown
  <2>8. Replay(ChainOf(rows[d])) = Replay(chain)
    BY <2>5, <2>7 DEF ReplaysOn, n
  <2> QED
    BY <1>1, <2>8, DatabasesAgree DEF chain
<1> QED
  BY <1>3, <1>4, <1>5, <1>6, <1>7 DEF Copies, RowsAgreeUnlessOvertaken

\* The copies and the rows agree throughout.
LEMMA AgreementHolds == Spec => [](Copies /\ RowsAgreeUnlessOvertaken)
<1>1. Init => Copies /\ RowsAgreeUnlessOvertaken
  BY AgreesInit
<1>2. /\ Shape /\ Chained /\ Claimed /\ Retried
      /\ Copies /\ RowsAgreeUnlessOvertaken
      /\ [Next]_vars
      => (Copies /\ RowsAgreeUnlessOvertaken)'
  <2> SUFFICES ASSUME Shape, Chained, Claimed, Copies,
                      RowsAgreeUnlessOvertaken, [Next]_vars
               PROVE  Copies' /\ RowsAgreeUnlessOvertaken'
    OBVIOUS
  <2>1. Movement
    BY StepMovement DEF Chained
  <2>2. Chained'
    BY <2>1, MovementIsEffect, ChainedStep
  <2> QED
    BY <2>1, <2>2, CopiesStep, AgreesStep
<1> QED
  BY <1>1, <1>2, ClaimedHolds, PTL DEF Spec

\* A deal's row is what its chain amounts to, whatever ran beside the calls
\* that wrote it, unless one of them wrote it from a copy that another call had
\* outdated: an UPDATE without a guard is all that can part the two.
THEOREM RowsAgreeUnlessOvertakenHolds == Spec => []RowsAgreeUnlessOvertaken
BY AgreementHolds, PTL
=============================================================================
