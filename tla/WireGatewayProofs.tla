-------------------------- MODULE WireGatewayProofs --------------------------
(***************************************************************************)
(* Proofs about WireGateway, for every set of envelopes, every mandate and *)
(* proposal, and any number of redeliveries, crashes, exceptions and lost  *)
(* answers.                                                                *)
(***************************************************************************)
EXTENDS WireGateway, LedgerProofs

-----------------------------------------------------------------------------
(* The invariant.                                                          *)

\* The tables have their shape, and a link its deal and its record, however
\* far a registration came.
LinkedToStored ==
  \A d \in DealId : links[d] # NoRecord => Known(d) /\ links[d] \in records
RegistryOK ==
  /\ registry \in [DealId -> RecordId \cup {NoRecord}]
  /\ \A d \in DealId : registry[d] \in {NoRecord, links[d]}

\* Whom a stored or a pending answer is for.
Handles(e) ==
  e \in Envelope /\ Verified(e) /\ Content[e].kind # "receipt"
StoredOK ==
  /\ stored = [slot \in Slots |-> stored[slot]]
  /\ \A slot \in Slots : stored[slot] # NoEntry =>
       /\ Handles(stored[slot].envelope)
       /\ Slot(stored[slot].envelope) = slot
       /\ IsAnswer(stored[slot].answer)

\* A proposal is decided for whom the deal's mandate admits.
Admitted(e) ==
  /\ Content[e].kind = "proposal"
  /\ registry[DealOf(e)] # NoRecord /\ ~ WrongAudience(e)

\* A process registers a deal that exists, or works on an envelope whose slot
\* is free.
ProcessOK ==
  /\ process.at \in {"idle", "down", "put_record", "link", "handle", "claim",
                    "commit", "store"}
  /\ process.at = "idle" => process = Idle
  /\ process.at = "down" => process = Down
  /\ process.at \in {"put_record", "link"} =>
       /\ process = [ at |-> process.at, deal |-> process.deal,
                      record |-> process.record ]
       /\ process.deal \in DealId /\ Known(process.deal)
       /\ process.record \in RecordId
  /\ process.at = "link" => process.record \in records
  /\ process.at \in {"handle", "claim", "commit", "store"} =>
       Handles(process.envelope) /\ stored[Slot(process.envelope)] = NoEntry
  /\ process.at \in {"claim", "commit"} => Admitted(process.envelope)
  /\ process.at = "store" => IsAnswer(process.answer)

\* Everything a sender was told is the answer to what no key verifies, a
\* refusal as stale, the acknowledgement of a receipt, or what the slot says.
SlotSays(e) ==
  IF stored[Slot(e)].envelope = e THEN stored[Slot(e)].answer
  ELSE Refused("hostile")
Fits(e, a) ==
  IF ~ Verified(e) THEN a = Refused("unverified")
  ELSE \/ a = StaleEnvelope
       \/ stored[Slot(e)] # NoEntry /\ a = SlotSays(e)
       \/ a = Acknowledged /\ Content[e].kind = "receipt"
ToldOK ==
  /\ told = [e \in Envelope |-> told[e]]
  /\ \A e \in Envelope : \A a \in told[e] : Fits(e, a)

WireShape ==
  /\ Shaped /\ LinkedToStored /\ RegistryOK /\ StoredOK /\ ProcessOK /\ ToldOK
  /\ faults \in 0..MaxFaults

\* The entry stands in its chain because of the envelope.
Causes(e, entry) ==
  IF Content[e].kind = "proposal"
  THEN entry.type = "policy_decision" /\ entry.proposal = Content[e].proposal
  ELSE entry.type = "state_transition" /\ entry.cause = Content[e].message

\* What was decided came in a proposal of whom the deal's mandate admits, and
\* a process that is up knows the deal.
DecidedForPeers ==
  \A d \in DealId : \A i \in DOMAIN events[d] :
    events[d][i].type = "policy_decision" =>
      /\ links[d] # NoRecord
      /\ process # Down => registry[d] # NoRecord
      /\ \E e \in Envelope :
           /\ Verified(e) /\ Content[e].kind = "proposal" /\ DealOf(e) = d
           /\ Causes(e, events[d][i])
           /\ Mandate[links[d]].counterparty \in {NoParty, Sender(e)}

\* A command that is not the console's moved a deal because its envelope asked
\* for that event, ...
MovedByPeers ==
  \A d \in DealId : \A i \in DOMAIN events[d] :
    /\ events[d][i].type = "state_transition"
    /\ events[d][i].cause \in CommandId \ ConsoleCommands
    => \E e \in Envelope :
         /\ Verified(e) /\ Content[e].kind = "counterparty_event"
         /\ Content[e].event = events[d][i].event
         /\ DealOf(e) = d /\ Known(d)
         /\ Causes(e, events[d][i])
\* ... and is only spent where it moved one.
SpentHaveMoved ==
  \A c \in seen_commands \ ConsoleCommands :
    \E d \in DealId : \E i \in DOMAIN events[d] :
      events[d][i].type = "state_transition" /\ events[d][i].cause = c

\* What was read of a deal before its claim: an event that had a transition
\* then has one now, or the console took it away since.
ReadStands ==
  process.at \in {"claim", "commit"} =>
    LET d == DealOf(process.envelope) IN
    \A event :
      TransitionFor(process.deal.state, event) # NoState =>
        TransitionFor(deals[d].state, event) # NoState \/ MovedAway(d, event)

\* A revocation in a chain is of the deal's record and binds, ...
RevocationsBind ==
  \A d \in DealId : \A i \in DOMAIN events[d] :
    events[d][i].type = "revocation" =>
      /\ links[d] # NoRecord
      /\ \E v \in revocations : v.record = links[d] /\ v.revoked_at <= now
\* ... and a claim that does not know of it was built before, so that no
\* permission is behind it yet.
ClaimIsFirst ==
  process.at = "commit" /\ process.status # "revoked" =>
    LET chain == events[DealOf(process.envelope)] IN
    \A i, j \in DOMAIN chain :
      chain[i].type = "revocation" /\ i < j => ~ Permission(chain[j])

\* An answer agrees with the chains: an acceptance has its entry, or is one of
\* the two that need not; a refusal that a handler gives has none.
OnRecord(e, a) ==
  LET chain == events[DealOf(e)] IN
  \E i \in DOMAIN chain :
    /\ Causes(e, chain[i])
    /\ IF Content[e].kind = "proposal" THEN chain[i].decision = a.decision
       ELSE chain[i].event = Content[e].event
Outrun(e, a) ==
  IF Content[e].kind = "proposal"
  THEN /\ a.decision = Allow
       /\ MovedAway(DealOf(e), ActionEvents[Content[e].proposal.action])
  ELSE ~ OnlyCarrier(e)
Actionable(e) ==
  /\ links[DealOf(e)] # NoRecord
  /\ process # Down => registry[DealOf(e)] # NoRecord
Untouched(e) ==
  \A d \in DealId : \A i \in DOMAIN events[d] : ~ Causes(e, events[d][i])
Denies(e, a) ==
  /\ a \notin {StaleEnvelope, Refused("hostile")}
  /\ a.status = "refused"
  /\ OnlyCarrier(e)
  /\ Content[e].kind = "proposal" \/ a # Refused("wrong_audience")
Stands(e, a) ==
  /\ a.status = "accepted" =>
       /\ OnRecord(e, a) \/ Outrun(e, a)
       /\ Content[e].kind = "proposal" => Actionable(e)
  /\ Denies(e, a) => Untouched(e)
Answered(e, a) ==
  \/ /\ process.at = "store"
     /\ process.envelope = e /\ process.answer = a
  \/ \E slot \in Slots :
       /\ stored[slot] # NoEntry
       /\ stored[slot].envelope = e /\ stored[slot].answer = a
AnswersStand == \A e \in Envelope : \A a : Answered(e, a) => Stands(e, a)

WireInvariant ==
  /\ WireShape /\ HeldAreSeen /\ Effects
  /\ DecidedForPeers /\ MovedByPeers /\ SpentHaveMoved
  /\ ReadStands /\ AnswersStand

\* What the order of revocations and permissions rests on, besides.
RevocationInvariant ==
  RevocationsBind /\ ClaimIsFirst /\ RevocationOvertakenOnce

-----------------------------------------------------------------------------
(* What a step of the ledger appends.                                      *)

\* The places of the entries that a step appends.
Added(d) == DOMAIN events'[d] \ DOMAIN events[d]

\* A step that appends k entries to one chain appends them to no other, at its
\* end, one by one.
LEMMA GrownPlaces ==
  ASSUME NEW x \in DealId, NEW k \in Nat, Grown(x, k),
         NEW d \in DealId, NEW i \in Added(d)
  PROVE  /\ d = x
         /\ \E j \in 1..k : i = Len(events[x]) + j /\ events'[d][i] = New(x, j)
<1>1. d = x
  BY DEF Grown, Added
<1>2. \A y \in DOMAIN events'[x] \ DOMAIN events[x] :
        \E j \in 1..k : y = Len(events[x]) + j
  BY NewPlaces
<1>3. i \in DOMAIN events'[x] \ DOMAIN events[x]
  BY <1>1 DEF Added
<1>4. PICK j \in 1..k : i = Len(events[x]) + j
  BY <1>2, <1>3
<1> QED
  BY <1>1, <1>4 DEF New

\* A grown chain has its new entries.
LEMMA GrownHas ==
  ASSUME NEW x \in DealId, NEW k \in Nat, Grown(x, k), NEW j \in 1..k
  PROVE  \E i \in DOMAIN events'[x] : events'[x][i] = New(x, j)
<1>1. /\ DOMAIN events'[x] = 1..(Len(events[x]) + k)
      /\ Len(events[x]) \in Nat
  BY NewPlaces
<1>2. Len(events[x]) + j \in DOMAIN events'[x]
  <2> DEFINE n == Len(events[x])
             D == DOMAIN events'[x]
  <2>1. n \in Nat /\ D = 1..(n + k)
    BY <1>1
  <2> HIDE DEF n, D
  <2>2. n + j \in D
    BY <2>1
  <2> QED
    BY <2>2 DEF n, D
<1> QED
  BY <1>2 DEF New

\* A committed request appends its decision to the deal of the proposal, and a
\* transition, if any, that it caused itself.
LEMMA RequestAppends ==
  ASSUME NEW decision, NEW q \in RequestId, NEW p \in Proposals,
         NEW at \in {1, 2}, Commits(q, p, decision, at)
  PROVE  /\ p.deal \in DealId /\ Known(p.deal)
         /\ UNCHANGED <<links, seen_commands>>
         /\ \E i \in DOMAIN events'[p.deal] :
              events'[p.deal][i] = DecisionEntry(q, p, decision)
         /\ \A d \in DealId : \A i \in Added(d) :
              LET entry == events'[d][i] IN
              /\ d = p.deal
              /\ entry.type = "policy_decision" =>
                   entry.proposal = p /\ entry.decision = decision
              /\ entry.type = "state_transition" => entry.cause = q
              /\ entry.type = "approval" => entry.operation = "required"
              /\ entry.type # "revocation"
<1> DEFINE x == p.deal
<1>1. Decides(q, p, decision, at)
  BY DEF Commits, Performs, Holds, Records
<1>2. /\ x \in DealId /\ Known(x)
      /\ UNCHANGED <<links, seen_commands>>
      /\ at = 2 => New(x, 1) = MessageEntry(q)
      /\ New(x, at) = DecisionEntry(q, p, decision)
  BY <1>1 DEF Decides
<1>3. \E k \in {at, at + 1} :
        /\ Grown(x, k)
        /\ k = at + 1 => \/ /\ New(x, k).type = "approval"
                            /\ New(x, k).operation = "required"
                         \/ /\ New(x, k).type = "state_transition"
                            /\ New(x, k).cause = q
  BY EntryKinds DEF Commits, Performs, Holds, Records
<1>4. PICK k \in {at, at + 1} :
        /\ Grown(x, k)
        /\ k = at + 1 => \/ /\ New(x, k).type = "approval"
                            /\ New(x, k).operation = "required"
                         \/ /\ New(x, k).type = "state_transition"
                            /\ New(x, k).cause = q
  BY <1>3
<1>5. \A j \in 1..k : (j = k /\ k = at + 1) \/ j = at \/ (at = 2 /\ j = 1)
  OBVIOUS
<1>6. \A j \in 1..k :
        /\ New(x, j).type = "policy_decision" =>
             New(x, j).proposal = p /\ New(x, j).decision = decision
        /\ New(x, j).type = "state_transition" => New(x, j).cause = q
        /\ New(x, j).type = "approval" => New(x, j).operation = "required"
        /\ New(x, j).type # "revocation"
  <2> HIDE DEF x
  <2>1. /\ DecisionEntry(q, p, decision).type = "policy_decision"
        /\ DecisionEntry(q, p, decision).proposal = p
        /\ DecisionEntry(q, p, decision).decision = decision
        /\ MessageEntry(q).type = "message"
    BY EntryKinds
  <2> QED
    BY <1>2, <1>4, <1>5, <2>1
<1>7. k \in Nat /\ at \in 1..k
  OBVIOUS
<1>8. \E i \in DOMAIN events'[x] : events'[x][i] = DecisionEntry(q, p, decision)
  <2> HIDE DEF x
  <2> QED
    BY <1>2, <1>4, <1>7, GrownHas
<1>9. \A d \in DealId : \A i \in Added(d) :
        d = x /\ \E j \in 1..k : events'[d][i] = New(x, j)
  <2> HIDE DEF x
  <2> QED
    BY <1>2, <1>4, <1>7, GrownPlaces
<1>10. \A d \in DealId : \A i \in Added(d) :
         LET entry == events'[d][i] IN
         /\ d = x
         /\ entry.type = "policy_decision" =>
              entry.proposal = p /\ entry.decision = decision
         /\ entry.type = "state_transition" => entry.cause = q
         /\ entry.type = "approval" => entry.operation = "required"
         /\ entry.type # "revocation"
  <2> HIDE DEF x
  <2> QED
    BY <1>6, <1>9
<1> QED
  BY <1>2, <1>8, <1>10

\* An event appends one transition to its deal, the event it reports, caused by
\* its command.
LEMMA EventAppends ==
  ASSUME NEW x \in DealId, NEW c \in CommandId, NEW event \in DealEvent,
         NEW k \in {1, 2}, Reports(x, c, event, k)
  PROVE  /\ Known(x)
         /\ UNCHANGED links
         /\ seen_commands' = seen_commands \cup {c}
         /\ \E i \in DOMAIN events'[x] :
              /\ events'[x][i].type = "state_transition"
              /\ events'[x][i].cause = c
              /\ events'[x][i].event = event
         /\ \A d \in DealId : \A i \in Added(d) :
              LET entry == events'[d][i] IN
              /\ d = x
              /\ entry.type \notin {"policy_decision", "approval",
                                   "revocation"}
              /\ entry.type = "state_transition" =>
                   entry.cause = c /\ entry.event = event
<1>1. /\ Known(x) /\ UNCHANGED links
      /\ seen_commands' = seen_commands \cup {c}
      /\ Grown(x, k)
      /\ k = 2 => New(x, 1).type = "message"
      /\ New(x, k).type = "state_transition"
      /\ New(x, k).cause = c
      /\ New(x, k).event = event
  BY EntryKinds DEF Reports, Spends
<1>2. k \in Nat /\ k \in 1..k
  OBVIOUS
<1>3. \A j \in 1..k : j = k \/ (k = 2 /\ j = 1)
  OBVIOUS
<1>4. \E i \in DOMAIN events'[x] : events'[x][i] = New(x, k)
  BY <1>1, <1>2, GrownHas
<1>5. \A d \in DealId : \A i \in Added(d) :
        d = x /\ \E j \in 1..k : events'[d][i] = New(x, j)
  BY <1>1, <1>2, GrownPlaces
<1> QED
  BY <1>1, <1>3, <1>4, <1>5

\* A revocation appends itself to the deal, and nothing else.
LEMMA RevocationAppends ==
  ASSUME NEW x \in DealId, NEW c \in CommandId, Withdraws(x, c)
  PROVE  /\ UNCHANGED links
         /\ seen_commands' = seen_commands \cup {c}
         /\ \A d \in DealId : \A i \in Added(d) :
              d = x /\ events'[d][i].type = "revocation"
<1>1. /\ UNCHANGED links
      /\ seen_commands' = seen_commands \cup {c}
      /\ Grown(x, 1)
      /\ New(x, 1).type = "revocation"
  BY EntryKinds DEF Withdraws, Spends
<1>2. \A d \in DealId : \A i \in Added(d) :
        d = x /\ \E j \in 1..1 : events'[d][i] = New(x, j)
  BY <1>1, GrownPlaces
<1> QED
  BY <1>1, <1>2

\* It is of the record that the deal is linked to, and binds at once.
LEMMA RevocationIsStored ==
  ASSUME NEW x, NEW c, Revoke(x, c), ~ UNCHANGED store
  PROVE  /\ links[x] # NoRecord /\ now' = now
         /\ \E v \in revocations' : v.record = links[x] /\ v.revoked_at = now
BY DEF Revoke, CommitRevocation

-----------------------------------------------------------------------------
(* The kinds of steps.                                                     *)

\* A step that appends nothing and spends nothing, ...
Quiet ==
  UNCHANGED <<events, approvals, decisions, seen_requests, seen_commands>>

\* ... a call of the console, ...
ByConsole ==
  /\ Operations
  /\ UNCHANGED wire
  /\ seen_commands' \subseteq seen_commands \cup ConsoleCommands
  /\ \A d \in DealId : \A i \in Added(d) :
       LET entry == events'[d][i] IN
       /\ entry.type \notin {"policy_decision", "approval"}
       /\ entry.type = "state_transition" => entry.cause \in ConsoleCommands
       /\ entry.type = "revocation" =>
            /\ links[d] # NoRecord /\ now' = now
            /\ \E v \in revocations' :
                 v.record = links[d] /\ v.revoked_at = now

\* ... and a handler's commit, of a proposal of whom the deal's mandate admits
\* or of an event.
InWork(e) ==
  process.at \in {"handle", "claim", "commit"} /\ process.envelope = e
ByProposal(e) ==
  /\ Operations
  /\ InWork(e) /\ process.at = "commit" /\ Admitted(e)
  /\ UNCHANGED seen_commands
  /\ \A d \in DealId : \A i \in Added(d) :
       LET entry == events'[d][i] IN
       /\ d = DealOf(e)
       /\ entry.type = "policy_decision" =>
            entry.proposal = Content[e].proposal
       /\ entry.type = "state_transition" => entry.cause \in RequestId
       /\ entry.type # "revocation"
       /\ Permission(entry) =>
            entry.type = "policy_decision" /\ process.status # "revoked"
ByEvent(e) ==
  LET c == Content[e].message IN
  /\ Operations
  /\ InWork(e) /\ process.at = "handle"
  /\ Content[e].kind # "proposal" /\ Known(DealOf(e))
  /\ seen_commands' = seen_commands \cup {c}
  /\ \E i \in DOMAIN events'[DealOf(e)] :
       LET entry == events'[DealOf(e)][i] IN
       entry.type = "state_transition" /\ entry.cause = c
  /\ \A d \in DealId : \A i \in Added(d) :
       LET entry == events'[d][i] IN
       /\ d = DealOf(e)
       /\ entry.type \notin {"policy_decision", "approval", "revocation"}
       /\ entry.type = "state_transition" =>
            entry.cause = c /\ entry.event = Content[e].event

\* No step forgets a deal, a link or, while the process is up, that it has
\* heard of the deal; no stored answer changes, and a new one was pending.
Kept ==
  /\ \A d \in DealId :
       /\ Known(d) => Known(d)'
       /\ links[d] # NoRecord => links'[d] = links[d]
       /\ process' # Down =>
            \/ registry'[d] = links'[d]
            \/ process # Down /\ registry'[d] = registry[d]
  /\ \A slot \in Slots :
       \/ stored'[slot] = stored[slot]
       \/ /\ stored[slot] = NoEntry /\ process.at = "store"
          /\ stored'[slot].envelope = process.envelope
          /\ stored'[slot].answer = process.answer
PendingKept == process'.at = "store" => process' = process

-----------------------------------------------------------------------------
(* The shape, action by action.                                            *)

\* What the assumptions say of one envelope.
LEMMA EnvelopeType ==
  ASSUME NEW e \in Envelope
  PROVE  /\ Content[e].kind \in Kinds /\ DealOf(e) \in DealId
         /\ Content[e].message \in CommandId
         /\ Content[e].proposal \in Proposals
         /\ Content[e].kind = "proposal" =>
              Content[e].proposal.deal = DealOf(e)
         /\ Slot(e) \in Slots
<1>1. Content[e] \in ContentType
  BY WireAssumption
<1> QED
  BY <1>1, WireAssumption DEF ContentType, DealOf, Slots

\* An entry of the slots' table is none.
LEMMA EntryIsOne == \A e, a : [envelope |-> e, answer |-> a] # NoEntry
BY DEF NoEntry

\* What a sender was told still fits when its slot is filled.
LEMMA FitsKept ==
  ASSUME NEW e \in Envelope, NEW a, Fits(e, a),
         stored[Slot(e)] # NoEntry => stored'[Slot(e)] = stored[Slot(e)]
  PROVE  Fits(e, a)'
BY DEF Fits, SlotSays

\* An answer that fits can be sent.
LEMMA AnswerFits ==
  ASSUME ToldOK, faults \in 0..MaxFaults, NEW e \in Envelope, NEW a,
         Answer(e, a), Fits(e, a)',
         \A slot \in Slots :
           stored[slot] # NoEntry => stored'[slot] = stored[slot]
  PROVE  ToldOK' /\ faults' \in 0..MaxFaults
<1>1. \A f \in Envelope : \A b \in told[f] : Fits(f, b)'
  BY FitsKept, EnvelopeType DEF ToldOK
<1>2. \/ told' = [told EXCEPT ![e] = @ \cup {a}]
      \/ told' = told
  BY DEF Answer
<1>3. /\ told' = [f \in Envelope |-> told'[f]]
      /\ \A f \in Envelope : \A b \in told'[f] :
           b \in told[f] \/ (f = e /\ b = a)
  <2>1. told = [f \in Envelope |-> told[f]]
    BY DEF ToldOK
  <2> QED
    BY <1>2, <2>1
<1>4. ToldOK'
  BY <1>1, <1>3 DEF ToldOK
<1>5. faults' \in 0..MaxFaults
  BY WireAssumption DEF Answer
<1> QED
  BY <1>4, <1>5

\* Nothing is told and no slot changes.
LEMMA ToldSame ==
  ASSUME WireShape, UNCHANGED <<stored, told>>
  PROVE  StoredOK' /\ ToldOK'
BY DEF WireShape, StoredOK, ToldOK, Fits, SlotSays

\* A step of the process that leaves the ledger alone.
LEMMA LedgerSame ==
  ASSUME WireShape, UNCHANGED vars
  PROVE  Shaped' /\ LinkedToStored' /\ Quiet
BY DEF WireShape, Shaped, LinkedToStored, Quiet, vars, store, Known

\* A new deal is a draft.
LEMMA DraftRow == DraftDeal \in DealRow /\ DraftDeal.state # NoState
BY DEF DraftDeal, DealRow, Deal, DealState, NoState

\* The first transaction of a registration creates the deal.
LEMMA CreateDealKept ==
  ASSUME WireShape, NEW d \in DealId, NEW r \in RecordId, CreateDeal(d, r)
  PROVE  WireShape' /\ Kept /\ PendingKept /\ Quiet
<1>1. /\ Shaped /\ LinkedToStored /\ RegistryOK /\ StoredOK /\ ProcessOK
      /\ faults \in 0..MaxFaults
  BY DEF WireShape
<1>2. Shaped'
  <2>1. deals' = [deals EXCEPT ![d] = DraftDeal]
    BY DEF CreateDeal
  <2>2. deals' \in [DealId -> DealRow]
    BY <1>1, <2>1, DraftRow DEF Shaped
  <2> QED
    BY <1>1, <2>2 DEF CreateDeal, Shaped
<1>3. \A x \in DealId : Known(x) => Known(x)'
  BY <1>1 DEF CreateDeal, Shaped, Known
<1>4. Known(d)'
  <2>1. deals'[d] = DraftDeal
    BY <1>1 DEF CreateDeal, Shaped
  <2> QED
    BY <2>1, DraftRow DEF Known
<1>5. LinkedToStored' /\ RegistryOK'
  BY <1>1, <1>3 DEF CreateDeal, LinkedToStored, RegistryOK
<1>6. StoredOK' /\ ToldOK'
  BY ToldSame DEF CreateDeal
<1>7. process' = [at |-> "put_record", deal |-> d, record |-> r]
  BY DEF CreateDeal
<1>8. ProcessOK'
  BY <1>4, <1>7 DEF ProcessOK
<1>9. PendingKept /\ process' # Down /\ process # Down
  BY <1>7 DEF PendingKept, Down, CreateDeal, Idle
<1> QED
  BY <1>1, <1>2, <1>3, <1>5, <1>6, <1>8, <1>9
     DEF CreateDeal, WireShape, Kept, Quiet

\* The second stores the record, ...
LEMMA PutRecordKept ==
  ASSUME WireShape, PutRecord
  PROVE  WireShape' /\ Kept /\ PendingKept /\ Quiet
<1>1. /\ Shaped /\ LinkedToStored /\ RegistryOK /\ StoredOK /\ ProcessOK
      /\ faults \in 0..MaxFaults
  BY DEF WireShape
<1>2. /\ process = [at |-> "put_record", deal |-> process.deal,
                    record |-> process.record]
      /\ process.deal \in DealId /\ Known(process.deal)
      /\ process.record \in RecordId
  BY <1>1 DEF PutRecord, ProcessOK
<1>3. Shaped'
  BY <1>1, <1>2 DEF PutRecord, Shaped
<1>4. LinkedToStored' /\ RegistryOK'
  BY <1>1 DEF PutRecord, LinkedToStored, RegistryOK, Known
<1>5. StoredOK' /\ ToldOK'
  BY ToldSame DEF PutRecord
<1>6. /\ process' = [at |-> "link", deal |-> process.deal,
                     record |-> process.record]
      /\ process.record \in records'
  BY <1>2 DEF PutRecord
<1>7. ProcessOK'
  BY <1>2, <1>6 DEF ProcessOK, PutRecord, Known
<1>8. PendingKept /\ process' # Down /\ process # Down
  BY <1>2, <1>6 DEF PendingKept, Down
<1> QED
  BY <1>1, <1>3, <1>4, <1>5, <1>7, <1>8
     DEF PutRecord, WireShape, Kept, Quiet, Known

\* ... and the last links it to the deal.
LEMMA LinkDealRecordKept ==
  ASSUME WireShape, LinkDealRecord
  PROVE  WireShape' /\ Kept /\ PendingKept /\ Quiet
<1> DEFINE x == process.deal
           r == process.record
<1>1. /\ Shaped /\ LinkedToStored /\ RegistryOK /\ StoredOK /\ ProcessOK
      /\ faults \in 0..MaxFaults
  BY DEF WireShape
<1>2. /\ x \in DealId /\ Known(x)
      /\ r \in RecordId /\ r \in records
      /\ process.at = "link" /\ process' = Idle
      /\ UNCHANGED <<deals, records, stored, told, faults>>
  BY <1>1 DEF LinkDealRecord, ProcessOK
<1>3. \/ /\ links[x] \in {NoRecord, r}
         /\ links' = [links EXCEPT ![x] = r]
         /\ registry' = [registry EXCEPT ![x] = r]
      \/ UNCHANGED <<links, registry>>
  BY DEF LinkDealRecord
<1> HIDE DEF x, r
<1>4. /\ links \in [DealId -> RecordId \cup {NoRecord}]
      /\ registry \in [DealId -> RecordId \cup {NoRecord}]
  BY <1>1 DEF Shaped, RegistryOK
<1>5. /\ links' \in [DealId -> RecordId \cup {NoRecord}]
      /\ registry' \in [DealId -> RecordId \cup {NoRecord}]
  BY <1>2, <1>3, <1>4
<1>6. \A d \in DealId :
        /\ links'[d] = links[d] \/ (d = x /\ links'[d] = r)
        /\ links[d] # NoRecord => links'[d] = links[d]
        /\ registry'[d] = registry[d] \/ registry'[d] = links'[d]
  BY <1>2, <1>3, <1>4
<1>7. Shaped'
  BY <1>1, <1>5 DEF LinkDealRecord, Shaped
<1>8. LinkedToStored'
  BY <1>1, <1>2, <1>6 DEF LinkedToStored, Known
<1>9. RegistryOK'
  <2>1. \A d \in DealId : registry[d] \in {NoRecord, links[d]}
    BY <1>1 DEF RegistryOK
  <2>2. \A d \in DealId : registry'[d] \in {NoRecord, links'[d]}
    BY <1>6, <2>1
  <2> QED
    BY <1>5, <2>2 DEF RegistryOK
<1>10. StoredOK' /\ ToldOK'
  BY <1>2, ToldSame
<1>11. ProcessOK'
  BY <1>2 DEF ProcessOK, Idle
<1>12. PendingKept /\ process # Down
  BY <1>2 DEF PendingKept, Down, Idle
<1>13. Kept
  BY <1>2, <1>6, <1>12 DEF Kept, Known
<1>14. Quiet
  BY DEF LinkDealRecord, Quiet
<1> QED
  BY <1>1, <1>2, <1>7, <1>8, <1>9, <1>10, <1>11, <1>12, <1>13, <1>14
     DEF WireShape

\* What changes the ledger alone leaves the process as it is.
LEMMA WireSame ==
  ASSUME WireShape, UNCHANGED wire, LinkedToStored',
         \A d \in DealId : /\ Known(d) => Known(d)'
                           /\ links[d] # NoRecord => links'[d] = links[d],
         records \subseteq records', Shaped'
  PROVE  WireShape' /\ Kept /\ PendingKept
<1>1. UNCHANGED <<registry, stored, process, told, faults>>
  BY DEF wire
<1>2. RegistryOK /\ ProcessOK
  BY DEF WireShape
<1>3. RegistryOK'
  BY <1>1, <1>2 DEF RegistryOK
<1>4. ProcessOK'
  BY <1>1, <1>2 DEF ProcessOK, Admitted, WrongAudience
<1>5. Kept /\ PendingKept
  BY <1>1 DEF Kept, PendingKept
<1> QED
  BY <1>1, <1>3, <1>4, <1>5, ToldSame DEF WireShape

\* The console's calls keep the shape, and what they append is not of the peers.
LEMMA ConsoleKept ==
  ASSUME WireShape, Console
  PROVE  /\ WireShape' /\ Kept /\ PendingKept
         /\ Quiet \/ ByConsole
<1>1. Shaped /\ LinkedToStored /\ UNCHANGED wire
  BY DEF WireShape, Console
<1>2. ASSUME NEW d \in DealId, NEW r \in RecordId, RegisterDeal(d, r)
      PROVE  WireShape' /\ Kept /\ PendingKept /\ Quiet
  <2>1. Shaped'
    BY <1>1, <1>2, RegistrationType
  <2>2. /\ deals' = [deals EXCEPT ![d] = DraftDeal]
        /\ links' = [links EXCEPT ![d] = r]
        /\ records' = records \cup {r}
        /\ ~ Known(d) /\ links[d] = NoRecord
        /\ Quiet
    BY <1>1, <1>2 DEF RegisterDeal, LinkedToStored, Quiet
  <2>3. \A x \in DealId :
          /\ x # d => deals'[x] = deals[x] /\ links'[x] = links[x]
          /\ x = d => deals'[x] = DraftDeal /\ links'[x] = r
    BY <1>1, <2>2 DEF Shaped
  <2>4. \A x \in DealId : x = d => Known(x)'
    BY <2>3, DraftRow DEF Known
  <2>5. \A x \in DealId : x # d => (Known(x)' <=> Known(x))
    BY <2>3 DEF Known
  <2>6. LinkedToStored'
    BY <1>1, <2>2, <2>3, <2>4, <2>5 DEF LinkedToStored
  <2> QED
    BY <1>1, <2>1, <2>2, <2>3, <2>4, <2>5, <2>6, WireSame
<1>3. ASSUME Shaped', UNCHANGED <<links, records>>,
             \A x \in DealId : Known(x)' = Known(x)
      PROVE  WireShape' /\ Kept /\ PendingKept
  <2>1. LinkedToStored'
    BY <1>1, <1>3 DEF LinkedToStored
  <2> QED
    BY <1>1, <1>3, <2>1, WireSame
<1>4. ASSUME NEW d \in DealId, NEW c \in ConsoleCommands,
             NEW event \in BoundaryEvents[d],
             BoundaryEvent(d, c, event, FALSE)
      PROVE  WireShape' /\ Kept /\ PendingKept /\ (Quiet \/ ByConsole)
  <2>1. /\ c \in CommandId /\ event \in DealEvent
        /\ CommitTransition(d, c, event, FALSE)
    BY <1>4, LedgerAssumption, WireAssumption DEF BoundaryEvent
  <2>2. /\ Shaped'
        /\ UNCHANGED <<links, records>>
        /\ \A x \in DealId : Known(x)' = Known(x)
    BY <1>1, <2>1, TransitionType
  <2>3. CASE UNCHANGED store
    BY <1>3, <2>2, <2>3 DEF Quiet, store
  <2>4. CASE ~ UNCHANGED store
    <3>1. PICK k \in {1, 2} : Reports(d, c, event, k)
      BY <1>1, <2>1, <2>2, <2>4, EventStep
    <3>2. Operations
      BY <1>1, <2>1, <2>2, TransitionOperates
    <3>3. ByConsole
      BY <1>1, <2>1, <3>1, <3>2, EventAppends DEF ByConsole
    <3> QED
      BY <1>3, <2>2, <3>3
  <2> QED
    BY <2>3, <2>4
<1>5. ASSUME NEW d \in DealId, NEW c \in ConsoleCommands, Revoke(d, c)
      PROVE  WireShape' /\ Kept /\ PendingKept /\ (Quiet \/ ByConsole)
  <2>1. c \in CommandId
    BY WireAssumption
  <2>2. Shaped' /\ UNCHANGED <<deals, links, records>>
    BY <1>1, <1>5, <2>1, RevocationType
  <2>3. \A x \in DealId : Known(x)' = Known(x)
    BY <2>2 DEF Known
  <2>4. CASE UNCHANGED store
    BY <1>3, <2>2, <2>3, <2>4 DEF Quiet, store
  <2>5. CASE ~ UNCHANGED store
    <3>1. Withdraws(d, c) /\ Operations
      BY <1>1, <1>5, <2>1, <2>2, <2>5, RevocationStep, RevocationOperates
    <3>2. /\ links[d] # NoRecord /\ now' = now
          /\ \E v \in revocations' : v.record = links[d] /\ v.revoked_at = now
      BY <1>5, <2>5, RevocationIsStored
    <3>3. ByConsole
      BY <1>1, <2>1, <3>1, <3>2, RevocationAppends DEF ByConsole
    <3> QED
      BY <1>3, <2>2, <2>3, <3>3
  <2> QED
    BY <2>4, <2>5
<1>6. CASE Tick
  <2>1. Shaped' /\ UNCHANGED <<deals, links, records>> /\ Quiet
    BY <1>1, <1>6, TickType DEF Tick, store, Quiet
  <2>2. \A x \in DealId : Known(x)' = Known(x)
    BY <2>1 DEF Known
  <2> QED
    BY <1>3, <2>1, <2>2
<1> QED
  BY <1>2, <1>4, <1>5, <1>6 DEF Console

\* An envelope that arrives is answered, or handled if its slot is free.
LEMMA ReceiveKept ==
  ASSUME WireShape, NEW e \in Envelope, Receive(e)
  PROVE  WireShape' /\ Kept /\ PendingKept /\ Quiet
<1>1. /\ Shaped /\ LinkedToStored /\ RegistryOK /\ StoredOK /\ ProcessOK
      /\ ToldOK /\ faults \in 0..MaxFaults
  BY DEF WireShape
<1>2. /\ UNCHANGED <<vars, registry, stored>>
      /\ process = Idle
  BY DEF Receive
<1>3. /\ Lookup(e) \in {"new", "redelivery", "hostile"}
      /\ Lookup(e) = "new" => stored[Slot(e)] = NoEntry
      /\ Lookup(e) = "redelivery" =>
           stored[Slot(e)] # NoEntry /\ stored[Slot(e)].envelope = e
      /\ Lookup(e) = "hostile" =>
           stored[Slot(e)] # NoEntry /\ stored[Slot(e)].envelope # e
  BY DEF Lookup
<1>4. \/ \E a : Answer(e, a) /\ Fits(e, a) /\ process' = process
      \/ /\ Verified(e) /\ Lookup(e) = "new" /\ Content[e].kind # "receipt"
         /\ process' = [at |-> "handle", envelope |-> e]
         /\ UNCHANGED <<told, faults>>
  <2>1. CASE ~ Verified(e)
    <3>1. Answer(e, Refused("unverified")) /\ process' = process
      BY <2>1 DEF Receive
    <3>2. Fits(e, Refused("unverified"))
      BY <2>1 DEF Fits
    <3> QED
      BY <3>1, <3>2
  <2>2. CASE Verified(e) /\ Lookup(e) = "redelivery"
    <3>1. Answer(e, stored[Slot(e)].answer) /\ process' = process
      BY <2>2 DEF Receive, AnswerAgain
    <3>2. Fits(e, stored[Slot(e)].answer)
      BY <1>3, <2>2 DEF Fits, SlotSays
    <3> QED
      BY <3>1, <3>2
  <2>3. CASE Verified(e) /\ Lookup(e) = "hostile"
    <3>1. Answer(e, Refused("hostile")) /\ process' = process
      BY <2>3 DEF Receive
    <3>2. Fits(e, Refused("hostile"))
      BY <1>3, <2>3 DEF Fits, SlotSays
    <3> QED
      BY <3>1, <3>2
  <2>4. CASE Verified(e) /\ Lookup(e) = "new" /\ IsStale(e)
    <3>1. Answer(e, StaleEnvelope) /\ process' = process
      BY <2>4 DEF Receive
    <3>2. Fits(e, StaleEnvelope)
      BY <2>4 DEF Fits
    <3> QED
      BY <3>1, <3>2
  <2>5. CASE Verified(e) /\ Lookup(e) = "new" /\ ~ IsStale(e)
    <3>1. IF Content[e].kind = "receipt"
          THEN Answer(e, Acknowledged) /\ process' = process
          ELSE /\ process' = [at |-> "handle", envelope |-> e]
               /\ UNCHANGED <<told, faults>>
      BY <2>5 DEF Receive
    <3>2. Content[e].kind = "receipt" => Fits(e, Acknowledged)
      BY <2>5 DEF Fits
    <3> QED
      BY <2>5, <3>1, <3>2
  <2> QED
    BY <1>3, <2>1, <2>2, <2>3, <2>4, <2>5
<1>5. ToldOK' /\ faults' \in 0..MaxFaults
  <2>1. ASSUME NEW a, Answer(e, a), Fits(e, a)
        PROVE  ToldOK' /\ faults' \in 0..MaxFaults
    <3>1. Fits(e, a)'
      BY <1>2, <2>1 DEF Fits, SlotSays
    <3> QED
      BY <1>1, <1>2, <2>1, <3>1, AnswerFits
  <2>2. CASE UNCHANGED <<told, faults>>
    BY <1>1, <1>2, <2>2, ToldSame
  <2> QED
    BY <1>4, <2>1, <2>2
<1>6. /\ process' = Idle \/ (process'.at = "handle" /\ process'.envelope = e)
      /\ process' # Idle =>
           /\ Verified(e) /\ Content[e].kind # "receipt"
           /\ stored[Slot(e)] = NoEntry
  BY <1>2, <1>3, <1>4
<1>7. ProcessOK'
  BY <1>2, <1>6 DEF ProcessOK, Handles, Idle
<1>8. PendingKept /\ process # Down
  BY <1>2, <1>6 DEF PendingKept, Idle, Down
<1>9. Shaped' /\ LinkedToStored' /\ Quiet
  BY <1>2, LedgerSame
<1>10. RegistryOK' /\ StoredOK'
  BY <1>1, <1>2 DEF RegistryOK, StoredOK, vars, store
<1>11. Kept
  BY <1>2, <1>8 DEF Kept, Known, vars, store
<1> QED
  BY <1>5, <1>7, <1>8, <1>9, <1>10, <1>11 DEF WireShape

\* A pending answer is stored and sent.
LEMMA StoreAnswerKept ==
  ASSUME WireShape, StoreAnswer
  PROVE  WireShape' /\ Kept /\ PendingKept /\ Quiet
<1>1. /\ Shaped /\ LinkedToStored /\ RegistryOK /\ StoredOK /\ ProcessOK
      /\ ToldOK /\ faults \in 0..MaxFaults
  BY DEF WireShape
<1> PICK e, a : /\ e \in Envelope /\ e = process.envelope
                /\ a = process.answer
  BY <1>1 DEF StoreAnswer, ProcessOK, Handles
<1> DEFINE entry == [envelope |-> e, answer |-> a]
<1>2. /\ UNCHANGED <<vars, registry>>
      /\ process.at = "store" /\ process' = Idle
      /\ Handles(e) /\ IsAnswer(a)
      /\ stored[Slot(e)] = NoEntry
      /\ Answer(e, a)
      /\ stored' = [stored EXCEPT ![Slot(e)] = entry]
  BY <1>1 DEF StoreAnswer, Remembered, ProcessOK, Handles
<1>3. /\ entry # NoEntry /\ entry.envelope = e /\ entry.answer = a
      /\ Slot(e) \in Slots
  BY <1>2, EntryIsOne, EnvelopeType
<1> HIDE DEF entry
<1>4. /\ stored' = [slot \in Slots |-> stored'[slot]]
      /\ stored'[Slot(e)] = entry
      /\ \A slot \in Slots : slot # Slot(e) => stored'[slot] = stored[slot]
  <2>1. stored = [slot \in Slots |-> stored[slot]]
    BY <1>1 DEF StoredOK
  <2> QED
    BY <1>2, <1>3, <2>1
<1>5. StoredOK'
  <2>1. \A slot \in Slots : stored[slot] # NoEntry =>
          /\ Handles(stored[slot].envelope)
          /\ Slot(stored[slot].envelope) = slot
          /\ IsAnswer(stored[slot].answer)
    BY <1>1 DEF StoredOK
  <2>2. \A slot \in Slots : stored'[slot] # NoEntry =>
          /\ Handles(stored'[slot].envelope)
          /\ Slot(stored'[slot].envelope) = slot
          /\ IsAnswer(stored'[slot].answer)
    BY <1>2, <1>3, <1>4, <2>1
  <2> QED
    BY <1>4, <2>2 DEF StoredOK
<1>6. ToldOK' /\ faults' \in 0..MaxFaults
  <2>1. Fits(e, a)'
    BY <1>2, <1>3, <1>4 DEF Fits, SlotSays, Handles
  <2>2. \A slot \in Slots :
          stored[slot] # NoEntry => stored'[slot] = stored[slot]
    BY <1>2, <1>4
  <2> QED
    BY <1>1, <1>2, <2>1, <2>2, AnswerFits
<1>7. ProcessOK' /\ PendingKept /\ process # Down
  BY <1>2 DEF ProcessOK, PendingKept, Idle, Down
<1>8. Shaped' /\ LinkedToStored' /\ Quiet
  BY <1>2, LedgerSame
<1>9. RegistryOK'
  BY <1>1, <1>2 DEF RegistryOK, vars, store
<1>10. Kept
  <2>1. \A d \in DealId :
          /\ Known(d) => Known(d)'
          /\ links'[d] = links[d] /\ registry'[d] = registry[d]
    BY <1>2 DEF Known, vars, store
  <2>2. \A slot \in Slots :
          \/ stored'[slot] = stored[slot]
          \/ /\ stored[slot] = NoEntry
             /\ stored'[slot].envelope = e /\ stored'[slot].answer = a
    BY <1>2, <1>3, <1>4
  <2> QED
    BY <1>2, <1>7, <2>1, <2>2 DEF Kept
<1> QED
  BY <1>5, <1>6, <1>7, <1>8, <1>9, <1>10 DEF WireShape

\* An exception, a crash and a restart lose work, but no answer and no link.
LEMMA FaultKept ==
  ASSUME WireShape, Raise \/ Crash \/ Restart
  PROVE  WireShape' /\ Kept /\ PendingKept /\ Quiet
<1>1. /\ Shaped /\ LinkedToStored /\ RegistryOK /\ StoredOK /\ ProcessOK
      /\ ToldOK /\ faults \in 0..MaxFaults
  BY DEF WireShape
<1>2. /\ UNCHANGED <<vars, stored, told>>
      /\ \/ process' = Idle /\ process # Down /\ registry' = registry
         \/ process' = Down /\ registry' = [d \in DealId |-> NoRecord]
         \/ process' = Idle /\ registry' = links
      /\ faults' \in 0..MaxFaults
  BY <1>1, WireAssumption DEF Raise, Crash, Restart, Down, Hydrated
<1>3. Shaped' /\ LinkedToStored' /\ Quiet
  BY <1>2, LedgerSame
<1>4. links' = links /\ deals' = deals
  BY <1>2 DEF vars, store
<1>5. RegistryOK'
  BY <1>1, <1>2, <1>4 DEF RegistryOK, Shaped
<1>6. StoredOK' /\ ToldOK'
  BY <1>2, ToldSame
<1>7. ProcessOK' /\ PendingKept
  BY <1>2 DEF ProcessOK, PendingKept, Idle, Down
<1>8. Kept
  BY <1>2, <1>4 DEF Kept, Known
<1> QED
  BY <1>2, <1>3, <1>5, <1>6, <1>7, <1>8 DEF WireShape

-----------------------------------------------------------------------------
(* The handlers.                                                           *)

\* What a handler does with a proposal: it refuses it, or goes on to the claim
\* with the deal that it has read.
PendingAnswer(e, a) ==
  process' = [at |-> "store", envelope |-> e, answer |-> a]
RefusesProposal(e) ==
  \/ /\ registry[DealOf(e)] = NoRecord \/ ~ Known(DealOf(e))
     /\ PendingAnswer(e, Refused("unknown_deal"))
  \/ /\ registry[DealOf(e)] # NoRecord /\ WrongAudience(e)
     /\ PendingAnswer(e, Refused("wrong_audience"))
ReadsDeal(e) ==
  /\ registry[DealOf(e)] # NoRecord /\ Known(DealOf(e)) /\ ~ WrongAudience(e)
  /\ process' = [at |-> "claim", envelope |-> e, deal |-> deals[DealOf(e)]]

\* HandleProposal does one or the other.
LEMMA ProposalHandled ==
  ASSUME NEW e, HandleProposal(e)
  PROVE  UNCHANGED vars /\ (RefusesProposal(e) \/ ReadsDeal(e))
<1> DEFINE d == DealOf(e)
<1>1. CASE registry[d] = NoRecord \/ ~ Known(d)
  BY <1>1 DEF HandleProposal, RefusesProposal, Handled, PendingAnswer
<1>2. CASE registry[d] # NoRecord /\ Known(d) /\ WrongAudience(e)
  BY <1>2 DEF HandleProposal, RefusesProposal, Handled, PendingAnswer
<1>3. CASE registry[d] # NoRecord /\ Known(d) /\ ~ WrongAudience(e)
  BY <1>3 DEF HandleProposal, ReadsDeal
<1> QED
  BY <1>1, <1>2, <1>3 DEF HandleProposal

\* What the engine can decide on what was read.
Judges(e, decision) ==
  \E content :
    decision = Evaluate(PolicyInput(Content[e].proposal,
                                    Mandate[registry[DealOf(e)]],
                                    process.status, process.deal, process.now,
                                    content))

\* How a request ends: with the decision on record, at the gate, with a stale
\* commit, or with its decision on record.
Settles(e, q, a) ==
  LET p == Content[e].proposal IN
  \/ /\ UNCHANGED store
     /\ decisions[p.key] # NoDecision /\ decisions[p.key].proposal = p
     /\ a = Accepted(decisions[p.key].decision)
  \/ /\ UNCHANGED store
     /\ decisions[p.key] = NoDecision \/ decisions[p.key].proposal # p
     /\ a = Refused("replay_gate")
  \/ \E decision :
       /\ Judges(e, decision)
       /\ a = Accepted(decision)
       /\ \/ /\ UNCHANGED store
             /\ Stale(deals[p.deal], PlannedEvent(p, decision))
          \/ /\ decisions[p.key] = NoDecision /\ q \notin seen_requests
             /\ ~ Stale(deals[p.deal], PlannedEvent(p, decision))
             /\ CommitRequest(q, p, decision)
             /\ answer' = ToldDecision("decided", p.key, decision)

\* CommitProposal ends in one of these ways; the request it draws is a new one.
LEMMA ProposalSettled ==
  ASSUME WireShape, CommitProposal
  PROVE  \E e \in Envelope, q \in RequestId : \E a :
           /\ InWork(e) /\ Handles(e) /\ Admitted(e)
           /\ Settles(e, q, a) /\ PendingAnswer(e, a)
<1> PICK e : e = process.envelope
  OBVIOUS
<1> DEFINE p == Content[e].proposal
           q == NewRequest
           a == IF answer'.result \in {"decided", "idempotent_hit"}
                THEN Accepted(answer'.decision) ELSE Refused("replay_gate")
<1>1. InWork(e) /\ Handles(e) /\ e \in Envelope /\ Admitted(e)
  BY DEF WireShape, ProcessOK, Handles, InWork, CommitProposal
<1>2. q \in RequestId
  BY DEF CommitProposal, NewRequest, WireShape, Shaped
<1>3. PendingAnswer(e, a)
  BY DEF CommitProposal, Handled, PendingAnswer
<1>4. PICK content :
        ProcessRequest(q, p, PolicyInput(p, Mandate[registry[DealOf(e)]],
                                         process.status, process.deal,
                                         process.now, content))
  BY DEF CommitProposal
<1> DEFINE decision ==
             Evaluate(PolicyInput(p, Mandate[registry[DealOf(e)]],
                                  process.status, process.deal, process.now,
                                  content))
<1>5. Judges(e, decision)
  BY DEF Judges
<1>6. LET verdict == CheckAntiReplay(q, p) IN
      \/ /\ verdict = "idempotent_hit"
         /\ answer' = ToldDecision(verdict, p.key, decisions[p.key].decision)
         /\ UNCHANGED store
      \/ /\ verdict \in {"conflict", "replay"}
         /\ answer' = Told(verdict)
         /\ UNCHANGED store
      \/ /\ verdict = "pass"
         /\ answer' = ToldDecision("decided", p.key, decision)
         /\ IF Stale(deals[p.deal], PlannedEvent(p, decision))
            THEN UNCHANGED store
            ELSE CommitRequest(q, p, decision)
  BY <1>4 DEF ProcessRequest
<1> HIDE DEF p, q, decision
<1>7. /\ CheckAntiReplay(q, p) = "idempotent_hit" =>
           decisions[p.key] # NoDecision /\ decisions[p.key].proposal = p
      /\ CheckAntiReplay(q, p) \in {"conflict", "replay"} =>
           decisions[p.key] = NoDecision \/ decisions[p.key].proposal # p
      /\ CheckAntiReplay(q, p) = "pass" =>
           decisions[p.key] = NoDecision /\ q \notin seen_requests
  BY DEF CheckAntiReplay
<1>8. Settles(e, q, a)
  BY <1>5, <1>6, <1>7 DEF Settles, p, ToldDecision, Told
<1> QED
  BY <1>1, <1>2, <1>3, <1>8

\* There is one way to allow.
LEMMA AllowIsOne ==
  ASSUME NEW pi, Evaluate(pi).outcome = "allow"
  PROVE  Evaluate(pi) = Allow
BY DEF Evaluate, HoldOrAllow, Deny, NeedsApproval

\* What the engine decides is a decision, which only permits what the claim and
\* the deal it was given permit.
LEMMA JudgesPermits ==
  ASSUME NEW e, NEW decision, Judges(e, decision)
  PROVE  /\ decision \in Decision
         /\ decision.outcome = "allow" => decision = Allow
         /\ decision.outcome # "deny" =>
              LET action == Content[e].proposal.action IN
              /\ action \in ActionToken
              /\ process.status # "revoked"
              /\ ActionEvents[action] # NoEvent =>
                   TransitionFor(process.deal.state, ActionEvents[action])
                     # NoState
<1> PICK content :
      decision = Evaluate(PolicyInput(Content[e].proposal,
                                      Mandate[registry[DealOf(e)]],
                                      process.status, process.deal, process.now,
                                      content))
  BY DEF Judges
<1> DEFINE pi == PolicyInput(Content[e].proposal, Mandate[registry[DealOf(e)]],
                             process.status, process.deal, process.now, content)
<1>1. /\ decision = Evaluate(pi)
      /\ pi.status = process.status
      /\ pi.proposal.action = Content[e].proposal.action
      /\ pi.deal = process.deal
  BY DEF PolicyInput
<1> HIDE DEF pi
<1>2. ASSUME decision.outcome # "deny"
      PROVE  /\ pi.status \notin {"revoked", "expired"}
             /\ pi.proposal.action \in ActionToken
             /\ ~ OutOfPlace(pi)
  BY <1>1, <1>2, EvaluatePermits
<1> QED
  BY <1>1, <1>2, AllowIsOne, EvaluateType, PermittedHasTransition
     DEF OutOfPlace

\* What a handler does with an event: it refuses it, or applies it.
AnswerToEvent ==
  IF answer'.result \in {"committed", "already_applied"}
  THEN Accepted(NoDecision) ELSE Refused("not_applied")
RefusesEvent(e) ==
  /\ UNCHANGED vars
  /\ \/ ~ Known(DealOf(e)) /\ PendingAnswer(e, Refused("unknown_deal"))
     \/ PendingAnswer(e, Refused("wrong_audience"))
     \/ /\ Content[e].event \notin DealEvent
        /\ PendingAnswer(e, Refused("unknown_event"))
AppliesEvent(e) ==
  /\ Known(DealOf(e)) /\ Content[e].event \in DealEvent
  /\ CommitTransition(DealOf(e), Content[e].message, Content[e].event,
                      Content[e].noted)
  /\ PendingAnswer(e, AnswerToEvent)

\* HandleEvent does one or the other, the message being the command.
LEMMA EventHandled ==
  ASSUME NEW e \in Envelope, HandleEvent(e)
  PROVE  RefusesEvent(e) \/ AppliesEvent(e)
<1> DEFINE d == DealOf(e)
<1>1. CASE ~ Known(d)
  BY <1>1 DEF HandleEvent, RefusesEvent, Handled, PendingAnswer
<1>2. CASE Known(d) /\ WrongAudience(e)
  BY <1>2 DEF HandleEvent, RefusesEvent, Handled, PendingAnswer
<1>3. CASE Known(d) /\ ~ WrongAudience(e) /\ Content[e].event \notin DealEvent
  BY <1>3 DEF HandleEvent, RefusesEvent, Handled, PendingAnswer
<1>4. CASE Known(d) /\ ~ WrongAudience(e) /\ Content[e].event \in DealEvent
  BY <1>4 DEF HandleEvent, AppliesEvent, CommandOf, Handled, PendingAnswer,
              AnswerToEvent
<1> QED
  BY <1>1, <1>2, <1>3, <1>4

\* A handler's answer waits to be stored, in a slot that is free.
LEMMA PendingIsShaped ==
  ASSUME WireShape, NEW e \in Envelope, InWork(e), NEW a, IsAnswer(a),
         PendingAnswer(e, a),
         UNCHANGED <<registry, stored, told, faults, links>>,
         Shaped', records \subseteq records',
         \A d \in DealId : Known(d) => Known(d)'
  PROVE  WireShape' /\ Kept
<1>1. /\ LinkedToStored /\ RegistryOK /\ StoredOK /\ ProcessOK /\ ToldOK
      /\ faults \in 0..MaxFaults
  BY DEF WireShape
<1>2. LinkedToStored'
  BY <1>1 DEF LinkedToStored
<1>3. RegistryOK'
  BY <1>1 DEF RegistryOK
<1>4. Handles(e) /\ stored[Slot(e)] = NoEntry /\ process # Down
  BY <1>1 DEF ProcessOK, InWork, Down
<1>5. /\ process'.at = "store" /\ process'.envelope = e /\ process'.answer = a
      /\ process' # Down
  BY DEF PendingAnswer, Down
<1>6. ProcessOK'
  BY <1>4, <1>5 DEF ProcessOK
<1>7. Kept
  BY <1>4 DEF Kept
<1> QED
  BY <1>1, <1>2, <1>3, <1>6, <1>7, ToldSame DEF WireShape

\* Its answer is one of the gateway's.
LEMMA HandlersAnswer ==
  /\ \A why \in Reasons : IsAnswer(Refused(why))
  /\ \A decision \in Decision \cup {NoDecision} : IsAnswer(Accepted(decision))
  /\ IsAnswer(AnswerToEvent)
<1>1. /\ \A why \in Reasons : IsAnswer(Refused(why))
      /\ \A decision \in Decision \cup {NoDecision} :
           IsAnswer(Accepted(decision))
  BY DEF IsAnswer, Refused, Accepted
<1>2. IsAnswer(AnswerToEvent)
  BY <1>1 DEF AnswerToEvent, Reasons
<1> QED
  BY <1>1, <1>2

\* A deal that the process has heard of is registered and has its record.
LEMMA HeardOf ==
  ASSUME WireShape, NEW d \in DealId, registry[d] # NoRecord
  PROVE  links[d] = registry[d] /\ links[d] # NoRecord /\ Known(d) /\ Linked(d)
BY DEF WireShape, RegistryOK, LinkedToStored, Linked

\* A proposal's handler keeps the shape up to its commit, ...
LEMMA ProposalKept ==
  ASSUME WireShape, NEW e \in Envelope, InWork(e),
         Content[e].kind = "proposal", HandleProposal(e),
         UNCHANGED <<registry, stored, told, faults>>
  PROVE  WireShape' /\ Kept /\ Quiet
<1>1. UNCHANGED vars /\ Shaped' /\ LinkedToStored' /\ Quiet
  BY ProposalHandled, LedgerSame
<1>2. links' = links /\ records' = records /\ deals' = deals
  BY <1>1 DEF vars, store
<1>3. \A x \in DealId : Known(x) => Known(x)'
  BY <1>2 DEF Known
<1>4. CASE RefusesProposal(e)
  <2>1. PICK why \in {"unknown_deal", "wrong_audience"} :
          PendingAnswer(e, Refused(why))
    BY <1>4 DEF RefusesProposal
  <2>2. IsAnswer(Refused(why))
    BY HandlersAnswer DEF Reasons
  <2> QED
    BY <1>1, <1>2, <1>3, <2>1, <2>2, PendingIsShaped
<1>5. CASE ReadsDeal(e)
  <2>1. /\ process'.at = "claim" /\ process'.envelope = e
        /\ Admitted(e)' /\ Handles(e) /\ stored[Slot(e)] = NoEntry
        /\ process # Down /\ process' # Down
    BY <1>5 DEF ReadsDeal, Admitted, WrongAudience, WireShape, ProcessOK,
                InWork, Down
  <2>2. ProcessOK'
    BY <2>1 DEF ProcessOK, Admitted, WrongAudience
  <2>3. RegistryOK'
    BY <1>2 DEF WireShape, RegistryOK
  <2>4. Kept
    BY <1>2, <1>3, <2>1 DEF Kept
  <2> QED
    BY <1>1, <2>2, <2>3, <2>4, ToldSame DEF WireShape
<1> QED
  BY <1>4, <1>5, ProposalHandled

\* ... builds its claim, ...
LEMMA BuildClaimKept ==
  ASSUME WireShape, BuildClaim
  PROVE  WireShape' /\ Kept /\ PendingKept /\ Quiet
<1>1. UNCHANGED vars /\ Shaped' /\ LinkedToStored' /\ Quiet
  BY LedgerSame DEF BuildClaim
<1>2. links' = links /\ records' = records /\ deals' = deals
  BY <1>1 DEF vars, store
<1>3. /\ process'.at = "commit" /\ process'.envelope = process.envelope
      /\ process.at = "claim" /\ process # Down /\ process' # Down
      /\ UNCHANGED <<registry, stored, told, faults>>
  BY DEF BuildClaim, Down
<1>4. ProcessOK'
  BY <1>3 DEF WireShape, ProcessOK, Admitted, WrongAudience
<1>5. RegistryOK'
  BY <1>2, <1>3 DEF WireShape, RegistryOK
<1>6. Kept /\ PendingKept
  BY <1>2, <1>3 DEF Kept, PendingKept, Known
<1> QED
  BY <1>1, <1>3, <1>4, <1>5, <1>6, ToldSame DEF WireShape

\* ... and commits the proposal or nothing.
LEMMA CommitProposalKept ==
  ASSUME WireShape, CommitProposal, NEW e \in Envelope, NEW q \in RequestId,
         NEW a, InWork(e), Handles(e), Admitted(e), Settles(e, q, a),
         PendingAnswer(e, a)
  PROVE  WireShape' /\ Kept /\ (Quiet \/ ByProposal(e))
<1> DEFINE p == Content[e].proposal
<1>1. Shaped /\ now' = now /\ process.at = "commit"
      /\ UNCHANGED <<registry, stored, told, faults>>
  BY DEF WireShape, CommitProposal, ProcessRequest
<1>2. /\ p \in Proposals /\ p.deal = DealOf(e) /\ p.key \in Key
      /\ Known(p.deal) /\ Linked(p.deal)
  BY EnvelopeType, HeardOf, LedgerAssumption DEF Admitted
<1>3. CASE UNCHANGED store
  <2>1. links' = links /\ records' = records /\ deals' = deals
    BY <1>3 DEF store
  <2>2. Shaped' /\ Quiet
    BY <1>1, <1>3 DEF Shaped, store, Quiet
  <2>3. \A x \in DealId : Known(x) => Known(x)'
    BY <2>1 DEF Known
  <2>4. IsAnswer(a)
    <3>1. ASSUME decisions[p.key] # NoDecision
          PROVE  decisions[p.key].decision \in Decision
      BY <1>1, <1>2, <3>1 DEF Shaped, StoredDecision
    <3> QED
      BY <3>1, HandlersAnswer, JudgesPermits DEF Settles, Reasons
  <2> QED
    BY <1>1, <2>1, <2>2, <2>3, <2>4, PendingIsShaped
<1>4. ASSUME NEW decision, Judges(e, decision), a = Accepted(decision),
             decisions[p.key] = NoDecision, q \notin seen_requests,
             ~ Stale(deals[p.deal], PlannedEvent(p, decision)),
             CommitRequest(q, p, decision),
             answer' = ToldDecision("decided", p.key, decision)
      PROVE  WireShape' /\ Kept /\ ByProposal(e)
  <2> HIDE DEF p
  <2>1. /\ decision \in Decision
        /\ decision.outcome # "deny" =>
             p.action \in ActionToken /\ process.status # "revoked"
    BY <1>4, JudgesPermits DEF p
  <2>2. Committed(q, p, decision)
    BY <1>1, <1>2, <1>4, <2>1 DEF Committed, Committable
  <2>3. /\ Shaped' /\ UNCHANGED <<links, records>>
        /\ \A x \in DealId : Known(x)' = Known(x)
    BY <1>1, <1>2, <2>2, CommitRequestType DEF Committed
  <2>4. IsAnswer(a)
    BY <1>4, <2>1, HandlersAnswer
  <2>5. WireShape' /\ Kept
    BY <1>1, <2>3, <2>4, PendingIsShaped
  <2>6. Operations
    BY <1>1, <1>2, <2>2, <2>3, RequestOperates
  <2>7. PICK at \in {1, 2} : Commits(q, p, decision, at)
    BY <1>1, <1>2, <2>2, <2>3, RequestStep
  <2>8. /\ UNCHANGED seen_commands
        /\ \A x \in DealId : \A i \in Added(x) :
             LET entry == events'[x][i] IN
             /\ x = p.deal
             /\ entry.type = "policy_decision" =>
                  entry.proposal = p /\ entry.decision = decision
             /\ entry.type = "state_transition" => entry.cause = q
             /\ entry.type = "approval" => entry.operation = "required"
             /\ entry.type # "revocation"
    <3>1. /\ q \in RequestId /\ p \in Proposals /\ at \in {1, 2}
          /\ Commits(q, p, decision, at)
      BY <1>2, <2>7
    <3> QED
      BY <3>1, RequestAppends
  <2>9. \A x \in DealId : \A i \in Added(x) :
          LET entry == events'[x][i] IN
          /\ x = DealOf(e)
          /\ entry.type = "policy_decision" => entry.proposal = p
          /\ entry.type = "state_transition" => entry.cause \in RequestId
          /\ entry.type # "revocation"
          /\ Permission(entry) =>
               entry.type = "policy_decision" /\ process.status # "revoked"
    BY <1>2, <2>1, <2>8 DEF Permission
  <2>10. ByProposal(e)
    BY <1>1, <2>6, <2>8, <2>9 DEF ByProposal, p
  <2> QED
    BY <2>5, <2>10
<1> QED
  BY <1>3, <1>4 DEF Settles

\* An event's handler keeps the shape and applies the event or nothing.
LEMMA EventKept ==
  ASSUME WireShape, NEW e \in Envelope, InWork(e), process.at = "handle",
         Content[e].kind # "proposal", HandleEvent(e),
         UNCHANGED <<registry, stored, told, faults>>
  PROVE  /\ WireShape' /\ Kept
         /\ Quiet \/ ByEvent(e)
<1> DEFINE d == DealOf(e)
           c == Content[e].message
           event == Content[e].event
           noted == Content[e].noted
<1>1. Shaped
  BY DEF WireShape
<1>2. CASE RefusesEvent(e)
  <2>1. UNCHANGED vars /\ Shaped' /\ Quiet
    BY <1>2, LedgerSame DEF RefusesEvent
  <2>2. links' = links /\ records' = records /\ deals' = deals
    BY <2>1 DEF vars, store
  <2>3. \A x \in DealId : Known(x) => Known(x)'
    BY <2>2 DEF Known
  <2>4. PICK why \in {"unknown_deal", "wrong_audience", "unknown_event"} :
          PendingAnswer(e, Refused(why))
    BY <1>2 DEF RefusesEvent
  <2>5. IsAnswer(Refused(why))
    BY <1>1, HandlersAnswer DEF Reasons
  <2> QED
    BY <2>1, <2>2, <2>3, <2>4, <2>5, PendingIsShaped
<1>3. CASE AppliesEvent(e)
  <2>1. /\ d \in DealId /\ Known(d) /\ c \in CommandId /\ event \in DealEvent
        /\ CommitTransition(d, c, event, noted)
        /\ PendingAnswer(e, AnswerToEvent)
    BY <1>3, EnvelopeType DEF AppliesEvent
  <2> HIDE DEF d, c, event, noted
  <2>2. /\ Shaped' /\ UNCHANGED <<links, records>>
        /\ \A x \in DealId : Known(x)' = Known(x)
    BY <1>1, <2>1, TransitionType
  <2>3. WireShape' /\ Kept
    <3> DEFINE a == AnswerToEvent
    <3>1. IsAnswer(a) /\ PendingAnswer(e, a)
      BY <1>1, <2>1, HandlersAnswer
    <3> HIDE DEF a
    <3>2. PICK b : b = a
      OBVIOUS
    <3>3. IsAnswer(b) /\ PendingAnswer(e, b)
      BY <3>1, <3>2
    <3> QED
      BY <2>2, <3>3, PendingIsShaped
  <2>4. CASE UNCHANGED store
    BY <2>3, <2>4 DEF Quiet, store
  <2>5. CASE ~ UNCHANGED store
    <3>1. PICK k \in {1, 2} : Reports(d, c, event, k)
      BY <1>1, <2>1, <2>2, <2>5, EventStep
    <3>2. Operations
      BY <1>1, <2>1, <2>2, TransitionOperates
    <3>3. /\ seen_commands' = seen_commands \cup {c}
          /\ \E i \in DOMAIN events'[d] :
               LET entry == events'[d][i] IN
               entry.type = "state_transition" /\ entry.cause = c
          /\ \A x \in DealId : \A i \in Added(x) :
               LET entry == events'[x][i] IN
               /\ x = d
               /\ entry.type \notin {"policy_decision", "approval",
                                    "revocation"}
               /\ entry.type = "state_transition" =>
                    entry.cause = c /\ entry.event = event
      BY <2>1, <3>1, EventAppends
    <3>4. ByEvent(e)
      BY <2>1, <3>2, <3>3 DEF ByEvent, d, c, event
    <3> QED
      BY <2>3, <3>4
  <2> QED
    BY <2>4, <2>5
<1> QED
  BY <1>2, <1>3, EventHandled

\* A handler's step, whichever envelope it is about.
LEMMA HandleKept ==
  ASSUME WireShape, Handle
  PROVE  \E e \in Envelope :
           /\ InWork(e) /\ Handles(e) /\ process.at = "handle"
           /\ WireShape' /\ Kept
           /\ \/ /\ Content[e].kind = "proposal" /\ HandleProposal(e)
                 /\ Quiet
              \/ /\ Content[e].kind # "proposal" /\ HandleEvent(e)
                 /\ Quiet \/ ByEvent(e)
<1>1. PICK e \in Envelope : InWork(e) /\ Handles(e) /\ process.at = "handle"
  BY DEF WireShape, ProcessOK, Handles, InWork, Handle
<1>2. /\ UNCHANGED <<registry, stored, told, faults>>
      /\ IF Content[e].kind = "proposal" THEN HandleProposal(e)
         ELSE HandleEvent(e)
  BY <1>1 DEF Handle, InWork
<1>3. CASE Content[e].kind = "proposal"
  <2>1. HandleProposal(e)
    BY <1>2, <1>3
  <2>2. WireShape' /\ Kept /\ Quiet
    BY <1>1, <1>2, <1>3, <2>1, ProposalKept
  <2> QED
    BY <1>1, <1>3, <2>1, <2>2
<1>4. CASE Content[e].kind # "proposal"
  <2>1. HandleEvent(e)
    BY <1>2, <1>4
  <2>2. WireShape' /\ Kept /\ (Quiet \/ ByEvent(e))
    BY <1>1, <1>2, <1>4, <2>1, EventKept
  <2> QED
    BY <1>1, <1>4, <2>1, <2>2
<1> QED
  BY <1>3, <1>4

\* The kinds of steps together.
Moves ==
  Quiet \/ ByConsole \/ \E e \in Envelope : ByProposal(e) \/ ByEvent(e)

\* Every step of the gateway is of one of the kinds, and all but those that end
\* a handler's work leave a pending answer as it is.
LEMMA WireStep ==
  ASSUME WireShape, [WireNext]_wireVars
  PROVE  /\ WireShape' /\ Kept /\ Moves
         /\ \/ Handle \/ CommitProposal
            \/ PendingKept /\ (Quiet \/ ByConsole)
<1>1. ASSUME NEW d \in DealId, NEW r \in RecordId, CreateDeal(d, r)
      PROVE  WireShape' /\ Kept /\ PendingKept /\ Quiet
  BY <1>1, CreateDealKept
<1>2. CASE PutRecord \/ LinkDealRecord \/ BuildClaim \/ StoreAnswer \/ Raise
           \/ Crash \/ Restart \/ \E e \in Envelope : Receive(e)
  BY <1>2, PutRecordKept, LinkDealRecordKept, BuildClaimKept, StoreAnswerKept,
     FaultKept, ReceiveKept DEF Moves
<1>3. CASE Console
  BY <1>3, ConsoleKept DEF Moves
<1>4. CASE Handle
  BY <1>4, HandleKept DEF Moves
<1>5. CASE CommitProposal
  BY <1>5, ProposalSettled, CommitProposalKept DEF Moves
<1>6. CASE UNCHANGED wireVars
  <2>1. UNCHANGED <<vars, wire>>
    BY <1>6 DEF wireVars
  <2>2. Shaped' /\ LinkedToStored' /\ Quiet
    BY <2>1, LedgerSame
  <2>3. \A d \in DealId : /\ Known(d) => Known(d)'
                          /\ links[d] # NoRecord => links'[d] = links[d]
    BY <2>1 DEF vars, store, Known
  <2>4. records' = records
    BY <2>1 DEF vars, store
  <2> QED
    BY <2>1, <2>2, <2>3, <2>4, WireSame DEF Moves
<1> QED
  BY <1>1, <1>2, <1>3, <1>4, <1>5, <1>6 DEF WireNext, Proceed, Moves

-----------------------------------------------------------------------------
(* What the chains say, step by step.                                      *)

\* What a chain holds stays in its place.
LEMMA EntriesKept ==
  ASSUME Consistent, Moves, NEW d \in DealId
  PROVE  /\ \A i \in DOMAIN events[d] :
              i \in DOMAIN events'[d] /\ events'[d][i] = events[d][i]
         /\ \A i \in DOMAIN events'[d] :
              i \in DOMAIN events[d] \/ i \in Added(d)
         /\ Quiet => Added(d) = {}
<1>1. CASE Quiet
  BY <1>1 DEF Quiet, Added
<1>2. CASE Operations
  BY <1>2, ChainsKept DEF Added, Quiet
<1> QED
  BY <1>1, <1>2 DEF Moves, ByConsole, ByProposal, ByEvent

\* What stands before an old entry is old.
LEMMA EarlierIsOld ==
  ASSUME Consistent, Moves, NEW d \in DealId, NEW j \in DOMAIN events[d],
         NEW i \in DOMAIN events'[d], i < j
  PROVE  i \in DOMAIN events[d] /\ events'[d][i] = events[d][i]
<1>1. CASE Quiet
  BY <1>1 DEF Quiet
<1>2. CASE Operations
  <2>1. /\ DOMAIN events[d] = 1..Len(events[d]) /\ Len(events[d]) \in Nat
        /\ DOMAIN events'[d] = 1..Len(events'[d]) /\ Len(events'[d]) \in Nat
        /\ \A h \in DOMAIN events[d] : events'[d][h] = events[d][h]
    BY <1>2, ChainsKept
  <2> QED
    BY <2>1
<1> QED
  BY <1>1, <1>2 DEF Moves, ByConsole, ByProposal, ByEvent

\* A held request stays a seen one.
LEMMA HeldAreSeenKept ==
  ASSUME Consistent, Operations
  PROVE  HeldAreSeen'
<1>1. HeldAreSeen /\ approvals \in [RequestId -> Approval \cup {NoApproval}]
  BY DEF Consistent, Shaped
<1>2. CASE Still
  BY <1>1, <1>2 DEF Still, HeldAreSeen
<1>3. ASSUME NEW q, NEW p, NEW decision, NEW at, Commits(q, p, decision, at)
      PROVE  HeldAreSeen'
  <2>1. q \in RequestId /\ seen_requests' = seen_requests \cup {q}
    BY <1>3 DEF Commits, Performs, Holds, Records, Decides
  <2>2. \A x \in RequestId : x # q => approvals'[x] = approvals[x]
    BY <1>1, <1>3 DEF Commits, Performs, Holds, Records
  <2> QED
    BY <1>1, <2>1, <2>2 DEF HeldAreSeen
<1>4. ASSUME NEW q, NEW c, Grants(q, c) \/ Dismisses(q, c)
      PROVE  HeldAreSeen'
  <2>1. /\ q \in RequestId /\ approvals[q].status = "pending"
        /\ approvals[q] \in Approval
        /\ seen_requests' = seen_requests
    BY <1>4 DEF Grants, Dismisses, Spends
  <2>2. approvals[q] # NoApproval
    BY <2>1 DEF NoApproval
  <2>3. \A x \in RequestId : x # q => approvals'[x] = approvals[x]
    BY <1>1, <1>4 DEF Grants, Dismisses
  <2> QED
    BY <1>1, <2>1, <2>2, <2>3 DEF HeldAreSeen
<1>5. ASSUME NEW d, NEW c, NEW event, NEW k,
             Reports(d, c, event, k) \/ Withdraws(d, c)
      PROVE  HeldAreSeen'
  BY <1>1, <1>5 DEF Reports, Withdraws, Spends, HeldAreSeen
<1> QED
  BY <1>2, <1>3, <1>4, <1>5 DEF Operations

\* The invariants of the ledger that the gateway rests on.
LEMMA EffectsKept ==
  ASSUME Consistent, Effects, Moves
  PROVE  HeldAreSeen' /\ Effects'
<1>1. CASE Quiet
  BY <1>1 DEF Consistent, HeldAreSeen, Effects, Quiet, DecidedAreStored,
     MovedAreSpent, StoredAreDecided, DecidedOnce, MovedOnce
<1>2. CASE Operations
  BY <1>2, HeldAreSeenKept, EffectsStep
<1> QED
  BY <1>1, <1>2 DEF Moves, ByConsole, ByProposal, ByEvent

\* The envelope in work was verified, and is no receipt.
LEMMA WorkedOn ==
  ASSUME WireShape, NEW e \in Envelope, InWork(e)
  PROVE  /\ Verified(e) /\ Content[e].kind # "receipt"
         /\ stored[Slot(e)] = NoEntry /\ process # Down
BY DEF WireShape, ProcessOK, InWork, Handles, Down

\* No chain has a decision but of a proposal that the deal's mandate admits.
LEMMA DecidedForPeersKept ==
  ASSUME WireShape, HeldAreSeen, DecidedForPeers, Kept, Moves
  PROVE  DecidedForPeers'
<1>1. Consistent
  BY DEF Consistent, WireShape
<1>2. SUFFICES ASSUME NEW d \in DealId, NEW i \in DOMAIN events'[d],
                      events'[d][i].type = "policy_decision"
               PROVE  /\ links'[d] # NoRecord
                      /\ process' # Down => registry'[d] # NoRecord
                      /\ \E e \in Envelope :
                           /\ Verified(e) /\ Content[e].kind = "proposal"
                           /\ DealOf(e) = d
                           /\ Causes(e, events'[d][i])
                           /\ Mandate[links'[d]].counterparty \in
                                {NoParty, Sender(e)}
  BY DEF DecidedForPeers, Causes, Verified, DealOf, Sender
<1> DEFINE entry == events'[d][i]
<1>3. /\ links[d] # NoRecord
      /\ process # Down => registry[d] # NoRecord
      /\ \E e \in Envelope :
           /\ Verified(e) /\ Content[e].kind = "proposal" /\ DealOf(e) = d
           /\ Causes(e, entry)
           /\ Mandate[links[d]].counterparty \in {NoParty, Sender(e)}
  <2>1. CASE i \in DOMAIN events[d]
    <3>1. entry = events[d][i]
      BY <1>1, <2>1, EntriesKept
    <3> QED
      BY <1>2, <2>1, <3>1 DEF DecidedForPeers
  <2>2. CASE i \in Added(d)
    <3>1. ~ Quiet
      BY <1>1, <2>2, EntriesKept
    <3>2. PICK e \in Envelope : ByProposal(e)
      BY <1>2, <2>2, <3>1 DEF Moves, ByConsole, ByEvent
    <3>3. /\ d = DealOf(e) /\ entry.proposal = Content[e].proposal
          /\ registry[d] # NoRecord /\ ~ WrongAudience(e)
          /\ Content[e].kind = "proposal" /\ InWork(e)
      BY <1>2, <2>2, <3>2 DEF ByProposal, Admitted
    <3>4. links[d] = registry[d] /\ links[d] # NoRecord
      BY <3>3, HeardOf
    <3>5. Mandate[links[d]].counterparty \in {NoParty, Sender(e)}
      BY <3>3, <3>4 DEF WrongAudience
    <3>6. Verified(e)
      BY <3>3, WorkedOn
    <3>7. Causes(e, entry)
      BY <1>2, <3>3 DEF Causes
    <3> QED
      BY <3>3, <3>4, <3>5, <3>6, <3>7
  <2> QED
    BY <1>1, <2>1, <2>2, EntriesKept
<1>4. links'[d] = links[d]
  BY <1>3 DEF Kept
<1>5. process' # Down => registry'[d] # NoRecord
  BY <1>3, <1>4 DEF Kept
<1> QED
  BY <1>3, <1>4, <1>5

\* No command but the console's moved a deal without its envelope.
LEMMA MovedByPeersKept ==
  ASSUME WireShape, HeldAreSeen, MovedByPeers, Kept, Moves
  PROVE  MovedByPeers'
<1>1. Consistent
  BY DEF Consistent, WireShape
<1>2. SUFFICES ASSUME NEW d \in DealId, NEW i \in DOMAIN events'[d],
                      events'[d][i].type = "state_transition",
                      events'[d][i].cause \in CommandId \ ConsoleCommands
               PROVE  \E e \in Envelope :
                        /\ Verified(e)
                        /\ Content[e].kind = "counterparty_event"
                        /\ Content[e].event = events'[d][i].event
                        /\ DealOf(e) = d /\ Known(d)'
                        /\ Causes(e, events'[d][i])
  BY DEF MovedByPeers, Causes, Verified, DealOf, Sender
<1> DEFINE entry == events'[d][i]
<1>3. \E e \in Envelope :
        /\ Verified(e) /\ Content[e].kind = "counterparty_event"
        /\ Content[e].event = entry.event
        /\ DealOf(e) = d /\ Known(d)
        /\ Causes(e, entry)
  <2>1. CASE i \in DOMAIN events[d]
    <3>1. entry = events[d][i]
      BY <1>1, <2>1, EntriesKept
    <3> QED
      BY <1>2, <2>1, <3>1 DEF MovedByPeers
  <2>2. CASE i \in Added(d)
    <3>1. ~ Quiet
      BY <1>1, <2>2, EntriesKept
    <3>2. PICK e \in Envelope : ByEvent(e)
      <4>1. entry.cause \notin RequestId
        BY <1>2, LedgerAssumption
      <4> QED
        BY <1>2, <2>2, <3>1, <4>1 DEF Moves, ByConsole, ByProposal
    <3>3. /\ d = DealOf(e) /\ entry.cause = Content[e].message
          /\ entry.event = Content[e].event
          /\ Known(d) /\ InWork(e) /\ Content[e].kind # "proposal"
      BY <1>2, <2>2, <3>2 DEF ByEvent
    <3>4. Verified(e) /\ Content[e].kind = "counterparty_event"
      BY <3>3, WorkedOn, EnvelopeType DEF Kinds
    <3>5. Causes(e, entry)
      BY <1>2, <3>3 DEF Causes
    <3> QED
      BY <3>3, <3>4, <3>5
  <2> QED
    BY <1>1, <2>1, <2>2, EntriesKept
<1> QED
  BY <1>3 DEF Kept

\* No command of the peers is spent without an effect.
LEMMA SpentHaveMovedKept ==
  ASSUME WireShape, HeldAreSeen, SpentHaveMoved, Moves
  PROVE  SpentHaveMoved'
<1>1. Consistent
  BY DEF Consistent, WireShape
<1>2. SUFFICES ASSUME NEW c \in seen_commands' \ ConsoleCommands
               PROVE  \E d \in DealId : \E i \in DOMAIN events'[d] :
                        /\ events'[d][i].type = "state_transition"
                        /\ events'[d][i].cause = c
  BY DEF SpentHaveMoved
<1>3. CASE c \in seen_commands
  <2>1. PICK d \in DealId : \E i \in DOMAIN events[d] :
               events[d][i].type = "state_transition" /\ events[d][i].cause = c
    BY <1>3 DEF SpentHaveMoved
  <2> QED
    BY <1>1, <2>1, EntriesKept
<1>4. CASE c \notin seen_commands
  <2>1. PICK e \in Envelope : ByEvent(e)
    BY <1>2, <1>4 DEF Moves, Quiet, ByConsole, ByProposal
  <2>2. c = Content[e].message
    BY <1>4, <2>1 DEF ByEvent
  <2>3. DealOf(e) \in DealId
    BY EnvelopeType
  <2> QED
    BY <2>1, <2>2, <2>3 DEF ByEvent
<1> QED
  BY <1>3, <1>4

-----------------------------------------------------------------------------
(* What the gateway has read.                                              *)

\* What a step of the process leaves in a read deal or a claim.
LEMMA WorkGoesOn ==
  ASSUME WireShape, [WireNext]_wireVars, process'.at \in {"claim", "commit"}
  PROVE  \/ process' = process /\ (Console \/ UNCHANGED vars)
         \/ BuildClaim
         \/ \E e \in Envelope : UNCHANGED vars /\ ReadsDeal(e)
<1>1. ASSUME NEW d \in DealId, NEW r \in RecordId, CreateDeal(d, r)
      PROVE  FALSE
  BY <1>1 DEF CreateDeal
<1>2. ~ (PutRecord \/ LinkDealRecord \/ CommitProposal \/ StoreAnswer
           \/ Restart \/ Raise \/ Crash)
  BY DEF PutRecord, LinkDealRecord, CommitProposal, Handled, StoreAnswer, Restart,
         Raise, Crash, Idle, Down, WireShape, ProcessOK
<1>3. ASSUME NEW e \in Envelope, Receive(e) PROVE FALSE
  BY <1>3 DEF Receive, Idle
<1>4. CASE Handle
  <2>1. PICK e \in Envelope :
          /\ InWork(e) /\ Handles(e) /\ process.at = "handle"
          /\ \/ Content[e].kind = "proposal" /\ HandleProposal(e) /\ Quiet
             \/ /\ Content[e].kind # "proposal" /\ HandleEvent(e)
                /\ Quiet \/ ByEvent(e)
    BY <1>4, HandleKept
  <2> QED
    BY <2>1, ProposalHandled, EventHandled
       DEF RefusesProposal, RefusesEvent, AppliesEvent, PendingAnswer
<1>5. CASE Console
  BY <1>5 DEF Console, wire
<1>6. CASE UNCHANGED wireVars
  BY <1>6 DEF wireVars, wire
<1> QED
  BY <1>1, <1>2, <1>3, <1>4, <1>5, <1>6 DEF WireNext, Proceed

\* The console moves a deal by a transition that its chain tells of.
LEMMA ConsoleMoves ==
  ASSUME WireShape, WireShape', Console, NEW d \in DealId, Known(d)
  PROVE  \/ deals'[d].state = deals[d].state
         \/ \E i \in DOMAIN events'[d] :
              LET t == events'[d][i] IN
              /\ t.type = "state_transition" /\ t.cause \in ConsoleCommands
              /\ t.from = deals[d].state /\ t.to = deals'[d].state
<1>1. Shaped /\ Shaped'
  BY DEF WireShape
<1>2. ASSUME NEW x \in DealId, NEW r \in RecordId, RegisterDeal(x, r)
      PROVE  deals'[d] = deals[d]
  BY <1>1, <1>2 DEF RegisterDeal, Shaped
<1>3. ASSUME NEW x \in DealId, NEW c \in ConsoleCommands,
             NEW event \in BoundaryEvents[x], BoundaryEvent(x, c, event, FALSE),
             deals'[d].state # deals[d].state
      PROVE  \E i \in DOMAIN events'[d] :
               LET t == events'[d][i] IN
               /\ t.type = "state_transition" /\ t.cause \in ConsoleCommands
               /\ t.from = deals[d].state /\ t.to = deals'[d].state
  <2>1. /\ c \in CommandId /\ event \in DealEvent
        /\ CommitTransition(x, c, event, FALSE)
    BY <1>3, LedgerAssumption, WireAssumption DEF BoundaryEvent
  <2>2. ~ UNCHANGED store
    BY <1>3 DEF store
  <2>3. PICK k \in {1, 2} : Reports(x, c, event, k)
    BY <1>1, <2>1, <2>2, EventStep
  <2>4. d = x
    BY <1>3, <2>3 DEF Reports, OnlyRow
  <2>5. /\ Grown(x, k) /\ k \in 1..k /\ k \in Nat
        /\ New(x, k) = TransitionEntry(c, event, deals[x], deals'[x], NoAmount)
    BY <2>3 DEF Reports
  <2>6. PICK i \in DOMAIN events'[x] :
          events'[x][i] =
            TransitionEntry(c, event, deals[x], deals'[x], NoAmount)
    BY <2>5, GrownHas
  <2> QED
    BY <2>4, <2>6 DEF TransitionEntry
<1>4. ASSUME NEW x \in DealId, NEW c \in ConsoleCommands, Revoke(x, c)
      PROVE  deals' = deals
  BY <1>4 DEF Revoke, CommitRevocation, store
<1>5. Tick => deals' = deals
  BY DEF Tick, store
<1> QED
  BY <1>2, <1>3, <1>4, <1>5 DEF Console

\* A deal once moved by the console stays moved.
LEMMA MovedAwayKept ==
  ASSUME Consistent, Moves, NEW d \in DealId, NEW event, MovedAway(d, event)
  PROVE  MovedAway(d, event)'
BY EntriesKept DEF MovedAway

\* What was read is still so, or the console took it away.
LEMMA ReadStandsKept ==
  ASSUME WireShape, HeldAreSeen, ReadStands, [WireNext]_wireVars,
         WireShape', Moves
  PROVE  ReadStands'
<1>1. Consistent
  BY DEF Consistent, WireShape
<1> SUFFICES ASSUME process'.at \in {"claim", "commit"}
             PROVE  ReadStands'
  BY DEF ReadStands
<1>2. ASSUME UNCHANGED vars, process.at \in {"claim", "commit"},
             process'.envelope = process.envelope, process'.deal = process.deal
      PROVE  ReadStands'
  BY <1>2 DEF ReadStands, MovedAway, DealOf, vars, store
<1>3. CASE BuildClaim
  BY <1>2, <1>3 DEF BuildClaim
<1>4. ASSUME NEW e, UNCHANGED vars, ReadsDeal(e)
      PROVE  ReadStands'
  BY <1>4 DEF ReadsDeal, ReadStands, DealOf, vars, store
<1>5. CASE process' = process /\ UNCHANGED vars
  BY <1>2, <1>5
<1>6. CASE process' = process /\ Console
  <2>0. DealOf(process.envelope) \in DealId /\ Known(DealOf(process.envelope))
    BY <1>6, EnvelopeType, HeardOf
       DEF WireShape, ProcessOK, Handles, Admitted
  <2> PICK d : d = DealOf(process.envelope)
    OBVIOUS
  <2>1. d \in DealId /\ Known(d)
    BY <2>0
  <2>2. ASSUME NEW event, TransitionFor(process.deal.state, event) # NoState,
               TransitionFor(deals'[d].state, event) = NoState
        PROVE  MovedAway(d, event)'
    <3>1. \/ TransitionFor(deals[d].state, event) # NoState
          \/ MovedAway(d, event)
      <4>1. process.at \in {"claim", "commit"}
        BY <1>6
      <4>2. LET x == DealOf(process.envelope) IN
            \A any :
              TransitionFor(process.deal.state, any) # NoState =>
                TransitionFor(deals[x].state, any) # NoState
                  \/ MovedAway(x, any)
        BY <4>1 DEF ReadStands
      <4> QED
        BY <2>2, <4>2
    <3>2. CASE MovedAway(d, event)
      BY <1>1, <2>1, <3>2, MovedAwayKept
    <3>3. CASE TransitionFor(deals[d].state, event) # NoState
      <4>1. deals'[d].state # deals[d].state
        BY <2>2, <3>3
      <4>2. PICK i \in DOMAIN events'[d] :
              LET t == events'[d][i] IN
              /\ t.type = "state_transition" /\ t.cause \in ConsoleCommands
              /\ t.from = deals[d].state /\ t.to = deals'[d].state
        BY <1>6, <2>1, <4>1, ConsoleMoves
      <4> QED
        BY <2>2, <3>3, <4>2 DEF MovedAway
    <3> QED
      BY <3>1, <3>2, <3>3
  <2> QED
    BY <1>6, <2>2 DEF ReadStands, MovedAway, DealOf
<1> QED
  BY <1>3, <1>4, <1>5, <1>6, WorkGoesOn

-----------------------------------------------------------------------------
(* The answers.                                                            *)

\* Whose proposal an entry of a chain decides, and whose event it applies.
LEMMA DecidedFor ==
  ASSUME DecidedForPeers, NEW e \in Envelope, Content[e].kind = "proposal",
         NEW d \in DealId, NEW i \in DOMAIN events[d], Causes(e, events[d][i])
  PROVE  /\ links[d] # NoRecord /\ d = DealOf(e)
         /\ process # Down => registry[d] # NoRecord
         /\ OnlyCarrier(e) =>
              /\ Verified(e)
              /\ Mandate[links[d]].counterparty \in {NoParty, Sender(e)}
<1>1. PICK f \in Envelope :
        /\ Verified(f) /\ Content[f].kind = "proposal" /\ DealOf(f) = d
        /\ Causes(f, events[d][i])
        /\ Mandate[links[d]].counterparty \in {NoParty, Sender(f)}
  BY DEF DecidedForPeers, Causes
<1>2. Content[f].proposal = Content[e].proposal
  BY <1>1 DEF Causes
<1>3. d = DealOf(e)
  BY <1>1, <1>2, EnvelopeType
<1>4. OnlyCarrier(e) => f = e
  BY <1>1, <1>2 DEF OnlyCarrier
<1> QED
  BY <1>1, <1>3, <1>4 DEF DecidedForPeers, Causes

\* An entry that an event has caused comes from that very envelope, if no other
\* has its message, which was verified and named this deal and this event.
LEMMA MovedFor ==
  ASSUME MovedByPeers, NEW e \in Envelope, Content[e].kind # "proposal",
         OnlyCarrier(e),
         NEW d \in DealId, NEW i \in DOMAIN events[d], Causes(e, events[d][i])
  PROVE  /\ Verified(e) /\ Content[e].kind = "counterparty_event"
         /\ Content[e].event = events[d][i].event
         /\ d = DealOf(e) /\ Known(d)
<1>1. /\ events[d][i].type = "state_transition"
      /\ events[d][i].cause = Content[e].message
      /\ Content[e].message \in CommandId \ ConsoleCommands
  BY EnvelopeType DEF Causes, OnlyCarrier
<1>2. PICK f \in Envelope :
        /\ Verified(f) /\ Content[f].kind = "counterparty_event"
        /\ Content[f].event = events[d][i].event
        /\ DealOf(f) = d /\ Known(d)
        /\ Causes(f, events[d][i])
  BY <1>1 DEF MovedByPeers
<1>3. Content[f].message = Content[e].message
  BY <1>1, <1>2 DEF Causes
<1>4. f = e
  BY <1>2, <1>3 DEF OnlyCarrier
<1> QED
  BY <1>2, <1>4

\* A proposal's handler denies what is in no chain, before its commit ...
LEMMA ProposalStands ==
  ASSUME WireInvariant, NEW e \in Envelope, InWork(e),
         Content[e].kind = "proposal", HandleProposal(e),
         NEW a, PendingAnswer(e, a)
  PROVE  Stands(e, a)'
<1> DEFINE d == DealOf(e)
<1>1. WireShape /\ DecidedForPeers /\ process # Down
  BY WorkedOn DEF WireInvariant
<1>2. d \in DealId /\ \A b : PendingAnswer(e, b) => a = b
  BY EnvelopeType DEF PendingAnswer
<1>3. /\ events' = events /\ a.status = "refused"
      /\ \/ registry[d] = NoRecord \/ ~ Known(d)
         \/ registry[d] # NoRecord /\ WrongAudience(e)
  <2>1. UNCHANGED vars /\ (RefusesProposal(e) \/ ReadsDeal(e))
    BY ProposalHandled
  <2>2. events' = events
    BY <2>1 DEF vars, store
  <2>3. ~ ReadsDeal(e)
    BY DEF ReadsDeal, PendingAnswer
  <2> QED
    BY <1>2, <2>1, <2>2, <2>3 DEF RefusesProposal, Refused
<1>4. ASSUME OnlyCarrier(e), NEW x \in DealId, NEW i \in DOMAIN events[x],
             Causes(e, events[x][i])
      PROVE  FALSE
  <2>1. /\ x = d /\ registry[d] # NoRecord
        /\ Mandate[links[d]].counterparty \in {NoParty, Sender(e)}
    BY <1>1, <1>4, DecidedFor
  <2>2. links[d] = registry[d] /\ Known(d)
    BY <1>1, <1>2, <2>1, HeardOf
  <2> QED
    BY <1>3, <2>1, <2>2 DEF WrongAudience
<1>5. Denies(e, a) => Untouched(e)
  BY <1>4 DEF Denies, Untouched
<1>6. (Denies(e, a) => Untouched(e))'
  BY <1>3, <1>5 DEF Denies, Untouched, OnlyCarrier, Causes
<1> QED
  BY <1>3, <1>6 DEF Stands

\* ... and its answer agrees with the chains the moment its commit is through,
\* or the console has outrun it.
LEMMA SettledStands ==
  ASSUME WireInvariant, NEW e \in Envelope, NEW q \in RequestId, NEW a,
         process.at = "commit", InWork(e), Admitted(e), Settles(e, q, a),
         WireShape', Kept, now' = now, process' # Down
  PROVE  Stands(e, a)'
<1> DEFINE d == DealOf(e)
           p == Content[e].proposal
<1>1. /\ WireShape /\ Shaped /\ DecidedForPeers /\ process # Down
      /\ DecidedAreStored /\ StoredAreDecided /\ ReadStands /\ Shaped'
  BY WorkedOn DEF WireInvariant, WireShape, Effects
<1>2. /\ d \in DealId /\ p \in Proposals /\ p.deal = d /\ p.key \in Key
      /\ registry[d] # NoRecord /\ links[d] # NoRecord /\ Known(d) /\ Linked(d)
      /\ Content[e].kind = "proposal"
  BY <1>1, EnvelopeType, HeardOf, LedgerAssumption DEF Admitted
<1>3. Actionable(e)'
  BY <1>1, <1>2 DEF Actionable, Kept, RegistryOK
<1> HIDE DEF d, p
<1>4. CASE /\ UNCHANGED store
           /\ decisions[p.key] # NoDecision /\ decisions[p.key].proposal = p
           /\ a = Accepted(decisions[p.key].decision)
  <2>1. PICK x \in DealId : \E i \in DOMAIN events[x] :
          /\ events[x][i].type = "policy_decision"
          /\ events[x][i].proposal.key = p.key
    BY <1>1, <1>2, <1>4 DEF StoredAreDecided
  <2>2. PICK i \in DOMAIN events[x] :
          /\ events[x][i].type = "policy_decision"
          /\ events[x][i].proposal.key = p.key
    BY <2>1
  <2>3. decisions[p.key] = [ proposal |-> events[x][i].proposal,
                             decision |-> events[x][i].decision ]
    BY <1>1, <2>2 DEF DecidedAreStored
  <2>4. /\ events[x][i].proposal = p
        /\ events[x][i].decision = a.decision
    BY <1>4, <2>3 DEF Accepted
  <2>5. Causes(e, events[x][i])
    BY <1>2, <2>2, <2>4 DEF Causes, p
  <2>6. x = d
    BY <1>1, <1>2, <2>5, DecidedFor DEF d
  <2>7. events' = events /\ a.status = "accepted"
    BY <1>4 DEF store, Accepted
  <2>8. OnRecord(e, a)'
    BY <1>2, <2>4, <2>5, <2>6, <2>7 DEF OnRecord, Causes, d
  <2> QED
    BY <1>3, <2>7, <2>8 DEF Stands, Denies
<1>5. CASE /\ UNCHANGED store
           /\ decisions[p.key] = NoDecision \/ decisions[p.key].proposal # p
           /\ a = Refused("replay_gate")
  <2>1. a.status = "refused"
    BY <1>5 DEF Refused
  <2>2. ASSUME NEW x \in DealId, NEW i \in DOMAIN events[x],
               Causes(e, events[x][i])
        PROVE  FALSE
    <3>1. events[x][i].type = "policy_decision" /\ events[x][i].proposal = p
      BY <1>2, <2>2 DEF Causes, p
    <3>2. decisions[p.key] =
            [proposal |-> p, decision |-> events[x][i].decision]
      BY <1>1, <3>1 DEF DecidedAreStored
    <3>3. decisions[p.key] # NoDecision
      BY <1>1, <3>1, DecidedIsStored
    <3> QED
      BY <1>5, <3>2, <3>3
  <2>3. Untouched(e)'
    BY <1>5, <2>2 DEF Untouched, Causes, store
  <2> QED
    BY <2>1, <2>3 DEF Stands
<1>6. ASSUME NEW decision, Judges(e, decision), a = Accepted(decision),
             UNCHANGED store, Stale(deals[p.deal], PlannedEvent(p, decision))
      PROVE  Stands(e, a)'
  <2> DEFINE event == ActionEvents[p.action]
  <2>1. /\ decision.outcome = "allow" /\ event # NoEvent
        /\ TransitionFor(deals[d].state, event) = NoState
    BY <1>2, <1>6 DEF Stale, PlannedEvent
  <2>2. /\ decision \in Decision
        /\ TransitionFor(process.deal.state, event) # NoState
    BY <1>6, <2>1, JudgesPermits DEF p
  <2>3. decision = Allow
    BY <1>6, <2>1, JudgesPermits
  <2>4. MovedAway(d, event)
    BY <1>1, <2>1, <2>2 DEF ReadStands, InWork, d
  <2>5. MovedAway(d, event)'
    BY <1>6, <2>4 DEF MovedAway, store
  <2>6. Outrun(e, a)'
    BY <1>2, <1>6, <2>3, <2>5 DEF Outrun, Accepted, d, p
  <2> QED
    BY <1>3, <1>6, <2>6 DEF Stands, Denies, Accepted
<1>7. ASSUME NEW decision, Judges(e, decision), a = Accepted(decision),
             decisions[p.key] = NoDecision, q \notin seen_requests,
             ~ Stale(deals[p.deal], PlannedEvent(p, decision)),
             CommitRequest(q, p, decision),
             answer' = ToldDecision("decided", p.key, decision)
      PROVE  Stands(e, a)'
  <2>1. /\ decision \in Decision
        /\ decision.outcome # "deny" => p.action \in ActionToken
    BY <1>7, JudgesPermits DEF p
  <2>2. Committed(q, p, decision)
    BY <1>2, <1>7, <2>1 DEF Committed, Committable
  <2>3. PICK at \in {1, 2} : Commits(q, p, decision, at)
    BY <1>1, <1>2, <2>2, RequestStep
  <2>4. PICK i \in DOMAIN events'[d] :
          events'[d][i] = DecisionEntry(q, p, decision)
    <3>1. /\ q \in RequestId /\ p \in Proposals /\ at \in {1, 2}
          /\ Commits(q, p, decision, at)
      BY <1>2, <2>3
    <3>2. \E i \in DOMAIN events'[p.deal] :
            events'[p.deal][i] = DecisionEntry(q, p, decision)
      BY <3>1, RequestAppends
    <3> QED
      BY <1>2, <3>2
  <2>5. /\ events'[d][i].type = "policy_decision"
        /\ events'[d][i].proposal = p
        /\ events'[d][i].decision = a.decision
        /\ a.status = "accepted"
    BY <1>7, <2>4, EntryKinds DEF Accepted
  <2>6. OnRecord(e, a)'
    BY <1>2, <2>5 DEF OnRecord, Causes, d, p
  <2> QED
    BY <1>3, <2>5, <2>6 DEF Stands, Denies
<1> QED
  BY <1>4, <1>5, <1>6, <1>7 DEF Settles, p

\* So does an answer to an event.
LEMMA EventStands ==
  ASSUME WireInvariant, NEW e \in Envelope, InWork(e),
         Content[e].kind # "proposal", HandleEvent(e), WireShape',
         NEW a, PendingAnswer(e, a)
  PROVE  Stands(e, a)'
<1> DEFINE d == DealOf(e)
           c == Content[e].message
           event == Content[e].event
           noted == Content[e].noted
<1>1. /\ WireShape /\ Shaped /\ MovedByPeers /\ SpentHaveMoved
      /\ MovedAreSpent
  BY DEF WireInvariant, WireShape, Effects
<1>2. /\ d \in DealId /\ c \in CommandId
      /\ \A b : PendingAnswer(e, b) => a = b
  BY EnvelopeType DEF PendingAnswer
<1>3. CASE RefusesEvent(e)
  <2>1. /\ events' = events /\ a.status = "refused"
        /\ \/ ~ Known(d)
           \/ a = Refused("wrong_audience")
           \/ event \notin DealEvent
    BY <1>2, <1>3 DEF RefusesEvent, Refused, vars, store
  <2>2. ASSUME OnlyCarrier(e), NEW x \in DealId, NEW i \in DOMAIN events[x],
               Causes(e, events[x][i])
        PROVE  Known(d) /\ event \in DealEvent
    <3>1. x = d /\ Known(d) /\ event = events[x][i].event
      BY <1>1, <1>3, <2>2, MovedFor
    <3>2. events[x] \in Seq(Entry) /\ events[x][i].type = "state_transition"
      BY <1>1, <2>2 DEF Shaped, Causes
    <3>3. events[x][i] \in Entry
      BY <3>2
    <3>4. events[x][i].event \in DealEvent
      BY <3>2, <3>3 DEF Entry
    <3> QED
      BY <3>1, <3>4
  <2>3. Denies(e, a) => Untouched(e)
    BY <2>1, <2>2 DEF Denies, Untouched
  <2>4. (Denies(e, a) => Untouched(e))'
    BY <2>1, <2>3 DEF Denies, Untouched, OnlyCarrier, Causes
  <2> QED
    BY <2>1, <2>4 DEF Stands
<1>4. CASE AppliesEvent(e)
  <2>1. /\ a = AnswerToEvent /\ Known(d) /\ event \in DealEvent
        /\ CommitTransition(d, c, event, noted)
    BY <1>2, <1>4 DEF AppliesEvent
  <2> HIDE DEF d, c, event, noted
  <2>2. answer'.result = TransitionResult(d, c, event)
    BY <2>1 DEF CommitTransition, Told
  <2>3. CASE TransitionResult(d, c, event) = "stale_state"
    <3>1. a.status = "refused" /\ UNCHANGED store /\ c \notin seen_commands
      BY <2>1, <2>2, <2>3
         DEF AnswerToEvent, Refused, CommitTransition, TransitionResult
    <3>2. ASSUME NEW x \in DealId, NEW i \in DOMAIN events[x],
                 Causes(e, events[x][i])
          PROVE  FALSE
      <4>1. /\ events[x][i].type = "state_transition"
            /\ events[x][i].cause = c
        BY <1>4, <3>2 DEF Causes, c
      <4>2. c \in seen_commands \/ c \in seen_requests
        BY <1>1, <4>1 DEF MovedAreSpent
      <4> QED
        BY <1>1, <1>2, <3>1, <4>2, LedgerAssumption DEF Shaped
    <3>3. Untouched(e)'
      BY <3>1, <3>2 DEF Untouched, Causes, store
    <3> QED
      BY <3>1, <3>3 DEF Stands
  <2>4. CASE TransitionResult(d, c, event) = "already_applied"
    <3>1. a.status = "accepted" /\ UNCHANGED store /\ c \in seen_commands
      BY <2>1, <2>2, <2>4
         DEF AnswerToEvent, Accepted, CommitTransition, TransitionResult
    <3>2. ASSUME OnlyCarrier(e)
          PROVE  OnRecord(e, a)'
      <4>1. c \in seen_commands \ ConsoleCommands
        BY <1>4, <3>1, <3>2 DEF OnlyCarrier, c
      <4>2. PICK x \in DealId : \E i \in DOMAIN events[x] :
              events[x][i].type = "state_transition" /\ events[x][i].cause = c
        BY <1>1, <4>1 DEF SpentHaveMoved
      <4>3. PICK i \in DOMAIN events[x] :
              events[x][i].type = "state_transition" /\ events[x][i].cause = c
        BY <4>2
      <4>4. Causes(e, events[x][i])
        BY <1>4, <4>3 DEF Causes, c
      <4>5. x = d /\ events[x][i].event = Content[e].event
        BY <1>1, <3>2, <4>4, MovedFor DEF d
      <4>6. events' = events
        BY <3>1 DEF store
      <4> QED
        BY <4>4, <4>5, <4>6 DEF OnRecord, Causes, d
    <3>3. (OnRecord(e, a) \/ Outrun(e, a))'
      BY <3>2 DEF Outrun, OnlyCarrier
    <3> QED
      BY <3>1, <3>3 DEF Stands, Denies
  <2>5. CASE TransitionResult(d, c, event) = "committed"
    <3>1. a.status = "accepted" /\ c \notin seen_commands
      BY <2>1, <2>2, <2>5 DEF AnswerToEvent, Accepted, TransitionResult
    <3>2. seen_commands' = seen_commands \cup {c}
      BY <2>1, <2>5 DEF CommitTransition
    <3>3. ~ UNCHANGED store /\ Shaped'
      BY <3>1, <3>2 DEF store, WireShape
    <3>4. PICK k \in {1, 2} : Reports(d, c, event, k)
      BY <1>1, <1>2, <2>1, <3>3, EventStep
    <3>5. \E i \in DOMAIN events'[d] :
            /\ events'[d][i].type = "state_transition"
            /\ events'[d][i].cause = c
            /\ events'[d][i].event = event
      BY <1>2, <2>1, <3>4, EventAppends
    <3>6. OnRecord(e, a)'
      BY <1>2, <1>4, <3>5 DEF OnRecord, Causes, c, d, event
    <3> QED
      BY <1>4, <3>1, <3>6 DEF Stands, Denies
  <2> QED
    BY <2>3, <2>4, <2>5 DEF TransitionResult
<1> QED
  BY <1>3, <1>4, EventHandled

\* An answer that agrees with the chains still does after a step that appends
\* nothing which the answer denies.
LEMMA StandsKept ==
  ASSUME Consistent, Kept, Moves, NEW e \in Envelope, NEW a, Stands(e, a),
         \A d \in DealId : \A i \in Added(d) :
           Denies(e, a) => ~ Causes(e, events'[d][i])
  PROVE  Stands(e, a)'
<1> DEFINE d == DealOf(e)
<1>1. d \in DealId
  BY EnvelopeType
<1>2. OnRecord(e, a) => OnRecord(e, a)'
  <2> SUFFICES ASSUME OnRecord(e, a) PROVE OnRecord(e, a)'
    OBVIOUS
  <2>1. PICK i \in DOMAIN events[d] :
          /\ Causes(e, events[d][i])
          /\ IF Content[e].kind = "proposal"
             THEN events[d][i].decision = a.decision
             ELSE events[d][i].event = Content[e].event
    BY DEF OnRecord
  <2>2. i \in DOMAIN events'[d] /\ events'[d][i] = events[d][i]
    BY <1>1, EntriesKept
  <2> QED
    BY <2>1, <2>2 DEF OnRecord, Causes
<1>3. Outrun(e, a) => Outrun(e, a)'
  <2>1. CASE Content[e].kind = "proposal"
    BY <1>1, <2>1, MovedAwayKept DEF Outrun
  <2>2. CASE Content[e].kind # "proposal"
    BY <2>2 DEF Outrun, OnlyCarrier
  <2> QED
    BY <2>1, <2>2
<1>4. Actionable(e) => Actionable(e)'
  <2>1. /\ links[d] # NoRecord => links'[d] = links[d]
        /\ process' # Down =>
             registry'[d] = links'[d]
               \/ (process # Down /\ registry'[d] = registry[d])
    BY <1>1 DEF Kept
  <2> QED
    BY <2>1 DEF Actionable
<1>5. Denies(e, a)' <=> Denies(e, a)
  BY DEF Denies, OnlyCarrier
<1>6. ASSUME Denies(e, a)
      PROVE  Untouched(e)'
  <2>1. Untouched(e)
    BY <1>6 DEF Stands
  <2>2. ASSUME NEW x \in DealId, NEW i \in DOMAIN events'[x]
        PROVE  ~ Causes(e, events'[x][i])
    <3>1. CASE i \in DOMAIN events[x]
      BY <2>1, <3>1, EntriesKept DEF Untouched
    <3>2. CASE i \in Added(x)
      BY <1>6, <3>2
    <3> QED
      BY <3>1, <3>2, EntriesKept
  <2> QED
    BY <2>2 DEF Untouched, Causes
<1> QED
  BY <1>2, <1>3, <1>4, <1>5, <1>6 DEF Stands

\* What a commit appends is not denied to the sender of another envelope.
LEMMA OthersStand ==
  ASSUME Consistent, Kept, Moves, WireShape,
         NEW e \in Envelope, Quiet \/ ByProposal(e) \/ ByEvent(e),
         NEW f \in Envelope, f # e, NEW a, Stands(f, a)
  PROVE  Stands(f, a)'
<1>1. ASSUME NEW d \in DealId, NEW i \in Added(d), Denies(f, a)
      PROVE  ~ Causes(f, events'[d][i])
  <2>1. ~ Quiet
    BY <1>1, EntriesKept
  <2>2. CASE ByProposal(e)
    <3>1. CASE Content[f].kind = "proposal"
      BY <1>1, <2>2, <3>1
         DEF ByProposal, Admitted, Causes, Denies, OnlyCarrier
    <3>2. CASE Content[f].kind # "proposal"
      <4>1. Content[f].message \notin RequestId
        BY EnvelopeType, LedgerAssumption
      <4> QED
        BY <1>1, <2>2, <3>2, <4>1 DEF ByProposal, Causes
    <3> QED
      BY <3>1, <3>2
  <2>3. CASE ByEvent(e)
    <3>1. Content[f].kind # "proposal" => Content[f].message # Content[e].message
      BY <1>1, <2>3 DEF ByEvent, Denies, OnlyCarrier
    <3> QED
      BY <1>1, <2>3, <3>1 DEF ByEvent, Causes
  <2> QED
    BY <2>1, <2>2, <2>3
<1> QED
  BY <1>1, StandsKept

\* No answer that is stored or pending is belied: not by the console or a
\* transaction of the gateway between, ...
LEMMA AnswersStandBetween ==
  ASSUME WireInvariant, WireShape', Kept, Moves,
         PendingKept, Quiet \/ ByConsole
  PROVE  AnswersStand'
<1>1. Consistent /\ AnswersStand
  BY DEF WireInvariant, WireShape, Consistent
<1>2. ASSUME NEW e \in Envelope, NEW a, Answered(e, a)'
      PROVE  Stands(e, a)'
  <2>1. Answered(e, a)
    BY <1>2 DEF Answered, Kept, PendingKept
  <2>2. Stands(e, a)
    BY <1>1, <2>1 DEF AnswersStand
  <2>3. ASSUME NEW d \in DealId, NEW i \in Added(d), Denies(e, a)
        PROVE  ~ Causes(e, events'[d][i])
    <3>1. ~ Quiet
      BY <1>1, <2>3, EntriesKept
    <3> QED
      BY <2>3, <3>1 DEF ByConsole, Causes, Denies, OnlyCarrier
  <2> QED
    BY <1>1, <2>2, <2>3, StandsKept
<1> QED
  BY <1>2 DEF AnswersStand

\* ... nor by the step that ends the work on an envelope.
LEMMA AnswersStandAfter ==
  ASSUME WireInvariant, WireShape', Kept, Moves,
         NEW e \in Envelope, InWork(e), Quiet \/ ByProposal(e) \/ ByEvent(e),
         process'.at = "store" =>
           \E a : PendingAnswer(e, a) /\ Stands(e, a)'
  PROVE  AnswersStand'
<1>1. Consistent /\ WireShape /\ AnswersStand
  BY DEF WireInvariant, WireShape, Consistent
<1>2. ASSUME NEW f \in Envelope, NEW a, process'.at = "store",
             process'.envelope = f, process'.answer = a
      PROVE  Stands(f, a)'
  <2>1. PICK b : PendingAnswer(e, b) /\ Stands(e, b)'
    BY <1>2
  <2>2. f = e /\ a = b
    BY <1>2, <2>1 DEF PendingAnswer
  <2> QED
    BY <2>1, <2>2
<1>3. ASSUME NEW f \in Envelope, NEW a, NEW slot \in Slots,
             stored'[slot] # NoEntry,
             stored'[slot].envelope = f, stored'[slot].answer = a
      PROVE  Stands(f, a)'
  <2>1. stored'[slot] = stored[slot]
    BY <1>1 DEF Kept, InWork
  <2>2. Answered(f, a) /\ Slot(f) = slot /\ stored[slot] # NoEntry
    BY <1>1, <1>3, <2>1 DEF Answered, WireShape, StoredOK
  <2>3. Stands(f, a)
    BY <1>1, <2>2 DEF AnswersStand
  <2>4. f # e
    BY <1>1, <2>2, WorkedOn
  <2> QED
    BY <1>1, <2>3, <2>4, OthersStand
<1> QED
  BY <1>2, <1>3 DEF AnswersStand, Answered

\* The two together.
LEMMA AnswersStandKept ==
  ASSUME WireInvariant, [WireNext]_wireVars
  PROVE  AnswersStand'
<1>1. /\ WireShape /\ WireShape' /\ Kept /\ Moves
      /\ \/ Handle \/ CommitProposal
         \/ PendingKept /\ (Quiet \/ ByConsole)
  BY WireStep DEF WireInvariant
<1>2. CASE PendingKept /\ (Quiet \/ ByConsole)
  BY <1>1, <1>2, AnswersStandBetween
<1>3. CASE Handle
  <2>1. PICK e \in Envelope :
          /\ InWork(e) /\ Handles(e) /\ process.at = "handle"
          /\ \/ Content[e].kind = "proposal" /\ HandleProposal(e) /\ Quiet
             \/ /\ Content[e].kind # "proposal" /\ HandleEvent(e)
                /\ Quiet \/ ByEvent(e)
    BY <1>1, <1>3, HandleKept
  <2>2. process'.at = "store" => \E a : PendingAnswer(e, a)
    BY <2>1, ProposalHandled, EventHandled
       DEF RefusesProposal, ReadsDeal, RefusesEvent, AppliesEvent
  <2>3. process'.at = "store" => \E a : PendingAnswer(e, a) /\ Stands(e, a)'
    BY <1>1, <2>1, <2>2, ProposalStands, EventStands
  <2> QED
    BY <1>1, <2>1, <2>3, AnswersStandAfter
<1>4. CASE CommitProposal
  <2>1. PICK e \in Envelope, q \in RequestId : \E a :
          /\ InWork(e) /\ Handles(e) /\ Admitted(e)
          /\ Settles(e, q, a) /\ PendingAnswer(e, a)
    BY <1>1, <1>4, ProposalSettled
  <2>2. PICK a : /\ InWork(e) /\ Handles(e) /\ Admitted(e)
                 /\ Settles(e, q, a) /\ PendingAnswer(e, a)
    BY <2>1
  <2>3. Quiet \/ ByProposal(e)
    BY <1>1, <1>4, <2>2, CommitProposalKept
  <2>4. process.at = "commit" /\ now' = now /\ process' # Down
    BY <1>4, <2>2 DEF CommitProposal, ProcessRequest, PendingAnswer, Down
  <2>5. Stands(e, a)'
    BY <1>1, <2>2, <2>4, SettledStands
  <2> QED
    BY <1>1, <2>2, <2>3, <2>5, AnswersStandAfter
<1> QED
  BY <1>1, <1>2, <1>3, <1>4

-----------------------------------------------------------------------------
(* The theorems.                                                           *)

\* A gateway that starts on an empty ledger.
LEMMA WireInvariantInit == WireInit => WireInvariant
<1> SUFFICES ASSUME WireInit PROVE WireInvariant
  OBVIOUS
<1>1. Shaped
  BY TypeInit DEF WireInit, TypeOK
<1>2. /\ links = [d \in DealId |-> NoRecord] /\ registry = links
      /\ events = [d \in DealId |-> <<>>]
      /\ approvals = [q \in RequestId |-> NoApproval]
      /\ decisions = [k \in Key |-> NoDecision]
      /\ seen_commands = {}
      /\ stored = [slot \in Slots |-> NoEntry]
      /\ process = Idle
      /\ told = [e \in Envelope |-> {}]
      /\ faults = 0
  BY DEF WireInit, Init, Hydrated
<1>3. LinkedToStored /\ RegistryOK
  BY <1>2 DEF LinkedToStored, RegistryOK
<1>4. StoredOK /\ ToldOK
  BY <1>2 DEF StoredOK, ToldOK
<1>5. ProcessOK /\ faults \in 0..MaxFaults
  BY <1>2, WireAssumption DEF ProcessOK, Idle
<1>6. HeldAreSeen
  BY <1>2 DEF HeldAreSeen
<1>7. Effects
  BY <1>2 DEF Effects, DecidedAreStored, MovedAreSpent, StoredAreDecided,
              DecidedOnce, MovedOnce
<1>8. DecidedForPeers /\ MovedByPeers /\ SpentHaveMoved
  BY <1>2 DEF DecidedForPeers, MovedByPeers, SpentHaveMoved
<1>9. ReadStands /\ AnswersStand
  BY <1>2 DEF ReadStands, AnswersStand, Answered, Idle
<1> QED
  BY <1>1, <1>3, <1>4, <1>5, <1>6, <1>7, <1>8, <1>9 DEF WireInvariant, WireShape

\* Every step keeps the invariant: an arrival, a commit, a stored or lost
\* answer, a fault, and whatever the console does between them.
LEMMA WireInvariantStep ==
  WireInvariant /\ [WireNext]_wireVars => WireInvariant'
<1> SUFFICES ASSUME WireInvariant, [WireNext]_wireVars PROVE WireInvariant'
  OBVIOUS
<1>1. /\ WireShape /\ HeldAreSeen /\ Effects
      /\ DecidedForPeers /\ MovedByPeers /\ SpentHaveMoved
      /\ Consistent
  BY DEF WireInvariant, WireShape, Consistent
<1>2. WireShape' /\ Kept /\ Moves
  BY <1>1, WireStep
<1>3. HeldAreSeen' /\ Effects'
  BY <1>1, <1>2, EffectsKept
<1>4. DecidedForPeers' /\ MovedByPeers' /\ SpentHaveMoved'
  BY <1>1, <1>2, DecidedForPeersKept, MovedByPeersKept, SpentHaveMovedKept
<1> QED
  BY <1>1, <1>2, <1>3, <1>4, ReadStandsKept, AnswersStandKept
     DEF WireInvariant

\* The invariant holds of every behaviour, whatever is fair in it.
LEMMA WireInvariantHolds == WireSpec => []WireInvariant
<1> QED
  BY WireInvariantInit, WireInvariantStep, PTL DEF WireSpec

\* Every variable has its shape, a link has its deal and its record, and the
\* process works on what it verified, wherever a registration or a handler was
\* cut short.
THEOREM WireTypeCorrect == WireSpec => []WireTypeOK
<1>1. WireInvariant => WireTypeOK
  <2> SUFFICES ASSUME WireInvariant PROVE WireTypeOK
    OBVIOUS
  <2>1. /\ Shaped /\ LinkedToStored /\ RegistryOK /\ StoredOK /\ ProcessOK
        /\ ToldOK /\ faults \in 0..MaxFaults
    BY DEF WireInvariant, WireShape
  <2>2. ASSUME NEW e \in Envelope, NEW a \in told[e]
        PROVE  IsAnswer(a)
    <3>1. /\ IsAnswer(Refused("unverified")) /\ IsAnswer(StaleEnvelope)
          /\ IsAnswer(Refused("hostile")) /\ IsAnswer(Acknowledged)
      BY DEF IsAnswer, Refused, Reasons, StaleEnvelope, Acknowledged
    <3>2. Fits(e, a) /\ Slot(e) \in Slots
      BY <2>1, EnvelopeType DEF ToldOK
    <3> QED
      BY <2>1, <3>1, <3>2 DEF Fits, SlotSays, StoredOK
  <2> QED
    BY <2>1, <2>2 DEF WireTypeOK, LinkedToStored, RegistryOK, StoredOK,
                      ProcessOK, Handles
<1> QED
  BY <1>1, WireInvariantHolds, PTL

\* The places of an envelope's effects are those of the entries it causes.
LEMMA EffectsAreCaused ==
  ASSUME NEW e
  PROVE  /\ \A place \in EffectsOf(e) :
              \E d \in DealId : \E i \in DOMAIN events[d] :
                place = <<d, i>> /\ Causes(e, events[d][i])
         /\ \A d \in DealId : \A i \in DOMAIN events[d] :
              Causes(e, events[d][i]) => <<d, i>> \in EffectsOf(e)
         /\ EffectsOf(e) = {} <=> Untouched(e)
<1>1. EffectsOf(e) =
        {place \in UNION {{d} \X DOMAIN events[d] : d \in DealId} :
           Causes(e, events[place[1]][place[2]])}
  BY DEF EffectsOf, Places, Causes
<1>2. \A place \in UNION {{d} \X DOMAIN events[d] : d \in DealId} :
        \E d \in DealId : \E i \in DOMAIN events[d] : place = <<d, i>>
  OBVIOUS
<1>3. \A d \in DealId : \A i \in DOMAIN events[d] :
        <<d, i>> \in UNION {{x} \X DOMAIN events[x] : x \in DealId}
  OBVIOUS
<1>4. \A place \in EffectsOf(e) :
        \E d \in DealId : \E i \in DOMAIN events[d] :
          place = <<d, i>> /\ Causes(e, events[d][i])
  BY <1>1, <1>2
<1>5. \A d \in DealId : \A i \in DOMAIN events[d] :
        Causes(e, events[d][i]) => <<d, i>> \in EffectsOf(e)
  <2> SUFFICES ASSUME NEW d \in DealId, NEW i \in DOMAIN events[d],
                      Causes(e, events[d][i])
               PROVE  <<d, i>> \in EffectsOf(e)
    OBVIOUS
  <2> PICK place : place = <<d, i>>
    OBVIOUS
  <2>1. /\ place \in UNION {{x} \X DOMAIN events[x] : x \in DealId}
        /\ place[1] = d /\ place[2] = i
    BY <1>3
  <2> QED
    BY <1>1, <2>1
<1> QED
  BY <1>4, <1>5 DEF Untouched

\* Who sent what: an event is in a chain for one verified envelope that carries
\* it, and two events of the chains are not for the same one.
LEMMA EventsOfPeers ==
  ASSUME WireInvariant, NEW event
  PROVE  LET FromPeers(entry) == /\ entry.type = "state_transition"
                                 /\ entry.cause \in CommandId \ ConsoleCommands
             Event(place) == events[place[1]][place[2]].event
             applied == {place \in Places(FromPeers) : Event(place) = event}
             Signed == {e \in Envelope : /\ Verified(e)
                                         /\ Content[e].kind = "counterparty_event"
                                         /\ Content[e].event = event}
         IN  Cardinality(applied) <= Cardinality(Signed)
<1> DEFINE FromPeers(entry) == /\ entry.type = "state_transition"
                               /\ entry.cause \in CommandId \ ConsoleCommands
           Signed == {e \in Envelope : /\ Verified(e)
                                       /\ Content[e].kind = "counterparty_event"
                                       /\ Content[e].event = event}
           At(place) == events[place[1]][place[2]]
           S == {place \in Places(FromPeers) : At(place).event = event}
           f == [place \in S |-> CHOOSE e \in Signed : Causes(e, At(place))]
<1>1. MovedByPeers /\ MovedOnce
  BY DEF WireInvariant, Effects
<1>2. \A place \in S : \E d \in DealId : \E i \in DOMAIN events[d] :
        /\ place = <<d, i>> /\ At(place) = events[d][i]
        /\ events[d][i].type = "state_transition"
        /\ events[d][i].event = event
        /\ events[d][i].cause \in CommandId \ ConsoleCommands
  BY DEF Places
<1>3. \A place \in S : \E e \in Signed : Causes(e, At(place))
  <2> SUFFICES ASSUME NEW place \in S
               PROVE  \E e \in Signed : Causes(e, At(place))
    OBVIOUS
  <2>1. PICK d \in DealId : \E i \in DOMAIN events[d] :
          /\ place = <<d, i>> /\ At(place) = events[d][i]
          /\ events[d][i].type = "state_transition"
          /\ events[d][i].event = event
          /\ events[d][i].cause \in CommandId \ ConsoleCommands
    BY <1>2
  <2>2. PICK i \in DOMAIN events[d] :
          /\ place = <<d, i>> /\ At(place) = events[d][i]
          /\ events[d][i].type = "state_transition"
          /\ events[d][i].event = event
          /\ events[d][i].cause \in CommandId \ ConsoleCommands
    BY <2>1
  <2> HIDE DEF At, S
  <2>3. PICK e \in Envelope :
          /\ Verified(e) /\ Content[e].kind = "counterparty_event"
          /\ Content[e].event = events[d][i].event
          /\ Causes(e, events[d][i])
    BY <1>1, <2>2 DEF MovedByPeers
  <2> QED
    BY <2>2, <2>3
<1>4. ASSUME NEW one \in S, NEW other \in S, NEW e \in Signed,
             Causes(e, At(one)), Causes(e, At(other))
      PROVE  one = other
  <2>1. At(one).cause = At(other).cause
    <3>1. Content[e].kind # "proposal"
      OBVIOUS
    <3> HIDE DEF At
    <3> QED
      BY <1>4, <3>1 DEF Causes
  <2> HIDE DEF At, S
  <2> QED
    BY <1>1, <1>2, <2>1 DEF MovedOnce
<1> HIDE DEF S, Signed, At
<1>5. f \in [S -> Signed] /\ \A place \in S : Causes(f[place], At(place))
  BY <1>3
<1> HIDE DEF f
<1>6. f \in Injection(S, Signed)
  BY <1>4, <1>5 DEF Injection, IsInjective
<1>7. IsFiniteSet(Signed)
  BY WireAssumption, FS_Subset DEF Signed
<1>8. Cardinality(S) <= Cardinality(Signed)
  BY <1>6, <1>7, FS_Injection
<1> QED
  BY <1>8 DEF S, Signed, At

\* However often an envelope arrives, and wherever the process died on it
\* before, what it asks for happens once: over all the chains, one proposal is
\* decided under a key, once, and no event of the peers is applied more often
\* than a peer has signed it.
THEOREM OneEffectHolds == WireSpec => []OneEffect
<1>1. WireInvariant => OneEffect
  <2> SUFFICES ASSUME WireInvariant PROVE OneEffect
    OBVIOUS
  <2>1. DecidedOnce /\ MovedOnce
    BY DEF WireInvariant, Effects
  <2>2. ASSUME NEW e \in Envelope, NEW f \in Envelope,
               NEW d \in DealId, NEW i \in DOMAIN events[d],
               NEW x \in DealId, NEW j \in DOMAIN events[x],
               Causes(e, events[d][i]), Causes(f, events[x][j]),
               e = f \/ /\ Content[e].kind = "proposal"
                        /\ Content[f].kind = "proposal"
                        /\ Content[e].key = Content[f].key
        PROVE  d = x /\ i = j
    <3>1. CASE Content[e].kind = "proposal"
      <4>1. Content[f].kind = "proposal" /\ Content[e].key = Content[f].key
        BY <2>2, <3>1
      <4>2. Content[e].proposal.key = Content[f].proposal.key
        BY <3>1, <4>1, WireAssumption
      <4> QED
        BY <2>1, <2>2, <3>1, <4>1, <4>2 DEF Causes, DecidedOnce
    <3>2. CASE Content[e].kind # "proposal"
      BY <2>1, <2>2, <3>2 DEF Causes, MovedOnce
    <3> QED
      BY <3>1, <3>2
  <2>3. ASSUME NEW e \in Envelope
        PROVE  Cardinality(EffectsOf(e)) <= 1
    <3>1. \A one \in EffectsOf(e), other \in EffectsOf(e) : one = other
      BY <2>2, EffectsAreCaused
    <3> QED
      BY <3>1, OneAtMost
  <2>4. ASSUME NEW e \in Envelope, NEW f \in Envelope,
               Content[e].kind = "proposal", Content[f].kind = "proposal",
               Content[e].key = Content[f].key,
               EffectsOf(e) # {}, EffectsOf(f) # {}
        PROVE  Content[e].proposal = Content[f].proposal
    <3>1. PICK d \in DealId : \E i \in DOMAIN events[d] :
            Causes(e, events[d][i])
      BY <2>4, EffectsAreCaused DEF Untouched
    <3>2. PICK x \in DealId : \E j \in DOMAIN events[x] :
            Causes(f, events[x][j])
      BY <2>4, EffectsAreCaused DEF Untouched
    <3>3. \E i \in DOMAIN events[d] :
            Causes(e, events[d][i]) /\ Causes(f, events[d][i])
      BY <2>2, <2>4, <3>1, <3>2
    <3> QED
      BY <2>4, <3>3 DEF Causes
  <2> DEFINE FromPeers(entry) ==
               /\ entry.type = "state_transition"
               /\ entry.cause \in CommandId \ ConsoleCommands
             Event(place) == events[place[1]][place[2]].event
             Signed(event) ==
               {e \in Envelope : /\ Verified(e)
                                 /\ Content[e].kind = "counterparty_event"
                                 /\ Content[e].event = event}
             applied == Places(FromPeers)
  <2>5. \A event :
          Cardinality({place \in applied : Event(place) = event})
            <= Cardinality(Signed(event))
    BY EventsOfPeers
  <2> QED
    BY <2>3, <2>4, <2>5 DEF OneEffect
<1> QED
  BY <1>1, WireInvariantHolds, PTL

\* What the slots say of what senders were told.
LEMMA ToldStands ==
  ASSUME WireInvariant, NEW e \in Envelope, NEW a \in told[e],
         a # StaleEnvelope
  PROVE  \/ ~ Verified(e) /\ a = Refused("unverified")
         \/ /\ Verified(e)
            /\ a = SlotSays(e) \/ Content[e].kind = "receipt"
            /\ a = Acknowledged \/ a = Refused("hostile") \/ Stands(e, a)
<1>1. Fits(e, a) /\ Slot(e) \in Slots /\ ToldOK /\ AnswersStand
  BY EnvelopeType DEF WireInvariant, WireShape, ToldOK
<1>2. CASE ~ Verified(e)
  BY <1>1, <1>2 DEF Fits
<1>3. CASE Verified(e) /\ a = Acknowledged /\ Content[e].kind = "receipt"
  BY <1>3
<1>4. CASE Verified(e) /\ stored[Slot(e)] # NoEntry /\ a = SlotSays(e)
  <2>1. a = Refused("hostile") \/ Answered(e, a)
    BY <1>1, <1>4 DEF SlotSays, Answered
  <2> QED
    BY <1>1, <1>4, <2>1 DEF AnswersStand
<1> QED
  BY <1>1, <1>2, <1>3, <1>4 DEF Fits

\* The answers a sender ever gets for one envelope agree, over redeliveries,
\* lost responses, crashes and whatever the console did between them; but for
\* the refusal of a late envelope and the acknowledgement of a receipt.
THEOREM OneAnswerHolds == WireSpec => []OneAnswer
<1>1. WireInvariant => OneAnswer
  <2> SUFFICES ASSUME WireInvariant, NEW e \in Envelope,
                      Content[e].kind # "receipt"
               PROVE  Cardinality(told[e] \ {StaleEnvelope}) <= 1
    BY DEF OneAnswer
  <2>1. \A a \in told[e] \ {StaleEnvelope} :
          IF Verified(e) THEN a = SlotSays(e) ELSE a = Refused("unverified")
    BY ToldStands
  <2>2. \A one \in told[e] \ {StaleEnvelope},
           other \in told[e] \ {StaleEnvelope} : one = other
    BY <2>1
  <2> QED
    BY <2>2, OneAtMost
<1> QED
  BY <1>1, WireInvariantHolds, PTL

\* An accepted proposal is on record in its deal's chain with the decision that
\* the answer carries, an accepted event as itself; but for the allow that the
\* console has outrun and the event whose message identity was used before.
THEOREM AcceptedOnRecordHolds == WireSpec => []AcceptedOnRecord
<1>1. WireInvariant => AcceptedOnRecord
  <2> SUFFICES ASSUME WireInvariant, NEW e \in Envelope, NEW a \in told[e],
                      a.status = "accepted"
               PROVE  LET c == Content[e]
                          Stood(Test(_)) ==
                            \E place \in EffectsOf(e) :
                              /\ place[1] = c.deal
                              /\ Test(events[place[1]][place[2]])
                          Decided(entry) == entry.decision = a.decision
                          Applied(entry) == entry.event = c.event
                      IN  IF c.kind = "proposal"
                          THEN \/ Stood(Decided)
                               \/ /\ a.decision = Allow
                                  /\ MovedAway(c.deal,
                                       ActionEvents[c.proposal.action])
                          ELSE OnlyCarrier(e) => Stood(Applied)
    BY DEF AcceptedOnRecord
  <2>1. OnRecord(e, a) \/ Outrun(e, a)
    BY ToldStands DEF Stands, StaleEnvelope, Refused, Acknowledged
  <2>2. ASSUME OnRecord(e, a)
        PROVE  \E place \in EffectsOf(e) :
                 /\ place[1] = Content[e].deal
                 /\ IF Content[e].kind = "proposal"
                    THEN events[place[1]][place[2]].decision = a.decision
                    ELSE events[place[1]][place[2]].event = Content[e].event
    <3>1. PICK i \in DOMAIN events[DealOf(e)] :
            /\ Causes(e, events[DealOf(e)][i])
            /\ IF Content[e].kind = "proposal"
               THEN events[DealOf(e)][i].decision = a.decision
               ELSE events[DealOf(e)][i].event = Content[e].event
      BY <2>2 DEF OnRecord
    <3>2. <<DealOf(e), i>> \in EffectsOf(e)
      BY <3>1, EnvelopeType, EffectsAreCaused
    <3> QED
      BY <3>1, <3>2 DEF DealOf
  <2> QED
    BY <2>1, <2>2 DEF Outrun, DealOf
<1> QED
  BY <1>1, WireInvariantHolds, PTL

\* What was refused leaves no trace in any chain, now or later: a crash before
\* the stored answer never turns a refusal that was told into an effect.
THEOREM RefusedLeavesNothingHolds == WireSpec => []RefusedLeavesNothing
<1>1. WireInvariant => RefusedLeavesNothing
  <2> SUFFICES ASSUME WireInvariant, NEW e \in Envelope,
                      NEW a \in told[e] \ {StaleEnvelope, Refused("hostile")},
                      a.status = "refused", OnlyCarrier(e),
                      Content[e].kind = "proposal"
                        \/ a # Refused("wrong_audience")
               PROVE  EffectsOf(e) = {}
    BY DEF RefusedLeavesNothing
  <2>1. DecidedForPeers /\ MovedByPeers
    BY DEF WireInvariant
  <2>2. CASE Verified(e)
    <3>1. Stands(e, a)
      BY <2>2, ToldStands DEF Acknowledged
    <3>2. Untouched(e)
      BY <3>1 DEF Stands, Denies
    <3> QED
      BY <3>2, EffectsAreCaused
  <2>3. CASE ~ Verified(e)
    <3>1. ASSUME NEW d \in DealId, NEW i \in DOMAIN events[d],
                 Causes(e, events[d][i])
          PROVE  FALSE
      BY <2>1, <2>3, <3>1, DecidedFor, MovedFor
    <3>2. Untouched(e)
      BY <3>1 DEF Untouched
    <3> QED
      BY <3>2, EffectsAreCaused
  <2> QED
    BY <2>2, <2>3
<1> QED
  BY <1>1, WireInvariantHolds, PTL

\* The registry in memory says what the ledger's links say, however far a
\* registration came before the process died, and a deal whose proposals the
\* gateway has once accepted stays actionable over every restart.
THEOREM StillActionableHolds == WireSpec => []StillActionable
<1>1. WireInvariant => StillActionable
  <2> SUFFICES ASSUME WireInvariant, process # Down
               PROVE  /\ \A d \in DealId : registry[d] \in {NoRecord, links[d]}
                      /\ \A e \in Envelope : \A a \in told[e] :
                           Content[e].kind = "proposal" /\ a.status = "accepted"
                             => registry[DealOf(e)] # NoRecord
    BY DEF StillActionable
  <2>1. \A d \in DealId : registry[d] \in {NoRecord, links[d]}
    BY DEF WireInvariant, WireShape, RegistryOK
  <2>2. ASSUME NEW e \in Envelope, NEW a \in told[e],
               Content[e].kind = "proposal", a.status = "accepted"
        PROVE  registry[DealOf(e)] # NoRecord
    <3>1. Stands(e, a)
      BY <2>2, ToldStands DEF StaleEnvelope, Refused, Acknowledged
    <3> QED
      BY <2>2, <3>1 DEF Stands, Actionable
  <2> QED
    BY <2>1, <2>2
<1> QED
  BY <1>1, WireInvariantHolds, PTL

-----------------------------------------------------------------------------
(* What the ledger promises, with a gateway in front of it.                *)

\* Every step of the gateway is one of the ledger's operations, or leaves what
\* the promises are about alone.
LEMMA MovesOperate ==
  ASSUME Moves
  PROVE  Operations \/ Quiet
BY DEF Moves, ByConsole, ByProposal, ByEvent

\* Retries and redeliveries have no second effect on the ledger behind the
\* gateway either: a key is decided once, and no request, message or command of
\* the console moves a deal twice.
THEOREM WireSideEffectsOnce == WireSpec => []SideEffectsOnce
<1>1. WireInvariant => SideEffectsOnce
  BY EffectsAreOnce DEF WireInvariant
<1> QED
  BY <1>1, WireInvariantHolds, PTL

\* No proposal off the wire moves a deal but by an allow of that very action
\* and amount, which stands right before the move in the chain.
THEOREM WireTransitionsAuthorized == WireSpec => []TransitionsAuthorized
<1>1. WireInit => TransitionsAuthorized
  BY DEF WireInit, Init, TransitionsAuthorized
<1>2. ASSUME WireInvariant, TransitionsAuthorized, [WireNext]_wireVars
      PROVE  TransitionsAuthorized'
  <2>1. Consistent /\ (Operations \/ Quiet)
    BY <1>2, WireStep, MovesOperate DEF WireInvariant, WireShape, Consistent
  <2>2. CASE Quiet
    BY <1>2, <2>2 DEF Quiet, TransitionsAuthorized, Authorizes
  <2> QED
    BY <1>2, <2>1, <2>2, TransitionsAuthorizedStep
<1> QED
  BY <1>1, <1>2, WireInvariantHolds, PTL DEF WireSpec

-----------------------------------------------------------------------------
(* Revocations that a request in work overtakes.                           *)

\* No step takes a revocation back, nor the clock.
LEMMA RevocationsStay ==
  ASSUME WireShape, [WireNext]_wireVars
  PROVE  revocations \subseteq revocations' /\ now \in Nat /\ now' >= now
<1>1. now \in Nat
  BY LedgerAssumption DEF WireShape, Shaped
<1>2. ASSUME UNCHANGED vars
      PROVE  UNCHANGED <<revocations, now>>
  BY <1>2 DEF vars, store
<1>3. ASSUME NEW d, NEW c, NEW event, NEW noted,
             CommitTransition(d, c, event, noted)
      PROVE  UNCHANGED <<revocations, now>>
  BY <1>3 DEF CommitTransition, store
<1>4. ASSUME NEW d \in DealId, NEW r \in RecordId, CreateDeal(d, r)
      PROVE  UNCHANGED <<revocations, now>>
  BY <1>4 DEF CreateDeal
<1>5. CASE PutRecord \/ LinkDealRecord
  BY <1>1, <1>5 DEF PutRecord, LinkDealRecord
<1>6. CASE BuildClaim \/ StoreAnswer \/ Raise \/ Crash \/ Restart
           \/ \E e \in Envelope : Receive(e)
  BY <1>1, <1>2, <1>6
     DEF BuildClaim, StoreAnswer, Raise, Crash, Restart, Receive
<1>7. CASE Handle
  <2>1. PICK e \in Envelope :
          HandleProposal(e) \/ RefusesEvent(e) \/ AppliesEvent(e)
    BY <1>7, HandleKept, EventHandled
  <2> QED
    BY <1>1, <1>2, <1>3, <2>1, ProposalHandled DEF RefusesEvent, AppliesEvent
<1>8. CASE CommitProposal
  <2>1. PICK q, p, input : ProcessRequest(q, p, input)
    BY <1>8 DEF CommitProposal
  <2>2. CommitRequest(q, p, Evaluate(input)) => revocations' = revocations
    BY DEF CommitRequest
  <2>3. now' = now /\ (UNCHANGED store \/ CommitRequest(q, p, Evaluate(input)))
    BY <2>1 DEF ProcessRequest
  <2> QED
    BY <1>1, <2>2, <2>3 DEF store
<1>9. CASE Console
  <2>1. ASSUME NEW d \in DealId, NEW r \in RecordId, RegisterDeal(d, r)
        PROVE  revocations' = revocations /\ now' = now
    BY <2>1 DEF RegisterDeal
  <2>2. ASSUME NEW d \in DealId, NEW c \in ConsoleCommands, Revoke(d, c)
        PROVE  revocations \subseteq revocations' /\ now' = now
    BY <2>2 DEF Revoke, CommitRevocation, store
  <2>3. Tick => revocations' = revocations /\ now' = now + 1
    BY DEF Tick, store
  <2>4. ASSUME NEW d \in DealId, NEW c \in ConsoleCommands, NEW event,
               BoundaryEvent(d, c, event, FALSE)
        PROVE  revocations' = revocations /\ now' = now
    BY <1>3, <2>4 DEF BoundaryEvent
  <2>5. revocations \subseteq revocations' /\ now' \in {now, now + 1}
    BY <1>9, <2>1, <2>2, <2>3, <2>4, Zenon DEF Console
  <2> QED
    BY <1>1, <2>5
<1>10. CASE UNCHANGED wireVars
  BY <1>1, <1>2, <1>10 DEF wireVars
<1> QED
  BY <1>1, <1>4, <1>5, <1>6, <1>7, <1>8, <1>9, <1>10 DEF WireNext, Proceed

\* A revocation in a chain binds from then on.
LEMMA RevocationsBindKept ==
  ASSUME WireShape, HeldAreSeen, RevocationsBind, [WireNext]_wireVars
  PROVE  RevocationsBind'
<1>1. /\ Consistent /\ Kept /\ Moves
      /\ revocations \subseteq revocations' /\ now \in Nat /\ now' >= now
      /\ revocations \in SUBSET Revocation
  BY WireStep, RevocationsStay DEF Consistent, WireShape, Shaped
<1>2. ASSUME NEW d \in DealId, NEW i \in DOMAIN events'[d],
             events'[d][i].type = "revocation"
      PROVE  /\ links'[d] # NoRecord
             /\ \E v \in revocations' :
                  v.record = links'[d] /\ v.revoked_at <= now'
  <2>1. CASE i \in DOMAIN events[d]
    <3>1. events'[d][i] = events[d][i]
      BY <1>1, <2>1, EntriesKept
    <3>2. PICK v \in revocations : v.record = links[d] /\ v.revoked_at <= now
      BY <1>2, <2>1, <3>1 DEF RevocationsBind
    <3>3. links[d] # NoRecord /\ links'[d] = links[d]
      BY <1>1, <1>2, <2>1, <3>1 DEF RevocationsBind, Kept
    <3>4. v.revoked_at \in Nat
      BY <1>1, LedgerAssumption DEF Revocation
    <3>5. v \in revocations' /\ v.revoked_at <= now' /\ now' \in Int
      <4>1. now' \in Int
        BY WireStep, LedgerAssumption DEF WireShape, Shaped
      <4> QED
        BY <1>1, <3>2, <3>4, <4>1
    <3> QED
      BY <3>2, <3>3, <3>5
  <2>2. CASE i \in Added(d)
    <3>1. ~ Quiet
      BY <1>1, <2>2, EntriesKept
    <3>2. /\ links[d] # NoRecord /\ now' = now
          /\ \E v \in revocations' : v.record = links[d] /\ v.revoked_at = now
      BY <1>1, <1>2, <2>2, <3>1 DEF Moves, ByConsole, ByProposal, ByEvent
    <3>3. links'[d] = links[d]
      BY <1>1, <3>2 DEF Kept
    <3> QED
      BY <1>1, <3>2, <3>3
  <2> QED
    BY <1>1, <2>1, <2>2, EntriesKept
<1> QED
  BY <1>2 DEF RevocationsBind

\* A claim is built before the revocations that it does not know of, and while
\* it waits for its commit no permission gets behind them.
LEMMA ClaimIsFirstKept ==
  ASSUME WireShape, HeldAreSeen, RevocationsBind, ClaimIsFirst,
         [WireNext]_wireVars
  PROVE  ClaimIsFirst'
<1>1. Consistent /\ WireShape' /\ Moves
  BY WireStep DEF Consistent, WireShape
<1> SUFFICES ASSUME process'.at = "commit", process'.status # "revoked",
                    NEW d \in DealId, d = DealOf(process'.envelope),
                    NEW i \in DOMAIN events'[d], NEW j \in DOMAIN events'[d],
                    events'[d][i].type = "revocation", i < j,
                    Permission(events'[d][j])
             PROVE  FALSE
  <2>1. process'.at = "commit" => DealOf(process.envelope)' \in DealId
    BY <1>1, EnvelopeType DEF WireShape, ProcessOK, Handles, DealOf
  <2> QED
    BY <2>1 DEF ClaimIsFirst, Permission, DealOf
<1>2. CASE process' = process /\ (Console \/ UNCHANGED vars)
  <2>1. Quiet \/ ByConsole
    BY <1>2, ConsoleKept, LedgerSame
  <2>2. j \notin Added(d)
    BY <1>1, <2>1, EntriesKept DEF ByConsole, Permission
  <2>3. j \in DOMAIN events[d] /\ events'[d][j] = events[d][j]
    BY <1>1, <2>2, EntriesKept
  <2>4. i \in DOMAIN events[d] /\ events'[d][i] = events[d][i]
    BY <1>1, <2>3, EarlierIsOld
  <2> QED
    BY <1>2, <2>3, <2>4 DEF ClaimIsFirst
<1>3. CASE BuildClaim
  <2>1. /\ events' = events /\ revocations' = revocations /\ now' = now
        /\ process'.status = ClaimStatus(registry[d])
        /\ process.at = "claim" /\ d = DealOf(process.envelope)
    BY <1>3 DEF BuildClaim, vars, store
  <2>2. registry[d] = links[d]
    BY <2>1, HeardOf DEF WireShape, ProcessOK, Admitted
  <2>3. PICK v \in revocations : v.record = links[d] /\ v.revoked_at <= now
    BY <2>1 DEF RevocationsBind
  <2> QED
    BY <2>1, <2>2, <2>3 DEF ClaimStatus, Status, Revoked, ResolveStatus
<1> QED
  BY <1>2, <1>3, WorkGoesOn DEF ReadsDeal

\* What is permitted behind a revocation came by the one commit whose claim was
\* built before it.
LEMMA RevocationOvertakenOnceKept ==
  ASSUME WireShape, HeldAreSeen, RevocationInvariant, [WireNext]_wireVars
  PROVE  RevocationOvertakenOnce'
<1>1. Consistent /\ Moves /\ RevocationOvertakenOnce /\ ClaimIsFirst
  BY WireStep DEF Consistent, WireShape, RevocationInvariant
<1> SUFFICES ASSUME NEW d \in DealId, NEW i \in DOMAIN events'[d],
                    NEW j \in DOMAIN events'[d], NEW k \in DOMAIN events'[d],
                    events'[d][i].type = "revocation",
                    i < j, Permission(events'[d][j]),
                    i < k, Permission(events'[d][k])
             PROVE  j = k
  BY DEF RevocationOvertakenOnce, Permission
<1>2. ASSUME NEW h \in DOMAIN events[d], i < h
      PROVE  i \in DOMAIN events[d] /\ events[d][i].type = "revocation"
  BY <1>1, <1>2, EarlierIsOld
<1>3. CASE j \in DOMAIN events[d] /\ k \in DOMAIN events[d]
  <2>1. events'[d][j] = events[d][j] /\ events'[d][k] = events[d][k]
    BY <1>1, <1>3, EntriesKept
  <2> QED
    BY <1>1, <1>2, <1>3, <2>1 DEF RevocationOvertakenOnce
<1>4. ASSUME NEW new \in Added(d), i < new, Permission(events'[d][new])
      PROVE  /\ Operations /\ events'[d][new].type = "policy_decision"
             /\ \A h \in DOMAIN events'[d] :
                  i < h /\ Permission(events'[d][h]) => h \in Added(d)
  <2>1. ~ Quiet
    BY <1>1, EntriesKept
  <2>2. PICK e \in Envelope : ByProposal(e)
    BY <1>1, <1>4, <2>1 DEF Moves, ByConsole, ByEvent, Permission
  <2>3. /\ Operations /\ process.at = "commit" /\ process.status # "revoked"
        /\ d = DealOf(process.envelope)
        /\ events'[d][new].type = "policy_decision"
    BY <1>4, <2>2 DEF ByProposal, InWork
  <2>4. i \notin Added(d)
    BY <2>2 DEF ByProposal
  <2>5. i \in DOMAIN events[d] /\ events'[d][i] = events[d][i]
    BY <1>1, <2>4, EntriesKept
  <2>6. ASSUME NEW h \in DOMAIN events[d], i < h, Permission(events'[d][h])
        PROVE  FALSE
    <3>1. events'[d][h] = events[d][h]
      BY <1>1, <2>6, EntriesKept
    <3> QED
      BY <1>1, <2>3, <2>5, <2>6, <3>1 DEF ClaimIsFirst
  <2> QED
    BY <1>1, <2>3, <2>6, EntriesKept
<1>5. CASE j \in Added(d) \/ k \in Added(d)
  <2>1. /\ j \in Added(d) /\ k \in Added(d) /\ Operations
        /\ events'[d][j].type = "policy_decision"
        /\ events'[d][k].type = "policy_decision"
    BY <1>4, <1>5
  <2> QED
    BY <1>1, <2>1, NewDecisionIsOne DEF Added
<1> QED
  BY <1>1, <1>3, <1>5, EntriesKept

\* A revocation is overtaken by one request at most, whichever envelopes are on
\* their way when the console revokes: only the proposal whose claim was built
\* before is still committed behind it.
THEOREM RevocationOvertakenOnceHolds ==
  WireSpec => []RevocationOvertakenOnce
<1>1. WireInit => RevocationInvariant
  BY DEF WireInit, Init, Idle, RevocationInvariant, RevocationsBind,
         ClaimIsFirst, RevocationOvertakenOnce
<1>2. WireInvariant /\ RevocationInvariant /\ [WireNext]_wireVars
        => RevocationInvariant'
  BY RevocationsBindKept, ClaimIsFirstKept, RevocationOvertakenOnceKept
     DEF WireInvariant, RevocationInvariant
<1>3. RevocationInvariant => RevocationOvertakenOnce
  BY DEF RevocationInvariant
<1> QED
  BY <1>1, <1>2, <1>3, WireInvariantHolds, PTL DEF WireSpec

=============================================================================
