----------------------------- MODULE WireGateway -----------------------------
(***************************************************************************)
(* mandate.transport.gateway over the ledger: one gateway process takes    *)
(* signed envelopes, answers each at most once from its own work, and      *)
(* repeats the stored answer for a redelivery (transport.dedup and         *)
(* adapters.postgres.wire_dedup).  The console works on the same ledger.   *)
(*                                                                         *)
(* _process_message awaits nothing, so envelopes are handled one after the *)
(* other; but what a proposal's handler reads, its commit and the stored   *)
(* answer are transactions of their own, the process can die or raise      *)
(* between any two, and the console's calls fall between them.  The gate   *)
(* reads what only this process writes here, so it is one step with the    *)
(* commit; what happens inside one commit is PostgresLedger's.             *)
(*                                                                         *)
(* The network delivers an envelope any number of times, at any time, and  *)
(* loses answers.  The ledger and the stored answers survive a crash, the  *)
(* registry of deals is rebuilt from the ledger.                           *)
(***************************************************************************)
EXTENDS Ledger

CONSTANTS
  Envelope,         \* a signed message: its fingerprint
  Content,          \* Envelope -> what it carries
  Self, Peers,      \* this gateway and the senders it knows
  MaxAge,           \* the freshness window
  ConsoleCommands,  \* the commands of the console's calls
  MaxFaults         \* bound on crashes, exceptions and lost answers

Kinds == {"proposal", "counterparty_event", "receipt"}

\* genuine: the signature verifies under the sender's registered key; parses:
\* the payload is of the envelope's kind.
ContentType ==
  [ kind : Kinds, sender : STRING, recipient : STRING, genuine : BOOLEAN,
    parses : BOOLEAN, key : Key, message : CommandId, issued_at : Nat,
    deal : DealId, proposal : Proposals, event : STRING, noted : BOOLEAN ]

ASSUME WireAssumption ==
  /\ IsFiniteSet(Envelope)
  /\ ConsoleCommands \subseteq CommandId
  /\ \A e \in Envelope :
       /\ Content[e] \in ContentType
       /\ Content[e].kind = "proposal" =>
            /\ Content[e].proposal.key = Content[e].key
            /\ Content[e].proposal.deal = Content[e].deal
  /\ Peers \subseteq STRING
  /\ MaxAge \in Nat /\ MaxFaults \in Nat

VARIABLES
  registry,  \* DealId -> record, in the process's memory (deal_records)
  stored,    \* message_dedup: slot -> the envelope that used it, its answer
  process,   \* the envelope in work, what was read for it, and its answer
  told,      \* Envelope -> the answers its sender received
  faults

wire == <<registry, stored, process, told, faults>>
wireVars == <<vars, wire>>

Sender(e) == Content[e].sender
DealOf(e) == Content[e].deal
Slot(e) == <<Sender(e), Content[e].key>>
Slots == {Slot(e) : e \in Envelope}
NoEntry == [envelope |-> "none"]

Refused(why) == [status |-> "refused", why |-> why]
Accepted(decision) == [status |-> "accepted", decision |-> decision]
Acknowledged == [status |-> "acknowledged"]
StaleEnvelope == Refused("stale_envelope")

Idle == [at |-> "idle"]
Down == [at |-> "down"]
-----------------------------------------------------------------------------
\* build_gateway_state: the registry is what the ledger's links say.
Hydrated == links

WireInit ==
  /\ Init
  /\ registry = Hydrated
  /\ stored = [slot \in Slots |-> NoEntry]
  /\ process = Idle
  /\ told = [e \in Envelope |-> {}]
  /\ faults = 0

\* register_deal, called in this process: three transactions, then the
\* registry.  create_deal raises for a deal that exists, ...
CreateDeal(d, r) ==
  /\ process = Idle
  /\ ~ Known(d)
  /\ deals' = [deals EXCEPT ![d] = DraftDeal]
  /\ process' = [at |-> "put_record", deal |-> d, record |-> r]
  /\ UNCHANGED <<links, events, records, revocations, approvals,
                 nonce_owners, seen_requests, decisions, seen_commands, now,
                 answer, registry, stored, told, faults>>

PutRecord ==
  /\ process.at = "put_record"
  /\ records' = records \cup {process.record}
  /\ process' = [process EXCEPT !.at = "link"]
  /\ UNCHANGED <<deals, links, events, revocations, approvals, nonce_owners,
                 seen_requests, decisions, seen_commands, now, answer,
                 registry, stored, told, faults>>

\* ... and link_deal_record for a deal that is linked to another record.
LinkDealRecord ==
  LET d == process.deal
      r == process.record
  IN  /\ process.at = "link"
      /\ IF links[d] \in {NoRecord, r}
         THEN /\ links' = [links EXCEPT ![d] = r]
              /\ registry' = [registry EXCEPT ![d] = r]
         ELSE UNCHANGED <<links, registry>>
      /\ process' = Idle
      /\ UNCHANGED <<deals, events, records, revocations, approvals,
                     nonce_owners, seen_requests, decisions, seen_commands,
                     now, answer, stored, told, faults>>

\* The other process on this ledger: the console registers deals, reports
\* events and revokes the record of a deal.
Console ==
  /\ \/ \E d \in DealId, r \in RecordId : RegisterDeal(d, r)
     \/ \E d \in DealId, c \in ConsoleCommands :
          \/ \E event \in BoundaryEvents[d] : BoundaryEvent(d, c, event, FALSE)
          \/ Revoke(d, c)
     \/ Tick
  /\ UNCHANGED wire

-----------------------------------------------------------------------------
\* Recipient, sender, then verify_envelope and parse_payload.
Verified(e) ==
  /\ Content[e].recipient = Self
  /\ Sender(e) \in Peers
  /\ Content[e].genuine
  /\ Content[e].parses

\* envelope_is_stale: too far from the receiver's clock, either way.
IsStale(e) ==
  \/ now - Content[e].issued_at > MaxAge
  \/ Content[e].issued_at - now > MaxAge

\* The sender has its answer, unless the response is lost.
Answer(e, a) ==
  \/ /\ told' = [told EXCEPT ![e] = @ \cup {a}]
     /\ UNCHANGED faults
  \/ /\ faults < MaxFaults
     /\ faults' = faults + 1
     /\ UNCHANGED told

\* A faulty variant of Lookup: the key alone decides, the fingerprint is not
\* compared.
LookupByKey(e) ==
  IF stored[Slot(e)] = NoEntry THEN "new" ELSE "redelivery"

\* WireDedup.lookup.
Lookup(e) ==
  IF stored[Slot(e)] = NoEntry THEN "new"
  ELSE IF stored[Slot(e)].envelope = e THEN "redelivery"
  ELSE "hostile"

\* A faulty variant of AnswerAgain: a redelivery is dropped as already done.
DropAgain(e) == UNCHANGED <<told, faults>>

\* A redelivery gets the stored answer.
AnswerAgain(e) == Answer(e, stored[Slot(e)].answer)

\* An envelope arrives, the first time or again.  What is not answered at once
\* goes to its handler.
Receive(e) ==
  /\ process = Idle
  /\ CASE ~ Verified(e) ->
            Answer(e, Refused("unverified")) /\ UNCHANGED process
       [] Verified(e) /\ Lookup(e) = "redelivery" ->
            AnswerAgain(e) /\ UNCHANGED process
       [] Verified(e) /\ Lookup(e) = "hostile" ->
            Answer(e, Refused("hostile")) /\ UNCHANGED process
       [] Verified(e) /\ Lookup(e) = "new" /\ IsStale(e) ->
            Answer(e, StaleEnvelope) /\ UNCHANGED process
       [] OTHER ->
            IF Content[e].kind = "receipt"
            THEN Answer(e, Acknowledged) /\ UNCHANGED process
            ELSE /\ process' = [at |-> "handle", envelope |-> e]
                 /\ UNCHANGED <<told, faults>>
  /\ UNCHANGED <<vars, registry, stored>>

-----------------------------------------------------------------------------
Handled(e, a) ==
  process' = [at |-> "store", envelope |-> e, answer |-> a]

\* An audience-restricted mandate answers to its counterparty only.
WrongAudience(e) ==
  LET r == registry[DealOf(e)] IN
  /\ r # NoRecord
  /\ Mandate[r].counterparty \notin {NoParty, Sender(e)}

\* _handle_proposal reads the deal, ...
HandleProposal(e) ==
  LET d == DealOf(e) IN
  /\ CASE registry[d] = NoRecord \/ ~ Known(d) ->
            Handled(e, Refused("unknown_deal"))
       [] registry[d] # NoRecord /\ Known(d) /\ WrongAudience(e) ->
            Handled(e, Refused("wrong_audience"))
       [] OTHER ->
            process' = [at |-> "claim", envelope |-> e, deal |-> deals[d]]
  /\ UNCHANGED vars

\* ... then the clock and, for the claim, the revocations, ...
BuildClaim ==
  LET e == process.envelope IN
  /\ process.at = "claim"
  /\ process' = [ at |-> "commit", envelope |-> e, deal |-> process.deal,
                  now |-> now, status |-> ClaimStatus(registry[DealOf(e)]) ]
  /\ UNCHANGED <<vars, registry, stored, told, faults>>

\* new_ulid: the request of a proposal off the wire is a new one each time.
NewRequest == CHOOSE q \in RequestId : q \notin seen_requests

\* ... and then processes the request on what it has read, whatever the console
\* did since.
CommitProposal ==
  LET e == process.envelope
      p == Content[e].proposal
      screened == {c \in Screenings \cup {NoContent} : c.present = p.text}
      inputs == { PolicyInput(p, Mandate[registry[DealOf(e)]], process.status,
                              process.deal, process.now, content)
                  : content \in screened }
  IN  /\ process.at = "commit"
      /\ seen_requests # RequestId  \* bound on the requests
      /\ \E input \in inputs : ProcessRequest(NewRequest, p, input)
      /\ Handled(e, IF answer'.result \in {"decided", "idempotent_hit"}
                    THEN Accepted(answer'.decision)
                    ELSE Refused("replay_gate"))
      /\ UNCHANGED <<registry, stored, told, faults>>

\* A faulty variant of CommandOf: a new identity for each delivery.
CommandOfDelivery(e) ==
  CHOOSE c \in CommandId \ ConsoleCommands : c \notin seen_commands

\* The transition's own dedup: the message is the command.
CommandOf(e) == Content[e].message

HandleEvent(e) ==
  LET d == DealOf(e) IN
  CASE ~ Known(d) ->
         Handled(e, Refused("unknown_deal")) /\ UNCHANGED vars
    [] Known(d) /\ WrongAudience(e) ->
         Handled(e, Refused("wrong_audience")) /\ UNCHANGED vars
    [] Known(d) /\ ~ WrongAudience(e) /\ Content[e].event \notin DealEvent ->
         Handled(e, Refused("unknown_event")) /\ UNCHANGED vars
    [] OTHER ->
         /\ CommitTransition(d, CommandOf(e), Content[e].event,
                             Content[e].noted)
         /\ Handled(e, IF answer'.result \in {"committed", "already_applied"}
                       THEN Accepted(NoDecision)
                       ELSE Refused("not_applied"))

\* The kind's handler: an event's up to its commit.
Handle ==
  /\ process.at = "handle"
  /\ IF Content[process.envelope].kind = "proposal"
     THEN HandleProposal(process.envelope)
     ELSE HandleEvent(process.envelope)
  /\ UNCHANGED <<registry, stored, told, faults>>

\* A faulty variant of Remembered: a refusal is not stored.
RememberedIfAccepted(e, a) ==
  IF a.status = "accepted" /\ stored[Slot(e)] = NoEntry
  THEN [stored EXCEPT ![Slot(e)] = [envelope |-> e, answer |-> a]]
  ELSE stored

\* WireDedup.store: on conflict, nothing.
Remembered(e, a) ==
  IF stored[Slot(e)] = NoEntry
  THEN [stored EXCEPT ![Slot(e)] = [envelope |-> e, answer |-> a]]
  ELSE stored

StoreAnswer ==
  /\ process.at = "store"
  /\ stored' = Remembered(process.envelope, process.answer)
  /\ Answer(process.envelope, process.answer)
  /\ process' = Idle
  /\ UNCHANGED <<vars, registry>>

-----------------------------------------------------------------------------
\* The database refuses or is gone: the handler (status 500, no answer is
\* stored) or the registration raises.
Raise ==
  /\ process.at \notin {"idle", "down"}
  /\ faults < MaxFaults
  /\ faults' = faults + 1
  /\ process' = Idle
  /\ UNCHANGED <<vars, registry, stored, told>>

\* The process dies, with its memory.
Crash ==
  /\ process # Down
  /\ faults < MaxFaults
  /\ faults' = faults + 1
  /\ process' = Down
  /\ registry' = [d \in DealId |-> NoRecord]
  /\ UNCHANGED <<vars, stored, told>>

\* A faulty variant of Restart: the registry starts empty.
RestartEmpty ==
  /\ process = Down
  /\ process' = Idle
  /\ UNCHANGED <<vars, registry, stored, told, faults>>

Restart ==
  /\ process = Down
  /\ process' = Idle
  /\ registry' = Hydrated
  /\ UNCHANGED <<vars, stored, told, faults>>

\* What the process does by itself, one step at a time.
Proceed ==
  \/ PutRecord \/ LinkDealRecord
  \/ Handle \/ BuildClaim \/ CommitProposal \/ StoreAnswer
  \/ Restart

WireNext ==
  \/ \E d \in DealId, r \in RecordId : CreateDeal(d, r)
  \/ Console
  \/ \E e \in Envelope : Receive(e)
  \/ Proceed \/ Raise \/ Crash

\* The process does not stop in a registration or a handler, and is restarted;
\* a sender repeats its envelope until it has an answer.
Fairness ==
  /\ WF_wireVars(Proceed)
  /\ \A e \in Envelope : SF_wireVars(Receive(e))

WireSpec == WireInit /\ [][WireNext]_wireVars /\ Fairness
-----------------------------------------------------------------------------
Reasons ==
  { "unverified", "hostile", "stale_envelope", "unknown_deal", "wrong_audience",
    "replay_gate", "unknown_event", "not_applied" }
IsAnswer(a) ==
  \/ a.status = "refused" /\ a.why \in Reasons
  \/ a.status = "accepted" /\ a.decision \in Decision \cup {NoDecision}
  \/ a = Acknowledged

\* Every variable has its shape, a link has its deal and its record (as the
\* foreign keys of deal_links ask), and the process works on what it verified.
WireTypeOK ==
  /\ Shaped
  /\ \A d \in DealId : links[d] # NoRecord => Known(d) /\ links[d] \in records
  /\ registry \in [DealId -> RecordId \cup {NoRecord}]
  /\ \A slot \in Slots :
       stored[slot] # NoEntry =>
         /\ Slot(stored[slot].envelope) = slot
         /\ IsAnswer(stored[slot].answer)
  /\ process.at \in {"idle", "down", "put_record", "link",
                    "handle", "claim", "commit", "store"}
  /\ process.at \in {"handle", "claim", "commit", "store"} =>
       Verified(process.envelope)
  /\ \A e \in Envelope : \A a \in told[e] : IsAnswer(a)
  /\ faults \in 0..MaxFaults

\* The entries that stand in a chain because of an envelope.
EffectsOf(e) ==
  LET p == Content[e].proposal
      Caused(entry) ==
        IF Content[e].kind = "proposal"
        THEN entry.type = "policy_decision" /\ entry.proposal = p
        ELSE entry.type = "state_transition" /\ entry.cause = Content[e].message
  IN  Places(Caused)

\* However often an envelope arrives, and wherever the process died on it
\* before, what it asks for happens once, whoever's redelivery it is: one
\* proposal is decided under a key, once, and no event of the peers is applied
\* more often than a peer has signed it.
OneEffect ==
  /\ \A e \in Envelope : Cardinality(EffectsOf(e)) <= 1
  /\ \A e, f \in Envelope :
       /\ Content[e].kind = "proposal" /\ Content[f].kind = "proposal"
       /\ Content[e].key = Content[f].key
       /\ EffectsOf(e) # {} /\ EffectsOf(f) # {}
       => Content[e].proposal = Content[f].proposal
  /\ LET FromPeers(entry) == /\ entry.type = "state_transition"
                             /\ entry.cause \in CommandId \ ConsoleCommands
         Event(place) == events[place[1]][place[2]].event
         applied == Places(FromPeers)
         Signed(event) == {e \in Envelope :
                             /\ Verified(e)
                             /\ Content[e].kind = "counterparty_event"
                             /\ Content[e].event = event}
     IN  \A place \in applied :
           Cardinality({other \in applied : Event(other) = Event(place)})
             <= Cardinality(Signed(Event(place)))

\* The answers a sender has ever received for one envelope agree, over
\* redeliveries, lost responses, crashes and whatever the console did between
\* them; but for the refusal of a late envelope and the acknowledgement of a
\* receipt, which are not stored.
OneAnswer ==
  \A e \in Envelope :
    Content[e].kind # "receipt" => Cardinality(told[e] \ {StaleEnvelope}) <= 1

\* No other envelope carries the same proposal, or the same message identity.
OnlyCarrier(e) ==
  LET Carries(f) ==
        IF Content[e].kind = "proposal"
        THEN /\ Content[f].kind = "proposal"
             /\ Content[f].proposal = Content[e].proposal
        ELSE /\ Content[f].kind # "proposal"
             /\ Content[f].message = Content[e].message
  IN  /\ \A f \in Envelope : Carries(f) => f = e
      /\ Content[e].kind # "proposal" =>
           Content[e].message \notin ConsoleCommands

\* The console took the deal from a state with the event's transition to one
\* without it.
MovedAway(d, event) ==
  \E i \in DOMAIN events[d] :
    LET t == events[d][i] IN
    /\ t.type = "state_transition" /\ t.cause \in ConsoleCommands
    /\ TransitionFor(t.from, event) # NoState
    /\ TransitionFor(t.to, event) = NoState

\* An accepted proposal is on record: the decision its answer carries stands in
\* its deal's chain.  One allow does not, that of a deal which the console moved
\* out of the action's reach between the gateway's read and its commit.  An
\* accepted event stands in its deal's chain; but a message identity that was
\* used before is accepted as already applied, whatever it was used for.
AcceptedOnRecord ==
  \A e \in Envelope : \A a \in told[e] :
    a.status = "accepted" =>
      LET c == Content[e]
          Stands(Test(_)) ==
            \E place \in EffectsOf(e) :
              /\ place[1] = c.deal
              /\ Test(events[place[1]][place[2]])
          Decided(entry) == entry.decision = a.decision
          Applied(entry) == entry.event = c.event
      IN  IF c.kind = "proposal"
          THEN \/ Stands(Decided)
               \/ /\ a.decision = Allow
                  /\ MovedAway(c.deal, ActionEvents[c.proposal.action])
          ELSE OnlyCarrier(e) => Stands(Applied)

\* What was refused leaves no trace in any chain, now or later: a crash before
\* the stored answer never turns a refusal that was told into an effect.  Two
\* answers say nothing about an effect: that of a late or a displaced envelope,
\* which no handler gave, and "wrong_audience" for an event, which a gateway
\* that has not yet heard of the deal's mandate may have applied before.  And
\* what another envelope carries too, that one may have brought about.
RefusedLeavesNothing ==
  \A e \in Envelope : \A a \in told[e] \ {StaleEnvelope, Refused("hostile")} :
    /\ a.status = "refused"
    /\ OnlyCarrier(e)
    /\ Content[e].kind = "proposal" \/ a # Refused("wrong_audience")
    => EffectsOf(e) = {}

\* The registry in memory says what the ledger's links say, however far a
\* registration came before the process died, and a deal whose proposals the
\* gateway has once accepted stays actionable over every restart.
StillActionable ==
  process # Down =>
    /\ \A d \in DealId : registry[d] \in {NoRecord, links[d]}
    /\ \A e \in Envelope : \A a \in told[e] :
         Content[e].kind = "proposal" /\ a.status = "accepted" =>
           registry[DealOf(e)] # NoRecord

\* A revocation is overtaken by one request at most: a permission enters the
\* chain behind it only by the commit of the proposal that the process had built
\* its claim for when the record was revoked.
RevocationOvertakenOnce ==
  \A d \in DealId : \A i, j, k \in DOMAIN events[d] :
    /\ events[d][i].type = "revocation"
    /\ i < j /\ Permission(events[d][j])
    /\ i < k /\ Permission(events[d][k])
    => j = k

\* A sender that repeats its envelope is answered in the end, through crashes,
\* exceptions and lost responses.
EventuallyAnswered == <>(\A e \in Envelope : told[e] # {})

-----------------------------------------------------------------------------
\* _process_message: "a stale redelivery still gets its original outcome".  An
\* envelope with an effect is never answered as stale.
OriginalOutcome ==
  \A e \in Envelope :
    OnlyCarrier(e) /\ StaleEnvelope \in told[e] => EffectsOf(e) = {}
=============================================================================
