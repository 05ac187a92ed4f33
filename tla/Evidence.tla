------------------------------ MODULE Evidence ------------------------------
(***************************************************************************)
(* Evidence bundles (mandate.ledger.evidence, and the chain half of        *)
(* mandate.ledger.chain) over the PostgreSQL ledger: an export, run by     *)
(* scripts/export_evidence.py beside the calls of PostgresLedger, reads    *)
(* the deal's row, its events and the revocations in transactions of their *)
(* own, builds a signed bundle and verifies it; an auditor verifies what   *)
(* it is handed with a key it knows.                                       *)
(*                                                                         *)
(* A hash is the value that was hashed and a signature the key with the    *)
(* value that was signed, so that neither has a second preimage.  A key    *)
(* and its id are one; sequence numbers start at 1, not at 0.  Records     *)
(* never change once stored: an authority record is its id.                *)
(***************************************************************************)
EXTENDS PostgresLedger

CONSTANTS
  ChainKey,       \* the gateway's chain key, from its key file
  OtherKey,       \* any other key
  ExportedDeals   \* the deals that are exported

ASSUME EvidenceAssumption ==
  ChainKey # OtherKey /\ ExportedDeals \subseteq DealId

VARIABLE export   \* the export's progress and what it has read

evidenceVars == <<vars, export>>

Hash(value) == [hash |-> value]
Sign(key, value) == [key |-> key, signed |-> value]
GenesisHash == Hash([id |-> "genesis"])

-----------------------------------------------------------------------------
\* An event: its canonical form, hashed and signed.
Sealed(form, key) ==
  [form |-> form, event_hash |-> Hash(form), signature |-> Sign(key, form)]

BuildEvent(deal, id, seq, cites, previous, payload, key) ==
  Sealed([ deal |-> deal, id |-> id, seq |-> seq, cites |-> cites,
           previous |-> previous, payload_hash |-> Hash(payload),
           payload |-> payload ], key)

\* A faulty variant of Cites: a revocation names no record of its own.
CitesOfRequests(d, entry) ==
  IF entry.type # "revocation" /\ entry.cause \in RequestId THEN {Link[d]}
  ELSE {}

\* The record an entry names: none when the boundary reported it.
Cites(d, entry) ==
  IF entry.type = "revocation" THEN {entry.revocation.record}
  ELSE IF entry.cause \in RequestId THEN {Link[d]}
  ELSE {}

\* events_for: the deal's events by number, each as build_event made it when
\* its row was written on the head it names.
EventsFor(d, stored) ==
  LET event[seq \in 1..Cardinality(stored)] ==
        LET row == CHOOSE r \in stored : r.seq = seq
            previous == IF row.prev = Genesis THEN GenesisHash
                        ELSE event[row.prev.seq].event_hash
        IN  BuildEvent(d, row.by, seq, Cites(d, row.entry), previous,
                       row.entry, ChainKey)
  IN  event

Cited(events) == UNION {events[i].form.cites : i \in DOMAIN events}

-----------------------------------------------------------------------------
\* _verify_event, and the same checks in verify_chain.
VerifyEvent(index, event, previous, key) ==
  /\ event.form.payload_hash = Hash(event.form.payload)
  /\ event.event_hash = Hash(event.form)
  /\ event.signature = Sign(key, event.form)
  /\ event.form.seq = index
  /\ event.form.previous = previous

\* A chain link is checked against the last event that was in order.
VerifyChain(events, key) ==
  LET head[i \in 0..Len(events)] ==
        IF i = 0 THEN GenesisHash
        ELSE IF VerifyEvent(i, events[i], head[i - 1], key)
        THEN events[i].event_hash ELSE head[i - 1]
  IN  \A i \in 1..Len(events) : VerifyEvent(i, events[i], head[i - 1], key)

Summary(events, records, withdrawn) ==
  [ head |-> IF Len(events) = 0 THEN GenesisHash
             ELSE events[Len(events)].event_hash,
    event_count |-> Len(events), chain |-> Hash(events),
    records |-> Hash(records), revocations |-> Hash(withdrawn) ]

SummarySigningBytes(deal, key, summary) ==
  [deal |-> deal, key |-> key, verification |-> summary]

BuildBundle(deal, row, events, records, withdrawn, key) ==
  LET summary == Summary(events, records, withdrawn) IN
  [ deal |-> deal, row |-> row, events |-> events, records |-> records,
    revocations |-> withdrawn, gateway_public_key |-> key,
    verification |-> summary,
    summary_signature |->
      [ key_id |-> key,
        value |-> Sign(key, SummarySigningBytes(deal, key, summary)) ] ]

VerifySummarySignature(bundle, key) ==
  /\ bundle.summary_signature.key_id = bundle.gateway_public_key
  /\ bundle.summary_signature.value =
       Sign(key, SummarySigningBytes(bundle.deal, bundle.gateway_public_key,
                                     bundle.verification))

\* The deal section is compared with the last transition, if there is one.
DealStateAgrees(bundle) ==
  LedTo([i \in DOMAIN bundle.events |-> bundle.events[i].form.payload],
        bundle.row.state)

\* A faulty variant of VerifyingKey: the bundle brings its own.
VerifyingKeyOfBundle(bundle, expected_key) == bundle.gateway_public_key

\* Every signature is checked with the key the verifier already has.
VerifyingKey(bundle, expected_key) == expected_key

VerifyBundle(bundle, expected_key) ==
  LET key == VerifyingKey(bundle, expected_key) IN
  /\ bundle.gateway_public_key = key
  /\ VerifyChain(bundle.events, key)
  /\ bundle.verification =
       Summary(bundle.events, bundle.records, bundle.revocations)
  /\ VerifySummarySignature(bundle, key)
  /\ DealStateAgrees(bundle)

-----------------------------------------------------------------------------
NoExport ==
  [ at |-> "none", deal |-> "none", row |-> DraftDeal, since |-> 0,
    stored |-> {}, revocations |-> {}, verified |-> FALSE ]

\* What the script exports from what it has read.
Exported(e) ==
  LET events == EventsFor(e.deal, e.stored) IN
  BuildBundle(e.deal, e.row, events, Cited(events),
              {v \in e.revocations : v.record \in Cited(events)}, ChainKey)

EvidenceInit == Init /\ export = NoExport

\* The first read.  The script is another process, which writes no table.
ExportDeal(d) ==
  /\ export.at = "none"
  /\ export' = [export EXCEPT !.deal = d, !.row = deals[d],
                  !.since = Cardinality(rows[d]), !.at = "events"]
  /\ UNCHANGED vars

ExportEvents ==
  /\ export.at = "events"
  /\ export' = [export EXCEPT !.stored = rows[export.deal],
                  !.at = "revocations"]
  /\ UNCHANGED vars

\* The last read; the bundle is written, then verified, and the script's exit
\* code says whether it verified.
ExportRevocations ==
  LET read == [export EXCEPT !.revocations = revocations, !.at = "done"] IN
  /\ export.at = "revocations"
  /\ export' = [read EXCEPT !.verified = VerifyBundle(Exported(read), ChainKey)]
  /\ UNCHANGED vars

EvidenceNext ==
  \/ Next /\ UNCHANGED export
  \/ \E d \in ExportedDeals : ExportDeal(d)
  \/ ExportEvents
  \/ ExportRevocations

EvidenceSpec == EvidenceInit /\ [][EvidenceNext]_evidenceVars /\ Fairness

-----------------------------------------------------------------------------
\* A call committed on the deal between the read of its row and its events.
Torn == Cardinality(export.stored) # export.since

\* An export beside running calls names every revocation its chain records,
\* and it verifies unless a call came between its reads or the deal's row had
\* been rewritten from an outdated copy.
ExportFaithful ==
  export.at = "done" =>
    /\ ~ Torn /\ export.deal \notin overtaken => export.verified
    /\ LET chain == ChainOf(export.stored) IN
       \A i \in DOMAIN chain :
         chain[i].type = "revocation" =>
           chain[i].revocation \in Exported(export).revocations

\* A chain put together anew from the events' contents, under another key.
Rebuilt(events, key) ==
  LET remade[i \in DOMAIN events] ==
        LET form == events[i].form IN
        BuildEvent(form.deal, form.id, i, form.cites,
                   IF i = 1 THEN GenesisHash ELSE remade[i - 1].event_hash,
                   form.payload, key)
  IN  remade

\* An event list with an event missing, out of place or changed, its hashes
\* left alone or made to fit, or without its tail.
AlteredEvents(events) ==
  LET n == Len(events)
      Edited(i) == [events[i].form EXCEPT
                      !.payload = MessageEntry("edited"),
                      !.payload_hash = Hash(MessageEntry("edited"))]
  IN  {RemoveAt(events, i) : i \in 1..n}
      \cup {SubSeq(events, 1, i) : i \in 0..n}
      \cup {[events EXCEPT ![i] = events[i + 1], ![i + 1] = events[i]]
            : i \in 1..(n - 1)}
      \cup {[events EXCEPT ![i].form = Edited(i)] : i \in 1..n}
      \cup {[events EXCEPT ![i].form = Edited(i),
               ![i].event_hash = Hash(Edited(i))] : i \in 1..n}

\* A bundle with other contents, its summary left alone or made to fit, or
\* signed anew with another key, under that key's name or the gateway's.
Altered(bundle) ==
  LET lists == AlteredEvents(bundle.events)
      changed ==
        {[bundle EXCEPT !.events = events] : events \in lists}
        \cup {[bundle EXCEPT !.deal = d] : d \in DealId}
        \cup {[bundle EXCEPT !.records = set] : set \in SUBSET RecordId}
        \cup {[bundle EXCEPT !.revocations = {}],
              [bundle EXCEPT !.revocations =
                 {[record |-> r, revoked_at |-> 0] : r \in RecordId}]}
      resigned ==
        {BuildBundle(bundle.deal, bundle.row, Rebuilt(events, OtherKey),
                     bundle.records, bundle.revocations, OtherKey)
         : events \in lists}
  IN  changed
      \cup {[b EXCEPT !.verification =
               Summary(b.events, b.records, b.revocations)] : b \in changed}
      \cup resigned
      \cup {[b EXCEPT !.gateway_public_key = ChainKey] : b \in resigned}

Contents(bundle) ==
  <<bundle.deal, bundle.events, bundle.records, bundle.revocations>>

Quiescent == \A s \in Session : tx[s].at \in {"idle", "done"}

\* A bundle with an event removed, reordered, changed or cut off, with other
\* records or revocations, or put together under another key verifies only
\* when nothing in it is different.  (The counters and the times of the deal
\* section are bound by no check and are not part of the claim.)
AlteredBundlesFail ==
  export.at = "done" /\ Quiescent =>
    LET bundle == Exported(export) IN
    \A altered \in Altered(bundle) :
      VerifyBundle(altered, ChainKey) => Contents(altered) = Contents(bundle)
=============================================================================
