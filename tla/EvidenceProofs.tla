--------------------------- MODULE EvidenceProofs ---------------------------
(***************************************************************************)
(* Proofs about Evidence, for any databases, sessions and calls beside the *)
(* export and for any key: what an export verifies, and what an altered    *)
(* bundle cannot.                                                          *)
(***************************************************************************)
EXTENDS Evidence, PostgresLedgerProofs

-----------------------------------------------------------------------------
(* Signed bundles.                                                         *)

\* A bundle whose summary is that of its contents and signed with a key.
Bound(bundle, key) ==
  /\ bundle.verification =
       Summary(bundle.events, bundle.records, bundle.revocations)
  /\ VerifySummarySignature(bundle, key)

\* What verifies is bound to the key the verifier has.
LEMMA VerifiedIsBound ==
  ASSUME NEW b, NEW key, VerifyBundle(b, key)
  PROVE  Bound(b, key) /\ b.gateway_public_key = key
BY DEF VerifyBundle, VerifyingKey, Bound

\* What a signed summary binds: two bundles under one signature have the same
\* contents.
LEMMA SignatureBinds ==
  ASSUME NEW one, NEW other, NEW key, Bound(one, key), Bound(other, key),
         one.summary_signature.value = other.summary_signature.value
  PROVE  Contents(one) = Contents(other)
<1> DEFINE Signed(b) ==
             SummarySigningBytes(b.deal, b.gateway_public_key, b.verification)
           Sums(b) == Summary(b.events, b.records, b.revocations)
<1>1. /\ one.summary_signature.value = Sign(key, Signed(one))
      /\ other.summary_signature.value = Sign(key, Signed(other))
      /\ one.verification = Sums(one) /\ other.verification = Sums(other)
  BY DEF Bound, VerifySummarySignature
<1>2. Signed(one) = Signed(other)
  <2>1. Sign(key, Signed(one)) = Sign(key, Signed(other))
    BY <1>1
  <2>2. \A value : Sign(key, value).signed = value
    BY DEF Sign
  <2> HIDE DEF Signed
  <2> QED
    BY <2>1, <2>2
<1>3. one.deal = other.deal /\ one.verification = other.verification
  <2>1. \A b : /\ Signed(b).deal = b.deal
               /\ Signed(b).verification = b.verification
    BY DEF SummarySigningBytes
  <2> HIDE DEF Signed
  <2> QED
    BY <1>2, <2>1
<1>4. /\ one.events = other.events /\ one.records = other.records
      /\ one.revocations = other.revocations
  <2>1. Sums(one) = Sums(other)
    BY <1>1, <1>3
  <2>2. \A b : /\ Sums(b).chain.hash = b.events
               /\ Sums(b).records.hash = b.records
               /\ Sums(b).revocations.hash = b.revocations
    BY DEF Summary, Hash
  <2> HIDE DEF Sums
  <2> QED
    BY <2>1, <2>2
<1> QED
  BY <1>3, <1>4 DEF Contents

\* What is always true of what the script exports, whatever it has read.
LEMMA ExportedSigned ==
  ASSUME NEW e
  PROVE  LET b == Exported(e) IN
         /\ DOMAIN b = { "deal", "row", "events", "records", "revocations",
                         "gateway_public_key", "verification",
                         "summary_signature" }
         /\ b.gateway_public_key = ChainKey
         /\ b.verification = Summary(b.events, b.records, b.revocations)
         /\ VerifySummarySignature(b, ChainKey)
BY DEF Exported, BuildBundle, VerifySummarySignature

\* A bundle put together under a key names that key.
LEMMA ResignedNames ==
  ASSUME NEW deal, NEW row, NEW events, NEW records, NEW withdrawn, NEW key
  PROVE  LET b == BuildBundle(deal, row, events, records, withdrawn, key) IN
         /\ b.gateway_public_key = key
         /\ [b EXCEPT !.gateway_public_key = ChainKey].summary_signature.key_id
              = key
         /\ [b EXCEPT !.gateway_public_key = ChainKey].gateway_public_key
              = ChainKey
BY DEF BuildBundle

\* A bundle signed anew with another key does not verify, whichever of the two
\* keys it names.
LEMMA ResignedFails ==
  ASSUME NEW deal, NEW row, NEW events, NEW records, NEW withdrawn
  PROVE  LET b == BuildBundle(deal, row, events, records, withdrawn, OtherKey)
         IN  /\ ~ VerifyBundle(b, ChainKey)
             /\ ~ VerifyBundle([b EXCEPT !.gateway_public_key = ChainKey],
                               ChainKey)
<1> DEFINE b == BuildBundle(deal, row, events, records, withdrawn, OtherKey)
           renamed == [b EXCEPT !.gateway_public_key = ChainKey]
<1>1. /\ b.gateway_public_key = OtherKey
      /\ renamed.summary_signature.key_id = OtherKey
      /\ renamed.gateway_public_key = ChainKey
  BY ResignedNames
<1> HIDE DEF b, renamed
<1>2. ~ VerifyBundle(b, ChainKey)
  BY <1>1, EvidenceAssumption DEF VerifyBundle, VerifyingKey
<1>3. ~ VerifyBundle(renamed, ChainKey)
  BY <1>1, EvidenceAssumption
     DEF VerifyBundle, VerifyingKey, VerifySummarySignature
<1> QED
  BY <1>2, <1>3 DEF b, renamed

\* The bundles with other contents under the summary's own signature.
KeepsSignature(altered, bundle) ==
  altered.summary_signature = bundle.summary_signature

\* A changed bundle keeps the signature, also when its summary is made to fit.
LEMMA ChangedKeeps ==
  ASSUME NEW bundle,
         DOMAIN bundle = { "deal", "row", "events", "records", "revocations",
                           "gateway_public_key", "verification",
                           "summary_signature" },
         NEW x
  PROVE  /\ KeepsSignature([bundle EXCEPT !.events = x], bundle)
         /\ KeepsSignature([bundle EXCEPT !.deal = x], bundle)
         /\ KeepsSignature([bundle EXCEPT !.records = x], bundle)
         /\ KeepsSignature([bundle EXCEPT !.revocations = x], bundle)
         /\ KeepsSignature([bundle EXCEPT !.verification = x], bundle)
         /\ DOMAIN [bundle EXCEPT !.events = x] = DOMAIN bundle
         /\ DOMAIN [bundle EXCEPT !.deal = x] = DOMAIN bundle
         /\ DOMAIN [bundle EXCEPT !.records = x] = DOMAIN bundle
         /\ DOMAIN [bundle EXCEPT !.revocations = x] = DOMAIN bundle
BY DEF KeepsSignature

\* A bundle that was altered keeps the signature or was signed anew.
LEMMA AlteredIs ==
  ASSUME NEW bundle,
         DOMAIN bundle = { "deal", "row", "events", "records", "revocations",
                           "gateway_public_key", "verification",
                           "summary_signature" },
         NEW altered \in Altered(bundle)
  PROVE  \/ KeepsSignature(altered, bundle)
         \/ \E events :
              LET b == BuildBundle(bundle.deal, bundle.row, events,
                         bundle.records, bundle.revocations, OtherKey)
              IN  altered \in {b, [b EXCEPT !.gateway_public_key = ChainKey]}
<1> DEFINE lists == AlteredEvents(bundle.events)
           changed ==
             {[bundle EXCEPT !.events = events] : events \in lists}
             \cup {[bundle EXCEPT !.deal = d] : d \in DealId}
             \cup {[bundle EXCEPT !.records = set] : set \in SUBSET RecordId}
             \cup {[bundle EXCEPT !.revocations = {}],
                   [bundle EXCEPT !.revocations =
                      {[record |-> r, revoked_at |-> 0] : r \in RecordId}]}
           Signed(events) ==
             BuildBundle(bundle.deal, bundle.row, events, bundle.records,
                         bundle.revocations, OtherKey)
           resigned == {Signed(Rebuilt(events, OtherKey)) : events \in lists}
<1>1. \/ altered \in changed
      \/ \E b \in changed :
           altered = [b EXCEPT !.verification =
                        Summary(b.events, b.records, b.revocations)]
      \/ altered \in resigned
      \/ \E b \in resigned :
           altered = [b EXCEPT !.gateway_public_key = ChainKey]
  <2> HIDE DEF Signed
  <2>1. Altered(bundle) =
          changed
          \cup {[b EXCEPT !.verification =
                   Summary(b.events, b.records, b.revocations)] : b \in changed}
          \cup resigned
          \cup {[b EXCEPT !.gateway_public_key = ChainKey] : b \in resigned}
    BY DEF Altered, Signed
  <2> HIDE DEF changed, resigned
  <2> QED
    BY <2>1
<1>2. ASSUME NEW b \in changed
      PROVE  KeepsSignature(b, bundle) /\ DOMAIN b = DOMAIN bundle
  <2>1. \E x : \/ b = [bundle EXCEPT !.events = x]
               \/ b = [bundle EXCEPT !.deal = x]
               \/ b = [bundle EXCEPT !.records = x]
               \/ b = [bundle EXCEPT !.revocations = x]
    <3> HIDE DEF lists
    <3> QED
      OBVIOUS
  <2> HIDE DEF changed
  <2>2. PICK x : \/ b = [bundle EXCEPT !.events = x]
                 \/ b = [bundle EXCEPT !.deal = x]
                 \/ b = [bundle EXCEPT !.records = x]
                 \/ b = [bundle EXCEPT !.revocations = x]
    BY <2>1
  <2>3. CASE b = [bundle EXCEPT !.events = x]
    BY <2>3, ChangedKeeps
  <2>4. CASE b = [bundle EXCEPT !.deal = x]
    BY <2>4, ChangedKeeps
  <2>5. CASE b = [bundle EXCEPT !.records = x]
    BY <2>5, ChangedKeeps
  <2>6. CASE b = [bundle EXCEPT !.revocations = x]
    BY <2>6, ChangedKeeps
  <2> QED
    BY <2>2, <2>3, <2>4, <2>5, <2>6
<1>3. ASSUME NEW b \in resigned PROVE \E events : b = Signed(events)
  <2> HIDE DEF lists, Signed
  <2> QED
    OBVIOUS
<1> HIDE DEF changed, resigned
<1>4. ASSUME NEW b \in changed, NEW x
      PROVE  KeepsSignature([b EXCEPT !.verification = x], bundle)
  <2>1. KeepsSignature([b EXCEPT !.verification = x], b)
    BY <1>2, ChangedKeeps
  <2> QED
    BY <1>2, <2>1 DEF KeepsSignature
<1> HIDE DEF Signed
<1>5. \/ KeepsSignature(altered, bundle)
      \/ \E events :
           altered \in {Signed(events),
                        [Signed(events) EXCEPT !.gateway_public_key = ChainKey]}
  BY <1>1, <1>2, <1>3, <1>4
<1> QED
  BY <1>5 DEF Signed

\* So no altered bundle verifies with other contents, in any state and for
\* whatever has been exported.
LEMMA AlteredFails == AlteredBundlesFail
<1> SUFFICES ASSUME NEW altered \in Altered(Exported(export)),
                    VerifyBundle(altered, ChainKey)
             PROVE  Contents(altered) = Contents(Exported(export))
  BY DEF AlteredBundlesFail
<1> DEFINE bundle == Exported(export)
<1>1. /\ DOMAIN bundle = { "deal", "row", "events", "records", "revocations",
                           "gateway_public_key", "verification",
                           "summary_signature" }
      /\ Bound(bundle, ChainKey)
  BY ExportedSigned DEF Bound
<1> HIDE DEF bundle
<1>2. \/ KeepsSignature(altered, bundle)
      \/ \E events :
           LET b == BuildBundle(bundle.deal, bundle.row, events,
                      bundle.records, bundle.revocations, OtherKey)
           IN  altered \in {b, [b EXCEPT !.gateway_public_key = ChainKey]}
  BY <1>1, AlteredIs DEF bundle
<1>3. KeepsSignature(altered, bundle)
  <2> SUFFICES ASSUME NEW events,
                      LET b == BuildBundle(bundle.deal, bundle.row, events,
                                 bundle.records, bundle.revocations, OtherKey)
                      IN  altered \in
                            {b, [b EXCEPT !.gateway_public_key = ChainKey]}
               PROVE  FALSE
    BY <1>2
  <2> DEFINE b == BuildBundle(bundle.deal, bundle.row, events, bundle.records,
                              bundle.revocations, OtherKey)
             renamed == [b EXCEPT !.gateway_public_key = ChainKey]
  <2>1. altered = b \/ altered = renamed
    OBVIOUS
  <2>2. ~ VerifyBundle(b, ChainKey) /\ ~ VerifyBundle(renamed, ChainKey)
    BY ResignedFails
  <2> HIDE DEF b, renamed
  <2> QED
    BY <2>1, <2>2
<1>4. Bound(altered, ChainKey)
  BY VerifiedIsBound
<1>5. Contents(altered) = Contents(bundle)
  BY <1>1, <1>3, <1>4, SignatureBinds DEF KeepsSignature
<1> QED
  BY <1>5 DEF bundle

-----------------------------------------------------------------------------
(* The chains that are exported.                                           *)

\* The last transition of a chain led to the state of the deal's row, unless
\* the row was overtaken, and a revocation on a chain is a stored one.
Led == \A d \in DealId \ overtaken : LedTo(ChainOf(rows[d]), deals[d].state)
Withdrawals(stored, withdrawn) ==
  \A row \in stored :
    row.entry.type = "revocation" => row.entry.revocation \in withdrawn
Withdrawn == \A d \in DealId : Withdrawals(rows[d], revocations)

\* What a plan's entries do to the deal's state and to mandates.
LEMMA PlanLeads ==
  ASSUME Shape, NEW s \in Session, tx[s].at = "write"
  PROVE  /\ Job(s).kind # "revocation" =>
              /\ NoRevocation(Plan(s).events)
              /\ Leads(Plan(s).events, tx[s].deal.state, Plan(s).deal.state)
         /\ ~ WritesDeal(s) => \A i \in DOMAIN Plan(s).events :
                                 Plan(s).events[i].type # "state_transition"
         /\ Job(s).kind = "revocation" =>
              /\ ~ WritesDeal(s)
              /\ \A i \in DOMAIN Plan(s).events :
                   Plan(s).events[i].revocation
                     = [record |-> Record(s), revoked_at |-> tx[s].now]
<1>1. /\ JobOK(Job(s)) /\ tx[s] \in CallType
      /\ tx[s].deal \in DealRow
  BY UnderWay, DealRowTypes DEF CallType, CallOK
<1>2. CASE Job(s).kind = "proposal"
  <2> DEFINE p == Job(s).proposal
             decision == tx[s].decision
             event == PlannedEvent(p, decision)
  <2>1. Plan(s) = PlanCommitRequest(tx[s].deal, Job(s).request, p, Record(s),
                                    decision)
    BY <1>2 DEF Plan
  <2>2. /\ Leads(Plan(s).events, tx[s].deal.state, Plan(s).deal.state)
        /\ NoRevocation(Plan(s).events)
    BY <1>1, <2>1, RequestLeads
  <2>3. ASSUME ~ WritesDeal(s), NEW i \in DOMAIN Plan(s).events
        PROVE  Plan(s).events[i].type # "state_transition"
    <3>1. event = NoEvent /\ decision.outcome # "needs_approval"
      BY <1>2, <2>3 DEF WritesDeal, EventOf
    <3>2. PICK at \in {1, 2} :
            RequestEntries(Plan(s).events, Job(s).request, p, decision, event,
                           Plan(s).deal, tx[s].deal, at)
      BY <2>1, PlanEntries
    <3> HIDE DEF p, decision, event
    <3>3. /\ DOMAIN Plan(s).events = 1..at
          /\ Plan(s).events[at] = DecisionEntry(Job(s).request, p, decision)
          /\ at = 2 => Plan(s).events[1] = MessageEntry(Job(s).request)
      BY <3>1, <3>2 DEF RequestEntries
    <3>4. i = at \/ (at = 2 /\ i = 1)
      BY <2>3, <3>3
    <3> QED
      BY <3>3, <3>4, OtherEntriesSay
  <2> QED
    BY <1>2, <2>2, <2>3
<1>3. CASE Job(s).kind = "event"
  <2>1. Plan(s) = PlanCommitTransition(tx[s].deal, Job(s).command,
                                       Job(s).event, FALSE)
    BY <1>3 DEF Plan
  <2>2. WritesDeal(s)
    BY <1>3 DEF WritesDeal
  <2> QED
    BY <1>3, <2>1, <2>2, TransitionLeads
<1>4. CASE Job(s).kind = "decision"
  <2>1. Plan(s) = PlanCommitApproval(tx[s].deal, Job(s).request,
                    tx[s].approval, Job(s).operation, tx[s].status = "active")
    BY <1>4 DEF Plan
  <2>2. WritesDeal(s)
    BY <1>4 DEF WritesDeal
  <2> QED
    BY <1>1, <1>4, <2>1, <2>2, ApprovalLeads
<1>5. CASE Job(s).kind = "revocation"
  <2> DEFINE v == [record |-> Record(s), revoked_at |-> tx[s].now]
             entry == RevocationEntry(v)
  <2>1. Plan(s).events = <<entry>> /\ ~ WritesDeal(s)
    BY <1>5 DEF Plan, WritesDeal
  <2> HIDE DEF v
  <2>2. entry.type = "revocation" /\ entry.revocation = v
    BY OtherEntriesSay
  <2> HIDE DEF entry
  <2>3. \A i \in DOMAIN Plan(s).events : Plan(s).events[i] = entry
    BY <2>1
  <2> QED
    BY <1>5, <2>1, <2>2, <2>3 DEF v
<1> QED
  BY <1>1, <1>2, <1>3, <1>4, <1>5 DEF JobOK

\* A commit leads its deal's chain where it leads the row, ...
LEMMA CommitLed ==
  ASSUME Shape, Chained, Copies, Led, Chained',
         NEW s \in Session, Commits(s), Recorded(s)
  PROVE  Led'
<1> SUFFICES ASSUME NEW e \in DealId \ overtaken'
             PROVE  LedTo(ChainOf(rows'[e]), deals'[e].state)
  BY DEF Led
<1>1. /\ e \notin overtaken
      /\ e = Job(s).deal => ~ (WritesDeal(s) /\ s \in outdated)
  BY DEF Recorded
<1>2. LedTo(ChainOf(rows[e]), deals[e].state)
  BY <1>1 DEF Led
<1>3. CASE e # Job(s).deal
  <2>1. rows'[e] = rows[e]
    BY <1>3, RowsAppended
  <2>2. deals'[e] = deals[e]
    BY <1>3 DEF Commits, Shape, Tables
  <2> QED
    BY <1>2, <2>1, <2>2
<1>4. CASE e = Job(s).deal
  <2> DEFINE tail == Plan(s).events
  <2>1. tx[s].at = "write" /\ tx[s].at \in Holding
    BY DEF Commits, Holding
  <2>2. PICK k \in Nat \ {0} : DOMAIN tail = 1..k
    BY <2>1, PlanFits DEF Fits
  <2>3. Extends(ChainOf(rows'[e]), ChainOf(rows[e]), tail, k)
    BY <1>4, <2>2, ChainExtended
  <2>4. /\ DOMAIN ChainOf(rows[e]) = 1..Len(ChainOf(rows[e]))
        /\ DOMAIN ChainOf(rows'[e]) = 1..Len(ChainOf(rows'[e]))
    <3>1. PICK n \in Nat : NumberedTo(rows[e], n)
      BY DEF Chained, Numbered
    <3>2. PICK m \in Nat : NumberedTo(rows'[e], m)
      BY DEF Chained, Numbered, NumberedTo
    <3> QED
      BY <3>1, <3>2, ChainOfIs
  <2>5. Leads(tail, deals[e].state, deals'[e].state)
    <3>1. deals'[e] = IF WritesDeal(s) THEN Plan(s).deal ELSE deals[e]
      BY <1>4 DEF Commits, Shape, Tables
    <3>2. CASE WritesDeal(s)
      <4>1. tx[s].deal = deals[e]
        BY <1>1, <1>4, <2>1, <3>2 DEF Copies, Fresh
      <4> QED
        BY <2>1, <3>1, <3>2, <4>1, PlanLeads
    <3>3. CASE ~ WritesDeal(s)
      BY <2>1, <3>1, <3>3, PlanLeads DEF Leads
    <3> QED
      BY <3>2, <3>3
  <2> HIDE DEF tail
  <2> QED
    BY <1>2, <2>2, <2>3, <2>4, <2>5, LedOn
<1> QED
  BY <1>3, <1>4

\* ... and records the revocations that it writes.
LEMMA CommitWithdrawn ==
  ASSUME Shape, Withdrawn, NEW s \in Session, Commits(s)
  PROVE  Withdrawn'
<1> SUFFICES ASSUME NEW d \in DealId, NEW row \in rows'[d],
                    row.entry.type = "revocation"
             PROVE  row.entry.revocation \in revocations'
  BY DEF Withdrawn, Withdrawals
<1>1. revocations \subseteq revocations'
  BY DEF Commits, RevocationsAfter
<1>2. CASE row \in rows[d]
  BY <1>1, <1>2 DEF Withdrawn, Withdrawals
<1>3. CASE row \notin rows[d]
  <2>1. PICK i \in DOMAIN Plan(s).events : row.entry = Plan(s).events[i]
    <3>1. PICK k \in Nat : DOMAIN Plan(s).events = 1..k
      BY PlanFits DEF Fits, Commits
    <3>2. rows'[d] \subseteq rows[d] \cup {NewRow(s, j) : j \in 1..k}
      BY <3>1, RowsAppended
    <3>3. PICK j \in 1..k : row = NewRow(s, j)
      BY <1>3, <3>2
    <3> QED
      BY <3>1, <3>3 DEF NewRow
  <2>2. Job(s).kind = "revocation"
    BY <2>1, PlanLeads DEF Commits, NoRevocation
  <2>3. row.entry.revocation = [record |-> Record(s), revoked_at |-> tx[s].now]
    BY <2>1, <2>2, PlanLeads DEF Commits
  <2> QED
    BY <2>2, <2>3 DEF Commits, RevocationsAfter
<1> QED
  BY <1>2, <1>3

\* The first chains are what earlier calls left.
LEMMA LedInit == Init => Led /\ Withdrawn
<1> SUFFICES ASSUME Init PROVE Led /\ Withdrawn
  OBVIOUS
<1>1. PICK db \in Databases :
        /\ deals = db.deals
        /\ rows = [d \in DealId |->
             {[ seq |-> i, by |-> "before", entry |-> db.chains[d][i],
                cause |-> "before",
                prev |-> IF i = 1 THEN Genesis
                         ELSE [seq |-> i - 1, by |-> "before"] ]
              : i \in DOMAIN db.chains[d]}]
        /\ revocations = db.revocations
  BY DEF Init
<1> DEFINE Stored(d, i) ==
             [ seq |-> i, by |-> "before", entry |-> db.chains[d][i],
               cause |-> "before",
               prev |-> IF i = 1 THEN Genesis
                        ELSE [seq |-> i - 1, by |-> "before"] ]
<1>2. ASSUME NEW d \in DealId
      PROVE  /\ \A row \in rows[d] : \E i \in DOMAIN db.chains[d] :
                  row = Stored(d, i)
             /\ \A i \in DOMAIN db.chains[d] : Stored(d, i) \in rows[d]
  BY <1>1
<1>3. \A d \in DealId : \A i :
        Stored(d, i).seq = i /\ Stored(d, i).entry = db.chains[d][i]
  OBVIOUS
<1> HIDE DEF Stored
<1>4. Withdrawn
  <2> SUFFICES ASSUME NEW d \in DealId, NEW row \in rows[d],
                      row.entry.type = "revocation"
               PROVE  row.entry.revocation \in revocations
    BY DEF Withdrawn, Withdrawals
  <2>1. PICK i \in DOMAIN db.chains[d] : row = Stored(d, i)
    BY <1>2
  <2>2. row.entry = db.chains[d][i]
    BY <1>3, <2>1
  <2> QED
    BY <1>1, <2>1, <2>2, DatabasesAgree
<1>5. Led
  <2> SUFFICES ASSUME NEW d \in DealId
               PROVE  LedTo(ChainOf(rows[d]), deals[d].state)
    BY DEF Led
  <2> DEFINE chain == db.chains[d]
             n == Len(chain)
             read == ChainOf(rows[d])
  <2>1. n \in Nat /\ DOMAIN chain = 1..n
    BY DatabasesAssumption
  <2>2. PICK m \in Nat : NumberedTo(rows[d], m)
    BY ChainedInit DEF Chained, Numbered
  <2>3. \A i \in 1..n : \E row \in rows[d] : row.seq = i /\ row.entry = chain[i]
    BY <1>2, <1>3, <2>1
  <2>4. DOMAIN read = 1..m /\ \A i \in 1..n : i \in 1..m /\ read[i] = chain[i]
    BY <2>2, <2>3, ChainOfIs
  <2>5. \A i \in 1..m : i \in 1..n
    <3> SUFFICES ASSUME NEW i \in 1..m PROVE i \in 1..n
      OBVIOUS
    <3>1. PICK row \in rows[d] : row.seq = i
      BY <2>2 DEF NumberedTo
    <3>2. PICK j \in 1..n : row = Stored(d, j)
      BY <1>2, <2>1
    <3> QED
      BY <1>3, <3>1, <3>2
  <2>6. LedTo(chain, deals[d].state)
    BY <1>1, DatabasesAgree
  <2> HIDE DEF chain, n, read
  <2>7. DOMAIN read = DOMAIN chain /\ \A i \in DOMAIN chain : read[i] = chain[i]
    BY <2>1, <2>4, <2>5
  <2>8. LedTo(read, deals[d].state)
    BY <2>6, <2>7 DEF LedTo
  <2> QED
    BY <2>8 DEF read
<1> QED
  BY <1>4, <1>5

\* The chains say where their deals are and what was withdrawn, throughout.
LEMMA LedHolds == Spec => [](Led /\ Withdrawn)
<1>1. /\ Shape /\ Chained /\ Claimed /\ Retried
      /\ Copies /\ RowsAgreeUnlessOvertaken
      /\ Led /\ Withdrawn /\ [Next]_vars
      => (Led /\ Withdrawn)'
  <2> SUFFICES ASSUME Shape, Chained, Copies, Led, Withdrawn, [Next]_vars
               PROVE  Led' /\ Withdrawn'
    OBVIOUS
  <2>1. Movement
    BY StepMovement DEF Chained
  <2>2. Chained'
    BY <2>1, MovementIsEffect, ChainedStep
  <2>3. ASSUME NEW s \in Session, Quiet(s) PROVE Led' /\ Withdrawn'
    <3>1. /\ deals' = deals /\ rows' = rows /\ overtaken' = overtaken
          /\ revocations' = revocations
      BY <2>3, RowsKept
         DEF Quiet, history, Starts, Reads, Wins, Loses, Fails, tables
    <3> QED
      BY <3>1 DEF Led, Withdrawn
  <2>4. CASE UNCHANGED vars
    BY <2>4 DEF vars, tables, history, Led, Withdrawn
  <2> QED
    BY <2>1, <2>2, <2>3, <2>4, CommitLed, CommitWithdrawn DEF Movement
<1> QED
  BY <1>1, LedInit, ClaimedHolds, AgreementHolds, PTL DEF Spec

-----------------------------------------------------------------------------
(* The events of a chain.                                                  *)

\* Rows that are one whole chain of n rows.
Whole(stored, n) ==
  /\ NumberedTo(stored, n)
  /\ \A row \in stored :
       \/ row.seq = 1 /\ row.prev = Genesis
       \/ \E before \in stored :
            before.seq = row.seq - 1 /\ row.prev = RowId(before)

\* The row of a number, and the event made of it when the events before it are
\* those of made.
RowAt(stored, i) == CHOOSE row \in stored : row.seq = i
EventAt(d, stored, made, i) ==
  LET row == RowAt(stored, i)
      previous == IF row.prev = Genesis THEN GenesisHash
                  ELSE made[row.prev.seq].event_hash
  IN  BuildEvent(d, row.by, i, Cites(d, row.entry), previous, row.entry,
                 ChainKey)
EventSteps(d, stored, k, made) ==
  made = [i \in 1..k |-> EventAt(d, stored, made, i)]

\* A row of a whole chain names the row before it.
LEMMA RowBefore ==
  ASSUME NEW stored, NEW n \in Nat, Whole(stored, n), NEW i \in 1..n
  PROVE  /\ RowAt(stored, i) \in stored /\ RowAt(stored, i).seq = i
         /\ i = 1 => RowAt(stored, i).prev = Genesis
         /\ i # 1 => /\ RowAt(stored, i).prev # Genesis
                     /\ RowAt(stored, i).prev.seq = i - 1
<1> DEFINE row == RowAt(stored, i)
<1>1. row \in stored /\ row.seq = i
  <2>1. \E r \in stored : r.seq = i
    BY DEF Whole, NumberedTo
  <2> QED
    BY <2>1 DEF RowAt
<1> HIDE DEF row
<1>2. \/ row.seq = 1 /\ row.prev = Genesis
      \/ \E before \in stored :
           before.seq = row.seq - 1 /\ row.prev = RowId(before)
  BY <1>1 DEF Whole
<1>3. ASSUME NEW before \in stored, before.seq = i - 1, row.prev = RowId(before)
      PROVE  i # 1 /\ row.prev # Genesis /\ row.prev.seq = i - 1
  <2>1. before.seq \in 1..n
    BY DEF Whole, NumberedTo
  <2>2. i - 1 # 0
    BY <1>3, <2>1
  <2>3. row.prev.seq = i - 1
    BY <1>3 DEF RowId
  <2> QED
    BY <2>2, <2>3 DEF Genesis
<1> QED
  BY <1>1, <1>2, <1>3 DEF row

\* The events of the first k rows exist, ...
LEMMA EventStepsExist ==
  ASSUME NEW d, NEW stored, NEW n \in Nat, Whole(stored, n)
  PROVE  \E made : EventSteps(d, stored, n, made)
<1> DEFINE Lacking == {k \in 0..n : ~ \E made : EventSteps(d, stored, k, made)}
<1> SUFFICES ASSUME Lacking # {} PROVE FALSE
  <2>1. n \in 0..n
    OBVIOUS
  <2> QED
    BY <2>1
<1>1. PICK k \in Lacking : \A j \in Lacking : k <= j
  <2> Lacking \in SUBSET Nat
    OBVIOUS
  <2> HIDE DEF Lacking
  <2> QED
    BY LeastNat
<1>2. k # 0
  <2> DEFINE none == [i \in 1..0 |-> EventAt(d, stored, <<>>, i)]
  <2>1. none = [i \in 1..0 |-> EventAt(d, stored, none, i)]
    OBVIOUS
  <2> HIDE DEF none
  <2>2. EventSteps(d, stored, 0, none)
    BY <2>1 DEF EventSteps
  <2> QED
    BY <2>2
<1> DEFINE j == k - 1
<1>3. j \in 0..n /\ j \notin Lacking /\ k \in 1..n /\ j + 1 = k
  BY <1>1, <1>2
<1>4. PICK made : EventSteps(d, stored, j, made)
  BY <1>3
<1> HIDE DEF Lacking, j
<1> DEFINE longer == [i \in 1..k |-> EventAt(d, stored, made, i)]
<1>5. \A i \in 1..j : made[i] = EventAt(d, stored, made, i)
  BY <1>4 DEF EventSteps
<1>6. \A i \in 1..j : i \in 1..k /\ longer[i] = made[i]
  <2>1. \A i \in 1..j : i \in 1..k
    BY <1>3
  <2> HIDE DEF longer
  <2>2. \A i \in 1..k : longer[i] = EventAt(d, stored, made, i)
    BY DEF longer
  <2> QED
    BY <1>5, <2>1, <2>2
<1> HIDE DEF longer
<1>7. \A i \in 1..k : EventAt(d, stored, made, i) = EventAt(d, stored, longer, i)
  <2> SUFFICES ASSUME NEW i \in 1..k
               PROVE  EventAt(d, stored, made, i) = EventAt(d, stored, longer, i)
    OBVIOUS
  <2>1. i \in 1..n
    BY <1>3
  <2>2. CASE i = 1
    BY <2>1, <2>2, RowBefore DEF EventAt
  <2>3. CASE i # 1
    <3> DEFINE m == i - 1
    <3>1. m \in 1..j
      BY <1>3, <2>3
    <3>2. RowAt(stored, i).prev.seq = m
      BY <2>1, <2>3, RowBefore
    <3> HIDE DEF m
    <3>3. made[RowAt(stored, i).prev.seq] = longer[RowAt(stored, i).prev.seq]
      BY <1>6, <3>1, <3>2
    <3> QED
      BY <3>3 DEF EventAt
  <2> QED
    BY <2>2, <2>3
<1>8. longer = [i \in 1..k |-> EventAt(d, stored, longer, i)]
  BY <1>7 DEF longer
<1>9. EventSteps(d, stored, k, longer)
  BY <1>8 DEF EventSteps
<1> QED
  BY <1>1, <1>9 DEF Lacking

\* ... and events_for returns them: an event for each row, made of its entry
\* on the event before it.
LEMMA EventsForIs ==
  ASSUME NEW d, NEW stored, NEW n \in Nat, Whole(stored, n)
  PROVE  LET events == EventsFor(d, stored) IN
         /\ DOMAIN events = 1..n /\ Len(events) = n
         /\ \A i \in 1..n :
              events[i] = BuildEvent(d, RowAt(stored, i).by, i,
                            Cites(d, RowAt(stored, i).entry),
                            IF i = 1 THEN GenesisHash
                            ELSE events[i - 1].event_hash,
                            RowAt(stored, i).entry, ChainKey)
<1> DEFINE events == CHOOSE made : EventSteps(d, stored, n, made)
<1>1. EventSteps(d, stored, n, events)
  BY EventStepsExist
<1>2. EventsFor(d, stored) = events
  <2>1. Cardinality(stored) = n
    BY NumberedCardinality DEF Whole
  <2> QED
    BY <2>1 DEF EventsFor, EventSteps, EventAt, RowAt
<1> HIDE DEF events
<1>3. events = [i \in 1..n |-> EventAt(d, stored, events, i)]
  BY <1>1 DEF EventSteps
<1>4. /\ DOMAIN events = 1..n
      /\ \A i \in 1..n : events[i] = EventAt(d, stored, events, i)
  <2> DEFINE f == [i \in 1..n |-> EventAt(d, stored, events, i)]
  <2>1. DOMAIN f = 1..n /\ \A i \in 1..n : f[i] = EventAt(d, stored, events, i)
    OBVIOUS
  <2> HIDE DEF f
  <2>2. events = f
    BY <1>3 DEF f
  <2> QED
    BY <2>1, <2>2
<1>5. Len(events) = n
  BY <1>3
<1>6. ASSUME NEW i \in 1..n
      PROVE  events[i] = BuildEvent(d, RowAt(stored, i).by, i,
                           Cites(d, RowAt(stored, i).entry),
                           IF i = 1 THEN GenesisHash
                           ELSE events[i - 1].event_hash,
                           RowAt(stored, i).entry, ChainKey)
  <2>1. events[i] = EventAt(d, stored, events, i)
    BY <1>4
  <2>2. CASE i = 1
    BY <2>1, <2>2, RowBefore DEF EventAt
  <2>3. CASE i # 1
    BY <2>1, <2>3, RowBefore DEF EventAt
  <2> QED
    BY <2>2, <2>3
<1> QED
  BY <1>2, <1>4, <1>5, <1>6

\* What an event that was built says.
LEMMA BuiltEvent ==
  ASSUME NEW d, NEW id, NEW i, NEW cites, NEW previous, NEW payload, NEW key
  PROVE  LET event == BuildEvent(d, id, i, cites, previous, payload, key) IN
         /\ VerifyEvent(i, event, previous, key)
         /\ event.form.payload = payload /\ event.form.cites = cites
BY DEF BuildEvent, Sealed, VerifyEvent

\* Events each of which verifies after the one before it are a chain that
\* verifies: the last event in order is then always the one before.
LEMMA ChainVerifies ==
  ASSUME NEW events, NEW key, NEW n \in Nat, Len(events) = n,
         \A i \in 1..n : VerifyEvent(i, events[i],
           IF i = 1 THEN GenesisHash ELSE events[i - 1].event_hash, key)
  PROVE  VerifyChain(events, key)
<1> DEFINE After(i, h) ==
             IF i = 0 THEN GenesisHash
             ELSE IF VerifyEvent(i, events[i], h[i - 1], key)
             THEN events[i].event_hash ELSE h[i - 1]
           Headed(h) == h = [i \in 0..n |-> After(i, h)]
           last == [i \in 0..n |-> IF i = 0 THEN GenesisHash
                                   ELSE events[i].event_hash]
           head == CHOOSE h : Headed(h)
<1>1. \A i \in 1..n : last[i - 1] = IF i = 1 THEN GenesisHash
                                    ELSE events[i - 1].event_hash
  OBVIOUS
<1>2. \A i \in 0..n : last[i] = IF i = 0 THEN GenesisHash
                                ELSE events[i].event_hash
  OBVIOUS
<1>3. last = [i \in 0..n |-> last[i]]
  OBVIOUS
<1> HIDE DEF last
<1>4. \A i \in 0..n : last[i] = After(i, last)
  BY <1>1, <1>2
<1>5. Headed(last)
  <2> HIDE DEF After
  <2> QED
    BY <1>3, <1>4
<1>6. Headed(head)
  <2> HIDE DEF Headed
  <2> QED
    BY <1>5
<1>7. VerifyChain(events, key) <=>
        \A i \in 1..n : VerifyEvent(i, events[i], head[i - 1], key)
  BY DEF VerifyChain
<1> HIDE DEF head
<1>8. \A i \in 0..n : head[i] = After(i, head)
  <2> HIDE DEF After
  <2> QED
    BY <1>6
<1>9. \A i \in 0..n : head[i] = last[i]
  <2> DEFINE Apart == {i \in 0..n : head[i] # last[i]}
  <2> SUFFICES ASSUME Apart # {} PROVE FALSE
    OBVIOUS
  <2>1. PICK i \in Apart : \A j \in Apart : i <= j
    <3> Apart \in SUBSET Nat
      OBVIOUS
    <3> HIDE DEF Apart
    <3> QED
      BY LeastNat
  <2>2. i # 0 => i - 1 \in 0..n /\ i - 1 \notin Apart
    BY <2>1
  <2>3. i # 0 => head[i - 1] = last[i - 1]
    BY <2>2
  <2>4. After(i, head) = After(i, last)
    BY <2>3
  <2> HIDE DEF After
  <2> QED
    BY <1>4, <1>8, <2>1, <2>4
<1>10. \A i \in 1..n : i - 1 \in 0..n
  OBVIOUS
<1>11. \A i \in 1..n : VerifyEvent(i, events[i], head[i - 1], key)
  BY <1>1, <1>9, <1>10
<1> QED
  BY <1>7, <1>11

-----------------------------------------------------------------------------
(* The export.                                                             *)

\* A chain that was read whole, led to the state of the row that was read
\* before it unless a call came between, and whose revocations were known.
ChainRead ==
  /\ \E n \in Nat : Whole(export.stored, n)
  /\ ~ Torn /\ export.deal \notin overtaken =>
       LedTo(ChainOf(export.stored), export.row.state)

\* What the export has read at each of its places: the rows counted with the
\* deal's row, the chain, the revocations, and the verifier's answer.
ExportOK ==
  /\ DOMAIN export = { "at", "deal", "row", "since", "stored", "revocations",
                       "verified" }
  /\ export.at # "none" => export.deal \in DealId
  /\ export.at = "events" =>
       /\ export.since \in Nat
       /\ export.since <= Cardinality(rows[export.deal])
       /\ export.since = Cardinality(rows[export.deal]) =>
            export.row.state = deals[export.deal].state
  /\ export.at = "revocations" =>
       ChainRead /\ Withdrawals(export.stored, revocations)
  /\ export.at = "done" =>
       /\ ChainRead /\ Withdrawals(export.stored, export.revocations)
       /\ export.verified = VerifyBundle(Exported(export), ChainKey)

\* The rows of a deal are a whole chain.
LEMMA RowsWhole ==
  ASSUME Chained, NEW d \in DealId
  PROVE  \E n \in Nat : Whole(rows[d], n) /\ Cardinality(rows[d]) = n
<1>1. PICK n \in Nat : NumberedTo(rows[d], n)
  BY DEF Chained, Numbered
<1> QED
  BY <1>1, NumberedCardinality DEF Chained, Linked, Whole

\* A commit adds to the rows of its deal, and no other step changes anything
\* the export compares.
LEMMA CommitAdds ==
  ASSUME Shape, Chained, Chained', Movement, NEW d \in DealId
  PROVE  \/ rows'[d] = rows[d] /\ deals'[d] = deals[d]
         \/ Cardinality(rows[d]) < Cardinality(rows'[d])
<1>1. ASSUME NEW s \in Session, Quiet(s)
      PROVE  rows'[d] = rows[d] /\ deals'[d] = deals[d]
  BY <1>1, RowsKept DEF Quiet, Starts, Reads, Wins, Loses, Fails, tables
<1>2. CASE UNCHANGED vars
  BY <1>2 DEF vars, tables
<1>3. ASSUME NEW s \in Session, Commits(s), d # Job(s).deal
      PROVE  rows'[d] = rows[d] /\ deals'[d] = deals[d]
  BY <1>3, RowsAppended DEF Commits, Shape, Tables
<1>4. ASSUME NEW s \in Session, Commits(s), d = Job(s).deal
      PROVE  Cardinality(rows[d]) < Cardinality(rows'[d])
  <2>1. PICK n \in Nat : NumberedTo(rows[d], n) /\ Cardinality(rows[d]) = n
    BY RowsWhole DEF Whole
  <2>2. PICK m \in Nat : NumberedTo(rows'[d], m) /\ Cardinality(rows'[d]) = m
    <3>1. PICK m \in Nat : NumberedTo(rows'[d], m)
      BY DEF Chained, Numbered, NumberedTo
    <3> QED
      BY <3>1, NumberedCardinality
  <2>3. PICK k \in Nat \ {0} : DOMAIN Plan(s).events = 1..k
    BY <1>4, RowsAppended DEF Fits
  <2>4. Extends(ChainOf(rows'[d]), ChainOf(rows[d]), Plan(s).events, k)
    BY <1>4, <2>3, ChainExtended
  <2>5. Len(ChainOf(rows[d])) = n /\ Len(ChainOf(rows'[d])) = m
    BY <2>1, <2>2, ChainOfIs
  <2>6. m = n + k
    BY <2>4, <2>5 DEF Extends
  <2> QED
    BY <2>1, <2>2, <2>3, <2>6
<1> QED
  BY <1>1, <1>2, <1>3, <1>4 DEF Movement

\* Steps of the calls leave what the export has read as good as it was.
LEMMA CallsKeepExport ==
  ASSUME Shape, Chained, Chained', Movement, ExportOK, UNCHANGED export
  PROVE  ExportOK'
<1>1. revocations \subseteq revocations' /\ overtaken \subseteq overtaken'
  <2>1. ASSUME NEW s \in Session, Quiet(s)
        PROVE  revocations' = revocations /\ overtaken' = overtaken
    BY <2>1 DEF Quiet, Starts, Reads, Wins, Loses, Fails, tables, history
  <2>2. ASSUME NEW s \in Session, Commits(s), Recorded(s)
        PROVE  revocations \subseteq revocations' /\ overtaken \subseteq overtaken'
    BY <2>2 DEF Commits, Recorded, RevocationsAfter
  <2>3. CASE UNCHANGED vars
    BY <2>3 DEF vars, tables, history
  <2> QED
    BY <2>1, <2>2, <2>3 DEF Movement
<1>2. ChainRead => ChainRead'
  BY <1>1 DEF ChainRead, Torn
<1>3. Withdrawals(export.stored, revocations) =>
        Withdrawals(export.stored, revocations')
  BY <1>1 DEF Withdrawals
<1>4. export.at = "events" =>
        /\ export.since <= Cardinality(rows'[export.deal])
        /\ export.since = Cardinality(rows'[export.deal]) =>
             export.row.state = deals'[export.deal].state
  <2> SUFFICES ASSUME export.at = "events"
               PROVE  /\ export.since <= Cardinality(rows'[export.deal])
                      /\ export.since = Cardinality(rows'[export.deal]) =>
                           export.row.state = deals'[export.deal].state
    OBVIOUS
  <2> DEFINE d == export.deal
             n == Cardinality(rows[d])
             m == Cardinality(rows'[d])
  <2>1. d \in DealId
    BY DEF ExportOK
  <2>2. n \in Nat
    BY <2>1, RowsWhole
  <2>3. m \in Nat
    <3>1. PICK k \in Nat : NumberedTo(rows'[d], k)
      BY <2>1 DEF Chained, Numbered, NumberedTo
    <3> QED
      BY <3>1, NumberedCardinality
  <2>4. (rows'[d] = rows[d] /\ deals'[d] = deals[d]) \/ n < m
    BY <2>1, CommitAdds
  <2>5. /\ export.since \in Nat /\ export.since <= n
        /\ export.since = n => export.row.state = deals[d].state
    BY DEF ExportOK
  <2>6. CASE rows'[d] = rows[d] /\ deals'[d] = deals[d]
    BY <2>5, <2>6
  <2>7. CASE n < m
    <3> HIDE DEF n, m
    <3>1. export.since < m
      BY <2>2, <2>3, <2>5, <2>7
    <3>2. export.since <= m /\ export.since # m
      BY <2>3, <2>5, <3>1
    <3> QED
      BY <3>2 DEF m
  <2> QED
    BY <2>4, <2>6, <2>7
<1>5. Exported(export)' = Exported(export)
  BY DEF Exported, EventsFor
<1> QED
  BY <1>2, <1>3, <1>4, <1>5 DEF ExportOK

\* The export's own steps: the deal's row with the count of its chain, ...
LEMMA ExportDealStep ==
  ASSUME Chained, ExportOK, NEW d \in ExportedDeals, ExportDeal(d)
  PROVE  ExportOK'
<1>1. d \in DealId
  BY EvidenceAssumption
<1>2. /\ export'.at = "events" /\ export'.deal = d /\ export'.row = deals[d]
      /\ export'.since = Cardinality(rows[d])
      /\ DOMAIN export' = DOMAIN export
      /\ rows' = rows /\ deals' = deals
  BY DEF ExportDeal, ExportOK, vars, tables
<1>3. Cardinality(rows[d]) \in Nat
  BY <1>1, RowsWhole
<1> QED
  BY <1>1, <1>2, <1>3 DEF ExportOK

\* ... the events, ...
LEMMA ExportEventsStep ==
  ASSUME Chained, Led, Withdrawn, ExportOK, ExportEvents
  PROVE  ExportOK'
<1> DEFINE d == export.deal
<1>1. /\ export.at = "events" /\ d \in DealId
      /\ export.since = Cardinality(rows[d]) =>
           export.row.state = deals[d].state
  BY DEF ExportEvents, ExportOK
<1>2. /\ export'.at = "revocations" /\ export'.deal = d
      /\ export'.row = export.row /\ export'.since = export.since
      /\ export'.stored = rows[d]
      /\ DOMAIN export' = DOMAIN export
      /\ UNCHANGED <<rows, deals, revocations, overtaken>>
  BY DEF ExportEvents, ExportOK, vars, tables, history
<1>3. \E n \in Nat : Whole(rows[d], n)
  BY <1>1, RowsWhole
<1>4. d \notin overtaken => LedTo(ChainOf(rows[d]), deals[d].state)
  BY <1>1 DEF Led
<1>5. ChainRead'
  BY <1>1, <1>2, <1>3, <1>4 DEF ChainRead, Torn
<1>6. Withdrawals(rows[d], revocations)
  BY <1>1 DEF Withdrawn
<1> QED
  BY <1>1, <1>2, <1>5, <1>6 DEF ExportOK

\* ... and the revocations, with the bundle that is then verified.
LEMMA ExportRevocationsStep ==
  ASSUME ExportOK, ExportRevocations
  PROVE  ExportOK'
<1> DEFINE read == [export EXCEPT !.revocations = revocations, !.at = "done"]
           verdict == VerifyBundle(Exported(read), ChainKey)
<1>1. /\ export.at = "revocations" /\ export.deal \in DealId
      /\ ChainRead /\ Withdrawals(export.stored, revocations)
  BY DEF ExportRevocations, ExportOK
<1>2. /\ read.deal = export.deal /\ read.row = export.row
      /\ read.since = export.since /\ read.stored = export.stored
      /\ read.revocations = revocations /\ read.at = "done"
      /\ DOMAIN read = DOMAIN export
      /\ "verified" \in DOMAIN read
  BY DEF ExportOK
<1>3. export' = [read EXCEPT !.verified = verdict] /\ UNCHANGED vars
  BY DEF ExportRevocations
<1> HIDE DEF read, verdict
<1>4. /\ export'.deal = read.deal /\ export'.row = read.row
      /\ export'.since = read.since /\ export'.stored = read.stored
      /\ export'.revocations = read.revocations /\ export'.at = read.at
      /\ DOMAIN export' = DOMAIN read /\ export'.verified = verdict
  BY <1>2, <1>3
<1>5. Exported(export)' = Exported(read)
  BY <1>4 DEF Exported
<1>6. export'.verified = VerifyBundle(Exported(export), ChainKey)'
  BY <1>4, <1>5 DEF verdict
<1>7. overtaken' = overtaken
  BY <1>3 DEF vars, history
<1>8. ChainRead'
  BY <1>1, <1>2, <1>4, <1>7 DEF ChainRead, Torn
<1>9. Withdrawals(export.stored, export.revocations)'
  BY <1>1, <1>2, <1>4 DEF Withdrawals
<1> QED
  BY <1>1, <1>2, <1>4, <1>6, <1>8, <1>9 DEF ExportOK

\* Nothing the export does is a step of a call.
LEMMA ExportImplementsLedger == EvidenceSpec => Spec
<1>1. EvidenceInit => Init
  BY DEF EvidenceInit
<1>2. [EvidenceNext]_evidenceVars => [Next]_vars
  BY DEF EvidenceNext, evidenceVars, ExportDeal, ExportEvents,
         ExportRevocations
<1> QED
  BY <1>1, <1>2, PTL DEF EvidenceSpec, Spec

\* The bundle of a whole chain verifies if the deal section agrees with it, and
\* names every record that a revocation on the chain withdrew.
LEMMA WholeChainVerifies ==
  ASSUME NEW e, NEW n \in Nat, Whole(e.stored, n),
         Withdrawals(e.stored, e.revocations)
  PROVE  /\ LedTo(ChainOf(e.stored), e.row.state) =>
              VerifyBundle(Exported(e), ChainKey)
         /\ LET chain == ChainOf(e.stored) IN
            \A i \in DOMAIN chain :
              chain[i].type = "revocation" =>
                chain[i].revocation \in Exported(e).revocations
<1> DEFINE events == EventsFor(e.deal, e.stored)
           chain == ChainOf(e.stored)
           bundle == Exported(e)
           Before(i) == IF i = 1 THEN GenesisHash ELSE events[i - 1].event_hash
<1>1. /\ DOMAIN events = 1..n /\ Len(events) = n
      /\ \A i \in 1..n :
           events[i] = BuildEvent(e.deal, RowAt(e.stored, i).by, i,
                         Cites(e.deal, RowAt(e.stored, i).entry), Before(i),
                         RowAt(e.stored, i).entry, ChainKey)
  BY EventsForIs
<1>2. /\ bundle.events = events /\ bundle.row = e.row
      /\ bundle.revocations = {v \in e.revocations : v.record \in Cited(events)}
  BY DEF Exported, BuildBundle
<1>3. DOMAIN chain = 1..n /\ \A i \in 1..n : chain[i] = RowAt(e.stored, i).entry
  <2>1. Cardinality(e.stored) = n
    BY NumberedCardinality DEF Whole
  <2>2. chain = [i \in 1..n |-> RowAt(e.stored, i).entry]
    BY <2>1 DEF ChainOf, RowAt
  <2> HIDE DEF chain
  <2> QED
    BY <2>2
<1> HIDE DEF events, chain, bundle, Before
<1>4. ASSUME NEW i \in 1..n
      PROVE  /\ VerifyEvent(i, events[i], Before(i), ChainKey)
             /\ events[i].form.payload = chain[i]
             /\ events[i].form.cites = Cites(e.deal, chain[i])
  BY <1>1, <1>3, BuiltEvent
<1>5. VerifyChain(events, ChainKey)
  BY <1>1, <1>4, ChainVerifies DEF Before
<1>6. [i \in DOMAIN bundle.events |-> bundle.events[i].form.payload] = chain
  <2>1. chain = [i \in 1..n |-> chain[i]]
    <3>1. Cardinality(e.stored) = n
      BY NumberedCardinality DEF Whole
    <3> QED
      BY <3>1 DEF ChainOf, chain
  <2> QED
    BY <1>1, <1>2, <1>4, <2>1
<1>7. LedTo(chain, e.row.state) => VerifyBundle(bundle, ChainKey)
  <2>1. /\ bundle.gateway_public_key = ChainKey
        /\ bundle.verification = Summary(bundle.events, bundle.records,
                                         bundle.revocations)
        /\ VerifySummarySignature(bundle, ChainKey)
    BY ExportedSigned DEF bundle
  <2>2. LedTo(chain, e.row.state) => DealStateAgrees(bundle)
    BY <1>2, <1>6 DEF DealStateAgrees
  <2> QED
    BY <1>2, <1>5, <2>1, <2>2 DEF VerifyBundle, VerifyingKey
<1>8. ASSUME NEW i \in DOMAIN chain, chain[i].type = "revocation"
      PROVE  chain[i].revocation \in bundle.revocations
  <2>1. i \in 1..n /\ chain[i] = RowAt(e.stored, i).entry
    BY <1>3
  <2>2. RowAt(e.stored, i) \in e.stored
    BY <2>1, RowBefore
  <2>3. chain[i].revocation \in e.revocations
    BY <1>8, <2>1, <2>2 DEF Withdrawals
  <2>4. chain[i].revocation.record \in events[i].form.cites
    BY <1>4, <1>8, <2>1 DEF Cites
  <2>5. chain[i].revocation.record \in Cited(events)
    BY <1>1, <2>1, <2>4 DEF Cited
  <2> QED
    BY <1>2, <2>3, <2>5
<1> QED
  BY <1>7, <1>8 DEF chain, bundle

\* What the export has read is enough for its claim.
LEMMA ExportClaims == ExportOK => ExportFaithful
<1> SUFFICES ASSUME ExportOK, export.at = "done" PROVE ExportFaithful
  BY DEF ExportFaithful
<1>1. /\ ChainRead /\ Withdrawals(export.stored, export.revocations)
      /\ export.verified = VerifyBundle(Exported(export), ChainKey)
  BY DEF ExportOK
<1>2. PICK n \in Nat : Whole(export.stored, n)
  BY <1>1 DEF ChainRead
<1> QED
  BY <1>1, <1>2, WholeChainVerifies DEF ExportFaithful, ChainRead

\* The export's invariant holds beside every run of calls.
LEMMA ExportHolds == EvidenceSpec => []ExportOK
<1>1. EvidenceInit => ExportOK
  BY DEF EvidenceInit, NoExport, ExportOK
<1>2. /\ Shape /\ Chained /\ Claimed /\ Retried
      /\ Led /\ Withdrawn
      /\ ExportOK /\ [EvidenceNext]_evidenceVars
      => ExportOK'
  <2> SUFFICES ASSUME Shape, Chained, Led, Withdrawn, ExportOK,
                      [EvidenceNext]_evidenceVars
               PROVE  ExportOK'
    OBVIOUS
  <2>1. ASSUME [Next]_vars, UNCHANGED export PROVE ExportOK'
    <3>1. Movement
      BY <2>1, StepMovement DEF Chained
    <3>2. Chained'
      BY <3>1, MovementIsEffect, ChainedStep
    <3> QED
      BY <2>1, <3>1, <3>2, CallsKeepExport
  <2>2. CASE Next /\ UNCHANGED export
    BY <2>1, <2>2
  <2>3. CASE UNCHANGED evidenceVars
    BY <2>1, <2>3 DEF evidenceVars
  <2> QED
    BY <2>2, <2>3, ExportDealStep, ExportEventsStep, ExportRevocationsStep
       DEF EvidenceNext
<1> QED
  BY <1>1, <1>2, ExportImplementsLedger, ClaimedHolds, LedHolds, PTL
     DEF EvidenceSpec

\* An export verifies, whatever calls run beside it, unless one committed on
\* its deal between its reads or had written the deal's row from an outdated
\* copy, and it names every revocation that its chain records: the events are
\* read before the revocations, and the row of each event names the row whose
\* hash it was built on.
THEOREM ExportFaithfulHolds == EvidenceSpec => []ExportFaithful
BY ExportHolds, ExportClaims, PTL

\* No bundle that was altered after it was exported verifies with the
\* gateway's key unless nothing in it is different, whatever was exported: the
\* signed summary hashes the chain, the records and the revocations and names
\* the deal, and the verifier takes neither the key nor its name from the
\* bundle.
THEOREM AlteredBundlesFailHolds == EvidenceSpec => []AlteredBundlesFail
BY AlteredFails, PTL

\* More than the run's list of alterations: no two bundles that verify with one
\* key under the same signature differ in deal, chain, records or revocations,
\* so whoever changes any of these needs another signature by that key.
THEOREM SignatureBindsContents ==
  ASSUME NEW one, NEW other, NEW key,
         VerifyBundle(one, key), VerifyBundle(other, key),
         one.summary_signature.value = other.summary_signature.value
  PROVE  Contents(one) = Contents(other)
BY VerifiedIsBound, SignatureBinds

=============================================================================
