SPECIFICATION EvidenceSpec
CONSTANTS
  Session = {"s1", "s2"}
  DealId = {"d1", "d2"}
  RecordId = {"r1", "r2"}
  RequestId = {"q0", "q1", "q2", "q3", "q4"}
  CommandId = {"c1", "c2", "c3", "c4"}
  Key = {"k0", "k1", "k2"}
  Mandate <- MCMandate
  Link <- MCLink
  Jobs <- MCJobs
  Databases <- BothDatabases
  NoRecord = "no_record"
  ChainKey = "chain_key"
  OtherKey = "other_key"
  ExportedDeals = {"d1"}
INVARIANTS
  TypeOK
  ChainIntact
  AppliedOnce
  CommandsOnRecord
  NonceSingleOwner
  SecondGateAnswers
  RowsAgreeUnlessOvertaken
  ExportFaithful
  AlteredBundlesFail
PROPERTIES
  Answered
