SPECIFICATION Spec
CONSTANTS
  Session = {"s1", "s2"}
  DealId = {"d1", "d2"}
  RecordId = {"r1", "r2"}
  RequestId = {"q0", "q1", "q2", "q3", "q4"}
  CommandId = {"c1", "c2", "c3", "c4"}
  Key = {"k0", "k1", "k2"}
  Mandate <- MCMandate
  Link <- MCLink
  Jobs <- GrantJobs
  Databases <- JustHeld
  NoRecord = "no_record"
INVARIANTS
  SingleUse
