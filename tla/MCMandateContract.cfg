SPECIFICATION Spec
CONSTANTS
  DealId = {d1}
  RecordId = {r1}
  RequestId = {1, 2, 3}
  CommandId = {101, 102, 103, 104, 105, 106, 107, 108}
  Mandate <- MCMandate
  Asks <- MCAsks
  NoRecord = NoRecord
CONSTRAINT InOrder
INVARIANTS
  TypeOK
  OpenApprovalsCounted
  DisputeIsAState
  OverCapNeedsOverride
PROPERTIES
  PaidAsAccepted
