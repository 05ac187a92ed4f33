SPECIFICATION DrivenSpec
CONSTANTS
  DealId = {d1}
  RecordId = {r1}
  RequestId = {1, 2, 3}
  CommandId = {101, 102, 103, 104, 105, 106, 107, 108, 109, 110}
  Key = {1, 2, 3, 4, 5}
  Mandate <- PaymentMandates
  Proposals <- PaymentProposals
  Screenings <- ScreenAnswers
  BoundaryEvents <- PaymentEvents
  Notes = {FALSE}
  MaxTime = 0
  NoRecord = NoRecord
CONSTRAINT InOrder
INVARIANTS
  CapturesUnblocked
CHECK_DEADLOCK FALSE
