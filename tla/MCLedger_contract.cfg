SPECIFICATION Spec
CONSTANTS
  DealId = {d1}
  RecordId = {r1}
  RequestId = {1, 2}
  CommandId = {101, 102, 103, 104, 105, 106}
  Key = {1, 2, 3}
  Mandate <- CappedMandates
  Proposals <- ChangeOrderProposals
  Screenings <- ScreenAnswers
  BoundaryEvents <- ChangeOrderEvents
  Notes = {FALSE}
  MaxTime = 2
  NoRecord = NoRecord
CONSTRAINT InOrder
PROPERTIES
  ImplementsContract
CHECK_DEADLOCK FALSE
