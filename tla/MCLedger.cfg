SPECIFICATION BothSpec
CONSTANTS
  DealId <- BothEnds
  RecordId = {r1}
  RequestId = {1, 2, 3}
  CommandId = {101, 102, 103, 104, 105, 106, 107, 108, 109}
  Key = {1, 2, 3, 4, 5}
  Mandate <- BothMandates
  Proposals <- BothProposals
  Screenings <- ScreenAnswers
  BoundaryEvents <- BothEvents
  Notes = {FALSE}
  MaxTime = 2
  NoRecord = NoRecord
CONSTRAINT OneEnd
INVARIANTS
  TypeOK
  ProjectionIsReplay
  TransitionsAuthorized
  ApprovalDecidedOnce
  SideEffectsOnce
  AnswerMatchesLedger
  PaymentsUnblocked
PROPERTIES
  NoPermissionOutOfForce
CHECK_DEADLOCK FALSE
