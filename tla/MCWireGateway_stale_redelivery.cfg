SPECIFICATION WireSpec
CONSTANTS
  DealId = {"d1"}
  RecordId = {"r1"}
  RequestId = {1, 2, 3}
  CommandId = {101, 102, 103, 104, 105, 106, 107, 201}
  ConsoleCommands = {201}
  Key = {1, 2, 3, 4, 5}
  Mandate <- MCMandate
  Proposals <- MCProposals
  Screenings <- ScreenAnswers
  BoundaryEvents <- ConsoleEvents
  Notes = {FALSE}
  MaxTime = 1
  NoRecord = "no_record"
  Envelope = {"ask", "leave", "counter", "echo", "again", "stranger", "receipt", "forged"}
  Content <- MCContent
  Self = "self"
  Peers = {"peer", "other"}
  MaxAge = 0
  MaxFaults = 2
INVARIANTS
  OriginalOutcome
CHECK_DEADLOCK FALSE
