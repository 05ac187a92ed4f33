SPECIFICATION Spec
CONSTANTS
  Tokens = {"counteroffer", "accept_agreement", "cancel_deal", "approve_change_order", "initiate_payment", "open_dispute", "resolve_dispute", "transfer_funds"}
  Places = {"negotiating", "change_requested", "acceptance_window", "accepted", "disputed", "failed"}
  MaxFacts = 3
INVARIANTS
  AllowIffNothingObjects
  HoldOnlyWithinAuthority
  DelegateAllowsNoMore
PROPERTIES
  NeverWidens
CHECK_DEADLOCK FALSE
