---------------------------- MODULE PolicyEngine ----------------------------
(***************************************************************************)
(* mandate.policy.engine.evaluate: the ordered, first-match list of checks *)
(* that turns one policy input into a decision.  The input is a record:    *)
(*                                                                         *)
(*   mandate    the authority record the deal is linked to                 *)
(*   signature  what the boundary's signature verification said            *)
(*   status     the record's lifecycle status at `now'                     *)
(*   now        the boundary's clock                                       *)
(*   links      scope_narrowing_valid of each delegation link              *)
(*   counterparty  the party the request is about                          *)
(*   deal       the stored projection of the deal                          *)
(*   proposal   what the agent asks for (untrusted)                        *)
(*   content    the content screen's claims, or NoContent                  *)
(*                                                                         *)
(* A detected field's confidence and the hostility score are basis points  *)
(* in the code, compared with two thresholds only: they are kept here as   *)
(* one of three levels.  Explanations and digests are left out.            *)
(***************************************************************************)
EXTENDS DealStateMachine

\* The absent counterparty (a bearer mandate) and the absent content.
NoParty == "no_party"
NoContent == [available |-> TRUE, detected |-> <<>>, hostility |-> 0,
              present |-> FALSE]

\* Confidence levels: below CONTENT_HOLD_BP, from there up to
\* CONTENT_DENY_BP, and from CONTENT_DENY_BP up.
Level == 0..2
HoldLevel == 1
DenyLevel == 2

Outcomes == {"allow", "deny", "needs_approval"}

ReasonCodes ==
  { "ok", "unknown_schema_version", "invalid_signature_claim",
    "record_revoked", "record_expired", "not_yet_valid",
    "delegation_chain_broken", "audience_mismatch", "action_prohibited",
    "unknown_action", "action_not_allowed", "invalid_transition",
    "payment_blocked_by_dispute", "payment_blocked_by_open_approval",
    "disclosure_not_allowed", "disclosure_detected", "currency_mismatch",
    "spend_cap_exceeded", "negotiation_limit_reached", "approval_required",
    "content_screen_unavailable", "content_review_required",
    "hostile_content_suspected" }

Decision == [outcome : Outcomes, reason : ReasonCodes]

Deny(reason) == [outcome |-> "deny", reason |-> reason]
NeedsApproval(reason) == [outcome |-> "needs_approval", reason |-> reason]
Allow == [outcome |-> "allow", reason |-> "ok"]

-----------------------------------------------------------------------------
\* resolve_status: a revocation wins over expiry, and a record is still valid
\* at the instant it expires.
ResolveStatus(mandate, now, revoked) ==
  IF revoked \/ mandate.status = "revoked" THEN "revoked"
  ELSE IF now > mandate.expires_at THEN "expired"
  ELSE "active"

-----------------------------------------------------------------------------
\* Step 5: both sides name a party and the names differ.
AudienceMismatch(pi) ==
  /\ pi.mandate.counterparty # NoParty
  /\ pi.counterparty # NoParty
  /\ pi.counterparty # pi.mandate.counterparty

\* A faulty variant of step 8: only payments look at the state.
OutOfPlacePaymentsOnly(pi) ==
  /\ pi.proposal.action \in PaymentActions
  /\ pi.deal.state \notin ActionValidStates[pi.proposal.action]

\* Step 8: the stored state does not permit the action.
OutOfPlace(pi) ==
  pi.deal.state \notin ActionValidStates[pi.proposal.action]

\* A faulty variant of step 9: declarations are trusted when the text was
\* screened.
DeclaresTooMuchUnlessScreened(pi) ==
  /\ ~ pi.content.present
  /\ ~ (pi.proposal.disclosure_fields \subseteq pi.mandate.disclosure_fields)

\* Step 9: a declared field outside the allow-list.
DeclaresTooMuch(pi) ==
  ~ (pi.proposal.disclosure_fields \subseteq pi.mandate.disclosure_fields)

\* ContentClaims.undeclared, at a level: the screen saw a field that the
\* mandate does not allow, with at least this confidence.
Leaks(pi, level) ==
  /\ pi.content.present
  /\ \E field \in DOMAIN pi.content.detected :
       /\ field \notin pi.mandate.disclosure_fields
       /\ pi.content.detected[field] >= level

\* Step 10: the currency check precedes the cap comparison.
WrongCurrency(pi) ==
  /\ pi.proposal.amount # NoAmount
  /\ pi.proposal.currency # pi.mandate.currency

\* A faulty variant of OverCap: the cap bounds each request alone.
OverCapPerRequest(pi) ==
  /\ pi.proposal.amount # NoAmount
  /\ pi.proposal.amount > pi.mandate.spend_cap

OverCap(pi) ==
  /\ pi.proposal.amount # NoAmount
  /\ pi.deal.committed_minor + pi.proposal.amount > pi.mandate.spend_cap

\* A faulty variant of step 8: the payment blocks behind the hold of step 10, so
\* that an over-cap payment is held before they are looked at.
IsPaymentWithinCap(pi) ==
  /\ pi.proposal.action \in PaymentActions
  /\ ~ OverCap(pi)

\* Step 8, too: the payment blocks are about the payment actions.
IsPayment(pi) == pi.proposal.action \in PaymentActions

\* A faulty variant of step 11: one round too many.
RoundsUsedUpOneLate(pi) ==
  /\ pi.proposal.action \in NegotiationActions
  /\ pi.deal.negotiated_rounds > pi.mandate.max_negotiation_rounds

\* Step 11: no rounds are left for a negotiation action.
RoundsUsedUp(pi) ==
  /\ pi.proposal.action \in NegotiationActions
  /\ pi.deal.negotiated_rounds >= pi.mandate.max_negotiation_rounds

\* Steps 12, 12b and 13: what nothing denies is allowed, or held for a person.
HoldOrAllow(pi) ==
  IF pi.proposal.action \in pi.mandate.requires_human_approval_for
  THEN NeedsApproval("approval_required")
  ELSE IF pi.content.present /\ ~ pi.content.available
       THEN NeedsApproval("content_screen_unavailable")
  ELSE IF Leaks(pi, HoldLevel) THEN NeedsApproval("content_review_required")
  ELSE IF pi.content.present /\ pi.content.hostility >= HoldLevel
       THEN NeedsApproval("hostile_content_suspected")
  ELSE Allow

\* evaluate: the first check that fires decides.
Evaluate(pi) ==
  IF ~ pi.schema THEN Deny("unknown_schema_version")
  ELSE IF ~ pi.signature THEN Deny("invalid_signature_claim")
  ELSE IF pi.status = "revoked" THEN Deny("record_revoked")
  ELSE IF pi.status = "expired" THEN Deny("record_expired")
  ELSE IF pi.now < pi.mandate.not_before THEN Deny("not_yet_valid")
  ELSE IF pi.now > pi.mandate.expires_at THEN Deny("record_expired")
  ELSE IF FALSE \in pi.links THEN Deny("delegation_chain_broken")
  ELSE IF AudienceMismatch(pi) THEN Deny("audience_mismatch")
  ELSE IF pi.proposal.action \in pi.mandate.prohibited_actions
       THEN Deny("action_prohibited")
  ELSE IF pi.proposal.action \notin ActionToken THEN Deny("unknown_action")
  ELSE IF pi.proposal.action \notin pi.mandate.allowed_actions
       THEN Deny("action_not_allowed")
  ELSE IF OutOfPlace(pi) THEN Deny("invalid_transition")
  ELSE IF IsPayment(pi) /\ pi.deal.open_disputes > 0
       THEN Deny("payment_blocked_by_dispute")
  ELSE IF IsPayment(pi) /\ pi.deal.open_approvals > 0
       THEN Deny("payment_blocked_by_open_approval")
  ELSE IF DeclaresTooMuch(pi) THEN Deny("disclosure_not_allowed")
  ELSE IF Leaks(pi, DenyLevel) THEN Deny("disclosure_detected")
  ELSE IF WrongCurrency(pi) THEN Deny("currency_mismatch")
  ELSE IF OverCap(pi) THEN NeedsApproval("spend_cap_exceeded")
  ELSE IF RoundsUsedUp(pi) THEN Deny("negotiation_limit_reached")
  ELSE HoldOrAllow(pi)
=============================================================================
