----------------------------- MODULE CommitPlans -----------------------------
(***************************************************************************)
(* What both ledger stores share: the policy input a boundary assembles,   *)
(* the entries of a deal's chain (mandate.ledger.payloads), and the commit *)
(* plans (mandate.ledger.commit_plans), pure functions from the stored     *)
(* deal and a request to the entries to append and the rows to write.      *)
(*                                                                         *)
(* The hash links and signatures of an entry, a function of the chain, are *)
(* left out.  An approval is named by the request that opened it.          *)
(***************************************************************************)
EXTENDS PolicyEngine, Sequences

\* The policy input for proposal p under mandate m.  It names the mandate's
\* own counterparty and currency; v0.1 sends no delegation links.
PolicyInput(p, m, status, deal, now, content) ==
  [ schema |-> TRUE, signature |-> m.signed, status |-> status, now |-> now,
    links |-> {}, counterparty |-> m.counterparty, mandate |-> m,
    deal |-> deal,
    proposal |-> [ action |-> p.action, amount |-> p.amount,
                   currency |-> m.currency,
                   disclosure_fields |-> p.disclosure_fields ],
    content |-> content ]

-----------------------------------------------------------------------------
\* The entries of a chain.
MessageEntry(cause) == [type |-> "message", cause |-> cause]

DecisionEntry(q, p, decision) ==
  [ type |-> "policy_decision", cause |-> q, proposal |-> p,
    decision |-> decision ]

\* cause: the request of an action, the command of a boundary event.
TransitionEntry(cause, event, from, to, amount) ==
  [ type |-> "state_transition", cause |-> cause, event |-> event,
    from |-> from.state, to |-> to.state, amount |-> amount ]

ApprovalEntry(operation, q, action, amount) ==
  [ type |-> "approval", operation |-> operation, cause |-> q,
    action |-> action, amount |-> amount ]

RevocationEntry(revocation) ==
  [type |-> "revocation", revocation |-> revocation]

-----------------------------------------------------------------------------
\* A commit plan: the entries to append, the projection, the approval row.
NoApproval == [status |-> "none"]

\* A faulty variant of PlannedEvent: a held action moves the deal at once.
PlannedEventUnlessDenied(p, decision) ==
  IF decision.outcome # "deny" THEN ActionEvents[p.action] ELSE NoEvent

\* plan_transition: the event of an allowed action, NoEvent for any other
\* outcome and for the decision-only action.
PlannedEvent(p, decision) ==
  IF decision.outcome = "allow" THEN ActionEvents[p.action] ELSE NoEvent

Stale(deal, event) ==
  event # NoEvent /\ TransitionFor(deal.state, event) = NoState

PlanCommitRequest(deal, q, p, r, decision) ==
  LET event == PlannedEvent(p, decision)
      held == decision.outcome = "needs_approval"
      moved == IF event = NoEvent THEN deal
               ELSE ApplyAction(deal, p.action, p.amount)
      message == IF p.text THEN <<MessageEntry(q)>> ELSE <<>>
      decided == <<DecisionEntry(q, p, decision)>>
      transition ==
        IF event = NoEvent THEN <<>>
        ELSE <<TransitionEntry(q, event, deal, moved, p.amount)>>
      required ==
        IF held THEN <<ApprovalEntry("required", q, p.action, p.amount)>>
        ELSE <<>>
  IN  [ deal |-> IF held THEN [deal EXCEPT !.open_approvals = @ + 1]
                 ELSE moved,
        events |-> message \o decided \o transition \o required,
        approval |->
          IF held
          THEN [ status |-> "pending", deal |-> p.deal, record |-> r,
                 action |-> p.action, amount |-> p.amount ]
          ELSE NoApproval ]

PlanCommitTransition(deal, c, event, noted) ==
  LET moved == ApplyEvent(deal, event, TransitionFor(deal.state, event),
                          NoAmount)
      message == IF noted THEN <<MessageEntry(c)>> ELSE <<>>
  IN  [ deal |-> moved,
        events |-> message \o
          <<TransitionEntry(c, event, deal, moved, NoAmount)>> ]

\* A faulty variant of ForcedDeny: the mandate was checked when the request was
\* held, and is not checked again.
ForcedDenyStateOnly(deal, a, current) ==
  \/ ActionEvents[a.action] = NoEvent
  \/ Stale(deal, ActionEvents[a.action])

\* A faulty variant of ForcedDeny: what was held is applied wherever the deal
\* is now.
ForcedDenyMandateOnly(deal, a, current) ==
  \/ ~ current
  \/ ActionEvents[a.action] = NoEvent

\* grant_recheck: a grant is forced to a denial when the record is gone or no
\* longer current, or when the stored deal has no transition for the action.
ForcedDeny(deal, a, current) ==
  \/ ~ current
  \/ ActionEvents[a.action] = NoEvent
  \/ Stale(deal, ActionEvents[a.action])

\* A faulty variant of Closed: the deciding path forgets the counter.
ClosedUncounted(deal) == deal

Closed(deal) == [deal EXCEPT !.open_approvals = Decrement(@)]

\* current: whether the record behind the approval is stored and in force.
PlanCommitApproval(deal, q, a, operation, current) ==
  IF operation = "granted" /\ ~ ForcedDeny(deal, a, current)
  THEN LET moved == ApplyAction(deal, a.action, a.amount) IN
       [ deal |-> Closed(moved),
         events |->
           << ApprovalEntry("granted", q, a.action, a.amount),
              TransitionEntry(q, ActionEvents[a.action], deal, moved,
                              a.amount) >>,
         approval |-> [a EXCEPT !.status = "granted"] ]
  ELSE [ deal |-> Closed(deal),
         events |-> <<ApprovalEntry("denied", q, a.action, a.amount)>>,
         approval |-> [a EXCEPT !.status = "denied"] ]
=============================================================================
