----------------------------- MODULE Delegation -----------------------------
(***************************************************************************)
(* mandate.domain.lifecycle: when a delegated authority record is a valid  *)
(* narrowing of its parent, and the walk up the chain of parents.  The     *)
(* result of the walk is what a boundary reports to the policy engine as   *)
(* scope_narrowing_valid.                                                  *)
(*                                                                         *)
(* A record is a mandate of PolicyEngine with two more fields, `id' and    *)
(* `parent', the id of the record it was delegated from.  Ids are positive *)
(* numbers.                                                                *)
(***************************************************************************)
EXTENDS PolicyEngine, SequencesExt

NoParent == 0

\* scope_violations: the rules of narrowing that the child breaks.
ScopeViolations(child, parent) ==
  LET broken ==
    [ allowed_actions_not_subset |->
        ~ (child.allowed_actions \subseteq parent.allowed_actions),
      prohibited_actions_not_superset |->
        ~ (parent.prohibited_actions \subseteq child.prohibited_actions),
      spend_cap_currency_mismatch |-> child.currency # parent.currency,
      spend_cap_exceeds_parent |->
        child.currency = parent.currency /\ child.spend_cap > parent.spend_cap,
      max_negotiation_rounds_exceed_parent |->
        child.max_negotiation_rounds > parent.max_negotiation_rounds,
      disclosure_fields_not_subset |->
        ~ (child.disclosure_fields \subseteq parent.disclosure_fields),
      approval_gates_not_superset |->
        ~ (parent.requires_human_approval_for
             \subseteq child.requires_human_approval_for),
      not_before_earlier_than_parent |-> child.not_before < parent.not_before,
      expires_after_parent |-> child.expires_at > parent.expires_at,
      counterparty_mismatch_with_parent |->
        /\ parent.counterparty # NoParty
        /\ child.counterparty # parent.counterparty ]
  IN { rule \in DOMAIN broken : broken[rule] }

-----------------------------------------------------------------------------
IdsOf(path) == { path[i].id : i \in DOMAIN path }

\* The walk cannot go on from the last record of the path: it has no parent,
\* its parent is on the path already, or `records' does not hold it.
WalkEnds(path, records) ==
  \/ Last(path).parent = NoParent
  \/ Last(path).parent \in IdsOf(path)
  \/ Last(path).parent \notin DOMAIN records

\* A faulty variant of Climb: only the parent is looked at.
ClimbOnce(record, records) ==
  IF WalkEnds(<<record>>, records) THEN <<record>>
  ELSE <<record, records[record.parent]>>

\* The loop of delegation_violations: the record, its parent, and so on.  A
\* walk visits no record twice, which bounds it.
Climb(record, records) ==
  LET walk[n \in 0 .. Cardinality(DOMAIN records)] ==
        IF n = 0 THEN <<record>>
        ELSE IF WalkEnds(walk[n - 1], records) THEN walk[n - 1]
        ELSE Append(walk[n - 1], records[Last(walk[n - 1]).parent])
  IN walk[Cardinality(DOMAIN records)]

\* What a path breaks: a hop that does not narrow, an ancestor that is not in
\* force, a last parent that is on the path or cannot be found.  Only the
\* recorded status of an ancestor counts: a signed revocation reaches the walk
\* when the caller has entered it in `records'.
WideHops(path) ==
  UNION { { <<rule, path[i + 1].id>> :
              rule \in ScopeViolations(path[i], path[i + 1]) }
          : i \in 1 .. Len(path) - 1 }

Lapsed(path, now) ==
  { <<ResolveStatus(path[i], now, FALSE), path[i].id>> :
      i \in { j \in 2 .. Len(path) :
                ResolveStatus(path[j], now, FALSE) # "active" } }

Cycle(path) ==
  { <<"cycle_at", id>> : id \in {Last(path).parent} \cap IdsOf(path) }

Unresolvable(path, records) ==
  { <<"unresolvable_parent", id>> :
      id \in {Last(path).parent} \
               (IdsOf(path) \cup DOMAIN records \cup {NoParent}) }

\* delegation_violations with `now' given.
DelegationViolations(record, records, now) ==
  LET path == Climb(record, records) IN
  WideHops(path) \cup Lapsed(path, now) \cup Cycle(path)
    \cup Unresolvable(path, records)
=============================================================================
