# Verification of agent-mandate

agent-mandate lets an AI agent act for a person within a signed *mandate*: a
policy engine decides every proposed action, a ledger records what was asked,
decided and done on one hash-chained sequence of events per deal, and a person
decides what the mandate holds for approval. This directory keeps TLA+
modules that model the program, configurations that check them with TLC, and
proofs that TLAPS checks. Paths below are relative to the repository; the
program lives in `src/mandate/`.

## 1. The system

| Component | State it keeps | Operations | What makes it correct |
|---|---|---|---|
| `domain/state_machine.py`, `domain/deals.py` | none (pure): the table of 38 (state, event) pairs, the action vocabulary, four counters of a deal | `transition_for`, `apply_event`, `apply_action` | counters agree with the events applied; payment states are reached with no dispute open |
| `policy/engine.py` (+ `domain/content.py`, `domain/decisions.py`) | none | `evaluate`: an ordered, first-match list of checks | allow iff no check objects; a person can only wave through what is inside the authority; screening narrows |
| `domain/lifecycle.py`, `application/claims.py` | none | `resolve_status`, `revocation_applies`, `scope_violations`, `delegation_violations`, `build_claim` | revocation and expiry bind at once; a delegate may do nothing its ancestors may not |
| `application/anti_replay.py` | reads the seen stores | `check_anti_replay` | a retry gets the first answer; a key, a request or a nonce acts once |
| `application/services.py` | none | `process_request`: gate, engine, commit, and a second gate after a lost claim | the caller is told what the ledger recorded |
| `ledger/commit_plans.py`, `chain.py`, `payloads.py` | none | the four commit plans, `grant_recheck`, `verify_chain` | a plan's events, row and counters describe one step |
| `ledger/store.py` (in memory) | deals, links, chains, records, revocations, approvals, seen requests, commands, nonces, decisions | `commit_request`, `commit_transition`, `commit_approval`, `commit_revocation`, registration | rows are a projection of the chain; every effect is authorized and happens once |
| `adapters/postgres/store.py`, `db.py` | the same as tables | the same, one transaction each at READ COMMITTED | the same, under interleaved transactions |
| `api/routes/`, `api/boundary.py` (console) | deal registry | `propose`, `boundary_event`, `decide_approval`, `revoke`, registration | handlers await nothing between the read and the commit |
| `api/security.py`, `deps.py`, `app.py`, `routes/auth.py` | server-side sessions; each browser's cookie and the form on its page | session middleware, `require_auth`, `require_csrf`, login, logout | an operation has a live login of its own browser behind it; a login is neither shared nor lost |
| `transport/` (gateway, envelopes, wire dedup) | deal registry, stored answers | register, verify, look up, screen, handle, store the answer, receipt | a redelivered message gets the stored answer and no second effect, across a crash |
| `ledger/evidence.py`, `scripts/export_evidence.py` | none (reads the tables) | `build_bundle`, `verify_bundle`, the export | an export of a sound deal verifies, also beside running calls; an altered bundle does not |
| `screen/` | none | detection over text, an external service | only an input to the engine |
| `crypto/` | keys | canonical bytes, hashes, signatures | a hash or signature stands for the value under it |
| `pilot/`, views | none | demo, report, pages | not modelled |

**How they interact.** A boundary (console handler or wire gateway) reads the
deal and the mandate, screens any text, assembles a policy input and calls
`process_request`. That asks the gate, evaluates, and commits through the
store, which plans the entries and the new row from the *stored* deal. Events
of the counterparty and of the payment provider go straight to
`commit_transition`; a person's decision goes to `commit_approval`, which
rechecks the mandate and the stored state; a revocation goes to
`commit_revocation`.

**What is hard.** Time passes and mandates are revoked between a hold and its
decision; requests and commands are retried; one idempotency key is reused for
another proposal; boundary events move the deal under an open approval; rows,
counters and chain are written by different statements in four functions;
transactions interleave, and an export reads between them; the console moves a
deal or revokes its record between what the gateway reads and what it commits;
messages are lost, duplicated and delayed; a process stops between the commit
and the stored receipt, or in the middle of a registration; a login, a logout
and an operation of one browser overlap; a delegation is checked hop by hop. `PROJECT.json`
lists each at its line under "hazards".

## 2. The modules

```
DealStateMachine            states, events, table, counters
 |-- PolicyEngine            evaluate, resolve_status
 |     |-- Delegation        narrowing, the chain of parents  <- MCPolicyEngine
 |     `-- CommitPlans       policy input, entries, plans
 |           `-- ChainAudit  vocabulary of the properties
 |                 |-- Ledger              in-memory store    <- MCLedger
 |                 |     `-- WireGateway   gateway process    <- MCWireGateway
 |                 `-- PostgresLedger      transactions       <- MCPostgresLedger
 |                       `-- Evidence      export, bundles    <- MCEvidence
 `-- MandateContract         what a ledger promises           <- MCMandateContract
ConsoleSession              logins and form tokens           <- MCConsoleSession
```

The proofs are in modules of their own.

```
CommitPlansProofs            the table, engine, plans, replay of a chain
 |-- LedgerProofs             types, refinement, what every chain shows
 |     `-- WireGatewayProofs   the gateway in front of the ledger
 |-- PostgresLedgerProofs     interleaved transactions
 |     `-- EvidenceProofs      exports and altered bundles
 |-- PolicyEngineProofs       order of checks, delegation
 `-- MandateContractProofs    the contract   (instantiated by LedgerProofs)
ConsoleSessionProofs         logins
```

**DealStateMachine** (`domain/state_machine.py`, `domain/deals.py`). The table
is `Sources`/`Target` per event; `TransitionFor`, `ApplyEvent`, `ApplyAction`
are the functions of the same names, the counters one operator each. An amount
is a natural number of units or `NoAmount`.

**PolicyEngine** (`policy/engine.py`, `domain/content.py`, `domain/lifecycle.py`).
`Evaluate` is the ordered list of fifteen checks, each check an operator.
Confidences and hostility scores are levels 0, 1, 2 against the two
thresholds; a signature is a Boolean of the record.

**Delegation** (`domain/lifecycle.py`). `ScopeViolations` are the ten rules of
narrowing between a child and its parent; `Climb` is the loop up the chain,
written as a function of the number of steps and ended by a root, a missing
parent or a cycle (`WalkEnds`); `DelegationViolations` collects what the walk
finds: hops that do not narrow (`WideHops`), ancestors out of force (`Lapsed`),
a last parent on the path (`Cycle`) or not to be found (`Unresolvable`). The
engine takes the result as part of its input (`links`). The boundaries of this
version build claims without links (`delegation_chain=[]`,
`application/claims.py:40`), so delegation is checked in `MCPolicyEngine` only.

**CommitPlans** (`ledger/commit_plans.py`, `ledger/payloads.py`). A plan is a
record of the entries to append, the deal's new row and the approval's row.
`ForcedDeny` is `grant_recheck`. An entry keeps the fields the properties tell
apart. Both stores use these plans, as both stores of the code do.

**ChainAudit** models no code: it says what an auditor reads off a chain.
`Replay` applies the entries to a fresh deal one after the other,
`ApprovalTrail` is the set of places that hold the entries of an approval.

**MandateContract** is the abstract specification. Its state is what a party
to a deal can see: rows, links, approvals, which records are out of force,
which requests and commands have counted. Its actions say when a deal may
change: `Perform` within the limits and within a mandate in force, `Hold`,
`Refuse`, a person's `Grant` or `Dismiss`, `Observe` of a boundary event,
`Revoke`, `Lapse`.

**Ledger** (`ledger/store.py`, `application/services.py`,
`application/anti_replay.py`, `application/claims.py`, and the handlers of
`api/routes/operations.py` that call them). The code's tables are variables:

| Variable | Code |
|---|---|
| `deals`, `links`, `events` | projections, `deal_links`, the chain of each deal |
| `records`, `revocations`, `approvals` | authority records, revocations, approvals |
| `nonce_owners`, `seen_requests`, `decisions`, `seen_commands` | the seen stores of the anti-replay gate |
| `now` | the boundary's clock |
| `answer` | what the last caller was told |

`CommitRequest`, `CommitTransition`, `CommitApproval`, `CommitRevocation` are
the store's commits; `RegisterDeal`, `Propose`, `BoundaryEvent`,
`DecideApproval`, `Revoke` are the handlers that call them, with what a handler
checks before it calls. `Propose` is what the console's handler reads and
`ProcessRequest` (`services.process_request`), which the gateway shares. Each
handler is one action because handlers and store run on one thread and await
nothing between the read and the commit. `Tick` lets time pass.

**PostgresLedger** (`adapters/postgres/store.py`, `db.py`, with
`services.process_request` around it). A session is one call; `tx[s].at` is
the statement it is about to run, and every statement is an action: the reads
of the claim, the deal and the gate, the reads that open the commit, each
claim, the chain head, and the writes with the commit. A statement sees what
was committed when it started and no read locks anything (READ COMMITTED). A
claim (`INSERT ... ON CONFLICT DO NOTHING RETURNING`) waits while another open
transaction holds its key, then wins or loses. A lost claim returns from
inside the transaction block, which commits what was claimed before it. A
crash at any point rolls back. The writes and the commit are one step: the
first write is the entry whose sequence number is unique, and a session that
would wait there behaves like one that arrives after the other's commit.
Two history variables say when a row and its chain may part: `outdated` holds
the calls whose copy of the deal's row is older than a write of that row,
`overtaken` the deals whose row was rewritten by such a call. (That the copy
differs from the stored row would say less: with more than two sessions a row
can come back to a value it had.)

**Evidence** (`ledger/evidence.py`, the chain half of `ledger/chain.py`,
`scripts/export_evidence.py`) runs an export beside the calls of
PostgresLedger. The script reads the deal, the events and the revocations in
three transactions (`ExportDeal`, `ExportEvents`, `ExportRevocations`), builds
and signs the bundle and verifies it. The loops of `build_event` and
`verify_chain` over a chain are recursive functions of the position
(`EventsFor`, `VerifyChain`). The records are no fourth step: they are
read by the ids the events name and never change. `EventsFor` gives each row
the event `build_event` made when the row was written. `VerifyBundle` is the
auditor's, with the key the auditor already knows; `Altered` is what an auditor
may be handed instead.

**WireGateway** (`transport/gateway.py`, `envelope.py`, `dedup.py`,
`adapters/postgres/wire_dedup.py`) extends Ledger. `registry` is the process's
memory, `stored` the deduplication table, `process` the envelope in work and
how far it got, `told` what senders have received. `CreateDeal`, `PutRecord`,
`LinkDealRecord` are the three transactions of `register_deal`; the last one
also enters the deal in the registry. `Receive` is everything up to the
handler. A proposal's handler is three actions, one per transaction of
`_handle_proposal`: `HandleProposal` reads the deal, `BuildClaim` the clock and
the revocations, `CommitProposal` processes the request on what was read. Two
things are merged. `now_iso` and the revocations are one step: a revocation
dated after the clock that was read does not bind. The gate's reads, the engine
and the commit are one step: beside this process nobody writes decisions, seen
requests or nonces here (the console of this model registers, reports events and
revokes, `Console`), and what happens inside a commit is the subject of
`PostgresLedger`. `HandleEvent` is one step because it reads nothing that its
commit does not read again. `StoreAnswer` is the last transaction; `Raise`,
`Crash`, `Restart` and the console's calls fall between any two. An event off the
wire is committed by `CommitTransition` directly: unlike the console, the gateway
asks for no link.

**ConsoleSession** (`api/security.py`, `deps.py`, `app.py`, `routes/auth.py`)
models requests in flight. `Arrive` is the middleware before the route,
`RequireAuth` the guard that runs in the thread pool, `LoginRight`,
`LoginWrong`, `Operate` what follows the awaited form without another wait
(token check and handler), `Logout` and `ShowPage` handlers without a form,
`Respond` the middleware after the route with the cookie it sets.
`CookieReplaced` is another page of the machine, `Restart` the process. It
shares no variable with the ledger: a handler it lets through is an operation
of `Ledger`. `logins`, `excused` and `performed` are history variables.

**MC modules** give the constants values and start states. Operators
introduced by "A faulty variant of X" are not part of any behaviour: each is a
plausible mistake in the code X models, kept beside X, and a property is shown
to detect it by putting it in the place of X.

### What is abstracted

- A digest is the digested value, so equal digests mean equal proposals; hash
  links and signatures of entries, functions of the chain, are left out of
  `Ledger`. `PostgresLedger` keeps for each row the identity of the row whose
  hash it carries, because there two calls can build on the same head.
  `Evidence` builds the hashed and signed events from them: a hash is the
  hashed value, a signature the key with the signed value.
- A session token is a number that is never drawn twice, a form token the
  session it was made for with its time.
- A text is only whether there is one; what the screen finds in it is any
  member of `Screenings`.
- Request ids are drawn from a set; a caller may reuse one. The gateway draws
  a fresh one for each envelope, as `new_ulid` does.
- Redelivery is modelled by leaving all inputs enabled: every call may be made
  again with the same request, command or envelope at any later time.

## 3. The runs

| Run | Question | Distinct states |
|---|---|---|
| `policy_engine` | Does the ordered list mean what its checks mean without the order; can a cautious fact widen a decision; can a delegate do what an ancestor may not? | 3.26 M |
| `contract` | Do the contract's rules keep counters, disputes, the cap and the paid amount right? | 669 k |
| `ledger` | A change order past the cap that a person decides, and the way from the acceptance window to the payment, with retries, key reuse, revocation, expiry, dispute and boundary events: do chain, rows and answers agree, do the agent's payments wait? | 227 k |
| `refinement` | Is every step of the ledger one step of the contract or none? | 38 k |
| `postgres` | Two concurrent calls and an export, statement by statement, with crashes: one chain, one effect per key and command, rows that agree with it, no deadlock, every call returns, exports that verify and altered ones that do not? | 229 k |
| `wire` | Registration, redelivery, reuse of keys and message ids, lost answers, exceptions, crashes, and a console that moves the deal and revokes its record between a handler's read and its commit: one effect and one answer per envelope, an answer that agrees with the chain, at most one request that overtakes a revocation, and an answer in the end? | 244 k |
| `console` | Overlapping pages, logins, logouts and operations of two browsers, with restarts and a replaced cookie: is there a live login of this browser behind each operation, and a working cookie after each login? | 4.89 M |
| `captures`, `resolution`, `pg_single_use`, `pg_stale_answer`, `wire_stale_redelivery` | Five statements of the documents that the code does not keep (section 6) | - |

### Bounds, and why they are enough

- *policy_engine* starts from every combination of eight action strings (one
  outside the vocabulary), six states, sums just below, at and above the cap,
  and from a bearer mandate (one that names no party) with every action, and
  turns up to `MaxFacts = 3` facts toward caution. A conflict between checks is
  between two of them; three leave room for one that masks. A delegation, with
  a child that is the same or wide in one field, is such a fact, and so are the
  revocation, the loss and the looping of an ancestor. No fact is guarded by what
  it may do to the decision: the cap may fall, and the committed sum may grow, with
  no rounds left. Three facts give a chain of three hops, or two hops of which
  one is broken.
  `DelegateAllowsNoMore` compares every ancestor under the same links.
- *contract*, *ledger*, *refinement* use one deal at a time and one record: no
  operation reads two deals, and what deals share (keys, commands, nonces) is
  the subject of `postgres`, which has two. Three requests (two in *refinement*)
  are enough to hold
  one, decide it and act again; the commands are as many as the longest path
  needs. The cap is one unit, so a second unit passes it, and one round of
  negotiation uses the rounds up.
- *ledger* explores both ends of a deal's life (`BothSpec`): the deal "order"
  from nothing, and the deal "payment" from the acceptance window, a state that
  six boundary commands reach by the same plans (`DrivenFrom`). `OneEnd` gives
  each behaviour one of the two: six commands and the mandate's expiry for the
  change order, three commands more at time 0 for the payment. Revocation is in
  both.
- `CONSTRAINT InOrder` (requests and commands are counted in increasing order)
  removes renamings only: ids are compared for equality and nothing else, so
  every excluded behaviour is a renaming of one that is explored.
- *postgres* has two sessions: what two transactions do to each other. The
  jobs are a proposal, its redelivery, its key for another proposal, a second
  record with the same nonce, a proposal that is held, the boundary's events,
  both decisions of one approval, revocations. Anything left by earlier calls
  is in the two start databases, which the commit plans built, revocations on a
  chain included. One export of
  the first deal runs at any time beside them; all the alterations of a bundle
  are tried once the calls have ended, so that every chain the calls can leave
  is altered once.
- *wire* has four envelopes: a proposal; another from a clock that is ahead; a
  counterparty event under the first one's key; and an event of a stranger to the
  audience, under the message identity of the console's own command. The console
  asks for the quote, enters it or revokes with that command, at any point of a
  handler. Two faults are enough to lose an answer and crash during the retry, or
  to crash in a registration and again. The window is `MaxAge = 0` on a clock of
  two instants, so envelopes go stale. A proposal is asked of the ledger while
  a request id is left (`seen_requests # RequestId`); there are enough for
  every attempt two faults allow. Two things are left to other runs: the mandate
  is in force throughout (expiry is in `ledger`), and no two proposals share a
  key, so a gate conflict (`replay_gate`) does not come up (it does in `ledger`
  and `postgres`). The theorems about the gateway assume neither.
- *console* has a browser that sends one request at a time and one with two
  tabs, two requests in flight, three sessions (two anonymous ones and a login,
  or a login after a login) and a clock on which form tokens expire. The two
  slots are interchangeable (`SYMMETRY`); all properties are invariants.
- The runs check for deadlock where the system never stops (`contract`, where
  time may always pass, and `postgres`, where finished sessions stutter). The
  others say `CHECK_DEADLOCK FALSE`: their ids, facts, tokens or clock run out.

## 4. Fairness

Only two modules state fairness; `Evidence` takes over that of its calls, and the
export itself is not fair.

- `PostgresLedger`: weak fairness of each session's `Step`. A handler waits
  for nothing but the database, and PostgreSQL wakes a waiting insert when the
  transaction it waits for ends. `Crash` and `Call` are not fair. `Answered`
  then says that no two calls wait for each other: all claims are taken in the
  same order of tables, and a call holds one key of each.
- `WireGateway`: weak fairness of `Proceed`, which is `PutRecord`,
  `LinkDealRecord`, `Handle`, `BuildClaim`, `CommitProposal`, `StoreAnswer` and
  `Restart` (a registration or a handler does not stop midway; a process that
  died is started again), strong fairness of each
  envelope's `Receive`. The last is an assumption about the
  sender, which repeats its envelope, and not about the gateway: under it,
  `EventuallyAnswered` says the gateway gives an answer that can arrive.
  Faults are bounded by `MaxFaults`: a network that loses every answer forever
  refutes nothing. An envelope that was answered may be repeated too.

## 5. What is proved

Every theorem below holds for all values of the constants: any number of
deals, records, requests, sessions, browsers, any mandates and amounts, chains
of any length. What each assumes of the constants is the module's named
`ASSUME`, which TLC also evaluates on its runs.

| Property | of | Theorem |
|---|---|---|
| `TypeOK`, `OpenApprovalsCounted`, `DisputeIsAState`, `OverCapNeedsOverride`, `NothingCommittedEarly`, `PaidAsAccepted` | `MandateContract` | `TypeCorrect` and `...Holds` |
| `TypeOK`, `ImplementsContract` | `Ledger` | `LedgerTypeCorrect`, `LedgerImplementsContract` |
| the contract's five promises | `Ledger` | `ContractHoldsOfLedger` |
| `ProjectionIsReplay`, `TransitionsAuthorized`, `ApprovalDecidedOnce`, `SideEffectsOnce`, `AnswerMatchesLedger`, `NoPermissionOutOfForce`, `PaymentsUnblocked` | `Ledger` | `...Holds` |
| `TypeOK`, `ChainIntact`, `AppliedOnce`, `CommandsOnRecord`, `NonceSingleOwner`, `SecondGateAnswers`, `RowsAgreeUnlessOvertaken` | `PostgresLedger` | `PostgresTypeCorrect`, `...Holds` |
| `ExportFaithful`, `AlteredBundlesFail` | `Evidence` | `ExportFaithfulHolds`, `AlteredBundlesFailHolds` |
| what a signed summary binds | any two bundles | `SignatureBindsContents` |
| `WireTypeOK`, `OneEffect`, `OneAnswer`, `AcceptedOnRecord`, `RefusedLeavesNothing`, `StillActionable`, `RevocationOvertakenOnce` | `WireGateway` | `WireTypeCorrect`, `...Holds` |
| `SideEffectsOnce`, `TransitionsAuthorized` | `WireGateway` | `WireSideEffectsOnce`, `WireTransitionsAuthorized` |
| `TypeOK`, `OneBrowserPerLogin`, `OperatedWhileLoggedIn`, `CookieOutlivesLogin` | `ConsoleSession` | `ConsoleTypeCorrect`, `...Holds` |
| `AllowIffNothingObjects`, `HoldOnlyWithinAuthority`, `DelegateAllowsNoMore`, `NeverWidens` | `MCPolicyEngine` | `...Holds` |
| the meaning of `Evaluate` and of `DelegationViolations` | any policy input, any chain | `AllowMeansUnobjected`, `HoldMeansWithinAuthority`, `DelegationMeansWhole` |

### The contract

From `ContractAssumption` (a link value that is no record, well-typed asks and
limits, finitely many requests).

- `TypeOK` is inductive once it says that a registered deal is linked to a
  record; every other proof starts from it.
- `OpenApprovalsCounted`: the induction needs `UnregisteredIdle` (a deal nobody
  registered has no open approval), or registration could reset a count. Each
  of the three counting actions adds or removes one element of `PendingFor`;
  that the floor at zero in `Close` is never used follows from the equality
  itself.
- `DisputeIsAState`: by `EveryDealStep`, a lemma that reduces every step to
  "the row keeps its state and dispute counter, or makes one move of the
  table"; `MoveKeepsDispute` does the table. `PaidAsAccepted` and
  `NothingCommittedEarly` (nothing is committed before an agreement; no run
  checks it) follow from the same reduction.
- `OverCapNeedsOverride`: only the two committing actions raise the sum;
  `Perform` keeps it within the cap, a grant leaves a granted approval behind,
  and no step takes that away.

### The in-memory ledger

From `LedgerAssumption`: request ids and command ids differ, finitely many
requests (an approval count is a number), well-typed mandates and proposals.

- *Refinement.* Each operation maps to one action of the contract or to none.
  The one fact beyond types is `HeldAreSeen` (a request with an approval has
  claimed its id), without which `Hold` could overwrite an approval. The
  contract's theorems then reach the ledger: `OneContract` shows that the
  instance the runs check and the instance that carries the theorems are the
  same formula, `AssumptionsMet` that the ledger's constants meet the
  contract's assumption.
- *What a step does.* `Operations` lists the seven ways in which an operation
  extends the chains (`Performs`, `Holds`, `Records`, `Reports`, `Grants`,
  `Dismisses`, `Withdraws`), each with the entries it appends. The chain
  invariants are proved over `Operations` and never look at the handlers again.
  `Sound` adds `HeldAreLinked` and `UnknownAreEmpty`.
- `SideEffectsOnce` is not inductive: it needs that what has had its effect is
  used up (`DecidedAreStored`, `MovedAreSpent`) and that what is stored was
  decided somewhere (`StoredAreDecided`).
- `ApprovalDecidedOnce` is: the trail of an approval is exactly what its status
  says (`TrailFits`).
- `ProjectionIsReplay` is about a recursive function over a chain. Induction
  over data is out of the provers' reach, so the lemmas of `CommitPlansProofs`
  argue from a least counterexample on the length: replaying a longer chain
  starts with replaying the shorter one.
- `PaymentsUnblocked` relates places of a chain to counters: `LastMove` ties
  the last transition to the row, the trails tie open approvals to pending
  rows, and the contract's `OpenApprovalsCounted` and `DisputeIsAState`, carried over by
  the refinement, tie those to the counters that the engine reads.

### The PostgreSQL ledger

From four assumptions. `PostgresAssumption`: ids, keys and commands differ,
finitely many sessions. `DatabasesAssumption` and `DatabasesAgree`: the calls
before the run left well-formed tables whose rows agree with their chains, whose
open approvals are counted and whose approvals have a claimed request. That is
what the in-memory theorems say of calls that come one after the other.
`JobsAssumption`: a proposal is committed to the deal it names, and a person
decides an approval on its own deal (`decide_approval` in
`api/routes/operations.py` answers 404 otherwise).

- Every statement of a session has one of six effects (`Effect`: it starts,
  reads, wins a claim, loses one, fails, commits), and each of the fourteen
  actions is shown to have one of them. The invariants are proved over
  effects; only a commit writes rows.
- `ChainIntact` from `Chained`: the rows of a deal are numbered from 1 without
  a gap or a repetition, each carries the identity of the row before it, and a
  call about to write builds on a row of that chain. The unique sequence
  number does the rest: two calls on one head want the same number.
- `AppliedOnce`, `CommandsOnRecord` and `NonceSingleOwner` from
  `Exclusive` (no two open calls hold one uncommitted key), `Ours` (what is
  committed already is no claim of an open call, except its own record's
  nonce), `Attributed` (every row is the work of an ended call that committed
  its first claim) and `Owned`. `SecondGateAnswers` from `Retried`: a call that
  lost a claim finds the decision that won.
- `RowsAgreeUnlessOvertaken` from `Copies`: the copy of a call that is not
  outdated is what is stored (`Fresh`), and a deal's open approvals are counted
  in its row (`Counted`), so that a grant's decrement is the one `Replay` makes.

### Evidence

From the assumptions of the PostgreSQL ledger: an export reads what its calls
leave. `DatabasesAgree` says besides that the last transition of each start
chain led to the row's state and that a revocation on a chain is a stored one.

- `ExportFaithful` from `Led` (the last transition of a chain led to the state
  in the row of a deal that is not overtaken, the only part of the row
  `verify_bundle` compares) and `Withdrawn` (what a chain says of
  revocations is in the table), both kept by every commit. `ExportOK` carries
  them from read to read: the row that was read first still has its chain
  unless a call committed in between (`Torn`), and revocations, read last, are
  never taken back.
- That the exported chain verifies is about two recursive functions.
  `EventStepsExist` and `ChainVerifies` argue from a least counterexample on
  the position: `Whole` (rows numbered without a gap, each citing the one before,
  from `Chained`) makes each event's predecessor the one before it.
- `AlteredBundlesFail` needs no invariant. Every alteration keeps the
  signature or has another key's (`AlteredIs`); a bundle that verifies is bound
  by its summary to the verifier's key, and two that are bound by one signature
  have the same contents (`SignatureBindsContents`, for bundles of any kind). It
  rests on the reading of hashes and signatures as injective (section 2).

### The gateway over the wire

From `LedgerAssumption` and `WireAssumption`: finitely many envelopes, well
typed, and a proposal that names the envelope's deal and key. Message ids need not
differ, from each other or from the console's commands. The fairness of
`WireSpec` is not used.

- *What a step does.* A registration is three transactions, so `TypeOK` of
  `Ledger` does not hold here: a deal may have no link yet. `WireShape` asks
  only that a link has its deal and record, and the lemmas about the ledger's
  operations are stated under what remains (`Consistent`). With them every step
  of the gateway is `Quiet`, a call of the console (`ByConsole`), or a
  handler's commit (`ByProposal`, `ByEvent`); `Kept` says what no step
  forgets. The invariant is proved over these.
- `ReadStands` is about a handler between its read and its commit: an event
  that had a transition in the row it read has one in the stored row, or the
  console has taken it away since (`MovedAway`). It is why only the allow of
  such a deal can be told without being on a chain.
- `WireInvariant` relates chains, seen commands, registry and answers. What was
  decided came in a proposal of a sender the deal's mandate admits, and a
  process that is up knows the deal (`DecidedForPeers`); what moved a deal
  under a peer's command came from an envelope that asked for it
  (`MovedByPeers`), and a peer's command is only spent where it moved a
  deal (`SpentHaveMoved`). `HeldAreSeen` and `Effects` are the
  ledger's own.
- `AnswersStand` is the heart: a stored answer, and the one a handler is about to
  store, agrees with the chains. An acceptance has its entry; a refusal has
  none and never gets one, because the slot is taken. Two exceptions are written
  into it: the allow the console has outrun, and an identity that something else
  carries too (`OnlyCarrier`). A process that dies
  between the commit and the stored answer leaves the entry without an answer;
  the redelivery then finds the key's decision (`idempotent_hit`) or the spent
  command (`already_applied`), whose entry is the envelope's own by the
  invariants before. The proof shows it of each answer the two handlers give
  (`ProposalStands`, `EventStands`).
- `OneAnswer` from `ToldOK`: what a sender was told is what its slot says, and
  a slot never changes. The count of the peers' events in `OneEffect` is an
  injection from places of chains to signed envelopes.
- `RevocationOvertakenOnce`: `NoPermissionOutOfForce` of `Ledger` does not hold
  behind the gateway, because the record can be revoked after the claim was
  built. What holds is that one request gets past a revocation and no more. The
  induction needs `RevocationsBind` (a chain with a revocation has a stored
  one that binds whoever reads it now) and `ClaimIsFirst` (while a claim that was
  built before a revocation is open, no permission stands behind that
  revocation); one process has one claim open, which is why there is one.
- `SideEffectsOnce` and `TransitionsAuthorized` hold of this larger system too:
  its steps are operations of the ledger or append nothing.

### Console sessions

From `ConsoleAssumption` (finitely many requests in flight, each browser's
number of tabs and the bounds are numbers).

- `OneBrowserPerLogin` and `OperatedWhileLoggedIn` from `Owned`: an
  authenticated session has its login on record, and a request that waits for
  its form behind the guard has a session that is authenticated as long as it
  is there. Both rest on `Drawn`: a login's token is one that no cookie and no
  request has carried before.
- `CookieOutlivesLogin` from `Alive`: two browsers hold one token only if
  another page handed it on, a browser with one tab has one request in flight,
  and the session of that request is there.

### Policy engine and delegation

`AllowMeansUnobjected`, `HoldMeansWithinAuthority` and `DelegationMeansWhole`
speak of any input and any chain; the others of the behaviours of
`MCPolicyEngine` with any actions, states and number of facts.

- `EvaluateSays` turns the ordered list into one implication per outcome. A hold
  (`HoldMeansWithinAuthority`) implies everything checked before step 10:
  validity, window, chain, audience, vocabulary, authority, state, both payment
  blocks, declarations, currency and the absence of a near-certain leak.
- `DelegationMeansWhole`: `Climb` is a recursive function of the number of
  steps. A least counterexample shows that its n-th value is the path of the n
  next ancestors, or where it ended before; `DelegationViolations` is empty
  exactly if that path reaches a root and every hop narrows
  (`Whole`). `ChainOK` says what chains are meant: records of one line, of
  which the root alone may name a wrong parent.
- `WholeNarrows`: narrowing is transitive along a whole chain (again by a least
  counterexample), so what the last record is allowed every one above it is:
  `DelegateAllowsNoMore`.
- `NeverWidens`: no cautious fact makes a decision more permissive, but for one
  case that the order of steps 10 and 11 makes (`HeldBeforeLimit`, section 6): a
  counteroffer without rounds left that now exceeds the cap. `Cautioner` says
  that every check that objects to the input objects to the next one, with that
  exception. Each of the facts is shown to turn an input into such a one or to
  break a link (`Turned`). `Shape` holds what this needs of the states: the
  reported links are those of the chain, and a mandate under a whole chain is
  no wider than the root.

### Only model-checked

Every invariant and every step property of the passing runs is proved. What is left:

- `Answered` and `EventuallyAnswered`: liveness under fairness is out of the
  provers' reach.
- The five documented statements of section 6 are refuted by TLC; a refutation
  needs no proof.

## 6. Where the code departs from its documents

1. **Captures and open approvals** (`captures`). `specs/state-machine.md:107`
   rules out a capture while a required approval is open. The block is in the
   engine, so it binds the agent's proposals only: a `payment_confirmed` of
   the boundary, or the grant of another held payment, captures. What does
   hold is `PaymentsUnblocked`, for the payments the agent makes on its own.
2. **Resolving a dispute** (`resolution`). An allowed `resolve_dispute` leaves
   `open_disputes` as it was: the rule is in `apply_action`, which the commit
   calls only for an action that has an event
   (`ledger/commit_plans.py:185`). ADR-0009 says the rule is there so that a
   dispute can be closed.
3. **Two grants of one approval** (`pg_single_use`). Over PostgreSQL the
   approval is read without a lock and rewritten without a guard, so two
   decisions under two commands may both commit. The in-memory store keeps
   `ApprovalDecidedOnce`.
4. **A decision no chain records** (`pg_stale_answer`). When the deal moves
   between the boundary's read and the commit, the caller is told an allow
   that was never appended; a proposal that loses its nonce claim leaves a
   stored decision without an entry. Over the wire the allow is told in a signed
   receipt (`services.py:81`, `transport/gateway.py:405`): `AcceptedOnRecord`
   excepts exactly this answer.
5. **A late redelivery** (`wire_stale_redelivery`). An envelope whose effect
   is committed but whose answer was not stored is refused as stale after the
   freshness window, although the comment at `transport/gateway.py:494` says
   it gets its original outcome.

Eight more were met while modelling and proving and have no run of their own.

- The docstring of `register_deal` (`transport/gateway.py:284`) says
  "(idempotent)". `create_deal` raises for a deal that exists, so a process
  that dies after the first transaction leaves a deal that registering again
  cannot finish. `WireTypeOK` says what does hold however far a registration
  came: a link has its deal and its record.
- A deal row rewritten from an outdated copy no longer says what its chain
  says, or, by a grant, moves on in both from a state it had left.
  `RowsAgreeUnlessOvertaken` says that this is the only way the two part; an
  export of such a deal fails its own verification.
- ADR-0011 (`docs/decisions/ADR-0011-local-api-security.md:45`) calls the
  session sliding. The cookie is renewed with every response; the form token
  is made once per session and expires, and with it every form of a session
  that is still in use.
- An export with a call between its reads can verify although the deal's
  counters in it are older than its chain: no check binds them
  (`AlteredBundlesFail` leaves them out for that reason).
- ADR-0012 (`docs/decisions/ADR-0012-transport-envelope.md:84`) says of a
  counterparty event that "the sender must be the deal's registered counterparty
  identity". The handler asks the process's registry
  (`transport/gateway.py:414`), which learns of a deal the console registered
  only at the next start: until then any known sender's event is applied. When
  the process dies before it has stored that answer, the redelivery after the
  restart is refused as `wrong_audience` although its event is in the chain.
  `RefusedLeavesNothing` leaves that answer out for this reason, and its proof
  shows that it is the only one of a handler that has to be left out for an
  event whose identity nothing else carries. (For a proposal the deal has to be
  in the registry.)
- A message id is the command of an event (`transport/gateway.py:434`), and
  nothing checks that it is new: an event under an id that was used before is
  accepted as already applied (lines 447-448), whatever the id was used for.
  `AcceptedOnRecord` and `RefusedLeavesNothing` speak of events whose identity
  nothing else carries (`OnlyCarrier`).
- A proposal whose claim was built (`transport/gateway.py:371`) before its
  record was revoked is decided, and may be allowed, behind the revocation.
  `RevocationOvertakenOnce` says that this happens once per revocation.
- `docs/threat-model.md:37` (row 16) calls `max_negotiation_rounds` a hard
  limit, past which the engine denies. Step 10 of `evaluate`
  (`policy/engine.py:264`) precedes step 11 (line 275), so a counteroffer that is
  over the cap as well is held for a person. `NeverWidens` has this as its one
  exception.

## 7. Not modelled

Canonical bytes, Ed25519, key files, JSON shapes, body limits, logging and
pages: data and I/O without a decision of their own. The screen's patterns,
its service and the conversion of probabilities are text and number processing
before the engine's input. `verify_receipt` tells a sender that an answer is
genuine and keeps no state. Timelines and checksum files of an export, and the
command line of `verify_ledger.py`, repeat what the bundle says. The pilot is
a script over the modelled parts. The append-only triggers of the database
forbid updates no modelled operation makes. `PROJECT.json` gives the status of
each component.

## 8. Plan

The planned modules are written, and every invariant and step property of the
passing runs is proved. What could come next:

1. `ProjectionIsReplay`, `AnswerMatchesLedger` and `ApprovalDecidedOnce` of the
   ledger behind the gateway. They are kept by `Operations`; what is missing is
   that a registration cut short keeps them.
2. The refinement of `PostgresLedger` into `Ledger` for deals that are not
   overtaken, which would give the interleaved store the contract's promises.
3. A run for the event of a sender that is not the counterparty (section 6).
