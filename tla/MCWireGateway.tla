---------------------------- MODULE MCWireGateway ----------------------------
(***************************************************************************)
(* TLC harness of WireGateway: one deal from a draft to a counteroffer of  *)
(* the peer's or a cancellation, with a reused key, a message identity     *)
(* that the console uses too, a forged message and a wrong sender.         *)
(***************************************************************************)
EXTENDS WireGateway

\* The mandate names its counterparty; it is in force throughout.
MCMandate ==
  [r \in RecordId |->
    [ status |-> "active", signed |-> TRUE, nonce |-> 1, not_before |-> 0,
      expires_at |-> 2, counterparty |-> "peer",
      allowed_actions |-> ActionToken, prohibited_actions |-> {},
      requires_human_approval_for |-> {}, spend_cap |-> 1,
      currency |-> "usd", max_negotiation_rounds |-> 2,
      disclosure_fields |-> {} ]]

Proposal(key, action, text) ==
  [ deal |-> "d1", key |-> key, action |-> action, amount |-> NoAmount,
    disclosure_fields |-> {}, text |-> text ]

\* The screen is not configured, or finds nothing.
ScreenAnswers ==
  { [present |-> TRUE, available |-> available, hostility |-> 0,
     detected |-> <<>>] : available \in BOOLEAN }

Message(kind, sender, key, message, time, proposal, event) ==
  [ kind |-> kind, sender |-> sender, recipient |-> "self", genuine |-> TRUE,
    parses |-> TRUE, key |-> key, message |-> message, issued_at |-> time,
    deal |-> "d1", proposal |-> proposal, event |-> event, noted |-> FALSE ]

Ask == Proposal(1, "request_quote", FALSE)
Leave == Proposal(2, "cancel_deal", TRUE)
Again == Proposal(1, "cancel_deal", FALSE)
Elsewhere == Proposal(4, "request_quote", FALSE)
MCProposals == {Ask, Leave, Again, Elsewhere}

\* The console enters the quote, or asks for it before the gateway does.
ConsoleEvents == [d \in DealId |-> {"quote_requested", "quote_received"}]

\* "leave" is sent with a clock ahead of ours, and "counter" with the key of
\* "ask"; "echo" comes from a peer that is not the deal's counterparty, under the
\* identity of the console's command.
MCContent ==
  [e \in Envelope |->
    CASE e = "ask" -> Message("proposal", "peer", 1, 101, 0, Ask, "none")
      [] e = "leave" -> Message("proposal", "peer", 2, 102, 1, Leave, "none")
      [] e = "counter" ->
           [Message("counterparty_event", "peer", 1, 103, 0, Ask,
                    "counteroffered") EXCEPT !.noted = TRUE]
      [] e = "echo" ->
           Message("counterparty_event", "other", 3, 201, 0, Ask, "cancelled")
      [] e = "again" -> Message("proposal", "peer", 1, 104, 0, Again, "none")
      [] e = "stranger" ->
           Message("proposal", "other", 4, 105, 0, Elsewhere, "none")
      [] e = "forged" ->
           [Message("counterparty_event", "peer", 4, 106, 0, Ask, "cancelled")
              EXCEPT !.genuine = FALSE]
      [] e = "receipt" -> Message("receipt", "peer", 5, 107, 0, Ask, "none")]
=============================================================================
