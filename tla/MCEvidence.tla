----------------------------- MODULE MCEvidence -----------------------------
(***************************************************************************)
(* TLC harness of Evidence: an export of the first deal beside two of      *)
(* MCPostgresLedger's calls.                                               *)
(***************************************************************************)
EXTENDS MCPostgresLedger, Evidence
=============================================================================
