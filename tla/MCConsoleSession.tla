-------------------------- MODULE MCConsoleSession --------------------------
(***************************************************************************)
(* TLC instance of ConsoleSession: one browser that sends a request at a   *)
(* time and one with two tabs.                                             *)
(***************************************************************************)
EXTENDS ConsoleSession, TLC

OneTabAndTwo == [b \in {"b1", "b2"} |-> IF b = "b1" THEN 1 ELSE 2]
SlotSymmetry == Permutations(Slots)
=============================================================================
