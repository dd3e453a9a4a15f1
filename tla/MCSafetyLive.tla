---------------------------- MODULE MCSafetyLive -----------------------------
(***************************************************************************)
(* TLC instance for what the safety chain does in the end: one client, a   *)
(* socket that holds one message, and a watchdog that may hang.            *)
(***************************************************************************)
EXTENDS SafetyHistory

FairHistorySpec == HistorySpec /\ Fairness
=============================================================================
