---------------------------- MODULE MCSafetyChain ----------------------------
(***************************************************************************)
(* TLC instance of the safety chain.  A tick is 0.25 s, so the oneshot     *)
(* takes two.  The freshness timeout and the grace period are scaled down  *)
(* to a few ticks: every expiry and every order of two expiries still      *)
(* happens, and no property relies on which of the two is longer.          *)
(***************************************************************************)
EXTENDS SafetyHistory
=============================================================================
