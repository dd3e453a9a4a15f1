---------------------------- MODULE MCSessionPair ----------------------------
(***************************************************************************)
(* TLC instance of Sessions with two interchangeable connections of one    *)
(* browser tab, for the safety properties.                                 *)
(***************************************************************************)
EXTENDS Sessions, TLC

ConnSymmetry == Permutations(Conn)
=============================================================================
