---------------------------- MODULE MCTurnLifecycle ----------------------------
(* Small instances of the turn lifecycle for TLC. *)
EXTENDS TurnLifecycle

TwoTurns == 1 .. 2
TwoModes == <<"full-access", "approval-required">>
=============================================================================
