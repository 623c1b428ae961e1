---------------------------- MODULE MCTerminalManager ----------------------------
(* Two terminals of one thread for TLC. *)
EXTENDS TerminalManager

CONSTANTS x, y, c1, c2

XY == {x, y}
\* SIGTERM throws for the second process, not for the first.
SecondRefuses == <<{"none"}, {"SIGTERM"}>>
OneThread == x :> "thread-1" @@ y :> "thread-1"
=============================================================================
