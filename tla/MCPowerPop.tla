----------------------------- MODULE MCPowerPop -----------------------------
(***************************************************************************)
(* The passing run has two backends, so that a listing or a deletion has   *)
(* the state thread, and crashes, between its visits; the violation runs   *)
(* have the two messages, or the two clients, that it takes.               *)
(***************************************************************************)
EXTENDS PowerPop
=============================================================================
