--------------------------- MODULE MCGatewayTurns ---------------------------
(***************************************************************************)
(* Two clients, of which each may stop a turn of its own, meet in a chat;  *)
(* a client may have one turn at a time.                                   *)
(***************************************************************************)
EXTENDS GatewayTurns
=============================================================================
