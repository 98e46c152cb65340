----------------------------- MODULE MCPgServer -----------------------------
(* Instances of PgServer for TLC. *)
EXTENDS PgServer
=============================================================================
