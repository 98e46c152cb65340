--------------------------- MODULE MCMySqlSession ---------------------------
(* Instances of MySqlSession for TLC. *)
EXTENDS MySqlSession

MCIds == {1}
=============================================================================
