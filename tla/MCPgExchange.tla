---------------------------- MODULE MCPgExchange ----------------------------
(* Instances of PgExchange for TLC. *)
EXTENDS PgExchange

\* One statement, or a batch that opens and closes a transaction block; any may fail.
MCQueries ==
  {<<s>> : s \in {"start", "commit", "rollback_to", "copy"}} \cup {<<"begin", "commit">>, <<"begin", "rollback_to">>}
MCExecutes == {"commit"}

\* For the run about the end of the client the database only has to commit.
MCBatch == {<<"begin", "commit">>}
MCNone == {}
=============================================================================
