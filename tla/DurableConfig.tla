---------------------------- MODULE DurableConfig ----------------------------
(***************************************************************************)
(* What the managed data directory promises: one committed configuration   *)
(* that is only ever replaced by a later revision, and acknowledgements of *)
(* committed configurations only.  Managed implements this specification.  *)
(***************************************************************************)
EXTENDS Naturals

CONSTANTS Documents, NoDocument

VARIABLES
  committed,  \* [doc, revision] a restart after any crash recovers
  acked       \* [doc, revision] of the newest change a client was told succeeded

Config(d, r) == [doc |-> d, revision |-> r]
Nothing == Config(NoDocument, 0)

ConfigInit == committed = Nothing /\ acked = Nothing

Commit ==
  /\ committed'.doc \in Documents
  /\ committed'.revision \in Nat /\ committed'.revision > committed.revision
  /\ UNCHANGED acked

Acknowledge ==
  /\ acked' = committed
  /\ UNCHANGED committed

ConfigNext == Commit \/ Acknowledge

ConfigSpec == ConfigInit /\ [][ConfigNext]_<<committed, acked>>
=============================================================================
