---------------------------- MODULE ServerRequests ----------------------------
(***************************************************************************)
(* What the server lets through and what it keeps: tenant deletion, the    *)
(* artifact table, secret migration, a flow's files, the registry and the  *)
(* records, web access, egress, replays.  As in ServerDuties one of them   *)
(* moves in a behaviour, and the others stay as they began.                *)
(***************************************************************************)
EXTENDS TenantDeletion, ArtifactTable, SecretMigration, FlowFiles, RecordSync,
        WebAccess, Egress, FlowReplay

VARIABLE part      (* the part that moves                                  *)

requestVars == <<part, deletionVars, tableVars, migrationVars, fileVars, syncVars,
                 accessVars, egressVars, replayVars>>

-----------------------------------------------------------------------------
(* Any initial state would do for a part that does not move.                *)
RestingFlow ==
  flow = (CHOOSE f \in Flow : TRUE) /\ purpose = "play" /\ env = (CHOOSE e \in RunEnv : TRUE)

RequestsInit ==
  /\ part \in {"deletion", "table", "migration", "files", "sync", "access", "egress", "replay"}
  /\ part # "deletion" => adapter = "none"
  /\ part # "files" => steps = [s \in Step |-> "find"]
  /\ part # "access" => mode = "local"
  /\ part # "egress" => operator = CHOOSE o \in Operators : TRUE
  /\ part # "replay" => RestingFlow
  /\ DeletionInit /\ TableInit /\ MigrationInit /\ FilesInit /\ SyncInit
  /\ AccessInit /\ EgressInit /\ ReplayInit

RestBut(p) ==
  /\ part = p /\ UNCHANGED part
  /\ p # "deletion" => UNCHANGED deletionVars
  /\ p # "table" => UNCHANGED tableVars
  /\ p # "migration" => UNCHANGED migrationVars
  /\ p # "files" => UNCHANGED fileVars
  /\ p # "sync" => UNCHANGED syncVars
  /\ p # "access" => UNCHANGED accessVars
  /\ p # "egress" => UNCHANGED egressVars
  /\ p # "replay" => UNCHANGED replayVars

RequestsNext ==
  \/ RestBut("deletion") /\ DeletionNext
  \/ RestBut("table") /\ TableNext
  \/ RestBut("migration") /\ MigrationNext
  \/ RestBut("files") /\ FilesNext
  \/ RestBut("sync") /\ SyncNext
  \/ RestBut("access") /\ AccessNext
  \/ RestBut("egress") /\ EgressNext
  \/ RestBut("replay") /\ ReplayNext

RequestsSpec == RequestsInit /\ [][RequestsNext]_requestVars

-----------------------------------------------------------------------------
\* Type invariant of every part, where it moves.
RequestsTypeOK ==
  /\ part = "deletion" => DeletionTypeOK
  /\ part = "table" => TableTypeOK
  /\ part = "migration" => MigrationTypeOK
  /\ part = "files" => FilesTypeOK
  /\ part = "sync" => SyncTypeOK
  /\ part = "access" => AccessTypeOK
  /\ part = "egress" => EgressTypeOK
  /\ part = "replay" => ReplayTypeOK
=============================================================================
