-------------------------- MODULE MCCommandRunner --------------------------
(***************************************************************************)
(* Small instances of CommandRunner: the worker r and the cancellers c, d. *)
(***************************************************************************)
EXTENDS CommandRunner

CONSTANTS r, c, d

OnlyLeader == {"leader"}
=============================================================================
