------------------------- MODULE MCAsyncSubmission -------------------------
(***************************************************************************)
(* Small instances of AsyncSubmission.  No symmetry is used, since the    *)
(* run checks liveness.                                                    *)
(***************************************************************************)
EXTENDS AsyncSubmission, TLC

CONSTANTS t1, c1

=============================================================================
