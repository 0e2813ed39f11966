----------------------------- MODULE MCSessions -----------------------------
(***************************************************************************)
(* Values for the constants of Sessions: after a reconnect the coordinator *)
(* may send a job again, under the job_id it had.                          *)
(***************************************************************************)
EXTENDS Sessions, TLC

CONSTANTS r1, r2, j1

MCOldJob == r1 :> j1
MCNewJob == r2 :> j1
=============================================================================
