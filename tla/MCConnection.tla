---------------------------- MODULE MCConnection ----------------------------
(***************************************************************************)
(* Values for the constants of Connection: the agent alone, or beside one  *)
(* `enroll` command, and two provider ids.                                 *)
(***************************************************************************)
EXTENDS Connection

CONSTANTS agent, enroll, p1, p2
=============================================================================
