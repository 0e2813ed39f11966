---------------------------- MODULE JobProtocol ----------------------------
(***************************************************************************)
(* What the agent promises the coordinator about each job frame, with no   *)
(* word of tasks, tables, counters or channels:                            *)
(*   - its answer is a run of chunks, then at most one terminal frame;     *)
(*   - job_done comes only when every chunk the backend produced was       *)
(*     delivered;                                                          *)
(*   - a job goes unanswered only if it was cancelled or the session ended.*)
(***************************************************************************)
EXTENDS Naturals

CONSTANT Reqs

VARIABLES
  status,     \* "new", "running", "done", "error" or "silent"
  produced,   \* chunks the backend has handed over
  got,        \* chunks delivered, in order
  cancelled,  \* the jobs the coordinator cancelled
  up          \* the session is up

vars == <<status, produced, got, cancelled, up>>

Init ==
  /\ status = [r \in Reqs |-> "new"]
  /\ produced = [r \in Reqs |-> 0]
  /\ got = [r \in Reqs |-> 0]
  /\ cancelled = {}
  /\ up = TRUE

Become(r, s) ==
  /\ status' = [status EXCEPT ![r] = s]
  /\ UNCHANGED <<produced, got, cancelled, up>>

Accept(r) == up /\ status[r] = "new" /\ Become(r, "running")
Refuse(r) == up /\ status[r] = "new" /\ Become(r, "error")
Fail(r)   == up /\ status[r] = "running" /\ Become(r, "error")

Complete(r) ==
  /\ up /\ status[r] = "running" /\ got[r] = produced[r]
  /\ Become(r, "done")

FallSilent(r) ==
  /\ status[r] = "running" /\ (r \in cancelled \/ ~up)
  /\ Become(r, "silent")

Produce(r) ==
  /\ status[r] = "running" /\ produced' = [produced EXCEPT ![r] = @ + 1]
  /\ UNCHANGED <<status, got, cancelled, up>>

Deliver(r) ==
  /\ up /\ status[r] = "running" /\ got[r] < produced[r]
  /\ got' = [got EXCEPT ![r] = @ + 1]
  /\ UNCHANGED <<status, produced, cancelled, up>>

Cancel(r) ==
  /\ up /\ status[r] # "new" /\ cancelled' = cancelled \cup {r}
  /\ UNCHANGED <<status, produced, got, up>>

Disconnect ==
  /\ up' = FALSE
  /\ UNCHANGED <<status, produced, got, cancelled>>

Next ==
  \/ \E r \in Reqs :
       \/ Accept(r) \/ Refuse(r) \/ Produce(r) \/ Deliver(r)
       \/ Complete(r) \/ Fail(r) \/ Cancel(r) \/ FallSilent(r)
  \/ Disconnect

Spec == Init /\ [][Next]_vars
=============================================================================
