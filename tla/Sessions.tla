------------------------------ MODULE Sessions ------------------------------
(***************************************************************************)
(* Two sessions of one agent, one after the other.  When a session ends,   *)
(* connect_once aborts the heartbeat and drops its executor; the driver    *)
(* tasks it spawned are detached and run on beside those of the next       *)
(* session, which has a counter, a table and a channel of its own.         *)
(*                                                                         *)
(* Each session is a JobExecutor.  The second one starts when connect_once *)
(* is back in its read loop, any time after the first was closed.          *)
(***************************************************************************)
EXTENDS Integers, Sequences, FiniteSets

CONSTANTS
  OldReqs, NewReqs,   \* the job frames of each session
  OldJob, NewJob,     \* the job_id each frame carries
  JobIds, MaxConcurrent, CounterSize, ChanCap, MaxChunks, Errors, NoReq

VARIABLES
  o_in_flight, o_active, o_loop, o_cur, o_code, o_phase, o_abort, o_emitted,
  o_sent, o_final, o_chan, o_open, o_log, o_freed,
  n_in_flight, n_active, n_loop, n_cur, n_code, n_phase, n_abort, n_emitted,
  n_sent, n_final, n_chan, n_open, n_log, n_freed,
  up,  \* which session the agent is in: "old", "none" or "new"
  left \* history: o_emitted when the first session ended

oldVars == <<o_in_flight, o_active, o_loop, o_cur, o_code, o_phase, o_abort,
             o_emitted, o_sent, o_final, o_chan, o_open, o_log, o_freed>>
newVars == <<n_in_flight, n_active, n_loop, n_cur, n_code, n_phase, n_abort,
             n_emitted, n_sent, n_final, n_chan, n_open, n_log, n_freed>>
vars == <<oldVars, newVars, up, left>>

Old == INSTANCE JobExecutor WITH
  Reqs <- OldReqs, JobOf <- OldJob, Routed <- OldReqs,
  in_flight <- o_in_flight, active <- o_active, loop <- o_loop, cur <- o_cur,
  code <- o_code, phase <- o_phase, abort <- o_abort, emitted <- o_emitted,
  sent <- o_sent, final <- o_final, chan <- o_chan, open <- o_open,
  log <- o_log, freed <- o_freed

New == INSTANCE JobExecutor WITH
  Reqs <- NewReqs, JobOf <- NewJob, Routed <- NewReqs,
  in_flight <- n_in_flight, active <- n_active, loop <- n_loop, cur <- n_cur,
  code <- n_code, phase <- n_phase, abort <- n_abort, emitted <- n_emitted,
  sent <- n_sent, final <- n_final, chan <- n_chan, open <- n_open,
  log <- n_log, freed <- n_freed

ASSUME SessionsAssumption ==
  /\ OldJob \in [OldReqs -> JobIds] /\ NewJob \in [NewReqs -> JobIds]
  /\ NoReq \notin OldReqs \cup NewReqs
  /\ MaxConcurrent \in Nat \ {0}
  /\ CounterSize \in Nat /\ CounterSize > MaxConcurrent + 1
  /\ ChanCap \in Nat \ {0}
  /\ MaxChunks \in Nat
  /\ Errors \subseteq Old!BackendErrors

Init ==
  /\ Old!Init /\ New!Init
  /\ up = "old" /\ left = [r \in OldReqs |-> 0]

(* A step of the first session, or of a driver task it left behind.        *)
OldStep ==
  /\ Old!Next
  /\ \/ /\ up = "old" /\ ~o_open'
        /\ up' = "none" /\ left' = o_emitted'
     \/ /\ up # "old" \/ o_open'
        /\ UNCHANGED <<up, left>>
  /\ UNCHANGED newVars

(* run reconnects: a new executor and a new channel.                       *)
Reconnected ==
  /\ up = "none" /\ up' = "new"
  /\ UNCHANGED <<oldVars, newVars, left>>

NewStep ==
  /\ up = "new" /\ New!Next
  /\ UNCHANGED <<oldVars, up, left>>

Next == OldStep \/ Reconnected \/ NewStep

Spec == Init /\ [][Next]_vars

(* The fairness of JobExecutor, for the tasks of the first session.        *)
FairSpec ==
  /\ Spec
  /\ \A r \in OldReqs :
       /\ WF_vars(Old!Deadline(r) /\ UNCHANGED <<newVars, up, left>>)
       /\ SF_vars(Old!SendFinal(r) /\ UNCHANGED <<newVars, up, left>>)
       /\ WF_vars(Old!Release(r) /\ UNCHANGED <<newVars, up, left>>)
       /\ WF_vars(Old!Remove(r) /\ UNCHANGED <<newVars, up, left>>)
       /\ WF_vars(Old!Drop(r) /\ UNCHANGED <<newVars, up, left>>)

-----------------------------------------------------------------------------
(***************************************************************************)
(* A job the first session left behind puts work on the backend only until *)
(* its next chunk: its task takes at most one more chunk from the backend  *)
(* after the session ended, whenever the agent reconnects and whatever the *)
(* new session does.                                                       *)
(***************************************************************************)
OrphanStops ==
  up # "old" => \A r \in OldReqs : o_emitted[r] <= left[r] + 1

(***************************************************************************)
(* The overload of a reconnect passes: the tasks of the first session end. *)
(***************************************************************************)
OrphansEnd == up = "new" ~> \A r \in OldReqs : ~Old!Live(r)
=============================================================================
