--------------------------- MODULE SessionsProofs ---------------------------
(***************************************************************************)
(* Theorems about Sessions, for any two sets of job frames.  Each session  *)
(* is a JobExecutor whatever the other does, so that what JobPromiseProofs *)
(* shows of a session holds of both: its facts are cited for the variables *)
(* of the first (OldProofs) and of the second session (NewProofs).         *)
(***************************************************************************)
EXTENDS Sessions, TLAPS

OldProofs == INSTANCE JobPromiseProofs WITH
  Reqs <- OldReqs, JobOf <- OldJob, Routed <- OldReqs,
  in_flight <- o_in_flight, active <- o_active, loop <- o_loop, cur <- o_cur,
  code <- o_code, phase <- o_phase, abort <- o_abort, emitted <- o_emitted,
  sent <- o_sent, final <- o_final, chan <- o_chan, open <- o_open,
  log <- o_log, freed <- o_freed

NewProofs == INSTANCE JobPromiseProofs WITH
  Reqs <- NewReqs, JobOf <- NewJob, Routed <- NewReqs,
  in_flight <- n_in_flight, active <- n_active, loop <- n_loop, cur <- n_cur,
  code <- n_code, phase <- n_phase, abort <- n_abort, emitted <- n_emitted,
  sent <- n_sent, final <- n_final, chan <- n_chan, open <- n_open,
  log <- n_log, freed <- n_freed

-----------------------------------------------------------------------------
(* The first session.                                                      *)

(* What JobExecutor assumes of its constants holds of this session's.      *)
LEMMA OldConstants == OldProofs!ConstantsAssumption
  BY SessionsAssumption
  DEF OldProofs!ConstantsAssumption, OldProofs!BackendErrors, Old!BackendErrors

(* JobPromiseProofs extends JobExecutor: the instance of one is the        *)
(* instance of the other, definition by definition.                        *)
LEMMA OldNames ==
  /\ Old!Init <=> OldProofs!Init
  /\ Old!Next <=> OldProofs!Next
  /\ Old!vars = OldProofs!vars
  <1>1. Old!Init <=> OldProofs!Init
    BY DEF Old!Init, OldProofs!Init, Old!Done, OldProofs!Done
  <1>2. Old!Next <=> OldProofs!Next
    BY DEF Old!Next, OldProofs!Next, Old!ReadLoop, OldProofs!ReadLoop,
        Old!Driver, OldProofs!Driver, Old!Pump, OldProofs!Pump,
        Old!Pong, OldProofs!Pong, Old!Written, OldProofs!Written,
        Old!DispatchAccept, OldProofs!DispatchAccept,
        Old!DispatchReject, OldProofs!DispatchReject,
        Old!DispatchInsert, OldProofs!DispatchInsert,
        Old!RejectRelease, OldProofs!RejectRelease, Old!SendError,
        OldProofs!SendError, Old!CancelRemove,
        OldProofs!CancelRemove, Old!CancelAbort,
        OldProofs!CancelAbort, Old!CloseSession,
        OldProofs!CloseSession, Old!HeartbeatTick,
        OldProofs!HeartbeatTick, Old!BackendChunk,
        OldProofs!BackendChunk, Old!ChunkSent, OldProofs!ChunkSent,
        Old!ChunkFailed, OldProofs!ChunkFailed, Old!BackendOk,
        OldProofs!BackendOk, Old!BackendErr, OldProofs!BackendErr,
        Old!Deadline, OldProofs!Deadline, Old!SendFinal,
        OldProofs!SendFinal, Old!Release, OldProofs!Release,
        Old!Remove, OldProofs!Remove, Old!Drop, OldProofs!Drop,
        Old!taskVars, OldProofs!taskVars, Old!loopVars,
        OldProofs!loopVars, Old!Increment, OldProofs!Increment,
        Old!Decrement, OldProofs!Decrement, Old!HasRoom,
        OldProofs!HasRoom, Old!Send, OldProofs!Send, Old!Chunk,
        OldProofs!Chunk, Old!Error, OldProofs!Error, Old!Done,
        OldProofs!Done, Old!Heartbeat, OldProofs!Heartbeat,
        Old!ErrorCode, OldProofs!ErrorCode, Old!Finish,
        OldProofs!Finish, Old!CanRun, OldProofs!CanRun,
        Old!AwaitPhases, OldProofs!AwaitPhases, Old!LivePhases,
        OldProofs!LivePhases
  <1>3. Old!vars = OldProofs!vars
    BY DEF Old!vars, OldProofs!vars
  <1> QED
    BY <1>1, <1>2, <1>3

(* A step of Sessions is a step of this session or leaves it alone.        *)
LEMMA OldSession == Spec => Old!Spec /\ OldProofs!Spec
  <1>1. Init => Old!Init
    BY DEF Init
  <1>2. [Next]_vars => [Old!Next]_(Old!vars)
    BY DEF Next, vars, OldStep, NewStep, Reconnected, oldVars, Old!vars
  <1>3. Init => OldProofs!Init
    BY <1>1, OldNames
  <1>4. [Next]_vars => [OldProofs!Next]_(OldProofs!vars)
    BY <1>2, OldNames DEF Old!vars, OldProofs!vars
  <1> QED
    BY <1>1, <1>2, <1>3, <1>4, PTL DEF Spec, Old!Spec, OldProofs!Spec

(* The promises to the coordinator, by the theorems of JobPromiseProofs.   *)
LEMMA OldPromises ==
  Spec => [](/\ Old!FrameOrder /\ Old!TerminalTruthful
             /\ Old!NoSilentEnd /\ Old!CancelFindsJob)
  <1>1. OldProofs!Spec => []OldProofs!FrameOrder
    BY OldConstants, OldProofs!AnswersOrdered
  <1>2. OldProofs!Spec => []OldProofs!TerminalTruthful
    BY OldConstants, OldProofs!AnswersTruthful
  <1>3. OldProofs!Spec => []OldProofs!NoSilentEnd
    BY OldConstants, OldProofs!NoJobEndsSilently
  <1>4. OldProofs!Spec => []OldProofs!CancelFindsJob
    BY OldConstants, OldProofs!CancelFindsEveryJob
  <1>5. OldProofs!FrameOrder => Old!FrameOrder
    BY DEF Old!FrameOrder, OldProofs!FrameOrder, Old!InOrder,
        OldProofs!InOrder, Old!IsTerminal, OldProofs!IsTerminal
  <1>6. OldProofs!TerminalTruthful => Old!TerminalTruthful
    BY DEF Old!TerminalTruthful, OldProofs!TerminalTruthful, Old!Answered,
        OldProofs!Answered, Old!Terminated, OldProofs!Terminated,
        Old!ChunkCount, OldProofs!ChunkCount, Old!IsTerminal,
        OldProofs!IsTerminal
  <1>7. OldProofs!NoSilentEnd => Old!NoSilentEnd
    BY DEF Old!NoSilentEnd, OldProofs!NoSilentEnd, Old!Answered,
        OldProofs!Answered, Old!Terminated, OldProofs!Terminated,
        Old!IsTerminal, OldProofs!IsTerminal
  <1>8. OldProofs!CancelFindsJob => Old!CancelFindsJob
    BY DEF Old!CancelFindsJob, OldProofs!CancelFindsJob, Old!Live,
        OldProofs!Live, Old!LivePhases, OldProofs!LivePhases,
        Old!AwaitPhases, OldProofs!AwaitPhases
  <1> QED
    BY <1>1, <1>2, <1>3, <1>4, <1>5, <1>6, <1>7, <1>8, OldSession, PTL

(* FiniteSets is instantiated along; it has no variables.                  *)
LEMMA OldCardinality == \A set : OldProofs!Cardinality(set) = Cardinality(set)
  BY DEF Cardinality, OldProofs!Cardinality

(* The bound on the jobs of this session, and that they can be counted.    *)
LEMMA OldLoad ==
  Spec => [](/\ Cardinality(Old!Executing) \in Nat
             /\ Cardinality(Old!DoubleFreed) \in Nat
             /\ Cardinality(Old!Executing)
                  <= MaxConcurrent + Cardinality(Old!DoubleFreed))
  <1>1. OldProofs!Spec => []OldProofs!OvercommitBounded
    BY OldConstants, OldProofs!OvercommitIsBounded
  <1>2. OldProofs!Spec => []OldProofs!Countable
    BY OldConstants, OldProofs!CountableAlways
  <1>3. /\ Old!Executing = OldProofs!Executing
        /\ Old!DoubleFreed = OldProofs!DoubleFreed
    BY DEF Old!Executing, OldProofs!Executing, Old!DoubleFreed,
        OldProofs!DoubleFreed
  <1>4. OldProofs!OvercommitBounded /\ OldProofs!Countable =>
          /\ Cardinality(Old!Executing) \in Nat
          /\ Cardinality(Old!DoubleFreed) \in Nat
          /\ Cardinality(Old!Executing)
               <= MaxConcurrent + Cardinality(Old!DoubleFreed)
    BY <1>3, OldCardinality
    DEF OldProofs!OvercommitBounded, OldProofs!Countable
  <1> QED
    BY <1>1, <1>2, <1>4, OldSession, PTL

-----------------------------------------------------------------------------
(* The second session.                                                     *)

(* What JobExecutor assumes of its constants holds of this session's.      *)
LEMMA NewConstants == NewProofs!ConstantsAssumption
  BY SessionsAssumption
  DEF NewProofs!ConstantsAssumption, NewProofs!BackendErrors, Old!BackendErrors

(* JobPromiseProofs extends JobExecutor: the instance of one is the        *)
(* instance of the other, definition by definition.                        *)
LEMMA NewNames ==
  /\ New!Init <=> NewProofs!Init
  /\ New!Next <=> NewProofs!Next
  /\ New!vars = NewProofs!vars
  <1>1. New!Init <=> NewProofs!Init
    BY DEF New!Init, NewProofs!Init, New!Done, NewProofs!Done
  <1>2. New!Next <=> NewProofs!Next
    BY DEF New!Next, NewProofs!Next, New!ReadLoop, NewProofs!ReadLoop,
        New!Driver, NewProofs!Driver, New!Pump, NewProofs!Pump,
        New!Pong, NewProofs!Pong, New!Written, NewProofs!Written,
        New!DispatchAccept, NewProofs!DispatchAccept,
        New!DispatchReject, NewProofs!DispatchReject,
        New!DispatchInsert, NewProofs!DispatchInsert,
        New!RejectRelease, NewProofs!RejectRelease, New!SendError,
        NewProofs!SendError, New!CancelRemove,
        NewProofs!CancelRemove, New!CancelAbort,
        NewProofs!CancelAbort, New!CloseSession,
        NewProofs!CloseSession, New!HeartbeatTick,
        NewProofs!HeartbeatTick, New!BackendChunk,
        NewProofs!BackendChunk, New!ChunkSent, NewProofs!ChunkSent,
        New!ChunkFailed, NewProofs!ChunkFailed, New!BackendOk,
        NewProofs!BackendOk, New!BackendErr, NewProofs!BackendErr,
        New!Deadline, NewProofs!Deadline, New!SendFinal,
        NewProofs!SendFinal, New!Release, NewProofs!Release,
        New!Remove, NewProofs!Remove, New!Drop, NewProofs!Drop,
        New!taskVars, NewProofs!taskVars, New!loopVars,
        NewProofs!loopVars, New!Increment, NewProofs!Increment,
        New!Decrement, NewProofs!Decrement, New!HasRoom,
        NewProofs!HasRoom, New!Send, NewProofs!Send, New!Chunk,
        NewProofs!Chunk, New!Error, NewProofs!Error, New!Done,
        NewProofs!Done, New!Heartbeat, NewProofs!Heartbeat,
        New!ErrorCode, NewProofs!ErrorCode, New!Finish,
        NewProofs!Finish, New!CanRun, NewProofs!CanRun,
        New!AwaitPhases, NewProofs!AwaitPhases, New!LivePhases,
        NewProofs!LivePhases
  <1>3. New!vars = NewProofs!vars
    BY DEF New!vars, NewProofs!vars
  <1> QED
    BY <1>1, <1>2, <1>3

(* A step of Sessions is a step of this session or leaves it alone.        *)
LEMMA NewSession == Spec => New!Spec /\ NewProofs!Spec
  <1>1. Init => New!Init
    BY DEF Init
  <1>2. [Next]_vars => [New!Next]_(New!vars)
    BY DEF Next, vars, OldStep, NewStep, Reconnected, newVars, New!vars
  <1>3. Init => NewProofs!Init
    BY <1>1, NewNames
  <1>4. [Next]_vars => [NewProofs!Next]_(NewProofs!vars)
    BY <1>2, NewNames DEF New!vars, NewProofs!vars
  <1> QED
    BY <1>1, <1>2, <1>3, <1>4, PTL DEF Spec, New!Spec, NewProofs!Spec

(* The promises to the coordinator, by the theorems of JobPromiseProofs.   *)
LEMMA NewPromises ==
  Spec => [](/\ New!FrameOrder /\ New!TerminalTruthful
             /\ New!NoSilentEnd /\ New!CancelFindsJob)
  <1>1. NewProofs!Spec => []NewProofs!FrameOrder
    BY NewConstants, NewProofs!AnswersOrdered
  <1>2. NewProofs!Spec => []NewProofs!TerminalTruthful
    BY NewConstants, NewProofs!AnswersTruthful
  <1>3. NewProofs!Spec => []NewProofs!NoSilentEnd
    BY NewConstants, NewProofs!NoJobEndsSilently
  <1>4. NewProofs!Spec => []NewProofs!CancelFindsJob
    BY NewConstants, NewProofs!CancelFindsEveryJob
  <1>5. NewProofs!FrameOrder => New!FrameOrder
    BY DEF New!FrameOrder, NewProofs!FrameOrder, New!InOrder,
        NewProofs!InOrder, New!IsTerminal, NewProofs!IsTerminal
  <1>6. NewProofs!TerminalTruthful => New!TerminalTruthful
    BY DEF New!TerminalTruthful, NewProofs!TerminalTruthful, New!Answered,
        NewProofs!Answered, New!Terminated, NewProofs!Terminated,
        New!ChunkCount, NewProofs!ChunkCount, New!IsTerminal,
        NewProofs!IsTerminal
  <1>7. NewProofs!NoSilentEnd => New!NoSilentEnd
    BY DEF New!NoSilentEnd, NewProofs!NoSilentEnd, New!Answered,
        NewProofs!Answered, New!Terminated, NewProofs!Terminated,
        New!IsTerminal, NewProofs!IsTerminal
  <1>8. NewProofs!CancelFindsJob => New!CancelFindsJob
    BY DEF New!CancelFindsJob, NewProofs!CancelFindsJob, New!Live,
        NewProofs!Live, New!LivePhases, NewProofs!LivePhases,
        New!AwaitPhases, NewProofs!AwaitPhases
  <1> QED
    BY <1>1, <1>2, <1>3, <1>4, <1>5, <1>6, <1>7, <1>8, NewSession, PTL

(* FiniteSets is instantiated along; it has no variables.                  *)
LEMMA NewCardinality == \A set : NewProofs!Cardinality(set) = Cardinality(set)
  BY DEF Cardinality, NewProofs!Cardinality

(* The bound on the jobs of this session, and that they can be counted.    *)
LEMMA NewLoad ==
  Spec => [](/\ Cardinality(New!Executing) \in Nat
             /\ Cardinality(New!DoubleFreed) \in Nat
             /\ Cardinality(New!Executing)
                  <= MaxConcurrent + Cardinality(New!DoubleFreed))
  <1>1. NewProofs!Spec => []NewProofs!OvercommitBounded
    BY NewConstants, NewProofs!OvercommitIsBounded
  <1>2. NewProofs!Spec => []NewProofs!Countable
    BY NewConstants, NewProofs!CountableAlways
  <1>3. /\ New!Executing = NewProofs!Executing
        /\ New!DoubleFreed = NewProofs!DoubleFreed
    BY DEF New!Executing, NewProofs!Executing, New!DoubleFreed,
        NewProofs!DoubleFreed
  <1>4. NewProofs!OvercommitBounded /\ NewProofs!Countable =>
          /\ Cardinality(New!Executing) \in Nat
          /\ Cardinality(New!DoubleFreed) \in Nat
          /\ Cardinality(New!Executing)
               <= MaxConcurrent + Cardinality(New!DoubleFreed)
    BY <1>3, NewCardinality
    DEF NewProofs!OvercommitBounded, NewProofs!Countable
  <1> QED
    BY <1>1, <1>2, <1>4, NewSession, PTL

-----------------------------------------------------------------------------
(***************************************************************************)
(* The sessions do not disturb each other: with the tasks of the first     *)
(* still running, with job ids that come again, each is a JobExecutor.     *)
(***************************************************************************)
THEOREM EachSession == Spec => Old!Spec /\ New!Spec
  BY OldSession, NewSession, PTL

(***************************************************************************)
(* So the coordinator gets ordered and truthful answers, no job ends       *)
(* silently, and a cancel finds its job, before and after a reconnect.     *)
(***************************************************************************)
THEOREM PromisesOutliveReconnects ==
  Spec => [](/\ Old!FrameOrder /\ Old!TerminalTruthful
             /\ Old!NoSilentEnd /\ Old!CancelFindsJob
             /\ New!FrameOrder /\ New!TerminalTruthful
             /\ New!NoSilentEnd /\ New!CancelFindsJob)
  BY OldPromises, NewPromises, PTL

(* The inductive invariant: a task the ended session left behind has taken *)
(* no chunk since, or one, and then it does not return to the backend.     *)
OrphanInv ==
  /\ up = "old" => o_open
  /\ up # "old" =>
       /\ ~o_open
       /\ \A r \in OldReqs :
            \/ o_emitted[r] = left[r]
            \/ o_emitted[r] = left[r] + 1 /\ o_phase[r] # "exec"

LEMMA OrphanStep ==
  ASSUME OldProofs!CoreType, OldProofs!CoreType', OldProofs!OpenInv,
         OrphanInv, [Next]_vars
  PROVE  OrphanInv'
  <1>1. CASE UNCHANGED vars \/ Reconnected \/ NewStep
    BY <1>1 DEF vars, oldVars, Reconnected, NewStep, OrphanInv
  <1>2. CASE OldStep
    <2>1. [OldProofs!Next]_(OldProofs!vars)
      BY <1>2, OldNames DEF OldStep
    <2>2. CASE up = "old"
      BY <1>2, <2>2 DEF OldStep, OrphanInv
    <2>3. CASE up # "old"
      <3>1. ~o_open /\ UNCHANGED <<up, left>>
        BY <1>2, <2>3 DEF OldStep, OrphanInv
      <3>2. ASSUME NEW r \in OldReqs
            PROVE  \/ o_emitted'[r] = left[r]
                   \/ o_emitted'[r] = left[r] + 1 /\ o_phase'[r] # "exec"
        <4>1. \/ /\ o_emitted'[r] = o_emitted[r]
                 /\ o_phase'[r] = "exec" => o_phase[r] = "exec"
              \/ /\ o_phase[r] = "exec"
                 /\ o_emitted'[r] = o_emitted[r] + 1
                 /\ o_phase'[r] # "exec"
          BY <2>1, <3>1, OldConstants, OldProofs!AfterClose
        <4> QED
          BY <2>3, <4>1 DEF OrphanInv
      <3>3. ~o_open'
        BY <2>1, <3>1, OldConstants, OldProofs!ClosedStays
      <3> QED
        BY <2>3, <3>1, <3>2, <3>3 DEF OrphanInv
    <2> QED
      BY <2>2, <2>3
  <1> QED
    BY <1>1, <1>2 DEF Next

(***************************************************************************)
(* After the first session ended, each task it left behind takes at most   *)
(* one more chunk from its backend, whenever the agent reconnects and      *)
(* whatever the second session does.                                       *)
(***************************************************************************)
THEOREM OrphansStop == Spec => []OrphanStops
  <1>1. OldProofs!Spec => [](OldProofs!CoreType /\ OldProofs!OpenInv)
    BY OldConstants, OldProofs!OpenAlways
  <1>2. Init => OrphanInv
    BY DEF Init, OrphanInv, Old!Init
  <1>3. /\ OldProofs!CoreType /\ OldProofs!CoreType' /\ OldProofs!OpenInv
        /\ OrphanInv /\ [Next]_vars
        => OrphanInv'
    BY OrphanStep
  <1>4. OldProofs!CoreType /\ OrphanInv => OrphanStops
    <2>1. MaxChunks \in Nat
      BY SessionsAssumption
    <2>2. OldProofs!CoreType => o_emitted \in [OldReqs -> 0..MaxChunks]
      BY DEF OldProofs!CoreType
    <2> QED
      BY <2>1, <2>2 DEF OrphanInv, OrphanStops
  <1> QED
    BY <1>1, <1>2, <1>3, <1>4, OldSession, PTL DEF Spec

(***************************************************************************)
(* The overload of a reconnect is at most one more max_concurrent, and     *)
(* what slots released twice admit.                                        *)
(***************************************************************************)
THEOREM OverloadIsBounded ==
  Spec => [](Cardinality(Old!Executing) + Cardinality(New!Executing)
               <= 2 * MaxConcurrent + Cardinality(Old!DoubleFreed)
                    + Cardinality(New!DoubleFreed))
  <1> DEFINE Load(e, f) == /\ Cardinality(e) \in Nat /\ Cardinality(f) \in Nat
                           /\ Cardinality(e) <= MaxConcurrent + Cardinality(f)
  <1>1. Load(Old!Executing, Old!DoubleFreed)
          /\ Load(New!Executing, New!DoubleFreed) =>
          Cardinality(Old!Executing) + Cardinality(New!Executing)
            <= 2 * MaxConcurrent + Cardinality(Old!DoubleFreed)
                 + Cardinality(New!DoubleFreed)
    BY SessionsAssumption
  <1> QED
    BY <1>1, OldLoad, NewLoad, PTL
=============================================================================
