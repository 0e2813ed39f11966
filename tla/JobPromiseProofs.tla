-------------------------- MODULE JobPromiseProofs --------------------------
(***************************************************************************)
(* What JobExecutor promises beyond the order of its answers: no job ends  *)
(* silently, the executor implements JobProtocol, a cancel finds its job,  *)
(* and the slots add up.  All rest on AnswerInv of JobExecutorProofs.      *)
(***************************************************************************)
EXTENDS JobExecutorProofs, FiniteSetTheorems

(* A step of one driver task leaves the state of the others alone.         *)
LEMMA OtherDriver ==
  ASSUME AnswerInv, NEW r \in Reqs, Driver(r), NEW q \in Reqs, q # r
  PROVE  /\ phase'[q] = phase[q] /\ log'[q] = log[q]
         /\ emitted'[q] = emitted[q] /\ freed'[q] = freed[q]
  <1>0. CoreType /\ QueueType
    BY DEF AnswerInv, TypeOK
  <1> USE DEF CoreType, QueueType
  <1>1. phase'[q] = phase[q] /\ emitted'[q] = emitted[q] /\ freed'[q] = freed[q]
    BY <1>0 DEF Driver, BackendChunk, ChunkSent, Finish, ChunkFailed,
                BackendOk, BackendErr, Deadline, SendFinal, Release, Remove,
                Drop
  <1>2. log'[q] = log[q]
    <2>1. CASE ChunkSent(r)
      BY <1>0, <2>1 DEF ChunkSent, Send, Chunk
    <2>2. CASE SendFinal(r)
      <3>1. phase[r] = "final" /\ StreamInv(r)
        BY <2>2 DEF SendFinal, AnswerInv
      <3>2. final[r].req = r
        BY <3>1 DEF StreamInv, Truthful
      <3> QED
        BY <1>0, <2>2, <3>2 DEF SendFinal, Send
    <2> QED
      BY <2>1, <2>2 DEF Driver, BackendChunk, Finish, ChunkFailed, BackendOk,
                        BackendErr, Deadline, Release, Remove, Drop
  <1> QED
    BY <1>1, <1>2

(* The terminal frame, when it is accepted, is the last one of its answer. *)
LEMMA FinalAccepted ==
  ASSUME AnswerInv, NEW r \in Reqs, SendFinal(r), Send(final[r])
  PROVE  /\ Answered(r)' /\ ~Answered(r)
         /\ log'[r][Len(log'[r])] = final[r]
         /\ ChunkCount(log'[r]) = ChunkCount(log[r])
         /\ Truthful(r, final[r])
  <1>1. phase[r] = "final" /\ StreamInv(r) /\ CoreType /\ log \in [Reqs -> Seq(Frames)]
    BY DEF SendFinal, AnswerInv, TypeOK, QueueType
  <1>2. Truthful(r, final[r]) /\ ~Terminated(log[r]) /\ InOrder(r, log[r])
    BY <1>1 DEF StreamInv, Answered
  <1> DEFINE f == final[r]
  <1>3. f \in Frames /\ IsTerminal(f) /\ f.req = r
    BY <1>1, <1>2 DEF CoreType, Truthful
  <1>4. log'[r] = Append(log[r], f) /\ log[r] \in Seq(Frames)
    BY <1>1, <1>3 DEF Send
  <1> HIDE DEF f
  <1>5. /\ Terminated(log'[r]) /\ log'[r][Len(log'[r])] = f
        /\ ChunkCount(log'[r]) = ChunkCount(log[r])
    BY <1>2, <1>3, <1>4, AppendTerminal
  <1> QED BY <1>2, <1>5 DEF Answered, f

-----------------------------------------------------------------------------
(* A driver that is past its terminal frame has answered, unless the       *)
(* session is gone; and only an aborted one is dropped.                    *)
EndInv ==
  \A r \in Reqs :
    /\ phase[r] \in {"release", "remove", "done"} /\ open => Answered(r)
    /\ phase[r] = "dropped" => abort[r] # "no"

LEMMA EndStep ==
  ASSUME AnswerInv, EndInv, [Next]_vars
  PROVE  EndInv'
  <1>0. CoreType /\ QueueType /\ \A r \in Reqs : StreamInv(r)
    BY DEF AnswerInv, TypeOK
  <1> DEFINE Ends(r) ==
        /\ phase[r] \in {"release", "remove", "done"} /\ open => Answered(r)
        /\ phase[r] = "dropped" => abort[r] # "no"
  <1>1. \A r \in Reqs : Ends(r)
    BY DEF EndInv
  <1>2. ASSUME NEW q \in Reqs, phase'[q] = phase[q], log'[q] = log[q],
               open' => open, abort'[q] = abort[q] \/ abort'[q] # "no"
        PROVE  Ends(q)'
    BY <1>1, <1>2 DEF Answered
  <1> SUFFICES ASSUME NEW q \in Reqs
               PROVE  Ends(q)'
    BY DEF EndInv
  <1>3. CASE UNCHANGED vars
    BY <1>2, <1>3 DEF vars
  <1>4. CASE \/ HeartbeatTick \/ Pump \/ Pong \/ Written \/ DispatchInsert
             \/ RejectRelease \/ CloseSession
    BY <1>2, <1>4 DEF HeartbeatTick, Pump, Pong, Written, DispatchInsert,
                      RejectRelease, CloseSession, taskVars
  <1>5. ASSUME NEW j \in JobIds, CancelRemove(j)
        PROVE  Ends(q)'
    BY <1>2, <1>5 DEF CancelRemove, taskVars
  <1>6. CASE CancelAbort
    <2>1. abort'[q] = abort[q] \/ abort'[q] # "no"
      BY <1>0, <1>6 DEF CancelAbort, CoreType
    <2> QED BY <1>2, <1>6, <2>1 DEF CancelAbort
  <1>7. ASSUME NEW r \in Reqs, DispatchAccept(r) \/ DispatchReject(r)
        PROVE  Ends(q)'
    <2>1. CASE q # r
      <3>1. phase'[q] = phase[q]
        BY <1>0, <1>7, <2>1 DEF DispatchAccept, DispatchReject, CoreType
      <3> QED BY <1>2, <1>7, <3>1 DEF DispatchAccept, DispatchReject
    <2>2. CASE q = r
      <3>1. phase'[q] \in {"exec", "rejected"}
        BY <1>0, <1>7, <2>2 DEF DispatchAccept, DispatchReject, CoreType
      <3> QED BY <3>1
    <2> QED BY <2>1, <2>2
  <1>8. CASE SendError
    <2>1. cur \in Reqs /\ phase[cur] = "rejected" /\ UNCHANGED <<taskVars, open>>
      BY <1>8 DEF SendError, AnswerInv, RefusalInv, TypeOK, CoreType
    <2>2. CASE q = cur
      BY <2>1, <2>2 DEF taskVars
    <2>3. CASE q # cur
      <3>1. log'[q] = log[q]
        BY <1>0, <1>8, <2>1, <2>3 DEF SendError, Send, Error, QueueType
      <3> QED BY <1>2, <2>1, <3>1 DEF taskVars
    <2> QED BY <2>2, <2>3
  <1>9. ASSUME NEW r \in Reqs, Driver(r)
        PROVE  Ends(q)'
    <2>1. abort' = abort /\ open' = open
      BY <1>9 DEF Driver, BackendChunk, ChunkSent, Finish, ChunkFailed,
                  BackendOk, BackendErr, Deadline, SendFinal, Release, Remove,
                  Drop
    <2>2. CASE q # r
      BY <1>2, <1>9, <2>1, <2>2, OtherDriver
    <2>3. CASE q = r
      <3>1. CASE SendFinal(q)
        <4>1. phase'[q] = "release"
          BY <1>0, <3>1 DEF SendFinal, CoreType
        <4>2. ASSUME open
              PROVE  Answered(q)'
          <5>1. Send(final[q])
            BY <3>1, <4>2 DEF SendFinal
          <5> QED BY <3>1, <5>1, FinalAccepted
        <4> QED BY <2>1, <4>1, <4>2
      <3>2. CASE Release(q) \/ Remove(q)
        <4>1. /\ phase[q] \in {"release", "remove"} /\ log' = log
              /\ phase'[q] \in {"remove", "done"}
          BY <1>0, <3>2 DEF Release, Remove, CoreType
        <4> QED BY <1>1, <2>1, <4>1 DEF Answered
      <3>3. CASE Drop(q)
        <4>1. abort[q] # "no" /\ phase'[q] = "dropped"
          BY <1>0, <3>3 DEF Drop, CoreType
        <4> QED BY <2>1, <4>1
      <3>4. CASE \/ BackendChunk(q) \/ ChunkSent(q) \/ ChunkFailed(q)
                 \/ BackendOk(q) \/ BackendErr(q) \/ Deadline(q)
        <4>1. phase'[q] \in {"exec", "chunk", "final"}
          BY <1>0, <3>4 DEF BackendChunk, ChunkSent, ChunkFailed, BackendOk,
                            BackendErr, Deadline, Finish, CoreType
        <4> QED BY <4>1
      <3> QED BY <1>9, <2>3, <3>1, <3>2, <3>3, <3>4 DEF Driver
    <2> QED BY <2>2, <2>3
  <1> QED BY <1>3, <1>4, <1>5, <1>6, <1>7, <1>8, <1>9 DEF Next, ReadLoop

LEMMA EndAlways == Spec => [](AnswerInv /\ EndInv)
  <1>1. Init => EndInv
    BY DEF Init, EndInv
  <1>2. AnswerInv /\ EndInv /\ [Next]_vars => EndInv'
    BY EndStep
  <1> QED BY <1>1, <1>2, AnswersAlways, PTL DEF Spec

(***************************************************************************)
(* A driver ends without a terminal frame only if its job was cancelled or *)
(* its session is gone, for every set of frames and every capacity.        *)
(***************************************************************************)
THEOREM NoJobEndsSilently == Spec => []NoSilentEnd
  <1>1. EndInv => NoSilentEnd
    BY DEF EndInv, NoSilentEnd
  <1> QED BY <1>1, EndAlways, PTL
-----------------------------------------------------------------------------
(* A job that no other frame shares its id with is in the table while its  *)
(* driver runs, but for the moments when the read loop holds its handle.   *)
Unique(r) == \A q \in Reqs : JobOf[q] = JobOf[r] => q = r

FoundInv ==
  \A r \in Reqs :
    Live(r) /\ abort[r] = "no" /\ Unique(r) =>
      \/ active[JobOf[r]] = r
      \/ loop \in {"insert", "abort"} /\ cur = r

LEMMA FoundStep ==
  ASSUME CoreType, FoundInv, [Next]_vars
  PROVE  FoundInv'
  <1> DEFINE Found(r) ==
        Live(r) /\ abort[r] = "no" /\ Unique(r) =>
          \/ active[JobOf[r]] = r
          \/ loop \in {"insert", "abort"} /\ cur = r
  <1> SUFFICES ASSUME NEW r \in Reqs
               PROVE  Found(r)'
    BY DEF FoundInv
  <1>1. Found(r)
    BY DEF FoundInv
  <1>2. JobOf \in [Reqs -> JobIds] /\ NoReq \notin Reqs
    BY ConstantsAssumption
  <1>3. ASSUME Live(r)' => Live(r), abort'[r] = "no" => abort[r] = "no",
               active'[JobOf[r]] = active[JobOf[r]], UNCHANGED loopVars
        PROVE  Found(r)'
    BY <1>1, <1>3 DEF loopVars, Unique
  <1>4. CASE UNCHANGED vars
    BY <1>3, <1>4 DEF vars, Live, loopVars
  <1>5. CASE HeartbeatTick
    BY <1>3, <1>5 DEF HeartbeatTick, taskVars, Live
  <1>6. CASE \/ RejectRelease \/ SendError \/ CloseSession
             \/ Pump \/ Pong \/ Written
    BY <1>1, <1>6 DEF RejectRelease, SendError, CloseSession, Pump, Pong,
                      Written, taskVars, Live, Unique
  <1>7. CASE DispatchInsert
    <2>1. /\ active' = [active EXCEPT ![JobOf[cur]] = cur] /\ cur \in Reqs
          /\ loop = "insert" /\ UNCHANGED taskVars
      BY <1>7 DEF DispatchInsert, CoreType
    <2>2. CASE cur = r
      BY <1>2, <2>1, <2>2 DEF CoreType
    <2>3. ASSUME cur # r, Live(r)', abort'[r] = "no", Unique(r)
          PROVE  active'[JobOf[r]] = r
      <3>1. JobOf[cur] # JobOf[r] /\ active[JobOf[r]] = r
        BY <1>1, <2>1, <2>3 DEF Unique, taskVars, Live
      <3> QED BY <1>2, <2>1, <3>1 DEF CoreType
    <2> QED BY <2>2, <2>3 DEF Unique
  <1>8. ASSUME NEW q \in Reqs, DispatchAccept(q) \/ DispatchReject(q)
        PROVE  Found(r)'
    <2>1. CASE q = r
      <3>1. \/ phase'[r] = "rejected"
            \/ loop' = "insert" /\ cur' = r
        BY <1>8, <2>1 DEF DispatchAccept, DispatchReject, CoreType
      <3> QED BY <3>1 DEF Live, LivePhases, AwaitPhases
    <2>2. CASE q # r
      <3>1. /\ phase'[r] = phase[r] /\ loop = "select"
            /\ abort' = abort /\ active' = active
        BY <1>8, <2>2 DEF DispatchAccept, DispatchReject, CoreType
      <3> QED BY <1>1, <3>1 DEF Live, Unique
    <2> QED BY <2>1, <2>2
  <1>9. ASSUME NEW j \in JobIds, CancelRemove(j)
        PROVE  Found(r)'
    <2>1. /\ loop = "select" /\ loop' = "abort" /\ cur' = active[j]
          /\ active' = [active EXCEPT ![j] = NoReq] /\ UNCHANGED taskVars
      BY <1>9 DEF CancelRemove
    <2> QED BY <1>1, <1>2, <2>1 DEF CoreType, taskVars, Live, Unique
  <1>10. CASE CancelAbort
    <2>1. CASE cur = r
      <3>1. abort'[r] # "no" \/ ~Live(r)'
        BY <1>10, <2>1 DEF CancelAbort, CoreType, Live
      <3> QED BY <3>1
    <2>2. CASE cur # r
      <3>1. abort'[r] = abort[r] /\ phase' = phase /\ active' = active
        BY <1>10, <2>2 DEF CancelAbort, CoreType
      <3> QED BY <1>1, <2>2, <3>1 DEF Live, Unique
    <2> QED BY <2>1, <2>2
  <1>11. ASSUME NEW q \in Reqs, Driver(q)
         PROVE  Found(r)'
    <2>1. abort' = abort /\ UNCHANGED loopVars
      BY <1>11 DEF Driver, BackendChunk, ChunkSent, Finish, ChunkFailed,
                   BackendOk, BackendErr, Deadline, SendFinal, Release, Remove,
                   Drop
    <2>2. Live(r)' => Live(r)
      BY <1>11 DEF Driver, BackendChunk, ChunkSent, Finish, ChunkFailed,
                   BackendOk, BackendErr, Deadline, SendFinal, Release, Remove,
                   Drop, CoreType, Live, LivePhases, AwaitPhases
    <2>3. CASE Remove(q)
      <3>1. CASE q = r
        <4>1. ~Live(r)'
          BY <2>3, <3>1 DEF Remove, CoreType, Live, LivePhases, AwaitPhases
        <4> QED BY <4>1
      <3>2. CASE q # r
        <4>1. Unique(r) => active'[JobOf[r]] = active[JobOf[r]]
          BY <1>2, <2>3, <3>2 DEF Remove, CoreType, Unique
        <4> QED BY <1>1, <2>1, <2>2, <4>1 DEF loopVars, Unique
      <3> QED BY <3>1, <3>2
    <2>4. CASE ~Remove(q)
      <3>1. active' = active
        BY <1>11, <2>4
        DEF Driver, BackendChunk, ChunkSent, Finish, ChunkFailed, BackendOk,
            BackendErr, Deadline, SendFinal, Release, Drop
      <3> QED BY <1>3, <2>1, <2>2, <3>1
    <2> QED BY <2>3, <2>4
  <1> QED BY <1>4, <1>5, <1>6, <1>7, <1>8, <1>9, <1>10, <1>11 DEF Next, ReadLoop

(***************************************************************************)
(* When the read loop can receive a cancel, every job that runs unaborted  *)
(* and shares its id with no other frame is in the table, whatever the     *)
(* tasks of other jobs insert and remove, and how late `dispatch` does.    *)
(***************************************************************************)
THEOREM CancelFindsEveryJob == Spec => []CancelFindsJob
  <1>1. Init => FoundInv
    BY DEF Init, FoundInv, Live, LivePhases, AwaitPhases
  <1>2. CoreType /\ FoundInv /\ [Next]_vars => FoundInv'
    BY FoundStep
  <1>3. FoundInv => CancelFindsJob
    BY DEF FoundInv, CancelFindsJob, Unique
  <1>4. TypeOK => CoreType
    BY DEF TypeOK
  <1> QED BY <1>1, <1>2, <1>3, <1>4, TypeCorrect, PTL DEF Spec
-----------------------------------------------------------------------------
(***************************************************************************)
(* The refinement.  What a step does to the view of one request decides    *)
(* the step of the protocol.                                               *)
(***************************************************************************)
Same(r) ==
  /\ StatusOf(r)' = StatusOf(r) /\ emitted'[r] = emitted[r]
  /\ ChunkCount(log[r])' = ChunkCount(log[r])
  /\ abort'[r] # "no" <=> abort[r] # "no"

(* The receiver lives as long as the read loop.                            *)
OpenInv == open = (loop # "closed")

(* A handle that `cancel` took out belongs to a job that was accepted.     *)
HandleInv ==
  /\ \A j \in JobIds : active[j] # NoReq => phase[active[j]] \notin {"new", "rejected"}
  /\ loop \in {"insert", "abort"} => phase[cur] \notin {"new", "rejected"}

LEMMA OpenStep ==
  ASSUME CoreType, OpenInv, [Next]_vars
  PROVE  OpenInv'
  <1> USE DEF OpenInv, loopVars
  <1>1. CASE UNCHANGED vars
    BY <1>1 DEF vars
  <1>2. CASE ReadLoop
    BY <1>2 DEF ReadLoop, Pump, Pong, Written, DispatchAccept,
                DispatchReject, DispatchInsert, RejectRelease, SendError,
                CancelRemove, CancelAbort, CloseSession
  <1>3. CASE HeartbeatTick
    BY <1>3 DEF HeartbeatTick
  <1>4. ASSUME NEW r \in Reqs, Driver(r)
        PROVE  OpenInv'
    BY <1>4 DEF Driver, BackendChunk, ChunkSent, Finish, ChunkFailed,
                BackendOk, BackendErr, Deadline, SendFinal, Release, Remove,
                Drop
  <1> QED BY <1>1, <1>2, <1>3, <1>4 DEF Next

LEMMA OpenAlways == Spec => [](CoreType /\ OpenInv)
  <1>1. Init => OpenInv
    <2> SUFFICES ASSUME Init
                 PROVE  OpenInv
      OBVIOUS
    <2>1. loop = "select" /\ open = TRUE
      BY DEF Init
    <2>2. (loop # "closed") = TRUE
      BY <2>1
    <2> QED BY <2>1, <2>2 DEF OpenInv
  <1>2. AnswerInv => CoreType
    BY DEF AnswerInv, TypeOK
  <1>3. CoreType /\ OpenInv /\ [Next]_vars => OpenInv'
    BY OpenStep
  <1> QED BY <1>1, <1>2, <1>3, AnswersAlways, PTL DEF Spec

(* A session that is over stays so.                                        *)
LEMMA ClosedStays ==
  ASSUME ~open, [Next]_vars
  PROVE  ~open'
  <1>1. CASE UNCHANGED vars
    BY <1>1 DEF vars
  <1>2. CASE ReadLoop \/ HeartbeatTick
    BY <1>2 DEF ReadLoop, Pump, Pong, Written, DispatchAccept, DispatchReject,
                DispatchInsert, RejectRelease, SendError, CancelRemove,
                CancelAbort, CloseSession, HeartbeatTick
  <1>3. ASSUME NEW r \in Reqs, Driver(r)
        PROVE  ~open'
    BY <1>3 DEF Driver, BackendChunk, ChunkSent, Finish, ChunkFailed,
                BackendOk, BackendErr, Deadline, SendFinal, Release, Remove,
                Drop
  <1> QED BY <1>1, <1>2, <1>3 DEF Next

(* It accepts no job, and a task of it that takes a chunk from the backend *)
(* does not go back to the backend.                                        *)
LEMMA AfterClose ==
  ASSUME CoreType, OpenInv, ~open, [Next]_vars, NEW q \in Reqs
  PROVE  \/ /\ emitted'[q] = emitted[q]
            /\ phase'[q] = "exec" => phase[q] = "exec"
         \/ /\ phase[q] = "exec" /\ emitted'[q] = emitted[q] + 1
            /\ phase'[q] # "exec"
  <1> USE DEF CoreType, taskVars, loopVars
  <1>0. loop = "closed"
    BY DEF OpenInv
  <1>1. CASE UNCHANGED vars
    BY <1>1 DEF vars
  <1>2. ~ReadLoop
    BY <1>0 DEF ReadLoop, Pump, Pong, Written, DispatchAccept, DispatchReject,
                DispatchInsert, RejectRelease, SendError, CancelRemove,
                CancelAbort, CloseSession
  <1>3. ~HeartbeatTick
    BY DEF HeartbeatTick
  <1>4. ASSUME NEW r \in Reqs, Driver(r), r # q
        PROVE  emitted'[q] = emitted[q] /\ phase'[q] = phase[q]
    BY <1>4 DEF Driver, BackendChunk, ChunkSent, Finish, ChunkFailed,
                BackendOk, BackendErr, Deadline, SendFinal, Release, Remove,
                Drop
  <1>5. CASE Driver(q)
    <2>1. CASE BackendChunk(q)
      BY <2>1 DEF BackendChunk
    <2>2. ~ChunkSent(q)
      BY DEF ChunkSent, Send
    <2>3. ASSUME NEW f, Finish(q, f)
          PROVE  emitted'[q] = emitted[q] /\ phase'[q] = "final"
      BY <2>3 DEF Finish
    <2>4. CASE ChunkFailed(q) \/ BackendOk(q) \/ BackendErr(q) \/ Deadline(q)
      BY <2>3, <2>4 DEF ChunkFailed, BackendOk, BackendErr, Deadline
    <2>5. CASE SendFinal(q) \/ Release(q) \/ Remove(q) \/ Drop(q)
      BY <2>5 DEF SendFinal, Release, Remove, Drop
    <2> QED BY <1>5, <2>1, <2>2, <2>4, <2>5 DEF Driver
  <1> QED BY <1>1, <1>2, <1>3, <1>4, <1>5 DEF Next

(* Who has been accepted stays so.                                         *)
LEMMA AcceptedStays ==
  ASSUME CoreType, [Next]_vars, NEW q \in Reqs, phase[q] \notin {"new", "rejected"}
  PROVE  phase'[q] \notin {"new", "rejected"}
  <1> USE DEF CoreType, taskVars
  <1>1. CASE UNCHANGED vars
    BY <1>1 DEF vars
  <1>2. CASE ReadLoop
    BY <1>2 DEF ReadLoop, Pump, Pong, Written, DispatchAccept,
                DispatchReject, DispatchInsert, RejectRelease, SendError,
                CancelRemove, CancelAbort, CloseSession
  <1>3. CASE HeartbeatTick
    BY <1>3 DEF HeartbeatTick
  <1>4. ASSUME NEW r \in Reqs, Driver(r)
        PROVE  phase'[q] \notin {"new", "rejected"}
    BY <1>4 DEF Driver, BackendChunk, ChunkSent, Finish, ChunkFailed,
                BackendOk, BackendErr, Deadline, SendFinal, Release, Remove,
                Drop
  <1> QED BY <1>1, <1>2, <1>3, <1>4 DEF Next

LEMMA HandleStep ==
  ASSUME CoreType, HandleInv, [Next]_vars
  PROVE  HandleInv'
  <1>1. JobOf \in [Reqs -> JobIds] /\ NoReq \notin Reqs
    BY ConstantsAssumption
  <1>2. \A q \in Reqs : phase[q] \notin {"new", "rejected"} =>
                        phase'[q] \notin {"new", "rejected"}
    BY AcceptedStays
  <1>3. ASSUME UNCHANGED <<active, loop, cur>>
        PROVE  HandleInv'
    BY <1>1, <1>2, <1>3 DEF HandleInv, CoreType
  <1>4. ASSUME UNCHANGED active, loop' \notin {"insert", "abort"}
        PROVE  HandleInv'
    BY <1>1, <1>2, <1>4 DEF HandleInv, CoreType
  <1>5. CASE UNCHANGED vars
    BY <1>3, <1>5 DEF vars
  <1>6. ASSUME NEW r \in Reqs, DispatchAccept(r)
        PROVE  HandleInv'
    <2>1. /\ active' = active /\ cur' = r /\ phase'[r] = "exec"
      BY <1>6 DEF DispatchAccept, CoreType
    <2> QED BY <1>1, <1>2, <2>1 DEF HandleInv, CoreType
  <1>7. CASE DispatchInsert
    <2>1. /\ cur \in Reqs /\ phase'[cur] \notin {"new", "rejected"}
          /\ loop' = "select" /\ active' = [active EXCEPT ![JobOf[cur]] = cur]
      BY <1>2, <1>7 DEF DispatchInsert, HandleInv, CoreType
    <2>2. ASSUME NEW j \in JobIds, active'[j] # NoReq
          PROVE  phase'[active'[j]] \notin {"new", "rejected"}
      <3>1. CASE j = JobOf[cur]
        BY <2>1, <3>1 DEF CoreType
      <3>2. CASE j # JobOf[cur]
        BY <1>2, <2>1, <2>2, <3>2 DEF CoreType, HandleInv
      <3> QED BY <3>1, <3>2
    <2> QED BY <2>1, <2>2 DEF HandleInv
  <1>8. ASSUME NEW j \in JobIds, CancelRemove(j)
        PROVE  HandleInv'
    <2>1. /\ cur' = active[j] /\ active[j] \in Reqs
          /\ active' = [active EXCEPT ![j] = NoReq]
      BY <1>8 DEF CancelRemove, CoreType
    <2>2. phase'[cur'] \notin {"new", "rejected"}
      BY <1>1, <1>2, <2>1 DEF HandleInv
    <2>3. ASSUME NEW k \in JobIds, active'[k] # NoReq
          PROVE  phase'[active'[k]] \notin {"new", "rejected"}
      BY <1>2, <2>1, <2>3 DEF CoreType, HandleInv
    <2> QED BY <2>2, <2>3 DEF HandleInv
  <1>9. CASE \/ Pump \/ Pong \/ Written
             \/ HeartbeatTick \/ RejectRelease \/ SendError
             \/ CancelAbort \/ CloseSession \/ \E r \in Reqs : DispatchReject(r)
    BY <1>3, <1>4, <1>9 DEF Pump, Pong, Written, HeartbeatTick,
                            RejectRelease, SendError, CancelAbort,
                            CloseSession, DispatchReject, loopVars
  <1>10. ASSUME NEW r \in Reqs, Driver(r)
         PROVE  HandleInv'
    <2>1. CASE Remove(r)
      <3>1. UNCHANGED <<loop, cur>> /\ active' = [active EXCEPT ![JobOf[r]] = NoReq]
        BY <2>1 DEF Remove, loopVars
      <3>2. \A k \in JobIds : active'[k] # NoReq =>
              active[k] \in Reqs /\ active'[k] = active[k]
        BY <1>1, <3>1 DEF CoreType
      <3>3. loop \in {"insert", "abort"} => cur \in Reqs
        BY DEF CoreType
      <3> QED BY <1>2, <3>1, <3>2, <3>3 DEF HandleInv
    <2>2. CASE ~Remove(r)
      <3>1. UNCHANGED <<active, loop, cur>>
        BY <1>10, <2>2
        DEF Driver, BackendChunk, ChunkSent, Finish, ChunkFailed, BackendOk,
            BackendErr, Deadline, SendFinal, Release, Drop, loopVars
      <3> QED BY <1>3, <3>1
    <2> QED BY <2>1, <2>2
  <1> QED BY <1>5, <1>6, <1>7, <1>8, <1>9, <1>10 DEF Next, ReadLoop
(* The phases the protocol does not tell apart.                            *)
Stage(p) ==
  IF p \in {"new", "rejected"} THEN "new"
  ELSE IF p \in {"exec", "chunk", "final"} THEN "running" ELSE "silent"

LEMMA SameView ==
  ASSUME NEW q, log'[q] = log[q], emitted'[q] = emitted[q],
         abort'[q] # "no" <=> abort[q] # "no", Stage(phase'[q]) = Stage(phase[q])
  PROVE  Same(q)
  <1>1. Answered(q)' = Answered(q) /\ ChunkCount(log[q])' = ChunkCount(log[q])
    BY DEF Answered
  <1>2. StatusOf(q)' = StatusOf(q)
    BY <1>1 DEF StatusOf, Stage
  <1> QED BY <1>1, <1>2 DEF Same

(* Nothing the protocol sees has changed.                                  *)
LEMMA ProtocolStutters ==
  ASSUME CoreType, CoreType', \A q \in Reqs : Same(q), open' = open
  PROVE  UNCHANGED Protocol!vars
  <1>1. [r \in Reqs |-> StatusOf(r)]' = [r \in Reqs |-> StatusOf(r)]
    BY DEF Same
  <1>2. emitted' = emitted
    <2>1. emitted \in [Reqs -> 0..MaxChunks] /\ emitted' \in [Reqs -> 0..MaxChunks]
      BY DEF CoreType
    <2>2. \A q \in Reqs : emitted'[q] = emitted[q]
      BY DEF Same
    <2> QED BY <2>1, <2>2
  <1>3. [r \in Reqs |-> ChunkCount(log[r])]' = [r \in Reqs |-> ChunkCount(log[r])]
    BY DEF Same
  <1>4. {r \in Reqs : abort[r] # "no"}' = {r \in Reqs : abort[r] # "no"}
    BY DEF Same
  <1> QED BY <1>1, <1>2, <1>3, <1>4 DEF Protocol!vars

(* One job has moved on.                                                   *)
LEMMA ProtocolBecomes ==
  ASSUME CoreType, CoreType', NEW r \in Reqs, NEW s,
         \A q \in Reqs : q # r => Same(q), open' = open,
         StatusOf(r)' = s, emitted'[r] = emitted[r],
         ChunkCount(log[r])' = ChunkCount(log[r]),
         abort'[r] # "no" <=> abort[r] # "no"
  PROVE  Protocol!Become(r, s)
  <1>1. [q \in Reqs |-> StatusOf(q)]' = [[q \in Reqs |-> StatusOf(q)] EXCEPT ![r] = s]
    <2>1. [q \in Reqs |-> StatusOf(q)]' = [q \in Reqs |-> StatusOf(q)']
      OBVIOUS
    <2>2. \A q \in Reqs : StatusOf(q)' = IF q = r THEN s ELSE StatusOf(q)
      BY DEF Same
    <2> QED BY <2>1, <2>2
  <1>2. emitted' = emitted
    <2>1. emitted \in [Reqs -> 0..MaxChunks] /\ emitted' \in [Reqs -> 0..MaxChunks]
      BY DEF CoreType
    <2>2. \A q \in Reqs : emitted'[q] = emitted[q]
      BY DEF Same
    <2> QED BY <2>1, <2>2
  <1>3. [q \in Reqs |-> ChunkCount(log[q])]' = [q \in Reqs |-> ChunkCount(log[q])]
    BY DEF Same
  <1>4. {q \in Reqs : abort[q] # "no"}' = {q \in Reqs : abort[q] # "no"}
    BY DEF Same
  <1> QED BY <1>1, <1>2, <1>3, <1>4 DEF Protocol!Become
-----------------------------------------------------------------------------
(* Each step of the executor is a step of the protocol, or none.           *)
ViewInv == AnswerInv /\ EndInv /\ OpenInv /\ HandleInv

LEMMA LoopRefines ==
  ASSUME ViewInv, CoreType', ReadLoop \/ HeartbeatTick
  PROVE  Protocol!Next \/ UNCHANGED Protocol!vars
  <1>0. CoreType /\ QueueType /\ \A r \in Reqs : StreamInv(r)
    BY DEF ViewInv, AnswerInv, TypeOK
  <1>1. ASSUME UNCHANGED <<emitted, log, abort, open>>,
               \A q \in Reqs : Stage(phase'[q]) = Stage(phase[q])
        PROVE  UNCHANGED Protocol!vars
    <2>1. \A q \in Reqs : Same(q)
      BY <1>1, SameView
    <2> QED BY <1>0, <1>1, <2>1, ProtocolStutters
  <1>2. CASE \/ HeartbeatTick \/ Pump \/ Pong \/ Written \/ DispatchInsert
             \/ RejectRelease \/ \E j \in JobIds : CancelRemove(j)
    BY <1>1, <1>2 DEF HeartbeatTick, Pump, Pong, Written, DispatchInsert,
                      RejectRelease, CancelRemove, taskVars
  <1>3. ASSUME NEW r \in Reqs, DispatchReject(r)
        PROVE  UNCHANGED Protocol!vars
    <2>1. \A q \in Reqs : Stage(phase'[q]) = Stage(phase[q])
      BY <1>0, <1>3 DEF DispatchReject, CoreType, Stage
    <2> QED BY <1>1, <1>3, <2>1 DEF DispatchReject
  <1>4. ASSUME NEW r \in Reqs, DispatchAccept(r)
        PROVE  Protocol!Accept(r)
    <2>1. /\ UNCHANGED <<emitted, log, abort, open>> /\ open
          /\ phase[r] = "new" /\ phase' = [phase EXCEPT ![r] = "exec"]
      BY <1>0, <1>4 DEF DispatchAccept, ViewInv, OpenInv, CoreType
    <2>2. ASSUME NEW q \in Reqs, q # r
          PROVE  Same(q)
      <3>1. phase'[q] = phase[q]
        BY <1>0, <2>1, <2>2 DEF CoreType
      <3> QED BY <2>1, <3>1, SameView
    <2>3. ~Answered(r) /\ ~Answered(r)'
      BY <1>0, <2>1 DEF StreamInv, Answered
    <2>4. phase'[r] = "exec"
      BY <1>0, <2>1 DEF CoreType
    <2>5. StatusOf(r) = "new" /\ StatusOf(r)' = "running"
      BY <2>1, <2>3, <2>4 DEF StatusOf
    <2>6. Protocol!Become(r, "running")
      BY <1>0, <2>1, <2>2, <2>5, ProtocolBecomes
    <2> QED BY <2>1, <2>5, <2>6 DEF Protocol!Accept
  <1>5. CASE SendError
    <2>1. /\ cur \in Reqs /\ code \in Codes /\ phase[cur] = "rejected"
          /\ log[cur] = <<>> /\ open
          /\ UNCHANGED <<emitted, phase, abort, open>>
          /\ log' = [log EXCEPT ![cur] = Append(@, Error(cur, code, 0))]
      BY <1>5 DEF SendError, Send, Error, ViewInv, AnswerInv, RefusalInv,
                  TypeOK, CoreType, taskVars
    <2> DEFINE f == Error(cur, code, 0)
    <2>2. ASSUME NEW q \in Reqs, q # cur
          PROVE  Same(q)
      <3>1. log'[q] = log[q]
        BY <1>0, <2>1, <2>2 DEF QueueType
      <3> QED BY <2>1, <3>1, SameView
    <2>3. /\ ~Terminated(log[cur]) /\ InOrder(cur, log[cur])
          /\ log[cur] \in Seq(Frames)
      BY <1>0, <2>1 DEF StreamInv, Terminated, QueueType
    <2>4. /\ f \in Frames /\ IsTerminal(f) /\ f.req = cur
          /\ f.type = "job_error"
      BY <2>1, FrameType DEF Error, IsTerminal
    <2>5. log'[cur] = Append(log[cur], f)
      BY <1>0, <2>1 DEF QueueType
    <2> HIDE DEF f
    <2>6. /\ Terminated(log'[cur]) /\ log'[cur][Len(log'[cur])] = f
          /\ ChunkCount(log'[cur]) = ChunkCount(log[cur])
      <3> DEFINE s == log[cur]
      <3>1. /\ InOrder(cur, s) /\ ~Terminated(s) /\ s \in Seq(Frames)
            /\ log'[cur] = Append(s, f)
        BY <2>3, <2>5
      <3> HIDE DEF s
      <3>2. /\ Terminated(Append(s, f)) /\ ChunkCount(Append(s, f)) = ChunkCount(s)
            /\ Append(s, f)[Len(Append(s, f))] = f
        BY <2>1, <2>4, <3>1, AppendTerminal
      <3> QED BY <3>1, <3>2 DEF s
    <2>7. PICK c \in Reqs : c = cur
      BY <2>1
    <2>8. StatusOf(c) = "new" /\ StatusOf(c)' = "error"
      <3>1. ~Answered(c) /\ Terminated(log'[c]) /\ log'[c][Len(log'[c])] = f
        BY <2>3, <2>6, <2>7 DEF Answered
      <3> QED BY <2>1, <2>4, <2>7, <3>1 DEF StatusOf, Answered
    <2>9. Protocol!Become(c, "error")
      <3>1. /\ \A q \in Reqs : q # c => Same(q)
            /\ ChunkCount(log[c])' = ChunkCount(log[c])
        BY <2>2, <2>6, <2>7
      <3> QED BY <1>0, <2>1, <2>8, <3>1, ProtocolBecomes
    <2>10. Protocol!Refuse(c)
      BY <2>1, <2>8, <2>9 DEF Protocol!Refuse
    <2> QED BY <2>10 DEF Protocol!Next
  <1>6. CASE CancelAbort
    <2>1. /\ cur \in Reqs /\ open /\ phase[cur] \notin {"new", "rejected"}
          /\ UNCHANGED <<emitted, log, phase, open>>
      BY <1>6 DEF CancelAbort, ViewInv, OpenInv, HandleInv, AnswerInv, TypeOK,
                  CoreType
    <2>2. CASE UNCHANGED abort
      BY <1>1, <2>1, <2>2
    <2>3. CASE /\ phase[cur] \in LivePhases
               /\ \E a \in {"racing", "doomed"} : abort' = [abort EXCEPT ![cur] = a]
      <3>1. PICK c \in Reqs : c = cur
        BY <2>1
      <3>2. \A q \in Reqs : (abort'[q] # "no") <=> (abort[q] # "no" \/ q = c)
        BY <1>0, <2>3, <3>1 DEF CoreType
      <3>3. {q \in Reqs : abort[q] # "no"}' = {q \in Reqs : abort[q] # "no"} \cup {c}
        BY <3>2
      <3>4. \A q \in Reqs : StatusOf(q)' = StatusOf(q) /\ ChunkCount(log[q])' = ChunkCount(log[q])
        BY <2>1 DEF StatusOf, Answered
      <3>5. StatusOf(c) # "new"
        BY <2>1, <3>1 DEF StatusOf
      <3>6. /\ [q \in Reqs |-> StatusOf(q)]' = [q \in Reqs |-> StatusOf(q)]
            /\ [q \in Reqs |-> ChunkCount(log[q])]' = [q \in Reqs |-> ChunkCount(log[q])]
        BY <3>4
      <3>7. Protocol!Cancel(c)
        BY <2>1, <3>3, <3>5, <3>6 DEF Protocol!Cancel
      <3> QED BY <3>7 DEF Protocol!Next
    <2> QED BY <1>6, <2>2, <2>3 DEF CancelAbort, LivePhases
  <1>7. CASE CloseSession
    <2>1. open' = FALSE /\ UNCHANGED <<emitted, log, phase, abort>>
      BY <1>7 DEF CloseSession, taskVars
    <2>2. /\ [q \in Reqs |-> StatusOf(q)]' = [q \in Reqs |-> StatusOf(q)]
          /\ [q \in Reqs |-> ChunkCount(log[q])]' = [q \in Reqs |-> ChunkCount(log[q])]
          /\ {q \in Reqs : abort[q] # "no"}' = {q \in Reqs : abort[q] # "no"}
      BY <2>1 DEF StatusOf, Answered
    <2>3. Protocol!Disconnect
      BY <2>1, <2>2 DEF Protocol!Disconnect
    <2> QED BY <2>3 DEF Protocol!Next
  <1> QED BY <1>2, <1>3, <1>4, <1>5, <1>6, <1>7 DEF ReadLoop, Protocol!Next
LEMMA DriverRefines ==
  ASSUME ViewInv, CoreType', NEW r \in Reqs, Driver(r)
  PROVE  Protocol!Next \/ UNCHANGED Protocol!vars
  <1>0. CoreType /\ QueueType /\ AnswerInv /\ StreamInv(r) /\ EndInv
    BY DEF ViewInv, AnswerInv, TypeOK
  <1>1. abort' = abort /\ open' = open
    BY DEF Driver, BackendChunk, ChunkSent, Finish, ChunkFailed,
           BackendOk, BackendErr, Deadline, SendFinal, Release, Remove, Drop
  <1>2. ASSUME NEW q \in Reqs, q # r
        PROVE  Same(q)
    <2>1. phase'[q] = phase[q] /\ log'[q] = log[q] /\ emitted'[q] = emitted[q]
      BY <1>0, <1>2, OtherDriver
    <2> QED BY <1>1, <2>1, SameView
  <1>3. ASSUME log' = log, emitted' = emitted, Stage(phase'[r]) = Stage(phase[r])
        PROVE  UNCHANGED Protocol!vars
    <2>1. Same(r)
      BY <1>1, <1>3, SameView
    <2> QED BY <1>0, <1>1, <1>2, <2>1, ProtocolStutters
  <1>4. CASE ChunkFailed(r) \/ BackendOk(r) \/ BackendErr(r) \/ Deadline(r)
    <2>1. Stage(phase'[r]) = Stage(phase[r]) /\ log' = log /\ emitted' = emitted
      BY <1>0, <1>4 DEF ChunkFailed, BackendOk, BackendErr, Deadline, Finish,
                        CoreType, Stage
    <2> QED BY <1>3, <2>1
  <1>5. CASE Release(r) \/ Remove(r)
    <2>1. Stage(phase'[r]) = Stage(phase[r]) /\ log' = log /\ emitted' = emitted
      BY <1>0, <1>5 DEF Release, Remove, CoreType, Stage
    <2> QED BY <1>3, <2>1
  <1>6. CASE Drop(r)
    <2>1. /\ log' = log /\ emitted' = emitted /\ abort[r] # "no"
          /\ phase[r] \in AwaitPhases /\ phase'[r] = "dropped"
      BY <1>0, <1>6 DEF Drop, CoreType
    <2>2. CASE phase[r] = "remove"
      BY <1>3, <2>1, <2>2 DEF Stage
    <2>3. CASE phase[r] \in {"exec", "chunk", "final"}
      <3>1. ~Answered(r) /\ ~Answered(r)'
        BY <1>0, <2>1, <2>3 DEF StreamInv, Answered
      <3>2. StatusOf(r) = "running" /\ StatusOf(r)' = "silent"
        BY <2>1, <2>3, <3>1 DEF StatusOf
      <3>3. Protocol!Become(r, "silent")
        BY <1>0, <1>1, <1>2, <2>1, <3>2, ProtocolBecomes
      <3>4. Protocol!FallSilent(r)
        BY <2>1, <3>2, <3>3 DEF Protocol!FallSilent
      <3> QED BY <3>4 DEF Protocol!Next
    <2> QED BY <2>1, <2>2, <2>3 DEF AwaitPhases
  <1>7. CASE SendFinal(r)
    <2>1. /\ phase[r] = "final" /\ phase'[r] = "release"
          /\ emitted' = emitted
      BY <1>0, <1>7 DEF SendFinal, CoreType
    <2>2. ~Answered(r) /\ StatusOf(r) = "running"
      BY <1>0, <2>1 DEF StreamInv, StatusOf
    <2>3. CASE Send(final[r])
      <3>1. /\ Answered(r)' /\ Truthful(r, final[r])
            /\ log'[r][Len(log'[r])] = final[r]
            /\ ChunkCount(log'[r]) = ChunkCount(log[r])
        BY <1>0, <1>7, <2>3, FinalAccepted
      <3>2. open
        BY <2>3 DEF Send
      <3>3. CASE final[r].type = "job_done"
        <4>1. StatusOf(r)' = "done"
          BY <3>1, <3>3 DEF StatusOf
        <4>2. ChunkCount(log[r]) = emitted[r]
          BY <1>0, <3>1, <3>3 DEF Truthful, StreamInv
        <4>3. Protocol!Become(r, "done")
          BY <1>0, <1>1, <1>2, <2>1, <3>1, <4>1, ProtocolBecomes
        <4>4. Protocol!Complete(r)
          BY <2>2, <3>2, <4>2, <4>3 DEF Protocol!Complete
        <4> QED BY <4>4 DEF Protocol!Next
      <3>4. CASE final[r].type # "job_done"
        <4>1. StatusOf(r)' = "error"
          BY <3>1, <3>4 DEF StatusOf
        <4>2. Protocol!Become(r, "error")
          BY <1>0, <1>1, <1>2, <2>1, <3>1, <4>1, ProtocolBecomes
        <4>3. Protocol!Fail(r)
          BY <2>2, <3>2, <4>2 DEF Protocol!Fail
        <4> QED BY <4>3 DEF Protocol!Next
      <3> QED BY <3>3, <3>4
    <2>4. CASE ~open /\ UNCHANGED <<chan, log>>
      <3>1. StatusOf(r)' = "silent"
        BY <2>1, <2>2, <2>4 DEF StatusOf, Answered
      <3>2. Protocol!Become(r, "silent")
        BY <1>0, <1>1, <1>2, <2>1, <2>4, <3>1, ProtocolBecomes
      <3>3. Protocol!FallSilent(r)
        BY <2>2, <2>4, <3>2 DEF Protocol!FallSilent
      <3> QED BY <3>3 DEF Protocol!Next
    <2> QED BY <1>7, <2>3, <2>4 DEF SendFinal
  <1>8. {q \in Reqs : abort[q] # "no"}' = {q \in Reqs : abort[q] # "no"}
    BY <1>1
  <1>9. CASE BackendChunk(r)
    <2>1. /\ phase[r] = "exec" /\ phase'[r] = "chunk" /\ log' = log
          /\ emitted' = [emitted EXCEPT ![r] = @ + 1]
      BY <1>0, <1>9 DEF BackendChunk, CoreType
    <2>2. ~Answered(r) /\ ~Answered(r)'
      BY <1>0, <2>1 DEF StreamInv, Answered
    <2>3. StatusOf(r) = "running" /\ StatusOf(r)' = "running"
      BY <2>1, <2>2 DEF StatusOf
    <2>4. \A q \in Reqs : StatusOf(q)' = StatusOf(q)
      BY <1>2, <2>3 DEF Same
    <2>5. [q \in Reqs |-> StatusOf(q)]' = [q \in Reqs |-> StatusOf(q)]
      BY <2>4
    <2>6. [q \in Reqs |-> ChunkCount(log[q])]' = [q \in Reqs |-> ChunkCount(log[q])]
      BY <2>1
    <2>7. Protocol!Produce(r)
      BY <1>1, <1>8, <2>1, <2>3, <2>5, <2>6 DEF Protocol!Produce
    <2> QED BY <2>7 DEF Protocol!Next
  <1>10. CASE ChunkSent(r)
    <2>1. /\ phase[r] = "chunk" /\ phase'[r] = "exec" /\ emitted' = emitted
          /\ sent'[r] = sent[r] + 1 /\ open
      BY <1>0, <1>10 DEF ChunkSent, Send, CoreType
    <2>2. StreamInv(r)'
      BY <1>0, DriverStream
    <2>3. ~Answered(r) /\ ~Answered(r)'
      BY <1>0, <2>1, <2>2 DEF StreamInv
    <2>4. StatusOf(r) = "running" /\ StatusOf(r)' = "running"
      BY <2>1, <2>3 DEF StatusOf
    <2>5. [q \in Reqs |-> StatusOf(q)]' = [q \in Reqs |-> StatusOf(q)]
      <3>1. \A q \in Reqs : StatusOf(q)' = StatusOf(q)
        BY <1>2, <2>4 DEF Same
      <3> QED BY <3>1
    <2>6. /\ ChunkCount(log[r])' = ChunkCount(log[r]) + 1
          /\ ChunkCount(log[r]) < emitted[r]
      <3>1. ChunkCount(log[r]) = sent[r] /\ emitted[r] = sent[r] + 1
        BY <1>0, <2>1 DEF StreamInv
      <3>2. ChunkCount(log[r])' = sent'[r]
        BY <2>2 DEF StreamInv
      <3>3. sent[r] \in Nat
        BY <1>0 DEF CoreType
      <3> QED BY <2>1, <3>1, <3>2, <3>3
    <2>7. [q \in Reqs |-> ChunkCount(log[q])]'
            = [[q \in Reqs |-> ChunkCount(log[q])] EXCEPT ![r] = @ + 1]
      <3>1. \A q \in Reqs : ChunkCount(log[q])' =
              IF q = r THEN ChunkCount(log[r]) + 1 ELSE ChunkCount(log[q])
        BY <1>2, <2>6 DEF Same
      <3> QED BY <3>1
    <2>8. Protocol!Deliver(r)
      BY <1>1, <1>8, <2>1, <2>4, <2>5, <2>6, <2>7 DEF Protocol!Deliver
    <2> QED BY <2>8 DEF Protocol!Next
  <1> QED BY <1>4, <1>5, <1>6, <1>7, <1>9, <1>10 DEF Driver

LEMMA StepRefines ==
  ASSUME ViewInv, CoreType', [Next]_vars
  PROVE  [Protocol!Next]_(Protocol!vars)
  <1>1. CASE UNCHANGED vars
    <2>1. CoreType
      BY DEF ViewInv, AnswerInv, TypeOK
    <2>2. \A q \in Reqs : Same(q)
      BY <1>1, SameView DEF vars
    <2> QED BY <1>1, <2>1, <2>2, ProtocolStutters DEF vars
  <1>2. CASE Next
    BY <1>2, LoopRefines, DriverRefines DEF Next
  <1> QED BY <1>1, <1>2

(***************************************************************************)
(* JobExecutor implements JobProtocol: whatever tasks, table, counter and  *)
(* channel do, the coordinator sees a job accepted or refused, its chunks  *)
(* delivered one by one, completed only when all are, failed, or silent    *)
(* after a cancel or the loss of the session.                              *)
(***************************************************************************)
THEOREM ExecutorImplementsProtocol == Spec => ImplementsProtocol
  <1>1. Init => Protocol!Init
    <2> SUFFICES ASSUME Init
                 PROVE  Protocol!Init
      OBVIOUS
    <2>1. \A r \in Reqs : log[r] = <<>> /\ phase[r] = "new" /\ abort[r] = "no"
      BY DEF Init
    <2>2. \A r \in Reqs : StatusOf(r) = "new"
      BY <2>1 DEF StatusOf, Answered, Terminated
    <2>3. \A r \in Reqs : ChunkCount(log[r]) = 0
      BY <2>1, EmptySeq DEF ChunkCount, Terminated
    <2>4. emitted = [r \in Reqs |-> 0] /\ open = TRUE
      BY DEF Init
    <2>5. {r \in Reqs : abort[r] # "no"} = {}
      BY <2>1
    <2> QED BY <2>2, <2>3, <2>4, <2>5 DEF Protocol!Init
  <1>2. Init => HandleInv
    <2> SUFFICES ASSUME Init
                 PROVE  HandleInv
      OBVIOUS
    <2>1. loop = "select" /\ \A j \in JobIds : active[j] = NoReq
      BY DEF Init
    <2> QED BY <2>1 DEF HandleInv
  <1>3. CoreType /\ HandleInv /\ [Next]_vars => HandleInv'
    BY HandleStep
  <1>4. ViewInv /\ CoreType' /\ [Next]_vars => [Protocol!Next]_(Protocol!vars)
    BY StepRefines
  <1>5. AnswerInv => CoreType
    BY DEF AnswerInv, TypeOK
  <1>6. Spec => [](OpenInv /\ HandleInv)
    BY <1>2, <1>3, OpenAlways, PTL DEF Spec
  <1>7. AnswerInv /\ EndInv /\ OpenInv /\ HandleInv => ViewInv
    BY DEF ViewInv
  <1>8. Spec => [](ViewInv /\ CoreType)
    BY <1>5, <1>6, <1>7, EndAlways, PTL
  <1> QED BY <1>1, <1>4, <1>8, PTL DEF Spec, ImplementsProtocol, Protocol!Spec
-----------------------------------------------------------------------------
(***************************************************************************)
(* The slots.  First who may have released what: a driver only once it is  *)
(* past Release, `cancel` only with a handle that nothing holds any more.  *)
(***************************************************************************)
SlotInv ==
  /\ \A r \in Reqs :
       /\ phase[r] \in {"new", "rejected"} => freed[r] = {}
       /\ phase[r] \in {"exec", "chunk", "final", "release"} => "driver" \notin freed[r]
       /\ Live(r) /\ abort[r] = "no" => "cancel" \notin freed[r]
  /\ \A j \in JobIds : active[j] # NoReq =>
       JobOf[active[j]] = j /\ "cancel" \notin freed[active[j]]
  /\ loop \in {"insert", "abort"} =>
       "cancel" \notin freed[cur] /\ active[JobOf[cur]] # cur

LEMMA SlotStep ==
  ASSUME CoreType, HandleInv, SlotInv, [Next]_vars
  PROVE  SlotInv'
  <1> USE DEF LivePhases, AwaitPhases
  <1>1. JobOf \in [Reqs -> JobIds] /\ NoReq \notin Reqs
    BY ConstantsAssumption
  <1> DEFINE Own(r) ==
        /\ phase[r] \in {"new", "rejected"} => freed[r] = {}
        /\ phase[r] \in {"exec", "chunk", "final", "release"} => "driver" \notin freed[r]
        /\ Live(r) /\ abort[r] = "no" => "cancel" \notin freed[r]
  <1> DEFINE Table ==
        \A j \in JobIds : active[j] # NoReq =>
          JobOf[active[j]] = j /\ "cancel" \notin freed[active[j]]
  <1> DEFINE Hand ==
        loop \in {"insert", "abort"} =>
          "cancel" \notin freed[cur] /\ active[JobOf[cur]] # cur
  <1>2. (\A r \in Reqs : Own(r)) /\ Table /\ Hand
    BY DEF SlotInv
  <1>3. ASSUME NEW r \in Reqs, phase'[r] = phase[r], freed'[r] = freed[r],
               abort'[r] = "no" => abort[r] = "no"
        PROVE  Own(r)'
    BY <1>2, <1>3 DEF Live
  <1>4. ASSUME \A q \in Reqs : "cancel" \in freed'[q] => "cancel" \in freed[q],
               \A j \in JobIds : active'[j] = active[j] \/ active'[j] = NoReq
        PROVE  Table'
    <2> SUFFICES ASSUME NEW j \in JobIds, active'[j] # NoReq
                 PROVE  JobOf[active'[j]] = j /\ "cancel" \notin freed'[active'[j]]
      OBVIOUS
    <2>1. active'[j] = active[j] /\ active[j] \in Reqs
      BY <1>4 DEF CoreType
    <2> QED BY <1>2, <1>4, <2>1
  <1>5. ASSUME \A q \in Reqs : "cancel" \in freed'[q] => "cancel" \in freed[q],
               \A j \in JobIds : active'[j] = active[j] \/ active'[j] = NoReq,
               UNCHANGED <<loop, cur>>
        PROVE  Hand'
    BY <1>1, <1>2, <1>5 DEF CoreType
  <1>6. CASE \/ UNCHANGED vars \/ HeartbeatTick \/ Pump \/ Pong \/ Written
             \/ RejectRelease \/ SendError \/ CloseSession
    <2>1. /\ UNCHANGED <<phase, freed, abort, active>>
          /\ \/ UNCHANGED <<loop, cur>>
             \/ loop' \notin {"insert", "abort"}
      BY <1>6 DEF vars, HeartbeatTick, Pump, Pong, Written, RejectRelease,
                  SendError, CloseSession, taskVars, loopVars
    <2>2. (\A r \in Reqs : Own(r)') /\ Table'
      BY <1>3, <1>4, <2>1
    <2>3. Hand'
      BY <1>5, <2>1
    <2> QED BY <2>2, <2>3 DEF SlotInv
  <1>7. ASSUME NEW r \in Reqs, DispatchAccept(r) \/ DispatchReject(r)
        PROVE  SlotInv'
    <2>1. /\ UNCHANGED <<freed, abort, active>> /\ phase[r] = "new"
          /\ phase' \in [Reqs -> Phases] /\ phase'[r] \in {"exec", "rejected"}
          /\ \A q \in Reqs : q # r => phase'[q] = phase[q]
          /\ cur' = r
      BY <1>7 DEF DispatchAccept, DispatchReject, CoreType, Phases
    <2>2. freed[r] = {}
      BY <1>2, <2>1
    <2>3. ASSUME NEW q \in Reqs
          PROVE  Own(q)'
      <3>1. CASE q = r
        BY <2>1, <2>2, <3>1
      <3>2. CASE q # r
        BY <1>3, <2>1, <3>2
      <3> QED BY <3>1, <3>2
    <2>4. Table'
      BY <1>4, <2>1
    <2>5. Hand'
      <3>1. active[JobOf[r]] # r
        BY <1>1, <2>1 DEF HandleInv
      <3> QED BY <2>1, <2>2, <3>1
    <2> QED BY <2>3, <2>4, <2>5 DEF SlotInv
  <1>8. CASE DispatchInsert
    <2>1. /\ loop = "insert" /\ loop' = "select" /\ cur \in Reqs
          /\ active' = [active EXCEPT ![JobOf[cur]] = cur]
          /\ UNCHANGED <<phase, freed, abort>>
      BY <1>8 DEF DispatchInsert, taskVars, CoreType
    <2>2. \A r \in Reqs : Own(r)'
      BY <1>3, <2>1
    <2>3. ASSUME NEW j \in JobIds, active'[j] # NoReq
          PROVE  JobOf[active'[j]] = j /\ "cancel" \notin freed'[active'[j]]
      <3>1. CASE j = JobOf[cur]
        BY <1>2, <2>1, <3>1 DEF CoreType
      <3>2. CASE j # JobOf[cur]
        BY <1>2, <2>1, <2>3, <3>2 DEF CoreType
      <3> QED BY <3>1, <3>2
    <2> QED BY <2>1, <2>2, <2>3 DEF SlotInv
  <1>9. ASSUME NEW j \in JobIds, CancelRemove(j)
        PROVE  SlotInv'
    <2>1. /\ active[j] \in Reqs /\ cur' = active[j]
          /\ active' = [active EXCEPT ![j] = NoReq]
          /\ UNCHANGED <<phase, freed, abort>>
      BY <1>9 DEF CancelRemove, taskVars, CoreType
    <2>2. (\A r \in Reqs : Own(r)') /\ Table'
      BY <1>3, <1>4, <2>1 DEF CoreType
    <2>3. JobOf[cur'] = j /\ "cancel" \notin freed[cur']
      BY <1>1, <1>2, <2>1
    <2>4. active'[JobOf[cur']] # cur'
      BY <1>1, <2>1, <2>3 DEF CoreType
    <2> QED BY <2>1, <2>2, <2>3, <2>4 DEF SlotInv
  <1>10. CASE CancelAbort
    <2>1. /\ loop = "abort" /\ loop' = "select" /\ cur \in Reqs
          /\ freed' = [freed EXCEPT ![cur] = @ \cup {"cancel"}]
          /\ UNCHANGED <<phase, active>>
      BY <1>10 DEF CancelAbort, CoreType
    <2>2. ASSUME NEW r \in Reqs
          PROVE  Own(r)'
      <3>1. CASE r # cur
        <4>1. abort'[r] = abort[r] /\ freed'[r] = freed[r]
          BY <1>10, <2>1, <3>1 DEF CancelAbort, CoreType
        <4> QED BY <1>3, <2>1, <4>1
      <3>2. CASE r = cur
        <4>1. phase[r] \notin {"new", "rejected"}
          BY <2>1, <3>2 DEF HandleInv
        <4>2. freed'[r] = freed[r] \cup {"cancel"}
          BY <2>1, <3>2 DEF CoreType
        <4>3. ~(Live(r)' /\ abort'[r] = "no")
          BY <1>10, <3>2 DEF CancelAbort, CoreType, Live
        <4> QED BY <1>2, <2>1, <4>1, <4>2, <4>3
      <3> QED BY <3>1, <3>2
    <2>3. ASSUME NEW j \in JobIds, active'[j] # NoReq
          PROVE  JobOf[active'[j]] = j /\ "cancel" \notin freed'[active'[j]]
      <3>1. /\ active'[j] = active[j] /\ JobOf[active[j]] = j
            /\ active[j] \in Reqs /\ "cancel" \notin freed[active[j]]
        BY <1>2, <2>1, <2>3 DEF CoreType
      <3>2. active[j] # cur
        BY <1>2, <2>1, <3>1
      <3> QED BY <2>1, <3>1, <3>2 DEF CoreType
    <2> QED BY <2>1, <2>2, <2>3 DEF SlotInv
  <1>11. ASSUME NEW r \in Reqs, Driver(r)
         PROVE  SlotInv'
    <2>1. abort' = abort /\ UNCHANGED <<loop, cur>>
      BY <1>11 DEF Driver, BackendChunk, ChunkSent, Finish, ChunkFailed,
                   BackendOk, BackendErr, Deadline, SendFinal, Release, Remove,
                   Drop, loopVars
    <2>2. \A j \in JobIds : active'[j] = active[j] \/ active'[j] = NoReq
      <3>1. CASE Remove(r)
        BY <1>1, <3>1 DEF Remove, CoreType
      <3>2. CASE ~Remove(r)
        BY <1>11, <3>2
        DEF Driver, BackendChunk, ChunkSent, Finish, ChunkFailed, BackendOk,
            BackendErr, Deadline, SendFinal, Release, Drop
      <3> QED BY <3>1, <3>2
    <2>3. \A q \in Reqs : "cancel" \in freed'[q] => "cancel" \in freed[q]
      <3>1. CASE Release(r)
        BY <3>1 DEF Release, CoreType
      <3>2. CASE ~Release(r)
        BY <1>11, <3>2
        DEF Driver, BackendChunk, ChunkSent, Finish, ChunkFailed, BackendOk,
            BackendErr, Deadline, SendFinal, Remove, Drop
      <3> QED BY <3>1, <3>2
    <2>4. Table' /\ Hand'
      BY <1>4, <1>5, <2>1, <2>2, <2>3
    <2>5. ASSUME NEW q \in Reqs
          PROVE  Own(q)'
      <3>1. CASE q # r
        <4>1. phase'[q] = phase[q] /\ freed'[q] = freed[q]
          BY <1>11, <3>1
          DEF Driver, BackendChunk, ChunkSent, Finish, ChunkFailed, BackendOk,
              BackendErr, Deadline, SendFinal, Release, Remove, Drop, CoreType
        <4> QED BY <1>3, <2>1, <4>1
      <3>2. CASE q = r /\ Release(r)
        <4>1. /\ phase[q] = "release" /\ phase'[q] = "remove"
              /\ freed'[q] = freed[q] \cup {"driver"}
          BY <3>2 DEF Release, CoreType
        <4> QED BY <1>2, <2>1, <4>1 DEF Live
      <3>3. CASE q = r /\ ~Release(r)
        <4>1. /\ freed'[q] = freed[q]
              /\ Live(q)' => Live(q)
              /\ phase'[q] \notin {"new", "rejected"}
              /\ phase'[q] \in {"exec", "chunk", "final", "release"} =>
                   phase[q] \in {"exec", "chunk", "final", "release"}
          BY <1>11, <3>3
          DEF Driver, BackendChunk, ChunkSent, Finish, ChunkFailed, BackendOk,
              BackendErr, Deadline, SendFinal, Remove, Drop, CoreType, Live
        <4>2. Own(q)
          BY <1>2
        <4> QED BY <2>1, <4>1, <4>2
      <3> QED BY <3>1, <3>2, <3>3
    <2> QED BY <2>4, <2>5 DEF SlotInv
  <1> QED BY <1>6, <1>7, <1>8, <1>9, <1>10, <1>11 DEF Next, ReadLoop
-----------------------------------------------------------------------------
(***************************************************************************)
(* Then the count.  Modulo its width, in_flight is the number of accepted  *)
(* jobs that hold a slot and of the refusal under way, less the number of  *)
(* slots that were released twice.                                         *)
(***************************************************************************)
Holding == {r \in Accepted : freed[r] = {}}
Pending == IF loop = "reject" THEN 1 ELSE 0
Balance == Cardinality(Holding) + Pending - Cardinality(DoubleFreed)

Congruent(x, e) == \E k \in Int : x = e + k * CounterSize

CountInv ==
  /\ IsFiniteSet(Accepted)
  /\ Congruent(in_flight, Balance)
  /\ Cardinality(Holding) <= MaxConcurrent + Cardinality(DoubleFreed)

LEMMA Widths ==
  /\ CounterSize \in Nat /\ MaxConcurrent \in Nat
  /\ CounterSize > MaxConcurrent + 1
  BY ConstantsAssumption

LEMMA CongruentStep ==
  ASSUME NEW x \in Nat, x < CounterSize, NEW e \in Int, Congruent(x, e)
  PROVE  Congruent(Increment(x), e + 1) /\ Congruent(Decrement(x), e - 1)
  <1>1. PICK k \in Int : x = e + k * CounterSize
    BY DEF Congruent
  <1> DEFINE C == CounterSize
  <1>2. C \in Int /\ k * C \in Int
    BY Widths
  <1>3. (k - 1) * C = k * C - C /\ (k + 1) * C = k * C + C
    BY <1>2
  <1>4. Congruent(Increment(x), e + 1)
    <2>1. CASE x = C - 1
      <3>1. Increment(x) = (e + 1) + (k - 1) * C
        BY <1>1, <1>2, <1>3, <2>1 DEF Increment
      <3> QED BY <3>1 DEF Congruent
    <2>2. CASE x # C - 1
      <3>1. Increment(x) = (e + 1) + k * C
        BY <1>1, <1>2, <2>2 DEF Increment
      <3> QED BY <3>1 DEF Congruent
    <2> QED BY <2>1, <2>2
  <1>5. Congruent(Decrement(x), e - 1)
    <2>1. CASE x = 0
      <3>1. Decrement(x) = (e - 1) + (k + 1) * C
        BY <1>1, <1>2, <1>3, <2>1 DEF Decrement
      <3> QED BY <3>1 DEF Congruent
    <2>2. CASE x # 0
      <3>1. Decrement(x) = (e - 1) + k * C
        BY <1>1, <1>2, <2>2 DEF Decrement
      <3> QED BY <3>1 DEF Congruent
    <2> QED BY <2>1, <2>2
  <1> QED BY <1>4, <1>5

(* Within one width of zero, congruence says how the numbers compare.      *)
LEMMA CongruentNear ==
  ASSUME NEW x \in Nat, x < CounterSize, NEW e \in Int, e < CounterSize,
         Congruent(x, e)
  PROVE  e <= x /\ (e >= 0 => x = e)
  <1>1. PICK k \in Int : x = e + k * CounterSize
    BY DEF Congruent
  <1> DEFINE C == CounterSize
  <1>2. C \in Nat /\ C > 0 /\ k * C \in Int
    BY Widths
  <1>3. k >= 0
    <2>1. k <= -1 => k * C <= -C
      BY <1>2
    <2> QED BY <1>1, <1>2, <2>1
  <1>4. k = 0 => k * C = 0
    BY <1>2
  <1>5. k >= 1 => k * C >= C
    BY <1>2
  <1> HIDE DEF C
  <1>6. x = e + k * C
    BY <1>1 DEF C
  <1>7. x < C /\ e < C
    BY DEF C
  <1> QED BY <1>2, <1>3, <1>4, <1>5, <1>6, <1>7
LEMMA SlotSets ==
  ASSUME CoreType, SlotInv, IsFiniteSet(Accepted)
  PROVE  /\ Accepted = {r \in Reqs : phase[r] \notin {"new", "rejected"}}
         /\ IsFiniteSet(Holding) /\ Cardinality(Holding) \in Nat
         /\ IsFiniteSet(DoubleFreed) /\ Cardinality(DoubleFreed) \in Nat
         /\ Balance \in Int
  <1>1. Accepted = {r \in Reqs : phase[r] \notin {"new", "rejected"}}
    BY DEF CoreType, Accepted, Phases, LivePhases, AwaitPhases
  <1>2. Holding \in SUBSET Accepted
    BY DEF Holding
  <1>3. DoubleFreed \in SUBSET Accepted
    <2> SUFFICES ASSUME NEW r \in Reqs, freed[r] = {"driver", "cancel"}
                 PROVE  phase[r] \notin {"new", "rejected"}
      BY <1>1 DEF DoubleFreed
    <2> QED BY DEF SlotInv
  <1>4. IsFiniteSet(Holding) /\ IsFiniteSet(DoubleFreed)
    BY <1>2, <1>3, FS_Subset
  <1>5. Cardinality(Holding) \in Nat /\ Cardinality(DoubleFreed) \in Nat
    BY <1>4, FS_CardinalityType
  <1> QED BY <1>1, <1>4, <1>5 DEF Balance, Pending

(* A slot is released, for the first or the second time.                   *)
LEMMA SlotReleased ==
  ASSUME CoreType, SlotInv, CountInv, NEW c \in Accepted,
         NEW w \in {"driver", "cancel"}, w \notin freed[c],
         freed' = [freed EXCEPT ![c] = @ \cup {w}],
         in_flight' = Decrement(in_flight), Pending' = Pending,
         Accepted' = Accepted
  PROVE  CountInv'
  <1>1. c \in Reqs /\ freed \in [Reqs -> SUBSET {"driver", "cancel"}]
    BY DEF Accepted, CoreType
  <1>2. /\ IsFiniteSet(Holding) /\ Cardinality(Holding) \in Nat
        /\ IsFiniteSet(DoubleFreed) /\ Cardinality(DoubleFreed) \in Nat
        /\ Balance \in Int /\ Pending \in Nat
    BY SlotSets DEF CountInv, Pending
  <1>3. Congruent(Decrement(in_flight), Balance - 1)
    BY <1>2, CongruentStep DEF CountInv, CoreType
  <1>4. \A q \in Reqs : freed'[q] = IF q = c THEN freed[c] \cup {w} ELSE freed[q]
    BY <1>1
  <1>5. CASE freed[c] = {}
    <2>1. Holding' = Holding \ {c}
      BY <1>1, <1>4, <1>5 DEF Holding, Accepted
    <2>2. DoubleFreed' = DoubleFreed
      BY <1>1, <1>4, <1>5 DEF DoubleFreed
    <2>3. c \in Holding
      BY <1>5 DEF Holding
    <2>4. Cardinality(Holding') = Cardinality(Holding) - 1
      BY <1>2, <2>1, <2>3, FS_RemoveElement
    <2>5. Balance' = Balance - 1
      BY <1>2, <2>2, <2>4 DEF Balance
    <2>6. Cardinality(Holding') <= MaxConcurrent + Cardinality(DoubleFreed')
      BY <1>2, <2>2, <2>4, Widths DEF CountInv
    <2>7. Congruent(in_flight', Balance')
      BY <1>3, <2>5
    <2> QED BY <2>6, <2>7 DEF CountInv, Congruent
  <1>6. CASE freed[c] # {}
    <2>1. freed[c] \cup {w} = {"driver", "cancel"}
      BY <1>1, <1>6
    <2>2. Holding' = Holding
      BY <1>1, <1>4, <1>6, <2>1 DEF Holding, Accepted
    <2>3. DoubleFreed' = DoubleFreed \cup {c} /\ c \notin DoubleFreed
      BY <1>1, <1>4, <2>1 DEF DoubleFreed
    <2>4. Cardinality(DoubleFreed') = Cardinality(DoubleFreed) + 1
      BY <1>2, <2>3, FS_AddElement
    <2>5. Balance' = Balance - 1
      BY <1>2, <2>2, <2>4 DEF Balance
    <2>6. Cardinality(Holding') <= MaxConcurrent + Cardinality(DoubleFreed')
      BY <1>2, <2>2, <2>4, Widths DEF CountInv
    <2>7. Congruent(in_flight', Balance')
      BY <1>3, <2>5
    <2> QED BY <2>6, <2>7 DEF CountInv, Congruent
  <1> QED BY <1>5, <1>6

LEMMA CountStep ==
  ASSUME CoreType, HandleInv, SlotInv, CountInv, [Next]_vars
  PROVE  CountInv'
  <1>1. /\ Accepted = {r \in Reqs : phase[r] \notin {"new", "rejected"}}
        /\ IsFiniteSet(Accepted)
        /\ IsFiniteSet(Holding) /\ Cardinality(Holding) \in Nat
        /\ Cardinality(DoubleFreed) \in Nat
        /\ Balance \in Int
    BY SlotSets DEF CountInv
  <1>2. CoreType'
    BY ReadLoopCore, DriverCore DEF Next, vars, CoreType
  <1>3. Accepted' = {r \in Reqs : phase'[r] \notin {"new", "rejected"}}
    BY <1>2 DEF CoreType, Accepted, Phases, LivePhases, AwaitPhases
  <1>4. in_flight \in Nat /\ in_flight < CounterSize
    BY DEF CoreType
  <1>5. ASSUME UNCHANGED <<freed, in_flight>>, Pending' = Pending,
               Accepted' = Accepted
        PROVE  CountInv'
    <2>1. Holding' = Holding /\ DoubleFreed' = DoubleFreed
      BY <1>5 DEF Holding, DoubleFreed
    <2>2. Balance' = Balance
      BY <1>5, <2>1 DEF Balance
    <2> QED BY <1>5, <2>1, <2>2 DEF CountInv
  <1>6. CASE \/ UNCHANGED vars \/ HeartbeatTick \/ Pump \/ Pong \/ Written
             \/ DispatchInsert \/ SendError \/ CloseSession \/ \E j \in JobIds : CancelRemove(j)
    <2>1. UNCHANGED <<freed, in_flight, phase>> /\ Pending' = Pending
      BY <1>6 DEF vars, HeartbeatTick, Pump, Pong, Written, DispatchInsert,
                  SendError, CloseSession, CancelRemove, taskVars, loopVars, Pending
    <2>2. Accepted' = Accepted
      BY <1>1, <1>3, <2>1
    <2> QED BY <1>5, <2>1, <2>2
  <1>7. ASSUME NEW r \in Reqs, DispatchAccept(r)
        PROVE  CountInv'
    <2>1. /\ phase[r] = "new" /\ phase' = [phase EXCEPT ![r] = "exec"]
          /\ freed' = freed /\ freed[r] = {} /\ in_flight < MaxConcurrent
          /\ in_flight' = Increment(in_flight) /\ Pending = 0 /\ Pending' = 0
      BY <1>7 DEF DispatchAccept, SlotInv, Pending
    <2>2. r \notin Accepted /\ Accepted' = Accepted \cup {r}
      BY <1>1, <1>3, <2>1 DEF CoreType
    <2>3. r \notin Holding /\ Holding' = Holding \cup {r} /\ DoubleFreed' = DoubleFreed
      BY <2>1, <2>2 DEF Holding, DoubleFreed
    <2>4. Cardinality(Holding') = Cardinality(Holding) + 1 /\ IsFiniteSet(Accepted')
      BY <1>1, <2>2, <2>3, FS_AddElement
    <2>5. Balance' = Balance + 1
      BY <1>1, <2>1, <2>3, <2>4 DEF Balance
    <2>6. Congruent(in_flight', Balance')
      BY <1>1, <1>4, <2>1, <2>5, CongruentStep DEF CountInv
    <2>7. Balance = Cardinality(Holding) - Cardinality(DoubleFreed)
      BY <1>1, <2>1 DEF Balance
    <2>8. Balance < CounterSize
      BY <1>1, <2>7, Widths DEF CountInv
    <2>9. Balance <= in_flight
      BY <1>1, <1>4, <2>8, CongruentNear DEF CountInv
    <2>10. Cardinality(Holding') <= MaxConcurrent + Cardinality(DoubleFreed')
      BY <1>1, <1>4, <2>1, <2>3, <2>4, <2>7, <2>9, Widths
    <2> QED BY <2>4, <2>6, <2>10 DEF CountInv, Congruent
  <1>8. ASSUME NEW r \in Reqs, DispatchReject(r)
        PROVE  CountInv'
    <2>1. /\ phase[r] = "new" /\ phase' = [phase EXCEPT ![r] = "rejected"]
          /\ freed' = freed /\ in_flight' = Increment(in_flight)
          /\ Pending = 0 /\ Pending' = 1
      BY <1>8 DEF DispatchReject, Pending
    <2>2. Accepted' = Accepted
      BY <1>1, <1>3, <2>1 DEF CoreType
    <2>3. Holding' = Holding /\ DoubleFreed' = DoubleFreed
      BY <2>1, <2>2 DEF Holding, DoubleFreed
    <2>4. Balance' = Balance + 1
      BY <1>1, <2>1, <2>3 DEF Balance
    <2>5. Congruent(in_flight', Balance')
      BY <1>1, <1>4, <2>1, <2>4, CongruentStep DEF CountInv
    <2> QED BY <2>2, <2>3, <2>5 DEF CountInv, Congruent
  <1>9. CASE RejectRelease
    <2>1. /\ phase' = phase /\ freed' = freed
          /\ in_flight' = Decrement(in_flight) /\ Pending = 1 /\ Pending' = 0
      BY <1>9 DEF RejectRelease, taskVars, Pending
    <2>2. Accepted' = Accepted
      BY <1>1, <1>3, <2>1
    <2>3. Holding' = Holding /\ DoubleFreed' = DoubleFreed
      BY <2>1, <2>2 DEF Holding, DoubleFreed
    <2>4. Balance' = Balance - 1
      BY <1>1, <2>1, <2>3 DEF Balance
    <2>5. Congruent(in_flight', Balance')
      BY <1>1, <1>4, <2>1, <2>4, CongruentStep DEF CountInv
    <2> QED BY <2>2, <2>3, <2>5 DEF CountInv, Congruent
  <1>10. CASE CancelAbort
    <2>1. /\ cur \in Reqs /\ phase[cur] \notin {"new", "rejected"}
          /\ "cancel" \notin freed[cur]
          /\ freed' = [freed EXCEPT ![cur] = @ \cup {"cancel"}]
          /\ phase' = phase /\ in_flight' = Decrement(in_flight)
          /\ Pending' = Pending
      BY <1>10 DEF CancelAbort, HandleInv, SlotInv, CoreType, Pending
    <2>2. cur \in Accepted /\ Accepted' = Accepted
      BY <1>1, <1>3, <2>1
    <2> QED BY <2>1, <2>2, SlotReleased
  <1>11. ASSUME NEW r \in Reqs, Driver(r)
         PROVE  CountInv'
    <2>1. Pending' = Pending
      BY <1>11 DEF Driver, BackendChunk, ChunkSent, Finish, ChunkFailed,
                   BackendOk, BackendErr, Deadline, SendFinal, Release, Remove,
                   Drop, loopVars, Pending
    <2>2. Accepted' = Accepted
      <3>1. \A q \in Reqs : phase'[q] \notin {"new", "rejected"} <=>
                            phase[q] \notin {"new", "rejected"}
        BY <1>11 DEF Driver, BackendChunk, ChunkSent, Finish, ChunkFailed,
                   BackendOk, BackendErr, Deadline, SendFinal, Release, Remove,
                   Drop, CoreType, AwaitPhases
      <3> QED BY <1>1, <1>3, <3>1
    <2>3. CASE Release(r)
      <3>1. /\ phase[r] = "release" /\ "driver" \notin freed[r]
            /\ freed' = [freed EXCEPT ![r] = @ \cup {"driver"}]
            /\ in_flight' = Decrement(in_flight)
        BY <2>3 DEF Release, SlotInv
      <3>2. r \in Accepted
        BY <1>1, <3>1
      <3> QED BY <2>1, <2>2, <3>1, <3>2, SlotReleased
    <2>4. CASE ~Release(r)
      <3>1. UNCHANGED <<freed, in_flight>>
        BY <1>11, <2>4
        DEF Driver, BackendChunk, ChunkSent, Finish, ChunkFailed, BackendOk,
            BackendErr, Deadline, SendFinal, Remove, Drop
      <3> QED BY <1>5, <2>1, <2>2, <3>1
    <2> QED BY <2>3, <2>4
  <1> QED BY <1>6, <1>7, <1>8, <1>9, <1>10, <1>11 DEF Next, ReadLoop
LEMMA CountAlways == Spec => [](CoreType /\ SlotInv /\ CountInv)
  <1>1. Init => HandleInv /\ SlotInv /\ CountInv
    <2> SUFFICES ASSUME Init
                 PROVE  HandleInv /\ SlotInv /\ CountInv
      OBVIOUS
    <2>1. /\ loop = "select" /\ \A j \in JobIds : active[j] = NoReq
          /\ \A r \in Reqs : phase[r] = "new" /\ freed[r] = {}
      BY DEF Init
    <2>2. HandleInv /\ SlotInv
      BY <2>1 DEF HandleInv, SlotInv
    <2>3. Accepted = {} /\ Holding = {} /\ DoubleFreed = {}
      BY <2>1 DEF Accepted, Holding, DoubleFreed, LivePhases, AwaitPhases
    <2>4. IsFiniteSet({}) /\ Cardinality({}) = 0
      BY FS_EmptySet
    <2>5. Balance = 0 /\ in_flight = 0
      <3>1. Pending = 0
        BY <2>1 DEF Pending
      <3>2. Cardinality(Holding) = 0 /\ Cardinality(DoubleFreed) = 0
        BY <2>3, <2>4
      <3>3. Balance = 0
        BY <3>1, <3>2 DEF Balance
      <3> QED BY <3>3 DEF Init
    <2>6. in_flight = Balance + 0 * CounterSize
      BY <2>5, Widths
    <2>7. Congruent(in_flight, Balance)
      BY <2>6 DEF Congruent
    <2>8. Cardinality(Holding) <= MaxConcurrent + Cardinality(DoubleFreed)
      BY <2>3, <2>4, Widths
    <2> QED BY <2>2, <2>3, <2>4, <2>7, <2>8 DEF CountInv
  <1>2. CoreType /\ HandleInv /\ SlotInv /\ CountInv /\ [Next]_vars
          => (HandleInv /\ SlotInv /\ CountInv)'
    BY HandleStep, SlotStep, CountStep
  <1>3. TypeOK => CoreType
    BY DEF TypeOK
  <1> QED BY <1>1, <1>2, <1>3, TypeCorrect, PTL DEF Spec

(***************************************************************************)
(* The counter is exact as long as no slot was released twice: counting    *)
(* before the test, undoing after a refusal, and releasing from two sides  *)
(* lose nothing and do not wrap, for every capacity and width.             *)
(***************************************************************************)
THEOREM SlotsAreCounted == Spec => []SlotLedger
  <1>1. CoreType /\ SlotInv /\ CountInv => SlotLedger
    <2> SUFFICES ASSUME CoreType, SlotInv, CountInv, DoubleFreed = {}
                 PROVE  in_flight = Cardinality(Holding) + Pending
      BY DEF SlotLedger, Holding, Pending
    <2>1. Cardinality(Holding) \in Nat /\ Balance \in Int /\ Pending \in 0..1
      BY SlotSets DEF CountInv, Pending
    <2>2. Cardinality(DoubleFreed) = 0
      BY FS_EmptySet
    <2>3. Balance = Cardinality(Holding) + Pending
      BY <2>1, <2>2 DEF Balance
    <2>4. Balance >= 0 /\ Balance < CounterSize
      BY <2>1, <2>2, <2>3, Widths DEF CountInv
    <2>5. in_flight = Balance
      BY <2>1, <2>4, CongruentNear DEF CountInv, CoreType
    <2> QED BY <2>3, <2>5
  <1> QED BY <1>1, CountAlways, PTL

(* The jobs that execute are among those that hold a slot.                 *)
LEMMA ExecutingCounted ==
  ASSUME CoreType, SlotInv, CountInv
  PROVE  /\ Cardinality(Executing) \in Nat /\ Cardinality(DoubleFreed) \in Nat
         /\ Cardinality(Executing) <= MaxConcurrent + Cardinality(DoubleFreed)
  <1>1. /\ IsFiniteSet(Holding) /\ Cardinality(Holding) \in Nat
        /\ Cardinality(DoubleFreed) \in Nat
    BY SlotSets DEF CountInv
  <1>2. Executing \in SUBSET Holding
    <2> SUFFICES ASSUME NEW r \in Reqs, phase[r] \in {"exec", "chunk"}, abort[r] = "no"
                 PROVE  r \in Holding
      BY DEF Executing
    <2>1. "driver" \notin freed[r] /\ "cancel" \notin freed[r]
      BY DEF SlotInv, Live, LivePhases, AwaitPhases
    <2>2. freed[r] = {}
      BY <2>1 DEF CoreType
    <2> QED BY <2>2 DEF Holding, Accepted, LivePhases, AwaitPhases
  <1>3. IsFiniteSet(Executing) /\ Cardinality(Executing) <= Cardinality(Holding)
    BY <1>1, <1>2, FS_Subset
  <1>4. Cardinality(Executing) \in Nat
    BY <1>3, FS_CardinalityType
  <1> QED BY <1>1, <1>3, <1>4, Widths DEF CountInv

(* The counts of OvercommitBounded are numbers: the sets are finite.       *)
Countable == Cardinality(Executing) \in Nat /\ Cardinality(DoubleFreed) \in Nat

LEMMA CountableAlways == Spec => []Countable
  <1>1. CoreType /\ SlotInv /\ CountInv => Countable
    BY ExecutingCounted DEF Countable
  <1> QED BY <1>1, CountAlways, PTL

(***************************************************************************)
(* Each slot released twice costs at most one job over the limit, however  *)
(* many frames, cancels and wraps of the counter there are.                *)
(***************************************************************************)
THEOREM OvercommitIsBounded == Spec => []OvercommitBounded
  <1>1. CoreType /\ SlotInv /\ CountInv => OvercommitBounded
    BY ExecutingCounted DEF OvercommitBounded
  <1> QED BY <1>1, CountAlways, PTL
=============================================================================
