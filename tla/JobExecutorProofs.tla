------------------------- MODULE JobExecutorProofs -------------------------
(***************************************************************************)
(* Theorems about JobExecutor for every set of job frames, every assignment*)
(* of job ids, every capacity and every channel size.                      *)
(***************************************************************************)
EXTENDS JobExecutor, SequenceTheorems, TLAPS

(* Every backend error has a wire code.                                    *)
LEMMA ErrorCodeType == \A err : ErrorCode(err) \in Codes
  BY DEF ErrorCode, Codes

(* The frames the executor builds.                                         *)
LEMMA FrameType ==
  ASSUME NEW r \in Reqs
  PROVE  /\ Done(r) \in Frames
         /\ \A n \in Nat : Chunk(r, n) \in Frames
         /\ \A n \in Nat, c \in Codes : Error(r, c, n) \in Frames
  BY DEF Done, Chunk, Error, Frames

(* The counter keeps its width.                                            *)
LEMMA CounterStep ==
  ASSUME NEW x \in Nat, x < CounterSize
  PROVE  /\ Increment(x) \in Nat /\ Increment(x) < CounterSize
         /\ Decrement(x) \in Nat /\ Decrement(x) < CounterSize
  <1>1. CounterSize \in Nat /\ CounterSize > 1
    BY ConstantsAssumption
  <1>2. Increment(x) \in Nat /\ Increment(x) < CounterSize
    BY <1>1 DEF Increment
  <1>3. Decrement(x) \in Nat /\ Decrement(x) < CounterSize
    BY <1>1 DEF Decrement
  <1> QED
    BY <1>2, <1>3

-----------------------------------------------------------------------------
(* Type correctness: first the part without sequences.                     *)

LEMMA InitCore == Init => CoreType
  <1> SUFFICES ASSUME Init PROVE CoreType
    OBVIOUS
  <1>1. final \in [Reqs -> Frames]
    BY FrameType DEF Init
  <1>a. CounterSize \in Nat /\ MaxConcurrent \in Nat
        /\ CounterSize > MaxConcurrent + 1
    BY ConstantsAssumption
  <1>b. in_flight = 0
    BY DEF Init
  <1>2. in_flight \in Nat /\ in_flight < CounterSize
    BY <1>a, <1>b
  <1>3. MaxChunks \in Nat
    BY ConstantsAssumption
  <1>4. /\ emitted = [r \in Reqs |-> 0]
        /\ sent = [r \in Reqs |-> 0]
    BY DEF Init
  <1>5. /\ emitted \in [Reqs -> 0..MaxChunks]
        /\ sent \in [Reqs -> Nat]
    BY <1>3, <1>4
  <1>6. /\ active \in [JobIds -> Reqs \cup {NoReq}]
        /\ phase \in [Reqs -> Phases]
        /\ abort \in [Reqs -> {"no", "racing", "doomed"}]
        /\ freed \in [Reqs -> SUBSET {"driver", "cancel"}]
    BY DEF Init, Phases
  <1>7. /\ loop = "select" /\ cur = NoReq /\ code = ""
        /\ open = TRUE
    BY DEF Init
  <1> QED
    BY <1>1, <1>2, <1>5, <1>6, <1>7 DEF CoreType, LoopStates

LEMMA ReadLoopCore ==
  ASSUME CoreType, ReadLoop \/ HeartbeatTick
  PROVE  CoreType'
  <1> USE DEF CoreType, loopVars, taskVars, LoopStates
  <1>0. NoReq \notin Reqs
    BY ConstantsAssumption
  <1>a. /\ Increment(in_flight) \in Nat /\ Increment(in_flight) < CounterSize
        /\ Decrement(in_flight) \in Nat /\ Decrement(in_flight) < CounterSize
    BY CounterStep
  <1>1. CASE Pump \/ Pong \/ Written
    BY <1>1 DEF Pump, Pong, Written
  <1>2. CASE HeartbeatTick
    BY <1>2 DEF HeartbeatTick
  <1>3. ASSUME NEW r \in Reqs, DispatchAccept(r) PROVE CoreType'
    BY <1>3, <1>0, <1>a DEF DispatchAccept, Phases, LivePhases, AwaitPhases
  <1>4. ASSUME NEW r \in Reqs, DispatchReject(r) PROVE CoreType'
    BY <1>4, <1>0, <1>a DEF DispatchReject, Phases, Codes
  <1>5. CASE DispatchInsert
    BY <1>5, <1>0 DEF DispatchInsert
  <1>6. CASE RejectRelease
    BY <1>6, <1>a DEF RejectRelease
  <1>7. CASE SendError
    BY <1>7 DEF SendError
  <1>8. ASSUME NEW j \in JobIds, CancelRemove(j) PROVE CoreType'
    BY <1>8 DEF CancelRemove
  <1>9. CASE CancelAbort
    BY <1>9, <1>0, <1>a DEF CancelAbort
  <1>10. CASE CloseSession
    BY <1>10 DEF CloseSession
  <1> QED
    BY <1>1, <1>2, <1>3, <1>4, <1>5, <1>6, <1>7, <1>8, <1>9, <1>10
    DEF ReadLoop

LEMMA CountType ==
  ASSUME CoreType, NEW r \in Reqs
  PROVE  /\ emitted[r] \in Nat /\ sent[r] \in Nat
         /\ emitted[r] < MaxChunks => emitted[r] + 1 \in 0..MaxChunks
         /\ [sent EXCEPT ![r] = @ + 1] \in [Reqs -> Nat]
  <1>1. MaxChunks \in Nat
    BY ConstantsAssumption
  <1>2. emitted[r] \in 0..MaxChunks
    BY DEF CoreType
  <1>3. sent \in [Reqs -> Nat] /\ sent[r] \in Nat
    BY DEF CoreType
  <1>4. [sent EXCEPT ![r] = @ + 1] \in [Reqs -> Nat]
    BY <1>3
  <1> QED
    BY <1>1, <1>2, <1>3, <1>4

LEMMA DriverCore ==
  ASSUME CoreType, NEW r \in Reqs, Driver(r)
  PROVE  CoreType'
  <1>b. /\ emitted[r] \in Nat /\ sent[r] \in Nat
        /\ emitted[r] < MaxChunks => emitted[r] + 1 \in 0..MaxChunks
        /\ [sent EXCEPT ![r] = @ + 1] \in [Reqs -> Nat]
    BY CountType
  <1> USE DEF CoreType, loopVars, taskVars, Phases, LivePhases, AwaitPhases
  <1>a. Decrement(in_flight) \in Nat /\ Decrement(in_flight) < CounterSize
    BY CounterStep
  <1>1. CASE BackendChunk(r)
    <2>1. emitted' \in [Reqs -> 0..MaxChunks]
      BY <1>1, <1>b DEF BackendChunk
    <2> QED
      BY <1>1, <2>1 DEF BackendChunk
  <1>2. CASE ChunkSent(r)
    <2>1. sent' \in [Reqs -> Nat]
      BY <1>2, <1>b DEF ChunkSent
    <2> QED
      BY <1>2, <2>1 DEF ChunkSent
  <1>3. ASSUME NEW f \in Frames, Finish(r, f) PROVE CoreType'
    BY <1>3 DEF Finish
  <1>4. CASE ChunkFailed(r)
    BY <1>4, <1>3, <1>b, FrameType, ErrorCodeType DEF ChunkFailed
  <1>5. CASE BackendOk(r)
    BY <1>5, <1>3, FrameType DEF BackendOk
  <1>6. CASE BackendErr(r)
    BY <1>6, <1>3, <1>b, FrameType, ErrorCodeType DEF BackendErr
  <1>7. CASE Deadline(r)
    BY <1>7, <1>3, <1>b, FrameType DEF Deadline, Codes
  <1>8. CASE SendFinal(r)
    BY <1>8 DEF SendFinal
  <1>9. CASE Release(r)
    BY <1>9, <1>a DEF Release
  <1>10. CASE Remove(r)
    BY <1>10 DEF Remove
  <1>11. CASE Drop(r)
    BY <1>11 DEF Drop
  <1> QED
    BY <1>1, <1>2, <1>4, <1>5, <1>6, <1>7, <1>8, <1>9, <1>10, <1>11
    DEF Driver

(* The part with sequences: the channel and the history.                   *)

LEMMA SendQueue ==
  ASSUME QueueType, NEW f \in Frames, Send(f)
  PROVE  QueueType'
  <1>1. f.req \in Reqs
    BY DEF Frames
  <1>2. log \in [Reqs -> Seq(Frames)] /\ log[f.req] \in Seq(Frames)
    BY <1>1 DEF QueueType
  <1>3. Append(log[f.req], f) \in Seq(Frames)
    BY <1>2, AppendProperties
  <1>4. log' = [log EXCEPT ![f.req] = Append(@, f)]
    BY DEF Send
  <1>5. log' \in [Reqs -> Seq(Frames)]
    BY <1>1, <1>2, <1>3, <1>4
  <1>6. f \in Frames \cup {Heartbeat}
    OBVIOUS
  <1>7. /\ chan' \in Seq(Frames \cup {Heartbeat})
        /\ Len(chan') = Len(chan) + 1
    BY <1>6, AppendProperties DEF QueueType, Send
  <1>8. Len(chan) \in Nat /\ Len(chan) < ChanCap
    BY LenProperties DEF QueueType, Send, HasRoom
  <1>9. ChanCap \in Nat
    BY ConstantsAssumption
  <1>10. Len(chan') <= ChanCap
    BY <1>7, <1>8, <1>9
  <1> QED
    BY <1>5, <1>7, <1>10 DEF QueueType

LEMMA InitQueue == Init => QueueType
  <1> SUFFICES ASSUME Init PROVE QueueType
    OBVIOUS
  <1>1. <<>> \in Seq(Frames) /\ <<>> \in Seq(Frames \cup {Heartbeat})
    BY EmptySeq
  <1>2. Len(chan) = 0
    BY EmptySeq DEF Init
  <1>3. ChanCap \in Nat
    BY ConstantsAssumption
  <1>4. chan = <<>> /\ log = [r \in Reqs |-> <<>>]
    BY DEF Init
  <1> QED
    BY <1>1, <1>2, <1>3, <1>4 DEF QueueType

LEMMA NextQueue ==
  ASSUME CoreType, QueueType, Next
  PROVE  QueueType'
  <1>1. ASSUME UNCHANGED <<chan, log>> PROVE QueueType'
    BY <1>1 DEF QueueType
  <1>2. CASE Pump
    <2>1. chan' \in Seq(Frames \cup {Heartbeat}) /\ Len(chan') = Len(chan) - 1
      BY <1>2, HeadTailProperties DEF Pump, QueueType
    <2>2. Len(chan) \in Nat /\ Len(chan) <= ChanCap
      BY LenProperties DEF QueueType
    <2>3. ChanCap \in Nat
      BY ConstantsAssumption
    <2>4. log' = log
      BY <1>2 DEF Pump
    <2>5. Len(chan') <= ChanCap
      BY <2>1, <2>2, <2>3
    <2> QED
      BY <2>1, <2>4, <2>5 DEF QueueType
  <1>3. CASE HeartbeatTick
    <2>1. /\ chan' \in Seq(Frames \cup {Heartbeat})
          /\ Len(chan') = Len(chan) + 1
      BY <1>3, AppendProperties DEF HeartbeatTick, QueueType
    <2>2. Len(chan) \in Nat /\ Len(chan) < ChanCap
      BY <1>3, LenProperties DEF HeartbeatTick, HasRoom, QueueType
    <2>3. ChanCap \in Nat
      BY ConstantsAssumption
    <2>4. log' = log
      BY <1>3 DEF HeartbeatTick
    <2>5. Len(chan') <= ChanCap
      BY <2>1, <2>2, <2>3
    <2> QED
      BY <2>1, <2>4, <2>5 DEF QueueType
  <1>4. CASE SendError
    <2>1. cur \in Reqs /\ code \in Codes
      BY <1>4 DEF SendError, CoreType
    <2>2. Error(cur, code, 0) \in Frames
      BY <2>1, FrameType
    <2> QED
      BY <1>4, <2>2, SendQueue DEF SendError
  <1>5. CASE CloseSession
    <2>1. chan' = <<>> /\ log' = log
      BY <1>5 DEF CloseSession
    <2>2. chan' \in Seq(Frames \cup {Heartbeat}) /\ Len(chan') = 0
      BY <2>1, EmptySeq
    <2>3. ChanCap \in Nat
      BY ConstantsAssumption
    <2> QED
      BY <2>1, <2>2, <2>3 DEF QueueType
  <1>6. ASSUME NEW r \in Reqs, ChunkSent(r) PROVE QueueType'
    <2>1. Chunk(r, emitted[r]) \in Frames
      BY CountType, FrameType
    <2> QED
      BY <1>6, <2>1, SendQueue DEF ChunkSent
  <1>7. ASSUME NEW r \in Reqs, SendFinal(r) PROVE QueueType'
    <2>1. final[r] \in Frames
      BY DEF CoreType
    <2> QED
      BY <1>7, <1>1, <2>1, SendQueue DEF SendFinal
  <1>8. CASE ReadLoop
    BY <1>1, <1>2, <1>4, <1>5, <1>8
    DEF ReadLoop, Pong, Written, DispatchAccept, DispatchInsert, DispatchReject,
        RejectRelease, CancelRemove, CancelAbort
  <1>9. ASSUME NEW r \in Reqs, Driver(r) PROVE QueueType'
    BY <1>1, <1>6, <1>7, <1>9
    DEF Driver, BackendChunk, Finish, ChunkFailed, BackendOk, BackendErr,
        Deadline, Release, Remove, Drop
  <1> QED
    BY <1>3, <1>8, <1>9 DEF Next

LEMMA NextType ==
  ASSUME TypeOK, [Next]_vars
  PROVE  TypeOK'
  <1>1. CASE Next
    BY <1>1, ReadLoopCore, DriverCore, NextQueue DEF Next, TypeOK
  <1>2. CASE UNCHANGED vars
    BY <1>2 DEF vars, TypeOK, CoreType, QueueType
  <1> QED
    BY <1>1, <1>2

(* Every reachable state is well typed: the counter stays within its width *)
(* and the channel within its capacity.                                    *)
THEOREM TypeCorrect == Spec => []TypeOK
  <1>1. Init => TypeOK
    BY InitCore, InitQueue DEF TypeOK
  <1>2. TypeOK /\ [Next]_vars => TypeOK'
    BY NextType
  <1> QED
    BY <1>1, <1>2, PTL DEF Spec

-----------------------------------------------------------------------------
(* The answer to a job.  Two lemmas on sequences: what a chunk and what a  *)
(* terminal frame do to an answer that is not terminated.                  *)

LEMMA AppendChunk ==
  ASSUME NEW r \in Reqs, NEW s \in Seq(Frames), InOrder(r, s),
         ~Terminated(s)
  PROVE  /\ InOrder(r, Append(s, Chunk(r, Len(s) + 1)))
         /\ ~Terminated(Append(s, Chunk(r, Len(s) + 1)))
         /\ ChunkCount(Append(s, Chunk(r, Len(s) + 1))) = ChunkCount(s) + 1
  <1> DEFINE n == Len(s) + 1
             t == Append(s, Chunk(r, n))
  <1>1. Len(s) \in Nat
    BY LenProperties
  <1>2. Chunk(r, n) \in Frames
    BY <1>1, FrameType
  <1>3. /\ Len(t) = Len(s) + 1 /\ t # <<>>
        /\ \A i \in 1..Len(s) : t[i] = s[i]
        /\ t[Len(s) + 1] = Chunk(r, n)
    BY <1>2, AppendProperties
  <1> HIDE DEF t
  <1>4. /\ Chunk(r, n).req = r /\ Chunk(r, n).n = n
        /\ ~IsTerminal(Chunk(r, n))
    BY DEF Chunk, IsTerminal
  <1>5. ~Terminated(t)
    BY <1>3, <1>4 DEF Terminated
  <1>6. \A i \in 1..Len(s) : ~IsTerminal(s[i])
    <2> SUFFICES ASSUME NEW i \in 1..Len(s), IsTerminal(s[i]) PROVE FALSE
      OBVIOUS
    <2>1. i = Len(s)
      BY DEF InOrder
    <2>2. s # <<>>
      BY <1>1, EmptySeq
    <2> QED
      BY <2>1, <2>2 DEF Terminated
  <1>7. InOrder(r, t)
    <2> SUFFICES ASSUME NEW i \in 1..Len(t)
                 PROVE  /\ t[i].req = r
                        /\ IsTerminal(t[i]) => i = Len(t)
                        /\ t[i].type = "job_chunk" => t[i].n = i
      BY DEF InOrder
    <2>1. CASE i \in 1..Len(s)
      BY <2>1, <1>3, <1>6 DEF InOrder
    <2>2. CASE i = Len(s) + 1
      BY <2>2, <1>3, <1>4
    <2> QED
      BY <2>1, <2>2, <1>1, <1>3
  <1>8. ChunkCount(t) = ChunkCount(s) + 1
    BY <1>1, <1>3, <1>5 DEF ChunkCount
  <1> QED
    BY <1>5, <1>7, <1>8 DEF t

LEMMA AppendTerminal ==
  ASSUME NEW r \in Reqs, NEW s \in Seq(Frames), InOrder(r, s),
         ~Terminated(s), NEW f \in Frames, IsTerminal(f), f.req = r
  PROVE  /\ InOrder(r, Append(s, f)) /\ Terminated(Append(s, f))
         /\ ChunkCount(Append(s, f)) = ChunkCount(s)
         /\ Append(s, f)[Len(Append(s, f))] = f
  <1> DEFINE t == Append(s, f)
  <1>1. Len(s) \in Nat
    BY LenProperties
  <1>2. /\ Len(t) = Len(s) + 1 /\ t # <<>>
        /\ \A i \in 1..Len(s) : t[i] = s[i]
        /\ t[Len(s) + 1] = f
    BY AppendProperties
  <1> HIDE DEF t
  <1>3. Terminated(t) /\ t[Len(t)] = f
    BY <1>2 DEF Terminated
  <1>4. \A i \in 1..Len(s) : ~IsTerminal(s[i])
    <2> SUFFICES ASSUME NEW i \in 1..Len(s), IsTerminal(s[i]) PROVE FALSE
      OBVIOUS
    <2>1. i = Len(s)
      BY DEF InOrder
    <2>2. s # <<>>
      BY <1>1, EmptySeq
    <2> QED
      BY <2>1, <2>2 DEF Terminated
  <1>5. InOrder(r, t)
    <2> SUFFICES ASSUME NEW i \in 1..Len(t)
                 PROVE  /\ t[i].req = r
                        /\ IsTerminal(t[i]) => i = Len(t)
                        /\ t[i].type = "job_chunk" => t[i].n = i
      BY DEF InOrder
    <2>1. CASE i \in 1..Len(s)
      BY <2>1, <1>2, <1>4 DEF InOrder
    <2>2. CASE i = Len(s) + 1
      BY <2>2, <1>2 DEF IsTerminal
    <2> QED
      BY <2>1, <2>2, <1>1, <1>2
  <1>6. ChunkCount(t) = ChunkCount(s)
    BY <1>1, <1>2, <1>3, <1>4 DEF ChunkCount
  <1> QED
    BY <1>3, <1>5, <1>6 DEF t

-----------------------------------------------------------------------------
(* The inductive invariant behind FrameOrder and TerminalTruthful: where a *)
(* driver is in its work fixes what it has emitted, what it has sent and   *)
(* whether it has answered.                                                *)

Truthful(r, f) ==
  /\ f.req = r /\ IsTerminal(f)
  /\ f.type = "job_done"  => emitted[r] = sent[r]
  /\ f.type = "job_error" => f.n = sent[r]

StreamInv(r) ==
  /\ InOrder(r, log[r])
  /\ ChunkCount(log[r]) = sent[r]
  /\ phase[r] \in {"new", "exec", "chunk", "final"} => ~Answered(r)
  /\ phase[r] = "new" => log[r] = <<>>
  /\ phase[r] \in {"new", "rejected"} => emitted[r] = 0 /\ sent[r] = 0
  /\ phase[r] = "exec"  => emitted[r] = sent[r]
  /\ phase[r] = "chunk" => emitted[r] = sent[r] + 1
  /\ emitted[r] <= sent[r] + 1
  /\ phase[r] = "final" => Truthful(r, final[r])
  /\ Answered(r) => Truthful(r, log[r][Len(log[r])])

(* A refusal in progress concerns a job that has no answer yet.            *)
RefusalInv ==
  loop \in {"reject", "send_error"} => phase[cur] = "rejected" /\ log[cur] = <<>>

AnswerInv == TypeOK /\ RefusalInv /\ \A r \in Reqs : StreamInv(r)

LEMMA AnswerInit == Init => AnswerInv
  <1> SUFFICES ASSUME Init PROVE AnswerInv
    OBVIOUS
  <1>1. TypeOK
    BY InitCore, InitQueue DEF TypeOK
  <1>2. RefusalInv
    BY DEF Init, RefusalInv
  <1>3. ASSUME NEW r \in Reqs PROVE StreamInv(r)
    <2>1. log[r] = <<>> /\ sent[r] = 0 /\ emitted[r] = 0 /\ phase[r] = "new"
      BY DEF Init
    <2>2. Len(log[r]) = 0
      BY <2>1, EmptySeq
    <2> QED
      BY <2>1, <2>2 DEF StreamInv, InOrder, ChunkCount, Answered, Terminated
  <1> QED
    BY <1>1, <1>2, <1>3 DEF AnswerInv

(* StreamInv(q) depends on the variables of q only.                        *)
LEMMA StreamKept ==
  ASSUME NEW q \in Reqs, StreamInv(q), log'[q] = log[q],
         emitted'[q] = emitted[q], sent'[q] = sent[q], final'[q] = final[q],
         \/ phase'[q] = phase[q]
         \/ phase'[q] \in {"release", "remove", "done", "dropped"}
  PROVE  StreamInv(q)'
  BY DEF StreamInv, Truthful, Answered

LEMMA ReadLoopStream ==
  ASSUME AnswerInv, ReadLoop \/ HeartbeatTick, NEW q \in Reqs
  PROVE  StreamInv(q)'
  <1>0. StreamInv(q)
    BY DEF AnswerInv
  <1>1. ASSUME UNCHANGED <<taskVars, log>> PROVE StreamInv(q)'
    BY <1>0, <1>1, StreamKept DEF taskVars
  <1>2. ASSUME NEW r \in Reqs, DispatchAccept(r) \/ DispatchReject(r)
        PROVE  StreamInv(q)'
    <2>1. UNCHANGED <<emitted, sent, final, log>>
      BY <1>2 DEF DispatchAccept, DispatchReject
    <2>2. CASE q # r
      <3>1. phase'[q] = phase[q]
        BY <1>2, <2>2 DEF DispatchAccept, DispatchReject, AnswerInv, TypeOK,
                          CoreType
      <3> QED
        BY <1>0, <2>1, <3>1, StreamKept
    <2>3. CASE q = r
      <3>1. phase[q] = "new" /\ phase'[q] \in {"exec", "rejected"}
        BY <1>2, <2>3 DEF DispatchAccept, DispatchReject, AnswerInv, TypeOK,
                          CoreType
      <3>2. ~Answered(q) /\ log[q] = <<>> /\ emitted[q] = 0 /\ sent[q] = 0
        BY <1>0, <3>1 DEF StreamInv
      <3>3. log'[q] = <<>> /\ emitted'[q] = 0 /\ sent'[q] = 0
        BY <2>1, <3>2
      <3>4. ~Answered(q)'
        BY <3>3 DEF Answered, Terminated
      <3>5. InOrder(q, log'[q]) /\ ChunkCount(log'[q]) = 0
        BY <1>0, <2>1, <3>2 DEF StreamInv
      <3> QED
        BY <3>1, <3>3, <3>4, <3>5 DEF StreamInv
    <2> QED
      BY <2>2, <2>3
  <1>3. CASE SendError
    <2>1. /\ cur \in Reqs /\ code \in Codes /\ phase[cur] = "rejected"
          /\ log[cur] = <<>>
      BY <1>3 DEF SendError, AnswerInv, TypeOK, CoreType, RefusalInv
    <2>2. /\ UNCHANGED taskVars
          /\ log' = [log EXCEPT ![cur] = Append(@, Error(cur, code, 0))]
      BY <1>3 DEF SendError, Send, Error
    <2>3. log \in [Reqs -> Seq(Frames)]
      BY DEF AnswerInv, TypeOK, QueueType
    <2>4. CASE q # cur
      BY <1>0, <2>1, <2>2, <2>3, <2>4, StreamKept DEF taskVars
    <2>5. CASE q = cur
      <3>1. ~Terminated(log[q]) /\ emitted[q] = 0 /\ sent[q] = 0
        BY <1>0, <2>1, <2>5 DEF StreamInv, Terminated
      <3> DEFINE f == Error(q, code, 0)
                 t == log'[q]
      <3>2. f \in Frames
        BY <2>1, FrameType
      <3>3. /\ IsTerminal(f) /\ f.req = q
            /\ f.type = "job_error" /\ f.n = 0
        BY DEF Error, IsTerminal
      <3>4. t = Append(log[q], f)
        BY <2>2, <2>3, <2>5
      <3>5. InOrder(q, log[q]) /\ log[q] \in Seq(Frames)
        BY <1>0, <2>3 DEF StreamInv
      <3> HIDE DEF f, t
      <3>6. /\ InOrder(q, t) /\ Terminated(t)
            /\ ChunkCount(t) = ChunkCount(log[q]) /\ t[Len(t)] = f
        BY <3>1, <3>2, <3>3, <3>4, <3>5, AppendTerminal
      <3>7. phase'[q] = "rejected" /\ emitted'[q] = 0 /\ sent'[q] = 0
        BY <2>1, <2>2, <2>5, <3>1 DEF taskVars
      <3>8. ChunkCount(t) = 0
        BY <1>0, <3>1, <3>6 DEF StreamInv
      <3> QED
        BY <3>3, <3>6, <3>7, <3>8 DEF StreamInv, Truthful, Answered, t
    <2> QED
      BY <2>4, <2>5
  <1>4. CASE CancelAbort
    BY <1>0, <1>4, StreamKept DEF CancelAbort
  <1> QED
    BY <1>1, <1>2, <1>3, <1>4
    DEF ReadLoop, Pump, Pong, Written, HeartbeatTick, DispatchInsert,
        RejectRelease, CancelRemove, CloseSession

(* A step of one driver task leaves the answer of the others alone.        *)
LEMMA DriverLocal ==
  ASSUME AnswerInv, NEW r \in Reqs, Driver(r), NEW q \in Reqs, q # r
  PROVE  StreamInv(q)'
  <1>0. StreamInv(q) /\ CoreType /\ QueueType
    BY DEF AnswerInv, TypeOK
  <1> USE DEF CoreType, QueueType
  <1>1. /\ emitted'[q] = emitted[q] /\ sent'[q] = sent[q]
        /\ final'[q] = final[q] /\ phase'[q] = phase[q]
    BY <1>0 DEF Driver, BackendChunk, ChunkSent, Finish, ChunkFailed,
                BackendOk, BackendErr, Deadline, SendFinal, Release, Remove,
                Drop
  <1>2. log'[q] = log[q]
    <2>1. CASE ChunkSent(r)
      BY <1>0, <2>1 DEF ChunkSent, Send, Chunk
    <2>2. CASE SendFinal(r)
      <3>1. phase[r] = "final" /\ StreamInv(r)
        BY <2>2 DEF SendFinal, AnswerInv
      <3>2. final[r].req = r
        BY <3>1 DEF StreamInv, Truthful
      <3> QED
        BY <1>0, <2>2, <3>2 DEF SendFinal, Send
    <2> QED
      BY <2>1, <2>2 DEF Driver, BackendChunk, Finish, ChunkFailed, BackendOk,
                        BackendErr, Deadline, Release, Remove, Drop
  <1> QED
    BY <1>0, <1>1, <1>2, StreamKept

(* A driver that finishes has a truthful terminal frame ready.             *)
LEMMA FinishStream ==
  ASSUME AnswerInv, NEW q \in Reqs, phase[q] \in {"exec", "chunk"},
         NEW f, Finish(q, f), Truthful(q, f)
  PROVE  StreamInv(q)'
  <1>1. StreamInv(q) /\ CoreType
    BY DEF AnswerInv, TypeOK
  <1>2. /\ UNCHANGED <<emitted, sent, log>>
        /\ phase'[q] = "final" /\ final'[q] = f
    BY <1>1 DEF Finish, CoreType
  <1>3. ~Answered(q) /\ ~Answered(q)'
    BY <1>1, <1>2 DEF StreamInv, Answered
  <1>4. Truthful(q, final[q])'
    BY <1>2 DEF Truthful
  <1>5. InOrder(q, log'[q]) /\ ChunkCount(log'[q]) = sent'[q]
    BY <1>1, <1>2 DEF StreamInv
  <1>6. emitted'[q] <= sent'[q] + 1
    BY <1>1, <1>2 DEF StreamInv
  <1> QED
    BY <1>2, <1>3, <1>4, <1>5, <1>6 DEF StreamInv

LEMMA DriverStream ==
  ASSUME AnswerInv, NEW q \in Reqs, Driver(q)
  PROVE  StreamInv(q)'
  <1>0. StreamInv(q) /\ CoreType /\ log \in [Reqs -> Seq(Frames)]
    BY DEF AnswerInv, TypeOK, QueueType
  <1>1. /\ emitted[q] \in Nat /\ sent[q] \in Nat
        /\ log[q] \in Seq(Frames)
    BY <1>0, CountType
  <1>2. CASE BackendChunk(q)
    <2>1. /\ UNCHANGED <<sent, log>> /\ phase'[q] = "chunk"
          /\ emitted'[q] = emitted[q] + 1 /\ phase[q] = "exec"
      BY <1>0, <1>2 DEF BackendChunk, CoreType
    <2>2. emitted'[q] = sent'[q] + 1
      BY <1>0, <2>1 DEF StreamInv
    <2>3. ~Answered(q) /\ ~Answered(q)'
      BY <1>0, <2>1 DEF StreamInv, Answered
    <2>4. InOrder(q, log'[q]) /\ ChunkCount(log'[q]) = sent'[q]
      BY <1>0, <2>1 DEF StreamInv
    <2>5. emitted'[q] <= sent'[q] + 1
      BY <1>1, <2>1, <2>2
    <2> QED
      BY <2>1, <2>2, <2>3, <2>4, <2>5 DEF StreamInv
  <1>3. CASE ChunkSent(q)
    <2> DEFINE s == log[q]
    <2>1. /\ emitted' = emitted /\ phase'[q] = "exec"
          /\ sent'[q] = sent[q] + 1 /\ phase[q] = "chunk"
      BY <1>0, <1>3 DEF ChunkSent, CoreType
    <2>2. /\ emitted[q] = sent[q] + 1 /\ ChunkCount(s) = sent[q]
          /\ ~Terminated(s) /\ InOrder(q, s)
      BY <1>0, <2>1 DEF StreamInv, Answered
    <2>3. Len(s) = sent[q]
      BY <1>1, <2>2, LenProperties DEF ChunkCount
    <2>4. Chunk(q, emitted[q]) = Chunk(q, Len(s) + 1)
      BY <2>2, <2>3
    <2>5. log'[q] = Append(s, Chunk(q, emitted[q]))
      BY <1>0, <1>3 DEF ChunkSent, Send, Chunk
    <2>6. log'[q] = Append(s, Chunk(q, Len(s) + 1))
      BY <2>4, <2>5
    <2>7. /\ InOrder(q, log'[q]) /\ ~Terminated(log'[q])
          /\ ChunkCount(log'[q]) = ChunkCount(s) + 1
      BY <1>1, <2>2, <2>6, AppendChunk
    <2>8. /\ ChunkCount(log'[q]) = sent'[q]
          /\ emitted'[q] = sent'[q] /\ emitted'[q] <= sent'[q] + 1
      BY <1>1, <2>1, <2>2, <2>7
    <2> QED
      BY <2>1, <2>7, <2>8 DEF StreamInv, Answered
  <1>4. CASE ChunkFailed(q)
    BY <1>4, FinishStream DEF ChunkFailed, Truthful, Error, IsTerminal
  <1>5. CASE BackendOk(q)
    <2>1. emitted[q] = sent[q]
      BY <1>0, <1>5 DEF BackendOk, StreamInv
    <2>2. Truthful(q, Done(q))
      BY <2>1 DEF Truthful, Done, IsTerminal
    <2> QED
      BY <1>5, <2>2, FinishStream DEF BackendOk
  <1>6. CASE BackendErr(q)
    <2>1. PICK err \in Errors : Finish(q, Error(q, ErrorCode(err), sent[q]))
      BY <1>6 DEF BackendErr
    <2>2. Truthful(q, Error(q, ErrorCode(err), sent[q]))
      BY DEF Truthful, Error, IsTerminal
    <2>3. phase[q] = "exec"
      BY <1>6 DEF BackendErr
    <2> QED
      BY <2>1, <2>2, <2>3, FinishStream
  <1>7. CASE Deadline(q)
    BY <1>7, FinishStream DEF Deadline, Truthful, Error, IsTerminal
  <1>8. CASE SendFinal(q)
    <2> DEFINE s == log[q]
               f == final[q]
    <2>1. /\ UNCHANGED <<emitted, sent, final>>
          /\ phase'[q] = "release" /\ phase[q] = "final"
      BY <1>0, <1>8 DEF SendFinal, CoreType
    <2>2. CASE log' = log
      BY <1>0, <2>1, <2>2, StreamKept
    <2>3. CASE Send(f)
      <3>1. /\ InOrder(q, s) /\ ChunkCount(s) = sent[q]
            /\ ~Terminated(s) /\ Truthful(q, f)
        BY <1>0, <2>1 DEF StreamInv, Answered
      <3>2. f \in Frames /\ IsTerminal(f) /\ f.req = q
        BY <1>0, <3>1 DEF CoreType, Truthful
      <3>3. log'[q] = Append(s, f)
        BY <1>0, <2>3, <3>2 DEF Send
      <3> HIDE DEF f
      <3>4. /\ InOrder(q, log'[q]) /\ Terminated(log'[q])
            /\ ChunkCount(log'[q]) = sent[q]
            /\ log'[q][Len(log'[q])] = f
        BY <1>1, <3>1, <3>2, <3>3, AppendTerminal
      <3>5. Truthful(q, f)'
        BY <2>1, <3>1 DEF Truthful, f
      <3>6. emitted'[q] <= sent'[q] + 1
        BY <1>0, <2>1 DEF StreamInv
      <3> QED
        BY <2>1, <3>1, <3>4, <3>6 DEF StreamInv, Truthful, Answered
    <2> QED
      BY <1>8, <2>2, <2>3 DEF SendFinal
  <1>9. CASE Release(q) \/ Remove(q) \/ Drop(q)
    <2>1. /\ UNCHANGED <<emitted, sent, final, log>>
          /\ phase'[q] \in {"release", "remove", "done", "dropped"}
      BY <1>0, <1>9 DEF Release, Remove, Drop, CoreType
    <2> QED
      BY <1>0, <2>1, StreamKept
  <1> QED
    BY <1>2, <1>3, <1>4, <1>5, <1>6, <1>7, <1>8, <1>9 DEF Driver

LEMMA AnswerRefusal ==
  ASSUME AnswerInv, Next
  PROVE  RefusalInv'
  <1>0. RefusalInv /\ CoreType /\ QueueType /\ \A r \in Reqs : StreamInv(r)
    BY DEF AnswerInv, TypeOK
  <1>1. ASSUME NEW r \in Reqs, DispatchReject(r) PROVE RefusalInv'
    <2>1. /\ cur' = r /\ phase'[r] = "rejected" /\ log' = log
          /\ phase[r] = "new"
      BY <1>0, <1>1 DEF DispatchReject, CoreType
    <2>2. log[r] = <<>>
      BY <1>0, <2>1 DEF StreamInv
    <2> QED
      BY <2>1, <2>2 DEF RefusalInv
  <1>2. ASSUME NEW r \in Reqs, Driver(r) PROVE RefusalInv'
    <2> SUFFICES ASSUME loop \in {"reject", "send_error"}
                 PROVE  phase'[cur] = "rejected" /\ log'[cur] = <<>>
      BY <1>2 DEF RefusalInv, Driver, BackendChunk, ChunkSent, Finish,
                  ChunkFailed, BackendOk, BackendErr, Deadline, SendFinal,
                  Release, Remove, Drop, loopVars
    <2>1. cur \in Reqs /\ phase[cur] = "rejected" /\ log[cur] = <<>>
      BY <1>0 DEF RefusalInv, CoreType
    <2>2. phase[r] # "rejected"
      BY <1>2 DEF Driver, BackendChunk, ChunkSent, Finish, ChunkFailed,
                  BackendOk, BackendErr, Deadline, SendFinal, Release, Remove,
                  Drop, AwaitPhases
    <2>3. cur # r
      BY <2>1, <2>2
    <2>4. phase'[cur] = phase[cur]
      BY <1>0, <1>2, <2>1, <2>3
      DEF Driver, BackendChunk, ChunkSent, Finish, ChunkFailed, BackendOk,
          BackendErr, Deadline, SendFinal, Release, Remove, Drop, CoreType
    <2>5. log'[cur] = log[cur]
      <3>1. CASE ChunkSent(r)
        BY <1>0, <2>1, <2>3, <3>1 DEF ChunkSent, Send, Chunk, QueueType
      <3>2. CASE SendFinal(r)
        <4>1. final[r].req = r
          BY <1>0, <3>2 DEF SendFinal, StreamInv, Truthful
        <4> QED
          BY <1>0, <2>1, <2>3, <3>2, <4>1 DEF SendFinal, Send, QueueType
      <3> QED
        BY <1>2, <3>1, <3>2
        DEF Driver, BackendChunk, Finish, ChunkFailed, BackendOk, BackendErr,
            Deadline, Release, Remove, Drop
    <2> QED
      BY <2>1, <2>4, <2>5
  <1>3. CASE HeartbeatTick
    BY <1>0, <1>3 DEF HeartbeatTick, RefusalInv, loopVars, taskVars
  <1>4. CASE RejectRelease
    BY <1>0, <1>4 DEF RejectRelease, RefusalInv, taskVars
  <1>5. CASE Pump \/ Pong \/ Written
    BY <1>0, <1>5 DEF Pump, Pong, Written, RefusalInv, loopVars, taskVars
  <1> QED
    BY <1>1, <1>2, <1>3, <1>4, <1>5
    DEF Next, ReadLoop, DispatchAccept, DispatchInsert, SendError,
        CancelRemove, CancelAbort, CloseSession, RefusalInv, loopVars, taskVars

LEMMA AnswerStep ==
  ASSUME AnswerInv, [Next]_vars
  PROVE  AnswerInv'
  <1>1. CASE Next
    <2>1. TypeOK'
      BY NextType DEF AnswerInv
    <2>2. RefusalInv'
      BY <1>1, AnswerRefusal
    <2>3. ASSUME NEW q \in Reqs PROVE StreamInv(q)'
      BY <1>1, ReadLoopStream, DriverLocal, DriverStream DEF Next
    <2> QED
      BY <2>1, <2>2, <2>3 DEF AnswerInv
  <1>2. CASE UNCHANGED vars
    <2>1. TypeOK'
      BY NextType DEF AnswerInv
    <2>2. RefusalInv'
      BY <1>2 DEF vars, AnswerInv, RefusalInv
    <2>3. ASSUME NEW q \in Reqs PROVE StreamInv(q)'
      BY <1>2, StreamKept DEF vars, AnswerInv
    <2> QED
      BY <2>1, <2>2, <2>3 DEF AnswerInv
  <1> QED
    BY <1>1, <1>2

LEMMA AnswerInvMeans == AnswerInv => FrameOrder /\ TerminalTruthful
  <1> SUFFICES ASSUME AnswerInv, NEW r \in Reqs
               PROVE  /\ InOrder(r, log[r])
                      /\ Answered(r) =>
                           LET f == log[r][Len(log[r])]
                           IN  /\ f.type = "job_done" =>
                                    ChunkCount(log[r]) = emitted[r]
                               /\ f.type = "job_error" =>
                                    ChunkCount(log[r]) = f.n
    BY DEF FrameOrder, TerminalTruthful
  <1>1. StreamInv(r)
    BY DEF AnswerInv
  <1> QED
    BY <1>1 DEF StreamInv, Truthful

LEMMA AnswersAlways == Spec => []AnswerInv
  <1>1. AnswerInv /\ [Next]_vars => AnswerInv'
    BY AnswerStep
  <1> QED
    BY <1>1, AnswerInit, PTL DEF Spec

(* Whatever cancels, deadlines, full channels and lost sessions do, the    *)
(* coordinator sees each answer in order: numbered chunks, then at most    *)
(* one terminal frame.                                                     *)
THEOREM AnswersOrdered == Spec => []FrameOrder
  BY AnswersAlways, AnswerInvMeans, PTL

(* The terminal frame tells the truth about the chunks before it.          *)
THEOREM AnswersTruthful == Spec => []TerminalTruthful
  BY AnswersAlways, AnswerInvMeans, PTL
=============================================================================
