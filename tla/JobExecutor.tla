---------------------------- MODULE JobExecutor ----------------------------
(***************************************************************************)
(* One coordinator session of the agent: the read loop of ws_client.rs,    *)
(* which calls JobExecutor::dispatch and ::cancel inline, the driver tasks *)
(* those calls spawn on a multi-threaded runtime, and the bounded outbound *)
(* channel they all share with the write pump.                             *)
(*                                                                         *)
(* A request is one `job` frame of the coordinator.  The read loop is      *)
(* sequential; every driver task runs concurrently with it.  A step is the *)
(* code between two accesses of shared state: the in_flight counter, the   *)
(* `active` table (a mutex held for one insert or remove) and the channel. *)
(***************************************************************************)
EXTENDS Integers, Sequences, FiniteSets

CONSTANTS
  Reqs,           \* the job frames the coordinator may deliver
  JobIds,         \* job ids
  JobOf,          \* the job_id each frame carries
  Routed,         \* the frames whose model_id is in `routes`
  MaxConcurrent,  \* limits.max_concurrent
  CounterSize,    \* 2^32: in_flight is an AtomicU32 that wraps
  ChanCap,        \* capacity of the outbound mpsc channel (64 in the code)
  MaxChunks,      \* bound of the model: chunks one backend call may emit
  Errors,         \* the BackendError variants a backend may return
  NoReq           \* "no handle": absent table entry, idle read loop

BackendErrors ==
  {"Unreachable", "BadStatusAuth", "BadStatus", "MissingApiKey",
   "ModelNotFound", "Timeout", "Transport", "Serde", "Other"}

ASSUME ConstantsAssumption ==
  /\ JobOf \in [Reqs -> JobIds]
  /\ Routed \subseteq Reqs
  /\ NoReq \notin Reqs
  /\ MaxConcurrent \in Nat \ {0}
  /\ CounterSize \in Nat /\ CounterSize > MaxConcurrent + 1
  /\ ChanCap \in Nat \ {0}
  /\ MaxChunks \in Nat
  /\ Errors \subseteq BackendErrors

(***************************************************************************)
(* map_backend_error: the wire code of a backend failure.                  *)
(***************************************************************************)
ErrorCode(err) ==
  CASE err = "Unreachable"                        -> "backend_unreachable"
    [] err = "Timeout"                            -> "backend_timeout"
    [] err = "ModelNotFound"                      -> "model_not_loaded"
    [] err \in {"MissingApiKey", "BadStatusAuth"} -> "auth_rejected_by_backend"
    [] OTHER                                      -> "internal"

Codes == {"backend_unreachable", "backend_timeout", "model_not_loaded",
          "auth_rejected_by_backend", "internal", "out_of_capacity"}

(***************************************************************************)
(* Outbound frames.  n numbers a chunk, and is `tokens_emitted` in an      *)
(* error; code is empty unless the frame is an error.                      *)
(***************************************************************************)
Chunk(r, i)       == [req |-> r, type |-> "job_chunk", code |-> "", n |-> i]
Done(r)           == [req |-> r, type |-> "job_done", code |-> "", n |-> 0]
Error(r, code, n) == [req |-> r, type |-> "job_error", code |-> code, n |-> n]

Frames == [req : Reqs, type : {"job_chunk", "job_done", "job_error"},
           code : Codes \cup {""}, n : Nat]

(* The heartbeat shares the channel.  Its payload is constant.             *)
Heartbeat == [req |-> NoReq, type |-> "heartbeat", code |-> "", n |-> 0]

IsTerminal(f) == f.type \in {"job_done", "job_error"}

VARIABLES
  in_flight,  \* the AtomicU32
  active,     \* job_id -> the request whose JoinHandle the table holds
  loop,       \* where the read loop is
  cur,        \* the request (or cancelled handle) the read loop works on
  code,       \* the error code a rejection is about to send
  phase,      \* where each request's driver task is
  abort,      \* whether its JoinHandle was aborted, and what that means for it
  emitted,    \* chunks the backend handed to send_chunk
  sent,       \* WsJobSink::bytes_sent, one unit per chunk
  final,      \* the terminal frame the driver is about to send
  chan,       \* the outbound mpsc channel
  open,       \* the session is up: the read loop holds the receiver
  log,        \* history: per request, every frame the channel accepted
  freed       \* history: who released the slot of each request

vars == <<in_flight, active, loop, cur, code, phase, abort, emitted, sent,
          final, chan, open, log, freed>>

taskVars == <<phase, abort, emitted, sent, final>>
loopVars == <<loop, cur, code>>

LoopStates  == {"select", "write", "reject", "send_error", "insert", "abort",
                "closed"}
AwaitPhases == {"exec", "chunk", "final", "remove"}
LivePhases  == AwaitPhases \cup {"release"}
Phases      == {"new", "rejected", "done", "dropped"} \cup LivePhases

Increment(x) == IF x = CounterSize - 1 THEN 0 ELSE x + 1
(* Mutant of Decrement: a subtraction that does not wrap.                  *)
DecrementUnwrapped(x) == x - 1

Decrement(x) == IF x = 0 THEN CounterSize - 1 ELSE x - 1

HasRoom == Len(chan) < ChanCap

(* The channel accepts a frame: Sender::send resolves to Ok.               *)
Send(f) ==
  /\ open /\ HasRoom
  /\ chan' = Append(chan, f)
  /\ log' = [log EXCEPT ![f.req] = Append(@, f)]

Init ==
  /\ in_flight = 0
  /\ active = [j \in JobIds |-> NoReq]
  /\ loop = "select" /\ cur = NoReq /\ code = ""
  /\ phase = [r \in Reqs |-> "new"]
  /\ abort = [r \in Reqs |-> "no"]
  /\ emitted = [r \in Reqs |-> 0]
  /\ sent = [r \in Reqs |-> 0]
  /\ final = [r \in Reqs |-> Done(r)]
  /\ chan = <<>>
  /\ open = TRUE
  /\ log = [r \in Reqs |-> <<>>]
  /\ freed = [r \in Reqs |-> {}]

-----------------------------------------------------------------------------
(* The read loop: one select! over the channel and the inbound stream.     *)

(* The write pump: take one frame and hand it to the WebSocket sink.  The  *)
(* read loop is suspended in sink.send until the peer takes the frame.     *)
Pump ==
  /\ loop = "select" /\ chan # <<>>
  /\ chan' = Tail(chan)
  /\ loop' = "write"
  /\ UNCHANGED <<in_flight, active, cur, code, taskVars, open, log, freed>>

(* A Ping arrives: the Pong goes through the same sink, and may wait too.  *)
Pong ==
  /\ loop = "select" /\ loop' = "write"
  /\ UNCHANGED <<in_flight, active, cur, code, taskVars, chan, open, log,
                 freed>>

(* sink.send returns: the peer read enough of what was written.            *)
Written ==
  /\ loop = "write" /\ loop' = "select"
  /\ UNCHANGED <<in_flight, active, cur, code, taskVars, chan, open, log,
                 freed>>

(* A tick of heartbeat::spawn_loop: the send waits for room like any other *)
(* and the task is aborted with the session.                               *)
HeartbeatTick ==
  /\ open /\ HasRoom
  /\ chan' = Append(chan, Heartbeat)
  /\ UNCHANGED <<in_flight, active, loopVars, taskVars, open, log, freed>>

(* dispatch, accepted: the slot is taken and the driver task is spawned.   *)
(* It may run at once, on another thread, before the table knows it.       *)
(* Mutant: the capacity test is off by one.                                *)
DispatchAcceptOneMore(r) ==
  /\ loop = "select" /\ phase[r] = "new"
  /\ in_flight <= MaxConcurrent
  /\ r \in Routed
  /\ in_flight' = Increment(in_flight)
  /\ phase' = [phase EXCEPT ![r] = "exec"]
  /\ loop' = "insert" /\ cur' = r
  /\ UNCHANGED <<active, code, abort, emitted, sent, final, chan, open, log,
                 freed>>

DispatchAccept(r) ==
  /\ loop = "select" /\ phase[r] = "new"
  /\ in_flight < MaxConcurrent
  /\ r \in Routed
  /\ in_flight' = Increment(in_flight)
  /\ phase' = [phase EXCEPT ![r] = "exec"]
  /\ loop' = "insert" /\ cur' = r
  /\ UNCHANGED <<active, code, abort, emitted, sent, final, chan, open, log,
                 freed>>

(* dispatch, last statement: lock the table and record the JoinHandle.     *)
(* An entry of the same job_id is replaced and its task detached.          *)
(* Mutant: try_lock, so a busy table loses the handle.                     *)
DispatchInsertTryLock ==
  /\ loop = "insert"
  /\ \/ active' = [active EXCEPT ![JobOf[cur]] = cur]
     \/ UNCHANGED active
  /\ loop' = "select" /\ cur' = NoReq
  /\ UNCHANGED <<in_flight, code, taskVars, chan, open, log, freed>>

DispatchInsert ==
  /\ loop = "insert"
  /\ active' = [active EXCEPT ![JobOf[cur]] = cur]
  /\ loop' = "select" /\ cur' = NoReq
  /\ UNCHANGED <<in_flight, code, taskVars, chan, open, log, freed>>

(* dispatch, refused: the counter was incremented before it was tested.    *)
DispatchReject(r) ==
  /\ loop = "select" /\ phase[r] = "new"
  /\ \/ in_flight >= MaxConcurrent /\ code' = "out_of_capacity"
     \/ /\ in_flight < MaxConcurrent /\ r \notin Routed
        /\ code' = "model_not_loaded"
  /\ in_flight' = Increment(in_flight)
  /\ phase' = [phase EXCEPT ![r] = "rejected"]
  /\ loop' = "reject" /\ cur' = r
  /\ UNCHANGED <<active, abort, emitted, sent, final, chan, open, log, freed>>

(* Mutant: the refusal keeps the slot it counted.                          *)
RejectKeepsSlot ==
  /\ loop = "reject"
  /\ loop' = "send_error"
  /\ UNCHANGED <<in_flight, active, cur, code, taskVars, chan, open, log, freed>>

RejectRelease ==
  /\ loop = "reject"
  /\ in_flight' = Decrement(in_flight)
  /\ loop' = "send_error"
  /\ UNCHANGED <<active, cur, code, taskVars, chan, open, log, freed>>

(* send_error: awaits room in the channel.  The read loop is the only      *)
(* reader of that channel and does not read it while it waits here.        *)
SendError ==
  /\ loop = "send_error"
  /\ Send(Error(cur, code, 0))
  /\ loop' = "select" /\ cur' = NoReq /\ code' = ""
  /\ UNCHANGED <<in_flight, active, taskVars, open, freed>>

(* cancel, first statement: take the handle out of the table.  A cancel    *)
(* for a job that has no entry changes nothing.                            *)
CancelRemove(j) ==
  /\ loop = "select" /\ active[j] # NoReq
  /\ cur' = active[j]
  /\ active' = [active EXCEPT ![j] = NoReq]
  /\ loop' = "abort"
  /\ UNCHANGED <<in_flight, code, taskVars, chan, open, log, freed>>

(* cancel, the rest: abort the task and release its slot.  The abort of a  *)
(* finished task has no effect.  A suspended task is "doomed": it never    *)
(* runs again.  A task some worker is polling is "racing": it goes on      *)
(* until it next has to wait.                                              *)
CancelAbort ==
  /\ loop = "abort"
  /\ \/ phase[cur] \in LivePhases /\ abort' = [abort EXCEPT ![cur] = "racing"]
     \/ phase[cur] \in AwaitPhases /\ abort' = [abort EXCEPT ![cur] = "doomed"]
     \/ phase[cur] \notin LivePhases /\ UNCHANGED abort
  /\ in_flight' = Decrement(in_flight)
  /\ freed' = [freed EXCEPT ![cur] = @ \cup {"cancel"}]
  /\ loop' = "select" /\ cur' = NoReq
  /\ UNCHANGED <<active, code, phase, emitted, sent, final, chan, open, log>>

(* The session ends (Close frame, EOF or read error in select!, an error   *)
(* of sink.send in a write): the receiver is dropped with every queued     *)
(* frame.  Driver tasks are not aborted.                                   *)
CloseSession ==
  /\ loop \in {"select", "write"}
  /\ loop' = "closed" /\ open' = FALSE /\ chan' = <<>>
  /\ UNCHANGED <<in_flight, active, cur, code, taskVars, log, freed>>

-----------------------------------------------------------------------------
(* The driver task of request r.                                           *)

CanRun(r) == abort[r] # "doomed"

(* The backend's stream yields bytes: execute calls send_chunk.            *)
BackendChunk(r) ==
  /\ phase[r] = "exec" /\ CanRun(r) /\ emitted[r] < MaxChunks
  /\ emitted' = [emitted EXCEPT ![r] = @ + 1]
  /\ phase' = [phase EXCEPT ![r] = "chunk"]
  /\ UNCHANGED <<in_flight, active, loopVars, abort, sent, final, chan, open,
                 log, freed>>

ChunkSent(r) ==
  /\ phase[r] = "chunk" /\ CanRun(r)
  /\ Send(Chunk(r, emitted[r]))
  /\ sent' = [sent EXCEPT ![r] = @ + 1]
  /\ phase' = [phase EXCEPT ![r] = "exec"]
  /\ UNCHANGED <<in_flight, active, loopVars, abort, emitted, final, open,
                 freed>>

(* The driver has its outcome and turns to the terminal frame.             *)
Finish(r, f) ==
  /\ CanRun(r)
  /\ final' = [final EXCEPT ![r] = f]
  /\ phase' = [phase EXCEPT ![r] = "final"]
  /\ UNCHANGED <<in_flight, active, loopVars, abort, emitted, sent, chan,
                 open, log, freed>>

(* send_chunk fails: SEND_TIMEOUT elapsed on a full channel, or the        *)
(* receiver is gone.  execute passes the error on.                         *)
(* Mutants: the error counts the chunk that was not sent; the error is     *)
(* swallowed and the stream goes on.                                       *)
ChunkFailedCounts(r) ==
  /\ phase[r] = "chunk"
  /\ ~open \/ ~HasRoom
  /\ Finish(r, Error(r, ErrorCode("Other"), emitted[r]))

ChunkFailedIgnored(r) ==
  /\ phase[r] = "chunk" /\ CanRun(r)
  /\ ~open \/ ~HasRoom
  /\ phase' = [phase EXCEPT ![r] = "exec"]
  /\ UNCHANGED <<in_flight, active, loopVars, abort, emitted, sent, final,
                 chan, open, log, freed>>

ChunkFailed(r) ==
  /\ phase[r] = "chunk"
  /\ ~open \/ ~HasRoom
  /\ Finish(r, Error(r, ErrorCode("Other"), sent[r]))

BackendOk(r) ==
  /\ phase[r] = "exec"
  /\ Finish(r, Done(r))

BackendErr(r) ==
  /\ phase[r] = "exec"
  /\ \E err \in Errors : Finish(r, Error(r, ErrorCode(err), sent[r]))

(* tokio::time::timeout(deadline, exec): a chunk waiting for room is lost. *)
(* Mutants: the timeout covers the whole task, terminal frame included; it *)
(* covers only the waits of send_chunk.                                    *)
DeadlineWholeTask(r) ==
  /\ phase[r] \in {"exec", "chunk", "release"}
  /\ Finish(r, Error(r, "backend_timeout", sent[r]))

DeadlineChunksOnly(r) ==
  /\ phase[r] = "chunk"
  /\ Finish(r, Error(r, "backend_timeout", sent[r]))

Deadline(r) ==
  /\ phase[r] \in {"exec", "chunk"}
  /\ Finish(r, Error(r, "backend_timeout", sent[r]))

(* The terminal frame: queued, or dropped because the receiver is gone.    *)
(* Mutants: try_send drops the frame when the channel is full; a closed    *)
(* channel is waited for.                                                  *)
SendFinalTry(r) ==
  /\ phase[r] = "final" /\ CanRun(r)
  /\ \/ Send(final[r])
     \/ (~open \/ ~HasRoom) /\ UNCHANGED <<chan, log>>
  /\ phase' = [phase EXCEPT ![r] = "release"]
  /\ UNCHANGED <<in_flight, active, loopVars, abort, emitted, sent, final,
                 open, freed>>

SendFinalWaits(r) ==
  /\ phase[r] = "final" /\ CanRun(r)
  /\ Send(final[r])
  /\ phase' = [phase EXCEPT ![r] = "release"]
  /\ UNCHANGED <<in_flight, active, loopVars, abort, emitted, sent, final,
                 open, freed>>

SendFinal(r) ==
  /\ phase[r] = "final" /\ CanRun(r)
  /\ \/ Send(final[r])
     \/ ~open /\ UNCHANGED <<chan, log>>
  /\ phase' = [phase EXCEPT ![r] = "release"]
  /\ UNCHANGED <<in_flight, active, loopVars, abort, emitted, sent, final,
                 open, freed>>

Release(r) ==
  /\ phase[r] = "release" /\ CanRun(r)
  /\ in_flight' = Decrement(in_flight)
  /\ freed' = [freed EXCEPT ![r] = @ \cup {"driver"}]
  /\ phase' = [phase EXCEPT ![r] = "remove"]
  /\ UNCHANGED <<active, loopVars, abort, emitted, sent, final, chan, open, log>>

(* The entry goes by job_id, whichever task's handle it holds by then.     *)
Remove(r) ==
  /\ phase[r] = "remove" /\ CanRun(r)
  /\ active' = [active EXCEPT ![JobOf[r]] = NoReq]
  /\ phase' = [phase EXCEPT ![r] = "done"]
  /\ UNCHANGED <<in_flight, loopVars, abort, emitted, sent, final, chan, open,
                 log, freed>>

(* The runtime drops an aborted task at an await.                          *)
Drop(r) ==
  /\ abort[r] # "no" /\ phase[r] \in AwaitPhases
  /\ phase' = [phase EXCEPT ![r] = "dropped"]
  /\ UNCHANGED <<in_flight, active, loopVars, abort, emitted, sent, final,
                 chan, open, log, freed>>

-----------------------------------------------------------------------------

ReadLoop ==
  \/ Pump \/ Pong \/ Written
  \/ \E r \in Reqs : DispatchAccept(r) \/ DispatchReject(r)
  \/ DispatchInsert
  \/ RejectRelease
  \/ SendError
  \/ \E j \in JobIds : CancelRemove(j)
  \/ CancelAbort
  \/ CloseSession

Driver(r) ==
  \/ BackendChunk(r) \/ ChunkSent(r) \/ ChunkFailed(r)
  \/ BackendOk(r) \/ BackendErr(r) \/ Deadline(r)
  \/ SendFinal(r) \/ Release(r) \/ Remove(r) \/ Drop(r)

Next == ReadLoop \/ HeartbeatTick \/ \E r \in Reqs : Driver(r)

Spec == Init /\ [][Next]_vars

(***************************************************************************)
(* Fairness.  The runtime keeps polling the read loop and every task that  *)
(* is ready; the deadline timer of a task fires.  The pump and the senders *)
(* get strong fairness: select! picks its branch at random, and waiters    *)
(* for channel room are served first come, first served.  The coordinator  *)
(* and the backend owe nothing: Written has no fairness, since sink.send   *)
(* has no timeout and a peer that stops reading suspends it for ever.      *)
(***************************************************************************)
Fairness ==
  /\ SF_vars(Pump)
  /\ WF_vars(DispatchInsert) /\ WF_vars(RejectRelease)
  /\ WF_vars(SendError) /\ WF_vars(CancelAbort)
  /\ \A r \in Reqs : /\ WF_vars(Deadline(r)) /\ SF_vars(SendFinal(r))
                     /\ WF_vars(Release(r)) /\ WF_vars(Remove(r))
                     /\ WF_vars(Drop(r))

FairSpec == Spec /\ Fairness

-----------------------------------------------------------------------------
(* Vocabulary of the properties.                                           *)

Live(r)     == phase[r] \in LivePhases
Accepted    == {r \in Reqs : phase[r] \in LivePhases \cup {"done", "dropped"}}
Executing   == {r \in Reqs : phase[r] \in {"exec", "chunk"} /\ abort[r] = "no"}
DoubleFreed == {r \in Reqs : freed[r] = {"driver", "cancel"}}

(* The answer s to a request: is it terminated, how many chunks, in order? *)
Terminated(s) == s # <<>> /\ IsTerminal(s[Len(s)])
ChunkCount(s) == Len(s) - (IF Terminated(s) THEN 1 ELSE 0)
InOrder(r, s) ==
  \A i \in 1..Len(s) : /\ s[i].req = r
                       /\ IsTerminal(s[i]) => i = Len(s)
                       /\ s[i].type = "job_chunk" => s[i].n = i

Answered(r) == Terminated(log[r])

(* The answer was handed to the WebSocket sink: no frame of it is queued.  *)
HandedOver(r) == Answered(r) /\ \A i \in 1..Len(chan) : chan[i].req # r

(* The read loop waits for room that only the read loop could make.        *)
Wedged == loop = "send_error" /\ ~HasRoom

(***************************************************************************)
(* Type invariant.                                                         *)
(***************************************************************************)
CoreType ==
  /\ in_flight \in Nat /\ in_flight < CounterSize
  /\ active \in [JobIds -> Reqs \cup {NoReq}]
  /\ loop \in LoopStates
  /\ cur \in Reqs \cup {NoReq}
  /\ cur = NoReq <=> loop \in {"select", "write", "closed"}
  /\ code \in IF loop \in {"reject", "send_error"} THEN Codes ELSE {""}
  /\ phase \in [Reqs -> Phases]
  /\ abort \in [Reqs -> {"no", "racing", "doomed"}]
  /\ emitted \in [Reqs -> 0..MaxChunks]
  /\ sent \in [Reqs -> Nat]
  /\ final \in [Reqs -> Frames]
  /\ open \in BOOLEAN
  /\ freed \in [Reqs -> SUBSET {"driver", "cancel"}]

QueueType ==
  /\ chan \in Seq(Frames \cup {Heartbeat}) /\ Len(chan) <= ChanCap
  /\ log \in [Reqs -> Seq(Frames)]

TypeOK == CoreType /\ QueueType

(***************************************************************************)
(* What the coordinator sees of a request is a run of chunks numbered      *)
(* 1, 2, ..., k and at most one terminal frame, after them: no chunk is    *)
(* lost in the middle or repeated, and nothing follows the terminal frame, *)
(* whatever cancel, timeouts and a full channel do to the driver task.     *)
(***************************************************************************)
FrameOrder == \A r \in Reqs : InOrder(r, log[r])

(***************************************************************************)
(* A terminal frame tells the truth about the chunks before it: job_done   *)
(* means that everything the backend emitted was sent, and tokens_emitted  *)
(* in job_error counts the chunks the channel accepted, to be handed to    *)
(* the coordinator.  A chunk that met the deadline or SEND_TIMEOUT in a    *)
(* full channel must not count.                                            *)
(***************************************************************************)
TerminalTruthful ==
  \A r \in Reqs :
    Answered(r) =>
      LET f == log[r][Len(log[r])]
      IN  /\ f.type = "job_done"  => ChunkCount(log[r]) = emitted[r]
          /\ f.type = "job_error" => ChunkCount(log[r]) = f.n

(***************************************************************************)
(* A driver task ends without a terminal frame only if the coordinator     *)
(* cancelled the job or the session is gone.                               *)
(***************************************************************************)
NoSilentEnd ==
  \A r \in Reqs :
    phase[r] \in {"done", "dropped"} /\ abort[r] = "no" /\ open => Answered(r)

(***************************************************************************)
(* The capacity counter is exact as long as no slot was released twice: it *)
(* counts the accepted jobs that hold a slot, and the refused job whose    *)
(* increment dispatch has not undone yet.                                  *)
(***************************************************************************)
SlotLedger ==
  DoubleFreed = {} =>
    in_flight = Cardinality({r \in Accepted : freed[r] = {}})
                + (IF loop = "reject" THEN 1 ELSE 0)

(***************************************************************************)
(* The number of jobs executing at once exceeds max_concurrent by no more  *)
(* than the number of slots released twice (and the model has room for     *)
(* the counter to wrap).                                                   *)
(***************************************************************************)
OvercommitBounded ==
  Cardinality(Executing) <= MaxConcurrent + Cardinality(DoubleFreed)

(***************************************************************************)
(* A job_cancel finds the job: when the read loop can receive one, every   *)
(* task that runs unaborted and whose job_id no other frame carried is in  *)
(* the table, whatever tasks of other jobs removed meanwhile.              *)
(***************************************************************************)
CancelFindsJob ==
  loop = "select" =>
    \A r \in Reqs :
      /\ Live(r) /\ abort[r] = "no"
      /\ \A q \in Reqs : JobOf[q] = JobOf[r] => q = r
      => active[JobOf[r]] = r

(***************************************************************************)
(* As long as the coordinator goes on reading, so that no write of the     *)
(* read loop is suspended for ever, every accepted job comes to an end:    *)
(* its whole answer is handed to the socket, or it is cancelled, or the    *)
(* session ends; unless the read loop wedges itself in send_error, after   *)
(* which nothing is ever sent.                                             *)
(***************************************************************************)
PeerReads == []<>(loop # "write")

JobAnswered ==
  PeerReads =>
    \/ <>[]Wedged
    \/ \A r \in Reqs :
         phase[r] = "exec" ~> HandedOver(r) \/ abort[r] # "no" \/ ~open

(***************************************************************************)
(* Driver tasks are not aborted with their session; the deadline, the      *)
(* closed channel and the abort flag still end all of them, whatever the   *)
(* coordinator reads, even those a wedged or suspended read loop blocks.   *)
(***************************************************************************)
TasksDrain ==
  \A r \in Reqs : Live(r) /\ (abort[r] # "no" \/ ~open) ~> ~Live(r)

(***************************************************************************)
(* The executor implements JobProtocol: the chunks delivered and the       *)
(* answer are read off the frames the channel accepted.                    *)
(***************************************************************************)
StatusOf(r) ==
  IF Answered(r)
  THEN IF log[r][Len(log[r])].type = "job_done" THEN "done" ELSE "error"
  ELSE IF phase[r] \in {"new", "rejected"} THEN "new"
  ELSE IF phase[r] \in {"exec", "chunk", "final"} THEN "running"
  ELSE "silent"

Protocol == INSTANCE JobProtocol WITH
  status <- [r \in Reqs |-> StatusOf(r)],
  produced <- emitted,
  got <- [r \in Reqs |-> ChunkCount(log[r])],
  cancelled <- {r \in Reqs : abort[r] # "no"},
  up <- open

(* Every behaviour of the executor is one JobProtocol allows.              *)
ImplementsProtocol == Protocol!Spec

-----------------------------------------------------------------------------
(* Statements of the source's comments.                                    *)

(* job_executor.rs:10 "Concurrency is bounded by limits.max_concurrent":   *)
(* no more jobs execute at once.                                           *)
ConcurrencyBounded == Cardinality(Executing) <= MaxConcurrent

(* job_executor.rs:100 "Never blocks the caller": a dispatch that refuses  *)
(* a job returns to the read loop.                                         *)
DispatchReturns == loop = "send_error" ~> loop = "select"
=============================================================================
