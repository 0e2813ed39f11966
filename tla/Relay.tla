------------------------------- MODULE Relay --------------------------------
(***************************************************************************)
(* One job from its frame to the end of its stream: the frame is parsed,   *)
(* the request is posted to the engine, and the answer is relayed and read *)
(* for its usage (UsageStream).  Admission, cancel and deadline are        *)
(* JobExecutor's; here the call may end with an error at any time.         *)
(***************************************************************************)
EXTENDS UsageStream, Inbound

CONSTANTS
  Frames,   \* frames the coordinator may send
  Plain     \* answers that are not a stream: one JSON text

ASSUME RelayAssumption ==
  /\ Plain \subseteq Seq(Symbols \ {"fffd"})
  /\ Span = U32
  /\ \A f \in Frames : /\ f.deadline \in Nat \cup {NoNumber}
                        /\ DOMAIN f.request = {"object", "fields"}
                        /\ f.request.object \in BOOLEAN

VARIABLES
  call,      \* "frame", "logged", "routed", "posted", "stream" or "failed"
  frame,     \* the frame
  job,       \* the Job of parse_job
  posted,    \* the body of the request
  metered    \* the coordinator did not opt out of the usage

relayVars == <<vars, call, frame, job, posted, metered>>

NoBody   == [object |-> FALSE, fields |-> <<>>]
NoJob    == [model_id |-> "", request |-> NoBody, deadline_ms |-> 0]
NoFrame  == "no frame"

OptedOut(request) ==
  /\ "stream_options" \in DOMAIN request.fields
  /\ request.fields["stream_options"] # "usage"

RelayInit ==
  /\ frame \in Frames
  /\ call = "frame" /\ job = NoJob /\ posted = NoBody /\ metered = FALSE
  /\ body = <<>> /\ Fresh

Receive ==
  /\ call = "frame"
  /\ IF Routed(frame) = "dispatch"
     THEN call' = "routed" /\ job' = Parsed(frame)
     ELSE call' = "logged" /\ UNCHANGED job
  /\ UNCHANGED <<vars, frame, posted, metered>>

Post ==
  /\ call = "routed" /\ call' = "posted"
  /\ posted' = Prepared(job)
  /\ metered' = ~OptedOut(job.request)
  /\ UNCHANGED <<vars, frame, job>>

(* No connection, no answer in time, or a status that is not a success.    *)
Refused ==
  /\ call = "posted" /\ call' = "failed"
  /\ UNCHANGED <<vars, frame, job, posted, metered>>

(***************************************************************************)
(* The engine takes objects only.  It streams if it is asked to, and the   *)
(* last event of a stream has the usage if that is asked for.              *)
(***************************************************************************)
Answers(request) ==
  IF ~request.object THEN {}
  ELSE IF request.fields["stream"] # "true" THEN Plain
  ELSE {s \in Streams : OptedOut(request) \/ LastCount(s, OutputKeys) # None}

(* Nothing reads the frame and the request any more.                       *)
Respond ==
  /\ call = "posted" /\ call' = "stream"
  /\ body' \in Answers(posted)
  /\ frame' = NoFrame /\ job' = NoJob /\ posted' = NoBody
  /\ UNCHANGED <<pos, pc, pending, usage, relayed, metered>>

Streaming ==
  /\ call = "stream" /\ Next
  /\ UNCHANGED <<call, frame, job, posted, metered>>

RelayNext == Receive \/ Post \/ Refused \/ Respond \/ Streaming

RelaySpec == RelayInit /\ [][RelayNext]_relayVars

-----------------------------------------------------------------------------
(* Type correctness; the parser is at rest unless there is an answer.      *)
RelayTypeOK ==
  /\ TypeOK
  /\ call \in {"frame", "logged", "routed", "posted", "stream", "failed"}
  /\ metered \in BOOLEAN
  /\ call # "stream" => Fresh /\ body = <<>> /\ frame \in Frames
  /\ job.deadline_ms \in 0..(Span - 1)

(***************************************************************************)
(* A job that ends well reports the tokens of its answer, whatever the     *)
(* coordinator put into the request, unless it opted out of the usage: the *)
(* request always asks for a stream with usage, and the parser finds it.   *)
(***************************************************************************)
Metered == pc = "ok" /\ metered => usage.output # None

(***************************************************************************)
(* Between the 64 bits of the frame and the two timers, a deadline is      *)
(* never prolonged, and kept when it fits in 32 bits; the timer of the     *)
(* driver, which answers the coordinator, is never behind the one of the   *)
(* HTTP client.                                                            *)
(***************************************************************************)
DeadlineKept ==
  call \in {"routed", "posted"} =>
    /\ DriverLimit(job) <= UpstreamLimit(job)
    /\ frame.deadline >= 0 => DriverLimit(job) <= AtLeast(frame.deadline, 1)
    /\ frame.deadline \in 0..(Span - 1) =>
         DriverLimit(job) = AtLeast(frame.deadline, 1)
=============================================================================
