------------------------------ MODULE Inbound -------------------------------
(***************************************************************************)
(* From a text frame of the coordinator to the request the engine gets:    *)
(* handle_inbound_text and parse_job, then the head of                     *)
(* stream_chat_completions.                                                *)
(*                                                                         *)
(* A frame is [type, has, model_id, request, deadline]; `has` names the    *)
(* fields that are there with the right type, deadline is NoNumber when    *)
(* as_u64 finds none.  A request is a JSON value, with its fields if it is *)
(* an object.                                                              *)
(***************************************************************************)
EXTENDS Integers

CONSTANTS
  Span,              \* 2^32: `as u32` keeps the low bits
  DefaultDeadline,   \* 60000 ms
  LeastUpstream      \* 5 s

ASSUME InboundAssumption ==
  /\ Span \in Nat \ {0}
  /\ DefaultDeadline \in 0..(Span - 1)
  /\ LeastUpstream \in Nat \ {0}

NoNumber == -1

AtLeast(n, least) == IF n < least THEN least ELSE n

(* handle_inbound_text: a frame that is no job, no cancel, or not well     *)
(* formed is logged, and nothing is answered.                              *)
Routed(frame) ==
  CASE frame.type = "job" /\ {"job_id", "model_id", "request"} \subseteq frame.has
         -> "dispatch"
    [] frame.type = "job_cancel" /\ "job_id" \in frame.has -> "cancel"
    [] OTHER -> "log"

(* parse_job, of a frame it accepts.                                       *)
Parsed(frame) ==
  [model_id    |-> frame.model_id,
   request     |-> frame.request,
   deadline_ms |-> (IF frame.deadline = NoNumber THEN DefaultDeadline
                    ELSE frame.deadline) % Span]

(* The deadline of the driver task, and the timeout of the HTTP request.   *)
(* Mutant: the floor of the request is taken for a ceiling.                *)
UpstreamCapped(job) ==
  IF job.deadline_ms < LeastUpstream THEN job.deadline_ms ELSE LeastUpstream

DriverLimit(job)   == AtLeast(job.deadline_ms, 1)
UpstreamLimit(job) == AtLeast(job.deadline_ms, LeastUpstream)

(* An entry of f is kept, one of g is added only if f has none.            *)
Over(f, g) ==
  [k \in DOMAIN f \cup DOMAIN g |-> IF k \in DOMAIN f THEN f[k] ELSE g[k]]

(* The body of the request: stream is set, the others only if absent.      *)
Forced        == [stream |-> "true"]
Defaults(job) == [stream_options |-> "usage", model |-> job.model_id]

(* Mutant: a `stream` the coordinator sent is kept.                        *)
PreparedAsGiven(job) ==
  IF job.request.object
  THEN [job.request EXCEPT !.fields = Over(Over(@, Forced), Defaults(job))]
  ELSE job.request

Prepared(job) ==
  IF job.request.object
  THEN [job.request EXCEPT !.fields = Over(Forced, Over(@, Defaults(job)))]
  ELSE job.request
=============================================================================
