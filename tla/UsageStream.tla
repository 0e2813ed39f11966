---------------------------- MODULE UsageStream ----------------------------
(***************************************************************************)
(* The relay of one backend answer: stream_chat_completions takes the body *)
(* chunk by chunk, feeds SseUsageParser, and hands the chunk to the sink.  *)
(* HTTP cuts the body anywhere: inside a line, between a carriage return   *)
(* and its newline, inside a multi-byte character.                         *)
(*                                                                         *)
(* A body is a sequence of symbols.  "data:" is the prefix of an event;    *)
(* "{" and "}" open and close its JSON; a field is one entry of its        *)
(* `usage` object; "mb1" "mb2" are the halves of a multi-byte character,   *)
(* "fffd" is what from_utf8_lossy makes of a half it cannot decode.        *)
(***************************************************************************)
EXTENDS Integers, Sequences

CONSTANTS
  Streams,   \* the bodies to consider: sequences of symbols
  Fields,    \* entries of a usage object
  KeyOf,     \* the key of each entry
  ValueOf,   \* its value
  U32        \* 2^32: a larger count is not taken

Marks   == {"data:", "{", "}", "[DONE]", "nl", "cr", "mb1", "mb2", "fffd"}
Symbols == Marks \cup Fields

InputKeys  == <<"input_tokens", "prompt_tokens", "input">>
OutputKeys == <<"output_tokens", "completion_tokens", "output">>

None == -1

ASSUME UsageAssumption ==
  /\ Fields \cap Marks = {}
  /\ Streams \subseteq Seq(Symbols \ {"fffd"})
  /\ KeyOf \in [Fields -> STRING]
  /\ ValueOf \in [Fields -> Nat]
  /\ U32 \in Nat

VARIABLES
  body,      \* what the backend sends
  pos,       \* how much of it has arrived
  pc,        \* "read", "drain", "send", "ok" or "err"
  pending,   \* SseUsageParser::pending
  usage,     \* SseUsageParser::usage
  relayed    \* what the sink accepted

vars == <<body, pos, pc, pending, usage, relayed>>

-----------------------------------------------------------------------------
(* The parser.                                                             *)

(* from_utf8_lossy, of one chunk: a character whose other half is in       *)
(* another chunk is replaced.                                              *)
Lossy(chunk) ==
  [i \in 1..Len(chunk) |->
     IF \/ chunk[i] = "mb1" /\ (i = Len(chunk) \/ chunk[i + 1] # "mb2")
        \/ chunk[i] = "mb2" /\ (i = 1 \/ chunk[i - 1] # "mb1")
     THEN "fffd" ELSE chunk[i]]

Trimmed(line) ==
  LET keep == {i \in 1..Len(line) : line[i] \notin {"nl", "cr"}}
  IN  SubSeq(line, 1, IF keep = {} THEN 0
                      ELSE CHOOSE i \in keep : \A k \in keep : k <= i)

(* The line is an event whose JSON parses.                                 *)
IsEvent(line) ==
  /\ Len(line) >= 3
  /\ line[1] = "data:" /\ line[2] = "{" /\ line[Len(line)] = "}"
  /\ \A i \in 3..(Len(line) - 1) :
       line[i] \in Fields \cup {"mb1", "mb2", "fffd"}

(* The usage object of an event: an entry counts unless its key recurs.    *)
Entries(line) ==
  {i \in 1..Len(line) :
     /\ line[i] \in Fields
     /\ \A k \in (i + 1)..Len(line) :
          line[k] \in Fields => KeyOf[line[k]] # KeyOf[line[i]]}

(* pick_u32: the first of the keys that holds a number of 32 bits.         *)
Picked(line, keys) ==
  LET fit(k) == {i \in Entries(line) : /\ KeyOf[line[i]] = keys[k]
                                       /\ ValueOf[line[i]] < U32}
      ks     == {k \in 1..Len(keys) : fit(k) # {}}
  IN  IF ks = {} THEN None
      ELSE LET k == CHOOSE k \in ks : \A o \in ks : k <= o
           IN  ValueOf[line[CHOOSE i \in fit(k) : TRUE]]

Updated(old, new) == IF new = None THEN old ELSE new

(* parse_line, of a line that was trimmed.                                 *)
ParseLine(u, line) ==
  IF IsEvent(line)
  THEN [input  |-> Updated(u.input, Picked(line, InputKeys)),
        output |-> Updated(u.output, Picked(line, OutputKeys))]
  ELSE u

NoUsage == [input |-> None, output |-> None]

Newlines(s) == {i \in 1..Len(s) : s[i] = "nl"}

-----------------------------------------------------------------------------
Fresh ==
  /\ pos = 0 /\ pc = "read"
  /\ pending = <<>> /\ usage = NoUsage /\ relayed = <<>>

Init == body \in Streams /\ Fresh

(* A chunk of any length arrives; push appends it.                         *)
Arrive ==
  /\ pc = "read"
  /\ \E n \in (pos + 1)..Len(body) :
       /\ pending' = pending \o Lossy(SubSeq(body, pos + 1, n))
       /\ pos' = n
  /\ pc' = "drain"
  /\ UNCHANGED <<body, usage, relayed>>

(* One round of push's loop: cut off the first line and parse it.          *)
DrainLine ==
  /\ pc = "drain" /\ Newlines(pending) # {}
  /\ LET i == CHOOSE i \in Newlines(pending) : \A k \in Newlines(pending) : i <= k
     IN  /\ usage' = ParseLine(usage, Trimmed(SubSeq(pending, 1, i)))
         /\ pending' = SubSeq(pending, i + 1, Len(pending))
  /\ UNCHANGED <<body, pos, pc, relayed>>

(* Mutant: push may leave its loop early.                                  *)
DrainedOnce ==
  /\ pc = "drain" /\ pc' = "send"
  /\ UNCHANGED <<body, pos, pending, usage, relayed>>

Drained ==
  /\ pc = "drain" /\ Newlines(pending) = {}
  /\ pc' = "send"
  /\ UNCHANGED <<body, pos, pending, usage, relayed>>

(* send_chunk takes the bytes as they came.                                *)
(* Mutant: it is given the decoded text.                                   *)
ForwardText ==
  /\ pc = "send" /\ pc' = "read"
  /\ relayed' = relayed \o Lossy(SubSeq(body, Len(relayed) + 1, pos))
  /\ UNCHANGED <<body, pos, pending, usage>>

Forward ==
  /\ pc = "send" /\ pc' = "read"
  /\ relayed' = relayed \o SubSeq(body, Len(relayed) + 1, pos)
  /\ UNCHANGED <<body, pos, pending, usage>>

(* send_chunk fails, or the connection to the backend does.                *)
Fail ==
  /\ pc \in {"read", "send"} /\ pc' = "err"
  /\ UNCHANGED <<body, pos, pending, usage, relayed>>

(* The body ends: finish parses what is left and returns the usage.        *)
(* Mutant: a last line without newline is not parsed.                      *)
FinishDrops ==
  /\ pc = "read" /\ pos = Len(body)
  /\ pc' = "ok" /\ pending' = <<>>
  /\ UNCHANGED <<body, pos, usage, relayed>>

Finish ==
  /\ pc = "read" /\ pos = Len(body)
  /\ pc' = "ok" /\ pending' = <<>>
  /\ usage' = IF pending = <<>> THEN usage ELSE ParseLine(usage, Trimmed(pending))
  /\ UNCHANGED <<body, pos, relayed>>

Next ==
  Arrive \/ DrainLine \/ Drained \/ Forward \/ Fail \/ Finish

Spec == Init /\ [][Next]_vars

-----------------------------------------------------------------------------
(* Type correctness; push leaves no complete line behind.                  *)
TypeOK ==
  /\ pos \in 0..Len(body)
  /\ pc \in {"read", "drain", "send", "ok", "err"}
  /\ pending \in Seq(Symbols)
  /\ pc \in {"read", "send", "ok"} => Newlines(pending) = {}
  /\ usage.input \in {None} \cup 0..(U32 - 1)
  /\ usage.output \in {None} \cup 0..(U32 - 1)
  /\ relayed \in Seq(Symbols)

(* The lines of a body, as intervals: what is between two newlines.        *)
Lines(s) ==
  {l \in (1..(Len(s) + 1)) \X (0..Len(s)) :
     /\ l[1] <= l[2] + 1
     /\ l[1] = 1 \/ s[l[1] - 1] = "nl"
     /\ l[2] = Len(s) \/ s[l[2] + 1] = "nl"
     /\ \A i \in l[1]..l[2] : s[i] # "nl"}

Text(s, l) == Trimmed(SubSeq(s, l[1], l[2]))

(* The count of the last event that has one.                               *)
LastCount(s, keys) ==
  LET counted == {l \in Lines(s) : /\ IsEvent(Text(s, l))
                                   /\ Picked(Text(s, l), keys) # None}
  IN  IF counted = {} THEN None
      ELSE Picked(Text(s, CHOOSE l \in counted : \A k \in counted : k[1] <= l[1]),
                  keys)

(***************************************************************************)
(* The usage reported with job_done is that of the body the backend sent,  *)
(* however HTTP cut it: for each count, the last event that carries it.    *)
(***************************************************************************)
UsageOfBody ==
  pc = "ok" => usage = [input  |-> LastCount(body, InputKeys),
                        output |-> LastCount(body, OutputKeys)]

(***************************************************************************)
(* The coordinator gets the bytes of the backend unchanged, in order and   *)
(* without a gap, whatever the parser makes of them; all of them if the    *)
(* call succeeds.                                                          *)
(***************************************************************************)
RelayedVerbatim ==
  /\ relayed = SubSeq(body, 1, Len(relayed))
  /\ pc = "ok" => relayed = body
=============================================================================
