------------------------------ MODULE MCRelay ------------------------------
(***************************************************************************)
(* Values for the constants of Relay: bodies of up to three lines, the     *)
(* last with or without a newline; "huge" does not fit in 32 bits (8       *)
(* here).  Frames that lack a field, requests with every mix of `stream`,  *)
(* `stream_options` and `model`, deadlines on both sides of the bounds.    *)
(***************************************************************************)
EXTENDS Relay, TLC

MCFields == {"in1", "prompt2", "huge", "out3", "out4"}
MCKeyOf == "in1" :> "input_tokens" @@ "prompt2" :> "prompt_tokens"
           @@ "huge" :> "input_tokens" @@ "out3" :> "completion_tokens"
           @@ "out4" :> "output_tokens"
MCValueOf == "in1" :> 1 @@ "prompt2" :> 2 @@ "huge" :> 8
             @@ "out3" :> 3 @@ "out4" :> 4

LineTexts ==
  { <<>>,                                          \* between two events
    <<"data:", "[DONE]">>,
    <<"data:", "{", "mb1", "mb2", "}">>,            \* content, no usage
    <<"data:", "{", "in1", "out3", "}">>,
    <<"data:", "{", "huge", "prompt2", "}">>,
    <<"data:", "{", "mb1", "mb2", "out4", "}">>,
    <<"data:", "{", "in1">> }                       \* not JSON

Ended   == {l \o <<"nl">> : l \in LineTexts} \cup {l \o <<"cr", "nl">> : l \in LineTexts}
Lasts   == Ended \cup LineTexts
MCStreams == Lasts \cup {a \o b : a \in Ended, b \in Lasts}
             \cup {a \o b \o c : a, b \in {l \in Ended : Len(l) > 3},
                                 c \in LineTexts}

MCPlain == {<<"{", "in1", "out3", "}">>}

Option(key, values) == {<<>>} \cup {key :> v : v \in values}

Objects ==
  {[object |-> TRUE, fields |-> a @@ b @@ c @@ "messages" :> "text"] :
     a \in Option("stream", {"true", "false"}),
     b \in Option("stream_options", {"usage", "none"}),
     c \in Option("model", {"other"})}

Required == {"job_id", "model_id", "request"}

Frame(type, has, request, deadline) ==
  [type |-> type, has |-> has, model_id |-> "model",
   request |-> request, deadline |-> deadline]

MCFrames ==
  {Frame("job", Required, r, d) : r \in Objects \cup {NoBody},
                                  d \in {NoNumber, 0, 3, 7, 8, 9, 14}}
  \cup {Frame(t, Required \ lacks, NoBody, 3) :
          t \in {"job", "job_cancel", "config_update", ""},
          lacks \in {{}} \cup {{f} : f \in Required}}
=============================================================================
