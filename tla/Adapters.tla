------------------------------ MODULE Adapters ------------------------------
(***************************************************************************)
(* What the adapters of the engines (backend/*.rs) make of the answers to  *)
(* list_models, down to the context window of a model.  A field of the     *)
(* JSON answer is a number, Null, or Absent.                               *)
(***************************************************************************)
EXTENDS Integers, Sequences

CONSTANT U32   \* 2^32: `as u32` keeps the low bits

ASSUME AdaptersAssumption == U32 \in Nat \ {0}

Null     == -1
Absent   == -2
NoWindow == -1

(* get, or_else(get), ...: the first field that is there, were it Null.    *)
FirstPresent(fields) ==
  LET there == {i \in 1..Len(fields) : fields[i] # Absent}
  IN  IF there = {} THEN Absent
      ELSE fields[CHOOSE i \in there : \A k \in there : i <= k]

(* as_u64, as u32; and with filter(|n| *n > 0) before the cast.            *)
AsU32(n)    == IF n >= 0 THEN n % U32 ELSE NoWindow
Positive(n) == IF n > 0 THEN n % U32 ELSE NoWindow

(* parse_openai_models, of one entry.                                      *)
OpenaiWindow(item) ==
  AsU32(FirstPresent(<<item.context_length, item.max_model_len,
                       item.context_window>>))

(* parse_props_n_ctx, parse_lmstudio_context_lengths and                   *)
(* parse_show_context_length.                                              *)
(* Mutant: the ceiling of the model wins over the window it is loaded with.*)
LmStudioMaxFirst(entry) == Positive(FirstPresent(<<entry.max, entry.loaded>>))

PropsWindow(n_ctx)    == Positive(n_ctx)
LmStudioWindow(entry) == Positive(FirstPresent(<<entry.loaded, entry.max>>))
ShowWindow(length)    == Positive(length)

(* The engines whose adapter asks a second time for the windows that the   *)
(* listing does not tell.                                                  *)
Probing == {"llamacpp", "lmstudio", "ollama"}

(***************************************************************************)
(* The engines.  An engine has the window it enforces (limit), the one its *)
(* model was trained with, and whether it has loaded the model.  vLLM and  *)
(* OpenRouter list what they enforce; llama.cpp tells it at /props,        *)
(* LM Studio for loaded models at /api/v0/models, with the ceiling of the  *)
(* model beside it; Ollama tells the trained window only, Venice none.     *)
(***************************************************************************)
Engines == [limit : Nat, trained : Nat, loaded : {"yes", "no", "null"}]

Listed(kind, e) ==
  [context_length |-> IF kind = "openrouter" THEN e.limit ELSE Absent,
   max_model_len  |-> IF kind = "vllm" THEN e.limit ELSE Absent,
   context_window |-> Absent]

NativeEntry(e) ==
  [loaded |-> [yes |-> e.limit, null |-> Null, no |-> Absent][e.loaded],
   max    |-> e.trained]

(* list_models: the window of a model on this engine; `probed` if the      *)
(* second request was answered.                                            *)
WindowOf(kind, e, probed) ==
  LET window == OpenaiWindow(Listed(kind, e))
  IN  IF window # NoWindow \/ kind \notin Probing \/ ~probed THEN window
      ELSE [llamacpp |-> PropsWindow(e.limit),
            lmstudio |-> LmStudioWindow(NativeEntry(e)),
            ollama   |-> ShowWindow(e.trained)][kind]
=============================================================================
