------------------------------- MODULE Config -------------------------------
(***************************************************************************)
(* agent.toml as config.rs reads it: what config::load accepts, and which  *)
(* file it takes.  A config is a record of the parts that validate looks   *)
(* at, of the tables under [pricing.models], a model and its price each,   *)
(* and of whether its strings are written as TOML writes them (`legible`). *)
(* The input and the output price of a model go the same way everywhere    *)
(* and are one price here.                                                 *)
(***************************************************************************)
EXTENDS Integers, Sequences

CONSTANT TomlMax   \* the largest integer of a TOML file, that of an i64

DefaultPrice == 500000

ASSUME ConfigAssumption == TomlMax \in Nat /\ TomlMax >= DefaultPrice

UrlKinds    == {"vllm", "llamacpp", "lmstudio", "ollama"}
KeyEnvKinds == {"openrouter", "venice"}

Missing == "missing"   \* a url or api_key_env that is not given
Invalid == "invalid"   \* a url that does not parse

(* validate, of one [[backends]] entry; `at` is its url or api_key_env.    *)
ValidBackend(b) ==
  \/ b.kind \in UrlKinds /\ b.at \notin {Missing, Invalid}
  \/ b.kind \in KeyEnvKinds /\ b.at # Missing

NoDuplicates(s) == \A i, k \in 1..Len(s) : s[i] = s[k] => i = k

(* toml::from_str: a table may be defined once, and a price, a u64 in the  *)
(* Config, is an integer of the file first.                                *)
Parses(cfg) ==
  /\ cfg.legible
  /\ NoDuplicates([i \in 1..Len(cfg.prices) |-> cfg.prices[i].model])
  /\ \A i \in 1..Len(cfg.prices) : cfg.prices[i].price <= TomlMax

Validate(cfg, allow_insecure) ==
  /\ cfg.scheme = "wss" \/ (cfg.scheme = "ws" /\ allow_insecure)
  /\ \A i \in 1..Len(cfg.backends) : ValidBackend(cfg.backends[i])
  /\ NoDuplicates(cfg.backends)
  /\ cfg.defaults > 0
  /\ cfg.max_concurrent \in 1..256

Loads(cfg, allow_insecure) == Parses(cfg) /\ Validate(cfg, allow_insecure)

(* The price discovery resolves for a model: its table, or the default.    *)
PriceOf(cfg, m) ==
  IF \E i \in 1..Len(cfg.prices) : cfg.prices[i].model = m
  THEN cfg.prices[CHOOSE i \in 1..Len(cfg.prices) : cfg.prices[i].model = m].price
  ELSE cfg.defaults

(* Discovery leaves out a model without a price.                           *)
Dropped(cfg, m) == PriceOf(cfg, m) = 0

(* default_config_path: the account's own configuration directory before   *)
(* the current directory, by what exists.  --config skips the search.      *)
FoundPath(config, ownExists, cwdExists) ==
  IF config # "search" THEN config
  ELSE IF ownExists THEN "own"
  ELSE IF cwdExists THEN "cwd" ELSE "none"
=============================================================================
