------------------------------- MODULE Setup -------------------------------
(***************************************************************************)
(* `usepod-agent setup` (setup.rs): probe the local backends, ask the      *)
(* coordinator for a pairing code, poll until the operator activates it in *)
(* the dashboard, and write agent.toml.  The command may be run again and  *)
(* again; it may be killed, and every request it makes may fail.           *)
(*                                                                         *)
(* The identity it loads first is that of Identity.tla.  The coordinator's *)
(* side of the pairing is external; of the codes it ever issued only the   *)
(* one a command polls has any effect.                                     *)
(***************************************************************************)
EXTENDS Config

CONSTANTS
  Coordinators,  \* schemes of the --coordinator url: "https", "http", or
                 \* "HTTPS", which the requests take for the first
  Answering,     \* the engines that may answer the probes, in probing order
  Models,
  Activations    \* what the dashboard may deliver with an activation:
                 \* [models, parses, legible], its model_config a sequence of
                 \* [model, price, max_concurrent], price 0 if it names none;
                 \* parses if every entry is an ActivatedModel; legible if
                 \* TOML reads all the texts setup copies into the file

Probes == <<[kind |-> "vllm", at |-> "localhost:8000"],
            [kind |-> "llamacpp", at |-> "localhost:8080"],
            [kind |-> "lmstudio", at |-> "localhost:1234"],
            [kind |-> "ollama", at |-> "localhost:11434"]>>

ASSUME SetupAssumption ==
  /\ Coordinators \subseteq {"https", "http", "HTTPS"}
  /\ \A up \in Answering :
       /\ Len(up) \in Nat /\ up \in [1..Len(up) -> 1..Len(Probes)]
       /\ \A i, k \in 1..Len(up) : i < k => up[i] < up[k]
  /\ \A d \in Activations :
       /\ d = [models |-> d.models, parses |-> d.parses, legible |-> d.legible]
       /\ d.parses \in BOOLEAN /\ d.legible \in BOOLEAN
       /\ Len(d.models) \in Nat /\ DOMAIN d.models = 1..Len(d.models)
       /\ \A i \in 1..Len(d.models) :
            /\ d.models[i].model \in Models
            /\ d.models[i].price \in Nat /\ d.models[i].max_concurrent \in Nat

VARIABLES
  toml,      \* agent.toml: [state, cfg, setup, args, sent], setup if it is of
             \* a setup, args and sent what that one was given and delivered
  pc,        \* where the command is; "down" if it is not running
  args,      \* the scheme of args.coordinator
  backends,  \* what probe_local_backends found
  active,    \* the ActivePairing: its activated_models, and whether its texts
             \* are legible
  pairing    \* the coordinator: of the code the command was issued, its
             \* status and what it delivers

vars == <<toml, pc, args, backends, active, pairing>>

-----------------------------------------------------------------------------
(* The rendered configuration.                                             *)

(* Mutant: https stays https.                                              *)
HttpToWsPlain(scheme) == IF scheme = "http" THEN "ws" ELSE scheme

(* http_to_ws: the prefixes are those of lower case.                       *)
HttpToWs(scheme) == [https |-> "wss", http |-> "ws", HTTPS |-> "https"][scheme]

(* render_paired_config.  No backend gets a list of models, so that the    *)
(* agent serves whatever its backends list.                                *)
(* Mutant: a model without a price is left to the defaults.                *)
RenderedDefault(scheme, found, paired) ==
  LET models == paired.models
  IN  [scheme         |-> HttpToWs(scheme),
       backends       |-> found,
       legible        |-> paired.legible,
       defaults       |-> DefaultPrice,
       prices         |-> SelectSeq([i \in 1..Len(models) |->
                             [model |-> models[i].model, price |-> models[i].price]],
                                    LAMBDA p : p.price > 0),
       max_concurrent |-> IF models = <<>> THEN 4 ELSE models[1].max_concurrent]

Rendered(scheme, found, paired) ==
  LET models == paired.models
  IN  [scheme         |-> HttpToWs(scheme),
       backends       |-> found,
       legible        |-> paired.legible,
       defaults       |-> DefaultPrice,
       prices         |-> [i \in 1..Len(models) |->
                             [model |-> models[i].model, price |-> models[i].price]],
       max_concurrent |-> IF models = <<>> THEN 4 ELSE models[1].max_concurrent]

(* The models setup has of a delivery: none at all if one entry of its     *)
(* model_config is not an ActivatedModel.                                  *)
ActivatedModels(sent) == IF sent.parses THEN sent.models ELSE <<>>

-----------------------------------------------------------------------------
Nothing   == [models |-> <<>>, parses |-> TRUE, legible |-> TRUE]
Unpaired  == [status |-> "none", sent |-> Nothing]
NoPairing == [models |-> <<>>, legible |-> TRUE]

(* A configuration the operator wrote, good enough to run.                 *)
HandWritten == Rendered("https", <<Probes[4]>>, NoPairing)

Absent == [state |-> "absent", cfg |-> HandWritten, setup |-> FALSE,
           args |-> "https", sent |-> Nothing]
Torn   == [Absent EXCEPT !.state = "torn"]
Whole  == [Absent EXCEPT !.state = "whole"]

Init ==
  /\ toml \in {Absent, Whole}
  /\ pc = "down" /\ args = "https" /\ backends = <<>>
  /\ active = NoPairing /\ pairing = Unpaired

(* The process is gone, and its variables with it; nobody polls its code.  *)
Gone == /\ pc' = "down" /\ args' = "https" /\ backends' = <<>>
        /\ active' = NoPairing /\ pairing' = Unpaired

Exit == Gone /\ UNCHANGED toml

Start ==
  /\ pc = "down" /\ pc' = "probe"
  /\ args' \in Coordinators
  /\ UNCHANGED <<toml, backends, active, pairing>>

(* probe_local_backends: those of the four that answer with a model.       *)
Probe ==
  /\ pc = "probe" /\ pc' = "issue"
  /\ \E up \in Answering :
       backends' = [i \in 1..Len(up) |-> Probes[up[i]]]
  /\ UNCHANGED <<toml, args, active, pairing>>

(* issue_pair_code: the coordinator makes a code.  If its answer is lost   *)
(* the command ends (Ends), and nobody will poll that code.                *)
Issue ==
  /\ pc = "issue" /\ pc' = "poll"
  /\ pairing' = [Unpaired EXCEPT !.status = "pending"]
  /\ UNCHANGED <<toml, args, backends, active>>

PollPending ==
  /\ pc = "poll" /\ pairing.status = "pending"
  /\ pc' = "sleep"
  /\ UNCHANGED <<toml, args, backends, active, pairing>>

Wake ==
  /\ pc = "sleep" /\ pc' = "poll"
  /\ UNCHANGED <<toml, args, backends, active, pairing>>

(* Mutants: an expired code is polled again; it is taken for an activation *)
(* without models.                                                         *)
PollExpiredAgain ==
  /\ pc = "poll" /\ pairing.status = "expired"
  /\ pc' = "sleep"
  /\ UNCHANGED <<toml, args, backends, active, pairing>>

PollExpiredWrites ==
  /\ pc = "poll" /\ pairing.status = "expired"
  /\ pc' = "write"
  /\ UNCHANGED <<toml, args, backends, active, pairing>>

PollExpired ==
  /\ pc = "poll" /\ pairing.status = "expired"
  /\ Exit

PollActive ==
  /\ pc = "poll" /\ pairing.status = "active"
  /\ active' = [models  |-> ActivatedModels(pairing.sent),
                legible |-> pairing.sent.legible]
  /\ pc' = "write"
  /\ UNCHANGED <<toml, args, backends, pairing>>

(* std::fs::write: truncate, then write.                                   *)
OpenConfig ==
  /\ pc = "write" /\ pc' = "writing"
  /\ toml' = Torn
  /\ UNCHANGED <<args, backends, active, pairing>>

Written ==
  /\ pc = "writing" /\ Gone
  /\ toml' = [state |-> "whole", cfg |-> Rendered(args, backends, active),
              setup |-> TRUE, args |-> args, sent |-> pairing.sent]

(* A request fails, its status is an error, or the answer makes no sense,  *)
(* be it the first poll or the hundredth; a write fails; the command is    *)
(* killed.                                                                 *)
Ends == pc # "down" /\ Exit

(* The coordinator: the operator activates a code in the dashboard, or the *)
(* ten minutes of the code are over.                                       *)
Activate ==
  /\ pairing.status = "pending"
  /\ \E sent \in Activations : pairing' = [status |-> "active", sent |-> sent]
  /\ UNCHANGED <<toml, pc, args, backends, active>>

Expire ==
  /\ pairing.status = "pending"
  /\ pairing' = [pairing EXCEPT !.status = "expired"]
  /\ UNCHANGED <<toml, pc, args, backends, active>>

Next ==
  \/ Start \/ Probe \/ Issue
  \/ PollPending \/ Wake \/ PollExpired \/ PollActive
  \/ OpenConfig \/ Written \/ Ends
  \/ Activate \/ Expire

Spec == Init /\ [][Next]_vars

(* Fairness: the command goes on, each request it makes within its timeout,*)
(* and a code expires in the end.                                          *)
Fairness ==
  /\ WF_vars(PollPending \/ PollExpired \/ PollActive \/ Wake \/ OpenConfig \/ Written)
  /\ WF_vars(Expire)

FairSpec == Spec /\ Fairness

-----------------------------------------------------------------------------
(* Type correctness; a command that polls has a code, and one that writes  *)
(* has one that was activated.                                             *)
TypeOK ==
  /\ toml.state \in {"absent", "torn", "whole"} /\ toml.setup \in BOOLEAN
  /\ pc \in {"down", "probe", "issue", "poll", "sleep", "write", "writing"}
  /\ args \in {"https", "http", "HTTPS"}
  /\ pairing.status \in {"none", "pending", "active", "expired"}
  /\ pc \in {"poll", "sleep"} => pairing.status # "none"
  /\ pc \in {"write", "writing"} => pairing.status = "active"

(***************************************************************************)
(* agent.toml is touched only for a pairing the operator activated: an     *)
(* expired code, a lost answer or a killed command leaves the file of an   *)
(* earlier setup, or of the operator's own hand, as it is.                 *)
(***************************************************************************)
TouchedOnlyWhenPaired ==
  [][toml' # toml => pairing.status = "active"]_vars

(***************************************************************************)
(* The file setup leaves is of one activated pairing: its tables are the   *)
(* prices of that one, or none if its model_config did not parse.  And it  *)
(* loads unless one of these is so: the coordinator was not given as       *)
(* https, in lower case; a text it copied is not legible, a model was      *)
(* activated twice, a price is beyond TOML's integers (none of these stops *)
(* setup, which says it is paired); or the first model's limit is not one  *)
(* that validate admits.                                                   *)
(***************************************************************************)
PairedConfigLoads ==
  toml.state = "whole" /\ toml.setup =>
    LET models == ActivatedModels(toml.sent)
        prices == toml.cfg.prices
    IN  /\ Len(prices) = Len(models)
        /\ \A i \in 1..Len(prices) : /\ prices[i].model = models[i].model
                                     /\ prices[i].price = models[i].price
        /\ Loads(toml.cfg, FALSE) <=>
             /\ toml.args = "https"
             /\ toml.sent.legible
             /\ \A i, k \in 1..Len(models) : models[i].model = models[k].model => i = k
             /\ \A i \in 1..Len(models) : models[i].price <= TomlMax
             /\ models # <<>> => models[1].max_concurrent \in 1..256

(***************************************************************************)
(* The price of a model in a file that loads, if a backend lists it: the   *)
(* one the operator activated it with, were it none, and discovery leaves  *)
(* the model out exactly if it is none.  Every model the operator did not  *)
(* activate is advertised too, at the default price (no allow-list is      *)
(* written), and so is every one he did if the model_config did not parse. *)
(***************************************************************************)
PricesAreTheOperators ==
  toml.state = "whole" /\ toml.setup /\ Loads(toml.cfg, TRUE) =>
    \A m \in Models :
      LET models == ActivatedModels(toml.sent)
          his    == {models[i].price : i \in {k \in 1..Len(models) : models[k].model = m}}
      IN  /\ his = {} => PriceOf(toml.cfg, m) = DefaultPrice
          /\ his # {} => his = {PriceOf(toml.cfg, m)}
          /\ Dropped(toml.cfg, m) <=> 0 \in his

(***************************************************************************)
(* Setup does not wait for ever: a code that nobody activates expires, and *)
(* the command ends.                                                       *)
(***************************************************************************)
SetupEnds == pc \in {"poll", "sleep"} ~> pc = "down"
=============================================================================
