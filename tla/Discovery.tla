----------------------------- MODULE Discovery -----------------------------
(***************************************************************************)
(* One discovery pass and what is made of it: discovery::run walks the     *)
(* configured backends, dedupe_by_priority builds the model list that goes *)
(* to the coordinator, and JobExecutor::new builds the routes that jobs    *)
(* follow.  A pass runs on every connection, and the backends may answer   *)
(* differently each time.                                                  *)
(*                                                                         *)
(* The three loops take one backend per step.                              *)
(***************************************************************************)
EXTENDS Integers, Sequences

CONSTANTS
  Models,      \* model ids
  Unpriced,    \* models whose entry in the pricing table has a zero
  Configs      \* the [[backends]] lists to consider, as validate admits them:
               \* sequences of [kind, allow], allow the models the entry permits

LocalKinds  == {"vllm", "llamacpp", "lmstudio", "ollama"}
RemoteKinds == {"venice", "openrouter"}
Kinds       == LocalKinds \cup RemoteKinds

ASSUME DiscoveryAssumption ==
  /\ Unpriced \subseteq Models
  /\ Configs \subseteq Seq([kind : Kinds, allow : SUBSET Models])

(* kind_priority                                                           *)
Priority(kind) ==
  CASE kind = "vllm"       -> 0
    [] kind = "llamacpp"   -> 1
    [] kind = "lmstudio"   -> 2
    [] kind = "ollama"     -> 3
    [] kind = "venice"     -> 4
    [] OTHER               -> 5

VARIABLES
  config,      \* the backends of agent.toml
  stage,       \* "walk", "dedupe", "route" or "ready"
  pos,         \* the next backend of the loop
  offered,     \* per backend: the resolved models; empty if it was dropped
  advertised,  \* by_id: the backend a model is advertised from, 0 if none
  routes       \* the backend the jobs of a model go to, 0 if none

vars == <<config, stage, pos, offered, advertised, routes>>

Nowhere == [m \in Models |-> 0]

Init ==
  /\ config \in Configs
  /\ stage = "walk" /\ pos = 1
  /\ offered = <<>>
  /\ advertised = Nowhere
  /\ routes = Nowhere

(* The models that list_models returned, filtered and priced.              *)
Resolved(b, listed) == (listed \cap config[b].allow) \ Unpriced

(* One backend is asked.  It answers with a list of models, or it is       *)
(* dropped: no key in the environment, unreachable, or list_models failed. *)
AskBackend ==
  /\ stage = "walk" /\ pos <= Len(config)
  /\ \/ \E listed \in SUBSET Models :
          offered' = Append(offered, Resolved(pos, listed))
     \/ offered' = Append(offered, {})
  /\ pos' = pos + 1
  /\ UNCHANGED <<config, stage, advertised, routes>>

WalkDone ==
  /\ stage = "walk" /\ pos = Len(config) + 1
  /\ stage' = "dedupe" /\ pos' = 1
  /\ UNCHANGED <<config, offered, advertised, routes>>

(* dedupe_by_priority: keep the entry of a model unless the new one has a  *)
(* lower priority number.                                                  *)
(* Mutants: the first backend wins; an equal priority replaces.            *)
KeepsFirst(m, b) == advertised[m] # 0

KeepsStrict(m, b) ==
  /\ advertised[m] # 0
  /\ Priority(config[advertised[m]].kind) < Priority(config[b].kind)

Keeps(m, b) ==
  /\ advertised[m] # 0
  /\ Priority(config[advertised[m]].kind) <= Priority(config[b].kind)

DedupeBackend ==
  /\ stage = "dedupe" /\ pos <= Len(config)
  /\ advertised' =
       [m \in Models |-> IF m \in offered[pos] /\ ~Keeps(m, pos)
                         THEN pos ELSE advertised[m]]
  /\ pos' = pos + 1
  /\ UNCHANGED <<config, stage, offered, routes>>

DedupeDone ==
  /\ stage = "dedupe" /\ pos = Len(config) + 1
  /\ stage' = "route" /\ pos' = 1
  /\ UNCHANGED <<config, offered, advertised, routes>>

(* JobExecutor::new: the first backend that offers a model gets its jobs.  *)
(* Mutant: only local backends are routed.                                 *)
RouteBackendLocal ==
  /\ stage = "route" /\ pos <= Len(config)
  /\ routes' =
       [m \in Models |->
          IF /\ m \in offered[pos] /\ routes[m] = 0
             /\ config[pos].kind \in LocalKinds
          THEN pos ELSE routes[m]]
  /\ pos' = pos + 1
  /\ UNCHANGED <<config, stage, offered, advertised>>

RouteBackend ==
  /\ stage = "route" /\ pos <= Len(config)
  /\ routes' = [m \in Models |-> IF m \in offered[pos] /\ routes[m] = 0
                                 THEN pos ELSE routes[m]]
  /\ pos' = pos + 1
  /\ UNCHANGED <<config, stage, offered, advertised>>

RouteDone ==
  /\ stage = "route" /\ pos = Len(config) + 1
  /\ stage' = "ready"
  /\ UNCHANGED <<config, pos, offered, advertised, routes>>

(* The session ends and the next one discovers afresh.                     *)
(* Mutant: the backends of the last pass are kept.                         *)
ReconnectKeepsBackends ==
  /\ stage = "ready"
  /\ stage' = "walk" /\ pos' = 1
  /\ advertised' = Nowhere /\ routes' = Nowhere
  /\ UNCHANGED <<config, offered>>

Reconnect ==
  /\ stage = "ready"
  /\ stage' = "walk" /\ pos' = 1 /\ offered' = <<>>
  /\ advertised' = Nowhere /\ routes' = Nowhere
  /\ UNCHANGED config

Next ==
  \/ AskBackend \/ WalkDone
  \/ DedupeBackend \/ DedupeDone
  \/ RouteBackend \/ RouteDone
  \/ Reconnect

Spec == Init /\ [][Next]_vars

-----------------------------------------------------------------------------
TypeOK ==
  /\ config \in Configs
  /\ stage \in {"walk", "dedupe", "route", "ready"}
  /\ pos \in 1..(Len(config) + 1)
  /\ offered \in Seq(SUBSET Models)
  /\ Len(offered) = IF stage = "walk" THEN pos - 1 ELSE Len(config)
  /\ advertised \in [Models -> 0..Len(config)]
  /\ routes \in [Models -> 0..Len(config)]

(* The backends that offer m, in the pass just made.                       *)
Offering(m) == {b \in 1..Len(config) : m \in offered[b]}

(***************************************************************************)
(* The list sent to the coordinator is the priority rule, whatever the     *)
(* order of the configuration: a model is advertised exactly if a healthy  *)
(* backend offers it, from one that no other offering backend outranks.    *)
(***************************************************************************)
AdvertisedBest ==
  stage \in {"route", "ready"} =>
    \A m \in Models :
      /\ advertised[m] = 0 <=> Offering(m) = {}
      /\ advertised[m] # 0 =>
           /\ advertised[m] \in Offering(m)
           /\ \A b \in Offering(m) :
                Priority(config[advertised[m]].kind) <= Priority(config[b].kind)

(***************************************************************************)
(* Every model the coordinator is told of can be served, by a backend that *)
(* is allowed to serve it, and nothing else can: a job for an advertised   *)
(* model is never answered model_not_loaded.                               *)
(***************************************************************************)
RoutesServeAdvertised ==
  stage = "ready" =>
    \A m \in Models :
      /\ routes[m] # 0 <=> advertised[m] # 0
      /\ routes[m] # 0 => /\ m \in config[routes[m]].allow \ Unpriced
                          /\ m \in offered[routes[m]]

(* The configuration lists its backends from high to low priority.         *)
InPriorityOrder ==
  \A a, b \in 1..Len(config) :
    a < b => Priority(config[a].kind) <= Priority(config[b].kind)

(***************************************************************************)
(* Jobs go to the backend the model was advertised from, provided the      *)
(* configuration lists its backends in priority order.                     *)
(***************************************************************************)
RoutesFollowPriority ==
  stage = "ready" /\ InPriorityOrder => routes = advertised

-----------------------------------------------------------------------------
(* job_executor.rs:52 "Local backends already win priority during          *)
(* discovery, so the first hit per model_id is canonical": no remote       *)
(* backend gets the jobs of a model that a local one offers.               *)
LocalFirst ==
  stage = "ready" =>
    \A m \in Models :
      routes[m] # 0 /\ config[routes[m]].kind \in RemoteKinds =>
        \A b \in Offering(m) : config[b].kind \in RemoteKinds
=============================================================================
