------------------------------ MODULE Serving -------------------------------
(***************************************************************************)
(* A discovery pass request by request: the walk of discovery::run over    *)
(* the backends, with each request an adapter makes of its engine.  Any of *)
(* them may fail.  It refines the walk of Discovery, one step per backend; *)
(* deduplication and routing are Discovery's own.                          *)
(*                                                                         *)
(* One answer stands for all models of a backend: they have one window.    *)
(***************************************************************************)
EXTENDS Discovery, Adapters

CONSTANTS
  Listings,   \* sets of models a backend may list
  Machines    \* engines that may answer

ASSUME ServingAssumption ==
  /\ Listings \subseteq SUBSET Models
  /\ Machines \subseteq Engines

VARIABLES
  asking,    \* what the walk asks for next: "build", "health", "list",
             \* "probe", or "resolve" if it has all answers
  listed,    \* what list_models has so far
  engine,    \* the engine that answers
  probed,    \* the second request was answered
  windows,   \* per backend: context_window, NoWindow if it is None
  engines    \* per backend: the engine that was asked

walkVars == <<asking, listed, engine, probed>>
servingVars == <<vars, walkVars, windows, engines>>

AnyEngine == CHOOSE e \in Machines : TRUE

Forgotten == /\ asking' = "build" /\ listed' = {}
             /\ engine' = AnyEngine /\ probed' = FALSE

ServingInit ==
  /\ Init
  /\ asking = "build" /\ listed = {} /\ engine = AnyEngine /\ probed = FALSE
  /\ windows = <<>> /\ engines = <<>>

Kind == config[pos].kind

Walking(what) == stage = "walk" /\ pos <= Len(config) /\ asking = what

(* The backend takes its place in the result, with these models.           *)
Discovered(models, window) ==
  /\ offered' = Append(offered, models)
  /\ windows' = Append(windows, window)
  /\ engines' = Append(engines, engine)
  /\ pos' = pos + 1
  /\ Forgotten
  /\ UNCHANGED <<config, stage, advertised, routes>>

(* `continue`: the backend is left out.                                    *)
Dropped == Discovered({}, NoWindow)

Asks(what) ==
  /\ asking' = what
  /\ UNCHANGED <<vars, listed, engine, probed, windows, engines>>

(* build_backend: the key of a remote backend may be missing.              *)
BuildBackend ==
  /\ Walking("build")
  /\ Asks("health") \/ (Kind \in RemoteKinds /\ Dropped)

Health == Walking("health") /\ (Asks("list") \/ Dropped)

(* list_models; the adapters of Probing go on to ask for the windows.      *)
ListModels ==
  /\ Walking("list")
  /\ \/ /\ listed' \in Listings /\ engine' \in Machines
        /\ asking' = IF Kind \in Probing /\ listed' # {} THEN "probe" ELSE "resolve"
        /\ UNCHANGED <<vars, probed, windows, engines>>
     \/ Dropped

(* Best effort: a failure leaves the windows unset.                        *)
ProbeWindow ==
  /\ Walking("probe")
  /\ probed' \in BOOLEAN /\ asking' = "resolve"
  /\ UNCHANGED <<vars, listed, engine, windows, engines>>

(* Mutant: the allow-list of the entry is not applied.                     *)
ResolveAll ==
  /\ Walking("resolve")
  /\ Discovered(listed \ Unpriced, WindowOf(Kind, engine, probed))

Resolve ==
  /\ Walking("resolve")
  /\ Discovered(Resolved(pos, listed), WindowOf(Kind, engine, probed))

Loops ==
  /\ WalkDone \/ DedupeBackend \/ DedupeDone \/ RouteBackend \/ RouteDone
  /\ UNCHANGED <<walkVars, windows, engines>>

Reconnected ==
  /\ Reconnect
  /\ windows' = <<>> /\ engines' = <<>>
  /\ UNCHANGED walkVars

ServingNext ==
  \/ BuildBackend \/ Health \/ ListModels \/ ProbeWindow \/ Resolve
  \/ Loops \/ Reconnected

ServingSpec == ServingInit /\ [][ServingNext]_servingVars

-----------------------------------------------------------------------------
(***************************************************************************)
(* Request by request the walk does what Discovery says in one step: a     *)
(* backend contributes the models it listed, allowed and priced, or        *)
(* nothing, whichever of its requests fails.                               *)
(***************************************************************************)
ImplementsDiscovery == Spec

(***************************************************************************)
(* The coordinator clamps requests to the advertised window.  It is never  *)
(* more than what the engine enforces that a job for the model goes to     *)
(* (backends listed in priority order), except for Ollama, which tells the *)
(* trained window only, and models LM Studio has yet to load; a number of  *)
(* more than 32 bits wraps, but downwards.                                 *)
(***************************************************************************)
WindowHonest ==
  stage = "ready" /\ InPriorityOrder =>
    \A m \in Models :
      LET b == advertised[m]
      IN  routes[m] # 0 =>
            \/ config[routes[m]].kind = "ollama"
            \/ config[routes[m]].kind = "lmstudio" /\ engines[routes[m]].loaded = "no"
            \/ windows[b] <= engines[routes[m]].limit
=============================================================================
