--------------------------- MODULE ServingProofs ----------------------------
(***************************************************************************)
(* The properties of Discovery for every set of models and every list of   *)
(* configurations: each loop has an invariant over the backends it has     *)
(* passed; at the end of the loop it speaks of all of them.  Then Serving, *)
(* which implements Discovery and inherits its properties, for every       *)
(* engine.                                                                 *)
(***************************************************************************)
EXTENDS Serving, SequenceTheorems, TLAPS

P(b) == Priority(config[b].kind)

(* No backend offers what its entry does not allow, or what has no price.  *)
OffersAllowed ==
  \A b \in 1..Len(offered) : offered[b] \subseteq config[b].allow \ Unpriced

(* dedupe_by_priority has passed the first n backends: each model is held  *)
(* from the first of the backends with the lowest priority number.         *)
DedupedTo(n) ==
  \A m \in Models :
    /\ advertised[m] = 0 => \A b \in 1..n : m \notin offered[b]
    /\ advertised[m] # 0 =>
         /\ advertised[m] \in 1..n
         /\ m \in offered[advertised[m]]
         /\ \A b \in 1..n : m \in offered[b] =>
              /\ P(advertised[m]) <= P(b)
              /\ b < advertised[m] => P(advertised[m]) < P(b)

(* JobExecutor::new has passed the first n backends: each model is routed  *)
(* to the first that offers it.                                            *)
RoutedTo(n) ==
  \A m \in Models :
    /\ routes[m] = 0 => \A b \in 1..n : m \notin offered[b]
    /\ routes[m] # 0 =>
         /\ routes[m] \in 1..n
         /\ m \in offered[routes[m]]
         /\ \A b \in 1..n : m \in offered[b] => routes[m] <= b

Deduped == IF stage = "walk" THEN advertised = Nowhere
           ELSE DedupedTo(IF stage = "dedupe" THEN pos - 1 ELSE Len(config))

Routed == IF stage \in {"walk", "dedupe"} THEN routes = Nowhere
          ELSE RoutedTo(IF stage = "route" THEN pos - 1 ELSE Len(config))

IInv == TypeOK /\ OffersAllowed /\ Deduped /\ Routed

-----------------------------------------------------------------------------
LEMMA PriorityType == \A k : Priority(k) \in Int
  BY DEF Priority

LEMMA ConfigType ==
  ASSUME config \in Configs
  PROVE  /\ config \in Seq([kind : Kinds, allow : SUBSET Models])
         /\ Len(config) \in Nat
  BY DiscoveryAssumption, LenProperties

(* The type invariant alone is inductive.                                  *)
LEMMA InitTyped == Init => TypeOK
<1> SUFFICES ASSUME Init PROVE TypeOK  OBVIOUS
<1> USE DEF Init
<1>1. Len(config) \in Nat  BY ConfigType
<1>2. offered \in Seq(SUBSET Models) /\ Len(offered) = 0  BY EmptySeq
<1>3. advertised \in [Models -> 0..Len(config)]
      /\ routes \in [Models -> 0..Len(config)]
  BY <1>1 DEF Nowhere
<1> QED  BY <1>1, <1>2, <1>3 DEF TypeOK

LEMMA NextTyped == TypeOK /\ [Next]_vars => TypeOK'
<1> SUFFICES ASSUME TypeOK, [Next]_vars PROVE TypeOK'  OBVIOUS
<1>1. Len(config) \in Nat  BY ConfigType DEF TypeOK
<1>2. CASE AskBackend
  <2>1. PICK s \in SUBSET Models : offered' = Append(offered, s)
    <3>1. \A models \in SUBSET Models : Resolved(pos, models) \in SUBSET Models
      BY DEF Resolved
    <3> QED  BY <1>2, <3>1 DEF AskBackend
  <2>2. offered \in Seq(SUBSET Models)  BY DEF TypeOK
  <2>3. Append(offered, s) \in Seq(SUBSET Models)
        /\ Len(Append(offered, s)) = Len(offered) + 1
    BY <2>2, AppendProperties
  <2> QED  BY <1>1, <1>2, <2>1, <2>3 DEF TypeOK, AskBackend
<1>3. CASE WalkDone  BY <1>1, <1>3 DEF TypeOK, WalkDone
<1>4. CASE DedupeBackend
  BY <1>1, <1>4 DEF TypeOK, DedupeBackend
<1>5. CASE DedupeDone  BY <1>1, <1>5 DEF TypeOK, DedupeDone
<1>6. CASE RouteBackend
  BY <1>1, <1>6 DEF TypeOK, RouteBackend
<1>7. CASE RouteDone  BY <1>1, <1>7 DEF TypeOK, RouteDone
<1>8. CASE Reconnect
  <2>1. offered' \in Seq(SUBSET Models) /\ Len(offered') = 0
    BY <1>8, EmptySeq DEF Reconnect
  <2>2. Nowhere \in [Models -> 0..Len(config)]  BY <1>1 DEF Nowhere
  <2> QED  BY <1>1, <1>8, <2>1, <2>2 DEF TypeOK, Reconnect
<1>9. CASE UNCHANGED vars  BY <1>9 DEF vars, TypeOK
<1> QED  BY <1>2, <1>3, <1>4, <1>5, <1>6, <1>7, <1>8, <1>9 DEF Next

(***************************************************************************)
(* Every reachable state is well typed: the loops stay within the backends *)
(* of the configuration, for every configuration.                          *)
(***************************************************************************)
THEOREM DiscoveryTypeCorrect == Spec => []TypeOK
  BY InitTyped, NextTyped, PTL DEF Spec

-----------------------------------------------------------------------------
LEMMA InitInv == Init => IInv
<1> SUFFICES ASSUME Init PROVE IInv  OBVIOUS
<1>1. TypeOK  BY InitTyped
<1>2. OffersAllowed  BY EmptySeq DEF Init, OffersAllowed
<1>3. Deduped /\ Routed  BY DEF Init, Deduped, Routed
<1> QED  BY <1>1, <1>2, <1>3 DEF IInv

(* A step of the walk appends to offered; nothing else speaks of it yet.   *)
LEMMA AskKeeps == IInv /\ TypeOK' /\ AskBackend => IInv'
<1> SUFFICES ASSUME IInv, TypeOK', AskBackend PROVE IInv'  OBVIOUS
<1>1. OffersAllowed'
  <2>1. offered \in Seq(SUBSET Models) /\ Len(offered) = pos - 1 /\ pos \in Int
    BY DEF IInv, TypeOK, AskBackend
  <2>2. PICK s \in SUBSET Models :
          /\ offered' = Append(offered, s)
          /\ s \subseteq config[pos].allow \ Unpriced
    <3>1. \A models \in SUBSET Models :
            /\ Resolved(pos, models) \in SUBSET Models
            /\ Resolved(pos, models) \subseteq config[pos].allow \ Unpriced
      BY DEF Resolved
    <3> QED  BY <3>1 DEF AskBackend
  <2>3. /\ Len(offered') = pos
        /\ \A b \in 1..(pos - 1) : offered'[b] = offered[b]
        /\ offered'[pos] = s
    BY <2>1, <2>2, AppendProperties
  <2>4. config' = config  BY DEF AskBackend
  <2> QED  BY <2>1, <2>2, <2>3, <2>4 DEF OffersAllowed, IInv
<1>2. Deduped' /\ Routed'  BY DEF IInv, Deduped, Routed, AskBackend, Nowhere
<1> QED  BY <1>1, <1>2 DEF IInv

LEMMA DedupeKeeps == IInv /\ TypeOK' /\ DedupeBackend => IInv'
<1> SUFFICES ASSUME IInv, TypeOK', DedupeBackend PROVE IInv'  OBVIOUS
<1> USE DEF DedupeBackend
<1>1. OffersAllowed'  BY DEF IInv, OffersAllowed
<1>2. Routed'  BY DEF IInv, Routed, Nowhere
<1>3. Deduped'
  <2>1. pos \in Nat \ {0} /\ pos' = pos + 1 /\ stage' = "dedupe"
    BY DEF IInv, TypeOK
  <2>2. DedupedTo(pos - 1)  BY DEF IInv, Deduped
  <2>3. \A b : P(b) \in Int  BY PriorityType DEF P
  <2>4. \A b : P(b)' = P(b)  BY DEF P
  <2>5. SUFFICES ASSUME NEW m \in Models
                 PROVE
          /\ advertised'[m] = 0 => \A b \in 1..pos : m \notin offered[b]
          /\ advertised'[m] # 0 =>
               /\ advertised'[m] \in 1..pos
               /\ m \in offered[advertised'[m]]
               /\ \A b \in 1..pos : m \in offered[b] =>
                    /\ P(advertised'[m]) <= P(b)
                    /\ b < advertised'[m] => P(advertised'[m]) < P(b)
    <3>1. offered' = offered /\ pos' - 1 = pos  BY <2>1
    <3> QED  BY <2>1, <2>4, <3>1 DEF Deduped, DedupedTo, P
  <2>6. advertised[m] \in Int  BY DEF IInv, TypeOK
  <2>7. CASE m \in offered[pos] /\ ~Keeps(m, pos)
    <3>1. advertised'[m] = pos  BY <2>7
    <3>2. \A b \in 1..(pos - 1) : m \in offered[b] => P(pos) < P(b)
      BY <2>1, <2>2, <2>3, <2>6, <2>7 DEF DedupedTo, Keeps, P
    <3> QED  BY <2>1, <2>3, <2>7, <3>1, <3>2
  <2>8. CASE ~(m \in offered[pos] /\ ~Keeps(m, pos))
    <3>1. advertised'[m] = advertised[m]  BY <2>8
    <3>2. m \in offered[pos] =>
            advertised[m] # 0 /\ P(advertised[m]) <= P(pos)
      BY <2>8 DEF Keeps, P
    <3> QED  BY <2>1, <2>2, <2>3, <2>6, <3>1, <3>2 DEF DedupedTo
  <2> QED  BY <2>7, <2>8
<1> QED  BY <1>1, <1>2, <1>3 DEF IInv

LEMMA RouteKeeps == IInv /\ TypeOK' /\ RouteBackend => IInv'
<1> SUFFICES ASSUME IInv, TypeOK', RouteBackend PROVE IInv'  OBVIOUS
<1> USE DEF RouteBackend
<1>1. OffersAllowed'  BY DEF IInv, OffersAllowed
<1>2. Deduped'  BY DEF IInv, Deduped, DedupedTo, P
<1>3. Routed'
  <2>1. pos \in Nat \ {0} /\ pos' = pos + 1 /\ stage' = "route"
    BY DEF IInv, TypeOK
  <2>2. RoutedTo(pos - 1)  BY DEF IInv, Routed
  <2>3. \A m \in Models : routes[m] \in Int  BY DEF IInv, TypeOK
  <2>4. ASSUME NEW m \in Models
        PROVE  /\ routes'[m] = 0 => \A b \in 1..pos : m \notin offered[b]
               /\ routes'[m] # 0 =>
                    /\ routes'[m] \in 1..pos
                    /\ m \in offered[routes'[m]]
                    /\ \A b \in 1..pos : m \in offered[b] => routes'[m] <= b
    BY <2>1, <2>2, <2>3 DEF RoutedTo
  <2>5. offered' = offered /\ pos' - 1 = pos  BY <2>1
  <2> QED  BY <2>1, <2>4, <2>5 DEF Routed, RoutedTo
<1> QED  BY <1>1, <1>2, <1>3 DEF IInv

LEMMA NextInv == IInv /\ [Next]_vars => IInv'
<1> SUFFICES ASSUME IInv, [Next]_vars PROVE IInv'  OBVIOUS
<1>1. TypeOK'  BY NextTyped DEF IInv
<1>2. pos \in Int /\ Len(config) \in Nat
  BY ConfigType DEF IInv, TypeOK
<1>3. CASE AskBackend  BY <1>1, <1>3, AskKeeps
<1>4. CASE WalkDone
  <2>1. OffersAllowed'  BY <1>4 DEF IInv, OffersAllowed, WalkDone
  <2>2. Deduped' /\ Routed'
    BY <1>4 DEF IInv, Deduped, Routed, DedupedTo, WalkDone, Nowhere
  <2> QED  BY <1>1, <2>1, <2>2 DEF IInv
<1>5. CASE DedupeBackend  BY <1>1, <1>5, DedupeKeeps
<1>6. CASE DedupeDone
  <2>1. OffersAllowed'  BY <1>6 DEF IInv, OffersAllowed, DedupeDone
  <2>2. pos - 1 = Len(config)  BY <1>2, <1>6 DEF DedupeDone
  <2>3. Deduped'
    BY <1>6, <2>2 DEF IInv, Deduped, DedupedTo, P, DedupeDone
  <2>4. Routed'  BY <1>6 DEF IInv, Routed, RoutedTo, DedupeDone, Nowhere
  <2> QED  BY <1>1, <2>1, <2>3, <2>4 DEF IInv
<1>7. CASE RouteBackend  BY <1>1, <1>7, RouteKeeps
<1>8. CASE RouteDone
  <2>1. OffersAllowed'  BY <1>8 DEF IInv, OffersAllowed, RouteDone
  <2>2. pos - 1 = Len(config)  BY <1>2, <1>8 DEF RouteDone
  <2>3. Deduped'  BY <1>8 DEF IInv, Deduped, DedupedTo, P, RouteDone
  <2>4. Routed'  BY <1>8, <2>2 DEF IInv, Routed, RoutedTo, RouteDone
  <2> QED  BY <1>1, <2>1, <2>3, <2>4 DEF IInv
<1>9. CASE Reconnect
  <2>1. OffersAllowed'  BY <1>9, EmptySeq DEF OffersAllowed, Reconnect
  <2>2. Deduped' /\ Routed'  BY <1>9 DEF Deduped, Routed, Reconnect, Nowhere
  <2> QED  BY <1>1, <2>1, <2>2 DEF IInv
<1>10. CASE UNCHANGED vars
  <2>1. OffersAllowed'  BY <1>10 DEF IInv, OffersAllowed, vars
  <2>2. Deduped'
    BY <1>10 DEF IInv, Deduped, DedupedTo, P, vars, Nowhere
  <2>3. Routed'  BY <1>10 DEF IInv, Routed, RoutedTo, vars, Nowhere
  <2> QED  BY <1>1, <2>1, <2>2, <2>3 DEF IInv
<1> QED  BY <1>3, <1>4, <1>5, <1>6, <1>7, <1>8, <1>9, <1>10 DEF Next

(* At the end of its loop each invariant speaks of every backend.          *)
LEMMA InvImplies ==
  IInv => AdvertisedBest /\ RoutesServeAdvertised /\ RoutesFollowPriority
<1> SUFFICES ASSUME IInv
             PROVE  AdvertisedBest /\ RoutesServeAdvertised /\ RoutesFollowPriority
  OBVIOUS
<1>1. /\ Len(config) \in Nat
      /\ stage # "walk" => Len(offered) = Len(config)
      /\ advertised \in [Models -> 0..Len(config)]
      /\ routes \in [Models -> 0..Len(config)]
  BY ConfigType DEF IInv, TypeOK
<1>2. stage \in {"route", "ready"} => DedupedTo(Len(config))
  BY DEF IInv, Deduped
<1>3. stage = "ready" => RoutedTo(Len(config))  BY DEF IInv, Routed
<1>4. AdvertisedBest
  BY <1>1, <1>2 DEF AdvertisedBest, DedupedTo, Offering, P
<1>5. RoutesServeAdvertised
  <2> SUFFICES ASSUME stage = "ready", NEW m \in Models
               PROVE  /\ routes[m] # 0 <=> advertised[m] # 0
                      /\ routes[m] # 0 =>
                           /\ m \in config[routes[m]].allow \ Unpriced
                           /\ m \in offered[routes[m]]
    BY DEF RoutesServeAdvertised
  <2>1. routes[m] # 0 <=> advertised[m] # 0
    BY <1>2, <1>3 DEF DedupedTo, RoutedTo
  <2>2. routes[m] # 0 => routes[m] \in 1..Len(offered) /\ m \in offered[routes[m]]
    BY <1>1, <1>3 DEF RoutedTo
  <2> QED  BY <2>1, <2>2 DEF IInv, OffersAllowed
<1>6. RoutesFollowPriority
  <2> SUFFICES ASSUME stage = "ready", InPriorityOrder, NEW m \in Models
               PROVE  routes[m] = advertised[m]
    BY <1>1 DEF RoutesFollowPriority
  <2>1. \A b : P(b) \in Int  BY PriorityType DEF P
  <2>2. \A a, b \in 1..Len(config) : a < b => P(a) <= P(b)
    BY DEF InPriorityOrder, P
  <2>3. routes[m] = 0 <=> advertised[m] = 0
    BY <1>2, <1>3 DEF DedupedTo, RoutedTo
  <2>4. CASE routes[m] # 0
    <3>1. /\ advertised[m] \in 1..Len(config) /\ routes[m] \in 1..Len(config)
          /\ m \in offered[advertised[m]] /\ m \in offered[routes[m]]
          /\ routes[m] <= advertised[m]
          /\ routes[m] < advertised[m] => P(advertised[m]) < P(routes[m])
      BY <1>2, <1>3, <2>3, <2>4 DEF DedupedTo, RoutedTo
    <3> QED  BY <2>1, <2>2, <3>1, <1>1
  <2> QED  BY <2>3, <2>4
<1> QED  BY <1>4, <1>5, <1>6

(***************************************************************************)
(* For every configuration and all answers: the advertised list is the     *)
(* priority rule.                                                          *)
(***************************************************************************)
THEOREM AdvertisedByPriority == Spec => []AdvertisedBest
  BY InitInv, NextInv, InvImplies, PTL DEF Spec

(* Every advertised model and no other has a route, to a backend that      *)
(* offers it.                                                              *)
THEOREM AdvertisedIsServed == Spec => []RoutesServeAdvertised
  BY InitInv, NextInv, InvImplies, PTL DEF Spec

(* A configuration in priority order sends every job to the backend its    *)
(* model is advertised from.                                               *)
THEOREM PriorityOrderIsFollowed == Spec => []RoutesFollowPriority
  BY InitInv, NextInv, InvImplies, PTL DEF Spec

-----------------------------------------------------------------------------
(* Serving.                                                                *)

(* What the walk holds of the current backend is a set of models.          *)
ListedTyped == listed \in SUBSET Models

LEMMA ListedInit == ServingInit => ListedTyped
  BY DEF ServingInit, ListedTyped

LEMMA ListedStep == ListedTyped /\ [ServingNext]_servingVars => ListedTyped'
<1> SUFFICES ASSUME ListedTyped, [ServingNext]_servingVars PROVE ListedTyped'
  OBVIOUS
<1> USE DEF ListedTyped, Forgotten, Discovered, Dropped, Asks
<1>1. CASE BuildBackend  BY <1>1 DEF BuildBackend
<1>2. CASE Health        BY <1>2 DEF Health
<1>3. CASE ListModels    BY <1>3, ServingAssumption DEF ListModels
<1>4. CASE ProbeWindow   BY <1>4 DEF ProbeWindow
<1>5. CASE Resolve       BY <1>5 DEF Resolve
<1>6. CASE Loops         BY <1>6 DEF Loops, walkVars
<1>7. CASE Reconnected   BY <1>7 DEF Reconnected, walkVars
<1>8. CASE UNCHANGED servingVars  BY <1>8 DEF servingVars, walkVars
<1> QED
  BY <1>1, <1>2, <1>3, <1>4, <1>5, <1>6, <1>7, <1>8 DEF ServingNext

(* A backend that is dropped, and one that is resolved, is a step of the   *)
(* walk of Discovery; a request in between is a stutter.                   *)
LEMMA DroppedAsks ==
  ASSUME stage = "walk", pos <= Len(config), Dropped
  PROVE  AskBackend
  BY DEF Dropped, Discovered, AskBackend

LEMMA ResolveAsks == ListedTyped /\ Resolve => AskBackend
  BY DEF ListedTyped, Resolve, Walking, Discovered, AskBackend

LEMMA StepRefines == ListedTyped /\ [ServingNext]_servingVars => [Next]_vars
<1> SUFFICES ASSUME ListedTyped, [ServingNext]_servingVars PROVE [Next]_vars
  OBVIOUS
<1>1. CASE BuildBackend
  BY <1>1, DroppedAsks DEF BuildBackend, Asks, Walking, Next
<1>2. CASE Health
  BY <1>2, DroppedAsks DEF Health, Asks, Walking, Next
<1>3. CASE ListModels
  BY <1>3, DroppedAsks DEF ListModels, Walking, Next
<1>4. CASE ProbeWindow   BY <1>4 DEF ProbeWindow
<1>5. CASE Resolve       BY <1>5, ResolveAsks DEF Next
<1>6. CASE Loops         BY <1>6 DEF Loops, Next
<1>7. CASE Reconnected   BY <1>7 DEF Reconnected, Next
<1>8. CASE UNCHANGED servingVars  BY <1>8 DEF servingVars
<1> QED
  BY <1>1, <1>2, <1>3, <1>4, <1>5, <1>6, <1>7, <1>8 DEF ServingNext

(***************************************************************************)
(* Request by request, whichever of them fails, the walk does what         *)
(* Discovery says in one step per backend.                                 *)
(***************************************************************************)
THEOREM ServingImplementsDiscovery == ServingSpec => ImplementsDiscovery
<1>1. ServingInit => Init  BY DEF ServingInit
<1> QED
  BY <1>1, ListedInit, ListedStep, StepRefines, PTL
     DEF ServingSpec, ImplementsDiscovery, Spec

-----------------------------------------------------------------------------
(***************************************************************************)
(* The window of a backend that offers a model.  The engine enforces a     *)
(* natural number, and a cast only ever makes it smaller.                  *)
(***************************************************************************)
Exempt(b) == \/ config[b].kind = "ollama"
             \/ config[b].kind = "lmstudio" /\ engines[b].loaded = "no"

Bounded(b) == Exempt(b) \/ windows[b] <= engines[b].limit

WindowInv ==
  /\ windows \in Seq(Int) /\ Len(windows) = Len(offered)
  /\ engines \in Seq(Machines \cup {AnyEngine}) /\ Len(engines) = Len(offered)
  /\ probed \in BOOLEAN /\ engine \in Machines \cup {AnyEngine}
  /\ asking \in {"probe", "resolve"} => engine \in Machines
  /\ \A b \in 1..Len(offered) : offered[b] # {} => Bounded(b)

LEMMA CastBounded ==
  ASSUME NEW n \in Nat
  PROVE  /\ AsU32(n) \in Int /\ AsU32(n) <= n
         /\ Positive(n) \in Int /\ Positive(n) <= n
<1>1. n % U32 \in Nat /\ n % U32 <= n  BY AdaptersAssumption
<1> QED  BY <1>1 DEF AsU32, Positive, NoWindow

(* The first field that is there, by where it is.                          *)
LEMMA PresentFirst ==
  ASSUME NEW fields, NEW i \in 1..Len(fields), Len(fields) \in Nat,
         fields[i] # Absent,
         \A k \in 1..Len(fields) : k < i => fields[k] = Absent
  PROVE  FirstPresent(fields) = fields[i]
<1> DEFINE there == {k \in 1..Len(fields) : fields[k] # Absent}
<1>1. i \in there /\ \A k \in there : i <= k  OBVIOUS
<1>2. \A j \in there : (\A k \in there : j <= k) => j = i  BY <1>1
<1>3. (CHOOSE j \in there : \A k \in there : j <= k) = i  BY <1>1, <1>2
<1>4. there # {}  BY <1>1
<1> QED  BY <1>3, <1>4 DEF FirstPresent

LEMMA PresentNone == FirstPresent(<<Absent, Absent, Absent>>) = Absent
  BY DEF FirstPresent

LEMMA OpenaiBounded ==
  ASSUME NEW kind \in Kinds, NEW e \in Engines
  PROVE  /\ OpenaiWindow(Listed(kind, e)) \in Int
         /\ OpenaiWindow(Listed(kind, e)) <= e.limit
<1>1. e.limit \in Nat /\ e.limit # Absent  BY DEF Engines, Absent
<1>2. CASE kind = "vllm"
  <2>1. FirstPresent(<<Absent, e.limit, Absent>>) = e.limit
    BY <1>1, PresentFirst
  <2> QED  BY <1>1, <1>2, <2>1, CastBounded DEF OpenaiWindow, Listed
<1>3. CASE kind = "openrouter"
  <2>1. FirstPresent(<<e.limit, Absent, Absent>>) = e.limit
    BY <1>1, PresentFirst
  <2> QED  BY <1>1, <1>3, <2>1, CastBounded DEF OpenaiWindow, Listed
<1>4. CASE kind \notin {"vllm", "openrouter"}
  <2>1. OpenaiWindow(Listed(kind, e)) = AsU32(FirstPresent(<<Absent, Absent, Absent>>))
    BY <1>4 DEF OpenaiWindow, Listed
  <2>2. AsU32(FirstPresent(<<Absent, Absent, Absent>>)) = NoWindow
    BY PresentNone DEF AsU32, Absent
  <2> QED  BY <1>1, <2>1, <2>2 DEF NoWindow
<1> QED  BY <1>2, <1>3, <1>4

(* LM Studio: the loaded window, were it null, hides the ceiling.          *)
LEMMA LmStudioBounded ==
  ASSUME NEW e \in Engines
  PROVE  /\ LmStudioWindow(NativeEntry(e)) \in Int
         /\ e.loaded # "no" => LmStudioWindow(NativeEntry(e)) <= e.limit
<1>1. /\ e.limit \in Nat /\ e.trained \in Nat /\ e.loaded \in {"yes", "no", "null"}
      /\ e.limit # Absent /\ e.trained # Absent /\ Null # Absent
  BY DEF Engines, Absent, Null
<1>2. CASE e.loaded = "yes"
  <2>1. FirstPresent(<<e.limit, e.trained>>) = e.limit  BY <1>1, PresentFirst
  <2> QED  BY <1>1, <1>2, <2>1, CastBounded DEF LmStudioWindow, NativeEntry
<1>3. CASE e.loaded = "null"
  <2>1. FirstPresent(<<Null, e.trained>>) = Null  BY <1>1, PresentFirst
  <2>2. Positive(Null) = NoWindow  BY DEF Positive, Null
  <2> QED  BY <1>1, <1>3, <2>1, <2>2 DEF LmStudioWindow, NativeEntry, NoWindow
<1>4. CASE e.loaded = "no"
  <2>1. FirstPresent(<<Absent, e.trained>>) = e.trained  BY <1>1, PresentFirst
  <2> QED  BY <1>1, <1>4, <2>1, CastBounded DEF LmStudioWindow, NativeEntry
<1> QED  BY <1>1, <1>2, <1>3, <1>4

LEMMA WindowBounded ==
  ASSUME NEW kind \in Kinds, NEW e \in Engines, NEW p \in BOOLEAN
  PROVE  /\ WindowOf(kind, e, p) \in Int
         /\ kind # "ollama" /\ (kind = "lmstudio" => e.loaded # "no")
              => WindowOf(kind, e, p) <= e.limit
<1> DEFINE window == OpenaiWindow(Listed(kind, e))
<1>1. window \in Int /\ window <= e.limit  BY OpenaiBounded
<1>2. e.limit \in Nat /\ e.trained \in Nat  BY DEF Engines
<1>3. CASE window # NoWindow \/ kind \notin Probing \/ ~p
  BY <1>1, <1>3 DEF WindowOf
<1>4. CASE ~(window # NoWindow \/ kind \notin Probing \/ ~p)
  <2> HIDE DEF window
  <2>1. CASE kind = "llamacpp"
    BY <1>2, <1>4, <2>1, CastBounded DEF WindowOf, PropsWindow, window
  <2>2. CASE kind = "lmstudio"
    BY <1>2, <1>4, <2>2, LmStudioBounded DEF WindowOf, window
  <2>3. CASE kind = "ollama"
    BY <1>2, <1>4, <2>3, CastBounded DEF WindowOf, ShowWindow, window
  <2> QED  BY <1>4, <2>1, <2>2, <2>3 DEF Probing
<1> QED  BY <1>3, <1>4

LEMMA WindowInit == ServingInit => WindowInv
<1> SUFFICES ASSUME ServingInit PROVE WindowInv  OBVIOUS
<1>1. offered = <<>> /\ windows = <<>> /\ engines = <<>>  BY DEF ServingInit, Init
<1>2. Len(offered) = 0 /\ windows \in Seq(Int)
      /\ engines \in Seq(Machines \cup {AnyEngine})
  BY <1>1, EmptySeq
<1>3. Len(windows) = 0 /\ Len(engines) = 0  BY <1>1, EmptySeq
<1>4. \A b \in 1..Len(offered) : FALSE  BY <1>2
<1> QED  BY <1>2, <1>3, <1>4 DEF ServingInit, WindowInv

(* A backend takes its place, with a window that is good for it.           *)
LEMMA DiscoveredKeeps ==
  ASSUME TypeOK, WindowInv, stage = "walk", pos <= Len(config),
         NEW models \in SUBSET Models, NEW w \in Int, Discovered(models, w),
         \/ models = {}
         \/ config[pos].kind = "ollama"
         \/ config[pos].kind = "lmstudio" /\ engine.loaded = "no"
         \/ w <= engine.limit
  PROVE  WindowInv'
<1>1. /\ offered' = Append(offered, models) /\ windows' = Append(windows, w)
      /\ engines' = Append(engines, engine) /\ config' = config
      /\ asking' = "build" /\ engine' = AnyEngine /\ probed' = FALSE
  BY DEF Discovered, Forgotten
<1>2. /\ offered \in Seq(SUBSET Models) /\ windows \in Seq(Int)
      /\ engines \in Seq(Machines \cup {AnyEngine})
      /\ engine \in Machines \cup {AnyEngine}
      /\ Len(offered) = pos - 1 /\ Len(windows) = pos - 1 /\ Len(engines) = pos - 1
      /\ pos \in Int
  BY ConfigType DEF TypeOK, WindowInv
<1>3. /\ windows' \in Seq(Int) /\ Len(windows') = pos
      /\ engines' \in Seq(Machines \cup {AnyEngine}) /\ Len(engines') = pos
      /\ Len(offered') = pos
      /\ \A b \in 1..(pos - 1) : /\ offered'[b] = offered[b]
                                /\ windows'[b] = windows[b]
                                /\ engines'[b] = engines[b]
      /\ offered'[pos] = models /\ windows'[pos] = w /\ engines'[pos] = engine
  BY <1>1, <1>2, AppendProperties
<1>4. ASSUME NEW b \in 1..pos, offered'[b] # {}
      PROVE  Bounded(b)'
  <2>1. CASE b = pos  BY <1>1, <1>3, <1>4, <2>1 DEF Bounded, Exempt
  <2>2. CASE b # pos
    <3>0. b \in 1..(pos - 1)  BY <1>2, <2>2
    <3>1. b \in 1..(pos - 1) /\ offered[b] # {}  BY <3>0, <1>3, <1>4
    <3>2. Bounded(b)  BY <1>2, <3>1 DEF WindowInv
    <3> QED  BY <1>1, <1>3, <3>1, <3>2 DEF Bounded, Exempt
  <2> QED  BY <2>1, <2>2
<1> QED  BY <1>1, <1>2, <1>3, <1>4 DEF WindowInv

LEMMA DroppedKeeps ==
  ASSUME TypeOK, WindowInv, stage = "walk", pos <= Len(config), Dropped
  PROVE  WindowInv'
  BY DiscoveredKeeps DEF Dropped, NoWindow

LEMMA WindowStep ==
  TypeOK /\ ListedTyped /\ WindowInv /\ [ServingNext]_servingVars => WindowInv'
<1> SUFFICES ASSUME TypeOK, ListedTyped, WindowInv, [ServingNext]_servingVars
             PROVE  WindowInv'
  OBVIOUS
<1> USE DEF Walking
<1>0. ASSUME UNCHANGED <<vars, windows, engines>>, probed' \in BOOLEAN,
             engine' \in Machines \cup {AnyEngine},
             asking' \in {"probe", "resolve"} => engine' \in Machines
      PROVE  WindowInv'
  BY <1>0 DEF vars, WindowInv, Bounded, Exempt
<1>1. CASE BuildBackend
  BY <1>1, <1>0, DroppedKeeps DEF BuildBackend, Asks, WindowInv
<1>2. CASE Health
  BY <1>2, <1>0, DroppedKeeps DEF Health, Asks, WindowInv
<1>3. CASE ListModels
  BY <1>3, <1>0, DroppedKeeps DEF ListModels, WindowInv
<1>4. CASE ProbeWindow
  BY <1>4, <1>0 DEF ProbeWindow, WindowInv
<1>5. CASE Resolve
  <2> DEFINE w == WindowOf(Kind, engine, probed)
             models == Resolved(pos, listed)
  <2>1. /\ stage = "walk" /\ pos <= Len(config) /\ Discovered(models, w)
        /\ engine \in Machines /\ probed \in BOOLEAN
    BY <1>5 DEF Resolve, WindowInv
  <2>2. config[pos].kind \in Kinds
    <3>1. config \in Seq([kind : Kinds, allow : SUBSET Models])
          /\ pos \in 1..Len(config)
      BY <2>1, ConfigType DEF TypeOK
    <3>2. config[pos] \in [kind : Kinds, allow : SUBSET Models]
      BY <3>1, ElementOfSeq
    <3> QED  BY <3>2
  <2>3. engine \in Engines  BY <2>1, ServingAssumption
  <2>4. /\ w \in Int
        /\ Kind # "ollama" /\ (Kind = "lmstudio" => engine.loaded # "no")
             => w <= engine.limit
    BY <2>1, <2>2, <2>3, WindowBounded DEF Kind
  <2>5. models \in SUBSET Models  BY DEF ListedTyped, Resolved
  <2> QED  BY <2>1, <2>4, <2>5, DiscoveredKeeps DEF Kind
<1>6. CASE Loops
  <2>1. UNCHANGED <<config, offered>>
    BY <1>6 DEF Loops, WalkDone, DedupeBackend, DedupeDone, RouteBackend, RouteDone
  <2> QED  BY <1>6, <2>1 DEF Loops, walkVars, WindowInv, Bounded, Exempt
<1>7. CASE Reconnected
  <2>1. offered' = <<>> /\ windows' = <<>> /\ engines' = <<>>
        /\ UNCHANGED walkVars
    BY <1>7 DEF Reconnected, Reconnect
  <2>2. Len(offered') = 0 /\ windows' \in Seq(Int)
        /\ engines' \in Seq(Machines \cup {AnyEngine})
    BY <2>1, EmptySeq
  <2>3. \A b \in 1..Len(offered') : FALSE  BY <2>2
  <2> QED  BY <2>1, <2>2, <2>3 DEF walkVars, WindowInv
<1>8. CASE UNCHANGED servingVars
  BY <1>8, <1>0 DEF servingVars, walkVars, WindowInv
<1> QED
  BY <1>1, <1>2, <1>3, <1>4, <1>5, <1>6, <1>7, <1>8 DEF ServingNext

LEMMA WindowMeans ==
  TypeOK /\ WindowInv /\ RoutesFollowPriority /\ RoutesServeAdvertised
    => WindowHonest
<1> SUFFICES ASSUME TypeOK, WindowInv, RoutesFollowPriority,
                    RoutesServeAdvertised, stage = "ready", InPriorityOrder,
                    NEW m \in Models, routes[m] # 0
             PROVE  \/ Exempt(routes[m])
                    \/ windows[advertised[m]] <= engines[routes[m]].limit
  BY DEF WindowHonest, Exempt
<1>1. advertised[m] = routes[m]  BY DEF RoutesFollowPriority
<1>2. routes[m] \in 1..Len(offered) /\ Len(config) \in Nat
  BY ConfigType DEF TypeOK
<1>3. offered[routes[m]] # {}  BY DEF RoutesServeAdvertised
<1> QED  BY <1>1, <1>2, <1>3 DEF WindowInv, Bounded

(***************************************************************************)
(* No model is advertised with a window beyond what its engine enforces,   *)
(* for every configuration in priority order, every engine, and whatever   *)
(* requests fail; Ollama and models LM Studio has yet to load excepted.    *)
(***************************************************************************)
THEOREM AdvertisedWindowsHonest == ServingSpec => []WindowHonest
<1>1. ServingSpec => [](TypeOK /\ RoutesFollowPriority /\ RoutesServeAdvertised)
  BY ServingImplementsDiscovery, DiscoveryTypeCorrect, PriorityOrderIsFollowed,
     AdvertisedIsServed, PTL DEF ImplementsDiscovery
<1> QED
  BY <1>1, ListedInit, ListedStep, WindowInit, WindowStep, WindowMeans, PTL
     DEF ServingSpec
=============================================================================
