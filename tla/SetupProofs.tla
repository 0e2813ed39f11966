---------------------------- MODULE SetupProofs -----------------------------
(***************************************************************************)
(* The safety of Setup on a machine of Deployment, for every engine that   *)
(* may answer and every list of models the dashboard may deliver.  What    *)
(* setup writes it has gathered over several requests, so the invariant    *)
(* ties what the command has in hand to the pairing it is working on, and  *)
(* the file to the pairing it came from.                                   *)
(***************************************************************************)
EXTENDS Deployment, TLAPS

Statuses == {"none", "pending", "active", "expired"}
Sent     == Activations \cup {Nothing}
Paired(sent) == [models  |-> ActivatedModels(sent), legible |-> sent.legible]

(* What probe_local_backends may find.                                     *)
FoundBy(up) == [i \in 1..Len(up) |-> Probes[up[i]]]
Found       == {FoundBy(up) : up \in Answering}

Schemes == {"https", "http", "HTTPS"}
Polling == {"poll", "sleep"}
Writing == {"write", "writing"}

(* The command: what it has in hand is of the pairing it is working on.    *)
CommandInv ==
  /\ pc \in {"down", "probe", "issue"} \cup Polling \cup Writing
  /\ args \in Schemes
  /\ pairing \in [status : Statuses, sent : Sent]
  /\ pc \in {"issue"} \cup Polling \cup Writing => backends \in Found
  /\ pc \in Polling => pairing.status # "none"
  /\ pc \in Writing => pairing.status = "active" /\ active = Paired(pairing.sent)

(* The file: nobody's, or rendered from an activated pairing.              *)
FileInv ==
  /\ toml.state \in {"absent", "torn", "whole"}
  /\ toml.setup \in BOOLEAN
  /\ toml.state = "whole" /\ toml.setup =>
       /\ toml.args \in Schemes /\ toml.sent \in Sent
       /\ \E found \in Found :
            toml.cfg = Rendered(toml.args, found, Paired(toml.sent))

SetupInv == CommandInv /\ FileInv

-----------------------------------------------------------------------------
(* A delivery, and what the file makes of it.                              *)
LEMMA SentTyped ==
  ASSUME NEW sent \in Sent
  PROVE  /\ sent.parses \in BOOLEAN /\ sent.legible \in BOOLEAN
         /\ Len(sent.models) \in Nat /\ DOMAIN sent.models = 1..Len(sent.models)
         /\ \A i \in 1..Len(sent.models) : /\ sent.models[i].price \in Nat
                                           /\ sent.models[i].max_concurrent \in Nat
<1>1. CASE sent \in Activations  BY <1>1, SetupAssumption
<1>2. CASE sent = Nothing
  <2>1. sent.parses = TRUE /\ sent.legible = TRUE /\ sent.models = <<>>
    BY <1>2 DEF Nothing
  <2>2. Len(sent.models) = 0  BY <2>1
  <2>3. DOMAIN sent.models = 1..Len(sent.models)  BY <2>1
  <2>4. 1..Len(sent.models) = {}  BY <2>2
  <2> QED  BY <2>1, <2>2, <2>3, <2>4
<1> QED  BY <1>1, <1>2 DEF Sent

LEMMA ModelsTyped ==
  ASSUME NEW sent \in Sent
  PROVE  LET models == ActivatedModels(sent)
         IN  /\ Len(models) \in Nat
             /\ models # <<>> => 1 \in 1..Len(models)
             /\ \A i \in 1..Len(models) : /\ models[i].price \in Nat
                                          /\ models[i].max_concurrent \in Nat
<1>1. CASE sent.parses
  <2>1. ActivatedModels(sent) = sent.models  BY <1>1 DEF ActivatedModels
  <2>2. sent.models # <<>> => Len(sent.models) # 0
    BY SentTyped
  <2> QED  BY <2>1, <2>2, SentTyped
<1>2. CASE ~sent.parses
  <2>1. ActivatedModels(sent) = <<>>  BY <1>2 DEF ActivatedModels
  <2> QED  BY <2>1
<1> QED  BY <1>1, <1>2

LEMMA RenderedOf ==
  ASSUME NEW sent \in Sent, NEW scheme, NEW found
  PROVE  LET models == ActivatedModels(sent)
             cfg    == Rendered(scheme, found, Paired(sent))
         IN  /\ Len(cfg.prices) = Len(models)
             /\ \A i \in 1..Len(models) :
                  /\ cfg.prices[i].model = models[i].model
                  /\ cfg.prices[i].price = models[i].price
             /\ cfg.legible = sent.legible
             /\ cfg.scheme = HttpToWs(scheme)
             /\ cfg.backends = found /\ cfg.defaults = DefaultPrice
             /\ cfg.max_concurrent =
                  IF models = <<>> THEN 4 ELSE models[1].max_concurrent
<1> DEFINE models == ActivatedModels(sent)
<1>1. Len(models) \in Nat  BY ModelsTyped
<1>2. Paired(sent).models = models /\ Paired(sent).legible = sent.legible
  BY DEF Paired
<1> HIDE DEF models
<1> QED  BY <1>1, <1>2 DEF Rendered, models

(* What was probed is good enough to run.                                  *)
LEMMA FoundValid ==
  ASSUME NEW found \in Found
  PROVE  /\ \A i \in 1..Len(found) : ValidBackend(found[i])
         /\ NoDuplicates(found)
<1>1. PICK up \in Answering : found = FoundBy(up)  BY DEF Found
<1>2. /\ Len(up) \in Nat
      /\ \A i \in 1..Len(up) : up[i] \in 1..4
      /\ \A i, k \in 1..Len(up) : i < k => up[i] < up[k]
  BY SetupAssumption DEF Probes
<1>3. Len(found) = Len(up) /\ \A i \in 1..Len(up) : found[i] = Probes[up[i]]
  BY <1>1, <1>2 DEF FoundBy
<1>4. \A n \in 1..4 : ValidBackend(Probes[n])
  BY DEF Probes, ValidBackend, UrlKinds, Missing, Invalid
<1>5. \A n, m \in 1..4 : Probes[n] = Probes[m] => n = m
  BY DEF Probes
<1>6. \A i, k \in 1..Len(up) : up[i] = up[k] => i = k  BY <1>2
<1> HIDE DEF FoundBy
<1>7. ASSUME NEW i \in 1..Len(found)  PROVE ValidBackend(found[i])
  BY <1>2, <1>3, <1>4
<1>8. ASSUME NEW i \in 1..Len(found), NEW k \in 1..Len(found), found[i] = found[k]
      PROVE  i = k
  <2>1. Probes[up[i]] = Probes[up[k]] /\ up[i] \in 1..4 /\ up[k] \in 1..4
    BY <1>2, <1>3, <1>8
  <2>2. up[i] = up[k]  BY <2>1, <1>5
  <2> QED  BY <1>3, <1>6, <1>8, <2>2
<1>9. NoDuplicates(found)  BY <1>8 DEF NoDuplicates
<1> QED  BY <1>7, <1>9

-----------------------------------------------------------------------------
LEMMA UnpairedTyped == Unpaired \in [status : Statuses, sent : Sent]
  BY DEF Unpaired, Statuses, Sent

LEMMA SetupStarts == Init => SetupInv
<1> SUFFICES ASSUME Init PROVE SetupInv  OBVIOUS
<1>1. CommandInv
  BY UnpairedTyped DEF Init, CommandInv, Schemes, Polling, Writing
<1>2. toml.state \in {"absent", "whole"} /\ toml.setup = FALSE
  BY DEF Init, Absent, Whole
<1>3. FileInv  BY <1>2 DEF FileInv
<1> QED  BY <1>1, <1>3 DEF SetupInv

LEMMA GoneKeeps == Gone => CommandInv'
  BY UnpairedTyped DEF Gone, CommandInv, Schemes, Polling, Writing

LEMMA ExitKeeps == SetupInv /\ Exit => SetupInv'
  BY GoneKeeps DEF SetupInv, Exit, FileInv

LEMMA WriteKeeps == SetupInv /\ (OpenConfig \/ Written) => SetupInv'
<1> SUFFICES ASSUME SetupInv, OpenConfig \/ Written PROVE SetupInv'  OBVIOUS
<1>1. CASE OpenConfig
  <2>1. CommandInv'
    BY <1>1 DEF SetupInv, OpenConfig, CommandInv, Polling, Writing
  <2>2. FileInv'  BY <1>1 DEF OpenConfig, Torn, Absent, FileInv
  <2> QED  BY <2>1, <2>2 DEF SetupInv
<1>2. CASE Written
  <2>1. CommandInv'  BY <1>2, GoneKeeps DEF Written
  <2>2. /\ args \in Schemes /\ backends \in Found
        /\ pairing.sent \in Sent /\ active = Paired(pairing.sent)
    BY <1>2 DEF SetupInv, CommandInv, Written, Polling, Writing
  <2>3. /\ toml'.state = "whole" /\ toml'.setup = TRUE
        /\ toml'.args = args /\ toml'.sent = pairing.sent
        /\ toml'.cfg = Rendered(args, backends, Paired(pairing.sent))
    BY <1>2, <2>2 DEF Written
  <2> HIDE DEF Rendered
  <2>4. FileInv'  BY <2>2, <2>3 DEF FileInv
  <2> QED  BY <2>1, <2>4 DEF SetupInv
<1> QED  BY <1>1, <1>2

LEMMA SetupKeeps == SetupInv /\ [Next]_vars => SetupInv'
<1> SUFFICES ASSUME SetupInv, [Next]_vars PROVE SetupInv'  OBVIOUS
<1> USE DEF CommandInv, Polling, Writing
<1>0. toml' = toml => FileInv'  BY DEF SetupInv, FileInv
<1>1. CASE Start
  <2>1. CommandInv'  BY <1>1, SetupAssumption DEF Start, SetupInv, Schemes
  <2> QED  BY <1>0, <1>1, <2>1 DEF Start, SetupInv
<1>2. CASE Probe
  <2>1. backends' \in Found  BY <1>2 DEF Probe, Found, FoundBy
  <2>2. CommandInv'  BY <1>2, <2>1 DEF Probe, SetupInv
  <2> QED  BY <1>0, <1>2, <2>2 DEF Probe, SetupInv
<1>3. CASE Issue
  <2>1. pairing' = [status |-> "pending", sent |-> Nothing]
    BY <1>3 DEF Issue, Unpaired
  <2>2. /\ pairing' \in [status : Statuses, sent : Sent]
        /\ pairing'.status = "pending"
    BY <2>1 DEF Statuses, Sent
  <2>3. CommandInv'  BY <1>3, <2>2 DEF Issue, SetupInv
  <2> QED  BY <1>0, <1>3, <2>3 DEF Issue, SetupInv
<1>4. CASE PollPending \/ Wake
  <2>1. CommandInv'  BY <1>4 DEF PollPending, Wake, SetupInv
  <2> QED  BY <1>0, <1>4, <2>1 DEF PollPending, Wake, SetupInv
<1>5. CASE PollExpired  BY <1>5, ExitKeeps DEF PollExpired
<1>6. CASE PollActive
  <2>1. active' = Paired(pairing.sent)  BY <1>6 DEF PollActive, Paired
  <2> HIDE DEF Paired
  <2>2. CommandInv'  BY <1>6, <2>1 DEF PollActive, SetupInv
  <2> QED  BY <1>0, <1>6, <2>2 DEF PollActive, SetupInv
<1>7. CASE OpenConfig \/ Written  BY <1>7, WriteKeeps
<1>8. CASE Ends  BY <1>8, ExitKeeps DEF Ends
<1>9. CASE Activate
  <2>1. PICK sent \in Activations : pairing' = [status |-> "active", sent |-> sent]
    BY <1>9 DEF Activate
  <2>2. /\ pairing' \in [status : Statuses, sent : Sent]
        /\ pairing'.status = "active"
    BY <2>1 DEF Statuses, Sent
  <2>3. pairing.status = "pending"  BY <1>9 DEF Activate
  <2>4. pc \notin Writing  BY <2>3 DEF SetupInv
  <2>5. CommandInv'  BY <1>9, <2>2, <2>4 DEF Activate, SetupInv
  <2> QED  BY <1>0, <1>9, <2>5 DEF Activate, SetupInv
<1>10. CASE Expire
  <2>1. /\ pairing' \in [status : Statuses, sent : Sent]
        /\ pairing'.status = "expired"
    BY <1>10 DEF Expire, SetupInv, Statuses
  <2>2. CommandInv'  BY <1>10, <2>1 DEF Expire, SetupInv
  <2> QED  BY <1>0, <1>10, <2>2 DEF Expire, SetupInv
<1>11. CASE UNCHANGED vars
  <2>1. CommandInv'  BY <1>11 DEF vars, SetupInv
  <2> QED  BY <1>0, <1>11, <2>1 DEF vars, SetupInv
<1> QED
  BY <1>1, <1>2, <1>3, <1>4, <1>5, <1>6, <1>7, <1>8, <1>9, <1>10, <1>11 DEF Next

(* Setup's share of a step of the machine.                                 *)
LEMMA MachineStep == [DeploymentNext]_deploymentVars =>
                       [Next]_vars \/ Exit
  BY DEF DeploymentNext, SetupStep, SetupKeyTorn, ServiceStep, MachineReboot,
         deploymentVars

LEMMA MachineKeeps == SetupInv /\ [DeploymentNext]_deploymentVars => SetupInv'
  BY MachineStep, SetupKeeps, ExitKeeps

LEMMA MachineStarts == DeploymentInit => SetupInv
  BY SetupStarts DEF DeploymentInit

-----------------------------------------------------------------------------
LEMMA SetupTyped == SetupInv => TypeOK
  BY DEF SetupInv, CommandInv, FileInv, Statuses, Schemes, Polling, Writing, TypeOK

(***************************************************************************)
(* Every reachable state is well typed: a command that polls has a code,   *)
(* and one that writes has one that was activated.                         *)
(***************************************************************************)
THEOREM SetupTypeCorrect == DeploymentSpec => []TypeOK
  BY MachineStarts, MachineKeeps, SetupTyped, PTL DEF DeploymentSpec

LEMMA TouchStep ==
  SetupInv /\ [DeploymentNext]_deploymentVars =>
    [toml' # toml => pairing.status = "active"]_vars
<1> SUFFICES ASSUME SetupInv, [Next]_vars \/ Exit, toml' # toml
             PROVE  pairing.status = "active"
  BY MachineStep DEF vars
<1>1. OpenConfig \/ Written
  BY DEF Next, vars, Exit, Start, Probe, Issue, PollPending, Wake, PollExpired,
         PollActive, Ends, Activate, Expire
<1>2. pc \in Writing  BY <1>1 DEF OpenConfig, Written, Writing
<1> QED  BY <1>2 DEF SetupInv, CommandInv

(***************************************************************************)
(* agent.toml is touched only for a pairing the operator activated, by     *)
(* however many setups, lost answers, kills and reboots.                   *)
(***************************************************************************)
THEOREM TouchedForActivations == DeploymentSpec => TouchedOnlyWhenPaired
<1>1. SetupInv /\ [DeploymentNext]_deploymentVars =>
        [toml' # toml => pairing.status = "active"]_vars
  BY TouchStep
<1> QED
  BY <1>1, MachineStarts, MachineKeeps, PTL DEF DeploymentSpec, TouchedOnlyWhenPaired

-----------------------------------------------------------------------------
LEMMA SetupLoads == SetupInv => PairedConfigLoads
<1> SUFFICES ASSUME SetupInv, toml.state = "whole", toml.setup
             PROVE  PairedConfigLoads
  BY Zenon DEF PairedConfigLoads
<1> DEFINE models == ActivatedModels(toml.sent)
           prices == toml.cfg.prices
           conditions ==
             /\ toml.args = "https"
             /\ toml.sent.legible
             /\ \A i, k \in 1..Len(models) : models[i].model = models[k].model => i = k
             /\ \A i \in 1..Len(models) : models[i].price <= TomlMax
             /\ models # <<>> => models[1].max_concurrent \in 1..256
<1>1. toml.args \in Schemes /\ toml.sent \in Sent  BY DEF SetupInv, FileInv
<1>2. PICK found \in Found :
        toml.cfg = Rendered(toml.args, found, Paired(toml.sent))
  BY DEF SetupInv, FileInv
<1>3. Len(models) \in Nat  BY <1>1, ModelsTyped
<1> HIDE DEF models, prices
<1>4. /\ Len(prices) = Len(models)
      /\ \A i \in 1..Len(prices) : /\ prices[i].model = models[i].model
                                   /\ prices[i].price = models[i].price
      /\ toml.cfg.legible = toml.sent.legible
      /\ toml.cfg.scheme = HttpToWs(toml.args)
      /\ toml.cfg.backends = found /\ toml.cfg.defaults = DefaultPrice
      /\ toml.cfg.max_concurrent =
           IF models = <<>> THEN 4 ELSE models[1].max_concurrent
  BY <1>1, <1>2, RenderedOf DEF prices, models
<1>5. toml.cfg.scheme = "wss" <=> toml.args = "https"
  BY <1>1, <1>4 DEF HttpToWs, Schemes
<1>6. Parses(toml.cfg) <=>
        /\ toml.sent.legible
        /\ \A i, k \in 1..Len(models) : models[i].model = models[k].model => i = k
        /\ \A i \in 1..Len(models) : models[i].price <= TomlMax
  <2> DEFINE names == [i \in 1..Len(prices) |-> prices[i].model]
  <2>1. Len(names) = Len(models) /\ \A i \in 1..Len(models) : names[i] = models[i].model
    BY <1>3, <1>4
  <2>2. Parses(toml.cfg) <=> /\ toml.cfg.legible /\ NoDuplicates(names)
                             /\ \A i \in 1..Len(prices) : prices[i].price <= TomlMax
    BY DEF Parses, prices
  <2> HIDE DEF names
  <2>3. NoDuplicates(names) <=>
          \A i, k \in 1..Len(models) : models[i].model = models[k].model => i = k
    BY <2>1 DEF NoDuplicates
  <2> QED  BY <1>4, <2>2, <2>3
<1>7. Validate(toml.cfg, FALSE) <=>
        /\ toml.args = "https"
        /\ models # <<>> => models[1].max_concurrent \in 1..256
  <2>1. /\ \A i \in 1..Len(found) : ValidBackend(found[i])
        /\ NoDuplicates(found)
    BY FoundValid
  <2>2. toml.cfg.max_concurrent \in 1..256 <=>
          (models # <<>> => models[1].max_concurrent \in 1..256)
    BY <1>4
  <2> QED  BY <1>4, <1>5, <2>1, <2>2 DEF Validate, DefaultPrice
<1>8. Loads(toml.cfg, FALSE) <=> conditions  BY <1>6, <1>7 DEF Loads
<1> QED  BY <1>4, <1>8, Zenon DEF models, prices, PairedConfigLoads

(***************************************************************************)
(* Every file setup leaves has the prices of one activated pairing, and    *)
(* loads exactly on the conditions the property names, for all answers of  *)
(* engines and dashboard, those that do not parse included.                *)
(***************************************************************************)
THEOREM PairedConfigsLoad == DeploymentSpec => []PairedConfigLoads
  BY MachineStarts, MachineKeeps, SetupLoads, PTL DEF DeploymentSpec

LEMMA SetupPrices == SetupInv => PricesAreTheOperators
<1> SUFFICES ASSUME SetupInv, toml.state = "whole", toml.setup,
                    Loads(toml.cfg, TRUE), NEW m \in Models
             PROVE  LET models == ActivatedModels(toml.sent)
                        his    == {models[i].price :
                                     i \in {k \in 1..Len(models) : models[k].model = m}}
                    IN  /\ his = {} => PriceOf(toml.cfg, m) = DefaultPrice
                        /\ his # {} => his = {PriceOf(toml.cfg, m)}
                        /\ Dropped(toml.cfg, m) <=> 0 \in his
  BY Zenon DEF PricesAreTheOperators
<1> DEFINE models == ActivatedModels(toml.sent)
           prices == toml.cfg.prices
           at     == {k \in 1..Len(models) : models[k].model = m}
           his    == {models[i].price : i \in at}
<1>1. toml.sent \in Sent  BY DEF SetupInv, FileInv
<1>2. PICK found \in Found :
        toml.cfg = Rendered(toml.args, found, Paired(toml.sent))
  BY DEF SetupInv, FileInv
<1>3. Len(models) \in Nat  BY <1>1, ModelsTyped
<1> HIDE DEF models, prices
<1>4. /\ Len(prices) = Len(models)
      /\ \A i \in 1..Len(models) : /\ prices[i].model = models[i].model
                                   /\ prices[i].price = models[i].price
      /\ toml.cfg.defaults = DefaultPrice
  BY <1>1, <1>2, RenderedOf DEF prices, models
<1>5. \A k, n \in 1..Len(prices) : prices[k].model = prices[n].model => k = n
  BY <1>3, <1>4 DEF Loads, Parses, NoDuplicates, prices
<1> DEFINE goal == /\ his = {} => PriceOf(toml.cfg, m) = DefaultPrice
                   /\ his # {} => his = {PriceOf(toml.cfg, m)}
                   /\ PriceOf(toml.cfg, m) = 0 <=> 0 \in his
<1>6. ASSUME at = {} PROVE goal
  <2>1. ASSUME NEW i \in 1..Len(prices)  PROVE prices[i].model # m
    <3>1. i \in 1..Len(models)  BY <1>4
    <3>2. i \notin at  BY <1>6
    <3>3. models[i].model # m  BY <3>1, <3>2
    <3> QED  BY <1>4, <3>1, <3>3
  <2>2. PriceOf(toml.cfg, m) = DefaultPrice
    BY <1>4, <2>1 DEF PriceOf, prices
  <2>3. his = {}  BY <1>6
  <2> HIDE DEF his
  <2> QED  BY <2>2, <2>3 DEF DefaultPrice
<1>7. ASSUME NEW n \in at
      PROVE  at = {n} /\ PriceOf(toml.cfg, m) = models[n].price
  <2>1. n \in 1..Len(prices) /\ prices[n].model = m  BY <1>4
  <2>2. \A k \in 1..Len(prices) : prices[k].model = m <=> k = n  BY <1>5, <2>1
  <2>3. at = {n}  BY <1>4, <2>2
  <2>4. (CHOOSE k \in 1..Len(prices) : prices[k].model = m) = n  BY <2>1, <2>2
  <2>5. PriceOf(toml.cfg, m) = prices[n].price
    BY <2>1, <2>4 DEF PriceOf, prices
  <2> QED  BY <1>4, <2>1, <2>3, <2>5
<1>8. ASSUME at # {} PROVE goal
  <2>1. PICK n \in at : TRUE  BY <1>8
  <2>2. at = {n} /\ PriceOf(toml.cfg, m) = models[n].price  BY <1>7
  <2>3. his = {PriceOf(toml.cfg, m)}  BY <2>2
  <2> HIDE DEF his
  <2> QED  BY <2>3
<1>9. goal  BY <1>6, <1>8
<1> QED  BY <1>9, Zenon DEF Dropped, models

(***************************************************************************)
(* In every file that loads, each activated model has the price the        *)
(* operator set, were it none; the models he did not activate, and all of  *)
(* them if the model_config did not parse, have the default one.           *)
(***************************************************************************)
THEOREM OperatorsPrices == DeploymentSpec => []PricesAreTheOperators
  BY MachineStarts, MachineKeeps, SetupPrices, PTL DEF DeploymentSpec

-----------------------------------------------------------------------------
(* A command that is not running has nothing in hand.                      *)
DownInv ==
  pc = "down" => /\ args = "https" /\ backends = <<>>
                 /\ active = NoPairing /\ pairing = Unpaired

LEMMA DownKeeps == DownInv /\ [Next]_vars => DownInv'
<1> SUFFICES ASSUME DownInv, [Next]_vars PROVE DownInv'  OBVIOUS
<1> USE DEF DownInv
<1>1. Unpaired.status = "none"  BY DEF Unpaired
<1>2. CASE Activate \/ Expire  BY <1>1, <1>2 DEF Activate, Expire
<1>3. CASE Next /\ ~(Activate \/ Expire)
  BY <1>3 DEF Next, Start, Probe, Issue, PollPending, Wake, PollExpired, PollActive,
              OpenConfig, Written, Ends, Exit, Gone
<1> QED  BY <1>2, <1>3 DEF vars

(* A reboot ends the command that runs, or finds none.                     *)
LEMMA RebootIsEnd == DownInv /\ Exit => [Next]_vars
<1> SUFFICES ASSUME DownInv, Exit PROVE [Next]_vars  OBVIOUS
<1>1. CASE pc # "down"  BY <1>1 DEF Next, Ends
<1>2. CASE pc = "down"  BY <1>2 DEF DownInv, Exit, Gone, vars
<1> QED  BY <1>1, <1>2

(***************************************************************************)
(* On a machine with a service, with commands that are cut off and with    *)
(* reboots, setup does nothing that Setup does not say of it: to the       *)
(* pairing a reboot is one more way for the command to end, and no command *)
(* of the service has a part in it.                                        *)
(***************************************************************************)
THEOREM DeploymentImplementsSetup == DeploymentSpec => Spec
<1>1. DeploymentInit => Init /\ DownInv  BY DEF DeploymentInit, Init, DownInv
<1>2. DownInv /\ [DeploymentNext]_deploymentVars => [Next]_vars
  BY MachineStep, RebootIsEnd
<1>3. DownInv /\ [DeploymentNext]_deploymentVars => DownInv'
  BY <1>2, DownKeeps
<1> QED  BY <1>1, <1>2, <1>3, PTL DEF DeploymentSpec, Spec
=============================================================================
