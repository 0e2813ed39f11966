----------------------------- MODULE Deployment -----------------------------
(***************************************************************************)
(* A machine on which the agent is paired (Setup) and put under the        *)
(* service manager (Service).  The two share agent.toml: setup, run under  *)
(* the account of the service, writes the one the service finds first; and *)
(* the key file that file names, which setup loads or creates before all   *)
(* else.  Either may run at any time, and a reboot ends both.              *)
(***************************************************************************)
EXTENDS Setup, Service

deploymentVars == <<vars, serviceVars>>

(* What the agent, which insists on wss, makes of the file.                *)
ContentOf(file) ==
  IF file.state = "absent" THEN "none"
  ELSE IF file.state = "whole" /\ Loads(file.cfg, FALSE) THEN "homekey" ELSE "bad"

DeploymentInit == Init /\ ServiceInit(ContentOf(toml))

(* The command starts only with an identity it could load or create.       *)
SetupStep ==
  /\ Next
  /\ IF pc = "down"
     THEN /\ binary = "whole" /\ keys["home"] # "torn"
          /\ keys' = [keys EXCEPT !["home"] = "whole"]
     ELSE UNCHANGED keys
  /\ files' = [files EXCEPT !["own"] = ContentOf(toml')]
  /\ UNCHANGED <<platform, account, workdir, unit, wanted, svc, unstopped,
                 binary, cmd>>

(* Or it ends while it creates one.                                        *)
SetupKeyTorn ==
  /\ pc = "down" /\ binary = "whole" /\ keys["home"] = "absent"
  /\ keys' = [keys EXCEPT !["home"] = "torn"]
  /\ UNCHANGED <<vars, platform, files, account, workdir, unit, wanted, svc,
                 unstopped, binary, cmd>>

ServiceStep == ServiceNext /\ UNCHANGED vars

MachineReboot == Reboot /\ Exit

(* The operator runs one command at a time.                                *)
OneTerminal == pc = "down" \/ cmd = Idle

DeploymentNext ==
  /\ SetupStep \/ SetupKeyTorn \/ ServiceStep \/ MachineReboot
  /\ OneTerminal'

DeploymentSpec == DeploymentInit /\ [][DeploymentNext]_deploymentVars

FairDeployment == DeploymentSpec /\ Fairness /\ ServiceFairness

-----------------------------------------------------------------------------
(* The key file is not torn, but for the service that is just writing it.  *)
KeySound ==
  keys["home"] = "torn" => svc.state \in KeyWriting /\ svc.key = "home"

(***************************************************************************)
(* A machine that was paired serves: if setup leaves a file that loads,    *)
(* where the service can see it, and the service is installed and started, *)
(* then it serves in the end, and again after every crash and reboot,      *)
(* after a setup that was cut off while it wrote and is run again, and     *)
(* after an upgrade that tore the binary and is repeated.  Nobody has to   *)
(* start it anew, unless the key file was torn, by a crash, a reboot or a  *)
(* failed write while a key or an id was stored in it: then no start       *)
(* succeeds until the operator takes the file away, and with it the key    *)
(* the agent was paired under.                                             *)
(***************************************************************************)
PairedMachineServes ==
  <>[](/\ wanted /\ binary = "whole" /\ KeySound
       /\ toml.state = "whole" /\ Loads(toml.cfg, FALSE) /\ HomeSeen)
    => []<>(svc.state = "serving")
=============================================================================
