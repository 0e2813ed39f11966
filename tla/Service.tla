------------------------------ MODULE Service ------------------------------
(***************************************************************************)
(* `usepod-agent service ...` (service.rs, cmd_service in main.rs): the    *)
(* commands that put the agent under the machine's service manager, the    *)
(* process the manager then runs, and `upgrade`, which replaces the binary *)
(* under it.                                                               *)
(*                                                                         *)
(* A command is a list of steps; each may fail, and the command may be     *)
(* killed between any two.  The service manager is external: it does what  *)
(* the unit it was given says.  What the agent process needs to serve is a *)
(* configuration it finds and may read, and a key file it may create, or   *)
(* reads whole: it rewrites the file when the coordinator gives it an id.  *)
(* Two commands that write the file at once are in Identity.tla.           *)
(***************************************************************************)
EXTENDS Config

CONSTANTS
  Platforms,   \* "linux", "macos", "windows"
  Options,     \* options of `service install`: [config, log_level], config a
               \* path or "search" if --config is not given
  Writes       \* what may be written where: pairs of a place and a content

Places == {"own", "cwd", "etc"}

(* Contents of an agent.toml, by what the service can make of it: it does  *)
(* not load, or it loads and its key lies in the home of the service's     *)
(* account, or in the working directory.                                   *)
Contents == {"none", "bad", "homekey", "workkey"}
KeyFiles == {"home", "work"}

ASSUME ServiceAssumption ==
  /\ Platforms \subseteq {"linux", "macos", "windows"}
  /\ Options \subseteq [config : {"search", "etc"}, log_level : {"info", "debug"}]
  /\ Writes \subseteq Places \X Contents

VARIABLES
  platform,
  files,      \* the agent.toml in the configuration directory of the account
              \* the service runs as, in the working directory, at --config
  account,    \* Linux: the user `usepod`: "absent", "nohome" as install adds
              \* it, or "workhome", its home the working directory
  workdir,    \* the working directory: "absent" or its owner
  unit,       \* what the service manager keeps: [installed, line, asked], asked
              \* the options of the install that registered it
  wanted,     \* the manager is to keep the service running
  keys,       \* the two key files: "absent", "whole" or "torn"
  svc,        \* the agent process: [state, line, key, stale], key the file of
              \* its identity, stale if the process is older than the command
              \* that is running or ran last
  unstopped,  \* the command's stop was refused and left the process running
  binary,     \* the executable on disk: "whole", or "torn"
  cmd         \* the command: [act, opts, todo], todo the steps it has left

serviceVars == <<platform, files, account, workdir, unit, wanted, keys, svc,
                 unstopped, binary, cmd>>

(* The process runs, from `boot`, where it loads what it needs, on; where  *)
(* it has an identity; where the key file is truncated and not yet written.*)
KeyWriting == {"creating", "persisting"}
Identified == KeyWriting \cup {"serving"}
Running    == Identified \cup {"boot"}

Acts == {"install", "uninstall", "start", "stop", "restart", "upgrade"}

(* What each command does, in order.                                       *)
(* Mutant: the unit is registered before its user and directory are ready. *)
InstallRegisterFirst(p) ==
  IF p = "linux" THEN <<"register", "mkdir", "useradd", "chown">>
                 ELSE <<"mkdir", "register">>

InstallSteps(p) ==
  IF p = "linux" THEN <<"mkdir", "useradd", "chown", "register">>
                 ELSE <<"mkdir", "register">>

(* Mutant: restart is a bare start.                                        *)
RestartBareStart == <<"start">>

RestartSteps == <<"stop", "start">>

Steps(act, p) ==
  [install   |-> InstallSteps(p),
   uninstall |-> <<"stop", "remove">>,
   start     |-> <<"start">>,
   stop      |-> <<"stop">>,
   restart   |-> RestartSteps,
   upgrade   |-> <<"fetch", "replace", "copied">>][act]

Bare   == [config |-> "search", log_level |-> "info"]
Idle   == [act |-> "none", opts |-> Bare, todo |-> <<>>]
NoProc == [state |-> "down", line |-> Bare, key |-> "none", stale |-> FALSE]

(* A machine before the first install.  The operator may have made the     *)
(* user and its directory by hand, as install/README.md says.              *)
ServiceInit(own) ==
  /\ platform \in Platforms
  /\ files = [p \in Places |-> IF p = "own" THEN own ELSE "none"]
  /\ \/ account = "absent" /\ workdir = "absent"
     \/ platform = "linux" /\ account = "workhome" /\ workdir = "usepod"
  /\ unit = [installed |-> FALSE, line |-> Bare, asked |-> Bare]
  /\ wanted = FALSE /\ keys = [k \in KeyFiles |-> "absent"]
  /\ svc = NoProc /\ unstopped = FALSE
  /\ binary = "whole" /\ cmd = Idle

-----------------------------------------------------------------------------
(* What install registers.                                                 *)

(* The command line of the unit: platform_contents fixes it to a bare      *)
(* `run` where it writes the unit itself; the service manager uses the     *)
(* arguments of build_install_ctx where it does not.                       *)
CommandLine(p, opts) == IF p \in {"linux", "macos"} THEN Bare ELSE opts

(* The account's own directory is out of sight of the Linux unit           *)
(* (ProtectHome, or no home at all) unless it lies in the working directory*)
HomeSeen == platform = "linux" => account = "workhome"

OwnSeen == IF HomeSeen THEN files["own"] ELSE "none"

Place(line) == FoundPath(line.config, OwnSeen # "none", files["cwd"] # "none")

KeyAt(place) == IF files[place] = "homekey" THEN "home" ELSE "work"

(* cmd_run gets as far as ws_client::run: the configuration loads, and the *)
(* key does, or can be created: one that is torn is refused.  The Linux    *)
(* unit may write in its working directory alone (ReadWritePaths), and only*)
(* if it owns it.                                                          *)
CanServe(place) ==
  /\ place # "none" /\ files[place] \in {"homekey", "workkey"}
  /\ files[place] = "homekey" => HomeSeen
  /\ platform = "linux" => workdir = "usepod"
  /\ keys[KeyAt(place)] # "torn"

-----------------------------------------------------------------------------
(* The commands.  A torn binary runs no command; the installer itself does *)
(* not need it.                                                            *)

Begin(act, opts) ==
  /\ cmd = Idle
  /\ binary # "torn" \/ act = "upgrade"
  /\ cmd' = [act |-> act, opts |-> opts, todo |-> Steps(act, platform)]
  /\ svc' = [svc EXCEPT !.stale = svc.state \in Running]
  /\ unstopped' = FALSE
  /\ UNCHANGED <<platform, files, account, workdir, unit, wanted, keys, binary>>

At(step) == cmd.todo # <<>> /\ Head(cmd.todo) = step

Proceed == cmd' = IF Len(cmd.todo) = 1 THEN Idle
                  ELSE [cmd EXCEPT !.todo = Tail(cmd.todo)]

(* A step fails, or the command is killed before it; what is done stays.   *)
GiveUp ==
  /\ cmd # Idle /\ cmd' = Idle
  /\ UNCHANGED <<platform, files, account, workdir, unit, wanted, keys, svc, unstopped, binary>>

MakeWorkdir ==
  /\ At("mkdir") /\ Proceed
  /\ workdir' = IF workdir = "absent" THEN "root" ELSE workdir
  /\ UNCHANGED <<platform, files, account, unit, wanted, keys, svc, unstopped, binary>>

AddUser ==
  /\ At("useradd") /\ Proceed
  /\ account' = IF account = "absent" THEN "nohome" ELSE account
  /\ UNCHANGED <<platform, files, workdir, unit, wanted, keys, svc, unstopped, binary>>

Chown ==
  /\ At("chown") /\ Proceed
  /\ workdir' = "usepod"
  /\ UNCHANGED <<platform, files, account, unit, wanted, keys, svc, unstopped, binary>>

(* The manager starts the process of its unit.                             *)
Spawn(line) ==
  svc' = [state |-> "boot", line |-> line, key |-> "none", stale |-> FALSE]

(* A new unit, or one over an old one.  launchd may start it at once       *)
(* (RunAtLoad).                                                            *)
Register ==
  LET line == CommandLine(platform, cmd.opts)
  IN  /\ At("register") /\ Proceed
      /\ unit' = [installed |-> TRUE, line |-> line, asked |-> cmd.opts]
      /\ \/ UNCHANGED <<wanted, svc>>
         \/ /\ platform = "macos" /\ svc.state = "down"
            /\ wanted' = TRUE /\ Spawn(line)
      /\ UNCHANGED <<platform, files, account, workdir, keys, unstopped, binary>>

Stop ==
  /\ At("stop") /\ Proceed
  /\ wanted' = FALSE /\ svc' = NoProc
  /\ UNCHANGED <<platform, files, account, workdir, unit, keys, unstopped, binary>>

(* The manager refuses: nothing is installed or running, or for a reason   *)
(* of its own.  restart and uninstall go on.                               *)
StopRefused ==
  /\ At("stop")
  /\ IF cmd.act = "stop" THEN cmd' = Idle ELSE Proceed
  /\ unstopped' = (svc.state # "down")
  /\ UNCHANGED <<platform, files, account, workdir, unit, wanted, keys, svc, binary>>

StartService ==
  /\ At("start") /\ Proceed
  /\ unit.installed
  /\ wanted' = TRUE
  /\ IF svc.state \in Running THEN UNCHANGED svc ELSE Spawn(unit.line)
  /\ UNCHANGED <<platform, files, account, workdir, unit, keys, unstopped, binary>>

(* Mutant: what is removed is still wanted.                                *)
RemoveStillWanted ==
  /\ At("remove") /\ Proceed
  /\ unit' = [unit EXCEPT !.installed = FALSE]
  /\ UNCHANGED <<platform, files, account, workdir, wanted, keys, svc, unstopped, binary>>

Remove ==
  /\ At("remove") /\ Proceed
  /\ unit' = [unit EXCEPT !.installed = FALSE]
  /\ wanted' = FALSE
  /\ svc' = IF svc.state = "waiting" THEN NoProc ELSE svc
  /\ UNCHANGED <<platform, files, account, workdir, keys, unstopped, binary>>

-----------------------------------------------------------------------------
(* upgrade pipes the installer to a shell: it downloads and verifies the   *)
(* new binary, and copies it over the old one.  A running process keeps    *)
(* the old one until it is restarted.                                      *)

Fetch ==
  /\ At("fetch") /\ Proceed
  /\ UNCHANGED <<platform, files, account, workdir, unit, wanted, keys, svc, unstopped, binary>>

Replace ==
  /\ At("replace") /\ Proceed
  /\ binary' = "torn"
  /\ UNCHANGED <<platform, files, account, workdir, unit, wanted, keys, svc, unstopped>>

Copied ==
  /\ At("copied") /\ Proceed
  /\ binary' = "whole"
  /\ UNCHANGED <<platform, files, account, workdir, unit, wanted, keys, svc, unstopped>>

Work ==
  \/ MakeWorkdir \/ AddUser \/ Chown \/ Register
  \/ Stop \/ StopRefused \/ StartService \/ Remove
  \/ Fetch \/ Replace \/ Copied

-----------------------------------------------------------------------------
(* The agent process under the manager, which starts it again whenever it  *)
(* exits (RestartPolicy::Always, RestartSec, KeepAlive), after a delay,    *)
(* unless it was told to stop.                                             *)
(* Mutant: it is left alone.                                               *)
ExitedForGood == NoProc

Exited == IF wanted THEN [NoProc EXCEPT !.state = "waiting"] ELSE NoProc

Boot ==
  LET place  == Place(svc.line)
      key    == KeyAt(place)
      starts == binary = "whole" /\ CanServe(place)
  IN  /\ svc.state = "boot"
      /\ \/ /\ starts /\ keys[key] = "whole"
            /\ svc' = [svc EXCEPT !.state = "serving", !.key = key]
            /\ UNCHANGED keys
         \/ /\ starts /\ keys[key] = "absent"
            /\ svc' = [svc EXCEPT !.state = "creating", !.key = key]
            /\ keys' = [keys EXCEPT ![key] = "torn"]
         \/ /\ ~starts
            /\ svc' = Exited
            /\ UNCHANGED keys
      /\ UNCHANGED <<platform, files, account, workdir, unit, wanted,
                     unstopped, binary, cmd>>

(* set_provider_id, on an auth_ok with an id that is new to the agent.     *)
Persist ==
  /\ svc.state = "serving"
  /\ svc' = [svc EXCEPT !.state = "persisting"]
  /\ keys' = [keys EXCEPT ![svc.key] = "torn"]
  /\ UNCHANGED <<platform, files, account, workdir, unit, wanted, unstopped,
                 binary, cmd>>

KeyWritten ==
  /\ svc.state \in KeyWriting
  /\ svc' = [svc EXCEPT !.state = "serving"]
  /\ keys' = [keys EXCEPT ![svc.key] = "whole"]
  /\ UNCHANGED <<platform, files, account, workdir, unit, wanted, unstopped,
                 binary, cmd>>

(* The body or the mode cannot be written: create_new ends the command,    *)
(* set_provider_id only the session.                                       *)
KeyFails ==
  /\ svc.state \in KeyWriting
  /\ svc' = IF svc.state = "creating" THEN Exited
            ELSE [svc EXCEPT !.state = "serving"]
  /\ \E left \in {"torn", "whole"} : keys' = [keys EXCEPT ![svc.key] = left]
  /\ UNCHANGED <<platform, files, account, workdir, unit, wanted, unstopped,
                 binary, cmd>>

Crash ==
  /\ svc.state \in Identified /\ svc' = Exited
  /\ UNCHANGED <<platform, files, account, workdir, unit, wanted, keys,
                 unstopped, binary, cmd>>

Respawn ==
  /\ svc.state = "waiting" /\ Spawn(unit.line)
  /\ UNCHANGED <<platform, files, account, workdir, unit, wanted, keys, unstopped, binary, cmd>>

(* The machine is started again: an installed service is enabled           *)
(* (autostart), even if it had been stopped.                               *)
Reboot ==
  /\ IF unit.installed THEN Spawn(unit.line) ELSE svc' = NoProc
  /\ wanted' = unit.installed /\ unstopped' = FALSE /\ cmd' = Idle
  /\ UNCHANGED <<platform, files, account, workdir, unit, keys, binary>>

(* The operator puts a configuration there, or takes it away.              *)
Edit(place, content) ==
  /\ files[place] # content
  /\ files' = [files EXCEPT ![place] = content]
  /\ UNCHANGED <<platform, account, workdir, unit, wanted, keys, svc, unstopped, binary, cmd>>

(* The operator takes away a key file that no command will load.           *)
RemoveKey(key) ==
  /\ keys[key] = "torn"
  /\ ~(svc.state \in KeyWriting /\ svc.key = key)
  /\ keys' = [keys EXCEPT ![key] = "absent"]
  /\ UNCHANGED <<platform, files, account, workdir, unit, wanted, svc,
                 unstopped, binary, cmd>>

ServiceNext ==
  \/ \E opts \in Options : Begin("install", opts)
  \/ \E act \in Acts \ {"install"} : Begin(act, Bare)
  \/ Work \/ GiveUp
  \/ Boot \/ Persist \/ KeyWritten \/ KeyFails \/ Crash \/ Respawn
  \/ \E key \in KeyFiles : RemoveKey(key)
  \/ \E w \in Writes : Edit(w[1], w[2])

(* Fairness: a process gets to run, and the manager's delay elapses.       *)
ServiceFairness ==
  WF_serviceVars(Boot \/ KeyWritten) /\ WF_serviceVars(Respawn)

-----------------------------------------------------------------------------
(* Type correctness.  Only a service that is installed is wanted, only a   *)
(* wanted one is waited for, and the steps of a command are a tail of its  *)
(* list.                                                                   *)
ServiceTypeOK ==
  /\ platform \in Platforms
  /\ files \in [Places -> Contents]
  /\ account \in {"absent", "nohome", "workhome"}
  /\ workdir \in {"absent", "root", "usepod"}
  /\ wanted => unit.installed
  /\ keys \in [KeyFiles -> {"absent", "whole", "torn"}]
  /\ svc.state \in Running \cup {"down", "waiting"}
  /\ svc.state = "waiting" => wanted
  /\ svc.key \in KeyFiles <=> svc.state \in Identified
  /\ unstopped \in BOOLEAN
  /\ binary \in {"whole", "torn"}
  /\ cmd.todo # <<>> <=> cmd.act \in Acts

(***************************************************************************)
(* What the Linux unit names exists whenever the unit does: its user, and  *)
(* its working directory in that user's hands, so that systemd never fails *)
(* with CHDIR or USER; however often install was cut off, repeated, or run *)
(* over the remains of another.                                            *)
(***************************************************************************)
UnitReady ==
  unit.installed /\ platform = "linux" => account # "absent" /\ workdir = "usepod"

(***************************************************************************)
(* restart gives a new process, with the unit and the binary of now, and   *)
(* uninstall leaves none, except for one reason: the manager refused to    *)
(* stop the old one, which neither command reports.                        *)
(***************************************************************************)
StopFailureOnly ==
  [][(cmd.act = "restart" /\ StartService) \/ Remove =>
       \/ unstopped
       \/ svc'.state = "down"
       \/ cmd.act = "restart" /\ ~svc'.stale]_serviceVars

-----------------------------------------------------------------------------
(* README.md:49 "`service install` propagates the surrounding `--config`   *)
(* and `--log-level` flags (when non-default) into the generated service   *)
(* entry".                                                                 *)
OptionsPropagated == unit.installed => unit.line = unit.asked
=============================================================================
