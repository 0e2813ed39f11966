# usepod-agent: TLA+ specifications

The provider agent connects a machine that runs inference backends to the Use
Pod coordinator: it authenticates with a key of its own, tells the coordinator
which models its backends serve, and executes the jobs the coordinator sends
over one WebSocket.  The modules in this directory model what the agent does in
between, TLC checks them on small instances, and TLAPS proves the main safety
results for every value of the constants.

Paths below are relative to the crate, `src/src/` in this checkout; `map` in
`PROJECT.json` gives the lines each definition stands for.

## 1. Inventory of the system

| Part | Source | State it keeps | Operations |
|---|---|---|---|
| Session read loop | `ws_client.rs` 232-304 | the WebSocket sink, the outbound channel (64 frames) | pump one frame, route `job` and `job_cancel`, end the session |
| Job executor | `job_executor.rs` | `in_flight`, the `active` table, the routes; per job a driver task with `bytes_sent` | `dispatch`, `cancel`, `send_chunk`, the driver's terminal frame |
| Heartbeat | `heartbeat.rs` | a ticker | one frame per tick into the shared channel |
| Connection | `ws_client.rs` 88-230 | `backoff_ms`, `consecutive_failures` | dial, handshake, enrolment, reconnect |
| Identity | `identity.rs` | the key file, the identity in memory | `load_or_create`, `set_provider_id` |
| Discovery | `discovery.rs` | none between passes | a pass over the configured backends, the deduplicated model list |
| Backend relay | `backend/http.rs`, `ws_client.rs` 266-343 | per call the pending text and the usage | parse the frame, prepare the request, relay the bytes, parse the usage events |
| Backend adapters | `backend/*.rs` | an HTTP client each | `health`, `list_models` with its second request for the context windows |
| Config | `config.rs` | none | `load`, `validate` |
| Setup | `setup.rs` | the pairing, `agent.toml` | probe, issue, poll, write the configuration |
| Service | `service.rs` | the unit, its user and working directory, the process the service manager runs | install, uninstall, start, stop, restart (status and logs only print) |
| Command line | `main.rs` | the binary, under `upgrade` | `cmd_run`, `cmd_enroll`, `cmd_setup`, `cmd_service`, `cmd_upgrade` |

**How they interact.**  `cmd_run` loads the configuration and the identity and
calls `ws_client::run`, a loop of `connect_once` and a sleep.  `connect_once`
authenticates, runs discovery, advertises the models, builds a `JobExecutor`
and then is the *read loop*: one `select!` over the outbound channel (the write
pump) and the inbound stream.  The read loop calls `dispatch` and `cancel`
inline.  `dispatch` spawns one *driver task* per job; the drivers, the
heartbeat and `send_error` all send into the outbound channel whose only
receiver is the read loop.  The counter and the table are shared between the
read loop and the drivers.  `enroll` and `setup` are other processes on the
same machine that share the key file, and `setup` writes the `agent.toml` that
`run` loads.  `service install` makes `run` a process of the service manager,
which starts it again whenever it exits; `upgrade` replaces the binary under it.

**What is hard.**

- *Concurrency.*  The runtime has several threads.  A driver may run to its end
  before `dispatch` has recorded its handle; `abort` does not stop a task that
  is being polled; slot, table entry and terminal frame of a job are released
  in three separate steps.
- *A bounded channel with its reader among its writers.*  The read loop both
  drains the channel and, in `send_error`, waits for room in it.
- *Time.*  The deadline of a job, `SEND_TIMEOUT` of a chunk and the backoff of
  the reconnect loop.  Nothing the agent does with its WebSocket has a time limit:
  not `connect_async`, nor `recv_json`, nor a write to the sink.
- *Crashes and failed writes.*  The key file is truncated and then written, with
  the only copy of the key in it; memory changes before the disk.
- *Several processes* race to create the key file.
- *Two lists that must agree.*  The advertised models and the routes come from
  two loops with different rules over the same answers.
- *Reconnects.*  Tasks outlive their session; the next one starts from zero.
- *Many small requests and steps, each of which may fail.*  A discovery pass makes
  up to three requests per backend; an install is four changes to the machine; a
  restart is a stop whose result is dropped and a start.
- *Numbers of other people.*  Deadlines, token counts and context windows arrive
  as 64-bit JSON numbers and leave as `u32`.

**What makes each part correct.**

| Part | Properties |
|---|---|
| Job executor | an answer is ordered chunks, then at most one terminal frame that is true of them; nothing ends silently; slots are counted exactly; a cancel finds its job; every job is answered if the coordinator reads |
| Sessions | what a dead session left behind takes at most one more chunk from its backend, and ends |
| Connection | the agent keeps trying, unless it waits for the other end; the backoff law; the code is not sent after enrolment |
| Identity | no more keys than commands, one for an agent alone; reloads |
| Discovery | the advertised list is the priority rule; advertised means executable and allowed; jobs go where the model is advertised from |
| Backend adapters | a failed request drops a backend or a window, never half a list; no advertised window is more than the engine enforces |
| Backend relay | bytes unchanged; the usage does not depend on how HTTP cuts the body; every answer is metered unless the coordinator opted out; a deadline is never prolonged |
| Setup and Config | the file is touched only after an activation, is of one piece, and loads exactly if what was delivered is good; activated models have the operator's price, all others the default; setup ends |
| Service | a unit never names what is not there; restart and uninstall replace and end the process; a machine that was paired serves, again and again, as long as its key file is whole |

## 2. Modules

| Module | Models | Used by |
|---|---|---|
| `JobProtocol` | abstract: what the coordinator is promised about each job | `JobExecutor` (refinement) |
| `JobExecutor` | read loop, drivers, channel, counter and table of one session | `MCJobExecutor`, `Sessions`, `JobExecutorProofs` |
| `Sessions` | two `JobExecutor` instances, one session after the other | `MCSessions`, `SessionsProofs` |
| `Identity` | the key file and the identity of each process; no `Next` of its own | `Connection` |
| `Connection` | `run` and `connect_once` of the agent, beside other commands | `MCConnection`, `ConnectionProofs` |
| `Discovery` | the loops from the configuration to the model list and the routes | `Serving` (refinement), `MCDiscovery`, `ServingProofs` |
| `Adapters` | operators: the context window each engine's adapter reports | `Serving` |
| `Serving` | a discovery pass request by request | `MCServing`, `ServingProofs` |
| `Inbound` | operators: from a frame to the request of the engine and its timers | `Relay` |
| `UsageStream` | the relay of one answer with its usage parser | `Relay` |
| `Relay` | one job from its frame to the end of its stream | `MCRelay`, `RelayProofs` |
| `Config` | operators: what `load` accepts, which file it takes, the price of a model | `Setup`, `Service` |
| `Setup` | the pairing command and its coordinator | `Deployment` |
| `Service` | the service commands, `upgrade`, and the process under the service manager | `Deployment` |
| `Deployment` | `Setup` and `Service` on one machine with reboots | `MCDeployment`, `SetupProofs`, `ServiceProofs` |
| `*Proofs` | theorems: `JobExecutorProofs`, `JobPromiseProofs`, `SessionsProofs`, `ConnectionProofs`, `ServingProofs`, `RelayProofs`, `SetupProofs`, `ServiceProofs` | |

A comment that starts with "Mutant" introduces an operator that is *not* part
of the specification.  It is the definition after it with a plausible bug in
it; `PROJECT.json` says which property must fail when it replaces the real one.

### JobExecutor

| Model | Code |
|---|---|
| `in_flight` | the `AtomicU32`; arithmetic modulo `CounterSize` |
| `active` | the mutex-protected map from job id to `JoinHandle`; the handle is named by its request |
| `loop`, `cur`, `code` | where the read loop is inside `select!`, `dispatch`, `send_error`, `cancel`; `write` while it waits in `sink.send`, for a frame (`Pump`) or a Pong (`Pong`), until the peer has read enough (`Written`) |
| `phase[r]` | where driver `r` is: `exec` (in the backend), `chunk` (in `send_chunk`), `final` (sending the terminal frame), `release`, `remove`, `done`, `dropped` |
| `abort[r]` | `racing`: aborted while a worker was polling it, so it goes on until it next waits; `doomed`: aborted while suspended |
| `emitted`, `sent`, `final` | chunks handed to `send_chunk`; `bytes_sent`, one unit per chunk; the frame the driver built |
| `chan`, `open` | the mpsc channel; whether its receiver lives |
| `log`, `freed` | history: the frames accepted per job; who released each slot |

A step is the code between two accesses of shared state.  Acceptance is one step
because the increment and the spawn have nothing shared in between; refusal is
three, as the counter is visibly too high until it is undone.  The read loop
runs `dispatch` and `cancel` to their end before it selects again, so only
drivers interleave with them.  The backend may emit chunks, finish or fail at
any time; `Deadline` and `ChunkFailed` (`SEND_TIMEOUT`) are timers that may fire
whenever their condition allows.

### Connection and Identity

`conn` is the await at which `run` and `connect_once` are; `step[p]` is the step
of `load_or_create` or `set_provider_id` in which process `p` is; `file` is
absent, torn or whole.  A write is two steps, open with truncation and body
with mode, and either may fail or be cut off by a crash, with the outcome the
file system gives.  Keys are numbered by birth.  The coordinator may send
anything or nothing: `AttemptFails` is enabled at every await of the handshake
and no fairness forces the frame that is due.  The jitter of the sleep is left
out: it changes no state.

### Discovery

`offered[b]` is the list one backend contributes: what it listed, cut down to
its allow-list and to the models with a price, or nothing if it was dropped.
`advertised` and `routes` are the results of the two later loops.  A pass is
made on every connection, and the answers are chosen anew.

### Serving and Adapters

`asking` is the request the walk of `discovery::run` is at: `build` (the key of a
remote backend may be missing), `health`, `list`, `probe` (the second request of
`llamacpp`, `lmstudio` and `ollama`), `resolve` (the filters).  Each request may
fail; `Dropped` is the `continue` of the loop.  The models, and the engine that
answers, are chosen when the answer arrives.  An engine is a record of the window
it enforces, the one its model was trained with, and whether the model is loaded;
`Adapters` says which of these each kind tells, in which field, and what
`or_else`, `filter` and `as u32` make of it.  One answer stands for all models of
a backend, and Ollama's request per model is one request.

`ImplementsDiscovery` is the refinement: `Discovery` takes one step per backend,
`Serving` a step per request, and their shared variables are the same ones.

### Inbound, UsageStream and Relay

`Inbound` is pure: `Routed` is the match of `handle_inbound_text`, `Parsed` is
`parse_job` with the cast of the deadline, `DriverLimit` and `UpstreamLimit` are
the two timers made from it, `Prepared` the request after its three insertions.
A body is a sequence of symbols: event prefix, braces, usage entries, newline,
carriage return, the halves of a multi-byte character.  `Arrive` takes any
number of further symbols, so every way to cut the body is explored; the lossy
decoding of a chunk is modelled by what it does to half a character.

`Relay` puts the two together with an engine: it takes objects only, streams if
it is asked to, and has the usage in its last event if it is asked for that
(`Answers`).  That is what `Metered` needs, and it is an assumption about engines
that speak the OpenAI dialect.

### Setup and Config

| Model | Code |
|---|---|
| `toml` | the file on disk: absent, torn or whole, and what it contains; as history whether setup wrote it, for which `--coordinator` (`args`) and from which delivery (`sent`) |
| `pc`, `args`, `backends` | where the command is, its argument, the backends it found |
| `active` | the `ActivePairing`: the models `poll_until_active` made of `model_config` (`ActivatedModels`: none at all if one entry does not parse), and whether the texts copied into the file are ones TOML reads |
| `pairing` | external: the code the running command was issued, with its status and what the operator's activation delivers |

`Activate` and `Expire` are the coordinator's: a code is pending, then active with
any of the deliveries in `Activations`, or expired.  A code nobody polls any more
has no effect and is forgotten.  `Ends` is every way the command may end early: a
failed request, an error status, a malformed answer, a kill.  `Config!Loads` is
what `toml::from_str` and `validate` demand of the parts of a configuration setup
writes; `PriceOf` and `Dropped` are what discovery makes of its prices.

### Service and Deployment

| Model | Code |
|---|---|
| `cmd` | the command that runs and the steps it has left: the calls of `install`, `stop`, `restart`, ..., and of `install.sh` under `upgrade`, in order; `GiveUp` is a failed step or a kill |
| `unit` | the entry the service manager keeps; its command line is the one `platform_contents` writes (Linux, macOS) or `build_install_ctx` passes on (Windows) |
| `account`, `workdir` | the user of the Linux unit and the owner of its working directory |
| `files` | the `agent.toml` of the service's account, of the working directory, at `--config` |
| `svc`, `wanted` | the process, and whether the manager keeps it running; `boot` until it has configuration and key, `creating` and `persisting` while it writes the key file |
| `keys` | the key file in the home of the account and the one in the working directory: absent, whole or torn |
| `unstopped` | history: the last command's stop was refused by the manager |
| `binary` | whole, or half copied |

The service manager is external.  It honours the unit and the install context
(run-as user, working directory, autostart, restart policy), on launchd also
`RunAtLoad`; it remembers a stop; a Linux unit sees no home but one that lies in
its working directory (`ProtectHome`) and writes only there (`ReadWritePaths`).
`CanServe` is what `cmd_run` needs to get as far as `ws_client::run`: a
configuration that loads and a key file that loads or may be created.  `Boot` then
serves, creates the key, or exits; `Persist` is `set_provider_id` on an `auth_ok`
with a new id.  Both truncate the file, and a crash, a reboot or a failed write
leaves it torn until the operator removes it (`RemoveKey`).

`Deployment` shares two files between the two: `files["own"]` is what a
service makes of the `agent.toml` that `Setup` has written, step by step with the
write, and the key file in the home is the one setup loads or creates before all
else (it refuses a torn one, and may be cut off while it creates it,
`SetupKeyTorn`).  It assumes that setup is run under the account of the service, and that the operator
runs one command at a time (`OneTerminal`); a reboot ends whatever runs.  Windows
takes part only in `service_args`, for the command line of its entry.

### Sessions

Both sessions are full instances of `JobExecutor`.  The second may start any
time after the first has closed, while drivers of the first still run.  `left` is
history: how many chunks each task of the first had taken when it closed.

## 3. Runs

Passing runs (symmetry is used in `capacity` only, where all frames are alike
and all properties are state invariants).

| Run | Instance | Shows |
|---|---|---|
| `streams` | 3 frames, one repeated job id, one model without route, limit 2, channel of 1, 1 chunk each | `TypeOK`, `FrameOrder`, `TerminalTruthful`, `NoSilentEnd`; `JobExecutor` implements `JobProtocol` |
| `capacity` | 4 frames, limit 2, channel of 1 | `SlotLedger`, `OvercommitBounded`, `CancelFindsJob` |
| `progress` | 3 frames, limit 2, one model without route, with fairness | `JobAnswered`, `TasksDrain` |
| `reconnects` | a job per session with the same id, 2 chunks, with fairness for the first session's tasks | `OrphanStops`, `OrphansEnd` |
| `handshake` | the agent beside one `enroll`, up to 3 keypairs, 2 provider ids, code configured, with fairness | `TypeOK`, `KeysBounded`, `BackoffLaw`, `CodeNotReplayed`, `KeepsTrying` |
| `serving` | every list of up to 2 of 6 kinds of backend, with and without allow-list, and lists of 3 where kinds repeat; 3 models, one without a price; 4 engines | `TypeOK`, `AdvertisedBest`, `RoutesServeAdvertised`, `RoutesFollowPriority`, `WindowHonest`; `Serving` implements `Discovery` |
| `relay` | frames with every mix of missing fields, `stream`, `stream_options` and `model`, 7 deadlines; bodies of up to 3 lines of 7 texts, every cut | `RelayTypeOK`, `UsageOfBody`, `RelayedVerbatim`, `Metered`, `DeadlineKept` |
| `deployment` | Linux and macOS, 2 schemes, 5 deliveries, any number of setups; all service commands, upgrades, kills, reboots, key files created, rewritten, torn and removed, an edited file; with fairness | `TypeOK`, `PairedConfigLoads`, `PricesAreTheOperators`, `TouchedOnlyWhenPaired`, `SetupEnds`, `ServiceTypeOK`, `UnitReady`, `StopFailureOnly`, `PairedMachineServes` |

**Bounds, and why they are enough.**

- `ChanCap = 1` makes a full channel, on which all the hard cases depend, one
  step away; a larger channel only postpones it.
- `MaxConcurrent = 2` with four frames lets two jobs run, two slots be released
  twice and two more jobs be admitted in their place.  With three frames the
  overcommit that `OvercommitBounded` bounds could not occur twice.
- `MaxChunks` is 1 where order is checked beside refinement (a chunk sent, one
  lost, one after it) and 2 in `reconnects`, where `OrphanStops` is about the
  second one; it is 0 where chunks do not touch the property.
- `CounterSize` (16 or 8) stands for 2^32: larger than any honest count in the
  instance, small enough for the wrap at zero to be the same.
- `MaxFailures = 8` saturates `consecutive_failures`: 1 s doubles into the cap
  of a minute at the sixth, so the law is flat beyond.
- `MaxKeys` is one more than the processes: 3 for two commands.  The
  agent beside *one* other command has every race two writers of the file can
  have; the theorems are for any number.
- Setup needs no bound: of the codes the coordinator issues only the one the
  running command polls is kept, so that any number of setups may follow each
  other over the same file.
- `U32 = 8`, `Span = 8` with 8, 9 and 14 among the values: the first numbers
  that do not fit, and one that wraps beyond the floor of the request's timer.
- Three backends are the least for the second of three to win and the third to
  tie with it.  Where the requests of each are interleaved with failures
  (`serving`), lists of three are made of three entries, a vLLM, an Ollama and a
  remote one with an allow-list, so that priorities differ and repeat.
- The engines of `serving` enforce a window below or beyond 2^32 and have the
  model loaded, not loaded, or answer `null`.
- Each delivery of `deployment` is one hazard: two models, one of them without a
  price (a file that loads); a first limit that `load` refuses; a price beyond
  TOML's integers (`TomlMax`, 2^63 - 1 in the code, just above the default price
  here); a model activated twice; a `model_config` that does not parse.  The scheme
  `HTTPS` and texts TOML cannot read are left to the theorems, which cover them.
- Service commands need no bound: they leave no counter behind.

`CHECK_DEADLOCK FALSE` is set where the system may stop for good: a session
that is closed and drained, a relay that ended, keypairs used up.

**Fairness.**

- `JobExecutor`: weak fairness for the steps the runtime owes to a task that is
  ready (`DispatchInsert`, `RejectRelease`, `CancelAbort`, `Release`, `Remove`,
  `Drop`), for the deadline timer, and for `SendError`, the read loop's own wait.
  Strong fairness for `Pump` and for `SendFinal`: `select!` picks a ready branch
  at random, so the pump branch is not starved by inbound frames, and tokio's
  semaphore serves waiting senders first come, first served.  `Pump` only hands a
  frame to the sink; that the write returns (`Written`) is up to the coordinator and
  *not* fair.  What depends on it says so: `JobAnswered` has the premise
  `PeerReads`, that the read loop is out of its writes again and again.
  `TasksDrain` has no such premise.  Nothing is assumed of the backend or the
  heartbeat.
- `Connection`: weak fairness for the steps the agent takes alone (the identity,
  its writes, discovery, whose requests have timeouts, and the sleep).  The dial,
  the frames of the handshake and the advertisement are *not* fair, neither to
  succeed nor to fail: `connect_async`, `recv_json` and `sink.send` have no timeout.
  `KeepsTrying` says that a new dial begins again and again unless the agent stays
  without an identity or stays for ever in one of these awaits (`Waits`).
- `Sessions`: the task fairness of `JobExecutor` for the first session; none
  for the second, so `OrphansEnd` does not depend on it.
- `Setup`: weak fairness for the steps of the polling and writing command, whose
  requests have a timeout of 30 s, and for `Expire`: a pending code expires (ten
  minutes at the coordinator).  The operator owes nothing.
- `Deployment`: the fairness of `Setup`, and weak fairness for `Boot` and
  `KeyWritten` (a process the manager started gets to run, and a write it began to
  return) and `Respawn` (`RestartSec` or launchd's throttle elapses; the restart
  policy is *always*).  No command of the operator is fair, the removal of a torn
  key file included.  `PairedMachineServes` states on which conditions that last
  for ever the machine must serve again and again.
- `Serving` and `Relay` make no liveness claim: whether an engine answers is not
  up to the agent.

## 4. Findings: runs that end in a violation

Each checks one statement of the source's own comments.

| Run | Statement | What the run shows |
|---|---|---|
| `overcommit` | "Concurrency is bounded by `limits.max_concurrent`" (`job_executor.rs:10`) | a job cancelled while it completes is released by the driver and by `cancel`; three jobs run with a limit of 2 |
| `dispatch_wedge` | "Never blocks the caller" (`:100`) | `send_error` waits for room in the channel that only its caller drains |
| `remote_first` | "Local backends already win priority" (`job_executor.rs:52`) | with a remote backend first in `agent.toml`, it gets the jobs of a model a local one serves |
| `service_args` | "`service install` propagates the surrounding `--config` and `--log-level` flags [...] into the generated service entry" (`README.md:49`) | the units the agent writes itself (Linux, macOS) start a bare `run`, whatever install was given |

The passing properties say how far the damage goes: `SlotLedger` and
`OvercommitBounded` that double releases are the *only* source of a wrong count
and each costs at most one job; `CancelFindsJob` that handles are never missing,
only stale; `JobAnswered` that the wedge is the only way a job goes unanswered
while the coordinator reads, there being no promise to one that does not;
`FrameOrder` and `TerminalTruthful` that even a late terminal frame is in order
and true; `OrphanStops` and `OrphansEnd` that an orphan takes one more chunk at
most and ends;
`KeysBounded` and `CodeNotReplayed` what two commands that race for the key file,
and crashes while it is written, can and cannot do; `StopFailureOnly` that a
refused stop is the only way for an old process to survive a restart.

Some steps of the code that the models contain follow from the same causes or
need a condition a property names.  They have no run of their own:

- A job that is cancelled while it completes, with no other job in flight, wraps
  `in_flight` (`job_executor.rs:210` and `:225`); the jobs after it are refused.
- A driver that finishes before `dispatch` inserts its handle (`:147`, `:214`)
  leaves an entry in the table; a late `job_cancel` then releases its slot again.
- A task that is being polled when it is aborted may still send its terminal
  frame (`:224`), against the comment that the abort suppresses it (`:218-219`).
- A coordinator that keeps the connection and stops reading suspends the read loop
  in `sink.send` (`ws_client.rs:251`, `:261`): cancels, the close and the terminal
  frames wait with it, while `SEND_TIMEOUT` gives up chunks only.
- A coordinator that is silent in the dial or the handshake (`ws_client.rs:144`,
  `:345`) keeps the agent from ever dialing again.
- Drivers of a dead session and those of the next one together may exceed
  `max_concurrent` (`ws_client.rs:273`).
- A crash between the truncation and the write of the key file loses the key
  (`identity.rs:196`), against the "idempotent reload" of `identity.rs:2`: the
  agent then refuses to start until the operator removes the file.
  `Service` has the torn key file too: a machine under the service manager stops
  serving until then, and `PairedMachineServes` has a sound key file as its premise.
- When the write of the provider id fails, memory has it already
  (`identity.rs:38`); the next connection does not write it.
- Setup says the machine is paired and leaves an `agent.toml` that `load` refuses
  when the coordinator was not given as `https`, when the first model's limit is
  outside 1..256, a model is activated twice, a price does not fit an `i64`, or a
  text it copies is not what TOML reads (`setup.rs:404-450`; `{:?}` escapes are
  Rust's).  `PairedConfigLoads` says that these are all.
- A model activated without a price is written with price 0, which `load` accepts
  and discovery drops (`setup.rs:202`, `discovery.rs:180`).
- One malformed entry makes the whole `model_config` an empty list
  (`setup.rs:254-258`): the file has no price of the operator, all models are
  advertised at the default, and setup says it is paired.
- No list of models is written for a backend (`setup.rs:424-428`): what it serves
  and the operator did not activate is advertised at the default price.
- The token counts are what the engine reports, which `http.rs:103-104` calls
  advisory; `Metered` says that they reach the coordinator, not what it bills.
- A deadline of 2^32 ms or more wraps to a short one (`ws_client.rs:329`);
  `DeadlineKept` says that no deadline is prolonged.
- `restart` drops the result of its stop, and the start of a running service
  succeeds (`service.rs:99`): the old process may stay.
- The Linux unit hides the homes (`service.rs:220`), and both the configuration
  setup writes and the default key path lie in the home of the account.  A machine
  paired by `setup` serves under systemd only if the home of `usepod` is its
  working directory, as `install/README.md:79` makes it and `service install` does
  not.  `install/README.md:153` has the unit pin the key to its working directory;
  the code's default is `~/.usepod-agent/identity.key`.
- A `model` in the coordinator's request wins over the `model_id` the job was
  routed by (`http.rs:122`).
- A `job` frame that does not parse is logged and never answered
  (`ws_client.rs:291`).
- `job.format` is carried to the backend and never used, although
  `backend/mod.rs:69` says the agent picks a backend by it.

## 5. Proofs

All are checked by TLAPS without assumptions beyond the named `ASSUME`s of the
modules, which TLC evaluates on each instance.  Each is a theorem of the
specification named, for every value of the constants.

| Theorem | States |
|---|---|
| `JobExecutorProofs` (`Spec` of `JobExecutor`: any set of frames, job ids with repetitions, limit, channel capacity, counter width) | |
| `TypeCorrect` | `[]TypeOK` |
| `AnswersOrdered`, `AnswersTruthful` | `[]FrameOrder`, `[]TerminalTruthful` |
| `JobPromiseProofs` (as above) | |
| `NoJobEndsSilently` | `[]NoSilentEnd` |
| `CancelFindsEveryJob` | `[]CancelFindsJob` |
| `ExecutorImplementsProtocol` | `ImplementsProtocol`: the refinement of `JobProtocol` |
| `SlotsAreCounted`, `OvercommitIsBounded` | `[]SlotLedger`, `[]OvercommitBounded` |
| `SessionsProofs` (`Spec` of `Sessions`: two sessions with any frames, limit and channel) | |
| `EachSession` | `Old!Spec /\ New!Spec`: each session is a `JobExecutor` |
| `PromisesOutliveReconnects` | in both, `FrameOrder`, `TerminalTruthful`, `NoSilentEnd`, `CancelFindsJob` |
| `OrphansStop` | `[]OrphanStops` |
| `OverloadIsBounded` | both together run at most `2 * MaxConcurrent` jobs and the slots released twice |
| `ConnectionProofs` (`Spec` of `Connection`: any finite set of processes that share the key file) | |
| `ConnectionTypeCorrect` | `[]TypeOK` |
| `KeysNeverExceedCommands` | `[]KeysBounded` |
| `OneKeyForEver` | at most one key is ever used by an agent alone on its machine |
| `CodeNeverReplayed` | `CodeNotReplayed` |
| `BackoffIsLawful` | `[]BackoffLaw` |
| `ServingProofs` (`Spec` of `Discovery`: any set of models and list of backends) | |
| `DiscoveryTypeCorrect` | `[]TypeOK` |
| `AdvertisedByPriority`, `AdvertisedIsServed`, `PriorityOrderIsFollowed` | `[]AdvertisedBest`, `[]RoutesServeAdvertised`, `[]RoutesFollowPriority` |
| `ServingProofs` (`ServingSpec` of `Serving`: also any listings, engines and widths) | |
| `ServingImplementsDiscovery` | `ImplementsDiscovery`: the refinement of `Discovery` |
| `AdvertisedWindowsHonest` | `[]WindowHonest` |
| `RelayProofs` (`RelaySpec`: any frames, streams of any length, widths and timers) | |
| `RelayTypeCorrect`, `RelayIsVerbatim`, `DeadlineIsKept` | `[]RelayTypeOK`, `[]RelayedVerbatim`, `[]DeadlineKept` |
| `UsageIsOfTheBody`, `AnswersAreMetered` | `[]UsageOfBody`, `[]Metered` |
| `SetupProofs` (`DeploymentSpec`: any engines, schemes and deliveries) | |
| `SetupTypeCorrect`, `TouchedForActivations` | `[]TypeOK`, `TouchedOnlyWhenPaired` |
| `PairedConfigsLoad`, `OperatorsPrices` | `[]PairedConfigLoads`, `[]PricesAreTheOperators` |
| `DeploymentImplementsSetup` | `Spec` of `Setup`: the machine around it changes nothing about it |
| `ServiceProofs` (`DeploymentSpec`: any options and files) | |
| `ServiceTypeCorrect`, `UnitAlwaysReady`, `OnlyStopFailures` | `[]ServiceTypeOK`, `[]UnitReady`, `StopFailureOnly` |

**Job executor.**  `TypeOK` is inductive; it is proved in two parts, without and
with sequences.  `FrameOrder` and `TerminalTruthful` are not: they say nothing
of a driver that has not answered yet.  `StreamInv(r)` ties the phase of driver
`r` to its counters: in `exec` everything emitted was sent, in `chunk` all but
one, in `final` the frame at hand is true of what was sent, and there is no
answer before `release`.  `RefusalInv` adds that a job being refused has an
empty log, which `send_error` needs.  Two lemmas, `AppendChunk` and
`AppendTerminal`, say what a frame does to an answer; `StreamKept` and
`DriverLocal` say that a step for one job leaves the invariant of the others
alone; then each action has one step.

**The promises of the job executor.**  Each builds on that invariant.
`NoSilentEnd` follows from `EndInv`: a driver past its terminal frame has
answered, and only an aborted one is dropped.  `CancelFindsJob` speaks of the
moments when the read loop selects; between them the handle may be in its hand,
which is what `FoundInv` adds.  The refinement compares what a step does to the
view of each request (`Same`): `HandleInv` (a handle in the table is one of a job
that was accepted) is needed for `cancel`, `OpenInv` for the end of a session.
`SlotLedger` cannot be proved alone, because it is silent once a slot has been
released twice.  `SlotInv` says who may have released what, and `CountInv` that
at all times `in_flight` is congruent, modulo its width, to the jobs that hold a
slot, plus the refusal under way, minus the slots released twice.  Admission
compares that remainder with the limit; an increment, a release, a first and a
second release each change both sides alike.  The set of frames may be infinite:
only the accepted ones are shown to be finite.

**Sessions.**  A step of `Sessions` is a step of one session and leaves the other
alone, so each implements `JobExecutor` (`EachSession`), and `JobPromiseProofs` is
instantiated for the variables of each: what it proves once holds before and after
a reconnect, with orphans running and ids repeated.  `OrphanStops` compares
with the moment the session ended, so it needs an invariant of its own:
`OrphanInv` says that a task has since taken no chunk, or one, after which it is out
of its backend call, because the closed channel fails the send whatever was queued
before.  `OverloadIsBounded` adds
up `OvercommitBounded`; it needs that the jobs in question are finitely many, which
`Countable` says.

**Connection.**  A key is *known* when some command was given it or the file
holds it; a command is *creating* between its test for the file and its last
write.  `FreshInv`: the keys of creating commands are unknown and pairwise
distinct, and whoever holds an identity holds a key in use.  `CountInv`: the
known keys and the creating commands together are no more than the processes.
`KeysBounded` alone is not inductive: nothing in it relates a key to the command
that may still produce it.  `CountInv` is, because a step either makes no key
known, or turns one creating command into one known key (`KnownStep`), or starts
to create while no file exists, when no key is known at all.  A torn file stops
an agent but never makes it generate again, which is why crashes do not break
it.  `CodeInv`: once a key is enrolled, its provider id is in the file whenever
that is whole and holds the key, and in the agent's memory; another command
cannot overwrite it with a bare copy, because what it writes is fresh.
`BackoffLaw` speaks of the moment of the sleep.  `BackoffInv` adds what the delay is
while the agent is connecting or serving, when `consecutive_failures` has yet to be
counted up or reset.  The law is a table of seven delays, whose last one is the cap;
`Doubling` is its one step, `Saturated` that it stays there.

**Discovery.**  `DedupedTo(n)` and `RoutedTo(n)` speak of the first `n` backends;
each loop extends its own by one backend.  `DedupedTo` must say more than
`AdvertisedBest`, namely that among equals the *first* is kept (strictly lower
priority number than every earlier one): without it `RoutesFollowPriority`,
which compares with the first offering backend, would not follow.

**Serving.**  The refinement needs only that the models at hand are models
(`ListedTyped`): each way to drop a backend and the last request of the others is
a step of the walk of `Discovery`, everything before is a stutter.  `WindowInv`
bounds the window of each backend that offers a model, when it takes its place in
the result (casts only make a number smaller); `WindowHonest` then follows from
`RoutesFollowPriority`, inherited through the refinement, as the backend
advertised from is the one the job goes to.

**Relay.**  `Position`: what was relayed is the prefix of the body that has
arrived, up to the chunk at hand.  `Call`: until there is an answer, the job is
the parse of the frame.  `Parser` bounds the counts and says that `push` leaves
no complete line behind; the first newline exists as the least of a non-empty set
of naturals.

`UsageOfBody` compares the parser, which keeps the last value it has seen, with the
last count among *all* lines of the body.  `Reading` is the invariant: what is
pending is what follows the last newline consumed, but for what the decoding did to
it (`Similar`), and the usage is that of the lines before it (`WellRead`).  Each
`DrainLine` moves the newline by one line (`OneLineMore`), so no induction over the
body is needed: the steps of the parser are the induction.  That a line means the
same after a lossy decoding of its pieces is `TrimmedAlike` and `AlikePicked`: half
a character is never a brace, an entry or a newline.  `Metered` follows with `Asked`:
the request that is posted is the one `Prepared` makes, and an engine that was asked
puts a count into its answer.

**Setup.**  The command gathers what it writes over several requests.
`CommandInv` ties what it has in hand to the pairing it works on: a command that
writes has the models of the delivery its code was activated with.  `FileInv` ties
the file to the delivery it came from, of which it is a rendering.
`PairedConfigLoads` is an equivalence: `SetupLoads` takes the rendering apart and
shows of each condition of `load` that it is one of those the property names, or
holds of everything setup writes (`FoundValid`: the probed backends are valid and
pairwise different).  `DeploymentImplementsSetup` needs
`DownInv`: a reboot that finds no command running changes nothing, because the
variables of a command that ended were reset.

**Service.**  A command can be cut off only by losing the steps it has left.
`CmdInv` lists the tails of each command's steps, and `InstallInv` and `StopInv`
say for each tail what is already done; `UnitReady` is then kept by `Register`
because only its tail is left, and by everything else because no step takes a
user or a directory away.  No theorem of this module depends on `Setup` beyond
the type of what it writes.

**Only model-checked.**  Liveness (`JobAnswered`, `TasksDrain`, `KeepsTrying`,
`SetupEnds`, `OrphansEnd`, `PairedMachineServes`) is beyond the prover.
Every safety property of a passing run is a theorem.

## 6. Not modelled

- *Signatures, PEM layout, logging, banners, the jitter, `classify_close`, URLs,
  argument parsing*: they change no state a property is about.
- *`service status` and `service logs`, `version`, `validate`*: they read and
  print.
- *The bare object old llama.cpp builds answer to `/v1/models`*, and that Ollama
  is asked for the window of each model separately.
- *`install.ps1`, `start-from-scratch.sh`, the image*: they hold no state of the
  agent; `install.sh` is modelled as far as `upgrade` runs it.
- *The Windows service* beyond its command line: what the SCM does with the entry
  is left to it by the source, which writes no unit there.
- *Discovery during a session*: `discovery.rs:3` speaks of a pass every five
  minutes "when wired into the run loop"; the code makes one on connecting only.

## 7. Plan

Done, in this order of importance: the job executor with its protocol; identity
and connection; discovery, by loops and by requests; the relay from frame to
usage; sessions; setup, config and service on one machine; the proofs above.

To do:

1. `Sessions` with three sessions and two limits, if TLC's time allows: whether
   orphans of two sessions can overlap.
2. The bound of `OverloadIsBounded` as an invariant of a run, on an instance with two
   jobs per session.
