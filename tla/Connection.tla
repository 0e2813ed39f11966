----------------------------- MODULE Connection -----------------------------
(***************************************************************************)
(* The life of the agent process (cmd_run in main.rs, run and connect_once *)
(* in ws_client.rs): get the identity, dial the coordinator, answer its    *)
(* challenge, keep the provider id it assigns, advertise the models, serve *)
(* a session until it ends, sleep and dial again.  JobExecutor is what     *)
(* happens inside a session.                                               *)
(*                                                                         *)
(* The coordinator may send anything, or nothing, at any point; every      *)
(* await of the handshake may fail.  The identity is that of Identity.tla; *)
(* the other processes are the operator's `enroll` and `setup`.            *)
(***************************************************************************)
EXTENDS Identity

CONSTANTS
  Agent,             \* the process that executes `run`
  HasCode,           \* coordinator.enrollment_code is configured
  MaxFailures        \* bound of the model: consecutive_failures saturates

ASSUME ConnectionAssumption ==
  /\ Agent \in Procs
  /\ HasCode \in BOOLEAN
  /\ MaxFailures \in Nat /\ MaxFailures >= 8

VARIABLES
  conn,                  \* where run and connect_once are
  backoff_ms,            \* the variables of run
  consecutive_failures,
  response,              \* the last auth_response: its key, and whether it
                         \* carried the enrollment code
  rested,                \* history: a session has ended since the start
  enrolled               \* history: the keys for which set_provider_id has
                         \* returned Ok

connVars == <<conn, backoff_ms, consecutive_failures, response, rested,
              enrolled>>
vars == <<idVars, connVars>>

Conns == {"off", "dial", "challenge", "ack", "persist", "discover",
          "advertise", "steady", "sleep"}

BaseBackoff == 1000
MaxBackoff  == 60000

Lesser(a, b) == IF a < b THEN a ELSE b

Init ==
  /\ IdInit
  /\ conn = "off"
  /\ backoff_ms = BaseBackoff /\ consecutive_failures = 0
  /\ response = [key |-> 0, code |-> FALSE]
  /\ rested = FALSE /\ enrolled = {}

(* The process starts, or starts again: the variables of run are new.      *)
Boot ==
  /\ Start(Agent)
  /\ UNCHANGED connVars

(* cmd_run: load_or_create, then run.                                      *)
GetIdentity ==
  /\ conn = "off" /\ LoadOrCreate(Agent)
  /\ IF step'[Agent] = "ready"
     THEN /\ conn' = "dial" /\ backoff_ms' = BaseBackoff
          /\ consecutive_failures' = 0 /\ rested' = FALSE
     ELSE UNCHANGED <<conn, backoff_ms, consecutive_failures, rested>>
  /\ UNCHANGED <<response, enrolled>>

Die ==
  /\ Crash(Agent)
  /\ conn' = "off"
  /\ UNCHANGED <<backoff_ms, consecutive_failures, response, rested, enrolled>>

-----------------------------------------------------------------------------
(* connect_once.                                                           *)

(* Err(PreAuth): the failure counts, and the backoff stays as it is.       *)
(* Mutant: run gives up after ten failures.                                *)
FailPreAuthGivesUp ==
  /\ consecutive_failures' = Lesser(consecutive_failures + 1, MaxFailures)
  /\ conn' = IF consecutive_failures' = MaxFailures THEN "off" ELSE "sleep"
  /\ UNCHANGED <<backoff_ms, response, rested, enrolled>>

FailPreAuth ==
  /\ consecutive_failures' = Lesser(consecutive_failures + 1, MaxFailures)
  /\ conn' = "sleep"
  /\ UNCHANGED <<backoff_ms, response, rested, enrolled>>

(* Ok, or Err(PostAuth): an established session has ended.                 *)
(* Mutant: the backoff is not reset.                                       *)
EndKeepsBackoff ==
  /\ consecutive_failures' = 0
  /\ conn' = "sleep" /\ rested' = TRUE
  /\ UNCHANGED <<backoff_ms, response, enrolled>>

EndSession ==
  /\ consecutive_failures' = 0 /\ backoff_ms' = BaseBackoff
  /\ conn' = "sleep" /\ rested' = TRUE
  /\ UNCHANGED <<response, enrolled>>

Advance(from, to) ==
  /\ conn = from /\ conn' = to
  /\ UNCHANGED <<backoff_ms, consecutive_failures, rested>>

Dial == Advance("dial", "challenge") /\ UNCHANGED <<idVars, response, enrolled>>

(* auth_challenge with a nonce arrives: sign it, send auth_response.       *)
AnswerChallenge ==
  /\ Advance("challenge", "ack")
  /\ response' = [key |-> mem[Agent].key,
                  code |-> HasCode /\ mem[Agent].pid = NoPid]
  /\ UNCHANGED <<idVars, enrolled>>

(* auth_ok without a provider_id, or with the one already known.           *)
AckKnown ==
  /\ Advance("ack", "discover")
  /\ UNCHANGED <<idVars, response, enrolled>>

(* auth_ok with another provider_id.                                       *)
AckAssigns(pid) ==
  /\ pid # mem[Agent].pid
  /\ Advance("ack", "persist") /\ SetProviderId(Agent, pid)
  /\ UNCHANGED <<response, enrolled>>

PersistOpen ==
  /\ conn = "persist" /\ step[Agent] = "persist" /\ Open(Agent)
  /\ UNCHANGED connVars

Persisted ==
  /\ Advance("persist", "discover") /\ Written(Agent)
  /\ enrolled' = enrolled \cup {mem[Agent].key}
  /\ UNCHANGED response

PersistFailed == conn = "persist" /\ PersistFails(Agent) /\ FailPreAuth

(* Dialling fails; the peer closes, breaks off, refuses (auth_failed) or   *)
(* sends anything but the frame that is due.                               *)
AttemptFails ==
  /\ conn \in {"dial", "challenge", "ack"} /\ FailPreAuth
  /\ UNCHANGED idVars

(* discovery::run returns, with whatever backends answered.                *)
Discovered == Advance("discover", "advertise")
              /\ UNCHANGED <<idVars, response, enrolled>>

Advertised == Advance("advertise", "steady")
              /\ UNCHANGED <<idVars, response, enrolled>>

(* The capabilities frame cannot be sent, or the session ends.             *)
Ended == conn \in {"advertise", "steady"} /\ EndSession /\ UNCHANGED idVars

(* The sleep of run, with its jitter, then the doubling.                   *)
(* Mutant: doubling is not capped.                                         *)
WakeUncapped ==
  /\ conn = "sleep" /\ conn' = "dial"
  /\ backoff_ms' = backoff_ms * 2
  /\ UNCHANGED <<idVars, consecutive_failures, response, rested, enrolled>>

Wake ==
  /\ conn = "sleep" /\ conn' = "dial"
  /\ backoff_ms' = Lesser(backoff_ms * 2, MaxBackoff)
  /\ UNCHANGED <<idVars, consecutive_failures, response, rested, enrolled>>

(* `enroll` or `setup` on the same machine.                                *)
OtherCommand(p) ==
  /\ Start(p) \/ LoadOrCreate(p) \/ Crash(p)
  /\ UNCHANGED connVars

Next ==
  \/ Boot \/ GetIdentity \/ Die
  \/ Dial \/ AnswerChallenge \/ AckKnown \/ \E pid \in Pids : AckAssigns(pid)
  \/ PersistOpen \/ Persisted \/ PersistFailed
  \/ AttemptFails \/ Discovered \/ Advertised \/ Ended \/ Wake
  \/ \E p \in Procs \ {Agent} : OtherCommand(p)

Spec == Init /\ [][Next]_vars

(***************************************************************************)
(* Fairness: the runtime runs the agent's own steps, and discovery ends,   *)
(* since each of its requests has a timeout.  Nothing is assumed of the    *)
(* other end of the connection: connect_async (TCP, TLS and the upgrade to *)
(* WebSocket), recv_json and sink.send have no timeout, and each may wait  *)
(* for the peer for ever.                                                  *)
(***************************************************************************)
Fairness ==
  /\ WF_vars(GetIdentity)
  /\ WF_vars(PersistOpen \/ Persisted \/ PersistFailed)
  /\ WF_vars(Discovered)
  /\ WF_vars(Wake)

FairSpec == Spec /\ Fairness

-----------------------------------------------------------------------------
TypeOK ==
  /\ IdentityType
  /\ conn \in Conns
  /\ backoff_ms \in BaseBackoff..MaxBackoff
  /\ consecutive_failures \in 0..MaxFailures
  /\ response \in [key : 0..MaxKeys, code : BOOLEAN]
  /\ rested \in BOOLEAN /\ enrolled \subseteq 0..MaxKeys
  /\ conn = "off" <=> step[Agent] \in NoIdentitySteps
  /\ conn = "persist" <=> step[Agent] \in {"persist", "write_pid"}

(***************************************************************************)
(* The backoff before a dial is what the failures since the last rest make *)
(* it: 1 s after a session; doubled for every handshake that failed since, *)
(* whatever happened in between; never more than a minute.                 *)
(***************************************************************************)
Delays == <<1000, 2000, 4000, 8000, 16000, 32000, 60000>>

DelayAfter(doublings) == Delays[1 + Lesser(doublings, 6)]

BackoffLaw ==
  conn = "sleep" =>
    backoff_ms = DelayAfter(IF rested THEN consecutive_failures
                            ELSE consecutive_failures - 1)

(***************************************************************************)
(* Once a provider id was persisted for a key, no connection sends the     *)
(* enrollment code with that key again, whatever crashes and restarts come *)
(* after it and whatever other commands write the key file.                *)
(***************************************************************************)
CodeNotReplayed ==
  [][conn = "challenge" /\ conn' = "ack" /\ response'.key \in enrolled
       => ~response'.code]_vars

(***************************************************************************)
(* The agent gives up on no failure: it begins to dial again and again,    *)
(* unless the process stays without an identity (it is down, or cannot     *)
(* load it) or stays for ever in one of the awaits that only the other end *)
(* of the connection can end, a lasting session being one of them.         *)
(***************************************************************************)
Waits == {"dial", "challenge", "ack", "advertise", "steady"}

KeepsTrying ==
  \/ []<><<conn # "dial" /\ conn' = "dial">>_vars
  \/ <>[](step[Agent] \in NoIdentitySteps)
  \/ \E w \in Waits : <>[](conn = w)
=============================================================================
