------------------------------ MODULE Identity ------------------------------
(***************************************************************************)
(* The agent's identity (identity.rs): one key file, shared by every       *)
(* process that runs the agent's commands (`run`, `enroll`, `setup`), and  *)
(* the copy each process holds in memory.                                  *)
(*                                                                         *)
(* A write is what std::fs::write does: open the file and truncate it, then*)
(* write the body, then set its mode.  A process may crash, and the file   *)
(* system may refuse, between any two of these.                            *)
(***************************************************************************)
EXTENDS Integers, FiniteSets

CONSTANTS
  Procs,    \* processes that use the identity
  Pids,     \* provider ids a coordinator may assign
  NoPid,    \* not enrolled
  MaxKeys   \* bound of the model: keypairs generated

ASSUME IdentityAssumption ==
  /\ IsFiniteSet(Procs)
  /\ NoPid \notin Pids
  /\ MaxKeys \in Nat \ {0}

VARIABLES
  file,   \* the key file
  mem,    \* the Identity each process holds
  step,   \* where each process is in load_or_create or set_provider_id
  born,   \* keypairs generated so far; the last one is number `born`
  shown   \* history: the keys load_or_create has returned to some process

idVars == <<file, mem, step, born, shown>>

NoIdentitySteps == {"down", "load", "create", "write_new"}
Steps == NoIdentitySteps \cup {"ready", "persist", "write_pid"}

Nobody    == [key |-> 0, pid |-> NoPid]
Absent    == [state |-> "absent", key |-> 0, pid |-> NoPid]
Torn      == [state |-> "torn", key |-> 0, pid |-> NoPid]
Whole(id) == [state |-> "whole", key |-> id.key, pid |-> id.pid]

Identities == [key : 0..MaxKeys, pid : Pids \cup {NoPid}]

IdInit ==
  /\ file = Absent
  /\ mem = [p \in Procs |-> Nobody]
  /\ step = [p \in Procs |-> "down"]
  /\ born = 0
  /\ shown = {}

Goto(p, s) == step' = [step EXCEPT ![p] = s]

(* A command of the agent starts, for the first time or after a crash.     *)
Start(p) ==
  /\ step[p] = "down" /\ Goto(p, "load")
  /\ UNCHANGED <<file, mem, born, shown>>

(* load: the file parses and its public key matches its secret key.        *)
Load(p) ==
  /\ step[p] = "load" /\ file.state = "whole"
  /\ mem' = [mem EXCEPT ![p] = [key |-> file.key, pid |-> file.pid]]
  /\ shown' = shown \cup {file.key}
  /\ Goto(p, "ready")
  /\ UNCHANGED <<file, born>>

(* load: a truncated file has no footer and is refused; the command fails. *)
(* Mutant: a file that does not load is replaced.                          *)
LoadOrReplace(p) ==
  /\ step[p] = "load" /\ file.state = "torn" /\ born < MaxKeys
  /\ born' = born + 1
  /\ mem' = [mem EXCEPT ![p] = [key |-> born + 1, pid |-> NoPid]]
  /\ Goto(p, "create")
  /\ UNCHANGED <<file, shown>>

LoadRefused(p) ==
  /\ step[p] = "load" /\ file.state = "torn"
  /\ Goto(p, "down")
  /\ UNCHANGED <<file, mem, born, shown>>

(* load_or_create found no file: create_new generates a keypair.           *)
Generate(p) ==
  /\ step[p] = "load" /\ file.state = "absent" /\ born < MaxKeys
  /\ born' = born + 1
  /\ mem' = [mem EXCEPT ![p] = [key |-> born + 1, pid |-> NoPid]]
  /\ Goto(p, "create")
  /\ UNCHANGED <<file, shown>>

(* set_provider_id: memory first, then the file.                           *)
SetProviderId(p, pid) ==
  /\ step[p] = "ready"
  /\ mem' = [mem EXCEPT ![p].pid = pid]
  /\ Goto(p, "persist")
  /\ UNCHANGED <<file, born, shown>>

(* write_with_mode_0600: open and truncate.                                *)
Open(p) ==
  /\ \/ step[p] = "create"  /\ Goto(p, "write_new")
     \/ step[p] = "persist" /\ Goto(p, "write_pid")
  /\ file' = Torn
  /\ UNCHANGED <<mem, born, shown>>

(* The body is written and the mode set; of two overlapping writes, the    *)
(* last one wins.                                                          *)
(* Mutant: the body is serialized without the provider id.                 *)
WrittenAnonymous(p) ==
  /\ step[p] \in {"write_new", "write_pid"}
  /\ file' = Whole([mem[p] EXCEPT !.pid = NoPid])
  /\ shown' = shown \cup {mem[p].key}
  /\ Goto(p, "ready")
  /\ UNCHANGED <<mem, born>>

Written(p) ==
  /\ step[p] \in {"write_new", "write_pid"}
  /\ file' = Whole(mem[p])
  /\ shown' = shown \cup {mem[p].key}
  /\ Goto(p, "ready")
  /\ UNCHANGED <<mem, born>>

(* What a failed write leaves: the old file if it could not be opened, a   *)
(* truncated one if the body could not be written, a whole one if only the *)
(* mode could not be set.                                                  *)
FailureOutcome(p) ==
  \/ step[p] \in {"create", "persist"} /\ UNCHANGED file
  \/ step[p] \in {"write_new", "write_pid"} /\ file' \in {Torn, Whole(mem[p])}

(* create_new fails: the command ends with the error.                      *)
CreateFails(p) ==
  /\ step[p] \in {"create", "write_new"} /\ FailureOutcome(p)
  /\ mem' = [mem EXCEPT ![p] = Nobody]
  /\ Goto(p, "down")
  /\ UNCHANGED <<born, shown>>

(* set_provider_id fails: the caller has the error, and memory the new id. *)
PersistFails(p) ==
  /\ step[p] \in {"persist", "write_pid"} /\ FailureOutcome(p)
  /\ Goto(p, "ready")
  /\ UNCHANGED <<mem, born, shown>>

(* The process is killed, crashes or exits.                                *)
Crash(p) ==
  /\ step[p] # "down"
  /\ mem' = [mem EXCEPT ![p] = Nobody]
  /\ Goto(p, "down")
  /\ UNCHANGED <<file, born, shown>>

(* load_or_create, as any command runs it.                                 *)
LoadOrCreate(p) ==
  \/ Load(p) \/ LoadRefused(p) \/ Generate(p)
  \/ step[p] = "create" /\ Open(p)
  \/ step[p] = "write_new" /\ Written(p)
  \/ CreateFails(p)

Writing == {p \in Procs : step[p] \in {"write_new", "write_pid"}}

-----------------------------------------------------------------------------
(* Type correctness of the identity.                                       *)
IdentityType ==
  /\ file \in [state : {"absent", "torn", "whole"}, key : 0..MaxKeys,
               pid : Pids \cup {NoPid}]
  /\ mem \in [Procs -> Identities]
  /\ step \in [Procs -> Steps]
  /\ born \in 0..MaxKeys
  /\ shown \subseteq 0..MaxKeys

(***************************************************************************)
(* One installation has one identity, as far as load_or_create can have it:*)
(* it tests for the file and writes it later, so that commands started     *)
(* together on a new machine may each use a key; but however they          *)
(* interleave, crash, fail and start again, no more keys are ever used     *)
(* than there are commands, and an agent alone has one for ever.           *)
(***************************************************************************)
KeysBounded == Cardinality(shown) <= Cardinality(Procs)
=============================================================================
