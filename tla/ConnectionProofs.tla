-------------------------- MODULE ConnectionProofs --------------------------
(***************************************************************************)
(* Theorems about Connection, for any finite set of processes that share   *)
(* the key file: type correctness, the backoff law, no more keys than      *)
(* commands, and no enrollment code with a key that was enrolled.          *)
(***************************************************************************)
EXTENDS Connection, FiniteSetTheorems, TLAPS

-----------------------------------------------------------------------------
(* Type correctness, first of the identity.                                *)

IdentityStep(p) ==
  \/ Start(p) \/ LoadOrCreate(p) \/ Crash(p) \/ Open(p) \/ Written(p)
  \/ PersistFails(p) \/ \E pid \in Pids : SetProviderId(p, pid)

LEMMA IdentityStepType ==
  ASSUME IdentityType, NEW p \in Procs, IdentityStep(p)
  PROVE  IdentityType'
  <1>1. /\ 0 \in 0..MaxKeys
        /\ born \in 0..MaxKeys
        /\ born < MaxKeys => born + 1 \in 0..MaxKeys
    BY IdentityAssumption DEF IdentityType
  <1> USE DEF IdentityType, Goto, Steps, NoIdentitySteps, Identities
  <1>2. CASE Start(p)
    BY <1>2 DEF Start
  <1>3. CASE Load(p)
    BY <1>3 DEF Load
  <1>4. CASE LoadRefused(p)
    BY <1>4 DEF LoadRefused
  <1>5. CASE Generate(p)
    BY <1>1, <1>5 DEF Generate
  <1>6. CASE Open(p)
    BY <1>1, <1>6 DEF Open, Torn
  <1>7. CASE Written(p)
    BY <1>7 DEF Written, Whole
  <1>8. CASE CreateFails(p)
    BY <1>1, <1>8 DEF CreateFails, FailureOutcome, Torn, Whole, Nobody
  <1>9. CASE PersistFails(p)
    BY <1>1, <1>9 DEF PersistFails, FailureOutcome, Torn, Whole
  <1>10. CASE Crash(p)
    BY <1>1, <1>10 DEF Crash, Nobody
  <1>11. ASSUME NEW pid \in Pids, SetProviderId(p, pid) PROVE IdentityType'
    BY <1>11 DEF SetProviderId
  <1> QED
    BY <1>2, <1>3, <1>4, <1>5, <1>6, <1>7, <1>8, <1>9, <1>10, <1>11
    DEF IdentityStep, LoadOrCreate

(* What a step of some process does to where the agent is.                 *)
LEMMA OtherLocal ==
  ASSUME IdentityType, NEW p \in Procs \ {Agent}, OtherCommand(p)
  PROVE  step'[Agent] = step[Agent] /\ UNCHANGED connVars
  <1>1. \E s \in Steps : Goto(p, s)
    BY DEF OtherCommand, Start, LoadOrCreate, Load, LoadRefused, Generate,
           Open, Written, CreateFails, Crash, Steps, NoIdentitySteps
  <1>2. step \in [Procs -> Steps]
    BY DEF IdentityType
  <1>3. step'[Agent] = step[Agent]
    BY <1>1, <1>2, ConnectionAssumption DEF Goto
  <1> QED
    BY <1>3 DEF OtherCommand

(* The part of TypeOK that is not the identity's.                          *)
ConnType ==
  /\ conn \in Conns
  /\ backoff_ms \in BaseBackoff..MaxBackoff
  /\ consecutive_failures \in 0..MaxFailures
  /\ response \in [key : 0..MaxKeys, code : BOOLEAN]
  /\ rested \in BOOLEAN /\ enrolled \subseteq 0..MaxKeys
  /\ conn = "off" <=> step[Agent] \in NoIdentitySteps
  /\ conn = "persist" <=> step[Agent] \in {"persist", "write_pid"}

(* The numbers of run.                                                     *)
LEMMA BackoffStep ==
  ASSUME ConnType
  PROVE  /\ Lesser(backoff_ms * 2, MaxBackoff) \in BaseBackoff..MaxBackoff
         /\ Lesser(consecutive_failures + 1, MaxFailures) \in 0..MaxFailures
         /\ 0 \in 0..MaxFailures /\ BaseBackoff \in BaseBackoff..MaxBackoff
  <1>0. /\ BaseBackoff \in Nat /\ MaxBackoff \in Nat
        /\ BaseBackoff <= MaxBackoff
    BY DEF BaseBackoff, MaxBackoff
  <1>1. MaxFailures \in Nat
    BY ConnectionAssumption
  <1>2. Lesser(backoff_ms * 2, MaxBackoff) \in BaseBackoff..MaxBackoff
    <2>1. backoff_ms \in BaseBackoff..MaxBackoff
      BY DEF ConnType
    <2>2. /\ backoff_ms * 2 \in Int
          /\ backoff_ms * 2 >= BaseBackoff
      BY <1>0, <2>1
    <2> QED
      BY <1>0, <2>2 DEF Lesser
  <1>3. consecutive_failures \in 0..MaxFailures
    BY DEF ConnType
  <1>4. Lesser(consecutive_failures + 1, MaxFailures) \in 0..MaxFailures
    BY <1>1, <1>3 DEF Lesser
  <1> QED
    BY <1>0, <1>1, <1>2, <1>4

LEMMA ConnInit == Init => IdentityType /\ ConnType
  <1> SUFFICES ASSUME Init PROVE IdentityType /\ ConnType
    OBVIOUS
  <1>1. 0 \in 0..MaxKeys /\ 0 \in 0..MaxFailures
    BY IdentityAssumption, ConnectionAssumption
  <1>2. IdentityType
    BY <1>1 DEF Init, IdInit, IdentityType, Identities, Absent, Nobody, Steps,
                NoIdentitySteps
  <1>3. Agent \in Procs
    BY ConnectionAssumption
  <1>4. BaseBackoff \in BaseBackoff..MaxBackoff
    BY DEF BaseBackoff, MaxBackoff
  <1> QED
    BY <1>1, <1>2, <1>3, <1>4
    DEF Init, IdInit, ConnType, Conns, NoIdentitySteps

LEMMA AgentStep ==
  ASSUME IdentityType, ConnType, Next
  PROVE  IdentityType' /\ ConnType'
  <1>0. /\ Agent \in Procs /\ HasCode \in BOOLEAN
        /\ step[Agent] \in Steps /\ mem[Agent].key \in 0..MaxKeys
        /\ step \in [Procs -> Steps]
    BY ConnectionAssumption DEF IdentityType, Identities
  <1>a. /\ Lesser(backoff_ms * 2, MaxBackoff) \in BaseBackoff..MaxBackoff
        /\ Lesser(consecutive_failures + 1, MaxFailures) \in 0..MaxFailures
        /\ 0 \in 0..MaxFailures /\ BaseBackoff \in BaseBackoff..MaxBackoff
    BY BackoffStep
  <1>b. ASSUME IdentityStep(Agent) PROVE IdentityType'
    BY <1>0, <1>b, IdentityStepType
  <1>c. ASSUME UNCHANGED idVars PROVE IdentityType'
    BY <1>c DEF idVars, IdentityType
  <1> USE DEF ConnType, Conns, NoIdentitySteps, Steps
  <1>1. CASE Boot
    <2>1. IdentityStep(Agent)
      BY <1>1 DEF Boot, IdentityStep
    <2> QED
      BY <1>0, <1>1, <1>b, <2>1 DEF Boot, Start, Goto, connVars
  <1>2. CASE GetIdentity
    <2>1. IdentityStep(Agent)
      BY <1>2 DEF GetIdentity, IdentityStep
    <2>2. step'[Agent] \in NoIdentitySteps \cup {"ready"}
      BY <1>0, <1>2
      DEF GetIdentity, LoadOrCreate, Load, LoadRefused, Generate, Open,
          Written, CreateFails, Goto
    <2> QED
      BY <1>2, <1>a, <1>b, <2>1, <2>2 DEF GetIdentity
  <1>3. CASE Die
    <2>1. IdentityStep(Agent)
      BY <1>3 DEF Die, IdentityStep
    <2> QED
      BY <1>0, <1>3, <1>b, <2>1 DEF Die, Crash, Goto
  <1>4. CASE Dial \/ AckKnown \/ Discovered \/ Advertised
    BY <1>4, <1>c DEF Dial, AckKnown, Discovered, Advertised, Advance, idVars
  <1>5. CASE AnswerChallenge
    BY <1>0, <1>5, <1>c DEF AnswerChallenge, Advance, idVars
  <1>6. ASSUME NEW pid \in Pids, AckAssigns(pid)
        PROVE  IdentityType' /\ ConnType'
    <2>1. IdentityStep(Agent)
      BY <1>6 DEF AckAssigns, IdentityStep
    <2> QED
      BY <1>0, <1>6, <1>b, <2>1 DEF AckAssigns, SetProviderId, Goto, Advance
  <1>7. CASE PersistOpen
    <2>1. IdentityStep(Agent)
      BY <1>7 DEF PersistOpen, IdentityStep
    <2> QED
      BY <1>0, <1>7, <1>b, <2>1 DEF PersistOpen, Open, Goto, connVars
  <1>8. CASE Persisted
    <2>1. IdentityStep(Agent)
      BY <1>8 DEF Persisted, IdentityStep
    <2> QED
      BY <1>0, <1>8, <1>b, <2>1 DEF Persisted, Written, Goto, Advance
  <1>9. CASE PersistFailed
    <2>1. IdentityStep(Agent)
      BY <1>9 DEF PersistFailed, IdentityStep
    <2> QED
      BY <1>0, <1>9, <1>a, <1>b, <2>1
      DEF PersistFailed, PersistFails, Goto, FailPreAuth
  <1>10. CASE AttemptFails
    BY <1>10, <1>a, <1>c DEF AttemptFails, FailPreAuth, idVars
  <1>11. CASE Ended
    BY <1>11, <1>a, <1>c DEF Ended, EndSession, idVars
  <1>12. CASE Wake
    BY <1>12, <1>a, <1>c DEF Wake, idVars
  <1>13. ASSUME NEW p \in Procs \ {Agent}, OtherCommand(p)
         PROVE  IdentityType' /\ ConnType'
    <2>1. IdentityType'
      BY <1>13, IdentityStepType DEF OtherCommand, IdentityStep
    <2> QED
      BY <1>13, <2>1, OtherLocal DEF connVars
  <1> QED
    BY <1>1, <1>2, <1>3, <1>4, <1>5, <1>6, <1>7, <1>8, <1>9, <1>10, <1>11,
       <1>12, <1>13
    DEF Next

LEMMA TypeOKParts == TypeOK <=> IdentityType /\ ConnType
  BY DEF TypeOK, ConnType

LEMMA TypeStep ==
  ASSUME TypeOK, [Next]_vars
  PROVE  TypeOK'
  <1>1. CASE Next
    BY <1>1, AgentStep DEF TypeOK, ConnType
  <1>2. CASE UNCHANGED vars
    BY <1>2 DEF vars, idVars, connVars, TypeOK, IdentityType
  <1> QED
    BY <1>1, <1>2

(* Every reachable state is well typed: the backoff stays between a second *)
(* and a minute, and the agent writes its identity when and only when the  *)
(* connection waits for it.                                                *)
THEOREM ConnectionTypeCorrect == Spec => []TypeOK
  <1>1. Init => TypeOK
    BY ConnInit, TypeOKParts
  <1>2. TypeOK /\ [Next]_vars => TypeOK'
    BY TypeStep
  <1> QED
    BY <1>1, <1>2, PTL DEF Spec

-----------------------------------------------------------------------------
(* The backoff.  It is doubled when a sleep ends, so that the failures and *)
(* the doublings differ by one on the way from a sleep to the next.        *)

Active == Conns \ {"off", "sleep"}

BackoffInv ==
  /\ conn \in Active =>
       backoff_ms = DelayAfter(IF rested THEN consecutive_failures + 1
                               ELSE consecutive_failures)
  /\ conn = "sleep" /\ ~rested => consecutive_failures >= 1
  /\ BackoffLaw

(* One doubling more, up to the cap.                                       *)
LEMMA Doubling ==
  ASSUME NEW n \in Nat
  PROVE  Lesser(DelayAfter(n) * 2, MaxBackoff) = DelayAfter(n + 1)
  <1>1. /\ Delays[1] = 1000 /\ Delays[2] = 2000 /\ Delays[3] = 4000
        /\ Delays[4] = 8000 /\ Delays[5] = 16000 /\ Delays[6] = 32000
        /\ Delays[7] = 60000
    BY DEF Delays
  <1>2. MaxBackoff = 60000
    BY DEF MaxBackoff
  <1>3. CASE n >= 6
    <2>1. DelayAfter(n) = Delays[7] /\ DelayAfter(n + 1) = Delays[7]
      BY <1>3 DEF DelayAfter, Lesser
    <2> QED
      BY <1>1, <1>2, <2>1 DEF Lesser
  <1>4. CASE n < 6
    <2>1. n \in {0, 1, 2, 3, 4, 5}
      BY <1>4
    <2>2. DelayAfter(n) = Delays[n + 1] /\ DelayAfter(n + 1) = Delays[n + 2]
      BY <1>4 DEF DelayAfter, Lesser
    <2> QED
      BY <1>1, <1>2, <2>1, <2>2 DEF Lesser
  <1> QED
    BY <1>3, <1>4

(* The cap on the failures, a bound of the model, is beyond that of the    *)
(* delay.                                                                  *)
LEMMA Saturated ==
  ASSUME NEW n \in 0..MaxFailures
  PROVE  /\ DelayAfter(Lesser(n + 1, MaxFailures)) = DelayAfter(n + 1)
         /\ DelayAfter(Lesser(n + 1, MaxFailures) - 1) = DelayAfter(n)
         /\ Lesser(n + 1, MaxFailures) >= 1
  <1>1. MaxFailures \in Nat /\ MaxFailures >= 8
    BY ConnectionAssumption
  <1> DEFINE m == Lesser(n + 1, MaxFailures)
  <1>2. m = n + 1 \/ (m = MaxFailures /\ n = MaxFailures)
    BY <1>1 DEF Lesser
  <1> HIDE DEF m
  <1>3. CASE m = n + 1
    BY <1>3 DEF m
  <1>4. CASE m = MaxFailures /\ n = MaxFailures
    <2>1. Lesser(m, 6) = 6 /\ Lesser(m - 1, 6) = 6 /\ Lesser(n, 6) = 6
          /\ Lesser(n + 1, 6) = 6
      BY <1>1, <1>4 DEF Lesser
    <2> QED
      BY <1>1, <1>4, <2>1 DEF m, DelayAfter
  <1> QED
    BY <1>2, <1>3, <1>4

LEMMA BackoffInvStep ==
  ASSUME TypeOK, BackoffInv, Next
  PROVE  BackoffInv'
  <1>1. /\ consecutive_failures \in 0..MaxFailures /\ MaxFailures \in Nat
        /\ rested \in BOOLEAN
    BY ConnectionAssumption DEF TypeOK
  <1>2. DelayAfter(0) = BaseBackoff
    BY DEF DelayAfter, Lesser, Delays, BaseBackoff
  <1> USE DEF BackoffInv, BackoffLaw, Active, Conns
  <1>3. ASSUME UNCHANGED <<backoff_ms, consecutive_failures, rested>>,
               conn' = conn \/ (conn \in Active /\ conn' \in Active)
        PROVE  BackoffInv'
    BY <1>3
  <1>4. ASSUME conn \in Active, FailPreAuth
        PROVE  BackoffInv'
    <2> DEFINE n == consecutive_failures
    <2>1. n' = Lesser(n + 1, MaxFailures) /\ n' >= 1
          /\ conn' = "sleep" /\ UNCHANGED <<backoff_ms, rested>>
      BY <1>1, <1>4, Saturated DEF FailPreAuth
    <2>2. backoff_ms = DelayAfter(IF rested THEN n + 1 ELSE n)
      BY <1>4
    <2>3. /\ DelayAfter(n') = DelayAfter(n + 1)
          /\ DelayAfter(n' - 1) = DelayAfter(n)
      BY <1>1, <2>1, Saturated
    <2> QED
      BY <1>1, <2>1, <2>2, <2>3
  <1>5. CASE Boot \/ Dial \/ AnswerChallenge \/ AckKnown \/ PersistOpen
             \/ Persisted \/ Discovered \/ Advertised
    BY <1>3, <1>5 DEF Boot, Dial, AnswerChallenge, AckKnown, PersistOpen,
                      Persisted, Discovered, Advertised, Advance, connVars
  <1>6. ASSUME NEW pid \in Pids, AckAssigns(pid)
        PROVE  BackoffInv'
    BY <1>3, <1>6 DEF AckAssigns, Advance
  <1>7. ASSUME NEW p \in Procs \ {Agent}, OtherCommand(p)
        PROVE  BackoffInv'
    BY <1>3, <1>7 DEF OtherCommand, connVars
  <1>8. CASE GetIdentity
    <2>1. CASE step'[Agent] = "ready"
      BY <1>2, <1>8, <2>1 DEF GetIdentity
    <2>2. CASE step'[Agent] # "ready"
      BY <1>3, <1>8, <2>2 DEF GetIdentity
    <2> QED
      BY <2>1, <2>2
  <1>9. CASE Die
    BY <1>9 DEF Die
  <1>10. CASE PersistFailed \/ AttemptFails
    BY <1>4, <1>10 DEF PersistFailed, AttemptFails
  <1>11. CASE Ended
    BY <1>2, <1>11 DEF Ended, EndSession
  <1>12. CASE Wake
    <2> DEFINE n == IF rested THEN consecutive_failures
                    ELSE consecutive_failures - 1
    <2>1. n \in Nat /\ backoff_ms = DelayAfter(n)
      BY <1>1, <1>12 DEF Wake
    <2>2. n + 1 = IF rested THEN consecutive_failures + 1
                  ELSE consecutive_failures
      BY <1>1
    <2> HIDE DEF n
    <2>3. backoff_ms' = DelayAfter(n + 1)
      BY <1>12, <2>1, Doubling DEF Wake
    <2> QED
      BY <1>12, <2>2, <2>3 DEF Wake
  <1> QED
    BY <1>5, <1>6, <1>7, <1>8, <1>9, <1>10, <1>11, <1>12 DEF Next

(***************************************************************************)
(* The delay before a dial is that of the failures since the last rest, up *)
(* to a minute, however handshakes, sessions and restarts follow each      *)
(* other.                                                                  *)
(***************************************************************************)
THEOREM BackoffIsLawful == Spec => []BackoffLaw
  <1>1. Init => BackoffInv
    BY DEF Init, BackoffInv, BackoffLaw, Active
  <1>2. TypeOK /\ BackoffInv /\ [Next]_vars => BackoffInv'
    <2> SUFFICES ASSUME TypeOK, BackoffInv, [Next]_vars
                 PROVE  BackoffInv'
      OBVIOUS
    <2>1. CASE UNCHANGED vars
      BY <2>1 DEF vars, connVars, BackoffInv, BackoffLaw, Active
    <2> QED
      BY <2>1, BackoffInvStep
  <1>3. BackoffInv => BackoffLaw
    BY DEF BackoffInv
  <1> QED
    BY <1>1, <1>2, <1>3, ConnectionTypeCorrect, PTL DEF Spec

-----------------------------------------------------------------------------
(* Keys.  A key is in use once it was returned to a command; a command that*)
(* is creating the file holds one that nobody uses yet.                    *)

Creating == {p \in Procs : step[p] \in {"create", "write_new"}}
Holding  == {p \in Procs : step[p] \in {"ready", "persist", "write_pid"}}

OnDisk == IF file.state = "whole" THEN {file.key} ELSE {}
Known  == shown \cup OnDisk

(* The keys of the commands that create are fresh: not in use, not on disk,*)
(* and no two of them are the same.                                        *)
FreshInv ==
  /\ Known \subseteq 0..born
  /\ file.state = "absent" => shown = {}
  /\ \A p \in Holding : mem[p].key \in shown
  /\ \A p \in Creating :
       /\ mem[p].key \in 0..born /\ mem[p].key \notin Known
       /\ \A q \in Creating : q # p => mem[q].key # mem[p].key

(* Every key in use or on disk has taken the place of a command that was   *)
(* creating the file.                                                      *)
CountInv == Cardinality(Known) + Cardinality(Creating) <= Cardinality(Procs)

(* After the enrolment of a key its provider id is in the file, if that is *)
(* whole and holds the key, and in the memory of the agent.                *)
CodeInv ==
  /\ enrolled \subseteq shown
  /\ file.state = "whole" /\ file.key \in enrolled => file.pid # NoPid
  /\ Agent \in Holding /\ mem[Agent].key \in enrolled =>
       mem[Agent].pid # NoPid
  /\ step[Agent] \in {"persist", "write_pid"} => mem[Agent].pid # NoPid

LEMMA KeysInit == Init => FreshInv /\ CodeInv /\ Creating = {} /\ Known = {}
  <1> SUFFICES ASSUME Init
      PROVE FreshInv /\ CodeInv /\ Creating = {} /\ Known = {}
    OBVIOUS
  <1>1. Agent \in Procs
    BY ConnectionAssumption
  <1>2. Creating = {} /\ Holding = {} /\ Known = {}
    BY DEF Init, IdInit, Absent, Creating, Holding, Known, OnDisk
  <1> QED
    BY <1>1, <1>2 DEF Init, IdInit, Absent, FreshInv, CodeInv

(* What a step of one process does to the sets of commands.                *)
LEMMA StepSets ==
  ASSUME IdentityType, NEW p \in Procs, NEW s \in Steps, Goto(p, s)
  PROVE  /\ Creating' = (IF s \in {"create", "write_new"}
                         THEN Creating \cup {p} ELSE Creating \ {p})
         /\ Holding' = (IF s \in {"ready", "persist", "write_pid"}
                        THEN Holding \cup {p} ELSE Holding \ {p})
  BY DEF IdentityType, Goto, Creating, Holding

(* What a step of one process does to the keys: none becomes known but the *)
(* one that process was creating.                                          *)
LEMMA KnownStep ==
  ASSUME IdentityType, FreshInv, NEW p \in Procs, IdentityStep(p)
  PROVE  \/ /\ Known' \subseteq Known
            /\ Creating' \subseteq Creating
         \/ /\ p \in Creating /\ Creating' = Creating \ {p}
            /\ Known' \subseteq Known \cup {mem[p].key}
         \/ Known' = {} /\ Creating' \subseteq Procs
  <1>1. step \in [Procs -> Steps] /\ mem \in [Procs -> Identities]
    BY DEF IdentityType
  <1>a. p \in Holding => mem[p].key \in Known
    BY DEF FreshInv, Known
  <1>b. Creating' \subseteq Procs
    BY DEF Creating
  <1> USE DEF Known, OnDisk
  <1>2. CASE Start(p)
    BY <1>1, <1>2, StepSets DEF Start, Steps, NoIdentitySteps
  <1>3. CASE Load(p)
    BY <1>1, <1>3, StepSets DEF Load, Steps, NoIdentitySteps
  <1>4. CASE LoadRefused(p)
    BY <1>1, <1>4, StepSets DEF LoadRefused, Steps, NoIdentitySteps
  <1>5. CASE Generate(p)
    BY <1>5, <1>b DEF Generate, FreshInv
  <1>6. CASE Open(p)
    <2>1. CASE step[p] = "create"
      <3>1. p \in Creating /\ Goto(p, "write_new")
        BY <1>6, <2>1 DEF Open, Creating
      <3>2. Creating' = Creating
        BY <3>1, StepSets DEF Steps, NoIdentitySteps
      <3> QED
        BY <1>6, <3>2 DEF Open, Torn
    <2>2. CASE step[p] = "persist"
      <3>1. Goto(p, "write_pid")
        BY <1>6, <2>2 DEF Open
      <3>2. Creating' = Creating \ {p}
        BY <3>1, StepSets DEF Steps, NoIdentitySteps
      <3> QED
        BY <1>6, <3>2 DEF Open, Torn
    <2> QED
      BY <1>6, <2>1, <2>2 DEF Open
  <1>7. CASE Written(p)
    <2>1. Creating' = Creating \ {p}
      BY <1>7, StepSets DEF Written, Steps, NoIdentitySteps
    <2>2. Known' \subseteq Known \cup {mem[p].key}
      BY <1>7 DEF Written, Whole
    <2>3. p \in Creating \/ p \in Holding
      BY <1>7 DEF Written, Creating, Holding
    <2> QED
      BY <1>a, <2>1, <2>2, <2>3
  <1>8. CASE CreateFails(p)
    <2>1. p \in Creating /\ Creating' = Creating \ {p}
      BY <1>8, StepSets DEF CreateFails, Creating, Steps, NoIdentitySteps
    <2>2. Known' \subseteq Known \cup {mem[p].key}
      BY <1>8 DEF CreateFails, FailureOutcome, Torn, Whole
    <2> QED
      BY <2>1, <2>2
  <1>9. CASE PersistFails(p)
    <2>1. p \in Holding /\ Creating' = Creating \ {p}
      BY <1>9, StepSets DEF PersistFails, Holding, Steps, NoIdentitySteps
    <2>2. Known' \subseteq Known \cup {mem[p].key}
      BY <1>9 DEF PersistFails, FailureOutcome, Torn, Whole
    <2> QED
      BY <1>a, <2>1, <2>2
  <1>10. CASE Crash(p)
    BY <1>1, <1>10, StepSets DEF Crash, Steps, NoIdentitySteps
  <1>11. CASE \E pid \in Pids : SetProviderId(p, pid)
    BY <1>1, <1>11, StepSets DEF SetProviderId, Steps, NoIdentitySteps
  <1> QED
    BY <1>2, <1>3, <1>4, <1>5, <1>6, <1>7, <1>8, <1>9, <1>10, <1>11
    DEF IdentityStep, LoadOrCreate

(* Fresh keys stay fresh.                                                  *)
LEMMA FreshStep ==
  ASSUME IdentityType, FreshInv, NEW p \in Procs, IdentityStep(p)
  PROVE  FreshInv'
  <1>1. /\ step \in [Procs -> Steps] /\ mem \in [Procs -> Identities]
        /\ born \in Nat /\ Creating \subseteq Procs /\ Holding \subseteq Procs
    BY IdentityAssumption DEF IdentityType, Creating, Holding
  <1>2. /\ p \in Creating <=> step[p] \in {"create", "write_new"}
        /\ p \in Holding <=> step[p] \in {"ready", "persist", "write_pid"}
    BY DEF Creating, Holding
  <1>3. ASSUME Known' \subseteq Known, shown \subseteq shown',
               Creating' \subseteq Creating, born' = born,
               file'.state # "absent" \/ UNCHANGED <<file, shown>>,
               \A q \in Creating' : mem'[q] = mem[q],
               \A q \in Holding' : mem'[q].key \in shown'
        PROVE  FreshInv'
    BY <1>1, <1>3 DEF FreshInv
  <1>4. ASSUME p \in Creating, Creating' = Creating \ {p},
               Known' \subseteq Known \cup {mem[p].key}, shown \subseteq shown',
               born' = born,
               file'.state # "absent" \/ UNCHANGED <<file, shown>>,
               \A q \in Creating' : mem'[q] = mem[q],
               \A q \in Holding' : mem'[q].key \in shown'
        PROVE  FreshInv'
    BY <1>1, <1>4 DEF FreshInv
  <1>5. \A q \in Holding : mem[q].key \in shown
    BY DEF FreshInv
  <1>7. CASE Start(p)
    BY <1>1, <1>3, <1>5, <1>7, StepSets
    DEF Start, Known, OnDisk, Steps, NoIdentitySteps
  <1>8. CASE Load(p)
    <2>1. Creating' = Creating \ {p} /\ Holding' = Holding \cup {p}
      BY <1>8, StepSets DEF Load, Steps, NoIdentitySteps
    <2>2. Known' \subseteq Known
      BY <1>8 DEF Load, Known, OnDisk
    <2>3. /\ \A q \in Procs : q # p => mem'[q] = mem[q]
          /\ mem'[p].key \in shown' /\ shown \subseteq shown'
      BY <1>1, <1>8 DEF Load
    <2> QED
      BY <1>1, <1>3, <1>5, <1>8, <2>1, <2>2, <2>3 DEF Load
  <1>9. CASE LoadRefused(p)
    BY <1>1, <1>3, <1>5, <1>9, StepSets
    DEF LoadRefused, Known, OnDisk, Steps, NoIdentitySteps
  <1>10. CASE Generate(p)
    <2>1. Creating' = Creating \cup {p} /\ Holding' = Holding \ {p}
      BY <1>10, StepSets DEF Generate, Steps, NoIdentitySteps
    <2>2. Known = {} /\ Known' = {} /\ shown' = {} /\ Holding = {}
      BY <1>10 DEF Generate, FreshInv, Known, OnDisk
    <2>3. /\ \A q \in Procs : q # p => mem'[q] = mem[q]
          /\ mem'[p].key = born + 1 /\ born' = born + 1
      BY <1>1, <1>10 DEF Generate
    <2>4. \A q \in Creating : mem[q].key \in 0..born
      BY DEF FreshInv
    <2>5. \A q, r \in Creating : q # r => mem[q].key # mem[r].key
      BY DEF FreshInv
    <2>6. ASSUME NEW q \in Creating'
          PROVE  /\ mem'[q].key \in 0..born' /\ mem'[q].key \notin Known'
                 /\ \A r \in Creating' : r # q => mem'[r].key # mem'[q].key
      BY <1>1, <2>1, <2>2, <2>3, <2>4, <2>5, <2>6
    <2> QED
      BY <2>1, <2>2, <2>6 DEF FreshInv
  <1>11. CASE Open(p)
    <2>1. /\ Known' \subseteq Known /\ file'.state = "torn"
          /\ mem' = mem /\ born' = born /\ shown' = shown
      BY <1>11 DEF Open, Known, OnDisk, Torn
    <2>2. Creating' = Creating /\ Holding' = Holding
      <3>1. CASE step[p] = "create" /\ Goto(p, "write_new")
        BY <1>2, <3>1, StepSets DEF Steps, NoIdentitySteps
      <3>2. CASE step[p] = "persist" /\ Goto(p, "write_pid")
        BY <1>2, <3>2, StepSets DEF Steps, NoIdentitySteps
      <3> QED
        BY <1>11, <3>1, <3>2 DEF Open
    <2> QED
      BY <1>3, <1>5, <2>1, <2>2
  <1>12. CASE Written(p)
    <2>1. Creating' = Creating \ {p} /\ Holding' = Holding \cup {p}
      BY <1>12, StepSets DEF Written, Steps, NoIdentitySteps
    <2>2. /\ Known' \subseteq Known \cup {mem[p].key}
          /\ shown' = shown \cup {mem[p].key} /\ mem' = mem /\ born' = born
          /\ file'.state = "whole"
      BY <1>12 DEF Written, Whole, Known, OnDisk
    <2>3. \A q \in Holding' : mem'[q].key \in shown'
      BY <1>5, <2>1, <2>2
    <2>4. p \in Creating \/ p \in Holding
      BY <1>2, <1>12 DEF Written
    <2>5. CASE p \in Creating
      BY <1>4, <2>1, <2>2, <2>3, <2>5
    <2>6. CASE p \in Holding
      <3>1. Known' \subseteq Known
        BY <1>5, <2>2, <2>6 DEF Known
      <3> QED
        BY <1>3, <2>1, <2>2, <2>3, <3>1
    <2> QED
      BY <2>4, <2>5, <2>6
  <1>13. CASE CreateFails(p)
    <2>1. p \in Creating /\ Creating' = Creating \ {p} /\ Holding' = Holding
      BY <1>2, <1>13, StepSets DEF CreateFails, Steps, NoIdentitySteps
    <2>2. /\ Known' \subseteq Known \cup {mem[p].key}
          /\ shown' = shown /\ born' = born
          /\ file'.state # "absent" \/ UNCHANGED file
      BY <1>13 DEF CreateFails, FailureOutcome, Torn, Whole, Known, OnDisk
    <2>3. \A q \in Procs : q # p => mem'[q] = mem[q]
      BY <1>1, <1>13 DEF CreateFails
    <2> QED
      BY <1>1, <1>2, <1>4, <1>5, <2>1, <2>2, <2>3
  <1>14. CASE PersistFails(p)
    <2>1. p \in Holding /\ Creating' = Creating \ {p} /\ Holding' = Holding
      BY <1>2, <1>14, StepSets DEF PersistFails, Steps, NoIdentitySteps
    <2>2. /\ Known' \subseteq Known \cup {mem[p].key}
          /\ shown' = shown /\ born' = born /\ mem' = mem
          /\ file'.state # "absent" \/ UNCHANGED file
      BY <1>14 DEF PersistFails, FailureOutcome, Torn, Whole, Known, OnDisk
    <2>3. Known' \subseteq Known
      BY <1>5, <2>1, <2>2 DEF Known
    <2> QED
      BY <1>3, <1>5, <2>1, <2>2, <2>3
  <1>15. CASE Crash(p)
    <2>1. Creating' = Creating \ {p} /\ Holding' = Holding \ {p}
      BY <1>15, StepSets DEF Crash, Steps, NoIdentitySteps
    <2>2. /\ Known' = Known /\ UNCHANGED <<file, shown, born>>
          /\ \A q \in Procs : q # p => mem'[q] = mem[q]
      BY <1>1, <1>15 DEF Crash, Known, OnDisk
    <2> QED
      BY <1>1, <1>3, <1>5, <2>1, <2>2
  <1>16. ASSUME NEW pid \in Pids, SetProviderId(p, pid) PROVE FreshInv'
    <2>1. Creating' = Creating \ {p} /\ Holding' = Holding \cup {p}
      BY <1>16, StepSets DEF SetProviderId, Steps, NoIdentitySteps
    <2>2. /\ Known' = Known /\ UNCHANGED <<file, shown, born>>
          /\ \A q \in Procs : q # p => mem'[q] = mem[q]
          /\ mem'[p].key = mem[p].key
      BY <1>1, <1>16 DEF SetProviderId, Known, OnDisk, Identities
    <2>3. p \in Holding
      BY <1>2, <1>16 DEF SetProviderId
    <2> QED
      BY <1>1, <1>3, <1>5, <2>1, <2>2, <2>3
  <1> QED
    BY <1>7, <1>8, <1>9, <1>10, <1>11, <1>12, <1>13, <1>14, <1>15, <1>16
    DEF IdentityStep, LoadOrCreate

LEMMA CountShrinks ==
  ASSUME NEW K, NEW C, NEW L, NEW D, IsFiniteSet(K), IsFiniteSet(C),
         L \subseteq K, D \subseteq C
  PROVE  Cardinality(L) + Cardinality(D) <= Cardinality(K) + Cardinality(C)
  <1>1. Cardinality(L) <= Cardinality(K) /\ Cardinality(D) <= Cardinality(C)
    BY FS_Subset
  <1>2. IsFiniteSet(L) /\ IsFiniteSet(D)
    BY FS_Subset
  <1>3. /\ Cardinality(K) \in Nat /\ Cardinality(C) \in Nat
        /\ Cardinality(L) \in Nat /\ Cardinality(D) \in Nat
    BY <1>2, FS_CardinalityType
  <1> QED
    BY <1>1, <1>3

LEMMA CountMoves ==
  ASSUME NEW K, NEW C, NEW L, NEW D, NEW k, NEW p \in C,
         IsFiniteSet(K), IsFiniteSet(C), L \subseteq K \cup {k}, D = C \ {p}
  PROVE  Cardinality(L) + Cardinality(D) <= Cardinality(K) + Cardinality(C)
  <1>1. /\ IsFiniteSet(K \cup {k})
        /\ Cardinality(K \cup {k}) <= Cardinality(K) + 1
    <2>1. /\ IsFiniteSet(K \cup {k})
          /\ Cardinality(K \cup {k}) =
               IF k \in K THEN Cardinality(K) ELSE Cardinality(K) + 1
      BY FS_AddElement
    <2>2. Cardinality(K) \in Nat
      BY FS_CardinalityType
    <2> QED
      BY <2>1, <2>2
  <1>2. IsFiniteSet(D) /\ Cardinality(D) = Cardinality(C) - 1
    BY FS_RemoveElement
  <1>3. Cardinality(L) <= Cardinality(K \cup {k}) /\ IsFiniteSet(L)
    BY <1>1, FS_Subset
  <1>4. /\ Cardinality(K) \in Nat /\ Cardinality(C) \in Nat
        /\ Cardinality(L) \in Nat /\ Cardinality(K \cup {k}) \in Nat
    BY <1>1, <1>3, FS_CardinalityType
  <1> QED
    BY <1>1, <1>2, <1>3, <1>4

LEMMA CountStep ==
  ASSUME IdentityType, FreshInv, CountInv, NEW p \in Procs, IdentityStep(p)
  PROVE  CountInv'
  <1>1. IsFiniteSet(Procs)
    BY IdentityAssumption
  <1>2. /\ IsFiniteSet(Creating) /\ IsFiniteSet(Known)
    <2>1. Creating \subseteq Procs
      BY DEF Creating
    <2>2. born \in Int /\ Known \subseteq 0..born
      BY IdentityAssumption DEF IdentityType, FreshInv
    <2>3. IsFiniteSet(0..born)
      BY <2>2, FS_Interval
    <2> QED
      BY <1>1, <2>1, <2>2, <2>3, FS_Subset
  <1>3. Cardinality(Known') + Cardinality(Creating') <= Cardinality(Procs)
    <2>1. CASE Known' \subseteq Known /\ Creating' \subseteq Creating
      <3>1. Cardinality(Known') + Cardinality(Creating')
              <= Cardinality(Known) + Cardinality(Creating)
        BY <1>2, <2>1, CountShrinks
      <3> QED
        BY <1>1, <1>2, <2>1, <3>1, FS_Subset, FS_CardinalityType DEF CountInv
    <2>2. CASE /\ p \in Creating /\ Creating' = Creating \ {p}
               /\ Known' \subseteq Known \cup {mem[p].key}
      <3>1. Cardinality(Known') + Cardinality(Creating')
              <= Cardinality(Known) + Cardinality(Creating)
        BY <1>2, <2>2, CountMoves
      <3>2. IsFiniteSet(Known \cup {mem[p].key})
        BY <1>2, FS_AddElement
      <3>3. IsFiniteSet(Known') /\ IsFiniteSet(Creating')
        <4>1. Creating' \subseteq Creating
          BY <2>2
        <4> QED
          BY <1>2, <2>2, <3>2, <4>1, FS_Subset
      <3> QED
        BY <1>1, <1>2, <3>1, <3>3, FS_CardinalityType DEF CountInv
    <2>3. CASE Known' = {} /\ Creating' \subseteq Procs
      BY <1>1, <2>3, FS_EmptySet, FS_Subset, FS_CardinalityType
    <2> QED
      BY <2>1, <2>2, <2>3, KnownStep
  <1> QED
    BY <1>3 DEF CountInv

(* Every step of Next is a step of load_or_create or set_provider_id by    *)
(* some process, or leaves the identity alone.                             *)
LEMMA NextIsIdentityStep ==
  ASSUME [Next]_vars
  PROVE  (\E p \in Procs : IdentityStep(p)) \/ UNCHANGED idVars
  <1>1. Agent \in Procs
    BY ConnectionAssumption
  <1> QED
    BY <1>1
    DEF Next, Boot, GetIdentity, Die, Dial, AnswerChallenge, AckKnown,
        AckAssigns, PersistOpen, Persisted, PersistFailed, AttemptFails,
        Discovered, Advertised, Ended, Wake, OtherCommand, IdentityStep, vars,
        idVars

LEMMA KeysStep ==
  ASSUME TypeOK, FreshInv, CountInv, [Next]_vars
  PROVE  FreshInv' /\ CountInv'
  <1>1. ASSUME NEW p \in Procs, IdentityStep(p) PROVE FreshInv' /\ CountInv'
    BY <1>1, FreshStep, CountStep DEF TypeOK
  <1>2. CASE UNCHANGED idVars
    BY <1>2 DEF idVars, FreshInv, CountInv, Known, OnDisk, Creating, Holding
  <1> QED
    BY <1>1, <1>2, NextIsIdentityStep

LEMMA CountInit == Init => CountInv
  <1>1. Cardinality({}) = 0 /\ Cardinality(Procs) \in Nat
    BY IdentityAssumption, FS_EmptySet, FS_CardinalityType
  <1>2. ASSUME Init PROVE CountInv
    BY <1>1, <1>2, KeysInit DEF CountInv
  <1> QED
    BY <1>2

LEMMA CountMeans == TypeOK /\ FreshInv /\ CountInv => KeysBounded
  <1> SUFFICES ASSUME TypeOK, FreshInv, CountInv
      PROVE Cardinality(shown) <= Cardinality(Procs)
    BY DEF KeysBounded
  <1>1. IsFiniteSet(Procs) /\ born \in Int
    BY IdentityAssumption DEF TypeOK, IdentityType
  <1>2. IsFiniteSet(Known) /\ IsFiniteSet(Creating)
    <2>1. Creating \subseteq Procs /\ Known \subseteq 0..born
      BY DEF Creating, FreshInv
    <2>2. IsFiniteSet(0..born)
      BY <1>1, FS_Interval
    <2> QED
      BY <1>1, <2>1, <2>2, FS_Subset
  <1>3. IsFiniteSet(shown) /\ Cardinality(shown) <= Cardinality(Known)
    BY <1>2, FS_Subset DEF Known
  <1> QED
    BY <1>1, <1>2, <1>3, FS_CardinalityType DEF CountInv

(* However many commands share the key file, and whatever crashes, failed  *)
(* writes and restarts do to it, no more keys are ever used than there are *)
(* commands.                                                               *)
THEOREM KeysNeverExceedCommands == Spec => []KeysBounded
  <1>1. Init => FreshInv /\ CountInv
    BY KeysInit, CountInit
  <1>2. TypeOK /\ FreshInv /\ CountInv /\ [Next]_vars
          => FreshInv' /\ CountInv'
    BY KeysStep
  <1> QED
    BY <1>1, <1>2, ConnectionTypeCorrect, CountMeans, PTL DEF Spec

(* An agent alone on its machine has one identity for ever.                *)
THEOREM OneKeyForEver ==
  ASSUME Procs = {Agent}
  PROVE  Spec => [](Cardinality(shown) <= 1)
  <1>1. Cardinality(Procs) = 1
    BY FS_Singleton
  <1>2. KeysBounded => Cardinality(shown) <= 1
    BY <1>1 DEF KeysBounded
  <1> QED
    BY <1>2, KeysNeverExceedCommands, PTL

-----------------------------------------------------------------------------
(* The enrollment code.                                                    *)

(* Other commands never write over an enrolled key but with a fresh one,   *)
(* and the agent writes the provider id whenever it writes an enrolled key.*)
LEMMA CodeStep ==
  ASSUME TypeOK, FreshInv, CodeInv, [Next]_vars
  PROVE  CodeInv'
  <1>0. /\ Agent \in Procs /\ step \in [Procs -> Steps]
        /\ mem \in [Procs -> Identities] /\ NoPid \notin Pids
        /\ conn = "persist" <=> step[Agent] \in {"persist", "write_pid"}
        /\ conn = "off" <=> step[Agent] \in NoIdentitySteps
    BY ConnectionAssumption, IdentityAssumption DEF TypeOK, IdentityType
  <1>1. /\ Agent \in Holding <=> step[Agent] \in {"ready", "persist", "write_pid"}
        /\ Agent \in Holding => mem[Agent].key \in shown
        /\ Agent \in Creating => mem[Agent].key \notin shown
        /\ Agent \in Creating <=> step[Agent] \in {"create", "write_new"}
    BY <1>0 DEF FreshInv, Known, Holding, Creating
  <1> USE DEF CodeInv, NoIdentitySteps
  <1>2. ASSUME NEW p \in Procs, UNCHANGED enrolled,
               LoadOrCreate(p) \/ Start(p) \/ Crash(p)
        PROVE  CodeInv'
    <2>1. ASSUME file' \in {file, Torn}, shown \subseteq shown',
                 \/ step'[Agent] \notin {"ready", "persist", "write_pid"}
                 \/ mem'[Agent] = mem[Agent] /\ step'[Agent] = step[Agent]
          PROVE  CodeInv'
      <3>1. Agent \in Holding' <=>
              step'[Agent] \in {"ready", "persist", "write_pid"}
        BY <1>0 DEF Holding
      <3> QED
        BY <1>1, <1>2, <2>1, <3>1 DEF Torn
    <2>2. \A s : Goto(p, s) => step'[Agent] = IF p = Agent THEN s ELSE step[Agent]
      BY <1>0 DEF Goto
    <2>3. ASSUME p \in Creating, file' = Whole(mem[p]), shown \subseteq shown',
                 \/ step'[Agent] \notin {"ready", "persist", "write_pid"}
                 \/ /\ mem'[Agent] = mem[Agent]
                    /\ step'[Agent] \in {step[Agent], "ready"}
          PROVE  CodeInv'
      <3>1. mem[p].key \notin enrolled
        BY <2>3 DEF FreshInv, Known
      <3>2. Agent \in Holding' <=>
              step'[Agent] \in {"ready", "persist", "write_pid"}
        BY <1>0 DEF Holding
      <3>3. Agent \in Holding \/ mem[Agent].key \notin enrolled
            \/ step'[Agent] \notin {"ready", "persist", "write_pid"}
        BY <1>0, <1>1, <1>2, <2>2, <2>3, <3>1
        DEF Creating, Steps, Holding, LoadOrCreate, Load, LoadRefused, Generate,
            Open, Written, CreateFails, Start, Crash
      <3> QED
        BY <1>1, <1>2, <2>3, <3>1, <3>2, <3>3 DEF Whole
    <2>4. CASE Start(p)
      BY <2>1, <2>2, <2>4 DEF Start
    <2>5. CASE Load(p)
      <3>1. CASE p = Agent
        BY <1>0, <1>1, <1>2, <2>2, <2>5, <3>1 DEF Load, Identities, Holding
      <3>2. CASE p # Agent
        BY <1>0, <2>1, <2>2, <2>5, <3>2 DEF Load
      <3> QED
        BY <3>1, <3>2
    <2>6. CASE LoadRefused(p)
      BY <2>1, <2>2, <2>6 DEF LoadRefused
    <2>7. CASE Generate(p)
      BY <1>0, <2>1, <2>2, <2>7 DEF Generate
    <2>8. CASE step[p] = "create" /\ Open(p)
      BY <2>1, <2>2, <2>8 DEF Open
    <2>9. CASE step[p] = "write_new" /\ Written(p)
      <3>1. p \in Creating
        BY <2>9 DEF Creating
      <3> QED
        BY <2>2, <2>3, <2>9, <3>1 DEF Written
    <2>10. CASE CreateFails(p)
      <3>1. p \in Creating
        BY <2>10 DEF Creating, CreateFails
      <3>2. \/ step'[Agent] \notin {"ready", "persist", "write_pid"}
            \/ mem'[Agent] = mem[Agent] /\ step'[Agent] = step[Agent]
        BY <1>0, <2>2, <2>10 DEF CreateFails
      <3> QED
        BY <2>1, <2>3, <2>10, <3>1, <3>2 DEF CreateFails, FailureOutcome
    <2>11. CASE Crash(p)
      BY <1>0, <2>1, <2>2, <2>11 DEF Crash
    <2> QED
      BY <1>2, <2>4, <2>5, <2>6, <2>7, <2>8, <2>9, <2>10, <2>11
      DEF LoadOrCreate
  <1>3. CASE Boot \/ GetIdentity \/ Die
    BY <1>0, <1>2, <1>3 DEF Boot, GetIdentity, Die, connVars
  <1>4. ASSUME NEW p \in Procs \ {Agent}, OtherCommand(p) PROVE CodeInv'
    BY <1>2, <1>4 DEF OtherCommand, connVars
  <1>5. CASE \E pid \in Pids : AckAssigns(pid)
    BY <1>0, <1>1, <1>5
    DEF AckAssigns, SetProviderId, Goto, Identities, Holding
  <1>6. CASE PersistOpen
    BY <1>0, <1>1, <1>6 DEF PersistOpen, Open, Goto, Torn, connVars, Holding
  <1>7. CASE Persisted
    BY <1>0, <1>1, <1>7
    DEF Persisted, Advance, Written, Goto, Whole, Holding
  <1>8. CASE PersistFailed
    BY <1>0, <1>1, <1>8
    DEF PersistFailed, PersistFails, FailureOutcome, FailPreAuth, Goto, Torn,
        Whole, Holding
  <1>9. CASE UNCHANGED <<idVars, enrolled>>
    BY <1>9 DEF idVars, Holding
  <1> QED
    BY <1>3, <1>4, <1>5, <1>6, <1>7, <1>8, <1>9
    DEF Next, Dial, AnswerChallenge, AckKnown, AttemptFails, FailPreAuth,
        Discovered, Advertised, Ended, EndSession, Wake, vars, connVars

LEMMA CodeWithheld ==
  ASSUME TypeOK, CodeInv, [Next]_vars, conn = "challenge", conn' = "ack",
         response'.key \in enrolled
  PROVE  ~response'.code
  <1>1. step[Agent] = "ready"
    BY ConnectionAssumption DEF TypeOK, IdentityType, Steps, NoIdentitySteps
  <1>2. AnswerChallenge
    BY <1>1 DEF Next, Boot, GetIdentity, Die, Dial, AckKnown, AckAssigns,
                PersistOpen, Persisted, PersistFailed, AttemptFails,
                FailPreAuth, Discovered, Advertised, Ended, EndSession, Wake,
                OtherCommand, Advance, vars, connVars
  <1>3. Agent \in Holding
    BY <1>1, ConnectionAssumption DEF Holding
  <1>4. mem[Agent].pid # NoPid
    BY <1>2, <1>3 DEF CodeInv, AnswerChallenge
  <1> QED
    BY <1>2, <1>4 DEF AnswerChallenge

(* Once set_provider_id has succeeded for a key, the agent never sends the *)
(* enrollment code with that key again, across any crashes and restarts    *)
(* and whatever other commands do to the key file.                         *)
THEOREM CodeNeverReplayed == Spec => CodeNotReplayed
  <1>1. TypeOK /\ FreshInv /\ CountInv /\ [Next]_vars
          => FreshInv' /\ CountInv'
    BY KeysStep
  <1>2. TypeOK /\ FreshInv /\ CodeInv /\ [Next]_vars => CodeInv'
    BY CodeStep
  <1>3. Init => FreshInv /\ CountInv /\ CodeInv
    BY KeysInit, CountInit
  <1>4. TypeOK /\ CodeInv /\ [Next]_vars =>
          [conn = "challenge" /\ conn' = "ack" /\ response'.key \in enrolled
             => ~response'.code]_vars
    BY CodeWithheld
  <1> QED
    BY <1>1, <1>2, <1>3, <1>4, ConnectionTypeCorrect, PTL
    DEF Spec, CodeNotReplayed
=============================================================================
