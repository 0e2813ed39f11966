--------------------------- MODULE ServiceProofs ----------------------------
(***************************************************************************)
(* The safety of Service under Deployment, for every set of options and    *)
(* every file that may appear.  A command is cut off only by losing the    *)
(* steps it has left, so the invariant says for each tail of its steps     *)
(* what is already done; nothing but the command itself undoes it.         *)
(***************************************************************************)
EXTENDS Deployment, TLAPS

Lines == Options \cup {Bare}

Words == {"mkdir", "useradd", "chown", "register", "stop", "start", "remove",
          "fetch", "replace", "copied"}

(* The tails of the steps of a command, but the empty one.                 *)
Tails(act) ==
  [install   |-> IF platform = "linux"
                 THEN {<<"mkdir", "useradd", "chown", "register">>,
                       <<"useradd", "chown", "register">>,
                       <<"chown", "register">>, <<"register">>}
                 ELSE {<<"mkdir", "register">>, <<"register">>},
   uninstall |-> {<<"stop", "remove">>, <<"remove">>},
   start     |-> {<<"start">>},
   stop      |-> {<<"stop">>},
   restart   |-> {<<"stop", "start">>, <<"start">>},
   upgrade   |-> {<<"fetch", "replace", "copied">>, <<"replace", "copied">>,
                  <<"copied">>}][act]

CmdInv ==
  \/ cmd = Idle
  \/ /\ cmd \in [act : Acts, opts : Lines, todo : Seq(Words)]
     /\ cmd.todo \in Tails(cmd.act)

(* What install has done when these steps are left.                        *)
InstallInv ==
  cmd.act = "install" /\ platform = "linux" =>
    /\ cmd.todo \in {<<"chown", "register">>, <<"register">>} => account # "absent"
    /\ cmd.todo = <<"register">> => workdir = "usepod"

(* After the stop of a restart or an uninstall.                            *)
StopInv ==
  cmd.todo \in {<<"start">>, <<"remove">>} /\ cmd.act \in {"restart", "uninstall"}
    => unstopped \/ svc.state = "down"

Processes == [state : Running \cup {"down", "waiting"}, line : Lines,
              key : KeyFiles \cup {"none"}, stale : BOOLEAN]

KeyStates == {"absent", "whole", "torn"}

Typed ==
  /\ platform \in Platforms
  /\ files \in [Places -> Contents]
  /\ account \in {"absent", "nohome", "workhome"}
  /\ workdir \in {"absent", "root", "usepod"}
  /\ unit \in [installed : BOOLEAN, line : Lines, asked : Lines]
  /\ wanted \in BOOLEAN /\ (wanted => unit.installed)
  /\ keys \in [KeyFiles -> KeyStates]
  /\ svc \in Processes
  /\ svc.state = "waiting" => wanted
  /\ svc.key \in KeyFiles <=> svc.state \in Identified
  /\ unstopped \in BOOLEAN
  /\ binary \in {"whole", "torn"}

IInv == Typed /\ CmdInv /\ InstallInv /\ UnitReady /\ StopInv

-----------------------------------------------------------------------------
(* Short sequences.                                                        *)
LEMMA Tuple1 == \A a : /\ <<a>> # <<>> /\ Head(<<a>>) = a /\ Len(<<a>>) = 1
  OBVIOUS
LEMMA Tuple2 == \A a, b : /\ <<a, b>> # <<>> /\ Head(<<a, b>>) = a
                          /\ Len(<<a, b>>) = 2 /\ Tail(<<a, b>>) = <<b>>
  OBVIOUS
LEMMA Tuple3 == \A a, b, c :
  /\ <<a, b, c>> # <<>> /\ Head(<<a, b, c>>) = a
  /\ Len(<<a, b, c>>) = 3 /\ Tail(<<a, b, c>>) = <<b, c>>
  OBVIOUS
LEMMA Tuple4 == \A a, b, c, d :
  /\ <<a, b, c, d>> # <<>> /\ Head(<<a, b, c, d>>) = a
  /\ Len(<<a, b, c, d>>) = 4 /\ Tail(<<a, b, c, d>>) = <<b, c, d>>
  OBVIOUS

LEMMA IInvMeans == IInv => ServiceTypeOK /\ UnitReady
<1> SUFFICES ASSUME IInv PROVE ServiceTypeOK  BY DEF IInv
<1>1. cmd.todo # <<>> <=> cmd.act \in Acts
  <2>1. CASE cmd = Idle  BY <2>1 DEF Idle, Acts
  <2>2. CASE cmd # Idle
    BY <2>2, Tuple1, Tuple2, Tuple3, Tuple4 DEF IInv, CmdInv, Tails, Acts
  <2> QED  BY <2>1, <2>2
<1> QED  BY <1>1 DEF IInv, Typed, ServiceTypeOK, Processes, KeyStates

LEMMA ContentTyped == \A f : ContentOf(f) \in Contents
  BY DEF ContentOf, Contents

LEMMA BareLine == Bare \in Lines /\ Options \subseteq Lines
  BY DEF Lines

LEMMA ProcTyped ==
  /\ NoProc \in Processes
  /\ NoProc.state = "down" /\ NoProc.key = "none"
  /\ "none" \notin KeyFiles
  /\ {"down", "waiting", "boot"} \cap Identified = {}
  BY BareLine DEF NoProc, KeyFiles, Processes, Identified, KeyWriting

LEMMA ServiceStarts == DeploymentInit => IInv
<1> SUFFICES ASSUME DeploymentInit PROVE IInv  OBVIOUS
<1> USE DEF DeploymentInit, ServiceInit
<1>1. Typed
  <2>1. svc \in Processes /\ svc.state = "down" /\ svc.key = "none"
    BY ProcTyped
  <2>2. keys \in [KeyFiles -> KeyStates]  BY DEF KeyStates
  <2>3. files \in [Places -> Contents]  BY ContentTyped DEF Contents
  <2> QED  BY <2>1, <2>2, <2>3, ProcTyped, BareLine DEF Typed
<1>2. CmdInv /\ InstallInv /\ UnitReady /\ StopInv
  BY DEF CmdInv, InstallInv, UnitReady, StopInv, Idle
<1> QED  BY <1>1, <1>2 DEF IInv
-----------------------------------------------------------------------------
LEMMA TailInTails ==
  \A act \in Acts : \A todo \in Tails(act) :
    Len(todo) # 1 => Tail(todo) \in Tails(act)
<1> SUFFICES ASSUME NEW act \in Acts, NEW todo \in Tails(act), Len(todo) # 1
             PROVE  Tail(todo) \in Tails(act)
  OBVIOUS
<1>1. CASE act = "install" /\ platform = "linux"
  <2>1. Tails(act) = {<<"mkdir", "useradd", "chown", "register">>,
                      <<"useradd", "chown", "register">>,
                      <<"chown", "register">>, <<"register">>}
    BY <1>1 DEF Tails
  <2>2. CASE todo = <<"mkdir", "useradd", "chown", "register">>
    <3>1. Tail(todo) = <<"useradd", "chown", "register">>  BY <2>2, Tuple4
    <3> QED  BY <2>1, <3>1
  <2>3. CASE todo = <<"useradd", "chown", "register">>
    <3>1. Tail(todo) = <<"chown", "register">>  BY <2>3, Tuple3
    <3> QED  BY <2>1, <3>1
  <2>4. CASE todo = <<"chown", "register">>
    <3>1. Tail(todo) = <<"register">>  BY <2>4, Tuple2
    <3> QED  BY <2>1, <3>1
  <2> QED  BY <2>1, <2>2, <2>3, <2>4, Tuple1
<1>2. CASE act = "install" /\ platform # "linux"
  <2>1. Tails(act) = {<<"mkdir", "register">>, <<"register">>}
    BY <1>2 DEF Tails
  <2> QED  BY <2>1, Tuple1, Tuple2
<1>3. CASE act = "uninstall"
  <2>1. Tails(act) = {<<"stop", "remove">>, <<"remove">>}
    BY <1>3 DEF Tails
  <2> QED  BY <2>1, Tuple1, Tuple2
<1>4. CASE act \in {"start", "stop"}
  <2>1. Tails(act) = {<<act>>}  BY <1>4 DEF Tails
  <2> QED  BY <2>1, Tuple1
<1>5. CASE act = "restart"
  <2>1. Tails(act) = {<<"stop", "start">>, <<"start">>}
    BY <1>5 DEF Tails
  <2> QED  BY <2>1, Tuple1, Tuple2
<1>6. CASE act = "upgrade"
  <2>1. Tails(act) = {<<"fetch", "replace", "copied">>,
                      <<"replace", "copied">>, <<"copied">>}
    BY <1>6 DEF Tails
  <2>2. CASE todo = <<"fetch", "replace", "copied">>
    <3>1. Tail(todo) = <<"replace", "copied">>  BY <2>2, Tuple3
    <3> QED  BY <2>1, <3>1
  <2>3. CASE todo = <<"replace", "copied">>
    <3>1. Tail(todo) = <<"copied">>  BY <2>3, Tuple2
    <3> QED  BY <2>1, <3>1
  <2> QED  BY <2>1, <2>2, <2>3, Tuple1
<1> QED  BY <1>1, <1>2, <1>3, <1>4, <1>5, <1>6 DEF Acts

(* The step of a command: it is the head of a tail, and what comes after   *)
(* it says which one it was.                                               *)
LEMMA ProceedKeeps ==
  ASSUME CmdInv, NEW step, At(step), Proceed, platform' = platform
  PROVE  CmdInv'
<1>1. cmd.act \in Acts /\ cmd.todo \in Tails(cmd.act)
      /\ cmd \in [act : Acts, opts : Lines, todo : Seq(Words)]
  BY DEF CmdInv, Idle, At
<1>2. CASE Len(cmd.todo) = 1  BY <1>2 DEF Proceed, CmdInv
<1>3. CASE Len(cmd.todo) # 1
  <2>1. cmd' = [cmd EXCEPT !.todo = Tail(cmd.todo)]  BY <1>3 DEF Proceed
  <2>2. Tail(cmd.todo) \in Tails(cmd.act)
    BY <1>1, <1>3, TailInTails
  <2>3. Tail(cmd.todo) \in Seq(Words)
    BY <1>1 DEF At
  <2> QED  BY <1>1, <2>1, <2>2, <2>3 DEF CmdInv, Tails, Acts
<1> QED  BY <1>2, <1>3

LEMMA ProceedCases ==
  ASSUME CmdInv, NEW step, At(step), Proceed
  PROVE  \/ cmd' = Idle
         \/ cmd'.act = cmd.act /\ cmd'.todo = Tail(cmd.todo)
            /\ Len(cmd.todo) # 1
<1>1. cmd \in [act : Acts, opts : Lines, todo : Seq(Words)]
  BY DEF CmdInv, Idle, At
<1> QED  BY <1>1 DEF Proceed

(* The steps before the last ones of install, and before the second of     *)
(* restart and uninstall.                                                  *)
LEMMA BeforeInstalled ==
  ASSUME CmdInv, NEW step, At(step), Proceed,
         cmd'.act = "install", platform = "linux"
  PROVE  /\ cmd.act = "install"
         /\ cmd'.todo = <<"chown", "register">> => step = "useradd"
         /\ cmd'.todo = <<"register">> =>
              step = "chown" /\ cmd.todo = <<"chown", "register">>
<1>1. cmd' # Idle  BY DEF Idle
<1>2. cmd.act = "install" /\ cmd'.todo = Tail(cmd.todo) /\ Len(cmd.todo) # 1
  BY <1>1, ProceedCases
<1>3. cmd.todo \in {<<"mkdir", "useradd", "chown", "register">>,
                    <<"useradd", "chown", "register">>,
                    <<"chown", "register">>, <<"register">>}
  BY <1>2 DEF CmdInv, Tails, Idle
<1>4. CASE cmd.todo = <<"mkdir", "useradd", "chown", "register">>
  BY <1>2, <1>4, Tuple1, Tuple2, Tuple3, Tuple4 DEF At
<1>5. CASE cmd.todo = <<"useradd", "chown", "register">>
  BY <1>2, <1>5, Tuple1, Tuple2, Tuple3 DEF At
<1>6. CASE cmd.todo = <<"chown", "register">>
  BY <1>2, <1>6, Tuple1, Tuple2 DEF At
<1> QED  BY <1>2, <1>3, <1>4, <1>5, <1>6, Tuple1

LEMMA BeforeSecond ==
  ASSUME CmdInv, NEW step, At(step), Proceed,
         cmd'.act \in {"restart", "uninstall"},
         cmd'.todo \in {<<"start">>, <<"remove">>}
  PROVE  step = "stop"
<1>1. cmd' # Idle  BY DEF Idle
<1>2. cmd.act \in {"restart", "uninstall"}
      /\ cmd'.todo = Tail(cmd.todo) /\ Len(cmd.todo) # 1
  BY <1>1, ProceedCases
<1>3. cmd.todo \in {<<"stop", "start">>, <<"start">>, <<"stop", "remove">>,
                    <<"remove">>}
  BY <1>2 DEF CmdInv, Tails, Idle
<1> QED  BY <1>2, <1>3, Tuple1, Tuple2 DEF At
(* What a step of a command must do for the invariant, and what any other  *)
(* action must leave alone.                                                *)
LEMMA WorkKeeps ==
  ASSUME IInv, NEW step, At(step), Proceed, platform' = platform, Typed',
         UnitReady',
         account # "absent" \/ step = "useradd" => account' # "absent",
         workdir = "usepod" \/ step = "chown" => workdir' = "usepod",
         step = "stop" => unstopped' \/ svc'.state = "down"
  PROVE  IInv'
<1>1. CmdInv /\ InstallInv  BY DEF IInv
<1>2. CmdInv'  BY <1>1, ProceedKeeps
<1>3. InstallInv'
  <2> SUFFICES ASSUME cmd'.act = "install", platform = "linux"
               PROVE  /\ cmd'.todo \in {<<"chown", "register">>, <<"register">>}
                           => account' # "absent"
                      /\ cmd'.todo = <<"register">> => workdir' = "usepod"
    BY DEF InstallInv
  <2>1. /\ cmd.act = "install"
        /\ cmd'.todo = <<"chown", "register">> => step = "useradd"
        /\ cmd'.todo = <<"register">> =>
              step = "chown" /\ cmd.todo = <<"chown", "register">>
    BY <1>1, BeforeInstalled
  <2>2. cmd.todo = <<"chown", "register">> => account # "absent"
    BY <1>1, <2>1 DEF InstallInv
  <2> QED  BY <2>1, <2>2
<1>4. StopInv'  BY <1>1, BeforeSecond DEF StopInv
<1> QED  BY <1>2, <1>3, <1>4 DEF IInv

LEMMA OtherKeeps ==
  ASSUME IInv, UNCHANGED <<platform, account, workdir, unit, cmd, unstopped>>,
         Typed', svc.state = "down" => svc'.state = "down"
  PROVE  IInv'
<1>1. CmdInv'  BY DEF IInv, CmdInv, Tails
<1>2. InstallInv'  BY DEF IInv, InstallInv
<1>3. UnitReady'  BY DEF IInv, UnitReady
<1>4. StopInv'  BY DEF IInv, StopInv
<1> QED  BY <1>1, <1>2, <1>3, <1>4 DEF IInv

LEMMA IdleKeeps ==
  ASSUME IInv, UNCHANGED <<platform, account, workdir>>, cmd' = Idle, Typed',
         unit'.installed => unit.installed
  PROVE  IInv'
<1>1. CmdInv' /\ InstallInv' /\ StopInv'
  BY DEF CmdInv, InstallInv, StopInv, Idle
<1>2. UnitReady'  BY DEF IInv, UnitReady
<1> QED  BY <1>1, <1>2 DEF IInv

LEMMA LineTyped == \A p, opts : opts \in Lines => CommandLine(p, opts) \in Lines
  BY BareLine DEF CommandLine

LEMMA SpawnTyped ==
  ASSUME NEW line \in Lines, Spawn(line)
  PROVE  svc' \in Processes /\ svc'.state = "boot" /\ svc'.key = "none"
  BY DEF Spawn, Processes, Running

LEMMA ExitedTyped ==
  /\ Exited \in Processes
  /\ Exited.state = "down" \/ (Exited.state = "waiting" /\ wanted)
  /\ Exited.key = "none"
  BY BareLine DEF Exited, NoProc, Processes

LEMMA StaleTyped ==
  ASSUME NEW p \in Processes, NEW s \in BOOLEAN
  PROVE  /\ [p EXCEPT !.stale = s] \in Processes
         /\ [p EXCEPT !.stale = s].state = p.state
         /\ [p EXCEPT !.stale = s].key = p.key
  BY DEF Processes

LEMMA StepsTyped ==
  \A act \in Acts : /\ Steps(act, platform) \in Tails(act)
                    /\ Steps(act, platform) \in Seq(Words)
<1> SUFFICES ASSUME NEW act \in Acts
             PROVE  /\ Steps(act, platform) \in Tails(act)
                    /\ Steps(act, platform) \in Seq(Words)
  OBVIOUS
<1>1. CASE act = "install" /\ platform = "linux"
  <2>1. Steps(act, platform) = <<"mkdir", "useradd", "chown", "register">>
    BY <1>1 DEF Steps, InstallSteps
  <2>2. <<"mkdir", "useradd", "chown", "register">> \in Tails(act)
    BY <1>1 DEF Tails
  <2>3. <<"mkdir", "useradd", "chown", "register">> \in Seq(Words)  BY DEF Words
  <2> QED  BY <2>1, <2>2, <2>3
<1>2. CASE act = "install" /\ platform # "linux"
  <2>1. Steps(act, platform) = <<"mkdir", "register">>
    BY <1>2 DEF Steps, InstallSteps
  <2>2. <<"mkdir", "register">> \in Tails(act)  BY <1>2 DEF Tails
  <2>3. <<"mkdir", "register">> \in Seq(Words)  BY DEF Words
  <2> QED  BY <2>1, <2>2, <2>3
<1>3. CASE act = "uninstall"
  <2>1. Steps(act, platform) = <<"stop", "remove">>  BY <1>3 DEF Steps
  <2>2. <<"stop", "remove">> \in Tails(act)  BY <1>3 DEF Tails
  <2>3. <<"stop", "remove">> \in Seq(Words)  BY DEF Words
  <2> QED  BY <2>1, <2>2, <2>3
<1>4. CASE act = "restart"
  <2>1. Steps(act, platform) = <<"stop", "start">>
    BY <1>4 DEF Steps, RestartSteps
  <2>2. <<"stop", "start">> \in Tails(act)  BY <1>4 DEF Tails
  <2>3. <<"stop", "start">> \in Seq(Words)  BY DEF Words
  <2> QED  BY <2>1, <2>2, <2>3
<1>5. CASE act = "start"
  <2>1. Steps(act, platform) = <<"start">>  BY <1>5 DEF Steps
  <2>2. <<"start">> \in Tails(act)  BY <1>5 DEF Tails
  <2>3. <<"start">> \in Seq(Words)  BY DEF Words
  <2> QED  BY <2>1, <2>2, <2>3
<1>6. CASE act = "stop"
  <2>1. Steps(act, platform) = <<"stop">>  BY <1>6 DEF Steps
  <2>2. <<"stop">> \in Tails(act)  BY <1>6 DEF Tails
  <2>3. <<"stop">> \in Seq(Words)  BY DEF Words
  <2> QED  BY <2>1, <2>2, <2>3
<1>7. CASE act = "upgrade"
  <2>1. Steps(act, platform) = <<"fetch", "replace", "copied">>
    BY <1>7 DEF Steps
  <2>2. <<"fetch", "replace", "copied">> \in Tails(act)  BY <1>7 DEF Tails
  <2>3. <<"fetch", "replace", "copied">> \in Seq(Words)  BY DEF Words
  <2> QED  BY <2>1, <2>2, <2>3
<1> QED  BY <1>1, <1>2, <1>3, <1>4, <1>5, <1>6, <1>7 DEF Acts

(* Every action on the service keeps the invariant.                        *)
LEMMA BeginKeeps ==
  ASSUME IInv, NEW act \in Acts, NEW opts \in Lines, Begin(act, opts)
  PROVE  IInv'
<1>1. Typed'
  <2>1. (svc.state \in Running) \in BOOLEAN  OBVIOUS
  <2>2. svc' \in Processes /\ svc'.state = svc.state /\ svc'.key = svc.key
    BY <2>1, StaleTyped DEF IInv, Typed, Begin
  <2> QED  BY <2>2 DEF IInv, Typed, Begin
<1>2. cmd' = [act |-> act, opts |-> opts, todo |-> Steps(act, platform)]
      /\ platform' = platform
  BY DEF Begin
<1>3. Steps(act, platform) \in Tails(act)
  BY StepsTyped
<1>4. Steps(act, platform) \in Seq(Words)
  BY StepsTyped
<1>5. CmdInv'
  BY <1>2, <1>3, <1>4 DEF CmdInv, Tails
<1>6. InstallInv'
  BY <1>2, Tuple1, Tuple2, Tuple4 DEF InstallInv, Steps, InstallSteps
<1>7. StopInv'
  BY <1>2, Tuple1, Tuple2 DEF StopInv, Steps, RestartSteps
<1>8. UnitReady'  BY DEF IInv, UnitReady, Begin
<1> QED  BY <1>1, <1>5, <1>6, <1>7, <1>8 DEF IInv

LEMMA InstallKeeps ==
  IInv /\ (MakeWorkdir \/ AddUser \/ Chown \/ Register) => IInv'
<1> SUFFICES ASSUME IInv, MakeWorkdir \/ AddUser \/ Chown \/ Register
             PROVE  IInv'
  OBVIOUS
<1>1. CASE MakeWorkdir
  <2>1. Typed' /\ UnitReady'  BY <1>1 DEF IInv, Typed, UnitReady, MakeWorkdir
  <2> QED  BY <1>1, <2>1, WorkKeeps DEF MakeWorkdir
<1>2. CASE AddUser
  <2>1. Typed' /\ UnitReady'  BY <1>2 DEF IInv, Typed, UnitReady, AddUser
  <2> QED  BY <1>2, <2>1, WorkKeeps DEF AddUser
<1>3. CASE Chown
  <2>1. Typed' /\ UnitReady'  BY <1>3 DEF IInv, Typed, UnitReady, Chown
  <2> QED  BY <1>3, <2>1, WorkKeeps DEF Chown
<1>4. CASE Register
  <2>1. cmd.act \in Acts /\ cmd.opts \in Lines /\ cmd.todo \in Tails(cmd.act)
    BY <1>4 DEF IInv, CmdInv, Idle, Register, At
  <2>2. CommandLine(platform, cmd.opts) \in Lines  BY <2>1, LineTyped
  <2>3. Typed'
    <3>1. unit' \in [installed : BOOLEAN, line : Lines, asked : Lines]
          /\ unit'.installed
      BY <1>4, <2>1, <2>2 DEF Register
    <3>2. CASE UNCHANGED <<wanted, svc>>
      BY <1>4, <3>1, <3>2 DEF IInv, Typed, Register
    <3>3. CASE wanted' = TRUE /\ Spawn(CommandLine(platform, cmd.opts))
      BY <1>4, <2>2, <3>1, <3>3, SpawnTyped, ProcTyped DEF IInv, Typed, Register
    <3> QED  BY <1>4, <3>2, <3>3 DEF Register
  <2>4. cmd.act = "install" /\ (platform = "linux" => cmd.todo = <<"register">>)
    BY <1>4, <2>1, Tuple1, Tuple2, Tuple3, Tuple4 DEF Tails, Acts, Register, At
  <2>5. UnitReady'
    BY <1>4, <2>4 DEF IInv, InstallInv, UnitReady, Register
  <2> QED  BY <1>4, <2>3, <2>5, WorkKeeps DEF Register
<1> QED  BY <1>1, <1>2, <1>3, <1>4
LEMMA ControlKeeps ==
  IInv /\ (Stop \/ StopRefused \/ StartService \/ Remove) => IInv'
<1> SUFFICES ASSUME IInv, Stop \/ StopRefused \/ StartService \/ Remove
             PROVE  IInv'
  OBVIOUS
<1>1. CASE Stop
  <2>1. Typed' /\ UnitReady'
    BY <1>1, ProcTyped DEF IInv, Typed, UnitReady, Stop
  <2> QED  BY <1>1, <2>1, WorkKeeps, ProcTyped DEF Stop
<1>2. CASE StopRefused
  <2>1. Typed' /\ UnitReady'  BY <1>2 DEF IInv, Typed, UnitReady, StopRefused
  <2>2. svc' = svc /\ unstopped' = (svc.state # "down")  BY <1>2 DEF StopRefused
  <2>3. CASE cmd' = Idle
    BY <1>2, <2>1, <2>3, IdleKeeps DEF StopRefused
  <2>4. CASE Proceed
    BY <1>2, <2>1, <2>2, <2>4, WorkKeeps DEF StopRefused
  <2> QED  BY <1>2, <2>3, <2>4 DEF StopRefused
<1>3. CASE StartService
  <2>1. Typed' /\ UnitReady'
    <3>1. unit.line \in Lines  BY DEF IInv, Typed
    <3>2. CASE UNCHANGED svc
      BY <1>3, <3>2 DEF IInv, Typed, UnitReady, StartService
    <3>3. CASE Spawn(unit.line)
      BY <1>3, <3>1, <3>3, SpawnTyped, ProcTyped
         DEF IInv, Typed, UnitReady, StartService
    <3> QED  BY <1>3, <3>2, <3>3 DEF StartService
  <2> QED  BY <1>3, <2>1, WorkKeeps DEF StartService
<1>4. CASE Remove
  <2>1. Typed' /\ UnitReady'
    BY <1>4, ProcTyped DEF IInv, Typed, UnitReady, Remove
  <2> QED  BY <1>4, <2>1, WorkKeeps DEF Remove
<1> QED  BY <1>1, <1>2, <1>3, <1>4

LEMMA UpgradeKeeps == IInv /\ (Fetch \/ Replace \/ Copied) => IInv'
<1> SUFFICES ASSUME IInv, Fetch \/ Replace \/ Copied PROVE IInv'  OBVIOUS
<1> USE DEF Fetch, Replace, Copied
<1>1. Typed' /\ UnitReady'  BY DEF IInv, Typed, UnitReady
<1> QED  BY <1>1, WorkKeeps

(* The process goes on with the key file it has.                           *)
LEMMA StateTyped ==
  ASSUME NEW p \in Processes, NEW state \in Identified
  PROVE  /\ [p EXCEPT !.state = state] \in Processes
         /\ [p EXCEPT !.state = state].state = state
         /\ [p EXCEPT !.state = state].key = p.key
  BY DEF Processes, Running

LEMMA KeysTyped ==
  ASSUME keys \in [KeyFiles -> KeyStates],
         NEW key, NEW state \in KeyStates, keys' = [keys EXCEPT ![key] = state]
  PROVE  keys' \in [KeyFiles -> KeyStates]
  OBVIOUS

(* A step of the process and of its key file.                              *)
LEMMA ProcessTyped ==
  ASSUME IInv, keys' \in [KeyFiles -> KeyStates], svc' \in Processes,
         svc'.state = "waiting" => wanted,
         svc'.key \in KeyFiles <=> svc'.state \in Identified,
         UNCHANGED <<platform, files, account, workdir, unit, wanted, unstopped,
                     binary>>
  PROVE  Typed'
  BY DEF IInv, Typed

LEMMA ProcessKeeps ==
  IInv /\ (Boot \/ Persist \/ KeyWritten \/ KeyFails \/ Crash \/ Respawn) => IInv'
<1> SUFFICES ASSUME IInv,
                    Boot \/ Persist \/ KeyWritten \/ KeyFails \/ Crash \/ Respawn
             PROVE  IInv'
  OBVIOUS
<1>1. svc \in Processes /\ keys \in [KeyFiles -> KeyStates]
  BY DEF IInv, Typed
<1>2. /\ "serving" \in Identified /\ "creating" \in Identified
      /\ "persisting" \in Identified /\ "waiting" \notin Identified
      /\ {"absent", "whole", "torn"} = KeyStates
      /\ "down" \notin Identified
  BY DEF Identified, KeyWriting, KeyStates
<1>3. ASSUME svc' = Exited, keys' \in [KeyFiles -> KeyStates],
             UNCHANGED <<platform, files, account, workdir, unit, wanted, unstopped,
                         binary>>
      PROVE  Typed'
  BY <1>2, <1>3, ExitedTyped, ProcTyped, ProcessTyped
<1>4. Typed'
  <2>1. CASE Boot
    <3> DEFINE place == Place(svc.line)
               key   == KeyAt(place)
    <3>1. key \in KeyFiles  BY DEF KeyAt, KeyFiles
    <3>2. \/ /\ svc' = [svc EXCEPT !.state = "serving", !.key = key]
             /\ UNCHANGED keys
          \/ /\ svc' = [svc EXCEPT !.state = "creating", !.key = key]
             /\ keys' = [keys EXCEPT ![key] = "torn"]
          \/ svc' = Exited /\ UNCHANGED keys
      BY <2>1 DEF Boot
    <3>3. UNCHANGED <<platform, files, account, workdir, unit, wanted, unstopped,
                      binary>>
      BY <2>1 DEF Boot
    <3> HIDE DEF place, key
    <3>4. CASE svc' = [svc EXCEPT !.state = "serving", !.key = key] /\ UNCHANGED keys
      <4>1. svc' \in Processes /\ svc'.state = "serving" /\ svc'.key = key
        BY <1>1, <3>1, <3>4 DEF Processes, Running, Identified
      <4>2. keys' \in [KeyFiles -> KeyStates]  BY <1>1, <3>4
      <4> QED  BY <1>2, <3>1, <3>3, <4>1, <4>2, ProcessTyped
    <3>5. CASE /\ svc' = [svc EXCEPT !.state = "creating", !.key = key]
               /\ keys' = [keys EXCEPT ![key] = "torn"]
      <4>1. svc' \in Processes /\ svc'.state = "creating" /\ svc'.key = key
        BY <1>1, <3>1, <3>5 DEF Processes, Running, Identified, KeyWriting
      <4>2. keys' \in [KeyFiles -> KeyStates]
        BY <1>1, <1>2, <3>5, KeysTyped
      <4> QED  BY <1>2, <3>1, <3>3, <4>1, <4>2, ProcessTyped
    <3>6. CASE svc' = Exited /\ UNCHANGED keys  BY <1>1, <1>3, <3>3, <3>6
    <3> QED  BY <3>2, <3>4, <3>5, <3>6
  <2>2. CASE Persist \/ KeyWritten \/ KeyFails
    <3>1. svc.state \in Identified /\ svc.key \in KeyFiles
      BY <2>2 DEF Persist, KeyWritten, KeyFails, Identified, IInv, Typed
    <3>2. \/ svc' = Exited
          \/ \E state \in Identified : svc' = [svc EXCEPT !.state = state]
      BY <1>2, <2>2 DEF Persist, KeyWritten, KeyFails
    <3>3. keys' \in [KeyFiles -> KeyStates]
      <4>1. PICK state \in KeyStates : keys' = [keys EXCEPT ![svc.key] = state]
        BY <1>2, <2>2 DEF Persist, KeyWritten, KeyFails
      <4> QED  BY <1>1, <4>1, KeysTyped
    <3>4. UNCHANGED <<platform, files, account, workdir, unit, wanted, unstopped,
                      binary>>
      BY <2>2 DEF Persist, KeyWritten, KeyFails
    <3>5. CASE svc' = Exited  BY <1>3, <3>3, <3>4, <3>5
    <3>6. ASSUME NEW state \in Identified, svc' = [svc EXCEPT !.state = state]
          PROVE  Typed'
      <4>1. svc' \in Processes /\ svc'.state = state /\ svc'.key = svc.key
        BY <1>1, <3>1, <3>6, StateTyped
      <4> QED  BY <1>2, <3>1, <3>3, <3>4, <4>1, ProcessTyped
    <3> QED  BY <3>2, <3>5, <3>6
  <2>3. CASE Crash  BY <1>1, <1>3, <2>3 DEF Crash
  <2>4. CASE Respawn
    <3>1. unit.line \in Lines  BY DEF IInv, Typed
    <3>2. svc' \in Processes /\ svc'.state = "boot" /\ svc'.key = "none"
      BY <2>4, <3>1, SpawnTyped DEF Respawn
    <3> QED  BY <1>1, <2>4, <3>2, ProcTyped, ProcessTyped DEF Respawn
  <2> QED  BY <2>1, <2>2, <2>3, <2>4
<1>5. svc.state # "down"
  BY DEF Boot, Persist, KeyWritten, KeyFails, KeyWriting, Crash, Identified, Respawn
<1> QED
  BY <1>4, <1>5, OtherKeeps DEF Boot, Persist, KeyWritten, KeyFails, Crash, Respawn

LEMMA RebootKeeps == IInv /\ Reboot => IInv'
<1> SUFFICES ASSUME IInv, Reboot PROVE IInv'  OBVIOUS
<1>1. Typed'
  BY SpawnTyped, ProcTyped DEF IInv, Typed, Reboot
<1> QED  BY <1>1, IdleKeeps DEF Reboot

(* A file changes, be it by the operator's hand or by setup.               *)
LEMMA FileKeeps ==
  ASSUME IInv, files' \in [Places -> Contents], keys' \in [KeyFiles -> KeyStates],
         UNCHANGED <<platform, account, workdir, unit, wanted, svc, unstopped,
                     binary, cmd>>
  PROVE  IInv'
<1>1. Typed'  BY DEF IInv, Typed
<1> QED  BY <1>1, OtherKeeps

LEMMA ServiceKeeps == IInv /\ ServiceNext => IInv'
<1> SUFFICES ASSUME IInv, ServiceNext PROVE IInv'  OBVIOUS
<1>1. ASSUME NEW opts \in Options, Begin("install", opts) PROVE IInv'
  BY <1>1, BeginKeeps, BareLine DEF Acts
<1>2. ASSUME NEW act \in Acts \ {"install"}, Begin(act, Bare) PROVE IInv'
  BY <1>2, BeginKeeps, BareLine
<1>3. CASE Work
  BY <1>3, InstallKeeps, ControlKeeps, UpgradeKeeps DEF Work
<1>4. CASE GiveUp
  <2>1. Typed'  BY <1>4 DEF IInv, Typed, GiveUp
  <2> QED  BY <1>4, <2>1, IdleKeeps DEF GiveUp
<1>5. CASE Boot \/ Persist \/ KeyWritten \/ KeyFails \/ Crash \/ Respawn
  BY <1>5, ProcessKeeps
<1>6. files \in [Places -> Contents] /\ keys \in [KeyFiles -> KeyStates]
  BY DEF IInv, Typed
<1>7. ASSUME NEW key \in KeyFiles, RemoveKey(key) PROVE IInv'
  <2>1. keys' \in [KeyFiles -> KeyStates]
    BY <1>6, <1>7 DEF RemoveKey, KeyStates
  <2> QED  BY <1>6, <1>7, <2>1, FileKeeps DEF RemoveKey
<1>8. ASSUME NEW w \in Writes, Edit(w[1], w[2]) PROVE IInv'
  <2>1. w[1] \in Places /\ w[2] \in Contents  BY ServiceAssumption
  <2>2. files' \in [Places -> Contents]  BY <1>6, <1>8, <2>1 DEF Edit
  <2> QED  BY <1>6, <1>8, <2>2, FileKeeps DEF Edit
<1> QED  BY <1>1, <1>2, <1>3, <1>4, <1>5, <1>7, <1>8 DEF ServiceNext

LEMMA DeploymentKeeps == IInv /\ [DeploymentNext]_deploymentVars => IInv'
<1> SUFFICES ASSUME IInv, [DeploymentNext]_deploymentVars PROVE IInv'  OBVIOUS
<1>0. files \in [Places -> Contents] /\ keys \in [KeyFiles -> KeyStates]
  BY DEF IInv, Typed
<1>1. CASE SetupStep
  <2>1. files' \in [Places -> Contents]
    BY <1>0, <1>1, ContentTyped DEF SetupStep, Places
  <2>2. keys' \in [KeyFiles -> KeyStates]
    BY <1>0, <1>1 DEF SetupStep, KeyStates
  <2> QED  BY <1>1, <2>1, <2>2, FileKeeps DEF SetupStep
<1>5. CASE SetupKeyTorn
  <2>1. keys' \in [KeyFiles -> KeyStates]
    BY <1>0, <1>5 DEF SetupKeyTorn, KeyStates
  <2> QED  BY <1>0, <1>5, <2>1, FileKeeps DEF SetupKeyTorn
<1>2. CASE ServiceStep  BY <1>2, ServiceKeeps DEF ServiceStep
<1>3. CASE MachineReboot  BY <1>3, RebootKeeps DEF MachineReboot
<1>4. CASE UNCHANGED deploymentVars
  <2>1. Typed' /\ UNCHANGED serviceVars
    BY <1>4 DEF deploymentVars, serviceVars, IInv, Typed
  <2> QED  BY <2>1, OtherKeeps DEF serviceVars
<1> QED  BY <1>1, <1>2, <1>3, <1>4, <1>5 DEF DeploymentNext

(***************************************************************************)
(* Every reachable state is well typed: only an installed service is       *)
(* wanted, and only a wanted one is waited for.                            *)
(***************************************************************************)
THEOREM ServiceTypeCorrect == DeploymentSpec => []ServiceTypeOK
  BY ServiceStarts, DeploymentKeeps, IInvMeans, PTL DEF DeploymentSpec

(***************************************************************************)
(* However often install is cut off, repeated, or run over the remains of  *)
(* another, a Linux unit never names a user or a directory that is not     *)
(* there and the user's.                                                   *)
(***************************************************************************)
THEOREM UnitAlwaysReady == DeploymentSpec => []UnitReady
  BY ServiceStarts, DeploymentKeeps, IInvMeans, PTL DEF DeploymentSpec

-----------------------------------------------------------------------------
LEMMA StopFailureStep ==
  IInv => [(cmd.act = "restart" /\ StartService) \/ Remove =>
             \/ unstopped
             \/ svc'.state = "down"
             \/ cmd.act = "restart" /\ ~svc'.stale]_serviceVars
<1> SUFFICES ASSUME IInv, (cmd.act = "restart" /\ StartService) \/ Remove
             PROVE  \/ unstopped
                    \/ svc'.state = "down"
                    \/ cmd.act = "restart" /\ ~svc'.stale
  OBVIOUS
<1>1. cmd.act \in Acts /\ cmd.todo \in Tails(cmd.act)
  BY DEF IInv, CmdInv, Idle, StartService, Remove, At
<1>2. CASE cmd.act = "restart" /\ StartService
  <2>1. cmd.todo = <<"start">>
    BY <1>1, <1>2, Tuple1, Tuple2 DEF Tails, StartService, At
  <2>2. unstopped \/ svc.state = "down"
    BY <1>2, <2>1 DEF IInv, StopInv
  <2> QED  BY <1>2, <2>2 DEF StartService, Spawn
<1>3. CASE Remove
  <2>1. cmd.act = "uninstall" /\ cmd.todo = <<"remove">>
    BY <1>1, <1>3, Tuple1, Tuple2, Tuple3, Tuple4 DEF Tails, Acts, Remove, At
  <2>2. unstopped \/ svc.state = "down"
    BY <2>1 DEF IInv, StopInv
  <2> QED  BY <1>3, <2>2, ProcTyped DEF Remove
<1> QED  BY <1>2, <1>3

(***************************************************************************)
(* restart gives a new process and uninstall leaves none, unless the       *)
(* manager refused to stop the old one, for any interleaving with reboots, *)
(* crashes, respawns, and whatever commands ran before.                    *)
(***************************************************************************)
THEOREM OnlyStopFailures == DeploymentSpec => StopFailureOnly
<1>1. IInv /\ [DeploymentNext]_deploymentVars =>
        [(cmd.act = "restart" /\ StartService) \/ Remove =>
           \/ unstopped
           \/ svc'.state = "down"
           \/ cmd.act = "restart" /\ ~svc'.stale]_serviceVars
  BY StopFailureStep
<1> QED
  BY <1>1, ServiceStarts, DeploymentKeeps, PTL
     DEF DeploymentSpec, StopFailureOnly
=============================================================================
