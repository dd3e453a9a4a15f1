----------------------- MODULE MachineCommandsProofs ------------------------
(***************************************************************************)
(* Proofs about the commands, for every number of them and every set of    *)
(* run-from-line requests: a handler that is not to disturb a program does *)
(* not; a program is started in its middle only when everything for it is  *)
(* prepared; the variables keep their types.                               *)
(***************************************************************************)
EXTENDS MCCommands, TLAPS

Step == {"measure", "flag", "clear", "safez", "position"}
Act == {"estop", "reset", "on", "off", "abort", "mdi", "change", "jog", "run", "step",
        "pause", "resume", "nothing"}

(***************************************************************************)
(* What LinuxCNC executes fits its mode: a program AUTO, a line MDI.       *)
(***************************************************************************)
TaskType ==
  /\ task \in [state : State, mode : {"manual", "auto", "mdi"}, interp : Interp]
  /\ doing \in {"none", "program"} \cup Mdi

FitsMode ==
  /\ doing = "none" <=> task.interp = "idle"
  /\ doing = "program" => task.mode = "auto"
  /\ doing \in Mdi => task.mode = "mdi"

TaskInv == TaskType /\ FitsMode

(***************************************************************************)
(* The lock belongs to one handler or to the run-from-line sequence, and   *)
(* whoever commands LinuxCNC has it.                                       *)
(***************************************************************************)
LockInv ==
  /\ \/ hnd = NoHandler
     \/ /\ hnd = [cmd |-> hnd.cmd, pc |-> hnd.pc]
        /\ hnd.cmd \in Commands /\ hnd.pc \in {"mode", "send"}
        /\ hnd.pc = "mode" => hnd.cmd.mode # "none"
  /\ lock \in {"free", "cmd", "rfl"}
  /\ lock = "cmd" <=> hnd # NoHandler
  /\ rfl = [pc |-> rfl.pc, step |-> rfl.step, want |-> rfl.want, armed |-> rfl.armed]
  /\ rfl.step \in Step
  /\ lock = "rfl" <=> rfl.pc \in {"mode", "send", "spinning", "starting"}

(***************************************************************************)
(* Under a guarded handler there is no program, unless the handler only    *)
(* advances it; that it was admitted on a fresh poll, and that nobody else *)
(* starts one while it has the lock, keeps it so.                          *)
(***************************************************************************)
GuardClear ==
  hnd # NoHandler /\ hnd.cmd.guarded /\ doing = "program"
    => hnd.pc = "send" /\ hnd.cmd.act = "step"

GuardInv == TaskInv /\ LockInv /\ GuardClear

\* The table of handlers.
LEMMA CommandTable ==
  \A c \in Commands : /\ c.mode \in {"none", "manual", "auto", "mdi"} /\ c.act \in Act
                      /\ c.name = "auto_step" => c.act = "step"
  <1>1. \A c \in Commands : c.mode \in {"none", "manual", "auto", "mdi"}
    BY DEF Commands, Cmd
  <1>2. \A c \in Commands : c.act \in Act
    BY DEF Commands, Cmd, Act
  <1>3. \A c \in Commands : c.name = "auto_step" => c.act = "step"
    BY DEF Commands, Cmd
  <1> QED BY <1>1, <1>2, <1>3

LEMMA NoHandlerIdle == NoHandler.pc = "idle"
  BY DEF NoHandler

LEMMA GuardInit == Init => GuardInv
  <1> SUFFICES ASSUME Init PROVE GuardInv
    OBVIOUS
  <1>1. TaskInv
    BY DEF Init, TaskInv, TaskType, FitsMode, State, Interp, Mdi
  <1>2. LockInv /\ GuardClear
    BY DEF Init, LockInv, GuardClear, NoRfl, Step
  <1> QED BY <1>1, <1>2 DEF GuardInv

(***************************************************************************)
(* What LinuxCNC does on its own ends what it executes or leaves it.       *)
(***************************************************************************)
Continues == doing' = doing \/ doing' = "none"

LEMMA LcncStep ==
  ASSUME TaskInv, Lcnc
  PROVE  TaskInv' /\ Continues /\ UNCHANGED <<hnd, lock, rfl>>
  <1> USE DEF TaskInv, TaskType, FitsMode, Continues, Idled, Stops, State, Interp, Mdi,
              cmdVars, rflVars
  <1>1. CASE MdiDone \/ MdiFails
    BY <1>1 DEF MdiDone, MdiFails
  <1>2. CASE SkimConsumes \/ ProgramEnds
    BY <1>2 DEF SkimConsumes, ProgramEnds
  <1>3. CASE Trips
    BY <1>3 DEF Trips, GoesTo
  <1>4. CASE LcncEnds \/ LcncBack
    BY <1>4 DEF LcncEnds, LcncBack, lcncVars
  <1> QED BY <1>1, <1>2, <1>3, <1>4 DEF Lcnc

(***************************************************************************)
(* The commands keep program and mode together.                            *)
(***************************************************************************)
LEMMA SwitchKeeps ==
  ASSUME TaskInv, NEW m \in {"manual", "auto", "mdi"}, SwitchMode(m)
  PROVE  TaskInv' /\ Continues
  BY DEF TaskInv, TaskType, FitsMode, Continues, SwitchMode, Idled, Stops, State, Interp, Mdi

LEMMA MdiKeeps ==
  ASSUME TaskInv, NEW op \in Mdi, StartsMdi(op)
  PROVE  TaskInv' /\ (doing = "program" => doing' = "program")
  BY DEF TaskInv, TaskType, FitsMode, StartsMdi, Refuse, State, Interp, Mdi

LEMMA ProgramKeeps ==
  ASSUME TaskInv, StartsProgram
  PROVE  TaskInv' /\ (doing = "program" => doing' = "program")
  BY DEF TaskInv, TaskType, FitsMode, StartsProgram, Refuse, State, Interp, Mdi

LEMMA IssueKeeps ==
  ASSUME TaskInv, NEW act \in Act, Issue(act)
  PROVE  TaskInv' /\ (act = "step" /\ doing = "program" => doing' = "program")
  <1>0. ASSUME UNCHANGED <<task, doing>>
        PROVE  TaskInv' /\ (doing = "program" => doing' = "program")
    BY <1>0 DEF TaskInv, TaskType, FitsMode
  <1>1. ASSUME NEW s \in State, GoesTo(s) PROVE TaskInv'
    BY <1>1 DEF GoesTo, TaskInv, TaskType, FitsMode, Idled, Stops, State, Interp, Mdi
  <1>2. CASE act \in {"estop", "reset", "on", "off"}
    BY <1>0, <1>1, <1>2 DEF Issue, State, lcncVars
  <1>3. CASE act = "abort"
    BY <1>3 DEF Issue, TaskInv, TaskType, FitsMode, Idled, Stops, State, Interp, Mdi
  <1>4. CASE act \in {"mdi", "change"}
    BY <1>4, MdiKeeps DEF Issue, Mdi
  <1>5. CASE act \in {"jog", "nothing"}
    BY <1>0, <1>5 DEF Issue, lcncVars, Refuse
  <1>6. CASE act = "run"
    BY <1>6, ProgramKeeps DEF Issue
  <1>7. CASE act = "step"
    BY <1>0, <1>7, ProgramKeeps DEF Issue, lcncVars
  <1>8. CASE act \in {"pause", "resume"}
    <2>1. CASE UNCHANGED lcncVars
      BY <1>0, <1>8, <2>1 DEF lcncVars
    <2>2. CASE /\ doing' = doing /\ task.interp # "idle"
               /\ \E i \in {"busy", "paused"} : task' = [task EXCEPT !.interp = i]
      BY <1>8, <2>2 DEF TaskInv, TaskType, FitsMode, State, Interp, Mdi
    <2> QED BY <1>8, <2>1, <2>2 DEF Issue
  <1> QED BY <1>2, <1>3, <1>4, <1>5, <1>6, <1>7, <1>8 DEF Act

(***************************************************************************)
(* A command is admitted: on a fresh poll no program runs, or it is one    *)
(* that the command only advances.                                         *)
(***************************************************************************)
LEMMA BeginStep ==
  ASSUME GuardInv, NEW c \in Commands, Begin(c)
  PROVE  GuardInv'
  <1> USE DEF GuardInv, lcncVars, rflVars
  <1>1. TaskInv'
    BY DEF Begin, TaskInv, TaskType, FitsMode
  <1>2. hnd' = [cmd |-> c, pc |-> hnd'.pc] /\ hnd'.pc \in {"mode", "send"} /\ lock' = "cmd"
    BY DEF Begin, Taken
  <1>3. hnd' # NoHandler
    BY <1>2, NoHandlerIdle
  <1>4. hnd'.pc = "mode" => c.mode # "none"
    BY DEF Begin, Taken
  <1>5. LockInv'
    BY <1>2, <1>3, <1>4 DEF Begin, LockInv
  <1>6. ASSUME c.guarded, doing = "program" PROVE hnd'.pc = "send" /\ c.act = "step"
    <2>1. Rejects
      BY <1>6 DEF TaskInv, TaskType, FitsMode, Rejects, Interp
    <2>2. Advances(c)
      BY <1>6, <2>1 DEF Begin
    <2> QED BY <2>2, CommandTable DEF Begin, Taken, Advances
  <1>7. GuardClear'
    BY <1>2, <1>6 DEF Begin, GuardClear
  <1> QED BY <1>1, <1>5, <1>7

\* The handler goes on.
LEMMA HandlerStep ==
  ASSUME GuardInv, Handler
  PROVE  /\ GuardInv'
         /\ linked /\ hnd.cmd.guarded /\ doing = "program" => doing' = "program"
  <1> USE DEF GuardInv, lcncVars, rflVars
  <1>0. hnd # NoHandler /\ hnd.cmd \in Commands /\ hnd.pc \in {"mode", "send"}
    BY NoHandlerIdle DEF Handler, HandlerMode, HandlerSend, HandlerFails, LockInv
  <1>1. CASE HandlerMode
    <2>1. hnd.cmd.mode \in {"manual", "auto", "mdi"}
      BY <1>0, <1>1, CommandTable DEF HandlerMode, LockInv
    <2>2. TaskInv' /\ Continues
      BY <1>1, <2>1, SwitchKeeps DEF HandlerMode
    <2>3. hnd' = [hnd EXCEPT !.pc = "send"] /\ UNCHANGED <<lock, rfl>>
      BY <1>1 DEF HandlerMode
    <2>4. hnd' = [cmd |-> hnd.cmd, pc |-> "send"]
      BY <1>0, <2>3 DEF LockInv
    <2>5. hnd' # NoHandler
      BY <2>4, NoHandlerIdle
    <2>6. LockInv'
      BY <1>0, <2>3, <2>4, <2>5 DEF LockInv
    <2>7. ~(hnd.cmd.guarded /\ doing = "program")
      BY <1>0, <1>1 DEF GuardClear, HandlerMode
    <2>8. GuardClear'
      BY <2>2, <2>4, <2>7 DEF GuardClear, Continues
    <2> QED BY <2>2, <2>6, <2>7, <2>8
  <1>2. CASE HandlerSend
    <2>1. hnd.cmd.act \in Act
      BY <1>0, CommandTable
    <2>2. TaskInv' /\ (hnd.cmd.act = "step" /\ doing = "program" => doing' = "program")
      BY <1>2, <2>1, IssueKeeps DEF HandlerSend
    <2>3. LockInv' /\ GuardClear'
      BY <1>0, <1>2 DEF HandlerSend, LockInv, GuardClear
    <2> QED BY <1>0, <2>2, <2>3 DEF GuardClear
  <1>3. CASE HandlerFails
    <2>1. LockInv' /\ GuardClear'
      BY <1>0, <1>3 DEF HandlerFails, LockInv, GuardClear
    <2>2. TaskInv'
      BY <1>3 DEF HandlerFails, TaskInv, TaskType, FitsMode
    <2> QED BY <1>3, <2>1, <2>2 DEF HandlerFails
  <1> QED BY <1>1, <1>2, <1>3 DEF Handler

\* The next step of the sequence takes the lock first.
LEMMA AfterShape ==
  ASSUME NEW r, r = [pc |-> r.pc, step |-> r.step, want |-> r.want, armed |-> r.armed],
         r.step \in Step
  PROVE  LET n == After(r)
         IN /\ n = [pc |-> n.pc, step |-> n.step, want |-> n.want, armed |-> n.armed]
            /\ n.step \in Step /\ n.pc \in {"lock", "spindle", "run"}
  BY DEF After, Step

(***************************************************************************)
(* The sequence: it commands LinuxCNC only with the lock, when there is no *)
(* handler.                                                                *)
(***************************************************************************)
LEMMA RflStep ==
  ASSUME GuardInv, Rfl
  PROVE  GuardInv' /\ UNCHANGED hnd
  <1> USE DEF GuardInv, lcncVars, cmdVars, Goto, GotoStep
  <1>0. ASSUME UNCHANGED <<task, doing, hnd>> PROVE TaskInv' /\ GuardClear'
    BY <1>0 DEF TaskInv, TaskType, FitsMode, GuardClear
  <1>1. CASE RflLock
    BY <1>0, <1>1 DEF RflLock, LockInv, NoRfl, Step
  <1>2. CASE RflMode
    <2>1. TaskInv'
      BY <1>2, SwitchKeeps DEF RflMode
    <2> QED BY <1>2, <2>1 DEF RflMode, LockInv, GuardClear
  <1>3. CASE RflSend
    <2>1. TaskInv'
      BY <1>3, MdiKeeps DEF RflSend, LockInv, Step, Mdi
    <2> QED BY <1>3, <2>1 DEF RflSend, LockInv, GuardClear
  <1>4. CASE RflStepDone
    <2>1. TaskInv' /\ GuardClear' /\ UNCHANGED <<hnd, lock>> /\ lock # "rfl"
      BY <1>0, <1>4 DEF RflStepDone, LockInv
    <2>2. CASE rfl' = NoRfl \/ rfl' = [rfl EXCEPT !.pc = "finally"]
      BY <2>1, <2>2, <1>4 DEF RflStepDone, LockInv, NoRfl, Step
    <2>3. CASE rfl' = After([rfl EXCEPT !.armed = @ \/ rfl.step = "flag"])
      <3> DEFINE r == [rfl EXCEPT !.armed = @ \/ rfl.step = "flag"]
      <3>1. r = [pc |-> r.pc, step |-> r.step, want |-> r.want, armed |-> r.armed] /\ r.step \in Step
        BY DEF LockInv
      <3> HIDE DEF r
      <3>2. rfl' = After(r)
        BY <2>3 DEF r
      <3> QED BY <2>1, <3>1, <3>2, AfterShape DEF LockInv
    <2> QED BY <1>4, <2>2, <2>3 DEF RflStepDone
  <1>5. CASE RflStepFails
    BY <1>0, <1>5 DEF RflStepFails, LockInv, NoRfl, Step
  <1>6. CASE RflSwitch
    <2>1. TaskInv'
      BY <1>6, SwitchKeeps DEF RflSwitch
    <2> QED BY <1>6, <2>1 DEF RflSwitch, LockInv, GuardClear
  <1>7. CASE RflSpindle
    BY <1>0, <1>7 DEF RflSpindle, LockInv
  <1>8. CASE RflStart
    <2>1. TaskInv'
      BY <1>8, ProgramKeeps DEF RflStart
    <2> QED BY <1>8, <2>1 DEF RflStart, LockInv, GuardClear
  <1>9. CASE RflRaises
    BY <1>0, <1>9 DEF RflRaises, LockInv
  <1>10. CASE RflFinally
    <2>1. TaskInv' /\ GuardClear' /\ UNCHANGED <<hnd, lock>> /\ lock # "rfl"
      BY <1>0, <1>10 DEF RflFinally, LockInv
    <2>2. CASE rfl' = NoRfl
      BY <2>1, <2>2 DEF LockInv, NoRfl, Step
    <2>3. CASE rfl' = [rfl EXCEPT !.pc = "lock", !.step = "clear"]
      BY <2>1, <2>3 DEF LockInv, Step
    <2> QED BY <1>10, <2>2, <2>3 DEF RflFinally
  <1> QED BY <1>1, <1>2, <1>3, <1>4, <1>5, <1>6, <1>7, <1>8, <1>9, <1>10 DEF Rfl

LEMMA GuardStep ==
  ASSUME GuardInv, [Next]_vars
  PROVE  /\ GuardInv'
         /\ hnd' # hnd /\ linked /\ hnd.cmd.guarded /\ doing = "program" => doing' = "program"
  <1>1. CASE Lcnc
    BY <1>1, LcncStep DEF GuardInv, LockInv, GuardClear, Continues
  <1>2. CASE Sample
    BY <1>2 DEF Sample, GuardInv, TaskInv, TaskType, FitsMode, LockInv, GuardClear, cmdVars
  <1>3. CASE Handler
    BY <1>3, HandlerStep
  <1>4. CASE Rfl
    BY <1>4, RflStep
  <1>5. ASSUME NEW c \in Commands, Begin(c)
        PROVE  GuardInv' /\ (hnd' # hnd => ~hnd.cmd.guarded)
    <2>1. hnd = NoHandler
      BY <1>5 DEF Begin, GuardInv, LockInv
    <2>2. ~NoHandler.cmd.guarded
      BY DEF NoHandler, Cmd
    <2> QED BY <1>5, <2>1, <2>2, BeginStep
  <1>6. ASSUME NEW w \in Requests, RflRequest(w) PROVE GuardInv' /\ UNCHANGED hnd
    BY <1>6 DEF RflRequest, GuardInv, TaskInv, TaskType, FitsMode, LockInv, GuardClear,
                lcncVars, cmdVars, NoRfl, Step
  <1>7. CASE UNCHANGED vars
    BY <1>7 DEF vars, GuardInv, TaskInv, TaskType, FitsMode, LockInv, GuardClear,
                lcncVars, cmdVars, rflVars
  <1> QED BY <1>1, <1>2, <1>3, <1>4, <1>5, <1>6, <1>7 DEF Next

(***************************************************************************)
(* gateway.py, reject_if_auto_running: no handler that asks it ends a      *)
(* running program, whatever snapshot the command was judged on before and *)
(* whatever happens while the handler awaits.                              *)
(***************************************************************************)
THEOREM GuardsProtectPrograms == Spec => GuardedLeavesProgram
  <1>1. GuardInv /\ [Next]_vars => GuardInv'
    BY GuardStep
  <1>2. GuardInv /\ [Next]_vars
          => [ hnd' # hnd /\ linked /\ hnd.cmd.guarded /\ doing = "program"
                 => doing' = "program" ]_vars
    BY GuardStep
  <1> QED BY GuardInit, <1>1, <1>2, PTL DEF Spec, GuardedLeavesProgram

-----------------------------------------------------------------------------
(***************************************************************************)
(* Run from line with nobody in between.  While the sequence is on its way *)
(* to the start, LinuxCNC executes its line or nothing, what is done so    *)
(* far is still so, and a measurement that left an offset succeeded.  The  *)
(* flag's step has no check of its own: that its line was not lost follows *)
(* from the mode it is sent in and from the machine being on.              *)
(***************************************************************************)
Early == rfl.pc \in {"lock", "mode", "send", "wait"} /\ rfl.step # "clear"
Late == rfl.pc \in {"spindle", "spinning", "run", "starting"}

Undisturbed == alone /\ task.state = "on" /\ (Early \/ Late)

OwnWork ==
  /\ rfl.pc # "wait" => doing = "none"
  /\ doing \in {"none", rfl.step}
  /\ rfl.pc = "send" => task.mode = "mdi"

StepWork ==
  rfl.pc = "wait" /\ doing = "none" =>
    /\ rfl.step = "measure" /\ mach.offset => measured /\ mach.tool
    /\ rfl.step = "flag" => flag

Done ==
  /\ rfl.want \in Requests
  /\ "measure" \in rfl.want /\ (Late \/ rfl.step # "measure")
       => measured /\ mach.tool /\ mach.offset
  /\ "measure" \in rfl.want /\ (Late \/ rfl.step \notin {"measure", "flag"}) => flag
  /\ "safez" \in rfl.want /\ (Late \/ rfl.step = "position") => mach.top
  /\ "position" \in rfl.want /\ Late => mach.entry

Prepared == Undisturbed => OwnWork /\ StepWork /\ Done

MachType == mach \in [tool : BOOLEAN, offset : BOOLEAN, top : BOOLEAN, entry : BOOLEAN]

PrepInv == GuardInv /\ MachType /\ Prepared

\* What the history variables do in a step of the sequence or of LinuxCNC.
Watched ==
  /\ alone' => alone
  /\ measured \/ (doing = "measure" /\ MdiDone) => measured'

\* The machine state stays in its type.
LEMMA MachStep ==
  ASSUME GuardInv, MachType, [Next]_vars
  PROVE  MachType'
  <1> USE DEF MachType, Stops, lcncVars
  <1>1. ASSUME NEW m, SwitchMode(m) PROVE MachType'
    BY <1>1 DEF SwitchMode
  <1>2. ASSUME NEW op, StartsMdi(op) PROVE MachType'
    BY <1>2 DEF StartsMdi, Refuse
  <1>3. ASSUME StartsProgram PROVE MachType'
    BY <1>3 DEF StartsProgram, Refuse
  <1>4. ASSUME NEW s, GoesTo(s) PROVE MachType'
    BY <1>4 DEF GoesTo
  <1>5. ASSUME NEW act \in Act, Issue(act) PROVE MachType'
    <2>1. CASE act \in {"estop", "reset", "on", "off"}
      BY <1>4, <1>5, <2>1 DEF Issue
    <2>2. CASE act \in {"mdi", "change", "run", "step"}
      BY <1>2, <1>3, <1>5, <2>2 DEF Issue
    <2>3. CASE act = "abort"
      BY <1>5, <2>3 DEF Issue
    <2>4. CASE act = "jog"
      BY <1>5, <2>4 DEF Issue, Refuse
    <2>5. CASE act \in {"pause", "resume", "nothing"}
      BY <1>5, <2>5 DEF Issue
    <2> QED BY <2>1, <2>2, <2>3, <2>4, <2>5 DEF Act
  <1>6. CASE Lcnc
    <2>1. CASE MdiDone
      BY <2>1 DEF MdiDone
    <2>2. CASE MdiFails \/ SkimConsumes \/ ProgramEnds
      BY <2>2 DEF MdiFails, SkimConsumes, ProgramEnds
    <2>3. CASE Trips \/ LcncEnds \/ LcncBack
      BY <1>4, <2>3 DEF Trips, LcncEnds, LcncBack
    <2> QED BY <1>6, <2>1, <2>2, <2>3 DEF Lcnc
  <1>7. CASE Handler
    <2>1. CASE HandlerMode
      BY <1>1, <2>1 DEF HandlerMode
    <2>2. CASE HandlerSend
      <3>1. hnd.cmd \in Commands
        BY <2>2, NoHandlerIdle DEF HandlerSend, GuardInv, LockInv
      <3> QED BY <1>5, <2>2, <3>1, CommandTable DEF HandlerSend
    <2>3. CASE HandlerFails
      BY <2>3 DEF HandlerFails
    <2> QED BY <1>7, <2>1, <2>2, <2>3 DEF Handler
  <1>8. CASE Rfl
    BY <1>1, <1>2, <1>3, <1>8 DEF Rfl, RflLock, RflMode, RflSend, RflStepDone, RflStepFails, RflSwitch,
       RflSpindle, RflStart, RflRaises, RflFinally
  <1>9. CASE \/ Sample \/ (\E c \in Commands : Begin(c)) \/ (\E w \in Requests : RflRequest(w))
             \/ UNCHANGED vars
    BY <1>9 DEF Sample, Begin, RflRequest, vars
  <1> QED BY <1>6, <1>7, <1>8, <1>9 DEF Next

\* What LinuxCNC does on its own.
LEMMA LcncPrepares ==
  ASSUME PrepInv, Lcnc, Watched
  PROVE  Prepared'
  <1> SUFFICES ASSUME Undisturbed' PROVE (OwnWork /\ StepWork /\ Done)'
    BY DEF Prepared
  <1> USE DEF PrepInv, GuardInv, TaskInv, TaskType, FitsMode, MachType, Prepared, Watched, Undisturbed, Early, Late,
              Idled, Stops, State, Interp, Mdi, cmdVars, rflVars
  <1>1. CASE MdiDone
    <2>1. OwnWork /\ StepWork /\ Done /\ doing = rfl.step /\ rfl.pc = "wait"
      BY <1>1 DEF MdiDone, OwnWork
    <2>2. UNCHANGED rfl /\ doing' = "none"
      BY <1>1 DEF MdiDone
    <2>3. OwnWork'
      BY <2>1, <2>2 DEF OwnWork
    <2>4. StepWork'
      BY <1>1, <2>1, <2>2 DEF MdiDone, StepWork
    <2>5. rfl.step \in {"measure", "flag", "safez", "position"}
      BY <2>1, <2>2 DEF LockInv, Step
    <2>6. Done'
      <3>1. CASE rfl.step = "measure"
        BY <1>1, <2>1, <2>2, <3>1 DEF MdiDone, Done
      <3>2. CASE rfl.step = "flag"
        BY <1>1, <2>1, <2>2, <3>2 DEF MdiDone, Done
      <3>3. CASE rfl.step = "safez"
        BY <1>1, <2>1, <2>2, <3>3 DEF MdiDone, Done
      <3>4. CASE rfl.step = "position"
        BY <1>1, <2>1, <2>2, <3>4 DEF MdiDone, Done
      <3> QED BY <2>5, <3>1, <3>2, <3>3, <3>4
    <2> QED BY <2>3, <2>4, <2>6
  <1>2. CASE MdiFails
    <2>1. OwnWork /\ StepWork /\ Done /\ doing = rfl.step /\ rfl.pc = "wait" /\ rfl.step # "flag"
      BY <1>2 DEF MdiFails, OwnWork
    <2>2. UNCHANGED <<rfl, flag>> /\ doing' = "none"
      BY <1>2 DEF MdiFails
    <2>3. OwnWork'
      BY <2>1, <2>2 DEF OwnWork
    <2>4. StepWork'
      BY <1>2, <2>1, <2>2 DEF MdiFails, StepWork
    <2>5. Done'
      <3>1. CASE rfl.step = "measure"
        BY <1>2, <2>1, <2>2, <3>1 DEF MdiFails, Done
      <3>2. CASE rfl.step # "measure"
        BY <1>2, <2>1, <2>2, <3>2 DEF MdiFails, Done
      <3> QED BY <3>1, <3>2
    <2> QED BY <2>3, <2>4, <2>5
  <1>3. CASE SkimConsumes \/ ProgramEnds
    BY <1>3 DEF SkimConsumes, ProgramEnds, OwnWork, LockInv, Step
  <1>4. CASE Trips \/ LcncEnds
    <2>1. CASE Trips
      BY <2>1 DEF Trips, GoesTo
    <2>2. CASE LcncEnds
      BY <2>2 DEF LcncEnds
    <2> QED BY <1>4, <2>1, <2>2
  <1>5. CASE LcncBack
    BY <1>5 DEF LcncBack, lcncVars, OwnWork, StepWork, Done, MdiDone
  <1> QED BY <1>1, <1>2, <1>3, <1>4, <1>5 DEF Lcnc

\* The sequence goes on: its lines are taken, and what it looks at after one
\* covers what the next may rely on.
LEMMA RflPrepares ==
  ASSUME PrepInv, Rfl, Watched
  PROVE  Prepared'
  <1> SUFFICES ASSUME Undisturbed' PROVE (OwnWork /\ StepWork /\ Done)'
    BY DEF Prepared
  <1> USE DEF PrepInv, GuardInv, TaskInv, TaskType, FitsMode, MachType, LockInv, Prepared, Watched,
              Undisturbed, Early, Late, State, Interp, Mdi, Step, lcncVars, cmdVars, Goto, GotoStep
  <1>1. CASE RflLock
    <2>1. rfl' = [rfl EXCEPT !.pc = "mode"] /\ rfl.pc = "lock"
      BY <1>1 DEF RflLock, NoRfl
    <2>2. OwnWork /\ StepWork /\ Done /\ UNCHANGED lcncVars
      BY <1>1, <2>1 DEF RflLock
    <2> QED BY <2>1, <2>2 DEF OwnWork, StepWork, Done
  <1>2. CASE RflMode
    <2>1. rfl' = [rfl EXCEPT !.pc = "send"] /\ rfl.pc = "mode" /\ task'.mode = "mdi"
          /\ task'.state = task.state /\ flag' = flag
      BY <1>2 DEF RflMode, SwitchMode, Idled
    <2>2. OwnWork /\ StepWork /\ Done
      BY <2>1
    <2>3. UNCHANGED <<doing, mach>>
      BY <1>2, <2>1, <2>2 DEF RflMode, SwitchMode, Stops, OwnWork
    <2> QED BY <2>1, <2>2, <2>3 DEF OwnWork, StepWork, Done
  <1>3. CASE RflSend
    <2>1. rfl' = [rfl EXCEPT !.pc = "wait"] /\ rfl.pc = "send"
      BY <1>3 DEF RflSend
    <2>2. task.state = "on"
      BY <1>3 DEF RflSend, StartsMdi, Refuse
    <2>3. OwnWork /\ Done
      BY <2>1, <2>2
    <2>4. doing' = rfl.step /\ UNCHANGED <<mach, flag>>
      BY <1>3, <2>1, <2>2, <2>3 DEF RflSend, StartsMdi, OwnWork
    <2> QED BY <2>1, <2>3, <2>4 DEF OwnWork, StepWork, Done
  <1>4. CASE RflStepDone
    <2> DEFINE r == [rfl EXCEPT !.armed = @ \/ rfl.step = "flag"]
    <2>1. rfl.pc = "wait" /\ doing = "none" /\ rfl.step # "clear" /\ UNCHANGED lcncVars
      BY <1>4 DEF RflStepDone, NoRfl
    <2>2. Verified /\ rfl' = After(r)
      BY <1>4, <2>1 DEF RflStepDone
    <2>3. StepWork /\ Done
      BY <2>1
    <2>4. r.step = rfl.step /\ r.want = rfl.want /\ r = [pc |-> r.pc, step |-> r.step, want |-> r.want, armed |-> r.armed]
      OBVIOUS
    <2> HIDE DEF r
    <2>5. OwnWork' /\ StepWork'
      BY <2>1, <2>2, <2>4 DEF After, OwnWork, StepWork
    <2>6. Done'
      <3> USE CommandsAssumption
      <3>1. rfl'.want = rfl.want
        BY <2>2, <2>4 DEF After
      <3>2. CASE rfl.step = "measure"
        BY <2>1, <2>2, <2>3, <2>4, <3>1, <3>2 DEF After, StepWork, Verified, Done
      <3>3. CASE rfl.step = "flag"
        BY <2>1, <2>2, <2>3, <2>4, <3>1, <3>3 DEF After, StepWork, Verified, Done
      <3>4. CASE rfl.step = "safez"
        BY <2>1, <2>2, <2>3, <2>4, <3>1, <3>4 DEF After, StepWork, Verified, Done
      <3>5. CASE rfl.step = "position"
        BY <2>1, <2>2, <2>3, <2>4, <3>1, <3>5 DEF After, StepWork, Verified, Done
      <3> QED BY <2>1, <3>2, <3>3, <3>4, <3>5
    <2> QED BY <2>5, <2>6
  <1>5. CASE RflStepFails \/ RflStart \/ RflRaises \/ RflFinally
    <2>1. CASE rfl' = NoRfl \/ \E pc \in {"finally", "dead"} : rfl' = [rfl EXCEPT !.pc = pc]
      <3> rfl'.pc \in {"off", "finally", "dead"}
        BY <2>1 DEF NoRfl
      <3> QED OBVIOUS
    <2>2. CASE RflStepFails \/ RflRaises
      BY <2>1, <2>2 DEF RflStepFails, RflRaises
    <2>3. CASE RflStart
      <3> rfl'.pc = "finally"
        BY <2>3 DEF RflStart
      <3> QED OBVIOUS
    <2>4. CASE RflFinally
      <3>1. CASE rfl' = [rfl EXCEPT !.pc = "lock", !.step = "clear"]
        BY <3>1
      <3> QED BY <2>1, <2>4, <3>1 DEF RflFinally
    <2> QED BY <1>5, <2>2, <2>3, <2>4
  <1>6. CASE RflSwitch
    <2>1. /\ rfl.pc \in {"spindle", "run"} /\ task'.state = task.state /\ flag' = flag
          /\ \E pc \in {"spinning", "starting"} : rfl' = [rfl EXCEPT !.pc = pc]
      BY <1>6 DEF RflSwitch, SwitchMode, Idled
    <2>2. OwnWork /\ Done
      BY <2>1
    <2>3. UNCHANGED <<doing, mach>>
      BY <1>6, <2>1, <2>2 DEF RflSwitch, SwitchMode, Stops, OwnWork
    <2> QED BY <2>1, <2>2, <2>3 DEF OwnWork, StepWork, Done
  <1>7. CASE RflSpindle
    BY <1>7 DEF RflSpindle, OwnWork, StepWork, Done
  <1> QED BY <1>1, <1>2, <1>3, <1>4, <1>5, <1>6, <1>7 DEF Rfl

\* A new sequence finds nothing executing: it is refused otherwise.
LEMMA RequestPrepares ==
  ASSUME PrepInv, NEW w \in Requests, RflRequest(w)
  PROVE  Prepared'
  <1>1. doing = "none" /\ doing' = doing
    BY DEF RflRequest, Rejects, PrepInv, GuardInv, TaskInv, TaskType, FitsMode, Mdi, Interp, lcncVars
  <1>2. rfl' = [pc |-> "lock", step |-> IF "measure" \in w THEN "measure" ELSE "safez",
                want |-> w, armed |-> FALSE]
    BY DEF RflRequest, NoRfl
  <1> QED BY <1>1, <1>2 DEF Prepared, OwnWork, StepWork, Done, Early, Late

LEMMA PrepStep ==
  ASSUME PrepInv, [MCNext]_mcVars
  PROVE  PrepInv'
  <1>1. GuardInv' /\ MachType'
    BY GuardStep, MachStep DEF PrepInv, MCNext, mcVars
  <1>2. CASE UNCHANGED mcVars
    BY <1>1, <1>2 DEF mcVars, vars, lcncVars, cmdVars, rflVars, PrepInv, Prepared, Undisturbed, Early,
                     Late, OwnWork, StepWork, Done
  <1>3. CASE Lcnc /\ MCNext
    <2>0. UNCHANGED <<hnd, active>>
      BY <1>3 DEF Lcnc, MdiDone, MdiFails, SkimConsumes, ProgramEnds, Trips, LcncEnds, LcncBack,
                  cmdVars, rflVars
    <2>1. Watched
      BY <1>3, <2>0 DEF MCNext, Watched
    <2> QED BY <1>1, <1>3, <2>1, LcncPrepares DEF PrepInv
  <1>4. CASE Rfl /\ MCNext
    <2>1. UNCHANGED hnd /\ ~(~active /\ active')
      <3>1. UNCHANGED hnd
        BY <1>4, RflStep DEF PrepInv
      <3>2. active' = active \/ active' = FALSE
        BY <1>4 DEF Rfl, RflLock, RflMode, RflSend, RflStepDone, RflStepFails, RflSwitch, RflSpindle,
                    RflStart, RflRaises, RflFinally
      <3> QED BY <3>1, <3>2
    <2>2. Watched
      BY <1>4, <2>1 DEF MCNext, Watched
    <2> QED BY <1>1, <1>4, <2>2, RflPrepares DEF PrepInv
  <1>5. CASE Handler /\ MCNext
    <2>1. hnd.pc # "idle" /\ hnd'.pc # hnd.pc /\ active' = active
      BY <1>5, NoHandlerIdle DEF Handler, HandlerMode, HandlerSend, HandlerFails, rflVars, PrepInv,
                                 GuardInv, LockInv
    <2>2. ~alone'
      BY <1>5, <2>1 DEF MCNext
    <2> QED BY <1>1, <2>2 DEF PrepInv, Prepared, Undisturbed
  <1>6. ASSUME MCNext, Sample \/ \E c \in Commands : Begin(c) PROVE Prepared'
    <2>1. UNCHANGED <<task, doing, mach, flag, rfl, active>>
      BY <1>6 DEF Sample, Begin, lcncVars, rflVars
    <2>2. hnd' = hnd \/ hnd.pc = "idle"
      BY <1>6, NoHandlerIdle DEF Sample, Begin, cmdVars, PrepInv, GuardInv, LockInv
    <2>3. (alone' => alone) /\ (measured => measured')
      BY <1>6, <2>1, <2>2 DEF MCNext
    <2> QED BY <2>1, <2>3 DEF PrepInv, Prepared, Undisturbed, Early, Late, OwnWork, StepWork, Done
  <1>7. CASE \E w \in Requests : RflRequest(w)
    BY <1>1, <1>7, RequestPrepares DEF PrepInv
  <1> QED BY <1>1, <1>2, <1>3, <1>4, <1>5, <1>6, <1>7 DEF MCNext, Next, PrepInv

\* Only a machine that is on takes a program.
LEMMA StartsOn ==
  ASSUME GuardInv, Next, doing = "none", doing' = "program"
  PROVE  task.state = "on"
  <1>1. StartsProgram => task.state = "on"
    BY DEF StartsProgram, Refuse
  <1>2. ASSUME NEW op \in Mdi, StartsMdi(op) PROVE FALSE
    BY <1>2 DEF StartsMdi, Refuse, Mdi
  <1>3. ASSUME NEW m, SwitchMode(m) PROVE FALSE
    BY <1>3 DEF SwitchMode, Stops
  <1>4. CASE Handler
    <2>1. hnd.cmd \in Commands
      BY <1>4, NoHandlerIdle DEF Handler, HandlerMode, HandlerSend, HandlerFails, GuardInv, LockInv
    <2>2. HandlerSend
      BY <1>3, <1>4 DEF Handler, HandlerMode, HandlerFails, lcncVars
    <2>3. hnd.cmd.act \in Act /\ Issue(hnd.cmd.act)
      BY <2>1, <2>2, CommandTable DEF HandlerSend
    <2>4. hnd.cmd.act \in {"run", "step"}
      BY <1>2, <2>3 DEF Issue, GoesTo, Stops, Refuse, Act, Mdi, lcncVars
    <2> QED BY <1>1, <2>3, <2>4 DEF Issue, lcncVars
  <1>5. CASE Rfl
    <2>1. CASE RflSend
      BY <1>2, <2>1 DEF RflSend, GuardInv, LockInv, Step, Mdi
    <2>2. CASE RflStart
      BY <1>1, <2>2 DEF RflStart
    <2> QED BY <1>3, <1>5, <2>1, <2>2 DEF Rfl, RflLock, RflMode, RflStepDone, RflStepFails, RflSwitch,
                RflSpindle, RflRaises, RflFinally, lcncVars
  <1>6. CASE Lcnc
    BY <1>6 DEF Lcnc, MdiDone, MdiFails, SkimConsumes, ProgramEnds, Trips, LcncEnds, LcncBack, GoesTo,
                Stops, lcncVars
  <1>7. CASE Sample \/ (\E c \in Commands : Begin(c)) \/ (\E w \in Requests : RflRequest(w))
    BY <1>7 DEF Sample, Begin, RflRequest, lcncVars
  <1> QED BY <1>4, <1>5, <1>6, <1>7 DEF Next

(***************************************************************************)
(* gateway.py, run from line: whatever fails, stops short, times out or is *)
(* tripped on the way, a program that is started in its middle finds all   *)
(* that was asked for: the tool mounted and just measured with its offset  *)
(* applied, the skip flag set, Z at machine zero, X and Y at the entry; as *)
(* long as no other command came in between.                               *)
(***************************************************************************)
THEOREM StartFindsAllPrepared == MCSpec => StartIsPrepared
  <1>1. MCInit => PrepInv
    BY GuardInit DEF MCInit, PrepInv, Init, MachType, Prepared, Undisturbed
  <1>2. PrepInv /\ [MCNext]_mcVars => PrepInv'
    BY PrepStep
  <1>3. PrepInv /\ [MCNext]_mcVars =>
          [ Started /\ alone =>
             /\ "measure" \in rfl.want => measured /\ mach.tool /\ mach.offset /\ flag
             /\ "position" \in rfl.want => mach.entry
             /\ "safez" \in rfl.want => mach.top ]_mcVars
    <2> SUFFICES ASSUME PrepInv, MCNext, Started, alone
                 PROVE  /\ "measure" \in rfl.want => measured /\ mach.tool /\ mach.offset /\ flag
                        /\ "position" \in rfl.want => mach.entry
                        /\ "safez" \in rfl.want => mach.top
      OBVIOUS
    <2>1. task.state = "on"
      BY StartsOn DEF Started, MCNext, PrepInv
    <2>2. Late /\ Undisturbed
      BY <2>1 DEF Started, Late, Undisturbed
    <2> QED BY <2>2 DEF PrepInv, Prepared, Done
  <1> QED BY <1>1, <1>2, <1>3, PTL DEF MCSpec, StartIsPrepared

-----------------------------------------------------------------------------
(***************************************************************************)
(* The types of the rest: what is published, the flags and the counter,    *)
(* and that the sequence is active exactly while it is somewhere.          *)
(***************************************************************************)
Pc == {"off", "lock", "mode", "send", "wait", "spindle", "spinning", "run", "starting", "finally",
       "dead"}

FlagType == flag \in BOOLEAN /\ errs \in BOOLEAN

WatchType ==
  /\ linked \in BOOLEAN /\ marked \in BOOLEAN
  /\ snap \in [state : State, interp : Interp] \cup {None}
  /\ ops \in 0..MaxOps

ActiveType == rfl.pc \in Pc /\ active \in BOOLEAN /\ (active <=> rfl.pc # "off")

TypeInv == GuardInv /\ MachType /\ FlagType /\ WatchType /\ ActiveType

LEMMA TypeInvIsTypeOK == TypeInv => TypeOK
  <1> SUFFICES ASSUME TypeInv PROVE TypeOK
    OBVIOUS
  <1> USE DEF TypeInv, GuardInv
  <1>1. /\ task \in [state : State, mode : {"manual", "auto", "mdi"}, interp : Interp]
        /\ doing \in {"none", "program"} \cup Mdi
        /\ doing = "none" <=> task.interp = "idle"
    BY DEF TaskInv, TaskType, FitsMode
  <1>2. /\ mach \in [tool : BOOLEAN, offset : BOOLEAN, top : BOOLEAN, entry : BOOLEAN]
        /\ flag \in BOOLEAN /\ errs \in BOOLEAN /\ linked \in BOOLEAN
        /\ snap \in [state : State, interp : Interp] \cup {None}
        /\ ops \in 0..MaxOps /\ marked \in BOOLEAN
    BY DEF MachType, FlagType, WatchType
  <1>3. /\ lock \in {"free", "cmd", "rfl"}
        /\ hnd = NoHandler \/ (hnd.cmd \in Commands /\ hnd.pc \in {"mode", "send"})
        /\ lock = "cmd" <=> hnd # NoHandler
        /\ lock = "rfl" <=> rfl.pc \in {"mode", "send", "spinning", "starting"}
    BY DEF LockInv
  <1>4. rfl.pc \in Pc /\ active \in BOOLEAN /\ (active <=> rfl.pc # "off")
    BY DEF ActiveType
  <1> QED BY <1>1, <1>2, <1>3, <1>4 DEF TypeOK, Pc

\* The flag and the error channel.
LEMMA FlagStep ==
  ASSUME GuardInv, FlagType, [Next]_vars
  PROVE  FlagType'
  <1> USE DEF FlagType, lcncVars
  <1>1. ASSUME NEW op, StartsMdi(op) PROVE FlagType'
    BY <1>1 DEF StartsMdi, Refuse
  <1>2. ASSUME StartsProgram PROVE FlagType'
    BY <1>2 DEF StartsProgram, Refuse
  <1>3. ASSUME NEW act \in Act, Issue(act) PROVE FlagType'
    <2>1. CASE act \in {"estop", "reset", "on", "off", "nothing"}
      BY <1>3, <2>1 DEF Issue, GoesTo
    <2>2. CASE act \in {"mdi", "change", "run", "step"}
      BY <1>1, <1>2, <1>3, <2>2 DEF Issue
    <2>3. CASE act \in {"abort", "jog"}
      BY <1>3, <2>3 DEF Issue, Refuse
    <2>4. CASE act \in {"pause", "resume"}
      BY <1>3, <2>4 DEF Issue
    <2> QED BY <2>1, <2>2, <2>3, <2>4 DEF Act
  <1>4. CASE Lcnc
    <2>1. CASE MdiDone
      BY <2>1 DEF MdiDone
    <2>2. CASE MdiFails \/ SkimConsumes \/ ProgramEnds
      BY <2>2 DEF MdiFails, SkimConsumes, ProgramEnds
    <2>3. CASE Trips \/ LcncEnds \/ LcncBack
      BY <2>3 DEF Trips, GoesTo, LcncEnds, LcncBack
    <2> QED BY <1>4, <2>1, <2>2, <2>3 DEF Lcnc
  <1>5. CASE Handler
    <2>1. hnd.cmd \in Commands
      BY <1>5, NoHandlerIdle DEF Handler, HandlerMode, HandlerSend, HandlerFails, GuardInv, LockInv
    <2> QED BY <1>3, <1>5, <2>1, CommandTable DEF Handler, HandlerMode, HandlerSend, HandlerFails
  <1>6. CASE Rfl
    BY <1>1, <1>2, <1>6 DEF Rfl, RflLock, RflMode, RflSend, RflStepDone, RflStepFails, RflSwitch,
       RflSpindle, RflStart, RflRaises, RflFinally
  <1>7. CASE \/ Sample \/ (\E c \in Commands : Begin(c)) \/ (\E w \in Requests : RflRequest(w))
             \/ UNCHANGED vars
    BY <1>7 DEF Sample, Begin, RflRequest, vars
  <1> QED BY <1>4, <1>5, <1>6, <1>7 DEF Next

\* The link, the snapshot, the error mark, the counter.
LEMMA WatchStep ==
  ASSUME GuardInv, FlagType, WatchType, [Next]_vars
  PROVE  WatchType'
  <1> USE CommandsAssumption DEF WatchType, Operate
  <1>0. ASSUME Operate \/ UNCHANGED ops PROVE ops' \in 0..MaxOps
    BY <1>0
  <1>1. CASE Lcnc
    <2>1. Operate \/ UNCHANGED ops
      BY <1>1 DEF Lcnc, MdiDone, MdiFails, SkimConsumes, ProgramEnds, Trips, LcncEnds, LcncBack
    <2>2. UNCHANGED <<snap, marked>> /\ linked' \in BOOLEAN
      BY <1>1 DEF Lcnc, MdiDone, MdiFails, SkimConsumes, ProgramEnds, Trips, LcncEnds, LcncBack, rflVars
    <2> QED BY <1>0, <2>1, <2>2
  <1>2. CASE Sample
    BY <1>2 DEF Sample, GuardInv, TaskInv, TaskType, FlagType
  <1>3. CASE Handler
    BY <1>3 DEF Handler, HandlerMode, HandlerSend, HandlerFails, rflVars
  <1>4. CASE Rfl
    BY <1>4 DEF Rfl, RflLock, RflMode, RflSend, RflStepDone, RflStepFails, RflSwitch,
       RflSpindle, RflStart, RflRaises, RflFinally
  <1>5. CASE (\E c \in Commands : Begin(c)) \/ (\E w \in Requests : RflRequest(w))
    <2>1. Operate /\ UNCHANGED <<linked, snap>> /\ marked' \in BOOLEAN
      BY <1>5 DEF Begin, RflRequest, rflVars
    <2> QED BY <1>0, <2>1
  <1>6. CASE UNCHANGED vars
    BY <1>6 DEF vars, rflVars
  <1> QED BY <1>1, <1>2, <1>3, <1>4, <1>5, <1>6 DEF Next

\* _rfl_active.
LEMMA ActiveStep ==
  ASSUME GuardInv, ActiveType, [Next]_vars
  PROVE  ActiveType'
  <1> USE DEF ActiveType, Pc, GuardInv, LockInv, Goto, GotoStep
  <1>1. ASSUME UNCHANGED <<rfl, active>> PROVE ActiveType'
    BY <1>1
  <1>2. ASSUME rfl' = NoRfl, active' = FALSE PROVE ActiveType'
    BY <1>2 DEF NoRfl
  <1>3. ASSUME rfl'.pc \in Pc \ {"off"}, rfl.pc # "off", UNCHANGED active PROVE ActiveType'
    BY <1>3
  <1>4. CASE Lcnc \/ Sample \/ Handler \/ (\E c \in Commands : Begin(c)) \/ UNCHANGED vars
    BY <1>1, <1>4 DEF Lcnc, MdiDone, MdiFails, SkimConsumes, ProgramEnds, Trips, LcncEnds, LcncBack,
       Sample, Handler, HandlerMode, HandlerSend, HandlerFails, Begin, rflVars, vars
  <1>5. CASE RflLock
    BY <1>2, <1>3, <1>5 DEF RflLock
  <1>6. CASE RflMode \/ RflSend \/ RflSwitch \/ RflSpindle \/ RflStart \/ RflRaises
    BY <1>3, <1>6 DEF RflMode, RflSend, RflSwitch, RflSpindle, RflStart, RflRaises
  <1>7. CASE RflStepDone
    <2> DEFINE r == [rfl EXCEPT !.armed = @ \/ rfl.step = "flag"]
    <2>1. r = [pc |-> r.pc, step |-> r.step, want |-> r.want, armed |-> r.armed] /\ r.step \in Step
      OBVIOUS
    <2>2. rfl' = After(r) => rfl'.pc \in {"lock", "spindle", "run"}
      <3> HIDE DEF r
      <3> QED BY <2>1, AfterShape
    <2> QED BY <1>2, <1>3, <1>7, <2>2 DEF RflStepDone
  <1>8. CASE RflStepFails
    BY <1>2, <1>3, <1>8 DEF RflStepFails
  <1>9. CASE RflFinally
    BY <1>2, <1>3, <1>9 DEF RflFinally
  <1>10. CASE \E w \in Requests : RflRequest(w)
    BY <1>10 DEF RflRequest, NoRfl
  <1> QED BY <1>4, <1>5, <1>6, <1>7, <1>8, <1>9, <1>10 DEF Next, Rfl

\* Every variable has its type; the lock, the handler that holds it and the
\* place of the sequence agree.
THEOREM CommandsTypeCorrect == Spec => []TypeOK
  <1>1. Init => TypeInv
    <2> SUFFICES ASSUME Init PROVE TypeInv
      OBVIOUS
    <2>1. MachType /\ FlagType /\ ActiveType
      BY DEF Init, MachType, FlagType, ActiveType, NoRfl, Pc
    <2>2. WatchType
      <3>1. ops = 0 /\ MaxOps \in Nat
        BY CommandsAssumption DEF Init
      <3>2. ops \in 0..MaxOps
        BY <3>1
      <3>3. linked \in BOOLEAN /\ marked \in BOOLEAN /\ snap = None
        BY DEF Init
      <3> QED BY <3>2, <3>3 DEF WatchType
    <2> QED BY GuardInit, <2>1, <2>2 DEF TypeInv
  <1>2. TypeInv /\ [Next]_vars => TypeInv'
    BY GuardStep, MachStep, FlagStep, WatchStep, ActiveStep DEF TypeInv
  <1> QED BY <1>1, <1>2, TypeInvIsTypeOK, PTL DEF Spec
=============================================================================
