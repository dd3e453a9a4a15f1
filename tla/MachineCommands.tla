--------------------------- MODULE MachineCommands ---------------------------
(***************************************************************************)
(* The gateway as LinuxCNC's only operator: the commands of the clients,   *)
(* one at a time under _cmd_lock, and the run-from-line sequence, a        *)
(* background task that takes the lock for one step after the other.       *)
(*                                                                         *)
(* A command is judged twice: by the policy, on the snapshot the status    *)
(* poller published last, and by most handlers on a fresh poll.  Between   *)
(* its awaits a handler still holds the lock, but LinuxCNC goes on.        *)
(*                                                                         *)
(* A call on CMD returns when LinuxCNC has taken the command, so a poll    *)
(* after it sees its effect on mode and interpreter.  As the comments in   *)
(* gateway.py say, a mode switch ends what the interpreter executes.       *)
(***************************************************************************)
EXTENDS Naturals, Sequences

CONSTANTS
  Requests,   \* what run-from-line is asked for: sets of Features
  MaxOps,     \* bound on commands and on what happens to LinuxCNC by itself
  LinkLoss    \* TRUE: LinuxCNC may end and be started again

Features == {"measure", "safez", "position", "spindle"}

\* auto_run: an entry position forces safe_z; without tool and safe_z the
\* program is started right away.
ASSUME CommandsAssumption ==
  /\ MaxOps \in Nat /\ LinkLoss \in BOOLEAN
  /\ \A w \in Requests : /\ w \subseteq Features
                         /\ w \cap {"measure", "safez"} # {}
                         /\ "position" \in w => "safez" \in w

VARIABLES
  task,       \* LinuxCNC: [state, mode, interp]
  doing,      \* what its interpreter executes
  mach,       \* [tool: the requested one is mounted, offset: a tool length
              \*  offset is active, top: Z at machine zero, entry: X and Y at the entry]
  flag,       \* #3116 is set
  errs,       \* the error channel holds something
  linked,     \* lcnc_connected; STAT and CMD are None otherwise
  snap,       \* _shared_status: [state, interp], or None
  lock,       \* _cmd_lock: "free", "cmd" or "rfl"
  hnd,        \* the handler that holds it: [cmd, pc], or NoHandler
  active,     \* _rfl_active
  rfl,        \* the sequence: [pc, step, want, armed: flag_armed]
  marked,     \* _errors_total differs from err_mark
  ops

lcncVars == <<task, doing, mach, flag, errs>>
cmdVars == <<lock, hnd>>
rflVars == <<active, rfl, marked>>
vars == <<lcncVars, linked, snap, cmdVars, rflVars, ops>>

Command == [name : STRING, gate : STRING, guarded : BOOLEAN, mode : STRING, act : STRING]
Cmd(name, gate, guarded, mode, act) ==
  [name |-> name, gate |-> gate, guarded |-> guarded, mode |-> mode, act |-> act]

\* The handlers: the policy's gate, whether it calls reject_if_auto_running,
\* the mode it switches to, and what it then sends.
\* An auto_run that also starts the spindle is "spindle" and then "cycle_start";
\* that another command may come between the two here only adds behaviours.
Commands == {
  Cmd("estop",        "always", FALSE, "none",   "estop"),
  Cmd("estop_reset",  "always", FALSE, "none",   "reset"),
  Cmd("machine_on",   "safety", FALSE, "none",   "on"),
  Cmd("machine_off",  "safety", FALSE, "none",   "off"),
  Cmd("set_mode",     "idle",   TRUE,  "manual", "nothing"),
  Cmd("abort",        "abort",  FALSE, "none",   "abort"),
  Cmd("unload_file",  "setup",  TRUE,  "none",   "abort"),
  Cmd("load_file",    "setup",  TRUE,  "auto",   "nothing"),
  Cmd("mdi",          "ready",  TRUE,  "mdi",    "mdi"),     \* set_wcs, clear_wcs, set_probe_vars
  Cmd("tool_change",  "probe",  TRUE,  "mdi",    "change"),
  Cmd("jog",          "jog",    TRUE,  "manual", "jog"),     \* jog_cont, jog_incr, the _multi ones
  Cmd("jog_stop",     "always", FALSE, "none",   "nothing"),
  Cmd("home",         "zero",   FALSE, "manual", "jog"),     \* home_all, unhome, unhome_all
  Cmd("spindle",      "ready",  FALSE, "manual", "nothing"), \* forward, reverse, stop, increase, decrease
  Cmd("override",     "override", FALSE, "none", "nothing"), \* feed, rapid, velocity, coolant, ...
  Cmd("cycle_start",  "ready",  FALSE, "auto",   "run"),     \* auto_run without a guard sequence
  Cmd("auto_step",    "step",   TRUE,  "auto",   "step"),
  Cmd("cycle_pause",  "pause",  FALSE, "none",   "pause"),
  Cmd("cycle_resume", "resume", FALSE, "none",   "resume") }

None == [state |-> "none", interp |-> "idle"]
NoHandler == [cmd |-> Cmd("none", "none", FALSE, "none", "none"), pc |-> "idle"]
NoRfl == [pc |-> "off", step |-> "measure", want |-> {}, armed |-> FALSE]

State == {"estop", "off", "on"}
Interp == {"idle", "busy", "paused"}
Mdi == {"measure", "flag", "clear", "safez", "position", "mdi", "change"}

TypeOK ==
  /\ task \in [state : State, mode : {"manual", "auto", "mdi"}, interp : Interp]
  /\ doing \in {"none", "program"} \cup Mdi
  /\ doing = "none" <=> task.interp = "idle"
  /\ mach \in [tool : BOOLEAN, offset : BOOLEAN, top : BOOLEAN, entry : BOOLEAN]
  /\ flag \in BOOLEAN /\ errs \in BOOLEAN /\ linked \in BOOLEAN
  /\ snap \in [state : State, interp : Interp] \cup {None}
  /\ lock \in {"free", "cmd", "rfl"}
  /\ \/ hnd = NoHandler
     \/ hnd.cmd \in Commands /\ hnd.pc \in {"mode", "send"}
  /\ lock = "cmd" <=> hnd # NoHandler
  /\ active \in BOOLEAN /\ marked \in BOOLEAN
  /\ rfl.pc \in {"off", "lock", "mode", "send", "wait", "spindle", "spinning",
                 "run", "starting", "finally", "dead"}
  /\ lock = "rfl" <=> rfl.pc \in {"mode", "send", "spinning", "starting"}
  /\ active <=> rfl.pc # "off"
  /\ ops \in 0..MaxOps

Init ==
  /\ task = [state |-> "on", mode |-> "manual", interp |-> "idle"]
  /\ doing = "none"
  /\ mach \in [tool : BOOLEAN, offset : BOOLEAN, top : {FALSE}, entry : {FALSE}]
  /\ flag = FALSE /\ errs = FALSE
  /\ linked = TRUE /\ snap = None
  /\ lock = "free" /\ hnd = NoHandler
  /\ active = FALSE /\ rfl = NoRfl /\ marked = FALSE
  /\ ops = 0

Operate == ops < MaxOps /\ ops' = ops + 1

-----------------------------------------------------------------------------
(***************************************************************************)
(* LinuxCNC: what it does with a command, and what happens by itself.      *)
(***************************************************************************)
Idled(t) == [t EXCEPT !.interp = "idle"]

\* What was being executed ends here.  The measurement has cancelled the tool
\* length offset (G49) before its first move.
Stops ==
  /\ doing' = "none"
  /\ mach' = IF doing = "measure" THEN [mach EXCEPT !.offset = FALSE] ELSE mach

SwitchMode(m) ==
  IF task.mode = m
  THEN UNCHANGED <<task, doing, mach>>
  ELSE task' = [Idled(task) EXCEPT !.mode = m] /\ Stops

\* A command it cannot take ends up as text on the error channel.
Refuse == errs' = TRUE /\ UNCHANGED <<task, doing, mach, flag>>

StartsMdi(op) ==
  IF task.state = "on" /\ task.mode = "mdi" /\ task.interp = "idle"
  THEN /\ task' = [task EXCEPT !.interp = "busy"] /\ doing' = op
       /\ UNCHANGED <<mach, flag, errs>>
  ELSE Refuse

\* A program leaves the machine somewhere else.
StartsProgram ==
  IF task.state = "on" /\ task.mode = "auto" /\ task.interp = "idle"
  THEN /\ task' = [task EXCEPT !.interp = "busy"] /\ doing' = "program"
       /\ mach' = [mach EXCEPT !.top = FALSE, !.entry = FALSE]
       /\ UNCHANGED <<flag, errs>>
  ELSE Refuse

GoesTo(state) ==
  /\ task' = [Idled(task) EXCEPT !.state = state] /\ Stops
  /\ UNCHANGED <<flag, errs>>

Issue(act) ==
  CASE act = "estop" -> GoesTo("estop")
    [] act = "reset" -> IF task.state = "estop" THEN GoesTo("off") ELSE UNCHANGED lcncVars
    [] act = "on" -> IF task.state = "off" THEN GoesTo("on") ELSE UNCHANGED lcncVars
    [] act = "off" -> IF task.state = "on" THEN GoesTo("off") ELSE UNCHANGED lcncVars
    [] act = "abort" -> /\ task' = Idled(task) /\ Stops /\ UNCHANGED flag
                        /\ errs' = (errs \/ doing = "measure")
    [] act \in {"mdi", "change"} -> StartsMdi(act)
    [] act = "jog" -> IF task.state = "on" /\ task.mode = "manual"
                      THEN mach' = [mach EXCEPT !.top = FALSE, !.entry = FALSE]
                           /\ UNCHANGED <<task, doing, flag, errs>>
                      ELSE Refuse
    [] act = "run" -> StartsProgram
    [] act = "step" -> IF task.interp = "paused" THEN UNCHANGED lcncVars ELSE StartsProgram
    [] act = "pause" -> IF task.interp = "busy" /\ doing = "program"
                        THEN task' = [task EXCEPT !.interp = "paused"]
                             /\ UNCHANGED <<doing, mach, flag, errs>>
                        ELSE UNCHANGED lcncVars
    [] act = "resume" -> IF task.interp = "paused"
                         THEN task' = [task EXCEPT !.interp = "busy"]
                              /\ UNCHANGED <<doing, mach, flag, errs>>
                         ELSE UNCHANGED lcncVars
    [] act = "nothing" -> UNCHANGED lcncVars

\* The MDI line is done.  The measurement mounts the tool, probes it, retracts
\* and applies the offset.
MdiDone ==
  /\ doing \in Mdi /\ task.interp = "busy"
  /\ task' = Idled(task) /\ doing' = "none"
  /\ mach' = CASE doing = "measure" -> [tool |-> TRUE, offset |-> TRUE, top |-> TRUE, entry |-> FALSE]
               [] doing = "safez" -> [mach EXCEPT !.top = TRUE]
               [] doing = "position" -> [mach EXCEPT !.entry = TRUE]
               [] doing = "change" -> [mach EXCEPT !.tool = FALSE, !.offset = TRUE]
               [] doing = "mdi" -> [mach EXCEPT !.top = FALSE, !.entry = FALSE]
               [] OTHER -> mach
  /\ flag' = CASE doing = "flag" -> TRUE [] doing = "clear" -> FALSE [] OTHER -> flag
  /\ UNCHANGED <<errs, linked, snap, cmdVars, rflVars, ops>>

\* It fails, and says so: a probe that misses, a limit.
MdiFails ==
  /\ doing \in Mdi \ {"flag", "clear"} /\ Operate
  /\ task' = Idled(task) /\ Stops /\ errs' = TRUE
  /\ UNCHANGED <<flag, linked, snap, cmdVars, rflVars>>

\* The skim through the lines before the start meets M600: o<450> clears the
\* flag if the tool is the mounted one.
SkimConsumes ==
  /\ doing = "program" /\ flag /\ mach.tool
  /\ flag' = FALSE
  /\ UNCHANGED <<task, doing, mach, errs, linked, snap, cmdVars, rflVars, ops>>

ProgramEnds ==
  /\ doing = "program" /\ task.interp = "busy"
  /\ ~(flag /\ mach.tool)   \* the skim comes first
  /\ task' = Idled(task) /\ Stops
  /\ UNCHANGED <<flag, errs, linked, snap, cmdVars, rflVars, ops>>

\* E-stop from outside the gateway.
Trips ==
  /\ task.state = "on" /\ Operate
  /\ GoesTo("estop")
  /\ UNCHANGED <<linked, snap, cmdVars, rflVars>>

LcncEnds ==
  /\ LinkLoss /\ linked /\ Operate
  /\ linked' = FALSE
  /\ task' = [state |-> "estop", mode |-> "manual", interp |-> "idle"]
  /\ doing' = "none" /\ errs' = FALSE /\ mach' = [mach EXCEPT !.offset = FALSE]
  /\ UNCHANGED <<flag, snap, cmdVars, rflVars>>

LcncBack ==
  /\ ~linked
  /\ linked' = TRUE
  /\ UNCHANGED <<lcncVars, snap, cmdVars, rflVars, ops>>

-----------------------------------------------------------------------------
(***************************************************************************)
(* The poller, the policy, the handlers.                                   *)
(***************************************************************************)
\* One round of the poller: status and errors are published together, and the
\* errors counted.
Sample ==
  /\ linked
  /\ snap' = [state |-> task.state, interp |-> task.interp]
  /\ errs' = FALSE
  /\ marked' = (marked \/ errs)
  /\ UNCHANGED <<task, doing, mach, flag, linked, cmdVars, active, rfl, ops>>

\* GATE_REQUIREMENTS for an armed client of a homed machine without eoffset;
\* without a snapshot nothing is denied.
Permitted(gate) ==
  \/ snap = None
  \/ LET base == snap.state = "on"
         idle == snap.interp = "idle"
     IN  CASE gate \in {"always"} -> TRUE
           [] gate \in {"override", "abort"} -> base
           [] gate \in {"idle", "jog", "ready", "probe", "zero"} -> base /\ idle
           [] gate = "pause" -> base /\ snap.interp = "busy"
           [] gate = "resume" -> base /\ snap.interp = "paused"
           [] gate = "step" -> base /\ snap.interp # "busy"
           [] gate = "safety" -> snap.state # "estop"
           [] gate = "setup" -> snap.state # "estop" /\ idle

\* reject_if_auto_running, on a fresh poll.
Rejects == task.mode \in {"auto", "mdi"} /\ task.interp # "idle"

\* auto_step on a paused program only advances it.
Advances(c) == c.name = "auto_step" /\ task.interp = "paused"

Taken(c) ==
  /\ lock' = "cmd"
  /\ hnd' = [cmd |-> c, pc |-> IF c.mode = "none" \/ Advances(c) THEN "send" ELSE "mode"]

\* (mutant) The policy's snapshot decides alone.
BeginOnSnapshot(c) ==
  /\ lock = "free" /\ linked /\ Operate
  /\ Permitted(c.gate)
  /\ Taken(c)
  /\ UNCHANGED <<lcncVars, linked, snap, rflVars>>

\* A command gets the lock, is permitted and not rejected.
Begin(c) ==
  /\ lock = "free" /\ linked /\ Operate
  /\ Permitted(c.gate)
  /\ c.guarded => ~Rejects \/ Advances(c)
  /\ c.name = "machine_on" => task.state # "estop"
  /\ Taken(c)
  /\ UNCHANGED <<lcncVars, linked, snap, rflVars>>

\* await set_mode, which polls again.
HandlerMode ==
  /\ hnd.pc = "mode" /\ linked
  /\ SwitchMode(hnd.cmd.mode)
  /\ hnd' = [hnd EXCEPT !.pc = "send"]
  /\ UNCHANGED <<flag, errs, linked, snap, lock, rflVars, ops>>

\* await _cmd_blocking, and the lock is released.
HandlerSend ==
  /\ hnd.pc = "send" /\ linked
  /\ Issue(hnd.cmd.act)
  /\ hnd' = NoHandler /\ lock' = "free"
  /\ UNCHANGED <<linked, snap, rflVars, ops>>

\* CMD is None: the exception is the reply.
HandlerFails ==
  /\ hnd.pc # "idle" /\ ~linked
  /\ hnd' = NoHandler /\ lock' = "free"
  /\ UNCHANGED <<lcncVars, linked, snap, rflVars, ops>>

-----------------------------------------------------------------------------
(***************************************************************************)
(* Run from line.                                                          *)
(***************************************************************************)
Goto(pc) == rfl' = [rfl EXCEPT !.pc = pc]
GotoStep(step) == rfl' = [rfl EXCEPT !.pc = "lock", !.step = step]

\* What comes after the steps up to this one.
After(r) ==
  IF r.step = "measure" THEN [r EXCEPT !.pc = "lock", !.step = "flag"]
  ELSE IF r.step = "flag" /\ "safez" \in r.want THEN [r EXCEPT !.pc = "lock", !.step = "safez"]
  ELSE IF r.step = "safez" /\ "position" \in r.want THEN [r EXCEPT !.pc = "lock", !.step = "position"]
  ELSE IF "spindle" \in r.want THEN [r EXCEPT !.pc = "spindle"]
  ELSE [r EXCEPT !.pc = "run"]

\* auto_run with pre_tool, safe_z or an entry: checks, and the task is created.
RflRequest(w) ==
  /\ lock = "free" /\ linked /\ Operate
  /\ Permitted("ready") /\ ~active /\ ~Rejects
  /\ active' = TRUE /\ marked' = FALSE
  /\ rfl' = [NoRfl EXCEPT !.pc = "lock", !.want = w,
                          !.step = IF "measure" \in w THEN "measure" ELSE "safez"]
  /\ UNCHANGED <<lcncVars, linked, snap, cmdVars>>

\* _rfl_mdi_step: lock, reject_if_auto_running, set_mode(MDI), mdi, release.  An
\* exception (STAT is None) ends the sequence, in its finally block the task.
RflLock ==
  /\ rfl.pc = "lock" /\ lock = "free"
  /\ IF linked /\ ~Rejects
     THEN Goto("mode") /\ lock' = "rfl" /\ UNCHANGED active
     ELSE /\ UNCHANGED lock
          /\ IF rfl.step # "clear" THEN Goto("finally") /\ UNCHANGED active
             ELSE IF linked THEN rfl' = NoRfl /\ active' = FALSE
             ELSE Goto("dead") /\ UNCHANGED active
  /\ UNCHANGED <<lcncVars, linked, snap, hnd, marked, ops>>

RflMode ==
  /\ rfl.pc = "mode" /\ linked
  /\ SwitchMode("mdi")
  /\ Goto("send")
  /\ UNCHANGED <<flag, errs, linked, snap, cmdVars, active, marked, ops>>

\* (mutant) The lock is held until the line is done.
RflSendHolding ==
  /\ rfl.pc = "send" /\ linked
  /\ StartsMdi(rfl.step)
  /\ Goto("wait") /\ UNCHANGED lock
  /\ UNCHANGED <<linked, snap, hnd, active, marked, ops>>

\* _cmd_blocking(CMD.mdi, ...), then the lock is free for anybody.
RflSend ==
  /\ rfl.pc = "send" /\ linked
  /\ StartsMdi(rfl.step)
  /\ Goto("wait") /\ lock' = "free"
  /\ UNCHANGED <<linked, snap, hnd, active, marked, ops>>

\* (mutant) The applied offset is not looked at.
VerifiedTool ==
  CASE rfl.step = "measure" -> mach.tool
    [] rfl.step = "safez" -> mach.top
    [] rfl.step = "position" -> mach.entry
    [] OTHER -> TRUE

\* What the sequence checks after a step: the tool and its offset and no error,
\* the height, the position.
Verified ==
  CASE rfl.step = "measure" -> mach.tool /\ mach.offset /\ ~marked
    [] rfl.step = "safez" -> mach.top
    [] rfl.step = "position" -> mach.entry
    [] OTHER -> TRUE

\* _rfl_wait_interp_idle: idle again, or still idle after the grace period.
RflStepDone ==
  /\ rfl.pc = "wait" /\ linked
  /\ task.state = "on" /\ task.interp = "idle"
  /\ IF rfl.step = "clear" THEN rfl' = NoRfl /\ active' = FALSE
     ELSE /\ rfl' = IF ~Verified THEN [rfl EXCEPT !.pc = "finally"]
                    ELSE After([rfl EXCEPT !.armed = @ \/ rfl.step = "flag"])
          /\ UNCHANGED active
  /\ UNCHANGED <<lcncVars, linked, snap, cmdVars, marked, ops>>

\* ... or off, in E-stop, disconnected, or busy for too long.
RflStepFails ==
  /\ rfl.pc = "wait"
  /\ ~linked \/ task.state # "on" \/ task.interp # "idle"
  /\ IF rfl.step = "clear" THEN rfl' = NoRfl /\ active' = FALSE
     ELSE Goto("finally") /\ UNCHANGED active
  /\ UNCHANGED <<lcncVars, linked, snap, cmdVars, marked, ops>>

\* The spindle, in manual mode, and AUTO_RUN: the lock, a mode switch, the
\* command; neither looks at what LinuxCNC is doing.
RflSwitch ==
  /\ rfl.pc \in {"spindle", "run"} /\ lock = "free" /\ linked
  /\ lock' = "rfl"
  /\ IF rfl.pc = "spindle" THEN SwitchMode("manual") /\ Goto("spinning")
     ELSE SwitchMode("auto") /\ Goto("starting")
  /\ UNCHANGED <<flag, errs, linked, snap, hnd, active, marked, ops>>

RflSpindle ==
  /\ rfl.pc = "spinning" /\ linked
  /\ Goto("run") /\ lock' = "free"
  /\ UNCHANGED <<lcncVars, linked, snap, hnd, active, marked, ops>>

RflStart ==
  /\ rfl.pc = "starting" /\ linked
  /\ StartsProgram
  /\ rfl' = [rfl EXCEPT !.pc = "finally", !.armed = FALSE] /\ lock' = "free"
  /\ UNCHANGED <<linked, snap, hnd, active, marked, ops>>

\* CMD is None where the sequence uses it.
RflRaises ==
  /\ ~linked
  /\ \/ rfl.pc \in {"mode", "send", "spinning", "starting"}
     \/ rfl.pc \in {"spindle", "run"} /\ lock = "free"
  /\ Goto(IF rfl.step = "clear" THEN "dead" ELSE "finally")
  /\ lock' = "free"
  /\ UNCHANGED <<lcncVars, linked, snap, hnd, active, marked, ops>>

\* (mutant) Only the path that clears the flag ends the sequence.
RflFinallyArmed ==
  /\ rfl.pc = "finally" /\ rfl.armed
  /\ GotoStep("clear") /\ UNCHANGED active
  /\ UNCHANGED <<lcncVars, linked, snap, cmdVars, marked, ops>>

\* The finally block: an armed flag is cleared first, then the sequence is over.
RflFinally ==
  /\ rfl.pc = "finally"
  /\ IF rfl.armed THEN GotoStep("clear") /\ UNCHANGED active
     ELSE rfl' = NoRfl /\ active' = FALSE
  /\ UNCHANGED <<lcncVars, linked, snap, cmdVars, marked, ops>>

-----------------------------------------------------------------------------
Lcnc == MdiDone \/ MdiFails \/ SkimConsumes \/ ProgramEnds \/ Trips \/ LcncEnds \/ LcncBack
Handler == HandlerMode \/ HandlerSend \/ HandlerFails
Rfl == \/ RflLock \/ RflMode \/ RflSend \/ RflStepDone \/ RflStepFails
       \/ RflSwitch \/ RflSpindle \/ RflStart \/ RflRaises \/ RflFinally

Next ==
  \/ Lcnc \/ Sample \/ Handler \/ Rfl
  \/ \E c \in Commands : Begin(c)
  \/ \E w \in Requests : RflRequest(w)

Spec == Init /\ [][Next]_vars

\* The event loop runs every task that can run, and to_thread returns.  The
\* lock is fair (asyncio.Lock is a queue), and each wait has its timeout.
Fairness == WF_vars(Handler) /\ SF_vars(RflLock \/ RflSwitch \/ RflRaises) /\ WF_vars(Rfl)

-----------------------------------------------------------------------------
(***************************************************************************)
(* Properties.                                                             *)
(***************************************************************************)
\* gateway.py, reject_if_auto_running: "If we're in AUTO and interpreter isn't
\* idle, don't allow mode switches / jog / mdi".  What a handler that calls it
\* sends under the lock never ends a program, however old the snapshot was.
GuardedLeavesProgram ==
  [][ hnd' # hnd /\ linked /\ hnd.cmd.guarded /\ doing = "program" => doing' = "program" ]_vars

\* gateway.py, _rfl_sequence: the finally block clears the skip flag and then
\* _rfl_active, so a sequence ends, whatever failed on the way, and another can
\* be requested.  Only if LinuxCNC ends just when the flag is being cleared does
\* the exception skip the last line.
RflEnds == active ~> ~active \/ rfl.pc = "dead"
=============================================================================
