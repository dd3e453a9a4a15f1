------------------------------ MODULE Sessions ------------------------------
(***************************************************************************)
(* gateway.py's client sessions: who may command the machine, and what     *)
(* happens to a jog when that ends.                                        *)
(*                                                                         *)
(* Every WebSocket connection is served by two coroutines: the receive     *)
(* loop of ws_endpoint ("recv") and its status_loop ("stat").  Both take   *)
(* _cmd_lock, an asyncio.Lock that serves its waiters in order, before     *)
(* they talk to LinuxCNC.  A connection is authorised ("armed") by its     *)
(* operator or, after a short disconnect, by resuming the hold its browser *)
(* tab left behind; it loses that on request, when its heartbeats stop,    *)
(* when it closes and when the gateway loses LinuxCNC; a jog in flight has  *)
(* to be stopped.                                                          *)
(***************************************************************************)
EXTENDS Naturals, FiniteSets, SequencesExt

CONSTANTS
  Conn,          \* connections (client ids)
  Tab,           \* browser tabs (session ids)
  NoTab, Nobody, Orphan,
  HbTimeout,     \* a client is silent after this many ticks
  ResumeMaxAge,  \* _RESUME_MAX_HB_AGE, in ticks
  HoldLife       \* _ARMED_RESUME_GRACE_SEC, in ticks

ASSUME SessionAssumption ==
  /\ NoTab \notin Tab
  /\ Nobody \notin Conn /\ Orphan \notin Conn /\ Nobody # Orphan
  /\ HbTimeout \in Nat \ {0}
  /\ ResumeMaxAge \in Nat /\ ResumeMaxAge < HbTimeout
  /\ HoldLife \in Nat \ {0}

VARIABLES
  phase,     \* "free", "open" (in _clients), or "leaving" (finally block)
  armed,     \* ClientState.armed
  hbAge,     \* ticks since last_hb
  tab,       \* _disc_session_id
  hidden,    \* ClientState.hidden: the browser tab is in the background
  recvPc,    \* what the receive loop waits for _cmd_lock to do, or "idle"
  statPc,    \* status_loop: "loop", "stall" (disarming), "dead" (it gave up),
             \* "done" (ended, and the socket with it)
  lockq,     \* _cmd_lock: its holder, then its waiters
  hold,      \* _armed_resume_holds: ticks left, 0 if there is none
  unacked,   \* _unacked_trip is not None
  linked,    \* lcnc_connected; STAT and CMD are None without it
  ready,     \* the machine is on and homed: LinuxCNC accepts a jog
  moving     \* whose continuous jog is in flight; Orphan: that client is gone

sessVars == <<phase, armed, hbAge, tab, hidden>>
taskVars == <<recvPc, statPc, lockq>>
vars == <<sessVars, taskVars, hold, unacked, linked, ready, moving>>

Task == [conn : Conn, by : {"recv", "stat"}]
Recv(c) == [conn |-> c, by |-> "recv"]
Stat(c) == [conn |-> c, by |-> "stat"]

TypeOK ==
  /\ phase \in [Conn -> {"free", "open", "leaving"}]
  /\ armed \in [Conn -> BOOLEAN]
  /\ hbAge \in [Conn -> 0..(HbTimeout + 1)]
  /\ tab \in [Conn -> Tab \cup {NoTab}]
  /\ hidden \in [Conn -> BOOLEAN]
  /\ recvPc \in [Conn -> {"idle", "jog", "cmd", "disarm", "leave"}]
  /\ statPc \in [Conn -> {"loop", "stall", "dead", "done"}]
  /\ lockq \in Seq(Task)
  /\ hold \in [Tab -> 0..HoldLife]
  /\ unacked \in BOOLEAN /\ linked \in BOOLEAN /\ ready \in BOOLEAN
  /\ moving \in Conn \cup {Nobody, Orphan}

Init ==
  /\ phase = [c \in Conn |-> "free"]
  /\ armed = [c \in Conn |-> FALSE]
  /\ hbAge = [c \in Conn |-> 0]
  /\ tab = [c \in Conn |-> NoTab]
  /\ hidden = [c \in Conn |-> FALSE]
  /\ recvPc = [c \in Conn |-> "idle"]
  /\ statPc = [c \in Conn |-> "done"]
  /\ lockq = <<>>
  /\ hold = [t \in Tab |-> 0]
  /\ unacked = FALSE
  /\ linked = TRUE /\ ready = FALSE
  /\ moving = Nobody

-----------------------------------------------------------------------------
\* asyncio.Lock is fair: a coroutine that finds it taken queues up behind.
Enqueue(task) == lockq' = Append(lockq, task)
Holds(task) == lockq # <<>> /\ Head(lockq) = task
Release == lockq' = Tail(lockq)

\* (mutant) A cancelled coroutine stays in the queue.
NotCancelled(q, task) == q

\* A cancelled coroutine leaves the queue, or releases the lock.
Cancelled(q, task) == RemoveFirst(q, task)

\* (mutant) A hold for a connection that never said hello.
HeldAnyway(t) ==
  [x \in DOMAIN hold \cup {t} |-> IF x = t THEN HoldLife ELSE hold[x]]

\* _register_armed_resume_hold: no session id, no hold.
Held(t) == IF t \in Tab THEN [hold EXCEPT ![t] = HoldLife] ELSE hold
\* _consume_armed_resume_hold
Consumed(t) == IF t \in Tab THEN [hold EXCEPT ![t] = 0] ELSE hold

\* _jog_stop_for_client: it reaches LinuxCNC only if the gateway does.
JogStopped == IF linked THEN Nobody ELSE moving

\* The receive loop is in receive_text, and the socket is usable: status_loop
\* has not closed it.
Receiving(c) == phase[c] = "open" /\ recvPc[c] = "idle" /\ statPc[c] # "done"

-----------------------------------------------------------------------------
(***************************************************************************)
(* The receive loop.                                                       *)
(***************************************************************************)

Accept(c) ==
  /\ phase[c] = "free"
  /\ phase' = [phase EXCEPT ![c] = "open"]
  /\ armed' = [armed EXCEPT ![c] = FALSE]
  /\ hbAge' = [hbAge EXCEPT ![c] = 0]
  /\ tab' = [tab EXCEPT ![c] = NoTab]
  /\ hidden' = [hidden EXCEPT ![c] = FALSE]
  /\ statPc' = [statPc EXCEPT ![c] = "loop"]
  /\ UNCHANGED <<recvPc, lockq, hold, unacked, linked, ready, moving>>

Heartbeat(c) ==
  /\ Receiving(c)
  /\ hbAge' = [hbAge EXCEPT ![c] = 0]
  /\ UNCHANGED <<phase, armed, tab, hidden, taskVars, hold, unacked, linked, ready, moving>>

\* cmd "hello", sent once per connection: an unexpired hold is consumed and
\* arms the connection, unless a trip is waiting to be acknowledged.
ResumeGranted(t) == hold[t] > 0 /\ ~unacked

Hello(c, t, resume) ==
  /\ Receiving(c) /\ tab[c] = NoTab
  /\ tab' = [tab EXCEPT ![c] = t]
  /\ IF resume /\ ResumeGranted(t)
     THEN /\ hold' = Consumed(t)
          /\ armed' = [armed EXCEPT ![c] = TRUE]
          /\ hbAge' = [hbAge EXCEPT ![c] = 0]
     ELSE UNCHANGED <<hold, armed, hbAge>>
  /\ UNCHANGED <<phase, hidden, taskVars, unacked, linked, ready, moving>>

\* cmd "arm" with armed = true; refused while a trip is unacknowledged.
Arm(c) ==
  /\ Receiving(c) /\ ~unacked
  /\ armed' = [armed EXCEPT ![c] = TRUE]
  /\ hbAge' = [hbAge EXCEPT ![c] = 0]
  /\ UNCHANGED <<phase, tab, hidden, taskVars, hold, unacked, linked, ready, moving>>

\* cmd "arm" with armed = false: disarm at once, then stop the jog (unless
\* LinuxCNC is not there) ...
Disarm(c) ==
  /\ Receiving(c)
  /\ armed' = [armed EXCEPT ![c] = FALSE]
  /\ hbAge' = [hbAge EXCEPT ![c] = 0]
  /\ IF armed[c] /\ linked
     THEN Enqueue(Recv(c)) /\ recvPc' = [recvPc EXCEPT ![c] = "disarm"]
     ELSE UNCHANGED <<lockq, recvPc>>
  /\ hold' = IF armed[c] /\ ~linked THEN Held(tab[c]) ELSE hold
  /\ UNCHANGED <<phase, tab, hidden, statPc, unacked, linked, ready, moving>>

\* ... and leave a hold, so that a reload brings the tab back armed.
DisarmDone(c) ==
  /\ recvPc[c] = "disarm" /\ Holds(Recv(c))
  /\ moving' = JogStopped
  /\ Release
  /\ recvPc' = [recvPc EXCEPT ![c] = "idle"]
  /\ hold' = Held(tab[c])
  /\ UNCHANGED <<sessVars, statPc, unacked, linked, ready>>

\* cmd "tab_visibility", sent when the tab goes to the background or comes back.
TabVisibility(c, value) ==
  /\ Receiving(c)
  /\ hidden' = [hidden EXCEPT ![c] = value]
  /\ UNCHANGED <<phase, armed, hbAge, tab, taskVars, hold, unacked, linked, ready, moving>>

\* cmd "safety_trip_ack"
TripAck(c) ==
  /\ Receiving(c) /\ unacked
  /\ unacked' = FALSE
  /\ UNCHANGED <<sessVars, taskVars, hold, linked, ready, moving>>

\* cmd "jog_cont" (and its multi-axis form): handle_command gets client.armed
\* by value and queues for the lock; without it the command has no effect, and
\* neither has it when LinuxCNC is not there.
JogCont(c) ==
  /\ Receiving(c) /\ armed[c]
  /\ Enqueue(Recv(c))
  /\ recvPc' = [recvPc EXCEPT ![c] = "jog"]
  /\ UNCHANGED <<sessVars, statPc, hold, unacked, linked, ready, moving>>

JogStarted(c) ==
  /\ recvPc[c] = "jog" /\ Holds(Recv(c))
  /\ moving' = IF linked /\ ready THEN c ELSE moving
  /\ Release
  /\ recvPc' = [recvPc EXCEPT ![c] = "idle"]
  /\ UNCHANGED <<sessVars, statPc, hold, unacked, linked, ready>>

\* Any other command: it holds the lock for as long as it takes, and may stop
\* the machine (estop, machine_off) or just its jog (jog_stop, a mode change).
Command(c) ==
  /\ Receiving(c)
  /\ Enqueue(Recv(c))
  /\ recvPc' = [recvPc EXCEPT ![c] = "cmd"]
  /\ UNCHANGED <<sessVars, statPc, hold, unacked, linked, ready, moving>>

CommandDone(c) ==
  /\ recvPc[c] = "cmd" /\ Holds(Recv(c))
  /\ ready' \in IF linked THEN {ready, FALSE} ELSE {ready}
  /\ moving' \in IF ready' THEN {moving, JogStopped} ELSE {Nobody}
  /\ Release
  /\ recvPc' = [recvPc EXCEPT ![c] = "idle"]
  /\ UNCHANGED <<sessVars, statPc, hold, unacked, linked>>

\* The end of finally: the status task is cancelled, wherever it is, and the
\* connection is gone.
Gone(c, jog) ==
  /\ phase' = [phase EXCEPT ![c] = "free"]
  /\ statPc' = [statPc EXCEPT ![c] = "done"]
  /\ hidden' = [hidden EXCEPT ![c] = FALSE]
  /\ moving' = IF jog = c THEN Orphan ELSE jog

\* (mutant) ... or any client.
HoldAlways(c) == Held(tab[c])

\* Only a client that was beating normally when it left may resume.
HoldIfBeating(c) == IF hbAge[c] <= ResumeMaxAge THEN Held(tab[c]) ELSE hold

\* The socket closed: the client leaves the registry.  An armed one stops its
\* jog first, unless LinuxCNC is not there: then it leaves no hold either ...
Drop(c) ==
  /\ phase[c] = "open" /\ recvPc[c] = "idle"
  /\ IF armed[c] /\ linked
     THEN /\ phase' = [phase EXCEPT ![c] = "leaving"]
          /\ recvPc' = [recvPc EXCEPT ![c] = "leave"]
          /\ Enqueue(Recv(c))
          /\ UNCHANGED <<statPc, hidden, moving>>
     ELSE /\ Gone(c, moving)
          /\ lockq' = Cancelled(lockq, Stat(c))
          /\ UNCHANGED recvPc
  /\ UNCHANGED <<armed, hbAge, tab, hold, unacked, linked, ready>>

\* (mutant) The jog of an armed client that leaves is not stopped.
LeaveDoneNoStop(c) ==
  /\ recvPc[c] = "leave" /\ Holds(Recv(c))
  /\ Gone(c, moving)
  /\ lockq' = Cancelled(Tail(lockq), Stat(c))
  /\ recvPc' = [recvPc EXCEPT ![c] = "idle"]
  /\ hold' = HoldIfBeating(c)
  /\ UNCHANGED <<armed, hbAge, tab, unacked, linked, ready>>

\* ... and leaves a hold.
LeaveDone(c) ==
  /\ recvPc[c] = "leave" /\ Holds(Recv(c))
  /\ Gone(c, JogStopped)
  /\ lockq' = Cancelled(Tail(lockq), Stat(c))
  /\ recvPc' = [recvPc EXCEPT ![c] = "idle"]
  /\ hold' = HoldIfBeating(c)
  /\ UNCHANGED <<armed, hbAge, tab, unacked, linked, ready>>

-----------------------------------------------------------------------------
(***************************************************************************)
(* status_loop: its heartbeat check, which it does not reach without        *)
(* LinuxCNC, nor for a hidden client, whose status it skips.               *)
(***************************************************************************)
Silent(c) == phase[c] = "open" /\ hbAge[c] > HbTimeout
Checked(c) == statPc[c] = "loop" /\ linked /\ ~hidden[c]

\* (mutant) A stalled client is disarmed, and its jog left running.
HbStallNoStop(c) ==
  /\ Checked(c) /\ Silent(c) /\ armed[c]
  /\ armed' = [armed EXCEPT ![c] = FALSE]
  /\ UNCHANGED <<phase, hbAge, tab, hidden, taskVars, hold, unacked, linked, ready, moving>>

\* An armed client is disarmed at once; then its jog is stopped ...
HbStall(c) ==
  /\ Checked(c) /\ Silent(c) /\ armed[c]
  /\ armed' = [armed EXCEPT ![c] = FALSE]
  /\ statPc' = [statPc EXCEPT ![c] = "stall"]
  /\ Enqueue(Stat(c))
  /\ UNCHANGED <<phase, hbAge, tab, hidden, recvPc, hold, unacked, linked, ready, moving>>

\* ... and its hold dropped (the lookup fails if it left the registry since).
HbStallDone(c) ==
  /\ statPc[c] = "stall" /\ Holds(Stat(c))
  /\ moving' = JogStopped
  /\ Release
  /\ statPc' = [statPc EXCEPT ![c] = "loop"]
  /\ hold' = IF phase[c] = "open" THEN Consumed(tab[c]) ELSE hold
  /\ UNCHANGED <<sessVars, recvPc, unacked, linked, ready>>

\* (mutant) Only clients that said hello are evicted.
HbEvictTabs(c) ==
  /\ Checked(c) /\ Silent(c) /\ ~armed[c] /\ tab[c] # NoTab
  /\ statPc' = [statPc EXCEPT ![c] = "done"]
  /\ UNCHANGED <<sessVars, recvPc, lockq, hold, unacked, linked, ready, moving>>

\* A client that is not armed is closed; the receive loop notices (Drop).
HbEvict(c) ==
  /\ Checked(c) /\ Silent(c) /\ ~armed[c]
  /\ statPc' = [statPc EXCEPT ![c] = "done"]
  /\ UNCHANGED <<sessVars, recvPc, lockq, hold, unacked, linked, ready, moving>>

\* status_loop gives up: after ten exceptions in a row, or when it cannot send
\* that LinuxCNC is gone.  The socket stays open, and the client registered.
LoopDies(c) ==
  /\ statPc[c] = "loop"
  /\ statPc' = [statPc EXCEPT ![c] = "dead"]
  /\ UNCHANGED <<sessVars, recvPc, lockq, hold, unacked, linked, ready, moving>>

\* Without LinuxCNC every client is disarmed, and nothing else happens.
LinkDisarm(c) ==
  /\ statPc[c] = "loop" /\ ~linked /\ armed[c]
  /\ armed' = [armed EXCEPT ![c] = FALSE]
  /\ UNCHANGED <<phase, hbAge, tab, hidden, taskVars, hold, unacked, linked, ready, moving>>

-----------------------------------------------------------------------------
\* _status_poller: linuxcncsvr is gone (it comes back in ESTOP), or five polls
\* in a row failed; either way it then tries to connect again.
LinkLost ==
  /\ linked
  /\ linked' = FALSE
  /\ \/ ready' = FALSE /\ moving' = Nobody
     \/ UNCHANGED <<ready, moving>>
  /\ UNCHANGED <<sessVars, taskVars, hold, unacked>>

LinkBack ==
  /\ ~linked
  /\ linked' = TRUE
  /\ UNCHANGED <<sessVars, taskVars, hold, unacked, ready, moving>>

\* _status_poller saw the trip latch go from clear to latched.
TripSeen ==
  /\ linked /\ ~unacked
  /\ unacked' = TRUE
  /\ UNCHANGED <<sessVars, taskVars, hold, linked, ready, moving>>

\* The operator readied the machine.  That takes several commands (estop_reset,
\* machine_on, home), each queued after the one before has ended, so a jog that
\* was waiting for the lock when LinuxCNC was lost has had its turn.
MachineReady ==
  /\ linked /\ ~ready
  /\ \A c \in Conn : recvPc[c] # "jog"
  /\ ready' = TRUE
  /\ UNCHANGED <<sessVars, taskVars, hold, unacked, linked, moving>>

\* LinuxCNC ended the jog: a limit, an E-stop, the safety chain.
JogEnds ==
  /\ ready
  /\ moving' = Nobody
  /\ ready' \in {ready, FALSE}
  /\ UNCHANGED <<sessVars, taskVars, hold, unacked, linked>>

\* status_loop looks at the heartbeat many times per tick.
Tick ==
  /\ \A c \in Conn : ~(Checked(c) /\ Silent(c))
  /\ hbAge' = [c \in Conn |->
                 IF phase[c] # "free" /\ hbAge[c] <= HbTimeout THEN hbAge[c] + 1
                 ELSE hbAge[c]]
  /\ hold' = [t \in Tab |-> IF hold[t] > 0 THEN hold[t] - 1 ELSE 0]
  /\ UNCHANGED <<phase, armed, tab, hidden, taskVars, unacked, linked, ready, moving>>

RecvNext(c) ==
  \/ Accept(c) \/ Heartbeat(c) \/ Arm(c) \/ Disarm(c) \/ DisarmDone(c)
  \/ \E t \in Tab, resume \in BOOLEAN : Hello(c, t, resume)
  \/ \E value \in BOOLEAN : TabVisibility(c, value)
  \/ TripAck(c) \/ JogCont(c) \/ JogStarted(c) \/ Command(c) \/ CommandDone(c)
  \/ Drop(c) \/ LeaveDone(c)

StatNext(c) ==
  HbStall(c) \/ HbStallDone(c) \/ HbEvict(c) \/ LinkDisarm(c) \/ LoopDies(c)

Next ==
  \/ \E c \in Conn : RecvNext(c) \/ StatNext(c)
  \/ LinkLost \/ LinkBack \/ TripSeen \/ MachineReady \/ JogEnds \/ Tick

Spec == Init /\ [][Next]_vars

\* Every command ends (LinuxCNC answers or times out), a status_loop that has
\* not given up runs (the sends for which it skips a tick time out), and a
\* socket that status_loop closed is noticed.
LockHolderEnds(c) ==
  DisarmDone(c) \/ JogStarted(c) \/ CommandDone(c) \/ LeaveDone(c) \/ HbStallDone(c)

Fairness == \A c \in Conn :
  /\ WF_vars(LockHolderEnds(c))
  /\ WF_vars(HbStall(c) \/ HbEvict(c))
  /\ WF_vars(statPc[c] = "done" /\ Drop(c))

FairSpec == Spec /\ Fairness

-----------------------------------------------------------------------------
(***************************************************************************)
(* Properties.                                                             *)
(***************************************************************************)
InQueue(task) == \E i \in 1..Len(lockq) : lockq[i] = task

\* _cmd_lock is held or awaited by exactly the coroutines that are at such a
\* point, once each: no coroutine waits that was cancelled, and no lock is
\* held by a connection that is gone.
LockConsistent ==
  /\ \A i, j \in 1..Len(lockq) : lockq[i] = lockq[j] => i = j
  /\ \A c \in Conn :
       /\ InQueue(Recv(c)) <=> recvPc[c] # "idle"
       /\ InQueue(Stat(c)) <=> statPc[c] = "stall"
       /\ phase[c] = "free" => recvPc[c] = "idle" /\ statPc[c] = "done"

\* A client's jog, in flight or queued, has a client that may jog, or its stop
\* is on the way: queued behind whatever holds the lock.
Attended(c) ==
  moving = c \/ recvPc[c] = "jog" =>
    armed[c] \/ recvPc[c] \in {"disarm", "leave"} \/ statPc[c] = "stall"

\* cmd "arm": "all paths to disarmed do the same thing", that is they stop the
\* jog.  So no step of a client, of its status_loop or of another client leaves
\* a jog in flight that nobody may command and nobody is about to stop, unless
\* the gateway has no LinuxCNC to send the stop to.
DisarmedJogIsStopping ==
  [][ \A c \in Conn : linked /\ Attended(c) => Attended(c)' ]_vars

\* A client whose heartbeats stopped does not stay: it is disarmed, its jog is
\* stopped and it leaves the registry, unless it is heard of again.  (While it
\* is registered the gateway keeps the machine's safety chain closed.)  The
\* check needs LinuxCNC, a tab in the foreground and a status_loop that has not
\* given up: nobody else looks at the heartbeat.
SilentClientLeaves ==
  <>[]linked => \A c \in Conn :
    Silent(c) /\ ~hidden[c] /\ statPc[c] # "dead"
      ~> ~Silent(c) \/ hidden[c] \/ statPc[c] = "dead"

\* README, "Heartbeat Watchdog": "If the gateway doesn't receive a heartbeat from
\* an armed client within 3 seconds (e.g., browser freeze, WiFi stall), it stops
\* all motion and disarms the connection."  So whenever LinuxCNC is there, an
\* armed client that has gone silent does not stay armed, whether its tab is
\* hidden or not, if only its status_loop runs.
SilentClientDisarmed ==
  <>[]linked => \A c \in Conn :
    Silent(c) /\ armed[c] ~> ~Silent(c) \/ ~armed[c] \/ statPc[c] = "dead"

\* _jog_stop_for_client: called when a client is disarmed by "heartbeat stall
\* or WS close" - "without a follow-up jog_stop the machine continues moving
\* until it hits a limit".  So no jog outlives its client, with one exception:
\* the socket ends while the handler of a stall still waits for the lock.
OrphanOnlyByStall ==
  [][ \A c \in Conn : linked /\ Attended(c) /\ moving = c /\ moving' = Orphan
                        => statPc[c] = "stall" ]_vars
=============================================================================
