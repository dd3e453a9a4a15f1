---------------------------- MODULE SafetyChain ----------------------------
(***************************************************************************)
(* The hardware side of the web UI's safety system, end to end:            *)
(*                                                                         *)
(*   gateway.py        heartbeat loop, disconnect grace, E-stop commands   *)
(*     -- Unix socket (hal_bridge.py) -->                                  *)
(*   hal_watchdog.py   one loop that owns the HAL pins                     *)
(*     -- HAL pins -->                                                     *)
(*   lcnc_webui.hal    oneshot, three AND gates and the trip latch, in the *)
(*                     1 ms servo thread, driving iocontrol's enable input *)
(*     -- emc-enable-in -->                                                *)
(*   LinuxCNC          task drops to ESTOP when the chain opens            *)
(*                                                                         *)
(* Time is discrete.  One Tick is a quarter of the oneshot's width or more *)
(* (the runs use half of it); the servo thread, the watchdog loop and the  *)
(* gateway's heartbeat loop, which are all much faster, run at least once  *)
(* between two ticks unless the process they belong to has stopped.        *)
(***************************************************************************)
EXTENDS Naturals, Sequences

CONSTANTS
  MaxClients,     \* browsers connected at once
  Width,          \* oneshot.0.width, in ticks
  FreshTimeout,   \* _GATEWAY_FRESH_TIMEOUT_S, in ticks
  GraceTicks,     \* _DISCONNECT_GRACE_SEC, in ticks
  LinkCap,        \* messages the socket buffer holds before a send is dropped
  WatchdogHangs   \* may the watchdog process itself stop being scheduled?

ASSUME ChainAssumption ==
  /\ MaxClients \in Nat \ {0}
  /\ Width \in Nat /\ Width >= 2
  /\ FreshTimeout \in Nat \ {0}
  /\ GraceTicks \in Nat \ {0}
  /\ LinkCap \in Nat \ {0}
  /\ WatchdogHangs \in BOOLEAN

VARIABLES
  \* gateway process
  gw,           \* "run", "frozen" (event loop blocked) or "down"
  clients,      \* Len(_clients)
  leaving,      \* disconnects whose finally block has not reached its end
  estopHold,    \* _estop_hold
  cmdPc,        \* the E-stop command in progress under _cmd_lock
  grace,        \* iterations left to _disconnect_grace; 0: no such task
  gwDue,        \* this tick's heartbeat has not been sent yet
  \* the watchdog socket
  sockUp,       \* the gateway's end is connected
  link,         \* what the watchdog has not read yet
  \* hal_watchdog.py
  wd,           \* "run" or "hung"
  wdDue,        \* _local_heartbeat_at has not been set in this tick yet
  requested,    \* _gateway_requested_connected
  freshAge,     \* ticks since _gateway_fresh_at; 0 while not requested
  \* HAL pins the watchdog writes
  connected, heartbeat, resetOut,
  \* servo thread
  servoDue,     \* no servo cycle in this tick yet
  osLeft, osOut,        \* oneshot.0: ticks left, output
  lastHb, lastReset,    \* the levels the edge detectors saw last
  latchOk,              \* webui-hb-latch.ok-out
  emcEnable,            \* and2.2.out = iocontrol.0.emc-enable-in
  \* LinuxCNC
  estopped      \* task is in STATE_ESTOP: iocontrol.0.user-enable-out is low

gwVars    == <<gw, clients, leaving, estopHold, cmdPc, grace, gwDue>>
linkVars  == <<sockUp, link>>
wdVars    == <<wd, wdDue, requested, freshAge>>
pinVars   == <<connected, heartbeat, resetOut>>
servoVars == <<servoDue, osLeft, osOut, lastHb, lastReset, latchOk, emcEnable>>
vars == <<gwVars, linkVars, wdVars, pinVars, servoVars, estopped>>

\* What crosses the socket: "up" asks for connected = TRUE and refreshes the
\* watchdog, "down" asks for connected = FALSE, "reset" is trip_reset;
\* "accept" and "eof" are the connection's own first and last events.
Item == {"up", "down", "reset", "accept", "eof"}

FlagTypeOK ==
  /\ estopHold \in BOOLEAN /\ gwDue \in BOOLEAN /\ sockUp \in BOOLEAN
  /\ wdDue \in BOOLEAN /\ requested \in BOOLEAN
  /\ connected \in BOOLEAN /\ heartbeat \in BOOLEAN /\ resetOut \in BOOLEAN
  /\ servoDue \in BOOLEAN /\ osOut \in BOOLEAN
  /\ lastHb \in BOOLEAN /\ lastReset \in BOOLEAN
  /\ latchOk \in BOOLEAN /\ emcEnable \in BOOLEAN /\ estopped \in BOOLEAN

TypeOK ==
  /\ FlagTypeOK
  /\ gw \in {"run", "frozen", "down"}
  /\ wd \in {"run", "hung"}
  /\ cmdPc \in {"idle", "estopping", "resetting"}
  /\ clients \in 0..MaxClients
  /\ leaving \in 0..MaxClients /\ clients + leaving <= MaxClients
  /\ grace \in 0..(GraceTicks + 1)
  /\ freshAge \in 0..(FreshTimeout + 1)
  /\ osLeft \in 0..Width
  /\ link \in Seq(Item)

\* LinuxCNC boots in ESTOP, the latch boots faulted, nobody is connected.
Init ==
  /\ gw = "run" /\ clients = 0 /\ leaving = 0 /\ estopHold = FALSE
  /\ cmdPc = "idle" /\ grace = 0 /\ gwDue = TRUE
  /\ sockUp = FALSE /\ link = <<>>
  /\ wd = "run" /\ wdDue = TRUE /\ requested = FALSE /\ freshAge = 0
  /\ connected = FALSE /\ heartbeat = FALSE /\ resetOut = FALSE
  /\ servoDue = TRUE /\ osLeft = 0 /\ osOut = FALSE
  /\ lastHb = FALSE /\ lastReset = FALSE /\ latchOk = FALSE /\ emcEnable = FALSE
  /\ estopped = TRUE

-----------------------------------------------------------------------------
(***************************************************************************)
(* The gateway's end of the socket.                                        *)
(***************************************************************************)

\* watchdog_send: connect first if need be (the watchdog accepts before it
\* reads what is left of the connection it replaces); a full buffer times out
\* after 50 ms and the message is dropped.
Sent(m) ==
  IF ~sockUp THEN <<"accept", m>>
  ELSE IF Len(link) < LinkCap THEN Append(link, m) ELSE link

Send(m) == link' = Sent(m) /\ sockUp' = TRUE

\* (mutant) The loop does not look whether anybody is connected.
HeartbeatLoopUnattended ==
  /\ gw = "run" /\ gwDue
  /\ Send(IF estopHold THEN "down" ELSE "up")
  /\ gwDue' = FALSE
  /\ UNCHANGED <<gw, clients, leaving, estopHold, cmdPc, grace,
                 wdVars, pinVars, servoVars, estopped>>

\* _heartbeat_loop with clients connected: one of its sends in this tick.
HeartbeatLoop ==
  /\ gw = "run" /\ clients > 0 /\ gwDue
  /\ Send(IF estopHold THEN "down" ELSE "up")
  /\ gwDue' = FALSE
  /\ UNCHANGED <<gw, clients, leaving, estopHold, cmdPc, grace,
                 wdVars, pinVars, servoVars, estopped>>

\* _disconnect_grace: keep the pins up for a while, then drop them.  A client
\* that came back ends it (it was cancelled by ClientConnect).
DisconnectGrace ==
  /\ gw = "run" /\ clients = 0 /\ grace > 0 /\ gwDue
  /\ Send(IF grace > 1 THEN "up" ELSE "down")
  /\ grace' = grace - 1
  /\ gwDue' = FALSE
  /\ UNCHANGED <<gw, clients, leaving, estopHold, cmdPc,
                 wdVars, pinVars, servoVars, estopped>>

\* ws_endpoint registers the client and cancels the grace task.
ClientConnect ==
  /\ gw = "run" /\ clients + leaving < MaxClients
  /\ clients' = clients + 1
  /\ grace' = 0
  /\ UNCHANGED <<gw, leaving, estopHold, cmdPc, gwDue,
                 linkVars, wdVars, pinVars, servoVars, estopped>>

\* (mutant) A client can leave the registry twice.
ClientDropTwice ==
  /\ gw = "run" /\ clients + leaving > 0
  /\ clients' = clients - 1
  /\ leaving' = leaving + 1
  /\ UNCHANGED <<gw, estopHold, cmdPc, grace, gwDue,
                 linkVars, wdVars, pinVars, servoVars, estopped>>

\* The first half of ws_endpoint's finally: the client leaves the registry.
\* The client whose command is running is still inside its receive loop.
ClientDrop ==
  /\ gw = "run" /\ clients > (IF cmdPc = "idle" THEN 0 ELSE 1)
  /\ clients' = clients - 1
  /\ leaving' = leaving + 1
  /\ UNCHANGED <<gw, estopHold, cmdPc, grace, gwDue,
                 linkVars, wdVars, pinVars, servoVars, estopped>>

\* The second half, after the jog stop that waits for _cmd_lock: nobody left
\* clears the E-stop hold and starts the grace period (unless it is running);
\* otherwise the remaining clients' connected pin is asserted again.
FinallyEpilogue ==
  /\ gw = "run" /\ leaving > 0
  /\ leaving' = leaving - 1
  /\ IF clients = 0
     THEN /\ estopHold' = FALSE
          /\ grace' = IF grace = 0 THEN GraceTicks + 1 ELSE grace
          /\ UNCHANGED linkVars
     ELSE /\ Send("up")
          /\ UNCHANGED <<estopHold, grace>>
  /\ UNCHANGED <<gw, clients, cmdPc, gwDue, wdVars, pinVars, servoVars, estopped>>

\* cmd "estop": CMD.state(STATE_ESTOP) ...
EstopBegin ==
  /\ gw = "run" /\ clients > 0 /\ cmdPc = "idle"
  /\ cmdPc' = "estopping"
  /\ estopped' = TRUE
  /\ UNCHANGED <<gw, clients, leaving, estopHold, grace, gwDue,
                 linkVars, wdVars, pinVars, servoVars>>

\* ... and, when it returns, the hold and an immediate connected = FALSE.
EstopFinish ==
  /\ gw = "run" /\ cmdPc = "estopping"
  /\ cmdPc' = "idle"
  /\ estopHold' = TRUE
  /\ Send("down")
  /\ UNCHANGED <<gw, clients, leaving, grace, gwDue,
                 wdVars, pinVars, servoVars, estopped>>

\* cmd "estop_reset": pulse the latch, sleep 20 ms ...
EstopResetBegin ==
  /\ gw = "run" /\ clients > 0 /\ cmdPc = "idle"
  /\ cmdPc' = "resetting"
  /\ Send("reset")
  /\ UNCHANGED <<gw, clients, leaving, estopHold, grace, gwDue,
                 wdVars, pinVars, servoVars, estopped>>

\* ... CMD.state(STATE_ESTOP_RESET), release the hold, connected = TRUE.
EstopResetFinish ==
  /\ gw = "run" /\ cmdPc = "resetting"
  /\ cmdPc' = "idle"
  /\ estopped' = FALSE
  /\ estopHold' = FALSE
  /\ Send("up")
  /\ UNCHANGED <<gw, clients, leaving, grace, gwDue, wdVars, pinVars, servoVars>>

\* An NML call holds the interpreter: no coroutine of the gateway runs.
GatewayFreeze ==
  /\ gw = "run"
  /\ gw' = "frozen"
  /\ UNCHANGED <<clients, leaving, estopHold, cmdPc, grace, gwDue,
                 linkVars, wdVars, pinVars, servoVars, estopped>>

GatewayThaw ==
  /\ gw = "frozen"
  /\ gw' = "run"
  /\ UNCHANGED <<clients, leaving, estopHold, cmdPc, grace, gwDue,
                 linkVars, wdVars, pinVars, servoVars, estopped>>

\* The process is gone: its memory is lost, the kernel closes its socket.
ProcessGone ==
  /\ gw' = "down"
  /\ clients' = 0 /\ leaving' = 0 /\ estopHold' = FALSE
  /\ cmdPc' = "idle" /\ grace' = 0 /\ gwDue' = TRUE
  /\ sockUp' = FALSE
  /\ UNCHANGED <<wdVars, pinVars, servoVars, estopped>>

GatewayCrash ==
  /\ gw \in {"run", "frozen"}
  /\ ProcessGone
  /\ link' = IF sockUp THEN Append(link, "eof") ELSE link

\* lifespan teardown: background tasks are cancelled before the final
\* deterministic LOW, then the socket is closed.
GatewayShutdown ==
  /\ gw = "run"
  /\ ProcessGone
  /\ link' = Append(Sent("down"), "eof")

GatewayStart ==
  /\ gw = "down"
  /\ gw' = "run"
  /\ UNCHANGED <<clients, leaving, estopHold, cmdPc, grace, gwDue,
                 linkVars, wdVars, pinVars, servoVars, estopped>>

-----------------------------------------------------------------------------
(***************************************************************************)
(* hal_watchdog.py.                                                        *)
(***************************************************************************)
\* (mutant) A request lasts for ever.
FreshForEver == requested

GatewayFresh == requested /\ freshAge <= FreshTimeout

\* A loop iteration that finds the gateway fresh asserts connected.  Every
\* _LOCAL_HEARTBEAT_PERIOD_S (33 ms, so the servo thread has seen the last
\* edge) since _local_heartbeat_at it toggles the heartbeat, too: several times
\* a tick on a steady feed, but not before the period is over when a path that
\* lowers the pins has just set _local_heartbeat_at.
WdFresh ==
  /\ GatewayFresh
  /\ connected' = TRUE
  /\ \/ UNCHANGED <<heartbeat, wdDue>>
     \/ /\ lastHb = heartbeat
        /\ heartbeat' = ~heartbeat
        /\ wdDue' = FALSE

\* (mutant) The stale branch drops the heartbeat only.
WdStaleKeepsConnected ==
  /\ ~GatewayFresh
  /\ heartbeat' = FALSE /\ wdDue' = FALSE
  /\ UNCHANGED connected

\* One that finds it stale drops the heartbeat and, if there was a request,
\* connected, and starts the period again.
WdStale ==
  /\ ~GatewayFresh
  /\ heartbeat' = FALSE /\ wdDue' = FALSE
  /\ connected' = (connected /\ ~requested)

\* The head of an iteration.
WdLoop ==
  /\ wd = "run"
  /\ WdFresh \/ WdStale
  /\ UNCHANGED <<gwVars, linkVars, wd, requested, freshAge, resetOut,
                 servoVars, estopped>>

\* The pins go LOW and the gateway has to prove itself again; the period to
\* the next heartbeat starts now.
PinsLow ==
  /\ requested' = FALSE /\ freshAge' = 0
  /\ connected' = FALSE /\ heartbeat' = FALSE
  /\ wdDue' = FALSE

\* The tail of an iteration: one message, or the connection's start or end.
WdRecv ==
  /\ wd = "run" /\ link # <<>>
  /\ link' = Tail(link)
  /\ \/ /\ Head(link) = "up"
        /\ requested' = TRUE /\ freshAge' = 0
        /\ UNCHANGED <<pinVars, wdDue>>
     \/ /\ Head(link) \in {"down", "accept", "eof"}
        /\ PinsLow
        /\ UNCHANGED resetOut
     \/ /\ Head(link) = "reset"
        /\ resetOut' = TRUE
        /\ UNCHANGED <<requested, freshAge, connected, heartbeat, wdDue>>
  /\ UNCHANGED <<gwVars, sockUp, wd, servoVars, estopped>>

\* _RESET_PULSE_S later, that is fifty servo cycles, the pulse is dropped.
WdDropPulse ==
  /\ wd = "run" /\ resetOut /\ lastReset
  /\ resetOut' = FALSE
  /\ UNCHANGED <<gwVars, linkVars, wdVars, connected, heartbeat, servoVars, estopped>>

\* The process is not scheduled; the pins keep their values.
WdHang ==
  /\ WatchdogHangs /\ wd = "run"
  /\ wd' = "hung"
  /\ UNCHANGED <<gwVars, linkVars, wdDue, requested, freshAge, pinVars, servoVars, estopped>>

WdResume ==
  /\ wd = "hung"
  /\ wd' = "run"
  /\ UNCHANGED <<gwVars, linkVars, wdDue, requested, freshAge, pinVars, servoVars, estopped>>

-----------------------------------------------------------------------------
(***************************************************************************)
(* lcnc_webui.hal: one cycle of the servo thread, functions in addf order: *)
(* oneshot.0, and2.0, and2.1, and2.2, webui-hb-latch.                      *)
(***************************************************************************)

\* (mutant) A running oneshot ignores further edges.
OneshotNotRetriggered ==
  IF heartbeat # lastHb /\ osLeft = 0 THEN Width ELSE osLeft

\* Retriggerable, on rising and on falling edges.
OneshotLeft == IF heartbeat # lastHb THEN Width ELSE osLeft

\* and2.0 and and2.1: E-stop released, a client connected, heartbeat alive.
ChainClosed(alive) == ~estopped /\ connected /\ alive

\* (mutant) A reset that is held high releases the latch at any time.
LatchLevelReset(alive) == alive /\ (latchOk \/ resetOut)

\* estop_latch: any FALSE sample of ok-in latches; only a rising edge of reset
\* while ok-in is TRUE releases.
LatchNext(alive) == alive /\ (latchOk \/ (resetOut /\ ~lastReset))

ServoCycle ==
  LET alive == OneshotLeft > 0 IN
  /\ servoDue' = FALSE
  /\ osLeft' = OneshotLeft
  /\ osOut' = alive
  /\ emcEnable' = (ChainClosed(alive) /\ latchOk)
  /\ latchOk' = LatchNext(alive)
  /\ lastHb' = heartbeat
  /\ lastReset' = resetOut
  /\ UNCHANGED <<gwVars, linkVars, wdVars, pinVars, estopped>>

\* LinuxCNC: iocontrol polls emc-enable-in; an open chain forces ESTOP, which
\* lowers user-enable-out.  (Its poll is slower than the servo thread, so a
\* chain that is just closing is not taken for an open one.)
ChainOpen == ~emcEnable /\ ~(ChainClosed(osOut) /\ latchOk)

TaskObserve ==
  /\ ~estopped /\ ChainOpen
  /\ estopped' = TRUE
  /\ UNCHANGED <<gwVars, linkVars, wdVars, pinVars, servoVars>>

-----------------------------------------------------------------------------
(***************************************************************************)
(* Time.  A tick waits for every process that is running to have done what *)
(* it does many times per tick.                                            *)
(***************************************************************************)
GatewayWaits  == gw = "run" /\ gwDue /\ (clients > 0 \/ grace > 0)
WatchdogWaits == wd = "run" /\ (wdDue \/ link # <<>> \/ resetOut)
LinuxCNCWaits == servoDue \/ (~estopped /\ ChainOpen)

Tick ==
  /\ ~GatewayWaits /\ ~WatchdogWaits /\ ~LinuxCNCWaits
  /\ servoDue' = TRUE /\ gwDue' = TRUE /\ wdDue' = TRUE
  /\ osLeft' = IF osLeft > 0 THEN osLeft - 1 ELSE 0
  /\ freshAge' = IF requested /\ freshAge <= FreshTimeout THEN freshAge + 1
                 ELSE freshAge
  /\ UNCHANGED <<gw, clients, leaving, estopHold, cmdPc, grace, linkVars,
                 wd, requested, pinVars, osOut, lastHb, lastReset, latchOk,
                 emcEnable, estopped>>

GatewayNext ==
  \/ HeartbeatLoop \/ DisconnectGrace
  \/ ClientConnect \/ ClientDrop \/ FinallyEpilogue
  \/ EstopBegin \/ EstopFinish \/ EstopResetBegin \/ EstopResetFinish
  \/ GatewayFreeze \/ GatewayThaw \/ GatewayCrash \/ GatewayShutdown \/ GatewayStart

WatchdogNext == WdLoop \/ WdRecv \/ WdDropPulse \/ WdHang \/ WdResume

Next == GatewayNext \/ WatchdogNext \/ ServoCycle \/ TaskObserve \/ Tick

Spec == Init /\ [][Next]_vars

\* Time passes.  What it waits for is what the operating system, LinuxCNC and
\* asyncio owe: the servo thread and iocontrol run, a watchdog process that is
\* not hung is scheduled, and so are the periodic coroutines of an event loop
\* that is not blocked.  Nothing is assumed of crashes, freezes, restarts,
\* clients or the operator.
Fairness == []<><<Tick>>_vars

-----------------------------------------------------------------------------
(***************************************************************************)
(* Properties that need no history.                                        *)
(***************************************************************************)

\* A gateway that stops (event loop blocked, crashed, shut down) and does not
\* come back leaves LinuxCNC in ESTOP.
StoppedGatewayStopsMachine ==
  gw \in {"frozen", "down"} ~> gw = "run" \/ estopped

\* The oneshot self-heals: once gateway and watchdog run again with a client
\* connected and no E-stop held or in progress, its output comes back and
\* stays.
HeartbeatSelfHeals ==
  <>[](/\ gw = "run" /\ clients > 0 /\ ~estopHold
       /\ wd = "run" /\ cmdPc = "idle")
    => <>[]osOut
=============================================================================
