---------------------------- MODULE SafetyHistory ----------------------------
(***************************************************************************)
(* SafetyChain with history variables: how long ago the gateway last asked *)
(* for the machine to be kept enabled, for how long no client has been     *)
(* registered (in the gateway's own time: its grace period stops counting  *)
(* while its event loop is blocked), how many operator resets have not     *)
(* released a trip yet, and whether the heartbeat has had an edge since    *)
(* the watchdog asserted connected.                                        *)
(* They only record; no action of the system reads them.                   *)
(***************************************************************************)
EXTENDS SafetyChain

CONSTANTS
  Horizon,    \* where the two clocks stop counting
  MaxResets   \* bound on outstanding operator resets

VARIABLES silent, away, credit, beating

histVars == <<vars, silent, away, credit, beating>>

ASSUME HistoryAssumption == Horizon \in Nat /\ MaxResets \in Nat

HistoryTypeOK ==
  /\ TypeOK
  /\ silent \in 0..Horizon
  /\ away \in 0..Horizon
  /\ credit \in 0..MaxResets
  /\ beating \in BOOLEAN

HistoryInit ==
  Init /\ silent = Horizon /\ away = Horizon /\ credit = 0 /\ beating = FALSE

Later(clock) == IF clock < Horizon THEN clock + 1 ELSE clock

\* The step put a request for connected = TRUE on the socket.
SendsUp == Len(link') > 0 /\ link'[Len(link')] = "up"

Untimed == UNCHANGED <<silent, away>>
NoReset == UNCHANGED credit

\* The first edge after connected goes up starts it, connected going down ends it.
\* (Horizon = 0 turns it off with the clocks, for runs that read none of them.)
Beats == beating' = (Horizon > 0 /\ connected' /\ (beating \/ heartbeat' # heartbeat))

\* A watchdog that was not scheduled for a whole tick owes nothing for it.
BeatOn == beating' = (beating /\ ~wdDue)

NoBeat == UNCHANGED beating

HistoryNext ==
  \/ /\ GatewayNext /\ NoBeat
     /\ silent' = IF link' # link /\ SendsUp THEN 0 ELSE silent
     /\ away' = IF clients' > 0 THEN 0 ELSE away
     /\ credit' = credit + (IF cmdPc' = "resetting" /\ cmdPc = "idle" THEN 1 ELSE 0)
     /\ credit' <= MaxResets
  \/ WatchdogNext /\ Untimed /\ NoReset /\ Beats
  \/ /\ ServoCycle /\ Untimed /\ NoBeat
     /\ credit' = credit - (IF latchOk' /\ ~latchOk THEN 1 ELSE 0)
  \/ TaskObserve /\ Untimed /\ NoReset /\ NoBeat
  \/ /\ Tick /\ NoReset /\ BeatOn
     /\ silent' = Later(silent)
     /\ away' = IF clients > 0 THEN 0
                ELSE IF gw = "frozen" THEN away ELSE Later(away)

HistorySpec == HistoryInit /\ [][HistoryNext]_histVars

-----------------------------------------------------------------------------
(***************************************************************************)
(* Properties.                                                             *)
(***************************************************************************)

\* The chain is closed only if the gateway asked for it recently: once the
\* gateway stops (frozen, crashed, shut down) LinuxCNC's enable input falls
\* within the freshness timeout, whatever was in flight on the socket.  (Two
\* ticks on top: the watchdog notices in one, the servo thread by the next.
\* The oneshot adds nothing, because the watchdog lowers connected as well; it
\* is what remains when the watchdog itself hangs.)
EnabledIsFed == emcEnable => silent <= FreshTimeout + 2

\* The chain is closed only if a client was registered recently: each client's
\* cleanup may start one grace period, and the last of them may come as late
\* as the watchdog's freshness timeout after the client left.
EnabledIsAttended ==
  emcEnable => away <= FreshTimeout + MaxClients * (GraceTicks + 1) + 2

\* The heartbeat oneshot never expires on a healthy feed: from the first edge
\* the watchdog makes after it asserted connected until it lowers connected,
\* the oneshot runs or is about to be retriggered, at every moment at which the
\* servo thread may sample it.  An expiry would latch a trip and stop a cutting
\* tool in the material.  (Between asserting connected and that first edge, up
\* to 33 ms, the pin may be up over an oneshot that has expired or expires.)
NoSpuriousTrip == beating => osLeft > 0 \/ heartbeat # lastHb

\* The promise to LinuxCNC, with the oneshot as the heartbeat.
Promise == INSTANCE TripLatch WITH
  alive <- osOut, latched <- ~latchOk, enabled <- emcEnable, credits <- credit

\* Every behaviour of gateway, watchdog and servo thread is one the abstract
\* latch allows: no enable without heartbeat and latch, no release without an
\* operator's reset, and no second release from the same reset.
ImplementsTripLatch == Promise!Spec

\* gateway.py, estop_reset: the 20 ms sleep is "enough for the reset edge to
\* propagate and ok-out to land before STATE_ESTOP_RESET is evaluated".
ResetLandsFirst ==
  [][ cmdPc = "resetting" /\ cmdPc' = "idle" /\ gw' = "run"
        /\ estopHold /\ link = <<>> /\ resetOut /\ lastReset => latchOk ]_histVars
=============================================================================
