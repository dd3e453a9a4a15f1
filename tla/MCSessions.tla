----------------------------- MODULE MCSessions ------------------------------
(***************************************************************************)
(* TLC instance of Sessions, with history variables about the holds that   *)
(* re-arm a tab.                                                           *)
(***************************************************************************)
EXTENDS Sessions

VARIABLES
  laggards, \* of a tab: the connections whose armed session was lost or ended
            \* because their heartbeats lagged; none was armed since
  own       \* tabs whose hold was left by one of its laggards

mcVars == <<vars, laggards, own>>

MCInit == Init /\ laggards = [t \in Tab |-> {}] /\ own = {}

Armed(t) == \E c \in Conn : tab[c] = t /\ phase[c] = "open" /\ armed[c]

LaggedLeave(c) ==
  /\ armed[c] /\ hbAge[c] > ResumeMaxAge
  /\ Drop(c) \/ LeaveDone(c)
  /\ phase'[c] = "free"

Lags(c, t) == tab[c] = t /\ (HbStall(c) \/ LaggedLeave(c))

Resumes(c, t) == Hello(c, t, TRUE) /\ ResumeGranted(t)

\* The step of a connection's receive loop that raises a hold of its tab.
Registers(c, t) == tab[c] = t /\ hold'[t] > hold[t] /\ RecvNext(c)

MCNext ==
  /\ Next
  /\ laggards' = [t \in Tab |->
       IF Armed(t)' THEN {} ELSE laggards[t] \cup {c \in Conn : Lags(c, t)}]
  /\ own' = {t \in Tab :
       /\ hold'[t] > 0
       /\ IF hold'[t] > hold[t] THEN \E c \in laggards'[t] : Registers(c, t)
          ELSE t \in own}

MCSpec == MCInit /\ [][MCNext]_mcVars

FairMCSpec == MCSpec /\ Fairness

-----------------------------------------------------------------------------
\* gateway.py: "If the heartbeat was already lagging at disconnect ... do not
\* auto-restore armed", and of a stalled client: "drop any armed-resume hold".
\* So a connection that lagged leaves no hold behind that re-arms its tab,
\* whatever its stall handler, its disarm and its end do in whichever order,
\* and however many connections the tab has.
LaggardLeavesNoHold ==
  [][ \A c \in Conn, t \in Tab : Resumes(c, t) => t \notin own ]_mcVars
=============================================================================
