-------------------------- MODULE SafetyChainProofs --------------------------
(***************************************************************************)
(* Proofs about SafetyChain, for every number of clients, every timeout,   *)
(* every socket capacity, and with or without a watchdog that hangs.       *)
(***************************************************************************)
EXTENDS SafetyChain, TLAPS

(***************************************************************************)
(* What is put on the socket is a sequence of messages again.              *)
(***************************************************************************)
LEMMA SentType ==
  ASSUME link \in Seq(Item), NEW m \in Item
  PROVE  Sent(m) \in Seq(Item)
  BY DEF Sent, Item

(***************************************************************************)
(* The watchdog reads its socket in order: what is left is a sequence of   *)
(* messages, and what it reads is one.                                     *)
(***************************************************************************)
LEMMA RecvType ==
  ASSUME NEW q \in Seq(Item), q # <<>>
  PROVE  Tail(q) \in Seq(Item) /\ Head(q) \in Item
  OBVIOUS

(***************************************************************************)
(* Type correctness, in four parts: flags, labels, counters and the socket.*)
(***************************************************************************)
LabelTypeOK ==
  /\ gw \in {"run", "frozen", "down"}
  /\ wd \in {"run", "hung"}
  /\ cmdPc \in {"idle", "estopping", "resetting"}

CountTypeOK ==
  /\ clients \in 0..MaxClients
  /\ leaving \in 0..MaxClients /\ clients + leaving <= MaxClients
  /\ grace \in 0..(GraceTicks + 1)
  /\ freshAge \in 0..(FreshTimeout + 1)
  /\ osLeft \in 0..Width

LinkTypeOK == link \in Seq(Item)

LEMMA TypeParts == TypeOK <=> FlagTypeOK /\ LabelTypeOK /\ CountTypeOK /\ LinkTypeOK
  BY DEF TypeOK, LabelTypeOK, CountTypeOK, LinkTypeOK

LEMMA TypeInit == Init => TypeOK
  <1>1. Init => FlagTypeOK
    BY Zenon DEF Init, FlagTypeOK
  <1>2. Init => LabelTypeOK
    BY DEF Init, LabelTypeOK
  <1>3. Init => CountTypeOK
    BY ChainAssumption DEF Init, CountTypeOK
  <1>4. Init => LinkTypeOK
    BY DEF Init, LinkTypeOK
  <1> QED BY <1>1, <1>2, <1>3, <1>4, TypeParts

\* (The SMT backend knows formulas, not that the constants are values of BOOLEAN.)
LEMMA Flags == \A b : b = TRUE \/ b = FALSE => b \in BOOLEAN
  BY Zenon

LEMMA FlagStep == FlagTypeOK /\ [Next]_vars => FlagTypeOK'
  <1> SUFFICES ASSUME FlagTypeOK, [Next]_vars PROVE FlagTypeOK'
    OBVIOUS
  <1> USE Flags DEF FlagTypeOK, gwVars, linkVars, wdVars, pinVars, servoVars
  <1>1. CASE HeartbeatLoop \/ DisconnectGrace \/ ClientConnect \/ ClientDrop
    BY <1>1 DEF HeartbeatLoop, DisconnectGrace, ClientConnect, ClientDrop, Send
  <1>2. CASE FinallyEpilogue
    BY <1>2 DEF FinallyEpilogue, Send
  <1>3. CASE EstopBegin \/ EstopFinish
    BY <1>3 DEF EstopBegin, EstopFinish, Send
  <1>4. CASE EstopResetBegin \/ EstopResetFinish
    BY <1>4 DEF EstopResetBegin, EstopResetFinish, Send
  <1>5. CASE GatewayFreeze \/ GatewayThaw \/ GatewayStart
    BY <1>5 DEF GatewayFreeze, GatewayThaw, GatewayStart
  <1>6. CASE GatewayCrash \/ GatewayShutdown
    BY <1>6 DEF GatewayCrash, GatewayShutdown, ProcessGone
  <1>7. CASE WdLoop \/ WdRecv
    BY <1>7 DEF WdLoop, WdFresh, WdStale, WdRecv, PinsLow
  <1>8. CASE WdDropPulse \/ WdHang \/ WdResume
    BY <1>8 DEF WdDropPulse, WdHang, WdResume
  <1>9. CASE ServoCycle
    BY <1>9 DEF ServoCycle, ChainClosed, LatchNext
  <1>10. CASE TaskObserve \/ Tick
    BY <1>10 DEF TaskObserve, Tick
  <1>11. CASE UNCHANGED vars
    BY <1>11 DEF vars
  <1> QED
    BY <1>1, <1>2, <1>3, <1>4, <1>5, <1>6, <1>7, <1>8, <1>9, <1>10, <1>11
       DEF Next, GatewayNext, WatchdogNext

LEMMA LabelStep == LabelTypeOK /\ [Next]_vars => LabelTypeOK'
  BY DEF LabelTypeOK, vars, Next, gwVars, linkVars, wdVars, pinVars, servoVars,
         GatewayNext, HeartbeatLoop, DisconnectGrace, ClientConnect, ClientDrop,
         FinallyEpilogue, EstopBegin, EstopFinish, EstopResetBegin, EstopResetFinish,
         GatewayFreeze, GatewayThaw, GatewayCrash, GatewayShutdown, GatewayStart,
         ProcessGone, WatchdogNext, WdLoop, WdRecv, WdDropPulse, WdHang, WdResume,
         ServoCycle, TaskObserve, Tick

LEMMA CountStep == CountTypeOK /\ [Next]_vars => CountTypeOK'
  <1> SUFFICES ASSUME CountTypeOK, [Next]_vars PROVE CountTypeOK'
    OBVIOUS
  <1> USE ChainAssumption DEF CountTypeOK, gwVars, linkVars, wdVars, pinVars, servoVars
  <1>1. CASE ClientConnect \/ ClientDrop
    BY <1>1 DEF ClientConnect, ClientDrop
  <1>2. CASE DisconnectGrace \/ FinallyEpilogue
    BY <1>2 DEF DisconnectGrace, FinallyEpilogue
  <1>3. CASE HeartbeatLoop \/ EstopBegin \/ EstopFinish
    BY <1>3 DEF HeartbeatLoop, EstopBegin, EstopFinish
  <1>4. CASE EstopResetBegin \/ EstopResetFinish
    BY <1>4 DEF EstopResetBegin, EstopResetFinish
  <1>5. CASE GatewayFreeze \/ GatewayThaw \/ GatewayStart
    BY <1>5 DEF GatewayFreeze, GatewayThaw, GatewayStart
  <1>6. CASE GatewayCrash \/ GatewayShutdown
    BY <1>6 DEF GatewayCrash, GatewayShutdown, ProcessGone
  <1>7. CASE WatchdogNext
    BY <1>7
       DEF WatchdogNext, WdLoop, WdFresh, WdStale, WdRecv, WdDropPulse, WdHang, WdResume,
           PinsLow
  <1>8. CASE ServoCycle
    BY <1>8 DEF ServoCycle, OneshotLeft
  <1>9. CASE TaskObserve
    BY <1>9 DEF TaskObserve
  <1>10. CASE Tick
    BY <1>10 DEF Tick
  <1>11. CASE UNCHANGED vars
    BY <1>11 DEF vars
  <1> QED
    BY <1>1, <1>2, <1>3, <1>4, <1>5, <1>6, <1>7, <1>8, <1>9, <1>10, <1>11
       DEF Next, GatewayNext

LEMMA LinkStep == LinkTypeOK /\ [Next]_vars => LinkTypeOK'
  <1> SUFFICES ASSUME LinkTypeOK, [Next]_vars PROVE LinkTypeOK'
    OBVIOUS
  <1>a. "up" \in Item /\ "down" \in Item /\ "reset" \in Item /\ "eof" \in Item
    BY DEF Item
  <1>1. CASE UNCHANGED link
    BY <1>1 DEF LinkTypeOK
  <1>2. CASE Send("up") \/ Send("down") \/ Send("reset")
    BY <1>2, <1>a, SentType DEF Send, LinkTypeOK
  <1>3. CASE GatewayCrash
    BY <1>3, <1>a DEF GatewayCrash, LinkTypeOK
  <1>4. CASE GatewayShutdown
    <2>1. Sent("down") \in Seq(Item)
      BY <1>a, SentType DEF LinkTypeOK
    <2> QED BY <1>4, <2>1, <1>a DEF GatewayShutdown, LinkTypeOK
  <1>5. CASE WdRecv
    BY <1>5, RecvType DEF WdRecv, LinkTypeOK
  <1> QED
    BY <1>1, <1>2, <1>3, <1>4, <1>5
       DEF Next, vars, linkVars, GatewayNext, HeartbeatLoop, DisconnectGrace,
           ClientConnect, ClientDrop, FinallyEpilogue, EstopBegin, EstopFinish,
           EstopResetBegin, EstopResetFinish, GatewayFreeze, GatewayThaw, GatewayStart,
           WatchdogNext, WdLoop, WdDropPulse, WdHang, WdResume,
           ServoCycle, TaskObserve, Tick

LEMMA TypeStep == TypeOK /\ [Next]_vars => TypeOK'
  <1> SUFFICES ASSUME TypeOK, [Next]_vars PROVE TypeOK'
    OBVIOUS
  <1>1. FlagTypeOK' /\ LabelTypeOK' /\ CountTypeOK' /\ LinkTypeOK'
    BY TypeParts, FlagStep, LabelStep, CountStep, LinkStep
  <1> QED BY <1>1 DEF TypeOK, LabelTypeOK, CountTypeOK, LinkTypeOK

(***************************************************************************)
(* Every reachable state is well typed: in particular the grace countdown, *)
(* the freshness clock and the oneshot never leave their ranges, and no    *)
(* more clients than allowed are registered or being cleaned up.           *)
(***************************************************************************)
THEOREM TypeCorrect == Spec => []TypeOK
  BY TypeInit, TypeStep, PTL DEF Spec

(***************************************************************************)
(* The connected pin is only up while the gateway's request is, and a loop *)
(* iteration that found the gateway stale has lowered it, so it is not     *)
(* still up when the gateway is heard again.                               *)
(***************************************************************************)
ConnectedOnRequest == connected => requested /\ (~wdDue => GatewayFresh)

FeedInv == TypeOK /\ ConnectedOnRequest

LEMMA FeedInit == Init => FeedInv
  <1>1. Init => ConnectedOnRequest
    BY DEF Init, ConnectedOnRequest
  <1> QED BY <1>1, TypeInit DEF FeedInv

LEMMA FeedStep ==
  TypeOK /\ ConnectedOnRequest /\ [Next]_vars => ConnectedOnRequest'
  <1> SUFFICES ASSUME TypeOK, ConnectedOnRequest, [Next]_vars
               PROVE  ConnectedOnRequest'
    OBVIOUS
  <1> USE DEF ConnectedOnRequest, GatewayFresh, linkVars, wdVars, pinVars, servoVars
  <1>1. CASE UNCHANGED <<wdVars, pinVars, servoVars>>
    BY <1>1
  <1>2. CASE WdLoop
    <2>1. CASE WdFresh
      BY <1>2, <2>1 DEF WdLoop, WdFresh
    <2>2. CASE WdStale
      <3>1. connected' = (connected /\ ~requested)
        BY <2>2 DEF WdStale
      <3>2. ~connected'
        BY <3>1, Zenon
      <3> QED BY <3>2
    <2> QED BY <1>2, <2>1, <2>2 DEF WdLoop
  <1>3. CASE WdRecv
    <2>1. CASE Head(link) = "up"
      <3>1. requested' = TRUE /\ freshAge' = 0
        BY <1>3, <2>1 DEF WdRecv
      <3> QED BY <3>1, ChainAssumption
    <2>2. CASE Head(link) \in {"down", "accept", "eof"}
      BY <1>3, <2>2 DEF WdRecv, PinsLow
    <2>3. CASE Head(link) = "reset"
      <3>1. UNCHANGED <<requested, freshAge, connected, wdDue>>
        BY <1>3, <2>3 DEF WdRecv
      <3> QED BY <3>1
    <2> QED BY <1>3, <2>1, <2>2, <2>3 DEF WdRecv
  <1>4. CASE WdDropPulse \/ WdHang \/ WdResume
    BY <1>4 DEF WdDropPulse, WdHang, WdResume
  <1>5. CASE ServoCycle
    BY <1>5 DEF ServoCycle
  <1>6. CASE TaskObserve
    BY <1>6 DEF TaskObserve
  <1>7. CASE Tick
    BY <1>7 DEF Tick
  <1>8. CASE UNCHANGED vars
    BY <1>8 DEF vars
  <1>9. GatewayNext => UNCHANGED <<wdVars, pinVars, servoVars>>
    BY DEF GatewayNext, HeartbeatLoop, DisconnectGrace, ClientConnect, ClientDrop,
           FinallyEpilogue, EstopBegin, EstopFinish, EstopResetBegin, EstopResetFinish,
           GatewayFreeze, GatewayThaw, GatewayCrash, GatewayShutdown, GatewayStart,
           ProcessGone
  <1> QED
    BY <1>1, <1>2, <1>3, <1>4, <1>5, <1>6, <1>7, <1>8, <1>9 DEF Next, WatchdogNext
=============================================================================
