------------------------- MODULE SafetyHistoryProofs -------------------------
(***************************************************************************)
(* Proofs about the safety chain's history, for every number of clients,   *)
(* every timeout and every socket capacity.  As long as the watchdog       *)
(* process itself is scheduled, LinuxCNC's enable input is never older     *)
(* than the watchdog's freshness timeout allows, and outlives the last     *)
(* client by no more than the grace periods there can be.  Watchdog hangs  *)
(* included, the chain implements the abstract trip latch.                 *)
(***************************************************************************)
EXTENDS SafetyHistory, SafetyChainProofs, FiniteSetTheorems, SequenceTheorems

\* A request for connected = TRUE that the watchdog has not read yet.
HasUp(q) == \E i \in 1..Len(q) : q[i] = "up"

(***************************************************************************)
(* Putting another message on the socket, or reading one, creates no       *)
(* request that was not there.                                             *)
(***************************************************************************)
LEMMA AppendUp ==
  ASSUME NEW q \in Seq(Item), NEW m \in Item, HasUp(Append(q, m)), m # "up"
  PROVE  HasUp(q)
  BY DEF HasUp

LEMMA TailUp ==
  ASSUME NEW q \in Seq(Item), q # <<>>, HasUp(Tail(q))
  PROVE  HasUp(q)
  <1>1. PICK i \in 1..Len(Tail(q)) : Tail(q)[i] = "up"
    BY DEF HasUp
  <1>2. i + 1 \in 1..Len(q) /\ q[i + 1] = "up"
    BY <1>1
  <1> QED BY <1>2 DEF HasUp

LEMMA HeadUp ==
  ASSUME NEW q \in Seq(Item), q # <<>>, Head(q) = "up"
  PROVE  HasUp(q)
  <1>1. 1 \in 1..Len(q) /\ q[1] = "up"
    OBVIOUS
  <1> QED BY <1>1 DEF HasUp

(***************************************************************************)
(* The inductive invariant.  A request that is still on the socket was     *)
(* made in this tick; the watchdog's freshness clock is never behind the   *)
(* time since the last request; and so the connected pin, and what the     *)
(* servo thread made of it in its last cycle, are recent.                  *)
(***************************************************************************)
RequestIsNew == HasUp(link) => silent = 0

AgeCounts ==
  /\ requested /\ freshAge <= FreshTimeout => silent <= freshAge
  /\ connected => silent <= freshAge

EnableIsRecent ==
  emcEnable => \/ silent <= FreshTimeout + 1
               \/ servoDue /\ silent <= FreshTimeout + 2

ClockTypeOK == silent \in 0..Horizon /\ wd = "run"

FedInv ==
  FeedInv /\ ClockTypeOK /\ RequestIsNew /\ AgeCounts /\ EnableIsRecent

LEMMA FedInit == HistoryInit => FedInv
  <1> SUFFICES ASSUME HistoryInit PROVE FedInv
    OBVIOUS
  <1>1. Init /\ silent = Horizon
    BY DEF HistoryInit
  <1>2. FeedInv
    BY <1>1, FeedInit
  <1>3. ClockTypeOK
    BY <1>1, HistoryAssumption DEF ClockTypeOK, Init
  <1>4. RequestIsNew
    BY <1>1 DEF RequestIsNew, HasUp, Init
  <1>5. AgeCounts /\ EnableIsRecent
    BY <1>1 DEF AgeCounts, EnableIsRecent, Init
  <1> QED BY <1>2, <1>3, <1>4, <1>5 DEF FedInv

(***************************************************************************)
(* Whatever the gateway does to the socket, a request that is on it        *)
(* afterwards was there before, or was put there, last, by this step.      *)
(***************************************************************************)
LEMMA SentUp ==
  ASSUME LinkTypeOK, NEW m \in Item, m # "up", HasUp(Sent(m))
  PROVE  HasUp(link)
  <1>1. CASE ~sockUp
    BY <1>1 DEF Sent, HasUp
  <1>2. CASE sockUp /\ Len(link) < LinkCap
    BY <1>2, AppendUp DEF Sent, LinkTypeOK
  <1>3. CASE sockUp /\ ~(Len(link) < LinkCap)
    BY <1>3 DEF Sent
  <1> QED BY <1>1, <1>2, <1>3

LEMMA GatewayUp ==
  ASSUME LinkTypeOK, GatewayNext, HasUp(link')
  PROVE  HasUp(link) \/ (link' # link /\ SendsUp)
  <1>a. "down" \in Item /\ "reset" \in Item /\ "eof" \in Item /\ "up" \in Item
    BY DEF Item
  <1>1. CASE UNCHANGED link
    BY <1>1
  <1>2. CASE Send("up") /\ link' # link
    <2>1. CASE ~sockUp
      BY <1>2, <2>1 DEF Send, Sent, SendsUp
    <2>2. CASE sockUp
      <3>1. link' = Append(link, "up")
        BY <1>2, <2>2 DEF Send, Sent
      <3> QED BY <1>2, <3>1 DEF SendsUp, LinkTypeOK
    <2> QED BY <2>1, <2>2
  <1>3. CASE Send("down") \/ Send("reset")
    BY <1>3, <1>a, SentUp DEF Send
  <1>4. CASE GatewayCrash
    <2>1. CASE sockUp
      BY <1>4, <2>1, <1>a, AppendUp DEF GatewayCrash, LinkTypeOK
    <2>2. CASE ~sockUp
      BY <1>4, <2>2 DEF GatewayCrash
    <2> QED BY <2>1, <2>2
  <1>5. CASE GatewayShutdown
    <2>1. Sent("down") \in Seq(Item)
      BY <1>a, SentType DEF LinkTypeOK
    <2>2. HasUp(Sent("down"))
      BY <1>5, <2>1, <1>a, AppendUp DEF GatewayShutdown
    <2> QED BY <2>2, <1>a, SentUp
  <1> QED
    BY <1>1, <1>2, <1>3, <1>4, <1>5
       DEF GatewayNext, linkVars, HeartbeatLoop, DisconnectGrace, ClientConnect,
           ClientDrop, FinallyEpilogue, EstopBegin, EstopFinish, EstopResetBegin,
           EstopResetFinish, GatewayFreeze, GatewayThaw, GatewayStart

LEMMA HistoryStep == HistoryNext => Next
  BY DEF HistoryNext, Next

\* What no action of the gateway touches.
LEMMA GatewayOnly == GatewayNext => UNCHANGED <<wdVars, pinVars, servoVars>>
  BY DEF GatewayNext, HeartbeatLoop, DisconnectGrace, ClientConnect, ClientDrop,
         FinallyEpilogue, EstopBegin, EstopFinish, EstopResetBegin, EstopResetFinish,
         GatewayFreeze, GatewayThaw, GatewayCrash, GatewayShutdown, GatewayStart,
         ProcessGone

LEMMA FedStep ==
  ASSUME WatchdogHangs = FALSE, FedInv, [HistoryNext]_histVars
  PROVE  FedInv'
  <1> DEFINE Clocks == ClockTypeOK /\ RequestIsNew /\ AgeCounts /\ EnableIsRecent
  <1>a. FeedInv'
    <2>1. [Next]_vars
      BY HistoryStep DEF histVars
    <2> QED BY <2>1, FeedStep, TypeStep DEF FedInv, FeedInv
  <1>b. LinkTypeOK /\ CountTypeOK
    BY TypeParts DEF FedInv, FeedInv
  <1>c. connected => requested /\ (~wdDue => GatewayFresh)
    BY DEF FedInv, FeedInv, ConnectedOnRequest
  <1> USE ChainAssumption, HistoryAssumption
      DEF FedInv, ClockTypeOK, AgeCounts, EnableIsRecent, CountTypeOK, Untimed,
          linkVars, wdVars, pinVars, servoVars
  <1>1. ASSUME GatewayNext, silent' = IF link' # link /\ SendsUp THEN 0 ELSE silent
        PROVE  Clocks'
    <2>1. UNCHANGED <<wdVars, pinVars, servoVars>>
      BY <1>1, GatewayOnly
    <2>2. RequestIsNew'
      BY <1>1, <1>b, GatewayUp DEF RequestIsNew, HasUp
    <2> QED BY <1>1, <1>b, <2>1, <2>2
  <1>2. ASSUME WdLoop, Untimed PROVE Clocks'
    <2> USE DEF WdLoop, WdFresh, WdStale
    <2>1. RequestIsNew'
      BY <1>2 DEF RequestIsNew, HasUp, WdLoop
    <2>2. AgeCounts'
      BY <1>2, <1>b DEF WdLoop, GatewayFresh
    <2> QED BY <1>2, <2>1, <2>2 DEF WdLoop
  <1>3. ASSUME WdRecv, Untimed PROVE Clocks'
    <2>1. RequestIsNew'
      BY <1>3, <1>b, TailUp DEF RequestIsNew, HasUp, WdRecv, LinkTypeOK
    <2>2. AgeCounts'
      <3>1. CASE Head(link) = "up"
        BY <1>3, <1>b, <3>1, HeadUp DEF WdRecv, RequestIsNew, LinkTypeOK
      <3>2. CASE Head(link) \in {"down", "accept", "eof"}
        BY <1>3, <3>2 DEF WdRecv, PinsLow
      <3>3. CASE Head(link) = "reset"
        BY <1>3, <3>3 DEF WdRecv
      <3> QED BY <1>3, <3>1, <3>2, <3>3 DEF WdRecv
    <2> QED BY <1>3, <2>1, <2>2 DEF WdRecv
  <1>4. ASSUME WdDropPulse \/ WdHang \/ WdResume, Untimed PROVE Clocks'
    BY <1>4 DEF WdDropPulse, WdHang, WdResume, RequestIsNew, HasUp
  <1>5. ASSUME ServoCycle, Untimed PROVE Clocks'
    <2>1. emcEnable' => connected
      BY <1>5 DEF ServoCycle, ChainClosed
    <2>2. EnableIsRecent'
      BY <1>5, <1>b, <2>1
    <2> QED BY <1>5, <2>2 DEF ServoCycle, RequestIsNew, HasUp
  <1>6. ASSUME TaskObserve, Untimed PROVE Clocks'
    BY <1>6 DEF TaskObserve, RequestIsNew, HasUp
  <1>7. ASSUME Tick, silent' = Later(silent) PROVE Clocks'
    <2>1. link = <<>> /\ ~wdDue /\ ~servoDue
      BY <1>7 DEF Tick, WatchdogWaits, LinuxCNCWaits
    <2>2. silent' \in 0..Horizon /\ silent' <= silent + 1
      BY <1>7 DEF Later
    <2>3. RequestIsNew'
      BY <1>7, <2>1 DEF Tick, RequestIsNew, HasUp
    <2>4. AgeCounts'
      BY <1>7, <1>b, <1>c, <2>1, <2>2 DEF Tick, GatewayFresh
    <2>5. EnableIsRecent'
      BY <1>7, <2>1, <2>2 DEF Tick
    <2> QED BY <1>7, <2>2, <2>3, <2>4, <2>5 DEF Tick
  <1>8. ASSUME UNCHANGED histVars PROVE Clocks'
    BY <1>8 DEF histVars, vars, RequestIsNew, HasUp
  <1>9. Clocks'
    BY <1>1, <1>2, <1>3, <1>4, <1>5, <1>6, <1>7, <1>8 DEF HistoryNext, WatchdogNext
  <1> QED BY <1>a, <1>9

(***************************************************************************)
(* LinuxCNC's enable input never outlives the gateway by more than the     *)
(* watchdog's freshness timeout and two ticks, as long as the watchdog     *)
(* itself is scheduled.                                                    *)
(***************************************************************************)
THEOREM EnableFollowsGateway ==
  ASSUME WatchdogHangs = FALSE
  PROVE  HistorySpec => []EnabledIsFed
  <1>1. FedInv /\ [HistoryNext]_histVars => FedInv'
    BY FedStep
  <1>2. FedInv => EnabledIsFed
    BY ChainAssumption, HistoryAssumption
       DEF FedInv, ClockTypeOK, EnableIsRecent, EnabledIsFed
  <1> QED BY FedInit, <1>1, <1>2, PTL DEF HistorySpec

(***************************************************************************)
(* LinuxCNC's enable input does not outlive the last client either.  The   *)
(* budget: when nobody is registered, what the time since the last client  *)
(* left and the rest of the running grace period add up to is bounded by   *)
(* the freshness timeout, two ticks, and one grace period for every        *)
(* disconnect whose cleanup has come to its end.                           *)
(***************************************************************************)
Spell == GraceTicks + 1
Budget == FreshTimeout + 2 + (MaxClients - leaving - clients) * Spell

LEMMA OneMore == \A a, b \in Nat : (a + 1) * b = a * b + b /\ a * b \in Nat
  OBVIOUS

LEMMA Monotone == \A a, b, c \in Nat : a <= b => a * c <= b * c
  <1> SUFFICES ASSUME NEW a \in Nat, NEW b \in Nat, NEW c \in Nat, a <= b
               PROVE  a * c <= b * c
    OBVIOUS
  <1>1. PICK d \in Nat : b = a + d
    <2>1. b - a \in Nat /\ b = a + (b - a)
      OBVIOUS
    <2> QED BY <2>1
  <1>2. (a + d) * c = a * c + d * c /\ d * c \in Nat /\ a * c \in Nat
    OBVIOUS
  <1> QED BY <1>1, <1>2

\* (Of values, so that it can be used before and after a step.)
LEMMA BudgetBounds ==
  ASSUME NEW l \in 0..MaxClients, NEW c \in 0..MaxClients, l + c <= MaxClients
  PROVE  LET budget == FreshTimeout + 2 + (MaxClients - l - c) * Spell
         IN  /\ budget \in Nat /\ FreshTimeout + 2 <= budget
             /\ budget <= FreshTimeout + 2 + MaxClients * Spell
  <1> DEFINE rest == MaxClients - l - c
  <1>1. /\ rest \in Nat /\ rest <= MaxClients /\ Spell \in Nat
        /\ MaxClients \in Nat /\ FreshTimeout \in Nat
    BY ChainAssumption DEF Spell
  <1>2. rest * Spell \in Nat /\ rest * Spell <= MaxClients * Spell
    BY <1>1, OneMore, Monotone
  <1>3. MaxClients * Spell \in Nat
    BY <1>1, OneMore
  <1> HIDE DEF rest
  <1>4. /\ FreshTimeout + 2 + rest * Spell \in Nat
        /\ FreshTimeout + 2 <= FreshTimeout + 2 + rest * Spell
        /\ FreshTimeout + 2 + rest * Spell <= FreshTimeout + 2 + MaxClients * Spell
    BY <1>1, <1>2, <1>3
  <1> QED BY <1>4 DEF rest

LEMMA BudgetGrows ==
  ASSUME CountTypeOK, clients = 0, clients' = 0, leaving > 0, leaving' = leaving - 1
  PROVE  Budget' = Budget + Spell
  <1> DEFINE rest == MaxClients - leaving
  <1>1. rest \in Nat /\ Spell \in Nat /\ FreshTimeout \in Nat
    BY ChainAssumption DEF CountTypeOK, Spell
  <1>2. /\ MaxClients - leaving - clients = rest
        /\ MaxClients - leaving' - clients' = rest + 1
    BY ChainAssumption DEF CountTypeOK
  <1> HIDE DEF rest
  <1>3. (rest + 1) * Spell = rest * Spell + Spell /\ rest * Spell \in Nat
    BY <1>1, OneMore
  <1>4. Budget = FreshTimeout + 2 + rest * Spell
    BY <1>2 DEF Budget
  <1>5. Budget' = FreshTimeout + 2 + (rest + 1) * Spell
    BY <1>2 DEF Budget, Spell
  <1> QED BY <1>1, <1>3, <1>4, <1>5

\* A gateway that is gone has no disconnect left to clean up.
LEMMA BudgetFull ==
  ASSUME CountTypeOK, clients' = 0, leaving' = 0
  PROVE  Budget' = FreshTimeout + 2 + MaxClients * Spell
  <1>1. MaxClients - leaving' - clients' = MaxClients
    BY ChainAssumption
  <1> QED BY <1>1 DEF Budget, Spell

(***************************************************************************)
(* The invariant.  `Early' is what is left to prove of a state in which no *)
(* grace period runs: either the gateway's last request is at least as old *)
(* as the last client (so that the freshness timeout takes over), or some  *)
(* of the budget is left.                                                  *)
(***************************************************************************)
Quiet == clients = 0 /\ grace = 0
Live  == ~estopped \/ emcEnable
Early == away <= silent \/ away < Budget

\* The last message on the socket; with nothing on it, what was read counts.
EndedBy(S) == IF link = <<>> THEN ~requested ELSE link[Len(link)] \in S

ClientsCount ==
  /\ clients > 0 => away = 0 /\ grace = 0
  /\ cmdPc # "idle" => clients > 0
  /\ gw = "down" => clients = 0 /\ grace = 0

ClosedSocketEnds == ~sockUp => EndedBy({"eof"})

SocketIsRead == clients = 0 /\ away > 0 /\ gwDue /\ sockUp => link = <<>>

GraceEndsIt == Quiet => away <= silent \/ EndedBy({"down", "eof"})

WithinBudget ==
  clients = 0 /\ Live => away + grace + (IF gwDue THEN 0 ELSE 1) <= Budget

RequestIsEarly == Live /\ Quiet /\ (requested \/ HasUp(link)) => Early

EnableIsEarly == Quiet /\ emcEnable /\ ~servoDue => Early

AwayTypeOK == away \in 0..Horizon

AttendedInv ==
  /\ AwayTypeOK /\ ClientsCount /\ ClosedSocketEnds /\ SocketIsRead
  /\ GraceEndsIt /\ WithinBudget /\ RequestIsEarly /\ EnableIsEarly

LEMMA AttendedInit == HistoryInit => AttendedInv
  <1> SUFFICES ASSUME HistoryInit PROVE AttendedInv
    OBVIOUS
  <1> USE HistoryAssumption DEF HistoryInit, Init
  <1>1. AwayTypeOK /\ ClientsCount
    BY DEF AwayTypeOK, ClientsCount
  <1>2. ClosedSocketEnds /\ SocketIsRead /\ GraceEndsIt
    BY DEF ClosedSocketEnds, SocketIsRead, GraceEndsIt, EndedBy
  <1>3. WithinBudget /\ RequestIsEarly /\ EnableIsEarly
    BY DEF WithinBudget, RequestIsEarly, EnableIsEarly, Live
  <1> QED BY <1>1, <1>2, <1>3 DEF AttendedInv

\* A message sent on a fresh connection, or when all was read, is the last.
LEMMA SentLast ==
  ASSUME LinkTypeOK, NEW m \in Item, ~sockUp \/ link = <<>>
  PROVE  Sent(m) # <<>> /\ Sent(m)[Len(Sent(m))] = m
  <1>1. CASE ~sockUp
    BY <1>1 DEF Sent
  <1>2. CASE sockUp /\ link = <<>>
    BY <1>2, ChainAssumption DEF Sent
  <1> QED BY <1>1, <1>2

LEMMA TailLast ==
  ASSUME NEW q \in Seq(Item), q # <<>>
  PROVE  IF Tail(q) = <<>> THEN q[Len(q)] = Head(q)
         ELSE Tail(q)[Len(Tail(q))] = q[Len(q)]
  <1>1. Len(q) \in Nat \ {0} /\ Head(q) = q[1]
    OBVIOUS
  <1>2. PICK r \in Seq(Item) : r = Tail(q)
    BY HeadTailProperties
  <1>3. Len(r) = Len(q) - 1 /\ \A i \in 1..Len(r) : r[i] = q[i + 1]
    BY <1>2
  <1>4. CASE Len(q) = 1
    <2>1. r = <<>>
      BY <1>2, <1>3, <1>4
    <2> QED BY <1>1, <1>2, <1>4, <2>1
  <1>5. CASE Len(q) # 1
    <2>1. Len(r) \in 1..Len(r) /\ Len(r) + 1 = Len(q)
      BY <1>1, <1>3, <1>5
    <2>2. r # <<>> /\ r[Len(r)] = q[Len(q)]
      BY <1>3, <2>1
    <2> QED BY <1>2, <2>2
  <1> QED BY <1>4, <1>5

(***************************************************************************)
(* The gateway's actions, with what they do to the clocks.                 *)
(***************************************************************************)
GatewayClocks ==
  /\ silent' = IF link' # link /\ SendsUp THEN 0 ELSE silent
  /\ away' = IF clients' > 0 THEN 0 ELSE away

\* With a client registered only the socket's state is left to look at.
LEMMA AttendedByClient ==
  ASSUME FedInv, CountTypeOK', AttendedInv, GatewayClocks, clients' > 0, grace' = 0,
         gw' # "down", sockUp' = TRUE \/ UNCHANGED <<linkVars, requested>>
  PROVE  AttendedInv'
  <1>1. AwayTypeOK' /\ ClientsCount'
    BY HistoryAssumption DEF GatewayClocks, AwayTypeOK, ClientsCount
  <1>2. ClosedSocketEnds'
    BY DEF AttendedInv, ClosedSocketEnds, EndedBy, linkVars
  <1>3. clients' # 0
    BY DEF CountTypeOK
  <1>4. SocketIsRead' /\ GraceEndsIt' /\ WithinBudget' /\ RequestIsEarly' /\ EnableIsEarly'
    BY <1>3
       DEF SocketIsRead, GraceEndsIt, WithinBudget, RequestIsEarly, EnableIsEarly, Quiet
  <1> QED BY <1>1, <1>2, <1>4 DEF AttendedInv

\* The last client leaves: nobody has been away yet.
LEMMA AttendedDrop ==
  ASSUME FedInv, CountTypeOK, CountTypeOK', ClockTypeOK', AttendedInv, GatewayClocks,
         ClientDrop, clients' = 0
  PROVE  AttendedInv'
  <1> USE DEF linkVars, wdVars, pinVars, servoVars
  <1>1. /\ away = 0 /\ away' = 0 /\ grace' = 0 /\ cmdPc' = "idle"
        /\ gw' = "run"
    BY DEF GatewayClocks, ClientDrop, AttendedInv, ClientsCount, CountTypeOK
  <1>2. AwayTypeOK' /\ ClientsCount'
    BY <1>1, HistoryAssumption DEF AwayTypeOK, ClientsCount
  <1>3. ClosedSocketEnds' /\ SocketIsRead'
    BY <1>1 DEF AttendedInv, ClosedSocketEnds, SocketIsRead, EndedBy, ClientDrop
  <1>4. Early' /\ away' <= silent'
    BY <1>1 DEF Early, ClockTypeOK
  <1>5. FreshTimeout + 2 <= Budget' /\ Budget' \in Nat
    BY BudgetBounds DEF CountTypeOK, Budget, Spell
  <1>6. WithinBudget'
    BY <1>1, <1>5, ChainAssumption DEF WithinBudget
  <1> QED BY <1>2, <1>3, <1>4, <1>6 DEF AttendedInv, GraceEndsIt, RequestIsEarly, EnableIsEarly

\* The cleanup of the last client's disconnect adds a grace period to the budget.
LEMMA AttendedEpilogue ==
  ASSUME FedInv, CountTypeOK, AttendedInv, GatewayClocks, FinallyEpilogue, clients = 0
  PROVE  AttendedInv'
  <1> USE DEF linkVars, wdVars, pinVars, servoVars
  <1>1. /\ UNCHANGED <<away, silent, clients, cmdPc, gw, gwDue, sockUp, link,
                       requested, estopped, emcEnable>>
        /\ leaving > 0 /\ leaving' = leaving - 1
        /\ grace' = IF grace = 0 THEN GraceTicks + 1 ELSE grace
    BY DEF GatewayClocks, FinallyEpilogue
  <1>2. AwayTypeOK' /\ ClientsCount' /\ gw = "run"
    BY <1>1 DEF AttendedInv, AwayTypeOK, ClientsCount, FinallyEpilogue, CountTypeOK
  <1>3. ClosedSocketEnds' /\ SocketIsRead'
    BY <1>1 DEF AttendedInv, ClosedSocketEnds, SocketIsRead, EndedBy
  <1>4. ~Quiet'
    BY <1>1, ChainAssumption DEF Quiet, CountTypeOK
  <1>5. Budget' = Budget + Spell /\ Budget \in Nat
    BY <1>1, BudgetGrows, BudgetBounds DEF CountTypeOK, Budget
  <1>6. WithinBudget'
    BY <1>1, <1>5, ChainAssumption
       DEF AttendedInv, WithinBudget, Live, Spell, CountTypeOK, AwayTypeOK
  <1> QED BY <1>2, <1>3, <1>4, <1>6
             DEF AttendedInv, GraceEndsIt, RequestIsEarly, EnableIsEarly

\* The grace period uses the budget up, and its end asks for connected = FALSE
\* on a socket that has been read: no request is left behind.
LEMMA AttendedGrace ==
  ASSUME FedInv, CountTypeOK, LinkTypeOK, ClockTypeOK', AttendedInv, GatewayClocks,
         DisconnectGrace
  PROVE  AttendedInv'
  <1> USE DEF linkVars, wdVars, pinVars, servoVars
  <1>1. /\ UNCHANGED <<away, clients, leaving, cmdPc, gw, requested, estopped,
                       emcEnable, servoDue>>
        /\ clients = 0 /\ grace > 0 /\ gwDue /\ gw = "run"
        /\ grace' = grace - 1 /\ gwDue' = FALSE /\ sockUp' = TRUE
        /\ link' = Sent(IF grace > 1 THEN "up" ELSE "down")
    BY DEF GatewayClocks, DisconnectGrace, Send
  <1>2. AwayTypeOK' /\ ClientsCount' /\ ClosedSocketEnds' /\ SocketIsRead'
    BY <1>1 DEF AttendedInv, AwayTypeOK, ClientsCount, ClosedSocketEnds, SocketIsRead
  <1>3. Budget' = Budget /\ Budget \in Nat
    BY <1>1, BudgetBounds DEF CountTypeOK, Budget, Spell
  <1>4. WithinBudget'
    BY <1>1, <1>3 DEF AttendedInv, WithinBudget, Live, CountTypeOK, AwayTypeOK
  <1>5. Live => away < Budget
    BY <1>1, <1>3 DEF AttendedInv, WithinBudget, CountTypeOK, AwayTypeOK
  <1>6. RequestIsEarly' /\ EnableIsEarly'
    BY <1>1, <1>3, <1>5 DEF RequestIsEarly, EnableIsEarly, Early, Live
  <1>7. GraceEndsIt'
    <2>1. ASSUME grace' = 0, away > 0
          PROVE  link' # <<>> /\ link'[Len(link')] = "down"
      <3>1. link' = Sent("down") /\ "down" \in Item
        BY <1>1, <2>1 DEF CountTypeOK, Item
      <3>2. ~sockUp \/ link = <<>>
        BY <1>1, <2>1 DEF AttendedInv, SocketIsRead
      <3> QED BY <3>1, <3>2, SentLast
    <2>2. away > 0 \/ away' <= silent'
      BY <1>1, <1>2, HistoryAssumption DEF ClockTypeOK, AwayTypeOK
    <2> QED BY <2>1, <2>2 DEF GraceEndsIt, EndedBy, Quiet
  <1> QED BY <1>2, <1>4, <1>6, <1>7 DEF AttendedInv

\* A blocked, unblocked or restarted event loop does nothing by itself.
LEMMA AttendedPause ==
  ASSUME FedInv, CountTypeOK, AttendedInv, GatewayClocks,
         GatewayFreeze \/ GatewayThaw \/ GatewayStart
  PROVE  AttendedInv'
  <1>1. /\ UNCHANGED <<away, silent, clients, leaving, cmdPc, grace, gwDue, sockUp,
                       link, requested, estopped, emcEnable, servoDue>>
        /\ gw' # "down"
    BY DEF GatewayClocks, GatewayFreeze, GatewayThaw, GatewayStart, linkVars, wdVars,
           servoVars, AttendedInv, ClientsCount, CountTypeOK
  <1>2. AwayTypeOK' /\ ClientsCount'
    BY <1>1 DEF AttendedInv, AwayTypeOK, ClientsCount
  <1>3. ClosedSocketEnds' /\ SocketIsRead' /\ GraceEndsIt'
    BY <1>1 DEF AttendedInv, ClosedSocketEnds, SocketIsRead, GraceEndsIt, EndedBy, Quiet
  <1>4. Budget' = Budget
    BY <1>1 DEF Budget, Spell
  <1>5. WithinBudget' /\ RequestIsEarly' /\ EnableIsEarly'
    BY <1>1, <1>4
       DEF AttendedInv, WithinBudget, RequestIsEarly, EnableIsEarly, Early, Live, Quiet,
           HasUp
  <1> QED BY <1>2, <1>3, <1>5 DEF AttendedInv

\* A gateway that is gone leaves a socket that ends in its closing; the budget
\* counts every grace period a new one may start.
LEMMA AttendedGone ==
  ASSUME FedInv, CountTypeOK, LinkTypeOK, ClockTypeOK', AttendedInv, GatewayClocks,
         GatewayCrash \/ GatewayShutdown
  PROVE  AttendedInv'
  <1> USE DEF wdVars, pinVars, servoVars
  <1>a. "down" \in Item /\ "eof" \in Item
    BY DEF Item
  <1>1. /\ UNCHANGED <<requested, estopped, emcEnable, servoDue>>
        /\ clients' = 0 /\ leaving' = 0 /\ cmdPc' = "idle" /\ grace' = 0
        /\ gwDue' = TRUE /\ sockUp' = FALSE
    BY DEF GatewayCrash, GatewayShutdown, ProcessGone
  <1>2. EndedBy({"eof"})' /\ (link' = link \/ ~SendsUp)
    <2>1. CASE GatewayCrash /\ sockUp
      BY <2>1, <1>a DEF GatewayCrash, LinkTypeOK, EndedBy, SendsUp
    <2>2. CASE GatewayCrash /\ ~sockUp
      BY <2>2, <1>1 DEF GatewayCrash, AttendedInv, ClosedSocketEnds, EndedBy
    <2>3. CASE GatewayShutdown
      <3>1. Sent("down") \in Seq(Item)
        BY <1>a, SentType DEF LinkTypeOK
      <3> QED BY <2>3, <3>1, <1>a DEF GatewayShutdown, EndedBy, SendsUp
    <2> QED BY <2>1, <2>2, <2>3
  <1>3. UNCHANGED <<away, silent>>
    BY <1>1, <1>2 DEF GatewayClocks
  <1>4. HasUp(link') => HasUp(link)
    BY <1>2, GatewayUp DEF GatewayNext
  <1>5. AwayTypeOK' /\ ClientsCount' /\ ClosedSocketEnds' /\ SocketIsRead'
    BY <1>1, <1>2, <1>3
       DEF AttendedInv, AwayTypeOK, ClientsCount, ClosedSocketEnds, SocketIsRead
  <1>6. GraceEndsIt'
    BY <1>2 DEF GraceEndsIt, EndedBy
  <1>7. Budget \in Nat /\ Budget <= Budget' /\ Budget' \in Nat
    <2>1. Budget' = FreshTimeout + 2 + MaxClients * Spell
      BY <1>1, BudgetFull
    <2>2. Budget' \in Nat
      BY <1>1, BudgetBounds, ChainAssumption DEF Budget, Spell
    <2> QED BY <2>1, <2>2, BudgetBounds DEF CountTypeOK, Budget
  <1>8. Live /\ away > 0 => away + grace <= Budget /\ clients = 0
    BY <1>7 DEF AttendedInv, WithinBudget, ClientsCount, CountTypeOK, AwayTypeOK
  <1>9. WithinBudget'
    BY <1>1, <1>3, <1>7, <1>8 DEF WithinBudget, Live, CountTypeOK, AttendedInv, AwayTypeOK
  <1>10. Live /\ ~Quiet => Early'
    BY <1>3, <1>7, <1>8
       DEF Quiet, Early, CountTypeOK, AttendedInv, AwayTypeOK, FedInv, ClockTypeOK
  <1>11. Early => Early'
    BY <1>3, <1>7 DEF Early, AttendedInv, AwayTypeOK
  <1>12. RequestIsEarly' /\ EnableIsEarly'
    BY <1>1, <1>4, <1>10, <1>11 DEF AttendedInv, RequestIsEarly, EnableIsEarly, Live
  <1> QED BY <1>5, <1>6, <1>9, <1>12 DEF AttendedInv

LEMMA AttendedGateway ==
  ASSUME FedInv, CountTypeOK, LinkTypeOK, CountTypeOK', ClockTypeOK', AttendedInv,
         GatewayClocks, GatewayNext
  PROVE  AttendedInv'
  <1> DEFINE ClientStays == /\ clients' > 0 /\ grace' = 0 /\ gw' # "down"
                            /\ sockUp' = TRUE \/ UNCHANGED <<linkVars, requested>>
  <1> USE DEF CountTypeOK, wdVars
  <1>a. ClientsCount
    BY DEF AttendedInv
  <1>1. CASE ClientStays
    BY <1>1, AttendedByClient
  <1>2. HeartbeatLoop \/ ClientConnect \/ EstopBegin => ClientStays
    BY <1>a DEF HeartbeatLoop, ClientConnect, EstopBegin, Send, ClientsCount
  <1>3. EstopFinish \/ EstopResetBegin \/ EstopResetFinish => ClientStays
    BY <1>a DEF EstopFinish, EstopResetBegin, EstopResetFinish, Send, ClientsCount
  <1>4. CASE ClientDrop
    <2>1. CASE clients' = 0
      BY <1>4, <2>1, AttendedDrop
    <2>2. CASE clients' # 0
      <3>1. ClientStays
        BY <1>4, <1>a, <2>2 DEF ClientDrop, ClientsCount
      <3> QED BY <3>1, AttendedByClient
    <2> QED BY <2>1, <2>2
  <1>5. CASE FinallyEpilogue
    <2>1. CASE clients = 0
      BY <1>5, <2>1, AttendedEpilogue
    <2>2. CASE clients # 0
      <3>1. ClientStays
        BY <1>5, <1>a, <2>2 DEF FinallyEpilogue, Send, ClientsCount
      <3> QED BY <3>1, AttendedByClient
    <2> QED BY <2>1, <2>2
  <1>6. CASE DisconnectGrace
    BY <1>6, AttendedGrace
  <1>7. CASE GatewayFreeze \/ GatewayThaw \/ GatewayStart
    BY <1>7, AttendedPause
  <1>8. CASE GatewayCrash \/ GatewayShutdown
    BY <1>8, AttendedGone
  <1> HIDE DEF ClientStays
  <1> QED BY <1>1, <1>2, <1>3, <1>4, <1>5, <1>6, <1>7, <1>8 DEF GatewayNext

(***************************************************************************)
(* The watchdog reads: what it has read is what the socket was.            *)
(***************************************************************************)
LEMMA AttendedRecv ==
  ASSUME FedInv, CountTypeOK, LinkTypeOK, AttendedInv, WdRecv, UNCHANGED <<silent, away>>
  PROVE  AttendedInv'
  <1>1. /\ UNCHANGED <<away, silent, clients, leaving, cmdPc, gw, grace, gwDue, sockUp,
                       estopped, emcEnable, servoDue>>
        /\ link # <<>> /\ link' = Tail(link)
        /\ Head(link) \in {"down", "accept", "eof"} => ~requested'
        /\ requested' => requested \/ HasUp(link)
    BY HeadUp DEF WdRecv, PinsLow, gwVars, servoVars, LinkTypeOK
  <1>2. EndedBy({"eof"}) => EndedBy({"eof"})'
    BY <1>1, TailLast DEF EndedBy, LinkTypeOK
  <1>3. EndedBy({"down", "eof"}) => EndedBy({"down", "eof"})'
    BY <1>1, TailLast DEF EndedBy, LinkTypeOK
  <1>4. AwayTypeOK' /\ ClientsCount' /\ ClosedSocketEnds' /\ SocketIsRead'
    BY <1>1, <1>2
       DEF AttendedInv, AwayTypeOK, ClientsCount, ClosedSocketEnds, SocketIsRead
  <1>5. (Quiet' <=> Quiet) /\ (Live' <=> Live) /\ (Early' <=> Early)
    BY <1>1 DEF Quiet, Live, Early, Budget, Spell
  <1>6. GraceEndsIt'
    BY <1>1, <1>3, <1>5 DEF AttendedInv, GraceEndsIt
  <1>7. WithinBudget' /\ EnableIsEarly'
    BY <1>1, <1>5
       DEF AttendedInv, WithinBudget, EnableIsEarly, Budget, Spell
  <1>8. HasUp(link') => HasUp(link)
    BY <1>1, TailUp DEF LinkTypeOK
  <1>9. RequestIsEarly'
    BY <1>1, <1>5, <1>8 DEF AttendedInv, RequestIsEarly
  <1> QED BY <1>4, <1>6, <1>7, <1>9 DEF AttendedInv

(***************************************************************************)
(* Steps that leave the gateway, the socket and the watchdog's request     *)
(* alone.  The enable input rises only on a connected pin, that is with a  *)
(* request the watchdog has read.                                          *)
(***************************************************************************)
LEMMA AttendedElsewhere ==
  ASSUME FedInv, CountTypeOK, AttendedInv,
         UNCHANGED <<gwVars, linkVars, requested, silent, away>>,
         Live' => Live,
         emcEnable' /\ ~servoDue' => (emcEnable /\ ~servoDue) \/ (Live /\ requested)
  PROVE  AttendedInv'
  <1>1. UNCHANGED <<away, silent, clients, leaving, cmdPc, gw, grace, gwDue, sockUp,
                    link, requested>>
    BY DEF gwVars, linkVars
  <1>2. AwayTypeOK' /\ ClientsCount' /\ ClosedSocketEnds' /\ SocketIsRead' /\ GraceEndsIt'
    BY <1>1
       DEF AttendedInv, AwayTypeOK, ClientsCount, ClosedSocketEnds, SocketIsRead,
           GraceEndsIt, EndedBy, Quiet
  <1>3. Budget' = Budget /\ (Early' <=> Early) /\ (Quiet' <=> Quiet)
    BY <1>1 DEF Budget, Spell, Early, Quiet
  <1>4. WithinBudget' /\ RequestIsEarly' /\ EnableIsEarly'
    BY <1>1, <1>3
       DEF AttendedInv, WithinBudget, RequestIsEarly, EnableIsEarly, HasUp, Quiet
  <1> QED BY <1>2, <1>4 DEF AttendedInv

(***************************************************************************)
(* A tick costs one of the budget.  There is one left: with the grace      *)
(* period over, this tick's heartbeat not even due to anybody and the      *)
(* whole budget used up, LinuxCNC would still see its enable input, or a   *)
(* chain about to close, on a request as old as the last client.           *)
(***************************************************************************)
TickClocks ==
  /\ silent' = Later(silent)
  /\ away' = IF clients > 0 THEN 0
             ELSE IF gw = "frozen" THEN away ELSE Later(away)

LEMMA TickSpends ==
  ASSUME WatchdogHangs = FALSE, FedInv, CountTypeOK, AttendedInv, Tick,
         clients = 0, Live, gw # "frozen"
  PROVE  away + grace + 1 <= Budget
  <1> USE DEF CountTypeOK
  <1>1. Budget \in Nat /\ FreshTimeout + 2 <= Budget
    BY BudgetBounds DEF Budget, Spell
  <1>2. away \in Nat /\ silent \in Nat /\ FreshTimeout \in Nat
    BY ChainAssumption, HistoryAssumption
       DEF AttendedInv, AwayTypeOK, FedInv, ClockTypeOK
  <1>3. away + grace + (IF gwDue THEN 0 ELSE 1) <= Budget
    BY DEF AttendedInv, WithinBudget
  <1>4. CASE grace > 0 \/ ~gwDue
    <2>1. ~gwDue
      <3>1. gw = "run" \/ grace = 0
        BY DEF FedInv, FeedInv, TypeOK, AttendedInv, ClientsCount
      <3> QED BY <1>4, <3>1 DEF Tick, GatewayWaits
    <2> QED BY <1>3, <2>1
  <1>5. CASE grace = 0 /\ gwDue
    <2>1. Quiet /\ ~servoDue /\ ~(~estopped /\ ChainOpen)
      BY <1>5 DEF Quiet, Tick, LinuxCNCWaits
    <2>2. silent < Budget
      <3>1. CASE emcEnable
        BY <1>1, <1>2, <2>1, <3>1 DEF FedInv, EnableIsRecent
      <3>2. CASE ~emcEnable
        <4>1. connected
          BY <2>1, <3>2 DEF Live, ChainOpen, ChainClosed
        <4> QED BY <1>1, <1>2, <4>1 DEF FedInv, AgeCounts
      <3> QED BY <3>1, <3>2
    <2>3. Early
      <3>1. CASE emcEnable
        BY <2>1, <3>1 DEF AttendedInv, EnableIsEarly
      <3>2. CASE ~emcEnable
        <4>1. connected
          BY <2>1, <3>2 DEF Live, ChainOpen, ChainClosed
        <4>2. requested
          BY <4>1 DEF FedInv, FeedInv, ConnectedOnRequest
        <4> QED BY <2>1, <4>2 DEF AttendedInv, RequestIsEarly
      <3> QED BY <3>1, <3>2
    <2>4. away < Budget
      BY <1>1, <1>2, <2>2, <2>3 DEF Early
    <2> QED BY <1>1, <1>2, <1>5, <2>4
  <1> QED BY <1>4, <1>5

LEMMA AttendedTick ==
  ASSUME WatchdogHangs = FALSE, FedInv, CountTypeOK, AttendedInv, Tick, TickClocks
  PROVE  AttendedInv'
  <1>1. /\ UNCHANGED <<clients, leaving, cmdPc, gw, grace, sockUp, link, requested,
                       estopped, emcEnable>>
        /\ link = <<>> /\ servoDue' = TRUE /\ gwDue' = TRUE
    BY DEF Tick, WatchdogWaits, linkVars, FedInv, ClockTypeOK
  <1>2. /\ away \in 0..Horizon /\ silent \in 0..Horizon /\ Horizon \in Nat
        /\ clients > 0 => away = 0
    BY HistoryAssumption
       DEF AttendedInv, AwayTypeOK, ClientsCount, FedInv, ClockTypeOK
  <1>3. /\ away' \in 0..Horizon /\ silent' \in 0..Horizon
        /\ away' <= away + 1 /\ (gw = "frozen" => away' = away)
        /\ away <= silent => away' <= silent'
    BY <1>2 DEF TickClocks, Later, CountTypeOK
  <1>4. AwayTypeOK' /\ ClientsCount'
    BY <1>1, <1>3
       DEF AttendedInv, AwayTypeOK, ClientsCount, TickClocks
  <1>5. ClosedSocketEnds' /\ SocketIsRead'
    BY <1>1 DEF AttendedInv, ClosedSocketEnds, SocketIsRead, EndedBy
  <1>6. GraceEndsIt'
    BY <1>1, <1>3 DEF AttendedInv, GraceEndsIt, EndedBy, Quiet
  <1>7. Budget' = Budget /\ Budget \in Nat
    BY <1>1, BudgetBounds DEF Budget, Spell, CountTypeOK
  <1>8. WithinBudget'
    <2>1. ASSUME clients = 0, Live, gw = "frozen" PROVE away' + grace <= Budget
      <3>1. away + grace + (IF gwDue THEN 0 ELSE 1) <= Budget
        BY <2>1 DEF AttendedInv, WithinBudget
      <3>2. away' = away /\ away \in Nat /\ grace \in Nat
        BY <1>2, <1>3, <2>1, ChainAssumption DEF CountTypeOK
      <3> QED BY <1>7, <3>1, <3>2
    <2>2. ASSUME clients = 0, Live, gw # "frozen" PROVE away' + grace <= Budget
      <3>1. away + grace + 1 <= Budget
        BY <2>2, TickSpends
      <3>2. /\ away' <= away + 1 /\ away' \in Nat /\ away \in Nat /\ grace \in Nat
        BY <1>2, <1>3, ChainAssumption DEF CountTypeOK
      <3>3. \A a, b, g, t \in Nat : a + g + 1 <= t /\ b <= a + 1 => b + g <= t
        OBVIOUS
      <3> QED BY <1>7, <3>1, <3>2, <3>3, Zenon
    <2>3. away' + grace' + 0 = away' + grace
      BY <1>1, <1>2, <1>3, ChainAssumption DEF CountTypeOK
    <2> QED BY <1>1, <1>7, <2>1, <2>2, <2>3 DEF WithinBudget, Live
  <1>9. RequestIsEarly'
    <2>1. ~HasUp(link')
      BY <1>1 DEF HasUp
    <2> QED BY <1>1, <1>3, <2>1
            DEF RequestIsEarly, AttendedInv, GraceEndsIt, EndedBy, Early, Quiet
  <1>10. EnableIsEarly'
    BY <1>1 DEF EnableIsEarly
  <1> QED BY <1>4, <1>5, <1>6, <1>8, <1>9, <1>10 DEF AttendedInv

LEMMA AttendedStep ==
  ASSUME WatchdogHangs = FALSE, FedInv, FedInv', AttendedInv, [HistoryNext]_histVars
  PROVE  AttendedInv'
  <1>a. LinkTypeOK /\ CountTypeOK /\ ClockTypeOK'
    BY TypeParts DEF FedInv, FeedInv
  <1>b. CountTypeOK'
    BY DEF FedInv, FeedInv, TypeOK, CountTypeOK
  <1> USE <1>a, <1>b DEF Untimed, wdVars, pinVars, servoVars
  <1>1. CASE GatewayNext /\ GatewayClocks
    BY <1>1, AttendedGateway
  <1>2. CASE WdRecv /\ Untimed
    BY <1>2, AttendedRecv
  <1>3. CASE WdLoop /\ Untimed
    BY <1>3, AttendedElsewhere DEF WdLoop, WdFresh, WdStale, Live
  <1>4. CASE (WdDropPulse \/ WdHang \/ WdResume) /\ Untimed
    BY <1>4, AttendedElsewhere DEF WdDropPulse, WdHang, WdResume, Live
  <1>5. CASE ServoCycle /\ Untimed
    <2>1. emcEnable' => ~estopped /\ connected
      BY <1>5 DEF ServoCycle, ChainClosed
    <2>2. connected => requested
      BY DEF FedInv, FeedInv, ConnectedOnRequest
    <2> QED BY <1>5, <2>1, <2>2, AttendedElsewhere DEF ServoCycle, Live
  <1>6. CASE TaskObserve /\ Untimed
    BY <1>6, AttendedElsewhere DEF TaskObserve, Live
  <1>7. CASE Tick /\ TickClocks
    BY <1>7, AttendedTick
  <1>8. CASE UNCHANGED histVars
    BY <1>8, AttendedElsewhere DEF histVars, vars, gwVars, linkVars, Live
  <1> QED
    BY <1>1, <1>2, <1>3, <1>4, <1>5, <1>6, <1>7, <1>8
       DEF HistoryNext, WatchdogNext, GatewayClocks, TickClocks

(***************************************************************************)
(* LinuxCNC's enable input never outlives the last client by more than the *)
(* freshness timeout, two ticks, and a grace period for each client there  *)
(* can be, whatever crashes, restarts and blocked event loops come between,*)
(* as long as the watchdog itself is scheduled.                            *)
(***************************************************************************)
THEOREM EnableFollowsClients ==
  ASSUME WatchdogHangs = FALSE
  PROVE  HistorySpec => []EnabledIsAttended
  <1>1. HistoryInit => FedInv /\ AttendedInv
    BY FedInit, AttendedInit
  <1>2. FedInv /\ AttendedInv /\ [HistoryNext]_histVars => (FedInv /\ AttendedInv)'
    BY FedStep, AttendedStep
  <1>3. FedInv /\ AttendedInv => EnabledIsAttended
    <2> SUFFICES ASSUME FedInv, AttendedInv, emcEnable
                 PROVE  away <= FreshTimeout + MaxClients * Spell + 2
      BY DEF EnabledIsAttended, Spell
    <2>1. CountTypeOK
      BY TypeParts DEF FedInv, FeedInv
    <2>2. /\ Budget \in Nat /\ FreshTimeout + 2 <= Budget
          /\ Budget <= FreshTimeout + 2 + MaxClients * Spell
      BY <2>1, BudgetBounds DEF Budget, CountTypeOK
    <2>3. away <= Budget
      BY <2>1, <2>2, HistoryAssumption
         DEF AttendedInv, AwayTypeOK, ClientsCount, WithinBudget, Live, CountTypeOK
    <2>4. MaxClients * Spell \in Nat /\ away \in Nat /\ FreshTimeout \in Nat
      BY OneMore, ChainAssumption, HistoryAssumption
         DEF Spell, AttendedInv, AwayTypeOK
    <2> QED BY <2>2, <2>3, <2>4
  <1> QED BY <1>1, <1>2, <1>3, PTL DEF HistorySpec

(***************************************************************************)
(* The trip latch as its abstract promise: one operator reset releases at  *)
(* most one trip.  What makes it inductive: every reset that is still on   *)
(* its way, on the socket or as an edge the servo thread has not seen yet, *)
(* has a credit of its own.                                                *)
(***************************************************************************)
ResetsIn(q) == {i \in 1..Len(q) : q[i] = "reset"}
One(b) == IF b THEN 1 ELSE 0

LEMMA ResetsFinite ==
  ASSUME NEW q \in Seq(Item)
  PROVE  IsFiniteSet(ResetsIn(q)) /\ Cardinality(ResetsIn(q)) \in Nat
  <1>1. IsFiniteSet(1..Len(q)) /\ ResetsIn(q) \subseteq 1..Len(q)
    BY FS_Interval DEF ResetsIn
  <1> QED BY <1>1, FS_Subset, FS_CardinalityType

LEMMA AppendResets ==
  ASSUME NEW q \in Seq(Item), NEW m \in Item
  PROVE  Cardinality(ResetsIn(Append(q, m)))
           = Cardinality(ResetsIn(q)) + One(m = "reset")
  <1>1. Len(q) + 1 \notin ResetsIn(q)
    BY DEF ResetsIn
  <1>2. CASE m = "reset"
    <2>1. ResetsIn(Append(q, m)) = ResetsIn(q) \cup {Len(q) + 1}
      BY <1>2 DEF ResetsIn
    <2> QED BY <1>1, <1>2, <2>1, ResetsFinite, FS_AddElement DEF One
  <1>3. CASE m # "reset"
    <2>1. ResetsIn(Append(q, m)) = ResetsIn(q)
      BY <1>3 DEF ResetsIn
    <2> QED BY <1>3, <2>1, ResetsFinite DEF One
  <1> QED BY <1>2, <1>3

LEMMA TailResets ==
  ASSUME NEW q \in Seq(Item), q # <<>>
  PROVE  Cardinality(ResetsIn(q))
           = Cardinality(ResetsIn(Tail(q))) + One(Head(q) = "reset")
  <1> DEFINE rest == ResetsIn(q) \ {1}
             shift == [i \in rest |-> i - 1]
  <1>1. Tail(q) \in Seq(Item) /\ Len(Tail(q)) = Len(q) - 1 /\ Head(q) = q[1]
    OBVIOUS
  <1>2. \A i \in 1..Len(Tail(q)) : Tail(q)[i] = q[i + 1]
    OBVIOUS
  <1>3. Cardinality(rest) = Cardinality(ResetsIn(Tail(q)))
    <2>1. \A i \in rest : i \in 2..Len(q) /\ i - 1 \in ResetsIn(Tail(q))
      BY <1>1, <1>2 DEF ResetsIn
    <2>2. \A j \in ResetsIn(Tail(q)) : j + 1 \in rest /\ (j + 1) - 1 = j
      BY <1>1, <1>2 DEF ResetsIn
    <2>3. shift \in Bijection(rest, ResetsIn(Tail(q)))
      <3>1. shift \in [rest -> ResetsIn(Tail(q))]
        BY <2>1
      <3>2. \A a, b \in rest : shift[a] = shift[b] => a = b
        BY <2>1
      <3>3. \A j \in ResetsIn(Tail(q)) : \E i \in rest : shift[i] = j
        BY <2>2
      <3> QED BY <3>1, <3>2, <3>3 DEF Bijection, Injection, Surjection, IsInjective
    <2>4. IsFiniteSet(rest)
      BY ResetsFinite, FS_Subset
    <2> QED BY <2>3, <2>4, FS_Bijection DEF ExistsBijection
  <1>4. CASE Head(q) = "reset"
    <2>1. 1 \in ResetsIn(q)
      BY <1>1, <1>4 DEF ResetsIn
    <2>2. Cardinality(rest) = Cardinality(ResetsIn(q)) - 1
      BY <2>1, ResetsFinite, FS_RemoveElement
    <2> QED BY <1>1, <1>3, <1>4, <2>2, ResetsFinite DEF One
  <1>5. CASE Head(q) # "reset"
    <2>1. rest = ResetsIn(q)
      BY <1>1, <1>5 DEF ResetsIn
    <2>2. One(Head(q) = "reset") = 0
      BY <1>5 DEF One
    <2>3. Cardinality(ResetsIn(Tail(q))) \in Nat
      BY <1>1, ResetsFinite
    <2> HIDE DEF rest
    <2> QED BY <1>3, <2>1, <2>2, <2>3
  <1> QED BY <1>4, <1>5

\* Opening a connection drops what was left of the one before; a full socket
\* drops the message.  Neither adds a reset.
LEMMA SentResets ==
  ASSUME LinkTypeOK, NEW m \in Item
  PROVE  Cardinality(ResetsIn(Sent(m)))
           <= Cardinality(ResetsIn(link)) + One(m = "reset")
  <1>a. Cardinality(ResetsIn(link)) \in Nat
    BY ResetsFinite DEF LinkTypeOK
  <1>1. CASE ~sockUp
    <2>1. ResetsIn(<<"accept", m>>) = IF m = "reset" THEN {2} ELSE {}
      <3>1. /\ Len(<<"accept", m>>) = 2 /\ 1..2 = {1, 2}
            /\ <<"accept", m>>[1] = "accept" /\ <<"accept", m>>[2] = m
        OBVIOUS
      <3> QED BY <3>1 DEF ResetsIn
    <2>2. Cardinality(ResetsIn(<<"accept", m>>)) = One(m = "reset")
      BY <2>1, FS_EmptySet, FS_Singleton DEF One
    <2> QED BY <1>1, <1>a, <2>2 DEF Sent, One
  <1>2. CASE sockUp /\ Len(link) < LinkCap
    BY <1>2, <1>a, AppendResets DEF Sent, LinkTypeOK, One
  <1>3. CASE sockUp /\ ~(Len(link) < LinkCap)
    BY <1>3, <1>a DEF Sent, One
  <1> QED BY <1>1, <1>2, <1>3

\* The gateway puts a reset on the socket only when an operator asked for one.
LEMMA GatewayResets ==
  ASSUME LinkTypeOK, GatewayNext
  PROVE  Cardinality(ResetsIn(link'))
           <= Cardinality(ResetsIn(link)) + One(cmdPc' = "resetting" /\ cmdPc = "idle")
  <1> DEFINE Before == Cardinality(ResetsIn(link))
             Asked == cmdPc' = "resetting" /\ cmdPc = "idle"
  <1>a. /\ "down" \in Item /\ "reset" \in Item /\ "eof" \in Item /\ "up" \in Item
        /\ Before \in Nat /\ One(Asked) \in {0, 1}
    BY ResetsFinite DEF Item, LinkTypeOK, One
  <1>b. One("up" = "reset") = 0 /\ One("down" = "reset") = 0 /\ One("eof" = "reset") = 0
    BY DEF One
  <1>1. CASE UNCHANGED link
    <2>1. Cardinality(ResetsIn(link')) = Before
      BY <1>1
    <2> QED BY <1>a, <2>1
  <1>2. CASE Send("up") \/ Send("down")
    <2>1. Cardinality(ResetsIn(link')) <= Before + 0
      BY <1>2, <1>a, <1>b, SentResets DEF Send
    <2>2. Cardinality(ResetsIn(link')) \in Nat
      <3>1. link' \in Seq(Item)
        BY <1>2, <1>a, SentType DEF Send, LinkTypeOK
      <3> QED BY <3>1, ResetsFinite
    <2> QED BY <1>a, <2>1, <2>2
  <1>3. CASE EstopResetBegin
    <2>1. One(Asked) = 1 /\ One("reset" = "reset") = 1 /\ link' = Sent("reset")
      BY <1>3 DEF EstopResetBegin, One, Send
    <2> QED BY <1>a, <2>1, SentResets
  <1>4. CASE GatewayCrash
    <2>1. Cardinality(ResetsIn(link')) = Before
      <3>1. CASE sockUp
        <4>1. Cardinality(ResetsIn(Append(link, "eof"))) = Before + 0
          BY <1>a, <1>b, AppendResets DEF LinkTypeOK
        <4> QED BY <1>4, <1>a, <3>1, <4>1 DEF GatewayCrash
      <3>2. CASE ~sockUp
        BY <1>4, <3>2 DEF GatewayCrash
      <3> QED BY <3>1, <3>2
    <2> QED BY <1>a, <2>1
  <1>5. CASE GatewayShutdown
    <2>1. Sent("down") \in Seq(Item)
      BY <1>a, SentType DEF LinkTypeOK
    <2>2. Cardinality(ResetsIn(link')) = Cardinality(ResetsIn(Sent("down"))) + 0
      BY <1>5, <1>a, <1>b, <2>1, AppendResets DEF GatewayShutdown
    <2>3. Cardinality(ResetsIn(Sent("down"))) <= Before + 0
      BY <1>a, <1>b, SentResets
    <2>4. Cardinality(ResetsIn(Sent("down"))) \in Nat
      BY <2>1, ResetsFinite
    <2> QED BY <1>a, <2>2, <2>3, <2>4
  <1> HIDE DEF Before, Asked
  <1> QED
    BY <1>1, <1>2, <1>3, <1>4, <1>5
       DEF GatewayNext, linkVars, HeartbeatLoop, DisconnectGrace, ClientConnect,
           ClientDrop, FinallyEpilogue, EstopBegin, EstopFinish, EstopResetFinish,
           GatewayFreeze, GatewayThaw, GatewayStart

Unseen == One(resetOut /\ ~lastReset)

ResetsAreCredited ==
  credit \in 0..MaxResets /\ Cardinality(ResetsIn(link)) + Unseen <= credit

CreditInv == TypeOK /\ ResetsAreCredited

LEMMA CreditInit == HistoryInit => CreditInv
  <1> SUFFICES ASSUME HistoryInit PROVE CreditInv
    OBVIOUS
  <1>1. TypeOK
    BY TypeInit DEF HistoryInit
  <1>2. ResetsIn(link) = {} /\ Unseen = 0 /\ credit = 0
    BY DEF HistoryInit, Init, ResetsIn, Unseen, One
  <1> QED BY <1>1, <1>2, FS_EmptySet, HistoryAssumption DEF CreditInv, ResetsAreCredited

\* The servo thread sees an edge once, and releases the latch on an edge only.
LEMMA ServoReleases ==
  ASSUME TypeOK, ServoCycle
  PROVE  /\ Unseen' = 0 /\ Unseen \in {0, 1}
         /\ latchOk' /\ ~latchOk => Unseen = 1
  BY DEF ServoCycle, LatchNext, Unseen, One, pinVars

LEMMA CreditStep == CreditInv /\ [HistoryNext]_histVars => CreditInv'
  <1> SUFFICES ASSUME CreditInv, [HistoryNext]_histVars PROVE ResetsAreCredited'
    BY TypeStep, HistoryStep DEF CreditInv, histVars
  <1> DEFINE Before == Cardinality(ResetsIn(link))
             After  == Cardinality(ResetsIn(link'))
  <1>a. /\ LinkTypeOK /\ Before \in Nat /\ Unseen \in {0, 1}
        /\ credit \in Nat /\ MaxResets \in Nat /\ credit <= MaxResets
        /\ Before + Unseen <= credit
    BY TypeParts, ResetsFinite, HistoryAssumption
       DEF CreditInv, LinkTypeOK, ResetsAreCredited, Unseen, One
  <1>b. After \in Nat /\ Unseen' \in {0, 1}
    <2>1. TypeOK'
      BY TypeStep, HistoryStep DEF CreditInv, histVars
    <2> QED BY <2>1, ResetsFinite DEF TypeOK, Unseen, One
  <1> USE DEF linkVars, pinVars, servoVars
  <1>1. CASE GatewayNext /\ credit' <= MaxResets
             /\ credit' = credit + One(cmdPc' = "resetting" /\ cmdPc = "idle")
    <2>1. Unseen' = Unseen
      BY <1>1, GatewayOnly DEF Unseen, One
    <2>2. /\ After <= Before + One(cmdPc' = "resetting" /\ cmdPc = "idle")
          /\ One(cmdPc' = "resetting" /\ cmdPc = "idle") \in {0, 1}
      BY <1>1, <1>a, GatewayResets DEF One
    <2> QED BY <1>1, <1>a, <1>b, <2>1, <2>2 DEF ResetsAreCredited
  <1>2. CASE WdRecv /\ NoReset
    <2>1. Before = After + One(Head(link) = "reset")
      BY <1>2, <1>a, TailResets DEF WdRecv, LinkTypeOK
    <2>2. Unseen' <= Unseen + One(Head(link) = "reset")
      <3>1. CASE Head(link) = "reset"
        BY <1>a, <1>b, <3>1 DEF One
      <3>2. CASE Head(link) # "reset"
        BY <1>2, <3>2 DEF WdRecv, Unseen, One
      <3> QED BY <3>1, <3>2
    <2>3. One(Head(link) = "reset") \in {0, 1}
      BY DEF One
    <2> QED BY <1>2, <1>a, <1>b, <2>1, <2>2, <2>3 DEF ResetsAreCredited, NoReset
  <1>3. CASE /\ WdLoop \/ WdDropPulse \/ WdHang \/ WdResume \/ TaskObserve \/ Tick
             /\ NoReset
    <2>1. After = Before /\ Unseen' <= Unseen
      BY <1>3 DEF WdLoop, WdDropPulse, WdHang, WdResume, TaskObserve, Tick, Unseen, One
    <2> QED BY <1>3, <1>a, <1>b, <2>1 DEF ResetsAreCredited, NoReset
  <1>4. CASE ServoCycle /\ credit' = credit - One(latchOk' /\ ~latchOk)
    <2>1. After = Before
      BY <1>4 DEF ServoCycle
    <2>2. Unseen' = 0 /\ One(latchOk' /\ ~latchOk) <= Unseen
          /\ One(latchOk' /\ ~latchOk) \in {0, 1}
      BY <1>4, ServoReleases DEF CreditInv, One
    <2> QED BY <1>4, <1>a, <1>b, <2>1, <2>2 DEF ResetsAreCredited
  <1>5. CASE UNCHANGED histVars
    <2>1. After = Before /\ Unseen' = Unseen /\ credit' = credit
      BY <1>5 DEF histVars, vars, Unseen, One
    <2> QED BY <1>a, <2>1 DEF ResetsAreCredited
  <1> HIDE DEF Before, After
  <1> QED
    BY <1>1, <1>2, <1>3, <1>4, <1>5 DEF HistoryNext, WatchdogNext, One

(***************************************************************************)
(* The refinement, step by step: only a command of the operator and a      *)
(* servo cycle are steps of the promise.                                   *)
(***************************************************************************)
LEMMA GatewayKeepsPromise ==
  ASSUME CreditInv, GatewayNext,
         credit' = credit + (IF cmdPc' = "resetting" /\ cmdPc = "idle" THEN 1 ELSE 0)
  PROVE  Promise!Next \/ UNCHANGED Promise!vars
  <1>1. UNCHANGED <<osOut, latchOk, emcEnable>> /\ credit \in Nat
    BY GatewayOnly DEF servoVars, CreditInv, ResetsAreCredited
  <1>2. CASE cmdPc' = "resetting" /\ cmdPc = "idle"
    <2>1. Promise!OperatorReset
      BY <1>1, <1>2 DEF Promise!OperatorReset
    <2> QED BY <2>1 DEF Promise!Next
  <1>3. CASE ~(cmdPc' = "resetting" /\ cmdPc = "idle")
    BY <1>1, <1>3 DEF Promise!vars
  <1> QED BY <1>2, <1>3

LEMMA ServoKeepsPromise ==
  ASSUME CreditInv, ServoCycle,
         credit' = credit - (IF latchOk' /\ ~latchOk THEN 1 ELSE 0)
  PROVE  Promise!Next
  <1>1. /\ credit \in Nat /\ osOut' \in BOOLEAN /\ latchOk \in BOOLEAN
        /\ latchOk' \in BOOLEAN /\ emcEnable' \in BOOLEAN
    BY FlagStep DEF CreditInv, ResetsAreCredited, TypeOK, FlagTypeOK, Next
  <1>2. CASE ~osOut'
    <2>1. ~latchOk' /\ ~emcEnable'
      BY <1>2 DEF ServoCycle, LatchNext, ChainClosed
    <2>2. Promise!Dead
      BY <1>1, <1>2, <2>1 DEF Promise!Dead
    <2> QED BY <2>2 DEF Promise!Next
  <1>3. CASE osOut' /\ (latchOk' <=> latchOk)
    <2>1. emcEnable' => latchOk
      BY DEF ServoCycle
    <2>2. emcEnable' \in {FALSE, ~(~latchOk)}
      <3>1. \A e, b \in BOOLEAN : (e => b) => e \in {FALSE, ~(~b)}
        BY Zenon
      <3> QED BY <1>1, <2>1, <3>1, Zenon
    <2>3. latchOk' = latchOk /\ credit' = credit
      <3>1. \A b, c \in BOOLEAN : (b <=> c) => b = c
        BY Zenon
      <3> QED BY <1>1, <1>3, <3>1
    <2>4. Promise!Alive
      BY <1>3, <2>2, <2>3 DEF Promise!Alive
    <2> QED BY <2>4 DEF Promise!Next
  <1>4. CASE osOut' /\ ~(latchOk' <=> latchOk)
    <2>1. latchOk' /\ ~latchOk /\ ~emcEnable'
      BY <1>4 DEF ServoCycle, LatchNext
    <2>2. credit > 0
      <3>1. Unseen = 1
        BY <2>1, ServoReleases DEF CreditInv
      <3>2. Cardinality(ResetsIn(link)) \in Nat
        BY ResetsFinite DEF CreditInv, TypeOK
      <3> QED BY <1>1, <3>1, <3>2 DEF CreditInv, ResetsAreCredited
    <2>3. Promise!Release
      BY <1>1, <1>4, <2>1, <2>2 DEF Promise!Release
    <2> QED BY <2>3 DEF Promise!Next
  <1> QED BY <1>2, <1>3, <1>4

LEMMA PromiseStep ==
  CreditInv /\ [HistoryNext]_histVars => [Promise!Next]_(Promise!vars)
  <1> SUFFICES ASSUME CreditInv, [HistoryNext]_histVars
               PROVE  Promise!Next \/ UNCHANGED Promise!vars
    OBVIOUS
  <1>1. CASE /\ GatewayNext
             /\ credit' = credit + (IF cmdPc' = "resetting" /\ cmdPc = "idle"
                                    THEN 1 ELSE 0)
    BY <1>1, GatewayKeepsPromise
  <1>2. CASE ServoCycle /\ credit' = credit - (IF latchOk' /\ ~latchOk THEN 1 ELSE 0)
    BY <1>2, ServoKeepsPromise
  <1>3. CASE (WatchdogNext \/ TaskObserve \/ Tick) /\ NoReset
    BY <1>3 DEF WatchdogNext, WdLoop, WdRecv, WdDropPulse, WdHang, WdResume,
                TaskObserve, Tick, NoReset, servoVars, Promise!vars
  <1>4. CASE UNCHANGED histVars
    BY <1>4 DEF histVars, vars, servoVars, Promise!vars
  <1> QED BY <1>1, <1>2, <1>3, <1>4 DEF HistoryNext

(***************************************************************************)
(* The chain of processes implements the abstract trip latch, watchdog     *)
(* hangs included: no enable without heartbeat and latch, no release       *)
(* without an operator's reset, and no second release from the same one.   *)
(***************************************************************************)
THEOREM ChainKeepsPromise == HistorySpec => ImplementsTripLatch
  <1>1. HistoryInit => Promise!Init
    BY DEF HistoryInit, Init, Promise!Init
  <1> QED BY <1>1, CreditInit, CreditStep, PromiseStep, PTL
          DEF HistorySpec, ImplementsTripLatch, Promise!Spec

(***************************************************************************)
(* While the heartbeat is beating, the last edge was made in this tick or  *)
(* the one before: the servo thread has yet to see it, or it has set the   *)
(* oneshot and at most one tick has gone since.                            *)
(***************************************************************************)
BeatInv ==
  /\ beating => connected
  /\ beating => heartbeat # lastHb \/ osLeft >= (IF wdDue THEN Width - 1 ELSE Width)

LEMMA Toggle == \A b \in BOOLEAN : (~b) # b
  BY Zenon

LEMMA BeatStep ==
  ASSUME FeedInv, BeatInv, [HistoryNext]_histVars
  PROVE  BeatInv'
  <1>a. TypeOK /\ CountTypeOK
    BY TypeParts DEF FeedInv
  <1>b. heartbeat \in BOOLEAN
    BY <1>a DEF TypeOK, FlagTypeOK
  <1> USE DEF BeatInv, linkVars, wdVars, pinVars, servoVars
  <1>1. CASE UNCHANGED <<wdDue, connected, heartbeat, osLeft, lastHb, beating>>
    BY <1>1
  <1>2. CASE WdLoop /\ Beats
    <2>1. UNCHANGED <<osLeft, lastHb>>
      BY <1>2 DEF WdLoop
    <2>2. CASE WdFresh /\ UNCHANGED <<heartbeat, wdDue>>
      <3>1. connected' = TRUE
        BY <2>2 DEF WdFresh
      <3>2. beating' => beating
        BY <1>2, <2>2 DEF Beats
      <3> QED BY <2>1, <2>2, <3>1, <3>2
    <2>3. CASE WdFresh /\ lastHb = heartbeat /\ heartbeat' = ~heartbeat
      <3>1. connected' = TRUE
        BY <2>3 DEF WdFresh
      <3>2. heartbeat' # lastHb'
        BY <1>b, <2>1, <2>3, Toggle
      <3> QED BY <3>1, <3>2
    <2>4. CASE WdStale
      <3>1. connected' = (connected /\ ~requested)
        BY <2>4 DEF WdStale
      <3>2. ~connected'
        BY <3>1, Zenon DEF FeedInv, ConnectedOnRequest
      <3> QED BY <1>2, <3>2 DEF Beats
    <2> QED BY <1>2, <2>2, <2>3, <2>4 DEF WdLoop, WdFresh
  <1>3. CASE WdRecv /\ Beats
    <2>1. CASE PinsLow
      BY <1>3, <2>1 DEF PinsLow, Beats
    <2>2. CASE UNCHANGED <<connected, heartbeat, wdDue>>
      BY <1>3, <2>2 DEF WdRecv, Beats
    <2> QED BY <1>3, <2>1, <2>2 DEF WdRecv
  <1>4. CASE (WdDropPulse \/ WdHang \/ WdResume) /\ Beats
    <2>1. UNCHANGED <<wdDue, connected, heartbeat, osLeft, lastHb>>
      BY <1>4 DEF WdDropPulse, WdHang, WdResume
    <2>2. beating' => beating
      BY <1>4, <2>1 DEF Beats
    <2> QED BY <2>1, <2>2
  <1>5. CASE ServoCycle /\ NoBeat
    <2>1. UNCHANGED <<wdDue, connected, heartbeat, beating>>
      BY <1>5 DEF ServoCycle, NoBeat
    <2>2. osLeft' = IF heartbeat # lastHb THEN Width ELSE osLeft
      BY <1>5 DEF ServoCycle, OneshotLeft
    <2>3. beating => osLeft' >= (IF wdDue THEN Width - 1 ELSE Width)
      BY <1>a, <2>2, ChainAssumption DEF CountTypeOK
    <2> QED BY <2>1, <2>3
  <1>6. CASE Tick /\ BeatOn
    <2>1. /\ UNCHANGED <<connected, heartbeat, lastHb>>
          /\ wdDue' = TRUE
          /\ osLeft' = IF osLeft > 0 THEN osLeft - 1 ELSE 0
      BY <1>6 DEF Tick
    <2>2. beating' => beating /\ ~wdDue
      BY <1>6 DEF BeatOn
    <2>3. beating' => heartbeat # lastHb \/ osLeft' >= Width - 1
      BY <1>a, <2>1, <2>2, ChainAssumption DEF CountTypeOK
    <2> QED BY <2>1, <2>2, <2>3
  <1>7. CASE (GatewayNext \/ TaskObserve) /\ NoBeat
    BY <1>1, <1>7, GatewayOnly DEF TaskObserve, NoBeat
  <1>8. CASE UNCHANGED histVars
    BY <1>1, <1>8 DEF histVars, vars
  <1> QED
    BY <1>2, <1>3, <1>4, <1>5, <1>6, <1>7, <1>8 DEF HistoryNext, WatchdogNext

(***************************************************************************)
(* From the first edge after connected was asserted on, a watchdog that is *)
(* scheduled never lets the oneshot expire before it lowers connected.     *)
(***************************************************************************)
THEOREM NeverSpurious == HistorySpec => []NoSpuriousTrip
  <1> DEFINE Inv == FeedInv /\ BeatInv
  <1>1. HistoryInit => Inv
    BY FeedInit DEF HistoryInit, BeatInv
  <1>2. Inv /\ [HistoryNext]_histVars => Inv'
    <2> SUFFICES ASSUME Inv, [HistoryNext]_histVars PROVE Inv'
      OBVIOUS
    <2>1. [Next]_vars
      BY HistoryStep DEF histVars
    <2>2. FeedInv'
      BY <2>1, FeedStep, TypeStep DEF FeedInv
    <2> QED BY <2>2, BeatStep
  <1>3. Inv => NoSpuriousTrip
    <2> SUFFICES ASSUME Inv, beating PROVE osLeft > 0 \/ heartbeat # lastHb
      BY DEF NoSpuriousTrip
    <2>1. CountTypeOK
      BY TypeParts DEF FeedInv
    <2> QED BY <2>1, ChainAssumption DEF BeatInv, CountTypeOK
  <1> QED BY <1>1, <1>2, <1>3, PTL DEF HistorySpec

(***************************************************************************)
(* The history is well typed.  In particular the credit never falls below  *)
(* zero: no release of the latch was not paid for.                         *)
(***************************************************************************)
THEOREM HistoryTypeCorrect == HistorySpec => []HistoryTypeOK
  <1> DEFINE Marks == silent \in 0..Horizon /\ away \in 0..Horizon /\ beating \in BOOLEAN
  <1>1. HistoryInit => Marks
    <2>1. HistoryInit => silent \in 0..Horizon /\ away \in 0..Horizon
      BY HistoryAssumption DEF HistoryInit
    <2>2. HistoryInit => beating \in BOOLEAN
      BY Flags DEF HistoryInit
    <2> QED BY <2>1, <2>2
  <1>2. Marks /\ [HistoryNext]_histVars => Marks'
    <2>1. Marks /\ [HistoryNext]_histVars => silent' \in 0..Horizon /\ away' \in 0..Horizon
      BY HistoryAssumption DEF HistoryNext, histVars, Untimed, Later
    <2>2. Marks /\ [HistoryNext]_histVars => beating' = TRUE \/ beating' = FALSE
      BY Zenon DEF HistoryNext, histVars, Beats, BeatOn, NoBeat
    <2> QED BY <2>1, <2>2, Flags
  <1>3. CreditInv /\ Marks => HistoryTypeOK
    BY DEF CreditInv, ResetsAreCredited, HistoryTypeOK
  <1> QED BY <1>1, <1>2, <1>3, CreditInit, CreditStep, PTL DEF HistorySpec
=============================================================================
