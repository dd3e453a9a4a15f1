-------------------------- MODULE StatusFanoutProofs --------------------------
(***************************************************************************)
(* Proofs about the status fan-out, for every set of clients and fields    *)
(* and every limit: it is well typed, the deltas never drift from what the *)
(* page shows, and a page's configuration is that of the LinuxCNC the      *)
(* gateway is attached to.                                                 *)
(***************************************************************************)
EXTENDS MCFanout, TLAPS

\* Records whose errors are among the first e.
FrameOf(e) == [full : BOOLEAN, data : Sample, changed : SUBSET Field,
               errs : SUBSET (1..e), init : Instance]
LoopOf(e) == [pc : {"off", "wait", "init", "send", "dead"}, base : Sample,
              n : 0..FullEvery, init : BOOLEAN, fails : 0..MaxLoopFails,
              frame : FrameOf(e)]
PollOf(e) == [pc : {"idle", "errors", "publish"}, data : Sample, errs : SUBSET (1..e),
              fails : 0..(MaxPollFails - 1)]
SharedOf(e) == [data : Sample, errs : SUBSET (1..e)]

LEMMA RecordsGrow ==
  ASSUME NEW d \in Nat, NEW e \in Nat, d <= e
  PROVE  /\ FrameOf(d) \subseteq FrameOf(e) /\ LoopOf(d) \subseteq LoopOf(e)
         /\ PollOf(d) \subseteq PollOf(e) /\ SharedOf(d) \subseteq SharedOf(e)
         /\ SUBSET (1..d) \subseteq SUBSET (1..e)
  <1>1. 1..d \subseteq 1..e
    OBVIOUS
  <1>2. SUBSET (1..d) \subseteq SUBSET (1..e)
    BY <1>1
  <1>3. FrameOf(d) \subseteq FrameOf(e)
    BY <1>2 DEF FrameOf
  <1>4. LoopOf(d) \subseteq LoopOf(e)
    BY <1>3 DEF LoopOf
  <1>5. PollOf(d) \subseteq PollOf(e) /\ SharedOf(d) \subseteq SharedOf(e)
    BY <1>2 DEF PollOf, SharedOf
  <1> QED BY <1>2, <1>3, <1>4, <1>5

LEMMA SampleIsPage == Unknown \in Sample /\ Sample \subseteq [Field -> 0..2]
  BY DEF Sample, Unknown, Data

LEMMA NoLoopType ==
  ASSUME NEW e \in Nat
  PROVE  NoFrame \in FrameOf(e) /\ NoLoop \in LoopOf(e) /\ NoPoll \in PollOf(e)
  <1>1. 0 \in Instance /\ Unknown \in Sample
    BY SampleIsPage, FanoutAssumption DEF Instance
  <1>2. NoFrame \in FrameOf(e)
    BY <1>1 DEF NoFrame, FrameOf
  <1>3. NoLoop \in LoopOf(e)
    BY <1>1, <1>2, FanoutAssumption DEF NoLoop, LoopOf
  <1>4. NoPoll \in PollOf(e)
    BY <1>1, FanoutAssumption DEF NoPoll, PollOf
  <1> QED BY <1>2, <1>3, <1>4

\* What the delta encoding makes of a loop's record: the new baseline is the
\* shared data, and every field that is not in the frame was the same in the
\* old one.
LEMMA BuiltFacts ==
  ASSUME NEW e, NEW l \in LoopOf(e), shared \in SharedOf(e)
  PROVE  /\ Built(l) \in LoopOf(e)
         /\ Built(l).pc = "send" /\ Built(l).base = shared.data
         /\ Built(l).init = l.init /\ Built(l).fails = l.fails
         /\ Built(l).frame.data = shared.data
         /\ IF Built(l).frame.full THEN Built(l).frame.changed = Field
            ELSE /\ l.base # Unknown
                 /\ \A f \in Field \ Built(l).frame.changed : l.base[f] = shared.data[f]
  <1> DEFINE full == l.base = Unknown \/ l.n >= FullEvery
             frame == [full |-> full, data |-> shared.data,
                       changed |-> IF full THEN Field ELSE Changed(l.base, shared.data),
                       errs |-> shared.errs, init |-> 0]
             count == IF full THEN 0 ELSE l.n + 1
  <1>1. /\ Built(l).pc = "send" /\ Built(l).base = shared.data
        /\ Built(l).init = l.init /\ Built(l).fails = l.fails
        /\ Built(l).n = count /\ Built(l).frame = frame
        /\ Built(l) = [pc |-> "send", base |-> shared.data, n |-> count, init |-> l.init,
                       fails |-> l.fails, frame |-> frame]
    <2>1. Built(l) = [l EXCEPT !.pc = "send", !.base = shared.data, !.n = count,
                               !.frame = frame]
      BY DEF Built
    <2> HIDE DEF full, frame, count
    <2>2. l = [pc |-> l.pc, base |-> l.base, n |-> l.n, init |-> l.init,
               fails |-> l.fails, frame |-> l.frame]
      BY DEF LoopOf
    <2> QED BY <2>1, <2>2
  <1>2. count \in 0..FullEvery
    BY FanoutAssumption DEF LoopOf
  <1>3. frame \in FrameOf(e)
    <2>1. full \in BOOLEAN
      BY Zenon
    <2>2. (IF full THEN Field ELSE Changed(l.base, shared.data)) \in SUBSET Field
      BY DEF Changed
    <2>3. 0 \in Instance /\ shared.data \in Sample /\ shared.errs \in SUBSET (1..e)
      BY FanoutAssumption DEF Instance, SharedOf
    <2> HIDE DEF full
    <2> QED BY <2>1, <2>2, <2>3 DEF FrameOf
  <1>4. Built(l) \in LoopOf(e)
    <2> HIDE DEF count, frame
    <2> QED BY <1>1, <1>2, <1>3 DEF LoopOf, SharedOf
  <1>5. IF full THEN frame.changed = Field
        ELSE /\ l.base # Unknown
             /\ \A f \in Field \ frame.changed : l.base[f] = shared.data[f]
    BY DEF Changed
  <1>6. frame.full = full /\ frame.data = shared.data
    OBVIOUS
  <1> HIDE DEF full, frame, count
  <1> QED BY <1>1, <1>4, <1>5, <1>6

(***************************************************************************)
(* Type correctness.  What makes it inductive: an error that is anywhere   *)
(* on its way has occurred, and the link flag and the STAT object go       *)
(* together.                                                               *)
(***************************************************************************)
CountOK == ops \in 0..MaxOps /\ occurred \in Nat /\ occurred <= ops

LcncOK == machine \in Data /\ instance \in Instance /\ queue \subseteq 1..occurred

LinkOK ==
  linked \in BOOLEAN /\ stat \in Instance /\ pid \in Instance /\ (linked <=> stat # 0)

PollOK == poll \in PollOf(occurred) /\ shared \in SharedOf(occurred)

LoopOK ==
  /\ loop \in [Client -> LoopOf(occurred)]
  /\ \A c \in Client : loop[c].pc = "dead" <=> loop[c].fails = MaxLoopFails

ClientsOK == seen \subseteq Client /\ hidden \subseteq Connected /\ closing \subseteq Connected

PagesOK ==
  /\ page \in [Client -> [Field -> 0..2]] /\ config \in [Client -> Instance]
  /\ log \in [Client -> SUBSET (1..occurred)]

TypeInv == CountOK /\ LcncOK /\ LinkOK /\ PollOK /\ LoopOK /\ ClientsOK /\ PagesOK

LEMMA TypeInvTypes == TypeInv => TypeOK
  <1> SUFFICES ASSUME TypeInv PROVE TypeOK
    OBVIOUS
  <1>a. occurred \in Nat /\ MaxOps \in Nat /\ occurred <= MaxOps
    BY FanoutAssumption DEF TypeInv, CountOK
  <1>b. /\ FrameOf(occurred) \subseteq FrameOf(MaxOps)
        /\ LoopOf(occurred) \subseteq LoopOf(MaxOps)
        /\ PollOf(occurred) \subseteq PollOf(MaxOps)
        /\ SharedOf(occurred) \subseteq SharedOf(MaxOps)
    BY <1>a, RecordsGrow
  <1>1. poll \in [pc : {"idle", "errors", "publish"}, data : Sample, errs : SUBSET Error,
                  fails : 0..(MaxPollFails - 1)]
    BY <1>b DEF TypeInv, PollOK, PollOf, Error
  <1>2. shared \in [data : Sample, errs : SUBSET Error]
    BY <1>b DEF TypeInv, PollOK, SharedOf, Error
  <1>3. loop \in [Client -> [pc : {"off", "wait", "init", "send", "dead"}, base : Sample,
                             n : 0..FullEvery, init : BOOLEAN, fails : 0..MaxLoopFails,
                             frame : Frame]]
    <2>1. FrameOf(MaxOps) = Frame
      BY DEF FrameOf, Frame, Error
    <2> QED BY <1>b, <2>1 DEF TypeInv, LoopOK, LoopOf
  <1> QED BY <1>a, <1>1, <1>2, <1>3
          DEF TypeOK, TypeInv, CountOK, LcncOK, LinkOK, LoopOK, ClientsOK, PagesOK

LEMMA FanoutTypeInit == Init => TypeInv
  <1> SUFFICES ASSUME Init PROVE TypeInv
    OBVIOUS
  <1> USE FanoutAssumption DEF Init
  <1>1. CountOK /\ LcncOK
    BY DEF CountOK, LcncOK, Data, Instance
  <1>2. LinkOK
    <2>1. linked \in BOOLEAN
      BY Zenon
    <2> QED BY <2>1 DEF LinkOK, Instance
  <1>3. PollOK
    BY NoLoopType, SampleIsPage DEF PollOK, SharedOf
  <1>4. LoopOK
    <2>1. NoLoop \in LoopOf(0) /\ NoLoop.pc = "off" /\ NoLoop.fails = 0
      BY NoLoopType DEF NoLoop
    <2> QED BY <2>1 DEF LoopOK
  <1>5. ClientsOK
    BY DEF ClientsOK
  <1>6. PagesOK
    BY SampleIsPage DEF PagesOK, Instance
  <1> QED BY <1>1, <1>2, <1>3, <1>4, <1>5, <1>6 DEF TypeInv

LEMMA FanoutCountStep ==
  ASSUME TypeInv, [Next]_vars
  PROVE  CountOK' /\ occurred' \in Nat /\ occurred <= occurred'
  <1>a. ops \in 0..MaxOps /\ MaxOps \in Nat /\ occurred \in Nat /\ occurred <= ops
    BY FanoutAssumption DEF TypeInv, CountOK
  <1>1. CASE UNCHANGED <<ops, occurred>>
    BY <1>1, <1>a DEF CountOK
  <1>2. CASE Operate /\ occurred' \in {occurred, occurred + 1}
    BY <1>2, <1>a DEF Operate, CountOK
  <1> QED
    BY <1>1, <1>2
       DEF Next, vars, lcncVars, MachineMoves, MachineError, MachineRestarts, Poller,
           PollerConnects, PollerChecksPid, PollRead, PollFails, PollErrors, Publish,
           Accept, Gone, TabVisibility, Loop, LinkLost, Tick, InitSent, InitRaises, Sent,
           SendTimesOut, SendRaises

LEMMA FanoutLcncStep ==
  ASSUME TypeInv, [Next]_vars
  PROVE  LcncOK'
  <1>a. /\ occurred \in Nat /\ occurred' \in Nat /\ occurred <= occurred'
        /\ SUBSET (1..occurred) \subseteq SUBSET (1..occurred')
        /\ LcncOK
    BY FanoutCountStep, RecordsGrow DEF TypeInv, CountOK
  <1>1. CASE UNCHANGED lcncVars
    BY <1>1, <1>a DEF lcncVars, LcncOK
  <1>2. CASE MachineMoves
    BY <1>2, <1>a DEF MachineMoves, LcncOK, Data
  <1>3. CASE MachineError
    BY <1>3, <1>a DEF MachineError, LcncOK
  <1>4. CASE MachineRestarts
    <2>1. {0, ops + 2} \subseteq Instance
      BY <1>4, FanoutAssumption DEF MachineRestarts, Operate, Instance, TypeInv, CountOK
    <2> QED BY <1>4, <1>a, <2>1 DEF MachineRestarts, LcncOK
  <1>5. CASE PollErrors
    BY <1>5, <1>a DEF PollErrors, LcncOK
  <1> QED
    BY <1>1, <1>2, <1>3, <1>4, <1>5
       DEF Next, vars, Poller, PollerConnects, PollerChecksPid, PollRead, PollFails, Publish,
           Accept, Gone, TabVisibility, Loop, LinkLost, Tick, InitSent, InitRaises, Sent,
           SendTimesOut, SendRaises

(***************************************************************************)
(* What a step can do to the link: nothing, lose it, or attach to another  *)
(* LinuxCNC.                                                               *)
(***************************************************************************)
LEMMA LinkStep ==
  ASSUME TypeInv, [Next]_vars
  PROVE  /\ LinkOK'
         /\ (stat' = stat /\ linked' = linked) \/ ~linked' \/ stat' \notin {0, stat}
  <1>a. LinkOK /\ instance \in Instance /\ 0 \in Instance
    BY FanoutAssumption DEF TypeInv, LcncOK, Instance
  <1>1. CASE UNCHANGED linkVars
    BY <1>1, <1>a DEF linkVars, LinkOK
  <1>2. ASSUME Attach
        PROVE  /\ LinkOK'
               /\ (stat' = stat /\ linked' = linked) \/ ~linked' \/ stat' \notin {0, stat}
    BY <1>2, <1>a DEF Attach, LinkOK
  <1>3. CASE PollerChecksPid
    <2>1. CASE linked' = FALSE /\ stat' = 0 /\ pid' = 0
      BY <1>a, <2>1 DEF LinkOK
    <2>2. CASE pid' = instance /\ UNCHANGED <<linked, stat>>
      BY <1>a, <2>2 DEF LinkOK
    <2> QED BY <1>2, <1>3, <2>1, <2>2 DEF PollerChecksPid
  <1>4. CASE PollFails
    BY <1>4, <1>a DEF PollFails, LinkOK, linkVars
  <1>5. CASE PollerConnects \/ \E c \in Client : Accept(c)
    BY <1>1, <1>2, <1>5 DEF PollerConnects, Accept
  <1> QED
    BY <1>1, <1>3, <1>4, <1>5
       DEF Next, vars, Poller, MachineMoves, MachineError, MachineRestarts, PollRead,
           PollErrors, Publish, Gone, TabVisibility, Loop, LinkLost, Tick, InitSent,
           InitRaises, Sent,
           SendTimesOut, SendRaises

LEMMA PollStep ==
  ASSUME TypeInv, [Next]_vars
  PROVE  PollOK'
  <1>a. /\ occurred \in Nat /\ occurred' \in Nat /\ occurred <= occurred'
        /\ PollOf(occurred) \subseteq PollOf(occurred')
        /\ SharedOf(occurred) \subseteq SharedOf(occurred')
        /\ SUBSET (1..occurred) \subseteq SUBSET (1..occurred')
    BY FanoutCountStep, RecordsGrow DEF TypeInv, CountOK
  <1>b. /\ poll \in PollOf(occurred') /\ shared \in SharedOf(occurred')
        /\ queue \in SUBSET (1..occurred') /\ machine \in Sample
        /\ poll.fails \in 0..(MaxPollFails - 1)
    BY <1>a DEF TypeInv, PollOK, LcncOK, Sample, PollOf
  <1>1. CASE UNCHANGED <<poll, shared>>
    BY <1>1, <1>b DEF PollOK
  <1>2. CASE PollerConnects \/ PollFails
    BY <1>2, <1>b, FanoutAssumption DEF PollerConnects, PollFails, PollOK, PollOf
  <1>3. CASE PollRead
    BY <1>3, <1>b DEF PollRead, PollOK, PollOf
  <1>4. CASE PollErrors
    BY <1>4, <1>b DEF PollErrors, PollOK, PollOf
  <1>5. CASE Publish
    <2>1. NoPoll \in PollOf(occurred')
      BY <1>a, NoLoopType
    <2>2. [data |-> poll.data, errs |-> poll.errs] \in SharedOf(occurred')
      BY <1>b DEF PollOf, SharedOf
    <2> QED BY <1>5, <2>1, <2>2 DEF Publish, PollOK
  <1> QED
    BY <1>1, <1>2, <1>3, <1>4, <1>5
       DEF Next, vars, Poller, MachineMoves, MachineError, MachineRestarts, PollerChecksPid,
           Accept, Gone, TabVisibility, Loop, LinkLost, Tick, InitSent, InitRaises, Sent,
           SendTimesOut, SendRaises

(***************************************************************************)
(* What each action of a status_loop makes of its record; no action of one *)
(* client touches another's.                                               *)
(***************************************************************************)
LEMMA AfterFacts ==
  ASSUME NEW e \in Nat, loop \in [Client -> LoopOf(e)], NEW c \in Client,
         NEW fails \in 0..MaxLoopFails, After(c, fails)
  PROVE  /\ loop' \in [Client -> LoopOf(e)]
         /\ \A d \in Client : d # c => loop'[d] = loop[d]
         /\ loop'[c].pc = IF fails = MaxLoopFails THEN "dead" ELSE "wait"
         /\ loop'[c].fails = fails /\ loop'[c].base = loop[c].base
         /\ loop'[c].init = loop[c].init
  <1> DEFINE r == [loop[c] EXCEPT !.pc = IF fails = MaxLoopFails THEN "dead" ELSE "wait",
                                  !.fails = fails, !.frame = NoFrame]
  <1>1. loop' = [loop EXCEPT ![c] = r]
    BY DEF After
  <1>2. NoFrame \in FrameOf(e)
    BY NoLoopType
  <1>3. /\ r \in LoopOf(e) /\ r.fails = fails /\ r.base = loop[c].base
        /\ r.init = loop[c].init
        /\ r.pc = IF fails = MaxLoopFails THEN "dead" ELSE "wait"
    BY <1>2 DEF LoopOf
  <1> HIDE DEF r
  <1> QED BY <1>1, <1>3

\* A tick skips a hidden tab, sends a frame, or first the viewer_init.
LEMMA TickFacts ==
  ASSUME TypeInv, NEW c \in Client, Tick(c)
  PROVE  /\ loop' \in [Client -> LoopOf(occurred)]
         /\ \A d \in Client : d # c => loop'[d] = loop[d]
         /\ \/ loop'[c] = loop[c]
            \/ loop'[c] = Built(loop[c])
            \/ /\ loop'[c].pc = "init" /\ loop'[c].frame.init = stat
               /\ loop'[c].base = loop[c].base /\ loop'[c].init = loop[c].init
               /\ loop'[c].fails = loop[c].fails
  <1>a. /\ loop \in [Client -> LoopOf(occurred)] /\ shared \in SharedOf(occurred)
        /\ stat \in Instance
    BY DEF TypeInv, LoopOK, PollOK, LinkOK
  <1>1. CASE loop' = loop
    BY <1>1, <1>a
  <1>2. CASE loop' = [loop EXCEPT ![c] = Built(loop[c])]
    <2>1. Built(loop[c]) \in LoopOf(occurred)
      BY <1>a, BuiltFacts
    <2> QED BY <1>2, <1>a, <2>1
  <1>3. CASE loop' = [loop EXCEPT ![c].pc = "init", ![c].frame.init = stat]
    <2> DEFINE f == [loop[c].frame EXCEPT !.init = stat]
               r == [loop[c] EXCEPT !.pc = "init", !.frame = f]
    <2>1. loop[c] \in LoopOf(occurred) /\ loop[c].frame \in FrameOf(occurred)
      BY <1>a DEF LoopOf
    <2>2. loop' = [loop EXCEPT ![c] = r]
      BY <1>3, <1>a, <2>1 DEF LoopOf
    <2>3. f \in FrameOf(occurred) /\ f.init = stat
      BY <1>a, <2>1 DEF FrameOf
    <2> HIDE DEF f
    <2>4. /\ r \in LoopOf(occurred) /\ r.pc = "init" /\ r.frame = f
          /\ r.base = loop[c].base /\ r.init = loop[c].init /\ r.fails = loop[c].fails
      BY <2>1, <2>3 DEF LoopOf
    <2> HIDE DEF r
    <2> QED BY <1>a, <2>2, <2>3, <2>4
  <1> QED BY <1>1, <1>2, <1>3 DEF Tick

LEMMA InitSentFacts ==
  ASSUME TypeInv, NEW c \in Client, InitSent(c)
  PROVE  LET l == [loop[c] EXCEPT !.init = TRUE]
         IN  /\ loop' \in [Client -> LoopOf(occurred)]
             /\ \A d \in Client : d # c => loop'[d] = loop[d]
             /\ loop'[c] = Built(l) /\ l \in LoopOf(occurred)
             /\ l.base = loop[c].base /\ l.init = TRUE /\ l.fails = loop[c].fails
  <1> DEFINE l == [loop[c] EXCEPT !.init = TRUE]
  <1>a. loop \in [Client -> LoopOf(occurred)] /\ shared \in SharedOf(occurred)
    BY DEF TypeInv, LoopOK, PollOK
  <1>1. /\ l \in LoopOf(occurred) /\ l.base = loop[c].base /\ l.init = TRUE
        /\ l.fails = loop[c].fails
    BY <1>a DEF LoopOf
  <1> HIDE DEF l
  <1>2. Built(l) \in LoopOf(occurred)
    BY <1>a, <1>1, BuiltFacts
  <1>3. loop' = [loop EXCEPT ![c] = Built(l)]
    BY DEF InitSent, l
  <1> QED BY <1>a, <1>1, <1>2, <1>3 DEF l

LEMMA InitRaisesFacts ==
  ASSUME TypeInv, NEW c \in Client, InitRaises(c)
  PROVE  /\ loop' \in [Client -> LoopOf(occurred)]
         /\ \A d \in Client : d # c => loop'[d] = loop[d]
         /\ loop[c].pc = "init" /\ loop'[c] = Built(loop[c])
         /\ loop'[c].pc = "send" /\ loop'[c].fails = loop[c].fails
         /\ loop'[c].init = loop[c].init
  <1>a. loop \in [Client -> LoopOf(occurred)] /\ shared \in SharedOf(occurred)
    BY DEF TypeInv, LoopOK, PollOK
  <1>1. /\ Built(loop[c]) \in LoopOf(occurred) /\ Built(loop[c]).pc = "send"
        /\ Built(loop[c]).fails = loop[c].fails /\ Built(loop[c]).init = loop[c].init
    BY <1>a, BuiltFacts
  <1>2. loop[c].pc = "init" /\ loop' = [loop EXCEPT ![c] = Built(loop[c])]
    BY DEF InitRaises
  <1> QED BY <1>a, <1>1, <1>2

LEMMA SentFacts ==
  ASSUME TypeInv, NEW c \in Client, Sent(c) \/ SendTimesOut(c) \/ SendRaises(c)
  PROVE  /\ loop' \in [Client -> LoopOf(occurred)]
         /\ \A d \in Client : d # c => loop'[d] = loop[d]
         /\ loop'[c].base = loop[c].base /\ loop'[c].init = loop[c].init
         /\ loop'[c].pc \in {"wait", "dead"}
         /\ loop'[c].pc = "dead" <=> loop'[c].fails = MaxLoopFails
         /\ IF SendRaises(c) THEN loop'[c].fails = loop[c].fails + 1
            ELSE loop'[c].fails = 0 /\ loop'[c].pc = "wait"
  <1>a. /\ loop \in [Client -> LoopOf(occurred)] /\ occurred \in Nat
        /\ loop[c].pc = "send" /\ loop[c].fails \in 0..MaxLoopFails
        /\ loop[c].fails # MaxLoopFails
        /\ 0 \in 0..MaxLoopFails /\ MaxLoopFails \in Nat \ {0}
    BY FanoutAssumption
       DEF TypeInv, LoopOK, CountOK, LoopOf, Sent, SendTimesOut, SendRaises
  <1>1. CASE SendRaises(c)
    <2>1. loop[c].fails + 1 \in 0..MaxLoopFails /\ After(c, loop[c].fails + 1)
      BY <1>1, <1>a DEF SendRaises
    <2> QED BY <1>1, <1>a, <2>1, AfterFacts
  <1>2. CASE ~SendRaises(c)
    <2>1. After(c, 0)
      BY <1>2 DEF Sent, SendTimesOut
    <2> QED BY <1>2, <1>a, <2>1, AfterFacts
  <1> QED BY <1>1, <1>2

\* What is left of the actions on a client.
LEMMA OtherFacts ==
  ASSUME TypeInv, NEW c \in Client
  PROVE  /\ Accept(c) \/ Gone(c) \/ LinkLost(c) =>
              /\ loop' \in [Client -> LoopOf(occurred)]
              /\ \A d \in Client : d # c => loop'[d] = loop[d]
         /\ Accept(c) => /\ loop'[c].pc = "wait" /\ loop'[c].base = Unknown
                         /\ loop'[c].init = FALSE /\ loop'[c].fails = 0
         /\ Gone(c) => loop'[c] = NoLoop
         /\ LinkLost(c) => /\ loop'[c].pc = loop[c].pc /\ loop'[c].base = loop[c].base
                           /\ loop'[c].init = FALSE /\ loop'[c].fails = loop[c].fails
  <1>a. /\ loop \in [Client -> LoopOf(occurred)] /\ NoLoop \in LoopOf(occurred)
        /\ loop[c] \in LoopOf(occurred)
    BY NoLoopType DEF TypeInv, LoopOK, CountOK
  <1>1. ASSUME Accept(c)
        PROVE  /\ loop' \in [Client -> LoopOf(occurred)]
               /\ \A d \in Client : d # c => loop'[d] = loop[d]
               /\ loop'[c].pc = "wait" /\ loop'[c].base = Unknown
               /\ loop'[c].init = FALSE /\ loop'[c].fails = 0
    <2> DEFINE r == [NoLoop EXCEPT !.pc = "wait"]
    <2>1. r.pc = "wait" /\ r.base = Unknown /\ r.init = FALSE /\ r.fails = 0
      BY DEF NoLoop
    <2>2. r \in LoopOf(occurred)
      BY <1>a DEF LoopOf
    <2>3. loop' = [loop EXCEPT ![c] = r]
      BY <1>1 DEF Accept
    <2> HIDE DEF r
    <2> QED BY <1>a, <2>1, <2>2, <2>3
  <1>2. ASSUME Gone(c)
        PROVE  /\ loop' \in [Client -> LoopOf(occurred)]
               /\ \A d \in Client : d # c => loop'[d] = loop[d]
               /\ loop'[c] = NoLoop
    BY <1>2, <1>a DEF Gone
  <1>3. ASSUME LinkLost(c)
        PROVE  /\ loop' \in [Client -> LoopOf(occurred)]
               /\ \A d \in Client : d # c => loop'[d] = loop[d]
               /\ loop'[c].pc = loop[c].pc /\ loop'[c].base = loop[c].base
               /\ loop'[c].init = FALSE /\ loop'[c].fails = loop[c].fails
    <2> DEFINE r == [loop[c] EXCEPT !.init = FALSE]
    <2>1. /\ r \in LoopOf(occurred) /\ r.pc = loop[c].pc /\ r.base = loop[c].base
          /\ r.init = FALSE /\ r.fails = loop[c].fails
      BY <1>a DEF LoopOf
    <2>2. loop' = [loop EXCEPT ![c] = r]
      BY <1>3 DEF LinkLost
    <2> HIDE DEF r
    <2> QED BY <1>a, <2>1, <2>2
  <1> QED BY <1>1, <1>2, <1>3

LEMMA LoopStep ==
  ASSUME TypeInv, [Next]_vars
  PROVE  LoopOK'
  <1> DEFINE Dead(c) == loop[c].pc = "dead" <=> loop[c].fails = MaxLoopFails
             Keeps == /\ loop' \in [Client -> LoopOf(occurred')]
                      /\ \A c \in Client : Dead(c)'
  <1>a. /\ loop \in [Client -> LoopOf(occurred)] /\ \A c \in Client : Dead(c)
        /\ shared \in SharedOf(occurred) /\ MaxLoopFails # 0
        /\ LoopOf(occurred) \subseteq LoopOf(occurred')
    BY FanoutCountStep, RecordsGrow, FanoutAssumption DEF TypeInv, LoopOK, CountOK, PollOK
  <1>b. \A c \in Client : Built(loop[c]).pc = "send" /\ Built(loop[c]).fails = loop[c].fails
    BY <1>a, BuiltFacts
  <1>1. ASSUME UNCHANGED loop PROVE Keeps
    BY <1>1, <1>a
  <1>2. ASSUME NEW c \in Client, loop' \in [Client -> LoopOf(occurred)],
               \A d \in Client : d # c => loop'[d] = loop[d],
               Dead(c)'
        PROVE  Keeps
    BY <1>2, <1>a
  <1>3. ASSUME NEW c \in Client, Accept(c) \/ Gone(c) \/ LinkLost(c) PROVE Keeps
    <2>1. NoLoop.pc = "off" /\ NoLoop.fails = 0
      BY DEF NoLoop
    <2>2. Dead(c)'
      BY <1>3, <1>a, <2>1, OtherFacts
    <2> QED BY <1>2, <1>3, <2>2, OtherFacts
  <1>4. ASSUME NEW c \in Client, Tick(c) PROVE Keeps
    <2>1. loop[c].pc = "wait"
      BY <1>4 DEF Tick
    <2>2. Dead(c)'
      BY <1>4, <1>a, <1>b, <2>1, TickFacts
    <2> QED BY <1>2, <1>4, <2>2, TickFacts
  <1>5. ASSUME NEW c \in Client, InitSent(c) PROVE Keeps
    <2>1. loop[c].pc = "init"
      BY <1>5 DEF InitSent
    <2>2. Dead(c)'
      <3> DEFINE l == [loop[c] EXCEPT !.init = TRUE]
      <3>1. loop'[c] = Built(l) /\ l \in LoopOf(occurred) /\ l.fails = loop[c].fails
        BY <1>5, InitSentFacts
      <3> HIDE DEF l
      <3>2. loop'[c].pc = "send" /\ loop'[c].fails = loop[c].fails
        BY <1>a, <3>1, BuiltFacts
      <3> QED BY <1>a, <2>1, <3>2
    <2> QED BY <1>2, <1>5, <2>2, InitSentFacts
  <1>6. ASSUME NEW c \in Client, Sent(c) \/ SendTimesOut(c) \/ SendRaises(c) PROVE Keeps
    <2>1. Dead(c)'
      BY <1>6, SentFacts
    <2> QED BY <1>2, <1>6, <2>1, SentFacts
  <1>7. ASSUME NEW c \in Client, InitRaises(c) PROVE Keeps
    <2>1. Dead(c)'
      BY <1>7, <1>a, InitRaisesFacts
    <2> QED BY <1>2, <1>7, <2>1, InitRaisesFacts
  <1> HIDE DEF Keeps
  <1>8. Keeps
    BY <1>1, <1>3, <1>4, <1>5, <1>6, <1>7
       DEF Next, vars, Poller, MachineMoves, MachineError, MachineRestarts, PollerConnects,
           PollerChecksPid, PollRead, PollFails, PollErrors, Publish, TabVisibility, Loop
  <1> QED BY <1>8 DEF Keeps, LoopOK

\* A connected client stays connected, except in the step that removes it.
LEMMA StaysConnected ==
  ASSUME TypeInv, [Next]_vars, NEW c \in Client, loop[c].pc # "off", loop'[c].pc = "off"
  PROVE  Gone(c)
  <1>a. loop \in [Client -> LoopOf(occurred)] /\ shared \in SharedOf(occurred)
    BY DEF TypeInv, LoopOK, PollOK
  <1>1. CASE UNCHANGED loop
    BY <1>1
  <1>2. ASSUME NEW d \in Client, Accept(d) \/ LinkLost(d) PROVE FALSE
    BY <1>2, OtherFacts
  <1>3. ASSUME NEW d \in Client, Gone(d) PROVE c = d
    BY <1>3, OtherFacts
  <1>4. ASSUME NEW d \in Client, Tick(d) PROVE FALSE
    BY <1>4, <1>a, TickFacts, BuiltFacts
  <1>5. ASSUME NEW d \in Client, InitSent(d) PROVE FALSE
    <2> DEFINE l == [loop[d] EXCEPT !.init = TRUE]
    <2>1. /\ loop'[d] = Built(l) /\ l \in LoopOf(occurred)
          /\ \A e \in Client : e # d => loop'[e] = loop[e]
      BY <1>5, InitSentFacts
    <2> HIDE DEF l
    <2>2. loop'[d].pc = "send"
      BY <1>a, <2>1, BuiltFacts
    <2> QED BY <2>1, <2>2
  <1>6. ASSUME NEW d \in Client, Sent(d) \/ SendTimesOut(d) \/ SendRaises(d) PROVE FALSE
    BY <1>6, SentFacts
  <1>7. ASSUME NEW d \in Client, InitRaises(d) PROVE FALSE
    BY <1>7, InitRaisesFacts
  <1> QED
    BY <1>1, <1>2, <1>3, <1>4, <1>5, <1>6, <1>7
       DEF Next, vars, Poller, MachineMoves, MachineError, MachineRestarts, PollerConnects,
           PollerChecksPid, PollRead, PollFails, PollErrors, Publish, TabVisibility, Loop

LEMMA ClientsStep ==
  ASSUME TypeInv, [Next]_vars
  PROVE  ClientsOK'
  <1>a. ClientsOK /\ Connected \subseteq Client /\ Connected' \subseteq Client
    BY DEF TypeInv, Connected
  <1>1. seen' \subseteq Client
    BY <1>a
       DEF ClientsOK, Next, vars, Poller, MachineMoves, MachineError, MachineRestarts,
           PollerConnects, PollerChecksPid, PollRead, PollFails, PollErrors, Publish,
           Accept, Gone, TabVisibility, Loop, LinkLost, Tick, InitSent, InitRaises, Sent,
           SendTimesOut, SendRaises
  <1>2. ASSUME NEW c \in Client, c \in hidden' \cup closing' PROVE c \in Connected'
    <2>1. c \in Connected
      BY <1>2, <1>a
         DEF ClientsOK, Connected, Next, vars, Poller, MachineMoves, MachineError,
             MachineRestarts, PollerConnects, PollerChecksPid, PollRead, PollFails,
             PollErrors, Publish, Accept, Gone, TabVisibility, Loop, LinkLost, Tick,
             InitSent, InitRaises, Sent, SendTimesOut, SendRaises
    <2>2. ~Gone(c)
      BY <1>2 DEF Gone
    <2> QED BY <2>1, <2>2, StaysConnected DEF Connected
  <1>3. hidden' \subseteq Client /\ closing' \subseteq Client
    BY <1>a
       DEF ClientsOK, Next, vars, Poller, MachineMoves, MachineError, MachineRestarts,
           PollerConnects, PollerChecksPid, PollRead, PollFails, PollErrors, Publish,
           Accept, Gone, TabVisibility, Loop, LinkLost, Tick, InitSent, InitRaises, Sent,
           SendTimesOut, SendRaises
  <1> QED BY <1>1, <1>2, <1>3 DEF ClientsOK

LEMMA PagesStep ==
  ASSUME TypeInv, [Next]_vars
  PROVE  PagesOK'
  <1>a. /\ PagesOK /\ loop \in [Client -> LoopOf(occurred)]
        /\ SUBSET (1..occurred) \subseteq SUBSET (1..occurred')
    BY FanoutCountStep, RecordsGrow DEF TypeInv, LoopOK, CountOK
  <1>1. log \in [Client -> SUBSET (1..occurred')]
    BY <1>a DEF PagesOK
  <1>2. CASE UNCHANGED pageVars
    BY <1>2, <1>1, <1>a DEF pageVars, PagesOK
  <1>3. ASSUME NEW c \in Client, Accept(c) PROVE PagesOK'
    <2>1. stat' \in Instance
      BY LinkStep DEF LinkOK
    <2> QED BY <1>3, <1>1, <1>a, <2>1 DEF Accept, PagesOK
  <1>4. ASSUME NEW c \in Client, InitSent(c) PROVE PagesOK'
    <2>1. loop[c].frame.init \in Instance
      BY <1>a DEF LoopOf, FrameOf
    <2> QED BY <1>4, <1>1, <1>a, <2>1 DEF InitSent, PagesOK
  <1>5. ASSUME NEW c \in Client, Sent(c) PROVE PagesOK'
    <2>1. /\ loop[c].frame.data \in [Field -> 0..2]
          /\ loop[c].frame.errs \in SUBSET (1..occurred')
      BY <1>a, SampleIsPage DEF LoopOf, FrameOf
    <2>2. log' \in [Client -> SUBSET (1..occurred')]
      BY <1>5, <1>1, <2>1 DEF Sent
    <2>3. page' \in [Client -> [Field -> 0..2]]
      <3> DEFINE new == [f \in Field |-> IF f \in loop[c].frame.changed
                                        THEN loop[c].frame.data[f] ELSE page[c][f]]
      <3>1. page \in [Client -> [Field -> 0..2]]
        BY <1>a DEF PagesOK
      <3>2. new \in [Field -> 0..2]
        BY <2>1, <3>1
      <3>3. page' = page \/ page' = [page EXCEPT ![c] = new]
        BY <1>5 DEF Sent
      <3> HIDE DEF new
      <3> QED BY <3>1, <3>2, <3>3
    <2>4. config' \in [Client -> Instance]
      <3>1. config' = config
        BY <1>5 DEF Sent
      <3> QED BY <1>a, <3>1 DEF PagesOK
    <2> QED BY <2>2, <2>3, <2>4 DEF PagesOK
  <1> QED
    BY <1>2, <1>3, <1>4, <1>5
       DEF Next, vars, Poller, MachineMoves, MachineError, MachineRestarts, PollerConnects,
           PollerChecksPid, PollRead, PollFails, PollErrors, Publish, Gone, TabVisibility,
           Loop, LinkLost, Tick, InitRaises, SendTimesOut, SendRaises

LEMMA FanoutTypeStep == TypeInv /\ [Next]_vars => TypeInv'
  BY FanoutCountStep, FanoutLcncStep, LinkStep, PollStep, LoopStep, ClientsStep, PagesStep
     DEF TypeInv

\* The status fan-out is well typed: the errors in flight are errors that have
\* occurred, no client that has left is hidden or closing, and the link is up
\* only with a STAT (status_runtime and status_loop).
THEOREM FanoutTypeCorrect == Spec => []TypeOK
  <1>1. Init => TypeInv
    BY FanoutTypeInit
  <1>2. TypeInv /\ [Next]_vars => TypeInv'
    BY FanoutTypeStep
  <1>3. TypeInv => TypeOK
    BY TypeInvTypes
  <1> QED BY <1>1, <1>2, <1>3, PTL DEF Spec

(***************************************************************************)
(* The two properties of the deltas.  A step touches at most one client.   *)
(***************************************************************************)
Moves(c) ==
  \/ Accept(c) \/ Gone(c) \/ LinkLost(c) \/ Tick(c) \/ InitSent(c)
  \/ InitRaises(c) \/ Sent(c) \/ SendTimesOut(c) \/ SendRaises(c)

LEMMA OthersRest ==
  ASSUME TypeInv, Next, NEW c \in Client, ~Moves(c)
  PROVE  /\ loop'[c] = loop[c] /\ page'[c] = page[c] /\ config'[c] = config[c]
         /\ c \in closing => c \in closing'
  <1>a. /\ page \in [Client -> [Field -> 0..2]] /\ config \in [Client -> Instance]
        /\ loop \in [Client -> LoopOf(occurred)]
    BY DEF TypeInv, PagesOK, LoopOK
  <1>1. CASE UNCHANGED <<loop, page, config, closing>>
    BY <1>1
  <1>2. ASSUME NEW d \in Client, Accept(d) \/ Gone(d) \/ LinkLost(d), d # c
        PROVE  /\ loop'[c] = loop[c] /\ page'[c] = page[c] /\ config'[c] = config[c]
               /\ c \in closing => c \in closing'
    BY <1>2, <1>a, OtherFacts DEF Accept, Gone, LinkLost, pageVars
  <1>3. ASSUME NEW d \in Client, Tick(d) \/ InitSent(d) \/ InitRaises(d), d # c
        PROVE  /\ loop'[c] = loop[c] /\ page'[c] = page[c] /\ config'[c] = config[c]
               /\ c \in closing => c \in closing'
    BY <1>3, <1>a, TickFacts, InitSentFacts, InitRaisesFacts
       DEF Tick, InitSent, InitRaises, pageVars
  <1>4. ASSUME NEW d \in Client, Sent(d) \/ SendTimesOut(d) \/ SendRaises(d), d # c
        PROVE  /\ loop'[c] = loop[c] /\ page'[c] = page[c] /\ config'[c] = config[c]
               /\ c \in closing => c \in closing'
    BY <1>4, <1>a, SentFacts DEF Sent, SendTimesOut, SendRaises, pageVars
  <1>5. \A d \in Client : Accept(d) \/ Gone(d) \/ LinkLost(d) \/ Tick(d) \/ InitSent(d)
                          \/ InitRaises(d) \/ Sent(d) \/ SendTimesOut(d) \/ SendRaises(d)
                          => d # c
    BY DEF Moves
  <1> QED
    BY <1>1, <1>2, <1>3, <1>4, <1>5
       DEF Next, Poller, MachineMoves, MachineError, MachineRestarts, PollerConnects,
           PollerChecksPid, PollRead, PollFails, PollErrors, Publish, TabVisibility, Loop,
           pageVars

\* A torn client stays torn until it has left or a full frame is out.
LEMMA TornStep ==
  ASSUME MCNext, NEW c \in Client, loop'[c].pc # "off"
  PROVE  /\ c \in torn /\ ~(loop[c].pc = "send" /\ loop[c].frame.full) => c \in torn'
         /\ loop[c].pc = "send" /\ loop'[c].fails # 0 /\ c \in torn => c \in torn'
         /\ Raised(c) => c \in torn'
  BY DEF MCNext, GotFull

(***************************************************************************)
(* MirrorExact, with what the frame on the wire adds: it holds the         *)
(* baseline, and unless it is full the page already shows the baseline in  *)
(* every field the frame leaves out.                                       *)
(***************************************************************************)
MirrorWaits(c) ==
  c \notin closing \cup torn /\ loop[c].pc \in {"wait", "init"} /\ loop[c].base # Unknown
    => page[c] = loop[c].base

MirrorSends(c) ==
  loop[c].pc = "send" =>
    /\ loop[c].frame.data = loop[c].base
    /\ IF loop[c].frame.full THEN loop[c].frame.changed = Field
       ELSE c \notin closing \cup torn =>
              \A f \in Field \ loop[c].frame.changed : page[c][f] = loop[c].base[f]

MirrorOf(c) == MirrorWaits(c) /\ MirrorSends(c)

\* A frame is built from a page that shows the baseline.
LEMMA MirrorBuilt ==
  ASSUME TypeInv, MCNext, NEW c \in Client, MirrorWaits(c),
         loop[c].pc \in {"wait", "init"}, NEW l \in LoopOf(occurred), l.base = loop[c].base,
         loop'[c] = Built(l), page'[c] = page[c], c \in closing => c \in closing'
  PROVE  MirrorOf(c)'
  <1>a. shared \in SharedOf(occurred)
    BY DEF TypeInv, PollOK
  <1>1. /\ loop'[c].pc = "send" /\ loop'[c].base = shared.data
        /\ loop'[c].frame.data = shared.data
        /\ IF loop'[c].frame.full THEN loop'[c].frame.changed = Field
           ELSE /\ l.base # Unknown
                /\ \A f \in Field \ loop'[c].frame.changed : l.base[f] = shared.data[f]
    BY <1>a, BuiltFacts
  <1>2. c \in torn => c \in torn'
    BY <1>1, TornStep
  <1>3. c \notin closing' \cup torn' /\ l.base # Unknown => page[c] = l.base
    BY <1>2 DEF MirrorWaits
  <1> QED BY <1>1, <1>3 DEF MirrorOf, MirrorWaits, MirrorSends

LEMMA MirrorSent ==
  ASSUME TypeInv, MCNext, NEW c \in Client, MirrorSends(c), Sent(c)
  PROVE  MirrorOf(c)'
  <1> DEFINE frame == loop[c].frame
  <1>a. /\ page \in [Client -> [Field -> 0..2]]
        /\ loop \in [Client -> LoopOf(occurred)]
    BY DEF TypeInv, PagesOK, LoopOK
  <1>b. loop[c].pc = "send" /\ loop[c].base \in [Field -> 0..2] /\ closing' = closing
    BY <1>a, SampleIsPage DEF Sent, LoopOf
  <1>1. /\ loop'[c].pc # "send" /\ loop'[c].pc # "off" /\ loop'[c].base = loop[c].base
    BY SentFacts
  <1>2. ASSUME c \notin closing, frame.full \/ c \notin torn PROVE page'[c] = loop[c].base
    <2>1. page'[c] = [f \in Field |-> IF f \in frame.changed THEN frame.data[f]
                                      ELSE page[c][f]]
      BY <1>2, <1>a DEF Sent
    <2>2. frame.data = loop[c].base
      BY <1>b DEF MirrorSends
    <2>3. \A f \in Field : f \in frame.changed \/ page[c][f] = loop[c].base[f]
      BY <1>2, <1>b DEF MirrorSends
    <2> HIDE DEF frame
    <2> QED BY <1>b, <2>1, <2>2, <2>3
  <1>3. c \notin torn' => frame.full \/ c \notin torn
    BY <1>1, TornStep
  <1> QED BY <1>b, <1>1, <1>2, <1>3 DEF MirrorOf, MirrorWaits, MirrorSends

LEMMA MirrorStep ==
  ASSUME TypeInv, MCNext, NEW c \in Client, MirrorOf(c)
  PROVE  MirrorOf(c)'
  <1>a. Next
    BY DEF MCNext
  <1>1. CASE ~Moves(c)
    <2>1. /\ loop'[c] = loop[c] /\ page'[c] = page[c]
          /\ c \in closing => c \in closing'
      BY <1>1, <1>a, OthersRest
    <2>2. CASE loop[c].pc = "off"
      BY <2>1, <2>2 DEF MirrorOf, MirrorWaits, MirrorSends
    <2>3. CASE loop[c].pc # "off"
      <3>1. c \in torn /\ ~(loop[c].pc = "send" /\ loop[c].frame.full) => c \in torn'
        BY <2>1, <2>3, TornStep
      <3> QED BY <2>1, <3>1 DEF MirrorOf, MirrorWaits, MirrorSends
    <2> QED BY <2>2, <2>3
  <1>2. CASE Accept(c)
    <2>1. loop'[c].pc = "wait" /\ loop'[c].base = Unknown
      BY <1>2, OtherFacts
    <2>2. Unknown' = Unknown
      BY DEF Unknown
    <2> QED BY <2>1, <2>2 DEF MirrorOf, MirrorWaits, MirrorSends
  <1>3. CASE Gone(c)
    <2>1. loop'[c] = NoLoop
      BY <1>3, OtherFacts
    <2>2. loop'[c].pc = "off"
      BY <2>1 DEF NoLoop
    <2> QED BY <2>2 DEF MirrorOf, MirrorWaits, MirrorSends
  <1>4. CASE LinkLost(c)
    <2>1. /\ loop[c].pc = "wait" /\ loop'[c].pc = "wait" /\ loop'[c].base = loop[c].base
          /\ page' = page /\ closing' = closing
      BY <1>4, OtherFacts DEF LinkLost, pageVars
    <2>2. c \in torn => c \in torn'
      BY <2>1, TornStep
    <2> QED BY <2>1, <2>2 DEF MirrorOf, MirrorWaits, MirrorSends
  <1>5. CASE Tick(c)
    <2>1. loop[c].pc = "wait" /\ page' = page /\ closing' = closing
      BY <1>5 DEF Tick, pageVars
    <2>2. CASE loop'[c] = Built(loop[c])
      <3>1. loop[c] \in LoopOf(occurred)
        BY DEF TypeInv, LoopOK
      <3> QED BY <2>1, <2>2, <3>1, MirrorBuilt DEF MirrorOf
    <2>3. CASE loop'[c].pc \in {"wait", "init"} /\ loop'[c].base = loop[c].base
      <3>1. c \in torn => c \in torn'
        BY <2>1, <2>3, TornStep
      <3> QED BY <2>1, <2>3, <3>1 DEF MirrorOf, MirrorWaits, MirrorSends
    <2> QED BY <1>5, <2>1, <2>2, <2>3, TickFacts
  <1>6. CASE InitSent(c)
    <2> DEFINE l == [loop[c] EXCEPT !.init = TRUE]
    <2>1. loop'[c] = Built(l) /\ l \in LoopOf(occurred) /\ l.base = loop[c].base
      BY <1>6, InitSentFacts
    <2> HIDE DEF l
    <2>2. loop[c].pc = "init" /\ page' = page /\ closing' = closing
      BY <1>6 DEF InitSent
    <2> QED BY <2>1, <2>2, MirrorBuilt DEF MirrorOf
  <1>7. CASE Sent(c)
    BY <1>7, MirrorSent DEF MirrorOf
  <1>8. CASE SendTimesOut(c)
    <2>1. c \in closing' /\ loop'[c].pc # "send"
      BY <1>8, SentFacts DEF SendTimesOut
    <2> QED BY <2>1 DEF MirrorOf, MirrorWaits, MirrorSends
  <1>9. CASE SendRaises(c)
    <2>1. /\ loop[c].pc = "send" /\ loop'[c].pc \in {"wait", "dead"}
          /\ loop'[c].fails = loop[c].fails + 1 /\ loop[c].fails \in Nat
      BY <1>9, SentFacts DEF SendRaises, TypeInv, LoopOK, LoopOf
    <2>2. c \in torn'
      BY <2>1, TornStep DEF Raised
    <2> QED BY <2>1, <2>2 DEF MirrorOf, MirrorWaits, MirrorSends
  <1>10. CASE InitRaises(c)
    <2>1. loop[c] \in LoopOf(occurred) /\ loop[c].pc = "init" /\ loop'[c] = Built(loop[c])
      BY <1>10, InitRaisesFacts DEF TypeInv, LoopOK
    <2>2. page' = page /\ closing' = closing
      BY <1>10 DEF InitRaises, pageVars
    <2> QED BY <2>1, <2>2, MirrorBuilt DEF MirrorOf
  <1> QED BY <1>1, <1>2, <1>3, <1>4, <1>5, <1>6, <1>7, <1>8, <1>9, <1>10 DEF Moves

\* diff_status_data and status_loop's baseline: for any number of clients and
\* fields and any interval of full frames, whatever ticks a hidden tab or a slow
\* send skipped, what a page shows between two frames is what the gateway takes
\* it to show, unless an exception lost a frame since the last full one.
THEOREM DeltasAreExact == MCSpec => []MirrorExact
  <1> DEFINE Inv == TypeInv /\ \A c \in Client : MirrorOf(c)
  <1>1. MCInit => Inv
    <2> SUFFICES ASSUME MCInit PROVE Inv
      OBVIOUS
    <2>1. \A c \in Client : loop[c].pc = "off"
      BY DEF MCInit, Init, NoLoop
    <2> QED BY <2>1, FanoutTypeInit DEF MCInit, MirrorOf, MirrorWaits, MirrorSends
  <1>2. Inv /\ [MCNext]_mcVars => Inv'
    <2> SUFFICES ASSUME Inv, [MCNext]_mcVars PROVE Inv'
      OBVIOUS
    <2>1. TypeInv'
      BY FanoutTypeStep DEF MCNext, mcVars
    <2>2. CASE MCNext
      BY <2>1, <2>2, MirrorStep
    <2>3. CASE UNCHANGED mcVars
      BY <2>1, <2>3 DEF mcVars, vars, pageVars, MirrorOf, MirrorWaits, MirrorSends, Unknown
    <2> QED BY <2>2, <2>3
  <1>3. Inv => MirrorExact
    BY DEF MirrorExact, MirrorOf, MirrorWaits, Connected
  <1> QED BY <1>1, <1>2, <1>3, PTL DEF MCSpec

(***************************************************************************)
(* ConfigCurrent, with what the viewer_init on the wire adds: it is that   *)
(* of the LinuxCNC the gateway is attached to, and no page that was sent   *)
(* one is without a configuration.                                         *)
(***************************************************************************)
ConfigWaits(c) ==
  /\ c \notin closing /\ loop[c].init => config[c] # 0
  /\ c \notin closing \cup missed /\ loop[c].init /\ linked => config[c] = stat

ConfigSends(c) ==
  loop[c].pc = "init" =>
    /\ loop[c].frame.init # 0
    /\ c \notin missed /\ linked => loop[c].frame.init = stat

ConfigOf(c) == ConfigWaits(c) /\ ConfigSends(c)

\* A client that has its viewer_init, or has it on the wire, misses a change of
\* machine, and goes on missing it until its loop sees the link lost.
LEMMA MissedStep ==
  ASSUME MCNext, NEW c \in Client, loop'[c].init \/ loop'[c].pc = "init", c \notin missed'
  PROVE  /\ c \notin missed
         /\ config[c] # 0 \/ loop[c].pc = "init" => stat' \in {0, stat}
  BY DEF MCNext

LEMMA ConfigStep ==
  ASSUME TypeInv, MCNext, NEW c \in Client, ConfigOf(c)
  PROVE  ConfigOf(c)'
  <1>a. /\ Next /\ loop \in [Client -> LoopOf(occurred)] /\ shared \in SharedOf(occurred)
        /\ config \in [Client -> Instance]
    BY DEF MCNext, TypeInv, LoopOK, PollOK, PagesOK
  <1>b. /\ LinkOK /\ LinkOK'
        /\ (stat' = stat /\ linked' = linked) \/ ~linked' \/ stat' \notin {0, stat}
    BY <1>a, LinkStep DEF TypeInv
  <1>1. CASE ~Moves(c)
    <2>1. /\ loop'[c] = loop[c] /\ config'[c] = config[c]
          /\ c \in closing => c \in closing'
      BY <1>1, <1>a, OthersRest
    <2> QED BY <1>b, <2>1, MissedStep DEF ConfigOf, ConfigWaits, ConfigSends
  <1>2. CASE Accept(c) \/ LinkLost(c)
    <2>1. loop'[c].init = FALSE /\ loop'[c].pc # "init"
      BY <1>2, OtherFacts DEF LinkLost
    <2> QED BY <2>1 DEF ConfigOf, ConfigWaits, ConfigSends
  <1>3. CASE Gone(c)
    <2>1. loop'[c] = NoLoop
      BY <1>3, OtherFacts
    <2>2. loop'[c].init = FALSE /\ loop'[c].pc = "off"
      BY <2>1 DEF NoLoop
    <2> QED BY <2>2 DEF ConfigOf, ConfigWaits, ConfigSends
  <1>4. CASE Tick(c)
    <2>1. /\ loop[c].pc = "wait" /\ linked /\ UNCHANGED <<linked, stat, config, closing>>
      BY <1>4 DEF Tick, linkVars, pageVars
    <2>2. /\ loop'[c].init = loop[c].init
          /\ loop'[c].pc = "init" => loop'[c].frame.init = stat
      BY <1>4, <1>a, <2>1, TickFacts, BuiltFacts
    <2> QED BY <1>b, <2>1, <2>2, MissedStep DEF LinkOK, ConfigOf, ConfigWaits, ConfigSends
  <1>5. CASE InitSent(c)
    <2> DEFINE l == [loop[c] EXCEPT !.init = TRUE]
    <2>1. loop'[c] = Built(l) /\ l \in LoopOf(occurred) /\ l.init = TRUE
      BY <1>5, InitSentFacts
    <2> HIDE DEF l
    <2>2. loop'[c].pc = "send" /\ loop'[c].init = TRUE
      BY <1>a, <2>1, BuiltFacts
    <2>3. /\ loop[c].pc = "init" /\ UNCHANGED <<linked, stat, closing>>
          /\ c \notin closing => config'[c] = loop[c].frame.init
      BY <1>5, <1>a DEF InitSent, linkVars
    <2> QED BY <2>2, <2>3, MissedStep DEF ConfigOf, ConfigWaits, ConfigSends
  <1>6. CASE Sent(c) \/ SendTimesOut(c) \/ SendRaises(c)
    <2>1. loop'[c].init = loop[c].init /\ loop'[c].pc # "init"
      BY <1>6, SentFacts
    <2>2. UNCHANGED <<linked, stat, config>> /\ closing \subseteq closing'
      BY <1>6 DEF Sent, SendTimesOut, SendRaises, linkVars, pageVars
    <2> QED BY <2>1, <2>2, MissedStep DEF ConfigOf, ConfigWaits, ConfigSends
  <1>7. CASE InitRaises(c)
    <2>1. loop'[c].init = loop[c].init /\ loop'[c].pc = "send"
      BY <1>7, InitRaisesFacts
    <2>2. UNCHANGED <<linked, stat, config, closing>>
      BY <1>7 DEF InitRaises, linkVars, pageVars
    <2> QED BY <2>1, <2>2, MissedStep DEF ConfigOf, ConfigWaits, ConfigSends
  <1> QED BY <1>1, <1>2, <1>3, <1>4, <1>5, <1>6, <1>7 DEF Moves

\* viewer_init_sent: a page whose loop takes its viewer_init for sent holds the
\* configuration of the LinuxCNC the gateway is attached to, unless the gateway
\* changed over before that loop had seen the link lost; whatever the clients
\* and however often LinuxCNC restarts.
THEOREM ConfigIsCurrent == MCSpec => []ConfigCurrent
  <1> DEFINE Inv == TypeInv /\ \A c \in Client : ConfigOf(c)
  <1>1. MCInit => Inv
    <2> SUFFICES ASSUME MCInit PROVE Inv
      OBVIOUS
    <2>1. \A c \in Client : loop[c].pc = "off" /\ loop[c].init = FALSE
      BY DEF MCInit, Init, NoLoop
    <2> QED BY <2>1, FanoutTypeInit DEF MCInit, ConfigOf, ConfigWaits, ConfigSends
  <1>2. Inv /\ [MCNext]_mcVars => Inv'
    <2> SUFFICES ASSUME Inv, [MCNext]_mcVars PROVE Inv'
      OBVIOUS
    <2>1. TypeInv'
      BY FanoutTypeStep DEF MCNext, mcVars
    <2>2. CASE MCNext
      BY <2>1, <2>2, ConfigStep
    <2>3. CASE UNCHANGED mcVars
      BY <2>1, <2>3
         DEF mcVars, vars, pageVars, linkVars, ConfigOf, ConfigWaits, ConfigSends
    <2> QED BY <2>2, <2>3
  <1>3. Inv => ConfigCurrent
    BY DEF ConfigCurrent, ConfigOf, ConfigWaits, Connected
  <1> QED BY <1>1, <1>2, <1>3, PTL DEF MCSpec
=============================================================================
