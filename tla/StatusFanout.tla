----------------------------- MODULE StatusFanout -----------------------------
(***************************************************************************)
(* How the machine's state and LinuxCNC's error messages reach the pages:  *)
(* one poller samples LinuxCNC for everybody and wakes one status_loop per *)
(* client; each loop sends what differs from the frame it sent before, and *)
(* a full frame every FullEvery frames.                                    *)
(*                                                                         *)
(* Between two awaits the gateway's event loop runs one coroutine, so a    *)
(* step below ends where the code awaits.  A frame is on the wire while    *)
(* its loop awaits the send.                                               *)
(***************************************************************************)
EXTENDS Naturals, FiniteSets

CONSTANTS
  Client,
  Field,         \* the fields of StatusPayload
  FullEvery,     \* DELTA_FULL_INTERVAL, 100 in the code
  MaxPollFails,  \* polls that fail before the link is given up, 5 in the code
  MaxLoopFails,  \* exceptions before a status_loop ends, 10 in the code
  MaxOps         \* bound on what happens around the gateway

ASSUME FanoutAssumption ==
  /\ FullEvery \in Nat \ {0} /\ MaxPollFails \in Nat \ {0} /\ MaxLoopFails \in Nat \ {0}
  /\ MaxOps \in Nat

VARIABLES
  machine,   \* what LinuxCNC's status buffer holds
  instance,  \* the LinuxCNC that runs, counted from 1, or 0
  queue,     \* LinuxCNC's error channel
  occurred,  \* number of errors so far: they are 1..occurred
  linked,    \* lcnc_connected
  stat,      \* the instance STAT, CMD and ERR belong to, or 0 (None)
  pid,       \* _lcnc_pid, as the instance it names, or 0 (None)
  poll,      \* the poller's cycle: [pc, data, errs, fails: _poll_fails]
  shared,    \* _shared_status_dict and _shared_errors: [data, errs]
  seen,      \* clients whose _last_gen is _status_gen
  loop,      \* status_loops: [pc, base, n, init, fails, frame]
  hidden,    \* ClientState.hidden
  closing,   \* clients whose send timed out: _safe_ws_close is under way
  page,      \* what the page shows
  config,    \* the instance whose viewer_init the page holds, or 0
  log,       \* the errors in the page's message panel
  ops

lcncVars == <<machine, instance, queue, occurred>>
linkVars == <<linked, stat, pid>>
pageVars == <<page, config, log>>
vars == <<lcncVars, linkVars, poll, shared, seen, loop, hidden, closing, pageVars, ops>>

Unknown == [f \in Field |-> 2]
Data == [Field -> 0..1]
Sample == Data \cup {Unknown}
Error == 1..MaxOps
Instance == 0..(MaxOps + 1)

NoFrame == [full |-> FALSE, data |-> Unknown, changed |-> {}, errs |-> {}, init |-> 0]
Frame == [full : BOOLEAN, data : Sample, changed : SUBSET Field, errs : SUBSET Error,
          init : Instance]
NoLoop == [pc |-> "off", base |-> Unknown, n |-> 0, init |-> FALSE, fails |-> 0,
           frame |-> NoFrame]
NoPoll == [pc |-> "idle", data |-> Unknown, errs |-> {}, fails |-> 0]

Connected == {c \in Client : loop[c].pc # "off"}

TypeOK ==
  /\ machine \in Data /\ instance \in Instance
  /\ queue \subseteq 1..occurred /\ occurred \in 0..MaxOps
  /\ linked \in BOOLEAN /\ stat \in Instance /\ pid \in Instance
  /\ linked => stat # 0
  /\ poll \in [pc : {"idle", "errors", "publish"}, data : Sample, errs : SUBSET Error,
               fails : 0..(MaxPollFails - 1)]
  /\ shared \in [data : Sample, errs : SUBSET Error]
  /\ seen \subseteq Client
  /\ loop \in [Client -> [pc : {"off", "wait", "init", "send", "dead"}, base : Sample,
                          n : 0..FullEvery, init : BOOLEAN, fails : 0..MaxLoopFails,
                          frame : Frame]]
  /\ \A c \in Client : loop[c].pc = "dead" <=> loop[c].fails = MaxLoopFails
  /\ hidden \subseteq Connected /\ closing \subseteq Connected
  /\ page \in [Client -> [Field -> 0..2]] /\ config \in [Client -> Instance]
  /\ log \in [Client -> SUBSET (1..occurred)]
  /\ ops \in 0..MaxOps

Init ==
  /\ machine = [f \in Field |-> 0] /\ instance \in 0..1 /\ queue = {} /\ occurred = 0
  /\ linked = FALSE /\ stat = 0 /\ pid = 0 /\ poll = NoPoll
  /\ shared = [data |-> Unknown, errs |-> {}] /\ seen = {}
  /\ loop = [c \in Client |-> NoLoop] /\ hidden = {} /\ closing = {}
  /\ page = [c \in Client |-> Unknown] /\ config = [c \in Client |-> 0]
  /\ log = [c \in Client |-> {}]
  /\ ops = 0

Operate == ops < MaxOps /\ ops' = ops + 1

-----------------------------------------------------------------------------
(* LinuxCNC. *)

MachineMoves ==
  /\ Operate /\ instance # 0
  /\ \E f \in Field : machine' = [machine EXCEPT ![f] = 1 - @]
  /\ UNCHANGED <<instance, queue, occurred, linkVars, poll, shared, seen, loop, hidden,
                 closing, pageVars>>

MachineError ==
  /\ Operate /\ instance # 0
  /\ occurred' = occurred + 1 /\ queue' = queue \cup {occurred'}
  /\ UNCHANGED <<machine, instance, linkVars, poll, shared, seen, loop, hidden, closing,
                 pageVars>>

\* LinuxCNC ends, and its unread messages with it; or another one has started
\* before anyone looked.
MachineRestarts ==
  /\ Operate
  /\ instance' \in {0, ops + 2} \ {instance}
  /\ queue' = {}
  /\ UNCHANGED <<machine, occurred, linkVars, poll, shared, seen, loop, hidden, closing,
                 pageVars>>

-----------------------------------------------------------------------------
(* The poller.  It polls only while there are clients. *)

\* try_connect_lcnc: it succeeds only if a LinuxCNC answers.
Attach == instance # 0 /\ linked' = TRUE /\ stat' = instance /\ pid' = instance

PollerConnects ==
  /\ Connected # {} /\ poll.pc = "idle" /\ ~linked
  /\ Attach
  /\ poll' = [poll EXCEPT !.fails = 0]
  /\ UNCHANGED <<lcncVars, shared, seen, loop, hidden, closing, pageVars, ops>>

\* check_lcnc_instance.  When the process is another one the gateway tries to
\* connect to it; if it does not answer yet, the old STAT stays.
PollerChecksPid ==
  /\ Connected # {} /\ poll.pc = "idle" /\ linked /\ pid # instance
  /\ IF instance = 0
       THEN linked' = FALSE /\ stat' = 0 /\ pid' = 0
       ELSE Attach \/ (pid' = instance /\ UNCHANGED <<linked, stat>>)
  /\ UNCHANGED <<lcncVars, poll, shared, seen, loop, hidden, closing, pageVars, ops>>

\* STAT.poll, in an executor thread.  While a jog is active the errors are not
\* read.
PollRead ==
  /\ Connected # {} /\ poll.pc = "idle" /\ linked /\ stat = instance
  /\ \E pc \in {"errors", "publish"} :
       poll' = [pc |-> pc, data |-> machine, errs |-> {}, fails |-> poll.fails]
  /\ UNCHANGED <<lcncVars, linkVars, shared, seen, loop, hidden, closing, pageVars, ops>>

\* As PollFails, but the link stays up when the polls have failed.
PollFailsLinked ==
  /\ Connected # {} /\ poll.pc = "idle" /\ linked /\ stat # instance
  /\ IF poll.fails + 1 < MaxPollFails
       THEN poll' = [poll EXCEPT !.fails = @ + 1] /\ UNCHANGED linkVars
       ELSE poll' = [poll EXCEPT !.fails = 0] /\ stat' = 0 /\ UNCHANGED <<pid, linked>>
  /\ UNCHANGED <<lcncVars, shared, seen, loop, hidden, closing, pageVars, ops>>

\* A STAT whose LinuxCNC is gone raises.
PollFails ==
  /\ Connected # {} /\ poll.pc = "idle" /\ linked /\ stat # instance
  /\ IF poll.fails + 1 < MaxPollFails
       THEN poll' = [poll EXCEPT !.fails = @ + 1] /\ UNCHANGED linkVars
       ELSE poll' = [poll EXCEPT !.fails = 0] /\ linked' = FALSE /\ stat' = 0
            /\ UNCHANGED pid
  /\ UNCHANGED <<lcncVars, shared, seen, loop, hidden, closing, pageVars, ops>>

\* read_errors_nonblocking: what it reads leaves the channel (50 at most; the
\* model has fewer).  A channel whose LinuxCNC is gone yields nothing.
PollErrors ==
  /\ poll.pc = "errors"
  /\ poll' = [poll EXCEPT !.pc = "publish", !.errs = IF stat = instance THEN queue ELSE {}]
  /\ queue' = IF stat = instance THEN {} ELSE queue
  /\ UNCHANGED <<machine, instance, occurred, linkVars, shared, seen, loop, hidden, closing,
                 pageVars, ops>>

\* The end of the cycle: the results are shared and every waiting loop is woken.
Publish ==
  /\ poll.pc = "publish"
  /\ shared' = [data |-> poll.data, errs |-> poll.errs]
  /\ seen' = {}
  /\ poll' = NoPoll
  /\ UNCHANGED <<lcncVars, linkVars, loop, hidden, closing, pageVars, ops>>

-----------------------------------------------------------------------------
(* Clients. *)

\* As Accept, but the loop takes the viewer_init of the handshake for sent.
AcceptInit(c) ==
  /\ loop[c].pc = "off"
  /\ IF linked THEN UNCHANGED linkVars ELSE Attach \/ UNCHANGED linkVars
  /\ loop' = [loop EXCEPT ![c] = [NoLoop EXCEPT !.pc = "wait", !.init = TRUE]]
  /\ config' = [config EXCEPT ![c] = stat']
  /\ seen' = IF shared.data = Unknown THEN seen \cup {c} ELSE seen \ {c}
  /\ UNCHANGED <<lcncVars, poll, shared, hidden, closing, page, log, ops>>

\* ws_endpoint up to the start of status_loop: a page connects or reconnects.
Accept(c) ==
  /\ loop[c].pc = "off"
  /\ IF linked THEN UNCHANGED linkVars ELSE Attach \/ UNCHANGED linkVars
  /\ loop' = [loop EXCEPT ![c] = [NoLoop EXCEPT !.pc = "wait"]]
  /\ config' = [config EXCEPT ![c] = stat']
  /\ seen' = IF shared.data = Unknown THEN seen \cup {c} ELSE seen \ {c}
  /\ UNCHANGED <<lcncVars, poll, shared, hidden, closing, page, log, ops>>

\* The socket ends: finally cancels the loop.
Gone(c) ==
  /\ loop[c].pc # "off"
  /\ loop' = [loop EXCEPT ![c] = NoLoop]
  /\ hidden' = hidden \ {c} /\ closing' = closing \ {c}
  /\ UNCHANGED <<lcncVars, linkVars, poll, shared, seen, pageVars, ops>>

\* tab_visibility
TabVisibility(c) ==
  /\ loop[c].pc # "off"
  /\ hidden' = IF c \in hidden THEN hidden \ {c} ELSE hidden \cup {c}
  /\ UNCHANGED <<lcncVars, linkVars, poll, shared, seen, loop, closing, pageVars, ops>>

\* diff_status_data
Changed(last, current) == {f \in Field : last[f] # current[f]}

\* As Built, but a full frame is sent only first.
BuiltFullOnce(l) ==
  [l EXCEPT !.pc = "send", !.base = shared.data, !.n = 0,
            !.frame = [full |-> l.base = Unknown, data |-> shared.data,
                       changed |-> IF l.base = Unknown THEN Field
                                   ELSE Changed(l.base, shared.data),
                       errs |-> shared.errs, init |-> 0]]

\* build_status_envelope and the delta encoding of its data: the baseline moves
\* before the frame is sent.
Built(l) ==
  LET full == l.base = Unknown \/ l.n >= FullEvery
  IN [l EXCEPT !.pc = "send", !.base = shared.data, !.n = IF full THEN 0 ELSE @ + 1,
               !.frame = [full |-> full, data |-> shared.data,
                          changed |-> IF full THEN Field ELSE Changed(l.base, shared.data),
                          errs |-> shared.errs, init |-> 0]]

\* Without LinuxCNC the page is told so, and will get a new viewer_init.
LinkLost(c) ==
  /\ loop[c].pc = "wait" /\ ~linked /\ loop[c].init
  /\ loop' = [loop EXCEPT ![c].init = FALSE]
  /\ UNCHANGED <<lcncVars, linkVars, poll, shared, seen, hidden, closing, pageVars, ops>>

\* As Tick, but the baseline of a hidden tab moves.
TickMovesBase(c) ==
  /\ loop[c].pc = "wait" /\ linked /\ c \notin seen
  /\ seen' = seen \cup {c}
  /\ loop' = IF c \in hidden THEN [loop EXCEPT ![c].base = shared.data]
             ELSE IF loop[c].init THEN [loop EXCEPT ![c] = Built(loop[c])]
             ELSE [loop EXCEPT ![c].pc = "init", ![c].frame.init = stat]
  /\ UNCHANGED <<lcncVars, linkVars, poll, shared, hidden, closing, pageVars, ops>>

\* A new generation: a hidden tab skips it, a page without its viewer_init is
\* sent that first.
Tick(c) ==
  /\ loop[c].pc = "wait" /\ linked /\ c \notin seen
  /\ seen' = seen \cup {c}
  /\ loop' = IF c \in hidden THEN loop
             ELSE IF loop[c].init THEN [loop EXCEPT ![c] = Built(loop[c])]
             ELSE [loop EXCEPT ![c].pc = "init", ![c].frame.init = stat]
  /\ UNCHANGED <<lcncVars, linkVars, poll, shared, hidden, closing, pageVars, ops>>

\* viewer_init is out, and the frame is built from what is shared by now.
InitSent(c) ==
  /\ loop[c].pc = "init"
  /\ config' = IF c \in closing THEN config
               ELSE [config EXCEPT ![c] = loop[c].frame.init]
  /\ loop' = [loop EXCEPT ![c] = Built([loop[c] EXCEPT !.init = TRUE])]
  /\ UNCHANGED <<lcncVars, linkVars, poll, shared, seen, hidden, closing, page, log, ops>>

\* The send of viewer_init raises, which is only logged: the next tick tries again.
InitRaises(c) ==
  /\ Operate /\ loop[c].pc = "init"
  /\ loop' = [loop EXCEPT ![c] = Built(loop[c])]
  /\ UNCHANGED <<lcncVars, linkVars, poll, shared, seen, hidden, closing, pageVars>>

\* The end of the loop's body, exception or not.
After(c, fails) ==
  loop' = [loop EXCEPT ![c].pc = IF fails = MaxLoopFails THEN "dead" ELSE "wait",
                       ![c].fails = fails, ![c].frame = NoFrame]

\* The frame reaches the page, which lays a delta over what it has.  Sends to a
\* socket that is being closed are swallowed.
Sent(c) ==
  /\ loop[c].pc = "send"
  /\ LET frame == loop[c].frame
     IN IF c \in closing
          THEN UNCHANGED <<page, log>>
          ELSE /\ page' = [page EXCEPT ![c] =
                    [f \in Field |-> IF f \in frame.changed THEN frame.data[f] ELSE @[f]]]
               /\ log' = [log EXCEPT ![c] = @ \cup frame.errs]
  /\ After(c, 0)
  /\ UNCHANGED <<lcncVars, linkVars, poll, shared, seen, hidden, closing, config, ops>>

\* ws_send_measured gives up and schedules the close.
SendTimesOut(c) ==
  /\ Operate /\ loop[c].pc = "send" /\ c \notin closing
  /\ closing' = closing \cup {c}
  /\ After(c, 0)
  /\ UNCHANGED <<lcncVars, linkVars, poll, shared, seen, hidden, pageVars>>

\* An exception after the baseline has moved: the frame is lost, the socket
\* stays open.
SendRaises(c) ==
  /\ Operate /\ loop[c].pc = "send"
  /\ After(c, loop[c].fails + 1)
  /\ UNCHANGED <<lcncVars, linkVars, poll, shared, seen, hidden, closing, pageVars>>

-----------------------------------------------------------------------------
Poller == PollerConnects \/ PollerChecksPid \/ PollRead \/ PollFails \/ PollErrors \/ Publish

Loop(c) == LinkLost(c) \/ Tick(c) \/ InitSent(c) \/ Sent(c)

Next ==
  \/ MachineMoves \/ MachineError \/ MachineRestarts
  \/ Poller
  \/ \E c \in Client : \/ Accept(c) \/ Gone(c) \/ TabVisibility(c) \/ Loop(c)
                       \/ InitRaises(c) \/ SendTimesOut(c) \/ SendRaises(c)

\* The poller and the loops are coroutines of one event loop; the pid check
\* comes round every few cycles, and a closing socket ends.
Fairness ==
  /\ WF_vars(Poller) /\ SF_vars(PollerChecksPid)
  /\ \A c \in Client : WF_vars(Loop(c)) /\ WF_vars(c \in closing /\ Gone(c))

Spec == Init /\ [][Next]_vars /\ Fairness
=============================================================================
