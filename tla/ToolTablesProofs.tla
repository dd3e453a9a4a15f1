-------------------------- MODULE ToolTablesProofs --------------------------
(***************************************************************************)
(* Proofs about the tool tables, for every set of clients and tools and    *)
(* every failure: LinuxCNC works with the table in the file unless it was  *)
(* not told of it, the model is well typed, and the edits of all clients   *)
(* leave in the files what they would have left one after the other.       *)
(***************************************************************************)
EXTENDS MCTools, FiniteSetTheorems, TLAPS

Label == {"idle", "queued", "check", "write", "reload", "library", "save", "reply"}

(***************************************************************************)
(* Every client has a command, of which only the label matters here.       *)
(***************************************************************************)
OpInv ==
  /\ op = [c \in Client |-> op[c]]
  /\ \A c \in Client : op[c].pc \in Label /\ "pc" \in DOMAIN op[c]

(***************************************************************************)
(* Between the write of the table and the call that makes LinuxCNC load it *)
(* there is nobody else's command; the two ways out of "reload" without    *)
(* the call are the ones that untold records.                              *)
(***************************************************************************)
Reloading == \E c \in Client : op[c].pc = "reload"

TableInv == OpInv /\ (~loading /\ ~Reloading /\ ~untold => lcnc = tbl)

LEMMA TableInit == MCInit => TableInv
  BY DEF MCInit, Init, TableInv, OpInv, NoOp, Label

\* LinuxCNC comes to know of a table in no other way than by reading or writing it.
LEMMA UntoldStep ==
  ASSUME MCNext, ~Bumps, ~untold'
  PROVE  ~untold \/ lcnc' = tbl'
  BY DEF MCNext, LcncLoads, LcncMeasures, LcncRestarts, fileVars

\* No command: a request that has not begun, or a label of its own.
LEMMA NoOpIdle == NoOp.pc = "idle" /\ "pc" \in DOMAIN NoOp
  BY DEF NoOp

(***************************************************************************)
(* A client's command goes from one label to another, neither of which is  *)
(* "reload": nothing happens to the agreement if the tables stay.          *)
(***************************************************************************)
LEMMA OtherStep ==
  ASSUME TableInv, MCNext, NEW c \in Client, NEW o,
         o.pc \in Label \ {"reload"}, "pc" \in DOMAIN o, op[c].pc # "reload",
         op' = [op EXCEPT ![c] = o], loading' = loading, lcnc' = lcnc, tbl' = tbl
  PROVE  TableInv'
  <1>1. OpInv' /\ (Reloading' <=> Reloading) /\ ~Bumps
    BY DEF TableInv, OpInv, Reloading, Bumps
  <1> QED BY <1>1, UntoldStep DEF TableInv

LEMMA StillStep ==
  ASSUME TableInv, MCNext, UNCHANGED <<op, loading, lcnc, tbl>>
  PROVE  TableInv'
  <1>1. OpInv' /\ (Reloading' <=> Reloading) /\ ~Bumps
    BY DEF TableInv, OpInv, Reloading, Bumps
  <1> QED BY <1>1, UntoldStep DEF TableInv

LEMMA CommandStep ==
  ASSUME TableInv, MCNext, NEW c \in Client, Command(c)
  PROVE  TableInv'
  <1>0. op[c].pc \in Label /\ "pc" \in DOMAIN op[c]
    BY DEF TableInv, OpInv
  <1> USE DEF lcncVars, fileVars
  <1>1. CASE Begin(c)
    <2>0. op[c].pc # "reload" /\ loading' = loading /\ lcnc' = lcnc /\ tbl' = tbl
      BY <1>1 DEF Begin
    <2>1. CASE Refused(op[c])
      <3>1. op' = [op EXCEPT ![c] = NoOp]
        BY <1>1, <2>1 DEF Begin
      <3>2. NoOp.pc \in Label \ {"reload"} /\ "pc" \in DOMAIN NoOp
        BY NoOpIdle DEF Label
      <3> QED BY <2>0, <3>1, <3>2, OtherStep
    <2>2. CASE ~Refused(op[c])
      <3> DEFINE l == CASE op[c].kind = "import" -> "write"
                        [] op[c].kind = "get"    -> "library"
                        [] OTHER                 -> "check"
                 o == [op[c] EXCEPT !.table = Parsed(op[c]), !.pc = l]
      <3>1. op' = [op EXCEPT ![c] = o]
        BY <1>1, <2>2 DEF Begin
      <3>2. o.pc = l /\ "pc" \in DOMAIN o
        BY <1>0
      <3>3. l \in Label \ {"reload"}
        BY DEF Label
      <3> HIDE DEF o, l
      <3> QED BY <2>0, <3>1, <3>2, <3>3, OtherStep
    <2> QED BY <2>1, <2>2
  <1>2. CASE Check(c)
    <2>0. op[c].pc # "reload" /\ loading' = loading /\ lcnc' = lcnc /\ tbl' = tbl
      BY <1>2 DEF Check
    <2>1. CASE op' = [op EXCEPT ![c] = NoOp]
      BY <2>0, <2>1, NoOpIdle, OtherStep DEF Label
    <2>2. CASE op' = [op EXCEPT ![c].table = Edited(op[c]), ![c].pc = "write"]
      <3> DEFINE o == [op[c] EXCEPT !.table = Edited(op[c]), !.pc = "write"]
      <3>1. o.pc = "write" /\ "pc" \in DOMAIN o
        BY <1>0
      <3>2. op' = [op EXCEPT ![c] = o]
        BY <2>2 DEF TableInv, OpInv
      <3> HIDE DEF o
      <3> QED BY <2>0, <3>1, <3>2, OtherStep DEF Label
    <2> QED BY <1>2, <2>1, <2>2 DEF Check
  <1>3. CASE WriteTable(c)
    BY <1>0, <1>3 DEF WriteTable, TableInv, OpInv, Reloading, Label
  <1>4. CASE Reload(c)
    <2> DEFINE p == IF op[c].kind = "import" THEN "save" ELSE "library"
               m == IF op[c].kind = "import" THEN op[c].table ELSE op[c].meta
               o == [op[c] EXCEPT !.pc = p, !.meta = m]
    <2>1. op' = [op EXCEPT ![c] = o] /\ op[c].pc = "reload" /\ loading' = (loading \/ linked)
      BY <1>4 DEF Reload, TableInv, OpInv
    <2>2. o.pc = p /\ "pc" \in DOMAIN o
      BY <1>0
    <2>3. p \in {"save", "library"}
      OBVIOUS
    <2> HIDE DEF o, p
    <2>4. OpInv' /\ Bumps
      BY <2>1, <2>2, <2>3 DEF TableInv, OpInv, Label, Bumps
    <2>5. ~untold' => loading'
      BY <2>1, <2>4 DEF MCNext
    <2> QED BY <2>4, <2>5 DEF TableInv
  <1>5. CASE LoadLibrary(c)
    <2>0. op[c].pc # "reload" /\ loading' = loading /\ lcnc' = lcnc /\ tbl' = tbl
      BY <1>5 DEF LoadLibrary
    <2> DEFINE o == [op[c] EXCEPT !.meta = Described(op[c], Library),
                                  !.pc = IF op[c].kind = "get" THEN "reply" ELSE "save"]
    <2>1. o.pc \in {"reply", "save"} /\ "pc" \in DOMAIN o
      BY <1>0
    <2>2. op' = [op EXCEPT ![c] = o]
      BY <1>5 DEF LoadLibrary, TableInv, OpInv
    <2> HIDE DEF o
    <2> QED BY <2>0, <2>1, <2>2, OtherStep DEF Label
  <1>6. CASE SaveLibrary(c) \/ Reply(c)
    BY <1>6, NoOpIdle, OtherStep DEF SaveLibrary, Reply, Label
  <1> QED BY <1>1, <1>2, <1>3, <1>4, <1>5, <1>6 DEF Command

LEMMA TableStep == TableInv /\ [MCNext]_mcVars => TableInv'
  <1> SUFFICES ASSUME TableInv, [MCNext]_mcVars PROVE TableInv'
    OBVIOUS
  <1>0. CASE UNCHANGED mcVars
    BY <1>0 DEF mcVars, vars, exceptions, fileVars, lcncVars, TableInv, OpInv, Reloading
  <1> SUFFICES ASSUME MCNext PROVE TableInv'
    BY <1>0
  <1> USE DEF lcncVars, fileVars
  <1>1. CASE LcncLoads \/ LcncMeasures \/ LcncRestarts
    BY <1>1 DEF LcncLoads, LcncMeasures, LcncRestarts, TableInv, OpInv, Reloading
  <1>2. CASE LcncChangesTool \/ LinkLost \/ LinkBack \/ PollTool
    BY <1>2, StillStep DEF LcncChangesTool, LinkLost, LinkBack, PollTool
  <1>3. ASSUME NEW c \in Client, Command(c) PROVE TableInv'
    BY <1>3, CommandStep
  <1>4. ASSUME NEW c \in Client, Fails(c) PROVE TableInv'
    <2>0. loading' = loading /\ lcnc' = lcnc /\ tbl' = tbl
      BY <1>4 DEF Fails
    <2>1. op' = [op EXCEPT ![c] = NoOp]
      BY <1>4 DEF Fails
    <2>2. CASE op[c].pc = "reload"
      <3>1. OpInv' /\ Bumps
        BY <2>1, <2>2, NoOpIdle DEF TableInv, OpInv, Label, Bumps
      <3>2. untold'
        BY <1>4, <3>1 DEF MCNext
      <3> QED BY <3>1, <3>2 DEF TableInv
    <2>3. CASE op[c].pc # "reload"
      BY <2>0, <2>1, <2>3, NoOpIdle, OtherStep DEF Label
    <2> QED BY <2>2, <2>3
  <1>5. ASSUME NEW c \in Client, Request(c) PROVE TableInv'
    <2>0. op[c].pc # "reload" /\ loading' = loading /\ lcnc' = lcnc /\ tbl' = tbl
      BY <1>5 DEF Request
    <2> PICK k \in Kind, t \in Tool, u \in Tool :
          op' = [op EXCEPT ![c] = [NoOp EXCEPT !.pc = "queued", !.kind = k, !.tool = t,
                                               !.to = u, !.n = ops + 2]]
      BY <1>5 DEF Request
    <2> DEFINE o == [NoOp EXCEPT !.pc = "queued", !.kind = k, !.tool = t, !.to = u, !.n = ops + 2]
    <2>1. o.pc = "queued" /\ "pc" \in DOMAIN o
      BY DEF NoOp
    <2> HIDE DEF o
    <2>2. op' = [op EXCEPT ![c] = o]
      BY DEF o
    <2> QED BY <2>0, <2>1, <2>2, OtherStep DEF Label
  <1>6. ASSUME NEW c \in Client, RequestGet(c) PROVE TableInv'
    <2>0. op[c].pc # "reload" /\ loading' = loading /\ lcnc' = lcnc /\ tbl' = tbl
      BY <1>6 DEF RequestGet
    <2> DEFINE o == [NoOp EXCEPT !.pc = "queued"]
    <2>1. o.pc = "queued" /\ "pc" \in DOMAIN o
      BY DEF NoOp
    <2> HIDE DEF o
    <2>2. op' = [op EXCEPT ![c] = o]
      BY <1>6 DEF RequestGet, o
    <2> QED BY <2>0, <2>1, <2>2, OtherStep DEF Label
  <1>7. ASSUME NEW c \in Client,
               \/ TickMeta(c) \/ MetaLoaded(c) \/ MetaFails(c) \/ TickTable(c)
               \/ Mute(c) \/ Unmute(c) \/ Reconnect(c)
        PROVE  TableInv'
    BY <1>7, StillStep
       DEF TickMeta, MetaLoaded, MetaFails, TickTable, Mute, Unmute, Reconnect
  <1> QED BY <1>1, <1>2, <1>3, <1>4, <1>5, <1>6, <1>7 DEF MCNext, Next

(***************************************************************************)
(* The tool commands and the import: whatever fails on the way, whenever   *)
(* nothing is under way LinuxCNC's table is the one in the file, unless it *)
(* was written while the gateway had no link to LinuxCNC or the call that  *)
(* makes LinuxCNC load it has failed.                                      *)
(***************************************************************************)
THEOREM LcncFollowsFile == MCSpec => []LcncAgrees
  <1>1. TableInv => LcncAgrees
    BY DEF TableInv, Reloading, LcncAgrees, Quiet
  <1> QED BY TableInit, TableStep, <1>1, PTL DEF MCSpec

(***************************************************************************)
(* Types.  What a table holds was written by an operation that has taken   *)
(* place.                                                                  *)
(***************************************************************************)
TableOf(k) == [Tool -> 0..(k + 1)]
LibOf(k) == [Key -> TableOf(k)]

OpOf(k) == [pc : Label, kind : Kind, tool : Tool, to : Tool, table : TableOf(k),
            meta : TableOf(k), n : 0..(k + 1)]

\* Every kind of command goes its own way.
KindOf(o) ==
  /\ o.pc = "check" => o.kind \notin {"import", "get"}
  /\ o.pc \in {"write", "reload", "save"} => o.kind # "get"
  /\ o.pc = "library" => o.kind # "import"
  /\ o.pc = "reply" => o.kind = "get"

CommandsOK ==
  /\ op \in [Client -> OpOf(ops)]
  /\ \A c \in Client : KindOf(op[c])

TablesOK ==
  /\ tbl \in TableOf(ops) /\ lcnc \in TableOf(ops)
  /\ lib \in LibOf(ops) /\ cache \in LibOf(ops) \cup {Empty}

\* _cmd_lock: whoever is past the queue holds it.
LockOK ==
  /\ lock \in Client \cup {Nobody}
  /\ \A c \in Client : op[c].pc \notin {"idle", "queued"} <=> lock = c

CoreOK == ops \in 0..MaxOps /\ CommandsOK /\ TablesOK /\ LockOK

LEMMA TablesGrow ==
  ASSUME NEW k \in Nat, NEW m \in Nat, k <= m
  PROVE  /\ TableOf(k) \subseteq TableOf(m) /\ OpOf(k) \subseteq OpOf(m)
         /\ LibOf(k) \subseteq LibOf(m)
  <1>1. 0..(k + 1) \subseteq 0..(m + 1)
    OBVIOUS
  <1>2. TableOf(k) \subseteq TableOf(m)
    BY <1>1 DEF TableOf
  <1>3. OpOf(k) \subseteq OpOf(m)
    BY <1>1, <1>2 DEF OpOf
  <1>4. LibOf(k) \subseteq LibOf(m)
    BY <1>2 DEF LibOf
  <1> QED BY <1>2, <1>3, <1>4

LEMMA TableFacts ==
  ASSUME NEW k \in Nat
  PROVE  /\ Nothing \in TableOf(k) /\ First \in TableOf(k)
         /\ NoOp \in OpOf(k) /\ NoOp.pc = "idle" /\ NoOp.kind = "get" /\ NoOp.tool = 1
         /\ NoOp.to = 1 /\ NoOp.n = 0
  <1>1. Nothing \in TableOf(k) /\ First \in TableOf(k)
    BY DEF Nothing, First, TableOf
  <1>2. 0 \in 0..(k + 1)
    OBVIOUS
  <1>3. NoOp \in OpOf(k)
    BY <1>1, <1>2, ToolsAssumption DEF NoOp, OpOf, Label, Kind
  <1>4. NoOp.pc = "idle" /\ NoOp.kind = "get" /\ NoOp.tool = 1 /\ NoOp.to = 1 /\ NoOp.n = 0
    BY DEF NoOp
  <1> QED BY <1>1, <1>3, <1>4

\* What a command makes of a table, and of the library.
Edit(o, t) ==
  CASE o.kind \in {"save", "add"} -> [t EXCEPT ![o.tool] = o.n]
    [] o.kind = "delete"          -> [t EXCEPT ![o.tool] = 0]
    [] o.kind = "renumber"        -> [t EXCEPT ![o.tool] = 0, ![o.to] = o.n]
    [] o.kind = "import"          -> [Nothing EXCEPT ![o.tool] = o.n]
    [] o.kind = "get"             -> t

Describe(o, m) ==
  IF o.kind = "import" THEN [Nothing EXCEPT ![o.tool] = o.n] ELSE Described(o, m)

SameJob(o, p) == o.kind = p.kind /\ o.tool = p.tool /\ o.to = p.to /\ o.n = p.n

\* The file's content or the cached one, and the part of it that is used.
LEMMA LibraryType ==
  ASSUME CoreOK
  PROVE  AllData \in LibOf(ops) /\ IniKey \in Key /\ Library \in TableOf(ops)
  <1>1. AllData \in LibOf(ops) /\ IniKey \in Key
    BY DEF AllData, IniKey, Key, CoreOK, TablesOK
  <1> QED BY <1>1 DEF Library, LibOf

LEMMA EditFacts ==
  ASSUME NEW k \in Nat, NEW o \in OpOf(k), NEW t \in TableOf(k)
  PROVE  /\ Edit(o, t) \in TableOf(k) /\ Described(o, t) \in TableOf(k)
         /\ o.kind \notin {"import", "get"} => Edited(o) = Edit(o, o.table)
         /\ o.kind = "import" => Parsed(o) = Edit(o, t) /\ Parsed(o) = Describe(o, t)
         /\ o.kind # "import" => Parsed(o) = tbl /\ Describe(o, t) = Described(o, t)
         /\ o.kind = "get" => Edit(o, t) = t /\ Described(o, t) = t
  <1>1. /\ o.kind \in Kind /\ o.tool \in Tool /\ o.to \in Tool /\ o.n \in 0..(k + 1)
        /\ 0 \in 0..(k + 1)
    BY DEF OpOf
  <1>2. Nothing \in TableOf(k)
    BY TableFacts
  <1>3. Edit(o, t) \in TableOf(k)
    BY <1>1, <1>2 DEF Edit, TableOf, Kind
  <1>4. Described(o, t) \in TableOf(k)
    BY <1>1 DEF Described, TableOf, Kind
  <1>5. o.kind \notin {"import", "get"} => Edited(o) = Edit(o, o.table)
    BY <1>1 DEF Edited, Edit, Kind
  <1>6. o.kind = "import" => Parsed(o) = Edit(o, t) /\ Parsed(o) = Describe(o, t)
    BY DEF Parsed, Edit, Describe
  <1>7. o.kind # "import" => Parsed(o) = tbl /\ Describe(o, t) = Described(o, t)
    BY DEF Parsed, Describe
  <1>8. o.kind = "get" => Edit(o, t) = t /\ Described(o, t) = t
    BY DEF Edit, Described
  <1> QED BY <1>3, <1>4, <1>5, <1>6, <1>7, <1>8

LEMMA SameJobEdits ==
  ASSUME NEW o, NEW p, NEW t, SameJob(o, p)
  PROVE  Edit(o, t) = Edit(p, t) /\ Described(o, t) = Described(p, t)
         /\ Describe(o, t) = Describe(p, t)
  BY DEF SameJob, Edit, Described, Describe

(***************************************************************************)
(* What each action makes of a client's command; it touches no other one.  *)
(***************************************************************************)
Others(c) == \A d \in Client : d # c => op'[d] = op[d]

LEMMA OpStep ==
  ASSUME CoreOK, NEW k \in Nat, ops <= k, NEW c \in Client, NEW r \in OpOf(k),
         op' = [op EXCEPT ![c] = r]
  PROVE  op' \in [Client -> OpOf(k)] /\ op'[c] = r /\ Others(c)
  <1>1. op \in [Client -> OpOf(k)]
    <2>1. ops \in Nat
      BY ToolsAssumption DEF CoreOK
    <2> QED BY <2>1, TablesGrow DEF CoreOK, CommandsOK
  <1> QED BY <1>1 DEF Others

\* A command ends.
LEMMA EndFacts ==
  ASSUME CoreOK, NEW c \in Client, op' = [op EXCEPT ![c] = NoOp], ops' \in Nat, ops <= ops'
  PROVE  /\ op' \in [Client -> OpOf(ops')] /\ Others(c) /\ KindOf(op'[c])
         /\ op'[c].pc = "idle" /\ op'[c].kind = "get"
  <1>1. NoOp \in OpOf(ops') /\ NoOp.pc = "idle" /\ NoOp.kind = "get"
    BY TableFacts
  <1>2. op' \in [Client -> OpOf(ops')] /\ Others(c) /\ op'[c] = NoOp
    BY <1>1, OpStep
  <1> QED BY <1>1, <1>2 DEF KindOf

LEMMA RequestFacts ==
  ASSUME CoreOK, NEW c \in Client, Request(c) \/ RequestGet(c)
  PROVE  /\ op' \in [Client -> OpOf(ops')] /\ Others(c) /\ KindOf(op'[c])
         /\ op[c].pc = "idle" /\ op'[c].pc = "queued"
         /\ Request(c) => op'[c].n = ops + 2 /\ ops' = ops + 1
         /\ ~Request(c) => op'[c].kind = "get" /\ ops' = ops
  <1>a. ops \in Nat /\ ops + 1 \in Nat /\ ops <= ops /\ ops <= ops + 1
    BY ToolsAssumption DEF CoreOK
  <1>b. op[c].pc = "idle" /\ ops' = IF Request(c) THEN ops + 1 ELSE ops
    BY DEF Request, RequestGet, Operate
  <1>1. CASE Request(c)
    <2>1. ops' = ops + 1
      BY <1>1, <1>b
    <2>2. PICK k \in Kind \ {"get"}, t \in Tool, u \in Tool :
            op' = [op EXCEPT ![c] = [NoOp EXCEPT !.pc = "queued", !.kind = k, !.tool = t,
                                                 !.to = u, !.n = ops + 2]]
      BY <1>1 DEF Request
    <2> DEFINE r == [NoOp EXCEPT !.pc = "queued", !.kind = k, !.tool = t, !.to = u,
                                 !.n = ops + 2]
    <2>3. r \in OpOf(ops + 1) /\ r.pc = "queued" /\ r.n = ops + 2
      <3>1. NoOp \in OpOf(ops + 1) /\ ops + 2 \in 0..((ops + 1) + 1)
        BY <1>a, TableFacts
      <3> QED BY <3>1 DEF OpOf, Label
    <2>4. op' = [op EXCEPT ![c] = r]
      BY <2>2
    <2> HIDE DEF r
    <2>5. op' \in [Client -> OpOf(ops + 1)] /\ op'[c] = r /\ Others(c)
      BY <1>a, <2>3, <2>4, OpStep
    <2> QED BY <1>1, <1>b, <2>1, <2>3, <2>5 DEF KindOf
  <1>2. CASE ~Request(c)
    <2> DEFINE r == [NoOp EXCEPT !.pc = "queued"]
    <2>1. r \in OpOf(ops) /\ r.pc = "queued" /\ r.kind = "get"
      BY <1>a, TableFacts DEF OpOf, Label
    <2>2. op' = [op EXCEPT ![c] = r] /\ ops' = ops
      BY <1>2 DEF RequestGet
    <2> HIDE DEF r
    <2>3. op' \in [Client -> OpOf(ops)] /\ op'[c] = r /\ Others(c)
      BY <1>a, <2>1, <2>2, OpStep
    <2> QED BY <1>2, <1>b, <2>1, <2>2, <2>3 DEF KindOf
  <1> QED BY <1>1, <1>2

\* It goes from one label to the next: p, with the tables t and m.
GoneOn(c, p, t, m) ==
  /\ op' \in [Client -> OpOf(ops')] /\ Others(c) /\ SameJob(op'[c], op[c])
  /\ op'[c].pc = p /\ op'[c].table = t /\ op'[c].meta = m

LEMMA GoesOn ==
  ASSUME CoreOK, NEW c \in Client, NEW p \in Label, NEW t \in TableOf(ops),
         NEW m \in TableOf(ops), UNCHANGED ops,
         NEW r, r = [op[c] EXCEPT !.pc = p, !.table = t, !.meta = m],
         op' = [op EXCEPT ![c] = r]
  PROVE  GoneOn(c, p, t, m)
  <1>1. op[c] \in OpOf(ops) /\ ops \in Nat /\ ops <= ops
    BY ToolsAssumption DEF CoreOK, CommandsOK
  <1>2. /\ r \in OpOf(ops) /\ SameJob(r, op[c])
        /\ r.pc = p /\ r.table = t /\ r.meta = m
    BY <1>1 DEF OpOf, SameJob
  <1>3. op' \in [Client -> OpOf(ops)] /\ op'[c] = r /\ Others(c)
    BY <1>1, <1>2, OpStep
  <1> QED BY <1>2, <1>3 DEF GoneOn

Ended(c) == op' = [op EXCEPT ![c] = NoOp]

LEMMA BeginFacts ==
  ASSUME CoreOK, NEW c \in Client, Begin(c)
  PROVE  /\ op[c].pc = "queued" /\ lock = Nobody
         /\ \/ Ended(c) /\ lock' = lock
            \/ /\ lock' = c
               /\ GoneOn(c, CASE op[c].kind = "import" -> "write"
                              [] op[c].kind = "get"    -> "library"
                              [] OTHER                 -> "check",
                         Parsed(op[c]), op[c].meta)
  <1> DEFINE o == op[c]
             p == CASE o.kind = "import" -> "write" [] o.kind = "get" -> "library"
                    [] OTHER -> "check"
             t == Parsed(o)
             r == [o EXCEPT !.pc = p, !.table = t, !.meta = o.meta]
  <1>1. o \in OpOf(ops) /\ ops \in Nat /\ op \in [Client -> OpOf(ops)] /\ tbl \in TableOf(ops)
    BY ToolsAssumption DEF CoreOK, CommandsOK, TablesOK
  <1>2. p \in Label
    BY DEF Label
  <1>3. t \in TableOf(ops) /\ o.meta \in TableOf(ops)
    <2>1. o.meta \in TableOf(ops)
      BY <1>1 DEF OpOf
    <2> QED BY <1>1, <2>1, EditFacts
  <1>4. CASE Ended(c) /\ UNCHANGED lock
    BY <1>4 DEF Begin
  <1>5. CASE lock' = c /\ op' = [op EXCEPT ![c].table = t, ![c].pc = p]
    <2> HIDE DEF p, t
    <2>1. r = [o EXCEPT !.table = t, !.pc = p]
      BY <1>1 DEF OpOf
    <2>2. op' = [op EXCEPT ![c] = r]
      BY <1>1, <1>5, <2>1
    <2>3. UNCHANGED ops
      BY DEF Begin
    <2>4. GoneOn(c, p, t, o.meta)
      BY <1>2, <1>3, <2>1, <2>2, <2>3, GoesOn
    <2> QED BY <1>5, <2>4 DEF Begin, p, t
  <1> QED BY <1>4, <1>5 DEF Begin, Ended

LEMMA CheckFacts ==
  ASSUME CoreOK, NEW c \in Client, Check(c)
  PROVE  /\ op[c].pc = "check"
         /\ \/ Ended(c) /\ lock' = Nobody
            \/ lock' = lock /\ GoneOn(c, "write", Edit(op[c], op[c].table), op[c].meta)
  <1> DEFINE o == op[c]
             t == Edited(o)
             r == [o EXCEPT !.pc = "write", !.table = t, !.meta = o.meta]
  <1>1. /\ o \in OpOf(ops) /\ ops \in Nat /\ op \in [Client -> OpOf(ops)]
        /\ o.pc = "check" /\ o.kind \notin {"import", "get"}
    BY ToolsAssumption DEF CoreOK, CommandsOK, KindOf, Check
  <1>2. o.meta \in TableOf(ops) /\ o.table \in TableOf(ops)
    BY <1>1 DEF OpOf
  <1>3. t \in TableOf(ops) /\ t = Edit(o, o.table)
    BY <1>1, <1>2, EditFacts
  <1>4. CASE op' = [op EXCEPT ![c].table = t, ![c].pc = "write"] /\ UNCHANGED lock
    <2> HIDE DEF t
    <2>1. r = [o EXCEPT !.table = t, !.pc = "write"]
      BY <1>1 DEF OpOf
    <2>2. op' = [op EXCEPT ![c] = r]
      BY <1>1, <1>4, <2>1
    <2>3. UNCHANGED ops /\ "write" \in Label
      BY DEF Check, Label
    <2>4. GoneOn(c, "write", t, o.meta)
      BY <1>2, <1>3, <2>1, <2>2, <2>3, GoesOn
    <2> QED BY <1>1, <1>3, <1>4, <2>4
  <1> QED BY <1>1, <1>4 DEF Check, Ended

LEMMA WriteFacts ==
  ASSUME CoreOK, NEW c \in Client, WriteTable(c)
  PROVE  op[c].pc = "write" /\ GoneOn(c, "reload", op[c].table, op[c].meta)
  <1> DEFINE o == op[c]
             r == [o EXCEPT !.pc = "reload", !.table = o.table, !.meta = o.meta]
  <1>1. o \in OpOf(ops) /\ op \in [Client -> OpOf(ops)]
    BY DEF CoreOK, CommandsOK
  <1>2. o.meta \in TableOf(ops) /\ o.table \in TableOf(ops) /\ "reload" \in Label
    BY <1>1 DEF OpOf, Label
  <1>3. r = [o EXCEPT !.pc = "reload"]
    BY <1>1 DEF OpOf
  <1>4. op' = [op EXCEPT ![c] = r] /\ UNCHANGED ops
    BY <1>1, <1>3 DEF WriteTable
  <1> HIDE DEF r
  <1>5. r = [o EXCEPT !.pc = "reload", !.table = o.table, !.meta = o.meta]
    BY DEF r
  <1>6. GoneOn(c, "reload", o.table, o.meta)
    BY <1>2, <1>4, <1>5, GoesOn
  <1> QED BY <1>6 DEF WriteTable

LEMMA ReloadFacts ==
  ASSUME CoreOK, NEW c \in Client, Reload(c)
  PROVE  /\ op[c].pc = "reload"
         /\ op[c].kind = "import" => GoneOn(c, "save", op[c].table, op[c].table)
         /\ op[c].kind # "import" => GoneOn(c, "library", op[c].table, op[c].meta)
  <1> DEFINE o == op[c]
             p == IF o.kind = "import" THEN "save" ELSE "library"
             m == IF o.kind = "import" THEN o.table ELSE o.meta
             r == [o EXCEPT !.pc = p, !.table = o.table, !.meta = m]
  <1>1. o \in OpOf(ops) /\ op \in [Client -> OpOf(ops)]
    BY DEF CoreOK, CommandsOK
  <1>2. m \in TableOf(ops) /\ o.table \in TableOf(ops) /\ p \in Label
    BY <1>1 DEF OpOf, Label
  <1>3. op' = [op EXCEPT ![c] = [o EXCEPT !.pc = p, !.meta = m]] /\ UNCHANGED ops
    BY <1>1 DEF Reload
  <1> HIDE DEF p, m
  <1>4. r = [o EXCEPT !.pc = p, !.meta = m]
    BY <1>1 DEF OpOf
  <1>5. GoneOn(c, p, o.table, m)
    BY <1>2, <1>3, <1>4, GoesOn
  <1> QED BY <1>5 DEF Reload, p, m

LEMMA LibraryFacts ==
  ASSUME CoreOK, NEW c \in Client, LoadLibrary(c)
  PROVE  /\ op[c].pc = "library" /\ Described(op[c], Library) \in TableOf(ops)
         /\ GoneOn(c, IF op[c].kind = "get" THEN "reply" ELSE "save", op[c].table,
                   Described(op[c], Library))
  <1> DEFINE o == op[c]
             p == IF o.kind = "get" THEN "reply" ELSE "save"
             m == Described(o, Library)
             r == [o EXCEPT !.pc = p, !.table = o.table, !.meta = m]
  <1>1. o \in OpOf(ops) /\ op \in [Client -> OpOf(ops)] /\ ops \in Nat
    BY ToolsAssumption DEF CoreOK, CommandsOK
  <1>2. o.table \in TableOf(ops) /\ p \in Label
    BY <1>1 DEF OpOf, Label
  <1>3. m \in TableOf(ops)
    <2>1. Library \in TableOf(ops)
      BY LibraryType
    <2> QED BY <1>1, <2>1, EditFacts
  <1>4. op' = [op EXCEPT ![c] = [o EXCEPT !.meta = m, !.pc = p]] /\ UNCHANGED ops
    BY <1>1 DEF LoadLibrary
  <1> HIDE DEF p, m
  <1>5. r = [o EXCEPT !.meta = m, !.pc = p]
    BY <1>1 DEF OpOf
  <1>6. GoneOn(c, p, o.table, m)
    BY <1>2, <1>3, <1>4, <1>5, GoesOn
  <1> QED BY <1>3, <1>6 DEF LoadLibrary, p, m

(***************************************************************************)
(* One step keeps the types of the core, and the lock.                     *)
(***************************************************************************)
LEMMA OpsStep ==
  ASSUME CoreOK, [Next]_vars
  PROVE  /\ ops \in Nat /\ ops' \in 0..MaxOps /\ ops' \in Nat /\ ops <= ops'
         /\ ops' # ops => ops < MaxOps /\ ops' = ops + 1
  <1>a. ops \in 0..MaxOps
    BY DEF CoreOK
  <1>b. MaxOps \in Nat
    BY ToolsAssumption
  <1>1. ops' = ops \/ Operate
    BY DEF Next, vars, LcncLoads, LcncChangesTool, LcncMeasures, LcncRestarts, LinkLost,
           LinkBack, PollTool, Request, RequestGet, Command, Begin, Check, WriteTable, Reload,
           LoadLibrary, SaveLibrary, Reply, Fails, TickMeta, MetaLoaded, MetaFails, TickTable,
           Mute, Unmute, Reconnect
  <1> QED BY <1>a, <1>b, <1>1 DEF Operate

(***************************************************************************)
(* Who writes what: the variables that few of the actions change.          *)
(***************************************************************************)
LEMMA Frames ==
  ASSUME Next
  PROVE  /\ version' = version \/ \E c \in Client : Reload(c)
         /\ loading' = loading \/ loading' = FALSE \/ \E c \in Client : Reload(c)
         /\ dirty' = dirty \/ dirty' = FALSE \/ \E c \in Client : SaveLibrary(c)
         /\ page' = page \/ \E c \in Client : Reply(c)
         /\ views' = views \/ \E c \in Client : MetaLoaded(c)
  <1> DEFINE Goal == /\ version' = version \/ \E c \in Client : Reload(c)
                     /\ loading' = loading \/ loading' = FALSE \/ \E c \in Client : Reload(c)
                     /\ dirty' = dirty \/ dirty' = FALSE \/ \E c \in Client : SaveLibrary(c)
                     /\ page' = page \/ \E c \in Client : Reply(c)
                     /\ views' = views \/ \E c \in Client : MetaLoaded(c)
  <1> USE DEF fileVars, lcncVars, pageVars
  <1>0. CASE LinkLost \/ LinkBack \/ PollTool
    BY <1>0 DEF LinkLost, LinkBack, PollTool
  <1>1. CASE LcncLoads \/ LcncChangesTool \/ LcncMeasures \/ LcncRestarts
    BY <1>1 DEF LcncLoads, LcncChangesTool, LcncMeasures, LcncRestarts
  <1>2. ASSUME NEW c \in Client, Request(c) \/ RequestGet(c) \/ Fails(c) PROVE Goal
    BY <1>2 DEF Request, RequestGet, Fails
  <1>3. ASSUME NEW c \in Client, Begin(c) \/ Check(c) \/ WriteTable(c) \/ LoadLibrary(c) PROVE Goal
    BY <1>3 DEF Begin, Check, WriteTable, LoadLibrary
  <1>4. ASSUME NEW c \in Client, SaveLibrary(c) \/ Reply(c) PROVE Goal
    BY <1>4 DEF SaveLibrary, Reply
  <1>5. ASSUME NEW c \in Client, Reload(c) PROVE Goal
    BY <1>5 DEF Reload
  <1>6. ASSUME NEW c \in Client, TickMeta(c) \/ MetaLoaded(c) \/ MetaFails(c) PROVE Goal
    BY <1>6 DEF TickMeta, MetaLoaded, MetaFails
  <1>7. ASSUME NEW c \in Client, TickTable(c) \/ Mute(c) \/ Unmute(c) \/ Reconnect(c) PROVE Goal
    BY <1>7 DEF TickTable, Mute, Unmute, Reconnect
  <1> QED BY <1>0, <1>7, <1>1, <1>2, <1>3, <1>4, <1>5, <1>6 DEF Next, Command

LEMMA TablesStep ==
  ASSUME CoreOK, [Next]_vars
  PROVE  TablesOK'
  <1>a. /\ ops \in Nat /\ ops' \in Nat /\ ops <= ops' /\ TableOf(ops) \subseteq TableOf(ops')
        /\ LibOf(ops) \subseteq LibOf(ops') /\ TablesOK
    BY OpsStep, TablesGrow DEF CoreOK
  <1>b. /\ op \in [Client -> OpOf(ops)] /\ AllData \in LibOf(ops) /\ IniKey \in Key
        /\ Library \in TableOf(ops)
    BY LibraryType DEF CoreOK, CommandsOK
  <1>1. CASE UNCHANGED <<tbl, lib, cache, lcnc>>
    BY <1>1, <1>a DEF TablesOK
  <1>2. CASE LcncLoads \/ LcncRestarts
    BY <1>2, <1>a DEF LcncLoads, LcncRestarts, fileVars, TablesOK
  <1>3. CASE LcncMeasures
    <2>1. lcnc' \in TableOf(ops')
      BY <1>3, <1>a DEF LcncMeasures, Operate, TablesOK, TableOf
    <2> QED BY <1>3, <1>a, <2>1 DEF LcncMeasures, TablesOK
  <1>4. ASSUME NEW c \in Client, WriteTable(c) PROVE TablesOK'
    <2>1. op[c].table \in TableOf(ops)
      BY <1>b DEF OpOf
    <2> QED BY <1>4, <1>a, <2>1 DEF WriteTable, TablesOK, lcncVars
  <1>5. ASSUME NEW c \in Client, LoadLibrary(c) PROVE TablesOK'
    <2>1. cache' \in LibOf(ops)
      BY <1>5, <1>b, LibraryFacts DEF LoadLibrary, LibOf
    <2> QED BY <1>5, <1>a, <2>1 DEF LoadLibrary, TablesOK, lcncVars
  <1>6. ASSUME NEW c \in Client, SaveLibrary(c) PROVE TablesOK'
    <2>1. op[c].meta \in TableOf(ops)
      BY <1>b DEF OpOf
    <2>2. lib' \in LibOf(ops)
      BY <1>6, <1>a, <1>b, <2>1 DEF SaveLibrary, LibOf, TablesOK
    <2> QED BY <1>6, <1>a, <2>2 DEF SaveLibrary, TablesOK, lcncVars
  <1>7. ASSUME NEW c \in Client, MetaLoaded(c) PROVE TablesOK'
    BY <1>7, <1>a, <1>b DEF MetaLoaded, TablesOK, lcncVars
  <1> QED
    BY <1>1, <1>2, <1>3, <1>4, <1>5, <1>6, <1>7
       DEF Next, vars, fileVars, lcncVars, LcncChangesTool, LinkLost, LinkBack, PollTool,
           Request, RequestGet, Command, Begin, Check, Reload, Reply, Fails, TickMeta,
           MetaFails, TickTable, Mute, Unmute, Reconnect

\* What keeps the commands and the lock: c's command is now of a sound kind, and
\* the lock is its own iff it is past the queue.
LEMMA CommandKept ==
  ASSUME CoreOK, NEW c \in Client, op' \in [Client -> OpOf(ops')], Others(c), KindOf(op'[c]),
         \/ lock' = lock /\ (op'[c].pc \notin {"idle", "queued"} <=> lock = c)
         \/ lock' = c /\ lock = Nobody /\ op'[c].pc \notin {"idle", "queued"}
         \/ lock' = Nobody /\ lock = c /\ op'[c].pc \in {"idle", "queued"}
  PROVE  CommandsOK' /\ LockOK'
  <1>a. LockOK /\ CommandsOK /\ Nobody \notin Client
    BY ToolsAssumption DEF CoreOK, Nobody
  <1>1. CommandsOK'
    <2>1. \A d \in Client : KindOf(op'[d])
      BY <1>a DEF Others, CommandsOK
    <2> QED BY <2>1 DEF CommandsOK, KindOf
  <1>2. \A d \in Client : op'[d].pc \notin {"idle", "queued"} <=> lock' = d
    BY <1>a DEF LockOK, Others
  <1>3. lock' \in Client \cup {Nobody}
    BY <1>a DEF LockOK
  <1> QED BY <1>1, <1>2, <1>3 DEF LockOK

LEMMA CommandsStep ==
  ASSUME CoreOK, [Next]_vars
  PROVE  CommandsOK' /\ LockOK'
  <1>a. /\ ops \in Nat /\ ops' \in Nat /\ ops <= ops' /\ OpOf(ops) \subseteq OpOf(ops')
    BY OpsStep, TablesGrow
  <1>b. /\ op \in [Client -> OpOf(ops)] /\ \A c \in Client : KindOf(op[c])
        /\ \A c \in Client : op[c].pc \notin {"idle", "queued"} <=> lock = c
        /\ Nobody \notin Client
    BY ToolsAssumption DEF CoreOK, CommandsOK, LockOK, Nobody
  <1>c. \A c \in Client : op[c].pc \in Label /\ op[c].kind \in Kind
    BY <1>b DEF OpOf
  <1>1. CASE UNCHANGED <<op, lock>>
    BY <1>1, <1>a, <1>b DEF CoreOK, CommandsOK, KindOf, LockOK
  <1>2. ASSUME NEW c \in Client, Request(c) \/ RequestGet(c) PROVE CommandsOK' /\ LockOK'
    <2>1. /\ op' \in [Client -> OpOf(ops')] /\ Others(c) /\ KindOf(op'[c])
          /\ op[c].pc = "idle" /\ op'[c].pc = "queued"
      BY <1>2, RequestFacts
    <2>2. lock' = lock
      BY <1>2 DEF Request, RequestGet
    <2> QED BY <1>b, <2>1, <2>2, CommandKept
  <1>3. ASSUME NEW c \in Client, Ended(c), op[c].pc \notin {"idle", "queued"} => lock' = Nobody,
               op[c].pc \in {"idle", "queued"} => lock' = lock
        PROVE CommandsOK' /\ LockOK'
    <2>1. /\ op' \in [Client -> OpOf(ops')] /\ Others(c) /\ KindOf(op'[c])
          /\ op'[c].pc = "idle"
      BY <1>3, <1>a, EndFacts DEF Ended
    <2> QED BY <1>3, <1>b, <2>1, CommandKept
  <1>4. ASSUME NEW c \in Client, NEW p, NEW t, NEW m, GoneOn(c, p, t, m),
               p \notin {"idle", "queued"}, KindOf(op'[c]),
               IF op[c].pc = "queued" THEN lock' = c /\ lock = Nobody
               ELSE lock' = lock /\ op[c].pc # "idle"
        PROVE CommandsOK' /\ LockOK'
    BY <1>4, <1>b, CommandKept DEF GoneOn
  <1>5. ASSUME NEW c \in Client, Begin(c) PROVE CommandsOK' /\ LockOK'
    <2>1. op[c].pc = "queued" /\ lock = Nobody
      BY <1>5, BeginFacts
    <2>2. CASE Ended(c) /\ lock' = lock
      BY <1>3, <2>1, <2>2
    <2>3. CASE ~(Ended(c) /\ lock' = lock)
      <3> DEFINE p == CASE op[c].kind = "import" -> "write" [] op[c].kind = "get" -> "library"
                        [] OTHER -> "check"
      <3>1. lock' = c /\ GoneOn(c, p, Parsed(op[c]), op[c].meta)
        BY <1>5, <2>3, BeginFacts
      <3>2. /\ op[c].kind = "import" => p = "write"
            /\ op[c].kind = "get" => p = "library"
            /\ op[c].kind \notin {"import", "get"} => p = "check"
        OBVIOUS
      <3> HIDE DEF p
      <3>3. op'[c].pc = p /\ op'[c].kind = op[c].kind /\ p \notin {"idle", "queued"}
        BY <3>1, <3>2 DEF GoneOn, SameJob
      <3>4. KindOf(op'[c])
        BY <3>2, <3>3 DEF KindOf
      <3> QED BY <1>4, <2>1, <3>1, <3>3, <3>4
    <2> QED BY <2>2, <2>3
  <1>6. ASSUME NEW c \in Client, Check(c) PROVE CommandsOK' /\ LockOK'
    <2>1. op[c].pc = "check" /\ op[c].kind \notin {"import", "get"}
      BY <1>6, <1>b, CheckFacts DEF KindOf
    <2>2. CASE Ended(c) /\ lock' = Nobody
      BY <1>3, <2>1, <2>2
    <2>3. CASE lock' = lock /\ GoneOn(c, "write", Edit(op[c], op[c].table), op[c].meta)
      <3>1. KindOf(op'[c])
        BY <2>1, <2>3 DEF GoneOn, SameJob, KindOf
      <3> QED BY <1>4, <2>1, <2>3, <3>1
    <2> QED BY <1>6, <2>2, <2>3, CheckFacts
  <1>7. ASSUME NEW c \in Client, WriteTable(c) PROVE CommandsOK' /\ LockOK'
    <2>1. op[c].pc = "write" /\ GoneOn(c, "reload", op[c].table, op[c].meta) /\ lock' = lock
      BY <1>7, WriteFacts DEF WriteTable
    <2>2. KindOf(op'[c])
      BY <1>b, <2>1 DEF GoneOn, SameJob, KindOf
    <2> QED BY <1>4, <2>1, <2>2
  <1>8. ASSUME NEW c \in Client, Reload(c) PROVE CommandsOK' /\ LockOK'
    <2>1. op[c].pc = "reload" /\ lock' = lock /\ op[c].kind # "get"
      BY <1>8, <1>b DEF Reload, KindOf
    <2>2. CASE op[c].kind = "import"
      <3>1. GoneOn(c, "save", op[c].table, op[c].table)
        BY <1>8, <2>2, ReloadFacts
      <3>2. KindOf(op'[c])
        BY <2>1, <3>1 DEF GoneOn, SameJob, KindOf
      <3> QED BY <1>4, <2>1, <3>1, <3>2
    <2>3. CASE op[c].kind # "import"
      <3>1. GoneOn(c, "library", op[c].table, op[c].meta)
        BY <1>8, <2>3, ReloadFacts
      <3>2. KindOf(op'[c])
        BY <2>1, <2>3, <3>1 DEF GoneOn, SameJob, KindOf
      <3> QED BY <1>4, <2>1, <3>1, <3>2
    <2> QED BY <2>2, <2>3
  <1>9. ASSUME NEW c \in Client, LoadLibrary(c) PROVE CommandsOK' /\ LockOK'
    <2> DEFINE p == IF op[c].kind = "get" THEN "reply" ELSE "save"
    <2>1. /\ op[c].pc = "library" /\ lock' = lock
          /\ GoneOn(c, p, op[c].table, Described(op[c], Library))
      BY <1>9, LibraryFacts DEF LoadLibrary
    <2>2. KindOf(op'[c])
      BY <2>1 DEF GoneOn, SameJob, KindOf
    <2>3. p \notin {"idle", "queued"}
      OBVIOUS
    <2> HIDE DEF p
    <2> QED BY <1>4, <2>1, <2>2, <2>3
  <1>10. ASSUME NEW c \in Client, SaveLibrary(c) \/ Reply(c) \/ Fails(c)
         PROVE CommandsOK' /\ LockOK'
    BY <1>3, <1>10 DEF SaveLibrary, Reply, Fails, Ended
  <1> QED
    BY <1>1, <1>2, <1>5, <1>6, <1>7, <1>8, <1>9, <1>10
       DEF Next, vars, LcncLoads, LcncChangesTool, LcncMeasures, LcncRestarts, LinkLost,
           LinkBack, PollTool, Command, TickMeta, MetaLoaded, MetaFails, TickTable, Mute,
           Unmute, Reconnect

LEMMA CoreStep == CoreOK /\ [Next]_vars => CoreOK'
  BY OpsStep, TablesStep, CommandsStep DEF CoreOK

LEMMA CoreInit == Init => CoreOK
  <1> SUFFICES ASSUME Init PROVE CoreOK
    OBVIOUS
  <1>1. /\ NoOp \in OpOf(0) /\ NoOp.pc = "idle" /\ NoOp.kind = "get"
        /\ First \in TableOf(0) /\ Nothing \in TableOf(0) /\ Nobody \notin Client
        /\ 0 \in 0..MaxOps
    BY TableFacts, ToolsAssumption DEF Nobody
  <1>2. CommandsOK
    BY <1>1 DEF Init, CommandsOK, KindOf
  <1>3. TablesOK
    BY <1>1 DEF Init, TablesOK, LibOf
  <1>4. LockOK
    BY <1>1 DEF Init, LockOK
  <1> QED BY <1>1, <1>2, <1>3, <1>4 DEF Init, CoreOK

(***************************************************************************)
(* The edits.  Only the client whose action it is moves.                   *)
(***************************************************************************)
Acts(c) == Request(c) \/ RequestGet(c) \/ Command(c) \/ Fails(c)

LEMMA OthersWait ==
  ASSUME CoreOK, Next, NEW d \in Client, ~Acts(d)
  PROVE  op'[d] = op[d]
  <1>a. ops \in Nat /\ ops' \in Nat /\ ops <= ops'
    BY OpsStep
  <1>1. ASSUME NEW c \in Client, Request(c) \/ RequestGet(c) PROVE Others(c)
    BY <1>1, RequestFacts
  <1>2. ASSUME NEW c \in Client, SaveLibrary(c) \/ Reply(c) \/ Fails(c) PROVE Others(c)
    BY <1>2, <1>a, EndFacts DEF SaveLibrary, Reply, Fails
  <1>3. ASSUME NEW c \in Client, Begin(c) \/ Check(c) PROVE Others(c)
    BY <1>3, <1>a, EndFacts, BeginFacts, CheckFacts DEF Ended, GoneOn
  <1>4. ASSUME NEW c \in Client, WriteTable(c) \/ LoadLibrary(c) PROVE Others(c)
    BY <1>4, WriteFacts, LibraryFacts DEF GoneOn
  <1>5. ASSUME NEW c \in Client, Reload(c) PROVE Others(c)
    BY <1>5, ReloadFacts DEF GoneOn
  <1>6. ASSUME NEW c \in Client, Acts(c) PROVE op'[d] = op[d]
    <2>1. c # d
      BY <1>6
    <2>2. Others(c)
      BY <1>1, <1>2, <1>3, <1>4, <1>5, <1>6 DEF Acts, Command
    <2> QED BY <2>1, <2>2 DEF Others
  <1>7. CASE UNCHANGED op
    BY <1>7
  <1> QED
    BY <1>6, <1>7
       DEF Next, Acts, LcncLoads, LcncChangesTool, LcncMeasures, LcncRestarts, LinkLost,
           LinkBack, PollTool, TickMeta, MetaLoaded, MetaFails, TickTable, Mute, Unmute,
           Reconnect

\* What the history makes of an edit that is acknowledged, and when it stays.
LEMMA SaveExpected ==
  ASSUME CoreOK, MCNext, NEW c \in Client, SaveLibrary(c)
  PROVE  expected' = [table |-> Edit(op[c], expected.table),
                      meta |-> Describe(op[c], expected.meta)]
  <1>a. /\ op[c] \in OpOf(ops) /\ op[c].pc = "save" /\ op[c].kind # "get" /\ op[c].kind \in Kind
    BY DEF CoreOK, CommandsOK, KindOf, OpOf, SaveLibrary
  <1>1. ASSUME NEW d \in Client, SaveLibrary(d) PROVE d = c
    BY <1>a, <1>1 DEF SaveLibrary, CoreOK, LockOK
  <1>2. (CHOOSE d \in Client : SaveLibrary(d)) = c
    BY <1>1
  <1> DEFINE o == [op[c] EXCEPT !.table = expected.table]
  <1>3. expected' = AfterEdit(op[c])
    BY <1>2 DEF MCNext
  <1>4. SameJob(o, op[c]) /\ o.table = expected.table
    BY <1>a DEF OpOf, SameJob
  <1>5. op[c].kind = "import" => expected' = [table |-> Parsed(op[c]), meta |-> Parsed(op[c])]
    BY <1>3 DEF AfterEdit
  <1>6. op[c].kind # "import"
          => expected' = [table |-> Edited(o), meta |-> Described(op[c], expected.meta)]
    BY <1>3 DEF AfterEdit
  <1> HIDE DEF o
  <1>7. CASE op[c].kind = "import"
    BY <1>5, <1>7 DEF Parsed, Edit, Describe
  <1>8. CASE op[c].kind # "import"
    <2>1. o.kind \in {"save", "add", "delete", "renumber"}
      BY <1>a, <1>4, <1>8 DEF SameJob, Kind
    <2>2. Edited(o) = Edit(o, expected.table)
      BY <1>4, <2>1 DEF Edited, Edit
    <2>3. Edit(o, expected.table) = Edit(op[c], expected.table)
      BY <1>4, SameJobEdits
    <2> QED BY <1>6, <1>8, <2>2, <2>3 DEF Describe
  <1> QED BY <1>7, <1>8

LEMMA ExpectedStays ==
  ASSUME MCNext, \A c \in Client : ~SaveLibrary(c)
  PROVE  expected' = IF LcncMeasures THEN AfterMeasure ELSE expected
  BY DEF MCNext

(***************************************************************************)
(* How far the command that holds the lock has come: what it has read is   *)
(* what the acknowledged edits left, and what it has written since is its  *)
(* own edit of that.                                                       *)
(***************************************************************************)
ProgressOf(o, table, library, e) ==
  /\ o.pc \in {"check", "write"} => table = e.table
  /\ o.pc = "check" => o.table = table
  /\ o.pc \in {"write", "reload"} => o.table = Edit(o, e.table)
  /\ o.pc \in {"reload", "library", "save", "reply"} => table = Edit(o, e.table)
  /\ o.pc # "save" => library = e.meta
  /\ o.pc = "save" => o.meta = Describe(o, e.meta)

\* The cached dict is the file's content, except between an edit's change of it
\* in place and the save that drops it.
CacheOK ==
  (\A c \in Client : op[c].pc = "save" => op[c].kind = "import") => cache \in {Empty, lib}

Progress ==
  /\ lock = Nobody => tbl = expected.table /\ lib["ini"] = expected.meta
  /\ \A c \in Client : lock = c => ProgressOf(op[c], tbl, lib["ini"], expected)
  /\ CacheOK

EditInv ==
  /\ CoreOK /\ TableInv
  /\ expected = [table |-> expected.table, meta |-> expected.meta]
  /\ ~mixed /\ ~broken /\ ~strayed => Progress

\* The steps that touch neither files nor commands.
LEMMA ProgressStill ==
  ASSUME Progress, UNCHANGED <<tbl, lib, op, lock, expected>>,
         cache' \in {cache, lib} \/ (cache = Empty /\ cache' = lib)
  PROVE  Progress'
  <1>1. CacheOK'
    BY DEF Progress, CacheOK, Empty
  <1> QED BY <1>1 DEF Progress, Nobody

\* The steps of a client that does not hold the lock and does not take it.
LEMMA ProgressWaits ==
  ASSUME Progress, NEW c \in Client, lock # c, Others(c), op[c].pc # "save",
         op'[c].pc # "save", UNCHANGED <<tbl, lib, cache, lock, expected>>
  PROVE  Progress'
  <1>1. CacheOK'
    BY DEF Progress, CacheOK, Others, Empty
  <1>2. \A d \in Client : lock' = d => ProgressOf(op'[d], tbl, lib["ini"], expected)
    BY DEF Progress, Others
  <1> QED BY <1>1, <1>2 DEF Progress, Nobody

LEMMA CacheFollows ==
  ASSUME CoreOK, Progress,
         \A c \in Client : lock = c /\ op[c].pc = "save" => op[c].kind = "import"
  PROVE  cache \in {Empty, lib} /\ AllData = lib
  <1>1. \A c \in Client : op[c].pc = "save" => lock = c
    BY DEF CoreOK, LockOK
  <1> QED BY <1>1 DEF Progress, CacheOK, AllData

\* The command that holds the lock has gone on, or has just taken the lock.
LEMMA ProgressMoves ==
  ASSUME NEW c \in Client, lock' = c, ProgressOf(op'[c], tbl', lib'["ini"], expected'),
         cache' \in {Empty, lib'} \/ (op'[c].pc = "save" /\ op'[c].kind # "import")
  PROVE  Progress'
  <1>1. Nobody \notin Client
    BY ToolsAssumption DEF Nobody
  <1> QED BY <1>1 DEF Progress, CacheOK, Empty, Nobody

\* It has ended.
LEMMA ProgressEnds ==
  ASSUME lock' = Nobody, tbl' = expected'.table, lib'["ini"] = expected'.meta,
         cache' \in {Empty, lib'}
  PROVE  Progress'
  <1>1. Nobody \notin Client
    BY ToolsAssumption DEF Nobody
  <1> QED BY <1>1 DEF Progress, CacheOK, Empty, Nobody

LEMMA CommandProgress ==
  ASSUME EditInv, MCNext, ~mixed, ~broken, ~strayed, ~strayed', NEW c \in Client, Command(c)
  PROVE  Progress'
  <1>a. /\ CoreOK /\ Progress /\ ops \in Nat /\ ops' = ops /\ ops <= ops'
        /\ op \in [Client -> OpOf(ops)] /\ tbl \in TableOf(ops)
        /\ \A d \in Client : KindOf(op[d])
        /\ \A d \in Client : op[d].pc \notin {"idle", "queued"} <=> lock = d
        /\ Nobody \notin Client
    <2>1. ops' = ops
      BY DEF Command, Begin, Check, WriteTable, Reload, LoadLibrary, SaveLibrary, Reply
    <2>2. ops \in Nat
      BY OpsStep DEF EditInv, MCNext
    <2> QED BY <2>1, <2>2, ToolsAssumption
            DEF EditInv, CoreOK, CommandsOK, TablesOK, LockOK, Nobody
  <1>b. ~SaveLibrary(c) => expected' = expected
    <2>1. ASSUME ~SaveLibrary(c), NEW d \in Client, SaveLibrary(d) PROVE FALSE
      <3>1. op[d].pc = "save" /\ op'[d].pc = "idle"
        BY <1>a, <2>1, EndFacts DEF SaveLibrary
      <3>2. lock = d
        BY <1>a, <3>1
      <3>3. op[c].pc \notin {"idle", "queued"} => c = d
        BY <1>a, <3>2
      <3>4. ~Begin(c)
        BY <1>a, <3>2, BeginFacts
      <3> QED BY <2>1, <3>1, <3>3, <3>4
              DEF Command, Check, WriteTable, Reload, LoadLibrary, Reply
    <2>2. ~LcncMeasures
      BY <1>a DEF LcncMeasures, Operate
    <2> QED BY <2>1, <2>2, ExpectedStays
  <1>c. op[c].pc # "idle" /\ (op[c].pc # "queued" => lock = c)
    BY <1>a DEF Command, Begin, Check, WriteTable, Reload, LoadLibrary, SaveLibrary, Reply
  <1>d. lock = c => ProgressOf(op[c], tbl, lib["ini"], expected)
    BY <1>a DEF Progress
  <1>e. lock = c /\ op[c].pc # "save" => cache \in {Empty, lib} /\ AllData = lib
    BY <1>a, CacheFollows
  <1>f. LoadLibrary(c) \/ SaveLibrary(c) => IniKey = "ini"
    BY DEF MCNext, IniKey
  <1>1. CASE Begin(c)
    <2>1. /\ op[c].pc = "queued" /\ lock = Nobody /\ expected' = expected
          /\ UNCHANGED <<tbl, lib, cache>> /\ tbl = expected.table /\ lib["ini"] = expected.meta
      BY <1>1, <1>a, <1>b, BeginFacts DEF Begin, fileVars, Progress, SaveLibrary
    <2>2. cache \in {Empty, lib}
      BY <1>a, <2>1, CacheFollows
    <2>3. CASE Ended(c) /\ lock' = lock
      BY <2>1, <2>2, <2>3, ProgressEnds
    <2>4. CASE ~(Ended(c) /\ lock' = lock)
      <3> DEFINE p == CASE op[c].kind = "import" -> "write" [] op[c].kind = "get" -> "library"
                        [] OTHER -> "check"
                 o == op'[c]
      <3>1. lock' = c /\ GoneOn(c, p, Parsed(op[c]), op[c].meta)
        BY <1>a, <1>1, <2>4, BeginFacts
      <3>2. /\ op[c].kind = "import" => p = "write"
            /\ op[c].kind = "get" => p = "library"
            /\ op[c].kind \notin {"import", "get"} => p = "check"
        OBVIOUS
      <3> HIDE DEF p
      <3>3. /\ o \in OpOf(ops) /\ o.pc = p /\ o.kind = op[c].kind /\ o.table = Parsed(op[c])
            /\ Edit(o, tbl) = Edit(op[c], tbl)
        BY <1>a, <3>1, SameJobEdits DEF GoneOn, SameJob
      <3>4. /\ op[c].kind = "import" => Parsed(op[c]) = Edit(op[c], tbl)
            /\ op[c].kind # "import" => Parsed(op[c]) = tbl
            /\ op[c].kind = "get" => Edit(op[c], tbl) = tbl
        BY <1>a, EditFacts
      <3> HIDE DEF o
      <3>5. ProgressOf(o, tbl, lib["ini"], expected)
        BY <2>1, <3>2, <3>3, <3>4 DEF ProgressOf
      <3> QED BY <2>1, <2>2, <3>1, <3>5, ProgressMoves DEF o
    <2> QED BY <2>3, <2>4
  <1>2. CASE Check(c)
    <2>1. /\ op[c].pc = "check" /\ expected' = expected /\ UNCHANGED <<tbl, lib, cache>>
          /\ lock = c
      BY <1>2, <1>b, <1>c DEF Check, fileVars, SaveLibrary
    <2>2. /\ tbl = expected.table /\ lib["ini"] = expected.meta /\ op[c].table = tbl
          /\ cache \in {Empty, lib}
      BY <1>d, <1>e, <2>1 DEF ProgressOf
    <2>3. CASE Ended(c) /\ lock' = Nobody
      BY <2>1, <2>2, <2>3, ProgressEnds
    <2>4. CASE lock' = lock /\ GoneOn(c, "write", Edit(op[c], op[c].table), op[c].meta)
      <3> DEFINE o == op'[c]
      <3>1. o.pc = "write" /\ o.table = Edit(o, tbl)
        BY <2>2, <2>4, SameJobEdits DEF GoneOn
      <3> HIDE DEF o
      <3>2. ProgressOf(o, tbl, lib["ini"], expected)
        BY <2>2, <3>1 DEF ProgressOf
      <3> QED BY <2>1, <2>2, <2>4, <3>2, ProgressMoves DEF o
    <2> QED BY <1>a, <1>2, <2>3, <2>4, CheckFacts
  <1>3. CASE WriteTable(c)
    <2>1. /\ op[c].pc = "write" /\ expected' = expected /\ UNCHANGED <<lib, cache, lock>>
          /\ lock = c /\ tbl' = op[c].table /\ GoneOn(c, "reload", op[c].table, op[c].meta)
      BY <1>a, <1>3, <1>b, <1>c, WriteFacts DEF WriteTable, SaveLibrary
    <2>2. /\ lib["ini"] = expected.meta /\ op[c].table = Edit(op[c], expected.table)
          /\ cache \in {Empty, lib}
      BY <1>d, <1>e, <2>1 DEF ProgressOf
    <2> DEFINE o == op'[c]
    <2>3. o.pc = "reload" /\ o.table = Edit(o, expected.table) /\ tbl' = o.table
      BY <2>1, <2>2, SameJobEdits DEF GoneOn
    <2> HIDE DEF o
    <2>4. ProgressOf(o, tbl', lib["ini"], expected)
      BY <2>2, <2>3 DEF ProgressOf
    <2> QED BY <2>1, <2>2, <2>4, ProgressMoves DEF o
  <1>4. CASE Reload(c)
    <2>1. /\ op[c].pc = "reload" /\ expected' = expected /\ UNCHANGED <<tbl, lib, cache, lock>>
          /\ lock = c
      BY <1>4, <1>b, <1>c DEF Reload, SaveLibrary, fileVars
    <2>2. /\ lib["ini"] = expected.meta /\ op[c].table = Edit(op[c], expected.table)
          /\ tbl = Edit(op[c], expected.table) /\ cache \in {Empty, lib}
      BY <1>d, <1>e, <2>1 DEF ProgressOf
    <2> DEFINE o == op'[c]
    <2>3. /\ SameJob(o, op[c]) /\ o.table = op[c].table
          /\ op[c].kind = "import" => o.pc = "save" /\ o.meta = op[c].table
          /\ op[c].kind # "import" => o.pc = "library"
      BY <1>a, <1>4, ReloadFacts DEF GoneOn
    <2> HIDE DEF o
    <2>4. /\ Edit(o, expected.table) = Edit(op[c], expected.table)
          /\ Describe(o, expected.meta) = Describe(op[c], expected.meta)
      BY <2>3, SameJobEdits
    <2>5. op[c].kind = "import"
            => Edit(op[c], expected.table) = Describe(op[c], expected.meta)
      BY DEF Edit, Describe
    <2>6. ProgressOf(o, tbl, lib["ini"], expected)
      BY <2>2, <2>3, <2>4, <2>5 DEF ProgressOf
    <2> QED BY <2>1, <2>2, <2>6, ProgressMoves DEF o
  <1>5. CASE LoadLibrary(c)
    <2> DEFINE m == Described(op[c], Library)
    <2>1. /\ op[c].pc = "library" /\ expected' = expected /\ UNCHANGED <<tbl, lib, lock>>
          /\ lock = c /\ cache' = [AllData EXCEPT !["ini"] = m]
          /\ GoneOn(c, IF op[c].kind = "get" THEN "reply" ELSE "save", op[c].table, m)
      BY <1>a, <1>5, <1>b, <1>c, <1>f, LibraryFacts DEF LoadLibrary, SaveLibrary
    <2>2. /\ lib["ini"] = expected.meta /\ tbl = Edit(op[c], expected.table)
          /\ AllData = lib /\ Library = lib["ini"] /\ op[c].kind # "import"
      BY <1>a, <1>d, <1>e, <1>f, <1>5, <2>1 DEF ProgressOf, KindOf, Library
    <2>3. m = Describe(op[c], expected.meta) /\ (op[c].kind = "get" => m = lib["ini"])
      BY <2>2 DEF Describe, Described
    <2>a. lib = [lib EXCEPT !["ini"] = lib["ini"]]
      BY <1>a DEF CoreOK, TablesOK, LibOf
    <2> HIDE DEF m
    <2> DEFINE o == op'[c]
    <2>4. /\ SameJob(o, op[c]) /\ o.meta = m
          /\ IF op[c].kind = "get" THEN o.pc = "reply" ELSE o.pc = "save"
      BY <2>1 DEF GoneOn
    <2> HIDE DEF o
    <2>5. /\ Edit(o, expected.table) = Edit(op[c], expected.table)
          /\ Describe(o, expected.meta) = Describe(op[c], expected.meta)
      BY <2>4, SameJobEdits
    <2>6. ProgressOf(o, tbl, lib["ini"], expected)
      BY <2>2, <2>3, <2>4, <2>5 DEF ProgressOf
    <2>7. cache' \in {Empty, lib} \/ (o.pc = "save" /\ o.kind # "import")
      BY <2>1, <2>2, <2>3, <2>4, <2>a DEF SameJob
    <2> QED BY <2>1, <2>6, <2>7, ProgressMoves DEF o
  <1>6. CASE SaveLibrary(c)
    <2>1. /\ op[c].pc = "save" /\ UNCHANGED tbl /\ lock = c /\ lock' = Nobody
          /\ lib'["ini"] = op[c].meta /\ cache' = Empty
      BY <1>a, <1>6, <1>c, <1>f DEF SaveLibrary, CoreOK, TablesOK, LibOf, Key
    <2>2. tbl = Edit(op[c], expected.table) /\ op[c].meta = Describe(op[c], expected.meta)
      BY <1>d, <2>1 DEF ProgressOf
    <2>3. /\ expected'.table = Edit(op[c], expected.table)
          /\ expected'.meta = Describe(op[c], expected.meta)
      BY <1>a, <1>6, SaveExpected
    <2> QED BY <2>1, <2>2, <2>3, ProgressEnds
  <1>7. CASE Reply(c)
    <2>1. /\ op[c].pc = "reply" /\ UNCHANGED <<tbl, lib, cache>> /\ lock = c
          /\ lock' = Nobody /\ expected' = expected /\ op[c].kind = "get"
      BY <1>a, <1>7, <1>b, <1>c DEF Reply, fileVars, SaveLibrary, KindOf
    <2>2. tbl = expected.table /\ lib["ini"] = expected.meta /\ cache \in {Empty, lib}
      BY <1>d, <1>e, <2>1 DEF ProgressOf, Edit
    <2> QED BY <2>1, <2>2, ProgressEnds
  <1> QED BY <1>1, <1>2, <1>3, <1>4, <1>5, <1>6, <1>7 DEF Command

\* LinuxCNC writes its table when it agrees with the file: one tool changes.
LEMMA MeasureProgress ==
  ASSUME CoreOK, TableInv, Progress, LcncMeasures, lock = Nobody, ~loading, ~untold,
         expected' = AfterMeasure
  PROVE  Progress'
  <1>1. \A c \in Client : op[c].pc \in {"idle", "queued"}
    BY ToolsAssumption DEF CoreOK, LockOK, Nobody
  <1>2. lcnc = tbl /\ tbl = expected.table /\ lib["ini"] = expected.meta
    BY <1>1 DEF TableInv, Reloading, Progress
  <1>3. lcnc \in [Tool -> 0..(ops + 1)] /\ tbl' = lcnc' /\ DOMAIN lcnc' = Tool
    BY DEF CoreOK, TablesOK, TableOf, LcncMeasures
  <1>4. lcnc' = [t \in Tool |-> lcnc'[t]]
    BY <1>3 DEF LcncMeasures
  <1>5. [t \in Tool |-> IF lcnc'[t] # lcnc[t] THEN lcnc'[t] ELSE lcnc[t]]
          = [t \in Tool |-> lcnc'[t]]
    OBVIOUS
  <1>6. expected'.meta = expected.meta
        /\ expected'.table = [t \in Tool |-> IF lcnc'[t] # lcnc[t] THEN lcnc'[t]
                                                              ELSE expected.table[t]]
    BY DEF AfterMeasure
  <1>7. expected'.table = tbl'
    BY <1>2, <1>3, <1>4, <1>5, <1>6
  <1>8. cache \in {Empty, lib}
    BY <1>1, CacheFollows, ToolsAssumption DEF Nobody
  <1> QED BY <1>2, <1>6, <1>7, <1>8, ProgressEnds DEF LcncMeasures

LEMMA EditStep == EditInv /\ [MCNext]_mcVars => EditInv'
  <1> SUFFICES ASSUME EditInv, [MCNext]_mcVars PROVE EditInv'
    OBVIOUS
  <1>1. CoreOK' /\ TableInv'
    BY CoreStep, TableStep DEF EditInv, MCNext, mcVars
  <1>2. CASE UNCHANGED mcVars
    <2>1. UNCHANGED <<tbl, lib, op, lock, expected, cache, mixed, broken, strayed>>
      BY <1>2 DEF mcVars, vars, fileVars, exceptions
    <2> QED BY <1>1, <2>1, ProgressStill DEF EditInv
  <1>3. CASE MCNext
    <2>a. /\ CoreOK /\ TableInv /\ Next
          /\ expected = [table |-> expected.table, meta |-> expected.meta]
          /\ ops \in Nat
          /\ \A d \in Client : op[d].pc \notin {"idle", "queued"} <=> lock = d
          /\ \A d \in Client : KindOf(op[d])
          /\ Nobody \notin Client
      BY <1>3, OpsStep, ToolsAssumption
         DEF EditInv, MCNext, CoreOK, CommandsOK, LockOK, Nobody
    <2>b. ASSUME \A c \in Client : ~SaveLibrary(c)
          PROVE  expected' = IF LcncMeasures THEN AfterMeasure ELSE expected
      BY <1>3, <2>b, ExpectedStays
    <2>1. expected' = [table |-> expected'.table, meta |-> expected'.meta]
      <3>1. ASSUME NEW c \in Client, SaveLibrary(c)
            PROVE  expected' = [table |-> expected'.table, meta |-> expected'.meta]
        BY <1>3, <2>a, <3>1, SaveExpected
      <3>2. ASSUME expected' = AfterMeasure
            PROVE  expected' = [table |-> expected'.table, meta |-> expected'.meta]
        <4> DEFINE t == [u \in Tool |-> IF lcnc'[u] # lcnc[u] THEN lcnc'[u] ELSE expected.table[u]]
        <4>1. expected' = [expected EXCEPT !.table = t]
          BY <3>2 DEF AfterMeasure
        <4> HIDE DEF t
        <4> QED BY <2>a, <4>1
      <3> QED BY <2>a, <2>b, <3>1, <3>2
    <2>2. ASSUME ~mixed', ~broken', ~strayed' PROVE Progress'
      <3>a. ~mixed /\ ~broken /\ ~strayed /\ Progress
        BY <1>3, <2>2 DEF MCNext, EditInv
      <3>1. ASSUME NEW c \in Client, Command(c) PROVE Progress'
        BY <1>3, <2>2, <3>a, <3>1, CommandProgress
      <3>b. ASSUME ops' # ops \/ op' = op \/ \E c \in Client : Request(c) \/ RequestGet(c)
            PROVE  \A d \in Client : ~SaveLibrary(d)
        <4> SUFFICES ASSUME NEW d \in Client, SaveLibrary(d) PROVE FALSE
          OBVIOUS
        <4>1. op[d].pc = "save" /\ Ended(d) /\ ops' = ops /\ ops <= ops'
          BY <2>a DEF SaveLibrary, Ended
        <4>2. op'[d].pc = "idle" /\ op'[d].kind = "get"
          BY <2>a, <4>1, EndFacts DEF Ended
        <4>3. ASSUME NEW c \in Client, Request(c) \/ RequestGet(c) PROVE FALSE
          <5>1. Others(c) /\ op[c].pc = "idle" /\ op'[c].pc = "queued"
            BY <2>a, <4>3, RequestFacts
          <5> QED BY <4>1, <4>2, <5>1 DEF Others
        <4> QED BY <3>b, <4>1, <4>2, <4>3
      <3>2. ASSUME NEW c \in Client, Fails(c) PROVE Progress'
        <4>1. /\ op[c].pc \notin {"idle", "queued"} /\ ops' = ops + 1 /\ Ended(c)
              /\ lock' = Nobody /\ UNCHANGED <<tbl, lib, cache, lcnc>>
          BY <3>2 DEF Fails, Operate, Ended, fileVars, lcncVars
        <4>2. op[c].kind # "get" => op[c].pc \notin {"reload", "library", "save"}
          BY <1>3, <2>2, <3>2 DEF MCNext
        <4>3. lock = c /\ op[c].pc \in Label /\ KindOf(op[c])
          BY <2>a, <4>1 DEF CoreOK, CommandsOK, OpOf
        <4>4. ProgressOf(op[c], tbl, lib["ini"], expected) /\ op[c].pc # "save"
          BY <3>a, <4>2, <4>3 DEF Progress, KindOf
        <4>5. tbl = expected.table /\ lib["ini"] = expected.meta
          <5>1. CASE op[c].kind = "get"
            BY <4>1, <4>3, <4>4, <5>1 DEF ProgressOf, Edit, KindOf, Label
          <5>2. CASE op[c].kind # "get"
            BY <4>1, <4>2, <4>3, <4>4, <5>2 DEF ProgressOf, KindOf, Label
          <5> QED BY <5>1, <5>2
        <4>6. cache \in {Empty, lib}
          BY <2>a, <3>a, <4>3, <4>4, CacheFollows
        <4>7. expected' = expected
          <5>1. ~LcncMeasures
            <6>1. ASSUME LcncMeasures PROVE FALSE
              <7>1. op' = op
                BY <6>1 DEF LcncMeasures
              <7>2. op'[c].pc = "idle"
                <8>1. ops' \in Nat /\ ops <= ops'
                  BY <2>a, <4>1
                <8> QED BY <2>a, <4>1, <8>1, EndFacts DEF Ended
              <7> QED BY <4>1, <7>1, <7>2
            <6> QED BY <6>1
          <5> QED BY <2>a, <2>b, <3>b, <4>1, <5>1
        <4> QED BY <4>1, <4>5, <4>6, <4>7, ProgressEnds
      <3>3. ASSUME NEW c \in Client, Request(c) \/ RequestGet(c) PROVE Progress'
        <4>1. Others(c) /\ op[c].pc = "idle" /\ op'[c].pc = "queued" /\ lock # c
          BY <2>a, <3>3, RequestFacts
        <4>2. UNCHANGED <<tbl, lib, cache, lock>>
          BY <3>3 DEF Request, RequestGet, fileVars
        <4>3. ~LcncMeasures
          BY <4>1 DEF LcncMeasures
        <4> QED BY <2>b, <3>3, <3>a, <3>b, <4>1, <4>2, <4>3, ProgressWaits
      <3>4. CASE UNCHANGED op
        <4>1. expected' = IF LcncMeasures THEN AfterMeasure ELSE expected
          BY <2>b, <3>4, <3>b
        <4>2. CASE LcncMeasures
          <5>1. lock = Nobody /\ ~loading /\ ~untold
            BY <1>3, <2>2, <4>2 DEF MCNext
          <5> QED BY <2>a, <3>a, <4>1, <4>2, <5>1, MeasureProgress
        <4>3. CASE ~LcncMeasures /\ UNCHANGED <<tbl, lib, cache, lock>>
          BY <3>4, <3>a, <4>1, <4>3, ProgressStill
        <4>4. ASSUME ~LcncMeasures, NEW c \in Client, MetaLoaded(c) PROVE Progress'
          <5>1. UNCHANGED <<tbl, lib, lock>> /\ cache' = AllData
            BY <4>4 DEF MetaLoaded
          <5>2. cache' \in {cache, lib} \/ (cache = Empty /\ cache' = lib)
            BY <5>1 DEF AllData
          <5> QED BY <3>4, <3>a, <4>1, <4>4, <5>1, <5>2, ProgressStill
        <4> QED
          BY <2>a, <3>1, <3>2, <4>2, <4>3, <4>4
             DEF Next, fileVars, LcncLoads, LcncChangesTool, LcncRestarts, LinkLost, LinkBack,
                 PollTool, Request, RequestGet, TickMeta, MetaFails, TickTable, Mute, Unmute,
                 Reconnect
      <3> QED
        BY <2>a, <3>1, <3>2, <3>3, <3>4
           DEF Next, LcncLoads, LcncChangesTool, LcncMeasures, LcncRestarts, LinkLost, LinkBack,
               PollTool, TickMeta, MetaLoaded, MetaFails, TickTable, Mute, Unmute, Reconnect
    <2> QED BY <1>1, <2>1, <2>2 DEF EditInv
  <1> QED BY <1>2, <1>3

LEMMA EditInit == MCInit => EditInv
  <1> SUFFICES ASSUME MCInit PROVE EditInv
    OBVIOUS
  <1>1. CoreOK /\ TableInv
    BY CoreInit, TableInit DEF MCInit
  <1>2. /\ tbl = First /\ lib["ini"] = First /\ cache = Empty /\ lock = Nobody
        /\ expected = [table |-> First, meta |-> First]
    BY DEF MCInit, Init, Key
  <1>3. Progress
    BY <1>2, ToolsAssumption DEF Progress, CacheOK, Nobody
  <1> QED BY <1>1, <1>2, <1>3 DEF EditInv

(***************************************************************************)
(* _persist_imported_tools, "Serialized under _cmd_lock": what the edits   *)
(* and imports of all clients, and LinuxCNC's measurements between them,   *)
(* leave in the two files is what doing them one after the other leaves    *)
(* there, for every number of clients, tools and edits.                    *)
(***************************************************************************)
THEOREM EditsAreSerialized == MCSpec => []EditsStay
  <1>1. EditInv => EditsStay
    <2> SUFFICES ASSUME EditInv, Quiet, ~mixed, ~broken, ~strayed
                 PROVE  tbl = expected.table /\ lib["ini"] = expected.meta
      BY DEF EditsStay
    <2>1. lock = Nobody
      BY DEF EditInv, CoreOK, LockOK, Quiet
    <2> QED BY <2>1 DEF EditInv, Progress
  <1> QED BY EditInit, EditStep, <1>1, PTL DEF MCSpec

(***************************************************************************)
(* The rest of the types.  The version is bounded because each operation   *)
(* bumps it once: n names the operation, and the edits that have not come  *)
(* to their bump are as many operations without one.                       *)
(***************************************************************************)
Waiting(o) == o.kind # "get" /\ o.pc \in {"queued", "check", "write", "reload"}

ToCome == {i \in 1..ops : \E c \in Client : Waiting(op[c]) /\ op[c].n = i + 1}

NumbersOK ==
  /\ \A c \in Client : Waiting(op[c]) => op[c].n \in 2..(ops + 1)
  /\ \A c, d \in Client : Waiting(op[c]) /\ Waiting(op[d]) /\ op[c].n = op[d].n => c = d

VersionOK == version \in Nat /\ version + Cardinality(ToCome) <= ops

LoopType == [pc : {"run", "load"}, told : Nat, tool : Tool \cup {NoTool}]

LoopsOK ==
  /\ loop \in [Client -> LoopType]
  /\ \A c \in Client : loop[c].told <= version

ShowOK ==
  /\ loading \in BOOLEAN /\ dirty \in BOOLEAN /\ spindle \in Tool \cup {NoTool}
  /\ linked \in BOOLEAN /\ polled \in Tool \cup {NoTool}
  /\ mute \subseteq Client /\ wants \subseteq Client
  /\ page \in [Client -> [table : TableOf(ops), meta : TableOf(ops)]]
  /\ views \in [Client -> TableOf(ops)]

ToolsInv == CoreOK /\ NumbersOK /\ VersionOK /\ LoopsOK /\ ShowOK

LEMMA ToolsInvTypes == ToolsInv => TypeOK
  <1> SUFFICES ASSUME ToolsInv PROVE TypeOK
    OBVIOUS
  <1>a. ops \in Nat /\ MaxOps \in Nat /\ ops <= MaxOps
    BY ToolsAssumption DEF ToolsInv, CoreOK
  <1>b. 0..(ops + 1) \subseteq Value /\ TableOf(MaxOps) = Table
    BY <1>a DEF Value, TableOf, Table
  <1>c. TableOf(ops) \subseteq Table /\ OpOf(ops) \subseteq OpOf(MaxOps)
    BY <1>a, <1>b, TablesGrow
  <1>1. op \in [Client -> [pc : {"idle", "queued", "check", "write", "reload", "library", "save",
                                 "reply"},
                           kind : Kind, tool : Tool, to : Tool, table : Table, meta : Table,
                           n : Value]]
    BY <1>b, <1>c DEF ToolsInv, CoreOK, CommandsOK, OpOf, Label, Value
  <1>2. version \in 0..MaxOps
    <2>1. Cardinality(ToCome) \in Nat
      <3>1. IsFiniteSet(1..ops)
        BY <1>a, FS_Interval
      <3>2. IsFiniteSet(ToCome)
        BY <3>1, FS_Subset DEF ToCome
      <3> QED BY <3>2, FS_CardinalityType
    <2> QED BY <1>a, <2>1 DEF ToolsInv, VersionOK
  <1>3. loop \in [Client -> [pc : {"run", "load"}, told : 0..MaxOps, tool : Tool \cup {NoTool}]]
    BY <1>a, <1>2 DEF ToolsInv, LoopsOK, LoopType
  <1>4. lock # Nobody => op[lock].pc \notin {"idle", "queued"}
    BY DEF ToolsInv, CoreOK, LockOK
  <1>5. page \in [Client -> [table : Table, meta : Table]]
    BY <1>c DEF ToolsInv, ShowOK
  <1>6. views \in [Client -> Table]
    BY <1>c DEF ToolsInv, ShowOK
  <1>7. /\ tbl \in Table /\ lcnc \in Table
        /\ lib \in [Key -> Table] /\ cache \in [Key -> Table] \cup {Empty}
    BY <1>c DEF ToolsInv, CoreOK, TablesOK, LibOf
  <1> QED BY <1>1, <1>2, <1>3, <1>4, <1>5, <1>6, <1>7
          DEF TypeOK, ToolsInv, CoreOK, LockOK, LoopsOK, ShowOK

LEMMA ToolsInit == Init => ToolsInv
  <1> SUFFICES ASSUME Init PROVE ToolsInv
    OBVIOUS
  <1>a. First \in TableOf(0) /\ NoOp.kind = "get" /\ ops = 0
    BY TableFacts DEF Init
  <1>1. CoreOK
    BY CoreInit
  <1>2. NumbersOK
    BY <1>a DEF Init, NumbersOK, Waiting
  <1>3. VersionOK
    <2>1. ToCome = {}
      BY <1>a DEF ToCome
    <2> QED BY <1>a, <2>1, FS_EmptySet DEF Init, VersionOK
  <1>4. LoopsOK
    BY DEF Init, LoopsOK, LoopType, NewLoop
  <1>5. ShowOK
    <2>1. loading \in BOOLEAN /\ dirty \in BOOLEAN /\ linked \in BOOLEAN
      BY Zenon DEF Init
    <2>2. Nothing \in TableOf(0)
      BY TableFacts
    <2> QED BY <1>a, <2>1, <2>2 DEF Init, ShowOK
  <1> QED BY <1>1, <1>2, <1>3, <1>4, <1>5 DEF ToolsInv

\* Only a request adds an edit that waits, and its bump takes one away.
LEMMA WaitingStep ==
  ASSUME CoreOK, Next, NEW d \in Client, ~Request(d), Waiting(op'[d])
  PROVE  Waiting(op[d]) /\ op'[d].n = op[d].n /\ ~Reload(d)
  <1>a. ops \in Nat /\ ops' \in Nat /\ ops <= ops'
    BY OpsStep
  <1>1. CASE ~Acts(d)
    <2>1. op'[d] = op[d] /\ ~Reload(d)
      BY <1>1, OthersWait DEF Acts, Command
    <2> QED BY <2>1
  <1>2. CASE RequestGet(d)
    BY <1>2, RequestFacts DEF Waiting
  <1>3. ASSUME Ended(d) PROVE FALSE
    BY <1>3, <1>a, EndFacts DEF Ended, Waiting
  <1>4. CASE Begin(d)
    <2>1. op[d].pc = "queued" /\ SameJob(op'[d], op[d])
      BY <1>3, <1>4, BeginFacts DEF GoneOn
    <2> QED BY <2>1 DEF Waiting, SameJob, Reload
  <1>5. CASE Check(d)
    <2>1. op[d].pc = "check" /\ SameJob(op'[d], op[d])
      BY <1>3, <1>5, CheckFacts DEF GoneOn
    <2> QED BY <2>1 DEF Waiting, SameJob, Reload
  <1>6. CASE WriteTable(d)
    <2>1. op[d].pc = "write" /\ SameJob(op'[d], op[d])
      BY <1>6, WriteFacts DEF GoneOn
    <2> QED BY <2>1 DEF Waiting, SameJob, Reload
  <1>7. CASE Reload(d)
    BY <1>7, ReloadFacts DEF GoneOn, Waiting
  <1>8. CASE LoadLibrary(d)
    <2>1. op'[d].pc \in {"reply", "save"}
      BY <1>8, LibraryFacts DEF GoneOn
    <2> QED BY <2>1 DEF Waiting
  <1>9. CASE SaveLibrary(d) \/ Reply(d) \/ Fails(d)
    BY <1>3, <1>9 DEF SaveLibrary, Reply, Fails, Ended
  <1> QED BY <1>1, <1>2, <1>4, <1>5, <1>6, <1>7, <1>8, <1>9 DEF Acts, Command

LEMMA NumbersStep ==
  ASSUME CoreOK, NumbersOK, Next
  PROVE  NumbersOK'
  <1>a. ops \in Nat /\ ops' \in Nat /\ ops <= ops'
    BY OpsStep
  <1>1. CASE \A d \in Client : ~Request(d)
    BY <1>1, <1>a, WaitingStep DEF NumbersOK
  <1>2. ASSUME NEW c \in Client, Request(c) PROVE NumbersOK'
    <2>1. Others(c) /\ op'[c].n = ops + 2 /\ ops' = ops + 1
      BY <1>2, RequestFacts
    <2>2. \A d \in Client : d # c /\ Waiting(op'[d]) => op'[d].n \in 2..(ops + 1) /\ op'[d] = op[d]
      BY <2>1 DEF Others, NumbersOK
    <2>3. \A d \in Client : Waiting(op'[d]) => op'[d].n \in 2..(ops' + 1)
      BY <1>a, <2>1, <2>2
    <2>4. ASSUME NEW d \in Client, NEW e \in Client, Waiting(op'[d]), Waiting(op'[e]),
                 op'[d].n = op'[e].n
          PROVE  d = e
      <3>1. CASE d # c /\ e # c
        BY <2>2, <2>4, <3>1 DEF NumbersOK
      <3>2. CASE ~(d # c /\ e # c)
        BY <1>a, <2>1, <2>2, <2>4, <3>2
      <3> QED BY <3>1, <3>2
    <2> QED BY <2>3, <2>4 DEF NumbersOK
  <1> QED BY <1>1, <1>2

LEMMA VersionStep ==
  ASSUME CoreOK, NumbersOK, VersionOK, Next
  PROVE  VersionOK' /\ version <= version'
  <1>a. ops \in Nat /\ ops' \in Nat /\ ops <= ops' /\ version \in Nat
    BY OpsStep DEF VersionOK
  <1>b. IsFiniteSet(ToCome) /\ Cardinality(ToCome) \in Nat
    <2>1. IsFiniteSet(1..ops)
      BY <1>a, FS_Interval
    <2>2. IsFiniteSet(ToCome)
      BY <2>1, FS_Subset DEF ToCome
    <2> QED BY <2>2, FS_CardinalityType
  <1>c. IsFiniteSet(ToCome') /\ Cardinality(ToCome') \in Nat
    <2>1. IsFiniteSet(1..ops')
      BY <1>a, FS_Interval
    <2>2. IsFiniteSet(ToCome')
      BY <2>1, FS_Subset DEF ToCome
    <2> QED BY <2>2, FS_CardinalityType
  <1>d. ASSUME NEW i \in ToCome', \A d \in Client : ~Request(d)
        PROVE  i \in ToCome /\ \E d \in Client : ~Reload(d) /\ Waiting(op[d]) /\ op[d].n = i + 1
    <2>1. PICK d \in Client : Waiting(op'[d]) /\ op'[d].n = i + 1
      BY DEF ToCome
    <2>2. Waiting(op[d]) /\ op[d].n = i + 1 /\ ~Reload(d)
      BY <1>d, <2>1, WaitingStep
    <2>3. i \in 1..ops
      BY <1>a, <2>2 DEF NumbersOK, ToCome
    <2> QED BY <2>2, <2>3 DEF ToCome
  <1>1. ASSUME NEW c \in Client, Reload(c) PROVE VersionOK' /\ version <= version'
    <2>0. version' = version + 1 /\ ops' = ops
      BY <1>1 DEF Reload
    <2>1. /\ version' = version + 1 /\ ops' = ops
          /\ \A d \in Client : ~Request(d)
      BY <1>a, <2>0, RequestFacts
    <2> DEFINE i == op[c].n - 1
    <2>2. Waiting(op[c])
      BY <1>1 DEF Reload, Waiting, CoreOK, CommandsOK, KindOf
    <2>3. i \in 1..ops /\ op[c].n = i + 1
      BY <1>a, <2>2 DEF NumbersOK
    <2> HIDE DEF i
    <2>4. i \in ToCome
      BY <2>2, <2>3 DEF ToCome
    <2>5. i \notin ToCome'
      BY <1>1, <1>d, <2>1, <2>2, <2>3 DEF NumbersOK
    <2>6. ToCome' \subseteq ToCome \ {i}
      BY <1>d, <2>1, <2>5
    <2>7. /\ IsFiniteSet(ToCome \ {i})
          /\ Cardinality(ToCome \ {i}) = Cardinality(ToCome) - 1
      BY <1>b, <2>4, FS_RemoveElement
    <2>8. Cardinality(ToCome') <= Cardinality(ToCome) - 1
      BY <2>6, <2>7, FS_Subset
    <2> QED BY <1>a, <1>b, <1>c, <2>1, <2>8 DEF VersionOK
  <1>2. ASSUME NEW c \in Client, Request(c) PROVE VersionOK' /\ version <= version'
    <2>1. Others(c) /\ op'[c].n = ops + 2 /\ ops' = ops + 1 /\ version' = version
      BY <1>2, RequestFacts DEF Request
    <2>2. ASSUME NEW i \in ToCome' PROVE i \in ToCome \cup {ops + 1}
      <3>1. i \in 1..ops' /\ \E d \in Client : Waiting(op'[d]) /\ op'[d].n = i + 1
        BY DEF ToCome
      <3>2. PICK d \in Client : Waiting(op'[d]) /\ op'[d].n = i + 1
        BY <3>1
      <3>3. CASE d = c
        BY <1>a, <2>1, <3>1, <3>2, <3>3
      <3>4. CASE d # c
        <4>1. Waiting(op[d]) /\ op[d].n = i + 1
          BY <2>1, <3>2, <3>4 DEF Others
        <4>2. i \in 1..ops
          BY <1>a, <3>1, <4>1 DEF NumbersOK
        <4> QED BY <4>1, <4>2 DEF ToCome
      <3> QED BY <3>3, <3>4
    <2>3. ops + 1 \notin ToCome
      BY <1>a DEF ToCome
    <2>4. /\ IsFiniteSet(ToCome \cup {ops + 1})
          /\ Cardinality(ToCome \cup {ops + 1}) = Cardinality(ToCome) + 1
      BY <1>b, <2>3, FS_AddElement
    <2>5. Cardinality(ToCome') <= Cardinality(ToCome) + 1
      BY <2>2, <2>4, FS_Subset
    <2> QED BY <1>a, <1>b, <1>c, <2>1, <2>5 DEF VersionOK
  <1>3. CASE \A c \in Client : ~Reload(c) /\ ~Request(c)
    <2>1. version' = version
      BY <1>3, Frames
    <2>2. ToCome' \subseteq ToCome
      BY <1>d, <1>3
    <2>3. Cardinality(ToCome') <= Cardinality(ToCome)
      BY <1>b, <2>2, FS_Subset
    <2> QED BY <1>a, <1>b, <1>c, <2>1, <2>3 DEF VersionOK
  <1> QED BY <1>1, <1>2, <1>3

LEMMA LoopsStep ==
  ASSUME ToolsInv, Next
  PROVE  LoopsOK'
  <1>a. /\ version \in Nat /\ version' \in Nat /\ version <= version'
        /\ loop \in [Client -> LoopType]
        /\ \A c \in Client : loop[c].told <= version
        /\ polled \in Tool \cup {NoTool}
    BY VersionStep DEF ToolsInv, VersionOK, LoopsOK, ShowOK
  <1>b. \A c \in Client : loop[c].told \in Nat /\ loop[c].told <= version'
    BY <1>a DEF LoopType
  <1>1. CASE UNCHANGED loop
    BY <1>1, <1>a, <1>b DEF LoopsOK
  <1>2. ASSUME NEW c \in Client, NEW r \in LoopType,
               r.told <= version', loop' = [loop EXCEPT ![c] = r]
        PROVE  LoopsOK'
    BY <1>2, <1>a, <1>b DEF LoopsOK
  <1>3. ASSUME NEW c \in Client, TickMeta(c) PROVE LoopsOK'
    <2> DEFINE r == [loop[c] EXCEPT !.tool = polled, !.pc = "load"]
    <2>1. r \in LoopType /\ r.told <= version'
      BY <1>a, <1>b DEF LoopType
    <2>2. loop' = [loop EXCEPT ![c] = r]
      BY <1>3, <1>a DEF TickMeta
    <2> HIDE DEF r
    <2> QED BY <1>2, <2>1, <2>2
  <1>4. ASSUME NEW c \in Client, TickTable(c) PROVE LoopsOK'
    <2> DEFINE r == [loop[c] EXCEPT !.told = version]
    <2>1. r \in LoopType /\ r.told <= version'
      BY <1>a DEF LoopType
    <2>2. loop' = [loop EXCEPT ![c] = r]
      BY <1>4 DEF TickTable
    <2> HIDE DEF r
    <2> QED BY <1>2, <2>1, <2>2
  <1>5. ASSUME NEW c \in Client, MetaLoaded(c) \/ MetaFails(c) PROVE LoopsOK'
    <2> DEFINE r == [loop[c] EXCEPT !.pc = "run"]
    <2>1. r \in LoopType /\ r.told <= version'
      BY <1>a, <1>b DEF LoopType
    <2>2. loop' = [loop EXCEPT ![c] = r]
      BY <1>5 DEF MetaLoaded, MetaFails
    <2> HIDE DEF r
    <2> QED BY <1>2, <2>1, <2>2
  <1>6. ASSUME NEW c \in Client, Reconnect(c) PROVE LoopsOK'
    <2>1. NewLoop \in LoopType /\ NewLoop.told <= version'
      BY <1>a DEF LoopType, NewLoop
    <2>2. loop' = [loop EXCEPT ![c] = NewLoop]
      BY <1>6 DEF Reconnect
    <2> QED BY <1>2, <2>1, <2>2
  <1> QED
    BY <1>1, <1>3, <1>4, <1>5, <1>6
       DEF Next, loopVars, LcncLoads, LcncChangesTool, LcncMeasures, LcncRestarts, LinkLost,
           LinkBack, PollTool, Request, RequestGet, Command, Begin, Check, WriteTable, Reload,
           LoadLibrary, SaveLibrary, Reply, Fails, Mute, Unmute

LEMMA ShowStep ==
  ASSUME ToolsInv, Next
  PROVE  ShowOK'
  <1>a. /\ ops \in Nat /\ ops' \in Nat /\ ops <= ops' /\ ShowOK
        /\ TableOf(ops) \subseteq TableOf(ops') /\ 0..(ops + 1) \subseteq 0..(ops' + 1)
        /\ op \in [Client -> OpOf(ops)] /\ Library \in TableOf(ops)
        /\ loop \in [Client -> LoopType]
    BY OpsStep, TablesGrow, LibraryType DEF ToolsInv, CoreOK, CommandsOK, LoopsOK
  <1>b. /\ page \in [Client -> [table : TableOf(ops'), meta : TableOf(ops')]]
        /\ views \in [Client -> TableOf(ops')]
    BY <1>a DEF ShowOK
  <1>1. loading' \in BOOLEAN
    <2>1. CASE \E c \in Client : Reload(c)
      <3>1. loading' = (loading \/ linked)
        BY <2>1 DEF Reload
      <3> QED BY <3>1, Zenon
    <2>2. CASE loading' = loading \/ loading' = FALSE
      BY <1>a, <2>2, Zenon DEF ShowOK
    <2> QED BY <2>1, <2>2, Frames
  <1>2. dirty' \in BOOLEAN
    <2>1. CASE \E c \in Client : SaveLibrary(c)
      <3>1. PICK c \in Client : dirty' = (dirty \/ op[c].kind = "save")
        BY <2>1 DEF SaveLibrary
      <3> QED BY <3>1, Zenon
    <2>2. CASE dirty' = dirty \/ dirty' = FALSE
      BY <1>a, <2>2, Zenon DEF ShowOK
    <2> QED BY <2>1, <2>2, Frames
  <1>3. spindle' \in Tool \cup {NoTool} /\ wants' \subseteq Client
    BY <1>a
       DEF ShowOK, Next, lcncVars, pageVars, LcncLoads, LcncChangesTool, LcncMeasures,
           LcncRestarts, LinkLost, LinkBack, PollTool, Request, RequestGet, Command, Begin,
           Check, WriteTable, Reload, LoadLibrary, SaveLibrary, Reply, Fails, TickMeta,
           MetaLoaded, MetaFails, TickTable, Mute, Unmute, Reconnect
  <1>6. polled' \in Tool \cup {NoTool} /\ mute' \subseteq Client
    BY <1>a
       DEF ShowOK, Next, linkVars, loopVars, LcncLoads, LcncChangesTool, LcncMeasures,
           LcncRestarts, LinkLost, LinkBack, PollTool, Request, RequestGet, Command, Begin,
           Check, WriteTable, Reload, LoadLibrary, SaveLibrary, Reply, Fails, TickMeta,
           MetaLoaded, MetaFails, TickTable, Mute, Unmute, Reconnect
  <1>7. linked' \in BOOLEAN
    <2>1. linked' = linked \/ linked' = TRUE \/ linked' = FALSE
      BY DEF Next, linkVars, LcncLoads, LcncChangesTool, LcncMeasures,
             LcncRestarts, LinkLost, LinkBack, PollTool, Request, RequestGet, Command, Begin,
             Check, WriteTable, Reload, LoadLibrary, SaveLibrary, Reply, Fails, TickMeta,
             MetaLoaded, MetaFails, TickTable, Mute, Unmute, Reconnect
    <2> QED BY <1>a, <2>1, Zenon DEF ShowOK
  <1>4. page' \in [Client -> [table : TableOf(ops'), meta : TableOf(ops')]]
    <2>1. ASSUME NEW c \in Client, Reply(c)
          PROVE  page' \in [Client -> [table : TableOf(ops'), meta : TableOf(ops')]]
      <3> DEFINE meta == [t \in Tool |-> IF op[c].table[t] = 0 THEN 0 ELSE op[c].meta[t]]
                 r == [table |-> op[c].table, meta |-> meta]
      <3>1. op[c].table \in TableOf(ops') /\ op[c].meta \in TableOf(ops')
        BY <1>a DEF OpOf
      <3>2. meta \in TableOf(ops')
        BY <1>a, <3>1 DEF TableOf
      <3>3. r \in [table : TableOf(ops'), meta : TableOf(ops')]
        BY <3>1, <3>2
      <3>4. page' = [page EXCEPT ![c] = r]
        BY <2>1 DEF Reply
      <3> HIDE DEF r
      <3> QED BY <1>b, <3>3, <3>4
    <2>2. CASE UNCHANGED page
      BY <1>b, <2>2
    <2> QED BY <2>1, <2>2, Frames
  <1>5. views' \in [Client -> TableOf(ops')]
    <2>1. ASSUME NEW c \in Client, MetaLoaded(c) PROVE views' \in [Client -> TableOf(ops')]
      <3> DEFINE t == loop[c].tool
                 r == [views[c] EXCEPT ![t] = Library[t]]
      <3>1. CASE UNCHANGED views
        BY <1>b, <3>1
      <3>2. CASE ~UNCHANGED views
        <4>1. t # NoTool /\ views' = [views EXCEPT ![c][t] = Library[t]]
          BY <2>1, <3>2 DEF MetaLoaded
        <4>2. t \in Tool
          BY <1>a, <4>1 DEF LoopType
        <4>3. r \in TableOf(ops')
          BY <1>a, <1>b, <4>2 DEF TableOf
        <4>4. views' = [views EXCEPT ![c] = r]
          BY <1>b, <4>1
        <4> HIDE DEF r
        <4> QED BY <1>b, <4>3, <4>4
      <3> QED BY <3>1, <3>2
    <2>2. CASE UNCHANGED views
      BY <1>b, <2>2
    <2> QED BY <2>1, <2>2, Frames
  <1> QED BY <1>1, <1>2, <1>3, <1>4, <1>5, <1>6, <1>7 DEF ShowOK

\* The tool tables are well typed: in particular every edit and import bumps
\* _tool_table_version at most once, and no status_loop has told a page of a
\* version there has not been.
THEOREM ToolsTypeCorrect == Spec => []TypeOK
  <1>1. ToolsInv /\ [Next]_vars => ToolsInv'
    <2> SUFFICES ASSUME ToolsInv, [Next]_vars PROVE ToolsInv'
      OBVIOUS
    <2>1. CoreOK'
      BY CoreStep DEF ToolsInv
    <2>2. CASE Next
      BY <2>1, <2>2, NumbersStep, VersionStep, LoopsStep, ShowStep DEF ToolsInv
    <2>3. CASE UNCHANGED vars
      BY <2>1, <2>3
         DEF vars, fileVars, lcncVars, linkVars, loopVars, pageVars, ToolsInv, NumbersOK,
             Waiting, VersionOK, ToCome, LoopsOK, ShowOK, TableOf
    <2> QED BY <2>2, <2>3
  <1> QED BY ToolsInit, <1>1, ToolsInvTypes, PTL DEF Spec
=============================================================================
