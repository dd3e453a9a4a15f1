------------------------------ MODULE ToolTables ------------------------------
(***************************************************************************)
(* The tools: LinuxCNC's tool table (a file LinuxCNC loads when told, and  *)
(* writes itself), the library of tool metadata beside it, the commands    *)
(* and the import that rewrite both under the command lock, the pages that *)
(* are told to fetch them, and the metadata sent with a change of tool.    *)
(*                                                                         *)
(* File reads and writes run in executor threads, so every one of them is  *)
(* a step of its own.  What a tool or its metadata contains is the number  *)
(* of the operation that wrote it; 0 is no such tool.                      *)
(***************************************************************************)
EXTENDS Naturals

CONSTANTS
  Client,
  Tool,
  MaxOps,    \* bound on edits, on LinuxCNC's own changes and on failures
  Failures,  \* TRUE: a step of a command, a tool_meta or a status_loop may fail
  Detaches   \* TRUE: the gateway may lose a LinuxCNC that goes on

ASSUME ToolsAssumption ==
  /\ MaxOps \in Nat \ {0} /\ Failures \in BOOLEAN /\ Detaches \in BOOLEAN
  /\ 1 \in Tool /\ "nobody" \notin Client

VARIABLES
  tbl,      \* the file tool.tbl
  lcnc,     \* LinuxCNC's tool table in memory
  loading,  \* load_tool_table was issued and LinuxCNC has not done it
  spindle,  \* the tool in the spindle
  linked,   \* lcnc_connected, and with it STAT and CMD
  polled,   \* the tool in the poller's last snapshot, _shared_status
  lib,      \* the file tool_library.json, by configuration
  cache,    \* ToolLibraryStore._cache: a dict that handlers change in place, or Empty
  lock,     \* the client whose command or import holds _cmd_lock, or Nobody
  op,       \* each client's command: [pc, kind, tool, to, table, meta, n]
  version,  \* _tool_table_version
  dirty,    \* _tool_meta_dirty
  loop,     \* status_loops: [pc, told: _last_tool_table_version, tool: prev_tool_num]
  mute,     \* clients whose status_loop sends nothing: hidden tab, or a dead loop
  wants,    \* pages that will send get_tool_table
  page,     \* the pages' tool tables: [table, meta]
  views,    \* the 3D views' _toolMetaCache: the metadata of each tool
  ops

fileVars == <<tbl, lib, cache>>
lcncVars == <<lcnc, loading, spindle>>
linkVars == <<linked, polled>>
loopVars == <<loop, mute>>
pageVars == <<wants, page, views>>
vars == <<fileVars, lcncVars, linkVars, lock, op, version, dirty, loopVars, pageVars, ops>>

Nobody == "nobody"
NoTool == 0
Value == 0..(MaxOps + 1)
Table == [Tool -> Value]
Key == {"ini", "default"}   \* the running configuration, and what stands for none
First == [t \in Tool |-> IF t = 1 THEN 1 ELSE 0]
Nothing == [t \in Tool |-> 0]
Empty == [t \in {"none"} |-> 0]
Kind == {"save", "add", "delete", "renumber", "import", "get"}
NoOp == [pc |-> "idle", kind |-> "get", tool |-> 1, to |-> 1, table |-> Nothing,
         meta |-> Nothing, n |-> 0]

TypeOK ==
  /\ tbl \in Table /\ lcnc \in Table
  /\ lib \in [Key -> Table] /\ cache \in [Key -> Table] \cup {Empty}
  /\ loading \in BOOLEAN /\ spindle \in Tool \cup {NoTool}
  /\ linked \in BOOLEAN /\ polled \in Tool \cup {NoTool}
  /\ lock \in Client \cup {Nobody}
  /\ op \in [Client -> [pc : {"idle", "queued", "check", "write", "reload", "library", "save",
                              "reply"},
                        kind : Kind, tool : Tool, to : Tool, table : Table, meta : Table,
                        n : Value]]
  /\ lock # Nobody => op[lock].pc \notin {"idle", "queued"}
  /\ version \in 0..MaxOps /\ dirty \in BOOLEAN
  /\ loop \in [Client -> [pc : {"run", "load"}, told : 0..MaxOps, tool : Tool \cup {NoTool}]]
  /\ \A c \in Client : loop[c].told <= version
  /\ mute \subseteq Client /\ wants \subseteq Client
  /\ page \in [Client -> [table : Table, meta : Table]]
  /\ views \in [Client -> Table]
  /\ ops \in 0..MaxOps

\* prev_tool_num is None.
NewLoop == [pc |-> "run", told |-> 0, tool |-> NoTool]

\* A gateway on a table with one tool, whose metadata has been stored.
Init ==
  /\ tbl = First /\ lib = [k \in Key |-> IF k = "ini" THEN First ELSE Nothing] /\ cache = Empty
  /\ lcnc = First /\ loading = FALSE /\ spindle = NoTool
  /\ linked = TRUE /\ polled = NoTool
  /\ lock = Nobody /\ op = [c \in Client |-> NoOp]
  /\ version = 0 /\ dirty = FALSE
  /\ loop = [c \in Client |-> NewLoop] /\ mute = {}
  /\ wants = {} /\ page = [c \in Client |-> [table |-> First, meta |-> First]]
  /\ views = [c \in Client |-> Nothing]
  /\ ops = 0

Operate == ops < MaxOps /\ ops' = ops + 1

-----------------------------------------------------------------------------
(* LinuxCNC. *)

LcncLoads ==
  /\ loading /\ loading' = FALSE /\ lcnc' = tbl
  /\ UNCHANGED <<fileVars, spindle, linkVars, lock, op, version, dirty, loopVars, pageVars, ops>>

\* A tool is changed.
LcncChangesTool ==
  /\ Operate
  /\ spindle' \in {t \in Tool : lcnc[t] # 0} \ {spindle}
  /\ UNCHANGED <<fileVars, lcnc, loading, linkVars, lock, op, version, dirty, loopVars, pageVars>>

\* A tool is measured (G10 L1): LinuxCNC writes the table it has in memory.
LcncMeasures ==
  /\ Operate
  /\ \E t \in Tool : lcnc[t] # 0 /\ lcnc' = [lcnc EXCEPT ![t] = ops + 2]
  /\ tbl' = lcnc'
  /\ UNCHANGED <<lib, cache, loading, spindle, linkVars, lock, op, version, dirty, loopVars,
                 pageVars>>

\* It starts, and reads the file.
LcncRestarts ==
  /\ ~linked
  /\ lcnc' = tbl /\ loading' = FALSE /\ spindle' = NoTool
  /\ UNCHANGED <<fileVars, linkVars, lock, op, version, dirty, loopVars, pageVars, ops>>

\* Five polls of a LinuxCNC have failed: the gateway lets go of it.
LinkLost ==
  /\ Detaches /\ Operate
  /\ linked /\ linked' = FALSE
  /\ UNCHANGED <<fileVars, lcncVars, polled, lock, op, version, dirty, loopVars, pageVars>>

\* try_connect_lcnc
LinkBack ==
  /\ ~linked /\ linked' = TRUE
  /\ UNCHANGED <<fileVars, lcncVars, polled, lock, op, version, dirty, loopVars, pageVars, ops>>

\* The poller looks at the spindle.
PollTool ==
  /\ linked /\ polled # spindle
  /\ polled' = spindle
  /\ UNCHANGED <<fileVars, lcncVars, linked, lock, op, version, dirty, loopVars, pageVars, ops>>

-----------------------------------------------------------------------------
(* The tool commands of handle_command, and the import: _cmd_lock is taken *)
(* first and held to the end.                                              *)

Request(c) ==
  /\ Operate /\ op[c].pc = "idle"
  /\ \E k \in Kind \ {"get"}, t \in Tool, u \in Tool :
       /\ k = "renumber" \/ u = t
       /\ op' = [op EXCEPT ![c] = [NoOp EXCEPT !.pc = "queued", !.kind = k, !.tool = t,
                                               !.to = u, !.n = ops + 2]]
  /\ UNCHANGED <<fileVars, lcncVars, linkVars, lock, version, dirty, loopVars, pageVars>>

\* The page fetches the table.
RequestGet(c) ==
  /\ c \in wants /\ op[c].pc = "idle"
  /\ wants' = wants \ {c}
  /\ op' = [op EXCEPT ![c] = [NoOp EXCEPT !.pc = "queued"]]
  /\ UNCHANGED <<fileVars, lcncVars, linkVars, lock, version, dirty, loopVars, page, views, ops>>

\* parse_tool_table.  An import replaces the table by what it was sent, here a
\* single tool, and does not read the old one.
Parsed(o) == IF o.kind = "import" THEN [Nothing EXCEPT ![o.tool] = o.n] ELSE tbl

\* Without LinuxCNC only the table is read, and an import done; and the tool in
\* the spindle is not deleted.
Refused(o) ==
  \/ ~linked /\ o.kind \notin {"get", "import"}
  \/ o.kind = "delete" /\ spindle = o.tool

\* As Begin, but an import runs without the lock.
BeginImportFree(c) ==
  /\ op[c].pc = "queued" /\ (lock = Nobody \/ op[c].kind = "import") /\ ~Refused(op[c])
  /\ op' = [op EXCEPT ![c].table = Parsed(op[c]),
                      ![c].pc = CASE op[c].kind = "import" -> "write"
                                  [] op[c].kind = "get"    -> "library"
                                  [] OTHER                 -> "check"]
  /\ lock' = IF op[c].kind = "import" THEN lock ELSE c
  /\ UNCHANGED <<fileVars, lcncVars, linkVars, version, dirty, loopVars, pageVars, ops>>

Begin(c) ==
  /\ op[c].pc = "queued" /\ lock = Nobody
  /\ IF Refused(op[c])
       THEN op' = [op EXCEPT ![c] = NoOp] /\ UNCHANGED lock
       ELSE /\ op' = [op EXCEPT ![c].table = Parsed(op[c]),
                                ![c].pc = CASE op[c].kind = "import" -> "write"
                                            [] op[c].kind = "get"    -> "library"
                                            [] OTHER                 -> "check"]
            /\ lock' = c
  /\ UNCHANGED <<fileVars, lcncVars, linkVars, version, dirty, loopVars, pageVars, ops>>

Accepted(o) ==
  CASE o.kind = "save"     -> o.table[o.tool] # 0
    [] o.kind = "add"      -> o.table[o.tool] = 0
    [] o.kind = "delete"   -> o.table[o.tool] # 0
    [] o.kind = "renumber" -> /\ o.table[o.tool] # 0 /\ linked /\ spindle # o.tool
                              /\ o.to # o.tool => o.table[o.to] = 0

Edited(o) ==
  CASE o.kind \in {"save", "add"} -> [o.table EXCEPT ![o.tool] = o.n]
    [] o.kind = "delete"          -> [o.table EXCEPT ![o.tool] = 0]
    [] o.kind = "renumber"        -> [o.table EXCEPT ![o.tool] = 0, ![o.to] = o.n]

\* As Check, but a command that is refused keeps the lock.
CheckKeepsLock(c) ==
  /\ op[c].pc = "check"
  /\ IF Accepted(op[c])
       THEN op' = [op EXCEPT ![c].table = Edited(op[c]), ![c].pc = "write"]
       ELSE op' = [op EXCEPT ![c] = NoOp]
  /\ UNCHANGED <<fileVars, lcncVars, linkVars, lock, version, dirty, loopVars, pageVars, ops>>

\* The checks of a command on what was read, and its change of it.
Check(c) ==
  /\ op[c].pc = "check"
  /\ IF Accepted(op[c])
       THEN op' = [op EXCEPT ![c].table = Edited(op[c]), ![c].pc = "write"] /\ UNCHANGED lock
       ELSE op' = [op EXCEPT ![c] = NoOp] /\ lock' = Nobody
  /\ UNCHANGED <<fileVars, lcncVars, linkVars, version, dirty, loopVars, pageVars, ops>>

\* write_tool_table replaces the file.
WriteTable(c) ==
  /\ op[c].pc = "write"
  /\ tbl' = op[c].table
  /\ op' = [op EXCEPT ![c].pc = "reload"]
  /\ UNCHANGED <<lib, cache, lcncVars, linkVars, lock, version, dirty, loopVars, pageVars, ops>>

\* As Reload, but LinuxCNC is told only of edits, not of imports.
ReloadEditsOnly(c) ==
  /\ op[c].pc = "reload"
  /\ loading' = (loading \/ (linked /\ op[c].kind # "import")) /\ version' = version + 1
  /\ op' = [op EXCEPT ![c].pc = IF op[c].kind = "import" THEN "save" ELSE "library",
                      ![c].meta = IF op[c].kind = "import" THEN op[c].table ELSE @]
  /\ UNCHANGED <<fileVars, lcnc, spindle, linkVars, lock, dirty, loopVars, pageVars, ops>>

\* _reload_tool_table_and_bump: LinuxCNC is told if there is a link to it.
Reload(c) ==
  /\ op[c].pc = "reload"
  /\ loading' = (loading \/ linked) /\ version' = version + 1
  /\ op' = [op EXCEPT ![c].pc = IF op[c].kind = "import" THEN "save" ELSE "library",
                      ![c].meta = IF op[c].kind = "import" THEN op[c].table ELSE @]
  /\ UNCHANGED <<fileVars, lcnc, spindle, linkVars, lock, dirty, loopVars, pageVars, ops>>

\* _current_ini_path, and what ToolLibraryStore.load has read.
IniKey == IF linked THEN "ini" ELSE "default"
AllData == IF cache = Empty THEN lib ELSE cache
Library == AllData[IniKey]

Described(o, meta) ==
  CASE o.kind \in {"save", "add"} -> [meta EXCEPT ![o.tool] = o.n]
    [] o.kind = "delete"          -> [meta EXCEPT ![o.tool] = 0]
    [] o.kind = "renumber"        -> [meta EXCEPT ![o.tool] = 0, ![o.to] = meta[o.tool]]
    [] OTHER                      -> meta

\* The library is loaded and changed: it is the cached dict that changes.
LoadLibrary(c) ==
  /\ op[c].pc = "library"
  /\ cache' = [AllData EXCEPT ![IniKey] = Described(op[c], Library)]
  /\ op' = [op EXCEPT ![c].meta = Described(op[c], Library),
                      ![c].pc = IF op[c].kind = "get" THEN "reply" ELSE "save"]
  /\ UNCHANGED <<tbl, lib, lcncVars, linkVars, lock, version, dirty, loopVars, pageVars, ops>>

\* ToolLibraryStore.save reads the file again and replaces one part; the reply.
SaveLibrary(c) ==
  /\ op[c].pc = "save"
  /\ lib' = [lib EXCEPT ![IniKey] = op[c].meta] /\ cache' = Empty
  /\ dirty' = (dirty \/ op[c].kind = "save")
  /\ op' = [op EXCEPT ![c] = NoOp] /\ lock' = Nobody
  /\ UNCHANGED <<tbl, lcncVars, linkVars, version, loopVars, pageVars, ops>>

\* A read or a write of a file, or load_tool_table, raises: the command ends with
\* an error, what it did before stays.
Fails(c) ==
  /\ Failures /\ Operate /\ op[c].pc \notin {"idle", "queued"}
  /\ op' = [op EXCEPT ![c] = NoOp] /\ lock' = Nobody
  /\ UNCHANGED <<fileVars, lcncVars, linkVars, version, dirty, loopVars, pageVars>>

\* The reply to get_tool_table, _merge_tool_data of what was read.
Reply(c) ==
  /\ op[c].pc = "reply"
  /\ page' = [page EXCEPT ![c] = [table |-> op[c].table,
       meta |-> [t \in Tool |-> IF op[c].table[t] = 0 THEN 0 ELSE op[c].meta[t]]]]
  /\ op' = [op EXCEPT ![c] = NoOp] /\ lock' = Nobody
  /\ UNCHANGED <<fileVars, lcncVars, linkVars, version, dirty, loopVars, wants, views, ops>>

-----------------------------------------------------------------------------
(* status_loop. *)

Ticks(c) == linked /\ c \notin mute /\ loop[c].pc = "run"

\* As TickMeta, but the edge is one for all clients.
TickMetaOnce(c) ==
  /\ Ticks(c) /\ (polled # loop[c].tool \/ dirty)
  /\ loop' = [d \in Client |-> [loop[d] EXCEPT !.tool = polled,
                                             !.pc = IF d = c THEN "load" ELSE @]]
  /\ dirty' = FALSE
  /\ UNCHANGED <<fileVars, lcncVars, linkVars, lock, op, version, mute, pageVars, ops>>

\* The edge of the tool's number, or a library edit, is taken note of, and the
\* library is loaded in a thread.
TickMeta(c) ==
  /\ Ticks(c) /\ (polled # loop[c].tool \/ dirty)
  /\ loop' = [loop EXCEPT ![c].tool = polled, ![c].pc = "load"]
  /\ dirty' = FALSE
  /\ UNCHANGED <<fileVars, lcncVars, linkVars, lock, op, version, mute, pageVars, ops>>

\* tool_meta goes with the status, unless the tool has no metadata.
MetaLoaded(c) ==
  LET t == loop[c].tool
  IN /\ loop[c].pc = "load" /\ loop' = [loop EXCEPT ![c].pc = "run"]
     /\ cache' = AllData
     /\ views' = IF t # NoTool /\ Library[t] # 0
                   THEN [views EXCEPT ![c][t] = Library[t]] ELSE views
     /\ UNCHANGED <<tbl, lib, lcncVars, linkVars, lock, op, version, dirty, mute, wants, page, ops>>

\* The load raises, which is only logged, or the frame is lost.
MetaFails(c) ==
  /\ Failures /\ Operate
  /\ loop[c].pc = "load" /\ loop' = [loop EXCEPT ![c].pc = "run"]
  /\ UNCHANGED <<fileVars, lcncVars, linkVars, lock, op, version, dirty, mute, pageVars>>

\* As TickTable, but a page that waits for a reply takes no notice.
TickTableBusy(c) ==
  /\ Ticks(c) /\ loop[c].told # version
  /\ loop' = [loop EXCEPT ![c].told = version]
  /\ wants' = IF op[c].pc = "idle" THEN wants \cup {c} ELSE wants
  /\ UNCHANGED <<fileVars, lcncVars, linkVars, lock, op, version, dirty, mute, page, views, ops>>

\* tool_table_changed: the page will fetch.
TickTable(c) ==
  /\ Ticks(c) /\ loop[c].told # version
  /\ loop' = [loop EXCEPT ![c].told = version]
  /\ wants' = wants \cup {c}
  /\ UNCHANGED <<fileVars, lcncVars, linkVars, lock, op, version, dirty, mute, page, views, ops>>

\* The tab is hidden, or ten exceptions have ended the loop.
Mute(c) ==
  /\ Failures /\ Operate
  /\ c \notin mute /\ mute' = mute \cup {c}
  /\ UNCHANGED <<fileVars, lcncVars, linkVars, lock, op, version, dirty, loop, pageVars>>

\* The tab is shown again.
Unmute(c) ==
  /\ c \in mute /\ mute' = mute \ {c}
  /\ UNCHANGED <<fileVars, lcncVars, linkVars, lock, op, version, dirty, loop, pageVars, ops>>

\* The page reconnects: a new ClientState, and a loop that has told nothing.
Reconnect(c) ==
  /\ op[c].pc = "idle" /\ (loop[c] # NewLoop \/ c \in mute)
  /\ Operate
  /\ loop' = [loop EXCEPT ![c] = NewLoop] /\ mute' = mute \ {c}
  /\ wants' = wants \cup {c}
  /\ UNCHANGED <<fileVars, lcncVars, linkVars, lock, op, version, dirty, page, views>>

Command(c) ==
  Begin(c) \/ Check(c) \/ WriteTable(c) \/ Reload(c) \/ LoadLibrary(c) \/ SaveLibrary(c)
    \/ Reply(c)

Next ==
  \/ LcncLoads \/ LcncChangesTool \/ LcncMeasures \/ LcncRestarts
  \/ LinkLost \/ LinkBack \/ PollTool
  \/ \E c \in Client : \/ Request(c) \/ RequestGet(c) \/ Command(c) \/ Fails(c)
                       \/ TickMeta(c) \/ MetaLoaded(c) \/ MetaFails(c) \/ TickTable(c)
                       \/ Mute(c) \/ Unmute(c) \/ Reconnect(c)

\* Commands in progress go on, a waiting one gets the lock, the poller and the
\* status loops run, LinuxCNC obeys.
Fairness ==
  /\ WF_vars(LcncLoads) /\ WF_vars(PollTool)
  /\ \A c \in Client :
       /\ WF_vars(Command(c)) /\ WF_vars(RequestGet(c))
       /\ WF_vars(TickMeta(c)) /\ WF_vars(MetaLoaded(c)) /\ WF_vars(TickTable(c))

Spec == Init /\ [][Next]_vars /\ Fairness

Quiet == \A c \in Client : op[c].pc \in {"idle", "queued"}
=============================================================================
