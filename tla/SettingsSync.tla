----------------------------- MODULE SettingsSync -----------------------------
(***************************************************************************)
(* The server-side settings: one JSON document for all machine             *)
(* configurations, cached by the store and replaced on disk at every save, *)
(* and the pages that are told of a new version by their status_loop.      *)
(*                                                                         *)
(* Saves, resets and loads run in executor threads.  A save holds the      *)
(* store's lock from its read to its version; a load takes no lock.        *)
(*                                                                         *)
(* The content of a section is the number of the operation that wrote it;  *)
(* after a reset that number stands for "nothing".                         *)
(***************************************************************************)
EXTENDS Naturals

CONSTANTS
  Page,      \* browser tabs
  Section,
  MaxOps,    \* bound on saves, resets, disconnects and changes of the link
  LinkLoss   \* TRUE: LinuxCNC, whose INI is the key, may come and go

ASSUME SettingsAssumption ==
  MaxOps \in Nat /\ LinkLoss \in BOOLEAN /\ "nobody" \notin Page

VARIABLES
  file,    \* settings.json: a document, or Bad (does not parse)
  cache,   \* SettingsStore._cache: a document, or Empty (None)
  failed,  \* _load_failed
  version,
  lock,    \* the page whose save or reset holds _lock, or Nobody
  saver,   \* each page's save: [pc, key, sec, bytes]
  reader,  \* each page's load by a thread that found no cache: [pc, doc]
  loop,    \* ws_endpoint and its status_loop: [pc, ver: _last_settings_ver]
  shown,   \* what the page shows: what its key held when it was sent
  hidden,  \* pages in the background
  linked,  \* STAT is there
  ops

storeVars == <<file, cache, failed, version, lock, saver>>
vars == <<storeVars, reader, loop, shown, hidden, linked, ops>>

Key == {"ini", "default"}
Nobody == "nobody"
Value == 0..MaxOps
Document == [Key -> [Section -> Value]]
Nothing == [s \in Section |-> 0]
Blank == [k \in Key |-> Nothing]
Bad == [k \in {"bad"} |-> Nothing]
Empty == [k \in {"none"} |-> Nothing]
NoSave == [pc |-> "idle", key |-> "ini", sec |-> {}, bytes |-> Blank]
NoLoad == [pc |-> "idle", doc |-> Empty]

TypeOK ==
  /\ file \in Document \cup {Bad}
  /\ cache \in Document \cup {Empty}
  /\ failed \in BOOLEAN
  /\ version \in Value
  /\ lock \in Page \cup {Nobody}
  /\ saver \in [Page -> [pc : {"idle", "write", "bump"}, key : Key,
                         sec : SUBSET Section, bytes : Document]]
  /\ \A p \in Page : saver[p].pc # "idle" <=> lock = p
  /\ reader \in [Page -> [pc : {"idle", "read"}, doc : Document \cup {Empty, Bad}]]
  /\ loop \in [Page -> [pc : {"off", "hello", "gap", "wait", "send", "dead"}, ver : Value]]
  /\ shown \in [Page -> [Section -> Value]]
  /\ hidden \subseteq Page
  /\ linked \in BOOLEAN
  /\ ops \in 0..MaxOps

\* A gateway that has just started, on a file that it can read or not.
Init ==
  /\ file \in {Blank, Bad}
  /\ cache = Empty /\ failed = FALSE /\ version = 0
  /\ lock = Nobody /\ saver = [p \in Page |-> NoSave]
  /\ reader = [p \in Page |-> NoLoad]
  /\ loop = [p \in Page |-> [pc |-> "off", ver |-> 0]]
  /\ shown = [p \in Page |-> Nothing]
  /\ hidden = {}
  /\ linked \in (IF LinkLoss THEN BOOLEAN ELSE {TRUE})
  /\ ops = 0

Operate == ops < MaxOps /\ ops' = ops + 1

\* _current_ini_path.
CurrentKey == IF linked THEN "ini" ELSE "default"

\* A document that does not parse is replaced by an empty one, in memory.
Parsed(text) == IF text = Bad THEN Blank ELSE text

-----------------------------------------------------------------------------
(***************************************************************************)
(* SettingsStore.                                                          *)
(***************************************************************************)
Loaded == IF cache = Empty THEN Parsed(file) ELSE cache

\* save_section (one section) and reset (all): with the lock, load, change the
\* cached document in place, and encode it.
Mutate(p, sections) ==
  LET k == CurrentKey
      new == [Loaded EXCEPT ![k] = [s \in Section |-> IF s \in sections THEN ops' ELSE @[s]]]
  IN  /\ cache' = new
      /\ failed' = (failed \/ (cache = Empty /\ file = Bad))
      /\ saver' = [saver EXCEPT ![p] = [pc |-> "write", key |-> k, sec |-> sections, bytes |-> new]]

\* (mutant) A save that does not take the lock.
SaveBeginUnlocked(p, sections) ==
  /\ saver[p].pc = "idle" /\ Operate
  /\ Mutate(p, sections)
  /\ lock' = p
  /\ UNCHANGED <<file, version, reader, loop, shown, hidden, linked>>

SaveBegin(p, sections) ==
  /\ saver[p].pc = "idle" /\ lock = Nobody /\ Operate
  /\ Mutate(p, sections)
  /\ lock' = p
  /\ UNCHANGED <<file, version, reader, loop, shown, hidden, linked>>

\* A reset that finds nothing writes nothing.
ResetNothing(p) ==
  /\ saver[p].pc = "idle" /\ lock = Nobody /\ Operate
  /\ Loaded[CurrentKey] = Nothing
  /\ cache' = Loaded
  /\ failed' = (failed \/ (cache = Empty /\ file = Bad))
  /\ saver' = [saver EXCEPT ![p].pc = "bump"] /\ lock' = p
  /\ UNCHANGED <<file, version, reader, loop, shown, hidden, linked>>

\* _save_all: the file is replaced by rename, and the document is the cache.
SaveWrite(p) ==
  /\ saver[p].pc = "write"
  /\ ~(failed /\ file = Bad)
  /\ file' = saver[p].bytes /\ cache' = saver[p].bytes
  /\ saver' = [saver EXCEPT ![p].pc = "bump"]
  /\ UNCHANGED <<failed, version, lock, reader, loop, shown, hidden, linked, ops>>

\* (mutant) A failed save keeps the lock.
SaveFailsHolding(p) ==
  /\ saver[p].pc = "write"
  /\ saver' = [saver EXCEPT ![p] = NoSave]
  /\ UNCHANGED <<file, cache, failed, version, lock, reader, loop, shown, hidden, linked, ops>>

\* It refuses to replace a file that did not parse, or the disk is full; the
\* document in memory stays as it was changed.
SaveFails(p) ==
  /\ saver[p].pc = "write"
  /\ saver' = [saver EXCEPT ![p] = NoSave] /\ lock' = Nobody
  /\ UNCHANGED <<file, cache, failed, version, reader, loop, shown, hidden, linked, ops>>

\* The version is bumped, the lock released, and the save acknowledged.
SaveDone(p) ==
  /\ saver[p].pc = "bump"
  /\ version' = version + 1
  /\ saver' = [saver EXCEPT ![p] = NoSave] /\ lock' = Nobody
  /\ UNCHANGED <<file, cache, failed, reader, loop, shown, hidden, linked, ops>>

\* _load_all of a thread that finds no cache: it opens the file, and later sets
\* the cache to what it has read.
LoadRead(p) ==
  /\ loop[p].pc \in {"hello", "send"} /\ cache = Empty /\ reader[p].pc = "idle"
  /\ reader' = [reader EXCEPT ![p] = [pc |-> "read", doc |-> file]]
  /\ UNCHANGED <<storeVars, loop, shown, hidden, linked, ops>>

LoadStore(p) ==
  /\ reader[p].pc = "read"
  /\ cache' = Parsed(reader[p].doc)
  /\ failed' = (reader[p].doc = Bad)
  /\ reader' = [reader EXCEPT ![p] = NoLoad]
  /\ UNCHANGED <<file, version, lock, saver, loop, shown, hidden, linked, ops>>

-----------------------------------------------------------------------------
(***************************************************************************)
(* A page's connection.                                                    *)
(***************************************************************************)
Goto(p, pc) == loop' = [loop EXCEPT ![p].pc = pc]

Connect(p) ==
  /\ loop[p].pc = "off"
  /\ Goto(p, "hello")
  /\ UNCHANGED <<storeVars, reader, shown, hidden, linked, ops>>

Disconnect(p) ==
  /\ loop[p].pc # "off" /\ reader[p].pc = "idle" /\ Operate
  /\ loop' = [loop EXCEPT ![p] = [pc |-> "off", ver |-> 0]]
  /\ hidden' = hidden \ {p}
  /\ UNCHANGED <<storeVars, reader, shown, linked>>

\* What is sent is read from the cached document when it is encoded.
Shows(p) ==
  /\ cache # Empty /\ reader[p].pc = "idle"
  /\ shown' = [shown EXCEPT ![p] = cache[CurrentKey]]

\* settings_init; more of the handshake follows.
SettingsInit(p) ==
  /\ loop[p].pc = "hello" /\ Shows(p)
  /\ Goto(p, "gap")
  /\ UNCHANGED <<storeVars, reader, hidden, linked, ops>>

\* status_loop begins: what it calls the last version sent is the current one.
LoopStart(p) ==
  /\ loop[p].pc = "gap"
  /\ loop' = [loop EXCEPT ![p] = [pc |-> "wait", ver |-> version]]
  /\ UNCHANGED <<storeVars, reader, shown, hidden, linked, ops>>

\* (mutant) The version is compared before hidden pages are skipped.
TickBeforeSkip(p) ==
  /\ loop[p].pc = "wait" /\ linked
  /\ loop[p].ver # version
  /\ loop' = [loop EXCEPT ![p] = [pc |-> IF p \in hidden THEN "wait" ELSE "send", ver |-> version]]
  /\ UNCHANGED <<storeVars, reader, shown, hidden, linked, ops>>

\* A tick that sees another version records it, and only then loads.
Tick(p) ==
  /\ loop[p].pc = "wait" /\ p \notin hidden /\ linked
  /\ loop[p].ver # version
  /\ loop' = [loop EXCEPT ![p] = [pc |-> "send", ver |-> version]]
  /\ UNCHANGED <<storeVars, reader, shown, hidden, linked, ops>>

\* settings_changed.
SettingsChanged(p) ==
  /\ loop[p].pc = "send" /\ Shows(p)
  /\ Goto(p, "wait")
  /\ UNCHANGED <<storeVars, reader, hidden, linked, ops>>

\* settings_changed is not sent, or the frame is lost; the version stays recorded.
SettingsLost(p) ==
  /\ loop[p].pc = "send" /\ Operate
  /\ Goto(p, "wait")
  /\ UNCHANGED <<storeVars, reader, shown, hidden, linked>>

\* Ten exceptions end status_loop, but not the connection.
LoopDies(p) ==
  /\ loop[p].pc = "wait" /\ Operate
  /\ Goto(p, "dead")
  /\ UNCHANGED <<storeVars, reader, shown, hidden, linked>>

\* cmd get_settings.
GetSettings(p) ==
  /\ loop[p].pc \in {"wait", "dead"} /\ Shows(p)
  /\ UNCHANGED <<storeVars, reader, loop, hidden, linked, ops>>

TabVisibility(p) ==
  /\ loop[p].pc \in {"wait", "send", "dead"} /\ Operate
  /\ hidden' = IF p \in hidden THEN hidden \ {p} ELSE hidden \cup {p}
  /\ UNCHANGED <<storeVars, reader, loop, shown, linked>>

\* LinuxCNC ends, or is there.
LinkChange ==
  /\ LinkLoss /\ Operate
  /\ linked' = ~linked
  /\ UNCHANGED <<storeVars, reader, loop, shown, hidden>>

-----------------------------------------------------------------------------
Save(p) == SaveWrite(p) \/ SaveFails(p) \/ SaveDone(p)
Load(p) == LoadRead(p) \/ LoadStore(p)
Serve(p) == SettingsInit(p) \/ LoopStart(p) \/ Tick(p) \/ SettingsChanged(p)

Next ==
  \/ LinkChange
  \/ \E p \in Page :
       \/ \E s \in Section : SaveBegin(p, {s})
       \/ SaveBegin(p, Section) \/ ResetNothing(p)
       \/ Save(p) \/ Load(p) \/ Serve(p)
       \/ Connect(p) \/ Disconnect(p) \/ GetSettings(p) \/ TabVisibility(p)
       \/ SettingsLost(p) \/ LoopDies(p)

Spec == Init /\ [][Next]_vars

\* Threads run, tasks run; the poller ticks while LinuxCNC is there.
Fairness == \A p \in Page : WF_vars(Save(p)) /\ WF_vars(Load(p)) /\ WF_vars(Serve(p))
=============================================================================
