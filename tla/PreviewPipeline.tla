-------------------------- MODULE PreviewPipeline ---------------------------
(***************************************************************************)
(* The G-code preview on its way from the program on disk to the browsers. *)
(*                                                                         *)
(* The status poller compares LinuxCNC's file and its mtime with what was  *)
(* last published and starts one parse at a time; the parse runs in a      *)
(* worker process, and what it returns is published under a new version.   *)
(* Every client's status_loop announces a version it has not announced     *)
(* before; the browser then fetches the bytes over HTTP, which is not       *)
(* ordered with the WebSocket, and shows them if no later announcement     *)
(* came in between.                                                        *)
(*                                                                         *)
(* A text stands for the content of a program and for its mtime.           *)
(***************************************************************************)
EXTENDS Naturals, Sequences

CONSTANTS
  Client,    \* browser tabs
  File,      \* programs
  NoFile,
  MaxOps,    \* bound on loads, saves, unloads, failing parses and disconnects
  MaxFaults  \* bound on failing page loads and pauses of a status_loop

ASSUME PreviewAssumption == NoFile \notin File /\ MaxOps \in Nat /\ MaxFaults \in Nat

VARIABLES
  disk,      \* the text of each program
  loaded,    \* STAT.file
  poll,      \* the poller: "idle", or the active_file of the status it works on
  served,    \* preview_pending and preview_bytes: [file, text, ver], or None
  version,   \* preview_version
  last,      \* last_file and last_mtime: [file, text]
  busy,      \* refresh_running
  job,       \* the refresh task: [pc, file, mtime, text]
  online,    \* clients with a connection
  mute,      \* of those: status_loop skips them (the tab is hidden, a send is
             \* pending, LinuxCNC is gone) or has given up
  told,      \* status_loop's _last_gcode_preview_version
  ws,        \* announcements on their way to the browser
  want,      \* the browser's _previewLastVersion, 0 for none
  fetch,     \* its request: [ver, body], or NoFetch
  shown,     \* its viewerGcode
  ops,
  faults

diskVars == <<disk, loaded>>
gwVars == <<served, version, last, busy, job>>
tabVars == <<want, fetch, shown>>
faultVars == <<mute, faults>>
vars == <<diskVars, poll, gwVars, online, told, ws, tabVars, ops, faultVars>>

Text == 0..MaxOps
Version == 0..(3 * MaxOps + 1)
None == [file |-> NoFile, text |-> 0, ver |-> 0]
Preview == [file : File, text : Text, ver : Version] \cup {None}
NoLast == [file |-> NoFile, text |-> 0]
NoJob == [pc |-> "none", file |-> NoFile, mtime |-> 0, text |-> 0]
NoFetch == [ver |-> 0, body |-> None]

TypeOK ==
  /\ disk \in [File -> Text]
  /\ loaded \in File \cup {NoFile}
  /\ poll \in [busy : BOOLEAN, file : File \cup {NoFile}]
  /\ served \in Preview /\ version \in Version
  /\ last \in [file : File \cup {NoFile}, text : Text]
  /\ busy = (job.pc # "none")
  /\ job \in [pc : {"none", "start", "parse", "parsed", "pack"},
              file : File \cup {NoFile}, mtime : Text, text : Text]
  /\ online \subseteq Client /\ mute \subseteq online
  /\ told \in [Client -> Version] /\ want \in [Client -> Version]
  /\ ws \in [Client -> Seq([ver : Version, file : File \cup {NoFile}])]
  /\ fetch \in [Client -> [ver : Version, body : Preview]]
  /\ shown \in [Client -> Preview]
  /\ ops \in 0..MaxOps /\ faults \in 0..MaxFaults

\* The versions are seeded from the clock; 0 stands for "none".
Init ==
  /\ disk = [f \in File |-> 0] /\ loaded = NoFile
  /\ poll = [busy |-> FALSE, file |-> NoFile]
  /\ served = None /\ version = 1 /\ last = NoLast /\ busy = FALSE /\ job = NoJob
  /\ online = {} /\ told = [c \in Client |-> 0] /\ ws = [c \in Client |-> <<>>]
  /\ want = [c \in Client |-> 0] /\ fetch = [c \in Client |-> NoFetch]
  /\ shown = [c \in Client |-> None]
  /\ ops = 0 /\ mute = {} /\ faults = 0

Operate == ops < MaxOps /\ ops' = ops + 1
Fault == faults < MaxFaults /\ faults' = faults + 1

-----------------------------------------------------------------------------
(***************************************************************************)
(* LinuxCNC and the disk.                                                  *)
(***************************************************************************)
\* program_open, from the gateway's load_file or from another user interface.
\* A LinuxCNC that was restarted needs seconds to get there, the poller that
\* looks meanwhile a fraction of one.
Load(f) ==
  /\ Operate
  /\ loaded = NoFile /\ online # {} => last = NoLast
  /\ loaded' = f
  /\ UNCHANGED <<disk, poll, gwVars, online, told, ws, tabVars, faultVars>>

\* LinuxCNC ends, and comes back without a program.
Restart ==
  /\ loaded # NoFile /\ Operate
  /\ loaded' = NoFile
  /\ UNCHANGED <<disk, poll, gwVars, online, told, ws, tabVars, faultVars>>

\* The program is saved in place (temporary file and rename).
Save(f) ==
  /\ Operate
  /\ disk' = [disk EXCEPT ![f] = @ + 1]
  /\ UNCHANGED <<loaded, poll, gwVars, online, told, ws, tabVars, faultVars>>

-----------------------------------------------------------------------------
(***************************************************************************)
(* The gateway: poller, refresh task, unload.                              *)
(***************************************************************************)
\* The poller polls only while somebody is connected.  Poll and serialisation
\* run in the executor, and more awaits follow, before ...
PollStat ==
  /\ online # {} /\ ~poll.busy
  /\ poll' = [busy |-> TRUE, file |-> loaded]
  /\ UNCHANGED <<diskVars, gwVars, online, told, ws, tabVars, ops, faultVars>>

StartJob(f) ==
  /\ busy' = TRUE
  /\ job' = [NoJob EXCEPT !.pc = "start", !.file = f]

\* Drop the payload, then bump the version.
Cleared ==
  /\ served' = None
  /\ version' = version + 1
  /\ last' = NoLast

Changed(f) == f # NoFile /\ (f # last.file \/ disk[f] # last.text)

\* ... the file-change edge: the path, or the mtime of the same path.
PollEdge ==
  /\ poll.busy
  /\ poll' = [busy |-> FALSE, file |-> NoFile]
  /\ \/ /\ Changed(poll.file) /\ ~busy
        /\ StartJob(poll.file)
        /\ UNCHANGED <<served, version, last>>
     \/ /\ poll.file = NoFile /\ last.file # NoFile
        /\ Cleared
        /\ UNCHANGED <<busy, job>>
     \/ /\ ~(Changed(poll.file) /\ ~busy)
        /\ ~(poll.file = NoFile /\ last.file # NoFile)
        /\ UNCHANGED gwVars
  /\ UNCHANGED <<diskVars, online, told, ws, tabVars, ops, faultVars>>

\* refresh_gcode_preview, first step: the mtime is taken before the parse.
JobStart ==
  /\ job.pc = "start"
  /\ job' = [job EXCEPT !.pc = "parse", !.mtime = disk[job.file]]
  /\ UNCHANGED <<diskVars, poll, served, version, last, busy, online, told, ws, tabVars, ops>>
  /\ UNCHANGED faultVars

\* The worker process reads the program.
WorkerReads ==
  /\ job.pc = "parse"
  /\ job' = [job EXCEPT !.pc = "parsed", !.text = disk[job.file]]
  /\ UNCHANGED <<diskVars, poll, served, version, last, busy, online, told, ws, tabVars, ops>>
  /\ UNCHANGED faultVars

\* (mutant) The mtime recorded is the one at publication.
PublishedLateMtime ==
  /\ served' = [file |-> job.file, text |-> job.text, ver |-> version + 1]
  /\ version' = version + 1
  /\ last' = [file |-> job.file, text |-> disk[job.file]]
  /\ busy' = FALSE
  /\ job' = NoJob

\* (mutant) The mtime that was taken is not kept.
PublishedNoMtime ==
  /\ served' = [file |-> job.file, text |-> job.text, ver |-> version + 1]
  /\ version' = version + 1
  /\ last' = [file |-> job.file, text |-> 0]
  /\ busy' = FALSE
  /\ job' = NoJob

\* Swap payload and metadata, increment the version last; clear the flag.
Published ==
  /\ served' = [file |-> job.file, text |-> job.text, ver |-> version + 1]
  /\ version' = version + 1
  /\ last' = [file |-> job.file, text |-> job.mtime]
  /\ busy' = FALSE
  /\ job' = NoJob

\* (mutant) The version is bumped before the compression, not after.
ParseDoneEarlyVersion ==
  /\ job.pc = "parsed"
  /\ job' = [job EXCEPT !.pc = "pack"]
  /\ version' = version + 1
  /\ UNCHANGED <<served, last, busy>>
  /\ UNCHANGED <<diskVars, poll, online, told, ws, tabVars, ops, faultVars>>

\* A small result is published at once, a large one compressed in a thread first.
ParseDone ==
  /\ job.pc = "parsed"
  /\ \/ Published
     \/ job' = [job EXCEPT !.pc = "pack"] /\ UNCHANGED <<served, version, last, busy>>
  /\ UNCHANGED <<diskVars, poll, online, told, ws, tabVars, ops, faultVars>>

PackDone ==
  /\ job.pc = "pack"
  /\ Published
  /\ UNCHANGED <<diskVars, poll, online, told, ws, tabVars, ops, faultVars>>

\* (mutant) A parse that fails leaves refresh_running set.
ParseFailsBusy ==
  /\ job.pc \in {"start", "parsed"} /\ Operate
  /\ busy' = busy /\ job' = NoJob
  /\ UNCHANGED <<diskVars, poll, served, version, last, online, told, ws, tabVars, faultVars>>

\* No INI file yet, or a worker that fails, is too slow or returns nothing:
\* nothing is published.
ParseFails ==
  /\ job.pc \in {"start", "parsed"} /\ Operate
  /\ busy' = FALSE /\ job' = NoJob
  /\ UNCHANGED <<diskVars, poll, served, version, last, online, told, ws, tabVars, faultVars>>

\* unload_file: LinuxCNC keeps STAT.file, the gateway clears its cache.
Unload ==
  /\ online # {} /\ Operate
  /\ Cleared
  /\ UNCHANGED <<diskVars, poll, busy, job, online, told, ws, tabVars, faultVars>>

-----------------------------------------------------------------------------
(***************************************************************************)
(* A connection: the initial announcement, then status_loop's.             *)
(***************************************************************************)
Ready(p) == [ver |-> version, file |-> p.file]
Empty == [ver |-> 0, file |-> NoFile]

\* Only what is published is announced: right away if it is the loaded program;
\* otherwise a parse is started, and the next version announced by status_loop.
Connect(c) ==
  /\ c \notin online
  /\ online' = online \cup {c}
  /\ told' = [told EXCEPT ![c] = version]
  /\ IF loaded # NoFile /\ served.file = loaded
     THEN ws' = [ws EXCEPT ![c] = <<Ready(served)>>] /\ UNCHANGED <<busy, job>>
     ELSE /\ IF loaded # NoFile /\ ~busy THEN StartJob(loaded) ELSE UNCHANGED <<busy, job>>
          /\ UNCHANGED ws
  /\ UNCHANGED <<diskVars, poll, served, version, last, tabVars, ops, faultVars>>

\* The browser keeps its page; only the connection and what is on it is lost.
Disconnect(c) ==
  /\ c \in online /\ Operate
  /\ online' = online \ {c} /\ mute' = mute \ {c}
  /\ ws' = [ws EXCEPT ![c] = <<>>]
  /\ told' = [told EXCEPT ![c] = 0]
  /\ UNCHANGED <<diskVars, poll, gwVars, tabVars, faults>>

\* status_loop skips its client from now on, or gives up ...
Mute(c) ==
  /\ c \in online \ mute /\ Fault
  /\ mute' = mute \cup {c}
  /\ UNCHANGED <<diskVars, poll, gwVars, online, told, ws, tabVars, ops>>

\* ... or goes on: the tab is shown again, the send has ended, LinuxCNC is back.
Unmute(c) ==
  /\ c \in mute
  /\ mute' = mute \ {c}
  /\ UNCHANGED <<diskVars, poll, gwVars, online, told, ws, tabVars, ops, faults>>

Announce(c) ==
  /\ c \in online \ mute /\ told[c] # version
  /\ told' = [told EXCEPT ![c] = version]
  /\ ws' = [ws EXCEPT ![c] = Append(@, IF served # None THEN Ready(served) ELSE Empty)]
  /\ UNCHANGED <<diskVars, poll, gwVars, online, tabVars, ops, faultVars>>

\* GET /preview: always the current bytes, whatever version was asked for; 404
\* (an error for the browser) if there are none.
ServeGet(c) ==
  /\ fetch[c].ver # 0 /\ fetch[c].body = None
  /\ IF served # None
     THEN fetch' = [fetch EXCEPT ![c].body = served] /\ UNCHANGED want
     ELSE /\ fetch' = [fetch EXCEPT ![c] = NoFetch]
          /\ want' = IF want[c] = fetch[c].ver THEN [want EXCEPT ![c] = 0] ELSE want
  /\ UNCHANGED <<diskVars, poll, gwVars, online, told, ws, shown, ops, faultVars>>

-----------------------------------------------------------------------------

\* An announcement arrives.  A new version supersedes the request in flight, whose
\* reply will be dropped.  The empty program is shown at once, and leaves a
\* request in flight alone.
Receive(c) ==
  /\ ws[c] # <<>>
  /\ LET m == Head(ws[c]) IN
       IF m.file = NoFile
       THEN shown' = [shown EXCEPT ![c] = None] /\ UNCHANGED <<want, fetch>>
       ELSE /\ IF m.ver # want[c]
               THEN /\ want' = [want EXCEPT ![c] = m.ver]
                    /\ fetch' = [fetch EXCEPT ![c] = [ver |-> m.ver, body |-> None]]
               ELSE UNCHANGED <<want, fetch>>
            /\ UNCHANGED shown
  /\ ws' = [ws EXCEPT ![c] = Tail(@)]
  /\ UNCHANGED <<diskVars, poll, gwVars, online, told, ops, faultVars>>

\* The reply arrives, and is shown if it is the one last asked for.
Loaded(c) ==
  /\ fetch[c].body # None
  /\ shown' = IF fetch[c].ver = want[c] THEN [shown EXCEPT ![c] = fetch[c].body] ELSE shown
  /\ fetch' = [fetch EXCEPT ![c] = NoFetch]
  /\ UNCHANGED <<diskVars, poll, gwVars, online, told, ws, want, ops, faultVars>>

\* The page's load fails: the network, HTTP, its decoder or its worker.  The page
\* keeps what it shows, and asks again only when another version is announced.
LoadFails(c) ==
  /\ fetch[c].ver # 0 /\ Fault
  /\ want' = [want EXCEPT ![c] = 0]
  /\ fetch' = [fetch EXCEPT ![c] = NoFetch]
  /\ UNCHANGED <<diskVars, poll, gwVars, online, mute, told, ws, shown, ops>>

-----------------------------------------------------------------------------
Next ==
  \/ \E f \in File : Load(f) \/ Save(f)
  \/ Restart \/ PollStat \/ PollEdge \/ Unload
  \/ JobStart \/ WorkerReads \/ ParseDone \/ PackDone \/ ParseFails
  \/ \E c \in Client :
       \/ Connect(c) \/ Disconnect(c) \/ Mute(c) \/ Unmute(c) \/ Announce(c)
       \/ ServeGet(c) \/ Receive(c) \/ Loaded(c) \/ LoadFails(c)

Spec == Init /\ [][Next]_vars

\* The poller's loop, the refresh task, a status_loop that is not mute, HTTP and
\* a page that is there all go on; nobody has to connect, load, save or unload
\* anything, show a hidden tab, or make LinuxCNC come back.
Fairness ==
  /\ WF_vars(PollStat) /\ WF_vars(PollEdge)
  /\ WF_vars(JobStart) /\ WF_vars(WorkerReads) /\ WF_vars(ParseDone) /\ WF_vars(PackDone)
  /\ \A c \in Client :
       /\ WF_vars(Announce(c)) /\ WF_vars(ServeGet(c))
       /\ WF_vars(Receive(c)) /\ WF_vars(Loaded(c))

-----------------------------------------------------------------------------
(***************************************************************************)
(* Properties.                                                             *)
(***************************************************************************)
\* bulk_pipeline.py, publication contract: "a reader that sees version N always
\* sees N's bytes" (or later ones): whatever was cleared, parsed and published
\* between the announcement and the fetch, an answer is never older than asked.
NeverOldBytes ==
  \A c \in Client : fetch[c].body # None => fetch[c].body.ver >= fetch[c].ver

\* bulk_pipeline.py and the poller's file-change edge publish once per change,
\* not once per poll: however many tabs connect, and however late a status or a
\* parse is, one load, save, unload, restart or failure is followed by at most
\* three versions, each of which makes every browser fetch the program again.
FewVersions == version <= 3 * ops + 1
=============================================================================
