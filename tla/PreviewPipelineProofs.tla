----------------------- MODULE PreviewPipelineProofs ------------------------
(***************************************************************************)
(* Proofs for every number of clients, programs and operations: an answer  *)
(* to a fetch is never older than what was announced; no change is         *)
(* published more than three times; the variables keep their types.        *)
(***************************************************************************)
EXTENDS PreviewPipeline, TLAPS

Name == File \cup {NoFile}
Message == [ver : Nat, file : Name]
Bytes == [file : Name, text : Nat, ver : Nat]
Task == [pc : {"none", "start", "parse", "parsed", "pack"}, file : Name, mtime : Nat, text : Nat]

(***************************************************************************)
(* The types without their bounds; a task that runs has a program.         *)
(***************************************************************************)
SourceType ==
  /\ disk \in [File -> Nat] /\ loaded \in Name
  /\ poll.file \in Name
  /\ job \in Task /\ (job.pc # "none" => job.file \in File)

ServedType == served \in Bytes /\ version \in Nat

TabType ==
  /\ ws \in [Client -> Seq(Message)]
  /\ fetch \in [Client -> [ver : Nat, body : Bytes]]

(***************************************************************************)
(* Payload and version are swapped in one step, so what is published has   *)
(* the newest version, and nobody has heard of a newer one.                *)
(***************************************************************************)
ServedIsNewest == served # None => served.ver = version

HeardNoNewer ==
  \A c \in Client :
    /\ \A i \in 1..Len(ws[c]) : ws[c][i].ver <= version
    /\ fetch[c].ver <= version

FetchInv == SourceType /\ ServedType /\ TabType /\ ServedIsNewest /\ HeardNoNewer /\ NeverOldBytes

LEMMA FetchInit == Init => FetchInv
  <1> SUFFICES ASSUME Init PROVE FetchInv
    OBVIOUS
  <1> USE PreviewAssumption DEF Init, None, NoJob, NoFetch, Name
  <1>1. SourceType
    BY DEF SourceType, Task
  <1>2. ServedType /\ ServedIsNewest
    BY DEF ServedType, ServedIsNewest, Bytes
  <1>3. TabType
    BY DEF TabType, Bytes, Message
  <1>4. HeardNoNewer /\ NeverOldBytes
    BY DEF HeardNoNewer, NeverOldBytes
  <1> QED BY <1>1, <1>2, <1>3, <1>4 DEF FetchInv

\* A new refresh task has a program.
LEMMA StartsTask ==
  ASSUME NEW f \in File, StartJob(f)
  PROVE  job' \in Task /\ job'.file \in File
  BY DEF StartJob, NoJob, Task, Name

(***************************************************************************)
(* The program side keeps its types.                                       *)
(***************************************************************************)
LEMMA SourceStep == FetchInv /\ [Next]_vars => SourceType'
  <1> SUFFICES ASSUME FetchInv, [Next]_vars PROVE SourceType'
    OBVIOUS
  <1> USE DEF FetchInv, SourceType, ServedType, Name, Task, diskVars, gwVars
  <1>1. ASSUME NEW f \in File, Load(f) \/ Save(f) PROVE SourceType'
    BY <1>1 DEF Load, Save
  <1>2. CASE Restart \/ PollStat \/ Unload
    BY <1>2 DEF Restart, PollStat, Unload
  <1>3. CASE PollEdge
    <2>1. UNCHANGED diskVars /\ poll'.file = NoFile
      BY <1>3 DEF PollEdge
    <2>2. CASE UNCHANGED job
      BY <2>1, <2>2
    <2>3. CASE Changed(poll.file) /\ StartJob(poll.file)
      <3>1. poll.file \in File
        BY <2>3 DEF Changed
      <3>2. job' \in Task /\ job'.file \in File
        BY <2>3, <3>1, StartsTask
      <3> QED BY <2>1, <3>2
    <2> QED BY <1>3, <2>2, <2>3 DEF PollEdge
  <1>4. CASE JobStart \/ WorkerReads
    BY <1>4 DEF JobStart, WorkerReads
  <1>5. CASE ParseDone \/ PackDone \/ ParseFails
    BY <1>5 DEF ParseDone, PackDone, ParseFails, Published, NoJob
  <1>6. ASSUME NEW c \in Client, Connect(c) PROVE SourceType'
    <2>1. UNCHANGED <<diskVars, poll>>
      BY <1>6 DEF Connect
    <2>2. CASE UNCHANGED job
      BY <2>1, <2>2
    <2>3. CASE loaded # NoFile /\ StartJob(loaded)
      <3>1. loaded \in File
        BY <2>3
      <3>2. job' \in Task /\ job'.file \in File
        BY <2>3, <3>1, StartsTask
      <3> QED BY <2>1, <3>2
    <2> QED BY <1>6, <2>2, <2>3 DEF Connect
  <1>7. ASSUME NEW c \in Client,
               \/ Disconnect(c) \/ Mute(c) \/ Unmute(c) \/ Announce(c)
               \/ ServeGet(c) \/ Receive(c) \/ Loaded(c) \/ LoadFails(c)
        PROVE SourceType'
    BY <1>7 DEF Disconnect, Mute, Unmute, Announce, ServeGet, Receive, Loaded,
           LoadFails
  <1>8. CASE UNCHANGED vars
    BY <1>8 DEF vars
  <1> QED BY <1>1, <1>2, <1>3, <1>4, <1>5, <1>6, <1>7, <1>8 DEF Next

(***************************************************************************)
(* What is published changes in two ways only; either keeps the types, and *)
(* the version only grows.                                                 *)
(***************************************************************************)
ServedKept ==
  /\ ServedType' /\ ServedIsNewest' /\ version <= version'

LEMMA PublishedKeeps ==
  ASSUME SourceType, ServedType, Published, job.file \in File
  PROVE  ServedKept
  BY DEF SourceType, ServedType, Published, ServedKept, ServedIsNewest, Bytes, Task, Name

LEMMA ClearedKeeps ==
  ASSUME ServedType, Cleared
  PROVE  ServedKept
  BY DEF ServedType, Cleared, ServedKept, ServedIsNewest, Bytes, None, Name

LEMMA ServedStep == FetchInv /\ [Next]_vars => ServedKept
  <1> SUFFICES ASSUME FetchInv, [Next]_vars PROVE ServedKept
    OBVIOUS
  <1>0. ASSUME UNCHANGED <<served, version>> PROVE ServedKept
    BY <1>0 DEF FetchInv, ServedType, ServedIsNewest, ServedKept
  <1>1. CASE Unload
    BY <1>1, ClearedKeeps DEF Unload, FetchInv
  <1>2. CASE PollEdge
    BY <1>0, <1>2, ClearedKeeps DEF PollEdge, FetchInv, gwVars
  <1>3. CASE ParseDone
    BY <1>0, <1>3, PublishedKeeps DEF ParseDone, FetchInv, SourceType
  <1>4. CASE PackDone
    BY <1>4, PublishedKeeps DEF PackDone, FetchInv, SourceType
  <1>5. ASSUME NEW f \in File, Load(f) \/ Save(f) PROVE ServedKept
    BY <1>0, <1>5 DEF Load, Save, gwVars
  <1>6. CASE Restart \/ PollStat \/ JobStart \/ WorkerReads \/ ParseFails
    BY <1>0, <1>6 DEF Restart, PollStat, JobStart, WorkerReads, ParseFails, gwVars
  <1>7. ASSUME NEW c \in Client,
               \/ Connect(c) \/ Disconnect(c) \/ Mute(c) \/ Unmute(c) \/ Announce(c)
               \/ ServeGet(c) \/ Receive(c) \/ Loaded(c) \/ LoadFails(c)
        PROVE ServedKept
    BY <1>0, <1>7 DEF Connect, Disconnect, Mute, Unmute, Announce, ServeGet, Receive, Loaded,
           LoadFails, gwVars
  <1>8. CASE UNCHANGED vars
    BY <1>0, <1>8 DEF vars, gwVars
  <1> QED BY <1>1, <1>2, <1>3, <1>4, <1>5, <1>6, <1>7, <1>8 DEF Next

(***************************************************************************)
(* The page side: the steps of one client leave the others alone.          *)
(***************************************************************************)
TabInv == TabType /\ HeardNoNewer /\ NeverOldBytes

\* A client's connection now carries q.
LEMMA LineStep ==
  ASSUME TabInv, NEW c \in Client, NEW q \in Seq(Message),
         \A i \in 1..Len(q) : q[i].ver <= version,
         ws' = [ws EXCEPT ![c] = q], UNCHANGED <<version, fetch>>
  PROVE  TabInv'
  <1> USE DEF TabInv, TabType, HeardNoNewer, NeverOldBytes
  <1>1. TabType' /\ NeverOldBytes'
    OBVIOUS
  <1>2. ASSUME NEW d \in Client
        PROVE  (\A i \in 1..Len(ws'[d]) : ws'[d][i].ver <= version') /\ fetch'[d].ver <= version'
    BY <1>2
  <1> QED BY <1>1, <1>2

\* A client's request is now r.
LEMMA RequestStep ==
  ASSUME TabInv, NEW c \in Client, NEW r \in [ver : Nat, body : Bytes],
         r.ver <= version, r.body # None => r.body.ver >= r.ver,
         fetch' = [fetch EXCEPT ![c] = r], UNCHANGED <<version, ws>>
  PROVE  TabInv'
  BY DEF TabInv, TabType, HeardNoNewer, NeverOldBytes

\* No request is a request that satisfies both.
LEMMA NoFetchFits ==
  NoFetch \in [ver : Nat, body : Bytes] /\ NoFetch.ver = 0 /\ NoFetch.body = None
  BY DEF NoFetch, None, Bytes, Name

LEMMA TabStep == FetchInv /\ [Next]_vars => TabInv'
  <1> SUFFICES ASSUME FetchInv, [Next]_vars PROVE TabInv'
    OBVIOUS
  <1>g. ServedKept
    BY ServedStep
  <1> USE DEF FetchInv, ServedKept, ServedType, TabInv, TabType, HeardNoNewer, NeverOldBytes
  <1>n. version \in Nat /\ version' \in Nat /\ version <= version'
    BY <1>g
  <1>0. ASSUME UNCHANGED <<ws, fetch>> PROVE TabInv'
    <2>1. TabType' /\ NeverOldBytes'
      BY <1>0
    <2>2. ASSUME NEW c \in Client PROVE fetch[c].ver <= version'
      BY <1>n
    <2>3. ASSUME NEW c \in Client, NEW i \in 1..Len(ws[c]) PROVE ws[c][i].ver <= version'
      <3>1. ws[c][i] \in Message
        OBVIOUS
      <3> QED BY <3>1, <1>n DEF Message
    <2> QED BY <1>0, <2>1, <2>2, <2>3
  <1>1. ASSUME NEW f \in File, Load(f) \/ Save(f) PROVE TabInv'
    BY <1>0, <1>1 DEF Load, Save, tabVars
  <1>2. CASE Restart \/ PollStat \/ PollEdge \/ Unload
    BY <1>0, <1>2 DEF Restart, PollStat, PollEdge, Unload, tabVars
  <1>3. CASE JobStart \/ WorkerReads \/ ParseDone \/ PackDone \/ ParseFails
    BY <1>0, <1>3 DEF JobStart, WorkerReads, ParseDone, PackDone, ParseFails, tabVars
  <1>4. ASSUME NEW c \in Client, Connect(c) PROVE TabInv'
    <2>1. CASE UNCHANGED <<ws, fetch>>
      BY <1>0, <2>1
    <2>2. CASE ws' = [ws EXCEPT ![c] = <<Ready(served)>>] /\ UNCHANGED <<version, fetch>>
      <3> DEFINE q == <<Ready(served)>>
      <3>1. q \in Seq(Message) /\ \A i \in 1..Len(q) : q[i].ver <= version
        BY DEF Ready, Message, Bytes
      <3> HIDE DEF q
      <3> QED BY <2>2, <3>1, LineStep DEF q
    <2> QED BY <1>4, <2>1, <2>2 DEF Connect, tabVars
  <1>5. ASSUME NEW c \in Client, Disconnect(c) PROVE TabInv'
    <2>1. << >> \in Seq(Message) /\ \A i \in 1..Len(<< >>) : FALSE
      OBVIOUS
    <2>2. ws' = [ws EXCEPT ![c] = << >>] /\ UNCHANGED <<version, fetch>>
      BY <1>5 DEF Disconnect, gwVars, tabVars
    <2> QED BY <2>1, <2>2, LineStep
  <1>6. ASSUME NEW c \in Client, Announce(c) PROVE TabInv'
    <2> DEFINE m == IF served # None THEN Ready(served) ELSE Empty
    <2>1. m \in Message /\ m.ver <= version
      BY DEF Ready, Empty, Message, Bytes, Name
    <2>2. ws' = [ws EXCEPT ![c] = Append(@, m)] /\ UNCHANGED <<version, fetch>>
      BY <1>6 DEF Announce, gwVars, tabVars
    <2> HIDE DEF m
    <2> QED BY <2>1, <2>2
  <1>7. ASSUME NEW c \in Client, ServeGet(c) PROVE TabInv'
    <2>1. UNCHANGED <<ws, version, served>>
      BY <1>7 DEF ServeGet, gwVars
    <2>2. CASE served # None
      BY <1>7, <2>1, <2>2 DEF ServeGet, ServedIsNewest
    <2>3. CASE served = None
      <3>1. fetch' = [fetch EXCEPT ![c] = NoFetch]
        BY <1>7, <2>3 DEF ServeGet
      <3> QED BY <2>1, <3>1, NoFetchFits, RequestStep
    <2> QED BY <2>2, <2>3
  <1>8. ASSUME NEW c \in Client, Receive(c) PROVE TabInv'
    <2> DEFINE m == Head(ws[c])
    <2>1. m \in Message /\ m.ver <= version /\ Tail(ws[c]) \in Seq(Message)
      BY <1>8 DEF Receive
    <2>2. \A i \in 1..Len(Tail(ws[c])) : Tail(ws[c])[i].ver <= version
      BY <1>8 DEF Receive
    <2>3. ws' = [ws EXCEPT ![c] = Tail(ws[c])] /\ UNCHANGED version
      BY <1>8 DEF Receive, gwVars
    <2>4. None \in Bytes
      BY DEF None, Bytes, Name
    <2>5. \/ UNCHANGED fetch
          \/ fetch' = [fetch EXCEPT ![c] = [ver |-> m.ver, body |-> None]]
      BY <1>8 DEF Receive
    <2> HIDE DEF m
    <2>6. CASE UNCHANGED fetch
      BY <2>1, <2>2, <2>3, <2>6, LineStep
    <2>7. CASE fetch' = [fetch EXCEPT ![c] = [ver |-> m.ver, body |-> None]]
      <3> DEFINE r == [ver |-> m.ver, body |-> None]
      <3>1. r \in [ver : Nat, body : Bytes] /\ r.ver <= version /\ r.body = None
        BY <2>1, <2>4 DEF Message
      <3> HIDE DEF r
      <3>2. TabType'
        BY <2>1, <2>3, <2>7, <3>1 DEF r
      <3>3. ASSUME NEW d \in Client
            PROVE  /\ \A i \in 1..Len(ws'[d]) : ws'[d][i].ver <= version'
                   /\ fetch'[d].ver <= version'
                   /\ fetch'[d].body # None => fetch'[d].body.ver >= fetch'[d].ver
        <4>1. CASE d = c
          BY <2>2, <2>3, <2>7, <3>1, <4>1 DEF r
        <4>2. CASE d # c
          BY <2>3, <2>7, <4>2
        <4> QED BY <4>1, <4>2
      <3> QED BY <3>2, <3>3
    <2> QED BY <2>5, <2>6, <2>7
  <1>9. ASSUME NEW c \in Client, Loaded(c) PROVE TabInv'
    <2>1. UNCHANGED <<ws, version>> /\ fetch' = [fetch EXCEPT ![c] = NoFetch]
      BY <1>9 DEF Loaded, gwVars
    <2> QED BY <2>1, NoFetchFits, RequestStep
  <1>10. ASSUME NEW c \in Client, Mute(c) \/ Unmute(c) PROVE TabInv'
    BY <1>0, <1>10 DEF Mute, Unmute, tabVars
  <1>11. ASSUME NEW c \in Client, LoadFails(c) PROVE TabInv'
    <2>1. UNCHANGED <<ws, version>> /\ fetch' = [fetch EXCEPT ![c] = NoFetch]
      BY <1>11 DEF LoadFails, gwVars
    <2> QED BY <2>1, NoFetchFits, RequestStep
  <1>12. CASE UNCHANGED vars
    BY <1>0, <1>12 DEF vars, tabVars
  <1> QED BY <1>1, <1>2, <1>3, <1>4, <1>5, <1>6, <1>7, <1>8, <1>9, <1>10, <1>11, <1>12 DEF Next

(***************************************************************************)
(* The publication contract of bulk_pipeline.py: whatever was cleared,     *)
(* parsed and published between an announcement and the fetch, the answer  *)
(* is never older than what was announced.                                 *)
(***************************************************************************)
THEOREM FetchIsNeverOlder == Spec => []NeverOldBytes
  <1>1. FetchInv /\ [Next]_vars => FetchInv'
    BY SourceStep, ServedStep, TabStep DEF FetchInv, ServedKept, TabInv
  <1>2. FetchInv => NeverOldBytes
    BY DEF FetchInv
  <1> QED BY FetchInit, <1>1, <1>2, PTL DEF Spec

-----------------------------------------------------------------------------
(***************************************************************************)
(* How many versions are still to come if nothing more happens from        *)
(* outside.  A job that runs publishes one; what is published last, by it  *)
(* or before it, may not be the loaded program as it is on disk, and is    *)
(* then replaced; and a poll that saw another program may publish that (or *)
(* clear what is published) and have it replaced.  Without a program a job *)
(* in flight may be cleared after it has published, besides what is        *)
(* published now.                                                          *)
(***************************************************************************)
Late == poll.busy /\ poll.file # loaded

Shows(file, text) == file = loaded /\ (loaded # NoFile => text = disk[loaded])

LastShows == Shows(last.file, last.text)

\* What is published once the job in flight has published.
JobShows == job.file = loaded /\ (job.pc = "start" \/ job.mtime = disk[loaded])

One(b) == IF b THEN 1 ELSE 0

Debt ==
  IF job.pc = "none" THEN One(~LastShows) + 2 * One(Late)
  ELSE IF loaded # NoFile THEN 1 + One(~JobShows) + 2 * One(Late)
  ELSE IF Late THEN 4 ELSE 2 + One(~LastShows)

\* The state the debt is read from.
RunType ==
  /\ poll = [busy |-> poll.busy, file |-> poll.file] /\ poll.busy \in BOOLEAN
  /\ (busy = TRUE /\ job.pc # "none") \/ (busy = FALSE /\ job.pc = "none")
  /\ last = [file |-> last.file, text |-> last.text] /\ last.file \in Name
  /\ served.file = last.file
  /\ ops \in Nat /\ ops <= MaxOps

Covered(d) == version + d <= 3 * ops + 1

DebtInv == RunType /\ \E d \in 0..4 : d = Debt /\ Covered(d)

LEMMA DebtIsSmall == Debt \in 0..4
  BY DEF Debt, One

LEMMA RunInit == Init => DebtInv
  <1> SUFFICES ASSUME Init PROVE DebtInv
    OBVIOUS
  <1>1. RunType
    BY PreviewAssumption DEF Init, RunType, NoLast, None, NoJob, Name
  <1>2. Debt = 0 /\ version = 1 /\ ops = 0
    BY DEF Init, Debt, One, LastShows, Shows, Late, NoLast, NoJob
  <1>3. Covered(0)
    BY <1>2 DEF Covered
  <1> QED BY <1>1, <1>2, <1>3 DEF DebtInv

LEMMA RunStep ==
  ASSUME FetchInv, RunType, [Next]_vars
  PROVE  RunType'
  <1> USE PreviewAssumption DEF RunType, Operate, diskVars, gwVars
  <1>0. FetchInv' /\ SourceType
    BY SourceStep, ServedStep, TabStep DEF FetchInv, ServedKept, TabInv
  <1>1. CASE PollEdge
    <2>1. poll' = [busy |-> FALSE, file |-> NoFile] /\ UNCHANGED ops
      BY <1>1 DEF PollEdge
    <2>2. CASE StartJob(poll.file) /\ UNCHANGED <<served, last>>
      BY <2>1, <2>2 DEF StartJob, NoJob
    <2>3. CASE Cleared /\ UNCHANGED <<busy, job>>
      BY <2>1, <2>3 DEF Cleared, None, NoLast, Name
    <2>4. CASE UNCHANGED gwVars
      BY <2>1, <2>4
    <2> QED BY <1>1, <2>2, <2>3, <2>4 DEF PollEdge
  <1>2. ASSUME Published, UNCHANGED <<poll, ops>>, job.pc # "none" PROVE RunType'
    <2>1. /\ served'.file = job.file /\ last' = [file |-> job.file, text |-> job.mtime]
          /\ busy' = FALSE /\ job'.pc = "none"
      BY <1>2 DEF Published, NoJob
    <2>2. job.file \in Name
      BY <1>0, <1>2 DEF SourceType, Name
    <2> QED BY <1>2, <2>1, <2>2
  <1>3. CASE ParseDone
    <2>1. CASE Published
      BY <1>2, <1>3, <2>1 DEF ParseDone
    <2>2. CASE job' = [job EXCEPT !.pc = "pack"] /\ UNCHANGED <<served, version, last, busy>>
      BY <1>0, <1>3, <2>2 DEF ParseDone, SourceType, Task
    <2> QED BY <1>3, <2>1, <2>2 DEF ParseDone
  <1>4. CASE PackDone
    BY <1>2, <1>4 DEF PackDone
  <1>5. CASE ParseFails
    BY <1>5 DEF ParseFails, NoJob
  <1>6. CASE JobStart \/ WorkerReads
    BY <1>0, <1>6 DEF JobStart, WorkerReads, SourceType, Task
  <1>7. CASE Unload
    BY <1>7 DEF Unload, Cleared, None, NoLast, Name
  <1>8. CASE PollStat
    BY <1>8 DEF PollStat
  <1>9. ASSUME NEW f \in File, Restart \/ Load(f) \/ Save(f) PROVE RunType'
    BY <1>9 DEF Restart, Load, Save
  <1>10. ASSUME NEW c \in Client, Connect(c) PROVE RunType'
    <2>1. UNCHANGED <<poll, served, last, ops>>
      BY <1>10 DEF Connect
    <2>2. UNCHANGED <<busy, job>> \/ StartJob(loaded)
      BY <1>10 DEF Connect
    <2> QED BY <2>1, <2>2 DEF StartJob, NoJob
  <1>11. ASSUME NEW c \in Client,
                \/ Disconnect(c) \/ Mute(c) \/ Unmute(c) \/ Announce(c)
               \/ ServeGet(c) \/ Receive(c) \/ Loaded(c) \/ LoadFails(c)
         PROVE RunType'
    BY <1>11 DEF Disconnect, Mute, Unmute, Announce, ServeGet, Receive, Loaded,
           LoadFails
  <1>12. CASE UNCHANGED vars
    BY <1>12 DEF vars
  <1>13. CASE \E f \in File : Load(f) \/ Save(f)
    BY <1>9, <1>13
  <1>14. CASE Restart
    BY <1>14 DEF Restart
  <1> QED BY <1>1, <1>3, <1>4, <1>5, <1>6, <1>7, <1>8, <1>10, <1>11, <1>12, <1>13, <1>14 DEF Next

\* A step pays for the versions it makes, and only one from outside makes debts.
Pays ==
  \/ ops' = ops /\ version' + Debt' <= version + Debt
  \/ ops' = ops + 1 /\ version' + Debt' <= version + Debt + 3

LEMMA DebtStep ==
  ASSUME FetchInv, RunType, [Next]_vars
  PROVE  Pays
  <1> USE PreviewAssumption DEF Pays, FetchInv, SourceType, ServedType, Operate, diskVars, gwVars
  <1>d. Debt \in 0..4 /\ Debt' \in 0..4 /\ version \in Nat /\ ops \in Nat
    BY DebtIsSmall DEF Debt, One, RunType
  <1>0. ASSUME UNCHANGED <<diskVars, poll, gwVars>>, ops' = ops \/ ops' = ops + 1 PROVE Pays
    <2>1. Debt' = Debt
      BY <1>0 DEF Debt, One, LastShows, JobShows, Shows, Late
    <2> QED BY <1>0, <1>d, <2>1
  <1>1. CASE PollEdge
    <2>1. /\ poll.busy /\ poll' = [busy |-> FALSE, file |-> NoFile]
          /\ UNCHANGED <<disk, loaded, ops>>
      BY <1>1 DEF PollEdge
    <2>2. ~Late'
      BY <2>1 DEF Late
    <2>3. CASE Changed(poll.file) /\ ~busy /\ StartJob(poll.file) /\ UNCHANGED <<served, version, last>>
      <3>1. /\ job.pc = "none" /\ job'.pc = "start" /\ job'.file = poll.file
            /\ UNCHANGED <<version, last>>
        BY <2>3 DEF StartJob, NoJob, RunType
      <3>2. ~Late => ~LastShows
        BY <2>1, <2>3 DEF Late, LastShows, Shows, Changed, RunType
      <3>3. LastShows' <=> LastShows
        BY <2>1, <3>1 DEF LastShows, Shows
      <3>4. ~Late => JobShows'
        BY <2>1, <3>1 DEF Late, JobShows
      <3>5. loaded = NoFile => Late
        BY <2>1, <2>3 DEF Late, Changed
      <3>6. Debt' <= Debt
        BY <2>1, <2>2, <3>1, <3>2, <3>3, <3>4, <3>5 DEF Debt, One
      <3> QED BY <1>d, <2>1, <3>1, <3>6 DEF Debt, One
    <2>4. CASE poll.file = NoFile /\ last.file # NoFile /\ Cleared /\ UNCHANGED <<busy, job>>
      <3>1. version' = version + 1 /\ last'.file = NoFile /\ UNCHANGED job
        BY <2>4 DEF Cleared, NoLast
      <3>2. loaded = NoFile => ~LastShows /\ LastShows' /\ ~Late
        BY <2>1, <2>4, <3>1 DEF LastShows, Shows, Late
      <3>3. loaded # NoFile => Late
        BY <2>1, <2>4 DEF Late
      <3>4. JobShows' <=> JobShows
        BY <2>1, <3>1 DEF JobShows
      <3>5. Debt' + 1 <= Debt
        BY <2>1, <2>2, <3>1, <3>2, <3>3, <3>4 DEF Debt, One
      <3> QED BY <1>d, <2>1, <3>1, <3>5 DEF Debt, One
    <2>5. CASE UNCHANGED gwVars
      <3>1. (LastShows' <=> LastShows) /\ (JobShows' <=> JobShows) /\ UNCHANGED <<job, loaded>>
        BY <2>1, <2>5 DEF LastShows, JobShows, Shows
      <3>2. Debt' <= Debt
        BY <2>2, <3>1 DEF Debt, One
      <3> QED BY <1>d, <2>1, <2>5, <3>2 DEF Debt, One
    <2> QED BY <1>1, <2>3, <2>4, <2>5 DEF PollEdge
  <1>2. ASSUME Published, UNCHANGED <<disk, loaded, poll, ops>>, job.pc \in {"parsed", "pack"}
        PROVE  Pays
    <2>1. /\ version' = version + 1 /\ job'.pc = "none"
          /\ last' = [file |-> job.file, text |-> job.mtime]
      BY <1>2 DEF Published, NoJob
    <2>2. loaded # NoFile => (LastShows' <=> JobShows)
      BY <1>2, <2>1 DEF LastShows, JobShows, Shows
    <2>3. Late' <=> Late
      BY <1>2 DEF Late
    <2>4. Debt' + 1 <= Debt
      BY <1>2, <2>1, <2>2, <2>3 DEF Debt, One
    <2> QED BY <1>2, <1>d, <2>1, <2>4 DEF Debt, One
  <1>3. ASSUME job' = [job EXCEPT !.pc = "pack"], job.pc = "parsed",
               UNCHANGED <<disk, loaded, poll, version, last, ops>>
        PROVE  Pays
    <2>1. /\ job' = [pc |-> "pack", file |-> job.file, mtime |-> job.mtime, text |-> job.text]
      BY <1>3 DEF Task
    <2>2. (LastShows' <=> LastShows) /\ (JobShows' <=> JobShows) /\ (Late' <=> Late)
      BY <1>3, <2>1 DEF LastShows, JobShows, Shows, Late
    <2>3. Debt' = Debt
      BY <1>3, <2>1, <2>2 DEF Debt, One
    <2> QED BY <1>3, <1>d, <2>3
  <1>4. CASE ParseDone \/ PackDone
    BY <1>2, <1>3, <1>4 DEF ParseDone, PackDone
  <1>5. CASE JobStart \/ WorkerReads
    <2>1. job \in Task /\ UNCHANGED <<disk, loaded, poll, version, last, ops>>
      BY <1>5 DEF JobStart, WorkerReads
    <2>2. job.pc # "none" /\ job'.pc # "none"
      BY <1>5, <2>1 DEF JobStart, WorkerReads, Task
    <2>3. JobShows' <=> JobShows
      BY <1>5, <2>1 DEF JobStart, WorkerReads, JobShows, Task
    <2>4. (LastShows' <=> LastShows) /\ (Late' <=> Late)
      BY <2>1 DEF LastShows, Shows, Late
    <2>5. Debt' = Debt
      BY <2>1, <2>2, <2>3, <2>4 DEF Debt, One
    <2> QED BY <1>d, <2>1, <2>5
  <1>6. CASE ParseFails
    <2>1. /\ UNCHANGED <<disk, loaded, poll, version, last>> /\ ops' = ops + 1
      BY <1>6 DEF ParseFails
    <2>2. job.pc # "none" /\ job'.pc = "none" /\ (Late' <=> Late)
      BY <1>6, <2>1 DEF ParseFails, NoJob, Late
    <2>3. Debt' <= Debt + 3
      BY <2>1, <2>2 DEF Debt, One
    <2> QED BY <1>d, <2>1, <2>3 DEF Debt, One
  <1>7. CASE Unload
    <2>1. UNCHANGED <<disk, loaded, poll, job>> /\ version' = version + 1 /\ ops' = ops + 1
      BY <1>7 DEF Unload, Cleared
    <2>2. (JobShows' <=> JobShows) /\ (Late' <=> Late)
      BY <2>1 DEF JobShows, Late
    <2>3. Debt' <= Debt + 1
      BY <2>1, <2>2 DEF Debt, One
    <2> QED BY <1>d, <2>1, <2>3 DEF Debt, One
  <1>8. CASE PollStat
    <2>1. UNCHANGED <<disk, loaded, gwVars, ops>> /\ poll' = [busy |-> TRUE, file |-> loaded]
      BY <1>8 DEF PollStat
    <2>2. (JobShows' <=> JobShows) /\ (LastShows' <=> LastShows) /\ ~Late'
      BY <2>1 DEF LastShows, JobShows, Shows, Late
    <2>3. Debt' <= Debt
      BY <2>1, <2>2 DEF Debt, One
    <2> QED BY <1>d, <2>1, <2>3 DEF Debt, One
  <1>9. ASSUME UNCHANGED <<version, last, job>>, ops' = ops + 1,
               loaded' # NoFile \/ loaded # NoFile, poll' = poll
        PROVE  Pays
    <2>1. CASE job.pc = "none"
      <3>1. Debt' <= 3
        BY <1>9, <2>1 DEF Debt, One
      <3> QED BY <1>9, <1>d, <3>1 DEF Debt, One
    <2>2. CASE job.pc # "none"
      <3>1. Debt >= 1
        BY <2>2 DEF Debt, One
      <3> QED BY <1>9, <1>d, <3>1 DEF Debt, One
    <2> QED BY <2>1, <2>2
  <1>10. CASE Restart
    BY <1>9, <1>10 DEF Restart
  <1>11. ASSUME NEW f \in File, Load(f) PROVE Pays
    <2>1. f # NoFile
      OBVIOUS
    <2> QED BY <1>9, <1>11, <2>1 DEF Load
  <1>12. ASSUME NEW f \in File, Save(f) PROVE Pays
    <2>1. UNCHANGED <<loaded, poll, version, last, job>> /\ ops' = ops + 1
      BY <1>12 DEF Save
    <2>2. CASE loaded # NoFile
      BY <1>9, <2>1, <2>2
    <2>3. CASE loaded = NoFile
      <3>1. (LastShows' <=> LastShows) /\ (Late' <=> Late)
        BY <2>1, <2>3 DEF LastShows, Shows, Late
      <3>2. Debt' = Debt
        BY <2>1, <2>3, <3>1 DEF Debt, One
      <3> QED BY <1>d, <2>1, <3>2
    <2> QED BY <2>2, <2>3
  <1>13. ASSUME NEW c \in Client, Connect(c) PROVE Pays
    <2>1. UNCHANGED <<diskVars, poll, served, version, last, ops>>
      BY <1>13 DEF Connect
    <2>2. CASE UNCHANGED <<busy, job>>
      BY <1>0, <2>1, <2>2
    <2>3. CASE loaded # NoFile /\ served.file # loaded /\ ~busy /\ StartJob(loaded)
      <3>1. job.pc = "none" /\ job'.pc = "start" /\ job'.file = loaded
        BY <2>3 DEF StartJob, NoJob, RunType
      <3>2. ~LastShows /\ JobShows' /\ (Late' <=> Late)
        BY <2>1, <2>3, <3>1 DEF LastShows, JobShows, Shows, Late, RunType
      <3>3. Debt' <= Debt
        BY <2>1, <2>3, <3>1, <3>2 DEF Debt, One
      <3> QED BY <1>d, <2>1, <3>3 DEF Debt, One
    <2> QED BY <1>13, <2>2, <2>3 DEF Connect
  <1>14. ASSUME NEW c \in Client,
                \/ Disconnect(c) \/ Mute(c) \/ Unmute(c) \/ Announce(c)
               \/ ServeGet(c) \/ Receive(c) \/ Loaded(c) \/ LoadFails(c)
         PROVE  Pays
    BY <1>0, <1>14 DEF Disconnect, Mute, Unmute, Announce, ServeGet, Receive, Loaded,
           LoadFails
  <1>15. CASE UNCHANGED vars
    BY <1>0, <1>15 DEF vars
  <1> QED BY <1>1, <1>4, <1>5, <1>6, <1>7, <1>8, <1>10, <1>11, <1>12, <1>13, <1>14, <1>15 DEF Next

FewInv == FetchInv /\ DebtInv /\ FewVersions

LEMMA FewInvHolds == Spec => []FewInv
  <1> DEFINE I == FetchInv /\ DebtInv
  <1>1. Init => I
    BY FetchInit, RunInit
  <1>2. I /\ [Next]_vars => I'
    <2> SUFFICES ASSUME I, [Next]_vars PROVE I'
      OBVIOUS
    <2>1. FetchInv' /\ RunType' /\ Pays
      BY SourceStep, ServedStep, TabStep, RunStep, DebtStep DEF FetchInv, ServedKept, TabInv, DebtInv
    <2>2. PICK d \in 0..4 : d = Debt /\ Covered(d)
      BY DEF DebtInv
    <2>3. PICK e \in 0..4 : e = Debt'
      BY DebtIsSmall DEF Debt, One
    <2>4. version \in Nat /\ ops \in Nat
      BY DEF DebtInv, RunType, FetchInv, ServedType
    <2>5. PICK w \in Nat, n \in Nat : w = version' /\ n = ops'
      BY <2>1 DEF RunType, FetchInv, ServedType
    <2>6. version' + e <= 3 * ops' + 1
      <3>1. version + d <= 3 * ops + 1
        BY <2>2 DEF Covered
      <3>2. \/ n = ops /\ w + e <= version + d
            \/ n = ops + 1 /\ w + e <= version + d + 3
        BY <2>1, <2>2, <2>3, <2>5 DEF Pays
      <3>3. w + e <= 3 * n + 1
        BY <2>4, <3>1, <3>2
      <3> QED BY <2>5, <3>3
    <2>7. \E x \in 0..4 : x = Debt' /\ version' + x <= 3 * ops' + 1
      BY <2>3, <2>6
    <2> QED BY <2>1, <2>7 DEF DebtInv, Covered
  <1>3. I => FewInv
    BY DEF FewInv, FewVersions, DebtInv, Covered, FetchInv, ServedType, RunType
  <1> QED BY <1>1, <1>2, <1>3, PTL DEF Spec

(***************************************************************************)
(* gateway.py, the poller's file-change edge, and connect: a change is     *)
(* followed by at most three versions, with any number of tabs, and        *)
(* however old the status or the parse is that a decision is made on.      *)
(***************************************************************************)
THEOREM ChangesCostFewVersions == Spec => []FewVersions
  <1>1. FewInv => FewVersions
    BY DEF FewInv
  <1> QED BY <1>1, FewInvHolds, PTL

-----------------------------------------------------------------------------
(***************************************************************************)
(* The types: a text counts the saves of its program, and the versions are *)
(* few.                                                                    *)
(***************************************************************************)
SavesCounted == disk \in [File -> Text] /\ \A f \in File : disk[f] <= ops

RefreshType ==
  /\ job \in [pc : {"none", "start", "parse", "parsed", "pack"},
              file : Name, mtime : Text, text : Text]
  /\ last \in [file : Name, text : Text]

Note == [ver : Version, file : Name]
Answer == [ver : Version, body : Preview]
PageType ==
  /\ served \in Preview
  /\ online \subseteq Client
  /\ told \in [Client -> Version] /\ want \in [Client -> Version]
  /\ ws \in [Client -> Seq(Note)]
  /\ fetch \in [Client -> Answer]
  /\ shown \in [Client -> Preview]

FaultType == mute \subseteq online /\ faults \in 0..MaxFaults

TypeInv == FewInv /\ SavesCounted /\ RefreshType /\ PageType

LEMMA ZeroIn == 0 \in Text /\ 0 \in Version /\ None \in Preview
  <1>1. 0 \in Text /\ 0 \in Version
    BY PreviewAssumption DEF Text, Version
  <1>2. None \in Preview
    BY DEF Preview
  <1> QED BY <1>1, <1>2

\* The number of versions fits its bound.
LEMMA VersionFits == FewInv => version \in Version
  <1> SUFFICES ASSUME FewInv PROVE version \in Version
    OBVIOUS
  <1>1. version \in Nat /\ ops \in Nat /\ ops <= MaxOps /\ version <= 3 * ops + 1
    BY DEF FewInv, FetchInv, ServedType, DebtInv, RunType, FewVersions
  <1>2. version <= 3 * MaxOps + 1
    BY <1>1, PreviewAssumption
  <1> QED BY <1>1, <1>2, PreviewAssumption DEF Version

LEMMA TypeInvIsTypeOK == TypeInv /\ FaultType => TypeOK
  <1> SUFFICES ASSUME TypeInv, FaultType PROVE TypeOK
    OBVIOUS
  <1> USE DEF TypeInv, FewInv
  <1>1. disk \in [File -> Text] /\ loaded \in File \cup {NoFile}
    BY DEF SavesCounted, FetchInv, SourceType, Name
  <1>2. RunType /\ poll.file \in Name
    BY DEF DebtInv, FetchInv, SourceType
  <1>3. poll \in [busy : BOOLEAN, file : File \cup {NoFile}]
    BY <1>2 DEF RunType, Name
  <1>4. busy = (job.pc # "none")
    BY <1>2 DEF RunType
  <1>5. ops \in 0..MaxOps
    BY <1>2, PreviewAssumption DEF RunType
  <1>6. version \in Version
    BY VersionFits
  <1>7. /\ job \in [pc : {"none", "start", "parse", "parsed", "pack"},
                    file : File \cup {NoFile}, mtime : Text, text : Text]
        /\ last \in [file : File \cup {NoFile}, text : Text]
    BY DEF RefreshType, Name
  <1>8. /\ served \in Preview
        /\ online \subseteq Client
        /\ told \in [Client -> Version] /\ want \in [Client -> Version]
        /\ ws \in [Client -> Seq([ver : Version, file : File \cup {NoFile}])]
        /\ fetch \in [Client -> [ver : Version, body : Preview]]
        /\ shown \in [Client -> Preview]
    BY DEF PageType, Note, Name, Answer
  <1> QED BY <1>1, <1>3, <1>4, <1>5, <1>6, <1>7, <1>8 DEF TypeOK, FaultType

\* A save counts.
LEMMA SavesStep ==
  ASSUME TypeInv, [Next]_vars
  PROVE  SavesCounted'
  <1>0. /\ disk \in [File -> Text] /\ (\A f \in File : disk[f] <= ops)
        /\ ops \in Nat /\ MaxOps \in Nat
    BY PreviewAssumption DEF TypeInv, FewInv, DebtInv, RunType, SavesCounted
  <1>1. ASSUME UNCHANGED disk, ops' = ops \/ ops' = ops + 1 PROVE SavesCounted'
    <2>1. ASSUME NEW f \in File PROVE disk[f] <= ops'
      <3>1. disk[f] \in Nat /\ disk[f] <= ops
        BY <1>0 DEF Text
      <3> QED BY <1>0, <1>1, <3>1
    <2> QED BY <1>0, <1>1, <2>1 DEF SavesCounted
  <1>2. ASSUME NEW f \in File, Save(f) PROVE SavesCounted'
    <2>1. ops < MaxOps /\ ops' = ops + 1 /\ disk' = [disk EXCEPT ![f] = @ + 1]
      BY <1>2 DEF Save, Operate
    <2>2. disk[f] + 1 \in Text
      BY <1>0, <2>1 DEF Text
    <2>3. ASSUME NEW g \in File PROVE disk'[g] <= ops'
      <3>1. disk[g] \in Nat /\ disk[g] <= ops
        BY <1>0 DEF Text
      <3>2. disk'[g] = disk[g] \/ disk'[g] = disk[g] + 1
        BY <1>0, <2>1
      <3> QED BY <1>0, <2>1, <3>1, <3>2
    <2> QED BY <1>0, <2>1, <2>2, <2>3 DEF SavesCounted
  <1>3. UNCHANGED disk \/ \E f \in File : Save(f)
    BY DEF Next, Load, Restart, PollStat, PollEdge, Unload, JobStart, WorkerReads, ParseDone, PackDone,
           ParseFails, Connect, Disconnect, Mute, Unmute, Announce, ServeGet, Receive, Loaded,
           LoadFails, vars, diskVars
  <1>4. UNCHANGED disk => ops' = ops \/ ops' = ops + 1
    BY DEF Next, Load, Restart, PollStat, PollEdge, Unload, JobStart, WorkerReads, ParseDone, PackDone,
           ParseFails, Connect, Disconnect, Mute, Unmute, Announce, ServeGet, Receive, Loaded,
           LoadFails, vars, diskVars, Save,
           Operate
  <1> QED BY <1>1, <1>2, <1>3, <1>4

\* The refresh task takes mtime and text from the disk.
LEMMA RefreshStep ==
  ASSUME TypeInv, [Next]_vars
  PROVE  RefreshType'
  <1> USE ZeroIn DEF RefreshType, gwVars
  <1>0. /\ disk \in [File -> Text] /\ RefreshType /\ loaded \in Name /\ poll.file \in Name
        /\ (job.pc # "none" => job.file \in File)
    BY DEF TypeInv, FewInv, FetchInv, SourceType, SavesCounted
  <1>1. ASSUME UNCHANGED <<job, last>> PROVE RefreshType'
    BY <1>0, <1>1
  <1>2. ASSUME NEW f \in Name, StartJob(f), UNCHANGED last PROVE RefreshType'
    BY <1>0, <1>2 DEF StartJob, NoJob
  <1>3. ASSUME Cleared, UNCHANGED job PROVE RefreshType'
    BY <1>0, <1>3 DEF Cleared, NoLast, Name
  <1>4. ASSUME Published PROVE RefreshType'
    BY <1>0, <1>4 DEF Published, NoJob, Name
  <1>5. CASE PollEdge \/ Unload
    BY <1>0, <1>1, <1>2, <1>3, <1>5 DEF PollEdge, Unload
  <1>6. CASE JobStart \/ WorkerReads
    BY <1>0, <1>6 DEF JobStart, WorkerReads
  <1>7. CASE ParseDone \/ PackDone
    <2>1. CASE job' = [job EXCEPT !.pc = "pack"] /\ UNCHANGED last
      BY <1>0, <2>1
    <2> QED BY <1>4, <1>7, <2>1 DEF ParseDone, PackDone
  <1>8. CASE ParseFails
    BY <1>0, <1>8 DEF ParseFails, NoJob, Name
  <1>9. CASE (\E f \in File : Load(f) \/ Save(f)) \/ Restart \/ PollStat \/ UNCHANGED vars
    BY <1>1, <1>9 DEF Load, Save, Restart, PollStat, vars
  <1>10. ASSUME NEW c \in Client, Connect(c) PROVE RefreshType'
    BY <1>0, <1>1, <1>2, <1>10 DEF Connect
  <1>11. ASSUME NEW c \in Client,
                \/ Disconnect(c) \/ Mute(c) \/ Unmute(c) \/ Announce(c)
               \/ ServeGet(c) \/ Receive(c) \/ Loaded(c) \/ LoadFails(c)
         PROVE  RefreshType'
    BY <1>1, <1>11 DEF Disconnect, Mute, Unmute, Announce, ServeGet, Receive, Loaded,
           LoadFails
  <1> QED BY <1>5, <1>6, <1>7, <1>8, <1>9, <1>10, <1>11 DEF Next

\* What is announced, fetched and shown was published.
LEMMA PageStep ==
  ASSUME TypeInv, version' \in Version, [Next]_vars
  PROVE  PageType'
  <1> USE ZeroIn DEF PageType, tabVars, gwVars
  <1>0. /\ PageType /\ version \in Version /\ RefreshType
        /\ (job.pc # "none" => job.file \in File)
    BY VersionFits DEF TypeInv, FewInv, FetchInv, SourceType
  <1>1. ASSUME UNCHANGED <<online, told, ws, tabVars>>, served' \in Preview PROVE PageType'
    BY <1>0, <1>1
  <1>2. ASSUME Published, job.pc # "none" PROVE served' \in Preview
    <2>1. served' = [file |-> job.file, text |-> job.text, ver |-> version']
      BY <1>2 DEF Published
    <2> QED BY <1>0, <1>2, <2>1 DEF Preview, RefreshType
  <1>3. ASSUME Cleared PROVE served' \in Preview
    BY <1>3 DEF Cleared
  <1>4. CASE PollEdge \/ Unload
    BY <1>0, <1>1, <1>3, <1>4 DEF PollEdge, Unload
  <1>5. CASE ParseDone \/ PackDone
    BY <1>0, <1>1, <1>2, <1>5 DEF ParseDone, PackDone
  <1>6. CASE \/ (\E f \in File : Load(f) \/ Save(f)) \/ Restart \/ PollStat
             \/ JobStart \/ WorkerReads \/ ParseFails \/ UNCHANGED vars
    BY <1>0, <1>1, <1>6 DEF Load, Save, Restart, PollStat, JobStart, WorkerReads, ParseFails, vars
  <1>m. served # None => Ready(served) \in Note
    BY <1>0 DEF Ready, Preview, Note, Name
  <1>7. ASSUME NEW c \in Client, Connect(c) PROVE PageType'
    <2>1. online' \subseteq Client /\ told' \in [Client -> Version] /\ UNCHANGED <<served, tabVars>>
      BY <1>0, <1>7 DEF Connect
    <2>2. CASE UNCHANGED ws
      BY <1>0, <2>1, <2>2
    <2>3. CASE loaded # NoFile /\ served.file = loaded /\ ws' = [ws EXCEPT ![c] = <<Ready(served)>>]
      <3>1. served # None
        BY <2>3 DEF None
      <3> QED BY <1>0, <1>m, <2>1, <2>3, <3>1
    <2> QED BY <1>7, <2>2, <2>3 DEF Connect
  <1>8. ASSUME NEW c \in Client, Disconnect(c) PROVE PageType'
    BY <1>0, <1>8 DEF Disconnect
  <1>9. ASSUME NEW c \in Client, Announce(c) PROVE PageType'
    <2> DEFINE m == IF served # None THEN Ready(served) ELSE Empty
    <2>1. m \in Note
      BY <1>m DEF Empty, Note, Name
    <2>2. /\ ws' = [ws EXCEPT ![c] = Append(@, m)] /\ told' = [told EXCEPT ![c] = version]
          /\ UNCHANGED <<served, online, tabVars>>
      BY <1>9 DEF Announce
    <2> HIDE DEF m
    <2> QED BY <1>0, <2>1, <2>2
  <1>10. ASSUME NEW c \in Client, ServeGet(c) PROVE PageType'
    <2>1. NoFetch \in Answer
      BY DEF NoFetch, Answer
    <2>2. want' \in [Client -> Version]
      BY <1>0, <1>10 DEF ServeGet
    <2>3. fetch' \in [Client -> Answer]
      <3>1. fetch[c] \in Answer
        BY <1>0
      <3>2. [fetch[c] EXCEPT !.body = served] \in Answer
        BY <1>0, <3>1 DEF Answer
      <3>3. \E r \in Answer : fetch' = [fetch EXCEPT ![c] = r]
        BY <1>10, <2>1, <3>2 DEF ServeGet
      <3> QED BY <1>0, <3>3
    <2>4. UNCHANGED <<served, online, told, ws, shown>>
      BY <1>10 DEF ServeGet
    <2> QED BY <1>0, <2>2, <2>3, <2>4
  <1>11. ASSUME NEW c \in Client, Receive(c) PROVE PageType'
    <2> DEFINE m == Head(ws[c])
    <2>1. m \in Note /\ Tail(ws[c]) \in Seq(Note)
      BY <1>0, <1>11 DEF Receive
    <2>2. /\ ws' = [ws EXCEPT ![c] = Tail(ws[c])] /\ UNCHANGED <<served, online, told>>
          /\ shown' = shown \/ shown' = [shown EXCEPT ![c] = None]
          /\ \/ UNCHANGED <<want, fetch>>
             \/ /\ want' = [want EXCEPT ![c] = m.ver]
                /\ fetch' = [fetch EXCEPT ![c] = [ver |-> m.ver, body |-> None]]
      BY <1>11 DEF Receive
    <2> HIDE DEF m
    <2>3. m.ver \in Version /\ [ver |-> m.ver, body |-> None] \in Answer
      BY <2>1 DEF Note, Answer
    <2>4. want' \in [Client -> Version] /\ fetch' \in [Client -> Answer]
      <3>1. CASE UNCHANGED <<want, fetch>>
        BY <1>0, <3>1
      <3>2. CASE ~UNCHANGED <<want, fetch>>
        <4>1. PICK r \in Answer : fetch' = [fetch EXCEPT ![c] = r]
          BY <2>2, <2>3, <3>2
        <4>2. want' \in [Client -> Version]
          BY <1>0, <2>2, <2>3, <3>2
        <4>3. fetch' \in [Client -> Answer]
          BY <1>0, <4>1
        <4> QED BY <4>2, <4>3
      <3> QED BY <3>1, <3>2
    <2>5. shown' \in [Client -> Preview] /\ ws' \in [Client -> Seq(Note)]
      BY <1>0, <2>1, <2>2
    <2> QED BY <1>0, <2>2, <2>4, <2>5
  <1>12. ASSUME NEW c \in Client, Mute(c) \/ Unmute(c) PROVE PageType'
    BY <1>0, <1>12 DEF Mute, Unmute
  <1>13. ASSUME NEW c \in Client, LoadFails(c) PROVE PageType'
    <2>1. NoFetch \in Answer
      BY DEF NoFetch, Answer
    <2>2. /\ fetch' = [fetch EXCEPT ![c] = NoFetch] /\ want' = [want EXCEPT ![c] = 0]
          /\ UNCHANGED <<served, online, told, ws, shown>>
      BY <1>13 DEF LoadFails
    <2>3. fetch' \in [Client -> Answer] /\ want' \in [Client -> Version]
      BY <1>0, <2>1, <2>2
    <2> QED BY <1>0, <2>2, <2>3
  <1>14. ASSUME NEW c \in Client, Loaded(c) PROVE PageType'
    <2>1. NoFetch \in Answer
      BY DEF NoFetch, Answer
    <2>2. fetch' = [fetch EXCEPT ![c] = NoFetch] /\ UNCHANGED <<served, online, told, ws, want>>
      BY <1>14 DEF Loaded
    <2>3. shown' = shown \/ shown' = [shown EXCEPT ![c] = fetch[c].body]
      BY <1>14 DEF Loaded
    <2>4. fetch[c].body \in Preview
      BY <1>0 DEF Answer
    <2>5. shown' \in [Client -> Preview]
      BY <1>0, <2>3, <2>4
    <2>6. fetch' \in [Client -> Answer]
      BY <1>0, <2>1, <2>2
    <2> QED BY <1>0, <2>2, <2>5, <2>6
  <1> QED BY <1>4, <1>5, <1>6, <1>7, <1>8, <1>9, <1>10, <1>11, <1>12, <1>13, <1>14
         DEF Next

\* The bounds on what is mute and on what fails.
LEMMA FaultStep == FaultType /\ [Next]_vars => FaultType'
  <1> SUFFICES ASSUME FaultType, [Next]_vars PROVE FaultType'
    OBVIOUS
  <1> USE PreviewAssumption DEF FaultType, faultVars
  <1>1. CASE UNCHANGED <<online, faultVars>>
    BY <1>1
  <1>2. ASSUME NEW c \in Client, Connect(c) \/ Disconnect(c) \/ Mute(c) \/ Unmute(c) \/ LoadFails(c)
        PROVE  FaultType'
    BY <1>2 DEF Connect, Disconnect, Mute, Unmute, LoadFails, Fault
  <1>3. ASSUME NEW c \in Client, Announce(c) \/ ServeGet(c) \/ Receive(c) \/ Loaded(c)
        PROVE  FaultType'
    BY <1>1, <1>3 DEF Announce, ServeGet, Receive, Loaded
  <1>4. CASE \/ (\E f \in File : Load(f) \/ Save(f)) \/ Restart \/ PollStat \/ PollEdge \/ Unload
             \/ JobStart \/ WorkerReads \/ ParseDone \/ PackDone \/ ParseFails \/ UNCHANGED vars
    BY <1>1, <1>4
       DEF Load, Save, Restart, PollStat, PollEdge, Unload, JobStart, WorkerReads, ParseDone, PackDone,
           ParseFails, vars
  <1> QED BY <1>2, <1>3, <1>4 DEF Next

\* Every variable of the pipeline and of the pages has its type.
THEOREM PreviewTypeCorrect == Spec => []TypeOK
  <1>1. Init => SavesCounted /\ RefreshType /\ PageType /\ FaultType
    <2> SUFFICES ASSUME Init PROVE SavesCounted /\ RefreshType /\ PageType /\ FaultType
      OBVIOUS
    <2>1. SavesCounted
      BY ZeroIn DEF Init, SavesCounted
    <2>2. RefreshType
      BY ZeroIn DEF Init, RefreshType, NoJob, NoLast, Name
    <2>3. PageType
      BY ZeroIn DEF Init, PageType, NoFetch, Answer
    <2>4. FaultType
      BY PreviewAssumption DEF Init, FaultType
    <2> QED BY <2>1, <2>2, <2>3, <2>4
  <1>2. SavesCounted /\ RefreshType /\ PageType /\ FewInv /\ (version \in Version)' /\ [Next]_vars
          => (SavesCounted /\ RefreshType /\ PageType)'
    BY SavesStep, RefreshStep, PageStep DEF TypeInv
  <1>3. Spec => []FewInv /\ [](version \in Version)
    BY FewInvHolds, VersionFits, PTL
  <1>4. FewInv /\ SavesCounted /\ RefreshType /\ PageType /\ FaultType => TypeOK
    BY TypeInvIsTypeOK DEF TypeInv
  <1> QED BY <1>1, <1>2, <1>3, <1>4, FaultStep, PTL DEF Spec
=============================================================================
