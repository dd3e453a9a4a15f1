--------------------------- MODULE SessionsProofs ---------------------------
(***************************************************************************)
(* Proofs about the client sessions, for every number of connections and   *)
(* browser tabs and every timeout: the command lock is held and awaited by *)
(* exactly the coroutines that are at such a point, a step that disarms a  *)
(* client has its jog stopped, and a connection whose heartbeats lagged    *)
(* leaves no hold.                                                         *)
(***************************************************************************)
EXTENDS MCSessions, SequenceTheorems, TLAPS

(***************************************************************************)
(* Queues without duplicates.                                              *)
(***************************************************************************)
Distinct(q) == \A i, j \in 1..Len(q) : q[i] = q[j] => i = j
Within(q, x) == \E i \in 1..Len(q) : q[i] = x
Before(q, x, y) == \E i, j \in 1..Len(q) : i < j /\ q[i] = x /\ q[j] = y

(***************************************************************************)
(* Who queues up is last, and changes nothing for those who were there.    *)
(***************************************************************************)
LEMMA AppendQueue ==
  ASSUME NEW q \in Seq(Task), NEW x \in Task, Distinct(q), ~Within(q, x)
  PROVE  /\ Append(q, x) \in Seq(Task)
         /\ Distinct(Append(q, x))
         /\ \A y : Within(Append(q, x), y) <=> Within(q, y) \/ y = x
         /\ \A y, z : Before(q, y, z) => Before(Append(q, x), y, z)
         /\ \A y : Within(q, y) => Before(Append(q, x), y, x)
  <1> DEFINE r == Append(q, x)
  <1>1. /\ r \in Seq(Task) /\ Len(r) = Len(q) + 1 /\ r[Len(q) + 1] = x
        /\ \A i \in 1..Len(q) : r[i] = q[i]
        /\ Len(q) \in Nat
    OBVIOUS
  <1> HIDE DEF r
  <1>2. Distinct(r)
    BY <1>1 DEF Distinct, Within
  <1>3. ASSUME NEW y PROVE Within(r, y) <=> Within(q, y) \/ y = x
    BY <1>1 DEF Within
  <1>4. ASSUME NEW y, NEW z, Before(q, y, z) PROVE Before(r, y, z)
    BY <1>1, <1>4 DEF Before
  <1>5. ASSUME NEW y, Within(q, y) PROVE Before(r, y, x)
    BY <1>1, <1>5 DEF Before, Within
  <1> QED BY <1>1, <1>2, <1>3, <1>4, <1>5 DEF r

(***************************************************************************)
(* Taking the task at one place out of the queue takes out that task.      *)
(***************************************************************************)
Without(q, k, r) ==
  /\ r \in Seq(Task) /\ Len(r) = Len(q) - 1
  /\ \A i \in 1..(Len(q) - 1) : r[i] = IF i < k THEN q[i] ELSE q[i + 1]

LEMMA WithoutOne ==
  ASSUME NEW q \in Seq(Task), NEW k \in 1..Len(q), NEW r, Without(q, k, r), Distinct(q)
  PROVE  /\ Distinct(r)
         /\ \A y : Within(r, y) <=> Within(q, y) /\ y # q[k]
         /\ \A y, z : Before(q, y, z) /\ y # q[k] /\ z # q[k] => Before(r, y, z)
  <1> DEFINE Old(i) == IF i < k THEN i ELSE i + 1
             New(i) == IF i < k THEN i ELSE i - 1
  <1>1. \A i \in 1..Len(r) : Old(i) \in 1..Len(q) /\ Old(i) # k /\ r[i] = q[Old(i)]
    BY DEF Without
  <1>2. \A i \in 1..Len(q) : i # k => New(i) \in 1..Len(r) /\ Old(New(i)) = i /\ r[New(i)] = q[i]
    <2>1. \A i \in 1..Len(q) : i # k => New(i) \in 1..Len(r) /\ Old(New(i)) = i
      BY DEF Without
    <2> QED BY <1>1, <2>1
  <1>3. Distinct(r)
    <2>1. ASSUME NEW i \in 1..Len(r), NEW j \in 1..Len(r), r[i] = r[j] PROVE i = j
      <3>1. Old(i) = Old(j)
        BY <1>1, <2>1 DEF Distinct
      <3> QED BY <3>1 DEF Without
    <2> QED BY <2>1 DEF Distinct
  <1>4. ASSUME NEW y PROVE Within(r, y) <=> Within(q, y) /\ y # q[k]
    <2>1. ASSUME Within(r, y) PROVE Within(q, y) /\ y # q[k]
      BY <1>1, <2>1 DEF Within, Distinct
    <2>2. ASSUME Within(q, y), y # q[k] PROVE Within(r, y)
      BY <1>2, <2>2 DEF Within
    <2> QED BY <2>1, <2>2
  <1>5. ASSUME NEW y, NEW z, Before(q, y, z), y # q[k], z # q[k] PROVE Before(r, y, z)
    <2>1. PICK i \in 1..Len(q), j \in 1..Len(q) : i < j /\ q[i] = y /\ q[j] = z
      BY <1>5 DEF Before
    <2>2. New(i) < New(j) /\ i # k /\ j # k
      BY <1>5, <2>1
    <2> QED BY <1>2, <2>1, <2>2 DEF Before
  <1> QED BY <1>3, <1>4, <1>5

LEMMA TailWithout ==
  ASSUME NEW q \in Seq(Task), q # <<>>
  PROVE  Without(q, 1, Tail(q)) /\ 1 \in 1..Len(q) /\ Head(q) = q[1]
  BY DEF Without

LEMMA RemoveAtWithout ==
  ASSUME NEW q \in Seq(Task), NEW k \in 1..Len(q)
  PROVE  Without(q, k, RemoveAt(q, k))
  <1> DEFINE a == SubSeq(q, 1, k - 1)
             b == SubSeq(q, k + 1, Len(q))
             r == a \o b
  <1>1. a \in Seq(Task) /\ Len(a) = k - 1 /\ \A i \in 1..(k - 1) : a[i] = q[i]
    OBVIOUS
  <1>2. b \in Seq(Task) /\ Len(b) = Len(q) - k /\ \A i \in 1..(Len(q) - k) : b[i] = q[k + i]
    OBVIOUS
  <1> HIDE DEF a, b
  <1>3. /\ r \in Seq(Task)
        /\ Len(r) = Len(a) + Len(b)
        /\ \A i \in 1..(Len(a) + Len(b)) : r[i] = IF i <= Len(a) THEN a[i] ELSE b[i - Len(a)]
    <2>1. a \in Seq(Task) /\ b \in Seq(Task)
      BY <1>1, <1>2
    <2> QED BY <2>1, ConcatProperties
  <1> HIDE DEF r
  <1>4. ASSUME NEW i \in 1..(Len(q) - 1)
        PROVE  r[i] = IF i < k THEN q[i] ELSE q[i + 1]
    <2>1. r[i] = IF i <= k - 1 THEN a[i] ELSE b[i - (k - 1)]
      BY <1>1, <1>2, <1>3
    <2>2. CASE i < k
      BY <1>1, <2>1, <2>2
    <2>3. CASE ~(i < k)
      <3>1. i - (k - 1) \in 1..(Len(q) - k) /\ k + (i - (k - 1)) = i + 1
        BY <2>3
      <3>2. b[i - (k - 1)] = q[i + 1]
        BY <1>2, <3>1
      <3> QED BY <2>1, <2>3, <3>2
    <2> QED BY <2>2, <2>3
  <1>5. Len(r) = Len(q) - 1 /\ r \in Seq(Task)
    BY <1>1, <1>2, <1>3
  <1>6. RemoveAt(q, k) = r
    BY DEF RemoveAt, a, b, r
  <1> QED BY <1>4, <1>5, <1>6 DEF Without

(***************************************************************************)
(* The lock is passed on: the rest of the queue stays as it is.            *)
(***************************************************************************)
LEMMA TailQueue ==
  ASSUME NEW q \in Seq(Task), q # <<>>, Distinct(q)
  PROVE  /\ Tail(q) \in Seq(Task)
         /\ Distinct(Tail(q))
         /\ \A y : Within(Tail(q), y) <=> Within(q, y) /\ y # Head(q)
         /\ \A y, z : Before(q, y, z) /\ y # Head(q) => Before(Tail(q), y, z)
  <1>1. Without(q, 1, Tail(q)) /\ 1 \in 1..Len(q) /\ Head(q) = q[1]
    BY TailWithout
  <1>2. \A y, z : Before(q, y, z) => z # q[1]
    BY DEF Before, Distinct
  <1>3. /\ Distinct(Tail(q))
        /\ \A y : Within(Tail(q), y) <=> Within(q, y) /\ y # q[1]
        /\ \A y, z : Before(q, y, z) /\ y # q[1] /\ z # q[1] => Before(Tail(q), y, z)
    BY <1>1, WithoutOne
  <1> QED BY <1>1, <1>2, <1>3 DEF Without

(***************************************************************************)
(* A cancelled coroutine is gone, and nobody else has moved.               *)
(***************************************************************************)
LEMMA CancelledQueue ==
  ASSUME NEW q \in Seq(Task), Distinct(q), NEW x
  PROVE  /\ Cancelled(q, x) \in Seq(Task)
         /\ Distinct(Cancelled(q, x))
         /\ \A y : Within(Cancelled(q, x), y) <=> Within(q, y) /\ y # x
         /\ \A y, z : Before(q, y, z) /\ y # x /\ z # x => Before(Cancelled(q, x), y, z)
  <1>1. CASE ~Within(q, x)
    <2>1. Cancelled(q, x) = q
      BY <1>1 DEF Cancelled, RemoveFirst, Within
    <2> QED BY <1>1, <2>1
  <1>2. CASE Within(q, x)
    <2>1. PICK k \in 1..Len(q) : q[k] = x
      BY <1>2 DEF Within
    <2>2. {i \in 1..Len(q) : q[i] = x} = {k}
      BY <2>1 DEF Distinct
    <2>3. Min({k}) = k
      BY DEF Min
    <2>4. SelectInSeq(q, LAMBDA y : y = x) = k
      BY <2>2, <2>3 DEF SelectInSeq
    <2>5. Cancelled(q, x) = RemoveAt(q, k)
      BY <2>1, <2>4 DEF Cancelled, RemoveFirst
    <2>6. Without(q, k, Cancelled(q, x))
      BY <2>5, RemoveAtWithout
    <2>7. /\ Distinct(Cancelled(q, x))
          /\ \A y : Within(Cancelled(q, x), y) <=> Within(q, y) /\ y # q[k]
          /\ \A y, z : Before(q, y, z) /\ y # q[k] /\ z # q[k] => Before(Cancelled(q, x), y, z)
      BY <2>6, WithoutOne
    <2> QED BY <2>1, <2>6, <2>7 DEF Without
  <1> QED BY <1>1, <1>2

-----------------------------------------------------------------------------
(***************************************************************************)
(* Type correctness, in three parts: connections, queue, and the rest.     *)
(***************************************************************************)
SessTypeOK ==
  /\ phase \in [Conn -> {"free", "open", "leaving"}]
  /\ armed \in [Conn -> BOOLEAN]
  /\ hbAge \in [Conn -> 0..(HbTimeout + 1)]
  /\ tab \in [Conn -> Tab \cup {NoTab}]
  /\ hidden \in [Conn -> BOOLEAN]

TaskTypeOK ==
  /\ recvPc \in [Conn -> {"idle", "jog", "cmd", "disarm", "leave"}]
  /\ statPc \in [Conn -> {"loop", "stall", "dead", "done"}]
  /\ lockq \in Seq(Task)

MachineTypeOK ==
  /\ hold \in [Tab -> 0..HoldLife]
  /\ unacked \in BOOLEAN /\ linked \in BOOLEAN /\ ready \in BOOLEAN
  /\ moving \in Conn \cup {Nobody, Orphan}

LEMMA TypeParts == TypeOK <=> SessTypeOK /\ TaskTypeOK /\ MachineTypeOK
  BY DEF TypeOK, SessTypeOK, TaskTypeOK, MachineTypeOK

LEMMA SessTypeStep == SessTypeOK /\ [Next]_vars => SessTypeOK'
  <1> SUFFICES ASSUME SessTypeOK, [Next]_vars PROVE SessTypeOK'
    OBVIOUS
  <1> USE SessionAssumption DEF SessTypeOK, sessVars
  <1>1. ASSUME NEW c \in Conn, RecvNext(c) PROVE SessTypeOK'
    <2>1. CASE Accept(c)
      BY <2>1 DEF Accept
    <2>2. CASE Heartbeat(c)
      BY <2>2 DEF Heartbeat
    <2>3. CASE Arm(c)
      BY <2>3 DEF Arm
    <2>4. CASE Disarm(c)
      <3>1. /\ armed' = [armed EXCEPT ![c] = FALSE]
            /\ hbAge' = [hbAge EXCEPT ![c] = 0]
            /\ UNCHANGED <<phase, tab, hidden>>
        BY <2>4 DEF Disarm
      <3> QED BY <3>1
    <2>5. CASE DisarmDone(c)
      BY <2>5 DEF DisarmDone
    <2>6. ASSUME NEW t \in Tab, NEW resume \in BOOLEAN, Hello(c, t, resume)
          PROVE  SessTypeOK'
      <3>1. armed' \in [Conn -> BOOLEAN]
        BY <2>6 DEF Hello
      <3>2. hbAge' \in [Conn -> 0..(HbTimeout + 1)]
        BY <2>6 DEF Hello
      <3> QED BY <2>6, <3>1, <3>2 DEF Hello
    <2>7. CASE \E value \in BOOLEAN : TabVisibility(c, value)
      BY <2>7 DEF TabVisibility
    <2>8. CASE TripAck(c) \/ JogCont(c) \/ JogStarted(c) \/ Command(c) \/ CommandDone(c)
      BY <2>8 DEF TripAck, JogCont, JogStarted, Command, CommandDone
    <2>9. CASE Drop(c) \/ LeaveDone(c)
      BY <2>9 DEF Drop, LeaveDone, Gone
    <2> QED BY <1>1, <2>1, <2>2, <2>3, <2>4, <2>5, <2>6, <2>7, <2>8, <2>9 DEF RecvNext
  <1>2. ASSUME NEW c \in Conn, StatNext(c) PROVE SessTypeOK'
    BY <1>2 DEF StatNext, HbStall, HbStallDone, HbEvict, LinkDisarm, LoopDies
  <1>3. CASE LinkLost \/ LinkBack \/ TripSeen \/ MachineReady \/ JogEnds
    BY <1>3 DEF LinkLost, LinkBack, TripSeen, MachineReady, JogEnds
  <1>4. CASE Tick
    BY <1>4 DEF Tick
  <1>5. CASE UNCHANGED vars
    BY <1>5 DEF vars
  <1> QED BY <1>1, <1>2, <1>3, <1>4, <1>5 DEF Next

LEMMA MachineTypeStep == SessTypeOK /\ MachineTypeOK /\ [Next]_vars => MachineTypeOK'
  <1> SUFFICES ASSUME SessTypeOK, MachineTypeOK, [Next]_vars PROVE MachineTypeOK'
    OBVIOUS
  <1> USE SessionAssumption DEF MachineTypeOK
  <1>a. \A t : Held(t) \in [Tab -> 0..HoldLife] /\ Consumed(t) \in [Tab -> 0..HoldLife]
    BY DEF Held, Consumed
  <1>b. JogStopped \in Conn \cup {Nobody, Orphan}
    BY DEF JogStopped
  <1>1. ASSUME NEW c \in Conn, RecvNext(c) PROVE MachineTypeOK'
    <2>1. CASE Accept(c) \/ Heartbeat(c) \/ Arm(c) \/ Disarm(c) \/ DisarmDone(c)
      BY <1>a, <1>b, <2>1 DEF Accept, Heartbeat, Arm, Disarm, DisarmDone
    <2>2. CASE \E t \in Tab, resume \in BOOLEAN : Hello(c, t, resume)
      BY <1>a, <2>2 DEF Hello
    <2>3. CASE \E value \in BOOLEAN : TabVisibility(c, value)
      BY <2>3 DEF TabVisibility
    <2>4. CASE TripAck(c) \/ JogCont(c) \/ JogStarted(c) \/ Command(c)
      BY <2>4 DEF TripAck, JogCont, JogStarted, Command
    <2>5. CASE CommandDone(c)
      BY <1>b, <2>5 DEF CommandDone
    <2>6. CASE Drop(c) \/ LeaveDone(c)
      BY <1>a, <1>b, <2>6 DEF Drop, LeaveDone, Gone, HoldIfBeating
    <2> QED BY <1>1, <2>1, <2>2, <2>3, <2>4, <2>5, <2>6 DEF RecvNext
  <1>2. ASSUME NEW c \in Conn, StatNext(c) PROVE MachineTypeOK'
    BY <1>a, <1>b, <1>2 DEF StatNext, HbStall, HbStallDone, HbEvict, LinkDisarm, LoopDies
  <1>3. CASE LinkLost \/ LinkBack \/ TripSeen \/ MachineReady \/ JogEnds
    BY <1>3 DEF LinkLost, LinkBack, TripSeen, MachineReady, JogEnds
  <1>4. CASE Tick
    BY <1>4 DEF Tick
  <1>5. CASE UNCHANGED vars
    BY <1>5 DEF vars
  <1> QED BY <1>1, <1>2, <1>3, <1>4, <1>5 DEF Next

-----------------------------------------------------------------------------
(***************************************************************************)
(* The lock.  Its inductive invariant adds to LockConsistent the order in  *)
(* the queue that a stall relies on: a client that was disarmed while its  *)
(* jog command still waited for the lock has that command served before    *)
(* the jog stop, because asyncio.Lock is fair.                             *)
(***************************************************************************)
JogFirst ==
  \A c \in Conn :
    recvPc[c] = "jog" /\ statPc[c] = "stall" /\ ~armed[c] => Before(lockq, Recv(c), Stat(c))

QueueOK ==
  /\ Distinct(lockq)
  /\ \A c \in Conn :
       /\ Within(lockq, Recv(c)) <=> recvPc[c] # "idle"
       /\ Within(lockq, Stat(c)) <=> statPc[c] = "stall"
       /\ phase[c] = "free" => recvPc[c] = "idle" /\ statPc[c] = "done"

LockInv == SessTypeOK /\ TaskTypeOK /\ QueueOK /\ JogFirst

LEMMA QueueIsConsistent == QueueOK <=> LockConsistent
  BY DEF QueueOK, LockConsistent, Distinct, Within, InQueue

LEMMA Tasks ==
  \A c, d \in Conn : /\ Recv(c) \in Task /\ Stat(c) \in Task /\ Recv(c) # Stat(d)
                     /\ Recv(c) = Recv(d) => c = d
                     /\ Stat(c) = Stat(d) => c = d
  BY DEF Recv, Stat, Task

\* A receive loop queues up, to do what is called l.
LEMMA RecvQueues ==
  ASSUME LockInv, NEW c \in Conn, NEW l \in {"jog", "cmd", "disarm", "leave"},
         recvPc[c] = "idle", phase'[c] # "free", \A d \in Conn : d # c => phase'[d] = phase[d],
         lockq' = Append(lockq, Recv(c)), recvPc' = [recvPc EXCEPT ![c] = l],
         statPc' = statPc, l = "jog" => armed'[c],
         \A d \in Conn : d # c => (armed'[d] <=> armed[d])
  PROVE  TaskTypeOK' /\ QueueOK' /\ JogFirst'
  <1> USE DEF LockInv
  <1>1. /\ lockq' \in Seq(Task) /\ Distinct(lockq')
        /\ \A y : Within(lockq', y) <=> Within(lockq, y) \/ y = Recv(c)
        /\ \A y, z : Before(lockq, y, z) => Before(lockq', y, z)
    BY Tasks, AppendQueue DEF TaskTypeOK, QueueOK
  <1>2. TaskTypeOK'
    BY <1>1 DEF TaskTypeOK
  <1>3. QueueOK'
    BY <1>1, Tasks DEF TaskTypeOK, QueueOK
  <1>4. JogFirst'
    BY <1>1 DEF TaskTypeOK, JogFirst
  <1> QED BY <1>2, <1>3, <1>4

\* The receive loop that holds the lock is done.
LEMMA RecvReleases ==
  ASSUME LockInv, NEW c \in Conn, Holds(Recv(c)), Release,
         recvPc' = [recvPc EXCEPT ![c] = "idle"],
         statPc' = statPc, phase' = phase, armed' = armed
  PROVE  TaskTypeOK' /\ QueueOK' /\ JogFirst'
  <1> USE DEF LockInv
  <1>1. /\ lockq' \in Seq(Task) /\ Distinct(lockq')
        /\ \A y : Within(lockq', y) <=> Within(lockq, y) /\ y # Recv(c)
        /\ \A y, z : Before(lockq, y, z) /\ y # Recv(c) => Before(lockq', y, z)
    BY TailQueue DEF TaskTypeOK, QueueOK, Holds, Release
  <1>2. TaskTypeOK'
    BY <1>1 DEF TaskTypeOK
  <1>3. QueueOK'
    BY <1>1, Tasks DEF TaskTypeOK, QueueOK
  <1>4. JogFirst'
    BY <1>1, Tasks DEF TaskTypeOK, JogFirst
  <1> QED BY <1>2, <1>3, <1>4

\* A connection ends: its status_loop is cancelled, whatever its queue q is.
LEMMA GoneReleases ==
  ASSUME LockInv, NEW c \in Conn, NEW q \in Seq(Task), Distinct(q), NEW jog, Gone(c, jog),
         \A y : y # Recv(c) => (Within(q, y) <=> Within(lockq, y)),
         ~Within(q, Recv(c)),
         \A y, z : Before(lockq, y, z) /\ y # Recv(c) => Before(q, y, z),
         lockq' = Cancelled(q, Stat(c)),
         recvPc' = [recvPc EXCEPT ![c] = "idle"], armed' = armed
  PROVE  TaskTypeOK' /\ QueueOK' /\ JogFirst'
  <1> USE DEF LockInv
  <1>0. phase' = [phase EXCEPT ![c] = "free"] /\ statPc' = [statPc EXCEPT ![c] = "done"]
    BY DEF Gone
  <1>1. /\ lockq' \in Seq(Task) /\ Distinct(lockq')
        /\ \A y : Within(lockq', y) <=> Within(q, y) /\ y # Stat(c)
        /\ \A y, z : Before(q, y, z) /\ y # Stat(c) /\ z # Stat(c) => Before(lockq', y, z)
    BY CancelledQueue
  <1>2. TaskTypeOK'
    BY <1>0, <1>1 DEF TaskTypeOK
  <1>3. QueueOK'
    BY <1>0, <1>1, Tasks DEF SessTypeOK, TaskTypeOK, QueueOK
  <1>4. JogFirst'
    BY <1>0, <1>1, Tasks DEF TaskTypeOK, JogFirst
  <1> QED BY <1>2, <1>3, <1>4

\* Nobody queues up or is done; a client is disarmed only while no jog of its
\* waits for the lock, or while its status_loop is not stopping one.
LEMMA NobodyQueues ==
  ASSUME LockInv, UNCHANGED <<recvPc, lockq>>,
         \A c \in Conn : /\ phase'[c] = phase[c] \/ phase'[c] # "free"
                         /\ armed'[c] \/ (~armed[c]) \/ recvPc[c] # "jog" \/ statPc'[c] # "stall"
                         /\ statPc'[c] = "stall" <=> statPc[c] = "stall"
                         /\ statPc'[c] = statPc[c] \/ phase'[c] # "free",
         statPc' \in [Conn -> {"loop", "stall", "dead", "done"}]
  PROVE  TaskTypeOK' /\ QueueOK' /\ JogFirst'
  BY DEF LockInv, TaskTypeOK, QueueOK, JogFirst

LEMMA LockInit == Init => LockInv
  <1> SUFFICES ASSUME Init PROVE LockInv
    OBVIOUS
  <1>1. SessTypeOK /\ TaskTypeOK
    BY SessionAssumption DEF Init, SessTypeOK, TaskTypeOK
  <1>2. QueueOK /\ JogFirst
    BY DEF Init, QueueOK, JogFirst, Distinct, Within
  <1> QED BY <1>1, <1>2 DEF LockInv

LEMMA LockStep == LockInv /\ [Next]_vars => LockInv'
  <1> SUFFICES ASSUME LockInv, [Next]_vars PROVE TaskTypeOK' /\ QueueOK' /\ JogFirst'
    BY SessTypeStep DEF LockInv
  <1> DEFINE Goal == TaskTypeOK' /\ QueueOK' /\ JogFirst'
  <1> USE DEF LockInv, sessVars, taskVars
  <1>1. ASSUME NEW c \in Conn, RecvNext(c) PROVE Goal
    <2>1. CASE Accept(c)
      BY <2>1, NobodyQueues DEF Accept, SessTypeOK, TaskTypeOK, QueueOK
    <2>2. CASE Heartbeat(c) \/ TripAck(c) \/ (\E value \in BOOLEAN : TabVisibility(c, value))
      BY <2>2, NobodyQueues DEF Heartbeat, TripAck, TabVisibility, TaskTypeOK
    <2>3. CASE Arm(c) \/ (\E t \in Tab, resume \in BOOLEAN : Hello(c, t, resume))
      <3>1. /\ recvPc[c] = "idle" /\ UNCHANGED <<recvPc, lockq, phase, statPc>>
            /\ armed' = [armed EXCEPT ![c] = TRUE] \/ armed' = armed
        BY <2>3 DEF Arm, Hello, Receiving
      <3> QED BY <3>1, NobodyQueues DEF SessTypeOK, TaskTypeOK
    <2>4. CASE Disarm(c)
      <3>1. CASE armed[c] /\ linked
        BY <2>4, <3>1, RecvQueues DEF Disarm, Receiving, Enqueue, SessTypeOK
      <3>2. CASE ~(armed[c] /\ linked)
        BY <2>4, <3>2, NobodyQueues DEF Disarm, Receiving, SessTypeOK, TaskTypeOK
      <3> QED BY <3>1, <3>2
    <2>5. CASE JogCont(c) \/ Command(c)
      BY <2>5, RecvQueues DEF JogCont, Command, Receiving, Enqueue
    <2>6. CASE DisarmDone(c) \/ JogStarted(c) \/ CommandDone(c)
      BY <2>6, RecvReleases DEF DisarmDone, JogStarted, CommandDone
    <2>7. CASE Drop(c)
      <3>1. CASE armed[c] /\ linked
        BY <2>7, <3>1, RecvQueues DEF Drop, Enqueue, SessTypeOK
      <3>2. CASE ~(armed[c] /\ linked)
        <4>1. /\ Gone(c, moving) /\ lockq' = Cancelled(lockq, Stat(c)) /\ armed' = armed
              /\ recvPc[c] = "idle" /\ recvPc' = recvPc
          BY <2>7, <3>2 DEF Drop
        <4>2. recvPc' = [recvPc EXCEPT ![c] = "idle"]
          BY <4>1 DEF TaskTypeOK
        <4> QED BY <4>1, <4>2, GoneReleases DEF TaskTypeOK, QueueOK
      <3> QED BY <3>1, <3>2
    <2>8. CASE LeaveDone(c)
      <3>1. /\ lockq # <<>> /\ Head(lockq) = Recv(c) /\ Gone(c, JogStopped) /\ armed' = armed
            /\ lockq' = Cancelled(Tail(lockq), Stat(c))
            /\ recvPc' = [recvPc EXCEPT ![c] = "idle"]
        BY <2>8 DEF LeaveDone, Holds
      <3>2. /\ Tail(lockq) \in Seq(Task) /\ Distinct(Tail(lockq))
            /\ \A y : Within(Tail(lockq), y) <=> Within(lockq, y) /\ y # Recv(c)
            /\ \A y, z : Before(lockq, y, z) /\ y # Recv(c) => Before(Tail(lockq), y, z)
        BY <3>1, TailQueue DEF TaskTypeOK, QueueOK
      <3> QED BY <3>1, <3>2, GoneReleases
    <2> QED BY <1>1, <2>1, <2>2, <2>3, <2>4, <2>5, <2>6, <2>7, <2>8 DEF RecvNext
  <1>2. ASSUME NEW c \in Conn, StatNext(c) PROVE Goal
    <2>1. CASE HbStall(c)
      <3>1. /\ lockq' = Append(lockq, Stat(c)) /\ armed' = [armed EXCEPT ![c] = FALSE]
            /\ statPc[c] = "loop" /\ phase[c] = "open" /\ armed[c]
            /\ statPc' = [statPc EXCEPT ![c] = "stall"] /\ recvPc' = recvPc /\ phase' = phase
        BY <2>1 DEF HbStall, Enqueue, Checked, Silent
      <3>2. /\ lockq' \in Seq(Task) /\ Distinct(lockq')
            /\ \A y : Within(lockq', y) <=> Within(lockq, y) \/ y = Stat(c)
            /\ \A y, z : Before(lockq, y, z) => Before(lockq', y, z)
            /\ \A y : Within(lockq, y) => Before(lockq', y, Stat(c))
        BY <3>1, Tasks, AppendQueue DEF TaskTypeOK, QueueOK
      <3>3. TaskTypeOK'
        BY <3>1, <3>2 DEF TaskTypeOK
      <3>4. QueueOK'
        BY <3>1, <3>2, Tasks DEF TaskTypeOK, QueueOK
      <3>5. JogFirst'
        BY <3>1, <3>2 DEF SessTypeOK, TaskTypeOK, JogFirst, QueueOK
      <3> QED BY <3>3, <3>4, <3>5
    <2>2. CASE HbStallDone(c)
      <3>1. /\ lockq # <<>> /\ Head(lockq) = Stat(c) /\ lockq' = Tail(lockq)
            /\ statPc[c] = "stall" /\ statPc' = [statPc EXCEPT ![c] = "loop"]
            /\ recvPc' = recvPc /\ phase' = phase /\ armed' = armed
        BY <2>2 DEF HbStallDone, Holds, Release
      <3>2. /\ lockq' \in Seq(Task) /\ Distinct(lockq')
            /\ \A y : Within(lockq', y) <=> Within(lockq, y) /\ y # Stat(c)
            /\ \A y, z : Before(lockq, y, z) /\ y # Stat(c) => Before(lockq', y, z)
        BY <3>1, TailQueue DEF TaskTypeOK, QueueOK
      <3>3. TaskTypeOK'
        BY <3>1, <3>2 DEF TaskTypeOK
      <3>4. QueueOK'
        BY <3>1, <3>2, Tasks DEF TaskTypeOK, QueueOK
      <3>5. JogFirst'
        BY <3>1, <3>2, Tasks DEF TaskTypeOK, JogFirst
      <3> QED BY <3>3, <3>4, <3>5
    <2>3. CASE HbEvict(c)
      BY <2>3, NobodyQueues DEF HbEvict, Checked, Silent, TaskTypeOK
    <2>4. CASE LinkDisarm(c)
      BY <2>4, NobodyQueues DEF LinkDisarm, SessTypeOK, TaskTypeOK
    <2>5. CASE LoopDies(c)
      <3>1. phase[c] # "free"
        BY <2>5 DEF LoopDies, QueueOK
      <3> QED BY <2>5, <3>1, NobodyQueues DEF LoopDies, TaskTypeOK
    <2> QED BY <1>2, <2>1, <2>2, <2>3, <2>4, <2>5 DEF StatNext
  <1>3. CASE LinkLost \/ LinkBack \/ TripSeen \/ MachineReady \/ JogEnds \/ Tick
    BY <1>3, NobodyQueues
       DEF LinkLost, LinkBack, TripSeen, MachineReady, JogEnds, Tick, TaskTypeOK
  <1>4. CASE UNCHANGED vars
    BY <1>4, NobodyQueues DEF vars, TaskTypeOK
  <1> QED BY <1>1, <1>2, <1>3, <1>4 DEF Next

(***************************************************************************)
(* _cmd_lock is held or awaited by exactly the coroutines that are at such *)
(* a point, once each: nobody waits that was cancelled, and no connection  *)
(* that is gone holds it.                                                  *)
(***************************************************************************)
THEOREM LockIsConsistent == Spec => []LockConsistent
  <1>1. LockInv => LockConsistent
    BY QueueIsConsistent DEF LockInv
  <1> QED BY LockInit, LockStep, <1>1, PTL DEF Spec

\* Every variable of the client sessions stays in its range.
THEOREM SessionsTypeCorrect == Spec => []TypeOK
  <1>1. Init => MachineTypeOK
    <2>1. Init => hold \in [Tab -> 0..HoldLife] /\ moving \in Conn \cup {Nobody, Orphan}
      BY SessionAssumption DEF Init
    <2>2. Init => unacked \in BOOLEAN /\ linked \in BOOLEAN /\ ready \in BOOLEAN
      BY Zenon DEF Init
    <2> QED BY <2>1, <2>2 DEF MachineTypeOK
  <1>2. LockInv /\ MachineTypeOK => TypeOK
    BY TypeParts DEF LockInv
  <1>3. LockInv /\ MachineTypeOK /\ [Next]_vars => MachineTypeOK'
    BY MachineTypeStep DEF LockInv
  <1> QED BY LockInit, LockStep, <1>1, <1>2, <1>3, PTL DEF Spec

-----------------------------------------------------------------------------
(***************************************************************************)
(* Jogs.  What a connection does to another one's jog: at most stop it.    *)
(***************************************************************************)
LEMMA OthersJog ==
  ASSUME SessTypeOK, TaskTypeOK, NEW c \in Conn, NEW d \in Conn, d # c,
         RecvNext(d) \/ StatNext(d)
  PROVE  /\ armed'[c] <=> armed[c]
         /\ recvPc'[c] = recvPc[c] /\ statPc'[c] = statPc[c]
         /\ phase'[c] = phase[c]
         /\ moving' = c => moving = c
  <1> DEFINE Goal == /\ armed'[c] <=> armed[c]
                     /\ recvPc'[c] = recvPc[c] /\ statPc'[c] = statPc[c]
                     /\ phase'[c] = phase[c]
                     /\ moving' = c => moving = c
  <1> USE SessionAssumption DEF SessTypeOK, TaskTypeOK, sessVars, taskVars, JogStopped
  <1>1. CASE RecvNext(d)
    <2>1. CASE Accept(d) \/ Heartbeat(d) \/ Arm(d) \/ TripAck(d) \/ JogCont(d) \/ Command(d)
      BY <2>1 DEF Accept, Heartbeat, Arm, TripAck, JogCont, Command
    <2>2. CASE Disarm(d)
      BY <2>2 DEF Disarm
    <2>3. CASE DisarmDone(d) \/ JogStarted(d)
      BY <2>3 DEF DisarmDone, JogStarted
    <2>4. CASE CommandDone(d)
      BY <2>4 DEF CommandDone
    <2>5. CASE \/ \E t \in Tab, resume \in BOOLEAN : Hello(d, t, resume)
               \/ \E value \in BOOLEAN : TabVisibility(d, value)
      BY <2>5 DEF Hello, TabVisibility
    <2>6. CASE Drop(d)
      BY <2>6 DEF Drop, Gone
    <2>7. CASE LeaveDone(d)
      BY <2>7 DEF LeaveDone, Gone
    <2> QED BY <1>1, <2>1, <2>2, <2>3, <2>4, <2>5, <2>6, <2>7 DEF RecvNext
  <1>2. CASE StatNext(d)
    BY <1>2 DEF StatNext, HbStall, HbStallDone, HbEvict, LinkDisarm, LoopDies
  <1> QED BY <1>1, <1>2

(***************************************************************************)
(* No jog is in flight for a connection that is gone: the last thing that  *)
(* is done for it either stopped the jog or made an orphan of it.          *)
(***************************************************************************)
GoneIsStill == \A c \in Conn : phase[c] = "free" => moving # c

JogInv == LockInv /\ GoneIsStill

LEMMA JogInit == Init => JogInv
  BY LockInit, SessionAssumption DEF JogInv, GoneIsStill, Init

LEMMA JogStep == JogInv /\ [Next]_vars => JogInv'
  <1> SUFFICES ASSUME JogInv, [Next]_vars PROVE GoneIsStill'
    BY LockStep DEF JogInv
  <1> SUFFICES ASSUME NEW c \in Conn, phase'[c] = "free", moving' = c PROVE FALSE
    BY DEF GoneIsStill
  <1> USE SessionAssumption DEF JogInv, LockInv, SessTypeOK, TaskTypeOK, sessVars, taskVars,
                                GoneIsStill, JogStopped
  <1>1. CASE RecvNext(c)
    <2>0. QueueOK
      OBVIOUS
    <2>1. CASE Accept(c) \/ Heartbeat(c) \/ Arm(c) \/ TripAck(c) \/ JogCont(c) \/ Command(c)
      BY <2>1 DEF Accept, Heartbeat, Arm, TripAck, JogCont, Command
    <2>2. CASE Disarm(c)
      BY <2>2 DEF Disarm
    <2>3. CASE DisarmDone(c) \/ JogStarted(c)
      BY <2>0, <2>3 DEF DisarmDone, JogStarted, QueueOK
    <2>4. CASE CommandDone(c)
      BY <2>4 DEF CommandDone
    <2>5. CASE \/ \E t \in Tab, resume \in BOOLEAN : Hello(c, t, resume)
               \/ \E value \in BOOLEAN : TabVisibility(c, value)
      BY <2>5 DEF Hello, TabVisibility
    <2>6. CASE Drop(c) \/ LeaveDone(c)
      BY <2>6 DEF Drop, LeaveDone, Gone
    <2> QED BY <1>1, <2>1, <2>2, <2>3, <2>4, <2>5, <2>6 DEF RecvNext
  <1>2. CASE StatNext(c)
    BY <1>2 DEF StatNext, HbStall, HbStallDone, HbEvict, LinkDisarm, LoopDies
  <1>3. ASSUME NEW d \in Conn, d # c, RecvNext(d) \/ StatNext(d) PROVE FALSE
    BY <1>3, OthersJog
  <1>4. CASE LinkLost \/ LinkBack \/ TripSeen \/ MachineReady \/ JogEnds \/ Tick
    BY <1>4 DEF LinkLost, LinkBack, TripSeen, MachineReady, JogEnds, Tick
  <1>5. CASE UNCHANGED vars
    BY <1>5 DEF vars
  <1> QED BY <1>1, <1>2, <1>3, <1>4, <1>5 DEF Next

LEMMA AttendedStep ==
  ASSUME JogInv, [Next]_vars, NEW c \in Conn, linked, Attended(c)
  PROVE  Attended(c)'
  <1> USE DEF JogInv, LockInv
  <1>0. QueueOK /\ JogFirst /\ GoneIsStill /\ lockq \in Seq(Task)
    BY DEF TaskTypeOK
  <1> USE SessionAssumption DEF SessTypeOK, TaskTypeOK, sessVars, taskVars, Attended, JogStopped
  <1>1. CASE RecvNext(c)
    <2>1. CASE Accept(c)
      BY <1>0, <2>1 DEF Accept, QueueOK, GoneIsStill
    <2>2. CASE Heartbeat(c) \/ Arm(c) \/ TripAck(c) \/ JogCont(c)
      BY <2>2 DEF Heartbeat, Arm, TripAck, JogCont, Receiving
    <2>3. CASE Disarm(c)
      BY <2>3 DEF Disarm, Receiving
    <2>4. CASE DisarmDone(c) \/ JogStarted(c)
      BY <2>4 DEF DisarmDone, JogStarted
    <2>5. CASE Command(c)
      BY <2>5 DEF Command, Receiving
    <2>6. CASE CommandDone(c)
      BY <2>6 DEF CommandDone
    <2>7. CASE \/ \E t \in Tab, resume \in BOOLEAN : Hello(c, t, resume)
               \/ \E value \in BOOLEAN : TabVisibility(c, value)
      BY <2>7 DEF Hello, TabVisibility
    <2>8. CASE Drop(c)
      BY <2>8 DEF Drop, Gone
    <2>9. CASE LeaveDone(c)
      BY <2>9 DEF LeaveDone, Gone
    <2> QED BY <1>1, <2>1, <2>2, <2>3, <2>4, <2>5, <2>6, <2>7, <2>8, <2>9 DEF RecvNext
  <1>2. CASE StatNext(c)
    <2>1. CASE HbStall(c) \/ LinkDisarm(c)
      BY <2>1 DEF HbStall, LinkDisarm
    <2>2. CASE HbStallDone(c)
      <3>1. ~Before(lockq, Recv(c), Stat(c))
        BY <1>0, <2>2 DEF HbStallDone, Holds, Before, QueueOK, Distinct
      <3>2. recvPc[c] = "jog" => armed[c]
        BY <1>0, <2>2, <3>1 DEF HbStallDone, JogFirst
      <3> QED BY <2>2, <3>2 DEF HbStallDone
    <2>3. CASE HbEvict(c) \/ LoopDies(c)
      BY <2>3 DEF HbEvict, LoopDies, Checked
    <2> QED BY <1>2, <2>1, <2>2, <2>3 DEF StatNext
  <1>3. ASSUME NEW d \in Conn, d # c, RecvNext(d) \/ StatNext(d) PROVE Attended(c)'
    BY <1>3, OthersJog
  <1>4. CASE LinkLost \/ LinkBack \/ TripSeen \/ MachineReady \/ JogEnds \/ Tick
    BY <1>4 DEF LinkLost, LinkBack, TripSeen, MachineReady, JogEnds, Tick
  <1>5. CASE UNCHANGED vars
    BY <1>5 DEF vars
  <1> QED BY <1>1, <1>2, <1>3, <1>4, <1>5 DEF Next

(***************************************************************************)
(* "all paths to disarmed do the same thing": no step of a client, of its  *)
(* status_loop or of another client leaves a jog that nobody may command   *)
(* and nobody is about to stop, while LinuxCNC is there.                   *)
(***************************************************************************)
THEOREM DisarmedJogsStop == Spec => DisarmedJogIsStopping
  <1>1. JogInv /\ [Next]_vars
          => [\A c \in Conn : linked /\ Attended(c) => Attended(c)']_vars
    BY AttendedStep
  <1> QED BY JogInit, JogStep, <1>1, PTL DEF Spec, DisarmedJogIsStopping

(***************************************************************************)
(* A jog outlives its client only if the socket ends while the handler of  *)
(* a stall still waits for the lock.                                       *)
(***************************************************************************)
THEOREM OrphansAreStalls == Spec => OrphanOnlyByStall
  <1> DEFINE Step == \A c \in Conn : linked /\ Attended(c) /\ moving = c /\ moving' = Orphan
                                       => statPc[c] = "stall"
  <1>1. ASSUME JogInv, [Next]_vars PROVE Step
    <2> SUFFICES ASSUME NEW c \in Conn, linked, Attended(c), moving = c, moving' = Orphan
                 PROVE  statPc[c] = "stall"
      OBVIOUS
    <2> USE SessionAssumption DEF JogInv, LockInv, SessTypeOK, TaskTypeOK, sessVars, taskVars,
                                  Attended, JogStopped
    <2>1. ASSUME NEW d \in Conn, RecvNext(d) PROVE statPc[c] = "stall"
      <3>1. CASE Drop(d)
        BY <3>1 DEF Drop, Gone
      <3>2. CASE ~Drop(d)
        BY <2>1, <3>2
           DEF RecvNext, Accept, Heartbeat, Arm, Disarm, DisarmDone, Hello, TabVisibility, TripAck,
               JogCont, JogStarted, Command, CommandDone, LeaveDone, Gone
      <3> QED BY <3>1, <3>2
    <2>2. ASSUME NEW d \in Conn, StatNext(d) PROVE statPc[c] = "stall"
      BY <2>2 DEF StatNext, HbStall, HbStallDone, HbEvict, LinkDisarm, LoopDies
    <2>3. CASE LinkLost \/ LinkBack \/ TripSeen \/ MachineReady \/ JogEnds \/ Tick
      BY <2>3 DEF LinkLost, LinkBack, TripSeen, MachineReady, JogEnds, Tick
    <2>4. CASE UNCHANGED vars
      BY <2>4 DEF vars
    <2>5. Next \/ UNCHANGED vars
      BY <1>1
    <2> QED BY <2>1, <2>2, <2>3, <2>4, <2>5, Zenon DEF Next
  <1>2. JogInv /\ [Next]_vars => [Step]_vars
    BY <1>1
  <1> QED BY JogInit, JogStep, <1>2, PTL DEF Spec, OrphanOnlyByStall

-----------------------------------------------------------------------------
(***************************************************************************)
(* Holds.  A tab may have several connections, as when its old socket is   *)
(* not yet known to be dead; each is judged by its own heartbeats.         *)
(***************************************************************************)
\* Where the receive loop is while it waits to leave or to disarm.
Waiting ==
  \A c \in Conn :
    /\ recvPc[c] = "leave" <=> phase[c] = "leaving"
    /\ recvPc[c] = "disarm" => ~armed[c] /\ phase[c] = "open"

\* A connection that lagged, and is still there, is not armed and not about to
\* leave its tab a hold.
LaggardIsIdle ==
  \A c \in Conn, t \in Tab :
    c \in laggards[t] /\ tab[c] = t /\ phase[c] # "free" =>
      phase[c] = "open" /\ ~armed[c] /\ recvPc[c] \notin {"disarm", "leave"}

LaggardInv ==
  /\ LockInv /\ MachineTypeOK /\ Waiting
  /\ LaggardIsIdle /\ laggards \in [Tab -> SUBSET Conn]
  /\ own = {}

LEMMA WaitingStep == LockInv /\ Waiting /\ [Next]_vars => Waiting'
  <1> SUFFICES ASSUME LockInv, Waiting, [Next]_vars, NEW c \in Conn
               PROVE  /\ recvPc'[c] = "leave" <=> phase'[c] = "leaving"
                      /\ recvPc'[c] = "disarm" => ~armed'[c] /\ phase'[c] = "open"
    BY DEF Waiting
  <1> DEFINE Goal == /\ recvPc'[c] = "leave" <=> phase'[c] = "leaving"
                     /\ recvPc'[c] = "disarm" => ~armed'[c] /\ phase'[c] = "open"
  <1> USE DEF LockInv, SessTypeOK, TaskTypeOK, Waiting, sessVars, taskVars
  <1>1. CASE RecvNext(c)
    <2>1. CASE Accept(c)
      BY <2>1 DEF Accept, QueueOK
    <2>2. CASE Heartbeat(c) \/ Arm(c) \/ TripAck(c) \/ JogCont(c) \/ Command(c)
      BY <2>2 DEF Heartbeat, Arm, TripAck, JogCont, Command, Receiving
    <2>3. CASE Disarm(c)
      BY <2>3 DEF Disarm, Receiving
    <2>4. CASE DisarmDone(c) \/ JogStarted(c)
      BY <2>4 DEF DisarmDone, JogStarted
    <2>5. CASE CommandDone(c)
      BY <2>5 DEF CommandDone
    <2>6. CASE \/ \E t \in Tab, resume \in BOOLEAN : Hello(c, t, resume)
               \/ \E value \in BOOLEAN : TabVisibility(c, value)
      BY <2>6 DEF Hello, TabVisibility, Receiving
    <2>7. CASE Drop(c)
      BY <2>7 DEF Drop, Gone
    <2>8. CASE LeaveDone(c)
      BY <2>8 DEF LeaveDone, Gone
    <2> QED BY <1>1, <2>1, <2>2, <2>3, <2>4, <2>5, <2>6, <2>7, <2>8 DEF RecvNext
  <1>2. CASE StatNext(c)
    BY <1>2 DEF StatNext, HbStall, HbStallDone, HbEvict, LinkDisarm, LoopDies
  <1>3. ASSUME NEW d \in Conn, d # c, RecvNext(d) \/ StatNext(d) PROVE Goal
    BY <1>3, OthersJog
  <1>4. CASE LinkLost \/ LinkBack \/ TripSeen \/ MachineReady \/ JogEnds \/ Tick
    BY <1>4 DEF LinkLost, LinkBack, TripSeen, MachineReady, JogEnds, Tick
  <1>5. CASE UNCHANGED vars
    BY <1>5 DEF vars
  <1> QED BY <1>1, <1>2, <1>3, <1>4, <1>5 DEF Next

\* While it waits, a connection has no time to say hello.
LEMMA WaitingTab ==
  ASSUME SessTypeOK, TaskTypeOK, Waiting, [Next]_vars, NEW c \in Conn,
         recvPc'[c] \in {"disarm", "leave"}, recvPc'[c] = recvPc[c]
  PROVE  tab'[c] = tab[c]
  <1> USE DEF SessTypeOK, TaskTypeOK, Waiting, sessVars, taskVars
  <1>1. ASSUME NEW d \in Conn, RecvNext(d) PROVE tab'[c] = tab[c]
    <2>1. CASE Accept(d)
      BY <2>1 DEF Accept
    <2>2. CASE \E t \in Tab, resume \in BOOLEAN : Hello(d, t, resume)
      BY <2>2 DEF Hello, Receiving
    <2>3. CASE \/ Heartbeat(d) \/ Arm(d) \/ Disarm(d) \/ DisarmDone(d) \/ TripAck(d)
               \/ JogCont(d) \/ JogStarted(d) \/ Command(d) \/ CommandDone(d)
               \/ Drop(d) \/ LeaveDone(d)
               \/ \E value \in BOOLEAN : TabVisibility(d, value)
      BY <2>3 DEF Heartbeat, Arm, Disarm, DisarmDone, TripAck, JogCont, JogStarted, Command,
                  CommandDone, Drop, LeaveDone, TabVisibility
    <2> QED BY <1>1, <2>1, <2>2, <2>3 DEF RecvNext
  <1>2. ASSUME NEW d \in Conn, StatNext(d) PROVE tab'[c] = tab[c]
    BY <1>2 DEF StatNext, HbStall, HbStallDone, HbEvict, LinkDisarm, LoopDies
  <1>3. CASE LinkLost \/ LinkBack \/ TripSeen \/ MachineReady \/ JogEnds \/ Tick
    BY <1>3 DEF LinkLost, LinkBack, TripSeen, MachineReady, JogEnds, Tick
  <1>4. CASE UNCHANGED vars
    BY <1>4 DEF vars
  <1> QED BY <1>1, <1>2, <1>3, <1>4 DEF Next

\* A connection begins to wait, to disarm or to leave, while it is armed.
LEMMA WaitsArmed ==
  ASSUME SessTypeOK, TaskTypeOK, [Next]_vars, NEW c \in Conn,
         recvPc'[c] \in {"disarm", "leave"}, recvPc'[c] # recvPc[c]
  PROVE  armed[c] /\ phase[c] = "open" /\ recvPc[c] = "idle" /\ tab'[c] = tab[c]
  <1> DEFINE Goal == armed[c] /\ phase[c] = "open" /\ recvPc[c] = "idle" /\ tab'[c] = tab[c]
  <1> USE DEF SessTypeOK, TaskTypeOK, sessVars, taskVars
  <1>1. ASSUME NEW d \in Conn, RecvNext(d) PROVE Goal
    <2>1. CASE Disarm(d) \/ Drop(d)
      BY <2>1 DEF Disarm, Drop, Receiving
    <2>2. CASE \/ Accept(d) \/ Heartbeat(d) \/ Arm(d) \/ DisarmDone(d) \/ TripAck(d)
               \/ JogCont(d) \/ JogStarted(d) \/ Command(d) \/ CommandDone(d) \/ LeaveDone(d)
               \/ \E t \in Tab, resume \in BOOLEAN : Hello(d, t, resume)
               \/ \E value \in BOOLEAN : TabVisibility(d, value)
      BY <2>2 DEF Accept, Heartbeat, Arm, DisarmDone, TripAck, JogCont, JogStarted, Command,
                  CommandDone, LeaveDone, Hello, TabVisibility
    <2> QED BY <1>1, <2>1, <2>2 DEF RecvNext
  <1>2. ASSUME NEW d \in Conn, StatNext(d) PROVE Goal
    BY <1>2 DEF StatNext, HbStall, HbStallDone, HbEvict, LinkDisarm, LoopDies
  <1>3. CASE LinkLost \/ LinkBack \/ TripSeen \/ MachineReady \/ JogEnds \/ Tick
    BY <1>3 DEF LinkLost, LinkBack, TripSeen, MachineReady, JogEnds, Tick
  <1>4. CASE UNCHANGED vars
    BY <1>4 DEF vars
  <1> QED BY <1>1, <1>2, <1>3, <1>4 DEF Next

\* No connection lags while it waits.
LEMMA LagsAwake ==
  ASSUME LockInv, Waiting, NEW c \in Conn, HbStall(c) \/ LaggedLeave(c),
         recvPc'[c] \in {"disarm", "leave"}
  PROVE  FALSE
  <1> USE DEF LockInv, SessTypeOK, TaskTypeOK, Waiting
  <1>1. CASE HbStall(c)
    BY <1>1 DEF HbStall, Silent
  <1>2. CASE LaggedLeave(c)
    <2>1. CASE Drop(c)
      BY <1>2, <2>1 DEF LaggedLeave, Drop
    <2>2. CASE LeaveDone(c)
      BY <2>2 DEF LeaveDone
    <2> QED BY <1>2, <2>1, <2>2 DEF LaggedLeave
  <1> QED BY <1>1, <1>2

\* Whoever leaves a hold has not lagged: it was armed, or waited for the lock
\* since it was, and when it left its heartbeats were young enough.
LEMMA LaggardsRegisterNothing ==
  ASSUME LaggardInv, MCNext, NEW c \in Conn, NEW t \in Tab, Registers(c, t)
  PROVE  c \notin laggards'[t]
  <1> USE SessionAssumption
      DEF LaggardInv, LockInv, SessTypeOK, TaskTypeOK, MachineTypeOK, Waiting, sessVars, taskVars
  <1>0. laggards'[t] \subseteq laggards[t] \cup {d \in Conn : Lags(d, t)}
    BY DEF MCNext
  <1>1. tab[c] = t /\ hold'[t] > hold[t] /\ RecvNext(c) /\ hold[t] \in Nat
    BY DEF Registers
  <1>2. ~(hold[t] > hold[t]) /\ ~(0 > hold[t])
    BY <1>1
  <1>3. SUFFICES c \notin laggards[t] /\ ~HbStall(c) /\ ~LaggedLeave(c)
    BY <1>0 DEF Lags
  <1>4. CASE Disarm(c)
    <2>1. armed[c] /\ phase[c] = "open"
      BY <1>1, <1>2, <1>4 DEF Disarm, Receiving
    <2>2. ~HbStall(c)
      BY <1>4 DEF Disarm, HbStall, Checked
    <2>3. ~LaggedLeave(c)
      BY <1>4, <2>1 DEF Disarm, LaggedLeave
    <2> QED BY <1>1, <2>1, <2>2, <2>3 DEF LaggardIsIdle
  <1>5. CASE DisarmDone(c)
    <2>1. recvPc[c] = "disarm" /\ phase[c] = "open"
      BY <1>5 DEF DisarmDone
    <2>2. ~HbStall(c)
      BY <1>5 DEF DisarmDone, HbStall, Checked
    <2>3. ~LaggedLeave(c)
      BY <1>5, <2>1 DEF DisarmDone, LaggedLeave
    <2> QED BY <1>1, <2>1, <2>2, <2>3 DEF LaggardIsIdle
  <1>6. CASE LeaveDone(c)
    <2>1. recvPc[c] = "leave" /\ phase[c] = "leaving"
      BY <1>6 DEF LeaveDone
    <2>2. hbAge[c] <= ResumeMaxAge
      BY <1>1, <1>2, <1>6 DEF LeaveDone, HoldIfBeating
    <2>3. ~LaggedLeave(c)
      BY <2>2 DEF LaggedLeave
    <2>4. ~HbStall(c)
      BY <2>1 DEF HbStall, Silent
    <2> QED BY <1>1, <2>1, <2>3, <2>4 DEF LaggardIsIdle
  <1>7. CASE \E s \in Tab, resume \in BOOLEAN : Hello(c, s, resume)
    BY <1>1, <1>2, <1>7 DEF Hello, Consumed
  <1>8. CASE \/ Accept(c) \/ Heartbeat(c) \/ Arm(c) \/ TripAck(c) \/ JogCont(c) \/ JogStarted(c)
             \/ Command(c) \/ CommandDone(c) \/ Drop(c)
             \/ \E value \in BOOLEAN : TabVisibility(c, value)
    BY <1>1, <1>2, <1>8
       DEF Accept, Heartbeat, Arm, TripAck, JogCont, JogStarted, Command, CommandDone, Drop,
           TabVisibility
  <1> QED BY <1>1, <1>4, <1>5, <1>6, <1>7, <1>8 DEF RecvNext

LEMMA LaggardStep == LaggardInv /\ [MCNext]_mcVars => LaggardInv'
  <1> SUFFICES ASSUME LaggardInv, [MCNext]_mcVars PROVE LaggardInv'
    OBVIOUS
  <1>a. LockInv' /\ MachineTypeOK' /\ Waiting' /\ [Next]_vars
    <2>1. [Next]_vars
      BY DEF MCNext, mcVars
    <2> QED BY <2>1, LockStep, MachineTypeStep, WaitingStep DEF LaggardInv, LockInv
  <1>1. CASE UNCHANGED mcVars
    BY <1>1, <1>a DEF mcVars, vars, sessVars, taskVars, LaggardInv, LaggardIsIdle
  <1>2. CASE MCNext
    <2>0. laggards' \in [Tab -> SUBSET Conn]
      BY <1>2 DEF MCNext, LaggardInv
    <2>1. own' = {}
      <3>1. \A t \in Tab : ~(\E c \in laggards'[t] : Registers(c, t))
        <4> SUFFICES ASSUME NEW t \in Tab, NEW c \in laggards'[t], Registers(c, t) PROVE FALSE
          OBVIOUS
        <4>1. c \in Conn
          BY <2>0
        <4> QED BY <1>2, <4>1, LaggardsRegisterNothing
      <3> QED BY <1>2, <3>1 DEF MCNext, LaggardInv
    <2>2. LaggardIsIdle'
      <3> SUFFICES ASSUME NEW c \in Conn, NEW t \in Tab,
                          c \in laggards'[t], tab'[c] = t, phase'[c] # "free"
                   PROVE  phase'[c] = "open" /\ ~armed'[c] /\ recvPc'[c] \notin {"disarm", "leave"}
        BY DEF LaggardIsIdle
      <3>1. (c \in laggards[t] \/ Lags(c, t)) /\ ~Armed(t)'
        BY <1>2 DEF MCNext
      <3>2. recvPc'[c] \notin {"disarm", "leave"}
        <4> SUFFICES ASSUME recvPc'[c] \in {"disarm", "leave"} PROVE FALSE
          OBVIOUS
        <4>1. CASE Lags(c, t)
          BY <4>1, LagsAwake DEF Lags, LaggardInv
        <4>2. CASE c \in laggards[t] /\ recvPc'[c] = recvPc[c]
          <5>1. tab[c] = t
            BY <1>a, <4>2, WaitingTab DEF LaggardInv, LockInv
          <5>2. phase[c] # "free"
            BY <4>2 DEF LaggardInv, Waiting
          <5> QED BY <4>2, <5>1, <5>2 DEF LaggardInv, LaggardIsIdle
        <4>3. CASE c \in laggards[t] /\ recvPc'[c] # recvPc[c]
          <5>1. armed[c] /\ phase[c] = "open" /\ tab[c] = t
            BY <1>a, <4>3, WaitsArmed DEF LaggardInv, LockInv
          <5> QED BY <4>3, <5>1 DEF LaggardInv, LaggardIsIdle
        <4> QED BY <3>1, <4>1, <4>2, <4>3
      <3>3. phase'[c] = "open"
        <4>1. phase'[c] # "leaving"
          BY <1>a, <3>2 DEF Waiting
        <4> QED BY <1>a, <4>1 DEF LockInv, SessTypeOK
      <3>4. ~armed'[c]
        BY <3>1, <3>3 DEF Armed
      <3> QED BY <3>2, <3>3, <3>4
    <2> QED BY <1>a, <2>0, <2>1, <2>2 DEF LaggardInv
  <1> QED BY <1>1, <1>2

(***************************************************************************)
(* "If the heartbeat was already lagging at disconnect ... do not          *)
(* auto-restore armed", "drop any armed-resume hold": a connection that    *)
(* lagged leaves no hold that re-arms its tab, whatever the number of      *)
(* connections of that tab, and in whichever order they end.               *)
(***************************************************************************)
THEOREM LaggardsLeaveNoHold == MCSpec => LaggardLeavesNoHold
  <1>1. MCInit => LaggardInv
    <2>1. MCInit => MachineTypeOK
      <3>1. MCInit => hold \in [Tab -> 0..HoldLife] /\ moving \in Conn \cup {Nobody, Orphan}
        BY SessionAssumption DEF MCInit, Init
      <3>2. MCInit => unacked \in BOOLEAN /\ linked \in BOOLEAN /\ ready \in BOOLEAN
        BY Zenon DEF MCInit, Init
      <3> QED BY <3>1, <3>2 DEF MachineTypeOK
    <2>2. MCInit => Waiting /\ LaggardIsIdle /\ laggards \in [Tab -> SUBSET Conn] /\ own = {}
      BY DEF MCInit, Init, Waiting, LaggardIsIdle
    <2> QED BY <2>1, <2>2, LockInit DEF MCInit, LaggardInv
  <1>2. LaggardInv /\ [MCNext]_mcVars
          => [\A c \in Conn, t \in Tab : Resumes(c, t) => t \notin own]_mcVars
    BY DEF LaggardInv
  <1> QED BY <1>1, <1>2, LaggardStep, PTL DEF MCSpec, LaggardLeavesNoHold
=============================================================================
