---------------------------- MODULE SettingsProofs ----------------------------
(***************************************************************************)
(* Proofs about the settings store, for every set of pages and sections    *)
(* and any number of operations: it is well typed (one save at a time      *)
(* holds the lock), and what was acknowledged stays on disk.               *)
(***************************************************************************)
EXTENDS MCSettings, TLAPS

\* The documents the first n operations can have written.
UpTo(n) == [Key -> [Section -> 0..n]]

LEMMA UpToGrows ==
  ASSUME NEW m \in Nat, NEW n \in Nat, m <= n
  PROVE  UpTo(m) \subseteq UpTo(n) /\ [Section -> 0..m] \subseteq [Section -> 0..n]
  <1>1. 0..m \subseteq 0..n
    OBVIOUS
  <1>2. [Section -> 0..m] \subseteq [Section -> 0..n]
    BY <1>1
  <1> QED BY <1>2 DEF UpTo

\* The two markers are no documents.
LEMMA Markers ==
  \A n \in Nat : Bad \notin UpTo(n) /\ Empty \notin UpTo(n) /\ Blank \in UpTo(n)
                 /\ Nothing \in [Section -> 0..n]
  <1>1. DOMAIN Bad = {"bad"} /\ DOMAIN Empty = {"none"}
    BY DEF Bad, Empty
  <1>2. \A n \in Nat : \A d \in UpTo(n) : DOMAIN d = Key
    BY DEF UpTo
  <1>3. Key # {"bad"} /\ Key # {"none"}
    BY DEF Key
  <1>4. \A n \in Nat : Nothing \in [Section -> 0..n]
    BY DEF Nothing
  <1>5. \A n \in Nat : Blank \in UpTo(n)
    BY <1>4 DEF Blank, UpTo
  <1> QED BY <1>1, <1>2, <1>3, <1>4, <1>5

LEMMA MarkersDiffer == Bad # Empty
  <1>1. DOMAIN Bad = {"bad"} /\ DOMAIN Empty = {"none"}
    BY DEF Bad, Empty
  <1> QED BY <1>1

\* A save's change of a document, as a function of the document.
Changed(d, k, sections, n) ==
  [d EXCEPT ![k] = [s \in Section |-> IF s \in sections THEN n ELSE @[s]]]

LEMMA ChangedType ==
  ASSUME NEW n \in Nat, NEW d \in UpTo(n), NEW k \in Key, NEW sections
  PROVE  /\ Changed(d, k, sections, n + 1) \in UpTo(n + 1)
         /\ \A j \in Key, s \in Section :
              Changed(d, k, sections, n + 1)[j][s]
                = IF j = k /\ s \in sections THEN n + 1 ELSE d[j][s]
  <1> DEFINE new == [s \in Section |-> IF s \in sections THEN n + 1 ELSE d[k][s]]
  <1>1. d \in [Key -> [Section -> 0..n]] /\ d[k] \in [Section -> 0..n]
    BY DEF UpTo
  <1>2. new \in [Section -> 0..(n + 1)]
    <2>1. \A s \in Section : (IF s \in sections THEN n + 1 ELSE d[k][s]) \in 0..(n + 1)
      BY <1>1
    <2> QED BY <2>1
  <1>3. Changed(d, k, sections, n + 1) = [d EXCEPT ![k] = new]
    BY DEF Changed
  <1>4. d \in UpTo(n + 1)
    BY UpToGrows
  <1>5. Changed(d, k, sections, n + 1) \in UpTo(n + 1)
    BY <1>2, <1>3, <1>4 DEF UpTo
  <1>6. \A j \in Key : [d EXCEPT ![k] = new][j] = IF j = k THEN new ELSE d[j]
    BY <1>1
  <1>7. \A s \in Section : new[s] = IF s \in sections THEN n + 1 ELSE d[k][s]
    OBVIOUS
  <1> HIDE DEF new
  <1> QED BY <1>3, <1>5, <1>6, <1>7

(***************************************************************************)
(* Type correctness.  What makes it inductive: no document holds the       *)
(* number of an operation that has not happened, and the version counts at *)
(* most the operations that no longer hold the lock.                       *)
(***************************************************************************)
SaveRecord(n) ==
  [pc : {"idle", "write", "bump"}, key : Key, sec : SUBSET Section, bytes : UpTo(n)]

LoadRecord(n) == [pc : {"idle", "read"}, doc : UpTo(n) \cup {Empty, Bad}]

OpsOK == ops \in 0..MaxOps

VersionOK == version \in Nat /\ version + (IF lock = Nobody THEN 0 ELSE 1) <= ops

LockOK ==
  lock \in Page \cup {Nobody} /\ \A p \in Page : saver[p].pc # "idle" <=> lock = p

StoreOK ==
  /\ file \in UpTo(ops) \cup {Bad} /\ cache \in UpTo(ops) \cup {Empty}
  /\ failed \in BOOLEAN
  /\ saver \in [Page -> SaveRecord(ops)]
  /\ reader \in [Page -> LoadRecord(ops)]

PageOK ==
  /\ loop \in [Page -> [pc : {"off", "hello", "gap", "wait", "send", "dead"}, ver : Value]]
  /\ shown \in [Page -> [Section -> 0..ops]]
  /\ hidden \subseteq Page
  /\ linked \in BOOLEAN

TypeInv == OpsOK /\ VersionOK /\ LockOK /\ StoreOK /\ PageOK

LEMMA TypeInvTypes == TypeInv => TypeOK
  <1> SUFFICES ASSUME TypeInv PROVE TypeOK
    OBVIOUS
  <1>1. ops \in Nat /\ MaxOps \in Nat /\ ops <= MaxOps
    BY SettingsAssumption DEF TypeInv, OpsOK
  <1>2. UpTo(ops) \subseteq Document /\ [Section -> 0..ops] \subseteq [Section -> Value]
    BY <1>1, UpToGrows DEF UpTo, Document, Value
  <1>3. version \in Value
    BY <1>1 DEF TypeInv, VersionOK, Value
  <1>4. SaveRecord(ops) \subseteq [pc : {"idle", "write", "bump"}, key : Key,
                                   sec : SUBSET Section, bytes : Document]
    BY <1>2 DEF SaveRecord
  <1>5. LoadRecord(ops) \subseteq [pc : {"idle", "read"}, doc : Document \cup {Empty, Bad}]
    BY <1>2 DEF LoadRecord
  <1>6. /\ file \in Document \cup {Bad} /\ cache \in Document \cup {Empty}
        /\ failed \in BOOLEAN
    BY <1>2 DEF TypeInv, StoreOK
  <1>7. saver \in [Page -> [pc : {"idle", "write", "bump"}, key : Key,
                            sec : SUBSET Section, bytes : Document]]
    BY <1>4 DEF TypeInv, StoreOK
  <1>8. reader \in [Page -> [pc : {"idle", "read"}, doc : Document \cup {Empty, Bad}]]
    BY <1>5 DEF TypeInv, StoreOK
  <1>9. shown \in [Page -> [Section -> Value]]
    BY <1>2 DEF TypeInv, PageOK
  <1> QED BY <1>3, <1>6, <1>7, <1>8, <1>9
          DEF TypeOK, TypeInv, OpsOK, LockOK, PageOK

LEMMA SettingsInitTypes == Init => TypeInv
  <1> SUFFICES ASSUME Init PROVE TypeInv
    OBVIOUS
  <1> USE SettingsAssumption DEF Init
  <1>0. ops = 0 /\ 0 \in Nat
    OBVIOUS
  <1>1. OpsOK /\ VersionOK
    BY DEF OpsOK, VersionOK
  <1>2. LockOK
    BY DEF LockOK, NoSave, Nobody
  <1>3. StoreOK
    <2>1. NoSave \in SaveRecord(0)
      BY Markers DEF NoSave, SaveRecord, Key
    <2>2. NoLoad \in LoadRecord(0)
      BY DEF NoLoad, LoadRecord
    <2>3. failed \in BOOLEAN
      BY Zenon
    <2> QED BY <1>0, <2>1, <2>2, <2>3, Markers DEF StoreOK
  <1>4. PageOK
    <2>1. linked \in BOOLEAN
      BY Zenon
    <2>2. loop \in [Page -> [pc : {"off", "hello", "gap", "wait", "send", "dead"}, ver : Value]]
      BY DEF Value
    <2> QED BY <1>0, <2>1, <2>2, Markers DEF PageOK
  <1> QED BY <1>1, <1>2, <1>3, <1>4 DEF TypeInv

LEMMA OpsStep ==
  ASSUME OpsOK, [Next]_vars
  PROVE  OpsOK' /\ ops \in Nat /\ ops' \in Nat /\ ops <= ops'
  BY SettingsAssumption
     DEF OpsOK, Next, vars, LinkChange, SaveBegin, Mutate, ResetNothing, Save, SaveWrite,
         SaveFails, SaveDone, Load, LoadRead, LoadStore, Serve, SettingsInit, LoopStart,
         Tick, SettingsChanged, Connect, Disconnect, GetSettings, TabVisibility, Operate,
         SettingsLost, LoopDies

\* What is loaded is a document.
LEMMA LoadedType ==
  ASSUME OpsOK, StoreOK
  PROVE  Loaded \in UpTo(ops)
  BY Markers, SettingsAssumption DEF OpsOK, StoreOK, Loaded, Parsed

LEMMA CurrentKeyType == CurrentKey \in Key
  BY DEF CurrentKey, Key

\* A save's or reset's change of the cached document.
LEMMA MutateFacts ==
  ASSUME TypeInv, NEW p \in Page, NEW sections \in SUBSET Section,
         Mutate(p, sections), ops' = ops + 1
  PROVE  LET new == Changed(Loaded, CurrentKey, sections, ops + 1)
         IN  /\ cache' = new /\ new \in UpTo(ops + 1)
             /\ saver' = [saver EXCEPT ![p] = [pc |-> "write", key |-> CurrentKey,
                                               sec |-> sections, bytes |-> new]]
             /\ \A j \in Key, s \in Section :
                  new[j][s] = IF j = CurrentKey /\ s \in sections THEN ops + 1
                              ELSE Loaded[j][s]
             /\ failed' = (failed \/ (cache = Empty /\ file = Bad))
  <1>1. Loaded \in UpTo(ops) /\ ops \in Nat
    BY LoadedType, SettingsAssumption DEF TypeInv, OpsOK
  <1>2. /\ Changed(Loaded, CurrentKey, sections, ops + 1) \in UpTo(ops + 1)
        /\ \A j \in Key, s \in Section :
             Changed(Loaded, CurrentKey, sections, ops + 1)[j][s]
               = IF j = CurrentKey /\ s \in sections THEN ops + 1 ELSE Loaded[j][s]
    BY <1>1, CurrentKeyType, ChangedType
  <1> QED BY <1>2 DEF Mutate, Changed

\* A save's or reset's record, whatever else it changes.
LEMMA SaverStep ==
  ASSUME TypeInv, [Next]_vars
  PROVE  saver' \in [Page -> SaveRecord(ops')]
  <1>a. ops \in Nat /\ ops' \in Nat /\ ops <= ops'
    BY OpsStep DEF TypeInv
  <1>b. SaveRecord(ops) \subseteq SaveRecord(ops')
    BY <1>a, UpToGrows DEF SaveRecord
  <1>c. saver \in [Page -> SaveRecord(ops')] /\ NoSave \in SaveRecord(ops')
    BY <1>a, <1>b, Markers DEF TypeInv, StoreOK, NoSave, SaveRecord, Key
  <1>1. CASE UNCHANGED saver
    BY <1>1, <1>c
  <1>2. ASSUME NEW p \in Page, NEW sections \in SUBSET Section, SaveBegin(p, sections)
        PROVE  saver' \in [Page -> SaveRecord(ops')]
    <2> DEFINE new == Changed(Loaded, CurrentKey, sections, ops + 1)
    <2>1. /\ ops' = ops + 1 /\ new \in UpTo(ops + 1)
          /\ saver' = [saver EXCEPT ![p] = [pc |-> "write", key |-> CurrentKey,
                                            sec |-> sections, bytes |-> new]]
      BY <1>2, MutateFacts DEF SaveBegin, Operate
    <2> HIDE DEF new
    <2>2. [pc |-> "write", key |-> CurrentKey, sec |-> sections, bytes |-> new]
            \in SaveRecord(ops')
      BY <2>1, CurrentKeyType DEF SaveRecord
    <2> QED BY <1>c, <2>1, <2>2
  <1>3. ASSUME NEW p \in Page, ResetNothing(p) \/ SaveWrite(p)
        PROVE  saver' \in [Page -> SaveRecord(ops')]
    <2>1. saver' = [saver EXCEPT ![p].pc = "bump"]
      BY <1>3 DEF ResetNothing, SaveWrite
    <2> QED BY <1>c, <2>1 DEF SaveRecord
  <1>4. ASSUME NEW p \in Page, SaveFails(p) \/ SaveDone(p)
        PROVE  saver' \in [Page -> SaveRecord(ops')]
    BY <1>4, <1>c DEF SaveFails, SaveDone
  <1> QED
    BY <1>1, <1>2, <1>3, <1>4
       DEF Next, vars, storeVars, LinkChange, Save, Load, LoadRead, LoadStore, Serve,
           SettingsInit, LoopStart, Tick, SettingsChanged, Connect, Disconnect,
           GetSettings, TabVisibility, SettingsLost, LoopDies

\* One save at a time, and the version it will bump is an operation of its own.
LEMMA LockStep ==
  ASSUME TypeInv, [Next]_vars
  PROVE  LockOK' /\ VersionOK'
  <1>a. /\ \A p \in Page : p # Nobody
        /\ ops \in Nat /\ ops' \in Nat /\ ops <= ops'
        /\ version \in Nat /\ version + (IF lock = Nobody THEN 0 ELSE 1) <= ops
    BY SettingsAssumption, OpsStep DEF TypeInv, Nobody, VersionOK
  <1>b. /\ lock \in Page \cup {Nobody}
        /\ \A p \in Page : saver[p].pc # "idle" <=> lock = p
        /\ saver \in [Page -> SaveRecord(ops)]
    BY DEF TypeInv, LockOK, StoreOK
  <1>1. CASE UNCHANGED <<saver, lock, version>>
    BY <1>1, <1>a, <1>b DEF LockOK, VersionOK
  <1>2. ASSUME NEW p \in Page,
               /\ lock = Nobody /\ lock' = p /\ ops' = ops + 1 /\ version' = version
               /\ \A q \in Page : saver'[q].pc # "idle" <=> q = p \/ saver[q].pc # "idle"
        PROVE  LockOK' /\ VersionOK'
    BY <1>2, <1>a, <1>b DEF LockOK, VersionOK
  <1>3. ASSUME NEW p \in Page, NEW sections \in SUBSET Section, SaveBegin(p, sections)
        PROVE  LockOK' /\ VersionOK'
    <2>1. \A q \in Page : saver'[q].pc # "idle" <=> q = p \/ saver[q].pc # "idle"
      BY <1>3, <1>b DEF SaveBegin, Mutate
    <2> QED BY <1>2, <1>3, <2>1 DEF SaveBegin, Operate
  <1>4. ASSUME NEW p \in Page, ResetNothing(p) PROVE LockOK' /\ VersionOK'
    <2>1. \A q \in Page : saver'[q].pc # "idle" <=> q = p \/ saver[q].pc # "idle"
      BY <1>4, <1>b DEF ResetNothing, SaveRecord
    <2> QED BY <1>2, <1>4, <2>1 DEF ResetNothing, Operate
  <1>5. ASSUME NEW p \in Page, SaveWrite(p) PROVE LockOK' /\ VersionOK'
    <2>1. \A q \in Page : saver'[q].pc # "idle" <=> saver[q].pc # "idle"
      BY <1>5, <1>b DEF SaveWrite, SaveRecord
    <2> QED BY <1>5, <1>a, <1>b, <2>1 DEF SaveWrite, LockOK, VersionOK
  <1>6. ASSUME NEW p \in Page, SaveFails(p) \/ SaveDone(p) PROVE LockOK' /\ VersionOK'
    <2>1. /\ lock = p /\ lock' = Nobody /\ ops' = ops
          /\ version' \in {version, version + 1}
      BY <1>6, <1>b DEF SaveFails, SaveDone
    <2>2. \A q \in Page : saver'[q].pc = "idle"
      BY <1>6, <1>b, <2>1 DEF SaveFails, SaveDone, NoSave
    <2> QED BY <1>a, <2>1, <2>2 DEF LockOK, VersionOK
  <1> QED
    BY <1>1, <1>3, <1>4, <1>5, <1>6
       DEF Next, vars, storeVars, LinkChange, Save, Load, LoadRead, LoadStore, Serve,
           SettingsInit, LoopStart, Tick, SettingsChanged, Connect, Disconnect,
           GetSettings, TabVisibility, SettingsLost, LoopDies

LEMMA StoreStep ==
  ASSUME TypeInv, [Next]_vars
  PROVE  StoreOK'
  <1> DEFINE Rest == /\ file' \in UpTo(ops') \cup {Bad}
                     /\ cache' \in UpTo(ops') \cup {Empty} /\ failed' \in BOOLEAN
                     /\ reader' \in [Page -> LoadRecord(ops')]
  <1>a. ops \in Nat /\ ops' \in Nat /\ ops <= ops' /\ UpTo(ops) \subseteq UpTo(ops')
    BY OpsStep, UpToGrows DEF TypeInv
  <1>b. LoadRecord(ops) \subseteq LoadRecord(ops')
    BY <1>a DEF LoadRecord
  <1>c. /\ file \in UpTo(ops') \cup {Bad} /\ cache \in UpTo(ops') \cup {Empty}
        /\ failed \in BOOLEAN
        /\ reader \in [Page -> LoadRecord(ops')]
    BY <1>a, <1>b DEF TypeInv, StoreOK
  <1>d. Loaded \in UpTo(ops')
    BY <1>a, LoadedType DEF TypeInv
  <1>e. \A a, b : (a \/ b) \in BOOLEAN
    BY Zenon
  <1>1. ASSUME UNCHANGED <<file, cache, failed, reader>> PROVE Rest
    BY <1>1, <1>c
  <1>2. ASSUME NEW p \in Page, NEW sections \in SUBSET Section, SaveBegin(p, sections)
        PROVE  Rest
    <2>1. /\ ops' = ops + 1 /\ cache' \in UpTo(ops + 1)
          /\ failed' = (failed \/ (cache = Empty /\ file = Bad))
      BY <1>2, MutateFacts DEF SaveBegin, Operate
    <2> QED BY <1>2, <1>c, <1>e, <2>1 DEF SaveBegin
  <1>3. ASSUME NEW p \in Page, ResetNothing(p) PROVE Rest
    BY <1>3, <1>c, <1>d, <1>e DEF ResetNothing
  <1>4. ASSUME NEW p \in Page, SaveWrite(p) PROVE Rest
    <2>1. saver[p].bytes \in UpTo(ops')
      BY <1>a DEF TypeInv, StoreOK, SaveRecord
    <2> QED BY <1>4, <1>c, <2>1 DEF SaveWrite
  <1>5. ASSUME NEW p \in Page, SaveFails(p) \/ SaveDone(p) PROVE Rest
    BY <1>5, <1>c DEF SaveFails, SaveDone
  <1>6. ASSUME NEW p \in Page, LoadRead(p) PROVE Rest
    <2>1. [pc |-> "read", doc |-> file] \in LoadRecord(ops')
      BY <1>c DEF LoadRecord
    <2> QED BY <1>6, <1>c, <2>1 DEF LoadRead, storeVars
  <1>7. ASSUME NEW p \in Page, LoadStore(p) PROVE Rest
    <2>1. reader[p].doc \in UpTo(ops) \cup {Empty, Bad}
      BY DEF TypeInv, StoreOK, LoadRecord
    <2>2. NoLoad \in LoadRecord(ops')
      BY DEF NoLoad, LoadRecord
    <2>3. failed' \in BOOLEAN
      BY <1>7, Zenon DEF LoadStore
    <2>4. Parsed(reader[p].doc) \in UpTo(ops') \cup {Empty}
      BY <1>a, <2>1, Markers DEF Parsed
    <2> QED BY <1>7, <1>c, <2>2, <2>3, <2>4 DEF LoadStore
  <1>8. Rest
    BY <1>1, <1>2, <1>3, <1>4, <1>5, <1>6, <1>7
       DEF Next, vars, storeVars, LinkChange, Save, Load, Serve, SettingsInit, LoopStart,
           Tick, SettingsChanged, Connect, Disconnect, GetSettings, TabVisibility,
           SettingsLost, LoopDies
  <1> QED BY <1>8, SaverStep DEF StoreOK

LEMMA PageStep ==
  ASSUME TypeInv, [Next]_vars
  PROVE  PageOK'
  <1> DEFINE Pcs == {"off", "hello", "gap", "wait", "send", "dead"}
             LoopTypeOK == loop \in [Page -> [pc : Pcs, ver : Value]]
             ShownTypeOK(n) == shown \in [Page -> [Section -> 0..n]]
  <1>a. /\ ops \in Nat /\ ops' \in Nat /\ ops <= ops' /\ version \in Value
        /\ [Section -> 0..ops] \subseteq [Section -> 0..ops']
    <2>1. version \in Value
      BY TypeInvTypes DEF TypeOK
    <2> QED BY <2>1, OpsStep, UpToGrows DEF TypeInv
  <1>b. LoopTypeOK /\ ShownTypeOK(ops') /\ hidden \subseteq Page /\ linked \in BOOLEAN
    BY <1>a DEF TypeInv, PageOK
  <1>1. LoopTypeOK'
    <2>1. CASE UNCHANGED loop
      BY <1>b, <2>1
    <2>2. ASSUME NEW p \in Page, NEW r \in [pc : Pcs, ver : Value],
                 loop' = [loop EXCEPT ![p] = r]
          PROVE  LoopTypeOK'
      BY <1>b, <2>2
    <2>3. ASSUME NEW p \in Page, NEW pc \in Pcs, Goto(p, pc) PROVE LoopTypeOK'
      BY <1>b, <2>3 DEF Goto
    <2>4. ASSUME NEW p \in Page,
                 Connect(p) \/ SettingsInit(p) \/ SettingsChanged(p) \/ SettingsLost(p)
                 \/ LoopDies(p)
          PROVE  LoopTypeOK'
      BY <2>3, <2>4 DEF Connect, SettingsInit, SettingsChanged, SettingsLost, LoopDies
    <2>5. ASSUME NEW p \in Page, Disconnect(p) \/ LoopStart(p) \/ Tick(p)
          PROVE  LoopTypeOK'
      <3>1. 0 \in Value
        BY SettingsAssumption DEF Value
      <3> QED BY <1>a, <2>2, <2>5, <3>1 DEF Disconnect, LoopStart, Tick
    <2> HIDE DEF LoopTypeOK
    <2> QED
      BY <2>1, <2>4, <2>5
         DEF Next, vars, LinkChange, SaveBegin, ResetNothing, Save, SaveWrite, SaveFails,
             SaveDone, Load, LoadRead, LoadStore, Serve, GetSettings, TabVisibility,
             SettingsLost, LoopDies
  <1>2. shown' \in [Page -> [Section -> 0..ops']]
    <2>1. CASE UNCHANGED shown
      BY <1>b, <2>1
    <2>2. ASSUME NEW p \in Page, Shows(p)
          PROVE  shown' \in [Page -> [Section -> 0..ops']]
      <3>1. cache \in UpTo(ops)
        BY <2>2 DEF Shows, TypeInv, StoreOK
      <3>2. cache[CurrentKey] \in [Section -> 0..ops]
        BY <3>1, CurrentKeyType DEF UpTo
      <3> QED BY <1>a, <1>b, <2>2, <3>2 DEF Shows
    <2> QED
      BY <2>1, <2>2
         DEF Next, vars, LinkChange, SaveBegin, ResetNothing, Save, SaveWrite, SaveFails,
             SaveDone, Load, LoadRead, LoadStore, Serve, SettingsInit, LoopStart, Tick,
             SettingsChanged, Connect, Disconnect, GetSettings, TabVisibility,
             SettingsLost, LoopDies
  <1>3. hidden' \subseteq Page
    BY <1>b
       DEF Next, vars, LinkChange, SaveBegin, ResetNothing, Save, SaveWrite, SaveFails,
           SaveDone, Load, LoadRead, LoadStore, Serve, SettingsInit, LoopStart, Tick,
           SettingsChanged, Connect, Disconnect, GetSettings, TabVisibility,
           SettingsLost, LoopDies
  <1>4. linked' \in BOOLEAN
    <2>1. (~linked) \in BOOLEAN
      BY Zenon
    <2> QED
      BY <1>b, <2>1
         DEF Next, vars, LinkChange, SaveBegin, ResetNothing, Save, SaveWrite, SaveFails,
             SaveDone, Load, LoadRead, LoadStore, Serve, SettingsInit, LoopStart, Tick,
             SettingsChanged, Connect, Disconnect, GetSettings, TabVisibility,
             SettingsLost, LoopDies
  <1> QED BY <1>1, <1>2, <1>3, <1>4 DEF PageOK

LEMMA SettingsTypeStep == TypeInv /\ [Next]_vars => TypeInv'
  BY OpsStep, LockStep, StoreStep, PageStep DEF TypeInv

(***************************************************************************)
(* Every reachable state of the settings store is well typed; in           *)
(* particular a save is under way if and only if its page holds the lock.  *)
(***************************************************************************)
THEOREM SettingsTypeCorrect == Spec => []TypeOK
  BY SettingsInitTypes, SettingsTypeStep, TypeInvTypes, PTL DEF Spec

(***************************************************************************)
(* What was acknowledged stays on disk.  What makes it inductive, of a     *)
(* file that parsed and loads that were not torn: the cache is at least as *)
(* new as the file, also after a save has failed; so is the document that  *)
(* waits to be written; and the file that is waiting for its version to be *)
(* bumped holds the saved sections.  Of a file that did not parse: whoever *)
(* loads it, or is about to save, has the refusal set.                     *)
(***************************************************************************)
Ahead(d, e) == \A k \in Key, s \in Section : d[k][s] >= e[k][s]

AckedOK == acked \in UpTo(ops)

BadStays ==
  corrupt => /\ file = Bad
             /\ cache # Empty => failed
             /\ \A p \in Page : reader[p].pc = "read" => reader[p].doc = Bad
             /\ \A p \in Page : saver[p].pc = "write" => failed

FileParses == ~corrupt => file # Bad

NothingLost ==
  ~corrupt /\ ~torn =>
    /\ Ahead(file, acked)
    /\ cache # Empty => Ahead(cache, file)
    /\ \A p \in Page : saver[p].pc = "write" => Ahead(saver[p].bytes, file)
    /\ \A p \in Page : saver[p].pc = "bump" =>
         \A s \in saver[p].sec : file[saver[p].key][s] = saver[p].bytes[saver[p].key][s]

IdleSavesNothing == \A p \in Page : saver[p].pc = "idle" => saver[p].sec = {}

StayInv ==
  TypeInv /\ AckedOK /\ BadStays /\ FileParses /\ NothingLost /\ IdleSavesNothing

LEMMA StayInit == MCInit => StayInv
  <1> SUFFICES ASSUME MCInit PROVE StayInv
    OBVIOUS
  <1>1. TypeInv
    BY SettingsInitTypes DEF MCInit
  <1>2. ops = 0 /\ acked = Blank /\ cache = Empty /\ corrupt = (file = Bad)
        /\ file \in {Blank, Bad}
        /\ \A p \in Page : /\ saver[p].pc = "idle" /\ saver[p].sec = {}
                            /\ reader[p].pc = "idle"
    BY DEF MCInit, Init, NoSave, NoLoad
  <1>3. AckedOK
    BY <1>2, Markers DEF AckedOK
  <1>4. BadStays /\ FileParses
    BY <1>2 DEF BadStays, FileParses
  <1>5. Ahead(Blank, Blank)
    BY DEF Ahead, Blank, Nothing
  <1>6. NothingLost
    BY <1>2, <1>5 DEF NothingLost
  <1> QED BY <1>1, <1>2, <1>3, <1>4, <1>6 DEF StayInv, IdleSavesNothing

\* Only the end of a save acknowledges it.
LEMMA OnlyDoneAcks ==
  ASSUME TypeInv, [Next]_vars, NEW p \in Page, Acknowledged(p)
  PROVE  SaveDone(p)
  <1>a. saver \in [Page -> SaveRecord(ops)]
    BY DEF TypeInv, StoreOK
  <1>1. CASE UNCHANGED saver
    BY <1>1 DEF Acknowledged
  <1>2. ASSUME NEW q \in Page, NEW sections \in SUBSET Section, SaveBegin(q, sections)
        PROVE  FALSE
    BY <1>2, <1>a DEF SaveBegin, Mutate, Acknowledged
  <1>3. ASSUME NEW q \in Page, ResetNothing(q) PROVE FALSE
    BY <1>3, <1>a DEF ResetNothing, Acknowledged, SaveRecord
  <1>4. ASSUME NEW q \in Page, SaveWrite(q) PROVE FALSE
    BY <1>4, <1>a DEF SaveWrite, Acknowledged, SaveRecord
  <1>5. ASSUME NEW q \in Page, SaveFails(q) PROVE FALSE
    BY <1>5, <1>a DEF SaveFails, Acknowledged
  <1>6. ASSUME NEW q \in Page, SaveDone(q) PROVE p = q
    BY <1>6, <1>a DEF SaveDone, Acknowledged
  <1> QED
    BY <1>1, <1>2, <1>3, <1>4, <1>5, <1>6
       DEF Next, vars, storeVars, LinkChange, Save, Load, LoadRead, LoadStore, Serve,
           SettingsInit, LoopStart, Tick, SettingsChanged, Connect, Disconnect,
           GetSettings, TabVisibility, SettingsLost, LoopDies

\* The history of acknowledgements, one save at a time.
AckStep ==
  acked' = [k \in Key |-> [s \in Section |->
       IF \E p \in Page : Acknowledged(p) /\ saver[p].key = k /\ s \in saver[p].sec
       THEN (CHOOSE n \in {saver[p].bytes[k][s] : p \in {q \in Page : Acknowledged(q)}} : TRUE)
       ELSE acked[k][s]]]

LEMMA NoAck ==
  ASSUME AckedOK, AckStep, \A p \in Page : ~Acknowledged(p)
  PROVE  acked' = acked
  <1>1. acked' = [k \in Key |-> [s \in Section |-> acked[k][s]]]
    BY DEF AckStep
  <1>2. \A k \in Key : acked[k] = [s \in Section |-> acked[k][s]]
    BY DEF AckedOK, UpTo
  <1>3. acked = [k \in Key |-> acked[k]]
    BY DEF AckedOK, UpTo
  <1> QED BY <1>1, <1>2, <1>3

LEMMA OneAck ==
  ASSUME TypeInv, AckStep, NEW p \in Page, SaveDone(p)
  PROVE  \A k \in Key, s \in Section :
           acked'[k][s] = IF saver[p].key = k /\ s \in saver[p].sec
                          THEN saver[p].bytes[k][s] ELSE acked[k][s]
  <1>1. \A q \in Page : Acknowledged(q) <=> q = p
    <2>1. saver \in [Page -> SaveRecord(ops)]
      BY DEF TypeInv, StoreOK
    <2> QED BY <2>1 DEF SaveDone, Acknowledged, NoSave
  <1>2. {q \in Page : Acknowledged(q)} = {p}
    BY <1>1
  <1> SUFFICES ASSUME NEW k \in Key, NEW s \in Section
               PROVE  acked'[k][s] = IF saver[p].key = k /\ s \in saver[p].sec
                                     THEN saver[p].bytes[k][s] ELSE acked[k][s]
    OBVIOUS
  <1>3. {saver[q].bytes[k][s] : q \in {r \in Page : Acknowledged(r)}}
          = {saver[p].bytes[k][s]}
    BY <1>2
  <1>4. (CHOOSE n \in {saver[p].bytes[k][s]} : TRUE) = saver[p].bytes[k][s]
    OBVIOUS
  <1>5. (\E q \in Page : Acknowledged(q) /\ saver[q].key = k /\ s \in saver[q].sec)
          <=> saver[p].key = k /\ s \in saver[p].sec
    BY <1>1
  <1> QED BY <1>3, <1>4, <1>5 DEF AckStep

LEMMA AckedStep ==
  ASSUME StayInv, [Next]_vars, AckStep
  PROVE  AckedOK'
  <1>a. ops \in Nat /\ ops' \in Nat /\ ops <= ops' /\ UpTo(ops) \subseteq UpTo(ops')
    BY OpsStep, UpToGrows DEF StayInv, TypeInv
  <1>1. CASE \A p \in Page : ~Acknowledged(p)
    BY <1>1, <1>a, NoAck DEF StayInv, AckedOK
  <1>2. ASSUME NEW p \in Page, Acknowledged(p) PROVE AckedOK'
    <2>1. SaveDone(p)
      BY <1>2, OnlyDoneAcks DEF StayInv
    <2>2. saver[p].bytes \in UpTo(ops) /\ acked \in UpTo(ops)
      BY DEF StayInv, TypeInv, StoreOK, SaveRecord, AckedOK
    <2>3. \A k \in Key, s \in Section : acked'[k][s] \in 0..ops
      BY <2>1, <2>2, OneAck DEF StayInv, UpTo
    <2>4. acked' \in [Key -> [Section -> 0..ops]]
      <3> DEFINE V(k, s) ==
            IF \E q \in Page : Acknowledged(q) /\ saver[q].key = k /\ s \in saver[q].sec
            THEN (CHOOSE n \in {saver[q].bytes[k][s] : q \in {r \in Page : Acknowledged(r)}} : TRUE)
            ELSE acked[k][s]
      <3>1. acked' = [k \in Key |-> [s \in Section |-> V(k, s)]]
        BY DEF AckStep
      <3> HIDE DEF V
      <3>2. \A k \in Key, s \in Section : acked'[k][s] = V(k, s)
        BY <3>1
      <3> QED BY <2>3, <3>1, <3>2
    <2> QED BY <1>a, <2>4 DEF AckedOK, UpTo
  <1> QED BY <1>1, <1>2

\* A newer document stays newer.
LEMMA Numbers ==
  ASSUME TypeInv, NEW d \in UpTo(ops)
  PROVE  \A k \in Key, s \in Section : d[k][s] \in Nat /\ d[k][s] <= ops
  BY SettingsAssumption DEF TypeInv, OpsOK, UpTo

\* Steps of the store that leave the acknowledgements alone.
LEMMA BeginStays ==
  ASSUME StayInv, NEW p \in Page, NEW sections \in SUBSET Section,
         SaveBegin(p, sections), UNCHANGED <<acked, corrupt>>, torn' \/ ~torn
  PROVE  BadStays' /\ FileParses' /\ NothingLost'
  <1> DEFINE new == Changed(Loaded, CurrentKey, sections, ops + 1)
  <1>1. /\ cache' = new /\ new \in UpTo(ops + 1) /\ ops \in Nat
        /\ saver' = [saver EXCEPT ![p] = [pc |-> "write", key |-> CurrentKey,
                                          sec |-> sections, bytes |-> new]]
        /\ \A j \in Key, s \in Section :
             new[j][s] = IF j = CurrentKey /\ s \in sections THEN ops + 1 ELSE Loaded[j][s]
        /\ failed' = (failed \/ (cache = Empty /\ file = Bad))
        /\ UNCHANGED <<file, reader>>
    BY MutateFacts, SettingsAssumption DEF StayInv, TypeInv, OpsOK, SaveBegin, Operate
  <1> HIDE DEF new
  <1>2. /\ saver \in [Page -> SaveRecord(ops)]
        /\ \A q \in Page : saver'[q] = IF q = p
             THEN [pc |-> "write", key |-> CurrentKey, sec |-> sections, bytes |-> new]
             ELSE saver[q]
    BY <1>1 DEF StayInv, TypeInv, StoreOK
  <1>3. BadStays' /\ FileParses'
    BY <1>1, <1>2 DEF StayInv, BadStays, FileParses
  <1>4. NothingLost'
    <2> SUFFICES ASSUME ~corrupt, ~torn
                 PROVE  /\ Ahead(file, acked) /\ Ahead(new, file)
                        /\ \A q \in Page : saver[q].pc = "write" => Ahead(saver[q].bytes, file)
                        /\ \A q \in Page : saver[q].pc = "bump" =>
                             \A s \in saver[q].sec :
                               file[saver[q].key][s] = saver[q].bytes[saver[q].key][s]
      BY <1>1, <1>2 DEF NothingLost, Ahead
    <2>1. /\ Ahead(file, acked) /\ file # Bad
          /\ cache # Empty => Ahead(cache, file)
          /\ \A q \in Page : saver[q].pc = "write" => Ahead(saver[q].bytes, file)
          /\ \A q \in Page : saver[q].pc = "bump" =>
               \A s \in saver[q].sec :
                 file[saver[q].key][s] = saver[q].bytes[saver[q].key][s]
      BY DEF StayInv, NothingLost, FileParses
    <2>2. file \in UpTo(ops)
      BY <2>1 DEF StayInv, TypeInv, StoreOK
    <2>3. \A k \in Key, s \in Section : file[k][s] \in Nat /\ file[k][s] <= ops
      BY <2>2, Numbers DEF StayInv
    <2>4. Ahead(Loaded, file)
      BY <2>1, <2>3 DEF Loaded, Parsed, Ahead
    <2>5. Ahead(new, file)
      BY <1>1, <2>3, <2>4 DEF Ahead
    <2> QED BY <2>1, <2>5
  <1> QED BY <1>3, <1>4

LEMMA ResetStays ==
  ASSUME StayInv, NEW p \in Page, ResetNothing(p), UNCHANGED <<acked, corrupt>>,
         torn' \/ ~torn
  PROVE  BadStays' /\ FileParses' /\ NothingLost'
  <1>1. /\ UNCHANGED <<file, reader>> /\ cache' = Loaded
        /\ failed' = (failed \/ (cache = Empty /\ file = Bad))
        /\ saver' = [saver EXCEPT ![p].pc = "bump"] /\ saver[p].pc = "idle"
        /\ \A q \in Page : saver[q].pc = "idle"
    BY SettingsAssumption DEF ResetNothing, StayInv, TypeInv, LockOK, Nobody
  <1>2. \A q \in Page : saver'[q].pc # "write" /\ saver'[q].sec = {}
    BY <1>1 DEF StayInv, TypeInv, StoreOK, SaveRecord, IdleSavesNothing
  <1>3. BadStays' /\ FileParses'
    BY <1>1, <1>2 DEF StayInv, BadStays, FileParses
  <1>4. NothingLost'
    <2> SUFFICES ASSUME ~corrupt, ~torn
                 PROVE  Ahead(file, acked) /\ Ahead(Loaded, file)
      BY <1>1, <1>2 DEF NothingLost, Ahead
    <2>1. /\ Ahead(file, acked) /\ file # Bad
          /\ cache # Empty => Ahead(cache, file)
      BY DEF StayInv, NothingLost, FileParses
    <2>2. \A k \in Key, s \in Section : file[k][s] \in Nat
      BY <2>1, Numbers DEF StayInv, TypeInv, StoreOK
    <2> QED BY <2>1, <2>2 DEF Loaded, Parsed, Ahead
  <1> QED BY <1>3, <1>4

LEMMA WriteStays ==
  ASSUME StayInv, NEW p \in Page, SaveWrite(p), UNCHANGED <<acked, corrupt>>,
         torn' \/ ~torn
  PROVE  BadStays' /\ FileParses' /\ NothingLost'
  <1>1. /\ UNCHANGED <<failed, reader>> /\ file' = saver[p].bytes /\ cache' = saver[p].bytes
        /\ saver' = [saver EXCEPT ![p].pc = "bump"] /\ saver[p].pc = "write"
        /\ ~(failed /\ file = Bad)
        /\ \A q \in Page : q # p => saver[q].pc = "idle"
    BY DEF SaveWrite, StayInv, TypeInv, LockOK
  <1>2. /\ saver \in [Page -> SaveRecord(ops)] /\ saver[p].bytes \in UpTo(ops)
        /\ ops \in Nat
    BY SettingsAssumption DEF StayInv, TypeInv, StoreOK, SaveRecord, OpsOK
  <1>3. /\ saver'[p].pc = "bump" /\ saver'[p].sec = saver[p].sec
        /\ saver'[p].key = saver[p].key /\ saver'[p].bytes = saver[p].bytes
        /\ \A q \in Page : q # p => saver'[q] = saver[q]
    BY <1>1, <1>2 DEF SaveRecord
  <1>4. ~corrupt
    BY <1>1 DEF StayInv, BadStays
  <1>5. FileParses'
    BY <1>1, <1>2, Markers DEF FileParses
  <1>6. NothingLost'
    <2> SUFFICES ASSUME ~torn
                 PROVE  Ahead(saver[p].bytes, acked) /\ Ahead(saver[p].bytes, saver[p].bytes)
      BY <1>1, <1>3 DEF NothingLost, Ahead
    <2>1. Ahead(file, acked) /\ Ahead(saver[p].bytes, file) /\ file \in UpTo(ops)
      BY <1>1, <1>4 DEF StayInv, NothingLost, FileParses, TypeInv, StoreOK
    <2>2. \A k \in Key, s \in Section :
            file[k][s] \in Nat /\ saver[p].bytes[k][s] \in Nat /\ acked[k][s] \in Nat
      BY <1>2, <2>1, Numbers DEF StayInv, AckedOK
    <2> QED BY <2>1, <2>2 DEF Ahead
  <1> QED BY <1>1, <1>4, <1>5, <1>6 DEF BadStays

LEMMA FailStays ==
  ASSUME StayInv, NEW p \in Page, SaveFails(p), UNCHANGED <<acked, corrupt>>,
         torn' \/ ~torn
  PROVE  BadStays' /\ FileParses' /\ NothingLost'
  <1>1. /\ UNCHANGED <<file, cache, failed, reader>>
        /\ \A q \in Page : saver'[q] = saver[q]
                           \/ (saver'[q].pc \notin {"write", "bump"})
    BY DEF SaveFails, StayInv, TypeInv, StoreOK, NoSave
  <1>2. BadStays' /\ FileParses'
    BY <1>1 DEF StayInv, BadStays, FileParses
  <1>3. NothingLost'
    BY <1>1 DEF StayInv, NothingLost, Ahead
  <1> QED BY <1>2, <1>3

\* The acknowledgement: what it promises is what the file holds.
LEMMA DoneStays ==
  ASSUME StayInv, NEW p \in Page, SaveDone(p), AckStep, UNCHANGED corrupt,
         torn' \/ ~torn
  PROVE  BadStays' /\ FileParses' /\ NothingLost'
  <1>1. /\ UNCHANGED <<file, cache, failed, reader>> /\ saver[p].pc = "bump"
        /\ \A q \in Page : saver'[q] = saver[q]
                           \/ (saver'[q].pc \notin {"write", "bump"})
    BY DEF SaveDone, StayInv, TypeInv, StoreOK, NoSave
  <1>2. BadStays' /\ FileParses'
    BY <1>1 DEF StayInv, BadStays, FileParses
  <1>3. ASSUME ~corrupt, ~torn PROVE Ahead(file, acked')
    <2>1. /\ Ahead(file, acked) /\ file \in UpTo(ops)
          /\ \A s \in saver[p].sec :
               file[saver[p].key][s] = saver[p].bytes[saver[p].key][s]
      BY <1>1, <1>3 DEF StayInv, NothingLost, FileParses, TypeInv, StoreOK
    <2>2. \A k \in Key, s \in Section : file[k][s] \in Nat
      BY <2>1, Numbers DEF StayInv
    <2>3. \A k \in Key, s \in Section :
            acked'[k][s] = IF saver[p].key = k /\ s \in saver[p].sec
                           THEN saver[p].bytes[k][s] ELSE acked[k][s]
      BY OneAck DEF StayInv
    <2> QED BY <2>1, <2>2, <2>3 DEF Ahead
  <1>4. NothingLost'
    <2>1. ASSUME ~corrupt, ~torn
          PROVE  /\ cache # Empty => Ahead(cache, file)
                 /\ \A q \in Page : saver'[q].pc = "write" => Ahead(saver'[q].bytes, file)
                 /\ \A q \in Page : saver'[q].pc = "bump" =>
                      \A s \in saver'[q].sec :
                        file[saver'[q].key][s] = saver'[q].bytes[saver'[q].key][s]
      BY <1>1, <2>1 DEF StayInv, NothingLost
    <2> QED BY <1>1, <1>3, <2>1 DEF NothingLost, Ahead
  <1> QED BY <1>2, <1>4

\* A load that is not torn sets the cache to what the file is.
LEMMA LoadStays ==
  ASSUME StayInv, NEW p \in Page, LoadRead(p) \/ LoadStore(p), UNCHANGED <<acked, corrupt>>,
         torn' = (torn \/ \E q \in Page : /\ reader[q].pc = "read" /\ reader'[q].pc = "idle"
                                          /\ reader[q].doc # file)
  PROVE  BadStays' /\ FileParses' /\ NothingLost'
  <1>a. UNCHANGED <<file, saver>> /\ reader \in [Page -> LoadRecord(ops)]
    BY DEF LoadRead, LoadStore, storeVars, StayInv, TypeInv, StoreOK
  <1>b. FileParses'
    BY <1>a DEF StayInv, FileParses
  <1>1. CASE LoadRead(p)
    <2>1. /\ UNCHANGED <<cache, failed>>
          /\ \A q \in Page : reader'[q] = IF q = p THEN [pc |-> "read", doc |-> file]
                                          ELSE reader[q]
      BY <1>1, <1>a DEF LoadRead, storeVars
    <2>2. BadStays'
      BY <1>a, <2>1 DEF StayInv, BadStays
    <2>3. torn => torn'
      OBVIOUS
    <2>4. NothingLost'
      BY <1>a, <2>1, <2>3 DEF StayInv, NothingLost, Ahead
    <2> QED BY <1>b, <2>2, <2>4
  <1>2. CASE LoadStore(p)
    <2>1. /\ cache' = Parsed(reader[p].doc) /\ (failed' <=> reader[p].doc = Bad)
          /\ reader[p].pc = "read"
          /\ \A q \in Page : reader'[q] = IF q = p THEN NoLoad ELSE reader[q]
      BY <1>2, <1>a DEF LoadStore
    <2>2. BadStays'
      BY <1>a, <2>1 DEF StayInv, BadStays, NoLoad
    <2>3. ASSUME ~corrupt, ~torn' PROVE cache' = file /\ ~torn
      <3>1. reader'[p].pc = "idle" /\ p \in Page
        BY <2>1 DEF NoLoad
      <3>2. ~torn /\ ~(\E q \in Page : /\ reader[q].pc = "read" /\ reader'[q].pc = "idle"
                                      /\ reader[q].doc # file)
        BY <2>3, Zenon
      <3>3. reader[p].doc = file
        BY <2>1, <3>1, <3>2
      <3> QED BY <2>1, <2>3, <3>2, <3>3 DEF Parsed, StayInv, FileParses
    <2>4. ASSUME ~corrupt PROVE Ahead(file, file)
      <3>1. file \in UpTo(ops)
        BY <2>4 DEF StayInv, FileParses, TypeInv, StoreOK
      <3> QED BY <3>1, Numbers DEF StayInv, Ahead
    <2>5. NothingLost'
      BY <1>a, <2>3, <2>4 DEF StayInv, NothingLost, Ahead
    <2> QED BY <1>b, <2>2, <2>5
  <1> QED BY <1>1, <1>2

\* Steps of the pages and of the link leave the store alone.
LEMMA ElsewhereStays ==
  ASSUME StayInv, UNCHANGED <<file, cache, failed, saver, reader, acked, corrupt>>,
         torn' \/ ~torn
  PROVE  BadStays' /\ FileParses' /\ NothingLost'
  <1>1. BadStays' /\ FileParses'
    BY DEF StayInv, BadStays, FileParses
  <1>2. NothingLost'
    BY DEF StayInv, NothingLost, Ahead
  <1> QED BY <1>1, <1>2

LEMMA IdleStep ==
  ASSUME StayInv, [Next]_vars
  PROVE  IdleSavesNothing'
  <1>a. saver \in [Page -> SaveRecord(ops)] /\ IdleSavesNothing
    BY DEF StayInv, TypeInv, StoreOK
  <1>1. CASE UNCHANGED saver
    BY <1>1, <1>a DEF IdleSavesNothing
  <1>2. ASSUME NEW p \in Page, NEW sections \in SUBSET Section, SaveBegin(p, sections)
        PROVE  IdleSavesNothing'
    BY <1>2, <1>a DEF SaveBegin, Mutate, IdleSavesNothing
  <1>3. ASSUME NEW p \in Page, ResetNothing(p) \/ SaveWrite(p)
        PROVE  IdleSavesNothing'
    BY <1>3, <1>a DEF ResetNothing, SaveWrite, IdleSavesNothing, SaveRecord
  <1>4. ASSUME NEW p \in Page, SaveFails(p) \/ SaveDone(p)
        PROVE  IdleSavesNothing'
    BY <1>4, <1>a DEF SaveFails, SaveDone, IdleSavesNothing, NoSave
  <1> QED
    BY <1>1, <1>2, <1>3, <1>4
       DEF Next, vars, storeVars, LinkChange, Save, Load, LoadRead, LoadStore, Serve,
           SettingsInit, LoopStart, Tick, SettingsChanged, Connect, Disconnect,
           GetSettings, TabVisibility, SettingsLost, LoopDies

LEMMA StayStep ==
  ASSUME StayInv, [MCNext]_mcVars
  PROVE  StayInv'
  <1> DEFINE Stays == BadStays' /\ FileParses' /\ NothingLost'
             TornStep == torn' = (torn \/ \E q \in Page :
                                    /\ reader[q].pc = "read" /\ reader'[q].pc = "idle"
                                    /\ reader[q].doc # file)
  <1>1. CASE UNCHANGED mcVars
    <2>1. UNCHANGED vars /\ UNCHANGED <<file, cache, failed, saver, reader, acked, corrupt,
                                        torn, ops>>
      BY <1>1 DEF mcVars, vars, storeVars
    <2>2. TypeInv'
      BY <2>1, SettingsTypeStep DEF StayInv
    <2>3. Stays /\ AckedOK' /\ IdleSavesNothing'
      BY <2>1, ElsewhereStays DEF StayInv, AckedOK, IdleSavesNothing
    <2> QED BY <2>2, <2>3 DEF StayInv
  <1>2. CASE MCNext
    <2>a. Next /\ AckStep /\ UNCHANGED corrupt /\ TornStep
      BY <1>2 DEF MCNext, AckStep
    <2>b. TypeInv' /\ AckedOK' /\ IdleSavesNothing'
      BY <2>a, SettingsTypeStep, AckedStep, IdleStep DEF StayInv
    <2>c. torn' \/ ~torn
      BY <2>a, Zenon
    <2>1. CASE \E p \in Page : SaveDone(p)
      BY <2>1, <2>a, <2>b, <2>c, DoneStays DEF StayInv
    <2>2. CASE ~(\E p \in Page : SaveDone(p))
      <3>1. \A p \in Page : ~Acknowledged(p)
        BY <2>2, <2>a, OnlyDoneAcks DEF StayInv
      <3>2. acked' = acked
        BY <2>a, <3>1, NoAck DEF StayInv
      <3>3. ASSUME NEW p \in Page, NEW sections \in SUBSET Section, SaveBegin(p, sections)
            PROVE  Stays
        BY <2>a, <2>c, <3>2, <3>3, BeginStays
      <3>4. ASSUME NEW p \in Page, ResetNothing(p) PROVE Stays
        BY <2>a, <2>c, <3>2, <3>4, ResetStays
      <3>5. ASSUME NEW p \in Page, SaveWrite(p) PROVE Stays
        BY <2>a, <2>c, <3>2, <3>5, WriteStays
      <3>6. ASSUME NEW p \in Page, SaveFails(p) PROVE Stays
        BY <2>a, <2>c, <3>2, <3>6, FailStays
      <3>7. ASSUME NEW p \in Page, LoadRead(p) \/ LoadStore(p) PROVE Stays
        BY <2>a, <3>2, <3>7, LoadStays
      <3>8. ASSUME UNCHANGED <<file, cache, failed, saver, reader>> PROVE Stays
        BY <2>a, <2>c, <3>2, <3>8, ElsewhereStays
      <3> HIDE DEF Stays
      <3>9. Stays
        BY <2>a, <2>2, <3>3, <3>4, <3>5, <3>6, <3>7, <3>8
           DEF Next, storeVars, LinkChange, Save, Load, Serve, SettingsInit, LoopStart,
               Tick, SettingsChanged, Connect, Disconnect, GetSettings, TabVisibility,
               SettingsLost, LoopDies
      <3> QED BY <2>b, <3>9 DEF StayInv, Stays
    <2> QED BY <2>1, <2>2
  <1> QED BY <1>1, <1>2

(***************************************************************************)
(* What was acknowledged is on disk until something later is written       *)
(* there, and a file that did not parse is never replaced, for every       *)
(* number of pages, sections and operations; only a torn first load is     *)
(* excused.                                                                *)
(***************************************************************************)
THEOREM AcknowledgedStays == MCSpec => []SavesStay
  <1>1. StayInv /\ [MCNext]_mcVars => StayInv'
    BY StayStep
  <1>2. StayInv => SavesStay
    BY DEF StayInv, BadStays, NothingLost, Ahead, SavesStay
  <1> QED BY StayInit, <1>1, <1>2, PTL DEF MCSpec
=============================================================================
