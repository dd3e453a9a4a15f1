------------------------------ MODULE MCSettings ------------------------------
(***************************************************************************)
(* TLC instance of SettingsSync with history variables about what was      *)
(* acknowledged and what went wrong.                                       *)
(***************************************************************************)
EXTENDS SettingsSync

VARIABLES
  acked,   \* the last operation that was acknowledged, per key and section
  corrupt, \* the file did not parse at the start
  torn,    \* the first load set a cache that was out of date
  lost,    \* a save failed
  early,   \* pages whose handshake another save, or the link, overtook
  unsent   \* pages that lost a settings_changed, and were sent none since

mcVars == <<vars, acked, corrupt, torn, lost, early, unsent>>

MCInit ==
  /\ Init
  /\ acked = Blank /\ corrupt = (file = Bad) /\ torn = FALSE /\ lost = FALSE /\ early = {}
  /\ unsent = {}

Acknowledged(p) == saver[p].pc = "bump" /\ saver'[p].pc = "idle"

MCNext ==
  /\ Next
  /\ acked' = [k \in Key |-> [s \in Section |->
       IF \E p \in Page : Acknowledged(p) /\ saver[p].key = k /\ s \in saver[p].sec
       THEN (CHOOSE n \in {saver[p].bytes[k][s] : p \in {q \in Page : Acknowledged(q)}} : TRUE)
       ELSE acked[k][s]]]
  /\ UNCHANGED corrupt
  /\ torn' = (torn \/ \E p \in Page : /\ reader[p].pc = "read" /\ reader'[p].pc = "idle"
                                      /\ reader[p].doc # file)
  /\ lost' = (lost \/ \E p \in Page : saver[p].pc = "write" /\ saver'[p].pc = "idle")
  /\ early' = {p \in Page :
       /\ loop'[p].pc # "off"
       /\ p \in early \/ linked' # linked \/ (loop[p].pc = "gap" /\ version' # version)}
  /\ unsent' = (unsent \cup {p \in Page : SettingsLost(p)})
                 \ {p \in Page : SettingsInit(p) \/ SettingsChanged(p) \/ GetSettings(p)}

MCSpec == MCInit /\ [][MCNext]_mcVars /\ Fairness

\* settings_store.py, "serializes RMW from BOTH the WS save path and the REST
\* save/reset routes", and "parse-failure refuse-to-clobber guard": what was
\* acknowledged is on disk until something later is written there, and a file
\* that did not parse is never replaced.  (A torn first load is excused.)
SavesStay ==
  ~torn => IF corrupt THEN file = Bad
           ELSE \A k \in Key, s \in Section : file[k][s] >= acked[k][s]

Watching(p) == loop[p].pc = "wait" /\ p \notin hidden /\ linked

\* README.md, "Settings are server-authoritative and sync across all connected
\* clients in real time": every page comes to show what was saved last, whoever
\* saved it, hid or reconnected, if nothing overtook its own handshake, no frame
\* to it was lost, its status_loop has not ended and no save failed.
PagesCatchUp ==
  \A p \in Page :
    <>[](Watching(p) /\ p \notin early \cup unsent /\ ~torn /\ ~lost /\ ~corrupt
           => shown[p] = file[CurrentKey])
=============================================================================
