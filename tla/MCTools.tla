------------------------------- MODULE MCTools -------------------------------
(***************************************************************************)
(* TLC instance of ToolTables with history variables: the files as the     *)
(* acknowledged edits, done one at a time, would have left them, and what  *)
(* came between.                                                           *)
(***************************************************************************)
EXTENDS ToolTables

VARIABLES
  expected, \* [table, meta]
  mixed,    \* LinuxCNC wrote its table during an edit, or before it had loaded one
  measured, \* LinuxCNC wrote its table
  broken,   \* an edit failed halfway
  untold,   \* LinuxCNC has not been told of a table that was written: no link, or a failure
  strayed,  \* a command loaded or saved metadata while there was no link
  gaveUp,   \* pages whose last get_tool_table failed
  lost      \* clients a tool_meta was lost for

exceptions == <<mixed, measured, broken, untold, strayed, gaveUp, lost>>
mcVars == <<vars, expected, exceptions>>

MCInit ==
  /\ Init
  /\ expected = [table |-> tbl, meta |-> lib["ini"]]
  /\ mixed = FALSE /\ measured = FALSE /\ broken = FALSE
  /\ untold = FALSE /\ strayed = FALSE /\ gaveUp = {} /\ lost = {}

\* A command is past the point at which LinuxCNC is told.
Bumps == \E c \in Client : op[c].pc = "reload" /\ op'[c].pc # "reload"

\* An edit on top of the edits before it, and a measurement of one tool.
AfterEdit(o) ==
  IF o.kind = "import" THEN [table |-> Parsed(o), meta |-> Parsed(o)]
  ELSE [table |-> Edited([o EXCEPT !.table = expected.table]), meta |-> Described(o, expected.meta)]

AfterMeasure ==
  [expected EXCEPT !.table =
     [t \in Tool |-> IF lcnc'[t] # lcnc[t] THEN lcnc'[t] ELSE expected.table[t]]]

MCNext ==
  /\ Next
  /\ expected' = IF \E c \in Client : SaveLibrary(c)
                   THEN AfterEdit(op[CHOOSE c \in Client : SaveLibrary(c)])
                   ELSE IF LcncMeasures THEN AfterMeasure ELSE expected
  /\ mixed' = (mixed \/ (LcncMeasures /\ (loading \/ untold \/ lock # Nobody)))
  /\ measured' = (measured \/ LcncMeasures)
  /\ broken' = (broken \/ \E c \in Client : /\ Fails(c) /\ op[c].kind # "get"
                                            /\ op[c].pc \in {"reload", "library", "save"})
  /\ untold' = IF Bumps THEN ~linked \/ \E c \in Client : Fails(c)
               ELSE untold /\ ~(LcncLoads \/ LcncMeasures \/ LcncRestarts)
  /\ strayed' = (strayed \/ (~linked /\ \E c \in Client : LoadLibrary(c) \/ SaveLibrary(c)))
  /\ gaveUp' = (gaveUp \cup {c \in Client : Fails(c) /\ op[c].kind = "get"})
                 \ {c \in Client : Reply(c)}
  /\ lost' = lost \cup {c \in Client : MetaFails(c)}

MCSpec == MCInit /\ [][MCNext]_mcVars /\ Fairness

\* _reload_tool_table_and_bump, "Reload tool.tbl into LinuxCNC": LinuxCNC works
\* with the table in the file, whenever no command is under way and it has done
\* what it was told to; except after a write it was not told of, until it next
\* loads or writes the file.
LcncAgrees == Quiet /\ ~loading /\ ~untold => lcnc = tbl

\* _persist_imported_tools, "Serialized under _cmd_lock": what the edits and
\* imports of all clients, and LinuxCNC's measurements, leave in the two files is
\* what doing them one after the other leaves there; none is lost or half done.
EditsStay ==
  Quiet /\ ~mixed /\ ~broken /\ ~strayed => tbl = expected.table /\ lib["ini"] = expected.meta

\* gateway.py, of _reload_tool_table_and_bump, "so a remote edit propagates
\* within one tick instead of waiting for manual refresh": every page comes to
\* show the table and the metadata as they are in the files, if its loop sends to
\* it and its fetch does not fail.
PagesCatchUp ==
  \A c \in Client :
    <>[](linked /\ c \notin mute \cup gaveUp /\ ~measured /\ ~broken /\ ~strayed =>
           page[c] = [table |-> tbl,
                      meta |-> [t \in Tool |-> IF tbl[t] = 0 THEN 0 ELSE lib["ini"][t]]])

\* "Inject tool_meta on tool_number change": a tool with metadata that comes into
\* the spindle is shown with its metadata in the 3D view of every client, unless
\* the one frame that brings it is lost or is not due while there is no link.
\* Stated of one client: clients are interchangeable.
MetaFollowsTool ==
  LET c == CHOOSE c \in Client : TRUE IN
  \A t \in Tool :
    (spindle = t /\ loop[c].tool # t /\ lib["ini"][t] # 0) ~>
      \/ views[c][t] = lib["ini"][t]
      \/ spindle # t \/ broken \/ ~linked \/ c \in mute \cup lost
=============================================================================
