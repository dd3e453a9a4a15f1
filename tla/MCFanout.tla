------------------------------- MODULE MCFanout -------------------------------
(***************************************************************************)
(* TLC instance of StatusFanout with two history variables.                *)
(***************************************************************************)
EXTENDS StatusFanout

VARIABLES
  torn,   \* clients that lost a frame since their last full one
  missed  \* clients that had a machine's viewer_init when the gateway attached to
          \* another LinuxCNC, and have not noticed

mcVars == <<vars, torn, missed>>

MCInit == Init /\ torn = {} /\ missed = {}

Raised(c) == loop[c].pc = "send" /\ loop'[c].fails > loop[c].fails

GotFull(c) == loop[c].pc = "send" /\ loop[c].frame.full /\ loop'[c].fails = 0

MCNext ==
  /\ Next
  /\ torn' = {c \in Client : loop'[c].pc # "off" /\ (Raised(c) \/ (c \in torn /\ ~GotFull(c)))}
  /\ missed' = {c \in Client :
       /\ loop'[c].init \/ loop'[c].pc = "init"
       /\ \/ c \in missed
          \/ stat' \notin {0, stat} /\ (config[c] # 0 \/ loop[c].pc = "init")}

MCSpec == MCInit /\ [][MCNext]_mcVars /\ Fairness

\* diff_status_data and the baseline of status_loop: between two frames the page
\* shows exactly what the gateway takes it to show, whatever ticks were skipped
\* for a hidden tab or a slow send, unless an exception lost a frame since the
\* last full one.
MirrorExact ==
  \A c \in Connected \ (closing \cup torn) :
    loop[c].pc \in {"wait", "init"} /\ loop[c].base # Unknown => page[c] = loop[c].base

Follows(c) ==
  linked /\ stat = instance /\ loop[c].pc \notin {"off", "dead"} /\ c \notin hidden \cup closing

\* lcncWs.ts, "Server forces a full snapshot every N cycles and on reconnect, so
\* any drift self-heals": a page that stays open and visible comes to show the
\* machine as it is, also after a lost frame.
PagesCatchUp == \A c \in Client : <>[]Follows(c) => <>[](page[c] = machine)

\* viewer_init_sent: a page whose loop takes its viewer_init for sent holds the
\* configuration of the LinuxCNC the gateway is attached to, unless the gateway
\* changed over before that loop had seen the link lost.
ConfigCurrent ==
  \A c \in Connected \ (closing \cup missed) :
    loop[c].init /\ linked => config[c] = stat
=============================================================================
