------------------------------ MODULE MCPreview ------------------------------
(***************************************************************************)
(* TLC instance of PreviewPipeline, with history variables about unloads   *)
(* and failing page loads.                                                 *)
(***************************************************************************)
EXTENDS PreviewPipeline

VARIABLES
  unloaded,  \* the program was unloaded, and not loaded or saved since
  gaveUp     \* of a client: the version whose load failed, 0 once it asks again

mcVars == <<vars, unloaded, gaveUp>>

MCInit == Init /\ unloaded = FALSE /\ gaveUp = [c \in Client |-> 0]

Asks(c) == fetch'[c].ver # 0 /\ fetch'[c] # fetch[c]

MCNext ==
  /\ Next
  /\ unloaded' = \/ Unload
                 \/ unloaded /\ disk' = disk /\ ~Restart /\ ~\E f \in File : Load(f)
  /\ gaveUp' = [c \in Client |-> IF LoadFails(c) THEN want[c]
                               ELSE IF Asks(c) THEN 0 ELSE gaveUp[c]]

MCSpec == MCInit /\ [][MCNext]_mcVars /\ Fairness

-----------------------------------------------------------------------------
\* Whatever is loaded, saved and parsed in whatever order, when that ends and
\* somebody is connected, the preview comes to be that of the loaded program as
\* it is on disk; after an unload it may as well be empty.
PreviewCatchesUp ==
  <>[](online # {} /\ loaded # NoFile =>
         \/ served.file = loaded /\ served.text = disk[loaded]
         \/ unloaded /\ served = None)


\* gateway.py, of unload_file: "reset_interpreter doesn't clear stat.file, so the
\* shared poller's file-change edge won't fire.  Clear the shared cache and bump
\* the version so every client's status_loop sends an empty viewer_gcode": a
\* program that was unloaded, and not loaded or saved since, has no preview.
UnloadedStaysEmpty == <>[](unloaded => served = None)
=============================================================================
