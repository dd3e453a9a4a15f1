------------------------------ MODULE MCCommands ------------------------------
(***************************************************************************)
(* TLC instance of MachineCommands with two history variables about the    *)
(* run-from-line sequence.                                                 *)
(***************************************************************************)
EXTENDS MachineCommands

VARIABLES
  alone,    \* no handler did anything to LinuxCNC since the sequence began
  measured  \* its measurement succeeded

mcVars == <<vars, alone, measured>>

MCRequests == {{"measure"}, {"safez", "position"}, Features}

MCInit == Init /\ alone = FALSE /\ measured = FALSE

MCNext ==
  /\ Next
  /\ IF ~active /\ active'
     THEN alone' = TRUE /\ measured' = FALSE
     ELSE /\ alone' = (alone /\ (hnd'.pc = hnd.pc \/ hnd.pc = "idle"))
          /\ measured' = (measured \/ (doing = "measure" /\ MdiDone))

MCSpec == MCInit /\ [][MCNext]_mcVars /\ Fairness

Started == rfl.pc = "starting" /\ doing' = "program" /\ doing = "none"

\* gateway.py, run from line: a program that is started in the middle finds the
\* tool mounted and just measured, its offset applied, the skip flag armed, Z at machine zero and
\* XY at the entry, whatever failed, stopped short or timed out on the way, as
\* long as no other command came in between.
StartIsPrepared ==
  [][ Started /\ alone =>
        /\ "measure" \in rfl.want => measured /\ mach.tool /\ mach.offset /\ flag
        /\ "position" \in rfl.want => mach.entry
        /\ "safez" \in rfl.want => mach.top ]_mcVars

=============================================================================
