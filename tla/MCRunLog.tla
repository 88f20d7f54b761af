------------------------------ MODULE MCRunLog ------------------------------
(***************************************************************************)
(* Instances of RunLog for TLC.  One record can fill a file and the next   *)
(* one another; the directory outgrows the runs kept, also by a run that a *)
(* prune has missed.                                                       *)
(***************************************************************************)
EXTENDS RunLog, TLC

ASSUME InstanceAssumption ==
    RotateAfter <= MaxWeight /\ MaxRecords >= 2 /\ KeepRuns + 1 < MaxStamp
=============================================================================
