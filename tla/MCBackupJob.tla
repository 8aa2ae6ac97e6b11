---------------------------- MODULE MCBackupJob ----------------------------
(* Instances of BackupJob for TLC.                                         *)
EXTENDS BackupJob, TLC

CONSTANTS j1, j2, t1, t2

AllTargets == [j \in Jobs |-> Targets]
OneAndBoth == (j1 :> {t1}) @@ (j2 :> {t1, t2})
=============================================================================
