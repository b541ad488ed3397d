-------------------------- MODULE MCTaskScheduler --------------------------
(* Instances of TaskScheduler for TLC.  Executions are model values; no    *)
(* symmetry, as a temporal property is checked.                            *)
EXTENDS TaskScheduler

CONSTANTS e1, e2

Two == {e1, e2}
=============================================================================
