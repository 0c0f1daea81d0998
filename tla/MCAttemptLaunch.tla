---------------------------- MODULE MCAttemptLaunch ----------------------------
(***************************************************************************)
(* Instances of AttemptLaunch for TLC.  Tasks are interchangeable: nothing *)
(* orders them, so the safety runs use the symmetry of Task.               *)
(***************************************************************************)
EXTENDS FleetProjection, TLC

TaskSymmetry == Permutations(Task)
================================================================================
