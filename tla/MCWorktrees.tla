------------------------------ MODULE MCWorktrees ------------------------------
(***************************************************************************)
(* Instances of Worktrees for TLC.                                         *)
(***************************************************************************)
EXTENDS Worktrees

================================================================================
