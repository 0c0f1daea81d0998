---------------------------- MODULE MCSessionControl ---------------------------
(***************************************************************************)
(* Instances of SessionControl for TLC.  Attachments, inputs and resizes   *)
(* are interchangeable: nothing orders them.                               *)
(***************************************************************************)
EXTENDS SessionControl, TLC

ControlSymmetry ==
  Permutations(Attachment) \union Permutations(Cmd) \union Permutations(Resize)
================================================================================
