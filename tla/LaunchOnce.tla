------------------------------- MODULE LaunchOnce ------------------------------
(***************************************************************************)
(* What the launch protocol promises for one nonce, without bootstraps,    *)
(* files, slots or crashes: the decision to run the Agent is taken at most *)
(* once and never reversed, the Agent starts at most once and only after   *)
(* that decision, and the client is told `failed' only when the Agent can  *)
(* never start.  AttemptLaunch implements it.                              *)
(***************************************************************************)
CONSTANT Nonce

VARIABLES
  phase,   \* "undecided", "forbidden", "permitted", "executed"
  told     \* the durable result of the launch command: "none", "failed", "running", "uncertain"

vars == <<phase, told>>

Init ==
  /\ phase = [n \in Nonce |-> "undecided"]
  /\ told = [n \in Nonce |-> "none"]

\* Abort: the refusal and the answer are one durable step.
Forbid(n) ==
  /\ phase[n] = "undecided"
  /\ phase' = [phase EXCEPT ![n] = "forbidden"]
  /\ told' = [told EXCEPT ![n] = "failed"]

\* CommitLaunch is visible: from here the Agent may run at any time.
Permit(n) ==
  /\ phase[n] = "undecided"
  /\ phase' = [phase EXCEPT ![n] = "permitted"]
  /\ UNCHANGED told

Exec(n) ==
  /\ phase[n] = "permitted"
  /\ phase' = [phase EXCEPT ![n] = "executed"]
  /\ UNCHANGED told

\* The answer after the commit; it never claims the Agent did not run.
Report(n, answer) ==
  /\ phase[n] \in {"permitted", "executed"} /\ told[n] = "none"
  /\ answer \in {"running", "uncertain"}
  /\ told' = [told EXCEPT ![n] = answer]
  /\ UNCHANGED phase

Next ==
  \E n \in Nonce :
    Forbid(n) \/ Permit(n) \/ Exec(n) \/ \E answer \in {"running", "uncertain"} : Report(n, answer)

Spec == Init /\ [][Next]_vars
================================================================================
