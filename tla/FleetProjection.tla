---------------------------- MODULE FleetProjection ----------------------------
(***************************************************************************)
(* The read model the desktop polls: what projectTask and projectTaskView  *)
(* make of the rows AttemptLaunch keeps.  Nothing here is stored, so the   *)
(* module adds no variable: it is a function of the state of AttemptLaunch *)
(* and its properties say that the function never misleads a user, in any  *)
(* state the commands, exits and restarts can reach.                       *)
(*                                                                         *)
(* Left out: times, versions, profile snapshots, waiting reasons (nothing  *)
(* makes an Attempt wait) and data gaps, which AttemptLaunch does not keep.*)
(***************************************************************************)
EXTENDS AttemptLaunch

Latest(S) == IF S = {} THEN NoAttempt ELSE CHOOSE a \in S : \A b \in S : b <= a

\* attempts come ORDER BY created_seq DESC: the first one, and the first that is
\* not terminal.
LastAttempt(t) == Latest(TaskAttempts(t))
CurrentAttempt(t) == Latest(ActiveAttempts(t))

StatusOf(a) == IF a = NoAttempt THEN "none" ELSE attempt[a]

\* RT-STATE-24: starting and stopping are shown beside the status.
Phase(t) ==
  LET s == StatusOf(CurrentAttempt(t)) IN IF s \in {"Starting", "Stopping"} THEN s ELSE "none"

CancellationRequested(t) == task[t] = "Cancelled" /\ CurrentAttempt(t) # NoAttempt

\* A non-terminal Attempt always wins.
ViewOfCurrent(s) ==
  CASE s = "Queued" -> "Queued"
    [] s \in {"Starting", "Running"} -> "Running"
    [] s \in {"Waiting", "Stopping"} -> "Waiting"

\* Bug: a Cancelled lifecycle is tested first and hides the Attempt that still runs.
BugViewStatus(t) ==
  LET last == StatusOf(LastAttempt(t)) IN
  IF task[t] = "Cancelled" THEN "Cancelled"
  ELSE IF CurrentAttempt(t) # NoAttempt THEN ViewOfCurrent(StatusOf(CurrentAttempt(t)))
  ELSE IF last \in TerminalAttempt THEN last ELSE "Draft"
\* The top-to-bottom precedence of RT-STATE-16.
ViewStatus(t) ==
  LET last == StatusOf(LastAttempt(t)) IN
  IF CurrentAttempt(t) # NoAttempt THEN ViewOfCurrent(StatusOf(CurrentAttempt(t)))
  ELSE IF task[t] = "Cancelled" THEN "Cancelled"
  ELSE IF last \in TerminalAttempt THEN last ELSE "Draft"

\* The Attempt a shown status is attributed to; NoAttempt stands for the Task itself.
StatusSource(t) ==
  IF CurrentAttempt(t) # NoAttempt THEN CurrentAttempt(t)
  ELSE IF task[t] \in {"Cancelled", "Draft"} THEN NoAttempt ELSE LastAttempt(t)

\* The Attempt whose terminal reason is shown: never one from before the current.
ReasonSource(t) == IF CurrentAttempt(t) = NoAttempt THEN LastAttempt(t) ELSE NoAttempt

NeedsUserAction(t) ==
  \/ StatusOf(CurrentAttempt(t)) = "Waiting"
  \/ /\ CurrentAttempt(t) = NoAttempt
     /\ StatusOf(LastAttempt(t)) \in {"Failed", "Interrupted", "Uncertain"}

ProjectTask(t) ==
  [lifecycle |-> task[t],
   status    |-> ViewStatus(t),       statusSource |-> StatusSource(t),
   phase     |-> Phase(t),            reasonSource |-> ReasonSource(t),
   current   |-> CurrentAttempt(t),   last |-> LastAttempt(t),
   stopping  |-> CancellationRequested(t),
   attention |-> NeedsUserAction(t)]

ProjectFleet == [t \in Task |-> ProjectTask(t)]

-----------------------------------------------------------------------------
AliveSession(t) == \E a \in TaskAttempts(t) : session[a] = "Alive"

\* The view never misleads: `current' is the one Attempt that is not over and the
\* newest one; "Running" without a phase has an Alive Session; a settled status has
\* none; a status comes from the Attempt it is attributed to; and a Task that shows a
\* requested cancellation is really being stopped (projectTask, projectTaskView,
\* RT-STATE-16, 17, 20).
ViewTruthful ==
  \A t \in Task :
    LET view == ProjectFleet[t] IN
    /\ \A a \in ActiveAttempts(t) : a = view.current /\ a = view.last
    /\ view.status = "Running" /\ view.phase = "none" => session[view.current] = "Alive"
    /\ view.status \in {"Draft", "Queued"} \union TerminalAttempt => ~AliveSession(t)
    /\ view.status \in TerminalAttempt /\ view.statusSource # NoAttempt =>
         attempt[view.statusSource] = view.status
    /\ view.reasonSource # NoAttempt => attempt[view.reasonSource] \in TerminalAttempt
    /\ view.stopping => view.phase = "Stopping" /\ AliveSession(t)

\* "Needs attention" is not a dead end: for a Task that is not Cancelled the user has a
\* command the coordinator accepts for the last Attempt, Retry or Resume, unless a
\* process may still exist behind it (NeedsUserAction against #assertCommandAllowed).
AttentionActionable ==
  \A t \in Task :
    LET view == ProjectFleet[t] IN
    view.attention /\ task[t] = "Runnable" /\ ~DispositionHoldsSlot(disp[view.last])
      => RetryAllowed(t, view.last) \/ ResumeAllowed(t, view.last)
================================================================================
