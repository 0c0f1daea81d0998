------------------------------- MODULE Lifecycle -------------------------------
(***************************************************************************)
(* The lifecycle tables of packages/contracts/src/lifecycle: which status  *)
(* an Attempt and a LaunchIntent may move to, which statuses are terminal, *)
(* and which Process Dispositions keep the scheduling slot.  The daemon    *)
(* checks a transition against these tables before it writes it.           *)
(***************************************************************************)

AttemptStatus ==
  {"Queued", "Starting", "Running", "Waiting", "Stopping",
   "Succeeded", "Failed", "Cancelled", "Interrupted", "Uncertain"}

TerminalAttempt ==
  {"Succeeded", "Failed", "Cancelled", "Interrupted", "Uncertain"}

\* ATTEMPT_TRANSITIONS: the statuses that may follow s.
AttemptNext(s) ==
  CASE s = "Queued"   -> {"Starting", "Failed", "Cancelled"}
    [] s = "Starting" -> {"Running", "Waiting", "Failed", "Cancelled",
                          "Interrupted", "Uncertain"}
    [] s = "Running"  -> {"Waiting", "Stopping", "Succeeded", "Failed",
                          "Interrupted", "Uncertain"}
    [] s = "Waiting"  -> {"Starting", "Running", "Stopping", "Succeeded",
                          "Failed", "Interrupted", "Uncertain"}
    [] s = "Stopping" -> {"Waiting", "Succeeded", "Failed", "Cancelled",
                          "Interrupted", "Uncertain"}
    [] OTHER -> {}

AttemptCan(from, to) == to \in AttemptNext(from)

LaunchIntentStatus == {"Prepared", "Authorized", "Aborted"}

\* LAUNCH_INTENT_TRANSITIONS.
IntentNext(s) ==
  CASE s = "Prepared"   -> {"Authorized", "Aborted"}
    [] s = "Authorized" -> {"Aborted"}
    [] OTHER -> {}

IntentCan(from, to) == to \in IntentNext(from)

SessionAvailability == {"Alive", "Exited", "Lost"}

ProcessDisposition ==
  {"Probing", "ConfirmedAbsent", "OrphanFound",
   "KeepRequested", "StopRequested", "ConfirmedStopped"}

\* PROCESS_DISPOSITION_HOLDS_SLOT: a process may still exist.
DispositionHoldsSlot(d) ==
  d \in {"Probing", "OrphanFound", "KeepRequested", "StopRequested"}

TaskLifecycle == {"Draft", "Runnable", "Cancelled"}

TrustState == {"Untrusted", "PendingValidation", "Active", "Revoked"}

\* REPOSITORY_TRUST_TRANSITIONS.
TrustNext(s) ==
  CASE s = "Untrusted" -> {"PendingValidation"}
    [] s = "PendingValidation" -> {"Active", "Revoked"}
    [] s = "Active" -> {"Revoked"}
    [] OTHER -> {}

TrustCan(from, to) == to \in TrustNext(from)

WorktreeState == {"Planned", "Ready", "Failed", "Orphaned", "Disposed"}
WorktreeRole == {"Pending", "Active", "Historical"}

\* WORKTREE_STATE_TRANSITIONS.
WorktreeNext(s) ==
  CASE s = "Planned" -> {"Ready", "Failed", "Orphaned"}
    [] s = "Orphaned" -> {"Ready", "Failed"}
    [] s = "Ready" -> {"Disposed"}
    [] OTHER -> {}

WorktreeCan(from, to) == to \in WorktreeNext(from)
================================================================================
