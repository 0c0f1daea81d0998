----------------------------- MODULE AttemptLaunch -----------------------------
(***************************************************************************)
(* One Attempt from its acceptance to its end: the command router, the     *)
(* scheduler's slot, the launch handshake with the inert bootstrap (five   *)
(* durable files and a SQLite row per launch), stop commands, process      *)
(* exit, Daemon crashes and the Startup Reconciliation that follows them.  *)
(*                                                                         *)
(* Processes that interleave: the Daemon's event loop (command handlers,   *)
(* one launch coroutine per Attempt, exit callbacks), every bootstrap      *)
(* process and the Agent it becomes, and the crash.  A transaction is one  *)
(* action; so is a block of the event loop that holds no await, unless it  *)
(* makes two durable writes a crash can separate: then `mid' names the     *)
(* write that is due and everything else in the Daemon waits for it.       *)
(*                                                                         *)
(* Left out: Waiting and storage pressure (no production caller), output,  *)
(* Control Leases, and how an Environment or Worktree is revalidated (an   *)
(* await that may succeed or fail).                                        *)
(***************************************************************************)
EXTENDS Integers, Lifecycle

CONSTANTS
  Task,          \* the Tasks that exist
  NoTask,        \* "no Task": the Attempt does not exist yet
  NAttempt,      \* bound: Attempts that may ever be accepted
  MaxCrashes,    \* bound: Daemon crashes in a behaviour
  Obstacles      \* what may stand in the Daemon's way

ASSUME NoTaskAssumption == NoTask \notin Task
ASSUME BoundsAssumption == NAttempt \in Nat /\ MaxCrashes \in Nat
\* "spawn": the barrier, the config write or the spawn throws; "snapshot": a Session has
\* output no Snapshot can hold; "socket": a killed Daemon's socket file is still there.
ASSUME ObstaclesAssumption == Obstacles \subseteq {"spawn", "snapshot", "socket"}

\* Attempts are numbered in the order of created_seq / created_at.
Attempt == 1 .. NAttempt
NoAttempt == 0

\* The bootstraps spawned for one Attempt: at most one per life of the Daemon.
Boot == 1 .. (MaxCrashes + 1)
NoBoot == 0      \* the file is absent, the process is not owned
Torn == -1       \* the file exists but does not parse

VARIABLES
  \* SQLite
  task,          \* TaskLifecycle of a Task
  taskOf,        \* the Task an Attempt belongs to
  attempt,       \* AttemptStatus, "None" before acceptance
  ready,         \* the Attempt's Worktree is Ready and Active
  slot,          \* slot_leases row: "none", "held", "released"
  intent,        \* LaunchIntentStatus, "None" before scheduling
  commitSent,    \* launch_intents.commit_sent_at is set
  result,        \* launch_intents.result_json: "none", "running", "failed", "uncertain"
  disp,          \* process_dispositions row, "none" when absent
  session,       \* Availability of the primary Session, "none" before it exists
  full,          \* the Session row records the full process identity
  \* files in launch/<nonce>/: which bootstrap wrote them
  receipt, execReceipt, commitFile, abortFile,
  \* processes
  proc,          \* what a bootstrap has become
  signalled,     \* live bootstraps that have been sent the termination signal
  execed,        \* history: the bootstraps that have become the Agent
  retitled,      \* live Agents that have changed the command ps shows of them
  \* Daemon memory
  rpc,           \* where the Start/Retry/Resume handler of an Attempt is
  pick,          \* the candidate that handler has selected
  lpc,           \* where the launch coroutine of an Attempt is
  cur,           \* the process the SessionRuntime owns for an Attempt
  mode,          \* "down", the reconciliation phase, or "up"
  mid,           \* a second durable write that is due
  crashes,
  obstacle       \* the Obstacles that stand in the way of a startup

dbVars    == <<task, taskOf, attempt, ready, slot, intent, commitSent, result,
               disp, session, full>>
fileVars  == <<receipt, execReceipt, commitFile, abortFile>>
procVars  == <<proc, signalled, execed, retitled>>
rpcVars   == <<rpc, pick>>
runVars   == <<lpc, cur>>
hostVars  == <<crashes, obstacle>>
ctlVars   == <<mode, mid, hostVars>>
vars      == <<dbVars, fileVars, procVars, rpcVars, runVars, ctlVars>>

\* Parts of dbVars that most actions leave alone.
taskVars    == <<task, taskOf, ready>>
statusVars  == <<attempt, slot, disp>>
intentVars  == <<intent, commitSent, result>>
sessionVars == <<session, full>>

Idle == [kind |-> "idle", a |-> NoAttempt]
Due(k, a) == [kind |-> k, a |-> a]

Live == {"boot", "linked", "ready", "execing", "agent"}
ProcState == Live \union {"unborn", "dead"}
RestartPhase == {"sessions", "intents", "slots", "snapshots", "resume"}

TypeOK ==
  /\ task \in [Task -> TaskLifecycle]
  /\ taskOf \in [Attempt -> Task \union {NoTask}]
  /\ attempt \in [Attempt -> AttemptStatus \union {"None"}]
  /\ ready \in [Attempt -> BOOLEAN]
  /\ slot \in [Attempt -> {"none", "held", "released"}]
  /\ intent \in [Attempt -> LaunchIntentStatus \union {"None"}]
  /\ commitSent \in [Attempt -> BOOLEAN]
  /\ result \in [Attempt -> {"none", "running", "failed", "uncertain"}]
  /\ disp \in [Attempt -> ProcessDisposition \union {"none"}]
  /\ session \in [Attempt -> SessionAvailability \union {"none"}]
  /\ full \in [Attempt -> BOOLEAN]
  /\ receipt \in [Attempt -> Boot \union {NoBoot, Torn}]
  /\ execReceipt \in [Attempt -> Boot \union {NoBoot, Torn}]
  /\ commitFile \in [Attempt -> BOOLEAN]
  /\ abortFile \in [Attempt -> BOOLEAN]
  /\ proc \in [Attempt -> [Boot -> ProcState]]
  /\ signalled \in [Attempt -> SUBSET Boot]
  /\ execed \in [Attempt -> SUBSET Boot]
  /\ retitled \in [Attempt -> SUBSET Boot]
  /\ rpc \in [Attempt -> {"none", "provision", "schedule", "prepare"}]
  /\ pick \in [Attempt -> Attempt \union {NoAttempt}]
  /\ lpc \in [Attempt -> {"none", "resume", "barrier", "receipt", "validate",
                          "drift", "agent"}]
  /\ cur \in [Attempt -> Boot \union {NoBoot}]
  /\ mode \in {"down", "up"} \union RestartPhase
  /\ mid \in [kind : {"idle", "commit", "abort", "stop", "probe"},
              a : Attempt \union {NoAttempt}]
  /\ crashes \in 0 .. MaxCrashes
  /\ obstacle \subseteq Obstacles

\* Command handlers run only after Startup Reconciliation has returned.
Serving == mode = "up" /\ mid = Idle
\* The launch coroutine also runs while reconciliation resumes a Prepared intent.
Looping == mode \in {"resume", "up"} /\ mid = Idle
\* What only a startup looks at is left out where the bound on crashes lets none follow.
RestartMayFollow == crashes < MaxCrashes \/ mode # "up"

Nonterminal(a) == attempt[a] \notin TerminalAttempt \union {"None"}
TaskAttempts(t) == {a \in Attempt : taskOf[a] = t}
ActiveAttempts(t) == {a \in TaskAttempts(t) : Nonterminal(a)}
\* The identity a new Attempt gets.
Fresh == {a \in Attempt : attempt[a] = "None" /\ \A b \in 1 .. (a - 1) : attempt[b] # "None"}

-----------------------------------------------------------------------------
(* Start, Retry and Resume: the handler in the router, the coordinator's    *)
(* acceptance transaction, worktree provisioning and the scheduler.         *)

\* #assertCommandAllowed, run again inside the acceptance transaction.
StartAllowed(t) == task[t] = "Draft" /\ ActiveAttempts(t) = {}
RetryAllowed(t, src) ==
  /\ task[t] = "Runnable" /\ ActiveAttempts(t) = {}
  /\ attempt[src] \notin {"Interrupted", "Uncertain"}
\* Bug: an Uncertain Attempt is not resumed even when its process is confirmed absent.
BugResumeAllowed(t, src) ==
  /\ task[t] = "Runnable" /\ ActiveAttempts(t) = {}
  /\ attempt[src] = "Interrupted"
  /\ disp[src] # "none" /\ ~DispositionHoldsSlot(disp[src])
ResumeAllowed(t, src) ==
  /\ task[t] = "Runnable" /\ ActiveAttempts(t) = {}
  /\ attempt[src] \in {"Interrupted", "Uncertain"}
  /\ disp[src] # "none" /\ ~DispositionHoldsSlot(disp[src])

\* The acceptance transaction: the Attempt, its Worktree binding and the
\* idempotency record.  `continue' binds the Task's active Ready Worktree.
Accept(t, continue) ==
  /\ \E a \in Fresh :
       /\ taskOf' = [taskOf EXCEPT ![a] = t]
       /\ attempt' = [attempt EXCEPT ![a] = "Queued"]
       /\ ready' = [ready EXCEPT ![a] = continue]
       /\ rpc' = [rpc EXCEPT ![a] = IF continue THEN "schedule" ELSE "provision"]
  /\ UNCHANGED <<slot, disp, intentVars, sessionVars, fileVars, procVars, pick,
                 runVars, ctlVars>>

Start(t) ==
  /\ Serving /\ StartAllowed(t)
  /\ task' = [task EXCEPT ![t] = "Runnable"]
  /\ Accept(t, FALSE)

Continuable(t) == {FALSE} \union {ready[a] : a \in TaskAttempts(t)}

Retry(t, src) ==
  /\ Serving /\ RetryAllowed(t, src)
  /\ \E continue \in Continuable(t) : Accept(t, continue)
  /\ UNCHANGED task

Resume(t, src) ==
  /\ Serving /\ ResumeAllowed(t, src)
  /\ \E continue \in Continuable(t) : Accept(t, continue)
  /\ UNCHANGED task

\* The same commandId again: the stored acceptance, then scheduleNext as before.
\* Provisioning is not repeated.
Replay(a) ==
  /\ Serving /\ attempt[a] # "None" /\ rpc[a] = "none"
  /\ rpc' = [rpc EXCEPT ![a] = "schedule"]
  /\ UNCHANGED <<dbVars, fileVars, procVars, pick, runVars, ctlVars>>

\* The Worktree became Ready: Active if the Attempt is still wanted, else Historical.
Provisioned(a) ==
  /\ Serving /\ rpc[a] = "provision"
  /\ rpc' = [rpc EXCEPT ![a] = "schedule"]
  /\ ready' = [ready EXCEPT ![a] = attempt[a] = "Queued" /\ task[taskOf[a]] = "Runnable"]
  /\ UNCHANGED <<task, taskOf, statusVars, intentVars, sessionVars, fileVars,
                 procVars, pick, runVars, ctlVars>>

\* #failQueuedAttempt; the router ignores the outcome and goes on to schedule.
ProvisionFailed(a) ==
  /\ Serving /\ rpc[a] = "provision"
  /\ rpc' = [rpc EXCEPT ![a] = "schedule"]
  /\ attempt' = [attempt EXCEPT ![a] = IF @ = "Queued" THEN "Failed" ELSE @]
  /\ UNCHANGED <<taskVars, slot, disp, intentVars, sessionVars, fileVars, procVars,
                 pick, runVars, ctlVars>>

Schedulable == {a \in Attempt :
  attempt[a] = "Queued" /\ ready[a] /\ task[taskOf[a]] = "Runnable"}
\* nextCandidate: the oldest one, if there is one.
Candidate == {a \in Schedulable : \A b \in Schedulable : a <= b}

\* Bug: occupancy counted from the Attempts' status instead of the leases.
BugHasActiveSlot == \E a \in Attempt : attempt[a] \in {"Starting", "Running", "Stopping"}
HasActiveSlot == \E a \in Attempt : slot[a] = "held"

\* scheduleNext up to its await: idle or blocked ends the handler.
ScheduleSelect(a) ==
  /\ Serving /\ rpc[a] = "schedule"
  /\ IF Candidate = {} \/ HasActiveSlot
       THEN rpc' = [rpc EXCEPT ![a] = "none"] /\ UNCHANGED pick
       ELSE /\ rpc' = [rpc EXCEPT ![a] = "prepare"]
            /\ \E c \in Candidate : pick' = [pick EXCEPT ![a] = c]
  /\ UNCHANGED <<dbVars, fileVars, procVars, runVars, ctlVars>>

\* scheduleNext's transaction.  The router then launches the prepared Attempt
\* only if it is the one this command accepted.
ScheduleClaim(a) ==
  /\ Serving /\ rpc[a] = "prepare"
  /\ rpc' = [rpc EXCEPT ![a] = "none"]
  /\ pick' = [pick EXCEPT ![a] = NoAttempt]
  /\ IF HasActiveSlot \/ pick[a] \notin Candidate
       THEN UNCHANGED <<attempt, slot, intent, lpc>>
       ELSE /\ slot' = [slot EXCEPT ![pick[a]] = "held"]
            /\ attempt' = [attempt EXCEPT ![pick[a]] = "Starting"]
            /\ intent' = [intent EXCEPT ![pick[a]] = "Prepared"]
            /\ lpc' = [lpc EXCEPT ![pick[a]] = IF pick[a] = a THEN "barrier" ELSE @]
  /\ UNCHANGED <<taskVars, disp, commitSent, result, sessionVars, fileVars, procVars,
                 cur, ctlVars>>

-----------------------------------------------------------------------------
(* The launch coroutine, #launchWithExecBarrier.                            *)

\* #abort: the transaction, and the guards that make it throw and roll back.
\* Bug: the Attempt's transition is not checked.
BugCanAbort(a) == IntentCan(intent[a], "Aborted") /\ ~commitSent[a]
CanAbort(a) ==
  /\ IntentCan(intent[a], "Aborted") /\ ~commitSent[a]
  /\ AttemptCan(attempt[a], "Failed")
AbortTx(a) ==
  /\ intent' = [intent EXCEPT ![a] = "Aborted"]
  /\ result' = [result EXCEPT ![a] = "failed"]
  /\ attempt' = [attempt EXCEPT ![a] = "Failed"]
  /\ slot' = [slot EXCEPT ![a] = "released"]

ReleaseSlot(a) == [slot EXCEPT ![a] = IF @ = "held" THEN "released" ELSE @]

\* Bug: an illegal transition is skipped, not thrown, so the rest still commits.
BugUncertainTx(a, d) ==
  /\ attempt' = [attempt EXCEPT ![a] = IF AttemptCan(@, "Uncertain") THEN "Uncertain" ELSE @]
  /\ result' = [result EXCEPT ![a] = "uncertain"]
  /\ disp' = [disp EXCEPT ![a] = d]
  /\ slot' = IF DispositionHoldsSlot(d) THEN slot ELSE ReleaseSlot(a)

\* #markUncertain with disposition d; legal only from a status that may become Uncertain.
UncertainTx(a, d) ==
  /\ AttemptCan(attempt[a], "Uncertain")
  /\ attempt' = [attempt EXCEPT ![a] = "Uncertain"]
  /\ result' = [result EXCEPT ![a] = "uncertain"]
  /\ disp' = [disp EXCEPT ![a] = d]
  /\ slot' = IF DispositionHoldsSlot(d) THEN slot ELSE ReleaseSlot(a)

\* terminate(): one SIGHUP to the process the Daemon owns, if it owns a live one.
Signal(a) ==
  signalled' = [signalled EXCEPT ![a] = @ \union {b \in Boot : b = cur[a] /\ proc[a][b] \in Live}]

\* The Daemon process is gone, and everything it kept in memory.
Die ==
  /\ mode' = "down" /\ mid' = Idle
  /\ rpc' = [a \in Attempt |-> "none"] /\ pick' = [a \in Attempt |-> NoAttempt]
  /\ lpc' = [a \in Attempt |-> "none"] /\ cur' = [a \in Attempt |-> NoBoot]

SpawnBootstrap(a) ==
  /\ Looping /\ lpc[a] = "barrier"
  /\ \E b \in Boot :
       /\ proc[a][b] = "unborn" /\ \A c \in 1 .. (b - 1) : proc[a][c] # "unborn"
       /\ proc' = [proc EXCEPT ![a][b] = "boot"]
       /\ cur' = [cur EXCEPT ![a] = b]
  /\ lpc' = [lpc EXCEPT ![a] = "receipt"]
  /\ obstacle' = obstacle \ {"spawn"}
  /\ UNCHANGED <<dbVars, fileVars, signalled, execed, retitled, rpcVars, mode, mid, crashes>>

\* createExecBarrier, the config write or the spawn throws: the command fails and
\* nothing is written.  A launch that throws while it is resumed ends the Daemon.
SpawnFails(a) ==
  /\ Looping /\ lpc[a] = "barrier" /\ "spawn" \in Obstacles
  /\ IF mode = "up"
       THEN lpc' = [lpc EXCEPT ![a] = "none"] /\ UNCHANGED <<mode, mid, obstacle, rpcVars, cur>>
       ELSE Die /\ obstacle' = obstacle \union {"spawn"}
  /\ UNCHANGED <<dbVars, fileVars, procVars, crashes>>

\* No receipt of the spawned process, or no authenticated barrier, in time.
ReceiptLost(a) ==
  /\ Looping /\ lpc[a] = "receipt"
  /\ Signal(a)
  /\ cur' = [cur EXCEPT ![a] = NoBoot]
  /\ lpc' = [lpc EXCEPT ![a] = "none"]
  /\ IF CanAbort(a) THEN AbortTx(a) ELSE UNCHANGED <<intent, result, attempt, slot>>
  /\ UNCHANGED <<taskVars, disp, commitSent, sessionVars, fileVars, proc, execed, retitled,
                 rpcVars, ctlVars>>

\* #authorize, and the part of revalidateAcceptedAttempt before its first await:
\* the status of the Attempt and of the Task are read here and only here.
Authorize(a) ==
  /\ Looping /\ lpc[a] = "receipt" /\ receipt[a] = cur[a]
  /\ IntentCan(intent[a], "Authorized")
  /\ intent' = [intent EXCEPT ![a] = "Authorized"]
  /\ lpc' = [lpc EXCEPT ![a] =
       IF attempt[a] = "Starting" /\ task[taskOf[a]] = "Runnable" THEN "validate" ELSE "drift"]
  /\ UNCHANGED <<taskVars, statusVars, commitSent, result, sessionVars, fileVars,
                 procVars, rpcVars, cur, ctlVars>>

\* Revalidation said no: abort, then AbortLaunch, unless the abort throws.
ValidationFails(a) ==
  /\ Looping /\ lpc[a] \in {"validate", "drift"}
  /\ IF CanAbort(a)
       THEN AbortTx(a) /\ mid' = Due("abort", a) /\ UNCHANGED lpc
       ELSE lpc' = [lpc EXCEPT ![a] = "none"] /\ UNCHANGED <<intent, result, attempt, slot, mid>>
  /\ UNCHANGED <<taskVars, disp, commitSent, sessionVars, fileVars, procVars, rpcVars,
                 cur, mode, hostVars>>

WriteAbort(a) ==
  /\ mid = Due("abort", a) /\ mid' = Idle
  /\ abortFile' = [abortFile EXCEPT ![a] = TRUE]
  /\ Signal(a)
  /\ cur' = [cur EXCEPT ![a] = NoBoot]
  /\ lpc' = [lpc EXCEPT ![a] = "none"]
  /\ UNCHANGED <<dbVars, receipt, execReceipt, commitFile, proc, execed, retitled, rpcVars,
                 mode, hostVars>>

\* Every fact held when it was read: CommitLaunch becomes visible.
WriteCommit(a) ==
  /\ Looping /\ lpc[a] = "validate"
  /\ commitFile' = [commitFile EXCEPT ![a] = TRUE]
  /\ mid' = Due("commit", a)
  /\ UNCHANGED <<dbVars, receipt, execReceipt, abortFile, procVars, rpcVars, runVars, mode,
                 hostVars>>

RecordCommitSent(a) ==
  /\ mid = Due("commit", a) /\ mid' = Idle
  /\ commitSent' = [commitSent EXCEPT ![a] = TRUE]
  /\ lpc' = [lpc EXCEPT ![a] = "agent"]
  /\ UNCHANGED <<taskVars, statusVars, intent, result, sessionVars, fileVars, procVars,
                 rpcVars, cur, mode, hostVars>>

\* #waitForAgent saw the process at the exec boundary (full only when its command
\* is the Agent's).  It may have died since: its exit is delivered afterwards.
FinalizeRunning(a, isFull) ==
  /\ Looping /\ lpc[a] = "agent" /\ execReceipt[a] = cur[a]
  /\ isFull => cur[a] \in execed[a]
  /\ AttemptCan(attempt[a], "Running")
  /\ attempt' = [attempt EXCEPT ![a] = "Running"]
  /\ session' = [session EXCEPT ![a] = "Alive"]
  /\ full' = [full EXCEPT ![a] = isFull]
  /\ result' = [result EXCEPT ![a] = "running"]
  /\ lpc' = [lpc EXCEPT ![a] = "none"]
  /\ UNCHANGED <<taskVars, slot, disp, intent, commitSent, fileVars, procVars, rpcVars,
                 cur, ctlVars>>

\* agent-not-observed-after-commit: the process is neither stopped nor forgotten.
MarkUncertain(a) ==
  /\ Looping /\ lpc[a] = "agent"
  /\ UncertainTx(a, "Probing")
  /\ lpc' = [lpc EXCEPT ![a] = "none"]
  /\ UNCHANGED <<taskVars, intent, commitSent, sessionVars, fileVars, procVars, rpcVars,
                 cur, ctlVars>>

\* A stop has made the Attempt terminal meanwhile: finalize and markUncertain both throw.
LaunchRejected(a) ==
  /\ Looping /\ lpc[a] = "agent" /\ ~AttemptCan(attempt[a], "Uncertain")
  /\ lpc' = [lpc EXCEPT ![a] = "none"]
  /\ UNCHANGED <<dbVars, fileVars, procVars, rpcVars, cur, ctlVars>>

-----------------------------------------------------------------------------
(* Process exit and the stop commands.                                      *)

\* STOPPING_SETTLEMENT and PRIMARY_OUTCOME_SETTLEMENTS.
\* Bug: an exit during a stop is left for the stop handler to settle.
BugSettlement(a) == IF attempt[a] = "Stopping" THEN {"Stopping"} ELSE {"Succeeded", "Failed"}
Settlement(a) == IF attempt[a] = "Stopping" THEN {"Cancelled"} ELSE {"Succeeded", "Failed"}

\* #recordExit and #settleAttemptIfComplete for the primary Session.
RecordExit(a) ==
  /\ Looping /\ cur[a] # NoBoot /\ proc[a][cur[a]] = "dead" /\ session[a] = "Alive"
  /\ session' = [session EXCEPT ![a] = "Exited"]
  /\ \E status \in Settlement(a) : attempt' = [attempt EXCEPT ![a] = status]
  /\ slot' = ReleaseSlot(a)
  /\ cur' = [cur EXCEPT ![a] = NoBoot]
  /\ UNCHANGED <<taskVars, disp, intentVars, full, fileVars, procVars, rpcVars, lpc, ctlVars>>

\* #requestStopTransition.  Neither branch touches the slot.
\* Bugs: a status outside the table; a stop that does not wait for the process.
BugStopStatus(a) == IF attempt[a] = "Queued" THEN "Cancelled" ELSE "Stopped"
BugStopAtOnce(a) == "Cancelled"
StopStatus(a) == IF attempt[a] \in {"Queued", "Starting"} THEN "Cancelled" ELSE "Stopping"
\* Bug: the alive Sessions are not passed on to stopSessions.
BugStopTx(a) == attempt' = [attempt EXCEPT ![a] = StopStatus(a)] /\ mid' = Idle
StopTx(a) ==
  /\ attempt' = [attempt EXCEPT ![a] = StopStatus(a)]
  /\ mid' = IF session[a] = "Alive" THEN Due("stop", a) ELSE Idle

\* A repeated stop of a Stopping Attempt changes nothing: it was signalled already.
RequestAttemptStop(a) ==
  /\ Serving /\ Nonterminal(a) /\ attempt[a] # "Stopping"
  /\ StopTx(a)
  /\ UNCHANGED <<taskVars, slot, disp, intentVars, sessionVars, fileVars, procVars, rpcVars,
                 runVars, mode, hostVars>>

CancelTask(t) ==
  /\ Serving /\ task[t] # "Cancelled"
  /\ task' = [task EXCEPT ![t] = "Cancelled"]
  /\ IF ActiveAttempts(t) = {} THEN UNCHANGED <<attempt, mid>>
     ELSE \E a \in ActiveAttempts(t) : StopTx(a)
  /\ UNCHANGED <<taskOf, ready, slot, disp, intentVars, sessionVars, fileVars, procVars,
                 rpcVars, runVars, mode, hostVars>>

\* stopSessions after the transaction: SessionRuntime.terminate.
SignalStop(a) ==
  /\ mid = Due("stop", a) /\ mid' = Idle
  /\ Signal(a)
  /\ UNCHANGED <<dbVars, fileVars, proc, execed, retitled, rpcVars, runVars, mode, hostVars>>

\* TerminateSession: the Session's process is signalled, the Attempt is untouched.
TerminateSession(a) ==
  /\ Serving /\ session[a] = "Alive"
  /\ Signal(a)
  /\ UNCHANGED <<dbVars, fileVars, proc, execed, retitled, rpcVars, runVars, ctlVars>>

-----------------------------------------------------------------------------
(* bootstrap.mjs, and the Agent it execs.                                   *)

\* Bug: "w" for "wx".
BugAbsent(file, a) == TRUE
\* writeExclusiveDurable opens with "wx": the file must not exist.
Absent(file, a) == file[a] = NoBoot

Become(a, b, from, to) ==
  /\ proc[a][b] = from
  /\ proc' = [proc EXCEPT ![a][b] = to]

Dies(a, b) ==
  /\ proc' = [proc EXCEPT ![a][b] = "dead"]
  /\ signalled' = [signalled EXCEPT ![a] = @ \ {b}]
  /\ retitled' = [retitled EXCEPT ![a] = @ \ {b}]

\* The exec barrier listens from before the spawn until the launch returns.
Connect(a, b) ==
  /\ Become(a, b, "boot", "linked") /\ lpc[a] = "receipt"
  /\ UNCHANGED <<dbVars, fileVars, signalled, execed, retitled, rpcVars, runVars, ctlVars>>

\* An existing receipt makes the bootstrap exit.
WriteReceipt(a, b) ==
  /\ Become(a, b, "linked", "ready") /\ Absent(receipt, a)
  /\ receipt' = [receipt EXCEPT ![a] = b]
  /\ UNCHANGED <<dbVars, execReceipt, commitFile, abortFile, signalled, execed, retitled, rpcVars,
                 runVars, ctlVars>>

\* Killed between the exclusive create and the write.
TearReceipt(a, b) ==
  /\ proc[a][b] = "linked" /\ Absent(receipt, a)
  /\ receipt' = [receipt EXCEPT ![a] = Torn]
  /\ Dies(a, b)
  /\ UNCHANGED <<dbVars, execReceipt, commitFile, abortFile, execed, rpcVars, runVars, ctlVars>>

\* Bug: the poll waits for the absence of AbortLaunch only.
BugCommitted(a) == ~abortFile[a]
\* What the poll looks at.
Committed(a) == commitFile[a] /\ ~abortFile[a]

\* CommitLaunch was accepted: the durable exec receipt, then the exec.
TakeCommit(a, b) ==
  /\ Become(a, b, "ready", "execing")
  /\ Committed(a) /\ Absent(execReceipt, a)
  /\ execReceipt' = [execReceipt EXCEPT ![a] = b]
  /\ UNCHANGED <<dbVars, receipt, commitFile, abortFile, signalled, execed, retitled, rpcVars,
                 runVars, ctlVars>>

TearExecReceipt(a, b) ==
  /\ proc[a][b] = "ready" /\ Committed(a) /\ Absent(execReceipt, a)
  /\ execReceipt' = [execReceipt EXCEPT ![a] = Torn]
  /\ Dies(a, b)
  /\ UNCHANGED <<dbVars, receipt, commitFile, abortFile, execed, rpcVars, runVars, ctlVars>>

ExecAgent(a, b) ==
  /\ Become(a, b, "execing", "agent")
  /\ execed' = [execed EXCEPT ![a] = @ \union {b}]
  /\ UNCHANGED <<dbVars, fileVars, signalled, retitled, rpcVars, runVars, ctlVars>>

\* The Agent sets its process title, or execs another program: from now on ps shows
\* another command for the same process.
AgentRetitled(a, b) ==
  /\ proc[a][b] = "agent" /\ b \notin retitled[a]
  /\ RestartMayFollow
  /\ retitled' = [retitled EXCEPT ![a] = @ \union {b}]
  /\ UNCHANGED <<dbVars, fileVars, proc, signalled, execed, rpcVars, runVars, ctlVars>>

\* Any exit path of the bootstrap, an exec failure, the Agent's end, a signal.
ProcessExits(a, b) ==
  /\ proc[a][b] \in Live
  /\ Dies(a, b)
  /\ UNCHANGED <<dbVars, fileVars, execed, rpcVars, runVars, ctlVars>>

-----------------------------------------------------------------------------
(* Crash, restart and Startup Reconciliation.                               *)

\* A Daemon that is killed while it serves leaves its socket file; one that is told to
\* stop removes it.
Crash ==
  /\ mode # "down" /\ crashes < MaxCrashes
  /\ Die /\ crashes' = crashes + 1
  /\ \/ mode = "up" /\ obstacle' = obstacle \union ({"socket"} \intersect Obstacles)
     \/ UNCHANGED obstacle
  /\ UNCHANGED <<dbVars, fileVars, procVars>>

\* A Session prints what no Snapshot can hold: its output is never removed.
OutputOutgrowsSnapshot ==
  /\ Looping /\ \E a \in Attempt : session[a] = "Alive"
  /\ "snapshot" \in Obstacles \ obstacle
  /\ obstacle' = obstacle \union {"snapshot"}
  /\ UNCHANGED <<dbVars, fileVars, procVars, rpcVars, runVars, mode, mid, crashes>>

\* No Daemon does this, somebody has to.
RemoveSocket ==
  /\ "socket" \in obstacle
  /\ obstacle' = obstacle \ {"socket"}
  /\ UNCHANGED <<dbVars, fileVars, procVars, rpcVars, runVars, mode, mid, crashes>>

Restart ==
  /\ mode = "down" /\ mode' = "sessions"
  /\ UNCHANGED <<dbVars, fileVars, procVars, rpcVars, runVars, mid, hostVars>>

\* Bug: a live process with an incompletely recorded identity counts as a mismatch.
BugSessionDispositions(a) ==
  LET b == execReceipt[a]
      alive == b \in Boot /\ proc[a][b] \in Live
  IN {"Probing"}
       \union {d \in {"OrphanFound"} : alive /\ full[a]}
       \union {d \in {"ConfirmedAbsent"} : alive => ~full[a] \/ b \in retitled[a]}
\* classifyRestartSession.  The probe may always be unavailable; the recorded process,
\* alive, is itself while ps shows what was recorded of it, and is taken for another
\* one when it shows a command of its own (which may also be the recorded one).
SessionDispositions(a) ==
  LET b == execReceipt[a]
      alive == b \in Boot /\ proc[a][b] \in Live
  IN {"Probing"}
       \union {d \in {"OrphanFound"} : alive /\ full[a]}
       \union {d \in {"ConfirmedAbsent"} : alive => full[a] /\ b \in retitled[a]}

ProbeSession(a) ==
  /\ mode = "sessions" /\ mid = Idle /\ session[a] = "Alive"
  /\ disp' = [disp EXCEPT ![a] = "Probing"]
  /\ mid' = Due("probe", a)
  /\ UNCHANGED <<taskVars, attempt, slot, intentVars, sessionVars, fileVars, procVars,
                 rpcVars, runVars, mode, hostVars>>

\* resolveRestartAttempt; dataGap is what store reconciliation found for the Attempt.
RestartStatus(d, dataGap) ==
  IF DispositionHoldsSlot(d) \/ dataGap THEN "Uncertain" ELSE "Interrupted"

ResolveSession(a, d, dataGap) ==
  /\ mid = Due("probe", a) /\ mid' = Idle
  /\ d \in SessionDispositions(a)
  /\ session' = [session EXCEPT ![a] = "Lost"]
  /\ disp' = [disp EXCEPT ![a] = d]
  /\ attempt' = [attempt EXCEPT ![a] =
       IF @ \in TerminalAttempt THEN @ ELSE RestartStatus(d, dataGap)]
  /\ slot' = IF DispositionHoldsSlot(d) THEN slot ELSE ReleaseSlot(a)
  /\ UNCHANGED <<taskVars, intentVars, full, fileVars, procVars, rpcVars, runVars, mode, hostVars>>

SessionsDone ==
  /\ mode = "sessions" /\ mid = Idle /\ \A a \in Attempt : session[a] # "Alive"
  /\ mode' = "intents"
  /\ UNCHANGED <<dbVars, fileVars, procVars, rpcVars, runVars, mid, hostVars>>

Unfinished(a, status) ==
  attempt[a] = "Starting" /\ intent[a] = status /\ result[a] = "none"

\* Bug: only the database is believed.
BugCommitMayBeOut(a) == commitSent[a]
CommitMayBeOut(a) == commitSent[a] \/ commitFile[a]

\* No bootstrap has reported by now: the same nonce will be launched again.
ResumePrepared(a) ==
  /\ mode = "intents" /\ mid = Idle /\ Unfinished(a, "Prepared")
  /\ receipt[a] = NoBoot /\ lpc[a] = "none"
  /\ lpc' = [lpc EXCEPT ![a] = "resume"]
  /\ UNCHANGED <<dbVars, fileVars, procVars, rpcVars, cur, ctlVars>>

\* A bootstrap reported but was never authorized, or was authorized and the
\* commit never left: abort, then AbortLaunch.
AbortUnsent(a) ==
  /\ mode = "intents" /\ mid = Idle /\ lpc[a] = "none"
  /\ \/ Unfinished(a, "Prepared") /\ receipt[a] # NoBoot
     \/ Unfinished(a, "Authorized") /\ ~CommitMayBeOut(a)
  /\ CanAbort(a) /\ AbortTx(a)
  /\ mid' = Due("abort", a)
  /\ UNCHANGED <<taskVars, disp, commitSent, sessionVars, fileVars, procVars, rpcVars,
                 runVars, mode, hostVars>>

\* The identity check of an exec receipt: a live process that does not show the
\* Agent's executable is taken for another process.
IntentDispositions(a) ==
  LET b == execReceipt[a] IN
  {"Probing"}
    \union {d \in {"OrphanFound"} : b \in Boot /\ proc[a][b] = "agent"}
    \union {d \in {"ConfirmedAbsent"} :
             b \in Boot /\ (proc[a][b] = "agent" => b \in retitled[a])}

ResolveSent(a, d) ==
  /\ mode = "intents" /\ mid = Idle
  /\ Unfinished(a, "Authorized") /\ CommitMayBeOut(a)
  /\ d \in IntentDispositions(a)
  /\ UncertainTx(a, d)
  /\ UNCHANGED <<taskVars, intent, commitSent, sessionVars, fileVars, procVars, rpcVars,
                 runVars, ctlVars>>

IntentsDone ==
  /\ mode = "intents" /\ mid = Idle
  /\ \A a \in Attempt : ~Unfinished(a, "Authorized")
                        /\ (Unfinished(a, "Prepared") => lpc[a] = "resume")
  /\ mode' = "slots"
  /\ UNCHANGED <<dbVars, fileVars, procVars, rpcVars, runVars, mid, hostVars>>

\* #reconcileSlotLeases: every lease is recomputed from the Attempt and its Disposition.
NewDisp(a) ==
  IF slot[a] # "none" /\ attempt[a] = "Uncertain" /\ disp[a] = "none" THEN "Probing" ELSE disp[a]
\* Bug: only the status decides.
BugShouldHold(a) == attempt[a] \in {"Starting", "Running", "Waiting", "Stopping"}
ShouldHold(a) ==
  \/ attempt[a] \in {"Starting", "Running", "Waiting", "Stopping"}
  \/ attempt[a] = "Uncertain" /\ DispositionHoldsSlot(NewDisp(a))
ReconcileSlotLeases ==
  /\ mode = "slots" /\ mode' = "snapshots"
  /\ disp' = [a \in Attempt |-> NewDisp(a)]
  /\ slot' = [a \in Attempt |-> IF slot[a] = "none" THEN "none"
                                ELSE IF ShouldHold(a) THEN "held" ELSE "released"]
  /\ UNCHANGED <<taskVars, attempt, intentVars, sessionVars, fileVars, procVars, rpcVars,
                 runVars, mid, hostVars>>

\* rebuildInvalidSnapshotsAfterRestart: an error that is no data gap ends the Daemon.
RebuildSnapshots ==
  /\ mode = "snapshots"
  /\ IF "snapshot" \in obstacle
       THEN Die
       ELSE mode' = "resume" /\ UNCHANGED <<mid, rpcVars, runVars>>
  /\ UNCHANGED <<dbVars, fileVars, procVars, hostVars>>

\* Resumed launches run one after the other, before the server accepts commands.
LaunchResumed(a) ==
  /\ mode = "resume" /\ mid = Idle /\ lpc[a] = "resume"
  /\ \A b \in Attempt : lpc[b] \in {"none", "resume"}
  /\ lpc' = [lpc EXCEPT ![a] = "barrier"]
  /\ UNCHANGED <<dbVars, fileVars, procVars, rpcVars, cur, ctlVars>>

\* startServer: listen fails on a socket file that is already there, and the Daemon ends.
StartupDone ==
  /\ mode = "resume" /\ mid = Idle /\ \A a \in Attempt : lpc[a] = "none"
  /\ IF "socket" \in obstacle
       THEN Die
       ELSE mode' = "up" /\ UNCHANGED <<mid, rpcVars, runVars>>
  /\ UNCHANGED <<dbVars, fileVars, procVars, hostVars>>

-----------------------------------------------------------------------------
Init ==
  /\ task = [t \in Task |-> "Draft"] /\ taskOf = [a \in Attempt |-> NoTask]
  /\ attempt = [a \in Attempt |-> "None"] /\ ready = [a \in Attempt |-> FALSE]
  /\ slot = [a \in Attempt |-> "none"] /\ intent = [a \in Attempt |-> "None"]
  /\ commitSent = [a \in Attempt |-> FALSE] /\ result = [a \in Attempt |-> "none"]
  /\ disp = [a \in Attempt |-> "none"] /\ session = [a \in Attempt |-> "none"]
  /\ full = [a \in Attempt |-> FALSE]
  /\ receipt = [a \in Attempt |-> NoBoot] /\ execReceipt = [a \in Attempt |-> NoBoot]
  /\ commitFile = [a \in Attempt |-> FALSE] /\ abortFile = [a \in Attempt |-> FALSE]
  /\ proc = [a \in Attempt |-> [b \in Boot |-> "unborn"]]
  /\ signalled = [a \in Attempt |-> {}] /\ execed = [a \in Attempt |-> {}]
  /\ retitled = [a \in Attempt |-> {}]
  /\ rpc = [a \in Attempt |-> "none"] /\ pick = [a \in Attempt |-> NoAttempt]
  /\ lpc = [a \in Attempt |-> "none"] /\ cur = [a \in Attempt |-> NoBoot]
  /\ mode = "up" /\ mid = Idle /\ crashes = 0 /\ obstacle = {}

CommandStep ==
  \/ \E t \in Task : Start(t) \/ CancelTask(t)
  \/ \E t \in Task : \E src \in TaskAttempts(t) : Retry(t, src) \/ Resume(t, src)
  \/ \E a \in Attempt : Replay(a) \/ RequestAttemptStop(a) \/ TerminateSession(a)

RouterStep(a) ==
  Provisioned(a) \/ ProvisionFailed(a) \/ ScheduleSelect(a) \/ ScheduleClaim(a)

\* Bug: the waits for the receipt and for the Agent have no timer.
BugLaunchStep(a) ==
  \/ SpawnBootstrap(a) \/ SpawnFails(a) \/ Authorize(a)
  \/ ValidationFails(a) \/ WriteCommit(a) \/ LaunchRejected(a)
  \/ \E isFull \in BOOLEAN : (isFull \/ RestartMayFollow) /\ FinalizeRunning(a, isFull)
LaunchStep(a) ==
  \/ SpawnBootstrap(a) \/ SpawnFails(a) \/ ReceiptLost(a) \/ Authorize(a)
  \/ ValidationFails(a) \/ WriteCommit(a) \/ MarkUncertain(a) \/ LaunchRejected(a)
  \/ \E isFull \in BOOLEAN : (isFull \/ RestartMayFollow) /\ FinalizeRunning(a, isFull)

DueStep(a) == WriteAbort(a) \/ RecordCommitSent(a) \/ SignalStop(a)

BootstrapStep(a, b) ==
  \/ Connect(a, b) \/ WriteReceipt(a, b) \/ TearReceipt(a, b) \/ TakeCommit(a, b)
  \/ TearExecReceipt(a, b) \/ ExecAgent(a, b) \/ AgentRetitled(a, b) \/ ProcessExits(a, b)

ReconcileStep(a) ==
  \/ ProbeSession(a)
  \/ \E d \in ProcessDisposition, dataGap \in BOOLEAN : ResolveSession(a, d, dataGap)
  \/ ResumePrepared(a) \/ AbortUnsent(a)
  \/ \E d \in ProcessDisposition : ResolveSent(a, d)
  \/ LaunchResumed(a)

PhaseStep ==
  \/ Restart \/ SessionsDone \/ IntentsDone \/ ReconcileSlotLeases \/ RebuildSnapshots
  \/ StartupDone

HostStep == Crash \/ OutputOutgrowsSnapshot \/ RemoveSocket

Next ==
  \/ CommandStep \/ PhaseStep \/ HostStep
  \/ \E a \in Attempt : RouterStep(a) \/ LaunchStep(a) \/ DueStep(a) \/ RecordExit(a) \/ ReconcileStep(a)
  \/ \E a \in Attempt, b \in Boot : BootstrapStep(a, b)

Spec == Init /\ [][Next]_vars

\* What the scheduling gives: the event loop runs every continuation and exit
\* callback that is ready, every wait of a launch has a timer, LaunchAgent
\* restarts a dead Daemon, and a process that was sent SIGHUP ends.  Commands,
\* an Agent's own end, a bootstrap's progress and the end of what stands in the
\* Daemon's way are promised by nobody.
SignalledExits(a, b) == b \in signalled[a] /\ ProcessExits(a, b)
Fairness ==
  /\ WF_vars(PhaseStep)
  /\ \A a \in Attempt : /\ WF_vars(RouterStep(a)) /\ WF_vars(LaunchStep(a))
                        /\ WF_vars(DueStep(a)) /\ WF_vars(RecordExit(a))
                        /\ WF_vars(ReconcileStep(a))
  /\ \A a \in Attempt, b \in Boot : WF_vars(SignalledExits(a, b))
FairSpec == Spec /\ Fairness

-----------------------------------------------------------------------------
(* Safety.                                                                  *)

HasAgent(a) == \E b \in Boot : proc[a][b] \in {"execing", "agent"}

\* One nonce starts the Agent at most once, whatever crashes and resumed launches
\* do to the handshake: several bootstraps of one Attempt may be alive at a time,
\* but only the one whose receipt is on disk waits for, and can take, the commit.
AtMostOneExec == \A a \in Attempt : \A b, c \in execed[a] : b = c

\* The Agent runs only under an intent that was Authorized and never aborted, with
\* CommitLaunch on disk; so an aborted nonce is dead for good.
ExecOnlyAuthorized ==
  \A a \in Attempt :
    execed[a] # {} \/ HasAgent(a) => intent[a] = "Authorized" /\ commitFile[a]

\* AbortLaunch and CommitLaunch are never both on disk: the order of the two
\* existence tests in the bootstrap's poll cannot matter.
OneSignal == \A a \in Attempt : ~(commitFile[a] /\ abortFile[a])

\* The Host slot is exclusive, through scheduling, stops, exits, and the
\* recomputation of every lease at restart.  idx_slot_leases_active_host would
\* refuse a second active lease by failing the transaction, at restart the whole
\* startup: the property says that neither ever asks for one.
SlotExclusive == \A a, b \in Attempt : slot[a] = "held" /\ slot[b] = "held" => a = b

\* An Attempt that may own a process holds the slot, and an Uncertain one holds it
\* exactly as its Process Disposition says (RT-SCHED-04).
SlotFollowsStatus ==
  \A a \in Attempt :
    /\ attempt[a] \in {"Starting", "Running", "Stopping"} => slot[a] = "held"
    /\ attempt[a] = "Uncertain" =>
         disp[a] # "none" /\ (slot[a] = "held" <=> DispositionHoldsSlot(disp[a]))

\* A Session is Alive exactly while its Attempt is Running or Stopping, across
\* exits, stops and the Lost sessions of a restart.
SessionMatchesAttempt ==
  \A a \in Attempt : session[a] = "Alive" <=> attempt[a] \in {"Running", "Stopping"}

\* A settled outcome is the end of the process: behind Succeeded or Failed no Agent
\* survives and none will start; behind Interrupted the only one that may survive is an
\* Agent that has changed its command, which the restart took for another process
\* (classifyRestartSession), against RT-STATE-07.
SettledMeansGone ==
  \A a \in Attempt :
    /\ attempt[a] \in {"Succeeded", "Failed"} => ~HasAgent(a)
    /\ attempt[a] = "Interrupted" =>
         \A b \in Boot : proc[a][b] \in {"execing", "agent"} => b \in retitled[a]

\* The stored launch result agrees with the Attempt for ever: a client that
\* replays the command is never told a result the Attempt has contradicted.
ResultMatchesAttempt ==
  \A a \in Attempt :
    /\ result[a] = "failed" => attempt[a] = "Failed" /\ intent[a] = "Aborted"
    /\ result[a] = "uncertain" => attempt[a] = "Uncertain"
    /\ result[a] = "running" => session[a] # "none"

\* One nonce, one Agent: it is started at most once, only by a permission, and what is
\* on disk and in the stored answer never says two things of it (#launchWithExecBarrier
\* and bootstrap.mjs, over crashes and resumed launches).
LaunchSound == AtMostOneExec /\ ExecOnlyAuthorized /\ OneSignal /\ ResultMatchesAttempt

\* The slot, the Attempt's status, the Disposition and the Session are four rows written
\* by a dozen transactions: they agree after each of them (#releaseSlot,
\* #reconcileSlotLeases, #settleAttemptIfComplete).
SlotSound == SlotExclusive /\ SlotFollowsStatus /\ SessionMatchesAttempt

-----------------------------------------------------------------------------
(* Action properties.                                                       *)

\* Terminal Attempts are never rewritten (RT-STATE-05), by a late exit, a late
\* launch continuation or a restart.
TerminalIsFinal ==
  [][\A a \in Attempt : attempt[a] \in TerminalAttempt => attempt'[a] = attempt[a]]_vars

\* A lost or exited Session is not revived, and the Attempt ends in the step in
\* which its Session does.
SessionEndsWithAttempt ==
  [][\A a \in Attempt :
       /\ session[a] \in {"Exited", "Lost"} => session'[a] = session[a]
       /\ session[a] = "Alive" /\ session'[a] # "Alive" => attempt'[a] \in TerminalAttempt]_vars

\* What is over stays over, for Attempts and Sessions, and the two end together, in one
\* transaction, whichever of exit, stop, restart and launch comes first.
EndingsFinal == TerminalIsFinal /\ SessionEndsWithAttempt

-----------------------------------------------------------------------------
(* Liveness, under FairSpec.                                                *)

\* A launch resolves, across crashes: its Attempt does not stay Starting.  Once it is
\* authorized nothing can prevent that; before, a crash makes the restart launch again,
\* and a startup that does not get there, or whose spawn throws, leaves it Starting.
LaunchResolves ==
  \A a \in Attempt :
    /\ lpc[a] \in {"validate", "drift", "agent"} ~> attempt[a] # "Starting"
    /\ lpc[a] \in {"resume", "receipt"} ~> attempt[a] # "Starting" \/ obstacle # {}

\* A requested stop takes effect: the Attempt becomes terminal, if not by its exit then
\* in the first phase of the next startup, whether or not that startup gets to its end.
StopCompletes == \A a \in Attempt : attempt[a] = "Stopping" ~> attempt[a] \in TerminalAttempt

\* Startup Reconciliation ends, with every resumed launch, and commands are served,
\* unless a socket file, a Snapshot or a failing spawn is in the way: each of these ends
\* every start for as long as it stays (server.ts:70, session-runtime.ts:1504).
StartupCompletes == mode = "down" ~> mode = "up" \/ obstacle # {}

\* Nothing the Daemon waits for in a launch, a stop or a startup is without a timer, an
\* exit or a restart that ends the wait, but for the obstacles named above.
Resolves == LaunchResolves /\ StopCompletes /\ StartupCompletes

-----------------------------------------------------------------------------
(* Refinement: an Attempt has one nonce, and its launch implements LaunchOnce. *)

LaunchPhase ==
  [a \in Attempt |->
     IF execed[a] # {} THEN "executed"
     ELSE IF commitFile[a] THEN "permitted"
     ELSE IF intent[a] = "Aborted" THEN "forbidden" ELSE "undecided"]

Once == INSTANCE LaunchOnce WITH Nonce <- Attempt, phase <- LaunchPhase, told <- result

\* The handshake, with its files, crashes, resumed launches and torn writes, is a
\* single durable decision per nonce: every step is a step of LaunchOnce or a stutter.
ImplementsLaunchOnce == Once!Spec

-----------------------------------------------------------------------------
(* What runtime-contracts-v1.md says and the code does not keep.            *)

\* RT-SCHED-04: an ordinary terminal Attempt has released its slot.
TerminalReleasesSlot ==
  \A a \in Attempt : attempt[a] \in {"Succeeded", "Failed", "Cancelled", "Interrupted"} => slot[a] # "held"
================================================================================
