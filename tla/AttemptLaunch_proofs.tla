-------------------------- MODULE AttemptLaunch_proofs --------------------------
(***************************************************************************)
(* Proofs about AttemptLaunch, its refinement of LaunchOnce and the        *)
(* projection of FleetProjection, for every set of Tasks and every number  *)
(* of Attempts and crashes.  Five inductive invariants, each proved action *)
(* by action on top of TypeOK:                                             *)
(*   ReceiptGuardsExec  the exclusive receipt elects one bootstrap;        *)
(*   DecisionInv        the files follow the intent, and while the launch  *)
(*                      coroutine can still decide nothing is decided;     *)
(*   SlotInv            leases, statuses, Sessions and Dispositions agree. *)
(*   AnswerInv          the stored result is open where it is written;     *)
(*   FleetInv           a Task has one Attempt that is not over, its       *)
(*                      newest.                                            *)
(***************************************************************************)
EXTENDS FleetProjection, TLAPS

USE DEF vars, dbVars, fileVars, procVars, rpcVars, runVars, hostVars, ctlVars,
        taskVars, statusVars, intentVars, sessionVars

LEMMA BootFacts == NoBoot \notin Boot /\ Torn \notin Boot /\ Torn # NoBoot
BY BoundsAssumption DEF Boot, NoBoot, Torn

LEMMA TypeInit == Init => TypeOK
BY BoundsAssumption DEF Init, TypeOK, Idle, Boot, Attempt, NoBoot, NoAttempt, ProcState, Live, TaskLifecycle

LEMMA TypeCommand == TypeOK /\ CommandStep => TypeOK'
<1> SUFFICES ASSUME TypeOK, CommandStep PROVE TypeOK'
  OBVIOUS
<1>1. ASSUME NEW t \in Task, Start(t) PROVE TypeOK'
  BY <1>1 DEF TypeOK, Start, Accept, Fresh, AttemptStatus, TaskLifecycle
<1>2. ASSUME NEW t \in Task, CancelTask(t) PROVE TypeOK'
  <2>1. task' \in [Task -> TaskLifecycle]
    BY <1>2 DEF TypeOK, CancelTask, TaskLifecycle
  <2>2. ASSUME NEW a \in Attempt, StopTx(a)
        PROVE  /\ attempt' \in [Attempt -> AttemptStatus \union {"None"}]
               /\ mid' \in [kind : {"idle", "commit", "abort", "stop", "probe"},
                            a : Attempt \union {NoAttempt}]
    BY <2>2 DEF TypeOK, StopTx, StopStatus, Due, Idle, AttemptStatus
  <2>3. CASE UNCHANGED <<attempt, mid>>
    BY <1>2, <2>1, <2>3 DEF TypeOK, CancelTask
  <2>4. CASE \E a \in Attempt : StopTx(a)
    BY <1>2, <2>1, <2>2, <2>4 DEF TypeOK, CancelTask
  <2> QED
    BY <1>2, <2>3, <2>4 DEF CancelTask, ActiveAttempts, TaskAttempts
<1>3. ASSUME NEW t \in Task, NEW continue \in BOOLEAN, Accept(t, continue), UNCHANGED task PROVE TypeOK'
  BY <1>3 DEF TypeOK, Accept, Fresh, AttemptStatus
<1>4. ASSUME NEW t \in Task PROVE Continuable(t) \subseteq BOOLEAN
  <2>1. \A a \in Attempt : ready[a] \in BOOLEAN
    BY DEF TypeOK
  <2> QED
    BY <2>1, Zenon DEF Continuable, TaskAttempts
<1>5. ASSUME NEW a \in Attempt, Replay(a) PROVE TypeOK'
  BY <1>5 DEF TypeOK, Replay
<1>6. ASSUME NEW a \in Attempt, RequestAttemptStop(a) PROVE TypeOK'
  BY <1>6 DEF TypeOK, RequestAttemptStop, StopTx, StopStatus, Due, Idle, AttemptStatus
<1>7. ASSUME NEW a \in Attempt, TerminateSession(a) PROVE TypeOK'
  BY <1>7 DEF TypeOK, TerminateSession, Signal
<1> QED
  BY <1>1, <1>2, <1>3, <1>4, <1>5, <1>6, <1>7 DEF CommandStep, Retry, Resume

LEMMA TypeRouter == ASSUME TypeOK, NEW a \in Attempt, RouterStep(a) PROVE TypeOK'
<1>1. CASE Provisioned(a)
  <2> DEFINE wanted == attempt[a] = "Queued" /\ task[taskOf[a]] = "Runnable"
  <2>1. wanted \in BOOLEAN /\ ready' = [ready EXCEPT ![a] = wanted]
    BY <1>1 DEF Provisioned
  <2> HIDE DEF wanted
  <2>2. ready' \in [Attempt -> BOOLEAN]
    BY <2>1 DEF TypeOK
  <2>3. /\ rpc' = [rpc EXCEPT ![a] = "schedule"]
        /\ UNCHANGED <<task, taskOf, statusVars, intentVars, sessionVars, fileVars, procVars,
                       pick, runVars, ctlVars>>
    BY <1>1 DEF Provisioned
  <2> QED
    BY <2>2, <2>3 DEF TypeOK
<1>2. CASE ProvisionFailed(a)
  BY <1>2 DEF TypeOK, ProvisionFailed, AttemptStatus
<1>3. CASE ScheduleSelect(a)
  <2>1. CASE rpc' = [rpc EXCEPT ![a] = "none"] /\ UNCHANGED pick
    BY <1>3, <2>1 DEF TypeOK, ScheduleSelect
  <2>2. ASSUME NEW c \in Attempt, rpc' = [rpc EXCEPT ![a] = "prepare"], pick' = [pick EXCEPT ![a] = c]
        PROVE  TypeOK'
    BY <1>3, <2>2 DEF TypeOK, ScheduleSelect
  <2> QED
    BY <1>3, <2>1, <2>2 DEF ScheduleSelect, Candidate, Schedulable
<1>4. CASE ScheduleClaim(a)
  <2>1. CASE HasActiveSlot \/ pick[a] \notin Candidate
    BY <1>4, <2>1 DEF TypeOK, ScheduleClaim
  <2>2. CASE ~(HasActiveSlot \/ pick[a] \notin Candidate)
    <3>1. pick[a] \in Attempt
      BY <2>2 DEF Candidate, Schedulable
    <3>2. /\ lpc' = [lpc EXCEPT ![pick[a]] = IF pick[a] = a THEN "barrier" ELSE @]
          /\ slot' = [slot EXCEPT ![pick[a]] = "held"]
          /\ attempt' = [attempt EXCEPT ![pick[a]] = "Starting"]
          /\ intent' = [intent EXCEPT ![pick[a]] = "Prepared"]
      BY <1>4, <2>2 DEF ScheduleClaim
    <3>3. lpc' \in [Attempt -> {"none", "resume", "barrier", "receipt", "validate", "drift", "agent"}]
      BY <3>1, <3>2 DEF TypeOK
    <3>4. /\ slot' \in [Attempt -> {"none", "held", "released"}]
          /\ attempt' \in [Attempt -> AttemptStatus \union {"None"}]
          /\ intent' \in [Attempt -> LaunchIntentStatus \union {"None"}]
      BY <3>1, <3>2 DEF TypeOK, AttemptStatus, LaunchIntentStatus
    <3>5. /\ rpc' \in [Attempt -> {"none", "provision", "schedule", "prepare"}]
          /\ pick' \in [Attempt -> Attempt \union {NoAttempt}]
      BY <1>4 DEF TypeOK, ScheduleClaim
    <3>6. UNCHANGED <<taskVars, disp, commitSent, result, sessionVars, fileVars, procVars, cur, ctlVars>>
      BY <1>4 DEF ScheduleClaim
    <3> QED
      BY <3>3, <3>4, <3>5, <3>6 DEF TypeOK
  <2> QED
    BY <2>1, <2>2
<1> QED
  BY <1>1, <1>2, <1>3, <1>4 DEF RouterStep

\* What the three transactions the launch shares write.
LEMMA AbortTxType ==
  ASSUME TypeOK, NEW a \in Attempt, AbortTx(a)
  PROVE  /\ intent' \in [Attempt -> LaunchIntentStatus \union {"None"}]
         /\ result' \in [Attempt -> {"none", "running", "failed", "uncertain"}]
         /\ attempt' \in [Attempt -> AttemptStatus \union {"None"}]
         /\ slot' \in [Attempt -> {"none", "held", "released"}]
BY DEF TypeOK, AbortTx, LaunchIntentStatus, AttemptStatus

LEMMA UncertainTxType ==
  ASSUME TypeOK, NEW a \in Attempt, NEW d \in ProcessDisposition, UncertainTx(a, d)
  PROVE  /\ result' \in [Attempt -> {"none", "running", "failed", "uncertain"}]
         /\ attempt' \in [Attempt -> AttemptStatus \union {"None"}]
         /\ slot' \in [Attempt -> {"none", "held", "released"}]
         /\ disp' \in [Attempt -> ProcessDisposition \union {"none"}]
BY DEF TypeOK, UncertainTx, ReleaseSlot, AttemptStatus

\* A Daemon that dies forgets; what it had written keeps its type.
LEMMA TypeDie ==
  ASSUME TypeOK, Die, UNCHANGED <<dbVars, fileVars, procVars>>,
         crashes' \in 0 .. MaxCrashes, obstacle' \subseteq Obstacles
  PROVE  TypeOK'
BY BootFacts DEF TypeOK, Die, Idle, NoBoot, NoAttempt

\* A launch that cannot spawn returns without a trace, or ends the Daemon.
LEMMA SpawnFailsFrame ==
  ASSUME NEW a \in Attempt, SpawnFails(a)
  PROVE  /\ UNCHANGED <<dbVars, fileVars, procVars, crashes>>
         /\ Die \/ (lpc' = [lpc EXCEPT ![a] = "none"] /\ UNCHANGED <<mode, mid, rpcVars, cur>>)
BY DEF SpawnFails

\* But for the recomputation of the leases, a phase writes nothing: it moves on, or the
\* Daemon dies.
LEMMA PhaseFrame ==
  ASSUME PhaseStep \/ HostStep, ~ReconcileSlotLeases
  PROVE  /\ UNCHANGED <<dbVars, fileVars, procVars>>
         /\ \/ Die
            \/ /\ UNCHANGED <<mid, rpcVars, runVars>>
               /\ mode \in {"resume", "up"} => mode' \in {"resume", "up"}
<1>1. CASE Restart \/ SessionsDone \/ IntentsDone
  BY <1>1 DEF Restart, SessionsDone, IntentsDone
<1>2. CASE RebuildSnapshots \/ StartupDone
  BY <1>2 DEF RebuildSnapshots, StartupDone
<1>3. CASE HostStep
  BY <1>3 DEF HostStep, Crash, OutputOutgrowsSnapshot, RemoveSocket
<1> QED
  BY <1>1, <1>2, <1>3 DEF PhaseStep

LEMMA TypeLaunch == ASSUME TypeOK, NEW a \in Attempt, LaunchStep(a) PROVE TypeOK'
<1>1. CASE SpawnBootstrap(a)
  BY <1>1 DEF TypeOK, SpawnBootstrap, ProcState, Live
<1>2. CASE SpawnFails(a)
  <2>1. CASE Die /\ obstacle' = obstacle \union {"spawn"}
    BY <1>2, <2>1, TypeDie DEF SpawnFails, TypeOK
  <2>2. CASE lpc' = [lpc EXCEPT ![a] = "none"] /\ UNCHANGED <<mode, mid, obstacle, rpcVars, cur>>
    BY <1>2, <2>2 DEF TypeOK, SpawnFails
  <2> QED
    BY <1>2, <2>1, <2>2 DEF SpawnFails
<1>3. CASE ReceiptLost(a)
  <2>1. signalled' \in [Attempt -> SUBSET Boot]
    BY <1>3 DEF TypeOK, ReceiptLost, Signal, Live
  <2>2. CASE AbortTx(a)
    BY <1>3, <2>1, <2>2, AbortTxType DEF TypeOK, ReceiptLost
  <2>3. CASE UNCHANGED <<intent, result, attempt, slot>>
    BY <1>3, <2>1, <2>3 DEF TypeOK, ReceiptLost
  <2> QED
    BY <1>3, <2>2, <2>3 DEF ReceiptLost
<1>4. CASE Authorize(a)
  BY <1>4 DEF TypeOK, Authorize, LaunchIntentStatus
<1>5. CASE ValidationFails(a)
  <2>1. CASE AbortTx(a) /\ mid' = Due("abort", a) /\ UNCHANGED lpc
    BY <1>5, <2>1, AbortTxType DEF TypeOK, ValidationFails, Due
  <2>2. CASE lpc' = [lpc EXCEPT ![a] = "none"] /\ UNCHANGED <<intent, result, attempt, slot, mid>>
    BY <1>5, <2>2 DEF TypeOK, ValidationFails
  <2> QED
    BY <1>5, <2>1, <2>2 DEF ValidationFails
<1>6. CASE WriteCommit(a)
  BY <1>6 DEF TypeOK, WriteCommit, Due
<1>7. CASE MarkUncertain(a)
  BY <1>7, UncertainTxType DEF TypeOK, MarkUncertain, ProcessDisposition
<1>8. CASE LaunchRejected(a)
  BY <1>8 DEF TypeOK, LaunchRejected
<1>9. ASSUME NEW isFull \in BOOLEAN, FinalizeRunning(a, isFull) PROVE TypeOK'
  BY <1>9 DEF TypeOK, FinalizeRunning, AttemptStatus, SessionAvailability
<1> QED
  BY <1>1, <1>2, <1>3, <1>4, <1>5, <1>6, <1>7, <1>8, <1>9 DEF LaunchStep

LEMMA TypeDaemon == ASSUME TypeOK, NEW a \in Attempt, DueStep(a) \/ RecordExit(a) PROVE TypeOK'
<1>1. CASE WriteAbort(a)
  BY <1>1 DEF TypeOK, WriteAbort, Signal, Idle
<1>2. CASE RecordCommitSent(a)
  BY <1>2 DEF TypeOK, RecordCommitSent, Idle
<1>3. CASE SignalStop(a)
  BY <1>3 DEF TypeOK, SignalStop, Signal, Idle
<1>4. CASE RecordExit(a)
  BY <1>4 DEF TypeOK, RecordExit, ReleaseSlot, Settlement, AttemptStatus, SessionAvailability
<1> QED
  BY <1>1, <1>2, <1>3, <1>4 DEF DueStep

LEMMA TypeBootstrap ==
  ASSUME TypeOK, NEW a \in Attempt, NEW b \in Boot, BootstrapStep(a, b) PROVE TypeOK'
<1> USE DEF Become, Dies, ProcState, Live
<1>1. CASE Connect(a, b)
  BY <1>1 DEF TypeOK, Connect
<1>2. CASE WriteReceipt(a, b)
  BY <1>2 DEF TypeOK, WriteReceipt
<1>3. CASE TearReceipt(a, b)
  BY <1>3 DEF TypeOK, TearReceipt
<1>4. CASE TakeCommit(a, b)
  BY <1>4 DEF TypeOK, TakeCommit
<1>5. CASE TearExecReceipt(a, b)
  BY <1>5 DEF TypeOK, TearExecReceipt
<1>6. CASE ExecAgent(a, b)
  BY <1>6 DEF TypeOK, ExecAgent
<1>8. CASE AgentRetitled(a, b)
  BY <1>8 DEF TypeOK, AgentRetitled
<1>7. CASE ProcessExits(a, b)
  BY <1>7 DEF TypeOK, ProcessExits
<1> QED
  BY <1>1, <1>2, <1>3, <1>4, <1>5, <1>6, <1>7, <1>8 DEF BootstrapStep

LEMMA TypeReconcile == ASSUME TypeOK, NEW a \in Attempt, ReconcileStep(a) PROVE TypeOK'
<1>1. CASE ProbeSession(a)
  BY <1>1 DEF TypeOK, ProbeSession, Due, ProcessDisposition
<1>2. ASSUME NEW d \in ProcessDisposition, NEW dataGap \in BOOLEAN, ResolveSession(a, d, dataGap)
      PROVE  TypeOK'
  BY <1>2 DEF TypeOK, ResolveSession, RestartStatus, ReleaseSlot, AttemptStatus, SessionAvailability, Idle
<1>3. CASE ResumePrepared(a)
  BY <1>3 DEF TypeOK, ResumePrepared
<1>4. CASE AbortUnsent(a)
  BY <1>4, AbortTxType DEF TypeOK, AbortUnsent, Due
<1>5. ASSUME NEW d \in ProcessDisposition, ResolveSent(a, d) PROVE TypeOK'
  BY <1>5, UncertainTxType DEF TypeOK, ResolveSent
<1>6. CASE LaunchResumed(a)
  BY <1>6 DEF TypeOK, LaunchResumed
<1> QED
  BY <1>1, <1>2, <1>3, <1>4, <1>5, <1>6 DEF ReconcileStep

LEMMA TypePhase == TypeOK /\ (PhaseStep \/ HostStep) => TypeOK'
<1> SUFFICES ASSUME TypeOK, PhaseStep \/ HostStep PROVE TypeOK'
  OBVIOUS
<1>1. CASE Restart \/ SessionsDone \/ IntentsDone
  BY <1>1 DEF TypeOK, Restart, SessionsDone, IntentsDone, RestartPhase
<1>2. CASE ReconcileSlotLeases
  BY <1>2 DEF TypeOK, ReconcileSlotLeases, NewDisp, ProcessDisposition, RestartPhase
<1>3. CASE RebuildSnapshots \/ StartupDone
  <2>1. CASE Die
    BY <1>3, <2>1, TypeDie DEF RebuildSnapshots, StartupDone, TypeOK
  <2>2. CASE mode' \in {"resume", "up"} /\ UNCHANGED <<mid, rpcVars, runVars>>
    BY <1>3, <2>2 DEF RebuildSnapshots, StartupDone, TypeOK, RestartPhase
  <2> QED
    BY <1>3, <2>1, <2>2 DEF RebuildSnapshots, StartupDone
<1>4. CASE Crash
  <2>1. crashes' \in 0 .. MaxCrashes
    BY <1>4, BoundsAssumption DEF TypeOK, Crash
  <2>2. obstacle' \subseteq Obstacles
    BY <1>4 DEF TypeOK, Crash
  <2> QED
    BY <1>4, <2>1, <2>2, TypeDie DEF Crash
<1>5. CASE OutputOutgrowsSnapshot \/ RemoveSocket
  BY <1>5 DEF TypeOK, OutputOutgrowsSnapshot, RemoveSocket
<1> QED
  BY <1>1, <1>2, <1>3, <1>4, <1>5 DEF PhaseStep, HostStep

\* Every variable keeps its type: the tables are total and every status written is one
\* the schema's CHECK constraints allow.
THEOREM TypeCorrect == Spec => []TypeOK
<1>1. TypeOK /\ [Next]_vars => TypeOK'
  <2>1. TypeOK /\ UNCHANGED vars => TypeOK'
    BY DEF TypeOK
  <2> QED
    BY <2>1, TypeCommand, TypePhase, TypeRouter, TypeLaunch, TypeDaemon, TypeBootstrap,
       TypeReconcile DEF Next
<1> QED
  BY <1>1, TypeInit, PTL DEF Spec

-----------------------------------------------------------------------------
(* One nonce, one Agent.                                                     *)

\* A bootstrap past the receipt is the one whose receipt is on disk.
PastReceipt(a, b) == proc[a][b] \in {"ready", "execing", "agent"} \/ b \in execed[a]
ReceiptGuardsExec == \A a \in Attempt, b \in Boot : PastReceipt(a, b) => receipt[a] = b

LEMMA GuardsBootstrap ==
  ASSUME TypeOK, ReceiptGuardsExec, NEW a \in Attempt, NEW b \in Boot, BootstrapStep(a, b)
  PROVE  ReceiptGuardsExec'
<1> USE DEF TypeOK, ReceiptGuardsExec, PastReceipt, Become, Dies
<1>1. CASE Connect(a, b)
  BY <1>1 DEF Connect
<1>2. CASE WriteReceipt(a, b)
  BY <1>2, BootFacts DEF WriteReceipt, Absent
<1>3. CASE TearReceipt(a, b)
  BY <1>3, BootFacts DEF TearReceipt, Absent
<1>4. CASE TakeCommit(a, b)
  BY <1>4 DEF TakeCommit
<1>5. CASE TearExecReceipt(a, b)
  BY <1>5 DEF TearExecReceipt
<1>6. CASE ExecAgent(a, b)
  BY <1>6 DEF ExecAgent
<1>8. CASE AgentRetitled(a, b)
  BY <1>8 DEF AgentRetitled
<1>7. CASE ProcessExits(a, b)
  BY <1>7 DEF ProcessExits
<1> QED
  BY <1>1, <1>2, <1>3, <1>4, <1>5, <1>6, <1>7, <1>8 DEF BootstrapStep

\* Everything else leaves the receipts alone and gives birth to bootstraps at most.
LEMMA OtherSteps ==
  ASSUME TypeOK, [Next]_vars, ~(\E a \in Attempt, b \in Boot : BootstrapStep(a, b))
  PROVE  /\ UNCHANGED <<receipt, execReceipt, execed>>
         /\ \/ UNCHANGED proc
            \/ \E a \in Attempt, b \in Boot : SpawnBootstrap(a) /\ proc' = [proc EXCEPT ![a][b] = "boot"]
<1>1. CASE UNCHANGED vars
  BY <1>1
<1>2. CASE CommandStep
  BY <1>2 DEF CommandStep, Start, CancelTask, Retry, Resume, Replay, RequestAttemptStop,
     TerminateSession, Accept
<1>3. CASE PhaseStep \/ HostStep
  BY <1>3 DEF PhaseStep, HostStep, Crash, OutputOutgrowsSnapshot, RemoveSocket, RebuildSnapshots,
     Restart, SessionsDone, IntentsDone, ReconcileSlotLeases, StartupDone
<1>4. ASSUME NEW a \in Attempt, RouterStep(a) PROVE UNCHANGED <<receipt, execReceipt, execed, proc>>
  BY <1>4 DEF RouterStep, Provisioned, ProvisionFailed, ScheduleSelect, ScheduleClaim
<1>5. ASSUME NEW a \in Attempt, LaunchStep(a), ~SpawnBootstrap(a)
      PROVE  UNCHANGED <<receipt, execReceipt, execed, proc>>
  BY <1>5, SpawnFailsFrame DEF LaunchStep, ReceiptLost, Authorize, ValidationFails,
     WriteCommit, MarkUncertain, LaunchRejected, FinalizeRunning
<1>6. ASSUME NEW a \in Attempt, SpawnBootstrap(a)
      PROVE  /\ UNCHANGED <<receipt, execReceipt, execed>>
             /\ \E b \in Boot : proc' = [proc EXCEPT ![a][b] = "boot"]
  BY <1>6 DEF SpawnBootstrap
<1>7. ASSUME NEW a \in Attempt, DueStep(a) \/ RecordExit(a)
      PROVE  UNCHANGED <<receipt, execReceipt, execed, proc>>
  BY <1>7 DEF DueStep, WriteAbort, RecordCommitSent, SignalStop, RecordExit
<1>8. ASSUME NEW a \in Attempt, ReconcileStep(a) PROVE UNCHANGED <<receipt, execReceipt, execed, proc>>
  BY <1>8 DEF ReconcileStep, ProbeSession, ResolveSession, ResumePrepared, AbortUnsent,
     ResolveSent, LaunchResumed
<1> QED
  BY <1>1, <1>2, <1>3, <1>4, <1>5, <1>6, <1>7, <1>8 DEF Next

LEMMA GuardsInv == Spec => []ReceiptGuardsExec
<1>1. Init => ReceiptGuardsExec
  BY DEF Init, ReceiptGuardsExec, PastReceipt
<1>2. TypeOK /\ ReceiptGuardsExec /\ [Next]_vars => ReceiptGuardsExec'
  <2> SUFFICES ASSUME TypeOK, ReceiptGuardsExec, [Next]_vars PROVE ReceiptGuardsExec'
    OBVIOUS
  <2>1. CASE \E a \in Attempt, b \in Boot : BootstrapStep(a, b)
    BY <2>1, GuardsBootstrap
  <2>2. CASE ~(\E a \in Attempt, b \in Boot : BootstrapStep(a, b))
    <3>1. UNCHANGED <<receipt, execed>>
      BY <2>2, OtherSteps
    <3>2. CASE UNCHANGED proc
      BY <3>1, <3>2 DEF ReceiptGuardsExec, PastReceipt
    <3>3. ASSUME NEW a \in Attempt, NEW b \in Boot, proc' = [proc EXCEPT ![a][b] = "boot"]
          PROVE  ReceiptGuardsExec'
      BY <3>1, <3>3 DEF TypeOK, ReceiptGuardsExec, PastReceipt
    <3> QED
      BY <2>2, <3>2, <3>3, OtherSteps
  <2> QED
    BY <2>1, <2>2
<1> QED
  BY <1>1, <1>2, TypeCorrect, PTL DEF Spec

\* One nonce starts the Agent at most once, for any number of Attempts, crashes and
\* resumed launches: the exclusive receipt elects the one bootstrap that may exec.
THEOREM OneExec == Spec => []AtMostOneExec
<1>1. TypeOK /\ ReceiptGuardsExec => AtMostOneExec
  BY DEF TypeOK, ReceiptGuardsExec, PastReceipt, AtMostOneExec
<1> QED
  BY <1>1, TypeCorrect, GuardsInv, PTL

-----------------------------------------------------------------------------
(* The decision on a nonce.                                                  *)

\* No intent before scheduling, and no launch coroutine without an intent.
IntentStarts ==
  \A a \in Attempt :
    /\ attempt[a] \in {"None", "Queued"} => intent[a] = "None"
    /\ intent[a] = "None" => lpc[a] = "none"

\* While the launch can still decide, nothing is decided: `due' excepts the two
\* writes that the coroutine has begun.
Deciding(a) == mid # Due("commit", a) /\ mid # Due("abort", a)
LaunchUndecided ==
  \A a \in Attempt :
    /\ lpc[a] \in {"resume", "barrier", "receipt"} => intent[a] = "Prepared"
    /\ lpc[a] \in {"validate", "drift"} /\ Deciding(a) => intent[a] = "Authorized" /\ ~commitFile[a]

\* The files follow the decision.
FilesFollowIntent ==
  \A a \in Attempt :
    /\ commitFile[a] => intent[a] = "Authorized"
    /\ mid = Due("commit", a) => commitFile[a]
    /\ abortFile[a] \/ mid = Due("abort", a) => intent[a] = "Aborted"
    /\ HasAgent(a) \/ execed[a] # {} => commitFile[a]

DecisionInv == IntentStarts /\ LaunchUndecided /\ FilesFollowIntent

\* What DecisionInv speaks of.
decisionVars == <<attempt, intent, lpc, mid, commitFile, abortFile, proc, execed>>

LEMMA DecisionUnchanged == DecisionInv /\ UNCHANGED decisionVars => DecisionInv'
BY DEF DecisionInv, decisionVars, IntentStarts, LaunchUndecided, FilesFollowIntent, Deciding, HasAgent, Due

\* The pending writes of different kinds and of different Attempts are different.
LEMMA DueFacts ==
  \A a, c \in Attempt : \A j, k \in {"commit", "abort", "stop", "probe"} :
    /\ Due(k, a) # Idle
    /\ Due(j, a) = Due(k, c) => j = k /\ a = c
BY DEF Due, Idle

\* What the Daemon forgets was not decided.
LEMMA DecisionDie ==
  ASSUME TypeOK, DecisionInv, Die, UNCHANGED <<dbVars, fileVars, procVars>> PROVE DecisionInv'
BY DueFacts DEF Die, DecisionInv, IntentStarts, LaunchUndecided, FilesFollowIntent, Deciding, HasAgent, TypeOK

LEMMA DecisionCommand == TypeOK /\ DecisionInv /\ CommandStep => DecisionInv'
<1> SUFFICES ASSUME TypeOK, DecisionInv, CommandStep PROVE DecisionInv'
  OBVIOUS
<1> USE DEF DecisionInv, IntentStarts, LaunchUndecided, FilesFollowIntent, Deciding, HasAgent, TypeOK
<1>1. ASSUME NEW t \in Task, NEW continue, Accept(t, continue) PROVE DecisionInv'
  BY <1>1 DEF Accept, Fresh
<1>2. ASSUME NEW a \in Attempt, StopTx(a), mid = Idle, Nonterminal(a),
             UNCHANGED <<intent, lpc, commitFile, abortFile, proc, execed>>
      PROVE  DecisionInv'
  BY <1>2, DueFacts DEF StopTx, StopStatus, Nonterminal
<1>3. ASSUME NEW t \in Task, CancelTask(t) PROVE DecisionInv'
  <2>1. CASE UNCHANGED <<attempt, mid>>
    BY <1>3, <2>1, DecisionUnchanged DEF CancelTask, decisionVars
  <2> QED
    BY <1>2, <1>3, <2>1 DEF CancelTask, ActiveAttempts, TaskAttempts, Serving
<1>4. ASSUME NEW a \in Attempt, Replay(a) \/ TerminateSession(a) PROVE DecisionInv'
  BY <1>4, DecisionUnchanged DEF Replay, TerminateSession, decisionVars
<1>5. ASSUME NEW a \in Attempt, RequestAttemptStop(a) PROVE DecisionInv'
  BY <1>2, <1>5 DEF RequestAttemptStop, Serving
<1> QED
  BY <1>1, <1>3, <1>4, <1>5 DEF CommandStep, Start, Retry, Resume

LEMMA DecisionRouter == ASSUME TypeOK, DecisionInv, NEW a \in Attempt, RouterStep(a) PROVE DecisionInv'
<1>1. CASE Provisioned(a) \/ ScheduleSelect(a)
  BY <1>1, DecisionUnchanged DEF Provisioned, ScheduleSelect, decisionVars
<1> USE DEF DecisionInv, IntentStarts, LaunchUndecided, FilesFollowIntent, Deciding, HasAgent, TypeOK
<1>2. CASE ProvisionFailed(a)
  BY <1>2 DEF ProvisionFailed
<1>3. CASE ScheduleClaim(a)
  <2>1. CASE UNCHANGED <<attempt, slot, intent, lpc>>
    BY <1>3, <2>1, DecisionUnchanged DEF ScheduleClaim, decisionVars
  <2>2. CASE ~(HasActiveSlot \/ pick[a] \notin Candidate)
    <3>1. pick[a] \in Attempt /\ attempt[pick[a]] = "Queued"
      BY <2>2 DEF Candidate, Schedulable
    <3>2. lpc[pick[a]] = "none" /\ ~commitFile[pick[a]] /\ ~abortFile[pick[a]] /\ mid = Idle
      BY <1>3, <3>1 DEF ScheduleClaim, Serving
    <3>3. /\ lpc' = [lpc EXCEPT ![pick[a]] = IF pick[a] = a THEN "barrier" ELSE @]
          /\ attempt' = [attempt EXCEPT ![pick[a]] = "Starting"]
          /\ intent' = [intent EXCEPT ![pick[a]] = "Prepared"]
          /\ UNCHANGED <<mid, commitFile, abortFile, proc, execed>>
      BY <1>3, <2>2 DEF ScheduleClaim
    <3> QED
      BY <3>1, <3>2, <3>3, DueFacts
  <2> QED
    BY <1>3, <2>1, <2>2 DEF ScheduleClaim
<1> QED
  BY <1>1, <1>2, <1>3 DEF RouterStep

\* An abort taken before the commit is out.
LEMMA DecisionAbort ==
  ASSUME TypeOK, DecisionInv, NEW a \in Attempt, AbortTx(a), ~commitFile[a], mid = Idle,
         \/ mid' = Due("abort", a) /\ lpc[a] \notin {"resume", "barrier", "receipt"}
         \/ mid' = Idle /\ lpc'[a] = "none",
         \A c \in Attempt : lpc'[c] \in {lpc[c], "none"},
         UNCHANGED <<commitFile, abortFile, proc, execed>>
  PROVE  DecisionInv'
BY DueFacts DEF AbortTx, DecisionInv, IntentStarts, LaunchUndecided, FilesFollowIntent, Deciding, HasAgent, TypeOK

LEMMA DecisionLaunch == ASSUME TypeOK, DecisionInv, NEW a \in Attempt, LaunchStep(a) PROVE DecisionInv'
<1> USE DEF DecisionInv, IntentStarts, LaunchUndecided, FilesFollowIntent, Deciding, HasAgent, TypeOK
<1>1. CASE SpawnBootstrap(a)
  BY <1>1 DEF SpawnBootstrap
<1>2. CASE SpawnFails(a)
  BY <1>2, SpawnFailsFrame, DecisionDie
<1>9. CASE LaunchRejected(a)
  BY <1>9 DEF LaunchRejected
<1>3. CASE ReceiptLost(a)
  <2>1. ~commitFile[a] /\ mid = Idle
    BY <1>3 DEF ReceiptLost, Looping
  <2>2. CASE AbortTx(a)
    BY <1>3, <2>1, <2>2, DecisionAbort DEF ReceiptLost
  <2>3. CASE UNCHANGED <<intent, result, attempt, slot>>
    BY <1>3, <2>3 DEF ReceiptLost
  <2> QED
    BY <1>3, <2>2, <2>3 DEF ReceiptLost
<1>4. CASE Authorize(a)
  <2>1. intent[a] = "Prepared" /\ mid = Idle
    BY <1>4 DEF Authorize, Looping
  <2> QED
    BY <1>4, <2>1, DueFacts DEF Authorize
<1>5. CASE ValidationFails(a)
  <2>1. ~commitFile[a] /\ mid = Idle
    BY <1>5, DueFacts DEF ValidationFails, Looping
  <2>2. CASE AbortTx(a) /\ mid' = Due("abort", a) /\ UNCHANGED lpc
    <3>1. lpc[a] \notin {"resume", "barrier", "receipt"} /\ UNCHANGED <<commitFile, abortFile, proc, execed>>
      BY <1>5 DEF ValidationFails
    <3>2. \A c \in Attempt : lpc'[c] \in {lpc[c], "none"}
      BY <2>2
    <3> QED
      BY <2>1, <2>2, <3>1, <3>2, DecisionAbort
  <2>3. CASE lpc' = [lpc EXCEPT ![a] = "none"] /\ UNCHANGED <<intent, result, attempt, slot, mid>>
    BY <1>5, <2>3 DEF ValidationFails
  <2> QED
    BY <1>5, <2>2, <2>3 DEF ValidationFails
<1>6. CASE WriteCommit(a)
  BY <1>6, DueFacts DEF WriteCommit, Looping
<1>7. CASE MarkUncertain(a)
  BY <1>7 DEF MarkUncertain, UncertainTx
<1>8. ASSUME NEW isFull \in BOOLEAN, FinalizeRunning(a, isFull) PROVE DecisionInv'
  <2>1. /\ attempt' = [attempt EXCEPT ![a] = "Running"] /\ lpc' = [lpc EXCEPT ![a] = "none"]
        /\ lpc[a] = "agent" /\ UNCHANGED <<intent, mid, commitFile, abortFile, proc, execed>>
    BY <1>8 DEF FinalizeRunning
  <2>2. IntentStarts'
    BY <2>1
  <2>3. LaunchUndecided'
    BY <2>1
  <2>4. FilesFollowIntent'
    BY <2>1
  <2> QED
    BY <2>2, <2>3, <2>4
<1> HIDE DEF DecisionInv, IntentStarts, LaunchUndecided, FilesFollowIntent, Deciding, HasAgent, TypeOK
<1> QED
  BY <1>1, <1>2, <1>3, <1>4, <1>5, <1>6, <1>7, <1>8, <1>9 DEF LaunchStep

LEMMA DecisionDaemon ==
  ASSUME TypeOK, DecisionInv, NEW a \in Attempt, DueStep(a) \/ RecordExit(a) PROVE DecisionInv'
<1> USE DEF DecisionInv, IntentStarts, LaunchUndecided, FilesFollowIntent, Deciding, HasAgent, TypeOK
<1>1. CASE WriteAbort(a)
  BY <1>1, DueFacts DEF WriteAbort
<1>2. CASE RecordCommitSent(a)
  BY <1>2, DueFacts DEF RecordCommitSent
<1>3. CASE SignalStop(a)
  BY <1>3, DueFacts DEF SignalStop
<1>4. CASE RecordExit(a)
  BY <1>4 DEF RecordExit, Settlement
<1> QED
  BY <1>1, <1>2, <1>3, <1>4 DEF DueStep

LEMMA DecisionBootstrap ==
  ASSUME TypeOK, DecisionInv, NEW a \in Attempt, NEW b \in Boot, BootstrapStep(a, b)
  PROVE  DecisionInv'
<1> USE DEF DecisionInv, IntentStarts, LaunchUndecided, FilesFollowIntent, Deciding, HasAgent, TypeOK
<1>1. UNCHANGED <<attempt, intent, lpc, mid, commitFile, abortFile>>
  BY DEF BootstrapStep, Connect, WriteReceipt, TearReceipt, TakeCommit, TearExecReceipt, ExecAgent, AgentRetitled, ProcessExits
<1>2. \A c \in Attempt : HasAgent(c)' \/ execed'[c] # {} => commitFile[c]
  <2> USE DEF Become, Dies
  <2>1. CASE Connect(a, b) \/ WriteReceipt(a, b)
    <3>1. UNCHANGED execed /\ \E s \in {"linked", "ready"} : proc' = [proc EXCEPT ![a][b] = s]
      BY <2>1 DEF Connect, WriteReceipt
    <3>2. \A c \in Attempt, e \in Boot :
            proc'[c][e] \in {"execing", "agent"} => proc[c][e] \in {"execing", "agent"}
      BY <3>1
    <3> QED
      BY <3>1, <3>2
  <2>2. CASE TearReceipt(a, b) \/ TearExecReceipt(a, b) \/ ProcessExits(a, b)
    <3>1. UNCHANGED <<execed, commitFile>> /\ proc' = [proc EXCEPT ![a][b] = "dead"]
      BY <2>2 DEF TearReceipt, TearExecReceipt, ProcessExits
    <3>2. \A c \in Attempt, e \in Boot :
            proc'[c][e] \in {"execing", "agent"} => proc[c][e] \in {"execing", "agent"}
      BY <3>1
    <3> QED
      BY <3>1, <3>2
  <2>3. CASE TakeCommit(a, b)
    BY <2>3 DEF TakeCommit, Committed
  <2>4. CASE ExecAgent(a, b)
    BY <2>4 DEF ExecAgent
  <2>5. CASE AgentRetitled(a, b)
    BY <2>5 DEF AgentRetitled
  <2> QED
    BY <2>1, <2>2, <2>3, <2>4, <2>5 DEF BootstrapStep
<1> QED
  BY <1>1, <1>2

LEMMA DecisionReconcile ==
  ASSUME TypeOK, DecisionInv, NEW a \in Attempt, ReconcileStep(a) PROVE DecisionInv'
<1> USE DEF DecisionInv, IntentStarts, LaunchUndecided, FilesFollowIntent, Deciding, HasAgent, TypeOK
<1>1. CASE ProbeSession(a)
  BY <1>1, DueFacts DEF ProbeSession
<1>2. ASSUME NEW d \in ProcessDisposition, NEW dataGap \in BOOLEAN, ResolveSession(a, d, dataGap)
      PROVE  DecisionInv'
  BY <1>2, DueFacts DEF ResolveSession, RestartStatus
<1>3. CASE ResumePrepared(a)
  BY <1>3 DEF ResumePrepared, Unfinished
<1>4. CASE AbortUnsent(a)
  BY <1>4, DecisionAbort DEF AbortUnsent, Unfinished, CommitMayBeOut
<1>5. ASSUME NEW d \in ProcessDisposition, ResolveSent(a, d) PROVE DecisionInv'
  BY <1>5 DEF ResolveSent, UncertainTx
<1>6. CASE LaunchResumed(a)
  <2>1. /\ lpc' = [lpc EXCEPT ![a] = "barrier"] /\ lpc[a] = "resume" /\ mid = Idle
        /\ UNCHANGED <<attempt, intent, mid, commitFile, abortFile, proc, execed>>
    BY <1>6 DEF LaunchResumed
  <2>2. IntentStarts'
    BY <2>1
  <2>3. LaunchUndecided'
    BY <2>1
  <2>4. FilesFollowIntent'
    BY <2>1
  <2> QED
    BY <2>2, <2>3, <2>4
<1> QED
  BY <1>1, <1>2, <1>3, <1>4, <1>5, <1>6 DEF ReconcileStep

LEMMA DecisionPhase == TypeOK /\ DecisionInv /\ (PhaseStep \/ HostStep) => DecisionInv'
<1> SUFFICES ASSUME TypeOK, DecisionInv, PhaseStep \/ HostStep PROVE DecisionInv'
  OBVIOUS
<1>1. CASE ReconcileSlotLeases
  BY <1>1, DecisionUnchanged DEF ReconcileSlotLeases, decisionVars
<1>2. CASE Die /\ UNCHANGED <<dbVars, fileVars, procVars>>
  BY <1>2, DecisionDie
<1>3. CASE UNCHANGED <<dbVars, fileVars, procVars, mid, rpcVars, runVars>>
  BY <1>3, DecisionUnchanged DEF decisionVars
<1> QED
  BY <1>1, <1>2, <1>3, PhaseFrame

LEMMA DecisionCorrect == Spec => []DecisionInv
<1>1. Init => DecisionInv
  BY DueFacts DEF Init, DecisionInv, IntentStarts, LaunchUndecided, FilesFollowIntent, HasAgent
<1>2. TypeOK /\ DecisionInv /\ [Next]_vars => DecisionInv'
  <2>1. DecisionInv /\ UNCHANGED vars => DecisionInv'
    BY DecisionUnchanged DEF decisionVars
  <2> QED
    BY <2>1, DecisionCommand, DecisionPhase, DecisionRouter, DecisionLaunch, DecisionDaemon,
       DecisionBootstrap, DecisionReconcile DEF Next
<1> QED
  BY <1>1, <1>2, TypeCorrect, PTL DEF Spec

\* The Agent runs only under an Authorized intent whose CommitLaunch is on disk, for any
\* number of Attempts and crashes: an aborted nonce never starts an Agent.
THEOREM ExecAuthorized == Spec => []ExecOnlyAuthorized
<1>1. DecisionInv => ExecOnlyAuthorized
  BY DEF DecisionInv, FilesFollowIntent, ExecOnlyAuthorized
<1> QED
  BY <1>1, DecisionCorrect, PTL

\* CommitLaunch and AbortLaunch never both exist, whatever the Daemon's crashes separate.
THEOREM SignalsExclusive == Spec => []OneSignal
<1>1. DecisionInv => OneSignal
  BY DEF DecisionInv, FilesFollowIntent, OneSignal
<1> QED
  BY <1>1, DecisionCorrect, PTL

-----------------------------------------------------------------------------
(* The slot.                                                                 *)

ProbedIsAlive == \A a \in Attempt : mid = Due("probe", a) => session[a] = "Alive"
NeverWaiting == \A a \in Attempt : attempt[a] # "Waiting"

\* There is no Session before its launch is finalized.
LaunchHasNoSession ==
  \A a \in Attempt :
    lpc[a] # "none" \/ mid = Due("commit", a) \/ attempt[a] \in {"None", "Queued", "Starting"}
      => session[a] = "none"

SlotInv ==
  /\ SlotExclusive /\ SlotFollowsStatus /\ SessionMatchesAttempt
  /\ ProbedIsAlive /\ NeverWaiting /\ LaunchHasNoSession

\* What SlotInv speaks of.
slotVars == <<attempt, slot, disp, session, lpc, mid>>

LEMMA SlotUnchanged == SlotInv /\ UNCHANGED slotVars => SlotInv'
BY DEF SlotInv, slotVars, SlotExclusive, SlotFollowsStatus, SessionMatchesAttempt, ProbedIsAlive,
   NeverWaiting, LaunchHasNoSession, Due

\* The lifecycle table, read backwards.
LEMMA TableFacts ==
  /\ \A s : AttemptCan(s, "Failed") => s \in {"Queued", "Starting", "Running", "Waiting", "Stopping"}
  /\ \A s : AttemptCan(s, "Running") => s \in {"Starting", "Waiting"}
  /\ \A s : AttemptCan(s, "Uncertain") => s \in {"Starting", "Running", "Waiting", "Stopping"}
BY DEF AttemptCan, AttemptNext

LEMMA SlotDie ==
  ASSUME TypeOK, SlotInv, Die, UNCHANGED <<dbVars, fileVars, procVars>> PROVE SlotInv'
BY DueFacts DEF Die, SlotInv, SlotExclusive, SlotFollowsStatus, SessionMatchesAttempt, ProbedIsAlive,
   NeverWaiting, LaunchHasNoSession, TypeOK

LEMMA SlotCommand == TypeOK /\ SlotInv /\ CommandStep => SlotInv'
<1> SUFFICES ASSUME TypeOK, SlotInv, CommandStep PROVE SlotInv'
  OBVIOUS
<1>1. ASSUME NEW a \in Attempt, Replay(a) \/ TerminateSession(a) PROVE SlotInv'
  BY <1>1, SlotUnchanged DEF Replay, TerminateSession, slotVars
<1> USE DEF SlotInv, SlotExclusive, SlotFollowsStatus, SessionMatchesAttempt, ProbedIsAlive,
            NeverWaiting, LaunchHasNoSession, TypeOK
<1>2. ASSUME NEW t \in Task, NEW continue, Accept(t, continue) PROVE SlotInv'
  BY <1>2 DEF Accept, Fresh
<1>3. ASSUME NEW a \in Attempt, StopTx(a), mid = Idle, Nonterminal(a), UNCHANGED <<slot, disp, session, lpc>>
      PROVE  SlotInv'
  BY <1>3, DueFacts DEF StopTx, StopStatus, Nonterminal, AttemptStatus, TerminalAttempt
<1>4. ASSUME NEW t \in Task, CancelTask(t) PROVE SlotInv'
  <2>1. CASE UNCHANGED <<attempt, mid>>
    BY <1>4, <2>1, SlotUnchanged DEF CancelTask, slotVars
  <2> QED
    BY <1>3, <1>4, <2>1 DEF CancelTask, ActiveAttempts, TaskAttempts, Serving
<1>5. ASSUME NEW a \in Attempt, RequestAttemptStop(a) PROVE SlotInv'
  BY <1>3, <1>5 DEF RequestAttemptStop, Serving
<1> QED
  BY <1>1, <1>2, <1>4, <1>5 DEF CommandStep, Start, Retry, Resume

LEMMA SlotRouter == ASSUME TypeOK, SlotInv, NEW a \in Attempt, RouterStep(a) PROVE SlotInv'
<1>1. CASE Provisioned(a) \/ ScheduleSelect(a)
  BY <1>1, SlotUnchanged DEF Provisioned, ScheduleSelect, slotVars
<1> USE DEF SlotInv, SlotExclusive, SlotFollowsStatus, SessionMatchesAttempt, ProbedIsAlive,
            NeverWaiting, LaunchHasNoSession, TypeOK
<1>2. CASE ProvisionFailed(a)
  BY <1>2 DEF ProvisionFailed
<1>3. CASE ScheduleClaim(a)
  <2>1. CASE UNCHANGED <<attempt, slot, intent, lpc>>
    BY <1>3, <2>1, SlotUnchanged DEF ScheduleClaim, slotVars
  <2>2. CASE ~(HasActiveSlot \/ pick[a] \notin Candidate)
    <3>1. pick[a] \in Attempt /\ attempt[pick[a]] = "Queued"
      BY <2>2 DEF Candidate, Schedulable
    <3>2. \A c \in Attempt : slot[c] # "held"
      BY <2>2 DEF HasActiveSlot
    <3>3. /\ slot' = [slot EXCEPT ![pick[a]] = "held"]
          /\ attempt' = [attempt EXCEPT ![pick[a]] = "Starting"]
          /\ lpc' = [lpc EXCEPT ![pick[a]] = IF pick[a] = a THEN "barrier" ELSE @]
          /\ UNCHANGED <<disp, session, mid>>
      BY <1>3, <2>2 DEF ScheduleClaim
    <3> QED
      BY <3>1, <3>2, <3>3
  <2> QED
    BY <1>3, <2>1, <2>2 DEF ScheduleClaim
<1> QED
  BY <1>1, <1>2, <1>3 DEF RouterStep

\* The two transactions that end a launch.
LEMMA SlotAbort ==
  ASSUME TypeOK, SlotInv, NEW a \in Attempt, CanAbort(a), AbortTx(a), UNCHANGED <<disp, session>>,
         session[a] # "Alive", mid = Idle, mid' \in {Idle, Due("abort", a)},
         \A c \in Attempt : lpc'[c] \in {lpc[c], "none"}
  PROVE  SlotInv'
BY DueFacts, TableFacts DEF AbortTx, CanAbort, SlotInv, SlotExclusive, SlotFollowsStatus,
   SessionMatchesAttempt, ProbedIsAlive, NeverWaiting, LaunchHasNoSession, TypeOK

LEMMA SlotUncertain ==
  ASSUME TypeOK, SlotInv, NEW a \in Attempt, NEW d \in ProcessDisposition, UncertainTx(a, d),
         session[a] # "Alive", UNCHANGED <<session, mid>>,
         \A c \in Attempt : lpc'[c] \in {lpc[c], "none"}
  PROVE  SlotInv'
<1>1. attempt[a] \in {"Starting", "Running", "Stopping"} /\ slot[a] = "held"
  BY TableFacts DEF UncertainTx, SlotInv, SlotFollowsStatus, NeverWaiting
<1>2. /\ attempt' = [attempt EXCEPT ![a] = "Uncertain"]
      /\ disp' = [disp EXCEPT ![a] = d]
      /\ slot' = IF DispositionHoldsSlot(d) THEN slot ELSE [slot EXCEPT ![a] = "released"]
  BY <1>1 DEF UncertainTx, ReleaseSlot, TypeOK
<1>3. d # "none"
  BY DEF ProcessDisposition
<1> QED
  BY <1>1, <1>2, <1>3 DEF SlotInv, SlotExclusive, SlotFollowsStatus, SessionMatchesAttempt, ProbedIsAlive,
     NeverWaiting, LaunchHasNoSession, TypeOK

LEMMA SlotLaunch == ASSUME TypeOK, SlotInv, NEW a \in Attempt, LaunchStep(a) PROVE SlotInv'
<1> USE DEF SlotInv, SlotExclusive, SlotFollowsStatus, SessionMatchesAttempt, ProbedIsAlive,
            NeverWaiting, LaunchHasNoSession, TypeOK
<1>1. CASE SpawnBootstrap(a) \/ LaunchRejected(a)
  BY <1>1 DEF SpawnBootstrap, LaunchRejected
<1>9. CASE SpawnFails(a)
  BY <1>9, SpawnFailsFrame, SlotDie
<1>2. CASE Authorize(a)
  BY <1>2 DEF Authorize
<1>3. CASE ReceiptLost(a)
  <2>1. CASE CanAbort(a) /\ AbortTx(a)
    BY <1>3, <2>1, SlotAbort DEF ReceiptLost, Looping
  <2>2. CASE UNCHANGED <<intent, result, attempt, slot>>
    BY <1>3, <2>2 DEF ReceiptLost
  <2> QED
    BY <1>3, <2>1, <2>2 DEF ReceiptLost
<1>4. CASE ValidationFails(a)
  <2>1. CASE CanAbort(a) /\ AbortTx(a) /\ mid' = Due("abort", a) /\ UNCHANGED lpc
    BY <1>4, <2>1, SlotAbort DEF ValidationFails, Looping
  <2>2. CASE lpc' = [lpc EXCEPT ![a] = "none"] /\ UNCHANGED <<intent, result, attempt, slot, mid>>
    BY <1>4, <2>2 DEF ValidationFails
  <2> QED
    BY <1>4, <2>1, <2>2 DEF ValidationFails
<1>5. CASE WriteCommit(a)
  BY <1>5, DueFacts DEF WriteCommit
<1>6. CASE MarkUncertain(a)
  <2>1. "Probing" \in ProcessDisposition
    BY DEF ProcessDisposition
  <2> QED
    BY <1>6, <2>1, SlotUncertain DEF MarkUncertain
<1>7. ASSUME NEW isFull \in BOOLEAN, FinalizeRunning(a, isFull) PROVE SlotInv'
  BY <1>7, DueFacts, TableFacts DEF FinalizeRunning, Looping
<1> QED
  BY <1>1, <1>2, <1>3, <1>4, <1>5, <1>6, <1>7, <1>9 DEF LaunchStep

LEMMA SlotDaemon == ASSUME TypeOK, SlotInv, NEW a \in Attempt, DueStep(a) \/ RecordExit(a) PROVE SlotInv'
<1> USE DEF SlotInv, SlotExclusive, SlotFollowsStatus, SessionMatchesAttempt, ProbedIsAlive,
            NeverWaiting, LaunchHasNoSession, TypeOK
<1>1. CASE WriteAbort(a)
  BY <1>1, DueFacts DEF WriteAbort
<1>2. CASE RecordCommitSent(a)
  BY <1>2, DueFacts DEF RecordCommitSent
<1>3. CASE SignalStop(a)
  BY <1>3, DueFacts DEF SignalStop
<1>4. CASE RecordExit(a)
  BY <1>4, DueFacts DEF RecordExit, Settlement, ReleaseSlot, Looping
<1> QED
  BY <1>1, <1>2, <1>3, <1>4 DEF DueStep

LEMMA SlotReconcile == ASSUME TypeOK, SlotInv, NEW a \in Attempt, ReconcileStep(a) PROVE SlotInv'
<1> USE DEF SlotInv, SlotExclusive, SlotFollowsStatus, SessionMatchesAttempt, ProbedIsAlive,
            NeverWaiting, LaunchHasNoSession, TypeOK
<1>1. CASE ProbeSession(a)
  BY <1>1, DueFacts DEF ProbeSession
<1>2. ASSUME NEW d \in ProcessDisposition, NEW dataGap \in BOOLEAN, ResolveSession(a, d, dataGap)
      PROVE  SlotInv'
  <2>1. session[a] = "Alive" /\ attempt[a] \in {"Running", "Stopping"} /\ slot[a] = "held"
    BY <1>2 DEF ResolveSession
  <2>2. /\ attempt' = [attempt EXCEPT ![a] = RestartStatus(d, dataGap)]
        /\ session' = [session EXCEPT ![a] = "Lost"]
        /\ disp' = [disp EXCEPT ![a] = d]
        /\ slot' = IF DispositionHoldsSlot(d) THEN slot ELSE [slot EXCEPT ![a] = "released"]
        /\ mid' = Idle /\ UNCHANGED lpc
    BY <1>2, <2>1 DEF ResolveSession, ReleaseSlot, TerminalAttempt
  <2>3. /\ RestartStatus(d, dataGap) \in {"Uncertain", "Interrupted"} /\ d # "none"
        /\ RestartStatus(d, dataGap) = "Interrupted" => ~DispositionHoldsSlot(d)
    BY DEF RestartStatus, ProcessDisposition
  <2> QED
    BY <2>1, <2>2, <2>3, DueFacts
<1>3. CASE ResumePrepared(a)
  BY <1>3 DEF ResumePrepared, Unfinished
<1>4. CASE AbortUnsent(a)
  <2>1. attempt[a] = "Starting" /\ CanAbort(a) /\ AbortTx(a) /\ mid = Idle
    BY <1>4 DEF AbortUnsent, Unfinished
  <2> QED
    BY <1>4, <2>1, SlotAbort DEF AbortUnsent
<1>5. ASSUME NEW d \in ProcessDisposition, ResolveSent(a, d) PROVE SlotInv'
  BY <1>5, SlotUncertain DEF ResolveSent, Unfinished
<1>6. CASE LaunchResumed(a)
  BY <1>6 DEF LaunchResumed
<1> QED
  BY <1>1, <1>2, <1>3, <1>4, <1>5, <1>6 DEF ReconcileStep

LEMMA SlotPhase == TypeOK /\ SlotInv /\ (PhaseStep \/ HostStep) => SlotInv'
<1> SUFFICES ASSUME TypeOK, SlotInv, PhaseStep \/ HostStep PROVE SlotInv'
  OBVIOUS
<1>1. CASE UNCHANGED <<dbVars, fileVars, procVars, mid, rpcVars, runVars>>
  BY <1>1, SlotUnchanged DEF slotVars
<1> USE DEF SlotInv, SlotExclusive, SlotFollowsStatus, SessionMatchesAttempt, ProbedIsAlive,
            NeverWaiting, LaunchHasNoSession, TypeOK
<1>2. CASE ReconcileSlotLeases
  <2>1. disp' = disp
    BY <1>2 DEF ReconcileSlotLeases, NewDisp
  <2>2. \A a \in Attempt : slot'[a] = "held" <=> slot[a] = "held" /\ ShouldHold(a)
    BY <1>2 DEF ReconcileSlotLeases, ShouldHold, NewDisp
  <2>3. \A a \in Attempt :
          slot[a] = "held" /\ attempt[a] \in {"Starting", "Running", "Stopping", "Uncertain"} => ShouldHold(a)
    BY DEF ShouldHold, NewDisp
  <2>4. UNCHANGED <<attempt, session, lpc, mid>>
    BY <1>2 DEF ReconcileSlotLeases
  <2> QED
    BY <2>1, <2>2, <2>3, <2>4
<1>3. CASE Die /\ UNCHANGED <<dbVars, fileVars, procVars>>
  BY <1>3, SlotDie
<1> QED
  BY <1>1, <1>2, <1>3, PhaseFrame

LEMMA SlotBootstrap ==
  ASSUME SlotInv, NEW a \in Attempt, NEW b \in Boot, BootstrapStep(a, b) PROVE SlotInv'
BY SlotUnchanged DEF slotVars, BootstrapStep, Connect, WriteReceipt, TearReceipt, TakeCommit,
   TearExecReceipt, ExecAgent, AgentRetitled, ProcessExits

LEMMA SlotCorrect == Spec => []SlotInv
<1>1. Init => SlotInv
  BY DueFacts DEF Init, SlotInv, SlotExclusive, SlotFollowsStatus, SessionMatchesAttempt, ProbedIsAlive,
     NeverWaiting, LaunchHasNoSession
<1>2. TypeOK /\ SlotInv /\ [Next]_vars => SlotInv'
  <2>1. SlotInv /\ UNCHANGED vars => SlotInv'
    BY SlotUnchanged DEF slotVars
  <2> QED
    BY <2>1, SlotCommand, SlotPhase, SlotRouter, SlotLaunch, SlotDaemon, SlotBootstrap,
       SlotReconcile DEF Next
<1> QED
  BY <1>1, <1>2, TypeCorrect, PTL DEF Spec

\* At most one Attempt holds the Host slot, for any number of Tasks, Attempts and crashes.
THEOREM OneSlot == Spec => []SlotExclusive
<1>1. SlotInv => SlotExclusive
  BY DEF SlotInv
<1> QED
  BY <1>1, SlotCorrect, PTL

\* The slot is held by whatever may own a process, and for an Uncertain Attempt by what its
\* Process Disposition says.
THEOREM SlotFollows == Spec => []SlotFollowsStatus
<1>1. SlotInv => SlotFollowsStatus
  BY DEF SlotInv
<1> QED
  BY <1>1, SlotCorrect, PTL

\* Alive Sessions and Running or Stopping Attempts are the same thing.
THEOREM SessionMatches == Spec => []SessionMatchesAttempt
<1>1. SlotInv => SessionMatchesAttempt
  BY DEF SlotInv
<1> QED
  BY <1>1, SlotCorrect, PTL

-----------------------------------------------------------------------------
(* What a step may do to an Attempt and its Session.                         *)

StatusStep(a) ==
  /\ attempt[a] \in TerminalAttempt => attempt'[a] = attempt[a]
  /\ session[a] \in {"Exited", "Lost"} => session'[a] = session[a]
  /\ session[a] = "Alive" /\ session'[a] # "Alive" => attempt'[a] \in TerminalAttempt

LEMMA StatusSteps ==
  ASSUME TypeOK, SlotInv, [Next]_vars PROVE \A a \in Attempt : StatusStep(a)
<1> USE DEF SlotInv, SessionMatchesAttempt, ProbedIsAlive, NeverWaiting, LaunchHasNoSession,
            TypeOK, StatusStep, TerminalAttempt
<1> DEFINE Goal == \A c \in Attempt : StatusStep(c)
<1>1. ASSUME UNCHANGED <<attempt, session>> PROVE Goal
  BY <1>1
\* A step that takes one Attempt from a status that is not terminal.
<1>2. ASSUME NEW a \in Attempt, NEW s, attempt[a] \notin TerminalAttempt,
             attempt' = [attempt EXCEPT ![a] = s], UNCHANGED session
      PROVE  Goal
  BY <1>2
<1>3. ASSUME NEW t \in Task, NEW continue, Accept(t, continue) PROVE Goal
  BY <1>2, <1>3 DEF Accept, Fresh
<1>4. ASSUME NEW a \in Attempt, StopTx(a), Nonterminal(a), UNCHANGED session PROVE Goal
  BY <1>2, <1>4 DEF StopTx, Nonterminal
<1>5. CASE CommandStep
  <2>1. ASSUME NEW t \in Task, CancelTask(t) PROVE Goal
    BY <1>1, <1>4, <2>1 DEF CancelTask, ActiveAttempts, TaskAttempts
  <2>2. ASSUME NEW a \in Attempt, Replay(a) \/ RequestAttemptStop(a) \/ TerminateSession(a) PROVE Goal
    BY <1>1, <1>4, <2>2 DEF Replay, RequestAttemptStop, TerminateSession
  <2> QED
    BY <1>3, <1>5, <2>1, <2>2 DEF CommandStep, Start, Retry, Resume
<1>6. ASSUME NEW a \in Attempt, RouterStep(a) PROVE Goal
  <2>1. CASE Provisioned(a) \/ ScheduleSelect(a)
    BY <1>1, <2>1 DEF Provisioned, ScheduleSelect
  <2>2. CASE ProvisionFailed(a)
    BY <2>2 DEF ProvisionFailed
  <2>3. CASE ScheduleClaim(a)
    BY <1>1, <1>2, <2>3 DEF ScheduleClaim, Candidate, Schedulable
  <2> QED
    BY <1>6, <2>1, <2>2, <2>3 DEF RouterStep
<1>7. ASSUME NEW a \in Attempt, CanAbort(a), AbortTx(a), UNCHANGED session PROVE Goal
  BY <1>2, <1>7, TableFacts DEF CanAbort, AbortTx
<1>8. ASSUME NEW a \in Attempt, NEW d \in ProcessDisposition, UncertainTx(a, d), UNCHANGED session PROVE Goal
  BY <1>2, <1>8, TableFacts DEF UncertainTx
<1>9. ASSUME NEW a \in Attempt, LaunchStep(a) PROVE Goal
  <2>1. CASE SpawnBootstrap(a) \/ SpawnFails(a) \/ Authorize(a) \/ WriteCommit(a) \/ LaunchRejected(a)
    BY <1>1, <2>1 DEF SpawnBootstrap, SpawnFails, Authorize, WriteCommit, LaunchRejected
  <2>2. CASE ReceiptLost(a) \/ ValidationFails(a)
    BY <1>1, <1>7, <2>2 DEF ReceiptLost, ValidationFails
  <2>3. CASE MarkUncertain(a)
    BY <1>8, <2>3 DEF MarkUncertain, ProcessDisposition
  <2>4. ASSUME NEW isFull \in BOOLEAN, FinalizeRunning(a, isFull) PROVE Goal
    BY <2>4, TableFacts DEF FinalizeRunning
  <2> QED
    BY <1>9, <2>1, <2>2, <2>3, <2>4 DEF LaunchStep
<1>10. ASSUME NEW a \in Attempt, DueStep(a) \/ RecordExit(a) PROVE Goal
  BY <1>10 DEF DueStep, WriteAbort, RecordCommitSent, SignalStop, RecordExit, Settlement
<1>11. ASSUME NEW a \in Attempt, ReconcileStep(a) PROVE Goal
  <2>1. CASE ProbeSession(a) \/ ResumePrepared(a) \/ LaunchResumed(a)
    BY <1>1, <2>1 DEF ProbeSession, ResumePrepared, LaunchResumed
  <2>2. ASSUME NEW d \in ProcessDisposition, NEW dataGap \in BOOLEAN, ResolveSession(a, d, dataGap)
        PROVE  Goal
    BY <2>2 DEF ResolveSession, RestartStatus
  <2>3. CASE AbortUnsent(a)
    BY <1>7, <2>3 DEF AbortUnsent
  <2>4. ASSUME NEW d \in ProcessDisposition, ResolveSent(a, d) PROVE Goal
    BY <1>8, <2>4 DEF ResolveSent
  <2> QED
    BY <1>11, <2>1, <2>2, <2>3, <2>4 DEF ReconcileStep
<1>12. CASE PhaseStep \/ HostStep
  BY <1>1, <1>12 DEF PhaseStep, HostStep, Crash, OutputOutgrowsSnapshot, RemoveSocket, RebuildSnapshots,
     Restart, SessionsDone, IntentsDone, ReconcileSlotLeases, StartupDone
<1>13. ASSUME NEW a \in Attempt, NEW b \in Boot, BootstrapStep(a, b) PROVE Goal
  BY <1>1, <1>13 DEF BootstrapStep, Connect, WriteReceipt, TearReceipt, TakeCommit, TearExecReceipt,
     ExecAgent, AgentRetitled, ProcessExits
<1> QED
  BY <1>1, <1>5, <1>6, <1>9, <1>10, <1>11, <1>12, <1>13 DEF Next

\* RT-STATE-05 for any number of Attempts and crashes: a terminal status is never rewritten.
THEOREM TerminalFinal == Spec => TerminalIsFinal
<1>1. TypeOK /\ SlotInv /\ [Next]_vars =>
        [\A a \in Attempt : attempt[a] \in TerminalAttempt => attempt'[a] = attempt[a]]_vars
  BY StatusSteps DEF StatusStep
<1> QED
  BY <1>1, TypeCorrect, SlotCorrect, PTL DEF Spec, TerminalIsFinal

\* A Session never comes back, and its end is the end of its Attempt.
THEOREM SessionEnds == Spec => SessionEndsWithAttempt
<1>1. TypeOK /\ SlotInv /\ [Next]_vars =>
        [\A a \in Attempt :
           /\ session[a] \in {"Exited", "Lost"} => session'[a] = session[a]
           /\ session[a] = "Alive" /\ session'[a] # "Alive" => attempt'[a] \in TerminalAttempt]_vars
  BY StatusSteps DEF StatusStep
<1> QED
  BY <1>1, TypeCorrect, SlotCorrect, PTL DEF Spec, SessionEndsWithAttempt

\* What is over stays over and the two end together: both halves at once.
THEOREM EndingsAreFinal == Spec => EndingsFinal
BY TerminalFinal, SessionEnds DEF EndingsFinal

\* The four rows of an Attempt agree after every transaction.
THEOREM SlotIsSound == Spec => []SlotSound
<1>1. SlotInv => SlotSound
  BY DEF SlotInv, SlotSound
<1> QED
  BY <1>1, SlotCorrect, PTL

-----------------------------------------------------------------------------
(* The stored launch result.                                                 *)

\* A step that writes neither the result nor the intent cannot contradict the result: the
\* terminal Attempt it names is final, and a Session that exists does not go away.
LEMMA ResultKept ==
  ASSUME TypeOK, ResultMatchesAttempt, UNCHANGED <<intent, result>>,
         \A a \in Attempt : StatusStep(a),
         \A a \in Attempt : session[a] # "none" => session'[a] # "none"
  PROVE  ResultMatchesAttempt'
BY DEF ResultMatchesAttempt, StatusStep, TerminalAttempt

LEMMA ResultOfAbort ==
  ASSUME TypeOK, ResultMatchesAttempt, NEW a \in Attempt, AbortTx(a), UNCHANGED session,
         \A c \in Attempt : StatusStep(c)
  PROVE  ResultMatchesAttempt'
BY DEF AbortTx, ResultMatchesAttempt, StatusStep, TerminalAttempt, TypeOK

LEMMA ResultOfUncertain ==
  ASSUME TypeOK, ResultMatchesAttempt, NEW a \in Attempt, NEW d, UncertainTx(a, d),
         UNCHANGED <<intent, session>>, \A c \in Attempt : StatusStep(c)
  PROVE  ResultMatchesAttempt'
BY DEF UncertainTx, ResultMatchesAttempt, StatusStep, TerminalAttempt, TypeOK

LEMMA ResultStep ==
  ASSUME TypeOK, SlotInv, ResultMatchesAttempt, [Next]_vars PROVE ResultMatchesAttempt'
<1> DEFINE Goal == ResultMatchesAttempt'
<1>0. \A a \in Attempt : StatusStep(a)
  BY StatusSteps
<1>1. ASSUME UNCHANGED <<intent, result, session>> PROVE Goal
  BY <1>0, <1>1, ResultKept
<1>2. CASE CommandStep
  BY <1>1, <1>2 DEF CommandStep, Start, Retry, Resume, Accept, Replay, CancelTask,
     RequestAttemptStop, TerminateSession
<1>3. ASSUME NEW a \in Attempt, RouterStep(a) PROVE Goal
  <2>1. CASE Provisioned(a) \/ ScheduleSelect(a) \/ ProvisionFailed(a)
    BY <1>1, <2>1 DEF Provisioned, ScheduleSelect, ProvisionFailed
  <2>2. CASE ScheduleClaim(a)
    <3>1. CASE UNCHANGED intent
      BY <1>1, <2>2, <3>1 DEF ScheduleClaim
    <3>2. CASE /\ pick[a] \in Candidate
               /\ intent' = [intent EXCEPT ![pick[a]] = "Prepared"]
               /\ UNCHANGED <<result, session>>
      <4>1. pick[a] \in Attempt /\ attempt[pick[a]] = "Queued"
        BY <3>2 DEF Candidate, Schedulable
      <4> QED
        BY <1>0, <3>2, <4>1 DEF ResultMatchesAttempt, StatusStep, TerminalAttempt, TypeOK
    <3> QED
      BY <2>2, <3>1, <3>2 DEF ScheduleClaim
  <2> QED
    BY <1>3, <2>1, <2>2 DEF RouterStep
<1>4. ASSUME NEW a \in Attempt, LaunchStep(a) PROVE Goal
  <2>1. CASE SpawnBootstrap(a) \/ SpawnFails(a) \/ WriteCommit(a) \/ LaunchRejected(a)
    BY <1>1, <2>1 DEF SpawnBootstrap, SpawnFails, WriteCommit, LaunchRejected
  <2>2. CASE Authorize(a)
    BY <1>0, <2>2 DEF Authorize, IntentCan, IntentNext, ResultMatchesAttempt, StatusStep,
       TerminalAttempt, TypeOK
  <2>3. CASE ReceiptLost(a) \/ ValidationFails(a)
    BY <1>0, <1>1, <2>3, ResultOfAbort DEF ReceiptLost, ValidationFails
  <2>4. CASE MarkUncertain(a)
    BY <1>0, <2>4, ResultOfUncertain DEF MarkUncertain
  <2>5. ASSUME NEW isFull \in BOOLEAN, FinalizeRunning(a, isFull) PROVE Goal
    BY <1>0, <2>5, TableFacts DEF FinalizeRunning, ResultMatchesAttempt, StatusStep,
       TerminalAttempt, TypeOK
  <2> QED
    BY <1>4, <2>1, <2>2, <2>3, <2>4, <2>5 DEF LaunchStep
<1>5. ASSUME NEW a \in Attempt, DueStep(a) \/ RecordExit(a) PROVE Goal
  <2>1. CASE DueStep(a)
    BY <1>1, <2>1 DEF DueStep, WriteAbort, RecordCommitSent, SignalStop
  <2>2. CASE RecordExit(a)
    BY <1>0, <2>2, ResultKept DEF RecordExit, TypeOK
  <2> QED
    BY <1>5, <2>1, <2>2
<1>6. ASSUME NEW a \in Attempt, ReconcileStep(a) PROVE Goal
  <2>1. CASE ProbeSession(a) \/ ResumePrepared(a) \/ LaunchResumed(a)
    BY <1>1, <2>1 DEF ProbeSession, ResumePrepared, LaunchResumed
  <2>2. ASSUME NEW d, NEW dataGap, ResolveSession(a, d, dataGap) PROVE Goal
    BY <1>0, <2>2, ResultKept DEF ResolveSession, TypeOK
  <2>3. CASE AbortUnsent(a)
    BY <1>0, <2>3, ResultOfAbort DEF AbortUnsent
  <2>4. ASSUME NEW d, ResolveSent(a, d) PROVE Goal
    BY <1>0, <2>4, ResultOfUncertain DEF ResolveSent
  <2> QED
    BY <1>6, <2>1, <2>2, <2>3, <2>4 DEF ReconcileStep
<1>7. CASE PhaseStep \/ HostStep
  BY <1>1, <1>7 DEF PhaseStep, HostStep, Crash, OutputOutgrowsSnapshot, RemoveSocket, RebuildSnapshots,
     Restart, SessionsDone, IntentsDone, ReconcileSlotLeases, StartupDone
<1>8. ASSUME NEW a \in Attempt, NEW b \in Boot, BootstrapStep(a, b) PROVE Goal
  BY <1>1, <1>8 DEF BootstrapStep, Connect, WriteReceipt, TearReceipt, TakeCommit, TearExecReceipt,
     ExecAgent, AgentRetitled, ProcessExits
<1> QED
  BY <1>1, <1>2, <1>3, <1>4, <1>5, <1>6, <1>7, <1>8 DEF Next

\* One nonce, one Agent, one answer, for any number of Attempts, bootstraps and crashes: the
\* Agent starts at most once and only by a permission, and the stored launch result is never
\* contradicted by the Attempt, its intent or its Session.
THEOREM LaunchIsSound == Spec => []LaunchSound
<1>1. Init => ResultMatchesAttempt
  BY DEF Init, ResultMatchesAttempt
<1>2. TypeOK /\ SlotInv /\ ResultMatchesAttempt /\ [Next]_vars => ResultMatchesAttempt'
  BY ResultStep
<1>3. AtMostOneExec /\ ExecOnlyAuthorized /\ OneSignal /\ ResultMatchesAttempt => LaunchSound
  BY DEF LaunchSound
<1> QED
  BY <1>1, <1>2, <1>3, TypeCorrect, SlotCorrect, OneExec, ExecAuthorized, SignalsExclusive, PTL DEF Spec

-----------------------------------------------------------------------------
(* A settled outcome is the end of the process.                              *)

Settled == {"Succeeded", "Failed", "Interrupted"}

\* The Agent, and the bootstrap about to become it, is the one in the exec receipt.
ReceiptNamesAgent ==
  \A a \in Attempt, b \in Boot : proc[a][b] \in {"execing", "agent"} => execReceipt[a] = b

\* A Session has an exec receipt that parses, and the process the Daemon owns for it is the
\* one that wrote it.
SessionHasReceipt ==
  \A a \in Attempt :
    /\ session[a] # "none" => execReceipt[a] \in Boot
    /\ session[a] = "Alive" /\ cur[a] # NoBoot => cur[a] = execReceipt[a]

LaunchOwnsProcess ==
  \A a \in Attempt :
    lpc[a] \in {"receipt", "validate", "drift", "agent"} \/ mid = Due("commit", a) => cur[a] \in Boot

\* What is settled has no Agent, but for one that changed its command behind Interrupted,
\* and cannot get one: its only bootstrap has exec'd, or its intent will never be Authorized.
SettledIsOver ==
  \A a \in Attempt :
    attempt[a] \in Settled =>
      /\ \A b \in Boot : proc[a][b] \in {"execing", "agent"} => attempt[a] = "Interrupted" /\ b \in retitled[a]
      /\ session[a] # "none" \/ intent[a] \in {"Aborted", "None"}

GoneInv == ReceiptNamesAgent /\ SessionHasReceipt /\ LaunchOwnsProcess /\ SettledIsOver

\* What GoneInv speaks of, the launch coroutines apart.
goneVars == <<attempt, intent, session, execReceipt, proc, retitled, cur>>

LEMMA GoneUnchanged ==
  ASSUME GoneInv, UNCHANGED goneVars,
         \A a \in Attempt : /\ lpc'[a] \in {lpc[a], "none", "resume", "barrier"}
                            /\ mid' = Due("commit", a) => mid = mid'
  PROVE  GoneInv'
BY DEF GoneInv, goneVars, ReceiptNamesAgent, SessionHasReceipt, LaunchOwnsProcess, SettledIsOver, HasAgent

LEMMA GoneDie ==
  ASSUME TypeOK, GoneInv, Die, UNCHANGED <<dbVars, fileVars, procVars>> PROVE GoneInv'
BY DueFacts DEF Die, GoneInv, ReceiptNamesAgent, SessionHasReceipt, LaunchOwnsProcess, SettledIsOver

\* A transaction that settles a at most, when no commit of its nonce is out.
LEMMA GoneStatus ==
  ASSUME TypeOK, GoneInv, DecisionInv, NEW a \in Attempt, NEW s,
         attempt' = [attempt EXCEPT ![a] = s],
         s \in Settled => ~commitFile[a] /\ intent'[a] \in {"Aborted", "None"},
         \A c \in Attempt : c # a => intent'[c] = intent[c],
         UNCHANGED <<session, execReceipt, proc, retitled>>,
         mid = Idle, \A c \in Attempt : mid' # Due("commit", c),
         \A c \in Attempt : /\ cur'[c] \in {cur[c], NoBoot}
                            /\ lpc'[c] = "none" \/ (lpc'[c] = lpc[c] /\ cur'[c] = cur[c])
  PROVE  GoneInv'
<1>1. ReceiptNamesAgent' /\ SessionHasReceipt'
  BY DEF GoneInv, ReceiptNamesAgent, SessionHasReceipt
<1>2. LaunchOwnsProcess'
  BY DEF GoneInv, LaunchOwnsProcess
<1>3. UNCHANGED <<proc, retitled, session>>
  OBVIOUS
<1>4. ~commitFile[a] => \A b \in Boot : proc[a][b] \notin {"execing", "agent"}
  BY DEF DecisionInv, FilesFollowIntent, HasAgent
<1>5. attempt'[a] = s /\ \A c \in Attempt : c # a => attempt'[c] = attempt[c]
  BY DEF TypeOK
<1>6. SettledIsOver'
  BY <1>3, <1>4, <1>5 DEF GoneInv, SettledIsOver
<1> QED
  BY <1>1, <1>2, <1>6 DEF GoneInv

LEMMA GoneAbort ==
  ASSUME TypeOK, GoneInv, DecisionInv, NEW a \in Attempt, AbortTx(a), ~commitFile[a], mid = Idle,
         mid' \in {Idle, Due("abort", a)}, UNCHANGED <<session, execReceipt, proc, retitled>>,
         \A c \in Attempt : /\ cur'[c] \in {cur[c], NoBoot}
                            /\ lpc'[c] = "none" \/ (lpc'[c] = lpc[c] /\ cur'[c] = cur[c])
  PROVE  GoneInv'
<1>1. attempt' = [attempt EXCEPT ![a] = "Failed"]
  BY DEF AbortTx
<1>2. intent'[a] = "Aborted" /\ \A c \in Attempt : c # a => intent'[c] = intent[c]
  BY DEF AbortTx, TypeOK
<1>3. \A c \in Attempt : mid' # Due("commit", c)
  BY DueFacts
<1> QED
  BY <1>1, <1>2, <1>3, GoneStatus

LEMMA GoneCommand == ASSUME TypeOK, DecisionInv, GoneInv, CommandStep PROVE GoneInv'
<1> DEFINE Goal == GoneInv'
<1> USE DEF Settled
<1>1. ASSUME NEW t \in Task, NEW continue, Accept(t, continue) PROVE Goal
  BY <1>1 DEF Accept, Fresh, GoneInv, ReceiptNamesAgent, SessionHasReceipt, LaunchOwnsProcess,
     SettledIsOver, HasAgent, TypeOK
<1>2. ASSUME NEW a \in Attempt, StopTx(a),
             mid = Idle, UNCHANGED <<intent, session, execReceipt, proc, retitled, cur, lpc>>
      PROVE  Goal
  <2>1. StopStatus(a) \notin Settled
    BY DEF StopStatus
  <2>2. /\ attempt' = [attempt EXCEPT ![a] = StopStatus(a)]
        /\ mid' \in {Idle, Due("stop", a)}
    BY <1>2 DEF StopTx
  <2> QED
    BY <1>2, <2>1, <2>2, DueFacts, GoneStatus
<1>3. ASSUME NEW t \in Task, CancelTask(t) PROVE Goal
  <2>1. CASE UNCHANGED <<attempt, mid>>
    BY <1>3, <2>1, GoneUnchanged DEF CancelTask, goneVars
  <2> QED
    BY <1>2, <1>3, <2>1 DEF CancelTask, ActiveAttempts, TaskAttempts, Serving
<1>4. ASSUME NEW a \in Attempt, RequestAttemptStop(a) PROVE Goal
  BY <1>2, <1>4 DEF RequestAttemptStop, Serving
<1>5. ASSUME NEW a \in Attempt, Replay(a) \/ TerminateSession(a) PROVE Goal
  BY <1>5, GoneUnchanged DEF Replay, TerminateSession, goneVars
<1> QED
  BY <1>1, <1>3, <1>4, <1>5 DEF CommandStep, Start, Retry, Resume

LEMMA GoneRouter == ASSUME TypeOK, DecisionInv, GoneInv, NEW a \in Attempt, RouterStep(a) PROVE GoneInv'
<1>1. CASE Provisioned(a) \/ ScheduleSelect(a)
  BY <1>1, GoneUnchanged DEF Provisioned, ScheduleSelect, goneVars
<1>2. CASE ProvisionFailed(a)
  <2>1. CASE attempt[a] = "Queued"
    <3>1. intent[a] = "None" /\ ~commitFile[a]
      BY <2>1 DEF DecisionInv, IntentStarts, FilesFollowIntent
    <3>2. /\ attempt' = [attempt EXCEPT ![a] = "Failed"] /\ mid = Idle
          /\ UNCHANGED <<intent, session, execReceipt, proc, retitled, cur, lpc, mid>>
      BY <1>2, <2>1 DEF ProvisionFailed, Serving
    <3>3. \A c \in Attempt : mid' # Due("commit", c)
      BY <3>2, DueFacts
    <3> QED
      BY <3>1, <3>2, <3>3, GoneStatus
  <2>2. CASE attempt[a] # "Queued"
    <3>1. attempt' = attempt
      BY <1>2, <2>2 DEF ProvisionFailed, TypeOK
    <3> QED
      BY <1>2, <3>1, GoneUnchanged DEF ProvisionFailed, goneVars
  <2> QED
    BY <2>1, <2>2
<1>3. CASE ScheduleClaim(a)
  <2>1. CASE UNCHANGED <<attempt, slot, intent, lpc>>
    BY <1>3, <2>1, GoneUnchanged DEF ScheduleClaim, goneVars
  <2>2. CASE pick[a] \in Candidate
    <3>1. pick[a] \in Attempt /\ attempt[pick[a]] = "Queued"
      BY <2>2 DEF Candidate, Schedulable
    <3>2. CASE /\ attempt' = [attempt EXCEPT ![pick[a]] = "Starting"]
               /\ intent' = [intent EXCEPT ![pick[a]] = "Prepared"]
               /\ lpc' = [lpc EXCEPT ![pick[a]] = IF pick[a] = a THEN "barrier" ELSE @]
               /\ UNCHANGED <<session, execReceipt, proc, retitled, cur, mid>>
      BY <3>1, <3>2 DEF GoneInv, ReceiptNamesAgent, SessionHasReceipt, LaunchOwnsProcess,
         SettledIsOver, Settled, HasAgent, TypeOK
    <3> QED
      BY <1>3, <2>1, <2>2, <3>2 DEF ScheduleClaim
  <2> QED
    BY <1>3, <2>1, <2>2 DEF ScheduleClaim
<1> QED
  BY <1>1, <1>2, <1>3 DEF RouterStep

LEMMA GoneLaunch == ASSUME TypeOK, DecisionInv, SlotInv, GoneInv, NEW a \in Attempt, LaunchStep(a) PROVE GoneInv'
<1> DEFINE Goal == GoneInv'
\* The launch is undecided: nothing is committed.
<1>0. /\ lpc[a] = "receipt" => ~commitFile[a]
      /\ mid = Idle /\ lpc[a] \in {"validate", "drift"} => ~commitFile[a]
  BY DueFacts DEF DecisionInv, LaunchUndecided, FilesFollowIntent, Deciding
<1>1. CASE SpawnBootstrap(a)
  <2>1. session[a] = "none"
    BY <1>1 DEF SpawnBootstrap, SlotInv, LaunchHasNoSession
  <2>2. PICK b \in Boot : /\ proc' = [proc EXCEPT ![a][b] = "boot"]
                          /\ cur' = [cur EXCEPT ![a] = b]
                          /\ lpc' = [lpc EXCEPT ![a] = "receipt"]
                          /\ UNCHANGED <<attempt, intent, session, execReceipt, retitled, mid>>
    BY <1>1 DEF SpawnBootstrap
  <2> QED
    BY <2>1, <2>2 DEF GoneInv, ReceiptNamesAgent, SessionHasReceipt, LaunchOwnsProcess,
       SettledIsOver, HasAgent, TypeOK
<1>2. CASE SpawnFails(a)
  <2>1. CASE Die
    BY <1>2, <2>1, SpawnFailsFrame, GoneDie
  <2>2. CASE lpc' = [lpc EXCEPT ![a] = "none"] /\ UNCHANGED <<mode, mid, rpcVars, cur>>
    BY <1>2, <2>2, SpawnFailsFrame, GoneUnchanged DEF goneVars, TypeOK
  <2> QED
    BY <1>2, <2>1, <2>2, SpawnFailsFrame
<1>9. CASE LaunchRejected(a)
  BY <1>9, GoneUnchanged DEF LaunchRejected, goneVars, TypeOK
<1>8. CASE WriteCommit(a)
  BY <1>8, DueFacts DEF WriteCommit, GoneInv, ReceiptNamesAgent, SessionHasReceipt, LaunchOwnsProcess,
     SettledIsOver, HasAgent
<1>3. CASE Authorize(a)
  <2>1. intent[a] = "Prepared" /\ session[a] = "none"
    BY <1>3 DEF Authorize, SlotInv, LaunchHasNoSession, DecisionInv, LaunchUndecided
  <2> QED
    BY <1>3, <2>1 DEF Authorize, GoneInv, ReceiptNamesAgent, SessionHasReceipt, LaunchOwnsProcess,
       SettledIsOver, HasAgent, TypeOK
<1>4. CASE ReceiptLost(a)
  <2>1. CASE CanAbort(a) /\ AbortTx(a)
    <3>1. /\ lpc' = [lpc EXCEPT ![a] = "none"] /\ cur' = [cur EXCEPT ![a] = NoBoot]
          /\ mid = Idle /\ UNCHANGED <<mid, session, execReceipt, proc, retitled>>
      BY <1>4 DEF ReceiptLost, Looping
    <3>2. \A c \in Attempt : /\ cur'[c] \in {cur[c], NoBoot}
                             /\ lpc'[c] = "none" \/ (lpc'[c] = lpc[c] /\ cur'[c] = cur[c])
      BY <3>1 DEF TypeOK
    <3> QED
      BY <1>0, <1>4, <2>1, <3>1, <3>2, GoneAbort DEF ReceiptLost
  <2>2. CASE UNCHANGED <<intent, result, attempt, slot>>
    <3>1. /\ lpc' = [lpc EXCEPT ![a] = "none"] /\ cur' = [cur EXCEPT ![a] = NoBoot]
          /\ mid = Idle /\ UNCHANGED <<mid, session, execReceipt, proc, retitled>>
      BY <1>4 DEF ReceiptLost, Looping
    <3> QED
      BY <2>2, <3>1, DueFacts DEF GoneInv, ReceiptNamesAgent, SessionHasReceipt, LaunchOwnsProcess,
         SettledIsOver, HasAgent, TypeOK
  <2> QED
    BY <1>4, <2>1, <2>2 DEF ReceiptLost
<1>5. CASE ValidationFails(a)
  <2>1. CASE CanAbort(a) /\ AbortTx(a) /\ UNCHANGED lpc
    <3>1. /\ mid = Idle /\ mid' \in {Idle, Due("abort", a)}
          /\ lpc[a] \in {"validate", "drift"} /\ UNCHANGED <<lpc, cur, session, execReceipt, proc, retitled>>
      BY <1>5, <2>1 DEF ValidationFails, Looping
    <3> QED
      BY <1>0, <2>1, <3>1, GoneAbort
  <2>2. CASE lpc' = [lpc EXCEPT ![a] = "none"] /\ UNCHANGED <<intent, result, attempt, slot, mid>>
    BY <1>5, <2>2, GoneUnchanged DEF ValidationFails, goneVars, TypeOK
  <2> QED
    BY <1>5, <2>1, <2>2 DEF ValidationFails
<1>6. CASE MarkUncertain(a)
  <2>1. /\ attempt' = [attempt EXCEPT ![a] = "Uncertain"] /\ mid = Idle
        /\ lpc' = [lpc EXCEPT ![a] = "none"]
        /\ UNCHANGED <<mid, intent, cur, session, execReceipt, proc, retitled>>
    BY <1>6 DEF MarkUncertain, UncertainTx, Looping
  <2>2. "Uncertain" \notin Settled /\ \A c \in Attempt : mid' # Due("commit", c)
    BY <2>1, DueFacts DEF Settled
  <2>3. \A c \in Attempt : lpc'[c] = "none" \/ lpc'[c] = lpc[c]
    BY <2>1 DEF TypeOK
  <2> QED
    BY <2>1, <2>2, <2>3, GoneStatus
<1>7. ASSUME NEW isFull \in BOOLEAN, FinalizeRunning(a, isFull) PROVE Goal
  <2>1. cur[a] \in Boot /\ execReceipt[a] = cur[a]
    BY <1>7 DEF FinalizeRunning, GoneInv, LaunchOwnsProcess
  <2> QED
    BY <1>7, <2>1 DEF FinalizeRunning, GoneInv, ReceiptNamesAgent, SessionHasReceipt,
       LaunchOwnsProcess, SettledIsOver, Settled, HasAgent, TypeOK
<1> QED
  BY <1>1, <1>2, <1>3, <1>4, <1>5, <1>6, <1>7, <1>8, <1>9 DEF LaunchStep

LEMMA GoneDaemon ==
  ASSUME TypeOK, SlotInv, GoneInv, NEW a \in Attempt, DueStep(a) \/ RecordExit(a) PROVE GoneInv'
<1>1. CASE WriteAbort(a)
  BY <1>1, DueFacts DEF WriteAbort, GoneInv, ReceiptNamesAgent, SessionHasReceipt, LaunchOwnsProcess,
     SettledIsOver, HasAgent, TypeOK
<1>2. CASE RecordCommitSent(a)
  <2>1. cur[a] \in Boot
    BY <1>2 DEF RecordCommitSent, GoneInv, LaunchOwnsProcess
  <2>2. lpc' = [lpc EXCEPT ![a] = "agent"] /\ mid' = Idle /\ UNCHANGED goneVars
    BY <1>2 DEF RecordCommitSent, goneVars
  <2> QED
    BY <2>1, <2>2, DueFacts DEF GoneInv, goneVars, ReceiptNamesAgent, SessionHasReceipt, LaunchOwnsProcess,
       SettledIsOver, HasAgent, TypeOK
<1>3. CASE SignalStop(a)
  BY <1>3, DueFacts, GoneUnchanged DEF SignalStop, goneVars
<1>4. CASE RecordExit(a)
  <2>1. cur[a] = execReceipt[a] /\ ~HasAgent(a) /\ execReceipt[a] \in Boot /\ lpc[a] = "none"
    BY <1>4 DEF RecordExit, GoneInv, ReceiptNamesAgent, SessionHasReceipt, HasAgent, SlotInv, LaunchHasNoSession
  <2>2. /\ session' = [session EXCEPT ![a] = "Exited"] /\ cur' = [cur EXCEPT ![a] = NoBoot]
        /\ \E status \in Settlement(a) : attempt' = [attempt EXCEPT ![a] = status]
        /\ mid = Idle /\ UNCHANGED <<mid, intent, lpc, execReceipt, proc, retitled>>
    BY <1>4 DEF RecordExit, Looping
  <2> QED
    BY <2>1, <2>2, DueFacts DEF GoneInv, ReceiptNamesAgent, SessionHasReceipt, LaunchOwnsProcess,
       SettledIsOver, HasAgent, TypeOK
<1> QED
  BY <1>1, <1>2, <1>3, <1>4 DEF DueStep

LEMMA GoneReconcile ==
  ASSUME TypeOK, DecisionInv, SlotInv, GoneInv, NEW a \in Attempt, ReconcileStep(a) PROVE GoneInv'
<1> DEFINE Goal == GoneInv'
<1>1. CASE ProbeSession(a)
  BY <1>1, DueFacts, GoneUnchanged DEF ProbeSession, goneVars
<1>2. ASSUME NEW d \in ProcessDisposition, NEW dataGap \in BOOLEAN, ResolveSession(a, d, dataGap)
      PROVE  Goal
  <2>1. session[a] = "Alive" /\ attempt[a] \in {"Running", "Stopping"} /\ execReceipt[a] \in Boot
    BY <1>2 DEF ResolveSession, SlotInv, ProbedIsAlive, SessionMatchesAttempt, GoneInv, SessionHasReceipt
  <2>2. RestartStatus(d, dataGap) \in Settled =>
          /\ RestartStatus(d, dataGap) = "Interrupted"
          /\ \A b \in Boot : proc[a][b] \in {"execing", "agent"} => b \in retitled[a]
    <3>1. CASE d \in {"Probing", "OrphanFound"}
      BY <3>1 DEF RestartStatus, DispositionHoldsSlot, Settled
    <3>2. CASE d = "ConfirmedAbsent"
      <4>1. proc[a][execReceipt[a]] \in Live => execReceipt[a] \in retitled[a]
        BY <1>2, <2>1, <3>2 DEF ResolveSession, SessionDispositions
      <4>2. \A b \in Boot : proc[a][b] \in {"execing", "agent"} => b \in retitled[a]
        BY <4>1 DEF GoneInv, ReceiptNamesAgent, Live
      <4> QED
        BY <4>2 DEF RestartStatus, Settled
    <3> QED
      BY <1>2, <3>1, <3>2 DEF ResolveSession, SessionDispositions
  <2>3. /\ attempt' = [attempt EXCEPT ![a] = RestartStatus(d, dataGap)]
        /\ session' = [session EXCEPT ![a] = "Lost"] /\ mid' = Idle
        /\ UNCHANGED <<intent, execReceipt, proc, retitled, cur, lpc>>
    BY <1>2, <2>1 DEF ResolveSession, TerminalAttempt
  <2> QED
    BY <2>1, <2>2, <2>3, DueFacts DEF GoneInv, ReceiptNamesAgent, SessionHasReceipt, LaunchOwnsProcess,
       SettledIsOver, HasAgent, TypeOK
<1>3. CASE ResumePrepared(a) \/ LaunchResumed(a)
  BY <1>3, GoneUnchanged DEF ResumePrepared, LaunchResumed, goneVars, TypeOK
<1>4. CASE AbortUnsent(a)
  <2>1. ~commitFile[a]
    BY <1>4 DEF AbortUnsent, Unfinished, CommitMayBeOut, DecisionInv, FilesFollowIntent
  <2>2. AbortTx(a) /\ mid = Idle /\ mid' = Due("abort", a) /\ UNCHANGED <<lpc, cur, session, execReceipt, proc, retitled>>
    BY <1>4 DEF AbortUnsent
  <2> QED
    BY <2>1, <2>2, GoneAbort
<1>5. ASSUME NEW d \in ProcessDisposition, ResolveSent(a, d) PROVE Goal
  <2>1. /\ attempt' = [attempt EXCEPT ![a] = "Uncertain"]
        /\ mid = Idle /\ UNCHANGED <<mid, intent, lpc, cur, session, execReceipt, proc, retitled>>
    BY <1>5 DEF ResolveSent, UncertainTx
  <2> QED
    BY <2>1, DueFacts, GoneStatus DEF Settled
<1> QED
  BY <1>1, <1>2, <1>3, <1>4, <1>5 DEF ReconcileStep

LEMMA GonePhase == ASSUME TypeOK, GoneInv, PhaseStep \/ HostStep PROVE GoneInv'
<1>1. CASE ReconcileSlotLeases
  BY <1>1, GoneUnchanged DEF ReconcileSlotLeases, goneVars
<1>2. CASE Die /\ UNCHANGED <<dbVars, fileVars, procVars>>
  BY <1>2, GoneDie
<1>3. CASE UNCHANGED <<dbVars, fileVars, procVars, mid, rpcVars, runVars>>
  BY <1>3, GoneUnchanged DEF goneVars
<1> QED
  BY <1>1, <1>2, <1>3, PhaseFrame

LEMMA GoneBootstrap ==
  ASSUME TypeOK, DecisionInv, GoneInv, NEW a \in Attempt, NEW b \in Boot, BootstrapStep(a, b) PROVE GoneInv'
<1> USE DEF GoneInv, ReceiptNamesAgent, SessionHasReceipt, LaunchOwnsProcess, SettledIsOver, HasAgent,
            TypeOK, Become, Dies
<1>1. ASSUME NEW s \in {"linked", "ready", "dead", "agent"}, proc' = [proc EXCEPT ![a][b] = s],
             s = "agent" => proc[a][b] = "execing",
             UNCHANGED <<attempt, intent, session, execReceipt, cur, lpc, mid>>,
             retitled' \in {retitled, [retitled EXCEPT ![a] = @ \ {b}]},
             s # "dead" => UNCHANGED retitled
      PROVE  GoneInv'
  BY <1>1
<1>5. CASE Connect(a, b) \/ WriteReceipt(a, b) \/ TearReceipt(a, b) \/ ProcessExits(a, b) \/ ExecAgent(a, b)
  BY <1>1, <1>5 DEF Connect, WriteReceipt, TearReceipt, ProcessExits, ExecAgent
<1>6. CASE AgentRetitled(a, b)
  BY <1>6 DEF AgentRetitled
\* The exec receipt is written once: a Session or an outcome would have it already.
<1>2. Committed(a) /\ Absent(execReceipt, a) => session[a] = "none" /\ attempt[a] \notin Settled
  <2>1. Committed(a) => intent[a] = "Authorized"
    BY DEF Committed, DecisionInv, FilesFollowIntent
  <2>2. Absent(execReceipt, a) => session[a] = "none"
    BY BootFacts DEF Absent
  <2> QED
    BY <2>1, <2>2
<1>3. CASE TakeCommit(a, b)
  BY <1>2, <1>3, BootFacts DEF TakeCommit, Absent
<1>4. CASE TearExecReceipt(a, b)
  BY <1>2, <1>4, BootFacts DEF TearExecReceipt, Absent
<1> QED
  BY <1>3, <1>4, <1>5, <1>6 DEF BootstrapStep

\* No Agent survives, or will ever start, behind an Attempt recorded Succeeded or Failed, and
\* none but one that has changed its command behind an Interrupted one, for any number of
\* Attempts, bootstraps and crashes.
THEOREM SettledGone == Spec => []SettledMeansGone
<1>1. Init => GoneInv
  BY DueFacts DEF Init, GoneInv, ReceiptNamesAgent, SessionHasReceipt, LaunchOwnsProcess, SettledIsOver,
     Settled
<1>2. TypeOK /\ DecisionInv /\ SlotInv /\ GoneInv /\ [Next]_vars => GoneInv'
  <2>1. GoneInv /\ UNCHANGED vars => GoneInv'
    BY GoneUnchanged DEF goneVars
  <2> QED
    BY <2>1, GoneCommand, GoneRouter, GoneLaunch, GoneDaemon, GoneReconcile, GonePhase, GoneBootstrap DEF Next
<1>3. GoneInv => SettledMeansGone
  BY DEF GoneInv, SettledIsOver, Settled, SettledMeansGone, HasAgent
<1> QED
  BY <1>1, <1>2, <1>3, TypeCorrect, DecisionCorrect, SlotCorrect, PTL DEF Spec

-----------------------------------------------------------------------------
(* AttemptLaunch implements LaunchOnce: the initial state maps to its       *)
(* initial state, and every step to one of its actions or to a stutter.  On *)
(* top of DecisionInv this needs AnswerInv: the stored result is still open *)
(* wherever a step is about to write it.                                    *)

\* The answer is open while a launch is at work on it, and CommitLaunch is on disk
\* before anything records that it was sent.
AnswerInv ==
  \A a \in Attempt :
    /\ intent[a] = "None" => result[a] = "none"
    /\ lpc[a] # "none" /\ mid # Due("abort", a) => result[a] = "none"
    /\ mid = Due("commit", a) => result[a] = "none"
    /\ lpc[a] = "agent" => commitFile[a]
    /\ commitSent[a] => commitFile[a]
    /\ lpc[a] \notin {"none", "resume"} \/ mid = Due("commit", a) => mode \in {"resume", "up"}

\* A step of the launch of one nonce.
OnceStep(a) ==
  \/ Once!Forbid(a) \/ Once!Permit(a) \/ Once!Exec(a)
  \/ \E answer \in {"running", "uncertain"} : Once!Report(a, answer)
OnceStutter == UNCHANGED <<LaunchPhase, result>>

answerVars == <<intent, result, lpc, mid, mode, commitFile, commitSent>>
phaseVars == <<execed, commitFile, intent, result>>

LEMMA AnswerUnchanged == AnswerInv /\ UNCHANGED answerVars => AnswerInv'
BY DEF AnswerInv, answerVars, Due

LEMMA AnswerDie ==
  ASSUME TypeOK, AnswerInv, Die, UNCHANGED <<dbVars, fileVars, procVars>> PROVE AnswerInv'
BY DueFacts DEF Die, AnswerInv, TypeOK

LEMMA PhaseUnchanged == UNCHANGED phaseVars => OnceStutter
BY DEF phaseVars, OnceStutter, LaunchPhase

\* The four kinds of step that LaunchOnce sees.
LEMMA AbortForbids ==
  ASSUME TypeOK, DecisionInv, NEW a \in Attempt, CanAbort(a), AbortTx(a), ~commitFile[a],
         UNCHANGED <<execed, commitFile>>
  PROVE  Once!Forbid(a)
<1>1. execed[a] = {} /\ intent[a] # "Aborted"
  BY DEF DecisionInv, FilesFollowIntent, CanAbort, IntentCan, IntentNext
<1>2. LaunchPhase[a] = "undecided"
  BY <1>1 DEF LaunchPhase
<1>3. LaunchPhase' = [LaunchPhase EXCEPT ![a] = "forbidden"]
  <2>1. intent' = [intent EXCEPT ![a] = "Aborted"] /\ execed' = execed /\ commitFile' = commitFile
    BY DEF AbortTx
  <2>2. \A c \in Attempt : intent'[c] = IF c = a THEN "Aborted" ELSE intent[c]
    BY <2>1 DEF TypeOK
  <2> QED
    BY <1>1, <2>1, <2>2 DEF LaunchPhase
<1> QED
  BY <1>2, <1>3 DEF Once!Forbid, AbortTx

LEMMA CommitPermits ==
  ASSUME TypeOK, DecisionInv, NEW a \in Attempt, WriteCommit(a) PROVE Once!Permit(a)
<1>1. execed[a] = {} /\ intent[a] = "Authorized" /\ ~commitFile[a]
  BY DueFacts DEF WriteCommit, Looping, DecisionInv, FilesFollowIntent, LaunchUndecided, Deciding
<1>2. commitFile' = [commitFile EXCEPT ![a] = TRUE] /\ UNCHANGED <<execed, intent, result>>
  BY DEF WriteCommit
<1>3. LaunchPhase[a] = "undecided"
  BY <1>1 DEF LaunchPhase
<1>4. LaunchPhase' = [LaunchPhase EXCEPT ![a] = "permitted"]
  BY <1>1, <1>2 DEF LaunchPhase, TypeOK
<1> QED
  BY <1>2, <1>3, <1>4 DEF Once!Permit

LEMMA ExecExecutes ==
  ASSUME TypeOK, DecisionInv, NEW a \in Attempt, NEW b \in Boot, ExecAgent(a, b)
  PROVE  Once!Exec(a) \/ OnceStutter
<1>1. commitFile[a]
  BY DEF ExecAgent, Become, DecisionInv, FilesFollowIntent, HasAgent
<1>2. execed' = [execed EXCEPT ![a] = @ \union {b}] /\ UNCHANGED <<commitFile, intent, result>>
  BY DEF ExecAgent
<1>3. CASE execed[a] = {}
  <2>1. LaunchPhase[a] = "permitted"
    BY <1>1, <1>3 DEF LaunchPhase
  <2>2. LaunchPhase' = [LaunchPhase EXCEPT ![a] = "executed"]
    BY <1>1, <1>2 DEF LaunchPhase, TypeOK
  <2> QED
    BY <1>2, <2>1, <2>2 DEF Once!Exec
<1>4. CASE execed[a] # {}
  <2>1. \A c \in Attempt : execed'[c] = {} <=> execed[c] = {}
    BY <1>2, <1>4 DEF TypeOK
  <2> QED
    BY <1>2, <2>1 DEF OnceStutter, LaunchPhase
<1> QED
  BY <1>3, <1>4

LEMMA AnswerReports ==
  ASSUME NEW a \in Attempt, NEW answer \in {"running", "uncertain"}, commitFile[a], result[a] = "none",
         result' = [result EXCEPT ![a] = answer], UNCHANGED <<execed, commitFile, intent>>
  PROVE  Once!Report(a, answer)
BY DEF Once!Report, LaunchPhase

-----------------------------------------------------------------------------
(* The answer stays open until the launch gives it.                          *)

LEMMA AnswerCommand == TypeOK /\ DecisionInv /\ AnswerInv /\ CommandStep => AnswerInv'
<1> SUFFICES ASSUME TypeOK, DecisionInv, AnswerInv, CommandStep PROVE AnswerInv'
  OBVIOUS
<1>1. ASSUME NEW a \in Attempt, StopTx(a), mid = Idle,
             UNCHANGED <<intent, result, lpc, mode, commitFile, commitSent>>
      PROVE  AnswerInv'
  BY <1>1, DueFacts DEF StopTx, AnswerInv
<1>2. ASSUME NEW t \in Task, NEW continue, Accept(t, continue) PROVE AnswerInv'
  BY <1>2, AnswerUnchanged DEF Accept, answerVars
<1>3. ASSUME NEW t \in Task, CancelTask(t) PROVE AnswerInv'
  <2>1. CASE UNCHANGED <<attempt, mid>>
    BY <1>3, <2>1, AnswerUnchanged DEF CancelTask, answerVars
  <2> QED
    BY <1>1, <1>3, <2>1 DEF CancelTask, ActiveAttempts, TaskAttempts, Serving
<1>4. ASSUME NEW a \in Attempt, Replay(a) \/ TerminateSession(a) PROVE AnswerInv'
  BY <1>4, AnswerUnchanged DEF Replay, TerminateSession, answerVars
<1>5. ASSUME NEW a \in Attempt, RequestAttemptStop(a) PROVE AnswerInv'
  BY <1>1, <1>5 DEF RequestAttemptStop, Serving
<1> QED
  BY <1>2, <1>3, <1>4, <1>5 DEF CommandStep, Start, Retry, Resume

LEMMA AnswerRouter ==
  ASSUME TypeOK, DecisionInv, AnswerInv, NEW a \in Attempt, RouterStep(a) PROVE AnswerInv'
<1>1. CASE Provisioned(a) \/ ProvisionFailed(a) \/ ScheduleSelect(a)
  BY <1>1, AnswerUnchanged DEF Provisioned, ProvisionFailed, ScheduleSelect, answerVars
<1>2. CASE ScheduleClaim(a)
  <2>1. CASE UNCHANGED <<attempt, slot, intent, lpc>>
    BY <1>2, <2>1, AnswerUnchanged DEF ScheduleClaim, answerVars
  <2>2. CASE ~(HasActiveSlot \/ pick[a] \notin Candidate)
    <3>1. pick[a] \in Attempt /\ attempt[pick[a]] = "Queued" /\ mid = Idle
      BY <1>2, <2>2 DEF Candidate, Schedulable, ScheduleClaim, Serving
    <3>2. result[pick[a]] = "none"
      BY <3>1 DEF DecisionInv, IntentStarts, AnswerInv
    <3>3. /\ lpc' = [lpc EXCEPT ![pick[a]] = IF pick[a] = a THEN "barrier" ELSE @]
          /\ intent' = [intent EXCEPT ![pick[a]] = "Prepared"]
          /\ mode = "up" /\ UNCHANGED <<mid, mode, commitFile, commitSent, result>>
      BY <1>2, <2>2 DEF ScheduleClaim, Serving
    <3> QED
      BY <3>1, <3>2, <3>3, DueFacts DEF AnswerInv, TypeOK
  <2> QED
    BY <1>2, <2>1, <2>2 DEF ScheduleClaim
<1> QED
  BY <1>1, <1>2 DEF RouterStep

\* An abort answers `failed' and leaves no launch at work but the one that writes the file.
LEMMA AnswerAbort ==
  ASSUME TypeOK, AnswerInv, NEW a \in Attempt, AbortTx(a), mid = Idle,
         \/ mid' = Due("abort", a)
         \/ mid' = Idle /\ lpc'[a] = "none",
         \A c \in Attempt : lpc'[c] \in {lpc[c], "none"},
         UNCHANGED <<mode, commitFile, commitSent>>
  PROVE  AnswerInv'
BY DueFacts DEF AbortTx, AnswerInv, TypeOK

LEMMA AnswerLaunch ==
  ASSUME TypeOK, DecisionInv, AnswerInv, NEW a \in Attempt, LaunchStep(a) PROVE AnswerInv'
<1> USE DEF TypeOK, AnswerInv
<1>1. CASE SpawnBootstrap(a) \/ LaunchRejected(a)
  BY <1>1 DEF SpawnBootstrap, LaunchRejected
<1>9. CASE SpawnFails(a)
  <2>1. UNCHANGED <<dbVars, fileVars, procVars>>
    BY <1>9 DEF SpawnFails
  <2>2. CASE Die
    BY <2>1, <2>2, AnswerDie
  <2>3. CASE lpc' = [lpc EXCEPT ![a] = "none"] /\ UNCHANGED <<mode, mid, rpcVars, cur>>
    BY <2>1, <2>3
  <2> QED
    BY <1>9, <2>2, <2>3, SpawnFailsFrame
<1> USE DEF Looping
<1>2. CASE ReceiptLost(a)
  <2>1. mid = Idle /\ mid' = Idle /\ lpc' = [lpc EXCEPT ![a] = "none"] /\ UNCHANGED <<mode, commitFile, commitSent>>
    BY <1>2 DEF ReceiptLost, Looping
  <2>2. CASE AbortTx(a)
    BY <2>1, <2>2, AnswerAbort
  <2>3. CASE UNCHANGED <<intent, result, attempt, slot>>
    BY <2>1, <2>3
  <2> QED
    BY <1>2, <2>2, <2>3 DEF ReceiptLost
<1>3. CASE Authorize(a)
  BY <1>3 DEF Authorize
<1>4. CASE ValidationFails(a)
  <2>1. mid = Idle /\ UNCHANGED <<mode, commitFile, commitSent>>
    BY <1>4 DEF ValidationFails, Looping
  <2>2. CASE AbortTx(a) /\ mid' = Due("abort", a) /\ UNCHANGED lpc
    BY <2>1, <2>2, AnswerAbort
  <2>3. CASE lpc' = [lpc EXCEPT ![a] = "none"] /\ UNCHANGED <<intent, result, attempt, slot, mid>>
    BY <2>1, <2>3
  <2> QED
    BY <1>4, <2>2, <2>3 DEF ValidationFails
<1>5. CASE WriteCommit(a)
  BY <1>5, DueFacts DEF WriteCommit, Looping
<1>6. CASE MarkUncertain(a)
  BY <1>6, DueFacts DEF MarkUncertain, UncertainTx, Looping, DecisionInv, IntentStarts
<1>7. ASSUME NEW isFull \in BOOLEAN, FinalizeRunning(a, isFull) PROVE AnswerInv'
  BY <1>7, DueFacts DEF FinalizeRunning, Looping, DecisionInv, IntentStarts
<1> QED
  BY <1>1, <1>2, <1>3, <1>4, <1>5, <1>6, <1>7, <1>9 DEF LaunchStep

LEMMA AnswerDaemon ==
  ASSUME TypeOK, DecisionInv, AnswerInv, NEW a \in Attempt, DueStep(a) \/ RecordExit(a) PROVE AnswerInv'
<1> USE DEF TypeOK, AnswerInv
<1>1. CASE WriteAbort(a)
  BY <1>1, DueFacts DEF WriteAbort
<1>2. CASE RecordCommitSent(a)
  BY <1>2, DueFacts DEF RecordCommitSent, DecisionInv, FilesFollowIntent
<1>3. CASE SignalStop(a)
  BY <1>3, DueFacts DEF SignalStop
<1>4. CASE RecordExit(a)
  BY <1>4, AnswerUnchanged DEF RecordExit, answerVars
<1> QED
  BY <1>1, <1>2, <1>3, <1>4 DEF DueStep

LEMMA AnswerReconcile ==
  ASSUME TypeOK, DecisionInv, AnswerInv, NEW a \in Attempt, ReconcileStep(a) PROVE AnswerInv'
<1> USE DEF TypeOK, AnswerInv
<1>1. CASE ProbeSession(a)
  BY <1>1, DueFacts DEF ProbeSession
<1>2. ASSUME NEW d \in ProcessDisposition, NEW dataGap \in BOOLEAN, ResolveSession(a, d, dataGap)
      PROVE  AnswerInv'
  BY <1>2, DueFacts DEF ResolveSession
<1>3. CASE ResumePrepared(a)
  BY <1>3, DueFacts DEF ResumePrepared, Unfinished
<1>4. CASE AbortUnsent(a)
  <2>1. \A c \in Attempt : lpc'[c] \in {lpc[c], "none"}
    BY <1>4 DEF AbortUnsent
  <2> QED
    BY <1>4, <2>1, AnswerAbort DEF AbortUnsent
<1>5. ASSUME NEW d \in ProcessDisposition, ResolveSent(a, d) PROVE AnswerInv'
  <2>1. lpc[a] = "none"
    BY <1>5 DEF ResolveSent, Unfinished, DecisionInv, LaunchUndecided
  <2> QED
    BY <1>5, <2>1, DueFacts DEF ResolveSent, UncertainTx, Unfinished
<1>6. CASE LaunchResumed(a)
  BY <1>6 DEF LaunchResumed
<1> QED
  BY <1>1, <1>2, <1>3, <1>4, <1>5, <1>6 DEF ReconcileStep

LEMMA AnswerPhase == TypeOK /\ AnswerInv /\ (PhaseStep \/ HostStep) => AnswerInv'
<1> SUFFICES ASSUME TypeOK, AnswerInv, PhaseStep \/ HostStep PROVE AnswerInv'
  OBVIOUS
<1> USE DEF TypeOK, AnswerInv
<1>1. CASE ReconcileSlotLeases
  BY <1>1 DEF ReconcileSlotLeases
<1>2. CASE Die /\ UNCHANGED <<dbVars, fileVars, procVars>>
  BY <1>2, AnswerDie
<1>3. CASE /\ UNCHANGED <<dbVars, fileVars, procVars, mid, rpcVars, runVars>>
           /\ mode \in {"resume", "up"} => mode' \in {"resume", "up"}
  BY <1>3
<1> QED
  BY <1>1, <1>2, <1>3, PhaseFrame

LEMMA AnswerBootstrap ==
  ASSUME AnswerInv, NEW a \in Attempt, NEW b \in Boot, BootstrapStep(a, b) PROVE AnswerInv'
BY AnswerUnchanged DEF answerVars, BootstrapStep, Connect, WriteReceipt, TearReceipt, TakeCommit,
   TearExecReceipt, ExecAgent, AgentRetitled, ProcessExits

LEMMA AnswerCorrect == Spec => []AnswerInv
<1>1. Init => AnswerInv
  BY DueFacts DEF Init, AnswerInv
<1>2. TypeOK /\ DecisionInv /\ AnswerInv /\ [Next]_vars => AnswerInv'
  <2>1. AnswerInv /\ UNCHANGED vars => AnswerInv'
    BY AnswerUnchanged DEF answerVars
  <2> QED
    BY <2>1, AnswerCommand, AnswerPhase, AnswerRouter, AnswerLaunch, AnswerDaemon,
       AnswerBootstrap, AnswerReconcile DEF Next
<1> QED
  BY <1>1, <1>2, TypeCorrect, DecisionCorrect, PTL DEF Spec

-----------------------------------------------------------------------------
(* Every step is a step of LaunchOnce or a stutter.                          *)

OnceNext == OnceStutter \/ \E a \in Attempt : OnceStep(a)

LEMMA OnceCommand == CommandStep => OnceNext
<1> SUFFICES ASSUME CommandStep PROVE OnceNext
  OBVIOUS
<1>1. UNCHANGED phaseVars
  BY DEF CommandStep, Start, CancelTask, Retry, Resume, Replay, RequestAttemptStop,
     TerminateSession, Accept, phaseVars
<1> QED
  BY <1>1, PhaseUnchanged DEF OnceNext

LEMMA OnceRouter ==
  ASSUME TypeOK, DecisionInv, NEW a \in Attempt, RouterStep(a) PROVE OnceNext
<1>1. CASE Provisioned(a) \/ ProvisionFailed(a) \/ ScheduleSelect(a)
  BY <1>1, PhaseUnchanged DEF Provisioned, ProvisionFailed, ScheduleSelect, phaseVars, OnceNext
<1>2. CASE ScheduleClaim(a)
  <2>1. CASE UNCHANGED intent
    BY <1>2, <2>1, PhaseUnchanged DEF ScheduleClaim, phaseVars, OnceNext
  <2>2. CASE ~(HasActiveSlot \/ pick[a] \notin Candidate)
    <3>1. pick[a] \in Attempt /\ intent[pick[a]] = "None"
      BY <2>2 DEF Candidate, Schedulable, DecisionInv, IntentStarts
    <3>2. intent' = [intent EXCEPT ![pick[a]] = "Prepared"] /\ UNCHANGED <<execed, commitFile, result>>
      BY <1>2, <2>2 DEF ScheduleClaim
    <3>3. \A c \in Attempt : intent'[c] = "Aborted" <=> intent[c] = "Aborted"
      BY <3>1, <3>2 DEF TypeOK
    <3> QED
      BY <3>2, <3>3 DEF OnceNext, OnceStutter, LaunchPhase
  <2> QED
    BY <1>2, <2>1, <2>2 DEF ScheduleClaim
<1> QED
  BY <1>1, <1>2 DEF RouterStep

LEMMA OnceLaunch ==
  ASSUME TypeOK, DecisionInv, AnswerInv, NEW a \in Attempt, LaunchStep(a) PROVE OnceNext
<1>1. CASE SpawnBootstrap(a) \/ SpawnFails(a) \/ LaunchRejected(a)
  BY <1>1, PhaseUnchanged DEF SpawnBootstrap, SpawnFails, LaunchRejected, phaseVars, OnceNext
<1>2. CASE ReceiptLost(a)
  <2>1. ~commitFile[a] /\ UNCHANGED <<execed, commitFile>>
    BY <1>2 DEF ReceiptLost, DecisionInv, LaunchUndecided, FilesFollowIntent
  <2>2. CASE CanAbort(a) /\ AbortTx(a)
    BY <2>1, <2>2, AbortForbids DEF OnceNext, OnceStep
  <2>3. CASE UNCHANGED <<intent, result, attempt, slot>>
    BY <2>1, <2>3, PhaseUnchanged DEF phaseVars, OnceNext
  <2> QED
    BY <1>2, <2>2, <2>3 DEF ReceiptLost
<1>3. CASE Authorize(a)
  <2>1. intent[a] = "Prepared" /\ intent' = [intent EXCEPT ![a] = "Authorized"]
    BY <1>3 DEF Authorize, DecisionInv, LaunchUndecided
  <2>2. \A c \in Attempt : intent'[c] = "Aborted" <=> intent[c] = "Aborted"
    BY <2>1 DEF TypeOK
  <2> QED
    BY <1>3, <2>2 DEF Authorize, OnceNext, OnceStutter, LaunchPhase
<1>4. CASE ValidationFails(a)
  <2>1. ~commitFile[a] /\ UNCHANGED <<execed, commitFile>>
    BY <1>4, DueFacts DEF ValidationFails, Looping, DecisionInv, LaunchUndecided, Deciding
  <2>2. CASE CanAbort(a) /\ AbortTx(a)
    BY <2>1, <2>2, AbortForbids DEF OnceNext, OnceStep
  <2>3. CASE UNCHANGED <<intent, result, attempt, slot, mid>>
    BY <2>1, <2>3, PhaseUnchanged DEF phaseVars, OnceNext
  <2> QED
    BY <1>4, <2>2, <2>3 DEF ValidationFails
<1>5. CASE WriteCommit(a)
  BY <1>5, CommitPermits DEF OnceNext, OnceStep
<1>6. CASE MarkUncertain(a)
  <2>1. commitFile[a] /\ result[a] = "none"
    BY <1>6, DueFacts DEF MarkUncertain, Looping, AnswerInv
  <2>2. result' = [result EXCEPT ![a] = "uncertain"] /\ UNCHANGED <<execed, commitFile, intent>>
    BY <1>6 DEF MarkUncertain, UncertainTx
  <2> QED
    BY <2>1, <2>2, AnswerReports DEF OnceNext, OnceStep
<1>7. ASSUME NEW isFull \in BOOLEAN, FinalizeRunning(a, isFull) PROVE OnceNext
  <2>1. commitFile[a] /\ result[a] = "none"
    BY <1>7, DueFacts DEF FinalizeRunning, Looping, AnswerInv
  <2>2. result' = [result EXCEPT ![a] = "running"] /\ UNCHANGED <<execed, commitFile, intent>>
    BY <1>7 DEF FinalizeRunning
  <2> QED
    BY <2>1, <2>2, AnswerReports DEF OnceNext, OnceStep
<1> QED
  BY <1>1, <1>2, <1>3, <1>4, <1>5, <1>6, <1>7 DEF LaunchStep

LEMMA OnceDaemon == ASSUME NEW a \in Attempt, DueStep(a) \/ RecordExit(a) PROVE OnceNext
<1>1. UNCHANGED phaseVars
  BY DEF DueStep, WriteAbort, RecordCommitSent, SignalStop, RecordExit, phaseVars
<1> QED
  BY <1>1, PhaseUnchanged DEF OnceNext

LEMMA OnceBootstrap ==
  ASSUME TypeOK, DecisionInv, NEW a \in Attempt, NEW b \in Boot, BootstrapStep(a, b) PROVE OnceNext
<1>1. CASE ExecAgent(a, b)
  BY <1>1, ExecExecutes DEF OnceNext, OnceStep
<1>2. CASE ~ExecAgent(a, b)
  <2>1. UNCHANGED phaseVars
    BY <1>2 DEF BootstrapStep, Connect, WriteReceipt, TearReceipt, TakeCommit, TearExecReceipt,
       AgentRetitled, ProcessExits, phaseVars
  <2> QED
    BY <2>1, PhaseUnchanged DEF OnceNext
<1> QED
  BY <1>1, <1>2

LEMMA OnceReconcile ==
  ASSUME TypeOK, DecisionInv, AnswerInv, NEW a \in Attempt, ReconcileStep(a) PROVE OnceNext
<1>1. CASE ProbeSession(a) \/ ResumePrepared(a) \/ LaunchResumed(a)
  BY <1>1, PhaseUnchanged DEF ProbeSession, ResumePrepared, LaunchResumed, phaseVars, OnceNext
<1>2. ASSUME NEW d \in ProcessDisposition, NEW dataGap \in BOOLEAN, ResolveSession(a, d, dataGap)
      PROVE  OnceNext
  BY <1>2, PhaseUnchanged DEF ResolveSession, phaseVars, OnceNext
<1>3. CASE AbortUnsent(a)
  <2>1. ~commitFile[a]
    BY <1>3 DEF AbortUnsent, Unfinished, CommitMayBeOut, DecisionInv, FilesFollowIntent
  <2> QED
    BY <1>3, <2>1, AbortForbids DEF AbortUnsent, OnceNext, OnceStep
<1>4. ASSUME NEW d \in ProcessDisposition, ResolveSent(a, d) PROVE OnceNext
  <2>1. commitFile[a] /\ result[a] = "none"
    BY <1>4 DEF ResolveSent, Unfinished, CommitMayBeOut, AnswerInv
  <2>2. result' = [result EXCEPT ![a] = "uncertain"] /\ UNCHANGED <<execed, commitFile, intent>>
    BY <1>4 DEF ResolveSent, UncertainTx
  <2> QED
    BY <2>1, <2>2, AnswerReports DEF OnceNext, OnceStep
<1> QED
  BY <1>1, <1>2, <1>3, <1>4 DEF ReconcileStep

LEMMA OncePhase == PhaseStep \/ HostStep => OnceNext
<1> SUFFICES ASSUME PhaseStep \/ HostStep PROVE OnceNext
  OBVIOUS
<1>1. UNCHANGED phaseVars
  BY DEF PhaseStep, HostStep, Crash, OutputOutgrowsSnapshot, RemoveSocket, RebuildSnapshots,
     Restart, SessionsDone, IntentsDone, ReconcileSlotLeases, StartupDone, phaseVars
<1> QED
  BY <1>1, PhaseUnchanged DEF OnceNext

\* The handshake implements LaunchOnce for any number of Attempts and crashes: whatever
\* bootstraps, files, torn writes and restarts it takes, each nonce is decided once, its
\* Agent starts at most once and only if permitted, and `failed' is said only of an Agent
\* that will never start.
THEOREM LaunchImplementsOnce == Spec => ImplementsLaunchOnce
<1>1. Init => Once!Init
  <2> SUFFICES ASSUME Init PROVE Once!Init
    OBVIOUS
  <2>1. LaunchPhase = [a \in Attempt |-> "undecided"]
    BY DEF Init, LaunchPhase
  <2> QED
    BY <2>1 DEF Init, Once!Init
<1>2. TypeOK /\ DecisionInv /\ AnswerInv /\ [Next]_vars => [Once!Next]_<<LaunchPhase, result>>
  <2> SUFFICES ASSUME TypeOK, DecisionInv, AnswerInv, [Next]_vars
               PROVE  [Once!Next]_<<LaunchPhase, result>>
    OBVIOUS
  <2>1. UNCHANGED vars => OnceNext
    BY PhaseUnchanged DEF phaseVars, OnceNext
  <2>2. OnceNext
    BY <2>1, OnceCommand, OnceRouter, OnceLaunch, OnceDaemon, OnceBootstrap, OnceReconcile,
       OncePhase DEF Next
  <2> QED
    BY <2>2 DEF OnceNext, OnceStutter, OnceStep, Once!Next
<1> QED
  BY <1>1, <1>2, TypeCorrect, DecisionCorrect, AnswerCorrect, PTL
     DEF Spec, ImplementsLaunchOnce, Once!Spec, Once!vars

(***************************************************************************)
(* What follows for who has been answered, from LaunchOnce alone.           *)
(***************************************************************************)

\* Nothing is answered before the decision, and `failed' is the answer to a refusal.
OnceInv ==
  \A a \in Attempt :
    /\ LaunchPhase[a] = "undecided" => result[a] = "none"
    /\ result[a] = "failed" => LaunchPhase[a] = "forbidden"

\* The domains, all that is needed of LaunchPhase and result as such.
LEMMA OnceDomains ==
  TypeOK => DOMAIN LaunchPhase = Attempt /\ DOMAIN result = Attempt
BY DEF TypeOK, LaunchPhase

\* One step of LaunchOnce: an answer that was given stays, and so does OnceInv.
LEMMA OnceStepKeeps ==
  ASSUME TypeOK, OnceInv, [Once!Next]_<<LaunchPhase, result>>
  PROVE  OnceInv' /\ \A a \in Attempt : result[a] # "none" => result'[a] = result[a]
<1>0. DOMAIN LaunchPhase = Attempt /\ DOMAIN result = Attempt
  BY OnceDomains
<1> DEFINE Goal == OnceInv' /\ \A a \in Attempt : result[a] # "none" => result'[a] = result[a]
<1>1. ASSUME NEW n \in Attempt, Once!Forbid(n) PROVE Goal
  BY <1>0, <1>1 DEF Once!Forbid, OnceInv
<1>2. ASSUME NEW n \in Attempt, Once!Permit(n) \/ Once!Exec(n) PROVE Goal
  BY <1>0, <1>2 DEF Once!Permit, Once!Exec, OnceInv
<1>3. ASSUME NEW n \in Attempt, NEW answer \in {"running", "uncertain"}, Once!Report(n, answer)
      PROVE  Goal
  BY <1>0, <1>3 DEF Once!Report, OnceInv
<1>4. ASSUME UNCHANGED <<LaunchPhase, result>> PROVE Goal
  BY <1>4 DEF OnceInv
<1> QED
  BY <1>1, <1>2, <1>3, <1>4 DEF Once!Next

\* The durable result of a launch command is final, over crashes, restarts and resumed
\* launches: whoever asks again gets the same, and an Agent whose launch was answered with
\* `failed' has not started and never will (#abort, #finalizeRunning, #markUncertain).
THEOREM AnswerIsFinal ==
  ASSUME NEW a \in Attempt, NEW r \in {"failed", "running", "uncertain"}
  PROVE  Spec => [](result[a] = r => [](result[a] = r /\ (r = "failed" => execed[a] = {})))
<1>1. Init => OnceInv
  <2>1. Init => \A n \in Attempt : result[n] = "none"
    BY DEF Init
  <2> QED
    BY <2>1 DEF OnceInv
<1>2. TypeOK /\ OnceInv /\ [Once!Next]_<<LaunchPhase, result>> => OnceInv'
  BY OnceStepKeeps
<1>3. TypeOK /\ OnceInv /\ result[a] = r /\ [Once!Next]_<<LaunchPhase, result>> => (result[a] = r)'
  BY OnceStepKeeps
<1>4. OnceInv /\ result[a] = r => (r = "failed" => execed[a] = {})
  BY DEF OnceInv, LaunchPhase
<1> QED
  BY <1>1, <1>2, <1>3, <1>4, TypeCorrect, LaunchImplementsOnce, PTL
     DEF Spec, ImplementsLaunchOnce, Once!Spec, Once!vars

-----------------------------------------------------------------------------
(* The projection: a Task has one Attempt that is not over, its newest.     *)

\* Identities are handed out in order, each to a Task.
Numbered ==
  /\ \A a \in Attempt : attempt[a] = "None" <=> taskOf[a] = NoTask
  /\ \A a, b \in Attempt : a < b /\ attempt[b] # "None" => attempt[a] # "None"

NewestActive == \A a, b \in Attempt : Nonterminal(a) /\ a < b => taskOf[b] # taskOf[a]
HasNewest ==
  \A t \in Task : TaskAttempts(t) # {} => \E a \in TaskAttempts(t) : \A b \in TaskAttempts(t) : b <= a

\* A cancelled Task is being stopped, and none with an Attempt is a Draft.
LifecycleFits ==
  \A a \in Attempt : attempt[a] # "None" =>
    /\ task[taskOf[a]] # "Draft"
    /\ task[taskOf[a]] = "Cancelled" /\ Nonterminal(a) => attempt[a] = "Stopping"

InterruptedProbed == \A a \in Attempt : attempt[a] = "Interrupted" => disp[a] # "none"

FleetInv == Numbered /\ NewestActive /\ HasNewest /\ LifecycleFits /\ InterruptedProbed

\* What a step may do to the status of an Attempt it does not accept.
LifeStep(a) ==
  /\ attempt'[a] = "None" <=> attempt[a] = "None"
  /\ attempt[a] = "Stopping" => attempt'[a] \in TerminalAttempt \union {"Stopping"}
  /\ attempt'[a] = "Interrupted" => attempt[a] = "Interrupted" \/ disp'[a] # "none"
  /\ disp[a] # "none" => disp'[a] # "none"

Accepts == \E t \in Task : Start(t) \/ \E src \in TaskAttempts(t) : Retry(t, src) \/ Resume(t, src)
LaterCommand ==
  \/ \E t \in Task : CancelTask(t)
  \/ \E a \in Attempt : Replay(a) \/ RequestAttemptStop(a) \/ TerminateSession(a)

LEMMA LifeSteps ==
  ASSUME TypeOK, SlotInv, [Next]_vars, ~Accepts
  PROVE  /\ UNCHANGED taskOf /\ \A a \in Attempt : LifeStep(a)
         /\ UNCHANGED task \/ \E t \in Task : CancelTask(t)
<1> USE DEF SlotInv, SessionMatchesAttempt, ProbedIsAlive, NeverWaiting, LaunchHasNoSession,
            TypeOK, LifeStep, TerminalAttempt
<1> DEFINE Goal == UNCHANGED taskOf /\ \A c \in Attempt : LifeStep(c)
<1>1. ASSUME UNCHANGED <<attempt, disp, taskOf>> PROVE Goal
  BY <1>1
\* One Attempt that exists is moved, and not to Interrupted.
<1>2. ASSUME NEW a \in Attempt, NEW s, attempt[a] # "None", s \notin {"None", "Interrupted"},
             attempt[a] = "Stopping" => s \in TerminalAttempt \union {"Stopping"},
             attempt' = [attempt EXCEPT ![a] = s], UNCHANGED <<disp, taskOf>>
      PROVE  Goal
  BY <1>2
<1>3. ASSUME NEW a \in Attempt, StopTx(a), Nonterminal(a), UNCHANGED <<disp, taskOf>> PROVE Goal
  BY <1>2, <1>3 DEF StopTx, StopStatus, Nonterminal
<1>4. ASSUME LaterCommand PROVE Goal
  <2>1. ASSUME NEW t \in Task, CancelTask(t) PROVE Goal
    BY <1>1, <1>3, <2>1 DEF CancelTask, ActiveAttempts, TaskAttempts
  <2>2. ASSUME NEW a \in Attempt, Replay(a) \/ RequestAttemptStop(a) \/ TerminateSession(a)
        PROVE  Goal /\ UNCHANGED task
    BY <1>1, <1>3, <2>2 DEF Replay, RequestAttemptStop, TerminateSession
  <2> QED
    BY <1>4, <2>1, <2>2 DEF LaterCommand
<1>5. ASSUME NEW a \in Attempt, RouterStep(a) PROVE Goal /\ UNCHANGED task
  <2>1. CASE Provisioned(a) \/ ScheduleSelect(a)
    BY <1>1, <2>1 DEF Provisioned, ScheduleSelect
  <2>2. CASE ProvisionFailed(a)
    BY <2>2 DEF ProvisionFailed
  <2>3. CASE ScheduleClaim(a)
    BY <1>1, <1>2, <2>3 DEF ScheduleClaim, Candidate, Schedulable
  <2> QED
    BY <1>5, <2>1, <2>2, <2>3 DEF RouterStep
<1>6. ASSUME NEW a \in Attempt, CanAbort(a), AbortTx(a), UNCHANGED <<disp, taskOf>> PROVE Goal
  BY <1>2, <1>6, TableFacts DEF CanAbort, AbortTx
<1>7. ASSUME NEW a \in Attempt, NEW d \in ProcessDisposition, UncertainTx(a, d), UNCHANGED taskOf PROVE Goal
  <2>1. attempt[a] \notin {"None", "Interrupted"}
    BY <1>7, TableFacts DEF UncertainTx
  <2>2. attempt' = [attempt EXCEPT ![a] = "Uncertain"] /\ disp' = [disp EXCEPT ![a] = d] /\ d # "none"
    BY <1>7 DEF UncertainTx, ProcessDisposition
  <2> QED
    BY <1>7, <2>1, <2>2
<1>8. ASSUME NEW a \in Attempt, LaunchStep(a) PROVE Goal /\ UNCHANGED task
  <2>1. CASE SpawnBootstrap(a) \/ SpawnFails(a) \/ Authorize(a) \/ WriteCommit(a) \/ LaunchRejected(a)
    BY <1>1, <2>1 DEF SpawnBootstrap, SpawnFails, Authorize, WriteCommit, LaunchRejected
  <2>2. CASE ReceiptLost(a) \/ ValidationFails(a)
    BY <1>1, <1>6, <2>2 DEF ReceiptLost, ValidationFails
  <2>3. CASE MarkUncertain(a)
    BY <1>7, <2>3 DEF MarkUncertain, ProcessDisposition
  <2>4. ASSUME NEW isFull \in BOOLEAN, FinalizeRunning(a, isFull) PROVE Goal /\ UNCHANGED task
    BY <1>2, <2>4, TableFacts DEF FinalizeRunning
  <2> QED
    BY <1>8, <2>1, <2>2, <2>3, <2>4 DEF LaunchStep
<1>9. ASSUME NEW a \in Attempt, DueStep(a) \/ RecordExit(a) PROVE Goal /\ UNCHANGED task
  <2>1. CASE DueStep(a)
    BY <1>1, <2>1 DEF DueStep, WriteAbort, RecordCommitSent, SignalStop
  <2>2. CASE RecordExit(a)
    BY <1>2, <2>2 DEF RecordExit, Settlement
  <2> QED
    BY <1>9, <2>1, <2>2
<1>10. ASSUME NEW a \in Attempt, ReconcileStep(a) PROVE Goal /\ UNCHANGED task
  <2>1. CASE ResumePrepared(a) \/ LaunchResumed(a)
    BY <1>1, <2>1 DEF ResumePrepared, LaunchResumed
  <2>2. CASE ProbeSession(a)
    BY <2>2 DEF ProbeSession
  <2>3. ASSUME NEW d \in ProcessDisposition, NEW dataGap \in BOOLEAN, ResolveSession(a, d, dataGap)
        PROVE  Goal /\ UNCHANGED task
    BY <2>3 DEF ResolveSession, RestartStatus, ProcessDisposition
  <2>4. CASE AbortUnsent(a)
    BY <1>6, <2>4 DEF AbortUnsent
  <2>5. ASSUME NEW d \in ProcessDisposition, ResolveSent(a, d) PROVE Goal /\ UNCHANGED task
    BY <1>7, <2>5 DEF ResolveSent
  <2> QED
    BY <1>10, <2>1, <2>2, <2>3, <2>4, <2>5 DEF ReconcileStep
<1>11. ASSUME PhaseStep \/ HostStep PROVE Goal /\ UNCHANGED task
  <2>1. CASE ReconcileSlotLeases
    BY <2>1 DEF ReconcileSlotLeases, NewDisp
  <2>2. CASE ~ReconcileSlotLeases
    BY <1>1, <1>11, <2>2 DEF PhaseStep, HostStep, Crash, OutputOutgrowsSnapshot, RemoveSocket, RebuildSnapshots,
     Restart, SessionsDone, IntentsDone, StartupDone
  <2> QED
    BY <2>1, <2>2
<1>12. ASSUME NEW a \in Attempt, NEW b \in Boot, BootstrapStep(a, b) PROVE Goal /\ UNCHANGED task
  BY <1>1, <1>12 DEF BootstrapStep, Connect, WriteReceipt, TearReceipt, TakeCommit, TearExecReceipt,
     ExecAgent, AgentRetitled, ProcessExits
<1>13. CommandStep => LaterCommand
  BY DEF CommandStep, Accepts, LaterCommand
<1>14. LaterCommand => UNCHANGED task \/ \E t \in Task : CancelTask(t)
  BY DEF LaterCommand, Replay, RequestAttemptStop, TerminateSession
<1>15. ASSUME UNCHANGED vars PROVE Goal /\ UNCHANGED task
  BY <1>1, <1>15
<1> HIDE DEF Goal
<1>16. Goal /\ (UNCHANGED task \/ \E t \in Task : CancelTask(t))
  BY <1>4, <1>5, <1>8, <1>9, <1>10, <1>11, <1>12, <1>13, <1>14, <1>15 DEF Next
<1> QED
  BY <1>16 DEF Goal

LEMMA FleetAccept ==
  ASSUME TypeOK, FleetInv, NEW t \in Task, NEW continue, Accept(t, continue),
         ActiveAttempts(t) = {}, task' = [task EXCEPT ![t] = "Runnable"]
  PROVE  FleetInv'
<1>1. PICK a \in Fresh : /\ taskOf' = [taskOf EXCEPT ![a] = t]
                         /\ attempt' = [attempt EXCEPT ![a] = "Queued"]
                         /\ UNCHANGED disp
  BY DEF Accept
<1>2. /\ a \in Attempt /\ attempt[a] = "None" /\ \A b \in 1 .. (a - 1) : attempt[b] # "None"
      /\ Attempt \subseteq Nat /\ \A b \in Attempt : b < a => b \in 1 .. (a - 1)
  BY BoundsAssumption DEF Fresh, Attempt
<1>3. \A b \in Attempt : /\ taskOf'[b] = IF b = a THEN t ELSE taskOf[b]
                         /\ attempt'[b] = IF b = a THEN "Queued" ELSE attempt[b]
  BY <1>1, <1>2 DEF TypeOK
<1>4. \A s \in Task : task'[s] = IF s = t THEN "Runnable" ELSE task[s]
  BY DEF TypeOK
<1>5. \A b \in Attempt : /\ b > a => attempt[b] = "None" /\ taskOf[b] = NoTask
                         /\ b < a => attempt[b] # "None"
                         /\ taskOf[b] \in Task \union {NoTask}
  BY <1>2 DEF FleetInv, Numbered, TypeOK
<1>6. Numbered'
  BY <1>2, <1>3, <1>5, NoTaskAssumption DEF FleetInv, Numbered
<1>7. NewestActive'
  <2> SUFFICES ASSUME NEW b \in Attempt, NEW c \in Attempt, Nonterminal(b)', b < c PROVE taskOf'[c] # taskOf'[b]
    BY DEF NewestActive
  <2>1. CASE b = a
    BY <1>2, <1>3, <1>5, <2>1, NoTaskAssumption
  <2>2. CASE b # a /\ c = a
    <3>1. Nonterminal(b) /\ taskOf[b] # t
      BY <1>3, <2>2 DEF Nonterminal, ActiveAttempts, TaskAttempts
    <3> QED
      BY <1>3, <2>2, <3>1
  <2>3. CASE b # a /\ c # a
    BY <1>3, <2>3 DEF Nonterminal, FleetInv, NewestActive
  <2> QED
    BY <2>1, <2>2, <2>3
<1>8. HasNewest'
  <2> SUFFICES ASSUME NEW s \in Task, TaskAttempts(s)' # {}
               PROVE  \E b \in TaskAttempts(s)' : \A c \in TaskAttempts(s)' : c <= b
    BY DEF HasNewest
  <2>1. CASE s = t
    <3>1. a \in TaskAttempts(s)'
      BY <1>2, <1>3, <2>1 DEF TaskAttempts
    <3>2. \A c \in TaskAttempts(s)' : c <= a
      BY <1>2, <1>3, <1>5, <2>1, NoTaskAssumption DEF TaskAttempts
    <3> QED
      BY <3>1, <3>2
  <2>2. CASE s # t
    <3>1. TaskAttempts(s)' = TaskAttempts(s)
      BY <1>2, <1>3, <1>5, <2>2, NoTaskAssumption DEF TaskAttempts, FleetInv, Numbered
    <3> QED
      BY <3>1 DEF FleetInv, HasNewest
  <2> QED
    BY <2>1, <2>2
<1>9. LifecycleFits'
  <2> SUFFICES ASSUME NEW b \in Attempt, attempt'[b] # "None"
               PROVE  /\ task'[taskOf'[b]] # "Draft"
                      /\ task'[taskOf'[b]] = "Cancelled" /\ Nonterminal(b)' => attempt'[b] = "Stopping"
    BY DEF LifecycleFits
  <2>1. CASE b = a
    BY <1>3, <1>4, <2>1
  <2>2. CASE b # a
    <3>1. attempt[b] # "None" /\ taskOf[b] \in Task /\ taskOf'[b] = taskOf[b] /\ attempt'[b] = attempt[b]
      BY <1>3, <1>5, <2>2 DEF FleetInv, Numbered
    <3>2. Nonterminal(b)' => Nonterminal(b)
      BY <3>1 DEF Nonterminal
    <3> QED
      BY <1>4, <3>1, <3>2 DEF FleetInv, LifecycleFits
  <2> QED
    BY <2>1, <2>2
<1>10. InterruptedProbed'
  BY <1>1, <1>3 DEF FleetInv, InterruptedProbed
<1> QED
  BY <1>6, <1>7, <1>8, <1>9, <1>10 DEF FleetInv

LEMMA FleetKept ==
  ASSUME TypeOK, FleetInv, UNCHANGED taskOf,
         \A a \in Attempt : LifeStep(a) /\ (attempt[a] \in TerminalAttempt => attempt'[a] = attempt[a]),
         UNCHANGED task \/ \E t \in Task : CancelTask(t)
  PROVE  FleetInv'
<1>1. \A a \in Attempt : Nonterminal(a)' => Nonterminal(a)
  BY DEF LifeStep, Nonterminal
<1>2. Numbered' /\ NewestActive'
  BY <1>1 DEF LifeStep, FleetInv, Numbered, NewestActive
<1>3. HasNewest'
  <2>1. \A t : TaskAttempts(t)' = TaskAttempts(t)
    BY DEF TaskAttempts
  <2> QED
    BY <2>1 DEF FleetInv, HasNewest
<1>4. InterruptedProbed'
  BY DEF LifeStep, FleetInv, InterruptedProbed
<1>5. LifecycleFits'
  <2> SUFFICES ASSUME NEW a \in Attempt, attempt'[a] # "None"
               PROVE  /\ task'[taskOf[a]] # "Draft"
                      /\ task'[taskOf[a]] = "Cancelled" /\ Nonterminal(a)' => attempt'[a] = "Stopping"
    BY DEF LifecycleFits
  <2>1. attempt[a] # "None" /\ taskOf[a] \in Task
    BY NoTaskAssumption DEF LifeStep, FleetInv, Numbered, TypeOK
  <2>2. /\ task[taskOf[a]] # "Draft"
        /\ task[taskOf[a]] = "Cancelled" /\ Nonterminal(a) => attempt[a] = "Stopping"
    BY <2>1 DEF FleetInv, LifecycleFits
  <2>3. attempt[a] = "Stopping" /\ Nonterminal(a)' => attempt'[a] = "Stopping"
    BY DEF LifeStep, Nonterminal
  <2>4. CASE UNCHANGED task
    BY <1>1, <2>2, <2>3, <2>4
  <2>5. ASSUME NEW t \in Task, CancelTask(t)
        PROVE  /\ task'[taskOf[a]] # "Draft"
               /\ task'[taskOf[a]] = "Cancelled" /\ Nonterminal(a)' => attempt'[a] = "Stopping"
    <3>1. task' = [task EXCEPT ![t] = "Cancelled"]
      BY <2>5 DEF CancelTask
    <3>2. CASE taskOf[a] # t
      BY <1>1, <2>1, <2>2, <2>3, <3>1, <3>2 DEF TypeOK
    <3>3. CASE taskOf[a] = t
      <4>1. task'[taskOf[a]] = "Cancelled"
        BY <3>1, <3>3 DEF TypeOK
      <4>2. ASSUME Nonterminal(a)' PROVE attempt'[a] = "Stopping"
        <5>1. a \in ActiveAttempts(t)
          BY <1>1, <3>3, <4>2 DEF ActiveAttempts, TaskAttempts
        <5>2. PICK b \in ActiveAttempts(t) : StopTx(b)
          BY <2>5, <5>1 DEF CancelTask
        <5>3. b = a
          <6>1. b \in Attempt /\ taskOf[b] = t /\ Nonterminal(b) /\ Nonterminal(a) /\ Attempt \subseteq Nat
            BY <5>1, BoundsAssumption DEF ActiveAttempts, TaskAttempts, Attempt
          <6> QED
            BY <3>3, <6>1 DEF FleetInv, NewestActive
        <5>4. attempt'[a] = StopStatus(a)
          BY <5>2, <5>3 DEF StopTx, TypeOK
        <5> QED
          BY <4>2, <5>4 DEF StopStatus, Nonterminal, TerminalAttempt
      <4> QED
        BY <4>1, <4>2
    <3> QED
      BY <3>2, <3>3
  <2> QED
    BY <2>4, <2>5
<1> QED
  BY <1>2, <1>3, <1>4, <1>5 DEF FleetInv

LEMMA FleetCorrect == Spec => []FleetInv
<1>1. Init => FleetInv
  BY NoTaskAssumption DEF Init, FleetInv, Numbered, NewestActive, HasNewest, LifecycleFits, InterruptedProbed,
     TaskAttempts, Nonterminal
<1>2. TypeOK /\ SlotInv /\ FleetInv /\ [Next]_vars => FleetInv'
  <2> SUFFICES ASSUME TypeOK, SlotInv, FleetInv, [Next]_vars PROVE FleetInv'
    OBVIOUS
  <2>1. CASE Accepts
    <3>1. ASSUME NEW t \in Task, Start(t) PROVE FleetInv'
      BY <3>1, FleetAccept DEF Start, StartAllowed
    <3>2. ASSUME NEW t \in Task, NEW src \in TaskAttempts(t), Retry(t, src) \/ Resume(t, src) PROVE FleetInv'
      <4>1. task[t] = "Runnable" /\ ActiveAttempts(t) = {} /\ UNCHANGED task /\ \E continue : Accept(t, continue)
        BY <3>2 DEF Retry, Resume, RetryAllowed, ResumeAllowed
      <4>2. task' = [task EXCEPT ![t] = "Runnable"]
        BY <4>1 DEF TypeOK
      <4> QED
        BY <4>1, <4>2, FleetAccept
    <3> QED
      BY <2>1, <3>1, <3>2 DEF Accepts
  <2>2. CASE ~Accepts
    <3>1. \A a \in Attempt : attempt[a] \in TerminalAttempt => attempt'[a] = attempt[a]
      BY StatusSteps DEF StatusStep
    <3> QED
      BY <2>2, <3>1, LifeSteps, FleetKept
  <2> QED
    BY <2>1, <2>2
<1> QED
  BY <1>1, <1>2, TypeCorrect, SlotCorrect, PTL DEF Spec

LEMMA LatestIs ==
  ASSUME NEW S \in SUBSET Nat, NEW a \in S, \A b \in S : b <= a PROVE Latest(S) = a
<1>1. S # {} /\ \A c \in S : (\A b \in S : b <= c) => c = a
  <2> SUFFICES ASSUME NEW c \in S, \A b \in S : b <= c PROVE c = a
    OBVIOUS
  <2>1. a <= c /\ c <= a /\ a \in Nat /\ c \in Nat
    OBVIOUS
  <2> QED
    BY <2>1
<1>2. (CHOOSE c \in S : \A b \in S : b <= c) = a
  BY <1>1
<1> QED
  BY <1>1, <1>2 DEF Latest

\* The Attempts a Task shows.
LEMMA ShownAttempts ==
  ASSUME FleetInv, NEW t \in Task
  PROVE  /\ ActiveAttempts(t) = {} => CurrentAttempt(t) = NoAttempt
         /\ \A a \in ActiveAttempts(t) : a = CurrentAttempt(t) /\ a = LastAttempt(t)
         /\ CurrentAttempt(t) # NoAttempt => CurrentAttempt(t) \in ActiveAttempts(t)
         /\ LastAttempt(t) # NoAttempt => LastAttempt(t) \in TaskAttempts(t)
         /\ NoAttempt \notin Attempt
<1>1. Attempt \subseteq Nat /\ NoAttempt \notin Attempt
  BY BoundsAssumption DEF Attempt, NoAttempt
<1>2. TaskAttempts(t) \subseteq Attempt /\ ActiveAttempts(t) \subseteq TaskAttempts(t)
  BY DEF TaskAttempts, ActiveAttempts
<1>3. \A a \in ActiveAttempts(t) : a = CurrentAttempt(t) /\ a = LastAttempt(t)
  <2> SUFFICES ASSUME NEW a \in ActiveAttempts(t) PROVE a = CurrentAttempt(t) /\ a = LastAttempt(t)
    OBVIOUS
  <2>1. \A b \in TaskAttempts(t) : b <= a
    BY <1>1, <1>2 DEF FleetInv, NewestActive, TaskAttempts, ActiveAttempts
  <2>2. Latest(TaskAttempts(t)) = a /\ Latest(ActiveAttempts(t)) = a
    BY <1>1, <1>2, <2>1, LatestIs
  <2> QED
    BY <2>2 DEF CurrentAttempt, LastAttempt
<1>4. ActiveAttempts(t) = {} => CurrentAttempt(t) = NoAttempt
  BY DEF CurrentAttempt, Latest
<1>5. TaskAttempts(t) # {} => LastAttempt(t) \in TaskAttempts(t)
  BY DEF FleetInv, HasNewest, LastAttempt, Latest
<1>6. TaskAttempts(t) = {} => LastAttempt(t) = NoAttempt
  BY DEF LastAttempt, Latest
<1> QED
  BY <1>1, <1>3, <1>4, <1>5, <1>6

LEMMA ViewOf ==
  ASSUME NEW t \in Task
  PROVE  /\ ProjectFleet[t].current = CurrentAttempt(t) /\ ProjectFleet[t].last = LastAttempt(t)
         /\ ProjectFleet[t].status = ViewStatus(t) /\ ProjectFleet[t].statusSource = StatusSource(t)
         /\ ProjectFleet[t].phase = Phase(t) /\ ProjectFleet[t].reasonSource = ReasonSource(t)
         /\ ProjectFleet[t].stopping = CancellationRequested(t)
         /\ ProjectFleet[t].attention = NeedsUserAction(t)
BY DEF ProjectFleet, ProjectTask

\* While an Attempt is not over, the view is of it.
LEMMA ViewOfActive ==
  ASSUME TypeOK, SlotInv, FleetInv, NEW t \in Task, NEW a, a = CurrentAttempt(t), a # NoAttempt
  PROVE  /\ a \in Attempt /\ Nonterminal(a) /\ taskOf[a] = t /\ StatusOf(a) = attempt[a]
         /\ attempt[a] \in {"Queued", "Starting", "Running", "Stopping"}
         /\ attempt[a] = "Queued" => ViewStatus(t) = "Queued"
         /\ attempt[a] \in {"Starting", "Running"} => ViewStatus(t) = "Running"
         /\ attempt[a] = "Stopping" => ViewStatus(t) = "Waiting"
         /\ Phase(t) = IF attempt[a] \in {"Starting", "Stopping"} THEN attempt[a] ELSE "none"
<1>1. a \in Attempt /\ Nonterminal(a) /\ taskOf[a] = t
  BY ShownAttempts DEF ActiveAttempts, TaskAttempts
<1>2. attempt[a] \in {"Queued", "Starting", "Running", "Stopping"}
  BY <1>1 DEF TypeOK, SlotInv, NeverWaiting, Nonterminal, AttemptStatus, TerminalAttempt
<1>3. StatusOf(a) = attempt[a]
  BY DEF StatusOf
<1>4. ViewStatus(t) = ViewOfCurrent(attempt[a])
  BY <1>3 DEF ViewStatus
<1> QED
  BY <1>1, <1>2, <1>3, <1>4 DEF ViewOfCurrent, Phase

\* A Task nothing runs for shows how it ended.
LEMMA ViewOfSettled ==
  ASSUME TypeOK, FleetInv, NEW t \in Task, CurrentAttempt(t) = NoAttempt
  PROVE  /\ ActiveAttempts(t) = {} /\ Phase(t) = "none"
         /\ ViewStatus(t) \in TerminalAttempt \union {"Cancelled", "Draft"}
         /\ LastAttempt(t) # NoAttempt =>
              /\ LastAttempt(t) \in Attempt /\ attempt[LastAttempt(t)] \in TerminalAttempt
              /\ task[t] # "Cancelled" => ViewStatus(t) = attempt[LastAttempt(t)]
         /\ LastAttempt(t) = NoAttempt => StatusOf(LastAttempt(t)) = "none"
<1>1. ActiveAttempts(t) = {}
  BY ShownAttempts DEF ActiveAttempts, TaskAttempts
<1>2. Phase(t) = "none"
  BY DEF Phase, StatusOf
<1>3. ASSUME LastAttempt(t) # NoAttempt
      PROVE  LastAttempt(t) \in Attempt /\ attempt[LastAttempt(t)] \in TerminalAttempt
  <2>1. LastAttempt(t) \in Attempt /\ taskOf[LastAttempt(t)] = t
    BY <1>3, ShownAttempts DEF TaskAttempts
  <2> QED
    BY <1>1, <2>1, NoTaskAssumption DEF FleetInv, Numbered, ActiveAttempts, TaskAttempts, Nonterminal
<1>4. ViewStatus(t) = IF task[t] = "Cancelled" THEN "Cancelled"
                      ELSE IF StatusOf(LastAttempt(t)) \in TerminalAttempt THEN StatusOf(LastAttempt(t)) ELSE "Draft"
  BY DEF ViewStatus
<1> QED
  BY <1>1, <1>2, <1>3, <1>4 DEF StatusOf, TerminalAttempt

LEMMA TruthfulIn == TypeOK /\ SlotInv /\ FleetInv => ViewTruthful
<1> SUFFICES ASSUME TypeOK, SlotInv, FleetInv, NEW t \in Task
             PROVE  /\ \A a \in ActiveAttempts(t) : a = CurrentAttempt(t) /\ a = LastAttempt(t)
                    /\ ViewStatus(t) = "Running" /\ Phase(t) = "none" => session[CurrentAttempt(t)] = "Alive"
                    /\ ViewStatus(t) \in {"Draft", "Queued"} \union TerminalAttempt => ~AliveSession(t)
                    /\ ViewStatus(t) \in TerminalAttempt /\ StatusSource(t) # NoAttempt =>
                         attempt[StatusSource(t)] = ViewStatus(t)
                    /\ ReasonSource(t) # NoAttempt => attempt[ReasonSource(t)] \in TerminalAttempt
                    /\ CancellationRequested(t) => Phase(t) = "Stopping" /\ AliveSession(t)
  BY ViewOf, Zenon DEF ViewTruthful
<1>1. \A a \in ActiveAttempts(t) : a = CurrentAttempt(t) /\ a = LastAttempt(t)
  BY ShownAttempts
<1>2. \A a \in TaskAttempts(t) : session[a] = "Alive" => a = CurrentAttempt(t) /\ attempt[a] \in {"Running", "Stopping"}
  <2> SUFFICES ASSUME NEW a \in TaskAttempts(t), session[a] = "Alive"
               PROVE  a \in ActiveAttempts(t) /\ attempt[a] \in {"Running", "Stopping"}
    BY <1>1
  <2>1. attempt[a] \in {"Running", "Stopping"}
    BY DEF SlotInv, SessionMatchesAttempt, TaskAttempts
  <2> QED
    BY <2>1 DEF ActiveAttempts, Nonterminal, TerminalAttempt
<1>3. CASE CurrentAttempt(t) # NoAttempt
  <2> DEFINE a == CurrentAttempt(t)
  <2>1. /\ a \in Attempt /\ Nonterminal(a) /\ taskOf[a] = t /\ attempt[a] \in {"Queued", "Starting", "Running", "Stopping"}
        /\ attempt[a] = "Queued" => ViewStatus(t) = "Queued"
        /\ attempt[a] \in {"Starting", "Running"} => ViewStatus(t) = "Running"
        /\ attempt[a] = "Stopping" => ViewStatus(t) = "Waiting"
        /\ Phase(t) = IF attempt[a] \in {"Starting", "Stopping"} THEN attempt[a] ELSE "none"
    BY <1>3, ViewOfActive
  <2>2. attempt[a] \in {"Running", "Stopping"} => session[a] = "Alive" /\ AliveSession(t)
    BY <2>1 DEF SlotInv, SessionMatchesAttempt, AliveSession, TaskAttempts
  <2>3. AliveSession(t) => attempt[a] \in {"Running", "Stopping"}
    BY <1>2 DEF AliveSession
  <2>4. ReasonSource(t) = NoAttempt
    BY <1>3 DEF ReasonSource
  <2>5. CancellationRequested(t) => attempt[a] = "Stopping"
    BY <2>1 DEF CancellationRequested, FleetInv, LifecycleFits, Nonterminal
  <2> HIDE DEF a
  <2>6. ViewStatus(t) \notin TerminalAttempt
    BY <2>1 DEF TerminalAttempt
  <2> QED
    BY <1>1, <2>1, <2>2, <2>3, <2>4, <2>5, <2>6 DEF a
<1>4. CASE CurrentAttempt(t) = NoAttempt
  <2>1. /\ ViewStatus(t) # "Running"
        /\ LastAttempt(t) # NoAttempt =>
             /\ LastAttempt(t) \in Attempt /\ attempt[LastAttempt(t)] \in TerminalAttempt
             /\ task[t] # "Cancelled" => ViewStatus(t) = attempt[LastAttempt(t)]
    BY <1>4, ViewOfSettled DEF TerminalAttempt
  <2>2. ~AliveSession(t)
    BY <1>2, <1>4, ShownAttempts DEF AliveSession, TaskAttempts
  <2>3. StatusSource(t) # NoAttempt => StatusSource(t) = LastAttempt(t) /\ task[t] # "Cancelled"
    BY <1>4 DEF StatusSource
  <2>4. ReasonSource(t) = LastAttempt(t) /\ ~CancellationRequested(t)
    BY <1>4 DEF ReasonSource, CancellationRequested
  <2> QED
    BY <1>1, <2>1, <2>2, <2>3, <2>4
<1> QED
  BY <1>3, <1>4

LEMMA ActionableIn == TypeOK /\ SlotInv /\ FleetInv => AttentionActionable
<1> SUFFICES ASSUME TypeOK, SlotInv, FleetInv, NEW t \in Task, NeedsUserAction(t), task[t] = "Runnable",
                    ~DispositionHoldsSlot(disp[LastAttempt(t)])
             PROVE  RetryAllowed(t, LastAttempt(t)) \/ ResumeAllowed(t, LastAttempt(t))
  BY ViewOf, Zenon DEF AttentionActionable
<1>1. CurrentAttempt(t) = NoAttempt /\ StatusOf(LastAttempt(t)) \in {"Failed", "Interrupted", "Uncertain"}
  <2>1. StatusOf(CurrentAttempt(t)) # "Waiting"
    <3>1. CASE CurrentAttempt(t) = NoAttempt
      BY <3>1 DEF StatusOf
    <3>2. CASE CurrentAttempt(t) # NoAttempt
      BY <3>2, ViewOfActive
    <3> QED
      BY <3>1, <3>2
  <2> QED
    BY <2>1 DEF NeedsUserAction
<1>2. LastAttempt(t) \in Attempt /\ attempt[LastAttempt(t)] \in {"Failed", "Interrupted", "Uncertain"}
  BY <1>1, ViewOfSettled DEF StatusOf
<1>3. ActiveAttempts(t) = {}
  BY <1>1, ViewOfSettled
<1>4. attempt[LastAttempt(t)] \in {"Interrupted", "Uncertain"} => disp[LastAttempt(t)] # "none"
  BY <1>2 DEF FleetInv, InterruptedProbed, SlotInv, SlotFollowsStatus
<1> QED
  BY <1>2, <1>3, <1>4 DEF RetryAllowed, ResumeAllowed

\* What the desktop shows is true of the rows, in every state that commands, exits, stops,
\* crashes and restarts reach: the current Attempt is the only one alive and the newest, and
\* a settled Task has no live Session.
THEOREM ViewIsTruthful == Spec => []ViewTruthful
BY TruthfulIn, TypeCorrect, SlotCorrect, FleetCorrect, PTL

\* A Task that asks for attention accepts Retry or Resume of its last Attempt, unless a
\* process may still be alive behind it.
THEOREM AttentionIsActionable == Spec => []AttentionActionable
BY ActionableIn, TypeCorrect, SlotCorrect, FleetCorrect, PTL

================================================================================
