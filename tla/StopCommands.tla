----------------------------- MODULE StopCommands ------------------------------
(***************************************************************************)
(* RequestAttemptStop and CancelTask, for one Task: what would be stopped  *)
(* is previewed and bound to a challenge, the user signs what is           *)
(* displayed, the command is executed with the receipt by requests that    *)
(* may be repeated or cut off, and the Sessions it names are signalled     *)
(* after it has committed.  Meanwhile Attempts are launched and end, the   *)
(* Task is edited, the Daemon crashes, and Attempts are paused for storage *)
(* pressure and resumed.                                                   *)
(*                                                                         *)
(* An Attempt has one Session and one process, and they share its number.  *)
(* The launch handshake and Reconciliation are one step each here;         *)
(* AttemptLaunch has their steps.                                          *)
(***************************************************************************)
EXTENDS Integers, FiniteSets, Sequences

CONSTANTS
  Command,      \* command identities a client may use
  Handler,      \* requests the router may be executing at one time
  NChallenge,   \* bound: challenges ever issued
  NAttempt,     \* bound: Attempts of the Task
  MaxChanges    \* bound: edits, expiries, pauses and crashes

ASSUME StopBounds ==
  NChallenge \in Nat /\ NAttempt \in Nat \ {0} /\ MaxChanges \in Nat /\ IsFiniteSet(Command)

Attempt == 1 .. NAttempt
None == 0
Challenge == 1 .. NChallenge
Kind == {"RequestAttemptStop", "CancelTask"}

Nonterminal == {"Queued", "Starting", "Running", "Waiting", "Stopping"}
Status == {"none", "Cancelled", "Ended"} \union Nonterminal
Resumable == {"Starting", "Running", "Stopping"}

VARIABLES
  \* SQLite
  task,        \* lifecycle and state version
  attempt,     \* attempts: status, state version, resume_status
  session,     \* sessions.availability
  challenge,   \* confirmation_challenges, with the facts each is bound to
  record,      \* command_records: kind, target, expected version and result
  consent,     \* the user has signed the challenge
  \* processes
  alive, signalled, suspended,
  \* Daemon memory
  tracked,     \* #processes
  handler,     \* the executions under way
  pauser,      \* the pause or resume under way (bound: one at a time)
  changes,
  \* history
  applied,     \* the commands that were applied, in order
  told         \* the application the last answer to a command was about

rowVars     == <<task, attempt, session>>
confirmVars == <<challenge, record, consent>>
processVars == <<alive, signalled, suspended, tracked>>
runVars     == <<handler, pauser>>
historyVars == <<applied, told>>
vars == <<rowVars, confirmVars, processVars, runVars, changes, historyVars>>

\* StopCommandImpact: everything the bindings and the impact summary are hashed from.
Impact == [kind : Kind, attempt : Attempt \union {None}, status : Status, version : Nat,
           taskVersion : Nat, sessions : SUBSET Attempt]
NoImpact == [kind |-> "CancelTask", attempt |-> None, status |-> "none", version |-> 0,
             taskVersion |-> 0, sessions |-> {}]
NoChallenge == [state |-> "none", cmd |-> None, impact |-> NoImpact]
NoRecord == [kind |-> "none", attempt |-> None, version |-> 0, sessions |-> {}, n |-> 0]
Idle == [pc |-> "none", cmd |-> None, sessions |-> {}]
NoPause == [pc |-> "none", a |-> None, saw |-> "none"]

Active == {a \in Attempt : attempt[a].status \in Nonterminal}
AliveSessions(a) == {s \in Attempt : s = a /\ session[s] = "Alive"}

\* At most one Attempt is under way and it is the newest; an Alive Session belongs to a
\* live one; a waiting one knows what it goes back to.
RowsAgree ==
  /\ \A a \in Active : \A b \in Attempt : b > a => attempt[b].status = "none"
  /\ \A a \in Attempt : session[a] = "Alive" => attempt[a].status \in {"Running", "Waiting", "Stopping"}
  /\ \A a \in Attempt : attempt[a].status = "Waiting" <=> attempt[a].resume # "none"

TypeOK ==
  /\ RowsAgree
  /\ task \in [life : {"Draft", "Runnable", "Cancelled"}, version : Nat]
  /\ attempt \in [Attempt -> [status : Status, version : Nat, resume : Resumable \union {"none"}]]
  /\ session \in [Attempt -> {"none", "Alive", "Exited", "Lost"}]
  /\ challenge \in [Challenge -> [state : {"none", "open", "consumed", "expired"},
                                  cmd : Command \union {None}, impact : Impact]]
  /\ record \in [Command -> [kind : Kind \union {"none"}, attempt : Attempt \union {None},
                             version : Nat, sessions : SUBSET Attempt, n : Nat]]
  /\ consent \subseteq Challenge
  /\ alive \subseteq Attempt /\ signalled \subseteq alive /\ suspended \subseteq alive
  /\ tracked \subseteq alive
  /\ handler \in [Handler -> [pc : {"none", "stop", "wait"},
                              cmd : Command \union {None}, sessions : SUBSET Attempt]]
  /\ pauser \in [pc : {"none", "pause", "paused", "validate", "resume", "resumed"},
                 a : Attempt \union {None}, saw : Resumable \union {"none"}]
  /\ changes \in 0 .. MaxChanges
  /\ applied \in Seq(Command) /\ told \in [Command -> Nat]

Init ==
  /\ task = [life |-> "Draft", version |-> 1]
  /\ attempt = [a \in Attempt |-> [status |-> "none", version |-> 0, resume |-> "none"]]
  /\ session = [a \in Attempt |-> "none"]
  /\ challenge = [ch \in Challenge |-> NoChallenge]
  /\ record = [c \in Command |-> NoRecord]
  /\ consent = {} /\ alive = {} /\ signalled = {} /\ suspended = {} /\ tracked = {}
  /\ handler = [h \in Handler |-> Idle] /\ pauser = NoPause /\ changes = 0
  /\ applied = <<>> /\ told = [c \in Command |-> 0]

Change == changes < MaxChanges /\ changes' = changes + 1

-----------------------------------------------------------------------------
(* Previews and challenges.                                                 *)

\* #stopDescriptor: what a command would stop now; the target of a CancelTask is the
\* Task's current Attempt, if it has one.
StopImpact(kind, a) ==
  [kind |-> kind, attempt |-> a,
   status |-> IF a = None THEN "none" ELSE attempt[a].status,
   version |-> IF a = None THEN 0 ELSE attempt[a].version,
   taskVersion |-> task.version,
   sessions |-> IF a = None THEN {} ELSE AliveSessions(a)]
Current == IF Active = {} THEN None ELSE CHOOSE a \in Active : TRUE
Stoppable(kind, a) ==
  \/ kind = "RequestAttemptStop" /\ a \in Active
  \/ kind = "CancelTask" /\ a = Current /\ task.life # "Cancelled"

\* A stop of an Attempt always is, a cancellation only when there is one to stop.
RequiresConfirmation(impact) == impact.kind = "RequestAttemptStop" \/ impact.attempt # None
StateVersion(impact) ==
  IF impact.kind = "RequestAttemptStop" THEN impact.version ELSE impact.taskVersion

Unissued == {ch \in Challenge : challenge[ch].state = "none"}
IssueStopChallenge(c, kind, a) ==
  /\ Unissued # {} /\ Stoppable(kind, a) /\ RequiresConfirmation(StopImpact(kind, a))
  /\ LET ch == CHOOSE n \in Unissued : \A u \in Unissued : n <= u
     IN challenge' = [challenge EXCEPT ![ch] =
          [state |-> "open", cmd |-> c, impact |-> StopImpact(kind, a)]]
  /\ UNCHANGED <<rowVars, record, consent, processVars, runVars, changes, historyVars>>

Sign(ch) ==
  /\ challenge[ch].state = "open" /\ ch \notin consent /\ consent' = consent \union {ch}
  /\ UNCHANGED <<rowVars, challenge, record, processVars, runVars, changes, historyVars>>

ExpireChallenge(ch) ==
  /\ challenge[ch].state = "open" /\ Change
  /\ challenge' = [challenge EXCEPT ![ch].state = "expired"]
  /\ UNCHANGED <<rowVars, record, consent, processVars, runVars, historyVars>>

\* Bug: of the facts, only the Task's version and the command are bound.
BugBound(ch, c, impact) ==
  challenge[ch].cmd = c /\ challenge[ch].impact.taskVersion = impact.taskVersion
\* validateConsume: payload, bindings and impact summary hash as they did.
Bound(ch, c, impact) == challenge[ch].cmd = c /\ challenge[ch].impact = impact

ConsumeStopReceipt(ch, c, impact) ==
  /\ challenge[ch].state = "open" /\ ch \in consent /\ Bound(ch, c, impact)
  /\ challenge' = [challenge EXCEPT ![ch].state = "consumed"]

-----------------------------------------------------------------------------
(* #executeStopCommand.                                                     *)

\* Bug: a waiting Attempt is Cancelled like one that has not started.
BugStopStatus(s) == IF s \in {"Queued", "Starting", "Waiting"} THEN "Cancelled" ELSE "Stopping"
\* #requestStopTransition.
StopStatus(s) == IF s \in {"Queued", "Starting"} THEN "Cancelled" ELSE "Stopping"

Stopped(a) ==
  LET to == StopStatus(attempt[a].status)
  IN IF to = attempt[a].status THEN attempt[a]
     ELSE [status |-> to, version |-> attempt[a].version + 1, resume |-> "none"]

\* requestAttemptStop and cancelTask.
Apply(kind, a) ==
  /\ attempt' = IF a = None THEN attempt ELSE [attempt EXCEPT ![a] = Stopped(a)]
  /\ task' = IF kind = "CancelTask"
             THEN [life |-> "Cancelled", version |-> task.version + 1] ELSE task

\* Bug: a command is looked up only among those being executed.
BugRecorded(c) == \E h \in Handler : handler[h].cmd = c
\* IdempotencyStore.lookup; execution goes on to the end of the transaction without
\* an await, so the second lookup finds what the first one did.
Recorded(c) == record[c].kind # "none"

ReplayStop(h, c) ==
  /\ handler[h].pc = "none" /\ Recorded(c) /\ record[c].kind # "none"
  /\ handler' = [handler EXCEPT ![h] = [pc |-> "stop", cmd |-> c, sessions |-> record[c].sessions]]
  /\ UNCHANGED <<rowVars, confirmVars, processVars, pauser, changes, historyVars>>

\* A client may state any version it has seen: others than the current one are refused.
ExecuteStop(h, c, kind, a) ==
  /\ handler[h].pc = "none" /\ ~Recorded(c) /\ Stoppable(kind, a)
  /\ LET impact == StopImpact(kind, a)
     IN /\ IF RequiresConfirmation(impact)
           THEN \E ch \in Challenge : ConsumeStopReceipt(ch, c, impact)
           ELSE challenge' = challenge
        /\ Apply(kind, a)
        /\ record' = [record EXCEPT ![c] =
             [kind |-> kind, attempt |-> a, version |-> StateVersion(impact),
              sessions |-> impact.sessions, n |-> Len(applied) + 1]]
        /\ handler' = [handler EXCEPT ![h] = [pc |-> "stop", cmd |-> c, sessions |-> impact.sessions]]
  /\ applied' = Append(applied, c)
  /\ UNCHANGED <<session, consent, processVars, pauser, changes, told>>

\* Bug: the Session of a Stopping Attempt is left alone.
BugToSignal(S) == {a \in S : a \in tracked /\ attempt[a].status # "Stopping"}
\* terminate: a process that is not owned any more is not signalled.
ToSignal(S) == S \intersect tracked

\* stopSessions, after the commit.
StopSessions(h) ==
  /\ handler[h].pc = "stop"
  /\ signalled' = signalled \union ToSignal(handler[h].sessions)
  /\ handler' = [handler EXCEPT ![h].pc = "wait"]
  /\ UNCHANGED <<rowVars, confirmVars, alive, suspended, tracked, pauser, changes, historyVars>>

\* The exit is waited for, for a second, and the process is forgotten either way; then
\* Git is observed, which changes nothing and may fail, and the stored result answered.
ReobserveGitAfterStop(h) ==
  /\ handler[h].pc = "wait"
  /\ tracked' = tracked \ handler[h].sessions
  /\ told' = [told EXCEPT ![handler[h].cmd] = record[handler[h].cmd].n]
  /\ handler' = [handler EXCEPT ![h] = Idle]
  /\ UNCHANGED <<rowVars, confirmVars, alive, signalled, suspended, pauser, changes, applied>>

HandlerStep(h) == StopSessions(h) \/ ReobserveGitAfterStop(h)

-----------------------------------------------------------------------------
(* pauseForStoragePressure and resumeFromStoragePressure.  Nothing in the   *)
(* Daemon calls them yet.                                                   *)

\* ownedProcessesForAttempt: a planned or live process of the Attempt that this
\* Daemon holds; a row whose process is not held gives nothing to signal.
Owned(a) == {a} \intersect tracked

PauseOnly == UNCHANGED <<task, session, confirmVars, alive, signalled, tracked, handler,
                         historyVars>>

\* The status is read, then every owned process is stopped, then the status is
\* written if it is still the one that was read; else the processes go on.
BeginPause(a) ==
  /\ pauser.pc = "none" /\ attempt[a].status \in Resumable /\ Owned(a) # {} /\ Change
  /\ pauser' = [pc |-> "pause", a |-> a, saw |-> attempt[a].status]
  /\ PauseOnly /\ UNCHANGED <<attempt, suspended>>

PauseProcess ==
  /\ pauser.pc = "pause"
  /\ IF pauser.a \in alive
     THEN suspended' = suspended \union {pauser.a} /\ pauser' = [pauser EXCEPT !.pc = "paused"]
     ELSE suspended' = suspended /\ pauser' = NoPause
  /\ PauseOnly /\ UNCHANGED <<attempt, changes>>

EnterWaiting ==
  /\ pauser.pc = "paused" /\ pauser' = NoPause
  /\ IF attempt[pauser.a].status = pauser.saw
     THEN /\ attempt' = [attempt EXCEPT ![pauser.a] =
               [status |-> "Waiting", version |-> @.version + 1, resume |-> pauser.saw]]
          /\ suspended' = suspended
     ELSE /\ attempt' = attempt /\ suspended' = suspended \ {pauser.a}
  /\ PauseOnly /\ UNCHANGED changes

BeginResume(a) ==
  /\ pauser.pc = "none" /\ attempt[a].status = "Waiting"
  /\ pauser' = [pc |-> "validate", a |-> a, saw |-> attempt[a].resume]
  /\ PauseOnly /\ UNCHANGED <<attempt, suspended, changes>>

\* The facts are verified over an await; only owned processes can be continued.
ResumeProcess ==
  /\ pauser.pc = "validate"
  /\ \/ /\ Owned(pauser.a) # {}
        /\ suspended' = suspended \ Owned(pauser.a) /\ pauser' = [pauser EXCEPT !.pc = "resumed"]
     \/ suspended' = suspended /\ pauser' = NoPause
  /\ PauseOnly /\ UNCHANGED <<attempt, changes>>

LeaveWaiting ==
  /\ pauser.pc = "resumed" /\ pauser' = NoPause
  /\ LET row == attempt[pauser.a]
     IN IF row.status = "Waiting" /\ row.resume = pauser.saw
        THEN /\ attempt' = [attempt EXCEPT ![pauser.a] =
                  [status |-> row.resume, version |-> row.version + 1, resume |-> "none"]]
             /\ suspended' = suspended
        ELSE attempt' = attempt /\ suspended' = suspended \union ({pauser.a} \intersect alive)
  /\ PauseOnly /\ UNCHANGED changes

PauseStep == PauseProcess \/ EnterWaiting \/ ResumeProcess \/ LeaveWaiting

-----------------------------------------------------------------------------
(* The rest of an Attempt's life.                                           *)

LifeOnly == UNCHANGED <<confirmVars, runVars, historyVars>>
Moved(row, to) == [status |-> to, version |-> row.version + 1, resume |-> "none"]

\* #createAttempt.
AcceptAttempt(a) ==
  /\ Active = {} /\ task.life # "Cancelled" /\ attempt[a].status = "none"
  /\ \A b \in Attempt : b < a => attempt[b].status # "none"
  /\ attempt' = [attempt EXCEPT ![a] = [status |-> "Queued", version |-> 1, resume |-> "none"]]
  /\ task' = IF task.life = "Draft" THEN [life |-> "Runnable", version |-> task.version + 1] ELSE task
  /\ UNCHANGED <<session, processVars, changes>> /\ LifeOnly

\* scheduleNext and the spawn of the bootstrap.
Launch(a) ==
  /\ attempt[a].status = "Queued" /\ task.life = "Runnable"
  /\ attempt' = [attempt EXCEPT ![a] = Moved(@, "Starting")]
  /\ alive' = alive \union {a} /\ tracked' = tracked \union {a}
  /\ UNCHANGED <<task, session, signalled, suspended, changes>> /\ LifeOnly

\* #finalizeRunning: the transition table also allows it from Waiting.
FinalizeRunning(a) ==
  /\ attempt[a].status = "Starting" \/ attempt[a].resume = "Starting"
  /\ session[a] = "none" /\ a \in alive
  /\ attempt' = [attempt EXCEPT ![a] = Moved(@, "Running")]
  /\ session' = [session EXCEPT ![a] = "Alive"]
  /\ UNCHANGED <<task, processVars, changes>> /\ LifeOnly

Forget(a) ==
  /\ alive' = alive \ {a} /\ tracked' = tracked \ {a}
  /\ signalled' = signalled \ {a} /\ suspended' = suspended \ {a}

\* A launch that ends before the Session exists, by itself or because its Attempt is
\* over: the bootstrap is killed and forgotten.
LaunchEnds(a) ==
  /\ a \in alive /\ session[a] = "none" /\ Forget(a)
  /\ attempt' = IF attempt[a].status \in Nonterminal
                THEN [attempt EXCEPT ![a] = Moved(@, "Ended")] ELSE attempt
  /\ UNCHANGED <<task, session, changes>> /\ LifeOnly

\* #settleAttemptIfComplete: there is one Session, so none blocks the completion.
Settled(row) == Moved(row, IF row.status = "Stopping" THEN "Cancelled" ELSE "Ended")

\* #recordExit.
RecordExit(a) ==
  /\ a \in alive \ suspended /\ session[a] = "Alive" /\ Forget(a)
  /\ session' = [session EXCEPT ![a] = "Exited"]
  /\ attempt' = [attempt EXCEPT ![a] = Settled(@)]
  /\ UNCHANGED <<task, changes>> /\ LifeOnly

\* updateTaskSpec.
EditTask ==
  /\ task.life # "Cancelled" /\ Change /\ task' = [task EXCEPT !.version = @ + 1]
  /\ UNCHANGED <<attempt, session, processVars>> /\ LifeOnly

\* A crash and the Reconciliation after it: Alive Sessions are Lost and their Attempts
\* over, a launch goes on or is given up, a Queued Attempt stays.
CrashAndReconcile ==
  /\ Change
  /\ handler' = [h \in Handler |-> Idle] /\ pauser' = NoPause
  /\ session' = [a \in Attempt |-> IF session[a] = "Alive" THEN "Lost" ELSE session[a]]
  /\ \E again \in SUBSET {a \in Active : attempt[a].status = "Starting"} :
       /\ attempt' = [a \in Attempt |->
                        IF a \in Active \ again /\ attempt[a].status # "Queued"
                        THEN Moved(attempt[a], "Ended") ELSE attempt[a]]
       /\ alive' = again /\ tracked' = again
  /\ signalled' = {} /\ suspended' = {}
  /\ UNCHANGED <<task, confirmVars, historyVars>>

Next ==
  \/ \E c \in Command, kind \in Kind, a \in Attempt \union {None} :
       IssueStopChallenge(c, kind, a) \/ \E h \in Handler : ExecuteStop(h, c, kind, a)
  \/ \E ch \in Challenge : Sign(ch) \/ ExpireChallenge(ch)
  \/ \E h \in Handler : HandlerStep(h) \/ \E c \in Command : ReplayStop(h, c)
  \/ PauseStep \/ \E a \in Attempt : BeginPause(a) \/ BeginResume(a)
  \/ \E a \in Attempt : AcceptAttempt(a) \/ Launch(a) \/ FinalizeRunning(a) \/ LaunchEnds(a) \/ RecordExit(a)
  \/ EditTask \/ CrashAndReconcile

Spec == Init /\ [][Next]_vars

\* A request and a pause go on to their end, and a signalled process that runs ends.
FairSpec ==
  /\ Spec /\ WF_vars(PauseStep)
  /\ \A h \in Handler : WF_vars(HandlerStep(h))
  /\ \A a \in Attempt : WF_vars(a \in signalled /\ RecordExit(a))

-----------------------------------------------------------------------------
\* Nothing is stopped but what the user saw and signed: whenever a command takes an
\* Attempt out of its course, the same step uses up a signed challenge that displayed
\* exactly this Attempt, in this status and version, with the Sessions it has now; and
\* a Task is cancelled without one only when nothing runs (RT-CMD-08: #stopPreview,
\* #consumeStopReceipt, previewCancelTask).
Confirms(ch, a) ==
  /\ ch \in consent /\ challenge[ch].state = "open" /\ challenge'[ch].state = "consumed"
  /\ challenge[ch].impact.attempt = a
  /\ challenge[ch].impact.status = attempt[a].status
  /\ challenge[ch].impact.version = attempt[a].version
  /\ challenge[ch].impact.sessions = AliveSessions(a)
Interrupted(a) ==
  \/ attempt[a].status # "Stopping" /\ attempt'[a].status = "Stopping" /\ attempt[a].resume # "Stopping"
  \/ attempt[a].status \in {"Queued", "Starting"} /\ attempt'[a].status = "Cancelled"
StopAsConfirmed ==
  [][/\ \A a \in Attempt : Interrupted(a) => \E ch \in Challenge : Confirms(ch, a)
     /\ task.life # "Cancelled" /\ task'.life = "Cancelled" =>
          \A a \in Active : \E ch \in Challenge : Confirms(ch, a)]_vars

\* A stop command is applied once, however often it is sent, and every answer is the
\* result of that application (RT-CMD-02, 03: #executeStopCommand).
Once == INSTANCE CommandOnce WITH
  Attempt <- 1 .. Cardinality(Command) + 2, NoAttempt <- 0,
  effects <- {<<applied[n], n>> : n \in DOMAIN applied}
ImplementsCommandOnce == Once!Spec

\* An Attempt with a Session that is being stopped gets there, crash or not, unless its
\* process is suspended (stopSessions, terminate, #recordExit).
StopReaches ==
  \A a \in Attempt : attempt[a].status = "Stopping" /\ session[a] = "Alive" ~>
                       attempt[a].status # "Stopping" \/ a \in suspended
================================================================================
