--------------------------- MODULE LaunchConfirmation ---------------------------
(***************************************************************************)
(* The confirmation of a launch, for one Task: a plan is built over many   *)
(* awaits and bound to a challenge; the user confirms what is displayed;   *)
(* Start, Retry or Resume is executed with the receipt, by requests that   *)
(* may run at the same time, be repeated, or be cut off by a crash; the    *)
(* accepted Attempt is scheduled, and what was confirmed is verified once  *)
(* more before the Agent is let go.  Meanwhile the Task and the Profile    *)
(* are edited, the grant is revoked, the executable and the Worktree       *)
(* change.                                                                 *)
(*                                                                         *)
(* A plan allocates the identity of its Attempt and of the Worktree it     *)
(* would create, so challenge, Attempt and Planned Worktree share a        *)
(* number.  Everything that identifies the executable is one value of Env, *)
(* and a Worktree's contents are a fingerprint.                            *)
(***************************************************************************)
EXTENDS Integers, FiniteSets

CONSTANTS
  Command,      \* command identities a client may use
  NChallenge,   \* bound: challenges ever issued
  Handler,      \* requests the router may be executing at one time
  Env,          \* what the executable on this Host may be
  MaxChanges    \* bound: edits, cancellations, revocations, disposals, expiries,
                \* changes on disk and crashes

ASSUME ConfirmationBounds ==
  NChallenge \in Nat \ {0} /\ Env # {} /\ MaxChanges \in Nat

Challenge == 1 .. NChallenge
\* The Task may have had an Attempt before.
Past == 0
Attempt == {Past} \union Challenge
None == -1
\* Retry and Resume differ in the sources they allow, which AttemptLaunch tells apart.
Kind == {"Start", "Again"}
\* Fingerprints of a Worktree: no directory, as provisioned, changed since.
Fingerprint == {"absent", "clean", "changed"}

VARIABLES
  \* SQLite
  task,         \* lifecycle and state version
  trusted,      \* the grant of the Task's Workspace is Active
  profile,      \* version of the Agent Profile, and whether it is deleted
  challenge,    \* confirmation_challenges
  plan,         \* launch_confirmation_plans
  record,       \* command_records: the Attempt a command is recorded with
  attempt,      \* attempts.status, as far as this component tells it apart
  worktree,     \* fleet_worktrees.state of the Worktree an Attempt planned
  active,       \* the Task's Worktree with the role Active
  \* outside
  env, tree,    \* the executable now; the contents of every Worktree now
  consent,      \* what the user has done about a challenge
  changes,
  \* Daemon memory
  build,        \* the plan being built (bound: one at a time)
  handler,      \* the executions under way
  check,        \* the revalidation of the Attempt being launched
  \* history
  told          \* the Attempt the last answer to a command named

factVars    == <<task, trusted, profile>>
confirmVars == <<challenge, plan, consent>>
attemptVars == <<record, attempt, worktree, active>>
hostVars    == <<env, tree>>
memVars     == <<build, handler, check>>
vars == <<factVars, confirmVars, attemptVars, hostVars, changes, memVars, told>>

Plan == [cmd : Command \union {None}, kind : Kind, source : Attempt \union {None},
         target : Attempt \union {None}, task : Nat, profile : Nat,
         env : Env \union {None}, print : Fingerprint]
NoPlan == [cmd |-> None, kind |-> "Start", source |-> None, target |-> None,
           task |-> 0, profile |-> 0, env |-> None, print |-> "absent"]
NoBuild == [pc |-> "none", plan |-> NoPlan]
Idle == [pc |-> "none", ch |-> None]
NoCheck == [pc |-> "none", a |-> None, envs |-> {}, prints |-> {}]

\* What an Attempt, a used challenge, a command's record and an active Worktree say
\* of one another.
RowsAgree ==
  /\ \A a \in Challenge : attempt[a] # "none" => challenge[a] = "consumed" /\ record[plan[a].cmd] # None
  /\ \A c \in Command : record[c] # None => attempt[record[c]] # "none" /\ plan[record[c]].cmd = c
  /\ active # None => worktree[active] = "Ready"

TypeOK ==
  /\ RowsAgree
  /\ task \in [lifecycle : {"Draft", "Runnable", "Cancelled"}, version : Nat]
  /\ trusted \in BOOLEAN
  /\ profile \in [version : Nat, deleted : BOOLEAN]
  /\ challenge \in [Challenge -> {"none", "open", "consumed", "expired"}]
  /\ plan \in [Challenge -> Plan]
  /\ record \in [Command -> Challenge \union {None}]
  /\ attempt \in [Attempt -> {"none", "Queued", "Starting", "Live", "Ended"}]
  /\ worktree \in [Attempt -> {"none", "Planned", "Ready", "Failed", "Disposed"}]
  /\ active \in Attempt \union {None}
  /\ env \in Env /\ tree \in [Attempt -> Fingerprint]
  /\ consent \in [Challenge -> {"none", "signed"}]
  /\ changes \in 0 .. MaxChanges
  /\ build \in [pc : {"none", "base", "tree", "discover", "probe"}, plan : Plan]
  /\ handler \in [Handler -> [pc : {"none", "env", "tree", "commit", "provision", "answer"},
                              ch : Challenge \union {None}]]
  /\ check \in [pc : {"none", "facts", "env", "tree", "commit"}, a : Challenge \union {None},
                envs : SUBSET Env, prints : SUBSET Fingerprint]
  /\ told \in [Command -> Challenge \union {None}]

\* A Task as it was created, or one whose first Attempt has ended.
Init ==
  /\ \/ /\ task = [lifecycle |-> "Draft", version |-> 1]
        /\ attempt = [a \in Attempt |-> "none"]
        /\ worktree = [a \in Attempt |-> "none"]
        /\ active = None /\ tree = [a \in Attempt |-> "absent"]
     \/ /\ task = [lifecycle |-> "Runnable", version |-> 2]
        /\ attempt = [a \in Attempt |-> IF a = Past THEN "Ended" ELSE "none"]
        /\ worktree = [a \in Attempt |-> IF a = Past THEN "Ready" ELSE "none"]
        /\ active = Past /\ tree = [a \in Attempt |-> IF a = Past THEN "clean" ELSE "absent"]
  /\ trusted = TRUE
  /\ profile = [version |-> 1, deleted |-> FALSE]
  /\ challenge = [ch \in Challenge |-> "none"]
  /\ plan = [ch \in Challenge |-> NoPlan]
  /\ record = [c \in Command |-> None]
  /\ env \in Env
  /\ consent = [ch \in Challenge |-> "none"]
  /\ changes = 0
  /\ build = NoBuild
  /\ handler = [h \in Handler |-> Idle]
  /\ check = NoCheck
  /\ told = [c \in Command |-> None]

-----------------------------------------------------------------------------
(* What the handlers read.                                                  *)

\* #nonterminalAttempts.
Unfinished == {a \in Attempt : attempt[a] \in {"Queued", "Starting", "Live"}}

\* #targetIdentities: Start names its Task, the others the Attempt they replace.
TargetIdentities(kind, source) == (kind = "Start") <=> (source = None)

\* #assertCommandAllowed; the statuses each kind asks of its source, and what a held
\* slot does to a replacement, are AttemptLaunch's.
CommandAllowed(kind, source) ==
  /\ Unfinished = {}
  /\ \/ kind = "Start" /\ task.lifecycle = "Draft"
     \/ kind = "Again" /\ task.lifecycle = "Runnable" /\ attempt[source] = "Ended"

\* #revalidateDatabaseFacts: an ended Attempt's status and version never change.
DatabaseFacts(p) ==
  /\ CommandAllowed(p.kind, p.source)
  /\ task.version = p.task
  /\ trusted
  /\ ~profile.deleted /\ profile.version = p.profile

\* The Worktree an Attempt runs in: the one it planned or the one it continues.
Target(ch) == IF plan[ch].target = None THEN ch ELSE plan[ch].target

\* The payload that is hashed with the command: it names the Worktree to be made.
Payload(ch) == <<plan[ch].kind, plan[ch].source, Target(ch)>>

\* Fingerprint that must be found: what was displayed, or a fresh Worktree's.
Expected(ch) == IF plan[ch].target = None THEN "clean" ELSE plan[ch].print

-----------------------------------------------------------------------------
(* issueChallenge: #buildPlan and the transaction.                          *)

BuildOnly == UNCHANGED <<factVars, confirmVars, attemptVars, hostVars, changes, handler, check,
                         told>>
Unissued == {ch \in Challenge : challenge[ch] = "none"}

\* The first facts, before any await: Task, source, grant.
BuildPlan(cmd, kind, source) ==
  /\ build.pc = "none" /\ Unissued # {}
  /\ TargetIdentities(kind, source)
  /\ CommandAllowed(kind, source) /\ trusted
  /\ build' = [pc |-> "base",
               plan |-> [NoPlan EXCEPT !.cmd = cmd, !.kind = kind, !.source = source,
                                       !.task = task.version]]
  /\ BuildOnly

\* #activeWorktree: at most one, and RowsAgree says it is Ready.
ActiveWorktree == {active} \ {None}

\* #verifyBaseCommit, #normalizeWorktreeCommand: Start takes a fresh Worktree, the
\* others a fresh one or the active one.
BaseVerified ==
  /\ build.pc = "base" /\ BuildOnly
  /\ \/ build' = [build EXCEPT !.pc = "discover"]
     \/ /\ build.plan.kind # "Start"
        /\ \E target \in ActiveWorktree : build' = [build EXCEPT !.pc = "tree", !.plan.target = target]

\* #targetBinding: the active Worktree is inspected.
TargetInspected ==
  /\ build.pc = "tree" /\ BuildOnly
  /\ tree[build.plan.target] # "absent"
  /\ build' = [build EXCEPT !.pc = "discover", !.plan.print = tree[build.plan.target]]

\* The Adapter's discovery: the executable is sampled, run for its version, and must
\* be the same afterwards.
Discover ==
  /\ build.pc = "discover" /\ BuildOnly
  /\ build' = [build EXCEPT !.pc = "probe", !.plan.env = env]
ProbeAgrees == env = build.plan.env

\* previewAttemptSnapshot and prepare; then challenge and plan are written in one
\* transaction.  A change during the awaits of prepare is as if it came after it.
PreviewSnapshot == [build.plan EXCEPT !.profile = profile.version]
IssueChallenge ==
  /\ build.pc = "probe" /\ ProbeAgrees /\ ~profile.deleted
  /\ \E ch \in Unissued :
       /\ \A other \in Unissued : ch <= other
       /\ challenge' = [challenge EXCEPT ![ch] = "open"]
       /\ plan' = [plan EXCEPT ![ch] = PreviewSnapshot]
  /\ build' = NoBuild
  /\ UNCHANGED <<factVars, consent, attemptVars, hostVars, changes, handler, check, told>>

\* Any await of the plan fails.
BuildFails == build.pc # "none" /\ build' = NoBuild /\ BuildOnly

BuildAction ==
  \/ \E cmd \in Command, kind \in Kind, source \in Attempt \union {None} : BuildPlan(cmd, kind, source)
  \/ BaseVerified \/ TargetInspected \/ Discover \/ IssueChallenge \/ BuildFails

-----------------------------------------------------------------------------
(* The user: requestConfirmation shows what the Daemon displays and signs.  *)

Changes == changes < MaxChanges /\ changes' = changes + 1
ConsentOnly == UNCHANGED <<factVars, plan, attemptVars, hostVars, memVars, told>>

\* The challenge is fetched, refused if it has expired by then, and displayed; the
\* dialog is open for as long as the user likes.
RequestConfirmation(ch) ==
  /\ challenge[ch] \in {"open", "expired"} /\ consent[ch] = "none"
  /\ consent' = [consent EXCEPT ![ch] = "signed"]
  /\ UNCHANGED <<challenge, changes>> /\ ConsentOnly

ExpireChallenge(ch) ==
  /\ Changes /\ challenge[ch] = "open"
  /\ challenge' = [challenge EXCEPT ![ch] = "expired"]
  /\ UNCHANGED consent /\ ConsentOnly

\* validateConsume and the conditional UPDATE: unexpired, unconsumed, signed.
Consumable(ch) == challenge[ch] = "open" /\ consent[ch] = "signed"

ConsentAction ==
  \E ch \in Challenge : RequestConfirmation(ch) \/ ExpireChallenge(ch)

-----------------------------------------------------------------------------
(* execute: one request.                                                    *)

ExecuteOnly ==
  UNCHANGED <<factVars, confirmVars, attemptVars, hostVars, changes, build, check>>
HandlerTo(h, step) == handler' = [handler EXCEPT ![h].pc = step]
HandlerEnds(h) == handler' = [handler EXCEPT ![h] = Idle]
Answers(cmd) == told' = [told EXCEPT ![cmd] = record[cmd]]
Recorded(ch) == record[plan[ch].cmd] # None
SamePayload(ch) == Payload(record[plan[ch].cmd]) = Payload(ch)

\* A command with a record is answered from it; another payload is a conflict.
Replay(ch) ==
  /\ challenge[ch] # "none" /\ Recorded(ch) /\ SamePayload(ch)
  /\ Answers(plan[ch].cmd)
  /\ UNCHANGED handler /\ ExecuteOnly

\* The plan matches the command; the first part of #revalidate.
Execute(h, ch) ==
  /\ handler[h].pc = "none" /\ challenge[ch] # "none" /\ ~Recorded(ch)
  /\ DatabaseFacts(plan[ch])
  /\ handler' = [handler EXCEPT ![h] = [pc |-> "env", ch |-> ch]]
  /\ UNCHANGED told /\ ExecuteOnly

\* verifySnapshot samples the executable and compares.
SnapshotHolds(p) == env = p.env
\* verifyBaseCommit and verifySnapshot; nothing may lie where a Worktree is planned.
EnvRevalidated(h) ==
  LET ch == handler[h].ch
      planned == plan[ch].target = None
  IN /\ handler[h].pc = "env" /\ SnapshotHolds(plan[ch])
     /\ planned => tree[ch] = "absent"
     /\ HandlerTo(h, IF planned THEN "commit" ELSE "tree")
     /\ UNCHANGED told /\ ExecuteOnly

\* The Worktree to be continued is as displayed.
TreeRevalidated(h) ==
  LET p == plan[handler[h].ch]
  IN /\ handler[h].pc = "tree" /\ tree[p.target] = p.print
     /\ HandlerTo(h, "commit")
     /\ UNCHANGED told /\ ExecuteOnly

\* Any of these fails, or the transaction is rolled back.
ExecuteRefused(h) ==
  /\ handler[h].pc \in {"env", "tree", "commit", "answer"} /\ HandlerEnds(h)
  /\ UNCHANGED told /\ ExecuteOnly

\* Bug: the record is looked up before the awaits only.
BugRecordedMeanwhile(ch) == FALSE
\* Within the transaction, while other requests were at work: executeIdempotent looks
\* the command up again.
RecordedMeanwhile(ch) == Recorded(ch)

\* The transaction finds the command recorded by another request.
ConcurrentReplay(h) ==
  LET ch == handler[h].ch
  IN /\ handler[h].pc = "commit" /\ RecordedMeanwhile(ch) /\ SamePayload(ch)
     /\ Answers(plan[ch].cmd) /\ HandlerEnds(h)
     /\ ExecuteOnly

\* bindReadyToAttempt refuses a Worktree that is not the Task's Ready, Active one.
Bindable(p) == p.target # None => p.target = active

\* createAttemptSnapshot: the snapshot made now is the one that was displayed.
ProfileSnapshotMatches(p) == ~profile.deleted /\ profile.version = p.profile

\* The record's first write wins.
FirstWrite(cmd, ch) == record' = IF record[cmd] = None THEN [record EXCEPT ![cmd] = ch] ELSE record

\* #createAttempt: Start makes the Task Runnable.
CreateAttempt(ch) ==
  /\ attempt' = [attempt EXCEPT ![ch] = "Queued"]
  /\ task' = IF plan[ch].kind = "Start"
             THEN [lifecycle |-> "Runnable", version |-> task.version + 1] ELSE task
  /\ worktree' = IF plan[ch].target = None THEN [worktree EXCEPT ![ch] = "Planned"] ELSE worktree

\* Bug: the transaction checks no more than that the command is still allowed.
BugFactsInTransaction(p) == CommandAllowed(p.kind, p.source)
\* What #revalidate has found before its awaits may have changed during them.
FactsInTransaction(p) == DatabaseFacts(p)

\* Bug: the challenge is verified and left open.
BugConsume(ch) == UNCHANGED challenge
Consume(ch) == challenge' = [challenge EXCEPT ![ch] = "consumed"]

\* The transaction: every fact in the database again, the challenge used up, the
\* Attempt, its snapshots, its Worktree and the command's record.
Accept(h) ==
  LET ch == handler[h].ch
      p == plan[ch]
  IN /\ handler[h].pc = "commit" /\ ~RecordedMeanwhile(ch)
     /\ FactsInTransaction(p) /\ Consumable(ch) /\ Bindable(p)
     /\ Consume(ch) /\ CreateAttempt(ch)
     /\ ProfileSnapshotMatches(p) /\ FirstWrite(p.cmd, ch)
     /\ HandlerTo(h, IF p.target = None THEN "provision" ELSE "answer")
     /\ UNCHANGED <<trusted, profile, plan, consent, active, hostVars, changes, build, check, told>>

\* provision, as Worktrees has it in detail: the Worktree is Ready, and the Task's
\* active one if its Attempt still waits; or it is Failed and so is the Attempt;
\* or, without an Active grant, it throws and the row stays Planned.
Provisioned(h) ==
  LET ch == handler[h].ch
  IN /\ handler[h].pc = "provision"
     /\ \/ /\ trusted /\ HandlerTo(h, "answer")
           /\ worktree' = [worktree EXCEPT ![ch] = "Ready"]
           /\ active' = IF attempt[ch] = "Queued" THEN ch ELSE active
           /\ tree' = [tree EXCEPT ![ch] = "clean"]
           /\ UNCHANGED attempt
        \/ /\ trusted /\ HandlerTo(h, "answer")
           /\ worktree' = [worktree EXCEPT ![ch] = "Failed"]
           /\ attempt' = IF attempt[ch] = "Queued" THEN [attempt EXCEPT ![ch] = "Ended"] ELSE attempt
           /\ UNCHANGED <<active, tree>>
        \/ ~trusted /\ HandlerEnds(h) /\ UNCHANGED <<worktree, active, tree, attempt>>
     /\ UNCHANGED <<factVars, confirmVars, record, env, changes, build, check, told>>

\* The router answers when it has scheduled and launched, or reports what failed.
Answer(h) ==
  /\ handler[h].pc = "answer" /\ HandlerEnds(h)
  /\ Answers(plan[handler[h].ch].cmd)
  /\ ExecuteOnly

HandlerStep(h) ==
  \/ EnvRevalidated(h) \/ TreeRevalidated(h)
  \/ ExecuteRefused(h) \/ ConcurrentReplay(h) \/ Accept(h) \/ Provisioned(h)
  \/ Answer(h)

ExecuteAction ==
  \/ \E ch \in Challenge : Replay(ch) \/ \E h \in Handler : Execute(h, ch)
  \/ \E h \in Handler : HandlerStep(h)

-----------------------------------------------------------------------------
(* The launch: scheduleNext, then revalidateAcceptedAttempt while the       *)
(* bootstrap waits.                                                         *)

LaunchOnly ==
  UNCHANGED <<factVars, confirmVars, record, worktree, active, hostVars, changes, build,
              handler, told>>
AttemptTo(a, status) == attempt' = [attempt EXCEPT ![a] = status]
CheckFrom(a) == [NoCheck EXCEPT !.pc = "facts", !.a = a]

\* prepareScheduledLaunch compares the working directory, and nothing else.
ScheduleNext(a) ==
  /\ attempt[a] = "Queued" /\ Target(a) = active
  /\ AttemptTo(a, "Starting") /\ check' = CheckFrom(a)
  /\ LaunchOnly

\* After a restart a Prepared intent is launched again, with its revalidation.
LaunchResumed(a) ==
  /\ attempt[a] = "Starting" /\ check.pc = "none"
  /\ check' = CheckFrom(a) /\ UNCHANGED attempt
  /\ LaunchOnly

\* The facts in the database, before the first await.
FactsHold(a) ==
  attempt[a] \in {"Queued", "Starting"} /\ task.lifecycle = "Runnable" /\ trusted
CheckFacts ==
  /\ check.pc = "facts" /\ FactsHold(check.a)
  /\ check' = [check EXCEPT !.pc = "env", !.envs = {env}, !.prints = {tree[Target(check.a)]}]
  /\ UNCHANGED attempt /\ LaunchOnly

CheckEnv ==
  /\ check.pc = "env" /\ SnapshotHolds(plan[check.a])
  /\ check' = [check EXCEPT !.pc = "tree"]
  /\ UNCHANGED attempt /\ LaunchOnly

\* Bug: the row is trusted and the directory not inspected.
BugTreeHolds(a) == worktree[Target(a)] = "Ready"
TreeHolds(a) == worktree[Target(a)] = "Ready" /\ tree[Target(a)] = Expected(a)
CheckTree ==
  /\ check.pc = "tree" /\ TreeHolds(check.a)
  /\ check' = [check EXCEPT !.pc = "commit"]
  /\ UNCHANGED attempt /\ LaunchOnly

\* CommitLaunch; a stop accepted meanwhile leaves no Session to attach it to.
CommitLaunch ==
  /\ check.pc = "commit" /\ check' = NoCheck
  /\ IF attempt[check.a] = "Starting" THEN AttemptTo(check.a, "Live") ELSE UNCHANGED attempt
  /\ LaunchOnly

\* A fact has changed or cannot be verified.
AbortLaunch ==
  /\ check.pc \in {"facts", "env", "tree"} /\ check' = NoCheck
  /\ IF attempt[check.a] = "Starting" THEN AttemptTo(check.a, "Ended") ELSE UNCHANGED attempt
  /\ LaunchOnly

\* Exit, or what a restart concludes.
AttemptEnds(a) ==
  /\ \/ attempt[a] = "Live"
     \/ attempt[a] = "Starting" /\ check.pc = "none"
  /\ AttemptTo(a, "Ended")
  /\ UNCHANGED check /\ LaunchOnly

LaunchAction ==
  \/ \E a \in Challenge : ScheduleNext(a) \/ LaunchResumed(a) \/ AttemptEnds(a)
  \/ CheckFacts \/ CheckEnv \/ CheckTree \/ CommitLaunch \/ AbortLaunch

-----------------------------------------------------------------------------
(* What else happens to the facts.                                          *)

FactsOnly == UNCHANGED <<confirmVars, record, worktree, active, hostVars, memVars, told>>

\* updateTaskSpec.
EditTask ==
  /\ Changes /\ task.lifecycle = "Draft"
  /\ task' = [task EXCEPT !.version = @ + 1]
  /\ UNCHANGED <<trusted, profile, attempt>> /\ FactsOnly

\* cancelTask: an Attempt that has not started is Cancelled with its Task.
CancelTask ==
  /\ Changes /\ task.lifecycle # "Cancelled"
  /\ task' = [lifecycle |-> "Cancelled", version |-> task.version + 1]
  /\ attempt' = [a \in Attempt |->
                   IF attempt[a] \in {"Queued", "Starting"} THEN "Ended" ELSE attempt[a]]
  /\ UNCHANGED <<trusted, profile>> /\ FactsOnly

\* updateProfile, deleteProfile: a deleted Profile is edited no more.
ChangeProfile ==
  /\ Changes /\ ~profile.deleted
  /\ \E deleted \in BOOLEAN : profile' = [version |-> profile.version + 1, deleted |-> deleted]
  /\ UNCHANGED <<task, trusted, attempt>> /\ FactsOnly

\* A Workspace belongs to one grant; a new grant makes a new Workspace.
RevokeTrust ==
  /\ Changes /\ trusted /\ trusted' = FALSE
  /\ UNCHANGED <<task, profile, attempt>> /\ FactsOnly

Seen(e, t) ==
  check' = IF check.pc \in {"env", "tree", "commit"}
           THEN [check EXCEPT !.envs = @ \union {e}, !.prints = @ \union {t[Target(check.a)]}]
           ELSE check
HostOnly == UNCHANGED <<factVars, confirmVars, record, attempt, build, handler, told>>

\* The executable is replaced or updated; the user, or an Agent, works in the active
\* Worktree, or something appears where one is planned.  (Worktrees that are history
\* are left alone: no Attempt can be bound to one.)
Places == {active} \union {ch \in Challenge : challenge[ch] = "open" /\ plan[ch].target = None}
ChangeHost ==
  /\ Changes
  /\ \/ env' \in Env \ {env} /\ UNCHANGED tree
     \/ \E w \in Places \ {None}, t \in Fingerprint : t # tree[w] /\ tree' = [tree EXCEPT ![w] = t] /\ UNCHANGED env
  /\ Seen(env', tree')
  /\ UNCHANGED <<worktree, active>> /\ HostOnly

\* dispose, between two Attempts.
DisposeActive ==
  /\ Changes /\ active # None /\ Unfinished = {} /\ trusted
  /\ worktree' = [worktree EXCEPT ![active] = "Disposed"]
  /\ active' = None
  /\ tree' = [tree EXCEPT ![active] = "absent"]
  /\ UNCHANGED <<env, check>> /\ HostOnly

Crash ==
  /\ Changes
  /\ build' = NoBuild /\ handler' = [h \in Handler |-> Idle] /\ check' = NoCheck
  /\ UNCHANGED <<factVars, confirmVars, attemptVars, hostVars, told>>

Next ==
  \/ BuildAction \/ ConsentAction \/ ExecuteAction \/ LaunchAction
  \/ EditTask \/ CancelTask \/ ChangeProfile \/ RevokeTrust
  \/ ChangeHost \/ DisposeActive \/ Crash

Spec == Init /\ [][Next]_vars

-----------------------------------------------------------------------------
(* Properties.                                                              *)

\* A launch command makes one Attempt and is answered with that one, whatever
\* requests run at a time and however many challenges were issued for it
\* (execute, IdempotencyStore).
Once == INSTANCE CommandOnce WITH
  Attempt <- Challenge, NoAttempt <- None,
  effects <- {<<plan[a].cmd, a>> : a \in {b \in Challenge : attempt[b] # "none"}}
ImplementsCommandOnce == Once!Spec

\* An Attempt comes into being only from an open challenge the user has signed,
\* at a moment when Task, source, grant and Profile are those displayed and no
\* other Attempt of the Task is under way; the challenge is used up with it.
AcceptedAsConfirmed ==
  [][\A a \in Challenge : attempt[a] = "none" /\ attempt'[a] # "none" =>
       /\ consent[a] = "signed" /\ challenge[a] = "open" /\ challenge'[a] = "consumed"
       /\ Unfinished = {}
       /\ trusted /\ task.version = plan[a].task /\ task.lifecycle # "Cancelled"
       /\ profile = [version |-> plan[a].profile, deleted |-> FALSE]]_vars

\* An Agent is let go only if, since its last revalidation began, the executable
\* has been the one displayed and the Worktree as displayed, or as provisioned
\* (revalidateAcceptedAttempt).
LaunchedAsConfirmed ==
  [][\A a \in Challenge : attempt[a] = "Starting" /\ attempt'[a] = "Live" =>
       /\ challenge[a] = "consumed" /\ consent[a] = "signed"
       /\ plan[a].env \in check.envs /\ Expected(a) \in check.prints]_vars

\* What the user has seen and signed is what is accepted, and later launched.
AsConfirmed == AcceptedAsConfirmed /\ LaunchedAsConfirmed
================================================================================
