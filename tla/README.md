# A formal model of the Agents.Fleet daemon

Agents.Fleet runs coding agents on a Mac: a desktop client asks a local daemon
to start an *Attempt* of a *Task*; the daemon provisions a Git worktree, claims
the Host's one scheduling slot, starts the agent behind an exec barrier, records
its terminal output, and survives its own crashes by reconciling the database,
the files and the processes it finds. These TLA+ modules model that program from
its source (`src/packages/daemon/src`, `src/packages/contracts/src` and the terminal
and confirmation paths of `src/apps/desktop/src`), TLC checks them on small instances,
and TLAPS proves the main results for every size.

Contents: [inventory](#inventory) · [modules](#modules) ·
[runs and bounds](#runs-and-bounds) · [fairness](#fairness) · [proofs](#proofs) ·
[where the code and its contract differ](#where-the-code-and-its-contract-differ) ·
[not modelled](#not-modelled) · [plan](#plan)

Short names of files: SR `session-runtime/session-runtime.ts`, TO
`task-orchestrator/task-orchestrator.ts`, LC
`task-orchestrator/launch-command-coordinator.ts`, RT `runtime-command-router.ts`,
SU `startup-reconciliation.ts`, II `session-runtime/input-intent-store.ts`, BJ `session-runtime/byte-journal.ts`,
TSV `repository-trust/trust-service.ts`, RG `git/restricted-git.ts`, WM
`worktree-manager/worktree-manager.ts`, WS `storage/worktree-store.ts`, DB
`storage/database.ts`, SRV `server.ts` (all under `src/packages/daemon/src`). The rules quoted as `RT-…` are those of the
normative contract, `src/docs/specs/runtime-contracts-v1.md`.

## Inventory

| part | state it keeps | operations | talks to |
|---|---|---|---|
| Lifecycle contracts (`contracts/src/lifecycle`) | none: transition tables | `canTransition`, `dispositionHoldsSlot` | everything |
| Command router (RT) | none between commands | one handler per command kind; a handler awaits between its steps | coordinator, orchestrator, session runtime, worktrees |
| Launch command coordinator (LC) | `command_records`, new Attempts | accept Start / Retry / Resume in one transaction; revalidate an accepted Attempt before the commit | task store, worktree store |
| Task orchestrator (TO) | Task and Attempt status, `slot_leases`, `launch_intents` | `scheduleNext`, `requestAttemptStop`, `cancelTask`, `stopSessions` | session runtime |
| Session runtime (SR), launches | `launch_intents`, `sessions`, `process_dispositions`; `launch/<nonce>/` files; the owned processes, in memory | `launch`, exit callbacks, `reconcileAfterRestart` | bootstrap, orchestrator's tables |
| Bootstrap (`bootstrap.mjs`) | the receipts it writes with `O_EXCL` | report, poll for the decision, `execve` | files of the nonce, the exec barrier socket |
| Session runtime, control | `attachments`, `control_leases`, `sessions.fencing_counter` | attach, acquire, renew, take over, close, invalidate, resize, terminate | input intents, confirmations |
| Input intents | `input_intents`, content objects | `dispatch`, `reconcileInputIntents` | PTY |
| Byte journal, store reconciliation, snapshots | chunk files, `chunks`, `stream_cursors`, `session_snapshots` | `appendFrame`, `readFrame`, `reconcileStore`, snapshot `create`/`read` | output capture, stream server |
| Repository trust (TSV) | `repository_trusts`, `workspaces`, trust challenges | candidate, confirm, validate and activate, inspect, revoke | restricted Git, desktop confirmation |
| Restricted Git (RG, `git/provision-worktree.ts`) | none; a plan is a sequence of awaited Git calls | `validateRepository`, `inspectValidatedRepository`, `verifyCommitObject`, `provisionWorktree` | the Repository on disk |
| Worktree manager (WM, WS) | `fleet_worktrees`, `attempt_worktree_bindings`; the directories | provision, preview, dispose | restricted Git, Attempts, trust |
| Idempotency (`storage/idempotency.ts`) | `command_records` | lookup before and inside the transaction, record with the effect | every command |
| Confirmations (`persistent-challenge-issuer.ts`) | `confirmation_challenges`, `launch_confirmation_plans` | issue, approve, consume, expire | desktop Main, which displays and signs |
| Stop commands (TO, RT) | the same, and `attempts.resume_status` | preview, `requestAttemptStop`, `cancelTask`, `stopSessions` | session runtime |
| Stream server, attachment stream | connection state, `nextSeq` | handshake, pump, reconnect | byte journal |
| Control server (SRV, `dispatcher.ts`) | the Attachments a connection owns | handshake, commands in order, closing what a lost connection owned | every handler |
| Desktop client, bridge and renderer | pending calls, port bindings, held leases; the active terminal | `attachTerminal`, acquire, renew, type, close | control server, stream server |
| Database (DB) | `fleet.db`, `backups/`, its meta rows | check, back up, migrate, roll, recover, restore, nested `transact` | file system |
| Fleet projection (`fleet-projection/fleet-projection.ts`) | none: derived from rows | `projectTask`, `projectTaskView` | desktop |

What is hard in it: the daemon is one event loop, but a launch is a coroutine
with a dozen awaits, during which stop commands, exits and other launches run;
bootstraps and agents are processes of their own that outlive the daemon; every
decision is spread over SQLite and files, and a crash can fall between any two
writes; at restart the daemon must decide from what survived whether an agent
may be alive; and what a user confirms, what Git reported and what a preview showed is
used many awaits later, when it may have changed. `PROJECT.json` lists the hazards at their lines.

What makes each part correct:

* launch: an Agent runs at most once per nonce and only after a durable,
  irreversible decision; the client's stored answer is never contradicted;
* scheduling: one Attempt holds the Host's slot, whoever may own a process holds
  it, and it is released when nobody can;
* stop and exit: a terminal status is final, a Session ends with its Attempt, a
  requested stop completes;
* restart: an unconfirmed process counts as alive; startup ends, unless something named
  stands in its way;
* control: at most one writer, fenced by a token that only grows;
* input: bytes reach the PTY at most once, under the lease they were sent with;
* journal: the durable cursor covers a contiguous, verified prefix, in the order the
  PTY produced it;
* reader: the screen shows a beginning of that prefix, each chunk once, over Snapshot,
  delta and reconnections, and catches up;
* trust: a grant stands for one Repository, the one the user confirmed, and after its
  revocation nothing new begins under it;
* Worktrees: one is Ready only as it was planned, and what is removed is the Daemon's
  own, unused and without work in it; no provision that ends leaves an Attempt waiting;
* confirmation: what is executed, launched or stopped is what was displayed and signed,
  once per command however often it is sent;
* database: no crash, failed step or damage loses a commit that could be kept, and a
  restart serves again;
* desktop: every Attachment whose Snapshot was read has an owner at both ends, and each
  call of an opening terminal ends;
* Fleet view: it shows the Attempt that is under way and offers no dead end.

## Modules

| module | models | role |
|---|---|---|
| `Lifecycle` | the tables of `contracts/src/lifecycle` | operators used by every other module |
| `LaunchOnce` | what the launch of one nonce promises | abstract specification |
| `AttemptLaunch` | router, coordinator, scheduler, launch coroutine, bootstraps, stops, exits, crash, reconciliation | the detailed specification |
| `MCAttemptLaunch` | – | instance for TLC |
| `AttemptLaunch_proofs` | – | inductive invariants, theorems, the refinement, and the Fleet view |
| `FencedWriter` | what control of one Session promises | abstract specification |
| `SessionControl` | Attachments, Control Lease, takeover, termination, inputs, resizes, exit, crash, reconciliation | the detailed specification |
| `MCSessionControl` | – | instance for TLC, with its symmetry |
| `SessionControl_proofs` | – | inductive invariants, theorems and the refinement |
| `DurableStream` | what the output of one Session promises its reader | abstract specification |
| `OutputJournal` | output capture, byte journal, Snapshots, crash, store reconciliation | component |
| `SessionOutput` | one reader on top of it: Attachment, stream connection, desktop stream, terminal surface | composition, and its instance for TLC |
| `SessionOutput_proofs` | – | the journal's inductive invariant, the reader's, theorems and the refinement |
| `FleetProjection` | the read model, as a function of `AttemptLaunch`'s state | extends `AttemptLaunch`; `MCAttemptLaunch` instantiates it |
| `RepositoryTrust` | grants, challenges, revocation and the Git plans that read the Repository | component |
| `Worktrees` | provision, inspection and disposal of Worktrees, and the Attempts that use them, under that trust | composition |
| `MCWorktrees` | – | instance for TLC |
| `Worktrees_proofs` | – | the inductive invariant of trust and Worktrees, and theorems |
| `CommandOnce` | what repeating a command may do | abstract specification, implemented twice |
| `LaunchConfirmation` | plan, challenge, signature, execution, acceptance and revalidation of a launch | the detailed specification |
| `MCLaunchConfirmation` | – | instance for TLC, with its symmetry |
| `LaunchConfirmation_proofs` | – | the inductive invariant, theorems and the refinement |
| `StopCommands` | preview, challenge and execution of a stop or cancellation; pauses; the Sessions that are signalled | the detailed specification |
| `StopCommands_proofs` | – | inductive invariants, theorems and the refinement |
| `FleetDatabase` | `openDatabase`, backups, migrations, recovery, nested transactions, listening, over many Daemon processes | component |
| `FleetDatabase_proofs` | – | the inductive invariant and theorems |
| `DesktopTerminals` | renderer, Main, control connection and dispatcher around the terminals of one window | composition of four parties |
| `DesktopTerminals_proofs` | – | the inductive invariant and theorems |

### AttemptLaunch and the code

*State.* Each SQLite column the properties need is one function over Attempts
(`attempt`, `slot`, `intent`, `commitSent`, `result`, `disp`, `session`, `full`);
the five files of a nonce are `receipt`, `execReceipt`, `commitFile`, `abortFile`
(the value of a receipt is the bootstrap that wrote it, `Torn` when it does not
parse; `exec-failure.json` only shortens a wait that has a timer anyway). A
process is `proc[a][b]`, where bootstrap `b` belongs to the `b`-th life of the
daemon; `cur[a]` is the process the runtime's map owns.

*Atomicity.* A SQLite transaction is one action. So is a block of the event loop
without an await, since nothing else in the daemon can run in it, except where
the block makes two durable writes: `mid` then names the second one, every other
daemon action waits for it, and `Crash` (and every process) may come first:
`WriteCommit`/`RecordCommitSent` (SR 1620–1624), `ValidationFails`/`WriteAbort`
(SR 1610–1618), `StopTx`/`SignalStop`, `ProbeSession`/`ResolveSession`.

*Launch coroutine* (`lpc`): `barrier` → `SpawnBootstrap` → `receipt` → `Authorize`
→ `validate` (or `drift`, when the Attempt or Task had already changed) →
`WriteCommit` → `agent` → `FinalizeRunning` or `MarkUncertain`. A wait that times
out is enabled at any moment (`ReceiptLost`, `MarkUncertain`). Each transaction
keeps the code's own guards: `#abort` throws unless the tables allow it
(`CanAbort`), and a throw leaves everything as it was (`LaunchRejected`).

*Reconciliation* is a sequence of phases (`sessions`, `intents`, `slots`, `snapshots`,
`resume`); each phase ends only when the code's loop would have, and the last two may end
the Daemon instead (`Die`). `obstacle` says what makes them: output that no Snapshot can
hold (`RebuildSnapshots`, SR 1504), a resumed launch that throws (`SpawnFails`), the socket
file of a Daemon that was killed while it served (`StartupDone`, SRV 70). The first stays
for good, the second until a spawn succeeds, the third until somebody removes the file
(`RemoveSocket`). `ProbeSession`
and `ResolveSession` take Sessions one by one where the code probes all of them
and then resolves all of them; at most one Session is Alive at a restart
(`SessionMatchesAttempt` and `SlotExclusive`), so the two are the same. What a
probe sees is nondeterministic where the code's is: it may always be unavailable, and an
Agent that has changed its command (`AgentRetitled`) may be taken for another process, by
`classifyRestartSession` as by the check of an exec receipt.

### SessionControl and the code

*State.* One Session. Rows: `avail`, `att`, `counter` (`sessions.fencing_counter`),
the `control_leases` row as `holder`, `token` and `left` (how many ticks of the
clock its `expires_at` lies ahead; an expired row stays until somebody deletes it),
`row` (`input_intents.status`), `challenges` (open ones), `terminated` (the
`command_records` of TerminateSession), `size`. Files: `object`. Memory: `owned`
and `ending` (the process map and a pending `terminate()`), `pc` and `saving` (the
continuations of inputs and of resizes), `mid`. History: `ptyInput`, `ptySizes`,
`unsaved`, `handed`, `told`. A client presents any lease it was ever handed.

*Atomicity.* Every handler up to its await is one action, with one exception.
`writeSessionInput` makes two durable writes (object, row), each a place for a
crash, and asserts the lease a second time before the bytes leave (SR 851–856); the
clock may move in between. `mid` is that synchronous block: `SubmitInput` →
`PublishObject` → `PrepareInput` → `WritePty` or `WriteThrows`; the event loop runs
nothing else meanwhile (`Serving`), but `Tick`, `ExpireChallenge` and `Crash` do not
wait. Then the handler awaits the PTY (`pc`), and `DispatchInput` is its continuation.
Inputs continue in any order; resizes in the order they began, because each awaits
one already settled promise and the event loop's queue is first-in first-out.

*Confirmations.* A challenge is bound to its command and to the lease it was issued
for, so `Consume` matches kind, command and lease; its approval in the desktop has
no state in the daemon. `TakeoverFacts` is checked at issue and again at execution,
in the transaction that consumes. `takeoverControl` and `invalidateAttachment` are
modelled from SR though the router has no case that calls them: the unit tests do.

*Process.* `terminate()` signals, waits at most a second for the exit and forgets
the process either way (`TerminateTimesOut`): an Alive Session may be left with no
owned process. `RecordExit` may still come.

*Left out.* The generation (no code changes it, so its comparisons hold), damage to
a stored object (`data_gap`), a commandId reused with other bytes, and the snapshot
that `attach` reads after its transaction.

### SessionOutput and the code

`OutputJournal` is the Daemon's side of one Session's output; `SessionOutput` extends it
with one reader, and its `Next` interleaves every step of the one with every step of
the other. A crash of the Daemon ends the reader's connection too.

*State.* A chunk is its number in the PTY's order, so `file`, `index` and `temp` hold
that number where the code holds bytes or a hash. Rows: `avail`, `index` (`chunks`),
`cursor` (`stream_cursors`), `snapshot` (the row with its document), `att`. Files:
`temp`, `file`; `loose` is the one rename that no directory sync has followed yet, `bad`
what the outside damaged; `heavy` are the frames no Snapshot can hold, which shows when
they are replayed. Memory of the Daemon: `capture`, `nextSeq`, `buffer`, `failed`
(`streamFailures`), `task` (a Snapshot being replayed), `conn` (`nextSeq` of the
`StreamConnection`). Then `wire` (the socket), `client` and `want` (the managed stream
of Electron Main), `port` (frames posted and not yet acknowledged), `applied` and
`screen` (the surface).

*Atomicity.* `appendFrame` blocks the event loop, and its durable steps (BJ 84–119 over
`content-object-io.ts`) are `WriteTemp` → `RenameTemp` → `SyncDirectory` → `IndexFrame`;
only a crash, the outside and the clients' own processes fall between them. `mid` says
how far it has come, and any of them may throw (`AppendFails`). Everything else waits
(`Serving`). `SnapshotCoordinator.create` awaits its worker after each frame, so
`ReplayFrame` is one frame, and anything may happen between two. `reconcileStore` is
modelled file by file with its own transactions: one per adopted orphan, one for the
cursor.

*Crash.* Memory goes, files and rows stay, and a rename that was not synced may be
undone (`RenameMayBeLost`). The PTY goes with the Daemon. A startup ends the Daemon again
when a Snapshot exceeds a limit (`ReplayFrame`) or the socket cannot be listened on
(`StartupDone`). A launch that had no Session
yet may be resumed, which starts its process and its output anew.

*Reader.* `OpenTerminal` is `attach` with the Snapshot it returns and the surface that
restores it. `Connect` is the handshake and the request, taken when the server reads
the request; until then the connection may end, and then `AfterLoss` says what Main
does: retry, give up (at the opening), or wait for ever for an answer (`stuck`:
`readJson` never sees the end of a socket). `Pump` writes any non-empty part of a
batch, since the socket may fill at any frame. `Receive` moves the cursor when a frame
arrives in Main, before the renderer has applied it; `Apply` is the serial chain of
`app.js` with the check of `BaseTerminalSurface.feed`.

*Left out.* The generation, byte sizes beside the frame limits, damage to a Snapshot's
own object and its file-then-row steps (its file is not read without its row), the
acknowledgement's way back from the renderer, and the control connection, apart from its
loss (`ControlLost`). Closing a terminal reaches the Daemon at once if it is up. A read
of a damaged chunk closes the connection; Main then reconnects, again and again.

### RepositoryTrust, Worktrees and the code

*State.* Rows: `trust`, `confirmed`, `workspace`, `headOf` (a grant and the Workspace it
freezes), `attempt`, `bound`, `row`. Disk: `root` and `common` are the identities (device
and inode) of the Repository's two directories now, `disk[w]` what lies at a Worktree's
path. A directory that replaces another gets a number nobody had, unless it is one that
was there before and is put back (`ReplaceRepository`). Memory: `plan`, `prov`,
`insp`, each the step an awaited operation has reached and what it has read so far;
`shown` is the preview the client holds. `destroyed` remembers what was removed, as it
was, and who used it.

*Atomicity.* One action is what runs between two awaits. `validateRepository` is
`RootChecked` → `CommonRead` → `RefsRead` → `RootRechecked` → `CommonRechecked` →
(`ObjectVerified`); a directory may be replaced between any two. `plan.putBack` is history:
a .git came back during the plan. A provision begins in the acceptance of its Attempt
and nowhere else (`AcceptPlanned`, LC 328); one that a crash ends is `CutOff` for good.
`provisionWorktree` is `Preflight` →
`WorktreeAdd` → `VerifyAdded`, or `ObserveExisting`, and its row is committed in
`ProvisionCommit`, which verifies the directory once more inside the transaction.
`#inspect` is `InspectIdentity` → `InspectFacts` → `InspectManifest` → `InspectAgain`;
`dispose` runs it a second time, compares it with `shown`, and then is one synchronous
block, `Dispose`, with the lifecycle facts read again. `git worktree remove` and the row
after it are one block, with a crash between them (`Crash` may find the removal done).

*Inputs.* Attempts are moved by the other components (`AttemptAction`) with their guards
on Worktrees and trust. `AcceptContinue` asks for a preview of the Worktree made at some
time (`Previewed`), since the acceptance compares everything the preview showed but who
may still run there (LC 756, 925). The outside edits, commits, switches the branch,
replaces or deletes a directory, and crashes the Daemon, within `MaxChanges` in all.

*Left out.* What Git prints beyond the identity it was read from; kinds of hygiene
findings (one `dirty` bit); the `stop` choice of a revocation, which is stored and
executed by nobody (TSV 430).

### LaunchConfirmation and the code

*State.* `challenge` and `plan` are the two rows a preview leaves, `consent` what the
user did in the dialog of Main, `record` the `command_records`, `attempt` and `worktree`
what acceptance creates, `env` and `tree` what executable and Worktree contents are now.
Memory: `build` (the plan under way), `handler[h]` (requests), `check` (the revalidation
of the Attempt being launched).

*Atomicity.* `issueChallenge` reads its facts over four awaits (`BuildPlan` →
`BaseVerified` → `TargetInspected` → `Discover` → `IssueChallenge`). `execute` looks the
command up, checks the facts, awaits Git and Adapter (`EnvRevalidated`,
`TreeRevalidated`) and then, in one transaction, looks the command up again, checks every
fact in the database again, uses up the challenge and creates the Attempt (`Accept`).
Requests run side by side. The launch is `FactsHold` → the executable → the Worktree →
`CommitLaunch`; nothing reads the grant again after the first of these (LC 389), so a
revocation during the awaits does not stop a launch (see below).

*Left out.* Task and Worktree statuses that only `AttemptLaunch` and `Worktrees` tell
apart, the provisioning steps, the lookup of a challenge that is not this command's.

### StopCommands and the code

*State.* Rows of the Task, its Attempts (with `resume_status`) and Sessions, challenges
with the `Impact` they are hashed from, command records. `alive`, `signalled`, `suspended`
are what a process is, `tracked` whether the runtime's map still owns it.

*Atomicity.* `#executeStopCommand` has no await before its commit: `ExecuteStop` is one
action. `StopSessions` signals afterwards; `ReobserveGitAfterStop` answers once the exits
came or a second has passed, and forgets the processes. A crash may come between any of
them, and a restart finds the Sessions and reconciles them (`CrashAndReconcile`).
`pauseForStoragePressure` and its inverse read the status before their awaits and compare
it after them; nothing in the Daemon calls them, the tests do.

*Left out.* The launch handshake and the phases of reconciliation (one step each here).

### FleetDatabase and the code

*State.* A database is one record: whether it is there and good, its version, its tables,
the rows (of a command its state and its result), the change counter and the two backup
marks. `written` says that a writable connection has written to the file since it was
damaged: opening one sets WAL and creates the meta rows, closing it checkpoints
(`Touched`). `pc` is the step `openDatabase` and the startup have reached.

*Atomicity.* Every step of `openDatabase` is one action, so a process may die between any
two: `OpenWritable`, the check, `CopyFile` → `VerifyBackup` (a copy cut short is a file
in `backups/` too), one transaction per migration, the check after them, the rolling backup
with its two marks. Each may throw, and then the Daemon serves read-only recovery. A
command is `BeginCommand` (BEGIN, SAVEPOINT) → `Released` → `RecordResult` → `Commit` or
`Rollback`. WAL with `synchronous=FULL` is taken at its word: a COMMIT is durable.

*Left out.* A second Daemon that runs at the same time; damage that the integrity check
does not see; disk-full as a state (it is a failed step). The issue and the purge of
challenges write outside `transact` and do not move `change_seq`: they are no commands here.

### DesktopTerminals and the code

*State.* Four parties and two channels: the Daemon (`dispatcher`, `owned`, `attachment`,
`holder`, and as history `unread`: the Attachments whose Snapshot could not be read, which
stay Active without an owner), the connection (`wire`, `answers`), Main (`client`, `pending`, `binding`,
`held`, `shown`) and the renderer (`step`, `active`, `lease`, `port`, `visible`).

*Atomicity.* The Daemon's Attach, AcquireControl, RenewControl and CloseAttachment do not
wait, so a command and its answer are one step (`Serve`). In the renderer `attachTerminal`
is the coroutine `step`: close what is shown, attach, open the stream, restore, live;
nothing keeps a second call from starting meanwhile. A call settles by its answer, by its
timer (a late answer is dropped), or by the end of the connection.

*Left out.* What a stream carries (`SessionOutput`), fencing (`SessionControl`), reloading
the window, drawing. The greeting of a stream (`OpenStream`) may never come: it is waited
for without a timer (`daemon-attachment-stream.ts` 68).

### FleetProjection and the code

Nothing is stored: `ProjectFleet` is a function of the state of `AttemptLaunch`, evaluated
in every state of the `slots` run. `BugViewStatus` and the other operators follow
`projectTask` line by line in their order of precedence. Left out: times, versions,
profile snapshots, waiting reasons and data gaps.

## Runs and bounds

| run | instance | states | asks |
|---|---|---|---|
| `handshake` | 1 Attempt, 2 crashes, every obstacle to a startup | 42 929 | one nonce under up to three bootstraps: at most one Agent, files and answers agree (`LaunchSound`), refinement of `LaunchOnce`, liveness (`Resolves`) |
| `slots` | 2 Tasks, 2 Attempts, 1 crash, spawns may fail | 1 386 036 | the slot and Sessions under competing Attempts (`SlotSound`, `SettledMeansGone`), terminal statuses (`EndingsFinal`), and the Fleet view of each of these states |
| `slot_leak` | 1 Attempt | – | a disagreement, see below |
| `control` | 2 Attachments, 2 inputs, 2 sizes, 1 termination, 2 grants, a lease of 2 ticks, 1 crash | 1 960 155 | who may write: fencing, inputs, sizes, confirmations, refinement of `FencedWriter` |
| `output` | 3 chunks (the second unsafe, the third perhaps too much for a Snapshot), a pre-Session buffer of 2, queues of 2, 2 openings, 2 crashes, 1 lost connection, 1 damaged file | 686 996 | stored in order, Snapshots sound, no gap and no repetition on the screen, refinement of `DurableStream`, a reader catches up |
| `worktrees` | 1 grant, 2 Attempts, 2 Worktrees, 2 operations at a time, 1 outside change or crash, or a .git exchanged twice | 2 624 553 | one Repository under a grant, Ready as planned, nobody left waiting, safe disposal, revocation |
| `confirmation` | 2 commands, 2 requests at a time, 2 challenges, 2 executables, 1 change | 372 089 | refinement of `CommandOnce`; accepted and launched as confirmed |
| `stops` | 1 command, 2 requests at a time, 1 challenge, 2 Attempts, 2 changes | 342 999 | stopped as confirmed, refinement of `CommandOnce`, a stop arrives |
| `database` | 2 commands, 2 schema versions, 2 backups kept, an interval of 1 and a clock of 2, 2 faults | 1 411 037 | backups, schema, transactions; what recovery preserves |
| `restart_stuck` | 1 command, 1 fault | – | a disagreement, see below |
| `desktop` | 1 Session, 2 terminals, 2 events | 421 285 | Attachments owned and released, calls answered |
| `misdirected` | 2 Sessions, 2 terminals | – | a disagreement, see below |

Several properties are conjunctions of named parts, so that one run asks one question:
`LaunchSound` is `AtMostOneExec`, `ExecOnlyAuthorized`, `OneSignal` and
`ResultMatchesAttempt`; `SlotSound` is `SlotExclusive`, `SlotFollowsStatus` and
`SessionMatchesAttempt`; `EndingsFinal` is `TerminalIsFinal` and `SessionEndsWithAttempt`;
`Resolves` is `LaunchResolves`, `StopCompletes` and `StartupCompletes`; `InputSound` is
`InputOnce`, `FencedOrder`, `ToldTrue` and `ObjectBehindRow`; `StoreSound` is
`StoredInOrder`, `FileBehindRow` and `PublishedIsDurable`; `ScreenFaithful` is
`SnapshotSound`, `Joined` and `ScreenExact`; `OutputArrives` is `ReaderCatchesUp` and
`SnapshotComes`; `DisposeSafe` is `BusyNotDisposed` and `RemovalSafe`; `AsConfirmed` is
`AcceptedAsConfirmed` and `LaunchedAsConfirmed`; `DatabaseSound` is `BackupSound`,
`SchemaSound` and `TransactionsSound`; `AttachmentsOwned` is `ConnectionOwns` and
`AccountedFor`.

Two crashes give the interesting handshake case: a bootstrap of each of two dead
daemons and a third of the living one, all of one nonce; the proofs cover more.
Two Attempts suffice for competition for one slot, since scheduling compares
only pairs. `MaxCrashes` and `NAttempt` are the only bounds; nothing else grows. What only
a startup looks at is left out where no startup can follow (`RestartMayFollow`).
`Obstacles` names what may end a startup: all three in `handshake`, where every liveness
property is checked with them; a throwing spawn in `slots`, where the other two would only
repeat a crash; none in `slot_leak`. Deadlock
checking is off because a cancelled Task with its Attempts over leaves nothing
to do.

In `control` two grants make a stale lease and a current one, two inputs an order
of writes, two ticks a renewal that matters and an expiry inside a submission, and
one open challenge a confirmation that is outlived by its lease. `MaxToken`,
`MaxResizes`, `MaxOpen` (the issuer's own limit), `MaxCrashes` and `LeaseTtl` are
constants of the module, and the theorems hold for all their values. Attachments,
inputs and sizes are symmetric; the run checks no liveness, so the symmetry is sound.
Deadlock checking is off: an ended Session whose commands are answered is done.

In `output` three chunks overflow the pre-Session buffer and Main's queue, give the
Snapshot a frame it must stop before and a frame behind it, and leave a delta to send;
the second crash falls inside the reconciliation of the first, or ends the Snapshot that
startup rebuilds; a second opening reads a Snapshot after the first read none. The third
chunk is, or is not, more than a Snapshot can hold, so a Session ends without one, and a
startup does. All bounds
are constants, and the theorems hold for every value of them. Deadlock checking is off:
an ended Session with a reader that has everything is done.

In `worktrees` one outside change at any of the awaits of two operations is what a stale
read needs. Two Worktrees let a provision demote the active one (`Demoted`) while a
disposal or an inspection of it is under way, and let two Attempts run in one Worktree, in
two, or change from one to the other. The grant can be revoked at any point, and is not
granted again: a second grant beside two Worktrees makes more states than a run of a few
minutes can hold, and what it would add is a version that differs from the one a plan has
read, which the revocation already shows as a grant that is not Active. An
exchange of the .git alone weighs half of another act (`Outside`), so it can be exchanged
and put back, both at any of the awaits of a plan, a provision or an inspection: the run
holds the plans that settle well on what a returned .git hid, which `BoundToConfirmed`
excepts and nothing else does. What nobody reads any more is left alone: the paths of a
Worktree that is no longer Planned or Ready, the disk under a grant that was revoked as the
last one.

In `confirmation` two commands and two challenges give every pairing: one command with
two challenges, two commands with one each, the same challenge twice; one change falls
between any two of the awaits of preview, execution and launch. Commands, handlers and
executables are symmetric, and the run checks safety only. In `stops` the
two requests execute the one command while two changes (an edit, a crash, an expiry, a
pause) fall between any of their steps, so that the challenge can outlive the state it was
issued for; the second Attempt is the one that took over. That one of several challenges
is never taken for another is seen in `confirmation`, and proved here for any number. The
application counter has two more values than commands, so that a second
application is representable. In `database` two versions give an
upgrade with its backup before it, two backups a prune, two faults a failure inside the
recovery of another; with an interval of one tick, a clock of two lets a second rolling
backup fall due after a commit that followed the first. A migration in several steps is
beyond the run (three versions make twelve million states) and is in the theorems. A
tick is hours and `openDatabase` one synchronous call, so the clock stands still inside
it: the interval part of `BackupSound` says "when the database has been opened". In
`desktop` two terminals are one that replaces the other; two events are, say, a hidden
window and a late timer, or a Snapshot that cannot be read and a connection that ends. Deadlock checking is off in these five: a Task that is cancelled,
a database nobody uses, a closed window are ends; all their counters are constants.

## Fairness

`FairSpec` assumes what the program's scheduling gives: the event loop runs every
ready continuation, timer and exit callback (weak fairness on the router's
steps, the launch's steps, due writes, `RecordExit`, reconciliation); launchd's
LaunchAgent restarts a dead daemon; and a process that was sent SIGHUP ends.
Nobody promises that a client sends a command, that an Agent ends by itself or
that a bootstrap makes progress, so these are not fair. Nor does anybody promise that what
stands in the way of a startup goes away: the third part of `Resolves` says that a Daemon
that is down serves again *or an obstacle is there*, and the obstacles are in the liveness
run. `LaunchResolves` begins behind the spawn: one that throws while the Daemon serves
leaves the Attempt Starting until the next restart (a hazard in `PROJECT.json`).
`StopCompletes` needs no such exception, since a stopped Attempt ends in the first phase of
the next startup.
`SessionControl` is a safety specification and assumes no fairness: nothing makes a
client write, and the code promises no answer within a time.

`SessionOutput`'s `FairSpec`: the append under way goes on or throws, the Daemon is
restarted and its startup goes on to its end, which may be the end of the Daemon, a Snapshot begun is replayed, an exit is recorded, a
handshake is answered and the retry timer fires, the pump's timer fires, and Main and the
renderer take what arrives. Production of output, the end of the Agent, opening, closing,
crashes and damage are not fair. `ReaderCatchesUp` is a recurrence: while a reader keeps
its Attachment and the Daemon is up, it again and again shows all that is durable, or else
its situation changes. `SnapshotComes` gives an ended Session its Snapshot even if no Daemon
comes up to its socket any more, and excepts damaged files and frames that no Snapshot can
hold. A connection that ended inside its handshake (`stuck`), a closed
Attachment and a damaged file are excluded: with them the code does not catch up.

`StopCommands`: a request and a pause that have begun go on, and a process that was sent
SIGHUP and is not suspended ends; a client that comes back, or a user that signs, is not
assumed. `StopReaches` excludes the suspended process: SIGHUP does not reach it.
`FleetDatabase`'s `FairSpec` (for `restart_stuck`): launchd starts the Daemon again and
its startup goes on; that it then never serves is the finding. `DesktopTerminals`: answers
and port messages are handled, the Daemon reads its socket and notices its end, pending
calls are rejected once the connection is over, and a continuation that is due runs; no
timer has to fire and nobody has to click. `RepositoryTrust`, `Worktrees` and
`LaunchConfirmation` are safety specifications: any of their Git calls may be the last.

## Proofs

All theorems are of `Spec`. Those about `AttemptLaunch` hold for every set of Tasks
and every `NAttempt` and `MaxCrashes` and assume only `BoundsAssumption`,
`NoTaskAssumption` and `ObstaclesAssumption`; those about `SessionControl` for every set
of Attachments, commands and sizes and every bound, from `NoAttachmentAssumption`,
`TtlAssumption` and `BoundAssumption`; those about `SessionOutput` for every number of
chunks, crashes, openings and losses, every queue, every set of unsafe and of heavy
frames, from `JournalAssumption` and `ReaderAssumption`; those about
`LaunchConfirmation`, `StopCommands` and `FleetDatabase` for every set of commands and
every number of requests, challenges, Attempts, changes, versions, kept backups and
faults, from `ConfirmationBounds`, `StopBounds` (which asks that the commands be finitely
many) and `DatabaseBounds`; those about `Worktrees` for every number of grants, Attempts,
Worktrees, directories, operations and acts of the outside, from `TrustBounds` and
`WorktreeBounds`; those about `DesktopTerminals` for every set of Sessions and every number
of terminals and events, from `DesktopBounds`. TLC evaluates the assumptions on every run.

| theorem | states | by |
|---|---|---|
| `TypeCorrect` | `TypeOK` | action by action |
| `OneExec` | `AtMostOneExec` | `ReceiptGuardsExec` |
| `ExecAuthorized`, `SignalsExclusive` | `ExecOnlyAuthorized`, `OneSignal` | `DecisionInv` |
| `OneSlot`, `SlotFollows`, `SessionMatches` | `SlotExclusive`, `SlotFollowsStatus`, `SessionMatchesAttempt` | `SlotInv` |
| `SlotIsSound` | `SlotSound` | the three above |
| `TerminalFinal`, `SessionEnds`, `EndingsAreFinal` | the action properties, and `EndingsFinal` | `SlotInv` and `StatusSteps` |
| `LaunchIsSound` | `LaunchSound` | the first three, and `ResultMatchesAttempt` from `SlotInv` and `StatusSteps` |
| `SettledGone` | `SettledMeansGone` | `GoneInv` |
| `LaunchImplementsOnce` | `ImplementsLaunchOnce` | `DecisionInv` and `AnswerInv` |
| `ViewIsTruthful` | `ViewTruthful` | `FleetInv` and `SlotInv` |
| `AttentionIsActionable` | `AttentionActionable` | `FleetInv` and `SlotInv` |
| `TypeCorrect` (`SessionControl_proofs`) | `TypeOK` | action by action |
| `LeaseIsSound` | `LeaseSound` | `LeaseInv` |
| `InputOnceHolds`, `ToldTrueHolds`, `ObjectBehindRowHolds` | `InputOnce`, `ToldTrue`, `ObjectBehindRow` | `InputInv` |
| `FencedOrderHolds` | `FencedOrder` | `LeaseInv` and `FenceInv` |
| `InputIsSound` | `InputSound` | the four above |
| `SizeAgreesHolds` | `SizeAgrees` | `SizeInv` |
| `ConfirmedOnlyHolds` | `ConfirmedOnly` | the types alone |
| `ControlImplementsWriter` | `ImplementsFencedWriter` | `LeaseInv` and `InputInv` |
| `TypeCorrect` (`SessionOutput_proofs`) | `AllTypeOK` | action by action |
| `StoredInOrderHolds`, `FileBehindRowHolds` | `StoredInOrder`, `FileBehindRow` | `CaptureInv` and `FileInv` |
| `SnapshotSoundHolds` | `SnapshotSound` | `SnapshotInv` |
| `PublishedDurable`, `JoinedHolds`, `ScreenExactHolds` | `PublishedIsDurable`, `Joined`, `ScreenExact` | `JournalInv` and `ReaderInv` |
| `StoreIsSound`, `ScreenIsFaithful` | `StoreSound`, `ScreenFaithful` | the ones above |
| `OutputImplementsStream` | `ImplementsDurableStream` | `JournalInv` and `ReaderInv` |
| `ConfirmationIsTyped` | `TypeOK` | `RowInv`, `HandlerInv`, `BuildInv`, `CheckInv` |
| `LaunchesAreConfirmed`, `LaunchesHappenOnce` | `AsConfirmed`, `ImplementsCommandOnce` (of `LaunchConfirmation`) | the same |
| `StopsAreTyped` | `TypeOK` | `RowInv` |
| `StopsAreConfirmed` | `StopAsConfirmed` | `RowInv` |
| `StopsHappenOnce` | `ImplementsCommandOnce` (of `StopCommands`) | `RowInv` and `CommandInv` |
| `DatabaseIsTyped` | `TypeOK` | `Inv` |
| `DatabaseIsSound`, `RecoveryIsReadOnly` | `DatabaseSound`, `RecoveryPreserves` | `DiskInv`, `OpenInv`, `TxInv` |
| `WorktreesAreTyped` | `TypeOK` (of `Worktrees`) | `Inv` |
| `WorkspaceIsConfirmed` | `BoundToConfirmed` | `PlanInv` |
| `WaitingIsServed` | `QueuedIsServed` | `CoreInv` and `ServedInv` |
| `DisposalIsSafe` | `DisposeSafe` | `CoreInv`, `WayInv` and `GoneInv` |
| `DeclaredAsPlanned`, `RevocationIsFinal` | `ReadyIsAsPlanned`, `RevokedIsInert` | `Inv` |
| `DesktopIsTyped` | `TypeOK` (of `DesktopTerminals`) | `TypeInv` |
| `AttachmentsAreOwned` | `AttachmentsOwned` | `AttachInv`, `PendingInv`, `ShownInv`, `UnreadInv` |

The theorems above are each of a property that some run checks. These follow from them, and
say what holds from a moment on, `Spec => [](P => []Q)`:

| theorem | from when on | what | from |
|---|---|---|---|
| `AnswerIsFinal` | a launch has a durable result | the result stays; after `failed` no Agent has started or will | `ImplementsLaunchOnce` |
| `AnsweredForGood` | a launch command is answered | the answer names the same Attempt, and the command makes no other | `ImplementsCommandOnce` |
| `StopAnsweredForGood` | a stop command is answered | the answer is of the same application, and there is no second | `ImplementsCommandOnce` |
| `FencedForGood` | a newer token is granted | nothing is written under an older one | `ImplementsFencedWriter` |
| `EndedForGood` | the Session is over | no lease, no grant, no byte | `ImplementsFencedWriter` |
| `ShownIsKept` | a chunk is shown, or a Snapshot covers it | it stays indexed and on disk, unless the outside removes it | `JournalInv`, `PublishedIsDurable` |
| `CommittedIsKept` | a command is committed | no step of the Daemon removes its rows or takes the schema back, unless a backup is restored | `TransactionsSound`, `DiskInv` |
| `EndedWorktreeStays` | a Worktree is Failed, Orphaned or Disposed | it stays so, nothing waits for it, and nothing lives in a disposed one | `CoreInv`, `WayInv` |
| `ClosedForGood` | an Attachment is closed, or its Snapshot could not be read | it stays closed (or, unread, Active), is not its connection's and does not hold control | `ConnectionOwns`, `AttachInv`, `UnreadInv` |

Most of them are short because the refinement has been proved: a step of the detailed
specification is a step of the abstract one or a stutter, and the abstract one has few. The
condition is kept by such a step, and PTL turns that into `[]`.

`AtMostOneExec` is not inductive: nothing in it says why a second bootstrap
cannot exec. `ReceiptGuardsExec` does: whoever is past the receipt is the one
named in it, and the receipt is created exclusively. `ExecOnlyAuthorized` needs
to know that while the coroutine can still decide, nothing is decided
(`LaunchUndecided`), and that a file on disk follows the intent
(`FilesFollowIntent`), including the moment between two durable writes: that is
where the `mid` conjuncts come from. The slot's invariants support each other:
`SlotExclusive` survives a restart because every Attempt that must hold the slot
held it before (`SlotFollowsStatus`), which needs Sessions to match
(`SessionMatchesAttempt`, `LaunchHasNoSession`). The refinement maps a nonce to
`executed`, `permitted`, `forbidden` or `undecided` from its files and intent;
`AnswerInv` adds that the stored answer is open wherever a step writes it.

`ResultMatchesAttempt` relates the client's answer to the Attempt, its intent and its
Session. Once written, an answer stays; so the proof shows that no later step moves the
three out from under it: a Started Attempt never starts again, an aborted intent is final.
`SettledMeansGone` says that no process is left behind an outcome, but for one: an Agent
that shows another command by the time of a restart is taken for another process, and runs
on behind Interrupted. It is not inductive:
a record of an exit does not say whose exit it was. `GoneInv` does. The process that is,
or is about to become, the Agent is the one in the exec receipt (`ReceiptNamesAgent`); a
Session has such a receipt, and the process the Daemon owns for it is that one
(`SessionHasReceipt`); a launch that may still end in a Session owns a process, so that
its abort kills what it spawned (`LaunchOwnsProcess`); and a settled Attempt has a
Session, whose one Agent is gone or was not recognised, or an intent that can permit none
(`SettledIsOver`). `retitled` are the Agents the restart may fail to recognise.

`InputOnce` is not inductive either: it does not say why a prepared submission has
not been written yet. `InputInv` ties the four places an input leaves traces in:
what `mid` has done so far (`MidInv`), what the row and a waiting handler say about
the PTY (`RowInv`), and that no handler runs during reconciliation (`DownInv`), which
is why the quarantine cannot take an object that is about to get its row. `FencedOrder`
needs that bytes go out under the newest token: the second assertion of the lease
gives the lease in force, and `LeaseSound` that its token is the counter. `SizeInv`
says that the last queued resize carries the PTY's size; first-in first-out order
does the rest. In the refinement the epoch is the counter, the writer is open while
the lease has ticks left, and expiry, closing and invalidation are all `Revoke`.

`StoredInOrder` needs to know which number the next chunk will get. `CaptureInv` says it:
while the stream has not failed, the buffer continues at `cursor + 1`, and so does
`nextSeq`; once it has failed, nothing more is taken. `FileInv` adds that nothing lies
beyond the one frame that may be under way, so that an orphan found at a restart is that
frame, that a temporary file is renamed with the bytes it was written for, and that a
rename not yet synced has no row. That is what keeps a crash from undoing a rename behind
a row. `JournalInv` is their conjunction with types and `SnapshotInv`. `ReaderInv` is one
statement about four places: what is applied, posted, sent and still to be sent are
consecutive numbers that the cursor covers, whatever connection they came by. It survives
a reconnection because `want` follows the last frame received, not the last applied. In
the refinement `stored` is what the cursor covers; a crash and a reconnection are
stutters, and the end of an adoption may be a `Store`.

`LaunchedAsConfirmed` compares what the user signed with what the executable and the
Worktree have been while the launch was revalidated. `CheckInv` says that the revalidation
has seen all of it since it began, and that what it has passed is among that; it needs
`RowInv` (an Attempt that is Starting has its Worktree Ready) and `HandlerInv` (one
request provisions a Worktree, and it is still Planned). Both refinements of `CommandOnce`
map an effect to a row: an Attempt with the command of its plan, an entry of the
applications. A command has at most one because its record and its row name each other
(`RowsAgree` in the first, `CommandInv` in the second), and an answer is true because a
handler past its transaction finds the record. A stop does not touch what its preview did
not show because preview and execution read the same rows, with no await before the
commit.

`BackupSound` is not inductive: it does not say what is in the file that is being copied.
`OpenInv` does, step by step of `openDatabase`: from the check on the file is good, until
the first migration it is `safe`, after the last one it has the build's version, and a
backup of it exists wherever a migration runs. `DbOk` holds of the file and of every backup
at once, so a restore needs no case of its own. The interval rests on one fact of
`DiskInv`: the oldest commit in no good backup is not older than the last rolled backup
the file knows of. `TxInv` says that a transaction's command has no row yet; that is what
keeps the change counter and the rows in step. `RecoveryPreserves` follows from the steps:
a damaged file changes when it is moved aside, or is marked written by the connection that
finds it damaged, and in recovery the Daemon writes nothing.

`ViewTruthful` reads one status from several rows, and what it needs is that they cannot
disagree about which Attempt counts. `FleetInv` says so: a Task's Attempt that is not over
is its newest (`NewestActive`), because an acceptance finds no other active one and numbers
grow (`Numbered`); a Task that has an Attempt is no Draft, and what is not over under a
cancelled Task is being stopped (`LifecycleFits`); an Interrupted Attempt has a Disposition
(`InterruptedProbed`), so that Resume is accepted when the view asks for it.

`BoundToConfirmed` is about a pair of identities that are read at different times.
`PlanInv` rests on one fact, that the common directory's identity only moves forward as
long as no .git comes back (`~plan.putBack`): what a plan read at first is not newer than
what it read second, nor that than what is there when the identities are compared again
(`OneReading`). Equal at both ends is equal between, so a plan that settles well has seen
one Repository, and one that the confirmed root owned.
With a .git that is put back the fact fails, and so does the conclusion: see below.

`QueuedIsServed` says what may leave an Attempt waiting: a provision under way, a crash
that cut it off, a revocation; `ServedInv` says so of the row (a Planned one has its
provision, or a mark of one of the other two). `QueuedKeepsWorktree`, that the Worktree
of a waiting Attempt is planned or ready, and `BusyNotDisposed` support each other, and
neither says which Attempts may use a Worktree. `RowInv` and `BindInv` tie rows to
Attempts: a row belongs to the Attempt it was planned for, which alone is bound to it until
it is Ready, and its version follows from its state and role, which is what makes a
compared version mean anything.
`OneMayRun` says that at most one Attempt of a grant waits or runs, so that a provision
which becomes the active Worktree demotes none that another one waits for. `WayInv` says
that an operation under way finds its row in the state it left it in, and `GoneInv` that
what was removed was Ready and stays so or becomes Disposed, so that no later step gives
the removed directory to a row again. The two action properties follow from `Inv` at each
commit: nothing is compared there with what was read before an await, only with the state
of the moment. None of this needs the refusal of a Worktree with a process in it, so the
properties survive the late acceptance that `Previewed` allows.

`AttachmentsOwned` needs to know that an Attach is executed once and that a close somebody
waits for is on its way or done. `AttachInv` follows the call from the renderer to its
answer: on the wire at most once, and only before the row exists. `PendingInv` says which
step of `attachTerminal` a pending call belongs to, and `ShownInv` that the terminal shown
is live and that a terminal to be closed is another one: that is why replacing it cannot
forget an Attachment that nobody else will release. `UnreadInv` says where the caller of a
refused Attach is, and that no answer names that Attachment, so that it stays nobody's.

Only model-checked: liveness (`Resolves`, `OutputArrives`, `StopReaches`,
`ClosedTerminalReleases`, `AttachSettles`), which (with ENABLED) is out of the prover's
reach, as are induction over data and recursive operators. Every other property of a
passing run is a theorem.

## Where the code and its contract differ

Three runs end in a violation, each of one property that states a rule of the contract:

| run | the code | the contract |
|---|---|---|
| `slot_leak` | a stop accepted while the Attempt is Starting makes it Cancelled (TO 443) and its slot is never released: the launch's own `#abort` then throws | RT-SCHED-04: a terminal Attempt releases its slot |
| `restart_stuck` | `listen` on the path of a socket file that a dead Daemon left fails (SRV 70); nothing unlinks the file, so the Daemon ends, and so does every one started after it | RT-REC-07: after a crash the LaunchAgent brings the Daemon up again |
| `misdirected` | the handler of AcquireControl stores the answer in whichever terminal is active when it comes (`app.js` 257): the lease of one Session's terminal is used to type into the other's, and what is typed there goes to the first | RT-PERF-06: no input crosses Sessions |

More disagreements, which the modules contain and no run is spent on. The models follow
the code in all of them, so the properties are stated to allow them, and say so:

| the code | the contract |
|---|---|
| the Attempt's status is not read again after the revalidation's awaits: CommitLaunch is written for a Cancelled Attempt (SR 1620), the Agent runs and no Session owns it | RT-STATE-26 |
| the grant is read before the awaits of `revalidateAcceptedAttempt` (LC 389) and not again before CommitLaunch (SR 1606) | RT-CMD-16 |
| at restart, a bootstrap between its exec receipt and its exec is called ConfirmedAbsent (SR 1406–1423) and its slot is released | RT-LAUNCH-06, RT-STATE-23 |
| Retry looks only at its source Attempt's Disposition (LC 630): an older Failed source is accepted while a later Attempt is Uncertain and holds the slot | RT-STATE-23 |
| a Worktree in which a process may still run is refused when the preview is made (LC 756) and not when the command is executed (LC 260, 925): a Retry previewed before another Attempt continued the Worktree is accepted while that one is Uncertain and Probing; it waits Queued until the slot is free (`Previewed` in `Worktrees`, reached with three Attempts) | RT-WORKTREE-03, RT-LAUNCH-01 |
| a command schedules the oldest Queued Attempt and launches only its own (RT 472); an older one becomes Starting and nobody launches it | RT-LAUNCH-02 |
| a launch that is scheduled checks its Attempt's working directory and no other confirmed fact (TO 114–205, LC 337) until the revalidation | RT-CMD-16 |
| ResizeSession keeps no command record (SR 894): a repeated commandId resizes the PTY again, after a later resize too | RT-INPUT-06, RT-CMD-02 |
| an orphan chunk gets its row in one transaction and the cursor moves in another, only if this walk adopted something (`store-reconciliation.ts` 137): after a crash in between the chunk stays above the cursor | RT-ORDER-07 |
| a live process that shows another command than the recorded one, because it has set its title or exec'd another program, is a `process-identity-mismatch` (SR 260) and so ConfirmedAbsent: its Attempt becomes Interrupted and the slot is released while the Agent runs (`retitled`, excepted by `SettledMeansGone`) | RT-STATE-07: Interrupted is for a process confirmed to exist no more |
| the root and its common Git directory are compared before and after the Git calls of a plan: a .git that is exchanged after the first and put back before the second has the identity it had, and the HEAD and refs of the other Repository are frozen (`plan.putBack`, excepted by `BoundToConfirmed`) | the comment at RG 423: "a swap of the root or the common Git directory during the run fails closed instead of binding facts gathered from two different Repositories" |
| a Snapshot over a limit makes `create` throw, with `truncated: false` in all that it stores (`snapshot-coordinator.ts` 184), and startup survives a `DataIntegrityFailure` only (SR 1504): the Session has no Snapshot and the Daemon ends at every start (`heavy`, excepted by `SnapshotComes` and `StartupCompletes`) | RT-TERM-15: a Snapshot at its limit is truncated and says so |
| an Attach whose Snapshot cannot be read has committed its row as Active (SR 402–416); the command fails, so the dispatcher never learns of it, and neither the client nor the end of the connection closes it (`unread`, excepted by `AttachmentsOwned` and `ClosedTerminalReleases`) | RT-T-03, RT-LEASE-06: the Attachments of a lost connection are closed |
| a database is opened for writing before its integrity is checked (DB 119–129, 264–275): WAL, the meta rows and the checkpoint at the close are written into a damaged file (`Touched`, allowed by `RecoveryPreserves`) | RT-STO-06: when the check fails the damaged original is kept and not written |
| a dispose that is repeated after it succeeded is refused, not answered with its result (WM 480) | RT-CMD-03 |
| a provision is called after its acceptance and nowhere else (LC 322–335): one that a crash ends is taken up by no startup, and a repeated command returns the stored acceptance (LC 224–237); one that fails without an Active grant throws and records nothing. The Attempt stays Queued (excepted by `QueuedIsServed`) | RT-WORKTREE-06: reconciliation adopts the Worktree and the command goes on |
| the baseline of the first rolling backup is the last change (DB 210), so a database that changes every day is never rolled | RT-STO-07 |

## Not modelled

*Parts.* The file broker and the native artifacts (file-system calls without a state that
interleaves), `src/packages/daemon/src/prototypes`, auxiliary Sessions, the framing and
encoding of the sockets, the authentication's cryptography, rendering, the probing of the
Host and the Adapters' command lines, the read commands other than GetFleet.

*Operations without a caller in the router*: `updateTaskSpec`, `updateProfile` and
`deleteProfile` are modelled only as changes that a confirmation must notice;
`startTask`, the `previewDispose` route and the restore generation (RT-STATE-27) are left
out; `restoreFromBackup`, `pauseForStoragePressure` and `resumeFromStoragePressure` are
modelled, because the tests call them. `confirmation-ipc.ts` (301–312) refuses launch and
side-effect receipts in the desktop of this version, so `RequestConfirmation` of a launch
is taken from the client the tests drive.

*Bounds that are part of a module.* One Git plan, one inspection, one preview, one pause
and one trust challenge at a time, one provision per Worktree; one reader per Session
(two share only what the Daemon reads); one Session per Attempt.

*Behaviours a reader of the models should know*, because the code has them and no
property forbids them:

* a failing rolling backup puts the Daemon in read-only recovery; a
  crash between the two steps of a restore leaves no file, and the next start makes an
  empty database and calls it ready; an older build opens a newer schema silently;
* a stop of an Attempt whose process is suspended sends a signal the process will not
  handle, and after a second forgets it: the Attempt can then be neither resumed nor
  stopped; pausing a launch that is still Starting and then stopping it leaves a Stopping
  Attempt without a Session;
* a second `attachTerminal` during the first leaks the first terminal; `acquire`'s answer
  after the last terminal was closed is a TypeError; an Attach that comes back after its
  timer stays Active until the connection ends; a client whose handshake times out waits
  for ever and keeps its socket; Main never reconnects its control connection; hiding and
  showing a window during a renewal leaves Main renewing a lease the renderer gave up;
* a Task that is Cancelled may still be shown as needing the user's attention.

## Plan

Written, in the order of importance: what can start an agent twice (`AttemptLaunch`), who
may write to it (`SessionControl`), whether what it wrote survives (`OutputJournal`,
`SessionOutput`), what the user confirmed (`LaunchConfirmation`, `StopCommands`), where it
runs (`RepositoryTrust`, `Worktrees`), what keeps it all (`FleetDatabase`) and what the
user sees (`DesktopTerminals`, `FleetProjection`).

Proofs still to write: none of a property that a run checks, liveness aside. What could be
added: that the steps of `Worktrees` which accept and start Attempts are steps that
`AttemptLaunch` allows, and that `DesktopTerminals` uses an Attachment as `SessionControl`
expects it.

Models still to write: damage to a stored input and to a Snapshot's object, several
Sessions in `reconcileStore`, two terminals with streams of their own.

*Why the parts are checked apart.* `AttemptLaunch`, `SessionControl` and `SessionOutput`
share only the Session's availability and its Attachments' status: each takes the other's
steps as events that may happen at any time. `LaunchConfirmation` and `Worktrees` share
with `AttemptLaunch` the status of an Attempt, which the first two move by steps that are
coarser than its own; the states between are its business, and the guards the three put
on each other's rows are in all of them. `StopCommands` repeats the part of
`AttemptLaunch` a stop can meet. `DesktopTerminals` sits on the commands of
`SessionControl` and starts the streams of `SessionOutput`. All of them stand on
`FleetDatabase`: their one-action transactions are what `TransactionsSound` says.
