------------------------------- MODULE Worktrees -------------------------------
(***************************************************************************)
(* The managed Worktrees of one Repository path under its Trust: planned   *)
(* with the Attempt that needs them, provisioned by a long Git operation,  *)
(* verified and made Ready in a transaction, inspected over many awaits,   *)
(* and disposed of.  Attempts live and end, Trust is revoked, the outside  *)
(* edits, commits, switches branches, replaces or deletes directories, and *)
(* the Daemon crashes, all between any two awaits.                         *)
(*                                                                         *)
(* One Task belongs to the Workspace of each grant.  A Worktree's contents *)
(* are reduced to four facts: which Repository it is linked to, whether    *)
(* the managed branch is checked out, whether HEAD is past the base commit *)
(* and whether there are uncommitted changes.                              *)
(***************************************************************************)
EXTENDS RepositoryTrust, FiniteSets

CONSTANTS
  NAttempt,     \* bound: Attempts ever accepted
  NWorktree,    \* bound: Worktrees ever planned
  MaxDirs,      \* bound: directories that ever exist at one Worktree path
  MaxOps        \* bound: Git operations under way at one time

ASSUME WorktreeBounds ==
  /\ NAttempt \in Nat \ {0} /\ NWorktree \in Nat \ {0}
  /\ MaxDirs \in Nat \ {0} /\ MaxOps \in Nat \ {0}

Attempt == 1 .. NAttempt
Worktree == 1 .. NWorktree
Dir == 1 .. MaxDirs
None == 0

VARIABLES
  \* SQLite
  attempt,      \* how far an Attempt is; "Uncertain" holds a Process Disposition
  bound,        \* attempt_worktree_bindings: the Worktree of an Attempt
  row,          \* fleet_worktrees
  \* disk
  disk,         \* what lies at a Worktree's path
  made,         \* directories that have existed there
  destroyed,    \* history: what the Daemon removed, as it was then
  \* Daemon memory
  prov,         \* the provision under way for a Worktree; "cut off" is history: a crash
                \* ended it, and nothing takes it up again
  insp,         \* the inspection under way (bound: one)
  shown         \* the dispose preview the client holds (bound: one)

attemptRows == <<attempt, bound>>
dirVars     == <<disk, made, destroyed>>
opVars      == <<prov, insp, shown>>
wtVars      == <<attemptRows, row, dirVars, opVars>>
vars        == <<trustVars, wtVars>>

AttemptPhase == {"none", "Queued", "Live", "Uncertain", "Done"}
NoRow == [state |-> "None", role |-> "Pending", version |-> 0, dir |-> None,
          trust |-> 0, owner |-> None]
NoDir == [dir |-> None, repo |-> NoId, branch |-> FALSE, ahead |-> FALSE, dirty |-> FALSE]
NoProv == [pc |-> "none", existed |-> FALSE, dir |-> None, result |-> "pending"]
CutOff == [NoProv EXCEPT !.pc = "cut off"]
NoInsp == [pc |-> "none", w |-> None, dispose |-> FALSE, version |-> 0,
           blocked |-> FALSE, ahead |-> FALSE, dirty |-> FALSE, stable |-> FALSE]
NoPreview == [w |-> None, version |-> 0, dir |-> None, ahead |-> FALSE, dirty |-> FALSE]

WorktreeTypeOK ==
  /\ attempt \in [Attempt -> AttemptPhase]
  /\ bound \in [Attempt -> Worktree \union {None}]
  /\ row \in [Worktree -> [state : WorktreeState \union {"None"}, role : WorktreeRole,
                           version : 0 .. 4, dir : Dir \union {None},
                           trust : Version \union {0}, owner : Attempt \union {None}]]
  /\ disk \in [Worktree -> [dir : Dir \union {None}, repo : Id \union {NoId},
                            branch : BOOLEAN, ahead : BOOLEAN, dirty : BOOLEAN]]
  /\ made \in [Worktree -> Dir \union {None}]
  /\ destroyed \in SUBSET [w : Worktree, dir : Dir, dirty : BOOLEAN, users : SUBSET Attempt]
  /\ prov \in [Worktree -> [pc : {"none", "preflight", "add", "verify", "existing", "commit",
                                  "cut off"},
                            existed : BOOLEAN, dir : Dir \union {None},
                            result : {"pending", "ok", "clean", "unknown"}]]
  /\ insp \in [pc : {"none", "identity", "facts", "manifest", "again", "done"},
               w : Worktree \union {None}, dispose : BOOLEAN, version : 0 .. 4,
               blocked : BOOLEAN, ahead : BOOLEAN, dirty : BOOLEAN, stable : BOOLEAN]
  /\ shown \in [w : Worktree \union {None}, version : 0 .. 4, dir : Dir \union {None},
                ahead : BOOLEAN, dirty : BOOLEAN]

TypeOK == TrustTypeOK /\ WorktreeTypeOK

Init ==
  /\ TrustInit
  /\ attempt = [a \in Attempt |-> "none"]
  /\ bound = [a \in Attempt |-> None]
  /\ row = [w \in Worktree |-> NoRow]
  /\ disk = [w \in Worktree |-> NoDir]
  /\ made = [w \in Worktree |-> None]
  /\ destroyed = {}
  /\ prov = [w \in Worktree |-> NoProv]
  /\ insp = NoInsp
  /\ shown = NoPreview

-----------------------------------------------------------------------------
(* Facts the handlers read.                                                 *)

BoundTo(w) == {a \in Attempt : bound[a] = w}
OfGrant(v) == {a \in Attempt : bound[a] # None /\ row[bound[a]].trust = v}
Nonterminal == {a \in Attempt : attempt[a] \in {"Queued", "Live"}}
\* listNonTerminalAttemptsForTrust.
MayRun(v) == OfGrant(v) \intersect Nonterminal

\* Bug: the Workspace is found and its grant is not looked at.
BugContext(w) == row[w].trust # 0

\* context: a Worktree operation needs the Active grant of its Workspace.
Context(w) == row[w].trust # 0 /\ Active(row[w].trust)

\* disposeLifecycleFacts and lifecycleBlockers: nonterminal Attempts, Alive
\* Sessions and Process Dispositions that hold the slot.
Users(w) == {a \in BoundTo(w) : attempt[a] \in {"Queued", "Live", "Uncertain"}}
LifecycleBlocked(w) == Users(w) # {}

\* The Repository a Worktree's grant froze is the one on disk.
RepositoryInPlace(w) ==
  root = confirmed[row[w].trust] /\ common = workspace[row[w].trust]
LinkedHere(w) == disk[w].repo = workspace[row[w].trust]

FreshAttempt == {a \in Attempt : attempt[a] = "none" /\ \A b \in 1 .. (a - 1) : attempt[b] # "none"}
FreshWorktree == {w \in Worktree : row[w] = NoRow /\ \A u \in 1 .. (w - 1) : row[u] # NoRow}

\* The bound on Git operations under way: plans, provisions, the inspection.
OpsUnderWay ==
  Cardinality({w \in Worktree : prov[w].pc \notin {"none", "cut off"}})
    + (IF plan.pc = "none" THEN 0 ELSE 1) + (IF insp.pc = "none" THEN 0 ELSE 1)
OpFree == OpsUnderWay < MaxOps

-----------------------------------------------------------------------------
(* Acceptance of a launch: the commit was verified by a Git plan, and the   *)
(* transaction looks at the Task, the grant and the Worktree again.         *)

Verified(v) == PlanDone("verify") /\ plan.version = v /\ plan.result = "ok"

\* #assertCommandAllowed and #workspace.
LaunchAllowed(v) == Active(v) /\ MayRun(v) = {}

\* provision, called where the acceptance has committed and nowhere else: a target that
\* exists is observed, never overwritten.
ProvisionBegins(w) ==
  LET there == disk[w].dir # None
  IN [NoProv EXCEPT !.pc = IF there THEN "existing" ELSE "preflight", !.existed = there]

\* createPlanned: a new Attempt with its Planned Worktree, whose provision begins.
AcceptPlanned(v, a, w) ==
  /\ Verified(v) /\ LaunchAllowed(v)
  /\ a \in FreshAttempt /\ w \in FreshWorktree
  /\ attempt' = [attempt EXCEPT ![a] = "Queued"]
  /\ bound' = [bound EXCEPT ![a] = w]
  /\ row' = [row EXCEPT ![w] = [NoRow EXCEPT !.state = "Planned", !.version = 1,
                                             !.trust = v, !.owner = a]]
  /\ prov' = [prov EXCEPT ![w] = ProvisionBegins(w)]
  /\ UNCHANGED <<trustRows, diskVars, challenge, dirVars, insp, shown>>

\* bindReadyToAttempt: the current Worktree is used again, with what is in it.
Continuable(w) == row[w].state = "Ready" /\ row[w].role = "Active"

\* #targetBinding previews no Worktree whose Users may still run; #revalidate and the
\* transaction look at Task, source, grant and files, not at Users again. The preview
\* is kept in SQLite, so an acceptance needs one made at any time since the Attempt
\* that made the Worktree was over: there was a time then when it had no Users.
Previewed(w) == attempt[row[w].owner] = "Done"
AcceptContinue(v, a, w) ==
  /\ Verified(v) /\ LaunchAllowed(v)
  /\ a \in FreshAttempt
  /\ row[w].trust = v /\ Continuable(w) /\ Previewed(w)
  /\ attempt' = [attempt EXCEPT ![a] = "Queued"]
  /\ bound' = [bound EXCEPT ![a] = w]
  /\ UNCHANGED <<trustRows, diskVars, challenge, row, dirVars, opVars>>

\* A plan that failed, or whose command is refused, has no effect.
VerificationRefused ==
  /\ PlanDone("verify")
  /\ UNCHANGED <<trustRows, diskVars, challenge, wtVars>>

-----------------------------------------------------------------------------
(* Attempts, as the other components move them.                             *)

Moves(a, from, to) ==
  /\ attempt[a] = from /\ attempt' = [attempt EXCEPT ![a] = to]
  /\ UNCHANGED <<trustVars, bound, row, dirVars, opVars>>

\* scheduleNext picks a Queued Attempt whose Worktree is Ready and Active.
Schedulable(a) == bound[a] # None /\ Continuable(bound[a])
AttemptStarts(a) == Schedulable(a) /\ Moves(a, "Queued", "Live")
AttemptEnds(a) == \E to \in {"Done", "Uncertain"} : Moves(a, "Live", to)
AttemptCancelled(a) == Moves(a, "Queued", "Done")
DispositionSettled(a) == Moves(a, "Uncertain", "Done")
AttemptAction ==
  \E a \in Attempt :
    AttemptStarts(a) \/ AttemptEnds(a) \/ AttemptCancelled(a) \/ DispositionSettled(a)

-----------------------------------------------------------------------------
(* Provisioning: WorktreeManager.provision and the provisioner.             *)

ProvTo(w, step) == prov' = [prov EXCEPT ![w].pc = step]
\* "clean" is leftover none, "unknown" a side effect that cannot be excluded.
ProvEnds(w, res, d) ==
  prov' = [prov EXCEPT ![w].pc = "commit", ![w].result = res, ![w].dir = d]
\* runGit: a call that times out, finds no Repository, a branch or a path that is
\* taken, or fails otherwise.
GitFailed(w, leftover) == ProvEnds(w, leftover, None)
ProvOnly == UNCHANGED <<trustVars, attemptRows, row, insp, shown>>

\* Identity, target, version and the scan for filter attributes: a failure here
\* has left nothing behind.
Preflight(w) ==
  /\ prov[w].pc = "preflight" /\ UNCHANGED dirVars /\ ProvOnly
  /\ \/ root # confirmed[row[w].trust] /\ ProvEnds(w, "clean", None)
     \/ disk[w].dir # None /\ ProvEnds(w, "unknown", None)
     \/ GitFailed(w, "clean")
     \/ /\ root = confirmed[row[w].trust] /\ disk[w].dir = None
        /\ ProvTo(w, "add")

\* What git worktree add makes, linked to whatever Repository is at the root.
Added(w) == [dir |-> made[w] + 1, repo |-> common, branch |-> TRUE, ahead |-> FALSE, dirty |-> FALSE]
Partial(w) == [NoDir EXCEPT !.dir = made[w] + 1]
Appears(w, d) ==
  /\ made[w] < MaxDirs
  /\ disk' = [disk EXCEPT ![w] = d] /\ made' = [made EXCEPT ![w] = @ + 1]

\* git worktree add: done, refused or killed with nothing at the path, refused
\* because of a branch or a path that exists, or broken off half way.
WorktreeAdd(w) ==
  /\ prov[w].pc = "add" /\ UNCHANGED destroyed /\ ProvOnly
  /\ \/ disk[w].dir = None /\ Appears(w, Added(w)) /\ ProvTo(w, "verify")
     \/ disk[w].dir = None /\ Appears(w, Partial(w)) /\ GitFailed(w, "unknown")
     \/ /\ UNCHANGED <<disk, made>>
        /\ \/ disk[w].dir = None /\ GitFailed(w, "clean")
           \/ GitFailed(w, "unknown")

\* HEAD, top level and branch are what the plan says.
AsPlanned(w) == disk[w].dir # None /\ disk[w].repo # NoId /\ disk[w].branch /\ ~disk[w].ahead

\* Any failure after the add leaves something unproven.
VerifyAdded(w) ==
  /\ prov[w].pc = "verify" /\ UNCHANGED dirVars /\ ProvOnly
  /\ \/ AsPlanned(w) /\ ProvEnds(w, "ok", disk[w].dir)
     \/ ProvEnds(w, "unknown", None)

\* inspectExistingWorktree: only an exact match of the plan is taken over.
ObserveExisting(w) ==
  /\ prov[w].pc = "existing" /\ UNCHANGED dirVars /\ ProvOnly
  /\ \/ /\ root = confirmed[row[w].trust] /\ disk[w].repo = common
        /\ AsPlanned(w) /\ ProvEnds(w, "ok", disk[w].dir)
     \/ ProvEnds(w, "unknown", None)

\* Bug: what the provisioner saw, awaits ago, is believed.
BugReadyVerified(w) == RepositoryInPlace(w)

\* WorktreeReadyVerifier.verify, inside the transaction: the same Repository, the
\* same directory, the base commit and the managed branch.
ReadyVerified(w) ==
  /\ RepositoryInPlace(w)
  /\ disk[w].dir = prov[w].dir /\ LinkedHere(w) /\ AsPlanned(w)

\* Bugs: the waiting Attempt is left alone; the state is written as the role.
BugFailQueued(a) == attempt
BugEnds(w, state) == [row EXCEPT ![w].role = state, ![w].version = @ + 1]

\* #failQueuedAttempt.
FailQueued(a) == IF attempt[a] = "Queued" THEN [attempt EXCEPT ![a] = "Done"] ELSE attempt

Ends(w, state) == [row EXCEPT ![w].state = state, ![w].role = "Pending", ![w].version = @ + 1]

\* commitProvisioned for a result that matches: the owner still waits, and the
\* Task's Active Worktree steps back; or it has ended, and nothing uses the new one.
Demoted(w) ==
  [u \in Worktree |->
     IF u # w /\ row[u].trust = row[w].trust /\ row[u].role = "Active"
     THEN [row[u] EXCEPT !.role = "Historical", !.version = @ + 1] ELSE row[u]]
MadeReady(w, role, rows) ==
  [rows EXCEPT ![w].state = "Ready", ![w].role = role, ![w].version = @ + 1,
               ![w].dir = prov[w].dir]

CommitReady(w) ==
  LET a == row[w].owner
  IN CASE attempt[a] = "Queued" ->
            row' = MadeReady(w, "Active", Demoted(w)) /\ UNCHANGED attempt
       [] attempt[a] \in {"Done", "Uncertain"} ->
            row' = MadeReady(w, "Historical", row) /\ UNCHANGED attempt
       [] OTHER -> row' = Ends(w, "Orphaned") /\ UNCHANGED attempt

\* commitProvisionFailure: Failed only when nothing can be left behind.
CommitFailure(w, leftover) ==
  /\ row' = Ends(w, IF leftover = "clean" THEN "Failed" ELSE "Orphaned")
  /\ attempt' = FailQueued(row[w].owner)

\* The transaction after the provisioner's answer.  Without an Active grant it throws:
\* the row stays Planned, and its Attempt Queued.
ProvisionCommit(w) ==
  /\ prov[w].pc = "commit"
  /\ prov' = [prov EXCEPT ![w] = NoProv]
  /\ IF ~Context(w) \/ ~WorktreeCan(row[w].state, "Ready") THEN UNCHANGED <<row, attempt>>
     ELSE CASE prov[w].result # "ok" ->
                 CommitFailure(w, IF prov[w].existed THEN "unknown" ELSE prov[w].result)
            [] prov[w].result = "ok" /\ ReadyVerified(w) -> CommitReady(w)
            [] prov[w].result = "ok" /\ ~ReadyVerified(w) -> CommitFailure(w, "unknown")
  /\ UNCHANGED <<trustVars, bound, dirVars, insp, shown>>

ProvisionStep(w) ==
  \/ Preflight(w) \/ WorktreeAdd(w) \/ VerifyAdded(w)
  \/ ObserveExisting(w) \/ ProvisionCommit(w)
ProvisionAction == \E w \in Worktree : ProvisionStep(w)

-----------------------------------------------------------------------------
(* Inspection and the dispose preview: WorktreeInspector.#inspect.          *)

InspOnly == UNCHANGED <<trustVars, attemptRows, row, dirVars, prov, shown>>
SamePlace(w) == RepositoryInPlace(w) /\ disk[w].dir = row[w].dir /\ LinkedHere(w)
InspEnds == insp' = [insp EXCEPT !.pc = "done", !.blocked = TRUE]

\* previewDispose reads the row and the lifecycle facts, then inspects; dispose
\* does the same again with what the client was shown.
InspectStart(w, dispose) ==
  /\ OpFree
  /\ insp.pc = "none" /\ Context(w) /\ row[w].state = "Ready"
  /\ dispose => shown.w = w
  /\ insp' = [NoInsp EXCEPT !.pc = "identity", !.w = w, !.dispose = dispose,
                            !.version = row[w].version, !.blocked = LifecycleBlocked(w)]
  /\ InspOnly

\* recheckIdentity of root, common directory and Worktree, and its Repository.
InspectIdentity ==
  /\ insp.pc = "identity" /\ InspOnly
  /\ IF SamePlace(insp.w) THEN insp' = [insp EXCEPT !.pc = "facts"] ELSE InspEnds

\* HEAD, branch and the comparison with the integration target, which may be
\* missing, have moved, or contain what HEAD holds (merged).
InspectFacts ==
  LET d == disk[insp.w]
  IN /\ insp.pc = "facts" /\ InspOnly
     /\ \/ InspEnds
        \/ \E merged \in BOOLEAN :
             insp' = [insp EXCEPT !.pc = "manifest", !.ahead = d.ahead,
                                  !.blocked = @ \/ ~d.branch \/ (d.ahead /\ ~merged)]

\* The index, the three manifests, the patches and the content hashes.
InspectManifest ==
  /\ insp.pc = "manifest" /\ InspOnly
  /\ insp' = [insp EXCEPT !.pc = "again", !.dirty = disk[insp.w].dirty]

\* The cheap manifests are read again; without a fingerprint the preview blocks.
Unchanged(w) == disk[w].ahead = insp.ahead /\ disk[w].dirty = insp.dirty
InspectAgain ==
  /\ insp.pc = "again" /\ InspOnly
  /\ IF ~SamePlace(insp.w) THEN InspEnds
     ELSE \E complete \in BOOLEAN :
            LET ok == complete /\ Unchanged(insp.w)
            IN insp' = [insp EXCEPT !.pc = "done", !.stable = ok,
                                    !.blocked = @ \/ ~ok \/ insp.dirty]

\* A preview goes to the client; one without a fingerprint cannot be used.
StateFingerprint == [w |-> insp.w, version |-> insp.version, dir |-> row[insp.w].dir, ahead |-> insp.ahead, dirty |-> insp.dirty]
PreviewShown ==
  /\ insp.pc = "done" /\ ~insp.dispose
  /\ shown' = IF insp.stable THEN StateFingerprint ELSE NoPreview
  /\ insp' = NoInsp
  /\ UNCHANGED <<trustVars, attemptRows, row, dirVars, prov>>

-----------------------------------------------------------------------------
(* Disposal.                                                                *)

\* What dispose compares before its transaction.
AsShown == ~insp.blocked /\ insp.stable /\ StateFingerprint = shown
\* Bugs: only the row's version is read again; the Worktree is removed by force.
BugStillIdle(w) == row[w].version = shown.version
BugRemovable(w) == SamePlace(w) /\ disk[w].branch

\* And again inside it, with everything that may have changed since.
StillIdle(w) == ~LifecycleBlocked(w) /\ row[w].version = shown.version
\* WorktreeDisposer: identities, Repository and branch once more, and git's own
\* refusal of a Worktree with uncommitted changes.
Removable(w) == SamePlace(w) /\ disk[w].branch /\ ~disk[w].dirty

DisposeRefused ==
  /\ insp.pc = "done" /\ insp.dispose
  /\ insp' = NoInsp
  /\ InspOnly

MayDispose(w) ==
  /\ insp.pc = "done" /\ insp.dispose /\ insp.w = w
  /\ AsShown /\ Context(w) /\ StillIdle(w) /\ Removable(w)

Removed(w) ==
  /\ disk' = [disk EXCEPT ![w] = NoDir]
  /\ destroyed' = destroyed \union
       {[w |-> w, dir |-> disk[w].dir, dirty |-> disk[w].dirty, users |-> Users(w)]}
  /\ UNCHANGED made

\* markDisposed: the row becomes history; the branch stays.
DisposedRow(w) == [row EXCEPT ![w].state = "Disposed", ![w].role = "Historical", ![w].version = @ + 1]

\* The checks after the removal may still refuse: the row then stays Ready.
Dispose(w) ==
  /\ MayDispose(w) /\ Removed(w)
  /\ row' = DisposedRow(w) \/ UNCHANGED row
  /\ insp' = NoInsp
  /\ UNCHANGED <<trustVars, attemptRows, prov, shown>>

InspectionAction ==
  \/ \E w \in Worktree, dispose \in BOOLEAN : InspectStart(w, dispose)
  \/ InspectIdentity \/ InspectFacts \/ InspectManifest \/ InspectAgain
  \/ PreviewShown \/ DisposeRefused
  \/ \E w \in Worktree : Dispose(w)

-----------------------------------------------------------------------------
(* The outside, and the crash.                                              *)

DiskOnly ==
  Outside(2) /\ UNCHANGED <<trustRows, repoVars, challenge, plan, attemptRows, row,
                         destroyed, opVars>>

Edit(w) ==
  /\ disk[w].repo # NoId /\ UNCHANGED made /\ DiskOnly
  /\ \/ disk' = [disk EXCEPT ![w].dirty = ~@]
     \/ ~disk[w].ahead /\ disk' = [disk EXCEPT ![w].ahead = TRUE, ![w].dirty = FALSE]
     \/ disk[w].branch /\ disk' = [disk EXCEPT ![w].branch = FALSE]

\* Somebody else's directory or Worktree appears at the path, or the path is emptied.
Occupied(w) == (Appears(w, Partial(w)) \/ Appears(w, Added(w))) /\ DiskOnly
Emptied(w) == disk[w].dir # None /\ disk' = [disk EXCEPT ![w] = NoDir] /\ UNCHANGED made /\ DiskOnly

\* A path that nobody reads again, of a Worktree that failed, was orphaned or disposed of,
\* is left out.
OutsideAction ==
  \E w \in Worktree :
    row[w].state \in {"None", "Planned", "Ready"} /\ (Edit(w) \/ Occupied(w) \/ Emptied(w))

\* Everything in memory is gone; a removal may have happened and not its commit.  No
\* start of the Daemon and no repeated command takes a provision up again.  A crash of a
\* Daemon that has nothing in memory changes nothing and is left out.
Crash ==
  /\ OpsUnderWay > 0 /\ Outside(2)
  /\ plan' = NoPlan
  /\ prov' = [w \in Worktree |-> IF prov[w].pc = "none" THEN NoProv ELSE CutOff]
  /\ insp' = NoInsp
  /\ \/ UNCHANGED dirVars
     \/ \E w \in Worktree : MayDispose(w) /\ Removed(w)
  /\ UNCHANGED <<trustRows, repoVars, challenge, attemptRows, row, shown>>

\* A verification for an Attempt that can no more be accepted is left out.
PlanBegins ==
  /\ OpFree
  /\ \E p \in Purpose, v \in Version :
       /\ p = "verify" => FreshAttempt # {}
       /\ PlanStart(p, v)
  /\ UNCHANGED wtVars

Revoke ==
  \E v \in Version, choiceGiven \in BOOLEAN :
    RevokeTrust(v, MayRun(v), choiceGiven) /\ UNCHANGED wtVars

AcceptAction ==
  \/ \E v \in Version, a \in Attempt, w \in Worktree :
       AcceptPlanned(v, a, w) \/ AcceptContinue(v, a, w)
  \/ VerificationRefused

Next ==
  \/ TrustAction /\ UNCHANGED wtVars
  \/ PlanBegins
  \/ Revoke
  \/ AcceptAction
  \/ AttemptAction
  \/ ProvisionAction
  \/ InspectionAction
  \/ OutsideAction
  \/ Crash

Spec == Init /\ [][Next]_vars

-----------------------------------------------------------------------------
(* Properties.                                                              *)

\* A Worktree that an Attempt waits for, runs in, or may still have a process
\* in, is not disposed of, though its idleness was read many awaits earlier
\* (dispose, disposeLifecycleFacts).
BusyNotDisposed ==
  \A a \in Attempt :
    attempt[a] \in {"Queued", "Live", "Uncertain"} => row[bound[a]].state # "Disposed"

\* An Attempt that waits was not left behind by a provision that ended: its Worktree is
\* ready for it, or is being provisioned, unless a crash cut the provision off or the
\* grant was revoked during it (commitProvisioned, commitProvisionFailure,
\* #failQueuedAttempt).  Those two may leave it waiting for ever.
QueuedIsServed ==
  \A a \in Attempt :
    attempt[a] = "Queued" =>
      LET w == bound[a]
      IN \/ row[w].state = "Ready" /\ row[w].role = "Active"
         \/ /\ row[w].state = "Planned"
            /\ prov[w].pc # "none" \/ trust[row[w].trust] = "Revoked"

\* A Worktree is declared Ready only while the directory at its path is the one
\* provisioned, linked to the Repository the user confirmed, on its branch and at
\* its base commit, under an Active grant (#provisionAndCommit, verify).
ReadyIsAsPlanned ==
  [][\A w \in Worktree :
       row[w].state # "Ready" /\ row'[w].state = "Ready" =>
         /\ Active(row[w].trust)
         /\ disk[w].dir = row'[w].dir /\ disk[w].repo = workspace[row[w].trust]
         /\ disk[w].branch /\ ~disk[w].ahead
         /\ root = confirmed[row[w].trust]]_vars

\* What the Daemon removes is the directory it made Ready, holds no uncommitted
\* work, and belongs to no Attempt that may use it (dispose).
RemovalSafe ==
  \A r \in destroyed : r.dir = row[r.w].dir /\ ~r.dirty /\ r.users = {}

\* A dispose hurts nobody: the row keeps no Attempt from running, the directory was the
\* Daemon's own, unused and without work of the user (dispose, WorktreeDisposer).
DisposeSafe == BusyNotDisposed /\ RemovalSafe

\* After a revocation nothing new begins under that grant: no Attempt is
\* accepted, no Worktree becomes Ready, none is disposed of (context, #workspace).
RevokedIsInert ==
  [][\A v \in Version : trust[v] = "Revoked" =>
       /\ trust'[v] = "Revoked"
       /\ \A w \in Worktree : row[w].trust = v /\ row'[w] # row[w] => FALSE
       /\ \A a \in Attempt : attempt[a] = "none" /\ attempt'[a] # "none" =>
                               row'[bound'[a]].trust # v]_vars
================================================================================
