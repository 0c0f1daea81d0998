---------------------------- MODULE RepositoryTrust ----------------------------
(***************************************************************************)
(* Repository Trust for one root path: the candidate a client prepares,    *)
(* the challenge that binds it, the grants (one live version at a time,    *)
(* each with a Workspace of its own once Active), revocation, and the      *)
(* restricted Git plans that read the Repository over several awaits while *)
(* the outside may replace what lies on disk.                              *)
(*                                                                         *)
(* A directory's identity (device and inode) is a number; one that has not *)
(* been seen yet has the next.  What git prints about HEAD, refs and   *)
(* the default base is reduced to the identity of the Repository it was    *)
(* read from.  Worktrees supplies the Attempts that a revocation asks      *)
(* about and the specification these actions are part of.                  *)
(***************************************************************************)
EXTENDS Integers, Lifecycle

CONSTANTS
  MaxVersion,   \* bound: grants of the root
  MaxId,        \* bound: directory identities that may ever exist
  MaxChanges    \* bound: what the outside does: changes to the disk, crashes, by weight

ASSUME TrustBounds == MaxVersion \in Nat \ {0} /\ MaxId \in Nat \ {0, 1} /\ MaxChanges \in Nat

Version == 1 .. MaxVersion
Id == 1 .. MaxId
NoId == 0

VARIABLES
  trust,        \* RepositoryTrustState of a version; "Untrusted" is no row
  confirmed,    \* the root identity a version was confirmed for
  workspace,    \* common Git directory frozen in a version's Workspace, NoId before
  headOf,       \* the Repository its frozen HEAD and refs were read from
  \* disk
  root, common, \* the root directory and its common Git directory now
  usedIds,      \* identities given out so far
  changes,      \* what the outside has done so far, by weight
  owned,        \* history: the <<root, common>> pairs that have been on disk
  challenge,    \* the root identity an open challenge binds, NoId when there is none
  \* Daemon memory
  plan          \* the Git plan under way (bound: one at a time)

trustRows == <<trust, confirmed, workspace, headOf>>
repoVars  == <<root, common, usedIds, owned>>
diskVars  == <<repoVars, changes>>
trustVars == <<trustRows, diskVars, challenge, plan>>

\* Who runs the plan: validateAndActivate, inspectRepository, #verifyBaseCommit.
Purpose == {"activate", "inspect", "verify"}
PlanStep == {"none", "root", "common", "refs", "again", "common again", "object", "settle"}
PlanResult == {"pending", "ok", "failed", "root-mismatch", "identity-drift"}
\* putBack is history: a .git that was there before came back while the plan ran.
NoPlan == [purpose |-> "activate", pc |-> "none", version |-> 0, common |-> NoId, refs |-> NoId,
           result |-> "pending", putBack |-> FALSE]

TrustTypeOK ==
  /\ trust \in [Version -> TrustState]
  /\ confirmed \in [Version -> Id \union {NoId}]
  /\ workspace \in [Version -> Id \union {NoId}]
  /\ headOf \in [Version -> Id \union {NoId}]
  /\ root \in Id /\ common \in Id /\ usedIds \in Id /\ changes \in 0 .. MaxChanges
  /\ owned \in SUBSET (Id \X Id)
  /\ challenge \in Id \union {NoId}
  /\ plan \in [purpose : Purpose, pc : PlanStep, version : Version \union {0},
               common : Id \union {NoId}, refs : Id \union {NoId}, result : PlanResult,
               putBack : BOOLEAN]

TrustInit ==
  /\ trust = [v \in Version |-> "Untrusted"]
  /\ confirmed = [v \in Version |-> NoId]
  /\ workspace = [v \in Version |-> NoId]
  /\ headOf = [v \in Version |-> NoId]
  /\ root = 1 /\ common = 1 /\ usedIds = 1 /\ owned = {<<1, 1>>} /\ changes = 0
  /\ challenge = NoId
  /\ plan = NoPlan

\* liveTrustForRoot: the grants that are not Revoked.
LiveVersions == {v \in Version : trust[v] \in {"PendingValidation", "Active"}}
\* MAX(trust_version) + 1.
NextVersion == {v \in Version : trust[v] = "Untrusted" /\ \A u \in 1 .. (v - 1) : trust[u] # "Untrusted"}
Active(v) == trust[v] = "Active"

-----------------------------------------------------------------------------
(* Granting.                                                                *)

\* prepareCandidate reads path and identity, whenever the client asks: what it
\* holds is an identity the root has had.
Candidates == {pair[1] : pair \in owned}
\* Main has the Daemon bind the candidate the Renderer names, and remembers the same
\* one as the context of the challenge.
Remembered(candidate) == challenge' = candidate
\* A challenge no further grant could use up is left out.
IssueTrustChallenge ==
  /\ NextVersion # {}
  /\ \E candidate \in Candidates : Remembered(candidate)
  /\ UNCHANGED <<trustRows, diskVars, plan>>

\* restatCandidate: the root is still the directory the receipt names.
Restated(id) == root = id

\* requestConfirmation, after the user agreed: Main signs the challenge it fetched and
\* sends the candidate it remembers; a context is used once.
ConfirmationSent == challenge # NoId

\* createPendingTrust: no live grant of the root, and the next version of it.
CreatePendingTrust(id) ==
  /\ LiveVersions = {}
  /\ \E v \in NextVersion :
       /\ trust' = [trust EXCEPT ![v] = "PendingValidation"]
       /\ confirmed' = [confirmed EXCEPT ![v] = id]

\* confirmTrust: the challenge is used up, the root checked and the row made in
\* one transaction; a refusal rolls all of it back.
ConfirmTrust ==
  /\ ConfirmationSent /\ Restated(challenge)
  /\ CreatePendingTrust(challenge)
  /\ challenge' = NoId
  /\ UNCHANGED <<workspace, headOf, diskVars, plan>>

\* markRevoked.
Revoked(v) == [trust EXCEPT ![v] = "Revoked"]
Revocable(v) == TrustCan(trust[v], "Revoked")

\* revokeTrust: a choice is required when Attempts of the grant may still run.
\* affected is listNonTerminalAttemptsForTrust.
RevokeTrust(v, affected, choiceGiven) ==
  /\ Revocable(v)
  /\ affected # {} => choiceGiven
  /\ trust' = Revoked(v)
  /\ UNCHANGED <<confirmed, workspace, headOf, diskVars, challenge, plan>>

-----------------------------------------------------------------------------
(* The restricted Git plan: the root's identity, the common directory's,    *)
(* HEAD and refs, the commit object of a launch, and both identities again. *)

\* validateAndActivate is serialised per grant and needs a Pending one; the
\* other two start under an Active grant.
PlanStart(p, v) ==
  /\ plan.pc = "none"
  /\ trust[v] = IF p = "activate" THEN "PendingValidation" ELSE "Active"
  /\ plan' = [NoPlan EXCEPT !.purpose = p, !.pc = "root", !.version = v]
  /\ UNCHANGED <<trustRows, diskVars, challenge>>

To(step) == plan' = [plan EXCEPT !.pc = step]
Settled(res) == plan' = [plan EXCEPT !.pc = "settle", !.result = res]
\* runGit: a call that exits with an error, times out or prints too much.
GitFails == Settled("failed")
AtStep(step) == plan.pc = step /\ UNCHANGED <<trustRows, diskVars, challenge>>

\* recheckCandidateIdentity before any Git call.
RootHolds == root = confirmed[plan.version]
RootChecked ==
  AtStep("root") /\ IF RootHolds THEN To("common") ELSE Settled("identity-drift")

\* Version, bare and top-level checks, then the common Git directory.  A
\* Repository that is bare, damaged or slow fails the plan; one whose top level
\* lies elsewhere is a mismatch; a directory that cannot be statted is drift.
CommonRead ==
  /\ AtStep("common")
  /\ \/ plan' = [plan EXCEPT !.pc = "refs", !.common = common]
     \/ GitFails
     \/ Settled("root-mismatch") \/ Settled("identity-drift")

\* HEAD, the refs and origin/HEAD, from whatever lies under the root by now.
RefsRead ==
  /\ AtStep("refs")
  /\ \/ plan' = [plan EXCEPT !.pc = "again", !.refs = common]
     \/ GitFails

\* recheckCandidateIdentity after the plan.
RootRechecked ==
  /\ AtStep("again")
  /\ IF RootHolds THEN To("common again") ELSE Settled("identity-drift")

\* Bug: the root alone is looked at again.
BugCommonHolds == TRUE

\* Then the common directory, an await later; inspectValidatedRepository also compares
\* it with the one its Workspace froze.
CommonHolds == common = plan.common
MatchesWorkspace == plan.purpose # "activate" => plan.common = workspace[plan.version]

CommonRechecked ==
  /\ AtStep("common again")
  /\ IF ~(CommonHolds /\ MatchesWorkspace) THEN Settled("identity-drift")
     ELSE IF plan.purpose = "verify" THEN To("object") ELSE Settled("ok")

\* verifyCommitObject: the SHA names a commit object, and the identities hold
\* after that query too.
ObjectVerified ==
  /\ AtStep("object")
  /\ \/ Settled(IF RootHolds /\ common = workspace[plan.version] THEN "ok" ELSE "identity-drift")
     \/ GitFails

-----------------------------------------------------------------------------
(* What the outcome of a plan does.                                         *)

PlanDone(p) == plan.pc = "settle" /\ plan.purpose = p /\ plan' = NoPlan
Drifted == plan.result \in {"root-mismatch", "identity-drift"}

\* activateWithWorkspace freezes what the plan has read.
ActivateWithWorkspace(v) ==
  /\ trust' = [trust EXCEPT ![v] = "Active"]
  /\ workspace' = [workspace EXCEPT ![v] = plan.common]
  /\ headOf' = [headOf EXCEPT ![v] = plan.refs]

\* recordValidationFailure: the row keeps the failure, and the grant stays Pending.
RecordValidationFailure == UNCHANGED <<trust, workspace, headOf>>

\* The transaction of validateAndActivate; the grant may have been revoked.  Drift
\* and mismatch revoke; another failure leaves it Pending for the next attempt.
ValidationCommit ==
  LET v == plan.version
      pending == trust[v] = "PendingValidation"
  IN /\ PlanDone("activate")
     /\ CASE pending /\ plan.result = "ok" -> ActivateWithWorkspace(v)
          [] pending /\ Drifted -> trust' = Revoked(v) /\ UNCHANGED <<workspace, headOf>>
          [] pending /\ plan.result = "failed" -> RecordValidationFailure
          [] OTHER -> UNCHANGED <<trust, workspace, headOf>>
     /\ UNCHANGED <<confirmed, diskVars, challenge>>

\* inspectRepository: drift of a bound identity revokes, if the grant still can be.
InspectionEnds ==
  LET v == plan.version
  IN /\ PlanDone("inspect")
     /\ trust' = IF Drifted /\ Revocable(v) THEN Revoked(v) ELSE trust
     /\ UNCHANGED <<confirmed, workspace, headOf, diskVars, challenge>>

-----------------------------------------------------------------------------
(* The outside: a challenge expires, the root or its .git is replaced.      *)

ExpireChallenge ==
  /\ challenge # NoId /\ challenge' = NoId
  /\ UNCHANGED <<trustRows, diskVars, plan>>

\* The bound on what the outside does: an exchange of the .git alone weighs one, every
\* other act and a crash two.  Once the last grant is revoked nothing that is read has an
\* effect, and what the outside does then is left out.
Outside(weight) ==
  /\ LiveVersions \union NextVersion # {}
  /\ changes + weight <= MaxChanges /\ changes' = changes + weight

\* The root is r and its .git is c from now on: a new directory, or one that was moved
\* away before and is put back.
Before(id) == id <= usedIds
ReplaceRepository(r, c) ==
  /\ Outside(IF r = root THEN 1 ELSE 2)
  /\ <<r, c>> # <<root, common>>
  /\ \A id \in {r, c} : Before(id) \/ id = usedIds + 1
  /\ usedIds' = IF Before(r) /\ Before(c) THEN usedIds ELSE usedIds + 1
  /\ root' = r /\ common' = c
  /\ owned' = owned \union {<<r, c>>}
  /\ plan' = IF plan.pc # "none" /\ c # common /\ Before(c)
             THEN [plan EXCEPT !.putBack = TRUE] ELSE plan
  /\ UNCHANGED <<trustRows, challenge>>

PlanAction ==
  \/ RootChecked \/ CommonRead \/ RefsRead \/ RootRechecked \/ CommonRechecked
  \/ ObjectVerified

TrustAction ==
  \/ IssueTrustChallenge \/ ConfirmTrust \/ ExpireChallenge
  \/ PlanAction \/ ValidationCommit \/ InspectionEnds
  \/ \E r, c \in Id : ReplaceRepository(r, c)

-----------------------------------------------------------------------------
(* Properties.                                                              *)

\* What a grant freezes when it becomes Active is one Repository, and the one of the
\* root the user confirmed: root, common Git directory, HEAD and refs are not taken from
\* two, however often the root or its .git is replaced during the plan, as long as no
\* .git comes back while the plan runs (validateRepository).
BoundToConfirmed ==
  [][\A v \in Version : workspace[v] = NoId /\ workspace'[v] # NoId /\ ~plan.putBack =>
       /\ headOf'[v] = workspace'[v]
       /\ <<confirmed[v], workspace'[v]>> \in owned]_trustVars
================================================================================
