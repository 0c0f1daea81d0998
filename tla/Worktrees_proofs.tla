---------------------------- MODULE Worktrees_proofs ----------------------------
(***************************************************************************)
(* Proofs about Worktrees and the Trust it is planned under, for any       *)
(* number of grants, Attempts, Worktrees, directories, Git operations and  *)
(* acts of the outside.                                                    *)
(*                                                                         *)
(* The first part is about RepositoryTrust: what a Git plan has read so    *)
(* far is from one Repository unless the recheck will notice, because the  *)
(* identity of the common directory only moves forward while none is put   *)
(* back.                                                                   *)
(* The second part is about rows, Attempts and what is under way: a row's  *)
(* version follows from its state and role, an Attempt keeps its Worktree, *)
(* at most one Attempt of a grant waits or runs, and a provision or an     *)
(* inspection under way holds the row in its state.                        *)
(***************************************************************************)
EXTENDS Worktrees, TLAPS

USE DEF vars, trustVars, trustRows, repoVars, diskVars, wtVars, attemptRows, dirVars, opVars

-----------------------------------------------------------------------------
(* Trust and the Git plans.                                                 *)

\* While no .git comes back, a plan reads identities in the order the disk took them, and
\* is settled well only for one Repository of the confirmed root.
OneReading ==
  /\ plan.pc = "refs" => plan.common <= common
  /\ plan.pc \in {"again", "common again"} => plan.common <= plan.refs /\ plan.refs <= common
  /\ plan.pc = "common again" /\ plan.common = common =>
       <<confirmed[plan.version], common>> \in owned
  /\ plan.pc = "settle" /\ plan.purpose = "activate" /\ plan.result = "ok" =>
       plan.refs = plan.common /\ <<confirmed[plan.version], plan.common>> \in owned

\* A plan belongs to a grant that exists.
PlanInv ==
  /\ common <= usedIds /\ <<root, common>> \in owned
  /\ \A v \in Version : workspace[v] # NoId => trust[v] # "Untrusted"
  /\ plan.pc # "none" => plan.version \in Version /\ trust[plan.version] # "Untrusted"
  /\ plan.pc = "object" => plan.purpose = "verify"
  /\ ~plan.putBack => OneReading

TrustInv == TrustTypeOK /\ PlanInv

\* What the steps of Worktrees do beside Trust: a plan ends, the outside is counted.
Elsewhere ==
  /\ UNCHANGED <<trustRows, repoVars, challenge>>
  /\ changes' = changes \/ Outside(2)
  /\ plan' = plan \/ plan' = NoPlan

TrustMove ==
  \/ TrustAction
  \/ \E p \in Purpose, v \in Version : PlanStart(p, v)
  \/ \E v \in Version, choiceGiven \in BOOLEAN : RevokeTrust(v, MayRun(v), choiceGiven)
  \/ Elsewhere

LEMMA TrustStarts == TrustInit => TrustInv
<1> SUFFICES ASSUME TrustInit PROVE TrustInv
  OBVIOUS
<1>1. 1 \in Id /\ MaxChanges \in Nat
  BY TrustBounds DEF Id
<1>2. TrustTypeOK
  BY <1>1 DEF TrustInit, TrustTypeOK, TrustState, NoPlan, Purpose, PlanStep, PlanResult
<1> QED
  BY <1>2 DEF TrustInit, TrustInv, PlanInv, OneReading, NoPlan

LEMMA NoPlanTyped ==
  NoPlan \in [purpose : Purpose, pc : PlanStep, version : Version \union {0},
              common : Id \union {NoId}, refs : Id \union {NoId}, result : PlanResult,
              putBack : BOOLEAN]
BY DEF NoPlan, Purpose, PlanStep, PlanResult

LEMMA ElsewhereKept == ASSUME TrustInv, Elsewhere PROVE TrustInv'
<1>1. changes' \in 0 .. MaxChanges
  BY TrustBounds DEF TrustInv, TrustTypeOK, Elsewhere, Outside
<1>2. TrustTypeOK'
  BY <1>1, NoPlanTyped DEF TrustInv, TrustTypeOK, Elsewhere
<1>3. PlanInv'
  <2>1. CASE plan' = plan
    BY <2>1 DEF TrustInv, PlanInv, OneReading, Elsewhere
  <2>2. CASE plan' = NoPlan
    <3>1. plan'.pc = "none"
      BY <2>2 DEF NoPlan
    <3> QED
      BY <3>1 DEF TrustInv, PlanInv, OneReading, Elsewhere
  <2> QED
    BY <2>1, <2>2 DEF Elsewhere
<1> QED
  BY <1>2, <1>3 DEF TrustInv

\* What the reads of the plan make of it.
PlanType == [purpose : Purpose, pc : PlanStep, version : Version \union {0},
             common : Id \union {NoId}, refs : Id \union {NoId}, result : PlanResult,
             putBack : BOOLEAN]
LEMMA PlanTyped ==
  ASSUME NEW p \in PlanType
  PROVE  /\ \A s \in PlanStep : [p EXCEPT !.pc = s] \in PlanType
         /\ \A c \in Id : /\ [p EXCEPT !.pc = "refs", !.common = c] \in PlanType
                         /\ [p EXCEPT !.pc = "again", !.refs = c] \in PlanType
         /\ \A res \in PlanResult : [p EXCEPT !.pc = "settle", !.result = res] \in PlanType
<1>1. {"refs", "again", "settle"} \subseteq PlanStep
  BY DEF PlanStep
<1> QED
  BY <1>1 DEF PlanType

\* A step of the plan that reads the disk and writes nothing but the plan.
LEMMA PlanReads == ASSUME TrustInv, PlanAction PROVE TrustInv'
<1> USE DEF Settled, To
<1>0. /\ UNCHANGED <<trustRows, diskVars, challenge>> /\ TrustTypeOK /\ PlanInv
      /\ common \in Nat
  <2>1. UNCHANGED <<trustRows, diskVars, challenge>>
    BY DEF PlanAction, RootChecked, CommonRead, RefsRead, RootRechecked, CommonRechecked,
           ObjectVerified, AtStep
  <2> QED
    BY <2>1 DEF TrustInv, TrustTypeOK, Id
<1>1. plan' \in PlanType
  <2>1. plan \in PlanType /\ common \in Id
    BY <1>0 DEF TrustTypeOK, PlanType
  <2>2. {"ok", "failed", "root-mismatch", "identity-drift"} \subseteq PlanResult
        /\ {"common", "common again", "object"} \subseteq PlanStep
    BY DEF PlanResult, PlanStep
  <2>3. \/ \E s \in {"common", "common again", "object"} : plan' = [plan EXCEPT !.pc = s]
        \/ plan' = [plan EXCEPT !.pc = "refs", !.common = common]
        \/ plan' = [plan EXCEPT !.pc = "again", !.refs = common]
        \/ \E res \in {"ok", "failed", "root-mismatch", "identity-drift"} : Settled(res)
    <3>1. CASE RootChecked
      BY <3>1 DEF RootChecked
    <3>2. CASE CommonRead
      BY <3>2 DEF CommonRead, GitFails
    <3>3. CASE RefsRead
      BY <3>3 DEF RefsRead, GitFails
    <3>4. CASE RootRechecked
      BY <3>4 DEF RootRechecked
    <3>5. CASE CommonRechecked
      BY <3>5 DEF CommonRechecked
    <3>6. CASE ObjectVerified
      BY <3>6 DEF ObjectVerified, GitFails
    <3> QED
      BY <3>1, <3>2, <3>3, <3>4, <3>5, <3>6 DEF PlanAction
  <2>4. CASE \E s \in {"common", "common again", "object"} : plan' = [plan EXCEPT !.pc = s]
    BY <2>1, <2>2, <2>4, PlanTyped
  <2>5. CASE plan' = [plan EXCEPT !.pc = "refs", !.common = common]
    BY <2>1, <2>2, <2>5, PlanTyped
  <2>6. CASE plan' = [plan EXCEPT !.pc = "again", !.refs = common]
    BY <2>1, <2>2, <2>6, PlanTyped
  <2>7. CASE \E res \in {"ok", "failed", "root-mismatch", "identity-drift"} : Settled(res)
    <3>1. PICK res \in {"ok", "failed", "root-mismatch", "identity-drift"} :
            plan' = [plan EXCEPT !.pc = "settle", !.result = res]
      BY <2>7
    <3> QED
      BY <2>1, <2>2, <3>1, PlanTyped
  <2> QED
    BY <2>3, <2>4, <2>5, <2>6, <2>7
<1>2. TrustTypeOK'
  BY <1>0, <1>1 DEF TrustTypeOK, PlanType
<1>3. plan'.version = plan.version /\ plan'.putBack = plan.putBack /\ plan.pc # "none"
  BY <1>0 DEF PlanAction, RootChecked, CommonRead, RefsRead, RootRechecked, CommonRechecked,
              ObjectVerified, AtStep, GitFails, TrustTypeOK
<1>4. plan'.pc = "object" => plan'.purpose = "verify"
  BY <1>0 DEF PlanAction, RootChecked, CommonRead, RefsRead, RootRechecked, CommonRechecked,
              ObjectVerified, AtStep, GitFails, TrustTypeOK
<1>5. ASSUME OneReading PROVE OneReading'
  <2>1. CASE RootChecked
    BY <1>0, <2>1 DEF RootChecked, AtStep, OneReading, TrustTypeOK
  <2>2. CASE CommonRead
    <3>1. CASE plan' = [plan EXCEPT !.pc = "refs", !.common = common]
      <4>1. plan'.pc = "refs" /\ plan'.common = common
        BY <1>0, <3>1 DEF TrustTypeOK
      <4> QED
        BY <1>0, <4>1 DEF OneReading
    <3>2. CASE \E res \in PlanResult \ {"ok"} : Settled(res)
      BY <1>0, <3>2 DEF OneReading, TrustTypeOK
    <3> QED
      BY <2>2, <3>1, <3>2 DEF CommonRead, GitFails, PlanResult
  <2>3. CASE RefsRead
    <3>1. CASE plan' = [plan EXCEPT !.pc = "again", !.refs = common]
      <4>1. /\ plan'.pc = "again" /\ plan'.refs = common /\ plan'.common = plan.common
            /\ plan.pc = "refs"
        BY <1>0, <2>3, <3>1 DEF RefsRead, AtStep, TrustTypeOK
      <4> QED
        BY <1>0, <1>5, <4>1 DEF OneReading
    <3>2. CASE Settled("failed")
      BY <1>0, <3>2 DEF OneReading, TrustTypeOK
    <3> QED
      BY <2>3, <3>1, <3>2 DEF RefsRead, GitFails
  <2>4. CASE RootRechecked
    <3>1. CASE RootHolds
      <4>1. /\ plan'.pc = "common again" /\ plan'.common = plan.common /\ plan'.refs = plan.refs
            /\ plan.pc = "again"
        BY <1>0, <2>4, <3>1 DEF RootRechecked, AtStep, TrustTypeOK
      <4>2. root = confirmed[plan.version] /\ <<root, common>> \in owned
        BY <1>0, <3>1 DEF RootHolds, PlanInv
      <4> QED
        BY <1>0, <1>3, <1>5, <4>1, <4>2 DEF OneReading
    <3>2. CASE ~RootHolds
      BY <1>0, <2>4, <3>2 DEF RootRechecked, AtStep, OneReading, TrustTypeOK
    <3> QED
      BY <3>1, <3>2
  <2>5. CASE CommonRechecked
    <3>1. plan.pc = "common again"
      BY <2>5 DEF CommonRechecked, AtStep
    <3>2. CASE CommonHolds /\ MatchesWorkspace
      <4>1. plan.common \in Nat /\ plan.refs \in Nat
        BY <1>0 DEF TrustTypeOK, Id, NoId
      <4>0. plan.common = common /\ plan.common <= plan.refs /\ plan.refs <= common
        BY <1>5, <3>1, <3>2 DEF CommonHolds, OneReading
      <4>2. plan.refs = plan.common /\ <<confirmed[plan.version], plan.common>> \in owned
        <5>1. plan.refs = plan.common
          BY <1>0, <4>0, <4>1
        <5>2. <<confirmed[plan.version], common>> \in owned
          BY <1>5, <3>1, <4>0 DEF OneReading
        <5> QED
          BY <4>0, <5>1, <5>2
      <4>3. plan'.pc \in {"object", "settle"} /\ plan'.common = plan.common /\ plan'.refs = plan.refs
        BY <1>0, <2>5, <3>2 DEF CommonRechecked, TrustTypeOK
      <4> QED
        BY <1>0, <1>3, <4>2, <4>3 DEF OneReading
    <3>3. CASE ~(CommonHolds /\ MatchesWorkspace)
      BY <1>0, <2>5, <3>3 DEF CommonRechecked, OneReading, TrustTypeOK
    <3> QED
      BY <3>2, <3>3
  <2>6. CASE ObjectVerified
    BY <1>0, <2>6 DEF ObjectVerified, AtStep, GitFails, PlanInv, OneReading, TrustTypeOK
  <2> QED
    BY <2>1, <2>2, <2>3, <2>4, <2>5, <2>6 DEF PlanAction
<1>6. PlanInv'
  BY <1>0, <1>3, <1>4, <1>5 DEF PlanInv
<1> QED
  BY <1>2, <1>6 DEF TrustInv

\* A grant moves on, never back to "Untrusted", and the confirmed root stays.
LEMMA GrantMoves ==
  ASSUME TrustInv, UNCHANGED <<confirmed, diskVars>>,
         \/ UNCHANGED challenge
         \/ challenge' = NoId,
         trust' \in [Version -> TrustState],
         \A v \in Version : trust[v] # "Untrusted" => trust'[v] # "Untrusted",
         UNCHANGED <<workspace, headOf>>,
         plan' = plan \/ plan' = NoPlan
  PROVE  TrustInv'
<1>1. TrustTypeOK'
  BY NoPlanTyped DEF TrustInv, TrustTypeOK
<1>2. PlanInv'
  <2>1. CASE plan' = plan
    BY <2>1 DEF TrustInv, PlanInv, OneReading
  <2>2. CASE plan' = NoPlan
    <3>1. plan'.pc = "none"
      BY <2>2 DEF NoPlan
    <3> QED
      BY <3>1 DEF TrustInv, PlanInv, OneReading
  <2> QED
    BY <2>1, <2>2
<1> QED
  BY <1>1, <1>2 DEF TrustInv

LEMMA RevokedTyped ==
  ASSUME TrustInv, NEW v \in Version, trust' = Revoked(v)
  PROVE  /\ trust' \in [Version -> TrustState]
         /\ \A u \in Version : trust[u] # "Untrusted" => trust'[u] # "Untrusted"
BY DEF TrustInv, TrustTypeOK, Revoked, TrustState

LEMMA ValidationKept == ASSUME TrustInv, ValidationCommit PROVE TrustInv'
<1>1. /\ plan.version \in Version /\ plan' = NoPlan
      /\ UNCHANGED <<confirmed, diskVars, challenge>>
      /\ plan.pc = "settle" /\ plan.purpose = "activate"
  BY DEF TrustInv, PlanInv, ValidationCommit, PlanDone
<1>2. CASE trust[plan.version] = "PendingValidation" /\ plan.result = "ok"
  <2>1. ActivateWithWorkspace(plan.version)
    BY <1>2 DEF ValidationCommit, Drifted
  <2>2. TrustTypeOK'
    BY <1>1, <2>1, NoPlanTyped DEF TrustInv, TrustTypeOK, TrustState, ActivateWithWorkspace
  <2>3. PlanInv'
    BY <1>1, <2>1 DEF TrustInv, TrustTypeOK, PlanInv, OneReading, ActivateWithWorkspace, NoPlan
  <2> QED
    BY <2>2, <2>3 DEF TrustInv
<1>3. CASE /\ ~(trust[plan.version] = "PendingValidation" /\ plan.result = "ok")
           /\ trust' = Revoked(plan.version) /\ UNCHANGED <<workspace, headOf>>
  BY <1>1, <1>3, RevokedTyped, GrantMoves
<1>4. CASE UNCHANGED <<trust, workspace, headOf>>
  BY <1>1, <1>4, GrantMoves DEF TrustInv, TrustTypeOK
<1> QED
  BY <1>2, <1>3, <1>4 DEF ValidationCommit, RecordValidationFailure

LEMMA ReplacedKept ==
  ASSUME TrustInv, NEW r \in Id, NEW c \in Id, ReplaceRepository(r, c) PROVE TrustInv'
<1>1. /\ UNCHANGED <<trustRows, challenge>>
      /\ usedIds \in Nat /\ common \in Nat /\ r \in Nat /\ c \in Nat
      /\ r <= usedIds \/ r = usedIds + 1
      /\ c <= usedIds \/ c = usedIds + 1
      /\ usedIds' = IF r <= usedIds /\ c <= usedIds THEN usedIds ELSE usedIds + 1
      /\ root' = r /\ common' = c /\ owned' = owned \union {<<r, c>>}
      /\ changes' \in 0 .. MaxChanges
      /\ plan' = IF plan.pc # "none" /\ c # common /\ c <= usedIds
                 THEN [plan EXCEPT !.putBack = TRUE] ELSE plan
  BY TrustBounds DEF TrustInv, TrustTypeOK, ReplaceRepository, Before, Outside, Id
<1>2. usedIds' \in Id /\ common' <= usedIds'
  BY <1>1 DEF TrustInv, TrustTypeOK, Id
<1>3. /\ plan' \in PlanType /\ plan'.pc = plan.pc /\ plan'.version = plan.version
      /\ plan'.purpose = plan.purpose /\ plan'.result = plan.result
      /\ plan'.common = plan.common /\ plan'.refs = plan.refs
      /\ ~plan'.putBack => ~plan.putBack /\ (plan.pc = "none" \/ c = common \/ c = usedIds + 1)
  <2>1. plan \in PlanType
    BY DEF TrustInv, TrustTypeOK, PlanType
  <2> QED
    BY <1>1, <2>1 DEF PlanType
<1>4. TrustTypeOK'
  BY <1>1, <1>2, <1>3 DEF TrustInv, TrustTypeOK, PlanType
<1>5. plan.common \in Nat /\ plan.refs \in Nat /\ common <= usedIds
  BY DEF TrustInv, TrustTypeOK, PlanInv, Id, NoId
<1>6. ASSUME ~plan'.putBack PROVE OneReading'
  <2>1. OneReading
    BY <1>3, <1>6 DEF TrustInv, PlanInv
  <2>2. CASE plan.pc = "none"
    BY <1>3, <2>2 DEF OneReading
  <2>3. CASE c = common
    BY <1>1, <1>3, <2>1, <2>3 DEF OneReading
  <2>4. CASE c = usedIds + 1
    <3>1. common' = c /\ common < c
      BY <1>1, <1>5, <2>4
    <3>2. plan.common <= common => plan.common < c
      BY <1>1, <1>5, <3>1
    <3>3. plan.refs <= common => plan.refs <= c
      BY <1>1, <1>5, <3>1
    <3>4. plan.common <= plan.refs /\ plan.refs <= common => plan.common < c
      BY <1>1, <1>5, <3>1
    <3> QED
      <4>1. plan.pc = "refs" => plan.common <= c
        BY <1>1, <1>5, <2>1, <3>2 DEF OneReading
      <4>2. plan.pc \in {"again", "common again"} => /\ plan.common <= plan.refs /\ plan.refs <= c
                                                     /\ plan.common # c
        <5>1. plan.pc \in {"again", "common again"} => plan.common <= plan.refs /\ plan.refs <= common
          BY <2>1 DEF OneReading
        <5>2. plan.common < c => plan.common # c
          BY <1>1, <1>5
        <5> QED
          BY <3>3, <3>4, <5>1, <5>2
      <4>3. plan.pc = "settle" /\ plan.purpose = "activate" /\ plan.result = "ok" =>
              plan.refs = plan.common /\ <<confirmed[plan.version], plan.common>> \in owned'
        BY <1>1, <2>1 DEF OneReading
      <4> QED
        BY <1>1, <1>3, <3>1, <4>1, <4>2, <4>3 DEF OneReading
  <2> QED
    BY <1>3, <1>6, <2>2, <2>3, <2>4
<1>7. PlanInv'
  BY <1>1, <1>2, <1>3, <1>6 DEF TrustInv, PlanInv
<1> QED
  BY <1>4, <1>7 DEF TrustInv

LEMMA ConfirmKept == ASSUME TrustInv, ConfirmTrust PROVE TrustInv'
<1>1. PICK v \in Version :
        /\ trust[v] = "Untrusted" /\ trust' = [trust EXCEPT ![v] = "PendingValidation"]
        /\ confirmed' = [confirmed EXCEPT ![v] = challenge]
  BY DEF ConfirmTrust, CreatePendingTrust, NextVersion
<1>2. challenge' = NoId /\ UNCHANGED <<workspace, headOf, diskVars, plan>>
  BY DEF ConfirmTrust
<1>3. TrustTypeOK'
  BY <1>1, <1>2 DEF TrustInv, TrustTypeOK, TrustState
<1>4. plan.pc # "none" => plan.version \in Version /\ plan.version # v
  BY <1>1 DEF TrustInv, PlanInv
<1>5. plan.pc # "none" => /\ confirmed'[plan.version] = confirmed[plan.version]
                          /\ trust'[plan.version] = trust[plan.version]
  BY <1>1, <1>4 DEF TrustInv, TrustTypeOK
<1>6. workspace[v] = NoId /\ \A u \in Version : u # v => /\ confirmed'[u] = confirmed[u]
                                                       /\ trust'[u] = trust[u]
  BY <1>1 DEF TrustInv, PlanInv, TrustTypeOK
<1>7. PlanInv'
  BY <1>2, <1>4, <1>5, <1>6 DEF TrustInv, PlanInv, OneReading
<1> QED
  BY <1>3, <1>7 DEF TrustInv

LEMMA PlanStartKept ==
  ASSUME TrustInv, NEW p \in Purpose, NEW v \in Version, PlanStart(p, v) PROVE TrustInv'
<1>1. /\ plan' = [NoPlan EXCEPT !.purpose = p, !.pc = "root", !.version = v]
      /\ UNCHANGED <<trustRows, diskVars, challenge>> /\ trust[v] # "Untrusted"
  BY DEF PlanStart
<1>2. /\ plan'.pc = "root" /\ plan'.version = v
      /\ plan' \in PlanType
  BY <1>1 DEF NoPlan, PlanStep, PlanResult, PlanType
<1> QED
  BY <1>1, <1>2 DEF TrustInv, TrustTypeOK, PlanInv, OneReading, PlanType

LEMMA TrustKept == ASSUME TrustInv, TrustMove PROVE TrustInv'
<1>1. CASE IssueTrustChallenge
  <2>1. challenge' \in Id /\ UNCHANGED <<trustRows, diskVars, plan>>
    BY <1>1 DEF IssueTrustChallenge, Candidates, Remembered, TrustInv, TrustTypeOK
  <2> QED
    BY <2>1 DEF TrustInv, TrustTypeOK, PlanInv, OneReading
<1>2. CASE ExpireChallenge
  BY <1>2, GrantMoves DEF ExpireChallenge, TrustInv, TrustTypeOK
<1>3. CASE InspectionEnds
  <2>1. /\ plan.version \in Version /\ plan' = NoPlan
        /\ UNCHANGED <<confirmed, workspace, headOf, diskVars, challenge>>
        /\ trust' = Revoked(plan.version) \/ trust' = trust
    BY <1>3 DEF InspectionEnds, PlanDone, TrustInv, PlanInv
  <2>2. /\ trust' \in [Version -> TrustState]
        /\ \A v \in Version : trust[v] # "Untrusted" => trust'[v] # "Untrusted"
    BY <2>1, RevokedTyped DEF TrustInv, TrustTypeOK
  <2> QED
    BY <2>1, <2>2, GrantMoves
<1>4. ASSUME NEW v \in Version, NEW choiceGiven \in BOOLEAN,
             RevokeTrust(v, MayRun(v), choiceGiven)
      PROVE  TrustInv'
  BY <1>4, RevokedTyped, GrantMoves DEF RevokeTrust
<1> QED
  BY <1>1, <1>2, <1>3, <1>4, ElsewhereKept, PlanReads, ValidationKept, ReplacedKept,
     ConfirmKept, PlanStartKept
     DEF TrustMove, TrustAction

\* A grant that is Active or Revoked stays that, or is revoked.
LEMMA GrantStays ==
  ASSUME TrustInv, TrustMove, NEW v \in Version, trust[v] \in {"Active", "Revoked"}
  PROVE  trust'[v] = trust[v] \/ trust'[v] = "Revoked"
<1>1. trust \in [Version -> TrustState]
  BY DEF TrustInv, TrustTypeOK
<1>2. CASE UNCHANGED trust
  BY <1>2
<1>3. CASE ConfirmTrust
  BY <1>1, <1>3 DEF ConfirmTrust, CreatePendingTrust, NextVersion
<1>4. CASE \E u \in Version : trust' = Revoked(u)
  BY <1>1, <1>4 DEF Revoked
<1>5. CASE ValidationCommit
  <2>1. /\ \/ trust' = Revoked(plan.version) \/ trust' = trust
           \/ trust[plan.version] = "PendingValidation" /\ ActivateWithWorkspace(plan.version)
        /\ plan.version \in Version
    BY <1>5 DEF ValidationCommit, PlanDone, RecordValidationFailure, TrustInv, PlanInv
  <2> QED
    BY <1>1, <2>1 DEF Revoked, ActivateWithWorkspace
<1>6. CASE InspectionEnds
  <2>1. plan.version \in Version /\ (trust' = Revoked(plan.version) \/ trust' = trust)
    BY <1>6 DEF InspectionEnds, PlanDone, TrustInv, PlanInv
  <2> QED
    BY <1>1, <2>1 DEF Revoked
<1> QED
  BY <1>2, <1>3, <1>4, <1>5, <1>6
     DEF TrustMove, TrustAction, IssueTrustChallenge, ExpireChallenge, PlanAction, RootChecked,
         CommonRead, RefsRead, RootRechecked, CommonRechecked, ObjectVerified, AtStep, ReplaceRepository,
         PlanStart, RevokeTrust, Elsewhere

-----------------------------------------------------------------------------
(* Rows and Attempts.                                                       *)

RowType == [state : WorktreeState \union {"None"}, role : WorktreeRole, version : 0 .. 4,
            dir : Dir \union {None}, trust : Version \union {0}, owner : Attempt \union {None}]

\* The life of a row: how often it was written, and that a Ready one has its directory.
RowShape(r) ==
  \/ r = NoRow
  \/ r.state = "Planned" /\ r.role = "Pending" /\ r.version = 1
  \/ r.state \in {"Failed", "Orphaned"} /\ r.role = "Pending" /\ r.version = 2
  \/ r.state = "Ready" /\ r.role = "Active" /\ r.version = 2 /\ r.dir # None
  \/ r.state = "Ready" /\ r.role = "Historical" /\ r.version \in {2, 3} /\ r.dir # None
  \/ r.state = "Disposed" /\ r.role = "Historical" /\ r.version \in {3, 4}

\* A row belongs to a grant and to the Attempt it was planned for, which alone is bound
\* to it until it is Ready.
RowInv ==
  \A w \in Worktree :
    /\ RowShape(row[w])
    /\ row[w].state # "None" =>
         /\ row[w].trust \in Version /\ row[w].owner \in Attempt
         /\ attempt[row[w].owner] # "none" /\ bound[row[w].owner] = w
    /\ row[w].state = "Planned" => \A a \in Attempt : bound[a] = w => a = row[w].owner

\* An accepted Attempt has a Worktree with a row, and no other has one.
BindInv ==
  \A a \in Attempt :
    /\ attempt[a] # "none" => bound[a] # None
    /\ bound[a] # None => attempt[a] # "none" /\ row[bound[a]].state # "None"

\* At most one Attempt of a grant waits or runs.
OneMayRun ==
  \A a, b \in Nonterminal : row[bound[a]].trust = row[bound[b]].trust => a = b

\* An Attempt that waits has a Worktree that is planned, or ready for it.
QueuedKeepsWorktree ==
  \A a \in Attempt :
    attempt[a] = "Queued" =>
      \/ row[bound[a]].state = "Planned"
      \/ row[bound[a]].state = "Ready" /\ row[bound[a]].role = "Active"

CoreInv ==
  /\ attempt \in [Attempt -> AttemptPhase] /\ bound \in [Attempt -> Worktree \union {None}]
  /\ row \in [Worktree -> RowType]
  /\ RowInv /\ BindInv /\ OneMayRun /\ QueuedKeepsWorktree /\ BusyNotDisposed

LEMMA Bounds ==
  /\ NAttempt \in Nat \ {0} /\ NWorktree \in Nat \ {0} /\ MaxDirs \in Nat \ {0}
  /\ None \notin Worktree /\ None \notin Attempt /\ None \notin Dir /\ 0 \notin Version
BY WorktreeBounds, TrustBounds DEF None, Worktree, Attempt, Dir, Version

LEMMA NoRowTyped == NoRow \in RowType
BY DEF NoRow, RowType, WorktreeRole

\* Parts of a row may be written with what they may hold.
LEMMA RowPlanned ==
  ASSUME NEW r \in RowType, NEW s \in WorktreeState \union {"None"}, NEW n \in 0 .. 4,
         NEW v \in Version, NEW a \in Attempt
  PROVE  [r EXCEPT !.state = s, !.version = n, !.trust = v, !.owner = a] \in RowType
BY DEF RowType

LEMMA CoreStarts == Init => CoreInv
<1> SUFFICES ASSUME Init PROVE CoreInv
  OBVIOUS
<1>1. /\ attempt \in [Attempt -> AttemptPhase] /\ bound \in [Attempt -> Worktree \union {None}]
      /\ row \in [Worktree -> RowType]
  BY NoRowTyped DEF Init, AttemptPhase
<1>2. \A w \in Worktree : row[w] = NoRow /\ row[w].state = "None"
  BY DEF Init, NoRow
<1>3. \A a \in Attempt : attempt[a] = "none" /\ bound[a] = None
  BY DEF Init
<1> QED
  BY <1>1, <1>2, <1>3
     DEF CoreInv, RowInv, RowShape, BindInv, OneMayRun, QueuedKeepsWorktree, BusyNotDisposed, Nonterminal

LEMMA CoreStill == ASSUME CoreInv, UNCHANGED <<attempt, bound, row>> PROVE CoreInv'
BY DEF CoreInv, RowInv, BindInv, OneMayRun, QueuedKeepsWorktree, BusyNotDisposed, Nonterminal

\* An Attempt that goes on from where it waits, runs or is uncertain.
LEMMA CoreMoves ==
  ASSUME CoreInv, NEW a \in Attempt, NEW from, NEW to, Moves(a, from, to),
         <<from, to>> \in {<<"Queued", "Live">>, <<"Live", "Done">>, <<"Live", "Uncertain">>,
                           <<"Queued", "Done">>, <<"Uncertain", "Done">>}
  PROVE  CoreInv'
<1>1. /\ attempt[a] = from /\ attempt' = [attempt EXCEPT ![a] = to] /\ UNCHANGED <<bound, row>>
      /\ to \in AttemptPhase /\ from \in {"Queued", "Live", "Uncertain"} /\ to # "none"
      /\ to \in {"Live", "Done", "Uncertain"} /\ (to = "Live" => from = "Queued")
  BY DEF Moves, AttemptPhase
<1>2. \A b \in Attempt : attempt'[b] = IF b = a THEN to ELSE attempt[b]
  BY <1>1 DEF CoreInv
<1>3. attempt' \in [Attempt -> AttemptPhase]
  BY <1>1 DEF CoreInv
<1>4. RowInv' /\ BindInv'
  BY <1>1, <1>2 DEF CoreInv, RowInv, BindInv
<1>5. Nonterminal' \subseteq Nonterminal
  BY <1>1, <1>2 DEF Nonterminal
<1>6. OneMayRun'
  BY <1>1, <1>5 DEF CoreInv, OneMayRun
<1>7. QueuedKeepsWorktree' /\ BusyNotDisposed'
  BY <1>1, <1>2 DEF CoreInv, QueuedKeepsWorktree, BusyNotDisposed
<1> QED
  BY <1>1, <1>3, <1>4, <1>6, <1>7 DEF CoreInv

\* What acceptance asks of the grant: none of its Attempts waits or runs.
LEMMA NoneOfGrant ==
  ASSUME CoreInv, NEW v \in Version, MayRun(v) = {}, NEW b \in Nonterminal
  PROVE  bound[b] \in Worktree /\ row[bound[b]].trust # v
BY Bounds DEF CoreInv, BindInv, MayRun, OfGrant, Nonterminal, None

LEMMA CorePlanned ==
  ASSUME CoreInv, NEW v \in Version, NEW a \in Attempt, NEW w \in Worktree, AcceptPlanned(v, a, w)
  PROVE  CoreInv'
<1> DEFINE new == [NoRow EXCEPT !.state = "Planned", !.version = 1, !.trust = v, !.owner = a]
<1>1. /\ attempt[a] = "none" /\ row[w] = NoRow /\ MayRun(v) = {}
      /\ attempt' = [attempt EXCEPT ![a] = "Queued"] /\ bound' = [bound EXCEPT ![a] = w]
      /\ row' = [row EXCEPT ![w] = new]
  BY DEF AcceptPlanned, FreshAttempt, FreshWorktree, LaunchAllowed
<1>2. /\ new \in RowType /\ new.state = "Planned" /\ new.role = "Pending" /\ new.version = 1
      /\ new.trust = v /\ new.owner = a
  <2>1. "Planned" \in WorktreeState \union {"None"} /\ 1 \in 0 .. 4
    BY DEF WorktreeState
  <2>2. new \in RowType
    BY <2>1, NoRowTyped, RowPlanned
  <2>3. /\ new.state = "Planned" /\ new.role = "Pending" /\ new.version = 1
        /\ new.trust = v /\ new.owner = a
    BY DEF NoRow
  <2> QED
    BY <2>2, <2>3
<1> HIDE DEF new
<1>3. /\ attempt' \in [Attempt -> AttemptPhase] /\ bound' \in [Attempt -> Worktree \union {None}]
      /\ row' \in [Worktree -> RowType]
  BY <1>1, <1>2 DEF CoreInv, AttemptPhase
<1>4. /\ \A b \in Attempt : attempt'[b] = IF b = a THEN "Queued" ELSE attempt[b]
      /\ \A b \in Attempt : bound'[b] = IF b = a THEN w ELSE bound[b]
      /\ \A u \in Worktree : row'[u] = IF u = w THEN new ELSE row[u]
  BY <1>1 DEF CoreInv
<1>5. bound[a] = None /\ row[w].state = "None" /\ \A b \in Attempt : bound[b] # w
  BY <1>1, Bounds DEF CoreInv, BindInv, NoRow
<1>6. RowInv'
  <2> SUFFICES ASSUME NEW u \in Worktree
               PROVE  /\ RowShape(row'[u])
                      /\ row'[u].state # "None" =>
                           /\ row'[u].trust \in Version /\ row'[u].owner \in Attempt
                           /\ attempt'[row'[u].owner] # "none" /\ bound'[row'[u].owner] = u
                      /\ row'[u].state = "Planned" =>
                           \A b \in Attempt : bound'[b] = u => b = row'[u].owner
    BY DEF RowInv
  <2>1. CASE u = w
    BY <1>2, <1>4, <1>5, <2>1 DEF RowShape
  <2>2. CASE u # w
    BY <1>1, <1>4, <1>5, <2>2 DEF CoreInv, RowInv
  <2> QED
    BY <2>1, <2>2
<1>7. BindInv'
  BY <1>2, <1>4, <1>5, Bounds DEF CoreInv, BindInv
<1>8. OneMayRun'
  <2>1. \A b \in Nonterminal' : b = a \/ (b \in Nonterminal /\ bound[b] \in Worktree /\ bound[b] # w)
    BY <1>4, <1>5, Bounds DEF CoreInv, BindInv, Nonterminal
  <2>2. \A b \in Nonterminal : row[bound[b]].trust # v
    BY <1>1, NoneOfGrant
  <2> QED
    BY <1>2, <1>4, <2>1, <2>2 DEF CoreInv, OneMayRun, Nonterminal
<1>9. QueuedKeepsWorktree' /\ BusyNotDisposed'
  BY <1>2, <1>4, <1>5, Bounds DEF CoreInv, BindInv, QueuedKeepsWorktree, BusyNotDisposed
<1> QED
  BY <1>3, <1>6, <1>7, <1>8, <1>9 DEF CoreInv

LEMMA CoreContinue ==
  ASSUME CoreInv, NEW v \in Version, NEW a \in Attempt, NEW w \in Worktree, AcceptContinue(v, a, w)
  PROVE  CoreInv'
<1>1. /\ attempt[a] = "none" /\ MayRun(v) = {} /\ row' = row
      /\ row[w].trust = v /\ row[w].state = "Ready" /\ row[w].role = "Active"
      /\ attempt' = [attempt EXCEPT ![a] = "Queued"] /\ bound' = [bound EXCEPT ![a] = w]
  BY DEF AcceptContinue, FreshAttempt, LaunchAllowed, Continuable
<1>2. /\ attempt' \in [Attempt -> AttemptPhase] /\ bound' \in [Attempt -> Worktree \union {None}]
  BY <1>1 DEF CoreInv, AttemptPhase
<1>3. /\ \A b \in Attempt : attempt'[b] = IF b = a THEN "Queued" ELSE attempt[b]
      /\ \A b \in Attempt : bound'[b] = IF b = a THEN w ELSE bound[b]
  BY <1>1 DEF CoreInv
<1>4. bound[a] = None
  BY <1>1 DEF CoreInv, BindInv
<1>5. RowInv' /\ BindInv'
  BY <1>1, <1>3, <1>4, Bounds DEF CoreInv, RowInv, BindInv
<1>6. OneMayRun'
  <2>1. \A b \in Nonterminal' : b = a \/ b \in Nonterminal
    BY <1>3 DEF Nonterminal
  <2>2. \A b \in Nonterminal : b # a /\ row[bound[b]].trust # v
    BY <1>1, NoneOfGrant DEF Nonterminal
  <2> QED
    BY <1>1, <1>3, <2>1, <2>2 DEF CoreInv, OneMayRun, Nonterminal
<1>7. QueuedKeepsWorktree' /\ BusyNotDisposed'
  BY <1>1, <1>3 DEF CoreInv, QueuedKeepsWorktree, BusyNotDisposed
<1> QED
  BY <1>1, <1>2, <1>5, <1>6, <1>7 DEF CoreInv

\* What stays of every row, and what an Attempt that ends with its row may do: the frame
\* of a transaction that writes rows already there.
RowsKeepOwner ==
  \A u \in Worktree : /\ row'[u].trust = row[u].trust /\ row'[u].owner = row[u].owner
                      /\ row'[u].state = "None" <=> row[u].state = "None"
                      /\ row'[u].state = "Planned" => row[u].state = "Planned"

LEMMA CoreWritten ==
  ASSUME CoreInv, UNCHANGED bound, row' \in [Worktree -> RowType], RowsKeepOwner,
         attempt' \in [Attempt -> AttemptPhase],
         \A a \in Attempt : attempt'[a] = attempt[a] \/ (attempt[a] = "Queued" /\ attempt'[a] = "Done"),
         \A u \in Worktree : RowShape(row'[u]),
         QueuedKeepsWorktree', BusyNotDisposed'
  PROVE  CoreInv'
<1>1. \A a \in Attempt : attempt'[a] # "none" <=> attempt[a] # "none"
  OBVIOUS
<1>2. RowInv'
  BY <1>1 DEF CoreInv, RowInv, RowsKeepOwner
<1>3. BindInv'
  BY <1>1, Bounds DEF CoreInv, BindInv, RowsKeepOwner
<1>4. \A a \in Nonterminal' : a \in Nonterminal /\ bound[a] \in Worktree
  BY <1>1, Bounds DEF CoreInv, BindInv, Nonterminal
<1>5. OneMayRun'
  BY <1>4 DEF CoreInv, OneMayRun, RowsKeepOwner, Nonterminal
<1> QED
  BY <1>2, <1>3, <1>5 DEF CoreInv

\* A row that has a Planned state is version 1 and nobody but its owner is bound to it.
LEMMA PlannedFacts ==
  ASSUME CoreInv, NEW w \in Worktree, row[w].state = "Planned"
  PROVE  /\ row[w] \in RowType /\ row[w].version = 1
         /\ row[w].owner \in Attempt /\ bound[row[w].owner] = w
         /\ \A a \in Attempt : bound[a] = w => a = row[w].owner
BY DEF CoreInv, RowInv, RowShape, NoRow

\* Rows as they are written, and what they then hold.
EndedRow(r, s, role, n) == [r EXCEPT !.state = s, !.role = role, !.version = n]
ReadyRow(r, role, n, d) == [r EXCEPT !.state = "Ready", !.role = role, !.version = n, !.dir = d]
DemotedRow(r, n) == [r EXCEPT !.role = "Historical", !.version = n]

LEMMA RowReady ==
  ASSUME NEW r \in RowType, NEW role \in WorktreeRole, NEW n \in 0 .. 4, NEW d \in Dir
  PROVE  /\ ReadyRow(r, role, n, d) \in RowType
         /\ ReadyRow(r, role, n, d).state = "Ready" /\ ReadyRow(r, role, n, d).role = role
         /\ ReadyRow(r, role, n, d).version = n /\ ReadyRow(r, role, n, d).dir = d
         /\ ReadyRow(r, role, n, d).trust = r.trust /\ ReadyRow(r, role, n, d).owner = r.owner
BY DEF RowType, ReadyRow, WorktreeState

LEMMA RowDemoted ==
  ASSUME NEW r \in RowType, NEW n \in 0 .. 4
  PROVE  /\ DemotedRow(r, n) \in RowType
         /\ DemotedRow(r, n).state = r.state /\ DemotedRow(r, n).role = "Historical"
         /\ DemotedRow(r, n).version = n /\ DemotedRow(r, n).dir = r.dir
         /\ DemotedRow(r, n).trust = r.trust /\ DemotedRow(r, n).owner = r.owner
BY DEF RowType, DemotedRow, WorktreeRole

\* A Planned row ends Failed or Orphaned, and its owner, if it waited, with it.
LEMMA CoreEnds ==
  ASSUME CoreInv, UNCHANGED bound, NEW w \in Worktree, row[w].state = "Planned",
         NEW s \in {"Failed", "Orphaned"}, row' = Ends(w, s),
         attempt' = attempt \/ attempt' = FailQueued(row[w].owner),
         attempt'[row[w].owner] # "Queued"
  PROVE  CoreInv'
<1>1. /\ row[w] \in RowType /\ row[w].version = 1 /\ row[w].owner \in Attempt
      /\ \A a \in Attempt : bound[a] = w => a = row[w].owner
      /\ row \in [Worktree -> RowType] /\ attempt \in [Attempt -> AttemptPhase]
  BY PlannedFacts DEF CoreInv
<1>2. /\ row'[w] = EndedRow(row[w], s, "Pending", row[w].version + 1)
      /\ \A u \in Worktree \ {w} : row'[u] = row[u]
      /\ row' = [row EXCEPT ![w] = row'[w]]
  BY <1>1 DEF Ends, EndedRow
<1>3. /\ row'[w] \in RowType /\ row'[w].state = s /\ row'[w].role = "Pending"
      /\ row'[w].version = 2 /\ row'[w].trust = row[w].trust /\ row'[w].owner = row[w].owner
  <2>1. s \in WorktreeState /\ "Pending" \in WorktreeRole /\ row[w].version + 1 \in 0 .. 4
        /\ row[w].version + 1 = 2
    BY <1>1 DEF WorktreeState, WorktreeRole
  <2>2. /\ row'[w] \in RowType /\ row'[w].state = s /\ row'[w].role = "Pending"
        /\ row'[w].version = row[w].version + 1
        /\ row'[w].trust = row[w].trust /\ row'[w].owner = row[w].owner
    <3> DEFINE n == row[w].version + 1
    <3>1. row[w] \in RowType /\ row'[w] = EndedRow(row[w], s, "Pending", n)
      BY <1>1, <1>2
    <3>2. n \in 0 .. 4
      BY <2>1
    <3> HIDE DEF n
    <3>3. /\ EndedRow(row[w], s, "Pending", n) \in RowType
          /\ EndedRow(row[w], s, "Pending", n).state = s
          /\ EndedRow(row[w], s, "Pending", n).role = "Pending"
          /\ EndedRow(row[w], s, "Pending", n).version = n
          /\ EndedRow(row[w], s, "Pending", n).trust = row[w].trust
          /\ EndedRow(row[w], s, "Pending", n).owner = row[w].owner
      BY <2>1, <3>1, <3>2 DEF RowType, EndedRow
    <3> QED
      BY <3>1, <3>3 DEF n
  <2> QED
    BY <1>1, <2>1, <2>2
<1>4. row' \in [Worktree -> RowType]
  BY <1>1, <1>2, <1>3
<1>5. RowsKeepOwner
  BY <1>2, <1>3 DEF RowsKeepOwner
<1>6. \A u \in Worktree : RowShape(row'[u])
  <2>1. \A u \in Worktree : RowShape(row[u])
    BY DEF CoreInv, RowInv
  <2>2. RowShape(row'[w])
    BY <1>3 DEF RowShape
  <2> QED
    BY <1>2, <2>1, <2>2
<1>7. /\ attempt' \in [Attempt -> AttemptPhase]
      /\ \A a \in Attempt : attempt'[a] = attempt[a] \/ (attempt[a] = "Queued" /\ attempt'[a] = "Done")
  BY <1>1 DEF FailQueued, AttemptPhase
<1>8. QueuedKeepsWorktree' /\ BusyNotDisposed'
  <2>1. \A a \in Attempt : attempt'[a] \in {"Queued", "Live", "Uncertain"} =>
          attempt'[a] = attempt[a] /\ bound[a] \in Worktree
    BY <1>7, Bounds DEF CoreInv, BindInv
  <2>2. \A a \in Attempt : attempt'[a] = "Queued" => bound[a] # w
    BY <1>1
  <2>3. QueuedKeepsWorktree'
    BY <1>2, <2>1, <2>2 DEF CoreInv, QueuedKeepsWorktree
  <2>4. BusyNotDisposed'
    BY <1>2, <1>3, <2>1 DEF CoreInv, BusyNotDisposed
  <2> QED
    BY <2>3, <2>4
<1> QED
  BY <1>4, <1>5, <1>6, <1>7, <1>8, CoreWritten

\* The owner has ended: the Worktree is Ready and nobody's active one.
LEMMA CoreKept ==
  ASSUME CoreInv, UNCHANGED <<attempt, bound>>, NEW w \in Worktree, row[w].state = "Planned",
         prov[w].dir \in Dir, attempt[row[w].owner] # "Queued",
         row' = MadeReady(w, "Historical", row)
  PROVE  CoreInv'
<1>1. /\ row[w] \in RowType /\ row[w].version = 1 /\ row[w].owner \in Attempt
      /\ \A a \in Attempt : bound[a] = w => a = row[w].owner
      /\ row \in [Worktree -> RowType] /\ attempt \in [Attempt -> AttemptPhase]
  BY PlannedFacts DEF CoreInv
<1>2. /\ row'[w] = ReadyRow(row[w], "Historical", row[w].version + 1, prov[w].dir)
      /\ \A u \in Worktree \ {w} : row'[u] = row[u]
      /\ row' = [row EXCEPT ![w] = row'[w]]
  BY <1>1 DEF MadeReady, ReadyRow
<1>3. /\ row'[w] \in RowType /\ row'[w].state = "Ready" /\ row'[w].role = "Historical"
      /\ row'[w].version = 2 /\ row'[w].trust = row[w].trust /\ row'[w].owner = row[w].owner
      /\ row'[w].dir # None
  <2>1. "Ready" \in WorktreeState /\ "Historical" \in WorktreeRole /\ row[w].version + 1 \in 0 .. 4
        /\ row[w].version + 1 = 2
    BY <1>1 DEF WorktreeState, WorktreeRole
  <2> QED
    BY <1>1, <1>2, <2>1, RowReady, Bounds
<1>4. row' \in [Worktree -> RowType]
  BY <1>1, <1>2, <1>3
<1>5. RowsKeepOwner
  BY <1>2, <1>3 DEF RowsKeepOwner
<1>6. \A u \in Worktree : RowShape(row'[u])
  <2>1. \A u \in Worktree : RowShape(row[u])
    BY DEF CoreInv, RowInv
  <2>2. RowShape(row'[w])
    BY <1>3 DEF RowShape
  <2> QED
    BY <1>2, <2>1, <2>2
<1>7. QueuedKeepsWorktree' /\ BusyNotDisposed'
  <2>1. \A a \in Attempt : attempt[a] # "none" => bound[a] \in Worktree
    BY Bounds DEF CoreInv, BindInv
  <2>2. \A a \in Attempt : attempt[a] = "Queued" => bound[a] # w
    BY <1>1
  <2> QED
    BY <1>2, <1>3, <2>1, <2>2 DEF CoreInv, QueuedKeepsWorktree, BusyNotDisposed
<1> QED
  BY <1>1, <1>4, <1>5, <1>6, <1>7, CoreWritten

\* The owner still waits: its Worktree is the active one, and the one before it steps back.
\* No other Attempt waits for that one, since the owner is the only one of the grant.
LEMMA CoreActive ==
  ASSUME CoreInv, UNCHANGED <<attempt, bound>>, NEW w \in Worktree, row[w].state = "Planned",
         prov[w].dir \in Dir, attempt[row[w].owner] = "Queued",
         row' = MadeReady(w, "Active", Demoted(w))
  PROVE  CoreInv'
<1> DEFINE StepsBack(u) == u # w /\ row[u].trust = row[w].trust /\ row[u].role = "Active"
<1>1. /\ row[w] \in RowType /\ row[w].version = 1 /\ row[w].owner \in Attempt
      /\ bound[row[w].owner] = w
      /\ \A a \in Attempt : bound[a] = w => a = row[w].owner
      /\ row \in [Worktree -> RowType] /\ attempt \in [Attempt -> AttemptPhase]
  BY PlannedFacts DEF CoreInv
<1>2. /\ row'[w] = ReadyRow(row[w], "Active", row[w].version + 1, prov[w].dir)
      /\ \A u \in Worktree \ {w} :
           row'[u] = IF StepsBack(u)
                     THEN DemotedRow(row[u], row[u].version + 1)
                     ELSE row[u]
      /\ DOMAIN row' = Worktree /\ row' = [u \in Worktree |-> row'[u]]
  BY <1>1 DEF MadeReady, Demoted, ReadyRow, DemotedRow
<1>3. /\ row'[w] \in RowType /\ row'[w].state = "Ready" /\ row'[w].role = "Active"
      /\ row'[w].version = 2 /\ row'[w].trust = row[w].trust /\ row'[w].owner = row[w].owner
      /\ row'[w].dir # None
  <2>1. "Ready" \in WorktreeState /\ "Active" \in WorktreeRole /\ row[w].version + 1 \in 0 .. 4
        /\ row[w].version + 1 = 2
    BY <1>1 DEF WorktreeState, WorktreeRole
  <2> QED
    BY <1>1, <1>2, <2>1, RowReady, Bounds
<1>4. ASSUME NEW u \in Worktree, StepsBack(u)
      PROVE  /\ row[u].state = "Ready" /\ row[u].dir # None
             /\ row'[u] \in RowType /\ row'[u].state = "Ready" /\ row'[u].role = "Historical"
             /\ row'[u].version = 3 /\ row'[u].dir = row[u].dir
             /\ row'[u].trust = row[u].trust /\ row'[u].owner = row[u].owner
  <2>1. row[u] \in RowType /\ row[u].state = "Ready" /\ row[u].version = 2 /\ row[u].dir # None
    BY <1>4 DEF CoreInv, RowInv, RowShape, NoRow
  <2>2. "Historical" \in WorktreeRole /\ 3 \in 0 .. 4 /\ row[u].version + 1 = 3
    BY <2>1 DEF WorktreeRole
  <2> QED
    BY <1>2, <1>4, <2>1, <2>2, RowDemoted
<1>5. \A u \in Worktree : u # w /\ ~StepsBack(u) => row'[u] = row[u]
  BY <1>2
<1> HIDE DEF StepsBack
<1>6. row' \in [Worktree -> RowType]
  BY <1>1, <1>2, <1>3, <1>4, <1>5
<1>7. RowsKeepOwner
  BY <1>3, <1>4, <1>5 DEF RowsKeepOwner
<1>8. \A u \in Worktree : RowShape(row'[u])
  BY <1>3, <1>4, <1>5 DEF CoreInv, RowInv, RowShape
<1>9. QueuedKeepsWorktree' /\ BusyNotDisposed'
  <2>1. \A a \in Attempt : attempt[a] # "none" => bound[a] \in Worktree
    BY Bounds DEF CoreInv, BindInv
  <2>2. \A a \in Attempt : attempt[a] = "Queued" /\ bound[a] # w => ~StepsBack(bound[a])
    BY <1>1 DEF CoreInv, OneMayRun, Nonterminal, StepsBack
  <2>3. QueuedKeepsWorktree'
    BY <1>3, <1>5, <2>1, <2>2 DEF CoreInv, QueuedKeepsWorktree
  <2>4. BusyNotDisposed'
    BY <1>3, <1>4, <1>5, <2>1 DEF CoreInv, BusyNotDisposed
  <2> QED
    BY <2>3, <2>4
<1> QED
  BY <1>1, <1>6, <1>7, <1>8, <1>9, CoreWritten

\* A Ready row that no Attempt may use becomes history.
LEMMA CoreDisposed ==
  ASSUME CoreInv, UNCHANGED <<attempt, bound>>, NEW w \in Worktree, row[w].state = "Ready",
         Users(w) = {}, row' = DisposedRow(w)
  PROVE  CoreInv'
<1>1. /\ row[w] \in RowType /\ row[w].version \in {2, 3}
      /\ row \in [Worktree -> RowType] /\ attempt \in [Attempt -> AttemptPhase]
  BY DEF CoreInv, RowInv, RowShape, NoRow
<1>2. /\ row'[w] = EndedRow(row[w], "Disposed", "Historical", row[w].version + 1)
      /\ \A u \in Worktree \ {w} : row'[u] = row[u]
      /\ row' = [row EXCEPT ![w] = row'[w]]
  BY <1>1 DEF DisposedRow, EndedRow
<1>3. /\ row'[w] \in RowType /\ row'[w].state = "Disposed" /\ row'[w].role = "Historical"
      /\ row'[w].version \in {3, 4} /\ row'[w].trust = row[w].trust
      /\ row'[w].owner = row[w].owner
  <2>1. /\ "Disposed" \in WorktreeState /\ "Historical" \in WorktreeRole
        /\ row[w].version + 1 \in 0 .. 4 /\ row[w].version + 1 \in {3, 4}
    BY <1>1 DEF WorktreeState, WorktreeRole
  <2>2. /\ row'[w] \in RowType /\ row'[w].state = "Disposed" /\ row'[w].role = "Historical"
        /\ row'[w].version = row[w].version + 1
        /\ row'[w].trust = row[w].trust /\ row'[w].owner = row[w].owner
    <3> DEFINE n == row[w].version + 1
    <3>1. row[w] \in RowType /\ row'[w] = EndedRow(row[w], "Disposed", "Historical", n)
      BY <1>1, <1>2
    <3>2. n \in 0 .. 4
      BY <2>1
    <3> HIDE DEF n
    <3>3. /\ EndedRow(row[w], "Disposed", "Historical", n) \in RowType
          /\ EndedRow(row[w], "Disposed", "Historical", n).state = "Disposed"
          /\ EndedRow(row[w], "Disposed", "Historical", n).role = "Historical"
          /\ EndedRow(row[w], "Disposed", "Historical", n).version = n
          /\ EndedRow(row[w], "Disposed", "Historical", n).trust = row[w].trust
          /\ EndedRow(row[w], "Disposed", "Historical", n).owner = row[w].owner
      BY <2>1, <3>1, <3>2 DEF RowType, EndedRow
    <3> QED
      BY <3>1, <3>3 DEF n
  <2> QED
    BY <1>1, <2>1, <2>2
<1>4. row' \in [Worktree -> RowType]
  BY <1>1, <1>2, <1>3
<1>5. RowsKeepOwner
  BY <1>2, <1>3 DEF RowsKeepOwner
<1>6. \A u \in Worktree : RowShape(row'[u])
  <2>1. \A u \in Worktree : RowShape(row[u])
    BY DEF CoreInv, RowInv
  <2>2. RowShape(row'[w])
    BY <1>3 DEF RowShape
  <2> QED
    BY <1>2, <2>1, <2>2
<1>7. QueuedKeepsWorktree' /\ BusyNotDisposed'
  <2>1. \A a \in Attempt : attempt[a] # "none" => bound[a] \in Worktree
    BY Bounds DEF CoreInv, BindInv
  <2>2. \A a \in Attempt : attempt[a] \in {"Queued", "Live", "Uncertain"} => bound[a] # w
    BY DEF Users, BoundTo
  <2> QED
    BY <1>2, <1>3, <2>1, <2>2 DEF CoreInv, QueuedKeepsWorktree, BusyNotDisposed
<1> QED
  BY <1>1, <1>4, <1>5, <1>6, <1>7, CoreWritten

-----------------------------------------------------------------------------
(* The disk, what is under way, and what was removed.                       *)

DiskType == [dir : Dir \union {None}, repo : Id \union {NoId},
             branch : BOOLEAN, ahead : BOOLEAN, dirty : BOOLEAN]
GoneType == [w : Worktree, dir : Dir, dirty : BOOLEAN, users : SUBSET Attempt]
ProvType == [pc : {"none", "preflight", "add", "verify", "existing", "commit", "cut off"},
             existed : BOOLEAN, dir : Dir \union {None},
             result : {"pending", "ok", "clean", "unknown"}]
InspType == [pc : {"none", "identity", "facts", "manifest", "again", "done"},
             w : Worktree \union {None}, dispose : BOOLEAN, version : 0 .. 4,
             blocked : BOOLEAN, ahead : BOOLEAN, dirty : BOOLEAN, stable : BOOLEAN]
ShownType == [w : Worktree \union {None}, version : 0 .. 4, dir : Dir \union {None},
              ahead : BOOLEAN, dirty : BOOLEAN]

DiskTypeOK == disk \in [Worktree -> DiskType] /\ made \in [Worktree -> Dir \union {None}]
WayTypeOK == prov \in [Worktree -> ProvType] /\ insp \in InspType /\ shown \in ShownType

\* A provision under way, or cut off, holds its row Planned, an inspection holds it Ready; what was
\* removed was Ready, and is or will be Disposed.
WayInv ==
  /\ \A w \in Worktree : prov[w].pc # "none" => row[w].state = "Planned"
  /\ insp.pc # "none" => insp.w \in Worktree /\ row[insp.w].state = "Ready"
GoneInv ==
  /\ destroyed \in SUBSET GoneType
  /\ \A r \in destroyed : row[r.w].state \in {"Ready", "Disposed"}
  /\ RemovalSafe

Inv == TrustInv /\ CoreInv /\ DiskTypeOK /\ WayTypeOK /\ WayInv /\ GoneInv

LEMMA InvTyped == Inv => TypeOK
BY DEF Inv, TrustInv, CoreInv, DiskTypeOK, WayTypeOK, GoneInv, TypeOK, WorktreeTypeOK,
       RowType, DiskType, GoneType, ProvType, InspType, ShownType

LEMMA NothingTyped ==
  /\ NoDir \in DiskType /\ NoProv \in ProvType /\ NoInsp \in InspType /\ NoPreview \in ShownType
  /\ NoProv.pc = "none" /\ NoInsp.pc = "none"
BY DEF NoDir, NoProv, NoInsp, NoPreview, DiskType, ProvType, InspType, ShownType, None, NoId

LEMMA CutOffTyped == CutOff \in ProvType /\ CutOff.pc = "cut off"
BY DEF CutOff, NoProv, ProvType, None

LEMMA Starts == Init => Inv
<1> SUFFICES ASSUME Init PROVE Inv
  OBVIOUS
<1>1. TrustInv /\ CoreInv
  BY TrustStarts, CoreStarts DEF Init
<1>2. DiskTypeOK /\ WayTypeOK /\ WayInv
  BY NothingTyped DEF Init, DiskTypeOK, WayTypeOK, WayInv
<1>3. GoneInv
  BY DEF Init, GoneInv, RemovalSafe
<1> QED
  BY <1>1, <1>2, <1>3 DEF Inv

\* Rows that are Ready or Disposed stay so, with their directory.
KeepsReady ==
  \A u \in Worktree :
    row[u].state \in {"Ready", "Disposed"} =>
      row'[u].state \in {"Ready", "Disposed"} /\ row'[u].dir = row[u].dir

LEMMA GoneKept == ASSUME GoneInv, UNCHANGED destroyed, KeepsReady PROVE GoneInv'
BY DEF GoneInv, RemovalSafe, KeepsReady, GoneType

LEMMA StillReady == ASSUME UNCHANGED row PROVE KeepsReady
BY DEF KeepsReady

LEMMA WayKept ==
  ASSUME WayInv, UNCHANGED <<row, insp>>,
         \A w \in Worktree : prov'[w].pc # "none" => prov[w].pc # "none" \/ row[w].state = "Planned"
  PROVE  WayInv'
BY DEF WayInv

-----------------------------------------------------------------------------
(* What each kind of step does to them.                                     *)

LEMMA AcceptKept ==
  ASSUME Inv, NEW v \in Version, NEW a \in Attempt, NEW w \in Worktree,
         AcceptPlanned(v, a, w) \/ AcceptContinue(v, a, w)
  PROVE  Inv'
<1>0. ProvisionBegins(w) \in ProvType
  BY DEF ProvisionBegins, NoProv, ProvType
<1>1. /\ UNCHANGED <<trustRows, diskVars, challenge, dirVars, insp, shown>> /\ plan' = NoPlan
      /\ \/ row' = row /\ prov' = prov
         \/ /\ row[w] = NoRow /\ \E r \in {row'[w]} : row' = [row EXCEPT ![w] = r]
            /\ row'[w].state = "Planned" /\ prov' = [prov EXCEPT ![w] = ProvisionBegins(w)]
  <2>1. CASE AcceptContinue(v, a, w)
    BY <2>1 DEF AcceptContinue, Verified, PlanDone
  <2>2. CASE AcceptPlanned(v, a, w)
    <3> DEFINE r == [NoRow EXCEPT !.state = "Planned", !.version = 1, !.trust = v, !.owner = a]
    <3>1. /\ UNCHANGED <<trustRows, diskVars, challenge, dirVars, insp, shown>> /\ plan' = NoPlan
          /\ row[w] = NoRow /\ row' = [row EXCEPT ![w] = r]
          /\ prov' = [prov EXCEPT ![w] = ProvisionBegins(w)]
      BY <2>2 DEF AcceptPlanned, Verified, PlanDone, FreshWorktree
    <3>2. r.state = "Planned"
      BY DEF NoRow
    <3>3. w \in DOMAIN row
      BY DEF Inv, CoreInv
    <3> HIDE DEF r
    <3> QED
      BY <3>1, <3>2, <3>3
  <2> QED
    BY <2>1, <2>2
<1>2. TrustInv'
  BY <1>1, TrustKept DEF Inv, TrustMove, Elsewhere
<1>3. CoreInv'
  BY CorePlanned, CoreContinue DEF Inv
<1>4. \A u \in Worktree : row'[u] = row[u] \/ row[u].state = "None"
  BY <1>1 DEF Inv, CoreInv, NoRow
<1>5. KeepsReady
  BY <1>4 DEF KeepsReady
<1>6. WayInv'
  <2>1. \A u \in Worktree : prov'[u].pc # "none" => row'[u].state = "Planned"
    BY <1>0, <1>1, <1>4 DEF Inv, WayInv, WayTypeOK, CoreInv, NoRow
  <2> QED
    BY <1>1, <1>4, <2>1 DEF Inv, WayInv
<1>7. WayTypeOK'
  BY <1>0, <1>1 DEF Inv, WayTypeOK
<1> QED
  BY <1>1, <1>2, <1>3, <1>5, <1>6, <1>7, GoneKept DEF Inv, DiskTypeOK

LEMMA MovesKept == ASSUME Inv, AttemptAction PROVE Inv'
<1>1. PICK a \in Attempt, from \in {"Queued", "Live", "Uncertain"}, to \in {"Live", "Done", "Uncertain"} :
        /\ Moves(a, from, to)
        /\ <<from, to>> \in {<<"Queued", "Live">>, <<"Live", "Done">>, <<"Live", "Uncertain">>,
                             <<"Queued", "Done">>, <<"Uncertain", "Done">>}
  BY DEF AttemptAction, AttemptStarts, AttemptEnds, AttemptCancelled, DispositionSettled
<1>2. CoreInv'
  BY <1>1, CoreMoves DEF Inv
<1>3. UNCHANGED <<trustVars, bound, row, dirVars, opVars>>
  BY <1>1 DEF Moves
<1> QED
  BY <1>2, <1>3, TrustKept, StillReady, GoneKept
     DEF Inv, TrustMove, Elsewhere, DiskTypeOK, WayTypeOK, WayInv

\* Nothing but the provision of one Planned row and what lies on the disk changes.
LEMMA ProvKept ==
  ASSUME Inv, NEW w \in Worktree, row[w].state = "Planned",
         prov' \in [Worktree -> ProvType],
         \A u \in Worktree \ {w} : prov'[u] = prov[u],
         DiskTypeOK', UNCHANGED destroyed, ProvOnly
  PROVE  Inv'
<1>1. UNCHANGED <<trustVars, attempt, bound, row, insp, shown>>
  BY DEF ProvOnly
<1>2. TrustInv' /\ CoreInv'
  BY <1>1, TrustKept, CoreStill DEF Inv, TrustMove, Elsewhere
<1>3. WayInv'
  <2>1. \A u \in Worktree : prov'[u].pc # "none" => prov[u].pc # "none" \/ row[u].state = "Planned"
    OBVIOUS
  <2> QED
    BY <1>1, <2>1, WayKept DEF Inv
<1> QED
  BY <1>1, <1>2, <1>3, StillReady, GoneKept DEF Inv, WayTypeOK

\* A step of the provisioner leaves a typed record in its place.
LEMMA ProvTyped ==
  ASSUME prov \in [Worktree -> ProvType], NEW w \in Worktree,
         \/ \E step \in {"add", "verify"} : ProvTo(w, step)
         \/ \E res \in {"ok", "clean", "unknown"}, d \in Dir \union {None} : ProvEnds(w, res, d)
  PROVE  /\ prov' \in [Worktree -> ProvType]
         /\ \A u \in Worktree \ {w} : prov'[u] = prov[u]
<1>1. CASE \E step \in {"add", "verify"} : ProvTo(w, step)
  <2>1. PICK step \in {"add", "verify"} : ProvTo(w, step)
    BY <1>1
  <2>2. \A p \in ProvType : [p EXCEPT !.pc = step] \in ProvType
    BY DEF ProvType
  <2>3. prov' = [prov EXCEPT ![w] = [prov[w] EXCEPT !.pc = step]]
    BY <2>1 DEF ProvTo
  <2> QED
    BY <2>2, <2>3
<1>2. CASE \E res \in {"ok", "clean", "unknown"}, d \in Dir \union {None} : ProvEnds(w, res, d)
  <2>1. PICK res \in {"ok", "clean", "unknown"}, d \in Dir \union {None} : ProvEnds(w, res, d)
    BY <1>2
  <2>2. \A p \in ProvType : [p EXCEPT !.pc = "commit", !.result = res, !.dir = d] \in ProvType
    BY DEF ProvType
  <2>3. prov' = [prov EXCEPT ![w] = [prov[w] EXCEPT !.pc = "commit", !.result = res, !.dir = d]]
    BY <2>1 DEF ProvEnds
  <2> QED
    BY <2>2, <2>3
<1> QED
  BY <1>1, <1>2

LEMMA AddedTyped ==
  ASSUME NEW n \in Dir
  PROVE  /\ [NoDir EXCEPT !.dir = n] \in DiskType
         /\ \A r \in Id : [dir |-> n, repo |-> r, branch |-> TRUE, ahead |-> FALSE,
                           dirty |-> FALSE] \in DiskType
BY DEF NoDir, DiskType

LEMMA AppearsTyped ==
  ASSUME Inv, NEW w \in Worktree, NEW d, Appears(w, d),
         d = Added(w) \/ d = Partial(w)
  PROVE  DiskTypeOK'
<1>1. /\ disk' = [disk EXCEPT ![w] = d] /\ made' = [made EXCEPT ![w] = made[w] + 1]
      /\ made[w] < MaxDirs /\ made[w] \in Dir \union {None}
      /\ disk \in [Worktree -> DiskType] /\ made \in [Worktree -> Dir \union {None}]
  BY DEF Appears, Inv, DiskTypeOK
<1>2. made[w] + 1 \in Dir
  BY <1>1, Bounds DEF Dir, None
<1>3. d \in DiskType
  <2>1. common \in Id
    BY DEF Inv, TrustInv, TrustTypeOK
  <2> QED
    BY <1>2, <2>1, AddedTyped DEF Added, Partial
<1> QED
  BY <1>1, <1>2, <1>3 DEF DiskTypeOK

LEMMA ProvisionerKept ==
  ASSUME Inv, NEW w \in Worktree,
         \/ Preflight(w) \/ WorktreeAdd(w) \/ VerifyAdded(w) \/ ObserveExisting(w)
  PROVE  Inv'
<1>0. /\ prov \in [Worktree -> ProvType] /\ DiskTypeOK /\ None \in Dir \union {None}
      /\ disk[w].dir \in Dir \union {None}
      /\ prov[w].pc # "none" => row[w].state = "Planned"
  BY DEF Inv, WayTypeOK, WayInv, DiskTypeOK, DiskType
<1>1. CASE Preflight(w)
  <2>1. /\ row[w].state = "Planned" /\ UNCHANGED dirVars /\ ProvOnly
        /\ \/ ProvTo(w, "add")
           \/ \E res \in {"clean", "unknown"} : ProvEnds(w, res, None)
    BY <1>0, <1>1 DEF Preflight, GitFailed
  <2> QED
    BY <1>0, <2>1, ProvTyped, ProvKept DEF DiskTypeOK
<1>2. CASE WorktreeAdd(w)
  <2>1. /\ row[w].state = "Planned" /\ UNCHANGED destroyed /\ ProvOnly
        /\ \/ ProvTo(w, "verify")
           \/ \E res \in {"clean", "unknown"} : ProvEnds(w, res, None)
        /\ \/ Appears(w, Added(w)) \/ Appears(w, Partial(w))
           \/ UNCHANGED <<disk, made>>
    BY <1>0, <1>2 DEF WorktreeAdd, GitFailed
  <2>2. DiskTypeOK'
    BY <1>0, <2>1, AppearsTyped DEF DiskTypeOK
  <2> QED
    BY <1>0, <2>1, <2>2, ProvTyped, ProvKept
<1>3. CASE VerifyAdded(w) \/ ObserveExisting(w)
  <2>1. /\ row[w].state = "Planned" /\ UNCHANGED dirVars /\ ProvOnly
        /\ \E res \in {"ok", "unknown"}, d \in Dir \union {None} : ProvEnds(w, res, d)
    BY <1>0, <1>3 DEF VerifyAdded, ObserveExisting
  <2> QED
    BY <1>0, <2>1, ProvTyped, ProvKept DEF DiskTypeOK
<1> QED
  BY <1>1, <1>2, <1>3

\* The transaction after the provisioner's answer leaves the row, makes it Ready with the
\* directory that was verified, or ends it together with the Attempt that waits for it.
LEMMA CommitCases ==
  ASSUME Inv, NEW w \in Worktree, ProvisionCommit(w)
  PROVE  /\ row[w].state = "Planned" /\ row[w].owner \in Attempt
         /\ \/ UNCHANGED <<row, attempt>>
            \/ /\ Active(row[w].trust) /\ ReadyVerified(w) /\ prov[w].dir \in Dir
               /\ UNCHANGED attempt
               /\ \/ /\ attempt[row[w].owner] = "Queued"
                     /\ row' = MadeReady(w, "Active", Demoted(w))
                  \/ /\ attempt[row[w].owner] # "Queued"
                     /\ row' = MadeReady(w, "Historical", row)
            \/ /\ Active(row[w].trust)
               /\ \E s \in {"Failed", "Orphaned"} : row' = Ends(w, s)
               /\ attempt' = attempt \/ attempt' = FailQueued(row[w].owner)
               /\ attempt'[row[w].owner] # "Queued"
<1>1. prov[w].pc = "commit" /\ row[w].state = "Planned"
  BY DEF ProvisionCommit, Inv, WayInv
<1>2. row[w].owner \in Attempt /\ attempt \in [Attempt -> AttemptPhase]
  BY <1>1, PlannedFacts DEF Inv, CoreInv
<1>3. \A leftover : CommitFailure(w, leftover) =>
        /\ \E s \in {"Failed", "Orphaned"} : row' = Ends(w, s)
        /\ attempt' = FailQueued(row[w].owner) /\ attempt'[row[w].owner] # "Queued"
  BY <1>2 DEF CommitFailure, FailQueued
<1>4. ReadyVerified(w) => prov[w].dir \in Dir
  BY DEF ReadyVerified, AsPlanned, Inv, DiskTypeOK, DiskType
<1>5. CommitReady(w) =>
        /\ UNCHANGED attempt
        /\ \/ /\ attempt[row[w].owner] = "Queued"
              /\ row' = MadeReady(w, "Active", Demoted(w))
           \/ /\ attempt[row[w].owner] # "Queued"
              /\ row' = MadeReady(w, "Historical", row) \/ row' = Ends(w, "Orphaned")
  BY DEF CommitReady
<1>6. \/ UNCHANGED <<row, attempt>>
      \/ Context(w) /\ ReadyVerified(w) /\ CommitReady(w)
      \/ Context(w) /\ CommitFailure(w, "unknown")
      \/ Context(w) /\ CommitFailure(w, prov[w].result)
  <2>1. CASE ~Context(w) \/ ~WorktreeCan(row[w].state, "Ready")
    BY <2>1 DEF ProvisionCommit
  <2>2. CASE Context(w) /\ WorktreeCan(row[w].state, "Ready")
    BY <2>2 DEF ProvisionCommit
  <2> QED
    BY <2>1, <2>2
<1> QED
  BY <1>1, <1>2, <1>3, <1>4, <1>5, <1>6 DEF Context

\* Of the other rows the transaction touches only the active one of the same grant.
LEMMA CommitRows ==
  ASSUME Inv, NEW w \in Worktree, ProvisionCommit(w), NEW u \in Worktree, u # w
  PROVE  /\ row'[u].state = row[u].state /\ row'[u].dir = row[u].dir
         /\ row'[u] = row[u] \/ row[u].trust = row[w].trust
<1>1. row \in [Worktree -> RowType] /\ row[u] \in RowType
  BY DEF Inv, CoreInv
<1>2. CASE row' = MadeReady(w, "Active", Demoted(w))
  <2>1. \/ row'[u] = row[u]
        \/ /\ row[u].trust = row[w].trust
           /\ row'[u] = [row[u] EXCEPT !.role = "Historical", !.version = row[u].version + 1]
    BY <1>1, <1>2 DEF MadeReady, Demoted
  <2> QED
    BY <1>1, <2>1 DEF RowType
<1>3. CASE row' = MadeReady(w, "Historical", row) \/ \E s \in {"Failed", "Orphaned"} : row' = Ends(w, s)
  BY <1>1, <1>3 DEF MadeReady, Ends
<1>4. CASE row' = row
  BY <1>4
<1> QED
  BY <1>2, <1>3, <1>4, CommitCases

LEMMA CommitKept == ASSUME Inv, NEW w \in Worktree, ProvisionCommit(w) PROVE Inv'
<1>1. /\ UNCHANGED <<trustVars, bound, dirVars, insp, shown>>
      /\ prov' = [prov EXCEPT ![w] = NoProv]
  BY DEF ProvisionCommit
<1>2. TrustInv'
  BY <1>1, TrustKept DEF Inv, TrustMove, Elsewhere
<1>3. CoreInv'
  BY <1>1, CommitCases, CoreStill, CoreActive, CoreKept, CoreEnds DEF Inv
<1>4. \A u \in Worktree \ {w} : row'[u].state = row[u].state /\ row'[u].dir = row[u].dir
  BY CommitRows
<1>5. row[w].state = "Planned"
  BY CommitCases
<1>6. KeepsReady
  BY <1>4, <1>5 DEF KeepsReady
<1>7. DiskTypeOK' /\ WayTypeOK'
  BY <1>1, NothingTyped DEF Inv, DiskTypeOK, WayTypeOK
<1>8. WayInv'
  <2>1. \A u \in Worktree : prov'[u].pc # "none" => u # w /\ prov[u].pc # "none"
    BY <1>1, NothingTyped DEF Inv, WayTypeOK
  <2>2. insp.pc # "none" => insp.w \in Worktree \ {w}
    BY <1>5 DEF Inv, WayInv
  <2> QED
    BY <1>1, <1>4, <2>1, <2>2 DEF Inv, WayInv
<1> QED
  BY <1>1, <1>2, <1>3, <1>6, <1>7, <1>8, GoneKept DEF Inv

\* A step of the inspection that changes nothing but what it has seen.
LEMMA InspKept ==
  ASSUME Inv, UNCHANGED <<trustVars, attemptRows, row, dirVars, prov>>,
         insp' \in InspType, shown' \in ShownType,
         insp'.pc # "none" => insp'.w \in Worktree /\ row[insp'.w].state = "Ready"
  PROVE  Inv'
<1>1. TrustInv' /\ CoreInv'
  BY TrustKept, CoreStill DEF Inv, TrustMove, Elsewhere
<1>2. GoneInv'
  BY StillReady, GoneKept DEF Inv
<1> QED
  BY <1>1, <1>2 DEF Inv, DiskTypeOK, WayTypeOK, WayInv

\* The inspection goes on with the same Worktree.
LEMMA InspGoesOn ==
  ASSUME Inv, InspOnly, insp.pc # "none", insp' \in InspType, insp'.w = insp.w
  PROVE  Inv'
BY InspKept DEF InspOnly, Inv, WayInv, WayTypeOK

LEMMA InspTyped ==
  ASSUME NEW i \in InspType, NEW b \in BOOLEAN, NEW c \in BOOLEAN,
         NEW pc \in {"facts", "manifest", "again", "done"}
  PROVE  /\ [i EXCEPT !.pc = pc] \in InspType /\ [i EXCEPT !.pc = pc].w = i.w
         /\ [i EXCEPT !.pc = pc, !.blocked = b] \in InspType
         /\ [i EXCEPT !.pc = pc, !.blocked = b].w = i.w
         /\ [i EXCEPT !.pc = pc, !.ahead = c, !.blocked = b] \in InspType
         /\ [i EXCEPT !.pc = pc, !.ahead = c, !.blocked = b].w = i.w
         /\ [i EXCEPT !.pc = pc, !.dirty = c] \in InspType
         /\ [i EXCEPT !.pc = pc, !.dirty = c].w = i.w
         /\ [i EXCEPT !.pc = pc, !.stable = c, !.blocked = b] \in InspType
         /\ [i EXCEPT !.pc = pc, !.stable = c, !.blocked = b].w = i.w
BY DEF InspType

LEMMA InspectionKept ==
  ASSUME Inv,
         \/ InspectIdentity \/ InspectFacts \/ InspectManifest \/ InspectAgain
  PROVE  Inv'
<1>1. /\ insp \in InspType /\ insp.pc # "none" /\ InspOnly /\ insp.w \in Worktree
      /\ insp.blocked \in BOOLEAN /\ insp.dirty \in BOOLEAN
  BY DEF InspectIdentity, InspectFacts, InspectManifest, InspectAgain, Inv, WayTypeOK, WayInv, InspType
<1>2. /\ disk[insp.w].ahead \in BOOLEAN /\ disk[insp.w].dirty \in BOOLEAN
      /\ disk[insp.w].branch \in BOOLEAN
  BY <1>1 DEF Inv, DiskTypeOK, DiskType
<1>e. InspEnds => insp' \in InspType /\ insp'.w = insp.w
  BY <1>1 DEF InspEnds, InspType
<1>a. CASE InspectIdentity
  <2>1. insp' = [insp EXCEPT !.pc = "facts"] \/ InspEnds
    BY <1>a DEF InspectIdentity
  <2>2. [insp EXCEPT !.pc = "facts"] \in InspType /\ [insp EXCEPT !.pc = "facts"].w = insp.w
    BY <1>1, InspTyped
  <2> QED
    BY <1>1, <1>e, <2>1, <2>2, InspGoesOn
<1>b. CASE InspectFacts
  <2>1. ASSUME NEW b \in BOOLEAN,
               insp' = [insp EXCEPT !.pc = "manifest", !.ahead = disk[insp.w].ahead, !.blocked = b]
        PROVE  insp' \in InspType /\ insp'.w = insp.w
    BY <1>1, <1>2, <2>1 DEF InspType
  <2>2. \/ InspEnds
        \/ \E b \in BOOLEAN :
             insp' = [insp EXCEPT !.pc = "manifest", !.ahead = disk[insp.w].ahead, !.blocked = b]
    BY <1>1, <1>2, <1>b DEF InspectFacts
  <2> QED
    BY <1>1, <1>e, <2>1, <2>2, InspGoesOn
<1>c. CASE InspectManifest
  <2>1. insp' = [insp EXCEPT !.pc = "again", !.dirty = disk[insp.w].dirty]
    BY <1>c DEF InspectManifest
  <2>2. insp \in InspType /\ disk[insp.w].dirty \in BOOLEAN
    BY <1>1, <1>2
  <2>3. insp' \in InspType /\ insp'.w = insp.w
    BY <2>1, <2>2 DEF InspType
  <2> QED
    BY <1>1, <2>3, InspGoesOn
<1>d. CASE InspectAgain
  <2>1. ASSUME NEW b \in BOOLEAN, NEW c \in BOOLEAN,
               insp' = [insp EXCEPT !.pc = "done", !.stable = c, !.blocked = b]
        PROVE  insp' \in InspType /\ insp'.w = insp.w
    BY <1>1, <2>1 DEF InspType
  <2>2. \/ InspEnds
        \/ \E b \in BOOLEAN, c \in BOOLEAN :
             insp' = [insp EXCEPT !.pc = "done", !.stable = c, !.blocked = b]
    BY <1>1, <1>2, <1>d DEF InspectAgain, Unchanged
  <2> QED
    BY <1>1, <1>e, <2>1, <2>2, InspGoesOn
<1> QED
  BY <1>a, <1>b, <1>c, <1>d

LEMMA InspStartKept ==
  ASSUME Inv, NEW w \in Worktree, NEW dispose \in BOOLEAN, InspectStart(w, dispose)
  PROVE  Inv'
<1>1. /\ row[w].state = "Ready" /\ row[w].version \in 0 .. 4 /\ LifecycleBlocked(w) \in BOOLEAN
      /\ insp' = [NoInsp EXCEPT !.pc = "identity", !.w = w, !.dispose = dispose,
                                !.version = row[w].version, !.blocked = LifecycleBlocked(w)]
  BY DEF InspectStart, Inv, CoreInv, RowType, LifecycleBlocked
<1>2. \A n \in 0 .. 4, b \in BOOLEAN :
        LET i == [NoInsp EXCEPT !.pc = "identity", !.w = w, !.dispose = dispose,
                                !.version = n, !.blocked = b]
        IN i \in InspType /\ i.w = w
  BY DEF NoInsp, InspType
<1>3. insp' \in InspType /\ insp'.w = w
  BY <1>1, <1>2
<1> QED
  BY <1>1, <1>3, InspKept DEF InspectStart, InspOnly, Inv, WayTypeOK

LEMMA ShownKept == ASSUME Inv, PreviewShown \/ DisposeRefused PROVE Inv'
<1>1. /\ UNCHANGED <<trustVars, attemptRows, row, dirVars, prov>>
      /\ insp' = NoInsp /\ insp.pc = "done"
      /\ shown' = shown \/ shown' = StateFingerprint \/ shown' = NoPreview
  BY DEF PreviewShown, DisposeRefused, InspOnly
<1>2. StateFingerprint \in ShownType
  <2>1. insp \in InspType /\ insp.w \in Worktree /\ row[insp.w] \in RowType
    BY <1>1 DEF Inv, WayTypeOK, WayInv, CoreInv
  <2> QED
    BY <2>1 DEF StateFingerprint, InspType, RowType, ShownType
<1> QED
  BY <1>1, <1>2, NothingTyped, InspKept DEF Inv, WayTypeOK

\* What a removal takes away is the directory its row names, Ready, unused and clean.
LEMMA RemovalIsSafe ==
  ASSUME Inv, NEW w \in Worktree, MayDispose(w), Removed(w)
  PROVE  /\ row[w].state = "Ready" /\ Users(w) = {} /\ DiskTypeOK'
         /\ destroyed' \in SUBSET GoneType
         /\ \A r \in destroyed' : \/ r \in destroyed
                                  \/ /\ r.w = w /\ r.dir = row[w].dir /\ ~r.dirty /\ r.users = {}
<1>1. /\ row[w].state = "Ready" /\ row[w].dir # None /\ row[w].dir \in Dir
  BY Bounds DEF MayDispose, Inv, WayInv, CoreInv, RowInv, RowShape, RowType, NoRow
<1>2. /\ Users(w) = {} /\ disk[w].dir = row[w].dir /\ ~disk[w].dirty /\ disk[w].dirty \in BOOLEAN
  BY DEF MayDispose, StillIdle, LifecycleBlocked, Removable, SamePlace, Inv, DiskTypeOK, DiskType
<1>3. DiskTypeOK'
  BY NothingTyped DEF Removed, Inv, DiskTypeOK
<1> DEFINE gone == [w |-> w, dir |-> disk[w].dir, dirty |-> disk[w].dirty, users |-> Users(w)]
<1>4. gone \in GoneType /\ gone.w = w /\ gone.dir = row[w].dir /\ ~gone.dirty /\ gone.users = {}
  BY <1>1, <1>2 DEF GoneType
<1>5. destroyed' = destroyed \union {gone} /\ destroyed \in SUBSET GoneType
  BY DEF Removed, Inv, GoneInv
<1> QED
  BY <1>1, <1>2, <1>3, <1>4, <1>5

LEMMA RemovedKept ==
  ASSUME Inv, NEW w \in Worktree, MayDispose(w), Removed(w), KeepsReady
  PROVE  GoneInv'
<1>1. \A r \in destroyed : r.w \in Worktree
  BY DEF Inv, GoneInv, GoneType
<1> QED
  BY <1>1, RemovalIsSafe DEF Inv, GoneInv, RemovalSafe, KeepsReady

LEMMA DisposeKept == ASSUME Inv, NEW w \in Worktree, Dispose(w) PROVE Inv'
<1>1. /\ MayDispose(w) /\ Removed(w) /\ insp' = NoInsp /\ insp.w = w
      /\ row' = DisposedRow(w) \/ row' = row
      /\ UNCHANGED <<trustVars, attemptRows, prov, shown>>
  BY DEF Dispose, MayDispose
<1>2. row[w].state = "Ready" /\ Users(w) = {} /\ DiskTypeOK'
  BY <1>1, RemovalIsSafe
<1>3. TrustInv' /\ CoreInv'
  BY <1>1, <1>2, TrustKept, CoreStill, CoreDisposed DEF Inv, TrustMove, Elsewhere
<1>4. /\ \A u \in Worktree \ {w} : row'[u] = row[u]
      /\ row'[w].state \in {"Ready", "Disposed"} /\ row'[w].dir = row[w].dir
  <2>1. row \in [Worktree -> RowType]
    BY DEF Inv, CoreInv
  <2> QED
    BY <1>1, <1>2, <2>1 DEF DisposedRow, RowType
<1>5. KeepsReady
  BY <1>4 DEF KeepsReady
<1>6. WayTypeOK' /\ WayInv'
  BY <1>1, <1>2, <1>4, NothingTyped DEF Inv, WayTypeOK, WayInv
<1> QED
  BY <1>1, <1>2, <1>3, <1>5, <1>6, RemovedKept DEF Inv

LEMMA EditTyped ==
  ASSUME NEW d \in DiskType, NEW b \in BOOLEAN
  PROVE  /\ [d EXCEPT !.dirty = b] \in DiskType /\ [d EXCEPT !.branch = b] \in DiskType
         /\ [d EXCEPT !.ahead = TRUE, !.dirty = FALSE] \in DiskType
         /\ (~d.dirty) \in BOOLEAN
<1>1. [d EXCEPT !.dirty = b] \in DiskType /\ [d EXCEPT !.branch = b] \in DiskType
  BY DEF DiskType
<1>2. [d EXCEPT !.ahead = TRUE, !.dirty = FALSE] \in DiskType
  BY DEF DiskType
<1>3. (~d.dirty) \in BOOLEAN
  OBVIOUS
<1> QED
  BY <1>1, <1>2, <1>3

LEMMA OutsideKept == ASSUME Inv, OutsideAction PROVE Inv'
<1>1. /\ UNCHANGED <<trustRows, repoVars, challenge, plan, attemptRows, row, destroyed, opVars>>
      /\ Outside(2)
  BY DEF OutsideAction, Edit, Occupied, Emptied, DiskOnly
<1>2. DiskTypeOK'
  <2>0. disk \in [Worktree -> DiskType] /\ made \in [Worktree -> Dir \union {None}]
    BY DEF Inv, DiskTypeOK
  <2>1. ASSUME NEW w \in Worktree, Edit(w) PROVE DiskTypeOK'
    <3>1. made' = made
      BY <2>1 DEF Edit
    <3>0. ASSUME NEW d \in DiskType, disk' = [disk EXCEPT ![w] = d] PROVE DiskTypeOK'
      BY <2>0, <3>0, <3>1 DEF DiskTypeOK
    <3>2. disk[w] \in DiskType /\ (~disk[w].dirty) \in BOOLEAN
      BY <2>0, EditTyped
    <3>3. \/ disk' = [disk EXCEPT ![w] = [disk[w] EXCEPT !.dirty = ~disk[w].dirty]]
          \/ disk' = [disk EXCEPT ![w] = [disk[w] EXCEPT !.ahead = TRUE, !.dirty = FALSE]]
          \/ disk' = [disk EXCEPT ![w] = [disk[w] EXCEPT !.branch = FALSE]]
      BY <2>0, <2>1 DEF Edit
    <3>4. /\ [disk[w] EXCEPT !.dirty = ~disk[w].dirty] \in DiskType
          /\ [disk[w] EXCEPT !.ahead = TRUE, !.dirty = FALSE] \in DiskType
          /\ [disk[w] EXCEPT !.branch = FALSE] \in DiskType
      BY <3>2, EditTyped
    <3> QED
      BY <3>0, <3>3, <3>4
  <2>2. ASSUME NEW w \in Worktree, Occupied(w) PROVE DiskTypeOK'
    BY <2>2, AppearsTyped DEF Occupied
  <2>3. ASSUME NEW w \in Worktree, Emptied(w) PROVE DiskTypeOK'
    BY <2>0, <2>3, NothingTyped DEF Emptied, DiskTypeOK
  <2> QED
    BY <2>1, <2>2, <2>3 DEF OutsideAction
<1>3. TrustInv' /\ CoreInv'
  BY <1>1, TrustKept, CoreStill DEF Inv, TrustMove, Elsewhere
<1> QED
  BY <1>1, <1>2, <1>3, StillReady, GoneKept DEF Inv, WayTypeOK, WayInv

LEMMA CrashKept == ASSUME Inv, Crash PROVE Inv'
<1>1. /\ UNCHANGED <<trustRows, repoVars, challenge, attemptRows, row, shown>> /\ Outside(2)
      /\ plan' = NoPlan /\ insp' = NoInsp
      /\ prov' = [w \in Worktree |-> IF prov[w].pc = "none" THEN NoProv ELSE CutOff]
      /\ \/ UNCHANGED dirVars
         \/ \E w \in Worktree : MayDispose(w) /\ Removed(w)
  BY DEF Crash
<1>2. TrustInv' /\ CoreInv'
  BY <1>1, TrustKept, CoreStill DEF Inv, TrustMove, Elsewhere
<1>3. WayTypeOK' /\ WayInv'
  BY <1>1, NothingTyped, CutOffTyped DEF Inv, WayTypeOK, WayInv
<1>4. DiskTypeOK' /\ GoneInv'
  <2>1. CASE UNCHANGED dirVars
    BY <1>1, <2>1, StillReady, GoneKept DEF Inv, DiskTypeOK
  <2>2. ASSUME NEW w \in Worktree, MayDispose(w), Removed(w) PROVE DiskTypeOK' /\ GoneInv'
    BY <1>1, <2>2, StillReady, RemovalIsSafe, RemovedKept
  <2> QED
    BY <1>1, <2>1, <2>2
<1> QED
  BY <1>2, <1>3, <1>4 DEF Inv

\* A step of Trust, the start of a plan, a revocation: nothing of the Worktrees moves.
LEMMA TrustOnlyKept == ASSUME Inv, TrustMove, UNCHANGED wtVars PROVE Inv'
<1>1. TrustInv' /\ CoreInv'
  BY TrustKept, CoreStill DEF Inv
<1> QED
  BY <1>1, StillReady, GoneKept DEF Inv, DiskTypeOK, WayTypeOK, WayInv

LEMMA InvNext == Inv /\ [Next]_vars => Inv'
<1> SUFFICES ASSUME Inv, [Next]_vars PROVE Inv'
  OBVIOUS
<1>1. CASE TrustAction /\ UNCHANGED wtVars
  BY <1>1, TrustOnlyKept DEF TrustMove
<1>2. CASE PlanBegins
  BY <1>2, TrustOnlyKept DEF PlanBegins, TrustMove
<1>3. CASE Revoke
  BY <1>3, TrustOnlyKept DEF Revoke, TrustMove
<1>4. CASE AcceptAction
  <2>1. CASE VerificationRefused
    BY <2>1, TrustOnlyKept DEF VerificationRefused, PlanDone, TrustMove, Elsewhere
  <2> QED
    BY <1>4, <2>1, AcceptKept DEF AcceptAction
<1>5. CASE AttemptAction
  BY <1>5, MovesKept
<1>6. CASE ProvisionAction
  BY <1>6, ProvisionerKept, CommitKept DEF ProvisionAction, ProvisionStep
<1>7. CASE InspectionAction
  BY <1>7, InspStartKept, InspectionKept, ShownKept, DisposeKept DEF InspectionAction
<1>8. CASE OutsideAction
  BY <1>8, OutsideKept
<1>9. CASE Crash
  BY <1>9, CrashKept
<1>10. CASE UNCHANGED vars
  BY <1>10, TrustOnlyKept DEF TrustMove, Elsewhere
<1> QED
  BY <1>1, <1>2, <1>3, <1>4, <1>5, <1>6, <1>7, <1>8, <1>9, <1>10 DEF Next

\* The inductive invariant holds in every reachable state.
LEMMA InvHolds == Spec => []Inv
BY Starts, InvNext, PTL DEF Spec

-----------------------------------------------------------------------------
(* The properties.                                                          *)

\* Every variable keeps its type, a row's version being bounded by its state and role
\* (fleet_worktrees, and the state of provisions, inspections and previews).
THEOREM WorktreesAreTyped == Spec => []TypeOK
<1>1. Inv => TypeOK
  BY InvTyped
<1> QED
  BY <1>1, InvHolds, PTL

\* A dispose takes no Worktree from an Attempt and no work from the user (dispose,
\* WorktreeDisposer).
THEOREM DisposalIsSafe == Spec => []DisposeSafe
<1>1. Inv => DisposeSafe
  BY DEF Inv, CoreInv, GoneInv, DisposeSafe
<1> QED
  BY <1>1, InvHolds, PTL

\* The steps that write a row.
LEMMA RowSteps ==
  ASSUME [Next]_vars
  PROVE  \/ UNCHANGED row
         \/ \E v \in Version, a \in Attempt, w \in Worktree : AcceptPlanned(v, a, w)
         \/ \E w \in Worktree : ProvisionCommit(w)
         \/ \E w \in Worktree : MayDispose(w) /\ row' = DisposedRow(w)
BY DEF Next, PlanBegins, Revoke, AcceptAction, AcceptContinue, VerificationRefused, AttemptAction,
       AttemptStarts, AttemptEnds, AttemptCancelled, DispositionSettled, Moves, ProvisionAction,
       ProvisionStep, ProvOnly, Preflight, WorktreeAdd, VerifyAdded, ObserveExisting,
       InspectionAction, InspOnly, InspectStart, InspectIdentity, InspectFacts, InspectManifest,
       InspectAgain, PreviewShown, DisposeRefused, Dispose, OutsideAction, Edit, Occupied,
       Emptied, DiskOnly, Crash

\* A Worktree is declared Ready as the directory that was provisioned, of the confirmed
\* Repository, on its branch and at its base commit (#provisionAndCommit, verify).
THEOREM DeclaredAsPlanned == Spec => ReadyIsAsPlanned
<1>1. ASSUME Inv, [Next]_vars, NEW w \in Worktree,
             row[w].state # "Ready", row'[w].state = "Ready"
      PROVE  /\ Active(row[w].trust)
             /\ disk[w].dir = row'[w].dir /\ disk[w].repo = workspace[row[w].trust]
             /\ disk[w].branch /\ ~disk[w].ahead
             /\ root = confirmed[row[w].trust]
  <2>0. row \in [Worktree -> RowType] /\ row[w] \in RowType
    BY <1>1 DEF Inv, CoreInv
  <2>1. CASE \E v \in Version, a \in Attempt, u \in Worktree : AcceptPlanned(v, a, u)
    BY <1>1, <2>0, <2>1 DEF AcceptPlanned, NoRow, RowType
  <2>2. CASE \E u \in Worktree : MayDispose(u) /\ row' = DisposedRow(u)
    BY <1>1, <2>0, <2>2 DEF DisposedRow, RowType
  <2>3. ASSUME NEW u \in Worktree, ProvisionCommit(u) PROVE u = w
    BY <1>1, <2>3, CommitRows
  <2>4. ASSUME ProvisionCommit(w)
        PROVE  /\ Active(row[w].trust) /\ ReadyVerified(w)
               /\ row'[w].dir = prov[w].dir
    <3>1. CASE \E s \in {"Failed", "Orphaned"} : row' = Ends(w, s)
      BY <1>1, <2>0, <3>1 DEF Ends, RowType
    <3>2. CASE row' = MadeReady(w, "Active", Demoted(w)) \/ row' = MadeReady(w, "Historical", row)
      <4>1. row'[w].dir = prov[w].dir
        <5>1. CASE row' = MadeReady(w, "Active", Demoted(w))
          <6>1. Demoted(w) = [Demoted(w) EXCEPT ![w] = row[w]] /\ Demoted(w)[w] = row[w]
            BY <2>0 DEF Demoted
          <6>2. row[w].dir \in Dir \union {None} /\ w \in DOMAIN Demoted(w)
            BY <2>0 DEF Demoted, RowType
          <6> QED
            BY <2>0, <5>1, <6>1, <6>2 DEF MadeReady, RowType
        <5>2. CASE row' = MadeReady(w, "Historical", row)
          BY <2>0, <5>2 DEF MadeReady, RowType
        <5> QED
          BY <3>2, <5>1, <5>2
      <4>2. row' # row
        BY <1>1
      <4>3. row'[w].state = "Ready"
        BY <1>1
      <4>4. \A s \in {"Failed", "Orphaned"} : row' # Ends(w, s)
        BY <2>0, <4>3 DEF Ends, RowType
      <4> QED
        BY <1>1, <2>4, <4>1, <4>2, <4>4, CommitCases
    <3> QED
      BY <1>1, <2>4, <3>1, <3>2, CommitCases
  <2> QED
    BY <1>1, <2>1, <2>2, <2>3, <2>4, RowSteps
       DEF ReadyVerified, RepositoryInPlace, LinkedHere, AsPlanned
<1>2. Inv /\ [Next]_vars =>
        [\A w \in Worktree :
           row[w].state # "Ready" /\ row'[w].state = "Ready" =>
             /\ Active(row[w].trust)
             /\ disk[w].dir = row'[w].dir /\ disk[w].repo = workspace[row[w].trust]
             /\ disk[w].branch /\ ~disk[w].ahead
             /\ root = confirmed[row[w].trust]]_vars
  BY <1>1
<1> QED
  BY <1>2, InvHolds, PTL DEF Spec, ReadyIsAsPlanned

LEMMA TrustSteps == ASSUME [Next]_vars PROVE TrustMove
<1>1. CASE AcceptAction
  <2>1. plan' = NoPlan /\ UNCHANGED <<trustRows, diskVars, challenge>>
    <3>1. ASSUME NEW v \in Version, NEW a \in Attempt, NEW w \in Worktree,
                 AcceptPlanned(v, a, w) \/ AcceptContinue(v, a, w)
          PROVE  plan' = NoPlan /\ UNCHANGED <<trustRows, diskVars, challenge>>
      BY <3>1 DEF AcceptPlanned, AcceptContinue, Verified, PlanDone
    <3>2. CASE VerificationRefused
      BY <3>2 DEF VerificationRefused, PlanDone
    <3> QED
      BY <1>1, <3>1, <3>2 DEF AcceptAction
  <2> QED
    BY <2>1 DEF TrustMove, Elsewhere
<1>2. CASE AttemptAction
  BY <1>2 DEF AttemptAction, AttemptStarts, AttemptEnds, AttemptCancelled, DispositionSettled,
              Moves, TrustMove, Elsewhere
<1>3. CASE ProvisionAction
  <2>1. UNCHANGED trustVars
    BY <1>3 DEF ProvisionAction, ProvisionStep, Preflight, WorktreeAdd, VerifyAdded,
                ObserveExisting, ProvisionCommit, ProvOnly
  <2> QED
    BY <2>1 DEF TrustMove, Elsewhere
<1>4. CASE InspectionAction
  BY <1>4 DEF InspectionAction, InspectStart, InspectIdentity, InspectFacts, InspectManifest,
              InspectAgain, InspOnly, PreviewShown, DisposeRefused, Dispose, TrustMove, Elsewhere
<1>5. CASE OutsideAction \/ Crash
  BY <1>5 DEF OutsideAction, Edit, Occupied, Emptied, DiskOnly, Crash, TrustMove, Elsewhere
<1>6. CASE TrustAction \/ PlanBegins \/ Revoke
  BY <1>6 DEF PlanBegins, Revoke, TrustMove
<1>7. CASE UNCHANGED vars
  BY <1>7 DEF TrustMove, Elsewhere
<1> QED
  BY <1>1, <1>2, <1>3, <1>4, <1>5, <1>6, <1>7 DEF Next

\* What a grant freezes is the one Repository of the root the user confirmed, however it
\* is replaced while it is read, as long as no .git comes back (validateRepository).
THEOREM WorkspaceIsConfirmed == Spec => BoundToConfirmed
<1>1. ASSUME Inv, [Next]_vars, NEW v \in Version,
             workspace[v] = NoId, workspace'[v] # NoId, ~plan.putBack
      PROVE  headOf'[v] = workspace'[v] /\ <<confirmed[v], workspace'[v]>> \in owned
  <2>1. TrustMove
    BY <1>1, TrustSteps
  <2>2. /\ ValidationCommit /\ plan.result = "ok" /\ ActivateWithWorkspace(plan.version)
    BY <1>1, <2>1
       DEF TrustMove, TrustAction, IssueTrustChallenge, ConfirmTrust, ExpireChallenge, PlanAction,
           RootChecked, CommonRead, RefsRead, RootRechecked, CommonRechecked, ObjectVerified,
           AtStep, ValidationCommit, RecordValidationFailure, InspectionEnds, ReplaceRepository,
           PlanStart, RevokeTrust, Elsewhere
  <2>3. /\ plan.version \in Version /\ OneReading
        /\ plan.pc = "settle" /\ plan.purpose = "activate"
    BY <1>1, <2>2 DEF Inv, TrustInv, PlanInv, ValidationCommit, PlanDone
  <2>4. v = plan.version /\ headOf'[v] = plan.refs /\ workspace'[v] = plan.common
    BY <1>1, <2>2, <2>3 DEF ActivateWithWorkspace, Inv, TrustInv, TrustTypeOK
  <2> QED
    BY <2>2, <2>3, <2>4 DEF OneReading
<1>2. Inv /\ [Next]_vars =>
        [\A v \in Version : workspace[v] = NoId /\ workspace'[v] # NoId /\ ~plan.putBack =>
           /\ headOf'[v] = workspace'[v]
           /\ <<confirmed[v], workspace'[v]>> \in owned]_trustVars
  BY <1>1
<1> QED
  BY <1>2, InvHolds, PTL DEF Spec, BoundToConfirmed

\* A row belongs to a grant that is or was Active, and a planned one is being provisioned
\* unless a crash cut that off or the grant was revoked.
ServedInv ==
  \A w \in Worktree :
    /\ row[w].state # "None" => trust[row[w].trust] \in {"Active", "Revoked"}
    /\ row[w].state = "Planned" => prov[w].pc # "none" \/ trust[row[w].trust] = "Revoked"

\* A step that plans no Worktree and takes no provision away from a planned one.
LEMMA ServedKept ==
  ASSUME Inv, ServedInv, TrustMove,
         \A w \in Worktree :
           /\ row'[w].state # "None" => row[w].state # "None" /\ row'[w].trust = row[w].trust
           /\ row'[w].state = "Planned" => row[w].state = "Planned" /\ (prov[w].pc # "none" => prov'[w].pc # "none")
  PROVE  ServedInv'
<1>1. \A w \in Worktree : row[w].state # "None" => row[w].trust \in Version
  BY DEF Inv, CoreInv, RowInv
<1>2. \A v \in Version : trust[v] \in {"Active", "Revoked"} => trust'[v] = trust[v] \/ trust'[v] = "Revoked"
  BY GrantStays DEF Inv
<1> QED
  BY <1>1, <1>2 DEF ServedInv

\* The transaction keeps the grant of every row, and the row it decides is not Planned.
LEMMA CommitWrites ==
  ASSUME Inv, NEW w \in Worktree, ProvisionCommit(w)
  PROVE  /\ \A u \in Worktree : row'[u].trust = row[u].trust
         /\ \/ row' = MadeReady(w, "Active", Demoted(w)) \/ row' = MadeReady(w, "Historical", row)
            \/ \E s \in {"Failed", "Orphaned"} : row' = Ends(w, s)
            => row'[w].state # "Planned"
<1>0. row \in [Worktree -> RowType] /\ \A u \in Worktree : row[u] \in RowType
  BY DEF Inv, CoreInv
<1>1. CASE row' = MadeReady(w, "Active", Demoted(w))
  <2>1. /\ row'[w] = ReadyRow(row[w], "Active", row[w].version + 1, prov[w].dir)
        /\ \A u \in Worktree \ {w} :
             row'[u] = DemotedRow(row[u], row[u].version + 1) \/ row'[u] = row[u]
    BY <1>0, <1>1 DEF MadeReady, Demoted, ReadyRow, DemotedRow
  <2>2. row'[w].trust = row[w].trust /\ row'[w].state = "Ready"
    BY <1>0, <2>1 DEF ReadyRow, RowType
  <2>3. \A u \in Worktree \ {w} : row'[u].trust = row[u].trust
    BY <1>0, <2>1 DEF DemotedRow, RowType
  <2> QED
    BY <2>2, <2>3
<1>2. CASE row' = MadeReady(w, "Historical", row)
  BY <1>0, <1>2 DEF MadeReady, RowType
<1>3. CASE \E s \in {"Failed", "Orphaned"} : row' = Ends(w, s)
  BY <1>0, <1>3 DEF Ends, RowType
<1>4. CASE row' = row /\ row'[w].state = "Planned"
  <2>1. row' # MadeReady(w, "Active", Demoted(w)) /\ row' # MadeReady(w, "Historical", row)
    <3>1. (MadeReady(w, "Active", Demoted(w)))[w].state = "Ready"
          /\ (MadeReady(w, "Historical", row))[w].state = "Ready"
      BY <1>0 DEF MadeReady, Demoted, RowType
    <3> QED
      BY <1>4, <3>1
  <2>2. \A s \in {"Failed", "Orphaned"} : row' # Ends(w, s)
    BY <1>0, <1>4 DEF Ends, RowType
  <2> QED
    BY <1>4, <2>1, <2>2
<1> QED
  BY <1>1, <1>2, <1>3, <1>4, CommitCases

LEMMA ServedNext == ASSUME Inv, ServedInv, [Next]_vars PROVE ServedInv'
<1>0. TrustMove /\ row \in [Worktree -> RowType] /\ prov \in [Worktree -> ProvType]
  BY TrustSteps DEF Inv, CoreInv, WayTypeOK
<1>1. ASSUME NEW v \in Version, NEW a \in Attempt, NEW w \in Worktree, AcceptPlanned(v, a, w)
      PROVE  ServedInv'
  <2>1. /\ trust' = trust /\ trust[v] = "Active" /\ row[w] = NoRow
        /\ row'[w].trust = v /\ prov'[w].pc # "none"
        /\ \A u \in Worktree \ {w} : row'[u] = row[u] /\ prov'[u] = prov[u]
    BY <1>0, <1>1 DEF AcceptPlanned, LaunchAllowed, Active, FreshWorktree, ProvisionBegins,
                      NoProv, NoRow
  <2> QED
    BY <2>1 DEF ServedInv
<1>2. ASSUME NEW w \in Worktree, ProvisionCommit(w) PROVE ServedInv'
  <2>1. /\ \A u \in Worktree \ {w} : prov'[u] = prov[u] /\ row'[u].state = row[u].state
        /\ \A u \in Worktree : row'[u].trust = row[u].trust
        /\ row[w].state = "Planned" /\ trust' = trust
    BY <1>0, <1>2, CommitCases, CommitRows, CommitWrites DEF ProvisionCommit
  <2>2. row'[w].state = "Planned" => trust[row[w].trust] = "Revoked"
    <3>1. CASE ~Context(w)
      BY <2>1, <3>1, Bounds DEF Context, Active, ServedInv, Inv, CoreInv, RowInv
    <3>2. CASE Context(w)
      <4>1. WorktreeCan(row[w].state, "Ready")
        BY <2>1 DEF WorktreeCan, WorktreeNext
      <4>2. \/ row' = MadeReady(w, "Active", Demoted(w)) \/ row' = MadeReady(w, "Historical", row)
            \/ \E s \in {"Failed", "Orphaned"} : row' = Ends(w, s)
        BY <1>2, <3>2, <4>1 DEF ProvisionCommit, CommitReady, CommitFailure
      <4> QED
        BY <1>2, <4>2, CommitWrites
    <3> QED
      BY <3>1, <3>2
  <2> QED
    BY <2>1, <2>2 DEF ServedInv
<1>3. ASSUME NEW w \in Worktree, MayDispose(w), Dispose(w) PROVE ServedInv'
  <2>1. /\ prov' = prov /\ \A u \in Worktree : row'[u].trust = row[u].trust
        /\ \A u \in Worktree : row'[u].state = row[u].state \/ row'[u].state = "Disposed"
        /\ row[w].state = "Ready"
        /\ \A u \in Worktree \ {w} : row'[u] = row[u]
    BY <1>0, <1>3, RemovalIsSafe DEF Dispose, DisposedRow, RowType
  <2> QED
    BY <1>0, <2>1, ServedKept
<1>4. CASE UNCHANGED row /\ \A w \in Worktree : prov[w].pc # "none" => prov'[w].pc # "none"
  BY <1>0, <1>4, ServedKept
<1>5. CASE Crash
  BY <1>4, <1>5, CutOffTyped DEF Crash
<1>6. ASSUME NEW w \in Worktree,
             \/ Preflight(w) \/ WorktreeAdd(w) \/ VerifyAdded(w) \/ ObserveExisting(w)
      PROVE  ServedInv'
  <2>0. /\ UNCHANGED row
        /\ \/ \E step \in {"add", "verify"} : ProvTo(w, step)
           \/ \E res, d : ProvEnds(w, res, d)
    BY <1>6 DEF Preflight, WorktreeAdd, VerifyAdded, ObserveExisting, ProvOnly, GitFailed
  <2>1. UNCHANGED row /\ \A u \in Worktree : prov[u].pc # "none" => prov'[u].pc # "none"
    <3>1. CASE \E step \in {"add", "verify"} : ProvTo(w, step)
      <4>1. PICK step \in {"add", "verify"} : ProvTo(w, step)
        BY <3>1
      <4>2. \A p \in ProvType : [p EXCEPT !.pc = step].pc = step
        BY DEF ProvType
      <4>3. prov' = [prov EXCEPT ![w] = [prov[w] EXCEPT !.pc = step]]
        BY <4>1 DEF ProvTo
      <4> QED
        BY <1>0, <2>0, <4>2, <4>3
    <3>2. CASE \E res, d : ProvEnds(w, res, d)
      <4>1. PICK res, d : ProvEnds(w, res, d)
        BY <3>2
      <4>2. \A p \in ProvType : [p EXCEPT !.pc = "commit", !.result = res, !.dir = d].pc = "commit"
        BY DEF ProvType
      <4>3. prov' = [prov EXCEPT ![w] = [prov[w] EXCEPT !.pc = "commit", !.result = res, !.dir = d]]
        BY <4>1 DEF ProvEnds
      <4> QED
        BY <1>0, <2>0, <4>2, <4>3
    <3> QED
      BY <2>0, <3>1, <3>2
  <2> QED
    BY <1>4, <2>1
<1>7. CASE InspectionAction
  BY <1>3, <1>4, <1>7 DEF InspectionAction, InspOnly, InspectStart, InspectIdentity, InspectFacts,
                          InspectManifest, InspectAgain, PreviewShown, DisposeRefused, Dispose
<1> QED
  BY <1>1, <1>2, <1>4, <1>5, <1>6, <1>7
     DEF Next, PlanBegins, Revoke, AcceptAction, AcceptContinue, VerificationRefused, AttemptAction,
         AttemptStarts, AttemptEnds, AttemptCancelled, DispositionSettled, Moves, ProvisionAction,
         ProvisionStep, OutsideAction, Edit, Occupied, Emptied, DiskOnly

\* An Attempt that waits was not left behind by a provision that ended: only a crash or a
\* revocation during it can do that (commitProvisioned, commitProvisionFailure,
\* #failQueuedAttempt).
THEOREM WaitingIsServed == Spec => []QueuedIsServed
<1>1. Init => ServedInv
  BY DEF Init, ServedInv, NoRow
<1>2. Inv /\ ServedInv /\ [Next]_vars => ServedInv'
  BY ServedNext
<1>3. Inv /\ ServedInv => QueuedIsServed
  BY Bounds DEF Inv, CoreInv, BindInv, QueuedKeepsWorktree, ServedInv, QueuedIsServed
<1> QED
  BY <1>1, <1>2, <1>3, InvHolds, PTL DEF Spec

\* An Attempt is accepted only under an Active grant.
LEMMA AcceptedActive ==
  ASSUME Inv, [Next]_vars, NEW a \in Attempt, attempt[a] = "none", attempt'[a] # "none"
  PROVE  \E v \in Version : Active(v) /\ row'[bound'[a]].trust = v
<1>0. /\ row \in [Worktree -> RowType] /\ attempt \in [Attempt -> AttemptPhase]
      /\ bound \in [Attempt -> Worktree \union {None}]
  BY DEF Inv, CoreInv
<1>1. CASE UNCHANGED attempt
  BY <1>1
<1>2. ASSUME NEW w \in Worktree, ProvisionCommit(w) PROVE attempt'[a] = attempt[a]
  BY <1>0, <1>2, CommitCases DEF FailQueued
<1>3. CASE AttemptAction
  BY <1>0, <1>3 DEF AttemptAction, AttemptStarts, AttemptEnds, AttemptCancelled,
                    DispositionSettled, Moves
<1>4. ASSUME NEW v \in Version, NEW b \in Attempt, NEW w \in Worktree, AcceptPlanned(v, b, w)
      PROVE  Active(v) /\ row'[bound'[a]].trust = v
  <2>1. a = b
    BY <1>0, <1>4 DEF AcceptPlanned
  <2>2. bound'[a] = w
    BY <1>0, <1>4, <2>1 DEF AcceptPlanned
  <2>3. row'[w].trust = v
    BY <1>0, <1>4 DEF AcceptPlanned, NoRow
  <2> QED
    BY <1>4, <2>2, <2>3 DEF AcceptPlanned, LaunchAllowed
<1>5. ASSUME NEW v \in Version, NEW b \in Attempt, NEW w \in Worktree, AcceptContinue(v, b, w)
      PROVE  Active(v) /\ row'[bound'[a]].trust = v
  <2>1. a = b /\ bound'[a] = w
    BY <1>0, <1>5 DEF AcceptContinue
  <2> QED
    BY <1>5, <2>1 DEF AcceptContinue, LaunchAllowed
<1> QED
  BY <1>1, <1>2, <1>3, <1>4, <1>5
     DEF Next, PlanBegins, Revoke, AcceptAction, VerificationRefused, ProvisionAction, ProvisionStep,
         ProvOnly, Preflight, WorktreeAdd, VerifyAdded, ObserveExisting,
         InspectionAction, InspOnly, InspectStart, InspectIdentity, InspectFacts, InspectManifest,
         InspectAgain, PreviewShown, DisposeRefused, Dispose, OutsideAction, Edit, Occupied,
         Emptied, DiskOnly, Crash

\* A row of a revoked grant is not written any more.
LEMMA RevokedRows ==
  ASSUME Inv, [Next]_vars, NEW v \in Version, trust[v] = "Revoked",
         NEW w \in Worktree, row[w].trust = v
  PROVE  row'[w] = row[w]
<1>0. row \in [Worktree -> RowType] /\ ~Active(v) /\ row[w] # NoRow
  BY Bounds DEF Inv, CoreInv, Active, NoRow
<1>1. CASE \E u \in Version, a \in Attempt, x \in Worktree : AcceptPlanned(u, a, x)
  BY <1>0, <1>1 DEF AcceptPlanned, FreshWorktree
<1>2. CASE \E u \in Worktree : MayDispose(u) /\ row' = DisposedRow(u)
  BY <1>0, <1>2 DEF MayDispose, Context, DisposedRow
<1>3. ASSUME NEW u \in Worktree, ProvisionCommit(u) PROVE row'[w] = row[w]
  <2>1. CASE UNCHANGED row
    BY <2>1
  <2>2. CASE ~UNCHANGED row
    <3>1. Active(row[u].trust)
      BY <1>3, <2>2, CommitCases
    <3>2. u # w /\ row[u].trust # row[w].trust
      BY <1>0, <3>1
    <3> QED
      BY <1>3, <3>2, CommitRows
  <2> QED
    BY <2>1, <2>2
<1> QED
  BY <1>1, <1>2, <1>3, RowSteps

\* After a revocation nothing new begins under that grant (context, #workspace).
THEOREM RevocationIsFinal == Spec => RevokedIsInert
<1>1. ASSUME Inv, [Next]_vars, NEW v \in Version, trust[v] = "Revoked"
      PROVE  /\ trust'[v] = "Revoked"
             /\ \A w \in Worktree : row[w].trust = v /\ row'[w] # row[w] => FALSE
             /\ \A a \in Attempt : attempt[a] = "none" /\ attempt'[a] # "none" =>
                                     row'[bound'[a]].trust # v
  <2>1. trust'[v] = "Revoked"
    BY <1>1, TrustSteps, GrantStays DEF Inv
  <2>2. \A w \in Worktree : row[w].trust = v => row'[w] = row[w]
    BY <1>1, RevokedRows
  <2>3. \A a \in Attempt : attempt[a] = "none" /\ attempt'[a] # "none" => row'[bound'[a]].trust # v
    BY <1>1, AcceptedActive DEF Active
  <2> QED
    BY <2>1, <2>2, <2>3
<1>2. Inv /\ [Next]_vars =>
        [\A v \in Version : trust[v] = "Revoked" =>
           /\ trust'[v] = "Revoked"
           /\ \A w \in Worktree : row[w].trust = v /\ row'[w] # row[w] => FALSE
           /\ \A a \in Attempt : attempt[a] = "none" /\ attempt'[a] # "none" =>
                                   row'[bound'[a]].trust # v]_vars
  BY <1>1
<1> QED
  BY <1>2, InvHolds, PTL DEF Spec, RevokedIsInert


\* A row that has ended is not written any more.
Ended == {"Failed", "Orphaned", "Disposed"}

LEMMA EndedStays ==
  ASSUME Inv, [Next]_vars, NEW w \in Worktree, row[w].state \in Ended
  PROVE  row'[w].state = row[w].state
<1>0. row \in [Worktree -> RowType]
  BY DEF Inv, CoreInv
<1>1. CASE \E u \in Version, a \in Attempt, x \in Worktree : AcceptPlanned(u, a, x)
  BY <1>0, <1>1 DEF AcceptPlanned, FreshWorktree, NoRow, Ended
<1>2. CASE \E u \in Worktree : MayDispose(u) /\ row' = DisposedRow(u)
  <2>1. PICK u \in Worktree : MayDispose(u) /\ row' = DisposedRow(u)
    BY <1>2
  <2>2. u # w
    BY <2>1 DEF MayDispose, Inv, WayInv, Ended
  <2> QED
    BY <1>0, <2>1, <2>2 DEF DisposedRow
<1>3. ASSUME NEW u \in Worktree, ProvisionCommit(u) PROVE row'[w].state = row[w].state
  <2>1. u # w
    BY <1>3, CommitCases DEF Ended
  <2> QED
    BY <1>3, <2>1, CommitRows
<1> QED
  BY <1>1, <1>2, <1>3, RowSteps

\* A Worktree that has failed, is orphaned or was disposed of never comes back: its row
\* keeps that state, and no Attempt is ever queued on it, nor is one alive in a disposed
\* one, whatever provision or dispose was under way (commitProvisioned,
\* commitProvisionFailure, dispose).
THEOREM EndedWorktreeStays ==
  ASSUME NEW w \in Worktree, NEW s \in Ended
  PROVE  Spec => [](row[w].state = s =>
                      [](/\ row[w].state = s
                         /\ \A a \in Attempt : bound[a] = w =>
                              /\ attempt[a] # "Queued"
                              /\ s = "Disposed" => attempt[a] \notin {"Live", "Uncertain"}))
<1> DEFINE Gone == \A a \in Attempt : bound[a] = w =>
                      /\ attempt[a] # "Queued"
                      /\ s = "Disposed" => attempt[a] \notin {"Live", "Uncertain"}
<1>1. Inv /\ row[w].state = s /\ [Next]_vars => (row[w].state = s)'
  BY EndedStays
<1>2. Inv /\ row[w].state = s => Gone
  BY DEF Inv, CoreInv, QueuedKeepsWorktree, BusyNotDisposed, Ended
<1> HIDE DEF Gone
<1> QED
  BY <1>1, <1>2, InvHolds, PTL DEF Spec, Gone
================================================================================
