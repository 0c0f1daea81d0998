------------------------ MODULE LaunchConfirmation_proofs -----------------------
(***************************************************************************)
(* What LaunchConfirmation promises, for any number of commands, requests, *)
(* challenges and executables: a launch command makes one Attempt, and an  *)
(* Attempt is accepted, and its Agent let go, as the user confirmed it.    *)
(***************************************************************************)
EXTENDS LaunchConfirmation, TLAPS

USE DEF vars, factVars, confirmVars, attemptVars, hostVars, memVars

\* What is issued has a command; an Attempt there is was signed for, and one that is being
\* launched has its Worktree.
RowInv ==
  /\ RowsAgree
  /\ \A ch \in Challenge : challenge[ch] # "none" => plan[ch].cmd \in Command
  /\ \A a \in Challenge : /\ attempt[a] = "none" => worktree[a] = "none"
                          /\ attempt[a] # "none" => consent[a] = "signed"
                          /\ attempt[a] = "Starting" => worktree[Target(a)] = "Ready"

\* A request executes an issued challenge; the one that provisions is alone with its
\* Planned Worktree, and one past the transaction finds the record.
HandlerInv ==
  /\ \A h \in Handler : handler[h].pc # "none" => handler[h].ch \in Challenge /\ challenge[handler[h].ch] # "none"
  /\ \A h \in Handler : handler[h].pc \in {"provision", "answer"} => attempt[handler[h].ch] # "none"
  /\ \A h \in Handler : handler[h].pc = "provision" =>
       /\ worktree[handler[h].ch] = "Planned"
       /\ \A g \in Handler : handler[g].pc = "provision" /\ handler[g].ch = handler[h].ch => g = h

BuildInv ==
  /\ build.pc # "none" => build.plan.cmd \in Command
  /\ build.pc = "tree" => build.plan.target \in Attempt

\* While an Attempt is being launched, its revalidation has seen everything the executable
\* and the Worktree have been since it began, and what it has passed is among that.
CheckInv ==
  check.pc # "none" =>
    /\ check.a \in Challenge
    /\ attempt[check.a] = "Starting" =>
         /\ check.pc # "facts" => env \in check.envs /\ tree[Target(check.a)] \in check.prints
         /\ check.pc \in {"tree", "commit"} => plan[check.a].env \in check.envs
         /\ check.pc = "commit" => Expected(check.a) \in check.prints

Inv == TypeOK /\ RowInv /\ HandlerInv /\ BuildInv /\ CheckInv

\* Everything in TypeOK but how the rows agree.
Typed ==
  /\ task \in [lifecycle : {"Draft", "Runnable", "Cancelled"}, version : Nat]
  /\ trusted \in BOOLEAN
  /\ profile \in [version : Nat, deleted : BOOLEAN]
  /\ challenge \in [Challenge -> {"none", "open", "consumed", "expired"}]
  /\ plan \in [Challenge -> Plan]
  /\ record \in [Command -> Challenge \union {None}]
  /\ attempt \in [Attempt -> {"none", "Queued", "Starting", "Live", "Ended"}]
  /\ worktree \in [Attempt -> {"none", "Planned", "Ready", "Failed", "Disposed"}]
  /\ active \in Attempt \union {None}
  /\ env \in Env /\ tree \in [Attempt -> Fingerprint]
  /\ consent \in [Challenge -> {"none", "signed"}]
  /\ changes \in 0 .. MaxChanges
  /\ build \in [pc : {"none", "base", "tree", "discover", "probe"}, plan : Plan]
  /\ handler \in [Handler -> [pc : {"none", "env", "tree", "commit", "provision", "answer"},
                              ch : Challenge \union {None}]]
  /\ check \in [pc : {"none", "facts", "env", "tree", "commit"}, a : Challenge \union {None},
                envs : SUBSET Env, prints : SUBSET Fingerprint]
  /\ told \in [Command -> Challenge \union {None}]

LEMMA TypeIs == TypeOK <=> RowsAgree /\ Typed
BY DEF TypeOK, Typed

LEMMA InvNext == Typed' /\ RowInv' /\ HandlerInv' /\ BuildInv' /\ CheckInv' => Inv'
BY DEF TypeOK, Typed, Inv, RowInv

LEMMA Numbers == /\ Challenge \subseteq Attempt /\ Past \in Attempt /\ None \notin Attempt
                 /\ \A a \in Attempt : a = Past \/ a \in Challenge
BY ConfirmationBounds DEF Challenge, Attempt, Past, None

LEMMA InitInv == Init => Inv
<1> SUFFICES ASSUME Init PROVE Inv
  OBVIOUS
<1>1. NoPlan \in Plan
  BY DEF NoPlan, Plan, Kind, Fingerprint
<1>2. Typed
  BY <1>1, Numbers, ConfirmationBounds
  DEF Init, Typed, NoBuild, Idle, NoCheck, Fingerprint
<1>3. RowInv
  <2>1. \A a \in Challenge : a # Past /\ attempt[a] = "none" /\ worktree[a] = "none" /\ challenge[a] = "none"
    BY Numbers DEF Init, Past, Challenge
  <2>2. \A c \in Command : record[c] = None
    BY DEF Init
  <2>3. active # None => worktree[active] = "Ready"
    BY Numbers DEF Init
  <2> QED
    BY <2>1, <2>2, <2>3 DEF RowInv, RowsAgree
<1> QED
  BY <1>2, <1>3, TypeIs DEF Init, Inv, RowInv, HandlerInv, BuildInv, CheckInv, NoBuild, Idle, NoCheck
-----------------------------------------------------------------------------
(* Building a plan, and the user.                                           *)

rowVars == <<challenge, plan, consent, record, attempt, worktree, active>>

LEMMA RowsUnchanged == RowInv /\ UNCHANGED rowVars => RowInv'
BY DEF RowInv, RowsAgree, rowVars, Target

LEMMA HandlersUnchanged ==
  HandlerInv /\ UNCHANGED <<handler, challenge, attempt, worktree>> => HandlerInv'
BY DEF HandlerInv

LEMMA CheckUnchanged ==
  CheckInv /\ UNCHANGED <<check, attempt, plan, env, tree>> => CheckInv'
BY DEF CheckInv, Target, Expected

LEMMA BuildKeeps ==
  ASSUME Inv, BuildOnly, build' \in [pc : {"none", "base", "tree", "discover", "probe"}, plan : Plan], BuildInv'
  PROVE  Inv'
<1>1. RowInv' /\ HandlerInv' /\ CheckInv'
  BY RowsUnchanged, HandlersUnchanged, CheckUnchanged DEF Inv, BuildOnly, rowVars
<1>2. Typed'
  BY TypeIs DEF Inv, Typed, BuildOnly
<1> QED
  BY <1>1, <1>2, InvNext

LEMMA BuildStepKeeps ==
  ASSUME Inv, BuildAction, ~IssueChallenge PROVE Inv'
<1>0. build \in [pc : {"none", "base", "tree", "discover", "probe"}, plan : Plan] /\ BuildInv
  BY TypeIs DEF Inv, Typed
<1> DEFINE B == [pc : {"none", "base", "tree", "discover", "probe"}, plan : Plan]
           Goal == BuildOnly /\ build' \in B /\ BuildInv'
<1>1. ASSUME NEW cmd \in Command, NEW kind \in Kind, NEW source \in Attempt \union {None},
             BuildPlan(cmd, kind, source)
      PROVE  Goal
  <2>1. task.version \in Nat
    BY TypeIs DEF Inv, Typed
  <2> QED
    BY <1>1, <2>1 DEF BuildPlan, BuildInv, NoPlan, Plan, Fingerprint
<1>2. ASSUME BaseVerified PROVE Goal
  <2>1. ActiveWorktree \subseteq Attempt
    BY TypeIs DEF Inv, Typed, ActiveWorktree
  <2>2. BuildOnly /\ build.pc # "none" /\ build.plan \in Plan /\ build.plan.cmd \in Command
    BY <1>0, <1>2 DEF BaseVerified, BuildInv
  <2>3. CASE build' = [build EXCEPT !.pc = "discover"]
    BY <1>0, <2>2, <2>3 DEF BuildInv
  <2>4. ASSUME NEW target \in ActiveWorktree, build' = [build EXCEPT !.pc = "tree", !.plan.target = target]
        PROVE  Goal
    <3>1. target \in Attempt
      BY <2>1
    <3>2. /\ [build.plan EXCEPT !.target = target] \in Plan /\ [build.plan EXCEPT !.target = target].cmd \in Command
          /\ [build.plan EXCEPT !.target = target].target = target
      BY <2>2, <3>1 DEF Plan
    <3>3. build' = [pc |-> "tree", plan |-> [build.plan EXCEPT !.target = target]]
      BY <1>0, <2>4
    <3> QED
      BY <2>2, <3>1, <3>2, <3>3 DEF BuildInv
  <2> QED
    BY <1>2, <2>3, <2>4 DEF BaseVerified
<1>3. ASSUME TargetInspected PROVE Goal
  <2>1. build.plan.target \in Attempt => tree[build.plan.target] \in Fingerprint
    BY TypeIs DEF Inv, Typed
  <2> DEFINE p == [build.plan EXCEPT !.print = tree[build.plan.target]]
  <2>2. BuildOnly /\ build.plan \in Plan /\ build.plan.cmd \in Command /\ tree[build.plan.target] \in Fingerprint
    BY <1>0, <1>3, <2>1 DEF TargetInspected, BuildInv
  <2>3. p \in Plan /\ p.cmd \in Command
    BY <2>2 DEF Plan
  <2>4. build' = [pc |-> "discover", plan |-> p]
    BY <1>0, <1>3 DEF TargetInspected
  <2> QED
    BY <2>2, <2>3, <2>4 DEF BuildInv
<1>4. ASSUME Discover PROVE Goal
  <2>1. env \in Env
    BY TypeIs DEF Inv, Typed
  <2> QED
    BY <1>0, <1>4, <2>1 DEF Discover, BuildInv, Plan
<1>5. ASSUME BuildFails PROVE Goal
  BY <1>5 DEF BuildFails, NoBuild, NoPlan, BuildInv, Plan, Kind, Fingerprint
<1> QED
  BY <1>1, <1>2, <1>3, <1>4, <1>5, BuildKeeps DEF BuildAction

LEMMA IssueKeeps == ASSUME Inv, IssueChallenge PROVE Inv'
<1>1. PICK ch \in Unissued : challenge' = [challenge EXCEPT ![ch] = "open"] /\ plan' = [plan EXCEPT ![ch] = PreviewSnapshot]
  BY DEF IssueChallenge
<1>2. Typed /\ ch \in Challenge /\ challenge[ch] = "none"
  BY <1>1, TypeIs DEF Inv, Unissued
<1>3. PreviewSnapshot \in Plan /\ PreviewSnapshot.cmd \in Command
  <2>1. build.plan \in Plan /\ profile.version \in Nat /\ build.plan.cmd \in Command
    BY <1>2 DEF Typed, Inv, BuildInv, IssueChallenge
  <2> QED
    BY <2>1 DEF PreviewSnapshot, Plan
<1>4. Typed'
  BY <1>1, <1>2, <1>3 DEF Typed, IssueChallenge, NoBuild, NoPlan, Plan, Kind, Fingerprint
<1>5. /\ \A d \in Challenge : d # ch => challenge'[d] = challenge[d] /\ plan'[d] = plan[d]
      /\ challenge'[ch] = "open" /\ plan'[ch] = PreviewSnapshot
  BY <1>1, <1>2 DEF Typed
<1>6. attempt[ch] = "none" /\ \A d \in Challenge : attempt[d] # "none" => d # ch
  BY <1>2 DEF Inv, RowInv, RowsAgree
<1>7. \A d \in Challenge : attempt[d] # "none" => Target(d)' = Target(d) /\ Expected(d)' = Expected(d)
  BY <1>5, <1>6 DEF Target, Expected
<1>8. UNCHANGED <<consent, record, attempt, worktree, active, handler, check, env, tree>>
  BY DEF IssueChallenge
<1>9. RowInv'
  <2>1. RowsAgree'
    BY <1>2, <1>5, <1>6, <1>8 DEF Inv, RowInv, RowsAgree, Typed
  <2>2. \A d \in Challenge : challenge'[d] # "none" => plan'[d].cmd \in Command
    BY <1>3, <1>5 DEF Inv, RowInv
  <2> QED
    BY <1>7, <1>8, <2>1, <2>2 DEF Inv, RowInv
<1>10. HandlerInv'
  BY <1>2, <1>5, <1>8 DEF Inv, HandlerInv
<1>11. CheckInv'
  <2>1. check.pc # "none" /\ attempt[check.a] = "Starting" => plan'[check.a] = plan[check.a]
    BY <1>5, <1>6 DEF Inv, CheckInv
  <2> QED
    BY <1>7, <1>8, <2>1 DEF Inv, CheckInv
<1>12. BuildInv'
  BY DEF IssueChallenge, NoBuild, BuildInv
<1> QED
  BY <1>4, <1>9, <1>10, <1>11, <1>12, InvNext

LEMMA ConsentKeeps == ASSUME Inv, ConsentAction PROVE Inv'
<1>1. PICK ch \in Challenge : RequestConfirmation(ch) \/ ExpireChallenge(ch)
  BY DEF ConsentAction
<1>2. Typed
  BY TypeIs DEF Inv
<1>3. Typed'
  BY <1>1, <1>2, ConfirmationBounds DEF RequestConfirmation, ExpireChallenge, Changes, ConsentOnly, Typed
<1>4. \A d \in Challenge : /\ challenge'[d] = "none" <=> challenge[d] = "none"
                           /\ challenge[d] = "consumed" => challenge'[d] = "consumed"
                           /\ consent[d] = "signed" => consent'[d] = "signed"
  BY <1>1, <1>2 DEF RequestConfirmation, ExpireChallenge, Typed
<1>5. UNCHANGED <<plan, record, attempt, worktree, active, handler, check, build, env, tree>>
  BY <1>1 DEF RequestConfirmation, ExpireChallenge, ConsentOnly
<1>6. RowInv'
  BY <1>4, <1>5 DEF Inv, RowInv, RowsAgree, Target
<1>7. HandlerInv' /\ BuildInv' /\ CheckInv'
  BY <1>4, <1>5, CheckUnchanged DEF Inv, HandlerInv, BuildInv
<1> QED
  BY <1>3, <1>6, <1>7, InvNext
-----------------------------------------------------------------------------
(* Executing a command.                                                     *)

\* Only the requests move, and the answers.
LEMMA RequestKeeps ==
  ASSUME Inv, ExecuteOnly, told' \in [Command -> Challenge \union {None}],
         handler' \in [Handler -> [pc : {"none", "env", "tree", "commit", "provision", "answer"},
                                  ch : Challenge \union {None}]],
         \A h \in Handler : \/ handler'[h].pc = "none" \/ handler'[h] = handler[h]
                           \/ /\ handler'[h].pc \in {"env", "tree", "commit"}
                              /\ handler'[h].ch \in Challenge /\ challenge[handler'[h].ch] # "none"
  PROVE  Inv'
<1>1. RowInv' /\ CheckInv' /\ BuildInv'
  BY RowsUnchanged, CheckUnchanged DEF Inv, ExecuteOnly, rowVars, BuildInv
<1>2. Typed'
  BY TypeIs DEF Inv, Typed, ExecuteOnly
<1>3. UNCHANGED <<challenge, attempt, worktree>>
  BY DEF ExecuteOnly
<1>4. HandlerInv'
  <2>1. \A h \in Handler : handler'[h].pc # "none" => handler'[h].ch \in Challenge /\ challenge'[handler'[h].ch] # "none"
    BY <1>3 DEF Inv, HandlerInv
  <2>2. \A h \in Handler : handler'[h].pc \in {"provision", "answer"} => handler'[h] = handler[h]
    OBVIOUS
  <2> QED
    BY <1>3, <2>1, <2>2 DEF Inv, HandlerInv
<1> QED
  BY <1>1, <1>2, <1>4, InvNext

\* A command's record names an Attempt of it.
LEMMA AnswerIsTyped ==
  ASSUME Inv, NEW c \in Command PROVE [told EXCEPT ![c] = record[c]] \in [Command -> Challenge \union {None}]
BY TypeIs DEF Inv, Typed

LEMMA RequestStepKeeps ==
  ASSUME Inv,
         \/ \E ch \in Challenge : Replay(ch) \/ \E h \in Handler : Execute(h, ch)
         \/ \E h \in Handler : EnvRevalidated(h) \/ TreeRevalidated(h) \/ ExecuteRefused(h)
                             \/ ConcurrentReplay(h) \/ Answer(h)
  PROVE  Inv'
<1> DEFINE HandlerRow == [pc : {"none", "env", "tree", "commit", "provision", "answer"}, ch : Challenge \union {None}]
<1>1. Typed /\ RowInv /\ HandlerInv
  BY TypeIs DEF Inv
<1>2. ASSUME NEW ch \in Challenge, Replay(ch) PROVE Inv'
  <2>1. plan[ch].cmd \in Command
    BY <1>1, <1>2 DEF Replay, RowInv
  <2>2. told' \in [Command -> Challenge \union {None}]
    BY <1>2, <2>1, AnswerIsTyped DEF Replay, Answers
  <2> QED
    BY <1>1, <1>2, <2>2, RequestKeeps DEF Replay, Typed
<1>3. ASSUME NEW ch \in Challenge, NEW h \in Handler, Execute(h, ch) PROVE Inv'
  <2>1. /\ handler' \in [Handler -> HandlerRow]
        /\ \A g \in Handler : handler'[g] = IF g = h THEN [pc |-> "env", ch |-> ch] ELSE handler[g]
    BY <1>1, <1>3 DEF Execute, Typed
  <2> QED
    BY <1>1, <1>3, <2>1, RequestKeeps DEF Execute, Typed
<1>4. ASSUME NEW h \in Handler, NEW step \in {"tree", "commit"}, HandlerTo(h, step), handler[h].pc # "none",
             UNCHANGED told, ExecuteOnly
      PROVE  Inv'
  <2>1. [handler[h] EXCEPT !.pc = step] \in HandlerRow
    BY <1>1 DEF Typed
  <2>2. /\ handler' \in [Handler -> HandlerRow]
        /\ \A g \in Handler : g # h => handler'[g] = handler[g]
    BY <1>1, <1>4, <2>1 DEF HandlerTo, Typed
  <2>3. handler'[h].pc = step /\ handler'[h].ch = handler[h].ch
    BY <1>1, <1>4 DEF HandlerTo, Typed
  <2> QED
    BY <1>1, <1>4, <2>2, <2>3, RequestKeeps DEF Typed, HandlerInv
<1>5. ASSUME NEW h \in Handler, HandlerEnds(h), told' \in [Command -> Challenge \union {None}], ExecuteOnly
      PROVE  Inv'
  <2>1. /\ handler' \in [Handler -> HandlerRow]
        /\ \A g \in Handler : handler'[g].pc = "none" \/ handler'[g] = handler[g]
    BY <1>1, <1>5 DEF HandlerEnds, Idle, Typed
  <2> QED
    BY <1>5, <2>1, RequestKeeps
<1>6. ASSUME NEW h \in Handler, EnvRevalidated(h) \/ TreeRevalidated(h) PROVE Inv'
  BY <1>4, <1>6 DEF EnvRevalidated, TreeRevalidated
<1>7. ASSUME NEW h \in Handler, ExecuteRefused(h) PROVE Inv'
  BY <1>1, <1>5, <1>7 DEF ExecuteRefused, Typed
<1>8. ASSUME NEW h \in Handler, ConcurrentReplay(h) \/ Answer(h) PROVE Inv'
  <2>1. plan[handler[h].ch].cmd \in Command
    BY <1>1, <1>8 DEF ConcurrentReplay, Answer, HandlerInv, RowInv
  <2>2. told' \in [Command -> Challenge \union {None}]
    BY <1>8, <2>1, AnswerIsTyped DEF ConcurrentReplay, Answer, Answers
  <2> QED
    BY <1>5, <1>8, <2>2 DEF ConcurrentReplay, Answer
<1> QED
  BY <1>2, <1>3, <1>6, <1>7, <1>8

\* What the transaction finds and does.
LEMMA AcceptFacts ==
  ASSUME Inv, NEW h \in Handler, Accept(h)
  PROVE  LET ch == handler[h].ch IN
         /\ ch \in Challenge /\ plan[ch].cmd \in Command /\ record[plan[ch].cmd] = None
         /\ challenge[ch] = "open" /\ consent[ch] = "signed"
         /\ attempt[ch] = "none" /\ worktree[ch] = "none" /\ active # ch
         /\ \A a \in Challenge : attempt[a] # "Starting"
<1> DEFINE ch == handler[h].ch
<1>1. Typed /\ RowInv /\ HandlerInv
  BY TypeIs DEF Inv
<1>2. ch \in Challenge /\ challenge[ch] = "open" /\ consent[ch] = "signed" /\ ~Recorded(ch)
  BY <1>1 DEF Accept, Consumable, RecordedMeanwhile, HandlerInv
<1>3. attempt[ch] = "none" /\ worktree[ch] = "none"
  BY <1>1, <1>2 DEF RowInv, RowsAgree
<1>4. active # ch
  BY <1>1, <1>2, <1>3, Numbers DEF RowInv, RowsAgree
<1>5. Unfinished = {}
  BY DEF Accept, FactsInTransaction, DatabaseFacts, CommandAllowed
<1>6. \A a \in Challenge : attempt[a] # "Starting"
  BY <1>5, Numbers DEF Unfinished
<1> QED
  BY <1>1, <1>2, <1>3, <1>4, <1>6 DEF RowInv, Recorded

LEMMA AcceptKeeps == ASSUME Inv, NEW h \in Handler, Accept(h) PROVE Inv'
<1> DEFINE ch == handler[h].ch
           p == plan[ch]
           next == IF p.target = None THEN "provision" ELSE "answer"
<1>1. Typed /\ RowInv /\ HandlerInv /\ BuildInv /\ CheckInv
  BY TypeIs DEF Inv
<1>2. /\ ch \in Challenge /\ p.cmd \in Command /\ record[p.cmd] = None
      /\ challenge[ch] = "open" /\ consent[ch] = "signed"
      /\ attempt[ch] = "none" /\ worktree[ch] = "none" /\ active # ch
      /\ \A a \in Challenge : attempt[a] # "Starting"
  BY AcceptFacts
<1>3. /\ challenge' = [challenge EXCEPT ![ch] = "consumed"] /\ attempt' = [attempt EXCEPT ![ch] = "Queued"]
      /\ worktree' = IF p.target = None THEN [worktree EXCEPT ![ch] = "Planned"] ELSE worktree
      /\ record' = [record EXCEPT ![p.cmd] = ch]
      /\ handler' = [handler EXCEPT ![h].pc = next]
  BY <1>2 DEF Accept, Consume, CreateAttempt, FirstWrite, HandlerTo
<1>4. UNCHANGED <<plan, consent, active, env, tree, build, check>>
  BY DEF Accept
<1> DEFINE HandlerRow == [pc : {"none", "env", "tree", "commit", "provision", "answer"}, ch : Challenge \union {None}]
<1>5. /\ handler' \in [Handler -> HandlerRow]
      /\ \A g \in Handler : g # h => handler'[g] = handler[g]
      /\ handler'[h].pc = next /\ handler'[h].ch = ch
  <2>1. handler[h] \in HandlerRow
    BY <1>1 DEF Typed
  <2>2. [handler[h] EXCEPT !.pc = next] \in HandlerRow
    BY <2>1
  <2>3. handler \in [Handler -> HandlerRow]
    BY <1>1 DEF Typed
  <2> HIDE DEF HandlerRow
  <2> QED
    BY <1>3, <2>1, <2>2, <2>3
<1>6. task' \in [lifecycle : {"Draft", "Runnable", "Cancelled"}, version : Nat]
  <2>1. task \in [lifecycle : {"Draft", "Runnable", "Cancelled"}, version : Nat]
    BY <1>1 DEF Typed
  <2>2. task' = task \/ task' = [lifecycle |-> "Runnable", version |-> task.version + 1]
    BY DEF Accept, CreateAttempt
  <2>3. task.version + 1 \in Nat
    BY <2>1
  <2> QED
    BY <2>1, <2>2, <2>3
<1>7. Typed'
  <2>1. trusted' = trusted /\ profile' = profile /\ changes' = changes /\ told' = told
    BY DEF Accept
  <2>2. challenge' \in [Challenge -> {"none", "open", "consumed", "expired"}]
    BY <1>1, <1>3 DEF Typed
  <2>3. record' \in [Command -> Challenge \union {None}]
    BY <1>1, <1>3 DEF Typed
  <2>4. attempt' \in [Attempt -> {"none", "Queued", "Starting", "Live", "Ended"}]
    BY <1>1, <1>3 DEF Typed
  <2>5. worktree' \in [Attempt -> {"none", "Planned", "Ready", "Failed", "Disposed"}]
    BY <1>1, <1>3 DEF Typed
  <2> QED
    BY <1>1, <1>4, <1>5, <1>6, <2>1, <2>2, <2>3, <2>4, <2>5 DEF Typed
<1>8. /\ \A a \in Attempt : attempt'[a] = IF a = ch THEN "Queued" ELSE attempt[a]
      /\ \A a \in Attempt : a # ch => worktree'[a] = worktree[a]
      /\ p.target = None => worktree'[ch] = "Planned"
      /\ \A a \in Challenge : challenge'[a] = IF a = ch THEN "consumed" ELSE challenge[a]
      /\ \A c \in Command : record'[c] = IF c = p.cmd THEN ch ELSE record[c]
  <2>1. /\ DOMAIN attempt = Attempt /\ DOMAIN worktree = Attempt
        /\ DOMAIN challenge = Challenge /\ DOMAIN record = Command /\ Challenge \subseteq Attempt
    BY <1>1, Numbers DEF Typed
  <2>2. \A a \in Attempt : attempt'[a] = IF a = ch THEN "Queued" ELSE attempt[a]
    BY <1>3, <2>1
  <2>3. /\ \A a \in Attempt : a # ch => worktree'[a] = worktree[a]
        /\ p.target = None => worktree'[ch] = "Planned"
    BY <1>2, <1>3, <2>1
  <2>4. /\ \A a \in Challenge : challenge'[a] = IF a = ch THEN "consumed" ELSE challenge[a]
        /\ \A c \in Command : record'[c] = IF c = p.cmd THEN ch ELSE record[c]
    BY <1>3, <2>1
  <2> QED
    BY <2>2, <2>3, <2>4
<1>9. RowInv'
  <2>1. \A a \in Challenge : attempt'[a] # "none" => challenge'[a] = "consumed" /\ record'[plan'[a].cmd] # None
    BY <1>1, <1>2, <1>4, <1>8, Numbers DEF RowInv, RowsAgree
  <2>2. \A c \in Command : record'[c] # None => attempt'[record'[c]] # "none" /\ plan'[record'[c]].cmd = c
    BY <1>1, <1>2, <1>4, <1>8, Numbers DEF RowInv, RowsAgree, Typed
  <2>3. active' # None => worktree'[active'] = "Ready"
    BY <1>1, <1>2, <1>4, <1>8, Numbers DEF RowInv, RowsAgree, Typed
  <2>4. \A a \in Challenge : challenge'[a] # "none" => plan'[a].cmd \in Command
    BY <1>1, <1>2, <1>4, <1>8 DEF RowInv
  <2>5. \A a \in Challenge : /\ attempt'[a] = "none" => worktree'[a] = "none"
                             /\ attempt'[a] # "none" => consent'[a] = "signed"
                             /\ attempt'[a] # "Starting"
    BY <1>1, <1>2, <1>4, <1>8, Numbers DEF RowInv
  <2> QED
    BY <2>1, <2>2, <2>3, <2>4, <2>5 DEF RowInv, RowsAgree
<1>10. HandlerInv'
  <2>1. \A g \in Handler : handler'[g].ch = handler[g].ch /\ (g # h => handler'[g] = handler[g])
    BY <1>5
  <2>2. \A g \in Handler : handler[g].pc = "provision" => handler[g].ch # ch
    BY <1>1, <1>2 DEF HandlerInv
  <2>3. \A g \in Handler : handler'[g].pc # "none" => handler'[g].ch \in Challenge /\ challenge'[handler'[g].ch] # "none"
    BY <1>1, <1>2, <1>5, <1>8, <2>1 DEF HandlerInv
  <2>4. \A g \in Handler : handler'[g].pc \in {"provision", "answer"} => attempt'[handler'[g].ch] # "none"
    BY <1>1, <1>2, <1>5, <1>8, <2>1, <2>3, Numbers DEF HandlerInv
  <2>5. \A g \in Handler : handler'[g].pc = "provision" => worktree'[handler'[g].ch] = "Planned"
    BY <1>1, <1>2, <1>5, <1>8, <2>1, <2>2, <2>3, Numbers DEF HandlerInv
  <2>6. \A g, f \in Handler : handler'[g].pc = "provision" /\ handler'[f].pc = "provision" /\ handler'[g].ch = handler'[f].ch => g = f
    BY <1>1, <1>5, <2>1, <2>2 DEF HandlerInv
  <2> QED
    BY <2>3, <2>4, <2>5, <2>6 DEF HandlerInv
<1>11. CheckInv'
  <2>1. \A a \in Challenge : attempt'[a] # "Starting"
    BY <1>2, <1>8, Numbers
  <2> QED
    BY <1>1, <1>4, <2>1 DEF CheckInv
<1> QED
  BY <1>1, <1>4, <1>7, <1>9, <1>10, <1>11, InvNext DEF BuildInv
\* A provision touches a Planned Worktree, which no Attempt that is being launched has.
LEMMA ProvisionedKeeps == ASSUME Inv, NEW h \in Handler, Provisioned(h) PROVE Inv'
<1> DEFINE ch == handler[h].ch
           HandlerRow == [pc : {"none", "env", "tree", "commit", "provision", "answer"}, ch : Challenge \union {None}]
<1>1. Typed /\ RowInv /\ HandlerInv /\ BuildInv /\ CheckInv
  BY TypeIs DEF Inv
<1>2. ch \in Challenge /\ ch \in Attempt /\ attempt[ch] # "none" /\ worktree[ch] = "Planned" /\ active # ch
  BY <1>1, Numbers DEF Provisioned, HandlerInv, RowInv, RowsAgree
<1>3. /\ handler' \in [Handler -> HandlerRow]
      /\ \A g \in Handler : g # h => handler'[g] = handler[g]
      /\ handler'[h].pc \in {"none", "answer"}
      /\ handler'[h].pc = "answer" => handler'[h].ch = ch
  <2>1. handler[h] \in HandlerRow
    BY <1>1 DEF Typed
  <2>2. [handler[h] EXCEPT !.pc = "answer"] \in HandlerRow
    BY <2>1
  <2>3. handler' = [handler EXCEPT ![h].pc = "answer"] \/ handler' = [handler EXCEPT ![h] = Idle]
    BY DEF Provisioned, HandlerTo, HandlerEnds
  <2>4. handler \in [Handler -> HandlerRow]
    BY <1>1 DEF Typed
  <2>5. Idle \in HandlerRow /\ Idle.pc = "none"
    BY DEF Idle
  <2>6. [handler[h] EXCEPT !.pc = "answer"].pc = "answer" /\ [handler[h] EXCEPT !.pc = "answer"].ch = ch
    BY <2>1
  <2> HIDE DEF HandlerRow
  <2> QED
    BY <2>2, <2>3, <2>4, <2>5, <2>6
<1>4. /\ \A a \in Attempt : attempt'[a] = attempt[a] \/ (attempt[a] = "Queued" /\ attempt'[a] = "Ended")
      /\ \A a \in Attempt : a # ch => worktree'[a] = worktree[a] /\ tree'[a] = tree[a]
      /\ active' = active \/ (active' = ch /\ worktree'[ch] = "Ready")
  <2>1. \A a \in Attempt : attempt'[a] = attempt[a] \/ (attempt[a] = "Queued" /\ attempt'[a] = "Ended")
    <3>1. attempt' = attempt \/ (attempt[ch] = "Queued" /\ attempt' = [attempt EXCEPT ![ch] = "Ended"])
      BY DEF Provisioned
    <3>2. attempt \in [Attempt -> {"none", "Queued", "Starting", "Live", "Ended"}]
      BY <1>1 DEF Typed
    <3> HIDE DEF ch
    <3> QED
      BY <1>2, <3>1, <3>2
  <2>2. \A a \in Attempt : a # ch => worktree'[a] = worktree[a] /\ tree'[a] = tree[a]
    BY <1>1, <1>2 DEF Provisioned, Typed
  <2>3. active' = active \/ (active' = ch /\ worktree'[ch] = "Ready")
    <3>1. active' = active \/ (active' = ch /\ worktree' = [worktree EXCEPT ![ch] = "Ready"])
      BY DEF Provisioned
    <3>2. worktree \in [Attempt -> {"none", "Planned", "Ready", "Failed", "Disposed"}]
      BY <1>1 DEF Typed
    <3> HIDE DEF ch
    <3> QED
      BY <1>2, <3>1, <3>2
  <2> QED
    BY <2>1, <2>2, <2>3
<1>5. Typed'
  <2>1. UNCHANGED <<factVars, confirmVars, record, env, changes, build, check, told>>
    BY DEF Provisioned
  <2>2. /\ attempt' \in [Attempt -> {"none", "Queued", "Starting", "Live", "Ended"}]
        /\ worktree' \in [Attempt -> {"none", "Planned", "Ready", "Failed", "Disposed"}]
        /\ active' \in Attempt \union {None} /\ tree' \in [Attempt -> Fingerprint]
    BY <1>1, <1>2 DEF Provisioned, Typed, Fingerprint
  <2> QED
    BY <1>1, <1>3, <2>1, <2>2 DEF Typed
<1>6. UNCHANGED <<challenge, plan, consent, record, env, build, check>>
  BY DEF Provisioned
<1>7. \A a \in Challenge : attempt[a] = "Starting" => Target(a) # ch /\ Target(a) \in Attempt
  BY <1>1, <1>2, Numbers DEF RowInv, Target, Typed, Plan
<1>8. \A a \in Challenge : Target(a)' = Target(a) /\ Expected(a)' = Expected(a)
  BY <1>6 DEF Target, Expected
<1>9. RowInv'
  <2>1. RowsAgree'
    <3>1. \A a \in Challenge : attempt'[a] # "none" => challenge'[a] = "consumed" /\ record'[plan'[a].cmd] # None
      BY <1>1, <1>4, <1>6, Numbers DEF RowInv, RowsAgree
    <3>2. \A c \in Command : record'[c] # None => attempt'[record'[c]] # "none" /\ plan'[record'[c]].cmd = c
      BY <1>1, <1>4, <1>6, Numbers DEF RowInv, RowsAgree, Typed
    <3>3. active' # None => worktree'[active'] = "Ready"
      BY <1>1, <1>2, <1>4 DEF RowInv, RowsAgree, Typed
    <3> QED
      BY <3>1, <3>2, <3>3 DEF RowsAgree
  <2>2. \A a \in Challenge : /\ attempt'[a] = "none" => worktree'[a] = "none"
                             /\ attempt'[a] # "none" => consent'[a] = "signed"
                             /\ attempt'[a] = "Starting" => worktree'[Target(a)'] = "Ready"
    BY <1>1, <1>2, <1>4, <1>6, <1>7, <1>8, Numbers DEF RowInv
  <2> QED
    BY <1>1, <1>6, <2>1, <2>2 DEF RowInv
<1>10. HandlerInv'
  <2>1. \A g \in Handler : handler'[g].pc # "none" => handler'[g].ch = handler[g].ch /\ handler[g].pc # "none"
    BY <1>3 DEF Provisioned
  <2>2. \A g \in Handler : g # h /\ handler[g].pc = "provision" => handler[g].ch # ch
    BY <1>1 DEF HandlerInv, Provisioned
  <2>3. \A g \in Handler : handler'[g].pc # "none" => handler'[g].ch \in Challenge /\ challenge'[handler'[g].ch] # "none"
    BY <1>1, <1>6, <2>1 DEF HandlerInv
  <2>4. \A g \in Handler : handler'[g].pc \in {"provision", "answer"} => attempt'[handler'[g].ch] # "none"
    <3>1. \A g \in Handler : handler'[g].pc \in {"provision", "answer"} => attempt[handler'[g].ch] # "none"
      BY <1>1, <1>2, <1>3, <2>1 DEF HandlerInv
    <3> QED
      BY <1>4, <2>3, <3>1, Numbers
  <2>5. \A g \in Handler : handler'[g].pc = "provision" =>
          g # h /\ handler[g].pc = "provision" /\ handler'[g].ch = handler[g].ch
    BY <1>3
  <2>6. \A g \in Handler : handler'[g].pc = "provision" => worktree'[handler'[g].ch] = "Planned"
    BY <1>1, <1>4, <2>2, <2>3, <2>5, Numbers DEF HandlerInv
  <2> QED
    BY <1>1, <2>3, <2>4, <2>5, <2>6 DEF HandlerInv
<1>11. CheckInv'
  BY <1>1, <1>4, <1>6, <1>7, <1>8, Numbers DEF CheckInv
<1> QED
  BY <1>1, <1>5, <1>6, <1>9, <1>10, <1>11, InvNext DEF BuildInv

-----------------------------------------------------------------------------
(* Launching, and what else happens.                                        *)

\* Attempts there are go on, none begins to be launched but with its Worktree.
LEMMA AttemptsMove ==
  ASSUME Inv, UNCHANGED <<challenge, plan, consent, record, worktree, active, handler, build>>,
         attempt' \in [Attempt -> {"none", "Queued", "Starting", "Live", "Ended"}],
         \A a \in Attempt : attempt'[a] = "none" <=> attempt[a] = "none",
         \A a \in Challenge : attempt'[a] = "Starting" => attempt[a] = "Starting" \/ Target(a) = active
  PROVE  RowInv' /\ HandlerInv' /\ BuildInv'
<1>1. Typed /\ RowInv /\ HandlerInv /\ BuildInv
  BY TypeIs DEF Inv
<1>2. \A a \in Challenge : Target(a)' = Target(a) /\ Target(a) \in Attempt
  BY <1>1, Numbers DEF Target, Typed, Plan
<1>3. RowsAgree'
  BY <1>1, Numbers DEF RowInv, RowsAgree, Typed
<1>4. RowInv'
  BY <1>1, <1>2, <1>3, Numbers DEF RowInv, RowsAgree
<1>5. HandlerInv'
  BY <1>1, Numbers DEF HandlerInv
<1> QED
  BY <1>1, <1>4, <1>5 DEF BuildInv

CheckRow == [pc : {"none", "facts", "env", "tree", "commit"}, a : Challenge \union {None},
             envs : SUBSET Env, prints : SUBSET Fingerprint]

LEMMA LaunchFrame ==
  ASSUME Inv, LaunchOnly,
         attempt' \in [Attempt -> {"none", "Queued", "Starting", "Live", "Ended"}],
         \A a \in Attempt : attempt'[a] = "none" <=> attempt[a] = "none",
         \A a \in Challenge : attempt'[a] = "Starting" => attempt[a] = "Starting" \/ Target(a) = active,
         check' \in CheckRow, CheckInv'
  PROVE  Inv'
<1>1. RowInv' /\ HandlerInv' /\ BuildInv'
  BY AttemptsMove DEF LaunchOnly
<1>2. Typed'
  BY TypeIs DEF Inv, Typed, LaunchOnly, CheckRow
<1> QED
  BY <1>1, <1>2, InvNext

LEMMA LaunchKeeps == ASSUME Inv, LaunchAction PROVE Inv'
<1> DEFINE Status == {"none", "Queued", "Starting", "Live", "Ended"}
<1>1. Typed /\ CheckInv /\ check \in CheckRow
  BY TypeIs DEF Inv, Typed, CheckRow
<1>2. \A a \in Challenge : Target(a)' = Target(a) \/ ~LaunchOnly
  BY DEF Target, LaunchOnly
<1>3. ASSUME NEW a \in Challenge, ScheduleNext(a) \/ LaunchResumed(a) PROVE Inv'
  <2>1. check' = [NoCheck EXCEPT !.pc = "facts", !.a = a] /\ LaunchOnly
    BY <1>3 DEF ScheduleNext, LaunchResumed, CheckFrom
  <2>2. check' \in CheckRow /\ CheckInv'
    BY <2>1 DEF NoCheck, CheckRow, CheckInv
  <2>3. /\ attempt' \in [Attempt -> Status]
        /\ \A b \in Attempt : attempt'[b] = "none" <=> attempt[b] = "none"
        /\ \A b \in Challenge : attempt'[b] = "Starting" => attempt[b] = "Starting" \/ Target(b) = active
    BY <1>1, <1>3, Numbers DEF ScheduleNext, LaunchResumed, AttemptTo, Typed
  <2> QED
    BY <2>1, <2>2, <2>3, LaunchFrame
<1>4. ASSUME UNCHANGED attempt, LaunchOnly, check' \in CheckRow, CheckInv' PROVE Inv'
  BY <1>1, <1>4, LaunchFrame DEF Typed
<1>5. ASSUME CheckFacts PROVE Inv'
  <2>1. check.a \in Challenge /\ Target(check.a) \in Attempt /\ LaunchOnly /\ UNCHANGED attempt
    BY <1>1, <1>5, Numbers DEF CheckFacts, CheckInv, Target, Typed, Plan
  <2>2. check' = [check EXCEPT !.pc = "env", !.envs = {env}, !.prints = {tree[Target(check.a)]}]
    BY <1>5 DEF CheckFacts
  <2>3. env \in Env /\ tree[Target(check.a)] \in Fingerprint
    BY <1>1, <2>1 DEF Typed
  <2>4. /\ check' \in CheckRow /\ check'.a = check.a /\ check'.pc = "env"
        /\ check'.envs = {env} /\ check'.prints = {tree[Target(check.a)]}
    BY <1>1, <2>2, <2>3 DEF CheckRow
  <2>5. CheckInv'
    BY <1>2, <2>1, <2>4 DEF CheckInv, LaunchOnly
  <2> QED
    BY <1>4, <2>1, <2>4, <2>5
<1>6. ASSUME CheckEnv PROVE Inv'
  <2>1. /\ check.a \in Challenge /\ check' \in CheckRow /\ check'.a = check.a /\ check'.pc = "tree"
        /\ check'.envs = check.envs /\ check'.prints = check.prints
    BY <1>1, <1>6 DEF CheckEnv, CheckInv, CheckRow
  <2>2. CheckInv'
    BY <1>1, <1>2, <1>6, <2>1 DEF CheckEnv, SnapshotHolds, CheckInv, LaunchOnly
  <2> QED
    BY <1>4, <1>6, <2>1, <2>2 DEF CheckEnv
<1>7. ASSUME CheckTree PROVE Inv'
  <2>1. /\ check.a \in Challenge /\ check' \in CheckRow /\ check'.a = check.a /\ check'.pc = "commit"
        /\ check'.envs = check.envs /\ check'.prints = check.prints
    BY <1>1, <1>7 DEF CheckTree, CheckInv, CheckRow
  <2>2. Expected(check.a)' = Expected(check.a)
    BY <1>7 DEF CheckTree, LaunchOnly, Expected
  <2>3. CheckInv'
    BY <1>1, <1>2, <1>7, <2>1, <2>2 DEF CheckTree, TreeHolds, CheckInv, LaunchOnly
  <2> QED
    BY <1>4, <1>7, <2>1, <2>3 DEF CheckTree
<1>8. ASSUME CommitLaunch \/ AbortLaunch PROVE Inv'
  <2>1. check' = NoCheck /\ check' \in CheckRow /\ CheckInv' /\ LaunchOnly
    BY <1>8 DEF CommitLaunch, AbortLaunch, NoCheck, CheckRow, CheckInv
  <2>2. /\ attempt' \in [Attempt -> Status]
        /\ \A b \in Attempt : attempt'[b] = "none" <=> attempt[b] = "none"
        /\ \A b \in Challenge : attempt'[b] = "Starting" => attempt[b] = "Starting"
    BY <1>1, <1>8, Numbers DEF CommitLaunch, AbortLaunch, AttemptTo, Typed
  <2> QED
    BY <2>1, <2>2, LaunchFrame
<1>9. ASSUME NEW a \in Challenge, AttemptEnds(a) PROVE Inv'
  <2>1. /\ attempt' \in [Attempt -> Status] /\ LaunchOnly /\ check' = check
        /\ \A b \in Attempt : attempt'[b] = "none" <=> attempt[b] = "none"
        /\ \A b \in Challenge : attempt'[b] = "Starting" => attempt[b] = "Starting"
    BY <1>1, <1>9, Numbers DEF AttemptEnds, AttemptTo, Typed
  <2>2. CheckInv'
    BY <1>1, <1>2, <2>1 DEF CheckInv, LaunchOnly, Expected
  <2> QED
    BY <1>1, <2>1, <2>2, LaunchFrame
<1> QED
  BY <1>3, <1>5, <1>6, <1>7, <1>8, <1>9 DEF LaunchAction

LEMMA FactsKeep ==
  ASSUME Inv, EditTask \/ CancelTask \/ ChangeProfile \/ RevokeTrust PROVE Inv'
<1>1. Typed
  BY TypeIs DEF Inv
<1>2. UNCHANGED <<confirmVars, record, worktree, active, hostVars, memVars, told>>
  BY DEF EditTask, CancelTask, ChangeProfile, RevokeTrust, FactsOnly
<1>3. /\ attempt' \in [Attempt -> {"none", "Queued", "Starting", "Live", "Ended"}]
      /\ \A a \in Attempt : attempt'[a] = "none" <=> attempt[a] = "none"
      /\ \A a \in Challenge : attempt'[a] = "Starting" => attempt[a] = "Starting"
  BY <1>1, Numbers DEF EditTask, CancelTask, ChangeProfile, RevokeTrust, Typed
<1>4. RowInv' /\ HandlerInv' /\ BuildInv'
  BY <1>2, <1>3, AttemptsMove
<1>5. CheckInv'
  BY <1>2, <1>3 DEF Inv, CheckInv, Target, Expected
<1>6. task' \in [lifecycle : {"Draft", "Runnable", "Cancelled"}, version : Nat]
  <2>1. task \in [lifecycle : {"Draft", "Runnable", "Cancelled"}, version : Nat] /\ task.version + 1 \in Nat
    BY <1>1 DEF Typed
  <2>2. CASE EditTask
    BY <2>1, <2>2 DEF EditTask
  <2>3. CASE CancelTask
    BY <2>1, <2>3 DEF CancelTask
  <2> QED
    BY <2>1, <2>2, <2>3 DEF ChangeProfile, RevokeTrust
<1>7. profile' \in [version : Nat, deleted : BOOLEAN] /\ trusted' \in BOOLEAN /\ changes' \in 0 .. MaxChanges
  <2>1. changes' \in 0 .. MaxChanges
    BY <1>1, ConfirmationBounds DEF EditTask, CancelTask, ChangeProfile, RevokeTrust, Changes, Typed
  <2>2. profile' = profile \/ \E deleted \in BOOLEAN : profile' = [version |-> profile.version + 1, deleted |-> deleted]
    BY DEF EditTask, CancelTask, ChangeProfile, RevokeTrust
  <2>3. profile' \in [version : Nat, deleted : BOOLEAN]
    BY <1>1, <2>2 DEF Typed
  <2>4. trusted' \in BOOLEAN
    BY <1>1 DEF EditTask, CancelTask, ChangeProfile, RevokeTrust, Typed
  <2> QED
    BY <2>1, <2>3, <2>4
<1>8. Typed'
  BY <1>1, <1>2, <1>3, <1>6, <1>7 DEF Typed
<1> QED
  BY <1>4, <1>5, <1>8, InvNext

LEMMA HostKeeps == ASSUME Inv, ChangeHost PROVE Inv'
<1>1. Typed /\ CheckInv
  BY TypeIs DEF Inv
<1>2. UNCHANGED <<worktree, active, factVars, confirmVars, record, attempt, build, handler, told>>
  BY DEF ChangeHost, HostOnly
<1>3. RowInv' /\ HandlerInv' /\ BuildInv'
  BY <1>1, <1>2, RowsUnchanged, HandlersUnchanged DEF Inv, rowVars, BuildInv
<1>4. env' \in Env /\ tree' \in [Attempt -> Fingerprint] /\ changes' \in 0 .. MaxChanges
  BY <1>1, ConfirmationBounds DEF ChangeHost, Changes, Typed
<1>5. check' \in CheckRow /\ check'.pc = check.pc /\ check'.a = check.a
      /\ check.envs \subseteq check'.envs /\ check.prints \subseteq check'.prints
      /\ (check.pc \in {"env", "tree", "commit"} => env' \in check'.envs /\ tree'[Target(check.a)] \in check'.prints)
  <2>1. check \in CheckRow
    BY <1>1 DEF Typed, CheckRow
  <2>2. CASE check.pc \in {"env", "tree", "commit"}
    <3>1. check.a \in Challenge /\ Target(check.a) \in Attempt
      BY <1>1, <2>2, Numbers DEF CheckInv, Target, Typed, Plan
    <3>2. tree'[Target(check.a)] \in Fingerprint
      BY <1>4, <3>1
    <3>3. check' = [check EXCEPT !.envs = @ \union {env'}, !.prints = @ \union {tree'[Target(check.a)]}]
      BY <2>2 DEF ChangeHost, Seen
    <3> QED
      BY <1>4, <2>1, <3>2, <3>3 DEF CheckRow
  <2>3. CASE check.pc \notin {"env", "tree", "commit"}
    BY <2>1, <2>3 DEF ChangeHost, Seen
  <2> QED
    BY <2>2, <2>3
<1>6. CheckInv'
  <2>1. \A a \in Challenge : Target(a)' = Target(a) /\ Expected(a)' = Expected(a)
    BY <1>2 DEF Target, Expected
  <2>2. check.pc \in {"none", "facts", "env", "tree", "commit"}
    BY <1>1 DEF Typed
  <2> QED
    BY <1>1, <1>2, <1>5, <2>1, <2>2 DEF CheckInv
<1>7. Typed'
  BY <1>1, <1>2, <1>4, <1>5 DEF Typed, CheckRow
<1> QED
  BY <1>3, <1>6, <1>7, InvNext

\* No Attempt is under way when the active Worktree goes.
LEMMA DisposeKeeps == ASSUME Inv, DisposeActive PROVE Inv'
<1>1. Typed /\ RowInv /\ HandlerInv /\ BuildInv /\ CheckInv
  BY TypeIs DEF Inv
<1>2. UNCHANGED <<factVars, confirmVars, record, attempt, build, handler, told, env, check>> /\ active' = None
  BY DEF DisposeActive, HostOnly
<1>3. active \in Attempt /\ worktree[active] = "Ready"
  BY <1>1 DEF DisposeActive, RowInv, RowsAgree, Typed
<1>4. \A a \in Challenge : attempt[a] # "Starting"
  BY Numbers DEF DisposeActive, Unfinished
<1>5. \A a \in Attempt : worktree'[a] = IF a = active THEN "Disposed" ELSE worktree[a]
  BY <1>1 DEF DisposeActive, Typed
<1>6. RowInv'
  <2>1. RowsAgree'
    BY <1>1, <1>2 DEF RowInv, RowsAgree
  <2>2. \A a \in Challenge : attempt[a] = "none" => worktree'[a] = "none"
    BY <1>1, <1>3, <1>5, Numbers DEF RowInv
  <2> QED
    BY <1>1, <1>2, <1>4, <2>1, <2>2 DEF RowInv
<1>7. HandlerInv'
  BY <1>1, <1>2, <1>3, <1>5, Numbers DEF HandlerInv
<1>8. Typed'
  BY <1>1, <1>2, <1>3, ConfirmationBounds DEF DisposeActive, Changes, Typed, Fingerprint
<1>9. BuildInv' /\ CheckInv'
  BY <1>1, <1>2, <1>4 DEF BuildInv, CheckInv
<1> QED
  BY <1>6, <1>7, <1>8, <1>9, InvNext

LEMMA CrashKeeps == ASSUME Inv, Crash PROVE Inv'
<1>1. Typed
  BY TypeIs DEF Inv
<1>2. RowInv'
  BY RowsUnchanged DEF Inv, Crash, rowVars
<1>3. HandlerInv' /\ BuildInv' /\ CheckInv'
  BY DEF Crash, HandlerInv, BuildInv, CheckInv, Idle, NoBuild, NoCheck
<1>4. Typed'
  <2>1. NoPlan \in Plan
    BY DEF NoPlan, Plan, Kind, Fingerprint
  <2> QED
    BY <1>1, <2>1, ConfirmationBounds DEF Crash, Changes, Typed, Idle, NoBuild, NoCheck
<1> QED
  BY <1>2, <1>3, <1>4, InvNext

LEMMA NextInv == Inv /\ [Next]_vars => Inv'
<1> SUFFICES ASSUME Inv, [Next]_vars PROVE Inv'
  OBVIOUS
<1>1. CASE UNCHANGED vars
  <2>1. Typed'
    BY <1>1, TypeIs DEF Inv, Typed
  <2>2. RowInv' /\ HandlerInv' /\ CheckInv' /\ BuildInv'
    BY <1>1, RowsUnchanged, HandlersUnchanged, CheckUnchanged DEF Inv, rowVars, BuildInv
  <2> QED
    BY <2>1, <2>2, InvNext
<1>2. CASE ExecuteAction
  BY <1>2, RequestStepKeeps, AcceptKeeps, ProvisionedKeeps DEF ExecuteAction, HandlerStep
<1> QED
  BY <1>1, <1>2, BuildStepKeeps, IssueKeeps, ConsentKeeps, LaunchKeeps, FactsKeep, HostKeeps, DisposeKeeps, CrashKeeps
  DEF Next
-----------------------------------------------------------------------------
(* What follows.                                                            *)

LEMMA Invariant == Spec => []Inv
BY InitInv, NextInv, PTL DEF Spec

\* Every variable keeps its type; a used challenge, its Attempt and the record of its
\* command come and stay together, and the active Worktree is a Ready one.
THEOREM ConfirmationIsTyped == Spec => []TypeOK
<1>1. Inv => TypeOK
  BY DEF Inv
<1> QED
  BY <1>1, Invariant, PTL

Accepted(a) ==
  attempt[a] = "none" /\ attempt'[a] # "none" =>
       /\ consent[a] = "signed" /\ challenge[a] = "open" /\ challenge'[a] = "consumed"
       /\ Unfinished = {}
       /\ trusted /\ task.version = plan[a].task /\ task.lifecycle # "Cancelled"
       /\ profile = [version |-> plan[a].profile, deleted |-> FALSE]

Launched(a) ==
  attempt[a] = "Starting" /\ attempt'[a] = "Live" =>
       /\ challenge[a] = "consumed" /\ consent[a] = "signed"
       /\ plan[a].env \in check.envs /\ Expected(a) \in check.prints

\* Every step but Accept leaves the Attempts there are, and makes no other.
LEMMA NoOtherAccepts ==
  ASSUME Inv, [Next]_vars, ~\E h \in Handler : Accept(h)
  PROVE  \A a \in Attempt : attempt'[a] = "none" <=> attempt[a] = "none"
<1> DEFINE Goal == \A a \in Attempt : attempt'[a] = "none" <=> attempt[a] = "none"
<1>1. Typed
  BY TypeIs DEF Inv
<1>2. ASSUME UNCHANGED attempt PROVE Goal
  BY <1>2
<1>3. ASSUME NEW h \in Handler, Provisioned(h) PROVE Goal
  BY <1>1, <1>3 DEF Provisioned, Typed
<1>4. ASSUME LaunchAction PROVE Goal
  BY <1>1, <1>4 DEF LaunchAction, ScheduleNext, LaunchResumed, AttemptEnds, CheckFacts, CheckEnv, CheckTree,
                    CommitLaunch, AbortLaunch, AttemptTo, Typed
<1>5. ASSUME EditTask \/ CancelTask \/ ChangeProfile \/ RevokeTrust PROVE Goal
  BY <1>1, <1>5 DEF EditTask, CancelTask, ChangeProfile, RevokeTrust, Typed
<1>6. ASSUME BuildAction \/ ConsentAction \/ ChangeHost \/ DisposeActive \/ Crash PROVE UNCHANGED attempt
  BY <1>6 DEF BuildAction, BuildPlan, BaseVerified, TargetInspected, Discover, IssueChallenge, BuildFails, BuildOnly,
              ConsentAction, RequestConfirmation, ExpireChallenge, ConsentOnly, ChangeHost, DisposeActive, HostOnly, Crash
<1>7. ASSUME ExecuteAction PROVE UNCHANGED attempt \/ \E h \in Handler : Provisioned(h)
  BY <1>7 DEF ExecuteAction, HandlerStep, Replay, Execute, EnvRevalidated, TreeRevalidated, ExecuteRefused,
              ConcurrentReplay, Answer, ExecuteOnly
<1> HIDE DEF Goal
<1>8. Goal
  BY <1>2, <1>3, <1>4, <1>5, <1>6, <1>7 DEF Next
<1> QED
  BY <1>8 DEF Goal

LEMMA NextAccepts == ASSUME Inv, [Next]_vars, NEW a \in Challenge PROVE Accepted(a)
<1>1. Typed
  BY TypeIs DEF Inv
<1>2. CASE ~\E h \in Handler : Accept(h)
  BY <1>2, NoOtherAccepts, Numbers DEF Accepted
<1>3. ASSUME NEW h \in Handler, Accept(h) PROVE Accepted(a)
  <2> SUFFICES ASSUME attempt[a] = "none", attempt'[a] # "none" PROVE Accepted(a)
    BY DEF Accepted
  <2>1. a = handler[h].ch
    <3>1. attempt' = [attempt EXCEPT ![handler[h].ch] = "Queued"]
      BY <1>3 DEF Accept, CreateAttempt
    <3> QED
      BY <1>1, <3>1, Numbers DEF Typed
  <2>2. challenge[a] = "open" /\ consent[a] = "signed"
    BY <1>3, <2>1, AcceptFacts
  <2>3. challenge'[a] = "consumed"
    <3>1. challenge' = [challenge EXCEPT ![a] = "consumed"]
      BY <1>3, <2>1 DEF Accept, Consume
    <3> QED
      BY <1>1, <3>1, Numbers DEF Typed
  <2>4. DatabaseFacts(plan[a])
    BY <1>3, <2>1 DEF Accept, FactsInTransaction
  <2>5. profile = [version |-> plan[a].profile, deleted |-> FALSE]
    BY <1>1, <2>4 DEF DatabaseFacts, Typed
  <2>6. task.lifecycle # "Cancelled" /\ Unfinished = {}
    BY <2>4 DEF DatabaseFacts, CommandAllowed
  <2> QED
    BY <2>2, <2>3, <2>4, <2>5, <2>6 DEF Accepted, DatabaseFacts
<1> QED
  BY <1>2, <1>3

LEMMA NextLaunches == ASSUME Inv, [Next]_vars, NEW a \in Challenge PROVE Launched(a)
<1>1. Typed /\ RowInv /\ CheckInv
  BY TypeIs DEF Inv
<1> SUFFICES ASSUME attempt[a] = "Starting", attempt'[a] = "Live" PROVE Launched(a)
  BY DEF Launched
<1>2. CommitLaunch /\ check.a = a
  <2>1. attempt' # attempt
    OBVIOUS
  <2>2. ASSUME NEW h \in Handler, Accept(h) PROVE FALSE
    <3>1. attempt' = [attempt EXCEPT ![handler[h].ch] = "Queued"]
      BY <2>2 DEF Accept, CreateAttempt
    <3> QED
      BY <1>1, <3>1, Numbers DEF Typed
  <2>3. ASSUME NEW h \in Handler, Provisioned(h) PROVE FALSE
    BY <1>1, <2>3, Numbers DEF Provisioned, Typed
  <2>4. ASSUME LaunchAction PROVE CommitLaunch /\ check.a = a
    BY <1>1, <2>1, <2>4, Numbers DEF LaunchAction, ScheduleNext, LaunchResumed, AttemptEnds, CheckFacts, CheckEnv,
       CheckTree, CommitLaunch, AbortLaunch, AttemptTo, Typed
  <2>5. ASSUME EditTask \/ CancelTask \/ ChangeProfile \/ RevokeTrust PROVE FALSE
    BY <1>1, <2>5, Numbers DEF EditTask, CancelTask, ChangeProfile, RevokeTrust, Typed
  <2>6. ASSUME BuildAction \/ ConsentAction \/ ChangeHost \/ DisposeActive \/ Crash PROVE FALSE
    BY <2>1, <2>6 DEF BuildAction, BuildPlan, BaseVerified, TargetInspected, Discover, IssueChallenge, BuildFails,
       BuildOnly, ConsentAction, RequestConfirmation, ExpireChallenge, ConsentOnly, ChangeHost, DisposeActive, HostOnly, Crash
  <2>7. ASSUME ExecuteAction PROVE \E h \in Handler : Accept(h) \/ Provisioned(h)
    BY <2>1, <2>7 DEF ExecuteAction, HandlerStep, Replay, Execute, EnvRevalidated, TreeRevalidated, ExecuteRefused,
       ConcurrentReplay, Answer, ExecuteOnly
  <2> QED
    BY <2>1, <2>2, <2>3, <2>4, <2>5, <2>6, <2>7 DEF Next
<1>3. plan[a].env \in check.envs /\ Expected(a) \in check.prints
  BY <1>1, <1>2 DEF CommitLaunch, CheckInv
<1>4. challenge[a] = "consumed" /\ consent[a] = "signed"
  BY <1>1 DEF RowInv, RowsAgree
<1> QED
  BY <1>3, <1>4 DEF Launched

\* An Attempt is accepted from a signed challenge and from the facts it displays, and its
\* Agent is let go only where executable and Worktree have been as displayed since the last
\* revalidation began (LaunchCommandCoordinator, revalidateAcceptedAttempt).
THEOREM LaunchesAreConfirmed == Spec => AsConfirmed
<1>1. Inv /\ [Next]_vars => [\A a \in Challenge : Accepted(a)]_vars /\ [\A a \in Challenge : Launched(a)]_vars
  BY NextAccepts, NextLaunches
<1> QED
  BY <1>1, Invariant, PTL DEF Spec, AsConfirmed, AcceptedAsConfirmed, LaunchedAsConfirmed, Accepted, Launched

Effects == {<<plan[a].cmd, a>> : a \in {b \in Challenge : attempt[b] # "none"}}

LEMMA AcceptOnce ==
  ASSUME Inv, NEW h \in Handler, Accept(h) PROVE Once!Next
<1> DEFINE ch == handler[h].ch
<1>1. Typed /\ RowInv
  BY TypeIs DEF Inv
<1>2. PICK a \in Challenge : a = ch
  BY AcceptFacts
<1>3. PICK c \in Command : c = plan[a].cmd
  BY <1>2, AcceptFacts
<1>4. attempt[a] = "none" /\ record[c] = None
  BY <1>2, <1>3, AcceptFacts
<1>5. {b \in Challenge : attempt'[b] # "none"} = {b \in Challenge : attempt[b] # "none"} \union {a}
  BY <1>1, <1>2, Numbers DEF Accept, CreateAttempt, Typed
<1>6. plan' = plan /\ told' = told
  BY DEF Accept
<1>7. Effects' = Effects \union {<<c, a>>}
  BY <1>3, <1>5, <1>6 DEF Effects
<1>8. \A b \in Challenge : attempt[b] # "none" => plan[b].cmd # c /\ b # a
  BY <1>1, <1>4 DEF RowInv, RowsAgree
<1>9. Once!Unexecuted(c) /\ Once!Unused(a)
  BY <1>8 DEF Once!Unexecuted, Once!Unused
<1>10. Once!Execute(c, a)
  BY <1>6, <1>7, <1>9 DEF Once!Execute, Effects
<1> QED
  BY <1>10 DEF Once!Next

LEMMA AnswersOnce ==
  ASSUME Inv, NEW ch \in Challenge, challenge[ch] # "none", Recorded(ch), Answers(plan[ch].cmd),
         UNCHANGED <<plan, attempt>>
  PROVE  Once!Next
<1>1. Typed /\ RowInv
  BY TypeIs DEF Inv
<1>2. PICK c \in Command : c = plan[ch].cmd
  BY <1>1 DEF RowInv
<1>3. PICK a \in Challenge : a = record[c]
  BY <1>1, <1>2 DEF Recorded, Typed
<1>4. <<c, a>> \in Effects
  BY <1>1, <1>2, <1>3 DEF Recorded, RowInv, RowsAgree, Effects
<1>5. Effects' = Effects
  BY DEF Effects
<1>6. Once!Answer(c, a)
  BY <1>2, <1>3, <1>4, <1>5 DEF Once!Answer, Answers, Effects
<1> QED
  BY <1>6 DEF Once!Next

\* A launch command makes one Attempt and every answer names it, whatever requests run at
\* a time (RT-CMD-02, 03: execute, IdempotencyStore).
THEOREM LaunchesHappenOnce == Spec => ImplementsCommandOnce
<1>1. Init => Once!Init
  <2>1. Init => \A a \in Challenge : attempt[a] = "none"
    BY Numbers DEF Init, Past, Challenge
  <2> QED
    BY <2>1 DEF Init, Once!Init
<1>2. Inv /\ [Next]_vars => [Once!Next]_<<Effects, told>>
  <2> SUFFICES ASSUME Inv, [Next]_vars PROVE Once!Next \/ (Effects' = Effects /\ told' = told)
    OBVIOUS
  <2>1. Typed /\ RowInv /\ HandlerInv
    BY TypeIs DEF Inv
  <2>2. ASSUME \A a \in Challenge : attempt'[a] = "none" <=> attempt[a] = "none",
               \A a \in Challenge : attempt[a] # "none" => plan'[a] = plan[a]
        PROVE  Effects' = Effects
    BY <2>2 DEF Effects
  <2>3. ASSUME NEW h \in Handler, Accept(h) PROVE Once!Next
    BY <2>3, AcceptOnce
  <2>4. ASSUME NEW ch \in Challenge, Replay(ch) PROVE Once!Next
    BY <2>4, AnswersOnce DEF Replay, ExecuteOnly
  <2>5. ASSUME NEW h \in Handler, ConcurrentReplay(h) \/ Answer(h) PROVE Once!Next
    <3>1. handler[h].ch \in Challenge /\ challenge[handler[h].ch] # "none"
      BY <2>1, <2>5 DEF HandlerInv, ConcurrentReplay, Answer
    <3>2. Recorded(handler[h].ch)
      BY <2>1, <2>5, <3>1 DEF HandlerInv, ConcurrentReplay, RecordedMeanwhile, Answer, RowInv, RowsAgree, Recorded
    <3> QED
      BY <2>5, <3>1, <3>2, AnswersOnce DEF ConcurrentReplay, Answer, ExecuteOnly
  <2>6. ASSUME IssueChallenge PROVE Effects' = Effects /\ told' = told
    <3>1. PICK ch \in Unissued : plan' = [plan EXCEPT ![ch] = PreviewSnapshot]
      BY <2>6 DEF IssueChallenge
    <3>2. \A a \in Challenge : attempt[a] # "none" => plan'[a] = plan[a]
      BY <2>1, <3>1 DEF Unissued, RowInv, RowsAgree, Typed
    <3> QED
      BY <2>2, <2>6, <3>2 DEF IssueChallenge
  <2>7. ASSUME UNCHANGED <<plan, told>>, ~\E h \in Handler : Accept(h) PROVE Effects' = Effects /\ told' = told
    BY <2>2, <2>7, NoOtherAccepts, Numbers
  <2>8. ASSUME ~IssueChallenge, ~(\E ch \in Challenge : Replay(ch)),
               ~(\E h \in Handler : ConcurrentReplay(h) \/ Answer(h))
        PROVE  UNCHANGED <<plan, told>>
    BY <2>8
    DEF Next, BuildAction, BuildPlan, BaseVerified, TargetInspected, Discover, BuildFails, BuildOnly,
        ConsentAction, RequestConfirmation, ExpireChallenge, ConsentOnly,
        ExecuteAction, HandlerStep, Execute, EnvRevalidated, TreeRevalidated, ExecuteRefused, Accept, Provisioned, ExecuteOnly,
        LaunchAction, ScheduleNext, LaunchResumed, AttemptEnds, CheckFacts, CheckEnv, CheckTree, CommitLaunch, AbortLaunch,
        LaunchOnly, EditTask, CancelTask, ChangeProfile, RevokeTrust, FactsOnly, ChangeHost, DisposeActive, HostOnly, Crash
  <2> QED
    BY <2>3, <2>4, <2>5, <2>6, <2>7, <2>8
<1> QED
  BY <1>1, <1>2, Invariant, PTL DEF Spec, ImplementsCommandOnce, Once!Spec, Effects

-----------------------------------------------------------------------------
(* What follows for who has been answered, from CommandOnce alone.          *)

\* A command has at most one effect, and an answer names it.
AnswerInv ==
  /\ \A e, f \in Effects : e[1] = f[1] => e = f
  /\ \A c \in Command : told[c] # None => <<c, told[c]>> \in Effects

LEMMA OnceKeeps ==
  ASSUME DOMAIN told = Command, AnswerInv, [Once!Next]_<<Effects, told>>
  PROVE  AnswerInv' /\ Effects \subseteq Effects'
<1> DEFINE Goal == AnswerInv' /\ Effects \subseteq Effects'
<1>1. ASSUME NEW c \in Command, NEW a \in Challenge, Once!Execute(c, a) PROVE Goal
  <2>1. /\ Effects' = Effects \union {<<c, a>>} /\ told' = told
        /\ \A e \in Effects : e[1] # c
    BY <1>1 DEF Once!Execute, Once!Unexecuted, Effects
  <2> QED
    BY <2>1 DEF AnswerInv
<1>2. ASSUME NEW c \in Command, NEW a \in Challenge, Once!Answer(c, a) PROVE Goal
  <2>1. Effects' = Effects /\ <<c, a>> \in Effects /\ told' = [told EXCEPT ![c] = a]
    BY <1>2 DEF Once!Answer, Effects
  <2> QED
    BY <2>1 DEF AnswerInv
<1>3. CASE UNCHANGED <<Effects, told>>
  BY <1>3 DEF AnswerInv
<1> QED
  BY <1>1, <1>2, <1>3 DEF Once!Next

\* Once a launch command is answered with an Attempt, that Attempt is the one it made, and
\* no later answer names another: not to a retry, to a request that waited meanwhile, for
\* another challenge of the same command, or after a restart (RT-CMD-02, 03: execute,
\* IdempotencyStore).
THEOREM AnsweredForGood ==
  ASSUME NEW c \in Command, NEW a \in Challenge
  PROVE  Spec => [](told[c] = a =>
                      [](/\ told[c] = a /\ attempt[a] # "none" /\ plan[a].cmd = c
                         /\ \A b \in Challenge : attempt[b] # "none" /\ plan[b].cmd = c => b = a))
<1> DEFINE Holds == /\ told[c] = a /\ attempt[a] # "none" /\ plan[a].cmd = c
                    /\ \A b \in Challenge : attempt[b] # "none" /\ plan[b].cmd = c => b = a
<1>1. Init => AnswerInv
  <2>1. Init => Effects = {} /\ \A d \in Command : told[d] = None
    <3>1. Init => \A b \in Challenge : attempt[b] = "none"
      BY Numbers DEF Init, Past, Challenge
    <3> QED
      BY <3>1 DEF Init, Effects
  <2> QED
    BY <2>1 DEF AnswerInv
<1>2. Inv => DOMAIN told = Command
  BY TypeIs DEF Inv, Typed
<1>3. Inv /\ AnswerInv /\ [Once!Next]_<<Effects, told>> => AnswerInv'
  BY <1>2, OnceKeeps
<1>4. Inv /\ Inv' /\ AnswerInv /\ told[c] = a /\ [Once!Next]_<<Effects, told>> => (told[c] = a)'
  <2> SUFFICES ASSUME Inv, Inv', AnswerInv, told[c] = a, [Once!Next]_<<Effects, told>> PROVE told'[c] = a
    OBVIOUS
  <2>1. AnswerInv' /\ Effects \subseteq Effects' /\ <<c, a>> \in Effects
    BY <1>2, OnceKeeps, Numbers DEF AnswerInv
  <2>2. told'[c] # None
    BY <1>2, Numbers DEF Once!Next, Once!Execute, Once!Answer
  <2>3. <<c, told'[c]>> \in Effects' /\ <<c, a>> \in Effects'
    BY <2>1, <2>2 DEF AnswerInv
  <2> QED
    BY <2>1, <2>3 DEF AnswerInv
<1>5. AnswerInv /\ told[c] = a => Holds
  <2> SUFFICES ASSUME AnswerInv, told[c] = a PROVE Holds
    OBVIOUS
  <2>1. <<c, a>> \in Effects
    BY Numbers DEF AnswerInv
  <2>2. attempt[a] # "none" /\ plan[a].cmd = c
    BY <2>1 DEF Effects
  <2>3. ASSUME NEW b \in Challenge, attempt[b] # "none", plan[b].cmd = c PROVE b = a
    <3>1. <<c, b>> \in Effects
      BY <2>3 DEF Effects
    <3> QED
      BY <2>1, <3>1 DEF AnswerInv
  <2> QED
    BY <2>2, <2>3
<1> QED
  BY <1>1, <1>3, <1>4, <1>5, Invariant, LaunchesHappenOnce, PTL
     DEF Spec, ImplementsCommandOnce, Once!Spec, Effects

================================================================================
