--------------------------- MODULE StopCommands_proofs --------------------------
(***************************************************************************)
(* What StopCommands promises, for any number of commands, requests,       *)
(* challenges and Attempts: nothing is stopped but what the user signed,   *)
(* and a command is applied once.                                          *)
(***************************************************************************)
EXTENDS StopCommands, FiniteSetTheorems, TLAPS

Row == [status : Status, version : Nat, resume : Resumable \union {"none"}]

\* Attempts are used in their order, and one that waits to go back to Starting has no
\* Session yet.
LifeInv ==
  /\ \A a, b \in Attempt : a < b /\ attempt[a].status = "none" => attempt[b].status = "none"
  /\ \A a \in Attempt : attempt[a].resume = "Starting" => session[a] # "Alive"

\* A pause knows what its Attempt was doing.
PauseInv == pauser.pc # "none" => pauser.a \in Attempt /\ pauser.saw \in Resumable

RowInv == TypeOK /\ LifeInv /\ PauseInv

\* A record and the application it tells of name each other, and a request that is being
\* executed has its record.
CommandInv ==
  /\ \A c \in Command : Recorded(c) => record[c].n \in DOMAIN applied /\ applied[record[c].n] = c
  /\ \A n \in DOMAIN applied : Recorded(applied[n]) /\ record[applied[n]].n = n
  /\ \A h \in Handler : handler[h].pc # "none" => handler[h].cmd \in Command /\ Recorded(handler[h].cmd)
  /\ Len(applied) = Cardinality({c \in Command : Recorded(c)})

USE DEF vars, rowVars, confirmVars, processVars, runVars, historyVars

-----------------------------------------------------------------------------
(* The rows of the Attempts.                                                *)

\* The rows agree when one Attempt goes on in its course, under the Sessions there are.
LEMMA OneRowMoves ==
  ASSUME RowInv, NEW a \in Attempt, NEW row \in Row,
         attempt' = [attempt EXCEPT ![a] = row], session' = session,
         attempt[a].status \in Nonterminal, row.status # "none",
         row.status = "Waiting" <=> row.resume # "none",
         session[a] = "Alive" => row.status \in {"Running", "Waiting", "Stopping"},
         session[a] = "Alive" => row.resume # "Starting"
  PROVE  attempt' \in [Attempt -> Row] /\ RowsAgree' /\ LifeInv'
<1>1. attempt \in [Attempt -> Row]
  BY DEF RowInv, TypeOK, Row
<1>2. attempt' \in [Attempt -> Row]
  BY <1>1
<1>3. \A b \in Attempt : attempt'[b] = IF b = a THEN row ELSE attempt[b]
  BY <1>1
<1>4. Active' \subseteq Active
  BY <1>3 DEF Active
<1>5. \A b \in Attempt : attempt'[b].status = "none" <=> attempt[b].status = "none"
  BY <1>3 DEF Nonterminal
<1>6. RowsAgree'
  BY <1>3, <1>4, <1>5 DEF RowsAgree, RowInv, TypeOK
<1> QED
  BY <1>2, <1>3, <1>5, <1>6 DEF LifeInv, RowInv

LEMMA RowsUnchanged == RowsAgree /\ LifeInv /\ UNCHANGED <<attempt, session>> => RowsAgree' /\ LifeInv'
BY DEF RowsAgree, LifeInv, Active

LEMMA InitRows == Init => RowInv
<1> SUFFICES ASSUME Init PROVE RowInv
  OBVIOUS
<1>1. RowsAgree /\ LifeInv /\ PauseInv
  BY DEF Init, RowsAgree, LifeInv, PauseInv, Active, Nonterminal, NoPause
<1>2. 1 \in Nat /\ 0 \in Nat /\ 0 \in 0 .. MaxChanges /\ <<>> \in Seq(Command)
  BY StopBounds
<1>3. NoChallenge.impact \in Impact /\ NoChallenge.state = "none" /\ NoChallenge.cmd = None
  BY DEF NoChallenge, NoImpact, Impact, Kind, Status
<1> QED
  BY <1>1, <1>2, <1>3 DEF Init, RowInv, TypeOK, NoChallenge, NoRecord, Idle, NoPause, Status

-----------------------------------------------------------------------------
(* Every action keeps the rows.                                             *)

LEMMA IssueRows ==
  ASSUME RowInv, NEW c \in Command, NEW kind \in Kind, NEW a \in Attempt \union {None},
         IssueStopChallenge(c, kind, a)
  PROVE  RowInv'
<1>1. RowsAgree' /\ LifeInv' /\ PauseInv'
  BY RowsUnchanged DEF IssueStopChallenge, RowInv, TypeOK, PauseInv
<1>2. StopImpact(kind, a) \in Impact
  BY DEF StopImpact, Impact, RowInv, TypeOK, Status, AliveSessions
<1> QED
  BY <1>1, <1>2 DEF IssueStopChallenge, RowInv, TypeOK

ChallengeRow == [state : {"none", "open", "consumed", "expired"},
                 cmd : Command \union {None}, impact : Impact]

LEMMA StateOfAChallenge ==
  ASSUME challenge \in [Challenge -> ChallengeRow], NEW ch \in Challenge,
         NEW st \in {"none", "open", "consumed", "expired"}
  PROVE  [challenge EXCEPT ![ch].state = st] \in [Challenge -> ChallengeRow]
<1>1. challenge[ch] \in ChallengeRow
  OBVIOUS
<1>2. [challenge[ch] EXCEPT !.state = st] \in ChallengeRow
  BY <1>1 DEF ChallengeRow
<1> HIDE DEF ChallengeRow
<1> QED
  BY <1>2

LEMMA ChallengeRows ==
  ASSUME RowInv, NEW ch \in Challenge, Sign(ch) \/ ExpireChallenge(ch) PROVE RowInv'
<1>1. RowsAgree' /\ LifeInv' /\ PauseInv'
  BY RowsUnchanged DEF Sign, ExpireChallenge, RowInv, TypeOK, PauseInv
<1>2. CASE Sign(ch)
  BY <1>1, <1>2 DEF Sign, RowInv, TypeOK
<1>3. CASE ExpireChallenge(ch)
  <2>1. challenge' \in [Challenge -> ChallengeRow]
    BY <1>3, StateOfAChallenge DEF ExpireChallenge, RowInv, TypeOK, ChallengeRow
  <2> QED
    BY <1>1, <1>3, <2>1, StopBounds DEF ExpireChallenge, Change, RowInv, TypeOK, ChallengeRow
<1> QED
  BY <1>2, <1>3

LEMMA StoppedIsARow ==
  ASSUME RowInv, NEW a \in Attempt, attempt[a].status \in Nonterminal
  PROVE  /\ Stopped(a) \in Row /\ Stopped(a).status \in {"Cancelled", "Stopping"}
         /\ Stopped(a).resume = "none"
         /\ session[a] = "Alive" => Stopped(a).status = "Stopping"
BY DEF Stopped, StopStatus, Row, RowInv, TypeOK, RowsAgree, Status, Nonterminal

LEMMA ExecuteRows ==
  ASSUME RowInv, NEW h \in Handler, NEW c \in Command, NEW kind \in Kind,
         NEW a \in Attempt \union {None}, ExecuteStop(h, c, kind, a)
  PROVE  RowInv'
<1>1. attempt' \in [Attempt -> Row] /\ RowsAgree' /\ LifeInv'
  <2>1. CASE a = None
    BY <2>1, RowsUnchanged DEF ExecuteStop, Apply, RowInv, TypeOK, Row
  <2>2. CASE a \in Attempt
    <3>1. a # None /\ (a = Current => a \in Active)
      BY <2>2 DEF Attempt, None, Current
    <3>2. attempt[a].status \in Nonterminal
      BY <3>1 DEF ExecuteStop, Stoppable, Active
    <3>3. attempt' = [attempt EXCEPT ![a] = Stopped(a)] /\ session' = session
      BY <3>1 DEF ExecuteStop, Apply
    <3> QED
      BY <2>2, <3>2, <3>3, OneRowMoves, StoppedIsARow
  <2> QED
    BY <2>1, <2>2
<1>2. PauseInv'
  BY DEF ExecuteStop, RowInv, PauseInv
<1>3. task' \in [life : {"Draft", "Runnable", "Cancelled"}, version : Nat]
  BY DEF ExecuteStop, Apply, RowInv, TypeOK
<1>4. StopImpact(kind, a) \in Impact
  BY DEF StopImpact, Impact, RowInv, TypeOK, Status, AliveSessions
<1>5. StateVersion(StopImpact(kind, a)) \in Nat /\ StopImpact(kind, a).sessions \subseteq Attempt
  BY <1>4 DEF StateVersion, Impact
<1>6. challenge' \in [Challenge -> ChallengeRow]
  <2>1. challenge \in [Challenge -> ChallengeRow]
    BY DEF RowInv, TypeOK, ChallengeRow
  <2>2. challenge' = challenge \/ \E ch \in Challenge : challenge' = [challenge EXCEPT ![ch].state = "consumed"]
    BY DEF ExecuteStop, ConsumeStopReceipt
  <2> QED
    BY <2>1, <2>2, StateOfAChallenge
<1>7. /\ record' \in [Command -> [kind : Kind \union {"none"}, attempt : Attempt \union {None},
                                  version : Nat, sessions : SUBSET Attempt, n : Nat]]
      /\ handler' \in [Handler -> [pc : {"none", "stop", "wait"},
                                   cmd : Command \union {None}, sessions : SUBSET Attempt]]
      /\ applied' \in Seq(Command)
  BY <1>5 DEF ExecuteStop, RowInv, TypeOK
<1> QED
  BY <1>1, <1>2, <1>3, <1>6, <1>7 DEF ExecuteStop, RowInv, TypeOK, Row, ChallengeRow

HandlerRow == [pc : {"none", "stop", "wait"}, cmd : Command \union {None}, sessions : SUBSET Attempt]

LEMMA HandlerRows ==
  ASSUME RowInv, NEW h \in Handler, HandlerStep(h) \/ \E c \in Command : ReplayStop(h, c)
  PROVE  RowInv'
<1>1. RowsAgree' /\ LifeInv' /\ PauseInv'
  BY RowsUnchanged
  DEF HandlerStep, StopSessions, ReobserveGitAfterStop, ReplayStop, RowInv, TypeOK, PauseInv
<1>2. CASE StopSessions(h)
  <2> DEFINE r == handler[h]
  <2>0. r \in HandlerRow
    BY DEF RowInv, TypeOK, HandlerRow
  <2> HIDE DEF r
  <2>1. [r EXCEPT !.pc = "wait"] \in HandlerRow
    BY <2>0 DEF HandlerRow
  <2>2. handler' \in [Handler -> HandlerRow]
    BY <1>2, <2>1 DEF StopSessions, RowInv, TypeOK, HandlerRow, r
  <2>3. signalled' \subseteq alive
    BY <1>2 DEF StopSessions, ToSignal, RowInv, TypeOK
  <2> QED
    BY <1>1, <1>2, <2>2, <2>3 DEF StopSessions, RowInv, TypeOK, HandlerRow
<1>3. CASE ReobserveGitAfterStop(h)
  BY <1>1, <1>3 DEF ReobserveGitAfterStop, Idle, RowInv, TypeOK
<1>4. ASSUME NEW c \in Command, ReplayStop(h, c) PROVE RowInv'
  BY <1>1, <1>4 DEF ReplayStop, RowInv, TypeOK
<1> QED
  BY <1>2, <1>3, <1>4 DEF HandlerStep

PauserRow == [pc : {"none", "pause", "paused", "validate", "resume", "resumed"},
              a : Attempt \union {None}, saw : Resumable \union {"none"}]

LEMMA PauseRows ==
  ASSUME RowInv, PauseStep \/ \E a \in Attempt : BeginPause(a) \/ BeginResume(a)
  PROVE  RowInv'
<1>1. ASSUME NEW a \in Attempt, BeginPause(a) PROVE RowInv'
  <2>1. RowsAgree' /\ LifeInv'
    BY <1>1, RowsUnchanged DEF BeginPause, PauseOnly, RowInv, TypeOK
  <2>2. PauseInv'
    BY <1>1 DEF BeginPause, PauseInv
  <2> QED
    BY <1>1, <2>1, <2>2, StopBounds DEF BeginPause, PauseOnly, Change, RowInv, TypeOK
<1>2. ASSUME NEW a \in Attempt, BeginResume(a) PROVE RowInv'
  <2>1. RowsAgree' /\ LifeInv'
    BY <1>2, RowsUnchanged DEF BeginResume, PauseOnly, RowInv, TypeOK
  <2>2. attempt[a].resume \in Resumable
    BY <1>2 DEF BeginResume, RowInv, TypeOK, RowsAgree
  <2>3. PauseInv'
    BY <1>2, <2>2 DEF BeginResume, PauseInv
  <2> QED
    BY <1>2, <2>1, <2>2, <2>3 DEF BeginResume, PauseOnly, RowInv, TypeOK
<1>3. CASE PauseProcess
  <2>1. pauser.a \in Attempt /\ pauser.saw \in Resumable
    BY <1>3 DEF PauseProcess, RowInv, PauseInv
  <2>2. RowsAgree' /\ LifeInv'
    BY <1>3, RowsUnchanged DEF PauseProcess, PauseOnly, RowInv, TypeOK
  <2>3. pauser \in PauserRow /\ (pauser' = NoPause \/ pauser' = [pauser EXCEPT !.pc = "paused"])
    BY <1>3 DEF PauseProcess, RowInv, TypeOK, PauserRow
  <2>4. PauseInv' /\ pauser' \in PauserRow
    BY <2>1, <2>3 DEF PauseInv, NoPause, PauserRow
  <2>5. suspended' \subseteq alive
    BY <1>3 DEF PauseProcess, RowInv, TypeOK
  <2> QED
    BY <1>3, <2>2, <2>4, <2>5 DEF PauseProcess, PauseOnly, RowInv, TypeOK, PauserRow
<1>4. CASE ResumeProcess
  <2>1. pauser.a \in Attempt /\ pauser.saw \in Resumable
    BY <1>4 DEF ResumeProcess, RowInv, PauseInv
  <2>2. RowsAgree' /\ LifeInv'
    BY <1>4, RowsUnchanged DEF ResumeProcess, PauseOnly, RowInv, TypeOK
  <2>3. pauser \in PauserRow /\ (pauser' = NoPause \/ pauser' = [pauser EXCEPT !.pc = "resumed"])
    BY <1>4 DEF ResumeProcess, RowInv, TypeOK, PauserRow
  <2>4. PauseInv' /\ pauser' \in PauserRow
    BY <2>1, <2>3 DEF PauseInv, NoPause, PauserRow
  <2>5. suspended' \subseteq alive
    BY <1>4 DEF ResumeProcess, RowInv, TypeOK
  <2> QED
    BY <1>4, <2>2, <2>4, <2>5 DEF ResumeProcess, PauseOnly, RowInv, TypeOK, PauserRow
<1>5. CASE EnterWaiting
  <2>1. pauser.a \in Attempt /\ pauser.saw \in Resumable
    BY <1>5 DEF EnterWaiting, RowInv, PauseInv
  <2>2. attempt' \in [Attempt -> Row] /\ RowsAgree' /\ LifeInv'
    <3>1. CASE attempt[pauser.a].status = pauser.saw
      <4> DEFINE row == [status |-> "Waiting", version |-> attempt[pauser.a].version + 1,
                         resume |-> pauser.saw]
      <4>1. row \in Row
        BY <2>1 DEF RowInv, TypeOK, Row, Status, Nonterminal
      <4>2. attempt[pauser.a].status \in Nonterminal
        BY <2>1, <3>1 DEF Resumable, Nonterminal
      <4>3. session[pauser.a] = "Alive" => pauser.saw # "Starting"
        BY <2>1, <3>1 DEF RowInv, TypeOK, RowsAgree
      <4>4. attempt' = [attempt EXCEPT ![pauser.a] = row] /\ session' = session
        BY <1>5, <3>1 DEF EnterWaiting, PauseOnly
      <4>5. row.status = "Waiting" /\ row.resume = pauser.saw /\ pauser.saw # "none"
        BY <2>1 DEF Resumable
      <4> HIDE DEF row
      <4> QED
        BY <2>1, <4>1, <4>2, <4>3, <4>4, <4>5, OneRowMoves
    <3>2. CASE attempt[pauser.a].status # pauser.saw
      BY <1>5, <3>2, RowsUnchanged DEF EnterWaiting, PauseOnly, RowInv, TypeOK, Row
    <3> QED
      BY <3>1, <3>2
  <2>3. PauseInv'
    BY <1>5 DEF EnterWaiting, NoPause, PauseInv
  <2> QED
    BY <1>5, <2>2, <2>3 DEF EnterWaiting, PauseOnly, NoPause, RowInv, TypeOK, Row
<1>6. CASE LeaveWaiting
  <2>1. pauser.a \in Attempt
    BY <1>6 DEF LeaveWaiting, RowInv, PauseInv
  <2>2. attempt' \in [Attempt -> Row] /\ RowsAgree' /\ LifeInv'
    <3>1. CASE attempt[pauser.a].status = "Waiting" /\ attempt[pauser.a].resume = pauser.saw
      <4> DEFINE row == [status |-> attempt[pauser.a].resume, version |-> attempt[pauser.a].version + 1,
                         resume |-> "none"]
      <4>1. attempt[pauser.a].resume \in Resumable
        BY <2>1, <3>1 DEF RowInv, TypeOK, RowsAgree
      <4>2. row \in Row /\ row.status \in Resumable /\ row.resume = "none"
        BY <2>1, <4>1 DEF RowInv, TypeOK, Row, Status, Nonterminal, Resumable
      <4>3. session[pauser.a] = "Alive" => row.status # "Starting"
        BY <2>1, <3>1 DEF RowInv, LifeInv
      <4>4. attempt' = [attempt EXCEPT ![pauser.a] = row] /\ session' = session
        BY <1>6, <3>1 DEF LeaveWaiting, PauseOnly
      <4>5. attempt[pauser.a].status \in Nonterminal
        BY <3>1 DEF Nonterminal
      <4> HIDE DEF row
      <4> QED
        BY <2>1, <4>2, <4>3, <4>4, <4>5, OneRowMoves DEF Resumable
    <3>2. CASE ~(attempt[pauser.a].status = "Waiting" /\ attempt[pauser.a].resume = pauser.saw)
      BY <1>6, <3>2, RowsUnchanged DEF LeaveWaiting, PauseOnly, RowInv, TypeOK, Row
    <3> QED
      BY <3>1, <3>2
  <2>3. PauseInv'
    BY <1>6 DEF LeaveWaiting, NoPause, PauseInv
  <2> QED
    BY <1>6, <2>2, <2>3 DEF LeaveWaiting, PauseOnly, NoPause, RowInv, TypeOK, Row
<1> QED
  BY <1>1, <1>2, <1>3, <1>4, <1>5, <1>6 DEF PauseStep
LEMMA MovedIsARow ==
  ASSUME RowInv, NEW a \in Attempt, NEW to \in Status
  PROVE  Moved(attempt[a], to) \in Row /\ Moved(attempt[a], to).status = to
         /\ Moved(attempt[a], to).resume = "none"
BY DEF Moved, Row, RowInv, TypeOK

LEMMA AcceptRows ==
  ASSUME RowInv, NEW a \in Attempt, AcceptAttempt(a) PROVE RowInv'
<1> DEFINE row == [status |-> "Queued", version |-> 1, resume |-> "none"]
<1>1. row \in Row
  BY DEF Row, Status, Nonterminal
<1>2. attempt' = [attempt EXCEPT ![a] = row] /\ session' = session /\ attempt[a].status = "none"
  BY DEF AcceptAttempt
<1>3. attempt \in [Attempt -> Row] /\ attempt' \in [Attempt -> Row]
  BY <1>1, <1>2 DEF RowInv, TypeOK, Row
<1>4. \A b \in Attempt : attempt'[b] = IF b = a THEN row ELSE attempt[b]
  BY <1>2, <1>3
<1>5. Active' = {a}
  BY <1>4 DEF Active, AcceptAttempt, Nonterminal
<1>6. \A b \in Attempt : b < a <=> attempt[b].status # "none"
  <2>1. \A b \in Attempt : b > a => attempt[b].status = "none"
    BY <1>2 DEF RowInv, LifeInv, Attempt
  <2> QED
    BY <1>2, <2>1 DEF AcceptAttempt, Attempt
<1>7. session[a] # "Alive"
  BY <1>2 DEF RowInv, TypeOK, RowsAgree
<1>8. RowsAgree'
  <2>1. \A b \in Active' : \A c \in Attempt : c > b => attempt'[c].status = "none"
    BY <1>4, <1>5, <1>6 DEF Attempt
  <2>2. \A b \in Attempt : session'[b] = "Alive" => attempt'[b].status \in {"Running", "Waiting", "Stopping"}
    BY <1>2, <1>4, <1>7 DEF RowInv, TypeOK, RowsAgree
  <2>3. \A b \in Attempt : attempt'[b].status = "Waiting" <=> attempt'[b].resume # "none"
    <3>1. \A b \in Attempt : attempt[b].status = "Waiting" <=> attempt[b].resume # "none"
      BY DEF RowInv, TypeOK, RowsAgree
    <3>2. row.status # "Waiting" /\ row.resume = "none"
      OBVIOUS
    <3> HIDE DEF row
    <3> QED
      BY <1>4, <3>1, <3>2
  <2> QED
    BY <2>1, <2>2, <2>3 DEF RowsAgree
<1>9. LifeInv'
  <2>1. \A b, c \in Attempt : b < c /\ attempt'[b].status = "none" => attempt'[c].status = "none"
    BY <1>4, <1>6, StopBounds DEF Attempt
  <2> QED
    BY <1>2, <1>4, <2>1 DEF RowInv, LifeInv
<1>10. task' \in [life : {"Draft", "Runnable", "Cancelled"}, version : Nat]
  BY DEF AcceptAttempt, RowInv, TypeOK
<1> QED
  BY <1>3, <1>8, <1>9, <1>10 DEF AcceptAttempt, LifeOnly, RowInv, TypeOK, PauseInv, Row

LEMMA LaunchRows ==
  ASSUME RowInv, NEW a \in Attempt, Launch(a) PROVE RowInv'
<1>1. attempt[a].status = "Queued" /\ session[a] # "Alive" /\ session' = session
  BY DEF Launch, RowInv, TypeOK, RowsAgree
<1>2. attempt' = [attempt EXCEPT ![a] = Moved(attempt[a], "Starting")]
  BY DEF Launch
<1>3. attempt' \in [Attempt -> Row] /\ RowsAgree' /\ LifeInv'
  <2>1. Moved(attempt[a], "Starting") \in Row /\ Moved(attempt[a], "Starting").status = "Starting"
        /\ Moved(attempt[a], "Starting").resume = "none"
    BY MovedIsARow DEF Status, Nonterminal
  <2>2. attempt[a].status \in Nonterminal
    BY <1>1 DEF Nonterminal
  <2> QED
    BY <1>1, <1>2, <2>1, <2>2, OneRowMoves
<1> QED
  BY <1>3 DEF Launch, LifeOnly, RowInv, TypeOK, PauseInv, Row

LEMMA LaunchEndsRows ==
  ASSUME RowInv, NEW a \in Attempt, LaunchEnds(a) PROVE RowInv'
<1>1. attempt' \in [Attempt -> Row] /\ RowsAgree' /\ LifeInv'
  <2>1. CASE attempt[a].status \in Nonterminal
    <3>1. attempt' = [attempt EXCEPT ![a] = Moved(attempt[a], "Ended")] /\ session' = session /\ session[a] # "Alive"
      BY <2>1 DEF LaunchEnds
    <3> QED
      BY <2>1, <3>1, MovedIsARow, OneRowMoves DEF Status
  <2>2. CASE attempt[a].status \notin Nonterminal
    BY <2>2, RowsUnchanged DEF LaunchEnds, RowInv, TypeOK, Row
  <2> QED
    BY <2>1, <2>2
<1> QED
  BY <1>1 DEF LaunchEnds, Forget, LifeOnly, RowInv, TypeOK, PauseInv, Row
\* An Attempt moves together with its Session, which does not come to life for one that
\* is over.
LEMMA RowAndSessionMove ==
  ASSUME RowInv, NEW a \in Attempt, NEW row \in Row, NEW availability \in {"none", "Alive", "Exited", "Lost"},
         attempt' = [attempt EXCEPT ![a] = row], session' = [session EXCEPT ![a] = availability],
         attempt[a].status \in Nonterminal, row.status \notin {"none", "Waiting"}, row.resume = "none",
         availability = "Alive" => row.status = "Running"
  PROVE  /\ attempt' \in [Attempt -> Row] /\ session' \in [Attempt -> {"none", "Alive", "Exited", "Lost"}]
         /\ RowsAgree' /\ LifeInv'
<1>1. attempt \in [Attempt -> Row] /\ session \in [Attempt -> {"none", "Alive", "Exited", "Lost"}]
  BY DEF RowInv, TypeOK, Row
<1>2. attempt' \in [Attempt -> Row] /\ session' \in [Attempt -> {"none", "Alive", "Exited", "Lost"}]
  BY <1>1
<1>3. \A b \in Attempt : /\ attempt'[b] = IF b = a THEN row ELSE attempt[b]
                         /\ session'[b] = IF b = a THEN availability ELSE session[b]
  BY <1>1
<1>4. Active' \subseteq Active
  BY <1>3 DEF Active
<1>5. \A b \in Attempt : attempt'[b].status = "none" <=> attempt[b].status = "none"
  BY <1>3 DEF Nonterminal
<1>6. \A b \in Attempt : attempt'[b].status = "Waiting" <=> attempt'[b].resume # "none"
  BY <1>3 DEF RowInv, TypeOK, RowsAgree
<1>7. \A b \in Attempt : session'[b] = "Alive" => attempt'[b].status \in {"Running", "Waiting", "Stopping"}
  BY <1>3 DEF RowInv, TypeOK, RowsAgree
<1>8. RowsAgree'
  BY <1>4, <1>5, <1>6, <1>7 DEF RowsAgree, RowInv, TypeOK
<1> QED
  BY <1>2, <1>3, <1>5, <1>8 DEF LifeInv, RowInv

LEMMA SessionRows ==
  ASSUME RowInv, NEW a \in Attempt, FinalizeRunning(a) \/ RecordExit(a) PROVE RowInv'
<1>1. CASE FinalizeRunning(a)
  <2>1. attempt[a].status \in Nonterminal
    BY <1>1 DEF FinalizeRunning, RowInv, TypeOK, RowsAgree, Nonterminal
  <2>2. attempt' = [attempt EXCEPT ![a] = Moved(attempt[a], "Running")] /\ session' = [session EXCEPT ![a] = "Alive"]
    BY <1>1 DEF FinalizeRunning
  <2>3. /\ attempt' \in [Attempt -> Row] /\ session' \in [Attempt -> {"none", "Alive", "Exited", "Lost"}]
        /\ RowsAgree' /\ LifeInv'
    <3>1. Moved(attempt[a], "Running") \in Row /\ Moved(attempt[a], "Running").status = "Running"
          /\ Moved(attempt[a], "Running").resume = "none"
      BY MovedIsARow DEF Status, Nonterminal
    <3> QED
      BY <2>1, <2>2, <3>1, RowAndSessionMove
  <2> QED
    BY <1>1, <2>3 DEF FinalizeRunning, LifeOnly, RowInv, TypeOK, PauseInv, Row
<1>2. CASE RecordExit(a)
  <2>1. attempt[a].status \in Nonterminal
    BY <1>2 DEF RecordExit, RowInv, TypeOK, RowsAgree, Nonterminal
  <2>2. attempt' = [attempt EXCEPT ![a] = Settled(attempt[a])] /\ session' = [session EXCEPT ![a] = "Exited"]
    BY <1>2 DEF RecordExit
  <2>3. /\ attempt' \in [Attempt -> Row] /\ session' \in [Attempt -> {"none", "Alive", "Exited", "Lost"}]
        /\ RowsAgree' /\ LifeInv'
    <3>1. Settled(attempt[a]) \in Row /\ Settled(attempt[a]).status \in {"Cancelled", "Ended"}
          /\ Settled(attempt[a]).resume = "none"
      BY MovedIsARow DEF Settled, Status
    <3> QED
      BY <2>1, <2>2, <3>1, RowAndSessionMove
  <2> QED
    BY <1>2, <2>3 DEF RecordExit, Forget, LifeOnly, RowInv, TypeOK, PauseInv, Row
<1> QED
  BY <1>1, <1>2

LEMMA EditRows == ASSUME RowInv, EditTask PROVE RowInv'
<1>1. RowsAgree' /\ LifeInv' /\ PauseInv'
  BY RowsUnchanged DEF EditTask, LifeOnly, RowInv, TypeOK, PauseInv
<1>2. task' \in [life : {"Draft", "Runnable", "Cancelled"}, version : Nat]
  <2>1. task.version + 1 \in Nat
    BY DEF RowInv, TypeOK
  <2> QED
    BY <2>1 DEF EditTask, RowInv, TypeOK
<1> QED
  <2>1. changes' \in 0 .. MaxChanges
    BY StopBounds DEF EditTask, Change, RowInv, TypeOK
  <2>2. UNCHANGED <<attempt, session, processVars>> /\ LifeOnly
    BY DEF EditTask
  <2> QED
    BY <1>1, <1>2, <2>1, <2>2 DEF LifeOnly, RowInv, TypeOK

LEMMA CrashRows == ASSUME RowInv, CrashAndReconcile PROVE RowInv'
<1>1. PICK again \in SUBSET {a \in Active : attempt[a].status = "Starting"} :
         /\ attempt' = [a \in Attempt |->
                          IF a \in Active \ again /\ attempt[a].status # "Queued"
                          THEN Moved(attempt[a], "Ended") ELSE attempt[a]]
         /\ alive' = again /\ tracked' = again
  BY DEF CrashAndReconcile
<1>2. \A a \in Attempt : \/ attempt'[a] = attempt[a] /\ (attempt[a].status \in {"Queued", "Starting"} \/ a \notin Active)
                         \/ attempt'[a] = Moved(attempt[a], "Ended") /\ a \in Active
  BY <1>1
<1>3. \A a \in Attempt : session'[a] # "Alive" /\ session'[a] \in {"none", "Exited", "Lost"}
  BY DEF CrashAndReconcile, RowInv, TypeOK
<1>4. attempt \in [Attempt -> Row]
  BY DEF RowInv, TypeOK, Row
<1>5. attempt' \in [Attempt -> Row]
  <2>1. \A a \in Attempt : Moved(attempt[a], "Ended") \in Row
    BY MovedIsARow DEF Status
  <2> QED
    BY <1>1, <1>4, <2>1
<1>6. \A a \in Attempt : /\ attempt'[a].status = "none" <=> attempt[a].status = "none"
                         /\ attempt'[a].status = "Waiting" <=> attempt'[a].resume # "none"
                         /\ a \in Active' => a \in Active
  <2> SUFFICES ASSUME NEW a \in Attempt
               PROVE  /\ attempt'[a].status = "none" <=> attempt[a].status = "none"
                      /\ attempt'[a].status = "Waiting" <=> attempt'[a].resume # "none"
                      /\ a \in Active' => a \in Active
    OBVIOUS
  <2>1. CASE attempt'[a] = attempt[a]
    BY <2>1 DEF RowInv, TypeOK, RowsAgree, Active
  <2>2. CASE attempt'[a] = Moved(attempt[a], "Ended") /\ a \in Active
    BY <2>2 DEF Moved, Active, Nonterminal
  <2> QED
    BY <1>2, <2>1, <2>2
<1>7. RowsAgree'
  BY <1>3, <1>6 DEF RowsAgree, RowInv, TypeOK, Active
<1>8. LifeInv'
  BY <1>3, <1>6 DEF LifeInv, RowInv
<1>9. alive' \subseteq Attempt /\ tracked' = alive' /\ signalled' = {} /\ suspended' = {}
  BY <1>1 DEF CrashAndReconcile, Active
<1>10. session' \in [Attempt -> {"none", "Alive", "Exited", "Lost"}]
  BY <1>3 DEF CrashAndReconcile, RowInv, TypeOK
<1>11. PauseInv' /\ handler' \in [Handler -> HandlerRow] /\ pauser' \in PauserRow
  BY DEF CrashAndReconcile, PauseInv, NoPause, Idle, HandlerRow, PauserRow
<1>12. changes' \in 0 .. MaxChanges
  BY StopBounds DEF CrashAndReconcile, Change, RowInv, TypeOK
<1> QED
  BY <1>5, <1>7, <1>8, <1>9, <1>10, <1>11, <1>12
  DEF CrashAndReconcile, RowInv, TypeOK, Row, HandlerRow, PauserRow

LEMMA NextRows == RowInv /\ [Next]_vars => RowInv'
<1> SUFFICES ASSUME RowInv, [Next]_vars PROVE RowInv'
  OBVIOUS
<1>1. CASE UNCHANGED vars
  <2>1. RowsAgree' /\ LifeInv'
    BY <1>1, RowsUnchanged DEF RowInv, TypeOK
  <2> QED
    BY <1>1, <2>1 DEF RowInv, TypeOK, PauseInv
<1>2. CASE Next
  BY <1>2, IssueRows, ChallengeRows, ExecuteRows, HandlerRows, PauseRows, AcceptRows, LaunchRows,
     LaunchEndsRows, SessionRows, EditRows, CrashRows DEF Next
<1> QED
  BY <1>1, <1>2

\* The rows of the Attempts, the Task and the challenges stay what they are, and never
\* disagree: one Attempt is under way, its Session is Alive only while it is live, and it
\* waits exactly when it knows what it goes back to.
THEOREM StopsAreTyped == Spec => []TypeOK
<1>1. Spec => []RowInv
  BY InitRows, NextRows, PTL DEF Spec
<1>2. RowInv => TypeOK
  BY DEF RowInv
<1> QED
  BY <1>1, <1>2, PTL

-----------------------------------------------------------------------------
(* Nothing is stopped but what was confirmed.                               *)

\* Outside of ExecuteStop, no Attempt is interrupted and no Task cancelled.
LEMMA OthersDoNotInterrupt ==
  ASSUME RowInv, [Next]_vars,
         ~\E h \in Handler, c \in Command, kind \in Kind, a \in Attempt \union {None} : ExecuteStop(h, c, kind, a)
  PROVE  (\A a \in Attempt : ~Interrupted(a)) /\ (task'.life = "Cancelled" => task.life = "Cancelled")
<1> DEFINE Goal == (\A a \in Attempt : ~Interrupted(a)) /\ (task'.life = "Cancelled" => task.life = "Cancelled")
<1>1. ASSUME UNCHANGED <<attempt, task>> PROVE Goal
  BY <1>1 DEF Interrupted
<1>2. ASSUME NEW a \in Attempt, NEW row, attempt' = [attempt EXCEPT ![a] = row], task'.life = "Cancelled" => task.life = "Cancelled",
             row.status = "Stopping" => attempt[a].status = "Stopping" \/ attempt[a].resume = "Stopping",
             row.status = "Cancelled" => attempt[a].status \notin {"Queued", "Starting"}
      PROVE  Goal
  BY <1>2 DEF Interrupted, RowInv, TypeOK
<1> HIDE DEF Goal
<1>3. ASSUME UNCHANGED vars PROVE Goal
  <2>1. attempt' = attempt /\ task' = task
    BY <1>3
  <2> QED
    BY <2>1, <1>1
<1>4. ASSUME NEW c \in Command, NEW kind \in Kind, NEW a \in Attempt \union {None}, IssueStopChallenge(c, kind, a)
      PROVE  Goal
  BY <1>4, <1>1 DEF IssueStopChallenge
<1>5. ASSUME NEW ch \in Challenge, Sign(ch) \/ ExpireChallenge(ch) PROVE Goal
  BY <1>5, <1>1 DEF Sign, ExpireChallenge
<1>6. ASSUME NEW h \in Handler, HandlerStep(h) \/ \E c \in Command : ReplayStop(h, c) PROVE Goal
  BY <1>6, <1>1 DEF HandlerStep, StopSessions, ReobserveGitAfterStop, ReplayStop
<1>7. ASSUME NEW a \in Attempt, BeginPause(a) \/ BeginResume(a) \/ PauseProcess \/ ResumeProcess PROVE Goal
  BY <1>7, <1>1 DEF BeginPause, BeginResume, PauseProcess, ResumeProcess, PauseOnly
<1>8. ASSUME EnterWaiting PROVE Goal
  <2>1. pauser.a \in Attempt /\ task' = task
    BY <1>8 DEF EnterWaiting, PauseOnly, RowInv, PauseInv
  <2>2. CASE attempt' = attempt
    BY <2>1, <2>2, <1>1
  <2>3. CASE attempt' # attempt
    <3> DEFINE row == [status |-> "Waiting", version |-> attempt[pauser.a].version + 1, resume |-> pauser.saw]
    <3>1. attempt' = [attempt EXCEPT ![pauser.a] = row]
      BY <1>8, <2>3 DEF EnterWaiting
    <3>2. row.status = "Waiting"
      OBVIOUS
    <3> HIDE DEF row
    <3> QED
      BY <2>1, <3>1, <3>2, <1>2
  <2> QED
    BY <2>2, <2>3
<1>9. ASSUME LeaveWaiting PROVE Goal
  <2>1. pauser.a \in Attempt /\ task' = task
    BY <1>9 DEF LeaveWaiting, PauseOnly, RowInv, PauseInv
  <2>2. CASE attempt[pauser.a].status = "Waiting" /\ attempt[pauser.a].resume = pauser.saw
    <3>1. attempt' = [attempt EXCEPT ![pauser.a] =
            [status |-> attempt[pauser.a].resume, version |-> attempt[pauser.a].version + 1, resume |-> "none"]]
      BY <1>9, <2>2 DEF LeaveWaiting
    <3> DEFINE row == [status |-> attempt[pauser.a].resume, version |-> attempt[pauser.a].version + 1, resume |-> "none"]
    <3>2. /\ row.status = "Stopping" => attempt[pauser.a].resume = "Stopping"
          /\ row.status = "Cancelled" => attempt[pauser.a].status \notin {"Queued", "Starting"}
      BY <2>2
    <3>3. attempt' = [attempt EXCEPT ![pauser.a] = row]
      BY <3>1
    <3> HIDE DEF row
    <3> QED
      BY <2>1, <3>2, <3>3, <1>2
  <2>3. CASE ~(attempt[pauser.a].status = "Waiting" /\ attempt[pauser.a].resume = pauser.saw)
    <3>1. attempt' = attempt
      BY <1>9, <2>3 DEF LeaveWaiting
    <3> QED
      BY <2>1, <3>1, <1>1
  <2> QED
    BY <2>2, <2>3
<1>10. ASSUME NEW a \in Attempt, AcceptAttempt(a) PROVE Goal
  <2>1. task'.life = "Cancelled" => task.life = "Cancelled"
    BY <1>10 DEF AcceptAttempt, RowInv, TypeOK
  <2> QED
    BY <1>10, <2>1, <1>2 DEF AcceptAttempt
<1>11. ASSUME NEW a \in Attempt, Launch(a) \/ FinalizeRunning(a) PROVE Goal
  BY <1>11, <1>2 DEF Launch, FinalizeRunning, Moved
<1>12. ASSUME NEW a \in Attempt, LaunchEnds(a) PROVE Goal
  BY <1>12, <1>1, <1>2 DEF LaunchEnds, Moved
<1>13. ASSUME NEW a \in Attempt, RecordExit(a) PROVE Goal
  <2>1. attempt[a].status \in {"Running", "Waiting", "Stopping"}
    BY <1>13 DEF RecordExit, RowInv, TypeOK, RowsAgree
  <2>2. attempt' = [attempt EXCEPT ![a] = Settled(attempt[a])] /\ task' = task
    BY <1>13 DEF RecordExit
  <2>3. Settled(attempt[a]).status \in {"Cancelled", "Ended"}
    BY DEF Settled, Moved
  <2> QED
    BY <2>1, <2>2, <2>3, <1>2
<1>14. ASSUME EditTask PROVE Goal
  <2>1. task'.life = task.life /\ attempt' = attempt
    BY <1>14 DEF EditTask, RowInv, TypeOK
  <2> QED
    BY <2>1 DEF Goal, Interrupted
<1>15. ASSUME CrashAndReconcile PROVE Goal
  <2>1. task' = task /\ \A a \in Attempt : attempt'[a] = attempt[a] \/ attempt'[a].status = "Ended"
    BY <1>15 DEF CrashAndReconcile, Moved
  <2> QED
    BY <2>1 DEF Goal, Interrupted
<1> QED
  BY <1>3, <1>4, <1>5, <1>6, <1>7, <1>8, <1>9, <1>10, <1>11, <1>12, <1>13, <1>14, <1>15, StopBounds
  DEF Next, PauseStep, Goal, Attempt

LEMMA ExecuteIsConfirmed ==
  ASSUME RowInv, NEW h \in Handler, NEW c \in Command, NEW kind \in Kind,
         NEW a \in Attempt \union {None}, ExecuteStop(h, c, kind, a)
  PROVE  /\ \A b \in Attempt : Interrupted(b) => \E ch \in Challenge : Confirms(ch, b)
         /\ task.life # "Cancelled" /\ task'.life = "Cancelled" =>
              \A b \in Active : \E ch \in Challenge : Confirms(ch, b)
<1>1. ASSUME a \in Attempt PROVE \E ch \in Challenge : Confirms(ch, a)
  <2>1. a # None
    BY <1>1 DEF Attempt, None
  <2>2. RequiresConfirmation(StopImpact(kind, a))
    BY <2>1 DEF RequiresConfirmation, StopImpact
  <2>3. PICK ch \in Challenge : ConsumeStopReceipt(ch, c, StopImpact(kind, a))
    BY <2>2 DEF ExecuteStop
  <2>4. challenge'[ch].state = "consumed"
    BY <2>3 DEF ConsumeStopReceipt, RowInv, TypeOK
  <2> QED
    BY <2>1, <2>3, <2>4 DEF ConsumeStopReceipt, Bound, StopImpact, Confirms
<1>2. \A b \in Attempt : b # a => ~Interrupted(b)
  BY DEF ExecuteStop, Apply, Interrupted, RowInv, TypeOK
<1>3. task.life # "Cancelled" /\ task'.life = "Cancelled" => kind = "CancelTask"
  BY DEF ExecuteStop, Apply
<1>4. kind = "CancelTask" => \A b \in Active : b = a
  <2>1. \A b1, b2 \in Active : b1 = b2
    BY DEF RowInv, TypeOK, RowsAgree, Active, Nonterminal, Attempt
  <2>2. kind = "CancelTask" => a = Current
    BY DEF ExecuteStop, Stoppable
  <2> QED
    BY <2>1, <2>2 DEF Current
<1> QED
  BY <1>1, <1>2, <1>3, <1>4 DEF Active

\* Nothing is stopped but what the user saw and signed (#executeStopCommand,
\* #consumeStopReceipt).
THEOREM StopsAreConfirmed == Spec => StopAsConfirmed
<1>1. RowInv /\ [Next]_vars =>
        [/\ \A a \in Attempt : Interrupted(a) => \E ch \in Challenge : Confirms(ch, a)
         /\ task.life # "Cancelled" /\ task'.life = "Cancelled" =>
              \A a \in Active : \E ch \in Challenge : Confirms(ch, a)]_vars
  BY OthersDoNotInterrupt, ExecuteIsConfirmed
<1>2. Spec => []RowInv
  BY InitRows, NextRows, PTL DEF Spec
<1> QED
  BY <1>1, <1>2, PTL DEF Spec, StopAsConfirmed
-----------------------------------------------------------------------------
(* A command is applied once.                                               *)

commandVars == <<applied, record, handler>>

LEMMA InitCommands == Init => CommandInv
<1> SUFFICES ASSUME Init PROVE CommandInv
  OBVIOUS
<1>1. {c \in Command : Recorded(c)} = {}
  BY DEF Init, Recorded, NoRecord
<1>2. Len(applied) = 0 /\ DOMAIN applied = {}
  BY DEF Init
<1> QED
  BY <1>1, <1>2, FS_EmptySet DEF CommandInv, Init, Idle, Recorded

LEMMA CommandsUnchanged == CommandInv /\ UNCHANGED commandVars => CommandInv'
BY DEF CommandInv, commandVars, Recorded

\* Requests come and go; their records stay.
LEMMA RequestMoves ==
  ASSUME CommandInv, UNCHANGED <<applied, record>>,
         \A g \in Handler : handler'[g].pc # "none" =>
           handler'[g].cmd \in Command /\ Recorded(handler'[g].cmd)
  PROVE  CommandInv'
BY DEF CommandInv, Recorded

LEMMA HandlerCommands ==
  ASSUME RowInv, CommandInv, NEW h \in Handler, HandlerStep(h) \/ \E c \in Command : ReplayStop(h, c)
  PROVE  CommandInv'
<1>1. CASE StopSessions(h)
  <2>1. \A g \in Handler : handler'[g].cmd = handler[g].cmd /\ (handler'[g].pc # "none" => handler[g].pc # "none")
    BY <1>1 DEF StopSessions, RowInv, TypeOK
  <2> QED
    BY <1>1, <2>1, RequestMoves DEF StopSessions, CommandInv
<1>2. CASE ReobserveGitAfterStop(h)
  <2>1. \A g \in Handler : handler'[g] = Idle \/ handler'[g] = handler[g]
    BY <1>2 DEF ReobserveGitAfterStop, RowInv, TypeOK
  <2> QED
    BY <1>2, <2>1, RequestMoves DEF ReobserveGitAfterStop, CommandInv, Idle
<1>3. ASSUME NEW c \in Command, ReplayStop(h, c) PROVE CommandInv'
  <2>1. \A g \in Handler : handler'[g].cmd = c \/ handler'[g] = handler[g]
    BY <1>3 DEF ReplayStop, RowInv, TypeOK
  <2> QED
    BY <1>3, <2>1, RequestMoves DEF ReplayStop, CommandInv
<1> QED
  BY <1>1, <1>2, <1>3 DEF HandlerStep

\* The application that ExecuteStop adds is the next one, of a command that had none.
LEMMA ExecuteApplies ==
  ASSUME RowInv, CommandInv, NEW h \in Handler, NEW c \in Command, NEW kind \in Kind,
         NEW a \in Attempt \union {None}, ExecuteStop(h, c, kind, a)
  PROVE  /\ ~Recorded(c) /\ applied \in Seq(Command) /\ applied' = Append(applied, c)
         /\ record'[c].n = Len(applied) + 1 /\ Recorded(c)'
         /\ \A d \in Command : d # c => record'[d] = record[d]
         /\ \A g \in Handler : handler'[g].cmd = c \/ handler'[g] = handler[g]
         /\ told' = told
BY DEF ExecuteStop, RowInv, TypeOK, Recorded, Kind

LEMMA ExecuteCommands ==
  ASSUME RowInv, CommandInv, NEW h \in Handler, NEW c \in Command, NEW kind \in Kind,
         NEW a \in Attempt \union {None}, ExecuteStop(h, c, kind, a)
  PROVE  CommandInv'
<1>1. /\ ~Recorded(c) /\ applied \in Seq(Command) /\ applied' = Append(applied, c)
      /\ record'[c].n = Len(applied) + 1 /\ Recorded(c)'
      /\ \A d \in Command : d # c => record'[d] = record[d]
      /\ \A g \in Handler : handler'[g].cmd = c \/ handler'[g] = handler[g]
  BY ExecuteApplies
<1>2. /\ DOMAIN applied' = 1 .. Len(applied) + 1 /\ Len(applied') = Len(applied) + 1
      /\ applied'[Len(applied) + 1] = c /\ \A n \in DOMAIN applied : applied'[n] = applied[n]
  BY <1>1
<1>3. \A d \in Command : d # c => (Recorded(d)' <=> Recorded(d))
  BY <1>1 DEF Recorded
<1>4. \A d \in Command : Recorded(d)' => record'[d].n \in DOMAIN applied' /\ applied'[record'[d].n] = d
  BY <1>1, <1>2, <1>3 DEF CommandInv
<1>5. \A n \in DOMAIN applied' : record'[applied'[n]].kind # "none" /\ record'[applied'[n]].n = n
  <2>1. ASSUME NEW n \in DOMAIN applied PROVE applied[n] \in Command /\ applied[n] # c
    BY <1>1, <2>1 DEF CommandInv
  <2>2. ASSUME NEW n \in DOMAIN applied PROVE record'[applied'[n]].kind # "none" /\ record'[applied'[n]].n = n
    <3>1. applied'[n] = applied[n] /\ record'[applied[n]] = record[applied[n]]
      BY <1>1, <1>2, <2>1, <2>2
    <3> QED
      BY <2>2, <3>1 DEF CommandInv, Recorded
  <2>3. DOMAIN applied' = DOMAIN applied \union {Len(applied) + 1}
    BY <1>1, <1>2
  <2>4. record'[applied'[Len(applied) + 1]].kind # "none" /\ record'[applied'[Len(applied) + 1]].n = Len(applied) + 1
    BY <1>1, <1>2 DEF Recorded
  <2> QED
    BY <2>2, <2>3, <2>4
<1>6. \A g \in Handler : handler'[g].pc # "none" => handler'[g].cmd \in Command /\ record'[handler'[g].cmd].kind # "none"
  <2> SUFFICES ASSUME NEW g \in Handler, handler'[g].pc # "none"
               PROVE  handler'[g].cmd \in Command /\ record'[handler'[g].cmd].kind # "none"
    OBVIOUS
  <2>1. CASE handler'[g].cmd = c
    BY <1>1, <2>1 DEF Recorded
  <2>2. CASE handler'[g].cmd # c
    <3>1. handler[g].cmd \in Command /\ Recorded(handler[g].cmd) /\ handler'[g] = handler[g]
      BY <1>1, <2>2 DEF CommandInv
    <3> QED
      BY <1>1, <2>2, <3>1 DEF Recorded
  <2> QED
    BY <2>1, <2>2
<1>7. Len(applied') = Cardinality({d \in Command : Recorded(d)})'
  <2>1. {d \in Command : Recorded(d)}' = {d \in Command : Recorded(d)} \union {c}
    BY <1>1, <1>3
  <2>2. IsFiniteSet({d \in Command : Recorded(d)})
    BY StopBounds, FS_Subset
  <2> DEFINE S == {d \in Command : Recorded(d)}
  <2>3. c \notin S /\ Len(applied) = Cardinality(S)
    BY <1>1 DEF CommandInv
  <2>4. Cardinality(S \union {c}) = Cardinality(S) + 1
    BY <2>2, <2>3, FS_AddElement
  <2> HIDE DEF S
  <2> QED
    BY <1>2, <2>1, <2>3, <2>4 DEF S
<1> QED
  BY <1>4, <1>5, <1>6, <1>7 DEF CommandInv, Recorded

LEMMA NextCommands == RowInv /\ CommandInv /\ [Next]_vars => CommandInv'
<1> SUFFICES ASSUME RowInv, CommandInv, [Next]_vars PROVE CommandInv'
  OBVIOUS
<1>1. CASE UNCHANGED commandVars
  BY <1>1, CommandsUnchanged
<1>2. ASSUME NEW h \in Handler, NEW c \in Command, NEW kind \in Kind, NEW a \in Attempt \union {None},
             ExecuteStop(h, c, kind, a)
      PROVE  CommandInv'
  BY <1>2, ExecuteCommands
<1>3. ASSUME NEW h \in Handler, HandlerStep(h) \/ \E c \in Command : ReplayStop(h, c) PROVE CommandInv'
  BY <1>3, HandlerCommands
<1>4. CASE CrashAndReconcile
  <2>1. \A g \in Handler : handler'[g] = Idle
    BY <1>4 DEF CrashAndReconcile
  <2> QED
    BY <1>4, <2>1, RequestMoves DEF CrashAndReconcile, Idle
<1> QED
  BY <1>1, <1>2, <1>3, <1>4
  DEF Next, commandVars, IssueStopChallenge, Sign, ExpireChallenge, PauseStep, BeginPause, BeginResume,
      PauseProcess, EnterWaiting, ResumeProcess, LeaveWaiting, PauseOnly, AcceptAttempt, Launch,
      FinalizeRunning, LaunchEnds, RecordExit, EditTask, LifeOnly

\* The applications that fit CommandOnce: no more than there are commands.
Application == 1 .. Cardinality(Command) + 2
Effects == {<<applied[n], n>> : n \in DOMAIN applied}

LEMMA ApplicationsFit ==
  ASSUME CommandInv PROVE Len(applied) <= Cardinality(Command) /\ Cardinality(Command) \in Nat
<1>1. Cardinality({c \in Command : Recorded(c)}) <= Cardinality(Command)
  BY StopBounds, FS_Subset
<1> QED
  BY <1>1, StopBounds, FS_CardinalityType DEF CommandInv

LEMMA ExecuteOnce ==
  ASSUME RowInv, CommandInv, CommandInv', NEW h \in Handler, NEW c \in Command, NEW kind \in Kind,
         NEW a \in Attempt \union {None}, ExecuteStop(h, c, kind, a)
  PROVE  \E n \in Application : Once!Execute(c, n)
<1>1. /\ ~Recorded(c) /\ applied \in Seq(Command) /\ applied' = Append(applied, c) /\ told' = told
  BY ExecuteApplies
<1>2. PICK n \in Application : n = Len(applied) + 1
  BY <1>1, ApplicationsFit DEF Application
<1>3. n \notin DOMAIN applied /\ DOMAIN applied' = DOMAIN applied \union {n}
  BY <1>1, <1>2
<1>4. applied'[n] = c /\ \A i \in DOMAIN applied : applied'[i] = applied[i]
  BY <1>1, <1>2
<1>5. Effects' = Effects \union {<<c, n>>}
  BY <1>3, <1>4 DEF Effects
<1>6. \A i \in DOMAIN applied : applied[i] # c /\ i # n
  BY <1>1, <1>3 DEF CommandInv
<1>7. Once!Unexecuted(c) /\ Once!Unused(n)
  BY <1>6 DEF Once!Unexecuted, Once!Unused
<1>8. Once!Execute(c, n)
  BY <1>1, <1>5, <1>7 DEF Once!Execute, Effects
<1> QED
  BY <1>8

LEMMA AnswerOnce ==
  ASSUME RowInv, CommandInv, NEW h \in Handler, ReobserveGitAfterStop(h)
  PROVE  \E c \in Command, n \in Application : Once!Answer(c, n)
<1> DEFINE c == handler[h].cmd
           n == record[c].n
<1>1. c \in Command /\ n \in DOMAIN applied /\ applied[n] = c
  BY DEF ReobserveGitAfterStop, CommandInv
<1>2. n \in Application
  BY <1>1, ApplicationsFit DEF Application, RowInv, TypeOK
<1>3. applied' = applied /\ told' = [told EXCEPT ![c] = n]
  BY DEF ReobserveGitAfterStop
<1>4. <<c, n>> \in Effects
  BY <1>1 DEF Effects
<1>5. Once!Answer(c, n)
  BY <1>3, <1>4 DEF Once!Answer, Effects
<1> QED
  BY <1>1, <1>2, <1>5

LEMMA CommandsInvariant == Spec => [](RowInv /\ CommandInv)
<1>1. Init => RowInv /\ CommandInv
  BY InitRows, InitCommands
<1>2. RowInv /\ CommandInv /\ [Next]_vars => RowInv' /\ CommandInv'
  BY NextRows, NextCommands
<1> QED
  BY <1>1, <1>2, PTL DEF Spec

\* A stop command is applied once, however often it is sent and by however many requests,
\* and every answer is of that application (RT-CMD-02, 03: #executeStopCommand).
THEOREM StopsHappenOnce == Spec => ImplementsCommandOnce
<1>1. Init => Once!Init
  BY DEF Init, Once!Init
<1>2. RowInv /\ CommandInv /\ CommandInv' /\ [Next]_vars => [Once!Next]_<<Effects, told>>
  <2> SUFFICES ASSUME RowInv, CommandInv, CommandInv', [Next]_vars
               PROVE  Once!Next \/ (Effects' = Effects /\ told' = told)
    OBVIOUS
  <2>1. CASE UNCHANGED <<applied, told>>
    BY <2>1 DEF Effects
  <2>2. ASSUME NEW h \in Handler, NEW c \in Command, NEW kind \in Kind, NEW a \in Attempt \union {None},
               ExecuteStop(h, c, kind, a)
        PROVE  Once!Next
    <3>1. \E n \in Application : Once!Execute(c, n)
      BY <2>2, ExecuteOnce
    <3> QED
      BY <3>1 DEF Once!Next, Application
  <2>3. ASSUME NEW h \in Handler, ReobserveGitAfterStop(h) PROVE Once!Next
    BY <2>3, AnswerOnce DEF Once!Next, Application
  <2> QED
    BY <2>1, <2>2, <2>3
    DEF Next, HandlerStep, StopSessions, ReplayStop, IssueStopChallenge, Sign, ExpireChallenge, PauseStep,
        BeginPause, BeginResume, PauseProcess, EnterWaiting, ResumeProcess, LeaveWaiting, PauseOnly,
        AcceptAttempt, Launch, FinalizeRunning, LaunchEnds, RecordExit, EditTask, CrashAndReconcile, LifeOnly
<1> QED
  BY <1>1, <1>2, CommandsInvariant, PTL DEF Spec, ImplementsCommandOnce, Once!Spec, Effects

-----------------------------------------------------------------------------
(* What follows for who has been answered, from CommandOnce alone.          *)

\* An answer names an application of its command; CommandInv has it that there is one.
AnswerInv == \A c \in Command : told[c] # 0 => <<c, told[c]>> \in Effects

LEMMA OnceKeeps ==
  ASSUME DOMAIN told = Command, AnswerInv, [Once!Next]_<<Effects, told>>
  PROVE  AnswerInv' /\ Effects \subseteq Effects' /\ \A c \in Command : told[c] # 0 => told'[c] # 0
<1> DEFINE Goal == AnswerInv' /\ Effects \subseteq Effects' /\ \A c \in Command : told[c] # 0 => told'[c] # 0
<1>1. ASSUME NEW c \in Command, NEW n \in Application, Once!Execute(c, n) PROVE Goal
  BY <1>1 DEF Once!Execute, AnswerInv, Effects
<1>2. ASSUME NEW c \in Command, NEW n \in Application, Once!Answer(c, n) PROVE Goal
  <2>1. Effects' = Effects /\ <<c, n>> \in Effects /\ told' = [told EXCEPT ![c] = n]
    BY <1>2 DEF Once!Answer, Effects
  <2>2. n # 0
    BY DEF Application
  <2> QED
    BY <2>1, <2>2 DEF AnswerInv
<1>3. CASE UNCHANGED <<Effects, told>>
  BY <1>3 DEF AnswerInv
<1> QED
  BY <1>1, <1>2, <1>3 DEF Once!Next, Application

\* Once a stop command is answered, every later answer is of the same application, and no
\* second one is ever made: not by a retry, by a request that was under way, or after a
\* restart (RT-CMD-02, 03: #executeStopCommand).
THEOREM StopAnsweredForGood ==
  ASSUME NEW c \in Command, NEW n \in Nat \ {0}
  PROVE  Spec => [](told[c] = n =>
                      [](/\ told[c] = n /\ n \in DOMAIN applied /\ applied[n] = c
                         /\ \A m \in DOMAIN applied : applied[m] = c => m = n))
<1> DEFINE Holds == /\ told[c] = n /\ n \in DOMAIN applied /\ applied[n] = c
                    /\ \A m \in DOMAIN applied : applied[m] = c => m = n
<1>1. Init => AnswerInv
  BY DEF Init, AnswerInv
<1>2. RowInv => DOMAIN told = Command
  BY DEF RowInv, TypeOK
<1>3. RowInv /\ AnswerInv /\ [Once!Next]_<<Effects, told>> => AnswerInv'
  BY <1>2, OnceKeeps
<1>4. ASSUME CommandInv, NEW m, <<c, m>> \in Effects
      PROVE  m \in DOMAIN applied /\ applied[m] = c /\ \A k \in DOMAIN applied : applied[k] = c => k = m
  BY <1>4 DEF Effects, CommandInv
<1>5. CommandInv /\ AnswerInv /\ told[c] = n => Holds
  BY <1>4 DEF AnswerInv
<1>6. RowInv /\ CommandInv /\ CommandInv' /\ AnswerInv /\ told[c] = n /\ [Once!Next]_<<Effects, told>>
        => (told[c] = n)'
  <2> SUFFICES ASSUME RowInv, CommandInv', AnswerInv, told[c] = n, [Once!Next]_<<Effects, told>>
               PROVE  told'[c] = n
    OBVIOUS
  <2>1. AnswerInv' /\ <<c, n>> \in Effects' /\ told'[c] # 0
    BY <1>2, OnceKeeps DEF AnswerInv
  <2>2. <<c, told'[c]>> \in Effects'
    BY <2>1 DEF AnswerInv
  <2> QED
    BY <2>1, <2>2 DEF Effects, CommandInv
<1> QED
  BY <1>1, <1>3, <1>5, <1>6, CommandsInvariant, StopsHappenOnce, PTL
     DEF Spec, ImplementsCommandOnce, Once!Spec, Effects

================================================================================
