----------------------------- MODULE SessionControl ----------------------------
(***************************************************************************)
(* Who may write to one Session: its Attachments, the Control Lease with   *)
(* its expiry and fencing counter, takeover and termination behind a       *)
(* confirmation, inputs with their content object and row, resizes, the    *)
(* Session's exit, and a Daemon crash with the reconciliation after it.    *)
(*                                                                         *)
(* Processes that interleave: the handlers of the Daemon's event loop, the *)
(* clock (a lease expires between two reads of it), the exit callback and  *)
(* the crash.  A handler runs without interruption up to its await, except *)
(* that submitting an input makes durable writes a crash or an expiry can  *)
(* fall between: `mid' is the submission that is under way, and every      *)
(* other handler waits for it.                                             *)
(*                                                                         *)
(* Left out: the Session's generation, which nothing changes, so that the  *)
(* comparisons with it always hold; bytes (a command carries the same ones *)
(* each time); damage to a stored object (data gaps).  A client presents   *)
(* only leases it was granted, however old.                                *)
(***************************************************************************)
EXTENDS Naturals, Sequences, FiniteSets

CONSTANTS
  Attachment,     \* the Attachments that may ever be created
  NoAttachment,   \* "no holder"
  Cmd,            \* the WriteSessionInput commands, by commandId
  Terminate,      \* the TerminateSession commands, by commandId
  Resize,         \* the ResizeSession commands, by commandId: each its own size
  InitialSize,    \* the size the PTY is created with
  LeaseTtl,       \* a lease's lifetime, in ticks of the clock
  MaxToken,       \* bound: grants of control
  MaxResizes,     \* bound: sizes given to the PTY
  MaxOpen,        \* the issuer's limit of open challenges
  MaxCrashes      \* bound: Daemon crashes in a behaviour

ASSUME NoAttachmentAssumption == NoAttachment \notin Attachment
ASSUME TtlAssumption == LeaseTtl \in Nat \ {0}
ASSUME BoundAssumption ==
  MaxToken \in Nat /\ MaxResizes \in Nat /\ MaxOpen \in Nat /\ MaxCrashes \in Nat

VARIABLES
  \* SQLite
  avail,         \* sessions.availability
  att,           \* attachments.status, "none" before attach
  counter,       \* sessions.fencing_counter
  holder, token, \* the control_leases row: attachment_id and fencing_token
  left,          \* ... and expires_at, as the ticks left (0: expired or no row)
  row,           \* input_intents.status, "none" without a row
  challenges,    \* confirmation_challenges: neither consumed nor expired
  terminated,    \* command_records of TerminateSession
  size,          \* sessions.terminal_cols / terminal_rows
  \* files in input-intents/
  object,        \* "absent", "temp", "final"
  \* Daemon memory
  owned,         \* the runtime's map still has the Session's PTY process
  ending,        \* a terminate() waits for the exit
  pc,            \* "accepted": the handler of an input awaits the PTY's write
  saving,        \* resizes the PTY accepted whose transaction is still to run
  mid,           \* the submission under way, or Idle
  mode,          \* "up", or "inputs" while reconciliation runs
  crashes,
  \* what the outside has seen (history)
  ptyInput,      \* the inputs the PTY accepted, in order, with their tokens
  ptySizes,      \* the sizes the PTY accepted, in order
  unsaved,       \* the last resize to finish was refused after the PTY had accepted it
  handed,        \* the leases given to clients
  told           \* the inputs a client was told are Dispatched

leaseVars   == <<counter, holder, token, left, handed>>
inputVars   == <<row, object, pc, ptyInput, told>>
sizeVars    == <<size, saving, ptySizes, unsaved>>
confirmVars == <<challenges, terminated>>
processVars == <<avail, owned, ending>>
ctlVars     == <<mode, crashes>>
vars == <<leaseVars, inputVars, sizeVars, confirmVars, processVars, ctlVars, att, mid>>

Lease == [holder : Attachment, token : 1 .. MaxToken]
Current == [holder |-> holder, token |-> token]

Challenge ==
  [kind : {"terminate"}, for : Terminate, lease : Lease]
    \union [kind : {"takeover"}, for : Attachment, lease : Lease]

Idle == [step |-> "idle"]
Submission == [step : {"temp", "final", "prepared"}, cmd : Cmd, lease : Lease]

TypeOK ==
  /\ avail \in {"Alive", "Exited", "Lost"}
  /\ att \in [Attachment -> {"none", "Active", "Closed", "Invalidated"}]
  /\ counter \in 0 .. MaxToken
  /\ holder \in Attachment \union {NoAttachment}
  /\ token \in 0 .. MaxToken
  /\ left \in 0 .. LeaseTtl
  /\ row \in [Cmd -> {"none", "Prepared", "Dispatched", "Uncertain"}]
  /\ challenges \subseteq Challenge
  /\ terminated \subseteq Terminate
  /\ size \in Resize \union {InitialSize}
  /\ object \in [Cmd -> {"absent", "temp", "final"}]
  /\ owned \in BOOLEAN /\ ending \in BOOLEAN /\ unsaved \in BOOLEAN
  /\ pc \in [Cmd -> {"idle", "accepted"}]
  /\ saving \in Seq([size : Resize, lease : Lease])
  /\ mid \in Submission \union {Idle}
  /\ mode \in {"up", "inputs"} /\ crashes \in 0 .. MaxCrashes
  /\ ptyInput \in Seq([cmd : Cmd, token : 1 .. MaxToken])
  /\ ptySizes \in Seq(Resize)
  /\ handed \subseteq Lease
  /\ told \subseteq Cmd

Init ==
  /\ avail = "Alive" /\ owned = TRUE /\ ending = FALSE
  /\ att = [a \in Attachment |-> "none"]
  /\ counter = 0 /\ holder = NoAttachment /\ token = 0 /\ left = 0 /\ handed = {}
  /\ row = [c \in Cmd |-> "none"] /\ object = [c \in Cmd |-> "absent"]
  /\ pc = [c \in Cmd |-> "idle"] /\ ptyInput = <<>> /\ told = {}
  /\ size = InitialSize /\ saving = <<>> /\ ptySizes = <<>> /\ unsaved = FALSE
  /\ challenges = {} /\ terminated = {}
  /\ mid = Idle /\ mode = "up" /\ crashes = 0

\* The event loop is free to run a handler, a continuation or a callback.
Serving == mode = "up" /\ mid = Idle

\* Bug: the Attachment is checked, and not that its lease is the current one.
BugValid(l) == avail = "Alive" /\ owned /\ att[l.holder] = "Active"

\* #assertControlLease passes for lease l.
Valid(l) ==
  /\ avail = "Alive" /\ owned
  /\ l = Current /\ left > 0
  /\ att[l.holder] = "Active"

\* Control is available only to an Active Attachment of an Alive Session.
MayControl(a) == att[a] = "Active" /\ avail = "Alive"

\* Bug: a lease is revoked by letting it expire at once; its row stays.
BugClearLease == holder' = holder /\ token' = token /\ left' = 0

ClearLease == holder' = NoAttachment /\ token' = 0 /\ left' = 0

\* The counter grows and the row names the new holder, in one transaction.
Grant(a) ==
  /\ counter < MaxToken
  /\ counter' = counter + 1
  /\ holder' = a /\ token' = counter' /\ left' = LeaseTtl
  /\ handed' = handed \union {[holder |-> a, token |-> counter']}

-----------------------------------------------------------------------------
(* Attachments and the Control Lease.                                       *)

\* attach: the Attachment observes, whatever the Session's availability.
Attach(a) ==
  /\ Serving /\ att[a] = "none"
  /\ att' = [att EXCEPT ![a] = "Active"]
  /\ UNCHANGED <<leaseVars, inputVars, sizeVars, confirmVars, processVars, ctlVars, mid>>

\* closeAttachment, by command or with its connection, and invalidateAttachment.
EndAttachment(a, status) ==
  /\ Serving /\ att[a] = "Active"
  /\ att' = [att EXCEPT ![a] = status]
  /\ IF holder = a THEN ClearLease /\ UNCHANGED <<counter, handed>> ELSE UNCHANGED leaseVars
  /\ UNCHANGED <<inputVars, sizeVars, confirmVars, processVars, ctlVars, mid>>

\* acquireControl: an expired row is deleted first, an unexpired one refuses.
AcquireControl(a) ==
  /\ Serving /\ MayControl(a)
  /\ left = 0
  /\ Grant(a)
  /\ UNCHANGED <<inputVars, sizeVars, confirmVars, processVars, ctlVars, att, mid>>

\* renewControl prolongs the lease it names while that is unexpired.
RenewControl(l) ==
  /\ Serving /\ l \in handed
  /\ l = Current /\ left > 0 /\ MayControl(l.holder)
  /\ left' = LeaseTtl
  /\ UNCHANGED <<counter, holder, token, handed>>
  /\ UNCHANGED <<inputVars, sizeVars, confirmVars, processVars, ctlVars, att, mid>>

\* The clock: also between two statements of a handler, and while the Daemon is down.
Tick ==
  /\ left > 0
  /\ left' = left - 1
  /\ UNCHANGED <<counter, holder, token, handed>>
  /\ UNCHANGED <<inputVars, sizeVars, confirmVars, processVars, ctlVars, att, mid>>

-----------------------------------------------------------------------------
(* Confirmations, takeover and termination.                                 *)

\* The facts a takeover by a of the confirmed lease l needs, at issue and again
\* when it is executed.
TakeoverFacts(a, l) == MayControl(a) /\ l = Current /\ left > 0

Issue(challenge) ==
  /\ Cardinality(challenges) < MaxOpen
  /\ challenges' = challenges \union {challenge}
  /\ UNCHANGED <<leaseVars, inputVars, sizeVars, processVars, ctlVars, att, mid, terminated>>

IssueTakeover(a, l) ==
  /\ Serving /\ l \in handed /\ TakeoverFacts(a, l)
  /\ Issue([kind |-> "takeover", for |-> a, lease |-> l])

IssueTerminate(t, l) ==
  /\ Serving /\ l \in handed /\ Valid(l)
  /\ Issue([kind |-> "terminate", for |-> t, lease |-> l])

ExpireChallenge(challenge) ==
  /\ challenge \in challenges
  /\ challenges' = challenges \ {challenge}
  /\ UNCHANGED <<leaseVars, inputVars, sizeVars, processVars, ctlVars, att, mid, terminated>>

\* consume: once, and only for what the challenge was issued for.
Consume(challenge) ==
  /\ challenge \in challenges
  /\ challenges' = challenges \ {challenge}

\* takeoverControl: the new holder fences the confirmed one.
TakeoverControl(a, l) ==
  /\ Serving /\ TakeoverFacts(a, l)
  /\ Consume([kind |-> "takeover", for |-> a, lease |-> l])
  /\ Grant(a)
  /\ UNCHANGED <<inputVars, sizeVars, processVars, ctlVars, att, mid, terminated>>

\* terminate() signals the process the runtime owns and waits for its exit.
Signal == ending' = owned /\ UNCHANGED <<avail, owned>>

\* authorizeTerminateSession and the command record are one transaction.
TerminateSession(t, l) ==
  /\ Serving /\ t \notin terminated /\ Valid(l)
  /\ Consume([kind |-> "terminate", for |-> t, lease |-> l])
  /\ terminated' = terminated \union {t}
  /\ Signal
  /\ UNCHANGED <<leaseVars, inputVars, sizeVars, ctlVars, att, mid>>

\* A recorded TerminateSession is carried out again, without its lease; so are
\* the stop commands of the Attempt, which need none.
SignalAgain(t) ==
  /\ Serving /\ t \in terminated
  /\ Signal
  /\ UNCHANGED <<leaseVars, inputVars, sizeVars, confirmVars, ctlVars, att, mid>>

StopSessions ==
  /\ Serving /\ avail = "Alive"
  /\ Signal
  /\ UNCHANGED <<leaseVars, inputVars, sizeVars, confirmVars, ctlVars, att, mid>>

\* After a second without an exit terminate() forgets the process all the same.
TerminateTimesOut ==
  /\ Serving /\ ending
  /\ ending' = FALSE /\ owned' = FALSE
  /\ UNCHANGED <<leaseVars, inputVars, sizeVars, confirmVars, ctlVars, att, mid, avail>>

\* #recordExit: the Session is over and its lease is revoked.
RecordExit ==
  /\ Serving /\ avail = "Alive"
  /\ avail' = "Exited" /\ owned' = FALSE /\ ending' = FALSE
  /\ ClearLease /\ UNCHANGED <<counter, handed>>
  /\ UNCHANGED <<inputVars, sizeVars, confirmVars, ctlVars, att, mid>>

-----------------------------------------------------------------------------
(* Input: object, row, PTY, row.                                            *)

\* Bug: whatever was not confirmed as Dispatched is sent again.
BugNewInput(c) == row[c] # "Dispatched"

\* No row under this commandId: the bytes may be written.
NewInput(c) == row[c] = "none"

Submitting(step, c, l) == [step |-> step, cmd |-> c, lease |-> l]

\* writeSessionInput up to the temporary file; without a valid lease it throws.
SubmitInput(c, l) ==
  /\ Serving /\ l \in handed
  /\ NewInput(c) /\ Valid(l)
  /\ object' = [object EXCEPT ![c] = "temp"]
  /\ mid' = Submitting("temp", c, l)
  /\ UNCHANGED <<leaseVars, sizeVars, confirmVars, processVars, ctlVars, att,
                 row, pc, ptyInput, told>>

\* The file is synced, renamed to its final name and its directory synced.
PublishObject ==
  /\ mid.step = "temp"
  /\ object' = [object EXCEPT ![mid.cmd] = "final"]
  /\ mid' = [mid EXCEPT !.step = "final"]
  /\ UNCHANGED <<leaseVars, sizeVars, confirmVars, processVars, ctlVars, att,
                 row, pc, ptyInput, told>>

PrepareInput ==
  /\ mid.step = "final"
  /\ row' = [row EXCEPT ![mid.cmd] = "Prepared"]
  /\ mid' = [mid EXCEPT !.step = "prepared"]
  /\ UNCHANGED <<leaseVars, sizeVars, confirmVars, processVars, ctlVars, att,
                 object, pc, ptyInput, told>>

\* Bug: the lease is asserted only when the command arrives.
BugMayWrite(l) == TRUE

\* The sink asserts the lease again before the bytes leave the Daemon.
MayWrite(l) == Valid(l)

WritePty ==
  /\ mid.step = "prepared" /\ MayWrite(mid.lease)
  /\ ptyInput' = Append(ptyInput, [cmd |-> mid.cmd, token |-> mid.lease.token])
  /\ pc' = [pc EXCEPT ![mid.cmd] = "accepted"]
  /\ mid' = Idle
  /\ UNCHANGED <<leaseVars, sizeVars, confirmVars, processVars, ctlVars, att,
                 row, object, told>>

\* The second assertion or the PTY's write throws: the row stays Prepared.
WriteThrows ==
  /\ mid.step = "prepared"
  /\ mid' = Idle
  /\ UNCHANGED <<leaseVars, inputVars, sizeVars, confirmVars, processVars, ctlVars, att>>

\* The continuation of the handler: Dispatched is durable before the answer.
DispatchInput(c) ==
  /\ Serving /\ pc[c] = "accepted"
  /\ row' = [row EXCEPT ![c] = "Dispatched"]
  /\ pc' = [pc EXCEPT ![c] = "idle"]
  /\ told' = told \union {c}
  /\ UNCHANGED <<leaseVars, sizeVars, confirmVars, processVars, ctlVars, att, mid,
                 object, ptyInput>>

\* A known commandId is answered from its row, under any lease or none.
ReplayInput(c) ==
  /\ Serving /\ ~NewInput(c)
  /\ told' = IF row[c] = "Dispatched" THEN told \union {c} ELSE told
  /\ UNCHANGED <<leaseVars, sizeVars, confirmVars, processVars, ctlVars, att, mid,
                 row, object, pc, ptyInput>>

-----------------------------------------------------------------------------
(* Resize.                                                                  *)

\* Bug: the newest size is saved first.
BugEnqueue(queue, entry) == <<entry>> \o queue

\* Continuations run in the order their awaits began.
Enqueue(queue, entry) == Append(queue, entry)

\* The PTY takes the size before the handler's await; no row records the command.
ResizeSession(r, l) ==
  /\ Serving /\ l \in handed /\ Valid(l)
  /\ Len(ptySizes) < MaxResizes
  /\ ptySizes' = Append(ptySizes, r)
  /\ saving' = Enqueue(saving, [size |-> r, lease |-> l])
  /\ UNCHANGED <<leaseVars, inputVars, confirmVars, processVars, ctlVars, att, mid,
                 size, unsaved>>

NextSave == Head(saving)

\* The transaction asserts the lease once more, and throws if it has gone.
SaveSize ==
  /\ Serving /\ saving # <<>>
  /\ saving' = Tail(saving)
  /\ IF Valid(NextSave.lease)
       THEN size' = NextSave.size /\ unsaved' = FALSE
       ELSE size' = size /\ unsaved' = TRUE
  /\ UNCHANGED <<leaseVars, inputVars, confirmVars, processVars, ctlVars, att, mid, ptySizes>>

-----------------------------------------------------------------------------
(* Crash and reconciliation.                                                *)

\* Memory is lost; rows, files and the clock are not.
Crash ==
  /\ crashes < MaxCrashes
  /\ crashes' = crashes + 1 /\ mode' = "inputs"
  /\ owned' = FALSE /\ ending' = FALSE
  /\ pc' = [c \in Cmd |-> "idle"] /\ saving' = <<>> /\ mid' = Idle
  /\ UNCHANGED <<leaseVars, confirmVars, att, avail, row, object, ptyInput, told,
                 size, ptySizes, unsaved>>

\* Bugs: the PTY is assumed to have taken the bytes; a status of the Session's.
BugAfterCrash == "Dispatched"
BugAfterCrashStatus == "Lost"

\* From a surviving row nobody can tell whether the PTY took the bytes.
AfterCrash == "Uncertain"

\* reconcileInputIntents, one transaction per row ...
ReconcileInput(c) ==
  /\ mode = "inputs" /\ row[c] = "Prepared"
  /\ row' = [row EXCEPT ![c] = AfterCrash]
  /\ UNCHANGED <<leaseVars, sizeVars, confirmVars, processVars, ctlVars, att, mid,
                 object, pc, ptyInput, told>>

\* Bug: only the object of a Dispatched input is kept.
BugOrphan(c) == object[c] # "absent" /\ row[c] # "Dispatched"

\* ... then the files without a row, temporary ones included.
Orphan(c) == object[c] # "absent" /\ row[c] = "none"

RowsReconciled == mode = "inputs" /\ \A c \in Cmd : row[c] # "Prepared"

QuarantineObject(c) ==
  /\ RowsReconciled /\ Orphan(c)
  /\ object' = [object EXCEPT ![c] = "absent"]
  /\ UNCHANGED <<leaseVars, sizeVars, confirmVars, processVars, ctlVars, att, mid,
                 row, pc, ptyInput, told>>

\* reconcileAfterRestart: an Alive Session is Lost and its lease deleted; then
\* commands are served.
ReconcileSession ==
  /\ RowsReconciled /\ \A c \in Cmd : ~Orphan(c)
  /\ IF avail = "Alive"
       THEN avail' = "Lost" /\ ClearLease /\ UNCHANGED <<counter, handed>>
       ELSE UNCHANGED <<avail, leaseVars>>
  /\ mode' = "up"
  /\ UNCHANGED <<inputVars, sizeVars, confirmVars, att, mid, owned, ending, crashes>>

-----------------------------------------------------------------------------
ControlStep ==
  \/ \E a \in Attachment :
       \/ Attach(a) \/ AcquireControl(a)
       \/ \E status \in {"Closed", "Invalidated"} : EndAttachment(a, status)
  \/ \E l \in Lease :
       \/ RenewControl(l)
       \/ \E a \in Attachment : IssueTakeover(a, l) \/ TakeoverControl(a, l)
       \/ \E t \in Terminate : IssueTerminate(t, l) \/ TerminateSession(t, l)
  \/ \E challenge \in challenges : ExpireChallenge(challenge)
  \/ Tick

ProcessStep ==
  \/ \E t \in Terminate : SignalAgain(t)
  \/ StopSessions \/ TerminateTimesOut \/ RecordExit

InputStep ==
  \/ \E c \in Cmd, l \in Lease : SubmitInput(c, l)
  \/ PublishObject \/ PrepareInput \/ WritePty \/ WriteThrows
  \/ \E c \in Cmd : DispatchInput(c) \/ ReplayInput(c)

ResizeStep == (\E r \in Resize, l \in Lease : ResizeSession(r, l)) \/ SaveSize

RestartStep ==
  \/ Crash \/ ReconcileSession
  \/ \E c \in Cmd : ReconcileInput(c) \/ QuarantineObject(c)

Next == ControlStep \/ ProcessStep \/ InputStep \/ ResizeStep \/ RestartStep

Spec == Init /\ [][Next]_vars

-----------------------------------------------------------------------------
(* Safety.                                                                  *)

\* The bytes of one commandId reach the PTY at most once, over retries, replays,
\* takeovers and restarts (RT-INPUT-03, RT-INPUT-04).
InputOnce ==
  \A i, j \in DOMAIN ptyInput : ptyInput[i].cmd = ptyInput[j].cmd => i = j

\* A fenced writer is never heard again: the tokens the PTY has seen do not
\* decrease, though old leases stay in the hands of clients (RT-LEASE-07).
FencedOrder ==
  \A i, j \in DOMAIN ptyInput : i <= j => ptyInput[i].token <= ptyInput[j].token

\* A lease row, expired or not, names an Active Attachment of an Alive Session and
\* the newest token: nothing that revokes control forgets the row (RT-LEASE-06).
LeaseSound ==
  holder # NoAttachment => avail = "Alive" /\ att[holder] = "Active" /\ token = counter

\* A client told Dispatched was told the truth and will be told it again: the PTY
\* took the bytes and the row says so for ever (RT-INPUT-02).
ToldTrue ==
  \A c \in told : row[c] = "Dispatched" /\ \E i \in DOMAIN ptyInput : ptyInput[i].cmd = c

\* Every input row, and so every byte sent to the PTY, has its object under the
\* final name, through any crash and the quarantine after it (RT-STO-11).
ObjectBehindRow ==
  /\ \A c \in Cmd : row[c] # "none" => object[c] = "final"
  /\ \A i \in DOMAIN ptyInput : object[ptyInput[i].cmd] = "final"

\* An input is written once, in the order of the tokens, behind its object, and answered
\* truly, over retries, replays, takeovers and restarts (writeSessionInput, SubmitInput,
\* reconcileInputIntents).
InputSound == InputOnce /\ FencedOrder /\ ToldTrue /\ ObjectBehindRow

PtySize == IF ptySizes = <<>> THEN InitialSize ELSE ptySizes[Len(ptySizes)]

\* With no resize under way, the recorded size is the PTY's, unless the client was
\* told that its last resize failed; overlapping resizes do not swap.
SizeAgrees == owned /\ saving = <<>> /\ ~unsaved => size = PtySize

-----------------------------------------------------------------------------
(* Action properties.                                                       *)

TakeoverConfirmed ==
  left > 0 /\ token' > token =>
    \E ch \in challenges \ challenges' :
      ch.kind = "takeover" /\ ch.lease = Current /\ ch.for = holder'

TerminateConfirmed ==
  \A t \in terminated' \ terminated :
    \E ch \in challenges \ challenges' :
      ch.kind = "terminate" /\ ch.lease = Current /\ ch.for = t /\ left > 0

\* A writer whose lease has not expired is displaced, and a TerminateSession is
\* recorded, only by using up a challenge that names the very lease in force.
ConfirmedOnly == [][TakeoverConfirmed /\ TerminateConfirmed]_vars

-----------------------------------------------------------------------------
(* Refinement.                                                              *)

Writer == INSTANCE FencedWriter WITH
  epoch <- counter, open <- left > 0, over <- avail # "Alive", written <- ptyInput

\* With its attachments, clock, files, rows, handlers and crashes, control is one
\* fenced writer: every step is a step of FencedWriter or a stutter.
ImplementsFencedWriter == Writer!Spec

================================================================================
