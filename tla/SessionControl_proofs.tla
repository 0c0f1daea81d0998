-------------------------- MODULE SessionControl_proofs -------------------------
(***************************************************************************)
(* Proofs about SessionControl, for every set of Attachments and commands  *)
(* and every bound.  Two inductive invariants on top of TypeOK:            *)
(*   LeaseInv  the lease row follows the Attachment, the Session and the   *)
(*             counter, and no client holds a token not yet granted;       *)
(*   InputInv  what the row, the object, the submission under way and the  *)
(*             waiting handler of an input say about the PTY.              *)
(* The refinement of FencedWriter follows from both.                       *)
(***************************************************************************)
EXTENDS SessionControl, TLAPS

USE DEF vars, leaseVars, inputVars, sizeVars, confirmVars, processVars, ctlVars

LEMMA SubmissionUnderWay ==
  ASSUME TypeOK, mid.step # "idle" PROVE mid \in Submission
BY DEF TypeOK, Idle

LEMMA GrantTypes ==
  ASSUME TypeOK, NEW a \in Attachment, Grant(a)
  PROVE  /\ counter' \in 0 .. MaxToken /\ token' \in 0 .. MaxToken
         /\ holder' \in Attachment \union {NoAttachment}
         /\ left' \in 0 .. LeaseTtl /\ handed' \subseteq Lease
<1>1. counter + 1 \in 1 .. MaxToken /\ counter + 1 \in 0 .. MaxToken
  BY BoundAssumption DEF TypeOK, Grant
<1>2. [holder |-> a, token |-> counter + 1] \in Lease
  BY <1>1 DEF Lease
<1> QED
  BY <1>1, <1>2, TtlAssumption DEF TypeOK, Grant

LEMMA EmptySeq == ASSUME NEW S PROVE <<>> \in Seq(S)
OBVIOUS

LEMMA HeadTail ==
  ASSUME NEW S, NEW s \in Seq(S), s # <<>> PROVE Head(s) \in S /\ Tail(s) \in Seq(S)
OBVIOUS

LEMMA TypeInit == Init => TypeOK
<1> SUFFICES ASSUME Init PROVE TypeOK
  OBVIOUS
<1>1. /\ saving \in Seq([size : Resize, lease : Lease])
      /\ ptyInput \in Seq([cmd : Cmd, token : 1 .. MaxToken])
      /\ ptySizes \in Seq(Resize)
  BY EmptySeq DEF Init
<1>2. /\ att \in [Attachment -> {"none", "Active", "Closed", "Invalidated"}]
      /\ row \in [Cmd -> {"none", "Prepared", "Dispatched", "Uncertain"}]
      /\ object \in [Cmd -> {"absent", "temp", "final"}]
      /\ pc \in [Cmd -> {"idle", "accepted"}]
  BY DEF Init
<1>3. /\ counter \in 0 .. MaxToken /\ token \in 0 .. MaxToken
      /\ left \in 0 .. LeaseTtl /\ crashes \in 0 .. MaxCrashes
  BY BoundAssumption, TtlAssumption DEF Init
<1>4. /\ avail \in {"Alive", "Exited", "Lost"} /\ mode \in {"up", "inputs"}
      /\ owned \in BOOLEAN /\ ending \in BOOLEAN /\ unsaved \in BOOLEAN
      /\ size \in Resize \union {InitialSize}
      /\ holder \in Attachment \union {NoAttachment}
      /\ mid \in Submission \union {Idle}
      /\ challenges \subseteq Challenge /\ terminated \subseteq Terminate
      /\ handed \subseteq Lease /\ told \subseteq Cmd
  BY DEF Init
<1> QED
  BY <1>1, <1>2, <1>3, <1>4 DEF TypeOK

LEMMA TypeControl == TypeOK /\ ControlStep => TypeOK'
<1> SUFFICES ASSUME TypeOK, ControlStep PROVE TypeOK'
  OBVIOUS
<1>1. ASSUME NEW a \in Attachment, Attach(a) PROVE TypeOK'
  BY <1>1 DEF TypeOK, Attach
<1>2. ASSUME NEW a \in Attachment, AcquireControl(a) PROVE TypeOK'
  <2>1. Grant(a)
    BY <1>2 DEF AcquireControl
  <2> QED
    BY <1>2, <2>1, GrantTypes DEF TypeOK, AcquireControl
<1>3. ASSUME NEW a \in Attachment, NEW status \in {"Closed", "Invalidated"}, EndAttachment(a, status)
      PROVE TypeOK'
  BY <1>3, BoundAssumption, TtlAssumption DEF TypeOK, EndAttachment, ClearLease
<1>4. ASSUME NEW l \in Lease, RenewControl(l) PROVE TypeOK'
  BY <1>4, TtlAssumption DEF TypeOK, RenewControl
<1>5. ASSUME NEW l \in Lease, NEW a \in Attachment, IssueTakeover(a, l) PROVE TypeOK'
  <2>1. [kind |-> "takeover", for |-> a, lease |-> l] \in Challenge
    BY DEF Challenge
  <2> QED
    BY <1>5, <2>1 DEF TypeOK, IssueTakeover, Issue
<1>6. ASSUME NEW l \in Lease, NEW a \in Attachment, TakeoverControl(a, l) PROVE TypeOK'
  <2>1. Grant(a)
    BY <1>6 DEF TakeoverControl
  <2> QED
    BY <1>6, <2>1, GrantTypes DEF TypeOK, TakeoverControl, Consume
<1>7. ASSUME NEW l \in Lease, NEW t \in Terminate, IssueTerminate(t, l) PROVE TypeOK'
  <2>1. [kind |-> "terminate", for |-> t, lease |-> l] \in Challenge
    BY DEF Challenge
  <2> QED
    BY <1>7, <2>1 DEF TypeOK, IssueTerminate, Issue
<1>8. ASSUME NEW l \in Lease, NEW t \in Terminate, TerminateSession(t, l) PROVE TypeOK'
  BY <1>8 DEF TypeOK, TerminateSession, Consume, Signal
<1>9. ASSUME NEW challenge \in challenges, ExpireChallenge(challenge) PROVE TypeOK'
  BY <1>9 DEF TypeOK, ExpireChallenge
<1>10. CASE Tick
  <2>1. left' \in 0 .. LeaseTtl
    BY <1>10, TtlAssumption DEF TypeOK, Tick
  <2> QED
    BY <1>10, <2>1 DEF TypeOK, Tick
<1> QED
  BY <1>1, <1>2, <1>3, <1>4, <1>5, <1>6, <1>7, <1>8, <1>9, <1>10 DEF ControlStep

LEMMA TypeInput == TypeOK /\ InputStep => TypeOK'
<1> SUFFICES ASSUME TypeOK, InputStep PROVE TypeOK'
  OBVIOUS
<1>1. ASSUME NEW c \in Cmd, NEW l \in Lease, SubmitInput(c, l) PROVE TypeOK'
  <2>1. mid' \in Submission
    BY <1>1 DEF SubmitInput, Submitting, Submission
  <2> QED
    BY <1>1, <2>1 DEF TypeOK, SubmitInput
<1>2. CASE PublishObject
  <2>1. mid \in Submission
    BY <1>2, SubmissionUnderWay DEF PublishObject
  <2>2. mid' \in Submission /\ mid.cmd \in Cmd
    BY <1>2, <2>1 DEF PublishObject, Submission
  <2> QED
    BY <1>2, <2>2 DEF TypeOK, PublishObject
<1>3. CASE PrepareInput
  <2>1. mid \in Submission
    BY <1>3, SubmissionUnderWay DEF PrepareInput
  <2>2. mid' \in Submission /\ mid.cmd \in Cmd
    BY <1>3, <2>1 DEF PrepareInput, Submission
  <2> QED
    BY <1>3, <2>2 DEF TypeOK, PrepareInput
<1>4. CASE WritePty
  <2>1. mid \in Submission
    BY <1>4, SubmissionUnderWay DEF WritePty
  <2>2. [cmd |-> mid.cmd, token |-> mid.lease.token] \in [cmd : Cmd, token : 1 .. MaxToken]
    BY <2>1 DEF Submission, Lease
  <2>3. ptyInput' \in Seq([cmd : Cmd, token : 1 .. MaxToken])
    BY <1>4, <2>2 DEF TypeOK, WritePty
  <2> QED
    BY <1>4, <2>1, <2>3 DEF TypeOK, WritePty, Submission
<1>5. CASE WriteThrows
  BY <1>5 DEF TypeOK, WriteThrows
<1>6. ASSUME NEW c \in Cmd, DispatchInput(c) PROVE TypeOK'
  BY <1>6 DEF TypeOK, DispatchInput
<1>7. ASSUME NEW c \in Cmd, ReplayInput(c) PROVE TypeOK'
  BY <1>7 DEF TypeOK, ReplayInput
<1> QED
  BY <1>1, <1>2, <1>3, <1>4, <1>5, <1>6, <1>7 DEF InputStep

LEMMA TypeRest == TypeOK /\ (ProcessStep \/ ResizeStep \/ RestartStep) => TypeOK'
<1> SUFFICES ASSUME TypeOK, ProcessStep \/ ResizeStep \/ RestartStep PROVE TypeOK'
  OBVIOUS
<1>1. CASE ProcessStep
  <2>1. ASSUME NEW t \in Terminate, SignalAgain(t) PROVE TypeOK'
    BY <2>1 DEF TypeOK, SignalAgain, Signal
  <2>2. CASE StopSessions
    BY <2>2 DEF TypeOK, StopSessions, Signal
  <2>3. CASE TerminateTimesOut
    BY <2>3 DEF TypeOK, TerminateTimesOut
  <2>4. CASE RecordExit
    <3>1. token' \in 0 .. MaxToken /\ left' \in 0 .. LeaseTtl
      <4>1. 0 \in 0 .. MaxToken /\ 0 \in 0 .. LeaseTtl
        BY BoundAssumption, TtlAssumption
      <4> QED
        BY <2>4, <4>1 DEF RecordExit, ClearLease
    <3>2. /\ holder' \in Attachment \union {NoAttachment}
          /\ avail' \in {"Alive", "Exited", "Lost"}
      BY <2>4 DEF RecordExit, ClearLease
    <3>3. owned' \in BOOLEAN /\ ending' \in BOOLEAN
      BY <2>4 DEF RecordExit
    <3> QED
      BY <2>4, <3>1, <3>2, <3>3 DEF TypeOK, RecordExit
  <2> QED
    BY <1>1, <2>1, <2>2, <2>3, <2>4 DEF ProcessStep
<1>2. ASSUME NEW r \in Resize, NEW l \in Lease, ResizeSession(r, l) PROVE TypeOK'
  <2>1. saving' \in Seq([size : Resize, lease : Lease]) /\ ptySizes' \in Seq(Resize)
    BY <1>2 DEF TypeOK, ResizeSession, Enqueue
  <2> QED
    BY <1>2, <2>1 DEF TypeOK, ResizeSession
<1>3. CASE SaveSize
  <2>1. /\ NextSave \in [size : Resize, lease : Lease]
        /\ saving' \in Seq([size : Resize, lease : Lease])
    BY <1>3, HeadTail DEF TypeOK, SaveSize, NextSave
  <2> QED
    BY <1>3, <2>1 DEF TypeOK, SaveSize
<1>4. CASE Crash
  <2>1. saving' \in Seq([size : Resize, lease : Lease])
    BY <1>4, EmptySeq DEF Crash
  <2>2. /\ pc' \in [Cmd -> {"idle", "accepted"}]
        /\ mid' \in Submission \union {Idle} /\ mode' \in {"up", "inputs"}
        /\ owned' \in BOOLEAN /\ ending' \in BOOLEAN
    BY <1>4 DEF Crash
  <2>3. crashes' \in 0 .. MaxCrashes
    BY <1>4, BoundAssumption DEF Crash, TypeOK
  <2> QED
    BY <1>4, <2>1, <2>2, <2>3 DEF TypeOK, Crash
<1>5. CASE ReconcileSession
  BY <1>5, BoundAssumption, TtlAssumption DEF TypeOK, ReconcileSession, ClearLease
<1>6. ASSUME NEW c \in Cmd, ReconcileInput(c) PROVE TypeOK'
  BY <1>6 DEF TypeOK, ReconcileInput, AfterCrash
<1>7. ASSUME NEW c \in Cmd, QuarantineObject(c) PROVE TypeOK'
  BY <1>7 DEF TypeOK, QuarantineObject
<1> QED
  BY <1>1, <1>2, <1>3, <1>4, <1>5, <1>6, <1>7 DEF ResizeStep, RestartStep

LEMMA TypeStep == TypeOK /\ [Next]_vars => TypeOK'
<1>1. TypeOK /\ UNCHANGED vars => TypeOK'
  BY DEF TypeOK
<1> QED
  BY <1>1, TypeControl, TypeInput, TypeRest DEF Next

\* Every variable keeps its type.
THEOREM TypeCorrect == Spec => []TypeOK
BY TypeInit, TypeStep, PTL DEF Spec

-----------------------------------------------------------------------------
(* The Control Lease.                                                       *)

LeaseInv ==
  /\ LeaseSound
  /\ left > 0 => holder # NoAttachment
  /\ token <= counter

LEMMA LeaseInit == Init => LeaseInv
BY DEF Init, LeaseInv, LeaseSound

\* What a step of another part of the system leaves alone.
LEMMA LeaseFrame ==
  LeaseInv /\ UNCHANGED <<leaseVars, att, avail>> => LeaseInv'
BY DEF LeaseInv, LeaseSound

LEMMA LeaseGrant ==
  ASSUME TypeOK, NEW a \in Attachment, Grant(a), MayControl(a), UNCHANGED <<att, avail>>
  PROVE  LeaseInv'
<1>1. counter' \in Nat /\ token' = counter' /\ holder' = a
  BY DEF TypeOK, Grant
<1>2. a # NoAttachment
  BY NoAttachmentAssumption
<1> QED
  BY <1>1, <1>2 DEF LeaseInv, LeaseSound, MayControl

LEMMA LeaseCleared ==
  ASSUME TypeOK, ClearLease, UNCHANGED counter PROVE LeaseInv'
BY DEF TypeOK, ClearLease, LeaseInv, LeaseSound

LEMMA LeaseControl == TypeOK /\ LeaseInv /\ ControlStep => LeaseInv'
<1> SUFFICES ASSUME TypeOK, LeaseInv, ControlStep PROVE LeaseInv'
  OBVIOUS
<1>1. ASSUME NEW a \in Attachment, Attach(a) PROVE LeaseInv'
  <2>1. \A b \in Attachment : att[b] = "Active" => att'[b] = "Active"
    BY <1>1 DEF TypeOK, Attach
  <2>2. holder = NoAttachment \/ holder \in Attachment
    BY DEF TypeOK
  <2> QED
    BY <1>1, <2>1, <2>2 DEF Attach, LeaseInv, LeaseSound
<1>2. ASSUME NEW a \in Attachment, AcquireControl(a) PROVE LeaseInv'
  BY <1>2, LeaseGrant DEF AcquireControl
<1>3. ASSUME NEW a \in Attachment, NEW status, EndAttachment(a, status) PROVE LeaseInv'
  <2>1. CASE holder = a
    BY <1>3, <2>1, LeaseCleared DEF EndAttachment
  <2>2. CASE holder # a
    <3>1. UNCHANGED <<leaseVars, avail>>
      BY <1>3, <2>2 DEF EndAttachment
    <3>2. holder # NoAttachment => att'[holder] = att[holder]
      BY <1>3, <2>2 DEF TypeOK, EndAttachment
    <3> QED
      BY <3>1, <3>2 DEF LeaseInv, LeaseSound
  <2> QED
    BY <2>1, <2>2
<1>4. ASSUME NEW l \in Lease, RenewControl(l) PROVE LeaseInv'
  <2>1. holder \in Attachment /\ holder # NoAttachment
    BY <1>4, NoAttachmentAssumption DEF RenewControl, Current, Lease
  <2> QED
    BY <1>4, <2>1 DEF RenewControl, LeaseInv, LeaseSound
<1>5. ASSUME NEW l \in Lease, NEW a \in Attachment, TakeoverControl(a, l) PROVE LeaseInv'
  BY <1>5, LeaseGrant DEF TakeoverControl, TakeoverFacts
<1>6. CASE Tick
  BY <1>6 DEF TypeOK, Tick, LeaseInv, LeaseSound
<1>7. CASE UNCHANGED <<leaseVars, att, avail>>
  BY <1>7, LeaseFrame
<1>8. ASSUME NEW l \in Lease, NEW a \in Attachment, IssueTakeover(a, l)
      PROVE  UNCHANGED <<leaseVars, att, avail>>
  BY <1>8 DEF IssueTakeover, Issue
<1>9. ASSUME NEW l \in Lease, NEW t \in Terminate, IssueTerminate(t, l) \/ TerminateSession(t, l)
      PROVE  UNCHANGED <<leaseVars, att, avail>>
  BY <1>9 DEF IssueTerminate, Issue, TerminateSession, Signal
<1>10. ASSUME NEW challenge \in challenges, ExpireChallenge(challenge)
       PROVE  UNCHANGED <<leaseVars, att, avail>>
  BY <1>10 DEF ExpireChallenge
<1> QED
  BY <1>1, <1>2, <1>3, <1>4, <1>5, <1>6, <1>7, <1>8, <1>9, <1>10 DEF ControlStep

\* Inputs, resizes and the crash leave the lease to the clock.
LEMMA OthersKeepLease ==
  InputStep \/ ResizeStep \/ Crash \/ (\E c \in Cmd : ReconcileInput(c) \/ QuarantineObject(c))
    => UNCHANGED <<leaseVars, att, avail>>
BY DEF InputStep, SubmitInput, PublishObject, PrepareInput, WritePty, WriteThrows,
       DispatchInput, ReplayInput, ResizeStep, ResizeSession, SaveSize, Crash,
       ReconcileInput, QuarantineObject

LEMMA LeaseStep == TypeOK /\ LeaseInv /\ [Next]_vars => LeaseInv'
<1> SUFFICES ASSUME TypeOK, LeaseInv, [Next]_vars PROVE LeaseInv'
  OBVIOUS
<1>1. CASE UNCHANGED <<leaseVars, att, avail>>
  BY <1>1, LeaseFrame
<1>2. CASE RecordExit
  BY <1>2, LeaseCleared DEF RecordExit
<1>3. CASE ReconcileSession
  <2>1. CASE avail = "Alive"
    BY <1>3, <2>1, LeaseCleared DEF ReconcileSession
  <2>2. CASE avail # "Alive"
    BY <1>1, <1>3, <2>2 DEF ReconcileSession
  <2> QED
    BY <2>1, <2>2
<1>4. CASE ProcessStep
  <2>1. (\E t \in Terminate : SignalAgain(t)) \/ StopSessions \/ TerminateTimesOut
          => UNCHANGED <<leaseVars, att, avail>>
    BY DEF SignalAgain, StopSessions, TerminateTimesOut, Signal
  <2> QED
    BY <1>1, <1>2, <1>4, <2>1 DEF ProcessStep
<1> QED
  BY <1>1, <1>3, <1>4, LeaseControl, OthersKeepLease DEF Next, RestartStep

\* A lease row names an Active Attachment of an Alive Session and the newest token.
THEOREM LeaseIsSound == Spec => []LeaseSound
<1>1. LeaseInv => LeaseSound
  BY DEF LeaseInv
<1> QED
  BY <1>1, LeaseInit, LeaseStep, TypeCorrect, PTL DEF Spec

-----------------------------------------------------------------------------
(* Inputs: the row, the object, the submission and the PTY.                 *)

Heard(c) == \E i \in DOMAIN ptyInput : ptyInput[i].cmd = c

\* The submission under way has reached exactly what its step says.
MidInv ==
  /\ mid.step \in {"temp", "final"} => row[mid.cmd] = "none"
  /\ mid.step \in {"final", "prepared"} => object[mid.cmd] = "final"
  /\ mid.step = "prepared" => row[mid.cmd] = "Prepared" /\ pc[mid.cmd] = "idle" /\ ~Heard(mid.cmd)

\* What the row of an input says, and the waiting handler adds, about the PTY.
RowInv ==
  \A c \in Cmd :
    /\ row[c] = "none" => ~Heard(c)
    /\ row[c] # "none" => object[c] = "final"
    /\ row[c] = "Dispatched" => Heard(c)
    /\ pc[c] = "accepted" => row[c] = "Prepared" /\ Heard(c)
    /\ c \in told => row[c] = "Dispatched"

\* While reconciliation runs no handler does.
DownInv == mode = "inputs" => mid = Idle /\ \A c \in Cmd : pc[c] = "idle"

InputInv == MidInv /\ RowInv /\ DownInv /\ InputOnce

\* One more write: the PTY has heard what it had heard, and the new input.
LEMMA OneMore ==
  ASSUME NEW S, NEW s \in Seq(S), NEW e \in S, NEW t, t = Append(s, e)
  PROVE  /\ DOMAIN s = 1 .. Len(s) /\ DOMAIN t = 1 .. (Len(s) + 1) /\ Len(s) \in Nat
         /\ \A i \in DOMAIN s : i \in DOMAIN t /\ t[i] = s[i]
         /\ Len(s) + 1 \in DOMAIN t /\ t[Len(s) + 1] = e
         /\ \A i \in DOMAIN t : i \in DOMAIN s \/ i = Len(s) + 1
<1>1. Len(s) \in Nat /\ Len(t) = Len(s) + 1 /\ t \in Seq(S)
  OBVIOUS
<1>2. DOMAIN s = 1 .. Len(s) /\ DOMAIN t = 1 .. (Len(s) + 1)
  BY <1>1
<1>3. \A i \in 1 .. Len(s) : t[i] = s[i]
  OBVIOUS
<1>4. t[Len(s) + 1] = e
  OBVIOUS
<1> QED
  BY <1>1, <1>2, <1>3, <1>4

Entry == [cmd : Cmd, token : 1 .. MaxToken]

LEMMA Element ==
  ASSUME NEW S, NEW s \in Seq(S), NEW i \in DOMAIN s PROVE s[i] \in S
OBVIOUS

LEMMA EntryTypes ==
  ASSUME TypeOK, NEW i \in DOMAIN ptyInput
  PROVE  ptyInput[i].cmd \in Cmd /\ ptyInput[i].token \in Nat
<1>1. ptyInput[i] \in Entry
  <2>1. ptyInput \in Seq(Entry)
    BY DEF TypeOK, Entry
  <2> QED
    BY <2>1, Element
<1> QED
  BY <1>1 DEF Entry

LEMMA WriteEffect ==
  ASSUME TypeOK, WritePty
  PROVE  /\ mid \in Submission /\ mid.cmd \in Cmd
         /\ [cmd |-> mid.cmd, token |-> mid.lease.token] \in Entry
         /\ ptyInput \in Seq(Entry)
         /\ ptyInput' = Append(ptyInput, [cmd |-> mid.cmd, token |-> mid.lease.token])
<1>1. mid \in Submission
  BY SubmissionUnderWay DEF WritePty
<1>2. [cmd |-> mid.cmd, token |-> mid.lease.token] \in Entry /\ mid.cmd \in Cmd
  BY <1>1 DEF Submission, Lease, Entry
<1> QED
  BY <1>1, <1>2 DEF WritePty, TypeOK, Entry

LEMMA WriteHeard ==
  ASSUME TypeOK, WritePty
  PROVE  \A c \in Cmd : Heard(c)' <=> Heard(c) \/ c = mid.cmd
<1> DEFINE e == [cmd |-> mid.cmd, token |-> mid.lease.token]
<1>1. /\ \A i \in DOMAIN ptyInput : i \in DOMAIN ptyInput' /\ ptyInput'[i] = ptyInput[i]
      /\ Len(ptyInput) + 1 \in DOMAIN ptyInput' /\ ptyInput'[Len(ptyInput) + 1] = e
      /\ \A i \in DOMAIN ptyInput' : i \in DOMAIN ptyInput \/ i = Len(ptyInput) + 1
  BY WriteEffect, OneMore
<1>2. e.cmd = mid.cmd
  OBVIOUS
<1> HIDE DEF e
<1> QED
  BY <1>1, <1>2 DEF Heard

LEMMA InputInit == Init => InputInv
<1> SUFFICES ASSUME Init PROVE InputInv
  OBVIOUS
<1>1. \A c : ~Heard(c)
  BY DEF Init, Heard
<1>2. MidInv
  BY DEF Init, MidInv, Idle
<1>3. RowInv
  BY <1>1 DEF Init, RowInv
<1> QED
  BY <1>2, <1>3 DEF Init, InputInv, DownInv, InputOnce

\* Control, the process and resizes leave inputs alone.
LEMMA InputFrame ==
  InputInv /\ UNCHANGED <<inputVars, mid, mode>> => InputInv'
BY DEF InputInv, MidInv, RowInv, DownInv, InputOnce, Heard

LEMMA OthersKeepInput ==
  ControlStep \/ ProcessStep \/ ResizeStep => UNCHANGED <<inputVars, mid, mode>>
BY DEF ControlStep, Attach, AcquireControl, EndAttachment, RenewControl, IssueTakeover,
       TakeoverControl, IssueTerminate, TerminateSession, ExpireChallenge, Issue, Tick,
       ProcessStep, SignalAgain, StopSessions, TerminateTimesOut, RecordExit,
       ResizeStep, ResizeSession, SaveSize

\* A step that leaves the PTY's input alone leaves InputOnce true.
LEMMA Unheard ==
  ASSUME UNCHANGED ptyInput
  PROVE  (InputOnce => InputOnce') /\ \A c : Heard(c)' <=> Heard(c)
BY DEF InputOnce, Heard

LEMMA InputSteps == TypeOK /\ InputInv /\ InputStep => InputInv'
<1> SUFFICES ASSUME TypeOK, InputInv, InputStep PROVE InputInv'
  OBVIOUS
<1> USE DEF InputInv
<1>1. ASSUME NEW c \in Cmd, NEW l \in Lease, SubmitInput(c, l) PROVE InputInv'
  <2>1. /\ UNCHANGED <<row, pc, told, ptyInput, mode>> /\ row[c] = "none" /\ mode = "up"
        /\ mid'.step = "temp" /\ mid'.cmd = c
        /\ \A d \in Cmd : d # c => object'[d] = object[d]
    BY <1>1 DEF SubmitInput, Submitting, NewInput, Serving, TypeOK
  <2>2. MidInv'
    BY <2>1 DEF MidInv
  <2>3. RowInv'
    BY <2>1, Unheard DEF RowInv
  <2> QED
    BY <2>1, <2>2, <2>3, Unheard DEF DownInv
<1>2. CASE PublishObject
  <2>1. mid \in Submission /\ mid.cmd \in Cmd
    BY <1>2, SubmissionUnderWay DEF PublishObject, Submission
  <2>2. /\ UNCHANGED <<row, pc, told, ptyInput, mode>>
        /\ mid'.step = "final" /\ mid'.cmd = mid.cmd /\ mid # Idle
        /\ object'[mid.cmd] = "final"
        /\ \A d \in Cmd : d # mid.cmd => object'[d] = object[d]
    BY <1>2, <2>1 DEF PublishObject, Submission, TypeOK, Idle
  <2>3. row[mid.cmd] = "none"
    BY <1>2 DEF PublishObject, MidInv
  <2>4. MidInv'
    BY <2>2, <2>3 DEF MidInv
  <2>5. RowInv'
    BY <2>1, <2>2, Unheard DEF RowInv
  <2> QED
    BY <2>2, <2>4, <2>5, Unheard DEF DownInv
<1>3. CASE PrepareInput
  <2>1. mid \in Submission /\ mid.cmd \in Cmd
    BY <1>3, SubmissionUnderWay DEF PrepareInput, Submission
  <2>2. /\ UNCHANGED <<object, pc, told, ptyInput, mode>>
        /\ mid'.step = "prepared" /\ mid'.cmd = mid.cmd /\ mid # Idle
        /\ row'[mid.cmd] = "Prepared"
        /\ \A d \in Cmd : d # mid.cmd => row'[d] = row[d]
    BY <1>3, <2>1 DEF PrepareInput, Submission, TypeOK, Idle
  <2>3. /\ row[mid.cmd] = "none" /\ object[mid.cmd] = "final"
        /\ pc[mid.cmd] = "idle" /\ ~Heard(mid.cmd) /\ mid.cmd \notin told
    BY <1>3, <2>1 DEF PrepareInput, MidInv, RowInv, TypeOK
  <2>4. MidInv'
    BY <2>2, <2>3, Unheard DEF MidInv
  <2>5. RowInv'
    BY <2>1, <2>2, <2>3, Unheard DEF RowInv
  <2> QED
    BY <2>2, <2>4, <2>5, Unheard DEF DownInv
<1>4. CASE WritePty
  <2> DEFINE n == Len(ptyInput) + 1
  <2>1. mid.cmd \in Cmd /\ ~Heard(mid.cmd) /\ row[mid.cmd] = "Prepared" /\ mid # Idle
    BY <1>4, WriteEffect DEF WritePty, MidInv, Idle
  <2>2. /\ UNCHANGED <<row, object, told, mode>> /\ mid' = Idle
        /\ pc'[mid.cmd] = "accepted"
        /\ \A d \in Cmd : d # mid.cmd => pc'[d] = pc[d]
    BY <1>4, <2>1 DEF WritePty, TypeOK
  <2>3. MidInv'
    BY <2>2 DEF MidInv, Idle
  <2>4. RowInv'
    BY <1>4, <2>1, <2>2, WriteHeard DEF RowInv
  <2>5. InputOnce'
    <3>1. /\ \A i \in DOMAIN ptyInput : ptyInput'[i] = ptyInput[i]
          /\ ptyInput'[n].cmd = mid.cmd
          /\ \A i \in DOMAIN ptyInput' : i \in DOMAIN ptyInput \/ i = n
      BY <1>4, WriteEffect, OneMore
    <3> HIDE DEF n
    <3> QED
      BY <2>1, <3>1 DEF InputOnce, Heard
  <2> QED
    BY <2>1, <2>2, <2>3, <2>4, <2>5 DEF DownInv
<1>5. CASE WriteThrows
  <2>1. UNCHANGED <<row, object, pc, told, ptyInput, mode>> /\ mid' = Idle
    BY <1>5 DEF WriteThrows
  <2>2. MidInv'
    BY <2>1 DEF MidInv, Idle
  <2>3. RowInv'
    BY <2>1, Unheard DEF RowInv
  <2> QED
    BY <2>1, <2>2, <2>3, Unheard DEF DownInv
<1>6. ASSUME NEW c \in Cmd, DispatchInput(c) PROVE InputInv'
  <2>1. /\ UNCHANGED <<object, ptyInput, mode, mid>> /\ mid = Idle /\ mode = "up"
        /\ pc[c] = "accepted" /\ row'[c] = "Dispatched" /\ pc'[c] = "idle"
        /\ told' = told \union {c}
        /\ \A d \in Cmd : d # c => row'[d] = row[d] /\ pc'[d] = pc[d]
    BY <1>6 DEF DispatchInput, Serving, TypeOK
  <2>2. MidInv'
    BY <2>1 DEF MidInv, Idle
  <2>3. RowInv'
    BY <2>1, Unheard DEF RowInv
  <2> QED
    BY <2>1, <2>2, <2>3, Unheard DEF DownInv
<1>7. ASSUME NEW c \in Cmd, ReplayInput(c) PROVE InputInv'
  <2>1. /\ UNCHANGED <<row, object, pc, ptyInput, mode, mid>>
        /\ told' = IF row[c] = "Dispatched" THEN told \union {c} ELSE told
    BY <1>7 DEF ReplayInput
  <2>2. MidInv'
    BY <2>1, Unheard DEF MidInv
  <2>3. RowInv'
    BY <2>1, Unheard DEF RowInv
  <2> QED
    BY <2>1, <2>2, <2>3, Unheard DEF DownInv
<1> QED
  BY <1>1, <1>2, <1>3, <1>4, <1>5, <1>6, <1>7 DEF InputStep

LEMMA InputRestart == TypeOK /\ InputInv /\ RestartStep => InputInv'
<1> SUFFICES ASSUME TypeOK, InputInv, RestartStep PROVE InputInv'
  OBVIOUS
<1> USE DEF InputInv
<1>1. CASE Crash
  <2>1. /\ UNCHANGED <<row, object, told, ptyInput>> /\ mid' = Idle
        /\ \A c \in Cmd : pc'[c] = "idle"
    BY <1>1 DEF Crash
  <2>2. MidInv'
    BY <2>1 DEF MidInv, Idle
  <2>3. RowInv'
    BY <2>1, Unheard DEF RowInv
  <2> QED
    BY <2>1, <2>2, <2>3, Unheard DEF DownInv
<1>2. ASSUME NEW c \in Cmd, ReconcileInput(c) PROVE InputInv'
  <2>1. /\ UNCHANGED <<object, pc, told, ptyInput, mid, mode>> /\ mode = "inputs"
        /\ row[c] = "Prepared" /\ row'[c] = "Uncertain"
        /\ \A d \in Cmd : d # c => row'[d] = row[d]
    BY <1>2 DEF ReconcileInput, AfterCrash, TypeOK
  <2>2. mid = Idle /\ \A d \in Cmd : pc[d] = "idle"
    BY <2>1 DEF DownInv
  <2>3. MidInv'
    BY <2>1, <2>2 DEF MidInv, Idle
  <2>4. RowInv'
    BY <2>1, <2>2, Unheard DEF RowInv
  <2> QED
    BY <2>1, <2>2, <2>3, <2>4, Unheard DEF DownInv
<1>3. ASSUME NEW c \in Cmd, QuarantineObject(c) PROVE InputInv'
  <2>1. /\ UNCHANGED <<row, pc, told, ptyInput, mid, mode>> /\ mode = "inputs"
        /\ row[c] = "none"
        /\ \A d \in Cmd : d # c => object'[d] = object[d]
    BY <1>3 DEF QuarantineObject, RowsReconciled, Orphan, TypeOK
  <2>2. mid = Idle
    BY <2>1 DEF DownInv
  <2>3. MidInv'
    BY <2>1, <2>2 DEF MidInv, Idle
  <2>4. RowInv'
    BY <2>1, Unheard DEF RowInv
  <2> QED
    BY <2>1, <2>2, <2>3, <2>4, Unheard DEF DownInv
<1>4. CASE ReconcileSession
  <2>1. UNCHANGED <<inputVars, mid>> /\ mode' = "up"
    BY <1>4 DEF ReconcileSession
  <2>2. MidInv' /\ RowInv'
    BY <2>1, Unheard DEF MidInv, RowInv
  <2> QED
    BY <2>1, <2>2, Unheard DEF DownInv
<1> QED
  BY <1>1, <1>2, <1>3, <1>4 DEF RestartStep

LEMMA InputStepped == TypeOK /\ InputInv /\ [Next]_vars => InputInv'
<1>1. UNCHANGED vars => UNCHANGED <<inputVars, mid, mode>>
  OBVIOUS
<1> QED
  BY <1>1, InputFrame, OthersKeepInput, InputSteps, InputRestart DEF Next

LEMMA InputInvariant == Spec => []InputInv
BY InputInit, InputStepped, TypeCorrect, PTL DEF Spec

\* The bytes of one commandId reach the PTY at most once.
THEOREM InputOnceHolds == Spec => []InputOnce
BY InputInvariant, PTL DEF InputInv

\* A client told Dispatched was told the truth, and the row keeps saying it.
THEOREM ToldTrueHolds == Spec => []ToldTrue
<1>1. TypeOK /\ InputInv => ToldTrue
  BY DEF TypeOK, InputInv, RowInv, ToldTrue, Heard
<1> QED
  BY <1>1, InputInvariant, TypeCorrect, PTL

\* Every input row, and every byte sent to the PTY, has its object.
THEOREM ObjectBehindRowHolds == Spec => []ObjectBehindRow
<1>1. TypeOK /\ InputInv => ObjectBehindRow
  <2> SUFFICES ASSUME TypeOK, InputInv PROVE ObjectBehindRow
    OBVIOUS
  <2>1. ASSUME NEW i \in DOMAIN ptyInput PROVE ptyInput[i].cmd \in Cmd /\ Heard(ptyInput[i].cmd)
    BY <2>1, EntryTypes DEF Heard
  <2> QED
    BY <2>1 DEF InputInv, RowInv, ObjectBehindRow
<1> QED
  BY <1>1, InputInvariant, TypeCorrect, PTL

-----------------------------------------------------------------------------
(* Fencing.                                                                 *)

TokensGranted == \A i \in DOMAIN ptyInput : ptyInput[i].token <= counter

FenceInv == TokensGranted /\ FencedOrder

\* The bytes that go out carry the newest token.
LEMMA WriteToken ==
  ASSUME TypeOK, LeaseInv, WritePty
  PROVE  /\ mid.lease.token = counter /\ avail = "Alive" /\ left > 0
         /\ UNCHANGED <<leaseVars, avail>>
<1>1. mid.lease = Current /\ left > 0 /\ avail = "Alive" /\ UNCHANGED <<leaseVars, avail>>
  BY DEF WritePty, MayWrite, Valid
<1>2. mid.lease.token = token
  BY <1>1 DEF Current
<1> QED
  BY <1>1, <1>2 DEF LeaseInv, LeaseSound

\* Only WritePty gives the PTY input, and the counter never falls.
LEMMA CounterGrows ==
  ASSUME TypeOK, [Next]_vars
  PROVE  /\ counter \in Nat /\ counter' \in Nat /\ counter <= counter'
         /\ WritePty \/ UNCHANGED ptyInput
<1>1. counter \in Nat
  BY DEF TypeOK
<1>2. counter' = counter \/ counter' = counter + 1
  BY DEF Next, ControlStep, Attach, AcquireControl, EndAttachment, RenewControl, IssueTakeover,
       TakeoverControl, IssueTerminate, TerminateSession, ExpireChallenge, Issue, Tick, Grant,
       ProcessStep, SignalAgain, StopSessions, TerminateTimesOut, RecordExit,
       ResizeStep, ResizeSession, SaveSize, InputStep, SubmitInput, PublishObject,
       PrepareInput, WritePty, WriteThrows, DispatchInput, ReplayInput,
       RestartStep, Crash, ReconcileSession, ReconcileInput, QuarantineObject
<1>3. WritePty \/ UNCHANGED ptyInput
  BY OthersKeepInput DEF Next, InputStep, SubmitInput, PublishObject,
       PrepareInput, WriteThrows, DispatchInput, ReplayInput,
       RestartStep, Crash, ReconcileSession, ReconcileInput, QuarantineObject
<1> QED
  BY <1>1, <1>2, <1>3

LEMMA FenceStep == TypeOK /\ LeaseInv /\ FenceInv /\ [Next]_vars => FenceInv'
<1> SUFFICES ASSUME TypeOK, LeaseInv, FenceInv, [Next]_vars PROVE FenceInv'
  OBVIOUS
<1>1. ASSUME NEW i \in DOMAIN ptyInput PROVE ptyInput[i].token \in Nat
  BY <1>1, EntryTypes
<1>2. CASE UNCHANGED ptyInput
  BY <1>1, <1>2, CounterGrows DEF FenceInv, TokensGranted, FencedOrder
<1>3. CASE WritePty
  <2> DEFINE n == Len(ptyInput) + 1
  <2>1. /\ DOMAIN ptyInput = 1 .. Len(ptyInput) /\ Len(ptyInput) \in Nat
        /\ \A i \in DOMAIN ptyInput : ptyInput'[i] = ptyInput[i]
        /\ ptyInput'[n].token = counter
        /\ \A i \in DOMAIN ptyInput' : i \in DOMAIN ptyInput \/ i = n
    BY <1>3, WriteEffect, WriteToken, OneMore
  <2>2. counter' = counter /\ counter \in Nat
    BY <1>3, WriteToken, CounterGrows
  <2>3. TokensGranted'
    BY <1>1, <2>1, <2>2 DEF FenceInv, TokensGranted
  <2>4. ASSUME NEW i \in DOMAIN ptyInput', NEW j \in DOMAIN ptyInput', i <= j
        PROVE  ptyInput'[i].token <= ptyInput'[j].token
    <3>1. CASE j \in DOMAIN ptyInput
      <4>1. i \in DOMAIN ptyInput
        BY <2>1, <2>4, <3>1
      <4> QED
        BY <2>1, <2>4, <3>1, <4>1 DEF FenceInv, FencedOrder
    <3>2. CASE j = n
      BY <1>1, <2>1, <2>2, <3>2 DEF FenceInv, TokensGranted
    <3> QED
      BY <2>1, <3>1, <3>2
  <2> QED
    BY <2>3, <2>4 DEF FenceInv, FencedOrder
<1> QED
  BY <1>2, <1>3, CounterGrows

\* A fenced writer is never heard again.
THEOREM FencedOrderHolds == Spec => []FencedOrder
<1>1. Init => FenceInv
  BY DEF Init, FenceInv, TokensGranted, FencedOrder
<1>2. Spec => []LeaseInv
  BY LeaseInit, LeaseStep, TypeCorrect, PTL DEF Spec
<1>3. FenceInv => FencedOrder
  BY DEF FenceInv
<1> QED
  BY <1>1, <1>2, <1>3, FenceStep, TypeCorrect, PTL DEF Spec

-----------------------------------------------------------------------------
(* Confirmations.                                                           *)

LEMMA ControlConfirmed ==
  ASSUME TypeOK, ControlStep PROVE TakeoverConfirmed /\ TerminateConfirmed
<1>1. CASE UNCHANGED <<token, terminated>>
  BY <1>1 DEF TypeOK, TakeoverConfirmed, TerminateConfirmed
<1>2. ASSUME NEW a \in Attachment, Attach(a) \/ AcquireControl(a)
      PROVE  TakeoverConfirmed /\ TerminateConfirmed
  BY <1>1, <1>2 DEF Attach, AcquireControl, TakeoverConfirmed, TerminateConfirmed
<1>3. ASSUME NEW a \in Attachment, NEW status, EndAttachment(a, status)
      PROVE  TakeoverConfirmed /\ TerminateConfirmed
  BY <1>3 DEF TypeOK, EndAttachment, ClearLease, TakeoverConfirmed, TerminateConfirmed
<1>4. ASSUME NEW l \in Lease, NEW a \in Attachment, TakeoverControl(a, l)
      PROVE  TakeoverConfirmed /\ TerminateConfirmed
  <2> DEFINE ch == [kind |-> "takeover", for |-> a, lease |-> l]
  <2>1. ch \in challenges \ challenges' /\ l = Current /\ holder' = a /\ terminated' = terminated
    BY <1>4 DEF TakeoverControl, TakeoverFacts, Consume, Grant
  <2>2. ch.kind = "takeover" /\ ch.lease = Current /\ ch.for = holder'
    BY <2>1
  <2> QED
    BY <2>1, <2>2 DEF TakeoverConfirmed, TerminateConfirmed
<1>5. ASSUME NEW l \in Lease, NEW t \in Terminate, TerminateSession(t, l)
      PROVE  TakeoverConfirmed /\ TerminateConfirmed
  <2> DEFINE ch == [kind |-> "terminate", for |-> t, lease |-> l]
  <2>1. /\ ch \in challenges \ challenges' /\ l = Current /\ left > 0
        /\ terminated' = terminated \union {t} /\ token' = token /\ token \in Nat
    BY <1>5 DEF TypeOK, TerminateSession, Valid, Consume
  <2>2. ch.kind = "terminate" /\ ch.lease = Current /\ ch.for = t
    BY <2>1
  <2>3. TerminateConfirmed
    BY <2>1, <2>2 DEF TerminateConfirmed
  <2>4. TakeoverConfirmed
    BY <2>1 DEF TakeoverConfirmed
  <2> QED
    BY <2>3, <2>4
<1>6. CASE Tick
  BY <1>1, <1>6 DEF Tick
<1>7. ASSUME NEW l \in Lease, RenewControl(l) PROVE UNCHANGED <<token, terminated>>
  BY <1>7 DEF RenewControl
<1>8. ASSUME NEW l \in Lease, NEW a \in Attachment, IssueTakeover(a, l)
      PROVE  UNCHANGED <<token, terminated>>
  BY <1>8 DEF IssueTakeover, Issue
<1>9. ASSUME NEW l \in Lease, NEW t \in Terminate, IssueTerminate(t, l)
      PROVE  UNCHANGED <<token, terminated>>
  BY <1>9 DEF IssueTerminate, Issue
<1>10. ASSUME NEW challenge \in challenges, ExpireChallenge(challenge)
       PROVE  UNCHANGED <<token, terminated>>
  BY <1>10 DEF ExpireChallenge
<1> QED
  BY <1>1, <1>2, <1>3, <1>4, <1>5, <1>6, <1>7, <1>8, <1>9, <1>10 DEF ControlStep

\* Elsewhere the token is kept or dropped, and no TerminateSession is recorded.
LEMMA OthersKeepConfirmed ==
  ASSUME TypeOK, [Next]_vars, ~ControlStep
  PROVE  (token' = token \/ token' = 0) /\ terminated' = terminated
<1>1. CASE ProcessStep
  BY <1>1 DEF ProcessStep, SignalAgain, StopSessions, TerminateTimesOut, RecordExit,
              ClearLease
<1>2. CASE InputStep \/ ResizeStep
  BY <1>2, OthersKeepLease DEF InputStep, SubmitInput, PublishObject, PrepareInput, WritePty,
       WriteThrows, DispatchInput, ReplayInput, ResizeStep, ResizeSession, SaveSize
<1>3. CASE RestartStep
  BY <1>3 DEF RestartStep, Crash, ReconcileSession, ReconcileInput, QuarantineObject, ClearLease
<1> QED
  BY <1>1, <1>2, <1>3 DEF Next

\* Displacing an unexpired writer and recording a TerminateSession each use up a
\* challenge that names the lease in force.
THEOREM ConfirmedOnlyHolds == Spec => ConfirmedOnly
<1>1. TypeOK /\ [Next]_vars => [TakeoverConfirmed /\ TerminateConfirmed]_vars
  <2> SUFFICES ASSUME TypeOK, [Next]_vars PROVE TakeoverConfirmed /\ TerminateConfirmed
    OBVIOUS
  <2>1. CASE ControlStep
    BY <2>1, ControlConfirmed
  <2>2. CASE ~ControlStep
    <3>1. (token' = token \/ token' = 0) /\ terminated' = terminated
      BY <2>2, OthersKeepConfirmed
    <3>2. token \in Nat
      BY DEF TypeOK
    <3> QED
      BY <3>1, <3>2 DEF TakeoverConfirmed, TerminateConfirmed
  <2> QED
    BY <2>1, <2>2
<1> QED
  BY <1>1, TypeCorrect, PTL DEF Spec, ConfirmedOnly

-----------------------------------------------------------------------------
(* Sizes.                                                                   *)

\* The last resize that waits for its transaction has the PTY's size; when none
\* waits and the last was saved, the row has it.
SizeInv ==
  owned => /\ saving # <<>> => saving[Len(saving)].size = PtySize
           /\ saving = <<>> /\ ~unsaved => size = PtySize

LEMMA LastOfAppend ==
  ASSUME NEW S, NEW s \in Seq(S), NEW e \in S
  PROVE  Append(s, e) # <<>> /\ Append(s, e)[Len(Append(s, e))] = e
OBVIOUS

LEMMA NoneIffEmpty == ASSUME NEW S, NEW s \in Seq(S) PROVE s = <<>> <=> Len(s) = 0
OBVIOUS

LEMMA LastOfTail ==
  ASSUME NEW S, NEW s \in Seq(S), s # <<>>, NEW t, t = Tail(s)
  PROVE  /\ t = <<>> => Head(s) = s[Len(s)]
         /\ t # <<>> => t[Len(t)] = s[Len(s)]
<1>1. t \in Seq(S) /\ Len(s) \in Nat /\ Len(s) > 0 /\ Head(s) = s[1] /\ Len(t) = Len(s) - 1
  OBVIOUS
<1>2. \A i \in 1 .. (Len(s) - 1) : t[i] = s[i + 1]
  OBVIOUS
<1> DEFINE n == Len(s)
           m == Len(t)
<1>0. (t = <<>> <=> m = 0) /\ n \in Nat /\ n > 0 /\ m = n - 1
  BY <1>1, NoneIffEmpty
<1> HIDE DEF n, m
<1>3. t = <<>> => n = 1
  BY <1>0
<1>4. t # <<>> => n - 1 \in 1 .. (n - 1)
  BY <1>0
<1> USE DEF n, m
<1>5. ASSUME t # <<>> PROVE t[Len(t)] = s[Len(s)]
  <2>1. t[Len(s) - 1] = s[(Len(s) - 1) + 1]
    BY <1>2, <1>4, <1>5
  <2>2. (Len(s) - 1) + 1 = Len(s)
    BY <1>1
  <2> QED
    BY <1>1, <2>1, <2>2
<1>6. ASSUME t = <<>> PROVE Head(s) = s[Len(s)]
  BY <1>1, <1>3, <1>6
<1> QED
  BY <1>5, <1>6

LEMMA SizeResize ==
  ASSUME TypeOK, SizeInv, ResizeStep PROVE SizeInv'
<1>1. ASSUME NEW r \in Resize, NEW l \in Lease, ResizeSession(r, l) PROVE SizeInv'
  <2> DEFINE e == [size |-> r, lease |-> l]
  <2>1. /\ saving' = Append(saving, e) /\ ptySizes' = Append(ptySizes, r)
    BY <1>1 DEF ResizeSession, Enqueue
  <2>2. saving' # <<>> /\ saving'[Len(saving')] = e
    <3>1. e \in [size : Resize, lease : Lease] /\ saving \in Seq([size : Resize, lease : Lease])
      BY DEF TypeOK
    <3> HIDE DEF e
    <3> QED
      BY <2>1, <3>1, LastOfAppend
  <2>3. ptySizes' # <<>> /\ ptySizes'[Len(ptySizes')] = r
    <3>1. ptySizes \in Seq(Resize)
      BY DEF TypeOK
    <3> QED
      BY <2>1, <3>1, LastOfAppend
  <2> QED
    BY <2>2, <2>3 DEF SizeInv, PtySize
<1>2. CASE SaveSize
  <2>1. /\ saving # <<>> /\ saving' = Tail(saving) /\ UNCHANGED <<owned, ptySizes>>
        /\ (size' = Head(saving).size /\ unsaved' = FALSE) \/ unsaved' = TRUE
    BY <1>2 DEF SaveSize, NextSave
  <2>2. /\ saving' = <<>> => Head(saving) = saving[Len(saving)]
        /\ saving' # <<>> => saving'[Len(saving')] = saving[Len(saving)]
    <3>1. saving \in Seq([size : Resize, lease : Lease])
      BY DEF TypeOK
    <3> QED
      BY <2>1, <3>1, LastOfTail
  <2> QED
    BY <2>1, <2>2 DEF SizeInv, PtySize
<1> QED
  BY <1>1, <1>2 DEF ResizeStep

\* Everything else keeps the sizes, and owns no process it did not own.
LEMMA OthersKeepSize ==
  ASSUME TypeOK, [Next]_vars, ~ResizeStep
  PROVE  owned' => owned /\ UNCHANGED sizeVars
<1>1. CASE ControlStep
  <2>1. CASE \E a \in Attachment :
               \/ Attach(a) \/ AcquireControl(a)
               \/ \E status \in {"Closed", "Invalidated"} : EndAttachment(a, status)
    BY <2>1 DEF Attach, AcquireControl, EndAttachment
  <2>2. CASE \E l \in Lease, a \in Attachment : IssueTakeover(a, l) \/ TakeoverControl(a, l)
    BY <2>2 DEF IssueTakeover, TakeoverControl, Issue
  <2>3. CASE \E l \in Lease, t \in Terminate : IssueTerminate(t, l) \/ TerminateSession(t, l)
    BY <2>3 DEF IssueTerminate, TerminateSession, Issue, Signal
  <2>4. CASE (\E l \in Lease : RenewControl(l)) \/ (\E ch \in challenges : ExpireChallenge(ch)) \/ Tick
    BY <2>4 DEF RenewControl, ExpireChallenge, Tick
  <2> QED
    BY <1>1, <2>1, <2>2, <2>3, <2>4 DEF ControlStep
<1>2. CASE ProcessStep
  BY <1>2 DEF ProcessStep, SignalAgain, StopSessions, TerminateTimesOut, RecordExit, Signal
<1>3. CASE InputStep
  BY <1>3 DEF InputStep, SubmitInput, PublishObject, PrepareInput, WritePty, WriteThrows,
       DispatchInput, ReplayInput
<1>4. CASE Crash
  BY <1>4 DEF Crash
<1>5. CASE ReconcileSession \/ \E c \in Cmd : ReconcileInput(c) \/ QuarantineObject(c)
  BY <1>5 DEF ReconcileSession, ReconcileInput, QuarantineObject
<1> QED
  BY <1>1, <1>2, <1>3, <1>4, <1>5 DEF Next, RestartStep

\* With no resize under way, the recorded size is the PTY's, unless the last failed.
THEOREM SizeAgreesHolds == Spec => []SizeAgrees
<1>1. Init => SizeInv
  BY DEF Init, SizeInv, PtySize
<1>2. TypeOK /\ SizeInv /\ [Next]_vars => SizeInv'
  BY SizeResize, OthersKeepSize DEF SizeInv, PtySize
<1>3. SizeInv => SizeAgrees
  BY DEF SizeInv, SizeAgrees
<1> QED
  BY <1>1, <1>2, <1>3, TypeCorrect, PTL DEF Spec

-----------------------------------------------------------------------------
(* SessionControl implements FencedWriter.                                  *)

LEMMA WriterGrant ==
  ASSUME TypeOK, NEW a \in Attachment, Grant(a), MayControl(a), UNCHANGED <<avail, ptyInput>>
  PROVE  Writer!Grant
<1>1. (left > 0)' = TRUE /\ counter' = counter + 1 /\ avail = "Alive"
  BY TtlAssumption DEF Grant, MayControl
<1> QED
  BY <1>1 DEF Writer!Grant

WriterFrame == UNCHANGED <<counter, left, avail, ptyInput>>

LEMMA WriterStutter == WriterFrame => UNCHANGED Writer!vars
BY DEF WriterFrame, Writer!vars

LEMMA WriterCleared ==
  ASSUME TypeOK, ClearLease, UNCHANGED <<counter, avail, ptyInput>>
  PROVE  [Writer!Next]_(Writer!vars)
<1>1. (left > 0)' = FALSE
  BY DEF ClearLease
<1>2. CASE left > 0
  BY <1>1, <1>2 DEF Writer!Next, Writer!Revoke
<1>3. CASE ~(left > 0)
  BY <1>1, <1>3 DEF Writer!vars
<1> QED
  BY <1>2, <1>3

LEMMA WriterEnd ==
  ASSUME TypeOK, ClearLease, avail = "Alive", avail' # "Alive", UNCHANGED <<counter, ptyInput>>
  PROVE  Writer!End
<1>1. (left > 0)' = FALSE
  BY DEF ClearLease
<1> QED
  BY <1>1 DEF Writer!End

LEMMA WriterControl ==
  ASSUME TypeOK, ControlStep PROVE [Writer!Next]_(Writer!vars)
<1>1. UNCHANGED ptyInput
  BY OthersKeepInput
<1>2. CASE WriterFrame
  BY <1>2, WriterStutter
<1>3. ASSUME NEW a \in Attachment, AcquireControl(a) PROVE Writer!Next
  BY <1>1, <1>3, WriterGrant DEF AcquireControl, Writer!Next
<1>4. ASSUME NEW l \in Lease, NEW a \in Attachment, TakeoverControl(a, l) PROVE Writer!Next
  BY <1>1, <1>4, WriterGrant DEF TakeoverControl, TakeoverFacts, Writer!Next
<1>5. ASSUME NEW a \in Attachment, NEW status, EndAttachment(a, status)
      PROVE  [Writer!Next]_(Writer!vars)
  BY <1>1, <1>2, <1>5, WriterCleared DEF EndAttachment, WriterFrame
<1>6. ASSUME NEW l \in Lease, RenewControl(l) PROVE UNCHANGED Writer!vars
  <2>1. (left > 0) = TRUE /\ (left > 0)' = TRUE
    BY <1>6, TtlAssumption DEF RenewControl
  <2> QED
    BY <1>1, <1>6, <2>1 DEF RenewControl, Writer!vars
<1>7. CASE Tick
  <2>1. (left > 0) = TRUE /\ UNCHANGED <<counter, avail>>
    BY <1>7 DEF Tick
  <2>2. CASE (left > 0)'
    BY <1>1, <2>1, <2>2 DEF Writer!vars
  <2>3. CASE ~(left > 0)'
    <3>1. Writer!Revoke
      BY <1>1, <2>1, <2>3 DEF Writer!Revoke
    <3> QED
      BY <3>1 DEF Writer!Next
  <2> QED
    BY <2>2, <2>3
<1>8. ASSUME NEW a \in Attachment, Attach(a) PROVE WriterFrame
  BY <1>8 DEF Attach, WriterFrame
<1>9. ASSUME NEW l \in Lease, NEW a \in Attachment, IssueTakeover(a, l) PROVE WriterFrame
  BY <1>9 DEF IssueTakeover, Issue, WriterFrame
<1>10. ASSUME NEW l \in Lease, NEW t \in Terminate, IssueTerminate(t, l) \/ TerminateSession(t, l)
       PROVE  WriterFrame
  BY <1>10 DEF IssueTerminate, Issue, TerminateSession, Signal, WriterFrame
<1>11. ASSUME NEW challenge \in challenges, ExpireChallenge(challenge) PROVE WriterFrame
  BY <1>11 DEF ExpireChallenge, WriterFrame
<1> QED
  BY <1>2, <1>3, <1>4, <1>5, <1>6, <1>7, <1>8, <1>9, <1>10, <1>11 DEF ControlStep

LEMMA WriterWrite ==
  ASSUME TypeOK, LeaseInv, InputInv, WritePty PROVE Writer!Next
<1>1. mid.cmd \in Cmd /\ mid.lease.token = counter /\ avail = "Alive" /\ left > 0
      /\ UNCHANGED <<leaseVars, avail>>
  BY WriteEffect, WriteToken
<1>2. ptyInput' = Append(ptyInput, [cmd |-> mid.cmd, token |-> counter])
  BY <1>1, WriteEffect
<1>3. \A i \in 1 .. Len(ptyInput) : ptyInput[i].cmd # mid.cmd
  <2>1. DOMAIN ptyInput = 1 .. Len(ptyInput)
    BY WriteEffect, OneMore
  <2>2. ~Heard(mid.cmd)
    BY DEF WritePty, InputInv, MidInv
  <2> QED
    BY <2>1, <2>2 DEF Heard
<1>4. Writer!Write(mid.cmd)
  BY <1>1, <1>2, <1>3 DEF Writer!Write
<1> QED
  BY <1>1, <1>4 DEF Writer!Next

LEMMA WriterStep ==
  TypeOK /\ LeaseInv /\ InputInv /\ [Next]_vars => [Writer!Next]_(Writer!vars)
<1> SUFFICES ASSUME TypeOK, LeaseInv, InputInv, [Next]_vars PROVE [Writer!Next]_(Writer!vars)
  OBVIOUS
<1>1. CASE WriterFrame
  BY <1>1, WriterStutter
<1>2. CASE ControlStep
  BY <1>2, WriterControl
<1>3. CASE RecordExit
  BY <1>3, WriterEnd DEF RecordExit, Writer!Next
<1>4. CASE ReconcileSession
  <2>1. CASE avail = "Alive"
    BY <1>4, <2>1, WriterEnd DEF ReconcileSession, Writer!Next
  <2>2. CASE avail # "Alive"
    BY <1>1, <1>4, <2>2 DEF ReconcileSession, WriterFrame
  <2> QED
    BY <2>1, <2>2
<1>5. CASE WritePty
  BY <1>5, WriterWrite
<1>6. CASE ProcessStep
  <2>1. (\E t \in Terminate : SignalAgain(t)) \/ StopSessions \/ TerminateTimesOut => WriterFrame
    BY DEF SignalAgain, StopSessions, TerminateTimesOut, Signal, WriterFrame
  <2> QED
    BY <1>1, <1>3, <1>6, <2>1 DEF ProcessStep
<1>7. CASE InputStep \/ ResizeStep \/ Crash
           \/ (\E c \in Cmd : ReconcileInput(c) \/ QuarantineObject(c))
  <2>1. UNCHANGED <<leaseVars, avail>>
    BY <1>7, OthersKeepLease
  <2> QED
    BY <1>1, <1>5, <2>1, CounterGrows DEF WriterFrame
<1>8. CASE UNCHANGED vars
  BY <1>1, <1>8 DEF WriterFrame
<1> QED
  BY <1>2, <1>4, <1>6, <1>7, <1>8 DEF Next, RestartStep

\* Control of a Session is one fenced writer: each step is one of FencedWriter's or
\* a stutter.
THEOREM ControlImplementsWriter == Spec => ImplementsFencedWriter
<1>1. Init => Writer!Init
  BY DEF Init, Writer!Init
<1>2. Spec => []LeaseInv
  BY LeaseInit, LeaseStep, TypeCorrect, PTL DEF Spec
<1> QED
  BY <1>1, <1>2, WriterStep, InputInvariant, TypeCorrect, PTL
     DEF Spec, ImplementsFencedWriter, Writer!Spec

(***************************************************************************)
(* What follows for a client that has lost control, from FencedWriter alone. *)
(***************************************************************************)

\* After the first n inputs the PTY accepts nothing under token k or an older one.
FencedSince(k, n) ==
  /\ counter > k /\ Len(ptyInput) >= n
  /\ \A i \in DOMAIN ptyInput : i > n => ptyInput[i].token > k

\* The Session is over: nobody has control, and what was granted and written is all.
EndedWith(k, s) == avail # "Alive" /\ left = 0 /\ counter = k /\ ptyInput = s

LEMMA FencedStays ==
  ASSUME TypeOK, [Writer!Next]_Writer!vars, NEW k \in Nat, NEW n \in Nat, FencedSince(k, n)
  PROVE  FencedSince(k, n)'
<1>1. counter \in Nat /\ ptyInput \in Seq([cmd : Cmd, token : 1 .. MaxToken])
  BY BoundAssumption DEF TypeOK
<1>2. ASSUME counter' \in {counter, counter + 1}, ptyInput' = ptyInput PROVE FencedSince(k, n)'
  BY <1>1, <1>2 DEF FencedSince
<1>3. ASSUME NEW c \in Cmd, Writer!Write(c) PROVE FencedSince(k, n)'
  <2> DEFINE e == [cmd |-> c, token |-> counter]
  <2>1. ptyInput' = Append(ptyInput, e) /\ counter' = counter
    BY <1>3 DEF Writer!Write
  <2>2. e.token = counter
    OBVIOUS
  <2>3. e \in [cmd : Cmd, token : 1 .. MaxToken]
    BY <1>1 DEF FencedSince, TypeOK
  <2> HIDE DEF e
  <2>4. /\ Len(ptyInput) \in Nat /\ Len(ptyInput') = Len(ptyInput) + 1
        /\ \A i \in DOMAIN ptyInput' :
              (i \in DOMAIN ptyInput /\ ptyInput'[i] = ptyInput[i]) \/ ptyInput'[i] = e
    BY <1>1, <2>1, <2>3
  <2> QED
    BY <1>1, <2>1, <2>2, <2>4 DEF FencedSince
<1>4. CASE Writer!Grant \/ Writer!Revoke \/ Writer!End \/ UNCHANGED Writer!vars
  BY <1>2, <1>4 DEF Writer!Grant, Writer!Revoke, Writer!End, Writer!vars
<1> QED
  BY <1>3, <1>4 DEF Writer!Next

\* From the moment a newer token is granted, nothing is written under an older one: not by
\* a handler that checked its lease before, nor by a retry or after a restart (the lease is
\* asserted again beside the write, RT-LEASE-07).
THEOREM FencedForGood ==
  ASSUME NEW k \in Nat, NEW n \in Nat
  PROVE  Spec => [](counter > k /\ Len(ptyInput) = n
                      => [](\A i \in DOMAIN ptyInput : i > n => ptyInput[i].token > k))
<1>1. TypeOK /\ counter > k /\ Len(ptyInput) = n => FencedSince(k, n)
  BY DEF FencedSince, TypeOK
<1>2. TypeOK /\ FencedSince(k, n) /\ [Writer!Next]_Writer!vars => FencedSince(k, n)'
  BY FencedStays
<1>3. FencedSince(k, n) => \A i \in DOMAIN ptyInput : i > n => ptyInput[i].token > k
  BY DEF FencedSince
<1> QED
  BY <1>1, <1>2, <1>3, TypeCorrect, ControlImplementsWriter, PTL
     DEF Spec, ImplementsFencedWriter, Writer!Spec

EndedFree == avail # "Alive" => left = 0

\* One step of FencedWriter: the end takes control away, and nothing comes after it.
LEMMA EndedStep ==
  ASSUME TypeOK, TypeOK', EndedFree, [Writer!Next]_Writer!vars
  PROVE  EndedFree' /\ (avail # "Alive" => avail' # "Alive" /\ UNCHANGED <<counter, ptyInput>>)
<1> DEFINE Goal == EndedFree' /\ (avail # "Alive" => avail' # "Alive" /\ UNCHANGED <<counter, ptyInput>>)
<1>1. left \in Nat /\ left' \in Nat /\ (left' > 0 \/ left' = 0)
  BY DEF TypeOK
<1>2. ASSUME avail = "Alive", (avail' # "Alive") = (avail # "Alive") PROVE Goal
  BY <1>2 DEF EndedFree
<1>3. ASSUME NEW c \in Cmd, Writer!Write(c) PROVE Goal
  BY <1>2, <1>3 DEF Writer!Write
<1>4. CASE Writer!Revoke
  BY <1>1, <1>4 DEF Writer!Revoke, EndedFree
<1>5. CASE Writer!End
  BY <1>1, <1>5 DEF Writer!End, EndedFree
<1>6. CASE UNCHANGED Writer!vars
  BY <1>1, <1>6 DEF Writer!vars, EndedFree
<1>7. ASSUME Writer!Grant PROVE Goal
  BY <1>2, <1>7 DEF Writer!Grant
<1> QED
  BY <1>3, <1>4, <1>5, <1>6, <1>7 DEF Writer!Next

\* When the Session is over, so is control of it: no lease is in force, no token is granted
\* and no byte is written any more, whatever handlers and clients still hold
\* (#recordExit, reconcileAfterRestart).
THEOREM EndedForGood ==
  ASSUME NEW k, NEW s
  PROVE  Spec => [](avail # "Alive" /\ counter = k /\ ptyInput = s
                      => [](left = 0 /\ counter = k /\ ptyInput = s))
<1>1. Init => EndedFree
  BY DEF Init, EndedFree
<1>2. TypeOK /\ TypeOK' /\ EndedFree /\ [Writer!Next]_Writer!vars => EndedFree'
  BY EndedStep DEF EndedFree
<1>3. EndedFree /\ avail # "Alive" /\ counter = k /\ ptyInput = s => EndedWith(k, s)
  BY DEF EndedFree, EndedWith
<1>4. TypeOK /\ TypeOK' /\ EndedWith(k, s) /\ [Writer!Next]_Writer!vars => EndedWith(k, s)'
  BY EndedStep DEF EndedFree, EndedWith
<1>5. EndedWith(k, s) => left = 0 /\ counter = k /\ ptyInput = s
  BY DEF EndedWith
<1> QED
  BY <1>1, <1>2, <1>3, <1>4, <1>5, TypeCorrect, ControlImplementsWriter, PTL
     DEF Spec, ImplementsFencedWriter, Writer!Spec


\* What is written, recorded and answered agree, for any number of clients, inputs,
\* takeovers and crashes.
THEOREM InputIsSound == Spec => []InputSound
<1>1. InputOnce /\ FencedOrder /\ ToldTrue /\ ObjectBehindRow => InputSound
  BY DEF InputSound
<1> QED
  BY <1>1, InputOnceHolds, FencedOrderHolds, ToldTrueHolds, ObjectBehindRowHolds, PTL
================================================================================
