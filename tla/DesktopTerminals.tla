--------------------------- MODULE DesktopTerminals ---------------------------
(***************************************************************************)
(* One window of the desktop application and its control connection: the   *)
(* handshake DaemonClient performs with the dispatcher of the Daemon, the  *)
(* commands it sends and settles, the terminals the Renderer opens over    *)
(* several awaits, the binding Main keeps per Attachment, the Control      *)
(* Lease that Main renews, and the Attachments and leases the Daemon keeps *)
(* for the connection.                                                     *)
(*                                                                         *)
(* A terminal is opened by one call of attachTerminal and has one          *)
(* Attachment, which shares its number.  What its stream carries is in     *)
(* SessionOutput; fencing tokens and the durable input are in              *)
(* SessionControl, so a lease is the Attachment that holds it here.        *)
(***************************************************************************)
EXTENDS Integers, FiniteSets, Sequences

CONSTANTS
  Session,      \* Sessions the projection offers
  NTerminal,    \* bound: calls of attachTerminal
  MaxEvents     \* bound: inputs, toggles, renewals, failures, expiries, late timers

ASSUME DesktopBounds == Session # {} /\ NTerminal \in Nat \ {0} /\ MaxEvents \in Nat

Terminal == 1 .. NTerminal
None == 0

Step == {"none", "closing", "awaitClose", "attaching", "opening", "restoring",
         "abandoning", "live", "closed", "failed", "timedout"}
Call == [kind : {"Hello", "Auth", "Attach", "Acquire", "Renew", "Close", "Input"},
         att : Terminal \union {None}, by : Terminal \union {None}]

VARIABLES
  \* the Daemon: the dispatcher of the connection, attachments, control_leases
  dispatcher, owned, attachment, holder,
  unread,       \* history: Attachments whose Snapshot could not be read
  \* the connection: commands on their way, answers on their way
  wire, answers,
  \* Main: the client, its pending calls, the bindings and what they hold
  client, pending, binding, mapped, held, shown,
  \* the Renderer: its terminals, what their ports carry to Main
  step, target, closes, active, lease, port, granted, visible, events,
  \* whether both ends read the same capability token; what was typed where
  token, typed

daemonVars == <<dispatcher, owned, attachment, holder, unread>>
wireVars == <<wire, answers>>
mainVars == <<client, pending, binding, mapped, held, shown>>
rendererVars == <<step, target, closes, active, lease, port, granted, visible, events>>
stillVars == <<step, target, closes, active, lease, port, granted, visible>>
vars == <<daemonVars, wireVars, mainVars, rendererVars, token, typed>>

Req(k, a, f) == [kind |-> k, att |-> a, by |-> f]
Hello == Req("Hello", None, None)
Auth == Req("Auth", None, None)
AttachCall(f) == Req("Attach", f, f)
AcquireCall(a) == Req("Acquire", a, None)
InputCall(f, a) == Req("Input", a, f)
RenewCall(a) == Req("Renew", a, None)
CloseCall(a, f) == Req("Close", a, f)    \* f: the call of attachTerminal that waits for it

(***************************************************************************)
(* The handshake.  readOne rejects after two seconds inside the handler of *)
(* "connect", where nothing catches it: connect() then never settles.      *)
(***************************************************************************)
ClientHello ==
  /\ client = "new"
  /\ client' = "awaiting-challenge"
  /\ wire' = Append(wire, Hello)
  /\ UNCHANGED <<daemonVars, answers, pending, binding, mapped, held, shown,
                 rendererVars, token, typed>>

\* selectProtocolVersion and negotiate: the platform and limit profiles are the same
\* and a protocol version is common to both.
Offered == SUBSET {1, 2}
Negotiated(versions, sameProfiles) == sameProfiles /\ versions \intersect {1} # {}

\* fail: an error is sent and the connection closed.
OnHello(compatible) ==
  /\ dispatcher = "awaiting-hello" /\ wire # <<>> /\ Head(wire) = Hello
  /\ wire' = Tail(wire)
  /\ dispatcher' = IF compatible THEN "awaiting-auth" ELSE "closed"
  /\ answers' = Append(answers, [call |-> Hello, ok |-> compatible])
  /\ UNCHANGED <<owned, attachment, holder, unread, mainVars, rendererVars, token, typed>>

Proven == token

OnChallenge ==
  /\ client = "awaiting-challenge" /\ answers # <<>>
  /\ answers' = Tail(answers)
  /\ IF Head(answers).ok /\ Proven
     THEN client' = "awaiting-hello" /\ wire' = Append(wire, Auth)
     ELSE client' = "rejected" /\ UNCHANGED wire
  /\ UNCHANGED <<daemonVars, pending, binding, mapped, held, shown, rendererVars,
                 token, typed>>

OnAuth ==
  /\ dispatcher = "awaiting-auth" /\ wire # <<>> /\ Head(wire) = Auth
  /\ wire' = Tail(wire)
  /\ IF token
     THEN dispatcher' = "ready" /\ answers' = Append(answers, [call |-> Auth, ok |-> TRUE])
     ELSE dispatcher' = "closed" /\ UNCHANGED answers
  /\ UNCHANGED <<owned, attachment, holder, unread, mainVars, rendererVars, token, typed>>

OnDaemonHello ==
  /\ client = "awaiting-hello" /\ answers # <<>>
  /\ answers' = Tail(answers)
  /\ client' = "ready"
  /\ UNCHANGED <<daemonVars, wire, pending, binding, mapped, held, shown,
                 rendererVars, token, typed>>

ReadTimeout ==
  /\ client \in {"awaiting-challenge", "awaiting-hello"}
  /\ client' = "hung"
  /\ UNCHANGED <<daemonVars, wireVars, pending, binding, mapped, held, shown,
                 rendererVars, token, typed>>

(***************************************************************************)
(* sendCommand registers the call before it writes it; a closed client     *)
(* rejects it, which Reject does here.                                     *)
(***************************************************************************)
Sent(calls) == IF client = "ready" THEN wire \o calls ELSE wire
Members(calls) == {calls[i] : i \in DOMAIN calls}

Event == events < MaxEvents /\ events' = events + 1

Send(calls) == wire' = Sent(calls) /\ pending' = pending \union Members(calls)

\* AttachmentPortBinding.close: once, with the lease no longer renewed.
\* BugBindingClose: the binding is dropped without CloseAttachment
BugBindingClose(S) ==
  LET open == {a \in S : binding[a] = "open"}
  IN  /\ binding' = [a \in Terminal |-> IF a \in open THEN "closed" ELSE binding[a]]
      /\ held' = held \ open
      /\ UNCHANGED <<wire, pending>>

\* The commands, in the order of the Map of bindings, which is not kept here.
Closings(open) ==
  {calls \in [1 .. Cardinality(open) -> {CloseCall(a, None) : a \in open}] :
     \A a \in open : \E i \in DOMAIN calls : calls[i].att = a}

BindingClose(S) ==
  LET open == {a \in S : binding[a] = "open"}
  IN  /\ binding' = [a \in Terminal |-> IF a \in open THEN "closed" ELSE binding[a]]
      /\ held' = held \ open
      /\ \E calls \in Closings(open) : Send(calls)

(***************************************************************************)
(* attachTerminal in the Renderer: the terminal shown is closed first, and *)
(* nothing keeps a second call from starting while the first awaits.       *)
(***************************************************************************)
AttachTerminal(f, s) ==
  /\ client \in {"ready", "closed"}
  /\ step[f] = "none" /\ \A g \in Terminal : g < f => step[g] # "none"
  /\ target' = [target EXCEPT ![f] = s]
  /\ IF active = None
     THEN /\ step' = [step EXCEPT ![f] = "attaching"]
          /\ Send(<<AttachCall(f)>>)
          /\ UNCHANGED <<active, closes, port>>
     ELSE /\ step' = [step EXCEPT ![f] = "closing", ![active] = "closed"]
          /\ active' = None /\ closes' = [closes EXCEPT ![f] = active]
          /\ port' = [port EXCEPT ![active] = Append(@, "close")]
          /\ UNCHANGED <<wire, pending>>
  /\ UNCHANGED <<daemonVars, answers, client, binding, mapped, held, shown, lease,
                 granted, visible, events, token, typed>>

\* DesktopBridgeIpc.closeAttachment: of its binding, or by a command it waits for.
CloseTerminal(f) ==
  /\ step[f] = "closing"
  /\ step' = [step EXCEPT ![f] = "awaitClose"]
  /\ IF closes[f] \in mapped
     THEN mapped' = mapped \ {closes[f]} /\ BindingClose({closes[f]})
     ELSE Send(<<CloseCall(closes[f], f)>>) /\ UNCHANGED <<mapped, binding, held>>
  /\ UNCHANGED <<daemonVars, answers, client, shown, target, closes, active, lease, port,
                 granted, visible, events, token, typed>>

\* closeActiveTerminal has returned: the binding was closed, or the command is settled.
CloseReturns(f) ==
  /\ step[f] = "awaitClose"
  /\ ~ \E c \in pending : c.kind = "Close" /\ c.by = f
  /\ step' = [step EXCEPT ![f] = "attaching"]
  /\ Send(<<AttachCall(f)>>)
  /\ UNCHANGED <<daemonVars, answers, client, binding, mapped, held, shown, target,
                 closes, active, lease, port, granted, visible, events, token, typed>>

\* DaemonAttachmentStream.connect waits for the greeting of the stream, with no timer and
\* no look at the end of the socket: it may wait for ever.  The Attachment is only named
\* after it, so one that is closed by then gets its stream as well.
OpenStream(f) ==
  /\ step[f] = "opening"
  /\ binding' = [binding EXCEPT ![f] = "open"]
  /\ mapped' = mapped \union {f}
  /\ step' = [step EXCEPT ![f] = "restoring"]
  /\ UNCHANGED <<daemonVars, wireVars, client, pending, held, shown, target, closes, active,
                 lease, port, granted, visible, events, token, typed>>

\* BugStreamFails: the Attachment is kept when its stream cannot be opened
BugStreamFails(f) ==
  /\ step[f] = "opening"
  /\ Event
  /\ step' = [step EXCEPT ![f] = "failed"]
  /\ UNCHANGED <<daemonVars, wireVars, mainVars, target, closes, active, lease, port, granted,
                 visible, token, typed>>

StreamFails(f) ==
  /\ step[f] = "opening"
  /\ Event
  /\ Send(<<CloseCall(f, f)>>)
  /\ step' = [step EXCEPT ![f] = "abandoning"]
  /\ UNCHANGED <<daemonVars, answers, client, binding, mapped, held, shown, target,
                 closes, active, lease, port, granted, visible, token, typed>>

\* The stream ends, a frame is rejected or its queue is full.
StreamEnds(f) ==
  /\ binding[f] = "open" /\ Event
  /\ BindingClose({f})
  /\ UNCHANGED <<daemonVars, answers, client, mapped, shown, stillVars, token, typed>>

\* A terminal that was shown is overwritten, and its port stays open.
Restore(f) ==
  /\ step[f] = "restoring"
  /\ step' = [step EXCEPT ![f] = "live"]
  /\ active' = f
  /\ UNCHANGED <<daemonVars, wireVars, mainVars, target, closes, lease, port, granted, visible,
                 events, token, typed>>

SnapshotRejected(f) ==
  /\ step[f] = "restoring" /\ Event
  /\ step' = [step EXCEPT ![f] = "failed"]
  /\ port' = [port EXCEPT ![f] = Append(@, "close")]
  /\ UNCHANGED <<daemonVars, wireVars, mainVars, target, closes, active, lease, granted, visible,
                  token, typed>>

(***************************************************************************)
(* Control.  An Attachment asks for it once here; the answer reaches the   *)
(* Renderer after Main has taken note of it, and is applied to whatever    *)
(* terminal is shown by then.                                              *)
(***************************************************************************)
AcquireControl ==
  /\ active # None /\ granted[active] = "none" /\ visible
  /\ granted' = [granted EXCEPT ![active] = "asked"]
  /\ Send(<<AcquireCall(active)>>)
  /\ UNCHANGED <<daemonVars, answers, client, binding, mapped, held, shown, step, target,
                 closes, active, lease, port, visible, events, token, typed>>

ApplyLease(a) ==
  /\ granted[a] = "answered"
  /\ granted' = [granted EXCEPT ![a] = "applied"]
  /\ lease' = IF active = None THEN lease
              ELSE [lease EXCEPT ![active] = IF visible THEN a ELSE None]
  /\ UNCHANGED <<daemonVars, wireVars, mainVars, step, target, closes, active, port, visible,
                 events, token, typed>>

Toggle ==
  /\ Event
  /\ visible' = ~visible
  /\ IF active = None THEN UNCHANGED <<port, lease>>
     ELSE /\ port' = [port EXCEPT ![active] =
                        Append(@, IF visible THEN "hidden" ELSE "visible")]
          /\ lease' = IF visible THEN [lease EXCEPT ![active] = None] ELSE lease
  /\ UNCHANGED <<daemonVars, wireVars, mainVars, step, target, closes, active, granted, token,
                 typed>>

\* The surface of a terminal writes with the lease its terminal holds.
TypeInput(f) ==
  /\ step[f] = "live" /\ lease[f] # None /\ Event
  /\ ~ \E i \in DOMAIN wire : wire[i] = InputCall(f, lease[f])
  /\ wire' = Sent(<<InputCall(f, lease[f])>>)
  /\ UNCHANGED <<daemonVars, answers, mainVars, stillVars, token, typed>>

\* What a port has carried to Main, and the end of the port.
OnPort(a) ==
  /\ port[a] # <<>> /\ binding[a] # "none"
  /\ port' = [port EXCEPT ![a] = Tail(@)]
  /\ CASE Head(port[a]) = "close" ->
            mapped' = mapped \ {a} /\ BindingClose({a}) /\ UNCHANGED shown
       [] Head(port[a]) = "visible" ->
            shown' = shown \union {a} /\ UNCHANGED <<wire, pending, binding, mapped, held>>
       [] OTHER ->
            /\ shown' = shown \ {a} /\ held' = held \ {a}
            /\ UNCHANGED <<wire, pending, binding, mapped>>
  /\ UNCHANGED <<daemonVars, answers, client, step, target, closes, active, lease, granted,
                 visible, events, token, typed>>

\* The renewal timer; one renewal is outstanding at a time.
Renew(a) ==
  /\ a \in held /\ RenewCall(a) \notin pending /\ Event
  /\ Send(<<RenewCall(a)>>)
  /\ UNCHANGED <<daemonVars, answers, client, binding, mapped, held, shown, stillVars,
                 token, typed>>

(***************************************************************************)
(* The dispatcher.  Attach, AcquireControl, RenewControl and               *)
(* CloseAttachment do not wait, so a command and its answer are one step.  *)
(***************************************************************************)
Answer(c, ok) == answers' = Append(answers, [call |-> c, ok |-> ok])

Serving(k) == /\ dispatcher = "ready" /\ wire # <<>>
              /\ Head(wire).kind = k
              /\ wire' = Tail(wire)

\* BugAttached: an Attachment is not remembered for its connection
BugAttached(f) == owned
Attached(f) == owned \union {f}

ExecuteAttach ==
  /\ Serving("Attach")
  /\ LET f == Head(wire).att
     IN  /\ attachment' = [attachment EXCEPT ![f] = "Active"]
         /\ owned' = Attached(f)
         /\ Answer(Head(wire), TRUE)
  /\ UNCHANGED <<dispatcher, holder, unread, mainVars, rendererVars, token, typed>>

\* The Active row is committed and reading the Snapshot then throws: the answer is an
\* error, and the dispatcher never learns of the Attachment.
AttachUnread ==
  /\ Serving("Attach") /\ Event
  /\ LET f == Head(wire).att
     IN  /\ attachment' = [attachment EXCEPT ![f] = "Active"]
         /\ unread' = unread \union {f}
         /\ Answer(Head(wire), FALSE)
  /\ UNCHANGED <<dispatcher, owned, holder, mainVars, stillVars, token, typed>>

ExecuteAcquire ==
  /\ Serving("Acquire")
  /\ LET a == Head(wire).att
         grant == attachment[a] = "Active" /\ holder[target[a]] = None
     IN  /\ holder' = IF grant THEN [holder EXCEPT ![target[a]] = a] ELSE holder
         /\ Answer(Head(wire), grant)
  /\ UNCHANGED <<dispatcher, owned, attachment, unread, mainVars, rendererVars, token, typed>>

ExecuteRenew ==
  /\ Serving("Renew")
  /\ LET a == Head(wire).att IN Answer(Head(wire), holder[target[a]] = a)
  /\ UNCHANGED <<daemonVars, mainVars, rendererVars, token, typed>>

\* closeAttachment of the Session Runtime, of one Attachment or several.
Released(S) ==
  /\ attachment' = [a \in Terminal |->
       IF a \in S /\ attachment[a] = "Active" THEN "Closed" ELSE attachment[a]]
  /\ holder' = [s \in Session |-> IF holder[s] \in S THEN None ELSE holder[s]]

ExecuteClose ==
  /\ Serving("Close")
  /\ LET a == Head(wire).att IN Released({a}) /\ owned' = owned \ {a}
  /\ Answer(Head(wire), TRUE)
  /\ UNCHANGED <<dispatcher, unread, mainVars, rendererVars, token, typed>>

ExecuteInput ==
  /\ Serving("Input")
  /\ LET c == Head(wire)
     IN  typed' = IF holder[target[c.att]] = c.att
                  THEN typed \union {<<target[c.by], target[c.att]>>} ELSE typed
  /\ UNCHANGED <<daemonVars, answers, mainVars, rendererVars, token>>

Expire(s) ==
  /\ holder[s] # None /\ Event
  /\ holder' = [holder EXCEPT ![s] = None]
  /\ UNCHANGED <<dispatcher, owned, attachment, unread, wireVars, mainVars, stillVars, token,
                 typed>>

\* The socket's "close": the Attachments the dispatcher knows of are closed.
ControlConnectionClosed ==
  /\ client = "closed" \/ dispatcher = "closed"
  /\ dispatcher # "over"
  /\ dispatcher' = "over"
  /\ wire' = <<>>
  /\ Released(owned) /\ owned' = {}
  /\ UNCHANGED <<answers, unread, mainVars, rendererVars, token, typed>>

(***************************************************************************)
(* How a call settles: an answer, its timer, or the end of the connection, *)
(* which rejects every call that is pending.                               *)
(***************************************************************************)
\* BugAttachOutcome: the outcome of the call is kept as it came
BugAttachOutcome(out) == IF out = "ok" THEN "opening" ELSE out

AttachOutcome(out) ==
  CASE out = "ok" -> "opening" [] out = "late" -> "timedout" [] OTHER -> "failed"

\* holdControl and #renew: a lease is kept only for a terminal that is shown.
Kept(c) == binding[c.att] = "open" /\ c.att \in shown

Settle(c, out) ==
  /\ step' = IF c.kind = "Attach" THEN [step EXCEPT ![c.att] = AttachOutcome(out)]
             ELSE IF c.kind = "Close" /\ c.by = c.att
             THEN [step EXCEPT ![c.att] = "failed"] ELSE step
  /\ granted' = IF c.kind # "Acquire" THEN granted
                ELSE [granted EXCEPT ![c.att] = IF out = "ok" THEN "answered" ELSE "none"]
  /\ IF c.kind = "Renew" /\ out # "ok" /\ Kept(c)
     THEN /\ binding' = [binding EXCEPT ![c.att] = "closed"]
          /\ held' = held \ {c.att}
          /\ wire' = Sent(<<CloseCall(c.att, None)>>)
          /\ pending' = (pending \ {c}) \union {CloseCall(c.att, None)}
     ELSE /\ pending' = pending \ {c}
          /\ held' = IF c.kind \in {"Acquire", "Renew"} /\ out = "ok" /\ Kept(c)
                     THEN held \union {c.att} ELSE held
          /\ UNCHANGED <<binding, wire>>
  /\ UNCHANGED <<daemonVars, client, mapped, shown, target, closes, active, lease, port, visible,
                 token, typed>>

\* An answer nobody waits for any more is dropped.
Dispatch ==
  /\ client = "ready" /\ answers # <<>>
  /\ answers' = Tail(answers)
  /\ LET c == Head(answers).call
     IN  IF c \in pending
         THEN Settle(c, IF Head(answers).ok THEN "ok" ELSE "error") /\ UNCHANGED events
         ELSE UNCHANGED <<daemonVars, wire, mainVars, rendererVars, token, typed>>

Timeout(c) == /\ client = "ready" /\ c \in pending /\ Event
              /\ Settle(c, "late") /\ UNCHANGED answers

\* BugReject: the calls still pending are forgotten and never rejected
BugReject(c) ==
  /\ client = "closed" /\ c \in pending
  /\ pending' = pending \ {c}
  /\ UNCHANGED <<daemonVars, wireVars, client, binding, mapped, held, shown, rendererVars,
                 token, typed>>

Reject(c) == /\ client = "closed" /\ c \in pending
             /\ Settle(c, "lost") /\ UNCHANGED <<answers, events>>

\* The window closes: closeAll, then the client; or the connection is lost.
WindowClosed ==
  /\ client = "ready"
  /\ client' = "closed"
  /\ BindingClose(mapped) /\ mapped' = {}
  /\ UNCHANGED <<daemonVars, answers, shown, rendererVars, token, typed>>

ConnectionLost ==
  /\ client = "ready"
  /\ client' = "closed"
  /\ UNCHANGED <<daemonVars, wireVars, pending, binding, mapped, held, shown, rendererVars,
                 token, typed>>

(***************************************************************************)
(* The specification.                                                      *)
(***************************************************************************)
Init ==
  /\ dispatcher = "awaiting-hello" /\ owned = {} /\ unread = {}
  /\ attachment = [f \in Terminal |-> "none"] /\ holder = [s \in Session |-> None]
  /\ wire = <<>> /\ answers = <<>>
  /\ client = "new" /\ pending = {} /\ binding = [f \in Terminal |-> "none"]
  /\ mapped = {} /\ held = {} /\ shown = Terminal
  /\ step = [f \in Terminal |-> "none"] /\ active = None
  /\ target = [f \in Terminal |-> CHOOSE s \in Session : TRUE]
  /\ closes = [f \in Terminal |-> None]
  /\ lease = [f \in Terminal |-> None] /\ port = [f \in Terminal |-> <<>>]
  /\ granted = [f \in Terminal |-> "none"] /\ visible = TRUE /\ events = 0
  /\ token \in BOOLEAN /\ typed = {}

ClientSteps ==
  \/ ClientHello \/ OnChallenge \/ OnDaemonHello \/ ReadTimeout \/ Dispatch
  \/ \E c \in pending : Timeout(c) \/ Reject(c)
  \/ \E a \in Terminal : OnPort(a) \/ Renew(a)
Serve == ExecuteAttach \/ AttachUnread \/ ExecuteAcquire \/ ExecuteRenew
         \/ ExecuteClose \/ ExecuteInput
DaemonSteps ==
  \/ \E versions \in Offered, sameProfiles \in BOOLEAN : OnHello(Negotiated(versions, sameProfiles))
  \/ OnAuth \/ Serve \/ ControlConnectionClosed
  \/ \E s \in Session : Expire(s)
RendererSteps ==
  \/ AcquireControl \/ Toggle
  \/ \E f \in Terminal, s \in Session : AttachTerminal(f, s)
  \/ \E f \in Terminal : CloseTerminal(f) \/ CloseReturns(f) \/ OpenStream(f) \/ StreamFails(f)
                         \/ StreamEnds(f) \/ Restore(f) \/ SnapshotRejected(f) \/ ApplyLease(f) \/ TypeInput(f)

Next == ClientSteps \/ DaemonSteps \/ RendererSteps \/ WindowClosed \/ ConnectionLost

Spec == Init /\ [][Next]_vars

\* The event loops run: answers and port messages are handled, the Daemon reads its
\* socket, and a continuation that is due is executed.  Nothing makes the greeting of a
\* stream come, or fail to.
FairSpec ==
  /\ Spec
  /\ WF_vars(Dispatch) /\ WF_vars(Serve) /\ WF_vars(ControlConnectionClosed)
  /\ \A f \in Terminal :
       /\ WF_vars(OnPort(f))
       /\ WF_vars(CloseTerminal(f)) /\ WF_vars(CloseReturns(f))
       /\ WF_vars(Restore(f) \/ SnapshotRejected(f))
       /\ \A c \in {AttachCall(f)} \union {CloseCall(a, f) : a \in Terminal} :
            WF_vars(Reject(c))

(***************************************************************************)
(* Properties.                                                             *)
(***************************************************************************)
\* Every variable holds a value of its kind.
TypeOK ==
  /\ dispatcher \in {"awaiting-hello", "awaiting-auth", "ready", "closed", "over"}
  /\ owned \subseteq Terminal
  /\ attachment \in [Terminal -> {"none", "Active", "Closed"}] /\ unread \subseteq Terminal
  /\ holder \in [Session -> Terminal \union {None}]
  /\ \A i \in DOMAIN wire : wire[i] \in Call
  /\ client \in {"new", "awaiting-challenge", "awaiting-hello", "ready", "rejected",
                 "hung", "closed"}
  /\ pending \subseteq Call
  /\ binding \in [Terminal -> {"none", "open", "closed"}]
  /\ mapped \subseteq Terminal /\ held \subseteq Terminal /\ shown \subseteq Terminal
  /\ step \in [Terminal -> Step] /\ target \in [Terminal -> Session]
  /\ active \in Terminal \union {None}
  /\ closes \in [Terminal -> Terminal \union {None}]
  /\ lease \in [Terminal -> Terminal \union {None}]
  /\ granted \in [Terminal -> {"none", "asked", "answered", "applied"}]
  /\ visible \in BOOLEAN /\ events \in 0 .. MaxEvents /\ token \in BOOLEAN
  /\ typed \subseteq Session \X Session

\* RT-LEASE-06, RT-T-03, RT-HS-04: the client sends its proof, and commands are executed,
\* only once the proof of the other end is verified; the dispatcher owns every Active
\* Attachment of its connection whose Snapshot was read, none of them is Active once the
\* connection is over, and only one it owns holds control.
ConnectionOwns ==
  /\ dispatcher = "ready" \/ client \in {"awaiting-hello", "ready"} => token
  /\ owned = {a \in Terminal \ unread : attachment[a] = "Active"}
  /\ dispatcher = "over" => owned = {}
  /\ \A s \in Session : holder[s] # None => /\ holder[s] \in owned
                                           /\ target[holder[s]] = s

\* RT-LEASE-11: Main keeps no Attachment it does not use.  An Active one it was told of is
\* being opened, has an open binding, is about to be closed, or came back after the timer
\* of its Attach; and a lease is renewed only while the binding and its port are open.
AccountedFor ==
  /\ \A a \in Terminal \ unread : client = "ready" /\ attachment[a] = "Active" =>
       \/ step[a] \in {"attaching", "opening", "timedout"}
       \/ binding[a] = "open"
       \/ \E i \in DOMAIN wire : wire[i].kind = "Close" /\ wire[i].att = a
  /\ \A a \in held : binding[a] = "open"

\* Every Active Attachment has an owner at both ends, the connection in the Daemon and a
\* terminal in the desktop that uses it, opens it or closes it; the one exception is an
\* Attachment whose Snapshot could not be read: it is Active and has neither (attach,
\* AttachmentCommandDispatcher).
AttachmentsOwned == ConnectionOwns /\ AccountedFor

\* The Attachment of a terminal that was closed, or could not be opened, does not stay
\* Active; that of an Attach whose timer ran out goes with the connection.  One whose
\* Snapshot could not be read is not covered: nothing ever closes it.
ClosedTerminalReleases ==
  \A a \in Terminal :
    step[a] \in {"closed", "failed"} \/ (step[a] = "timedout" /\ client = "closed")
      ~> attachment[a] # "Active" \/ a \in unread

\* Opening a terminal comes to an end whatever the connection and the Daemon do, but for
\* the greeting of its stream, which may be waited for without end: before it, closing the
\* terminal shown and the Attach settle; after it, the terminal is shown or given up.
AttachSettles ==
  \A f \in Terminal :
    step[f] \notin {"none", "opening"}
      ~> step[f] \in {"opening", "live", "closed", "failed", "timedout"}

\* RT-PERF-06, "跨 Session 输入或输出串线数 = 0": no input typed into the terminal of one
\* Session reaches another.
InputToOwnSession == \A p \in typed : p[1] = p[2]
=============================================================================
