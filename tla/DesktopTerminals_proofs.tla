------------------------ MODULE DesktopTerminals_proofs ------------------------
(***************************************************************************)
(* Proofs about DesktopTerminals, for every set of Sessions and every      *)
(* number of terminals and events: the types, and AttachmentsOwned.        *)
(*                                                                         *)
(* AttachmentsOwned is not inductive: it does not say that an Attach is    *)
(* executed once, nor that a close which somebody waits for is on its way  *)
(* or done.  AttachInv follows an Attach from the call to its answer,      *)
(* PendingInv the calls attachTerminal waits for, ShownInv says which      *)
(* terminal can be overwritten, and UnreadInv that nobody asks for control *)
(* with an Attachment whose Attach was refused.                            *)
(***************************************************************************)
EXTENDS DesktopTerminals, SequenceTheorems, FiniteSetTheorems, TLAPS

USE DEF vars, daemonVars, wireVars, mainVars, rendererVars, stillVars

\* The calls there are, with the Attachments and the calls they name.
WireCall ==
  {Hello, Auth} \union {AttachCall(f) : f \in Terminal} \union {AcquireCall(a) : a \in Terminal}
    \union {RenewCall(a) : a \in Terminal}
    \union {CloseCall(a, f) : a \in Terminal, f \in Terminal \union {None}}
    \union {InputCall(f, a) : f \in Terminal, a \in Terminal}
Answered == [call : WireCall, ok : BOOLEAN]
PortMessage == {"close", "hidden", "visible"}

Once(s, c) == \A i, j \in DOMAIN s : s[i] = c /\ s[j] = c => i = j

TypeInv ==
  /\ TypeOK
  /\ wire \in Seq(WireCall) /\ answers \in Seq(Answered) /\ pending \subseteq WireCall
  /\ port \in [Terminal -> Seq(PortMessage)]

Before(f) == step[f] \in {"none", "closing", "awaitClose"}

\* An Attach is on the wire at most once, after its call and before its execution, and
\* is refused only when its row cannot be read.
AttachInv ==
  \A f \in Terminal :
    /\ Before(f) => attachment[f] = "none" /\ AttachCall(f) \notin Members(wire)
    /\ step[f] # "none" => client \in {"ready", "closed"}
    /\ AttachCall(f) \in Members(wire) =>
         attachment[f] = "none" /\ (client = "ready" => step[f] \in {"attaching", "timedout"})
    /\ Once(wire, AttachCall(f))
    /\ \A ok \in BOOLEAN : [call |-> AttachCall(f), ok |-> ok] \in Members(answers) =>
         attachment[f] # "none" /\ (~ok => f \in unread)
    /\ f \in unread => attachment[f] # "none"

\* attachTerminal waits where its pending call says, and a close it waits for has been
\* executed or will be.
PendingInv ==
  \A f \in Terminal :
    /\ AttachCall(f) \in pending => step[f] = "attaching"
    /\ CloseCall(f, f) \in pending =>
         /\ step[f] = "abandoning"
         /\ client = "ready" => CloseCall(f, f) \in Members(wire) \/ attachment[f] # "Active"

\* The terminal shown is live, and is the one another call closes.
ShownInv ==
  /\ active # None => step[active] = "live"
  /\ \A f \in Terminal : step[f] \in {"closing", "awaitClose"} => closes[f] \in Terminal \ {f}

\* A refused Attach opens nothing: where its caller is, that it was not answered otherwise,
\* and that only a terminal that was shown asks for control.
Refused == {"attaching", "timedout", "failed"}
UnreadInv ==
  \A f \in Terminal :
    /\ f \in unread \/ AttachCall(f) \in Members(wire) => step[f] \in Refused
    /\ f \in unread => [call |-> AttachCall(f), ok |-> TRUE] \notin Members(answers)
    /\ AcquireCall(f) \in Members(wire) => step[f] \in {"live", "closed"}

Inv == TypeInv /\ AttachInv /\ PendingInv /\ ShownInv /\ ConnectionOwns /\ AccountedFor

-----------------------------------------------------------------------------
(* Sequences and calls.                                                     *)

LEMMA MembersOfEmpty == Members(<<>>) = {}
BY DEF Members

LEMMA MembersOfOne == ASSUME NEW c PROVE Members(<<c>>) = {c} /\ Once(<<c>>, c)
BY DEF Members, Once

LEMMA FunctionIsSeq == ASSUME NEW T, NEW n \in Nat, NEW q \in [1 .. n -> T] PROVE q \in Seq(T)
OBVIOUS

LEMMA MembersOfTail ==
  ASSUME NEW T, NEW s \in Seq(T), s # <<>>
  PROVE  /\ Head(s) \in T /\ Tail(s) \in Seq(T)
         /\ Members(s) = {Head(s)} \union Members(Tail(s))
         /\ \A c : Once(s, c) => Once(Tail(s), c) /\ (Head(s) = c => c \notin Members(Tail(s)))
<1>1. /\ Head(s) \in T /\ Tail(s) \in Seq(T) /\ Len(Tail(s)) = Len(s) - 1 /\ Head(s) = s[1]
      /\ \A i \in 1 .. Len(Tail(s)) : Tail(s)[i] = s[i + 1]
  BY HeadTailProperties
<1>2. DOMAIN s = 1 .. Len(s) /\ DOMAIN Tail(s) = 1 .. Len(Tail(s)) /\ Len(s) \in Nat \ {0}
  BY <1>1, LenProperties, EmptySeq
<1>3. \A i \in DOMAIN s : i = 1 \/ (i - 1 \in DOMAIN Tail(s) /\ s[i] = Tail(s)[i - 1])
  BY <1>1, <1>2
<1>4. \A i \in DOMAIN Tail(s) : i + 1 \in DOMAIN s /\ Tail(s)[i] = s[i + 1]
  BY <1>1, <1>2
<1>5. Members(s) = {Head(s)} \union Members(Tail(s))
  <2>1. 1 \in DOMAIN s
    BY <1>2
  <2> QED
    BY <1>1, <1>3, <1>4, <2>1 DEF Members
<1>6. ASSUME NEW c, Once(s, c) PROVE Once(Tail(s), c) /\ (Head(s) = c => c \notin Members(Tail(s)))
  <2>1. 1 \in DOMAIN s
    BY <1>2
  <2>2. Once(Tail(s), c)
    BY <1>2, <1>4, <1>6 DEF Once
  <2>3. \A i \in DOMAIN Tail(s) : Head(s) = c => Tail(s)[i] # c
    BY <1>1, <1>2, <1>4, <1>6, <2>1 DEF Once
  <2> QED
    BY <2>2, <2>3 DEF Members
<1> QED
  BY <1>1, <1>5, <1>6

LEMMA MembersOfConcat ==
  ASSUME NEW T, NEW s \in Seq(T), NEW t \in Seq(T)
  PROVE  /\ s \o t \in Seq(T)
         /\ Members(s \o t) = Members(s) \union Members(t)
         /\ \A c : Once(s, c) /\ c \notin Members(t) => Once(s \o t, c)
         /\ \A c : Once(t, c) /\ c \notin Members(s) => Once(s \o t, c)
<1> DEFINE u == s \o t
<1>1. /\ u \in Seq(T) /\ Len(u) = Len(s) + Len(t)
      /\ \A i \in 1 .. Len(s) + Len(t) : u[i] = IF i <= Len(s) THEN s[i] ELSE t[i - Len(s)]
  BY ConcatProperties
<1>2. /\ DOMAIN s = 1 .. Len(s) /\ DOMAIN t = 1 .. Len(t) /\ DOMAIN u = 1 .. Len(u)
      /\ Len(s) \in Nat /\ Len(t) \in Nat
  BY <1>1, LenProperties
<1> HIDE DEF u
<1>3. \A i \in DOMAIN u : \/ i \in DOMAIN s /\ u[i] = s[i]
                          \/ i - Len(s) \in DOMAIN t /\ u[i] = t[i - Len(s)]
  BY <1>1, <1>2
<1>4. /\ \A i \in DOMAIN s : i \in DOMAIN u /\ u[i] = s[i]
      /\ \A i \in DOMAIN t : i + Len(s) \in DOMAIN u /\ u[i + Len(s)] = t[i]
  BY <1>1, <1>2
<1>5. Members(u) = Members(s) \union Members(t)
  BY <1>3, <1>4 DEF Members
<1>6. ASSUME NEW c, Once(s, c), c \notin Members(t) PROVE Once(u, c)
  BY <1>3, <1>6 DEF Members, Once
<1>7. ASSUME NEW c, Once(t, c), c \notin Members(s) PROVE Once(u, c)
  <2> SUFFICES ASSUME NEW i \in DOMAIN u, NEW j \in DOMAIN u, u[i] = c, u[j] = c PROVE i = j
    BY DEF Once
  <2>1. i - Len(s) \in DOMAIN t /\ t[i - Len(s)] = c /\ j - Len(s) \in DOMAIN t /\ t[j - Len(s)] = c
    BY <1>3, <1>7 DEF Members
  <2>2. i - Len(s) = j - Len(s)
    BY <1>7, <2>1 DEF Once
  <2> QED
    BY <1>2, <2>2
<1> QED
  BY <1>1, <1>5, <1>6, <1>7 DEF u

LEMMA MembersOfAppend ==
  ASSUME NEW T, NEW s \in Seq(T), NEW c \in T
  PROVE  /\ Append(s, c) \in Seq(T)
         /\ Members(Append(s, c)) = Members(s) \union {c}
         /\ \A d : Once(s, d) /\ d # c => Once(Append(s, c), d)
<1>1. Append(s, c) = s \o <<c>> /\ <<c>> \in Seq(T)
  OBVIOUS
<1>2. Members(<<c>>) = {c}
  BY MembersOfOne
<1>3. /\ s \o <<c>> \in Seq(T) /\ Members(s \o <<c>>) = Members(s) \union Members(<<c>>)
      /\ \A d : Once(s, d) /\ d \notin Members(<<c>>) => Once(s \o <<c>>, d)
  BY <1>1, MembersOfConcat
<1> QED
  BY <1>1, <1>2, <1>3, Zenon

LEMMA CallFacts ==
  /\ WireCall \subseteq Call /\ None \notin Terminal
  /\ Hello \in WireCall /\ Auth \in WireCall
  /\ \A f \in Terminal : /\ AttachCall(f) \in WireCall /\ AcquireCall(f) \in WireCall
                         /\ RenewCall(f) \in WireCall
  /\ \A a \in Terminal, f \in Terminal \union {None} : CloseCall(a, f) \in WireCall
  /\ \A f \in Terminal, a \in Terminal : InputCall(f, a) \in WireCall
<1>1. WireCall \subseteq Call
  BY DEF WireCall, Call, Hello, Auth, AttachCall, AcquireCall, RenewCall, CloseCall, InputCall, Req
<1>2. None \notin Terminal
  BY DesktopBounds DEF None, Terminal
<1>3. /\ Hello \in WireCall /\ Auth \in WireCall
      /\ \A f \in Terminal : AttachCall(f) \in WireCall /\ AcquireCall(f) \in WireCall /\ RenewCall(f) \in WireCall
  BY DEF WireCall
<1>4. \A a \in Terminal, f \in Terminal \union {None} : CloseCall(a, f) \in WireCall
  BY DEF WireCall
<1>5. \A f \in Terminal, a \in Terminal : InputCall(f, a) \in WireCall
  BY DEF WireCall
<1> QED
  BY <1>1, <1>2, <1>3, <1>4, <1>5

\* A call is what its kind says.
LEMMA KindFacts ==
  ASSUME NEW c \in WireCall
  PROVE  /\ c.att \in Terminal \union {None} /\ c.by \in Terminal \union {None}
         /\ c \notin {Hello, Auth} => c.att \in Terminal
         /\ c.kind \in {"Attach", "Acquire", "Renew", "Close", "Input"} => c.att \in Terminal
         /\ c.kind = "Attach" => c = AttachCall(c.att)
         /\ c.kind = "Close" => c = CloseCall(c.att, c.by)
         /\ c.kind = "Acquire" => c = AcquireCall(c.att)
         /\ c.kind = "Input" => c.by \in Terminal
         /\ \A f \in Terminal : c = AttachCall(f) => c.kind = "Attach" /\ c.att = f
         /\ \A a \in Terminal, f \in Terminal \union {None} :
              c = CloseCall(a, f) => c.kind = "Close" /\ c.att = a /\ c.by = f
         /\ c = Hello => c.kind = "Hello"
         /\ c = Auth => c.kind = "Auth"
BY DEF WireCall, Call, None, Hello, Auth, AttachCall, AcquireCall, RenewCall, CloseCall, InputCall, Req

-----------------------------------------------------------------------------
(* What sending does to the wire.                                           *)

\* Nothing is taken from the wire, and no Attach is added.
WireKept ==
  /\ wire' \in Seq(WireCall) /\ Members(wire) \subseteq Members(wire')
  /\ \A f \in Terminal : /\ AttachCall(f) \in Members(wire') <=> AttachCall(f) \in Members(wire)
                         /\ Once(wire, AttachCall(f)) => Once(wire', AttachCall(f))

LEMMA UnchangedKeeps == ASSUME TypeInv, UNCHANGED wire PROVE WireKept
<1>1. wire' = wire /\ wire \in Seq(WireCall)
  BY DEF TypeInv
<1> QED
  BY <1>1 DEF WireKept

LEMMA SendKeeps ==
  ASSUME TypeInv, NEW q \in Seq(WireCall), \A f \in Terminal : AttachCall(f) \notin Members(q),
         wire' = Sent(q)
  PROVE  WireKept /\ (client = "ready" => Members(q) \subseteq Members(wire'))
<1>1. wire \in Seq(WireCall)
  BY DEF TypeInv
<1>2. CASE client = "ready"
  <2>1. wire' = wire \o q
    BY <1>2 DEF Sent
  <2>2. /\ wire' \in Seq(WireCall) /\ Members(wire') = Members(wire) \union Members(q)
        /\ \A c : Once(wire, c) /\ c \notin Members(q) => Once(wire', c)
    BY <1>1, <2>1, MembersOfConcat
  <2> QED
    BY <2>2, Zenon DEF WireKept
<1>3. CASE client # "ready"
  BY <1>1, <1>3 DEF Sent, WireKept
<1> QED
  BY <1>2, <1>3

LEMMA SendOne ==
  ASSUME TypeInv, NEW c \in WireCall, c.kind # "Attach", wire' = Sent(<<c>>)
  PROVE  WireKept /\ (client = "ready" => c \in Members(wire'))
<1>1. <<c>> \in Seq(WireCall) /\ Members(<<c>>) = {c}
  BY MembersOfOne
<1>2. \A f \in Terminal : AttachCall(f) \notin Members(<<c>>)
  BY <1>1 DEF AttachCall, Req
<1> QED
  BY <1>1, <1>2, SendKeeps

\* Only the calls nobody waits for are added.
PendingKept ==
  /\ pending' \subseteq WireCall
  /\ \A f \in Terminal : /\ AttachCall(f) \in pending' => AttachCall(f) \in pending
                         /\ CloseCall(f, f) \in pending' => CloseCall(f, f) \in pending

LEMMA CloseKeeps ==
  ASSUME TypeInv, NEW S \in SUBSET Terminal, BindingClose(S)
  PROVE  /\ WireKept /\ PendingKept
         /\ binding' \in [Terminal -> {"none", "open", "closed"}]
         /\ \A a \in Terminal : /\ a \in S => binding'[a] # "open"
                                /\ a \notin S => binding'[a] = binding[a]
                                /\ binding[a] # "open" => binding'[a] # "open"
         /\ held' = held \ {a \in S : binding[a] = "open"}
         /\ client = "ready" =>
              \A a \in S : binding[a] = "open" => CloseCall(a, None) \in Members(wire')
<1> DEFINE open == {a \in S : binding[a] = "open"}
<1>1. /\ binding' = [a \in Terminal |-> IF a \in open THEN "closed" ELSE binding[a]]
      /\ held' = held \ open
      /\ \E calls \in Closings(open) : Send(calls)
  BY DEF BindingClose
<1>2. PICK calls \in Closings(open) : Send(calls)
  BY <1>1
<1>3. Cardinality(open) \in Nat
  <2>1. IsFiniteSet(Terminal)
    BY FS_Interval, DesktopBounds DEF Terminal
  <2> QED
    BY <2>1, FS_Subset, FS_CardinalityType
<1>4. calls \in [1 .. Cardinality(open) -> {CloseCall(a, None) : a \in open}]
      /\ \A a \in open : \E i \in DOMAIN calls : calls[i].att = a
  BY <1>2 DEF Closings
<1>5. \A i \in DOMAIN calls : \E a \in open : calls[i] = CloseCall(a, None)
  BY <1>4
<1>6. \A m \in Members(calls) : \E a \in open : m = CloseCall(a, None)
  BY <1>5, Zenon DEF Members
<1>7. calls \in Seq(WireCall)
  <2>1. calls \in [1 .. Cardinality(open) -> WireCall]
    BY <1>4, CallFacts
  <2> QED
    BY <1>3, <1>4, <2>1, FunctionIsSeq
<1>8. \A f \in Terminal : AttachCall(f) \notin Members(calls)
  BY <1>6 DEF AttachCall, CloseCall, Req
<1>9. \A f \in Terminal : CloseCall(f, f) \notin Members(calls)
  BY <1>6, CallFacts DEF CloseCall, Req
<1>10. \A a \in open : CloseCall(a, None) \in Members(calls)
  <2> SUFFICES ASSUME NEW a \in open PROVE CloseCall(a, None) \in Members(calls)
    OBVIOUS
  <2>1. PICK i \in DOMAIN calls : calls[i].att = a
    BY <1>4
  <2>2. calls[i] = CloseCall(a, None)
    BY <1>5, <2>1 DEF CloseCall, Req
  <2> QED
    BY <2>2 DEF Members
<1>11. WireKept /\ (client = "ready" => Members(calls) \subseteq Members(wire'))
  BY <1>2, <1>7, <1>8, SendKeeps DEF Send
<1>12. PendingKept
  <2>1. Members(calls) \subseteq WireCall
    BY <1>6, CallFacts
  <2> QED
    BY <1>2, <1>8, <1>9, <2>1 DEF Send, PendingKept, TypeInv
<1>13. binding \in [Terminal -> {"none", "open", "closed"}]
  BY DEF TypeInv, TypeOK
<1> QED
  BY <1>1, <1>10, <1>11, <1>12, <1>13

-----------------------------------------------------------------------------
(* What a step must respect for each part of the invariant to survive it,   *)
(* when it takes nothing from the wire.                                     *)

LEMMA WireItems == ASSUME NEW s \in Seq(WireCall) PROVE \A i \in DOMAIN s : s[i] \in Call
BY CallFacts, LenProperties

\* The handshake only goes forward, and no terminal is opened during it.
ClientGoes == client' = client \/ (client = "ready" /\ client' = "closed")

LEMMA AttachFrame ==
  ASSUME AttachInv, WireKept, ClientGoes, UNCHANGED <<attachment, unread>>,
         Members(answers') \subseteq Members(answers),
         \A f \in Terminal :
           /\ Before(f)' => Before(f)
           /\ step'[f] # "none" => step[f] # "none" \/ client \in {"ready", "closed"}
           /\ client = "ready" /\ AttachCall(f) \in Members(wire) /\ step[f] \in {"attaching", "timedout"}
                => step'[f] \in {"attaching", "timedout"} \/ client' = "closed"
  PROVE  AttachInv'
BY DEF AttachInv, WireKept, ClientGoes

LEMMA PendingFrame ==
  ASSUME PendingInv, WireKept, PendingKept, ClientGoes, UNCHANGED attachment,
         \A f \in Terminal : AttachCall(f) \in pending' \/ CloseCall(f, f) \in pending' => step'[f] = step[f]
  PROVE  PendingInv'
<1> SUFFICES ASSUME NEW f \in Terminal
             PROVE  /\ AttachCall(f) \in pending' => step'[f] = "attaching"
                    /\ CloseCall(f, f) \in pending' =>
                         /\ step'[f] = "abandoning"
                         /\ client' = "ready" => CloseCall(f, f) \in Members(wire') \/ attachment'[f] # "Active"
  BY DEF PendingInv
<1>1. CASE AttachCall(f) \in pending'
  BY <1>1 DEF PendingInv, PendingKept, WireKept, ClientGoes
<1>2. CASE CloseCall(f, f) \in pending'
  BY <1>2 DEF PendingInv, PendingKept, WireKept, ClientGoes
<1> QED
  BY <1>1, <1>2

LEMMA OwnsFrame ==
  ASSUME TypeInv, AttachInv, ConnectionOwns, UNCHANGED <<daemonVars, token>>,
         client' = client \/ client' \notin {"awaiting-hello", "ready"} \/ token,
         target' \in [Terminal -> Session], \A f \in Terminal : target'[f] = target[f] \/ Before(f)
  PROVE  ConnectionOwns'
<1>1. \A s \in Session : holder[s] # None => holder[s] \in Terminal /\ attachment[holder[s]] = "Active"
  BY DEF ConnectionOwns
<1>2. \A s \in Session : holder[s] # None => target'[holder[s]] = target[holder[s]]
  BY <1>1 DEF AttachInv
<1> QED
  BY <1>2 DEF ConnectionOwns

\* The close of an Attachment is on its way.
CloseSent(a) == \E m \in Members(wire) : m.kind = "Close" /\ m.att = a

LEMMA AccountedAgain ==
  AccountedFor <=>
    /\ \A a \in Terminal \ unread : client = "ready" /\ attachment[a] = "Active" =>
         step[a] \in {"attaching", "opening", "timedout"} \/ binding[a] = "open" \/ CloseSent(a)
    /\ \A a \in held : binding[a] = "open"
BY DEF AccountedFor, CloseSent, Members

LEMMA AccountedFrame ==
  ASSUME AccountedFor, WireKept, ClientGoes, UNCHANGED <<attachment, unread>>,
         \A a \in held' : binding'[a] = "open",
         \A a \in Terminal : client' = "ready" /\ attachment[a] = "Active" =>
           /\ step[a] \in {"attaching", "opening", "timedout"} /\ a \notin unread =>
                \/ step'[a] \in {"attaching", "opening", "timedout"}
                \/ binding'[a] = "open" \/ CloseSent(a)'
           /\ binding[a] = "open" => binding'[a] = "open" \/ CloseSent(a)'
  PROVE  AccountedFor'
<1>1. \A a \in Terminal \ unread : client = "ready" /\ attachment[a] = "Active" =>
        step[a] \in {"attaching", "opening", "timedout"} \/ binding[a] = "open" \/ CloseSent(a)
  BY AccountedAgain
<1>2. \A a \in Terminal : CloseSent(a) => CloseSent(a)'
  BY DEF CloseSent, WireKept
<1>3. \A a \in Terminal \ unread' : client' = "ready" /\ attachment'[a] = "Active" =>
        step'[a] \in {"attaching", "opening", "timedout"} \/ binding'[a] = "open" \/ CloseSent(a)'
  BY <1>1, <1>2 DEF ClientGoes
<1>4. \A a \in Terminal : CloseSent(a)' =>
        (\E i \in DOMAIN wire : wire[i].kind = "Close" /\ wire[i].att = a)'
  BY DEF CloseSent, Members
<1> QED
  BY <1>3, <1>4 DEF AccountedFor

-----------------------------------------------------------------------------
(* The handshake.                                                           *)

Handshake == ClientHello \/ OnChallenge \/ OnDaemonHello \/ ReadTimeout

LEMMA HandshakeStep == ASSUME Inv, Handshake PROVE Inv'
<1>1. TypeInv /\ AttachInv /\ PendingInv /\ ShownInv /\ ConnectionOwns /\ AccountedFor
  BY DEF Inv
<1>2. /\ wire \in Seq(WireCall) /\ answers \in Seq(Answered)
      /\ Hello \in WireCall /\ Auth \in WireCall
      /\ \A f \in Terminal : Hello # AttachCall(f) /\ Auth # AttachCall(f)
  BY <1>1, CallFacts DEF TypeInv, Hello, Auth, AttachCall, Req
<1>3. WireKept
  <2>1. wire' = wire \/ wire' = Append(wire, Hello) \/ wire' = Append(wire, Auth)
    BY DEF Handshake, ClientHello, OnChallenge, OnDaemonHello, ReadTimeout
  <2>2. \A c \in {Hello, Auth} :
          /\ Append(wire, c) \in Seq(WireCall) /\ Members(Append(wire, c)) = Members(wire) \union {c}
          /\ \A d : Once(wire, d) /\ d # c => Once(Append(wire, c), d)
    BY <1>2, MembersOfAppend
  <2> QED
    BY <1>2, <2>1, <2>2 DEF WireKept
<1>4. answers' \in Seq(Answered) /\ Members(answers') \subseteq Members(answers)
  <2>1. answers' = answers \/ (answers # <<>> /\ answers' = Tail(answers))
    BY DEF Handshake, ClientHello, OnChallenge, OnDaemonHello, ReadTimeout
  <2>2. answers # <<>> => Tail(answers) \in Seq(Answered) /\ Members(Tail(answers)) \subseteq Members(answers)
    BY <1>2, MembersOfTail
  <2> QED
    BY <1>2, <2>1, <2>2
<1>5. /\ client \notin {"ready", "closed"}
      /\ client' \in {"awaiting-challenge", "awaiting-hello", "ready", "rejected", "hung"}
      /\ client' \in {"awaiting-hello", "ready"} => token
      /\ UNCHANGED <<daemonVars, pending, binding, mapped, held, shown, rendererVars, token, typed>>
  BY <1>1 DEF Handshake, ClientHello, OnChallenge, OnDaemonHello, ReadTimeout, Proven, ConnectionOwns
<1>6. TypeInv'
  <2>1. wire' \in Seq(WireCall) /\ \A i \in DOMAIN wire' : wire'[i] \in Call
    BY <1>3, WireItems DEF WireKept
  <2> QED
    BY <1>1, <1>4, <1>5, <2>1 DEF TypeInv, TypeOK
<1>7. \A f \in Terminal : step[f] = "none" /\ attachment[f] = "none" /\ AttachCall(f) \notin Members(wire)
  BY <1>1, <1>5 DEF AttachInv, Before
<1>8. AttachInv'
  BY <1>1, <1>3, <1>4, <1>5, <1>7 DEF AttachInv, WireKept, Before
<1>9. PendingInv' /\ ShownInv'
  BY <1>1, <1>5, <1>7 DEF PendingInv, ShownInv
<1>10. ConnectionOwns'
  BY <1>1, <1>5 DEF ConnectionOwns
<1>11. AccountedFor'
  BY <1>1, <1>5, <1>7 DEF AccountedFor
<1> QED
  BY <1>6, <1>8, <1>9, <1>10, <1>11 DEF Inv

-----------------------------------------------------------------------------
(* The steps of the desktop that take nothing from the wire.                *)

Opened == {"attaching", "opening", "timedout"}

LEMMA LocalFrame ==
  ASSUME Inv, TypeInv', ShownInv', WireKept, PendingKept, ClientGoes, UNCHANGED <<daemonVars, token>>,
         Members(answers') \subseteq Members(answers),
         \A a \in held' : binding'[a] = "open",
         \A f \in Terminal :
           /\ target'[f] = target[f] \/ Before(f)
           /\ step'[f] = step[f] \/ \/ step[f] = "none" /\ step'[f] = "closing" /\ client = "ready"
                                    \/ step[f] = "none" /\ step'[f] = "closing" /\ client = "closed"
                                    \/ step[f] = "closing" /\ step'[f] = "awaitClose"
                                    \/ ~Before(f) /\ ~Before(f)' /\ step'[f] # "none"
           /\ AttachCall(f) \in pending' \/ CloseCall(f, f) \in pending' => step'[f] = step[f]
           /\ client = "ready" /\ AttachCall(f) \in Members(wire) /\ step[f] \in {"attaching", "timedout"}
                => step'[f] \in {"attaching", "timedout"} \/ client' = "closed"
           /\ client' = "ready" /\ attachment[f] = "Active" =>
                /\ step[f] \in Opened /\ f \notin unread =>
                     step'[f] \in Opened \/ binding'[f] = "open" \/ CloseSent(f)'
                /\ binding[f] = "open" => binding'[f] = "open" \/ CloseSent(f)'
  PROVE  Inv'
<1>1. TypeInv /\ AttachInv /\ PendingInv /\ ShownInv /\ ConnectionOwns /\ AccountedFor
  BY DEF Inv
<1>2. \A f \in Terminal :
        /\ Before(f)' => Before(f)
        /\ step'[f] # "none" => step[f] # "none" \/ client \in {"ready", "closed"}
  BY DEF Before
<1>3. AttachInv'
  BY <1>1, <1>2, AttachFrame
<1>4. PendingInv'
  BY <1>1, PendingFrame
<1>5. target' \in [Terminal -> Session]
  BY DEF TypeInv, TypeOK
<1>6. ConnectionOwns'
  BY <1>1, <1>5, OwnsFrame DEF ClientGoes
<1>7. AccountedFor'
  BY <1>1, AccountedFrame DEF Opened
<1> QED
  BY <1>3, <1>4, <1>6, <1>7 DEF Inv

LEMMA InvParts ==
  ASSUME Inv
  PROVE  /\ TypeInv /\ TypeOK /\ AttachInv /\ PendingInv /\ ShownInv /\ ConnectionOwns /\ AccountedFor
         /\ wire \in Seq(WireCall) /\ answers \in Seq(Answered) /\ pending \subseteq WireCall
         /\ port \in [Terminal -> Seq(PortMessage)] /\ step \in [Terminal -> Step]
BY DEF Inv, TypeInv, TypeOK

\* Nothing is sent: what the Renderer does on its own.
Quiet == UNCHANGED <<daemonVars, wire, client, pending, token>>

LEMMA QuietKeeps == ASSUME Inv, Quiet PROVE WireKept /\ PendingKept /\ ClientGoes
<1>1. WireKept
  BY InvParts, UnchangedKeeps DEF Quiet
<1> QED
  BY <1>1, InvParts DEF Quiet, PendingKept, ClientGoes

LEMMA PortGrows ==
  ASSUME Inv, NEW a \in Terminal, NEW m \in PortMessage
  PROVE  [port EXCEPT ![a] = Append(@, m)] \in [Terminal -> Seq(PortMessage)]
BY InvParts

LEMMA EventCounted == ASSUME Inv, Event \/ UNCHANGED events PROVE events' \in 0 .. MaxEvents
BY InvParts, DesktopBounds DEF Event, TypeOK

LEMMA RestoreStep == ASSUME Inv, NEW f \in Terminal, Restore(f) PROVE Inv'
<1>1. WireKept /\ PendingKept /\ ClientGoes
  BY QuietKeeps DEF Restore, Quiet
<1>2. TypeInv'
  BY InvParts DEF Restore, TypeInv, TypeOK, Step
<1>3. ShownInv'
  BY InvParts DEF Restore, ShownInv
<1> QED
  BY <1>1, <1>2, <1>3, InvParts, LocalFrame
     DEF Restore, Before, Opened, PendingInv, AccountedFor

LEMMA OpenStreamStep == ASSUME Inv, NEW f \in Terminal, OpenStream(f) PROVE Inv'
<1>1. WireKept /\ PendingKept /\ ClientGoes
  BY QuietKeeps DEF OpenStream, Quiet
<1>2. TypeInv'
  BY InvParts DEF OpenStream, TypeInv, TypeOK, Step
<1>3. ShownInv'
  BY InvParts DEF OpenStream, ShownInv
<1> QED
  BY <1>1, <1>2, <1>3, InvParts, LocalFrame
     DEF OpenStream, Before, Opened, PendingInv, AttachInv, AccountedFor, TypeOK

LEMMA SnapshotRejectedStep == ASSUME Inv, NEW f \in Terminal, SnapshotRejected(f) PROVE Inv'
<1>1. WireKept /\ PendingKept /\ ClientGoes
  BY QuietKeeps DEF SnapshotRejected, Quiet
<1>2. TypeInv'
  <2>1. port' \in [Terminal -> Seq(PortMessage)]
    BY PortGrows DEF SnapshotRejected, PortMessage
  <2>2. events' \in 0 .. MaxEvents
    BY EventCounted DEF SnapshotRejected
  <2> QED
    BY <2>1, <2>2, InvParts DEF SnapshotRejected, TypeInv, TypeOK, Step
<1>3. ShownInv'
  BY InvParts DEF SnapshotRejected, ShownInv
<1> QED
  BY <1>1, <1>2, <1>3, InvParts, LocalFrame
     DEF SnapshotRejected, Before, Opened, PendingInv, AccountedFor

LEMMA ShowingStep ==
  ASSUME Inv, Toggle \/ \E a \in Terminal : ApplyLease(a) PROVE Inv'
<1>0. UNCHANGED <<daemonVars, wireVars, mainVars, step, target, closes, active, token, typed>>
  BY DEF Toggle, ApplyLease
<1>1. WireKept /\ PendingKept /\ ClientGoes
  BY <1>0, QuietKeeps DEF Quiet
<1>2. TypeInv'
  <2>1. CASE Toggle
    <3>1. port' \in [Terminal -> Seq(PortMessage)]
      <4>1. CASE active = None
        BY <2>1, <4>1, InvParts DEF Toggle
      <4>2. CASE active # None
        <5>1. active \in Terminal
          BY <4>2, InvParts DEF TypeOK
        <5> QED
          BY <2>1, <4>2, <5>1, PortGrows DEF Toggle, PortMessage
      <4> QED
        BY <4>1, <4>2
    <3>2. events' \in 0 .. MaxEvents
      BY <2>1, EventCounted DEF Toggle
    <3>3. lease' \in [Terminal -> Terminal \union {None}] /\ visible' \in BOOLEAN
      BY <2>1, InvParts DEF Toggle, TypeOK
    <3> QED
      BY <2>1, <3>1, <3>2, <3>3, InvParts DEF Toggle, TypeInv, TypeOK
  <2>2. CASE \E a \in Terminal : ApplyLease(a)
    BY <2>2, InvParts DEF ApplyLease, TypeInv, TypeOK
  <2> QED
    BY <2>1, <2>2
<1>3. ShownInv'
  BY <1>0, InvParts DEF ShownInv
<1> QED
  BY <1>0, <1>1, <1>2, <1>3, InvParts, LocalFrame DEF AccountedFor

-----------------------------------------------------------------------------
(* The steps of the desktop that send, or close a binding.                  *)

\* One call that no opening of a terminal waits for.
LEMMA SendOther ==
  ASSUME Inv, NEW c \in WireCall, c.kind # "Attach", c.kind = "Close" => c.by # c.att, Send(<<c>>)
  PROVE  /\ WireKept /\ PendingKept /\ \A i \in DOMAIN wire' : wire'[i] \in Call
         /\ pending' \subseteq Call
         /\ client = "ready" => c \in Members(wire')
<1>1. WireKept /\ (client = "ready" => c \in Members(wire'))
  BY InvParts, SendOne DEF Send
<1>2. pending' = pending \union {c}
  BY MembersOfOne DEF Send
<1>3. PendingKept
  BY <1>2, InvParts, KindFacts DEF PendingKept
<1> QED
  BY <1>1, <1>3, WireItems, CallFacts DEF WireKept, PendingKept

LEMMA RenewStep == ASSUME Inv, NEW a \in Terminal, Renew(a) PROVE Inv'
<1>1. RenewCall(a) \in WireCall /\ RenewCall(a).kind = "Renew"
  BY CallFacts DEF RenewCall, Req
<1>2. /\ WireKept /\ PendingKept /\ (\A i \in DOMAIN wire' : wire'[i] \in Call) /\ pending' \subseteq Call
  BY <1>1, SendOther DEF Renew
<1>3. UNCHANGED <<daemonVars, answers, client, binding, mapped, held, shown, stillVars, token, typed>>
      /\ events' \in 0 .. MaxEvents
  BY EventCounted DEF Renew
<1>4. TypeInv' /\ ShownInv'
  BY <1>2, <1>3, InvParts DEF TypeInv, TypeOK, ShownInv, WireKept, PendingKept
<1> QED
  BY <1>2, <1>3, <1>4, InvParts, LocalFrame DEF AccountedFor, ClientGoes

LEMMA AcquireControlStep == ASSUME Inv, AcquireControl PROVE Inv'
<1>0. active \in Terminal
  BY InvParts DEF AcquireControl, TypeOK
<1>1. AcquireCall(active) \in WireCall /\ AcquireCall(active).kind = "Acquire"
  BY <1>0, CallFacts DEF AcquireCall, Req
<1>2. /\ WireKept /\ PendingKept /\ (\A i \in DOMAIN wire' : wire'[i] \in Call) /\ pending' \subseteq Call
  BY <1>1, SendOther DEF AcquireControl
<1>3. UNCHANGED <<daemonVars, answers, client, binding, mapped, held, shown, step, target,
                  closes, active, lease, port, visible, events, token, typed>>
  BY DEF AcquireControl
<1>4. granted' \in [Terminal -> {"none", "asked", "answered", "applied"}]
  BY <1>0, InvParts DEF AcquireControl, TypeOK
<1>5. TypeInv' /\ ShownInv'
  BY <1>2, <1>3, <1>4, InvParts DEF TypeInv, TypeOK, ShownInv, WireKept, PendingKept
<1> QED
  BY <1>2, <1>3, <1>5, InvParts, LocalFrame DEF AccountedFor, ClientGoes

LEMMA TypeInputStep == ASSUME Inv, NEW f \in Terminal, TypeInput(f) PROVE Inv'
<1>0. lease[f] \in Terminal
  BY InvParts DEF TypeInput, TypeOK
<1>1. InputCall(f, lease[f]) \in WireCall /\ InputCall(f, lease[f]).kind = "Input"
  BY <1>0, CallFacts DEF InputCall, Req
<1>2. WireKept
  BY <1>1, InvParts, SendOne DEF TypeInput
<1>3. \A i \in DOMAIN wire' : wire'[i] \in Call
  BY <1>2, WireItems DEF WireKept
<1>4. /\ UNCHANGED <<daemonVars, answers, mainVars, stillVars, token, typed>>
      /\ events' \in 0 .. MaxEvents
  BY EventCounted DEF TypeInput
<1>5. TypeInv' /\ ShownInv' /\ PendingKept
  BY <1>2, <1>3, <1>4, InvParts DEF TypeInv, TypeOK, ShownInv, WireKept, PendingKept
<1> QED
  BY <1>2, <1>4, <1>5, InvParts, LocalFrame DEF AccountedFor, ClientGoes

\* The binding of some Attachments is closed, and little else happens.
LEMMA ClosingFrame ==
  ASSUME Inv, NEW S \in SUBSET Terminal, BindingClose(S), ClientGoes,
         UNCHANGED <<daemonVars, answers, target, closes, active, lease, granted, visible, token, typed>>,
         step' \in [Terminal -> Step],
         \A f \in Terminal : step'[f] = step[f] \/ (step[f] = "closing" /\ step'[f] = "awaitClose"),
         mapped' \subseteq mapped, UNCHANGED shown, port' \in [Terminal -> Seq(PortMessage)],
         events' \in 0 .. MaxEvents
  PROVE  Inv'
<1>1. /\ WireKept /\ PendingKept
      /\ binding' \in [Terminal -> {"none", "open", "closed"}]
      /\ \A a \in Terminal : /\ a \in S => binding'[a] # "open"
                             /\ a \notin S => binding'[a] = binding[a]
      /\ held' = held \ {a \in S : binding[a] = "open"}
      /\ client = "ready" =>
           \A a \in S : binding[a] = "open" => CloseCall(a, None) \in Members(wire')
  BY InvParts, CloseKeeps
<1>2. \A i \in DOMAIN wire' : wire'[i] \in Call
  BY <1>1, WireItems DEF WireKept
<1>3. TypeInv' /\ ShownInv'
  <2>1. pending' \subseteq Call
    BY <1>1, CallFacts DEF PendingKept
  <2> QED
    BY <1>1, <1>2, <2>1, InvParts DEF TypeInv, TypeOK, ShownInv, WireKept, PendingKept, ClientGoes
<1>4. \A a \in held' : binding'[a] = "open"
  BY <1>1, InvParts DEF AccountedFor, TypeOK
<1>5. \A a \in Terminal : client = "ready" /\ binding[a] = "open" => binding'[a] = "open" \/ CloseSent(a)'
  BY <1>1 DEF CloseSent, CloseCall, Req
<1>6. \A f \in Terminal : AttachCall(f) \in pending' \/ CloseCall(f, f) \in pending' => step'[f] = step[f]
  BY <1>1, InvParts DEF PendingKept, PendingInv
<1> QED
  BY <1>1, <1>3, <1>4, <1>5, <1>6, LocalFrame DEF ClientGoes, Before, Opened

LEMMA StreamEndsStep == ASSUME Inv, NEW f \in Terminal, StreamEnds(f) PROVE Inv'
<1>1. events' \in 0 .. MaxEvents /\ BindingClose({f})
  BY EventCounted DEF StreamEnds
<1> QED
  BY <1>1, ClosingFrame, InvParts DEF StreamEnds, ClientGoes

LEMMA WindowClosedStep == ASSUME Inv, WindowClosed PROVE Inv'
<1>1. events' \in 0 .. MaxEvents /\ BindingClose(mapped) /\ mapped \in SUBSET Terminal
  BY EventCounted, InvParts DEF WindowClosed, TypeOK
<1> QED
  BY <1>1, ClosingFrame, InvParts DEF WindowClosed, ClientGoes

LEMMA ConnectionLostStep == ASSUME Inv, ConnectionLost PROVE Inv'
<1>1. WireKept
  BY InvParts, UnchangedKeeps DEF ConnectionLost
<1>2. PendingKept /\ ClientGoes
  BY InvParts DEF ConnectionLost, PendingKept, ClientGoes
<1>3. TypeInv' /\ ShownInv'
  BY InvParts DEF ConnectionLost, TypeInv, TypeOK, ShownInv
<1> QED
  BY <1>1, <1>2, <1>3, InvParts, LocalFrame DEF ConnectionLost, AccountedFor

LEMMA OnPortStep == ASSUME Inv, NEW a \in Terminal, OnPort(a) PROVE Inv'
<1>1. /\ UNCHANGED <<daemonVars, answers, client, step, target, closes, active, lease, granted,
                     visible, events, token, typed>>
      /\ port' = [port EXCEPT ![a] = Tail(@)] /\ port[a] # <<>>
  BY DEF OnPort
<1>2. port' \in [Terminal -> Seq(PortMessage)]
  BY <1>1, InvParts
<1>3. events' \in 0 .. MaxEvents
  BY <1>1, EventCounted
<1>4. CASE mapped' = mapped \ {a} /\ BindingClose({a}) /\ UNCHANGED shown
  BY <1>1, <1>2, <1>3, <1>4, ClosingFrame, InvParts DEF ClientGoes
<1>5. CASE /\ UNCHANGED <<wire, pending, binding, mapped>>
           /\ shown' \subseteq Terminal /\ held' \subseteq held
  <2>1. WireKept /\ PendingKept /\ ClientGoes
    BY <1>1, <1>5, QuietKeeps DEF Quiet
  <2>2. TypeInv' /\ ShownInv'
    BY <1>1, <1>2, <1>5, InvParts DEF TypeInv, TypeOK, ShownInv
  <2> QED
    BY <1>1, <1>5, <2>1, <2>2, InvParts, LocalFrame DEF AccountedFor
<1> QED
  BY <1>4, <1>5, InvParts DEF OnPort, TypeOK

LEMMA CloseTerminalStep == ASSUME Inv, NEW f \in Terminal, CloseTerminal(f) PROVE Inv'
<1>1. closes[f] \in Terminal \ {f} /\ step[f] = "closing" /\ step' = [step EXCEPT ![f] = "awaitClose"]
  BY InvParts DEF CloseTerminal, ShownInv
<1>2. step' \in [Terminal -> Step] /\ events' \in 0 .. MaxEvents
  BY <1>1, EventCounted, InvParts DEF CloseTerminal, Step
<1>3. CASE mapped' = mapped \ {closes[f]} /\ BindingClose({closes[f]})
  BY <1>1, <1>2, <1>3, ClosingFrame, InvParts DEF CloseTerminal, ClientGoes
<1>4. CASE Send(<<CloseCall(closes[f], f)>>) /\ UNCHANGED <<mapped, binding, held>>
  <2>1. /\ CloseCall(closes[f], f) \in WireCall /\ CloseCall(closes[f], f).kind = "Close"
        /\ CloseCall(closes[f], f).by # CloseCall(closes[f], f).att
    BY <1>1, CallFacts DEF CloseCall, Req
  <2>2. WireKept /\ PendingKept /\ (\A i \in DOMAIN wire' : wire'[i] \in Call) /\ pending' \subseteq Call
    BY <1>4, <2>1, SendOther
  <2>3. TypeInv' /\ ShownInv'
    BY <1>1, <1>2, <1>4, <2>2, InvParts
       DEF CloseTerminal, TypeInv, TypeOK, ShownInv, WireKept, PendingKept
  <2>4. \A g \in Terminal : AttachCall(g) \in pending' \/ CloseCall(g, g) \in pending' => step'[g] = step[g]
    BY <1>1, <2>2, InvParts DEF PendingKept, PendingInv
  <2> QED
    BY <1>1, <1>4, <2>2, <2>3, <2>4, InvParts, LocalFrame
       DEF CloseTerminal, AccountedFor, ClientGoes, Before, Opened
<1> QED
  BY <1>3, <1>4 DEF CloseTerminal

\* The Attach of a terminal is sent, once.
LEMMA AttachSent ==
  ASSUME Inv, NEW f \in Terminal, Before(f), client \in {"ready", "closed"},
         step' = [step EXCEPT ![f] = "attaching"], Send(<<AttachCall(f)>>),
         target' \in [Terminal -> Session], \A g \in Terminal \ {f} : target'[g] = target[g],
         UNCHANGED <<daemonVars, answers, client, binding, mapped, held, shown, closes, active, lease, port,
                     granted, visible, events, token, typed>>
  PROVE  Inv'
<1>1. AttachCall(f) \in WireCall /\ <<AttachCall(f)>> \in Seq(WireCall)
      /\ Members(<<AttachCall(f)>>) = {AttachCall(f)} /\ Once(<<AttachCall(f)>>, AttachCall(f))
  BY CallFacts, MembersOfOne
<1>2. attachment[f] = "none" /\ AttachCall(f) \notin Members(wire)
  BY InvParts DEF AttachInv
<1>3. \A g \in Terminal : g # f => AttachCall(g) # AttachCall(f)
  BY DEF AttachCall, Req
<1>4. /\ wire' \in Seq(WireCall) /\ Members(wire) \subseteq Members(wire')
      /\ Members(wire') \subseteq Members(wire) \union {AttachCall(f)}
      /\ \A g \in Terminal : Once(wire, AttachCall(g)) => Once(wire', AttachCall(g))
  <2>1. CASE client = "ready"
    <3>1. wire' = wire \o <<AttachCall(f)>>
      BY <2>1 DEF Send, Sent
    <3>2. /\ wire' \in Seq(WireCall) /\ Members(wire') = Members(wire) \union {AttachCall(f)}
          /\ \A c : Once(wire, c) /\ c \notin {AttachCall(f)} => Once(wire', c)
          /\ Once(wire', AttachCall(f))
      BY <1>1, <1>2, <3>1, InvParts, MembersOfConcat
    <3> QED
      BY <1>3, <3>2, Zenon
  <2>2. CASE client # "ready"
    BY <2>2, InvParts DEF Send, Sent
  <2> QED
    BY <2>1, <2>2
<1>5. pending' = pending \union {AttachCall(f)} /\ pending' \subseteq WireCall
  BY <1>1, InvParts DEF Send
<1>6. \A i \in DOMAIN wire' : wire'[i] \in Call
  BY <1>4, WireItems
<1>7. TypeInv' /\ ShownInv'
  <2>1. pending' \subseteq Call
    BY <1>5, CallFacts
  <2> QED
    BY <1>4, <1>5, <1>6, <2>1, InvParts DEF TypeInv, TypeOK, ShownInv, Step, Before
<1>8. AttachInv'
  BY <1>2, <1>3, <1>4, InvParts DEF AttachInv, Before
<1>9. PendingInv'
  <2>1. \A g \in Terminal : CloseCall(g, g) # AttachCall(f)
    BY DEF CloseCall, AttachCall, Req
  <2> QED
    BY <1>3, <1>4, <1>5, <2>1, InvParts DEF PendingInv, Before
<1>10. ConnectionOwns'
  BY InvParts, OwnsFrame
<1>11. AccountedFor'
  <2>1. \A g \in Terminal \ unread : client = "ready" /\ attachment[g] = "Active" =>
          step'[g] \in {"attaching", "opening", "timedout"} \/ binding[g] = "open" \/ CloseSent(g)'
    BY <1>4, InvParts, AccountedAgain DEF CloseSent
  <2>2. \A g \in Terminal : CloseSent(g)' =>
          (\E i \in DOMAIN wire : wire[i].kind = "Close" /\ wire[i].att = g)'
    BY DEF CloseSent, Members
  <2> QED
    BY <2>1, <2>2, InvParts DEF AccountedFor
<1> QED
  BY <1>7, <1>8, <1>9, <1>10, <1>11 DEF Inv

LEMMA CloseReturnsStep == ASSUME Inv, NEW f \in Terminal, CloseReturns(f) PROVE Inv'
<1>1. Before(f) /\ client \in {"ready", "closed"} /\ target \in [Terminal -> Session]
  BY InvParts DEF CloseReturns, Before, AttachInv, TypeOK
<1> QED
  BY <1>1, AttachSent DEF CloseReturns

LEMMA AttachTerminalStep ==
  ASSUME Inv, NEW f \in Terminal, NEW s \in Session, AttachTerminal(f, s) PROVE Inv'
<1>1. Before(f) /\ client \in {"ready", "closed"} /\ target' \in [Terminal -> Session]
      /\ \A g \in Terminal \ {f} : target'[g] = target[g]
  BY InvParts DEF AttachTerminal, Before, TypeOK
<1>2. CASE active = None
  BY <1>1, <1>2, AttachSent DEF AttachTerminal
<1>3. CASE active # None
  <2>1. /\ step' = [step EXCEPT ![f] = "closing", ![active] = "closed"] /\ step[f] = "none"
        /\ active' = None /\ closes' = [closes EXCEPT ![f] = active]
        /\ port' = [port EXCEPT ![active] = Append(@, "close")]
        /\ UNCHANGED <<daemonVars, wireVars, client, pending, binding, mapped, held, shown, lease,
                       granted, visible, events, token, typed>>
    BY <1>3 DEF AttachTerminal
  <2>2. active \in Terminal /\ step[active] = "live" /\ active # f
    BY <1>3, <2>1, InvParts DEF TypeOK, ShownInv
  <2>3. WireKept /\ PendingKept /\ ClientGoes
    BY <2>1, QuietKeeps DEF Quiet
  <2>4. port' \in [Terminal -> Seq(PortMessage)] /\ step' \in [Terminal -> Step]
        /\ closes' \in [Terminal -> Terminal \union {None}]
    BY <2>1, <2>2, PortGrows, InvParts DEF PortMessage, Step, TypeOK
  <2>5. TypeInv' /\ ShownInv'
    <3>1. TypeInv'
      BY <1>1, <2>1, <2>4, InvParts DEF TypeInv, TypeOK
    <3>2. \A g \in Terminal : step'[g] \in {"closing", "awaitClose"} => closes'[g] \in Terminal \ {g}
      <4>1. closes \in [Terminal -> Terminal \union {None}]
        BY InvParts DEF TypeOK
      <4> QED
        BY <2>1, <2>2, <4>1, InvParts DEF ShownInv
    <3> QED
      BY <2>1, <3>1, <3>2 DEF ShownInv
  <2> QED
    BY <1>1, <2>1, <2>2, <2>3, <2>5, InvParts, LocalFrame
       DEF AccountedFor, Before, Opened, PendingInv
<1> QED
  BY <1>2, <1>3

LEMMA StreamFailsStep == ASSUME Inv, NEW f \in Terminal, StreamFails(f) PROVE Inv'
<1> DEFINE c == CloseCall(f, f)
<1>1. /\ step[f] = "opening" /\ step' = [step EXCEPT ![f] = "abandoning"] /\ Send(<<c>>)
      /\ UNCHANGED <<daemonVars, answers, client, binding, mapped, held, shown, target,
                     closes, active, lease, port, granted, visible, token, typed>>
      /\ events' \in 0 .. MaxEvents
  BY EventCounted DEF StreamFails
<1>2. c \in WireCall /\ c.kind = "Close" /\ c.att = f
  BY CallFacts DEF CloseCall, Req
<1>3. WireKept /\ (client = "ready" => c \in Members(wire'))
  BY <1>1, <1>2, InvParts, SendOne DEF Send
<1>4. pending' = pending \union {c} /\ pending' \subseteq WireCall
  BY <1>1, <1>2, MembersOfOne, InvParts DEF Send
<1>5. \A i \in DOMAIN wire' : wire'[i] \in Call
  BY <1>3, WireItems DEF WireKept
<1>6. TypeInv' /\ ShownInv'
  <2>1. pending' \subseteq Call
    BY <1>4, CallFacts
  <2> QED
    BY <1>1, <1>3, <1>4, <1>5, <2>1, InvParts DEF TypeInv, TypeOK, ShownInv, Step, WireKept
<1>7. \A g \in Terminal : /\ AttachCall(g) # c /\ (CloseCall(g, g) = c => g = f)
  BY DEF AttachCall, CloseCall, Req
<1>8. AttachInv'
  BY <1>1, <1>3, InvParts, AttachFrame DEF ClientGoes, Before
<1>9. PendingInv'
  BY <1>1, <1>3, <1>4, <1>7, InvParts DEF PendingInv, WireKept
<1>10. ConnectionOwns'
  BY <1>1, InvParts, OwnsFrame DEF TypeOK
<1>11. AccountedFor'
  <2>1. client = "ready" => CloseSent(f)'
    BY <1>2, <1>3 DEF CloseSent
  <2> QED
    BY <1>1, <1>3, <2>1, InvParts, AccountedFrame DEF AccountedFor, ClientGoes
<1> QED
  BY <1>6, <1>8, <1>9, <1>10, <1>11 DEF Inv

-----------------------------------------------------------------------------
(* How a call settles.                                                      *)

\* An Attach that was answered has been executed; only the end of the connection, or a
\* timer, settles one that was not.
LEMMA SettleStep ==
  ASSUME Inv, NEW c \in pending, NEW out, Settle(c, out), client \in {"ready", "closed"},
         answers' \in Seq(Answered), Members(answers') \subseteq Members(answers),
         events' \in 0 .. MaxEvents,
         c.kind = "Attach" =>
           /\ out \in {"ok", "error"} => attachment[c.att] # "none"
           /\ out = "error" => c.att \in unread
           /\ out \notin {"ok", "error", "late"} => client = "closed"
  PROVE  Inv'
<1>1. /\ c \in WireCall /\ c.att \in Terminal \union {None} /\ c.by \in Terminal \union {None}
      /\ c.kind \in {"Attach", "Acquire", "Renew", "Close", "Input"} => c.att \in Terminal
      /\ c.kind = "Attach" => c = AttachCall(c.att)
      /\ c.kind = "Close" => c = CloseCall(c.att, c.by)
  BY InvParts, KindFacts
<1>2. UNCHANGED <<daemonVars, client, mapped, shown, target, closes, active, lease, port, visible, token, typed>>
  BY DEF Settle
<1>3. ClientGoes
  BY <1>2 DEF ClientGoes
<1>4. \A g \in Terminal :
        step'[g] # step[g] =>
          /\ g = c.att
          /\ \/ c = AttachCall(g) /\ step[g] = "attaching" /\ step'[g] = AttachOutcome(out)
             \/ c = CloseCall(g, g) /\ step[g] = "abandoning" /\ step'[g] = "failed"
  <2> SUFFICES ASSUME NEW g \in Terminal, step'[g] # step[g]
               PROVE  /\ g = c.att
                      /\ \/ c = AttachCall(g) /\ step[g] = "attaching" /\ step'[g] = AttachOutcome(out)
                         \/ c = CloseCall(g, g) /\ step[g] = "abandoning" /\ step'[g] = "failed"
    OBVIOUS
  <2>1. CASE c.kind = "Attach"
    <3>1. step' = [step EXCEPT ![c.att] = AttachOutcome(out)]
      BY <2>1 DEF Settle
    <3>2. g = c.att /\ step'[g] = AttachOutcome(out)
      BY <3>1, InvParts
    <3> QED
      BY <1>1, <2>1, <3>2, InvParts DEF PendingInv
  <2>2. CASE c.kind = "Close" /\ c.by = c.att
    <3>1. step' = [step EXCEPT ![c.att] = "failed"]
      BY <2>2 DEF Settle
    <3>2. g = c.att /\ step'[g] = "failed" /\ c = CloseCall(g, g)
      BY <1>1, <2>2, <3>1, InvParts
    <3> QED
      BY <3>2, InvParts DEF PendingInv
  <2>3. CASE c.kind # "Attach" /\ ~(c.kind = "Close" /\ c.by = c.att)
    BY <2>3 DEF Settle
  <2> QED
    BY <2>1, <2>2, <2>3
<1>5. step' \in [Terminal -> Step]
  BY <1>1, InvParts DEF Settle, Step, AttachOutcome
<1>6. granted' \in [Terminal -> {"none", "asked", "answered", "applied"}]
  BY <1>1, InvParts DEF Settle, TypeOK
<1>7. /\ WireKept /\ PendingKept
      /\ c \notin pending' \/ c = CloseCall(c.att, None)
      /\ binding' \in [Terminal -> {"none", "open", "closed"}] /\ held' \subseteq Terminal
      /\ \A a \in held' : binding'[a] = "open"
      /\ \A a \in Terminal : client = "ready" /\ binding[a] = "open" => binding'[a] = "open" \/ CloseSent(a)'
  <2> DEFINE d == CloseCall(c.att, None)
  <2>1. CASE c.kind = "Renew" /\ out # "ok" /\ Kept(c)
    <3>1. /\ binding' = [binding EXCEPT ![c.att] = "closed"] /\ held' = held \ {c.att}
          /\ wire' = Sent(<<d>>) /\ pending' = (pending \ {c}) \union {d}
      BY <2>1 DEF Settle
    <3>2. d \in WireCall /\ d.kind = "Close" /\ d.att = c.att /\ d.by = None /\ c.att \in Terminal /\ c # d
      BY <1>1, <2>1, CallFacts DEF CloseCall, Req
    <3>3. WireKept /\ (client = "ready" => d \in Members(wire'))
      BY <3>1, <3>2, InvParts, SendOne
    <3>4. PendingKept
      BY <3>1, <3>2, InvParts, KindFacts, CallFacts DEF PendingKept
    <3>5. binding \in [Terminal -> {"none", "open", "closed"}] /\ held \subseteq Terminal
          /\ \A a \in held : binding[a] = "open"
      BY InvParts DEF TypeOK, AccountedFor
    <3>6. client = "ready" => CloseSent(c.att)'
      BY <3>2, <3>3 DEF CloseSent
    <3>7. \A a \in Terminal : a # c.att => binding'[a] = binding[a]
      BY <3>1, <3>5
    <3>8. \A a \in Terminal : client = "ready" /\ binding[a] = "open" => binding'[a] = "open" \/ CloseSent(a)'
      BY <3>6, <3>7
    <3> QED
      BY <3>1, <3>2, <3>3, <3>4, <3>5, <3>7, <3>8
  <2>2. CASE ~(c.kind = "Renew" /\ out # "ok" /\ Kept(c))
    <3>1. /\ pending' = pending \ {c} /\ UNCHANGED <<binding, wire>>
          /\ held' = IF c.kind \in {"Acquire", "Renew"} /\ out = "ok" /\ Kept(c)
                     THEN held \union {c.att} ELSE held
      BY <2>2 DEF Settle
    <3>2. held' \subseteq Terminal /\ \A a \in held' : binding[a] = "open"
      BY <1>1, <3>1, InvParts DEF TypeOK, AccountedFor, Kept
    <3>3. WireKept
      BY <3>1, UnchangedKeeps, InvParts
    <3> QED
      BY <3>1, <3>2, <3>3, InvParts DEF PendingKept, TypeOK
  <2> QED
    BY <2>1, <2>2
<1>8. \A i \in DOMAIN wire' : wire'[i] \in Call
  BY <1>7, WireItems DEF WireKept
<1>9. TypeInv'
  <2>1. pending' \subseteq Call
    BY <1>7, CallFacts DEF PendingKept
  <2> QED
    BY <1>2, <1>5, <1>6, <1>7, <1>8, <2>1, InvParts DEF TypeInv, TypeOK, WireKept, PendingKept
<1>10. \A g \in Terminal : step'[g] # step[g] =>
         /\ ~Before(g) /\ ~Before(g)' /\ step'[g] # "none" /\ step[g] # "live"
  BY <1>4 DEF Before, AttachOutcome
<1>11. ShownInv'
  BY <1>2, <1>10, InvParts DEF ShownInv, Before, TypeOK
<1>12. \A g \in Terminal : AttachCall(g) \in pending' \/ CloseCall(g, g) \in pending' => step'[g] = step[g]
  <2> SUFFICES ASSUME NEW g \in Terminal, AttachCall(g) \in pending' \/ CloseCall(g, g) \in pending',
                      step'[g] # step[g]
               PROVE  FALSE
    OBVIOUS
  <2>1. AttachCall(g) \in pending \/ CloseCall(g, g) \in pending
    BY <1>7 DEF PendingKept
  <2>2. AttachCall(g) # CloseCall(g, g) /\ CloseCall(g, g) # CloseCall(c.att, None) /\ AttachCall(g) # CloseCall(c.att, None)
    BY CallFacts DEF AttachCall, CloseCall, Req
  <2> QED
    BY <1>4, <1>7, <2>1, <2>2, InvParts DEF PendingInv, PendingKept
<1>13. \A g \in Terminal :
         client = "ready" /\ AttachCall(g) \in Members(wire) /\ step[g] \in {"attaching", "timedout"}
           => step'[g] \in {"attaching", "timedout"}
  <2> SUFFICES ASSUME NEW g \in Terminal, client = "ready", AttachCall(g) \in Members(wire),
                      step'[g] # step[g], step[g] = "attaching"
               PROVE  step'[g] = "timedout"
    BY <1>4
  <2>1. c = AttachCall(g) /\ c.kind = "Attach" /\ c.att = g /\ step'[g] = AttachOutcome(out)
    BY <1>1, <1>4, KindFacts
  <2>2. attachment[g] = "none"
    BY InvParts DEF AttachInv
  <2> QED
    BY <2>1, <2>2 DEF AttachOutcome
<1>14. \A g \in Terminal \ unread :
         client = "ready" /\ attachment[g] = "Active" /\ step[g] \in Opened => step'[g] \in Opened
  <2> SUFFICES ASSUME NEW g \in Terminal \ unread, client = "ready", step'[g] # step[g],
                      step[g] \in Opened
               PROVE  step'[g] \in Opened
    OBVIOUS
  <2>1. c = AttachCall(g) /\ c.kind = "Attach" /\ c.att = g /\ step'[g] = AttachOutcome(out)
    BY <1>1, <1>4, KindFacts DEF Opened
  <2> QED
    BY <2>1 DEF AttachOutcome, Opened
<1> QED
  BY <1>2, <1>3, <1>7, <1>9, <1>10, <1>11, <1>12, <1>13, <1>14, LocalFrame

LEMMA DispatchStep == ASSUME Inv, Dispatch PROVE Inv'
<1> DEFINE a == Head(answers)
<1>1. /\ a \in Answered /\ answers' = Tail(answers) /\ answers' \in Seq(Answered) /\ a \in Members(answers)
      /\ Members(answers') \subseteq Members(answers)
  BY InvParts, MembersOfTail DEF Dispatch
<1>2. CASE a.call \in pending
  <2> DEFINE out == IF a.ok THEN "ok" ELSE "error"
  <2>1. Settle(a.call, out) /\ UNCHANGED events /\ client = "ready"
    BY <1>2 DEF Dispatch
  <2>2. a.call.kind = "Attach" => attachment[a.call.att] # "none" /\ (out = "error" => a.call.att \in unread)
    <3>1. SUFFICES ASSUME a.call.kind = "Attach"
                   PROVE  attachment[a.call.att] # "none" /\ (~a.ok => a.call.att \in unread)
      OBVIOUS
    <3>2. a.call = AttachCall(a.call.att) /\ a.call.att \in Terminal
      BY <1>1, <3>1, KindFacts DEF Answered
    <3>3. a = [call |-> AttachCall(a.call.att), ok |-> a.ok] /\ a.ok \in BOOLEAN
      BY <1>1, <3>2 DEF Answered
    <3> QED
      BY <1>1, <3>2, <3>3, InvParts DEF AttachInv
  <2>3. events' \in 0 .. MaxEvents
    BY <2>1, EventCounted
  <2>4. out \in {"ok", "error"}
    OBVIOUS
  <2> HIDE DEF out, a
  <2> QED
    BY <1>1, <1>2, <2>1, <2>2, <2>3, <2>4, SettleStep
<1>3. CASE a.call \notin pending
  <2>1. UNCHANGED <<daemonVars, wire, mainVars, rendererVars, token, typed>>
    BY <1>3 DEF Dispatch
  <2>2. WireKept /\ PendingKept /\ ClientGoes
    BY <2>1, QuietKeeps DEF Quiet
  <2>3. TypeInv' /\ ShownInv'
    BY <1>1, <2>1, InvParts DEF TypeInv, TypeOK, ShownInv
  <2> QED
    BY <1>1, <2>1, <2>2, <2>3, InvParts, LocalFrame DEF AccountedFor
<1> QED
  BY <1>2, <1>3

LEMMA TimeoutStep == ASSUME Inv, NEW c \in pending, Timeout(c) PROVE Inv'
<1>1. events' \in 0 .. MaxEvents
  BY EventCounted DEF Timeout
<1> QED
  BY <1>1, SettleStep, InvParts DEF Timeout

LEMMA RejectStep == ASSUME Inv, NEW c \in pending, Reject(c) PROVE Inv'
<1>1. events' \in 0 .. MaxEvents
  BY EventCounted DEF Reject
<1> QED
  BY <1>1, SettleStep, InvParts DEF Reject

-----------------------------------------------------------------------------
(* The Daemon: it takes calls from the wire.                                *)

LEMMA TakenFacts ==
  ASSUME Inv, wire # <<>>, wire' = Tail(wire)
  PROVE  /\ Head(wire) \in WireCall /\ wire' \in Seq(WireCall)
         /\ \A i \in DOMAIN wire' : wire'[i] \in Call
         /\ Members(wire) = {Head(wire)} \union Members(wire')
         /\ \A f \in Terminal : /\ Once(wire', AttachCall(f))
                                /\ Head(wire) = AttachCall(f) => AttachCall(f) \notin Members(wire')
<1>1. /\ Head(wire) \in WireCall /\ wire' \in Seq(WireCall)
      /\ Members(wire) = {Head(wire)} \union Members(wire')
      /\ \A c : Once(wire, c) => Once(wire', c) /\ (Head(wire) = c => c \notin Members(wire'))
  BY InvParts, MembersOfTail
<1>2. \A f \in Terminal : Once(wire, AttachCall(f))
  BY InvParts DEF AttachInv
<1>3. \A i \in DOMAIN wire' : wire'[i] \in Call
  BY <1>1, WireItems
<1> QED
  BY <1>1, <1>2, <1>3

LEMMA AnswerAdds ==
  ASSUME Inv, NEW c \in WireCall, NEW ok \in BOOLEAN, Answer(c, ok)
  PROVE  answers' \in Seq(Answered) /\ Members(answers') = Members(answers) \union {[call |-> c, ok |-> ok]}
<1>1. [call |-> c, ok |-> ok] \in Answered
  BY DEF Answered
<1> QED
  BY <1>1, InvParts, MembersOfAppend DEF Answer

\* A close that has not been taken is still on its way.
LEMMA CloseStays ==
  ASSUME Inv, wire # <<>>, wire' = Tail(wire), NEW a \in Terminal,
         Head(wire).kind # "Close" \/ Head(wire).att # a
  PROVE  /\ CloseSent(a) => CloseSent(a)'
         /\ CloseCall(a, a) \in Members(wire) => CloseCall(a, a) \in Members(wire')
<1>1. Members(wire) = {Head(wire)} \union Members(wire')
  BY TakenFacts
<1> QED
  BY <1>1 DEF CloseSent, CloseCall, Req

LEMMA AccountedPrimed ==
  ASSUME \A a \in Terminal \ unread' : client' = "ready" /\ attachment'[a] = "Active" =>
           step'[a] \in {"attaching", "opening", "timedout"} \/ binding'[a] = "open" \/ CloseSent(a)',
         \A a \in held' : binding'[a] = "open"
  PROVE  AccountedFor'
<1>1. \A a \in Terminal : CloseSent(a)' =>
        (\E i \in DOMAIN wire : wire[i].kind = "Close" /\ wire[i].att = a)'
  BY DEF CloseSent, Members
<1> QED
  BY <1>1 DEF AccountedFor

\* A call that neither attaches nor closes.
LEMMA TakenOther ==
  ASSUME Inv, wire # <<>>, wire' = Tail(wire), Head(wire).kind \notin {"Attach", "Close"},
         UNCHANGED <<owned, attachment, unread, mainVars, rendererVars, token>>,
         UNCHANGED answers \/ \E ok \in BOOLEAN : Answer(Head(wire), ok),
         dispatcher' \in {"awaiting-auth", "ready", "closed"}, dispatcher' = "ready" => token,
         holder' \in [Session -> Terminal \union {None}], typed' \subseteq Session \X Session,
         \A s \in Session : holder'[s] # None => holder'[s] \in owned /\ target[holder'[s]] = s
  PROVE  Inv'
<1>1. /\ Head(wire) \in WireCall /\ wire' \in Seq(WireCall)
      /\ \A i \in DOMAIN wire' : wire'[i] \in Call
      /\ Members(wire) = {Head(wire)} \union Members(wire')
      /\ \A f \in Terminal : Once(wire', AttachCall(f))
  BY TakenFacts
<1>2. /\ answers' \in Seq(Answered)
      /\ Members(answers') \subseteq Members(answers) \union {[call |-> Head(wire), ok |-> ok] : ok \in BOOLEAN}
  BY <1>1, InvParts, AnswerAdds
<1>3. TypeInv' /\ ShownInv'
  BY <1>1, <1>2, InvParts DEF TypeInv, TypeOK, ShownInv
<1>4. AttachInv'
  <2>1. \A f \in Terminal, ok \in BOOLEAN :
          [call |-> AttachCall(f), ok |-> ok] \in Members(answers') => [call |-> AttachCall(f), ok |-> ok] \in Members(answers)
    <3>1. \A f \in Terminal : Head(wire) # AttachCall(f)
      BY DEF AttachCall, Req
    <3> QED
      BY <1>2, <3>1
  <2> QED
    BY <1>1, <2>1, InvParts DEF AttachInv, Before
<1>5. PendingInv'
  BY InvParts, CloseStays DEF PendingInv
<1>6. ConnectionOwns'
  BY InvParts DEF ConnectionOwns
<1>7. AccountedFor'
  BY InvParts, CloseStays, AccountedAgain, AccountedPrimed
<1> QED
  BY <1>3, <1>4, <1>5, <1>6, <1>7 DEF Inv

LEMMA HoldersOwned ==
  ASSUME Inv
  PROVE  /\ holder \in [Session -> Terminal \union {None}] /\ typed \subseteq Session \X Session
         /\ target \in [Terminal -> Session]
         /\ \A s \in Session : holder[s] # None => holder[s] \in owned /\ target[holder[s]] = s
         /\ dispatcher = "ready" => token
BY InvParts DEF TypeOK, ConnectionOwns

LEMMA OnHelloStep == ASSUME Inv, NEW compatible \in BOOLEAN, OnHello(compatible) PROVE Inv'
<1>1. Head(wire).kind = "Hello" /\ wire # <<>> /\ wire' = Tail(wire) /\ Answer(Head(wire), compatible)
  BY DEF OnHello, Answer, Hello, Req
<1> QED
  BY <1>1, HoldersOwned, TakenOther DEF OnHello

LEMMA OnAuthStep == ASSUME Inv, OnAuth PROVE Inv'
<1>1. /\ Head(wire) = Auth /\ wire # <<>> /\ wire' = Tail(wire)
      /\ UNCHANGED answers \/ answers' = Append(answers, [call |-> Auth, ok |-> TRUE])
  BY DEF OnAuth
<1>2. Head(wire).kind = "Auth"
  BY <1>1 DEF Auth, Req
<1>3. UNCHANGED answers \/ \E ok \in BOOLEAN : Answer(Head(wire), ok)
  BY <1>1 DEF Answer
<1> QED
  BY <1>1, <1>2, <1>3, HoldersOwned, TakenOther DEF OnAuth

LEMMA ExecuteRenewStep == ASSUME Inv, ExecuteRenew PROVE Inv'
<1>1. Head(wire).kind = "Renew" /\ wire # <<>> /\ wire' = Tail(wire) /\ dispatcher = "ready"
      /\ \E ok \in BOOLEAN : Answer(Head(wire), ok)
  BY DEF ExecuteRenew, Serving
<1> QED
  BY <1>1, HoldersOwned, TakenOther DEF ExecuteRenew

LEMMA ExecuteInputStep == ASSUME Inv, ExecuteInput PROVE Inv'
<1>1. Head(wire).kind = "Input" /\ wire # <<>> /\ wire' = Tail(wire) /\ dispatcher = "ready"
  BY DEF ExecuteInput, Serving
<1>2. Head(wire).att \in Terminal /\ Head(wire).by \in Terminal
  BY <1>1, TakenFacts, KindFacts
<1>3. typed' \subseteq Session \X Session
  BY <1>2, HoldersOwned DEF ExecuteInput
<1> QED
  BY <1>1, <1>3, HoldersOwned, TakenOther DEF ExecuteInput

\* The one step that looks at a row the connection may not own.
LEMMA ExecuteAcquireStep == ASSUME Inv, UnreadInv, ExecuteAcquire PROVE Inv'
<1> DEFINE a == Head(wire).att
           grant == attachment[a] = "Active" /\ holder[target[a]] = None
<1>1. /\ Head(wire).kind = "Acquire" /\ wire # <<>> /\ wire' = Tail(wire) /\ dispatcher = "ready"
      /\ holder' = IF grant THEN [holder EXCEPT ![target[a]] = a] ELSE holder
      /\ answers' = Append(answers, [call |-> Head(wire), ok |-> grant])
  BY DEF ExecuteAcquire, Serving, Answer
<1>2. a \in Terminal
  BY <1>1, TakenFacts, KindFacts
<1>3. grant => a \in owned
  <2>1. Head(wire) \in Members(wire) /\ Head(wire) = AcquireCall(a)
    BY <1>1, TakenFacts, KindFacts
  <2>2. a \notin unread
    BY <1>2, <2>1 DEF UnreadInv, Refused
  <2> QED
    BY <1>2, <2>2, InvParts DEF ConnectionOwns
<1>4. /\ holder' \in [Session -> Terminal \union {None}]
      /\ \A s \in Session : holder'[s] # None => holder'[s] \in owned /\ target[holder'[s]] = s
  <2>1. CASE grant
    BY <1>1, <1>2, <1>3, <2>1, HoldersOwned
  <2>2. CASE ~grant
    BY <1>1, <2>2, HoldersOwned
  <2> QED
    BY <2>1, <2>2
<1>5. \E ok \in BOOLEAN : Answer(Head(wire), ok)
  <2>1. grant \in BOOLEAN
    OBVIOUS
  <2> QED
    BY <1>1, <2>1 DEF Answer
<1> QED
  BY <1>1, <1>4, <1>5, HoldersOwned, TakenOther DEF ExecuteAcquire

LEMMA ExpireStep == ASSUME Inv, NEW s \in Session, Expire(s) PROVE Inv'
<1>1. UNCHANGED <<dispatcher, owned, attachment, unread, wireVars, mainVars, stillVars, token, typed>>
      /\ holder' = [holder EXCEPT ![s] = None] /\ events' \in 0 .. MaxEvents
  BY EventCounted DEF Expire
<1>2. /\ holder' \in [Session -> Terminal \union {None}]
      /\ \A r \in Session : holder'[r] # None => holder'[r] = holder[r]
  BY <1>1, HoldersOwned
<1>3. TypeInv' /\ ShownInv'
  BY <1>1, <1>2, InvParts DEF TypeInv, TypeOK, ShownInv
<1>4. AttachInv' /\ PendingInv'
  BY <1>1, InvParts DEF AttachInv, PendingInv, Before
<1>5. ConnectionOwns'
  BY <1>1, <1>2, InvParts DEF ConnectionOwns
<1>6. AccountedFor'
  BY <1>1, InvParts DEF AccountedFor
<1> QED
  BY <1>3, <1>4, <1>5, <1>6 DEF Inv

-----------------------------------------------------------------------------
(* The Daemon: attaching, closing, and the end of the connection.           *)

LEMMA AttachTaken ==
  ASSUME Inv, wire # <<>>, wire' = Tail(wire), Head(wire).kind = "Attach", dispatcher = "ready",
         NEW f, f = Head(wire).att, NEW ok \in BOOLEAN, Answer(Head(wire), ok),
         attachment' = [attachment EXCEPT ![f] = "Active"],
         owned' = IF ok THEN owned \union {f} ELSE owned,
         unread' = IF ok THEN unread ELSE unread \union {f}, events' \in 0 .. MaxEvents,
         UNCHANGED <<dispatcher, holder, mainVars, stillVars, token, typed>>
  PROVE  Inv'
<1>1. /\ Head(wire) \in WireCall /\ wire' \in Seq(WireCall)
      /\ \A i \in DOMAIN wire' : wire'[i] \in Call
      /\ Members(wire) = {Head(wire)} \union Members(wire')
      /\ \A g \in Terminal : /\ Once(wire', AttachCall(g))
                             /\ Head(wire) = AttachCall(g) => AttachCall(g) \notin Members(wire')
  BY TakenFacts
<1>2. f \in Terminal /\ Head(wire) = AttachCall(f)
  BY <1>1, KindFacts
<1>3. /\ answers' \in Seq(Answered)
      /\ Members(answers') = Members(answers) \union {[call |-> AttachCall(f), ok |-> ok]}
  BY <1>1, <1>2, AnswerAdds
<1>4. /\ attachment[f] = "none" /\ ~Before(f) /\ (client = "ready" => step[f] \in {"attaching", "timedout"})
      /\ AttachCall(f) \notin Members(wire')
  BY <1>1, <1>2, InvParts DEF AttachInv
<1>5. attachment \in [Terminal -> {"none", "Active", "Closed"}]
  BY InvParts DEF TypeOK
<1>6. \A g \in Terminal : attachment'[g] = IF g = f THEN "Active" ELSE attachment[g]
  BY <1>5
<1>7. attachment' \in [Terminal -> {"none", "Active", "Closed"}] /\ owned' \subseteq Terminal
      /\ unread' \subseteq Terminal
  BY <1>2, <1>5, InvParts DEF TypeOK
<1>8. TypeInv' /\ ShownInv'
  BY <1>1, <1>3, <1>7, InvParts DEF TypeInv, TypeOK, ShownInv
<1>9. AttachInv'
  <2> SUFFICES ASSUME NEW g \in Terminal
               PROVE  /\ Before(g) => attachment'[g] = "none" /\ AttachCall(g) \notin Members(wire')
                      /\ AttachCall(g) \in Members(wire') => attachment'[g] = "none"
                      /\ \A o \in BOOLEAN : [call |-> AttachCall(g), ok |-> o] \in Members(answers') =>
                           attachment'[g] # "none" /\ (~o => g \in unread')
                      /\ g \in unread' => attachment'[g] # "none"
    BY <1>1, InvParts DEF AttachInv, Before
  <2>1. CASE g = f
    <3>1. \A o \in BOOLEAN : [call |-> AttachCall(f), ok |-> o] \notin Members(answers)
      BY <1>2, <1>4, InvParts DEF AttachInv
    <3> QED
      BY <1>3, <1>4, <1>6, <2>1, <3>1
  <2>2. CASE g # f
    <3>1. AttachCall(g) # AttachCall(f)
      BY <2>2 DEF AttachCall, Req
    <3> QED
      BY <1>1, <1>3, <1>6, <2>2, <3>1, InvParts DEF AttachInv
  <2> QED
    BY <2>1, <2>2
<1>10. PendingInv'
  <2>1. \A g \in Terminal : CloseCall(g, g) # Head(wire)
    BY DEF CloseCall, Req
  <2> QED
    BY <1>1, <1>4, <1>6, <2>1, InvParts DEF PendingInv
<1>11. ConnectionOwns'
  <2>1. f \notin unread
    BY <1>2, <1>4, InvParts DEF AttachInv
  <2>2. owned' = {a \in Terminal \ unread' : attachment'[a] = "Active"} /\ owned \subseteq owned'
    BY <1>2, <1>4, <1>6, <2>1, InvParts DEF ConnectionOwns
  <2> QED
    BY <2>2, InvParts DEF ConnectionOwns
<1>12. AccountedFor'
  <2>1. \A a \in Terminal : CloseSent(a) => CloseSent(a)'
    BY CloseStays
  <2> QED
    BY <1>4, <1>6, <2>1, InvParts, AccountedAgain, AccountedPrimed
<1> QED
  BY <1>8, <1>9, <1>10, <1>11, <1>12 DEF Inv

LEMMA ExecuteAttachStep == ASSUME Inv, ExecuteAttach PROVE Inv'
<1>1. events' \in 0 .. MaxEvents
  BY EventCounted DEF ExecuteAttach
<1> QED
  BY <1>1, AttachTaken DEF ExecuteAttach, Serving, Attached

LEMMA AttachUnreadStep == ASSUME Inv, AttachUnread PROVE Inv'
<1>1. events' \in 0 .. MaxEvents
  BY EventCounted DEF AttachUnread
<1> QED
  BY <1>1, AttachTaken DEF AttachUnread, Serving

\* Attachments are released, and what holds control is what is left.
LEMMA ReleasedFacts ==
  ASSUME Inv, NEW S \in SUBSET Terminal, Released(S), owned' = owned \ S,
         UNCHANGED unread
  PROVE  /\ attachment' \in [Terminal -> {"none", "Active", "Closed"}]
         /\ holder' \in [Session -> Terminal \union {None}]
         /\ owned' = {a \in Terminal \ unread' : attachment'[a] = "Active"}
         /\ \A s \in Session : holder'[s] # None => holder'[s] \in owned' /\ target[holder'[s]] = s
         /\ \A a \in Terminal : /\ attachment'[a] = "none" <=> attachment[a] = "none"
                                /\ attachment'[a] = "Active" => attachment[a] = "Active" /\ a \notin S
<1>1. /\ attachment \in [Terminal -> {"none", "Active", "Closed"}]
      /\ owned = {a \in Terminal \ unread : attachment[a] = "Active"}
  BY InvParts DEF TypeOK, ConnectionOwns
<1>2. \A a \in Terminal : attachment'[a] = IF a \in S /\ attachment[a] = "Active" THEN "Closed" ELSE attachment[a]
  BY DEF Released
<1>3. \A s \in Session : holder'[s] = IF holder[s] \in S THEN None ELSE holder[s]
  BY DEF Released
<1>4. attachment' \in [Terminal -> {"none", "Active", "Closed"}]
  BY <1>1 DEF Released
<1>5. holder' \in [Session -> Terminal \union {None}]
  BY HoldersOwned DEF Released
<1>6. \A s \in Session : holder'[s] # None => holder'[s] \in owned' /\ target[holder'[s]] = s
  BY <1>3, HoldersOwned
<1> QED
  BY <1>1, <1>2, <1>4, <1>5, <1>6

LEMMA ExecuteCloseStep == ASSUME Inv, ExecuteClose PROVE Inv'
<1> DEFINE a == Head(wire).att
<1>1. /\ wire # <<>> /\ wire' = Tail(wire) /\ Head(wire).kind = "Close" /\ dispatcher = "ready"
      /\ Released({a}) /\ owned' = owned \ {a} /\ Answer(Head(wire), TRUE)
      /\ UNCHANGED <<dispatcher, unread, mainVars, rendererVars, token, typed>>
  BY DEF ExecuteClose, Serving
<1>2. /\ Head(wire) \in WireCall /\ wire' \in Seq(WireCall)
      /\ \A i \in DOMAIN wire' : wire'[i] \in Call
      /\ Members(wire) = {Head(wire)} \union Members(wire')
      /\ \A g \in Terminal : Once(wire', AttachCall(g))
  BY <1>1, TakenFacts
<1>3. a \in Terminal
  BY <1>1, <1>2, KindFacts
<1>4. /\ attachment' \in [Terminal -> {"none", "Active", "Closed"}]
      /\ holder' \in [Session -> Terminal \union {None}]
      /\ owned' = {b \in Terminal \ unread' : attachment'[b] = "Active"}
      /\ \A s \in Session : holder'[s] # None => holder'[s] \in owned' /\ target[holder'[s]] = s
      /\ \A b \in Terminal : /\ attachment'[b] = "none" <=> attachment[b] = "none"
                             /\ attachment'[b] = "Active" => attachment[b] = "Active" /\ b # a
  BY <1>1, <1>3, ReleasedFacts
<1>5. /\ answers' \in Seq(Answered)
      /\ Members(answers') = Members(answers) \union {[call |-> Head(wire), ok |-> TRUE]}
  BY <1>1, <1>2, AnswerAdds
<1>6. TypeInv' /\ ShownInv'
  BY <1>1, <1>2, <1>4, <1>5, InvParts DEF TypeInv, TypeOK, ShownInv
<1>7. AttachInv'
  <2>1. \A f \in Terminal : Head(wire) # AttachCall(f)
    BY <1>1 DEF AttachCall, Req
  <2>2. \A f \in Terminal, ok \in BOOLEAN :
          [call |-> AttachCall(f), ok |-> ok] \in Members(answers') => [call |-> AttachCall(f), ok |-> ok] \in Members(answers)
    BY <1>5, <2>1
  <2>3. /\ UNCHANGED <<unread, client, step>> /\ \A f \in Terminal : Before(f)' <=> Before(f)
        /\ \A f \in Terminal : AttachCall(f) \in Members(wire') => AttachCall(f) \in Members(wire)
    BY <1>1, <1>2 DEF Before
  <2> HIDE DEF a
  <2> QED
    BY <1>2, <1>4, <2>2, <2>3, InvParts DEF AttachInv
<1> HIDE DEF a
<1>8. \A b \in Terminal : b # a => /\ CloseSent(b) => CloseSent(b)'
                                   /\ CloseCall(b, b) \in Members(wire) => CloseCall(b, b) \in Members(wire')
  BY <1>1, CloseStays DEF a
<1>9. PendingInv'
  BY <1>1, <1>4, <1>8, InvParts DEF PendingInv
<1>10. ConnectionOwns'
  BY <1>1, <1>4, InvParts DEF ConnectionOwns
<1>11. AccountedFor'
  BY <1>1, <1>4, <1>8, InvParts, AccountedAgain, AccountedPrimed
<1> QED
  BY <1>6, <1>7, <1>9, <1>10, <1>11 DEF Inv

LEMMA ConnectionClosedStep == ASSUME Inv, UnreadInv, ControlConnectionClosed PROVE Inv'
<1>1. /\ dispatcher' = "over" /\ wire' = <<>> /\ Released(owned) /\ owned' = {}
      /\ UNCHANGED <<answers, unread, mainVars, rendererVars, token, typed>>
  BY DEF ControlConnectionClosed
<1>2. owned \in SUBSET Terminal /\ owned' = owned \ owned
  BY <1>1, InvParts DEF TypeOK
<1>3. /\ attachment' \in [Terminal -> {"none", "Active", "Closed"}]
      /\ holder' \in [Session -> Terminal \union {None}]
      /\ owned' = {b \in Terminal \ unread' : attachment'[b] = "Active"}
      /\ \A s \in Session : holder'[s] # None => holder'[s] \in owned' /\ target[holder'[s]] = s
      /\ \A b \in Terminal : /\ attachment'[b] = "none" <=> attachment[b] = "none"
  BY <1>1, <1>2, ReleasedFacts
<1>4. wire' \in Seq(WireCall) /\ Members(wire') = {} /\ \A c : Once(wire', c)
  BY <1>1 DEF Members, Once
<1>5. \A i \in DOMAIN wire' : wire'[i] \in Call
  BY <1>4, WireItems
<1>6. TypeInv' /\ ShownInv'
  BY <1>1, <1>3, <1>4, <1>5, InvParts DEF TypeInv, TypeOK, ShownInv
<1>7. AttachInv'
  BY <1>1, <1>3, <1>4, InvParts DEF AttachInv, Before
<1>8. \A b \in Terminal \ unread : attachment'[b] # "Active"
  BY <1>1, <1>3
<1>9. PendingInv'
  <2>1. \A b \in Terminal : CloseCall(b, b) \in pending => b \notin unread
    BY InvParts DEF PendingInv, UnreadInv, Refused
  <2> QED
    BY <1>1, <1>8, <2>1, InvParts DEF PendingInv
<1>10. ConnectionOwns'
  <2>1. ("over" = "ready" \/ client \in {"awaiting-hello", "ready"}) => token
    BY InvParts DEF ConnectionOwns
  <2> QED
    BY <1>1, <1>3, <2>1 DEF ConnectionOwns
<1>11. AccountedFor'
  BY <1>1, <1>8, InvParts, AccountedPrimed DEF AccountedFor
<1> QED
  BY <1>6, <1>7, <1>9, <1>10, <1>11 DEF Inv

-----------------------------------------------------------------------------
(* The invariant, and what it shows.                                        *)

LEMMA InvInit == Init => Inv
<1> SUFFICES ASSUME Init PROVE Inv
  OBVIOUS
<1> USE DEF Init
<1>1. target \in [Terminal -> Session]
  BY DesktopBounds
<1>2. TypeInv
  BY <1>1, DesktopBounds DEF TypeInv, TypeOK, Step
<1>3. Members(wire) = {} /\ Members(answers) = {}
  BY MembersOfEmpty
<1>4. AttachInv
  BY <1>3 DEF AttachInv, Once, Before
<1>5. PendingInv /\ ShownInv /\ ConnectionOwns /\ AccountedFor
  BY DEF PendingInv, ShownInv, ConnectionOwns, AccountedFor
<1> QED
  BY <1>2, <1>4, <1>5 DEF Inv

LEMMA InvNext == Inv /\ UnreadInv /\ [Next]_vars => Inv'
<1> SUFFICES ASSUME Inv, UnreadInv, [Next]_vars PROVE Inv'
  OBVIOUS
<1>1. CASE ClientSteps
  BY <1>1, HandshakeStep, DispatchStep, TimeoutStep, RejectStep, OnPortStep, RenewStep
     DEF ClientSteps, Handshake
<1>2. CASE DaemonSteps
  <2>1. \A versions \in Offered, sameProfiles \in BOOLEAN : Negotiated(versions, sameProfiles) \in BOOLEAN
    BY DEF Negotiated
  <2> QED
    BY <1>2, <2>1, OnHelloStep, OnAuthStep, ExecuteAttachStep, AttachUnreadStep, ExecuteAcquireStep,
       ExecuteRenewStep, ExecuteCloseStep, ExecuteInputStep, ConnectionClosedStep, ExpireStep
       DEF DaemonSteps, Serve
<1>3. CASE RendererSteps
  BY <1>3, AcquireControlStep, ShowingStep, AttachTerminalStep, CloseTerminalStep, CloseReturnsStep,
     OpenStreamStep, StreamFailsStep, StreamEndsStep, RestoreStep, SnapshotRejectedStep, TypeInputStep
     DEF RendererSteps
<1>4. CASE WindowClosed \/ ConnectionLost
  BY <1>4, WindowClosedStep, ConnectionLostStep
<1>5. CASE UNCHANGED vars
  <2>1. UNCHANGED <<dispatcher, owned, attachment, holder, unread, wire, answers, client, pending, binding, mapped,
                    held, shown, step, target, closes, active, lease, port, granted, visible, events,
                    token, typed>>
    BY <1>5
  <2>2. TypeInv'
    BY <2>1 DEF Inv, TypeInv, TypeOK
  <2>3. AttachInv' /\ PendingInv'
    BY <2>1 DEF Inv, AttachInv, PendingInv, Before, Members, Once
  <2>4. ShownInv' /\ ConnectionOwns' /\ AccountedFor'
    BY <2>1 DEF Inv, ShownInv, ConnectionOwns, AccountedFor
  <2> QED
    BY <2>2, <2>3, <2>4 DEF Inv
<1> QED
  BY <1>1, <1>2, <1>3, <1>4, <1>5 DEF Next

-----------------------------------------------------------------------------
(* Where a terminal goes, and what is sent and answered: UnreadInv.         *)

\* A terminal leaves "attaching" for where a refusal puts it, unless its Attach was answered,
\* and leaves "live" only closed.
StepGoes(f) ==
  \/ step'[f] = step[f]
  \/ step[f] \notin Refused \union {"live", "closed"}
  \/ step[f] = "live" /\ step'[f] = "closed"
  \/ step[f] = "attaching" /\ step'[f] \in Refused
  \/ step[f] = "attaching" /\ [call |-> AttachCall(f), ok |-> TRUE] \in Members(answers)

LEMMA SettleGoes ==
  ASSUME Inv, NEW c \in pending, NEW out, Settle(c, out), NEW f \in Terminal,
         out = "ok" /\ c.kind = "Attach" => [call |-> c, ok |-> TRUE] \in Members(answers)
  PROVE  StepGoes(f)
<1>1. /\ c \in WireCall
      /\ c.kind = "Attach" => c = AttachCall(c.att) /\ c.att \in Terminal
      /\ c.kind = "Close" => c = CloseCall(c.att, c.by) /\ c.att \in Terminal
  BY InvParts, KindFacts
<1>2. CASE c.kind = "Attach"
  <2>1. step[c.att] = "attaching" /\ step' = [step EXCEPT ![c.att] = AttachOutcome(out)]
    BY <1>1, <1>2, InvParts DEF PendingInv, Settle
  <2>2. out # "ok" => AttachOutcome(out) \in Refused
    BY DEF AttachOutcome, Refused
  <2>3. out = "ok" => [call |-> AttachCall(c.att), ok |-> TRUE] \in Members(answers)
    BY <1>1, <1>2
  <2> QED
    BY <2>1, <2>2, <2>3, InvParts DEF StepGoes
<1>3. CASE c.kind = "Close" /\ c.by = c.att
  <2>1. step[c.att] = "abandoning" /\ step' = [step EXCEPT ![c.att] = "failed"]
    BY <1>1, <1>3, InvParts DEF PendingInv, Settle
  <2> QED
    BY <2>1, InvParts DEF StepGoes, Refused
<1>4. CASE c.kind # "Attach" /\ ~(c.kind = "Close" /\ c.by = c.att)
  BY <1>4 DEF Settle, StepGoes
<1> QED
  BY <1>2, <1>3, <1>4

LEMMA StepsGo == ASSUME Inv, [Next]_vars, NEW f \in Terminal PROVE StepGoes(f)
<1>1. CASE UNCHANGED step
  BY <1>1 DEF StepGoes
<1>2. CASE Dispatch
  <2> DEFINE a == Head(answers)
  <2>1. a \in Answered /\ a \in Members(answers)
    BY <1>2, InvParts, MembersOfTail DEF Dispatch
  <2>2. CASE a.call \in pending
    <3>1. a = [call |-> a.call, ok |-> a.ok] /\ a.ok \in BOOLEAN
      BY <2>1 DEF Answered
    <3>2. Settle(a.call, IF a.ok THEN "ok" ELSE "error")
      BY <1>2, <2>2 DEF Dispatch
    <3>3. (IF a.ok THEN "ok" ELSE "error") = "ok" => [call |-> a.call, ok |-> TRUE] \in Members(answers)
      BY <2>1, <3>1
    <3> HIDE DEF a
    <3> QED
      BY <2>2, <3>2, <3>3, SettleGoes
  <2>3. CASE a.call \notin pending
    BY <1>1, <1>2, <2>3 DEF Dispatch
  <2> QED
    BY <2>2, <2>3
<1>3. CASE \E c \in pending : Timeout(c) \/ Reject(c)
  <2>1. PICK c \in pending : Settle(c, "late") \/ Settle(c, "lost")
    BY <1>3 DEF Timeout, Reject
  <2>2. ASSUME NEW out, Settle(c, out), out # "ok" PROVE StepGoes(f)
    BY <2>2, SettleGoes
  <2> QED
    BY <2>1, <2>2
<1>4. CASE RendererSteps
  <2>1. CASE \E g \in Terminal, s \in Session : AttachTerminal(g, s)
    <3>1. PICK g \in Terminal, s \in Session : AttachTerminal(g, s)
      BY <2>1
    <3>2. active # None => active \in Terminal /\ step[active] = "live"
      BY InvParts DEF ShownInv, TypeOK
    <3> QED
      BY <3>1, <3>2, InvParts DEF AttachTerminal, StepGoes, Refused
  <2>2. CASE \E g \in Terminal : CloseTerminal(g) \/ CloseReturns(g) \/ OpenStream(g) \/ StreamFails(g)
                                \/ Restore(g) \/ SnapshotRejected(g)
    BY <2>2, InvParts DEF CloseTerminal, CloseReturns, OpenStream, StreamFails, Restore,
                          SnapshotRejected, StepGoes, Refused
  <2>3. CASE \/ AcquireControl \/ Toggle
             \/ \E g \in Terminal : StreamEnds(g) \/ ApplyLease(g) \/ TypeInput(g)
    BY <1>1, <2>3 DEF AcquireControl, Toggle, StreamEnds, ApplyLease, TypeInput
  <2> QED
    BY <1>4, <2>1, <2>2, <2>3 DEF RendererSteps
<1>5. CASE DaemonSteps
  BY <1>1, <1>5 DEF DaemonSteps, Serve, OnHello, OnAuth, ExecuteAttach, AttachUnread, ExecuteAcquire,
                    ExecuteRenew, ExecuteClose, ExecuteInput, ControlConnectionClosed, Expire
<1>6. CASE \/ ClientHello \/ OnChallenge \/ OnDaemonHello \/ ReadTimeout
           \/ \E a \in Terminal : OnPort(a) \/ Renew(a)
  BY <1>1, <1>6 DEF ClientHello, OnChallenge, OnDaemonHello, ReadTimeout, OnPort, Renew
<1>7. CASE WindowClosed \/ ConnectionLost \/ UNCHANGED vars
  BY <1>1, <1>7 DEF WindowClosed, ConnectionLost
<1> QED
  BY <1>2, <1>3, <1>4, <1>5, <1>6, <1>7 DEF Next, ClientSteps

\* What may be new on the wire.
Sendable(m) ==
  \/ m.kind \notin {"Attach", "Acquire"}
  \/ m.kind = "Attach" /\ step'[m.att] = "attaching"
  \/ m.kind = "Acquire" /\ step'[m.att] = "live"
WireGrows == \A m \in Members(wire') \ Members(wire) : Sendable(m)

LEMMA SentAdds ==
  ASSUME Inv, NEW q \in Seq(WireCall), wire' = Sent(q), \A m \in Members(q) : Sendable(m)
  PROVE  WireGrows
<1>1. CASE client = "ready"
  <2>1. Members(wire') = Members(wire) \union Members(q)
    BY <1>1, InvParts, MembersOfConcat DEF Sent
  <2> QED
    BY <2>1 DEF WireGrows
<1>2. CASE client # "ready"
  BY <1>2 DEF Sent, WireGrows
<1> QED
  BY <1>1, <1>2

LEMMA SentOneAdds ==
  ASSUME Inv, NEW c \in WireCall, wire' = Sent(<<c>>), Sendable(c) PROVE WireGrows
<1>1. <<c>> \in Seq(WireCall) /\ Members(<<c>>) = {c}
  BY MembersOfOne
<1>2. \A m \in Members(<<c>>) : Sendable(m)
  BY <1>1
<1> QED
  BY <1>1, <1>2, SentAdds

LEMMA CloseAdds ==
  ASSUME Inv, NEW S \in SUBSET Terminal, BindingClose(S) PROVE WireGrows
<1> DEFINE open == {a \in S : binding[a] = "open"}
<1>1. PICK calls \in Closings(open) : Send(calls)
  BY DEF BindingClose
<1>2. Cardinality(open) \in Nat
  <2>1. IsFiniteSet(Terminal)
    BY FS_Interval, DesktopBounds DEF Terminal
  <2> QED
    BY <2>1, FS_Subset, FS_CardinalityType
<1>3. calls \in [1 .. Cardinality(open) -> {CloseCall(a, None) : a \in open}]
  BY DEF Closings
<1>4. calls \in Seq(WireCall)
  <2>1. calls \in [1 .. Cardinality(open) -> WireCall]
    BY <1>3, CallFacts
  <2> QED
    BY <1>2, <2>1, FunctionIsSeq
<1>5. \A m \in Members(calls) : Sendable(m)
  <2>1. \A i \in DOMAIN calls : \E a \in open : calls[i] = CloseCall(a, None)
    BY <1>3
  <2>2. \A m \in Members(calls) : \E a \in open : m = CloseCall(a, None)
    BY <2>1, Zenon DEF Members
  <2> QED
    BY <2>2 DEF Sendable, CloseCall, Req
<1> QED
  BY <1>1, <1>4, <1>5, SentAdds DEF Send

LEMMA SettleAdds ==
  ASSUME Inv, NEW c \in pending, NEW out, Settle(c, out) PROVE WireGrows
<1>1. CASE UNCHANGED wire
  BY <1>1 DEF WireGrows
<1>2. CASE c.kind = "Renew" /\ wire' = Sent(<<CloseCall(c.att, None)>>)
  <2>1. c.att \in Terminal
    BY <1>2, InvParts, KindFacts
  <2>2. CloseCall(c.att, None) \in WireCall /\ Sendable(CloseCall(c.att, None))
    BY <2>1, CallFacts DEF Sendable, CloseCall, Req
  <2> QED
    BY <1>2, <2>2, SentOneAdds
<1> QED
  BY <1>1, <1>2 DEF Settle

LEMMA WireGrowsNext == ASSUME Inv, [Next]_vars PROVE WireGrows
<1>1. CASE UNCHANGED wire
  BY <1>1 DEF WireGrows
<1>2. ASSUME wire # <<>>, wire' = Tail(wire) PROVE WireGrows
  BY <1>2, InvParts, MembersOfTail DEF WireGrows
<1>3. ASSUME NEW c \in {Hello, Auth}, wire' = Append(wire, c) PROVE WireGrows
  <2>1. c \in WireCall /\ Sendable(c)
    BY CallFacts DEF Sendable, Hello, Auth, Req
  <2>2. Members(wire') = Members(wire) \union {c}
    BY <1>3, <2>1, InvParts, MembersOfAppend
  <2> QED
    BY <2>1, <2>2 DEF WireGrows
<1>4. CASE ClientSteps
  <2>1. CASE ClientHello \/ OnChallenge \/ OnDaemonHello \/ ReadTimeout
    BY <1>1, <1>3, <2>1 DEF ClientHello, OnChallenge, OnDaemonHello, ReadTimeout
  <2>2. CASE Dispatch \/ \E c \in pending : Timeout(c) \/ Reject(c)
    BY <1>1, <2>2, SettleAdds DEF Dispatch, Timeout, Reject
  <2>3. CASE \E a \in Terminal : OnPort(a)
    <3>1. PICK a \in Terminal : OnPort(a)
      BY <2>3
    <3>2. BindingClose({a}) \/ UNCHANGED wire
      BY <3>1 DEF OnPort
    <3>3. {a} \in SUBSET Terminal
      OBVIOUS
    <3> QED
      BY <1>1, <3>2, <3>3, CloseAdds
  <2>4. CASE \E a \in Terminal : Renew(a)
    <3>1. PICK a \in Terminal : Renew(a)
      BY <2>4
    <3>2. RenewCall(a) \in WireCall /\ Sendable(RenewCall(a))
      BY CallFacts DEF Sendable, RenewCall, Req
    <3> QED
      BY <3>1, <3>2, SentOneAdds DEF Renew, Send
  <2> QED
    BY <1>4, <2>1, <2>2, <2>3, <2>4 DEF ClientSteps
<1>5. CASE DaemonSteps
  <2>1. CASE ControlConnectionClosed
    <3>1. Members(wire') = {}
      BY <2>1, MembersOfEmpty DEF ControlConnectionClosed
    <3> QED
      BY <3>1 DEF WireGrows
  <2>2. CASE \E s \in Session : Expire(s)
    BY <1>1, <2>2 DEF Expire
  <2>3. CASE Serve \/ OnAuth \/ \E versions \in Offered, sameProfiles \in BOOLEAN :
                                  OnHello(Negotiated(versions, sameProfiles))
    BY <1>2, <2>3 DEF Serve, OnAuth, OnHello, Serving, ExecuteAttach, AttachUnread, ExecuteAcquire,
                      ExecuteRenew, ExecuteClose, ExecuteInput
  <2> QED
    BY <1>5, <2>1, <2>2, <2>3 DEF DaemonSteps
<1>6. CASE RendererSteps
  <2>1. CASE AcquireControl
    <3>1. active \in Terminal /\ step'[active] = "live"
      BY <2>1, InvParts DEF AcquireControl, ShownInv, TypeOK
    <3>2. AcquireCall(active) \in WireCall /\ Sendable(AcquireCall(active))
      BY <3>1, CallFacts DEF Sendable, AcquireCall, Req
    <3> QED
      BY <2>1, <3>2, SentOneAdds DEF AcquireControl, Send
  <2>2. ASSUME NEW f \in Terminal, step' = [step EXCEPT ![f] = "attaching"], Send(<<AttachCall(f)>>)
        PROVE  WireGrows
    <3>1. AttachCall(f) \in WireCall /\ Sendable(AttachCall(f))
      BY <2>2, CallFacts, InvParts DEF Sendable, AttachCall, Req
    <3> QED
      BY <2>2, <3>1, SentOneAdds DEF Send
  <2>3. CASE \E f \in Terminal, s \in Session : AttachTerminal(f, s)
    BY <1>1, <2>2, <2>3 DEF AttachTerminal
  <2>4. CASE \E f \in Terminal : CloseReturns(f)
    BY <2>2, <2>4 DEF CloseReturns
  <2>5. CASE \E f \in Terminal : CloseTerminal(f)
    <3>1. PICK f \in Terminal : CloseTerminal(f)
      BY <2>5
    <3>2. closes[f] \in Terminal
      BY <3>1, InvParts DEF CloseTerminal, ShownInv
    <3>3. {closes[f]} \in SUBSET Terminal /\ CloseCall(closes[f], f) \in WireCall
          /\ Sendable(CloseCall(closes[f], f))
      BY <3>2, CallFacts DEF Sendable, CloseCall, Req
    <3>4. BindingClose({closes[f]}) \/ Send(<<CloseCall(closes[f], f)>>)
      BY <3>1 DEF CloseTerminal
    <3> QED
      BY <3>3, <3>4, CloseAdds, SentOneAdds DEF Send
  <2>6. CASE \E f \in Terminal : StreamFails(f)
    <3>1. PICK f \in Terminal : StreamFails(f)
      BY <2>6
    <3>2. CloseCall(f, f) \in WireCall /\ Sendable(CloseCall(f, f))
      BY CallFacts DEF Sendable, CloseCall, Req
    <3> QED
      BY <3>1, <3>2, SentOneAdds DEF StreamFails, Send
  <2>7. CASE \E f \in Terminal : StreamEnds(f)
    <3>1. PICK f \in Terminal : StreamEnds(f)
      BY <2>7
    <3>2. {f} \in SUBSET Terminal /\ BindingClose({f})
      BY <3>1 DEF StreamEnds
    <3> QED
      BY <3>2, CloseAdds
  <2>8. CASE \E f \in Terminal : TypeInput(f)
    <3>1. PICK f \in Terminal : TypeInput(f)
      BY <2>8
    <3>2. lease[f] \in Terminal
      BY <3>1, InvParts DEF TypeInput, TypeOK
    <3>3. InputCall(f, lease[f]) \in WireCall /\ Sendable(InputCall(f, lease[f]))
      BY <3>2, CallFacts DEF Sendable, InputCall, Req
    <3> QED
      BY <3>1, <3>3, SentOneAdds DEF TypeInput
  <2>9. CASE Toggle \/ \E f \in Terminal : OpenStream(f) \/ Restore(f) \/ SnapshotRejected(f) \/ ApplyLease(f)
    BY <1>1, <2>9 DEF Toggle, OpenStream, Restore, SnapshotRejected, ApplyLease
  <2> QED
    BY <1>6, <2>1, <2>3, <2>4, <2>5, <2>6, <2>7, <2>8, <2>9 DEF RendererSteps
<1>7. CASE WindowClosed
  <2>1. mapped \in SUBSET Terminal
    BY InvParts DEF TypeOK
  <2> QED
    BY <1>7, <2>1, CloseAdds DEF WindowClosed
<1>8. CASE ConnectionLost \/ UNCHANGED vars
  BY <1>1, <1>8 DEF ConnectionLost
<1> QED
  BY <1>4, <1>5, <1>6, <1>7, <1>8 DEF Next

\* An Attach is answered when it is taken from the wire, once and one way.
AnswersGrow(f) ==
  LET yes == [call |-> AttachCall(f), ok |-> TRUE]
  IN  /\ yes \in Members(answers') => \/ yes \in Members(answers)
                                      \/ AttachCall(f) \in Members(wire) /\ f \notin unread'
      /\ f \in unread' => \/ f \in unread
                          \/ AttachCall(f) \in Members(wire) /\ yes \notin Members(answers')

LEMMA AnswersKept ==
  ASSUME Inv, NEW f \in Terminal, UNCHANGED unread,
         \/ UNCHANGED answers
         \/ answers # <<>> /\ answers' = Tail(answers)
         \/ \E c \in WireCall, ok \in BOOLEAN :
              c # AttachCall(f) /\ answers' = Append(answers, [call |-> c, ok |-> ok])
  PROVE  AnswersGrow(f)
<1> DEFINE yes == [call |-> AttachCall(f), ok |-> TRUE]
<1>1. yes \in Members(answers') => yes \in Members(answers)
  <2>1. CASE answers # <<>> /\ answers' = Tail(answers)
    BY <2>1, InvParts, MembersOfTail
  <2>2. ASSUME NEW c \in WireCall, NEW ok \in BOOLEAN, c # AttachCall(f),
               answers' = Append(answers, [call |-> c, ok |-> ok])
        PROVE  yes \in Members(answers') => yes \in Members(answers)
    <3>1. Members(answers') = Members(answers) \union {[call |-> c, ok |-> ok]}
      BY <2>2, AnswerAdds DEF Answer
    <3> QED
      BY <2>2, <3>1
  <2> QED
    BY <2>1, <2>2
<1> QED
  BY <1>1 DEF AnswersGrow

LEMMA AnswersGrowNext == ASSUME Inv, [Next]_vars, NEW f \in Terminal PROVE AnswersGrow(f)
<1>1. CASE UNCHANGED <<unread, answers>>
  BY <1>1, AnswersKept
<1>2. CASE ExecuteAttach \/ AttachUnread
  <2>1. /\ wire # <<>> /\ wire' = Tail(wire) /\ Head(wire).kind = "Attach"
    BY <1>2 DEF ExecuteAttach, AttachUnread, Serving
  <2>2. Head(wire) \in WireCall /\ Head(wire) \in Members(wire)
    BY <2>1, TakenFacts
  <2>3. PICK g \in Terminal : Head(wire) = AttachCall(g) /\ g = Head(wire).att
    BY <2>1, <2>2, KindFacts
  <2>4. attachment[g] = "none" /\ g \notin unread
        /\ \A ok \in BOOLEAN : [call |-> AttachCall(g), ok |-> ok] \notin Members(answers)
    BY <2>2, <2>3, InvParts DEF AttachInv
  <2>5. AttachCall(f) = AttachCall(g) => f = g
    BY DEF AttachCall, Req
  <2>6. PICK ok \in BOOLEAN : /\ Answer(AttachCall(g), ok)
                              /\ unread' = IF ok THEN unread ELSE unread \union {g}
    BY <1>2, <2>3 DEF ExecuteAttach, AttachUnread
  <2>7. Members(answers') = Members(answers) \union {[call |-> AttachCall(g), ok |-> ok]}
    BY <2>2, <2>3, <2>6, AnswerAdds
  <2> QED
    BY <2>2, <2>3, <2>4, <2>5, <2>6, <2>7 DEF AnswersGrow
<1>3. CASE ExecuteAcquire \/ ExecuteRenew \/ ExecuteClose
  <2>1. wire # <<>> /\ wire' = Tail(wire) /\ Head(wire).kind # "Attach" /\ UNCHANGED unread
    BY <1>3 DEF ExecuteAcquire, ExecuteRenew, ExecuteClose, Serving
  <2>2. Head(wire) \in WireCall /\ Head(wire) # AttachCall(f)
    BY <2>1, TakenFacts, KindFacts
  <2>3. \E ok \in BOOLEAN : answers' = Append(answers, [call |-> Head(wire), ok |-> ok])
    BY <1>3 DEF ExecuteAcquire, ExecuteRenew, ExecuteClose, Answer
  <2> QED
    BY <2>1, <2>2, <2>3, AnswersKept
<1>4. CASE OnAuth \/ \E versions \in Offered, sameProfiles \in BOOLEAN :
                       OnHello(Negotiated(versions, sameProfiles))
  <2>1. /\ Hello \in WireCall /\ Auth \in WireCall
        /\ Hello # AttachCall(f) /\ Auth # AttachCall(f) /\ UNCHANGED unread
    BY <1>4, CallFacts DEF OnAuth, OnHello, Hello, Auth, AttachCall, Req
  <2>2. \/ UNCHANGED answers
        \/ \E c \in {Hello, Auth}, ok \in BOOLEAN : answers' = Append(answers, [call |-> c, ok |-> ok])
    BY <1>4 DEF OnAuth, OnHello, Negotiated
  <2> QED
    BY <2>1, <2>2, AnswersKept
<1>5. CASE ExecuteInput \/ ControlConnectionClosed \/ \E s \in Session : Expire(s)
  BY <1>1, <1>5 DEF ExecuteInput, ControlConnectionClosed, Expire
<1>6. CASE Dispatch
  BY <1>6, AnswersKept DEF Dispatch, Settle
<1>7. CASE ClientSteps
  <2>1. CASE OnChallenge \/ OnDaemonHello
    BY <2>1, AnswersKept DEF OnChallenge, OnDaemonHello
  <2>2. CASE \/ ClientHello \/ ReadTimeout \/ \E a \in Terminal : OnPort(a) \/ Renew(a)
             \/ \E c \in pending : Timeout(c) \/ Reject(c)
    BY <1>1, <2>2 DEF ClientHello, ReadTimeout, OnPort, Renew, Timeout, Reject, Settle
  <2> QED
    BY <1>6, <1>7, <2>1, <2>2 DEF ClientSteps
<1>8. CASE RendererSteps
  BY <1>1, <1>8 DEF RendererSteps, AttachTerminal, CloseTerminal, CloseReturns, OpenStream,
                    StreamFails, StreamEnds, Restore, SnapshotRejected, AcquireControl, ApplyLease,
                    Toggle, TypeInput
<1>9. CASE WindowClosed \/ ConnectionLost \/ UNCHANGED vars
  BY <1>1, <1>9 DEF WindowClosed, ConnectionLost
<1> QED
  BY <1>2, <1>3, <1>4, <1>5, <1>7, <1>8, <1>9 DEF Next, DaemonSteps, Serve

LEMMA UnreadInit == Init => UnreadInv
BY MembersOfEmpty DEF Init, UnreadInv

LEMMA UnreadNext == Inv /\ UnreadInv /\ [Next]_vars => UnreadInv'
<1> SUFFICES ASSUME Inv, UnreadInv, [Next]_vars, NEW f \in Terminal
             PROVE  /\ f \in unread' \/ AttachCall(f) \in Members(wire') => step'[f] \in Refused
                    /\ f \in unread' => [call |-> AttachCall(f), ok |-> TRUE] \notin Members(answers')
                    /\ AcquireCall(f) \in Members(wire') => step'[f] \in {"live", "closed"}
  BY DEF UnreadInv
<1> DEFINE yes == [call |-> AttachCall(f), ok |-> TRUE]
<1>1. /\ f \in unread \/ AttachCall(f) \in Members(wire) => step[f] \in Refused
      /\ f \in unread => yes \notin Members(answers)
      /\ AcquireCall(f) \in Members(wire) => step[f] \in {"live", "closed"}
  BY DEF UnreadInv
<1>2. /\ AttachCall(f) \in Members(wire) => attachment[f] = "none"
      /\ yes \in Members(answers) => attachment[f] # "none"
      /\ f \in unread => attachment[f] # "none"
  BY InvParts DEF AttachInv
<1>3. StepGoes(f) /\ WireGrows /\ AnswersGrow(f)
  BY StepsGo, WireGrowsNext, AnswersGrowNext
<1>4. /\ AttachCall(f) \in Members(wire') => AttachCall(f) \in Members(wire) \/ step'[f] = "attaching"
      /\ AcquireCall(f) \in Members(wire') => AcquireCall(f) \in Members(wire) \/ step'[f] = "live"
  BY <1>3 DEF WireGrows, Sendable, AttachCall, AcquireCall, Req
<1>5. f \in unread' => f \in unread \/ AttachCall(f) \in Members(wire)
  BY <1>3 DEF AnswersGrow
<1>6. f \in unread \/ AttachCall(f) \in Members(wire) => step'[f] \in Refused
  BY <1>1, <1>2, <1>3 DEF StepGoes, Refused
<1>7. AcquireCall(f) \in Members(wire) => step'[f] \in {"live", "closed"}
  BY <1>1, <1>3 DEF StepGoes, Refused
<1>8. f \in unread' => yes \notin Members(answers')
  BY <1>1, <1>2, <1>3 DEF AnswersGrow
<1> QED
  BY <1>4, <1>5, <1>6, <1>7, <1>8 DEF Refused

\* The invariant that the theorems below rest on holds in every reachable state, whatever the
\* desktop, the connection and the Daemon's side of it do.
THEOREM InvHolds == Spec => [](Inv /\ UnreadInv)
<1>1. Init => Inv /\ UnreadInv
  BY InvInit, UnreadInit
<1>2. Inv /\ UnreadInv /\ [Next]_vars => Inv' /\ UnreadInv'
  BY InvNext, UnreadNext
<1> QED
  BY <1>1, <1>2, PTL DEF Spec

\* In every reachable state of the desktop and of the Daemon's side of its connection, every
\* variable has a value of its kind.
THEOREM DesktopIsTyped == Spec => []TypeOK
<1>1. Inv => TypeOK
  BY DEF Inv, TypeInv
<1> QED
  BY <1>1, InvHolds, PTL

\* Whatever the order in which terminals are opened, closed and attached, commands answered late
\* or not at all, streams lost and leases expired: the connection owns every Active Attachment
\* whose Snapshot was read, and the desktop uses it, opens it or closes it; one that was not
\* read has no owner and never holds control.
THEOREM AttachmentsAreOwned == Spec => []AttachmentsOwned
<1>1. Inv => AttachmentsOwned
  BY DEF Inv, AttachmentsOwned
<1> QED
  BY <1>1, InvHolds, PTL

\* Nothing but an Attach makes an Attachment Active, and it is executed once.
LEMMA ClosedStays ==
  ASSUME Inv, [Next]_vars, NEW f \in Terminal
  PROVE  /\ attachment[f] = "Closed" => attachment'[f] = "Closed"
         /\ f \in unread => f \in unread'
<1>0. attachment \in [Terminal -> {"none", "Active", "Closed"}] /\ wire \in Seq(WireCall)
  BY DEF Inv, TypeInv, TypeOK
<1>1. CASE UNCHANGED <<attachment, unread>>
  BY <1>1
<1>2. CASE ExecuteAttach \/ AttachUnread
  <2>1. wire # <<>> /\ wire' = Tail(wire) /\ Head(wire).kind = "Attach"
    BY <1>2 DEF ExecuteAttach, AttachUnread, Serving
  <2>2. Head(wire) \in WireCall /\ Head(wire) \in Members(wire)
    BY <2>1, TakenFacts
  <2>3. Head(wire).att \in Terminal /\ Head(wire) = AttachCall(Head(wire).att)
    BY <2>1, <2>2, KindFacts
  <2>4. attachment[Head(wire).att] = "none"
    BY <2>2, <2>3 DEF Inv, AttachInv
  <2>5. attachment' = [attachment EXCEPT ![Head(wire).att] = "Active"] /\ unread \subseteq unread'
    BY <1>2 DEF ExecuteAttach, AttachUnread
  <2> QED
    BY <1>0, <2>4, <2>5
<1>3. CASE DaemonSteps
  <2>1. CASE ExecuteClose
    BY <2>1 DEF ExecuteClose, Released
  <2>2. CASE ControlConnectionClosed
    BY <2>2 DEF ControlConnectionClosed, Released
  <2>3. ASSUME DaemonSteps, ~ExecuteClose, ~ControlConnectionClosed, ~ExecuteAttach, ~AttachUnread
        PROVE  UNCHANGED <<attachment, unread>>
    BY <2>3 DEF DaemonSteps, Serve, OnHello, OnAuth, ExecuteAcquire, ExecuteRenew, ExecuteInput, Expire
  <2> QED
    BY <1>1, <1>2, <1>3, <2>1, <2>2, <2>3
<1>4. CASE ClientSteps
  BY <1>1, <1>4 DEF ClientSteps, ClientHello, OnChallenge, OnDaemonHello, ReadTimeout, Dispatch,
                    Timeout, Reject, Settle, OnPort, Renew, daemonVars
<1>5. CASE RendererSteps
  BY <1>1, <1>5 DEF RendererSteps, AttachTerminal, CloseTerminal, CloseReturns, OpenStream,
                    StreamFails, StreamEnds, Restore, SnapshotRejected, AcquireControl, ApplyLease,
                    Toggle, TypeInput, daemonVars
<1>6. CASE WindowClosed \/ ConnectionLost \/ UNCHANGED vars
  BY <1>1, <1>6 DEF WindowClosed, ConnectionLost, vars, daemonVars
<1> QED
  BY <1>3, <1>4, <1>5, <1>6 DEF Next

\* An Attachment that was closed is never Active again, and one whose Snapshot could not be
\* read, which stays Active, is never its connection's: no Attach executed late, no answer
\* after its timer and no lost connection changes that, and neither ever holds control
\* (closeAttachment, AttachmentCommandDispatcher).
THEOREM ClosedForGood ==
  ASSUME NEW f \in Terminal
  PROVE  Spec => []( /\ attachment[f] = "Closed" =>
                          [](/\ attachment[f] = "Closed" /\ f \notin owned
                             /\ \A x \in Session : holder[x] # f)
                     /\ f \in unread =>
                          [](/\ f \in unread /\ f \notin owned
                             /\ \A x \in Session : holder[x] # f))
<1> DEFINE Free == f \notin owned /\ \A x \in Session : holder[x] # f
           IsClosed == attachment[f] = "Closed"
           IsUnread == f \in unread
<1>1. Inv /\ [Next]_vars => (IsClosed => IsClosed') /\ (IsUnread => IsUnread')
  BY ClosedStays
<1>2. ASSUME Inv, IsClosed \/ IsUnread PROVE Free
  <2>1. f \notin owned /\ f # None
    BY <1>2 DEF Inv, ConnectionOwns, Terminal, None
  <2> QED
    BY <2>1, <1>2 DEF Inv, ConnectionOwns
<1>3. Inv /\ (IsClosed \/ IsUnread) => Free
  BY <1>2
<1>4. Spec => [](/\ IsClosed => [](IsClosed /\ Free)
                 /\ IsUnread => [](IsUnread /\ Free))
  <2> HIDE DEF Free, IsClosed, IsUnread
  <2> QED
    BY <1>1, <1>3, InvHolds, PTL DEF Spec
<1>5. [](IsClosed /\ Free) => [](/\ attachment[f] = "Closed" /\ f \notin owned
                                 /\ \A x \in Session : holder[x] # f)
  BY PTL
<1> QED
  BY <1>4, PTL DEF Free

================================================================================
