----------------------------- MODULE SessionOutput -----------------------------
(***************************************************************************)
(* One reader of the output that OutputJournal keeps: a desktop terminal   *)
(* with its Attachment, the stream connection of Electron Main with its    *)
(* handshake and retries, the daemon's pump behind it, the bounded queue   *)
(* between Main and the renderer, and the surface that shows the bytes.    *)
(*                                                                         *)
(* Every step of the reader runs beside every step of the journal; a crash *)
(* of the Daemon ends the connection too.                                  *)
(*                                                                         *)
(* Left out: the control channel, except that its loss closes the          *)
(* Attachment; byte limits beside the frame limits; frames that arrive     *)
(* before anybody subscribed, since the subscription follows the connect   *)
(* without a turn of the event loop between; the acknowledgement's way     *)
(* back: a frame leaves Main's queue when the surface has applied it.      *)
(***************************************************************************)
EXTENDS OutputJournal

CONSTANTS
  QueueFrames,   \* attachmentQueueFrames, of a batch and of Main's queue
  MaxOpens,      \* bound: terminals opened
  MaxDrops       \* bound: connections lost while the Daemon lives

ASSUME ReaderAssumption ==
  QueueFrames \in Nat \ {0} /\ MaxOpens \in Nat /\ MaxDrops \in Nat

VARIABLES
  \* Daemon
  att,       \* the Attachment's status, "none" before the first
  conn,      \* nextSeq of the StreamConnection, 0 without one
  \* the socket
  wire,      \* frames written and not received
  \* Electron Main
  client,    \* "none", "opening", "handshake", "streaming", "waiting", "stuck", "closed"
  want,      \* nextSeq of the ReconnectingAttachmentStream
  port,      \* frames posted to the renderer and not acknowledged
  \* the renderer
  applied,   \* appliedStreamCursor.seq
  screen,    \* the chunks shown
  \* bounds
  opens, drops

readerVars == <<att, conn, wire, client, want, port, applied, screen, opens, drops>>
vars == <<journalVars, readerVars>>

Frame == [seq : Seqs, chunk : Chunks]

ReaderTypeOK ==
  /\ att \in {"none", "Active", "Closed"}
  /\ conn \in 0 .. MaxChunks + 1
  /\ wire \in Seq(Frame) /\ port \in Seq(Frame)
  /\ client \in {"none", "opening", "handshake", "streaming", "waiting", "stuck", "closed"}
  /\ want \in 1 .. MaxChunks + 1
  /\ applied \in Chunks /\ screen \in Seq(Chunks)
  /\ opens \in 0 .. MaxOpens /\ drops \in 0 .. MaxDrops

Init ==
  /\ JournalInit
  /\ att = "none" /\ conn = 0 /\ wire = <<>> /\ client = "none" /\ want = 1
  /\ port = <<>> /\ applied = 0 /\ screen = <<>> /\ opens = 0 /\ drops = 0

-----------------------------------------------------------------------------
(* Opening and closing.                                                     *)

\* Bug: the delta is asked for from the frame the Snapshot ends with.
BugDeltaFrom(covers) == covers

\* attachTerminal asks for the frames after the Snapshot.
DeltaFrom(covers) == covers + 1

\* attach inserts the Attachment and reads the Snapshot; the renderer restores it.
OpenTerminal ==
  /\ Serving /\ avail # "none"
  /\ client \in {"none", "closed"} /\ opens < MaxOpens
  /\ opens' = opens + 1 /\ att' = "Active" /\ client' = "opening"
  /\ want' = DeltaFrom(snapshot.covers)
  /\ applied' = snapshot.covers /\ screen' = snapshot.text
  /\ UNCHANGED <<journalVars, conn, wire, port, drops>>

\* AttachmentPortBinding.close; the daemon hears of it if it is there.
Close ==
  /\ client' = "closed" /\ conn' = 0 /\ wire' = <<>> /\ port' = <<>>
  /\ att' = IF mode = "up" THEN "Closed" ELSE att

\* The renderer has nothing to close before the opening is answered; one that never is
\* answered is given up in the same way.
CloseTerminal ==
  /\ client \notin {"none", "closed", "opening"}
  /\ Close
  /\ UNCHANGED <<journalVars, want, applied, screen, opens, drops>>

\* The router closes the Attachments of a control connection that ended.
ControlLost ==
  /\ Serving /\ att = "Active"
  /\ att' = "Closed"
  /\ UNCHANGED <<journalVars, conn, wire, client, want, port, applied, screen, opens, drops>>

-----------------------------------------------------------------------------
(* The stream connection.                                                   *)

\* The stream is reopened after the last frame received.
ResumeFrom == want

\* hello, proof and request: the server streams from the seq it is asked for.
Connect ==
  /\ Serving /\ client \in {"opening", "handshake"}
  /\ client' = "streaming" /\ conn' = ResumeFrom
  /\ UNCHANGED <<journalVars, att, wire, want, port, applied, screen, opens, drops>>

\* The end of a stream starts a timer, and so does a reconnection that is refused; a
\* refusal at the opening closes the Attachment.  But readJson waits for data only: an
\* end in the middle of the handshake is never noticed.
AfterLoss ==
  CASE client = "streaming" -> {"waiting"}
    [] client = "handshake" -> {"waiting", "stuck"}
    [] client = "opening"   -> {"closed", "stuck"}
    [] OTHER -> {client}

Disconnect == conn' = 0 /\ wire' = <<>> /\ client' \in AfterLoss

LoseConnection ==
  /\ client \in {"opening", "handshake", "streaming"} /\ drops < MaxDrops
  /\ drops' = drops + 1
  /\ Disconnect
  /\ att' = IF client' = "closed" THEN "Closed" ELSE att
  /\ UNCHANGED <<journalVars, want, port, applied, screen, opens>>

\* The timer of scheduleReconnect; nobody listens before startup is done.
Reconnect ==
  /\ mode = "up" /\ client = "waiting"
  /\ client' = "handshake"
  /\ UNCHANGED <<journalVars, att, conn, wire, want, port, applied, screen, opens, drops>>

Smaller(a, b) == IF a < b THEN a ELSE b

\* Bugs: the batch stops before the cursor; it reaches to the last row.
BugBatchBefore == Smaller(cursor, conn + QueueFrames) - 1
BugBatchEnd == Smaller(Cardinality({n \in Seqs : index[n] # 0}), conn + QueueFrames - 1)

\* readSessionDelta: up to a queue's worth of frames that the cursor covers.
BatchEnd == Smaller(cursor, conn + QueueFrames - 1)

Sendable == att = "Active" /\ \A n \in conn .. BatchEnd : Readable(n)

Frames(from, to) ==
  [i \in 1 .. to + 1 - from |-> [seq |-> from + i - 1, chunk |-> index[from + i - 1]]]

\* Bug: after a drain the frame that filled the socket is sent again.
BugAfterWrite(last) == IF last < BatchEnd THEN last ELSE last + 1

\* The pump goes on behind the last frame it wrote.
AfterWrite(last) == last + 1

\* #pump writes a batch, or the part of it that fills the socket.
Pump ==
  /\ Serving /\ conn # 0 /\ Sendable
  /\ \E last \in conn .. BatchEnd :
       /\ wire' = wire \o Frames(conn, last)
       /\ conn' = AfterWrite(last)
  /\ UNCHANGED <<journalVars, att, client, want, port, applied, screen, opens, drops>>

\* A batch that cannot be read closes the connection and sends none of it.
PumpFails ==
  /\ Serving /\ conn # 0 /\ ~Sendable
  /\ Disconnect
  /\ UNCHANGED <<journalVars, att, want, port, applied, screen, opens, drops>>

\* The cursor moves when the frame arrives.
Wanted(frame) == frame.seq + 1

Refused(frame) ==
  \/ Len(port) + 1 > QueueFrames
  \/ \E i \in DOMAIN port : port[i].seq = frame.seq

\* A frame arrives and is posted; a full queue or a repeated frame ends the terminal.
Receive ==
  /\ client = "streaming" /\ wire # <<>>
  /\ want' = Wanted(Head(wire))
  /\ IF Refused(Head(wire))
       THEN Close
       ELSE /\ port' = Append(port, Head(wire)) /\ wire' = Tail(wire)
            /\ UNCHANGED <<att, client, conn>>
  /\ UNCHANGED <<journalVars, applied, screen, opens, drops>>

-----------------------------------------------------------------------------
(* The renderer.                                                            *)

\* BaseTerminalSurface.feed refuses every frame but the next.
InSequence(frame) == frame.seq = applied + 1

\* The surface applies the frame, and Main is told; a refusal closes the port.
Apply ==
  /\ client # "closed" /\ port # <<>>
  /\ IF InSequence(Head(port))
       THEN /\ screen' = Append(screen, Head(port).chunk) /\ applied' = Head(port).seq
            /\ port' = Tail(port)
            /\ UNCHANGED <<att, client, conn, wire>>
       ELSE Close /\ UNCHANGED <<screen, applied>>
  /\ UNCHANGED <<journalVars, want, opens, drops>>

Crash ==
  /\ JournalCrash
  /\ Disconnect
  /\ UNCHANGED <<att, want, port, applied, screen, opens, drops>>

-----------------------------------------------------------------------------
StreamStep == Connect \/ Reconnect \/ Pump \/ PumpFails \/ Receive \/ Apply

ReaderStep ==
  \/ OpenTerminal \/ CloseTerminal \/ ControlLost \/ LoseConnection \/ StreamStep

Next ==
  \/ JournalStep /\ UNCHANGED readerVars
  \/ ReaderStep
  \/ Crash

Spec == Init /\ [][Next]_vars

\* The event loop goes on with what it has begun, launchd restarts a dead Daemon, which
\* may die in its startup again, and Main and the renderer take what arrives.  Nobody is
\* bound to produce output, to end, to open a terminal or to let a Daemon listen.
FairSpec ==
  /\ Spec
  /\ WF_vars(AppendStep /\ UNCHANGED readerVars)
  /\ WF_vars((SnapshotStep \/ StartupStep \/ RecordExit) /\ UNCHANGED readerVars)
  /\ WF_vars(Connect) /\ WF_vars(Reconnect)
  /\ WF_vars(Pump) /\ WF_vars(PumpFails) /\ WF_vars(Receive) /\ WF_vars(Apply)

-----------------------------------------------------------------------------
(* Safety.                                                                  *)

AllTypeOK == TypeOK /\ ReaderTypeOK

\* Frame n is the n-th chunk of the PTY wherever it is kept, over the buffer before the
\* Session, failed appends, crashes and adoption: nothing is skipped or repeated
\* (RT-ORDER-01, RT-ORDER-02).
StoredInOrder == \A n \in Seqs : file[n] \in {0, n} /\ index[n] \in {0, n}

\* Everything up to the cursor, and everything indexed, has its file, unless the
\* outside took it: no crash undoes a rename behind a row (RT-STO-02, RT-PERF-05).
FileBehindRow ==
  /\ \A n \in 1 .. cursor : index[n] # 0
  /\ \A n \in Seqs : index[n] # 0 => n \in bad \/ file[n] = index[n]

\* Whatever left the Daemon is covered by the cursor, and stays so (RT-STO-08,
\* RT-ORDER-09).
PublishedIsDurable ==
  /\ applied <= cursor /\ snapshot.covers <= cursor
  /\ \A i \in DOMAIN wire : wire[i].seq <= cursor
  /\ \A i \in DOMAIN port : port[i].seq <= cursor

\* The journal: chunk, file, row, cursor and what was published, through failing appends,
\* crashes between any two durable steps, adoption and damage (appendFrame, reconcileStore).
StoreSound == StoredInOrder /\ FileBehindRow /\ PublishedIsDurable

\* A Snapshot shows exactly the frames it says it covers and ends between two control
\* sequences (RT-ORDER-08).
SnapshotSound ==
  /\ snapshot.covers \notin Unsafe
  /\ snapshot.text = [i \in 1 .. snapshot.covers |-> i]

\* Snapshot, delta and reconnections join without a gap or a repetition: what was
\* applied, posted, sent and is still to be sent follow each other (RT-T-07).
Joined ==
  client # "closed" =>
    LET sent == port \o wire IN
      /\ \A i \in DOMAIN sent : sent[i].seq = applied + i
      /\ want = applied + Len(port) + 1
      /\ conn # 0 => conn = applied + Len(sent) + 1

\* The screen shows the PTY's output from its beginning, each chunk once.
ScreenExact == screen = [i \in 1 .. applied |-> i]

\* What a user sees is the output and nothing else, however it was cut into Snapshot,
\* deltas and reconnections (SnapshotCoordinator.create, the pump, the attachment stream).
ScreenFaithful == SnapshotSound /\ Joined /\ ScreenExact

-----------------------------------------------------------------------------
(* Liveness.                                                                *)

Following ==
  /\ client \in {"opening", "handshake", "streaming", "waiting"} /\ att = "Active"
  /\ mode = "up" /\ bad = {}

\* A reader that keeps its Attachment shows, again and again, all that is durable,
\* whatever connections it loses, unless one is lost in the middle of its handshake or
\* the Daemon does not come back.
ReaderCatchesUp == []<>(Following => applied = cursor)

Oversized == \E n \in heavy : n <= cursor

\* An ended Session gets its Snapshot, though a crash may end the first attempt and every
\* later Daemon at its socket, unless a frame cannot be read or none could hold it.
SnapshotComes == avail \in {"Exited", "Lost"} ~> snapshot.stored \/ bad # {} \/ Oversized

\* Durable output reaches who asks for it: the attached reader, and whoever comes later.
OutputArrives == ReaderCatchesUp /\ SnapshotComes

-----------------------------------------------------------------------------
(* Refinement.                                                              *)

Durable == INSTANCE DurableStream WITH
  stored <- [n \in 1 .. cursor |-> index[n]], views <- opens, seen <- screen

\* Files, rows, crashes, reconnections and queues make one durable stream: every step
\* is a step of DurableStream or a stutter.
ImplementsDurableStream == Durable!Spec

================================================================================
