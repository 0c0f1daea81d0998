----------------------------- MODULE OutputJournal -----------------------------
(***************************************************************************)
(* What becomes of the output of one Session: chunks of bytes read from    *)
(* its PTY are buffered until the Session row exists, then journalled one  *)
(* by one (temporary file, rename, directory sync, index row with cursor), *)
(* replayed into a Snapshot when the Session ends, and reconciled after a  *)
(* crash.                                                                  *)
(*                                                                         *)
(* A chunk is its number in the order the PTY produced it; `file', `index' *)
(* and the rest hold that number where the code holds bytes or their hash, *)
(* and 0 where it holds nothing.  The Daemon is one event loop: appending  *)
(* blocks it (`Serving'), only a crash falls between the durable steps.    *)
(*                                                                         *)
(* Left out: the stream's generation, always 1; byte sizes; damage to the  *)
(* Snapshot's own object; the file-then-row steps of a Snapshot, whose     *)
(* file nobody reads without its row; the branch of appendFrame for a seq  *)
(* already indexed, which this caller never takes.                         *)
(***************************************************************************)
EXTENDS Naturals, Sequences, FiniteSets

CONSTANTS
  MaxChunks,     \* bound: chunks a PTY produces
  PendingLimit,  \* terminal.pendingWriteBytes, in chunks
  Unsafe,        \* the frames after which the parser is inside a sequence
  Heavy,         \* the frames whose replay may exceed a limit of the Snapshot
  MaxDamage,     \* bound: chunk files damaged by the outside
  MaxCrashes     \* bound: Daemon crashes

ASSUME JournalAssumption ==
  /\ MaxChunks \in Nat /\ PendingLimit \in Nat /\ MaxDamage \in Nat /\ MaxCrashes \in Nat
  /\ Unsafe \subseteq Nat \ {0} /\ Heavy \subseteq Nat

VARIABLES
  \* the Agent behind the PTY
  process,    \* "none", "running", "gone"
  emitted,    \* chunks it has produced
  heavy,      \* those no Snapshot can hold
  \* SQLite
  avail,      \* sessions.availability, "none" without a row
  index,      \* chunks rows: seq -> chunk
  cursor,     \* stream_cursors.durable_seq
  snapshot,   \* the session_snapshots row with its document
  \* files in chunks/
  temp,       \* the temporary file
  loose,      \* the seq whose rename the directory may still lose, or 0
  file,       \* chunk-<seq>.bin
  bad,        \* the seqs whose file was damaged
  \* Daemon memory
  capture,    \* OutputCaptureState: "off", "pending" or "active"
  nextSeq,    \* OutputCaptureState.nextSeq
  buffer,     \* chunks read and not yet journalled, oldest first
  failed,     \* streamFailures has the stream
  mid,        \* how far the append of Head(buffer) has come
  task,       \* the Snapshot being built, or NoTask
  mode,       \* "up", "down", or a phase of startup
  adopted,    \* adoptedHere is not empty
  crashes

agentVars  == <<process, emitted, heavy>>
rowVars    == <<avail, index, cursor, snapshot>>
fileVars   == <<temp, loose, file, bad>>
memoryVars == <<capture, nextSeq, buffer, failed, mid, task>>
ctlVars    == <<mode, adopted, crashes>>
journalVars == <<agentVars, rowVars, fileVars, memoryVars, ctlVars>>

Seqs == 1 .. MaxChunks
Chunks == 0 .. MaxChunks

\* The Snapshot being built: replay goes up to upTo, text is replayed, safe is the
\* worker's last safe checkpoint.
NoTask == [upTo |-> 0, text |-> <<>>, safe |-> 0, on |-> FALSE]
Building(upTo, text, safe) == [upTo |-> upTo, text |-> text, safe |-> safe, on |-> TRUE]

\* coordinator.initial(): what a reader gets when no Snapshot is stored.
InitialSnapshot == [stored |-> FALSE, covers |-> 0, text |-> <<>>]

TypeOK ==
  /\ process \in {"none", "running", "gone"} /\ emitted \in Chunks /\ heavy \subseteq Heavy
  /\ avail \in {"none", "Alive", "Exited", "Lost"}
  /\ index \in [Seqs -> Chunks] /\ cursor \in Chunks
  /\ snapshot \in [stored : BOOLEAN, covers : Chunks, text : Seq(Chunks)]
  /\ temp \in Chunks /\ loose \in Chunks /\ file \in [Seqs -> Chunks] /\ bad \subseteq Seqs
  /\ capture \in {"off", "pending", "active"} /\ nextSeq \in 1 .. MaxChunks + 1
  /\ buffer \in Seq(Seqs) /\ failed \in BOOLEAN
  /\ mid \in {"idle", "temp", "final", "synced"}
  /\ task \in [upTo : Chunks, text : Seq(Chunks), safe : Chunks, on : BOOLEAN]
  /\ mode \in {"up", "down", "chunks", "sessions", "rebuild", "listen"}
  /\ adopted \in BOOLEAN /\ crashes \in 0 .. MaxCrashes

JournalInit ==
  /\ process = "none" /\ emitted = 0 /\ heavy = {}
  /\ avail = "none" /\ cursor = 0 /\ snapshot = InitialSnapshot
  /\ index = [n \in Seqs |-> 0] /\ file = [n \in Seqs |-> 0]
  /\ temp = 0 /\ loose = 0 /\ bad = {}
  /\ capture = "off" /\ nextSeq = 1 /\ buffer = <<>> /\ failed = FALSE
  /\ mid = "idle" /\ task = NoTask
  /\ mode = "up" /\ adopted = FALSE /\ crashes = 0

\* The event loop can run a handler or a callback: no append is under way, and no
\* chunk waits for one in the callback that brought it.
Serving == mode = "up" /\ mid = "idle" /\ (capture = "active" => buffer = <<>>)

-----------------------------------------------------------------------------
(* From the PTY to the buffer.                                              *)

\* #captureOutput, with the bootstrap just spawned.
StartCapture ==
  /\ Serving /\ process = "none" /\ avail = "none" /\ capture = "off"
  /\ process' = "running" /\ capture' = "pending" /\ nextSeq' = cursor + 1
  /\ UNCHANGED <<emitted, heavy, rowVars, fileVars, buffer, failed, mid, task, ctlVars>>

Overflow == capture = "pending" /\ Len(buffer) + 1 > PendingLimit

\* The listener of onOutput.  Nobody listens once the capture is off, and a failed
\* stream drops what comes; exceeding the limit fails it and signals the process.
ReadOutput ==
  /\ Serving /\ process = "running" /\ emitted < MaxChunks
  /\ emitted' = emitted + 1
  /\ heavy' \in {heavy, heavy \union ({emitted + 1} \intersect Heavy)}
  /\ IF capture = "off" \/ failed
       THEN UNCHANGED <<buffer, failed>>
       ELSE /\ failed' = Overflow
            /\ buffer' = IF Overflow THEN buffer ELSE Append(buffer, emitted + 1)
  /\ UNCHANGED <<process, rowVars, fileVars, capture, nextSeq, mid, task, ctlVars>>

\* Bug: the pending chunks are appended newest first.
BugFlushed(pending) == [i \in 1 .. Len(pending) |-> pending[Len(pending) + 1 - i]]

\* #activateOutputCapture hands the pending chunks to the journal in their order.
Flushed(pending) == pending

\* #finalizeRunning creates the Session row and the capture becomes active.
FinalizeRunning ==
  /\ Serving /\ capture = "pending"
  /\ avail' = "Alive" /\ capture' = "active"
  /\ buffer' = IF failed THEN <<>> ELSE Flushed(buffer)
  /\ UNCHANGED <<agentVars, index, cursor, snapshot, fileVars, nextSeq, failed, mid, task,
                 ctlVars>>

\* A launch that ends without a Session forgets its process.
AbortLaunch ==
  /\ Serving /\ capture = "pending"
  /\ process' = "gone" /\ capture' = "off" /\ buffer' = <<>>
  /\ UNCHANGED <<emitted, heavy, rowVars, fileVars, nextSeq, failed, mid, task, ctlVars>>

\* terminate() drops the output subscription before it signals.
Terminate ==
  /\ Serving /\ avail = "Alive" /\ capture = "active"
  /\ capture' = "off"
  /\ UNCHANGED <<agentVars, rowVars, fileVars, nextSeq, buffer, failed, mid, task, ctlVars>>

ProcessExits ==
  /\ process = "running"
  /\ process' = "gone"
  /\ UNCHANGED <<emitted, heavy, rowVars, fileVars, memoryVars, ctlVars>>

-----------------------------------------------------------------------------
(* ByteJournal.appendFrame, for Head(buffer) under nextSeq.                 *)

Appending == mode = "up" /\ capture = "active" /\ buffer # <<>>

\* The bytes are in the temporary file, and that file is synced.
WriteTemp ==
  /\ Appending /\ mid = "idle"
  /\ temp' = Head(buffer) /\ mid' = "temp"
  /\ UNCHANGED <<agentVars, rowVars, loose, file, bad, capture, nextSeq, buffer, failed,
                 task, ctlVars>>

RenameTemp ==
  /\ mid = "temp"
  /\ file' = [file EXCEPT ![nextSeq] = temp] /\ temp' = 0
  /\ loose' = nextSeq /\ mid' = "final"
  /\ UNCHANGED <<agentVars, rowVars, bad, capture, nextSeq, buffer, failed, task, ctlVars>>

SyncDirectory ==
  /\ mid = "final"
  /\ loose' = 0 /\ mid' = "synced"
  /\ UNCHANGED <<agentVars, rowVars, temp, file, bad, capture, nextSeq, buffer, failed, task,
                 ctlVars>>

\* advanceContiguousCursor: the last of the rows that follow the cursor without a gap.
Contiguous(rows, from) ==
  CHOOSE last \in from .. MaxChunks :
    /\ \A n \in from + 1 .. last : rows[n] # 0
    /\ last < MaxChunks => rows[last + 1] = 0

\* Bug: the row is written before the directory is synced.
BugReadyToIndex == mid \in {"final", "synced"}

\* The whole file protocol comes before the row.
ReadyToIndex == mid = "synced"

\* One transaction: the chunk's row and the cursor.
IndexFrame ==
  /\ ReadyToIndex
  /\ index' = [index EXCEPT ![nextSeq] = Head(buffer)]
  /\ cursor' = Contiguous(index', cursor)
  /\ nextSeq' = nextSeq + 1 /\ buffer' = Tail(buffer) /\ mid' = "idle"
  /\ UNCHANGED <<agentVars, avail, snapshot, fileVars, capture, failed, task, ctlVars>>

\* Bug: a frame that cannot be written is skipped.
BugAfterFailure == [failed |-> FALSE, buffer |-> Tail(buffer)]

\* The stream has failed and takes nothing more.
AfterFailure == [failed |-> TRUE, buffer |-> <<>>]

\* A step of the append throws: the files stay as they are, the process is signalled.
AppendFails ==
  /\ Appending
  /\ failed' = AfterFailure.failed /\ buffer' = AfterFailure.buffer /\ mid' = "idle"
  /\ UNCHANGED <<agentVars, rowVars, fileVars, capture, nextSeq, task, ctlVars>>

-----------------------------------------------------------------------------
(* Reading, the exit, the Snapshot.                                         *)

\* ByteJournal.readFrame verifies the file against its row.
Readable(n) == index[n] # 0 /\ n \notin bad /\ file[n] = index[n]

\* #recordExit: the Session is over, nobody captures its output any more, and a
\* Snapshot of what is durable is begun.
RecordExit ==
  /\ Serving /\ process = "gone" /\ avail = "Alive"
  /\ avail' = "Exited" /\ capture' = "off"
  /\ task' = Building(cursor, <<>>, 0)
  /\ UNCHANGED <<agentVars, index, cursor, snapshot, fileVars, nextSeq, buffer, failed, mid,
                 ctlVars>>

Replayed == Len(task.text)

\* Bug: the parser's state is not looked at.
BugSafeAfter(frame) == frame

\* The worker's checkpoint: the last frame that left the parser and the decoder empty.
SafeAfter(frame) == IF frame \in Unsafe THEN task.safe ELSE frame

\* SnapshotCoordinator.create gives the worker one frame and waits for its answer.  A
\* frame it cannot read or a limit ends the attempt, which is never shortened instead:
\* after an exit that is noted; during startup a data gap is skipped, and any other error
\* ends the Daemon, this one and the next.
ReplayFrame ==
  /\ mode \in {"up", "rebuild"} /\ mid = "idle" /\ task.on /\ Replayed < task.upTo
  /\ LET next == Replayed + 1 IN
       IF Readable(next) /\ next \notin heavy
         THEN /\ task' = Building(task.upTo, Append(task.text, index[next]), SafeAfter(next))
              /\ UNCHANGED <<failed, mode>>
         ELSE /\ task' = NoTask
              /\ failed' = (failed \/ mode = "up")
              /\ mode' = CASE mode = "up" -> "up"
                           [] mode = "rebuild" -> IF Readable(next) THEN "down" ELSE "listen"
  /\ UNCHANGED <<agentVars, rowVars, fileVars, capture, nextSeq, buffer, mid, adopted, crashes>>

\* The worker's result: the document of its last safe checkpoint replaces the row.
StoreSnapshot ==
  /\ mode \in {"up", "rebuild"} /\ mid = "idle" /\ task.on /\ Replayed = task.upTo
  /\ snapshot' = [stored |-> TRUE, covers |-> task.safe,
                   text |-> SubSeq(task.text, 1, task.safe)]
  /\ task' = NoTask
  /\ UNCHANGED <<agentVars, avail, index, cursor, fileVars, capture, nextSeq, buffer, failed,
                 mid, ctlVars>>

\* The outside damages or removes a chunk's file.
Damage(n) ==
  /\ Cardinality(bad) < MaxDamage /\ file[n] # 0 /\ index[n] # 0
  /\ bad' = bad \union {n}
  /\ UNCHANGED <<agentVars, rowVars, temp, loose, file, memoryVars, ctlVars>>

-----------------------------------------------------------------------------
(* Crash and startup.                                                       *)

\* A rename that was not synced may be undone; what a crash leaves stays.
RenameMayBeLost ==
  /\ loose' = 0
  /\ \/ UNCHANGED <<temp, file>>
     \/ /\ loose # 0
        /\ temp' = file[loose] /\ file' = [file EXCEPT ![loose] = 0]

\* The PTY goes with the Daemon.  A launch that has no Session may be resumed, and
\* then its process starts anew.
JournalCrash ==
  /\ mode # "down" /\ crashes < MaxCrashes
  /\ crashes' = crashes + 1 /\ mode' = "down" /\ adopted' = FALSE
  /\ \/ process # "none" /\ process' = "gone" /\ UNCHANGED <<emitted, heavy>>
     \/ /\ avail = "none" /\ process # "gone"
        /\ process' = "none" /\ emitted' = 0 /\ heavy' = {}
  /\ capture' = "off" /\ nextSeq' = 1 /\ buffer' = <<>> /\ failed' = FALSE
  /\ mid' = "idle" /\ task' = NoTask
  /\ RenameMayBeLost
  /\ UNCHANGED <<rowVars, bad>>

Restart ==
  /\ mode = "down"
  /\ mode' = "chunks"
  /\ UNCHANGED <<agentVars, rowVars, fileVars, memoryVars, adopted, crashes>>

\* reconcileStore: a temporary file goes to quarantine ...
QuarantineTemp ==
  /\ mode = "chunks" /\ temp # 0
  /\ temp' = 0
  /\ UNCHANGED <<agentVars, rowVars, loose, file, bad, memoryVars, ctlVars>>

Orphan(n) == file[n] # 0 /\ index[n] = 0

\* ... a final file without a row gets one, in a transaction of its own ...
AdoptOrphan(n) ==
  /\ mode = "chunks" /\ Orphan(n)
  /\ index' = [index EXCEPT ![n] = file[n]] /\ adopted' = TRUE
  /\ UNCHANGED <<agentVars, avail, cursor, snapshot, fileVars, memoryVars, mode, crashes>>

\* ... and another one moves the cursor, if this walk adopted anything.
ChunksDone ==
  /\ mode = "chunks" /\ temp = 0 /\ \A n \in Seqs : ~Orphan(n)
  /\ cursor' = IF adopted THEN Contiguous(index, cursor) ELSE cursor
  /\ adopted' = FALSE /\ mode' = "sessions"
  /\ UNCHANGED <<agentVars, avail, index, snapshot, fileVars, memoryVars, crashes>>

\* reconcileAfterRestart: an Alive Session is Lost.
LoseSession ==
  /\ mode = "sessions"
  /\ avail' = IF avail = "Alive" THEN "Lost" ELSE avail
  /\ mode' = "rebuild"
  /\ UNCHANGED <<agentVars, index, cursor, snapshot, fileVars, memoryVars, adopted, crashes>>

\* Bug: only a Session that ended before the crash is looked at.
BugMissing == avail = "Exited" /\ ~snapshot.stored

\* rebuildInvalidSnapshotsAfterRestart: a Session without a valid Snapshot gets one.
Missing == avail # "none" /\ ~snapshot.stored

StartRebuild ==
  /\ mode = "rebuild" /\ ~task.on /\ Missing
  /\ task' = Building(cursor, <<>>, 0)
  /\ UNCHANGED <<agentVars, rowVars, fileVars, capture, nextSeq, buffer, failed, mid, ctlVars>>

\* startServer: listen fails, and the Daemon ends, while the socket file of a dead one is
\* in its place.  Whether it is, and until when, is AttemptLaunch's; here it may be.
StartupDone ==
  /\ mode = "listen" \/ (mode = "rebuild" /\ ~task.on /\ ~Missing)
  /\ mode' \in {"up", "down"}
  /\ UNCHANGED <<agentVars, rowVars, fileVars, memoryVars, adopted, crashes>>

-----------------------------------------------------------------------------
AppendStep ==
  WriteTemp \/ RenameTemp \/ SyncDirectory \/ IndexFrame \/ AppendFails

SnapshotStep == ReplayFrame \/ StoreSnapshot

StartupStep ==
  \/ Restart \/ QuarantineTemp \/ ChunksDone \/ LoseSession \/ StartRebuild \/ StartupDone
  \/ \E n \in Seqs : AdoptOrphan(n)

CaptureStep ==
  \/ StartCapture \/ ReadOutput \/ FinalizeRunning \/ AbortLaunch \/ Terminate
  \/ ProcessExits \/ RecordExit
  \/ \E n \in Seqs : Damage(n)

\* Every step but the crash, which the reader's connection does not survive either.
JournalStep == CaptureStep \/ AppendStep \/ SnapshotStep \/ StartupStep
================================================================================
