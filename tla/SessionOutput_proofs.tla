-------------------------- MODULE SessionOutput_proofs --------------------------
(***************************************************************************)
(* Proofs about SessionOutput, for any number of chunks, crashes, damaged  *)
(* files, opened terminals and lost connections and any queue.             *)
(*                                                                         *)
(* The first part is about the journal alone, JournalInit, JournalStep and *)
(* JournalCrash:                                                           *)
(*   CaptureInv   what is buffered follows the cursor while the capture    *)
(*                can still append, and nothing is indexed beyond;         *)
(*   FileInv      the files and rows hold the chunks of their number, and  *)
(*                none lies further than one beyond the cursor;            *)
(*   SnapshotInv  the stored Snapshot and the one being built show a       *)
(*                beginning of what is durable.                            *)
(* The second part adds the reader: ReaderInv says that what is shown,     *)
(* posted and sent are consecutive numbers that the cursor covers, and     *)
(* that the next frame asked for follows them.  The safety properties and  *)
(* the refinement of DurableStream follow from both.                       *)
(***************************************************************************)
EXTENDS SessionOutput, TLAPS

USE DEF journalVars, agentVars, rowVars, fileVars, memoryVars, ctlVars

\* What is buffered is what follows the cursor, in the PTY's order, as long as it can
\* still be appended; a capture that is off, or a stream that failed, holds nothing.
CaptureInv ==
  /\ avail = "none" => cursor = 0 /\ \A n \in Seqs : index[n] = 0 /\ file[n] = 0
  /\ process = "none" => emitted = 0
  /\ capture = "off" => buffer = <<>>
  /\ capture = "pending" =>
       /\ avail = "none" /\ nextSeq = 1
       /\ \A i \in DOMAIN buffer : buffer[i] = i
       /\ ~failed => Len(buffer) = emitted
  /\ capture = "active" =>
       /\ avail # "none"
       /\ failed => buffer = <<>>
       /\ ~failed => /\ nextSeq = cursor + 1 /\ emitted = cursor + Len(buffer)
                     /\ \A i \in DOMAIN buffer : buffer[i] = cursor + i
  /\ capture # "off" => mode = "up" /\ \A n \in Seqs : n > cursor => index[n] = 0
  /\ mid # "idle" => capture = "active" /\ ~failed /\ buffer # <<>>
  /\ task.on => capture = "off" /\ avail # "none"

\* Frame n is the n-th chunk of the PTY wherever it is kept.
InOrder == \A n \in Seqs : file[n] \in {0, n} /\ index[n] \in {0, n}

\* Every row has its file, unless the outside took it.
Backed ==
  /\ \A n \in 1 .. cursor : index[n] # 0
  /\ \A n \in Seqs : index[n] # 0 => n \in bad \/ file[n] = index[n]

FileInv ==
  /\ InOrder /\ Backed
  /\ \A n \in Seqs : n > cursor + 1 => index[n] = 0 /\ file[n] = 0
  /\ mid = "temp" => temp = nextSeq
  /\ mid \in {"final", "synced"} => file[nextSeq] = nextSeq
  /\ mid = "synced" => loose = 0
  /\ loose # 0 => mode = "up" /\ index[loose] = 0

\* The Snapshot, and the one being built, show a beginning of what is durable.
SnapshotInv ==
  /\ snapshot.covers <= cursor /\ snapshot.covers \notin Unsafe
  /\ snapshot.text = [i \in 1 .. snapshot.covers |-> i]
  /\ task.upTo <= cursor /\ Len(task.text) <= task.upTo
  /\ \A i \in DOMAIN task.text : task.text[i] = i
  /\ task.safe <= Len(task.text) /\ task.safe \notin Unsafe

JournalInv == TypeOK /\ CaptureInv /\ FileInv /\ SnapshotInv

-----------------------------------------------------------------------------
(* Types and the cursor.                                                    *)

LEMMA EmptySeq == ASSUME NEW S PROVE <<>> \in Seq(S)
OBVIOUS

LEMMA HeadTail ==
  ASSUME NEW S, NEW s \in Seq(S), s # <<>>
  PROVE  /\ Head(s) \in S /\ Head(s) = s[1] /\ Tail(s) \in Seq(S)
         /\ Len(s) \in Nat \ {0} /\ Len(Tail(s)) = Len(s) - 1
         /\ \A i \in 1 .. Len(s) - 1 : Tail(s)[i] = s[i + 1]
OBVIOUS

\* Rows that lie no further than one beyond the cursor move it by at most one.
LEMMA ContiguousIs ==
  ASSUME NEW rows \in [Seqs -> Chunks], NEW from \in Chunks,
         \A n \in Seqs : n > from + 1 => rows[n] = 0
  PROVE  Contiguous(rows, from) =
           IF from < MaxChunks /\ rows[from + 1] # 0 THEN from + 1 ELSE from
<1> DEFINE Good(last) == /\ \A n \in from + 1 .. last : rows[n] # 0
                         /\ last < MaxChunks => rows[last + 1] = 0
           next == IF from < MaxChunks /\ rows[from + 1] # 0 THEN from + 1 ELSE from
<1>1. MaxChunks \in Nat /\ from \in 0 .. MaxChunks
  BY JournalAssumption DEF Chunks
<1>2. next \in from .. MaxChunks /\ Good(next)
  BY <1>1 DEF Seqs
<1>3. ASSUME NEW last \in from .. MaxChunks, Good(last) PROVE last = next
  <2>1. last <= from + 1
    <3>1. SUFFICES ASSUME last > from + 1 PROVE FALSE
      BY <1>1
    <3>2. from + 2 \in Seqs /\ from + 2 \in from + 1 .. last
      BY <1>1, <3>1 DEF Seqs
    <3> QED
      BY <1>1, <1>3, <3>2
  <2>2. CASE last = from
    BY <1>1, <1>3, <2>2
  <2>3. CASE last = from + 1
    BY <1>1, <1>3, <2>3
  <2> QED
    BY <1>1, <2>1, <2>2, <2>3
<1>4. Contiguous(rows, from) = CHOOSE last \in from .. MaxChunks : Good(last)
  BY DEF Contiguous
<1> HIDE DEF Good, next
<1>5. Contiguous(rows, from) = next
  BY <1>2, <1>3, <1>4
<1> QED
  BY <1>5 DEF next

LEMMA TypeInit == JournalInit => TypeOK
<1> SUFFICES ASSUME JournalInit PROVE TypeOK
  OBVIOUS
<1>1. MaxChunks \in Nat /\ MaxCrashes \in Nat
  BY JournalAssumption
<1>2. buffer \in Seq(Seqs) /\ <<>> \in Seq(Chunks)
  BY EmptySeq DEF JournalInit
<1>3. /\ snapshot \in [stored : BOOLEAN, covers : Chunks, text : Seq(Chunks)]
      /\ task \in [upTo : Chunks, text : Seq(Chunks), safe : Chunks, on : BOOLEAN]
  BY <1>1, <1>2 DEF JournalInit, NoTask, InitialSnapshot, Chunks
<1>4. index \in [Seqs -> Chunks] /\ file \in [Seqs -> Chunks] /\ bad \subseteq Seqs
  BY <1>1 DEF JournalInit, Chunks
<1>5. /\ emitted \in Chunks /\ cursor \in Chunks /\ temp \in Chunks /\ loose \in Chunks
      /\ nextSeq \in 1 .. MaxChunks + 1 /\ crashes \in 0 .. MaxCrashes
  BY <1>1 DEF JournalInit, Chunks
<1> QED
  BY <1>2, <1>3, <1>4, <1>5 DEF JournalInit, TypeOK

LEMMA CaptureInit == JournalInit => CaptureInv
BY DEF JournalInit, CaptureInv, NoTask

LEMMA FileInit == JournalInit => FileInv
<1> SUFFICES ASSUME JournalInit PROVE FileInv
  OBVIOUS
<1>1. \A n \in Seqs : index[n] = 0 /\ file[n] = 0
  BY DEF JournalInit
<1> QED
  BY <1>1 DEF JournalInit, FileInv, InOrder, Backed

LEMMA SnapshotInit == JournalInit => SnapshotInv
<1> SUFFICES ASSUME JournalInit PROVE SnapshotInv
  OBVIOUS
<1>1. snapshot.text = [i \in 1 .. snapshot.covers |-> i]
  BY DEF JournalInit, InitialSnapshot
<1> QED
  BY <1>1, JournalAssumption DEF JournalInit, SnapshotInv, InitialSnapshot, NoTask

-----------------------------------------------------------------------------
(* Every step keeps the types and moves the cursor by at most one.          *)

\* What the readers see of a step: the cursor, what it covers, the stored Snapshot.
LEMMA CursorGrows ==
  ASSUME JournalInv, JournalStep \/ JournalCrash
  PROVE  /\ cursor' \in Chunks /\ cursor' \in {cursor, cursor + 1}
         /\ \A n \in 1 .. cursor : index'[n] = index[n]
<1>0. /\ cursor \in Chunks /\ MaxChunks \in Nat /\ index \in [Seqs -> Chunks]
      /\ \A n \in Seqs : n > cursor + 1 => index[n] = 0
      /\ \A n \in 1 .. cursor : index[n] # 0
  BY JournalAssumption DEF JournalInv, TypeOK, FileInv, Backed
<1>1. CASE IndexFrame
  <2>1. mid = "synced" /\ nextSeq = cursor + 1 /\ emitted = cursor + Len(buffer)
    BY <1>1 DEF JournalInv, CaptureInv, IndexFrame, ReadyToIndex
  <2>2. buffer # <<>> /\ buffer \in Seq(Seqs) /\ emitted \in Chunks
    BY <2>1 DEF JournalInv, CaptureInv, TypeOK
  <2>3. Len(buffer) \in Nat \ {0} /\ Head(buffer) \in Seqs
    BY <2>2, HeadTail
  <2>4. nextSeq \in Seqs /\ Head(buffer) \in Chunks
    BY <1>0, <2>1, <2>2, <2>3 DEF Seqs, Chunks
  <2>5. index' \in [Seqs -> Chunks] /\ \A n \in Seqs : n # nextSeq => index'[n] = index[n]
    BY <1>0, <1>1, <2>4 DEF IndexFrame
  <2>6. \A n \in Seqs : n > cursor + 1 => index'[n] = 0
    BY <1>0, <2>1, <2>5
  <2>7. cursor' \in {cursor, cursor + 1} /\ cursor' \in Chunks
    <3>1. cursor' = Contiguous(index', cursor)
      BY <1>1 DEF IndexFrame
    <3> QED
      BY <1>0, <2>5, <2>6, <3>1, ContiguousIs DEF Chunks
  <2>8. \A n \in 1 .. cursor : n \in Seqs /\ n # nextSeq
    BY <1>0, <2>1 DEF Seqs, Chunks
  <2> QED
    BY <2>5, <2>7, <2>8
<1>2. CASE ChunksDone
  <2>1. cursor' = Contiguous(index, cursor) \/ cursor' = cursor
    BY <1>2 DEF ChunksDone
  <2>2. Contiguous(index, cursor) \in Chunks /\ Contiguous(index, cursor) \in {cursor, cursor + 1}
    BY <1>0, ContiguousIs DEF Chunks
  <2> QED
    BY <1>0, <1>2, <2>1, <2>2 DEF ChunksDone
<1>3. CASE \E n \in Seqs : AdoptOrphan(n)
  <2>1. PICK m \in Seqs : AdoptOrphan(m)
    BY <1>3
  <2>2. index[m] = 0 /\ cursor' = cursor /\ index' = [index EXCEPT ![m] = file[m]]
    BY <2>1 DEF AdoptOrphan, Orphan
  <2>3. \A n \in 1 .. cursor : n \in Seqs /\ n # m
    BY <1>0, <2>2 DEF Seqs, Chunks
  <2> QED
    BY <1>0, <2>2, <2>3
<1>4. CASE UNCHANGED <<index, cursor>>
  BY <1>0, <1>4
<1> QED
  BY <1>1, <1>2, <1>3, <1>4
     DEF JournalStep, CaptureStep, AppendStep, SnapshotStep, StartupStep, JournalCrash,
         StartCapture, ReadOutput, FinalizeRunning, AbortLaunch, Terminate, ProcessExits,
         RecordExit, Damage, WriteTemp, RenameTemp, SyncDirectory, AppendFails,
         ReplayFrame, StoreSnapshot, Restart, QuarantineTemp, LoseSession, StartRebuild,
         StartupDone

LEMMA AppendSeq ==
  ASSUME NEW S, NEW s \in Seq(S), NEW e \in S
  PROVE  /\ Append(s, e) \in Seq(S) /\ Len(Append(s, e)) = Len(s) + 1
         /\ Len(s) \in Nat /\ Append(s, e)[Len(s) + 1] = e
         /\ \A i \in 1 .. Len(s) : Append(s, e)[i] = s[i]
OBVIOUS

LEMMA Beginning ==
  ASSUME NEW S, NEW s \in Seq(S), NEW n \in Nat, n <= Len(s)
  PROVE  /\ SubSeq(s, 1, n) \in Seq(S) /\ Len(SubSeq(s, 1, n)) = n
         /\ SubSeq(s, 1, n) = [i \in 1 .. n |-> s[i]]
OBVIOUS

\* An append works on a chunk of the PTY under the next number.
LEMMA AppendUnderWay ==
  ASSUME JournalInv, mid # "idle" \/ Appending
  PROVE  /\ capture = "active" /\ ~failed /\ mode = "up"
         /\ nextSeq = cursor + 1 /\ nextSeq \in Seqs /\ Head(buffer) = nextSeq
         /\ Tail(buffer) \in Seq(Seqs) /\ Len(Tail(buffer)) = Len(buffer) - 1
         /\ Len(buffer) \in Nat \ {0}
         /\ \A i \in DOMAIN Tail(buffer) : Tail(buffer)[i] = cursor + 1 + i
         /\ index[nextSeq] = 0 /\ avail # "none"
<1>1. /\ capture = "active" /\ ~failed /\ buffer # <<>> /\ mode = "up" /\ avail # "none"
      /\ nextSeq = cursor + 1 /\ emitted = cursor + Len(buffer)
      /\ \A i \in DOMAIN buffer : buffer[i] = cursor + i
      /\ \A n \in Seqs : n > cursor => index[n] = 0
  BY DEF JournalInv, CaptureInv, Appending
<1>2. /\ cursor \in 0 .. MaxChunks /\ emitted \in 0 .. MaxChunks /\ MaxChunks \in Nat
      /\ buffer \in Seq(Seqs)
  BY JournalAssumption DEF JournalInv, TypeOK, Chunks
<1>3. /\ Head(buffer) = buffer[1] /\ Tail(buffer) \in Seq(Seqs)
      /\ Len(buffer) \in Nat \ {0} /\ Len(Tail(buffer)) = Len(buffer) - 1
      /\ \A i \in 1 .. Len(buffer) - 1 : Tail(buffer)[i] = buffer[i + 1]
  BY <1>1, <1>2, HeadTail
<1>4. DOMAIN buffer = 1 .. Len(buffer) /\ DOMAIN Tail(buffer) = 1 .. Len(buffer) - 1
  BY <1>2, <1>3
<1>5. nextSeq \in Seqs
  BY <1>1, <1>2, <1>3 DEF Seqs
<1>6. Head(buffer) = nextSeq
  BY <1>1, <1>2, <1>3, <1>4
<1>7. ASSUME NEW i \in DOMAIN Tail(buffer) PROVE Tail(buffer)[i] = cursor + 1 + i
  <2>1. i \in 1 .. Len(buffer) - 1 /\ i + 1 \in DOMAIN buffer
    BY <1>3, <1>4, <1>7
  <2> QED
    BY <1>1, <1>2, <1>3, <2>1
<1>8. index[nextSeq] = 0
  BY <1>1, <1>2, <1>5
<1> QED
  BY <1>1, <1>3, <1>5, <1>6, <1>7, <1>8

\* TypeOK in the groups the steps leave alone together.  The sets of structured values
\* are named, so that a step that hands such a value on need not look into it.
Rows == [Seqs -> Chunks]
Buffers == Seq(Seqs)
Numbers == 1 .. MaxChunks + 1
Snapshots == [stored : BOOLEAN, covers : Chunks, text : Seq(Chunks)]
Tasks == [upTo : Chunks, text : Seq(Chunks), safe : Chunks, on : BOOLEAN]
AgentTyped ==
  /\ process \in {"none", "running", "gone"} /\ emitted \in Chunks /\ heavy \subseteq Heavy
RowsTyped ==
  /\ avail \in {"none", "Alive", "Exited", "Lost"}
  /\ index \in Rows /\ cursor \in Chunks /\ snapshot \in Snapshots
FilesTyped == temp \in Chunks /\ loose \in Chunks /\ file \in Rows /\ bad \subseteq Seqs
MemoryTyped ==
  /\ capture \in {"off", "pending", "active"} /\ nextSeq \in Numbers
  /\ buffer \in Buffers /\ failed \in BOOLEAN
  /\ mid \in {"idle", "temp", "final", "synced"} /\ task \in Tasks
CtlTyped ==
  /\ mode \in {"up", "down", "chunks", "sessions", "rebuild", "listen"}
  /\ adopted \in BOOLEAN /\ crashes \in 0 .. MaxCrashes

LEMMA TypeParts ==
  /\ TypeOK <=> AgentTyped /\ RowsTyped /\ FilesTyped /\ MemoryTyped /\ CtlTyped
  /\ TypeOK' <=> AgentTyped' /\ RowsTyped' /\ FilesTyped' /\ MemoryTyped' /\ CtlTyped'
<1> USE DEF TypeOK, AgentTyped, RowsTyped, FilesTyped, MemoryTyped, CtlTyped,
            Rows, Buffers, Numbers, Snapshots, Tasks
<1>1. TypeOK <=> AgentTyped /\ RowsTyped /\ FilesTyped /\ MemoryTyped /\ CtlTyped
  BY Zenon
<1>2. TypeOK' <=> AgentTyped' /\ RowsTyped' /\ FilesTyped' /\ MemoryTyped' /\ CtlTyped'
  BY Zenon
<1> QED
  BY <1>1, <1>2

\* What the steps make of the structured values.
LEMMA TypedValues ==
  /\ MaxChunks \in Nat /\ MaxCrashes \in Nat /\ 0 \in Chunks /\ Seqs \subseteq Chunks
  /\ <<>> \in Buffers /\ NoTask \in Tasks
  /\ \A n \in Chunks : n \in Nat /\ n + 1 \in Numbers /\ Building(n, <<>>, 0) \in Tasks
  /\ \A rows \in Rows, n \in Seqs, v \in Chunks : [rows EXCEPT ![n] = v] \in Rows
  /\ \A rows \in Rows, n \in Seqs : rows[n] \in Chunks
<1>1. MaxChunks \in Nat /\ MaxCrashes \in Nat /\ 0 \in Chunks /\ Seqs \subseteq Chunks
  BY JournalAssumption DEF Chunks, Seqs
<1>2. <<>> \in Buffers /\ <<>> \in Seq(Chunks)
  BY EmptySeq DEF Buffers
<1>3. NoTask \in Tasks
  BY <1>1, <1>2 DEF NoTask, Tasks
<1>4. ASSUME NEW n \in Chunks PROVE n \in Nat /\ n + 1 \in Numbers
  BY <1>1 DEF Chunks, Numbers
<1>5. ASSUME NEW n \in Chunks PROVE Building(n, <<>>, 0) \in Tasks
  BY <1>1, <1>2 DEF Building, Tasks
<1>6. ASSUME NEW rows \in Rows, NEW n \in Seqs, NEW v \in Chunks
      PROVE  [rows EXCEPT ![n] = v] \in Rows
  BY DEF Rows
<1>7. ASSUME NEW rows \in Rows, NEW n \in Seqs PROVE rows[n] \in Chunks
  BY DEF Rows
<1> QED
  BY <1>1, <1>2, <1>3, <1>4, <1>5, <1>6, <1>7

LEMMA TypeStep ==
  ASSUME JournalInv, JournalStep \/ JournalCrash PROVE TypeOK'
<1> USE DEF AgentTyped, RowsTyped, FilesTyped, MemoryTyped, CtlTyped
<1> DEFINE Typed == AgentTyped /\ RowsTyped /\ FilesTyped /\ MemoryTyped /\ CtlTyped
<1>0. Typed
  BY TypeParts DEF JournalInv
<1> SUFFICES Typed'
  BY TypeParts
<1>1. cursor' \in Chunks /\ MaxChunks \in Nat /\ 0 \in Chunks /\ Seqs \subseteq Chunks
  BY CursorGrows, TypedValues
<1>a. CASE StartCapture
  BY <1>0, <1>a, TypedValues DEF StartCapture
<1>b. CASE ReadOutput
  <2>1. emitted + 1 \in Seqs
    BY <1>0, <1>1, <1>b DEF ReadOutput, Seqs, Chunks
  <2>2. Append(buffer, emitted + 1) \in Buffers
    BY <1>0, <2>1, AppendSeq DEF Buffers
  <2>3. emitted' \in Chunks /\ buffer' \in Buffers /\ failed' \in BOOLEAN
    BY <1>0, <1>1, <1>b, <2>1, <2>2 DEF ReadOutput, Overflow
  <2> QED
    BY <1>0, <1>b, <2>3 DEF ReadOutput
<1>c. CASE FinalizeRunning
  BY <1>0, <1>c, TypedValues DEF FinalizeRunning, Flushed
<1>d. CASE AbortLaunch
  BY <1>0, <1>d, TypedValues DEF AbortLaunch
<1>e. CASE Terminate \/ ProcessExits
  BY <1>0, <1>e DEF Terminate, ProcessExits
<1>f. CASE RecordExit
  <2>1. task' \in Tasks
    BY <1>0, <1>f, TypedValues DEF RecordExit
  <2> QED
    BY <1>0, <1>f, <2>1 DEF RecordExit
<1>g. CASE \E n \in Seqs : Damage(n)
  <2>1. PICK n \in Seqs : Damage(n)
    BY <1>g
  <2>2. bad' \subseteq Seqs
    BY <1>0, <2>1 DEF Damage
  <2> QED
    BY <1>0, <2>1, <2>2 DEF Damage
<1>h. CASE WriteTemp
  <2>1. temp' \in Chunks
    BY <1>1, <1>h, AppendUnderWay DEF WriteTemp
  <2> QED
    BY <1>0, <1>h, <2>1 DEF WriteTemp
<1>i. CASE RenameTemp
  <2>1. nextSeq \in Seqs
    BY <1>i, AppendUnderWay DEF RenameTemp
  <2>2. file' \in Rows /\ temp' \in Chunks /\ loose' \in Chunks
    BY <1>0, <1>1, <1>i, <2>1, TypedValues DEF RenameTemp
  <2> QED
    BY <1>0, <1>i, <2>2 DEF RenameTemp
<1>j. CASE SyncDirectory
  BY <1>0, <1>1, <1>j DEF SyncDirectory
<1>k. CASE IndexFrame
  <2>1. /\ nextSeq \in Seqs /\ Head(buffer) = nextSeq /\ Tail(buffer) \in Buffers
    BY <1>k, AppendUnderWay DEF IndexFrame, ReadyToIndex, Buffers
  <2>2. index' \in Rows /\ nextSeq' \in Numbers /\ buffer' \in Buffers
    BY <1>0, <1>1, <1>k, <2>1, TypedValues DEF IndexFrame
  <2> QED
    BY <1>0, <1>1, <1>k, <2>2 DEF IndexFrame
<1>l. CASE AppendFails
  BY <1>0, <1>l, TypedValues DEF AppendFails, AfterFailure
<1>m. CASE ReplayFrame
  <2>1. task.text \in Seq(Chunks) /\ task.upTo \in Chunks /\ task.safe \in Chunks
    BY <1>0 DEF Tasks
  <2>2. Replayed < task.upTo => Replayed + 1 \in Seqs
    BY <1>1, <2>1 DEF Replayed, Seqs, Chunks
  <2>3. Replayed < task.upTo => /\ index[Replayed + 1] \in Chunks
                                /\ SafeAfter(Replayed + 1) \in Chunks
    BY <1>0, <1>1, <2>1, <2>2, TypedValues DEF SafeAfter
  <2>4. task' \in Tasks
    <3>1. CASE task' = Building(task.upTo, Append(task.text, index[Replayed + 1]),
                                SafeAfter(Replayed + 1))
      <4>1. /\ Append(task.text, index[Replayed + 1]) \in Seq(Chunks)
            /\ SafeAfter(Replayed + 1) \in Chunks
        BY <1>m, <2>1, <2>3, AppendSeq DEF ReplayFrame
      <4> QED
        BY <2>1, <3>1, <4>1 DEF Building, Tasks
    <3>2. CASE task' = NoTask
      BY <3>2, TypedValues
    <3> QED
      BY <1>m, <3>1, <3>2 DEF ReplayFrame
  <2>5. failed' \in BOOLEAN /\ mode' \in {"up", "down", "chunks", "sessions", "rebuild", "listen"}
    BY <1>0, <1>m DEF ReplayFrame
  <2> QED
    BY <1>0, <1>m, <2>4, <2>5 DEF ReplayFrame
<1>n. CASE StoreSnapshot
  <2>1. task.text \in Seq(Chunks) /\ task.safe \in Chunks
    BY <1>0 DEF Tasks
  <2>2. task.safe \in Nat /\ task.safe <= Len(task.text)
    BY <1>n, <2>1, TypedValues DEF StoreSnapshot, JournalInv, SnapshotInv
  <2>3. SubSeq(task.text, 1, task.safe) \in Seq(Chunks)
    BY <2>1, <2>2, Beginning
  <2>4. snapshot' \in Snapshots /\ task' \in Tasks
    BY <1>n, <2>1, <2>3, TypedValues DEF StoreSnapshot, Snapshots
  <2> QED
    BY <1>0, <1>n, <2>4 DEF StoreSnapshot
<1>o. CASE Restart \/ LoseSession \/ StartupDone
  <2>1. CASE Restart
    BY <1>0, <2>1 DEF Restart
  <2>2. CASE LoseSession
    BY <1>0, <2>2 DEF LoseSession
  <2>3. CASE StartupDone
    BY <1>0, <2>3 DEF StartupDone
  <2> QED
    BY <1>o, <2>1, <2>2, <2>3
<1>p. CASE QuarantineTemp
  BY <1>0, <1>1, <1>p DEF QuarantineTemp
<1>q. CASE ChunksDone
  BY <1>0, <1>1, <1>q DEF ChunksDone
<1>r. CASE StartRebuild
  <2>1. task' \in Tasks
    BY <1>0, <1>r, TypedValues DEF StartRebuild
  <2> QED
    BY <1>0, <1>r, <2>1 DEF StartRebuild
<1>s. CASE \E n \in Seqs : AdoptOrphan(n)
  <2>1. PICK n \in Seqs : AdoptOrphan(n)
    BY <1>s
  <2>2. index' \in Rows
    BY <1>0, <2>1, TypedValues DEF AdoptOrphan
  <2> QED
    BY <1>0, <2>1, <2>2 DEF AdoptOrphan
<1>t. CASE JournalCrash
  <2>1. temp' \in Chunks /\ file' \in Rows /\ loose' \in Chunks
    <3>1. loose # 0 => loose \in Seqs
      BY <1>0, <1>1 DEF Chunks, Seqs
    <3>2. loose # 0 => file[loose] \in Chunks /\ [file EXCEPT ![loose] = 0] \in Rows
      BY <1>0, <1>1, <3>1, TypedValues
    <3> QED
      BY <1>0, <1>1, <1>t, <3>2 DEF JournalCrash, RenameMayBeLost
  <2>2. crashes' \in 0 .. MaxCrashes
    BY <1>0, <1>t, TypedValues DEF JournalCrash
  <2>3. process' \in {"none", "running", "gone"} /\ emitted' \in Chunks /\ heavy' \subseteq Heavy
    BY <1>0, <1>1, <1>t DEF JournalCrash
  <2>4. nextSeq' \in Numbers /\ buffer' \in Buffers /\ task' \in Tasks
    <3>1. 0 + 1 \in Numbers
      BY <1>1, TypedValues
    <3> QED
      BY <1>t, <3>1, TypedValues DEF JournalCrash
  <2> QED
    BY <1>0, <1>t, <2>1, <2>2, <2>3, <2>4 DEF JournalCrash
<1> QED
  BY <1>a, <1>b, <1>c, <1>d, <1>e, <1>f, <1>g, <1>h, <1>i, <1>j, <1>k, <1>l, <1>m, <1>n, <1>o,
     <1>p, <1>q, <1>r, <1>s, <1>t
     DEF JournalStep, CaptureStep, AppendStep, SnapshotStep, StartupStep

-----------------------------------------------------------------------------
(* CaptureInv.                                                              *)

LEMMA CaptureKept ==
  ASSUME JournalInv, JournalStep \/ JournalCrash PROVE CaptureInv'
<1>0. /\ CaptureInv /\ cursor \in Nat /\ emitted \in Nat /\ buffer \in Seq(Seqs)
      /\ index \in [Seqs -> Chunks] /\ file \in [Seqs -> Chunks]
  BY JournalAssumption DEF JournalInv, TypeOK, Chunks
<1> USE DEF CaptureInv
<1>a. CASE StartCapture
  BY <1>0, <1>a DEF StartCapture, Serving
<1>b. CASE ReadOutput
  <2>1. CASE capture = "off" \/ failed
    BY <1>0, <1>b, <2>1 DEF ReadOutput, Serving
  <2>2. CASE capture = "pending" /\ ~failed
    <3>0. emitted + 1 \in Seqs
      BY <1>0, <1>b, JournalAssumption DEF ReadOutput, Seqs
    <3>1. /\ Len(buffer) = emitted /\ \A i \in DOMAIN buffer : buffer[i] = i
          /\ DOMAIN buffer = 1 .. Len(buffer) /\ emitted + 1 \in Seqs
      BY <1>0, <2>2, <3>0
    <3>2. CASE Overflow
      BY <1>0, <1>b, <2>2, <3>1, <3>2 DEF ReadOutput, Serving
    <3>3. CASE ~Overflow
      <4>1. buffer' = Append(buffer, emitted + 1) /\ ~failed'
        BY <1>b, <2>2, <3>3 DEF ReadOutput
      <4>2. /\ Len(buffer') = emitted' /\ DOMAIN buffer' = 1 .. emitted + 1
            /\ \A i \in 1 .. emitted + 1 : buffer'[i] = i
        BY <1>0, <1>b, <3>1, <4>1, AppendSeq DEF ReadOutput
      <4> QED
        BY <1>0, <1>b, <2>2, <4>1, <4>2 DEF ReadOutput, Serving
    <3> QED
      BY <3>2, <3>3
  <2>3. CASE capture = "active" /\ ~failed
    <3>0. emitted + 1 \in Seqs
      BY <1>0, <1>b, JournalAssumption DEF ReadOutput, Seqs
    <3>1. /\ buffer = <<>> /\ Len(buffer) = 0 /\ emitted = cursor /\ emitted + 1 \in Seqs
          /\ mid = "idle" /\ mode = "up"
      BY <1>0, <1>b, <2>3, <3>0 DEF ReadOutput, Serving
    <3>2. buffer' = Append(buffer, emitted + 1) /\ ~failed'
      BY <1>b, <2>3 DEF ReadOutput, Overflow
    <3>3. Len(buffer') = 1 /\ DOMAIN buffer' = 1 .. 1 /\ buffer'[1] = cursor + 1
      BY <1>0, <3>1, <3>2, AppendSeq
    <3> QED
      BY <1>0, <1>b, <2>3, <3>1, <3>2, <3>3 DEF ReadOutput
  <2> QED
    BY <1>0, <2>1, <2>2, <2>3 DEF JournalInv, TypeOK
<1>c. CASE FinalizeRunning
  BY <1>0, <1>c DEF FinalizeRunning, Flushed, Serving
<1>d. CASE AbortLaunch
  BY <1>0, <1>d DEF AbortLaunch, Serving
<1>e. CASE Terminate \/ ProcessExits
  BY <1>0, <1>e DEF Terminate, ProcessExits, Serving
<1>f. CASE RecordExit
  BY <1>0, <1>f DEF RecordExit, Serving, JournalInv, TypeOK
<1>g. CASE \E n \in Seqs : Damage(n)
  BY <1>0, <1>g DEF Damage
<1>h. CASE WriteTemp
  BY <1>0, <1>h DEF WriteTemp, Appending
<1>i. CASE RenameTemp
  <2>1. avail # "none"
    BY <1>i, AppendUnderWay DEF RenameTemp
  <2> QED
    BY <1>0, <1>i, <2>1 DEF RenameTemp
<1>j. CASE SyncDirectory
  BY <1>0, <1>j DEF SyncDirectory
<1>k. CASE IndexFrame
  <2>1. /\ capture = "active" /\ ~failed /\ mode = "up" /\ avail # "none"
        /\ nextSeq = cursor + 1 /\ nextSeq \in Seqs /\ Head(buffer) = nextSeq
        /\ Tail(buffer) \in Seq(Seqs) /\ Len(Tail(buffer)) = Len(buffer) - 1
        /\ Len(buffer) \in Nat \ {0}
        /\ \A i \in DOMAIN Tail(buffer) : Tail(buffer)[i] = cursor + 1 + i
    BY <1>k, AppendUnderWay DEF IndexFrame, ReadyToIndex
  <2>2. /\ \A n \in Seqs : n > cursor => index[n] = 0
        /\ emitted = cursor + Len(buffer)
    BY <1>0, <2>1
  <2>3. index'[nextSeq] # 0 /\ \A n \in Seqs : n > cursor + 1 => index'[n] = 0
    <3>1. index' = [index EXCEPT ![nextSeq] = nextSeq]
      BY <1>k, <2>1 DEF IndexFrame
    <3>2. nextSeq # 0
      BY <2>1 DEF Seqs
    <3> QED
      BY <1>0, <2>1, <2>2, <3>1, <3>2
  <2>4. cursor' = cursor + 1
    <3>1. cursor' = Contiguous(index', cursor) /\ index' \in [Seqs -> Chunks]
      BY <1>k, TypeStep DEF IndexFrame, TypeOK, JournalStep, AppendStep
    <3>2. cursor \in Chunks /\ cursor < MaxChunks
      BY <1>0, <2>1, JournalAssumption DEF Seqs, JournalInv, TypeOK
    <3> QED
      BY <2>1, <2>3, <3>1, <3>2, ContiguousIs
  <2>5. /\ buffer' = Tail(buffer) /\ nextSeq' = nextSeq + 1 /\ mid' = "idle" /\ ~task.on
        /\ UNCHANGED <<process, emitted, avail, file, capture, failed, mode, task>>
    BY <1>0, <1>k, <2>1 DEF IndexFrame
  <2>6. emitted' = cursor' + Len(buffer')
    BY <1>0, <2>1, <2>2, <2>4, <2>5
  <2>7. nextSeq' = cursor' + 1 /\ \A i \in DOMAIN buffer' : buffer'[i] = cursor' + i
    BY <2>1, <2>4, <2>5
  <2>8. process' = "none" => emitted' = 0
    BY <1>0, <2>5
  <2> QED
    BY <2>1, <2>3, <2>4, <2>5, <2>6, <2>7, <2>8
<1>l. CASE AppendFails
  BY <1>0, <1>l DEF AppendFails, AfterFailure
<1>m. CASE ReplayFrame
  <2>1. capture = "off" /\ avail # "none" /\ mid = "idle"
    BY <1>0, <1>m DEF ReplayFrame
  <2>2. UNCHANGED <<process, emitted, avail, index, cursor, file, capture, buffer, mid>>
    BY <1>m DEF ReplayFrame
  <2> QED
    BY <1>0, <2>1, <2>2
<1>n. CASE StoreSnapshot
  BY <1>0, <1>n DEF StoreSnapshot, NoTask
<1>o. CASE Restart \/ LoseSession \/ StartupDone \/ QuarantineTemp
  BY <1>0, <1>o DEF Restart, LoseSession, StartupDone, QuarantineTemp
<1>r. CASE StartRebuild
  BY <1>0, <1>r DEF StartRebuild, Missing
<1>q. CASE ChunksDone
  <2>1. avail = "none" => Contiguous(index, cursor) = cursor
    <3>1. SUFFICES ASSUME avail = "none" PROVE Contiguous(index, cursor) = cursor
      OBVIOUS
    <3>2. cursor = 0 /\ (\A n \in Seqs : index[n] = 0) /\ 0 \in Chunks /\ MaxChunks \in Nat
      BY <1>0, <3>1, JournalAssumption DEF Chunks
    <3>3. 0 < MaxChunks => index[0 + 1] = 0
      BY <3>2 DEF Seqs
    <3> QED
      BY <1>0, <3>2, <3>3, ContiguousIs
  <2> QED
    BY <1>0, <1>q, <2>1 DEF ChunksDone
<1>s. CASE \E n \in Seqs : AdoptOrphan(n)
  <2>1. avail # "none" /\ capture = "off"
    BY <1>0, <1>s DEF AdoptOrphan, Orphan, JournalInv, TypeOK
  <2> QED
    BY <1>0, <1>s, <2>1 DEF AdoptOrphan
<1>t. CASE JournalCrash
  <2>1. avail = "none" => file' = file
    <3>1. SUFFICES ASSUME avail = "none" PROVE file' = file
      OBVIOUS
    <3>2. loose # 0 => loose \in Seqs
      BY DEF JournalInv, TypeOK, Chunks, Seqs
    <3>3. loose # 0 => [file EXCEPT ![loose] = 0] = file
      BY <1>0, <3>1, <3>2
    <3> QED
      BY <1>t, <3>3 DEF JournalCrash, RenameMayBeLost
  <2> QED
    BY <1>0, <1>t, <2>1 DEF JournalCrash, NoTask
<1> QED
  BY <1>a, <1>b, <1>c, <1>d, <1>e, <1>f, <1>g, <1>h, <1>i, <1>j, <1>k, <1>l, <1>m, <1>n, <1>o,
     <1>q, <1>r, <1>s, <1>t
     DEF JournalStep, CaptureStep, AppendStep, SnapshotStep, StartupStep

-----------------------------------------------------------------------------
(* FileInv.                                                                 *)

\* The steps that touch neither files nor rows nor the append under way.
LEMMA FilesUntouched ==
  ASSUME FileInv, UNCHANGED <<index, cursor, temp, loose, file, bad, nextSeq, mid>>,
         loose # 0 => mode' = "up"
  PROVE  FileInv'
BY DEF FileInv, InOrder, Backed

LEMMA FileKept ==
  ASSUME JournalInv, JournalStep \/ JournalCrash PROVE FileInv'
<1>0. /\ FileInv /\ cursor \in Nat /\ cursor \in Chunks /\ MaxChunks \in Nat
      /\ index \in [Seqs -> Chunks] /\ file \in [Seqs -> Chunks]
      /\ \A n \in 1 .. cursor : n \in Seqs
      /\ loose # 0 => loose \in Seqs
  <2>1. /\ FileInv /\ cursor \in Chunks /\ loose \in Chunks /\ MaxChunks \in Nat
        /\ index \in [Seqs -> Chunks] /\ file \in [Seqs -> Chunks]
    BY JournalAssumption DEF JournalInv, TypeOK
  <2> QED
    BY <2>1 DEF Chunks, Seqs
<1>a. CASE StartCapture \/ ReadOutput \/ FinalizeRunning \/ AbortLaunch \/ Terminate
           \/ ProcessExits \/ RecordExit \/ StoreSnapshot
  <2>1. UNCHANGED <<index, cursor, temp, loose, file, bad, mid, mode>>
    BY <1>a DEF StartCapture, ReadOutput, FinalizeRunning, AbortLaunch, Terminate,
                ProcessExits, RecordExit, StoreSnapshot
  <2>2. nextSeq' = nextSeq \/ mid = "idle"
    BY <1>a DEF StartCapture, Serving, ReadOutput, FinalizeRunning, AbortLaunch, Terminate,
                ProcessExits, RecordExit, StoreSnapshot
  <2> QED
    BY <1>0, <2>1, <2>2 DEF FileInv, InOrder, Backed
<1>b. CASE ReplayFrame
  <2>1. UNCHANGED <<index, cursor, temp, loose, file, bad, nextSeq, mid>>
    BY <1>b DEF ReplayFrame
  <2>2. loose # 0 => mode' = "up"
    BY <1>0, <1>b DEF ReplayFrame, FileInv
  <2> QED
    BY <1>0, <2>1, <2>2, FilesUntouched
<1>c. CASE Restart \/ LoseSession \/ StartupDone \/ StartRebuild
  <2>1. UNCHANGED <<index, cursor, temp, loose, file, bad, nextSeq, mid>>
    BY <1>c DEF Restart, LoseSession, StartupDone, StartRebuild
  <2>2. loose # 0 => mode' = "up"
    BY <1>0, <1>c DEF Restart, LoseSession, StartupDone, StartRebuild, FileInv
  <2> QED
    BY <1>0, <2>1, <2>2, FilesUntouched
<1>d. CASE \E n \in Seqs : Damage(n)
  <2>1. /\ UNCHANGED <<index, cursor, temp, loose, file, nextSeq, mid, mode>>
        /\ bad \subseteq bad'
    BY <1>d DEF Damage
  <2> QED
    BY <1>0, <2>1 DEF FileInv, InOrder, Backed
<1>e. CASE WriteTemp
  <2>1. Head(buffer) = nextSeq /\ nextSeq \in Seqs
    BY <1>e, AppendUnderWay DEF WriteTemp
  <2>2. /\ UNCHANGED <<index, cursor, loose, file, bad, nextSeq, mode>>
        /\ temp' = nextSeq /\ mid' = "temp"
    BY <1>e, <2>1 DEF WriteTemp
  <2> QED
    BY <1>0, <2>2 DEF FileInv, InOrder, Backed
<1>f. CASE RenameTemp
  <2>1. nextSeq = cursor + 1 /\ nextSeq \in Seqs /\ index[nextSeq] = 0 /\ mode = "up"
    BY <1>f, AppendUnderWay DEF RenameTemp
  <2>2. file' = [file EXCEPT ![nextSeq] = nextSeq]
    BY <1>0, <1>f DEF RenameTemp, FileInv
  <2>3. /\ UNCHANGED <<index, cursor, bad, nextSeq, mode>>
        /\ loose' = nextSeq /\ mid' = "final"
    BY <1>f DEF RenameTemp
  <2>4. /\ file'[nextSeq] = nextSeq
        /\ \A n \in Seqs : n # nextSeq => file'[n] = file[n]
    BY <1>0, <2>1, <2>2
  <2>5. InOrder' /\ Backed'
    BY <1>0, <2>1, <2>3, <2>4 DEF FileInv, InOrder, Backed
  <2>6. \A n \in Seqs : n > cursor + 1 => index[n] = 0 /\ file'[n] = 0
    BY <1>0, <2>1, <2>4 DEF FileInv
  <2> QED
    BY <2>1, <2>3, <2>4, <2>5, <2>6 DEF FileInv
<1>g. CASE SyncDirectory
  BY <1>0, <1>g DEF SyncDirectory, FileInv, InOrder, Backed
<1>h. CASE IndexFrame
  <2>1. /\ nextSeq = cursor + 1 /\ nextSeq \in Seqs /\ Head(buffer) = nextSeq
        /\ file[nextSeq] = nextSeq /\ loose = 0
    BY <1>0, <1>h, AppendUnderWay DEF IndexFrame, ReadyToIndex, FileInv
  <2>a. nextSeq # 0
    BY <1>0, <2>1
  <2>2. /\ index' = [index EXCEPT ![nextSeq] = nextSeq] /\ nextSeq # 0
        /\ UNCHANGED <<loose, file, bad>> /\ mid' = "idle"
    BY <1>h, <2>1, <2>a DEF IndexFrame
  <2>3. index'[nextSeq] = nextSeq /\ \A n \in Seqs : n # nextSeq => index'[n] = index[n]
    BY <1>0, <2>1, <2>2
  <2>4. cursor' = cursor \/ cursor' = cursor + 1
    BY <1>h, CursorGrows DEF JournalStep, AppendStep
  <2>5. InOrder'
    BY <1>0, <2>2, <2>3 DEF FileInv, InOrder
  <2>6. Backed'
    BY <1>0, <2>1, <2>2, <2>3, <2>4 DEF FileInv, Backed
  <2>7. \A n \in Seqs : n > cursor' + 1 => n > cursor + 1 /\ n # nextSeq
    BY <1>0, <2>1, <2>4, JournalAssumption DEF Seqs
  <2>8. \A n \in Seqs : n > cursor' + 1 => index'[n] = 0 /\ file'[n] = 0
    BY <1>0, <2>2, <2>3, <2>7 DEF FileInv
  <2> QED
    BY <2>1, <2>2, <2>5, <2>6, <2>8 DEF FileInv
<1>i. CASE AppendFails
  BY <1>0, <1>i DEF AppendFails, FileInv, InOrder, Backed
<1>j. CASE QuarantineTemp
  <2>1. mid = "idle"
    BY <1>j DEF QuarantineTemp, JournalInv, CaptureInv
  <2> QED
    BY <1>0, <1>j, <2>1 DEF QuarantineTemp, FileInv, InOrder, Backed
<1>k. CASE ChunksDone
  <2>1. /\ UNCHANGED <<index, temp, loose, file, bad, nextSeq, mid>> /\ mode = "chunks"
        /\ \/ cursor' = Contiguous(index, cursor)
           \/ cursor' = cursor
    BY <1>k DEF ChunksDone
  <2>2. Contiguous(index, cursor) =
          IF cursor < MaxChunks /\ index[cursor + 1] # 0 THEN cursor + 1 ELSE cursor
    BY <1>0, ContiguousIs DEF FileInv
  <2>3. cursor' = cursor \/ (cursor' = cursor + 1 /\ index[cursor + 1] # 0)
    BY <2>1, <2>2
  <2>4. \A n \in 1 .. cursor' : index[n] # 0
    BY <1>0, <2>3 DEF FileInv, Backed
  <2>5. \A n \in Seqs : n > cursor' + 1 => n > cursor + 1
    BY <1>0, <2>3, JournalAssumption DEF Seqs
  <2>6. loose = 0
    BY <1>0, <2>1 DEF FileInv
  <2>7. InOrder' /\ Backed'
    BY <1>0, <2>1, <2>4 DEF FileInv, InOrder, Backed
  <2> QED
    BY <1>0, <2>1, <2>5, <2>6, <2>7 DEF FileInv
<1>l. CASE \E n \in Seqs : AdoptOrphan(n)
  <2>1. PICK m \in Seqs : AdoptOrphan(m)
    BY <1>l
  <2>2. /\ index' = [index EXCEPT ![m] = file[m]] /\ file[m] # 0 /\ index[m] = 0
        /\ mode = "chunks"
        /\ UNCHANGED <<cursor, temp, loose, file, bad, nextSeq, mid, mode>>
    BY <2>1 DEF AdoptOrphan, Orphan
  <2>3. index'[m] = file[m] /\ \A n \in Seqs : n # m => index'[n] = index[n]
    BY <1>0, <2>2
  <2>4. loose = 0
    BY <1>0, <2>2 DEF FileInv
  <2>5. InOrder' /\ Backed'
    BY <1>0, <2>2, <2>3 DEF FileInv, InOrder, Backed
  <2>6. \A n \in Seqs : n > cursor + 1 => index'[n] = 0
    BY <1>0, <2>2, <2>3 DEF FileInv
  <2> QED
    BY <1>0, <2>2, <2>4, <2>5, <2>6 DEF FileInv
<1>m. CASE JournalCrash
  <2>1. UNCHANGED <<index, cursor, bad>> /\ loose' = 0 /\ mid' = "idle"
    BY <1>m DEF JournalCrash, RenameMayBeLost
  <2>2. \A n \in Seqs : file'[n] = file[n] \/ (n = loose /\ file'[n] = 0)
    <3>1. file' = file \/ (loose # 0 /\ file' = [file EXCEPT ![loose] = 0])
      BY <1>m DEF JournalCrash, RenameMayBeLost
    <3> QED
      BY <1>0, <3>1
  <2>3. \A n \in Seqs : index[n] # 0 => file'[n] = file[n]
    BY <1>0, <2>2 DEF FileInv, Seqs
  <2> QED
    BY <1>0, <2>1, <2>2, <2>3 DEF FileInv, InOrder, Backed
<1> QED
  BY <1>a, <1>b, <1>c, <1>d, <1>e, <1>f, <1>g, <1>h, <1>i, <1>j, <1>k, <1>l, <1>m
     DEF JournalStep, CaptureStep, AppendStep, SnapshotStep, StartupStep

-----------------------------------------------------------------------------
(* SnapshotInv.                                                             *)

LEMMA SnapshotKept ==
  ASSUME JournalInv, JournalStep \/ JournalCrash PROVE SnapshotInv'
<1>0. /\ SnapshotInv /\ cursor \in Nat /\ cursor \in Chunks /\ MaxChunks \in Nat
      /\ task \in [upTo : Chunks, text : Seq(Chunks), safe : Chunks, on : BOOLEAN]
      /\ task.text \in Seq(Chunks) /\ task.upTo \in Nat /\ task.safe \in Nat
      /\ snapshot.covers \in Nat /\ Len(task.text) \in Nat
      /\ cursor' \in {cursor, cursor + 1} /\ 0 \notin Unsafe
  BY JournalAssumption, CursorGrows DEF JournalInv, TypeOK, Chunks
<1>a. CASE UNCHANGED <<snapshot, task>>
  BY <1>0, <1>a DEF SnapshotInv
<1>b. CASE task' \in {NoTask, Building(cursor, <<>>, 0)} /\ UNCHANGED snapshot
  BY <1>0, <1>b DEF SnapshotInv, NoTask, Building
<1>c. CASE ReplayFrame
  <2>1. CASE task' = NoTask
    BY <1>b, <1>c, <2>1 DEF ReplayFrame
  <2>2. CASE task' # NoTask
    <3> DEFINE next == Len(task.text) + 1
    <3>1. /\ task' = Building(task.upTo, Append(task.text, index[next]), SafeAfter(next))
          /\ Readable(next) /\ next <= task.upTo /\ UNCHANGED snapshot
      BY <1>0, <1>c, <2>2 DEF ReplayFrame, Replayed
    <3>2. next \in Seqs /\ index[next] = next
      <4>1. next \in Seqs
        BY <1>0, <3>1 DEF SnapshotInv, Seqs, Chunks
      <4> QED
        BY <3>1, <4>1 DEF Readable, JournalInv, FileInv, InOrder
    <3>3. /\ Len(task'.text) = next /\ DOMAIN task'.text = 1 .. next
          /\ \A i \in DOMAIN task'.text : task'.text[i] = i
      <4>1. task'.text = Append(task.text, next) /\ next \in Chunks
        BY <3>1, <3>2 DEF Building, Seqs, Chunks
      <4>2. /\ Len(task'.text) = next /\ DOMAIN task'.text = 1 .. next
            /\ task'.text[next] = next /\ \A i \in 1 .. Len(task.text) : task'.text[i] = task.text[i]
        BY <1>0, <4>1, AppendSeq
      <4>3. DOMAIN task.text = 1 .. Len(task.text)
        BY <1>0
      <4> QED
        BY <1>0, <4>2, <4>3 DEF SnapshotInv
    <3>4. /\ task'.upTo = task.upTo /\ task'.safe = SafeAfter(next)
          /\ SafeAfter(next) <= next /\ SafeAfter(next) \notin Unsafe
      BY <1>0, <3>1 DEF Building, SafeAfter, SnapshotInv
    <3>5. /\ task'.upTo <= cursor' /\ Len(task'.text) <= task'.upTo
          /\ task'.safe <= Len(task'.text)
      BY <1>0, <3>1, <3>3, <3>4 DEF SnapshotInv
    <3>6. /\ snapshot'.covers <= cursor' /\ snapshot'.covers \notin Unsafe
          /\ snapshot'.text = [i \in 1 .. snapshot'.covers |-> i]
      BY <1>0, <3>1 DEF SnapshotInv
    <3> QED
      BY <3>3, <3>4, <3>5, <3>6 DEF SnapshotInv
  <2> QED
    BY <2>1, <2>2
<1>d. CASE StoreSnapshot
  <2>1. /\ task' = NoTask /\ cursor' = cursor
        /\ snapshot' = [stored |-> TRUE, covers |-> task.safe,
                        text |-> SubSeq(task.text, 1, task.safe)]
    BY <1>d DEF StoreSnapshot
  <2>2. SubSeq(task.text, 1, task.safe) = [i \in 1 .. task.safe |-> i]
    <3>1. /\ SubSeq(task.text, 1, task.safe) = [i \in 1 .. task.safe |-> task.text[i]]
          /\ DOMAIN task.text = 1 .. Len(task.text)
      BY <1>0, Beginning DEF SnapshotInv
    <3>2. \A i \in 1 .. task.safe : task.text[i] = i
      BY <1>0, <3>1 DEF SnapshotInv
    <3> QED
      BY <3>1, <3>2
  <2>3. snapshot'.covers = task.safe /\ snapshot'.text = [i \in 1 .. task.safe |-> i]
    BY <2>1, <2>2
  <2>4. snapshot'.text = [i \in 1 .. snapshot'.covers |-> i]
    BY <2>3
  <2>5. /\ task'.upTo = 0 /\ task'.text = <<>> /\ task'.safe = 0 /\ Len(task'.text) = 0
        /\ \A i \in DOMAIN task'.text : task'.text[i] = i
    BY <2>1 DEF NoTask
  <2>6. snapshot'.covers <= cursor' /\ snapshot'.covers \notin Unsafe
    BY <1>0, <2>1, <2>3 DEF SnapshotInv
  <2> QED
    BY <1>0, <2>1, <2>4, <2>5, <2>6 DEF SnapshotInv
<1> QED
  BY <1>a, <1>b, <1>c, <1>d
     DEF JournalStep, CaptureStep, AppendStep, SnapshotStep, StartupStep, JournalCrash,
         StartCapture, ReadOutput, FinalizeRunning, AbortLaunch, Terminate, ProcessExits,
         RecordExit, Damage, WriteTemp, RenameTemp, SyncDirectory, IndexFrame, AppendFails,
         Restart, QuarantineTemp, AdoptOrphan, ChunksDone, LoseSession, StartRebuild,
         StartupDone

-----------------------------------------------------------------------------
(* JournalInv holds of whatever specification these steps are part of.      *)

\* The journal's invariant holds at the start.
THEOREM JournalStarts == JournalInit => JournalInv
BY TypeInit, CaptureInit, FileInit, SnapshotInit DEF JournalInv

\* Every step of the journal and its crash keep the journal's invariant.
THEOREM JournalInductive == JournalInv /\ (JournalStep \/ JournalCrash) => JournalInv'
BY TypeStep, CaptureKept, FileKept, SnapshotKept DEF JournalInv

-----------------------------------------------------------------------------
(* The reader.                                                              *)

USE DEF vars, readerVars

\* What is shown, posted and sent follow each other up to the cursor at most, and the
\* client and the server agree on what comes next.
ReaderInv ==
  /\ client \in {"none", "closed", "opening"} => port = <<>>
  /\ client # "streaming" => conn = 0
  /\ conn = 0 => wire = <<>>
  /\ conn <= cursor + 1
  /\ applied + Len(port) + Len(wire) <= cursor
  /\ \A i \in DOMAIN port : port[i].seq = applied + i /\ port[i].chunk = applied + i
  /\ \A i \in DOMAIN wire : /\ wire[i].seq = applied + Len(port) + i
                            /\ wire[i].chunk = applied + Len(port) + i
  /\ client # "closed" => want = applied + Len(port) + 1
  /\ conn # 0 => conn = applied + Len(port) + Len(wire) + 1
  /\ screen = [i \in 1 .. applied |-> i]

OutputInv == JournalInv /\ ReaderTypeOK /\ ReaderInv

\* The sizes that the steps below reason about.
LEMMA ReaderFacts ==
  ASSUME OutputInv
  PROVE  /\ cursor \in Nat /\ cursor <= MaxChunks /\ MaxChunks \in Nat
         /\ applied \in Nat /\ conn \in Nat /\ want \in Nat
         /\ Len(port) \in Nat /\ Len(wire) \in Nat /\ Len(screen) = applied
         /\ DOMAIN port = 1 .. Len(port) /\ DOMAIN wire = 1 .. Len(wire)
         /\ port \in Seq(Frame) /\ wire \in Seq(Frame) /\ screen \in Seq(Chunks)
         /\ QueueFrames \in Nat \ {0} /\ snapshot.covers \in Nat
         /\ MaxOpens \in Nat /\ MaxDrops \in Nat
<1>1. /\ cursor \in Chunks /\ applied \in Chunks /\ MaxChunks \in Nat
      /\ snapshot.covers \in Chunks
      /\ port \in Seq(Frame) /\ wire \in Seq(Frame) /\ screen \in Seq(Chunks)
      /\ conn \in 0 .. MaxChunks + 1 /\ want \in 1 .. MaxChunks + 1
  BY JournalAssumption DEF OutputInv, JournalInv, TypeOK, ReaderTypeOK
<1>2. screen = [i \in 1 .. applied |-> i]
  BY DEF OutputInv, ReaderInv
<1>3. Len(screen) = applied
  BY <1>1, <1>2 DEF Chunks
<1> QED
  BY <1>1, <1>3, ReaderAssumption DEF Chunks

LEMMA ReaderNumbers ==
  ASSUME OutputInv
  PROVE  /\ cursor \in Nat /\ applied \in Nat /\ conn \in Nat /\ want \in Nat
         /\ Len(port) \in Nat /\ Len(wire) \in Nat /\ MaxChunks \in Nat
         /\ cursor <= MaxChunks
BY ReaderFacts

\* How far the client, the server and the cursor are from each other.
LEMMA ReaderCounts ==
  ASSUME OutputInv
  PROVE  /\ conn <= cursor + 1 /\ applied + Len(port) + Len(wire) <= cursor
         /\ client # "closed" => want = applied + Len(port) + 1
         /\ conn # 0 => conn = applied + Len(port) + Len(wire) + 1
BY Zenon DEF OutputInv, ReaderInv

\* ReaderTypeOK with the sets of structured values and the ranges named.
FrameSeqs == Seq(Frame)
Shown == Seq(Chunks)
Connections == 0 .. MaxChunks + 1
Openings == 0 .. MaxOpens
Losses == 0 .. MaxDrops
ReaderTyped ==
  /\ att \in {"none", "Active", "Closed"} /\ conn \in Connections
  /\ wire \in FrameSeqs /\ port \in FrameSeqs
  /\ client \in {"none", "opening", "handshake", "streaming", "waiting", "stuck", "closed"}
  /\ want \in Numbers /\ applied \in Chunks /\ screen \in Shown
  /\ opens \in Openings /\ drops \in Losses

LEMMA ReaderParts ==
  (ReaderTypeOK <=> ReaderTyped) /\ (ReaderTypeOK' <=> ReaderTyped')
<1> USE DEF ReaderTypeOK, ReaderTyped, FrameSeqs, Shown, Numbers, Connections, Openings, Losses
<1>1. ReaderTypeOK <=> ReaderTyped
  BY Zenon
<1>2. ReaderTypeOK' <=> ReaderTyped'
  BY Zenon
<1> QED
  BY <1>1, <1>2

\* The frames of a batch.
LEMMA FramesAre ==
  ASSUME JournalInv, NEW from \in Nat \ {0}, NEW to \in Nat, from <= to, to <= cursor
  PROVE  /\ Frames(from, to) \in Seq(Frame) /\ Len(Frames(from, to)) = to + 1 - from
         /\ \A i \in 1 .. to + 1 - from :
              /\ Frames(from, to)[i].seq = from + i - 1
              /\ Frames(from, to)[i].chunk = from + i - 1
<1>1. /\ cursor \in Nat /\ cursor <= MaxChunks /\ MaxChunks \in Nat
      /\ index \in [Seqs -> Chunks]
      /\ \A n \in Seqs : index[n] \in {0, n}
      /\ \A n \in 1 .. cursor : index[n] # 0
  BY JournalAssumption DEF JournalInv, TypeOK, FileInv, InOrder, Backed, Chunks
<1>2. ASSUME NEW i \in 1 .. to + 1 - from
      PROVE  /\ from + i - 1 \in Seqs /\ index[from + i - 1] = from + i - 1
             /\ from + i - 1 \in Chunks
  <2>1. from + i - 1 \in Seqs /\ from + i - 1 \in 1 .. cursor /\ from + i - 1 \in Chunks
    BY <1>1 DEF Seqs, Chunks
  <2> QED
    BY <1>1, <2>1
<1>3. \A i \in 1 .. to + 1 - from :
        [seq |-> from + i - 1, chunk |-> index[from + i - 1]] \in Frame
  BY <1>2 DEF Frame
<1>4. Frames(from, to) \in [1 .. to + 1 - from -> Frame] /\ to + 1 - from \in Nat
  BY <1>3 DEF Frames
<1>5. Frames(from, to) \in Seq(Frame) /\ Len(Frames(from, to)) = to + 1 - from
  BY <1>4
<1>6. \A i \in 1 .. to + 1 - from :
        Frames(from, to)[i] = [seq |-> from + i - 1, chunk |-> from + i - 1]
  BY <1>2 DEF Frames
<1>7. ASSUME NEW i \in 1 .. to + 1 - from
      PROVE  Frames(from, to)[i].seq = from + i - 1 /\ Frames(from, to)[i].chunk = from + i - 1
  <2>1. Frames(from, to)[i] = [seq |-> from + i - 1, chunk |-> from + i - 1]
    BY <1>6
  <2> QED
    BY <2>1
<1> QED
  BY <1>5, <1>7

LEMMA Concatenated ==
  ASSUME NEW S, NEW s \in Seq(S), NEW t \in Seq(S)
  PROVE  /\ s \o t \in Seq(S) /\ Len(s \o t) = Len(s) + Len(t)
         /\ \A i \in 1 .. Len(s) : (s \o t)[i] = s[i]
         /\ \A i \in Len(s) + 1 .. Len(s) + Len(t) : (s \o t)[i] = t[i - Len(s)]
OBVIOUS

LEMMA OutputStarts == Init => OutputInv
<1> SUFFICES ASSUME Init PROVE OutputInv
  OBVIOUS
<1>1. JournalInv
  BY JournalStarts DEF Init
<1>2. ReaderTypeOK
  <2>1. /\ 0 \in Chunks /\ MaxChunks \in Nat /\ 1 \in 1 .. MaxChunks + 1
        /\ MaxOpens \in Nat /\ MaxDrops \in Nat
        /\ <<>> \in Seq(Frame) /\ <<>> \in Seq(Chunks)
    BY JournalAssumption, ReaderAssumption, EmptySeq DEF Chunks
  <2> QED
    BY <2>1 DEF Init, ReaderTypeOK
<1>3. cursor = 0 /\ applied = 0 /\ port = <<>> /\ wire = <<>> /\ screen = <<>> /\ conn = 0
      /\ want = 1
  BY DEF Init, JournalInit
<1>4. screen = [i \in 1 .. applied |-> i]
  BY <1>3
<1> QED
  BY <1>1, <1>2, <1>3, <1>4 DEF OutputInv, ReaderInv, Init

-----------------------------------------------------------------------------
(* A step that closes the terminal, and one that ends the connection.       *)

LEMMA CloseKeeps ==
  ASSUME OutputInv, Close, UNCHANGED <<journalVars, applied, screen, opens, drops>>,
         want' \in 1 .. MaxChunks + 1
  PROVE  ReaderTypeOK' /\ ReaderInv'
<1>1. ReaderTypeOK'
  <2>1. 0 \in Connections /\ <<>> \in FrameSeqs /\ want' \in Numbers
    BY EmptySeq, JournalAssumption DEF Connections, FrameSeqs, Numbers
  <2>2. /\ client' = "closed" /\ conn' = 0 /\ wire' = <<>> /\ port' = <<>>
        /\ att' = "Closed" \/ att' = att
        /\ UNCHANGED <<applied, screen, opens, drops>>
    BY DEF Close
  <2>3. ReaderTyped
    BY ReaderParts DEF OutputInv
  <2> QED
    BY <2>1, <2>2, <2>3, ReaderParts DEF ReaderTyped
<1>2. applied + 0 + 0 <= cursor /\ 0 <= cursor + 1
  BY ReaderNumbers, ReaderCounts
<1>3. /\ conn' = 0 /\ wire' = <<>> /\ port' = <<>> /\ client' = "closed"
      /\ cursor' = cursor /\ applied' = applied /\ screen' = screen
  BY DEF Close
<1>4. Len(port') = 0 /\ Len(wire') = 0 /\ DOMAIN port' = {} /\ DOMAIN wire' = {}
  BY <1>3
<1>5. screen' = [i \in 1 .. applied' |-> i]
  BY <1>3 DEF OutputInv, ReaderInv
<1>6. applied' + Len(port') + Len(wire') <= cursor' /\ conn' <= cursor' + 1
  BY <1>2, <1>3, <1>4
<1>7. ReaderInv'
  BY <1>3, <1>4, <1>5, <1>6 DEF ReaderInv
<1> QED
  BY <1>1, <1>7

LEMMA DisconnectKeeps ==
  ASSUME OutputInv, Disconnect, UNCHANGED <<want, port, applied, screen, opens>>,
         att' = att \/ att' = "Closed", drops' \in 0 .. MaxDrops, cursor' \in {cursor, cursor + 1}
  PROVE  ReaderTypeOK' /\ ReaderInv'
<1>1. ReaderTypeOK'
  <2>1. 0 \in Connections /\ <<>> \in FrameSeqs /\ drops' \in Losses
    BY EmptySeq, JournalAssumption DEF Connections, FrameSeqs, Losses
  <2>2. ReaderTyped
    BY ReaderParts DEF OutputInv
  <2> QED
    BY <2>1, <2>2, ReaderParts DEF ReaderTyped, Disconnect, AfterLoss
<1>2. applied + Len(port) + 0 <= cursor'
  BY ReaderNumbers, ReaderCounts
<1>3. client' \in {"none", "closed", "opening"} => port' = <<>>
  BY DEF OutputInv, ReaderInv, Disconnect, AfterLoss
<1>4. client' # "closed" => want' = applied' + Len(port') + 1
  BY DEF OutputInv, ReaderInv, Disconnect, AfterLoss
<1>5. 0 <= cursor' + 1
  BY ReaderNumbers
<1> QED
  BY <1>1, <1>2, <1>3, <1>4, <1>5 DEF OutputInv, ReaderInv, Disconnect

-----------------------------------------------------------------------------
(* The reader's steps.                                                      *)

LEMMA OpenKeeps == ASSUME OutputInv, OpenTerminal PROVE ReaderTypeOK' /\ ReaderInv'
<1>1. /\ snapshot.covers \in Chunks /\ snapshot.covers <= cursor
      /\ snapshot.text \in Seq(Chunks) /\ snapshot.text = [i \in 1 .. snapshot.covers |-> i]
      /\ snapshot.covers + 1 \in 1 .. MaxChunks + 1
  <2>1. /\ snapshot.covers \in Chunks /\ snapshot.covers <= cursor
        /\ snapshot.text \in Seq(Chunks)
        /\ snapshot.text = [i \in 1 .. snapshot.covers |-> i]
    BY DEF OutputInv, JournalInv, TypeOK, SnapshotInv
  <2>2. snapshot.covers + 1 \in 1 .. MaxChunks + 1
    BY <2>1, JournalAssumption DEF Chunks
  <2> QED
    BY <2>1, <2>2
<1>2. port = <<>> /\ conn = 0 /\ wire = <<>>
  BY DEF OpenTerminal, OutputInv, ReaderInv
<1>3. /\ applied' = snapshot.covers /\ screen' = snapshot.text
      /\ want' = snapshot.covers + 1 /\ client' = "opening"
      /\ UNCHANGED <<cursor, port, conn, wire, drops>>
  BY DEF OpenTerminal, DeltaFrom
<1>4. opens' \in Openings
  BY ReaderAssumption DEF OpenTerminal, OutputInv, ReaderTypeOK, Openings
<1>5. ReaderTypeOK'
  <2>1. ReaderTyped
    BY ReaderParts DEF OutputInv
  <2>2. want' \in Numbers /\ screen' \in Shown /\ applied' \in Chunks
    BY <1>1, <1>3 DEF Numbers, Shown
  <2> QED
    BY <1>3, <1>4, <2>1, <2>2, ReaderParts DEF ReaderTyped, OpenTerminal
<1>6. /\ Len(port') = 0 /\ Len(wire') = 0 /\ DOMAIN port' = {} /\ DOMAIN wire' = {}
      /\ port' = <<>> /\ wire' = <<>> /\ conn' = 0 /\ cursor' = cursor
  BY <1>2, <1>3
<1>7. screen' = [i \in 1 .. applied' |-> i]
  BY <1>1, <1>3
<1>8. /\ applied' + Len(port') + Len(wire') <= cursor' /\ conn' <= cursor' + 1
      /\ want' = applied' + Len(port') + 1
  <2>1. snapshot.covers \in Nat /\ cursor \in Nat
    BY <1>1, ReaderNumbers DEF Chunks
  <2> QED
    BY <1>1, <1>3, <1>6, <2>1
<1> QED
  BY <1>3, <1>5, <1>6, <1>7, <1>8 DEF ReaderInv

LEMMA PumpKeeps == ASSUME OutputInv, Pump PROVE ReaderTypeOK' /\ ReaderInv'
<1>0. /\ cursor \in Nat /\ applied \in Nat /\ conn \in Nat
      /\ Len(port) \in Nat /\ Len(wire) \in Nat
  BY ReaderNumbers
<1>1. PICK last \in conn .. BatchEnd :
        wire' = wire \o Frames(conn, last) /\ conn' = AfterWrite(last)
  BY DEF Pump
<1>2. /\ conn # 0 /\ client = "streaming"
      /\ conn = applied + Len(port) + Len(wire) + 1
  BY DEF Pump, OutputInv, ReaderInv
<1>3. conn \in Nat \ {0} /\ last \in Nat /\ conn <= last /\ last <= cursor
  <2>1. BatchEnd \in Nat /\ BatchEnd <= cursor
    BY <1>0, <1>2, ReaderAssumption DEF BatchEnd, Smaller
  <2> QED
    BY <1>0, <1>1, <1>2, <2>1
<1>4. /\ Frames(conn, last) \in Seq(Frame) /\ Len(Frames(conn, last)) = last + 1 - conn
      /\ \A i \in 1 .. last + 1 - conn : /\ Frames(conn, last)[i].seq = conn + i - 1
                                       /\ Frames(conn, last)[i].chunk = conn + i - 1
  BY <1>3, FramesAre DEF OutputInv
<1> DEFINE fresh == Frames(conn, last)
<1>5. /\ wire' \in Seq(Frame) /\ Len(wire') = Len(wire) + Len(fresh)
      /\ \A i \in 1 .. Len(wire) : wire'[i] = wire[i]
      /\ \A i \in Len(wire) + 1 .. Len(wire) + Len(fresh) : wire'[i] = fresh[i - Len(wire)]
  <2>1. wire \in Seq(Frame) /\ fresh \in Seq(Frame) /\ wire' = wire \o fresh
    BY <1>1, <1>4, ReaderFacts
  <2> HIDE DEF fresh
  <2> QED
    BY <2>1, Concatenated
<1>11. Len(fresh) = last + 1 - conn
  BY <1>4 DEF fresh
<1> HIDE DEF fresh
<1>6. /\ conn' = last + 1 /\ conn' \in Connections
      /\ UNCHANGED <<cursor, att, client, want, port, applied, screen, opens, drops>>
  <2>1. /\ conn' = last + 1
        /\ UNCHANGED <<cursor, att, client, want, port, applied, screen, opens, drops>>
    BY <1>1 DEF Pump, AfterWrite
  <2> QED
    BY <1>3, <2>1, ReaderNumbers DEF Connections
<1>7. ReaderTypeOK'
  <2>1. ReaderTyped /\ wire' \in FrameSeqs
    BY <1>5, ReaderParts DEF OutputInv, FrameSeqs
  <2> QED
    BY <1>6, <2>1, ReaderParts DEF ReaderTyped
<1>8. Len(wire') = Len(wire) + last + 1 - conn /\ DOMAIN wire' = 1 .. Len(wire')
  <2>1. DOMAIN wire' = 1 .. Len(wire')
    BY <1>5
  <2> QED
    BY <1>0, <1>3, <1>5, <1>11, <2>1
<1>9. ASSUME NEW i \in DOMAIN wire'
      PROVE  wire'[i].seq = applied + Len(port) + i /\ wire'[i].chunk = applied + Len(port) + i
  <2>1. CASE i \in 1 .. Len(wire)
    BY <1>5, <2>1, ReaderFacts DEF OutputInv, ReaderInv
  <2>2. CASE i \notin 1 .. Len(wire)
    <3>1. /\ i \in Len(wire) + 1 .. Len(wire) + Len(fresh)
          /\ i - Len(wire) \in 1 .. last + 1 - conn
      BY <1>0, <1>3, <1>8, <1>11, <2>2
    <3>2. wire'[i] = fresh[i - Len(wire)]
      BY <1>5, <3>1
    <3>3. /\ fresh[i - Len(wire)].seq = conn + (i - Len(wire)) - 1
          /\ fresh[i - Len(wire)].chunk = conn + (i - Len(wire)) - 1
      BY <1>4, <3>1 DEF fresh
    <3>4. conn + (i - Len(wire)) - 1 = applied + Len(port) + i
      BY <1>0, <1>2, <1>3, <3>1
    <3> QED
      BY <3>2, <3>3, <3>4
  <2> QED
    BY <2>1, <2>2
<1>10. /\ applied + Len(port) + Len(wire') <= cursor /\ conn' <= cursor + 1
       /\ conn' = applied + Len(port) + Len(wire') + 1 /\ conn' # 0
  BY <1>0, <1>2, <1>3, <1>6, <1>8
<1> QED
  BY <1>2, <1>6, <1>7, <1>9, <1>10 DEF OutputInv, ReaderInv

LEMMA ReceiveKeeps == ASSUME OutputInv, Receive PROVE ReaderTypeOK' /\ ReaderInv'
<1>0. /\ cursor \in Nat /\ applied \in Nat /\ conn \in Nat
      /\ Len(port) \in Nat /\ Len(wire) \in Nat
  BY ReaderNumbers
<1>1. /\ client = "streaming" /\ wire # <<>> /\ want = applied + Len(port) + 1
      /\ want' = Head(wire).seq + 1
      /\ UNCHANGED <<journalVars, applied, screen, opens, drops>>
  BY DEF Receive, Wanted, OutputInv, ReaderInv
<1>2. /\ Head(wire) \in Frame /\ Head(wire) = wire[1] /\ Tail(wire) \in Seq(Frame)
      /\ Len(wire) \in Nat \ {0} /\ Len(Tail(wire)) = Len(wire) - 1
      /\ \A i \in 1 .. Len(wire) - 1 : Tail(wire)[i] = wire[i + 1]
  BY <1>1, ReaderFacts, HeadTail
<1>3. /\ Head(wire).seq = applied + Len(port) + 1 /\ Head(wire).chunk = applied + Len(port) + 1
      /\ want' = applied + Len(port) + 2 /\ want' \in 1 .. MaxChunks + 1
  <2>1. 1 \in DOMAIN wire
    BY <1>2, ReaderFacts
  <2>2. /\ wire[1].seq = applied + Len(port) + 1 /\ wire[1].chunk = applied + Len(port) + 1
    BY <2>1 DEF OutputInv, ReaderInv
  <2>3. applied + Len(port) + 1 <= MaxChunks
    <3>1. applied + Len(port) + Len(wire) <= cursor
      BY DEF OutputInv, ReaderInv
    <3> QED
      BY <1>2, <3>1, ReaderFacts
  <2>4. applied + Len(port) + 2 \in 1 .. MaxChunks + 1
    BY <1>0, <2>3, JournalAssumption
  <2>5. want' = applied + Len(port) + 2
    BY <1>0, <1>1, <1>2, <2>2
  <2> QED
    BY <1>2, <2>2, <2>4, <2>5
<1>4. CASE Refused(Head(wire))
  <2>1. Close
    BY <1>4 DEF Receive
  <2> QED
    BY <1>1, <1>3, <2>1, CloseKeeps
<1>5. CASE ~Refused(Head(wire))
  <2>1. /\ port' = Append(port, Head(wire)) /\ wire' = Tail(wire)
        /\ UNCHANGED <<att, client, conn>>
    BY <1>5 DEF Receive
  <2>2. /\ port' \in Seq(Frame) /\ Len(port') = Len(port) + 1
        /\ port'[Len(port) + 1] = Head(wire)
        /\ \A i \in 1 .. Len(port) : port'[i] = port[i]
        /\ DOMAIN port' = 1 .. Len(port) + 1 /\ DOMAIN wire' = 1 .. Len(wire) - 1
    BY <1>2, <2>1, ReaderFacts, AppendSeq
  <2>3. ReaderTypeOK'
    <3>1. /\ ReaderTyped /\ want' \in Numbers
          /\ port' \in FrameSeqs /\ wire' \in FrameSeqs
      BY <1>2, <1>3, <2>1, <2>2, ReaderParts DEF OutputInv, Numbers, FrameSeqs
    <3> QED
      BY <1>1, <2>1, <3>1, ReaderParts DEF ReaderTyped
  <2>4. ASSUME NEW i \in DOMAIN port'
        PROVE  port'[i].seq = applied + i /\ port'[i].chunk = applied + i
    <3>1. CASE i = Len(port) + 1
      BY <1>0, <1>3, <2>2, <3>1
    <3>2. CASE i \in 1 .. Len(port)
      BY <2>2, <3>2, ReaderFacts DEF OutputInv, ReaderInv
    <3> QED
      BY <2>2, <3>1, <3>2, ReaderFacts
  <2>5. ASSUME NEW i \in DOMAIN wire'
        PROVE  /\ wire'[i].seq = applied + Len(port') + i
               /\ wire'[i].chunk = applied + Len(port') + i
    <3>0. DOMAIN wire = 1 .. Len(wire)
      BY ReaderFacts
    <3>1. i \in 1 .. Len(wire) - 1 /\ i + 1 \in DOMAIN wire
      BY <1>0, <2>2, <3>0
    <3>2. wire'[i] = wire[i + 1]
      BY <1>2, <2>1, <3>1
    <3>3. /\ wire[i + 1].seq = applied + Len(port) + (i + 1)
          /\ wire[i + 1].chunk = applied + Len(port) + (i + 1)
      BY <3>1 DEF OutputInv, ReaderInv
    <3>4. applied + Len(port) + (i + 1) = applied + Len(port') + i
      BY <1>0, <2>2, <3>1
    <3> QED
      BY <3>2, <3>3, <3>4
  <2>6. /\ Len(wire') = Len(wire) - 1 /\ cursor' = cursor /\ applied' = applied
        /\ applied + Len(port') + Len(wire') = applied + Len(port) + Len(wire)
        /\ want' = applied + Len(port') + 1
    <3>1. /\ cursor' = cursor /\ applied' = applied /\ Len(wire') = Len(wire) - 1
          /\ Len(port') = Len(port) + 1 /\ want' = applied + Len(port) + 2
      BY <1>1, <1>2, <1>3, <2>1, <2>2
    <3> QED
      BY <1>0, <3>1
  <2>7. conn # 0
    BY <1>1 DEF OutputInv, ReaderInv
  <2>8. /\ conn' <= cursor' + 1 /\ applied' + Len(port') + Len(wire') <= cursor'
        /\ conn' = applied' + Len(port') + Len(wire') + 1 /\ conn' # 0
    BY <2>1, <2>6, <2>7 DEF OutputInv, ReaderInv
  <2>9. screen' = [i \in 1 .. applied' |-> i]
    BY <1>1 DEF OutputInv, ReaderInv
  <2> QED
    BY <1>1, <2>1, <2>3, <2>4, <2>5, <2>6, <2>8, <2>9 DEF ReaderInv
<1> QED
  BY <1>4, <1>5

LEMMA ApplyKeeps == ASSUME OutputInv, Apply PROVE ReaderTypeOK' /\ ReaderInv'
<1>0. /\ cursor \in Nat /\ applied \in Nat /\ conn \in Nat
      /\ Len(port) \in Nat /\ Len(wire) \in Nat /\ MaxChunks \in Nat /\ cursor <= MaxChunks
  BY ReaderNumbers
<1>1. /\ client # "closed" /\ port # <<>> /\ UNCHANGED <<journalVars, want, opens, drops>>
  BY DEF Apply
<1>2. /\ Head(port) = port[1] /\ Tail(port) \in Seq(Frame)
      /\ Len(port) \in Nat \ {0} /\ Len(Tail(port)) = Len(port) - 1
      /\ \A i \in 1 .. Len(port) - 1 : Tail(port)[i] = port[i + 1]
  BY <1>1, ReaderFacts, HeadTail
<1>3. /\ 1 \in DOMAIN port /\ Head(port).seq = applied + 1 /\ Head(port).chunk = applied + 1
  <2>1. 1 \in DOMAIN port
    BY <1>2, ReaderFacts
  <2> QED
    BY <1>2, <2>1 DEF OutputInv, ReaderInv
<1>4. /\ screen' = Append(screen, applied + 1) /\ applied' = applied + 1
      /\ port' = Tail(port) /\ UNCHANGED <<att, client, conn, wire>>
  BY <1>3 DEF Apply, InSequence
<1>5. /\ applied + Len(port) + Len(wire) <= cursor
      /\ applied + 1 \in Chunks
  <2>1. applied + Len(port) + Len(wire) <= cursor
    BY DEF OutputInv, ReaderInv
  <2>2. applied + 1 \in 0 .. MaxChunks
    BY <1>0, <1>2, <2>1
  <2> QED
    BY <2>1, <2>2 DEF Chunks
<1>6. /\ screen' \in Seq(Chunks) /\ Len(screen') = applied + 1 /\ screen'[applied + 1] = applied + 1
      /\ \A i \in 1 .. applied : screen'[i] = screen[i]
  <2>1. screen \in Seq(Chunks) /\ Len(screen) = applied
    BY ReaderFacts
  <2> QED
    BY <1>4, <1>5, <2>1, AppendSeq
<1>7. screen' = [i \in 1 .. applied' |-> i]
  <2>1. \A i \in 1 .. applied : screen'[i] = i
    BY <1>6 DEF OutputInv, ReaderInv
  <2>2. \A i \in 1 .. applied + 1 : screen'[i] = i
    BY <1>0, <1>6, <2>1
  <2>3. DOMAIN screen' = 1 .. applied + 1 /\ screen' = [i \in DOMAIN screen' |-> screen'[i]]
    BY <1>6
  <2> QED
    BY <1>4, <2>2, <2>3
<1>8. ReaderTypeOK'
  <2>1. /\ ReaderTyped /\ applied' \in Chunks
        /\ port' \in FrameSeqs /\ screen' \in Shown
    BY <1>2, <1>4, <1>5, <1>6, ReaderParts DEF OutputInv, FrameSeqs, Shown
  <2> QED
    BY <1>1, <1>4, <2>1, ReaderParts DEF ReaderTyped
<1>9. DOMAIN port' = 1 .. Len(port) - 1 /\ Len(port') = Len(port) - 1
  BY <1>2, <1>4
<1>10. ASSUME NEW i \in DOMAIN port'
       PROVE  port'[i].seq = applied' + i /\ port'[i].chunk = applied' + i
  <2>1. i \in 1 .. Len(port) - 1 /\ i + 1 \in 1 .. Len(port)
    BY <1>2, <1>9
  <2>2. port'[i] = port[i + 1] /\ i + 1 \in DOMAIN port
    BY <1>2, <1>4, <2>1, ReaderFacts
  <2>3. port[i + 1].seq = applied + (i + 1) /\ port[i + 1].chunk = applied + (i + 1)
    BY <2>2 DEF OutputInv, ReaderInv
  <2>4. applied + (i + 1) = applied' + i
    BY <1>0, <1>4, <2>1
  <2> QED
    BY <2>2, <2>3, <2>4
<1>11. applied' + Len(port') = applied + Len(port)
  <2>1. applied' = applied + 1 /\ Len(port') = Len(port) - 1
    BY <1>4, <1>9
  <2> QED
    BY <1>0, <2>1
<1>12. \A i \in DOMAIN wire' : /\ wire'[i].seq = applied' + Len(port') + i
                              /\ wire'[i].chunk = applied' + Len(port') + i
  BY <1>4, <1>11 DEF OutputInv, ReaderInv
<1>13. /\ applied' + Len(port') + Len(wire') <= cursor' /\ conn' <= cursor' + 1
       /\ want' = applied' + Len(port') + 1
       /\ conn' # 0 => conn' = applied' + Len(port') + Len(wire') + 1
  BY <1>1, <1>4, <1>5, <1>11 DEF OutputInv, ReaderInv
<1>14. client \notin {"none", "opening"}
  BY <1>1 DEF OutputInv, ReaderInv
<1> QED
  BY <1>1, <1>4, <1>7, <1>8, <1>10, <1>12, <1>13, <1>14 DEF OutputInv, ReaderInv

LEMMA ConnectKeeps ==
  ASSUME OutputInv, Connect \/ Reconnect \/ ControlLost PROVE ReaderTypeOK' /\ ReaderInv'
<1>0. /\ cursor \in Nat /\ applied \in Nat /\ want \in Nat
      /\ Len(port) \in Nat /\ Len(wire) \in Nat /\ MaxChunks \in Nat /\ cursor <= MaxChunks
  BY ReaderNumbers
<1>1. CASE Connect
  <2>1. /\ wire = <<>> /\ want = applied + Len(port) + 1
        /\ applied + Len(port) + Len(wire) <= cursor
    BY <1>1 DEF Connect, OutputInv, ReaderInv
  <2>2. /\ conn' = want /\ client' = "streaming"
        /\ UNCHANGED <<cursor, att, wire, want, port, applied, screen, opens, drops>>
    BY <1>1 DEF Connect, ResumeFrom
  <2>3. /\ Len(wire) = 0 /\ conn' = applied + Len(port) + Len(wire) + 1 /\ conn' # 0
        /\ conn' <= cursor + 1 /\ conn' \in 0 .. MaxChunks + 1
    BY <1>0, <2>1, <2>2
  <2>4. ReaderTypeOK'
    BY <2>2, <2>3 DEF OutputInv, ReaderTypeOK
  <2> QED
    BY <2>1, <2>2, <2>3, <2>4 DEF OutputInv, ReaderInv
<1>2. CASE Reconnect
  BY <1>2 DEF Reconnect, OutputInv, ReaderInv, ReaderTypeOK
<1>3. CASE ControlLost
  BY <1>3 DEF ControlLost, OutputInv, ReaderInv, ReaderTypeOK
<1> QED
  BY <1>1, <1>2, <1>3

LEMMA ReaderKept ==
  ASSUME OutputInv, ReaderStep PROVE JournalInv' /\ ReaderTypeOK' /\ ReaderInv'
<1>1. UNCHANGED journalVars
  BY DEF ReaderStep, StreamStep, OpenTerminal, CloseTerminal, ControlLost, LoseConnection,
         Connect, Reconnect, Pump, PumpFails, Receive, Apply
<1>2. JournalInv'
  BY <1>1 DEF OutputInv, JournalInv, TypeOK, CaptureInv, FileInv, InOrder, Backed, SnapshotInv
<1>3. CASE CloseTerminal
  <2>1. want' \in 1 .. MaxChunks + 1
    BY <1>3 DEF CloseTerminal, OutputInv, ReaderTypeOK
  <2> QED
    BY <1>2, <1>3, <2>1, CloseKeeps DEF CloseTerminal
<1>4. CASE LoseConnection \/ PumpFails
  <2>1. drops' \in 0 .. MaxDrops /\ (att' = att \/ att' = "Closed")
    BY <1>4, ReaderAssumption DEF LoseConnection, PumpFails, OutputInv, ReaderTypeOK
  <2>2. Disconnect /\ UNCHANGED <<cursor, want, port, applied, screen, opens>>
    BY <1>1, <1>4 DEF LoseConnection, PumpFails
  <2> QED
    BY <1>2, <2>1, <2>2, DisconnectKeeps
<1> QED
  BY <1>2, <1>3, <1>4, OpenKeeps, PumpKeeps, ReceiveKeeps, ApplyKeeps, ConnectKeeps
     DEF ReaderStep, StreamStep

LEMMA JournalKept ==
  ASSUME OutputInv, JournalStep, UNCHANGED readerVars PROVE OutputInv'
<1>1. JournalInv' /\ cursor' \in {cursor, cursor + 1}
  BY JournalInductive, CursorGrows DEF OutputInv
<1>2. ReaderTypeOK'
  BY DEF OutputInv, ReaderTypeOK
<1>3. applied + Len(port) + Len(wire) <= cursor' /\ conn <= cursor' + 1
  <2>1. cursor' = cursor \/ cursor' = cursor + 1
    BY <1>1
  <2> QED
    BY <2>1, ReaderNumbers DEF OutputInv, ReaderInv
<1> QED
  BY <1>1, <1>2, <1>3 DEF OutputInv, ReaderInv

LEMMA CrashKept == ASSUME OutputInv, Crash PROVE OutputInv'
<1>1. JournalInv' /\ cursor' \in {cursor, cursor + 1}
  BY JournalInductive, CursorGrows DEF OutputInv, Crash
<1>2. drops' \in 0 .. MaxDrops
  BY DEF Crash, OutputInv, ReaderTypeOK
<1> QED
  BY <1>1, <1>2, DisconnectKeeps DEF Crash, OutputInv

THEOREM OutputInductive == Spec => []OutputInv
<1>1. Init => OutputInv
  BY OutputStarts
<1>2. OutputInv /\ [Next]_vars => OutputInv'
  <2> SUFFICES ASSUME OutputInv, [Next]_vars PROVE OutputInv'
    OBVIOUS
  <2>1. CASE JournalStep /\ UNCHANGED readerVars
    BY <2>1, JournalKept
  <2>2. CASE ReaderStep
    BY <2>2, ReaderKept DEF OutputInv
  <2>3. CASE Crash
    BY <2>3, CrashKept
  <2>4. CASE UNCHANGED vars
    BY <2>4 DEF OutputInv, JournalInv, TypeOK, CaptureInv, FileInv, InOrder, Backed, SnapshotInv,
                ReaderTypeOK, ReaderInv
  <2> QED
    BY <2>1, <2>2, <2>3, <2>4 DEF Next
<1> QED
  BY <1>1, <1>2, PTL DEF Spec

-----------------------------------------------------------------------------
(* The safety properties.                                                   *)

\* Every variable of the journal and of the reader keeps its type.
THEOREM TypeCorrect == Spec => []AllTypeOK
<1>1. OutputInv => AllTypeOK
  BY DEF OutputInv, JournalInv, AllTypeOK
<1> QED
  BY <1>1, OutputInductive, PTL

\* appendFrame, failed appends, crashes and reconcileStore keep every chunk under its
\* number.
THEOREM StoredInOrderHolds == Spec => []StoredInOrder
<1>1. OutputInv => StoredInOrder
  BY DEF OutputInv, JournalInv, FileInv, InOrder, StoredInOrder
<1> QED
  BY <1>1, OutputInductive, PTL

\* No crash undoes a rename behind a row of the index.
THEOREM FileBehindRowHolds == Spec => []FileBehindRow
<1>1. OutputInv => FileBehindRow
  BY DEF OutputInv, JournalInv, FileInv, Backed, FileBehindRow
<1> QED
  BY <1>1, OutputInductive, PTL

\* readSessionDelta and the Snapshot never run ahead of the durable cursor.
THEOREM PublishedDurable == Spec => []PublishedIsDurable
<1>1. ASSUME OutputInv PROVE PublishedIsDurable
  <2>0. /\ cursor \in Nat /\ applied \in Nat /\ Len(port) \in Nat /\ Len(wire) \in Nat
    BY <1>1, ReaderNumbers
  <2>1. /\ applied + Len(port) + Len(wire) <= cursor /\ snapshot.covers <= cursor
        /\ DOMAIN port = 1 .. Len(port) /\ DOMAIN wire = 1 .. Len(wire)
    BY <1>1, ReaderFacts DEF OutputInv, JournalInv, SnapshotInv, ReaderInv
  <2>2. ASSUME NEW i \in DOMAIN wire PROVE wire[i].seq <= cursor
    <3>1. wire[i].seq = applied + Len(port) + i
      BY <1>1 DEF OutputInv, ReaderInv
    <3>2. i \in 1 .. Len(wire)
      BY <2>1
    <3> QED
      BY <2>0, <2>1, <3>1, <3>2
  <2>3. ASSUME NEW i \in DOMAIN port PROVE port[i].seq <= cursor
    <3>1. port[i].seq = applied + i
      BY <1>1 DEF OutputInv, ReaderInv
    <3>2. i \in 1 .. Len(port)
      BY <2>1
    <3> QED
      BY <2>0, <2>1, <3>1, <3>2
  <2>4. applied <= cursor
    BY <2>0, <2>1
  <2> QED
    BY <2>1, <2>2, <2>3, <2>4 DEF PublishedIsDurable
<1> QED
  BY <1>1, OutputInductive, PTL

\* A stored Snapshot shows what it says it covers and ends at a safe checkpoint.
THEOREM SnapshotSoundHolds == Spec => []SnapshotSound
<1>1. OutputInv => SnapshotSound
  BY DEF OutputInv, JournalInv, SnapshotInv, SnapshotSound
<1> QED
  BY <1>1, OutputInductive, PTL

\* Snapshot, delta and every reconnection join without a gap or a repetition.
THEOREM JoinedHolds == Spec => []Joined
<1>1. ASSUME OutputInv, client # "closed" PROVE Joined
  <2> DEFINE sent == port \o wire
  <2>0. /\ applied \in Nat /\ Len(port) \in Nat /\ Len(wire) \in Nat
    BY <1>1, ReaderNumbers
  <2>1. /\ sent \in Seq(Frame) /\ Len(sent) = Len(port) + Len(wire)
        /\ \A i \in 1 .. Len(port) : sent[i] = port[i]
        /\ \A i \in Len(port) + 1 .. Len(port) + Len(wire) : sent[i] = wire[i - Len(port)]
        /\ DOMAIN port = 1 .. Len(port) /\ DOMAIN wire = 1 .. Len(wire)
    BY <1>1, ReaderFacts, Concatenated
  <2>2. DOMAIN sent = 1 .. Len(port) + Len(wire)
    BY <2>1
  <2> HIDE DEF sent
  <2>3. ASSUME NEW i \in DOMAIN sent PROVE sent[i].seq = applied + i
    <3>1. CASE i \in 1 .. Len(port)
      BY <1>1, <2>1, <3>1 DEF OutputInv, ReaderInv
    <3>2. CASE i \notin 1 .. Len(port)
      <4>1. i \in Len(port) + 1 .. Len(port) + Len(wire) /\ i - Len(port) \in 1 .. Len(wire)
        BY <2>0, <2>2, <3>2
      <4>2. sent[i] = wire[i - Len(port)] /\ i - Len(port) \in DOMAIN wire
        BY <2>1, <4>1
      <4>3. wire[i - Len(port)].seq = applied + Len(port) + (i - Len(port))
        BY <1>1, <4>2 DEF OutputInv, ReaderInv
      <4>4. applied + Len(port) + (i - Len(port)) = applied + i
        BY <2>0, <4>1
      <4> QED
        BY <4>2, <4>3, <4>4
    <3> QED
      BY <3>1, <3>2
  <2>4. conn # 0 => conn = applied + Len(sent) + 1
    <3>1. applied + Len(sent) + 1 = applied + Len(port) + Len(wire) + 1
      BY <2>0, <2>1
    <3> QED
      BY <1>1, <3>1 DEF OutputInv, ReaderInv
  <2> QED
    BY <1>1, <2>3, <2>4 DEF Joined, sent, OutputInv, ReaderInv
<1>2. OutputInv => Joined
  BY <1>1 DEF Joined
<1> QED
  BY <1>2, OutputInductive, PTL

\* The screen shows the PTY's output from its beginning, each chunk once.
THEOREM ScreenExactHolds == Spec => []ScreenExact
<1>1. OutputInv => ScreenExact
  BY DEF OutputInv, ReaderInv, ScreenExact
<1> QED
  BY <1>1, OutputInductive, PTL

-----------------------------------------------------------------------------
(* The refinement of DurableStream.                                         *)

\* What DurableStream sees: the numbers up to the cursor.
Beginnings(n) == [i \in 1 .. n |-> i]

View ==
  /\ [n \in 1 .. cursor |-> index[n]] = Beginnings(cursor) /\ screen = Beginnings(applied)
  /\ cursor \in Nat /\ applied \in Nat /\ applied <= cursor

LEMMA ViewHolds == OutputInv => View
<1> SUFFICES ASSUME OutputInv PROVE View
  OBVIOUS
<1>0. /\ cursor \in Nat /\ applied \in Nat /\ Len(port) \in Nat /\ Len(wire) \in Nat
  BY ReaderNumbers
<1>1. \A n \in 1 .. cursor : index[n] = n
  <2>1. \A n \in 1 .. cursor : n \in Seqs
    BY JournalAssumption DEF OutputInv, JournalInv, TypeOK, Seqs, Chunks
  <2> QED
    BY <2>1 DEF OutputInv, JournalInv, FileInv, InOrder, Backed
<1>2. applied + Len(port) + Len(wire) <= cursor /\ screen = Beginnings(applied)
  BY DEF OutputInv, ReaderInv, Beginnings
<1>3. applied <= cursor
  BY <1>0, <1>2
<1> QED
  BY <1>0, <1>1, <1>2, <1>3 DEF View, Beginnings

LEMMA BeginningsAre ==
  ASSUME NEW n \in Nat
  PROVE  /\ Beginnings(n) \in Seq(Nat) /\ Len(Beginnings(n)) = n
         /\ Append(Beginnings(n), n + 1) = Beginnings(n + 1)
         /\ \A k \in 0 .. n : SubSeq(Beginnings(n), 1, k) = Beginnings(k)
<1>1. Beginnings(n) \in Seq(Nat) /\ Len(Beginnings(n)) = n
  BY DEF Beginnings
<1>2. Append(Beginnings(n), n + 1) = Beginnings(n + 1)
  BY DEF Beginnings
<1>3. ASSUME NEW k \in 0 .. n PROVE SubSeq(Beginnings(n), 1, k) = Beginnings(k)
  BY <1>1, Beginning DEF Beginnings
<1> QED
  BY <1>1, <1>2, <1>3

LEMMA RefinementInit == Init => Durable!Init
<1> SUFFICES ASSUME Init PROVE Durable!Init
  OBVIOUS
<1>1. cursor = 0 /\ opens = 0 /\ screen = <<>>
  BY DEF Init, JournalInit
<1>2. [n \in 1 .. cursor |-> index[n]] = <<>>
  BY <1>1
<1> QED
  BY <1>1, <1>2 DEF Durable!Init

\* The cursor moves by one and the screen stays, or a terminal is opened or goes on.
LEMMA RefinementStep ==
  ASSUME View, View',
         \/ cursor' \in {cursor, cursor + 1} /\ UNCHANGED <<opens, applied>>
         \/ /\ cursor' = cursor
            /\ opens' = opens + 1 \/ (opens' = opens /\ applied' >= applied)
  PROVE  [Durable!Next]_Durable!vars
<1> USE DEF Durable!vars
<1>0. /\ [n \in 1 .. cursor |-> index[n]] = Beginnings(cursor)
      /\ [n \in 1 .. cursor' |-> index'[n]] = Beginnings(cursor')
      /\ screen = Beginnings(applied) /\ screen' = Beginnings(applied')
      /\ cursor \in Nat /\ cursor' \in Nat /\ applied \in Nat /\ applied' \in Nat
      /\ applied <= cursor /\ applied' <= cursor'
  BY DEF View
<1>a. /\ Len(Beginnings(cursor)) = cursor
      /\ \A k \in 0 .. cursor : SubSeq(Beginnings(cursor), 1, k) = Beginnings(k)
  BY <1>0, BeginningsAre
<1>b. Len(screen) = applied
  BY <1>0, BeginningsAre
<1>1. CASE cursor' = cursor + 1 /\ UNCHANGED <<opens, applied>>
  <2>1. Beginnings(cursor') = Append(Beginnings(cursor), Len(Beginnings(cursor)) + 1)
    BY <1>0, <1>1, BeginningsAre
  <2>2. screen' = screen
    BY <1>0, <1>1
  <2>3. Durable!Store
    BY <1>0, <1>1, <2>1, <2>2 DEF Durable!Store
  <2> QED
    BY <2>3 DEF Durable!Next
<1>2. CASE cursor' = cursor /\ UNCHANGED <<opens, applied>>
  <2>1. screen' = screen /\ [n \in 1 .. cursor' |-> index'[n]] = [n \in 1 .. cursor |-> index[n]]
    BY <1>0, <1>2
  <2> QED
    BY <1>2, <2>1
<1>3. CASE cursor' = cursor /\ opens' = opens + 1
  <2>0. applied' \in 0 .. cursor
    BY <1>0, <1>3
  <2>1. screen' = SubSeq(Beginnings(cursor), 1, applied') /\ applied' \in 0 .. Len(Beginnings(cursor))
    BY <1>0, <1>a, <2>0
  <2>2. Durable!Open
    BY <1>0, <1>3, <2>1 DEF Durable!Open
  <2> QED
    BY <2>2 DEF Durable!Next
<1>4. CASE cursor' = cursor /\ opens' = opens /\ applied' >= applied
  <2>0. applied' \in 0 .. cursor /\ applied' \in applied .. cursor
    BY <1>0, <1>4
  <2>1. /\ screen' = SubSeq(Beginnings(cursor), 1, applied')
        /\ applied' \in Len(screen) .. Len(Beginnings(cursor))
    BY <1>0, <1>a, <1>b, <2>0
  <2>2. Durable!Show
    BY <1>0, <1>4, <2>1 DEF Durable!Show
  <2> QED
    BY <2>2 DEF Durable!Next
<1> QED
  BY <1>0, <1>1, <1>2, <1>3, <1>4

LEMMA CursorSteps == ASSUME OutputInv, [Next]_vars PROVE cursor' \in {cursor, cursor + 1}
<1>1. CASE (JournalStep /\ UNCHANGED readerVars) \/ Crash
  BY <1>1, CursorGrows DEF OutputInv, Crash
<1>2. CASE ReaderStep
  BY <1>2 DEF ReaderStep, StreamStep, OpenTerminal, CloseTerminal, ControlLost,
              LoseConnection, Connect, Reconnect, Pump, PumpFails, Receive, Apply
<1> QED
  BY <1>1, <1>2 DEF Next

\* Files, rows, crashes, adoption, reconnections and queues make one durable stream: what
\* is stored grows by the next chunk, and a view is a beginning of it that only grows.
THEOREM OutputImplementsStream == Spec => ImplementsDurableStream
<1>1. Init => Durable!Init
  BY RefinementInit
<1>2. OutputInv => View
  BY ViewHolds
<1>3. OutputInv /\ View /\ View' /\ [Next]_vars => [Durable!Next]_Durable!vars
  <2> SUFFICES ASSUME OutputInv, View, View', [Next]_vars PROVE [Durable!Next]_Durable!vars
    OBVIOUS
  <2>1. CASE (JournalStep /\ UNCHANGED readerVars) \/ Crash
    BY <2>1, CursorSteps, RefinementStep DEF Crash
  <2>2. CASE ReaderStep
    <3>1. cursor' = cursor
      BY <2>2 DEF ReaderStep, StreamStep, OpenTerminal, CloseTerminal, ControlLost,
                  LoseConnection, Connect, Reconnect, Pump, PumpFails, Receive, Apply
    <3>2. opens' = opens + 1 \/ (opens' = opens /\ applied' >= applied)
      <4>1. applied \in Nat /\ applied >= applied
        BY DEF View
      <4>2. CASE Apply
        <5>1. port # <<>> /\ opens' = opens
          BY <4>2 DEF Apply
        <5>2. applied' = applied \/ (InSequence(Head(port)) /\ applied' = Head(port).seq)
          BY <4>2 DEF Apply
        <5>3. applied' = applied \/ applied' = applied + 1
          BY <5>2 DEF InSequence
        <5> QED
          BY <4>1, <5>1, <5>3
      <4> QED
        BY <2>2, <4>1, <4>2
           DEF ReaderStep, StreamStep, OpenTerminal, CloseTerminal, ControlLost,
               LoseConnection, Connect, Reconnect, Pump, PumpFails, Receive
    <3> QED
      BY <3>1, <3>2, RefinementStep
  <2>3. CASE UNCHANGED vars
    BY <2>3, RefinementStep
  <2> QED
    BY <2>1, <2>2, <2>3 DEF Next
<1> QED
  BY <1>1, <1>2, <1>3, OutputInductive, PTL DEF Spec, ImplementsDurableStream, Durable!Spec

\* The first n chunks are in the store, each under its number and, but for damage from
\* outside, in its file.
Kept(n) == \A i \in 1 .. n : index[i] = i /\ (i \in bad \/ file[i] = i)

LEMMA CoveredIsKept == ASSUME OutputInv, NEW n \in Nat, n <= cursor PROVE Kept(n)
<1>1. \A i \in 1 .. n : i \in 1 .. cursor /\ i \in Seqs
  BY ReaderNumbers, JournalAssumption DEF Seqs
<1> QED
  BY <1>1 DEF OutputInv, JournalInv, FileInv, InOrder, Backed, Kept

\* What a terminal has shown, or a stored Snapshot covers, is in the store from then on,
\* chunk for chunk: no failed append, crash, lost rename, quarantine or adoption takes back
\* what a reader has seen (appendFrame, readSessionDelta, reconcileStore).
THEOREM ShownIsKept ==
  ASSUME NEW n \in Nat
  PROVE  Spec => [](applied >= n \/ snapshot.covers >= n => []Kept(n))
<1>1. ASSUME OutputInv, PublishedIsDurable, applied >= n \/ snapshot.covers >= n
      PROVE  cursor >= n
  <2>1. cursor \in Nat /\ applied \in Nat /\ snapshot.covers \in Nat
    BY <1>1, ReaderNumbers DEF OutputInv, JournalInv, TypeOK, Chunks
  <2> QED
    BY <1>1, <2>1 DEF PublishedIsDurable
<1>2. ASSUME OutputInv, cursor >= n, [Next]_vars PROVE (cursor >= n)'
  BY <1>2, CursorSteps, ReaderNumbers
<1>3. OutputInv /\ cursor >= n => Kept(n)
  BY CoveredIsKept, ReaderNumbers
<1>4. OutputInv /\ PublishedIsDurable /\ (applied >= n \/ snapshot.covers >= n) => cursor >= n
  BY <1>1
<1>5. OutputInv /\ cursor >= n /\ [Next]_vars => (cursor >= n)'
  BY <1>2
<1> QED
  BY <1>3, <1>4, <1>5, OutputInductive, PublishedDurable, PTL DEF Spec


\* The stored output is the PTY's, in order, backed by its files and durable before it leaves
\* the Daemon, whatever fails or crashes.
THEOREM StoreIsSound == Spec => []StoreSound
<1>1. StoredInOrder /\ FileBehindRow /\ PublishedIsDurable => StoreSound
  BY DEF StoreSound
<1> QED
  BY <1>1, StoredInOrderHolds, FileBehindRowHolds, PublishedDurable, PTL

\* The screen shows the output from its beginning, each chunk once, over every Snapshot,
\* delta and reconnection.
THEOREM ScreenIsFaithful == Spec => []ScreenFaithful
<1>1. SnapshotSound /\ Joined /\ ScreenExact => ScreenFaithful
  BY DEF ScreenFaithful
<1> QED
  BY <1>1, SnapshotSoundHolds, JoinedHolds, ScreenExactHolds, PTL
================================================================================
